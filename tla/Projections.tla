----------------------------- MODULE Projections ------------------------------
(***************************************************************************)
(* What Eventize and the run derive from one entity's observations besides *)
(* its events: segment, track and entity rows (buildSegments, buildTrack,  *)
(* buildEntity), edge counters, the run's step diagnostics and totals.     *)
(*                                                                         *)
(* The eventizer runs as in Eventizer; when its input ends the projections *)
(* are built and added to the totals of the run, and the next entity       *)
(* follows.  A Go map of counters is a bag of its keys: the tally of what  *)
(* it counts.                                                              *)
(*                                                                         *)
(* A definition D_Variant is D as a plausible defect would leave it.       *)
(***************************************************************************)
EXTENDS Eventizer, Bags, Functions

CONSTANTS
  DtBounds,        \* upper bounds of the dt buckets, in seconds
  DistanceBounds,  \* upper bounds of the distance buckets, in metres
  MaxEntities      \* bound on the entities of the run

Increasing(bounds) ==
  \A j, k \in DOMAIN bounds : j < k => bounds[j] < bounds[k]

ASSUME BoundsAssumption ==
  /\ DtBounds \in Seq(Nat) /\ Len(DtBounds) >= 2 /\ Increasing(DtBounds)
  /\ DistanceBounds \in Seq(Nat) /\ Len(DistanceBounds) >= 3
  /\ Increasing(DistanceBounds)
  /\ MaxEntities \in Nat

VARIABLES
  tables,  \* the rows built for the entity, or NoTables
  totals   \* what the run has added up over the entities

projectionVars == <<vars, tables, totals>>

\* How often f takes each of its values, as a bag.
Tally(f) == [k \in Range(f) |-> Cardinality({i \in DOMAIN f : f[i] = k})]

-----------------------------------------------------------------------------
(* Edges.  The edge i joins observations i - 1 and i.                      *)

Known(i) == obs[i].ha # MissingHA
AccuracyStates ==
  {"both_known", "previous_missing", "current_missing", "both_missing"}
EdgeAccuracyState(i) ==
  CASE Known(i - 1) /\ Known(i)  -> "both_known"
    [] ~Known(i - 1) /\ Known(i) -> "previous_missing"
    [] Known(i - 1) /\ ~Known(i) -> "current_missing"
    [] OTHER                     -> "both_missing"

StepDT(i)        == obs[i].ts - obs[i - 1].ts
StepDistance(i)  == DistanceM(obs[i - 1].place, obs[i].place)
StepEffective(i) == EffectiveDistance(obs[i - 1], obs[i])

\* The eventizer and the pipeline each have a copy of this function.
DiscontinuityReason(i) ==
  LET jump  == StepEffective(i) > MaxJumpM
      speed == StepEffective(i) > MaxSpeedMPS * StepDT(i)
  IN  CASE jump /\ speed  -> "jump_and_speed"
        [] jump /\ ~speed -> "jump_only"
        [] ~jump /\ speed -> "speed_only"
        [] OTHER          -> "unknown"

Edge == 2..Len(obs)
IsBreak(i) == obs[i].gap \/ obs[i].disc

EdgeKinds_DiscFirst(i) ==
  IF obs[i].disc THEN {"discontinuity_edges"}
  ELSE IF obs[i].gap THEN {"gap_edges"}
  ELSE {"continuous_edges"}
EdgeKinds(i) ==
  (IF ~IsBreak(i) THEN {"continuous_edges"} ELSE {})
    \cup (IF obs[i].gap THEN {"gap_edges"} ELSE {})
    \cup (IF obs[i].disc THEN {"discontinuity_edges"} ELSE {})
    \cup (IF obs[i].gap /\ obs[i].disc THEN {"gap_and_discontinuity_edges"}
          ELSE {})

\* EdgeCounters, AccuracyAttribution, DiscontinuityReasons and
\* DiscontinuityReasonAccuracy of EventizerDiagnostics, from the edges.
EdgeDiagnostics ==
  LET kinds == {"continuous_edges", "gap_edges", "discontinuity_edges",
                "gap_and_discontinuity_edges"}
      disc  == {i \in Edge : obs[i].disc}
      attributed == {k \in (kinds \ {"gap_and_discontinuity_edges"}) \X Edge :
                       k[1] \in EdgeKinds(k[2])}
  IN  [edges |-> [k \in kinds |-> Cardinality({i \in Edge : k \in EdgeKinds(i)})],
       attribution |->
         Tally([k \in attributed |-> <<k[1], EdgeAccuracyState(k[2])>>]),
       reasons |-> Tally([i \in disc |-> DiscontinuityReason(i)]),
       reasonAccuracy |->
         Tally([i \in disc |-> <<DiscontinuityReason(i), EdgeAccuracyState(i)>>])]

-----------------------------------------------------------------------------
(* Aggregates over a span of observations.                                 *)

WithHA_ExcludesFirst(from, to) == Cardinality({i \in from + 1..to : Known(i)})
WithHA(from, to) == Cardinality({i \in from..to : Known(i)})

AccuracySupportClass(with, without) ==
  CASE with > 0 /\ without = 0 -> "all_known"
    [] with = 0 /\ without > 0 -> "all_missing"
    [] with > 0 /\ without > 0 -> "mixed"
    [] OTHER                   -> "none"
SupportOf(from, to) ==
  AccuracySupportClass(WithHA(from, to), to - from + 1 - WithHA(from, to))

\* The runs of from..to between the edges in cuts, in order.
RunsOf(from, to, cuts) ==
  LET first == {from} \cup (cuts \cap from + 1..to)
      next(i) == CHOOSE j \in {k \in first : k > i} \cup {to + 1} :
                   \A k \in first : k > i => j <= k
  IN  [n \in 1..Cardinality(first) |->
         LET i == CHOOSE f \in first : Cardinality(first \cap from..f) = n
         IN  <<i, next(i) - 1>>]

-----------------------------------------------------------------------------
(* Segment, track and entity rows.                                         *)

SegmentPathEdges(first, last) == {i \in first + 1..last : ~obs[i].gap}

SegmentRow(first, last) ==
  LET path == SegmentPathEdges(first, last)
  IN  [first    |-> first,
       last     |-> last,
       withHA   |-> WithHA(first, last),
       support  |-> SupportOf(first, last),
       edges    |-> Tally([i \in first + 1..last |-> EdgeAccuracyState(i)]),
       gaps     |-> Cardinality({i \in first + 1..last : obs[i].gap}),
       pathM    |-> SumFunction([i \in path |-> StepDistance(i)]),
       observedS |-> SumFunction([i \in path |-> StepDT(i)]),
       runs     |-> RunsOf(first, last, {i \in Edge : obs[i].gap}),
       startReason |-> IF first = 1 THEN "track_start" ELSE "discontinuity",
       endReason   |-> IF last = Len(obs) THEN "track_end" ELSE "discontinuity"]

\* Maximal spans of equal segment id.
BuildSegments ==
  LET spans == RunsOf(1, Len(obs),
                      {i \in Edge : obs[i].segment # obs[i - 1].segment})
  IN  [n \in DOMAIN spans |-> SegmentRow(spans[n][1], spans[n][2])]

Duration(p) == obs[p.end].ts - obs[p.start].ts

TrackRunCut_Gap(i) == obs[i].gap
TrackRunCut(i) == IsBreak(i)
TrackPathEdges_NoGap(i) == ~obs[i].gap
TrackPathEdges(i) == ~IsBreak(i)

\* es, ps and ts are the entity's events, presence intervals and transitions.
BuildTrack(es, segments, ps, ts) ==
  LET dwells == {k \in DOMAIN ps : ps[k].class = "DWELL"}
      path   == {i \in Edge : TrackPathEdges(i)}
  IN  [coverageS   |-> obs[Len(obs)].ts - obs[1].ts,
       observations |-> Len(obs),
       events      |-> Len(es),
       segments    |-> Len(segments),
       presences   |-> Len(ps),
       transitions |-> Len(ts),
       gaps        |-> Cardinality({i \in Edge : obs[i].gap}),
       discs       |-> Cardinality({i \in Edge : obs[i].disc}),
       withHA      |-> WithHA(1, Len(obs)),
       support     |-> SupportOf(1, Len(obs)),
       pathM       |-> SumFunction([i \in path |-> StepDistance(i)]),
       runs        |-> RunsOf(1, Len(obs), {i \in Edge : TrackRunCut(i)}),
       dwells      |-> Cardinality(dwells),
       stays       |-> Len(ps) - Cardinality(dwells),
       dwellS      |-> SumFunction([k \in dwells |-> Duration(ps[k])])]

\* TotalPresenceS of the entity row; the sum of DurationS over the entity's
\* transition rows stands beside it.
BuildEntity(ps, ts) ==
  [presenceS |-> SumFunction([k \in DOMAIN ps |-> Duration(ps[k])]),
   transitS  |-> SumFunction([k \in DOMAIN ts |->
                   obs[ts[k].destination].ts - obs[ts[k].depart].ts])]

\* The accuracy columns makeTransition gives a transition.
MovementSupport(t) ==
  [withHA  |-> WithHA(t.depart, t.destination),
   withoutHA |-> t.destination - t.depart + 1 - WithHA(t.depart, t.destination),
   support |-> SupportOf(t.depart, t.destination)]

-----------------------------------------------------------------------------
(* Step diagnostics of the run.                                            *)

\* The bucket of a value is the number of bounds it has reached.
Bucket(value, bounds) == Cardinality({b \in DOMAIN bounds : bounds[b] <= value})
DtBucket(i) == Bucket(StepDT(i), DtBounds)
DistanceBucket(i) == Bucket(StepEffective(i), DistanceBounds)

StepDiagnostics ==
  LET disc  == {i \in Edge : obs[i].disc}
      speed == {i \in disc : DiscontinuityReason(i) = "speed_only"}
      micro(i) == DtBucket(i) = 0 /\ DistanceBucket(i) = 0
  IN  [edgeDT |-> Tally([i \in Edge |-> <<EdgeAccuracyState(i), DtBucket(i)>>]),
       discDT |-> Tally([i \in disc |-> <<EdgeAccuracyState(i), DtBucket(i)>>]),
       reasonAccuracyDT |->
         Tally([i \in disc |->
           <<DiscontinuityReason(i), EdgeAccuracyState(i), DtBucket(i)>>]),
       dtDistance |->
         Tally([i \in speed |-> <<DtBucket(i), DistanceBucket(i)>>]),
       accuracyDTDistance |->
         Tally([i \in speed |->
           <<EdgeAccuracyState(i), DtBucket(i), DistanceBucket(i)>>]),
       classes |->
         Tally([i \in speed |->
           IF micro(i) THEN "micro_displacement" ELSE "other_speed_only"])]

\* isTargetPopulationObservation, with bounds of its own that are meant to be
\* those of the buckets: 0 < dt < 5 s and 50 <= distance < 500 m.
TargetEdge_Inclusive(i) ==
  /\ EdgeAccuracyState(i) = "both_missing" /\ obs[i].disc
  /\ DiscontinuityReason(i) = "speed_only"
  /\ 0 < StepDT(i) /\ StepDT(i) <= DtBounds[2]
  /\ DistanceBounds[2] <= StepEffective(i)
  /\ StepEffective(i) < DistanceBounds[3]
TargetEdge(i) ==
  /\ EdgeAccuracyState(i) = "both_missing" /\ obs[i].disc
  /\ DiscontinuityReason(i) = "speed_only"
  /\ 0 < StepDT(i) /\ StepDT(i) < DtBounds[2]
  /\ DistanceBounds[2] <= StepEffective(i)
  /\ StepEffective(i) < DistanceBounds[3]

TargetPopulation ==
  LET pairs == {i \in 3..Len(obs) : TargetEdge(i - 1) /\ TargetEdge(i)}
  IN  [count |-> Cardinality({i \in Edge : TargetEdge(i)}),
       pairs |-> Cardinality(pairs),
       exactReturns |->
         Cardinality({i \in pairs : obs[i - 2].place = obs[i].place})]

-----------------------------------------------------------------------------
(* The run.                                                                *)

NoTables == [built |-> FALSE]

\* The primed variables are what Eventize returns.
Built ==
  LET segments == BuildSegments
  IN  [built    |-> TRUE,
       segments |-> segments,
       track    |-> BuildTrack(events', segments, presence', transitions'),
       entity   |-> BuildEntity(presence', transitions'),
       movement |-> [k \in DOMAIN transitions' |-> MovementSupport(transitions'[k])],
       edges    |-> EdgeDiagnostics,
       steps    |-> StepDiagnostics,
       target   |-> TargetPopulation]

\* Each counter of b added to that of a; a map of counters is added key by key.
AddCounters(a, b) == [k \in DOMAIN a |-> a[k] + b[k]]
AddMaps(a, b) == [k \in DOMAIN a |-> a[k] (+) b[k]]

Maps(t) ==
  [attribution |-> t.edges.attribution, reasons |-> t.edges.reasons,
   reasonAccuracy |-> t.edges.reasonAccuracy, edgeDT |-> t.steps.edgeDT,
   discDT |-> t.steps.discDT, reasonAccuracyDT |-> t.steps.reasonAccuracyDT,
   dtDistance |-> t.steps.dtDistance,
   accuracyDTDistance |-> t.steps.accuracyDTDistance,
   classes |-> t.steps.classes,
   segmentSupport |-> Tally([n \in DOMAIN t.segments |-> t.segments[n].support]),
   entitySupport |-> Tally([n \in {1} |-> t.track.support])]

NoTotals ==
  [counters |-> [k \in {"entities", "normalized", "segments", "presence",
                        "transitions", "events", "gaps", "discs", "withHA",
                        "targets", "targetPairs", "exactReturns"} |-> 0],
   edges |-> [k \in {"continuous_edges", "gap_edges", "discontinuity_edges",
                     "gap_and_discontinuity_edges"} |-> 0],
   maps |-> [k \in {"attribution", "reasons", "reasonAccuracy", "edgeDT",
                    "discDT", "reasonAccuracyDT", "dtDistance",
                    "accuracyDTDistance", "classes", "segmentSupport",
                    "entitySupport"} |-> EmptyBag]]

\* What pipeline.Run adds up for one result; the decision counters, which
\* Eventizer has, and the classes of presences and transitions are left out.
Counts(t) ==
  [entities |-> 1, normalized |-> t.track.observations,
   segments |-> Len(t.segments), presence |-> t.track.presences,
   transitions |-> t.track.transitions, events |-> t.track.events,
   gaps |-> t.track.gaps, discs |-> t.track.discs, withHA |-> t.track.withHA,
   targets |-> t.target.count, targetPairs |-> t.target.pairs,
   exactReturns |-> t.target.exactReturns]
Accumulated(t) ==
  [counters |-> AddCounters(totals.counters, Counts(t)),
   edges    |-> AddCounters(totals.edges, t.edges.edges),
   maps     |-> AddMaps(totals.maps, Maps(t))]

Observe ==
  \E o \in Incoming :
    /\ \/ ContinuityBreak(o) \/ ConfirmArrival(o) \/ ConfirmPresence(o)
       \/ Reanchor(o) \/ RemainInside(o) \/ DepartUnconfirmed(o)
       \/ StartCandidate(o) \/ RestartCandidate(o) \/ ConfirmDeparture(o)
    /\ UNCHANGED <<tables, totals>>

\* The end of an entity: Eventize returns and the run adds up its result.
FinishEntity ==
  /\ Finish
  /\ tables' = Built
  /\ totals' = Accumulated(tables')

NextEntity ==
  /\ Finished /\ totals.counters["entities"] < MaxEntities
  /\ \E p \in Place, h \in HA : obs' = <<FirstObservation(p, h)>>
  /\ state' = Seeking(1, "dataset_start")
  /\ pending' = NoPending
  /\ events' = <<Event("START", 1, 0)>>
  /\ presence' = <<>> /\ transitions' = <<>>
  /\ diag' = [c \in Counter |-> 0]
  /\ result' = NoResult
  /\ tables' = NoTables
  /\ UNCHANGED totals

ProjectionInit == Init /\ tables = NoTables /\ totals = NoTotals
ProjectionNext == Observe \/ FinishEntity \/ NextEntity
ProjectionSpec == ProjectionInit /\ [][ProjectionNext]_projectionVars

-----------------------------------------------------------------------------
(* Properties.                                                             *)

Total(name) == totals.counters[name]
EdgeTotal(kind) == totals.edges[kind]
MapTotal(name) == SumFunction(totals.maps[name])
\* The entries of a map of counters with these keys.
Slice(name, keys) ==
  SumFunction([k \in DOMAIN totals.maps[name] \cap keys |-> totals.maps[name][k]])

\* docs/DIAGNOSTICS.md, Continuity diagnostics: the edge counters of a run close
\* on its edges, each is explained by its accuracy attribution and, for
\* discontinuities, its reasons, and they are the gaps and discontinuities
\* the track rows count by themselves.
EdgesClose ==
  /\ EdgeTotal("continuous_edges") + EdgeTotal("gap_edges")
       + EdgeTotal("discontinuity_edges")
       - EdgeTotal("gap_and_discontinuity_edges")
     = Total("normalized") - Total("entities")
  /\ \A kind \in {"continuous_edges", "gap_edges", "discontinuity_edges"} :
       Slice("attribution", {kind} \X AccuracyStates) = EdgeTotal(kind)
  /\ MapTotal("reasons") = EdgeTotal("discontinuity_edges")
  /\ "unknown" \notin DOMAIN totals.maps["reasons"]
  /\ \A r \in DOMAIN totals.maps["reasons"] :
       Slice("reasonAccuracy", {r} \X AccuracyStates) = totals.maps["reasons"][r]
  /\ EdgeTotal("gap_edges") = Total("gaps")
  /\ EdgeTotal("discontinuity_edges") = Total("discs")

\* docs/DIAGNOSTICS.md, Structured source characterization: the run's step
\* diagnostics, gathered by other code than the eventizer's, describe the same
\* edges, the speed-only tables each sum to the speed-only count, and the
\* target population is one cell of them.
StepDiagnosticsAgree ==
  /\ MapTotal("edgeDT") = Total("normalized") - Total("entities")
  /\ MapTotal("discDT") = EdgeTotal("discontinuity_edges")
  /\ \A k \in DOMAIN totals.maps["reasonAccuracy"] :
       Slice("reasonAccuracyDT", {k[1]} \X {k[2]} \X Nat)
         = totals.maps["reasonAccuracy"][k]
  /\ LET speedOnly == Slice("reasons", {"speed_only"})
     IN  /\ MapTotal("dtDistance") = speedOnly
         /\ MapTotal("accuracyDTDistance") = speedOnly
         /\ MapTotal("classes") = speedOnly
  /\ Slice("accuracyDTDistance", {"both_missing"} \X {0, 1} \X {2})
       = Total("targets")
  /\ Total("exactReturns") <= Total("targetPairs")
  /\ Total("targetPairs") <= Total("targets")

Segments == tables.segments
Track == tables.track

\* The segment rows tile the track, in the order of the segment ids of the
\* observations, and what they add up is what the track row has computed from
\* the observations: path, fixes, and gaps and edges but for those lost at a
\* discontinuity.
SegmentsTileTrack ==
  tables.built =>
    /\ Segments[1].first = 1 /\ Segments[Len(Segments)].last = Len(obs)
    /\ \A n \in 1..Len(Segments) - 1 : Segments[n + 1].first = Segments[n].last + 1
    /\ \A n \in DOMAIN Segments : \A i \in Segments[n].first..Segments[n].last :
         obs[i].segment = n
    /\ Len(Segments) = Track.discs + 1
    /\ SumFunction([n \in DOMAIN Segments |-> Segments[n].pathM]) = Track.pathM
    /\ SumFunction([n \in DOMAIN Segments |-> Segments[n].withHA]) = Track.withHA
    /\ SumFunction([n \in DOMAIN Segments |-> Segments[n].gaps])
         + tables.edges.edges["gap_and_discontinuity_edges"] = Track.gaps
    /\ SumFunction([n \in DOMAIN Segments |-> SumFunction(Segments[n].edges)])
         + Track.discs = Len(obs) - 1
    /\ SumFunction([n \in DOMAIN Segments |-> Segments[n].observedS])
         <= Track.coverageS

\* The line geometry of the track is that of its segments end to end, although
\* each is cut by its own rule, and no claim of the eventizer crosses a cut: a
\* presence interval and a transition each lie within one drawn line.
ConcatenatedRuns[n \in Nat] ==
  IF n = 0 THEN <<>> ELSE ConcatenatedRuns[n - 1] \o Segments[n].runs
WithinOneRun(from, to) ==
  \E r \in DOMAIN Track.runs : Track.runs[r][1] <= from /\ to <= Track.runs[r][2]
PathRunsAgree ==
  tables.built =>
    /\ Track.runs = ConcatenatedRuns[Len(Segments)]
    /\ \A k \in DOMAIN presence : WithinOneRun(presence[k].start, presence[k].end)
    /\ \A k \in DOMAIN transitions :
         WithinOneRun(transitions[k].depart, transitions[k].destination)

\* The accuracy columns of a transition cover exactly its observations, so its
\* coverage and class are about the rows ObservationCount counts; a track is of
\* one class exactly when all its segments are.
SupportMatchesRows ==
  tables.built =>
    /\ \A k \in DOMAIN transitions :
         /\ tables.movement[k].withHA + tables.movement[k].withoutHA
              = transitions[k].count
         /\ tables.movement[k].support # "none"
    /\ \A class \in {"all_known", "all_missing"} :
         Track.support = class
           <=> \A n \in DOMAIN Segments : Segments[n].support = class
    /\ MapTotal("segmentSupport") = Total("segments")
    /\ MapTotal("entitySupport") = Total("entities")

\* The entity's time is spent once: its presence intervals and the transitions
\* between them together take no more than the track covers, whatever breaks
\* and unconfirmed departures lie between.
TimeIsSpentOnce ==
  tables.built =>
    tables.entity.presenceS + tables.entity.transitS <= Track.coverageS

\* The rows of one entity agree in what they count and in how long they take.
RowsFitTogether == SupportMatchesRows /\ TimeIsSpentOnce
=============================================================================
