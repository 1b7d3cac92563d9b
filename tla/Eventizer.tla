------------------------------ MODULE Eventizer ------------------------------
(***************************************************************************)
(* The per-entity mobility eventizer: the loop of Eventize in              *)
(* internal/eventizer/eventizer.go.  It reads one entity's normalized      *)
(* observations in strictly increasing time order and emits events,        *)
(* presence intervals and transitions.                                     *)
(*                                                                         *)
(* The code computes the metrics of every edge first and then runs the     *)
(* loop; an edge depends only on its two ends, so here an observation is   *)
(* measured when the loop reaches it.  Indices start at 1 (the code's      *)
(* start at 0).  An identifier derived by hashing an observation is the    *)
(* index of that observation: presence id = index of its first member.     *)
(*                                                                         *)
(* A definition D_Variant is D as a plausible defect would leave it.  No   *)
(* definition uses it: it shows that a property can tell the difference.   *)
(***************************************************************************)
EXTENDS Integers, Sequences, FiniteSets

CONSTANTS
  Place,              \* positions a fix may report
  DistanceM(_, _),    \* centre-to-centre distance of two positions
  MeanCentroid(_),    \* mean position of a sequence of positions
  HA,                 \* accuracy radii a fix may carry, or MissingHA
  StepS,              \* elapsed seconds from one fix to the next
  MaxObs,             \* bound on the length of the trajectory
  MoveRadiusM, DwellThresholdS, GapThresholdS,
  MaxSpeedMPS, MaxJumpM, ConfirmWindowS,
  ConfirmMoves        \* config.ConfirmMoves

\* The radius of an observation whose HA cell is blank (HasHA = false).
MissingHA == -1

ASSUME PlaceAssumption ==
  \A p, q \in Place : DistanceM(p, q) \in Nat /\ DistanceM(p, p) = 0
ASSUME HAAssumption == HA \subseteq Nat \cup {MissingHA}
\* A cap of the sphere smaller than a hemisphere is convex: the mean of
\* positions as near p as the members of a presence are to its anchor is no
\* farther from p than one of them.
ASSUME CentroidAssumption ==
  \A p \in Place, n \in 1..MaxObs : \A s \in [1..n -> Place] :
    (\A m \in 1..n : \E g, h \in HA \cup {0} :
        DistanceM(p, s[m]) <= MoveRadiusM + g + h)
      => /\ DistanceM(MeanCentroid(s), p) \in Nat
         /\ \E m \in 1..n : DistanceM(MeanCentroid(s), p) <= DistanceM(p, s[m])
ASSUME StepAssumption == StepS \subseteq Nat \ {0}
ASSUME ConfigAssumption ==
  /\ {MoveRadiusM, DwellThresholdS, GapThresholdS, MaxSpeedMPS, MaxJumpM,
      ConfirmWindowS, MaxObs} \subseteq Nat
  /\ ConfirmMoves \in BOOLEAN

VARIABLES
  obs,          \* the observations read so far, measured
  state,        \* presenceState
  pending,      \* pendingTransition, or NoPending
  events,       \* events in the order they are appended
  presence,     \* closed presence intervals
  transitions,  \* confirmed transitions
  diag,         \* EventizerDiagnostics counters
  result        \* what Eventize returns: NoResult until the input ends

vars == <<obs, state, pending, events, presence, transitions, diag, result>>

-----------------------------------------------------------------------------
(* Geometry and edges.                                                     *)

\* A blank HA is not an uncertainty of zero: nothing known is subtracted.
KnownRadius(o) == IF o.ha = MissingHA THEN 0 ELSE o.ha

EffectiveDistance(p, q) ==
  LET v == DistanceM(p.place, q.place) - KnownRadius(p) - KnownRadius(q)
  IN  IF v < 0 THEN 0 ELSE v

WithinPresence(anchor, cur) == EffectiveDistance(anchor, cur) <= MoveRadiusM

WithinCentroid(o, centroid) ==
  DistanceM(centroid, o.place) <= MoveRadiusM + KnownRadius(o)

\* A fix as it arrives: where, how accurate, and how long after the last one.
Fix == [place : Place, ha : HA, dt : StepS]

IsGap(dt) == dt > GapThresholdS
IsDiscontinuity(eff, dt) == eff > MaxJumpM \/ eff > MaxSpeedMPS * dt

Measured(prev, fix) ==
  LET eff  == EffectiveDistance(prev, fix)
      disc == IsDiscontinuity(eff, fix.dt)
  IN  [ts      |-> prev.ts + fix.dt,
       place   |-> fix.place,
       ha      |-> fix.ha,
       gap     |-> IsGap(fix.dt),
       disc    |-> disc,
       segment |-> IF disc THEN prev.segment + 1 ELSE prev.segment]

FirstObservation_SegmentZero(p, h) ==
  [ts |-> 0, place |-> p, ha |-> h, gap |-> FALSE, disc |-> FALSE, segment |-> 0]

FirstObservation(p, h) ==
  [ts |-> 0, place |-> p, ha |-> h, gap |-> FALSE, disc |-> FALSE, segment |-> 1]

-----------------------------------------------------------------------------
(* State of the loop.                                                      *)

StartReasons ==
  {"dataset_start", "continuity_reset", "candidate_presence", "movement_arrival"}
EndReasons == {"dataset_end", "gap", "discontinuity", "confirmed_movement"}

Counter ==
  {"PresenceConfirmations", "PresenceStartDataset",
   "PresenceStartContinuityReset", "PresenceStartCandidate",
   "PresenceStartMovementArrival", "PresenceEndDataset", "PresenceEndGap",
   "PresenceEndDiscontinuity", "PresenceEndConfirmedMovement",
   "DepartureCandidateSequences", "DepartureCandidateOutsideFixes",
   "DepartureCandidatesReturnedInside", "DepartureCandidateWindowExpired",
   "DepartureCandidatesCancelledGap",
   "DepartureCandidatesCancelledDiscontinuity",
   "DepartureCandidatesCancelledEOF", "DeparturesConfirmed",
   "PendingTransitionsStarted", "TransitionsConfirmed",
   "PendingTransitionsCancelledGap",
   "PendingTransitionsCancelledDiscontinuity",
   "PendingTransitionsCancelledSegmentMismatch",
   "PendingTransitionsUnresolvedEOF", "EnterSuppressedNoPendingTransition"}

\* recordPresenceStart and recordPresenceEnd.
PresenceStartCounters(reason) ==
  {"PresenceConfirmations",
   CASE reason = "dataset_start"      -> "PresenceStartDataset"
     [] reason = "continuity_reset"   -> "PresenceStartContinuityReset"
     [] reason = "candidate_presence" -> "PresenceStartCandidate"
     [] reason = "movement_arrival"   -> "PresenceStartMovementArrival"}
PresenceEndCounter(reason) ==
  CASE reason = "dataset_end"        -> "PresenceEndDataset"
    [] reason = "gap"                -> "PresenceEndGap"
    [] reason = "discontinuity"      -> "PresenceEndDiscontinuity"
    [] reason = "confirmed_movement" -> "PresenceEndConfirmedMovement"

Counted(names) == [c \in Counter |-> diag[c] + (IF c \in names THEN 1 ELSE 0)]

\* The names of S when the condition holds, none otherwise.
When(condition, S) == IF condition THEN S ELSE {}

Seeking(i, reason) ==
  [phase |-> "seeking", anchorIdx |-> i, members |-> <<i>>,
   moveCandidates |-> <<>>, startReason |-> reason, enterEvent |-> FALSE]

NoPending == [origin |-> 0, segment |-> 0, departIdx |-> 0]
NoResult  == [events |-> <<>>, label |-> <<>>]

Event(source, i, id) == [source |-> source, at |-> i, presence |-> id]

-----------------------------------------------------------------------------
(* Building the output records.                                            *)

\* Edges of the span that are not continuity breaks, plus one.
ObservedCount(from, to) ==
  1 + Cardinality({i \in from + 1 .. to : ~obs[i].gap /\ ~obs[i].disc})

\* closePresence; the guard of its early return is Closable.
Closable_ThreeMembers == state.phase = "present" /\ Len(state.members) >= 3
Closable_WhileSeeking == state.members # <<>>

Closable == state.phase = "present" /\ Len(state.members) >= 2

ClosedPresence(reason) ==
  LET first == state.members[1]
      last  == state.members[Len(state.members)]
  IN  [start       |-> first,
       end         |-> last,
       segment     |-> obs[first].segment,
       count       |-> Len(state.members),
       class       |-> IF obs[last].ts - obs[first].ts >= DwellThresholdS
                         THEN "DWELL" ELSE "STAY",
       centroid    |-> MeanCentroid([m \in DOMAIN state.members |->
                                       obs[state.members[m]].place]),
       startReason |-> state.startReason,
       endReason   |-> reason,
       entered     |-> state.enterEvent]

IntervalEvent(p) == Event(p.class, p.start, p.start)

MakeTransition(dest) ==
  [origin      |-> pending.origin,
   destination |-> dest,
   depart      |-> pending.departIdx,
   segment     |-> obs[dest].segment,
   count       |-> ObservedCount(pending.departIdx, dest),
   destCount   |-> 0]

-----------------------------------------------------------------------------
(* The loop body, one action per branch.  Each reads one measured          *)
(* observation o, whose index is Len(obs) + 1.                             *)

Incoming ==
  IF result = NoResult /\ Len(obs) < MaxObs
    THEN {Measured(obs[Len(obs)], fix) : fix \in Fix} ELSE {}

Now == Len(obs) + 1

\* Distances are taken to the fixed anchor, not to the latest fix inside.
Anchor == obs[state.anchorIdx]
Consume(o) == obs' = Append(obs, o) /\ UNCHANGED result
Continues(o) == ~o.gap /\ ~o.disc

\* A departure candidate is waiting for its confirmation.
CandidateOpen == state.phase = "present" /\ state.moveCandidates # <<>>

PendingAfterBreak_Kept == pending
PendingAfterBreak == NoPending

\* A gap, a discontinuity or both: every open claim is dropped.
ContinuityBreak(o) ==
  LET reason == IF o.disc THEN "discontinuity" ELSE "gap"
      closed == ClosedPresence(reason)
      i      == Now
  IN  /\ o.gap \/ o.disc
      /\ Consume(o)
      /\ presence' = IF Closable THEN Append(presence, closed) ELSE presence
      /\ events' = events
           \o (IF Closable THEN <<IntervalEvent(closed)>> ELSE <<>>)
           \o (IF o.gap  THEN <<Event("GAP", i, 0)>> ELSE <<>>)
           \o (IF o.disc THEN <<Event("DISCONTINUITY", i, 0)>> ELSE <<>>)
      /\ diag' = Counted(
           When(CandidateOpen,
                {IF o.disc THEN "DepartureCandidatesCancelledDiscontinuity"
                           ELSE "DepartureCandidatesCancelledGap"})
           \cup When(Closable, {PresenceEndCounter(reason)})
           \cup When(pending # NoPending,
                {IF o.disc THEN "PendingTransitionsCancelledDiscontinuity"
                           ELSE "PendingTransitionsCancelledGap"}))
      /\ pending' = PendingAfterBreak
      /\ state' = Seeking(i, "continuity_reset")
      /\ UNCHANGED transitions

\* Seeking, and o supports the anchor: the second member asserts presence.
Supported ==
  LET members == Append(state.members, Now)
  IN  [state EXCEPT !.members = members,
                    !.phase = IF Len(members) >= 2 THEN "present" ELSE @]

ArrivalMatches ==
  /\ state.startReason = "movement_arrival"
  /\ pending # NoPending
  /\ pending.segment = Anchor.segment

\* Presence asserted after a confirmed departure: ENTER, dated at the anchor.
ConfirmArrival(o) ==
  /\ Continues(o) /\ state.phase = "seeking" /\ WithinPresence(Anchor, o)
  /\ ArrivalMatches
  /\ Consume(o)
  /\ state' = [Supported EXCEPT !.enterEvent = TRUE]
  /\ events' = Append(events, Event("ENTER", state.anchorIdx, state.anchorIdx))
  /\ transitions' = Append(transitions, MakeTransition(state.anchorIdx))
  /\ diag' = Counted(PresenceStartCounters(state.startReason)
                       \cup {"TransitionsConfirmed"})
  /\ pending' = NoPending
  /\ UNCHANGED presence

\* Presence asserted without a known departure: no ENTER.
ConfirmPresence(o) ==
  LET arrival == state.startReason = "movement_arrival"
  IN  /\ Continues(o) /\ state.phase = "seeking" /\ WithinPresence(Anchor, o)
      /\ ~ArrivalMatches
      /\ Consume(o)
      /\ state' = Supported
      /\ diag' = Counted(PresenceStartCounters(state.startReason)
           \cup When(arrival /\ pending # NoPending,
                     {"PendingTransitionsCancelledSegmentMismatch"})
           \cup When(\/ arrival /\ pending = NoPending
                     \/ state.startReason = "candidate_presence",
                     {"EnterSuppressedNoPendingTransition"}))
      /\ pending' = IF arrival THEN NoPending ELSE pending
      /\ UNCHANGED <<events, presence, transitions>>

NewAnchor_Kept == state.anchorIdx
NewAnchor == Now

ReanchorReason_Plain == "candidate_presence"
ReanchorReason ==
  IF pending # NoPending THEN "movement_arrival" ELSE "candidate_presence"

\* Seeking, and o is away from the anchor: o becomes the anchor.
Reanchor(o) ==
  /\ Continues(o) /\ state.phase = "seeking" /\ ~WithinPresence(Anchor, o)
  /\ Consume(o)
  /\ state' = [state EXCEPT
       !.anchorIdx = NewAnchor, !.members = <<NewAnchor>>,
       !.startReason = ReanchorReason]
  /\ UNCHANGED <<pending, events, presence, transitions, diag>>

\* Present, and o is inside: a departure candidate, if any, has returned.
RemainInside(o) ==
  /\ Continues(o) /\ state.phase = "present" /\ WithinPresence(Anchor, o)
  /\ Consume(o)
  /\ state' = [state EXCEPT !.members = Append(@, Now), !.moveCandidates = <<>>]
  /\ diag' = Counted(When(CandidateOpen,
                          {"DepartureCandidatesReturnedInside"}))
  /\ UNCHANGED <<pending, events, presence, transitions>>

Outside(o) ==
  Continues(o) /\ state.phase = "present" /\ ~WithinPresence(Anchor, o)

\* The departure is accepted at o: interval event, LEAVE, pending transition.
Depart(counters) ==
  LET closed == ClosedPresence("confirmed_movement")
  IN  /\ presence' = Append(presence, closed)
      /\ events' = events \o <<IntervalEvent(closed),
                               Event("LEAVE", closed.end, closed.start)>>
      /\ diag' = Counted(counters \cup
           {"PresenceEndConfirmedMovement", "DeparturesConfirmed",
            "PendingTransitionsStarted"})
      /\ pending' = [origin |-> closed.start, segment |-> closed.segment,
                     departIdx |-> closed.end]
      /\ state' = Seeking(Now, "movement_arrival")
      /\ UNCHANGED transitions

NeedsConfirmation == ConfirmMoves

DepartUnconfirmed(o) ==
  /\ Outside(o) /\ ~NeedsConfirmation
  /\ Consume(o)
  /\ Depart({})

WindowExpired_AtEquality(o) ==
  o.ts - obs[state.moveCandidates[1]].ts >= ConfirmWindowS
WindowExpired(o) == o.ts - obs[state.moveCandidates[1]].ts > ConfirmWindowS

StartCandidate(o) ==
  /\ Outside(o) /\ NeedsConfirmation
  /\ state.moveCandidates = <<>>
  /\ Consume(o)
  /\ state' = [state EXCEPT !.moveCandidates = Append(@, Now)]
  /\ diag' = Counted({"DepartureCandidateOutsideFixes",
                      "DepartureCandidateSequences"})
  /\ UNCHANGED <<pending, events, presence, transitions>>

RestartCandidate(o) ==
  /\ Outside(o) /\ NeedsConfirmation
  /\ state.moveCandidates # <<>> /\ WindowExpired(o)
  /\ Consume(o)
  /\ state' = [state EXCEPT !.moveCandidates = <<Now>>]
  /\ diag' = Counted({"DepartureCandidateOutsideFixes",
                      "DepartureCandidateWindowExpired",
                      "DepartureCandidateSequences"})
  /\ UNCHANGED <<pending, events, presence, transitions>>

ConfirmDeparture(o) ==
  /\ Outside(o) /\ NeedsConfirmation
  /\ state.moveCandidates # <<>> /\ ~WindowExpired(o)
  /\ Consume(o)
  /\ Depart({"DepartureCandidateOutsideFixes"})

-----------------------------------------------------------------------------
(* The end of the input.                                                   *)

Rank_EnterLate(source) ==
  CASE source = "START" -> 0 [] source \in {"STAY", "DWELL"} -> 1
    [] source = "ENTER" -> 2 [] source = "LEAVE" -> 3
    [] source = "GAP" -> 4 [] source = "DISCONTINUITY" -> 5
    [] source = "END" -> 6

Rank(source) ==
  CASE source = "START" -> 0 [] source = "ENTER" -> 1
    [] source \in {"STAY", "DWELL"} -> 2 [] source = "LEAVE" -> 3
    [] source = "GAP" -> 4 [] source = "DISCONTINUITY" -> 5
    [] source = "END" -> 6

\* The order of sortEvents up to the event id, its last tie-break.
Precedes(d, e) ==
  \/ obs[d.at].ts < obs[e.at].ts
  \/ obs[d.at].ts = obs[e.at].ts /\ Rank(d.source) < Rank(e.source)

\* The place of each event counts those before it; the order of appending
\* stands for the hash of the id.
Before(es, j, k) ==
  Precedes(es[j], es[k]) \/ (~Precedes(es[k], es[j]) /\ j < k)
SortedEvents(es) ==
  LET places == {<<k, Cardinality({j \in DOMAIN es : Before(es, j, k)}) + 1>> :
                   k \in DOMAIN es}
  IN  [n \in DOMAIN es |-> es[(CHOOSE p \in places : p[2] = n)[1]]]

\* The interval an observation is labelled with: the last that claims it.
Claims_AfterStart(p, i) ==
  /\ i \in p.start + 1 .. p.end
  /\ obs[i].segment = p.segment
  /\ WithinCentroid(obs[i], p.centroid)

Claims(p, i) ==
  /\ i \in p.start .. p.end
  /\ obs[i].segment = p.segment
  /\ WithinCentroid(obs[i], p.centroid)

Label(intervals, i) ==
  LET claiming == {k \in DOMAIN intervals : Claims(intervals[k], i)}
  IN  IF claiming = {} THEN 0
      ELSE intervals[CHOOSE k \in claiming : \A j \in claiming : j <= k].start

\* enrichTransitionDestinationSupport: the destination is looked up by its id.
Enriched_ByOrigin(t, intervals) ==
  LET found == {k \in DOMAIN intervals : intervals[k].start = t.origin}
  IN  IF found = {} THEN t
      ELSE [t EXCEPT !.destCount =
              intervals[CHOOSE k \in found : \A j \in found : j <= k].count]

Enriched(t, intervals) ==
  LET found == {k \in DOMAIN intervals : intervals[k].start = t.destination}
  IN  IF found = {} THEN t
      ELSE [t EXCEPT !.destCount =
              intervals[CHOOSE k \in found : \A j \in found : j <= k].count]

Finish ==
  LET closed == ClosedPresence("dataset_end")
      all    == IF Closable THEN Append(presence, closed) ELSE presence
      final  == events \o (IF Closable THEN <<IntervalEvent(closed)>> ELSE <<>>)
                       \o <<Event("END", Len(obs), 0)>>
  IN  /\ result = NoResult
      /\ presence' = all
      /\ events' = final
      /\ result' = [events |-> SortedEvents(final),
                    label  |-> [i \in DOMAIN obs |-> Label(all, i)]]
      /\ transitions' = [k \in DOMAIN transitions |->
                           Enriched(transitions[k], all)]
      /\ diag' = Counted(
           When(CandidateOpen,
                {"DepartureCandidatesCancelledEOF"})
           \cup When(Closable, {PresenceEndCounter("dataset_end")})
           \cup When(pending # NoPending, {"PendingTransitionsUnresolvedEOF"}))
      /\ UNCHANGED <<obs, state, pending>>

-----------------------------------------------------------------------------
Init ==
  /\ \E p \in Place, h \in HA : obs = <<FirstObservation(p, h)>>
  /\ state = Seeking(1, "dataset_start")
  /\ pending = NoPending
  /\ events = <<Event("START", 1, 0)>>
  /\ presence = <<>>
  /\ transitions = <<>>
  /\ diag = [c \in Counter |-> 0]
  /\ result = NoResult

Next ==
  \/ \E o \in Incoming :
       \/ ContinuityBreak(o)
       \/ ConfirmArrival(o)
       \/ ConfirmPresence(o)
       \/ Reanchor(o)
       \/ RemainInside(o)
       \/ DepartUnconfirmed(o)
       \/ StartCandidate(o)
       \/ RestartCandidate(o)
       \/ ConfirmDeparture(o)
  \/ Finish

Spec == Init /\ [][Next]_vars

-----------------------------------------------------------------------------
(* Types.                                                                  *)

Index == 1 .. Len(obs)

Observation ==
  [ts : Nat, place : Place, ha : HA, gap : BOOLEAN, disc : BOOLEAN,
   segment : Nat \ {0}]

PresenceState ==
  [phase : {"seeking", "present"}, anchorIdx : Index, members : Seq(Index),
   moveCandidates : Seq(Index), startReason : StartReasons,
   enterEvent : BOOLEAN]
PendingTransition ==
  [origin : Index, segment : Nat \ {0}, departIdx : Index] \cup {NoPending}
EventRecord ==
  [source : {"START", "ENTER", "STAY", "DWELL", "LEAVE", "GAP",
             "DISCONTINUITY", "END"},
   at : Index, presence : Index \cup {0}]
\* The centroid is whatever MeanCentroid returns.
PresenceInterval ==
  [start : Index, end : Index, segment : Nat \ {0}, count : Nat,
   class : {"STAY", "DWELL"}, startReason : StartReasons,
   endReason : EndReasons, entered : BOOLEAN,
   centroid : {presence[k].centroid : k \in DOMAIN presence}]
Transition ==
  [origin : Index, destination : Index, depart : Index, segment : Nat \ {0},
   count : Nat, destCount : Nat]

\* Every variable holds a value of the Go type it stands for, and every index
\* points into the observations read so far.
TypeOK ==
  /\ obs \in Seq(Observation) /\ obs # <<>>
  /\ state \in PresenceState
  /\ pending \in PendingTransition
  /\ events \in Seq(EventRecord)
  /\ presence \in Seq(PresenceInterval)
  /\ transitions \in Seq(Transition)
  /\ diag \in [Counter -> Nat]

-----------------------------------------------------------------------------
(* What the loop's private state means between two observations.           *)

Finished == result # NoResult
Present == state.phase = "present"

\* Seeking always means seeking from the latest observation, a candidate is
\* always the latest observation, and a movement arrival is being sought
\* exactly when a departure is pending.
StateCoherent ==
  /\ state.members # <<>> /\ state.members[1] = state.anchorIdx
  /\ ~Present => /\ state.members = <<state.anchorIdx>>
                 /\ state.anchorIdx = Len(obs)
                 /\ state.moveCandidates = <<>>
                 /\ ~state.enterEvent
                 /\ (state.startReason = "movement_arrival"
                       <=> pending # NoPending)
  /\ Present => /\ Len(state.members) >= 2
                /\ pending = NoPending
                /\ state.moveCandidates \in {<<>>, <<Len(obs)>>}
                /\ (state.enterEvent <=> state.startReason = "movement_arrival")
  /\ ~ConfirmMoves => state.moveCandidates = <<>>
  /\ pending # NoPending => pending.segment = obs[Len(obs)].segment

-----------------------------------------------------------------------------
(* Evidence.                                                               *)

Unbroken(from, to) == \A i \in from + 1 .. to : ~obs[i].gap /\ ~obs[i].disc

\* No claim rests on evidence from both sides of a gap or a discontinuity: not
\* a closed interval, not a transition, not an open presence or departure.
EvidenceIsContinuous ==
  /\ \A k \in DOMAIN presence : Unbroken(presence[k].start, presence[k].end)
  /\ \A k \in DOMAIN transitions :
       /\ Unbroken(transitions[k].depart, transitions[k].destination)
       /\ transitions[k].count
            = transitions[k].destination - transitions[k].depart + 1
  /\ Unbroken(state.anchorIdx, Len(obs))
  /\ pending # NoPending => Unbroken(pending.departIdx, Len(obs))

\* Presence intervals are proper, ordered in time and share no observation,
\* and the claim still open begins after every closed one.
PresencesDisjoint ==
  /\ \A k \in DOMAIN presence : presence[k].start < presence[k].end
  /\ \A j, k \in DOMAIN presence : j < k => presence[j].end < presence[k].start
  /\ ~Finished => \A k \in DOMAIN presence : presence[k].end < state.anchorIdx

\* Observation c is accepted evidence of having left the anchor a.
AwayFrom(a, i) == ~WithinPresence(obs[a], obs[i])
DepartureAt(a, c) ==
  /\ c \in a + 1 .. Len(obs) /\ Unbroken(a, c) /\ AwayFrom(a, c)
  /\ ConfirmMoves => /\ c < Len(obs)
                     /\ Continues(obs[c + 1]) /\ AwayFrom(a, c + 1)
                     /\ obs[c + 1].ts - obs[c].ts <= ConfirmWindowS

FirstDeparture(a, c) == DepartureAt(a, c) /\ \A b \in a .. c - 1 : ~DepartureAt(a, b)

\* An interval ends by confirmed movement exactly when the observations after
\* its anchor hold the evidence the mode asks for (two consecutive fixes
\* outside, the second within the window of the first; one fix when
\* confirmation is off), at the first such evidence and at the last fix inside
\* before it; and an open presence has seen no such evidence.
DeparturesAreExact ==
  /\ \A k \in DOMAIN presence :
       LET p == presence[k] IN
         IF p.endReason = "confirmed_movement"
           THEN \E c \in Index :
                  /\ FirstDeparture(p.start, c)
                  /\ p.end < c /\ ~AwayFrom(p.start, p.end)
                  /\ \A i \in p.end + 1 .. c : AwayFrom(p.start, i)
           ELSE \A c \in Index : ~DepartureAt(p.start, c)
  /\ Present => \A c \in Index : ~DepartureAt(state.anchorIdx, c)

\* The observations a presence that starts at a keeps watch over.
Watched(a, i) == /\ i >= a /\ Unbroken(a, i)
                 /\ \A c \in a .. i - 1 : ~DepartureAt(a, c)

\* Two consecutive fixes near each other always belong to a presence: the
\* search, which re-anchors at every fix, passes over no supporting pair.
NoPresenceMissed ==
  \A i \in 1 .. Len(obs) - 1 :
    (Continues(obs[i + 1]) /\ WithinPresence(obs[i], obs[i + 1]))
      => \/ \E k \in DOMAIN presence : Watched(presence[k].start, i)
         \/ Present /\ Watched(state.anchorIdx, i)

-----------------------------------------------------------------------------
(* Links between the projections.                                          *)

\* A transition's origin was closed by movement at the observation it departs
\* from, its destination is the very next presence, whose id was predicted
\* when ENTER was emitted and which records that ENTER, and once the input has
\* ended the destination is a closed interval the enrichment found.
TransitionsLink ==
  /\ \A t \in DOMAIN transitions :
       LET tr == transitions[t] IN
       \E k \in DOMAIN presence :
         /\ presence[k].start = tr.origin
         /\ presence[k].end = tr.depart
         /\ presence[k].segment = tr.segment
         /\ presence[k].endReason = "confirmed_movement"
         /\ IF k < Len(presence)
              THEN /\ presence[k + 1].start = tr.destination
                   /\ presence[k + 1].entered
                   /\ Finished => tr.destCount = presence[k + 1].count
              ELSE /\ ~Finished /\ Present
                   /\ state.anchorIdx = tr.destination /\ state.enterEvent
  /\ \A k \in DOMAIN presence : presence[k].entered =>
       \E t \in DOMAIN transitions :
         transitions[t].destination = presence[k].start

\* Every closed interval labels its first observation, the one its identifier
\* is made of, although the label is decided by the distance to the centroid
\* and not by membership.  Only a later fix of the interval that reports an
\* accuracy can draw the centroid out of reach of the first, and by no more
\* than that accuracy.
IntervalsLabelTheirStart ==
  Finished => \A k \in DOMAIN presence :
    LET p     == presence[k]
        first == obs[p.start]
    IN  \/ result.label[p.start] = p.start
        \/ \E i \in p.start + 1 .. p.end :
             /\ KnownRadius(obs[i]) > 0
             /\ DistanceM(p.centroid, first.place)
                  <= MoveRadiusM + KnownRadius(first) + KnownRadius(obs[i])

-----------------------------------------------------------------------------
(* Diagnostics (docs/DIAGNOSTICS.md).                                      *)

DepartureCandidateOutcomes ==
  diag["DeparturesConfirmed"] + diag["DepartureCandidatesReturnedInside"]
    + diag["DepartureCandidateWindowExpired"]
    + diag["DepartureCandidatesCancelledGap"]
    + diag["DepartureCandidatesCancelledDiscontinuity"]
    + diag["DepartureCandidatesCancelledEOF"]

PendingTransitionOutcomes ==
  diag["TransitionsConfirmed"] + diag["PendingTransitionsCancelledGap"]
    + diag["PendingTransitionsCancelledDiscontinuity"]
    + diag["PendingTransitionsCancelledSegmentMismatch"]
    + diag["PendingTransitionsUnresolvedEOF"]

\* 1 for a condition that holds, 0 otherwise.
One(condition) == IF condition THEN 1 ELSE 0

\* Every departure-candidate sequence has exactly one outcome, or is the one
\* now open: departure_candidate_unaccounted is zero at the end.
CandidatesAccounted ==
  ConfirmMoves =>
    diag["DepartureCandidateSequences"]
      = DepartureCandidateOutcomes
        + One(~Finished /\ state.moveCandidates # <<>>)

\* Every pending transition has exactly one outcome, or is the one now open.
PendingAccounted ==
  diag["PendingTransitionsStarted"]
    = PendingTransitionOutcomes + One(~Finished /\ pending # NoPending)

\* The presence and transition counters agree with each other and with the
\* rows written: each confirmation has one start reason and becomes one
\* interval with one end reason, each arrival by movement has a transition,
\* and the defensive segment-mismatch cancellation never happens.
PresenceAccounted ==
  /\ diag["PresenceConfirmations"] = Len(presence) + One(~Finished /\ Present)
  /\ diag["PresenceConfirmations"]
       = diag["PresenceStartDataset"] + diag["PresenceStartContinuityReset"]
         + diag["PresenceStartCandidate"] + diag["PresenceStartMovementArrival"]
  /\ Len(presence)
       = diag["PresenceEndDataset"] + diag["PresenceEndGap"]
         + diag["PresenceEndDiscontinuity"]
         + diag["PresenceEndConfirmedMovement"]
  /\ diag["PresenceEndConfirmedMovement"] = diag["DeparturesConfirmed"]
  /\ diag["PresenceStartMovementArrival"] = diag["TransitionsConfirmed"]
  /\ Len(transitions) = diag["TransitionsConfirmed"]
  /\ diag["EnterSuppressedNoPendingTransition"] = diag["PresenceStartCandidate"]
  /\ diag["PendingTransitionsCancelledSegmentMismatch"] = 0

\* The closure of all decision counters of a run's diagnostics.
CountersClose == CandidatesAccounted /\ PendingAccounted /\ PresenceAccounted

-----------------------------------------------------------------------------
(* The published timeline.                                                 *)

IsInterval(e) == e.source \in {"STAY", "DWELL"}

\* The sorted events tell one story: the order never falls back on the hashed
\* event id; an ENTER, dated back to its anchor, directly precedes its own
\* interval, and the last LEAVE, GAP, DISCONTINUITY or ENTER before it is a
\* LEAVE; the last interval before a LEAVE is the one that was left.
TimelineTellsOneStory ==
  LET es == result.events
      last(k, S) == CHOOSE j \in 1 .. k - 1 :
                      es[j].source \in S
                      /\ \A i \in j + 1 .. k - 1 : es[i].source \notin S
  IN  Finished =>
        /\ es[1].source = "START" /\ es[Len(es)].source = "END"
        /\ \A k \in 1 .. Len(es) - 1 : Precedes(es[k], es[k + 1])
        /\ \A k \in DOMAIN es :
             es[k].source = "ENTER" =>
               /\ IsInterval(es[k + 1]) /\ es[k + 1].presence = es[k].presence
               /\ \E j \in 1 .. k - 1 :
                    es[j].source \in {"LEAVE", "GAP", "DISCONTINUITY", "ENTER"}
               /\ es[last(k, {"LEAVE", "GAP", "DISCONTINUITY", "ENTER"})].source
                    = "LEAVE"
        /\ \A k \in DOMAIN es :
             es[k].source = "LEAVE" =>
               /\ \E j \in 1 .. k - 1 : IsInterval(es[j])
               /\ es[last(k, {"STAY", "DWELL"})].presence = es[k].presence
=============================================================================
