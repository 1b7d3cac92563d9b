------------------------------- MODULE Explain --------------------------------
(***************************************************************************)
(* ExplainEvent and ExplainDiscontinuity of internal/analyst/analyst.go,   *)
(* asked about the events of an entity the eventizer has just finished.    *)
(*                                                                         *)
(* The tables hold times in whole milliseconds and the analyst has neither *)
(* the indices nor the source times: it finds an event's observations      *)
(* again by time, and derives the reason of a discontinuity again from the *)
(* context of the event and the thresholds of the manifest.  Rows with the *)
(* same time come in any order: the last key, where there is one, is a     *)
(* hash.                                                                   *)
(*                                                                         *)
(* A definition D_Variant is D as a plausible defect would leave it.       *)
(***************************************************************************)
EXTENDS Projections, FiniteSetsExt

CONSTANTS
  Milli,        \* units of the observations' clock in one millisecond
  NearbyLimit   \* LIMIT of the nearby observations; the code has 6

ASSUME ExplainAssumption == Milli \in Nat \ {0} /\ NearbyLimit \in Nat \ {0}

VARIABLE explanation  \* the last explanation, or NoExplanation

explainVars == <<projectionVars, explanation>>

NoExplanation ==
  [event |-> 0, nearby |-> {}, presences |-> {}, segments |-> {},
   previous |-> 0, current |-> 0, reason |-> "", edge |-> ""]

-----------------------------------------------------------------------------
(* The tables.  Rows go by the index they have in the eventizer.           *)

\* Both tables keep time.Time.UnixMilli of the same instant.
Millis(i) == obs[i].ts \div Milli
EventTimeMs(e) == Millis(e.at)

\* What a DISCONTINUITY event carries in context_json.
Context(e) ==
  [effective |-> StepEffective(e.at), dt |-> StepDT(e.at),
   edge |-> EdgeAccuracyState(e.at)]

-----------------------------------------------------------------------------
(* Queries.                                                                *)

Distant(i, ms) == IF Millis(i) < ms THEN ms - Millis(i) ELSE Millis(i) - ms

\* ORDER BY abs(epoch_ms(ts) - ?) LIMIT NearbyLimit: rows equally far away come
\* in any order, so there may be several answers.
Nearby(ms) ==
  {S \in SUBSET Index :
     /\ Cardinality(S) = Min({NearbyLimit, Len(obs)})
     /\ \A i \in S, j \in Index \ S : Distant(i, ms) <= Distant(j, ms)}

\* WHERE epoch_ms(ts) <= ?, and the rows of a set with the latest time.
UpTo_Before(ms) == {i \in Index : Millis(i) < ms}
UpTo(ms) == {i \in Index : Millis(i) <= ms}
Latest(S) == {i \in S : \A j \in S : Millis(j) <= Millis(i)}

\* ORDER BY ts DESC, observation_id DESC LIMIT 2, as <<current, previous>>;
\* 0 where there is no row.
LatestTwo(ms) ==
  UNION {{<<cur, prev>> : prev \in LET rest == UpTo(ms) \ {cur}
                                   IN  IF rest = {} THEN {0} ELSE Latest(rest)} :
         cur \in Latest(UpTo(ms))}

\* The reason, from the event's context.
Reason(c) ==
  LET jump == c.effective > MaxJumpM
      fast == c.dt > 0 /\ c.effective > MaxSpeedMPS * c.dt
  IN  CASE jump /\ fast -> "jump_and_speed" [] jump /\ ~fast -> "jump_only"
        [] ~jump /\ fast -> "speed_only" [] OTHER -> "unknown"

\* Rows of presence_intervals and segments with the ids the event names.
LinkedPresences(e) == {k \in DOMAIN presence : presence[k].start = e.presence}
LinkedSegments(e) == {obs[e.at].segment} \cap DOMAIN tables.segments

-----------------------------------------------------------------------------
(* Calls.                                                                  *)

Explained(k) ==
  LET e == result.events[k]
  IN  {[NoExplanation EXCEPT !.event = k, !.nearby = near,
          !.presences = LinkedPresences(e), !.segments = LinkedSegments(e)] :
        near \in Nearby(EventTimeMs(e))}

\* A call keeps no state, so one of each is asked of the tables as they are.
Asked == Finished /\ explanation = NoExplanation

ExplainEvent ==
  /\ Asked
  /\ \E k \in DOMAIN result.events : explanation' \in Explained(k)
  /\ UNCHANGED projectionVars

ExplainDiscontinuity ==
  /\ Asked
  /\ \E k \in DOMAIN result.events :
       LET e == result.events[k]
       IN  /\ e.source = "DISCONTINUITY"
           /\ \E x \in Explained(k), two \in LatestTwo(EventTimeMs(e)) :
                explanation' =
                  [x EXCEPT !.current = two[1], !.previous = two[2],
                            !.reason = Reason(Context(e)),
                            !.edge = Context(e).edge]
  /\ UNCHANGED projectionVars

ExplainInit == ProjectionInit /\ explanation = NoExplanation
ExplainNext ==
  \/ ProjectionNext /\ explanation' = NoExplanation
  \/ ExplainEvent
  \/ ExplainDiscontinuity
ExplainSpec == ExplainInit /\ [][ExplainNext]_explainVars

-----------------------------------------------------------------------------
(* Properties.                                                             *)

Answered == explanation # NoExplanation
Explaining == result.events[explanation.event]

\* docs/MCP.md, Evidence and explanation: the two observations shown for a
\* discontinuity are the ends of the edge the eventizer judged, with the reason
\* the eventizer counted for that edge and its accuracy state.
ExplainsTheEdge ==
  (Answered /\ explanation.reason # "") =>
     LET i == Explaining.at
     IN  /\ explanation.current = i /\ explanation.previous = i - 1
         /\ explanation.reason = DiscontinuityReason(i)
         /\ LET counted == tables.edges.reasonAccuracy
                edge    == <<explanation.reason, explanation.edge>>
            IN  edge \in DOMAIN counted /\ counted[edge] > 0

\* The observation an event is dated at is among the nearby ones, and those
\* are a stretch of the entity's observations without holes.
NearbySupportsEvent ==
  Answered =>
    /\ Explaining.at \in explanation.nearby
    /\ \A i, j \in explanation.nearby : i..j \subseteq explanation.nearby

\* The linked rows are the ones the event is about: one presence, around the
\* event's time, exactly for the events that name one, and the one segment that
\* holds its observation.
EvidenceIsLinked ==
  Answered =>
    LET e == Explaining
    IN  /\ Cardinality(explanation.presences) = (IF e.presence = 0 THEN 0 ELSE 1)
        /\ \A k \in explanation.presences :
             /\ presence[k].start <= e.at /\ e.at <= presence[k].end
             /\ e.source = "ENTER" => presence[k].entered
             /\ e.source = "LEAVE" => presence[k].end = e.at
        /\ \E n \in explanation.segments :
             tables.segments[n].first <= e.at /\ e.at <= tables.segments[n].last

\* An explanation, of whatever event, shows what the eventizer had.
ExplanationsHold == ExplainsTheEdge /\ NearbySupportsEvent /\ EvidenceIsLinked
=============================================================================
