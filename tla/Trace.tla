-------------------------------- MODULE Trace --------------------------------
(***************************************************************************)
(* The targeted trace of one entity (--trace-id): Eventize of              *)
(* internal/eventizer/eventizer.go appends one row for each observation,   *)
(* with the state before and after it, the decision taken and the names of *)
(* the events it emitted.  The decision is named branch by branch, apart   *)
(* from the counters and from the records, so the trace is a second        *)
(* account of the same history.                                            *)
(*                                                                         *)
(* A row keeps what the loop decides.  The coordinates, accuracy states    *)
(* and step metrics it copies from the observation, and the prose of the   *)
(* detail column, are left out.  The entity is one that was selected.      *)
(***************************************************************************)
EXTENDS Eventizer

VARIABLE trace
traceVars == <<obs, state, pending, events, presence, transitions, diag, result,
               trace>>

\* The state a row reports, read before and after a step.
Reported(s, p) ==
  [phase |-> s.phase, candidates |-> Len(s.moveCandidates), pending |-> p # NoPending]
NothingYet == [phase |-> "none", candidates |-> 0, pending |-> FALSE]

\* emittedEventNames of the events after the first k.
EmittedNames(es, k) ==
  [j \in 1 .. Len(es) - k |-> es[k + j].source]

\* decision is the code of a branch; ended says that appendDecision put
\* "dataset_end" behind it, separated by a semicolon.
Row(before, after, decision, ended, names, label) ==
  [before |-> before, after |-> after, decision |-> decision, ended |-> ended,
   emitted |-> names, label |-> label]

\* appendTrace: the before half is what the loop saved at the top of its body.
Traced(decision) ==
  trace' = Append(trace, Row(Reported(state, pending), Reported(state', pending'),
                             decision, FALSE, EmittedNames(events', Len(events)), 0))

-----------------------------------------------------------------------------
(* The decision each branch names.                                         *)

BreakDecision(o) ==
  CASE o.gap /\ o.disc -> "continuity_break_gap_discontinuity"
    [] o.disc /\ ~o.gap -> "continuity_break_discontinuity"
    [] OTHER -> "continuity_break_gap"

PresenceDecision ==
  CASE state.startReason = "movement_arrival" /\ pending # NoPending ->
         "presence_confirmed_arrival_segment_mismatch"
    [] \/ state.startReason = "movement_arrival" /\ pending = NoPending
       \/ state.startReason = "candidate_presence" ->
         "presence_confirmed_enter_suppressed"
    [] state.startReason = "dataset_start" -> "presence_confirmed_dataset_start"
    [] state.startReason = "continuity_reset" -> "presence_confirmed_continuity_reset"

InsideDecision_Plain == "presence_inside"
InsideDecision ==
  IF CandidateOpen THEN "departure_candidate_returned_inside" ELSE "presence_inside"

FinalNames_Dropped(row) == row.emitted
FinalNames(row) == row.emitted \o EmittedNames(events', Len(events))

AfterEnd(row) == [row.after EXCEPT !.pending = pending' # NoPending]

\* The end of the input is added to the last row, and every row is labelled
\* with the presence interval its observation ended up in.
TraceEnd ==
  trace' = [i \in DOMAIN trace |->
    LET row == trace[i]
    IN  IF i < Len(trace)
          THEN Row(row.before, row.after, row.decision, FALSE, row.emitted,
                   result'.label[i])
          ELSE Row(row.before, AfterEnd(row), row.decision, TRUE, FinalNames(row),
                   result'.label[i])]

-----------------------------------------------------------------------------
TraceInit ==
  /\ Init
  /\ trace = <<Row(NothingYet, Reported(state, NoPending), "dataset_start",
                   FALSE, <<"START">>, 0)>>

TraceNext ==
  \/ \E o \in Incoming :
       \/ ContinuityBreak(o) /\ Traced(BreakDecision(o))
       \/ ConfirmArrival(o) /\ Traced("presence_confirmed_arrival_transition")
       \/ ConfirmPresence(o) /\ Traced(PresenceDecision)
       \/ Reanchor(o) /\ Traced("presence_candidate_reanchored")
       \/ RemainInside(o) /\ Traced(InsideDecision)
       \/ DepartUnconfirmed(o) /\ Traced("departure_confirmed_unconfirmed_mode")
       \/ StartCandidate(o) /\ Traced("departure_candidate_started")
       \/ RestartCandidate(o)
            /\ Traced("departure_candidate_window_expired_restart")
       \/ ConfirmDeparture(o) /\ Traced("departure_confirmed")
  \/ Finish /\ TraceEnd

TraceSpec == TraceInit /\ [][TraceNext]_traceVars

-----------------------------------------------------------------------------
(* What the trace is worth to a reader who has nothing else                *)
(* (docs/DIAGNOSTICS.md, "Targeted entity traces").                        *)

Decided(decisions) == {i \in DOMAIN trace : trace[i].decision \in decisions}

Departures == {"departure_confirmed", "departure_confirmed_unconfirmed_mode"}
Breaks == {"continuity_break_gap_discontinuity", "continuity_break_discontinuity",
           "continuity_break_gap"}
Confirmations ==
  {"presence_confirmed_arrival_transition", "presence_confirmed_enter_suppressed",
   "presence_confirmed_dataset_start", "presence_confirmed_continuity_reset"}
Insides == {"presence_inside", "departure_candidate_returned_inside"}

NamesUpTo[i \in Nat] ==
  IF i = 0 THEN <<>> ELSE NamesUpTo[i - 1] \o trace[i].emitted

\* The last row says that the input ended there.
Ended == trace[Len(trace)].ended

\* There is one row for each observation, and the rows name every event of the
\* entity once, in the order it was emitted, those of the end of the input
\* included; the last row, and no other, says that the input ended.
TraceNamesEveryEvent ==
  /\ Len(trace) = Len(obs)
  /\ \A i \in 1 .. Len(trace) : trace[i].ended <=> Finished /\ i = Len(trace)
  /\ NamesUpTo[Len(trace)] = [k \in DOMAIN events |-> events[k].source]

\* What a reader counts as an instance of a decision counter.
Shows(row, c) ==
  \/ c = "DeparturesConfirmed" /\ row.decision \in Departures
  \/ /\ c = "DepartureCandidateSequences"
     /\ row.decision \in {"departure_candidate_started",
                          "departure_candidate_window_expired_restart"}
  \/ /\ c = "DepartureCandidateWindowExpired"
     /\ row.decision = "departure_candidate_window_expired_restart"
  \/ /\ c = "DepartureCandidatesReturnedInside"
     /\ row.decision = "departure_candidate_returned_inside"
  \/ /\ c = "TransitionsConfirmed"
     /\ row.decision = "presence_confirmed_arrival_transition"
  \/ /\ c = "EnterSuppressedNoPendingTransition"
     /\ row.decision = "presence_confirmed_enter_suppressed"
  \/ /\ c = "PresenceStartDataset"
     /\ row.decision = "presence_confirmed_dataset_start"
  \/ /\ c = "PresenceStartContinuityReset"
     /\ row.decision = "presence_confirmed_continuity_reset"
  \/ c = "PresenceConfirmations" /\ row.decision \in Confirmations
  \/ /\ c = "DepartureCandidatesCancelledGap"
     /\ row.decision = "continuity_break_gap" /\ row.before.candidates > 0
  \/ /\ c = "DepartureCandidatesCancelledDiscontinuity"
     /\ row.decision \in Breaks \ {"continuity_break_gap"}
     /\ row.before.candidates > 0
  \/ /\ c = "PendingTransitionsCancelledGap"
     /\ row.decision = "continuity_break_gap" /\ row.before.pending
  \/ /\ c = "PendingTransitionsCancelledDiscontinuity"
     /\ row.decision \in Breaks \ {"continuity_break_gap"} /\ row.before.pending

ShownCounters ==
  {"DeparturesConfirmed", "DepartureCandidateSequences",
   "DepartureCandidateWindowExpired", "DepartureCandidatesReturnedInside",
   "TransitionsConfirmed", "EnterSuppressedNoPendingTransition",
   "PresenceStartDataset", "PresenceStartContinuityReset",
   "PresenceConfirmations", "DepartureCandidatesCancelledGap",
   "DepartureCandidatesCancelledDiscontinuity",
   "PendingTransitionsCancelledGap", "PendingTransitionsCancelledDiscontinuity"}

\* Counting decisions in the trace gives the decision counters of the
\* manifest, although branch, counter and decision name are written apart.
DecisionsAreCounted ==
  \A c \in ShownCounters :
    diag[c] = Cardinality({i \in 1 .. Len(trace) : Shows(trace[i], c)})

\* The row that closed the interval that starts at observation a, or the row
\* after the last if the end of the input did.
ClosingRow(a) ==
  LET closing == {i \in Decided(Breaks \cup Departures) : i > a}
  IN  IF closing = {} THEN Len(trace) + 1
      ELSE CHOOSE i \in closing : \A j \in closing : i <= j

\* Every presence interval can be read off the trace: its second observation
\* is the confirming row, its other members are the rows inside until the row
\* that closed it, and there is an interval for each confirming row followed
\* by one that closes it.
TraceExplainsPresence ==
  /\ \A k \in DOMAIN presence :
       LET p == presence[k]
           inside == {i \in Decided(Insides) : p.start < i /\ i < ClosingRow(p.start)}
           members == {p.start, p.start + 1} \cup inside
       IN  /\ trace[p.start + 1].decision \in Confirmations
           /\ p.count = Cardinality(members)
           /\ p.end \in members /\ \A i \in members : i <= p.end
           /\ p.endReason = "confirmed_movement"
                <=> ClosingRow(p.start) \in Decided(Departures)
  /\ \A i \in Decided(Confirmations) :
       (Ended \/ ClosingRow(i - 1) <= Len(trace)) =>
         \E k \in DOMAIN presence : presence[k].start = i - 1
=============================================================================
