--------------------------- MODULE EventizerProofs ---------------------------
(***************************************************************************)
(* What the eventizer's state, counters, records and events are, for every *)
(* geometry, threshold, mode and input length.                             *)
(*                                                                         *)
(* Part one: the state is type correct and coherent and its decision       *)
(* counters close.  The coherence of the state is inductive only together  *)
(* with the types and with AnchorSegment: the pending transition is kept   *)
(* in the segment of the latest observation, while ConfirmArrival compares *)
(* it with the segment of the anchor.  One lemma per action shows that it  *)
(* preserves Inductive; what several actions need of the grown trajectory, *)
(* of a closed interval and of a new transition comes before them.         *)
(*                                                                         *)
(* Part two: what its records claim of the observations.  No claim spans a *)
(* break, presences are disjoint, a departure is accepted at the first     *)
(* evidence the mode asks for, no supporting pair of fixes is passed over, *)
(* and every transition links two closed presences.                        *)
(*                                                                         *)
(* Those five are inductive together with what the loop knows of the       *)
(* presence still open: its members after the anchor, the fixes seen       *)
(* outside since the last of them, and that they are no departure yet      *)
(* (OpenPresence); and with what it remembers of the closed ones: a break  *)
(* lies after those it ended (Sound), the last of them is the one a        *)
(* pending transition departs from (PendingLeft), and an entered presence  *)
(* has its transition before it is closed (EntryLinked).                   *)
(*                                                                         *)
(* The events follow: each step of the contract with their reader is made  *)
(* or stuttered (ContractImplemented), and the sorted timeline tells one   *)
(* story.  For the latter the events are a chronicle: each says what a     *)
(* record of the loop bears out, each record has its events, and no two    *)
(* share an observation and a rank (Chronicle); as time passes from fix to *)
(* fix (Clock), counting what comes before puts each event in its place    *)
(* (InOrder).                                                              *)
(*                                                                         *)
(* A closed presence labels its first observation: its members are inside, *)
(* so the centroid is no farther from that observation than one of them    *)
(* (Centred), and no other presence holds the observation (OwnLabel).      *)
(*                                                                         *)
(* Part three: the canonical events made of the timeline have the fields   *)
(* the validator asks for (IsCore, Passes); the changes Damaged lists      *)
(* break a rule (DamageIsNoticed), those Unjudged lists break none.        *)
(*                                                                         *)
(* Part four: the targeted trace is a second account of the same history.  *)
(* The counters a branch of the loop counts are the ones its row shows,    *)
(* and the events a step emits are those its row names: what a row names   *)
(* is a recursive function of the list of events, so the proof is by       *)
(* induction on their number (Induction).  A presence, closed or still     *)
(* open, is told by the rows from its first member to its end, and every   *)
(* row that confirms one has its presence (Told).                          *)
(***************************************************************************)
EXTENDS EventizerContract, Validation, Trace, FiniteSetTheorems,
        SequenceTheorems, WellFoundedInduction, TLAPS

\* A nonempty set of indices has a greatest member, the one CHOOSE picks in
\* Label and Enriched.
LEMMA GreatestIndex ==
  ASSUME NEW n \in Nat, NEW S \in SUBSET (1 .. n), S # {}
  PROVE  \E m \in S : \A k \in S : k <= m
<1> DEFINE T == {n - k : k \in S}
<1>0. \A k \in S : k \in Nat /\ n - k \in Nat
  OBVIOUS
<1>1. T \subseteq Nat /\ T # {}
  BY <1>0, Zenon
<1>2. PICK t \in T : \A y \in T : <<y, t>> \notin OpToRel(<, Nat)
  BY <1>1, WFMin, NatLessThanWellFounded
<1>3. PICK m \in S : t = n - m
  OBVIOUS
<1>4. ASSUME NEW k \in S PROVE k <= m
  <2>1. <<n - k, t>> \notin OpToRel(<, Nat)
    BY <1>2
  <2>2. ~(n - k < t)
    BY <2>1, <1>1 DEF OpToRel
  <2> QED BY <2>2, <1>3
<1> QED BY <1>4

-----------------------------------------------------------------------------
\* No discontinuity lies between the anchor and the latest observation.
AnchorSegment == obs[state.anchorIdx].segment = obs[Len(obs)].segment

\* The inductive invariant.
Inductive == TypeOK /\ StateCoherent /\ AnchorSegment

\* A measured observation is an Observation, and its segment is that of the
\* latest observation unless the edge is a discontinuity.
LEMMA IncomingType ==
  ASSUME TypeOK, NEW o \in Incoming
  PROVE  /\ o \in Observation
         /\ Continues(o) => o.segment = obs[Len(obs)].segment
         /\ result = NoResult
<1>1. PICK fix \in Fix : o = Measured(obs[Len(obs)], fix)
  BY DEF Incoming
<1>2. result = NoResult
  BY DEF Incoming
<1> DEFINE prev == obs[Len(obs)]
           disc == IsDiscontinuity(EffectiveDistance(prev, fix), fix.dt)
<1>3. prev \in Observation
  BY DEF TypeOK
<1>4. fix \in [place : Place, ha : HA, dt : StepS] /\ fix.dt \in Nat
  BY StepAssumption DEF Fix
<1>5. disc \in BOOLEAN /\ IsGap(fix.dt) \in BOOLEAN
  BY DEF IsDiscontinuity, IsGap
<1> HIDE DEF disc
<1>6. o = [ts |-> prev.ts + fix.dt, place |-> fix.place, ha |-> fix.ha,
           gap |-> IsGap(fix.dt), disc |-> disc,
           segment |-> IF disc THEN prev.segment + 1 ELSE prev.segment]
  BY <1>1 DEF Measured, disc
<1>7. o \in Observation
  BY <1>3, <1>4, <1>5, <1>6 DEF Observation
<1>8. Continues(o) => o.segment = prev.segment
  BY <1>5, <1>6 DEF Continues
<1> QED BY <1>2, <1>7, <1>8

\* An index points at an Observation.
LEMMA ObservationAt ==
  ASSUME TypeOK, NEW i \in Index
  PROVE  obs[i] \in Observation /\ obs[i].segment \in Nat \ {0}
<1>1. obs[i] \in Observation
  BY DEF TypeOK, Index
<1> QED BY <1>1 DEF Observation

\* What reading one more observation leaves as it was.
LEMMA Grown ==
  ASSUME TypeOK, NEW o \in Observation, Consume(o)
  PROVE  /\ obs' \in Seq(Observation) /\ obs' # <<>>
         /\ Len(obs') = Now /\ Now \in Nat /\ Now > Len(obs)
         /\ obs'[Now] = o
         /\ \A i \in Index : obs'[i] = obs[i]
         /\ Index \subseteq Index' /\ Len(obs) \in Index /\ Now \in Index'
         /\ PresenceState \subseteq PresenceState'
         /\ PendingTransition \subseteq PendingTransition'
         /\ Seq(EventRecord) \subseteq Seq(EventRecord)'
         /\ Seq(Transition) \subseteq Seq(Transition)'
<1>1. /\ obs' \in Seq(Observation) /\ obs' # <<>>
      /\ Len(obs') = Now /\ Now \in Nat /\ Now > Len(obs)
      /\ obs'[Now] = o
      /\ \A i \in Index : obs'[i] = obs[i]
  BY DEF TypeOK, Consume, Now, Index
<1>2. Index \subseteq Index' /\ Len(obs) \in Index /\ Now \in Index'
  BY <1>1 DEF Index, TypeOK, Now
<1>3. Seq(Index) \subseteq Seq(Index')
  BY <1>2, SeqMonotonic
<1>4. PresenceState \subseteq PresenceState'
  BY <1>2, <1>3 DEF PresenceState
<1>5. PendingTransition \subseteq PendingTransition'
  BY <1>2 DEF PendingTransition
<1>6. EventRecord \subseteq EventRecord' /\ Transition \subseteq Transition'
  BY <1>2 DEF EventRecord, Transition
<1>7. /\ Seq(EventRecord) \subseteq Seq(EventRecord)'
      /\ Seq(Transition) \subseteq Seq(Transition)'
  BY <1>6, SeqMonotonic
<1> QED BY <1>1, <1>2, <1>4, <1>5, <1>7

\* Closed intervals keep their type while the trajectory grows.
LEMMA PresenceKept ==
  ASSUME TypeOK, Index \subseteq Index', presence' = presence
  PROVE  presence' \in Seq(PresenceInterval')
<1>1. PresenceInterval \subseteq PresenceInterval'
  BY DEF PresenceInterval
<1> QED BY <1>1, SeqMonotonic DEF TypeOK

\* Appending a closed interval to the closed ones keeps their type.
LEMMA PresenceAppended ==
  ASSUME TypeOK, Index \subseteq Index', NEW p,
         p \in [start : Index, end : Index, segment : Nat \ {0}, count : Nat,
                class : {"STAY", "DWELL"}, startReason : StartReasons,
                endReason : EndReasons, entered : BOOLEAN,
                centroid : {p.centroid}],
         presence' = Append(presence, p)
  PROVE  presence' \in Seq(PresenceInterval')
<1> DEFINE C == {presence[k].centroid : k \in DOMAIN presence}
           D == {presence'[k].centroid : k \in DOMAIN presence'}
<1>1. presence \in Seq(PresenceInterval)
  BY DEF TypeOK
<1>2. C \subseteq D
  <2> SUFFICES ASSUME NEW k \in DOMAIN presence
               PROVE  presence[k].centroid \in D
    OBVIOUS
  <2>1. k \in DOMAIN presence' /\ presence'[k] = presence[k]
    BY <1>1
  <2> QED BY <2>1
<1>3. p.centroid \in D
  <2>1. /\ Len(presence) + 1 \in DOMAIN presence'
        /\ presence'[Len(presence) + 1] = p
    BY <1>1
  <2> QED BY <2>1, Zenon
<1> HIDE DEF C, D
<1>4. PresenceInterval \subseteq PresenceInterval'
  BY <1>2 DEF PresenceInterval, C, D
<1>5. p \in PresenceInterval'
  BY <1>3 DEF PresenceInterval, C, D
<1>6. presence \in Seq(PresenceInterval')
  BY <1>1, <1>4, SeqMonotonic
<1> QED BY <1>5, <1>6

\* Counting a step's names keeps every counter a natural number.
LEMMA CountedType ==
  ASSUME TypeOK, NEW S
  PROVE  Counted(S) \in [Counter -> Nat]
BY DEF TypeOK, Counted

\* closePresence returns a well-typed interval of the open presence.
LEMMA ClosedType ==
  ASSUME TypeOK, Len(state.members) >= 2, NEW reason \in EndReasons
  PROVE  LET p == ClosedPresence(reason)
         IN  /\ p \in [start : Index, end : Index, segment : Nat \ {0},
                       count : Nat, class : {"STAY", "DWELL"},
                       startReason : StartReasons, endReason : EndReasons,
                       entered : BOOLEAN, centroid : {p.centroid}]
             /\ p.start = state.members[1]
             /\ p.segment = obs[p.start].segment
             /\ IntervalEvent(p) \in EventRecord
             /\ Event("LEAVE", p.end, p.start) \in EventRecord
<1> DEFINE first == state.members[1]
           last  == state.members[Len(state.members)]
           c     == MeanCentroid([m \in DOMAIN state.members |->
                                    obs[state.members[m]].place])
           class == IF obs[last].ts - obs[first].ts >= DwellThresholdS
                      THEN "DWELL" ELSE "STAY"
           p == ClosedPresence(reason)
<1>1. state.members \in Seq(Index) /\ state.startReason \in StartReasons
        /\ state.enterEvent \in BOOLEAN
  BY DEF TypeOK, PresenceState
<1>2. first \in Index /\ last \in Index /\ Len(state.members) \in Nat
  BY <1>1
<1>3. obs[first].segment \in Nat \ {0}
  BY <1>2, ObservationAt
<1>4. class \in {"STAY", "DWELL"}
  OBVIOUS
<1> HIDE DEF c, class, first, last
<1>5. p = [start |-> first, end |-> last, segment |-> obs[first].segment,
           count |-> Len(state.members), class |-> class, centroid |-> c,
           startReason |-> state.startReason, endReason |-> reason,
           entered |-> state.enterEvent]
  BY DEF ClosedPresence, first, last, class, c
<1> HIDE DEF p
<1>6. p \in [start : Index, end : Index, segment : Nat \ {0}, count : Nat,
             class : {"STAY", "DWELL"}, startReason : StartReasons,
             endReason : EndReasons, entered : BOOLEAN,
             centroid : {p.centroid}]
  BY <1>1, <1>2, <1>3, <1>4, <1>5
<1>7. p.start = state.members[1] /\ p.segment = obs[p.start].segment
  BY <1>5 DEF first
<1>8. IntervalEvent(p) \in EventRecord
  BY <1>2, <1>4, <1>5 DEF IntervalEvent, Event, EventRecord
<1>9. Event("LEAVE", p.end, p.start) \in EventRecord
  BY <1>2, <1>5 DEF Event, EventRecord
<1> QED BY <1>6, <1>7, <1>8, <1>9 DEF p

\* makeTransition returns a well-typed transition.
LEMMA TransitionType ==
  ASSUME TypeOK, pending # NoPending, NEW dest \in Index
  PROVE  MakeTransition(dest) \in Transition
<1>1. pending \in [origin : Index, segment : Nat \ {0}, departIdx : Index]
  BY DEF TypeOK, PendingTransition
<1>2. obs[dest].segment \in Nat \ {0}
  BY ObservationAt
<1>3. ObservedCount(pending.departIdx, dest) \in Nat
  <2> DEFINE span == pending.departIdx + 1 .. dest
             observed == {i \in span : ~obs[i].gap /\ ~obs[i].disc}
  <2>1. pending.departIdx + 1 \in Int /\ dest \in Int
    BY <1>1 DEF Index
  <2>2. IsFiniteSet(span)
    BY <2>1, FS_Interval
  <2>3. IsFiniteSet(observed)
    BY <2>2, FS_Subset
  <2>4. Cardinality(observed) \in Nat
    BY <2>3, FS_CardinalityType
  <2> QED BY <2>4 DEF ObservedCount
<1> QED BY <1>1, <1>2, <1>3 DEF MakeTransition, Transition

\* The first observation starts the loop in a coherent state.
LEMMA InitInductive == Init => Inductive
<1> SUFFICES ASSUME Init PROVE Inductive
  OBVIOUS
<1>1. PICK p \in Place, h \in HA : obs = <<FirstObservation(p, h)>>
  BY DEF Init
<1>2. FirstObservation(p, h) \in Observation
  BY DEF FirstObservation, Observation
<1>3. obs \in Seq(Observation) /\ obs # <<>> /\ Len(obs) = 1
  BY <1>1, <1>2
<1>4. Index = {1}
  BY <1>3 DEF Index
<1>5. state \in PresenceState
  BY <1>4 DEF Init, Seeking, PresenceState, StartReasons
<1>6. pending \in PendingTransition
  BY DEF Init, PendingTransition
<1>7. events \in Seq(EventRecord)
  BY <1>4 DEF Init, Event, EventRecord
<1>8. presence \in Seq(PresenceInterval) /\ transitions \in Seq(Transition)
  BY DEF Init
<1>9. diag \in [Counter -> Nat]
  BY DEF Init
<1>10. TypeOK
  BY <1>3, <1>5, <1>6, <1>7, <1>8, <1>9 DEF TypeOK
<1>11. StateCoherent /\ AnchorSegment
  BY <1>3 DEF Init, Seeking, StateCoherent, AnchorSegment, Present
<1> QED BY <1>10, <1>11 DEF Inductive

\* A gap or a discontinuity restarts the search at the new observation.
LEMMA BreakStep ==
  ASSUME Inductive, NEW o \in Incoming, ContinuityBreak(o)
  PROVE  Inductive'
<1> USE DEF Inductive
<1> DEFINE reason == IF o.disc THEN "discontinuity" ELSE "gap"
           closed == ClosedPresence(reason)
<1>1. o \in Observation /\ Consume(o)
  BY IncomingType DEF ContinuityBreak
<1>2. /\ obs' \in Seq(Observation) /\ obs' # <<>> /\ Len(obs') = Now /\ Now \in Nat
      /\ Index \subseteq Index' /\ Now \in Index'
      /\ Seq(EventRecord) \subseteq Seq(EventRecord)'
      /\ Seq(Transition) \subseteq Seq(Transition)'
  BY <1>1, Grown
<1>3. reason \in EndReasons
  BY DEF EndReasons
<1> HIDE DEF reason
<1>4. state' = Seeking(Now, "continuity_reset") /\ pending' = NoPending
  BY DEF ContinuityBreak, PendingAfterBreak
<1>5. state' \in PresenceState'
  BY <1>2, <1>4 DEF Seeking, PresenceState, StartReasons
<1>6. pending' \in PendingTransition'
  BY <1>4 DEF PendingTransition
<1>7. presence' \in Seq(PresenceInterval')
  <2>1. CASE Closable
    BY <2>1, <1>2, <1>3, ClosedType, PresenceAppended DEF ContinuityBreak,
       reason, Closable
  <2>2. CASE ~Closable
    BY <1>2, <2>2, PresenceKept DEF ContinuityBreak
  <2> QED BY <2>1, <2>2
<1>8. events' \in Seq(EventRecord')
  <2> DEFINE interval == IF Closable THEN <<IntervalEvent(closed)>> ELSE <<>>
             gapped   == IF o.gap  THEN <<Event("GAP", Now, 0)>> ELSE <<>>
             disced   == IF o.disc THEN <<Event("DISCONTINUITY", Now, 0)>>
                                   ELSE <<>>
  <2>1. interval \in Seq(EventRecord)
    BY <1>3, ClosedType DEF Closable
  <2>2. gapped \in Seq(EventRecord') /\ disced \in Seq(EventRecord')
    <3>1. /\ Event("GAP", Now, 0) \in EventRecord'
          /\ Event("DISCONTINUITY", Now, 0) \in EventRecord'
      BY <1>2 DEF Event, EventRecord
    <3> QED BY <3>1
  <2>3. events' = events \o interval \o gapped \o disced
    BY DEF ContinuityBreak, reason
  <2> HIDE DEF interval, gapped, disced
  <2>4. events \in Seq(EventRecord') /\ interval \in Seq(EventRecord')
    BY <1>2, <2>1 DEF TypeOK
  <2> QED BY <2>2, <2>3, <2>4
<1>9. transitions' \in Seq(Transition')
  BY <1>2 DEF ContinuityBreak, TypeOK
<1>10. diag' \in [Counter -> Nat]
  BY CountedType DEF ContinuityBreak
<1>11. TypeOK'
  BY <1>2, <1>5, <1>6, <1>7, <1>8, <1>9, <1>10 DEF TypeOK
<1>12. StateCoherent' /\ AnchorSegment'
  BY <1>2, <1>4 DEF StateCoherent, AnchorSegment, Seeking, Present
<1> QED BY <1>11, <1>12

\* The anchor of a continued step is in the segment of the latest observation.
LEMMA AnchorSegmentStep ==
  ASSUME Inductive, NEW o \in Incoming, Consume(o), Continues(o),
         state'.anchorIdx \in {state.anchorIdx, Now}
  PROVE  AnchorSegment'
<1>1. o \in Observation /\ o.segment = obs[Len(obs)].segment
  BY IncomingType DEF Inductive
<1>2. Len(obs') = Now /\ obs'[Now] = o /\ \A i \in Index : obs'[i] = obs[i]
  BY <1>1, Grown DEF Inductive
<1>3. state.anchorIdx \in Index
  BY DEF Inductive, TypeOK, PresenceState
<1> QED BY <1>1, <1>2, <1>3 DEF Inductive, AnchorSegment

\* A second member makes a sequence of two that keeps its first.
LEMMA AppendToSingleton ==
  ASSUME NEW S, NEW a \in S, NEW b \in S
  PROVE  Append(<<a>>, b) = <<a, b>>
<1>1. /\ <<a>> \in Seq(S) /\ Len(<<a>>) = 1
      /\ <<a, b>> \in Seq(S) /\ Len(<<a, b>>) = 2
  OBVIOUS
<1>2. Append(<<a>>, b) \in Seq(S) /\ Len(Append(<<a>>, b)) = 2
  BY <1>1
<1>3. \A i \in 1 .. 2 : Append(<<a>>, b)[i] = <<a, b>>[i]
  BY <1>1
<1> QED BY <1>1, <1>2, <1>3, SeqEqual

\* The state after a supporting observation, before the arrival is decided.
LEMMA SupportedState ==
  ASSUME Inductive, NEW o \in Incoming, Consume(o), state.phase = "seeking"
  PROVE  /\ Supported \in PresenceState'
         /\ Supported.phase = "present"
         /\ Supported.anchorIdx = state.anchorIdx
         /\ Supported.members = <<state.anchorIdx, Now>>
         /\ Supported.moveCandidates = <<>>
         /\ Supported.startReason = state.startReason
         /\ Supported.enterEvent = FALSE
<1>1. /\ PresenceState \subseteq PresenceState'
      /\ Now \in Index' /\ Index \subseteq Index'
  BY IncomingType, Grown DEF Inductive
<1>2. /\ state \in PresenceState /\ state \in PresenceState'
      /\ state.members = <<state.anchorIdx>>
      /\ state.moveCandidates = <<>> /\ ~state.enterEvent
  BY <1>1 DEF Inductive, TypeOK, StateCoherent, Present
<1>3. state.anchorIdx \in Index /\ state.enterEvent = FALSE
  BY <1>2 DEF PresenceState
<1>4. Append(state.members, Now) = <<state.anchorIdx, Now>>
  BY <1>1, <1>2, <1>3, AppendToSingleton
<1>5. Len(<<state.anchorIdx, Now>>) >= 2
  OBVIOUS
<1>6. Supported = [state EXCEPT !.members = <<state.anchorIdx, Now>>,
                                !.phase = "present"]
  BY <1>4, <1>5, Zenon DEF Supported
<1>7. Supported = [phase |-> "present", anchorIdx |-> state.anchorIdx,
                   members |-> <<state.anchorIdx, Now>>,
                   moveCandidates |-> <<>>,
                   startReason |-> state.startReason, enterEvent |-> FALSE]
  BY <1>2, <1>3, <1>6 DEF PresenceState
<1>8. <<state.anchorIdx, Now>> \in Seq(Index')
  BY <1>1, <1>3
<1>9. Supported \in PresenceState'
  BY <1>1, <1>2, <1>3, <1>7, <1>8 DEF PresenceState
<1> QED BY <1>7, <1>9

\* An arrival turns the pending transition into a presence that entered.
LEMMA ArrivalStep ==
  ASSUME Inductive, NEW o \in Incoming, ConfirmArrival(o)
  PROVE  Inductive'
<1> USE DEF Inductive
<1>1. o \in Observation /\ Consume(o) /\ Continues(o)
  BY IncomingType DEF ConfirmArrival
<1>2. /\ obs' \in Seq(Observation) /\ obs' # <<>> /\ Len(obs') = Now
      /\ Index \subseteq Index'
      /\ Seq(EventRecord) \subseteq Seq(EventRecord)'
      /\ Seq(Transition) \subseteq Seq(Transition)'
  BY <1>1, Grown
<1>3. /\ Supported \in PresenceState' /\ Supported.phase = "present"
      /\ Supported.anchorIdx = state.anchorIdx
      /\ Supported.members = <<state.anchorIdx, Now>>
      /\ Supported.moveCandidates = <<>>
      /\ Supported.startReason = "movement_arrival"
  BY <1>1, SupportedState DEF ConfirmArrival, ArrivalMatches
<1>4. state' = [Supported EXCEPT !.enterEvent = TRUE] /\ pending' = NoPending
  BY DEF ConfirmArrival
<1>5. /\ state' \in PresenceState' /\ pending' \in PendingTransition'
      /\ state'.phase = "present" /\ state'.enterEvent
      /\ state'.anchorIdx = state.anchorIdx
      /\ state'.members = <<state.anchorIdx, Now>>
      /\ state'.moveCandidates = <<>>
      /\ state'.startReason = "movement_arrival"
  BY <1>3, <1>4 DEF PresenceState, PendingTransition
<1>6. state.anchorIdx \in Index
  BY DEF TypeOK, PresenceState
<1>7. events' \in Seq(EventRecord')
  <2>1. Event("ENTER", state.anchorIdx, state.anchorIdx) \in EventRecord
    BY <1>6 DEF Event, EventRecord
  <2>2. events' \in Seq(EventRecord)
    BY <2>1 DEF ConfirmArrival, TypeOK
  <2> QED BY <1>2, <2>2
<1>8. transitions' \in Seq(Transition')
  <2>1. MakeTransition(state.anchorIdx) \in Transition
    BY <1>6, TransitionType DEF ConfirmArrival, ArrivalMatches
  <2>2. transitions' \in Seq(Transition)
    BY <2>1 DEF ConfirmArrival, TypeOK
  <2> QED BY <1>2, <2>2
<1>9. presence' \in Seq(PresenceInterval')
  BY <1>2, PresenceKept DEF ConfirmArrival
<1>10. diag' \in [Counter -> Nat]
  BY CountedType DEF ConfirmArrival
<1>11. TypeOK'
  BY <1>2, <1>5, <1>7, <1>8, <1>9, <1>10 DEF TypeOK
<1>12. StateCoherent'
  BY <1>5, <1>4 DEF Present, StateCoherent
<1>13. AnchorSegment'
  BY <1>1, <1>5, AnchorSegmentStep
<1> QED BY <1>11, <1>12, <1>13

\* A presence asserted without an arrival leaves no pending transition.
LEMMA PresenceStep ==
  ASSUME Inductive, NEW o \in Incoming, ConfirmPresence(o)
  PROVE  Inductive'
<1> USE DEF Inductive
<1>1. o \in Observation /\ Consume(o) /\ Continues(o)
  BY IncomingType DEF ConfirmPresence
<1>2. /\ obs' \in Seq(Observation) /\ obs' # <<>> /\ Len(obs') = Now
      /\ Index \subseteq Index'
      /\ Seq(EventRecord) \subseteq Seq(EventRecord)'
      /\ Seq(Transition) \subseteq Seq(Transition)'
  BY <1>1, Grown
<1>3. /\ Supported \in PresenceState' /\ Supported.phase = "present"
      /\ Supported.anchorIdx = state.anchorIdx
      /\ Supported.members = <<state.anchorIdx, Now>>
      /\ Supported.moveCandidates = <<>>
      /\ Supported.startReason = state.startReason
      /\ Supported.enterEvent = FALSE
  BY <1>1, SupportedState DEF ConfirmPresence
<1>4. state' = Supported
  BY DEF ConfirmPresence
<1>5. state.startReason # "movement_arrival" /\ pending = NoPending
  BY DEF ConfirmPresence, ArrivalMatches, StateCoherent, Present, Anchor
<1>6. pending' = NoPending
  BY <1>5 DEF ConfirmPresence
<1>7. state' \in PresenceState' /\ pending' \in PendingTransition'
  BY <1>3, <1>4, <1>6 DEF PendingTransition
<1>8. events' \in Seq(EventRecord') /\ transitions' \in Seq(Transition')
  BY <1>2 DEF ConfirmPresence, TypeOK
<1>9. presence' \in Seq(PresenceInterval')
  BY <1>2, PresenceKept DEF ConfirmPresence
<1>10. diag' \in [Counter -> Nat]
  BY CountedType DEF ConfirmPresence
<1>11. TypeOK'
  BY <1>2, <1>7, <1>8, <1>9, <1>10 DEF TypeOK
<1>12. StateCoherent'
  BY <1>3, <1>4, <1>5, <1>6 DEF StateCoherent, Present
<1>13. AnchorSegment'
  BY <1>1, <1>3, <1>4, AnchorSegmentStep
<1> QED BY <1>11, <1>12, <1>13

\* The steps that emit nothing and touch only the state of the loop.
LEMMA QuietTypes ==
  ASSUME Inductive, NEW o \in Incoming, Consume(o),
         state' \in PresenceState',
         UNCHANGED <<pending, events, presence, transitions>>,
         diag' \in [Counter -> Nat]
  PROVE  TypeOK'
<1> USE DEF Inductive
<1>1. /\ obs' \in Seq(Observation) /\ obs' # <<>>
      /\ Index \subseteq Index'
      /\ PendingTransition \subseteq PendingTransition'
      /\ Seq(EventRecord) \subseteq Seq(EventRecord)'
      /\ Seq(Transition) \subseteq Seq(Transition)'
  BY IncomingType, Grown
<1>2. presence' \in Seq(PresenceInterval')
  BY <1>1, PresenceKept
<1> QED BY <1>1, <1>2 DEF TypeOK

\* A new anchor is sought as a movement arrival exactly if one is pending.
LEMMA ReanchorStep ==
  ASSUME Inductive, NEW o \in Incoming, Reanchor(o)
  PROVE  Inductive'
<1> USE DEF Inductive
<1>1. /\ o \in Observation /\ Consume(o) /\ Continues(o)
      /\ o.segment = obs[Len(obs)].segment
  BY IncomingType DEF Reanchor
<1>2. /\ Len(obs') = Now /\ Now \in Index' /\ obs'[Now] = o
      /\ PresenceState \subseteq PresenceState'
  BY <1>1, Grown
<1>3. state \in PresenceState /\ state.moveCandidates = <<>>
        /\ ~state.enterEvent
  BY DEF Reanchor, TypeOK, StateCoherent, Present
<1>4. ReanchorReason \in StartReasons
        /\ (ReanchorReason = "movement_arrival" <=> pending # NoPending)
  BY DEF ReanchorReason, StartReasons
<1>5. state' = [state EXCEPT !.anchorIdx = Now, !.members = <<Now>>,
                             !.startReason = ReanchorReason]
  BY DEF Reanchor, NewAnchor
<1> HIDE DEF ReanchorReason
<1>6. /\ state' \in PresenceState' /\ state'.anchorIdx = Now
      /\ state'.members = <<Now>> /\ state'.moveCandidates = <<>>
      /\ ~state'.enterEvent /\ state'.startReason = ReanchorReason
      /\ state'.phase = "seeking"
  <2>1. state \in PresenceState' /\ <<Now>> \in Seq(Index')
    BY <1>2, <1>3
  <2> QED BY <1>2, <1>3, <1>4, <1>5, <2>1 DEF PresenceState, Reanchor
<1>7. TypeOK'
  BY <1>1, <1>6, QuietTypes DEF Reanchor, TypeOK
<1>8. StateCoherent'
  BY <1>1, <1>2, <1>4, <1>6 DEF StateCoherent, Present, Reanchor
<1>9. AnchorSegment'
  BY <1>1, <1>6, AnchorSegmentStep
<1> QED BY <1>7, <1>8, <1>9

\* A fix inside joins the presence and withdraws the departure candidate.
LEMMA InsideStep ==
  ASSUME Inductive, NEW o \in Incoming, RemainInside(o)
  PROVE  Inductive'
<1> USE DEF Inductive
<1>1. o \in Observation /\ Consume(o) /\ Continues(o)
  BY IncomingType DEF RemainInside
<1>2. /\ Len(obs') = Now /\ Now \in Index' /\ Index \subseteq Index'
      /\ PresenceState \subseteq PresenceState'
  BY <1>1, Grown
<1>3. /\ state \in PresenceState /\ state \in PresenceState'
      /\ state.phase = "present" /\ Len(state.members) >= 2
      /\ state.members[1] = state.anchorIdx /\ pending = NoPending
      /\ (state.enterEvent <=> state.startReason = "movement_arrival")
  BY <1>2 DEF RemainInside, TypeOK, StateCoherent, Present
<1>4. state' = [state EXCEPT !.members = Append(@, Now), !.moveCandidates = <<>>]
  BY DEF RemainInside
<1>5. Append(state.members, Now) \in Seq(Index')
        /\ Len(Append(state.members, Now)) >= 2
        /\ Append(state.members, Now)[1] = state.anchorIdx
        /\ Append(state.members, Now) # <<>>
  BY <1>3, <1>2 DEF PresenceState
<1>6. /\ state' \in PresenceState' /\ state'.anchorIdx = state.anchorIdx
      /\ state'.members = Append(state.members, Now)
      /\ state'.moveCandidates = <<>> /\ state'.phase = "present"
      /\ state'.enterEvent = state.enterEvent
      /\ state'.startReason = state.startReason
  <2> DEFINE members == Append(state.members, Now)
  <2> HIDE DEF members
  <2>1. state' = [phase |-> "present", anchorIdx |-> state.anchorIdx,
                  members |-> members, moveCandidates |-> <<>>,
                  startReason |-> state.startReason,
                  enterEvent |-> state.enterEvent]
    BY <1>3, <1>4 DEF PresenceState, members
  <2>2. state' \in PresenceState'
    BY <1>3, <1>5, <2>1 DEF PresenceState, members
  <2> QED BY <2>1, <2>2 DEF members
<1>7. diag' \in [Counter -> Nat]
  BY CountedType DEF RemainInside
<1>8. TypeOK'
  BY <1>1, <1>6, <1>7, QuietTypes DEF RemainInside
<1>9. StateCoherent'
  BY <1>3, <1>5, <1>6 DEF StateCoherent, Present, RemainInside
<1>10. AnchorSegment'
  BY <1>1, <1>6, AnchorSegmentStep
<1> QED BY <1>8, <1>9, <1>10

\* What closing a confirmed departure leaves behind, in either mode.
LEMMA DepartStep ==
  ASSUME Inductive, NEW o \in Incoming, Outside(o), Consume(o),
         NEW S, Depart(S)
  PROVE  Inductive'
<1> USE DEF Inductive
<1> DEFINE closed == ClosedPresence("confirmed_movement")
<1>1. /\ o \in Observation /\ Continues(o)
      /\ o.segment = obs[Len(obs)].segment
  BY IncomingType DEF Outside
<1>2. /\ obs' \in Seq(Observation) /\ obs' # <<>> /\ Len(obs') = Now
      /\ obs'[Now] = o /\ Now \in Index' /\ Index \subseteq Index'
      /\ PendingTransition \subseteq PendingTransition'
      /\ Seq(EventRecord) \subseteq Seq(EventRecord)'
      /\ Seq(Transition) \subseteq Seq(Transition)'
  BY <1>1, Grown
<1>3. Len(state.members) >= 2 /\ state.members[1] = state.anchorIdx
  BY DEF Outside, StateCoherent, Present
<1>4. "confirmed_movement" \in EndReasons
  BY DEF EndReasons
<1>5. /\ closed \in [start : Index, end : Index, segment : Nat \ {0},
                     count : Nat, class : {"STAY", "DWELL"},
                     startReason : StartReasons, endReason : EndReasons,
                     entered : BOOLEAN, centroid : {closed.centroid}]
      /\ closed.start = state.anchorIdx
      /\ closed.segment = obs[closed.start].segment
      /\ IntervalEvent(closed) \in EventRecord
      /\ Event("LEAVE", closed.end, closed.start) \in EventRecord
  BY <1>3, <1>4, ClosedType
<1> HIDE DEF closed
<1>6. /\ presence' = Append(presence, closed)
      /\ events' = events \o <<IntervalEvent(closed),
                               Event("LEAVE", closed.end, closed.start)>>
      /\ pending' = [origin |-> closed.start, segment |-> closed.segment,
                     departIdx |-> closed.end]
      /\ state' = Seeking(Now, "movement_arrival")
      /\ transitions' = transitions
  BY DEF Depart, closed
<1>7. presence' \in Seq(PresenceInterval')
  BY <1>2, <1>5, <1>6, PresenceAppended
<1>8. events' \in Seq(EventRecord')
  <2> DEFINE left == <<IntervalEvent(closed),
                       Event("LEAVE", closed.end, closed.start)>>
  <2>1. events \in Seq(EventRecord) /\ left \in Seq(EventRecord)
    BY <1>5 DEF TypeOK
  <2>2. events' = events \o left
    BY <1>6
  <2> HIDE DEF left
  <2>3. events \o left \in Seq(EventRecord)
    BY <2>1, ConcatProperties
  <2> QED BY <1>2, <2>2, <2>3
<1>9. state' \in PresenceState'
  BY <1>2, <1>6 DEF Seeking, PresenceState, StartReasons
<1>10. pending' \in PendingTransition /\ pending' # NoPending
  BY <1>5, <1>6 DEF PendingTransition, NoPending
<1>11. diag' \in [Counter -> Nat]
  BY CountedType DEF Depart
<1>12. TypeOK'
  BY <1>2, <1>6, <1>7, <1>8, <1>9, <1>10, <1>11 DEF TypeOK
<1>13. pending'.segment = obs'[Len(obs')].segment
  BY <1>1, <1>2, <1>5, <1>6 DEF AnchorSegment
<1>14. StateCoherent' /\ AnchorSegment'
  BY <1>2, <1>6, <1>10, <1>13
     DEF StateCoherent, AnchorSegment, Seeking, Present
<1> QED BY <1>12, <1>14

\* A candidate is started or restarted at the latest observation.
LEMMA CandidateStep ==
  ASSUME Inductive, NEW o \in Incoming,
         StartCandidate(o) \/ RestartCandidate(o)
  PROVE  Inductive'
<1> USE DEF Inductive
<1>1. /\ o \in Observation /\ Consume(o) /\ Continues(o)
      /\ state.phase = "present" /\ ConfirmMoves
      /\ UNCHANGED <<pending, events, presence, transitions>>
  BY IncomingType
     DEF StartCandidate, RestartCandidate, Outside, NeedsConfirmation
<1>2. /\ Len(obs') = Now /\ Now \in Index'
      /\ PresenceState \subseteq PresenceState'
  BY <1>1, Grown
<1>3. /\ state \in PresenceState /\ state \in PresenceState'
      /\ Len(state.members) >= 2 /\ state.members # <<>>
      /\ state.members[1] = state.anchorIdx /\ pending = NoPending
      /\ (state.enterEvent <=> state.startReason = "movement_arrival")
  BY <1>1, <1>2 DEF TypeOK, StateCoherent, Present
<1>4. state' = [state EXCEPT !.moveCandidates = <<Now>>]
  <2>1. CASE StartCandidate(o)
    BY <1>2, <2>1 DEF StartCandidate
  <2>2. CASE RestartCandidate(o)
    BY <2>2 DEF RestartCandidate
  <2> QED BY <2>1, <2>2
<1>5. /\ state' \in PresenceState' /\ state'.anchorIdx = state.anchorIdx
      /\ state'.members = state.members
      /\ state'.moveCandidates = <<Now>> /\ state'.phase = "present"
      /\ state'.enterEvent = state.enterEvent
      /\ state'.startReason = state.startReason
  <2>1. <<Now>> \in Seq(Index')
    BY <1>2
  <2> QED BY <1>1, <1>3, <1>4, <2>1 DEF PresenceState
<1>6. diag' \in [Counter -> Nat]
  BY CountedType DEF StartCandidate, RestartCandidate
<1>7. TypeOK'
  BY <1>1, <1>5, <1>6, QuietTypes
<1>8. StateCoherent'
  BY <1>1, <1>2, <1>3, <1>5 DEF StateCoherent, Present
<1>9. AnchorSegment'
  BY <1>1, <1>5, AnchorSegmentStep
<1> QED BY <1>7, <1>8, <1>9

\* The enrichment changes no more than a destination count.
LEMMA EnrichedType ==
  ASSUME TypeOK, NEW t \in Transition, NEW intervals \in Seq(PresenceInterval')
  PROVE  Enriched(t, intervals) \in Transition
<1> DEFINE found == {k \in DOMAIN intervals :
                       intervals[k].start = t.destination}
           k == CHOOSE k \in found : \A j \in found : j <= k
<1>1. CASE found = {}
  BY <1>1 DEF Enriched
<1>2. CASE found # {}
  <2>1. \E m \in found : \A j \in found : j <= m
    <3>1. found \in SUBSET (1 .. Len(intervals)) /\ Len(intervals) \in Nat
      OBVIOUS
    <3> HIDE DEF found
    <3> QED BY <1>2, <3>1, GreatestIndex
  <2>2. k \in found
    BY <2>1
  <2>3. intervals[k] \in PresenceInterval'
    BY <2>2
  <2>4. intervals[k].count \in Nat
    BY <2>3 DEF PresenceInterval
  <2>5. Enriched(t, intervals) = [t EXCEPT !.destCount = intervals[k].count]
    BY <1>2 DEF Enriched
  <2> HIDE DEF k
  <2> QED BY <2>4, <2>5 DEF Transition
<1> QED BY <1>1, <1>2

\* The end of the input closes the open presence and types its results.
LEMMA FinishStep ==
  ASSUME Inductive, Finish
  PROVE  Inductive'
<1> USE DEF Inductive
<1> DEFINE closed == ClosedPresence("dataset_end")
<1>1. UNCHANGED <<obs, state, pending>> /\ Index' = Index
  BY DEF Finish, Index
<1>2. "dataset_end" \in EndReasons
  BY DEF EndReasons
<1>3. presence' \in Seq(PresenceInterval')
  <2>1. CASE Closable
    BY <2>1, <1>1, <1>2, ClosedType, PresenceAppended DEF Finish, Closable
  <2>2. CASE ~Closable
    BY <1>1, <2>2, PresenceKept DEF Finish
  <2> QED BY <2>1, <2>2
<1>4. events' \in Seq(EventRecord')
  <2> DEFINE interval == IF Closable THEN <<IntervalEvent(closed)>> ELSE <<>>
             end      == <<Event("END", Len(obs), 0)>>
  <2>1. interval \in Seq(EventRecord)
    BY <1>2, ClosedType DEF Closable
  <2>2. end \in Seq(EventRecord)
    BY DEF Event, EventRecord, TypeOK, Index
  <2>3. events' = events \o interval \o end
    BY DEF Finish
  <2>4. EventRecord' = EventRecord
    BY <1>1 DEF EventRecord
  <2> HIDE DEF interval, end
  <2> QED BY <2>1, <2>2, <2>3, <2>4 DEF TypeOK
<1>5. transitions' \in Seq(Transition')
  <2>1. transitions' = [k \in DOMAIN transitions |->
                          Enriched(transitions[k], presence')]
    BY DEF Finish
  <2>2. \A k \in DOMAIN transitions :
          Enriched(transitions[k], presence') \in Transition
    BY <1>3, EnrichedType DEF TypeOK
  <2>3. Transition' = Transition
    BY <1>1 DEF Transition
  <2>4. DOMAIN transitions = 1 .. Len(transitions) /\ Len(transitions) \in Nat
    BY DEF TypeOK
  <2> QED BY <2>1, <2>2, <2>3, <2>4, IsASeq
<1>6. diag' \in [Counter -> Nat]
  BY CountedType DEF Finish
<1>7. state' \in PresenceState' /\ pending' \in PendingTransition'
        /\ obs' \in Seq(Observation) /\ obs' # <<>>
  BY <1>1 DEF TypeOK, PresenceState, PendingTransition
<1>8. TypeOK'
  BY <1>3, <1>4, <1>5, <1>6, <1>7 DEF TypeOK
<1>9. StateCoherent' /\ AnchorSegment'
  BY <1>1 DEF StateCoherent, AnchorSegment, Present
<1> QED BY <1>8, <1>9

\* Every step preserves the inductive invariant.
LEMMA NextInductive == Inductive /\ [Next]_vars => Inductive'
<1> SUFFICES ASSUME Inductive, [Next]_vars
             PROVE  Inductive'
  OBVIOUS
<1>1. ASSUME NEW o \in Incoming, ContinuityBreak(o) PROVE Inductive'
  BY <1>1, BreakStep
<1>2. ASSUME NEW o \in Incoming, ConfirmArrival(o) PROVE Inductive'
  BY <1>2, ArrivalStep
<1>3. ASSUME NEW o \in Incoming, ConfirmPresence(o) PROVE Inductive'
  BY <1>3, PresenceStep
<1>4. ASSUME NEW o \in Incoming, Reanchor(o) PROVE Inductive'
  BY <1>4, ReanchorStep
<1>5. ASSUME NEW o \in Incoming, RemainInside(o) PROVE Inductive'
  BY <1>5, InsideStep
<1>6. ASSUME NEW o \in Incoming, DepartUnconfirmed(o) PROVE Inductive'
  BY <1>6, DepartStep DEF DepartUnconfirmed
<1>7. ASSUME NEW o \in Incoming, StartCandidate(o) PROVE Inductive'
  BY <1>7, CandidateStep
<1>8. ASSUME NEW o \in Incoming, RestartCandidate(o) PROVE Inductive'
  BY <1>8, CandidateStep
<1>9. ASSUME NEW o \in Incoming, ConfirmDeparture(o) PROVE Inductive'
  BY <1>9, DepartStep DEF ConfirmDeparture
<1>10. CASE Finish
  BY <1>10, FinishStep
<1>11. CASE UNCHANGED vars
  BY <1>11
     DEF vars, Inductive, TypeOK, StateCoherent, AnchorSegment, Present,
         Index, PresenceState, PendingTransition, EventRecord,
         PresenceInterval, Transition
<1> QED BY <1>1, <1>2, <1>3, <1>4, <1>5, <1>6, <1>7, <1>8, <1>9, <1>10, <1>11
        DEF Next

\* The inductive invariant holds in every reachable state.
LEMMA SpecInductive == Spec => []Inductive
BY InitInductive, NextInductive, PTL DEF Spec

\* Type correctness: for every set of positions and radii, every threshold and
\* every input length, indices point into the observations read and every
\* counter stays a natural number (Eventize).
THEOREM TypeCorrect == Spec => []TypeOK
<1>1. Inductive => TypeOK
  BY DEF Inductive
<1> QED BY <1>1, SpecInductive, PTL

\* The presence state of Eventize and its pending transition never contradict
\* each other, in either departure mode.
THEOREM StateCoherence == Spec => []StateCoherent
<1>1. Inductive => StateCoherent
  BY DEF Inductive
<1> QED BY <1>1, SpecInductive, PTL

-----------------------------------------------------------------------------
(* The closure identities of docs/DIAGNOSTICS.md, for every input.         *)
(*                                                                         *)
(* A step counts the names of a set S once each.  The first lemma of each  *)
(* identity does the arithmetic for any S; the lemmas after it only say    *)
(* which names each step counts and what it leaves open.                   *)

\* A truth value counts as a natural number.
LEMMA OneType == ASSUME NEW P PROVE One(P) \in Nat
BY DEF One

\* A counter grows by one exactly when the step counts its name.
LEMMA CountedAt ==
  ASSUME TypeOK, NEW S, diag' = Counted(S), NEW c \in Counter
  PROVE  /\ diag'[c] = diag[c] + One(c \in S)
         /\ diag[c] \in Nat /\ diag'[c] \in Nat /\ One(c \in S) \in Nat
<1>1. diag[c] \in Nat /\ One(c \in S) \in Nat
  BY OneType DEF TypeOK
<1>2. diag'[c] = diag[c] + One(c \in S)
  BY DEF Counted, One
<1> QED BY <1>1, <1>2

\* The start of a presence counts only presence starts.
LEMMA StartCounterNames ==
  ASSUME NEW reason \in StartReasons
  PROVE  PresenceStartCounters(reason) \subseteq
           {"PresenceConfirmations", "PresenceStartDataset",
            "PresenceStartContinuityReset", "PresenceStartCandidate",
            "PresenceStartMovementArrival"}
BY DEF StartReasons, PresenceStartCounters

\* The end of a presence counts only a presence end.
LEMMA EndCounterNames ==
  ASSUME NEW reason \in EndReasons
  PROVE  PresenceEndCounter(reason) \in
           {"PresenceEndDataset", "PresenceEndGap", "PresenceEndDiscontinuity",
            "PresenceEndConfirmedMovement"}
BY DEF EndReasons, PresenceEndCounter

\* The result of an ended input is told from no result by its labels.
LEMMA FinishFinishes == TypeOK /\ Finish => Finished'
<1> SUFFICES ASSUME TypeOK, Finish PROVE result' # NoResult
  BY DEF Finished
<1>1. PICK label : label = [i \in DOMAIN obs |-> Label(presence', i)]
  OBVIOUS
<1>2. result'.label = label
  BY <1>1 DEF Finish
<1>3. 1 \in DOMAIN obs
  BY DEF TypeOK
<1>4. DOMAIN label # {} /\ DOMAIN <<>> = {}
  BY <1>1, <1>3
<1> QED BY <1>2, <1>4 DEF NoResult

-----------------------------------------------------------------------------
(* Departure candidates.                                                   *)

CandidateNames ==
  {"DepartureCandidateSequences", "DeparturesConfirmed",
   "DepartureCandidatesReturnedInside", "DepartureCandidateWindowExpired",
   "DepartureCandidatesCancelledGap",
   "DepartureCandidatesCancelledDiscontinuity",
   "DepartureCandidatesCancelledEOF"}

CandidateWaits == ~Finished /\ state.moveCandidates # <<>>

\* The arithmetic of the identity, for a step that counts the names in S: what
\* is started or already open equals what gets an outcome or stays open.
LEMMA CandidateBalance ==
  ASSUME TypeOK, CandidatesAccounted, NEW S, diag' = Counted(S),
         One("DepartureCandidateSequences" \in S) + One(CandidateWaits)
           = One("DeparturesConfirmed" \in S)
             + One("DepartureCandidatesReturnedInside" \in S)
             + One("DepartureCandidateWindowExpired" \in S)
             + One("DepartureCandidatesCancelledGap" \in S)
             + One("DepartureCandidatesCancelledDiscontinuity" \in S)
             + One("DepartureCandidatesCancelledEOF" \in S)
             + One(CandidateWaits')
  PROVE  CandidatesAccounted'
<1> SUFFICES ASSUME ConfirmMoves
             PROVE  diag'["DepartureCandidateSequences"]
                      = DepartureCandidateOutcomes' + One(CandidateWaits')
  BY DEF CandidatesAccounted, CandidateWaits
<1>1. CandidateNames \subseteq Counter
  BY DEF CandidateNames, Counter
<1>2. \A c \in CandidateNames :
        /\ diag'[c] = diag[c] + One(c \in S)
        /\ diag[c] \in Nat /\ diag'[c] \in Nat /\ One(c \in S) \in Nat
  BY <1>1, CountedAt
<1> DEFINE waiting == One(CandidateWaits)
           waits   == One(CandidateWaits')
<1>3. waiting \in Nat /\ waits \in Nat
  BY OneType
<1>4. diag["DepartureCandidateSequences"]
        = DepartureCandidateOutcomes + waiting
  BY DEF CandidatesAccounted, CandidateWaits
<1>5. One("DepartureCandidateSequences" \in S) + waiting
        = One("DeparturesConfirmed" \in S)
          + One("DepartureCandidatesReturnedInside" \in S)
          + One("DepartureCandidateWindowExpired" \in S)
          + One("DepartureCandidatesCancelledGap" \in S)
          + One("DepartureCandidatesCancelledDiscontinuity" \in S)
          + One("DepartureCandidatesCancelledEOF" \in S)
          + waits
  OBVIOUS
<1> HIDE DEF waiting, waits
<1>6. diag'["DepartureCandidateSequences"]
        = DepartureCandidateOutcomes' + waits
  BY <1>2, <1>3, <1>4, <1>5 DEF DepartureCandidateOutcomes, CandidateNames
<1> QED BY <1>6 DEF waits

\* Steps that count no candidate and leave the open one as it is.
LEMMA CandidatesUntouched ==
  ASSUME TypeOK, CandidatesAccounted, NEW S, diag' = Counted(S),
         S \cap CandidateNames = {}, CandidateWaits' <=> CandidateWaits
  PROVE  CandidatesAccounted'
<1>1. \A c \in CandidateNames : One(c \in S) = 0
  BY DEF One
<1>2. One(CandidateWaits) = One(CandidateWaits') /\ One(CandidateWaits) \in Nat
  BY OneType DEF One
<1>3. /\ One("DepartureCandidateSequences" \in S) = 0
      /\ One("DeparturesConfirmed" \in S) = 0
      /\ One("DepartureCandidatesReturnedInside" \in S) = 0
      /\ One("DepartureCandidateWindowExpired" \in S) = 0
      /\ One("DepartureCandidatesCancelledGap" \in S) = 0
      /\ One("DepartureCandidatesCancelledDiscontinuity" \in S) = 0
      /\ One("DepartureCandidatesCancelledEOF" \in S) = 0
  BY <1>1 DEF CandidateNames
<1> QED BY <1>2, <1>3, CandidateBalance

\* A break cancels the open candidate, if any, by one of two counters.
LEMMA BreakCandidates ==
  ASSUME Inductive, CandidatesAccounted, NEW o \in Incoming, ContinuityBreak(o)
  PROVE  CandidatesAccounted'
<1> DEFINE
      reason == IF o.disc THEN "discontinuity" ELSE "gap"
      S == When(CandidateOpen,
                {IF o.disc THEN "DepartureCandidatesCancelledDiscontinuity"
                           ELSE "DepartureCandidatesCancelledGap"})
           \cup When(Closable, {PresenceEndCounter(reason)})
           \cup When(pending # NoPending,
                {IF o.disc THEN "PendingTransitionsCancelledDiscontinuity"
                           ELSE "PendingTransitionsCancelledGap"})
<1>1. diag' = Counted(S) /\ state'.moveCandidates = <<>>
  BY DEF ContinuityBreak, Seeking
<1>2. /\ "DepartureCandidateSequences" \notin S
      /\ "DeparturesConfirmed" \notin S
      /\ "DepartureCandidatesReturnedInside" \notin S
      /\ "DepartureCandidateWindowExpired" \notin S
      /\ "DepartureCandidatesCancelledEOF" \notin S
      /\ "DepartureCandidatesCancelledGap" \in S <=> CandidateOpen /\ ~o.disc
      /\ "DepartureCandidatesCancelledDiscontinuity" \in S
           <=> CandidateOpen /\ o.disc
  BY DEF When, PresenceEndCounter
<1> HIDE DEF S
<1>3. result = NoResult
  BY IncomingType DEF Inductive
<1>4. CandidateOpen <=> CandidateWaits
  BY <1>3
     DEF Inductive, StateCoherent, CandidateOpen, Present, Finished, CandidateWaits
<1>5. ~CandidateWaits'
  BY <1>1 DEF CandidateWaits
<1> QED BY <1>1, <1>2, <1>4, <1>5, CandidateBalance DEF One, Inductive

\* While seeking there is no candidate.
LEMMA SeekingCandidates ==
  ASSUME Inductive, CandidatesAccounted, NEW o \in Incoming,
         ConfirmArrival(o) \/ ConfirmPresence(o) \/ Reanchor(o)
  PROVE  CandidatesAccounted'
<1>1. Consume(o) /\ state.phase = "seeking" /\ state.moveCandidates = <<>>
  BY DEF ConfirmArrival, ConfirmPresence, Reanchor, Inductive, StateCoherent,
         Present
<1>2. state.startReason \in StartReasons /\ state \in PresenceState
  BY DEF Inductive, TypeOK, PresenceState
<1>3. state'.moveCandidates = <<>>
  <2>1. Supported \in PresenceState' /\ Supported.moveCandidates = <<>>
    BY <1>1, SupportedState
  <2>2. CASE ConfirmArrival(o)
    BY <2>1, <2>2 DEF ConfirmArrival, PresenceState
  <2>3. CASE ConfirmPresence(o)
    BY <2>1, <2>3 DEF ConfirmPresence
  <2>4. CASE Reanchor(o)
    BY <1>1, <1>2, <2>4 DEF Reanchor, PresenceState
  <2> QED BY <2>2, <2>3, <2>4
<1>4. ~CandidateWaits /\ ~CandidateWaits'
  BY <1>1, <1>3 DEF CandidateWaits
<1>5. CASE ConfirmArrival(o)
  <2> DEFINE S == PresenceStartCounters(state.startReason)
                    \cup {"TransitionsConfirmed"}
  <2>1. diag' = Counted(S)
    BY <1>5 DEF ConfirmArrival
  <2>2. S \cap CandidateNames = {}
    BY <1>2, StartCounterNames DEF CandidateNames
  <2> QED BY <1>4, <2>1, <2>2, CandidatesUntouched DEF Inductive
<1>6. CASE ConfirmPresence(o)
  <2> DEFINE
        arrival == state.startReason = "movement_arrival"
        S == PresenceStartCounters(state.startReason)
               \cup When(arrival /\ pending # NoPending,
                         {"PendingTransitionsCancelledSegmentMismatch"})
               \cup When(\/ arrival /\ pending = NoPending
                         \/ state.startReason = "candidate_presence",
                         {"EnterSuppressedNoPendingTransition"})
  <2>1. diag' = Counted(S)
    BY <1>6 DEF ConfirmPresence
  <2>2. S \cap CandidateNames = {}
    BY <1>2, StartCounterNames DEF CandidateNames, When
  <2> QED BY <1>4, <2>1, <2>2, CandidatesUntouched DEF Inductive
<1>7. CASE Reanchor(o)
  BY <1>4, <1>7
     DEF Reanchor, CandidatesAccounted, CandidateWaits,
         DepartureCandidateOutcomes
<1> QED BY <1>5, <1>6, <1>7

\* A fix inside resolves the open candidate as returned.
LEMMA InsideCandidates ==
  ASSUME Inductive, CandidatesAccounted, NEW o \in Incoming, RemainInside(o)
  PROVE  CandidatesAccounted'
<1> DEFINE S == When(CandidateOpen, {"DepartureCandidatesReturnedInside"})
<1>1. diag' = Counted(S) /\ state'.moveCandidates = <<>>
  BY DEF RemainInside, Inductive, TypeOK, PresenceState
<1>2. /\ \A c \in CandidateNames \ {"DepartureCandidatesReturnedInside"} :
           c \notin S
      /\ "DepartureCandidatesReturnedInside" \in S <=> CandidateOpen
  BY DEF When
<1> HIDE DEF S
<1>3. CandidateOpen <=> CandidateWaits
  BY IncomingType
     DEF Inductive, StateCoherent, CandidateOpen, Present, Finished, CandidateWaits
<1>4. ~CandidateWaits'
  BY <1>1 DEF CandidateWaits
<1> QED BY <1>1, <1>2, <1>3, <1>4, CandidateBalance
        DEF One, Inductive, CandidateNames

\* A candidate is started; a restart first counts the expired one.
LEMMA StartedCandidates ==
  ASSUME Inductive, CandidatesAccounted, NEW o \in Incoming,
         StartCandidate(o) \/ RestartCandidate(o)
  PROVE  CandidatesAccounted'
<1> DEFINE
      restarted == state.moveCandidates # <<>>
      S == {"DepartureCandidateOutsideFixes", "DepartureCandidateSequences"}
             \cup When(restarted, {"DepartureCandidateWindowExpired"})
<1>1. diag' = Counted(S)
  <2>1. CASE StartCandidate(o)
    BY <2>1 DEF StartCandidate, When
  <2>2. CASE RestartCandidate(o)
    BY <2>2 DEF RestartCandidate, When
  <2> QED BY <2>1, <2>2
<1>2. /\ \A c \in CandidateNames \ {"DepartureCandidateSequences",
                                   "DepartureCandidateWindowExpired"} :
           c \notin S
      /\ "DepartureCandidateSequences" \in S
      /\ "DepartureCandidateWindowExpired" \in S <=> restarted
  BY DEF When, CandidateNames
<1> HIDE DEF S
<1>3. result = NoResult /\ result' = NoResult
  BY IncomingType DEF Inductive, StartCandidate, RestartCandidate, Consume
<1>4. CandidateWaits <=> restarted
  BY <1>3 DEF CandidateWaits, Finished
<1>5. state'.moveCandidates # <<>>
  <2>1. state.moveCandidates \in Seq(Index) /\ state \in PresenceState
    BY DEF Inductive, TypeOK, PresenceState
  <2>2. CASE StartCandidate(o)
    BY <2>1, <2>2 DEF StartCandidate, PresenceState
  <2>3. CASE RestartCandidate(o)
    BY <2>1, <2>3 DEF RestartCandidate, PresenceState
  <2> QED BY <2>2, <2>3
<1>6. CandidateWaits'
  BY <1>3, <1>5 DEF CandidateWaits, Finished
<1> HIDE DEF restarted
<1> QED BY <1>1, <1>2, <1>4, <1>6, CandidateBalance
        DEF One, Inductive, CandidateNames

\* A confirmed departure is the outcome of the open candidate.
LEMMA DepartureCandidates ==
  ASSUME Inductive, CandidatesAccounted, NEW o \in Incoming,
         DepartUnconfirmed(o) \/ ConfirmDeparture(o)
  PROVE  CandidatesAccounted'
<1>1. CASE ~ConfirmMoves
  BY <1>1 DEF CandidatesAccounted
<1>2. CASE ConfirmMoves
  <2> DEFINE S == {"DepartureCandidateOutsideFixes"} \cup
           {"PresenceEndConfirmedMovement", "DeparturesConfirmed",
            "PendingTransitionsStarted"}
  <2>1. ConfirmDeparture(o)
    BY <1>2 DEF DepartUnconfirmed, NeedsConfirmation
  <2>2. diag' = Counted(S) /\ state'.moveCandidates = <<>>
    BY <2>1 DEF ConfirmDeparture, Depart, Seeking
  <2>3. /\ \A c \in CandidateNames \ {"DeparturesConfirmed"} : c \notin S
        /\ "DeparturesConfirmed" \in S
    BY DEF CandidateNames
  <2> HIDE DEF S
  <2>4. CandidateWaits
    BY <2>1, IncomingType
       DEF ConfirmDeparture, CandidateWaits, Finished, Inductive
  <2>5. ~CandidateWaits'
    BY <2>2 DEF CandidateWaits
  <2> QED BY <2>2, <2>3, <2>4, <2>5, CandidateBalance
          DEF One, Inductive, CandidateNames
<1> QED BY <1>1, <1>2

\* The end of the input cancels the open candidate.
LEMMA FinishCandidates ==
  ASSUME Inductive, CandidatesAccounted, Finish
  PROVE  CandidatesAccounted'
<1> DEFINE
      S == When(CandidateOpen, {"DepartureCandidatesCancelledEOF"})
           \cup When(Closable, {PresenceEndCounter("dataset_end")})
           \cup When(pending # NoPending, {"PendingTransitionsUnresolvedEOF"})
<1>1. diag' = Counted(S)
  BY DEF Finish
<1>2. /\ \A c \in CandidateNames \ {"DepartureCandidatesCancelledEOF"} :
           c \notin S
      /\ "DepartureCandidatesCancelledEOF" \in S <=> CandidateOpen
  BY DEF When, PresenceEndCounter, CandidateNames
<1> HIDE DEF S
<1>3. CandidateOpen <=> CandidateWaits
  BY DEF Finish, Inductive, StateCoherent, CandidateOpen, Present, Finished,
         CandidateWaits
<1>4. ~CandidateWaits'
  BY FinishFinishes DEF CandidateWaits, Inductive
<1> QED BY <1>1, <1>2, <1>3, <1>4, CandidateBalance
        DEF One, Inductive, CandidateNames

\* Every departure-candidate sequence has exactly one outcome or is still
\* open: departure_candidate_unaccounted is zero when Eventize returns, for
\* every input, threshold and geometry (DepartureCandidateOutcomes).
THEOREM CandidatesClose == Spec => []CandidatesAccounted
<1>1. Init => CandidatesAccounted
  BY DEF Init, Seeking, CandidatesAccounted, DepartureCandidateOutcomes, One,
         Counter
<1>2. Inductive /\ CandidatesAccounted /\ [Next]_vars => CandidatesAccounted'
  <2> SUFFICES ASSUME Inductive, CandidatesAccounted, [Next]_vars
               PROVE  CandidatesAccounted'
    OBVIOUS
  <2>1. CASE UNCHANGED vars
    BY <2>1 DEF vars, CandidatesAccounted, DepartureCandidateOutcomes, Finished
  <2>2. CASE Finish
    BY <2>2, FinishCandidates
  <2>3. CASE \E o \in Incoming : \/ ContinuityBreak(o)
                                 \/ ConfirmArrival(o) \/ ConfirmPresence(o)
                                 \/ Reanchor(o) \/ RemainInside(o)
                                 \/ StartCandidate(o) \/ RestartCandidate(o)
                                 \/ DepartUnconfirmed(o) \/ ConfirmDeparture(o)
    BY <2>3, BreakCandidates, SeekingCandidates, InsideCandidates,
       StartedCandidates, DepartureCandidates
  <2> QED BY <2>1, <2>2, <2>3 DEF Next
<1> QED BY <1>1, <1>2, SpecInductive, PTL DEF Spec

-----------------------------------------------------------------------------
(* Pending transitions.                                                    *)

PendingNames ==
  {"PendingTransitionsStarted", "TransitionsConfirmed",
   "PendingTransitionsCancelledGap",
   "PendingTransitionsCancelledDiscontinuity",
   "PendingTransitionsCancelledSegmentMismatch",
   "PendingTransitionsUnresolvedEOF"}

PendingWaits == ~Finished /\ pending # NoPending

\* Balances of five outcomes and one open item add up.
LEMMA SumOfFive ==
  ASSUME NEW s \in Nat, NEW t \in Nat, NEW open \in Nat, NEW left \in Nat,
         NEW a \in Nat, NEW b \in Nat, NEW c \in Nat, NEW d \in Nat,
         NEW e \in Nat, NEW f \in Nat, NEW g \in Nat, NEW h \in Nat,
         NEW i \in Nat, NEW j \in Nat,
         s = a + b + c + d + e + open,
         t + open = f + g + h + i + j + left
  PROVE  s + t = (a + f) + (b + g) + (c + h) + (d + i) + (e + j) + left
OBVIOUS

\* The arithmetic of the identity on the counters themselves.
LEMMA PendingArithmetic ==
  ASSUME NEW n \in [PendingNames -> Nat], NEW waiting \in Nat, NEW waits \in Nat,
         \A c \in PendingNames : diag[c] \in Nat /\ diag'[c] = diag[c] + n[c],
         diag["PendingTransitionsStarted"] = PendingTransitionOutcomes + waiting,
         n["PendingTransitionsStarted"] + waiting
           = n["TransitionsConfirmed"]
             + n["PendingTransitionsCancelledGap"]
             + n["PendingTransitionsCancelledDiscontinuity"]
             + n["PendingTransitionsCancelledSegmentMismatch"]
             + n["PendingTransitionsUnresolvedEOF"]
             + waits
  PROVE  diag'["PendingTransitionsStarted"] = PendingTransitionOutcomes' + waits
<1>1. /\ diag["PendingTransitionsStarted"] \in Nat
      /\ n["PendingTransitionsStarted"] \in Nat
      /\ diag'["PendingTransitionsStarted"]
           = diag["PendingTransitionsStarted"] + n["PendingTransitionsStarted"]
  BY DEF PendingNames
<1>2. /\ diag["TransitionsConfirmed"] \in Nat
      /\ n["TransitionsConfirmed"] \in Nat
      /\ diag'["TransitionsConfirmed"]
           = diag["TransitionsConfirmed"] + n["TransitionsConfirmed"]
  BY DEF PendingNames
<1>3. /\ diag["PendingTransitionsCancelledGap"] \in Nat
      /\ n["PendingTransitionsCancelledGap"] \in Nat
      /\ diag'["PendingTransitionsCancelledGap"]
           = diag["PendingTransitionsCancelledGap"]
             + n["PendingTransitionsCancelledGap"]
  BY DEF PendingNames
<1>4. /\ diag["PendingTransitionsCancelledDiscontinuity"] \in Nat
      /\ n["PendingTransitionsCancelledDiscontinuity"] \in Nat
      /\ diag'["PendingTransitionsCancelledDiscontinuity"]
           = diag["PendingTransitionsCancelledDiscontinuity"]
             + n["PendingTransitionsCancelledDiscontinuity"]
  BY DEF PendingNames
<1>5. /\ diag["PendingTransitionsCancelledSegmentMismatch"] \in Nat
      /\ n["PendingTransitionsCancelledSegmentMismatch"] \in Nat
      /\ diag'["PendingTransitionsCancelledSegmentMismatch"]
           = diag["PendingTransitionsCancelledSegmentMismatch"]
             + n["PendingTransitionsCancelledSegmentMismatch"]
  BY DEF PendingNames
<1>6. /\ diag["PendingTransitionsUnresolvedEOF"] \in Nat
      /\ n["PendingTransitionsUnresolvedEOF"] \in Nat
      /\ diag'["PendingTransitionsUnresolvedEOF"]
           = diag["PendingTransitionsUnresolvedEOF"]
             + n["PendingTransitionsUnresolvedEOF"]
  BY DEF PendingNames
<1>7. diag["PendingTransitionsStarted"] + n["PendingTransitionsStarted"]
        = (diag["TransitionsConfirmed"] + n["TransitionsConfirmed"])
          + (diag["PendingTransitionsCancelledGap"]
               + n["PendingTransitionsCancelledGap"])
          + (diag["PendingTransitionsCancelledDiscontinuity"]
               + n["PendingTransitionsCancelledDiscontinuity"])
          + (diag["PendingTransitionsCancelledSegmentMismatch"]
               + n["PendingTransitionsCancelledSegmentMismatch"])
          + (diag["PendingTransitionsUnresolvedEOF"]
               + n["PendingTransitionsUnresolvedEOF"])
          + waits
  <2> DEFINE
        s0 == diag["PendingTransitionsStarted"]
        a0 == diag["TransitionsConfirmed"]
        b0 == diag["PendingTransitionsCancelledGap"]
        c0 == diag["PendingTransitionsCancelledDiscontinuity"]
        d0 == diag["PendingTransitionsCancelledSegmentMismatch"]
        e0 == diag["PendingTransitionsUnresolvedEOF"]
        s1 == n["PendingTransitionsStarted"]
        a1 == n["TransitionsConfirmed"]
        b1 == n["PendingTransitionsCancelledGap"]
        c1 == n["PendingTransitionsCancelledDiscontinuity"]
        d1 == n["PendingTransitionsCancelledSegmentMismatch"]
        e1 == n["PendingTransitionsUnresolvedEOF"]
  <2>1. s0 = a0 + b0 + c0 + d0 + e0 + waiting
    BY DEF PendingTransitionOutcomes
  <2>2. s1 + waiting = a1 + b1 + c1 + d1 + e1 + waits
    OBVIOUS
  <2>3. /\ {s0, a0, b0, c0, d0, e0, s1, a1, b1, c1, d1, e1} \subseteq Nat
        /\ waiting \in Nat /\ waits \in Nat
    BY <1>1, <1>2, <1>3, <1>4, <1>5, <1>6
  <2> HIDE DEF s0, a0, b0, c0, d0, e0, s1, a1, b1, c1, d1, e1
  <2>4. /\ s0 \in Nat /\ a0 \in Nat /\ b0 \in Nat
        /\ c0 \in Nat /\ d0 \in Nat /\ e0 \in Nat
        /\ s1 \in Nat /\ a1 \in Nat /\ b1 \in Nat
        /\ c1 \in Nat /\ d1 \in Nat /\ e1 \in Nat
        /\ waiting \in Nat /\ waits \in Nat
    BY <2>3
  <2>5. s0 + s1 = (a0 + a1) + (b0 + b1) + (c0 + c1) + (d0 + d1) + (e0 + e1)
                  + waits
    BY <2>1, <2>2, <2>4, SumOfFive
  <2> QED BY <2>5 DEF s0, a0, b0, c0, d0, e0, s1, a1, b1, c1, d1, e1
<1> QED BY <1>1, <1>2, <1>3, <1>4, <1>5, <1>6, <1>7
        DEF PendingTransitionOutcomes

\* The same for a step that counts the names in S once each.
LEMMA PendingBalance ==
  ASSUME TypeOK, PendingAccounted, NEW S, diag' = Counted(S),
         One("PendingTransitionsStarted" \in S) + One(PendingWaits)
           = One("TransitionsConfirmed" \in S)
             + One("PendingTransitionsCancelledGap" \in S)
             + One("PendingTransitionsCancelledDiscontinuity" \in S)
             + One("PendingTransitionsCancelledSegmentMismatch" \in S)
             + One("PendingTransitionsUnresolvedEOF" \in S)
             + One(PendingWaits')
  PROVE  PendingAccounted'
<1> DEFINE n == [c \in PendingNames |-> One(c \in S)]
<1>1. PendingNames \subseteq Counter
  BY DEF PendingNames, Counter
<1>2. \A c \in PendingNames : diag[c] \in Nat /\ diag'[c] = diag[c] + n[c]
  BY <1>1, CountedAt
<1>3. n \in [PendingNames -> Nat]
  BY OneType
<1>4. One(PendingWaits) \in Nat /\ One(PendingWaits') \in Nat
  BY OneType
<1>5. diag["PendingTransitionsStarted"]
        = PendingTransitionOutcomes + One(PendingWaits)
  BY DEF PendingAccounted, PendingWaits
<1>6. n["PendingTransitionsStarted"] + One(PendingWaits)
        = n["TransitionsConfirmed"]
          + n["PendingTransitionsCancelledGap"]
          + n["PendingTransitionsCancelledDiscontinuity"]
          + n["PendingTransitionsCancelledSegmentMismatch"]
          + n["PendingTransitionsUnresolvedEOF"]
          + One(PendingWaits')
  BY DEF PendingNames
<1> HIDE DEF n
<1>7. diag'["PendingTransitionsStarted"]
        = PendingTransitionOutcomes' + One(PendingWaits')
  BY <1>2, <1>3, <1>4, <1>5, <1>6, PendingArithmetic
<1> QED BY <1>7 DEF PendingAccounted, PendingWaits

\* Steps that count no pending transition and leave it as it is.
LEMMA PendingUntouched ==
  ASSUME TypeOK, PendingAccounted, NEW S, diag' = Counted(S),
         S \cap PendingNames = {}, PendingWaits' <=> PendingWaits
  PROVE  PendingAccounted'
<1>1. \A c \in PendingNames : One(c \in S) = 0
  BY DEF One
<1>2. One(PendingWaits) = One(PendingWaits') /\ One(PendingWaits) \in Nat
  BY OneType DEF One
<1>3. /\ One("PendingTransitionsStarted" \in S) = 0
      /\ One("TransitionsConfirmed" \in S) = 0
      /\ One("PendingTransitionsCancelledGap" \in S) = 0
      /\ One("PendingTransitionsCancelledDiscontinuity" \in S) = 0
      /\ One("PendingTransitionsCancelledSegmentMismatch" \in S) = 0
      /\ One("PendingTransitionsUnresolvedEOF" \in S) = 0
  BY <1>1 DEF PendingNames
<1> QED BY <1>2, <1>3, PendingBalance

\* A break cancels the pending transition, if any, by one of two counters.
LEMMA BreakPending ==
  ASSUME Inductive, PendingAccounted, NEW o \in Incoming, ContinuityBreak(o)
  PROVE  PendingAccounted'
<1> DEFINE
      reason == IF o.disc THEN "discontinuity" ELSE "gap"
      S == When(CandidateOpen,
                {IF o.disc THEN "DepartureCandidatesCancelledDiscontinuity"
                           ELSE "DepartureCandidatesCancelledGap"})
           \cup When(Closable, {PresenceEndCounter(reason)})
           \cup When(pending # NoPending,
                {IF o.disc THEN "PendingTransitionsCancelledDiscontinuity"
                           ELSE "PendingTransitionsCancelledGap"})
<1>1. diag' = Counted(S) /\ pending' = NoPending
  BY DEF ContinuityBreak, PendingAfterBreak
<1>2. /\ \A c \in PendingNames \ {"PendingTransitionsCancelledGap",
                                 "PendingTransitionsCancelledDiscontinuity"} :
           c \notin S
      /\ "PendingTransitionsCancelledGap" \in S
           <=> pending # NoPending /\ ~o.disc
      /\ "PendingTransitionsCancelledDiscontinuity" \in S
           <=> pending # NoPending /\ o.disc
  BY DEF When, PresenceEndCounter, PendingNames
<1> HIDE DEF S
<1>3. PendingWaits <=> pending # NoPending
  BY IncomingType DEF Inductive, PendingWaits, Finished
<1>4. ~PendingWaits'
  BY <1>1 DEF PendingWaits
<1> QED BY <1>1, <1>2, <1>3, <1>4, PendingBalance
        DEF One, Inductive, PendingNames

\* An arrival confirms the pending transition.
LEMMA ArrivalPending ==
  ASSUME Inductive, PendingAccounted, NEW o \in Incoming, ConfirmArrival(o)
  PROVE  PendingAccounted'
<1> DEFINE S == PresenceStartCounters(state.startReason)
                  \cup {"TransitionsConfirmed"}
<1>1. diag' = Counted(S) /\ pending' = NoPending
  BY DEF ConfirmArrival
<1>2. state.startReason \in StartReasons
  BY DEF Inductive, TypeOK, PresenceState
<1>3. /\ \A c \in PendingNames \ {"TransitionsConfirmed"} : c \notin S
      /\ "TransitionsConfirmed" \in S
  BY <1>2, StartCounterNames DEF PendingNames
<1> HIDE DEF S
<1>4. PendingWaits
  BY IncomingType
     DEF ConfirmArrival, ArrivalMatches, Inductive, PendingWaits, Finished
<1>5. ~PendingWaits'
  BY <1>1 DEF PendingWaits
<1> QED BY <1>1, <1>3, <1>4, <1>5, PendingBalance
        DEF One, Inductive, PendingNames

\* A presence asserted without an arrival had no pending transition to lose.
LEMMA PresencePending ==
  ASSUME Inductive, PendingAccounted, NEW o \in Incoming, ConfirmPresence(o)
  PROVE  PendingAccounted'
<1> DEFINE
      arrival == state.startReason = "movement_arrival"
      S == PresenceStartCounters(state.startReason)
             \cup When(arrival /\ pending # NoPending,
                       {"PendingTransitionsCancelledSegmentMismatch"})
             \cup When(\/ arrival /\ pending = NoPending
                       \/ state.startReason = "candidate_presence",
                       {"EnterSuppressedNoPendingTransition"})
<1>1. diag' = Counted(S)
  BY DEF ConfirmPresence
<1>2. state.startReason # "movement_arrival" /\ pending = NoPending
  BY DEF Inductive, ConfirmPresence, ArrivalMatches, StateCoherent, Present,
         Anchor
<1>3. state.startReason \in StartReasons
  BY DEF Inductive, TypeOK, PresenceState
<1>4. S \cap PendingNames = {}
  BY <1>2, <1>3, StartCounterNames DEF PendingNames, When
<1>5. ~PendingWaits /\ ~PendingWaits'
  BY <1>2 DEF ConfirmPresence, PendingWaits
<1> HIDE DEF S
<1> QED BY <1>1, <1>4, <1>5, PendingUntouched DEF Inductive

\* The search, the fixes inside and the candidates leave it as it is.
LEMMA UnrelatedPending ==
  ASSUME Inductive, PendingAccounted, NEW o \in Incoming,
         \/ Reanchor(o) \/ RemainInside(o)
         \/ StartCandidate(o) \/ RestartCandidate(o)
  PROVE  PendingAccounted'
<1>1. UNCHANGED <<pending, result>>
  BY DEF Reanchor, RemainInside, StartCandidate, RestartCandidate, Consume
<1>2. PendingWaits' <=> PendingWaits
  BY <1>1 DEF PendingWaits, Finished
<1>3. TypeOK
  BY DEF Inductive
<1>4. CASE Reanchor(o)
  BY <1>1, <1>4
     DEF Reanchor, PendingAccounted, PendingTransitionOutcomes, Finished
<1>5. CASE RemainInside(o)
  <2> DEFINE S == When(CandidateOpen, {"DepartureCandidatesReturnedInside"})
  <2>1. diag' = Counted(S) /\ S \cap PendingNames = {}
    BY <1>5 DEF RemainInside, When, PendingNames
  <2> QED BY <1>2, <1>3, <2>1, PendingUntouched
<1>6. CASE StartCandidate(o)
  <2> DEFINE S == {"DepartureCandidateOutsideFixes",
                   "DepartureCandidateSequences"}
  <2>1. diag' = Counted(S) /\ S \cap PendingNames = {}
    BY <1>6 DEF StartCandidate, PendingNames
  <2> QED BY <1>2, <1>3, <2>1, PendingUntouched
<1>7. CASE RestartCandidate(o)
  <2> DEFINE S == {"DepartureCandidateOutsideFixes",
                   "DepartureCandidateWindowExpired",
                   "DepartureCandidateSequences"}
  <2>1. diag' = Counted(S) /\ S \cap PendingNames = {}
    BY <1>7 DEF RestartCandidate, PendingNames
  <2> QED BY <1>2, <1>3, <2>1, PendingUntouched
<1> QED BY <1>4, <1>5, <1>6, <1>7

\* A departure, only possible with none pending, starts one.
LEMMA DeparturePending ==
  ASSUME Inductive, PendingAccounted, NEW o \in Incoming,
         DepartUnconfirmed(o) \/ ConfirmDeparture(o)
  PROVE  PendingAccounted'
<1>1. PICK counters \in {{}, {"DepartureCandidateOutsideFixes"}} :
        Depart(counters)
  BY DEF DepartUnconfirmed, ConfirmDeparture
<1>2. Outside(o) /\ Consume(o)
  BY DEF DepartUnconfirmed, ConfirmDeparture
<1> DEFINE S == counters \cup
         {"PresenceEndConfirmedMovement", "DeparturesConfirmed",
          "PendingTransitionsStarted"}
<1>3. diag' = Counted(S)
  BY <1>1 DEF Depart
<1>4. /\ \A c \in PendingNames \ {"PendingTransitionsStarted"} : c \notin S
      /\ "PendingTransitionsStarted" \in S
  BY DEF PendingNames
<1> HIDE DEF S
<1>5. ~PendingWaits
  BY <1>2 DEF Outside, Inductive, StateCoherent, Present, PendingWaits
<1>6. PendingWaits'
  <2>1. result' = NoResult
    BY <1>2, IncomingType DEF Consume, Inductive
  <2>2. Inductive' /\ state'.phase = "seeking"
          /\ state'.startReason = "movement_arrival"
    BY <1>1, <1>2, DepartStep DEF Depart, Seeking
  <2> QED BY <2>1, <2>2
          DEF Inductive, StateCoherent, Present, PendingWaits, Finished
<1> QED BY <1>3, <1>4, <1>5, <1>6, PendingBalance
        DEF One, Inductive, PendingNames

\* The end of the input leaves it unresolved, and counts it so.
LEMMA FinishPending ==
  ASSUME Inductive, PendingAccounted, Finish
  PROVE  PendingAccounted'
<1> DEFINE
      S == When(CandidateOpen, {"DepartureCandidatesCancelledEOF"})
           \cup When(Closable, {PresenceEndCounter("dataset_end")})
           \cup When(pending # NoPending, {"PendingTransitionsUnresolvedEOF"})
<1>1. diag' = Counted(S)
  BY DEF Finish
<1>2. /\ \A c \in PendingNames \ {"PendingTransitionsUnresolvedEOF"} :
           c \notin S
      /\ "PendingTransitionsUnresolvedEOF" \in S <=> pending # NoPending
  BY DEF When, PresenceEndCounter, PendingNames
<1> HIDE DEF S
<1>3. PendingWaits <=> pending # NoPending
  BY DEF Finish, PendingWaits, Finished
<1>4. ~PendingWaits'
  BY FinishFinishes DEF PendingWaits, Inductive
<1> QED BY <1>1, <1>2, <1>3, <1>4, PendingBalance
        DEF One, Inductive, PendingNames

\* Every pending transition has exactly one outcome or is still open:
\* pending_transition_unaccounted is zero when Eventize returns, for every
\* input, threshold and geometry (PendingTransitionOutcomes).
THEOREM PendingTransitionsClose == Spec => []PendingAccounted
<1>1. Init => PendingAccounted
  BY DEF Init, PendingAccounted, PendingTransitionOutcomes, One, Counter
<1>2. Inductive /\ PendingAccounted /\ [Next]_vars => PendingAccounted'
  <2> SUFFICES ASSUME Inductive, PendingAccounted, [Next]_vars
               PROVE  PendingAccounted'
    OBVIOUS
  <2>1. CASE UNCHANGED vars
    BY <2>1 DEF vars, PendingAccounted, PendingTransitionOutcomes, Finished
  <2>2. CASE Finish
    BY <2>2, FinishPending
  <2>3. CASE \E o \in Incoming : \/ ContinuityBreak(o)
                                 \/ ConfirmArrival(o) \/ ConfirmPresence(o)
                                 \/ Reanchor(o) \/ RemainInside(o)
                                 \/ StartCandidate(o) \/ RestartCandidate(o)
                                 \/ DepartUnconfirmed(o) \/ ConfirmDeparture(o)
    BY <2>3, BreakPending, ArrivalPending, PresencePending, UnrelatedPending,
       DeparturePending
  <2> QED BY <2>1, <2>2, <2>3 DEF Next
<1> QED BY <1>1, <1>2, SpecInductive, PTL DEF Spec

-----------------------------------------------------------------------------
(* Presence and transition rows.                                           *)

PresenceNames ==
  {"PresenceConfirmations", "PresenceStartDataset",
   "PresenceStartContinuityReset", "PresenceStartCandidate",
   "PresenceStartMovementArrival", "PresenceEndDataset", "PresenceEndGap",
   "PresenceEndDiscontinuity", "PresenceEndConfirmedMovement",
   "DeparturesConfirmed", "TransitionsConfirmed",
   "EnterSuppressedNoPendingTransition",
   "PendingTransitionsCancelledSegmentMismatch"}

PresenceOpen == ~Finished /\ Present

\* PresenceAccounted on counters d, p intervals, t transitions and open (0 or
\* 1) presences: sums that hold of a step's increments hold after it.
PresenceSums(d, p, t, open) ==
  /\ d["PresenceConfirmations"] = p + open
  /\ d["PresenceConfirmations"]
       = d["PresenceStartDataset"] + d["PresenceStartContinuityReset"]
         + d["PresenceStartCandidate"] + d["PresenceStartMovementArrival"]
  /\ p = d["PresenceEndDataset"] + d["PresenceEndGap"]
         + d["PresenceEndDiscontinuity"] + d["PresenceEndConfirmedMovement"]
  /\ d["PresenceEndConfirmedMovement"] = d["DeparturesConfirmed"]
  /\ d["PresenceStartMovementArrival"] = d["TransitionsConfirmed"]
  /\ t = d["TransitionsConfirmed"]
  /\ d["EnterSuppressedNoPendingTransition"] = d["PresenceStartCandidate"]
  /\ d["PendingTransitionsCancelledSegmentMismatch"] = 0

\* A sum of naturals is a natural, and two sums add term by term.
LEMMA FourNaturals ==
  ASSUME NEW a \in Nat, NEW b \in Nat, NEW c \in Nat, NEW d \in Nat
  PROVE  a + b + c + d \in Nat
OBVIOUS

LEMMA SumOfFour ==
  ASSUME NEW a \in Nat, NEW b \in Nat, NEW c \in Nat, NEW d \in Nat,
         NEW e \in Nat, NEW f \in Nat, NEW g \in Nat, NEW h \in Nat
  PROVE  (a + b + c + d) + (e + f + g + h) = (a + e) + (b + f) + (c + g) + (d + h)
OBVIOUS

\* Each sum of the counters grows as the sum of the increments does.
LEMMA PresenceArithmetic ==
  ASSUME NEW d \in [PresenceNames -> Nat], NEW n \in [PresenceNames -> Nat],
         NEW e, \A c \in PresenceNames : e[c] = d[c] + n[c],
         NEW p \in Nat, NEW t \in Nat, NEW open \in Nat,
         NEW closed \in Nat, NEW linked \in Nat, NEW left \in Nat,
         PresenceSums(d, p, t, open),
         n["PresenceConfirmations"] + open = closed + left,
         n["PresenceConfirmations"]
           = n["PresenceStartDataset"] + n["PresenceStartContinuityReset"]
             + n["PresenceStartCandidate"] + n["PresenceStartMovementArrival"],
         closed
           = n["PresenceEndDataset"] + n["PresenceEndGap"]
             + n["PresenceEndDiscontinuity"] + n["PresenceEndConfirmedMovement"],
         n["PresenceEndConfirmedMovement"] = n["DeparturesConfirmed"],
         n["PresenceStartMovementArrival"] = n["TransitionsConfirmed"],
         linked = n["TransitionsConfirmed"],
         n["EnterSuppressedNoPendingTransition"] = n["PresenceStartCandidate"],
         n["PendingTransitionsCancelledSegmentMismatch"] = 0
  PROVE  PresenceSums(e, p + closed, t + linked, left)
<1>1. \A c \in PresenceNames : d[c] \in Nat /\ n[c] \in Nat
  OBVIOUS
<1>2. e["PresenceConfirmations"] = (p + closed) + left
  <2>1. /\ d["PresenceConfirmations"] \in Nat /\ n["PresenceConfirmations"] \in Nat
        /\ e["PresenceConfirmations"]
             = d["PresenceConfirmations"] + n["PresenceConfirmations"]
    BY DEF PresenceNames
  <2>2. d["PresenceConfirmations"] = p + open
    BY DEF PresenceSums
  <2> QED BY <2>1, <2>2
<1>3. e["PresenceConfirmations"]
        = e["PresenceStartDataset"] + e["PresenceStartContinuityReset"]
          + e["PresenceStartCandidate"] + e["PresenceStartMovementArrival"]
  <2> DEFINE a == d["PresenceStartDataset"] b == d["PresenceStartContinuityReset"]
             c == d["PresenceStartCandidate"] f == d["PresenceStartMovementArrival"]
             a1 == n["PresenceStartDataset"] b1 == n["PresenceStartContinuityReset"]
             c1 == n["PresenceStartCandidate"] f1 == n["PresenceStartMovementArrival"]
  <2>1. /\ a \in Nat /\ b \in Nat /\ c \in Nat /\ f \in Nat
        /\ a1 \in Nat /\ b1 \in Nat /\ c1 \in Nat /\ f1 \in Nat
    BY <1>1 DEF PresenceNames
  <2>2. (a + b + c + f) + (a1 + b1 + c1 + f1)
          = (a + a1) + (b + b1) + (c + c1) + (f + f1)
    <3> HIDE DEF a, b, c, f, a1, b1, c1, f1
    <3> QED BY <2>1, SumOfFour
  <2>3. e["PresenceConfirmations"]
          = d["PresenceConfirmations"] + n["PresenceConfirmations"]
    BY DEF PresenceNames
  <2>4. d["PresenceConfirmations"] = a + b + c + f
    BY DEF PresenceSums
  <2>5. n["PresenceConfirmations"] = a1 + b1 + c1 + f1
    OBVIOUS
  <2>6. /\ e["PresenceStartDataset"] = a + a1
        /\ e["PresenceStartContinuityReset"] = b + b1
        /\ e["PresenceStartCandidate"] = c + c1
        /\ e["PresenceStartMovementArrival"] = f + f1
    BY DEF PresenceNames
  <2> QED BY <2>2, <2>3, <2>4, <2>5, <2>6
<1>4. p + closed
        = e["PresenceEndDataset"] + e["PresenceEndGap"]
          + e["PresenceEndDiscontinuity"] + e["PresenceEndConfirmedMovement"]
  <2> DEFINE a == d["PresenceEndDataset"] b == d["PresenceEndGap"]
             c == d["PresenceEndDiscontinuity"] f == d["PresenceEndConfirmedMovement"]
             a1 == n["PresenceEndDataset"] b1 == n["PresenceEndGap"]
             c1 == n["PresenceEndDiscontinuity"] f1 == n["PresenceEndConfirmedMovement"]
  <2>1. /\ a \in Nat /\ b \in Nat /\ c \in Nat /\ f \in Nat
        /\ a1 \in Nat /\ b1 \in Nat /\ c1 \in Nat /\ f1 \in Nat
    BY <1>1 DEF PresenceNames
  <2>2. (a + b + c + f) + (a1 + b1 + c1 + f1)
          = (a + a1) + (b + b1) + (c + c1) + (f + f1)
    <3> HIDE DEF a, b, c, f, a1, b1, c1, f1
    <3> QED BY <2>1, SumOfFour
  <2>3. p = a + b + c + f /\ closed = a1 + b1 + c1 + f1
    BY DEF PresenceSums
  <2> QED BY <2>2, <2>3 DEF PresenceNames
<1>5. /\ e["PresenceEndConfirmedMovement"] = e["DeparturesConfirmed"]
      /\ e["PresenceStartMovementArrival"] = e["TransitionsConfirmed"]
      /\ t + linked = e["TransitionsConfirmed"]
      /\ e["EnterSuppressedNoPendingTransition"] = e["PresenceStartCandidate"]
      /\ e["PendingTransitionsCancelledSegmentMismatch"] = 0
  BY DEF PresenceSums, PresenceNames
<1> QED BY <1>2, <1>3, <1>4, <1>5 DEF PresenceSums

\* A step that counts the names in S once each, and adds the rows it counts.
LEMMA PresenceBalance ==
  ASSUME TypeOK, PresenceAccounted, NEW S, diag' = Counted(S),
         Len(presence')
           = Len(presence)
             + (One("PresenceEndDataset" \in S) + One("PresenceEndGap" \in S)
                + One("PresenceEndDiscontinuity" \in S)
                + One("PresenceEndConfirmedMovement" \in S)),
         Len(transitions')
           = Len(transitions) + One("TransitionsConfirmed" \in S),
         One("PresenceConfirmations" \in S) + One(PresenceOpen)
           = (One("PresenceEndDataset" \in S) + One("PresenceEndGap" \in S)
              + One("PresenceEndDiscontinuity" \in S)
              + One("PresenceEndConfirmedMovement" \in S))
             + One(PresenceOpen'),
         One("PresenceConfirmations" \in S)
           = One("PresenceStartDataset" \in S)
             + One("PresenceStartContinuityReset" \in S)
             + One("PresenceStartCandidate" \in S)
             + One("PresenceStartMovementArrival" \in S),
         "PresenceEndConfirmedMovement" \in S <=> "DeparturesConfirmed" \in S,
         "PresenceStartMovementArrival" \in S <=> "TransitionsConfirmed" \in S,
         "EnterSuppressedNoPendingTransition" \in S
           <=> "PresenceStartCandidate" \in S,
         "PendingTransitionsCancelledSegmentMismatch" \notin S
  PROVE  PresenceAccounted'
<1> DEFINE n == [c \in PresenceNames |-> One(c \in S)]
           d == [c \in PresenceNames |-> diag[c]]
           e == [c \in PresenceNames |-> diag'[c]]
           closed == n["PresenceEndDataset"] + n["PresenceEndGap"]
                     + n["PresenceEndDiscontinuity"]
                     + n["PresenceEndConfirmedMovement"]
           linked == n["TransitionsConfirmed"]
<1>1. PresenceNames \subseteq Counter
  BY DEF PresenceNames, Counter
<1>2. /\ n \in [PresenceNames -> Nat] /\ d \in [PresenceNames -> Nat]
      /\ \A c \in PresenceNames : e[c] = d[c] + n[c]
  BY <1>1, CountedAt, OneType
<1>3. /\ One(PresenceOpen) \in Nat /\ One(PresenceOpen') \in Nat
      /\ Len(presence) \in Nat /\ Len(transitions) \in Nat
  BY OneType, LenProperties DEF TypeOK
<1>4. PresenceSums(d, Len(presence), Len(transitions), One(PresenceOpen))
  BY DEF PresenceAccounted, PresenceSums, PresenceOpen, PresenceNames
<1>5. /\ n["PresenceConfirmations"] + One(PresenceOpen)
           = closed + One(PresenceOpen')
      /\ n["PresenceConfirmations"]
           = n["PresenceStartDataset"] + n["PresenceStartContinuityReset"]
             + n["PresenceStartCandidate"] + n["PresenceStartMovementArrival"]
      /\ Len(presence') = Len(presence) + closed
      /\ Len(transitions') = Len(transitions) + linked
  BY DEF PresenceNames
<1>6. /\ n["PresenceEndConfirmedMovement"] = n["DeparturesConfirmed"]
      /\ n["PresenceStartMovementArrival"] = n["TransitionsConfirmed"]
      /\ n["EnterSuppressedNoPendingTransition"] = n["PresenceStartCandidate"]
      /\ n["PendingTransitionsCancelledSegmentMismatch"] = 0
  BY DEF PresenceNames, One
<1>7. closed \in Nat /\ linked \in Nat
  <2>1. /\ n["PresenceEndDataset"] \in Nat /\ n["PresenceEndGap"] \in Nat
        /\ n["PresenceEndDiscontinuity"] \in Nat
        /\ n["PresenceEndConfirmedMovement"] \in Nat
        /\ n["TransitionsConfirmed"] \in Nat
    BY OneType DEF PresenceNames
  <2>2. closed \in Nat
    <3> HIDE DEF n
    <3> QED BY ONLY <2>1, FourNaturals
  <2> QED BY <2>1, <2>2
<1>8. PresenceSums(e, Len(presence) + closed, Len(transitions) + linked,
                   One(PresenceOpen'))
  <2> DEFINE shut == closed
             link == linked
  <2>1. /\ shut = n["PresenceEndDataset"] + n["PresenceEndGap"]
                  + n["PresenceEndDiscontinuity"]
                  + n["PresenceEndConfirmedMovement"]
        /\ link = n["TransitionsConfirmed"]
        /\ shut \in Nat /\ link \in Nat
        /\ n["PresenceConfirmations"] + One(PresenceOpen)
             = shut + One(PresenceOpen')
    BY <1>5, <1>7
  <2> HIDE DEF n, d, e, shut, link
  <2>2. PresenceSums(e, Len(presence) + shut, Len(transitions) + link,
                     One(PresenceOpen'))
    BY <1>2, <1>3, <1>4, <1>5, <1>6, <2>1, PresenceArithmetic
  <2> QED BY <2>2 DEF shut, link
<1>9. PresenceSums(e, Len(presence'), Len(transitions'), One(PresenceOpen'))
  BY <1>5, <1>8
<1> QED BY <1>9 DEF PresenceAccounted, PresenceSums, PresenceOpen, PresenceNames

\* Steps that count no presence, close and link no row and leave the phase.
LEMMA PresenceUntouched ==
  ASSUME TypeOK, PresenceAccounted, NEW S, diag' = Counted(S),
         S \cap PresenceNames = {}, UNCHANGED <<presence, transitions>>,
         PresenceOpen' <=> PresenceOpen
  PROVE  PresenceAccounted'
<1>1. \A c \in PresenceNames : c \notin S /\ One(c \in S) = 0
  BY DEF One
<1>2. /\ One("PresenceConfirmations" \in S) = 0
      /\ One("PresenceStartDataset" \in S) = 0
      /\ One("PresenceStartContinuityReset" \in S) = 0
      /\ One("PresenceStartCandidate" \in S) = 0
      /\ One("PresenceStartMovementArrival" \in S) = 0
      /\ One("PresenceEndDataset" \in S) = 0
      /\ One("PresenceEndGap" \in S) = 0
      /\ One("PresenceEndDiscontinuity" \in S) = 0
      /\ One("PresenceEndConfirmedMovement" \in S) = 0
      /\ One("TransitionsConfirmed" \in S) = 0
  BY <1>1 DEF PresenceNames
<1>3. /\ "PresenceEndConfirmedMovement" \notin S
      /\ "DeparturesConfirmed" \notin S
      /\ "PresenceStartMovementArrival" \notin S
      /\ "TransitionsConfirmed" \notin S
      /\ "EnterSuppressedNoPendingTransition" \notin S
      /\ "PresenceStartCandidate" \notin S
      /\ "PendingTransitionsCancelledSegmentMismatch" \notin S
  BY <1>1 DEF PresenceNames
<1>4. /\ Len(presence') = Len(presence) + 0
      /\ Len(transitions') = Len(transitions) + 0
  BY LenProperties DEF TypeOK
<1>5. One(PresenceOpen') = One(PresenceOpen) /\ One(PresenceOpen) \in Nat
  BY OneType DEF One
<1> QED BY <1>2, <1>3, <1>4, <1>5, PresenceBalance

\* A presence that is open can be closed, and no other.
LEMMA OpenIsClosable ==
  ASSUME Inductive, result = NoResult
  PROVE  PresenceOpen <=> Closable
BY DEF Inductive, StateCoherent, Present, PresenceOpen, Finished, Closable

\* The number of rows after a row was appended or not.
LEMMA RowAppended ==
  ASSUME TypeOK, NEW p,
         presence' = IF Closable THEN Append(presence, p) ELSE presence
  PROVE  /\ Len(presence') = Len(presence) + One(Closable)
         /\ One(Closable) \in Nat
<1>1. presence \in Seq(PresenceInterval \cup {p}) /\ Len(presence) \in Nat
  BY LenProperties, SeqDef DEF TypeOK
<1>2. CASE Closable
  BY <1>1, <1>2, AppendProperties DEF One
<1>3. CASE ~Closable
  BY <1>1, <1>3 DEF One
<1> QED BY <1>2, <1>3

\* A break closes the open presence, for one of two reasons.
LEMMA BreakPresence ==
  ASSUME Inductive, PresenceAccounted, NEW o \in Incoming, ContinuityBreak(o)
  PROVE  PresenceAccounted'
<1> DEFINE
      reason == IF o.disc THEN "discontinuity" ELSE "gap"
      S == When(CandidateOpen,
                {IF o.disc THEN "DepartureCandidatesCancelledDiscontinuity"
                           ELSE "DepartureCandidatesCancelledGap"})
           \cup When(Closable, {PresenceEndCounter(reason)})
           \cup When(pending # NoPending,
                {IF o.disc THEN "PendingTransitionsCancelledDiscontinuity"
                           ELSE "PendingTransitionsCancelledGap"})
<1>1. /\ diag' = Counted(S) /\ transitions' = transitions
      /\ state' = Seeking(Now, "continuity_reset")
      /\ presence' = IF Closable THEN Append(presence, ClosedPresence(reason))
                                 ELSE presence
  BY DEF ContinuityBreak
<1>2. /\ \A c \in PresenceNames \ {"PresenceEndGap", "PresenceEndDiscontinuity"} :
           c \notin S
      /\ "PresenceEndGap" \in S <=> Closable /\ ~o.disc
      /\ "PresenceEndDiscontinuity" \in S <=> Closable /\ o.disc
  BY DEF When, PresenceEndCounter, PresenceNames
<1> HIDE DEF S
<1>3. PresenceOpen <=> Closable
  BY IncomingType, OpenIsClosable DEF Inductive
<1>4. ~PresenceOpen'
  BY <1>1 DEF PresenceOpen, Present, Seeking
<1>5. Len(transitions) \in Nat /\ Len(presence) \in Nat
  BY LenProperties DEF Inductive, TypeOK
<1>6. Len(presence') = Len(presence) + One(Closable)
  BY <1>1, RowAppended DEF Inductive
<1>7. /\ One("PresenceEndDataset" \in S) = 0
      /\ One("PresenceEndGap" \in S) = One(Closable /\ ~o.disc)
      /\ One("PresenceEndDiscontinuity" \in S) = One(Closable /\ o.disc)
      /\ One("PresenceEndConfirmedMovement" \in S) = 0
      /\ One("TransitionsConfirmed" \in S) = 0
      /\ One("PresenceConfirmations" \in S) = 0
      /\ One("PresenceStartDataset" \in S) = 0
      /\ One("PresenceStartContinuityReset" \in S) = 0
      /\ One("PresenceStartCandidate" \in S) = 0
      /\ One("PresenceStartMovementArrival" \in S) = 0
  BY <1>2 DEF One, PresenceNames
<1>8. /\ One(Closable /\ ~o.disc) + One(Closable /\ o.disc) = One(Closable)
      /\ One(Closable /\ ~o.disc) \in Nat /\ One(Closable /\ o.disc) \in Nat
      /\ One(PresenceOpen) = One(Closable) /\ One(PresenceOpen') = 0
  BY <1>3, <1>4 DEF One
<1>9. /\ "PresenceEndConfirmedMovement" \notin S
      /\ "DeparturesConfirmed" \notin S
      /\ "PresenceStartMovementArrival" \notin S
      /\ "TransitionsConfirmed" \notin S
      /\ "EnterSuppressedNoPendingTransition" \notin S
      /\ "PresenceStartCandidate" \notin S
      /\ "PendingTransitionsCancelledSegmentMismatch" \notin S
  BY <1>2 DEF PresenceNames
<1>10. TypeOK /\ diag' = Counted(S) /\ transitions' = transitions
  BY <1>1 DEF Inductive
<1> QED BY <1>5, <1>6, <1>7, <1>8, <1>9, <1>10, PresenceBalance

\* A presence that starts for a reason: a movement arrival has its transition,
\* a candidate presence its suppressed ENTER.
LEMMA StartedPresence ==
  ASSUME Inductive, PresenceAccounted, NEW reason \in StartReasons, NEW extra,
         diag' = Counted(PresenceStartCounters(reason) \cup extra),
         extra \cap PresenceNames
           \subseteq {"TransitionsConfirmed",
                      "EnterSuppressedNoPendingTransition"},
         "TransitionsConfirmed" \in extra <=> reason = "movement_arrival",
         "EnterSuppressedNoPendingTransition" \in extra
           <=> reason = "candidate_presence",
         presence' = presence,
         Len(transitions')
           = Len(transitions) + One("TransitionsConfirmed" \in extra),
         ~PresenceOpen, PresenceOpen'
  PROVE  PresenceAccounted'
<1> DEFINE S == PresenceStartCounters(reason) \cup extra
<1>1. /\ "PresenceConfirmations" \in S
      /\ "PresenceStartDataset" \in S <=> reason = "dataset_start"
      /\ "PresenceStartContinuityReset" \in S <=> reason = "continuity_reset"
      /\ "PresenceStartCandidate" \in S <=> reason = "candidate_presence"
      /\ "PresenceStartMovementArrival" \in S <=> reason = "movement_arrival"
  BY DEF PresenceStartCounters, StartReasons, PresenceNames
<1>2. /\ "PresenceEndDataset" \notin S /\ "PresenceEndGap" \notin S
      /\ "PresenceEndDiscontinuity" \notin S
      /\ "PresenceEndConfirmedMovement" \notin S
      /\ "DeparturesConfirmed" \notin S
      /\ "PendingTransitionsCancelledSegmentMismatch" \notin S
  BY StartCounterNames DEF PresenceNames
<1>3. /\ "TransitionsConfirmed" \in S <=> "TransitionsConfirmed" \in extra
      /\ "EnterSuppressedNoPendingTransition" \in S
           <=> "EnterSuppressedNoPendingTransition" \in extra
  BY StartCounterNames
<1>4. diag' = Counted(S) /\ TypeOK
  BY DEF Inductive
<1> HIDE DEF S
<1>5. /\ One("PresenceConfirmations" \in S) = 1
      /\ One("PresenceEndDataset" \in S) = 0
      /\ One("PresenceEndGap" \in S) = 0
      /\ One("PresenceEndDiscontinuity" \in S) = 0
      /\ One("PresenceEndConfirmedMovement" \in S) = 0
      /\ One(PresenceOpen) = 0 /\ One(PresenceOpen') = 1
      /\ One("TransitionsConfirmed" \in S)
           = One("TransitionsConfirmed" \in extra)
  BY <1>1, <1>2, <1>3 DEF One
<1>6. One("PresenceConfirmations" \in S)
        = One("PresenceStartDataset" \in S)
          + One("PresenceStartContinuityReset" \in S)
          + One("PresenceStartCandidate" \in S)
          + One("PresenceStartMovementArrival" \in S)
  BY <1>1 DEF One, StartReasons
<1>7. Len(presence') = Len(presence) /\ Len(presence) \in Nat
  BY LenProperties DEF Inductive, TypeOK
<1>8. Len(transitions')
        = Len(transitions) + One("TransitionsConfirmed" \in S)
  BY <1>5
<1>9. /\ "PresenceEndConfirmedMovement" \in S <=> "DeparturesConfirmed" \in S
      /\ "PresenceStartMovementArrival" \in S <=> "TransitionsConfirmed" \in S
      /\ "EnterSuppressedNoPendingTransition" \in S
           <=> "PresenceStartCandidate" \in S
      /\ "PendingTransitionsCancelledSegmentMismatch" \notin S
  BY <1>1, <1>2, <1>3
<1>10. /\ Len(presence')
            = Len(presence)
              + (One("PresenceEndDataset" \in S) + One("PresenceEndGap" \in S)
                 + One("PresenceEndDiscontinuity" \in S)
                 + One("PresenceEndConfirmedMovement" \in S))
       /\ One("PresenceConfirmations" \in S) + One(PresenceOpen)
            = (One("PresenceEndDataset" \in S) + One("PresenceEndGap" \in S)
               + One("PresenceEndDiscontinuity" \in S)
               + One("PresenceEndConfirmedMovement" \in S))
              + One(PresenceOpen')
  BY ONLY <1>5, <1>7
<1> QED BY <1>4, <1>6, <1>8, <1>9, <1>10, PresenceBalance

\* An arrival starts a presence and adds its transition.
LEMMA ArrivalPresence ==
  ASSUME Inductive, PresenceAccounted, NEW o \in Incoming, ConfirmArrival(o)
  PROVE  PresenceAccounted'
<1> DEFINE extra == {"TransitionsConfirmed"}
<1>1. /\ state.startReason = "movement_arrival" /\ state.phase = "seeking"
      /\ diag' = Counted(PresenceStartCounters("movement_arrival") \cup extra)
      /\ presence' = presence /\ Consume(o)
      /\ transitions' = Append(transitions, MakeTransition(state.anchorIdx))
      /\ state' = [Supported EXCEPT !.enterEvent = TRUE]
  BY DEF ConfirmArrival, ArrivalMatches
<1>2. Supported \in PresenceState' /\ Supported.phase = "present"
  BY <1>1, SupportedState
<1>3. state'.phase = "present" /\ result' = NoResult
  BY <1>1, <1>2, IncomingType DEF PresenceState, Consume, Inductive
<1>4. ~PresenceOpen /\ PresenceOpen'
  BY <1>1, <1>3 DEF PresenceOpen, Present, Finished
<1>5. Len(transitions') = Len(transitions) + 1
  BY <1>1, AppendProperties DEF Inductive, TypeOK
<1>6. /\ "TransitionsConfirmed" \in extra
      /\ "EnterSuppressedNoPendingTransition" \notin extra
      /\ extra \cap PresenceNames
           \subseteq {"TransitionsConfirmed",
                      "EnterSuppressedNoPendingTransition"}
      /\ One("TransitionsConfirmed" \in extra) = 1
      /\ "movement_arrival" \in StartReasons
  BY DEF One, StartReasons
<1> HIDE DEF extra
<1> QED BY <1>1, <1>4, <1>5, <1>6, StartedPresence

\* Any other start adds no transition.
LEMMA OtherPresence ==
  ASSUME Inductive, PresenceAccounted, NEW o \in Incoming, ConfirmPresence(o)
  PROVE  PresenceAccounted'
<1> DEFINE
      arrival == state.startReason = "movement_arrival"
      extra == When(arrival /\ pending # NoPending,
                    {"PendingTransitionsCancelledSegmentMismatch"})
               \cup When(\/ arrival /\ pending = NoPending
                         \/ state.startReason = "candidate_presence",
                         {"EnterSuppressedNoPendingTransition"})
<1>1. /\ diag' = Counted(PresenceStartCounters(state.startReason) \cup extra)
      /\ state.phase = "seeking" /\ Consume(o) /\ state' = Supported
      /\ presence' = presence /\ transitions' = transitions
  BY DEF ConfirmPresence
<1>2. ~arrival
  BY DEF Inductive, ConfirmPresence, ArrivalMatches, StateCoherent, Present,
         Anchor
<1>3. state.startReason \in StartReasons
  BY DEF Inductive, TypeOK, PresenceState
<1>4. /\ "TransitionsConfirmed" \notin extra
      /\ "EnterSuppressedNoPendingTransition" \in extra
           <=> state.startReason = "candidate_presence"
      /\ extra \cap PresenceNames
           \subseteq {"TransitionsConfirmed",
                      "EnterSuppressedNoPendingTransition"}
      /\ One("TransitionsConfirmed" \in extra) = 0
  BY <1>2 DEF When, One
<1>5. state'.phase = "present" /\ result' = NoResult
  BY <1>1, SupportedState, IncomingType DEF Consume, Inductive
<1>6. ~PresenceOpen /\ PresenceOpen'
  BY <1>1, <1>5 DEF PresenceOpen, Present, Finished
<1>7. Len(transitions') = Len(transitions) + 0
  BY <1>1, LenProperties DEF Inductive, TypeOK
<1> HIDE DEF extra
<1> QED BY <1>1, <1>2, <1>3, <1>4, <1>6, <1>7, StartedPresence

\* The search, the fixes inside and the candidates open and close nothing.
LEMMA UnrelatedPresence ==
  ASSUME Inductive, PresenceAccounted, NEW o \in Incoming,
         \/ Reanchor(o) \/ RemainInside(o)
         \/ StartCandidate(o) \/ RestartCandidate(o)
  PROVE  PresenceAccounted'
<1>1. UNCHANGED <<presence, transitions, result>>
  BY DEF Reanchor, RemainInside, StartCandidate, RestartCandidate, Consume
<1>2. state'.phase = state.phase
  BY DEF Reanchor, RemainInside, StartCandidate, RestartCandidate, Inductive,
         TypeOK, PresenceState
<1>3. PresenceOpen' <=> PresenceOpen
  BY <1>1, <1>2 DEF PresenceOpen, Present, Finished
<1>4. TypeOK
  BY DEF Inductive
<1>5. CASE Reanchor(o)
  BY <1>1, <1>2, <1>5 DEF Reanchor, PresenceAccounted, Finished, Present
<1>6. CASE RemainInside(o)
  <2> DEFINE S == When(CandidateOpen, {"DepartureCandidatesReturnedInside"})
  <2>1. diag' = Counted(S) /\ S \cap PresenceNames = {}
    BY <1>6 DEF RemainInside, When, PresenceNames
  <2> QED BY <1>1, <1>3, <1>4, <2>1, PresenceUntouched
<1>7. CASE StartCandidate(o)
  <2> DEFINE S == {"DepartureCandidateOutsideFixes",
                   "DepartureCandidateSequences"}
  <2>1. diag' = Counted(S) /\ S \cap PresenceNames = {}
    BY <1>7 DEF StartCandidate, PresenceNames
  <2> QED BY <1>1, <1>3, <1>4, <2>1, PresenceUntouched
<1>8. CASE RestartCandidate(o)
  <2> DEFINE S == {"DepartureCandidateOutsideFixes",
                   "DepartureCandidateWindowExpired",
                   "DepartureCandidateSequences"}
  <2>1. diag' = Counted(S) /\ S \cap PresenceNames = {}
    BY <1>8 DEF RestartCandidate, PresenceNames
  <2> QED BY <1>1, <1>3, <1>4, <2>1, PresenceUntouched
<1> QED BY <1>5, <1>6, <1>7, <1>8

\* A departure closes the open presence.
LEMMA DeparturePresence ==
  ASSUME Inductive, PresenceAccounted, NEW o \in Incoming,
         DepartUnconfirmed(o) \/ ConfirmDeparture(o)
  PROVE  PresenceAccounted'
<1>1. PICK counters \in {{}, {"DepartureCandidateOutsideFixes"}} :
        Depart(counters)
  BY DEF DepartUnconfirmed, ConfirmDeparture
<1>2. Outside(o) /\ Consume(o)
  BY DEF DepartUnconfirmed, ConfirmDeparture
<1> DEFINE S == counters \cup
         {"PresenceEndConfirmedMovement", "DeparturesConfirmed",
          "PendingTransitionsStarted"}
<1>3. /\ diag' = Counted(S) /\ transitions' = transitions
      /\ presence' = Append(presence, ClosedPresence("confirmed_movement"))
      /\ state'.phase = "seeking"
  BY <1>1 DEF Depart, Seeking
<1>4. /\ \A c \in PresenceNames
             \ {"PresenceEndConfirmedMovement", "DeparturesConfirmed"} :
           c \notin S
      /\ "PresenceEndConfirmedMovement" \in S /\ "DeparturesConfirmed" \in S
  BY DEF PresenceNames
<1> HIDE DEF S
<1>5. PresenceOpen /\ ~PresenceOpen'
  BY <1>2, <1>3, IncomingType
     DEF Outside, Inductive, PresenceOpen, Present, Finished
<1>6. /\ Len(presence') = Len(presence) + 1
      /\ Len(transitions') = Len(transitions) + 0
  <2>1. Closable
    BY <1>5, IncomingType, OpenIsClosable DEF Inductive
  <2>2. presence' = IF Closable
                      THEN Append(presence, ClosedPresence("confirmed_movement"))
                      ELSE presence
    BY <1>3, <2>1
  <2> QED BY <1>3, <2>1, <2>2, RowAppended, LenProperties
          DEF One, Inductive, TypeOK
<1>7. /\ One("PresenceEndDataset" \in S) = 0
      /\ One("PresenceEndGap" \in S) = 0
      /\ One("PresenceEndDiscontinuity" \in S) = 0
      /\ One("PresenceEndConfirmedMovement" \in S) = 1
      /\ One("TransitionsConfirmed" \in S) = 0
      /\ One("PresenceConfirmations" \in S) = 0
      /\ One("PresenceStartDataset" \in S) = 0
      /\ One("PresenceStartContinuityReset" \in S) = 0
      /\ One("PresenceStartCandidate" \in S) = 0
      /\ One("PresenceStartMovementArrival" \in S) = 0
      /\ One(PresenceOpen) = 1 /\ One(PresenceOpen') = 0
  BY <1>4, <1>5 DEF One, PresenceNames
<1>8. /\ "PresenceStartMovementArrival" \notin S
      /\ "TransitionsConfirmed" \notin S
      /\ "EnterSuppressedNoPendingTransition" \notin S
      /\ "PresenceStartCandidate" \notin S
      /\ "PendingTransitionsCancelledSegmentMismatch" \notin S
  BY <1>4 DEF PresenceNames
<1>9. TypeOK
  BY DEF Inductive
<1> QED BY <1>3, <1>4, <1>6, <1>7, <1>8, <1>9, PresenceBalance

\* The end of the input closes the open presence, and keeps the transitions.
LEMMA FinishPresence ==
  ASSUME Inductive, PresenceAccounted, Finish
  PROVE  PresenceAccounted'
<1> DEFINE
      S == When(CandidateOpen, {"DepartureCandidatesCancelledEOF"})
           \cup When(Closable, {PresenceEndCounter("dataset_end")})
           \cup When(pending # NoPending, {"PendingTransitionsUnresolvedEOF"})
<1>1. /\ diag' = Counted(S) /\ result = NoResult
      /\ presence' = IF Closable
                       THEN Append(presence, ClosedPresence("dataset_end"))
                       ELSE presence
      /\ \E enriched : transitions' = [k \in DOMAIN transitions |-> enriched[k]]
  BY DEF Finish
<1>2. /\ \A c \in PresenceNames \ {"PresenceEndDataset"} : c \notin S
      /\ "PresenceEndDataset" \in S <=> Closable
  BY DEF When, PresenceEndCounter, PresenceNames
<1> HIDE DEF S
<1>3. PresenceOpen <=> Closable
  BY <1>1, OpenIsClosable
<1>4. ~PresenceOpen'
  BY FinishFinishes DEF PresenceOpen, Inductive
<1>5. TypeOK /\ Len(presence') = Len(presence) + One(Closable)
  BY <1>1, RowAppended DEF Inductive
<1>6. Len(transitions') = Len(transitions) + 0
  BY <1>1, <1>5, FinishStep, LenProperties DEF TypeOK, Inductive
<1>7. /\ One("PresenceEndDataset" \in S) = One(Closable)
      /\ One("PresenceEndGap" \in S) = 0
      /\ One("PresenceEndDiscontinuity" \in S) = 0
      /\ One("PresenceEndConfirmedMovement" \in S) = 0
      /\ One("TransitionsConfirmed" \in S) = 0
      /\ One("PresenceConfirmations" \in S) = 0
      /\ One("PresenceStartDataset" \in S) = 0
      /\ One("PresenceStartContinuityReset" \in S) = 0
      /\ One("PresenceStartCandidate" \in S) = 0
      /\ One("PresenceStartMovementArrival" \in S) = 0
      /\ One(PresenceOpen) = One(Closable) /\ One(PresenceOpen') = 0
      /\ One(Closable) \in Nat
  BY <1>2, <1>3, <1>4 DEF One, PresenceNames
<1>8. /\ "PresenceEndConfirmedMovement" \notin S
      /\ "DeparturesConfirmed" \notin S
      /\ "PresenceStartMovementArrival" \notin S
      /\ "TransitionsConfirmed" \notin S
      /\ "EnterSuppressedNoPendingTransition" \notin S
      /\ "PresenceStartCandidate" \notin S
      /\ "PendingTransitionsCancelledSegmentMismatch" \notin S
  BY <1>2 DEF PresenceNames
<1> QED BY <1>1, <1>5, <1>6, <1>7, <1>8, PresenceBalance

\* Every confirmed presence has one start and, once closed, one end and one
\* row; every movement arrival has its transition row; the cancellation for a
\* segment mismatch never happens (presence and transition counters).
THEOREM PresencesClose == Spec => []PresenceAccounted
<1>1. Init => PresenceAccounted
  BY DEF Init, PresenceAccounted, One, Counter, Present, Seeking
<1>2. Inductive /\ PresenceAccounted /\ [Next]_vars => PresenceAccounted'
  <2> SUFFICES ASSUME Inductive, PresenceAccounted, [Next]_vars
               PROVE  PresenceAccounted'
    OBVIOUS
  <2>1. CASE UNCHANGED vars
    BY <2>1 DEF vars, PresenceAccounted, Finished, Present
  <2>2. CASE Finish
    BY <2>2, FinishPresence
  <2>3. CASE \E o \in Incoming : \/ ContinuityBreak(o)
                                 \/ ConfirmArrival(o) \/ ConfirmPresence(o)
                                 \/ Reanchor(o) \/ RemainInside(o)
                                 \/ StartCandidate(o) \/ RestartCandidate(o)
                                 \/ DepartUnconfirmed(o) \/ ConfirmDeparture(o)
    BY <2>3, BreakPresence, ArrivalPresence, OtherPresence, UnrelatedPresence,
       DeparturePresence
  <2> QED BY <2>1, <2>2, <2>3 DEF Next
<1> QED BY <1>1, <1>2, SpecInductive, PTL DEF Spec

\* The three closures of docs/DIAGNOSTICS.md together.
THEOREM CountersAlwaysClose == Spec => []CountersClose
<1>1. CandidatesAccounted /\ PendingAccounted /\ PresenceAccounted
        => CountersClose
  BY DEF CountersClose
<1> QED BY <1>1, CandidatesClose, PendingTransitionsClose, PresencesClose, PTL
-----------------------------------------------------------------------------
(* Part two: what the records claim.                                      *)

LastMember == state.members[Len(state.members)]

\* What DeparturesAreExact says of one closed presence.
ExactEnd(p) ==
  IF p.endReason = "confirmed_movement"
    THEN \E c \in Index :
           /\ FirstDeparture(p.start, c)
           /\ p.end < c /\ ~AwayFrom(p.start, p.end)
           /\ \A i \in p.end + 1 .. c : AwayFrom(p.start, i)
    ELSE \A c \in Index : ~DepartureAt(p.start, c)

\* What a closed presence claims, and why it stays true: a break that ended it
\* lies after it, and the data's end is followed by nothing.
Sound(p) ==
  /\ p.start < p.end
  /\ Unbroken(p.start, p.end)
  /\ ExactEnd(p)
  /\ p.endReason \in {"gap", "discontinuity"} => ~Unbroken(p.start, Len(obs))
  /\ p.endReason = "dataset_end" => Finished

PresencesSound == \A k \in DOMAIN presence : Sound(presence[k])

PresencesOrdered ==
  /\ \A j, k \in DOMAIN presence : j < k => presence[j].end < presence[k].start
  /\ ~Finished => \A k \in DOMAIN presence : presence[k].end < state.anchorIdx

\* An open presence ends at a member inside; what follows it was outside, and
\* none of that is a departure the mode accepts.
OpenPresence ==
  /\ Unbroken(state.anchorIdx, Len(obs))
  /\ Present =>
       /\ LastMember \in state.anchorIdx + 1 .. Len(obs)
       /\ ~AwayFrom(state.anchorIdx, LastMember)
       /\ \A i \in LastMember + 1 .. Len(obs) : AwayFrom(state.anchorIdx, i)
       /\ (state.moveCandidates = <<>> <=> LastMember = Len(obs))
       /\ \A c \in Index : ~DepartureAt(state.anchorIdx, c)

\* A pending transition departs from the presence closed last.
PendingLeft ==
  pending # NoPending =>
    /\ Unbroken(pending.departIdx, Len(obs))
    /\ presence # <<>>
    /\ presence[Len(presence)].endReason = "confirmed_movement"
    /\ pending.origin = presence[Len(presence)].start
    /\ pending.departIdx = presence[Len(presence)].end
    /\ pending.segment = presence[Len(presence)].segment

TransitionsSound ==
  \A k \in DOMAIN transitions :
    /\ Unbroken(transitions[k].depart, transitions[k].destination)
    /\ transitions[k].count
         = transitions[k].destination - transitions[k].depart + 1

\* The ENTER of an open presence has its transition.
EntryLinked ==
  (Present /\ state.enterEvent) =>
    \E t \in DOMAIN transitions : transitions[t].destination = state.anchorIdx

\* The inductive invariant.
Evidence ==
  /\ Inductive
  /\ PresencesSound /\ PresencesOrdered
  /\ OpenPresence /\ NoPresenceMissed
  /\ PendingLeft /\ TransitionsSound
  /\ TransitionsLink /\ EntryLinked

-----------------------------------------------------------------------------
(* Claims about the observations read, as one more is read.                *)

\* What is known of the observations once o is read.
LEMMA Read ==
  ASSUME TypeOK, NEW o \in Observation, Consume(o)
  PROVE  /\ Len(obs) \in Nat \ {0} /\ Now = Len(obs) + 1 /\ Len(obs') = Now
         /\ obs'[Now] = o
         /\ \A i \in 1 .. Len(obs) : obs'[i] = obs[i]
         /\ Index = 1 .. Len(obs) /\ Index' = 1 .. Now
<1>1. Len(obs) \in Nat \ {0}
  BY DEF TypeOK
<1> QED BY <1>1, Grown DEF Now, Index

\* A span of the observations read is broken or not whatever is read next.
LEMMA UnbrokenKept ==
  ASSUME TypeOK, NEW o \in Observation, Consume(o),
         NEW from \in Nat, NEW to \in 0 .. Len(obs)
  PROVE  Unbroken(from, to)' <=> Unbroken(from, to)
BY Read DEF Unbroken

\* A span that reaches the latest observation goes on exactly if o continues.
LEMMA UnbrokenExtended ==
  ASSUME TypeOK, NEW o \in Observation, Consume(o), NEW from \in Index
  PROVE  Unbroken(from, Len(obs))' <=> Unbroken(from, Len(obs)) /\ Continues(o)
<1>1. \A i \in from + 1 .. Now : i \in from + 1 .. Len(obs) \/ i = Now
  BY Read DEF Index
<1>2. Now \in from + 1 .. Now /\ from + 1 .. Len(obs) \subseteq from + 1 .. Now
  BY Read DEF Index
<1>3. \A i \in from + 1 .. Len(obs) : obs'[i] = obs[i]
  BY Read DEF Index
<1> QED BY <1>1, <1>2, <1>3, Read DEF Unbroken, Continues

\* A shorter span of an unbroken one is unbroken.
LEMMA UnbrokenWithin ==
  ASSUME NEW from \in Nat, NEW to \in Nat, Unbroken(from, to),
         NEW a \in from .. to, NEW b \in Nat, b <= to
  PROVE  Unbroken(a, b)
BY DEF Unbroken

\* A fix stays inside or outside of an anchor once both are read.
LEMMA AwayKept ==
  ASSUME TypeOK, NEW o \in Observation, Consume(o),
         NEW a \in Index, NEW i \in Index
  PROVE  AwayFrom(a, i)' <=> AwayFrom(a, i)
<1>1. obs'[a] = obs[a] /\ obs'[i] = obs[i]
  BY Read
<1> QED BY <1>1 DEF AwayFrom

\* A departure stays one, and none appears before the latest observation.
LEMMA DepartureKept ==
  ASSUME TypeOK, NEW o \in Observation, Consume(o),
         NEW a \in Index, NEW c \in Index
  PROVE  /\ DepartureAt(a, c) => DepartureAt(a, c)'
         /\ (ConfirmMoves => c < Len(obs)) /\ DepartureAt(a, c)'
              => DepartureAt(a, c)
<1>1. AwayFrom(a, c)' <=> AwayFrom(a, c)
  BY AwayKept
<1>2. Unbroken(a, c)' <=> Unbroken(a, c)
  BY UnbrokenKept DEF Index
<1>3. obs'[c] = obs[c] /\ (c \in a + 1 .. Len(obs) <=> c \in a + 1 .. Len(obs'))
  BY Read DEF Index
<1>4. CASE c < Len(obs)
  BY <1>4, Read, AwayKept, <1>1, <1>2, <1>3 DEF DepartureAt
<1>5. CASE ~(c < Len(obs))
  BY <1>1, <1>2, <1>3, <1>5 DEF DepartureAt
<1> QED BY <1>4, <1>5

\* The first departure stays the first.
LEMMA FirstDepartureKept ==
  ASSUME TypeOK, NEW o \in Observation, Consume(o),
         NEW a \in Index, NEW c \in Index, FirstDeparture(a, c)
  PROVE  FirstDeparture(a, c)'
<1>1. DepartureAt(a, c)'
  BY DepartureKept DEF FirstDeparture
<1>2. ASSUME NEW b \in a .. c - 1 PROVE ~DepartureAt(a, b)'
  BY Read, DepartureKept DEF FirstDeparture
<1> QED BY <1>1, <1>2 DEF FirstDeparture

-----------------------------------------------------------------------------
(* Closed presences.                                                       *)

\* A sound presence stays sound when an observation is read.
LEMMA SoundKept ==
  ASSUME TypeOK, NEW o \in Observation, Consume(o), ~Finished, NEW p,
         p.start \in Index, p.end \in Index, p.endReason \in EndReasons,
         Sound(p)
  PROVE  Sound(p)'
<1>1. p.start < p.end /\ Unbroken(p.start, p.end)'
  BY UnbrokenKept DEF Sound, Index
<1>2. p.endReason # "dataset_end"
  BY DEF Sound
<1>3. p.endReason \in {"gap", "discontinuity"} => ~Unbroken(p.start, Len(obs))'
  BY UnbrokenExtended DEF Sound
<1>4. ExactEnd(p)'
  <2>1. CASE p.endReason = "confirmed_movement"
    <3>1. PICK c \in Index :
            /\ FirstDeparture(p.start, c)
            /\ p.end < c /\ ~AwayFrom(p.start, p.end)
            /\ \A i \in p.end + 1 .. c : AwayFrom(p.start, i)
      BY <2>1 DEF Sound, ExactEnd
    <3>2. FirstDeparture(p.start, c)' /\ ~AwayFrom(p.start, p.end)'
      BY <3>1, FirstDepartureKept, AwayKept
    <3>3. ASSUME NEW i \in p.end + 1 .. c PROVE AwayFrom(p.start, i)'
      BY <3>1, AwayKept DEF Index
    <3>4. c \in Index'
      BY Read
    <3> QED BY <2>1, <3>1, <3>2, <3>3, <3>4 DEF ExactEnd
  <2>2. CASE p.endReason # "confirmed_movement"
    <3>1. p.endReason \in {"gap", "discontinuity"}
      BY <1>2, <2>2 DEF EndReasons
    <3> SUFFICES ASSUME NEW c \in Index', DepartureAt(p.start, c)'
                 PROVE  FALSE
      BY <2>2 DEF ExactEnd
    <3>2. Unbroken(p.start, c)'
      BY DEF DepartureAt
    <3>3. CASE c \in Index /\ (ConfirmMoves => c < Len(obs))
      BY <2>2, <3>3, DepartureKept DEF Sound, ExactEnd
    <3>4. CASE c = Len(obs)
      BY <3>2, <3>4, UnbrokenKept, <3>1 DEF Index, Sound
    <3>5. CASE c = Len(obs')
      BY <1>3, <3>1, <3>2, <3>5
    <3> QED BY <3>3, <3>4, <3>5, Read
  <2> QED BY <2>1, <2>2
<1> QED BY <1>1, <1>2, <1>3, <1>4 DEF Sound

\* What closePresence takes from an open presence.
LEMMA ClosedFields ==
  ASSUME Inductive, Present, NEW reason, NEW p, p = ClosedPresence(reason)
  PROVE  /\ p.start = state.anchorIdx /\ p.end = LastMember
         /\ p.endReason = reason /\ p.entered = state.enterEvent
         /\ p.segment = obs[state.anchorIdx].segment
         /\ p.start \in Index /\ p.end \in Index
<1>1. state.members[1] = state.anchorIdx /\ Len(state.members) >= 2
        /\ state.members \in Seq(Index) /\ state.anchorIdx \in Index
  BY DEF Inductive, StateCoherent, TypeOK, PresenceState
<1>2. LastMember \in Index
  BY <1>1 DEF LastMember
<1> QED BY <1>1, <1>2 DEF ClosedPresence, LastMember

\* A presence ended by a break is sound: the break is no departure.
LEMMA BrokenIsSound ==
  ASSUME Inductive, OpenPresence, Present, NEW o \in Incoming, Consume(o),
         ~Continues(o), NEW reason \in {"gap", "discontinuity"},
         NEW p, p = ClosedPresence(reason)
  PROVE  Sound(p)'
<1>1. o \in Observation /\ TypeOK
  BY IncomingType DEF Inductive
<1>2. /\ p.start = state.anchorIdx /\ p.end = LastMember /\ p.endReason = reason
      /\ p.start \in Index /\ p.end \in Index
  BY ClosedFields
<1>3. p.start < p.end /\ Unbroken(p.start, p.end)
  BY <1>2, <1>1, UnbrokenWithin DEF OpenPresence, Index, TypeOK
<1>4. Unbroken(p.start, p.end)'
  BY <1>1, <1>2, <1>3, UnbrokenKept DEF Index
<1>5. ~Unbroken(p.start, Len(obs))'
  BY <1>1, <1>2, UnbrokenExtended
<1>6. ASSUME NEW c \in Index', DepartureAt(p.start, c)' PROVE FALSE
  <2>1. c # Len(obs')
    BY <1>5, <1>6 DEF DepartureAt
  <2>2. ~(ConfirmMoves /\ c = Len(obs))
    BY <1>6, <1>1, Read DEF DepartureAt
  <2>3. c \in Index /\ (ConfirmMoves => c < Len(obs))
    BY <1>1, <2>1, <2>2, Read
  <2>4. ~DepartureAt(p.start, c)
    BY <1>2, <2>3 DEF OpenPresence
  <2> QED BY <1>1, <1>2, <1>6, <2>3, <2>4, DepartureKept
<1>7. ExactEnd(p)'
  BY <1>2, <1>6 DEF ExactEnd
<1> QED BY <1>2, <1>3, <1>4, <1>5, <1>7 DEF Sound

\* The fix that confirms a departure, or the only one the mode asks for, is
\* the first evidence of it.
LEMMA DepartedIsSound ==
  ASSUME Inductive, OpenPresence, NEW o \in Incoming, Consume(o), Outside(o),
         \/ ~ConfirmMoves
         \/ ConfirmMoves /\ state.moveCandidates # <<>> /\ ~WindowExpired(o),
         NEW p, p = ClosedPresence("confirmed_movement")
  PROVE  Sound(p)'
<1>1. o \in Observation /\ TypeOK /\ Present /\ Continues(o)
  BY IncomingType DEF Inductive, Outside, Present
<1>2. /\ p.start = state.anchorIdx /\ p.end = LastMember
      /\ p.endReason = "confirmed_movement"
      /\ p.start \in Index /\ p.end \in Index
  BY <1>1, ClosedFields
<1>3. /\ p.end \in p.start + 1 .. Len(obs) /\ Unbroken(p.start, Len(obs))
      /\ ~AwayFrom(p.start, p.end)
      /\ \A i \in p.end + 1 .. Len(obs) : AwayFrom(p.start, i)
      /\ (state.moveCandidates = <<>> <=> p.end = Len(obs))
      /\ \A c \in Index : ~DepartureAt(p.start, c)
  BY <1>1, <1>2 DEF OpenPresence
<1>4. p.start < p.end /\ Unbroken(p.start, p.end)'
  BY <1>1, <1>2, <1>3, UnbrokenWithin, UnbrokenKept DEF Index, TypeOK
<1>5. Unbroken(p.start, Len(obs))'
  BY <1>1, <1>2, <1>3, UnbrokenExtended
<1>6. AwayFrom(p.start, Len(obs))'
  BY <1>1, <1>2, Read DEF AwayFrom, Outside, Anchor
<1>7. ASSUME NEW i \in p.end + 1 .. Len(obs) PROVE AwayFrom(p.start, i)'
  BY <1>1, <1>2, <1>3, AwayKept DEF Index
<1>8. ~AwayFrom(p.start, p.end)'
  BY <1>1, <1>2, <1>3, AwayKept
<1>9. ASSUME NEW b \in Index, ConfirmMoves => b < Len(obs)
      PROVE  ~DepartureAt(p.start, b)'
  BY <1>1, <1>2, <1>3, <1>9, DepartureKept
<1>10. ExactEnd(p)'
  <2>1. CASE ~ConfirmMoves
    <3>1. PICK c : c = Len(obs')
      OBVIOUS
    <3>2. c \in Index' /\ c = Len(obs) + 1 /\ c \in p.start + 1 .. c /\ p.end < c
      BY <1>1, <1>2, <3>1, Read DEF Index
    <3>3. DepartureAt(p.start, c)'
      BY <1>5, <1>6, <2>1, <3>1, <3>2 DEF DepartureAt
    <3>4. \A b \in p.start .. c - 1 : ~DepartureAt(p.start, b)'
      BY <1>1, <1>2, <1>9, <2>1, <3>2, Read
    <3>5. \A i \in p.end + 1 .. c : AwayFrom(p.start, i)'
      BY <1>6, <1>7, <1>1, <1>2, <3>1, <3>2, Read
    <3> QED BY <1>2, <1>8, <3>2, <3>3, <3>4, <3>5 DEF ExactEnd, FirstDeparture
  <2>2. CASE ConfirmMoves
    <3>1. PICK c : c = Len(obs)
      OBVIOUS
    <3>2. /\ c \in Index /\ c \in Index' /\ Len(obs') = c + 1 /\ p.end < c
          /\ c \in p.start + 1 .. c + 1
      BY <1>1, <1>2, <1>3, <2>2, <3>1, Read
    <3>3. state.moveCandidates = <<c>> /\ state.moveCandidates[1] = c
      BY <1>1, <2>2, <3>1 DEF Inductive, StateCoherent
    <3>4. obs'[c + 1] = o /\ obs'[c] = obs[c]
      BY <1>1, <3>1, <3>2, Read
    <3>5. obs'[c + 1].ts - obs'[c].ts <= ConfirmWindowS
      <4>1. obs[c].ts \in Nat /\ o.ts \in Nat /\ ConfirmWindowS \in Nat
        BY <1>1, <3>2, ObservationAt, ConfigAssumption DEF Observation
      <4> QED BY <2>2, <3>3, <3>4, <4>1 DEF WindowExpired
    <3>6. Unbroken(p.start, c)'
      BY <1>1, <1>2, <1>3, <3>1, <3>2, UnbrokenKept DEF Index
    <3>7. DepartureAt(p.start, c)'
      <4>1. AwayFrom(p.start, c)' /\ AwayFrom(p.start, c + 1)'
        BY <1>6, <1>7, <1>1, <1>2, <3>1, <3>2, Read
      <4> QED BY <1>1, <2>2, <3>2, <3>4, <3>5, <3>6, <4>1 DEF DepartureAt
    <3>8. \A b \in p.start .. c - 1 : ~DepartureAt(p.start, b)'
      BY <1>1, <1>2, <1>9, <3>1, <3>2, Read
    <3>9. \A i \in p.end + 1 .. c : AwayFrom(p.start, i)'
      BY <1>7, <3>1
    <3> QED BY <1>2, <1>8, <3>2, <3>7, <3>8, <3>9 DEF ExactEnd, FirstDeparture
  <2> QED BY <2>1, <2>2
<1> QED BY <1>2, <1>4, <1>10 DEF Sound

-----------------------------------------------------------------------------
(* What a step does to the closed presences.                               *)

\* A closed presence has indices and a reason of the code's.
LEMMA PresenceFields ==
  ASSUME TypeOK, NEW k \in DOMAIN presence
  PROVE  /\ presence[k].start \in Index /\ presence[k].end \in Index
         /\ presence[k].endReason \in EndReasons
         /\ k \in 1 .. Len(presence) /\ Len(presence) \in Nat
<1>1. presence[k] \in PresenceInterval
  BY DEF TypeOK
<1>2. k \in 1 .. Len(presence) /\ Len(presence) \in Nat
  BY DEF TypeOK
<1> QED BY <1>1, <1>2 DEF PresenceInterval

\* Appending a row keeps the rows before it.
LEMMA RowsKept ==
  ASSUME TypeOK, NEW p, presence' = Append(presence, p)
  PROVE  /\ Len(presence) \in Nat /\ Len(presence') = Len(presence) + 1
         /\ presence' # <<>>
         /\ DOMAIN presence = 1 .. Len(presence)
         /\ DOMAIN presence' = 1 .. Len(presence) + 1
         /\ presence'[Len(presence) + 1] = p
         /\ \A k \in DOMAIN presence : presence'[k] = presence[k]
<1> DEFINE T == PresenceInterval \cup {p}
<1>1. presence \in Seq(T)
  BY SeqMonotonic DEF TypeOK
<1>2. p \in T
  OBVIOUS
<1> HIDE DEF T
<1> QED BY <1>1, <1>2

\* Sound presences stay so while the trajectory grows.
LEMMA SoundPresences ==
  ASSUME Inductive, PresencesSound, NEW o \in Incoming, Consume(o),
         \/ presence' = presence
         \/ \E p : presence' = Append(presence, p) /\ Sound(p)'
  PROVE  PresencesSound'
<1>1. o \in Observation /\ TypeOK /\ ~Finished
  BY IncomingType DEF Inductive, Finished
<1>2. ASSUME NEW k \in DOMAIN presence, presence'[k] = presence[k]
      PROVE  Sound(presence[k])'
  BY <1>1, <1>2, SoundKept, PresenceFields DEF PresencesSound
<1>3. CASE presence' = presence
  BY <1>2, <1>3 DEF PresencesSound
<1>4. ASSUME NEW p, presence' = Append(presence, p), Sound(p)'
      PROVE  PresencesSound'
  <2>1. /\ DOMAIN presence' = DOMAIN presence \cup {Len(presence) + 1}
        /\ presence'[Len(presence) + 1] = p
        /\ \A k \in DOMAIN presence : presence'[k] = presence[k]
    BY <1>1, <1>4, RowsKept
  <2> SUFFICES ASSUME NEW k \in DOMAIN presence' PROVE Sound(presence[k])'
    BY DEF PresencesSound
  <2>2. CASE k \in DOMAIN presence
    BY <1>2, <2>1, <2>2
  <2>3. CASE k = Len(presence) + 1
    BY <1>4, <2>1, <2>3
  <2> QED BY <2>1, <2>2, <2>3
<1> QED BY <1>3, <1>4

\* Presences stay in order when the search moves on to a later anchor, and
\* when the open one, which ends at a member read, is appended.
LEMMA OrderedPresences ==
  ASSUME Inductive, PresencesOrdered, ~Finished,
         state.anchorIdx \in Nat, state'.anchorIdx \in Nat,
         \/ presence' = presence /\ state.anchorIdx <= state'.anchorIdx
         \/ \E p : /\ presence' = Append(presence, p)
                   /\ p.start = state.anchorIdx /\ p.end \in Nat
                   /\ p.start < p.end
                   /\ (Finished' \/ p.end < state'.anchorIdx)
  PROVE  PresencesOrdered'
<1>1. \A k \in DOMAIN presence :
        presence[k].end < state.anchorIdx /\ presence[k].end \in Nat
  BY PresenceFields DEF PresencesOrdered, Inductive, Index
<1>2. CASE presence' = presence /\ state.anchorIdx <= state'.anchorIdx
  BY <1>1, <1>2 DEF PresencesOrdered
<1>3. ASSUME NEW p, presence' = Append(presence, p),
             p.start = state.anchorIdx, p.end \in Nat, p.start < p.end,
             Finished' \/ p.end < state'.anchorIdx
      PROVE  PresencesOrdered'
  <2>1. /\ Len(presence) \in Nat
        /\ DOMAIN presence = 1 .. Len(presence)
        /\ DOMAIN presence' = 1 .. Len(presence) + 1
        /\ presence'[Len(presence) + 1] = p
        /\ \A k \in DOMAIN presence : presence'[k] = presence[k]
    BY <1>3, RowsKept DEF Inductive
  <2>2. ASSUME NEW j \in DOMAIN presence', NEW k \in DOMAIN presence', j < k
        PROVE  presence'[j].end < presence'[k].start
    <3>1. j \in DOMAIN presence
      BY <2>1, <2>2
    <3>2. CASE k \in DOMAIN presence
      BY <2>1, <2>2, <3>1, <3>2 DEF PresencesOrdered
    <3>3. CASE k = Len(presence) + 1
      BY <1>1, <1>3, <2>1, <3>1, <3>3
    <3> QED BY <2>1, <3>2, <3>3
  <2>3. ASSUME ~Finished', NEW k \in DOMAIN presence'
        PROVE  presence'[k].end < state'.anchorIdx
    <3>1. CASE k \in DOMAIN presence
      <4>1. /\ presence'[k] = presence[k] /\ presence[k].end \in Nat
            /\ presence[k].end < p.start /\ p.start \in Nat
        BY <1>1, <1>3, <2>1, <3>1
      <4>2. p.start < p.end /\ p.end < state'.anchorIdx
        BY <1>3, <2>3
      <4> QED BY <1>3, <4>1, <4>2
    <3>2. CASE k = Len(presence) + 1
      BY <1>3, <2>1, <2>3, <3>2
    <3> QED BY <2>1, <3>1, <3>2
  <2> QED BY <2>2, <2>3 DEF PresencesOrdered
<1> QED BY <1>2, <1>3

-----------------------------------------------------------------------------
(* No presence missed.                                                     *)

\* A watch kept so far over an observation read is kept for good.
LEMMA WatchedKept ==
  ASSUME TypeOK, NEW o \in Observation, Consume(o),
         NEW a \in Index, NEW i \in Index, Watched(a, i)
  PROVE  Watched(a, i)'
<1>1. i >= a /\ Unbroken(a, i)'
  BY UnbrokenKept DEF Watched, Index
<1>2. ASSUME NEW c \in a .. i - 1 PROVE ~DepartureAt(a, c)'
  BY Read, DepartureKept DEF Watched
<1> QED BY <1>1, <1>2 DEF Watched

\* An open presence watches over the latest observation.
LEMMA OpenWatches ==
  ASSUME Inductive, OpenPresence, NEW o \in Observation, Consume(o), Present
  PROVE  Watched(state.anchorIdx, Len(obs))
<1>1. state.anchorIdx \in Index /\ Len(obs) \in Nat /\ Index = 1 .. Len(obs)
  BY Read DEF Inductive, TypeOK, PresenceState
<1>2. \A c \in state.anchorIdx .. Len(obs) - 1 : c \in Index
  BY <1>1
<1> QED BY <1>1, <1>2 DEF OpenPresence, Watched

\* No supporting pair is passed over by a step that keeps the open presence
\* or closes it, and opens one when the search meets support.
LEMMA NoneMissed ==
  ASSUME Inductive, OpenPresence, NoPresenceMissed, NEW o \in Incoming,
         Consume(o),
         \A k \in DOMAIN presence :
           k \in DOMAIN presence' /\ presence'[k] = presence[k],
         Present =>
           \/ Present' /\ state'.anchorIdx = state.anchorIdx
           \/ \E k \in DOMAIN presence' : presence'[k].start = state.anchorIdx,
         ~Present /\ Continues(o) /\ WithinPresence(obs[Len(obs)], o) =>
           Present' /\ state'.anchorIdx = Len(obs)
  PROVE  NoPresenceMissed'
<1>1. o \in Observation /\ TypeOK
  BY IncomingType DEF Inductive
<1>2. /\ Len(obs) \in Nat \ {0} /\ Len(obs') = Len(obs) + 1
      /\ Index = 1 .. Len(obs) /\ obs'[Len(obs) + 1] = o
      /\ \A i \in 1 .. Len(obs) : obs'[i] = obs[i]
  BY <1>1, Read
<1>3. state.anchorIdx \in Index
  BY DEF Inductive, TypeOK, PresenceState
<1>4. ASSUME NEW i \in Index, NEW a \in Index, Watched(a, i)',
             \/ Present' /\ state'.anchorIdx = a
             \/ \E k \in DOMAIN presence' : presence'[k].start = a
      PROVE  \/ \E k \in DOMAIN presence' : Watched(presence[k].start, i)'
             \/ Present' /\ Watched(state.anchorIdx, i)'
  BY <1>4
<1> SUFFICES ASSUME NEW i \in 1 .. Len(obs),
                    Continues(obs'[i + 1]), WithinPresence(obs'[i], obs'[i + 1])
             PROVE  \/ \E k \in DOMAIN presence' : Watched(presence[k].start, i)'
                    \/ Present' /\ Watched(state.anchorIdx, i)'
  BY <1>2 DEF NoPresenceMissed
<1>5. CASE i = Len(obs) /\ Present
  <2>1. Watched(state.anchorIdx, i)
    BY <1>1, <1>5, OpenWatches
  <2>2. PICK a : a = state.anchorIdx
    OBVIOUS
  <2>3. Watched(a, i)'
    BY <1>1, <1>2, <1>3, <2>1, <2>2, WatchedKept
  <2> QED BY <1>2, <1>3, <1>4, <1>5, <2>2, <2>3
<1>6. CASE i = Len(obs) /\ ~Present
  <2>1. Continues(o) /\ WithinPresence(obs[Len(obs)], o)
    BY <1>2, <1>6
  <2>2. Present' /\ state'.anchorIdx = i
    BY <1>6, <2>1
  <2>3. Watched(i, i)
    BY <1>2, <1>6 DEF Watched, Unbroken
  <2>4. Watched(i, i)'
    BY <1>1, <1>2, <2>3, WatchedKept
  <2> QED BY <1>2, <1>4, <2>2, <2>4
<1>7. CASE i # Len(obs)
  <2>1. /\ i \in 1 .. Len(obs) - 1 /\ i \in Index
        /\ Continues(obs[i + 1]) /\ WithinPresence(obs[i], obs[i + 1])
    BY <1>2, <1>7
  <2>2. CASE Present /\ Watched(state.anchorIdx, i)
    <3>1. PICK a : a = state.anchorIdx
      OBVIOUS
    <3>2. Watched(a, i)'
      BY <1>1, <1>3, <2>1, <2>2, <3>1, WatchedKept
    <3> QED BY <1>3, <1>4, <2>1, <2>2, <3>1, <3>2
  <2>3. ASSUME NEW k \in DOMAIN presence, Watched(presence[k].start, i)
        PROVE  \E j \in DOMAIN presence' : Watched(presence[j].start, i)'
    <3>1. presence[k].start \in Index
      BY <1>1, PresenceFields
    <3>2. PICK a \in Index : a = presence[k].start
      BY <3>1
    <3>3. Watched(a, i)'
      BY <1>1, <2>1, <2>3, <3>2, WatchedKept
    <3>4. k \in DOMAIN presence' /\ presence'[k].start = a
      BY <3>2
    <3> QED BY <3>3, <3>4
  <2> QED BY <2>1, <2>2, <2>3 DEF NoPresenceMissed
<1> QED BY <1>5, <1>6, <1>7

-----------------------------------------------------------------------------
(* The open presence.                                                      *)

\* A search that starts at the latest observation has nothing to show yet.
LEMMA SearchOpens ==
  ASSUME ~Present', state'.anchorIdx = Len(obs'), Len(obs') \in Nat
  PROVE  OpenPresence'
BY DEF OpenPresence, Unbroken

\* A second fix inside asserts a presence that no fix has left yet.
LEMMA PresenceOpens ==
  ASSUME Inductive, NEW o \in Incoming, Consume(o), Continues(o), ~Present,
         WithinPresence(Anchor, o), Present',
         state'.anchorIdx = state.anchorIdx,
         state'.members = <<state.anchorIdx, Now>>,
         state'.moveCandidates = <<>>
  PROVE  OpenPresence'
<1>1. o \in Observation /\ TypeOK
  BY IncomingType DEF Inductive
<1>2. PICK a : a = state.anchorIdx
  OBVIOUS
<1>3. /\ a = Len(obs) /\ a \in Index /\ a \in Nat /\ Len(obs') = a + 1
      /\ obs'[a] = obs[a] /\ obs'[a + 1] = o /\ Index' = 1 .. a + 1
  BY <1>1, <1>2, Read DEF Inductive, StateCoherent
<1>4. LastMember' = a + 1
  BY <1>2, <1>3 DEF LastMember, Now
<1>5. ~AwayFrom(a, a + 1)'
  BY <1>2, <1>3 DEF AwayFrom, Anchor
<1>6. Unbroken(a, Len(obs))'
  BY <1>3, <1>1, UnbrokenExtended DEF Unbroken
<1>7. ASSUME NEW c \in Index' PROVE ~DepartureAt(a, c)'
  <2>1. CASE c = a + 1
    BY <1>5, <2>1 DEF DepartureAt
  <2>2. CASE c # a + 1
    BY <1>3, <2>2 DEF DepartureAt
  <2> QED BY <2>1, <2>2
<1> QED BY <1>2, <1>3, <1>4, <1>5, <1>6, <1>7 DEF OpenPresence

\* A presence that goes on is no departure, if the fix read is inside, or is
\* the first one outside, or comes too late to confirm the one before it.
LEMMA PresenceGoesOn ==
  ASSUME Inductive, OpenPresence, NEW o \in Incoming, Consume(o), Continues(o),
         Present, Present', state'.anchorIdx = state.anchorIdx,
         \/ /\ WithinPresence(Anchor, o) /\ state'.moveCandidates = <<>>
            /\ state'.members = Append(state.members, Now)
         \/ /\ ~WithinPresence(Anchor, o) /\ state'.moveCandidates = <<Now>>
            /\ state'.members = state.members
            /\ ConfirmMoves
            /\ state.moveCandidates = <<>> \/ WindowExpired(o)
  PROVE  OpenPresence'
<1>1. o \in Observation /\ TypeOK
  BY IncomingType DEF Inductive
<1>2. PICK a : a = state.anchorIdx
  OBVIOUS
<1>3. PICK n \in Nat \ {0} : n = Len(obs)
  BY <1>1, Read
<1>4. /\ a \in Index /\ a \in Nat /\ Len(obs') = n + 1 /\ Now = n + 1
      /\ Index = 1 .. n /\ Index' = 1 .. n + 1
      /\ obs'[a] = obs[a] /\ obs'[n] = obs[n] /\ obs'[n + 1] = o
  BY <1>1, <1>2, <1>3, Read DEF Inductive, TypeOK, PresenceState
<1>5. PICK m : m = LastMember
  OBVIOUS
<1>6. /\ m \in a + 1 .. n /\ ~AwayFrom(a, m)
      /\ \A i \in m + 1 .. n : AwayFrom(a, i)
      /\ (state.moveCandidates = <<>> <=> m = n)
      /\ \A c \in Index : ~DepartureAt(a, c)
      /\ Unbroken(a, n)
  BY <1>2, <1>3, <1>5 DEF OpenPresence
<1>7. Unbroken(a, Len(obs))'
  BY <1>1, <1>3, <1>4, <1>6, UnbrokenExtended
<1>8. AwayFrom(a, n + 1)' <=> ~WithinPresence(Anchor, o)
  BY <1>2, <1>4 DEF AwayFrom, Anchor
<1>9. m \in Index /\ ~AwayFrom(a, m)' /\ \A i \in m + 1 .. n : AwayFrom(a, i)'
  BY <1>4, <1>6, <1>1, AwayKept
<1>10. state.members \in Seq(Index) /\ Len(state.members) >= 2
         /\ state.moveCandidates \in {<<>>, <<n>>}
  BY <1>3 DEF Inductive, TypeOK, PresenceState, StateCoherent
<1>11. CASE WithinPresence(Anchor, o) /\ state'.moveCandidates = <<>>
              /\ state'.members = Append(state.members, Now)
  <2>1. LastMember' = n + 1
    BY <1>4, <1>10, <1>11 DEF LastMember
  <2>2. ASSUME NEW c \in Index', DepartureAt(a, c)' PROVE FALSE
    <3>1. c # n + 1
      BY <1>8, <1>11, <2>2 DEF DepartureAt
    <3>2. ~(ConfirmMoves /\ c = n)
      BY <1>8, <1>11, <2>2 DEF DepartureAt
    <3>3. c \in Index /\ (ConfirmMoves => c < Len(obs))
      BY <1>3, <1>4, <3>1, <3>2
    <3> QED BY <1>1, <1>4, <1>6, <2>2, <3>3, DepartureKept
  <2> QED BY <1>2, <1>4, <1>6, <1>7, <1>8, <1>11, <2>1, <2>2 DEF OpenPresence
<1>12. CASE /\ ~WithinPresence(Anchor, o) /\ state'.moveCandidates = <<Now>>
            /\ state'.members = state.members
            /\ ConfirmMoves
            /\ state.moveCandidates = <<>> \/ WindowExpired(o)
  <2>1. LastMember' = m
    BY <1>5, <1>12 DEF LastMember
  <2>2. \A i \in m + 1 .. n + 1 : AwayFrom(a, i)'
    BY <1>4, <1>6, <1>8, <1>9, <1>12
  <2>3. ASSUME NEW c \in Index', DepartureAt(a, c)' PROVE FALSE
    <3>1. c < n + 1
      BY <1>4, <1>12, <2>3 DEF DepartureAt
    <3>2. CASE c = n
      <4>1. AwayFrom(a, n)' /\ obs'[n + 1].ts - obs'[n].ts <= ConfirmWindowS
        BY <1>12, <2>3, <3>2 DEF DepartureAt
      <4>2. CASE state.moveCandidates = <<>>
        BY <1>6, <1>9, <4>1, <4>2
      <4>3. CASE state.moveCandidates # <<>>
        <5>1. state.moveCandidates[1] = n
          BY <1>10, <4>3
        <5>2. obs[n].ts \in Nat /\ o.ts \in Nat /\ ConfirmWindowS \in Nat
          BY <1>1, <1>3, <1>4, ObservationAt, ConfigAssumption DEF Observation
        <5> QED BY <1>4, <1>12, <4>1, <4>3, <5>1, <5>2 DEF WindowExpired
      <4> QED BY <4>2, <4>3
    <3>3. CASE c # n
      BY <1>3, <1>4, <3>1, <3>3, <1>1, <1>6, <2>3, DepartureKept
    <3> QED BY <3>2, <3>3
  <2>4. m \in a + 1 .. n + 1 /\ m # n + 1 /\ state'.moveCandidates # <<>>
    BY <1>4, <1>6, <1>12
  <2> QED BY <1>2, <1>4, <1>7, <1>9, <2>1, <2>2, <2>3, <2>4 DEF OpenPresence
<1> QED BY <1>11, <1>12

-----------------------------------------------------------------------------
(* Transitions.                                                            *)

\* An unbroken span counts every observation in it.
LEMMA UnbrokenCount ==
  ASSUME NEW from \in Nat, NEW to \in Nat, from < to, Unbroken(from, to)
  PROVE  ObservedCount(from, to) = to - from + 1
<1>1. {i \in from + 1 .. to : ~obs[i].gap /\ ~obs[i].disc} = from + 1 .. to
  BY DEF Unbroken
<1>2. Cardinality(from + 1 .. to) = to - from
  BY FS_Interval
<1>3. ObservedCount(from, to) = 1 + Cardinality(from + 1 .. to)
  BY <1>1, Zenon DEF ObservedCount
<1> QED BY <1>2, <1>3

\* A transition's ends are indices.
LEMMA TransitionFields ==
  ASSUME TypeOK, NEW k \in DOMAIN transitions
  PROVE  transitions[k].depart \in Index /\ transitions[k].destination \in Index
<1>1. transitions[k] \in Transition
  BY DEF TypeOK
<1> QED BY <1>1 DEF Transition

\* The transition made at an arrival spans what it claims to.
LEMMA MadeIsSound ==
  ASSUME Inductive, PresencesOrdered, PendingLeft, ~Finished, ~Present,
         pending # NoPending, NEW tr, tr = MakeTransition(state.anchorIdx)
  PROVE  /\ tr.origin = pending.origin /\ tr.depart = pending.departIdx
         /\ tr.destination = state.anchorIdx
         /\ tr.segment = obs[state.anchorIdx].segment
         /\ tr.depart \in Index /\ tr.destination \in Index
         /\ Unbroken(tr.depart, tr.destination)
         /\ tr.count = tr.destination - tr.depart + 1
<1>1. /\ tr.origin = pending.origin /\ tr.depart = pending.departIdx
      /\ tr.destination = state.anchorIdx
      /\ tr.segment = obs[state.anchorIdx].segment
      /\ tr.count = ObservedCount(pending.departIdx, state.anchorIdx)
  BY DEF MakeTransition
<1>2. state.anchorIdx = Len(obs) /\ state.anchorIdx \in Index
  BY DEF Inductive, StateCoherent, TypeOK, PresenceState
<1>3. pending \in [origin : Index, segment : Nat \ {0}, departIdx : Index]
  BY DEF Inductive, TypeOK, PendingTransition
<1>4. pending.departIdx \in Index
  BY <1>3
<1>5. pending.departIdx < state.anchorIdx
  BY DEF PendingLeft, Inductive, TypeOK, PresencesOrdered
<1>6. Unbroken(pending.departIdx, state.anchorIdx)
  BY <1>2 DEF PendingLeft
<1>7. tr.count = state.anchorIdx - pending.departIdx + 1
  BY <1>1, <1>2, <1>4, <1>5, <1>6, UnbrokenCount DEF Index
<1> QED BY <1>1, <1>2, <1>4, <1>6, <1>7

\* Transitions stay sound while the trajectory grows.
LEMMA SoundTransitions ==
  ASSUME Inductive, TransitionsSound, NEW o \in Incoming, Consume(o),
         \/ transitions' = transitions
         \/ \E tr \in Transition :
              /\ transitions' = Append(transitions, tr)
              /\ Unbroken(tr.depart, tr.destination)
              /\ tr.count = tr.destination - tr.depart + 1
  PROVE  TransitionsSound'
<1>1. o \in Observation /\ TypeOK
  BY IncomingType DEF Inductive
<1>2. ASSUME NEW tr \in Transition, Unbroken(tr.depart, tr.destination)
      PROVE  Unbroken(tr.depart, tr.destination)'
  BY <1>1, <1>2, UnbrokenKept DEF Transition, Index
<1>3. ASSUME NEW k \in DOMAIN transitions
      PROVE  transitions[k] \in Transition
  BY <1>1 DEF TypeOK
<1>4. CASE transitions' = transitions
  BY <1>2, <1>3, <1>4 DEF TransitionsSound
<1>5. ASSUME NEW tr \in Transition, transitions' = Append(transitions, tr),
             Unbroken(tr.depart, tr.destination),
             tr.count = tr.destination - tr.depart + 1
      PROVE  TransitionsSound'
  <2>1. transitions \in Seq(Transition)
    BY <1>1 DEF TypeOK
  <2>2. /\ DOMAIN transitions' = DOMAIN transitions \cup {Len(transitions) + 1}
        /\ transitions'[Len(transitions) + 1] = tr
        /\ \A k \in DOMAIN transitions : transitions'[k] = transitions[k]
    BY <1>5, <2>1
  <2> SUFFICES ASSUME NEW k \in DOMAIN transitions'
               PROVE  /\ Unbroken(transitions[k].depart, transitions[k].destination)'
                      /\ transitions'[k].count = transitions'[k].destination
                                                   - transitions'[k].depart + 1
    BY DEF TransitionsSound
  <2>3. CASE k \in DOMAIN transitions
    BY <1>2, <1>3, <2>2, <2>3 DEF TransitionsSound
  <2>4. CASE k = Len(transitions) + 1
    BY <1>2, <1>5, <2>2, <2>4
  <2> QED BY <2>2, <2>3, <2>4
<1> QED BY <1>4, <1>5

-----------------------------------------------------------------------------
(* Links between transitions and presences.                                *)

\* What TransitionsLink says of a transition and the presence it departs from.
LinkedTo(tr, k) ==
  /\ presence[k].start = tr.origin
  /\ presence[k].end = tr.depart
  /\ presence[k].segment = tr.segment
  /\ presence[k].endReason = "confirmed_movement"
  /\ IF k < Len(presence)
       THEN /\ presence[k + 1].start = tr.destination
            /\ presence[k + 1].entered
            /\ Finished => tr.destCount = presence[k + 1].count
       ELSE /\ ~Finished /\ Present
            /\ state.anchorIdx = tr.destination /\ state.enterEvent

PresencesLinked ==
  \A t \in DOMAIN transitions :
    \E k \in DOMAIN presence : LinkedTo(transitions[t], k)
EnteredPresences ==
  \A k \in DOMAIN presence : presence[k].entered =>
    \E t \in DOMAIN transitions : transitions[t].destination = presence[k].start

LEMMA LinkParts == TransitionsLink <=> PresencesLinked /\ EnteredPresences
BY DEF TransitionsLink, PresencesLinked, EnteredPresences, LinkedTo

\* Links hold on while the presences stay and the open one, if any, goes on.
LEMMA LinksKept ==
  ASSUME TransitionsLink, EntryLinked, ~Finished, ~Finished',
         UNCHANGED <<presence, transitions>>,
         Present => /\ Present' /\ state'.anchorIdx = state.anchorIdx
                    /\ state'.enterEvent = state.enterEvent,
         ~Present => ~(Present' /\ state'.enterEvent)
  PROVE  TransitionsLink' /\ EntryLinked'
<1>1. ASSUME NEW tr, NEW k \in DOMAIN presence, LinkedTo(tr, k)
      PROVE  LinkedTo(tr, k)'
  BY <1>1 DEF LinkedTo
<1>2. PresencesLinked'
  <2> SUFFICES ASSUME NEW t \in DOMAIN transitions
               PROVE  \E k \in DOMAIN presence : LinkedTo(transitions[t], k)'
    BY DEF PresencesLinked
  <2>1. PICK k \in DOMAIN presence : LinkedTo(transitions[t], k)
    BY LinkParts DEF PresencesLinked
  <2>2. LinkedTo(transitions[t], k)'
    BY <1>1, <2>1
  <2> QED BY <2>2
<1>3. EnteredPresences'
  BY LinkParts DEF EnteredPresences
<1>4. TransitionsLink'
  BY <1>2, <1>3 DEF TransitionsLink, PresencesLinked, EnteredPresences, LinkedTo
<1> QED BY <1>4 DEF EntryLinked

\* The open presence takes its links with it when it is closed.
LEMMA LinkClosed ==
  ASSUME TypeOK, ~Finished, Present,
         NEW p, presence' = Append(presence, p), p.start = state.anchorIdx,
         p.entered = state.enterEvent,
         NEW tr, NEW k \in DOMAIN presence, LinkedTo(tr, k)
  PROVE  /\ k \in DOMAIN presence' /\ k < Len(presence')
         /\ k + 1 \in DOMAIN presence'
         /\ presence'[k].start = tr.origin /\ presence'[k].end = tr.depart
         /\ presence'[k].segment = tr.segment
         /\ presence'[k].endReason = "confirmed_movement"
         /\ presence'[k + 1].start = tr.destination
         /\ presence'[k + 1].entered
<1>1. /\ Len(presence) \in Nat /\ Len(presence') = Len(presence) + 1
      /\ DOMAIN presence = 1 .. Len(presence)
      /\ DOMAIN presence' = 1 .. Len(presence) + 1
      /\ presence'[Len(presence) + 1] = p
      /\ \A j \in DOMAIN presence : presence'[j] = presence[j]
  BY RowsKept
<1>2. /\ k \in DOMAIN presence' /\ k < Len(presence') /\ presence'[k] = presence[k]
      /\ k + 1 \in DOMAIN presence'
  BY <1>1
<1>3. presence'[k + 1].start = tr.destination /\ presence'[k + 1].entered
  <2>1. CASE k < Len(presence)
    BY <1>1, <2>1 DEF LinkedTo
  <2>2. CASE ~(k < Len(presence))
    BY <1>1, <2>2 DEF LinkedTo
  <2> QED BY <2>1, <2>2
<1> QED BY <1>2, <1>3 DEF LinkedTo

\* Every entered presence has its transition once the open one is closed.
LEMMA EnteredClosed ==
  ASSUME TypeOK, TransitionsLink, EntryLinked, Present,
         NEW p, presence' = Append(presence, p), p.start = state.anchorIdx,
         p.entered = state.enterEvent,
         DOMAIN transitions' = DOMAIN transitions,
         \A t \in DOMAIN transitions :
           transitions'[t].destination = transitions[t].destination
  PROVE  EnteredPresences'
<1>1. /\ Len(presence) \in Nat
      /\ DOMAIN presence' = DOMAIN presence \cup {Len(presence) + 1}
      /\ presence'[Len(presence) + 1] = p
      /\ \A j \in DOMAIN presence : presence'[j] = presence[j]
  BY RowsKept
<1>2. EnteredPresences
  BY LinkParts
<1> SUFFICES ASSUME NEW k \in DOMAIN presence', presence'[k].entered
             PROVE  \E t \in DOMAIN transitions :
                      transitions[t].destination = presence'[k].start
  BY DEF EnteredPresences
<1>3. CASE k \in DOMAIN presence
  BY <1>1, <1>2, <1>3 DEF EnteredPresences
<1>4. CASE k = Len(presence) + 1
  BY <1>1, <1>4 DEF EntryLinked
<1> QED BY <1>1, <1>3, <1>4

\* Links when the loop closes the open presence and goes on.
LEMMA LinksClosed ==
  ASSUME TypeOK, TransitionsLink, EntryLinked, ~Finished, ~Finished', Present,
         NEW p, presence' = Append(presence, p), p.start = state.anchorIdx,
         p.entered = state.enterEvent,
         transitions' = transitions, ~Present'
  PROVE  TransitionsLink' /\ EntryLinked'
<1>1. ASSUME NEW tr, NEW k \in DOMAIN presence, LinkedTo(tr, k)
      PROVE  k \in DOMAIN presence' /\ LinkedTo(tr, k)'
  BY <1>1, LinkClosed DEF LinkedTo
<1>2. PresencesLinked'
  <2> SUFFICES ASSUME NEW t \in DOMAIN transitions
               PROVE  \E k \in DOMAIN presence' : LinkedTo(transitions[t], k)'
    BY DEF PresencesLinked
  <2>1. PICK k \in DOMAIN presence : LinkedTo(transitions[t], k)
    BY LinkParts DEF PresencesLinked
  <2>2. k \in DOMAIN presence' /\ LinkedTo(transitions[t], k)'
    BY <1>1, <2>1
  <2> QED BY <2>2
<1>3. EnteredPresences'
  BY EnteredClosed
<1>4. TransitionsLink'
  BY <1>2, <1>3 DEF TransitionsLink, PresencesLinked, EnteredPresences, LinkedTo
<1> QED BY <1>4 DEF EntryLinked

\* An arrival links the presence it opens to the one departed from.
LEMMA LinksMade ==
  ASSUME Inductive, TransitionsLink, PendingLeft, ~Finished, ~Finished',
         ~Present, pending # NoPending,
         NEW tr \in Transition, transitions' = Append(transitions, tr),
         tr.origin = pending.origin, tr.depart = pending.departIdx,
         tr.segment = pending.segment, tr.destination = state.anchorIdx,
         presence' = presence, Present', state'.enterEvent,
         state'.anchorIdx = state.anchorIdx
  PROVE  TransitionsLink' /\ EntryLinked'
<1>1. TypeOK /\ transitions \in Seq(Transition) /\ Len(transitions) \in Nat
  BY DEF Inductive, TypeOK
<1>2. /\ DOMAIN transitions' = DOMAIN transitions \cup {Len(transitions) + 1}
      /\ transitions'[Len(transitions) + 1] = tr
      /\ \A t \in DOMAIN transitions : transitions'[t] = transitions[t]
  BY <1>1
<1>3. ASSUME NEW t \in DOMAIN transitions
      PROVE  \E k \in DOMAIN presence : LinkedTo(transitions[t], k)'
  <2>1. PICK k \in DOMAIN presence : LinkedTo(transitions[t], k)
    BY LinkParts DEF PresencesLinked
  <2>2. PICK old : old = transitions[t]
    OBVIOUS
  <2>3. LinkedTo(old, k)'
    BY <2>1, <2>2 DEF LinkedTo
  <2>4. transitions'[t] = old
    BY <1>2, <2>2
  <2> QED BY <2>3, <2>4
<1>4. Len(presence) \in DOMAIN presence /\ LinkedTo(tr, Len(presence))'
  BY <1>1 DEF PendingLeft, TypeOK, LinkedTo
<1>5. PresencesLinked'
  <2> SUFFICES ASSUME NEW t \in DOMAIN transitions'
               PROVE  \E k \in DOMAIN presence : LinkedTo(transitions[t], k)'
    BY DEF PresencesLinked
  <2>1. CASE t \in DOMAIN transitions
    BY <1>3, <2>1
  <2>2. CASE t = Len(transitions) + 1
    BY <1>2, <2>2, <1>4
  <2> QED BY <1>2, <2>1, <2>2
<1>6. EnteredPresences'
  BY LinkParts, <1>2 DEF EnteredPresences
<1>7. TransitionsLink'
  BY <1>5, <1>6 DEF TransitionsLink, PresencesLinked, EnteredPresences, LinkedTo
<1>8. EntryLinked'
  BY <1>2 DEF EntryLinked
<1> QED BY <1>7, <1>8

\* The enrichment finds the one presence that starts at the destination.
LEMMA EnrichedFrom ==
  ASSUME NEW tr \in Transition, NEW all, NEW k \in DOMAIN all, k \in Nat,
         all[k].start = tr.destination,
         \A j \in DOMAIN all : all[j].start = tr.destination => j = k,
         NEW new, new = Enriched(tr, all)
  PROVE  /\ new.origin = tr.origin /\ new.depart = tr.depart
         /\ new.segment = tr.segment /\ new.destination = tr.destination
         /\ new.count = tr.count /\ new.destCount = all[k].count
<1> DEFINE found == {i \in DOMAIN all : all[i].start = tr.destination}
           pick  == CHOOSE i \in found : \A j \in found : j <= i
<1>1. found = {k}
  OBVIOUS
<1>2. pick = k
  BY <1>1
<1>3. new = [tr EXCEPT !.destCount = all[pick].count]
  BY <1>1 DEF Enriched
<1> HIDE DEF pick
<1>4. new = [tr EXCEPT !.destCount = all[k].count]
  BY <1>2, <1>3
<1> QED BY <1>4 DEF Transition

\* The end of the input closes the open presence and every destination is
\* then a closed one, which the enrichment finds.
LEMMA LinksFinished ==
  ASSUME Inductive, TransitionsLink, EntryLinked, ~Finished, Finished', Finish,
         PresencesOrdered', \A k \in DOMAIN presence' : presence'[k].start
                                                          < presence'[k].end,
         TypeOK'
  PROVE  TransitionsLink' /\ EntryLinked'
<1> DEFINE all == presence'
<1>1. /\ DOMAIN transitions' = DOMAIN transitions
      /\ \A t \in DOMAIN transitions :
           /\ transitions[t] \in Transition
           /\ transitions'[t] = Enriched(transitions[t], all)
  BY DEF Finish, Inductive, TypeOK
<1>2. ASSUME NEW j \in DOMAIN all, NEW k \in DOMAIN all,
             all[j].start = all[k].start
      PROVE  j = k
  <2>1. /\ all[j].start \in Int /\ all[j].end \in Int
        /\ all[k].start \in Int /\ all[k].end \in Int /\ j \in Int /\ k \in Int
    <3>1. all[j] \in PresenceInterval' /\ all[k] \in PresenceInterval'
            /\ j \in Int /\ k \in Int
      BY DEF TypeOK
    <3> QED BY <3>1 DEF PresenceInterval, Index
  <2>2. all[j].start < all[j].end /\ all[k].start < all[k].end
    OBVIOUS
  <2>3. /\ j < k => all[j].end < all[k].start
        /\ k < j => all[k].end < all[j].start
    BY DEF PresencesOrdered
  <2> QED BY <1>2, <2>1, <2>2, <2>3
<1>3. ASSUME NEW t \in DOMAIN transitions
      PROVE  /\ \E k \in DOMAIN all : LinkedTo(transitions[t], k)'
             /\ transitions'[t].destination = transitions[t].destination
  <2>1. PICK old : old = transitions[t]
    OBVIOUS
  <2>2. PICK k \in DOMAIN presence : LinkedTo(old, k)
    BY <2>1, LinkParts DEF PresencesLinked
  <2>3. old \in Transition /\ k \in Nat /\ Len(presence) \in Nat
    BY <1>1, <2>1 DEF Inductive, TypeOK
  <2>4. /\ k \in DOMAIN all /\ k < Len(all) /\ k + 1 \in DOMAIN all
        /\ all[k].start = old.origin /\ all[k].end = old.depart
        /\ all[k].segment = old.segment
        /\ all[k].endReason = "confirmed_movement"
        /\ all[k + 1].start = old.destination /\ all[k + 1].entered
    <3>1. CASE Present
      <4>1. PICK p : p = ClosedPresence("dataset_end")
        OBVIOUS
      <4>2. presence' = Append(presence, p)
        BY <3>1, <4>1 DEF Closable, Present, Inductive, StateCoherent, Finish
      <4>3. p.start = state.anchorIdx /\ p.entered = state.enterEvent
        BY <3>1, <4>1, ClosedFields
      <4> QED BY <2>2, <3>1, <4>2, <4>3, LinkClosed DEF Inductive
    <3>2. CASE ~Present
      <4>1. presence' = presence
        BY <3>2 DEF Finish, Closable, Present
      <4>2. k < Len(presence)
        BY <2>2, <3>2 DEF LinkedTo
      <4>3. k + 1 \in DOMAIN presence
        BY <2>2, <2>3, <4>2 DEF Inductive, TypeOK
      <4> QED BY <2>2, <4>1, <4>2, <4>3 DEF LinkedTo
    <3> QED BY <3>1, <3>2
  <2>5. PICK new : new = Enriched(old, all)
    OBVIOUS
  <2>6. /\ new.origin = old.origin /\ new.depart = old.depart
        /\ new.segment = old.segment /\ new.destination = old.destination
        /\ new.destCount = all[k + 1].count
    BY <1>2, <2>4, <2>3, <2>5, EnrichedFrom
  <2>7. LinkedTo(new, k)'
    BY <2>4, <2>6 DEF LinkedTo
  <2>8. transitions'[t] = new
    BY <1>1, <2>1, <2>5
  <2> QED BY <2>1, <2>4, <2>6, <2>7, <2>8
<1>4. PresencesLinked'
  BY <1>1, <1>3 DEF PresencesLinked
<1>5. EnteredPresences'
  <2>1. CASE Present
    <3>1. PICK p : p = ClosedPresence("dataset_end")
      OBVIOUS
    <3>2. presence' = Append(presence, p)
      BY <2>1, <3>1 DEF Closable, Present, Inductive, StateCoherent, Finish
    <3>3. p.start = state.anchorIdx /\ p.entered = state.enterEvent
      BY <2>1, <3>1, ClosedFields
    <3> QED BY <1>1, <1>3, <2>1, <3>2, <3>3, EnteredClosed DEF Inductive
  <2>2. CASE ~Present
    BY <2>2, LinkParts, <1>1, <1>3 DEF Finish, Closable, Present,
       EnteredPresences
  <2> QED BY <2>1, <2>2
<1>6. TransitionsLink'
  BY <1>4, <1>5 DEF TransitionsLink, PresencesLinked, EnteredPresences, LinkedTo
<1>7. EntryLinked'
  BY <1>1, <1>3 DEF Finish, EntryLinked, Present
<1> QED BY <1>6, <1>7

-----------------------------------------------------------------------------
(* The evidence, step by step.                                             *)

\* What every step that reads an observation starts from.
LEMMA Reading ==
  ASSUME Inductive, NEW o \in Incoming, Consume(o)
  PROVE  /\ o \in Observation /\ TypeOK /\ ~Finished /\ ~Finished'
         /\ state.anchorIdx \in Index /\ state.anchorIdx \in Nat
         /\ Len(obs) \in Nat /\ Len(obs') = Now /\ Now = Len(obs) + 1
         /\ state.anchorIdx <= Len(obs)
<1>1. o \in Observation /\ TypeOK /\ result = NoResult
  BY IncomingType DEF Inductive
<1>2. ~Finished /\ ~Finished'
  BY <1>1 DEF Finished, Consume, NoResult
<1>3. state.anchorIdx \in Index
  BY DEF Inductive, TypeOK, PresenceState
<1> QED BY <1>1, <1>2, <1>3, Read DEF Index

\* A step that closes the open presence p and starts a search over.
LEMMA EvidenceOnClosing ==
  ASSUME Evidence, NEW o \in Incoming, Consume(o), Inductive', Present,
         NEW p, presence' = Append(presence, p), Sound(p)',
         p.start = state.anchorIdx, p.end = LastMember,
         p.entered = state.enterEvent,
         transitions' = transitions,
         ~Present', state'.anchorIdx = Now, PendingLeft'
  PROVE  Evidence'
<1>1. /\ o \in Observation /\ TypeOK /\ ~Finished /\ ~Finished'
      /\ state.anchorIdx \in Index /\ state.anchorIdx \in Nat
      /\ Len(obs) \in Nat /\ Len(obs') = Now /\ Now = Len(obs) + 1
  BY Reading DEF Evidence
<1>2. PresencesSound'
  BY SoundPresences DEF Evidence
<1>3. PresencesOrdered'
  BY <1>1, OrderedPresences DEF Evidence, OpenPresence
<1>4. OpenPresence'
  BY <1>1, SearchOpens
<1>5. NoPresenceMissed'
  BY <1>1, RowsKept, NoneMissed DEF Evidence
<1>6. TransitionsSound'
  BY SoundTransitions DEF Evidence
<1>7. TransitionsLink' /\ EntryLinked'
  BY <1>1, LinksClosed DEF Evidence
<1> QED BY <1>2, <1>3, <1>4, <1>5, <1>6, <1>7 DEF Evidence

\* A break ends the open presence, if any, and drops the pending transition.
LEMMA BreakEvidence ==
  ASSUME Evidence, NEW o \in Incoming, ContinuityBreak(o)
  PROVE  Evidence'
<1>1. Consume(o) /\ ~Continues(o) /\ Inductive' /\ Inductive
  BY BreakStep DEF ContinuityBreak, Continues, Evidence
<1>2. /\ state'.anchorIdx = Now /\ ~Present' /\ transitions' = transitions
      /\ PendingLeft'
  BY DEF ContinuityBreak, Seeking, Present, PendingAfterBreak, PendingLeft
<1>3. /\ TypeOK /\ ~Finished /\ ~Finished' /\ Len(obs) \in Nat /\ Len(obs') = Now
      /\ state.anchorIdx \in Nat /\ Now \in Nat /\ state.anchorIdx <= Now
  BY <1>1, Reading
<1>4. CASE Present
  <2>1. PICK reason \in {"gap", "discontinuity"} :
          presence' = Append(presence, ClosedPresence(reason))
    BY <1>1, <1>4 DEF Closable, Present, Inductive, StateCoherent,
       ContinuityBreak
  <2>2. PICK p : p = ClosedPresence(reason)
    OBVIOUS
  <2>3. Sound(p)'
    BY <1>1, <1>4, <2>2, BrokenIsSound DEF Evidence
  <2>4. /\ p.start = state.anchorIdx /\ p.end = LastMember
        /\ p.entered = state.enterEvent
    BY <1>1, <1>4, <2>2, ClosedFields
  <2> QED BY <1>1, <1>2, <1>4, <2>1, <2>2, <2>3, <2>4, EvidenceOnClosing
<1>5. CASE ~Present
  <2>1. presence' = presence
    BY <1>5 DEF ContinuityBreak, Closable, Present
  <2>2. PresencesSound' /\ TransitionsSound'
    BY <1>1, <1>2, <2>1, SoundPresences, SoundTransitions DEF Evidence
  <2>3. PresencesOrdered'
    BY <1>2, <1>3, <2>1, OrderedPresences DEF Evidence
  <2>4. OpenPresence'
    BY <1>2, <1>3, SearchOpens
  <2>5. NoPresenceMissed'
    BY <1>1, <1>5, <2>1, NoneMissed DEF Evidence
  <2>6. TransitionsLink' /\ EntryLinked'
    BY <1>2, <1>3, <1>5, <2>1, LinksKept DEF Evidence
  <2> QED BY <1>1, <1>2, <2>2, <2>3, <2>4, <2>5, <2>6 DEF Evidence
<1> QED BY <1>4, <1>5

\* The departure confirmed, the presence it ended is the one now pending.
LEMMA DepartEvidence ==
  ASSUME Evidence, NEW o \in Incoming, DepartUnconfirmed(o) \/ ConfirmDeparture(o)
  PROVE  Evidence'
<1>1. /\ Consume(o) /\ Outside(o) /\ Present /\ Inductive /\ Inductive'
      /\ \/ ~ConfirmMoves
         \/ ConfirmMoves /\ state.moveCandidates # <<>> /\ ~WindowExpired(o)
      /\ \E S : Depart(S)
  <2>1. CASE DepartUnconfirmed(o)
    BY <2>1, DepartStep
       DEF DepartUnconfirmed, Outside, Present, NeedsConfirmation, Evidence
  <2>2. CASE ConfirmDeparture(o)
    BY <2>2, DepartStep
       DEF ConfirmDeparture, Outside, Present, NeedsConfirmation, Evidence
  <2> QED BY <2>1, <2>2
<1>2. PICK p : p = ClosedPresence("confirmed_movement")
  OBVIOUS
<1>3. /\ presence' = Append(presence, p) /\ transitions' = transitions
      /\ state' = Seeking(Now, "movement_arrival")
      /\ pending' = [origin |-> p.start, segment |-> p.segment,
                     departIdx |-> p.end]
  BY <1>1, <1>2 DEF Depart
<1>4. ~Present' /\ state'.anchorIdx = Now
  BY <1>3 DEF Seeking, Present
<1>5. /\ p.start = state.anchorIdx /\ p.end = LastMember
      /\ p.endReason = "confirmed_movement"
      /\ p.entered = state.enterEvent /\ p.end \in Index
  BY <1>1, <1>2, ClosedFields
<1>6. Sound(p)'
  BY <1>1, <1>2, DepartedIsSound DEF Evidence
<1>7. PendingLeft'
  <2>1. /\ presence' # <<>> /\ Len(presence') = Len(presence) + 1
        /\ presence'[Len(presence) + 1] = p
    BY <1>1, <1>3, RowsKept DEF Inductive
  <2>2. Unbroken(p.end, Len(obs))'
    BY <1>1, <1>5, Reading, UnbrokenWithin, UnbrokenExtended DEF Evidence,
       OpenPresence, Outside
  <2> QED BY <1>3, <1>5, <2>1, <2>2 DEF PendingLeft
<1> QED BY <1>1, <1>3, <1>4, <1>5, <1>6, <1>7, EvidenceOnClosing

\* A step that closes nothing while the observations continue.
LEMMA EvidenceGoingOn ==
  ASSUME Evidence, NEW o \in Incoming, Consume(o), Continues(o), Inductive',
         presence' = presence, transitions' = transitions,
         state'.anchorIdx \in {state.anchorIdx, Now},
         pending' \in {pending, NoPending},
         Present => /\ Present' /\ state'.anchorIdx = state.anchorIdx
                    /\ state'.enterEvent = state.enterEvent,
         ~Present => ~(Present' /\ state'.enterEvent),
         ~Present /\ WithinPresence(Anchor, o) =>
           Present' /\ state'.anchorIdx = state.anchorIdx,
         OpenPresence'
  PROVE  Evidence'
<1>1. /\ o \in Observation /\ TypeOK /\ ~Finished /\ ~Finished'
      /\ state.anchorIdx \in Nat /\ Len(obs) \in Nat /\ Len(obs') = Now
      /\ Now = Len(obs) + 1 /\ state.anchorIdx <= Len(obs)
  BY Reading DEF Evidence
<1>2. PresencesSound' /\ TransitionsSound'
  BY SoundPresences, SoundTransitions DEF Evidence
<1>3. PresencesOrdered'
  BY <1>1, OrderedPresences DEF Evidence
<1>4. NoPresenceMissed'
  BY NoneMissed DEF Evidence, Inductive, StateCoherent, Anchor
<1>5. PendingLeft'
  BY <1>1, UnbrokenExtended DEF Evidence, PendingLeft, TypeOK, PendingTransition
<1>6. TransitionsLink' /\ EntryLinked'
  BY <1>1, LinksKept DEF Evidence
<1> QED BY <1>2, <1>3, <1>4, <1>5, <1>6 DEF Evidence

\* An arrival turns the pending departure into a transition.
LEMMA ArrivalEvidence ==
  ASSUME Evidence, NEW o \in Incoming, ConfirmArrival(o)
  PROVE  Evidence'
<1>1. /\ Consume(o) /\ Continues(o) /\ ~Present /\ WithinPresence(Anchor, o)
      /\ Inductive /\ Inductive' /\ state.phase = "seeking"
      /\ pending # NoPending /\ pending.segment = Anchor.segment
  BY ArrivalStep DEF ConfirmArrival, Present, Evidence, ArrivalMatches
<1>2. /\ o \in Observation /\ TypeOK /\ ~Finished /\ ~Finished'
      /\ state.anchorIdx \in Index /\ state.anchorIdx \in Nat
  BY <1>1, Reading
<1>3. /\ Supported \in PresenceState' /\ Supported.phase = "present"
      /\ Supported.anchorIdx = state.anchorIdx
      /\ Supported.members = <<state.anchorIdx, Now>>
      /\ Supported.moveCandidates = <<>>
  BY <1>1, SupportedState
<1>4. /\ state'.phase = "present" /\ state'.anchorIdx = state.anchorIdx
      /\ state'.members = <<state.anchorIdx, Now>>
      /\ state'.moveCandidates = <<>> /\ state'.enterEvent
  BY <1>3 DEF ConfirmArrival, PresenceState
<1>5. PICK tr : tr = MakeTransition(state.anchorIdx)
  OBVIOUS
<1>6. /\ tr.origin = pending.origin /\ tr.depart = pending.departIdx
      /\ tr.destination = state.anchorIdx
      /\ tr.segment = obs[state.anchorIdx].segment
      /\ Unbroken(tr.depart, tr.destination)
      /\ tr.count = tr.destination - tr.depart + 1
  BY <1>1, <1>2, <1>5, MadeIsSound DEF Evidence
<1>7. tr \in Transition
  BY <1>1, <1>2, <1>5, TransitionType
<1>8. /\ transitions' = Append(transitions, tr) /\ presence' = presence
      /\ pending' = NoPending
  BY <1>5 DEF ConfirmArrival
<1>9. PresencesSound' /\ TransitionsSound'
  BY <1>1, <1>6, <1>7, <1>8, SoundPresences, SoundTransitions DEF Evidence
<1>10. PresencesOrdered'
  BY <1>1, <1>2, <1>4, <1>8, OrderedPresences DEF Evidence
<1>11. OpenPresence'
  BY <1>1, <1>4, PresenceOpens DEF Present
<1>12. NoPresenceMissed'
  BY <1>1, <1>4, <1>8, NoneMissed DEF Present, Inductive, StateCoherent,
     Evidence
<1>13. PendingLeft'
  BY <1>8 DEF PendingLeft
<1>14. TransitionsLink' /\ EntryLinked'
  <2>1. tr.segment = pending.segment /\ Present'
    BY <1>1, <1>4, <1>6 DEF Anchor, Present
  <2> QED BY <1>1, <1>2, <1>4, <1>6, <1>7, <1>8, <2>1, LinksMade DEF Evidence
<1> QED BY <1>1, <1>9, <1>10, <1>11, <1>12, <1>13, <1>14 DEF Evidence

\* A presence asserted without a departure known before it.
LEMMA PresenceEvidence ==
  ASSUME Evidence, NEW o \in Incoming, ConfirmPresence(o)
  PROVE  Evidence'
<1>1. /\ Consume(o) /\ Continues(o) /\ ~Present /\ WithinPresence(Anchor, o)
      /\ Inductive /\ Inductive' /\ state.phase = "seeking"
  BY PresenceStep DEF ConfirmPresence, Present, Evidence
<1>2. /\ state' = Supported /\ presence' = presence
      /\ transitions' = transitions /\ pending' \in {pending, NoPending}
  BY DEF ConfirmPresence
<1>3. /\ state'.phase = "present" /\ state'.anchorIdx = state.anchorIdx
      /\ state'.members = <<state.anchorIdx, Now>>
      /\ state'.moveCandidates = <<>> /\ state'.enterEvent = FALSE
  BY <1>1, <1>2, SupportedState
<1>4. OpenPresence'
  BY <1>1, <1>3, PresenceOpens DEF Present
<1> QED BY <1>1, <1>2, <1>3, <1>4, EvidenceGoingOn DEF Present

\* The search moves its anchor to the fix just read.
LEMMA ReanchorEvidence ==
  ASSUME Evidence, NEW o \in Incoming, Reanchor(o)
  PROVE  Evidence'
<1>1. /\ Consume(o) /\ Continues(o) /\ ~Present /\ ~WithinPresence(Anchor, o)
      /\ Inductive /\ Inductive'
      /\ UNCHANGED <<pending, presence, transitions>>
  BY ReanchorStep DEF Reanchor, Present, Evidence
<1>2. state'.phase = "seeking" /\ state'.anchorIdx = Now
  BY DEF Reanchor, NewAnchor, Evidence, Inductive, TypeOK, PresenceState
<1>3. OpenPresence'
  BY <1>1, <1>2, SearchOpens, Reading DEF Present
<1> QED BY <1>1, <1>2, <1>3, EvidenceGoingOn DEF Present

\* A fix inside joins the open presence.
LEMMA InsideEvidence ==
  ASSUME Evidence, NEW o \in Incoming, RemainInside(o)
  PROVE  Evidence'
<1>1. /\ Consume(o) /\ Continues(o) /\ Present /\ WithinPresence(Anchor, o)
      /\ Inductive /\ Inductive'
      /\ UNCHANGED <<pending, presence, transitions>>
  BY InsideStep DEF RemainInside, Present, Evidence
<1>2. /\ state'.phase = "present" /\ state'.anchorIdx = state.anchorIdx
      /\ state'.members = Append(state.members, Now)
      /\ state'.moveCandidates = <<>> /\ state'.enterEvent = state.enterEvent
  BY DEF RemainInside, Evidence, Inductive, TypeOK, PresenceState
<1>3. OpenPresence'
  BY <1>1, <1>2, PresenceGoesOn DEF Evidence, Present
<1> QED BY <1>1, <1>2, <1>3, EvidenceGoingOn DEF Present

\* A fix outside that confirms nothing becomes the departure candidate.
LEMMA CandidateEvidence ==
  ASSUME Evidence, NEW o \in Incoming, StartCandidate(o) \/ RestartCandidate(o)
  PROVE  Evidence'
<1>1. /\ Consume(o) /\ Continues(o) /\ Present /\ ~WithinPresence(Anchor, o)
      /\ ConfirmMoves
      /\ state.moveCandidates = <<>> \/ WindowExpired(o)
      /\ Inductive /\ Inductive'
      /\ UNCHANGED <<pending, presence, transitions>>
  BY CandidateStep
     DEF StartCandidate, RestartCandidate, Outside, NeedsConfirmation, Present,
         Evidence
<1>2. state' = [state EXCEPT !.moveCandidates = <<Now>>]
  <2>1. CASE StartCandidate(o)
    BY <1>1, Reading, <2>1 DEF StartCandidate
  <2>2. CASE RestartCandidate(o)
    BY <2>2 DEF RestartCandidate
  <2> QED BY <2>1, <2>2
<1>3. /\ state'.phase = "present" /\ state'.anchorIdx = state.anchorIdx
      /\ state'.members = state.members
      /\ state'.moveCandidates = <<Now>> /\ state'.enterEvent = state.enterEvent
  BY <1>1, <1>2 DEF Inductive, TypeOK, PresenceState, Present
<1>4. OpenPresence'
  BY <1>1, <1>3, PresenceGoesOn DEF Evidence, Present
<1> QED BY <1>1, <1>3, <1>4, EvidenceGoingOn DEF Present

\* The end of the input closes the open presence where it stands.
LEMMA FinishEvidence ==
  ASSUME Evidence, Finish
  PROVE  Evidence'
<1>1. /\ Inductive /\ Inductive' /\ TypeOK /\ TypeOK' /\ ~Finished /\ Finished'
      /\ UNCHANGED <<obs, state, pending>>
  BY FinishStep, FinishFinishes DEF Evidence, Inductive, Finish, Finished
<1>2. state.anchorIdx \in Index /\ state.anchorIdx \in Nat
  BY <1>1 DEF TypeOK, PresenceState, Index
<1>3. \A p : Sound(p) => Sound(p)'
  BY <1>1 DEF Sound, ExactEnd, FirstDeparture, DepartureAt, AwayFrom, Unbroken,
              Index
<1>4. \/ presence' = presence
      \/ /\ Present
         /\ \E p : /\ presence' = Append(presence, p) /\ Sound(p)'
                   /\ p.start = state.anchorIdx /\ p.end \in Nat
                   /\ p.start < p.end
  <2>1. CASE Present
    <3>1. PICK p : p = ClosedPresence("dataset_end")
      OBVIOUS
    <3>2. /\ p.start = state.anchorIdx /\ p.end = LastMember
          /\ p.endReason = "dataset_end" /\ p.end \in Nat
          /\ p.entered = state.enterEvent
      BY <1>1, <2>1, <3>1, ClosedFields DEF Index
    <3>3. presence' = Append(presence, p)
      BY <1>1, <2>1, <3>1 DEF Closable, Present, Inductive, StateCoherent,
         Finish
    <3>4. p.start < p.end /\ Unbroken(p.start, p.end) /\ ExactEnd(p)
      <4>1. p.end \in p.start + 1 .. Len(obs) /\ Unbroken(p.start, Len(obs))
              /\ Len(obs) \in Nat
        BY <1>1, <2>1, <3>2 DEF Evidence, OpenPresence, TypeOK
      <4>2. Unbroken(p.start, p.end)
        BY <1>2, <3>2, <4>1, UnbrokenWithin
      <4>3. ExactEnd(p)
        BY <2>1, <3>2 DEF Evidence, OpenPresence, ExactEnd
      <4> QED BY <1>2, <3>2, <4>1, <4>2, <4>3
    <3>5. Sound(p)'
      BY <1>1, <3>2, <3>4
         DEF Sound, ExactEnd, FirstDeparture, DepartureAt, AwayFrom, Unbroken,
             Index
    <3> QED BY <2>1, <3>2, <3>3, <3>4, <3>5
  <2>2. CASE ~Present
    BY <2>2 DEF Finish, Closable, Present
  <2> QED BY <2>1, <2>2
<1>5. \A k \in DOMAIN presence :
        k \in DOMAIN presence' /\ presence'[k] = presence[k]
  BY <1>1, <1>4, RowsKept
<1>6. PresencesSound'
  <2> SUFFICES ASSUME NEW k \in DOMAIN presence' PROVE Sound(presence[k])'
    BY DEF PresencesSound
  <2>1. CASE k \in DOMAIN presence
    BY <1>3, <1>5, <2>1 DEF Evidence, PresencesSound
  <2>2. CASE k \notin DOMAIN presence
    <3>1. PICK p : presence' = Append(presence, p) /\ Sound(p)'
      BY <1>4, <2>2
    <3>2. presence'[k] = p
      BY <1>1, <2>2, <3>1, RowsKept
    <3> QED BY <3>1, <3>2
  <2> QED BY <2>1, <2>2
<1>7. PresencesOrdered'
  BY <1>1, <1>2, <1>4, OrderedPresences DEF Evidence
<1>8. OpenPresence'
  BY <1>1 DEF Evidence, OpenPresence, Present, LastMember, DepartureAt, AwayFrom,
              Unbroken, Index
<1>9. NoPresenceMissed'
  <2>1. \A a, i : Watched(a, i) => Watched(a, i)'
    BY <1>1 DEF Watched, Unbroken, DepartureAt, AwayFrom
  <2>2. ASSUME NEW k \in DOMAIN presence, NEW i, Watched(presence[k].start, i)
        PROVE  k \in DOMAIN presence' /\ Watched(presence[k].start, i)'
    BY <1>5, <2>1, <2>2
  <2>3. ASSUME NEW i, Watched(state.anchorIdx, i)
        PROVE  Watched(state.anchorIdx, i)'
    BY <1>1, <2>1, <2>3
  <2> SUFFICES ASSUME NEW i \in 1 .. Len(obs) - 1,
                      Continues(obs[i + 1]), WithinPresence(obs[i], obs[i + 1])
               PROVE  \/ \E k \in DOMAIN presence' : Watched(presence[k].start, i)'
                      \/ Present' /\ Watched(state.anchorIdx, i)'
    BY <1>1 DEF NoPresenceMissed
  <2>4. CASE Present /\ Watched(state.anchorIdx, i)
    BY <1>1, <2>3, <2>4 DEF Present
  <2>5. ASSUME NEW k \in DOMAIN presence, Watched(presence[k].start, i)
        PROVE  \E j \in DOMAIN presence' : Watched(presence[j].start, i)'
    BY <2>2, <2>5
  <2> QED BY <2>4, <2>5 DEF Evidence, NoPresenceMissed
<1>10. PendingLeft'
  BY <1>1, <1>4 DEF Inductive, StateCoherent, Evidence, PendingLeft, Unbroken
<1>11. TransitionsSound'
  <2>1. /\ DOMAIN transitions' = DOMAIN transitions
        /\ \A t \in DOMAIN transitions :
             /\ transitions[t] \in Transition
             /\ transitions'[t] = Enriched(transitions[t], presence')
    BY <1>1 DEF Finish, TypeOK
  <2>2. ASSUME NEW t \in DOMAIN transitions
        PROVE  /\ transitions'[t].depart = transitions[t].depart
               /\ transitions'[t].destination = transitions[t].destination
               /\ transitions'[t].count = transitions[t].count
    BY <2>1 DEF Enriched, Transition
  <2> QED BY <1>1, <2>1, <2>2 DEF Evidence, TransitionsSound, Unbroken
<1>12. TransitionsLink' /\ EntryLinked'
  BY <1>6, <1>1, <1>7, LinksFinished DEF PresencesSound, Sound, Evidence
<1> QED BY <1>1, <1>6, <1>7, <1>8, <1>9, <1>10, <1>11, <1>12 DEF Evidence

-----------------------------------------------------------------------------
(* The theorems.                                                           *)

\* One observation is evidence of nothing.
LEMMA InitEvidence == Init => Evidence
<1> SUFFICES ASSUME Init PROVE Evidence
  OBVIOUS
<1>1. Inductive
  BY InitInductive
<1>2. Len(obs) = 1
  BY DEF Init
<1>3. /\ presence = <<>> /\ transitions = <<>> /\ pending = NoPending
      /\ state.anchorIdx = 1 /\ ~Present
  BY DEF Init, Seeking, Present
<1>4. DOMAIN presence = {} /\ DOMAIN transitions = {}
  BY <1>3
<1>5. /\ PresencesSound /\ PresencesOrdered /\ PendingLeft /\ TransitionsSound
      /\ TransitionsLink /\ EntryLinked
  BY <1>3, <1>4
     DEF PresencesSound, PresencesOrdered, PendingLeft, TransitionsSound,
         TransitionsLink, EntryLinked
<1>6. OpenPresence /\ NoPresenceMissed
  BY <1>2, <1>3 DEF OpenPresence, NoPresenceMissed, Unbroken
<1> QED BY <1>1, <1>5, <1>6 DEF Evidence

\* Every step preserves the evidence.
LEMMA NextEvidence == Evidence /\ [Next]_vars => Evidence'
<1> SUFFICES ASSUME Evidence, [Next]_vars PROVE Evidence'
  OBVIOUS
<1>1. ASSUME NEW o \in Incoming, ContinuityBreak(o) PROVE Evidence'
  BY <1>1, BreakEvidence
<1>2. ASSUME NEW o \in Incoming, ConfirmArrival(o) PROVE Evidence'
  BY <1>2, ArrivalEvidence
<1>3. ASSUME NEW o \in Incoming, ConfirmPresence(o) PROVE Evidence'
  BY <1>3, PresenceEvidence
<1>4. ASSUME NEW o \in Incoming, Reanchor(o) PROVE Evidence'
  BY <1>4, ReanchorEvidence
<1>5. ASSUME NEW o \in Incoming, RemainInside(o) PROVE Evidence'
  BY <1>5, InsideEvidence
<1>6. ASSUME NEW o \in Incoming, DepartUnconfirmed(o) \/ ConfirmDeparture(o)
      PROVE  Evidence'
  BY <1>6, DepartEvidence
<1>7. ASSUME NEW o \in Incoming, StartCandidate(o) \/ RestartCandidate(o)
      PROVE  Evidence'
  BY <1>7, CandidateEvidence
<1>8. CASE Finish
  BY <1>8, FinishEvidence
<1>9. CASE UNCHANGED vars
  <2>1. UNCHANGED <<obs, state, pending, presence, transitions, result>>
    BY <1>9 DEF vars
  <2>2. Inductive'
    BY NextInductive DEF Evidence
  <2>3. PresencesSound' /\ PresencesOrdered' /\ OpenPresence'
    BY <2>1 DEF Evidence, PresencesSound, PresencesOrdered, OpenPresence, Sound,
                ExactEnd, FirstDeparture, DepartureAt, AwayFrom, Unbroken, Index,
                Present, LastMember, Finished
  <2>4. NoPresenceMissed'
    <3>1. \A a, i : Watched(a, i) <=> Watched(a, i)'
      BY <2>1 DEF Watched, DepartureAt, AwayFrom, Unbroken
    <3>2. \A i : Watched(state.anchorIdx, i) <=> Watched(state.anchorIdx, i)'
      BY <2>1, <3>1
    <3>3. \A k, i : Watched(presence[k].start, i)
                      <=> Watched(presence[k].start, i)'
      BY <2>1, <3>1
    <3> QED BY <2>1, <3>2, <3>3 DEF Evidence, NoPresenceMissed, Present
  <2>5. PendingLeft' /\ TransitionsSound' /\ TransitionsLink' /\ EntryLinked'
    BY <2>1 DEF Evidence, PendingLeft, TransitionsSound, TransitionsLink,
                EntryLinked, Unbroken, Present, Finished
  <2> QED BY <2>2, <2>3, <2>4, <2>5 DEF Evidence
<1> QED BY <1>1, <1>2, <1>3, <1>4, <1>5, <1>6, <1>7, <1>8, <1>9 DEF Next

LEMMA SpecEvidence == Spec => []Evidence
BY InitEvidence, NextEvidence, PTL DEF Spec

\* No claim rests on evidence from both sides of a gap or a discontinuity,
\* however the breaks fall between the fixes of Eventize's loop.
THEOREM EvidenceAlwaysContinuous == Spec => []EvidenceIsContinuous
<1>1. Evidence => EvidenceIsContinuous
  BY DEF Evidence, EvidenceIsContinuous, PresencesSound, Sound, OpenPresence,
         PendingLeft, TransitionsSound
<1> QED BY <1>1, SpecEvidence, PTL

\* The presence intervals Eventize returns are proper, ordered and disjoint,
\* and what it still holds open begins after them.
THEOREM PresencesAlwaysDisjoint == Spec => []PresencesDisjoint
<1>1. Evidence => PresencesDisjoint
  BY DEF Evidence, PresencesDisjoint, PresencesSound, Sound, PresencesOrdered
<1> QED BY <1>1, SpecEvidence, PTL

\* In either departure mode Eventize ends a presence by movement exactly when
\* its observations hold the evidence the mode asks for, at the first of it.
THEOREM DeparturesAlwaysExact == Spec => []DeparturesAreExact
<1>1. Evidence => DeparturesAreExact
  BY DEF Evidence, DeparturesAreExact, PresencesSound, Sound, ExactEnd,
         OpenPresence
<1> QED BY <1>1, SpecEvidence, PTL

\* Two consecutive fixes that support each other are never passed over by the
\* search of Eventize, which re-anchors at every fix.
THEOREM NoPresenceEverMissed == Spec => []NoPresenceMissed
<1>1. Evidence => NoPresenceMissed
  BY DEF Evidence
<1> QED BY <1>1, SpecEvidence, PTL

\* Every transition joins two consecutive presences, and every entered one has
\* its transition, before and after enrichTransitionDestinationSupport.
THEOREM TransitionsAlwaysLink == Spec => []TransitionsLink
<1>1. Evidence => TransitionsLink
  BY DEF Evidence
<1> QED BY <1>1, SpecEvidence, PTL

-----------------------------------------------------------------------------
(* The contract with a reader of the events.                               *)

Statements(es) == [k \in DOMAIN es |-> Statement(es[k])]

\* Statements are made one by one.
LEMMA StatementsOfConcat ==
  ASSUME NEW S, NEW s \in Seq(S), NEW t \in Seq(S)
  PROVE  Statements(s \o t) = Statements(s) \o Statements(t)
<1> DEFINE V == {Statement(e) : e \in S}
           st == s \o t
<1>1. /\ Len(s) \in Nat /\ Len(t) \in Nat
      /\ DOMAIN s = 1 .. Len(s) /\ DOMAIN t = 1 .. Len(t)
  OBVIOUS
<1>2. /\ st \in Seq(S) /\ Len(st) = Len(s) + Len(t)
      /\ DOMAIN st = 1 .. Len(s) + Len(t)
      /\ \A i \in 1 .. Len(s) + Len(t) :
           st[i] = IF i <= Len(s) THEN s[i] ELSE t[i - Len(s)]
  BY ConcatProperties
<1> HIDE DEF st
<1>3. ASSUME NEW u \in Seq(S)
      PROVE  /\ Statements(u) \in Seq(V) /\ Len(Statements(u)) = Len(u)
             /\ \A i \in 1 .. Len(u) : Statements(u)[i] = Statement(u[i])
  <2>1. DOMAIN u = 1 .. Len(u) /\ Len(u) \in Nat
    OBVIOUS
  <2>2. \A i \in 1 .. Len(u) : Statement(u[i]) \in V
    BY <2>1
  <2> HIDE DEF V
  <2>3. Statements(u) = [i \in 1 .. Len(u) |-> Statement(u[i])]
    BY <2>1 DEF Statements
  <2> QED BY <2>1, <2>2, <2>3
<1> HIDE DEF V
<1>4. /\ Statements(s) \in Seq(V) /\ Statements(t) \in Seq(V)
      /\ Len(Statements(s)) = Len(s) /\ Len(Statements(t)) = Len(t)
      /\ Statements(st) \in Seq(V) /\ Len(Statements(st)) = Len(st)
  BY <1>2, <1>3
<1>5. /\ Statements(s) \o Statements(t) \in Seq(V)
      /\ Len(Statements(s) \o Statements(t)) = Len(s) + Len(t)
      /\ \A i \in 1 .. Len(s) + Len(t) :
           (Statements(s) \o Statements(t))[i]
             = IF i <= Len(s) THEN Statements(s)[i] ELSE Statements(t)[i - Len(s)]
  <2>1. PICK p \in Seq(V) : p = Statements(s) /\ Len(p) = Len(s)
    BY <1>4
  <2>2. PICK q \in Seq(V) : q = Statements(t) /\ Len(q) = Len(t)
    BY <1>4
  <2>3. /\ p \o q \in Seq(V) /\ Len(p \o q) = Len(p) + Len(q)
        /\ \A i \in 1 .. Len(p) + Len(q) :
             (p \o q)[i] = IF i <= Len(p) THEN p[i] ELSE q[i - Len(p)]
    BY ConcatProperties
  <2> QED BY <2>1, <2>2, <2>3
<1>6. ASSUME NEW i \in 1 .. Len(s) + Len(t)
      PROVE  Statements(st)[i] = (Statements(s) \o Statements(t))[i]
  <2>1. CASE i <= Len(s)
    <3>1. i \in 1 .. Len(s)
      BY <1>1, <2>1
    <3> QED BY <1>2, <1>3, <1>5, <2>1, <3>1
  <2>2. CASE ~(i <= Len(s))
    <3>1. i - Len(s) \in 1 .. Len(t)
      BY <1>1, <2>2
    <3> QED BY <1>2, <1>3, <1>5, <2>2, <3>1
  <2> QED BY <2>1, <2>2
<1>7. Statements(st) = Statements(s) \o Statements(t)
  BY <1>2, <1>4, <1>5, <1>6, SeqEqual
<1> QED BY <1>7 DEF st

\* The journal is the events' statements, and one event makes one.
LEMMA StatementsOf ==
  /\ Journal = Statements(events)
  /\ Statements(<<>>) = <<>>
  /\ \A e : Statements(<<e>>) = <<Statement(e)>>
  /\ \A d, e : Statements(<<d, e>>) = <<Statement(d), Statement(e)>>
<1>1. Journal = Statements(events)
  BY DEF Journal, Statements
<1>2. Statements(<<>>) = <<>>
  BY DEF Statements
<1>3. ASSUME NEW e PROVE Statements(<<e>>) = <<Statement(e)>>
  <2>1. <<e>> \in Seq({e}) /\ DOMAIN <<e>> = 1 .. 1
    OBVIOUS
  <2>2. Statements(<<e>>) = [i \in 1 .. 1 |-> Statement(<<e>>[i])]
    BY <2>1, Zenon DEF Statements
  <2>3. \A i \in 1 .. 1 : <<e>>[i] = e
    OBVIOUS
  <2>4. Statements(<<e>>) = [i \in 1 .. 1 |-> Statement(e)]
    BY <2>2, <2>3
  <2> HIDE DEF Statements
  <2> QED BY <2>4
<1>4. ASSUME NEW d, NEW e
      PROVE  Statements(<<d, e>>) = <<Statement(d), Statement(e)>>
  <2>1. DOMAIN <<d, e>> = 1 .. 2
    OBVIOUS
  <2>2. Statements(<<d, e>>) = [i \in 1 .. 2 |-> Statement(<<d, e>>[i])]
    BY <2>1, Zenon DEF Statements
  <2>3. <<d, e>>[1] = d /\ <<d, e>>[2] = e
    OBVIOUS
  <2> QED BY <2>2, <2>3
<1> QED BY <1>1, <1>2, <1>3, <1>4

\* The claim and the latest presence before the input has ended.
LEMMA ClaimWhileReading ==
  ASSUME Evidence, ~Finished
  PROVE  /\ Present => /\ OpenClaim = [kind |-> "present", id |-> state.anchorIdx]
                       /\ LatestPresence = state.anchorIdx
         /\ ~Present /\ pending # NoPending =>
              OpenClaim = [kind |-> "departed", id |-> pending.origin]
         /\ ~Present /\ pending = NoPending =>
              OpenClaim = [kind |-> "nothing", id |-> 0]
         /\ ~Present => LatestPresence < state.anchorIdx
         /\ state.anchorIdx \in Nat
<1>1. state.anchorIdx \in Nat /\ 0 < state.anchorIdx
  BY DEF Evidence, Inductive, TypeOK, PresenceState, Index
<1>2. ASSUME ~Present PROVE LatestPresence < state.anchorIdx
  <2>1. CASE presence = <<>>
    BY <1>1, <1>2, <2>1 DEF LatestPresence
  <2>2. CASE presence # <<>>
    <3>1. Len(presence) \in DOMAIN presence
      BY <2>2 DEF Evidence, Inductive, TypeOK
    <3>2. presence[Len(presence)].start \in Nat
            /\ presence[Len(presence)].end \in Nat
      BY <3>1, PresenceFields DEF Evidence, Inductive, Index
    <3>3. /\ presence[Len(presence)].start < presence[Len(presence)].end
          /\ presence[Len(presence)].end < state.anchorIdx
      BY <3>1 DEF Evidence, PresencesSound, Sound, PresencesOrdered
    <3> QED BY <1>1, <1>2, <2>2, <3>2, <3>3 DEF LatestPresence
  <2> QED BY <2>1, <2>2
<1> QED BY <1>1, <1>2 DEF OpenClaim, LatestPresence

\* The presence asserted latest is the same once it is closed.
LEMMA LatestClosed ==
  ASSUME TypeOK, ~Finished, Present, Finished' \/ ~Present',
         NEW p, presence' = Append(presence, p), p.start = state.anchorIdx
  PROVE  LatestPresence' = LatestPresence
<1>1. presence' # <<>> /\ presence'[Len(presence')] = p
  BY RowsKept
<1> QED BY <1>1 DEF LatestPresence

\* The event that closes a presence is the statement the contract closes with.
LEMMA ClosingStatement ==
  ASSUME Evidence, ~Finished, Present, NEW reason \in EndReasons,
         NEW p, p = ClosedPresence(reason)
  PROVE  /\ p.start = state.anchorIdx /\ p.start \in Index
         /\ IntervalEvent(p) \in EventRecord
         /\ Event("LEAVE", p.end, p.start) \in EventRecord
         /\ Contract!Closing = <<Statement(IntervalEvent(p))>>
<1>1. Len(state.members) >= 2
  BY DEF Evidence, Inductive, StateCoherent
<1>2. /\ p \in [start : Index, end : Index, segment : Nat \ {0},
                count : Nat, class : {"STAY", "DWELL"},
                startReason : StartReasons, endReason : EndReasons,
                entered : BOOLEAN, centroid : {p.centroid}]
      /\ IntervalEvent(p) \in EventRecord
      /\ Event("LEAVE", p.end, p.start) \in EventRecord
  BY <1>1, ClosedType DEF Evidence, Inductive
<1>3. p.start = state.anchorIdx /\ p.start \in Index /\ p.class \in {"STAY", "DWELL"}
  BY <1>2, ClosedFields DEF Evidence
<1>4. Statement(IntervalEvent(p)) = <<"INTERVAL", state.anchorIdx>>
  BY <1>3 DEF Statement, IntervalEvent, Event
<1>5. Contract!Closing = <<<<"INTERVAL", state.anchorIdx>>>>
  BY ClaimWhileReading DEF Contract!Closing
<1> QED BY <1>2, <1>3, <1>4, <1>5

\* Nothing is closed where no presence is open.
LEMMA NothingToClose ==
  ASSUME Evidence, ~Finished, ~Present
  PROVE  Contract!Closing = <<>>
BY ClaimWhileReading DEF Contract!Closing

\* The anchor is one of at most MaxObs observations.
LEMMA ReadWithinBound ==
  ASSUME Inductive, NEW o \in Incoming, Consume(o)
  PROVE  state.anchorIdx \in 1 .. MaxObs
<1>1. /\ state.anchorIdx \in Index /\ state.anchorIdx <= Len(obs)
      /\ Len(obs) \in Nat
  BY Reading
<1>2. Len(obs) < MaxObs /\ MaxObs \in Nat
  BY ConfigAssumption DEF Incoming
<1> QED BY <1>1, <1>2 DEF Index

\* The journal grows by the statements of the events appended.
LEMMA JournalGrows ==
  ASSUME NEW S, events \in Seq(S), NEW es \in Seq(S), events' = events \o es
  PROVE  Journal' = Journal \o Statements(es)
<1>1. Journal' = Statements(events')
  BY DEF Journal, Statements
<1>2. Statements(events \o es) = Statements(events) \o Statements(es)
  BY StatementsOfConcat
<1> QED BY <1>1, <1>2, StatementsOf

\* Concatenations regroup, and two events in a row are a pair.
LEMMA Regroup ==
  ASSUME NEW S
  PROVE  /\ \A s, t, u \in Seq(S) : (s \o t) \o u = s \o (t \o u)
         /\ \A s, t \in Seq(S) : s \o t \in Seq(S)
<1>1. ASSUME NEW s \in Seq(S), NEW t \in Seq(S), NEW u \in Seq(S)
      PROVE  (s \o t) \o u = s \o (t \o u)
  BY ConcatAssociative
<1>2. \A s, t \in Seq(S) : s \o t \in Seq(S)
  BY ConcatProperties
<1> QED BY <1>1, <1>2, Zenon

LEMMA PairOf ==
  ASSUME NEW S, NEW d \in S, NEW e \in S
  PROVE  /\ <<d>> \o <<e>> = <<d, e>> /\ <<d>> \o <<>> = <<d>>
         /\ <<>> \o <<d>> = <<d>>
<1>1. <<d>> \in Seq(S) /\ <<e>> \in Seq(S)
  OBVIOUS
<1>2. \A s \in Seq(S) : s \o <<>> = s /\ <<>> \o s = s
  BY ConcatEmptySeq
<1>3. \A s \in Seq(S) : Append(s, e) = s \o <<e>>
  BY AppendIsConcat
<1>4. Append(<<d>>, e) = <<d, e>>
  <2>1. PICK s \in Seq(S) : s = <<d>>
    BY <1>1
  <2>2. PICK p \in Seq(S) :
          p = Append(s, e) /\ Len(p) = Len(s) + 1
            /\ p[Len(s) + 1] = e /\ \A i \in 1 .. Len(s) : p[i] = s[i]
    <3>1. Append(s, e) \in Seq(S) /\ Len(Append(s, e)) = Len(s) + 1
            /\ Append(s, e)[Len(s) + 1] = e
            /\ \A i \in 1 .. Len(s) : Append(s, e)[i] = s[i]
      BY AppendProperties
    <3> QED BY <3>1, Zenon
  <2>3. Len(s) = 1 /\ s[1] = d
    BY <2>1
  <2>4. Len(p) = 2 /\ p[1] = d /\ p[2] = e
    BY <2>2, <2>3
  <2>5. PICK q \in Seq(S) : q = <<d, e>> /\ Len(q) = 2 /\ q[1] = d /\ q[2] = e
    <3>1. <<d, e>> \in Seq(S) /\ Len(<<d, e>>) = 2
            /\ <<d, e>>[1] = d /\ <<d, e>>[2] = e
      OBVIOUS
    <3> QED BY <3>1, Zenon
  <2>6. p = q
    BY <2>4, <2>5
  <2> QED BY <2>1, <2>2, <2>5, <2>6, Zenon
<1>5. <<d>> \o <<>> = <<d>>
  BY <1>1, <1>2, Zenon
<1>6. <<>> \o <<d>> = <<d>>
  BY <1>1, <1>2, Zenon
<1>7. Append(<<d>>, e) = <<d>> \o <<e>>
  BY <1>1, <1>3, Zenon
<1>8. <<d>> \o <<e>> = <<d, e>>
  BY <1>4, <1>7, Zenon
<1> QED BY <1>5, <1>6, <1>8, Zenon

\* A break closes the open presence, if any, and drops every claim.
LEMMA BreakKeepsContract ==
  ASSUME Evidence, Evidence', NEW o \in Incoming, ContinuityBreak(o)
  PROVE  Contract!Break
<1> DEFINE reason == IF o.disc THEN "discontinuity" ELSE "gap"
           A == IF Closable THEN <<IntervalEvent(ClosedPresence(reason))>> ELSE <<>>
           B == IF o.gap  THEN <<Event("GAP", Now, 0)>> ELSE <<>>
           C == IF o.disc THEN <<Event("DISCONTINUITY", Now, 0)>> ELSE <<>>
<1>1. Consume(o) /\ (o.gap \/ o.disc) /\ reason \in EndReasons
  BY DEF ContinuityBreak, EndReasons
<1>2. TypeOK /\ ~Finished /\ ~Finished' /\ o \in Observation
  BY <1>1, Reading DEF Evidence
<1>3. ~Present' /\ pending' = NoPending
  BY DEF ContinuityBreak, Seeking, Present, PendingAfterBreak
<1>4. OpenClaim' = Contract!Nothing
  BY <1>2, <1>3 DEF OpenClaim, Contract!Nothing
<1>5. Closable <=> Present
  BY DEF Closable, Present, Evidence, Inductive, StateCoherent
<1>6. events' = events \o A \o B \o C
  BY DEF ContinuityBreak
<1>7. /\ A \in Seq(EventRecord') /\ Statements(A) = Contract!Closing
      /\ LatestPresence' = LatestPresence
  <2>1. CASE Present
    <3>1. PICK p : p = ClosedPresence(reason)
      OBVIOUS
    <3>2. presence' = Append(presence, p)
      BY <1>5, <2>1, <3>1 DEF ContinuityBreak
    <3>3. /\ p.start = state.anchorIdx /\ IntervalEvent(p) \in EventRecord
          /\ Contract!Closing = <<Statement(IntervalEvent(p))>>
      BY <1>1, <1>2, <2>1, <3>1, ClosingStatement
    <3>4. LatestPresence' = LatestPresence
      BY <1>2, <1>3, <2>1, <3>2, <3>3, LatestClosed
    <3>5. A = <<IntervalEvent(p)>>
      BY <1>5, <2>1, <3>1
    <3>6. EventRecord \subseteq EventRecord'
      BY <1>1, <1>2, Grown DEF EventRecord
    <3> QED BY <3>3, <3>4, <3>5, <3>6, StatementsOf
  <2>2. CASE ~Present
    BY <1>5, <2>2, <1>3, <1>2, NothingToClose, StatementsOf DEF ContinuityBreak,
       LatestPresence
  <2> QED BY <2>1, <2>2
<1>8. /\ B \in Seq(EventRecord') /\ C \in Seq(EventRecord')
      /\ B \o C \in {<<Event("GAP", Now, 0)>>, <<Event("DISCONTINUITY", Now, 0)>>,
                     <<Event("GAP", Now, 0), Event("DISCONTINUITY", Now, 0)>>}
  <2>1. /\ Event("GAP", Now, 0) \in EventRecord'
        /\ Event("DISCONTINUITY", Now, 0) \in EventRecord'
    BY <1>1, <1>2, Grown DEF Event, EventRecord
  <2> DEFINE gap == Event("GAP", Now, 0)
             dis == Event("DISCONTINUITY", Now, 0)
  <2> HIDE DEF gap, dis
  <2>2. gap \in EventRecord' /\ dis \in EventRecord'
    BY <2>1 DEF gap, dis
  <2>3. /\ <<gap>> \o <<>> = <<gap>> /\ <<>> \o <<dis>> = <<dis>>
        /\ <<gap>> \o <<dis>> = <<gap, dis>>
    BY <2>2, PairOf
  <2>4. B = (IF o.gap THEN <<gap>> ELSE <<>>) /\ C = (IF o.disc THEN <<dis>> ELSE <<>>)
    BY DEF gap, dis
  <2> HIDE DEF B, C
  <2>5. B \in Seq(EventRecord') /\ C \in Seq(EventRecord')
    BY <2>2, <2>4
  <2>6. B \o C \in {<<gap>>, <<dis>>, <<gap, dis>>}
    BY <1>1, <2>3, <2>4
  <2> QED BY <2>5, <2>6 DEF gap, dis
<1>9. events \in Seq(EventRecord')
  BY <1>1, <1>2, Grown DEF TypeOK
<1> HIDE DEF A, B, C, reason
<1>10. PICK breaks \in Seq(EventRecord') :
         /\ breaks = B \o C
         /\ Statements(breaks) \in {<<<<"BREAK", 0>>>>,
                                    <<<<"BREAK", 0>>, <<"BREAK", 0>>>>}
  <2>1. B \o C \in Seq(EventRecord')
    BY <1>8, ConcatProperties
  <2>2. /\ Statement(Event("GAP", Now, 0)) = <<"BREAK", 0>>
        /\ Statement(Event("DISCONTINUITY", Now, 0)) = <<"BREAK", 0>>
    BY DEF Statement, Event
  <2> QED BY <1>8, <2>1, <2>2, StatementsOf
<1>11. events' = events \o (A \o breaks) /\ A \o breaks \in Seq(EventRecord')
  <2>0. PICK R : R = EventRecord'
    OBVIOUS
  <2>1. /\ \A s, t, u \in Seq(R) : (s \o t) \o u = s \o (t \o u)
        /\ \A s, t \in Seq(R) : s \o t \in Seq(R)
    BY Regroup
  <2>2. ((events \o A) \o B) \o C = events \o (A \o (B \o C))
    <3>1. events \in Seq(R) /\ A \in Seq(R) /\ B \in Seq(R) /\ C \in Seq(R)
      BY <1>7, <1>8, <1>9, <2>0, Zenon
    <3>2. PICK ea \in Seq(R) : ea = events \o A
      BY <2>1, <3>1, Zenon
    <3>3. PICK bc \in Seq(R) : bc = B \o C
      BY <2>1, <3>1, Zenon
    <3>4. \A t, u \in Seq(R) : (ea \o t) \o u = ea \o (t \o u)
      BY <2>1, Zenon
    <3>5. \A t, u \in Seq(R) : (events \o t) \o u = events \o (t \o u)
      BY <2>1, <3>1, Zenon
    <3>6. (ea \o B) \o C = ea \o (B \o C)
      BY <3>1, <3>4, Zenon
    <3>7. (events \o A) \o bc = events \o (A \o bc)
      BY <3>1, <3>5, Zenon
    <3> QED BY <3>2, <3>3, <3>6, <3>7, Zenon
  <2>3. A \o breaks \in Seq(EventRecord')
    BY <1>7, ConcatProperties
  <2> QED BY <1>6, <1>10, <2>2, <2>3, Zenon
<1>12. Journal' = Journal \o (Contract!Closing \o Statements(breaks))
  BY <1>9, <1>11, JournalGrows, <1>7, <1>10, StatementsOfConcat
<1> QED BY <1>4, <1>7, <1>10, <1>12 DEF Contract!Break, Contract!Say

\* A presence asserted while a departure is pending is the arrival it awaits.
LEMMA ArrivalKeepsContract ==
  ASSUME Evidence, Evidence', NEW o \in Incoming, ConfirmArrival(o)
  PROVE  \E id \in 1 .. MaxObs : Contract!Arrive(id)
<1>1. /\ Consume(o) /\ ~Present /\ state.phase = "seeking"
      /\ pending # NoPending /\ Inductive
  BY DEF ConfirmArrival, Present, ArrivalMatches, Evidence
<1>2. /\ o \in Observation /\ TypeOK /\ ~Finished /\ ~Finished'
      /\ state.anchorIdx \in Index
  BY <1>1, Reading
<1>3. state.anchorIdx \in 1 .. MaxObs
  BY <1>1, ReadWithinBound
<1>4. Present' /\ state'.anchorIdx = state.anchorIdx
  BY <1>1, SupportedState DEF ConfirmArrival, PresenceState, Present
<1>5. OpenClaim.kind = "departed" /\ state.anchorIdx > LatestPresence
  BY <1>1, <1>2, ClaimWhileReading
<1>6. /\ OpenClaim' = Contract!PresentAt(state.anchorIdx)
      /\ LatestPresence' = state.anchorIdx
  BY <1>2, <1>4 DEF OpenClaim, LatestPresence, Contract!PresentAt
<1>7. PICK e \in EventRecord' :
         /\ e = Event("ENTER", state.anchorIdx, state.anchorIdx)
         /\ events' = events \o <<e>> /\ <<e>> \in Seq(EventRecord')
         /\ events \in Seq(EventRecord')
  <2>1. PICK e : e = Event("ENTER", state.anchorIdx, state.anchorIdx)
    OBVIOUS
  <2>2. e \in EventRecord'
    BY <1>1, <1>2, Grown, <2>1 DEF Event, EventRecord
  <2>3. events \in Seq(EventRecord') /\ events' = Append(events, e)
    BY <1>1, <1>2, <2>1, Grown DEF TypeOK, ConfirmArrival
  <2>4. events' = events \o <<e>>
    BY <2>2, <2>3, AppendIsConcat
  <2>5. <<e>> \in Seq(EventRecord')
    BY <2>2
  <2> QED BY <2>1, <2>2, <2>3, <2>4, <2>5
<1>8. Statement(e) = <<"ENTER", state.anchorIdx>>
  BY <1>7 DEF Statement, Event
<1>9. Journal' = Journal \o <<<<"ENTER", state.anchorIdx>>>>
  BY <1>7, <1>8, JournalGrows, StatementsOf
<1> QED BY <1>3, <1>5, <1>6, <1>9 DEF Contract!Arrive, Contract!Say

\* Any other presence is asserted in silence, with no claim before it.
LEMMA PresenceKeepsContract ==
  ASSUME Evidence, Evidence', NEW o \in Incoming, ConfirmPresence(o)
  PROVE  \E id \in 1 .. MaxObs : Contract!Assert(id)
<1>1. /\ Consume(o) /\ ~Present /\ state.phase = "seeking" /\ Inductive
      /\ state' = Supported /\ events' = events
  BY DEF ConfirmPresence, Present, Evidence
<1>2. /\ TypeOK /\ ~Finished /\ ~Finished'
      /\ state.anchorIdx \in 1 .. MaxObs
  BY <1>1, Reading, ReadWithinBound
<1>3. pending = NoPending
  BY <1>1 DEF ConfirmPresence, ArrivalMatches, StateCoherent, Present, Anchor,
              Inductive
<1>4. Present' /\ state'.anchorIdx = state.anchorIdx
  BY <1>1, SupportedState DEF Present
<1>5. OpenClaim = Contract!Nothing /\ state.anchorIdx > LatestPresence
  BY <1>1, <1>2, <1>3, ClaimWhileReading DEF Contract!Nothing
<1>6. /\ OpenClaim' = Contract!PresentAt(state.anchorIdx)
      /\ LatestPresence' = state.anchorIdx
  BY <1>2, <1>4 DEF OpenClaim, LatestPresence, Contract!PresentAt
<1>7. Journal' = Journal
  BY <1>1 DEF Journal
<1> QED BY <1>2, <1>5, <1>6, <1>7 DEF Contract!Assert

\* The departure closes the presence and remembers where it left.
LEMMA DepartKeepsContract ==
  ASSUME Evidence, Evidence', NEW o \in Incoming,
         DepartUnconfirmed(o) \/ ConfirmDeparture(o)
  PROVE  Contract!Leave
<1>1. Consume(o) /\ Outside(o) /\ Present /\ \E S : Depart(S)
  BY DEF DepartUnconfirmed, ConfirmDeparture, Outside, Present
<1>2. /\ o \in Observation /\ TypeOK /\ ~Finished /\ ~Finished' /\ Inductive
      /\ state.anchorIdx \in Nat /\ 0 < state.anchorIdx
  BY <1>1, Reading DEF Evidence, TypeOK, PresenceState, Index
<1>3. PICK p : p = ClosedPresence("confirmed_movement")
  OBVIOUS
<1>4. /\ p.start = state.anchorIdx /\ IntervalEvent(p) \in EventRecord
      /\ Event("LEAVE", p.end, p.start) \in EventRecord
      /\ Contract!Closing = <<Statement(IntervalEvent(p))>>
  BY <1>1, <1>2, <1>3, ClosingStatement DEF EndReasons
<1>5. /\ presence' = Append(presence, p)
      /\ events' = events \o <<IntervalEvent(p), Event("LEAVE", p.end, p.start)>>
      /\ pending' = [origin |-> p.start, segment |-> p.segment,
                     departIdx |-> p.end]
      /\ ~Present'
  BY <1>1, <1>3 DEF Depart, Seeking, Present
<1>6. LatestPresence' = LatestPresence
  BY <1>1, <1>2, <1>4, <1>5, LatestClosed
<1>7. OpenClaim = [kind |-> "present", id |-> state.anchorIdx]
  BY <1>1, <1>2, ClaimWhileReading
<1>8. OpenClaim' = Contract!DepartedAt(OpenClaim.id)
  BY <1>2, <1>4, <1>5, <1>7 DEF NoPending, OpenClaim, Contract!DepartedAt
<1>9. PICK a \in EventRecord', b \in EventRecord' :
         a = IntervalEvent(p) /\ b = Event("LEAVE", p.end, p.start)
  <2>1. EventRecord \subseteq EventRecord'
    BY <1>1, <1>2, Grown DEF EventRecord
  <2> QED BY <1>4, <2>1
<1>10. Statement(b) = <<"LEAVE", OpenClaim.id>>
  BY <1>4, <1>7, <1>9 DEF Statement, Event
<1>11. <<a, b>> \in Seq(EventRecord') /\ events \in Seq(EventRecord')
       /\ events' = events \o <<a, b>>
  BY <1>1, <1>2, <1>5, <1>9, Grown DEF TypeOK
<1>12. Journal' = Journal \o <<Statement(a), Statement(b)>>
  BY <1>11, JournalGrows, StatementsOf
<1>13. <<Statement(a)>> \o <<Statement(b)>> = <<Statement(a), Statement(b)>>
  <2>1. PICK V : V = {Statement(a), Statement(b)}
    OBVIOUS
  <2> QED BY <2>1, PairOf
<1>14. Journal' = Journal \o (Contract!Closing \o <<<<"LEAVE", OpenClaim.id>>>>)
  BY <1>4, <1>9, <1>10, <1>12, <1>13, Zenon
<1> QED BY <1>6, <1>7, <1>8, <1>14 DEF Contract!Leave, Contract!Say

\* A step that opens and closes nothing says nothing.
LEMMA SilentStep ==
  ASSUME ~Finished, ~Finished', Present' <=> Present,
         Present => state'.anchorIdx = state.anchorIdx,
         UNCHANGED <<pending, presence, events>>
  PROVE  UNCHANGED Contract!contractVars
<1>1. OpenClaim' = OpenClaim
  BY DEF OpenClaim
<1>2. LatestPresence' = LatestPresence
  BY DEF LatestPresence
<1>3. Journal' = Journal
  BY DEF Journal
<1> QED BY <1>1, <1>2, <1>3 DEF Contract!contractVars

\* The search, a fix inside and a candidate are the eventizer's own business.
LEMMA SearchIsSilent ==
  ASSUME Evidence, NEW o \in Incoming,
         Reanchor(o) \/ RemainInside(o) \/ StartCandidate(o) \/ RestartCandidate(o)
  PROVE  UNCHANGED Contract!contractVars
<1>1. Consume(o) /\ UNCHANGED <<pending, presence, events>>
  BY DEF Reanchor, RemainInside, StartCandidate, RestartCandidate
<1>2. ~Finished /\ ~Finished' /\ state \in PresenceState
  BY <1>1, Reading DEF Evidence, Inductive, TypeOK
<1>3. /\ Present' <=> Present
      /\ Present => state'.anchorIdx = state.anchorIdx
  BY <1>2 DEF Reanchor, RemainInside, StartCandidate, RestartCandidate, Outside,
              PresenceState, Present
<1> QED BY <1>1, <1>2, <1>3, SilentStep

\* The end of the data closes what is open and leaves no claim.
LEMMA FinishKeepsContract ==
  ASSUME Evidence, Evidence', Finish
  PROVE  Contract!End
<1> DEFINE A == IF Closable THEN <<IntervalEvent(ClosedPresence("dataset_end"))>>
                ELSE <<>>
           e == Event("END", Len(obs), 0)
<1>1. /\ Inductive /\ TypeOK /\ ~Finished /\ Finished'
      /\ UNCHANGED <<obs, state, pending>>
  BY FinishFinishes DEF Evidence, Inductive, Finish, Finished
<1>2. Closable <=> Present
  BY DEF Closable, Present, Evidence, Inductive, StateCoherent
<1>3. events' = (events \o A) \o <<e>>
  BY DEF Finish
<1>4. /\ A \in Seq(EventRecord) /\ Statements(A) = Contract!Closing
      /\ LatestPresence' = LatestPresence
  <2>1. CASE Present
    <3>1. PICK p : p = ClosedPresence("dataset_end")
      OBVIOUS
    <3>2. presence' = Append(presence, p)
      BY <1>2, <2>1, <3>1 DEF Finish
    <3>3. /\ p.start = state.anchorIdx /\ IntervalEvent(p) \in EventRecord
          /\ Contract!Closing = <<Statement(IntervalEvent(p))>>
      BY <1>1, <2>1, <3>1, ClosingStatement DEF EndReasons
    <3>4. LatestPresence' = LatestPresence
      BY <1>1, <2>1, <3>2, <3>3, LatestClosed
    <3>5. A = <<IntervalEvent(p)>>
      BY <1>2, <2>1, <3>1
    <3> QED BY <3>3, <3>4, <3>5, StatementsOf
  <2>2. CASE ~Present
    BY <1>2, <2>2, <1>1, NothingToClose, StatementsOf DEF Finish, LatestPresence
  <2> QED BY <2>1, <2>2
<1>5. OpenClaim' = Contract!Nothing
  BY <1>1 DEF OpenClaim, Contract!Nothing
<1>6. e \in EventRecord /\ Statement(e) = <<"END", 0>>
  <2>1. Len(obs) \in Index
    BY <1>1 DEF TypeOK, Index
  <2> QED BY <2>1 DEF Event, EventRecord, Statement
<1>7. events \in Seq(EventRecord) /\ <<e>> \in Seq(EventRecord)
  BY <1>1, <1>6 DEF TypeOK
<1> HIDE DEF A, e
<1>8. events' = events \o (A \o <<e>>) /\ A \o <<e>> \in Seq(EventRecord)
  <2>1. \A t, u \in Seq(EventRecord) : (events \o t) \o u = events \o (t \o u)
    BY <1>7, Regroup
  <2>2. (events \o A) \o <<e>> = events \o (A \o <<e>>)
    BY <1>4, <1>7, <2>1, Zenon
  <2>3. A \o <<e>> \in Seq(EventRecord)
    BY <1>4, <1>7, ConcatProperties
  <2> QED BY <1>3, <2>2, <2>3, Zenon
<1>9. Statements(A \o <<e>>) = Contract!Closing \o <<<<"END", 0>>>>
  <2>1. Statements(A \o <<e>>) = Statements(A) \o Statements(<<e>>)
    BY <1>4, <1>7, StatementsOfConcat
  <2> QED BY <1>4, <1>6, <2>1, StatementsOf
<1>10. Journal' = Journal \o (Contract!Closing \o <<<<"END", 0>>>>)
  BY <1>7, <1>8, <1>9, JournalGrows
<1> QED BY <1>4, <1>5, <1>10 DEF Contract!End, Contract!Say

LEMMA InitKeepsContract == Init => Contract!Begin
<1> SUFFICES ASSUME Init PROVE Contract!Begin
  OBVIOUS
<1>1. ~Finished /\ ~Present /\ pending = NoPending /\ presence = <<>>
  BY DEF Init, Finished, Present, Seeking
<1>2. OpenClaim = Contract!Nothing /\ LatestPresence = 0
  BY <1>1 DEF OpenClaim, LatestPresence, Contract!Nothing
<1>3. Journal = <<<<"START", 0>>>>
  <2>1. events = <<Event("START", 1, 0)>>
    BY DEF Init
  <2>2. Statement(Event("START", 1, 0)) = <<"START", 0>>
    BY DEF Statement, Event
  <2> QED BY <2>1, <2>2, StatementsOf
<1> QED BY <1>2, <1>3 DEF Contract!Begin

\* Every step maps to a step of the contract or to a stutter.
LEMMA NextKeepsContract ==
  ASSUME Evidence, Evidence', [Next]_vars
  PROVE  [Contract!ContractNext]_(Contract!contractVars)
<1>1. ASSUME NEW o \in Incoming, ContinuityBreak(o) PROVE Contract!ContractNext
  BY <1>1, BreakKeepsContract DEF Contract!ContractNext
<1>2. ASSUME NEW o \in Incoming, ConfirmArrival(o) PROVE Contract!ContractNext
  BY <1>2, ArrivalKeepsContract DEF Contract!ContractNext
<1>3. ASSUME NEW o \in Incoming, ConfirmPresence(o) PROVE Contract!ContractNext
  BY <1>3, PresenceKeepsContract DEF Contract!ContractNext
<1>4. ASSUME NEW o \in Incoming,
             \/ Reanchor(o) \/ RemainInside(o)
             \/ StartCandidate(o) \/ RestartCandidate(o)
      PROVE  UNCHANGED Contract!contractVars
  BY <1>4, SearchIsSilent
<1>5. ASSUME NEW o \in Incoming, DepartUnconfirmed(o) \/ ConfirmDeparture(o)
      PROVE  Contract!ContractNext
  BY <1>5, DepartKeepsContract DEF Contract!ContractNext
<1>6. CASE Finish
  BY <1>6, FinishKeepsContract DEF Contract!ContractNext
<1>7. CASE UNCHANGED vars
  BY <1>7 DEF vars, Contract!contractVars, OpenClaim, LatestPresence, Journal,
              Finished, Present
<1> QED BY <1>1, <1>2, <1>3, <1>4, <1>5, <1>6, <1>7 DEF Next

\* The eventizer keeps its contract with the reader of its events for every
\* input and every configuration: an ENTER only from a known departure, a
\* LEAVE only from the presence it closes, no claim left by a break or the end.
THEOREM ContractImplemented == Spec => ImplementsContract
<1>1. Evidence /\ Evidence' /\ [Next]_vars
        => [Contract!ContractNext]_(Contract!contractVars)
  BY NextKeepsContract
<1> QED BY <1>1, InitKeepsContract, SpecEvidence, PTL
        DEF Spec, ImplementsContract, Contract!ContractSpec

-----------------------------------------------------------------------------
(* The published timeline: the events before they are sorted.              *)

\* One of the events es is e.
Said(es, e) == \E k \in DOMAIN es : es[k] = e

\* Two events no order of time and rank tells apart.
SameKey(d, e) == d.at = e.at /\ Rank(d.source) = Rank(e.source)

\* Earlier in time, or at one observation of lower rank.
Earlier(d, e) == d.at < e.at \/ (d.at = e.at /\ Rank(d.source) < Rank(e.source))

\* The kinds of event.
Source == {"START", "ENTER", "STAY", "DWELL", "LEAVE", "GAP", "DISCONTINUITY", "END"}

\* No event needs its id to be sorted.
KeysDiffer(es) == \A j, k \in DOMAIN es : j < k => ~SameKey(es[j], es[k])

\* What one event says is so.
Stated(e) ==
  /\ e.source = "GAP" => obs[e.at].gap
  /\ e.source = "DISCONTINUITY" => obs[e.at].disc
  /\ e.source = "END" => Finished
  /\ IsInterval(e) => \E k \in DOMAIN presence : e = IntervalEvent(presence[k])
  /\ e.source = "LEAVE" =>
       \E k \in DOMAIN presence :
         /\ presence[k].endReason = "confirmed_movement"
         /\ e.at = presence[k].end /\ e.presence = presence[k].start
  /\ e.source = "ENTER" =>
       /\ e.presence = e.at
       /\ \/ \E k \in DOMAIN presence : presence[k].entered /\ presence[k].start = e.at
          \/ ~Finished /\ Present /\ state.enterEvent /\ state.anchorIdx = e.at

\* A closed presence has its interval event, and its LEAVE if it was left.
Recorded(p) ==
  /\ Said(events, IntervalEvent(p))
  /\ p.endReason = "confirmed_movement" =>
       Said(events, Event("LEAVE", p.end, p.start))

\* The events are statements about the records, each made once.
Chronicle ==
  /\ KeysDiffer(events)
  /\ \A k \in DOMAIN events : Stated(events[k])
  /\ Said(events, Event("START", 1, 0))
  /\ Finished => Said(events, Event("END", Len(obs), 0))
  /\ \A k \in DOMAIN presence : Recorded(presence[k])

\* Time passes from each observation to the next.
Clock == \A i, j \in Index : i < j => obs[i].ts < obs[j].ts

\* What Eventize returns is the events, in the order of time and rank.
InOrder ==
  Finished =>
    /\ result.events \in Seq(EventRecord)
    /\ \A j, k \in DOMAIN result.events :
         j < k <=> Earlier(result.events[j], result.events[k])
    /\ \A e : Said(result.events, e) <=> Said(events, e)

-----------------------------------------------------------------------------
(* Sorting.                                                                *)

\* What the order R puts before k, the place that gives it, the events with
\* their places, and the events es each in its place.
Below(D, R, k) == {j \in D : <<j, k>> \in R}
PlaceIn(D, R) == [k \in D |-> Cardinality(Below(D, R, k)) + 1]
Placed(D, place) == {<<k, place[k]>> : k \in D}
Arranged(es, places) ==
  [m \in DOMAIN es |-> es[(CHOOSE p \in places : p[2] = m)[1]]]

StrictOrder(D, R) ==
  /\ \A j \in D : <<j, j>> \notin R
  /\ \A j, k \in D : j # k => <<j, k>> \in R \/ <<k, j>> \in R
  /\ \A i, j, k \in D : <<i, j>> \in R /\ <<j, k>> \in R => <<i, k>> \in R

\* Places are taken once each, in the order R.
PlacedBy(D, R) ==
  /\ PlaceIn(D, R) \in [D -> D]
  /\ \A j, k \in D : <<j, k>> \in R <=> PlaceIn(D, R)[j] < PlaceIn(D, R)[k]
  /\ \A m \in D : \E k \in D : PlaceIn(D, R)[k] = m

\* In a strict total order of 1 .. n, counting what comes before gives each
\* its place.
LEMMA PlacesOf ==
  ASSUME NEW n \in Nat, NEW D, D = 1 .. n, NEW R, StrictOrder(D, R)
  PROVE  PlacedBy(D, R)
<1> DEFINE place == PlaceIn(D, R)
<1>0. /\ \A j \in D : <<j, j>> \notin R
      /\ \A j, k \in D : j # k => <<j, k>> \in R \/ <<k, j>> \in R
      /\ \A i, j, k \in D : <<i, j>> \in R /\ <<j, k>> \in R => <<i, k>> \in R
  BY DEF StrictOrder
<1>1. IsFiniteSet(D) /\ Cardinality(D) = n
  BY FS_Interval
<1>2. ASSUME NEW k \in D
      PROVE  /\ IsFiniteSet(Below(D, R, k)) /\ Cardinality(Below(D, R, k)) \in Nat
             /\ Cardinality(Below(D, R, k)) < n
  <2>1. Below(D, R, k) \subseteq D /\ k \in D /\ k \notin Below(D, R, k)
    BY <1>0 DEF Below
  <2>2. PICK B : B = Below(D, R, k)
    OBVIOUS
  <2>3. IsFiniteSet(B) /\ Cardinality(B) <= n /\ (Cardinality(D) = Cardinality(B) => D = B)
    BY <1>1, <2>1, <2>2, FS_Subset
  <2>4. Cardinality(B) \in Nat /\ Cardinality(B) # n
    BY <1>1, <2>1, <2>2, <2>3, FS_CardinalityType
  <2> QED BY <2>2, <2>3, <2>4
<1>3. DOMAIN place = D /\ \A k \in D : place[k] = Cardinality(Below(D, R, k)) + 1
  BY DEF PlaceIn
<1> HIDE DEF place
<1>4. place \in [D -> D]
  <2>1. place = [k \in D |-> place[k]]
    BY DEF PlaceIn, place
  <2>2. ASSUME NEW k \in D PROVE place[k] \in D
    <3>1. PICK c : c = Cardinality(Below(D, R, k))
      OBVIOUS
    <3>2. c \in Nat /\ c < n /\ place[k] = c + 1
      BY <1>2, <1>3, <3>1, Zenon
    <3> QED BY <3>2
  <2> QED BY <2>1, <2>2
<1>5. ASSUME NEW j \in D, NEW k \in D, <<j, k>> \in R
      PROVE  place[j] < place[k]
  <2>1. Below(D, R, j) \subseteq Below(D, R, k) /\ j \in Below(D, R, k) /\ j \notin Below(D, R, j)
    BY <1>0, <1>5 DEF Below
  <2>2. PICK A, B : A = Below(D, R, j) /\ B = Below(D, R, k)
    OBVIOUS
  <2>3. /\ IsFiniteSet(A) /\ IsFiniteSet(B)
        /\ Cardinality(A) \in Nat /\ Cardinality(B) \in Nat
    BY <1>2, <2>2
  <2>4. place[j] = Cardinality(A) + 1 /\ place[k] = Cardinality(B) + 1
    BY <1>3, <2>2
  <2>5. A \in SUBSET B /\ A # B
    BY <2>1, <2>2
  <2>6. Cardinality(A) <= Cardinality(B) /\ Cardinality(A) # Cardinality(B)
    BY <2>3, <2>5, FS_Subset
  <2> QED BY <2>3, <2>4, <2>6
<1>6. \A j, k \in D : place[j] \in Nat /\ place[k] \in Nat
  <2>1. \A j \in D : place[j] \in D
    BY <1>4, Zenon
  <2>2. \A x \in D : x \in Nat
    OBVIOUS
  <2> QED BY <2>1, <2>2, Zenon
<1>7. ASSUME NEW j \in D, NEW k \in D, place[j] < place[k]
      PROVE  <<j, k>> \in R
  <2>1. CASE j = k
    BY <1>6, <1>7, <2>1
  <2>2. CASE j # k
    <3>1. CASE <<k, j>> \in R
      BY <1>5, <3>1, <1>6, <1>7
    <3>2. CASE <<j, k>> \in R
      BY <3>2
    <3> QED BY <1>0, <2>2, <3>1, <3>2
  <2> QED BY <2>1, <2>2
<1>8. \A m \in D : \E k \in D : place[k] = m
  <2>1. \A j, k \in D : place[j] = place[k] => j = k
    <3> SUFFICES ASSUME NEW j \in D, NEW k \in D, place[j] = place[k], j # k PROVE FALSE
      OBVIOUS
    <3>1. place[j] < place[k] \/ place[k] < place[j]
      BY <1>0, <1>5
    <3> QED BY <1>6, <3>1
  <2>2. place \in Injection(D, D)
    BY <1>4, <2>1 DEF IsInjective, Injection
  <2>3. place \in Surjection(D, D)
    BY <1>1, <2>2, FS_Injection
  <2> QED BY <2>3 DEF Surjection
<1> QED BY <1>4, <1>5, <1>7, <1>8 DEF place, PlacedBy

\* Every source has a rank.
LEMMA RankType == \A s \in Source : Rank(s) \in 0 .. 6
BY DEF Source, Rank

\* The order of sortEvents is that of the observations and the ranks.
LEMMA PrecedesIsEarlier ==
  ASSUME TypeOK, Clock, NEW d \in EventRecord, NEW e \in EventRecord
  PROVE  Precedes(d, e) <=> Earlier(d, e)
<1>1. d.at \in Index /\ e.at \in Index
  BY DEF EventRecord
<1>2. obs[d.at].ts \in Nat /\ obs[e.at].ts \in Nat
  <2>1. obs[d.at] \in Observation /\ obs[e.at] \in Observation
    BY <1>1 DEF TypeOK, Index
  <2> QED BY <2>1 DEF Observation
<1>3. d.at \in Nat /\ e.at \in Nat
  BY <1>1 DEF Index
<1>4. CASE d.at < e.at
  BY <1>1, <1>4, <1>2 DEF Clock, Precedes, Earlier
<1>5. CASE d.at = e.at
  BY <1>2, <1>3, <1>5 DEF Precedes, Earlier
<1>6. CASE e.at < d.at
  BY <1>1, <1>6, <1>2, <1>3 DEF Clock, Precedes, Earlier
<1> QED BY <1>3, <1>4, <1>5, <1>6

\* The sort leaves each of n events in its place.
SortedBy(n, es) ==
  \E place \in [1 .. n -> 1 .. n] :
    /\ \A j, k \in 1 .. n : place[j] < place[k] <=> Earlier(es[j], es[k])
    /\ \A m \in 1 .. n : \E k \in 1 .. n : place[k] = m
    /\ DOMAIN SortedEvents(es) = 1 .. n
    /\ \A k \in 1 .. n : SortedEvents(es)[place[k]] = es[k]

\* Events made once each are sorted by Earlier: place says where each goes.
LEMMA SortedPlaces ==
  ASSUME TypeOK, Clock, NEW n \in Nat, NEW es, DOMAIN es = 1 .. n,
         \A k \in 1 .. n : es[k] \in EventRecord,
         \A j, k \in 1 .. n : j < k => ~SameKey(es[j], es[k])
  PROVE  SortedBy(n, es)
<1> DEFINE D == DOMAIN es
           R == {p \in D \X D : Earlier(es[p[1]], es[p[2]])}
           place == PlaceIn(D, R)
<1>1. ASSUME NEW k \in D
      PROVE  es[k].at \in Nat /\ Rank(es[k].source) \in Nat
  <2>1. es[k].at \in Index /\ es[k].source \in Source
    BY DEF EventRecord, Source
  <2> QED BY <2>1, RankType DEF Index
<1>2. \A j, k \in D : <<j, k>> \in R <=> Earlier(es[j], es[k])
  OBVIOUS
<1>3. \A j, k \in D : j # k => ~SameKey(es[j], es[k])
  <2> SUFFICES ASSUME NEW j \in D, NEW k \in D, j # k PROVE ~SameKey(es[j], es[k])
    OBVIOUS
  <2>1. j < k \/ k < j
    OBVIOUS
  <2> QED BY <2>1 DEF SameKey
<1> HIDE DEF R
<1>4. \A j \in D : <<j, j>> \notin R
  BY <1>1, <1>2 DEF Earlier
<1>5. \A j, k \in D : j # k => <<j, k>> \in R \/ <<k, j>> \in R
  BY <1>1, <1>2, <1>3 DEF Earlier, SameKey
<1>6. \A i, j, k \in D : <<i, j>> \in R /\ <<j, k>> \in R => <<i, k>> \in R
  <2> SUFFICES ASSUME NEW i \in D, NEW j \in D, NEW k \in D,
                      Earlier(es[i], es[j]), Earlier(es[j], es[k])
               PROVE  Earlier(es[i], es[k])
    BY <1>2
  <2>1. PICK a, b, c \in Nat : a = es[i].at /\ b = es[j].at /\ c = es[k].at
    BY <1>1
  <2>2. PICK x, y, z \in Nat : /\ x = Rank(es[i].source) /\ y = Rank(es[j].source)
                               /\ z = Rank(es[k].source)
    BY <1>1
  <2>3. (a < b \/ (a = b /\ x < y)) /\ (b < c \/ (b = c /\ y < z))
    BY <2>1, <2>2 DEF Earlier
  <2>4. a < c \/ (a = c /\ x < z)
    BY <2>3
  <2> QED BY <2>1, <2>2, <2>4 DEF Earlier
<1>7. /\ place \in [D -> D]
      /\ \A j, k \in D : <<j, k>> \in R <=> place[j] < place[k]
      /\ \A m \in D : \E k \in D : place[k] = m
  <2>1. D = 1 .. n
    OBVIOUS
  <2>2. StrictOrder(D, R)
    BY <1>4, <1>5, <1>6 DEF StrictOrder
  <2>3. PICK C, S : C = D /\ S = R
    OBVIOUS
  <2> HIDE DEF D
  <2>4. C = 1 .. n /\ StrictOrder(C, S)
    BY <2>1, <2>2, <2>3
  <2>5. PlacedBy(C, S)
    BY <2>4, PlacesOf, Zenon
  <2>6. PlacedBy(D, R)
    BY <2>3, <2>5
  <2> QED BY <2>6 DEF PlacedBy
<1>8. ASSUME NEW j \in D, NEW k \in D
      PROVE  Before(es, j, k) <=> <<j, k>> \in R
  <2>1. /\ Precedes(es[j], es[k]) <=> <<j, k>> \in R
        /\ Precedes(es[k], es[j]) <=> <<k, j>> \in R
    BY <1>2, PrecedesIsEarlier
  <2>2. CASE j = k
    BY <1>4, <2>1, <2>2 DEF Before
  <2>3. CASE j # k
    BY <1>5, <2>1, <2>3 DEF Before
  <2> QED BY <2>2, <2>3
<1>9. \A k \in D : {j \in D : Before(es, j, k)} = Below(D, R, k)
  BY <1>8 DEF Below
<1>10. SortedEvents(es) = Arranged(es, Placed(D, place))
  <2> DEFINE counted == {<<k, Cardinality({j \in D : Before(es, j, k)}) + 1>> : k \in D}
  <2>1. Placed(D, place) = counted
    BY <1>9 DEF Placed, PlaceIn
  <2>2. SortedEvents(es) = Arranged(es, counted)
    BY DEF SortedEvents, Arranged
  <2> HIDE DEF place, counted
  <2> QED BY <2>1, <2>2, Zenon
<1> HIDE DEF place
<1>11. ASSUME NEW k \in D PROVE SortedEvents(es)[place[k]] = es[k]
  <2>0. place[k] \in Nat
    <3>1. place[k] \in D
      BY <1>7
    <3> QED BY <3>1
  <2>1. ASSUME NEW j \in D, place[j] = place[k] PROVE j = k
    <3>1. ~(place[j] < place[k]) /\ ~(place[k] < place[j])
      BY <2>0, <2>1
    <3> QED BY <1>5, <1>7, <3>1
  <2>2. (CHOOSE p \in Placed(D, place) : p[2] = place[k])[1] = k
    <3>1. <<k, place[k]>> \in Placed(D, place)
      BY DEF Placed
    <3>2. \A p \in Placed(D, place) : p[2] = place[k] => p[1] = k
      BY <2>1 DEF Placed
    <3>3. \E p \in Placed(D, place) : p[2] = place[k]
      BY <3>1
    <3> QED BY <3>2, <3>3
  <2>3. place[k] \in D
    BY <1>7
  <2> HIDE DEF D
  <2> QED BY <1>10, <2>2, <2>3 DEF Arranged, D
<1>12. DOMAIN SortedEvents(es) = D
  BY <1>10 DEF Arranged
<1> HIDE DEF D
<1>13. \A j, k \in D : place[j] < place[k] <=> Earlier(es[j], es[k])
  BY <1>2, <1>7
<1>14. D = 1 .. n
  BY DEF D
<1> QED BY <1>7, <1>11, <1>12, <1>13, <1>14 DEF SortedBy

-----------------------------------------------------------------------------
(* The chronicle, as it grows.                                             *)

\* What a concatenation says.
LEMMA SaidInConcat ==
  ASSUME NEW S, NEW s \in Seq(S), NEW t \in Seq(S)
  PROVE  /\ \A e : Said(s \o t, e) <=> Said(s, e) \/ Said(t, e)
         /\ (/\ KeysDiffer(s) /\ KeysDiffer(t)
             /\ \A j \in DOMAIN s, k \in DOMAIN t : ~SameKey(s[j], t[k]))
              => KeysDiffer(s \o t)
<1> DEFINE st == s \o t
<1>1. /\ Len(s) \in Nat /\ Len(t) \in Nat
      /\ DOMAIN s = 1 .. Len(s) /\ DOMAIN t = 1 .. Len(t)
  OBVIOUS
<1>2. /\ DOMAIN st = 1 .. Len(s) + Len(t)
      /\ \A i \in 1 .. Len(s) + Len(t) :
           st[i] = IF i <= Len(s) THEN s[i] ELSE t[i - Len(s)]
  BY ConcatProperties
<1> HIDE DEF st
<1>3. ASSUME NEW i \in DOMAIN st
      PROVE  \/ i \in DOMAIN s /\ st[i] = s[i]
             \/ i > Len(s) /\ i - Len(s) \in DOMAIN t /\ st[i] = t[i - Len(s)]
  BY <1>1, <1>2
<1>4. ASSUME NEW i \in DOMAIN s PROVE i \in DOMAIN st /\ st[i] = s[i]
  BY <1>1, <1>2
<1>5. ASSUME NEW i \in DOMAIN t
      PROVE  Len(s) + i \in DOMAIN st /\ st[Len(s) + i] = t[i]
  BY <1>1, <1>2
<1>6. ASSUME NEW e PROVE Said(st, e) <=> Said(s, e) \/ Said(t, e)
  <2>1. ASSUME Said(st, e) PROVE Said(s, e) \/ Said(t, e)
    BY <1>3, <2>1 DEF Said
  <2>2. ASSUME Said(s, e) PROVE Said(st, e)
    BY <1>4, <2>2 DEF Said
  <2>3. ASSUME Said(t, e) PROVE Said(st, e)
    <3>1. PICK i \in DOMAIN t : t[i] = e
      BY <2>3 DEF Said
    <3>2. Len(s) + i \in DOMAIN st /\ st[Len(s) + i] = e
      BY <1>5, <3>1
    <3> QED BY <3>2 DEF Said
  <2> QED BY <2>1, <2>2, <2>3
<1>7. ASSUME KeysDiffer(s), KeysDiffer(t),
             \A j \in DOMAIN s, k \in DOMAIN t : ~SameKey(s[j], t[k])
      PROVE  KeysDiffer(st)
  <2> SUFFICES ASSUME NEW j \in DOMAIN st, NEW k \in DOMAIN st, j < k
               PROVE  ~SameKey(st[j], st[k])
    BY DEF KeysDiffer
  <2>0. j \in Nat /\ k \in Nat
    BY <1>1, <1>2
  <2>1. CASE k \in DOMAIN s /\ st[k] = s[k]
    BY <1>1, <1>2, <2>0, <2>1, <1>4, <1>7 DEF KeysDiffer
  <2>2. CASE k > Len(s) /\ k - Len(s) \in DOMAIN t /\ st[k] = t[k - Len(s)]
    <3>1. CASE j \in DOMAIN s /\ st[j] = s[j]
      BY <1>7, <2>2, <3>1
    <3>2. CASE j > Len(s) /\ j - Len(s) \in DOMAIN t /\ st[j] = t[j - Len(s)]
      BY <1>1, <2>0, <1>7, <2>2, <3>2 DEF KeysDiffer
    <3> QED BY <1>3, <3>1, <3>2
  <2> QED BY <1>3, <2>1, <2>2
<1> QED BY <1>6, <1>7 DEF st

\* Short sequences of events: what they say.
LEMMA SaidInShort ==
  /\ \A e : ~Said(<<>>, e)
  /\ KeysDiffer(<<>>)
  /\ \A d, e : Said(<<d>>, e) <=> d = e
  /\ \A d : KeysDiffer(<<d>>)
  /\ \A d, e, f : Said(<<d, e>>, f) <=> d = f \/ e = f
  /\ \A d, e : ~SameKey(d, e) => KeysDiffer(<<d, e>>)
<1>1. DOMAIN <<>> = {}
  OBVIOUS
<1>2. \A d : DOMAIN <<d>> = {1} /\ <<d>>[1] = d
  OBVIOUS
<1>3. \A d, e : DOMAIN <<d, e>> = {1, 2} /\ <<d, e>>[1] = d /\ <<d, e>>[2] = e
  OBVIOUS
<1>4. (\A e : ~Said(<<>>, e)) /\ KeysDiffer(<<>>)
  BY <1>1 DEF Said, KeysDiffer
<1>5. \A d : (\A e : Said(<<d>>, e) <=> d = e) /\ KeysDiffer(<<d>>)
  BY <1>2 DEF Said, KeysDiffer
<1>6. ASSUME NEW d, NEW e
      PROVE  /\ \A f : Said(<<d, e>>, f) <=> d = f \/ e = f
             /\ ~SameKey(d, e) => KeysDiffer(<<d, e>>)
  BY <1>3 DEF Said, KeysDiffer
<1> QED BY <1>4, <1>5, <1>6

\* A statement stays true while the records it is about only grow.
LEMMA StatedKept ==
  ASSUME ~Finished, NEW d \in EventRecord, Stated(d),
         \A i \in Index : obs'[i] = obs[i],
         \A k \in DOMAIN presence :
           k \in DOMAIN presence' /\ presence'[k] = presence[k],
         Present /\ state.enterEvent =>
           \/ /\ ~Finished' /\ Present' /\ state'.enterEvent
              /\ state'.anchorIdx = state.anchorIdx
           \/ \E k \in DOMAIN presence' :
                presence'[k].entered /\ presence'[k].start = state.anchorIdx
  PROVE  Stated(d)'
<1>1. d.at \in Index
  BY DEF EventRecord
<1>2. /\ d.source = "GAP" => obs'[d.at].gap
      /\ d.source = "DISCONTINUITY" => obs'[d.at].disc
      /\ d.source # "END"
  BY <1>1 DEF Stated
<1>3. IsInterval(d) => \E k \in DOMAIN presence' : d = IntervalEvent(presence'[k])
  BY DEF Stated
<1>4. d.source = "LEAVE" =>
        \E k \in DOMAIN presence' :
          /\ presence'[k].endReason = "confirmed_movement"
          /\ d.at = presence'[k].end /\ d.presence = presence'[k].start
  BY DEF Stated
<1>5. d.source = "ENTER" =>
        /\ d.presence = d.at
        /\ \/ \E k \in DOMAIN presence' :
                presence'[k].entered /\ presence'[k].start = d.at
           \/ ~Finished' /\ Present' /\ state'.enterEvent /\ state'.anchorIdx = d.at
  <2> SUFFICES ASSUME d.source = "ENTER"
               PROVE  /\ d.presence = d.at
                      /\ \/ \E k \in DOMAIN presence' :
                              presence'[k].entered /\ presence'[k].start = d.at
                         \/ /\ ~Finished' /\ Present' /\ state'.enterEvent
                            /\ state'.anchorIdx = d.at
    OBVIOUS
  <2>1. d.presence = d.at
    BY DEF Stated
  <2>2. CASE \E k \in DOMAIN presence : presence[k].entered /\ presence[k].start = d.at
    BY <2>1, <2>2
  <2>3. CASE Present /\ state.enterEvent /\ state.anchorIdx = d.at
    BY <2>1, <2>3
  <2> QED BY <2>2, <2>3 DEF Stated
<1> QED BY <1>2, <1>3, <1>4, <1>5 DEF Stated, IsInterval

\* A step that says something new about what it did keeps the chronicle.
LEMMA ChronicleGrows ==
  ASSUME TypeOK, Chronicle, ~Finished,
         NEW R, events \in Seq(R), NEW new \in Seq(R), events' = events \o new,
         \A i \in Index : obs'[i] = obs[i],
         \A k \in DOMAIN presence :
           k \in DOMAIN presence' /\ presence'[k] = presence[k],
         Present /\ state.enterEvent =>
           \/ /\ ~Finished' /\ Present' /\ state'.enterEvent
              /\ state'.anchorIdx = state.anchorIdx
           \/ \E k \in DOMAIN presence' :
                presence'[k].entered /\ presence'[k].start = state.anchorIdx,
         KeysDiffer(new),
         \A e : Said(new, e) => Stated(e)',
         \A e : Said(new, e) => \A k \in DOMAIN events : ~SameKey(events[k], e),
         Finished' => Said(new, Event("END", Len(obs'), 0)),
         \A k \in DOMAIN presence' \ DOMAIN presence :
           /\ Said(new, IntervalEvent(presence'[k]))
           /\ presence'[k].endReason = "confirmed_movement" =>
                Said(new, Event("LEAVE", presence'[k].end, presence'[k].start))
  PROVE  Chronicle'
<1>1. /\ \A e : Said(events \o new, e) <=> Said(events, e) \/ Said(new, e)
      /\ KeysDiffer(events \o new)
  <2>1. \A j \in DOMAIN events, k \in DOMAIN new : ~SameKey(events[j], new[k])
    BY DEF Said
  <2> QED BY <2>1, SaidInConcat DEF Chronicle
<1>2. \A e : Said(events, e)' <=> Said(events, e) \/ Said(new, e)
  BY <1>1 DEF Said
<1>3. KeysDiffer(events)'
  BY <1>1 DEF KeysDiffer
<1>4. \A k \in DOMAIN events' : Stated(events[k])'
  <2> SUFFICES ASSUME NEW k \in DOMAIN events' PROVE Stated(events[k])'
    OBVIOUS
  <2>1. PICK e : e = events'[k]
    OBVIOUS
  <2>2. Said(events, e)'
    BY <2>1 DEF Said
  <2>3. CASE Said(new, e)
    BY <2>1, <2>3
  <2>4. CASE Said(events, e)
    BY <2>4, StatedKept, <2>1 DEF Said, Chronicle, TypeOK
  <2> QED BY <1>2, <2>2, <2>3, <2>4
<1>5. Said(events, Event("START", 1, 0))'
  BY <1>2 DEF Chronicle, Event
<1>6. Finished' => Said(events, Event("END", Len(obs), 0))'
  BY <1>2
<1>7. \A k \in DOMAIN presence' : Recorded(presence[k])'
  <2> SUFFICES ASSUME NEW k \in DOMAIN presence' PROVE Recorded(presence[k])'
    OBVIOUS
  <2>1. CASE k \in DOMAIN presence
    BY <2>1, <1>2 DEF Chronicle, Recorded
  <2>2. CASE k \notin DOMAIN presence
    BY <1>2, <2>2 DEF Recorded
  <2> QED BY <2>1, <2>2
<1> QED BY <1>3, <1>4, <1>5, <1>6, <1>7 DEF Chronicle

\* A step that reads an observation and closes nothing says nothing.
LEMMA ChronicleQuiet ==
  ASSUME Evidence, Chronicle, NEW o \in Incoming, Consume(o),
         events' = events, presence' = presence,
         Present => /\ Present' /\ state'.anchorIdx = state.anchorIdx
                    /\ state'.enterEvent = state.enterEvent
  PROVE  Chronicle'
<1>1. /\ TypeOK /\ ~Finished /\ ~Finished' /\ o \in Observation
      /\ \A i \in Index : obs'[i] = obs[i]
  BY Reading, Grown DEF Evidence
<1>2. PICK R : R = EventRecord
  OBVIOUS
<1>3. /\ events \in Seq(R) /\ <<>> \in Seq(R) /\ events' = events \o <<>>
  BY <1>1, <1>2, ConcatEmptySeq DEF TypeOK
<1>4. KeysDiffer(<<>>) /\ \A e : ~Said(<<>>, e)
  BY SaidInShort
<1>5. /\ \A k \in DOMAIN presence : k \in DOMAIN presence' /\ presence'[k] = presence[k]
      /\ DOMAIN presence' \ DOMAIN presence = {}
      /\ Present /\ state.enterEvent =>
           \/ /\ ~Finished' /\ Present' /\ state'.enterEvent
              /\ state'.anchorIdx = state.anchorIdx
           \/ \E k \in DOMAIN presence' :
                presence'[k].entered /\ presence'[k].start = state.anchorIdx
  BY <1>1
<1> QED BY <1>1, <1>3, <1>4, <1>5, ChronicleGrows

\* The steps of the search, of a fix inside and of a candidate.
LEMMA SilentChronicle ==
  ASSUME Evidence, Chronicle, NEW o \in Incoming,
         \/ ConfirmPresence(o) \/ Reanchor(o) \/ RemainInside(o)
         \/ StartCandidate(o) \/ RestartCandidate(o)
  PROVE  Chronicle'
<1>1. Consume(o) /\ events' = events /\ presence' = presence
  BY DEF ConfirmPresence, Reanchor, RemainInside, StartCandidate, RestartCandidate
<1>2. state \in PresenceState
  BY DEF Evidence, Inductive, TypeOK
<1>3. Present => /\ Present' /\ state'.anchorIdx = state.anchorIdx
                 /\ state'.enterEvent = state.enterEvent
  <2>1. CASE ConfirmPresence(o)
    BY <2>1 DEF ConfirmPresence, Present
  <2>2. CASE Reanchor(o) \/ RemainInside(o) \/ StartCandidate(o) \/ RestartCandidate(o)
    BY <1>2, <2>2 DEF Reanchor, RemainInside, StartCandidate, RestartCandidate,
                      Outside, PresenceState, Present
  <2> QED BY <2>1, <2>2
<1> QED BY <1>1, <1>3, ChronicleQuiet

\* Events that say so, about observations already read, are not news.
LEMMA NewKeys ==
  ASSUME Evidence, Chronicle, ~Finished, NEW k \in DOMAIN events
  PROVE  /\ \A source, i, id : i > Len(obs) /\ i \in Nat =>
              ~SameKey(events[k], Event(source, i, id))
         /\ \A id : ~Present => ~SameKey(events[k], Event("ENTER", state.anchorIdx, id))
         /\ \A source, id : source \in {"STAY", "DWELL"} =>
              ~SameKey(events[k], Event(source, state.anchorIdx, id))
         /\ \A i, id : i \in Nat /\ i > state.anchorIdx =>
              ~SameKey(events[k], Event("LEAVE", i, id))
         /\ \A id : ~SameKey(events[k], Event("END", Len(obs), id))
<1> DEFINE d == events[k]
<1>1. d \in EventRecord /\ Stated(d) /\ state.anchorIdx \in Nat /\ Len(obs) \in Nat
  BY DEF Evidence, Inductive, TypeOK, Chronicle, PresenceState, Index
<1> HIDE DEF d
<1>2. d.at \in Index /\ d.at \in Nat /\ d.at <= Len(obs) /\ d.source \in Source
  BY <1>1 DEF EventRecord, Index, Source
<1>3. /\ d.source = "LEAVE" => d.at < state.anchorIdx
      /\ IsInterval(d) => d.at < state.anchorIdx
      /\ d.source = "ENTER" /\ ~Present => d.at < state.anchorIdx
  <2>1. ASSUME NEW j \in DOMAIN presence
        PROVE  /\ presence[j].start \in Nat /\ presence[j].end \in Nat
               /\ presence[j].start < presence[j].end
               /\ presence[j].end < state.anchorIdx
               /\ presence[j].start < state.anchorIdx
    BY PresenceFields, <1>1 DEF Evidence, Inductive, Index, PresencesSound,
       Sound, PresencesOrdered
  <2>2. \A j \in DOMAIN presence : IntervalEvent(presence[j]).at = presence[j].start
    BY DEF IntervalEvent, Event
  <2> QED BY <1>1, <2>1, <2>2 DEF Stated
<1>4. /\ Rank(d.source) = 1 => d.source = "ENTER"
      /\ Rank(d.source) = 2 => IsInterval(d)
      /\ Rank(d.source) = 3 => d.source = "LEAVE"
      /\ Rank(d.source) = 6 => d.source = "END"
  BY <1>2 DEF Source, Rank, IsInterval
<1>5. /\ Rank("ENTER") = 1 /\ Rank("STAY") = 2 /\ Rank("DWELL") = 2
      /\ Rank("LEAVE") = 3 /\ Rank("END") = 6
  BY DEF Rank
<1>6. d.source # "END"
  BY <1>1 DEF Stated
<1>7. \A source, i, id : /\ Event(source, i, id).at = i
                         /\ Event(source, i, id).source = source
  BY DEF Event
<1>8. ASSUME NEW source, NEW i \in Nat, i > Len(obs), NEW id
      PROVE  ~SameKey(d, Event(source, i, id))
  BY <1>1, <1>2, <1>7, <1>8 DEF SameKey
<1>9. ASSUME NEW id, ~Present
      PROVE  ~SameKey(d, Event("ENTER", state.anchorIdx, id))
  BY <1>1, <1>2, <1>3, <1>4, <1>5, <1>7, <1>9 DEF SameKey
<1>10. ASSUME NEW source \in {"STAY", "DWELL"}, NEW id
       PROVE  ~SameKey(d, Event(source, state.anchorIdx, id))
  BY <1>1, <1>2, <1>3, <1>4, <1>5, <1>7 DEF SameKey
<1>11. ASSUME NEW i \in Nat, i > state.anchorIdx, NEW id
       PROVE  ~SameKey(d, Event("LEAVE", i, id))
  BY <1>1, <1>2, <1>3, <1>4, <1>5, <1>7, <1>11 DEF SameKey
<1>12. ASSUME NEW id PROVE ~SameKey(d, Event("END", Len(obs), id))
  BY <1>4, <1>5, <1>6, <1>7 DEF SameKey
<1> QED BY <1>8, <1>9, <1>10, <1>11, <1>12 DEF d

\* An arrival says ENTER, which no closed presence has said.
LEMMA ArrivalChronicle ==
  ASSUME Evidence, Chronicle, NEW o \in Incoming, ConfirmArrival(o)
  PROVE  Chronicle'
<1>0. PICK e : e = Event("ENTER", state.anchorIdx, state.anchorIdx)
  OBVIOUS
<1>1. Consume(o) /\ ~Present /\ presence' = presence /\ events' = Append(events, e)
  BY <1>0 DEF ConfirmArrival, Present
<1>2. /\ TypeOK /\ ~Finished /\ ~Finished' /\ o \in Observation
      /\ state.anchorIdx \in Index
      /\ \A i \in Index : obs'[i] = obs[i]
  BY <1>1, Reading, Grown DEF Evidence
<1>3. Present' /\ state'.enterEvent /\ state'.anchorIdx = state.anchorIdx
  BY <1>1, SupportedState DEF Evidence, ConfirmArrival, PresenceState, Present
<1>4. e \in EventRecord
  BY <1>0, <1>2 DEF Event, EventRecord
<1>5. Stated(e)'
  BY <1>0, <1>2, <1>3 DEF Stated, Event, IsInterval
<1>6. \A k \in DOMAIN events : ~SameKey(events[k], e)
  BY <1>0, <1>1, <1>2, NewKeys
<1>7. PICK R : R = EventRecord
  OBVIOUS
<1>8. events \in Seq(R) /\ <<e>> \in Seq(R) /\ events' = events \o <<e>>
  BY <1>2, <1>4, <1>7, AppendIsConcat, <1>1 DEF TypeOK
<1>9. KeysDiffer(<<e>>) /\ \A f : Said(<<e>>, f) <=> e = f
  BY SaidInShort
<1>10. /\ \A k \in DOMAIN presence : k \in DOMAIN presence' /\ presence'[k] = presence[k]
       /\ DOMAIN presence' \ DOMAIN presence = {}
  BY <1>1
<1>11. \A f : Said(<<e>>, f) => Stated(f)'
  <2> SUFFICES ASSUME NEW f, Said(<<e>>, f) PROVE Stated(f)'
    OBVIOUS
  <2>1. f = e
    BY <1>9
  <2> QED BY <1>5, <2>1
<1>12. \A f : Said(<<e>>, f) => \A k \in DOMAIN events : ~SameKey(events[k], f)
  BY <1>6, <1>9
<1> QED BY <1>1, <1>2, <1>8, <1>9, <1>10, <1>11, <1>12, ChronicleGrows

\* A step that closes the open presence p, and says so.
LEMMA ClosingChronicle ==
  ASSUME Evidence, Chronicle, ~Finished, Present,
         NEW p, presence' = Append(presence, p),
         p.start = state.anchorIdx, p.entered = state.enterEvent,
         NEW R, events \in Seq(R), NEW new \in Seq(R), events' = events \o new,
         \A i \in Index : obs'[i] = obs[i],
         KeysDiffer(new),
         \A e : Said(new, e) => Stated(e)',
         \A e : Said(new, e) => \A k \in DOMAIN events : ~SameKey(events[k], e),
         Finished' => Said(new, Event("END", Len(obs'), 0)),
         Said(new, IntervalEvent(p)),
         p.endReason = "confirmed_movement" =>
           Said(new, Event("LEAVE", p.end, p.start))
  PROVE  Chronicle'
<1>1. TypeOK
  BY DEF Evidence, Inductive
<1>2. /\ \A k \in DOMAIN presence : k \in DOMAIN presence' /\ presence'[k] = presence[k]
      /\ Len(presence) + 1 \in DOMAIN presence'
      /\ presence'[Len(presence) + 1] = p
      /\ \A k \in DOMAIN presence' \ DOMAIN presence : presence'[k] = p
  BY <1>1, RowsKept
<1>3. \A k \in DOMAIN presence' \ DOMAIN presence :
        /\ Said(new, IntervalEvent(presence'[k]))
        /\ presence'[k].endReason = "confirmed_movement" =>
             Said(new, Event("LEAVE", presence'[k].end, presence'[k].start))
  BY <1>2
<1>4. Present /\ state.enterEvent =>
        \E k \in DOMAIN presence' :
          presence'[k].entered /\ presence'[k].start = state.anchorIdx
  BY <1>2
<1> QED BY <1>1, <1>2, <1>3, <1>4, ChronicleGrows

\* The interval event of the presence being closed.
LEMMA IntervalSaid ==
  ASSUME Evidence, Chronicle, ~Finished, Present, NEW reason \in EndReasons,
         NEW p, p = ClosedPresence(reason), presence' = Append(presence, p),
         NEW e, e = IntervalEvent(p)
  PROVE  /\ p.start = state.anchorIdx /\ p.end = LastMember
         /\ p.entered = state.enterEvent /\ p.endReason = reason
         /\ p.start \in Index /\ p.end \in Index /\ p.start < p.end
         /\ e \in EventRecord /\ e.at = p.start /\ e.source \in {"STAY", "DWELL"}
         /\ Stated(e)'
         /\ \A k \in DOMAIN events : ~SameKey(events[k], e)
<1>1. /\ p.start = state.anchorIdx /\ p.end = LastMember
      /\ p.endReason = reason /\ p.entered = state.enterEvent
      /\ p.start \in Index /\ p.end \in Index
  BY ClosedFields DEF Evidence
<1>2. e \in EventRecord
  BY ClosingStatement
<1>3. p.class \in {"STAY", "DWELL"}
  <2>1. Len(state.members) >= 2
    BY DEF Evidence, Inductive, StateCoherent
  <2> QED BY <2>1, ClosedType DEF Evidence, Inductive
<1>4. /\ e.at = p.start /\ e.source = p.class
      /\ e = Event(p.class, state.anchorIdx, state.anchorIdx)
  BY <1>1 DEF IntervalEvent, Event
<1>5. p.start < p.end
  BY <1>1 DEF Evidence, OpenPresence, Index
<1>6. Stated(e)'
  <2>1. Len(presence') \in DOMAIN presence' /\ presence'[Len(presence')] = p
    BY RowsKept DEF Evidence, Inductive
  <2>2. e.source \notin {"GAP", "DISCONTINUITY", "END", "LEAVE", "ENTER"}
    BY <1>3, <1>4
  <2> QED BY <2>1, <2>2 DEF Stated, IsInterval
<1>7. \A k \in DOMAIN events : ~SameKey(events[k], e)
  BY <1>3, <1>4, NewKeys
<1> QED BY <1>1, <1>2, <1>3, <1>4, <1>5, <1>6, <1>7

\* A departure says the interval and then LEAVE.
LEMMA DepartChronicle ==
  ASSUME Evidence, Chronicle, NEW o \in Incoming,
         DepartUnconfirmed(o) \/ ConfirmDeparture(o)
  PROVE  Chronicle'
<1>1. Consume(o) /\ Present /\ \E S : Depart(S)
  BY DEF DepartUnconfirmed, ConfirmDeparture, Outside, Present
<1>2. /\ TypeOK /\ ~Finished /\ ~Finished' /\ o \in Observation
      /\ state.anchorIdx \in Nat
      /\ \A i \in Index : obs'[i] = obs[i]
  BY <1>1, Reading, Grown DEF Evidence
<1>3. PICK p : p = ClosedPresence("confirmed_movement")
  OBVIOUS
<1>4. PICK a : a = IntervalEvent(p)
  OBVIOUS
<1>5. PICK b : b = Event("LEAVE", p.end, p.start)
  OBVIOUS
<1>6. presence' = Append(presence, p) /\ events' = events \o <<a, b>>
  BY <1>1, <1>3, <1>4, <1>5 DEF Depart
<1>7. /\ p.start = state.anchorIdx /\ p.entered = state.enterEvent
      /\ p.endReason = "confirmed_movement"
      /\ p.start \in Index /\ p.end \in Index /\ p.start < p.end
      /\ a \in EventRecord /\ a.at = p.start /\ a.source \in {"STAY", "DWELL"}
      /\ Stated(a)'
      /\ \A k \in DOMAIN events : ~SameKey(events[k], a)
  BY <1>1, <1>2, <1>3, <1>4, <1>6, IntervalSaid DEF EndReasons
<1>8. b.source = "LEAVE" /\ b.at = p.end /\ b.presence = p.start
  BY <1>5 DEF Event
<1>9. Stated(b)'
  BY <1>2, <1>6, RowsKept, <1>7, <1>8 DEF Stated, IsInterval
<1>10. \A k \in DOMAIN events : ~SameKey(events[k], b)
  BY <1>2, <1>7, <1>5, NewKeys DEF Index
<1>11. ~SameKey(a, b)
  BY <1>7, <1>8 DEF Index, SameKey
<1>12. PICK R : R = EventRecord
  OBVIOUS
<1>13. events \in Seq(R) /\ <<a, b>> \in Seq(R)
  BY <1>5, <1>7, <1>2, <1>12 DEF Event, EventRecord, TypeOK
<1>14. KeysDiffer(<<a, b>>) /\ \A f : Said(<<a, b>>, f) <=> a = f \/ b = f
  BY <1>11, SaidInShort
<1>15. \A f : Said(<<a, b>>, f) =>
         Stated(f)' /\ \A k \in DOMAIN events : ~SameKey(events[k], f)
  <2> SUFFICES ASSUME NEW f, Said(<<a, b>>, f)
               PROVE  Stated(f)' /\ \A k \in DOMAIN events : ~SameKey(events[k], f)
    OBVIOUS
  <2>1. CASE f = a
    BY <1>7, <2>1
  <2>2. CASE f = b
    BY <1>9, <1>10, <2>2
  <2> QED BY <1>14, <2>1, <2>2
<1>16. Said(<<a, b>>, IntervalEvent(p)) /\ Said(<<a, b>>, Event("LEAVE", p.end, p.start))
  BY <1>4, <1>5, <1>14
<1> QED BY <1>1, <1>2, <1>6, <1>7, <1>13, <1>14, <1>15, <1>16, ClosingChronicle

\* A break says the interval it closes, if any, and what it is.
LEMMA BreakChronicle ==
  ASSUME Evidence, Chronicle, NEW o \in Incoming, ContinuityBreak(o)
  PROVE  Chronicle'
<1>1. Consume(o) /\ (o.gap \/ o.disc)
  BY DEF ContinuityBreak
<1>2. /\ TypeOK /\ ~Finished /\ ~Finished' /\ o \in Observation
      /\ state.anchorIdx \in Nat /\ Len(obs) \in Nat /\ state.anchorIdx <= Len(obs)
      /\ \A i \in Index : obs'[i] = obs[i]
      /\ obs'[Now] = o /\ Now \in Index' /\ Now = Len(obs) + 1
  BY <1>1, Reading, Grown DEF Evidence
<1>3. PICK reason \in EndReasons : reason = IF o.disc THEN "discontinuity" ELSE "gap"
  BY DEF EndReasons
<1>4. PICK p : p = ClosedPresence(reason)
  OBVIOUS
<1>5. PICK a : a = IntervalEvent(p)
  OBVIOUS
<1>6. PICK g : g = Event("GAP", Now, 0)
  OBVIOUS
<1>7. PICK d : d = Event("DISCONTINUITY", Now, 0)
  OBVIOUS
<1>8. PICK A : A = IF Closable THEN <<a>> ELSE <<>>
  OBVIOUS
<1>9. PICK B : B = IF o.gap THEN <<g>> ELSE <<>>
  OBVIOUS
<1>10. PICK C : C = IF o.disc THEN <<d>> ELSE <<>>
  OBVIOUS
<1>11. Closable <=> Present
  BY DEF Closable, Present, Evidence, Inductive, StateCoherent
<1>12. /\ events' = ((events \o A) \o B) \o C
       /\ presence' = IF Present THEN Append(presence, p) ELSE presence
  BY <1>3, <1>4, <1>5, <1>6, <1>7, <1>8, <1>9, <1>10, <1>11 DEF ContinuityBreak
<1>13. Present =>
         /\ p.start = state.anchorIdx /\ p.entered = state.enterEvent
         /\ p.endReason # "confirmed_movement"
         /\ a \in EventRecord /\ a.at = state.anchorIdx
         /\ Stated(a)'
         /\ \A k \in DOMAIN events : ~SameKey(events[k], a)
  BY <1>2, <1>3, <1>4, <1>5, <1>12, IntervalSaid
<1>14. /\ g.source = "GAP" /\ g.at = Now /\ d.source = "DISCONTINUITY" /\ d.at = Now
       /\ ~SameKey(g, d)
       /\ o.gap => Stated(g)'
       /\ o.disc => Stated(d)'
       /\ \A k \in DOMAIN events : ~SameKey(events[k], g) /\ ~SameKey(events[k], d)
       /\ Present => ~SameKey(a, g) /\ ~SameKey(a, d)
  <2>1. g.source = "GAP" /\ g.at = Now /\ d.source = "DISCONTINUITY" /\ d.at = Now
    BY <1>6, <1>7 DEF Event
  <2>2. ~SameKey(g, d)
    <3>1. Rank("GAP") = 4 /\ Rank("DISCONTINUITY") = 5
      BY DEF Rank
    <3> QED BY <2>1, <3>1 DEF SameKey
  <2>3. (o.gap => Stated(g)') /\ (o.disc => Stated(d)')
    BY <1>2, <2>1 DEF Stated, IsInterval
  <2>4. \A k \in DOMAIN events : ~SameKey(events[k], g) /\ ~SameKey(events[k], d)
    BY <1>2, <1>6, <1>7, NewKeys
  <2>5. Present => ~SameKey(a, g) /\ ~SameKey(a, d)
    BY <1>2, <1>13, <2>1 DEF SameKey
  <2> QED BY <2>1, <2>2, <2>3, <2>4, <2>5
<1>15. PICK R : R = EventRecord'
  OBVIOUS
<1>16. /\ events \in Seq(R) /\ A \in Seq(R) /\ B \in Seq(R) /\ C \in Seq(R)
  <2>1. events \in Seq(R)
    BY <1>1, <1>2, <1>15, Grown DEF TypeOK
  <2>2. g \in R /\ d \in R
    BY <1>2, <1>6, <1>7, <1>15 DEF Event, EventRecord
  <2>3. Present => a \in R
    <3>1. EventRecord \subseteq EventRecord'
      BY <1>1, <1>2, Grown DEF EventRecord
    <3> QED BY <1>13, <1>15, <3>1
  <2> QED BY <1>8, <1>9, <1>10, <1>11, <2>1, <2>2, <2>3
<1>17. PICK bc \in Seq(R) :
         /\ bc = B \o C
         /\ KeysDiffer(bc)
         /\ \A f : Said(bc, f) <=> (o.gap /\ f = g) \/ (o.disc /\ f = d)
  <2>1. KeysDiffer(B) /\ KeysDiffer(C)
    BY <1>9, <1>10, SaidInShort
  <2>2. \A f : Said(B, f) <=> o.gap /\ f = g
    BY <1>9, SaidInShort
  <2>3. \A f : Said(C, f) <=> o.disc /\ f = d
    BY <1>10, SaidInShort
  <2>4. \A j \in DOMAIN B, k \in DOMAIN C : ~SameKey(B[j], C[k])
    BY <2>2, <2>3, <1>14 DEF Said
  <2>5. /\ \A f : Said(B \o C, f) <=> Said(B, f) \/ Said(C, f)
        /\ KeysDiffer(B \o C)
    BY <1>16, <2>1, <2>4, SaidInConcat
  <2>6. B \o C \in Seq(R)
    BY <1>16, ConcatProperties
  <2>7. PICK x \in Seq(R) : x = B \o C
    BY <2>6
  <2>8. KeysDiffer(x) /\ \A f : Said(x, f) <=> Said(B, f) \/ Said(C, f)
    BY <2>5, <2>7, Zenon
  <2>9. \A f : Said(x, f) <=> (o.gap /\ f = g) \/ (o.disc /\ f = d)
    BY <2>2, <2>3, <2>8
  <2> QED BY <2>7, <2>8, <2>9, Zenon
<1>18. PICK new \in Seq(R) :
         /\ new = A \o bc /\ events' = events \o new
         /\ KeysDiffer(new)
         /\ \A f : Said(new, f) <=> \/ Present /\ f = a
                                    \/ o.gap /\ f = g
                                    \/ o.disc /\ f = d
  <2>1. KeysDiffer(A)
    BY <1>8, SaidInShort
  <2>2. \A f : Said(A, f) <=> Present /\ f = a
    BY <1>8, <1>11, SaidInShort
  <2>3. \A j \in DOMAIN A, k \in DOMAIN bc : ~SameKey(A[j], bc[k])
    <3>1. \A j \in DOMAIN A : Present /\ A[j] = a
      BY <2>2 DEF Said
    <3>2. \A k \in DOMAIN bc : bc[k] \in {g, d}
      BY <1>17 DEF Said
    <3> QED BY <1>14, <3>1, <3>2
  <2>4. /\ \A f : Said(A \o bc, f) <=> Said(A, f) \/ Said(bc, f)
        /\ KeysDiffer(A \o bc)
    BY <1>16, <1>17, <2>1, <2>3, SaidInConcat
  <2>5. A \o bc \in Seq(R)
    BY <1>16, <1>17, ConcatProperties
  <2>6. events' = events \o (A \o bc)
    <3>1. /\ \A s, t, u \in Seq(R) : (s \o t) \o u = s \o (t \o u)
          /\ \A s, t \in Seq(R) : s \o t \in Seq(R)
      BY Regroup
    <3>2. PICK ea \in Seq(R) : ea = events \o A
      BY <1>16, <3>1, Zenon
    <3>3. \A t, u \in Seq(R) : (ea \o t) \o u = ea \o (t \o u)
      BY <3>1, Zenon
    <3>4. \A t, u \in Seq(R) : (events \o t) \o u = events \o (t \o u)
      BY <1>16, <3>1, Zenon
    <3>5. (ea \o B) \o C = ea \o (B \o C)
      BY <1>16, <3>3, Zenon
    <3>6. (events \o A) \o bc = events \o (A \o bc)
      BY <1>16, <1>17, <3>4, Zenon
    <3> QED BY <1>12, <1>17, <3>2, <3>5, <3>6, Zenon
  <2> QED BY <1>17, <2>2, <2>4, <2>5, <2>6
<1>19. \A f : Said(new, f) =>
         Stated(f)' /\ \A k \in DOMAIN events : ~SameKey(events[k], f)
  <2> SUFFICES ASSUME NEW f, Said(new, f)
               PROVE  Stated(f)' /\ \A k \in DOMAIN events : ~SameKey(events[k], f)
    OBVIOUS
  <2>1. CASE Present /\ f = a
    BY <1>13, <2>1
  <2>2. CASE o.gap /\ f = g
    BY <1>14, <2>2
  <2>3. CASE o.disc /\ f = d
    BY <1>14, <2>3
  <2> QED BY <1>18, <2>1, <2>2, <2>3
<1>20. CASE Present
  <2>1. Said(new, IntervalEvent(p)) /\ presence' = Append(presence, p)
    BY <1>5, <1>12, <1>18, <1>20
  <2> QED BY <1>2, <1>13, <1>16, <1>18, <1>19, <1>20, <2>1, ClosingChronicle
<1>21. CASE ~Present
  BY <1>12, <1>21, <1>2, <1>16, <1>18, <1>19, ChronicleGrows
<1> QED BY <1>20, <1>21

\* The end of the input says the interval it closes, if any, and END.
LEMMA FinishChronicle ==
  ASSUME Evidence, Chronicle, Finish
  PROVE  Chronicle'
<1>1. /\ TypeOK /\ ~Finished /\ Finished'
      /\ UNCHANGED <<obs, state, pending>>
  BY FinishFinishes DEF Evidence, Inductive, Finish, Finished
<1>2. PICK p : p = ClosedPresence("dataset_end")
  OBVIOUS
<1>3. PICK a : a = IntervalEvent(p)
  OBVIOUS
<1>4. PICK e : e = Event("END", Len(obs), 0)
  OBVIOUS
<1>5. PICK A : A = IF Closable THEN <<a>> ELSE <<>>
  OBVIOUS
<1>6. Closable <=> Present
  BY DEF Closable, Present, Evidence, Inductive, StateCoherent
<1>7. /\ events' = (events \o A) \o <<e>>
      /\ presence' = IF Present THEN Append(presence, p) ELSE presence
  BY <1>2, <1>3, <1>4, <1>5, <1>6 DEF Finish
<1>8. Present =>
        /\ p.start = state.anchorIdx /\ p.entered = state.enterEvent
        /\ p.endReason # "confirmed_movement"
        /\ a \in EventRecord /\ a.source \in {"STAY", "DWELL"}
        /\ Stated(a)'
        /\ \A k \in DOMAIN events : ~SameKey(events[k], a)
  BY <1>1, <1>2, <1>3, <1>7, IntervalSaid DEF EndReasons
<1>9. /\ e.source = "END" /\ e \in EventRecord
      /\ Stated(e)'
      /\ \A k \in DOMAIN events : ~SameKey(events[k], e)
      /\ Present => ~SameKey(a, e)
  <2>1. e.source = "END"
    BY <1>4 DEF Event
  <2>2. e \in EventRecord
    BY <1>1, <1>4 DEF TypeOK, Index, Event, EventRecord
  <2>3. Stated(e)'
    BY <1>1, <2>1 DEF Stated, IsInterval
  <2>4. \A k \in DOMAIN events : ~SameKey(events[k], e)
    BY <1>1, <1>4, NewKeys
  <2>5. Present => ~SameKey(a, e)
    BY <1>8, <2>1 DEF Rank, SameKey
  <2> QED BY <2>1, <2>2, <2>3, <2>4, <2>5
<1>10. PICK R : R = EventRecord
  OBVIOUS
<1>11. events \in Seq(R) /\ A \in Seq(R) /\ <<e>> \in Seq(R)
  BY <1>1, <1>5, <1>6, <1>8, <1>9, <1>10 DEF TypeOK
<1>12. PICK new \in Seq(R) :
         /\ events' = events \o new
         /\ KeysDiffer(new)
         /\ \A f : Said(new, f) <=> (Present /\ f = a) \/ f = e
  <2>1. KeysDiffer(A) /\ KeysDiffer(<<e>>)
    BY <1>5, SaidInShort
  <2>2. \A f : Said(A, f) <=> Present /\ f = a
    BY <1>5, <1>6, SaidInShort
  <2>3. \A f : Said(<<e>>, f) <=> f = e
    BY SaidInShort
  <2>4. PICK E \in Seq(R) : E = <<e>>
    BY <1>11
  <2>5. \A j \in DOMAIN A, k \in DOMAIN E : ~SameKey(A[j], E[k])
    BY <2>2, <2>3, <2>4, <1>9 DEF Said
  <2>6. /\ \A f : Said(A \o E, f) <=> Said(A, f) \/ Said(E, f)
        /\ KeysDiffer(A \o E)
    BY <1>11, <2>1, <2>4, <2>5, SaidInConcat
  <2>7. PICK x \in Seq(R) : x = A \o E
    BY <1>11, ConcatProperties
  <2>8. KeysDiffer(x) /\ \A f : Said(x, f) <=> Said(A, f) \/ Said(E, f)
    BY <2>6, <2>7, Zenon
  <2>9. \A f : Said(x, f) <=> (Present /\ f = a) \/ f = e
    BY <2>2, <2>3, <2>4, <2>8
  <2>10. events' = events \o x
    <3>1. \A t, u \in Seq(R) : (events \o t) \o u = events \o (t \o u)
      BY <1>11, Regroup
    <3>2. (events \o A) \o E = events \o (A \o E)
      BY <1>11, <3>1, Zenon
    <3> QED BY <1>7, <2>4, <2>7, <3>2, Zenon
  <2> QED BY <2>8, <2>9, <2>10, Zenon
<1>13. \A f : Said(new, f) =>
         Stated(f)' /\ \A k \in DOMAIN events : ~SameKey(events[k], f)
  <2> SUFFICES ASSUME NEW f, Said(new, f)
               PROVE  Stated(f)' /\ \A k \in DOMAIN events : ~SameKey(events[k], f)
    OBVIOUS
  <2>1. CASE Present /\ f = a
    BY <1>8, <2>1
  <2>2. CASE f = e
    BY <1>9, <2>2
  <2> QED BY <1>12, <2>1, <2>2
<1>14. Said(new, Event("END", Len(obs'), 0))
  BY <1>1, <1>4, <1>12
<1>15. \A i \in Index : obs'[i] = obs[i]
  BY <1>1
<1>16. CASE Present
  <2>1. Said(new, IntervalEvent(p)) /\ presence' = Append(presence, p)
    BY <1>3, <1>7, <1>12, <1>16
  <2> QED BY <1>1, <1>8, <1>11, <1>12, <1>13, <1>14, <1>15, <1>16, <2>1,
             ClosingChronicle
<1>17. CASE ~Present
  <2>1. /\ \A k \in DOMAIN presence : k \in DOMAIN presence' /\ presence'[k] = presence[k]
        /\ DOMAIN presence' \ DOMAIN presence = {}
    BY <1>7, <1>17
  <2> QED BY <1>1, <1>11, <1>12, <1>13, <1>14, <1>15, <1>17, <2>1, ChronicleGrows
<1> QED BY <1>16, <1>17

\* A fix is later than the one before it, and so than all.
LEMMA ClockStep ==
  ASSUME Inductive, Clock, NEW o \in Incoming, Consume(o)
  PROVE  Clock'
<1>1. /\ o \in Observation /\ TypeOK
      /\ Len(obs) \in Nat \ {0} /\ Now = Len(obs) + 1
      /\ obs'[Now] = o /\ \A i \in 1 .. Len(obs) : obs'[i] = obs[i]
      /\ Index = 1 .. Len(obs) /\ Index' = 1 .. Now
  BY Reading, Read
<1>2. \A i \in Index : obs[i].ts \in Nat
  BY <1>1, ObservationAt DEF Observation
<1>3. o.ts > obs[Len(obs)].ts
  <2>1. PICK fix \in Fix : o = Measured(obs[Len(obs)], fix)
    BY DEF Incoming
  <2>2. o.ts = obs[Len(obs)].ts + fix.dt
    BY <2>1 DEF Measured
  <2>3. fix.dt \in Nat \ {0}
    BY <2>1, StepAssumption DEF Fix
  <2> QED BY <1>1, <1>2, <2>2, <2>3
<1>4. \A i \in Index : obs[i].ts <= obs[Len(obs)].ts
  <2> SUFFICES ASSUME NEW i \in Index PROVE obs[i].ts <= obs[Len(obs)].ts
    OBVIOUS
  <2>1. CASE i = Len(obs)
    BY <1>1, <1>2, <2>1
  <2>2. CASE i < Len(obs)
    BY <1>1, <2>2, <1>2 DEF Clock
  <2> QED BY <1>1, <2>1, <2>2
<1>5. ASSUME NEW i \in Index', NEW j \in Index', i < j
      PROVE  obs'[i].ts < obs'[j].ts
  <2>1. CASE j = Now
    BY <1>1, <1>5, <2>1, <1>2, <1>4, <1>3 DEF Observation
  <2>2. CASE j # Now
    BY <1>1, <1>5, <2>2 DEF Clock
  <2> QED BY <2>1, <2>2
<1> QED BY <1>5 DEF Clock

\* Events of different keys are sorted into the order of time and rank.
LEMMA SortedInOrder ==
  ASSUME TypeOK, Clock, NEW es \in Seq(EventRecord), KeysDiffer(es)
  PROVE  /\ SortedEvents(es) \in Seq(EventRecord)
         /\ \A j, k \in DOMAIN SortedEvents(es) :
              j < k <=> Earlier(SortedEvents(es)[j], SortedEvents(es)[k])
         /\ \A e : Said(SortedEvents(es), e) <=> Said(es, e)
<1>1. PICK n \in Nat : n = Len(es)
  OBVIOUS
<1>2. DOMAIN es = 1 .. n /\ \A k \in 1 .. n : es[k] \in EventRecord
  BY <1>1
<1>3. \A j, k \in 1 .. n : j < k => ~SameKey(es[j], es[k])
  BY <1>2 DEF KeysDiffer
<1>0. SortedBy(n, es)
  BY <1>2, <1>3, SortedPlaces
<1>4. PICK place \in [1 .. n -> 1 .. n] :
        /\ \A j, k \in 1 .. n : place[j] < place[k] <=> Earlier(es[j], es[k])
        /\ \A m \in 1 .. n : \E k \in 1 .. n : place[k] = m
        /\ DOMAIN SortedEvents(es) = 1 .. n
        /\ \A k \in 1 .. n : SortedEvents(es)[place[k]] = es[k]
  BY <1>0 DEF SortedBy
<1>5. PICK sorted : sorted = SortedEvents(es)
  OBVIOUS
<1>6. /\ DOMAIN sorted = 1 .. n
      /\ \A k \in 1 .. n : sorted[place[k]] = es[k]
      /\ \A m \in 1 .. n : \E k \in 1 .. n : place[k] = m
      /\ \A k \in 1 .. n : place[k] \in 1 .. n
  BY <1>4, <1>5
<1>7. sorted \in Seq(EventRecord)
  <2>1. sorted = [m \in DOMAIN sorted |-> sorted[m]]
    BY <1>5 DEF SortedEvents
  <2>2. \A m \in 1 .. n : sorted[m] \in EventRecord
    BY <1>2, <1>6
  <2> QED BY <1>6, <2>1, <2>2
<1>8. \A j, k \in DOMAIN sorted : j < k <=> Earlier(sorted[j], sorted[k])
  <2> SUFFICES ASSUME NEW j \in 1 .. n, NEW k \in 1 .. n
               PROVE  j < k <=> Earlier(sorted[j], sorted[k])
    BY <1>6
  <2>1. PICK x \in 1 .. n : place[x] = j
    BY <1>6
  <2>2. PICK y \in 1 .. n : place[y] = k
    BY <1>6
  <2>3. sorted[j] = es[x] /\ sorted[k] = es[y]
    BY <1>6, <2>1, <2>2
  <2> QED BY <1>4, <2>1, <2>2, <2>3
<1>9. \A e : Said(sorted, e) <=> Said(es, e)
  <2> SUFFICES ASSUME NEW e PROVE Said(sorted, e) <=> Said(es, e)
    OBVIOUS
  <2>1. ASSUME Said(sorted, e) PROVE Said(es, e)
    <3>1. PICK m \in 1 .. n : sorted[m] = e
      BY <1>6, <2>1 DEF Said
    <3>2. PICK x \in 1 .. n : place[x] = m
      BY <1>6
    <3> QED BY <1>2, <1>6, <3>1, <3>2 DEF Said
  <2>2. ASSUME Said(es, e) PROVE Said(sorted, e)
    <3>1. PICK x \in 1 .. n : es[x] = e
      BY <1>2, <2>2 DEF Said
    <3> QED BY <1>6, <3>1 DEF Said
  <2> QED BY <2>1, <2>2
<1> QED BY <1>5, <1>7, <1>8, <1>9

\* What is returned is what the sort makes of the events.
LEMMA FinishInOrder ==
  ASSUME Evidence, Clock, Evidence', Chronicle', Finish
  PROVE  InOrder'
<1>1. TypeOK /\ TypeOK' /\ obs' = obs
  BY DEF Evidence, Inductive, Finish
<1>2. PICK fin : fin = events'
  OBVIOUS
<1>3. EventRecord' = EventRecord
  BY <1>1 DEF EventRecord, Index
<1>4. fin \in Seq(EventRecord)
  BY <1>1, <1>2, <1>3 DEF TypeOK
<1>5. KeysDiffer(fin)
  BY <1>2 DEF Chronicle, KeysDiffer
<1>6. result'.events = SortedEvents(fin)
  BY <1>2 DEF Finish
<1>7. /\ SortedEvents(fin) \in Seq(EventRecord)
      /\ \A j, k \in DOMAIN SortedEvents(fin) :
           j < k <=> Earlier(SortedEvents(fin)[j], SortedEvents(fin)[k])
      /\ \A e : Said(SortedEvents(fin), e) <=> Said(fin, e)
  BY <1>1, <1>4, <1>5, SortedInOrder
<1>8. /\ result'.events \in Seq(EventRecord')
      /\ \A j, k \in DOMAIN result'.events :
           j < k <=> Earlier(result'.events[j], result'.events[k])
  BY <1>3, <1>6, <1>7
<1>9. \A e : Said(result'.events, e) <=> Said(events', e)
  BY <1>2, <1>6, <1>7
<1> QED BY <1>8, <1>9 DEF InOrder, Said, Earlier

\* The inductive invariant.
Timeline == Evidence /\ Chronicle /\ Clock /\ InOrder

\* One event, the START.
LEMMA InitTimeline == Init => Timeline
<1> SUFFICES ASSUME Init PROVE Timeline
  OBVIOUS
<1>1. Evidence
  BY InitEvidence
<1>2. ~Finished /\ presence = <<>> /\ Len(obs) = 1
  BY DEF Init, Finished
<1>3. Chronicle
  <2>1. PICK e : e = Event("START", 1, 0)
    OBVIOUS
  <2>2. events = <<e>>
    BY <2>1 DEF Init
  <2>3. KeysDiffer(events) /\ \A f : Said(events, f) <=> f = e
    BY <2>2, SaidInShort
  <2>4. \A k \in DOMAIN events : events[k] = e
    BY <2>3 DEF Said
  <2>5. Stated(e)
    BY <2>1 DEF Stated, Event, IsInterval
  <2>6. DOMAIN presence = {}
    BY <1>2
  <2> QED BY <1>2, <2>1, <2>3, <2>4, <2>5, <2>6 DEF Chronicle
<1>4. Clock
  BY <1>2 DEF Clock, Index
<1> QED BY <1>1, <1>2, <1>3, <1>4 DEF Timeline, InOrder

\* Every step preserves the timeline.
LEMMA NextTimeline == Timeline /\ [Next]_vars => Timeline'
<1> SUFFICES ASSUME Timeline, [Next]_vars PROVE Timeline'
  OBVIOUS
<1>1. Evidence /\ Evidence' /\ Chronicle /\ Clock /\ InOrder /\ Inductive
  BY NextEvidence DEF Timeline, Evidence
<1>2. ASSUME NEW o \in Incoming, Consume(o) PROVE Clock' /\ InOrder'
  BY <1>1, <1>2, ClockStep, Reading DEF InOrder
<1>3. ASSUME NEW o \in Incoming, ContinuityBreak(o) PROVE Timeline'
  BY <1>1, <1>2, <1>3, BreakChronicle DEF ContinuityBreak, Timeline
<1>4. ASSUME NEW o \in Incoming, ConfirmArrival(o) PROVE Timeline'
  BY <1>1, <1>2, <1>4, ArrivalChronicle DEF ConfirmArrival, Timeline
<1>5. ASSUME NEW o \in Incoming,
             \/ ConfirmPresence(o) \/ Reanchor(o) \/ RemainInside(o)
             \/ StartCandidate(o) \/ RestartCandidate(o)
      PROVE  Timeline'
  <2>1. Consume(o)
    BY <1>5 DEF ConfirmPresence, Reanchor, RemainInside, StartCandidate,
                RestartCandidate
  <2>2. Chronicle'
    BY <1>1, <1>5, SilentChronicle
  <2> QED BY <1>1, <1>2, <2>1, <2>2 DEF Timeline
<1>6. ASSUME NEW o \in Incoming, DepartUnconfirmed(o) \/ ConfirmDeparture(o)
      PROVE  Timeline'
  BY <1>6, <1>1, DepartChronicle, <1>2 DEF DepartUnconfirmed, ConfirmDeparture,
     Timeline
<1>7. CASE Finish
  BY <1>1, <1>7, FinishChronicle, FinishInOrder DEF Finish, Clock, Index,
     Timeline
<1>8. CASE UNCHANGED vars
  <2>1. UNCHANGED <<obs, state, events, presence, result>>
    BY <1>8 DEF vars
  <2>2. \A e : Stated(e) => Stated(e)'
    BY <2>1 DEF Stated, Finished, Present
  <2>3. \A p : Recorded(p) => Recorded(p)'
    BY <2>1 DEF Recorded, Said
  <2>4. \A k \in DOMAIN events' : Stated(events[k])'
    BY <1>1, <2>1, <2>2 DEF Chronicle
  <2>5. \A k \in DOMAIN presence' : Recorded(presence[k])'
    BY <1>1, <2>1, <2>3 DEF Chronicle
  <2>6. Chronicle'
    BY <1>1, <2>1, <2>4, <2>5 DEF Chronicle, KeysDiffer, Said, Finished
  <2>7. Clock' /\ InOrder'
    BY <1>1, <2>1 DEF Clock, InOrder, Index, EventRecord, Finished, Said
  <2> QED BY <1>1, <2>6, <2>7 DEF Timeline
<1> QED BY <1>3, <1>4, <1>5, <1>6, <1>7, <1>8 DEF Next

LEMMA SpecTimeline == Spec => []Timeline
BY InitTimeline, NextTimeline, PTL DEF Spec

-----------------------------------------------------------------------------
(* The story.                                                              *)

\* The one place where the last event of a kind before k is.
LEMMA LastOf ==
  ASSUME NEW es, NEW k \in Nat, NEW S, NEW j \in 1 .. k - 1, es[j].source \in S,
         \A i \in j + 1 .. k - 1 : es[i].source \notin S
  PROVE  (CHOOSE m \in 1 .. k - 1 :
            es[m].source \in S /\ \A i \in m + 1 .. k - 1 : es[i].source \notin S) = j
<1> DEFINE P(m) ==
      es[m].source \in S /\ \A i \in m + 1 .. k - 1 : es[i].source \notin S
<1>1. P(j)
  OBVIOUS
<1>2. ASSUME NEW m \in 1 .. k - 1, P(m) PROVE m = j
  <2>1. ~(m < j)
    <3> SUFFICES ASSUME m < j PROVE FALSE
      OBVIOUS
    <3>1. j \in m + 1 .. k - 1
      OBVIOUS
    <3> QED BY <1>2, <3>1
  <2>2. ~(j < m)
    <3> SUFFICES ASSUME j < m PROVE FALSE
      OBVIOUS
    <3>1. m \in j + 1 .. k - 1
      OBVIOUS
    <3> QED BY <1>2, <3>1
  <2> QED BY <2>1, <2>2
<1> HIDE DEF P
<1>3. (CHOOSE m \in 1 .. k - 1 : P(m)) = j
  BY <1>1, <1>2
<1> QED BY <1>3 DEF P

\* The closed presences, in time.
LEMMA PresencesInTime ==
  ASSUME Evidence
  PROVE  /\ \A k \in DOMAIN presence :
              /\ k \in Nat
              /\ presence[k].start \in Nat /\ presence[k].end \in Nat
              /\ presence[k].start < presence[k].end
              /\ Unbroken(presence[k].start, presence[k].end)
              /\ presence[k].class \in {"STAY", "DWELL"}
         /\ \A j, k \in DOMAIN presence :
              j < k => presence[j].end < presence[k].start
<1>1. ASSUME NEW k \in DOMAIN presence
      PROVE  k \in Nat /\ presence[k].start \in Nat /\ presence[k].end \in Nat
  BY PresenceFields DEF Evidence, Inductive, Index
<1>2. ASSUME NEW k \in DOMAIN presence PROVE presence[k].class \in {"STAY", "DWELL"}
  <2>1. presence[k] \in PresenceInterval
    BY DEF Evidence, Inductive, TypeOK
  <2> QED BY <2>1 DEF PresenceInterval
<1> QED BY <1>1, <1>2 DEF Evidence, PresencesSound, Sound, PresencesOrdered

\* The timeline once it is returned.
LEMMA Returned ==
  ASSUME Timeline, Finished, NEW es, es = result.events
  PROVE  /\ Len(es) \in Nat /\ DOMAIN es = 1 .. Len(es)
         /\ \A k \in 1 .. Len(es) :
              /\ es[k] \in EventRecord /\ Stated(es[k])
              /\ es[k].at \in 1 .. Len(obs) /\ es[k].source \in Source
              /\ Rank(es[k].source) \in 0 .. 6
         /\ \A j, k \in 1 .. Len(es) : j < k <=> Earlier(es[j], es[k])
         /\ \A e : Said(events, e) => \E k \in 1 .. Len(es) : es[k] = e
<1>1. /\ es \in Seq(EventRecord)
      /\ \A j, k \in DOMAIN es : j < k <=> Earlier(es[j], es[k])
      /\ \A e : Said(es, e) <=> Said(events, e)
  BY DEF Timeline, InOrder
<1>2. Len(es) \in Nat /\ DOMAIN es = 1 .. Len(es)
  BY <1>1
<1>3. ASSUME NEW k \in 1 .. Len(es)
      PROVE  /\ es[k] \in EventRecord /\ Stated(es[k])
             /\ es[k].at \in 1 .. Len(obs) /\ es[k].source \in Source
             /\ Rank(es[k].source) \in 0 .. 6
  <2>1. es[k] \in EventRecord
    BY <1>1, <1>2
  <2>2. Said(events, es[k])
    BY <1>1, <1>2 DEF Said
  <2>3. Stated(es[k])
    BY <2>2 DEF Timeline, Chronicle, Said
  <2>4. es[k].at \in 1 .. Len(obs) /\ es[k].source \in Source
    BY <2>1 DEF EventRecord, Index, Source
  <2> QED BY <2>1, <2>3, <2>4, RankType
<1>4. \A e : Said(events, e) => \E k \in 1 .. Len(es) : es[k] = e
  BY <1>1, <1>2 DEF Said
<1> QED BY <1>1, <1>2, <1>3, <1>4

\* START is the least of the events and END the greatest.
LEMMA EndsOfStory ==
  ASSUME Timeline, Finished, NEW es, es = result.events
  PROVE  /\ es[1].source = "START" /\ es[Len(es)].source = "END"
         /\ 1 \in 1 .. Len(es)
<1>1. /\ Len(es) \in Nat
      /\ \A k \in 1 .. Len(es) :
           es[k].at \in 1 .. Len(obs) /\ Rank(es[k].source) \in 0 .. 6
      /\ \A j, k \in 1 .. Len(es) : j < k <=> Earlier(es[j], es[k])
      /\ \A e : Said(events, e) => \E k \in 1 .. Len(es) : es[k] = e
  BY Returned
<1>2. Len(obs) \in Nat
  BY DEF Timeline, Evidence, Inductive, TypeOK
<1>3. PICK s \in 1 .. Len(es) : es[s] = Event("START", 1, 0)
  BY <1>1 DEF Timeline, Chronicle
<1>4. PICK n \in 1 .. Len(es) : es[n] = Event("END", Len(obs), 0)
  BY <1>1 DEF Timeline, Chronicle
<1>5. /\ es[s].source = "START" /\ es[s].at = 1 /\ Rank(es[s].source) = 0
      /\ es[n].source = "END" /\ es[n].at = Len(obs) /\ Rank(es[n].source) = 6
  BY <1>3, <1>4 DEF Event, Rank
<1>6. 1 \in 1 .. Len(es) /\ Len(es) \in 1 .. Len(es)
  BY <1>1
<1>7. s = 1
  <2> SUFFICES ASSUME 1 < s PROVE FALSE
    BY <1>1
  <2>1. Earlier(es[1], es[s])
    BY <1>1, <1>6
  <2> QED BY <1>1, <1>2, <1>5, <1>6, <2>1 DEF Earlier
<1>8. n = Len(es)
  <2> SUFFICES ASSUME n < Len(es) PROVE FALSE
    BY <1>1
  <2>1. Earlier(es[n], es[Len(es)])
    BY <1>1, <1>6
  <2> QED BY <1>1, <1>2, <1>5, <1>6, <2>1 DEF Earlier
<1> QED BY <1>5, <1>6, <1>7, <1>8

\* No two events need the hash of their ids to be told apart.
LEMMA OrderOfStory ==
  ASSUME Timeline, Finished, NEW es, es = result.events,
         NEW k \in 1 .. Len(es) - 1
  PROVE  Precedes(es[k], es[k + 1])
<1>1. k \in 1 .. Len(es) /\ k + 1 \in 1 .. Len(es) /\ k < k + 1
  BY Returned
<1>2. Earlier(es[k], es[k + 1]) /\ es[k] \in EventRecord /\ es[k + 1] \in EventRecord
  BY <1>1, Returned
<1> QED BY <1>2, PrecedesIsEarlier DEF Timeline, Evidence, Inductive

\* What was left is the last interval before its LEAVE.
LEMMA LeaveInStory ==
  ASSUME Timeline, Finished, NEW es, es = result.events,
         NEW k \in 1 .. Len(es), es[k].source = "LEAVE"
  PROVE  \E m \in 1 .. k - 1 :
           /\ IsInterval(es[m]) /\ es[m].presence = es[k].presence
           /\ \A i \in m + 1 .. k - 1 : ~IsInterval(es[i])
<1>1. /\ Len(es) \in Nat
      /\ \A j \in 1 .. Len(es) : Stated(es[j]) /\ es[j].at \in 1 .. Len(obs)
      /\ \A i, j \in 1 .. Len(es) : i < j <=> Earlier(es[i], es[j])
      /\ \A e : Said(events, e) => \E j \in 1 .. Len(es) : es[j] = e
  BY Returned
<1>2. PICK q \in DOMAIN presence :
        /\ es[k].at = presence[q].end /\ es[k].presence = presence[q].start
  BY <1>1 DEF Stated
<1>3. /\ \A r \in DOMAIN presence :
           /\ r \in Nat /\ presence[r].start \in Nat /\ presence[r].end \in Nat
           /\ presence[r].start < presence[r].end
      /\ \A r, t \in DOMAIN presence : r < t => presence[r].end < presence[t].start
  BY PresencesInTime DEF Timeline
<1>4. PICK m \in 1 .. Len(es) : es[m] = IntervalEvent(presence[q])
  BY <1>1 DEF Timeline, Chronicle, Recorded
<1>5. ASSUME NEW i \in 1 .. Len(es), IsInterval(es[i])
      PROVE  /\ \E r \in DOMAIN presence : es[i].at = presence[r].start
             /\ Rank(es[i].source) = 2
  <2>1. \E r \in DOMAIN presence : es[i] = IntervalEvent(presence[r])
    BY <1>1, <1>5 DEF Stated
  <2>2. Rank("STAY") = 2 /\ Rank("DWELL") = 2
    BY DEF Rank
  <2> QED BY <1>5, <2>1, <2>2 DEF IntervalEvent, Event, IsInterval
<1>6. Rank(es[k].source) = 3
  BY DEF Rank
<1>7. es[m].at = presence[q].start /\ es[m].presence = presence[q].start
  BY <1>4 DEF IntervalEvent, Event
<1>8. IsInterval(es[m])
  BY PresencesInTime, <1>4 DEF Timeline, IntervalEvent, Event, IsInterval
<1>9. m < k
  BY <1>1, <1>2, <1>3, <1>7 DEF Earlier
<1>10. ASSUME NEW i \in m + 1 .. k - 1 PROVE ~IsInterval(es[i])
  <2> SUFFICES ASSUME IsInterval(es[i]) PROVE FALSE
    OBVIOUS
  <2>1. i \in 1 .. Len(es) /\ m < i /\ i < k
    BY <1>1, <1>9
  <2>2. Earlier(es[m], es[i]) /\ Earlier(es[i], es[k])
    BY <1>1, <2>1
  <2>3. PICK r \in DOMAIN presence : es[i].at = presence[r].start
    BY <1>5, <2>1
  <2>4. Rank(es[i].source) = 2 /\ Rank(es[m].source) = 2
    BY <1>5, <1>8, <2>1
  <2>5. presence[q].start < presence[r].start /\ presence[r].start <= presence[q].end
    BY <1>2, <1>3, <1>6, <1>7, <2>2, <2>3, <2>4 DEF Earlier
  <2>6. CASE r < q
    BY <1>3, <2>6, <2>5
  <2>7. CASE r = q
    BY <1>3, <2>5, <2>7
  <2>8. CASE q < r
    BY <1>3, <2>8, <2>5
  <2> QED BY <1>3, <2>6, <2>7, <2>8
<1>11. m \in 1 .. k - 1
  BY <1>1, <1>9
<1> QED BY <1>2, <1>7, <1>8, <1>10, <1>11

\* The interval of a presence directly follows its ENTER.
LEMMA EnterInStory ==
  ASSUME Timeline, Finished, NEW es, es = result.events,
         NEW k \in 1 .. Len(es), es[k].source = "ENTER"
  PROVE  /\ IsInterval(es[k + 1]) /\ es[k + 1].presence = es[k].presence
         /\ \E q \in DOMAIN presence :
              presence[q].entered /\ presence[q].start = es[k].at
<1>1. /\ Len(es) \in Nat
      /\ \A j \in 1 .. Len(es) :
           /\ Stated(es[j]) /\ es[j].at \in 1 .. Len(obs)
           /\ Rank(es[j].source) \in 0 .. 6
      /\ \A i, j \in 1 .. Len(es) : i < j <=> Earlier(es[i], es[j])
      /\ \A e : Said(events, e) => \E j \in 1 .. Len(es) : es[j] = e
  BY Returned
<1>2. PICK q \in DOMAIN presence :
        presence[q].entered /\ presence[q].start = es[k].at
  BY <1>1 DEF Stated
<1>3. es[k].presence = es[k].at
  BY <1>1 DEF Stated
<1>4. PICK m \in 1 .. Len(es) : es[m] = IntervalEvent(presence[q])
  BY <1>1 DEF Timeline, Chronicle, Recorded
<1>5. /\ es[m].at = es[k].at /\ es[m].presence = es[k].presence
      /\ IsInterval(es[m]) /\ Rank(es[m].source) = 2
  <2>1. presence[q].class \in {"STAY", "DWELL"}
    BY PresencesInTime DEF Timeline
  <2>2. Rank("STAY") = 2 /\ Rank("DWELL") = 2
    BY DEF Rank
  <2> QED BY <1>2, <1>3, <1>4, <2>1, <2>2 DEF IntervalEvent, Event, IsInterval
<1>6. Rank(es[k].source) = 1
  BY DEF Rank
<1>7. k < m
  BY <1>1, <1>5, <1>6 DEF Earlier
<1>8. m = k + 1
  <2> SUFFICES ASSUME k + 1 < m PROVE FALSE
    BY <1>1, <1>7
  <2>1. k + 1 \in 1 .. Len(es) /\ k < k + 1
    BY <1>1
  <2>2. Earlier(es[k], es[k + 1]) /\ Earlier(es[k + 1], es[m])
    BY <1>1, <2>1
  <2>3. es[k + 1].at \in Nat /\ es[k].at \in Nat /\ Rank(es[k + 1].source) \in Nat
    BY <1>1, <2>1
  <2> QED BY <1>5, <1>6, <2>2, <2>3 DEF Earlier
<1> QED BY <1>2, <1>5, <1>8

\* The events after which a departure is no longer, or not yet, under way.
Reset == {"LEAVE", "GAP", "DISCONTINUITY", "ENTER"}

\* The last LEAVE, break or ENTER before an ENTER is the LEAVE it arrives from.
LEMMA ArrivalInStory ==
  ASSUME Timeline, Finished, NEW es, es = result.events,
         NEW k \in 1 .. Len(es), es[k].source = "ENTER"
  PROVE  \E m \in 1 .. k - 1 :
           /\ es[m].source = "LEAVE"
           /\ \A i \in m + 1 .. k - 1 : es[i].source \notin Reset
<1>1. /\ Len(es) \in Nat
      /\ \A j \in 1 .. Len(es) : Stated(es[j]) /\ es[j].at \in 1 .. Len(obs)
      /\ \A i, j \in 1 .. Len(es) : i < j <=> Earlier(es[i], es[j])
      /\ \A e : Said(events, e) => \E j \in 1 .. Len(es) : es[j] = e
  BY Returned
<1>2. /\ \A r \in DOMAIN presence :
           /\ r \in Nat /\ presence[r].start \in Nat /\ presence[r].end \in Nat
           /\ presence[r].start < presence[r].end
           /\ Unbroken(presence[r].start, presence[r].end)
      /\ \A r, t \in DOMAIN presence : r < t => presence[r].end < presence[t].start
  BY PresencesInTime DEF Timeline
<1>3. PICK a \in DOMAIN presence :
        presence[a].entered /\ presence[a].start = es[k].at
  BY EnterInStory
<1>4. PICK t \in DOMAIN transitions : transitions[t].destination = presence[a].start
  BY <1>3 DEF Timeline, Evidence, TransitionsLink
<1>5. PICK q \in DOMAIN presence : LinkedTo(transitions[t], q)
  BY LinkParts DEF Timeline, Evidence, PresencesLinked
<1>6. /\ presence[q].end = transitions[t].depart
      /\ presence[q].endReason = "confirmed_movement"
      /\ q + 1 \in DOMAIN presence
      /\ presence[q + 1].start = es[k].at
  <2>1. /\ presence[q].end = transitions[t].depart
        /\ presence[q].endReason = "confirmed_movement"
        /\ q < Len(presence)
        /\ presence[q + 1].start = transitions[t].destination
    BY <1>5 DEF LinkedTo
  <2>2. DOMAIN presence = 1 .. Len(presence)
    BY DEF Timeline, Evidence, Inductive, TypeOK
  <2> QED BY <1>2, <1>3, <1>4, <2>1, <2>2
<1>7. Unbroken(presence[q].end, es[k].at)
  BY <1>3, <1>4, <1>6 DEF Timeline, Evidence, TransitionsSound
<1>8. PICK m \in 1 .. Len(es) :
        es[m] = Event("LEAVE", presence[q].end, presence[q].start)
  BY <1>1, <1>6 DEF Timeline, Chronicle, Recorded
<1>9. es[m].source = "LEAVE" /\ es[m].at = presence[q].end
  BY <1>8 DEF Event
<1>10. /\ q < q + 1 /\ presence[q].end < es[k].at
       /\ es[k].at < presence[q + 1].end
  BY <1>2, <1>6
<1>11. m < k
  BY <1>1, <1>9, <1>10 DEF Earlier
<1>12. /\ Rank("LEAVE") = 3 /\ Rank("ENTER") = 1
       /\ Rank("GAP") = 4 /\ Rank("DISCONTINUITY") = 5
  BY DEF Rank
<1>13. ASSUME NEW i \in m + 1 .. k - 1 PROVE es[i].source \notin Reset
  <2> DEFINE x == es[i]
  <2>1. i \in 1 .. Len(es) /\ m < i /\ i < k
    BY <1>1, <1>11
  <2>2. Earlier(es[m], x) /\ Earlier(x, es[k])
    BY <1>1, <2>1
  <2>3. Stated(x) /\ x.at \in Nat /\ es[k].at \in Nat /\ presence[q].end \in Nat
    BY <1>1, <1>2, <2>1
  <2> HIDE DEF x
  <2>4. ASSUME x.source \in {"GAP", "DISCONTINUITY"} PROVE FALSE
    <3>1. x.at >= presence[q].end /\ x.at < es[k].at
      BY <1>9, <1>12, <2>2, <2>3, <2>4 DEF Earlier
    <3>2. CASE x.at = presence[q].end
      BY <1>2, <3>2, <2>3, <2>4 DEF Unbroken, Stated
    <3>3. CASE x.at > presence[q].end
      BY <2>3, <3>1, <3>3, <1>7, <2>4 DEF Unbroken, Stated
    <3> QED BY <2>3, <3>1, <3>2, <3>3
  <2>5. ASSUME NEW r \in DOMAIN presence, NEW y \in {presence[r].start, presence[r].end},
               presence[q].end < y, y < es[k].at
        PROVE  FALSE
    <3>1. CASE r <= q
      <4>1. CASE r = q
        BY <1>2, <2>5, <4>1
      <4>2. CASE r < q
        <5>1. presence[r].end < presence[q].start
          BY <1>2, <4>2
        <5> QED BY <1>2, <2>5, <5>1
      <4> QED BY <1>2, <3>1, <4>1, <4>2
    <3>2. CASE r = q + 1
      BY <1>2, <1>6, <2>3, <2>5, <3>2
    <3>3. CASE q + 1 < r
      <4>1. presence[q + 1].end < presence[r].start
        BY <1>2, <1>6, <3>3
      <4> QED BY <1>2, <1>6, <1>10, <2>3, <2>5, <4>1
    <3> QED BY <1>2, <3>1, <3>2, <3>3
  <2>6. ASSUME x.source = "LEAVE" PROVE FALSE
    <3>1. PICK r \in DOMAIN presence : x.at = presence[r].end
      BY <2>3, <2>6 DEF Stated
    <3>2. presence[q].end < x.at /\ x.at < es[k].at
      BY <1>9, <1>12, <2>2, <2>3, <2>6 DEF Earlier
    <3> QED BY <2>5, <3>1, <3>2
  <2>7. ASSUME x.source = "ENTER" PROVE FALSE
    <3>1. PICK r \in DOMAIN presence : x.at = presence[r].start
      BY <2>3, <2>7 DEF Stated
    <3>2. presence[q].end < x.at /\ x.at < es[k].at
      BY <1>9, <1>12, <2>2, <2>3, <2>7 DEF Earlier
    <3> QED BY <2>5, <3>1, <3>2
  <2> QED BY <2>4, <2>6, <2>7 DEF Reset, x
<1>14. m \in 1 .. k - 1
  BY <1>1, <1>11
<1> QED BY <1>9, <1>13, <1>14

\* The sorted events of Eventize tell one story whatever the fixes were: the
\* sort never needs the hashed event id, an ENTER directly precedes its own
\* interval and arrives from the LEAVE before it, and that LEAVE follows the
\* interval it left.
THEOREM TimelineAlwaysTellsOneStory == Spec => []TimelineTellsOneStory
<1>1. ASSUME Timeline PROVE TimelineTellsOneStory
  <2> DEFINE last(es, k, S) ==
        CHOOSE j \in 1 .. k - 1 :
          es[j].source \in S /\ \A i \in j + 1 .. k - 1 : es[i].source \notin S
             story(es) ==
           /\ es[1].source = "START" /\ es[Len(es)].source = "END"
           /\ \A k \in 1 .. Len(es) - 1 : Precedes(es[k], es[k + 1])
           /\ \A k \in DOMAIN es :
                es[k].source = "ENTER" =>
                  /\ IsInterval(es[k + 1]) /\ es[k + 1].presence = es[k].presence
                  /\ \E j \in 1 .. k - 1 :
                       es[j].source \in {"LEAVE", "GAP", "DISCONTINUITY", "ENTER"}
                  /\ es[last(es, k, {"LEAVE", "GAP", "DISCONTINUITY", "ENTER"})].source
                       = "LEAVE"
           /\ \A k \in DOMAIN es :
                es[k].source = "LEAVE" =>
                  /\ \E j \in 1 .. k - 1 : IsInterval(es[j])
                  /\ es[last(es, k, {"STAY", "DWELL"})].presence = es[k].presence
  <2>1. ASSUME Finished, NEW es, es = result.events
        PROVE  story(es)
    <3>1. es[1].source = "START" /\ es[Len(es)].source = "END"
      BY <1>1, <2>1, EndsOfStory
    <3>2. \A k \in 1 .. Len(es) - 1 : Precedes(es[k], es[k + 1])
      BY <1>1, <2>1, OrderOfStory
    <3>3. DOMAIN es = 1 .. Len(es) /\ Len(es) \in Nat
      BY <1>1, <2>1, Returned
    <3>4. ASSUME NEW k \in DOMAIN es, es[k].source = "ENTER"
          PROVE  /\ IsInterval(es[k + 1]) /\ es[k + 1].presence = es[k].presence
                 /\ \E j \in 1 .. k - 1 : es[j].source \in Reset
                 /\ es[last(es, k, Reset)].source = "LEAVE"
      <4>1. k \in 1 .. Len(es) /\ k \in Nat
        BY <3>3
      <4>2. PICK m \in 1 .. k - 1 :
              /\ es[m].source = "LEAVE"
              /\ \A i \in m + 1 .. k - 1 : es[i].source \notin Reset
        BY <1>1, <2>1, <3>4, <4>1, ArrivalInStory
      <4>3. es[m].source \in Reset
        BY <4>2 DEF Reset
      <4>4. last(es, k, Reset) = m
        BY <4>1, <4>2, <4>3, LastOf
      <4>5. IsInterval(es[k + 1]) /\ es[k + 1].presence = es[k].presence
        BY <1>1, <2>1, <3>4, <4>1, EnterInStory
      <4> HIDE DEF last
      <4> QED BY <4>2, <4>3, <4>4, <4>5
    <3>5. ASSUME NEW k \in DOMAIN es, es[k].source = "LEAVE"
          PROVE  /\ \E j \in 1 .. k - 1 : IsInterval(es[j])
                 /\ es[last(es, k, {"STAY", "DWELL"})].presence = es[k].presence
      <4>1. k \in 1 .. Len(es) /\ k \in Nat
        BY <3>3
      <4>2. PICK m \in 1 .. k - 1 :
              /\ IsInterval(es[m]) /\ es[m].presence = es[k].presence
              /\ \A i \in m + 1 .. k - 1 : ~IsInterval(es[i])
        BY <1>1, <2>1, <3>5, <4>1, LeaveInStory
      <4>3. last(es, k, {"STAY", "DWELL"}) = m
        <5>1. PICK S : S = {"STAY", "DWELL"}
          OBVIOUS
        <5>2. es[m].source \in S /\ \A i \in m + 1 .. k - 1 : es[i].source \notin S
          BY <4>2, <5>1 DEF IsInterval
        <5>3. last(es, k, S) = m
          BY <4>1, <5>2, LastOf
        <5> QED BY <5>1, <5>3
      <4> HIDE DEF last
      <4> QED BY <4>2, <4>3
    <3> HIDE DEF last
    <3> QED BY <3>1, <3>2, <3>4, <3>5 DEF Reset
  <2>2. TimelineTellsOneStory <=> (Finished => story(result.events))
    BY Zenon DEF TimelineTellsOneStory
  <2> HIDE DEF story
  <2>3. ASSUME Finished PROVE story(result.events)
    <3>1. PICK es : es = result.events
      OBVIOUS
    <3> QED BY <2>1, <2>3, <3>1, Zenon
  <2> QED BY <2>2, <2>3
<1> QED BY <1>1, SpecTimeline, PTL

-----------------------------------------------------------------------------
(* Labels.                                                                 *)

\* The members of the presence being gathered are inside, from its anchor to
\* its last member.
Gathered ==
  /\ Len(obs) = 1 \/ Len(obs) <= MaxObs
  /\ Len(state.members) <= Len(obs)
  /\ \A m \in DOMAIN state.members :
       /\ state.members[m] \in state.anchorIdx .. LastMember
       /\ ~AwayFrom(state.anchorIdx, state.members[m])

\* The centroid of a closed presence is no farther from its first observation
\* than some member inside.
Centred(p) ==
  /\ obs[p.start].segment = p.segment
  /\ DistanceM(p.centroid, obs[p.start].place) \in Nat
  /\ \E i \in p.start .. p.end :
       /\ ~AwayFrom(p.start, i)
       /\ DistanceM(p.centroid, obs[p.start].place)
            <= DistanceM(obs[p.start].place, obs[i].place)

Labels ==
  Finished => \A i \in Index : result.label[i] = Label(presence, i)

Claiming ==
  /\ Gathered
  /\ \A k \in DOMAIN presence : Centred(presence[k])
  /\ Labels

LEMMA RadiusKnown ==
  ASSUME NEW o \in Observation
  PROVE  KnownRadius(o) \in Nat /\ KnownRadius(o) \in HA \cup {0} /\ o.place \in Place
BY HAAssumption DEF Observation, KnownRadius, MissingHA

\* What being inside says of the distance.
LEMMA InsideReach ==
  ASSUME TypeOK, NEW a \in Index, NEW i \in Index
  PROVE  /\ DistanceM(obs[a].place, obs[i].place) \in Nat
         /\ ~AwayFrom(a, i) <=>
              DistanceM(obs[a].place, obs[i].place)
                <= MoveRadiusM + KnownRadius(obs[a]) + KnownRadius(obs[i])
<1>1. obs[a] \in Observation /\ obs[i] \in Observation
  BY ObservationAt
<1>2. PICK d : d = DistanceM(obs[a].place, obs[i].place)
  OBVIOUS
<1>3. PICK g : g = KnownRadius(obs[a])
  OBVIOUS
<1>4. PICK h : h = KnownRadius(obs[i])
  OBVIOUS
<1>5. d \in Nat /\ g \in Nat /\ h \in Nat
  BY <1>1, <1>2, <1>3, <1>4, RadiusKnown, PlaceAssumption
<1>6. ~AwayFrom(a, i) <=> (IF d - g - h < 0 THEN 0 ELSE d - g - h) <= MoveRadiusM
  BY <1>2, <1>3, <1>4 DEF AwayFrom, WithinPresence, EffectiveDistance
<1>7. MoveRadiusM \in Nat
  BY ConfigAssumption
<1>8. ~AwayFrom(a, i) <=> d <= MoveRadiusM + g + h
  BY <1>5, <1>6, <1>7
<1> QED BY <1>2, <1>3, <1>4, <1>5, <1>8

\* An observation is inside of itself.
LEMMA SelfInside ==
  ASSUME NEW o \in Observation
  PROVE  WithinPresence(o, o)
<1>1. PICK h : h = KnownRadius(o)
  OBVIOUS
<1>2. h \in Nat /\ DistanceM(o.place, o.place) = 0 /\ MoveRadiusM \in Nat
  BY <1>1, RadiusKnown, PlaceAssumption, ConfigAssumption
<1>3. EffectiveDistance(o, o) = IF 0 - h - h < 0 THEN 0 ELSE 0 - h - h
  BY <1>1, <1>2 DEF EffectiveDistance
<1> QED BY <1>2, <1>3 DEF WithinPresence

LEMMA ClosedIsCentred ==
  ASSUME Inductive, Gathered, Present, NEW reason, NEW p, p = ClosedPresence(reason)
  PROVE  Centred(p)
<1>1. /\ p.start = state.anchorIdx /\ p.end = LastMember
      /\ p.segment = obs[state.anchorIdx].segment /\ p.start \in Index
  BY ClosedFields
<1>2. /\ state.members \in Seq(Index) /\ Len(state.members) >= 2
      /\ state.anchorIdx \in Index /\ TypeOK
  BY DEF Inductive, StateCoherent, TypeOK, PresenceState
<1>3. PICK s : s = [m \in DOMAIN state.members |-> obs[state.members[m]].place]
  OBVIOUS
<1>4. p.centroid = MeanCentroid(s)
  BY <1>3 DEF ClosedPresence
<1>5. PICK n : n = Len(state.members)
  OBVIOUS
<1>6. n \in 1 .. MaxObs
  <2>1. PICK l : l = Len(obs)
    OBVIOUS
  <2>2. l \in Nat /\ n \in Nat /\ MaxObs \in Nat
    BY <1>2, <1>5, <2>1, ConfigAssumption DEF TypeOK
  <2>3. n >= 2 /\ n <= l /\ (l = 1 \/ l <= MaxObs)
    BY <1>2, <1>5, <2>1 DEF Gathered
  <2> QED BY <2>2, <2>3
<1>7. DOMAIN state.members = 1 .. n /\ \A m \in 1 .. n : state.members[m] \in Index
  BY <1>2, <1>5
<1>8. PICK a : a = obs[state.anchorIdx].place
  OBVIOUS
<1>9. a \in Place
  BY <1>2, <1>8, ObservationAt, RadiusKnown
<1>10. \A m \in 1 .. n : s[m] = obs[state.members[m]].place /\ s[m] \in Place
  BY <1>2, <1>3, <1>7, ObservationAt, RadiusKnown
<1>11. s \in [1 .. n -> Place]
  BY <1>3, <1>7, <1>10
<1>12. ASSUME NEW m \in 1 .. n
       PROVE  \E g, h \in HA \cup {0} : DistanceM(a, s[m]) <= MoveRadiusM + g + h
  <2>1. PICK i \in Index : i = state.members[m]
    BY <1>7
  <2>2. ~AwayFrom(state.anchorIdx, i)
    BY <1>7, <2>1 DEF Gathered
  <2>3. DistanceM(a, s[m])
          <= MoveRadiusM + KnownRadius(obs[state.anchorIdx]) + KnownRadius(obs[i])
    BY <1>2, <1>8, <1>10, <2>1, <2>2, InsideReach
  <2>4. KnownRadius(obs[state.anchorIdx]) \in HA \cup {0} /\ KnownRadius(obs[i]) \in HA \cup {0}
    BY <1>2, <2>1, ObservationAt, RadiusKnown
  <2> QED BY <2>3, <2>4
<1>13. /\ DistanceM(MeanCentroid(s), a) \in Nat
       /\ \E m \in 1 .. n : DistanceM(MeanCentroid(s), a) <= DistanceM(a, s[m])
  BY <1>6, <1>9, <1>11, <1>12, CentroidAssumption
<1>14. PICK m \in 1 .. n : DistanceM(MeanCentroid(s), a) <= DistanceM(a, s[m])
  BY <1>13
<1>15. PICK i : i = state.members[m]
  OBVIOUS
<1>16. i \in p.start .. p.end /\ ~AwayFrom(p.start, i)
  BY <1>1, <1>7, <1>15 DEF Gathered
<1>17. DistanceM(p.centroid, obs[p.start].place)
         <= DistanceM(obs[p.start].place, obs[i].place)
  BY <1>1, <1>4, <1>8, <1>10, <1>14, <1>15
<1> QED BY <1>1, <1>4, <1>8, <1>13, <1>16, <1>17 DEF Centred

\* What is centred stays so while the trajectory grows.
LEMMA CentredKept ==
  ASSUME TypeOK, \A i \in Index : obs'[i] = obs[i],
         NEW q, q.start \in Index, q.end \in Index, Centred(q)
  PROVE  Centred(q)'
<1>1. obs'[q.start] = obs[q.start]
  OBVIOUS
<1>2. PICK i \in q.start .. q.end :
        /\ ~AwayFrom(q.start, i)
        /\ DistanceM(q.centroid, obs[q.start].place)
             <= DistanceM(obs[q.start].place, obs[i].place)
  BY DEF Centred
<1>3. i \in Index
  BY DEF Index, TypeOK
<1>4. obs'[i] = obs[i]
  BY <1>3
<1>5. ~AwayFrom(q.start, i)'
  BY <1>1, <1>2, <1>4 DEF AwayFrom
<1> QED BY <1>1, <1>2, <1>4, <1>5 DEF Centred

LEMMA AllCentred ==
  ASSUME Inductive, Gathered, \A k \in DOMAIN presence : Centred(presence[k]),
         \A i \in Index : obs'[i] = obs[i],
         \/ presence' = presence
         \/ Present /\ \E reason : presence' = Append(presence, ClosedPresence(reason))
  PROVE  (\A k \in DOMAIN presence : Centred(presence[k]))'
<1>1. TypeOK
  BY DEF Inductive
<1>2. ASSUME NEW k \in DOMAIN presence, presence'[k] = presence[k]
      PROVE  Centred(presence[k])'
  <2>1. PICK q : q = presence[k]
    OBVIOUS
  <2>2. q.start \in Index /\ q.end \in Index /\ Centred(q)
    BY <1>1, <2>1, PresenceFields
  <2>3. Centred(q)'
    BY <1>1, <2>2, CentredKept
  <2> QED BY <1>2, <2>1, <2>3
<1>3. CASE presence' = presence
  BY <1>2, <1>3
<1>4. ASSUME Present, NEW reason,
             presence' = Append(presence, ClosedPresence(reason))
      PROVE  (\A k \in DOMAIN presence : Centred(presence[k]))'
  <2>1. PICK q : q = ClosedPresence(reason)
    OBVIOUS
  <2>2. q.start \in Index /\ q.end \in Index /\ Centred(q)
    BY <1>4, <2>1, ClosedFields, ClosedIsCentred
  <2>3. Centred(q)'
    BY <1>1, <2>2, CentredKept
  <2>4. /\ DOMAIN presence' = DOMAIN presence \cup {Len(presence) + 1}
        /\ presence'[Len(presence) + 1] = q
        /\ \A k \in DOMAIN presence : presence'[k] = presence[k]
    BY <1>1, <1>4, <2>1, RowsKept
  <2> QED BY <1>2, <2>3, <2>4
<1> QED BY <1>3, <1>4

\* A search gathers its anchor.
LEMMA SearchGathers ==
  ASSUME TypeOK', NEW i \in Index', state'.members = <<i>>, state'.anchorIdx = i,
         Len(obs') <= MaxObs \/ Len(obs') = 1
  PROVE  Gathered'
<1>1. DOMAIN state'.members = {1} /\ state'.members[1] = i /\ Len(state'.members) = 1
  OBVIOUS
<1>2. LastMember' = i /\ Len(obs') \in Nat \ {0} /\ i \in Nat
  BY <1>1 DEF LastMember, TypeOK, Index
<1>3. obs'[i] \in Observation
  BY DEF TypeOK, Index
<1>4. ~AwayFrom(i, i)'
  BY <1>3, SelfInside DEF AwayFrom
<1> QED BY <1>1, <1>2, <1>4 DEF Gathered

\* A presence gathers what it reads inside, and nothing outside.
LEMMA PresenceGathers ==
  ASSUME Inductive, Gathered, NEW o \in Incoming, Consume(o),
         state'.anchorIdx = state.anchorIdx,
         \/ state'.members = state.members
         \/ /\ state'.members = Append(state.members, Now)
            /\ WithinPresence(Anchor, o)
  PROVE  Gathered'
<1>1. /\ o \in Observation /\ TypeOK /\ Len(obs) \in Nat /\ Len(obs') = Now
      /\ Now = Len(obs) + 1 /\ state.anchorIdx \in Index
  BY Reading
<1>2. /\ obs'[Now] = o /\ \A i \in Index : obs'[i] = obs[i]
  BY <1>1, Read DEF Index
<1>3. Len(obs') <= MaxObs
  BY ConfigAssumption, <1>1 DEF Incoming
<1>4. PICK s, a : s = state.members /\ a = state.anchorIdx
  OBVIOUS
<1>5. s \in Seq(Index) /\ s # <<>> /\ Len(s) \in Nat \ {0}
      /\ DOMAIN s = 1 .. Len(s) /\ Len(s) <= Len(obs)
  BY <1>4 DEF Inductive, StateCoherent, TypeOK, PresenceState, Gathered
<1>6. ASSUME NEW m \in 1 .. Len(s)
      PROVE  /\ s[m] \in Index /\ s[m] \in a .. s[Len(s)]
             /\ ~AwayFrom(a, s[m])'
  BY <1>4, <1>5, <1>1, AwayKept DEF Gathered, LastMember
<1>7. CASE state'.members = state.members
  BY <1>1, <1>4, <1>5, <1>7, <1>3, <1>6 DEF LastMember, Gathered
<1>8. CASE state'.members = Append(state.members, Now) /\ WithinPresence(Anchor, o)
  <2>1. PICK t, w : t = state'.members /\ w = Now
    OBVIOUS
  <2>2. s \in Seq(Nat) /\ Now \in Nat
    BY <1>1, <1>5, SeqMonotonic DEF Index
  <2>3. /\ Len(t) = Len(s) + 1 /\ t[Len(t)] = Now
        /\ DOMAIN t = 1 .. Len(s) + 1
        /\ \A m \in 1 .. Len(s) : t[m] = s[m]
    BY <1>4, <1>8, <2>1, <2>2
  <2>4. ~AwayFrom(a, w)'
    BY <1>1, <1>2, <1>4, <1>8, <2>1 DEF AwayFrom, Anchor
  <2>5. ASSUME NEW m \in DOMAIN t
        PROVE  t[m] \in a .. w /\ ~AwayFrom(a, t[m])'
    <3>1. CASE m \in 1 .. Len(s)
      BY <1>6, <3>1, <1>1, <1>4, <2>1, <2>3 DEF Index
    <3>2. CASE m = Len(s) + 1
      BY <1>1, <1>4, <2>1, <2>3, <2>4, <3>2 DEF Index
    <3> QED BY <1>5, <2>3, <3>1, <3>2
  <2>6. LastMember' = Now /\ Len(t) <= Len(obs')
    BY <1>1, <1>5, <2>1, <2>3 DEF LastMember
  <2> QED BY <1>1, <1>3, <1>4, <2>1, <2>5, <2>6 DEF Gathered
<1> QED BY <1>7, <1>8

LEMMA NextClaiming ==
  ASSUME Inductive, Inductive', Claiming, [Next]_vars
  PROVE  Claiming'
<1>1. TypeOK /\ TypeOK' /\ Gathered
  BY DEF Inductive, Claiming
<1>2. ASSUME NEW o \in Incoming, Consume(o)
      PROVE  /\ \A i \in Index : obs'[i] = obs[i]
             /\ Labels' /\ Now \in Index'
             /\ Len(obs') <= MaxObs
  BY <1>2, Reading, <1>1, Grown, ConfigAssumption DEF Incoming, Labels, Index
<1>3. ASSUME NEW o \in Incoming, ContinuityBreak(o) PROVE Claiming'
  <2>1. /\ Consume(o) /\ state' = Seeking(Now, "continuity_reset")
        /\ \/ presence' = presence
           \/ Present /\ \E r : presence' = Append(presence, ClosedPresence(r))
    BY <1>3 DEF ContinuityBreak, Closable, Present
  <2>2. Gathered'
    BY <1>1, <1>2, <2>1, SearchGathers DEF Seeking
  <2> QED BY <1>2, <2>1, <2>2, AllCentred DEF Claiming
<1>4. ASSUME NEW o \in Incoming, DepartUnconfirmed(o) \/ ConfirmDeparture(o)
      PROVE  Claiming'
  <2>1. /\ Consume(o) /\ state' = Seeking(Now, "movement_arrival") /\ Present
        /\ presence' = Append(presence, ClosedPresence("confirmed_movement"))
    BY <1>4 DEF DepartUnconfirmed, ConfirmDeparture, Depart, Outside, Present
  <2>2. Gathered'
    BY <1>1, <1>2, <2>1, SearchGathers DEF Seeking
  <2> QED BY <1>2, <2>1, <2>2, AllCentred DEF Claiming
<1>5. ASSUME NEW o \in Incoming, Consume(o), presence' = presence, Gathered'
      PROVE  Claiming'
  BY <1>2, <1>5, AllCentred DEF Claiming
<1>6. state \in PresenceState
  BY <1>1 DEF TypeOK
<1>7. ASSUME NEW o \in Incoming, ConfirmArrival(o) \/ ConfirmPresence(o) PROVE Claiming'
  <2>1. /\ Consume(o) /\ presence' = presence /\ WithinPresence(Anchor, o)
        /\ state' = [Supported EXCEPT !.enterEvent = TRUE] \/ state' = Supported
    BY <1>7 DEF ConfirmArrival, ConfirmPresence
  <2>2. state'.anchorIdx = state.anchorIdx /\ state'.members = Append(state.members, Now)
    BY <1>6, <2>1 DEF Supported, PresenceState
  <2> QED BY <1>1, <1>5, <2>1, <2>2, PresenceGathers
<1>8. ASSUME NEW o \in Incoming, RemainInside(o) PROVE Claiming'
  BY <1>8, <1>6, <1>1, <1>5, PresenceGathers DEF RemainInside, PresenceState
<1>9. ASSUME NEW o \in Incoming, StartCandidate(o) \/ RestartCandidate(o)
      PROVE  Claiming'
  BY <1>9, <1>6, <1>1, <1>5, PresenceGathers DEF StartCandidate,
     RestartCandidate, PresenceState
<1>10. ASSUME NEW o \in Incoming, Reanchor(o) PROVE Claiming'
  <2>1. /\ Consume(o) /\ presence' = presence
        /\ state'.anchorIdx = Now /\ state'.members = <<Now>>
    BY <1>6, <1>10 DEF Reanchor, NewAnchor, PresenceState
  <2> QED BY <1>1, <1>2, <1>5, <2>1, SearchGathers
<1>11. CASE Finish
  <2>1. /\ UNCHANGED <<obs, state>>
        /\ \/ presence' = presence
           \/ Present /\ \E r : presence' = Append(presence, ClosedPresence(r))
        /\ result'.label = [i \in DOMAIN obs |-> Label(presence', i)]
    BY <1>11, Zenon DEF Finish, Closable, Present
  <2>2. Gathered'
    BY <1>1, <2>1 DEF Gathered, AwayFrom, LastMember
  <2>3. Labels'
    <3>1. DOMAIN obs = Index /\ Index' = Index
      BY <1>1, <2>1 DEF TypeOK, Index
    <3>2. ASSUME NEW i \in Index PROVE Label(presence', i) = Label(presence, i)'
      BY <2>1 DEF Label, Claims
    <3> QED BY <2>1, <3>1, <3>2 DEF Labels
  <2> QED BY <2>1, <2>2, <2>3, AllCentred DEF Claiming
<1>12. CASE UNCHANGED vars
  <2>1. UNCHANGED <<obs, state, presence, result>>
    BY <1>12 DEF vars
  <2>2. Gathered'
    BY <1>1, <2>1 DEF Gathered, AwayFrom, LastMember
  <2>3. Labels'
    <3>1. Index' = Index
      BY <2>1 DEF Index
    <3>2. ASSUME NEW i \in Index PROVE Label(presence, i)' = Label(presence, i)
      BY <2>1 DEF Label, Claims
    <3>3. Finished' <=> Finished
      BY <2>1 DEF Finished
    <3> QED BY <2>1, <3>1, <3>2, <3>3 DEF Claiming, Labels
  <2> QED BY <2>1, <2>2, <2>3, AllCentred DEF Claiming
<1> QED BY <1>3, <1>4, <1>7, <1>8, <1>9, <1>10, <1>11, <1>12 DEF Next

LEMMA SpecClaiming == Spec => []Claiming
<1>1. Init => Claiming
  <2> SUFFICES ASSUME Init PROVE Claiming
    OBVIOUS
  <2>1. TypeOK
    BY InitInductive DEF Inductive
  <2>2. /\ Len(obs) = 1 /\ state.members = <<1>> /\ state.anchorIdx = 1
        /\ presence = <<>> /\ ~Finished
    BY DEF Init, Seeking, Finished
  <2>3. obs[1] \in Observation
    BY <2>1, <2>2 DEF TypeOK
  <2>4. ~AwayFrom(1, 1) /\ LastMember = 1
    BY <2>2, <2>3, SelfInside DEF AwayFrom, LastMember
  <2>5. Gathered
    BY <2>2, <2>4 DEF Gathered
  <2> QED BY <2>2, <2>5 DEF Claiming, Labels
<1> QED BY <1>1, NextClaiming, SpecInductive, PTL DEF Spec

\* No other presence holds the first observation of one.
LEMMA OwnLabel ==
  ASSUME Evidence, NEW k \in DOMAIN presence,
         Claims(presence[k], presence[k].start)
  PROVE  Label(presence, presence[k].start) = presence[k].start
<1>1. PICK i : i = presence[k].start
  OBVIOUS
<1>2. ASSUME NEW j \in DOMAIN presence, Claims(presence[j], i) PROVE j = k
  <2>1. /\ presence[j].start <= i /\ i <= presence[j].end
        /\ presence[k].start < presence[k].end
        /\ j \in 1 .. Len(presence) /\ k \in 1 .. Len(presence)
        /\ presence[j].start \in Index /\ presence[j].end \in Index
        /\ presence[k].start \in Index /\ presence[k].end \in Index
    BY <1>2, PresenceFields
       DEF Evidence, Inductive, PresencesSound, Sound, Claims, Index
  <2>2. ~(j < k) /\ ~(k < j)
    BY <1>1, <2>1 DEF Evidence, PresencesOrdered, Index
  <2> QED BY <2>1, <2>2
<1>3. PICK S : S = {j \in DOMAIN presence : Claims(presence[j], i)}
  OBVIOUS
<1>4. S = {k} /\ k \in Nat
  BY <1>1, <1>2, <1>3, PresenceFields DEF Evidence, Inductive
<1>5. (CHOOSE m \in S : \A j \in S : j <= m) = k
  BY <1>4
<1>6. Label(presence, i) = IF S = {} THEN 0
        ELSE presence[CHOOSE m \in S : \A j \in S : j <= m].start
  BY <1>3 DEF Label
<1> QED BY <1>1, <1>4, <1>5, <1>6

\* IntervalsLabelTheirStart: the centroid is within reach of the first
\* observation unless the member it is no farther than was let in by its own
\* accuracy.
THEOREM IntervalsAlwaysLabelTheirStart == Spec => []IntervalsLabelTheirStart
<1>1. ASSUME Evidence, Claiming PROVE IntervalsLabelTheirStart
  <2> SUFFICES ASSUME Finished, NEW k \in DOMAIN presence,
                      NEW p, p = presence[k], NEW first, first = obs[p.start]
               PROVE  \/ result.label[p.start] = p.start
                      \/ \E i \in p.start + 1 .. p.end :
                           /\ KnownRadius(obs[i]) > 0
                           /\ DistanceM(p.centroid, first.place)
                                <= MoveRadiusM + KnownRadius(first)
                                     + KnownRadius(obs[i])
    BY DEF IntervalsLabelTheirStart
  <2>1. TypeOK /\ p.start \in Index /\ p.end \in Index /\ MoveRadiusM \in Nat
        /\ p.start <= p.end
    BY <1>1, PresenceFields, ConfigAssumption
       DEF Evidence, Inductive, PresencesSound, Sound, Index
  <2>2. Centred(p)
    BY <1>1 DEF Claiming
  <2>3. PICK d : d = DistanceM(p.centroid, first.place)
    OBVIOUS
  <2>4. PICK i \in p.start .. p.end :
          ~AwayFrom(p.start, i) /\ d <= DistanceM(first.place, obs[i].place)
    BY <2>2, <2>3 DEF Centred
  <2>5. i \in Index /\ d \in Nat /\ obs[p.start].segment = p.segment
    BY <2>1, <2>2, <2>3 DEF Index, Centred, TypeOK
  <2>6. PICK g : g = KnownRadius(first)
    OBVIOUS
  <2>7. PICK h : h = KnownRadius(obs[i])
    OBVIOUS
  <2>8. PICK e : e = DistanceM(first.place, obs[i].place)
    OBVIOUS
  <2>9. g \in Nat /\ h \in Nat /\ e \in Nat /\ e <= MoveRadiusM + g + h /\ d <= e
    BY <2>1, <2>4, <2>5, <2>6, <2>7, <2>8, ObservationAt, RadiusKnown, InsideReach
  <2>10. d <= MoveRadiusM + g + h
    BY <2>1, <2>5, <2>9
  <2>11. ASSUME d <= MoveRadiusM + g PROVE result.label[p.start] = p.start
    <3>1. Claims(p, p.start)
      BY <2>1, <2>3, <2>5, <2>6, <2>11 DEF Claims, WithinCentroid, Index
    <3>2. Label(presence, p.start) = p.start
      BY <1>1, <3>1, OwnLabel
    <3> QED BY <1>1, <2>1, <3>2 DEF Claiming, Labels
  <2>12. CASE h = 0
    BY <2>1, <2>9, <2>10, <2>11, <2>12
  <2>13. CASE i = p.start
    <3>1. e = 0
      BY <2>1, <2>8, <2>13, ObservationAt, RadiusKnown, PlaceAssumption
    <3> QED BY <2>1, <2>5, <2>9, <2>11, <3>1
  <2>14. CASE h > 0 /\ i # p.start
    <3>1. i \in p.start + 1 .. p.end
      BY <2>1, <2>4, <2>5, <2>14 DEF Index
    <3> QED BY <2>3, <2>6, <2>7, <2>10, <2>14, <3>1
  <2> QED BY <2>9, <2>12, <2>13, <2>14
<1> QED BY <1>1, SpecClaiming, SpecEvidence, PTL

-----------------------------------------------------------------------------
(* Part three: the canonical events are valid, and damage is noticed.      *)

\* The first fix is at no edge, and the class of a closed presence is that of
\* its duration.
Dated(p) ==
  p.class = "DWELL" <=> obs[p.end].ts - obs[p.start].ts >= DwellThresholdS
Measures ==
  /\ ~obs[1].gap /\ ~obs[1].disc
  /\ \A k \in DOMAIN presence : Dated(presence[k])

\* closePresence compares the same two timestamps as the event it makes.
LEMMA ClosedIsDated ==
  ASSUME TypeOK, NEW reason, NEW p, p = ClosedPresence(reason)
  PROVE  Dated(p)
BY DEF ClosedPresence, Dated

\* What was dated stays dated while the trajectory grows, and what a step
\* closes is dated.
LEMMA MeasuresKept ==
  ASSUME TypeOK, Measures, \A i \in Index : obs'[i] = obs[i],
         \/ presence' = presence
         \/ /\ Len(state.members) >= 2
            /\ \E reason \in EndReasons :
                 presence' = Append(presence, ClosedPresence(reason))
  PROVE  Measures'
<1>1. 1 \in Index /\ DOMAIN presence = 1 .. Len(presence)
  BY DEF TypeOK, Index
<1>2. ASSUME NEW q, q.start \in Index, q.end \in Index, Dated(q)
      PROVE  Dated(q)'
  BY <1>2 DEF Dated
<1>3. ASSUME NEW k \in DOMAIN presence, presence'[k] = presence[k]
      PROVE  Dated(presence[k])'
  <2>1. PICK q : q = presence[k]
    OBVIOUS
  <2>2. q.start \in Index /\ q.end \in Index /\ Dated(q)
    BY <2>1, PresenceFields DEF Measures
  <2> QED BY <1>2, <1>3, <2>1, <2>2
<1>4. CASE presence' = presence
  BY <1>1, <1>3, <1>4 DEF Measures
<1>5. ASSUME Len(state.members) >= 2, NEW reason \in EndReasons,
             presence' = Append(presence, ClosedPresence(reason))
      PROVE  Measures'
  <2>1. PICK q : q = ClosedPresence(reason)
    OBVIOUS
  <2>2. q.start \in Index /\ q.end \in Index /\ Dated(q)
    BY <1>5, <2>1, ClosedType, ClosedIsDated
  <2>3. Dated(q)'
    BY <1>2, <2>2
  <2>4. /\ DOMAIN presence' = DOMAIN presence \cup {Len(presence) + 1}
        /\ presence'[Len(presence) + 1] = q
        /\ \A k \in DOMAIN presence : presence'[k] = presence[k]
    BY <1>5, <2>1, RowsKept
  <2> QED BY <1>1, <1>3, <2>3, <2>4 DEF Measures
<1> QED BY <1>4, <1>5

LEMMA NextMeasures ==
  ASSUME Inductive, Measures, [Next]_vars
  PROVE  Measures'
<1>1. TypeOK /\ (Present => Len(state.members) >= 2)
  BY DEF Inductive, StateCoherent
<1>2. ASSUME NEW o \in Incoming, Consume(o) PROVE \A i \in Index : obs'[i] = obs[i]
  BY <1>1, <1>2, IncomingType, Grown
<1>3. ASSUME NEW o \in Incoming, ContinuityBreak(o) PROVE Measures'
  BY <1>1, <1>2, <1>3, MeasuresKept DEF ContinuityBreak, Closable, EndReasons
<1>4. ASSUME NEW o \in Incoming,
             \/ ConfirmArrival(o) \/ ConfirmPresence(o) \/ Reanchor(o)
             \/ RemainInside(o) \/ StartCandidate(o) \/ RestartCandidate(o)
      PROVE  Measures'
  <2>1. Consume(o) /\ presence' = presence
    BY <1>4 DEF ConfirmArrival, ConfirmPresence, Reanchor, RemainInside,
                StartCandidate, RestartCandidate
  <2> QED BY <1>1, <1>2, <2>1, MeasuresKept
<1>5. ASSUME NEW o \in Incoming, DepartUnconfirmed(o) \/ ConfirmDeparture(o)
      PROVE  Measures'
  <2>1. Consume(o) /\ Present
        /\ presence' = Append(presence, ClosedPresence("confirmed_movement"))
    BY <1>5 DEF DepartUnconfirmed, ConfirmDeparture, Depart, Outside, Present
  <2> QED BY <1>1, <1>2, <2>1, MeasuresKept DEF EndReasons
<1>6. CASE Finish
  BY <1>1, <1>6, MeasuresKept DEF Finish, Closable, EndReasons
<1>7. CASE UNCHANGED vars
  BY <1>1, <1>7, MeasuresKept DEF vars
<1> QED BY <1>3, <1>4, <1>5, <1>6, <1>7 DEF Next

LEMMA SpecMeasures == Spec => []Measures
<1>1. Init => Measures
  BY DEF Init, Measures, FirstObservation
<1> QED BY <1>1, NextMeasures, SpecInductive, PTL DEF Spec

-----------------------------------------------------------------------------
\* What the kind of an event says of its end, magnitude and unit.
Fits(kind, start, end, magnitude, unit) ==
  /\ kind \in {"STAY", "DWELL"} =>
       /\ end \in Nat /\ start <= end
       /\ magnitude = end - start /\ unit = "s"
       /\ kind = "DWELL" <=> magnitude >= DwellThresholdS
  /\ kind \in {"GAP", "DISCONTINUITY"} =>
       /\ end = None /\ magnitude \in Nat
       /\ unit = IF kind = "GAP" THEN "s" ELSE "m"
  /\ kind \notin {"STAY", "DWELL", "GAP", "DISCONTINUITY"} =>
       end = None /\ magnitude = None /\ unit = ""

\* What is true of every canonical event: the fields that never vary, the
\* meaning of its kind, and the others that fit the kind.
IsCore(c) ==
  /\ \E h, k, m, s, e, g, u, t :
       c = [header |-> h, kind |-> k, meaning |-> m, start |-> s, end |-> e,
            magnitude |-> g, unit |-> u, threshold |-> t]
  /\ c.header = Header /\ c.kind \in Source
  /\ c.meaning = Expected[c.kind] /\ c.threshold = DwellThresholdS
  /\ c.start \in Nat
  /\ Fits(c.kind, c.start, c.end, c.magnitude, c.unit)

\* The makers of events and the validator have one table of meanings.
LEMMA MeaningIsExpected ==
  /\ DOMAIN Expected = Source
  /\ \A k \in Source : Meaning(k) = Expected[k]
  /\ \A j, k \in Source : Expected[j] = Expected[k] => j = k
<1>1. DOMAIN Expected = Source
  BY DEF Expected, Source
<1>2. \A k \in Source : Meaning(k) = Expected[k]
  BY DEF Expected, Source, Meaning
<1>4. ASSUME NEW j \in Source, NEW k \in Source, j # k
      PROVE  Expected[j][2] # Expected[k][2]
  BY <1>4 DEF Expected, Source
<1> QED BY <1>1, <1>2, <1>4

\* A record with these fields is canonical.
LEMMA CoreOf ==
  ASSUME NEW k \in Source, NEW s \in Nat, NEW e, NEW g, NEW u, NEW c,
         c = [header |-> Header, kind |-> k, meaning |-> Meaning(k), start |-> s,
              end |-> e, magnitude |-> g, unit |-> u, threshold |-> DwellThresholdS],
         Fits(k, s, e, g, u)
  PROVE  IsCore(c)
<1>1. \E h, k1, m, s1, e1, g1, u1, t :
        c = [header |-> h, kind |-> k1, meaning |-> m, start |-> s1, end |-> e1,
             magnitude |-> g1, unit |-> u1, threshold |-> t]
  BY Zenon
<1>2. /\ c.header = Header /\ c.kind = k /\ c.meaning = Meaning(k) /\ c.start = s
      /\ c.end = e /\ c.magnitude = g /\ c.unit = u /\ c.threshold = DwellThresholdS
  OBVIOUS
<1>3. Meaning(k) = Expected[k]
  BY MeaningIsExpected
<1> QED BY <1>1, <1>2, <1>3 DEF IsCore

\* No two closed presences start at one fix.
LEMMA StartsDiffer ==
  ASSUME Evidence, NEW j \in DOMAIN presence, NEW k \in DOMAIN presence,
         presence[j].start = presence[k].start
  PROVE  j = k
<1>1. /\ presence[j].start < presence[j].end /\ presence[k].start < presence[k].end
      /\ j \in 1 .. Len(presence) /\ k \in 1 .. Len(presence)
      /\ presence[j].start \in Index /\ presence[j].end \in Index
      /\ presence[k].start \in Index /\ presence[k].end \in Index
  BY PresenceFields DEF Evidence, Inductive, PresencesSound, Sound
<1>2. ~(j < k) /\ ~(k < j)
  BY <1>1 DEF Evidence, PresencesOrdered, Index
<1> QED BY <1>1, <1>2

\* The interval of an event is the closed presence that starts where it does.
LEMMA IntervalOf ==
  ASSUME Timeline, NEW e, Said(events, e), e.source \in {"STAY", "DWELL"}
  PROVE  /\ PresenceOf(e) \in DOMAIN presence
         /\ e = IntervalEvent(presence[PresenceOf(e)])
<1>1. PICK j \in DOMAIN events : events[j] = e
  BY DEF Said
<1>2. PICK k \in DOMAIN presence : e = IntervalEvent(presence[k])
  BY <1>1 DEF Timeline, Chronicle, Stated, IsInterval
<1>3. presence[k].start = e.presence
  BY <1>2 DEF IntervalEvent, Event
<1>4. PresenceOf(e) \in DOMAIN presence /\ presence[PresenceOf(e)].start = e.presence
  BY <1>3 DEF PresenceOf
<1>5. PICK m \in DOMAIN presence : m = PresenceOf(e)
  BY <1>4
<1>6. m = k
  BY <1>2, <1>3, <1>4, <1>5, StartsDiffer DEF Timeline
<1> QED BY <1>2, <1>5, <1>6

\* The makers of events make canonical ones.
LEMMA BaseIsCore ==
  ASSUME NEW k \in Source \ {"STAY", "DWELL", "GAP", "DISCONTINUITY"},
         NEW ts \in Nat
  PROVE  IsCore(BaseEvent(k, ts))
<1> DEFINE c == BaseEvent(k, ts)
<1>1. c = [header |-> Header, kind |-> k, meaning |-> Meaning(k), start |-> ts,
           end |-> None, magnitude |-> None, unit |-> "",
           threshold |-> DwellThresholdS]
  BY DEF BaseEvent
<1> HIDE DEF c
<1>2. Fits(k, ts, None, None, "")
  BY DEF Fits
<1>3. k \in Source
  OBVIOUS
<1> QED BY <1>1, <1>2, <1>3, CoreOf, Zenon DEF c

LEMMA IntervalIsCore ==
  ASSUME Timeline, Measures, NEW e, Said(events, e), e.source \in {"STAY", "DWELL"}
  PROVE  IsCore(IntervalEventOf(e))
<1>1. PICK p : p = presence[PresenceOf(e)]
  OBVIOUS
<1>2. /\ p.start \in Index /\ p.end \in Index /\ p.start < p.end /\ Dated(p)
      /\ e.source = p.class
  BY <1>1, IntervalOf, PresenceFields
     DEF Measures, Timeline, Evidence, Inductive, PresencesSound, Sound,
         IntervalEvent, Event
<1>3. PICK s, f : s = obs[p.start].ts /\ f = obs[p.end].ts
  OBVIOUS
<1>4. s \in Nat /\ f \in Nat /\ s < f
  BY <1>2, <1>3, ObservationAt DEF Timeline, Clock, Evidence, Inductive, Observation
<1> DEFINE c == IntervalEventOf(e)
<1>5. c = [header |-> Header, kind |-> e.source, meaning |-> Meaning(e.source),
           start |-> s, end |-> f, magnitude |-> f - s, unit |-> "s",
           threshold |-> DwellThresholdS]
  <2>1. PICK b : b = BaseEvent(e.source, s)
    OBVIOUS
  <2>2. c = [b EXCEPT !.end = f, !.magnitude = f - s, !.unit = "s"]
    BY <1>1, <1>3, <2>1 DEF IntervalEventOf
  <2> HIDE DEF c
  <2> QED BY <2>1, <2>2 DEF BaseEvent
<1> HIDE DEF c
<1>6. e.source \in Source
  BY DEF Source
<1>7. e.source = "DWELL" <=> f - s >= DwellThresholdS
  BY <1>2, <1>3 DEF Dated
<1>8. Fits(e.source, s, f, f - s, "s")
  BY <1>4, <1>7 DEF Fits
<1> QED BY <1>4, <1>5, <1>6, <1>8, CoreOf, Zenon DEF c

LEMMA EdgeIsCore ==
  ASSUME Timeline, Measures, NEW e, Said(events, e),
         e.source \in {"GAP", "DISCONTINUITY"}
  PROVE  IsCore(EdgeEventOf(e))
<1>1. e.at \in Index /\ e.at # 1
  <2>1. e \in EventRecord /\ Stated(e)
    BY DEF Said, Timeline, Chronicle, Evidence, Inductive, TypeOK
  <2> QED BY <2>1 DEF EventRecord, Stated, Measures
<1>2. PICK prev, cur : prev = obs[e.at - 1] /\ cur = obs[e.at]
  OBVIOUS
<1>3. prev \in Observation /\ cur \in Observation /\ prev.ts < cur.ts
  BY <1>1, <1>2, ObservationAt DEF Index, Timeline, Clock, Evidence, Inductive
<1>4. /\ cur.ts \in Nat /\ cur.ts - prev.ts \in Nat
      /\ DistanceM(prev.place, cur.place) \in Nat
  BY <1>3, PlaceAssumption DEF Observation
<1>5. PICK g : g = IF e.source = "GAP" THEN cur.ts - prev.ts
                   ELSE DistanceM(prev.place, cur.place)
  OBVIOUS
<1> DEFINE c == EdgeEventOf(e)
<1>6. c = [header |-> Header, kind |-> e.source, meaning |-> Meaning(e.source),
           start |-> cur.ts, end |-> None, magnitude |-> g,
           unit |-> IF e.source = "GAP" THEN "s" ELSE "m",
           threshold |-> DwellThresholdS]
  BY <1>2, <1>5 DEF EdgeEventOf, BaseEvent
<1> HIDE DEF c
<1>7. e.source \in Source
  BY DEF Source
<1>8. Fits(e.source, cur.ts, None, g, IF e.source = "GAP" THEN "s" ELSE "m")
  BY <1>4, <1>5 DEF Fits
<1>9. cur.ts \in Nat
  BY <1>4
<1> QED BY <1>6, <1>7, <1>8, <1>9, CoreOf, Zenon DEF c

LEMMA CoreIsCore ==
  ASSUME Timeline, Measures, NEW e, Said(events, e)
  PROVE  IsCore(CoreEvent(e))
<1>1. e \in EventRecord
  BY DEF Said, Timeline, Evidence, Inductive, TypeOK
<1>2. e.at \in Index /\ e.source \in Source
  BY <1>1 DEF EventRecord, Source
<1>3. obs[e.at].ts \in Nat
  BY <1>2, ObservationAt DEF Timeline, Evidence, Inductive, Observation
<1>4. CASE e.source \in {"STAY", "DWELL"}
  BY <1>4, IntervalIsCore DEF CoreEvent
<1>5. CASE e.source \in {"GAP", "DISCONTINUITY"}
  BY <1>5, EdgeIsCore DEF CoreEvent
<1>6. CASE e.source \notin {"STAY", "DWELL", "GAP", "DISCONTINUITY"}
  BY <1>2, <1>3, <1>6, BaseIsCore DEF CoreEvent
<1> QED BY <1>4, <1>5, <1>6

-----------------------------------------------------------------------------
\* Header, kind, meaning and the fields that are numbers or a unit, but for one.
SameBut(c, d, field) ==
  /\ d.header = c.header /\ d.kind = c.kind /\ d.meaning = c.meaning
  /\ field # "start"     => d.start = c.start
  /\ field # "end"       => d.end = c.end
  /\ field # "magnitude" => d.magnitude = c.magnitude
  /\ field # "unit"      => d.unit = c.unit
  /\ field # "threshold" => d.threshold = c.threshold

\* The fields of the event that results from changing one.
LEMMA Changed ==
  ASSUME NEW c, IsCore(c), NEW f, NEW d
  PROVE  /\ d = [c EXCEPT !.header = f] => d.header = f /\ d.kind = c.kind
         /\ d = [c EXCEPT !.kind = f] =>
              d.header = c.header /\ d.kind = f /\ d.meaning = c.meaning
         /\ d = [c EXCEPT !.meaning = f] =>
              d.header = c.header /\ d.kind = c.kind /\ d.meaning = f
         /\ d = [c EXCEPT !.start = f] => SameBut(c, d, "start") /\ d.start = f
         /\ d = [c EXCEPT !.end = f] => SameBut(c, d, "end") /\ d.end = f
         /\ d = [c EXCEPT !.magnitude = f] =>
              SameBut(c, d, "magnitude") /\ d.magnitude = f
         /\ d = [c EXCEPT !.unit = f] => SameBut(c, d, "unit") /\ d.unit = f
         /\ d = [c EXCEPT !.threshold = f] =>
              SameBut(c, d, "threshold") /\ d.threshold = f
<1>1. PICK h, k, m, s, e, g, u, t :
        c = [header |-> h, kind |-> k, meaning |-> m, start |-> s, end |-> e,
             magnitude |-> g, unit |-> u, threshold |-> t]
  BY DEF IsCore
<1> QED BY <1>1 DEF SameBut

\* What the rules ask of an event, and no more.
Passes(c) ==
  /\ c.header = Header /\ c.kind \in Source /\ c.meaning = Expected[c.kind]
  /\ c.end = None \/ ~(c.end < c.start)
  /\ c.kind \in {"STAY", "DWELL"} =>
       /\ c.end # None /\ c.magnitude # None /\ c.unit = "s"
       /\ c.end - c.start = c.magnitude
       /\ c.kind = "STAY" => ~(c.magnitude >= c.threshold)
       /\ c.kind = "DWELL" => ~(c.magnitude < c.threshold)
  /\ c.kind = "GAP" => c.magnitude # None /\ c.unit = "s"
  /\ c.kind = "DISCONTINUITY" => c.magnitude # None /\ c.unit = "m"

\* An event that passes has no problem.
LEMMA PassesIsValid ==
  ASSUME NEW c, Passes(c)
  PROVE  Problems(c) = {}
<1>1. Header \ c.header = {} /\ "producer" \in {"producer", "parameters"} \cap c.header
  BY DEF Passes, Header
<1>2. c.kind \in DOMAIN Expected
  BY MeaningIsExpected DEF Passes
<1>3. HasDuration(c) => IntervalProblems(c) = {}
  BY DEF Passes, HasDuration, IntervalProblems
<1>4. EdgeProblems(c) = {}
  BY DEF Passes, EdgeProblems
<1>5. (IF c.end # None /\ c.end < c.start THEN {"end_time"} ELSE {}) = {}
  BY DEF Passes
<1> QED BY <1>1, <1>2, <1>3, <1>4, <1>5 DEF Passes, Problems

\* Every rule holds of a canonical event.
LEMMA CorePasses ==
  ASSUME NEW c, IsCore(c)
  PROVE  Passes(c)
<1>1. /\ c.header = Header /\ c.kind \in Source /\ c.start \in Nat
      /\ c.meaning = Expected[c.kind] /\ c.threshold = DwellThresholdS
      /\ Fits(c.kind, c.start, c.end, c.magnitude, c.unit)
  BY DEF IsCore
<1>2. CASE c.kind \in {"STAY", "DWELL"}
  <2>1. /\ c.end \in Nat /\ c.start <= c.end /\ c.magnitude = c.end - c.start
        /\ c.unit = "s" /\ (c.kind = "DWELL" <=> c.magnitude >= DwellThresholdS)
    BY <1>1, <1>2 DEF Fits
  <2>2. c.magnitude \in Nat /\ c.magnitude # None /\ c.end # None
    BY <1>1, <2>1 DEF None
  <2>3. c.kind = "STAY" => ~(c.magnitude >= c.threshold)
    BY <1>1, <2>1
  <2>4. c.kind = "DWELL" => ~(c.magnitude < c.threshold)
    BY <1>1, <2>1, <2>2, ConfigAssumption
  <2>5. ~(c.end < c.start)
    BY <1>1, <2>1
  <2> QED BY <1>1, <1>2, <2>1, <2>2, <2>3, <2>4, <2>5 DEF Passes
<1>3. CASE c.kind \notin {"STAY", "DWELL"}
  <2>1. c.end = None
    BY <1>1, <1>3 DEF Fits
  <2>2. c.kind = "GAP" => c.magnitude # None /\ c.unit = "s"
    BY <1>1 DEF Fits, None
  <2>3. c.kind = "DISCONTINUITY" => c.magnitude # None /\ c.unit = "m"
    BY <1>1 DEF Fits, None
  <2> QED BY <1>1, <1>3, <2>1, <2>2, <2>3 DEF Passes
<1> QED BY <1>2, <1>3

\* Changing what no rule is about breaks none.
LEMMA UnjudgedPasses ==
  ASSUME NEW c, IsCore(c), NEW d \in Unjudged(c)
  PROVE  Passes(d)
<1>1. /\ c.header = Header /\ c.kind \in Source /\ c.start \in Nat
      /\ c.meaning = Expected[c.kind]
      /\ Fits(c.kind, c.start, c.end, c.magnitude, c.unit)
  BY DEF IsCore
<1>2. Passes(c)
  BY CorePasses
<1>3. Amounts \subseteq Nat
  BY ConfigAssumption DEF Amounts
<1>4. CASE c.kind \in {"STAY", "DWELL"}
  <2>0. PICK n \in Amounts :
          d = [c EXCEPT !.threshold =
                 IF c.kind = "STAY" THEN c.magnitude + n + 1 ELSE c.magnitude - n]
    BY <1>4 DEF Unjudged, HasDuration
  <2>1. PICK f : /\ d = [c EXCEPT !.threshold = f]
                 /\ f = IF c.kind = "STAY" THEN c.magnitude + n + 1
                                           ELSE c.magnitude - n
    BY <2>0
  <2>2. SameBut(c, d, "threshold") /\ d.threshold = f
    BY <2>1, Changed
  <2>3. c.magnitude \in Int /\ n \in Nat
    <3>1. c.end \in Nat /\ c.magnitude = c.end - c.start
      BY <1>1, <1>4 DEF Fits
    <3> QED BY <1>1, <1>3, <2>1, <3>1
  <2>4. /\ c.kind = "STAY" => ~(c.magnitude >= f)
        /\ c.kind = "DWELL" => ~(c.magnitude < f)
    BY <2>1, <2>3
  <2> QED BY <1>2, <2>2, <2>4 DEF Passes, SameBut
<1>5. CASE c.kind \notin {"STAY", "DWELL"}
  <2>1. c.end = None
    BY <1>1, <1>5 DEF Fits
  <2>2. \/ \E n \in Amounts : \/ d = [c EXCEPT !.start = @ + n]
                             \/ d = [c EXCEPT !.end = c.start + n]
                             \/ d = [c EXCEPT !.magnitude = n]
                             \/ d = [c EXCEPT !.threshold = n]
        \/ c.unit = "" /\ d = [c EXCEPT !.unit = "km"]
    <3>1. ~HasDuration(c)
      BY <1>5, Zenon DEF HasDuration
    <3> QED BY <3>1, Zenon DEF Unjudged
  <2>3. CASE c.unit = "" /\ d = [c EXCEPT !.unit = "km"]
    <3>1. \A f : d = [c EXCEPT !.unit = f] => SameBut(c, d, "unit")
      BY Changed
    <3>2. c.kind \notin {"GAP", "DISCONTINUITY"}
      BY <1>1, <2>3 DEF Fits
    <3> QED BY <1>2, <1>5, <2>3, <3>1, <3>2 DEF Passes, SameBut
  <2>4. ASSUME NEW f, d = [c EXCEPT !.start = f] \/ d = [c EXCEPT !.threshold = f]
        PROVE  Passes(d)
    BY <2>4, Changed, <1>2, <1>5, <2>1 DEF Passes, SameBut
  <2>5. ASSUME NEW n \in Amounts, d = [c EXCEPT !.end = c.start + n] PROVE Passes(d)
    <3>1. SameBut(c, d, "end") /\ d.end = c.start + n
      BY <2>5, Changed
    <3>2. ~(d.end < d.start)
      BY <1>3, <3>1, <1>1 DEF SameBut
    <3> QED BY <1>2, <1>5, <3>1, <3>2 DEF Passes, SameBut
  <2>6. ASSUME NEW n \in Amounts, d = [c EXCEPT !.magnitude = n] PROVE Passes(d)
    BY <2>6, Changed, <1>3, <1>2, <1>5 DEF None, Passes, SameBut
  <2> QED BY <2>2, <2>3, <2>4, <2>5, <2>6
<1> QED BY <1>4, <1>5

\* An event, also one of an unknown kind, is neither a blank nor a cut line.
LEMMA EventLine ==
  ASSUME NEW d, d.kind \in Source \cup {"MOVE"}
  PROVE  d # BlankLine /\ d # JunkLine
<1>1. BlankLine.kind = "blank line" /\ JunkLine.kind = "junk"
  BY DEF BlankLine, JunkLine
<1>2. "blank line" \notin Source \cup {"MOVE"} /\ "junk" \notin Source \cup {"MOVE"}
  BY DEF Source
<1> QED BY <1>1, <1>2, Zenon

\* A line that is an event is judged by the rules of an event.
LEMMA OneLine ==
  ASSUME NEW c
  PROVE  FileReport(<<c>>).valid
           <=> c # JunkLine /\ (c = BlankLine \/ Problems(c) = {})
<1> DEFINE lines == <<c>>
           read == {i \in DOMAIN lines : lines[i] \notin {BlankLine, JunkLine}}
           bad  == {i \in DOMAIN lines : lines[i] = JunkLine}
                     \cup {i \in read : Problems(lines[i]) # {}}
<1>1. DOMAIN lines = {1} /\ lines[1] = c
  OBVIOUS
<1>2. FileReport(lines) = [events |-> Cardinality(read), valid |-> bad = {}]
  BY DEF FileReport
<1>3. FileReport(lines).valid = (bad = {})
  BY <1>2
<1> HIDE DEF lines
<1>4. bad = {} <=> c # JunkLine /\ (c = BlankLine \/ Problems(c) = {})
  BY <1>1
<1> QED BY <1>3, <1>4 DEF lines

\* A problem of an event that keeps its provenance and has a known kind.
LEMMA Noticed ==
  ASSUME NEW d, "producer" \in d.header \/ "parameters" \in d.header
  PROVE  /\ Problems(d) = {} => Header \subseteq d.header
         /\ Problems(d) = {} => d.kind \in Source /\ d.meaning = Expected[d.kind]
         /\ Problems(d) = {} => ~(d.end # None /\ d.end < d.start)
         /\ Problems(d) = {} /\ d.kind \in {"STAY", "DWELL"} => IntervalProblems(d) = {}
         /\ Problems(d) = {} => EdgeProblems(d) = {}
<1>1. {"producer", "parameters"} \cap d.header # {}
  OBVIOUS
<1> QED BY <1>1, MeaningIsExpected DEF Problems, HasDuration

\* Whatever is damaged of a canonical event, a rule is broken.
LEMMA DamageIsNoticed ==
  ASSUME NEW c, IsCore(c), NEW d \in Damaged(c)
  PROVE  d.kind \in Source \cup {"MOVE"} /\ Problems(d) # {}
<1>1. /\ c.header = Header /\ c.kind \in Source /\ c.start \in Nat
      /\ c.meaning = Expected[c.kind]
      /\ Fits(c.kind, c.start, c.end, c.magnitude, c.unit)
  BY DEF IsCore
<1>2. {"producer", "parameters"} \subseteq Header
  BY DEF Header
<1>3. ASSUME NEW f \in Header, d = [c EXCEPT !.header = @ \ {f}]
      PROVE  d.kind \in Source /\ Problems(d) # {}
  <2>1. PICK h : h = c.header \ {f}
    OBVIOUS
  <2>2. d.header = h /\ d.kind = c.kind
    BY <1>3, <2>1, Changed
  <2>3. f \notin d.header /\ ("producer" \in d.header \/ "parameters" \in d.header)
    BY <1>1, <1>2, <2>1, <2>2
  <2> QED BY <1>1, <1>3, <2>2, <2>3, Noticed
<1>4. ASSUME NEW k \in (Source \cup {"MOVE"}) \ {c.kind}, d = [c EXCEPT !.kind = k]
      PROVE  d.kind \in Source \cup {"MOVE"} /\ Problems(d) # {}
  <2>1. d.header = c.header /\ d.kind = k /\ d.meaning = c.meaning
    BY <1>4, Changed
  <2>2. k \in Source => Expected[k] # Expected[c.kind]
    BY <1>1, MeaningIsExpected
  <2> QED BY <1>1, <1>2, <2>1, <2>2, Noticed
<1>5. ASSUME NEW k \in Source \ {c.kind}, d = [c EXCEPT !.meaning = Expected[k]]
      PROVE  d.kind \in Source /\ Problems(d) # {}
  <2>1. d.header = c.header /\ d.kind = c.kind /\ d.meaning = Expected[k]
    BY <1>5, Changed
  <2>2. Expected[k] # Expected[c.kind]
    BY <1>1, MeaningIsExpected
  <2> QED BY <1>1, <1>2, <2>1, <2>2, Noticed
<1>6. ASSUME d = [c EXCEPT !.end = c.start - 1]
      PROVE  d.kind \in Source /\ Problems(d) # {}
  <2>1. d.header = c.header /\ d.kind = c.kind /\ d.start = c.start /\ d.end = c.start - 1
    BY <1>6, Changed DEF SameBut
  <2>2. d.end # None /\ d.end < d.start
    BY <1>1, <2>1 DEF None
  <2> QED BY <1>1, <1>2, <2>1, <2>2, Noticed
<1>7. ASSUME c.unit # ""
      PROVE  c.kind \in {"STAY", "DWELL", "GAP", "DISCONTINUITY"}
             /\ (c.unit = "m" <=> c.kind = "DISCONTINUITY") /\ (c.unit \in {"s", "m"})
  BY <1>1, <1>7 DEF Fits
<1>8. ASSUME c.unit # "",
             \/ d = [c EXCEPT !.magnitude = None] \/ d = [c EXCEPT !.unit = "km"]
      PROVE  d.kind \in Source /\ Problems(d) # {}
  <2>1. d.header = c.header /\ d.kind = c.kind /\ (d.magnitude = None \/ d.unit = "km")
    <3>1. \A f : /\ d = [c EXCEPT !.magnitude = f] =>
                      SameBut(c, d, "magnitude") /\ d.magnitude = f
                 /\ d = [c EXCEPT !.unit = f] => SameBut(c, d, "unit") /\ d.unit = f
      BY Changed
    <3> QED BY <1>8, <3>1 DEF SameBut
  <2>2. d.kind \in {"STAY", "DWELL"} => IntervalProblems(d) # {}
    BY <2>1 DEF IntervalProblems
  <2>3. d.kind \in {"GAP", "DISCONTINUITY"} => EdgeProblems(d) # {}
    BY <2>1 DEF EdgeProblems
  <2> QED BY <1>1, <1>2, <1>7, <1>8, <2>1, <2>2, <2>3, Noticed
<1>9. ASSUME HasDuration(c),
             \/ d = [c EXCEPT !.end = None] \/ d = [c EXCEPT !.end = @ + 1]
             \/ d = [c EXCEPT !.start = @ + 1] \/ d = [c EXCEPT !.magnitude = @ + 1]
      PROVE  d.kind \in Source /\ Problems(d) # {}
  <2>1. /\ c.kind \in {"STAY", "DWELL"} /\ c.end \in Nat /\ c.start <= c.end
        /\ c.magnitude = c.end - c.start /\ c.unit = "s"
    BY <1>1, <1>9 DEF Fits, HasDuration
  <2>2. PICK e, g, t : e = c.end + 1 /\ g = c.magnitude + 1 /\ t = c.start + 1
    OBVIOUS
  <2>3. /\ d.header = c.header /\ d.kind = c.kind
        /\ \/ d.end = None
           \/ d.start = c.start /\ d.end = e /\ d.magnitude = c.magnitude
           \/ d.start = t /\ d.end = c.end /\ d.magnitude = c.magnitude
           \/ d.start = c.start /\ d.end = c.end /\ d.magnitude = g
    BY <1>9, <2>2, Changed DEF SameBut
  <2>4. d.end # None => d.end - d.start # d.magnitude
    BY <1>1, <2>1, <2>2, <2>3
  <2>5. IntervalProblems(d) # {}
    <3>1. CASE d.magnitude = None \/ d.unit # "s" \/ d.end = None
      BY <3>1 DEF IntervalProblems
    <3>2. CASE ~(d.magnitude = None \/ d.unit # "s" \/ d.end = None)
      BY <2>4, <3>2 DEF IntervalProblems
    <3> QED BY <3>1, <3>2
  <2> QED BY <1>1, <1>2, <2>1, <2>3, <2>5, Noticed
<1>10. ASSUME HasDuration(c), NEW f,
              f = IF c.kind = "STAY" THEN c.magnitude ELSE c.magnitude + 1,
              d = [c EXCEPT !.threshold = f]
       PROVE  d.kind \in Source /\ Problems(d) # {}
  <2>1. /\ c.kind \in {"STAY", "DWELL"} /\ c.magnitude \in Nat
        /\ c.magnitude # None /\ c.end # None /\ c.unit = "s"
    <3>1. /\ c.kind \in {"STAY", "DWELL"} /\ c.end \in Nat /\ c.start <= c.end
          /\ c.magnitude = c.end - c.start /\ c.unit = "s"
      BY <1>1, <1>10 DEF Fits, HasDuration
    <3>2. c.magnitude \in Nat
      BY <1>1, <3>1
    <3> QED BY <3>1, <3>2 DEF None
  <2>2. SameBut(c, d, "threshold") /\ d.threshold = f
    BY <1>10, Changed
  <2>3. /\ c.kind = "STAY" => c.magnitude >= f
        /\ c.kind = "DWELL" => c.magnitude < f
    BY <1>10, <2>1
  <2>4. "stay" \in IntervalProblems(d) \/ "dwell" \in IntervalProblems(d)
    BY <2>1, <2>2, <2>3 DEF IntervalProblems, SameBut
  <2> QED BY <1>1, <1>2, <2>1, <2>2, <2>4, Noticed DEF SameBut
<1>11. \/ \E f \in Header : d = [c EXCEPT !.header = @ \ {f}]
       \/ \E k \in (Source \cup {"MOVE"}) \ {c.kind} : d = [c EXCEPT !.kind = k]
       \/ \E k \in Source \ {c.kind} : d = [c EXCEPT !.meaning = Expected[k]]
       \/ d = [c EXCEPT !.end = c.start - 1]
       \/ c.unit # "" /\ (\/ d = [c EXCEPT !.magnitude = None]
                          \/ d = [c EXCEPT !.unit = "km"])
       \/ HasDuration(c) /\
            (\/ d = [c EXCEPT !.end = None] \/ d = [c EXCEPT !.end = @ + 1]
             \/ d = [c EXCEPT !.start = @ + 1] \/ d = [c EXCEPT !.magnitude = @ + 1])
       \/ HasDuration(c) /\
            d = [c EXCEPT !.threshold =
                   IF c.kind = "STAY" THEN c.magnitude ELSE c.magnitude + 1]
  BY MeaningIsExpected, Zenon DEF Damaged
<1> QED BY <1>3, <1>4, <1>5, <1>6, <1>8, <1>9, <1>10, <1>11

-----------------------------------------------------------------------------
\* The file of all events, with blank lines in between.
LEMMA FileConforms ==
  ASSUME NEW n \in Nat, NEW file, NEW E,
         file = [j \in 1 .. 2 * n |->
                   IF j % 2 = 0 THEN BlankLine ELSE E[(j + 1) \div 2]],
         \A k \in 1 .. n : E[k] \notin {BlankLine, JunkLine} /\ Problems(E[k]) = {}
  PROVE  FileReport(file) = [events |-> n, valid |-> TRUE]
<1> DEFINE read == {i \in DOMAIN file : file[i] \notin {BlankLine, JunkLine}}
           bad  == {i \in DOMAIN file : file[i] = JunkLine}
                     \cup {i \in read : Problems(file[i]) # {}}
<1>1. DOMAIN file = 1 .. 2 * n
  OBVIOUS
<1>2. ASSUME NEW j \in 1 .. 2 * n
      PROVE  \/ j % 2 = 0 /\ file[j] = BlankLine
             \/ \E k \in 1 .. n : j = 2 * k - 1 /\ file[j] = E[k]
  <2>1. CASE j % 2 = 0
    BY <2>1
  <2>2. CASE j % 2 = 1
    <3>1. PICK k \in Int : k = (j + 1) \div 2
      OBVIOUS
    <3>0. j = 2 * k - 1 /\ k \in 1 .. n
      BY <2>2, <3>1
    <3>2. (j + 1) \div 2 = k
      BY <3>1
    <3> QED BY <2>2, <3>0, <3>2
  <2> QED BY <2>1, <2>2
<1>3. BlankLine # JunkLine
  BY DEF BlankLine, JunkLine
<1>4. bad = {}
  BY <1>2, <1>3, <1>1
<1>5. Cardinality(read) = n
  <2>1. read = {2 * k - 1 : k \in 1 .. n}
    <3>1. ASSUME NEW k \in 1 .. n PROVE 2 * k - 1 \in 1 .. 2 * n /\ file[2 * k - 1] = E[k]
      <4>1. PICK j : j = 2 * k - 1
        OBVIOUS
      <4>2. j \in 1 .. 2 * n /\ j % 2 = 1 /\ (j + 1) \div 2 = k
        BY <4>1
      <4> QED BY <4>1, <4>2
    <3>2. ASSUME NEW j \in read PROVE j \in {2 * k - 1 : k \in 1 .. n}
      BY <1>1, <1>2
    <3>3. ASSUME NEW k \in 1 .. n PROVE 2 * k - 1 \in read
      BY <1>1, <3>1
    <3> HIDE DEF read
    <3> QED BY <3>2, <3>3
  <2> HIDE DEF read
  <2> DEFINE f == [k \in 1 .. n |-> 2 * k - 1]
  <2>2. f \in Bijection(1 .. n, read)
    <3>1. f \in [1 .. n -> read]
      BY <2>1
    <3>2. \A j, k \in 1 .. n : f[j] = f[k] => j = k
      OBVIOUS
    <3>3. \A y \in read : \E k \in 1 .. n : f[k] = y
      BY <2>1
    <3> HIDE DEF f
    <3> QED BY <3>1, <3>2, <3>3 DEF Bijection, Injection, Surjection, IsInjective
  <2> HIDE DEF f
  <2>3. IsFiniteSet(1 .. n) /\ Cardinality(1 .. n) = n
    BY FS_Interval
  <2>4. ExistsBijection(1 .. n, read)
    BY <2>2 DEF ExistsBijection
  <2> QED BY <2>3, <2>4, FS_Bijection
<1>6. FileReport(file) = [events |-> Cardinality(read), valid |-> bad = {}]
  BY DEF FileReport
<1> HIDE DEF read, bad
<1> QED BY <1>4, <1>5, <1>6

-----------------------------------------------------------------------------
\* Whatever the eventizer decided, no event of it fails its run, and the
\* validator accepts the file of them at any threshold; it reports every event
\* with a field wrong that a rule is about, and a line cut short, and accepts one
\* that is wrong where no rule looks (validate.Event, EventsFile).
THEOREM ValidationAlwaysHolds == Spec => []ValidationHolds
<1>1. ASSUME Timeline, Measures PROVE GeneratedEventsConform
  <2> DEFINE E == [k \in 1 .. Len(events) |-> CoreEvent(events[k])]
             file == [j \in 1 .. 2 * Len(events) |->
                        IF j % 2 = 0 THEN BlankLine ELSE CoreEvent(events[(j + 1) \div 2])]
             hull == [j \in 1 .. 2 * Len(events) |->
                        IF j % 2 = 0 THEN BlankLine ELSE E[(j + 1) \div 2]]
  <2>1. PICK n \in Nat : n = Len(events) /\ DOMAIN events = 1 .. n
    BY <1>1 DEF Timeline, Evidence, Inductive, TypeOK
  <2>2. file = hull
    <3>1. ASSUME NEW j \in 1 .. 2 * n, j % 2 # 0
          PROVE  (j + 1) \div 2 \in 1 .. n
      BY <3>1
    <3> QED BY <2>1, <3>1
  <2>3. \A k \in 1 .. n : E[k] \notin {BlankLine, JunkLine} /\ Problems(E[k]) = {}
    <3> SUFFICES ASSUME NEW k \in 1 .. n
                 PROVE  E[k] \notin {BlankLine, JunkLine} /\ Problems(E[k]) = {}
      OBVIOUS
    <3>1. PICK c : c = CoreEvent(events[k])
      OBVIOUS
    <3>2. IsCore(c)
      BY <1>1, <2>1, <3>1, CoreIsCore DEF Said
    <3>3. c \notin {BlankLine, JunkLine} /\ Problems(c) = {}
      BY <3>2, CorePasses, PassesIsValid, EventLine DEF IsCore
    <3> QED BY <2>1, <3>1, <3>3
  <2> HIDE DEF E
  <2>4. hull = [j \in 1 .. 2 * n |-> IF j % 2 = 0 THEN BlankLine ELSE E[(j + 1) \div 2]]
    BY <2>1
  <2> HIDE DEF hull
  <2>5. FileReport(hull) = [events |-> n, valid |-> TRUE]
    BY <2>3, <2>4, FileConforms
  <2>6. GeneratedEventsConform <=> FileReport(file) = [events |-> Len(events), valid |-> TRUE]
    BY Zenon DEF GeneratedEventsConform
  <2> HIDE DEF file
  <2> QED BY <2>1, <2>2, <2>5, <2>6
<1>2. ASSUME Timeline, Measures PROVE DamageIsReported
  <2> SUFFICES ASSUME NEW j \in DOMAIN result.events,
                      NEW d \in Damaged(CoreEvent(result.events[j])) \cup {JunkLine}
               PROVE  ~FileReport(<<d>>).valid
    BY DEF DamageIsReported
  <2>1. CASE d = JunkLine
    BY <2>1, OneLine
  <2>2. CASE d \in Damaged(CoreEvent(result.events[j]))
    <3>1. PICK e : e = result.events[j]
      OBVIOUS
    <3>2. Said(events, e)
      <4>1. Finished
        BY DEF Finished, NoResult
      <4> QED BY <1>2, <3>1, <4>1 DEF Timeline, InOrder, Said
    <3>3. IsCore(CoreEvent(e))
      BY <1>2, <3>2, CoreIsCore
    <3>4. d.kind \in Source \cup {"MOVE"} /\ Problems(d) # {}
      BY <2>2, <3>1, <3>3, DamageIsNoticed
    <3>5. d # BlankLine
      BY <3>4, EventLine
    <3> QED BY <3>4, <3>5, OneLine
  <2> QED BY <2>1, <2>2
<1>3. ASSUME Timeline, Measures PROVE UnjudgedIsAccepted
  <2> SUFFICES ASSUME NEW j \in DOMAIN result.events,
                      NEW d \in Unjudged(CoreEvent(result.events[j]))
               PROVE  FileReport(<<d>>).valid
    BY DEF UnjudgedIsAccepted
  <2>1. PICK e : e = result.events[j]
    OBVIOUS
  <2>2. Said(events, e)
    BY <1>3, <2>1 DEF Finished, NoResult, Timeline, InOrder, Said
  <2>3. IsCore(CoreEvent(e))
    BY <1>3, <2>2, CoreIsCore
  <2>4. Passes(d)
    BY <2>1, <2>3, UnjudgedPasses
  <2>5. Problems(d) = {} /\ d # JunkLine
    BY <2>4, PassesIsValid, EventLine DEF Passes
  <2> QED BY <2>5, OneLine
<1> QED BY <1>1, <1>2, <1>3, SpecTimeline, SpecMeasures, PTL DEF ValidationHolds

-----------------------------------------------------------------------------
(* The targeted trace.                                                     *)

\* Forgetting the trace leaves a step of the eventizer.
LEMMA TraceStepIsStep == [TraceNext]_traceVars => [Next]_vars
BY DEF TraceNext, Next, traceVars, vars

LEMMA TraceInductive == TraceSpec => []Inductive
<1>1. TraceInit => Inductive
  BY InitInductive DEF TraceInit
<1>2. Inductive /\ [TraceNext]_traceVars => Inductive'
  BY TraceStepIsStep, NextInductive
<1> QED BY <1>1, <1>2, PTL DEF TraceSpec

-----------------------------------------------------------------------------
(* Counting rows.                                                          *)

IsRows(t) == t \in Seq({t[i] : i \in DOMAIN t})

Showing(t, c) == {i \in 1 .. Len(t) : Shows(t[i], c)}

LEMMA ShowingFinite ==
  ASSUME NEW t, IsRows(t), NEW c
  PROVE  IsFiniteSet(Showing(t, c)) /\ Cardinality(Showing(t, c)) \in Nat
<1>1. Len(t) \in Nat
  BY DEF IsRows
<1>2. IsFiniteSet(1 .. Len(t))
  BY <1>1, FS_Interval
<1>3. IsFiniteSet(Showing(t, c))
  BY <1>2, FS_Subset DEF Showing
<1> QED BY <1>3, FS_CardinalityType

\* A row added to a sequence is counted if it shows the counter.
LEMMA AppendedRow ==
  ASSUME NEW t, IsRows(t), NEW r, NEW c
  PROVE  /\ IsRows(Append(t, r))
         /\ Shows(r, c) => Cardinality(Showing(Append(t, r), c))
                             = Cardinality(Showing(t, c)) + 1
         /\ ~Shows(r, c) => Showing(Append(t, r), c) = Showing(t, c)
<1> DEFINE All == {t[i] : i \in DOMAIN t} \cup {r}
           u == Append(t, r)
<1>1. t \in Seq(All) /\ r \in All /\ Len(t) \in Nat
  BY DEF IsRows
<1>2. /\ u \in Seq(All) /\ Len(u) = Len(t) + 1 /\ u[Len(t) + 1] = r
      /\ \A i \in 1 .. Len(t) : u[i] = t[i]
  BY <1>1
<1> HIDE DEF u, All
<1>3. u \in Seq({u[i] : i \in DOMAIN u})
  BY <1>2
<1>4. Shows(r, c) => Showing(u, c) = Showing(t, c) \cup {Len(t) + 1}
  BY <1>1, <1>2 DEF Showing
<1>5. ~Shows(r, c) => Showing(u, c) = Showing(t, c)
  BY <1>1, <1>2 DEF Showing
<1>6. Len(t) + 1 \notin Showing(t, c)
  BY <1>1 DEF Showing
<1>7. Shows(r, c) => Cardinality(Showing(u, c)) = Cardinality(Showing(t, c)) + 1
  BY <1>4, <1>6, ShowingFinite, FS_AddElement
<1> QED BY <1>3, <1>5, <1>7 DEF IsRows, u

Accounts == IsRows(trace) /\ DecisionsAreCounted

\* A step that adds one row and counts, of the counters a row can show, the
\* ones this row shows.
LEMMA RowAccounted ==
  ASSUME TypeOK, Accounts, NEW r, trace' = Append(trace, r),
         NEW S, diag' = Counted(S),
         \A c \in ShownCounters : c \in S <=> Shows(r, c)
  PROVE  Accounts'
<1>1. IsRows(trace')
  BY AppendedRow DEF Accounts
<1>2. ASSUME NEW c \in ShownCounters
      PROVE  diag'[c] = Cardinality(Showing(trace', c))
  <2>1. c \in Counter /\ diag[c] \in Nat
    BY DEF ShownCounters, Counter, TypeOK
  <2>2. diag[c] = Cardinality(Showing(trace, c))
    BY DEF Accounts, DecisionsAreCounted, Showing
  <2>3. diag'[c] = diag[c] + (IF c \in S THEN 1 ELSE 0)
    BY <2>1 DEF Counted
  <2>4. CASE Shows(r, c)
    BY <2>1, <2>2, <2>3, <2>4, AppendedRow DEF Accounts
  <2>5. CASE ~Shows(r, c)
    BY <2>5, AppendedRow, <2>1, <2>2, <2>3 DEF Accounts
  <2> QED BY <2>4, <2>5
<1> QED BY <1>1, <1>2 DEF Accounts, DecisionsAreCounted, Showing

\* What a row built by appendTrace says of the state before the step.
LEMMA RowReads ==
  ASSUME TypeOK, NEW a, NEW d, NEW names,
         NEW r, r = Row(Reported(state, pending), a, d, FALSE, names, 0)
  PROVE  /\ r.decision = d
         /\ r.before.candidates > 0 <=> state.moveCandidates # <<>>
         /\ r.before.pending <=> pending # NoPending
<1>1. /\ r.decision = d /\ r.before.pending = (pending # NoPending)
      /\ r.before.candidates = Len(state.moveCandidates)
  BY DEF Row, Reported
<1>2. state.moveCandidates \in Seq(Index)
  BY DEF TypeOK, PresenceState
<1>3. Len(state.moveCandidates) > 0 <=> state.moveCandidates # <<>>
  BY <1>2
<1> QED BY <1>1, <1>3

-----------------------------------------------------------------------------
(* The branches of the loop.                                               *)

\* Every lemma below restates a branch as the set it counts and its decision.
LEMMA BranchAccounted ==
  ASSUME TypeOK, Accounts, NEW d, Traced(d), NEW S, diag' = Counted(S),
         ASSUME NEW r, NEW c \in ShownCounters, r.decision = d,
                r.before.candidates > 0 <=> state.moveCandidates # <<>>,
                r.before.pending <=> pending # NoPending
         PROVE  c \in S <=> Shows(r, c)
  PROVE  Accounts'
<1> DEFINE r == Row(Reported(state, pending), Reported(state', pending'), d,
                    FALSE, EmittedNames(events', Len(events)), 0)
<1>1. trace' = Append(trace, r)
  BY DEF Traced
<1>2. /\ r.decision = d
      /\ r.before.candidates > 0 <=> state.moveCandidates # <<>>
      /\ r.before.pending <=> pending # NoPending
  BY RowReads
<1> HIDE DEF r
<1>3. \A c \in ShownCounters : c \in S <=> Shows(r, c)
  BY <1>2
<1> QED BY <1>1, <1>3, RowAccounted

\* The names a start of presence counts, reason by reason.
LEMMA StartShown ==
  ASSUME NEW reason \in StartReasons, NEW c \in ShownCounters
  PROVE  c \in PresenceStartCounters(reason) <=>
           \/ c = "PresenceConfirmations"
           \/ c = "PresenceStartDataset" /\ reason = "dataset_start"
           \/ c = "PresenceStartContinuityReset" /\ reason = "continuity_reset"
BY DEF PresenceStartCounters, StartReasons, ShownCounters

LEMMA BreakTraced ==
  ASSUME Inductive, Accounts, NEW o \in Incoming, ContinuityBreak(o),
         Traced(BreakDecision(o))
  PROVE  Accounts'
<1> DEFINE reason == IF o.disc THEN "discontinuity" ELSE "gap"
           d == BreakDecision(o)
           S == When(CandidateOpen,
                     {IF o.disc THEN "DepartureCandidatesCancelledDiscontinuity"
                                ELSE "DepartureCandidatesCancelledGap"})
                \cup When(Closable, {PresenceEndCounter(reason)})
                \cup When(pending # NoPending,
                     {IF o.disc THEN "PendingTransitionsCancelledDiscontinuity"
                                ELSE "PendingTransitionsCancelledGap"})
<1>1. diag' = Counted(S)
  BY DEF ContinuityBreak
<1>2. CandidateOpen <=> state.moveCandidates # <<>>
  BY DEF Inductive, StateCoherent, CandidateOpen, Present
<1>3. /\ d \in Breaks
      /\ d = "continuity_break_gap" <=> ~o.disc
  BY DEF BreakDecision, Breaks, ContinuityBreak
<1>4. PresenceEndCounter(reason) \notin ShownCounters
  BY DEF PresenceEndCounter, ShownCounters
<1>5. \A c \in ShownCounters : c \in S <=>
        \/ /\ state.moveCandidates # <<>>
           /\ c = IF o.disc THEN "DepartureCandidatesCancelledDiscontinuity"
                            ELSE "DepartureCandidatesCancelledGap"
        \/ /\ pending # NoPending
           /\ c = IF o.disc THEN "PendingTransitionsCancelledDiscontinuity"
                            ELSE "PendingTransitionsCancelledGap"
  BY <1>2, <1>4 DEF When
<1> HIDE DEF S
<1>6. ASSUME NEW r, NEW c \in ShownCounters, r.decision = d,
             r.before.candidates > 0 <=> state.moveCandidates # <<>>,
             r.before.pending <=> pending # NoPending
      PROVE  c \in S <=> Shows(r, c)
  <2>1. CASE o.disc
    BY <2>1, <1>3, <1>5, <1>6 DEF Shows, ShownCounters, Breaks, Departures,
       Confirmations
  <2>2. CASE ~o.disc
    BY <2>2, <1>3, <1>5, <1>6 DEF Shows, ShownCounters, Breaks, Departures,
       Confirmations
  <2> QED BY <2>1, <2>2
<1> QED BY <1>1, <1>6, BranchAccounted DEF Inductive

LEMMA ArrivalTraced ==
  ASSUME Inductive, Accounts, NEW o \in Incoming, ConfirmArrival(o),
         Traced("presence_confirmed_arrival_transition")
  PROVE  Accounts'
<1> DEFINE d == "presence_confirmed_arrival_transition"
           S == PresenceStartCounters(state.startReason)
                  \cup {"TransitionsConfirmed"}
<1>1. diag' = Counted(S) /\ state.startReason = "movement_arrival"
  BY DEF ConfirmArrival, ArrivalMatches
<1>2. \A c \in ShownCounters : c \in S <=>
        c \in {"PresenceConfirmations", "TransitionsConfirmed"}
  BY <1>1, StartShown DEF StartReasons
<1> HIDE DEF S
<1>3. ASSUME NEW r, NEW c \in ShownCounters, r.decision = d,
             r.before.candidates > 0 <=> state.moveCandidates # <<>>,
             r.before.pending <=> pending # NoPending
      PROVE  c \in S <=> Shows(r, c)
  BY <1>2, <1>3 DEF Shows, Breaks, Departures, Confirmations
<1> QED BY <1>1, <1>3, BranchAccounted DEF Inductive

\* While seeking, an arrival by movement always matches (StateCoherent), so
\* the segment mismatch is never named here.
LEMMA PresenceTraced ==
  ASSUME Inductive, Accounts, NEW o \in Incoming, ConfirmPresence(o),
         Traced(PresenceDecision)
  PROVE  Accounts'
<1> DEFINE d == PresenceDecision
           arrival == state.startReason = "movement_arrival"
           S == PresenceStartCounters(state.startReason)
                \cup When(arrival /\ pending # NoPending,
                          {"PendingTransitionsCancelledSegmentMismatch"})
                \cup When(\/ arrival /\ pending = NoPending
                          \/ state.startReason = "candidate_presence",
                          {"EnterSuppressedNoPendingTransition"})
<1>1. diag' = Counted(S)
  BY DEF ConfirmPresence
<1>2. state.startReason \in StartReasons \ {"movement_arrival"}
  BY DEF ConfirmPresence, ArrivalMatches, Inductive, StateCoherent, Present,
     AnchorSegment, Anchor, TypeOK, PresenceState
<1>3. \A c \in ShownCounters : c \in S <=>
        \/ c = "PresenceConfirmations"
        \/ c = "PresenceStartDataset" /\ state.startReason = "dataset_start"
        \/ /\ c = "PresenceStartContinuityReset"
           /\ state.startReason = "continuity_reset"
        \/ /\ c = "EnterSuppressedNoPendingTransition"
           /\ state.startReason = "candidate_presence"
  BY <1>2, StartShown DEF When
<1>4. /\ state.startReason = "dataset_start"
           => d = "presence_confirmed_dataset_start"
      /\ state.startReason = "continuity_reset"
           => d = "presence_confirmed_continuity_reset"
      /\ state.startReason = "candidate_presence"
           => d = "presence_confirmed_enter_suppressed"
  BY DEF PresenceDecision
<1> HIDE DEF S, d
<1>5. ASSUME NEW r, NEW c \in ShownCounters, r.decision = d,
             r.before.candidates > 0 <=> state.moveCandidates # <<>>,
             r.before.pending <=> pending # NoPending
      PROVE  c \in S <=> Shows(r, c)
  BY <1>2, <1>3, <1>4, <1>5 DEF Shows, Breaks, Departures, Confirmations,
     StartReasons
<1> QED BY <1>1, <1>5, BranchAccounted DEF Inductive, d

LEMMA ReanchorTraced ==
  ASSUME Inductive, Accounts, NEW o \in Incoming, Reanchor(o),
         Traced("presence_candidate_reanchored")
  PROVE  Accounts'
<1> DEFINE S == {}
<1>1. diag = Counted(S)
  BY DEF Inductive, TypeOK, Counted
<1>2. diag' = Counted(S)
  BY <1>1 DEF Reanchor
<1>3. ASSUME NEW r, NEW c \in ShownCounters,
             r.decision = "presence_candidate_reanchored",
             r.before.candidates > 0 <=> state.moveCandidates # <<>>,
             r.before.pending <=> pending # NoPending
      PROVE  c \in S <=> Shows(r, c)
  BY <1>3 DEF Shows, Breaks, Departures, Confirmations
<1> HIDE DEF S
<1> QED BY <1>2, <1>3, BranchAccounted DEF Inductive

LEMMA InsideTraced ==
  ASSUME Inductive, Accounts, NEW o \in Incoming, RemainInside(o),
         Traced(InsideDecision)
  PROVE  Accounts'
<1> DEFINE S == When(CandidateOpen, {"DepartureCandidatesReturnedInside"})
<1>1. diag' = Counted(S)
  BY DEF RemainInside
<1>2. ASSUME NEW r, NEW c \in ShownCounters, r.decision = InsideDecision,
             r.before.candidates > 0 <=> state.moveCandidates # <<>>,
             r.before.pending <=> pending # NoPending
      PROVE  c \in S <=> Shows(r, c)
  BY <1>2 DEF When, InsideDecision, Shows, Breaks, Departures, Confirmations
<1> QED BY <1>1, <1>2, BranchAccounted DEF Inductive

LEMMA CandidateTraced ==
  ASSUME Inductive, Accounts, NEW o \in Incoming,
         \/ /\ StartCandidate(o)
            /\ Traced("departure_candidate_started")
         \/ /\ RestartCandidate(o)
            /\ Traced("departure_candidate_window_expired_restart")
  PROVE  Accounts'
<1>1. CASE StartCandidate(o) /\ Traced("departure_candidate_started")
  <2> DEFINE S == {"DepartureCandidateOutsideFixes",
                   "DepartureCandidateSequences"}
  <2>1. diag' = Counted(S)
    BY <1>1 DEF StartCandidate
  <2>2. ASSUME NEW r, NEW c \in ShownCounters,
               r.decision = "departure_candidate_started",
               r.before.candidates > 0 <=> state.moveCandidates # <<>>,
               r.before.pending <=> pending # NoPending
        PROVE  c \in S <=> Shows(r, c)
    BY <2>2 DEF Shows, ShownCounters, Breaks, Departures, Confirmations
  <2> QED BY <1>1, <2>1, <2>2, BranchAccounted DEF Inductive
<1>2. CASE /\ RestartCandidate(o)
           /\ Traced("departure_candidate_window_expired_restart")
  <2> DEFINE S == {"DepartureCandidateOutsideFixes",
                   "DepartureCandidateWindowExpired",
                   "DepartureCandidateSequences"}
  <2>1. diag' = Counted(S)
    BY <1>2 DEF RestartCandidate
  <2>2. ASSUME NEW r, NEW c \in ShownCounters,
               r.decision = "departure_candidate_window_expired_restart",
               r.before.candidates > 0 <=> state.moveCandidates # <<>>,
               r.before.pending <=> pending # NoPending
        PROVE  c \in S <=> Shows(r, c)
    BY <2>2 DEF Shows, ShownCounters, Breaks, Departures, Confirmations
  <2> QED BY <1>2, <2>1, <2>2, BranchAccounted DEF Inductive
<1> QED BY <1>1, <1>2

LEMMA DepartureTraced ==
  ASSUME Inductive, Accounts, NEW o \in Incoming, NEW d \in Departures,
         DepartUnconfirmed(o) \/ ConfirmDeparture(o), Traced(d)
  PROVE  Accounts'
<1> DEFINE Names(extra) == extra \cup {"PresenceEndConfirmedMovement",
                 "DeparturesConfirmed", "PendingTransitionsStarted"}
<1>1. PICK extra \in {{}, {"DepartureCandidateOutsideFixes"}} :
        diag' = Counted(Names(extra))
  BY DEF DepartUnconfirmed, ConfirmDeparture, Depart
<1>2. \A c \in ShownCounters : c \in Names(extra) <=> c = "DeparturesConfirmed"
  BY DEF ShownCounters
<1> DEFINE S == Names(extra)
<1>3. diag' = Counted(S) /\ \A c \in ShownCounters : c \in S <=> c = "DeparturesConfirmed"
  BY <1>1, <1>2
<1> HIDE DEF S
<1>4. ASSUME NEW r, NEW c \in ShownCounters, r.decision = d,
             r.before.candidates > 0 <=> state.moveCandidates # <<>>,
             r.before.pending <=> pending # NoPending
      PROVE  c \in S <=> Shows(r, c)
  BY <1>3, <1>4 DEF Shows, Breaks, Departures, Confirmations
<1> QED BY <1>3, <1>4, BranchAccounted DEF Inductive

\* The end of the input changes neither the decision nor the state before it
\* of any row, and counts nothing a row can show.
LEMMA FinishTraced ==
  ASSUME Inductive, Accounts, Finish, TraceEnd
  PROVE  Accounts'
<1> DEFINE n == Len(trace)
<1>1. n \in Nat /\ DOMAIN trace = 1 .. n
  BY DEF Accounts, IsRows
<1>2. PICK u : /\ trace' = [i \in 1 .. n |-> u[i]]
               /\ \A i \in 1 .. n : /\ u[i].decision = trace[i].decision
                                    /\ u[i].before = trace[i].before
  <2> DEFINE w == [i \in 1 .. n |->
               IF i < n
                 THEN Row(trace[i].before, trace[i].after, trace[i].decision,
                          FALSE, trace[i].emitted, result'.label[i])
                 ELSE Row(trace[i].before, AfterEnd(trace[i]),
                          trace[i].decision, TRUE, FinalNames(trace[i]),
                          result'.label[i])]
  <2>1. trace' = w
    BY <1>1 DEF TraceEnd
  <2>2. \A i \in 1 .. n : /\ w[i].decision = trace[i].decision
                          /\ w[i].before = trace[i].before
    BY DEF Row
  <2>3. w = [i \in 1 .. n |-> w[i]]
    OBVIOUS
  <2> HIDE DEF w
  <2> QED BY <2>1, <2>2, <2>3
<1>3. trace' \in Seq({u[i] : i \in 1 .. n}) /\ Len(trace') = n
  BY <1>1, <1>2
<1>4. IsRows(trace')
  BY <1>3 DEF IsRows
<1>5. \A c \in ShownCounters : Showing(trace', c) = Showing(trace, c)
  BY <1>2, <1>3 DEF Showing, Shows
<1> DEFINE S == When(CandidateOpen, {"DepartureCandidatesCancelledEOF"})
                \cup When(Closable, {PresenceEndCounter("dataset_end")})
                \cup When(pending # NoPending,
                          {"PendingTransitionsUnresolvedEOF"})
<1>6. diag' = Counted(S)
  BY DEF Finish
<1>7. \A c \in ShownCounters : c \notin S
  BY DEF When, PresenceEndCounter, ShownCounters
<1> HIDE DEF S
<1>8. ASSUME NEW c \in ShownCounters PROVE diag'[c] = diag[c]
  <2>1. c \in Counter /\ diag[c] \in Nat
    BY DEF ShownCounters, Counter, Inductive, TypeOK
  <2>2. diag'[c] = diag[c] + 0
    BY <2>1, <1>6, <1>7 DEF Counted
  <2> QED BY <2>1, <2>2
<1> QED BY <1>4, <1>5, <1>8 DEF Accounts, DecisionsAreCounted, Showing

-----------------------------------------------------------------------------
LEMMA InitTraced == TraceInit => Accounts
<1> SUFFICES ASSUME TraceInit PROVE Accounts
  OBVIOUS
<1>1. PICK r : trace = <<r>> /\ r.decision = "dataset_start"
  BY DEF TraceInit, Row
<1>2. IsRows(trace) /\ Len(trace) = 1
  BY <1>1 DEF IsRows
<1>3. ASSUME NEW c \in ShownCounters
      PROVE  diag[c] = Cardinality(Showing(trace, c))
  <2>1. Showing(trace, c) = {}
    BY <1>1, <1>2, <1>3 DEF Showing, Shows, Breaks, Departures, Confirmations
  <2>2. diag[c] = 0
    BY <1>3 DEF TraceInit, Init, ShownCounters, Counter
  <2> QED BY <2>1, <2>2, FS_EmptySet
<1> QED BY <1>2, <1>3 DEF Accounts, DecisionsAreCounted, Showing

\* For every geometry, threshold, mode and input, counting the decisions in the
\* trace of an entity gives its decision counters (appendTrace against the
\* counters of Eventize).
THEOREM TraceCountsDecisions == TraceSpec => []DecisionsAreCounted
<1>1. Inductive /\ Accounts /\ [TraceNext]_traceVars => Accounts'
  <2> SUFFICES ASSUME Inductive, Accounts, [TraceNext]_traceVars PROVE Accounts'
    OBVIOUS
  <2>1. CASE UNCHANGED traceVars
    BY <2>1 DEF traceVars, Accounts, DecisionsAreCounted
  <2>2. CASE Finish /\ TraceEnd
    BY <2>2, FinishTraced
  <2>3. ASSUME NEW o \in Incoming, ContinuityBreak(o), Traced(BreakDecision(o))
        PROVE  Accounts'
    BY <2>3, BreakTraced
  <2>4. ASSUME NEW o \in Incoming, ConfirmArrival(o),
               Traced("presence_confirmed_arrival_transition")
        PROVE  Accounts'
    BY <2>4, ArrivalTraced
  <2>5. ASSUME NEW o \in Incoming, ConfirmPresence(o), Traced(PresenceDecision)
        PROVE  Accounts'
    BY <2>5, PresenceTraced
  <2>6. ASSUME NEW o \in Incoming, Reanchor(o),
               Traced("presence_candidate_reanchored")
        PROVE  Accounts'
    BY <2>6, ReanchorTraced
  <2>7. ASSUME NEW o \in Incoming, RemainInside(o), Traced(InsideDecision)
        PROVE  Accounts'
    BY <2>7, InsideTraced
  <2>8. ASSUME NEW o \in Incoming,
               \/ /\ StartCandidate(o)
                  /\ Traced("departure_candidate_started")
               \/ /\ RestartCandidate(o)
                  /\ Traced("departure_candidate_window_expired_restart")
        PROVE  Accounts'
    BY <2>8, CandidateTraced
  <2>9. ASSUME NEW o \in Incoming,
               \/ /\ DepartUnconfirmed(o)
                  /\ Traced("departure_confirmed_unconfirmed_mode")
               \/ ConfirmDeparture(o) /\ Traced("departure_confirmed")
        PROVE  Accounts'
    BY <2>9, DepartureTraced DEF Departures
  <2> QED BY <2>1, <2>2, <2>3, <2>4, <2>5, <2>6, <2>7, <2>8, <2>9 DEF TraceNext
<1>2. Accounts => DecisionsAreCounted
  BY DEF Accounts
<1> QED BY <1>1, <1>2, InitTraced, TraceInductive, PTL DEF TraceSpec

-----------------------------------------------------------------------------
(* Induction on natural numbers.                                           *)

LEMMA LeastNatural ==
  ASSUME NEW T, T \subseteq Nat, T # {}
  PROVE  \E x \in T : \A y \in T : x <= y
<1> DEFINE R == OpToRel(<, Nat)
<1>1. PICK x \in T : \A y \in T : ~(<<y, x>> \in R)
  <2>1. IsWellFoundedOn(R, Nat)
    BY NatLessThanWellFounded
  <2> HIDE DEF R
  <2> QED BY <2>1, WFMin
<1>2. ASSUME NEW y \in T PROVE x <= y
  <2>1. y \in Nat /\ x \in Nat
    OBVIOUS
  <2>2. <<y, x>> \in R <=> y < x
    BY <2>1 DEF OpToRel
  <2> HIDE DEF R
  <2> QED BY <1>1, <2>1, <2>2
<1> QED BY <1>2

\* A set with zero and the successors of its members has every number.
LEMMA Induction ==
  ASSUME NEW T, 0 \in T, \A n \in Nat : n \in T => n + 1 \in T
  PROVE  \A n \in Nat : n \in T
<1> DEFINE Rest == {n \in Nat : n \notin T}
<1> SUFFICES ASSUME Rest # {} PROVE FALSE
  OBVIOUS
<1>1. PICK x \in Rest : \A y \in Rest : x <= y
  <2>1. Rest \subseteq Nat
    OBVIOUS
  <2> HIDE DEF Rest
  <2> QED BY <2>1, LeastNatural
<1>2. x \in Nat /\ x # 0
  OBVIOUS
<1>3. x - 1 \in Nat /\ (x - 1) + 1 = x /\ ~(x <= x - 1)
  BY <1>2
<1>4. x - 1 \in T
  BY <1>1, <1>3
<1> QED BY <1>3, <1>4

-----------------------------------------------------------------------------
(* The names of the rows, one after the other.                             *)

\* f joins the names of the rows of t, as NamesUpTo does those of the trace.
Joins(f, t) ==
  f = [i \in Nat |-> IF i = 0 THEN <<>> ELSE f[i - 1] \o t[i].emitted]
JoinsUpTo(n, f, t) ==
  f = [i \in 0 .. n |-> IF i = 0 THEN <<>> ELSE f[i - 1] \o t[i].emitted]

LEMMA JoinsUpToAt ==
  ASSUME NEW t, NEW n \in Nat, NEW f, JoinsUpTo(n, f, t), NEW i \in 0 .. n
  PROVE  /\ i = 0 => f[i] = <<>>
         /\ i # 0 => f[i] = f[i - 1] \o t[i].emitted
<1> DEFINE h == [j \in 0 .. n |-> IF j = 0 THEN <<>> ELSE f[j - 1] \o t[j].emitted]
<1>1. f = h
  BY DEF JoinsUpTo
<1>2. h[i] = IF i = 0 THEN <<>> ELSE f[i - 1] \o t[i].emitted
  OBVIOUS
<1> HIDE DEF h
<1>3. f[i] = h[i]
  BY <1>1
<1> QED BY <1>2, <1>3

LEMMA JoinsAgree ==
  ASSUME NEW t, NEW m \in Nat, NEW n \in Nat, NEW f, NEW g,
         JoinsUpTo(m, f, t), JoinsUpTo(n, g, t)
  PROVE  \A i \in Nat : i <= m /\ i <= n => f[i] = g[i]
<1> DEFINE T == {i \in Nat : i <= m /\ i <= n => f[i] = g[i]}
<1>1. 0 \in T
  BY DEF JoinsUpTo
<1>2. ASSUME NEW i \in Nat, i \in T PROVE i + 1 \in T
  <2> SUFFICES ASSUME i + 1 <= m, i + 1 <= n PROVE f[i + 1] = g[i + 1]
    OBVIOUS
  <2>1. f[i] = g[i] /\ i + 1 \in 0 .. m /\ i + 1 \in 0 .. n /\ (i + 1) - 1 = i
    BY <1>2
  <2>0. i + 1 # 0
    OBVIOUS
  <2>2. f[i + 1] = f[(i + 1) - 1] \o t[i + 1].emitted
    BY <2>0, <2>1, JoinsUpToAt, Zenon
  <2>3. g[i + 1] = g[(i + 1) - 1] \o t[i + 1].emitted
    BY <2>0, <2>1, JoinsUpToAt, Zenon
  <2> QED BY <2>1, <2>2, <2>3
<1> HIDE DEF T
<1>3. \A i \in Nat : i \in T
  BY <1>1, <1>2, Induction
<1> QED BY <1>3 DEF T

LEMMA JoinsUpToExists ==
  ASSUME NEW t
  PROVE  \A n \in Nat : \E f : JoinsUpTo(n, f, t)
<1> DEFINE T == {n \in Nat : \E f : JoinsUpTo(n, f, t)}
<1>1. 0 \in T
  <2> DEFINE f == [i \in 0 .. 0 |-> <<>>]
  <2>1. JoinsUpTo(0, f, t)
    BY DEF JoinsUpTo
  <2> QED BY <2>1
<1>2. ASSUME NEW n \in Nat, n \in T PROVE n + 1 \in T
  <2>1. PICK f : JoinsUpTo(n, f, t)
    BY <1>2
  <2> DEFINE g == [i \in 0 .. n + 1 |-> IF i = n + 1 THEN f[n] \o t[n + 1].emitted
                                        ELSE f[i]]
  <2>2. ASSUME NEW i \in 0 .. n + 1
        PROVE  g[i] = IF i = 0 THEN <<>> ELSE g[i - 1] \o t[i].emitted
    <3>1. CASE i = n + 1
      <4>1. i - 1 = n /\ n \in 0 .. n + 1 /\ n # n + 1 /\ i # 0
        BY <3>1
      <4>2. g[i] = f[n] \o t[n + 1].emitted /\ g[n] = f[n]
        BY <3>1, <4>1
      <4> HIDE DEF g
      <4> QED BY <3>1, <4>1, <4>2
    <3>2. CASE i # n + 1 /\ i # 0
      <4>1. i \in 0 .. n /\ i - 1 \in 0 .. n /\ i - 1 # n + 1 /\ i - 1 \in 0 .. n + 1
        BY <3>2
      <4>2. f[i] = f[i - 1] \o t[i].emitted
        BY <2>1, <3>2, <4>1, JoinsUpToAt, Zenon
      <4> QED BY <3>2, <4>1, <4>2
    <3>3. CASE i = 0
      BY <2>1, <3>3 DEF JoinsUpTo
    <3> QED BY <3>1, <3>2, <3>3
  <2>3. g = [i \in 0 .. n + 1 |-> g[i]]
    OBVIOUS
  <2> HIDE DEF g
  <2>4. JoinsUpTo(n + 1, g, t)
    BY <2>2, <2>3 DEF JoinsUpTo
  <2> QED BY <2>4
<1> HIDE DEF T
<1>3. \A n \in Nat : n \in T
  BY <1>1, <1>2, Induction
<1> QED BY <1>3 DEF T

LEMMA JoinsExists ==
  ASSUME NEW t
  PROVE  \E f : Joins(f, t)
<1> DEFINE G(n) == CHOOSE g : JoinsUpTo(n, g, t)
           f    == [n \in Nat |-> G(n)[n]]
<1>1. \A n \in Nat : JoinsUpTo(n, G(n), t)
  BY JoinsUpToExists
<1> HIDE DEF G
<1>2. ASSUME NEW n \in Nat
      PROVE  f[n] = IF n = 0 THEN <<>> ELSE f[n - 1] \o t[n].emitted
  <2>1. CASE n = 0
    <3>1. 0 \in 0 .. 0
      OBVIOUS
    <3>2. G(0)[0] = <<>>
      BY <1>1, <2>1, <3>1, JoinsUpToAt, Zenon
    <3> QED BY <2>1, <3>2
  <2>2. CASE n # 0
    <3>1. n - 1 \in Nat /\ n - 1 <= n /\ n \in 0 .. n /\ n - 1 \in 0 .. n
      BY <2>2
    <3>2. G(n)[n] = G(n)[n - 1] \o t[n].emitted
      BY <1>1, <2>2, <3>1, JoinsUpToAt, Zenon
    <3>3. JoinsUpTo(n, G(n), t) /\ JoinsUpTo(n - 1, G(n - 1), t)
      BY <1>1, <3>1
    <3>4. G(n)[n - 1] = G(n - 1)[n - 1]
      BY <3>1, <3>3, JoinsAgree
    <3> QED BY <2>2, <3>1, <3>2, <3>4
  <2> QED BY <2>1, <2>2
<1>3. f = [n \in Nat |-> f[n]]
  OBVIOUS
<1> HIDE DEF f
<1>4. Joins(f, t)
  BY <1>2, <1>3 DEF Joins
<1> QED BY <1>4

LEMMA NamesJoin == Joins(NamesUpTo, trace) /\ Joins(NamesUpTo', trace')
<1>1. Joins(NamesUpTo, trace)
  BY JoinsExists DEF NamesUpTo, Joins
<1>2. Joins(NamesUpTo', trace')
  BY JoinsExists DEF NamesUpTo, Joins
<1> QED BY <1>1, <1>2

LEMMA JoinsAt ==
  ASSUME NEW t, NEW f, Joins(f, t), NEW i \in Nat
  PROVE  /\ i = 0 => f[i] = <<>>
         /\ i # 0 => f[i] = f[i - 1] \o t[i].emitted
<1> DEFINE h == [j \in Nat |-> IF j = 0 THEN <<>> ELSE f[j - 1] \o t[j].emitted]
<1>1. f = h
  BY DEF Joins
<1>2. h[i] = IF i = 0 THEN <<>> ELSE f[i - 1] \o t[i].emitted
  OBVIOUS
<1> HIDE DEF h
<1>3. f[i] = h[i]
  BY <1>1
<1> QED BY <1>2, <1>3

\* Rows that emit the same names join to the same names.
LEMMA JoinsOfEqualRows ==
  ASSUME NEW t, NEW u, NEW f, NEW g, Joins(f, t), Joins(g, u), NEW n \in Nat,
         \A i \in 1 .. n : t[i].emitted = u[i].emitted
  PROVE  f[n] = g[n]
<1> DEFINE T == {i \in Nat : i <= n => f[i] = g[i]}
<1>1. 0 \in T
  BY JoinsAt
<1>2. ASSUME NEW i \in Nat, i \in T PROVE i + 1 \in T
  <2> SUFFICES ASSUME i + 1 <= n PROVE f[i + 1] = g[i + 1]
    OBVIOUS
  <2>1. /\ f[i] = g[i] /\ i + 1 \in 1 .. n /\ (i + 1) - 1 = i
        /\ i + 1 \in Nat /\ i + 1 # 0
    BY <1>2
  <2>2. f[i + 1] = f[(i + 1) - 1] \o t[i + 1].emitted
    BY <2>1, JoinsAt, Zenon
  <2>3. g[i + 1] = g[(i + 1) - 1] \o u[i + 1].emitted
    BY <2>1, JoinsAt, Zenon
  <2> QED BY <2>1, <2>2, <2>3
<1> HIDE DEF T
<1>3. \A i \in Nat : i \in T
  BY <1>1, <1>2, Induction
<1> QED BY <1>3 DEF T

LEMMA JoinsType ==
  ASSUME NEW t, NEW f, Joins(f, t), NEW S, NEW n \in Nat,
         \A i \in 1 .. n : t[i].emitted \in Seq(S)
  PROVE  \A i \in 0 .. n : f[i] \in Seq(S)
<1> DEFINE T == {i \in Nat : i <= n => f[i] \in Seq(S)}
<1>1. 0 \in T
  <2>1. f[0] = <<>>
    BY JoinsAt
  <2>2. <<>> \in Seq(S)
    OBVIOUS
  <2>3. f[0] \in Seq(S)
    BY <2>1, <2>2, Zenon
  <2> QED BY <2>3
<1>2. ASSUME NEW i \in Nat, i \in T PROVE i + 1 \in T
  <2> SUFFICES ASSUME i + 1 <= n PROVE f[i + 1] \in Seq(S)
    OBVIOUS
  <2>1. /\ f[i] \in Seq(S) /\ i + 1 \in 1 .. n /\ (i + 1) - 1 = i
        /\ i + 1 \in Nat /\ i + 1 # 0
    BY <1>2
  <2>2. f[i + 1] = f[(i + 1) - 1] \o t[i + 1].emitted
    BY <2>1, JoinsAt, Zenon
  <2>3. t[i + 1].emitted \in Seq(S)
    BY <2>1
  <2>4. \A x, y \in Seq(S) : x \o y \in Seq(S)
    OBVIOUS
  <2>5. f[i] \o t[i + 1].emitted \in Seq(S)
    BY <2>1, <2>3, <2>4, Zenon
  <2> QED BY <2>1, <2>2, <2>5
<1> HIDE DEF T
<1>3. \A i \in Nat : i \in T
  BY <1>1, <1>2, Induction
<1> QED BY <1>3 DEF T

-----------------------------------------------------------------------------
(* The names of the events.                                                *)

Names(es) == [k \in DOMAIN es |-> es[k].source]

Extends(es, fs) ==
  \E M : /\ es \in Seq(M) /\ fs \in Seq(M)
         /\ Len(es) <= Len(fs)
         /\ \A k \in 1 .. Len(es) : fs[k] = es[k]

LEMMA ExtendedBy ==
  ASSUME NEW M, NEW es \in Seq(M), NEW A \in Seq(M), NEW B \in Seq(M),
         NEW C \in Seq(M)
  PROVE  Extends(es, es) /\ Extends(es, es \o A) /\ Extends(es, es \o A \o B)
         /\ Extends(es, es \o A \o B \o C)
<1>0. \A s, u \in Seq(M) : s \o u \in Seq(M)
  OBVIOUS
<1>1. PICK x \in Seq(M) : x = es \o A
  BY <1>0, Zenon
<1>2. Len(es) <= Len(x) /\ \A k \in 1 .. Len(es) : x[k] = es[k]
  BY <1>1
<1>3. PICK y \in Seq(M) : y = x \o B
  BY <1>0, Zenon
<1>4. Len(x) <= Len(y) /\ \A k \in 1 .. Len(x) : y[k] = x[k]
  BY <1>3
<1>5. PICK z \in Seq(M) : z = y \o C
  BY <1>0, Zenon
<1>6. Len(y) <= Len(z) /\ \A k \in 1 .. Len(y) : z[k] = y[k]
  BY <1>5
<1>7. Len(es) \in Nat /\ Len(x) \in Nat /\ Len(y) \in Nat /\ Len(z) \in Nat
  OBVIOUS
<1>8. Extends(es, es) /\ Extends(es, x)
  BY <1>2, <1>7 DEF Extends
<1>9. Extends(es, y)
  <2>1. Len(es) <= Len(y) /\ \A k \in 1 .. Len(es) : y[k] = es[k]
    BY <1>2, <1>4, <1>7
  <2> QED BY <2>1, Zenon DEF Extends
<1>10. Extends(es, z)
  <2>1. Len(es) <= Len(z) /\ \A k \in 1 .. Len(es) : z[k] = es[k]
    BY <1>2, <1>4, <1>6, <1>7
  <2> QED BY <2>1, Zenon DEF Extends
<1> QED BY <1>1, <1>3, <1>5, <1>8, <1>9, <1>10

\* A step keeps the events it found, in their places.
LEMMA EventsGrow ==
  ASSUME TypeOK, Next
  PROVE  Extends(events, events')
<1> DEFINE R == EventRecord
<1>0. events \in Seq(R)
  BY DEF TypeOK
<1> HIDE DEF R
<1>1. ASSUME NEW o \in Incoming, ContinuityBreak(o)
      PROVE  Extends(events, events')
  <2> DEFINE a == IntervalEvent(ClosedPresence(IF o.disc THEN "discontinuity" ELSE "gap"))
             b == Event("GAP", Now, 0)
             c == Event("DISCONTINUITY", Now, 0)
             A == IF Closable THEN <<a>> ELSE <<>>
             B == IF o.gap THEN <<b>> ELSE <<>>
             C == IF o.disc THEN <<c>> ELSE <<>>
             M == R \cup {a, b, c}
  <2>1. events' = events \o A \o B \o C
    BY <1>1, Zenon DEF ContinuityBreak
  <2> HIDE DEF a, b, c
  <2>2. /\ events \in Seq(M)
        /\ <<>> \in Seq(M) /\ <<a>> \in Seq(M) /\ <<b>> \in Seq(M) /\ <<c>> \in Seq(M)
    BY <1>0
  <2> HIDE DEF M
  <2>3. A \in Seq(M) /\ B \in Seq(M) /\ C \in Seq(M)
    BY <2>2, Zenon
  <2> HIDE DEF A, B, C
  <2> QED BY <2>1, <2>2, <2>3, ExtendedBy
<1>2. ASSUME NEW o \in Incoming, ConfirmArrival(o)
      PROVE  Extends(events, events')
  <2>1. PICK e : events' = Append(events, e)
    BY <1>2 DEF ConfirmArrival
  <2> DEFINE M == R \cup {e}
  <2>2. events \in Seq(M) /\ events' \in Seq(M) /\ Len(events) <= Len(events')
        /\ \A k \in 1 .. Len(events) : events'[k] = events[k]
    BY <1>0, <2>1
  <2> HIDE DEF M
  <2> QED BY <2>2 DEF Extends
<1>3. ASSUME events' = events
      PROVE  Extends(events, events')
  BY <1>0, <1>3 DEF Extends
<1>4. ASSUME NEW S, Depart(S)
      PROVE  Extends(events, events')
  <2>1. PICK a, b : events' = events \o <<a, b>>
    BY <1>4 DEF Depart
  <2> DEFINE M == R \cup {a, b}
  <2>2. events \in Seq(M) /\ <<a, b>> \in Seq(M)
    BY <1>0
  <2> HIDE DEF M
  <2> QED BY <2>1, <2>2, ExtendedBy
<1>5. ASSUME Finish
      PROVE  Extends(events, events')
  <2> DEFINE a == IntervalEvent(ClosedPresence("dataset_end"))
             b == Event("END", Len(obs), 0)
             A == IF Closable THEN <<a>> ELSE <<>>
             M == R \cup {a, b}
  <2>1. events' = events \o A \o <<b>>
    BY <1>5, Zenon DEF Finish
  <2> HIDE DEF a, b
  <2>2. events \in Seq(M) /\ <<>> \in Seq(M) /\ <<a>> \in Seq(M) /\ <<b>> \in Seq(M)
    BY <1>0
  <2> HIDE DEF M
  <2>3. A \in Seq(M)
    BY <2>2, Zenon
  <2> HIDE DEF A
  <2> QED BY <2>1, <2>2, <2>3, ExtendedBy
<1> QED BY <1>1, <1>2, <1>3, <1>4, <1>5 DEF Next, ConfirmPresence, Reanchor,
     RemainInside, DepartUnconfirmed, StartCandidate, RestartCandidate,
     ConfirmDeparture

LEMMA NamesGrow ==
  ASSUME NEW es, NEW fs, Extends(es, fs), NEW R, fs \in Seq(R),
         \A r \in R : r.source \in Source
  PROVE  /\ Names(es) \in Seq(Source) /\ EmittedNames(fs, Len(es)) \in Seq(Source)
         /\ Names(fs) = Names(es) \o EmittedNames(fs, Len(es))
<1>1. PICK M : /\ es \in Seq(M) /\ fs \in Seq(M)
               /\ Len(es) <= Len(fs)
               /\ \A k \in 1 .. Len(es) : fs[k] = es[k]
  BY DEF Extends
<1> DEFINE m == Len(es)
           n == Len(fs)
           E == EmittedNames(fs, m)
           N == Names(es)
           P == Names(fs)
<1>2. m \in Nat /\ n \in Nat /\ n - m \in Nat /\ DOMAIN es = 1 .. m /\ DOMAIN fs = 1 .. n
      /\ m <= n
  BY <1>1
<1>3. \A k \in 1 .. n : fs[k].source \in Source
  BY <1>2
<1>4. N = [k \in 1 .. m |-> es[k].source] /\ \A k \in 1 .. m : es[k].source \in Source
  BY <1>1, <1>2, <1>3 DEF Names
<1>5. P = [k \in 1 .. n |-> fs[k].source]
  BY <1>2 DEF Names
<1>6. E = [j \in 1 .. n - m |-> fs[m + j].source]
      /\ \A j \in 1 .. n - m : fs[m + j].source \in Source
  BY <1>2, <1>3 DEF EmittedNames
<1>7. N \in Seq(Source) /\ Len(N) = m
  BY <1>2, <1>4
<1>8. P \in Seq(Source) /\ Len(P) = n
  BY <1>2, <1>3, <1>5
<1>9. E \in Seq(Source) /\ Len(E) = n - m
  BY <1>2, <1>6
<1>10. ASSUME NEW k \in 1 .. n
       PROVE  P[k] = IF k <= m THEN N[k] ELSE E[k - m]
  <2>1. CASE k <= m
    BY <1>1, <1>2, <1>4, <1>5, <2>1
  <2>2. CASE ~(k <= m)
    <3>1. k - m \in 1 .. n - m /\ m + (k - m) = k
      BY <1>2, <2>2
    <3>2. P[k] = fs[k].source /\ E[k - m] = fs[m + (k - m)].source
      BY <1>5, <1>6, <3>1
    <3> HIDE DEF P, E, N
    <3> QED BY <2>2, <3>1, <3>2
  <2> QED BY <2>1, <2>2
<1> HIDE DEF N, P, E, m, n
<1>11. PICK Q \in Seq(Source) : Q = N \o E
  <2>1. N \o E \in Seq(Source)
    BY <1>7, <1>9
  <2> QED BY <2>1
<1>12. Len(Q) = n /\ \A k \in 1 .. n : Q[k] = IF k <= m THEN N[k] ELSE E[k - m]
  BY <1>2, <1>7, <1>9, <1>11
<1>13. P = Q
  BY <1>2, <1>8, <1>10, <1>12
<1> QED BY <1>7, <1>9, <1>11, <1>13 DEF N, P, E, m

-----------------------------------------------------------------------------
(* The rows name the events.                                               *)

Regrouping(S) == \A s, t, u \in Seq(S) : (s \o t) \o u = s \o (t \o u)

LEMMA RegroupBags == ASSUME NEW S PROVE Regrouping(S)
BY ConcatAssociative DEF Regrouping

\* The rows are typed, there is one for each observation, and what they name
\* is what was emitted.
NamesKept ==
  /\ IsRows(trace)
  /\ Len(trace) = Len(obs)
  /\ \A i \in 1 .. Len(trace) : trace[i].emitted \in Seq(Source)
  /\ NamesUpTo[Len(trace)] = Names(events)

LEMMA EmittedBy ==
  ASSUME Inductive, Inductive', Next
  PROVE  /\ Names(events) \in Seq(Source)
         /\ EmittedNames(events', Len(events)) \in Seq(Source)
         /\ Names(events') = Names(events) \o EmittedNames(events', Len(events))
<1>1. Extends(events, events')
  BY EventsGrow DEF Inductive
<1>2. PICK R : events' \in Seq(R) /\ \A r \in R : r.source \in Source
  <2>1. events' \in Seq(EventRecord')
    BY DEF Inductive, TypeOK
  <2>2. \A r \in EventRecord' : r.source \in Source
    BY DEF EventRecord, Source
  <2> QED BY <2>1, <2>2
<1>3. PICK es : es = events
  OBVIOUS
<1>4. PICK fs : fs = events'
  OBVIOUS
<1>5. /\ Names(es) \in Seq(Source) /\ EmittedNames(fs, Len(es)) \in Seq(Source)
      /\ Names(fs) = Names(es) \o EmittedNames(fs, Len(es))
  BY <1>1, <1>2, <1>3, <1>4, NamesGrow
<1> QED BY <1>3, <1>4, <1>5

LEMMA NamesTraced ==
  ASSUME Inductive, Inductive', NamesKept, NEW o, Consume(o), Next, NEW d, Traced(d)
  PROVE  NamesKept'
<1> DEFINE n == Len(trace)
           E == EmittedNames(events', Len(events))
<1>1. PICK r : trace' = Append(trace, r) /\ r.emitted = E
  BY DEF Traced, Row
<1> HIDE DEF E
<1>2. IsRows(trace) /\ n \in Nat
  BY DEF NamesKept, IsRows
<1>3. IsRows(trace')
  BY <1>1, <1>2, AppendedRow
<1>4. /\ Len(trace') = n + 1 /\ trace'[n + 1] = r
      /\ \A i \in 1 .. n : trace'[i] = trace[i]
  BY <1>1, <1>2 DEF IsRows
<1>5. Len(trace') = Len(obs')
  BY <1>2, <1>4 DEF NamesKept, Consume, Inductive, TypeOK
<1>6. \A i \in 1 .. n + 1 : trace'[i].emitted \in Seq(Source)
  <2>1. E \in Seq(Source)
    BY EmittedBy DEF E
  <2>2. \A i \in 1 .. n : trace'[i].emitted \in Seq(Source)
    BY <1>4 DEF NamesKept
  <2>3. trace'[n + 1].emitted \in Seq(Source)
    BY <1>1, <1>4, <2>1
  <2>4. \A i \in 1 .. n + 1 : i \in 1 .. n \/ i = n + 1
    BY <1>2
  <2> QED BY <2>2, <2>3, <2>4, Zenon
<1>7. NamesUpTo'[n + 1] = Names(events')
  <2>1. PICK f : f = NamesUpTo /\ Joins(f, trace)
    BY NamesJoin
  <2>2. PICK g : g = NamesUpTo' /\ Joins(g, trace')
    BY NamesJoin
  <2>3. f[n] = g[n]
    BY <1>2, <1>4, <2>1, <2>2, JoinsOfEqualRows
  <2>4. n + 1 \in Nat /\ n + 1 # 0 /\ (n + 1) - 1 = n
    BY <1>2
  <2>5. g[n + 1] = g[(n + 1) - 1] \o trace'[n + 1].emitted
    BY <2>2, <2>4, JoinsAt, Zenon
  <2>6. f[n] = Names(events)
    BY <2>1 DEF NamesKept
  <2>7. Names(events') = Names(events) \o E
    BY EmittedBy DEF E
  <2>8. g[n + 1] = Names(events) \o E
    BY <1>1, <1>4, <2>3, <2>4, <2>5, <2>6, Zenon
  <2> QED BY <2>2, <2>7, <2>8, Zenon
<1> QED BY <1>3, <1>4, <1>5, <1>6, <1>7 DEF NamesKept

LEMMA NamesFinished ==
  ASSUME Inductive, Inductive', NamesKept, Finish, TraceEnd
  PROVE  NamesKept'
<1> DEFINE n == Len(trace)
           E == EmittedNames(events', Len(events))
<1>0. n \in Nat /\ n # 0 /\ DOMAIN trace = 1 .. n /\ n = Len(obs)
  BY DEF NamesKept, IsRows, Inductive, TypeOK
<1>1. PICK u : /\ trace' = [i \in 1 .. n |-> u[i]]
               /\ \A i \in 1 .. n : u[i].emitted = IF i < n THEN trace[i].emitted
                                                  ELSE trace[i].emitted \o E
  <2> DEFINE w == [i \in 1 .. n |->
               IF i < n
                 THEN Row(trace[i].before, trace[i].after, trace[i].decision,
                          FALSE, trace[i].emitted, result'.label[i])
                 ELSE Row(trace[i].before, AfterEnd(trace[i]),
                          trace[i].decision, TRUE, FinalNames(trace[i]),
                          result'.label[i])]
  <2>1. trace' = w
    BY <1>0 DEF TraceEnd
  <2>2. \A i \in 1 .. n : w[i].emitted = IF i < n THEN trace[i].emitted
                                         ELSE trace[i].emitted \o E
    BY DEF Row, FinalNames
  <2>3. w = [i \in 1 .. n |-> w[i]]
    OBVIOUS
  <2> HIDE DEF w
  <2> QED BY <2>1, <2>2, <2>3
<1> HIDE DEF E, n
<1>2. trace' \in Seq({u[i] : i \in 1 .. n}) /\ Len(trace') = n
  BY <1>0, <1>1
<1>3. /\ \A i \in 1 .. n - 1 : trace'[i].emitted = trace[i].emitted
      /\ trace'[n].emitted = trace[n].emitted \o E
  <2>1. \A i \in 1 .. n - 1 : i \in 1 .. n /\ i < n
    BY <1>0
  <2>2. n \in 1 .. n /\ ~(n < n)
    BY <1>0
  <2>3. \A i \in 1 .. n : trace'[i] = u[i]
    BY <1>1, Zenon
  <2> QED BY <1>1, <2>1, <2>2, <2>3, Zenon
<1>4. IsRows(trace')
  BY <1>0, <1>1, <1>2 DEF IsRows
<1>5. /\ Names(events) \in Seq(Source) /\ E \in Seq(Source)
      /\ Names(events') = Names(events) \o E
  BY EmittedBy DEF Next, E
<1>6. \A i \in 1 .. n : trace[i].emitted \in Seq(Source)
  BY DEF NamesKept, n
<1>7. \A i \in 1 .. n : trace'[i].emitted \in Seq(Source)
  <2>1. \A i \in 1 .. n : i \in 1 .. n - 1 \/ i = n
    BY <1>0
  <2>2. \A x, y \in Seq(Source) : x \o y \in Seq(Source)
    OBVIOUS
  <2>3. n \in 1 .. n
    BY <1>0
  <2>4. trace'[n].emitted \in Seq(Source)
    BY <1>3, <1>5, <1>6, <2>2, <2>3, Zenon
  <2> QED BY <1>3, <1>6, <2>1, <2>4, Zenon
<1>8. NamesUpTo'[n] = Names(events')
  <2>1. PICK f : f = NamesUpTo /\ Joins(f, trace)
    BY NamesJoin
  <2>2. PICK g : g = NamesUpTo' /\ Joins(g, trace')
    BY NamesJoin
  <2>3. n - 1 \in Nat /\ n - 1 \in 0 .. n /\ n \in 1 .. n
    BY <1>0
  <2>4. f[n - 1] = g[n - 1]
    BY <1>3, <2>1, <2>2, <2>3, JoinsOfEqualRows
  <2>5. f[n - 1] \in Seq(Source)
    BY <1>0, <1>6, <2>1, <2>3, JoinsType
  <2>6. f[n] = f[n - 1] \o trace[n].emitted
    BY <1>0, <2>1, JoinsAt, Zenon
  <2>7. g[n] = g[n - 1] \o trace'[n].emitted
    BY <1>0, <2>2, JoinsAt, Zenon
  <2>8. PICK x, y \in Seq(Source) : x = f[n - 1] /\ y = trace[n].emitted
    BY <1>6, <2>3, <2>5, Zenon
  <2>9. (x \o y) \o E = x \o (y \o E)
    <3>1. \A t, v, w \in Seq(Source) : (t \o v) \o w = t \o (v \o w)
      BY RegroupBags DEF Regrouping
    <3>2. \A v, w \in Seq(Source) : (x \o v) \o w = x \o (v \o w)
      BY <3>1, Zenon
    <3> QED BY <1>5, <3>2, Zenon
  <2>10. g[n] = f[n] \o E
    BY <1>3, <2>4, <2>6, <2>7, <2>8, <2>9, Zenon
  <2>11. f[n] = Names(events)
    BY <2>1 DEF NamesKept, n
  <2> QED BY <1>5, <2>2, <2>10, <2>11, Zenon
<1>9. Len(obs') = n
  BY <1>0 DEF Finish, n
<1> QED BY <1>2, <1>4, <1>7, <1>8, <1>9 DEF NamesKept

LEMMA InitNames == TraceInit => NamesKept
<1> SUFFICES ASSUME TraceInit PROVE NamesKept
  OBVIOUS
<1>1. PICK r : trace = <<r>> /\ r.emitted = <<"START">>
  BY DEF TraceInit, Row
<1>2. IsRows(trace) /\ Len(trace) = 1 /\ trace[1] = r
  BY <1>1 DEF IsRows
<1>3. Len(obs) = 1
  BY DEF TraceInit, Init
<1>4. <<"START">> \in Seq(Source)
  BY DEF Source
<1>5. \A i \in 1 .. 1 : trace[i].emitted \in Seq(Source)
  BY <1>1, <1>2, <1>4
<1>6. NamesUpTo[1] = Names(events)
  <2>1. PICK f : f = NamesUpTo /\ Joins(f, trace)
    BY NamesJoin
  <2>2. 1 \in Nat /\ 1 # 0 /\ 1 - 1 = 0 /\ 0 \in Nat
    OBVIOUS
  <2>3. f[1] = f[1 - 1] \o trace[1].emitted /\ f[0] = <<>>
    BY <2>1, <2>2, JoinsAt, Zenon
  <2>4. f[1] = <<>> \o <<"START">>
    BY <1>1, <1>2, <2>2, <2>3, Zenon
  <2>5. <<>> \o <<"START">> = <<"START">>
    OBVIOUS
  <2>6. Names(events) = <<"START">>
    BY DEF TraceInit, Init, Names, Event
  <2> QED BY <2>1, <2>4, <2>5, <2>6, Zenon
<1> QED BY <1>2, <1>3, <1>5, <1>6 DEF NamesKept

LEMMA TraceNamesKept == TraceSpec => []NamesKept
<1>1. Inductive /\ Inductive' /\ NamesKept /\ [TraceNext]_traceVars => NamesKept'
  <2> SUFFICES ASSUME Inductive, Inductive', NamesKept, [TraceNext]_traceVars
               PROVE  NamesKept'
    OBVIOUS
  <2>1. CASE UNCHANGED traceVars
    BY <2>1 DEF traceVars, NamesKept, NamesUpTo
  <2>2. CASE Finish /\ TraceEnd
    BY <2>2, NamesFinished
  <2>3. CASE TraceNext /\ ~(Finish /\ TraceEnd)
    <3>1. \E o, d : Consume(o) /\ Traced(d)
      BY <2>3 DEF TraceNext, ContinuityBreak, ConfirmArrival, ConfirmPresence,
         Reanchor, RemainInside, DepartUnconfirmed, StartCandidate,
         RestartCandidate, ConfirmDeparture
    <3>2. Next
      BY <2>3 DEF TraceNext, Next
    <3> QED BY <3>1, <3>2, NamesTraced
  <2> QED BY <2>1, <2>2, <2>3
<1> QED BY <1>1, InitNames, TraceInductive, PTL DEF TraceSpec

\* The end of the input is marked in the last row once the call has returned.
EndMarked ==
  \A i \in 1 .. Len(trace) : trace[i].ended <=> Finished /\ i = Len(trace)

LEMMA TraceEndMarked == TraceSpec => []EndMarked
<1>1. ASSUME TraceInit PROVE EndMarked
  <2>1. PICK x : trace = <<x>> /\ x.ended = FALSE
    BY <1>1 DEF TraceInit, Row
  <2>2. Len(trace) = 1 /\ trace[1].ended = FALSE
    BY <2>1
  <2>3. ~Finished
    BY <1>1 DEF TraceInit, Init, Finished
  <2> QED BY <2>2, <2>3 DEF EndMarked
<1>2. Inductive /\ NamesKept /\ EndMarked /\ [TraceNext]_traceVars => EndMarked'
  <2> SUFFICES ASSUME Inductive, NamesKept, EndMarked, [TraceNext]_traceVars
               PROVE  EndMarked'
    OBVIOUS
  <2>1. CASE UNCHANGED traceVars
    BY <2>1 DEF traceVars, EndMarked, Finished
  <2>2. IsRows(trace) /\ Len(trace) \in Nat /\ DOMAIN trace = 1 .. Len(trace)
    BY DEF NamesKept, IsRows
  <2>3. CASE Finish /\ TraceEnd
    <3>1. Finished'
      BY <2>3, FinishFinishes DEF Inductive
    <3>2. /\ DOMAIN trace' = 1 .. Len(trace) /\ Len(trace') = Len(trace)
          /\ \A i \in 1 .. Len(trace) :
               trace'[i].ended = IF i < Len(trace) THEN FALSE ELSE TRUE
      <4> DEFINE n == Len(trace)
                 w == [i \in 1 .. n |->
                   IF i < n
                     THEN Row(trace[i].before, trace[i].after, trace[i].decision,
                              FALSE, trace[i].emitted, result'.label[i])
                     ELSE Row(trace[i].before, AfterEnd(trace[i]),
                              trace[i].decision, TRUE, FinalNames(trace[i]),
                              result'.label[i])]
      <4>1. trace' = w
        BY <2>2, <2>3 DEF TraceEnd
      <4>2. \A i \in 1 .. n : w[i].ended = IF i < n THEN FALSE ELSE TRUE
        BY DEF Row
      <4>3. DOMAIN w = 1 .. n
        OBVIOUS
      <4> HIDE DEF w
      <4>4. DOMAIN trace' = 1 .. n
        BY <4>1, <4>3
      <4>5. Len(trace') = n
        BY <4>1, <2>2 DEF w
      <4> QED BY <4>1, <4>2, <4>4, <4>5
    <3>3. PICK n \in Nat : n = Len(trace)
      BY <2>2
    <3>4. \A i \in 1 .. n : ~(i < n) <=> i = n
      OBVIOUS
    <3> QED BY <3>1, <3>2, <3>3, <3>4 DEF EndMarked
  <2>4. CASE TraceNext /\ ~(Finish /\ TraceEnd)
    <3>1. \E o \in Incoming : Consume(o) /\ \E d : Traced(d)
      BY <2>4 DEF TraceNext, ContinuityBreak, ConfirmArrival, ConfirmPresence,
         Reanchor, RemainInside, DepartUnconfirmed, StartCandidate,
         RestartCandidate, ConfirmDeparture
    <3>2. ~Finished /\ ~Finished'
      BY <3>1 DEF Incoming, Consume, Finished
    <3>3. PICK x : trace' = Append(trace, x) /\ x.ended = FALSE
      BY <3>1 DEF Traced, Row
    <3>4. /\ Len(trace') = Len(trace) + 1 /\ trace'[Len(trace) + 1] = x
          /\ \A i \in 1 .. Len(trace) : trace'[i] = trace[i]
      BY <2>2, <3>3 DEF IsRows
    <3>5. \A i \in 1 .. Len(trace') : i \in 1 .. Len(trace) \/ i = Len(trace) + 1
      BY <2>2, <3>4
    <3>6. \A i \in 1 .. Len(trace') : trace'[i].ended = FALSE
      BY <3>2, <3>3, <3>4, <3>5 DEF EndMarked
    <3> QED BY <3>2, <3>6 DEF EndMarked
  <2> QED BY <2>1, <2>3, <2>4
<1> QED BY <1>1, <1>2, TraceInductive, TraceNamesKept, PTL DEF TraceSpec

\* For every geometry, threshold, mode and input, the trace of an entity has a
\* row for each observation, and its rows name every event of the entity once,
\* in the order it was emitted, and its last row alone says that the input
\* ended (appendTrace, and what the end adds to the last row).
THEOREM TraceAlwaysNamesEvents == TraceSpec => []TraceNamesEveryEvent
<1>1. NamesKept /\ EndMarked => TraceNamesEveryEvent
  BY DEF NamesKept, EndMarked, TraceNamesEveryEvent, Names
<1> QED BY <1>1, TraceNamesKept, TraceEndMarked, PTL

-----------------------------------------------------------------------------
(* Reading the presence intervals off the rows.                            *)

Ends == Breaks \cup Departures
DecidedIn(t, decisions) == {i \in DOMAIN t : t[i].decision \in decisions}
EndsAfter(t, a) == {i \in DecidedIn(t, Ends) : i > a}
ClosingIn(t, a) ==
  IF EndsAfter(t, a) = {} THEN Len(t) + 1
  ELSE CHOOSE i \in EndsAfter(t, a) : \A j \in EndsAfter(t, a) : i <= j
MembersIn(t, a) ==
  {a, a + 1} \cup {i \in DecidedIn(t, Insides) : a < i /\ i < ClosingIn(t, a)}

Reads(t, p) ==
  /\ t[p.start + 1].decision \in Confirmations
  /\ p.count = Cardinality(MembersIn(t, p.start))
  /\ p.end \in MembersIn(t, p.start) /\ \A i \in MembersIn(t, p.start) : i <= p.end
  /\ p.endReason = "confirmed_movement"
       <=> ClosingIn(t, p.start) \in DecidedIn(t, Departures)

LEMMA ReadingTheTrace ==
  /\ \A X : Decided(X) = DecidedIn(trace, X)
  /\ \A a : ClosingRow(a) = ClosingIn(trace, a)
BY DEF Decided, DecidedIn, ClosingRow, ClosingIn, EndsAfter, Ends

LEMMA ClosingIs ==
  ASSUME NEW t, NEW n \in Nat, Len(t) = n, DOMAIN t = 1 .. n, NEW a \in Nat
  PROVE  /\ EndsAfter(t, a) = {} => ClosingIn(t, a) = n + 1
         /\ EndsAfter(t, a) # {} =>
              /\ ClosingIn(t, a) \in EndsAfter(t, a)
              /\ \A j \in EndsAfter(t, a) : ClosingIn(t, a) <= j
         /\ \A c \in EndsAfter(t, a) :
              (\A j \in EndsAfter(t, a) : c <= j) => ClosingIn(t, a) = c
<1>1. EndsAfter(t, a) \subseteq Nat
  BY DEF EndsAfter, DecidedIn
<1> DEFINE E == EndsAfter(t, a)
<1> HIDE DEF E
<1>2. ClosingIn(t, a) = IF E = {} THEN n + 1
                        ELSE CHOOSE i \in E : \A j \in E : i <= j
  BY DEF ClosingIn, E
<1>3. E \subseteq Nat
  BY <1>1 DEF E
<1>4. E # {} => \E i \in E : \A j \in E : i <= j
  BY <1>3, LeastNatural
<1>5. E # {} => ClosingIn(t, a) \in E /\ \A j \in E : ClosingIn(t, a) <= j
  BY <1>2, <1>4
<1>6. ASSUME NEW c \in E, \A j \in E : c <= j PROVE ClosingIn(t, a) = c
  <2>1. ClosingIn(t, a) \in E /\ ClosingIn(t, a) <= c
    BY <1>5
  <2>2. c <= ClosingIn(t, a) /\ c \in Nat /\ ClosingIn(t, a) \in Nat
    BY <1>3, <1>6, <2>1
  <2> QED BY <2>1, <2>2
<1> QED BY <1>2, <1>5, <1>6 DEF E

\* u continues t: as many rows or more, with the same decisions.
Continued(t, u) ==
  /\ Len(t) \in Nat /\ DOMAIN t = 1 .. Len(t)
  /\ Len(u) \in Nat /\ DOMAIN u = 1 .. Len(u)
  /\ Len(t) <= Len(u)
  /\ \A i \in 1 .. Len(t) : u[i].decision = t[i].decision

\* What is read of an interval that a row has closed stays.
LEMMA ReadsKept ==
  ASSUME NEW t, NEW u, Continued(t, u), NEW p, p.start \in Nat, Reads(t, p),
         ClosingIn(t, p.start) <= Len(t)
  PROVE  Reads(u, p) /\ ClosingIn(u, p.start) <= Len(u)
<1> DEFINE a == p.start
           n == Len(t)
           c == ClosingIn(t, a)
<1>1. n \in Nat /\ DOMAIN t = 1 .. n /\ Len(u) \in Nat /\ DOMAIN u = 1 .. Len(u)
      /\ n <= Len(u) /\ \A i \in 1 .. n : u[i].decision = t[i].decision
  BY DEF Continued
<1>0. EndsAfter(t, a) = {} => c = n + 1
  BY Zenon DEF ClosingIn
<1>2. EndsAfter(t, a) # {}
  <2> HIDE DEF c, a
  <2>1. c <= n
    BY DEF c, a
  <2> QED BY <1>0, <1>1, <2>1
<1>3. c \in EndsAfter(t, a) /\ \A j \in EndsAfter(t, a) : c <= j
  BY <1>1, <1>2, ClosingIs
<1>4. c \in 1 .. n /\ c > a /\ t[c].decision \in Ends
  BY <1>1, <1>3 DEF EndsAfter, DecidedIn
<1>5. c \in EndsAfter(u, a)
  BY <1>1, <1>4 DEF EndsAfter, DecidedIn
<1>6. \A j \in EndsAfter(u, a) : c <= j
  <2> SUFFICES ASSUME NEW j \in EndsAfter(u, a), ~(c <= j) PROVE FALSE
    OBVIOUS
  <2>1. j \in 1 .. n
    BY <1>1, <1>4 DEF EndsAfter, DecidedIn
  <2>2. j \in EndsAfter(t, a)
    BY <1>1, <2>1 DEF EndsAfter, DecidedIn
  <2> QED BY <1>3, <2>2
<1>7. ClosingIn(u, a) = c
  BY <1>1, <1>5, <1>6, ClosingIs
<1>8. MembersIn(u, a) = MembersIn(t, a)
  BY <1>1, <1>4, <1>7 DEF MembersIn, DecidedIn
<1>9. a + 1 \in 1 .. n
  BY <1>4
<1>10. u[a + 1].decision = t[a + 1].decision
  BY <1>1, <1>9
<1>11. c \in DecidedIn(u, Departures) <=> c \in DecidedIn(t, Departures)
  BY <1>1, <1>4 DEF DecidedIn
<1> QED BY <1>1, <1>4, <1>7, <1>8, <1>10, <1>11 DEF Reads

-----------------------------------------------------------------------------
(* The presence that is open.                                              *)

InsidesAfter(t, a) == {i \in DecidedIn(t, Insides) : a < i}

\* Its anchor was confirmed by the next row, no row has ended it, and its
\* members are what the rows show.
OpenReads(t, s) ==
  LET a == s.anchorIdx
      shown == {a, a + 1} \cup InsidesAfter(t, a)
      last == s.members[Len(s.members)]
  IN  /\ a + 1 \in 1 .. Len(t)
      /\ t[a + 1].decision \in Confirmations
      /\ EndsAfter(t, a) = {}
      /\ Len(s.members) = Cardinality(shown)
      /\ last \in shown /\ \A i \in shown : i <= last

Open == ~Finished /\ Present

\* The rows tell of every closed presence, of the open one, and of no other.
Told ==
  /\ Open => OpenReads(trace, state)
  /\ \A k \in DOMAIN presence :
       /\ Reads(trace, presence[k])
       /\ ~Finished => ClosingIn(trace, presence[k].start) <= Len(trace)
  /\ \A i \in DecidedIn(trace, Confirmations) :
       \/ \E k \in DOMAIN presence : presence[k].start = i - 1
       \/ Open /\ state.anchorIdx = i - 1

LEMMA ToldExplains ==
  ASSUME Inductive, NamesKept, EndMarked, Told PROVE TraceExplainsPresence
<1>0. Ended <=> Finished
  BY DEF NamesKept, Inductive, TypeOK, EndMarked, Ended, Finished
<1>1. ASSUME NEW k \in DOMAIN presence
      PROVE  LET p == presence[k]
                 inside == {i \in Decided(Insides) : p.start < i /\ i < ClosingRow(p.start)}
                 members == {p.start, p.start + 1} \cup inside
             IN  /\ trace[p.start + 1].decision \in Confirmations
                 /\ p.count = Cardinality(members)
                 /\ p.end \in members /\ \A i \in members : i <= p.end
                 /\ p.endReason = "confirmed_movement"
                      <=> ClosingRow(p.start) \in Decided(Departures)
  <2> DEFINE p == presence[k]
  <2>1. Reads(trace, p)
    BY DEF Told
  <2> HIDE DEF p
  <2> QED BY <2>1, ReadingTheTrace DEF Reads, MembersIn, p
<1>2. ASSUME NEW i \in Decided(Confirmations),
             Finished \/ ClosingRow(i - 1) <= Len(trace)
      PROVE  \E k \in DOMAIN presence : presence[k].start = i - 1
  <2> DEFINE n == Len(trace)
  <2>1. n \in Nat /\ DOMAIN trace = 1 .. n
    BY DEF NamesKept, IsRows
  <2>2. i \in DecidedIn(trace, Confirmations) /\ i - 1 \in Nat
    BY <2>1, ReadingTheTrace DEF DecidedIn
  <2>3. ASSUME Open, state.anchorIdx = i - 1 PROVE FALSE
    <3>1. EndsAfter(trace, i - 1) = {}
      BY <2>3 DEF Told, OpenReads
    <3>2. ClosingIn(trace, i - 1) = n + 1
      BY <2>1, <2>2, <3>1, ClosingIs
    <3> QED BY <1>2, <2>1, <2>3, <3>2, ReadingTheTrace DEF Open
  <2> QED BY <2>2, <2>3 DEF Told
<1> QED BY <1>0, <1>1, <1>2 DEF TraceExplainsPresence

-----------------------------------------------------------------------------
(* The steps.                                                              *)

LEMMA RowAdded ==
  ASSUME NamesKept, NEW d, Traced(d)
  PROVE  LET n == Len(trace)
         IN  /\ n \in Nat /\ DOMAIN trace = 1 .. n /\ n = Len(obs)
             /\ Len(trace') = n + 1 /\ DOMAIN trace' = 1 .. n + 1
             /\ trace'[n + 1].decision = d
             /\ \A i \in 1 .. n : trace'[i].decision = trace[i].decision
             /\ Continued(trace, trace')
<1> DEFINE n == Len(trace)
<1>1. PICK r : trace' = Append(trace, r) /\ r.decision = d
  BY DEF Traced, Row
<1>2. n \in Nat /\ n = Len(obs) /\ IsRows(trace)
  BY DEF NamesKept, IsRows
<1>3. /\ Len(trace') = n + 1 /\ trace'[n + 1] = r /\ DOMAIN trace' = 1 .. n + 1
      /\ DOMAIN trace = 1 .. n
      /\ \A i \in 1 .. n : trace'[i] = trace[i]
  BY <1>1, <1>2 DEF IsRows
<1> QED BY <1>1, <1>2, <1>3 DEF Continued

\* The closed presences are still told.
LEMMA ClosedKept ==
  ASSUME Inductive, NamesKept, Told, ~Finished, NEW d, Traced(d)
  PROVE  \A k \in DOMAIN presence :
           Reads(trace', presence[k]) /\ ClosingIn(trace', presence[k].start) <= Len(trace')
<1> SUFFICES ASSUME NEW k \in DOMAIN presence
             PROVE  Reads(trace', presence[k])
                    /\ ClosingIn(trace', presence[k].start) <= Len(trace')
  OBVIOUS
<1>1. presence[k].start \in Nat
  <2>1. presence[k] \in PresenceInterval
    BY DEF Inductive, TypeOK
  <2>2. presence[k].start \in Index
    BY <2>1 DEF PresenceInterval
  <2> QED BY <2>2 DEF Index
<1>2. Continued(trace, trace')
  BY RowAdded
<1>3. Reads(trace, presence[k]) /\ ClosingIn(trace, presence[k].start) <= Len(trace)
  BY DEF Told
<1>4. PICK p, u : p = presence[k] /\ u = trace'
  OBVIOUS
<1> QED BY <1>1, <1>2, <1>3, <1>4, ReadsKept

\* A row that ends the open presence closes it.
LEMMA ClosedReads ==
  ASSUME Inductive, NamesKept, Told, Open, NEW d \in Ends, Traced(d), NEW reason,
         NEW p, p = ClosedPresence(reason),
         reason = "confirmed_movement" <=> d \in Departures
  PROVE  /\ p.start = state.anchorIdx
         /\ Reads(trace', p) /\ ClosingIn(trace', p.start) <= Len(trace')
<1> DEFINE n == Len(trace)
           a == state.anchorIdx
           shown == {a, a + 1} \cup InsidesAfter(trace, a)
<1>1. /\ n \in Nat /\ DOMAIN trace = 1 .. n
      /\ Len(trace') = n + 1 /\ DOMAIN trace' = 1 .. n + 1
      /\ trace'[n + 1].decision = d
      /\ \A i \in 1 .. n : trace'[i].decision = trace[i].decision
  BY RowAdded
<1>2. /\ p.start = a /\ p.end = state.members[Len(state.members)]
      /\ p.count = Len(state.members) /\ p.endReason = reason
  BY DEF ClosedPresence, Inductive, StateCoherent
<1>3. /\ a + 1 \in 1 .. n /\ trace[a + 1].decision \in Confirmations
      /\ EndsAfter(trace, a) = {}
      /\ p.count = Cardinality(shown)
      /\ p.end \in shown /\ \A i \in shown : i <= p.end
  BY <1>2 DEF Told, OpenReads
<1>4. a \in Nat
  BY DEF Inductive, TypeOK, PresenceState, Index
<1> HIDE DEF a, n
<1>5. EndsAfter(trace', a) = {n + 1}
  BY <1>1, <1>3, <1>4 DEF EndsAfter, DecidedIn
<1>6. ClosingIn(trace', a) = n + 1
  <2>1. PICK u : u = trace'
    OBVIOUS
  <2>2. n + 1 \in EndsAfter(u, a) /\ \A j \in EndsAfter(u, a) : n + 1 <= j
    BY <1>1, <1>5, <2>1
  <2>3. n + 1 \in Nat
    BY <1>1
  <2> QED BY <1>1, <1>4, <2>1, <2>2, <2>3, ClosingIs
<1>7. MembersIn(trace', a) = shown
  <2>1. d \notin Insides
    BY DEF Ends, Breaks, Departures, Insides
  <2> QED BY <1>1, <1>4, <1>6, <2>1 DEF MembersIn, DecidedIn, InsidesAfter
<1>8. trace'[a + 1].decision \in Confirmations
  BY <1>1, <1>3
<1>9. n + 1 \in DecidedIn(trace', Departures) <=> d \in Departures
  BY <1>1 DEF DecidedIn
<1> HIDE DEF shown
<1>10. Reads(trace', p)
  BY <1>2, <1>3, <1>6, <1>7, <1>8, <1>9 DEF Reads
<1> QED BY <1>1, <1>2, <1>6, <1>10 DEF a

\* A step that closes nothing and confirms nothing, with no presence open
\* before or after it.
LEMMA SearchTold ==
  ASSUME Inductive, NamesKept, Told, ~Finished, ~Finished', ~Present, ~Present',
         NEW d, Traced(d), d \notin Confirmations, presence' = presence
  PROVE  Told'
<1>1. \A k \in DOMAIN presence' :
        Reads(trace', presence'[k]) /\ ClosingIn(trace', presence'[k].start) <= Len(trace')
  BY ClosedKept
<1>2. DecidedIn(trace', Confirmations) = DecidedIn(trace, Confirmations)
  BY RowAdded DEF DecidedIn
<1>3. ~Open /\ ~Open'
  BY DEF Open
<1> QED BY <1>1, <1>2, <1>3 DEF Told

\* A step whose row ends the open presence.
LEMMA EndTold ==
  ASSUME Inductive, NamesKept, Told, ~Finished', Open, ~Present',
         NEW d \in Ends, Traced(d), NEW reason,
         presence' = Append(presence, ClosedPresence(reason)),
         reason = "confirmed_movement" <=> d \in Departures
  PROVE  Told'
<1>1. PICK p : p = ClosedPresence(reason)
  OBVIOUS
<1>2. /\ p.start = state.anchorIdx
      /\ Reads(trace', p) /\ ClosingIn(trace', p.start) <= Len(trace')
  BY <1>1, ClosedReads
<1>3. PICK m \in Nat : /\ DOMAIN presence = 1 .. m /\ DOMAIN presence' = 1 .. m + 1
                       /\ presence'[m + 1] = p
                       /\ \A k \in 1 .. m : presence'[k] = presence[k]
  BY <1>1 DEF Inductive, TypeOK
<1>4. \A k \in 1 .. m : Reads(trace', presence[k])
                        /\ ClosingIn(trace', presence[k].start) <= Len(trace')
  BY <1>3, ClosedKept DEF Open
<1>5. \A k \in 1 .. m + 1 : k \in 1 .. m \/ k = m + 1
  OBVIOUS
<1>6. \A k \in DOMAIN presence' :
        Reads(trace', presence'[k]) /\ ClosingIn(trace', presence'[k].start) <= Len(trace')
  BY <1>2, <1>3, <1>4, <1>5, Zenon
<1>7. DecidedIn(trace', Confirmations) = DecidedIn(trace, Confirmations)
  BY RowAdded DEF Ends, Breaks, Departures, Confirmations, DecidedIn
<1>8. ASSUME NEW i \in DecidedIn(trace', Confirmations)
      PROVE  \E k \in DOMAIN presence' : presence'[k].start = i - 1
  <2>1. CASE \E k \in DOMAIN presence : presence[k].start = i - 1
    <3>1. PICK k \in 1 .. m : presence[k].start = i - 1
      BY <1>3, <2>1
    <3>2. k \in 1 .. m + 1
      OBVIOUS
    <3> QED BY <1>3, <3>1, <3>2, Zenon
  <2>2. CASE state.anchorIdx = i - 1
    <3>1. m + 1 \in 1 .. m + 1
      OBVIOUS
    <3> QED BY <1>2, <1>3, <2>2, <3>1, Zenon
  <2> QED BY <1>7, <2>1, <2>2 DEF Told
<1>9. ~Open'
  BY DEF Open
<1> QED BY <1>6, <1>8, <1>9 DEF Told

\* A step that confirms the presence at the latest observation.
LEMMA ConfirmTold ==
  ASSUME Inductive, NamesKept, Told, ~Finished, ~Finished', ~Present, Present',
         NEW d \in Confirmations, Traced(d), presence' = presence,
         state'.anchorIdx = state.anchorIdx,
         state'.members = Append(state.members, Now)
  PROVE  Told'
<1> DEFINE n == Len(trace)
<1>1. /\ n \in Nat /\ DOMAIN trace = 1 .. n /\ n = Len(obs)
      /\ Len(trace') = n + 1 /\ DOMAIN trace' = 1 .. n + 1
      /\ trace'[n + 1].decision = d
      /\ \A i \in 1 .. n : trace'[i].decision = trace[i].decision
  BY RowAdded
<1>2. /\ state'.anchorIdx = n /\ n >= 1
      /\ state'.members = <<n, n + 1>>
  <2>1. state.members = <<state.anchorIdx>> /\ state.anchorIdx = n
    BY <1>1 DEF Inductive, StateCoherent
  <2>2. n # 0
    BY <1>1 DEF Inductive, TypeOK
  <2>3. state'.members = Append(<<n>>, n + 1)
    BY <1>1, <2>1 DEF Now
  <2>4. Append(<<n>>, n + 1) = <<n, n + 1>>
    BY <1>1, AppendToSingleton
  <2> QED BY <1>1, <2>1, <2>2, <2>3, <2>4
<1> HIDE DEF n
<1>3. d \notin Ends /\ d \notin Insides
  BY DEF Ends, Breaks, Departures, Confirmations, Insides
<1>4. OpenReads(trace', state')
  <2> DEFINE shown == {n, n + 1} \cup InsidesAfter(trace', n)
  <2>1. EndsAfter(trace', n) = {} /\ InsidesAfter(trace', n) = {}
    BY <1>1, <1>3 DEF EndsAfter, InsidesAfter, DecidedIn
  <2>2. shown = {n, n + 1}
    BY <2>1
  <2>3. Cardinality({n, n + 1}) = 2
    <3>1. PICK S : S = {n}
      OBVIOUS
    <3>2. IsFiniteSet(S) /\ Cardinality(S) = 1
      BY <3>1, FS_Singleton
    <3>3. n + 1 \notin S
      BY <1>1, <3>1
    <3>4. Cardinality(S \cup {n + 1}) = Cardinality(S) + 1
      BY <3>2, <3>3, FS_AddElement, Zenon
    <3>5. {n, n + 1} = S \cup {n + 1}
      BY <3>1
    <3>6. Cardinality({n, n + 1}) = Cardinality(S) + 1
      BY <3>4, <3>5, Zenon
    <3>7. PICK c : c = Cardinality({n, n + 1})
      OBVIOUS
    <3>8. c = 1 + 1
      BY <3>2, <3>6, <3>7, Zenon
    <3>9. c = 2
      BY <3>8
    <3> QED BY <3>7, <3>9, Zenon
  <2>4. Cardinality(shown) = 2
    BY <2>2, <2>3, Zenon
  <2>5. \A i \in shown : i <= n + 1
    BY <1>1, <2>2
  <2>6. n + 1 \in shown /\ n + 1 \in 1 .. n + 1
    BY <1>1
  <2> HIDE DEF shown
  <2>7. Len(state'.members) = 2 /\ state'.members[2] = n + 1
    BY <1>2
  <2> QED BY <1>1, <1>2, <2>1, <2>4, <2>5, <2>6, <2>7 DEF OpenReads, shown
<1>5. \A k \in DOMAIN presence' :
        Reads(trace', presence'[k]) /\ ClosingIn(trace', presence'[k].start) <= Len(trace')
  BY ClosedKept
<1>6. DecidedIn(trace', Confirmations) = DecidedIn(trace, Confirmations) \cup {n + 1}
  BY <1>1 DEF DecidedIn
<1>7. ~Open /\ Open' /\ state'.anchorIdx = (n + 1) - 1
  BY <1>1, <1>2 DEF Open
<1> QED BY <1>4, <1>5, <1>6, <1>7 DEF Told

\* A step that goes on with the open presence.
LEMMA StayTold ==
  ASSUME Inductive, NamesKept, Told, ~Finished', Open, Present',
         NEW d, Traced(d), d \notin Confirmations, d \notin Ends,
         presence' = presence, state'.anchorIdx = state.anchorIdx,
         \/ d \in Insides /\ state'.members = Append(state.members, Now)
         \/ d \notin Insides /\ state'.members = state.members
  PROVE  Told'
<1> DEFINE n == Len(trace)
           a == state.anchorIdx
           shown == {a, a + 1} \cup InsidesAfter(trace, a)
           ms == state.members
<1>1. /\ n \in Nat /\ DOMAIN trace = 1 .. n /\ n = Len(obs)
      /\ Len(trace') = n + 1 /\ DOMAIN trace' = 1 .. n + 1
      /\ trace'[n + 1].decision = d
      /\ \A i \in 1 .. n : trace'[i].decision = trace[i].decision
  BY RowAdded
<1>2. /\ a + 1 \in 1 .. n /\ trace[a + 1].decision \in Confirmations
      /\ EndsAfter(trace, a) = {}
      /\ Len(ms) = Cardinality(shown)
      /\ ms[Len(ms)] \in shown /\ \A i \in shown : i <= ms[Len(ms)]
  BY DEF Told, OpenReads
<1>3. a \in Nat /\ ms \in Seq(Index) /\ ms # <<>>
  BY DEF Inductive, TypeOK, PresenceState, Index, StateCoherent
<1>4. ms \in Seq(Nat)
  BY <1>3 DEF Index
<1>5. state'.anchorIdx = a
  OBVIOUS
<1>6. \/ d \in Insides /\ state'.members = Append(ms, n + 1)
      \/ d \notin Insides /\ state'.members = ms
  BY <1>1 DEF Now
<1> HIDE DEF n, a, ms
<1>7. EndsAfter(trace', a) = {}
  BY <1>1, <1>2 DEF EndsAfter, DecidedIn
<1>8. trace'[a + 1].decision \in Confirmations /\ a + 1 \in 1 .. n + 1
  BY <1>1, <1>2
<1> DEFINE shown2 == {a, a + 1} \cup InsidesAfter(trace', a)
<1>9. \A i \in shown : i \in 1 .. n \/ i = a
  BY <1>1, <1>2 DEF InsidesAfter, DecidedIn
<1>10. a \in 0 .. n
  BY <1>1, <1>2, <1>3
<1>11. IsFiniteSet(shown)
  <2>1. shown \subseteq 0 .. n
    <3>1. \A i \in 1 .. n : i \in 0 .. n
      BY <1>1
    <3> HIDE DEF shown
    <3> QED BY <1>9, <1>10, <3>1
  <2>2. IsFiniteSet(0 .. n)
    BY <1>1, FS_Interval
  <2> HIDE DEF shown
  <2> QED BY <2>1, <2>2, FS_Subset
<1>12. ASSUME d \in Insides, state'.members = Append(ms, n + 1)
       PROVE  OpenReads(trace', state')
  <2>1. shown2 = shown \cup {n + 1}
    <3>1. a < n + 1 /\ \A i \in 1 .. n + 1 : i \in 1 .. n \/ i = n + 1
      BY <1>1, <1>10
    <3>2. 1 .. n \subseteq 1 .. n + 1 /\ n + 1 \in 1 .. n + 1
      BY <1>1
    <3>3. DecidedIn(trace', Insides) = DecidedIn(trace, Insides) \cup {n + 1}
      BY <1>1, <1>12, <3>1, <3>2 DEF DecidedIn
    <3>4. InsidesAfter(trace', a) = InsidesAfter(trace, a) \cup {n + 1}
      BY <3>1, <3>3 DEF InsidesAfter
    <3> QED BY <3>4
  <2>2. n + 1 \notin shown
    BY <1>1, <1>9, <1>10
  <2> HIDE DEF shown, shown2
  <2>3. Cardinality(shown2) = Cardinality(shown) + 1
    BY <1>11, <2>1, <2>2, FS_AddElement
  <2>4. Len(state'.members) = Len(ms) + 1 /\ state'.members[Len(ms) + 1] = n + 1
    BY <1>1, <1>4, <1>12
  <2>5. n + 1 \in shown2 /\ \A i \in shown2 : i <= n + 1
    BY <1>1, <1>9, <1>10, <2>1
  <2>6. Len(state'.members) = Cardinality(shown2)
    BY <1>2, <2>3, <2>4
  <2>7. state'.members[Len(state'.members)] = n + 1
    BY <2>4
  <2> QED BY <1>1, <1>5, <1>7, <1>8, <2>5, <2>6, <2>7 DEF OpenReads, shown2
<1>13. ASSUME d \notin Insides, state'.members = ms
       PROVE  OpenReads(trace', state')
  <2>1. shown2 = shown
    BY <1>1, <1>13 DEF InsidesAfter, DecidedIn
  <2>2. Len(state'.members) = Cardinality(shown2)
        /\ state'.members[Len(state'.members)] \in shown2
        /\ \A i \in shown2 : i <= state'.members[Len(state'.members)]
    BY <1>2, <1>13, <2>1, Zenon
  <2> HIDE DEF shown, shown2
  <2> QED BY <1>1, <1>5, <1>7, <1>8, <2>2 DEF OpenReads, shown2
<1>14. OpenReads(trace', state')
  BY <1>6, <1>12, <1>13
<1>15. \A k \in DOMAIN presence' :
        Reads(trace', presence'[k]) /\ ClosingIn(trace', presence'[k].start) <= Len(trace')
  BY ClosedKept DEF Open
<1>16. DecidedIn(trace', Confirmations) = DecidedIn(trace, Confirmations)
  BY <1>1 DEF DecidedIn
<1>17. Open'
  BY DEF Open
<1> QED BY <1>5, <1>14, <1>15, <1>16, <1>17 DEF Told, a

LEMMA FinishTold ==
  ASSUME Inductive, NamesKept, Told, Finish, TraceEnd
  PROVE  Told'
<1> DEFINE n == Len(trace)
           a == state.anchorIdx
           p == ClosedPresence("dataset_end")
<1>1. ~Finished /\ Finished'
  BY FinishFinishes DEF Finish, Finished, Inductive
<1>2. n \in Nat /\ DOMAIN trace = 1 .. n
  BY DEF NamesKept, IsRows
<1>3. /\ Len(trace') = n /\ DOMAIN trace' = 1 .. n
      /\ \A i \in 1 .. n : trace'[i].decision = trace[i].decision
  BY <1>2 DEF TraceEnd, Row
<1>4. Continued(trace, trace')
  BY <1>2, <1>3 DEF Continued
<1>5. \A X : DecidedIn(trace', X) = DecidedIn(trace, X)
  BY <1>2, <1>3 DEF DecidedIn
<1>6. ASSUME NEW k \in DOMAIN presence PROVE Reads(trace', presence[k])
  <2>1. presence[k] \in PresenceInterval
    BY DEF Inductive, TypeOK
  <2>2. presence[k].start \in Nat
    BY <2>1 DEF PresenceInterval, Index
  <2>3. Reads(trace, presence[k]) /\ ClosingIn(trace, presence[k].start) <= Len(trace)
    BY <1>1 DEF Told
  <2>4. PICK q, u : q = presence[k] /\ u = trace'
    OBVIOUS
  <2> QED BY <1>4, <2>2, <2>3, <2>4, ReadsKept
<1>7. Present => Closable
  BY DEF Inductive, StateCoherent, Present, Closable
<1>8. CASE Closable
  <2>1. Open
    BY <1>1, <1>8 DEF Closable, Present, Open
  <2>2. presence' = Append(presence, p)
    BY <1>8 DEF Finish
  <2>3. /\ p.start = a /\ p.end = state.members[Len(state.members)]
        /\ p.count = Len(state.members) /\ p.endReason = "dataset_end"
    BY <2>1 DEF ClosedPresence, Inductive, StateCoherent
  <2>4. a \in Nat
    BY DEF Inductive, TypeOK, PresenceState, Index
  <2>5. Told
    OBVIOUS
  <2>6. OpenReads(trace, state)
    BY <2>1 DEF Told
  <2> HIDE DEF n, p
  <2>7. Reads(trace', p)
    <3> DEFINE shown == {a, a + 1} \cup InsidesAfter(trace, a)
    <3>1. /\ a + 1 \in 1 .. n /\ trace[a + 1].decision \in Confirmations
          /\ EndsAfter(trace, a) = {}
          /\ p.count = Cardinality(shown)
          /\ p.end \in shown /\ \A i \in shown : i <= p.end
      BY <2>3, <2>6 DEF OpenReads, n
    <3> HIDE DEF a
    <3>2. EndsAfter(trace', a) = {}
      BY <1>5, <3>1 DEF EndsAfter
    <3>3. ClosingIn(trace', a) = n + 1
      <4>1. PICK u : u = trace'
        OBVIOUS
      <4> QED BY <1>2, <1>3, <2>4, <3>2, <4>1, ClosingIs
    <3>4. MembersIn(trace', a) = shown
      BY <1>2, <1>5, <3>3 DEF DecidedIn, MembersIn, InsidesAfter
    <3>5. trace'[a + 1].decision \in Confirmations
      BY <1>3, <3>1
    <3>6. n + 1 \notin DecidedIn(trace', Departures)
      BY <1>2, <1>3 DEF DecidedIn
    <3> HIDE DEF shown
    <3>7. p.start = a
      BY <2>3 DEF a
    <3> QED BY <2>3, <3>1, <3>3, <3>4, <3>5, <3>6, <3>7 DEF Reads
  <2>8. PICK m \in Nat : /\ DOMAIN presence = 1 .. m /\ DOMAIN presence' = 1 .. m + 1
                         /\ presence'[m + 1] = p
                         /\ \A k \in 1 .. m : presence'[k] = presence[k]
    <3>1. presence \in Seq(PresenceInterval)
      BY DEF Inductive, TypeOK
    <3>2. presence \in Seq(PresenceInterval \cup {p}) /\ Len(presence) \in Nat
      BY <3>1
    <3> QED BY <2>2, <3>2
  <2>9. \A k \in 1 .. m + 1 : k \in 1 .. m \/ k = m + 1
    OBVIOUS
  <2>10. \A k \in DOMAIN presence' : Reads(trace', presence'[k])
    BY <1>6, <2>7, <2>8, <2>9, Zenon
  <2>11. ASSUME NEW i \in DecidedIn(trace', Confirmations)
         PROVE  \E k \in DOMAIN presence' : presence'[k].start = i - 1
    <3>1. \/ \E k \in DOMAIN presence : presence[k].start = i - 1
          \/ a = i - 1
      BY <1>5 DEF Told
    <3>2. CASE \E k \in DOMAIN presence : presence[k].start = i - 1
      <4>1. PICK k \in 1 .. m : presence[k].start = i - 1
        BY <2>8, <3>2
      <4>2. k \in 1 .. m + 1
        OBVIOUS
      <4> QED BY <2>8, <4>1, <4>2, Zenon
    <3>3. CASE a = i - 1
      <4>1. m + 1 \in 1 .. m + 1
        OBVIOUS
      <4> QED BY <2>3, <2>8, <3>3, <4>1, Zenon
    <3> QED BY <3>1, <3>2, <3>3
  <2> QED BY <1>1, <2>10, <2>11 DEF Told, Open
<1>9. CASE ~Closable
  BY <1>7, <1>9, <1>6, <1>5, <1>1 DEF Finish, Open, Told
<1> QED BY <1>8, <1>9

LEMMA InitTold == TraceInit => Told
<1> SUFFICES ASSUME TraceInit PROVE Told
  OBVIOUS
<1>1. ~Present /\ presence = <<>>
  BY DEF TraceInit, Init, Present, Seeking
<1>2. PICK r : trace = <<r>> /\ r.decision = "dataset_start"
  BY DEF TraceInit, Row
<1>3. DecidedIn(trace, Confirmations) = {}
  BY <1>2 DEF DecidedIn, Confirmations
<1> QED BY <1>1, <1>3 DEF Told, Open

\* A branch of the loop reads one observation: the input has not ended.
LEMMA StillReading ==
  ASSUME NEW o \in Incoming, Consume(o)
  PROVE  ~Finished /\ ~Finished'
BY DEF Incoming, Consume, Finished

LEMMA BreakTold ==
  ASSUME Inductive, NamesKept, Told, NEW o \in Incoming, ContinuityBreak(o),
         Traced(BreakDecision(o))
  PROVE  Told'
<1> DEFINE reason == IF o.disc THEN "discontinuity" ELSE "gap"
<1>1. ~Finished /\ ~Finished'
  BY StillReading DEF ContinuityBreak
<1>2. BreakDecision(o) \in Breaks
  BY DEF BreakDecision, Breaks, ContinuityBreak
<1>3. ~Present'
  BY DEF ContinuityBreak, Seeking, Present
<1>4. CASE Present
  <2>1. Closable
    BY <1>4 DEF Inductive, StateCoherent, Present, Closable
  <2>2. presence' = Append(presence, ClosedPresence(reason))
    BY <2>1 DEF ContinuityBreak
  <2>3. Open
    BY <1>1, <1>4 DEF Open
  <2>4. BreakDecision(o) \in Ends /\ BreakDecision(o) \notin Departures
    BY <1>2 DEF Ends, Breaks, Departures
  <2>5. reason # "confirmed_movement"
    OBVIOUS
  <2> HIDE DEF reason
  <2> QED BY <1>1, <1>3, <2>2, <2>3, <2>4, <2>5, EndTold
<1>5. CASE ~Present
  <2>1. presence' = presence
    BY <1>5 DEF ContinuityBreak, Closable, Present
  <2>2. BreakDecision(o) \notin Confirmations
    BY <1>2 DEF Breaks, Confirmations
  <2> QED BY <1>1, <1>3, <1>5, <2>1, <2>2, SearchTold
<1> QED BY <1>4, <1>5

LEMMA ConfirmationTold ==
  ASSUME Inductive, NamesKept, Told, NEW o \in Incoming,
         \/ /\ ConfirmArrival(o)
            /\ Traced("presence_confirmed_arrival_transition")
         \/ ConfirmPresence(o) /\ Traced(PresenceDecision)
  PROVE  Told'
<1>1. ~Finished /\ ~Finished'
  BY StillReading DEF ConfirmArrival, ConfirmPresence
<1>2. ~Present /\ presence' = presence
  BY DEF ConfirmArrival, ConfirmPresence, Present
<1>3. PICK s : s = Supported
  OBVIOUS
<1>4. /\ s \in PresenceState' /\ s.phase = "present"
      /\ s.anchorIdx = state.anchorIdx /\ s.members = <<state.anchorIdx, Now>>
  BY <1>3, SupportedState DEF ConfirmArrival, ConfirmPresence
<1>5. state' = s \/ state' = [s EXCEPT !.enterEvent = TRUE]
  BY <1>3 DEF ConfirmArrival, ConfirmPresence
<1>6. /\ state'.phase = "present" /\ state'.anchorIdx = state.anchorIdx
      /\ state'.members = <<state.anchorIdx, Now>>
  BY <1>4, <1>5 DEF PresenceState
<1>7. state'.members = Append(state.members, Now)
  <2>1. state.members = <<state.anchorIdx>>
    BY <1>2 DEF Inductive, StateCoherent
  <2>2. state.anchorIdx \in Nat /\ Now \in Nat
    BY DEF Inductive, TypeOK, PresenceState, Index, Now
  <2>3. Append(<<state.anchorIdx>>, Now) = <<state.anchorIdx, Now>>
    BY <2>2, AppendToSingleton
  <2> QED BY <1>6, <2>1, <2>3
<1>8. PICK d \in Confirmations : Traced(d)
  <2>1. CASE Traced("presence_confirmed_arrival_transition")
    BY <2>1 DEF Confirmations
  <2>2. CASE ConfirmPresence(o) /\ Traced(PresenceDecision)
    <3>1. state.startReason \in StartReasons \ {"movement_arrival"}
      BY <2>2 DEF ConfirmPresence, ArrivalMatches, Inductive, StateCoherent,
         Present, AnchorSegment, Anchor, TypeOK, PresenceState
    <3>2. PresenceDecision \in Confirmations
      BY <3>1 DEF StartReasons, PresenceDecision, Confirmations
    <3> QED BY <2>2, <3>2
  <2> QED BY <2>1, <2>2
<1> QED BY <1>1, <1>2, <1>6, <1>7, <1>8, ConfirmTold DEF Present

LEMMA DepartureTold ==
  ASSUME Inductive, NamesKept, Told, NEW o \in Incoming, NEW d \in Departures,
         DepartUnconfirmed(o) \/ ConfirmDeparture(o), Traced(d)
  PROVE  Told'
<1>1. ~Finished /\ ~Finished'
  BY StillReading DEF DepartUnconfirmed, ConfirmDeparture
<1>2. Open
  BY <1>1 DEF DepartUnconfirmed, ConfirmDeparture, Outside, Open, Present
<1>3. /\ presence' = Append(presence, ClosedPresence("confirmed_movement"))
      /\ ~Present'
  BY DEF DepartUnconfirmed, ConfirmDeparture, Depart, Seeking, Present
<1>4. d \in Ends
  BY DEF Ends
<1> QED BY <1>1, <1>2, <1>3, <1>4, EndTold

LEMMA StayingTold ==
  ASSUME Inductive, NamesKept, Told, NEW o \in Incoming,
         \/ RemainInside(o) /\ Traced(InsideDecision)
         \/ /\ StartCandidate(o)
            /\ Traced("departure_candidate_started")
         \/ /\ RestartCandidate(o)
            /\ Traced("departure_candidate_window_expired_restart")
  PROVE  Told'
<1>1. ~Finished /\ ~Finished'
  BY StillReading DEF RemainInside, StartCandidate, RestartCandidate
<1>2. Open /\ presence' = presence
  BY <1>1 DEF RemainInside, StartCandidate, RestartCandidate, Outside, Open, Present
<1>3. state \in PresenceState
  BY DEF Inductive, TypeOK
<1>4. CASE RemainInside(o) /\ Traced(InsideDecision)
  <2>1. /\ state'.phase = state.phase /\ state'.anchorIdx = state.anchorIdx
        /\ state'.members = Append(state.members, Now)
    BY <1>3, <1>4 DEF RemainInside, PresenceState
  <2>2. /\ InsideDecision \in Insides /\ InsideDecision \notin Ends
        /\ InsideDecision \notin Confirmations
    BY DEF InsideDecision, Insides, Ends, Breaks, Departures, Confirmations
  <2> QED BY <1>1, <1>2, <1>4, <2>1, <2>2, StayTold DEF Open, Present
<1>5. CASE StartCandidate(o) \/ RestartCandidate(o)
  <2>1. /\ state'.phase = state.phase /\ state'.anchorIdx = state.anchorIdx
        /\ state'.members = state.members
    BY <1>3, <1>5 DEF StartCandidate, RestartCandidate, PresenceState
  <2>2. PICK d : /\ Traced(d) /\ d \notin Insides /\ d \notin Ends
                 /\ d \notin Confirmations
    <3>1. \/ Traced("departure_candidate_started")
          \/ Traced("departure_candidate_window_expired_restart")
      BY <1>5 DEF StartCandidate, RestartCandidate, Outside, RemainInside
    <3> QED BY <3>1 DEF Insides, Ends, Breaks, Departures, Confirmations
  <2> QED BY <1>1, <1>2, <2>1, <2>2, StayTold DEF Open, Present
<1> QED BY <1>4, <1>5

LEMMA ReanchorTold ==
  ASSUME Inductive, NamesKept, Told, NEW o \in Incoming, Reanchor(o),
         Traced("presence_candidate_reanchored")
  PROVE  Told'
<1>1. ~Finished /\ ~Finished' /\ ~Present /\ presence' = presence
  BY StillReading DEF Reanchor, Present
<1>2. ~Present'
  BY <1>1 DEF Inductive, TypeOK, Reanchor, PresenceState, Present
<1>3. "presence_candidate_reanchored" \notin Confirmations
  BY DEF Confirmations
<1> QED BY <1>1, <1>2, <1>3, SearchTold

\* For every geometry, threshold, mode and input, the trace tells the presence
\* intervals: where each was confirmed, what it counts, where it ends and why,
\* and a confirming row always leads to one (appendTrace against closePresence).
THEOREM TraceAlwaysExplains == TraceSpec => []TraceExplainsPresence
<1>1. Inductive /\ NamesKept /\ Told /\ [TraceNext]_traceVars => Told'
  <2> SUFFICES ASSUME Inductive, NamesKept, Told, [TraceNext]_traceVars PROVE Told'
    OBVIOUS
  <2>1. CASE UNCHANGED traceVars
    BY <2>1 DEF traceVars, Told, Open, OpenReads, Finished, Present
  <2>2. CASE Finish /\ TraceEnd
    BY <2>2, FinishTold
  <2>3. ASSUME NEW o \in Incoming, ContinuityBreak(o), Traced(BreakDecision(o))
        PROVE  Told'
    BY <2>3, BreakTold
  <2>4. ASSUME NEW o \in Incoming,
               \/ /\ ConfirmArrival(o)
                  /\ Traced("presence_confirmed_arrival_transition")
               \/ ConfirmPresence(o) /\ Traced(PresenceDecision)
        PROVE  Told'
    BY <2>4, ConfirmationTold
  <2>5. ASSUME NEW o \in Incoming, Reanchor(o),
               Traced("presence_candidate_reanchored")
        PROVE  Told'
    BY <2>5, ReanchorTold
  <2>6. ASSUME NEW o \in Incoming,
               \/ RemainInside(o) /\ Traced(InsideDecision)
               \/ /\ StartCandidate(o)
                  /\ Traced("departure_candidate_started")
               \/ /\ RestartCandidate(o)
                  /\ Traced("departure_candidate_window_expired_restart")
        PROVE  Told'
    BY <2>6, StayingTold
  <2>7. ASSUME NEW o \in Incoming,
               \/ /\ DepartUnconfirmed(o)
                  /\ Traced("departure_confirmed_unconfirmed_mode")
               \/ ConfirmDeparture(o) /\ Traced("departure_confirmed")
        PROVE  Told'
    BY <2>7, DepartureTold DEF Departures
  <2> QED BY <2>1, <2>2, <2>3, <2>4, <2>5, <2>6, <2>7 DEF TraceNext
<1>2. Inductive /\ NamesKept /\ EndMarked /\ Told => TraceExplainsPresence
  BY ToldExplains
<1> QED BY <1>1, <1>2, InitTold, TraceInductive, TraceNamesKept, TraceEndMarked, PTL
        DEF TraceSpec
=============================================================================
