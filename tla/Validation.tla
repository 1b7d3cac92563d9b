------------------------------ MODULE Validation ------------------------------
(***************************************************************************)
(* The canonical Core Events that the eventizer makes of its decisions     *)
(* (the make*Event functions and closePresence) and the rules Event and    *)
(* EventsFile of validate/events.go judge them by.  pipeline.Run validates *)
(* every event before it writes it: one problem fails the run.             *)
(*                                                                         *)
(* A Core Event keeps the fields the rules read.  "header" is the set of   *)
(* those fields that baseEvent or the caller always sets to the same, or   *)
(* to anything but blank, and that are as they must be.  No rule reads the *)
(* entity, the location, the context besides source_event, or which id and *)
(* source a non-blank one is: those are left out.  Times are whole seconds *)
(* here; the code lets a magnitude be a microsecond off its duration.      *)
(***************************************************************************)
EXTENDS Eventizer

None == -2 \* no end_time, or no magnitude

Header ==
  {"xq_version", "id", "source", "event_time", "modality", "profile", "class",
   "producer", "parameters"}

-----------------------------------------------------------------------------
(* Making events.                                                          *)

\* Feature, action, state and polarity.
Meaning(kind) ==
  CASE kind = "START" -> <<"track", "start", "active", 1>>
    [] kind = "STAY"  -> <<"presence", "stay", "present", 0>>
    [] kind = "DWELL" -> <<"presence", "dwell", "present", 0>>
    [] kind = "LEAVE" -> <<"presence", "leave", "absent", -1>>
    [] kind = "ENTER" -> <<"presence", "enter", "present", 1>>
    [] kind = "GAP"   -> <<"observation", "gap", "interrupted", 0>>
    [] kind = "DISCONTINUITY" -> <<"trajectory", "discontinuity", "discontinuous", 0>>
    [] kind = "END"   -> <<"track", "end", "inactive", -1>>

BaseEvent(kind, ts) ==
  [header |-> Header, kind |-> kind, meaning |-> Meaning(kind), start |-> ts,
   end |-> None, magnitude |-> None, unit |-> "", threshold |-> DwellThresholdS]

PresenceOf(e) == CHOOSE k \in DOMAIN presence : presence[k].start = e.presence

\* closePresence.
IntervalEventOf_ByCount(e) ==
  LET p == presence[PresenceOf(e)]
  IN  [BaseEvent(e.source, obs[p.start].ts) EXCEPT
         !.end = obs[p.end].ts, !.magnitude = p.count, !.unit = "s"]
IntervalEventOf(e) ==
  LET p == presence[PresenceOf(e)]
  IN  [BaseEvent(e.source, obs[p.start].ts) EXCEPT
         !.end = obs[p.end].ts,
         !.magnitude = obs[p.end].ts - obs[p.start].ts, !.unit = "s"]

\* makeGapEvent and makeDiscontinuityEvent.
EdgeEventOf(e) ==
  LET prev == obs[e.at - 1]
      cur  == obs[e.at]
  IN  IF e.source = "GAP"
        THEN [BaseEvent("GAP", cur.ts) EXCEPT
                !.magnitude = cur.ts - prev.ts, !.unit = "s"]
        ELSE [BaseEvent("DISCONTINUITY", cur.ts) EXCEPT
                !.magnitude = DistanceM(prev.place, cur.place), !.unit = "m"]

CoreEvent(e) ==
  CASE e.source \in {"STAY", "DWELL"}        -> IntervalEventOf(e)
    [] e.source \in {"GAP", "DISCONTINUITY"} -> EdgeEventOf(e)
    [] OTHER -> BaseEvent(e.source, obs[e.at].ts)

-----------------------------------------------------------------------------
(* Judging events.                                                         *)

\* What each kind must mean, in the validator's own table.
Expected ==
  [START |-> <<"track", "start", "active", 1>>,
   STAY  |-> <<"presence", "stay", "present", 0>>,
   DWELL |-> <<"presence", "dwell", "present", 0>>,
   LEAVE |-> <<"presence", "leave", "absent", -1>>,
   ENTER |-> <<"presence", "enter", "present", 1>>,
   GAP   |-> <<"observation", "gap", "interrupted", 0>>,
   DISCONTINUITY |-> <<"trajectory", "discontinuity", "discontinuous", 0>>,
   END   |-> <<"track", "end", "inactive", -1>>]

HasDuration(c) == c.kind \in {"STAY", "DWELL"}

IntervalProblems(c) ==
  IF c.magnitude = None \/ c.unit # "s" \/ c.end = None
    THEN {"interval fields"}
    ELSE {r \in {"magnitude", "stay", "dwell"} :
            \/ r = "magnitude" /\ c.end - c.start # c.magnitude
            \/ r = "stay"  /\ c.kind = "STAY"  /\ c.magnitude >= c.threshold
            \/ r = "dwell" /\ c.kind = "DWELL" /\ c.magnitude < c.threshold}

EdgeProblems(c) ==
  {r \in {"gap", "discontinuity"} :
     \/ r = "gap" /\ c.kind = "GAP"
          /\ (c.magnitude = None \/ c.unit # "s")
     \/ r = "discontinuity" /\ c.kind = "DISCONTINUITY"
          /\ (c.magnitude = None \/ c.unit # "m")}

\* validate.Event: the set of problems it reports.  It stops early when there
\* is no provenance or the kind is unknown.
Problems(c) ==
  LET head == (Header \ c.header)
                \cup (IF c.end # None /\ c.end < c.start THEN {"end_time"} ELSE {})
  IN  IF {"producer", "parameters"} \cap c.header = {} THEN head
      ELSE IF c.kind \notin DOMAIN Expected THEN head \cup {"source_event"}
      ELSE head
             \cup (IF c.meaning # Expected[c.kind] THEN {"mapping"} ELSE {})
             \cup (IF HasDuration(c) THEN IntervalProblems(c) ELSE {})
             \cup EdgeProblems(c)

\* EventsFile: blank lines are skipped; a line that is not JSON is an error and
\* not counted as an event.
BlankLine == [kind |-> "blank line"]
JunkLine  == [kind |-> "junk"]
FileReport(lines) ==
  LET read == {i \in DOMAIN lines : lines[i] \notin {BlankLine, JunkLine}}
      bad  == {i \in DOMAIN lines : lines[i] = JunkLine}
                \cup {i \in read : Problems(lines[i]) # {}}
  IN  [events |-> Cardinality(read), valid |-> bad = {}]

-----------------------------------------------------------------------------
\* No run fails on an event of its own: whatever the decisions of the loop,
\* the events made of them meet every rule, at the dwell threshold too, and
\* `xqmob validate` counts and accepts them all, with blank lines in between.
GeneratedEventsConform ==
  LET file == [j \in 1 .. 2 * Len(events) |->
                 IF j % 2 = 0 THEN BlankLine
                              ELSE CoreEvent(events[(j + 1) \div 2])]
  IN  FileReport(file) = [events |-> Len(events), valid |-> TRUE]

\* One field of a generated event lost or wrong where a rule is about it: a field
\* of the header missing, blank or not the constant it must be; another kind, or
\* the meaning of another kind; an end before the start; the magnitude of an
\* event that has one missing, or its unit wrong; and, of an interval, its end
\* missing, or its end, start, magnitude or threshold at odds with the others.
Damaged(c) ==
  {[c EXCEPT !.header = @ \ {f}] : f \in Header}
    \cup {[c EXCEPT !.kind = k] :
            k \in (DOMAIN Expected \cup {"MOVE"}) \ {c.kind}}
    \cup {[c EXCEPT !.meaning = Expected[k]] : k \in DOMAIN Expected \ {c.kind}}
    \cup {[c EXCEPT !.end = c.start - 1]}
    \cup (IF c.unit = "" THEN {}
          ELSE {[c EXCEPT !.magnitude = None], [c EXCEPT !.unit = "km"]})
    \cup (IF ~HasDuration(c) THEN {}
          ELSE {[c EXCEPT !.end = None], [c EXCEPT !.end = @ + 1],
                [c EXCEPT !.start = @ + 1], [c EXCEPT !.magnitude = @ + 1],
                [c EXCEPT !.threshold =
                   IF c.kind = "STAY" THEN c.magnitude ELSE c.magnitude + 1]})

\* One field wrong where no rule is about it: the time of an event that is no
\* interval, an end it should not have, a unit or magnitude on a kind that has
\* none, any magnitude of a GAP or DISCONTINUITY, a threshold that does not turn
\* a stay into a dwell or back.
Amounts == {0, 1, DwellThresholdS}
Unjudged(c) ==
  IF HasDuration(c)
    THEN {[c EXCEPT !.threshold =
             IF c.kind = "STAY" THEN c.magnitude + n + 1 ELSE c.magnitude - n] :
            n \in Amounts}
    ELSE {[c EXCEPT !.start = @ + n] : n \in Amounts}
           \cup {[c EXCEPT !.end = c.start + n] : n \in Amounts}
           \cup {[c EXCEPT !.magnitude = n] : n \in Amounts}
           \cup {[c EXCEPT !.threshold = n] : n \in Amounts}
           \cup (IF c.unit = "" THEN {[c EXCEPT !.unit = "km"]} ELSE {})

\* The validator notices the damage a rule is about, and a line that was cut
\* short.
DamageIsReported ==
  \A j \in DOMAIN result.events :
    \A c \in Damaged(CoreEvent(result.events[j])) \cup {JunkLine} :
      ~FileReport(<<c>>).valid

\* The rules reach no further: an event that is wrong elsewhere is accepted, so
\* that validation does not vouch for those fields.
UnjudgedIsAccepted ==
  \A j \in DOMAIN result.events :
    \A c \in Unjudged(CoreEvent(result.events[j])) : FileReport(<<c>>).valid

\* The validator accepts what the eventizer makes, and the rules of
\* validate.Event draw their line between the damage they are about and what
\* they leave unjudged.
ValidationHolds == GeneratedEventsConform /\ DamageIsReported /\ UnjudgedIsAccepted
=============================================================================
