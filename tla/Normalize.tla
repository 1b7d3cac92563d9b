------------------------------ MODULE Normalize -------------------------------
(***************************************************************************)
(* From partition files to the observations the eventizer works on: the    *)
(* partition loop of pipeline.Run reads and sorts a partition, cuts it     *)
(* into entities, and Eventize collapses the fixes of one entity that have *)
(* the same timestamp to one representative.                               *)
(*                                                                         *)
(* The input is the sequence of accepted rows; a row's index is its        *)
(* SourceRow.  The place of a fix is one number, ordered as the code       *)
(* orders latitude and longitude together; digits is the lexical precision *)
(* of its coordinates.                                                     *)
(*                                                                         *)
(* A definition D_Variant is D as a plausible defect would leave it.       *)
(***************************************************************************)
EXTENDS Integers, Sequences, FiniteSets

CONSTANTS
  Fix,                \* the accepted rows a file may contain
  PartitionIndex(_),  \* the partition of an entity
  EntityRank(_),      \* the order of entity ids
  Partitions, MaxRows

MissingHA == -1

ASSUME FixAssumption ==
  \A f \in Fix : /\ {f.ts, f.place, f.digits, EntityRank(f.entity)} \subseteq Nat
                 /\ f.ha \in Nat \cup {MissingHA}
                 /\ PartitionIndex(f.entity) \in 1..Partitions
ASSUME RankAssumption == \* ids are compared as strings
  \A f, g \in Fix :
    EntityRank(f.entity) = EntityRank(g.entity) => f.entity = g.entity
ASSUME BoundAssumption == Partitions \in Nat \ {0} /\ MaxRows \in Nat

VARIABLES
  input,   \* the accepted rows in the order of the file
  part,    \* the partition in hand, or the next one
  rows,    \* the rows of it still to be eventized, sorted
  results, \* one entry per call of Eventize: entity and observations
  stats    \* counters of the run and of the eventizer

vars == <<input, part, rows, results, stats>>

-----------------------------------------------------------------------------
(* The two comparisons: of the sort and of the collapse.                   *)

HasHA(f) == f.ha # MissingHA

BetterRepresentative_AnyHA(a, b) ==
  IF a.ha # b.ha THEN a.ha < b.ha
  ELSE IF a.place # b.place THEN a.place < b.place
  ELSE a.row < b.row
BetterRepresentative(a, b) ==
  IF HasHA(a) # HasHA(b) THEN HasHA(a)
  ELSE IF HasHA(a) /\ a.ha # b.ha THEN a.ha < b.ha
  ELSE IF a.place # b.place THEN a.place < b.place
  ELSE a.row < b.row

SortsBefore_ByTime(a, b) ==
  IF a.ts # b.ts THEN a.ts < b.ts ELSE BetterRepresentative(a, b)
SortsBefore(a, b) ==
  IF a.entity # b.entity THEN EntityRank(a.entity) < EntityRank(b.entity)
  ELSE IF a.ts # b.ts THEN a.ts < b.ts
  ELSE BetterRepresentative(a, b)

\* A row is at the position given by the number of rows before it.
Sorted(set) ==
  [i \in 1..Cardinality(set) |->
     CHOOSE r \in set : Cardinality({q \in set : SortsBefore(q, r)}) = i - 1]

-----------------------------------------------------------------------------
(* collapseSameTimestamp.                                                  *)

Distance(p, q) == IF p < q THEN q - p ELSE p - q

\* The last index of the maximal run of equal Key that starts at i.
EndOfRun(s, i, Key(_)) ==
  CHOOSE j \in i..Len(s) :
    /\ \A k \in i..j : Key(s[k]) = Key(s[i])
    /\ j < Len(s) => Key(s[j + 1]) # Key(s[i])

Farthest(best, group) ==
  CHOOSE d \in {Distance(best.place, g.place) : g \in group} :
    \A g \in group : Distance(best.place, g.place) <= d

Collapsed(group) ==
  LET best == CHOOSE b \in group :
                \A g \in group \ {b} : BetterRepresentative(b, g)
  IN  [fix |-> best, samples |-> Cardinality(group),
       scatter |-> Farthest(best, group)]

GroupAt(s, i) == {s[k] : k \in i..EndOfRun(s, i, LAMBDA r : r.ts)}

CollapseSameTimestamp(s) ==
  LET starts == {i \in DOMAIN s : i = 1 \/ s[i - 1].ts # s[i].ts}
      start  == [n \in 1..Cardinality(starts) |->
                   CHOOSE i \in starts : Cardinality(starts \cap 1..i) = n]
  IN  [n \in DOMAIN start |-> Collapsed(GroupAt(s, start[n]))]

-----------------------------------------------------------------------------
(* The partition loop.                                                     *)

Add(entity, obs) ==
  stats' = [entities   |-> stats.entities + 1,
            normalized |-> stats.normalized + Len(obs),
            collapsed  |-> stats.collapsed + Len(entity) - Len(obs)]

ReadPartition ==
  /\ rows = <<>> /\ part < Partitions
  /\ part' = part + 1
  /\ rows' = Sorted({[input[i] EXCEPT !.row = i] :
                       i \in {j \in DOMAIN input :
                                PartitionIndex(input[j].entity) = part + 1}})
  /\ UNCHANGED <<input, results, stats>>

\* Eventize of the next entity: rows[start:end] of one entity id.
EventizeEntity ==
  /\ rows # <<>>
  /\ LET end    == EndOfRun(rows, 1, LAMBDA r : r.entity)
         entity == SubSeq(rows, 1, end)
         obs    == CollapseSameTimestamp(entity)
     IN  /\ results' = Append(results, [entity |-> rows[1].entity, obs |-> obs])
         /\ rows' = SubSeq(rows, end + 1, Len(rows))
         /\ Add(entity, obs)
  /\ UNCHANGED <<input, part>>

\* An accepted row; its number is set when it is read.
Row == {[entity |-> f.entity, ts |-> f.ts, ha |-> f.ha, place |-> f.place,
         digits |-> f.digits, row |-> 0] : f \in Fix}

Init ==
  /\ input \in UNION {[1..n -> Row] : n \in 0..MaxRows}
  /\ part = 0 /\ rows = <<>> /\ results = <<>>
  /\ stats = [entities |-> 0, normalized |-> 0, collapsed |-> 0]

Next == ReadPartition \/ EventizeEntity
Spec == Init /\ [][Next]_vars

-----------------------------------------------------------------------------
(* Properties.                                                             *)

Done == part = Partitions /\ rows = <<>>

\* Every call of Eventize gets one entity in strictly increasing time, no
\* entity is eventized twice, and the counters agree: accepted rows =
\* normalized + collapsed.
EntitiesAreWhole ==
  /\ \A i, j \in DOMAIN results :
       results[i].entity = results[j].entity => i = j
  /\ \A i \in DOMAIN results : \A n \in DOMAIN results[i].obs :
       /\ results[i].obs[n].fix.entity = results[i].entity
       /\ n > 1 => results[i].obs[n - 1].fix.ts < results[i].obs[n].fix.ts
  /\ Done => /\ stats.normalized + stats.collapsed = Len(input)
             /\ stats.entities = Cardinality({input[i].entity : i \in DOMAIN input})

\* The documented choice among the fixes of one entity and time, stated on
\* their content only: no row number, no order.
Content(f) == [entity |-> f.entity, ts |-> f.ts, ha |-> f.ha, place |-> f.place]
At(f) == {i \in DOMAIN input : input[i].entity = f.entity /\ input[i].ts = f.ts}
Preferred(f) ==
  \A i \in At(f) :
    LET g == input[i]
    IN  /\ HasHA(g) => HasHA(f) /\ f.ha <= g.ha
        /\ f.ha = g.ha => f.place <= g.place
Expected ==
  {[fix |-> Content(f), samples |-> Cardinality(At(f)),
    scatter |-> Farthest(f, {input[i] : i \in At(f)})] :
     f \in {g \in {input[i] : i \in DOMAIN input} : Preferred(g)}}
Observations ==
  UNION {{results[i].obs[n] : n \in DOMAIN results[i].obs} : i \in DOMAIN results}

\* What is retained, how many samples it stands for and their scatter are a
\* function of the fixes alone: reordering the rows, or cutting them into
\* partitions, changes nothing an identifier or an event is made of.
RowOrderIsIrrelevant ==
  Done =>
    /\ {[o EXCEPT !.fix = Content(o.fix)] : o \in Observations} = Expected
    /\ Cardinality(Expected) = stats.normalized
=============================================================================
