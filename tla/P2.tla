---------------------------------- MODULE P2 ----------------------------------
(***************************************************************************)
(* The streaming quantile estimator of metrics/quantile.go: after five     *)
(* observations it keeps five markers, their heights q and positions n,    *)
(* and the positions np they should have, and adjusts the three inner ones *)
(* at every observation.                                                   *)
(*                                                                         *)
(* The quantile is PNum / PDen and desired positions are counted in units  *)
(* of 1 / (2 PDen), so that they are exact.  Heights are integers in units *)
(* of a resolution, rounded down where the code rounds to the nearest      *)
(* float64.  Indices start at 1.                                           *)
(*                                                                         *)
(* A definition D_Variant is D as a plausible defect would leave it; no    *)
(* definition uses it.                                                     *)
(***************************************************************************)
EXTENDS Integers, Sequences, FiniteSets

CONSTANTS
  PNum, PDen, \* the quantile, PNum / PDen
  Values,     \* the observations the stream is made of, in the resolution
  MaxCount    \* bound on the length of the stream

ASSUME QuantileAssumption ==
  PNum \in Nat \ {0} /\ PDen \in Nat \ {0} /\ PNum < PDen
ASSUME ValuesAssumption == Values \subseteq Int
ASSUME CountAssumption == MaxCount \in Nat

VARIABLES
  count,   \* observations so far
  initial, \* the first five of them
  q, n, np,  \* the markers, once there are five
  lowest, highest \* ghosts: the extremes of the observations so far

vars == <<count, initial, q, n, np, lowest, highest>>
Marker == 1 .. 5
Inner  == 2 .. 4
Unit   == 2 * PDen \* one position, in the unit of np

NoMarkers == [i \in Marker |-> 0]

-----------------------------------------------------------------------------
(* The markers as the fifth observation leaves them.                       *)

\* sort.Float64s: a permutation of s in ascending order.
Orders ==
  {p \in [Marker -> Marker] : \A j \in Marker : \E i \in Marker : p[i] = j}
Sorts(t, s) ==
  /\ \A i \in 1 .. 4 : t[i] <= t[i + 1]
  /\ \E p \in Orders : t = [i \in Marker |-> s[p[i]]]

FirstPositions == [i \in Marker |-> i]
FirstDesired ==
  <<Unit, Unit + 4 * PNum, Unit + 8 * PNum, 3 * Unit + 4 * PNum, 5 * Unit>>
Increment == <<0, PNum, 2 * PNum, PDen + PNum, 2 * PDen>>

-----------------------------------------------------------------------------
(* One later observation.                                                  *)

\* The last marker that keeps its position: the one below x.
Cell(x) ==
  IF x < q[2] THEN 1 ELSE IF x < q[3] THEN 2 ELSE IF x < q[4] THEN 3 ELSE 4

Extremes(x) ==
  [q EXCEPT ![1] = IF x < @ THEN x ELSE @, ![5] = IF x > @ THEN x ELSE @]

Counted_FromCell(x) == [i \in Marker |-> IF i >= Cell(x) THEN n[i] + 1 ELSE n[i]]
Counted(x) == [i \in Marker |-> IF i > Cell(x) THEN n[i] + 1 ELSE n[i]]
Desired == [i \in Marker |-> np[i] + Increment[i]]

\* Whether marker i of m is to move one position up or down.
MovesUp(m, i) ==
  m.np[i] - Unit * m.n[i] >= Unit /\ m.n[i + 1] - m.n[i] > 1
MovesDown(m, i) ==
  m.np[i] - Unit * m.n[i] <= -Unit /\ m.n[i - 1] - m.n[i] < -1

Parabolic(m, i, d) ==
  LET before == m.n[i] - m.n[i - 1]
      after  == m.n[i + 1] - m.n[i]
      rise   == (before + d) * (m.q[i + 1] - m.q[i]) * before
      fall   == (after - d) * (m.q[i] - m.q[i - 1]) * after
  IN  m.q[i] + (d * (rise + fall)) \div ((before + after) * after * before)

\* The step towards the neighbour in the direction of d.
Linear(m, i, d) ==
  IF d = 1 THEN m.q[i] + (m.q[i + 1] - m.q[i]) \div (m.n[i + 1] - m.n[i])
           ELSE m.q[i] - (m.q[i] - m.q[i - 1]) \div (m.n[i] - m.n[i - 1])

Height_Unchecked(m, i, d) == Parabolic(m, i, d)
Height(m, i, d) ==
  LET p == Parabolic(m, i, d)
  IN  IF m.q[i - 1] < p /\ p < m.q[i + 1] THEN p ELSE Linear(m, i, d)

Moved(m, i, d) ==
  [q |-> [m.q EXCEPT ![i] = Height(m, i, d)],
   n |-> [m.n EXCEPT ![i] = m.n[i] + d],
   np |-> m.np]

Adjusted(m, i) ==
  IF MovesUp(m, i) THEN Moved(m, i, 1)
  ELSE IF MovesDown(m, i) THEN Moved(m, i, -1)
  ELSE m

Observed(x) ==
  LET m == [q |-> Extremes(x), n |-> Counted(x), np |-> Desired]
  IN  Adjusted(Adjusted(Adjusted(m, 2), 3), 4)

-----------------------------------------------------------------------------
Init ==
  /\ count = 0 /\ initial = <<>>
  /\ q = NoMarkers /\ n = NoMarkers /\ np = NoMarkers
  /\ lowest = 0 /\ highest = 0

\* The ghosts: what the estimate must lie between.
Extend(x) ==
  /\ lowest'  = IF count = 0 \/ x < lowest  THEN x ELSE lowest
  /\ highest' = IF count = 0 \/ x > highest THEN x ELSE highest

AddInitial(x) ==
  /\ count < 4
  /\ count' = count + 1
  /\ initial' = Append(initial, x)
  /\ Extend(x)
  /\ UNCHANGED <<q, n, np>>

AddFifth(x) ==
  /\ count = 4
  /\ count' = 5
  /\ \E t \in [Marker -> Values] :
       /\ Sorts(t, Append(initial, x))
       /\ initial' = t /\ q' = t
  /\ n' = FirstPositions
  /\ np' = FirstDesired
  /\ Extend(x)

AddLater(x) ==
  /\ count >= 5 /\ count < MaxCount
  /\ count' = count + 1
  /\ q' = Observed(x).q /\ n' = Observed(x).n /\ np' = Observed(x).np
  /\ Extend(x)
  /\ UNCHANGED initial

Next == \E x \in Values : AddInitial(x) \/ AddFifth(x) \/ AddLater(x)

Spec == Init /\ [][Next]_vars

-----------------------------------------------------------------------------
(* The estimate, times PDen: interpolated between the sorted observations  *)
(* while there are at most five of them, then the middle marker.           *)

Nth(k) ==
  CHOOSE v \in {initial[i] : i \in 1 .. count} :
    /\ Cardinality({i \in 1 .. count : initial[i] < v}) < k
    /\ Cardinality({i \in 1 .. count : initial[i] <= v}) >= k

Value ==
  LET pos  == PNum * (count - 1)
      low  == pos \div PDen
      frac == pos % PDen
  IN  IF count > 5 THEN PDen * q[3]
      ELSE IF frac = 0 THEN PDen * Nth(low + 1)
      ELSE (PDen - frac) * Nth(low + 1) + frac * Nth(low + 2)

-----------------------------------------------------------------------------
\* The markers are where the formulas may use them: no two share a position,
\* so that no adjustment divides by zero, the heights are in the order of the
\* positions, and the outer two are the extremes of the whole stream.
MarkersOrdered ==
  count >= 5 =>
    /\ n[1] = 1 /\ n[5] = count
    /\ \A i \in 1 .. 4 : n[i] < n[i + 1] /\ q[i] <= q[i + 1]
    /\ q[1] = lowest /\ q[5] = highest

\* The estimate is a value the stream could have: never below the least nor
\* above the greatest observation, whatever the adjustments extrapolate.
EstimateInRange ==
  count > 0 => PDen * lowest <= Value /\ Value <= PDen * highest

\* The markers keep up with the stream: no marker is three positions or more
\* from where its quantile is, however unbalanced the stream
\* (docs/PERFORMANCE.md:108 promises a P2 estimate from the sixth on).
MarkersKeepUp ==
  count >= 5 =>
    \A i \in Inner : LET lag == np[i] - Unit * n[i]
                     IN  -3 * Unit < lag /\ lag < 3 * Unit

\* The estimate stays in the stream's range and follows its quantile.
EstimateFollows == EstimateInRange /\ MarkersKeepUp
=============================================================================
