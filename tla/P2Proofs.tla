------------------------------- MODULE P2Proofs -------------------------------
(***************************************************************************)
(* The markers of a streaming quantile stay ordered, for every quantile    *)
(* and every stream of whatever length: no adjustment divides by zero, and *)
(* the estimate never leaves the range of the stream.                      *)
(***************************************************************************)
EXTENDS P2, FiniteSetTheorems, WellFoundedInduction, TLAPS

\* What a record of markers must satisfy for an adjustment to be defined and
\* to leave it so.
MarkersType == [q : [Marker -> Int], n : [Marker -> Int], np : [Marker -> Int]]
Ordered(m) ==
  /\ m \in MarkersType
  /\ \A i \in 1 .. 4 : m.n[i] < m.n[i + 1] /\ m.q[i] <= m.q[i + 1]
SameEnds(m, l) ==
  /\ m.n[1] = l.n[1] /\ m.n[5] = l.n[5]
  /\ m.q[1] = l.q[1] /\ m.q[5] = l.q[5]

\* The markers are ordered and between the extremes of the stream; while they
\* do not exist yet, the first observations are, and reach both.
Extremal ==
  /\ \A i \in 1 .. count : lowest <= initial[i] /\ initial[i] <= highest
  /\ count > 0 => /\ \E i \in 1 .. count : initial[i] = lowest
                  /\ \E i \in 1 .. count : initial[i] = highest
IInv ==
  /\ count \in Nat
  /\ lowest \in Int /\ highest \in Int
  /\ count < 5 => initial \in Seq(Int) /\ Len(initial) = count /\ Extremal
  /\ count = 5 => initial = q
  /\ q \in [Marker -> Int] /\ n \in [Marker -> Int] /\ np \in [Marker -> Int]
  /\ MarkersOrdered

-----------------------------------------------------------------------------
\* A fraction of a distance is no longer than the distance.
LEMMA Fraction ==
  ASSUME NEW x \in Nat, NEW k \in Nat \ {0}
  PROVE  x \div k \in Nat /\ x \div k <= x
<1>1. x \div k \in Int /\ x = (k * (x \div k)) + (x % k) /\ x % k \in 0 .. k - 1
  OBVIOUS
<1> DEFINE d == x \div k
<1>2. d >= 0
  <2>1. SUFFICES ASSUME d <= -1 PROVE FALSE
    BY <1>1
  <2>2. k * d <= -k
    BY <1>1, <2>1
  <2> QED BY <1>1, <2>2
<1>3. d <= k * d
  BY <1>1, <1>2
<1> QED BY <1>1, <1>2, <1>3

\* The step towards a neighbour stays between the marker and the neighbour.
LEMMA LinearBetween ==
  ASSUME NEW m, Ordered(m), NEW i \in Inner, NEW d \in {1, -1}
  PROVE  /\ Linear(m, i, d) \in Int
         /\ m.q[i - 1] <= Linear(m, i, d) /\ Linear(m, i, d) <= m.q[i + 1]
<1> USE DEF Ordered, MarkersType, Marker, Inner
<1>1. /\ m.q[i - 1] \in Int /\ m.q[i] \in Int /\ m.q[i + 1] \in Int
      /\ m.n[i - 1] \in Int /\ m.n[i] \in Int /\ m.n[i + 1] \in Int
  OBVIOUS
<1>2. m.n[i] < m.n[i + 1] /\ m.q[i] <= m.q[i + 1]
  OBVIOUS
<1>3. m.n[i - 1] < m.n[i] /\ m.q[i - 1] <= m.q[i]
  <2>1. i - 1 \in 1 .. 4 /\ (i - 1) + 1 = i
    OBVIOUS
  <2> QED BY <2>1
<1>4. CASE d = 1
  <2> DEFINE x == m.q[i + 1] - m.q[i]
             k == m.n[i + 1] - m.n[i]
  <2>1. x \in Nat /\ k \in Nat \ {0}
    BY <1>1, <1>2
  <2>2. x \div k \in Nat /\ x \div k <= x
    BY <2>1, Fraction
  <2>3. Linear(m, i, d) = m.q[i] + x \div k
    BY <1>4 DEF Linear
  <2> QED BY <1>1, <1>3, <2>2, <2>3
<1>5. CASE d = -1
  <2> DEFINE x == m.q[i] - m.q[i - 1]
             k == m.n[i] - m.n[i - 1]
  <2>1. x \in Nat /\ k \in Nat \ {0}
    BY <1>1, <1>3
  <2>2. x \div k \in Nat /\ x \div k <= x
    BY <2>1, Fraction
  <2>3. Linear(m, i, d) = m.q[i] - x \div k
    BY <1>5 DEF Linear
  <2> QED BY <1>1, <1>2, <2>2, <2>3
<1> QED BY <1>4, <1>5

\* Moving a marker keeps the five ordered, and the outer two as they are.
LEMMA MovedOrdered ==
  ASSUME NEW m, Ordered(m), NEW i \in Inner, NEW d \in {1, -1},
         d = 1 => m.n[i + 1] - m.n[i] > 1,
         d = -1 => m.n[i - 1] - m.n[i] < -1
  PROVE  Ordered(Moved(m, i, d)) /\ SameEnds(Moved(m, i, d), m)
<1> DEFINE h == Height(m, i, d)
<1>1. h \in Int /\ m.q[i - 1] <= h /\ h <= m.q[i + 1]
  <2>1. Parabolic(m, i, d) \in Int
    <3> DEFINE before == m.n[i] - m.n[i - 1]
               after == m.n[i + 1] - m.n[i]
    <3>0. i - 1 \in 1 .. 4 /\ (i - 1) + 1 = i
      BY DEF Inner
    <3>1. before \in Nat \ {0} /\ after \in Nat \ {0}
      BY <3>0 DEF Ordered, MarkersType, Marker, Inner
    <3>2. (before + after) * after * before \in Nat \ {0}
      <4>1. after * before \in Nat \ {0} /\ before + after \in Nat \ {0}
        BY <3>1
      <4>2. \A a, b \in Nat \ {0} : a * b \in Nat \ {0}
        OBVIOUS
      <4>3. (before + after) * after \in Nat \ {0}
        BY <3>1, <4>1, <4>2
      <4> QED BY <3>1, <4>2, <4>3
    <3>3. m.q[i - 1] \in Int /\ m.q[i] \in Int /\ m.q[i + 1] \in Int
      BY <3>0 DEF Ordered, MarkersType, Marker, Inner
    <3> DEFINE rise == (before + d) * (m.q[i + 1] - m.q[i]) * before
               fall == (after - d) * (m.q[i] - m.q[i - 1]) * after
    <3>4. rise \in Int /\ fall \in Int
      BY <3>1, <3>3
    <3>5. d * (rise + fall) \in Int
      <4> HIDE DEF rise, fall
      <4> QED BY <3>4
    <3> DEFINE top == d * (rise + fall)
               bottom == (before + after) * after * before
    <3>6. top \div bottom \in Int
      <4>1. top \in Int /\ bottom \in Nat \ {0}
        BY <3>2, <3>5
      <4> HIDE DEF top, bottom
      <4> QED BY <4>1
    <3>7. Parabolic(m, i, d) = m.q[i] + top \div bottom
      BY DEF Parabolic
    <3> HIDE DEF top, bottom
    <3> QED BY <3>3, <3>6, <3>7
  <2>2. /\ Linear(m, i, d) \in Int
        /\ m.q[i - 1] <= Linear(m, i, d) /\ Linear(m, i, d) <= m.q[i + 1]
    BY LinearBetween
  <2>3. m.q[i - 1] \in Int /\ m.q[i + 1] \in Int
    BY DEF Ordered, MarkersType, Marker, Inner
  <2> QED BY <2>1, <2>2, <2>3 DEF Height
<1> DEFINE r == Moved(m, i, d)
<1>2. /\ r.q = [m.q EXCEPT ![i] = h]
      /\ r.n = [m.n EXCEPT ![i] = m.n[i] + d]
      /\ r.np = m.np
      /\ r \in MarkersType
  BY <1>1 DEF Moved, Ordered, MarkersType, Marker, Inner
<1> HIDE DEF h, r
<1>3. SameEnds(r, m)
  BY <1>2 DEF SameEnds, Ordered, MarkersType, Marker, Inner
<1>4. ASSUME NEW j \in 1 .. 4
      PROVE  r.n[j] < r.n[j + 1] /\ r.q[j] <= r.q[j + 1]
  <2>1. /\ m.n[j] \in Int /\ m.n[j + 1] \in Int /\ m.n[j] < m.n[j + 1]
        /\ m.q[j] <= m.q[j + 1]
    BY DEF Ordered, MarkersType, Marker
  <2>2. CASE j = i
    BY <1>1, <1>2, <2>1, <2>2 DEF Ordered, MarkersType, Marker, Inner
  <2>3. CASE j + 1 = i
    BY <1>1, <1>2, <2>1, <2>3 DEF Ordered, MarkersType, Marker, Inner
  <2>4. CASE j # i /\ j + 1 # i
    BY <1>2, <2>1, <2>4 DEF Ordered, MarkersType, Marker, Inner
  <2> QED BY <2>2, <2>3, <2>4
<1> QED BY <1>2, <1>3, <1>4 DEF Ordered, r

LEMMA AdjustedOrdered ==
  ASSUME NEW m, Ordered(m), NEW i \in Inner
  PROVE  Ordered(Adjusted(m, i)) /\ SameEnds(Adjusted(m, i), m)
<1>1. CASE MovesUp(m, i)
  BY <1>1, MovedOrdered DEF Adjusted, MovesUp
<1>2. CASE ~MovesUp(m, i) /\ MovesDown(m, i)
  BY <1>2, MovedOrdered DEF Adjusted, MovesDown
<1>3. CASE ~MovesUp(m, i) /\ ~MovesDown(m, i)
  BY <1>3 DEF Adjusted, SameEnds
<1> QED BY <1>1, <1>2, <1>3

-----------------------------------------------------------------------------
\* Counting an observation leaves the markers ordered; the outer heights reach
\* the new observation and only it.
LEMMA CountedOrdered ==
  ASSUME IInv, count >= 5, NEW x \in Int
  PROVE  LET m == [q |-> Extremes(x), n |-> Counted(x), np |-> Desired]
         IN  /\ Ordered(m)
             /\ m.n[1] = 1 /\ m.n[5] = count + 1
             /\ m.q[1] = IF x < lowest THEN x ELSE lowest
             /\ m.q[5] = IF x > highest THEN x ELSE highest
<1> DEFINE m == [q |-> Extremes(x), n |-> Counted(x), np |-> Desired]
<1>1. /\ q \in [Marker -> Int] /\ n \in [Marker -> Int] /\ np \in [Marker -> Int]
      /\ n[1] = 1 /\ n[5] = count /\ q[1] = lowest /\ q[5] = highest
      /\ \A i \in 1 .. 4 : n[i] < n[i + 1] /\ q[i] <= q[i + 1]
  BY DEF IInv, MarkersOrdered
<1>2. Cell(x) \in 1 .. 4
  BY DEF Cell
<1>3. m \in MarkersType
  <2>1. Extremes(x) \in [Marker -> Int]
    BY <1>1 DEF Extremes, Marker
  <2>2. Counted(x) \in [Marker -> Int]
    BY <1>1, <1>2 DEF Counted, Marker
  <2>3. Increment \in [Marker -> Int]
    BY QuantileAssumption DEF Increment, Marker
  <2>4. Desired \in [Marker -> Int]
    BY <1>1, <2>3 DEF Desired, Marker
  <2> QED BY <2>1, <2>2, <2>4 DEF MarkersType
<1>4. ASSUME NEW i \in 1 .. 4
      PROVE  m.n[i] < m.n[i + 1] /\ m.q[i] <= m.q[i + 1]
  <2>1. n[i] \in Int /\ n[i + 1] \in Int /\ n[i] < n[i + 1]
    BY <1>1 DEF Marker
  <2>2. m.n[i] < m.n[i + 1]
    BY <1>2, <2>1 DEF Counted, Marker
  <2>3. m.q[i] <= m.q[i + 1]
    BY <1>1 DEF Extremes, Marker
  <2> QED BY <2>2, <2>3
<1>5. Ordered(m)
  BY <1>3, <1>4 DEF Ordered
<1>6. /\ m.n[1] = 1 /\ m.n[5] = count + 1
      /\ m.q[1] = IF x < lowest THEN x ELSE lowest
      /\ m.q[5] = IF x > highest THEN x ELSE highest
  BY <1>1, <1>2 DEF Counted, Extremes, Marker
<1> QED BY <1>5, <1>6

LEMMA ObservedOrdered ==
  ASSUME IInv, count >= 5, NEW x \in Int
  PROVE  /\ Ordered(Observed(x))
         /\ Observed(x).n[1] = 1 /\ Observed(x).n[5] = count + 1
         /\ Observed(x).q[1] = IF x < lowest THEN x ELSE lowest
         /\ Observed(x).q[5] = IF x > highest THEN x ELSE highest
<1> DEFINE m == [q |-> Extremes(x), n |-> Counted(x), np |-> Desired]
<1>1. /\ Ordered(m)
      /\ m.n[1] = 1 /\ m.n[5] = count + 1
      /\ m.q[1] = IF x < lowest THEN x ELSE lowest
      /\ m.q[5] = IF x > highest THEN x ELSE highest
  BY CountedOrdered
<1> HIDE DEF m
<1> DEFINE m2 == Adjusted(m, 2)
           m3 == Adjusted(m2, 3)
           m4 == Adjusted(m3, 4)
<1>2. Ordered(m2) /\ SameEnds(m2, m)
  BY <1>1, AdjustedOrdered DEF Inner
<1> HIDE DEF m2
<1>3. Ordered(m3) /\ SameEnds(m3, m2)
  BY <1>2, AdjustedOrdered DEF Inner
<1> HIDE DEF m3
<1>4. Ordered(m4) /\ SameEnds(m4, m3)
  BY <1>3, AdjustedOrdered DEF Inner
<1>5. Observed(x) = m4
  BY DEF Observed, m, m2, m3
<1> HIDE DEF m4
<1> QED BY <1>1, <1>2, <1>3, <1>4, <1>5 DEF SameEnds

-----------------------------------------------------------------------------
LEMMA InitIInv == Init => IInv
BY DEF Init, IInv, Extremal, MarkersOrdered, NoMarkers, Marker

\* The extremes of the stream after one more observation.
LEMMA ExtendedExtremal ==
  ASSUME IInv, count < 5, NEW x \in Int, Extend(x),
         NEW s, \A i \in 1 .. count + 1 : s[i] \in Int,
         \A i \in 1 .. count : s[i] = initial[i], s[count + 1] = x
  PROVE  /\ lowest' \in Int /\ highest' \in Int
         /\ \A i \in 1 .. count + 1 : lowest' <= s[i] /\ s[i] <= highest'
         /\ \E i \in 1 .. count + 1 : s[i] = lowest'
         /\ \E i \in 1 .. count + 1 : s[i] = highest'
<1>1. /\ count \in Nat /\ lowest \in Int /\ highest \in Int
      /\ initial \in Seq(Int) /\ Len(initial) = count /\ Extremal
  BY DEF IInv
<1>2. lowest' \in Int /\ highest' \in Int
  BY <1>1 DEF Extend
<1>3. CASE count = 0
  BY <1>1, <1>2, <1>3 DEF Extend
<1>4. CASE count > 0
  <2>1. ASSUME NEW i \in 1 .. count + 1
        PROVE  lowest' <= s[i] /\ s[i] <= highest'
    <3>1. CASE i = count + 1
      BY <1>1, <1>2, <3>1 DEF Extend
    <3>2. CASE i \in 1 .. count
      BY <1>1, <1>2, <3>2 DEF Extend, Extremal
    <3> QED BY <1>1, <3>1, <3>2
  <2>2. \E i \in 1 .. count + 1 : s[i] = lowest'
    <3>1. PICK j \in 1 .. count : initial[j] = lowest
      BY <1>1, <1>4 DEF Extremal
    <3>2. s[count + 1] = lowest' \/ s[j] = lowest'
      BY <1>1, <1>4, <3>1 DEF Extend
    <3> QED BY <1>1, <3>1, <3>2
  <2>3. \E i \in 1 .. count + 1 : s[i] = highest'
    <3>1. PICK j \in 1 .. count : initial[j] = highest
      BY <1>1, <1>4 DEF Extremal
    <3>2. s[count + 1] = highest' \/ s[j] = highest'
      BY <1>1, <1>4, <3>1 DEF Extend
    <3> QED BY <1>1, <3>1, <3>2
  <2> QED BY <1>2, <2>1, <2>2, <2>3
<1> QED BY <1>1, <1>3, <1>4

LEMMA Appended ==
  ASSUME NEW s \in Seq(Int), NEW k \in Nat, Len(s) = k, NEW x \in Int
  PROVE  LET t == Append(s, x)
         IN  /\ t \in Seq(Int) /\ Len(t) = k + 1
             /\ \A i \in 1 .. k : t[i] = s[i]
             /\ t[k + 1] = x
             /\ \A i \in 1 .. k + 1 : t[i] \in Int
OBVIOUS

LEMMA InitialStep ==
  ASSUME IInv, NEW x \in Values, AddInitial(x)
  PROVE  IInv'
<1>1. x \in Int
  BY ValuesAssumption
<1>2. /\ count \in Nat /\ count < 4 /\ count' = count + 1
      /\ initial \in Seq(Int) /\ Len(initial) = count /\ initial' = Append(initial, x)
      /\ Extend(x)
  BY DEF IInv, AddInitial
<1> DEFINE s == Append(initial, x)
<1>3. /\ s \in Seq(Int) /\ Len(s) = count + 1
      /\ \A i \in 1 .. count : s[i] = initial[i]
      /\ s[count + 1] = x
      /\ \A i \in 1 .. count + 1 : s[i] \in Int
  BY <1>1, <1>2, Appended
<1> HIDE DEF s
<1>4. /\ lowest' \in Int /\ highest' \in Int
      /\ \A i \in 1 .. count + 1 : lowest' <= s[i] /\ s[i] <= highest'
      /\ \E i \in 1 .. count + 1 : s[i] = lowest'
      /\ \E i \in 1 .. count + 1 : s[i] = highest'
  BY <1>1, <1>2, <1>3, ExtendedExtremal
<1>5. Extremal'
  BY <1>2, <1>4 DEF Extremal, s
<1>6. q' = q /\ n' = n /\ np' = np
  BY DEF AddInitial
<1>7. MarkersOrdered'
  BY <1>2 DEF MarkersOrdered
<1> QED BY <1>2, <1>3, <1>4, <1>5, <1>6, <1>7 DEF IInv, s

LEMMA FifthStep ==
  ASSUME IInv, NEW x \in Values, AddFifth(x)
  PROVE  IInv'
<1>1. x \in Int
  BY ValuesAssumption
<1>2. /\ count = 4 /\ count' = 5 /\ Extend(x)
      /\ n' = FirstPositions /\ np' = FirstDesired
      /\ initial \in Seq(Int) /\ Len(initial) = 4
  BY DEF IInv, AddFifth
<1> DEFINE s == Append(initial, x)
<1>3. /\ \A i \in 1 .. 5 : s[i] \in Int
      /\ s[5] = x
      /\ \A i \in 1 .. 4 : s[i] = initial[i]
  <2>1. 4 \in Nat
    OBVIOUS
  <2>2. /\ \A i \in 1 .. 4 + 1 : s[i] \in Int
        /\ s[4 + 1] = x
        /\ \A i \in 1 .. 4 : s[i] = initial[i]
    BY <1>1, <1>2, <2>1, Appended
  <2> HIDE DEF s
  <2> QED BY <2>2
<1> HIDE DEF s
<1>4. /\ lowest' \in Int /\ highest' \in Int
      /\ \A i \in 1 .. 5 : lowest' <= s[i] /\ s[i] <= highest'
      /\ \E i \in 1 .. 5 : s[i] = lowest'
      /\ \E i \in 1 .. 5 : s[i] = highest'
  BY <1>1, <1>2, <1>3, ExtendedExtremal
<1>5. PICK t \in [Marker -> Values] : Sorts(t, s) /\ q' = t /\ initial' = t
  BY DEF AddFifth, s
<1>6. q' \in [Marker -> Int] /\ \A i \in 1 .. 4 : q'[i] <= q'[i + 1]
  BY <1>5, ValuesAssumption DEF Sorts
<1>7. PICK p \in [Marker -> Marker] :
        /\ \A w \in Marker : \E v \in Marker : p[v] = w
        /\ q' = [i \in Marker |-> s[p[i]]]
  BY <1>5 DEF Sorts, Orders
<1>8. \A i \in Marker : q'[1] <= q'[i] /\ q'[i] <= q'[5]
  BY <1>6 DEF Marker
<1>9. \A i \in Marker : lowest' <= q'[i] /\ q'[i] <= highest'
  BY <1>4, <1>7 DEF Marker
<1>10. q'[1] = lowest'
  <2>1. PICK j \in Marker : s[j] = lowest'
    BY <1>4 DEF Marker
  <2>2. PICK v \in Marker : p[v] = j
    BY <1>7
  <2>3. q'[v] = lowest'
    BY <1>7, <2>1, <2>2
  <2> QED BY <1>4, <1>6, <1>8, <1>9, <2>3 DEF Marker
<1>11. q'[5] = highest'
  <2>1. PICK j \in Marker : s[j] = highest'
    BY <1>4 DEF Marker
  <2>2. PICK v \in Marker : p[v] = j
    BY <1>7
  <2>3. q'[v] = highest'
    BY <1>7, <2>1, <2>2
  <2> QED BY <1>4, <1>6, <1>8, <1>9, <2>3 DEF Marker
<1>12. n' \in [Marker -> Int] /\ np' \in [Marker -> Int]
  BY <1>2, QuantileAssumption DEF FirstPositions, FirstDesired, Unit, Marker
<1>13. MarkersOrdered'
  BY <1>2, <1>6, <1>10, <1>11 DEF MarkersOrdered, FirstPositions, Marker
<1>14. count' \in Nat /\ ~(count' < 5)
  BY <1>2
<1> QED BY <1>2, <1>4, <1>5, <1>6, <1>12, <1>13, <1>14 DEF IInv

LEMMA LaterStep ==
  ASSUME IInv, NEW x \in Values, AddLater(x)
  PROVE  IInv'
<1>1. x \in Int
  BY ValuesAssumption
<1>2. /\ count \in Nat /\ count >= 5 /\ count' = count + 1
      /\ lowest \in Int /\ highest \in Int
  BY DEF IInv, AddLater
<1>3. /\ lowest' = (IF x < lowest THEN x ELSE lowest)
      /\ highest' = (IF x > highest THEN x ELSE highest)
  BY <1>2 DEF AddLater, Extend
<1> DEFINE m == Observed(x)
<1>4. /\ Ordered(m) /\ m.n[1] = 1 /\ m.n[5] = count + 1
      /\ m.q[1] = lowest' /\ m.q[5] = highest'
  BY <1>1, <1>2, <1>3, ObservedOrdered
<1>5. q' = m.q /\ n' = m.n /\ np' = m.np
  BY DEF AddLater
<1> HIDE DEF m
<1>6. MarkersOrdered'
  BY <1>2, <1>4, <1>5 DEF MarkersOrdered, Ordered
<1>7. q' \in [Marker -> Int] /\ n' \in [Marker -> Int] /\ np' \in [Marker -> Int]
  BY <1>4, <1>5 DEF Ordered, MarkersType
<1> QED BY <1>1, <1>2, <1>3, <1>6, <1>7 DEF IInv

LEMMA NextIInv == IInv /\ [Next]_vars => IInv'
<1>1. SUFFICES ASSUME IInv, [Next]_vars PROVE IInv'
  OBVIOUS
<1>2. ASSUME NEW x \in Values, AddInitial(x) PROVE IInv'
  BY <1>1, <1>2, InitialStep
<1>3. ASSUME NEW x \in Values, AddFifth(x) PROVE IInv'
  BY <1>1, <1>3, FifthStep
<1>4. ASSUME NEW x \in Values, AddLater(x) PROVE IInv'
  BY <1>1, <1>4, LaterStep
<1>5. CASE UNCHANGED vars
  BY <1>1, <1>5 DEF vars, IInv, Extremal, MarkersOrdered
<1> QED BY <1>1, <1>2, <1>3, <1>4, <1>5 DEF Next

LEMMA InductiveInvariant == Spec => []IInv
BY InitIInv, NextIInv, PTL DEF Spec

\* The markers are ordered at strictly increasing positions and the outer two
\* are the extremes of the stream: quantile.go divides by the distance of
\* neighbouring positions only.
THEOREM MarkersStayOrdered == Spec => []MarkersOrdered
<1>1. IInv => MarkersOrdered
  BY DEF IInv
<1> QED BY <1>1, InductiveInvariant, PTL

-----------------------------------------------------------------------------
(* How far a marker is from where its quantile is.                         *)

Lag(m, i) == m.np[i] - Unit * m.n[i]

\* The desired positions move apart, the outer markers are where they should
\* be, and an inner one is held back by its neighbour only.  The bounds differ
\* because an observation adjusts the markers from the left to the right: a
\* marker finds its left neighbour adjusted and its right one not.
KeepsUp(m) ==
  /\ m \in MarkersType
  /\ Lag(m, 1) = 0 /\ Lag(m, 5) = 0
  /\ m.np[2] - m.np[1] >= 4 * PNum
  /\ m.np[3] - m.np[2] >= 4 * PNum
  /\ m.np[4] - m.np[3] >= 4 * (PDen - PNum)
  /\ m.np[5] - m.np[4] >= 4 * (PDen - PNum)
  /\ -Unit <= Lag(m, 2) /\ Lag(m, 2) < 3 * Unit
  /\ -2 * Unit <= Lag(m, 3) /\ (Lag(m, 3) <= Unit \/ Lag(m, 3) <= 6 * PNum)
  /\ -3 * Unit < Lag(m, 4) /\ Lag(m, 4) <= Unit

Markers == [q |-> q, n |-> n, np |-> np]

LEMMA UnitIsPositive == PNum \in Nat /\ PDen \in Nat /\ Unit \in Nat /\ Unit = 2 * PDen
                        /\ PNum > 0 /\ PNum < PDen
BY QuantileAssumption DEF Unit

LEMMA LagIsInteger ==
  ASSUME NEW m, m \in MarkersType, NEW i \in Marker
  PROVE  Lag(m, i) \in Int
<1>1. m.np[i] \in Int /\ m.n[i] \in Int
  BY DEF MarkersType
<1> QED  BY <1>1, UnitIsPositive DEF Lag

\* One position is one unit.
LEMMA NextPosition ==
  ASSUME NEW a \in Int
  PROVE  Unit * (a + 1) = Unit * a + Unit /\ Unit * (a - 1) = Unit * a - Unit
<1>1. \A u, b \in Int : u * (b + 1) = u * b + u /\ u * (b - 1) = u * b - u
  OBVIOUS
<1> QED  BY <1>1, UnitIsPositive

\* What the adjustment of a marker does to its lag.
LEMMA AdjustedLag ==
  ASSUME NEW m, Ordered(m), NEW i \in Inner
  PROVE  LET r == Adjusted(m, i)
         IN  /\ r.np = m.np
             /\ \A j \in Marker : j # i => Lag(r, j) = Lag(m, j)
             /\ \/ Lag(m, i) >= Unit /\ Lag(r, i) = Lag(m, i) - Unit
                \/ Lag(m, i) <= -Unit /\ Lag(r, i) = Lag(m, i) + Unit
                \/ /\ Lag(r, i) = Lag(m, i)
                   /\ \/ Lag(m, i) < Unit
                      \/ Lag(m, i) = m.np[i] - m.np[i + 1] + Lag(m, i + 1) + Unit
                   /\ \/ Lag(m, i) > -Unit
                      \/ Lag(m, i) = m.np[i] - m.np[i - 1] + Lag(m, i - 1) - Unit
<1>1. /\ m \in MarkersType /\ i \in Marker /\ i - 1 \in 1 .. 4 /\ i \in 1 .. 4
      /\ i - 1 \in Marker /\ i + 1 \in Marker /\ (i - 1) + 1 = i
  BY DEF Ordered, Inner, Marker
<1>2. /\ m.n \in [Marker -> Int] /\ m.np \in [Marker -> Int]
      /\ m.n[i] \in Int /\ m.n[i + 1] \in Int /\ m.n[i - 1] \in Int
      /\ m.np[i] \in Int /\ m.np[i + 1] \in Int /\ m.np[i - 1] \in Int
      /\ m.n[i] < m.n[i + 1] /\ m.n[i - 1] < m.n[i]
  BY <1>1 DEF Ordered, MarkersType
<1>3. /\ Unit * (m.n[i] + 1) = Unit * m.n[i] + Unit
      /\ Unit * (m.n[i] - 1) = Unit * m.n[i] - Unit
  BY <1>2, NextPosition
<1>4. /\ Unit \in Int /\ Unit * m.n[i] \in Int
      /\ Lag(m, i) \in Int /\ Lag(m, i + 1) \in Int /\ Lag(m, i - 1) \in Int
  BY <1>1, <1>2, UnitIsPositive, LagIsInteger
<1>5. ASSUME NEW d \in {1, -1}
      PROVE  /\ Moved(m, i, d).np = m.np
             /\ Moved(m, i, d).n[i] = m.n[i] + d
             /\ \A j \in Marker : j # i => Moved(m, i, d).n[j] = m.n[j]
  BY <1>1, <1>2 DEF Moved
<1>6. CASE MovesUp(m, i)
  <2>1. Adjusted(m, i) = Moved(m, i, 1)
    BY <1>6 DEF Adjusted
  <2>2. Lag(m, i) >= Unit
    BY <1>6 DEF MovesUp, Lag
  <2>3. Lag(Moved(m, i, 1), i) = Lag(m, i) - Unit
    BY <1>2, <1>3, <1>4, <1>5 DEF Lag
  <2>4. \A j \in Marker : j # i => Lag(Moved(m, i, 1), j) = Lag(m, j)
    BY <1>5 DEF Lag
  <2> QED  BY <1>5, <2>1, <2>2, <2>3, <2>4
<1>7. CASE ~MovesUp(m, i) /\ MovesDown(m, i)
  <2>1. Adjusted(m, i) = Moved(m, i, -1)
    BY <1>7 DEF Adjusted
  <2>2. Lag(m, i) <= -Unit
    BY <1>7 DEF MovesDown, Lag
  <2>3. Lag(Moved(m, i, -1), i) = Lag(m, i) + Unit
    <3>1. Moved(m, i, -1).n[i] = m.n[i] - 1 /\ Moved(m, i, -1).np = m.np
      BY <1>2, <1>5
    <3> QED  BY <1>2, <1>3, <1>4, <3>1 DEF Lag
  <2>4. \A j \in Marker : j # i => Lag(Moved(m, i, -1), j) = Lag(m, j)
    BY <1>5 DEF Lag
  <2> QED  BY <1>5, <2>1, <2>2, <2>3, <2>4
<1>8. CASE ~MovesUp(m, i) /\ ~MovesDown(m, i)
  <2>1. Adjusted(m, i) = m
    BY <1>8 DEF Adjusted
  <2>2. ASSUME Lag(m, i) >= Unit
        PROVE  Lag(m, i) = m.np[i] - m.np[i + 1] + Lag(m, i + 1) + Unit
    <3>1. m.n[i + 1] = m.n[i] + 1
      BY <1>2, <1>8, <2>2 DEF MovesUp, Lag
    <3> QED  BY <1>2, <1>3, <1>4, <3>1 DEF Lag
  <2>3. ASSUME Lag(m, i) <= -Unit
        PROVE  Lag(m, i) = m.np[i] - m.np[i - 1] + Lag(m, i - 1) - Unit
    <3>1. m.n[i - 1] = m.n[i] - 1
      BY <1>2, <1>8, <2>3 DEF MovesDown, Lag
    <3> QED  BY <1>2, <1>3, <1>4, <3>1 DEF Lag
  <2> QED  BY <1>4, <2>1, <2>2, <2>3
<1> QED  BY <1>6, <1>7, <1>8

\* Counting an observation: every marker's desired position grows by its
\* increment, and the markers above the observation move one position up.
LEMMA CountedLag ==
  ASSUME IInv, count >= 5, NEW x \in Int, NEW i \in Marker
  PROVE  LET m == [q |-> Extremes(x), n |-> Counted(x), np |-> Desired]
         IN  /\ m.np[i] = np[i] + Increment[i]
             /\ Lag(m, i) = Lag(Markers, i) + Increment[i]
                              - (IF i > Cell(x) THEN Unit ELSE 0)
<1>1. n[i] \in Int /\ np[i] \in Int
  BY DEF IInv
<1>2. Increment[i] \in Int
  BY UnitIsPositive DEF Increment, Marker
<1>3. Unit * (n[i] + 1) = Unit * n[i] + Unit /\ Unit * n[i] \in Int /\ Unit \in Int
  BY <1>1, NextPosition, UnitIsPositive
<1>4. Counted(x)[i] = (IF i > Cell(x) THEN n[i] + 1 ELSE n[i])
  BY DEF Counted
<1>5. Desired[i] = np[i] + Increment[i]
  BY DEF Desired
<1> QED  BY <1>1, <1>2, <1>3, <1>4, <1>5 DEF Lag, Markers

\* The three adjustments of an observation, each after the other.
LEMMA ObservedKeepsUp ==
  ASSUME IInv, count >= 5, KeepsUp(Markers), NEW x \in Int
  PROVE  KeepsUp(Observed(x))
<1> DEFINE m  == [q |-> Extremes(x), n |-> Counted(x), np |-> Desired]
           m2 == Adjusted(m, 2)
           m3 == Adjusted(m2, 3)
           m4 == Adjusted(m3, 4)
           g  == PDen - PNum
<1>1. Ordered(m)
  BY CountedOrdered
<1>2. Cell(x) \in 1 .. 4
  BY DEF Cell
<1>3. /\ Increment[1] = 0 /\ Increment[2] = PNum /\ Increment[3] = 2 * PNum
      /\ Increment[4] = PDen + PNum /\ Increment[5] = 2 * PDen
  BY DEF Increment
<1>4. /\ 1 \in Marker /\ 2 \in Marker /\ 3 \in Marker /\ 4 \in Marker /\ 5 \in Marker
      /\ 2 \in Inner /\ 3 \in Inner /\ 4 \in Inner
  BY DEF Marker, Inner
<1> DEFINE up(i) == IF i > Cell(x) THEN Unit ELSE 0
<1>5. /\ m.np[1] = np[1] /\ Lag(m, 1) = Lag(Markers, 1)
      /\ m.np[2] = np[2] + PNum /\ Lag(m, 2) = Lag(Markers, 2) + PNum - up(2)
      /\ m.np[3] = np[3] + 2 * PNum
      /\ Lag(m, 3) = Lag(Markers, 3) + 2 * PNum - up(3)
      /\ m.np[4] = np[4] + PDen + PNum
      /\ Lag(m, 4) = Lag(Markers, 4) + PDen + PNum - up(4)
      /\ m.np[5] = np[5] + 2 * PDen /\ Lag(m, 5) = Lag(Markers, 5)
  <2>1. \A i \in Marker : np[i] \in Int /\ Lag(Markers, i) \in Int
    BY LagIsInteger DEF KeepsUp, IInv
  <2>2. \A i \in Marker : /\ m.np[i] = np[i] + Increment[i]
                          /\ Lag(m, i) = Lag(Markers, i) + Increment[i] - up(i)
    BY CountedLag
  <2>3. up(1) = 0 /\ up(5) = 2 * PDen
    BY <1>2, UnitIsPositive
  <2>4. up(2) \in Int /\ up(3) \in Int /\ up(4) \in Int
    BY UnitIsPositive
  <2> HIDE DEF m, up
  <2> QED  BY <1>3, <1>4, <2>1, <2>2, <2>3, <2>4, UnitIsPositive
<1>6. /\ \A i \in Marker : Lag(m, i) \in Int /\ m.np[i] \in Int
      /\ \A i \in Marker : Lag(Markers, i) \in Int /\ np[i] \in Int
      /\ \A i \in Marker : up(i) \in {0, Unit}
  <2>1. m \in MarkersType
    BY <1>1 DEF Ordered
  <2>2. \A i \in Marker : Lag(m, i) \in Int
    BY <2>1, LagIsInteger
  <2>3. \A i \in Marker : m.np[i] \in Int
    BY <2>1 DEF MarkersType
  <2>4. \A i \in Marker : Lag(Markers, i) \in Int /\ np[i] \in Int
    BY LagIsInteger DEF KeepsUp, IInv
  <2> QED  BY <2>2, <2>3, <2>4
<1>7. /\ Lag(Markers, 1) = 0 /\ Lag(Markers, 5) = 0
      /\ np[2] - np[1] >= 4 * PNum /\ np[3] - np[2] >= 4 * PNum
      /\ np[4] - np[3] >= 4 * g /\ np[5] - np[4] >= 4 * g
      /\ -Unit <= Lag(Markers, 2) /\ Lag(Markers, 2) < 3 * Unit
      /\ -2 * Unit <= Lag(Markers, 3)
      /\ Lag(Markers, 3) <= Unit \/ Lag(Markers, 3) <= 6 * PNum
      /\ -3 * Unit < Lag(Markers, 4) /\ Lag(Markers, 4) <= Unit
  BY DEF KeepsUp, Markers
<1>8. /\ m2.np = m.np /\ Ordered(m2)
      /\ \A j \in Marker : j # 2 => Lag(m2, j) = Lag(m, j)
      /\ \/ Lag(m, 2) >= Unit /\ Lag(m2, 2) = Lag(m, 2) - Unit
         \/ Lag(m, 2) <= -Unit /\ Lag(m2, 2) = Lag(m, 2) + Unit
         \/ /\ Lag(m2, 2) = Lag(m, 2)
            /\ \/ Lag(m, 2) < Unit
               \/ Lag(m, 2) = m.np[2] - m.np[2 + 1] + Lag(m, 2 + 1) + Unit
            /\ \/ Lag(m, 2) > -Unit
               \/ Lag(m, 2) = m.np[2] - m.np[2 - 1] + Lag(m, 2 - 1) - Unit
  <2> HIDE DEF m
  <2> QED  BY <1>1, <1>4, AdjustedLag, AdjustedOrdered
<1> HIDE DEF m
<1>9. /\ m3.np = m.np /\ Ordered(m3)
      /\ \A j \in Marker : j # 3 => Lag(m3, j) = Lag(m2, j)
      /\ \/ Lag(m2, 3) >= Unit /\ Lag(m3, 3) = Lag(m2, 3) - Unit
         \/ Lag(m2, 3) <= -Unit /\ Lag(m3, 3) = Lag(m2, 3) + Unit
         \/ /\ Lag(m3, 3) = Lag(m2, 3)
            /\ \/ Lag(m2, 3) < Unit
               \/ Lag(m2, 3) = m.np[3] - m.np[3 + 1] + Lag(m2, 3 + 1) + Unit
            /\ \/ Lag(m2, 3) > -Unit
               \/ Lag(m2, 3) = m.np[3] - m.np[3 - 1] + Lag(m2, 3 - 1) - Unit
  <2> HIDE DEF m2
  <2> QED  BY <1>4, <1>8, AdjustedLag, AdjustedOrdered
<1> HIDE DEF m2
<1>10. /\ m4.np = m.np /\ Ordered(m4)
       /\ \A j \in Marker : j # 4 => Lag(m4, j) = Lag(m3, j)
       /\ \/ Lag(m3, 4) >= Unit /\ Lag(m4, 4) = Lag(m3, 4) - Unit
          \/ Lag(m3, 4) <= -Unit /\ Lag(m4, 4) = Lag(m3, 4) + Unit
          \/ /\ Lag(m4, 4) = Lag(m3, 4)
             /\ \/ Lag(m3, 4) < Unit
                \/ Lag(m3, 4) = m.np[4] - m.np[4 + 1] + Lag(m3, 4 + 1) + Unit
             /\ \/ Lag(m3, 4) > -Unit
                \/ Lag(m3, 4) = m.np[4] - m.np[4 - 1] + Lag(m3, 4 - 1) - Unit
  <2> HIDE DEF m3
  <2> QED  BY <1>4, <1>9, AdjustedLag, AdjustedOrdered
<1> HIDE DEF m3, m4
<1>11. /\ Lag(m2, 1) = 0 /\ Lag(m2, 3) = Lag(m, 3)
       /\ Lag(m2, 4) = Lag(m, 4) /\ Lag(m2, 5) = 0
  BY <1>4, <1>5, <1>7, <1>8
<1>12. /\ Lag(m3, 1) = 0 /\ Lag(m3, 2) = Lag(m2, 2)
       /\ Lag(m3, 4) = Lag(m, 4) /\ Lag(m3, 5) = 0
  BY <1>4, <1>9, <1>11
<1>13. /\ Lag(m4, 1) = 0 /\ Lag(m4, 2) = Lag(m2, 2)
       /\ Lag(m4, 3) = Lag(m3, 3) /\ Lag(m4, 5) = 0
  BY <1>4, <1>10, <1>12
<1>14. /\ m.np[2] - m.np[1] >= 5 * PNum /\ m.np[3] - m.np[2] >= 5 * PNum
       /\ m.np[4] - m.np[3] >= 5 * g /\ m.np[5] - m.np[4] >= 5 * g
  BY <1>4, <1>5, <1>6, <1>7, UnitIsPositive
<1>15. /\ \A i \in {2, 3, 4} : up(i) = 0 \/ up(i) = Unit
       /\ g \in Nat /\ g > 0
  BY <1>4, <1>6, UnitIsPositive
<1> HIDE DEF up
<1>16. /\ -Unit + PNum - Unit <= Lag(m, 2) /\ Lag(m, 2) < 3 * Unit + PNum
       /\ -2 * Unit + 2 * PNum - Unit <= Lag(m, 3)
       /\ Lag(m, 3) <= Unit + 2 * PNum \/ Lag(m, 3) <= 8 * PNum
       /\ -3 * Unit + PDen + PNum - Unit < Lag(m, 4)
       /\ Lag(m, 4) <= Unit + PDen + PNum
       /\ Lag(m, 1) = 0 /\ Lag(m, 5) = 0
  BY <1>4, <1>5, <1>6, <1>7, <1>15, UnitIsPositive
<1>17. -Unit <= Lag(m2, 2) /\ Lag(m2, 2) < 3 * Unit
  BY <1>4, <1>6, <1>8, <1>14, <1>16, UnitIsPositive
<1>18. /\ Lag(m2, 2) \in Int
       /\ -2 * Unit <= Lag(m3, 3)
       /\ Lag(m3, 3) <= Unit \/ Lag(m3, 3) <= 6 * PNum
  <2>1. Lag(m2, 2) \in Int
    BY <1>4, <1>8, LagIsInteger DEF Ordered
  <2> QED  BY <1>4, <1>6, <1>9, <1>11, <1>14, <1>16, <1>17, <2>1, UnitIsPositive
<1>19. -3 * Unit < Lag(m4, 4) /\ Lag(m4, 4) <= Unit
  <2>1. Lag(m3, 3) \in Int
    BY <1>4, <1>9, LagIsInteger DEF Ordered
  <2> QED  BY <1>4, <1>6, <1>10, <1>12, <1>14, <1>15, <1>16, <1>18, <2>1, UnitIsPositive
<1>20. Observed(x) = m4
  BY DEF Observed, m, m2, m3, m4
<1>21. m4 \in MarkersType /\ m4.np = m.np
  BY <1>10 DEF Ordered
<1>22. /\ m.np[2] - m.np[1] >= 4 * PNum /\ m.np[3] - m.np[2] >= 4 * PNum
       /\ m.np[4] - m.np[3] >= 4 * g /\ m.np[5] - m.np[4] >= 4 * g
  BY <1>4, <1>6, <1>14, <1>15, UnitIsPositive
<1> QED  BY <1>13, <1>17, <1>18, <1>19, <1>20, <1>21, <1>22 DEF KeepsUp

Keeping == IInv /\ (count >= 5 => KeepsUp(Markers))

LEMMA InductiveKeeping == Spec => []Keeping
<1>1. Init => Keeping
  BY InitIInv DEF Init, Keeping
<1>2. ASSUME Keeping, [Next]_vars  PROVE Keeping'
  <2>1. IInv /\ IInv'
    BY <1>2, NextIInv DEF Keeping
  <2>2. ASSUME NEW x \in Values, AddInitial(x)  PROVE count' < 5
    BY <2>1, <2>2 DEF AddInitial, IInv
  <2>3. ASSUME NEW x \in Values, AddFifth(x)  PROVE KeepsUp(Markers)'
    <3>1. n' = FirstPositions /\ np' = FirstDesired
      BY <2>3 DEF AddFifth
    <3>2. Markers' \in MarkersType
      BY <2>1 DEF IInv, Markers, MarkersType
    <3>3. /\ np'[1] = Unit /\ np'[2] = Unit + 4 * PNum /\ np'[3] = Unit + 8 * PNum
          /\ np'[4] = 3 * Unit + 4 * PNum /\ np'[5] = 5 * Unit
          /\ n'[1] = 1 /\ n'[2] = 2 /\ n'[3] = 3 /\ n'[4] = 4 /\ n'[5] = 5
      BY <3>1 DEF FirstPositions, FirstDesired, Marker
    <3> QED  BY <3>2, <3>3, UnitIsPositive DEF KeepsUp, Lag, Markers
  <2>4. ASSUME NEW x \in Values, AddLater(x)  PROVE KeepsUp(Markers)'
    <3>1. x \in Int /\ count >= 5
      BY <2>4, ValuesAssumption DEF AddLater
    <3>2. KeepsUp(Observed(x))
      BY <1>2, <2>1, <3>1, ObservedKeepsUp DEF Keeping
    <3>3. q' = Observed(x).q /\ n' = Observed(x).n /\ np' = Observed(x).np
      BY <2>4 DEF AddLater
    <3>4. Markers' = Observed(x)
      BY <3>2, <3>3 DEF KeepsUp, MarkersType, Markers
    <3> QED  BY <3>2, <3>4 DEF KeepsUp, Lag
  <2>5. CASE UNCHANGED vars
    BY <1>2, <2>1, <2>5 DEF vars, Keeping, Markers, KeepsUp, Lag
  <2>6. count' < 5 => ~(count' >= 5)
    BY <2>1 DEF IInv
  <2> QED  BY <1>2, <2>1, <2>2, <2>3, <2>4, <2>5, <2>6 DEF Next, Keeping
<1> QED  BY <1>1, <1>2, PTL DEF Spec

-----------------------------------------------------------------------------
(* The estimate of the first five observations.                            *)

\* A set of natural numbers that is not empty has a least element.
LEMMA LeastNatural ==
  ASSUME NEW T, T \subseteq Nat, T # {}
  PROVE  \E x \in T : \A y \in T : x <= y
<1> DEFINE R == OpToRel(<, Nat)
<1>1. PICK x \in T : \A y \in T : ~(<<y, x>> \in R)
  <2>1. IsWellFoundedOn(R, Nat)
    BY NatLessThanWellFounded
  <2> HIDE DEF R
  <2> QED  BY <2>1, WFMin
<1>2. ASSUME NEW y \in T  PROVE x <= y
  <2>1. y \in Nat /\ x \in Nat
    OBVIOUS
  <2>2. <<y, x>> \in R <=> y < x
    BY <2>1 DEF OpToRel
  <2> HIDE DEF R
  <2> QED  BY <1>1, <2>1, <2>2
<1> QED  BY <1>2

\* The k-th smallest of the observations remembered exists: the least of them
\* that k do not exceed.
LEMMA NthExists ==
  ASSUME NEW c \in Nat, NEW s, \A i \in 1 .. c : s[i] \in Int,
         NEW top \in 1 .. c, \A i \in 1 .. c : s[i] <= s[top],
         NEW k \in 1 .. c
  PROVE  \E v \in {s[i] : i \in 1 .. c} :
           /\ Cardinality({i \in 1 .. c : s[i] < v}) < k
           /\ Cardinality({i \in 1 .. c : s[i] <= v}) >= k
<1> DEFINE Places   == 1 .. c
           UpTo(v)  == {i \in Places : s[i] <= v}
           Below(v) == {i \in Places : s[i] < v}
           Sizes    == {m \in Nat : \E i \in Places :
                                      m = Cardinality(UpTo(s[i])) /\ m >= k}
<1>1. IsFiniteSet(Places) /\ Cardinality(Places) = c
  BY FS_Interval
<1>2. ASSUME NEW X \in SUBSET Places
      PROVE  IsFiniteSet(X) /\ Cardinality(X) \in Nat
  BY <1>1, FS_Subset, FS_CardinalityType
<1>3. Sizes # {}
  <2>1. UpTo(s[top]) = Places
    OBVIOUS
  <2>2. Cardinality(UpTo(s[top])) = c /\ c >= k /\ c \in Nat
    <3>1. Cardinality(UpTo(s[top])) = c
      BY <1>1, <2>1, Zenon
    <3>2. c >= k
      OBVIOUS
    <3> QED  BY <3>1, <3>2
  <2>3. \E i \in Places : c = Cardinality(UpTo(s[i])) /\ c >= k
    <3> HIDE DEF UpTo
    <3> QED  BY <2>2
  <2>4. c \in Sizes
    <3> HIDE DEF UpTo
    <3> QED  BY <2>2, <2>3
  <2> HIDE DEF Sizes
  <2> QED  BY <2>4
<1>4. PICK m \in Sizes : \A l \in Sizes : m <= l
  <2> HIDE DEF Sizes
  <2>1. Sizes \subseteq Nat
    BY DEF Sizes
  <2> QED  BY <1>3, <2>1, LeastNatural
<1>5. PICK i \in Places : m = Cardinality(UpTo(s[i])) /\ m >= k
  BY <1>4
<1>6. SUFFICES ASSUME Cardinality(Below(s[i])) >= k  PROVE FALSE
  <2>1. UpTo(s[i]) \in SUBSET Places /\ Below(s[i]) \in SUBSET Places
    OBVIOUS
  <2>2. Cardinality(UpTo(s[i])) \in Nat /\ Cardinality(Below(s[i])) \in Nat
    BY <1>2, <2>1
  <2>3. k \in Nat
    OBVIOUS
  <2>4. \/ Cardinality(Below(s[i])) >= k
        \/ Cardinality(Below(s[i])) < k /\ Cardinality(UpTo(s[i])) >= k
    <3> HIDE DEF Below, UpTo
    <3> QED  BY <1>5, <2>2, <2>3
  <2> QED  BY <2>4
<1> DEFINE B == Below(s[i])
           Gaps == {d \in Nat : \E j \in B : d = s[i] - s[j]}
<1>7. B \in SUBSET Places /\ B # {}
  <2>1. B \in SUBSET Places
    OBVIOUS
  <2>2. Cardinality({}) = 0 /\ k > 0
    BY FS_EmptySet
  <2> HIDE DEF Below
  <2> QED  BY <1>6, <2>1, <2>2
<1>8. PICK j \in B : \A l \in B : s[l] <= s[j]
  <2>1. Gaps # {}
    <3>1. PICK l \in B : TRUE
      BY <1>7
    <3>2. s[i] - s[l] \in Nat
      BY <1>7
    <3> QED  BY <3>1, <3>2
  <2>2. PICK d \in Gaps : \A f \in Gaps : d <= f
    <3> HIDE DEF Gaps
    <3>1. Gaps \subseteq Nat
      BY DEF Gaps
    <3> QED  BY <2>1, <3>1, LeastNatural
  <2>3. PICK j \in B : d = s[i] - s[j]
    BY <2>2
  <2>4. ASSUME NEW l \in B  PROVE s[l] <= s[j]
    <3>1. s[i] \in Int /\ s[l] \in Int /\ s[j] \in Int /\ s[l] < s[i]
      BY <1>7
    <3>2. s[i] - s[l] \in Gaps
      BY <3>1
    <3>3. d <= s[i] - s[l]
      BY <2>2, <3>2
    <3> QED  BY <2>3, <3>1, <3>3
  <2> QED  BY <2>4
<1>9. UpTo(s[j]) = B
  <2>1. j \in Places /\ s[j] \in Int /\ s[j] < s[i] /\ s[i] \in Int
    BY <1>7
  <2>2. ASSUME NEW l \in UpTo(s[j])  PROVE l \in B
    BY <2>1
  <2>3. ASSUME NEW l \in B  PROVE l \in UpTo(s[j])
    BY <1>8
  <2> QED  BY <2>2, <2>3
<1>10. Cardinality(B) \in Sizes
  <2>1. Cardinality(B) \in Nat
    BY <1>2, <1>7
  <2>2. j \in Places
    BY <1>7
  <2> HIDE DEF B, UpTo
  <2> QED  BY <1>6, <1>9, <2>1, <2>2 DEF B
<1>11. /\ B \in SUBSET UpTo(s[i]) /\ i \in UpTo(s[i]) /\ i \notin B
       /\ UpTo(s[i]) \in SUBSET Places
  BY <1>5
<1>12. Cardinality(B) < Cardinality(UpTo(s[i]))
  <2> HIDE DEF B, UpTo
  <2>1. IsFiniteSet(UpTo(s[i])) /\ Cardinality(UpTo(s[i])) \in Nat
        /\ Cardinality(B) \in Nat
    BY <1>2, <1>7, <1>11
  <2>2. /\ Cardinality(B) <= Cardinality(UpTo(s[i]))
        /\ Cardinality(UpTo(s[i])) = Cardinality(B) => UpTo(s[i]) = B
    BY <1>11, <2>1, FS_Subset
  <2> QED  BY <1>11, <2>1, <2>2
<1> HIDE DEF B, Sizes, UpTo
<1>13. m <= Cardinality(B) /\ m \in Nat /\ Cardinality(B) \in Nat
  BY <1>2, <1>4, <1>7, <1>10 DEF Sizes
<1> QED  BY <1>5, <1>12, <1>13

LEMMA TimesIsMonotone ==
  ASSUME NEW k \in Nat, NEW a \in Int, NEW b \in Int, a <= b
  PROVE  k * a <= k * b /\ k * a \in Int /\ k * b \in Int
<1>1. k * (b - a) >= 0
  OBVIOUS
<1>2. k * (b - a) = k * b - k * a
  OBVIOUS
<1> QED  BY <1>1, <1>2

\* A position between the observations, interpolated between two of them.
LEMMA BetweenTwo ==
  ASSUME NEW d \in Nat, NEW f \in 0 .. d, NEW a \in Int, NEW b \in Int,
         NEW lo \in Int, NEW hi \in Int, lo <= a, a <= hi, lo <= b, b <= hi
  PROVE  d * lo <= (d - f) * a + f * b /\ (d - f) * a + f * b <= d * hi
<1>1. d - f \in Nat /\ f \in Nat
  OBVIOUS
<1>2. /\ (d - f) * lo <= (d - f) * a /\ (d - f) * a <= (d - f) * hi
      /\ f * lo <= f * b /\ f * b <= f * hi
      /\ (d - f) * lo \in Int /\ (d - f) * a \in Int /\ (d - f) * hi \in Int
      /\ f * lo \in Int /\ f * b \in Int /\ f * hi \in Int
  BY <1>1, TimesIsMonotone
<1>3. d * lo = (d - f) * lo + f * lo /\ d * hi = (d - f) * hi + f * hi
  OBVIOUS
<1> QED  BY <1>2, <1>3

LEMMA NthInRange ==
  ASSUME NEW k \in 1 .. count, count \in Nat,
         lowest \in Int, highest \in Int,
         \A i \in 1 .. count : initial[i] \in Int,
         Extremal
  PROVE  Nth(k) \in Int /\ lowest <= Nth(k) /\ Nth(k) <= highest
<1>1. PICK top \in 1 .. count : initial[top] = highest
  BY DEF Extremal
<1>2. \E v \in {initial[i] : i \in 1 .. count} :
        /\ Cardinality({i \in 1 .. count : initial[i] < v}) < k
        /\ Cardinality({i \in 1 .. count : initial[i] <= v}) >= k
  <2>1. \A i \in 1 .. count : initial[i] <= initial[top]
    BY <1>1 DEF Extremal
  <2> QED  BY <2>1, NthExists
<1>3. Nth(k) \in {initial[i] : i \in 1 .. count}
  BY <1>2 DEF Nth
<1> QED  BY <1>3 DEF Extremal

\* The position of the quantile among count observations.
LEMMA PositionInside ==
  ASSUME count \in Nat, count > 0
  PROVE  LET pos == PNum * (count - 1)
         IN  /\ pos \in Int
             /\ pos \div PDen \in 0 .. count - 1
             /\ pos % PDen \in 0 .. PDen
             /\ pos % PDen # 0 => pos \div PDen < count - 1
<1> DEFINE pos  == PNum * (count - 1)
           low  == pos \div PDen
           frac == pos % PDen
<1>1. pos \in Nat /\ pos <= PDen * (count - 1)
  <2>1. (count - 1) * PNum <= (count - 1) * PDen
    BY UnitIsPositive, TimesIsMonotone
  <2>2. (count - 1) * PNum = pos /\ (count - 1) * PDen = PDen * (count - 1)
    BY UnitIsPositive
  <2>3. \A a, b \in Nat : a * b \in Nat
    OBVIOUS
  <2> QED  BY <2>1, <2>2, <2>3, UnitIsPositive
<1> HIDE DEF pos
<1>2. /\ low \in Int /\ frac \in 0 .. PDen - 1
      /\ pos = PDen * low + frac
  BY <1>1, UnitIsPositive
<1> HIDE DEF low, frac
<1>3. low >= 0
  <2>1. SUFFICES ASSUME low <= -1  PROVE FALSE
    BY <1>2
  <2>2. PDen * low <= PDen * (-1)
    BY <1>2, <2>1, UnitIsPositive, TimesIsMonotone
  <2> QED  BY <1>1, <1>2, <2>2, UnitIsPositive
<1>4. ASSUME low >= count - 1  PROVE low = count - 1 /\ frac = 0
  <2>1. PDen * (count - 1) <= PDen * low /\ PDen * low \in Int
        /\ PDen * (count - 1) \in Int
    BY <1>2, <1>4, UnitIsPositive, TimesIsMonotone
  <2>2. frac = 0
    BY <1>1, <1>2, <2>1
  <2>3. ~(low >= count)
    <3>1. SUFFICES ASSUME low >= count  PROVE FALSE
      OBVIOUS
    <3>2. PDen * count <= PDen * low /\ PDen * count \in Int
      BY <1>2, <3>1, UnitIsPositive, TimesIsMonotone
    <3>3. PDen * count = PDen * (count - 1) + PDen
      BY UnitIsPositive
    <3> QED  BY <1>1, <1>2, <2>1, <3>2, <3>3, UnitIsPositive
  <2> QED  BY <1>2, <1>4, <2>2, <2>3
<1>5. /\ pos \in Int /\ low \in 0 .. count - 1 /\ frac \in 0 .. PDen
      /\ frac # 0 => low < count - 1
  BY <1>1, <1>2, <1>3, <1>4, UnitIsPositive
<1> QED  BY <1>5 DEF pos, low, frac

LEMMA EstimateIsInRange ==
  ASSUME IInv
  PROVE  EstimateInRange
<1>1. /\ count \in Nat /\ lowest \in Int /\ highest \in Int
      /\ PDen \in Nat /\ PDen > 0
  BY UnitIsPositive DEF IInv
<1>2. CASE count > 5
  <2>1. /\ q[1] <= q[2] /\ q[2] <= q[3] /\ q[3] <= q[4] /\ q[4] <= q[5]
        /\ q[1] = lowest /\ q[5] = highest
    BY <1>2 DEF IInv, MarkersOrdered
  <2>2. q[3] \in Int /\ lowest <= q[3] /\ q[3] <= highest
    BY <2>1 DEF IInv, Marker
  <2>3. Value = PDen * q[3]
    BY <1>2, <1>1 DEF Value
  <2> QED  BY <1>1, <2>2, <2>3, TimesIsMonotone DEF EstimateInRange
<1>3. CASE count > 0 /\ ~(count > 5)
  <2>1. (\A i \in 1 .. count : initial[i] \in Int) /\ Extremal
    <3>1. CASE count < 5
      BY <3>1 DEF IInv
    <3>2. CASE count = 5
      <4>1. /\ initial = q /\ q \in [Marker -> Int]
            /\ q[1] <= q[2] /\ q[2] <= q[3] /\ q[3] <= q[4] /\ q[4] <= q[5]
            /\ q[1] = lowest /\ q[5] = highest
        BY <3>2 DEF IInv, MarkersOrdered
      <4> QED  BY <3>2, <4>1 DEF Extremal, Marker
    <3> QED  BY <1>1, <1>3, <3>1, <3>2
  <2> DEFINE pos  == PNum * (count - 1)
             low  == pos \div PDen
             frac == pos % PDen
  <2>2. /\ low \in 0 .. count - 1 /\ frac \in 0 .. PDen
        /\ frac # 0 => low < count - 1
    BY <1>1, <1>3, PositionInside
  <2>3. Value = IF frac = 0 THEN PDen * Nth(low + 1)
                ELSE (PDen - frac) * Nth(low + 1) + frac * Nth(low + 2)
    BY <1>3 DEF Value
  <2> HIDE DEF pos, low, frac
  <2>4. Nth(low + 1) \in Int /\ lowest <= Nth(low + 1) /\ Nth(low + 1) <= highest
    <3>1. low + 1 \in 1 .. count
      BY <1>1, <2>2
    <3> QED  BY <1>1, <2>1, <3>1, NthInRange
  <2>5. CASE frac = 0
    BY <1>1, <2>3, <2>4, <2>5, TimesIsMonotone DEF EstimateInRange
  <2>6. CASE frac # 0
    <3>1. low + 2 \in 1 .. count
      BY <1>1, <2>2, <2>6
    <3>2. Nth(low + 2) \in Int /\ lowest <= Nth(low + 2) /\ Nth(low + 2) <= highest
      BY <1>1, <2>1, <3>1, NthInRange
    <3> QED  BY <1>1, <2>2, <2>3, <2>4, <2>6, <3>2, BetweenTwo DEF EstimateInRange
  <2> QED  BY <2>5, <2>6
<1> QED  BY <1>1, <1>2, <1>3 DEF EstimateInRange

\* The estimate Value returns is between the least and the greatest
\* observation, interpolated or adjusted, and the markers Add moves stay within
\* three positions of their quantiles, for every quantile and every stream.
THEOREM EstimateAlwaysFollows == Spec => []EstimateFollows
<1>1. ASSUME Keeping  PROVE EstimateFollows
  <2>1. EstimateInRange
    BY <1>1, EstimateIsInRange DEF Keeping
  <2>2. MarkersKeepUp
    <3>1. SUFFICES ASSUME count >= 5, NEW i \in Inner
                   PROVE  -3 * Unit < Lag(Markers, i) /\ Lag(Markers, i) < 3 * Unit
      BY DEF MarkersKeepUp, Lag, Markers
    <3>2. KeepsUp(Markers)
      BY <1>1, <3>1 DEF Keeping
    <3>3. Lag(Markers, i) \in Int
      BY <3>2, LagIsInteger DEF KeepsUp, Inner, Marker
    <3>4. i \in {2, 3, 4}
      BY DEF Inner
    <3> QED  BY <3>2, <3>3, <3>4, UnitIsPositive DEF KeepsUp
  <2> QED  BY <2>1, <2>2 DEF EstimateFollows
<1> QED  BY <1>1, InductiveKeeping, PTL
=============================================================================
