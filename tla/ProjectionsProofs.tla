-------------------------- MODULE ProjectionsProofs ---------------------------
(***************************************************************************)
(* The rows, counters and diagnostics made of an entity agree with each    *)
(* other and with its observations, for every trajectory and any number of *)
(* entities.                                                               *)
(*                                                                         *)
(* Part one, about the operators of the model: SumFunction adds up its     *)
(* values in any order, so what is added up part by part is what is added  *)
(* up at once (AddUpParts) and what is counted part by part what is        *)
(* counted at once (CountParts); a tally weighs what it was made from, and *)
(* adding tallies adds their weights (TallyWeighs, AddedTallies); the runs *)
(* RunsOf cuts are the only ones with its cuts, and runs that meet at a    *)
(* cut join to those of the whole (RunsAreUnique, RunsJoin).               *)
(*                                                                         *)
(* Part two, one entity: to what the eventizer keeps (Timeline, Measures)  *)
(* comes that every edge was measured when its later fix was read and that *)
(* arrivals are in order (Trajectory).  The segments are the runs between  *)
(* the discontinuities; they share out the edges inside them and the       *)
(* fixes, so the segment rows add up to the track row (RowsTileTrack) and  *)
(* their lines join to its line (RowsDrawOneLine); no edge belongs to two  *)
(* presences or transitions, so no time is spent twice (TimeSpentOnce).    *)
(*                                                                         *)
(* Part three, the run: what the totals must satisfy is stated in a form   *)
(* (Agree) that holds of nothing, of what one entity adds and of a sum     *)
(* when it holds of its terms.  With the rows of the entity in hand it is  *)
(* the inductive invariant of the run (Projected).                         *)
(*                                                                         *)
(* Part four, the answers of the analyst: of the events only those of a    *)
(* presence name one, and the steps are those the input offers             *)
(* (Explicable); with the counts of Projected, whatever explains a row has *)
(* been counted and names rows of the tables (ExplanationsAlwaysHold).     *)
(***************************************************************************)
EXTENDS Explain, EventizerProofs

-----------------------------------------------------------------------------
(* Sums over the domain of a function.                                     *)

\* f on the members of S.
Only(f, S) == [x \in S |-> f[x]]

\* The member SumFunction takes first.
First(s) == CHOOSE x \in s : TRUE

\* g adds up f over the sets of the collection C, as SumFunction does.
Adds(g, f, C) ==
  g = [s \in C |-> IF s = {} THEN 0 ELSE f[First(s)] + g[s \ {First(s)}]]

LEMMA SumIsAdded ==
  ASSUME NEW f
  PROVE  SumFunction(f) = (CHOOSE g : Adds(g, f, SUBSET DOMAIN f))[DOMAIN f]
BY DEF SumFunction, SumFunctionOnSet, FoldFunctionOnSet, MapThenFoldSet, Adds,
       First

LEMMA FirstIsMember ==
  ASSUME NEW s, s # {}
  PROVE  First(s) \in s
BY DEF First

\* What is added up for a set of the collection.
LEMMA AddsNothing ==
  ASSUME NEW f, NEW C, NEW g, Adds(g, f, C), {} \in C
  PROVE  g[{}] = 0
BY DEF Adds

LEMMA AddsFirst ==
  ASSUME NEW f, NEW C, NEW g, Adds(g, f, C), NEW s \in C, s # {}
  PROVE  g[s] = f[First(s)] + g[s \ {First(s)}]
BY DEF Adds

\* The subsets of S with at most n members.
UpToSize(S, n) == {s \in SUBSET S : IsFiniteSet(s) /\ Cardinality(s) <= n}

LEMMA OneFewer ==
  ASSUME NEW n \in Nat, NEW S, NEW s \in UpToSize(S, n + 1), NEW x \in s
  PROVE  s \ {x} \in UpToSize(S, n)
<1>1. IsFiniteSet(s) /\ Cardinality(s) <= n + 1 /\ s \in SUBSET S
  BY DEF UpToSize
<1>2. IsFiniteSet(s \ {x}) /\ Cardinality(s \ {x}) = Cardinality(s) - 1
  BY <1>1, FS_RemoveElement
<1>3. Cardinality(s) \in Nat
  BY <1>1, FS_CardinalityType
<1> QED BY <1>1, <1>2, <1>3 DEF UpToSize

LEMMA AddsUpTo ==
  ASSUME NEW f, NEW S
  PROVE  \A n \in Nat : \E g : Adds(g, f, UpToSize(S, n))
<1> DEFINE T == {n \in Nat : \E g : Adds(g, f, UpToSize(S, n))}
<1>1. 0 \in T
  <2> DEFINE g == [s \in UpToSize(S, 0) |-> 0]
  <2>1. \A s \in UpToSize(S, 0) : s = {}
    BY FS_EmptySet, FS_CardinalityType DEF UpToSize
  <2>2. Adds(g, f, UpToSize(S, 0))
    BY <2>1 DEF Adds
  <2> QED BY <2>2
<1>2. ASSUME NEW n \in Nat, n \in T PROVE n + 1 \in T
  <2>1. PICK g : Adds(g, f, UpToSize(S, n))
    BY <1>2
  <2> DEFINE h == [s \in UpToSize(S, n + 1) |->
                     IF s = {} THEN 0 ELSE f[First(s)] + g[s \ {First(s)}]]
  <2>2. ASSUME NEW s \in UpToSize(S, n) PROVE h[s] = g[s]
    <3>1. s \in UpToSize(S, n + 1)
      BY FS_CardinalityType DEF UpToSize
    <3>2. h[s] = IF s = {} THEN 0 ELSE f[First(s)] + g[s \ {First(s)}]
      BY <3>1
    <3>3. g[s] = IF s = {} THEN 0 ELSE f[First(s)] + g[s \ {First(s)}]
      BY <2>1 DEF Adds
    <3> QED BY <3>2, <3>3
  <2>3. ASSUME NEW s \in UpToSize(S, n + 1), s # {}
        PROVE  h[s \ {First(s)}] = g[s \ {First(s)}]
    <3>1. s \ {First(s)} \in UpToSize(S, n)
      BY <2>3, FirstIsMember, OneFewer
    <3> QED BY <2>2, <3>1
  <2>4. Adds(h, f, UpToSize(S, n + 1))
    BY <2>3, Zenon DEF Adds
  <2> QED BY <2>4
<1>3. \A n \in Nat : n \in T
  <2> HIDE DEF T
  <2> QED BY <1>1, <1>2, Induction
<1> QED BY <1>3 DEF T

LEMMA SumIsAddedUp ==
  ASSUME NEW f, IsFiniteSet(DOMAIN f)
  PROVE  \E g : Adds(g, f, SUBSET DOMAIN f) /\ SumFunction(f) = g[DOMAIN f]
<1>1. Cardinality(DOMAIN f) \in Nat
  BY FS_CardinalityType
<1>2. UpToSize(DOMAIN f, Cardinality(DOMAIN f)) = SUBSET DOMAIN f
  BY FS_Subset DEF UpToSize
<1>3. \E g : Adds(g, f, SUBSET DOMAIN f)
  <2>1. PICK n \in Nat : n = Cardinality(DOMAIN f)
    BY <1>1
  <2>2. \E g : Adds(g, f, UpToSize(DOMAIN f, n))
    BY AddsUpTo
  <2> QED BY <1>2, <2>1, <2>2
<1>4. PICK g : g = CHOOSE h : Adds(h, f, SUBSET DOMAIN f)
  OBVIOUS
<1>5. Adds(g, f, SUBSET DOMAIN f)
  BY <1>3, <1>4
<1> QED BY <1>4, <1>5, SumIsAdded

\* f has integers to add up for the members of the finite set D.
Summable(f, D) == IsFiniteSet(D) /\ \A x \in D : f[x] \in Int

\* What g has for D is what it has without a member of D, and that member.
Telling(g, f, D) == g[D] \in Int /\ \A x \in D : g[D] = f[x] + g[D \ {x}]

\* Whatever order CHOOSE gives, any member may be added last.
LEMMA AnyMemberLast ==
  ASSUME NEW D, NEW f, Summable(f, D), NEW g, Adds(g, f, SUBSET D)
  PROVE  Telling(g, f, D)
<1> USE DEF Summable, Telling
<1> DEFINE Good(s) == Telling(g, f, s)
           T == {n \in Nat : \A s \in UpToSize(D, n) : Good(s)}
<1>0. g[{}] = 0
  BY AddsNothing
<1>1. 0 \in T
  <2>1. \A s \in UpToSize(D, 0) : s = {}
    BY FS_EmptySet, FS_CardinalityType DEF UpToSize
  <2>2. Good({})
    BY <1>0
  <2> HIDE DEF Good
  <2> QED BY <2>1, <2>2
<1>2. ASSUME NEW n \in Nat, n \in T PROVE n + 1 \in T
  <2>1. ASSUME NEW s \in UpToSize(D, n + 1), s # {} PROVE Good(s)
    <3>2. s \in SUBSET D
      BY DEF UpToSize
    <3>1. PICK c \in s : c = First(s)
      BY <2>1, FirstIsMember
    <3>3. g[s] = f[c] + g[s \ {c}]
      BY <2>1, <3>1, <3>2, AddsFirst
    <3>4. \A x \in s : s \ {x} \in UpToSize(D, n) /\ Good(s \ {x})
      <4>1. \A t \in UpToSize(D, n) : Good(t)
        BY <1>2
      <4> HIDE DEF Good
      <4> QED BY <4>1, OneFewer
    <3>5. \A x \in s : f[x] \in Int /\ g[s \ {x}] \in Int
      BY <3>2, <3>4
    <3>6. ASSUME NEW x \in s PROVE g[s] = f[x] + g[s \ {x}]
      <4>1. CASE x = c
        BY <3>3, <4>1
      <4>2. CASE x # c
        <5>1. x \in s \ {c} /\ c \in s \ {x}
          BY <4>2
        <5>2. g[s \ {c}] = f[x] + g[(s \ {c}) \ {x}]
          BY <3>4, <5>1
        <5>3. g[s \ {x}] = f[c] + g[(s \ {x}) \ {c}]
          BY <3>4, <5>1
        <5>4. (s \ {c}) \ {x} = (s \ {x}) \ {c} /\ (s \ {c}) \ {x} \in SUBSET D
          BY <3>2
        <5>5. g[(s \ {c}) \ {x}] \in Int
          <6>1. s \ {c} \in UpToSize(D, n) /\ n <= n + 1
            <7>1. c \in s
              OBVIOUS
            <7> HIDE DEF Good
            <7> QED BY <3>4, <7>1
          <6>2. Cardinality(s \ {c}) \in Nat
            BY <6>1, FS_CardinalityType DEF UpToSize
          <6>3. s \ {c} \in UpToSize(D, n + 1)
            BY <6>1, <6>2 DEF UpToSize
          <6>4. (s \ {c}) \ {x} \in UpToSize(D, n)
            BY <5>1, <6>3, OneFewer
          <6> QED BY <1>2, <6>4
        <5>6. PICK u \in Int : u = g[(s \ {c}) \ {x}]
          BY <5>5
        <5>7. f[c] \in Int /\ f[x] \in Int
          BY <3>5
        <5>8. g[s] = f[c] + (f[x] + u) /\ g[s \ {x}] = f[c] + u
          BY <3>3, <5>2, <5>3, <5>4, <5>6
        <5> QED BY <5>6, <5>7, <5>8
      <4> QED BY <4>1, <4>2
    <3>7. g[s] \in Int
      <4>1. f[c] \in Int /\ g[s \ {c}] \in Int
        BY <3>5
      <4> QED BY <3>3, <4>1
    <3> QED BY <3>6, <3>7
  <2>2. Good({})
    BY <1>0
  <2> HIDE DEF Good
  <2> QED BY <2>1, <2>2
<1>3. \A n \in Nat : n \in T
  <2> HIDE DEF T
  <2> QED BY <1>1, <1>2, Induction
<1>4. ASSUME NEW s \in SUBSET D PROVE Good(s)
  <2>1. Cardinality(D) \in Nat /\ s \in UpToSize(D, Cardinality(D))
    BY FS_Subset, FS_CardinalityType DEF UpToSize
  <2> HIDE DEF Good
  <2> QED BY <1>3, <2>1
<1> QED BY <1>4

\* What is added up depends on the values at the members only.
LEMMA AddsOnly ==
  ASSUME NEW D, IsFiniteSet(D), NEW f, NEW e, \A x \in D : e[x] = f[x],
         NEW C, SUBSET D \subseteq C, NEW g, Adds(g, f, C),
         NEW h, Adds(h, e, SUBSET D)
  PROVE  g[D] = h[D]
<1> DEFINE T == {n \in Nat : \A s \in UpToSize(D, n) : g[s] = h[s]}
<1>1. 0 \in T
  <2>1. \A s \in UpToSize(D, 0) : s = {}
    BY FS_EmptySet, FS_CardinalityType DEF UpToSize
  <2>2. {} \in SUBSET D /\ {} \in C
    OBVIOUS
  <2>3. g[{}] = 0 /\ h[{}] = 0
    BY <2>2, AddsNothing
  <2> QED BY <2>1, <2>3
<1>2. ASSUME NEW n \in Nat, n \in T PROVE n + 1 \in T
  <2>1. ASSUME NEW s \in UpToSize(D, n + 1) PROVE g[s] = h[s]
    <3>1. s \in SUBSET D /\ s \in C
      BY DEF UpToSize
    <3>2. CASE s = {}
      BY <3>1, <3>2, AddsNothing
    <3>3. CASE s # {}
      <4>1. PICK c \in s : c = First(s)
        BY <3>3, FirstIsMember
      <4>2. s \ {c} \in UpToSize(D, n)
        BY OneFewer
      <4>3. g[s] = f[c] + g[s \ {c}]
        BY <3>1, <3>3, <4>1, AddsFirst
      <4>4. h[s] = e[c] + h[s \ {c}]
        <5>1. PICK P : P = SUBSET D
          OBVIOUS
        <5>2. Adds(h, e, P) /\ s \in P
          BY <3>1, <5>1
        <5> QED BY <3>3, <4>1, <5>2, AddsFirst
      <4> QED BY <1>2, <3>1, <4>2, <4>3, <4>4
    <3> QED BY <3>2, <3>3
  <2> QED BY <2>1
<1>3. \A n \in Nat : n \in T
  <2> HIDE DEF T
  <2> QED BY <1>1, <1>2, Induction
<1>4. Cardinality(D) \in Nat /\ D \in UpToSize(D, Cardinality(D))
  BY FS_CardinalityType DEF UpToSize
<1> QED BY <1>3, <1>4

\* The two rules all others follow from.
LEMMA SumOfNone ==
  ASSUME NEW f, DOMAIN f = {}
  PROVE  SumFunction(f) = 0
<1>1. IsFiniteSet(DOMAIN f)
  BY FS_EmptySet
<1>2. PICK g : Adds(g, f, SUBSET DOMAIN f) /\ SumFunction(f) = g[DOMAIN f]
  BY <1>1, SumIsAddedUp
<1> QED BY <1>2, AddsNothing

LEMMA SumWithout ==
  ASSUME NEW f, Summable(f, DOMAIN f)
  PROVE  /\ SumFunction(f) \in Int
         /\ \A x \in DOMAIN f :
              SumFunction(f) = f[x] + SumFunction(Only(f, DOMAIN f \ {x}))
<1>1. PICK g : Adds(g, f, SUBSET DOMAIN f) /\ SumFunction(f) = g[DOMAIN f]
  BY SumIsAddedUp DEF Summable
<1>2. ASSUME NEW x \in DOMAIN f
      PROVE  SumFunction(Only(f, DOMAIN f \ {x})) = g[DOMAIN f \ {x}]
  <2> DEFINE E == DOMAIN f \ {x}
             e == Only(f, E)
  <2>1. DOMAIN e = E /\ IsFiniteSet(E) /\ \A y \in E : e[y] = f[y]
    BY FS_Subset DEF Only, Summable
  <2>2. SUBSET E \subseteq SUBSET DOMAIN f
    OBVIOUS
  <2> HIDE DEF e
  <2>3. PICK h : Adds(h, e, SUBSET E) /\ SumFunction(e) = h[E]
    BY <2>1, SumIsAddedUp
  <2>4. g[E] = h[E]
    <3> HIDE DEF E
    <3> QED BY <1>1, <2>1, <2>2, <2>3, AddsOnly
  <2> QED BY <2>3, <2>4 DEF e
<1>3. PICK D : D = DOMAIN f
  OBVIOUS
<1>4. Telling(g, f, D)
  <2>1. Summable(f, D) /\ Adds(g, f, SUBSET D)
    BY <1>1, <1>3
  <2> QED BY <2>1, AnyMemberLast
<1> QED BY <1>1, <1>2, <1>3, <1>4 DEF Telling

-----------------------------------------------------------------------------
(* Sums over sets.                                                         *)

\* The sum of f over S.
AddUp(f, S) == SumFunction(Only(f, S))

\* A set of subsets of S with the empty one, and with each that adds a member
\* to one it has, has S.
LEMMA FiniteInduction ==
  ASSUME NEW S, IsFiniteSet(S), NEW P, {} \in P,
         \A s \in P : \A x \in S \ s : s \cup {x} \in P
  PROVE  S \in P
<1> DEFINE T == {n \in Nat : \A s \in SUBSET S : Cardinality(s) = n => s \in P}
<1>0. \A s \in SUBSET S : IsFiniteSet(s) /\ Cardinality(s) \in Nat
  BY FS_Subset, FS_CardinalityType
<1>1. 0 \in T
  BY <1>0, FS_EmptySet
<1>2. ASSUME NEW n \in Nat, n \in T PROVE n + 1 \in T
  <2>1. ASSUME NEW s \in SUBSET S, Cardinality(s) = n + 1 PROVE s \in P
    <3>1. s # {}
      BY <2>1, FS_EmptySet
    <3>2. PICK x \in s : TRUE
      BY <3>1
    <3>3. Cardinality(s \ {x}) = n
      BY <1>0, <2>1, FS_RemoveElement
    <3>4. s \ {x} \in P
      BY <1>2, <3>3
    <3>5. s = (s \ {x}) \cup {x} /\ x \in S \ (s \ {x})
      OBVIOUS
    <3> QED BY <3>4, <3>5
  <2> QED BY <2>1
<1>3. \A n \in Nat : n \in T
  <2> HIDE DEF T
  <2> QED BY <1>1, <1>2, Induction
<1> QED BY <1>0, <1>3

LEMMA AddUpNone ==
  ASSUME NEW f
  PROVE  AddUp(f, {}) = 0
BY SumOfNone DEF AddUp, Only

LEMMA AddUpSame ==
  ASSUME NEW S, NEW f, NEW e, \A x \in S : e[x] = f[x]
  PROVE  AddUp(e, S) = AddUp(f, S)
BY DEF AddUp, Only

LEMMA AddUpWithout ==
  ASSUME NEW S, NEW f, Summable(f, S)
  PROVE  /\ AddUp(f, S) \in Int
         /\ \A x \in S : AddUp(f, S) = f[x] + AddUp(f, S \ {x})
<1> DEFINE e == Only(f, S)
<1>1. DOMAIN e = S /\ \A x \in S : e[x] = f[x]
  BY DEF Only
<1>2. \A x \in S : Only(e, S \ {x}) = Only(f, S \ {x})
  BY DEF Only
<1> HIDE DEF e
<1>3. Summable(e, DOMAIN e)
  BY <1>1 DEF Summable
<1>4. /\ SumFunction(e) \in Int
      /\ \A x \in S : SumFunction(e) = e[x] + SumFunction(Only(e, S \ {x}))
  BY <1>1, <1>3, SumWithout
<1> QED BY <1>1, <1>2, <1>4 DEF AddUp, e

\* One more member.
LEMMA AddUpWith ==
  ASSUME NEW S, NEW f, Summable(f, S), NEW x, x \notin S, f[x] \in Int
  PROVE  /\ Summable(f, S \cup {x})
         /\ AddUp(f, S \cup {x}) = f[x] + AddUp(f, S)
         /\ AddUp(f, S) \in Int
<1>1. Summable(f, S \cup {x})
  BY FS_AddElement DEF Summable
<1>2. (S \cup {x}) \ {x} = S /\ x \in S \cup {x}
  OBVIOUS
<1>3. AddUp(f, S \cup {x}) = f[x] + AddUp(f, (S \cup {x}) \ {x})
  BY <1>1, <1>2, AddUpWithout
<1> QED BY <1>1, <1>2, <1>3, AddUpWithout

LEMMA SummablePart ==
  ASSUME NEW S, NEW f, Summable(f, S), NEW R, R \subseteq S
  PROVE  Summable(f, R)
BY FS_Subset DEF Summable

\* The sum of a function is over its domain.
LEMMA SumIsOverDomain ==
  ASSUME NEW S, NEW f, f = [x \in S |-> f[x]]
  PROVE  SumFunction(f) = AddUp(f, S)
BY DEF AddUp, Only

LEMMA AddUpSplit ==
  ASSUME NEW A, NEW B, A \cap B = {}, NEW f, Summable(f, A \cup B)
  PROVE  /\ AddUp(f, A \cup B) = AddUp(f, A) + AddUp(f, B)
         /\ AddUp(f, A) \in Int /\ AddUp(f, B) \in Int
<1>0. Summable(f, A) /\ Summable(f, B)
  BY SummablePart
<1>1. AddUp(f, A) \in Int /\ AddUp(f, B) \in Int
  BY <1>0, AddUpWithout
<1> DEFINE P == {s \in SUBSET B : AddUp(f, A \cup s) = AddUp(f, A) + AddUp(f, s)}
<1>2. {} \in P
  <2>1. A \cup {} = A
    OBVIOUS
  <2> QED BY <1>1, <2>1, AddUpNone
<1>3. ASSUME NEW s \in P, NEW x \in B \ s PROVE s \cup {x} \in P
  <2>1. s \subseteq B /\ x \notin A \cup s
    OBVIOUS
  <2>2. Summable(f, A \cup s) /\ Summable(f, s)
    BY <2>1, SummablePart
  <2>3. f[x] \in Int
    BY DEF Summable
  <2>4. AddUp(f, (A \cup s) \cup {x}) = f[x] + AddUp(f, A \cup s)
    BY <2>1, <2>2, <2>3, AddUpWith
  <2>5. AddUp(f, s \cup {x}) = f[x] + AddUp(f, s) /\ AddUp(f, s) \in Int
    BY <2>2, <2>3, AddUpWith
  <2>6. (A \cup s) \cup {x} = A \cup (s \cup {x})
    OBVIOUS
  <2>7. AddUp(f, A \cup s) = AddUp(f, A) + AddUp(f, s)
    OBVIOUS
  <2>8. AddUp(f, A \cup (s \cup {x})) = f[x] + (AddUp(f, A) + AddUp(f, s))
    BY <2>4, <2>6, <2>7
  <2>9. AddUp(f, A \cup (s \cup {x})) = AddUp(f, A) + AddUp(f, s \cup {x})
    BY <1>1, <2>3, <2>5, <2>8
  <2> QED BY <2>1, <2>9
<1>4. B \in P
  <2>1. IsFiniteSet(B)
    BY <1>0 DEF Summable
  <2> HIDE DEF P
  <2> QED BY <1>2, <1>3, <2>1, FiniteInduction
<1> QED BY <1>1, <1>4

\* Counting is adding ones.
LEMMA AddUpOnes ==
  ASSUME NEW S, IsFiniteSet(S), NEW f, \A x \in S : f[x] = 1
  PROVE  AddUp(f, S) = Cardinality(S)
<1> DEFINE P == {s \in SUBSET S : AddUp(f, s) = Cardinality(s)}
<1>1. {} \in P
  BY AddUpNone, FS_EmptySet
<1>2. ASSUME NEW s \in P, NEW x \in S \ s PROVE s \cup {x} \in P
  <2>1. IsFiniteSet(s)
    BY FS_Subset
  <2>2. Summable(f, s) /\ f[x] = 1
    BY <2>1 DEF Summable
  <2>3. AddUp(f, s \cup {x}) = f[x] + AddUp(f, s)
    BY <2>2, AddUpWith
  <2>4. Cardinality(s \cup {x}) = Cardinality(s) + 1 /\ Cardinality(s) \in Nat
    BY <2>1, FS_AddElement, FS_CardinalityType
  <2> QED BY <2>2, <2>3, <2>4
<1>3. S \in P
  <2> HIDE DEF P
  <2> QED BY <1>1, <1>2, FiniteInduction
<1> QED BY <1>3

\* Sums of sums.
LEMMA AddUpBoth ==
  ASSUME NEW S, NEW f, Summable(f, S), NEW g, Summable(g, S),
         NEW h, \A x \in S : h[x] = f[x] + g[x]
  PROVE  AddUp(h, S) = AddUp(f, S) + AddUp(g, S) /\ Summable(h, S)
<1>0. Summable(h, S)
  BY DEF Summable
<1> DEFINE P == {s \in SUBSET S : AddUp(h, s) = AddUp(f, s) + AddUp(g, s)}
<1>1. {} \in P
  BY AddUpNone
<1>2. ASSUME NEW s \in P, NEW x \in S \ s PROVE s \cup {x} \in P
  <2>1. Summable(f, s) /\ Summable(g, s) /\ Summable(h, s)
    BY <1>0, SummablePart
  <2>2. f[x] \in Int /\ g[x] \in Int /\ h[x] \in Int /\ h[x] = f[x] + g[x]
    BY <1>0 DEF Summable
  <2>3. AddUp(f, s \cup {x}) = f[x] + AddUp(f, s) /\ AddUp(f, s) \in Int
    BY <2>1, <2>2, AddUpWith
  <2>4. AddUp(g, s \cup {x}) = g[x] + AddUp(g, s) /\ AddUp(g, s) \in Int
    BY <2>1, <2>2, AddUpWith
  <2>5. AddUp(h, s \cup {x}) = h[x] + AddUp(h, s) /\ AddUp(h, s) \in Int
    BY <2>1, <2>2, AddUpWith
  <2> QED BY <2>2, <2>3, <2>4, <2>5
<1>3. S \in P
  <2>1. IsFiniteSet(S)
    BY DEF Summable
  <2> HIDE DEF P
  <2> QED BY <1>1, <1>2, <2>1, FiniteInduction
<1> QED BY <1>0, <1>3

LEMMA AddUpNat ==
  ASSUME NEW S, IsFiniteSet(S), NEW f, \A x \in S : f[x] \in Nat
  PROVE  AddUp(f, S) \in Nat /\ Summable(f, S)
<1>0. Summable(f, S)
  BY DEF Summable
<1> DEFINE P == {s \in SUBSET S : AddUp(f, s) \in Nat}
<1>1. {} \in P
  BY AddUpNone
<1>2. ASSUME NEW s \in P, NEW x \in S \ s PROVE s \cup {x} \in P
  <2>1. AddUp(f, s \cup {x}) = f[x] + AddUp(f, s)
    BY <1>0, SummablePart, AddUpWith
  <2> QED BY <2>1
<1>3. S \in P
  <2> HIDE DEF P
  <2> QED BY <1>1, <1>2, FiniteInduction
<1> QED BY <1>0, <1>3

\* A part of what is not negative is no more than all of it.
LEMMA AddUpPart ==
  ASSUME NEW S, IsFiniteSet(S), NEW f, \A x \in S : f[x] \in Nat,
         NEW R, R \subseteq S
  PROVE  AddUp(f, R) <= AddUp(f, S)
<1>1. R \cup (S \ R) = S /\ R \cap (S \ R) = {} /\ IsFiniteSet(S \ R)
      /\ IsFiniteSet(R)
  BY FS_Subset
<1>2. Summable(f, R \cup (S \ R))
  BY <1>1 DEF Summable
<1>3. AddUp(f, R \cup (S \ R)) = AddUp(f, R) + AddUp(f, S \ R)
  BY <1>1, <1>2, AddUpSplit
<1>4. AddUp(f, S \ R) \in Nat /\ AddUp(f, R) \in Nat
  BY <1>1, AddUpNat
<1>5. AddUp(f, S) = AddUp(f, R) + AddUp(f, S \ R)
  BY <1>1, <1>3
<1> QED BY <1>4, <1>5

\* What is added up part by part is what is added up at once.
Union(p, K) == UNION {p[k] : k \in K}
Apart(p, K) == \A j, k \in K : j # k => p[j] \cap p[k] = {}
AddsParts(F, f, p, K) == \A k \in K : F[k] = AddUp(f, p[k])
CountsParts(F, p, K) == \A k \in K : F[k] = Cardinality(p[k])

LEMMA AddUpParts ==
  ASSUME NEW K, IsFiniteSet(K), NEW p, NEW f, Summable(f, Union(p, K)),
         Apart(p, K), NEW F, AddsParts(F, f, p, K)
  PROVE  AddUp(F, K) = AddUp(f, Union(p, K)) /\ Summable(F, K)
<1> USE DEF Apart, AddsParts
<1>0. Summable(F, K)
  <2>1. ASSUME NEW k \in K PROVE F[k] \in Int
    <3>1. p[k] \subseteq Union(p, K)
      BY DEF Union
    <3> QED BY <3>1, SummablePart, AddUpWithout
  <2> QED BY <2>1 DEF Summable
<1> DEFINE P == {s \in SUBSET K : AddUp(F, s) = AddUp(f, Union(p, s))}
<1>1. {} \in P
  <2>1. Union(p, {}) = {}
    BY DEF Union
  <2> QED BY <2>1, AddUpNone
<1>2. ASSUME NEW s \in P, NEW x \in K \ s PROVE s \cup {x} \in P
  <2>1. AddUp(F, s \cup {x}) = F[x] + AddUp(F, s) /\ F[x] \in Int
    <3>1. Summable(F, s) /\ F[x] \in Int
      BY <1>0, SummablePart DEF Summable
    <3> QED BY <3>1, AddUpWith
  <2>2. Union(p, s \cup {x}) = Union(p, s) \cup p[x]
    BY DEF Union
  <2>3. Union(p, s) \cap p[x] = {}
    BY DEF Union
  <2>4. Union(p, s) \cup p[x] \subseteq Union(p, K)
    BY DEF Union
  <2>5. Summable(f, Union(p, s) \cup p[x])
    BY <2>4, SummablePart
  <2>6. /\ AddUp(f, Union(p, s) \cup p[x])
                = AddUp(f, Union(p, s)) + AddUp(f, p[x])
        /\ AddUp(f, Union(p, s)) \in Int
    <3>1. PICK A : A = Union(p, s)
      OBVIOUS
    <3>2. PICK B : B = p[x]
      OBVIOUS
    <3>3. A \cap B = {} /\ Summable(f, A \cup B)
      BY <2>3, <2>5, <3>1, <3>2
    <3>4. AddUp(f, A \cup B) = AddUp(f, A) + AddUp(f, B) /\ AddUp(f, A) \in Int
      BY <3>3, AddUpSplit
    <3> QED BY <3>1, <3>2, <3>4
  <2>7. AddUp(f, Union(p, s \cup {x})) = AddUp(f, Union(p, s)) + F[x]
    BY <2>2, <2>6
  <2>8. AddUp(F, s) = AddUp(f, Union(p, s))
    OBVIOUS
  <2> QED BY <2>1, <2>6, <2>7, <2>8
<1>3. K \in P
  <2> HIDE DEF P
  <2> QED BY <1>1, <1>2, FiniteInduction
<1> QED BY <1>0, <1>3

\* Differences add up to the difference of the ends.
LEMMA AddUpDifferences ==
  ASSUME NEW a \in Nat, NEW b \in Nat, a <= b,
         NEW t, \A i \in a .. b : t[i] \in Int,
         NEW f, \A i \in a + 1 .. b : f[i] = t[i] - t[i - 1]
  PROVE  AddUp(f, a + 1 .. b) = t[b] - t[a] /\ Summable(f, a + 1 .. b)
<1>0. \A i \in a + 1 .. b : i - 1 \in a .. b /\ f[i] \in Int
  OBVIOUS
<1>1. Summable(f, a + 1 .. b)
  BY <1>0, FS_Interval DEF Summable
<1> DEFINE T == {n \in Nat :
                   a + n <= b => AddUp(f, a + 1 .. a + n) = t[a + n] - t[a]}
<1>2. 0 \in T
  <2>1. a + 1 .. a + 0 = {} /\ t[a + 0] = t[a] /\ t[a] \in Int
    OBVIOUS
  <2> QED BY <2>1, AddUpNone
<1>3. ASSUME NEW n \in Nat, n \in T PROVE n + 1 \in T
  <2> SUFFICES ASSUME a + (n + 1) <= b
               PROVE  AddUp(f, a + 1 .. a + (n + 1)) = t[a + (n + 1)] - t[a]
    OBVIOUS
  <2>1. a + 1 .. a + (n + 1) = (a + 1 .. a + n) \cup {a + (n + 1)}
    OBVIOUS
  <2>2. a + (n + 1) \notin a + 1 .. a + n /\ a + (n + 1) \in a + 1 .. b
        /\ a + 1 .. a + n \subseteq a + 1 .. b
    OBVIOUS
  <2>3. Summable(f, a + 1 .. a + n) /\ f[a + (n + 1)] \in Int
    BY <1>0, <1>1, <2>2, SummablePart
  <2>4. AddUp(f, (a + 1 .. a + n) \cup {a + (n + 1)})
          = f[a + (n + 1)] + AddUp(f, a + 1 .. a + n)
    BY <2>2, <2>3, AddUpWith
  <2>5. f[a + (n + 1)] = t[a + (n + 1)] - t[(a + (n + 1)) - 1]
        /\ (a + (n + 1)) - 1 = a + n
    BY <2>2
  <2>6. AddUp(f, a + 1 .. a + n) = t[a + n] - t[a]
    BY <1>3
  <2>7. t[a + n] \in Int /\ t[a] \in Int /\ t[a + (n + 1)] \in Int
    OBVIOUS
  <2>8. AddUp(f, a + 1 .. a + (n + 1)) = f[a + (n + 1)] + AddUp(f, a + 1 .. a + n)
    BY <2>1, <2>4
  <2>9. f[a + (n + 1)] = t[a + (n + 1)] - t[a + n]
    BY <2>5
  <2> QED BY <2>6, <2>7, <2>8, <2>9
<1>4. \A n \in Nat : n \in T
  <2> HIDE DEF T
  <2> QED BY <1>2, <1>3, Induction
<1>5. b - a \in Nat /\ a + (b - a) = b
  OBVIOUS
<1>6. PICK n \in Nat : n = b - a
  BY <1>5
<1>7. AddUp(f, a + 1 .. a + n) = t[a + n] - t[a]
  <2>1. n \in T
    BY <1>4
  <2>2. a + n <= b
    BY <1>5, <1>6
  <2> QED BY <2>1, <2>2
<1> QED BY <1>1, <1>5, <1>6, <1>7

-----------------------------------------------------------------------------
(* Tallies and bags.                                                       *)

\* A map of counters.
IsTally(b) ==
  /\ b = [k \in DOMAIN b |-> b[k]]
  /\ IsFiniteSet(DOMAIN b)
  /\ \A k \in DOMAIN b : b[k] \in Nat

\* The counters of b with these keys, and all of them.
Weigh(b, keys) == AddUp(b, DOMAIN b \cap keys)
Whole(b) == AddUp(b, DOMAIN b)

LEMMA WeighType ==
  ASSUME NEW b, IsTally(b), NEW keys
  PROVE  Weigh(b, keys) \in Nat /\ Whole(b) \in Nat
<1>1. IsFiniteSet(DOMAIN b \cap keys)
  BY FS_Subset DEF IsTally
<1> QED BY <1>1, AddUpNat DEF IsTally, Weigh, Whole

LEMMA WeighOne ==
  ASSUME NEW b, IsTally(b), NEW k \in DOMAIN b
  PROVE  Weigh(b, {k}) = b[k]
<1>1. DOMAIN b \cap {k} = {k} /\ {} \cup {k} = {k}
  OBVIOUS
<1>2. b[k] \in Int /\ Summable(b, {})
  BY FS_EmptySet DEF IsTally, Summable
<1>3. AddUp(b, {} \cup {k}) = b[k] + AddUp(b, {})
  BY <1>2, AddUpWith
<1>4. AddUp(b, {k}) = b[k] + 0
  BY <1>1, <1>3, AddUpNone
<1>5. Weigh(b, {k}) = AddUp(b, {k})
  BY <1>1 DEF Weigh
<1> QED BY <1>2, <1>4, <1>5

LEMMA FiniteImage ==
  ASSUME NEW D, IsFiniteSet(D), NEW f
  PROVE  IsFiniteSet({f[i] : i \in D})
<1> DEFINE P == {s \in SUBSET D : IsFiniteSet({f[i] : i \in s})}
<1>1. {} \in P
  <2>1. {f[i] : i \in {}} = {}
    OBVIOUS
  <2> QED BY <2>1, FS_EmptySet
<1>2. ASSUME NEW s \in P, NEW x \in D \ s PROVE s \cup {x} \in P
  <2>1. {f[i] : i \in s \cup {x}} = {f[i] : i \in s} \cup {f[x]}
    OBVIOUS
  <2>2. PICK T : T = {f[i] : i \in s}
    OBVIOUS
  <2>3. IsFiniteSet(T)
    BY <2>2
  <2>4. IsFiniteSet(T \cup {f[x]})
    BY <2>3, FS_AddElement
  <2> QED BY <2>1, <2>2, <2>4
<1>3. D \in P
  <2> HIDE DEF P
  <2> QED BY <1>1, <1>2, FiniteInduction
<1> QED BY <1>3

\* A tally weighs what it was made from.
LEMMA TallyWeighs ==
  ASSUME NEW D, IsFiniteSet(D), NEW f, DOMAIN f = D
  PROVE  /\ IsTally(Tally(f))
         /\ DOMAIN Tally(f) = {f[i] : i \in D}
         /\ \A keys : Weigh(Tally(f), keys)
                 = Cardinality({i \in D : f[i] \in keys})
         /\ Whole(Tally(f)) = Cardinality(D)
<1> DEFINE t == Tally(f)
           With(k) == {i \in D : f[i] = k}
<1>1. /\ DOMAIN t = {f[i] : i \in D}
      /\ \A k \in DOMAIN t : t[k] = Cardinality(With(k))
  BY DEF Tally, Range
<1>2. t = [k \in DOMAIN t |-> t[k]]
  BY DEF Tally
<1>3. IsFiniteSet(DOMAIN t)
  <2>1. IsFiniteSet({f[i] : i \in D})
    BY FiniteImage
  <2> QED BY <1>1, <2>1
<1>4. \A k : IsFiniteSet(With(k)) /\ Cardinality(With(k)) \in Nat
  BY FS_Subset, FS_CardinalityType
<1> HIDE DEF t
<1>5. IsTally(t)
  BY <1>1, <1>2, <1>3, <1>4 DEF IsTally
<1>6. ASSUME NEW K, K \subseteq DOMAIN t
      PROVE  AddUp(t, K) = Cardinality({i \in D : f[i] \in K})
  <2> DEFINE p == [k \in K |-> With(k)]
             one == [i \in D |-> 1]
  <2>0. IsFiniteSet(K)
    BY <1>3, <1>6, FS_Subset
  <2>1. \A j, k \in K : j # k => p[j] \cap p[k] = {}
    OBVIOUS
  <2>9. \A k \in K : p[k] = With(k)
    OBVIOUS
  <2>2. Union(p, K) = {i \in D : f[i] \in K}
    BY DEF Union
  <2>3. Summable(one, D)
    BY DEF Summable
  <2>4. IsFiniteSet(Union(p, K)) /\ Union(p, K) \subseteq D
    BY <2>2, FS_Subset
  <2>5. \A k \in K : t[k] = AddUp(one, p[k])
    <3>1. ASSUME NEW k \in K PROVE AddUp(one, With(k)) = Cardinality(With(k))
      <4>1. \A i \in With(k) : one[i] = 1
        OBVIOUS
      <4> HIDE DEF one, With
      <4> QED BY <1>4, <4>1, AddUpOnes
    <3>2. ASSUME NEW k \in K PROVE t[k] = Cardinality(With(k)) /\ p[k] = With(k)
      <4> HIDE DEF p, With
      <4> QED BY <1>1, <1>6, <2>9
    <3> HIDE DEF one, With, p
    <3> QED BY <3>1, <3>2
  <2>6. \A i \in Union(p, K) : one[i] = 1
    BY <2>4
  <2> HIDE DEF p, one
  <2>7. AddUp(t, K) = AddUp(one, Union(p, K))
    <3>1. Apart(p, K) /\ AddsParts(t, one, p, K)
      BY <2>1, <2>5 DEF Apart, AddsParts
    <3>2. Summable(one, Union(p, K))
      BY <2>3, <2>4, SummablePart
    <3> QED BY <2>0, <3>1, <3>2, AddUpParts
  <2>8. AddUp(one, Union(p, K)) = Cardinality(Union(p, K))
    BY <2>4, <2>6, AddUpOnes
  <2> QED BY <2>2, <2>7, <2>8
<1>7. ASSUME NEW keys
      PROVE  Weigh(t, keys) = Cardinality({i \in D : f[i] \in keys})
  <2>1. {i \in D : f[i] \in DOMAIN t \cap keys} = {i \in D : f[i] \in keys}
    BY <1>1
  <2> QED BY <1>6, <2>1 DEF Weigh
<1>8. Whole(t) = Cardinality(D)
  <2>1. {i \in D : f[i] \in DOMAIN t} = D
    BY <1>1
  <2> QED BY <1>6, <2>1 DEF Whole
<1> QED BY <1>1, <1>5, <1>7, <1>8 DEF t

LEMMA AddUpZeros ==
  ASSUME NEW S, IsFiniteSet(S), NEW f, \A x \in S : f[x] = 0
  PROVE  AddUp(f, S) = 0
<1>0. Summable(f, S)
  BY DEF Summable
<1> DEFINE P == {s \in SUBSET S : AddUp(f, s) = 0}
<1>1. {} \in P
  BY AddUpNone
<1>2. ASSUME NEW s \in P, NEW x \in S \ s PROVE s \cup {x} \in P
  <2>1. AddUp(f, s \cup {x}) = f[x] + AddUp(f, s)
    BY <1>0, SummablePart, AddUpWith
  <2> QED BY <2>1
<1>3. S \in P
  <2> HIDE DEF P
  <2> QED BY <1>1, <1>2, FiniteInduction
<1> QED BY <1>3

\* What lies outside the domain of b counts for nothing.
LEMMA WeighWide ==
  ASSUME NEW b, IsTally(b), NEW U, IsFiniteSet(U), NEW e,
         \A k \in U : e[k] = IF k \in DOMAIN b THEN b[k] ELSE 0
  PROVE  AddUp(e, U) = AddUp(b, DOMAIN b \cap U) /\ Summable(e, U)
<1> DEFINE A == DOMAIN b \cap U
           B == U \ DOMAIN b
<1>1. A \cup B = U /\ A \cap B = {} /\ IsFiniteSet(B)
  BY FS_Subset
<1>2. Summable(e, U)
  BY DEF Summable, IsTally
<1>3. (\A k \in A : e[k] = b[k]) /\ \A k \in B : e[k] = 0
  OBVIOUS
<1> HIDE DEF A, B
<1>4. AddUp(e, A \cup B) = AddUp(e, A) + AddUp(e, B) /\ AddUp(e, A) \in Int
  BY <1>1, <1>2, AddUpSplit
<1>5. AddUp(e, A) = AddUp(b, A)
  BY <1>3, AddUpSame
<1>7. AddUp(e, B) = 0
  BY <1>1, <1>3, AddUpZeros
<1>8. AddUp(e, U) = AddUp(e, A) + AddUp(e, B)
  BY <1>1, <1>4
<1>6. AddUp(e, U) = AddUp(b, A)
  BY <1>4, <1>5, <1>7, <1>8
<1> QED BY <1>2, <1>6 DEF A

LEMMA AddedPart ==
  ASSUME NEW a, IsTally(a), NEW b, IsTally(b),
         NEW U, IsFiniteSet(U), NEW x, NEW y, NEW c,
         \A k \in U : x[k] = IF k \in DOMAIN a THEN a[k] ELSE 0,
         \A k \in U : y[k] = IF k \in DOMAIN b THEN b[k] ELSE 0,
         \A k \in U : c[k] = x[k] + y[k]
  PROVE  AddUp(c, U) = AddUp(a, DOMAIN a \cap U) + AddUp(b, DOMAIN b \cap U)
<1>1. AddUp(x, U) = AddUp(a, DOMAIN a \cap U) /\ Summable(x, U)
  BY WeighWide
<1>2. AddUp(y, U) = AddUp(b, DOMAIN b \cap U) /\ Summable(y, U)
  BY WeighWide
<1>3. AddUp(c, U) = AddUp(x, U) + AddUp(y, U)
  BY <1>1, <1>2, AddUpBoth
<1> QED BY <1>1, <1>2, <1>3

\* Maps of counters added key by key weigh what they weigh together.
LEMMA AddedTallies ==
  ASSUME NEW a, IsTally(a), NEW b, IsTally(b)
  PROVE  /\ IsTally(a (+) b)
         /\ DOMAIN (a (+) b) = DOMAIN a \cup DOMAIN b
         /\ \A keys : Weigh(a (+) b, keys) = Weigh(a, keys) + Weigh(b, keys)
         /\ Whole(a (+) b) = Whole(a) + Whole(b)
<1>0. PICK D : D = DOMAIN a \cup DOMAIN b
  OBVIOUS
<1> DEFINE x == [k \in D |-> IF k \in DOMAIN a THEN a[k] ELSE 0]
           y == [k \in D |-> IF k \in DOMAIN b THEN b[k] ELSE 0]
<1>1. PICK c : c = a (+) b
  OBVIOUS
<1>2. c = [k \in D |-> (IF k \in DOMAIN a THEN a[k] ELSE 0)
                       + (IF k \in DOMAIN b THEN b[k] ELSE 0)]
  BY <1>0, <1>1 DEF (+)
<1>3. DOMAIN c = D /\ c = [k \in D |-> c[k]]
  BY <1>2
<1>4. /\ \A k \in D : x[k] = IF k \in DOMAIN a THEN a[k] ELSE 0
      /\ \A k \in D : y[k] = IF k \in DOMAIN b THEN b[k] ELSE 0
      /\ \A k \in D : c[k] = x[k] + y[k]
  BY <1>2
<1>5. IsFiniteSet(D)
  BY <1>0, FS_Union DEF IsTally
<1> HIDE DEF x, y
<1>6. \A k \in D : x[k] \in Nat /\ y[k] \in Nat
  BY <1>4 DEF IsTally
<1>7. IsTally(c)
  BY <1>3, <1>4, <1>5, <1>6 DEF IsTally
<1>8. ASSUME NEW U, U \subseteq D
      PROVE  AddUp(c, U) = AddUp(a, DOMAIN a \cap U) + AddUp(b, DOMAIN b \cap U)
  <2>1. IsFiniteSet(U)
    BY <1>5, <1>8, FS_Subset
  <2> QED BY <1>4, <1>8, <2>1, AddedPart
<1>9. ASSUME NEW keys PROVE Weigh(c, keys) = Weigh(a, keys) + Weigh(b, keys)
  <2>1. /\ DOMAIN a \cap (D \cap keys) = DOMAIN a \cap keys
        /\ DOMAIN b \cap (D \cap keys) = DOMAIN b \cap keys
        /\ D \cap keys \subseteq D
    BY <1>0
  <2> QED BY <1>3, <1>8, <2>1 DEF Weigh
<1>10. Whole(c) = Whole(a) + Whole(b)
  <2>1. DOMAIN a \cap D = DOMAIN a /\ DOMAIN b \cap D = DOMAIN b
    BY <1>0
  <2> QED BY <1>3, <1>8, <2>1 DEF Whole
<1> QED BY <1>0, <1>1, <1>3, <1>7, <1>9, <1>10

-----------------------------------------------------------------------------
(* Runs.                                                                   *)

\* The runs are back to back, and begin and end where they must.
AreRuns(R, from, to, cuts) ==
  /\ R = [n \in 1 .. Len(R) |-> R[n]] /\ Len(R) \in Nat \ {0}
  /\ \A n \in 1 .. Len(R) :
       /\ R[n] = <<R[n][1], R[n][2]>>
       /\ R[n][1] \in from .. to /\ R[n][2] \in from .. to /\ R[n][1] <= R[n][2]
       /\ \A i \in R[n][1] + 1 .. R[n][2] : i \notin cuts
  /\ R[1][1] = from /\ R[Len(R)][2] = to
  /\ \A n \in 1 .. Len(R) - 1 :
       R[n + 1][1] = R[n][2] + 1 /\ R[n + 1][1] \in cuts

\* Where the runs begin, and how many have begun at i.
Starts(from, to, cuts) == {from} \cup (cuts \cap from + 1..to)
Begun(C, from, i) == Cardinality(C \cap from..i)

\* C is a set of starts within a span.
StartsIn(C, from, to) ==
  /\ from \in Nat /\ to \in Nat /\ from <= to
  /\ C \subseteq from .. to /\ from \in C

LEMMA StartsAre ==
  ASSUME NEW C, NEW from, NEW to, StartsIn(C, from, to)
  PROVE  /\ from \in Nat /\ to \in Nat /\ from \in C
         /\ IsFiniteSet(C) /\ Cardinality(C) \in Nat
         /\ \A i \in C : i \in Nat /\ from <= i /\ i <= to
<1>1. from \in Nat /\ to \in Nat /\ C \in SUBSET (from .. to)
  BY DEF StartsIn
<1>2. IsFiniteSet(from .. to)
  BY <1>1, FS_Interval
<1>3. IsFiniteSet(C)
  BY <1>1, <1>2, FS_Subset
<1> QED BY <1>1, <1>3, FS_CardinalityType DEF StartsIn

LEMMA BegunGrows ==
  ASSUME NEW C, NEW from, NEW to, StartsIn(C, from, to)
  PROVE  /\ \A i \in Nat : Begun(C, from, i) \in 0 .. Cardinality(C)
         /\ \A i, j \in C : i < j => Begun(C, from, i) < Begun(C, from, j)
         /\ \A i, j \in C :
              (i < j /\ \A k \in C : k > i => j <= k)
                => Begun(C, from, j) = Begun(C, from, i) + 1
         /\ \A i \in C : (\A k \in C : k <= i)
              => Begun(C, from, i) = Cardinality(C)
         /\ Begun(C, from, from) = 1
<1>0. \A i \in C : i \in Nat /\ from <= i /\ i <= to
  BY StartsAre
<1>1. /\ IsFiniteSet(C) /\ Cardinality(C) \in Nat
      /\ from \in Nat /\ to \in Nat /\ from \in C
  BY StartsAre
<1>2. \A i \in Nat : IsFiniteSet(C \cap from..i) /\ Begun(C, from, i) \in Nat
  BY <1>1, FS_Subset, FS_CardinalityType DEF Begun
<1>3. \A i \in Nat : Begun(C, from, i) <= Cardinality(C)
  BY <1>1, FS_Subset DEF Begun
<1>4. ASSUME NEW i \in C, NEW j \in C, i < j
      PROVE  Begun(C, from, i) < Begun(C, from, j)
  <2>1. C \cap from..i \subseteq C \cap from..j /\ j \in C \cap from..j
        /\ j \notin C \cap from..i
    BY <1>0, <1>4
  <2>2. i \in Nat /\ j \in Nat
    BY <1>0
  <2>3. C \cap from..i # C \cap from..j
    BY <2>1
  <2>4. PICK A : A = C \cap from..i
    OBVIOUS
  <2>5. PICK B : B = C \cap from..j
    OBVIOUS
  <2>6. IsFiniteSet(B) /\ A \in SUBSET B /\ A # B
    BY <1>2, <2>1, <2>2, <2>3, <2>4, <2>5
  <2>7. Cardinality(A) < Cardinality(B)
    <3>1. Cardinality(A) <= Cardinality(B)
      BY <2>6, FS_Subset
    <3>2. Cardinality(A) # Cardinality(B)
      BY <2>6, FS_Subset
    <3>3. Cardinality(A) \in Nat /\ Cardinality(B) \in Nat
      BY <2>6, FS_Subset, FS_CardinalityType
    <3> QED BY <3>1, <3>2, <3>3
  <2> QED BY <2>4, <2>5, <2>7 DEF Begun
<1>5. ASSUME NEW i \in C, NEW j \in C, i < j, \A k \in C : k > i => j <= k
      PROVE  Begun(C, from, j) = Begun(C, from, i) + 1
  <2>1. C \cap from..j = (C \cap from..i) \cup {j} /\ j \notin C \cap from..i
    BY <1>0, <1>5
  <2>2. IsFiniteSet(C \cap from..i)
    BY <1>0, <1>2
  <2>3. PICK A : A = C \cap from..i
    OBVIOUS
  <2>4. Cardinality(A \cup {j}) = Cardinality(A) + 1
    BY <2>1, <2>2, <2>3, FS_AddElement
  <2> QED BY <2>1, <2>3, <2>4 DEF Begun
<1>6. ASSUME NEW i \in C, \A k \in C : k <= i
      PROVE  Begun(C, from, i) = Cardinality(C)
  <2>1. ASSUME NEW k \in C PROVE k \in from..i
    BY <1>0, <1>1, <1>6
  <2>2. C \cap from..i = C
    BY <2>1
  <2> QED BY <2>2 DEF Begun
<1>7. Begun(C, from, from) = 1
  <2>1. C \cap from..from = {from}
    BY <1>1
  <2> QED BY <2>1, FS_Singleton DEF Begun
<1>8. ASSUME NEW i \in Nat PROVE Begun(C, from, i) \in 0 .. Cardinality(C)
  <2>1. Begun(C, from, i) \in Nat /\ Begun(C, from, i) <= Cardinality(C)
    BY <1>2, <1>3
  <2> QED BY <1>1, <2>1
<1> QED BY <1>4, <1>5, <1>6, <1>7, <1>8

\* The next start is counted next.
LEMMA BegunNext ==
  ASSUME NEW C, NEW from, NEW to, StartsIn(C, from, to), NEW i \in C, NEW j \in C,
         i < j, \A k \in C : k > i => j <= k
  PROVE  Begun(C, from, j) = Begun(C, from, i) + 1
BY BegunGrows

\* What follows i among the starts, or the end.
Follows(C, to, i, j) ==
  /\ j \in {k \in C : k > i} \cup {to + 1}
  /\ \A k \in C : k > i => j <= k

LEMMA SomethingFollows ==
  ASSUME NEW C, NEW from, NEW to, StartsIn(C, from, to), NEW i \in C
  PROVE  \E j : Follows(C, to, i, j)
<1> DEFINE S == {k \in C : k > i} \cup {to + 1}
<1>1. S \subseteq Nat /\ S # {}
  BY StartsAre
<1>2. PICK j \in S : \A k \in S : j <= k
  <2> HIDE DEF S
  <2> QED BY <1>1, LeastNatural
<1> QED BY <1>2 DEF Follows

\* As many starts as there are numbers up to their count.
LEMMA EveryRunBegins ==
  ASSUME NEW C, NEW from, NEW to, StartsIn(C, from, to)
  PROVE  \A n \in 1 .. Cardinality(C) : \E i \in C : Begun(C, from, i) = n
<1>0. Cardinality(C) \in Nat /\ from \in C /\ \A i \in C : i \in Nat
  BY StartsAre
<1> DEFINE T == {n \in Nat : n + 1 <= Cardinality(C)
                               => \E i \in C : Begun(C, from, i) = n + 1}
<1>1. 0 \in T
  <2>1. Begun(C, from, from) = 0 + 1
    BY BegunGrows
  <2> QED BY <1>0, <2>1
<1>2. ASSUME NEW n \in Nat, n \in T PROVE n + 1 \in T
  <2> SUFFICES ASSUME (n + 1) + 1 <= Cardinality(C)
               PROVE  \E j \in C : Begun(C, from, j) = (n + 1) + 1
    OBVIOUS
  <2>1. PICK i \in C : Begun(C, from, i) = n + 1
    BY <1>0, <1>2
  <2>2. PICK j : Follows(C, to, i, j)
    BY SomethingFollows
  <2>3. Begun(C, from, i) # Cardinality(C)
    BY <1>0, <2>1
  <2>4. PICK later \in C : ~(later <= i)
    BY <2>3, BegunGrows
  <2>5. j \in C /\ i < j
    BY StartsAre, <2>2, <2>4 DEF Follows
  <2>6. Begun(C, from, j) = Begun(C, from, i) + 1
    <3>1. \A k \in C : k > i => j <= k
      BY <2>2 DEF Follows
    <3> QED BY <2>5, <3>1, BegunGrows
  <2> QED BY <2>1, <2>5, <2>6
<1>3. \A n \in Nat : n \in T
  <2> HIDE DEF T
  <2> QED BY <1>1, <1>2, Induction
<1>4. ASSUME NEW n \in 1 .. Cardinality(C)
      PROVE  \E i \in C : Begun(C, from, i) = n
  <2>1. PICK m \in Nat : m + 1 = n
    <3>1. n - 1 \in Nat /\ (n - 1) + 1 = n
      BY <1>0
    <3> QED BY <3>1
  <2>2. m \in T /\ m + 1 <= Cardinality(C)
    BY <1>0, <1>3, <2>1
  <2> QED BY <2>1, <2>2
<1> QED BY <1>4

\* The runs of the code are runs.
LEMMA RunsAreRuns ==
  ASSUME NEW from \in Nat, NEW to \in Nat, from <= to, NEW cuts
  PROVE  /\ AreRuns(RunsOf(from, to, cuts), from, to, cuts)
         /\ Len(RunsOf(from, to, cuts)) = Cardinality(Starts(from, to, cuts))
<1> DEFINE C == Starts(from, to, cuts)
           R == RunsOf(from, to, cuts)
           m == Cardinality(C)
           start(n) == CHOOSE f \in C : Begun(C, from, f) = n
           next(i) == CHOOSE j \in {k \in C : k > i} \cup {to + 1} :
                        \A k \in C : k > i => j <= k
<1>1. StartsIn(C, from, to) /\ C \subseteq from .. to /\ from \in C
  BY DEF Starts, StartsIn
<1>2. R = [n \in 1 .. m |-> <<start(n), next(start(n)) - 1>>]
  BY Zenon DEF RunsOf, Starts, Begun
<1>3. m \in Nat \ {0}
  <2> HIDE DEF C
  <2>1. Begun(C, from, from) = 1 /\ Begun(C, from, from) \in 0 .. Cardinality(C)
    BY <1>1, BegunGrows
  <2>2. Cardinality(C) \in Nat
    BY <1>1, StartsAre
  <2> QED BY <2>1, <2>2
<1>4. ASSUME NEW n \in 1 .. m
      PROVE  start(n) \in C /\ Begun(C, from, start(n)) = n
  <2>1. \E f \in C : Begun(C, from, f) = n
    <3> HIDE DEF C
    <3> QED BY <1>1, EveryRunBegins
  <2> HIDE DEF C
  <2> QED BY <2>1
<1>5. ASSUME NEW i \in C PROVE Follows(C, to, i, next(i))
  <2>1. \E j \in {k \in C : k > i} \cup {to + 1} : \A k \in C : k > i => j <= k
    <3> HIDE DEF C
    <3> QED BY <1>1, SomethingFollows DEF Follows
  <2> HIDE DEF C
  <2> QED BY <2>1 DEF Follows
<1>6. PICK s : s = [n \in 1 .. m |-> start(n)]
  OBVIOUS
<1>7. PICK x : x = [n \in 1 .. m |-> next(start(n))]
  OBVIOUS
<1>8. \A n \in 1 .. m : s[n] \in C /\ Begun(C, from, s[n]) = n
                        /\ Follows(C, to, s[n], x[n])
  <2> HIDE DEF C, m, start, next
  <2> QED BY <1>4, <1>5, <1>6, <1>7
<1>9. R = [n \in 1 .. m |-> <<s[n], x[n] - 1>>]
  <2> HIDE DEF C, m, start, next
  <2> QED BY <1>2, <1>6, <1>7
<1> HIDE DEF R, m, start, next
<1>10. Len(R) = m /\ \A n \in 1 .. m : R[n] = <<s[n], x[n] - 1>>
  BY <1>3, <1>9
<1>11. \A i \in C : i \in Nat /\ i \in from .. to
  BY <1>1
<1>12. \A i, j \in C : Begun(C, from, i) = Begun(C, from, j) => i = j
  <2>1. \A i, j \in C : i < j => Begun(C, from, i) < Begun(C, from, j)
    <3> HIDE DEF C
    <3> QED BY <1>1, BegunGrows
  <2>2. \A i \in C : Begun(C, from, i) \in Nat
    <3>1. \A i \in Nat : Begun(C, from, i) \in 0 .. Cardinality(C)
      <4> HIDE DEF C
      <4> QED BY <1>1, BegunGrows
    <3>2. \A i \in Nat : Begun(C, from, i) \in Nat
      BY <3>1
    <3> HIDE DEF C
    <3> QED BY <1>11, <3>2
  <2> HIDE DEF C
  <2> QED BY <1>11, <2>1, <2>2
<1>13. \A i, j \in C : Begun(C, from, i) < Begun(C, from, j) => i < j
  <2>1. \A i, j \in C : i < j => Begun(C, from, i) < Begun(C, from, j)
    <3> HIDE DEF C
    <3> QED BY <1>1, BegunGrows
  <2>2. \A i \in C : Begun(C, from, i) \in Nat
    <3>1. \A i \in Nat : Begun(C, from, i) \in 0 .. Cardinality(C)
      <4> HIDE DEF C
      <4> QED BY <1>1, BegunGrows
    <3>2. \A i \in Nat : Begun(C, from, i) \in Nat
      BY <3>1
    <3> HIDE DEF C
    <3> QED BY <1>11, <3>2
  <2> HIDE DEF C
  <2> QED BY <1>11, <2>1, <2>2
<1>14. ASSUME NEW n \in 1 .. m, n < m
       PROVE  n + 1 \in 1 .. m /\ x[n] = s[n + 1]
  <2>1. n + 1 \in 1 .. m
    BY <1>3, <1>14
  <2>2. s[n + 1] \in C /\ s[n] \in C /\ s[n] < s[n + 1]
    <3> HIDE DEF C
    <3> QED BY <1>8, <1>13, <2>1
  <2>3. x[n] \in C /\ s[n] < x[n] /\ \A k \in C : k > s[n] => x[n] <= k
    <3> HIDE DEF C
    <3> QED BY <1>8, <1>11, <2>2 DEF Follows
  <2>4. Begun(C, from, x[n]) = Begun(C, from, s[n]) + 1
    <3> HIDE DEF C
    <3> QED BY <1>1, <2>2, <2>3, BegunNext
  <2> HIDE DEF C
  <2> QED BY <1>8, <1>12, <2>1, <2>2, <2>3, <2>4
<1>15. x[m] = to + 1
  <2>1. m \in 1 .. m
    BY <1>3
  <2>2. ASSUME x[m] \in C, x[m] > s[m] PROVE FALSE
    <3>1. s[m] \in C /\ Begun(C, from, s[m]) = m
      BY <1>8, <2>1
    <3>2. Begun(C, from, s[m]) < Begun(C, from, x[m])
          /\ Begun(C, from, x[m]) \in 0 .. m
      <4> HIDE DEF C
      <4> QED BY <1>1, <1>11, <2>2, <3>1, BegunGrows DEF m
    <3> QED BY <1>3, <3>1, <3>2
  <2> QED BY <1>8, <2>1, <2>2 DEF Follows
<1>16. s[1] = from
  <2>1. 1 \in 1 .. m /\ s[1] \in C /\ Begun(C, from, s[1]) = 1
    BY <1>3, <1>8
  <2>2. Begun(C, from, from) = 1
    <3> HIDE DEF C
    <3> QED BY <1>1, BegunGrows
  <2> HIDE DEF C
  <2> QED BY <1>1, <1>12, <2>1, <2>2
<1>17. ASSUME NEW n \in 1 .. m
       PROVE  /\ s[n] \in from .. to /\ x[n] - 1 \in from .. to
              /\ s[n] <= x[n] - 1
              /\ \A i \in s[n] + 1 .. x[n] - 1 : i \notin cuts
  <2>1. s[n] \in C /\ s[n] \in from .. to
    BY <1>8, <1>11
  <2>2. x[n] \in Nat /\ s[n] < x[n] /\ x[n] <= to + 1
    <3>1. x[n] \in {k \in C : k > s[n]} \cup {to + 1}
      BY <1>8 DEF Follows
    <3> HIDE DEF C
    <3> QED BY <1>11, <2>1, <3>1
  <2>3. ASSUME NEW i \in s[n] + 1 .. x[n] - 1, i \in cuts PROVE FALSE
    <3>1. i \in C /\ i > s[n]
      BY <2>1, <2>2, <2>3 DEF Starts
    <3>2. x[n] <= i
      <4> HIDE DEF C
      <4> QED BY <1>8, <3>1 DEF Follows
    <3> QED BY <2>1, <2>2, <3>2
  <2> QED BY <2>1, <2>2, <2>3
<1>18. ASSUME NEW n \in 1 .. m, n < m PROVE s[n + 1] \in cuts
  <2>1. n + 1 \in 1 .. m /\ s[n + 1] \in C
    BY <1>8, <1>14, <1>18
  <2>2. s[n + 1] # from
    <3>1. Begun(C, from, s[n + 1]) = n + 1 /\ Begun(C, from, s[1]) = 1
      <4>1. 1 \in 1 .. m
        BY <1>3
      <4> QED BY <1>8, <2>1, <4>1
    <3> HIDE DEF C
    <3> QED BY <1>16, <3>1
  <2> QED BY <2>1, <2>2 DEF Starts
<1>19. AreRuns(R, from, to, cuts)
  <2>1. Len(R) \in Nat \ {0} /\ R = [n \in 1 .. Len(R) |-> R[n]]
    BY <1>3, <1>9, <1>10
  <2>2. \A n \in 1 .. m : R[n] = <<R[n][1], R[n][2]>> /\ R[n][1] = s[n]
                          /\ R[n][2] = x[n] - 1
    BY <1>10
  <2>3. R[1][1] = from /\ R[m][2] = to
    BY <1>3, <1>15, <1>16, <2>2
  <2>4. ASSUME NEW n \in 1 .. m - 1
        PROVE  R[n + 1][1] = R[n][2] + 1 /\ R[n + 1][1] \in cuts
    <3>1. n \in 1 .. m /\ n < m
      BY <1>3
    <3>2. x[n] = s[n + 1] /\ n + 1 \in 1 .. m /\ s[n + 1] \in cuts
      BY <1>14, <1>18, <3>1
    <3>3. x[n] - 1 \in from .. to /\ s[n + 1] \in from .. to
      BY <1>17, <3>1, <3>2
    <3> HIDE DEF C
    <3> QED BY <2>2, <3>1, <3>2, <3>3
  <2> HIDE DEF C
  <2> QED BY <1>10, <1>17, <2>1, <2>2, <2>3, <2>4 DEF AreRuns
<1> QED BY <1>10, <1>19 DEF R, m

\* Only the cuts within the span matter.
LEMMA RunsOfSameCuts ==
  ASSUME NEW R, NEW from \in Nat, NEW to \in Nat, NEW cuts,
         AreRuns(R, from, to, cuts),
         NEW cuts2, \A i \in from + 1 .. to : i \in cuts <=> i \in cuts2
  PROVE  AreRuns(R, from, to, cuts2)
<1>1. ASSUME NEW n \in 1 .. Len(R) - 1 PROVE R[n + 1][1] \in from + 1 .. to
  <2>1. n \in 1 .. Len(R) /\ n + 1 \in 1 .. Len(R)
    BY DEF AreRuns
  <2>2. /\ R[n + 1][1] = R[n][2] + 1 /\ R[n][2] \in from .. to
        /\ R[n + 1][1] \in from .. to
    BY <2>1 DEF AreRuns
  <2> QED BY <2>2
<1>2. ASSUME NEW n \in 1 .. Len(R)
      PROVE  \A i \in R[n][1] + 1 .. R[n][2] : i \in from + 1 .. to
  <2>1. R[n][1] \in from .. to /\ R[n][2] \in from .. to
    BY DEF AreRuns
  <2> QED BY <2>1
<1> QED BY <1>1, <1>2 DEF AreRuns

\* A run that begins where one of the other list begins ends no earlier.
LEMMA RunsEndTogether ==
  ASSUME NEW from \in Nat, NEW to \in Nat, NEW cuts,
         NEW R, AreRuns(R, from, to, cuts), NEW Q, AreRuns(Q, from, to, cuts),
         NEW n \in 1 .. Len(R), n \in 1 .. Len(Q), R[n][1] = Q[n][1]
  PROVE  Q[n][2] <= R[n][2]
<1> SUFFICES ASSUME ~(Q[n][2] <= R[n][2]) PROVE FALSE
  OBVIOUS
<1>1. /\ R[n][1] \in from .. to /\ R[n][2] \in from .. to /\ R[n][1] <= R[n][2]
      /\ Q[n][2] \in from .. to /\ Len(R) \in Nat
      /\ \A i \in Q[n][1] + 1 .. Q[n][2] : i \notin cuts
  BY DEF AreRuns
<1>2. R[n][2] # to
  BY <1>1
<1>3. n \in 1 .. Len(R) - 1
  BY <1>1, <1>2 DEF AreRuns
<1>4. R[n + 1][1] = R[n][2] + 1 /\ R[n + 1][1] \in cuts
  BY <1>3 DEF AreRuns
<1>5. R[n][2] + 1 \in Q[n][1] + 1 .. Q[n][2]
  BY <1>1
<1> QED BY <1>1, <1>4, <1>5

LEMMA RunsAgree ==
  ASSUME NEW from \in Nat, NEW to \in Nat, NEW cuts,
         NEW R, AreRuns(R, from, to, cuts), NEW Q, AreRuns(Q, from, to, cuts)
  PROVE  /\ \A n \in 1 .. Len(R) : n \in 1 .. Len(Q) => R[n] = Q[n]
         /\ Len(R) <= Len(Q)
<1>0. Len(R) \in Nat \ {0} /\ Len(Q) \in Nat \ {0}
  BY DEF AreRuns
<1> DEFINE T == {n \in Nat : (n + 1 \in 1 .. Len(R) /\ n + 1 \in 1 .. Len(Q))
                               => R[n + 1] = Q[n + 1]}
<1>1. ASSUME NEW n \in 1 .. Len(R), n \in 1 .. Len(Q), R[n][1] = Q[n][1]
      PROVE  R[n] = Q[n]
  <2>1. Q[n][2] <= R[n][2] /\ R[n][2] <= Q[n][2]
    BY <1>1, RunsEndTogether
  <2>2. /\ R[n] = <<R[n][1], R[n][2]>> /\ Q[n] = <<Q[n][1], Q[n][2]>>
        /\ R[n][2] \in from .. to /\ Q[n][2] \in from .. to
    BY <1>1 DEF AreRuns
  <2>3. R[n][2] = Q[n][2]
    BY <2>1, <2>2
  <2> QED BY <1>1, <2>2, <2>3
<1>2. 0 \in T
  <2>1. R[1][1] = Q[1][1]
    BY DEF AreRuns
  <2> QED BY <1>0, <1>1, <2>1
<1>3. ASSUME NEW n \in Nat, n \in T PROVE n + 1 \in T
  <2> SUFFICES ASSUME (n + 1) + 1 \in 1 .. Len(R), (n + 1) + 1 \in 1 .. Len(Q)
               PROVE  R[(n + 1) + 1] = Q[(n + 1) + 1]
    OBVIOUS
  <2>1. n + 1 \in 1 .. Len(R) - 1 /\ n + 1 \in 1 .. Len(Q) - 1
    BY <1>0
  <2>2. R[n + 1] = Q[n + 1]
    BY <1>0, <1>3, <2>1
  <2>3. /\ R[(n + 1) + 1][1] = R[n + 1][2] + 1
        /\ Q[(n + 1) + 1][1] = Q[n + 1][2] + 1
    BY <2>1 DEF AreRuns
  <2> QED BY <1>1, <2>2, <2>3
<1>4. \A n \in Nat : n \in T
  <2> HIDE DEF T
  <2> QED BY <1>2, <1>3, Induction
<1>5. ASSUME NEW n \in 1 .. Len(R), n \in 1 .. Len(Q) PROVE R[n] = Q[n]
  <2>1. PICK m \in Nat : m + 1 = n
    <3>1. n - 1 \in Nat /\ (n - 1) + 1 = n
      BY <1>0
    <3> QED BY <3>1
  <2>2. m \in T
    BY <1>4
  <2> QED BY <1>5, <2>1, <2>2
<1>6. ASSUME Len(Q) < Len(R) PROVE FALSE
  <2> DEFINE m == Len(Q)
  <2>1. m \in 1 .. Len(R) /\ m \in 1 .. Len(Q) /\ m \in 1 .. Len(R) - 1
        /\ m + 1 \in 1 .. Len(R)
    BY <1>0, <1>6
  <2>2. R[m][2] = to
    BY <1>5, <2>1 DEF AreRuns
  <2>3. R[m + 1][1] = to + 1 /\ R[m + 1][1] \in from .. to
    BY <2>1, <2>2 DEF AreRuns
  <2> QED BY <2>3
<1> QED BY <1>0, <1>5, <1>6

\* There is one way to cut a span into runs.
LEMMA RunsAreUnique ==
  ASSUME NEW from \in Nat, NEW to \in Nat, NEW cuts,
         NEW R, AreRuns(R, from, to, cuts), NEW Q, AreRuns(Q, from, to, cuts)
  PROVE  R = Q
<1>1. Len(R) <= Len(Q) /\ Len(Q) <= Len(R)
  BY RunsAgree
<1>0. Len(R) \in Nat /\ Len(Q) \in Nat
  BY DEF AreRuns
<1>2. Len(R) = Len(Q) /\ Len(R) \in Nat
  BY <1>0, <1>1
<1>3. \A n \in 1 .. Len(R) : R[n] = Q[n]
  BY <1>2, RunsAgree
<1>4. R = [n \in 1 .. Len(R) |-> R[n]] /\ Q = [n \in 1 .. Len(Q) |-> Q[n]]
  BY DEF AreRuns
<1> QED BY <1>2, <1>3, <1>4

\* The runs of two spans that meet at a cut, one list after the other.
LEMMA RunsJoin ==
  ASSUME NEW a \in Nat, NEW b \in Nat, NEW c \in Nat, a <= b, b < c, NEW cuts,
         b + 1 \in cuts,
         NEW R, AreRuns(R, a, b, cuts), NEW Q, AreRuns(Q, b + 1, c, cuts)
  PROVE  AreRuns(R \o Q, a, c, cuts)
<1> DEFINE S == R \o Q
           r == Len(R)
           q == Len(Q)
<1>0. r \in Nat \ {0} /\ q \in Nat \ {0}
  BY DEF AreRuns
<1>2. PICK V : R \in Seq(V) /\ Q \in Seq(V)
  <2> DEFINE V == {R[n] : n \in 1 .. r} \cup {Q[n] : n \in 1 .. q}
  <2>1. (\A n \in 1 .. r : R[n] \in V) /\ \A n \in 1 .. q : Q[n] \in V
    OBVIOUS
  <2>2. R = [n \in 1 .. r |-> R[n]] /\ Q = [n \in 1 .. q |-> Q[n]]
    BY DEF AreRuns
  <2> HIDE DEF V
  <2>3. R \in [1 .. r -> V] /\ Q \in [1 .. q -> V]
    <3> HIDE DEF r, q
    <3> QED BY <2>1, <2>2
  <2>4. R \in Seq(V) /\ Q \in Seq(V)
    <3> HIDE DEF r, q
    <3> QED BY <1>0, <2>3, SeqDef
  <2> QED BY <2>4
<1>3. /\ S \in Seq(V) /\ Len(S) = r + q
      /\ \A n \in 1 .. r : S[n] = R[n]
      /\ \A n \in 1 .. q : S[r + n] = Q[n]
  BY <1>2
<1> HIDE DEF S
<1>4. ASSUME NEW n \in 1 .. r + q, n > r
      PROVE  n - r \in 1 .. q /\ S[n] = Q[n - r]
  <2>1. n - r \in 1 .. q /\ r + (n - r) = n
    BY <1>0, <1>4
  <2> QED BY <1>3, <2>1
<1>5. ASSUME NEW n \in 1 .. r + q
      PROVE  /\ S[n] = <<S[n][1], S[n][2]>>
             /\ S[n][1] \in a .. c /\ S[n][2] \in a .. c /\ S[n][1] <= S[n][2]
             /\ \A i \in S[n][1] + 1 .. S[n][2] : i \notin cuts
  <2>1. CASE n <= r
    <3>1. n \in 1 .. r /\ S[n] = R[n]
      BY <1>0, <1>3, <2>1
    <3>2. R[n][1] \in a .. b /\ R[n][2] \in a .. b
      BY <3>1 DEF AreRuns
    <3> QED BY <3>1, <3>2 DEF AreRuns
  <2>2. CASE n > r
    <3>1. PICK m \in 1 .. q : S[n] = Q[m]
      BY <1>4, <2>2
    <3>2. Q[m][1] \in b + 1 .. c /\ Q[m][2] \in b + 1 .. c
      BY <3>1 DEF AreRuns
    <3> QED BY <3>1, <3>2 DEF AreRuns
  <2> QED BY <1>0, <2>1, <2>2
<1>6. S[1][1] = a /\ S[r + q][2] = c
  <2>1. 1 \in 1 .. r /\ q \in 1 .. q
    BY <1>0
  <2> QED BY <1>3, <2>1 DEF AreRuns
<1>7. ASSUME NEW n \in 1 .. (r + q) - 1
      PROVE  S[n + 1][1] = S[n][2] + 1 /\ S[n + 1][1] \in cuts
  <2>1. CASE n < r
    <3>1. n \in 1 .. r - 1 /\ n \in 1 .. r /\ n + 1 \in 1 .. r
      BY <1>0, <2>1
    <3> QED BY <1>3, <3>1 DEF AreRuns
  <2>2. CASE n = r
    <3>1. r \in 1 .. r /\ 1 \in 1 .. q
      BY <1>0
    <3>2. S[r] = R[r] /\ S[r + 1] = Q[1]
      BY <1>3, <3>1
    <3> QED BY <2>2, <3>2 DEF AreRuns
  <2>3. CASE n > r
    <3>1. PICK m \in Nat : n = r + m
      <4>1. n - r \in Nat /\ n = r + (n - r)
        BY <1>0, <2>3
      <4> QED BY <4>1
    <3>2. m \in 1 .. q - 1 /\ m \in 1 .. q /\ m + 1 \in 1 .. q
          /\ n + 1 = r + (m + 1)
      BY <1>0, <2>3, <3>1
    <3>3. S[n] = Q[m] /\ S[n + 1] = Q[m + 1]
      BY <1>3, <3>1, <3>2
    <3> QED BY <3>2, <3>3 DEF AreRuns
  <2> QED BY <1>0, <2>1, <2>2, <2>3
<1>8. S = [n \in 1 .. Len(S) |-> S[n]] /\ Len(S) \in Nat \ {0} /\ Len(S) = r + q
  BY <1>0, <1>3
<1>9. AreRuns(S, a, c, cuts)
  <2> HIDE DEF r, q
  <2> QED BY <1>5, <1>6, <1>7, <1>8 DEF AreRuns
<1> QED BY <1>9 DEF S

\* Later runs begin after the earlier ones end.
LEMMA RunsInOrder ==
  ASSUME NEW R, NEW from \in Nat, NEW to \in Nat, NEW cuts,
         AreRuns(R, from, to, cuts)
  PROVE  \A j, k \in 1 .. Len(R) : j < k => R[j][2] < R[k][1]
<1> DEFINE N == Len(R)
           T == {d \in Nat : \A j \in 1 .. N :
                   j + d + 1 \in 1 .. N => R[j][2] < R[j + d + 1][1]}
<1>1. /\ N \in Nat
      /\ \A k \in 1 .. N :
              R[k][1] \in Nat /\ R[k][2] \in Nat /\ R[k][1] <= R[k][2]
      /\ \A k \in 1 .. N - 1 : R[k + 1][1] = R[k][2] + 1
  BY DEF AreRuns
<1> HIDE DEF N
<1>2. 0 \in T
  <2> SUFFICES ASSUME NEW j \in 1 .. N, j + 0 + 1 \in 1 .. N
               PROVE  R[j][2] < R[j + 0 + 1][1]
    OBVIOUS
  <2>1. j \in 1 .. N - 1 /\ j + 0 + 1 = j + 1
    BY <1>1
  <2> QED BY <1>1, <2>1
<1>3. ASSUME NEW d \in Nat, d \in T PROVE d + 1 \in T
  <2> SUFFICES ASSUME NEW j \in 1 .. N, j + (d + 1) + 1 \in 1 .. N
               PROVE  R[j][2] < R[j + (d + 1) + 1][1]
    OBVIOUS
  <2>1. PICK m : m = j + d + 1
    OBVIOUS
  <2>2. m \in 1 .. N - 1 /\ m \in 1 .. N /\ j + (d + 1) + 1 = m + 1
    BY <1>1, <2>1
  <2>3. R[j][2] < R[m][1]
    BY <1>3, <2>1, <2>2
  <2>4. R[m + 1][1] = R[m][2] + 1 /\ R[m][1] <= R[m][2]
    BY <1>1, <2>2
  <2> QED BY <1>1, <2>2, <2>3, <2>4
<1>4. \A d \in Nat : d \in T
  <2> HIDE DEF T
  <2> QED BY <1>2, <1>3, Induction
<1>5. ASSUME NEW j \in 1 .. N, NEW k \in 1 .. N, j < k PROVE R[j][2] < R[k][1]
  <2>1. k - j - 1 \in Nat /\ j + (k - j - 1) + 1 = k
    BY <1>1, <1>5
  <2> QED BY <1>4, <2>1
<1> QED BY <1>5 DEF N

\* The runs share nothing and leave nothing out.
LEMMA RunsCover ==
  ASSUME NEW R, NEW from \in Nat, NEW to \in Nat, NEW cuts,
         AreRuns(R, from, to, cuts)
  PROVE  \A i \in from .. to : \E k \in 1 .. Len(R) : i \in R[k][1] .. R[k][2]
<1>1. /\ Len(R) \in Nat \ {0}
      /\ \A k \in 1 .. Len(R) : R[k][1] \in Nat /\ R[k][2] \in Nat
      /\ \A k \in 1 .. Len(R) - 1 : R[k + 1][1] = R[k][2] + 1
      /\ R[1][1] = from /\ R[Len(R)][2] = to
  BY DEF AreRuns
<1> SUFFICES ASSUME NEW i \in from .. to
             PROVE  \E k \in 1 .. Len(R) : i \in R[k][1] .. R[k][2]
  OBVIOUS
<1> DEFINE T == {k \in 1 .. Len(R) : i <= R[k][2]}
<1>2. Len(R) \in T
  BY <1>1
<1>3. PICK k \in T : \A j \in T : k <= j
  <2>1. T \subseteq Nat /\ T # {}
    BY <1>2
  <2> HIDE DEF T
  <2> QED BY <2>1, LeastNatural
<1>4. R[k][1] <= i
  <2>1. CASE k = 1
    BY <1>1, <2>1
  <2>2. CASE k # 1
    <3>1. k - 1 \in 1 .. Len(R) - 1 /\ k - 1 \in 1 .. Len(R) /\ ~(k <= k - 1)
      BY <1>1, <2>2
    <3>2. k - 1 \notin T
      BY <1>3, <3>1
    <3>3. ~(i <= R[k - 1][2])
      BY <3>1, <3>2
    <3>4. R[(k - 1) + 1][1] = R[k - 1][2] + 1 /\ (k - 1) + 1 = k
      BY <1>1, <3>1
    <3>5. R[k][1] = R[k - 1][2] + 1 /\ R[k - 1][2] \in Nat
      BY <1>1, <3>1, <3>4
    <3> QED BY <3>3, <3>5
  <2> QED BY <2>1, <2>2
<1>5. k \in 1 .. Len(R) /\ R[k][1] \in Nat /\ R[k][2] \in Nat /\ i <= R[k][2]
  BY <1>1
<1> QED BY <1>4, <1>5

\* The members of S each run holds, and those past its first member.
Shares(R, S, p) == \A k \in 1 .. Len(R) : p[k] = (R[k][1] .. R[k][2]) \cap S
SharesInside(R, S, p) ==
  \A k \in 1 .. Len(R) : p[k] = (R[k][1] + 1 .. R[k][2]) \cap S

\* What the runs hold of a set, together and apart.
LEMMA RunsShare ==
  ASSUME NEW R, NEW from \in Nat, NEW to \in Nat, NEW cuts,
         AreRuns(R, from, to, cuts), NEW S, NEW p, Shares(R, S, p)
  PROVE  /\ Union(p, 1 .. Len(R)) = (from .. to) \cap S
         /\ Apart(p, 1 .. Len(R))
<1> USE DEF Shares
<1>1. /\ Len(R) \in Nat
      /\ \A k \in 1 .. Len(R) :
           R[k][1] \in from .. to /\ R[k][2] \in from .. to
  BY DEF AreRuns
<1>2. \A i \in (from .. to) \cap S : \E k \in 1 .. Len(R) : i \in p[k]
  BY RunsCover
<1>3. \A k \in 1 .. Len(R) : p[k] \subseteq (from .. to) \cap S
  <2> SUFFICES ASSUME NEW k \in 1 .. Len(R), NEW i \in p[k]
               PROVE  i \in (from .. to) \cap S
    OBVIOUS
  <2>1. i \in R[k][1] .. R[k][2] /\ i \in S
    OBVIOUS
  <2>2. R[k][1] \in from .. to /\ R[k][2] \in from .. to
    BY <1>1
  <2> QED BY <2>1, <2>2
<1>4. ASSUME NEW j \in 1 .. Len(R), NEW k \in 1 .. Len(R), j < k
      PROVE  p[j] \cap p[k] = {}
  <2>1. R[j][2] < R[k][1] /\ R[j][2] \in Nat /\ R[k][1] \in Nat
    BY <1>1, <1>4, RunsInOrder
  <2>2. \A i : ~(i \in R[j][1] .. R[j][2] /\ i \in R[k][1] .. R[k][2])
    <3>1. R[j][1] \in Nat /\ R[k][2] \in Nat
      BY <1>1
    <3> QED BY <2>1, <3>1
  <2> QED BY <2>2
<1>5. ASSUME NEW j \in 1 .. Len(R), NEW k \in 1 .. Len(R), j # k
      PROVE  p[j] \cap p[k] = {}
  <2>1. j < k \/ k < j
    BY <1>1, <1>5
  <2> QED BY <1>4, <2>1
<1>6. Union(p, 1 .. Len(R)) = (from .. to) \cap S
  BY <1>2, <1>3 DEF Union
<1> QED BY <1>5, <1>6 DEF Apart

\* What the runs hold of a set past their first members: all but the cuts.
LEMMA RunsShareInside ==
  ASSUME NEW R, NEW from \in Nat, NEW to \in Nat, NEW cuts,
         AreRuns(R, from, to, cuts), NEW S, NEW p, SharesInside(R, S, p)
  PROVE  /\ Union(p, 1 .. Len(R))
              = {i \in (from + 1 .. to) \cap S : i \notin cuts}
         /\ Apart(p, 1 .. Len(R))
<1> USE DEF SharesInside
<1> DEFINE U == {i \in (from + 1 .. to) \cap S : i \notin cuts}
           q == [k \in 1 .. Len(R) |-> (R[k][1] .. R[k][2]) \cap S]
<1>1. /\ Len(R) \in Nat \ {0} /\ R[1][1] = from
      /\ \A k \in 1 .. Len(R) :
           /\ R[k][1] \in from .. to /\ R[k][2] \in from .. to
           /\ \A i \in R[k][1] + 1 .. R[k][2] : i \notin cuts
      /\ \A k \in 1 .. Len(R) - 1 :
           R[k + 1][1] = R[k][2] + 1 /\ R[k + 1][1] \in cuts
  BY DEF AreRuns
<1>2. /\ Union(q, 1 .. Len(R)) = (from .. to) \cap S
      /\ Apart(q, 1 .. Len(R))
  <2>1. PICK e : e = q
    OBVIOUS
  <2>2. Shares(R, S, e)
    BY <2>1 DEF Shares
  <2>3. /\ Union(e, 1 .. Len(R)) = (from .. to) \cap S
        /\ Apart(e, 1 .. Len(R))
    BY <2>2, RunsShare
  <2> HIDE DEF q
  <2> QED BY <2>1, <2>3
<1>3. \A k \in 1 .. Len(R) : p[k] \subseteq q[k]
  <2> SUFFICES ASSUME NEW k \in 1 .. Len(R), NEW i \in p[k] PROVE i \in q[k]
    OBVIOUS
  <2>1. i \in R[k][1] + 1 .. R[k][2] /\ i \in S
    OBVIOUS
  <2>2. R[k][1] \in Nat /\ R[k][2] \in Nat
    BY <1>1
  <2> QED BY <2>1, <2>2
<1>4. \A k \in 1 .. Len(R) : \A i \in p[k] : i \in U
  <2> SUFFICES ASSUME NEW k \in 1 .. Len(R), NEW i \in p[k] PROVE i \in U
    OBVIOUS
  <2>1. i \in R[k][1] + 1 .. R[k][2] /\ i \in S
    OBVIOUS
  <2>2. R[k][1] \in from .. to /\ R[k][2] \in from .. to /\ i \notin cuts
    BY <1>1, <2>1
  <2> QED BY <2>1, <2>2
<1>5. ASSUME NEW i \in U PROVE \E k \in 1 .. Len(R) : i \in p[k]
  <2>1. i \in from .. to /\ i \in S
    OBVIOUS
  <2>2. PICK k \in 1 .. Len(R) : i \in R[k][1] .. R[k][2]
    BY <2>1, RunsCover
  <2>3. i # R[k][1]
    <3>1. CASE k = 1
      BY <1>1, <3>1
    <3>2. CASE k # 1
      <4>1. k - 1 \in 1 .. Len(R) - 1 /\ (k - 1) + 1 = k
        BY <1>1, <3>2
      <4>2. R[k][1] \in cuts
        BY <1>1, <4>1
      <4> QED BY <4>2
    <3> QED BY <3>1, <3>2
  <2>4. R[k][1] \in Nat /\ R[k][2] \in Nat
    BY <1>1
  <2>5. i \in R[k][1] + 1 .. R[k][2]
    BY <2>2, <2>3, <2>4
  <2> QED BY <2>1, <2>5
<1>6. Union(p, 1 .. Len(R)) = U
  <2> HIDE DEF U
  <2> QED BY <1>4, <1>5 DEF Union
<1>7. Apart(p, 1 .. Len(R))
  <2> HIDE DEF q
  <2> QED BY <1>2, <1>3 DEF Apart
<1> QED BY <1>6, <1>7

\* A span no cut divides lies within one run.
LEMMA WithinRun ==
  ASSUME NEW R, NEW from \in Nat, NEW to \in Nat, NEW cuts,
         AreRuns(R, from, to, cuts),
         NEW a \in from .. to, NEW b \in from .. to, a <= b,
         \A i \in a + 1 .. b : i \notin cuts
  PROVE  \E r \in DOMAIN R : R[r][1] <= a /\ b <= R[r][2]
<1>1. /\ Len(R) \in Nat \ {0}
      /\ R = [n \in 1 .. Len(R) |-> R[n]]
      /\ \A k \in 1 .. Len(R) : R[k][1] \in Nat /\ R[k][2] \in Nat
      /\ \A k \in 1 .. Len(R) - 1 :
           R[k + 1][1] = R[k][2] + 1 /\ R[k + 1][1] \in cuts
      /\ R[Len(R)][2] = to
  BY DEF AreRuns
<1>2. PICK r \in 1 .. Len(R) : a \in R[r][1] .. R[r][2]
  BY RunsCover
<1>3. b <= R[r][2]
  <2>1. CASE r = Len(R)
    BY <1>1, <2>1
  <2>2. CASE r # Len(R)
    <3>1. r \in 1 .. Len(R) - 1
      BY <1>1, <2>2
    <3>2. R[r][2] + 1 \in cuts /\ R[r][2] \in Nat
      BY <1>1, <3>1
    <3>3. R[r][2] + 1 \notin a + 1 .. b
      BY <3>2
    <3> QED BY <1>2, <3>2, <3>3
  <2> QED BY <2>1, <2>2
<1>4. r \in DOMAIN R
  BY <1>1, Zenon
<1>5. R[r][1] <= a
  BY <1>1, <1>2
<1> QED BY <1>3, <1>4, <1>5

\* A set in disjoint parts has as many members as they have together.
LEMMA CountParts ==
  ASSUME NEW K, IsFiniteSet(K), NEW p, IsFiniteSet(Union(p, K)),
         Apart(p, K), NEW F, CountsParts(F, p, K)
  PROVE  AddUp(F, K) = Cardinality(Union(p, K)) /\ Summable(F, K)
<1>1. PICK f : f = [x \in Union(p, K) |-> 1]
  OBVIOUS
<1>2. \A x \in Union(p, K) : f[x] = 1
  BY <1>1
<1>3. Summable(f, Union(p, K))
  BY <1>2 DEF Summable
<1>4. \A k \in K : p[k] \subseteq Union(p, K)
  BY DEF Union
<1>5. AddsParts(F, f, p, K)
  <2> SUFFICES ASSUME NEW k \in K PROVE Cardinality(p[k]) = AddUp(f, p[k])
    BY DEF AddsParts, CountsParts
  <2>1. IsFiniteSet(p[k]) /\ \A x \in p[k] : f[x] = 1
    BY <1>2, <1>4, FS_Subset
  <2> QED BY <2>1, AddUpOnes
<1>6. AddUp(F, K) = AddUp(f, Union(p, K)) /\ Summable(F, K)
  BY <1>3, <1>5, AddUpParts
<1>7. AddUp(f, Union(p, K)) = Cardinality(Union(p, K))
  BY <1>2, AddUpOnes
<1> QED BY <1>6, <1>7

\* A sum over a set of a function given by its values.
LEMMA SumIs ==
  ASSUME NEW f, NEW S, NEW g, g = [x \in S |-> g[x]], \A x \in S : g[x] = f[x]
  PROVE  SumFunction(g) = AddUp(f, S)
<1>1. g = Only(f, S)
  BY DEF Only
<1> QED BY <1>1 DEF AddUp

-----------------------------------------------------------------------------
(* Sequences joined one after the other.                                   *)

\* f joins the sequences of e: f[n] is the first n of them end to end.
Joined(f, e) ==
  f = [i \in Nat |-> IF i = 0 THEN <<>> ELSE f[i - 1] \o e[i]]
JoinedUpTo(n, f, e) ==
  f = [i \in 0 .. n |-> IF i = 0 THEN <<>> ELSE f[i - 1] \o e[i]]

LEMMA JoinedUpToAt ==
  ASSUME NEW e, NEW n \in Nat, NEW f, JoinedUpTo(n, f, e), NEW i \in 0 .. n
  PROVE  /\ i = 0 => f[i] = <<>>
         /\ i # 0 => f[i] = f[i - 1] \o e[i]
<1> DEFINE h == [j \in 0 .. n |-> IF j = 0 THEN <<>> ELSE f[j - 1] \o e[j]]
<1>1. f = h
  BY DEF JoinedUpTo
<1>2. h[i] = IF i = 0 THEN <<>> ELSE f[i - 1] \o e[i]
  OBVIOUS
<1> HIDE DEF h
<1>3. f[i] = h[i]
  BY <1>1
<1> QED BY <1>2, <1>3

LEMMA JoinedAgree ==
  ASSUME NEW e, NEW m \in Nat, NEW n \in Nat, NEW f, NEW g,
         JoinedUpTo(m, f, e), JoinedUpTo(n, g, e)
  PROVE  \A i \in Nat : i <= m /\ i <= n => f[i] = g[i]
<1> DEFINE T == {i \in Nat : i <= m /\ i <= n => f[i] = g[i]}
<1>1. 0 \in T
  BY DEF JoinedUpTo
<1>2. ASSUME NEW i \in Nat, i \in T PROVE i + 1 \in T
  <2> SUFFICES ASSUME i + 1 <= m, i + 1 <= n PROVE f[i + 1] = g[i + 1]
    OBVIOUS
  <2>1. f[i] = g[i] /\ i + 1 \in 0 .. m /\ i + 1 \in 0 .. n /\ (i + 1) - 1 = i
    BY <1>2
  <2>0. i + 1 # 0
    OBVIOUS
  <2>2. f[i + 1] = f[(i + 1) - 1] \o e[i + 1]
    BY <2>0, <2>1, JoinedUpToAt, Zenon
  <2>3. g[i + 1] = g[(i + 1) - 1] \o e[i + 1]
    BY <2>0, <2>1, JoinedUpToAt, Zenon
  <2> QED BY <2>1, <2>2, <2>3
<1> HIDE DEF T
<1>3. \A i \in Nat : i \in T
  BY <1>1, <1>2, Induction
<1> QED BY <1>3 DEF T

LEMMA JoinedUpToExists ==
  ASSUME NEW e
  PROVE  \A n \in Nat : \E f : JoinedUpTo(n, f, e)
<1> DEFINE T == {n \in Nat : \E f : JoinedUpTo(n, f, e)}
<1>1. 0 \in T
  <2> DEFINE f == [i \in 0 .. 0 |-> <<>>]
  <2>1. JoinedUpTo(0, f, e)
    BY DEF JoinedUpTo
  <2> QED BY <2>1
<1>2. ASSUME NEW n \in Nat, n \in T PROVE n + 1 \in T
  <2>1. PICK f : JoinedUpTo(n, f, e)
    BY <1>2
  <2> DEFINE g == [i \in 0 .. n + 1 |-> IF i = n + 1 THEN f[n] \o e[n + 1]
                                        ELSE f[i]]
  <2>2. ASSUME NEW i \in 0 .. n + 1
        PROVE  g[i] = IF i = 0 THEN <<>> ELSE g[i - 1] \o e[i]
    <3>1. CASE i = n + 1
      <4>1. i - 1 = n /\ n \in 0 .. n + 1 /\ n # n + 1 /\ i # 0
        BY <3>1
      <4>2. g[i] = f[n] \o e[n + 1] /\ g[n] = f[n]
        BY <3>1, <4>1
      <4> HIDE DEF g
      <4> QED BY <3>1, <4>1, <4>2
    <3>2. CASE i # n + 1 /\ i # 0
      <4>1. i \in 0 .. n /\ i - 1 \in 0 .. n /\ i - 1 # n + 1
            /\ i - 1 \in 0 .. n + 1
        BY <3>2
      <4>2. f[i] = f[i - 1] \o e[i]
        BY <2>1, <3>2, <4>1, JoinedUpToAt, Zenon
      <4> QED BY <3>2, <4>1, <4>2
    <3>3. CASE i = 0
      BY <2>1, <3>3 DEF JoinedUpTo
    <3> QED BY <3>1, <3>2, <3>3
  <2>3. g = [i \in 0 .. n + 1 |-> g[i]]
    OBVIOUS
  <2> HIDE DEF g
  <2>4. JoinedUpTo(n + 1, g, e)
    BY <2>2, <2>3 DEF JoinedUpTo
  <2> QED BY <2>4
<1> HIDE DEF T
<1>3. \A n \in Nat : n \in T
  BY <1>1, <1>2, Induction
<1> QED BY <1>3 DEF T

LEMMA JoinedExists ==
  ASSUME NEW e
  PROVE  \E f : Joined(f, e)
<1> DEFINE G(n) == CHOOSE g : JoinedUpTo(n, g, e)
           f    == [n \in Nat |-> G(n)[n]]
<1>1. \A n \in Nat : JoinedUpTo(n, G(n), e)
  BY JoinedUpToExists
<1> HIDE DEF G
<1>2. ASSUME NEW n \in Nat
      PROVE  f[n] = IF n = 0 THEN <<>> ELSE f[n - 1] \o e[n]
  <2>1. CASE n = 0
    <3>1. 0 \in 0 .. 0
      OBVIOUS
    <3>2. G(0)[0] = <<>>
      BY <1>1, <2>1, <3>1, JoinedUpToAt, Zenon
    <3> QED BY <2>1, <3>2
  <2>2. CASE n # 0
    <3>1. n - 1 \in Nat /\ n - 1 <= n /\ n \in 0 .. n /\ n - 1 \in 0 .. n
      BY <2>2
    <3>2. G(n)[n] = G(n)[n - 1] \o e[n]
      BY <1>1, <2>2, <3>1, JoinedUpToAt, Zenon
    <3>3. JoinedUpTo(n, G(n), e) /\ JoinedUpTo(n - 1, G(n - 1), e)
      BY <1>1, <3>1
    <3>4. G(n)[n - 1] = G(n - 1)[n - 1]
      BY <3>1, <3>3, JoinedAgree
    <3> QED BY <2>2, <3>1, <3>2, <3>4
  <2> QED BY <2>1, <2>2
<1>3. f = [n \in Nat |-> f[n]]
  OBVIOUS
<1> HIDE DEF f
<1>4. Joined(f, e)
  BY <1>2, <1>3 DEF Joined
<1> QED BY <1>4

LEMMA JoinedAt ==
  ASSUME NEW e, NEW f, Joined(f, e), NEW i \in Nat
  PROVE  /\ i = 0 => f[i] = <<>>
         /\ i # 0 => f[i] = f[i - 1] \o e[i]
<1> DEFINE h == [j \in Nat |-> IF j = 0 THEN <<>> ELSE f[j - 1] \o e[j]]
<1>1. f = h
  BY DEF Joined
<1>2. h[i] = IF i = 0 THEN <<>> ELSE f[i - 1] \o e[i]
  OBVIOUS
<1> HIDE DEF h
<1>3. f[i] = h[i]
  BY <1>1
<1> QED BY <1>2, <1>3

-----------------------------------------------------------------------------
(* What the projections read of an entity's observations and transitions.  *)

\* Every edge was measured when its later observation was read.
EdgeMeasured(i) ==
  /\ obs[i].disc <=> IsDiscontinuity(StepEffective(i), StepDT(i))
  /\ obs[i].segment = obs[i - 1].segment + (IF obs[i].disc THEN 1 ELSE 0)
EdgesMeasured == obs[1].segment = 1 /\ \A i \in Edge : EdgeMeasured(i)

\* No two transitions arrive at one presence.
ArrivalsOrdered ==
  \A j, k \in DOMAIN transitions :
    j < k => transitions[j].destination < transitions[k].destination

\* The inductive invariant of one entity.
Trajectory == Timeline /\ Measures /\ EdgesMeasured /\ ArrivalsOrdered

\* What is read next is measured against the observation before it.
LEMMA MeasuredNext ==
  ASSUME Inductive, EdgesMeasured, NEW o \in Incoming, Consume(o)
  PROVE  EdgesMeasured'
<1>1. /\ o \in Observation /\ TypeOK
      /\ Len(obs) \in Nat \ {0} /\ Now = Len(obs) + 1 /\ Len(obs') = Now
      /\ obs'[Now] = o /\ \A i \in 1 .. Len(obs) : obs'[i] = obs[i]
  BY Reading, Read
<1>2. PICK fix \in Fix : o = Measured(obs[Len(obs)], fix)
  BY DEF Incoming
<1>3. PICK prev : prev = obs[Len(obs)]
  OBVIOUS
<1>4. /\ prev \in Observation /\ prev.ts \in Nat /\ prev.segment \in Nat
      /\ fix.dt \in Nat /\ fix.dt > 0
  <2>1. Len(obs) \in Index
    BY <1>1 DEF Index
  <2>2. fix.dt \in StepS
    BY DEF Fix
  <2>3. prev \in Observation
    BY <1>1, <1>3, <2>1, ObservationAt
  <2>4. fix.dt \in Nat \ {0}
    BY <2>2, StepAssumption
  <2>5. fix.dt \in Nat /\ fix.dt > 0
    BY <2>4
  <2> QED BY <2>3, <2>5 DEF Observation
<1>5. /\ o.ts = prev.ts + fix.dt /\ o.place = fix.place /\ o.ha = fix.ha
      /\ o.disc = IsDiscontinuity(EffectiveDistance(prev, fix), fix.dt)
      /\ o.segment = IF o.disc THEN prev.segment + 1 ELSE prev.segment
  BY <1>2, <1>3 DEF Measured
<1>6. EffectiveDistance(prev, fix) = EffectiveDistance(prev, o)
  BY <1>5 DEF EffectiveDistance, KnownRadius
<1>7. o.ts - prev.ts = fix.dt
  BY <1>4, <1>5
<1>8. /\ o.disc <=> IsDiscontinuity(EffectiveDistance(prev, o), o.ts - prev.ts)
      /\ o.segment = prev.segment + (IF o.disc THEN 1 ELSE 0)
  BY <1>4, <1>5, <1>6, <1>7
<1>9. ASSUME NEW i \in Nat, i = Now PROVE EdgeMeasured(i)'
  <2>1. obs'[i - 1] = prev /\ obs'[i] = o
    BY <1>1, <1>3, <1>9
  <2> QED BY <1>8, <2>1 DEF EdgeMeasured, StepEffective, StepDT
<1>10. ASSUME NEW i \in 2 .. Len(obs) PROVE EdgeMeasured(i)'
  <2>1. i - 1 \in 1 .. Len(obs) /\ i \in 1 .. Len(obs)
    BY <1>1
  <2>2. obs'[i] = obs[i] /\ obs'[i - 1] = obs[i - 1]
    BY <1>1, <2>1
  <2>3. EdgeMeasured(i)
    BY DEF EdgesMeasured, Edge
  <2> QED BY <2>2, <2>3 DEF EdgeMeasured, StepEffective, StepDT
<1>11. \A i \in Edge' : i \in 2 .. Len(obs) \/ (i = Now /\ i \in Nat)
  BY <1>1 DEF Edge
<1>12. obs'[1].segment = 1
  BY <1>1 DEF EdgesMeasured
<1> QED BY <1>9, <1>10, <1>11, <1>12 DEF EdgesMeasured

\* An arrival is later than every transition before it.
LEMMA ArrivalIsLatest ==
  ASSUME Evidence, ArrivalsOrdered, NEW o \in Incoming, ConfirmArrival(o)
  PROVE  ArrivalsOrdered'
<1>1. TypeOK /\ ~Finished /\ ~Present /\ pending # NoPending
  BY IncomingType DEF Evidence, Inductive, Finished, Present, ConfirmArrival,
                      ArrivalMatches
<1>2. PICK tr : tr = MakeTransition(state.anchorIdx)
  OBVIOUS
<1>3. tr.destination = state.anchorIdx /\ tr \in Transition
  BY <1>1, <1>2, TransitionType DEF MakeTransition, TypeOK, PresenceState
<1>4. transitions \in Seq(Transition) /\ transitions' = Append(transitions, tr)
  BY <1>1, <1>2 DEF TypeOK, ConfirmArrival
<1>5. /\ Len(transitions) \in Nat /\ DOMAIN transitions = 1 .. Len(transitions)
      /\ DOMAIN transitions' = 1 .. Len(transitions) + 1
      /\ transitions'[Len(transitions) + 1] = tr
      /\ \A k \in DOMAIN transitions : transitions'[k] = transitions[k]
  BY <1>3, <1>4
<1>6. ASSUME NEW t \in DOMAIN transitions
      PROVE  transitions[t].destination < state.anchorIdx
  <2>1. PICK k \in DOMAIN presence :
          IF k < Len(presence)
            THEN presence[k + 1].start = transitions[t].destination
            ELSE ~Finished /\ Present
    BY Zenon DEF Evidence, TransitionsLink
  <2>2. k \in 1 .. Len(presence) /\ Len(presence) \in Nat
    BY <1>1, PresenceFields
  <2>3. k < Len(presence) /\ presence[k + 1].start = transitions[t].destination
    BY <1>1, <2>1
  <2>4. k + 1 \in DOMAIN presence
    BY <1>1, <2>2, <2>3 DEF TypeOK
  <2>5. presence[k + 1].start < presence[k + 1].end
    BY <2>4 DEF Evidence, PresencesSound, Sound
  <2>6. presence[k + 1].end < state.anchorIdx
    BY <1>1, <2>4 DEF Evidence, PresencesOrdered
  <2>7. presence[k + 1].start \in Nat /\ presence[k + 1].end \in Nat
        /\ state.anchorIdx \in Nat
    BY <1>1, <2>4, PresenceFields DEF Index, TypeOK, PresenceState
  <2> QED BY <2>3, <2>5, <2>6, <2>7
<1> QED BY <1>3, <1>5, <1>6 DEF ArrivalsOrdered

\* The end of the input enriches the transitions and keeps where they arrive.
LEMMA EnrichedArrivals ==
  ASSUME TypeOK, ArrivalsOrdered, Finish
  PROVE  ArrivalsOrdered'
<1>1. PICK all : transitions' = [k \in DOMAIN transitions |->
                                  Enriched(transitions[k], all)]
  BY DEF Finish
<1>2. ASSUME NEW k \in DOMAIN transitions
      PROVE  transitions'[k].destination = transitions[k].destination
  <2>1. PICK tr : tr = transitions[k]
    OBVIOUS
  <2>2. tr \in Transition
    BY <2>1 DEF TypeOK
  <2>3. \A c : [tr EXCEPT !.destCount = c].destination = tr.destination
    BY <2>2 DEF Transition
  <2>4. Enriched(tr, all).destination = tr.destination
    BY <2>3 DEF Enriched
  <2> QED BY <1>1, <2>1, <2>4
<1>3. DOMAIN transitions' = DOMAIN transitions
  BY <1>1
<1> QED BY <1>2, <1>3 DEF ArrivalsOrdered

\* The trajectory of an entity is well formed from its first observation.
LEMMA InitTrajectory == Init => Trajectory
<1> SUFFICES ASSUME Init PROVE Trajectory
  OBVIOUS
<1>1. Timeline /\ TypeOK
  BY InitTimeline DEF Timeline, Evidence, Inductive
<1>2. PICK p \in Place, h \in HA : obs = <<FirstObservation(p, h)>>
  BY DEF Init
<1>3. obs[1] = FirstObservation(p, h) /\ Len(obs) = 1
  BY <1>2
<1>4. Edge = {}
  BY <1>3 DEF Edge
<1>5. presence = <<>> /\ transitions = <<>>
  BY DEF Init
<1>6. DOMAIN presence = {} /\ DOMAIN transitions = {}
  BY <1>5
<1>7. Measures
  BY <1>3, <1>6 DEF Measures, FirstObservation
<1>8. EdgesMeasured
  BY <1>3, <1>4 DEF EdgesMeasured, FirstObservation
<1> QED BY <1>1, <1>6, <1>7, <1>8 DEF Trajectory, ArrivalsOrdered

\* It stays so while the eventizer reads and returns.
LEMMA NextTrajectory == Trajectory /\ [Next]_vars => Trajectory'
<1> SUFFICES ASSUME Trajectory, [Next]_vars PROVE Trajectory'
  OBVIOUS
<1>1. Evidence /\ Inductive /\ TypeOK
  BY DEF Trajectory, Timeline, Evidence, Inductive
<1>2. Timeline' /\ Measures'
  BY <1>1, NextTimeline, NextMeasures DEF Trajectory
<1>3. ASSUME NEW o \in Incoming, Consume(o), transitions' = transitions
      PROVE  EdgesMeasured' /\ ArrivalsOrdered'
  BY <1>1, <1>3, MeasuredNext DEF Trajectory, ArrivalsOrdered
<1>4. ASSUME NEW o \in Incoming, ConfirmArrival(o)
      PROVE  EdgesMeasured' /\ ArrivalsOrdered'
  BY <1>1, <1>4, MeasuredNext, ArrivalIsLatest DEF Trajectory, ConfirmArrival
<1>5. CASE Finish
  <2>1. obs' = obs
    BY <1>5 DEF Finish
  <2>2. EdgesMeasured'
    BY <2>1 DEF Trajectory, EdgesMeasured, EdgeMeasured, Edge, StepEffective,
       StepDT
  <2> QED BY <1>1, <1>2, <1>5, <2>2, EnrichedArrivals DEF Trajectory
<1>6. CASE UNCHANGED vars
  <2>1. obs' = obs /\ transitions' = transitions
    BY <1>6 DEF vars
  <2> QED BY <1>2, <2>1 DEF Trajectory, EdgesMeasured, EdgeMeasured, Edge,
                      StepEffective, StepDT, ArrivalsOrdered
<1>7. ASSUME NEW o \in Incoming,
             \/ ContinuityBreak(o) \/ ConfirmPresence(o) \/ Reanchor(o)
             \/ RemainInside(o) \/ DepartUnconfirmed(o) \/ StartCandidate(o)
             \/ RestartCandidate(o) \/ ConfirmDeparture(o)
      PROVE  EdgesMeasured' /\ ArrivalsOrdered'
  <2>1. Consume(o) /\ transitions' = transitions
    BY <1>7 DEF ContinuityBreak, ConfirmPresence, Reanchor, RemainInside,
                DepartUnconfirmed, StartCandidate, RestartCandidate,
                ConfirmDeparture, Depart
  <2> QED BY <1>3, <2>1
<1> QED BY <1>2, <1>4, <1>5, <1>6, <1>7 DEF Next, Trajectory

-----------------------------------------------------------------------------
(* The observations and edges of a trajectory.                             *)

LEMMA Basics ==
  ASSUME Trajectory
  PROVE  /\ Len(obs) \in Nat /\ Len(obs) >= 1
         /\ Index = 1 .. Len(obs) /\ Edge = 2 .. Len(obs)
         /\ \A i \in 1 .. Len(obs) :
              /\ obs[i].ts \in Nat /\ obs[i].place \in Place
              /\ obs[i].segment \in Nat
              /\ obs[i].gap \in BOOLEAN /\ obs[i].disc \in BOOLEAN
              /\ KnownRadius(obs[i]) \in Nat
<1>1. TypeOK
  BY DEF Trajectory, Timeline, Evidence, Inductive
<1>2. /\ Len(obs) \in Nat /\ Len(obs) >= 1
      /\ Index = 1 .. Len(obs) /\ Edge = 2 .. Len(obs)
  BY <1>1 DEF TypeOK, Index, Edge
<1>3. ASSUME NEW i \in 1 .. Len(obs)
      PROVE  /\ obs[i].ts \in Nat /\ obs[i].place \in Place
             /\ obs[i].segment \in Nat
             /\ obs[i].gap \in BOOLEAN /\ obs[i].disc \in BOOLEAN
             /\ KnownRadius(obs[i]) \in Nat
  <2>1. obs[i] \in Observation
    BY <1>1, <1>2, ObservationAt
  <2>2. obs[i].ha \in HA
    BY <2>1 DEF Observation
  <2>3. KnownRadius(obs[i]) \in Nat
    BY <2>2, HAAssumption DEF KnownRadius
  <2> QED BY <2>1, <2>3 DEF Observation
<1> QED BY <1>2, <1>3

\* The metrics of an edge.
LEMMA EdgeTypes ==
  ASSUME Trajectory, NEW i \in Edge
  PROVE  /\ i \in 2 .. Len(obs) /\ i \in 1 .. Len(obs) /\ i - 1 \in 1 .. Len(obs)
         /\ StepDT(i) \in Nat /\ StepDT(i) > 0
         /\ StepDistance(i) \in Nat /\ StepEffective(i) \in Nat
         /\ EdgeMeasured(i)
<1>1. i \in 2 .. Len(obs) /\ Len(obs) \in Nat /\ Index = 1 .. Len(obs)
  BY Basics
<1>2. i \in 1 .. Len(obs) /\ i - 1 \in 1 .. Len(obs) /\ i - 1 < i
  BY <1>1
<1>3. obs[i - 1].ts < obs[i].ts
  BY <1>1, <1>2 DEF Trajectory, Timeline, Clock
<1>4. StepDT(i) \in Nat /\ StepDT(i) > 0
  BY <1>2, <1>3, Basics DEF StepDT
<1>5. DistanceM(obs[i - 1].place, obs[i].place) \in Nat
  BY <1>2, Basics, PlaceAssumption
<1>6. StepEffective(i) \in Nat
  <2>1. PICK d : d = DistanceM(obs[i - 1].place, obs[i].place)
    OBVIOUS
  <2>2. PICK a : a = KnownRadius(obs[i - 1])
    OBVIOUS
  <2>3. PICK b : b = KnownRadius(obs[i])
    OBVIOUS
  <2>4. d \in Nat /\ a \in Nat /\ b \in Nat
    BY <1>2, <1>5, <2>1, <2>2, <2>3, Basics
  <2>5. (IF d - a - b < 0 THEN 0 ELSE d - a - b) \in Nat
    BY <2>4
  <2>6. StepEffective(i) = IF d - a - b < 0 THEN 0 ELSE d - a - b
    BY <2>1, <2>2, <2>3, Zenon DEF StepEffective, EffectiveDistance
  <2> QED BY <2>5, <2>6
<1>7. EdgeMeasured(i)
  BY DEF Trajectory, EdgesMeasured
<1> QED BY <1>1, <1>2, <1>4, <1>5, <1>6, <1>7 DEF StepDistance

Discs  == {i \in Edge : obs[i].disc}
Gaps   == {i \in Edge : obs[i].gap}
BrokenEdges == {i \in Edge : IsBreak(i)}
Spans  == RunsOf(1, Len(obs), {i \in Edge : obs[i].segment # obs[i - 1].segment})

\* The parts of a trajectory are finite, and the edges one fewer than its fixes.
LEMMA FiniteParts ==
  ASSUME Trajectory
  PROVE  /\ IsFiniteSet(Edge) /\ Cardinality(Edge) = Len(obs) - 1
         /\ \A S : S \subseteq Edge => IsFiniteSet(S) /\ Cardinality(S) \in Nat
         /\ \A S : S \subseteq 1 .. Len(obs) =>
              IsFiniteSet(S) /\ Cardinality(S) \in Nat
<1>1. Edge = 2 .. Len(obs) /\ Len(obs) \in Nat /\ Len(obs) >= 1
  BY Basics
<1>2. IsFiniteSet(2 .. Len(obs)) /\ IsFiniteSet(1 .. Len(obs))
      /\ Cardinality(2 .. Len(obs)) = Len(obs) - 1
  <2>1. 2 \in Int /\ 1 \in Int /\ Len(obs) \in Int
    BY <1>1
  <2>2. Cardinality(2 .. Len(obs)) = IF 2 > Len(obs) THEN 0 ELSE Len(obs) - 2 + 1
    BY <2>1, FS_Interval
  <2> QED BY <1>1, <2>1, <2>2, FS_Interval
<1>3. \A S, T : IsFiniteSet(T) /\ S \subseteq T =>
        IsFiniteSet(S) /\ Cardinality(S) \in Nat
  BY FS_Subset, FS_CardinalityType
<1> QED BY <1>1, <1>2, <1>3

\* The segments are cut at the discontinuities.
LEMMA SpansAre ==
  ASSUME Trajectory
  PROVE  /\ AreRuns(Spans, 1, Len(obs), Discs)
         /\ Len(Spans) = Cardinality(Discs) + 1
<1>1. {i \in Edge : obs[i].segment # obs[i - 1].segment} = Discs
  <2>1. ASSUME NEW i \in Edge
        PROVE  obs[i].segment # obs[i - 1].segment <=> obs[i].disc
    <3>1. obs[i].segment = obs[i - 1].segment + (IF obs[i].disc THEN 1 ELSE 0)
      BY EdgeTypes DEF EdgeMeasured
    <3>2. obs[i].segment \in Nat /\ obs[i - 1].segment \in Nat
      BY EdgeTypes, Basics
    <3> QED BY <3>1, <3>2
  <2> QED BY <2>1 DEF Discs
<1>2. Spans = RunsOf(1, Len(obs), Discs)
  BY <1>1 DEF Spans
<1>3. /\ AreRuns(Spans, 1, Len(obs), Discs)
      /\ Len(Spans) = Cardinality(Starts(1, Len(obs), Discs))
  BY <1>2, Basics, RunsAreRuns
<1>4. Starts(1, Len(obs), Discs) = Discs \cup {1} /\ 1 \notin Discs
  BY Basics DEF Starts, Discs
<1>5. IsFiniteSet(Discs) /\ Cardinality(Discs) \in Nat
  BY FiniteParts DEF Discs
<1>6. Cardinality(Discs \cup {1}) = Cardinality(Discs) + 1
  BY <1>4, <1>5, FS_AddElement
<1> QED BY <1>3, <1>4, <1>6

\* The rows of the segments, one for each span.
LEMMA SegmentRows ==
  ASSUME Trajectory
  PROVE  /\ Len(BuildSegments) = Len(Spans) /\ Len(Spans) \in Nat \ {0}
         /\ DOMAIN BuildSegments = 1 .. Len(Spans)
         /\ \A n \in 1 .. Len(Spans) :
              /\ BuildSegments[n] = SegmentRow(Spans[n][1], Spans[n][2])
              /\ Spans[n][1] \in 1 .. Len(obs) /\ Spans[n][2] \in 1 .. Len(obs)
              /\ Spans[n][1] <= Spans[n][2]
<1>1. AreRuns(Spans, 1, Len(obs), Discs)
  BY SpansAre
<1>2. /\ Len(Spans) \in Nat \ {0} /\ DOMAIN Spans = 1 .. Len(Spans)
      /\ \A n \in 1 .. Len(Spans) :
              /\ Spans[n][1] \in 1 .. Len(obs) /\ Spans[n][2] \in 1 .. Len(obs)
              /\ Spans[n][1] <= Spans[n][2]
  <2>1. Spans = [n \in 1 .. Len(Spans) |-> Spans[n]]
    BY <1>1 DEF AreRuns
  <2>2. DOMAIN Spans = 1 .. Len(Spans)
    BY <2>1, Zenon
  <2> QED BY <1>1, <2>2 DEF AreRuns
<1>3. BuildSegments = [n \in 1 .. Len(Spans) |->
                         SegmentRow(Spans[n][1], Spans[n][2])]
  BY <1>2, Zenon DEF BuildSegments, Spans
<1>4. DOMAIN BuildSegments = 1 .. Len(Spans)
  BY <1>3, Zenon
<1>5. Len(BuildSegments) = Len(Spans)
  BY <1>2, <1>4
<1>6. \A n \in 1 .. Len(Spans) :
        BuildSegments[n] = SegmentRow(Spans[n][1], Spans[n][2])
  BY <1>3, Zenon
<1> QED BY <1>2, <1>4, <1>5, <1>6

\* The segment number is the same from one fix to a later one unless an edge
\* between them is a discontinuity.
LEMMA SameSegment ==
  ASSUME Trajectory, NEW a \in 1 .. Len(obs), NEW b \in 1 .. Len(obs), a <= b,
         \A i \in a + 1 .. b : i \notin Discs
  PROVE  \A i \in a .. b : obs[i].segment = obs[a].segment
<1> DEFINE T == {d \in Nat : a + d <= b => obs[a + d].segment = obs[a].segment}
<1>0. a \in Nat /\ b \in Nat /\ b <= Len(obs) /\ Len(obs) \in Nat /\ a >= 1
  BY Basics
<1>1. 0 \in T
  BY <1>0
<1>2. ASSUME NEW d \in Nat, d \in T PROVE d + 1 \in T
  <2> SUFFICES ASSUME a + (d + 1) <= b
               PROVE  obs[a + (d + 1)].segment = obs[a].segment
    OBVIOUS
  <2>1. PICK i : i = a + (d + 1)
    OBVIOUS
  <2>2. i \in a + 1 .. b /\ i - 1 = a + d /\ a + d <= b /\ i \in 2 .. Len(obs)
    BY <1>0, <2>1
  <2>3. obs[i - 1].segment = obs[a].segment
    BY <1>2, <2>2
  <2>4. i \in Edge /\ i \notin Discs
    BY <2>2, Basics
  <2>5. obs[i].segment = obs[i - 1].segment + 0
    BY <2>4, EdgeTypes DEF Discs, EdgeMeasured
  <2>6. obs[i - 1].segment \in Nat
    BY <2>4, EdgeTypes, Basics
  <2> QED BY <2>1, <2>3, <2>5, <2>6
<1>3. \A d \in Nat : d \in T
  <2> HIDE DEF T
  <2> QED BY <1>1, <1>2, Induction
<1>4. ASSUME NEW i \in a .. b PROVE obs[i].segment = obs[a].segment
  <2>1. i - a \in Nat /\ a + (i - a) = i /\ i <= b
    BY <1>0
  <2>2. i - a \in T
    BY <1>3, <2>1
  <2> QED BY <2>1, <2>2
<1> QED BY <1>4

\* The nth segment row is that of segment n.
LEMMA SegmentsNumbered ==
  ASSUME Trajectory
  PROVE  \A n \in 1 .. Len(Spans) : \A i \in Spans[n][1] .. Spans[n][2] :
           obs[i].segment = n
<1> DEFINE T == {n \in Nat : n + 1 <= Len(Spans) =>
                              obs[Spans[n + 1][1]].segment = n + 1}
<1>1. /\ Len(Spans) \in Nat /\ Spans[1][1] = 1
      /\ \A n \in 1 .. Len(Spans) :
           /\ Spans[n][1] \in 1 .. Len(obs) /\ Spans[n][2] \in 1 .. Len(obs)
           /\ Spans[n][1] <= Spans[n][2]
           /\ \A i \in Spans[n][1] + 1 .. Spans[n][2] : i \notin Discs
      /\ \A n \in 1 .. Len(Spans) - 1 :
           Spans[n + 1][1] = Spans[n][2] + 1 /\ Spans[n + 1][1] \in Discs
  BY SpansAre DEF AreRuns
<1>2. ASSUME NEW n \in 1 .. Len(Spans)
      PROVE  \A i \in Spans[n][1] .. Spans[n][2] :
               obs[i].segment = obs[Spans[n][1]].segment
  BY <1>1, SameSegment
<1>3. 0 \in T
  BY <1>1 DEF Trajectory, EdgesMeasured
<1>4. ASSUME NEW n \in Nat, n \in T PROVE n + 1 \in T
  <2> SUFFICES ASSUME (n + 1) + 1 <= Len(Spans)
               PROVE  obs[Spans[(n + 1) + 1][1]].segment = (n + 1) + 1
    OBVIOUS
  <2>1. n + 1 \in 1 .. Len(Spans) - 1 /\ n + 1 \in 1 .. Len(Spans)
    BY <1>1
  <2>2. obs[Spans[n + 1][1]].segment = n + 1
    BY <1>4, <2>1
  <2>3. PICK i : i = Spans[(n + 1) + 1][1]
    OBVIOUS
  <2>4. i = Spans[n + 1][2] + 1 /\ i \in Discs
    BY <1>1, <2>1, <2>3
  <2>5. Spans[n + 1][2] \in Spans[n + 1][1] .. Spans[n + 1][2]
    BY <1>1, <2>1
  <2>6. obs[Spans[n + 1][2]].segment = n + 1
    BY <1>2, <2>1, <2>2, <2>5
  <2>7. i \in Edge /\ obs[i].disc
    BY <2>4 DEF Discs
  <2>8. obs[i].segment = obs[i - 1].segment + 1
    BY <2>7, EdgeTypes DEF EdgeMeasured
  <2>9. i - 1 = Spans[n + 1][2]
    BY <1>1, <2>1, <2>4
  <2> QED BY <2>3, <2>6, <2>8, <2>9
<1>5. \A n \in Nat : n \in T
  <2> HIDE DEF T
  <2> QED BY <1>3, <1>4, Induction
<1>6. ASSUME NEW n \in 1 .. Len(Spans) PROVE obs[Spans[n][1]].segment = n
  <2>1. n - 1 \in Nat /\ (n - 1) + 1 = n
    BY <1>1
  <2>2. n - 1 \in T
    BY <1>5, <2>1
  <2> QED BY <1>1, <2>1, <2>2
<1> QED BY <1>2, <1>6

-----------------------------------------------------------------------------
(* The segment rows and the track row.                                     *)

Inside(S) == [n \in 1 .. Len(Spans) |-> (Spans[n][1] + 1 .. Spans[n][2]) \cap S]

\* The segments share out the edges that are no discontinuity.
LEMMA InsideSegments ==
  ASSUME Trajectory, NEW S, S \subseteq Edge
  PROVE  /\ IsFiniteSet(1 .. Len(Spans))
         /\ Union(Inside(S), 1 .. Len(Spans)) = S \ Discs
         /\ Apart(Inside(S), 1 .. Len(Spans))
<1>1. AreRuns(Spans, 1, Len(obs), Discs) /\ Len(Spans) \in Nat
  BY SpansAre DEF AreRuns
<1>2. PICK p : p = Inside(S)
  OBVIOUS
<1>3. SharesInside(Spans, S, p)
  BY <1>2 DEF SharesInside, Inside
<1>4. /\ Union(p, 1 .. Len(Spans))
           = {i \in (1 + 1 .. Len(obs)) \cap S : i \notin Discs}
      /\ Apart(p, 1 .. Len(Spans))
  BY <1>1, <1>3, Basics, RunsShareInside
<1>5. {i \in (1 + 1 .. Len(obs)) \cap S : i \notin Discs} = S \ Discs
  BY Basics
<1>6. IsFiniteSet(1 .. Len(Spans))
  BY <1>1, FS_Interval
<1> QED BY <1>2, <1>4, <1>5, <1>6

\* What each segment counts of its edges.
LEMMA CountedInside ==
  ASSUME Trajectory, NEW S, S \subseteq Edge,
         NEW F, \A n \in 1 .. Len(Spans) : F[n] = Cardinality(Inside(S)[n])
  PROVE  AddUp(F, 1 .. Len(Spans)) = Cardinality(S \ Discs)
<1>1. IsFiniteSet(S \ Discs)
  <2>1. S \ Discs \subseteq Edge
    OBVIOUS
  <2> QED BY <2>1, FiniteParts
<1>2. PICK p : p = Inside(S)
  OBVIOUS
<1>3. /\ IsFiniteSet(1 .. Len(Spans))
      /\ Union(p, 1 .. Len(Spans)) = S \ Discs
      /\ Apart(p, 1 .. Len(Spans))
  BY <1>2, InsideSegments
<1>4. IsFiniteSet(Union(p, 1 .. Len(Spans)))
  BY <1>1, <1>3
<1>5. CountsParts(F, p, 1 .. Len(Spans))
  BY <1>2 DEF CountsParts
<1> QED BY <1>3, <1>4, <1>5, CountParts

\* What each segment adds up over its edges.
LEMMA AddedInside ==
  ASSUME Trajectory, NEW S, S \subseteq Edge, NEW f, Summable(f, Edge),
         NEW F, \A n \in 1 .. Len(Spans) : F[n] = AddUp(f, Inside(S)[n])
  PROVE  AddUp(F, 1 .. Len(Spans)) = AddUp(f, S \ Discs)
<1>1. Summable(f, S \ Discs)
  <2>1. S \ Discs \subseteq Edge
    OBVIOUS
  <2> QED BY <2>1, SummablePart
<1>2. PICK p : p = Inside(S)
  OBVIOUS
<1>3. /\ IsFiniteSet(1 .. Len(Spans))
      /\ Union(p, 1 .. Len(Spans)) = S \ Discs
      /\ Apart(p, 1 .. Len(Spans))
  BY <1>2, InsideSegments
<1>4. Summable(f, Union(p, 1 .. Len(Spans)))
  BY <1>1, <1>3
<1>5. AddsParts(F, f, p, 1 .. Len(Spans))
  BY <1>2 DEF AddsParts
<1>6. AddUp(F, 1 .. Len(Spans)) = AddUp(f, Union(p, 1 .. Len(Spans)))
  BY <1>3, <1>4, <1>5, AddUpParts
<1> QED BY <1>3, <1>6

Distances == [i \in Edge |-> StepDistance(i)]
Times     == [i \in Edge |-> StepDT(i)]

LEMMA DistancesAddUp ==
  ASSUME Trajectory
  PROVE  /\ Summable(Distances, Edge) /\ Summable(Times, Edge)
         /\ \A i \in Edge : Times[i] \in Nat
         /\ \A S : S \subseteq Edge =>
              /\ SumFunction([i \in S |-> StepDistance(i)]) = AddUp(Distances, S)
              /\ SumFunction([i \in S |-> StepDT(i)]) = AddUp(Times, S)
<1>1. \A i \in Edge : Distances[i] \in Nat /\ Times[i] \in Nat
  BY EdgeTypes DEF Distances, Times
<1>2. Summable(Distances, Edge) /\ Summable(Times, Edge)
  BY <1>1, FiniteParts DEF Summable
<1>3. ASSUME NEW S, S \subseteq Edge
      PROVE  /\ SumFunction([i \in S |-> StepDistance(i)]) = AddUp(Distances, S)
             /\ SumFunction([i \in S |-> StepDT(i)]) = AddUp(Times, S)
  <2>1. [i \in S |-> StepDistance(i)] = Only(Distances, S)
    BY <1>3 DEF Only, Distances
  <2>2. [i \in S |-> StepDT(i)] = Only(Times, S)
    BY <1>3 DEF Only, Times
  <2> QED BY <2>1, <2>2 DEF AddUp
<1> QED BY <1>1, <1>2, <1>3

\* What a segment row holds.
LEMMA SegmentHolds ==
  ASSUME Trajectory, NEW n \in 1 .. Len(Spans)
  PROVE  /\ BuildSegments[n].first = Spans[n][1]
         /\ BuildSegments[n].last = Spans[n][2]
         /\ BuildSegments[n].withHA = WithHA(Spans[n][1], Spans[n][2])
         /\ BuildSegments[n].support = SupportOf(Spans[n][1], Spans[n][2])
         /\ BuildSegments[n].gaps = Cardinality(Inside(Gaps)[n])
         /\ BuildSegments[n].pathM = AddUp(Distances, Inside(Edge \ Gaps)[n])
         /\ BuildSegments[n].observedS = AddUp(Times, Inside(Edge \ Gaps)[n])
         /\ SumFunction(BuildSegments[n].edges) = Cardinality(Inside(Edge)[n])
         /\ BuildSegments[n].runs
              = RunsOf(Spans[n][1], Spans[n][2], Gaps)
<1>1. PICK a : a = Spans[n][1]
  OBVIOUS
<1>2. PICK b : b = Spans[n][2]
  OBVIOUS
<1>3. BuildSegments[n] = SegmentRow(a, b)
  BY <1>1, <1>2, SegmentRows
<1>4. a \in 1 .. Len(obs) /\ b \in 1 .. Len(obs) /\ Edge = 2 .. Len(obs)
      /\ Len(obs) \in Nat
  BY <1>1, <1>2, SegmentRows, Basics
<1>5. a + 1 .. b \subseteq Edge
  BY <1>4
<1>6. /\ Inside(Gaps)[n] = {i \in a + 1 .. b : obs[i].gap}
      /\ Inside(Edge \ Gaps)[n] = SegmentPathEdges(a, b)
      /\ Inside(Edge)[n] = a + 1 .. b
  <2>1. \A S : Inside(S)[n] = (a + 1 .. b) \cap S
    BY <1>1, <1>2 DEF Inside
  <2> QED BY <1>5, <2>1 DEF Gaps, SegmentPathEdges
<1>7. SegmentPathEdges(a, b) \subseteq Edge
  BY <1>5 DEF SegmentPathEdges
<1>8. /\ SegmentRow(a, b).pathM = AddUp(Distances, SegmentPathEdges(a, b))
      /\ SegmentRow(a, b).observedS = AddUp(Times, SegmentPathEdges(a, b))
  BY <1>7, DistancesAddUp DEF SegmentRow
<1>9. SumFunction(SegmentRow(a, b).edges) = Cardinality(a + 1 .. b)
  <2>1. PICK f : f = [i \in a + 1 .. b |-> EdgeAccuracyState(i)]
    OBVIOUS
  <2>2. DOMAIN f = a + 1 .. b
    BY <2>1
  <2>3. IsFiniteSet(a + 1 .. b)
    BY <1>5, FiniteParts
  <2>4. IsTally(Tally(f)) /\ Whole(Tally(f)) = Cardinality(a + 1 .. b)
    BY <2>2, <2>3, TallyWeighs
  <2>5. PICK g : g = Tally(f)
    OBVIOUS
  <2>6. SumFunction(g) = AddUp(g, DOMAIN g)
    BY <2>4, <2>5, SumIsOverDomain DEF IsTally
  <2>7. SegmentRow(a, b).edges = g
    BY <2>1, <2>5 DEF SegmentRow
  <2> QED BY <2>4, <2>5, <2>6, <2>7 DEF Whole
<1>10. /\ SegmentRow(a, b).first = a /\ SegmentRow(a, b).last = b
       /\ SegmentRow(a, b).withHA = WithHA(a, b)
       /\ SegmentRow(a, b).support = SupportOf(a, b)
       /\ SegmentRow(a, b).gaps = Cardinality({i \in a + 1 .. b : obs[i].gap})
       /\ SegmentRow(a, b).runs = RunsOf(a, b, Gaps)
  BY DEF SegmentRow, Gaps
<1> QED BY <1>1, <1>2, <1>3, <1>6, <1>8, <1>9, <1>10

\* What Eventize has returned of the entity, and its rows.
Rows ==
  [built    |-> TRUE,
   segments |-> BuildSegments,
   track    |-> BuildTrack(events, BuildSegments, presence, transitions),
   entity   |-> BuildEntity(presence, transitions),
   movement |-> [k \in DOMAIN transitions |-> MovementSupport(transitions[k])],
   edges    |-> EdgeDiagnostics,
   steps    |-> StepDiagnostics,
   target   |-> TargetPopulation]

\* What the track row holds.
LEMMA TrackHolds ==
  ASSUME Trajectory, tables = Rows
  PROVE  /\ Segments = BuildSegments /\ tables.built
         /\ Track.coverageS = obs[Len(obs)].ts - obs[1].ts
         /\ Track.observations = Len(obs) /\ Track.segments = Len(BuildSegments)
         /\ Track.gaps = Cardinality(Gaps) /\ Track.discs = Cardinality(Discs)
         /\ Track.withHA = WithHA(1, Len(obs))
         /\ Track.support = SupportOf(1, Len(obs))
         /\ Track.pathM = AddUp(Distances, (Edge \ Gaps) \ Discs)
         /\ Track.runs = RunsOf(1, Len(obs), BrokenEdges)
<1>1. PICK track :
           track = BuildTrack(events, BuildSegments, presence, transitions)
  OBVIOUS
<1>2. Segments = BuildSegments /\ Track = track /\ tables.built = TRUE
  BY <1>1 DEF Rows, Segments, Track
<1>3. {i \in Edge : TrackPathEdges(i)} = (Edge \ Gaps) \ Discs
  BY DEF TrackPathEdges, IsBreak, Gaps, Discs
<1>4. (Edge \ Gaps) \ Discs \subseteq Edge
  OBVIOUS
<1>5. PICK path : path = (Edge \ Gaps) \ Discs
  OBVIOUS
<1>6. track.pathM = SumFunction([i \in path |-> StepDistance(i)])
  BY <1>1, <1>3, <1>5 DEF BuildTrack
<1>7. track.pathM = AddUp(Distances, path)
  BY <1>4, <1>5, <1>6, DistancesAddUp
<1>8. {i \in Edge : TrackRunCut(i)} = BrokenEdges
  BY DEF TrackRunCut, BrokenEdges
<1>9. track.runs = RunsOf(1, Len(obs), BrokenEdges)
  BY <1>1, <1>8 DEF BuildTrack
<1>10. /\ track.coverageS = obs[Len(obs)].ts - obs[1].ts
       /\ track.observations = Len(obs) /\ track.segments = Len(BuildSegments)
       /\ track.gaps = Cardinality(Gaps) /\ track.discs = Cardinality(Discs)
       /\ track.withHA = WithHA(1, Len(obs))
       /\ track.support = SupportOf(1, Len(obs))
  BY <1>1 DEF BuildTrack, Gaps, Discs
<1> QED BY <1>2, <1>5, <1>7, <1>9, <1>10

\* The time of all edges is that of the trajectory; any of them take no more.
LEMMA TimeOfEdges ==
  ASSUME Trajectory
  PROVE  /\ AddUp(Times, Edge) = obs[Len(obs)].ts - obs[1].ts
         /\ \A S : S \subseteq Edge =>
              /\ AddUp(Times, S) \in Nat
              /\ AddUp(Times, S) <= obs[Len(obs)].ts - obs[1].ts
         /\ \A a, b \in 1 .. Len(obs) : a <= b =>
              AddUp(Times, a + 1 .. b) = obs[b].ts - obs[a].ts
<1>1. PICK t : t = [i \in 1 .. Len(obs) |-> obs[i].ts]
  OBVIOUS
<1>2. Edge = 2 .. Len(obs) /\ Len(obs) \in Nat /\ Len(obs) >= 1
  BY Basics
<1>3. \A i \in 1 .. Len(obs) : t[i] = obs[i].ts /\ t[i] \in Int
  BY <1>1, Basics
<1>4. \A i \in Edge : Times[i] = t[i] - t[i - 1]
  BY <1>2, <1>3, EdgeTypes DEF Times, StepDT
<1>5. ASSUME NEW a \in 1 .. Len(obs), NEW b \in 1 .. Len(obs), a <= b
      PROVE  AddUp(Times, a + 1 .. b) = obs[b].ts - obs[a].ts
  <2>1. a \in Nat /\ b \in Nat
    OBVIOUS
  <2>2. \A i \in a .. b : t[i] \in Int
    BY <1>3
  <2>3. \A i \in a + 1 .. b : Times[i] = t[i] - t[i - 1]
    BY <1>2, <1>4
  <2>4. AddUp(Times, a + 1 .. b) = t[b] - t[a]
    BY <1>5, <2>1, <2>2, <2>3, AddUpDifferences
  <2> QED BY <1>3, <2>4
<1>6. AddUp(Times, Edge) = obs[Len(obs)].ts - obs[1].ts
  <2>1. 1 \in 1 .. Len(obs) /\ Len(obs) \in 1 .. Len(obs)
        /\ 1 + 1 .. Len(obs) = Edge
    BY <1>2
  <2> QED BY <1>2, <1>5, <2>1
<1>7. ASSUME NEW S, S \subseteq Edge
      PROVE  AddUp(Times, S) \in Nat /\ AddUp(Times, S) <= AddUp(Times, Edge)
  <2>1. IsFiniteSet(S) /\ IsFiniteSet(Edge)
    BY <1>7, FiniteParts
  <2>2. \A i \in Edge : Times[i] \in Nat
    BY DistancesAddUp
  <2> QED BY <1>7, <2>1, <2>2, AddUpNat, AddUpPart
<1> QED BY <1>5, <1>6, <1>7

\* The edges a counter of the eventizer counts.
LEMMA EdgeCounts ==
  LET edges == EdgeDiagnostics.edges
  IN  /\ edges["continuous_edges"] = Cardinality((Edge \ Gaps) \ Discs)
      /\ edges["gap_edges"] = Cardinality(Gaps)
      /\ edges["discontinuity_edges"] = Cardinality(Discs)
      /\ edges["gap_and_discontinuity_edges"] = Cardinality(Gaps \cap Discs)
<1>1. PICK edges : edges = EdgeDiagnostics.edges
  OBVIOUS
<1>2. \A k \in {"continuous_edges", "gap_edges", "discontinuity_edges",
                "gap_and_discontinuity_edges"} :
        edges[k] = Cardinality({i \in Edge : k \in EdgeKinds(i)})
  BY <1>1 DEF EdgeDiagnostics
<1>3. /\ {i \in Edge : "continuous_edges" \in EdgeKinds(i)}
              = (Edge \ Gaps) \ Discs
      /\ {i \in Edge : "gap_edges" \in EdgeKinds(i)} = Gaps
      /\ {i \in Edge : "discontinuity_edges" \in EdgeKinds(i)} = Discs
      /\ {i \in Edge : "gap_and_discontinuity_edges" \in EdgeKinds(i)}
              = Gaps \cap Discs
  BY DEF EdgeKinds, IsBreak, Gaps, Discs
<1> QED BY <1>1, <1>2, <1>3

\* The fixes with a known accuracy, by segment and in all.
LEMMA KnownInSegments ==
  ASSUME Trajectory,
         NEW F, \A n \in 1 .. Len(Spans) : F[n] = WithHA(Spans[n][1], Spans[n][2])
  PROVE  AddUp(F, 1 .. Len(Spans)) = WithHA(1, Len(obs))
<1> DEFINE S == {i \in 1 .. Len(obs) : Known(i)}
<1>1. PICK p : p = [n \in 1 .. Len(Spans) |-> (Spans[n][1] .. Spans[n][2]) \cap S]
  OBVIOUS
<1>2. Shares(Spans, S, p)
  BY <1>1 DEF Shares
<1>3. CountsParts(F, p, 1 .. Len(Spans))
  <2> SUFFICES ASSUME NEW n \in 1 .. Len(Spans) PROVE F[n] = Cardinality(p[n])
    BY DEF CountsParts
  <2>1. Spans[n][1] \in 1 .. Len(obs) /\ Spans[n][2] \in 1 .. Len(obs)
    BY SegmentRows
  <2>2. {i \in Spans[n][1] .. Spans[n][2] : Known(i)}
          = (Spans[n][1] .. Spans[n][2]) \cap S
    <3>1. \A i \in Spans[n][1] .. Spans[n][2] : i \in 1 .. Len(obs)
      BY <2>1, Basics
    <3> QED BY <3>1
  <2> QED BY <1>1, <2>2 DEF WithHA
<1>4. (1 .. Len(obs)) \cap S = S /\ IsFiniteSet(S)
  BY FiniteParts
<1>5. WithHA(1, Len(obs)) = Cardinality(S)
  BY DEF WithHA
<1>6. AreRuns(Spans, 1, Len(obs), Discs) /\ Len(obs) \in Nat /\ 1 \in Nat
  BY SpansAre, Basics
<1>7. IsFiniteSet(1 .. Len(Spans))
  BY InsideSegments
<1>8. Union(p, 1 .. Len(Spans)) = S /\ Apart(p, 1 .. Len(Spans))
  <2>1. PICK s : s = S
    OBVIOUS
  <2>2. Shares(Spans, s, p) /\ (1 .. Len(obs)) \cap s = s
    BY <1>2, <1>4, <2>1
  <2>3. /\ Union(p, 1 .. Len(Spans)) = (1 .. Len(obs)) \cap s
        /\ Apart(p, 1 .. Len(Spans))
    BY <1>6, <2>2, RunsShare
  <2> QED BY <2>1, <2>2, <2>3
<1> HIDE DEF S
<1>9. AddUp(F, 1 .. Len(Spans)) = Cardinality(Union(p, 1 .. Len(Spans)))
  BY <1>3, <1>4, <1>7, <1>8, CountParts
<1> QED BY <1>5, <1>8, <1>9

LEMMA RowsTileTrack ==
  ASSUME Trajectory, tables = Rows
  PROVE  SegmentsTileTrack
<1> DEFINE K == 1 .. Len(Spans)
<1>1. Segments = BuildSegments
  BY TrackHolds
<1>2. /\ Len(Segments) = Len(Spans) /\ DOMAIN Segments = K
      /\ Len(Spans) \in Nat \ {0} /\ Len(obs) \in Nat
  BY <1>1, SegmentRows, Basics
<1>3. \A n \in K : /\ Segments[n].first = Spans[n][1]
                   /\ Segments[n].last = Spans[n][2]
  BY <1>1, SegmentHolds
<1>4. /\ Spans[1][1] = 1 /\ Spans[Len(Spans)][2] = Len(obs)
      /\ \A n \in 1 .. Len(Spans) - 1 : Spans[n + 1][1] = Spans[n][2] + 1
  BY SpansAre DEF AreRuns
<1>5. /\ Segments[1].first = 1 /\ Segments[Len(Segments)].last = Len(obs)
      /\ \A n \in 1 .. Len(Segments) - 1 :
              Segments[n + 1].first = Segments[n].last + 1
  <2>1. 1 \in K /\ Len(Spans) \in K
    BY <1>2
  <2>2. ASSUME NEW n \in 1 .. Len(Spans) - 1
        PROVE  Segments[n + 1].first = Segments[n].last + 1
    <3>1. n \in K /\ n + 1 \in K
      BY <1>2
    <3> QED BY <1>3, <1>4, <3>1
  <2> QED BY <1>2, <1>3, <1>4, <2>1, <2>2
<1>6. \A n \in DOMAIN Segments : \A i \in Segments[n].first..Segments[n].last :
        obs[i].segment = n
  BY <1>2, <1>3, SegmentsNumbered
<1>7. Len(Segments) = Track.discs + 1
  BY <1>2, SpansAre, TrackHolds
<1>8. SumFunction([n \in DOMAIN Segments |-> Segments[n].pathM]) = Track.pathM
  <2>1. PICK F : F = [n \in K |-> Segments[n].pathM]
    OBVIOUS
  <2>2. F = [n \in K |-> F[n]] /\ \A n \in K : F[n] = Segments[n].pathM
    BY <2>1
  <2>3. \A n \in K : F[n] = AddUp(Distances, Inside(Edge \ Gaps)[n])
    BY <1>1, <2>2, SegmentHolds
  <2>4. Edge \ Gaps \subseteq Edge /\ Summable(Distances, Edge)
    BY DistancesAddUp
  <2>5. AddUp(F, K) = AddUp(Distances, (Edge \ Gaps) \ Discs)
    BY <2>3, <2>4, AddedInside
  <2>6. SumFunction(F) = AddUp(F, K)
    BY <2>2, SumIsOverDomain
  <2> QED BY <1>2, <2>1, <2>5, <2>6, TrackHolds
<1>9. SumFunction([n \in DOMAIN Segments |-> Segments[n].withHA]) = Track.withHA
  <2>1. PICK F : F = [n \in K |-> Segments[n].withHA]
    OBVIOUS
  <2>2. F = [n \in K |-> F[n]] /\ \A n \in K : F[n] = Segments[n].withHA
    BY <2>1
  <2>3. \A n \in K : F[n] = WithHA(Spans[n][1], Spans[n][2])
    BY <1>1, <2>2, SegmentHolds
  <2>4. AddUp(F, K) = WithHA(1, Len(obs))
    BY <2>3, KnownInSegments
  <2>5. SumFunction(F) = AddUp(F, K)
    BY <2>2, SumIsOverDomain
  <2> QED BY <1>2, <2>1, <2>4, <2>5, TrackHolds
<1>10. SumFunction([n \in DOMAIN Segments |-> Segments[n].gaps])
         + tables.edges.edges["gap_and_discontinuity_edges"] = Track.gaps
  <2>1. PICK F : F = [n \in K |-> Segments[n].gaps]
    OBVIOUS
  <2>2. F = [n \in K |-> F[n]] /\ \A n \in K : F[n] = Segments[n].gaps
    BY <2>1
  <2>3. \A n \in K : F[n] = Cardinality(Inside(Gaps)[n])
    BY <1>1, <2>2, SegmentHolds
  <2>4. Gaps \subseteq Edge
    BY DEF Gaps
  <2>5. AddUp(F, K) = Cardinality(Gaps \ Discs)
    BY <2>3, <2>4, CountedInside
  <2>6. SumFunction(F) = AddUp(F, K)
    BY <2>2, SumIsOverDomain
  <2>7. tables.edges.edges["gap_and_discontinuity_edges"]
             = Cardinality(Gaps \cap Discs)
    <3>1. tables.edges = EdgeDiagnostics
      BY DEF Rows
    <3> QED BY <3>1, EdgeCounts
  <2>8. IsFiniteSet(Gaps) /\ Cardinality(Gaps) \in Nat
        /\ Cardinality(Gaps \cap Discs) \in Nat
    <3>1. Gaps \cap Discs \subseteq Edge
      BY <2>4
    <3> QED BY <2>4, <3>1, FiniteParts
  <2>9. Cardinality(Gaps \ Discs)
             = Cardinality(Gaps) - Cardinality(Gaps \cap Discs)
    BY <2>8, FS_Difference
  <2>10. PICK both \in Nat : both = Cardinality(Gaps \cap Discs)
    BY <2>8
  <2>11. SumFunction(F) + both = Cardinality(Gaps)
    BY <2>5, <2>6, <2>8, <2>9, <2>10
  <2>12. SumFunction([n \in DOMAIN Segments |-> Segments[n].gaps])
              = SumFunction(F)
    BY <1>2, <2>1
  <2> QED BY <2>7, <2>10, <2>11, <2>12, TrackHolds
<1>11. SumFunction([n \in DOMAIN Segments |-> SumFunction(Segments[n].edges)])
         + Track.discs = Len(obs) - 1
  <2>1. PICK F : F = [n \in K |-> SumFunction(Segments[n].edges)]
    OBVIOUS
  <2>2. F = [n \in K |-> F[n]]
        /\ \A n \in K : F[n] = SumFunction(Segments[n].edges)
    BY <2>1
  <2>3. \A n \in K : F[n] = Cardinality(Inside(Edge)[n])
    BY <1>1, <2>2, SegmentHolds
  <2>4. AddUp(F, K) = Cardinality(Edge \ Discs)
    BY <2>3, CountedInside
  <2>5. SumFunction(F) = AddUp(F, K)
    BY <2>2, SumIsOverDomain
  <2>6. /\ IsFiniteSet(Edge) /\ Cardinality(Edge) = Len(obs) - 1
        /\ Cardinality(Discs) \in Nat /\ Edge \cap Discs = Discs
    <3>1. Discs \subseteq Edge
      BY DEF Discs
    <3> QED BY <3>1, FiniteParts
  <2>7. Cardinality(Edge \ Discs) = Cardinality(Edge) - Cardinality(Discs)
    <3>1. Cardinality(Edge \ Discs)
            = Cardinality(Edge) - Cardinality(Edge \cap Discs)
      BY <2>6, FS_Difference
    <3> QED BY <2>6, <3>1
  <2>8. SumFunction(F) + Cardinality(Discs) = Len(obs) - 1
    <3>1. PICK d \in Nat : d = Cardinality(Discs)
      BY <2>6
    <3>2. Cardinality(Edge \ Discs) = Len(obs) - 1 - d
      BY <2>6, <2>7, <3>1
    <3> QED BY <1>2, <2>4, <2>5, <3>1, <3>2
  <2>9. SumFunction([n \in DOMAIN Segments |-> SumFunction(Segments[n].edges)])
          = SumFunction(F)
    BY <1>2, <2>1
  <2> QED BY <2>8, <2>9, TrackHolds
<1>12. SumFunction([n \in DOMAIN Segments |-> Segments[n].observedS])
         <= Track.coverageS
  <2>1. PICK F : F = [n \in K |-> Segments[n].observedS]
    OBVIOUS
  <2>2. F = [n \in K |-> F[n]] /\ \A n \in K : F[n] = Segments[n].observedS
    BY <2>1
  <2>3. \A n \in K : F[n] = AddUp(Times, Inside(Edge \ Gaps)[n])
    BY <1>1, <2>2, SegmentHolds
  <2>4. Edge \ Gaps \subseteq Edge /\ Summable(Times, Edge)
        /\ (Edge \ Gaps) \ Discs \subseteq Edge
    BY DistancesAddUp
  <2>5. AddUp(F, K) = AddUp(Times, (Edge \ Gaps) \ Discs)
    BY <2>3, <2>4, AddedInside
  <2>6. SumFunction(F) = AddUp(F, K)
    BY <2>2, SumIsOverDomain
  <2>7. AddUp(Times, (Edge \ Gaps) \ Discs) <= obs[Len(obs)].ts - obs[1].ts
    BY <2>4, TimeOfEdges
  <2> QED BY <1>2, <2>1, <2>5, <2>6, <2>7, TrackHolds
<1> QED BY <1>5, <1>6, <1>7, <1>8, <1>9, <1>10, <1>11, <1>12 DEF SegmentsTileTrack

-----------------------------------------------------------------------------
(* The drawn lines.                                                        *)

\* An empty sequence before runs changes nothing.
LEMMA RunsAlone ==
  ASSUME NEW R, NEW from, NEW to, NEW cuts, AreRuns(R, from, to, cuts)
  PROVE  <<>> \o R = R
<1>1. R = [n \in 1 .. Len(R) |-> R[n]] /\ Len(R) \in Nat
  BY DEF AreRuns
<1> DEFINE S == {R[n] : n \in 1 .. Len(R)}
<1>2. R \in [1 .. Len(R) -> S]
  BY <1>1
<1>3. R \in Seq(S)
  BY <1>1, <1>2
<1> HIDE DEF S
<1> QED BY <1>3

LEMMA ConcatenatedAt ==
  /\ ConcatenatedRuns[0] = <<>>
  /\ \A n \in Nat : ConcatenatedRuns[n + 1]
                      = ConcatenatedRuns[n] \o Segments[n + 1].runs
<1>1. PICK e : e = [n \in Nat |-> Segments[n].runs]
  OBVIOUS
<1>2. PICK f : Joined(f, e)
  BY JoinedExists
<1>3. f = [n \in Nat |-> IF n = 0 THEN <<>> ELSE f[n - 1] \o Segments[n].runs]
  <2>1. [n \in Nat |-> IF n = 0 THEN <<>> ELSE f[n - 1] \o e[n]]
          = [n \in Nat |-> IF n = 0 THEN <<>> ELSE f[n - 1] \o Segments[n].runs]
    BY <1>1
  <2> QED BY <1>2, <2>1 DEF Joined
<1>4. ConcatenatedRuns
        = [n \in Nat |-> IF n = 0 THEN <<>>
                         ELSE ConcatenatedRuns[n - 1] \o Segments[n].runs]
  BY <1>3 DEF ConcatenatedRuns
<1>5. Joined(ConcatenatedRuns, e)
  <2>1. [n \in Nat |-> IF n = 0 THEN <<>> ELSE ConcatenatedRuns[n - 1] \o e[n]]
          = [n \in Nat |-> IF n = 0 THEN <<>>
                           ELSE ConcatenatedRuns[n - 1] \o Segments[n].runs]
    BY <1>1
  <2> QED BY <1>4, <2>1 DEF Joined
<1>6. ASSUME NEW n \in Nat
      PROVE  ConcatenatedRuns[n + 1] = ConcatenatedRuns[n] \o Segments[n + 1].runs
  <2>1. n + 1 \in Nat /\ n + 1 # 0 /\ (n + 1) - 1 = n
    OBVIOUS
  <2>2. ConcatenatedRuns[n + 1] = ConcatenatedRuns[(n + 1) - 1] \o e[n + 1]
    BY <1>5, <2>1, JoinedAt
  <2>3. e[n + 1] = Segments[n + 1].runs
    BY <1>1, <2>1
  <2> QED BY <2>1, <2>2, <2>3
<1>7. ConcatenatedRuns[0] = <<>>
  <2>1. 0 \in Nat
    OBVIOUS
  <2> QED BY <1>5, <2>1, JoinedAt
<1> QED BY <1>6, <1>7

\* Within a segment, where there is no discontinuity, the lines break at gaps.
LEMMA SegmentLines ==
  ASSUME Trajectory, NEW n \in 1 .. Len(Spans)
  PROVE  AreRuns(BuildSegments[n].runs, Spans[n][1], Spans[n][2], BrokenEdges)
<1>1. PICK a : a = Spans[n][1]
  OBVIOUS
<1>2. PICK b : b = Spans[n][2]
  OBVIOUS
<1>3. /\ a \in Nat /\ b \in Nat /\ a <= b /\ a >= 1 /\ b <= Len(obs)
      /\ \A i \in a + 1 .. b : i \notin Discs
  BY <1>1, <1>2, SpansAre, SegmentRows, Basics DEF AreRuns
<1>4. BuildSegments[n].runs = RunsOf(a, b, Gaps)
  BY <1>1, <1>2, SegmentHolds
<1>5. AreRuns(RunsOf(a, b, Gaps), a, b, Gaps)
  BY <1>3, RunsAreRuns
<1>6. \A i \in a + 1 .. b : i \in Gaps <=> i \in BrokenEdges
  <2> SUFFICES ASSUME NEW i \in a + 1 .. b PROVE i \in Gaps <=> i \in BrokenEdges
    OBVIOUS
  <2>1. i \notin Discs
    BY <1>3
  <2> QED BY <2>1 DEF Gaps, BrokenEdges, Discs, IsBreak
<1>7. AreRuns(RunsOf(a, b, Gaps), a, b, BrokenEdges)
  BY <1>3, <1>5, <1>6, RunsOfSameCuts
<1> QED BY <1>1, <1>2, <1>4, <1>7

\* The lines of the first n segments are those of the span they cover.
LEMMA LinesOfSegments ==
  ASSUME Trajectory, tables = Rows
  PROVE  \A n \in 1 .. Len(Spans) :
           AreRuns(ConcatenatedRuns[n], 1, Spans[n][2], BrokenEdges)
<1> DEFINE T == {n \in Nat : n + 1 <= Len(Spans) =>
                   AreRuns(ConcatenatedRuns[n + 1], 1, Spans[n + 1][2],
                        BrokenEdges)}
<1>1. /\ Len(Spans) \in Nat \ {0} /\ Spans[1][1] = 1
      /\ \A n \in 1 .. Len(Spans) :
           /\ Spans[n][1] \in Nat /\ Spans[n][2] \in Nat
           /\ 1 <= Spans[n][1] /\ Spans[n][1] <= Spans[n][2]
      /\ \A n \in 1 .. Len(Spans) - 1 :
           Spans[n + 1][1] = Spans[n][2] + 1 /\ Spans[n + 1][1] \in Discs
  BY SpansAre DEF AreRuns
<1>2. \A n \in 1 .. Len(Spans) :
        AreRuns(Segments[n].runs, Spans[n][1], Spans[n][2], BrokenEdges)
  BY SegmentLines, TrackHolds
<1>3. 0 \in T
  <2>1. 1 \in 1 .. Len(Spans) /\ 0 + 1 = 1 /\ 0 \in Nat
    BY <1>1
  <2>2. AreRuns(Segments[1].runs, 1, Spans[1][2], BrokenEdges)
    BY <1>1, <1>2, <2>1
  <2>3. ConcatenatedRuns[1] = <<>> \o Segments[1].runs
    BY <2>1, ConcatenatedAt
  <2>4. ConcatenatedRuns[1] = Segments[1].runs
    BY <2>2, <2>3, RunsAlone
  <2> QED BY <2>1, <2>2, <2>4
<1>4. ASSUME NEW n \in Nat, n \in T PROVE n + 1 \in T
  <2> SUFFICES ASSUME (n + 1) + 1 <= Len(Spans)
               PROVE  AreRuns(ConcatenatedRuns[(n + 1) + 1], 1,
                              Spans[(n + 1) + 1][2], BrokenEdges)
    OBVIOUS
  <2>1. PICK m \in Nat : m = n + 1
    OBVIOUS
  <2>2. m \in 1 .. Len(Spans) - 1 /\ m \in 1 .. Len(Spans)
        /\ m + 1 \in 1 .. Len(Spans)
    BY <1>1, <2>1
  <2>3. AreRuns(ConcatenatedRuns[m], 1, Spans[m][2], BrokenEdges)
    BY <1>1, <1>4, <2>1, <2>2
  <2>4. /\ Spans[m][2] \in Nat /\ Spans[m + 1][2] \in Nat
        /\ 1 <= Spans[m][2] /\ Spans[m][2] < Spans[m + 1][2]
        /\ Spans[m + 1][1] = Spans[m][2] + 1
    <3>1. /\ Spans[m][1] \in Nat /\ Spans[m][2] \in Nat
          /\ 1 <= Spans[m][1] /\ Spans[m][1] <= Spans[m][2]
      BY <1>1, <2>2
    <3>2. /\ Spans[m + 1][1] \in Nat /\ Spans[m + 1][2] \in Nat
          /\ Spans[m + 1][1] <= Spans[m + 1][2]
      BY <1>1, <2>2
    <3>3. Spans[m + 1][1] = Spans[m][2] + 1
      BY <1>1, <2>2
    <3> QED BY <3>1, <3>2, <3>3
  <2>5. Spans[m][2] + 1 \in BrokenEdges
    <3>1. Discs \subseteq BrokenEdges
      BY DEF Discs, BrokenEdges, IsBreak
    <3> QED BY <1>1, <2>2, <3>1
  <2>6. AreRuns(Segments[m + 1].runs, Spans[m][2] + 1, Spans[m + 1][2],
             BrokenEdges)
    BY <1>2, <2>2, <2>4
  <2>7. AreRuns(ConcatenatedRuns[m] \o Segments[m + 1].runs, 1,
             Spans[m + 1][2], BrokenEdges)
    BY <2>3, <2>4, <2>5, <2>6, RunsJoin
  <2> QED BY <2>1, <2>7, ConcatenatedAt
<1>5. \A n \in Nat : n \in T
  <2> HIDE DEF T
  <2> QED BY <1>3, <1>4, Induction
<1>6. ASSUME NEW n \in 1 .. Len(Spans)
      PROVE  AreRuns(ConcatenatedRuns[n], 1, Spans[n][2], BrokenEdges)
  <2>1. PICK m \in Nat : m + 1 = n
    <3>1. n - 1 \in Nat /\ (n - 1) + 1 = n
      BY <1>1
    <3> QED BY <3>1
  <2>2. m \in T /\ m + 1 <= Len(Spans)
    BY <1>1, <1>5, <2>1
  <2>3. AreRuns(ConcatenatedRuns[m + 1], 1, Spans[m + 1][2], BrokenEdges)
    BY <2>2
  <2> QED BY <2>1, <2>3
<1> QED BY <1>6

\* A transition that has been written leads from one row to the next.
LEMMA TransitionSpans ==
  ASSUME Trajectory, Finished, NEW t \in DOMAIN transitions
  PROVE  \E k \in DOMAIN presence :
           /\ k + 1 \in DOMAIN presence
           /\ transitions[t].depart = presence[k].end
           /\ transitions[t].destination = presence[k + 1].start
           /\ presence[k].end < presence[k + 1].start
<1>1. Evidence /\ TypeOK
  BY DEF Trajectory, Timeline, Evidence, Inductive
<1>2. PICK k \in DOMAIN presence :
        /\ presence[k].end = transitions[t].depart
        /\ IF k < Len(presence)
             THEN presence[k + 1].start = transitions[t].destination
             ELSE ~Finished /\ Present
  BY <1>1, Zenon DEF Evidence, TransitionsLink
<1>3. k \in 1 .. Len(presence) /\ Len(presence) \in Nat
      /\ DOMAIN presence = 1 .. Len(presence)
  BY <1>1, PresenceFields DEF TypeOK
<1>4. k < Len(presence)
  BY <1>2
<1>5. k + 1 \in DOMAIN presence /\ k < k + 1
  BY <1>3, <1>4
<1>6. presence[k].end < presence[k + 1].start
  BY <1>1, <1>5, PresencesInTime
<1> QED BY <1>2, <1>4, <1>5, <1>6

LEMMA RowsDrawOneLine ==
  ASSUME Trajectory, Finished, tables = Rows
  PROVE  PathRunsAgree
<1>1. /\ Len(Segments) = Len(Spans) /\ Len(Spans) \in 1 .. Len(Spans)
      /\ Spans[Len(Spans)][2] = Len(obs)
      /\ Len(obs) \in Nat /\ 1 \in Nat /\ 1 <= Len(obs)
  BY SpansAre, SegmentRows, TrackHolds, Basics DEF AreRuns
<1>2. AreRuns(ConcatenatedRuns[Len(Segments)], 1, Len(obs), BrokenEdges)
  BY <1>1, LinesOfSegments
<1>3. AreRuns(Track.runs, 1, Len(obs), BrokenEdges)
  BY <1>1, TrackHolds, RunsAreRuns
<1>4. Track.runs = ConcatenatedRuns[Len(Segments)]
  BY <1>1, <1>2, <1>3, RunsAreUnique
<1>5. ASSUME NEW a \in 1 .. Len(obs), NEW b \in 1 .. Len(obs), a <= b,
           Unbroken(a, b)
      PROVE  WithinOneRun(a, b)
  <2>1. \A i \in a + 1 .. b : i \notin BrokenEdges
    BY <1>5 DEF Unbroken, BrokenEdges, IsBreak
  <2> QED BY <1>1, <1>3, <1>5, <2>1, WithinRun DEF WithinOneRun
<1>6. Evidence /\ TypeOK /\ Index = 1 .. Len(obs)
  BY Basics DEF Trajectory, Timeline, Evidence, Inductive
<1>7. ASSUME NEW k \in DOMAIN presence
      PROVE  WithinOneRun(presence[k].start, presence[k].end)
  <2>1. presence[k].start \in 1 .. Len(obs) /\ presence[k].end \in 1 .. Len(obs)
    BY <1>6, PresenceFields
  <2>2. presence[k].start < presence[k].end
        /\ Unbroken(presence[k].start, presence[k].end)
    BY <1>6, PresencesInTime
  <2>3. presence[k].start <= presence[k].end
    BY <2>1, <2>2
  <2> QED BY <1>5, <2>1, <2>2, <2>3
<1>8. ASSUME NEW k \in DOMAIN transitions
      PROVE  WithinOneRun(transitions[k].depart, transitions[k].destination)
  <2>1. transitions[k].depart \in 1 .. Len(obs)
        /\ transitions[k].destination \in 1 .. Len(obs)
    BY <1>6, TransitionFields
  <2>2. transitions[k].depart < transitions[k].destination
    <3>1. PICK j \in DOMAIN presence :
           /\ transitions[k].depart = presence[j].end
           /\ transitions[k].destination = presence[j + 1].start
           /\ presence[j].end < presence[j + 1].start
      BY TransitionSpans
    <3> QED BY <3>1
  <2>3. Unbroken(transitions[k].depart, transitions[k].destination)
    BY <1>6 DEF Evidence, TransitionsSound
  <2>4. transitions[k].depart <= transitions[k].destination
    BY <2>1, <2>2
  <2> QED BY <1>5, <2>1, <2>3, <2>4
<1> QED BY <1>4, <1>7, <1>8 DEF PathRunsAgree

-----------------------------------------------------------------------------
(* What the rows count, and the time they take.                            *)

\* The fixes with a known accuracy in a span: none, some or all.
LEMMA KnownIn ==
  ASSUME Trajectory, NEW a \in 1 .. Len(obs), NEW b \in 1 .. Len(obs), a <= b
  PROVE  /\ WithHA(a, b) \in Nat /\ WithHA(a, b) <= b - a + 1
         /\ WithHA(a, b) = 0 <=> \A i \in a .. b : ~Known(i)
         /\ WithHA(a, b) = b - a + 1 <=> \A i \in a .. b : Known(i)
<1> DEFINE S == {i \in a .. b : Known(i)}
<1>1. WithHA(a, b) = Cardinality(S)
  BY DEF WithHA
<1>2. IsFiniteSet(a .. b) /\ Cardinality(a .. b) = b - a + 1
  <2>1. a \in Int /\ b \in Int /\ ~(a > b)
    OBVIOUS
  <2> QED BY <2>1, FS_Interval
<1>3. S \in SUBSET (a .. b)
  OBVIOUS
<1>4. /\ IsFiniteSet(S) /\ Cardinality(S) <= b - a + 1
      /\ Cardinality(S) = b - a + 1 => S = a .. b
  <2> HIDE DEF S
  <2> QED BY <1>2, <1>3, FS_Subset
<1>5. Cardinality(S) \in Nat /\ (Cardinality(S) = 0 <=> S = {})
  <2> HIDE DEF S
  <2> QED BY <1>4, FS_CardinalityType, FS_EmptySet
<1>6. S = {} <=> \A i \in a .. b : ~Known(i)
  OBVIOUS
<1>7. S = a .. b <=> \A i \in a .. b : Known(i)
  OBVIOUS
<1> HIDE DEF S
<1> QED BY <1>1, <1>2, <1>4, <1>5, <1>6, <1>7

LEMMA SupportIs ==
  ASSUME Trajectory, NEW a \in 1 .. Len(obs), NEW b \in 1 .. Len(obs), a <= b
  PROVE  /\ SupportOf(a, b) # "none"
         /\ SupportOf(a, b) = "all_known" <=> \A i \in a .. b : Known(i)
         /\ SupportOf(a, b) = "all_missing" <=> \A i \in a .. b : ~Known(i)
<1>1. PICK w : w = WithHA(a, b)
  OBVIOUS
<1>2. PICK m : m = b - a + 1 - w
  OBVIOUS
<1>3. w \in Nat /\ m \in Nat /\ w + m = b - a + 1 /\ w + m >= 1
  BY <1>1, <1>2, KnownIn
<1>4. SupportOf(a, b) = AccuracySupportClass(w, m)
  BY <1>1, <1>2 DEF SupportOf
<1>5. /\ AccuracySupportClass(w, m) # "none"
      /\ AccuracySupportClass(w, m) = "all_known" <=> m = 0
      /\ AccuracySupportClass(w, m) = "all_missing" <=> w = 0
  <2>1. CASE w > 0 /\ m = 0
    BY <2>1 DEF AccuracySupportClass
  <2>2. CASE w = 0 /\ m > 0
    BY <2>2 DEF AccuracySupportClass
  <2>3. CASE w > 0 /\ m > 0
    BY <2>3 DEF AccuracySupportClass
  <2> QED BY <1>3, <2>1, <2>2, <2>3
<1>6. m = 0 <=> w = b - a + 1
  BY <1>3
<1> QED BY <1>1, <1>4, <1>5, <1>6, KnownIn

\* The track is of one class exactly when all of its segments are.
LEMMA SupportOfSegments ==
  ASSUME Trajectory, tables = Rows, NEW class \in {"all_known", "all_missing"}
  PROVE  Track.support = class
           <=> \A n \in DOMAIN Segments : Segments[n].support = class
<1> DEFINE In(i) == IF class = "all_known" THEN Known(i) ELSE ~Known(i)
<1>1. ASSUME NEW a \in 1 .. Len(obs), NEW b \in 1 .. Len(obs), a <= b
      PROVE  SupportOf(a, b) = class <=> \A i \in a .. b : In(i)
  BY <1>1, SupportIs
<1>2. 1 \in 1 .. Len(obs) /\ Len(obs) \in 1 .. Len(obs) /\ 1 <= Len(obs)
      /\ 1 \in Nat /\ Len(obs) \in Nat
  BY Basics
<1> HIDE DEF In
<1>3. Track.support = class <=> \A i \in 1 .. Len(obs) : In(i)
  <2>1. Track.support = SupportOf(1, Len(obs))
    BY TrackHolds
  <2> QED BY <1>1, <1>2, <2>1
<1>4. /\ DOMAIN Segments = 1 .. Len(Spans)
      /\ \A n \in 1 .. Len(Spans) :
              Segments[n].support = SupportOf(Spans[n][1], Spans[n][2])
  BY TrackHolds, SegmentRows, SegmentHolds
<1>5. \A n \in 1 .. Len(Spans) :
        Segments[n].support = class
          <=> \A i \in Spans[n][1] .. Spans[n][2] : In(i)
  BY <1>1, <1>4, SegmentRows
<1>6. \A i \in 1 .. Len(obs) :
        \E n \in 1 .. Len(Spans) : i \in Spans[n][1] .. Spans[n][2]
  BY <1>2, SpansAre, RunsCover
<1>7. \A n \in 1 .. Len(Spans) : \A i \in Spans[n][1] .. Spans[n][2] :
        i \in 1 .. Len(obs)
  <2> SUFFICES ASSUME NEW n \in 1 .. Len(Spans),
           NEW i \in Spans[n][1] .. Spans[n][2]
               PROVE  i \in 1 .. Len(obs)
    OBVIOUS
  <2>1. Spans[n][1] \in 1 .. Len(obs) /\ Spans[n][2] \in 1 .. Len(obs)
    BY SegmentRows
  <2> QED BY <1>2, <2>1
<1> QED BY <1>3, <1>4, <1>5, <1>6, <1>7

\* The accuracy columns of a transition count its observations.
LEMMA MovementCounted ==
  ASSUME Trajectory, Finished, tables = Rows, NEW k \in DOMAIN transitions
  PROVE  /\ tables.movement[k].withHA + tables.movement[k].withoutHA
              = transitions[k].count
         /\ tables.movement[k].support # "none"
<1>1. PICK a : a = transitions[k].depart
  OBVIOUS
<1>2. PICK b : b = transitions[k].destination
  OBVIOUS
<1>3. Evidence /\ TypeOK /\ Index = 1 .. Len(obs)
  BY Basics DEF Trajectory, Timeline, Evidence, Inductive
<1>4. a \in 1 .. Len(obs) /\ b \in 1 .. Len(obs)
  BY <1>1, <1>2, <1>3, TransitionFields
<1>5. a < b
  BY <1>1, <1>2, TransitionSpans
<1>6. transitions[k].count = b - a + 1
  BY <1>1, <1>2, <1>3 DEF Evidence, TransitionsSound
<1>7. WithHA(a, b) \in Nat /\ SupportOf(a, b) # "none"
  BY <1>4, <1>5, KnownIn, SupportIs
<1>8. /\ tables.movement[k].withHA = WithHA(a, b)
      /\ tables.movement[k].withoutHA = b - a + 1 - WithHA(a, b)
      /\ tables.movement[k].support = SupportOf(a, b)
  <2>1. tables.movement[k] = MovementSupport(transitions[k])
    BY DEF Rows
  <2> QED BY <1>1, <1>2, <2>1 DEF MovementSupport
<1> QED BY <1>4, <1>6, <1>7, <1>8

\* The edges within a presence, and those on the way of a transition.
Stay(k) == presence[k].start + 1 .. presence[k].end
Way(t)  == transitions[t].depart + 1 .. transitions[t].destination

\* No edge belongs to two presences, to two transitions, or to one of each.
LEMMA EdgesSpentOnce ==
  ASSUME Trajectory, Finished
  PROVE  /\ \A k \in DOMAIN presence : Stay(k) \subseteq Edge
         /\ \A t \in DOMAIN transitions : Way(t) \subseteq Edge
         /\ \A j, k \in DOMAIN presence : j # k => Stay(j) \cap Stay(k) = {}
         /\ \A s, t \in DOMAIN transitions : s # t => Way(s) \cap Way(t) = {}
         /\ \A k \in DOMAIN presence, t \in DOMAIN transitions :
              Stay(k) \cap Way(t) = {}
<1>1. Evidence /\ TypeOK /\ Index = 1 .. Len(obs) /\ Edge = 2 .. Len(obs)
      /\ Len(obs) \in Nat
  BY Basics DEF Trajectory, Timeline, Evidence, Inductive
<1>2. /\ DOMAIN presence = 1 .. Len(presence) /\ Len(presence) \in Nat
      /\ DOMAIN transitions = 1 .. Len(transitions) /\ Len(transitions) \in Nat
  BY <1>1 DEF TypeOK
<1>3. \A k \in DOMAIN presence :
        /\ presence[k].start \in 1 .. Len(obs) /\ presence[k].end \in 1 .. Len(obs)
        /\ presence[k].start < presence[k].end
  BY <1>1, PresenceFields, PresencesInTime
<1>4. \A j, k \in DOMAIN presence : j < k => presence[j].end < presence[k].start
  BY <1>1, PresencesInTime
<1>5. \A t \in DOMAIN transitions :
        /\ transitions[t].depart \in 1 .. Len(obs)
        /\ transitions[t].destination \in 1 .. Len(obs)
  BY <1>1, TransitionFields
<1>6. \A k \in DOMAIN presence : Stay(k) \subseteq Edge
  <2> SUFFICES ASSUME NEW k \in DOMAIN presence, NEW i \in Stay(k)
               PROVE i \in Edge
    OBVIOUS
  <2>1. presence[k].start \in 1 .. Len(obs) /\ presence[k].end \in 1 .. Len(obs)
    BY <1>3
  <2> QED BY <1>1, <2>1 DEF Stay
<1>7. \A t \in DOMAIN transitions : Way(t) \subseteq Edge
  <2> SUFFICES ASSUME NEW t \in DOMAIN transitions, NEW i \in Way(t)
               PROVE i \in Edge
    OBVIOUS
  <2>1. transitions[t].depart \in 1 .. Len(obs)
        /\ transitions[t].destination \in 1 .. Len(obs)
    BY <1>5
  <2> QED BY <1>1, <2>1 DEF Way
<1>8. ASSUME NEW j \in DOMAIN presence, NEW k \in DOMAIN presence, j # k
      PROVE  Stay(j) \cap Stay(k) = {}
  <2>1. ASSUME NEW i \in DOMAIN presence, NEW m \in DOMAIN presence, i < m,
               NEW e, e \in Stay(i), e \in Stay(m)
        PROVE  FALSE
    <3>1. presence[i].end < presence[m].start
      BY <1>4, <2>1
    <3>2. presence[i].end \in Nat /\ presence[m].start \in Nat
          /\ presence[i].start \in Nat /\ presence[m].end \in Nat
      BY <1>3
    <3> QED BY <2>1, <3>1, <3>2 DEF Stay
  <2>2. j < k \/ k < j
    BY <1>2, <1>8
  <2> QED BY <2>1, <2>2
<1>9. ASSUME NEW t \in DOMAIN transitions
      PROVE  \E k \in DOMAIN presence :
               /\ k + 1 \in DOMAIN presence
               /\ transitions[t].depart = presence[k].end
               /\ transitions[t].destination = presence[k + 1].start
  BY TransitionSpans
<1>10. ASSUME NEW s \in DOMAIN transitions, NEW t \in DOMAIN transitions, s # t
       PROVE  Way(s) \cap Way(t) = {}
  <2>1. ASSUME NEW q \in DOMAIN transitions, NEW r \in DOMAIN transitions,
               transitions[q].destination < transitions[r].destination,
               NEW e, e \in Way(q), e \in Way(r)
        PROVE  FALSE
    <3>1. PICK j \in DOMAIN presence :
            /\ j + 1 \in DOMAIN presence
            /\ transitions[q].destination = presence[j + 1].start
      BY <1>9
    <3>2. PICK k \in DOMAIN presence :
            /\ k + 1 \in DOMAIN presence
            /\ transitions[r].depart = presence[k].end
            /\ transitions[r].destination = presence[k + 1].start
      BY <1>9
    <3>3. j < k
      <4>1. CASE j = k
        BY <1>3, <2>1, <3>1, <3>2, <4>1
      <4>2. CASE k < j
        <5>1. k + 1 < j + 1 /\ k + 1 \in DOMAIN presence
              /\ j + 1 \in DOMAIN presence
          BY <1>2, <3>1, <3>2, <4>2
        <5>2. presence[k + 1].end < presence[j + 1].start
          BY <1>4, <5>1
        <5>3. presence[k + 1].start < presence[j + 1].start
          BY <1>3, <5>1, <5>2
        <5>4. presence[j + 1].start < presence[k + 1].start
          BY <2>1, <3>1, <3>2
        <5> QED BY <1>3, <5>1, <5>3, <5>4
      <4> QED BY <1>2, <4>1, <4>2
    <3>4. presence[j + 1].start <= presence[k].end
      <4>1. CASE j + 1 = k
        BY <1>3, <4>1
      <4>2. CASE j + 1 # k
        <5>1. j + 1 < k
          BY <1>2, <3>3, <4>2
        <5>2. presence[j + 1].end < presence[k].start
          BY <1>4, <3>1, <5>1
        <5> QED BY <1>3, <3>1, <5>2
      <4> QED BY <4>1, <4>2
    <3>5. transitions[q].destination <= transitions[r].depart
      BY <3>1, <3>2, <3>4
    <3>6. transitions[q].destination \in Nat /\ transitions[r].depart \in Nat
          /\ transitions[q].depart \in Nat /\ transitions[r].destination \in Nat
      BY <1>5
    <3> QED BY <2>1, <3>5, <3>6 DEF Way
  <2>2. s < t \/ t < s
    BY <1>2, <1>10
  <2>3. \/ transitions[s].destination < transitions[t].destination
        \/ transitions[t].destination < transitions[s].destination
    BY <2>2 DEF Trajectory, ArrivalsOrdered
  <2> QED BY <2>1, <2>3
<1>11. ASSUME NEW k \in DOMAIN presence, NEW t \in DOMAIN transitions
       PROVE  Stay(k) \cap Way(t) = {}
  <2>1. PICK j \in DOMAIN presence :
          /\ j + 1 \in DOMAIN presence
          /\ transitions[t].depart = presence[j].end
          /\ transitions[t].destination = presence[j + 1].start
    BY <1>9
  <2>2. k <= j \/ j + 1 <= k
    BY <1>2
  <2>3. \/ presence[k].end <= transitions[t].depart
        \/ transitions[t].destination <= presence[k].start
    <3>1. CASE k = j
      BY <1>3, <2>1, <3>1
    <3>2. CASE k < j
      <4>1. presence[k].end < presence[j].start
            /\ presence[j].start < presence[j].end
        BY <1>3, <1>4, <3>2
      <4> QED BY <1>3, <2>1, <4>1
    <3>3. CASE k = j + 1
      BY <1>3, <2>1, <3>3
    <3>4. CASE j + 1 < k
      <4>1. presence[j + 1].end < presence[k].start
            /\ presence[j + 1].start < presence[j + 1].end
        BY <1>3, <1>4, <2>1, <3>4
      <4> QED BY <1>3, <2>1, <4>1
    <3> QED BY <1>2, <2>2, <3>1, <3>2, <3>3, <3>4
  <2>4. transitions[t].depart \in Nat /\ transitions[t].destination \in Nat
        /\ presence[k].start \in Nat /\ presence[k].end \in Nat
    BY <1>3, <1>5
  <2> QED BY <2>3, <2>4 DEF Stay, Way
<1> QED BY <1>6, <1>7, <1>8, <1>10, <1>11

LEMMA TimeSpentOnce ==
  ASSUME Trajectory, Finished, tables = Rows
  PROVE  TimeIsSpentOnce
<1>1. PICK K : K = DOMAIN presence
  OBVIOUS
<1>2. PICK M : M = DOMAIN transitions
  OBVIOUS
<1>3. PICK p : p = [k \in K |-> Stay(k)]
  OBVIOUS
<1>4. PICK q : q = [t \in M |-> Way(t)]
  OBVIOUS
<1>5. PICK F : F = [k \in K |-> Duration(presence[k])]
  OBVIOUS
<1>6. PICK G : G = [t \in M |->
                 obs[transitions[t].destination].ts - obs[transitions[t].depart].ts]
  OBVIOUS
<1>7. Evidence /\ TypeOK /\ Index = 1 .. Len(obs)
  BY Basics DEF Trajectory, Timeline, Evidence, Inductive
<1>8. IsFiniteSet(K) /\ IsFiniteSet(M)
  <2>1. /\ K = 1 .. Len(presence) /\ Len(presence) \in Nat
        /\ M = 1 .. Len(transitions) /\ Len(transitions) \in Nat
    BY <1>1, <1>2, <1>7 DEF TypeOK
  <2> QED BY <2>1, FS_Interval
<1>9. Apart(p, K) /\ Apart(q, M)
  BY <1>1, <1>2, <1>3, <1>4, EdgesSpentOnce DEF Apart
<1>10. /\ Union(p, K) \subseteq Edge /\ Union(q, M) \subseteq Edge
       /\ Union(p, K) \cap Union(q, M) = {}
  BY <1>1, <1>2, <1>3, <1>4, EdgesSpentOnce DEF Union
<1>11. AddsParts(F, Times, p, K)
  <2> SUFFICES ASSUME NEW k \in K PROVE F[k] = AddUp(Times, p[k])
    BY DEF AddsParts
  <2>1. PICK a : a = presence[k].start
    OBVIOUS
  <2>2. PICK b : b = presence[k].end
    OBVIOUS
  <2>3. a \in 1 .. Len(obs) /\ b \in 1 .. Len(obs) /\ a <= b
    <3>1. a \in 1 .. Len(obs) /\ b \in 1 .. Len(obs) /\ a < b
      BY <1>1, <1>7, <2>1, <2>2, PresenceFields, PresencesInTime
    <3> QED BY <3>1
  <2>4. AddUp(Times, a + 1 .. b) = obs[b].ts - obs[a].ts
    BY <2>3, TimeOfEdges
  <2>5. F[k] = obs[b].ts - obs[a].ts /\ p[k] = a + 1 .. b
    BY <1>3, <1>5, <2>1, <2>2 DEF Duration, Stay
  <2> QED BY <2>4, <2>5
<1>12. AddsParts(G, Times, q, M)
  <2> SUFFICES ASSUME NEW t \in M PROVE G[t] = AddUp(Times, q[t])
    BY DEF AddsParts
  <2>1. PICK a : a = transitions[t].depart
    OBVIOUS
  <2>2. PICK b : b = transitions[t].destination
    OBVIOUS
  <2>3. a \in 1 .. Len(obs) /\ b \in 1 .. Len(obs) /\ a <= b
    <3>1. a \in 1 .. Len(obs) /\ b \in 1 .. Len(obs) /\ a < b
      BY <1>2, <1>7, <2>1, <2>2, TransitionFields, TransitionSpans
    <3> QED BY <3>1
  <2>4. AddUp(Times, a + 1 .. b) = obs[b].ts - obs[a].ts
    BY <2>3, TimeOfEdges
  <2>5. G[t] = obs[b].ts - obs[a].ts /\ q[t] = a + 1 .. b
    BY <1>4, <1>6, <2>1, <2>2 DEF Way
  <2> QED BY <2>4, <2>5
<1>13. PICK A : A = Union(p, K)
  OBVIOUS
<1>14. PICK B : B = Union(q, M)
  OBVIOUS
<1>15. A \subseteq Edge /\ B \subseteq Edge /\ A \cap B = {}
       /\ A \cup B \subseteq Edge
  BY <1>10, <1>13, <1>14
<1>16. Summable(Times, A) /\ Summable(Times, B) /\ Summable(Times, A \cup B)
  BY <1>15, SummablePart, DistancesAddUp
<1>17. AddUp(F, K) = AddUp(Times, A)
  BY <1>8, <1>9, <1>11, <1>13, <1>16, AddUpParts
<1>18. AddUp(G, M) = AddUp(Times, B)
  BY <1>8, <1>9, <1>12, <1>14, <1>16, AddUpParts
<1>19. AddUp(Times, A \cup B) = AddUp(Times, A) + AddUp(Times, B)
  BY <1>15, <1>16, AddUpSplit
<1>20. AddUp(Times, A \cup B) <= obs[Len(obs)].ts - obs[1].ts
  BY <1>15, TimeOfEdges
<1>21. SumFunction(F) = AddUp(F, K) /\ SumFunction(G) = AddUp(G, M)
  BY <1>5, <1>6, SumIsOverDomain
<1>22. /\ tables.entity.presenceS = SumFunction(F)
       /\ tables.entity.transitS = SumFunction(G)
  <2>1. tables.entity = BuildEntity(presence, transitions)
    BY DEF Rows
  <2> QED BY <1>1, <1>2, <1>5, <1>6, <2>1 DEF BuildEntity
<1> QED BY <1>17, <1>18, <1>19, <1>20, <1>21, <1>22,
           TrackHolds DEF TimeIsSpentOnce

-----------------------------------------------------------------------------
(* What the totals of a run have in common with what one entity adds.      *)

CounterNames ==
  {"entities", "normalized", "segments", "presence", "transitions", "events",
   "gaps", "discs", "withHA", "targets", "targetPairs", "exactReturns"}
EdgeNames ==
  {"continuous_edges", "gap_edges", "discontinuity_edges",
   "gap_and_discontinuity_edges"}
MapNames ==
  {"attribution", "reasons", "reasonAccuracy", "edgeDT", "discDT",
   "reasonAccuracyDT", "dtDistance", "accuracyDTDistance", "classes",
   "segmentSupport", "entitySupport"}
Attributed == {"continuous_edges", "gap_edges", "discontinuity_edges"}

\* Counters c, edge counters e and maps m of the run, or of one entity.
AreTotals(c, e, m) ==
  /\ DOMAIN c = CounterNames /\ \A k \in CounterNames : c[k] \in Nat
  /\ DOMAIN e = EdgeNames /\ \A k \in EdgeNames : e[k] \in Nat
  /\ DOMAIN m = MapNames /\ \A k \in MapNames : IsTally(m[k])

\* The parts of EdgesClose, of StepDiagnosticsAgree and of SupportMatchesRows
\* that are about totals, in a form that holds of a sum when it holds of its
\* terms.
EdgesAgree(c, e, m) ==
  /\ e["continuous_edges"] + e["gap_edges"] + e["discontinuity_edges"]
       - e["gap_and_discontinuity_edges"] = c["normalized"] - c["entities"]
  /\ e["gap_edges"] = c["gaps"] /\ e["discontinuity_edges"] = c["discs"]
  /\ \A kind \in Attributed :
       Weigh(m["attribution"], {kind} \X AccuracyStates) = e[kind]
ReasonsAgree(e, m) ==
  /\ Whole(m["reasons"]) = e["discontinuity_edges"]
  /\ "unknown" \notin DOMAIN m["reasons"]
  /\ \A r : Weigh(m["reasonAccuracy"], {r} \X AccuracyStates)
              = Weigh(m["reasons"], {r})
StepsAgree(c, e, m) ==
  /\ Whole(m["edgeDT"]) = c["normalized"] - c["entities"]
  /\ Whole(m["discDT"]) = e["discontinuity_edges"]
  /\ \A k \in DOMAIN m["reasonAccuracy"] : k = <<k[1], k[2]>>
  /\ \A r, a : Weigh(m["reasonAccuracyDT"], {r} \X {a} \X Nat)
                 = Weigh(m["reasonAccuracy"], {<<r, a>>})
SpeedOnlyAgree(c, m) ==
  /\ Whole(m["dtDistance"]) = Weigh(m["reasons"], {"speed_only"})
  /\ Whole(m["accuracyDTDistance"]) = Weigh(m["reasons"], {"speed_only"})
  /\ Whole(m["classes"]) = Weigh(m["reasons"], {"speed_only"})
  /\ Weigh(m["accuracyDTDistance"], {"both_missing"} \X {0, 1} \X {2})
       = c["targets"]
  /\ c["exactReturns"] <= c["targetPairs"] /\ c["targetPairs"] <= c["targets"]
SupportAgrees(c, m) ==
  /\ Whole(m["segmentSupport"]) = c["segments"]
  /\ Whole(m["entitySupport"]) = c["entities"]

Agree(c, e, m) ==
  /\ AreTotals(c, e, m) /\ EdgesAgree(c, e, m) /\ ReasonsAgree(e, m)
  /\ StepsAgree(c, e, m) /\ SpeedOnlyAgree(c, m) /\ SupportAgrees(c, m)

\* Nothing agrees with nothing.
LEMMA EmptyTally ==
  /\ IsTally(EmptyBag) /\ DOMAIN EmptyBag = {}
  /\ Whole(EmptyBag) = 0 /\ \A keys : Weigh(EmptyBag, keys) = 0
<1>1. EmptyBag = [e \in {} |-> 1]
  BY DEF EmptyBag, SetToBag
<1>2. DOMAIN EmptyBag = {}
  BY <1>1
<1>3. IsTally(EmptyBag)
  BY <1>1, FS_EmptySet DEF IsTally
<1>4. \A keys : DOMAIN EmptyBag \cap keys = {}
  BY <1>2
<1> HIDE DEF EmptyBag
<1> QED BY <1>2, <1>3, <1>4, AddUpNone DEF Whole, Weigh

LEMMA NoneAgree == Agree(NoTotals.counters, NoTotals.edges, NoTotals.maps)
<1> DEFINE c == NoTotals.counters
           e == NoTotals.edges
           m == NoTotals.maps
<1>1. /\ DOMAIN c = CounterNames /\ \A k \in CounterNames : c[k] = 0
      /\ DOMAIN e = EdgeNames /\ \A k \in EdgeNames : e[k] = 0
  BY DEF NoTotals, CounterNames, EdgeNames
<1>2. DOMAIN m = MapNames /\ \A k \in MapNames : m[k] = EmptyBag
  BY DEF NoTotals, MapNames
<1> HIDE DEF c, e, m
<1>3. /\ DOMAIN c = CounterNames /\ \A k \in CounterNames : c[k] \in Nat
      /\ DOMAIN e = EdgeNames /\ \A k \in EdgeNames : e[k] \in Nat
  BY <1>1
<1>4. \A k \in MapNames : /\ IsTally(m[k]) /\ Whole(m[k]) = 0
                          /\ DOMAIN m[k] = {}
                          /\ \A keys : Weigh(m[k], keys) = 0
  BY <1>2, EmptyTally
<1>5. AreTotals(c, e, m)
  BY <1>2, <1>3, <1>4 DEF AreTotals
<1>6. EdgesAgree(c, e, m)
  <2>1. Weigh(m["attribution"], {"continuous_edges"} \X AccuracyStates) = 0
    BY <1>4 DEF MapNames
  <2>2. \A kind \in Attributed :
          Weigh(m["attribution"], {kind} \X AccuracyStates) = 0 /\ e[kind] = 0
    BY <1>1, <1>4 DEF MapNames, Attributed, EdgeNames
  <2> QED BY <1>1, <2>2 DEF EdgesAgree, EdgeNames, CounterNames
<1>7. ReasonsAgree(e, m)
  BY <1>1, <1>4 DEF ReasonsAgree, MapNames, EdgeNames
<1>8. StepsAgree(c, e, m)
  BY <1>1, <1>4 DEF StepsAgree, MapNames, EdgeNames, CounterNames
<1>9. SpeedOnlyAgree(c, m)
  BY <1>1, <1>4 DEF SpeedOnlyAgree, MapNames, CounterNames
<1>10. SupportAgrees(c, m)
  BY <1>1, <1>4 DEF SupportAgrees, MapNames, CounterNames
<1>11. Agree(c, e, m)
  BY <1>5, <1>6, <1>7, <1>8, <1>9, <1>10 DEF Agree
<1> QED BY <1>11 DEF c, e, m

\* What agrees with itself term by term agrees in the sum.
LEMMA AddedTotals ==
  ASSUME NEW c, NEW e, NEW m, AreTotals(c, e, m),
         NEW d, NEW f, NEW w, AreTotals(d, f, w)
  PROVE  /\ AreTotals(AddCounters(c, d), AddCounters(e, f), AddMaps(m, w))
         /\ \A k \in CounterNames : AddCounters(c, d)[k] = c[k] + d[k]
         /\ \A k \in EdgeNames : AddCounters(e, f)[k] = e[k] + f[k]
         /\ \A k \in MapNames :
              /\ DOMAIN AddMaps(m, w)[k] = DOMAIN m[k] \cup DOMAIN w[k]
              /\ Whole(AddMaps(m, w)[k]) = Whole(m[k]) + Whole(w[k])
              /\ \A keys : Weigh(AddMaps(m, w)[k], keys)
                             = Weigh(m[k], keys) + Weigh(w[k], keys)
<1>1. /\ DOMAIN AddCounters(c, d) = CounterNames
      /\ \A k \in CounterNames : AddCounters(c, d)[k] = c[k] + d[k]
  BY DEF AddCounters, AreTotals
<1>2. /\ DOMAIN AddCounters(e, f) = EdgeNames
      /\ \A k \in EdgeNames : AddCounters(e, f)[k] = e[k] + f[k]
  BY DEF AddCounters, AreTotals
<1>3. /\ DOMAIN AddMaps(m, w) = MapNames
      /\ \A k \in MapNames : AddMaps(m, w)[k] = m[k] (+) w[k]
  BY DEF AddMaps, AreTotals
<1>4. ASSUME NEW k \in MapNames
      PROVE  /\ IsTally(AddMaps(m, w)[k])
             /\ DOMAIN AddMaps(m, w)[k] = DOMAIN m[k] \cup DOMAIN w[k]
             /\ Whole(AddMaps(m, w)[k]) = Whole(m[k]) + Whole(w[k])
             /\ \A keys : Weigh(AddMaps(m, w)[k], keys)
                            = Weigh(m[k], keys) + Weigh(w[k], keys)
  <2>1. IsTally(m[k]) /\ IsTally(w[k])
    BY DEF AreTotals
  <2>2. PICK a : a = m[k]
    OBVIOUS
  <2>3. PICK b : b = w[k]
    OBVIOUS
  <2>4. IsTally(a) /\ IsTally(b) /\ AddMaps(m, w)[k] = a (+) b
    BY <1>3, <2>1, <2>2, <2>3
  <2>5. /\ IsTally(a (+) b)
        /\ DOMAIN (a (+) b) = DOMAIN a \cup DOMAIN b
        /\ \A keys : Weigh(a (+) b, keys) = Weigh(a, keys) + Weigh(b, keys)
        /\ Whole(a (+) b) = Whole(a) + Whole(b)
    BY <2>4, AddedTallies
  <2> QED BY <2>2, <2>3, <2>4, <2>5
<1>5. AreTotals(AddCounters(c, d), AddCounters(e, f), AddMaps(m, w))
  BY <1>1, <1>2, <1>3, <1>4 DEF AreTotals
<1> QED BY <1>1, <1>2, <1>4, <1>5

LEMMA AgreeAdds ==
  ASSUME NEW c, NEW e, NEW m, Agree(c, e, m),
         NEW d, NEW f, NEW w, Agree(d, f, w)
  PROVE  Agree(AddCounters(c, d), AddCounters(e, f), AddMaps(m, w))
<1>1. AreTotals(c, e, m) /\ AreTotals(d, f, w)
  BY DEF Agree
<1>2. PICK C : C = AddCounters(c, d)
  OBVIOUS
<1>3. PICK E : E = AddCounters(e, f)
  OBVIOUS
<1>4. PICK M : M = AddMaps(m, w)
  OBVIOUS
<1>5. /\ AreTotals(C, E, M)
      /\ \A k \in CounterNames : C[k] = c[k] + d[k]
      /\ \A k \in EdgeNames : E[k] = e[k] + f[k]
      /\ \A k \in MapNames :
           /\ DOMAIN M[k] = DOMAIN m[k] \cup DOMAIN w[k]
           /\ Whole(M[k]) = Whole(m[k]) + Whole(w[k])
           /\ \A keys : Weigh(M[k], keys) = Weigh(m[k], keys) + Weigh(w[k], keys)
  BY <1>1, <1>2, <1>3, <1>4, AddedTotals
<1>6. /\ \A k \in CounterNames : c[k] \in Nat /\ d[k] \in Nat
      /\ \A k \in EdgeNames : e[k] \in Nat /\ f[k] \in Nat
      /\ \A k \in MapNames : IsTally(m[k]) /\ IsTally(w[k])
  BY <1>1 DEF AreTotals
<1>7. \A k \in MapNames : \A keys :
        /\ Whole(m[k]) \in Nat /\ Whole(w[k]) \in Nat
        /\ Weigh(m[k], keys) \in Nat /\ Weigh(w[k], keys) \in Nat
  BY <1>6, WeighType
<1>8. EdgesAgree(C, E, M)
  <2>1. /\ E["continuous_edges"] = e["continuous_edges"] + f["continuous_edges"]
        /\ E["gap_edges"] = e["gap_edges"] + f["gap_edges"]
        /\ E["discontinuity_edges"]
                = e["discontinuity_edges"] + f["discontinuity_edges"]
        /\ E["gap_and_discontinuity_edges"]
             = e["gap_and_discontinuity_edges"] + f["gap_and_discontinuity_edges"]
        /\ \A k \in {"continuous_edges", "gap_edges", "discontinuity_edges",
                     "gap_and_discontinuity_edges"} : e[k] \in Nat /\ f[k] \in Nat
    BY <1>5, <1>6 DEF EdgeNames
  <2>2. /\ C["normalized"] = c["normalized"] + d["normalized"]
        /\ C["entities"] = c["entities"] + d["entities"]
        /\ C["gaps"] = c["gaps"] + d["gaps"]
        /\ C["discs"] = c["discs"] + d["discs"]
        /\ \A k \in {"normalized", "entities", "gaps", "discs"} :
             c[k] \in Nat /\ d[k] \in Nat
    BY <1>5, <1>6 DEF CounterNames
  <2>3. EdgesAgree(c, e, m) /\ EdgesAgree(d, f, w)
    BY DEF Agree
  <2>4. ASSUME NEW kind \in Attributed
        PROVE  Weigh(M["attribution"], {kind} \X AccuracyStates) = E[kind]
    <3>1. kind \in EdgeNames /\ "attribution" \in MapNames
      BY DEF Attributed, EdgeNames, MapNames
    <3>2. /\ Weigh(m["attribution"], {kind} \X AccuracyStates) = e[kind]
          /\ Weigh(w["attribution"], {kind} \X AccuracyStates) = f[kind]
      BY <2>3 DEF EdgesAgree
    <3> QED BY <1>5, <3>1, <3>2
  <2>6. /\ e["continuous_edges"] + e["gap_edges"] + e["discontinuity_edges"]
             - e["gap_and_discontinuity_edges"] = c["normalized"] - c["entities"]
        /\ e["gap_edges"] = c["gaps"] /\ e["discontinuity_edges"] = c["discs"]
        /\ f["continuous_edges"] + f["gap_edges"] + f["discontinuity_edges"]
             - f["gap_and_discontinuity_edges"] = d["normalized"] - d["entities"]
        /\ f["gap_edges"] = d["gaps"] /\ f["discontinuity_edges"] = d["discs"]
    BY <2>3 DEF EdgesAgree
  <2>5. /\ E["continuous_edges"] + E["gap_edges"] + E["discontinuity_edges"]
             - E["gap_and_discontinuity_edges"] = C["normalized"] - C["entities"]
        /\ E["gap_edges"] = C["gaps"] /\ E["discontinuity_edges"] = C["discs"]
    <3>1. E["gap_edges"] = C["gaps"] /\ E["discontinuity_edges"] = C["discs"]
      BY <2>1, <2>2, <2>6
    <3>2. PICK s \in Int : s = e["continuous_edges"] + e["gap_edges"]
                + e["discontinuity_edges"] - e["gap_and_discontinuity_edges"]
      BY <2>1
    <3>3. PICK t \in Int : t = f["continuous_edges"] + f["gap_edges"]
                + f["discontinuity_edges"] - f["gap_and_discontinuity_edges"]
      BY <2>1
    <3>4. E["continuous_edges"] + E["gap_edges"] + E["discontinuity_edges"]
            - E["gap_and_discontinuity_edges"] = s + t
      BY <2>1, <3>2, <3>3
    <3>5. C["normalized"] - C["entities"] = s + t
      BY <2>2, <2>6, <3>2, <3>3
    <3> QED BY <3>1, <3>4, <3>5
  <2> QED BY <2>4, <2>5 DEF EdgesAgree
<1>9. ReasonsAgree(E, M)
  <2>1. ReasonsAgree(e, m) /\ ReasonsAgree(f, w)
    BY DEF Agree
  <2>2. {"reasons", "reasonAccuracy"} \subseteq MapNames
        /\ "discontinuity_edges" \in EdgeNames
    BY DEF MapNames, EdgeNames
  <2>3. Whole(M["reasons"]) = E["discontinuity_edges"]
        /\ "unknown" \notin DOMAIN M["reasons"]
    BY <1>5, <2>1, <2>2 DEF ReasonsAgree
  <2>4. ASSUME NEW r
        PROVE  Weigh(M["reasonAccuracy"], {r} \X AccuracyStates)
                 = Weigh(M["reasons"], {r})
    <3>1. /\ Weigh(m["reasonAccuracy"], {r} \X AccuracyStates)
               = Weigh(m["reasons"], {r})
          /\ Weigh(w["reasonAccuracy"], {r} \X AccuracyStates)
               = Weigh(w["reasons"], {r})
      BY <2>1 DEF ReasonsAgree
    <3> QED BY <1>5, <2>2, <3>1
  <2> QED BY <2>3, <2>4 DEF ReasonsAgree
<1>10. StepsAgree(C, E, M)
  <2>1. StepsAgree(c, e, m) /\ StepsAgree(d, f, w)
    BY DEF Agree
  <2>2. {"edgeDT", "discDT", "reasonAccuracy", "reasonAccuracyDT"}
             \subseteq MapNames
        /\ "discontinuity_edges" \in EdgeNames
        /\ "normalized" \in CounterNames /\ "entities" \in CounterNames
    BY DEF MapNames, EdgeNames, CounterNames
  <2>3. Whole(M["edgeDT"]) = C["normalized"] - C["entities"]
        /\ Whole(M["discDT"]) = E["discontinuity_edges"]
    BY <1>5, <1>6, <2>1, <2>2 DEF StepsAgree
  <2>4. \A k \in DOMAIN M["reasonAccuracy"] : k = <<k[1], k[2]>>
    BY <1>5, <2>1, <2>2 DEF StepsAgree
  <2>5. ASSUME NEW r, NEW a
        PROVE  Weigh(M["reasonAccuracyDT"], {r} \X {a} \X Nat)
                 = Weigh(M["reasonAccuracy"], {<<r, a>>})
    <3>1. /\ Weigh(m["reasonAccuracyDT"], {r} \X {a} \X Nat)
               = Weigh(m["reasonAccuracy"], {<<r, a>>})
          /\ Weigh(w["reasonAccuracyDT"], {r} \X {a} \X Nat)
               = Weigh(w["reasonAccuracy"], {<<r, a>>})
      BY <2>1 DEF StepsAgree
    <3> QED BY <1>5, <2>2, <3>1
  <2> QED BY <2>3, <2>4, <2>5 DEF StepsAgree
<1>11. SpeedOnlyAgree(C, M)
  <2>1. SpeedOnlyAgree(c, m) /\ SpeedOnlyAgree(d, w)
    BY DEF Agree
  <2>2. {"dtDistance", "accuracyDTDistance", "classes", "reasons"}
             \subseteq MapNames
        /\ {"targets", "targetPairs", "exactReturns"} \subseteq CounterNames
    BY DEF MapNames, CounterNames
  <2>3. C["exactReturns"] <= C["targetPairs"] /\ C["targetPairs"] <= C["targets"]
    BY <1>5, <1>6, <2>1, <2>2 DEF SpeedOnlyAgree
  <2> QED BY <1>5, <2>1, <2>2, <2>3 DEF SpeedOnlyAgree
<1>12. SupportAgrees(C, M)
  <2>1. SupportAgrees(c, m) /\ SupportAgrees(d, w)
    BY DEF Agree
  <2>2. {"segmentSupport", "entitySupport"} \subseteq MapNames
        /\ {"segments", "entities"} \subseteq CounterNames
    BY DEF MapNames, CounterNames
  <2> QED BY <1>5, <2>1, <2>2 DEF SupportAgrees
<1> QED BY <1>2, <1>3, <1>4, <1>5, <1>8, <1>9, <1>10, <1>11, <1>12 DEF Agree

-----------------------------------------------------------------------------
(* What one entity adds.                                                   *)

\* A bucket is reached with its bound.
LEMMA BucketReaches ==
  ASSUME NEW b \in Seq(Nat), Increasing(b), NEW v \in Nat, NEW k \in DOMAIN b
  PROVE  Bucket(v, b) \in Nat /\ (Bucket(v, b) >= k <=> b[k] <= v)
<1> DEFINE B == {j \in DOMAIN b : b[j] <= v}
<1>1. /\ DOMAIN b = 1 .. Len(b) /\ Len(b) \in Nat /\ k \in 1 .. Len(b)
      /\ \A j \in 1 .. Len(b) : b[j] \in Nat
  OBVIOUS
<1>2. IsFiniteSet(1 .. Len(b)) /\ IsFiniteSet(1 .. k - 1) /\ IsFiniteSet(1 .. k)
      /\ Cardinality(1 .. k) = k /\ Cardinality(1 .. k - 1) = k - 1
  <2>1. 1 \in Int /\ k \in Int /\ k - 1 \in Int /\ Len(b) \in Int /\ k >= 1
    BY <1>1
  <2>2. Cardinality(1 .. k) = IF 1 > k THEN 0 ELSE k - 1 + 1
    BY <2>1, FS_Interval
  <2>3. Cardinality(1 .. k - 1) = IF 1 > k - 1 THEN 0 ELSE (k - 1) - 1 + 1
    BY <2>1, FS_Interval
  <2>4. IsFiniteSet(1 .. Len(b)) /\ IsFiniteSet(1 .. k - 1) /\ IsFiniteSet(1 .. k)
    BY <2>1, FS_Interval
  <2>5. Cardinality(1 .. k) = k /\ Cardinality(1 .. k - 1) = k - 1
    BY <2>1, <2>2, <2>3
  <2> QED BY <2>4, <2>5
<1>3. B \subseteq 1 .. Len(b)
  BY <1>1
<1>4. IsFiniteSet(B) /\ Cardinality(B) \in Nat
  BY <1>2, <1>3, FS_Subset, FS_CardinalityType
<1>5. Bucket(v, b) = Cardinality(B)
  BY DEF Bucket
<1>6. CASE b[k] <= v
  <2>1. ASSUME NEW j \in 1 .. k PROVE j \in B
    <3>1. j \in 1 .. Len(b) /\ (j < k \/ j = k)
      BY <1>1
    <3>2. b[j] <= b[k]
      BY <1>1, <3>1 DEF Increasing
    <3> QED BY <1>1, <1>6, <3>1, <3>2
  <2>2. (1 .. k) \subseteq B
    BY <2>1
  <2>3. Cardinality(1 .. k) <= Cardinality(B)
    <3> HIDE DEF B
    <3> QED BY <1>4, <2>2, FS_Subset
  <2> QED BY <1>1, <1>2, <1>4, <1>5, <1>6, <2>3
<1>7. CASE ~(b[k] <= v)
  <2>1. ASSUME NEW j \in B PROVE j \in 1 .. k - 1
    <3>1. j \in 1 .. Len(b) /\ b[j] <= v
      BY <1>1
    <3>2. ~(k < j) /\ k # j
      BY <1>1, <1>7, <3>1 DEF Increasing
    <3> QED BY <1>1, <3>1, <3>2
  <2>2. Cardinality(B) <= Cardinality(1 .. k - 1)
    <3>1. B \subseteq 1 .. k - 1
      BY <2>1
    <3> HIDE DEF B
    <3> QED BY <1>2, <3>1, FS_Subset
  <2> QED BY <1>1, <1>2, <1>4, <1>5, <1>7, <2>2
<1> QED BY <1>4, <1>5, <1>6, <1>7

Speedy == {i \in Discs : DiscontinuityReason(i) = "speed_only"}

\* What the diagnostics say of one edge.
LEMMA EdgeIsDescribed ==
  ASSUME Trajectory, NEW i \in Edge
  PROVE  /\ EdgeAccuracyState(i) \in AccuracyStates
         /\ i \in Discs => DiscontinuityReason(i) # "unknown"
         /\ DtBucket(i) \in Nat /\ DistanceBucket(i) \in Nat
         /\ TargetEdge(i)
              <=> /\ i \in Speedy
                  /\ <<EdgeAccuracyState(i), DtBucket(i), DistanceBucket(i)>>
                       \in {"both_missing"} \X {0, 1} \X {2}
<1>1. EdgeAccuracyState(i) \in AccuracyStates
  BY DEF EdgeAccuracyState, AccuracyStates
<1>2. /\ StepDT(i) \in Nat /\ StepDT(i) > 0 /\ StepEffective(i) \in Nat
      /\ EdgeMeasured(i)
  BY EdgeTypes
<1>3. i \in Discs => DiscontinuityReason(i) # "unknown"
  BY <1>2 DEF Discs, EdgeMeasured, IsDiscontinuity, DiscontinuityReason
<1>4. /\ DtBounds \in Seq(Nat) /\ Increasing(DtBounds) /\ 2 \in DOMAIN DtBounds
      /\ DistanceBounds \in Seq(Nat) /\ Increasing(DistanceBounds)
      /\ 2 \in DOMAIN DistanceBounds /\ 3 \in DOMAIN DistanceBounds
  BY BoundsAssumption
<1>5. DtBucket(i) \in Nat /\ (DtBucket(i) >= 2 <=> DtBounds[2] <= StepDT(i))
  BY <1>2, <1>4, BucketReaches DEF DtBucket
<1>6. /\ DistanceBucket(i) \in Nat
      /\ DistanceBucket(i) >= 2 <=> DistanceBounds[2] <= StepEffective(i)
      /\ DistanceBucket(i) >= 3 <=> DistanceBounds[3] <= StepEffective(i)
  BY <1>2, <1>4, BucketReaches DEF DistanceBucket
<1>7. /\ DtBounds[2] \in Nat /\ DistanceBounds[2] \in Nat
      /\ DistanceBounds[3] \in Nat
  BY <1>4
<1>8. /\ DtBucket(i) \in {0, 1} <=> StepDT(i) < DtBounds[2]
      /\ DistanceBucket(i) \in {2}
           <=> /\ DistanceBounds[2] <= StepEffective(i)
               /\ StepEffective(i) < DistanceBounds[3]
  BY <1>2, <1>5, <1>6, <1>7
<1>9. <<EdgeAccuracyState(i), DtBucket(i), DistanceBucket(i)>>
          \in {"both_missing"} \X {0, 1} \X {2}
        <=> /\ EdgeAccuracyState(i) = "both_missing"
            /\ DtBucket(i) \in {0, 1} /\ DistanceBucket(i) \in {2}
  OBVIOUS
<1>10. i \in Speedy <=> obs[i].disc /\ DiscontinuityReason(i) = "speed_only"
  BY DEF Speedy, Discs
<1>11. TargetEdge(i)
         <=> /\ i \in Speedy /\ EdgeAccuracyState(i) = "both_missing"
             /\ StepDT(i) < DtBounds[2]
             /\ DistanceBounds[2] <= StepEffective(i)
             /\ StepEffective(i) < DistanceBounds[3]
  BY <1>2, <1>10 DEF TargetEdge
<1> QED BY <1>1, <1>3, <1>5, <1>6, <1>8, <1>9, <1>11

\* b tallies f over the edges D.
TallyOf(b, f, D) ==
  /\ IsTally(b) /\ Whole(b) = Cardinality(D)
  /\ \A keys : Weigh(b, keys) = Cardinality({i \in D : f[i] \in keys})

LEMMA EdgeTally ==
  ASSUME Trajectory, NEW D, D \subseteq Edge, NEW f, DOMAIN f = D
  PROVE  TallyOf(Tally(f), f, D)
<1>1. IsFiniteSet(D)
  BY FiniteParts
<1>2. /\ IsTally(Tally(f)) /\ Whole(Tally(f)) = Cardinality(D)
      /\ DOMAIN Tally(f) = {f[i] : i \in D}
      /\ \A keys : Weigh(Tally(f), keys) = Cardinality({i \in D : f[i] \in keys})
  BY <1>1, TallyWeighs
<1> QED BY <1>2 DEF TallyOf

\* The attribution of the edges of one kind counts them.
LEMMA AttributionCounts ==
  ASSUME Trajectory
  PROVE  /\ IsTally(EdgeDiagnostics.attribution)
         /\ \A kind \in Attributed :
              Weigh(EdgeDiagnostics.attribution, {kind} \X AccuracyStates)
                = EdgeDiagnostics.edges[kind]
<1> DEFINE A == {k \in Attributed \X Edge : k[1] \in EdgeKinds(k[2])}
           f == [k \in A |-> <<k[1], EdgeAccuracyState(k[2])>>]
<1>1. EdgeDiagnostics.attribution = Tally(f)
  <2>1. {"continuous_edges", "gap_edges", "discontinuity_edges",
         "gap_and_discontinuity_edges"} \ {"gap_and_discontinuity_edges"}
              = Attributed
    BY DEF Attributed
  <2> QED BY <2>1 DEF EdgeDiagnostics
<1>2. IsFiniteSet(A)
  <2>1. IsFiniteSet(Edge)
    BY FiniteParts
  <2>2. IsFiniteSet(Attributed)
    <3>1. Attributed = (({} \cup {"continuous_edges"}) \cup {"gap_edges"})
                         \cup {"discontinuity_edges"}
      BY DEF Attributed
    <3> QED BY <3>1, FS_EmptySet, FS_AddElement
  <2>3. IsFiniteSet(Attributed \X Edge)
    BY <2>1, <2>2, FS_Product
  <2> QED BY <2>3, FS_Subset
<1>3. /\ IsTally(Tally(f))
      /\ \A keys : Weigh(Tally(f), keys) = Cardinality({k \in A : f[k] \in keys})
  <2>1. DOMAIN f = A
    OBVIOUS
  <2> HIDE DEF f, A
  <2>2. PICK h : h = f
    OBVIOUS
  <2>3. PICK D : D = A
    OBVIOUS
  <2>5. IsFiniteSet(D) /\ DOMAIN h = D
    BY <1>2, <2>1, <2>2, <2>3
  <2>4. /\ IsTally(Tally(h)) /\ DOMAIN Tally(h) = {h[i] : i \in D}
        /\ \A keys : Weigh(Tally(h), keys)
                = Cardinality({i \in D : h[i] \in keys})
        /\ Whole(Tally(h)) = Cardinality(D)
    BY <2>5, TallyWeighs
  <2> QED BY <2>2, <2>3, <2>4
<1>4. ASSUME NEW kind \in Attributed
      PROVE  Cardinality({k \in A : f[k] \in {kind} \X AccuracyStates})
               = EdgeDiagnostics.edges[kind]
  <2> DEFINE I == {i \in Edge : kind \in EdgeKinds(i)}
             P == {k \in A : f[k] \in {kind} \X AccuracyStates}
             g == [i \in I |-> <<kind, i>>]
  <2>1. ASSUME NEW i \in I PROVE g[i] \in P
    <3>1. <<kind, i>> \in A /\ EdgeAccuracyState(i) \in AccuracyStates
      BY EdgeIsDescribed
    <3> QED BY <3>1
  <2>2. ASSUME NEW k \in P PROVE \E i \in I : k = <<kind, i>>
    <3>1. /\ k \in Attributed \X Edge /\ k[1] \in EdgeKinds(k[2])
          /\ <<k[1], EdgeAccuracyState(k[2])>> \in {kind} \X AccuracyStates
      OBVIOUS
    <3>2. k[1] = kind /\ k = <<k[1], k[2]>> /\ k[2] \in Edge
      BY <3>1
    <3> QED BY <3>1, <3>2
  <2>3. IsFiniteSet(I)
    BY FiniteParts
  <2>4. DOMAIN g = I /\ \A i, j \in I : i # j => g[i] # g[j]
    OBVIOUS
  <2>5. \A k \in P : \E i \in I : g[i] = k
    BY <2>2
  <2>6. Cardinality(I) = EdgeDiagnostics.edges[kind]
    BY DEF EdgeDiagnostics, Attributed
  <2>7. g = [i \in I |-> g[i]]
    OBVIOUS
  <2> HIDE DEF g, P, I
  <2>8. g \in Bijection(I, P)
    BY <2>1, <2>4, <2>5, <2>7 DEF Bijection, Injection, Surjection, IsInjective
  <2>9. Cardinality(P) = Cardinality(I)
    BY <2>3, <2>8, FS_Bijection DEF ExistsBijection
  <2> QED BY <2>6, <2>9 DEF P
<1> HIDE DEF f, A
<1> QED BY <1>1, <1>3, <1>4

\* The discontinuities with a reason, and those with an accuracy state too.
With(r) == {i \in Discs : DiscontinuityReason(i) = r}
WithBoth(r, a) == {i \in With(r) : EdgeAccuracyState(i) = a}

\* What the eventizer tallies of the discontinuities.
LEMMA ReasonsTallied ==
  ASSUME Trajectory
  PROVE  LET d == EdgeDiagnostics
         IN  /\ IsTally(d.reasons) /\ IsTally(d.reasonAccuracy)
             /\ Whole(d.reasons) = Cardinality(Discs)
             /\ "unknown" \notin DOMAIN d.reasons
             /\ \A k \in DOMAIN d.reasonAccuracy : k = <<k[1], k[2]>>
             /\ \A r : Weigh(d.reasons, {r}) = Cardinality(With(r))
             /\ \A r : Weigh(d.reasonAccuracy, {r} \X AccuracyStates)
                         = Weigh(d.reasons, {r})
             /\ \A r, a : Weigh(d.reasonAccuracy, {<<r, a>>})
                            = Cardinality(WithBoth(r, a))
<1>a. PICK f : f = [i \in Discs |-> DiscontinuityReason(i)]
  OBVIOUS
<1>b. PICK g :
           g = [i \in Discs |-> <<DiscontinuityReason(i), EdgeAccuracyState(i)>>]
  OBVIOUS
<1>1. Discs \subseteq Edge /\ DOMAIN f = Discs /\ DOMAIN g = Discs
  BY <1>a, <1>b DEF Discs
<1>2. PICK m : m = EdgeDiagnostics.reasons
  OBVIOUS
<1>3. PICK w : w = EdgeDiagnostics.reasonAccuracy
  OBVIOUS
<1>4. m = Tally(f) /\ w = Tally(g)
  BY <1>a, <1>b, <1>2, <1>3 DEF EdgeDiagnostics, Discs
<1>5. /\ \A i \in Discs : f[i] = DiscontinuityReason(i)
      /\ \A i \in Discs : g[i] = <<DiscontinuityReason(i), EdgeAccuracyState(i)>>
  BY <1>a, <1>b
<1>6. /\ IsTally(m) /\ DOMAIN m = {f[i] : i \in Discs}
      /\ Whole(m) = Cardinality(Discs)
      /\ \A keys : Weigh(m, keys) = Cardinality({i \in Discs : f[i] \in keys})
  <2>1. /\ IsTally(Tally(f)) /\ DOMAIN Tally(f) = {f[i] : i \in Discs}
        /\ Whole(Tally(f)) = Cardinality(Discs)
        /\ \A keys : Weigh(Tally(f), keys)
                       = Cardinality({i \in Discs : f[i] \in keys})
    <3>1. IsFiniteSet(Discs) /\ DOMAIN f = Discs
      BY <1>1, FiniteParts
    <3> QED BY <3>1, TallyWeighs
  <2> QED BY <1>4, <2>1
<1>7. /\ IsTally(w) /\ DOMAIN w = {g[i] : i \in Discs}
      /\ Whole(w) = Cardinality(Discs)
      /\ \A keys : Weigh(w, keys) = Cardinality({i \in Discs : g[i] \in keys})
  <2>1. /\ IsTally(Tally(g)) /\ DOMAIN Tally(g) = {g[i] : i \in Discs}
        /\ Whole(Tally(g)) = Cardinality(Discs)
        /\ \A keys : Weigh(Tally(g), keys)
                       = Cardinality({i \in Discs : g[i] \in keys})
    <3>1. IsFiniteSet(Discs) /\ DOMAIN g = Discs
      BY <1>1, FiniteParts
    <3> QED BY <3>1, TallyWeighs
  <2> QED BY <1>4, <2>1
<1>8. "unknown" \notin DOMAIN m
  BY <1>1, <1>5, <1>6, EdgeIsDescribed
<1>9. \A k \in DOMAIN w : k = <<k[1], k[2]>>
  BY <1>5, <1>7
<1>10. ASSUME NEW r
       PROVE  /\ Weigh(m, {r}) = Cardinality(With(r))
              /\ Weigh(w, {r} \X AccuracyStates) = Weigh(m, {r})
  <2>1. {i \in Discs : f[i] \in {r}} = With(r)
    BY <1>5 DEF With
  <2>2. \A i \in Discs : EdgeAccuracyState(i) \in AccuracyStates
    BY <1>1, EdgeIsDescribed
  <2>3. ASSUME NEW i \in Discs
        PROVE  g[i] \in {r} \X AccuracyStates <=> DiscontinuityReason(i) = r
    <3>1. g[i] = <<DiscontinuityReason(i), EdgeAccuracyState(i)>>
      BY <1>5
    <3> QED BY <2>2, <3>1
  <2>4. {i \in Discs : g[i] \in {r} \X AccuracyStates} = With(r)
    BY <2>3 DEF With
  <2>5. Weigh(m, {r}) = Cardinality({i \in Discs : f[i] \in {r}})
    BY <1>6
  <2>6. Weigh(w, {r} \X AccuracyStates)
          = Cardinality({i \in Discs : g[i] \in {r} \X AccuracyStates})
    BY <1>7
  <2> QED BY <2>1, <2>4, <2>5, <2>6
<1>11. ASSUME NEW r, NEW a
       PROVE  Weigh(w, {<<r, a>>}) = Cardinality(WithBoth(r, a))
  <2>1. {i \in Discs : g[i] \in {<<r, a>>}} = WithBoth(r, a)
    BY <1>5 DEF With, WithBoth
  <2>2. Weigh(w, {<<r, a>>}) = Cardinality({i \in Discs : g[i] \in {<<r, a>>}})
    BY <1>7
  <2> QED BY <2>1, <2>2
<1> QED BY <1>2, <1>3, <1>6, <1>7, <1>8, <1>9, <1>10, <1>11

\* What the pipeline tallies of the steps.
LEMMA StepsTallied ==
  ASSUME Trajectory
  PROVE  LET d == StepDiagnostics
         IN  /\ \A k \in {"edgeDT", "discDT", "reasonAccuracyDT", "dtDistance",
                          "accuracyDTDistance", "classes"} : IsTally(d[k])
             /\ Whole(d.edgeDT) = Cardinality(Edge)
             /\ Whole(d.discDT) = Cardinality(Discs)
             /\ \A r, a : Weigh(d.reasonAccuracyDT, {r} \X {a} \X Nat)
                            = Cardinality(WithBoth(r, a))
             /\ Whole(d.dtDistance) = Cardinality(Speedy)
             /\ Whole(d.accuracyDTDistance) = Cardinality(Speedy)
             /\ Whole(d.classes) = Cardinality(Speedy)
             /\ Weigh(d.accuracyDTDistance, {"both_missing"} \X {0, 1} \X {2})
                  = Cardinality({i \in Edge : TargetEdge(i)})
<1> DEFINE State(i) == EdgeAccuracyState(i)
           f1 == [i \in Edge |-> <<State(i), DtBucket(i)>>]
           f2 == [i \in Discs |-> <<State(i), DtBucket(i)>>]
           f3 == [i \in Discs |->
                    <<DiscontinuityReason(i), State(i), DtBucket(i)>>]
           f4 == [i \in Speedy |-> <<DtBucket(i), DistanceBucket(i)>>]
           f5 == [i \in Speedy |-> <<State(i), DtBucket(i), DistanceBucket(i)>>]
           f6 == [i \in Speedy |-> IF DtBucket(i) = 0 /\ DistanceBucket(i) = 0
                                   THEN "micro_displacement" ELSE "other_speed_only"]
<1>1. Discs \subseteq Edge /\ Speedy \subseteq Edge /\ Speedy \subseteq Discs
  BY DEF Discs, Speedy
<1>2. PICK d : d = StepDiagnostics
  OBVIOUS
<1>3. /\ d.edgeDT = Tally(f1) /\ d.discDT = Tally(f2)
      /\ d.reasonAccuracyDT = Tally(f3) /\ d.dtDistance = Tally(f4)
      /\ d.accuracyDTDistance = Tally(f5) /\ d.classes = Tally(f6)
  BY <1>2 DEF StepDiagnostics, Discs, Speedy
<1>4. /\ DOMAIN f1 = Edge /\ DOMAIN f2 = Discs /\ DOMAIN f3 = Discs
      /\ DOMAIN f4 = Speedy /\ DOMAIN f5 = Speedy /\ DOMAIN f6 = Speedy
  OBVIOUS
<1>5. \A i \in Discs : f3[i] = <<DiscontinuityReason(i), State(i), DtBucket(i)>>
  OBVIOUS
<1>6. \A i \in Speedy : f5[i] = <<State(i), DtBucket(i), DistanceBucket(i)>>
  OBVIOUS
<1> HIDE DEF f1, f2, f3, f4, f5, f6
<1>7. /\ TallyOf(Tally(f1), f1, Edge) /\ TallyOf(Tally(f2), f2, Discs)
      /\ TallyOf(Tally(f3), f3, Discs) /\ TallyOf(Tally(f4), f4, Speedy)
      /\ TallyOf(Tally(f5), f5, Speedy) /\ TallyOf(Tally(f6), f6, Speedy)
  BY <1>1, <1>4, EdgeTally
<1>8. /\ IsTally(d.edgeDT) /\ Whole(d.edgeDT) = Cardinality(Edge)
      /\ IsTally(d.discDT) /\ Whole(d.discDT) = Cardinality(Discs)
      /\ IsTally(d.reasonAccuracyDT)
      /\ IsTally(d.dtDistance) /\ Whole(d.dtDistance) = Cardinality(Speedy)
      /\ IsTally(d.accuracyDTDistance)
      /\ Whole(d.accuracyDTDistance) = Cardinality(Speedy)
      /\ IsTally(d.classes) /\ Whole(d.classes) = Cardinality(Speedy)
  BY <1>3, <1>7 DEF TallyOf
<1>9. ASSUME NEW r, NEW a
      PROVE  Weigh(d.reasonAccuracyDT, {r} \X {a} \X Nat)
               = Cardinality(WithBoth(r, a))
  <2>1. \A i \in Discs : DtBucket(i) \in Nat
    BY <1>1, EdgeIsDescribed
  <2>2. ASSUME NEW i \in Discs
        PROVE  f3[i] \in {r} \X {a} \X Nat
                 <=> DiscontinuityReason(i) = r /\ State(i) = a
    <3>1. f3[i] = <<DiscontinuityReason(i), State(i), DtBucket(i)>>
      BY <1>5
    <3> QED BY <2>1, <3>1
  <2>3. {i \in Discs : f3[i] \in {r} \X {a} \X Nat} = WithBoth(r, a)
    BY <2>2 DEF With, WithBoth
  <2>4. Weigh(Tally(f3), {r} \X {a} \X Nat)
          = Cardinality({i \in Discs : f3[i] \in {r} \X {a} \X Nat})
    BY <1>7 DEF TallyOf
  <2> QED BY <1>3, <2>3, <2>4
<1>10. Weigh(d.accuracyDTDistance, {"both_missing"} \X {0, 1} \X {2})
         = Cardinality({i \in Edge : TargetEdge(i)})
  <2> DEFINE keys == {"both_missing"} \X {0, 1} \X {2}
  <2>1. ASSUME NEW i \in Edge
        PROVE  TargetEdge(i) <=> i \in Speedy /\ f5[i] \in keys
    BY <1>6, EdgeIsDescribed
  <2>2. {i \in Speedy : f5[i] \in keys} = {i \in Edge : TargetEdge(i)}
    BY <1>1, <2>1
  <2>3. Weigh(Tally(f5), keys) = Cardinality({i \in Speedy : f5[i] \in keys})
    BY <1>7 DEF TallyOf
  <2> QED BY <1>3, <2>2, <2>3
<1> QED BY <1>2, <1>8, <1>9, <1>10

\* What one entity's result reads of its observations.
IsResult(t) ==
  /\ t.edges = EdgeDiagnostics /\ t.steps = StepDiagnostics
  /\ t.target = TargetPopulation /\ t.segments = BuildSegments
  /\ t.track.observations = Len(obs) /\ t.track.withHA = WithHA(1, Len(obs))
  /\ t.track.gaps = Cardinality(Gaps) /\ t.track.discs = Cardinality(Discs)
  /\ t.track.presences \in Nat /\ t.track.transitions \in Nat
  /\ t.track.events \in Nat

\* The target population and the returns within it.
LEMMA TargetsNest ==
  ASSUME Trajectory
  PROVE  LET p == TargetPopulation
         IN  /\ p.count = Cardinality({i \in Edge : TargetEdge(i)})
             /\ p.count \in Nat /\ p.pairs \in Nat /\ p.exactReturns \in Nat
             /\ p.exactReturns <= p.pairs /\ p.pairs <= p.count
<1> DEFINE targets == {i \in Edge : TargetEdge(i)}
           pairs   == {i \in 3 .. Len(obs) : TargetEdge(i - 1) /\ TargetEdge(i)}
           returns == {i \in pairs : obs[i - 2].place = obs[i].place}
<1>1. PICK p : p = TargetPopulation
  OBVIOUS
<1>2. /\ p.count = Cardinality(targets) /\ p.pairs = Cardinality(pairs)
      /\ p.exactReturns = Cardinality(returns)
  BY <1>1 DEF TargetPopulation
<1>3. pairs \subseteq targets /\ returns \subseteq pairs /\ targets \subseteq Edge
  BY Basics
<1>4. targets = {i \in Edge : TargetEdge(i)}
  OBVIOUS
<1> HIDE DEF targets, pairs, returns
<1>5. IsFiniteSet(targets) /\ IsFiniteSet(pairs) /\ IsFiniteSet(returns)
  BY <1>3, FiniteParts, FS_Subset
<1>6. Cardinality(pairs) <= Cardinality(targets)
      /\ Cardinality(returns) <= Cardinality(pairs)
  BY <1>3, <1>5, FS_Subset
<1>7. Cardinality(targets) \in Nat /\ Cardinality(pairs) \in Nat
      /\ Cardinality(returns) \in Nat
  BY <1>5, FS_CardinalityType
<1> QED BY <1>1, <1>2, <1>4, <1>6, <1>7

\* What is added for one entity is counters and tallies.
LEMMA EntityCounts ==
  ASSUME Trajectory, NEW t, IsResult(t)
  PROVE  /\ AreTotals(Counts(t), t.edges.edges, Maps(t))
         /\ Whole(Maps(t)["segmentSupport"]) = Len(BuildSegments)
         /\ Whole(Maps(t)["entitySupport"]) = 1
<1>1. /\ DOMAIN Counts(t) = CounterNames
      /\ \A k \in CounterNames : Counts(t)[k] \in Nat
  <2>1. /\ Cardinality(Gaps) \in Nat /\ Cardinality(Discs) \in Nat
        /\ Len(obs) \in Nat /\ WithHA(1, Len(obs)) \in Nat
        /\ Len(BuildSegments) \in Nat
    <3>1. Gaps \subseteq Edge /\ Discs \subseteq Edge
      BY DEF Gaps, Discs
    <3>2. 1 \in 1 .. Len(obs) /\ Len(obs) \in 1 .. Len(obs) /\ 1 <= Len(obs)
      BY Basics
    <3> QED BY <3>1, <3>2, FiniteParts, Basics, KnownIn, SegmentRows
  <2>2. /\ t.target.count \in Nat /\ t.target.pairs \in Nat
        /\ t.target.exactReturns \in Nat
    BY TargetsNest DEF IsResult
  <2> QED BY <2>1, <2>2 DEF IsResult, Counts, CounterNames
<1>2. /\ DOMAIN t.edges.edges = EdgeNames
      /\ \A k \in EdgeNames : t.edges.edges[k] \in Nat
  <2>1. \A k \in EdgeNames :
          t.edges.edges[k] = Cardinality({i \in Edge : k \in EdgeKinds(i)})
    BY DEF IsResult, EdgeDiagnostics, EdgeNames
  <2>2. DOMAIN t.edges.edges = EdgeNames
    BY DEF IsResult, EdgeDiagnostics, EdgeNames
  <2>3. \A k : Cardinality({i \in Edge : k \in EdgeKinds(i)}) \in Nat
    BY FiniteParts
  <2> QED BY <2>1, <2>2, <2>3
<1>3. /\ IsTally(Maps(t)["segmentSupport"])
      /\ Whole(Maps(t)["segmentSupport"]) = Len(BuildSegments)
  <2>1. PICK f : f = [n \in DOMAIN BuildSegments |-> BuildSegments[n].support]
    OBVIOUS
  <2>2. Maps(t)["segmentSupport"] = Tally(f)
    BY <2>1 DEF Maps, IsResult
  <2>3. PICK D : D = 1 .. Len(Spans)
    OBVIOUS
  <2>4. DOMAIN f = D /\ Len(BuildSegments) = Len(Spans)
        /\ Len(Spans) \in Nat \ {0}
    BY <2>1, <2>3, SegmentRows
  <2>5. 1 \in Int /\ Len(Spans) \in Int
    BY <2>4
  <2>6. IsFiniteSet(1 .. Len(Spans))
        /\ Cardinality(1 .. Len(Spans))
             = IF 1 > Len(Spans) THEN 0 ELSE Len(Spans) - 1 + 1
    BY <2>5, FS_Interval
  <2>7. IsFiniteSet(D) /\ Cardinality(D) = Len(BuildSegments)
    BY <2>3, <2>4, <2>6
  <2>8. IsTally(Tally(f)) /\ Whole(Tally(f)) = Cardinality(D)
    BY <2>4, <2>7, TallyWeighs
  <2> QED BY <2>2, <2>7, <2>8
<1>4. /\ IsTally(Maps(t)["entitySupport"])
      /\ Whole(Maps(t)["entitySupport"]) = 1
  <2>1. PICK f : f = [n \in {1} |-> t.track.support]
    OBVIOUS
  <2>2. Maps(t)["entitySupport"] = Tally(f) /\ DOMAIN f = {1}
    BY <2>1 DEF Maps
  <2>3. IsFiniteSet({1}) /\ Cardinality({1}) = 1
    BY FS_Singleton
  <2>4. IsTally(Tally(f)) /\ Whole(Tally(f)) = Cardinality({1})
    BY <2>2, <2>3, TallyWeighs
  <2> QED BY <2>2, <2>3, <2>4
<1>5. /\ DOMAIN Maps(t) = MapNames
      /\ \A k \in MapNames : IsTally(Maps(t)[k])
  <2>1. /\ IsTally(t.edges.attribution) /\ IsTally(t.edges.reasons)
        /\ IsTally(t.edges.reasonAccuracy)
    BY AttributionCounts, ReasonsTallied DEF IsResult
  <2>2. /\ IsTally(t.steps.edgeDT) /\ IsTally(t.steps.discDT)
        /\ IsTally(t.steps.reasonAccuracyDT) /\ IsTally(t.steps.dtDistance)
        /\ IsTally(t.steps.accuracyDTDistance) /\ IsTally(t.steps.classes)
    <3>1. PICK d : d = StepDiagnostics
      OBVIOUS
    <3>2. \A k \in {"edgeDT", "discDT", "reasonAccuracyDT", "dtDistance",
                    "accuracyDTDistance", "classes"} : IsTally(d[k])
      BY <3>1, StepsTallied
    <3> QED BY <3>1, <3>2 DEF IsResult
  <2> QED BY <1>3, <1>4, <2>1, <2>2 DEF Maps, MapNames
<1> QED BY <1>1, <1>2, <1>3, <1>4, <1>5 DEF AreTotals

LEMMA EntityAgrees ==
  ASSUME Trajectory, NEW t, IsResult(t)
  PROVE  Agree(Counts(t), t.edges.edges, Maps(t))
<1>1. PICK c : c = Counts(t)
  OBVIOUS
<1>2. PICK e : e = t.edges.edges
  OBVIOUS
<1>3. PICK m : m = Maps(t)
  OBVIOUS
<1>4. /\ AreTotals(c, e, m) /\ Whole(m["segmentSupport"]) = Len(BuildSegments)
      /\ Whole(m["entitySupport"]) = 1
  BY <1>1, <1>2, <1>3, EntityCounts
<1>5. /\ c["entities"] = 1 /\ c["normalized"] = Len(obs)
      /\ c["segments"] = Len(BuildSegments)
      /\ c["gaps"] = Cardinality(Gaps) /\ c["discs"] = Cardinality(Discs)
      /\ c["targets"] = TargetPopulation.count
      /\ c["targetPairs"] = TargetPopulation.pairs
      /\ c["exactReturns"] = TargetPopulation.exactReturns
  BY <1>1 DEF Counts, IsResult
<1>6. /\ m["attribution"] = EdgeDiagnostics.attribution
      /\ m["reasons"] = EdgeDiagnostics.reasons
      /\ m["reasonAccuracy"] = EdgeDiagnostics.reasonAccuracy
      /\ m["edgeDT"] = StepDiagnostics.edgeDT
      /\ m["discDT"] = StepDiagnostics.discDT
      /\ m["reasonAccuracyDT"] = StepDiagnostics.reasonAccuracyDT
      /\ m["dtDistance"] = StepDiagnostics.dtDistance
      /\ m["accuracyDTDistance"] = StepDiagnostics.accuracyDTDistance
      /\ m["classes"] = StepDiagnostics.classes
  BY <1>3 DEF Maps, IsResult
<1>7. /\ e["continuous_edges"] = Cardinality((Edge \ Gaps) \ Discs)
      /\ e["gap_edges"] = Cardinality(Gaps)
      /\ e["discontinuity_edges"] = Cardinality(Discs)
      /\ e["gap_and_discontinuity_edges"] = Cardinality(Gaps \cap Discs)
  BY <1>2, EdgeCounts DEF IsResult
<1>8. /\ Gaps \subseteq Edge /\ Discs \subseteq Edge /\ IsFiniteSet(Edge)
      /\ Cardinality(Edge) = Len(obs) - 1 /\ Len(obs) \in Nat
  BY FiniteParts, Basics DEF Gaps, Discs
<1>9. EdgesAgree(c, e, m)
  <2>1. e["continuous_edges"] + e["gap_edges"] + e["discontinuity_edges"]
          - e["gap_and_discontinuity_edges"] = c["normalized"] - c["entities"]
    <3>1. PICK B : B = Gaps \cup Discs
      OBVIOUS
    <3>2. PICK C : C = (Edge \ Gaps) \ Discs
      OBVIOUS
    <3>3. IsFiniteSet(B) /\ IsFiniteSet(C) /\ IsFiniteSet(Gaps)
          /\ IsFiniteSet(Discs) /\ IsFiniteSet(Gaps \cap Discs)
      BY <1>8, <3>1, <3>2, FiniteParts
    <3>4. C \cup B = Edge /\ C \cap B = {}
      BY <1>8, <3>1, <3>2
    <3>5. Cardinality(C \cup B)
            = Cardinality(C) + Cardinality(B) - Cardinality(C \cap B)
      BY <3>3, FS_Union
    <3>6. Cardinality(B) = Cardinality(Gaps) + Cardinality(Discs)
                             - Cardinality(Gaps \cap Discs)
      BY <3>1, <3>3, FS_Union
    <3>7. /\ Cardinality(C) \in Nat /\ Cardinality(B) \in Nat
          /\ Cardinality(Gaps) \in Nat /\ Cardinality(Discs) \in Nat
          /\ Cardinality(Gaps \cap Discs) \in Nat
      BY <3>3, FS_CardinalityType
    <3>8. Cardinality(C \cap B) = 0
      BY <3>4, FS_EmptySet
    <3>12. Cardinality(Edge) = Cardinality(C) + Cardinality(B) - 0
      BY <3>4, <3>5, <3>8
    <3>9. Cardinality(C) + Cardinality(B) = Len(obs) - 1
      BY <1>8, <3>7, <3>12
    <3>10. e["continuous_edges"] = Cardinality(C)
      BY <1>7, <3>2
    <3>11. e["continuous_edges"] + e["gap_edges"] + e["discontinuity_edges"]
          - e["gap_and_discontinuity_edges"] = Len(obs) - 1
      BY <1>7, <3>6, <3>7, <3>9, <3>10
    <3> QED BY <1>5, <3>11
  <2>2. ASSUME NEW kind \in Attributed
        PROVE  Weigh(m["attribution"], {kind} \X AccuracyStates) = e[kind]
    BY <1>2, <1>6, AttributionCounts DEF IsResult
  <2> QED BY <1>5, <1>7, <2>1, <2>2 DEF EdgesAgree
<1>10. ReasonsAgree(e, m)
  <2>1. /\ Whole(m["reasons"]) = Cardinality(Discs)
        /\ "unknown" \notin DOMAIN m["reasons"]
        /\ \A r : Weigh(m["reasonAccuracy"], {r} \X AccuracyStates)
                    = Weigh(m["reasons"], {r})
    BY <1>6, ReasonsTallied
  <2> QED BY <1>7, <2>1 DEF ReasonsAgree
<1>11. StepsAgree(c, e, m)
  <2>1. /\ \A k \in DOMAIN m["reasonAccuracy"] : k = <<k[1], k[2]>>
        /\ \A r, a : Weigh(m["reasonAccuracy"], {<<r, a>>})
                       = Cardinality(WithBoth(r, a))
    BY <1>6, ReasonsTallied
  <2>2. /\ Whole(m["edgeDT"]) = Cardinality(Edge)
        /\ Whole(m["discDT"]) = Cardinality(Discs)
        /\ \A r, a : Weigh(m["reasonAccuracyDT"], {r} \X {a} \X Nat)
                       = Cardinality(WithBoth(r, a))
    BY <1>6, StepsTallied
  <2>3. ASSUME NEW r, NEW a
        PROVE  Weigh(m["reasonAccuracyDT"], {r} \X {a} \X Nat)
                 = Weigh(m["reasonAccuracy"], {<<r, a>>})
    <3>1. Weigh(m["reasonAccuracyDT"], {r} \X {a} \X Nat)
            = Cardinality(WithBoth(r, a))
      BY <2>2, Zenon
    <3>2. Weigh(m["reasonAccuracy"], {<<r, a>>}) = Cardinality(WithBoth(r, a))
      BY <2>1, Zenon
    <3> QED BY <3>1, <3>2
  <2>4. Whole(m["edgeDT"]) = c["normalized"] - c["entities"]
        /\ Whole(m["discDT"]) = e["discontinuity_edges"]
    BY <1>5, <1>7, <1>8, <2>2
  <2> QED BY <2>1, <2>3, <2>4 DEF StepsAgree
<1>12. SpeedOnlyAgree(c, m)
  <2>1. Weigh(m["reasons"], {"speed_only"}) = Cardinality(With("speed_only"))
    BY <1>6, ReasonsTallied
  <2>2. With("speed_only") = Speedy
    BY DEF With, Speedy
  <2>3. /\ Whole(m["dtDistance"]) = Cardinality(Speedy)
        /\ Whole(m["accuracyDTDistance"]) = Cardinality(Speedy)
        /\ Whole(m["classes"]) = Cardinality(Speedy)
        /\ Weigh(m["accuracyDTDistance"], {"both_missing"} \X {0, 1} \X {2})
             = Cardinality({i \in Edge : TargetEdge(i)})
    BY <1>6, StepsTallied
  <2>4. /\ TargetPopulation.count = Cardinality({i \in Edge : TargetEdge(i)})
        /\ TargetPopulation.exactReturns <= TargetPopulation.pairs
        /\ TargetPopulation.pairs <= TargetPopulation.count
    BY TargetsNest
  <2> QED BY <1>5, <2>1, <2>2, <2>3, <2>4 DEF SpeedOnlyAgree
<1>13. SupportAgrees(c, m)
  BY <1>4, <1>5 DEF SupportAgrees
<1> QED BY <1>1, <1>2, <1>3, <1>4, <1>9, <1>10, <1>11, <1>12, <1>13 DEF Agree

-----------------------------------------------------------------------------
(* What the totals say of the run.                                         *)

\* The totals of a map in the words of the model.
LEMMA MapsAreWeighed ==
  ASSUME NEW name, IsTally(totals.maps[name])
  PROVE  /\ MapTotal(name) = Whole(totals.maps[name])
         /\ \A keys : Slice(name, keys) = Weigh(totals.maps[name], keys)
<1>1. PICK b : b = totals.maps[name]
  OBVIOUS
<1>2. b = [k \in DOMAIN b |-> b[k]]
  BY <1>1 DEF IsTally
<1>3. SumFunction(b) = AddUp(b, DOMAIN b)
  BY <1>2, SumIsOverDomain
<1>4. ASSUME NEW keys PROVE Slice(name, keys) = Weigh(totals.maps[name], keys)
  <2>1. PICK g : g = [k \in DOMAIN b \cap keys |-> b[k]]
    OBVIOUS
  <2>2. PICK S : S = DOMAIN b \cap keys
    OBVIOUS
  <2>3. g = [x \in S |-> g[x]] /\ \A x \in S : g[x] = b[x]
    BY <2>1, <2>2
  <2>4. SumFunction(g) = AddUp(b, S)
    BY <2>3, SumIs
  <2> QED BY <1>1, <2>1, <2>2, <2>4 DEF Slice, Weigh
<1> QED BY <1>1, <1>3, <1>4 DEF MapTotal, Whole

TotalsAgree == Agree(totals.counters, totals.edges, totals.maps)

LEMMA AgreementSays ==
  ASSUME TotalsAgree
  PROVE  /\ EdgesClose /\ StepDiagnosticsAgree
         /\ MapTotal("segmentSupport") = Total("segments")
         /\ MapTotal("entitySupport") = Total("entities")
<1>1. PICK c : c = totals.counters
  OBVIOUS
<1>2. PICK e : e = totals.edges
  OBVIOUS
<1>3. PICK m : m = totals.maps
  OBVIOUS
<1>4. /\ AreTotals(c, e, m) /\ EdgesAgree(c, e, m) /\ ReasonsAgree(e, m)
      /\ StepsAgree(c, e, m) /\ SpeedOnlyAgree(c, m) /\ SupportAgrees(c, m)
  BY <1>1, <1>2, <1>3 DEF TotalsAgree, Agree
<1>5. /\ \A k : Total(k) = c[k] /\ EdgeTotal(k) = e[k]
      /\ \A k \in MapNames : IsTally(m[k]) /\ MapTotal(k) = Whole(m[k])
      /\ \A k \in MapNames : \A keys : Slice(k, keys) = Weigh(m[k], keys)
  BY <1>1, <1>2, <1>3, <1>4, MapsAreWeighed DEF Total, EdgeTotal, AreTotals
<1>6. {"attribution", "reasons", "reasonAccuracy", "edgeDT", "discDT",
       "reasonAccuracyDT", "dtDistance", "accuracyDTDistance", "classes",
       "segmentSupport", "entitySupport"} \subseteq MapNames
  BY DEF MapNames
<1>7. EdgesClose
  <2>1. \A r \in DOMAIN m["reasons"] :
          Slice("reasonAccuracy", {r} \X AccuracyStates) = m["reasons"][r]
    <3>1. ASSUME NEW r \in DOMAIN m["reasons"]
          PROVE  Slice("reasonAccuracy", {r} \X AccuracyStates) = m["reasons"][r]
      <4>1. Weigh(m["reasons"], {r}) = m["reasons"][r]
        BY <1>5, <1>6, WeighOne
      <4>2. Weigh(m["reasonAccuracy"], {r} \X AccuracyStates)
              = Weigh(m["reasons"], {r})
        BY <1>4 DEF ReasonsAgree
      <4> QED BY <1>5, <1>6, <4>1, <4>2
    <3> QED BY <3>1
  <2>2. \A kind \in Attributed :
          Slice("attribution", {kind} \X AccuracyStates) = EdgeTotal(kind)
    BY <1>4, <1>5, <1>6 DEF EdgesAgree
  <2>3. /\ EdgeTotal("continuous_edges") + EdgeTotal("gap_edges")
             + EdgeTotal("discontinuity_edges")
             - EdgeTotal("gap_and_discontinuity_edges")
           = Total("normalized") - Total("entities")
        /\ EdgeTotal("gap_edges") = Total("gaps")
        /\ EdgeTotal("discontinuity_edges") = Total("discs")
    BY <1>4, <1>5 DEF EdgesAgree
  <2>4. /\ MapTotal("reasons") = EdgeTotal("discontinuity_edges")
        /\ "unknown" \notin DOMAIN m["reasons"]
    BY <1>4, <1>5, <1>6 DEF ReasonsAgree
  <2> QED BY <1>3, <2>1, <2>2, <2>3, <2>4 DEF EdgesClose, Attributed
<1>8. StepDiagnosticsAgree
  <2>1. ASSUME NEW k \in DOMAIN m["reasonAccuracy"]
        PROVE  Slice("reasonAccuracyDT", {k[1]} \X {k[2]} \X Nat)
                 = m["reasonAccuracy"][k]
    <3>1. k = <<k[1], k[2]>>
      BY <1>4 DEF StepsAgree
    <3>2. Weigh(m["reasonAccuracy"], {k}) = m["reasonAccuracy"][k]
      BY <1>5, <1>6, WeighOne
    <3>3. Weigh(m["reasonAccuracyDT"], {k[1]} \X {k[2]} \X Nat)
            = Weigh(m["reasonAccuracy"], {<<k[1], k[2]>>})
      BY <1>4 DEF StepsAgree
    <3> QED BY <1>5, <1>6, <3>1, <3>2, <3>3
  <2>2. /\ MapTotal("edgeDT") = Total("normalized") - Total("entities")
        /\ MapTotal("discDT") = EdgeTotal("discontinuity_edges")
    BY <1>4, <1>5, <1>6 DEF StepsAgree
  <2>3. /\ MapTotal("dtDistance") = Slice("reasons", {"speed_only"})
        /\ MapTotal("accuracyDTDistance") = Slice("reasons", {"speed_only"})
        /\ MapTotal("classes") = Slice("reasons", {"speed_only"})
        /\ Slice("accuracyDTDistance", {"both_missing"} \X {0, 1} \X {2})
             = Total("targets")
        /\ Total("exactReturns") <= Total("targetPairs")
        /\ Total("targetPairs") <= Total("targets")
    BY <1>4, <1>5, <1>6 DEF SpeedOnlyAgree
  <2> QED BY <1>3, <2>1, <2>2, <2>3 DEF StepDiagnosticsAgree
<1>9. /\ MapTotal("segmentSupport") = Total("segments")
      /\ MapTotal("entitySupport") = Total("entities")
  BY <1>4, <1>5, <1>6 DEF SupportAgrees
<1> QED BY <1>7, <1>8, <1>9

-----------------------------------------------------------------------------
(* The run keeps it so.                                                    *)

\* The inductive invariant of the run: the entity being read is a trajectory,
\* its rows stand once its input has ended, and the totals agree.
Projected ==
  /\ Trajectory
  /\ tables = IF Finished THEN Rows ELSE NoTables
  /\ TotalsAgree

LEMMA InitProjected == ProjectionInit => Projected
<1> SUFFICES ASSUME ProjectionInit PROVE Projected
  OBVIOUS
<1>1. Trajectory
  BY InitTrajectory DEF ProjectionInit
<1>2. ~Finished /\ tables = NoTables
  BY DEF ProjectionInit, Init, Finished
<1>3. TotalsAgree
  BY NoneAgree DEF ProjectionInit, TotalsAgree
<1> QED BY <1>1, <1>2, <1>3 DEF Projected

\* An observation leaves rows and totals alone.
LEMMA ObserveProjected ==
  ASSUME Projected, Observe
  PROVE  Projected'
<1>1. Next /\ UNCHANGED <<tables, totals>>
  BY DEF Observe, Next
<1>2. PICK o \in Incoming :
        \/ ContinuityBreak(o) \/ ConfirmArrival(o) \/ ConfirmPresence(o)
        \/ Reanchor(o) \/ RemainInside(o) \/ DepartUnconfirmed(o)
        \/ StartCandidate(o) \/ RestartCandidate(o) \/ ConfirmDeparture(o)
  BY DEF Observe
<1>3. result' = result
  BY <1>2 DEF ContinuityBreak, ConfirmArrival, ConfirmPresence, Reanchor,
              RemainInside, DepartUnconfirmed, StartCandidate,
              RestartCandidate, ConfirmDeparture, Depart, Consume
<1>4. ~Finished /\ ~Finished'
  BY <1>2, <1>3 DEF Incoming, Finished
<1>5. Trajectory'
  BY <1>1, NextTrajectory DEF Projected
<1>6. tables' = NoTables
  BY <1>1, <1>4 DEF Projected
<1>7. TotalsAgree'
  BY <1>1 DEF Projected, TotalsAgree
<1> QED BY <1>4, <1>5, <1>6, <1>7 DEF Projected

\* What is built is built of the observations read.
LEMMA BuiltIsResult ==
  ASSUME Trajectory, Finish
  PROVE  Built = Rows' /\ IsResult(Built)
<1>1. obs' = obs
  BY DEF Finish
<1>2. TypeOK /\ TypeOK'
  BY NextTrajectory DEF Trajectory, Timeline, Evidence, Inductive, Next
<1>3. BuildSegments' = BuildSegments
  BY <1>1 DEF BuildSegments, SegmentRow, SegmentPathEdges, WithHA, SupportOf,
              Known, EdgeAccuracyState, StepDistance, StepDT, Edge
<1>4. EdgeDiagnostics' = EdgeDiagnostics
  BY <1>1 DEF EdgeDiagnostics, EdgeKinds, IsBreak, EdgeAccuracyState, Known,
              DiscontinuityReason, StepEffective, StepDT, Edge
<1>5. StepDiagnostics' = StepDiagnostics
  BY <1>1 DEF StepDiagnostics, EdgeAccuracyState, Known, DiscontinuityReason,
              StepEffective, StepDT, Edge, DtBucket, DistanceBucket
<1>6. TargetPopulation' = TargetPopulation
  BY <1>1 DEF TargetPopulation, TargetEdge, EdgeAccuracyState, Known,
              DiscontinuityReason, StepEffective, StepDT, Edge
<1>7. Built = Rows'
  BY <1>1, <1>3, <1>4, <1>5, <1>6
     DEF Built, Rows, BuildTrack, BuildEntity, MovementSupport, WithHA, SupportOf,
         Known, TrackPathEdges, TrackRunCut, IsBreak, Edge, StepDistance, Duration
<1>8. /\ Len(events') \in Nat /\ Len(presence') \in Nat
      /\ Len(transitions') \in Nat
  BY <1>2 DEF TypeOK
<1>9. IsResult(Built)
  BY <1>8 DEF IsResult, Built, BuildTrack, Gaps, Discs
<1> QED BY <1>7, <1>9

\* An entity's rows are built when its input ends, and add to what agreed.
LEMMA FinishProjected ==
  ASSUME Projected, FinishEntity
  PROVE  Projected'
<1>1. Finish /\ Trajectory /\ TotalsAgree
  BY DEF FinishEntity, Projected
<1>2. Trajectory'
  BY <1>1, NextTrajectory DEF Next
<1>3. Finished'
  BY <1>1, FinishFinishes DEF Trajectory, Timeline, Evidence, Inductive
<1>4. tables' = Rows' /\ IsResult(tables')
  BY <1>1, BuiltIsResult DEF FinishEntity
<1>5. PICK t : t = tables'
  OBVIOUS
<1>6. Agree(Counts(t), t.edges.edges, Maps(t))
  BY <1>1, <1>4, <1>5, EntityAgrees
<1>7. totals' = Accumulated(t)
  BY <1>5 DEF FinishEntity
<1>8. /\ totals'.counters = AddCounters(totals.counters, Counts(t))
      /\ totals'.edges = AddCounters(totals.edges, t.edges.edges)
      /\ totals'.maps = AddMaps(totals.maps, Maps(t))
  BY <1>7 DEF Accumulated
<1>9. Agree(totals'.counters, totals'.edges, totals'.maps)
  <2>1. Agree(totals.counters, totals.edges, totals.maps)
    BY <1>1 DEF TotalsAgree
  <2>2. Agree(AddCounters(totals.counters, Counts(t)),
              AddCounters(totals.edges, t.edges.edges),
              AddMaps(totals.maps, Maps(t)))
    BY <1>6, <2>1, AgreeAdds
  <2> QED BY <1>8, <2>2
<1>10. TotalsAgree'
  BY <1>9 DEF TotalsAgree
<1> QED BY <1>2, <1>3, <1>4, <1>10 DEF Projected

\* The next entity begins as the first one did.
LEMMA NextEntityProjected == Projected /\ NextEntity => Projected'
<1>1. NextEntity => Init'
  BY DEF NextEntity, Init
<1>2. Init' => Trajectory'
  BY InitTrajectory, PTL
<1> SUFFICES ASSUME Projected, NextEntity PROVE Projected'
  OBVIOUS
<1>3. Trajectory'
  BY <1>1, <1>2
<1>4. ~Finished' /\ tables' = NoTables
  BY DEF NextEntity, Finished
<1>5. TotalsAgree'
  BY DEF NextEntity, Projected, TotalsAgree
<1> QED BY <1>3, <1>4, <1>5 DEF Projected

LEMMA NextProjected == Projected /\ [ProjectionNext]_projectionVars => Projected'
<1> SUFFICES ASSUME Projected, [ProjectionNext]_projectionVars PROVE Projected'
  OBVIOUS
<1>1. CASE Observe
  BY <1>1, ObserveProjected
<1>2. CASE FinishEntity
  BY <1>2, FinishProjected
<1>3. CASE NextEntity
  BY <1>3, NextEntityProjected
<1>4. CASE UNCHANGED projectionVars
  <2>1. UNCHANGED vars /\ UNCHANGED <<tables, totals>>
    BY <1>4 DEF projectionVars
  <2>2. Trajectory'
    BY <2>1, NextTrajectory DEF Projected
  <2>3. /\ obs' = obs /\ events' = events /\ presence' = presence
        /\ transitions' = transitions /\ result' = result
    BY <2>1 DEF vars
  <2>4. Rows' = Rows
    BY <2>3 DEF Rows, BuildSegments, SegmentRow, SegmentPathEdges, WithHA,
      SupportOf, Known, EdgeAccuracyState, StepDistance, StepDT, Edge,
      EdgeDiagnostics, EdgeKinds, IsBreak, DiscontinuityReason, StepEffective,
      StepDiagnostics, DtBucket, DistanceBucket, TargetPopulation, TargetEdge,
      BuildTrack, BuildEntity, MovementSupport, TrackPathEdges, TrackRunCut,
      Duration
  <2>5. (Finished' <=> Finished) /\ TotalsAgree' /\ tables' = tables
    BY <2>1, <2>3 DEF Projected, TotalsAgree, Finished
  <2> QED BY <2>2, <2>4, <2>5 DEF Projected
<1> QED BY <1>1, <1>2, <1>3, <1>4 DEF ProjectionNext

LEMMA SpecProjected == ProjectionSpec => []Projected
BY InitProjected, NextProjected, PTL DEF ProjectionSpec

LEMMA ProjectedRows ==
  ASSUME Projected, tables.built
  PROVE  Trajectory /\ Finished /\ tables = Rows
BY DEF Projected, NoTables

\* The segment rows tile the track and add up to what buildTrack computes from
\* the observations by itself.
THEOREM SegmentsAlwaysTile == ProjectionSpec => []SegmentsTileTrack
<1>1. Projected => SegmentsTileTrack
  BY ProjectedRows, RowsTileTrack DEF SegmentsTileTrack
<1> QED BY <1>1, SpecProjected, PTL

\* The line of the track, which buildTrack cuts by its own rule, is the lines
\* of the segments end to end, and no presence or transition crosses a cut.
THEOREM PathsAlwaysAgree == ProjectionSpec => []PathRunsAgree
<1>1. Projected => PathRunsAgree
  BY ProjectedRows, RowsDrawOneLine DEF PathRunsAgree
<1> QED BY <1>1, SpecProjected, PTL

\* The accuracy columns of transition, segment, track and entity rows agree
\* with each other and with the rows, and an entity's time is spent once.
THEOREM RowsAlwaysFit == ProjectionSpec => []RowsFitTogether
<1>1. ASSUME Projected PROVE SupportMatchesRows
  <2> SUFFICES ASSUME tables.built PROVE SupportMatchesRows
    BY DEF SupportMatchesRows
  <2>1. Trajectory /\ Finished /\ tables = Rows
    BY <1>1, ProjectedRows
  <2>2. TotalsAgree
    BY <1>1 DEF Projected
  <2> QED BY <2>1, <2>2, MovementCounted, SupportOfSegments, AgreementSays
          DEF SupportMatchesRows
<1>2. ASSUME Projected PROVE TimeIsSpentOnce
  BY <1>2, ProjectedRows, TimeSpentOnce DEF TimeIsSpentOnce
<1>3. Projected => RowsFitTogether
  BY <1>1, <1>2 DEF RowsFitTogether
<1> QED BY <1>3, SpecProjected, PTL

\* The edge counters of a run close on its edges, their attributions and their
\* reasons, over any number of entities.
THEOREM EdgesAlwaysClose == ProjectionSpec => []EdgesClose
<1>1. Projected => EdgesClose
  BY AgreementSays DEF Projected
<1> QED BY <1>1, SpecProjected, PTL

\* The step diagnostics, which the pipeline gathers by other code than the
\* eventizer's, describe the same edges.
THEOREM StepsAlwaysAgree == ProjectionSpec => []StepDiagnosticsAgree
<1>1. Projected => StepDiagnosticsAgree
  BY AgreementSays DEF Projected
<1> QED BY <1>1, SpecProjected, PTL

-----------------------------------------------------------------------------
(* Explanations.                                                           *)

\* Only the events of a presence name one.
OfPresence(e) ==
  e.source \in {"START", "END", "GAP", "DISCONTINUITY"} => e.presence = 0
AllNamed(es) == \A e : Said(es, e) => OfPresence(e)

\* Time passes in the steps of the input.
Stepped == \A i \in Edge : StepDT(i) \in StepS

\* What the analyst is asked about.
Explicable == AllNamed(events) /\ Stepped

LEMMA InitExplicable == Init => Explicable
<1> SUFFICES ASSUME Init PROVE Explicable
  OBVIOUS
<1>1. PICK d : d = Event("START", 1, 0)
  OBVIOUS
<1>2. events = <<d>> /\ Len(obs) = 1
  BY <1>1 DEF Init
<1>3. \A e : Said(events, e) => e = d
  BY <1>2 DEF Said
<1>4. OfPresence(d)
  BY <1>1 DEF OfPresence, Event
<1>5. Edge = {}
  BY <1>2 DEF Edge
<1> QED BY <1>3, <1>4, <1>5 DEF Explicable, AllNamed, Stepped

\* An observation is a step of the input later than the one before it.
LEMMA SteppedNext ==
  ASSUME Inductive, Stepped, NEW o \in Incoming, Consume(o)
  PROVE  Stepped'
<1>1. /\ o \in Observation /\ TypeOK
      /\ Len(obs) \in Nat \ {0} /\ Now = Len(obs) + 1 /\ Len(obs') = Now
      /\ obs'[Now] = o /\ \A i \in 1 .. Len(obs) : obs'[i] = obs[i]
  BY Reading, Read
<1>2. PICK fix \in Fix : o = Measured(obs[Len(obs)], fix)
  BY DEF Incoming
<1>3. PICK prev : prev = obs[Len(obs)]
  OBVIOUS
<1>4. prev.ts \in Nat /\ fix.dt \in StepS /\ fix.dt \in Nat
  <2>1. Len(obs) \in Index
    BY <1>1 DEF Index
  <2>2. fix.dt \in StepS
    BY DEF Fix
  <2>3. prev \in Observation
    BY <1>1, <1>3, <2>1, ObservationAt
  <2> QED BY <2>2, <2>3, StepAssumption DEF Observation
<1>5. o.ts = prev.ts + fix.dt
  BY <1>2, <1>3 DEF Measured
<1>6. o.ts - prev.ts \in StepS
  <2>1. o.ts - prev.ts = fix.dt
    BY <1>4, <1>5
  <2> QED BY <1>4, <2>1
<1>7. ASSUME NEW i \in Nat, i = Now PROVE StepDT(i)' \in StepS
  <2>1. obs'[i - 1] = prev /\ obs'[i] = o
    BY <1>1, <1>3, <1>7
  <2> QED BY <1>6, <2>1 DEF StepDT
<1>8. ASSUME NEW i \in 2 .. Len(obs) PROVE StepDT(i)' \in StepS
  <2>1. i - 1 \in 1 .. Len(obs) /\ i \in 1 .. Len(obs)
    BY <1>1
  <2>2. obs'[i] = obs[i] /\ obs'[i - 1] = obs[i - 1]
    BY <1>1, <2>1
  <2>3. StepDT(i) \in StepS
    BY DEF Stepped, Edge
  <2> QED BY <2>2, <2>3 DEF StepDT
<1>9. \A i \in Edge' : i \in 2 .. Len(obs) \/ (i = Now /\ i \in Nat)
  BY <1>1 DEF Edge
<1> QED BY <1>7, <1>8, <1>9 DEF Stepped

\* One more event that names what it should, or none.
LEMMA NamedAppended ==
  ASSUME NEW S, NEW s \in Seq(S), AllNamed(s),
         NEW t, t = <<>> \/ \E e \in S : OfPresence(e) /\ t = <<e>>
  PROVE  s \o t \in Seq(S) /\ AllNamed(s \o t)
<1>1. t \in Seq(S)
  <2>1. <<>> \in Seq(S) /\ \A e \in S : <<e>> \in Seq(S)
    OBVIOUS
  <2> QED BY <2>1
<1>2. \A e : Said(t, e) => OfPresence(e)
  BY DEF Said
<1>3. \A e : Said(s \o t, e) <=> Said(s, e) \/ Said(t, e)
  BY <1>1, SaidInConcat
<1> QED BY <1>1, <1>2, <1>3 DEF AllNamed

LEMMA SameNamed ==
  ASSUME AllNamed(events), events' = events
  PROVE  AllNamed(events)'
BY DEF AllNamed, Said, OfPresence

LEMMA ToldNamed ==
  ASSUME NEW es, AllNamed(es), events' = es
  PROVE  AllNamed(events)'
BY DEF AllNamed, Said, OfPresence

LEMMA IntervalNamed ==
  ASSUME NEW reason
  PROVE  OfPresence(IntervalEvent(ClosedPresence(reason)))
<1>1. PICK p : p = ClosedPresence(reason)
  OBVIOUS
<1>2. p.class \in {"STAY", "DWELL"}
  BY <1>1 DEF ClosedPresence
<1>3. IntervalEvent(p).source = p.class
  BY DEF IntervalEvent, Event
<1>4. OfPresence(IntervalEvent(p))
  BY <1>2, <1>3 DEF OfPresence
<1> QED BY <1>1, <1>4

LEMMA NamedNext == TypeOK /\ AllNamed(events) /\ [Next]_vars => AllNamed(events)'
<1> SUFFICES ASSUME TypeOK, AllNamed(events), [Next]_vars PROVE AllNamed(events)'
  OBVIOUS
<1>1. events \in Seq(EventRecord)
  BY DEF TypeOK
<1>2. \A i, p : /\ OfPresence(Event("GAP", i, 0))
                /\ OfPresence(Event("DISCONTINUITY", i, 0))
                /\ OfPresence(Event("END", i, 0))
                /\ OfPresence(Event("ENTER", i, p))
                /\ OfPresence(Event("LEAVE", i, p))
  BY DEF OfPresence, Event
<1>3. ASSUME NEW a, NEW b, NEW c, OfPresence(a), OfPresence(b), OfPresence(c),
             NEW x, x \in {<<>>, <<a>>}, NEW y, y \in {<<>>, <<b>>},
             NEW z, z \in {<<>>, <<c>>}, events' = events \o x \o y \o z
      PROVE  AllNamed(events)'
  <2>1. PICK S : S = EventRecord \cup {a, b, c}
    OBVIOUS
  <2>2. events \in Seq(S)
    <3>1. EventRecord \subseteq S
      BY <2>1
    <3> QED BY <1>1, <3>1
  <2>3. a \in S /\ b \in S /\ c \in S
    BY <2>1
  <2>4. events \o x \in Seq(S) /\ AllNamed(events \o x)
    BY <1>3, <2>2, <2>3, NamedAppended
  <2>5. PICK es \in Seq(S) : es = events \o x /\ AllNamed(es)
    BY <2>4
  <2>6. es \o y \in Seq(S) /\ AllNamed(es \o y)
    BY <1>3, <2>3, <2>5, NamedAppended
  <2>7. PICK fs \in Seq(S) : fs = es \o y /\ AllNamed(fs)
    BY <2>6
  <2>8. AllNamed(fs \o z)
    BY <1>3, <2>3, <2>7, NamedAppended
  <2>9. events' = fs \o z
    BY <1>3, <2>5, <2>7
  <2> QED BY <2>8, <2>9, ToldNamed
<1>4. ASSUME NEW o \in Incoming, ContinuityBreak(o) PROVE AllNamed(events)'
  <2>1. PICK a : a = IntervalEvent(ClosedPresence(
                       IF o.disc THEN "discontinuity" ELSE "gap"))
    OBVIOUS
  <2>2. PICK b : b = Event("GAP", Now, 0)
    OBVIOUS
  <2>3. PICK c : c = Event("DISCONTINUITY", Now, 0)
    OBVIOUS
  <2>4. events' = events \o (IF Closable THEN <<a>> ELSE <<>>)
                         \o (IF o.gap THEN <<b>> ELSE <<>>)
                         \o (IF o.disc THEN <<c>> ELSE <<>>)
    BY <1>4, <2>1, <2>2, <2>3 DEF ContinuityBreak
  <2>5. OfPresence(a) /\ OfPresence(b) /\ OfPresence(c)
    BY <1>2, <2>1, <2>2, <2>3, IntervalNamed
  <2> QED BY <1>3, <2>4, <2>5
<1>5. ASSUME NEW o \in Incoming, ConfirmArrival(o) PROVE AllNamed(events)'
  <2>1. PICK a : a = Event("ENTER", state.anchorIdx, state.anchorIdx)
    OBVIOUS
  <2>2. events' = events \o <<a>> \o <<>> \o <<>>
    BY <1>1, <1>5, <2>1 DEF ConfirmArrival
  <2>3. OfPresence(a)
    BY <1>2, <2>1
  <2> QED BY <1>3, <2>2, <2>3
<1>6. ASSUME NEW o \in Incoming, DepartUnconfirmed(o) \/ ConfirmDeparture(o)
      PROVE  AllNamed(events)'
  <2>1. PICK p : p = ClosedPresence("confirmed_movement")
    OBVIOUS
  <2>2. PICK a : a = IntervalEvent(p)
    OBVIOUS
  <2>3. PICK b : b = Event("LEAVE", p.end, p.start)
    OBVIOUS
  <2>4. events' = events \o <<a, b>>
    BY <1>6, <2>1, <2>2, <2>3 DEF DepartUnconfirmed, ConfirmDeparture, Depart
  <2>5. events' = events \o <<a>> \o <<b>> \o <<>>
    BY <1>1, <2>4
  <2>6. OfPresence(a) /\ OfPresence(b)
    BY <1>2, <2>1, <2>2, <2>3, IntervalNamed
  <2> QED BY <1>3, <2>5, <2>6
<1>7. CASE Finish
  <2>1. PICK a : a = IntervalEvent(ClosedPresence("dataset_end"))
    OBVIOUS
  <2>2. PICK b : b = Event("END", Len(obs), 0)
    OBVIOUS
  <2>3. events' = events \o (IF Closable THEN <<a>> ELSE <<>>) \o <<b>>
    BY <1>7, <2>1, <2>2 DEF Finish
  <2>4. events' = events \o (IF Closable THEN <<a>> ELSE <<>>) \o <<b>> \o <<>>
    BY <1>1, <2>3
  <2>5. OfPresence(a) /\ OfPresence(b)
    BY <1>2, <2>1, <2>2, IntervalNamed
  <2> QED BY <1>3, <2>4, <2>5
<1>8. ASSUME events' = events PROVE AllNamed(events)'
  BY <1>8, SameNamed
<1> QED BY <1>4, <1>5, <1>6, <1>7, <1>8
        DEF Next, vars, ConfirmPresence, Reanchor, RemainInside, StartCandidate,
            RestartCandidate

LEMMA NextExplicable == Trajectory /\ Explicable /\ [Next]_vars => Explicable'
<1> SUFFICES ASSUME Trajectory, Explicable, [Next]_vars PROVE Explicable'
  OBVIOUS
<1>1. Inductive /\ TypeOK
  BY DEF Trajectory, Timeline, Evidence, Inductive
<1>2. AllNamed(events)'
  BY <1>1, NamedNext DEF Explicable
<1>3. ASSUME obs' = obs PROVE Stepped'
  BY <1>3 DEF Explicable, Stepped, StepDT, Edge
<1>4. ASSUME NEW o \in Incoming, Consume(o) PROVE Stepped'
  BY <1>1, <1>4, SteppedNext DEF Explicable
<1>5. Stepped'
  BY <1>3, <1>4 DEF Next, vars, Finish, ContinuityBreak, ConfirmArrival,
     ConfirmPresence, Reanchor, RemainInside, DepartUnconfirmed, StartCandidate,
     RestartCandidate, ConfirmDeparture
<1> QED BY <1>2, <1>5 DEF Explicable

\* Where the fixes are a millisecond apart, their milliseconds tell them apart.
FixesApart == \A s \in StepS : Milli <= s

LEMMA LaterMillis ==
  ASSUME FixesApart, Trajectory, Explicable
  PROVE  /\ \A i \in Index : Millis(i) \in Nat
         /\ \A i, j \in Index : i < j => Millis(i) < Millis(j)
<1>1. Index = 1 .. Len(obs) /\ Len(obs) \in Nat /\ Edge = 2 .. Len(obs)
  BY Basics
<1>2. \A i \in Index : obs[i].ts \in Nat
  BY <1>1, Basics
<1>3. Milli \in Nat /\ Milli > 0
  BY ExplainAssumption
<1>4. ASSUME NEW x \in Nat
      PROVE  /\ x \div Milli \in Nat
             /\ Milli * (x \div Milli) <= x /\ x < Milli * (x \div Milli) + Milli
  BY <1>3
<1>5. ASSUME NEW x \in Nat, NEW y \in Nat, x + Milli <= y
      PROVE  x \div Milli < y \div Milli
  <2>1. PICK p \in Nat : p = x \div Milli /\ Milli * p <= x
    BY <1>4
  <2>2. PICK q \in Nat : q = y \div Milli /\ y < Milli * q + Milli
    BY <1>4
  <2>3. PICK m \in Nat : m = Milli
    BY <1>3
  <2>4. m * p + m < m * q + m
    <3>1. m * p \in Nat /\ m * q \in Nat
      BY <2>3
    <3> QED BY <1>5, <2>1, <2>2, <2>3, <3>1
  <2>5. ASSUME q <= p PROVE m * q <= m * p
    BY <2>5
  <2>6. m * p \in Nat /\ m * q \in Nat
    OBVIOUS
  <2>7. p < q
    BY <2>4, <2>5, <2>6
  <2> QED BY <2>1, <2>2, <2>7
<1>6. \A i \in Index : Millis(i) \in Nat
  BY <1>2, <1>4 DEF Millis
<1>7. ASSUME NEW i \in Index, NEW j \in Index, i < j
      PROVE  Millis(i) < Millis(j)
  <2>1. j \in Edge /\ j - 1 \in Index /\ (i = j - 1 \/ i < j - 1)
    BY <1>1, <1>7
  <2>2. StepDT(j) \in StepS
    BY <2>1 DEF Explicable, Stepped
  <2>3. StepDT(j) >= Milli /\ StepDT(j) = obs[j].ts - obs[j - 1].ts
    BY <2>2, <1>3, StepAssumption DEF FixesApart, StepDT
  <2>4. obs[j - 1].ts >= obs[i].ts
    <3>1. i < j - 1 => obs[i].ts < obs[j - 1].ts
      BY <2>1 DEF Trajectory, Timeline, Clock
    <3> QED BY <1>2, <2>1, <3>1
  <2>5. obs[i].ts + Milli <= obs[j].ts
    BY <1>2, <1>3, <2>1, <2>3, <2>4
  <2> QED BY <1>2, <1>5, <2>5 DEF Millis
<1> QED BY <1>6, <1>7

\* The nearby observations are a stretch around the event's own.
LEMMA NearbyIsStretch ==
  ASSUME FixesApart, Trajectory, Explicable, NEW at \in Index,
         NEW near \in Nearby(Millis(at))
  PROVE  at \in near /\ \A i, j \in near : i .. j \subseteq near
<1>1. Index = 1 .. Len(obs) /\ Len(obs) \in Nat /\ Len(obs) >= 1
  BY Basics
<1>2. /\ \A i \in Index : Millis(i) \in Nat
      /\ \A i, j \in Index : i < j => Millis(i) < Millis(j)
  BY LaterMillis
<1>3. PICK ms \in Nat : ms = Millis(at)
  BY <1>2
<1>4. /\ near \subseteq Index
      /\ Cardinality(near) = Min({NearbyLimit, Len(obs)})
      /\ \A i \in near, j \in Index \ near : Distant(i, ms) <= Distant(j, ms)
  BY <1>3 DEF Nearby
<1>5. \A i \in Index : Distant(i, ms) = IF Millis(i) < ms THEN ms - Millis(i)
                                        ELSE Millis(i) - ms
  BY DEF Distant
<1>6. near # {}
  <2>1. Min({NearbyLimit, Len(obs)}) > 0
    <3>1. PICK T : T = {NearbyLimit, Len(obs)}
      OBVIOUS
    <3>2. \A x \in T : x \in Nat /\ x > 0
      BY <1>1, <3>1, ExplainAssumption
    <3>3. \E x \in T : \A y \in T : x =< y
      BY <3>1, <3>2
    <3>4. Min(T) \in T
      BY <3>3 DEF Min
    <3> QED BY <3>1, <3>2, <3>4
  <2> QED BY <1>4, <2>1, FS_EmptySet
<1>7. at \in near
  <2> SUFFICES ASSUME at \notin near PROVE FALSE
    OBVIOUS
  <2>1. PICK i \in near : Distant(i, ms) <= Distant(at, ms)
    BY <1>4, <1>6
  <2>2. Distant(at, ms) = 0
    BY <1>3, <1>5
  <2>3. i \in Index /\ Millis(i) = ms
    BY <1>2, <1>4, <1>5, <2>1, <2>2
  <2>4. i < at \/ at < i
    BY <1>1, <2>1, <2>3
  <2> QED BY <1>2, <1>3, <2>3, <2>4
<1>8. ASSUME NEW i \in near, NEW j \in near, NEW m \in i .. j PROVE m \in near
  <2> SUFFICES ASSUME m \notin near PROVE FALSE
    OBVIOUS
  <2>1. i \in Index /\ j \in Index /\ m \in Index /\ i < m /\ m < j
    BY <1>1, <1>4
  <2>2. Distant(i, ms) <= Distant(m, ms) /\ Distant(j, ms) <= Distant(m, ms)
    BY <1>4, <2>1
  <2>3. Millis(i) < Millis(m) /\ Millis(m) < Millis(j)
    BY <1>2, <2>1
  <2> QED BY <1>2, <1>5, <2>1, <2>2, <2>3
<1> QED BY <1>7, <1>8

\* The two latest observations up to a discontinuity are its edge.
LEMMA LatestAreTheEdge ==
  ASSUME FixesApart, Trajectory, Explicable, NEW at \in Edge,
         NEW two \in LatestTwo(Millis(at))
  PROVE  two = <<at, at - 1>>
<1>1. Index = 1 .. Len(obs) /\ Len(obs) \in Nat /\ Edge = 2 .. Len(obs)
  BY Basics
<1>2. /\ \A i \in Index : Millis(i) \in Nat
      /\ \A i, j \in Index : i < j => Millis(i) < Millis(j)
  BY LaterMillis
<1>3. at \in Index /\ at - 1 \in 1 .. at - 1
  BY <1>1
<1>4. UpTo(Millis(at)) = 1 .. at
  <2>1. ASSUME NEW i \in Index PROVE Millis(i) <= Millis(at) <=> i <= at
    <3>1. i < at \/ i = at \/ at < i
      BY <1>1
    <3> QED BY <1>1, <1>2, <1>3, <3>1
  <2> QED BY <1>1, <2>1 DEF UpTo
<1>5. ASSUME NEW n \in Index PROVE Latest(1 .. n) = {n}
  <2>1. ASSUME NEW i \in 1 .. n, \A j \in 1 .. n : Millis(j) <= Millis(i)
        PROVE  i = n
    <3>1. i \in Index /\ n \in 1 .. n
      BY <1>1
    <3>2. Millis(n) <= Millis(i)
      BY <2>1, <3>1
    <3> QED BY <1>1, <1>2, <3>1, <3>2
  <2>2. ASSUME NEW j \in 1 .. n PROVE Millis(j) <= Millis(n)
    <3>1. j \in Index /\ (j = n \/ j < n)
      BY <1>1
    <3> QED BY <1>2, <3>1
  <2>3. n \in 1 .. n
    BY <1>1
  <2> QED BY <2>1, <2>2, <2>3 DEF Latest
<1>6. Latest(UpTo(Millis(at))) = {at}
  BY <1>3, <1>4, <1>5
<1>7. UpTo(Millis(at)) \ {at} = 1 .. at - 1
  BY <1>1, <1>4
<1>8. at - 1 \in Index /\ 1 .. at - 1 # {}
  <2>1. at - 1 \in Index
    BY <1>1
  <2> QED BY <1>3, <2>1
<1>9. Latest(UpTo(Millis(at)) \ {at}) = {at - 1}
  BY <1>5, <1>7, <1>8
<1>10. PICK cur \in Latest(UpTo(Millis(at))) :
         two \in {<<cur, prev>> : prev \in LET rest == UpTo(Millis(at)) \ {cur}
                                           IN  IF rest = {} THEN {0}
                                               ELSE Latest(rest)}
  BY Zenon DEF LatestTwo
<1>11. cur = at
  BY <1>6, <1>10
<1>12. two \in {<<at, prev>> : prev \in LET rest == UpTo(Millis(at)) \ {at}
                                        IN  IF rest = {} THEN {0}
                                            ELSE Latest(rest)}
  BY <1>10, <1>11
<1>13. two \in {<<at, prev>> : prev \in {at - 1}}
  BY <1>7, <1>8, <1>9, <1>12
<1> QED BY <1>13

\* An event of an entity that has ended is stated by its records.
LEMMA ReturnedIsStated ==
  ASSUME Trajectory, Explicable, Finished, NEW k \in DOMAIN result.events
  PROVE  LET e == result.events[k]
         IN  e.at \in Index /\ Stated(e) /\ OfPresence(e) /\ e.source \in Source
<1>1. PICK e : e = result.events[k]
  OBVIOUS
<1>2. result.events \in Seq(EventRecord) /\ Said(events, e)
  BY <1>1 DEF Trajectory, Timeline, InOrder, Said
<1>3. e \in EventRecord
  BY <1>1, <1>2
<1>4. Stated(e)
  BY <1>2 DEF Said, Trajectory, Timeline, Chronicle
<1>5. OfPresence(e)
  BY <1>2 DEF Explicable, AllNamed
<1>6. e.at \in Index /\ e.source \in Source
  BY <1>3 DEF EventRecord, Source
<1> QED BY <1>1, <1>4, <1>5, <1>6

\* A DISCONTINUITY explained is the edge the eventizer judged and counted.
LEMMA EdgeIsExplained ==
  ASSUME Trajectory, NEW i \in Edge, obs[i].disc, tables = Rows, NEW c,
         c = [effective |-> StepEffective(i), dt |-> StepDT(i),
              edge |-> EdgeAccuracyState(i)]
  PROVE  /\ Reason(c) = DiscontinuityReason(i)
         /\ <<Reason(c), c.edge>> \in DOMAIN tables.edges.reasonAccuracy
         /\ tables.edges.reasonAccuracy[<<Reason(c), c.edge>>] > 0
<1>1. StepDT(i) \in Nat /\ StepDT(i) > 0
  BY EdgeTypes
<1>2. c.effective = StepEffective(i) /\ c.dt = StepDT(i)
      /\ c.edge = EdgeAccuracyState(i)
  OBVIOUS
<1>3. Reason(c) = DiscontinuityReason(i)
  BY <1>1, <1>2 DEF Reason, DiscontinuityReason
<1>4. PICK g :
        g = [j \in Discs |-> <<DiscontinuityReason(j), EdgeAccuracyState(j)>>]
  OBVIOUS
<1>5. tables.edges.reasonAccuracy = Tally(g)
  <2>1. tables.edges = EdgeDiagnostics
    BY DEF Rows
  <2> QED BY <1>4, <2>1 DEF EdgeDiagnostics, Discs
<1>6. PICK v : v = <<Reason(c), c.edge>>
  OBVIOUS
<1>7. i \in Discs /\ DOMAIN g = Discs /\ g[i] = v
  BY <1>2, <1>3, <1>4, <1>6 DEF Discs
<1>8. v \in Range(g)
  BY <1>7 DEF Range
<1>9. Tally(g)[v] = Cardinality({j \in Discs : g[j] = v})
  BY <1>7, <1>8 DEF Tally
<1>10. IsFiniteSet({j \in Discs : g[j] = v})
  <2>1. {j \in Discs : g[j] = v} \subseteq Edge
    BY DEF Discs
  <2> QED BY <2>1, FiniteParts
<1>11. Cardinality({j \in Discs : g[j] = v}) > 0
  <2>1. i \in {j \in Discs : g[j] = v}
    BY <1>7
  <2>2. Cardinality({j \in Discs : g[j] = v}) \in Nat
    BY <1>10, FS_CardinalityType
  <2>3. Cardinality({j \in Discs : g[j] = v}) # 0
    BY <1>10, <2>1, FS_EmptySet
  <2> QED BY <2>2, <2>3
<1>12. v \in DOMAIN Tally(g)
  BY <1>8 DEF Tally
<1> QED BY <1>3, <1>5, <1>6, <1>9, <1>11, <1>12

\* The presence an event names is one, and the event is about it.
LEMMA PresenceIsLinked ==
  ASSUME Trajectory, Finished, NEW e, Stated(e), OfPresence(e), e.at \in Index,
         e.source \in Source
  PROVE  /\ Cardinality(LinkedPresences(e)) = (IF e.presence = 0 THEN 0 ELSE 1)
         /\ \A k \in LinkedPresences(e) :
              /\ presence[k].start <= e.at /\ e.at <= presence[k].end
              /\ e.source = "ENTER" => presence[k].entered
              /\ e.source = "LEAVE" => presence[k].end = e.at
<1>1. /\ \A k \in DOMAIN presence : k \in Int
      /\ \A k \in DOMAIN presence :
           /\ presence[k].start \in Nat /\ presence[k].start # 0
           /\ presence[k].end \in Nat
  <2>1. TypeOK /\ presence \in Seq(PresenceInterval)
    BY DEF Trajectory, Timeline, Evidence, Inductive, TypeOK
  <2>2. \A k \in DOMAIN presence : presence[k] \in PresenceInterval
    BY <2>1
  <2>3. \A p \in PresenceInterval : p.start \in Index /\ p.end \in Index
    BY DEF PresenceInterval
  <2>4. \A k \in DOMAIN presence : k \in Int
    BY <2>1
  <2>5. \A i \in Index : i \in Nat /\ i # 0
    BY Basics
  <2> QED BY <2>2, <2>3, <2>4, <2>5
<1>2. /\ \A k \in DOMAIN presence : presence[k].start < presence[k].end
      /\ \A j, k \in DOMAIN presence :
           j < k => presence[j].end < presence[k].start
  BY DEF Trajectory, Timeline, Evidence, PresencesSound, PresencesOrdered, Sound
<1>3. ASSUME NEW j \in DOMAIN presence, NEW k \in DOMAIN presence,
             presence[j].start = presence[k].start
      PROVE  j = k
  <2>1. j < k \/ k < j \/ j = k
    BY <1>1
  <2>2. ASSUME NEW m \in DOMAIN presence, NEW n \in DOMAIN presence, m < n
        PROVE  presence[m].start # presence[n].start
    <3>1. /\ presence[m].start \in Nat /\ presence[m].end \in Nat
          /\ presence[n].start \in Nat
      BY <1>1
    <3>2. presence[m].start < presence[m].end
      BY <1>2
    <3>3. presence[m].end < presence[n].start
      BY <1>1, <1>2, <2>2
    <3> QED BY <3>1, <3>2, <3>3
  <2> QED BY <1>3, <2>1, <2>2
<1>4. ASSUME e.presence = 0 PROVE LinkedPresences(e) = {}
  <2>1. PICK p : p = e.presence
    OBVIOUS
  <2>2. LinkedPresences(e) = {k \in DOMAIN presence : presence[k].start = p}
    BY <2>1 DEF LinkedPresences
  <2>3. {k \in DOMAIN presence : presence[k].start = p} = {}
    BY <1>1, <1>4, <2>1
  <2> QED BY <2>2, <2>3
<1>5. ASSUME e.presence # 0
      PROVE  \E k \in DOMAIN presence :
               /\ presence[k].start = e.presence
               /\ presence[k].start <= e.at /\ e.at <= presence[k].end
               /\ e.source = "ENTER" => presence[k].entered
               /\ e.source = "LEAVE" => presence[k].end = e.at
  <2>1. e.source \in {"STAY", "DWELL", "ENTER", "LEAVE"}
    BY <1>5 DEF OfPresence, Source
  <2>2. CASE IsInterval(e)
    <3>1. PICK k \in DOMAIN presence : e = IntervalEvent(presence[k])
      BY <2>2 DEF Stated
    <3>2. e.at = presence[k].start /\ e.presence = presence[k].start
      BY <3>1 DEF IntervalEvent, Event
    <3>3. e.source # "ENTER" /\ e.source # "LEAVE"
      BY <2>2 DEF IsInterval
    <3> QED BY <1>1, <1>2, <3>2, <3>3
  <2>3. CASE e.source = "LEAVE"
    <3>1. PICK k \in DOMAIN presence :
            e.at = presence[k].end /\ e.presence = presence[k].start
      BY <2>3 DEF Stated
    <3> QED BY <1>1, <1>2, <2>3, <3>1
  <2>4. CASE e.source = "ENTER"
    <3>1. PICK k \in DOMAIN presence :
            presence[k].entered /\ presence[k].start = e.at
      BY <2>4 DEF Stated
    <3>2. e.presence = e.at
      BY <2>4 DEF Stated
    <3> QED BY <1>1, <1>2, <2>4, <3>1, <3>2
  <2> QED BY <2>1, <2>2, <2>3, <2>4 DEF IsInterval
<1>6. CASE e.presence = 0
  BY <1>4, <1>6, FS_EmptySet
<1>7. CASE e.presence # 0
  <2>1. PICK k \in DOMAIN presence :
          /\ presence[k].start = e.presence
          /\ presence[k].start <= e.at /\ e.at <= presence[k].end
          /\ e.source = "ENTER" => presence[k].entered
          /\ e.source = "LEAVE" => presence[k].end = e.at
    BY <1>5, <1>7
  <2>2. LinkedPresences(e) = {k}
    BY <1>3, <2>1 DEF LinkedPresences
  <2>3. Cardinality({k}) = 1
    BY FS_Singleton
  <2> QED BY <1>7, <2>1, <2>2, <2>3
<1> QED BY <1>6, <1>7

\* The segment an event names is the one that holds its observation.
LEMMA SegmentIsLinked ==
  ASSUME Trajectory, tables = Rows, NEW e, e.at \in Index
  PROVE  \E n \in LinkedSegments(e) :
           tables.segments[n].first <= e.at /\ e.at <= tables.segments[n].last
<1>1. PICK at : at = e.at
  OBVIOUS
<1>2. at \in 1 .. Len(obs) /\ Len(obs) \in Nat
  BY <1>1, Basics
<1>3. PICK n \in 1 .. Len(Spans) : at \in Spans[n][1] .. Spans[n][2]
  BY <1>2, SpansAre, RunsCover
<1>4. obs[at].segment = n
  BY <1>3, SegmentsNumbered
<1>5. /\ tables.segments = BuildSegments /\ n \in DOMAIN BuildSegments
      /\ BuildSegments[n] = SegmentRow(Spans[n][1], Spans[n][2])
  BY <1>3, SegmentRows DEF Rows
<1>6. /\ BuildSegments[n].first = Spans[n][1]
      /\ BuildSegments[n].last = Spans[n][2]
  BY <1>5 DEF SegmentRow
<1>7. Spans[n][1] <= at /\ at <= Spans[n][2]
  BY <1>2, <1>3
<1>8. n \in LinkedSegments(e)
  BY <1>1, <1>4, <1>5 DEF LinkedSegments
<1> QED BY <1>1, <1>5, <1>6, <1>7, <1>8

\* What ExplanationsHold asks of an explanation x of the event e.
ShowsEdge(x, e) ==
  x.reason # "" =>
    /\ x.current = e.at /\ x.previous = e.at - 1
    /\ x.reason = DiscontinuityReason(e.at)
    /\ <<x.reason, x.edge>> \in DOMAIN tables.edges.reasonAccuracy
    /\ tables.edges.reasonAccuracy[<<x.reason, x.edge>>] > 0
ShowsNearby(x, e) ==
  e.at \in x.nearby /\ \A i, j \in x.nearby : i .. j \subseteq x.nearby
ShowsEvidence(x, e) ==
  /\ Cardinality(x.presences) = (IF e.presence = 0 THEN 0 ELSE 1)
  /\ \A k \in x.presences :
       /\ presence[k].start <= e.at /\ e.at <= presence[k].end
       /\ e.source = "ENTER" => presence[k].entered
       /\ e.source = "LEAVE" => presence[k].end = e.at
  /\ \E n \in x.segments :
       tables.segments[n].first <= e.at /\ e.at <= tables.segments[n].last
Evident(x, e) == ShowsEdge(x, e) /\ ShowsNearby(x, e) /\ ShowsEvidence(x, e)

LEMMA ShowingHolds ==
  ExplanationsHold <=> (Answered => Evident(explanation, Explaining))
BY DEF ExplanationsHold, ExplainsTheEdge, NearbySupportsEvent, EvidenceIsLinked,
       Evident, ShowsEdge, ShowsNearby, ShowsEvidence

\* The state the tables are asked in.
Tabled == Projected /\ Explicable

\* What is explained of an event, with the two observations behind it or not.
LEMMA ExplainedShows ==
  ASSUME FixesApart, Tabled, Finished, NEW k \in DOMAIN result.events,
         NEW x \in Explained(k)
  PROVE  /\ x.event = k /\ x.reason = ""
         /\ ShowsNearby(x, result.events[k]) /\ ShowsEvidence(x, result.events[k])
         /\ x = [x EXCEPT !.event = k]
<1>1. Trajectory /\ Explicable /\ tables = Rows
  BY DEF Tabled, Projected
<1>2. PICK e : e = result.events[k]
  OBVIOUS
<1>3. e.at \in Index /\ Stated(e) /\ OfPresence(e) /\ e.source \in Source
  BY <1>1, <1>2, ReturnedIsStated
<1>4. PICK near \in Nearby(EventTimeMs(e)) :
        x = [NoExplanation EXCEPT !.event = k, !.nearby = near,
               !.presences = LinkedPresences(e), !.segments = LinkedSegments(e)]
  BY <1>2, Zenon DEF Explained
<1>5. /\ x.event = k /\ x.reason = "" /\ x.nearby = near
      /\ x.presences = LinkedPresences(e) /\ x.segments = LinkedSegments(e)
      /\ x = [x EXCEPT !.event = k]
  BY <1>4 DEF NoExplanation
<1>6. ShowsNearby(x, e)
  <2>1. PICK at \in Index : at = e.at
    BY <1>3
  <2>2. near \in Nearby(Millis(at))
    BY <2>1 DEF EventTimeMs
  <2>3. at \in near /\ \A i, j \in near : i .. j \subseteq near
    BY <1>1, <2>2, NearbyIsStretch
  <2> QED BY <1>5, <2>1, <2>3 DEF ShowsNearby
<1>7. ShowsEvidence(x, e)
  <2>1. /\ Cardinality(LinkedPresences(e)) = (IF e.presence = 0 THEN 0 ELSE 1)
        /\ \A j \in LinkedPresences(e) :
             /\ presence[j].start <= e.at /\ e.at <= presence[j].end
             /\ e.source = "ENTER" => presence[j].entered
             /\ e.source = "LEAVE" => presence[j].end = e.at
    BY <1>1, <1>3, PresenceIsLinked
  <2>2. \E n \in LinkedSegments(e) :
          tables.segments[n].first <= e.at /\ e.at <= tables.segments[n].last
    BY <1>1, <1>3, SegmentIsLinked
  <2> QED BY <1>5, <2>1, <2>2 DEF ShowsEvidence
<1> QED BY <1>2, <1>5, <1>6, <1>7

\* x, with the edge behind the discontinuity e and its reason.
WithEdge(x, two, e) ==
  [x EXCEPT !.current = two[1], !.previous = two[2],
            !.reason = Reason(Context(e)), !.edge = Context(e).edge]

LEMMA DiscontinuityShows ==
  ASSUME FixesApart, Tabled, Finished, NEW k \in DOMAIN result.events,
         result.events[k].source = "DISCONTINUITY", NEW x \in Explained(k),
         NEW two \in LatestTwo(EventTimeMs(result.events[k])), NEW y,
         y = WithEdge(x, two, result.events[k])
  PROVE  y.event = k /\ Evident(y, result.events[k])
<1>1. Trajectory /\ Explicable /\ tables = Rows
  BY DEF Tabled, Projected
<1>2. PICK e : e = result.events[k]
  OBVIOUS
<1>3. e.at \in Index /\ Stated(e)
  BY <1>1, <1>2, ReturnedIsStated
<1>4. obs[e.at].disc
  BY <1>2, <1>3 DEF Stated
<1>5. PICK at \in Edge : at = e.at
  <2>1. e.at # 1
    BY <1>1, <1>4 DEF Trajectory, Measures
  <2> QED BY <1>1, <1>3, <2>1, Basics
<1>6. two = <<at, at - 1>>
  BY <1>1, <1>2, <1>5, LatestAreTheEdge DEF EventTimeMs
<1>7. PICK c : c = Context(e)
  OBVIOUS
<1>8. c = [effective |-> StepEffective(at), dt |-> StepDT(at),
           edge |-> EdgeAccuracyState(at)]
  BY <1>5, <1>7 DEF Context
<1>9. /\ Reason(c) = DiscontinuityReason(at)
      /\ <<Reason(c), c.edge>> \in DOMAIN tables.edges.reasonAccuracy
      /\ tables.edges.reasonAccuracy[<<Reason(c), c.edge>>] > 0
  BY <1>1, <1>4, <1>5, <1>8, EdgeIsExplained
<1>10. PICK r : r = Reason(c)
  OBVIOUS
<1>11. y = [x EXCEPT !.current = at, !.previous = at - 1, !.reason = r,
                     !.edge = c.edge]
  BY <1>2, <1>6, <1>7, <1>10 DEF WithEdge
<1>12. /\ x.event = k /\ ShowsNearby(x, e) /\ ShowsEvidence(x, e)
       /\ DOMAIN x = {"event", "nearby", "presences", "segments", "previous",
                      "current", "reason", "edge"}
  <2>1. x.event = k /\ ShowsNearby(x, e) /\ ShowsEvidence(x, e)
    BY <1>2, ExplainedShows
  <2>2. PICK near : x = [NoExplanation EXCEPT !.event = k, !.nearby = near,
               !.presences = LinkedPresences(e), !.segments = LinkedSegments(e)]
    BY <1>2, Zenon DEF Explained
  <2> QED BY <2>1, <2>2 DEF NoExplanation
<1>13. /\ y.event = k /\ y.current = at /\ y.previous = at - 1 /\ y.reason = r
       /\ y.edge = c.edge /\ y.nearby = x.nearby /\ y.presences = x.presences
       /\ y.segments = x.segments
  BY <1>11, <1>12
<1>14. ShowsEdge(y, e)
  BY <1>5, <1>9, <1>10, <1>13 DEF ShowsEdge
<1>15. ShowsNearby(y, e) /\ ShowsEvidence(y, e)
  BY <1>12, <1>13 DEF ShowsNearby, ShowsEvidence
<1> QED BY <1>2, <1>13, <1>14, <1>15 DEF Evident

-----------------------------------------------------------------------------
(* The analyst asks after the run of an entity, and the run goes on.       *)

LEMMA InitTabled == ProjectionInit => Tabled
BY InitProjected, InitExplicable DEF ProjectionInit, Tabled

LEMMA NextTabled == Tabled /\ [ProjectionNext]_projectionVars => Tabled'
<1>0. NextEntity => Init'
  BY DEF NextEntity, Init
<1>1. Init' => Explicable'
  BY InitExplicable, PTL
<1> SUFFICES ASSUME Tabled, [ProjectionNext]_projectionVars PROVE Tabled'
  OBVIOUS
<1>2. Projected' /\ Trajectory /\ Explicable
  BY NextProjected DEF Tabled, Projected
<1>3. Observe => Next
  BY DEF Observe, Next
<1>4. FinishEntity => Next
  BY DEF FinishEntity, Next
<1>5. UNCHANGED projectionVars => UNCHANGED vars
  BY DEF projectionVars
<1>6. [Next]_vars \/ NextEntity
  BY <1>3, <1>4, <1>5 DEF ProjectionNext
<1>7. Explicable'
  BY <1>0, <1>1, <1>2, <1>6, NextExplicable
<1> QED BY <1>2, <1>7 DEF Tabled

\* What was shown stays shown while the tables stay.
LEMMA ShowingKept ==
  ASSUME UNCHANGED projectionVars, NEW x, x = explanation',
         Evident(x, result.events[x.event])
  PROVE  ExplanationsHold'
<1>1. /\ obs' = obs /\ presence' = presence /\ result' = result
      /\ tables' = tables
  BY DEF projectionVars, vars
<1>2. \A i : DiscontinuityReason(i)' = DiscontinuityReason(i)
  BY <1>1 DEF DiscontinuityReason, StepEffective, StepDT
<1>3. Explaining' = result.events[x.event]
  BY <1>1 DEF Explaining
<1> QED BY <1>1, <1>2, <1>3
        DEF ExplanationsHold, ExplainsTheEdge, NearbySupportsEvent,
            EvidenceIsLinked, Evident, ShowsEdge, ShowsNearby, ShowsEvidence

LEMMA NextShows ==
  FixesApart /\ Tabled /\ ExplanationsHold /\ [ExplainNext]_explainVars
    => Tabled' /\ ExplanationsHold'
<1> SUFFICES ASSUME FixesApart, Tabled, ExplanationsHold,
                    [ExplainNext]_explainVars
             PROVE  Tabled' /\ ExplanationsHold'
  OBVIOUS
<1>1. CASE ProjectionNext /\ explanation' = NoExplanation
  <2>1. Tabled'
    BY <1>1, NextTabled
  <2>2. ~Answered'
    BY <1>1 DEF Answered
  <2> QED BY <2>1, <2>2 DEF ExplanationsHold, ExplainsTheEdge,
             NearbySupportsEvent, EvidenceIsLinked
<1>2. ASSUME UNCHANGED projectionVars PROVE Tabled'
  BY <1>2, NextTabled
<1>3. CASE ExplainEvent
  <2>1. Finished /\ UNCHANGED projectionVars
    BY <1>3 DEF ExplainEvent, Asked
  <2>2. PICK k \in DOMAIN result.events : explanation' \in Explained(k)
    BY <1>3 DEF ExplainEvent
  <2>3. PICK x \in Explained(k) : x = explanation'
    BY <2>2
  <2>4. x.event = k /\ Evident(x, result.events[k])
    BY <2>1, <2>3, ExplainedShows DEF Evident, ShowsEdge
  <2> QED BY <1>2, <2>1, <2>3, <2>4, ShowingKept
<1>4. CASE ExplainDiscontinuity
  <2>1. Finished /\ UNCHANGED projectionVars
    BY <1>4 DEF ExplainDiscontinuity, Asked
  <2>2. PICK k \in DOMAIN result.events :
          /\ result.events[k].source = "DISCONTINUITY"
          /\ \E x \in Explained(k),
                two \in LatestTwo(EventTimeMs(result.events[k])) :
               explanation' =
                 [x EXCEPT !.current = two[1], !.previous = two[2],
                           !.reason = Reason(Context(result.events[k])),
                           !.edge = Context(result.events[k]).edge]
    BY <1>4, Zenon DEF ExplainDiscontinuity
  <2>3. PICK x \in Explained(k),
             two \in LatestTwo(EventTimeMs(result.events[k])) :
          explanation' =
            [x EXCEPT !.current = two[1], !.previous = two[2],
                      !.reason = Reason(Context(result.events[k])),
                      !.edge = Context(result.events[k]).edge]
    BY <2>2
  <2>4. PICK y : y = explanation'
    OBVIOUS
  <2>5. y.event = k /\ Evident(y, result.events[k])
    <3>1. y = WithEdge(x, two, result.events[k])
      BY <2>3, <2>4, Zenon DEF WithEdge
    <3> QED BY <2>1, <2>2, <2>3, <3>1, DiscontinuityShows
  <2> QED BY <1>2, <2>1, <2>4, <2>5, ShowingKept
<1>5. CASE UNCHANGED explainVars
  <2>1. UNCHANGED projectionVars /\ explanation' = explanation
    BY <1>5 DEF explainVars
  <2>2. CASE explanation = NoExplanation
    <3>1. ~Answered'
      BY <2>1, <2>2 DEF Answered
    <3> QED BY <1>2, <2>1, <3>1 DEF ExplanationsHold, ExplainsTheEdge,
               NearbySupportsEvent, EvidenceIsLinked
  <2>3. CASE explanation # NoExplanation
    <3>1. PICK x : x = explanation'
      OBVIOUS
    <3>2. Evident(x, result.events[x.event])
      BY <2>1, <2>3, <3>1, ShowingHolds DEF Answered, Explaining
    <3> QED BY <1>2, <2>1, <3>1, <3>2, ShowingKept
  <2> QED BY <2>2, <2>3
<1> QED BY <1>1, <1>3, <1>4, <1>5 DEF ExplainNext

\* While the fixes of an entity are at least a millisecond apart, which the
\* tables and the event record cannot tell by less, an explanation shows what
\* the eventizer judged: the ends of the edge and its reason, the observations
\* around the event, its presence and its segment.
THEOREM ExplanationsAlwaysHold == FixesApart => (ExplainSpec => []ExplanationsHold)
<1>1. ExplainInit => Tabled /\ ExplanationsHold
  BY InitTabled DEF ExplainInit, ExplanationsHold, ExplainsTheEdge,
     NearbySupportsEvent, EvidenceIsLinked, Answered
<1> SUFFICES ASSUME FixesApart PROVE ExplainSpec => []ExplanationsHold
  OBVIOUS
<1>2. Tabled /\ ExplanationsHold /\ [ExplainNext]_explainVars
        => Tabled' /\ ExplanationsHold'
  BY NextShows
<1> QED BY <1>1, <1>2, PTL DEF ExplainSpec
=============================================================================
