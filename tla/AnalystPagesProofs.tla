-------------------------- MODULE AnalystPagesProofs --------------------------
(***************************************************************************)
(* A session of the analyst's collection queries gets its whole result,    *)
(* once and in order, for every table, query, limit and lost answer.       *)
(*                                                                         *)
(* Each page is a query of its own, so the argument has two halves.  The   *)
(* last column of every order is an identifier, so two rows of a result    *)
(* are never tied and DuckDB has one answer to give (ResultIsDetermined).  *)
(* Then the rows delivered are a beginning of that one answer, as long as  *)
(* the offset in the cursor says, and a page not yet collected is the      *)
(* piece that follows them (the invariant Session).                        *)
(***************************************************************************)
EXTENDS AnalystPages, SequenceTheorems, FiniteSetTheorems, TLAPS

Selected(q) == {r \in table : Matches(q, r)}

-----------------------------------------------------------------------------
(* The order of a query.                                                   *)

\* Of two rows a query selects, one comes before the other: the tables of a
\* timeline have different ranks, and within a table the identifiers differ.
LEMMA OrderSeparates ==
  ASSUME NEW q \in Queries, NEW a \in Rows, NEW b \in Rows,
         Matches(q, a), Matches(q, b), ~Before(q, a, b), ~Before(q, b, a)
  PROVE  a = b
<1> DEFINE timeline == q.tool = "get_entity_timeline"
<1>1. q.tool \in Tools
  BY QueryAssumption
<1>2. a.kind \in KindsOf(q.tool) /\ b.kind \in KindsOf(q.tool)
  BY DEF Matches
<1>3. a.ts \in Int /\ a.id \in Int /\ b.ts \in Int /\ b.id \in Int
  BY RowAssumption
<1>4. a.ts = b.ts
  BY <1>3 DEF Before, EntityBefore, TimelineBefore, TimeBefore
<1>5. KindRank(a) \in 1..3 /\ KindRank(b) \in 1..3
  BY DEF KindRank
<1>6. timeline => KindRank(a) = KindRank(b)
  BY <1>4, <1>5 DEF Before, EntityBefore, TimelineBefore, TimeBefore
<1>7. a.id = b.id
  BY <1>3, <1>4, <1>6 DEF Before, EntityBefore, TimelineBefore, TimeBefore
<1>8. a.kind = b.kind
  <2>1. CASE timeline
    <3>1. a.kind \in {"event", "presence", "transition"}
          /\ b.kind \in {"event", "presence", "transition"}
      BY <1>2, <2>1 DEF KindsOf
    <3> QED  BY <3>1, <2>1, <1>6 DEF KindRank
  <2>2. CASE ~timeline
    BY <1>1, <1>2, <2>2 DEF KindsOf, Tools
  <2> QED  BY <2>1, <2>2
<1> QED  BY <1>7, <1>8, RowAssumption

\* No two rows are each before the other.
LEMMA OrderIsOneWay ==
  ASSUME NEW q \in Queries, NEW a \in Rows, NEW b \in Rows, Before(q, a, b)
  PROVE  ~Before(q, b, a)
<1>1. a.ts \in Int /\ a.id \in Int /\ b.ts \in Int /\ b.id \in Int
  BY RowAssumption
<1>2. KindRank(a) \in 1..3 /\ KindRank(b) \in 1..3
  BY DEF KindRank
<1> QED  BY <1>1, <1>2 DEF Before, EntityBefore, TimelineBefore, TimeBefore

-----------------------------------------------------------------------------
(* A query has one result.                                                 *)

\* A result lists each selected row once.
LEMMA ResultLists ==
  ASSUME table \subseteq Rows, NEW q \in Queries, NEW s \in Results(q)
  PROVE  /\ IsFiniteSet(Selected(q))
         /\ Cardinality(Selected(q)) \in Nat
         /\ s \in Seq(Selected(q)) /\ Len(s) = Cardinality(Selected(q))
         /\ \A i, j \in 1..Len(s) : s[i] = s[j] => i = j
         /\ \A r \in Selected(q) : \E i \in 1..Len(s) : s[i] = r
         /\ \A i, j \in 1..Len(s) : i < j => ~Before(q, s[j], s[i])
<1> DEFINE M == Selected(q)
           n == Cardinality(M)
<1>1. IsFiniteSet(M) /\ n \in Nat
  BY RowAssumption, FS_Subset, FS_CardinalityType DEF Selected
<1>2. /\ s \in [1..n -> M]
      /\ \A i, j \in 1..n : s[i] = s[j] => i = j
  BY DEF Results, SetToSeqs, IsInjective, Selected
<1>3. s \in Seq(M) /\ Len(s) = n /\ DOMAIN s = 1..n
  BY <1>1, <1>2
<1>4. s \in Surjection(1..n, M)
  <2>1. s \in Injection(1..n, M)
    BY <1>2 DEF Injection, IsInjective
  <2>2. Cardinality(1..n) = n
    BY <1>1, FS_Interval
  <2> QED  BY <1>1, <2>1, <2>2, FS_Injection
<1>5. \A r \in M : \E i \in 1..n : s[i] = r
  BY <1>4 DEF Surjection
<1>6. \A i, j \in 1..n : i < j => ~Before(q, s[j], s[i])
  BY <1>3 DEF Results
<1> QED  BY <1>1, <1>2, <1>3, <1>5, <1>6

\* As many rows come before a row as its place in the result says.
LEMMA RowsBefore ==
  ASSUME table \subseteq Rows, NEW q \in Queries, NEW s \in Results(q),
         NEW i \in 1..Len(s)
  PROVE  Cardinality({r \in Selected(q) : Before(q, r, s[i])}) = i - 1
<1> DEFINE M     == Selected(q)
           Lower == {r \in M : Before(q, r, s[i])}
           first == [j \in 1 .. (i - 1) |-> s[j]]
<1>1. /\ IsFiniteSet(M)
      /\ s \in Seq(M) /\ Len(s) \in Nat
      /\ \A j, k \in 1..Len(s) : s[j] = s[k] => j = k
      /\ \A r \in M : \E j \in 1..Len(s) : s[j] = r
      /\ \A j, k \in 1..Len(s) : j < k => ~Before(q, s[k], s[j])
  BY ResultLists
<1>2. \A j \in 1..Len(s) : s[j] \in M /\ s[j] \in Rows /\ Matches(q, s[j])
  BY <1>1 DEF Selected
<1>3. \A j \in 1 .. (i - 1) : s[j] \in Lower
  <2> TAKE j \in 1 .. (i - 1)
  <2>1. j \in 1..Len(s) /\ j < i
    BY <1>1
  <2>2. s[j] # s[i] /\ ~Before(q, s[i], s[j])
    BY <1>1, <2>1
  <2>3. Before(q, s[j], s[i])
    BY <1>2, <2>1, <2>2, OrderSeparates
  <2> QED  BY <1>2, <2>1, <2>3
<1>4. \A r \in Lower : \E j \in 1 .. (i - 1) : s[j] = r
  <2> TAKE r \in Lower
  <2>1. PICK j \in 1..Len(s) : s[j] = r
    BY <1>1
  <2>2. Before(q, s[j], s[i])
    BY <2>1
  <2>3. ~Before(q, s[i], s[j])
    BY <1>2, <2>2, OrderIsOneWay
  <2>4. j # i
    BY <2>2, <2>3
  <2>5. ~(i < j)
    BY <1>1, <2>2
  <2> QED  BY <1>1, <2>1, <2>4, <2>5
<1>5. first \in Bijection(1 .. (i - 1), Lower)
  <2> HIDE DEF Lower
  <2>1. first \in [1 .. (i - 1) -> Lower]
    BY <1>3
  <2>2. \A j, k \in 1 .. (i - 1) : first[j] = first[k] => j = k
    <3> TAKE j, k \in 1 .. (i - 1)
    <3>1. first[j] = s[j] /\ first[k] = s[k]
      OBVIOUS
    <3>2. j \in 1..Len(s) /\ k \in 1..Len(s)
      BY <1>1
    <3> QED  BY <1>1, <3>1, <3>2
  <2>3. \A r \in Lower : \E j \in 1 .. (i - 1) : first[j] = r
    BY <1>4
  <2> QED  BY <2>1, <2>2, <2>3 DEF Bijection, Injection, Surjection, IsInjective
<1>6. Cardinality(Lower) = Cardinality(1 .. (i - 1)) /\ IsFiniteSet(1 .. (i - 1))
  <2> HIDE DEF Lower, first
  <2>1. IsFiniteSet(1 .. (i - 1))
    BY <1>1, FS_Interval
  <2> QED  BY <1>5, <2>1, FS_Bijection DEF ExistsBijection
<1>7. Cardinality(1 .. (i - 1)) = i - 1
  BY <1>1, FS_Interval
<1> QED  BY <1>6, <1>7

\* The ORDER BY of a query leaves DuckDB one result: a row has its place.
LEMMA ResultIsDetermined ==
  ASSUME table \subseteq Rows, NEW q \in Queries,
         NEW s \in Results(q), NEW t \in Results(q)
  PROVE  s = t
<1>1. /\ s \in Seq(Selected(q)) /\ Len(s) \in Nat
      /\ t \in Seq(Selected(q)) /\ Len(t) = Len(s)
      /\ \A r \in Selected(q) : \E k \in 1..Len(t) : t[k] = r
  BY ResultLists
<1>2. ASSUME NEW i \in 1..Len(s)  PROVE s[i] = t[i]
  <2>1. PICK k \in 1..Len(t) : t[k] = s[i]
    <3>1. s[i] \in Selected(q)
      BY <1>1, LenProperties
    <3> QED  BY <1>1, <3>1
  <2>2. Cardinality({r \in Selected(q) : Before(q, r, s[i])}) = i - 1
    BY RowsBefore
  <2>3. Cardinality({r \in Selected(q) : Before(q, r, t[k])}) = k - 1
    BY RowsBefore
  <2>4. i - 1 = k - 1
    BY <2>1, <2>2, <2>3
  <2> QED  BY <1>1, <2>1, <2>4
<1> QED  BY <1>1, <1>2, SeqEqual

-----------------------------------------------------------------------------
(* Pages of a result.                                                      *)

LEMMA MinOfTwo ==
  ASSUME NEW a \in Int, NEW b \in Int
  PROVE  Min({a, b}) = IF a <= b THEN a ELSE b
BY DEF Min

\* Whatever limit is asked for, a page has room for a row and keeps the cap.
LEMMA LimitIsBounded ==
  ASSUME NEW limit \in Limits
  PROVE  NormalizeLimit(limit) \in 1..MaxLimit
BY LimitAssumption DEF NormalizeLimit

LEMMA CursorKeepsOffset ==
  ASSUME NEW offset
  PROVE  DecodeCursor(EncodeCursor(offset)) = offset
BY DEF DecodeCursor, EncodeCursor, EmptyCursor

\* A page is the rows after the offset, up to the limit; it says whether rows
\* are left, and its cursor points at the first of them.
LEMMA PageOfRows ==
  ASSUME NEW S, NEW rows \in Seq(S), NEW limit \in Nat, limit > 0,
         NEW offset \in 0..Len(rows)
  PROVE  LET p    == QueryPage(rows, limit, offset)
             left == Len(rows) - offset
         IN  /\ p.rows \in Seq(S)
             /\ Len(p.rows) = IF left > limit THEN limit ELSE left
             /\ \A i \in 1..Len(p.rows) : p.rows[i] = rows[offset + i]
             /\ p.more <=> left > limit
             /\ p.more => DecodeCursor(p.next) = offset + limit
<1> DEFINE left == Len(rows) - offset
           got  == LimitOffset(rows, limit + 1, offset)
           size == IF left > limit THEN limit + 1 ELSE left
<1>1. Len(rows) \in Nat /\ left \in Nat /\ limit + 1 \in Int
  BY LenProperties
<1>2. Min({limit + 1, left}) = size /\ size \in Nat
  BY <1>1, MinOfTwo
<1>3. got = [i \in 1..size |-> rows[offset + i]]
  BY <1>2 DEF LimitOffset
<1>4. \A i \in 1..size : rows[offset + i] \in S
  BY <1>1, LenProperties
<1>5. /\ got \in Seq(S) /\ Len(got) = size
      /\ \A i \in 1..size : got[i] = rows[offset + i]
  <2> HIDE DEF got, size
  <2> QED  BY <1>2, <1>3, <1>4
<1>6. CASE left > limit
  <2>1. Len(got) > limit /\ size = limit + 1
    BY <1>1, <1>5, <1>6
  <2>2. QueryPage(rows, limit, offset)
          = [rows |-> SubSeq(got, 1, limit), more |-> TRUE,
             next |-> EncodeCursor(offset + limit)]
    BY <2>1 DEF QueryPage
  <2>3. \A i \in 1..limit : got[i] \in S /\ got[i] = rows[offset + i]
    <3> HIDE DEF got
    <3> QED  BY <1>4, <1>5, <2>1
  <2>4. /\ SubSeq(got, 1, limit) \in Seq(S)
        /\ Len(SubSeq(got, 1, limit)) = limit
        /\ \A i \in 1..limit : SubSeq(got, 1, limit)[i] = got[i]
    <3> HIDE DEF got
    <3>1. /\ SubSeq(got, 1, limit) \in Seq(S)
          /\ Len(SubSeq(got, 1, limit)) = IF 1 <= limit THEN limit - 1 + 1 ELSE 0
          /\ \A i \in 1 .. limit - 1 + 1 : SubSeq(got, 1, limit)[i] = got[1 + i - 1]
      BY <2>3, SubSeqProperties
    <3> QED  BY <3>1
  <2>5. DecodeCursor(EncodeCursor(offset + limit)) = offset + limit
    BY CursorKeepsOffset
  <2> HIDE DEF got
  <2> QED  BY <1>6, <2>2, <2>3, <2>4, <2>5
<1>7. CASE ~(left > limit)
  <2>1. ~(Len(got) > limit) /\ size = left
    BY <1>1, <1>5, <1>7
  <2>2. QueryPage(rows, limit, offset)
          = [rows |-> got, more |-> FALSE, next |-> EmptyCursor]
    BY <2>1 DEF QueryPage, NoPage
  <2> HIDE DEF got
  <2> QED  BY <1>5, <1>7, <2>1, <2>2
<1> QED  BY <1>6, <1>7

-----------------------------------------------------------------------------
(* The invariant.                                                          *)

\* The rows delivered begin the result s.
Begins(s) ==
  /\ delivered \in Seq(table)
  /\ Len(delivered) <= Len(s)
  /\ \A i \in 1..Len(delivered) : delivered[i] = s[i]

\* The answer not yet collected is the piece of s after what was delivered,
\* and says whether s goes on.
Continues(s) ==
  LET reached == Len(delivered) + Len(page.rows) IN
  /\ page.rows \in Seq(table)
  /\ Len(page.rows) <= MaxLimit
  /\ reached <= Len(s)
  /\ \A i \in 1..Len(page.rows) : page.rows[i] = s[Len(delivered) + i]
  /\ page.more <=> reached < Len(s)
  /\ page.more => page.rows # <<>> /\ DecodeCursor(page.next) = reached

Reads(s) ==
  /\ Begins(s)
  /\ status # "done" => DecodeCursor(cursor) = Len(delivered)
  /\ IF status = "answered" THEN Continues(s) ELSE page = NoPage
  /\ status = "done" => Len(delivered) = Len(s)

Untouched ==
  /\ status \in {"ready", "refused"}
  /\ page = NoPage /\ cursor = EmptyCursor /\ delivered = <<>>

Session ==
  /\ query \in Queries /\ table \subseteq Rows
  /\ status \in {"ready", "answered", "done", "refused"}
  /\ Untouched \/ \E s \in Results(query) : Reads(s)

-----------------------------------------------------------------------------
(* The invariant holds.                                                    *)

\* A result is a sequence of rows of the table.
LEMMA ResultIsOfTable ==
  ASSUME query \in Queries, table \subseteq Rows, NEW s \in Results(query)
  PROVE  s \in Seq(table) /\ Len(s) \in Nat
<1>1. s \in Seq(Selected(query)) /\ Len(s) \in Nat
  BY ResultLists
<1>2. Selected(query) \subseteq table
  BY DEF Selected
<1> QED  BY <1>1, <1>2

LEMMA InitSession == Init => Session
BY DEF Init, Session, Untouched

\* A page of the result that the cursor's offset leaves to deliver.
LEMMA AnswerContinues ==
  ASSUME Session, Answer
  PROVE  Session'
<1>1. PICK limit \in Limits, s \in Results(query) :
        page' = QueryPage(s, NormalizeLimit(limit), DecodeCursor(cursor))
  BY DEF Answer
<1>2. /\ query \in Queries /\ table \subseteq Rows
      /\ status = "ready" /\ status' = "answered"
      /\ UNCHANGED <<table, query, cursor, delivered>>
  BY DEF Answer, Session
<1>3. s \in Seq(table) /\ Len(s) \in Nat
  BY <1>2, ResultIsOfTable
<1>4. Begins(s) /\ DecodeCursor(cursor) = Len(delivered)
  <2>1. CASE Untouched
    BY <2>1, <1>3 DEF Untouched, Begins, DecodeCursor, EmptyCursor
  <2>2. CASE \E t \in Results(query) : Reads(t)
    <3>1. PICK t \in Results(query) : Reads(t)
      BY <2>2
    <3>2. s = t
      BY <1>2, ResultIsDetermined
    <3> QED  BY <1>2, <3>1, <3>2 DEF Reads
  <2> QED  BY <2>1, <2>2 DEF Session
<1>5. Len(delivered) \in 0..Len(s)
  BY <1>3, <1>4 DEF Begins
<1> DEFINE n == NormalizeLimit(limit)
<1>6. n \in 1..MaxLimit /\ n \in Nat /\ n > 0
  BY LimitIsBounded, LimitAssumption
<1>7. /\ page'.rows \in Seq(table)
      /\ Len(page'.rows) = IF Len(s) - Len(delivered) > n
                           THEN n ELSE Len(s) - Len(delivered)
      /\ \A i \in 1..Len(page'.rows) : page'.rows[i] = s[Len(delivered) + i]
      /\ page'.more <=> Len(s) - Len(delivered) > n
      /\ page'.more => DecodeCursor(page'.next) = Len(delivered) + n
  <2> HIDE DEF n
  <2>1. page' = QueryPage(s, n, Len(delivered))
    BY <1>1, <1>4 DEF n
  <2> QED  BY <1>3, <1>5, <1>6, <2>1, PageOfRows
<1>8. Continues(s)'
  <2> HIDE DEF n
  <2>1. Len(page'.rows) \in Nat
    BY <1>7, LenProperties
  <2>2. page'.more => page'.rows # <<>>
    <3>1. page'.more => Len(page'.rows) > 0
      BY <1>6, <1>7
    <3> QED  BY <3>1
  <2> QED  BY <1>2, <1>3, <1>5, <1>6, <1>7, <2>1, <2>2, LimitAssumption DEF Continues
<1>9. Reads(s)'
  BY <1>2, <1>4, <1>8 DEF Reads, Begins
<1>10. s \in Results(query)'
  BY <1>2 DEF Results
<1> QED  BY <1>2, <1>9, <1>10 DEF Session

LEMMA LoseAnswerKeeps ==
  ASSUME Session, LoseAnswer
  PROVE  Session'
<1>1. /\ status = "answered" /\ status' = "ready" /\ page' = NoPage
      /\ UNCHANGED <<table, query, cursor, delivered>>
  BY DEF LoseAnswer
<1>2. PICK s \in Results(query) : Reads(s)
  BY <1>1 DEF Session, Untouched
<1>3. Reads(s)'
  BY <1>1, <1>2 DEF Reads, Begins
<1>4. s \in Results(query)'
  BY <1>1 DEF Results
<1> QED  BY <1>1, <1>3, <1>4 DEF Session

LEMMA CollectKeeps ==
  ASSUME Session, Collect
  PROVE  Session'
<1>1. /\ status = "answered" /\ page' = NoPage
      /\ delivered' = delivered \o page.rows
      /\ UNCHANGED <<table, query>>
      /\ IF page.more THEN status' = "ready" /\ cursor' = page.next
                      ELSE status' = "done" /\ UNCHANGED cursor
  BY DEF Collect
<1>2. PICK s \in Results(query) : Reads(s)
  BY <1>1 DEF Session, Untouched
<1>3. Begins(s) /\ Continues(s)
  BY <1>1, <1>2 DEF Reads
<1>4. s \in Seq(table) /\ Len(s) \in Nat
  BY ResultIsOfTable DEF Session
<1>5. /\ delivered \in Seq(table) /\ page.rows \in Seq(table)
      /\ Len(delivered) \in Nat /\ Len(page.rows) \in Nat
  BY <1>3, LenProperties DEF Begins, Continues
<1>6. /\ delivered' \in Seq(table)
      /\ Len(delivered') = Len(delivered) + Len(page.rows)
      /\ \A i \in 1 .. Len(delivered) + Len(page.rows) : delivered'[i] =
           IF i <= Len(delivered) THEN delivered[i]
           ELSE page.rows[i - Len(delivered)]
  BY <1>1, <1>5, ConcatProperties
<1>7. Begins(s)'
  <2>1. ASSUME NEW i \in 1..Len(delivered')  PROVE delivered'[i] = s[i]
    <3>1. CASE i <= Len(delivered)
      BY <1>3, <1>5, <1>6, <3>1 DEF Begins
    <3>2. CASE i > Len(delivered)
      <4>1. i - Len(delivered) \in 1..Len(page.rows)
        BY <1>5, <1>6, <3>2
      <4>2. page.rows[i - Len(delivered)] = s[Len(delivered) + (i - Len(delivered))]
        BY <1>3, <4>1 DEF Continues
      <4>3. Len(delivered) + (i - Len(delivered)) = i /\ ~(i <= Len(delivered))
        BY <1>5, <1>6, <3>2
      <4> QED  BY <1>6, <4>2, <4>3
    <3> QED  BY <1>5, <1>6, <3>1, <3>2
  <2> QED  BY <1>1, <1>3, <1>6, <2>1 DEF Begins, Continues
<1>8. Reads(s)'
  <2>1. CASE page.more
    BY <1>1, <1>3, <1>6, <1>7, <2>1 DEF Reads, Continues
  <2>2. CASE ~page.more
    BY <1>1, <1>3, <1>4, <1>5, <1>6, <1>7, <2>2 DEF Reads, Continues
  <2> QED  BY <2>1, <2>2
<1>9. s \in Results(query)'
  BY <1>1 DEF Results
<1> QED  BY <1>1, <1>8, <1>9 DEF Session

LEMMA NextSession ==
  ASSUME Session, [Next]_vars
  PROVE  Session'
<1>1. CASE Refuse
  <2>1. /\ status = "ready" /\ status' = "refused"
        /\ UNCHANGED <<table, query, page, cursor, delivered>>
    BY <1>1 DEF Refuse
  <2>2. Results(query)' = Results(query)
    BY <2>1 DEF Results
  <2>3. ASSUME NEW s, Reads(s)  PROVE Reads(s)'
    BY <2>1, <2>3 DEF Reads, Begins
  <2>4. Untouched => Untouched'
    BY <2>1 DEF Untouched
  <2> QED  BY <2>1, <2>2, <2>3, <2>4 DEF Session
<1>2. CASE Answer
  BY <1>2, AnswerContinues
<1>3. CASE LoseAnswer
  BY <1>3, LoseAnswerKeeps
<1>4. CASE Collect
  BY <1>4, CollectKeeps
<1>5. CASE UNCHANGED vars
  <2>1. Results(query)' = Results(query)
    BY <1>5 DEF vars, Results
  <2>2. ASSUME NEW s, Reads(s)  PROVE Reads(s)'
    BY <1>5, <2>2 DEF vars, Reads, Begins, Continues
  <2>3. Untouched => Untouched'
    BY <1>5 DEF vars, Untouched
  <2> QED  BY <1>5, <2>1, <2>2, <2>3 DEF vars, Session
<1> QED  BY <1>1, <1>2, <1>3, <1>4, <1>5 DEF Next

-----------------------------------------------------------------------------
(* The property.                                                           *)

LEMMA SessionGetsResult ==
  ASSUME Session
  PROVE  PagingHolds
<1>1. CASE Untouched
  <2>1. Len(delivered) = 0 /\ delivered = <<>> /\ Len(page.rows) = 0 /\ ~page.more
    BY <1>1 DEF Untouched, NoPage
  <2>2. PagesAreTheResult
    BY <1>1, <2>1 DEF PagesAreTheResult, Untouched, ToSet
  <2>3. PagesKeepTheirPromise
    BY <2>1, LimitAssumption DEF PagesKeepTheirPromise
  <2> QED  BY <2>2, <2>3 DEF PagingHolds
<1>2. CASE \E s \in Results(query) : Reads(s)
  <2>1. PICK s \in Results(query) : Reads(s)
    BY <1>2
  <2>2. query \in Queries /\ table \subseteq Rows
    BY DEF Session
  <2>3. /\ s \in Seq(Matching) /\ Len(s) = Cardinality(Matching)
        /\ Len(s) \in Nat
        /\ \A i, j \in 1..Len(s) : s[i] = s[j] => i = j
        /\ \A r \in Matching : \E i \in 1..Len(s) : s[i] = r
        /\ \A i, j \in 1..Len(s) : i < j => ~Before(query, s[j], s[i])
    BY <2>1, <2>2, ResultLists DEF Matching, Selected
  <2>4. \A i \in 1..Len(s) : s[i] \in Matching /\ s[i].ts \in Int
    BY <2>2, <2>3, RowAssumption DEF Matching
  <2>5. /\ Len(delivered) \in Nat /\ DOMAIN delivered = 1..Len(delivered)
        /\ Len(delivered) <= Len(s)
        /\ \A i \in 1..Len(delivered) : i \in 1..Len(s) /\ delivered[i] = s[i]
    BY <2>1, <2>3, LenProperties DEF Reads, Begins
  <2>6. \A i, j \in DOMAIN delivered : i # j => delivered[i] # delivered[j]
    BY <2>3, <2>5
  <2>7. ToSet(delivered) \subseteq Matching
    BY <2>4, <2>5 DEF ToSet
  <2>8. ASSUME NEW i \in DOMAIN delivered, NEW j \in DOMAIN delivered, i < j
        PROVE  IF query.tool = "search_entities" /\ ~query.ascending
               THEN delivered[i].ts >= delivered[j].ts
               ELSE delivered[i].ts <= delivered[j].ts
    <3>1. /\ ~Before(query, delivered[j], delivered[i])
          /\ delivered[i].ts \in Int /\ delivered[j].ts \in Int
      BY <2>3, <2>4, <2>5, <2>8
    <3> QED  BY <3>1 DEF Before, EntityBefore, TimelineBefore, TimeBefore
  <2>9. ASSUME status = "done"  PROVE ToSet(delivered) = Matching
    <3>1. Len(delivered) = Len(s)
      BY <2>1, <2>9 DEF Reads
    <3>2. ASSUME NEW r \in Matching  PROVE r \in ToSet(delivered)
      <4>1. PICK i \in 1..Len(s) : s[i] = r
        BY <2>3
      <4>2. i \in 1..Len(delivered) /\ delivered[i] = r
        BY <2>5, <3>1, <4>1
      <4> QED  BY <4>2 DEF ToSet
    <3> QED  BY <2>7, <3>2
  <2>10. PagesAreTheResult
    BY <2>6, <2>7, <2>8, <2>9 DEF PagesAreTheResult
  <2>11. PagesKeepTheirPromise
    <3>1. CASE status = "answered"
      BY <2>1, <2>3, <3>1 DEF Reads, Continues, PagesKeepTheirPromise
    <3>2. CASE status # "answered"
      <4>1. Len(page.rows) = 0 /\ ~page.more
        BY <2>1, <3>2 DEF Reads, NoPage
      <4> QED  BY <4>1, LimitAssumption DEF PagesKeepTheirPromise
    <3> QED  BY <3>1, <3>2
  <2> QED  BY <2>10, <2>11 DEF PagingHolds
<1> QED  BY <1>1, <1>2 DEF Session

\* docs/MCP.md, Bounded results and pagination: a client that follows the
\* cursors of queryPage gets every row its query matches exactly once and in
\* the order of the query, and each page says rightly whether it is the last,
\* for every table, query, sequence of limits and number of lost answers.
THEOREM PagingAlwaysHolds == Spec => []PagingHolds
<1>1. Init => Session
  BY InitSession
<1>2. Session /\ [Next]_vars => Session'
  BY NextSession
<1>3. Session => PagingHolds
  BY SessionGetsResult
<1> QED  BY <1>1, <1>2, <1>3, PTL DEF Spec
=============================================================================
