---------------------------- MODULE WritersProofs -----------------------------
(***************************************************************************)
(* Nothing is lost between WriteResult and the files of a successful run,  *)
(* for every list of tables, every batch size and results of every size.   *)
(*                                                                         *)
(* The invariant: until something fails, what a sink has written and what  *)
(* it still buffers are together what it was given; the canonical file and *)
(* the two sets of counters keep step with it.                             *)
(***************************************************************************)
EXTENDS Writers, SequenceTheorems, TLAPS

\* A sink that has met no error, and the rows it was given.
Holds(s, rows) ==
  /\ s \in Sink
  /\ rows = s.rows \o s.buf
  /\ s.written = Len(s.rows)
  /\ Len(s.buf) < BatchRows

NextOK ==
  /\ next \in 1 .. Len(Tables) + 1
  /\ phase \in {"reading", "writing"} => ~failed /\ next = 1
  /\ Published => ~failed /\ next = Len(Tables) + 1
  /\ phase = "failed" => failed

SinksHold == ~failed => \A t \in Table : Holds(sink[t], given[t])

CanonicalHolds == ~failed => json.lines = given[Events] /\ ~json.broken

\* Run adds a result to its counters when all of it has been handed over.
CountsHold ==
  ~failed => \A t \in Table :
    Len(given[t]) = count[t] + (IF Writing THEN done[t] ELSE 0)

DoneOK == Writing => \A t \in Table : done[t] <= result[t]

ClosedHold ==
  ~failed => \A i \in 1 .. next - 1 :
    /\ sink[Tables[i]].buf = <<>>
    /\ stats[Tables[i]] = Len(sink[Tables[i]].rows)

IInv ==
  /\ TypeOK
  /\ NextOK
  /\ SinksHold
  /\ CanonicalHolds
  /\ CountsHold
  /\ DoneOK
  /\ ClosedHold

-----------------------------------------------------------------------------
(* The sinks.                                                              *)

LEMMA RowIsRow ==
  ASSUME TypeOK, NEW t \in Table
  PROVE  RowOf(t) \in Row
BY DEF TypeOK, RowOf, Row

LEMMA AppendToConcat ==
  ASSUME NEW r \in Seq(Row), NEW b \in Seq(Row), NEW row \in Row
  PROVE  Append(r \o b, row) = r \o Append(b, row)
<1>1. Append(b, row) = b \o <<row>>
  BY AppendIsConcat
<1>2. r \o b \in Seq(Row)
  BY ConcatProperties
<1>3. Append(r \o b, row) = (r \o b) \o <<row>>
  BY <1>2, AppendIsConcat
<1>4. <<row>> \in Seq(Row)
  OBVIOUS
<1>5. (r \o b) \o <<row>> = r \o (b \o <<row>>)
  BY <1>4, ConcatAssociative
<1> QED BY <1>1, <1>3, <1>5

LEMMA BufferedHolds ==
  ASSUME NEW s, NEW g, Holds(s, g), NEW row \in Row
  PROVE  LET b == Buffered(s, row)
         IN  /\ b \in Sink
             /\ Append(g, row) = b.rows \o b.buf
             /\ b.written = Len(b.rows)
             /\ b.buf # <<>>
<1>1. s.buf \in Seq(Row) /\ s.rows \in Seq(Row)
  BY DEF Holds, Sink
<1>2. Append(s.buf, row) \in Seq(Row)
  BY <1>1
<1>3. Append(s.rows \o s.buf, row) = s.rows \o Append(s.buf, row)
  BY <1>1, AppendToConcat
<1>4. Append(s.buf, row) # <<>>
  BY <1>1
<1> QED BY <1>1, <1>2, <1>3, <1>4 DEF Holds, Sink, Buffered, SinkOf

LEMMA FlushedHolds ==
  ASSUME NEW s \in Sink, s.written = Len(s.rows)
  PROVE  LET f == FlushSucceeds(s)
         IN  /\ Holds(f, s.rows \o s.buf)
             /\ f.buf = <<>>
<1>1. /\ s.buf \in Seq(Row) /\ s.rows \in Seq(Row) /\ s.written \in Nat
  BY DEF Sink
<1>2. s.rows \o s.buf \in Seq(Row) /\ Len(s.rows \o s.buf) = Len(s.rows) + Len(s.buf)
  BY <1>1, ConcatProperties
<1>3. (s.rows \o s.buf) \o <<>> = s.rows \o s.buf
  BY <1>2, ConcatEmptySeq
<1> DEFINE f == FlushSucceeds(s)
<1>4. /\ f.rows = s.rows \o s.buf /\ f.buf = <<>>
      /\ f.written = s.written + Len(s.buf)
      /\ f \in Sink
  BY <1>1, <1>2 DEF FlushSucceeds, Sink, SinkOf
<1> HIDE DEF f
<1>5. Len(f.buf) < BatchRows
  BY <1>4, BatchAssumption
<1> QED BY <1>1, <1>2, <1>3, <1>4, <1>5 DEF Holds, f

LEMMA FailedFlush ==
  ASSUME NEW s \in Sink, NEW f \in FlushFails(s)
  PROVE  f \in Sink
<1>1. PICK n \in 0 .. Len(s.buf) :
        f = SinkOf(s.buf, s.rows \o SubSeq(s.buf, 1, n), s.written)
  BY DEF FlushFails
<1>2. s.rows \in Seq(Row) /\ s.buf \in Seq(Row)
  BY DEF Sink
<1>3. SubSeq(s.buf, 1, n) \in Seq(Row)
  <2>1. \A i \in 1 .. n : s.buf[i] \in Row
    BY <1>2, ElementOfSeq
  <2> QED BY <2>1, SubSeqProperties
<1>4. s.rows \o SubSeq(s.buf, 1, n) \in Seq(Row)
  BY <1>2, <1>3, ConcatProperties
<1> QED BY <1>1, <1>2, <1>4 DEF Sink, SinkOf

LEMMA AddedToWritten ==
  ASSUME NEW s \in Sink, NEW g, Holds(s, g), NEW row \in Row
  PROVE  LET b == Buffered(s, row)
         IN  /\ b \in Sink
             /\ ~BatchFull(b) => Holds(b, Append(g, row))
             /\ Holds(FlushSucceeds(b), Append(g, row))
             /\ \A f \in FlushFails(b) : f \in Sink
<1> DEFINE b == Buffered(s, row)
<1>1. b \in Sink /\ Append(g, row) = b.rows \o b.buf /\ b.written = Len(b.rows)
  BY BufferedHolds
<1> HIDE DEF b
<1>2. Holds(FlushSucceeds(b), Append(g, row))
  BY <1>1, FlushedHolds
<1>3. ~BatchFull(b) => Holds(b, Append(g, row))
  <2>1. Len(b.buf) \in Nat
    BY <1>1 DEF Sink
  <2> QED BY <1>1, <2>1, BatchAssumption DEF Holds, BatchFull
<1>4. \A f \in FlushFails(b) : f \in Sink
  BY <1>1, FailedFlush
<1> QED BY <1>1, <1>2, <1>3, <1>4 DEF b

LEMMA TablesAreListed ==
  /\ DOMAIN Tables = 1 .. Len(Tables) /\ Len(Tables) \in Nat
  /\ \A i \in 1 .. Len(Tables) : Tables[i] \in Table
  /\ \A t \in Table : \E i \in 1 .. Len(Tables) : Tables[i] = t
  /\ \A i, j \in 1 .. Len(Tables) : Tables[i] = Tables[j] => i = j
<1>1. DOMAIN Tables = 1 .. Len(Tables) /\ Len(Tables) \in Nat
  BY TablesAssumption, LenProperties
<1> QED BY <1>1, TablesAssumption DEF Table

-----------------------------------------------------------------------------
(* The invariant holds initially.                                          *)

LEMMA InitInv ==
  ASSUME Init
  PROVE  IInv
<1>1. <<>> \in Seq(Row)
  BY EmptySeq
<1>2. NewSink \in Sink
  BY <1>1 DEF NewSink, SinkOf, Sink
<1>3. NewJSON \in [lines : Seq(Row), broken : BOOLEAN]
  BY <1>1 DEF NewJSON, JSONOf
<1>4. TypeOK
  <2>1. sink \in [Table -> Sink]
    BY <1>2 DEF Init
  <2>2. given \in [Table -> Seq(Row)]
    BY <1>1 DEF Init
  <2>3. json \in [lines : Seq(Row), broken : BOOLEAN]
    BY <1>3 DEF Init
  <2>4. /\ result \in [Table -> Nat] /\ done \in [Table -> Nat]
        /\ count \in [Table -> Nat] /\ stats \in [Table -> Nat]
    BY DEF Init
  <2>5. phase = "reading" /\ entities \in Nat /\ next \in Nat \ {0}
    BY DEF Init
  <2>6. failed \in BOOLEAN
    BY Zenon DEF Init
  <2> QED BY <2>1, <2>2, <2>3, <2>4, <2>5, <2>6 DEF TypeOK
<1>5. Holds(NewSink, <<>>)
  <2>1. <<>> \o <<>> = <<>>
    BY <1>1, ConcatEmptySeq
  <2>2. Len(<<>>) = 0
    BY EmptySeq
  <2> QED BY <1>2, <2>1, <2>2, BatchAssumption DEF Holds, NewSink, SinkOf
<1>6. SinksHold
  BY <1>5 DEF Init, SinksHold
<1>7. CanonicalHolds
  BY TablesAssumption DEF Init, CanonicalHolds, NewJSON, JSONOf
<1>8. CountsHold /\ DoneOK
  BY EmptySeq DEF Init, CountsHold, DoneOK, Writing
<1>9. NextOK
  BY TablesAreListed DEF Init, NextOK, Published
<1>10. ClosedHold
  BY DEF Init, ClosedHold
<1> QED BY <1>4, <1>6, <1>7, <1>8, <1>9, <1>10 DEF IInv

-----------------------------------------------------------------------------
(* Every step preserves the invariant.  A step that reports an error leaves *)
(* only types and the order of closing to prove.                            *)

LEMMA AfterFailure ==
  ASSUME TypeOK', NextOK', DoneOK', failed'
  PROVE  IInv'
BY DEF IInv, SinksHold, CanonicalHolds, CountsHold, ClosedHold

LEMMA NextResultInv ==
  ASSUME IInv, NextResult
  PROVE  IInv'
<1> USE DEF NextResult
<1>1. TypeOK'
  BY SizesAssumption DEF IInv, TypeOK
<1>2. NextOK' /\ SinksHold' /\ CanonicalHolds'
  BY DEF IInv, NextOK, SinksHold, CanonicalHolds, Published
<1>3. CountsHold'
  BY DEF IInv, CountsHold, Writing, TypeOK
<1>4. DoneOK'
  <2>1. \A t \in Table : result'[t] \in Nat /\ done'[t] = 0
    BY <1>1 DEF TypeOK
  <2> QED BY <2>1 DEF DoneOK
<1>5. ClosedHold'
  BY DEF IInv, ClosedHold
<1> QED BY <1>1, <1>2, <1>3, <1>4, <1>5 DEF IInv

LEMMA WithLineTyped ==
  ASSUME TypeOK, NEW row \in Row
  PROVE  WithLine(row) \in [lines : Seq(Row), broken : BOOLEAN]
<1>1. Append(json.lines, row) \in Seq(Row) /\ json.broken \in BOOLEAN
  BY DEF TypeOK
<1> QED BY <1>1 DEF WithLine, JSONOf

LEMMA EncodeFailsInv ==
  ASSUME IInv, EncodeFails
  PROVE  IInv'
<1>1. PICK t \in Table :
        json' \in {json} \cup
          (IF t = Events THEN {JSONOf(json.lines, TRUE), WithLine(RowOf(t))} ELSE {})
  BY DEF EncodeFails
<1>2. JSONOf(json.lines, TRUE) \in [lines : Seq(Row), broken : BOOLEAN]
  BY DEF JSONOf, IInv, TypeOK
<1>3. WithLine(RowOf(t)) \in [lines : Seq(Row), broken : BOOLEAN]
  BY RowIsRow, WithLineTyped DEF IInv
<1>4. json' \in [lines : Seq(Row), broken : BOOLEAN]
  BY <1>1, <1>2, <1>3 DEF IInv, TypeOK
<1>5. TypeOK'
  BY <1>4 DEF EncodeFails, GiveUp, IInv, TypeOK
<1>6. NextOK' /\ DoneOK' /\ failed'
  BY DEF EncodeFails, GiveUp, IInv, NextOK, DoneOK, Published, Writing
<1> QED BY <1>5, <1>6, AfterFailure

\* A row handed to the sink of t, which becomes s.
LEMMA HandedInv ==
  ASSUME IInv, NEW t \in Table, Handed(t), NEW s \in Sink,
         sink' = [sink EXCEPT ![t] = s],
         \/ UNCHANGED <<phase, failed>> /\ Holds(s, Append(given[t], RowOf(t)))
         \/ GiveUp
  PROVE  IInv'
<1>1. RowOf(t) \in Row
  BY RowIsRow DEF IInv
<1>2. TypeOK'
  <2>1. given' \in [Table -> Seq(Row)]
    <3>1. Append(given[t], RowOf(t)) \in Seq(Row)
      BY <1>1 DEF IInv, TypeOK
    <3> QED BY <3>1 DEF Handed, IInv, TypeOK
  <2>2. json' \in [lines : Seq(Row), broken : BOOLEAN]
    BY <1>1, WithLineTyped DEF Handed, IInv, TypeOK
  <2>3. done' \in [Table -> Nat] /\ sink' \in [Table -> Sink]
    BY DEF Handed, IInv, TypeOK
  <2>4. phase' \in {"writing", "closing"} /\ failed' \in BOOLEAN
    BY DEF GiveUp, IInv, TypeOK, Handed, Writing
  <2> QED BY <2>1, <2>2, <2>3, <2>4 DEF Handed, IInv, TypeOK
<1>3. DoneOK'
  BY DEF Handed, IInv, DoneOK, TypeOK, TurnOf, Remaining, Writing
<1>4. NextOK'
  BY DEF Handed, GiveUp, IInv, NextOK, Published, Writing
<1>5. CASE GiveUp
  BY <1>2, <1>3, <1>4, <1>5, AfterFailure DEF GiveUp
<1>6. CASE UNCHANGED <<phase, failed>> /\ Holds(s, Append(given[t], RowOf(t)))
  <2>1. ~failed /\ ~failed' /\ Writing /\ Writing' /\ next' = 1
    BY <1>6 DEF Handed, IInv, NextOK, Writing
  <2>2. given'[t] = Append(given[t], RowOf(t)) /\ sink'[t] = s
    BY DEF Handed, IInv, TypeOK
  <2>3. \A u \in Table \ {t} : given'[u] = given[u] /\ sink'[u] = sink[u]
                               /\ done'[u] = done[u]
    BY DEF Handed, IInv, TypeOK
  <2>4. SinksHold'
    <3>1. \A u \in Table : Holds(sink'[u], given'[u])
      BY <1>6, <2>1, <2>2, <2>3 DEF IInv, SinksHold
    <3> QED BY <3>1 DEF SinksHold
  <2>5. CanonicalHolds'
    <3>1. CASE t = Events
      <4>1. json' = JSONOf(Append(json.lines, RowOf(t)), json.broken)
        BY <3>1 DEF Handed, WithLine
      <4>2. json.lines = given[t] /\ ~json.broken
        BY <2>1, <3>1 DEF IInv, CanonicalHolds
      <4> QED BY <2>2, <3>1, <4>1, <4>2 DEF CanonicalHolds, JSONOf
    <3>2. CASE t # Events
      BY <2>1, <2>3, <3>2, TablesAssumption DEF Handed, IInv, CanonicalHolds
    <3> QED BY <3>1, <3>2
  <2>6. CountsHold'
    <3>1. \A u \in Table : Len(given[u]) = count[u] + done[u]
      BY <2>1 DEF IInv, CountsHold
    <3>2. Len(given'[t]) = Len(given[t]) + 1
      BY <1>1, <2>2 DEF IInv, TypeOK
    <3>3. done'[t] = done[t] + 1 /\ count' = count
      BY DEF Handed, IInv, TypeOK
    <3>4. Len(given'[t]) = count'[t] + done'[t]
      BY <3>1, <3>2, <3>3 DEF IInv, TypeOK
    <3>5. \A u \in Table \ {t} : Len(given'[u]) = count'[u] + done'[u]
      BY <2>3, <3>1, <3>3
    <3> QED BY <2>1, <3>4, <3>5 DEF CountsHold
  <2>7. ClosedHold'
    BY <2>1 DEF ClosedHold
  <2> QED BY <1>2, <1>3, <1>4, <2>4, <2>5, <2>6, <2>7 DEF IInv
<1> QED BY <1>5, <1>6

LEMMA BufferRowInv ==
  ASSUME IInv, NEW t \in Table, BufferRow(t)
  PROVE  IInv'
<1> DEFINE b == Buffered(sink[t], RowOf(t))
<1>1. ~failed
  BY DEF BufferRow, Handed, Writing, IInv, NextOK
<1>2. Holds(sink[t], given[t]) /\ sink[t] \in Sink /\ RowOf(t) \in Row
  BY <1>1, RowIsRow DEF IInv, SinksHold, TypeOK
<1>3. b \in Sink /\ (~BatchFull(b) => Holds(b, Append(given[t], RowOf(t))))
  BY <1>2, AddedToWritten
<1>4. sink' = [sink EXCEPT ![t] = b] /\ ~BatchFull(b)
  BY DEF BufferRow
<1> HIDE DEF b
<1> QED BY <1>3, <1>4, HandedInv DEF BufferRow

LEMMA FlushBatchInv ==
  ASSUME IInv, NEW t \in Table, FlushBatch(t)
  PROVE  IInv'
<1> DEFINE f == FlushSucceeds(Buffered(sink[t], RowOf(t)))
<1>1. ~failed
  BY DEF FlushBatch, Handed, Writing, IInv, NextOK
<1>2. Holds(sink[t], given[t]) /\ sink[t] \in Sink /\ RowOf(t) \in Row
  BY <1>1, RowIsRow DEF IInv, SinksHold, TypeOK
<1>3. Holds(f, Append(given[t], RowOf(t)))
  BY <1>2, AddedToWritten
<1>4. sink' = [sink EXCEPT ![t] = f]
  BY DEF FlushBatch
<1> HIDE DEF f
<1>5. f \in Sink
  BY <1>3 DEF Holds
<1> QED BY <1>3, <1>4, <1>5, HandedInv DEF FlushBatch

LEMMA FlushBatchFailsInv ==
  ASSUME IInv, NEW t \in Table, FlushBatchFails(t)
  PROVE  IInv'
<1>1. ~failed
  BY DEF FlushBatchFails, Handed, Writing, IInv, NextOK
<1>2. Holds(sink[t], given[t]) /\ sink[t] \in Sink /\ RowOf(t) \in Row
  BY <1>1, RowIsRow DEF IInv, SinksHold, TypeOK
<1>3. PICK f \in FlushFails(Buffered(sink[t], RowOf(t))) :
        sink' = [sink EXCEPT ![t] = f]
  BY DEF FlushBatchFails
<1>4. f \in Sink
  BY <1>2, AddedToWritten
<1> QED BY <1>3, <1>4, HandedInv DEF FlushBatchFails

LEMMA ResultWrittenInv ==
  ASSUME IInv, ResultWritten
  PROVE  IInv'
<1> USE DEF ResultWritten
<1>1. TypeOK'
  BY DEF IInv, TypeOK
<1>2. NextOK' /\ SinksHold' /\ CanonicalHolds' /\ DoneOK' /\ ClosedHold'
  BY DEF IInv, NextOK, SinksHold, CanonicalHolds, Published, Writing, DoneOK, ClosedHold
<1>3. CountsHold'
  <2>1. \A t \in Table : done[t] = result[t]
    BY DEF IInv, DoneOK, Remaining, TypeOK
  <2>2. ~failed /\ ~Writing'
    BY DEF IInv, NextOK, Writing
  <2>3. \A t \in Table : Len(given[t]) = count[t] + done[t]
    BY <2>2 DEF IInv, CountsHold
  <2>4. \A t \in Table : count'[t] = count[t] + result[t] /\ count'[t] \in Nat
    BY DEF IInv, TypeOK
  <2> QED BY <2>1, <2>2, <2>3, <2>4 DEF CountsHold
<1> QED BY <1>1, <1>2, <1>3 DEF IInv

LEMMA EndOfEntitiesInv ==
  ASSUME IInv, EndOfEntities
  PROVE  IInv'
<1> USE DEF EndOfEntities
<1>1. TypeOK'
  BY DEF IInv, TypeOK
<1>2. ~failed /\ next = 1
  BY DEF IInv, NextOK
<1>3. NextOK' /\ DoneOK'
  BY <1>2 DEF IInv, NextOK, Published, Writing, DoneOK
<1>4. SinksHold' /\ CanonicalHolds' /\ ClosedHold'
  BY <1>2 DEF IInv, SinksHold, CanonicalHolds, ClosedHold
<1>5. CountsHold'
  BY <1>2 DEF IInv, CountsHold, Writing
<1> QED BY <1>1, <1>3, <1>4, <1>5 DEF IInv

-----------------------------------------------------------------------------
(* Closing.                                                                *)

LEMMA ClosedSinkForms ==
  ASSUME NEW s, NEW c \in ClosedSink(s)
  PROVE  \/ c = <<FlushSucceeds(s), FALSE>>
         \/ \E f \in FlushFails(s) : c = <<f, TRUE>>
<1>1. c \in {<<f, TRUE>> : f \in FlushFails(s)} => \E f \in FlushFails(s) : c = <<f, TRUE>>
  OBVIOUS
<1> HIDE DEF FlushFails
<1>2. c = <<FlushSucceeds(s), FALSE>> \/ c \in {<<f, TRUE>> : f \in FlushFails(s)}
  BY Zenon DEF ClosedSink
<1> QED BY <1>1, <1>2

LEMMA ClosedSinkTyped ==
  ASSUME NEW s \in Sink, NEW c \in ClosedSink(s)
  PROVE  c[1] \in Sink /\ c[2] \in BOOLEAN
<1>1. FlushSucceeds(s) \in Sink
  <2>1. s.rows \in Seq(Row) /\ s.buf \in Seq(Row) /\ s.written \in Nat
    BY DEF Sink
  <2>2. s.rows \o s.buf \in Seq(Row) /\ Len(s.buf) \in Nat /\ <<>> \in Seq(Row)
    BY <2>1, ConcatProperties, EmptySeq
  <2> QED BY <2>1, <2>2 DEF FlushSucceeds, SinkOf, Sink
<1>2. \A f \in FlushFails(s) : f \in Sink
  BY FailedFlush
<1>3. CASE c = <<FlushSucceeds(s), FALSE>>
  BY <1>1, <1>3
<1>4. CASE \E f \in FlushFails(s) : c = <<f, TRUE>>
  BY <1>2, <1>4
<1> QED BY <1>3, <1>4, ClosedSinkForms

LEMMA CloseSinkInv ==
  ASSUME IInv, CloseSink
  PROVE  IInv'
<1> DEFINE t == Tables[next]
<1>1. next \in 1 .. Len(Tables) /\ t \in Table
  BY TablesAreListed DEF CloseSink
<1>2. PICK c \in ClosedSink(sink[t]) : \E error \in CloseErrors(c[2]) :
        /\ sink' = [sink EXCEPT ![t] = SinkOf(<<>>, c[1].rows, c[1].written)]
        /\ stats' = [stats EXCEPT ![t] = SinkRows(c[1])]
        /\ failed' = (failed \/ error)
  BY DEF CloseSink
<1>3. PICK error \in CloseErrors(c[2]) :
        /\ sink' = [sink EXCEPT ![t] = SinkOf(<<>>, c[1].rows, c[1].written)]
        /\ stats' = [stats EXCEPT ![t] = SinkRows(c[1])]
        /\ failed' = (failed \/ error)
  BY <1>2
<1> DEFINE s == SinkOf(<<>>, c[1].rows, c[1].written)
<1>4. sink[t] \in Sink
  BY <1>1 DEF IInv, TypeOK
<1>5. c[1] \in Sink /\ c[2] \in BOOLEAN
  BY <1>4, ClosedSinkTyped
<1>6. s \in Sink /\ s.buf = <<>>
  <2>1. c[1].rows \in Seq(Row) /\ c[1].written \in Nat /\ <<>> \in Seq(Row)
    BY <1>5, EmptySeq DEF Sink
  <2> QED BY <2>1 DEF SinkOf, Sink
<1>7. error \in BOOLEAN
  BY <1>3, <1>5 DEF CloseErrors
<1>8. TypeOK'
  <2>1. sink' \in [Table -> Sink]
    BY <1>1, <1>3, <1>6 DEF IInv, TypeOK
  <2>2. stats' \in [Table -> Nat]
    BY <1>1, <1>3, <1>5 DEF IInv, TypeOK, SinkRows, Sink
  <2>3. failed' \in BOOLEAN
    BY <1>3
  <2>4. next' \in Nat \ {0}
    BY DEF CloseSink, IInv, TypeOK
  <2> QED BY <2>1, <2>2, <2>3, <2>4 DEF CloseSink, IInv, TypeOK
<1>9. NextOK' /\ DoneOK'
  BY <1>1, TablesAreListed DEF CloseSink, IInv, NextOK, DoneOK, Writing, Published
<1>10. CASE failed'
  BY <1>8, <1>9, <1>10, AfterFailure
<1>11. CASE ~failed'
  <2>1. ~failed /\ ~error
    BY <1>3, <1>11
  <2>2. c = <<FlushSucceeds(sink[t]), FALSE>>
    <3>1. c[2] # TRUE
      BY <2>1 DEF CloseErrors
    <3>2. \A f : c = <<f, TRUE>> => c[2] = TRUE
      OBVIOUS
    <3> QED BY <3>1, <3>2, ClosedSinkForms
  <2>3. Holds(sink[t], given[t])
    BY <1>1, <2>1 DEF IInv, SinksHold
  <2>4. sink[t].written = Len(sink[t].rows) /\ sink[t].rows \o sink[t].buf = given[t]
    BY <2>3 DEF Holds
  <2>5. Holds(c[1], given[t]) /\ c[1].buf = <<>>
    BY <1>4, <2>2, <2>4, FlushedHolds
  <2>6. s.buf = c[1].buf /\ s.rows = c[1].rows /\ s.written = c[1].written
    BY <2>5 DEF SinkOf
  <2> HIDE DEF s
  <2>7. Holds(s, given[t])
    BY <1>6, <2>5, <2>6 DEF Holds
  <2>8. sink'[t] = s /\ stats'[t] = Len(s.rows)
    BY <1>1, <1>3, <2>5, <2>6 DEF s, IInv, TypeOK, Holds, SinkRows
  <2>9. \A u \in Table \ {t} : sink'[u] = sink[u] /\ stats'[u] = stats[u]
    BY <1>3 DEF IInv, TypeOK
  <2>10. given' = given /\ count' = count /\ json' = json /\ done' = done
         /\ phase' = phase /\ next' = next + 1
    BY DEF CloseSink
  <2>11. SinksHold'
    <3>1. \A u \in Table : Holds(sink'[u], given'[u])
      BY <2>1, <2>7, <2>8, <2>9, <2>10 DEF IInv, SinksHold
    <3> QED BY <3>1 DEF SinksHold
  <2>12. CanonicalHolds' /\ CountsHold'
    BY <2>1, <2>10 DEF IInv, CanonicalHolds, CountsHold, Writing
  <2>13. ClosedHold'
    <3>1. \A i \in 1 .. next : sink'[Tables[i]].buf = <<>>
                               /\ stats'[Tables[i]] = Len(sink'[Tables[i]].rows)
      <4> SUFFICES ASSUME NEW i \in 1 .. next
                   PROVE  /\ sink'[Tables[i]].buf = <<>>
                          /\ stats'[Tables[i]] = Len(sink'[Tables[i]].rows)
        OBVIOUS
      <4>1. CASE i = next
        BY <1>6, <2>8, <4>1
      <4>2. CASE i \in 1 .. next - 1
        <5>1. Tables[i] \in Table \ {t}
          BY <1>1, <4>2, TablesAreListed
        <5> QED BY <2>1, <2>9, <4>2, <5>1 DEF IInv, ClosedHold
      <4> QED BY <1>1, <4>1, <4>2
    <3>2. next' - 1 = next
      BY <1>1, <2>10
    <3> QED BY <3>1, <3>2 DEF ClosedHold
  <2> QED BY <1>8, <1>9, <2>11, <2>12, <2>13 DEF IInv
<1> QED BY <1>10, <1>11

LEMMA CloseJSONInv ==
  ASSUME IInv, CloseJSON
  PROVE  IInv'
<1>1. PICK error \in CloseErrors(json.broken) :
        /\ json' = JSONOf(json.lines, error)
        /\ failed' = (failed \/ error)
        /\ phase' = IF failed \/ error THEN "failed" ELSE "published"
  BY DEF CloseJSON
<1>2. error \in BOOLEAN
  BY DEF CloseErrors
<1>3. JSONOf(json.lines, error) \in [lines : Seq(Row), broken : BOOLEAN]
  BY <1>2 DEF JSONOf, IInv, TypeOK
<1>4. TypeOK'
  <2>1. phase' \in {"published", "failed"} /\ failed' \in BOOLEAN
    BY <1>1
  <2> QED BY <1>1, <1>3, <2>1 DEF CloseJSON, IInv, TypeOK
<1>5. next = Len(Tables) + 1
  BY TablesAreListed DEF CloseJSON, IInv, NextOK
<1>6. NextOK' /\ DoneOK'
  <2>1. next' = next /\ phase' \in {"published", "failed"}
    BY <1>1 DEF CloseJSON
  <2>2. phase' = "published" => ~failed'
    BY <1>1
  <2>3. phase' = "failed" => failed'
    BY <1>1
  <2>4. next' \in 1 .. Len(Tables) + 1
    BY <2>1 DEF IInv, NextOK
  <2> QED BY <1>5, <2>1, <2>2, <2>3, <2>4 DEF NextOK, DoneOK, Writing, Published
<1>7. CASE failed'
  BY <1>4, <1>6, <1>7, AfterFailure
<1>8. CASE ~failed'
  <2>1. ~failed /\ ~error /\ json' = JSONOf(json.lines, error)
    BY <1>1, <1>8
  <2>2. CanonicalHolds'
    BY <2>1 DEF CloseJSON, IInv, CanonicalHolds, JSONOf
  <2>3. SinksHold' /\ ClosedHold'
    BY <2>1 DEF CloseJSON, IInv, SinksHold, ClosedHold
  <2>4. CountsHold'
    BY <1>1, <2>1 DEF CloseJSON, IInv, CountsHold, Writing
  <2> QED BY <1>4, <1>6, <2>2, <2>3, <2>4 DEF IInv
<1> QED BY <1>7, <1>8

LEMMA StepInv ==
  ASSUME IInv, [Next]_vars
  PROVE  IInv'
<1>1. CASE NextResult
  BY <1>1, NextResultInv
<1>2. CASE EncodeFails
  BY <1>2, EncodeFailsInv
<1>3. CASE \E t \in Table : BufferRow(t) \/ FlushBatch(t) \/ FlushBatchFails(t)
  BY <1>3, BufferRowInv, FlushBatchInv, FlushBatchFailsInv
<1>4. CASE ResultWritten
  BY <1>4, ResultWrittenInv
<1>5. CASE EndOfEntities
  BY <1>5, EndOfEntitiesInv
<1>6. CASE CloseSink
  BY <1>6, CloseSinkInv
<1>7. CASE CloseJSON
  BY <1>7, CloseJSONInv
<1>8. CASE UNCHANGED vars
  BY <1>8 DEF vars, IInv, TypeOK, NextOK, SinksHold, CanonicalHolds, CountsHold,
              DoneOK, ClosedHold, Published, Writing
<1> QED BY <1>1, <1>2, <1>3, <1>4, <1>5, <1>6, <1>7, <1>8 DEF Next

\* The invariant holds in every reachable state.
THEOREM Invariant == Spec => []IInv
<1>1. Init => IInv
  BY InitInv
<1>2. IInv /\ [Next]_vars => IInv'
  BY StepInv
<1> QED BY <1>1, <1>2, PTL DEF Spec

-----------------------------------------------------------------------------
(* What follows for the files.                                             *)

\* At publication every sink is closed: its rows are those it was given.
LEMMA PublishedHolds ==
  ASSUME IInv, ~failed, next = Len(Tables) + 1, NEW t \in Table
  PROVE  sink[t].rows = given[t] /\ stats[t] = Len(given[t])
<1>1. PICK i \in 1 .. Len(Tables) : Tables[i] = t
  BY TablesAreListed
<1>2. i \in 1 .. next - 1
  BY <1>1, TablesAreListed
<1>3. sink[t].buf = <<>> /\ stats[t] = Len(sink[t].rows)
  BY <1>1, <1>2 DEF IInv, ClosedHold
<1>4. given[t] = sink[t].rows \o <<>> /\ sink[t].rows \in Seq(Row)
  BY <1>3 DEF IInv, SinksHold, Holds, Sink
<1>5. given[t] = sink[t].rows
  BY <1>4, ConcatEmptySeq
<1> QED BY <1>3, <1>5

\* Between two rows a sink buffers less than a batch, whatever the sizes of the
\* results and however many there are (parquetSink.Write and flush).
THEOREM BatchesStayBounded == Spec => []BatchesAreBounded
<1>1. IInv => BatchesAreBounded
  BY DEF IInv, SinksHold, Holds, BatchesAreBounded
<1> QED BY <1>1, Invariant, PTL

\* A success reports for every table the rows its file holds, and the rows that
\* Run has counted are as many (WrittenRows and Run's counters).
THEOREM StatsAreRight == Spec => []StatsDescribeTables
<1>1. IInv => StatsDescribeTables
  <2> SUFFICES ASSUME IInv, Published, NEW t \in Table
               PROVE  stats[t] = Len(sink[t].rows) /\ stats[t] = count[t]
    BY DEF StatsDescribeTables
  <2>1. ~failed /\ next = Len(Tables) + 1
    BY DEF IInv, NextOK
  <2>2. sink[t].rows = given[t] /\ stats[t] = Len(given[t])
    BY <2>1, PublishedHolds
  <2>3. Len(given[t]) = count[t] + 0
    BY <2>1 DEF IInv, CountsHold, Published, Writing
  <2>4. count[t] \in Nat
    BY DEF IInv, TypeOK
  <2> QED BY <2>2, <2>3, <2>4
<1> QED BY <1>1, Invariant, PTL

\* The canonical events of a success are the rows of its event table.
THEOREM CanonicalIsRight == Spec => []CanonicalIsTheEventTable
<1>1. IInv => CanonicalIsTheEventTable
  <2> SUFFICES ASSUME IInv, Published
               PROVE  json.lines = sink[Events].rows /\ ~json.broken
    BY DEF CanonicalIsTheEventTable
  <2>1. ~failed /\ next = Len(Tables) + 1
    BY DEF IInv, NextOK
  <2>2. sink[Events].rows = given[Events]
    BY <2>1, PublishedHolds, TablesAssumption
  <2> QED BY <2>1, <2>2 DEF IInv, CanonicalHolds
<1> QED BY <1>1, Invariant, PTL

-----------------------------------------------------------------------------
(* The writers implement the contract of the tables.                       *)

LEMMA InitContract ==
  ASSUME Init
  PROVE  Contract!ContractInit
BY DEF Init, Published, Contract!ContractInit, Contract!Nothing

\* A row handed to a sink is given; the rest of the step does not show.
LEMMA HandedGives ==
  ASSUME IInv, NEW t \in Table, Handed(t), phase' \in {"writing", "closing"}
  PROVE  Contract!Give
<1>1. RowOf(t) \in Row /\ given[t] \in Seq(Row)
  BY RowIsRow DEF IInv, TypeOK
<1>2. given'[t] = Append(given[t], RowOf(t))
  BY DEF Handed, IInv, TypeOK
<1>3. Len(given'[t]) = Len(given[t]) + 1 /\ given'[t][Len(given[t]) + 1] = RowOf(t)
  BY <1>1, <1>2, AppendProperties
<1>4. given' = [given EXCEPT ![t] = Append(@, given'[t][Len(given[t]) + 1])]
  BY <1>3 DEF Handed
<1>5. ~Published /\ ~Published' /\ phase # "failed" /\ phase' # "failed"
  BY DEF Handed, Writing, Published
<1> QED BY <1>3, <1>4, <1>5 DEF Contract!Give

LEMMA CloseJSONPublishes ==
  ASSUME IInv, CloseJSON
  PROVE  Contract!Publish \/ Contract!Fail
<1>1. given' = given /\ sink' = sink /\ phase = "closing" /\ ~Published
  BY DEF CloseJSON, Published
<1>2. next = Len(Tables) + 1
  BY TablesAreListed DEF CloseJSON, IInv, NextOK
<1>3. PICK error \in CloseErrors(json.broken) :
        phase' = IF failed \/ error THEN "failed" ELSE "published"
  BY DEF CloseJSON
<1>4. CASE failed \/ error
  <2>1. phase' = "failed" /\ ~Published'
    BY <1>3, <1>4 DEF Published
  <2> QED BY <1>1, <2>1 DEF Contract!Fail
<1>5. CASE ~(failed \/ error)
  <2>1. phase' = "published" /\ Published'
    BY <1>3, <1>5 DEF Published
  <2>2. [t \in Table |-> sink[t].rows] = given
    <3>1. \A t \in Table : sink[t].rows = given[t]
      BY <1>2, <1>5, PublishedHolds
    <3> QED BY <3>1 DEF IInv, TypeOK
  <2>3. [t \in Table |-> sink'[t].rows] = given
    BY <1>1, <2>2
  <2> QED BY <1>1, <2>1, <2>3 DEF Contract!Publish
<1> QED BY <1>4, <1>5

\* The steps the contract does not see.
LEMMA StepStutters ==
  ASSUME \/ NextResult \/ EncodeFails \/ ResultWritten \/ EndOfEntities
         \/ CloseSink \/ UNCHANGED vars
  PROVE  UNCHANGED Contract!contractVars
<1>1. CASE UNCHANGED vars
  BY <1>1 DEF vars, Published, Contract!contractVars
<1>2. CASE ~(UNCHANGED vars)
  <2>1. given' = given
    BY <1>2 DEF NextResult, EncodeFails, ResultWritten, EndOfEntities, CloseSink
  <2>2. phase \in {"reading", "writing", "closing"} /\ phase' \in {"reading", "writing", "closing"}
    BY <1>2 DEF NextResult, EncodeFails, ResultWritten, EndOfEntities, CloseSink,
                GiveUp, Writing
  <2> QED BY <2>1, <2>2 DEF Published, Contract!contractVars
<1> QED BY <1>1, <1>2

LEMMA StepContract ==
  ASSUME IInv, [Next]_vars
  PROVE  [Contract!ContractNext]_(Contract!contractVars)
<1>1. CASE \E t \in Table : BufferRow(t) \/ FlushBatch(t) \/ FlushBatchFails(t)
  <2>1. PICK t \in Table : BufferRow(t) \/ FlushBatch(t) \/ FlushBatchFails(t)
    BY <1>1
  <2>2. Handed(t)
    BY <2>1 DEF BufferRow, FlushBatch, FlushBatchFails
  <2>3. phase' \in {"writing", "closing"}
    BY <2>1, <2>2 DEF BufferRow, FlushBatch, FlushBatchFails, GiveUp, Handed, Writing
  <2> QED BY <2>2, <2>3, HandedGives DEF Contract!ContractNext
<1>2. CASE CloseJSON
  BY <1>2, CloseJSONPublishes DEF Contract!ContractNext
<1>3. CASE \/ NextResult \/ EncodeFails \/ ResultWritten \/ EndOfEntities
           \/ CloseSink \/ UNCHANGED vars
  BY <1>3, StepStutters
<1> QED BY <1>1, <1>2, <1>3 DEF Next

\* The tables of a success hold exactly the rows WriteResult was given, in their
\* order; a run that meets any error of the writers publishes nothing.
THEOREM WritersKeepTheContract == Spec => ImplementsContract
<1>1. Init => Contract!ContractInit
  BY InitContract
<1>2. IInv /\ [Next]_vars => [Contract!ContractNext]_(Contract!contractVars)
  BY StepContract
<1> QED BY <1>1, <1>2, Invariant, PTL DEF Spec, ImplementsContract, Contract!ContractSpec
=============================================================================
