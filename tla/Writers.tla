-------------------------------- MODULE Writers -------------------------------
(***************************************************************************)
(* The output writers of a run (internal/output/output.go): WriteResult    *)
(* hands the rows of one entity to Parquet sinks, table after table, and   *)
(* its events to the canonical JSONL as well; a sink hands full batches to *)
(* its Parquet writer; Close flushes what is left.  Every write, flush and *)
(* close may fail.  Run counts the rows of every result by itself.         *)
(*                                                                         *)
(* A row is the entity it is of and its number among that entity's rows of *)
(* the table: columns are left out.  Opening the files is in DatasetRun.   *)
(*                                                                         *)
(* A definition D_Variant is D as a plausible defect would leave it.       *)
(***************************************************************************)
EXTENDS Naturals, Sequences

CONSTANTS
  Tables,      \* the tables of the profile, in the order of WriteResult
  Events,      \* the one whose rows are also canonical JSONL
  Sizes,       \* the sizes of results: rows by table
  BatchRows,   \* ParquetBatchRows
  MaxEntities  \* bound on the results of a run

Table == {Tables[i] : i \in DOMAIN Tables}

ASSUME TablesAssumption ==
  /\ Tables \in Seq(STRING) /\ Tables # <<>> /\ Events \in Table
  /\ \A i, j \in DOMAIN Tables : Tables[i] = Tables[j] => i = j
ASSUME SizesAssumption == Sizes \subseteq [Table -> Nat]
ASSUME BatchAssumption == BatchRows \in Nat \ {0} /\ MaxEntities \in Nat

VARIABLES
  phase,    \* where the run is
  result,   \* the sizes of the result being written
  done,     \* the rows of it that have been handed to the sinks, by table
  entities, \* the results begun
  sink,     \* the Parquet sinks
  json,     \* the canonical JSONL
  next,     \* the sink to close next, by its place in Tables
  count,    \* what Run has counted, by table
  stats,    \* the rows of the materialisation statistics, by table
  failed,   \* an error has been returned
  given     \* history: the rows WriteResult has handed over

vars == <<phase, result, done, entities, sink, json, next, count, stats,
          failed, given>>

Row == [entity : Nat, number : Nat]

\* A sink: the rows it buffers, those in its file, and how many it has counted.
SinkOf(buf, rows, written) == [buf |-> buf, rows |-> rows, written |-> written]
NewSink == SinkOf(<<>>, <<>>, 0)

\* The canonical JSONL: its lines, and whether its buffer has met an error.
JSONOf(lines, broken) == [lines |-> lines, broken |-> broken]
NewJSON == JSONOf(<<>>, FALSE)

-----------------------------------------------------------------------------
(* parquetSink.                                                            *)

\* The Parquet writer takes the batch, or part of it and reports an error: the
\* batch then stays in the buffer.
FlushSucceeds_KeepsBuffer(s) ==
  SinkOf(s.buf, s.rows \o s.buf, s.written + Len(s.buf))
FlushSucceeds_CountsBatch(s) ==
  SinkOf(<<>>, s.rows \o s.buf,
         s.written + IF s.buf = <<>> THEN 0 ELSE BatchRows)
FlushSucceeds(s) == SinkOf(<<>>, s.rows \o s.buf, s.written + Len(s.buf))
FlushFails(s) ==
  {SinkOf(s.buf, s.rows \o SubSeq(s.buf, 1, n), s.written) : n \in 0..Len(s.buf)}

BatchFull(s) == Len(s.buf) >= BatchRows

Buffered(s, row) == SinkOf(Append(s.buf, row), s.rows, s.written)

\* What sinkStats reports of a closed sink, whose buffer is gone.
SinkRows(s) == s.written

-----------------------------------------------------------------------------
(* WriteResult.                                                            *)

Writing == phase = "writing"
Remaining(t) == done[t] < result[t]

\* The tables before t are complete: WriteResult writes them in order.
TurnOf(t) ==
  /\ Remaining(t)
  /\ \A i, j \in DOMAIN Tables :
       i < j /\ Tables[j] = t => ~Remaining(Tables[i])

RowOf(t) == [entity |-> entities, number |-> done[t] + 1]

WithLine(row) == JSONOf(Append(json.lines, row), json.broken)

\* The error ends WriteResult, and with it Run, which closes the writers.
GiveUp == phase' = "closing" /\ failed' = TRUE

\* Eventize has returned another result.
NextResult ==
  /\ phase = "reading" /\ entities < MaxEntities
  /\ phase' = "writing"
  /\ entities' = entities + 1
  /\ result' \in Sizes
  /\ done' = [t \in Table |-> 0]
  /\ UNCHANGED <<sink, json, next, count, stats, failed, given>>

\* The row before it reaches the sink: its H3 cell, its columns, and for an
\* event its canonical line, may fail.
EncodeFails ==
  /\ Writing
  /\ \E t \in Table :
       /\ TurnOf(t)
       /\ json' \in {json} \cup
            (IF t = Events THEN {JSONOf(json.lines, TRUE), WithLine(RowOf(t))}
             ELSE {})
  /\ GiveUp
  /\ UNCHANGED <<result, done, entities, sink, next, count, stats, given>>

Handed(t) ==
  /\ Writing /\ TurnOf(t)
  /\ done' = [done EXCEPT ![t] = @ + 1]
  /\ given' = [given EXCEPT ![t] = Append(@, RowOf(t))]
  /\ json' = IF t = Events
             THEN WithLine(RowOf(t)) ELSE json
  /\ UNCHANGED <<result, entities, next, count, stats>>

BufferRow(t) ==
  /\ Handed(t)
  /\ ~BatchFull(Buffered(sink[t], RowOf(t)))
  /\ sink' = [sink EXCEPT ![t] = Buffered(@, RowOf(t))]
  /\ UNCHANGED <<phase, failed>>

FlushBatch(t) ==
  /\ Handed(t)
  /\ BatchFull(Buffered(sink[t], RowOf(t)))
  /\ sink' = [sink EXCEPT ![t] = FlushSucceeds(Buffered(@, RowOf(t)))]
  /\ UNCHANGED <<phase, failed>>

FlushBatchFails(t) ==
  /\ Handed(t)
  /\ BatchFull(Buffered(sink[t], RowOf(t)))
  /\ \E s \in FlushFails(Buffered(sink[t], RowOf(t))) :
       sink' = [sink EXCEPT ![t] = s]
  /\ GiveUp

\* WriteResult returns, and Run adds the sizes of the result to its counters.
ResultWritten ==
  /\ Writing /\ \A t \in Table : ~Remaining(t)
  /\ phase' = "reading"
  /\ count' = [t \in Table |-> count[t] + result[t]]
  /\ UNCHANGED <<result, done, entities, sink, json, next, stats, failed, given>>

\* No entity is left, or Run fails between two results (an event that does not
\* conform, a trace, a heap profile).
EndOfEntities ==
  /\ phase = "reading"
  /\ phase' = "closing"
  /\ failed' \in BOOLEAN
  /\ UNCHANGED <<result, done, entities, sink, json, next, count, stats, given>>

-----------------------------------------------------------------------------
(* Close: every sink in turn, whatever fails, then the canonical file.     *)

CloseErrors_LastOnly(flushFailed) == BOOLEAN
CloseErrors(flushFailed) == IF flushFailed THEN {TRUE} ELSE BOOLEAN

\* Flush, footer and file close: the first two may leave the file unusable, and
\* any of the three reports.
ClosedSink(s) ==
  {<<FlushSucceeds(s), FALSE>>} \cup
    (IF s.buf = <<>> THEN {} ELSE {<<f, TRUE>> : f \in FlushFails(s)})

CloseSink ==
  /\ phase = "closing" /\ next \in DOMAIN Tables
  /\ LET t == Tables[next]
     IN  \E c \in ClosedSink(sink[t]) : \E error \in CloseErrors(c[2]) :
           /\ sink' = [sink EXCEPT ![t] = SinkOf(<<>>, c[1].rows, c[1].written)]
           /\ stats' = [stats EXCEPT ![t] = SinkRows(c[1])]
           /\ failed' = (failed \/ error)
  /\ next' = next + 1
  /\ UNCHANGED <<phase, result, done, entities, json, count, given>>

\* The buffer of the JSONL remembers an error; flush and close may fail too.
CloseJSON ==
  /\ phase = "closing" /\ next \notin DOMAIN Tables
  /\ \E error \in CloseErrors(json.broken) :
       /\ json' = JSONOf(json.lines, error)
       /\ failed' = (failed \/ error)
       /\ phase' = IF failed \/ error THEN "failed" ELSE "published"
  /\ UNCHANGED <<result, done, entities, sink, next, count, stats, given>>

-----------------------------------------------------------------------------
Init ==
  /\ phase = "reading" /\ entities = 0 /\ next = 1 /\ failed = FALSE
  /\ result = [t \in Table |-> 0] /\ done = [t \in Table |-> 0]
  /\ sink = [t \in Table |-> NewSink] /\ json = NewJSON
  /\ count = [t \in Table |-> 0] /\ stats = [t \in Table |-> 0]
  /\ given = [t \in Table |-> <<>>]

Next ==
  \/ NextResult
  \/ EncodeFails
  \/ \E t \in Table : BufferRow(t) \/ FlushBatch(t) \/ FlushBatchFails(t)
  \/ ResultWritten
  \/ EndOfEntities
  \/ CloseSink
  \/ CloseJSON

Spec == Init /\ [][Next]_vars

-----------------------------------------------------------------------------
(* Properties.                                                             *)

Sink == [buf : Seq(Row), rows : Seq(Row), written : Nat]

TypeOK ==
  /\ phase \in {"reading", "writing", "closing", "published", "failed"}
  /\ result \in [Table -> Nat] /\ done \in [Table -> Nat]
  /\ entities \in Nat /\ next \in Nat \ {0} /\ failed \in BOOLEAN
  /\ sink \in [Table -> Sink]
  /\ json \in [lines : Seq(Row), broken : BOOLEAN]
  /\ count \in [Table -> Nat] /\ stats \in [Table -> Nat]
  /\ given \in [Table -> Seq(Row)]

\* A sink holds less than a batch between two rows (ParquetBatchRows is what
\* docs and memory diagnostics say of the buffer), unless its flush has failed.
BatchesAreBounded ==
  ~failed => \A t \in Table : Len(sink[t].buf) < BatchRows

Published == phase = "published"

\* The row counts of the manifest, one set taken by the sinks and the other by
\* Run from the results, are both the rows of the files.
StatsDescribeTables ==
  Published => \A t \in Table : /\ stats[t] = Len(sink[t].rows)
                                /\ stats[t] = count[t]

\* The canonical events and the event table of a success hold the same events in
\* the same order, although they are written through different buffers.
CanonicalIsTheEventTable ==
  Published => json.lines = sink[Events].rows /\ ~json.broken

\* The writers keep the contract: what is published is what was given.
Contract == INSTANCE TableContract WITH
  published <- IF Published THEN [t \in Table |-> sink[t].rows]
               ELSE [t \in Table |-> <<>>],
  outcome <- IF Published THEN "published"
             ELSE IF phase = "failed" THEN "failed" ELSE "open"
ImplementsContract == Contract!ContractSpec
=============================================================================
