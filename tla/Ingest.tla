-------------------------------- MODULE Ingest --------------------------------
(***************************************************************************)
(* PartitionCSV of internal/input/csv.go: rows are read one at a time,     *)
(* accepted into the partition of their entity or recorded in the rejects  *)
(* file.  Every file is buffered; an error of a write may appear only when *)
(* the buffer drains, is then remembered by the buffer, and is reported by *)
(* every later operation on it.  Deferred calls close the files.           *)
(*                                                                         *)
(* A row is what parsing finds: its entity, the class of its HA cell and   *)
(* the checks it fails.  Files hold row numbers: n is the n-th data row, 0 *)
(* the header of the rejects file.  File 0 is the rejects file and p the   *)
(* code's partition p - 1.                                                 *)
(*                                                                         *)
(* A definition D_Variant is D as a plausible defect would leave it; no    *)
(* definition uses it.                                                     *)
(***************************************************************************)
EXTENDS Naturals, Sequences, FiniteSets

CONSTANTS
  Row,                \* the rows a file may contain
  PartitionIndex(_),  \* the partition of an entity
  Partitions,         \* cfg.Partitions
  RequireHA,          \* cfg.HAPolicy = "require"
  LimitHA,            \* cfg.MaxHAM > 0
  BufferRows,         \* rows a buffer holds before it drains
  MaxRows             \* bound on the rows of the input

\* The checks in the order parseObservation makes them.
CheckOrder ==
  <<"csv_parse_error", "empty_id", "invalid_ts", "invalid_lat", "invalid_lon",
    "missing_ha", "non_numeric_ha", "non_finite_ha", "negative_ha",
    "ha_exceeds_max">>
Reason == {CheckOrder[i] : i \in DOMAIN CheckOrder}
HACell == {"blank", "text", "nonfinite", "negative", "large", "usable"}

ASSUME RowAssumption ==
  \A r \in Row : /\ r.ha \in HACell
                 /\ r.defects \subseteq
                      {"csv_parse_error", "empty_id", "invalid_ts",
                       "invalid_lat", "invalid_lon"}
                 /\ PartitionIndex(r.entity) \in 1..Partitions
ASSUME ConfigAssumption ==
  /\ Partitions \in Nat \ {0} /\ MaxRows \in Nat /\ BufferRows \in Nat
  /\ {RequireHA, LimitHA} \subseteq BOOLEAN

VARIABLES
  phase,   \* where the call is
  next,    \* the file to create or close next
  read,    \* the data rows read so far
  file,    \* the files, with what is buffered and what is on disk
  count,   \* the counters of PartitionResult
  reasons, \* RejectReasons
  failed,  \* retErr is not nil
  strict   \* cfg.Strict, set before the call and never changed

vars == <<phase, next, read, file, count, reasons, failed, strict>>

Rejects == 0
Partition == 1..Partitions
File == {Rejects} \cup Partition

-----------------------------------------------------------------------------
(* Rows.                                                                   *)

Malformed(r) == "csv_parse_error" \in r.defects

HAFailures(ha) ==
  (IF ha = "blank" /\ RequireHA THEN {"missing_ha"} ELSE {})
    \cup (IF ha = "text" THEN {"non_numeric_ha"} ELSE {})
    \cup (IF ha = "nonfinite" THEN {"non_finite_ha"} ELSE {})
    \cup (IF ha = "negative" THEN {"negative_ha"} ELSE {})
    \cup (IF ha = "large" /\ LimitHA THEN {"ha_exceeds_max"} ELSE {})

Failures(r) == r.defects \cup HAFailures(r.ha)
Acceptable_AnyHA(r) == r.defects = {}
Acceptable(r) == Failures(r) = {}

\* The first check that fails decides the code.
RejectCode(r) ==
  LET at == CHOOSE i \in DOMAIN CheckOrder :
              /\ CheckOrder[i] \in Failures(r)
              /\ \A j \in 1..(i - 1) : CheckOrder[j] \notin Failures(r)
  IN  CheckOrder[at]

-----------------------------------------------------------------------------
(* Buffered files: bufio.Writer under gob.Encoder or csv.Writer.           *)

FileOf(state, rows, durable, broken) ==
  [state |-> state, rows |-> rows, durable |-> durable, broken |-> broken]
NoFile  == FileOf("none", <<>>, 0, FALSE)
NewFile == FileOf("open", <<>>, 0, FALSE)

\* Draining the buffer reaches the disk, or stops somewhere with an error.
DrainFails(f) ==
  {FileOf(f.state, f.rows, d, TRUE) : d \in f.durable..Len(f.rows)}
Drained(f) == FileOf(f.state, f.rows, Len(f.rows), f.broken)
Flushed(f) ==
  IF f.broken THEN {f} ELSE {Drained(f)} \cup DrainFails(f)

WithRow(f, row) == FileOf(f.state, Append(f.rows, row), f.durable, f.broken)
Closed(f) == FileOf("closed", f.rows, f.durable, f.broken)

\* A row goes to the buffer; a full buffer is drained first.
Written(f, row) ==
  LET full == Len(f.rows) - f.durable >= BufferRows
  IN  IF f.broken THEN {f}
      ELSE IF full THEN {WithRow(Drained(f), row)} \cup DrainFails(f)
      ELSE {WithRow(f, row)}

-----------------------------------------------------------------------------
(* Opening.                                                                *)

\* The input, its header, the partition count and the directory.
OpenInput ==
  /\ phase = "input"
  /\ \/ phase' = "create" /\ UNCHANGED failed
     \/ phase' = "returned" /\ failed' = TRUE
  /\ UNCHANGED <<next, read, file, count, reasons>>

CreatePartition ==
  /\ phase = "create" /\ next \in Partition
  /\ \/ /\ file' = [file EXCEPT ![next] = NewFile]
        /\ next' = next + 1
        /\ UNCHANGED <<phase, failed>>
     \/ /\ phase' = "closing" /\ next' = 1 /\ failed' = TRUE
        /\ UNCHANGED file
  /\ UNCHANGED <<read, count, reasons>>

\* The rejects file, and its header row.
CreateRejects ==
  /\ phase = "create" /\ next \notin Partition
  /\ \/ /\ phase' = "closing" /\ next' = 1 /\ failed' = TRUE
        /\ UNCHANGED file
     \/ \E f \in Written(NewFile, 0) :
          /\ file' = [file EXCEPT ![Rejects] = f]
          /\ phase' = IF f.broken THEN "closing" ELSE "rows"
          /\ next' = IF f.broken THEN Rejects ELSE 1
          /\ failed' = f.broken
  /\ UNCHANGED <<read, count, reasons>>

-----------------------------------------------------------------------------
(* The row loop.                                                           *)

RowNumber == Len(read) + 1

Counters ==
  {"InputRows", "ValidRows", "RejectedRows", "InputHAPresentRows",
   "InputHAMissingRows", "AcceptedWithHA", "AcceptedWithoutHA"}

\* The counters a row adds to before it is accepted or rejected.
SeenCounters_OfAnyRow(r) ==
  {"InputRows",
   IF r.ha = "blank" THEN "InputHAMissingRows" ELSE "InputHAPresentRows"}
SeenCounters(r) ==
  {"InputRows"} \cup
    (IF Malformed(r) THEN {}
     ELSE IF r.ha = "blank" THEN {"InputHAMissingRows"}
     ELSE {"InputHAPresentRows"})
AcceptedCounters(r) ==
  {"ValidRows",
   IF r.ha = "blank" THEN "AcceptedWithoutHA" ELSE "AcceptedWithHA"}

Add(counters) ==
  count' = [c \in Counters |-> IF c \in counters THEN count[c] + 1 ELSE count[c]]

\* Every return from the loop runs the deferred calls, the rejects file first.
Return == phase' = "closing" /\ next' = Rejects
Abort  == Return /\ failed' = TRUE
Continue == UNCHANGED <<phase, next, failed>>

EndOfInput_NotSeen == phase = "rows" /\ UNCHANGED vars
EndOfInput ==
  /\ phase = "rows"
  /\ Return
  /\ UNCHANGED <<read, file, count, reasons, failed>>

\* An error of the reader that is not a parse error; the row is counted.
ReadError ==
  /\ phase = "rows" /\ Len(read) < MaxRows
  /\ Abort
  /\ Add({"InputRows"})
  /\ UNCHANGED <<read, file, reasons>>

Accept(r) ==
  LET p == PartitionIndex(r.entity)
  IN  /\ phase = "rows" /\ Len(read) < MaxRows
      /\ Acceptable(r)
      /\ read' = Append(read, r)
      /\ \E f \in Written(file[p], RowNumber) :
           /\ file' = [file EXCEPT ![p] = f]
           /\ IF f.broken
              THEN Abort /\ Add(SeenCounters(r))
              ELSE Continue /\ Add(SeenCounters(r) \cup AcceptedCounters(r))
      /\ UNCHANGED reasons

AbortStrict(r) ==
  /\ phase = "rows" /\ Len(read) < MaxRows
  /\ strict /\ ~Acceptable(r)
  /\ read' = Append(read, r)
  /\ Abort
  /\ Add(SeenCounters(r))
  /\ UNCHANGED <<file, reasons>>

Reject(r) ==
  /\ phase = "rows" /\ Len(read) < MaxRows
  /\ ~strict /\ ~Acceptable(r)
  /\ read' = Append(read, r)
  /\ Add(SeenCounters(r) \cup {"RejectedRows"})
  /\ reasons' = [reasons EXCEPT ![RejectCode(r)] = @ + 1]
  /\ \E f \in Written(file[Rejects], RowNumber) :
       /\ file' = [file EXCEPT ![Rejects] = f]
       /\ IF f.broken THEN Abort ELSE Continue

-----------------------------------------------------------------------------
(* The deferred calls: every file is flushed and closed whatever fails.    *)

CloseFails_OfCloseOnly(f) == {FALSE, TRUE}
CloseFails(f) == {f.broken, TRUE}

CloseFile ==
  /\ phase = "closing" /\ next \in File
  /\ IF file[next].state = "open"
     THEN \E f \in Flushed(file[next]) : \E error \in CloseFails(f) :
            /\ file' = [file EXCEPT ![next] = Closed(f)]
            /\ failed' = (failed \/ error)
     ELSE UNCHANGED <<file, failed>>
  /\ next' = next + 1
  /\ UNCHANGED <<phase, read, count, reasons>>

Finish ==
  /\ phase = "closing" /\ next \notin File
  /\ phase' = "returned"
  /\ UNCHANGED <<next, read, file, count, reasons, failed>>

-----------------------------------------------------------------------------
Init ==
  /\ phase = "input" /\ next = 1 /\ read = <<>> /\ failed = FALSE
  /\ file = [f \in File |-> NoFile]
  /\ count = [c \in Counters |-> 0]
  /\ reasons = [c \in Reason |-> 0]
  /\ strict \in BOOLEAN

Step ==
  \/ OpenInput
  \/ CreatePartition
  \/ CreateRejects
  \/ EndOfInput
  \/ ReadError
  \/ \E r \in Row : Accept(r) \/ AbortStrict(r) \/ Reject(r)
  \/ CloseFile
  \/ Finish

Next == Step /\ UNCHANGED strict

Spec == Init /\ [][Next]_vars /\ WF_vars(Next)

-----------------------------------------------------------------------------
(* Properties.                                                             *)

\* Types; the rows recorded in the files are rows that were read.
TypeOK ==
  /\ phase \in {"input", "create", "rows", "closing", "returned"}
  /\ next \in 0..(Partitions + 1)
  /\ read \in Seq(Row)
  /\ file \in [File -> [state : {"none", "open", "closed"},
                        rows : Seq(0..Len(read)), durable : Nat, broken : BOOLEAN]]
  /\ count \in [Counters -> Nat]
  /\ reasons \in [Reason -> Nat]
  /\ failed \in BOOLEAN

Succeeded == phase = "returned" /\ ~failed

\* Every row read is accepted or rejected, and every row that parses is counted
\* by its HA cell; only the row a failing ingestion stops at may be missing from
\* either sum.  These are the totals the manifest reports.
Short(total, parts) ==
  /\ parts <= total /\ total <= parts + 1
  /\ ~failed => total = parts
RowsAccounted ==
  /\ Short(count["InputRows"], count["ValidRows"] + count["RejectedRows"])
  /\ Short(count["InputRows"],
           count["InputHAPresentRows"] + count["InputHAMissingRows"]
             + reasons["csv_parse_error"])
  /\ count["ValidRows"] = count["AcceptedWithHA"] + count["AcceptedWithoutHA"]

\* An ingestion that reports success has put on disk every row it wrote, even
\* though a write error may have been seen by nothing but the last flush.
SuccessIsDurable ==
  Succeeded => \A f \in File : /\ file[f].state = "closed"
                               /\ file[f].durable = Len(file[f].rows)

\* The file lists the rows of a set in the order of the input.
Lists(rows, set) ==
  /\ {rows[i] : i \in DOMAIN rows} = set
  /\ \A i, j \in DOMAIN rows : i < j => rows[i] < rows[j]

RowsOf(p) ==
  {n \in 1..Len(read) : Failures(read[n]) = {} /\ PartitionIndex(read[n].entity) = p}
OtherRows == {n \in 1..Len(read) : Failures(read[n]) # {}}
RejectedBecause(code) ==
  {i \in 1..Len(file[Rejects].rows) :
     LET n == file[Rejects].rows[i]
     IN  n # 0 /\ RejectCode(read[n]) = code}

\* The result of a success describes its files: each partition holds exactly
\* the acceptable rows of its entities in input order, the rejects file its
\* header and the other rows, and each reason is counted as often as recorded.
ResultDescribesFiles ==
  Succeeded =>
    /\ \A p \in Partition : Lists(file[p].rows, RowsOf(p))
    /\ Lists(file[Rejects].rows, {0} \cup OtherRows)
    /\ \A c \in Reason : reasons[c] = Cardinality(RejectedBecause(c))
    /\ strict => count["RejectedRows"] = 0

\* No return, early or not, leaves a file open.
NothingLeftOpen ==
  phase = "returned" => \A f \in File : file[f].state # "open"

\* The call returns, whatever fails on the way.
Returns == <>(phase = "returned")
=============================================================================
