----------------------------- MODULE IngestProofs -----------------------------
(***************************************************************************)
(* The accounting of ingestion and the durability of its files, for every  *)
(* number of rows and partitions, every policy and every buffer size.      *)
(*                                                                         *)
(* The invariant adds two things to the properties: an error is known only *)
(* once closing has begun, and the state of every file follows from the    *)
(* phase and from the file that is to be created or closed next.           *)
(***************************************************************************)
EXTENDS Ingest, SequenceTheorems, FiniteSetTheorems, TLAPS

FileRecord(S) ==
  [state : {"none", "open", "closed"}, rows : Seq(S), durable : Nat,
   broken : BOOLEAN]

OnDisk(f) == f.state = "closed" /\ f.durable = Len(f.rows)

NoErrorYet == phase \in {"input", "create", "rows"} => ~failed

FilesFollow ==
  /\ phase = "input" => next = 1 /\ \A f \in File : file[f].state = "none"
  /\ phase = "create" =>
       /\ next \in 1 .. Partitions + 1
       /\ file[Rejects].state = "none"
       /\ \A p \in Partition :
            file[p].state = IF p < next THEN "open" ELSE "none"
  /\ phase = "rows" => \A f \in File : file[f].state = "open"
  /\ phase = "closing" =>
       \A f \in File :
         /\ f < next => file[f].state # "open"
         /\ ~failed => IF f < next THEN OnDisk(file[f]) ELSE file[f].state = "open"
  /\ phase = "returned" =>
       \A f \in File : /\ file[f].state # "open"
                       /\ ~failed => OnDisk(file[f])

IInv ==
  /\ TypeOK
  /\ NoErrorYet
  /\ RowsAccounted
  /\ FilesFollow

-----------------------------------------------------------------------------
(* Buffered files.                                                         *)

LEMMA FileFields ==
  ASSUME NEW S, NEW f \in FileRecord(S)
  PROVE  /\ f.state \in {"none", "open", "closed"} /\ f.rows \in Seq(S)
         /\ f.durable \in Nat /\ f.broken \in BOOLEAN /\ Len(f.rows) \in Nat
<1>1. /\ f.state \in {"none", "open", "closed"} /\ f.rows \in Seq(S)
      /\ f.durable \in Nat /\ f.broken \in BOOLEAN
  BY DEF FileRecord
<1> QED BY <1>1, LenProperties

LEMMA DrainFailsTyped ==
  ASSUME NEW S, NEW f \in FileRecord(S), NEW g \in DrainFails(f)
  PROVE  g \in FileRecord(S) /\ g.state = f.state /\ g.broken
<1>1. PICK d \in f.durable .. Len(f.rows) : g = FileOf(f.state, f.rows, d, TRUE)
  BY DEF DrainFails
<1>2. /\ f.state \in {"none", "open", "closed"} /\ f.rows \in Seq(S)
      /\ f.durable \in Nat /\ f.broken \in BOOLEAN /\ Len(f.rows) \in Nat
  BY FileFields
<1>3. d \in Nat
  BY <1>2
<1> QED BY <1>1, <1>2, <1>3 DEF FileOf, FileRecord

LEMMA WithRowTyped ==
  ASSUME NEW S, NEW f \in FileRecord(S), NEW row \in S
  PROVE  WithRow(f, row) \in FileRecord(S) /\ WithRow(f, row).state = f.state
<1>1. /\ f.state \in {"none", "open", "closed"} /\ f.rows \in Seq(S)
      /\ f.durable \in Nat /\ f.broken \in BOOLEAN /\ Len(f.rows) \in Nat
  BY FileFields
<1>2. Append(f.rows, row) \in Seq(S)
  BY <1>1
<1> QED BY <1>1, <1>2 DEF WithRow, FileOf, FileRecord

LEMMA DrainedTyped ==
  ASSUME NEW S, NEW f \in FileRecord(S)
  PROVE  /\ Drained(f) \in FileRecord(S)
         /\ Drained(f).state = f.state
         /\ Drained(f).durable = Len(Drained(f).rows)
<1>1. /\ f.state \in {"none", "open", "closed"} /\ f.rows \in Seq(S)
      /\ f.durable \in Nat /\ f.broken \in BOOLEAN /\ Len(f.rows) \in Nat
  BY FileFields
<1> QED BY <1>1 DEF Drained, FileOf, FileRecord

LEMMA WrittenTyped ==
  ASSUME NEW S, NEW f \in FileRecord(S), NEW row \in S, NEW g \in Written(f, row)
  PROVE  g \in FileRecord(S) /\ g.state = f.state
<1>1. g = f \/ g = WithRow(Drained(f), row) \/ g \in DrainFails(f) \/ g = WithRow(f, row)
  BY Zenon DEF Written
<1> QED BY <1>1, DrainFailsTyped, WithRowTyped, DrainedTyped

LEMMA FlushedTyped ==
  ASSUME NEW S, NEW f \in FileRecord(S), NEW g \in Flushed(f)
  PROVE  /\ g \in FileRecord(S) /\ g.state = f.state
         /\ ~g.broken => g.durable = Len(g.rows)
<1>1. (g = f /\ f.broken) \/ g = Drained(f) \/ g \in DrainFails(f)
  BY Zenon DEF Flushed
<1> QED BY <1>1, DrainFailsTyped, DrainedTyped

LEMMA ClosedTyped ==
  ASSUME NEW S, NEW f \in FileRecord(S)
  PROVE  /\ Closed(f) \in FileRecord(S) /\ Closed(f).state = "closed"
         /\ Closed(f).rows = f.rows /\ Closed(f).durable = f.durable
<1>1. /\ f.state \in {"none", "open", "closed"} /\ f.rows \in Seq(S)
      /\ f.durable \in Nat /\ f.broken \in BOOLEAN /\ Len(f.rows) \in Nat
  BY FileFields
<1> QED BY <1>1 DEF Closed, FileOf, FileRecord

\* A row more may only add numbers.
LEMMA NumbersGrow ==
  ASSUME NEW m \in Nat, NEW n \in Nat, m <= n, NEW f \in FileRecord(0 .. m)
  PROVE  f \in FileRecord(0 .. n)
<1>1. 0 .. m \subseteq 0 .. n
  OBVIOUS
<1>2. f.rows \in Seq(0 .. n)
  BY <1>1, FileFields, SeqMonotonic
<1> QED BY <1>2 DEF FileRecord

-----------------------------------------------------------------------------
(* Rows.                                                                   *)

\* Some check comes first among those that fail.
LEMMA FirstFailure ==
  ASSUME NEW F, F \subseteq Reason, F # {}
  PROVE  \E i \in DOMAIN CheckOrder :
           CheckOrder[i] \in F /\ \A j \in 1 .. (i - 1) : CheckOrder[j] \notin F
<1> DEFINE First(i) == \A j \in 1 .. (i - 1) : CheckOrder[j] \notin F
<1>1. DOMAIN CheckOrder = 1 .. 10
  BY DEF CheckOrder
<1> SUFFICES ASSUME \A i \in 1 .. 10 : First(i) => CheckOrder[i] \notin F
             PROVE  FALSE
  BY <1>1
<1>2. \A i \in 1 .. 9 : First(i) => First(i + 1)
  OBVIOUS
<1>3. First(1)
  OBVIOUS
<1> HIDE DEF First
<1>4. First(2) /\ First(3) /\ First(4)
  BY <1>2, <1>3
<1>5. First(5) /\ First(6) /\ First(7)
  BY <1>2, <1>4
<1>6. First(8) /\ First(9) /\ First(10)
  BY <1>2, <1>5
<1>7. \A i \in 1 .. 10 : CheckOrder[i] \notin F
  BY <1>3, <1>4, <1>5, <1>6
<1> QED BY <1>1, <1>7 DEF Reason

LEMMA FailuresAreReasons ==
  ASSUME NEW r \in Row
  PROVE  /\ Failures(r) \subseteq Reason
         /\ Malformed(r) <=> "csv_parse_error" \in Failures(r)
<1>1. r.defects \subseteq {"csv_parse_error", "empty_id", "invalid_ts",
                           "invalid_lat", "invalid_lon"}
  BY RowAssumption
<1>2. HAFailures(r.ha) \subseteq {"missing_ha", "non_numeric_ha", "non_finite_ha",
                                  "negative_ha", "ha_exceeds_max"}
  BY DEF HAFailures
<1>3. Reason = {"csv_parse_error", "empty_id", "invalid_ts", "invalid_lat",
                "invalid_lon", "missing_ha", "non_numeric_ha", "non_finite_ha",
                "negative_ha", "ha_exceeds_max"}
  BY DEF Reason, CheckOrder
<1> QED BY <1>1, <1>2, <1>3 DEF Failures, Malformed

LEMMA RejectCodeTells ==
  ASSUME NEW r \in Row, ~Acceptable(r)
  PROVE  /\ RejectCode(r) \in Reason
         /\ RejectCode(r) = "csv_parse_error" <=> Malformed(r)
<1> DEFINE At(i) == /\ CheckOrder[i] \in Failures(r)
                    /\ \A j \in 1 .. (i - 1) : CheckOrder[j] \notin Failures(r)
           at == CHOOSE i \in DOMAIN CheckOrder : At(i)
<1>1. \E i \in DOMAIN CheckOrder : At(i)
  BY FailuresAreReasons, FirstFailure DEF Acceptable
<1>2. at \in DOMAIN CheckOrder /\ At(at)
  BY <1>1
<1>3. RejectCode(r) = CheckOrder[at]
  BY DEF RejectCode
<1> HIDE DEF at
<1>4. RejectCode(r) \in Reason /\ RejectCode(r) \in Failures(r)
  BY <1>2, <1>3 DEF Reason
<1>5. at # 1 => "csv_parse_error" \notin Failures(r)
  <2>1. at \in 1 .. 10 /\ CheckOrder[1] = "csv_parse_error"
    BY <1>2 DEF CheckOrder
  <2> QED BY <1>2, <2>1
<1>6. at = 1 => RejectCode(r) = "csv_parse_error"
  BY <1>3 DEF CheckOrder
<1> QED BY <1>4, <1>5, <1>6, FailuresAreReasons

-----------------------------------------------------------------------------
(* Counters.                                                               *)

LEMMA CountersAreNumbers ==
  ASSUME TypeOK
  PROVE  /\ count["InputRows"] \in Nat /\ count["ValidRows"] \in Nat
         /\ count["RejectedRows"] \in Nat /\ count["InputHAPresentRows"] \in Nat
         /\ count["InputHAMissingRows"] \in Nat /\ count["AcceptedWithHA"] \in Nat
         /\ count["AcceptedWithoutHA"] \in Nat /\ reasons["csv_parse_error"] \in Nat
BY DEF TypeOK, Counters, Reason, CheckOrder

\* What Add(C) does to each counter.
LEMMA AddCounts ==
  ASSUME TypeOK, NEW C, Add(C)
  PROVE  /\ count'["InputRows"] = count["InputRows"]
              + IF "InputRows" \in C THEN 1 ELSE 0
         /\ count'["ValidRows"] = count["ValidRows"]
              + IF "ValidRows" \in C THEN 1 ELSE 0
         /\ count'["RejectedRows"] = count["RejectedRows"]
              + IF "RejectedRows" \in C THEN 1 ELSE 0
         /\ count'["InputHAPresentRows"] = count["InputHAPresentRows"]
              + IF "InputHAPresentRows" \in C THEN 1 ELSE 0
         /\ count'["InputHAMissingRows"] = count["InputHAMissingRows"]
              + IF "InputHAMissingRows" \in C THEN 1 ELSE 0
         /\ count'["AcceptedWithHA"] = count["AcceptedWithHA"]
              + IF "AcceptedWithHA" \in C THEN 1 ELSE 0
         /\ count'["AcceptedWithoutHA"] = count["AcceptedWithoutHA"]
              + IF "AcceptedWithoutHA" \in C THEN 1 ELSE 0
<1>1. \A c \in Counters : count'[c] = count[c] + IF c \in C THEN 1 ELSE 0
  BY DEF Add, TypeOK
<1> QED BY <1>1 DEF Counters

LEMMA AddTyped ==
  ASSUME TypeOK, NEW C, Add(C)
  PROVE  count' \in [Counters -> Nat]
BY DEF TypeOK, Add

LEMMA SeenMembers ==
  ASSUME NEW r
  PROVE  /\ "InputRows" \in SeenCounters(r)
         /\ "ValidRows" \notin SeenCounters(r)
         /\ "RejectedRows" \notin SeenCounters(r)
         /\ "AcceptedWithHA" \notin SeenCounters(r)
         /\ "AcceptedWithoutHA" \notin SeenCounters(r)
         /\ "InputHAPresentRows" \in SeenCounters(r) <=> ~Malformed(r) /\ r.ha # "blank"
         /\ "InputHAMissingRows" \in SeenCounters(r) <=> ~Malformed(r) /\ r.ha = "blank"
BY DEF SeenCounters

LEMMA AcceptedMembers ==
  ASSUME NEW r
  PROVE  /\ "InputRows" \notin AcceptedCounters(r)
         /\ "ValidRows" \in AcceptedCounters(r)
         /\ "RejectedRows" \notin AcceptedCounters(r)
         /\ "AcceptedWithHA" \in AcceptedCounters(r) <=> r.ha # "blank"
         /\ "AcceptedWithoutHA" \in AcceptedCounters(r) <=> r.ha = "blank"
         /\ "InputHAPresentRows" \notin AcceptedCounters(r)
         /\ "InputHAMissingRows" \notin AcceptedCounters(r)
BY DEF AcceptedCounters

\* A row that was seen and then ended ingestion.
LEMMA SeenAccounts ==
  ASSUME TypeOK, RowsAccounted, ~failed, NEW r \in Row,
         Add(SeenCounters(r)), failed', reasons' = reasons
  PROVE  RowsAccounted'
<1>1. /\ count["InputRows"] \in Nat /\ count["ValidRows"] \in Nat
      /\ count["RejectedRows"] \in Nat /\ count["InputHAPresentRows"] \in Nat
      /\ count["InputHAMissingRows"] \in Nat /\ count["AcceptedWithHA"] \in Nat
      /\ count["AcceptedWithoutHA"] \in Nat /\ reasons["csv_parse_error"] \in Nat
  BY CountersAreNumbers
<1>2. /\ count'["InputRows"] = count["InputRows"] + 1
      /\ count'["ValidRows"] = count["ValidRows"]
      /\ count'["RejectedRows"] = count["RejectedRows"]
      /\ count'["AcceptedWithHA"] = count["AcceptedWithHA"]
      /\ count'["AcceptedWithoutHA"] = count["AcceptedWithoutHA"]
  BY <1>1, AddCounts, SeenMembers
<1>3. \/ /\ count'["InputHAPresentRows"] = count["InputHAPresentRows"] + 1
         /\ count'["InputHAMissingRows"] = count["InputHAMissingRows"]
      \/ /\ count'["InputHAPresentRows"] = count["InputHAPresentRows"]
         /\ count'["InputHAMissingRows"] = count["InputHAMissingRows"] + 1
      \/ /\ count'["InputHAPresentRows"] = count["InputHAPresentRows"]
         /\ count'["InputHAMissingRows"] = count["InputHAMissingRows"]
  BY <1>1, AddCounts, SeenMembers
<1> QED BY <1>1, <1>2, <1>3 DEF RowsAccounted, Short

\* A row that was rejected: parse errors have their own reason.
LEMMA RejectAccounts ==
  ASSUME TypeOK, RowsAccounted, ~failed, NEW r \in Row, ~Acceptable(r),
         Add(SeenCounters(r) \cup {"RejectedRows"}),
         reasons' = [reasons EXCEPT ![RejectCode(r)] = @ + 1]
  PROVE  RowsAccounted'
<1> DEFINE C == SeenCounters(r) \cup {"RejectedRows"}
<1>1. /\ count["InputRows"] \in Nat /\ count["ValidRows"] \in Nat
      /\ count["RejectedRows"] \in Nat /\ count["InputHAPresentRows"] \in Nat
      /\ count["InputHAMissingRows"] \in Nat /\ count["AcceptedWithHA"] \in Nat
      /\ count["AcceptedWithoutHA"] \in Nat /\ reasons["csv_parse_error"] \in Nat
  BY CountersAreNumbers
<1>2. /\ "InputRows" \in C /\ "ValidRows" \notin C /\ "RejectedRows" \in C
      /\ "AcceptedWithHA" \notin C /\ "AcceptedWithoutHA" \notin C
      /\ "InputHAPresentRows" \in C <=> ~Malformed(r) /\ r.ha # "blank"
      /\ "InputHAMissingRows" \in C <=> ~Malformed(r) /\ r.ha = "blank"
  BY SeenMembers
<1>3. Add(C)
  OBVIOUS
<1> HIDE DEF C
<1>4. /\ count'["InputRows"] = count["InputRows"] + 1
      /\ count'["ValidRows"] = count["ValidRows"]
      /\ count'["RejectedRows"] = count["RejectedRows"] + 1
      /\ count'["AcceptedWithHA"] = count["AcceptedWithHA"]
      /\ count'["AcceptedWithoutHA"] = count["AcceptedWithoutHA"]
  BY <1>1, <1>2, <1>3, AddCounts
<1>5. "csv_parse_error" \in Reason
  BY DEF Reason, CheckOrder
<1>6. CASE Malformed(r)
  <2>1. /\ count'["InputHAPresentRows"] = count["InputHAPresentRows"]
        /\ count'["InputHAMissingRows"] = count["InputHAMissingRows"]
    BY <1>1, <1>2, <1>3, <1>6, AddCounts
  <2>2. reasons'["csv_parse_error"] = reasons["csv_parse_error"] + 1
    BY <1>5, <1>6, RejectCodeTells DEF TypeOK
  <2> QED BY <1>1, <1>4, <2>1, <2>2 DEF RowsAccounted, Short
<1>7. CASE ~Malformed(r)
  <2>1. \/ /\ count'["InputHAPresentRows"] = count["InputHAPresentRows"] + 1
           /\ count'["InputHAMissingRows"] = count["InputHAMissingRows"]
        \/ /\ count'["InputHAPresentRows"] = count["InputHAPresentRows"]
           /\ count'["InputHAMissingRows"] = count["InputHAMissingRows"] + 1
    BY <1>1, <1>2, <1>3, <1>7, AddCounts
  <2>2. reasons'["csv_parse_error"] = reasons["csv_parse_error"]
    BY <1>5, <1>7, RejectCodeTells DEF TypeOK
  <2> QED BY <1>1, <1>4, <2>1, <2>2 DEF RowsAccounted, Short
<1> QED BY <1>6, <1>7

LEMMA AcceptAccounts ==
  ASSUME TypeOK, RowsAccounted, ~failed, NEW r \in Row, Acceptable(r),
         Add(SeenCounters(r) \cup AcceptedCounters(r)), reasons' = reasons
  PROVE  RowsAccounted'
<1> DEFINE C == SeenCounters(r) \cup AcceptedCounters(r)
<1>1. /\ count["InputRows"] \in Nat /\ count["ValidRows"] \in Nat
      /\ count["RejectedRows"] \in Nat /\ count["InputHAPresentRows"] \in Nat
      /\ count["InputHAMissingRows"] \in Nat /\ count["AcceptedWithHA"] \in Nat
      /\ count["AcceptedWithoutHA"] \in Nat /\ reasons["csv_parse_error"] \in Nat
  BY CountersAreNumbers
<1>2. ~Malformed(r)
  BY FailuresAreReasons DEF Acceptable
<1>3. /\ "InputRows" \in C /\ "ValidRows" \in C /\ "RejectedRows" \notin C
      /\ "AcceptedWithHA" \in C <=> r.ha # "blank"
      /\ "AcceptedWithoutHA" \in C <=> r.ha = "blank"
      /\ "InputHAPresentRows" \in C <=> r.ha # "blank"
      /\ "InputHAMissingRows" \in C <=> r.ha = "blank"
  BY <1>2, SeenMembers, AcceptedMembers
<1>4. Add(C)
  OBVIOUS
<1> HIDE DEF C
<1>5. /\ count'["InputRows"] = count["InputRows"] + 1
      /\ count'["ValidRows"] = count["ValidRows"] + 1
      /\ count'["RejectedRows"] = count["RejectedRows"]
  BY <1>1, <1>3, <1>4, AddCounts
<1>6. \/ /\ count'["InputHAPresentRows"] = count["InputHAPresentRows"]
         /\ count'["InputHAMissingRows"] = count["InputHAMissingRows"] + 1
         /\ count'["AcceptedWithHA"] = count["AcceptedWithHA"]
         /\ count'["AcceptedWithoutHA"] = count["AcceptedWithoutHA"] + 1
      \/ /\ count'["InputHAPresentRows"] = count["InputHAPresentRows"] + 1
         /\ count'["InputHAMissingRows"] = count["InputHAMissingRows"]
         /\ count'["AcceptedWithHA"] = count["AcceptedWithHA"] + 1
         /\ count'["AcceptedWithoutHA"] = count["AcceptedWithoutHA"]
  BY <1>1, <1>3, <1>4, AddCounts
<1> QED BY <1>1, <1>5, <1>6 DEF RowsAccounted, Short

\* An error reported after that leaves the sums as they are.
LEMMA UncountedAccounts ==
  ASSUME RowsAccounted, UNCHANGED <<count, reasons>>, failed => failed'
  PROVE  RowsAccounted'
BY DEF RowsAccounted, Short

-----------------------------------------------------------------------------
(* The invariant holds initially.                                          *)

LEMMA FileNames ==
  /\ Rejects \in File /\ Partition \subseteq File /\ Rejects \notin Partition
  /\ File = 0 .. Partitions /\ Partitions \in Nat
BY ConfigAssumption DEF File, Rejects, Partition

LEMMA TypedFiles ==
  TypeOK <=> /\ phase \in {"input", "create", "rows", "closing", "returned"}
             /\ next \in 0 .. (Partitions + 1)
             /\ read \in Seq(Row)
             /\ file \in [File -> FileRecord(0 .. Len(read))]
             /\ count \in [Counters -> Nat]
             /\ reasons \in [Reason -> Nat]
             /\ failed \in BOOLEAN
BY DEF TypeOK, FileRecord

LEMMA EmptyFiles ==
  ASSUME NEW S
  PROVE  /\ NoFile \in FileRecord(S) /\ NoFile.state = "none"
         /\ NewFile \in FileRecord(S) /\ NewFile.state = "open"
<1>1. <<>> \in Seq(S)
  BY EmptySeq
<1> QED BY <1>1 DEF NoFile, NewFile, FileOf, FileRecord

LEMMA InitInv ==
  ASSUME Init
  PROVE  IInv
<1>1. file \in [File -> FileRecord(0 .. Len(read))]
  BY EmptyFiles DEF Init
<1>2. read \in Seq(Row) /\ next \in 0 .. (Partitions + 1)
  BY EmptySeq, ConfigAssumption DEF Init
<1>3. count \in [Counters -> Nat] /\ reasons \in [Reason -> Nat]
  BY DEF Init
<1>4. phase = "input" /\ ~failed
  BY DEF Init
<1>5. failed \in BOOLEAN
  BY Zenon DEF Init
<1>6. TypeOK
  BY <1>1, <1>2, <1>3, <1>4, <1>5, TypedFiles
<1>7. RowsAccounted
  <2>1. \A c \in Counters : count[c] = 0
    BY DEF Init
  <2>2. reasons["csv_parse_error"] = 0
    BY DEF Init, Reason, CheckOrder
  <2> QED BY <2>1, <2>2 DEF RowsAccounted, Short, Counters
<1>8. \A f \in File : file[f].state = "none"
  BY EmptyFiles DEF Init
<1>9. FilesFollow
  BY <1>4, <1>8 DEF FilesFollow, Init
<1> QED BY <1>4, <1>6, <1>7, <1>9 DEF IInv, NoErrorYet

-----------------------------------------------------------------------------
(* Every step preserves the invariant.                                     *)

\* One file changes, and a row may have been read.
LEMMA OneFile ==
  ASSUME TypeOK, read' \in Seq(Row), Len(read') \in {Len(read), Len(read) + 1},
         NEW f \in File, NEW g \in FileRecord(0 .. Len(read')),
         file' = [file EXCEPT ![f] = g]
  PROVE  /\ file' \in [File -> FileRecord(0 .. Len(read'))]
         /\ file'[f] = g
         /\ \A h \in File \ {f} : file'[h] = file[h]
<1>1. Len(read) \in Nat /\ Len(read') \in Nat /\ Len(read) <= Len(read')
  BY LenProperties DEF TypeOK
<1>2. file \in [File -> FileRecord(0 .. Len(read))]
  BY TypedFiles
<1>3. \A h \in File : file[h] \in FileRecord(0 .. Len(read'))
  BY <1>1, <1>2, NumbersGrow
<1> QED BY <1>2, <1>3

LEMMA OpenInputInv ==
  ASSUME IInv, OpenInput
  PROVE  IInv'
<1>1. /\ UNCHANGED <<next, read, file, count, reasons>> /\ phase = "input"
      /\ \/ phase' = "create" /\ failed' = failed
         \/ phase' = "returned" /\ failed' = TRUE
  BY DEF OpenInput
<1>2. TypeOK'
  <2>1. failed' \in BOOLEAN /\ phase' \in {"create", "returned"}
    BY <1>1, TypedFiles DEF IInv
  <2> QED BY <1>1, <2>1 DEF IInv, TypeOK
<1>3. RowsAccounted'
  BY <1>1, UncountedAccounts DEF IInv
<1>4. ~failed /\ next = 1 /\ \A f \in File : file[f].state = "none"
  BY <1>1 DEF IInv, NoErrorYet, FilesFollow
<1>5. NoErrorYet'
  BY <1>1, <1>4 DEF NoErrorYet
<1>6. FilesFollow'
  <2>1. CASE phase' = "create" /\ failed' = failed
    BY <1>1, <1>4, <2>1, FileNames DEF FilesFollow, Partition
  <2>2. CASE phase' = "returned" /\ failed' = TRUE
    BY <1>1, <1>4, <2>2 DEF FilesFollow
  <2> QED BY <1>1, <2>1, <2>2
<1> QED BY <1>2, <1>3, <1>5, <1>6 DEF IInv

LEMMA CreatePartitionInv ==
  ASSUME IInv, CreatePartition
  PROVE  IInv'
<1>1. /\ UNCHANGED <<read, count, reasons>> /\ phase = "create" /\ next \in Partition
      /\ \/ /\ file' = [file EXCEPT ![next] = NewFile] /\ next' = next + 1
            /\ phase' = phase /\ failed' = failed
         \/ /\ phase' = "closing" /\ next' = 1 /\ failed' = TRUE /\ file' = file
  BY DEF CreatePartition
<1>2. /\ ~failed /\ file[Rejects].state = "none"
      /\ \A p \in Partition : file[p].state = IF p < next THEN "open" ELSE "none"
  BY <1>1 DEF IInv, NoErrorYet, FilesFollow
<1>3. next \in File /\ next \in 1 .. Partitions
  BY <1>1, FileNames DEF Partition
<1>4. RowsAccounted'
  BY <1>1, UncountedAccounts DEF IInv
<1>5. CASE /\ file' = [file EXCEPT ![next] = NewFile] /\ next' = next + 1
           /\ phase' = phase /\ failed' = failed
  <2>1. /\ file' \in [File -> FileRecord(0 .. Len(read'))]
        /\ file'[next] = NewFile
        /\ \A h \in File \ {next} : file'[h] = file[h]
    BY <1>1, <1>3, <1>5, EmptyFiles, OneFile DEF IInv, TypeOK
  <2>2. TypeOK'
    <3>1. next' \in 0 .. (Partitions + 1)
      BY <1>3, <1>5, FileNames
    <3> QED BY <1>1, <1>5, <2>1, <3>1, TypedFiles DEF IInv, TypeOK, FileRecord
  <2>3. file'[next].state = "open"
    BY <2>1, EmptyFiles
  <2>4. FilesFollow'
    <3>1. \A p \in Partition : file'[p].state = IF p < next' THEN "open" ELSE "none"
      <4> SUFFICES ASSUME NEW p \in Partition
                   PROVE  file'[p].state = IF p < next' THEN "open" ELSE "none"
        OBVIOUS
      <4>1. p \in File /\ p \in Nat /\ next \in Nat
        BY <1>3, FileNames DEF Partition
      <4>2. CASE p = next
        BY <1>5, <2>3, <4>1, <4>2
      <4>3. CASE p # next
        BY <1>2, <1>5, <2>1, <4>1, <4>3
      <4> QED BY <4>2, <4>3
    <3>2. file'[Rejects].state = "none"
      BY <1>1, <1>2, <2>1, FileNames
    <3>3. next' \in 1 .. Partitions + 1
      BY <1>3, <1>5, FileNames
    <3> QED BY <1>1, <1>5, <3>1, <3>2, <3>3 DEF FilesFollow
  <2> QED BY <1>1, <1>2, <1>4, <1>5, <2>2, <2>4 DEF IInv, NoErrorYet
<1>6. CASE phase' = "closing" /\ next' = 1 /\ failed' = TRUE /\ file' = file
  <2>1. TypeOK'
    BY <1>1, <1>6, FileNames DEF IInv, TypeOK
  <2>2. \A f \in File : f < next' => f = Rejects
    BY <1>6, FileNames DEF Rejects
  <2>3. FilesFollow'
    BY <1>2, <1>6, <2>2 DEF FilesFollow
  <2> QED BY <1>4, <1>6, <2>1, <2>3 DEF IInv, NoErrorYet
<1> QED BY <1>1, <1>5, <1>6

LEMMA CreateRejectsInv ==
  ASSUME IInv, CreateRejects
  PROVE  IInv'
<1>1. /\ UNCHANGED <<read, count, reasons>> /\ phase = "create" /\ next \notin Partition
      /\ \/ phase' = "closing" /\ next' = 1 /\ failed' = TRUE /\ file' = file
         \/ \E f \in Written(NewFile, 0) :
              /\ file' = [file EXCEPT ![Rejects] = f]
              /\ phase' = IF f.broken THEN "closing" ELSE "rows"
              /\ next' = IF f.broken THEN Rejects ELSE 1
              /\ failed' = f.broken
  BY DEF CreateRejects
<1>2. /\ ~failed /\ next \in 1 .. Partitions + 1 /\ file[Rejects].state = "none"
      /\ \A p \in Partition : file[p].state = IF p < next THEN "open" ELSE "none"
  BY <1>1 DEF IInv, NoErrorYet, FilesFollow
<1>3. RowsAccounted'
  BY <1>1, <1>2, UncountedAccounts DEF IInv
<1>4. CASE phase' = "closing" /\ next' = 1 /\ failed' = TRUE /\ file' = file
  <2>1. TypeOK'
    BY <1>1, <1>4, FileNames DEF IInv, TypeOK
  <2>2. \A f \in File : f < next' => f = Rejects
    BY <1>4, FileNames DEF Rejects
  <2>3. FilesFollow'
    BY <1>2, <1>4, <2>2 DEF FilesFollow
  <2> QED BY <1>3, <1>4, <2>1, <2>3 DEF IInv, NoErrorYet
<1>5. CASE \E f \in Written(NewFile, 0) :
             /\ file' = [file EXCEPT ![Rejects] = f]
             /\ phase' = IF f.broken THEN "closing" ELSE "rows"
             /\ next' = IF f.broken THEN Rejects ELSE 1
             /\ failed' = f.broken
  <2>1. PICK f \in Written(NewFile, 0) :
             /\ file' = [file EXCEPT ![Rejects] = f]
             /\ phase' = IF f.broken THEN "closing" ELSE "rows"
             /\ next' = IF f.broken THEN Rejects ELSE 1
             /\ failed' = f.broken
    BY <1>5
  <2>2. read' = read /\ read \in Seq(Row) /\ 0 \in 0 .. Len(read)
    BY <1>1, LenProperties DEF IInv, TypeOK
  <2>3. f \in FileRecord(0 .. Len(read)) /\ f.state = "open"
    BY <2>2, EmptyFiles, WrittenTyped
  <2>4. f.broken \in BOOLEAN
    BY <2>3 DEF FileRecord
  <2>5. /\ file' \in [File -> FileRecord(0 .. Len(read'))]
        /\ file'[Rejects] = f
        /\ \A h \in File \ {Rejects} : file'[h] = file[h]
    BY <2>1, <2>2, <2>3, FileNames, OneFile DEF IInv
  <2>6. TypeOK'
    <3>1. next' \in 0 .. (Partitions + 1) /\ phase' \in {"closing", "rows"}
      BY <2>1, FileNames DEF Rejects
    <3>2. failed' \in BOOLEAN
      BY <2>1, <2>4
    <3> QED BY <1>1, <2>2, <2>5, <3>1, <3>2 DEF IInv, TypeOK, FileRecord
  <2>7. \A h \in File : file'[h].state = "open"
    <3>1. next = Partitions + 1
      BY <1>1, <1>2, FileNames DEF Partition
    <3>2. \A p \in Partition : p < next
      BY <3>1, FileNames DEF Partition
    <3> QED BY <1>2, <2>3, <2>5, <3>2 DEF File
  <2>8. CASE f.broken
    <3>1. phase' = "closing" /\ next' = 0 /\ failed'
      BY <2>1, <2>8 DEF Rejects
    <3>2. FilesFollow'
      BY <3>1, FileNames DEF FilesFollow
    <3> QED BY <1>3, <2>6, <3>1, <3>2 DEF IInv, NoErrorYet
  <2>9. CASE ~f.broken
    <3>1. phase' = "rows" /\ ~failed'
      BY <2>1, <2>9
    <3>2. FilesFollow'
      BY <2>7, <3>1 DEF FilesFollow
    <3> QED BY <1>3, <2>6, <3>1, <3>2 DEF IInv, NoErrorYet
  <2> QED BY <2>8, <2>9
<1> QED BY <1>1, <1>4, <1>5

\* Reading a row leaves every file open; what ends the loop has counted the row.
LEMMA RowStep ==
  ASSUME IInv, phase = "rows",
         read' \in Seq(Row), file' \in [File -> FileRecord(0 .. Len(read'))],
         \A f \in File : file'[f].state = "open",
         count' \in [Counters -> Nat], reasons' \in [Reason -> Nat],
         RowsAccounted',
         \/ Continue
         \/ Return /\ failed' \in BOOLEAN
  PROVE  IInv'
<1>1. ~failed /\ failed \in BOOLEAN
  BY DEF IInv, NoErrorYet, TypeOK
<1>2. TypeOK'
  <2>1. phase' \in {"rows", "closing"}
    BY DEF Continue, Return
  <2>2. next' \in 0 .. (Partitions + 1)
    BY FileNames DEF Continue, Return, Rejects, IInv, TypeOK
  <2>3. failed' \in BOOLEAN
    BY <1>1 DEF Continue
  <2> QED BY <2>1, <2>2, <2>3 DEF TypeOK, FileRecord
<1>3. CASE Continue
  BY <1>1, <1>2, <1>3 DEF Continue, IInv, NoErrorYet, FilesFollow
<1>4. CASE Return
  <2>1. \A f \in File : ~(f < next')
    BY <1>4, FileNames DEF Return, Rejects
  <2> QED BY <1>2, <1>4, <2>1 DEF Return, IInv, NoErrorYet, FilesFollow
<1> QED BY <1>3, <1>4

LEMMA EndOfInputInv ==
  ASSUME IInv, EndOfInput
  PROVE  IInv'
<1>1. phase = "rows" /\ Return /\ UNCHANGED <<read, file, count, reasons, failed>>
  BY DEF EndOfInput
<1>2. \A f \in File : file[f].state = "open"
  BY <1>1 DEF IInv, FilesFollow
<1>3. RowsAccounted'
  BY <1>1, UncountedAccounts DEF IInv
<1> QED BY <1>1, <1>2, <1>3, RowStep DEF IInv, TypeOK, FileRecord

LEMMA ReadErrorInv ==
  ASSUME IInv, ReadError
  PROVE  IInv'
<1>1. /\ phase = "rows" /\ Return /\ failed' = TRUE /\ Add({"InputRows"})
      /\ UNCHANGED <<read, file, reasons>>
  BY DEF ReadError, Abort
<1>2. ~failed /\ \A f \in File : file[f].state = "open"
  BY <1>1 DEF IInv, NoErrorYet, FilesFollow
<1>3. count' \in [Counters -> Nat]
  BY <1>1, AddTyped DEF IInv
<1>4. RowsAccounted'
  <2>1. /\ count'["InputRows"] = count["InputRows"] + 1
        /\ count'["ValidRows"] = count["ValidRows"] + 0
        /\ count'["RejectedRows"] = count["RejectedRows"] + 0
        /\ count'["InputHAPresentRows"] = count["InputHAPresentRows"] + 0
        /\ count'["InputHAMissingRows"] = count["InputHAMissingRows"] + 0
        /\ count'["AcceptedWithHA"] = count["AcceptedWithHA"] + 0
        /\ count'["AcceptedWithoutHA"] = count["AcceptedWithoutHA"] + 0
    BY <1>1, AddCounts DEF IInv
  <2> QED BY <1>1, <1>2, <2>1, CountersAreNumbers DEF IInv, RowsAccounted, Short
<1>5. failed' \in BOOLEAN
  BY <1>1
<1> QED BY <1>1, <1>2, <1>3, <1>4, <1>5, RowStep DEF IInv, TypeOK, FileRecord

\* A row read and its number written to one file.
LEMMA WrittenRow ==
  ASSUME IInv, phase = "rows", NEW r \in Row, read' = Append(read, r),
         NEW f \in File, NEW g \in Written(file[f], RowNumber),
         file' = [file EXCEPT ![f] = g]
  PROVE  /\ read' \in Seq(Row)
         /\ file' \in [File -> FileRecord(0 .. Len(read'))]
         /\ \A h \in File : file'[h].state = "open"
<1>1. read \in Seq(Row) /\ read' \in Seq(Row) /\ Len(read') = Len(read) + 1
      /\ Len(read) \in Nat
  BY AppendProperties, LenProperties DEF IInv, TypeOK
<1>2. \A h \in File : file[h].state = "open"
  BY DEF IInv, FilesFollow
<1>3. file[f] \in FileRecord(0 .. Len(read))
  BY TypedFiles DEF IInv
<1>4. file[f] \in FileRecord(0 .. Len(read'))
  BY <1>1, <1>3, NumbersGrow
<1>5. RowNumber \in 0 .. Len(read')
  BY <1>1 DEF RowNumber
<1>6. g \in FileRecord(0 .. Len(read')) /\ g.state = "open"
  BY <1>2, <1>4, <1>5, WrittenTyped
<1>7. /\ file' \in [File -> FileRecord(0 .. Len(read'))]
      /\ file'[f] = g
      /\ \A h \in File \ {f} : file'[h] = file[h]
  BY <1>1, <1>6, OneFile DEF IInv
<1> QED BY <1>1, <1>2, <1>6, <1>7

LEMMA AcceptInv ==
  ASSUME IInv, NEW r \in Row, Accept(r)
  PROVE  IInv'
<1> DEFINE p == PartitionIndex(r.entity)
<1>1. PICK g \in Written(file[p], RowNumber) :
        /\ file' = [file EXCEPT ![p] = g]
        /\ IF g.broken
           THEN Abort /\ Add(SeenCounters(r))
           ELSE Continue /\ Add(SeenCounters(r) \cup AcceptedCounters(r))
  BY DEF Accept
<1>2. phase = "rows" /\ Acceptable(r) /\ read' = Append(read, r) /\ reasons' = reasons
  BY DEF Accept
<1>3. p \in File
  BY RowAssumption, FileNames DEF Partition
<1> HIDE DEF p
<1>4. /\ read' \in Seq(Row)
      /\ file' \in [File -> FileRecord(0 .. Len(read'))]
      /\ \A h \in File : file'[h].state = "open"
  BY <1>1, <1>2, <1>3, WrittenRow
<1>5. ~failed /\ TypeOK /\ RowsAccounted /\ reasons' \in [Reason -> Nat]
  BY <1>2 DEF IInv, NoErrorYet, TypeOK
<1>6. CASE g.broken
  <2>1. Return /\ failed' = TRUE /\ Add(SeenCounters(r))
    BY <1>1, <1>6 DEF Abort
  <2>2. RowsAccounted' /\ count' \in [Counters -> Nat]
    BY <1>2, <1>5, <2>1, SeenAccounts, AddTyped
  <2>3. failed' \in BOOLEAN
    BY <2>1
  <2> QED BY <1>2, <1>4, <1>5, <2>1, <2>2, <2>3, RowStep
<1>7. CASE ~g.broken
  <2>1. Continue /\ Add(SeenCounters(r) \cup AcceptedCounters(r))
    BY <1>1, <1>7
  <2>2. RowsAccounted' /\ count' \in [Counters -> Nat]
    BY <1>2, <1>5, <2>1, AcceptAccounts, AddTyped
  <2> QED BY <1>2, <1>4, <1>5, <2>1, <2>2, RowStep
<1> QED BY <1>6, <1>7

LEMMA AbortStrictInv ==
  ASSUME IInv, NEW r \in Row, AbortStrict(r)
  PROVE  IInv'
<1>1. /\ phase = "rows" /\ read' = Append(read, r) /\ Return /\ failed' = TRUE
      /\ Add(SeenCounters(r)) /\ file' = file /\ reasons' = reasons
  BY DEF AbortStrict, Abort
<1>2. ~failed /\ TypeOK /\ RowsAccounted /\ reasons' \in [Reason -> Nat]
      /\ \A h \in File : file[h].state = "open"
  BY <1>1 DEF IInv, NoErrorYet, TypeOK, FilesFollow
<1>3. read' \in Seq(Row) /\ Len(read') = Len(read) + 1 /\ Len(read) \in Nat
  BY <1>1, <1>2, AppendProperties, LenProperties DEF TypeOK
<1>4. file' \in [File -> FileRecord(0 .. Len(read'))]
  <2>1. file \in [File -> FileRecord(0 .. Len(read))]
    BY <1>2, TypedFiles
  <2>2. \A h \in File : file[h] \in FileRecord(0 .. Len(read'))
    BY <1>3, <2>1, NumbersGrow
  <2> QED BY <1>1, <2>1, <2>2
<1>5. RowsAccounted' /\ count' \in [Counters -> Nat]
  BY <1>1, <1>2, SeenAccounts, AddTyped
<1>6. failed' \in BOOLEAN
  BY <1>1
<1> QED BY <1>1, <1>2, <1>3, <1>4, <1>5, <1>6, RowStep

LEMMA RejectInv ==
  ASSUME IInv, NEW r \in Row, Reject(r)
  PROVE  IInv'
<1>1. PICK g \in Written(file[Rejects], RowNumber) :
        /\ file' = [file EXCEPT ![Rejects] = g]
        /\ IF g.broken THEN Abort ELSE Continue
  BY DEF Reject
<1>2. /\ phase = "rows" /\ ~Acceptable(r) /\ read' = Append(read, r)
      /\ Add(SeenCounters(r) \cup {"RejectedRows"})
      /\ reasons' = [reasons EXCEPT ![RejectCode(r)] = @ + 1]
  BY DEF Reject
<1>3. /\ read' \in Seq(Row)
      /\ file' \in [File -> FileRecord(0 .. Len(read'))]
      /\ \A h \in File : file'[h].state = "open"
  BY <1>1, <1>2, FileNames, WrittenRow
<1>4. ~failed /\ TypeOK /\ RowsAccounted /\ failed \in BOOLEAN
  BY <1>2 DEF IInv, NoErrorYet, TypeOK
<1>5. reasons' \in [Reason -> Nat]
  BY <1>2, <1>4, RejectCodeTells DEF TypeOK
<1>6. RowsAccounted' /\ count' \in [Counters -> Nat]
  BY <1>2, <1>4, RejectAccounts, AddTyped
<1>7. Continue \/ (Return /\ failed' = TRUE)
  BY <1>1 DEF Abort
<1>8. failed' = TRUE => failed' \in BOOLEAN
  OBVIOUS
<1> QED BY <1>2, <1>3, <1>5, <1>6, <1>7, <1>8, RowStep

\* Closing a file: without an error it is on disk.
LEMMA CloseFileInv ==
  ASSUME IInv, CloseFile
  PROVE  IInv'
<1>1. /\ phase = "closing" /\ next \in File /\ next' = next + 1
      /\ UNCHANGED <<phase, read, count, reasons>>
      /\ IF file[next].state = "open"
         THEN \E f \in Flushed(file[next]) : \E error \in CloseFails(f) :
                /\ file' = [file EXCEPT ![next] = Closed(f)]
                /\ failed' = (failed \/ error)
         ELSE UNCHANGED <<file, failed>>
  BY DEF CloseFile
<1>2. next \in 0 .. Partitions /\ next' \in 0 .. (Partitions + 1) /\ next \in Nat
  BY <1>1, FileNames
<1>3. \A f \in File : f \in Nat /\ (f < next' <=> f < next \/ f = next)
  BY <1>1, <1>2, FileNames
<1>4. \A f \in File :
        /\ f < next => file[f].state # "open"
        /\ ~failed => IF f < next THEN OnDisk(file[f]) ELSE file[f].state = "open"
  BY <1>1 DEF IInv, FilesFollow
<1>5. CASE file[next].state = "open"
  <2>1. PICK f \in Flushed(file[next]) : \E error \in CloseFails(f) :
          /\ file' = [file EXCEPT ![next] = Closed(f)]
          /\ failed' = (failed \/ error)
    BY <1>1, <1>5
  <2>2. PICK error \in CloseFails(f) :
          /\ file' = [file EXCEPT ![next] = Closed(f)]
          /\ failed' = (failed \/ error)
    BY <2>1
  <2>3. file[next] \in FileRecord(0 .. Len(read))
    BY <1>1, TypedFiles DEF IInv
  <2>4. /\ f \in FileRecord(0 .. Len(read))
        /\ ~f.broken => f.durable = Len(f.rows)
    BY <2>3, FlushedTyped
  <2>5. f.broken \in BOOLEAN
    BY <2>4 DEF FileRecord
  <2>6. error \in BOOLEAN /\ (f.broken => error)
    BY <2>5 DEF CloseFails
  <2>7. /\ Closed(f) \in FileRecord(0 .. Len(read)) /\ Closed(f).state = "closed"
        /\ ~f.broken => OnDisk(Closed(f))
    BY <2>4, ClosedTyped DEF OnDisk
  <2>8. /\ file' \in [File -> FileRecord(0 .. Len(read'))]
        /\ file'[next] = Closed(f)
        /\ \A h \in File \ {next} : file'[h] = file[h]
    BY <1>1, <2>2, <2>7, OneFile DEF IInv, TypeOK
  <2>9. TypeOK'
    <3>1. failed' \in BOOLEAN
      BY <2>2
    <3> QED BY <1>1, <1>2, <2>8, <3>1 DEF IInv, TypeOK, FileRecord
  <2>10. RowsAccounted'
    BY <1>1, <2>2, UncountedAccounts DEF IInv
  <2>11. FilesFollow'
    <3>1. \A h \in File : h < next' => file'[h].state # "open"
      BY <1>3, <1>4, <2>7, <2>8
    <3>2. \A h \in File :
            ~failed' => IF h < next' THEN OnDisk(file'[h]) ELSE file'[h].state = "open"
      BY <1>3, <1>4, <2>2, <2>6, <2>7, <2>8
    <3> QED BY <1>1, <3>1, <3>2 DEF FilesFollow
  <2> QED BY <1>1, <2>9, <2>10, <2>11 DEF IInv, NoErrorYet
<1>6. CASE file[next].state # "open"
  <2>1. file' = file /\ failed' = failed /\ failed
    BY <1>1, <1>2, <1>4, <1>6
  <2>2. TypeOK'
    BY <1>1, <1>2, <2>1 DEF IInv, TypeOK
  <2>3. RowsAccounted'
    BY <1>1, <2>1, UncountedAccounts DEF IInv
  <2>4. FilesFollow'
    BY <1>1, <1>3, <1>4, <1>6, <2>1 DEF FilesFollow
  <2> QED BY <1>1, <2>2, <2>3, <2>4 DEF IInv, NoErrorYet
<1> QED BY <1>5, <1>6

LEMMA FinishInv ==
  ASSUME IInv, Finish
  PROVE  IInv'
<1>1. /\ phase = "closing" /\ next \notin File /\ phase' = "returned"
      /\ UNCHANGED <<next, read, file, count, reasons, failed>>
  BY DEF Finish
<1>2. TypeOK'
  BY <1>1 DEF IInv, TypeOK
<1>3. RowsAccounted'
  BY <1>1, UncountedAccounts DEF IInv
<1>4. \A f \in File : f < next
  BY <1>1, FileNames DEF IInv, TypeOK
<1>5. FilesFollow'
  BY <1>1, <1>4 DEF IInv, FilesFollow
<1> QED BY <1>1, <1>2, <1>3, <1>5 DEF IInv, NoErrorYet

LEMMA StepInv ==
  ASSUME IInv, [Next]_vars
  PROVE  IInv'
<1>1. CASE OpenInput \/ CreatePartition \/ CreateRejects
  BY <1>1, OpenInputInv, CreatePartitionInv, CreateRejectsInv
<1>2. CASE EndOfInput \/ ReadError
  BY <1>2, EndOfInputInv, ReadErrorInv
<1>3. CASE \E r \in Row : Accept(r) \/ AbortStrict(r) \/ Reject(r)
  BY <1>3, AcceptInv, AbortStrictInv, RejectInv
<1>4. CASE CloseFile \/ Finish
  BY <1>4, CloseFileInv, FinishInv
<1>5. CASE UNCHANGED vars
  BY <1>5 DEF vars, IInv, TypeOK, NoErrorYet, RowsAccounted, Short, FilesFollow
<1> QED BY <1>1, <1>2, <1>3, <1>4, <1>5 DEF Next, Step

-----------------------------------------------------------------------------
(* Theorems.                                                               *)

\* Types, the order of creating and closing, and the sums, in every reachable
\* state of partitionCSV.
THEOREM Invariant == Spec => []IInv
<1>1. Init => IInv
  BY InitInv
<1>2. IInv /\ [Next]_vars => IInv'
  BY StepInv
<1> QED BY <1>1, <1>2, PTL DEF Spec

\* Types; a file records only rows that have been read.
THEOREM TypesHold == Spec => []TypeOK
<1>1. IInv => TypeOK
  BY DEF IInv
<1> QED BY <1>1, Invariant, PTL

\* The counters of PartitionResult add up, but for the row a failing ingestion
\* stopped at.
THEOREM RowsAreAccounted == Spec => []RowsAccounted
<1>1. IInv => RowsAccounted
  BY DEF IInv
<1> QED BY <1>1, Invariant, PTL

\* A nil error means that every partition and the rejects file are closed and
\* entirely on disk (closePartitions and the deferred calls).
THEOREM SuccessMeansDurable == Spec => []SuccessIsDurable
<1>1. IInv => SuccessIsDurable
  BY DEF IInv, FilesFollow, OnDisk, SuccessIsDurable, Succeeded
<1> QED BY <1>1, Invariant, PTL

\* No return leaves a file open, however far the call got.
THEOREM NothingStaysOpen == Spec => []NothingLeftOpen
<1>1. IInv => NothingLeftOpen
  BY DEF IInv, FilesFollow, NothingLeftOpen
<1> QED BY <1>1, Invariant, PTL

-----------------------------------------------------------------------------
(* The result of a success describes its files.  What the property says of *)
(* the end holds from the first row on, as long as nothing has failed.     *)

Described ==
  /\ \A p \in Partition : Lists(file[p].rows, RowsOf(p))
  /\ Lists(file[Rejects].rows, {0} \cup OtherRows)
  /\ \A c \in Reason : reasons[c] = Cardinality(RejectedBecause(c))
  /\ strict => count["RejectedRows"] = 0

Opening == phase \in {"input", "create"}

Listing ==
  /\ Opening => /\ read = <<>> /\ count["RejectedRows"] = 0
                /\ \A p \in Partition : file[p].rows = <<>>
                /\ \A c \in Reason : reasons[c] = 0
  /\ ~Opening /\ ~failed => Described

\* A write that does not fail appends its row; a flush changes no rows.
LEMMA WrittenRows ==
  ASSUME NEW S, NEW f \in FileRecord(S), NEW row \in S, NEW g \in Written(f, row),
         ~g.broken
  PROVE  g.rows = Append(f.rows, row)
<1>1. ~f.broken
  BY DEF Written
<1>2. g \notin DrainFails(f)
  BY DrainFailsTyped
<1>3. g = WithRow(f, row) \/ g = WithRow(Drained(f), row)
  BY <1>1, <1>2 DEF Written
<1> QED BY <1>3 DEF WithRow, Drained, FileOf

LEMMA FlushedRows ==
  ASSUME NEW f, NEW g \in Flushed(f)
  PROVE  Closed(g).rows = f.rows
<1>1. CASE g = f
  BY <1>1 DEF Closed, FileOf
<1>2. CASE g = Drained(f)
  BY <1>2 DEF Closed, Drained, FileOf
<1>3. CASE g \in DrainFails(f)
  <2>1. PICK d : g = FileOf(f.state, f.rows, d, TRUE)
    BY <1>3 DEF DrainFails
  <2> QED BY <2>1 DEF Closed, FileOf
<1> QED BY <1>1, <1>2, <1>3 DEF Flushed

\* A list goes on with a number above all of it.
LEMMA ListsAppend ==
  ASSUME NEW m \in Nat, NEW rows \in Seq(0 .. m), NEW set, Lists(rows, set)
  PROVE  Lists(Append(rows, m + 1), set \cup {m + 1})
<1>1. PICK longer \in Seq(0 .. m + 1) :
        /\ longer = Append(rows, m + 1) /\ Len(longer) = Len(rows) + 1
        /\ \A i \in 1 .. Len(rows) : longer[i] = rows[i]
        /\ longer[Len(rows) + 1] = m + 1
  <2>1. rows \in Seq(0 .. m + 1)
    <3>1. 0 .. m \subseteq 0 .. m + 1
      OBVIOUS
    <3> QED BY <3>1
  <2>2. /\ Append(rows, m + 1) \in Seq(0 .. m + 1)
        /\ Len(Append(rows, m + 1)) = Len(rows) + 1
        /\ \A i \in 1 .. Len(rows) : Append(rows, m + 1)[i] = rows[i]
        /\ Append(rows, m + 1)[Len(rows) + 1] = m + 1
    BY <2>1, AppendProperties
  <2> QED BY <2>2, Zenon
<1>2. /\ Len(rows) \in Nat /\ DOMAIN rows = 1 .. Len(rows)
      /\ DOMAIN longer = 1 .. Len(rows) + 1
      /\ \A i \in 1 .. Len(rows) : rows[i] \in 0 .. m
  BY <1>1
<1>3. {longer[i] : i \in DOMAIN longer} = set \cup {m + 1}
  BY <1>1, <1>2 DEF Lists
<1>4. ASSUME NEW i \in DOMAIN longer, NEW j \in DOMAIN longer, i < j
      PROVE  longer[i] < longer[j]
  <2>1. i \in 1 .. Len(rows)
    BY <1>2, <1>4
  <2>2. CASE j \in 1 .. Len(rows)
    BY <1>1, <1>2, <1>4, <2>1, <2>2 DEF Lists
  <2>3. CASE j = Len(rows) + 1
    BY <1>1, <1>2, <2>1, <2>3
  <2> QED BY <1>2, <2>2, <2>3
<1>5. Lists(longer, set \cup {m + 1})
  BY <1>3, <1>4 DEF Lists
<1> QED BY <1>1, <1>5

\* A row read belongs to one of the lists.
LEMMA RowRead ==
  ASSUME read \in Seq(Row), NEW r \in Row, read' = Append(read, r)
  PROVE  /\ Len(read) \in Nat /\ Len(read') = RowNumber
         /\ RowNumber = Len(read) + 1
         /\ \A n \in 1 .. Len(read) : read'[n] = read[n]
         /\ \A p \in Partition :
              RowsOf(p)' = IF Acceptable(r) /\ PartitionIndex(r.entity) = p
                           THEN RowsOf(p) \cup {Len(read) + 1} ELSE RowsOf(p)
         /\ OtherRows' = IF Acceptable(r) THEN OtherRows
                         ELSE OtherRows \cup {Len(read) + 1}
<1>1. /\ Len(read) \in Nat /\ Len(read') = Len(read) + 1
      /\ \A n \in 1 .. Len(read) : read'[n] = read[n]
      /\ read'[Len(read) + 1] = r
  BY AppendProperties, LenProperties
<1>2. \A n : n \in 1 .. Len(read') <=> n \in 1 .. Len(read) \/ n = Len(read) + 1
  BY <1>1
<1>3. \A p \in Partition :
        RowsOf(p)' = IF Acceptable(r) /\ PartitionIndex(r.entity) = p
                     THEN RowsOf(p) \cup {Len(read) + 1} ELSE RowsOf(p)
  BY <1>1, <1>2 DEF RowsOf, Acceptable
<1>4. OtherRows' = IF Acceptable(r) THEN OtherRows
                   ELSE OtherRows \cup {Len(read) + 1}
  BY <1>1, <1>2 DEF OtherRows, Acceptable
<1> QED BY <1>1, <1>3, <1>4 DEF RowNumber

-----------------------------------------------------------------------------
(* Every step keeps the lists.                                             *)

\* A step that fails, or that leaves rows and counters as they are.
LEMMA ListingStands ==
  ASSUME Listing, UNCHANGED <<read, count, reasons, strict>>,
         \A f \in File : file'[f].rows = file[f].rows,
         Opening' => Opening, ~Opening' /\ ~failed' => ~Opening /\ ~failed
  PROVE  Listing'
<1>1. \A p \in Partition : file'[p].rows = file[p].rows
  BY FileNames
<1>2. file'[Rejects].rows = file[Rejects].rows
  BY FileNames
<1>3. Described => Described'
  BY <1>1, <1>2 DEF Described, RowsOf, OtherRows, RejectedBecause
<1> QED BY <1>1, <1>3 DEF Listing

\* The files are created empty, and the first row finds them so.
LEMMA CreateListing ==
  ASSUME IInv, Listing, CreatePartition \/ CreateRejects, strict' = strict
  PROVE  Listing'
<1>1. Opening /\ ~failed /\ UNCHANGED <<read, count, reasons>>
  BY DEF CreatePartition, CreateRejects, Opening, IInv, NoErrorYet
<1>2. /\ read = <<>> /\ count["RejectedRows"] = 0
      /\ \A p \in Partition : file[p].rows = <<>>
      /\ \A c \in Reason : reasons[c] = 0
  BY <1>1 DEF Listing
<1>3. file \in [File -> FileRecord(0 .. Len(read))]
  BY TypedFiles DEF IInv
<1>4. CASE CreatePartition
  <2>1. CASE failed'
    BY <1>1, <1>4, <2>1 DEF CreatePartition, Listing, Opening
  <2>2. CASE ~failed'
    <3>1. file' = [file EXCEPT ![next] = NewFile] /\ phase' = phase
      BY <1>4, <2>2 DEF CreatePartition
    <3>2. NewFile.rows = <<>>
      BY DEF NewFile, FileOf
    <3>3. \A p \in Partition : file'[p].rows = <<>>
      BY <1>2, <1>3, <3>1, <3>2, FileNames
    <3> QED BY <1>1, <1>2, <3>1, <3>3 DEF Listing, Opening
  <2> QED BY <2>1, <2>2
<1>5. CASE CreateRejects
  <2>1. CASE failed'
    BY <1>5, <2>1 DEF CreateRejects, Listing, Opening
  <2>2. CASE ~failed'
    <3>1. PICK f \in Written(NewFile, 0) :
            file' = [file EXCEPT ![Rejects] = f] /\ ~f.broken
      BY <1>5, <2>2 DEF CreateRejects
    <3>2. f.rows = Append(NewFile.rows, 0)
      <4>1. NewFile \in FileRecord({0}) /\ 0 \in {0}
        BY EmptyFiles
      <4> QED BY <3>1, <4>1, WrittenRows
    <3>3. Append(NewFile.rows, 0) = <<0>>
      BY DEF NewFile, FileOf
    <3>4. /\ file'[Rejects].rows = <<0>>
          /\ \A p \in Partition : file'[p].rows = <<>>
      BY <1>2, <1>3, <3>1, <3>2, <3>3, FileNames
    <3>5. (\A p \in Partition : RowsOf(p)' = {}) /\ OtherRows' = {}
      BY <1>1, <1>2 DEF RowsOf, OtherRows
    <3>6. Lists(<<>>, {}) /\ Lists(<<0>>, {0})
      BY DEF Lists
    <3>7. ASSUME NEW c \in Reason
          PROVE  reasons'[c] = Cardinality(RejectedBecause(c)')
      <4>1. RejectedBecause(c)' = {}
        BY <3>4 DEF RejectedBecause
      <4> QED BY <1>1, <1>2, <4>1, FS_EmptySet
    <3>8. Described'
      <4>1. \A p \in Partition : Lists(file[p].rows, RowsOf(p))'
        BY <3>4, <3>5, <3>6
      <4>2. Lists(file[Rejects].rows, {0} \cup OtherRows)'
        <5>1. {0} \cup OtherRows' = {0}
          BY <3>5
        <5> QED BY <3>4, <3>6, <5>1
      <4> QED BY <1>1, <1>2, <3>7, <4>1, <4>2 DEF Described
    <3>9. ~Opening'
      BY <1>5, <2>2, <3>1 DEF CreateRejects, Opening
    <3> QED BY <3>8, <3>9 DEF Listing
  <2> QED BY <2>1, <2>2
<1> QED BY <1>4, <1>5

\* An acceptable row joins the list of its partition and no other.
LEMMA AcceptListing ==
  ASSUME IInv, Listing, NEW r \in Row, Accept(r), strict' = strict
  PROVE  Listing'
<1> DEFINE p == PartitionIndex(r.entity)
<1>1. PICK g \in Written(file[p], RowNumber) :
        /\ file' = [file EXCEPT ![p] = g]
        /\ IF g.broken
           THEN Abort /\ Add(SeenCounters(r))
           ELSE Continue /\ Add(SeenCounters(r) \cup AcceptedCounters(r))
  BY DEF Accept
<1>2. /\ phase = "rows" /\ Acceptable(r) /\ read' = Append(read, r)
      /\ reasons' = reasons /\ p \in Partition
  BY RowAssumption DEF Accept, Partition
<1> HIDE DEF p
<1>3. CASE g.broken
  <2>1. failed' /\ phase' = "closing"
    BY <1>1, <1>3 DEF Abort, Return
  <2> QED BY <2>1 DEF Listing, Opening
<1>4. CASE ~g.broken
  <2>1. Continue /\ Add(SeenCounters(r) \cup AcceptedCounters(r)) /\ ~failed
    BY <1>1, <1>2, <1>4 DEF IInv, NoErrorYet
  <2>2. Described /\ TypeOK /\ read \in Seq(Row)
    BY <1>2, <2>1 DEF Listing, Opening, IInv, TypeOK
  <2>3. /\ Len(read) \in Nat /\ RowNumber = Len(read) + 1
        /\ \A n \in 1 .. Len(read) : read'[n] = read[n]
        /\ \A q \in Partition :
             RowsOf(q)' = IF q = p THEN RowsOf(q) \cup {Len(read) + 1}
                          ELSE RowsOf(q)
        /\ OtherRows' = OtherRows
    BY <1>2, <2>2, RowRead DEF p
  <2>4. file \in [File -> FileRecord(0 .. Len(read))]
    BY <2>2, TypedFiles
  <2>5. g.rows = Append(file[p].rows, Len(read) + 1)
    <3>1. file[p] \in FileRecord(0 .. Len(read) + 1)
      BY <1>2, <2>3, <2>4, FileNames, NumbersGrow
    <3>2. Len(read) + 1 \in 0 .. Len(read) + 1
      BY <2>3
    <3> QED BY <1>4, <2>3, <3>1, <3>2, WrittenRows
  <2>6. /\ file'[p].rows = g.rows
        /\ \A f \in File \ {p} : file'[f].rows = file[f].rows
    BY <1>1, <1>2, <2>4, FileNames
  <2>7. ASSUME NEW q \in Partition PROVE Lists(file'[q].rows, RowsOf(q)')
    <3>1. Lists(file[q].rows, RowsOf(q)) /\ q \in File
      BY <2>2, FileNames DEF Described
    <3>2. CASE q = p
      <4>1. file[p].rows \in Seq(0 .. Len(read))
        BY <1>2, <2>4, FileNames, FileFields
      <4>2. Lists(Append(file[p].rows, Len(read) + 1),
                  RowsOf(p) \cup {Len(read) + 1})
        BY <2>3, <3>1, <3>2, <4>1, ListsAppend
      <4> QED BY <2>3, <2>5, <2>6, <3>2, <4>2
    <3>3. CASE q # p
      BY <2>3, <2>6, <3>1, <3>3
    <3> QED BY <3>2, <3>3
  <2>8. file'[Rejects].rows = file[Rejects].rows
    BY <1>2, <2>6, FileNames
  <2>9. \A c : RejectedBecause(c)' = RejectedBecause(c)
    <3>1. \A i \in 1 .. Len(file[Rejects].rows) :
            file[Rejects].rows[i] \in 0 .. Len(read)
      BY <2>4, FileNames, FileFields
    <3> QED BY <2>3, <2>8, <3>1 DEF RejectedBecause
  <2>10. count'["RejectedRows"] = count["RejectedRows"]
    <3>1. /\ "RejectedRows" \notin SeenCounters(r) \cup AcceptedCounters(r)
          /\ count["RejectedRows"] \in Nat
      BY <2>2, CountersAreNumbers DEF SeenCounters, AcceptedCounters
    <3> QED BY <2>1, <3>1 DEF Add, Counters
  <2>11. Lists(file[Rejects].rows, {0} \cup OtherRows)'
    BY <2>2, <2>3, <2>8 DEF Described
  <2>12. Described'
    BY <1>2, <2>2, <2>7, <2>9, <2>10, <2>11 DEF Described
  <2>13. ~Opening'
    BY <1>2, <2>1 DEF Continue, Opening
  <2> QED BY <2>12, <2>13 DEF Listing
<1> QED BY <1>3, <1>4

\* A row that is not acceptable joins the rejects file, under its code.
LEMMA RejectListing ==
  ASSUME IInv, Listing, NEW r \in Row, Reject(r), strict' = strict
  PROVE  Listing'
<1>1. PICK g \in Written(file[Rejects], RowNumber) :
        /\ file' = [file EXCEPT ![Rejects] = g]
        /\ IF g.broken THEN Abort ELSE Continue
  BY DEF Reject
<1>2. /\ phase = "rows" /\ ~Acceptable(r) /\ read' = Append(read, r) /\ ~strict
      /\ reasons' = [reasons EXCEPT ![RejectCode(r)] = @ + 1]
  BY DEF Reject
<1>3. CASE g.broken
  <2>1. failed' /\ phase' = "closing"
    BY <1>1, <1>3 DEF Abort, Return
  <2> QED BY <2>1 DEF Listing, Opening
<1>4. CASE ~g.broken
  <2>1. Continue /\ ~failed
    BY <1>1, <1>2, <1>4 DEF IInv, NoErrorYet
  <2>2. Described /\ TypeOK /\ read \in Seq(Row)
    BY <1>2, <2>1 DEF Listing, Opening, IInv, TypeOK
  <2>3. /\ Len(read) \in Nat /\ RowNumber = Len(read) + 1
        /\ \A n \in 1 .. Len(read) : read'[n] = read[n]
        /\ \A q \in Partition : RowsOf(q)' = RowsOf(q)
        /\ OtherRows' = OtherRows \cup {Len(read) + 1}
    BY <1>2, <2>2, RowRead
  <2>4. read'[Len(read) + 1] = r
    BY <1>2, <2>2, AppendProperties
  <2>5. file \in [File -> FileRecord(0 .. Len(read))]
    BY <2>2, TypedFiles
  <2>6. PICK rows \in Seq(0 .. Len(read)) : rows = file[Rejects].rows
    BY <2>5, FileNames, FileFields
  <2>7. g.rows = Append(rows, Len(read) + 1)
    <3>1. file[Rejects] \in FileRecord(0 .. Len(read) + 1)
      BY <2>3, <2>5, FileNames, NumbersGrow
    <3>2. Len(read) + 1 \in 0 .. Len(read) + 1
      BY <2>3
    <3> QED BY <1>4, <2>3, <2>6, <3>1, <3>2, WrittenRows
  <2>8. /\ file'[Rejects].rows = Append(rows, Len(read) + 1)
        /\ \A p \in Partition : file'[p].rows = file[p].rows
    BY <1>1, <2>5, <2>7, FileNames
  <2>9. \A p \in Partition : Lists(file[p].rows, RowsOf(p))'
    BY <2>2, <2>3, <2>8 DEF Described
  <2>10. Lists(file[Rejects].rows, {0} \cup OtherRows)'
    <3>1. Lists(Append(rows, Len(read) + 1),
                ({0} \cup OtherRows) \cup {Len(read) + 1})
      BY <2>2, <2>3, <2>6, ListsAppend DEF Described
    <3>2. ({0} \cup OtherRows) \cup {Len(read) + 1} = {0} \cup OtherRows'
      BY <2>3
    <3> QED BY <2>8, <3>1, <3>2
  <2>11. ASSUME NEW c \in Reason
         PROVE  reasons'[c] = Cardinality(RejectedBecause(c)')
    <3> DEFINE n == Len(rows) + 1
    <3>1. /\ Len(rows) \in Nat /\ \A i \in 1 .. Len(rows) : rows[i] \in 0 .. Len(read)
      OBVIOUS
    <3>2. PICK longer :
            /\ longer = file'[Rejects].rows /\ Len(longer) = n
            /\ \A i \in 1 .. Len(rows) : longer[i] = rows[i]
            /\ longer[n] = Len(read) + 1
      <4>1. rows \in Seq(0 .. Len(read) + 1) /\ Len(read) + 1 \in 0 .. Len(read) + 1
        <5>1. 0 .. Len(read) \subseteq 0 .. Len(read) + 1
          BY <2>3
        <5> QED BY <2>3, <5>1
      <4>2. /\ Len(Append(rows, Len(read) + 1)) = n
            /\ \A i \in 1 .. Len(rows) : Append(rows, Len(read) + 1)[i] = rows[i]
            /\ Append(rows, Len(read) + 1)[n] = Len(read) + 1
        BY <4>1, AppendProperties
      <4> HIDE DEF n
      <4> QED BY <2>8, <4>2, Zenon
    <3>3. RejectedBecause(c)'
            = IF RejectCode(r) = c THEN RejectedBecause(c) \cup {n}
              ELSE RejectedBecause(c)
      <4>1. \A i : i \in 1 .. n <=> i \in 1 .. Len(rows) \/ i = n
        BY <3>1
      <4>2. RejectedBecause(c)' =
              {i \in 1 .. n : longer[i] # 0 /\ RejectCode(read'[longer[i]]) = c}
        BY <3>2 DEF RejectedBecause
      <4>3. RejectedBecause(c) =
              {i \in 1 .. Len(rows) : rows[i] # 0 /\ RejectCode(read[rows[i]]) = c}
        BY <2>6 DEF RejectedBecause
      <4>4. \A i \in 1 .. Len(rows) :
              longer[i] # 0 => read'[longer[i]] = read[rows[i]]
        BY <2>3, <3>1, <3>2
      <4>5. longer[n] # 0 /\ read'[longer[n]] = r
        BY <2>3, <2>4, <3>2
      <4>6. \A i \in 1 .. Len(rows) :
              longer[i] # 0 /\ RejectCode(read'[longer[i]]) = c
                <=> rows[i] # 0 /\ RejectCode(read[rows[i]]) = c
        BY <3>2, <4>4
      <4>7. longer[n] # 0 /\ RejectCode(read'[longer[n]]) = c
              <=> RejectCode(r) = c
        BY <4>5
      <4> HIDE DEF n
      <4> QED BY <4>1, <4>2, <4>3, <4>6, <4>7
    <3>4. IsFiniteSet(RejectedBecause(c)) /\ n \notin RejectedBecause(c)
      <4>1. RejectedBecause(c) \subseteq 1 .. Len(rows)
        BY <2>6 DEF RejectedBecause
      <4>2. IsFiniteSet(1 .. Len(rows))
        BY <3>1, FS_Interval
      <4>3. n \notin 1 .. Len(rows)
        BY <3>1
      <4> QED BY <4>1, <4>2, <4>3, FS_Subset
    <3>5. reasons[c] = Cardinality(RejectedBecause(c)) /\ reasons[c] \in Nat
      BY <2>2 DEF Described, TypeOK
    <3>6. reasons'[c] = IF RejectCode(r) = c THEN reasons[c] + 1 ELSE reasons[c]
      BY <1>2, <2>2 DEF TypeOK
    <3>7. Cardinality(RejectedBecause(c) \cup {n})
            = Cardinality(RejectedBecause(c)) + 1
      BY <3>4, FS_AddElement
    <3> HIDE DEF n
    <3> QED BY <3>3, <3>5, <3>6, <3>7
  <2>12. Described'
    BY <1>2, <2>9, <2>10, <2>11 DEF Described
  <2>13. ~Opening'
    BY <1>2, <2>1 DEF Continue, Opening
  <2> QED BY <2>12, <2>13 DEF Listing
<1> QED BY <1>3, <1>4

LEMMA StepListing ==
  ASSUME IInv, Listing, [Next]_vars
  PROVE  Listing'
<1>1. CASE UNCHANGED vars
  BY <1>1, ListingStands DEF vars, Opening
<1> SUFFICES ASSUME Step, strict' = strict PROVE Listing'
  BY <1>1 DEF Next
<1>2. CASE OpenInput
  BY <1>2, ListingStands DEF OpenInput, Opening
<1>3. CASE CreatePartition \/ CreateRejects
  BY <1>3, CreateListing
<1>4. CASE EndOfInput
  BY <1>4, ListingStands DEF EndOfInput, Return, Opening
<1>5. ASSUME ReadError \/ \E r \in Row : AbortStrict(r) PROVE Listing'
  <2>1. failed' /\ phase' = "closing"
    BY <1>5 DEF ReadError, AbortStrict, Abort, Return
  <2> QED BY <2>1 DEF Listing, Opening
<1>6. ASSUME NEW r \in Row, Accept(r) \/ Reject(r) PROVE Listing'
  BY <1>6, AcceptListing, RejectListing
<1>7. CASE CloseFile
  <2>1. /\ next \in File /\ phase = "closing" /\ phase' = phase
        /\ UNCHANGED <<read, count, reasons>> /\ (failed => failed')
    BY <1>7 DEF CloseFile
  <2>2. \A f \in File : file'[f].rows = file[f].rows
    <3>1. CASE file[next].state = "open"
      <4>1. PICK g \in Flushed(file[next]) : file' = [file EXCEPT ![next] = Closed(g)]
        BY <1>7, <3>1 DEF CloseFile
      <4>2. Closed(g).rows = file[next].rows
        BY FlushedRows
      <4> QED BY <2>1, <4>1, <4>2 DEF IInv, TypeOK
    <3>2. CASE file[next].state # "open"
      BY <1>7, <3>2 DEF CloseFile
    <3> QED BY <3>1, <3>2
  <2> QED BY <2>1, <2>2, ListingStands DEF Opening
<1>8. CASE Finish
  BY <1>8, ListingStands DEF Finish, Opening
<1> QED BY <1>2, <1>3, <1>4, <1>5, <1>6, <1>7, <1>8 DEF Step

\* An ingestion that reports success has listed every row it read, once and in
\* the order of the input, in the partition of its entity or in the rejects
\* file, and its reject counters are the codes recorded there.
THEOREM ResultsDescribeFiles == Spec => []ResultDescribesFiles
<1>1. Init => Listing
  <2> SUFFICES ASSUME Init PROVE Listing
    OBVIOUS
  <2>1. \A f \in File : file[f].rows = <<>>
    BY DEF Init, NoFile, FileOf
  <2>2. phase = "input" /\ read = <<>> /\ count["RejectedRows"] = 0
          /\ \A c \in Reason : reasons[c] = 0
    BY DEF Init, Counters
  <2> QED BY <2>1, <2>2, FileNames DEF Listing, Opening
<1>2. IInv /\ Listing /\ [Next]_vars => Listing'
  BY StepListing
<1>3. Listing => ResultDescribesFiles
  BY DEF Listing, Opening, Described, ResultDescribesFiles, Succeeded
<1> QED BY <1>1, <1>2, <1>3, Invariant, PTL DEF Spec
===============================================================================
