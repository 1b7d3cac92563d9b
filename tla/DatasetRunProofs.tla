--------------------------- MODULE DatasetRunProofs ---------------------------
(***************************************************************************)
(* What a reader finds in an output directory, for any number of runs,     *)
(* any options, and failures and crashes anywhere.                         *)
(*                                                                         *)
(* The invariant says what is on disk at each point of a run in progress,  *)
(* and what a complete manifest vouches for at any time: Certified says    *)
(* also that nothing unlisted lies beside it, which is what makes the      *)
(* readers safe that look for tables without asking the manifest.          *)
(***************************************************************************)
EXTENDS DatasetRun, SequenceTheorems, TLAPS

\* The artifacts the writers of this run create and close.
Outputs ==
  {"canonical", "observations", "entities"}
    \cup (IF run.full THEN {"tracks"} ELSE {})

\* No artifact is newer than the last run, and a run that may still leave the
\* directory as it was, or is removing what it held, has put nothing in it.
Dated ==
  /\ \A a \in Artifact : disk[a].run <= run.id
  /\ Running => run.id > 0
  /\ In("ingest") \/ In("remove") => \A a \in Artifact : disk[a].run < run.id
  /\ In("ingest") /\ ~run.replace => \A a \in Artifact : disk[a] = Absent

Removing ==
  In("remove") => \A j \in 1 .. run.step - 1 : disk[RemovalOrder[j]] = Absent

Copying ==
  In("rejects") =>
    /\ \A a \in Artifact \ {"rejects"} : disk[a] = Absent
    /\ disk["rejects"] \in {Absent, Partial(run.id)}

Opening ==
  In("open") =>
    /\ run.step \in 1 .. Len(CreationOrder) + 1
    /\ disk["rejects"] = Whole(run.id)
    /\ \A j \in 1 .. run.step - 1 : disk[CreationOrder[j]] = Partial(run.id)
    /\ \A a \in (Artifact \ Outputs) \ {"rejects"} : disk[a] = Absent

Storing ==
  In("write") =>
    /\ disk["rejects"] = Whole(run.id)
    /\ \A a \in Outputs : disk[a] = Partial(run.id)
    /\ ~run.full => disk["tracks"] = Absent
    /\ ~run.traced => disk["traces"] = Absent
    /\ disk["manifest"] = Absent

Closing ==
  In("close") =>
    /\ run.step \in 1 .. Len(CloseOrder) + 1
    /\ ~run.closeError =>
         \A j \in 1 .. run.step - 1 : disk[CloseOrder[j]] = Whole(run.id)
    /\ disk["rejects"] = Whole(run.id)
    /\ ~run.full => disk["tracks"] = Absent
    /\ disk["traces"] = IF run.traced THEN Whole(run.id) ELSE Absent
    /\ disk["manifest"] = Absent

Complete ==
  In("storage") \/ In("manifest") =>
    /\ \A a \in Artifact \ {"manifest"} :
         disk[a] = IF a \in Listed THEN Whole(run.id) ELSE Absent
    /\ disk["manifest"] \in {Absent, Partial(run.id)}

\* While a manifest is complete, everything beside it is what it lists, except
\* traces that a replacement has begun to remove.
Certified ==
  LET author == disk["manifest"].run IN
  disk["manifest"] = Whole(author) =>
    /\ {"entities", "observations"} \subseteq listed
    /\ "manifest" \notin listed
    /\ \A a \in Artifact \ {"manifest"} :
         \/ disk[a] = IF a \in listed THEN Whole(author) ELSE Absent
         \/ a = "traces" /\ a \in listed /\ author < run.id

Succeeded ==
  outcome = "ok" => ~Running /\ disk["manifest"] = Whole(run.id)

\* Until its ingestion is done, a run has added a workspace and nothing else.
Untouched ==
  /\ workspaces \subseteq 1 .. run.id
  /\ Running => (run.ingested <=> ~In("ingest"))
  /\ Running => outcome = "running"
  /\ ~run.ingested =>
       /\ disk = before.disk
       /\ before.subdirs \subseteq subdirs
       /\ subdirs \subseteq before.subdirs \cup TempParent(run)
       /\ run.profile # "diagnostics" => heapDir = before.heapDir
       /\ Running => workspaces \ {run.id} = before.workspaces
       /\ (outcome \in {"refused", "failed"} /\ ~run.keepTemp)
            => workspaces = before.workspaces

Steps == Removing /\ Copying /\ Opening /\ Storing /\ Closing /\ Complete

IInv == TypeOK /\ Dated /\ Steps /\ Certified /\ Succeeded /\ Untouched

-----------------------------------------------------------------------------
\* The orders in which files are created and closed, element by element.
LEMMA Orders ==
  /\ Tables \in Seq(Artifact)
  /\ Len(CreationOrder) = Len(Tables) + 1 /\ Len(CloseOrder) = Len(Tables) + 1
  /\ CreationOrder[1] = "canonical"
  /\ CloseOrder[Len(Tables) + 1] = "canonical"
  /\ \A j \in 1 .. Len(Tables) :
       CreationOrder[j + 1] = Tables[j] /\ CloseOrder[j] = Tables[j]
<1>1. Tables \in Seq(Artifact) /\ <<"canonical">> \in Seq(Artifact)
  <2>1. CASE run.full
    <3>1. Tables = <<"observations", "tracks", "entities">>
      BY <2>1 DEF Tables
    <3>. QED  BY <3>1 DEF Artifact
  <2>2. CASE ~run.full
    <3>1. Tables = <<"observations", "entities">>
      BY <2>2 DEF Tables
    <3>. QED  BY <3>1 DEF Artifact
  <2>. QED  BY <2>1, <2>2
<1>2. /\ Len(<<"canonical">>) = 1 /\ <<"canonical">>[1] = "canonical"
      /\ Len(Tables) \in Nat
  BY <1>1
<1>3. /\ Len(CreationOrder) = 1 + Len(Tables)
      /\ \A i \in 1 .. 1 + Len(Tables) :
           CreationOrder[i] = IF i <= 1 THEN <<"canonical">>[i] ELSE Tables[i - 1]
  BY <1>1, <1>2, ConcatProperties DEF CreationOrder
<1>4. /\ Len(CloseOrder) = Len(Tables) + 1
      /\ \A i \in 1 .. Len(Tables) + 1 :
           CloseOrder[i] = IF i <= Len(Tables) THEN Tables[i]
                           ELSE <<"canonical">>[i - Len(Tables)]
  BY <1>1, <1>2, ConcatProperties DEF CloseOrder
<1>. QED  BY <1>1, <1>2, <1>3, <1>4

\* The initial directory is empty and no run is in progress.
LEMMA Initially == Init => IInv
<1>. SUFFICES ASSUME Init PROVE IInv
  OBVIOUS
<1>. USE DEF Init, NoRun, In, Running
<1>1. TypeOK
  <2>1. disk \in [Artifact -> Content]
    BY DEF Content
  <2>2. run \in RunRecord /\ run.captured = 0 /\ run.phase = "idle"
    BY MaxRunsAssumption DEF RunRecord, Id, Phase
  <2>3. before \in [disk : [Artifact -> Content], subdirs : SUBSET Subdir,
                 workspaces : SUBSET Id, heapDir : BOOLEAN]
    BY <2>1 DEF Directory
  <2>4. /\ listed \in SUBSET Artifact /\ subdirs \in SUBSET Subdir
        /\ workspaces \in SUBSET Id /\ heapDir \in BOOLEAN
        /\ snapshots = 0 /\ outcome = "none"
    OBVIOUS
  <2>. QED  BY <2>1, <2>2, <2>3, <2>4 DEF TypeOK
<1>2. Dated
  BY DEF Dated, Absent
<1>3. Steps
  BY DEF Steps, Removing, Copying, Opening, Storing, Closing, Complete
<1>4. Certified
  <2>1. disk["manifest"] = Absent
    BY DEF Artifact
  <2>. QED  BY <2>1 DEF Certified, Absent, Whole
<1>5. Succeeded /\ Untouched
  BY SMTT(20) DEF Succeeded, Untouched, Directory
<1>. QED  BY <1>1, <1>2, <1>3, <1>4, <1>5 DEF IInv

\* What a disk holds after one artifact has changed.
LEMMA AfterPut ==
  ASSUME TypeOK, NEW a \in Artifact, NEW c \in Content, Put(a, c)
  PROVE  /\ disk' \in [Artifact -> Content]
         /\ disk'[a] = c
         /\ \A b \in Artifact : b # a => disk'[b] = disk[b]
  BY DEF TypeOK, Put

\* Nothing a run in progress puts on disk has another type.
LEMMA Contents ==
  ASSUME TypeOK, Running, run.id > 0
  PROVE  Absent \in Content /\ Partial(run.id) \in Content /\ Whole(run.id) \in Content
  BY DEF TypeOK, RunRecord, Content, Id

\* The contents of artifacts tell states and runs apart.
LEMMA Distinct ==
  \A i, j : /\ Absent # Partial(i) /\ Absent # Whole(i) /\ Partial(i) # Whole(j)
            /\ (Whole(i) = Whole(j) => i = j)
            /\ Whole(i).run = i /\ Partial(i).run = i /\ Absent.run = 0
            /\ Whole(i).state = "whole" /\ Partial(i).state = "partial"
            /\ Absent.state = "absent"
  BY DEF Absent, Partial, Whole

\* The runs that made what is on disk are numbers.
LEMMA Numbers ==
  ASSUME TypeOK
  PROVE  run.id \in Nat /\ \A a \in Artifact : disk[a].run \in Nat
  BY MaxRunsAssumption DEF TypeOK, RunRecord, Content, Id, Absent, Partial, Whole

\* The record of a run that has not begun.
LEMMA NoRunRecord ==
  /\ NoRun \in RunRecord
  /\ NoRun.captured = 0 /\ NoRun.phase = "idle" /\ NoRun.step = 1 /\ ~NoRun.ingested
  BY MaxRunsAssumption DEF NoRun, RunRecord, Id, Phase

\* A run that is refused leaves everything and is not in progress.
LEMMA RefuseKeeps ==
  ASSUME IInv, NEW o \in Options, Refuse(o)
  PROVE  IInv'
<1>. USE DEF IInv, Refuse
<1>1. TypeOK'
  <2>0. run.id + 1 \in Id
    BY MaxRunsAssumption DEF TypeOK, RunRecord, Id
  <2>1. run' \in RunRecord /\ run'.captured = 0 /\ run'.phase = "idle"
    BY <2>0, NoRunRecord DEF RunRecord
  <2>2. before' \in [disk : [Artifact -> Content], subdirs : SUBSET Subdir,
                     workspaces : SUBSET Id, heapDir : BOOLEAN]
    BY DEF TypeOK, RunRecord, Directory
  <2>. QED  BY <2>1, <2>2 DEF TypeOK
<1>2. Dated'
  BY NoRunRecord, Numbers
     DEF Dated, In, Running, TypeOK, RunRecord, Id, Content, Absent, Partial,
         Whole
<1>3. Steps'
  BY NoRunRecord
     DEF Steps, RunRecord, Removing, Copying, Opening, Storing, Closing,
         Complete, In
<1>4. Certified'
  BY NoRunRecord, Numbers DEF Certified, Artifact
<1>5. Succeeded' /\ Untouched'
  BY NoRunRecord, MaxRunsAssumption
     DEF Succeeded, Untouched, Running, Directory, TypeOK, RunRecord, Id
<1>. QED  BY <1>1, <1>2, <1>3, <1>4, <1>5

\* A run that begins takes the directory as it is and adds a workspace.
LEMMA BeginKeeps ==
  ASSUME IInv, NEW o \in Options, Begin(o)
  PROVE  IInv'
<1>. USE DEF IInv, Begin
<1>1. TypeOK'
  <2>0. run.id + 1 \in Id
    BY MaxRunsAssumption DEF TypeOK, RunRecord, Id
  <2>1. /\ run' \in RunRecord /\ run'.captured = 0 /\ run'.step = 1
        /\ run'.id \in Id
    BY <2>0, NoRunRecord, OptionsAssumption DEF RunRecord, Phase
  <2>2. before' \in [disk : [Artifact -> Content], subdirs : SUBSET Subdir,
                     workspaces : SUBSET Id, heapDir : BOOLEAN]
    BY DEF TypeOK, RunRecord, Directory
  <2>3. workspaces' \in SUBSET Id /\ heapDir' \in BOOLEAN
    BY NoRunRecord, MaxRunsAssumption, OptionsAssumption DEF TypeOK, RunRecord, Id
  <2>4. subdirs' \in SUBSET Subdir
    BY DEF TypeOK, Subdir, TempParent
  <2>. QED  BY <2>1, <2>2, <2>3, <2>4 DEF TypeOK
<1>2. Dated'
  BY NoRunRecord, MaxRunsAssumption, OptionsAssumption
     DEF Dated, In, Running, TypeOK, RunRecord, Id, Content, Absent, Partial,
         Whole, Empty
<1>3. Steps'
  BY NoRunRecord
     DEF Steps, RunRecord, Removing, Copying, Opening, Storing, Closing,
         Complete, In
<1>4. Certified'
  BY NoRunRecord, Numbers DEF Certified, Artifact
<1>5. Succeeded' /\ Untouched'
  <2>1. /\ run'.id = run.id + 1 /\ ~run'.ingested /\ In("ingest")'
        /\ run.id + 1 \notin workspaces
    BY NoRunRecord, MaxRunsAssumption DEF TypeOK, RunRecord, Id, Untouched, In
  <2>2. /\ workspaces' \ {run.id + 1} = workspaces
        /\ workspaces' \subseteq 1 .. run'.id
    BY <2>1, Numbers DEF Untouched
  <2>3. run'.profile # "diagnostics" => heapDir' = heapDir
    BY NoRunRecord, OptionsAssumption DEF TypeOK
  <2>4. subdirs' = subdirs \cup TempParent(run')
    BY NoRunRecord, OptionsAssumption DEF RunRecord, TempParent
  <2>. QED  BY <2>1, <2>2, <2>3, <2>4 DEF Succeeded, Untouched, Running, Directory, In
<1>. QED  BY <1>1, <1>2, <1>3, <1>4, <1>5

\* A run may fail or be killed anywhere: what is on disk stays as it is.
LEMMA StopKeeps ==
  ASSUME IInv, Fail \/ Crash
  PROVE  IInv'
<1>. USE DEF IInv, Fail, Crash, ReturnError
<1>1. TypeOK'
  BY DEF TypeOK, RunRecord, Running, DropWorkspace, Phase, heaps
<1>2. Dated'
  BY DEF Dated, In, Running, TypeOK, RunRecord
<1>3. Steps'
  BY
     DEF Steps, Removing, Copying, Opening, Storing, Closing, Complete, In,
         TypeOK, RunRecord
<1>4. Certified'
  BY DEF Certified, TypeOK, RunRecord
<1>5. Succeeded' /\ Untouched'
  BY DEF Succeeded, Untouched, Running, DropWorkspace, TypeOK, RunRecord, heaps,
         TempParent
<1>. QED  BY <1>1, <1>2, <1>3, <1>4, <1>5

\* A heap profile is none of the artifacts.
LEMMA CaptureKeeps ==
  ASSUME IInv, Capture
  PROVE  IInv'
<1>. USE DEF IInv, Capture
<1>1. TypeOK'
  BY DEF TypeOK, RunRecord, Due, Milestones, In
<1>2. Dated'
  BY DEF Dated, In, Running, TypeOK, RunRecord
<1>3. Steps'
  BY
     DEF Steps, Removing, Copying, Opening, Storing, Closing, Complete, In,
         TypeOK, RunRecord, Outputs, CreationOrder, CloseOrder, Tables, Listed
<1>4. Certified'
  BY DEF Certified, TypeOK, RunRecord
<1>5. Succeeded' /\ Untouched'
  BY DEF Succeeded, Untouched, Running, TypeOK, RunRecord, In, TempParent
<1>. QED  BY <1>1, <1>2, <1>3, <1>4, <1>5

\* Ingestion happens outside the artifacts.
LEMMA IngestKeeps ==
  ASSUME IInv, Ingest
  PROVE  IInv'
<1>. USE DEF IInv, Ingest
<1>1. TypeOK'
  BY DEF TypeOK, RunRecord, In, Phase, heaps
<1>2. Dated'
  BY DEF Dated, In, Running, TypeOK, RunRecord
<1>3. Steps'
  BY
     DEF Steps, Removing, Copying, Opening, Storing, Closing, Complete, In,
         TypeOK, RunRecord, Dated, Artifact
<1>4. Certified'
  BY DEF Certified, TypeOK, RunRecord
<1>5. Succeeded' /\ Untouched'
  BY DEF Succeeded, Untouched, Running, TypeOK, RunRecord, In, heaps
<1>. QED  BY <1>1, <1>2, <1>3, <1>4, <1>5

\* A run that moves to a phase and a step of it is otherwise what it was.
LEMMA Moves ==
  ASSUME run \in RunRecord, NEW p \in Phase, NEW k \in 1 .. 8,
         run' = [run EXCEPT !.phase = p, !.step = k]
  PROVE  /\ run' \in RunRecord
         /\ run'.phase = p /\ run'.step = k
         /\ run'.id = run.id /\ run'.ingested = run.ingested
         /\ run'.closeError = run.closeError /\ run'.full = run.full
         /\ run'.traced = run.traced /\ run'.replace = run.replace
         /\ run'.keepTemp = run.keepTemp /\ run'.tempDir = run.tempDir
         /\ run'.profile = run.profile /\ run'.captured = run.captured
<1>1. /\ run'.phase = p /\ run'.step = k
      /\ run'.id = run.id /\ run'.ingested = run.ingested
      /\ run'.closeError = run.closeError /\ run'.full = run.full
      /\ run'.traced = run.traced /\ run'.replace = run.replace
      /\ run'.keepTemp = run.keepTemp /\ run'.tempDir = run.tempDir
      /\ run'.profile = run.profile /\ run'.captured = run.captured
  BY DEF RunRecord
<1>2. run' \in RunRecord
  BY DEF RunRecord
<1>. QED  BY <1>1, <1>2

\* A run that goes to another phase starts at its first step.
LEMMA GoesTo ==
  ASSUME TypeOK, NEW p \in Phase, Goto(p)
  PROVE  /\ run' \in RunRecord
         /\ run'.phase = p /\ run'.step = 1
         /\ run'.id = run.id /\ run'.ingested = run.ingested
         /\ run'.closeError = run.closeError /\ run'.full = run.full
         /\ run'.traced = run.traced /\ run'.replace = run.replace
         /\ run'.keepTemp = run.keepTemp /\ run'.tempDir = run.tempDir
         /\ run'.profile = run.profile /\ run'.captured = run.captured
<1>1. /\ run \in RunRecord /\ 1 \in 1 .. 8
      /\ run' = [run EXCEPT !.phase = p, !.step = 1]
  BY DEF TypeOK, Goto
<1>. QED  BY <1>1, Moves

\* A run that takes the next step of its phase changes nothing else.
LEMMA NextStep ==
  ASSUME TypeOK, run.step < 8, run' = [run EXCEPT !.step = @ + 1]
  PROVE  /\ run' \in RunRecord
         /\ run'.phase = run.phase /\ run'.step = run.step + 1
         /\ run'.id = run.id /\ run'.ingested = run.ingested
         /\ run'.closeError = run.closeError /\ run'.full = run.full
         /\ run'.traced = run.traced /\ run'.replace = run.replace
         /\ run'.keepTemp = run.keepTemp /\ run'.tempDir = run.tempDir
         /\ run'.profile = run.profile /\ run'.captured = run.captured
<1>1. run \in RunRecord /\ run.step \in 1 .. 7
  BY DEF TypeOK, RunRecord
<1>2. run' \in RunRecord
  BY <1>1 DEF RunRecord
<1>3. /\ run'.phase = run.phase /\ run'.step = run.step + 1
      /\ run'.id = run.id /\ run'.ingested = run.ingested
      /\ run'.closeError = run.closeError /\ run'.full = run.full
      /\ run'.traced = run.traced /\ run'.replace = run.replace
      /\ run'.keepTemp = run.keepTemp /\ run'.tempDir = run.tempDir
      /\ run'.profile = run.profile /\ run'.captured = run.captured
  BY <1>1 DEF RunRecord
<1>. QED  BY <1>2, <1>3

\* One removal, or the end of the list.  What is removed first is the traces,
\* which a manifest of an earlier run may still list.
LEMMA RemoveStaleKeeps ==
  ASSUME IInv, RemoveStale
  PROVE  IInv'
<1>. USE DEF IInv, In, Running
<1>0. /\ In("remove") /\ run.id > 0 /\ run.step \in 1 .. 8 /\ run.id \in Id
      /\ UNCHANGED <<listed, subdirs, workspaces, outcome, before>>
      /\ Len(RemovalOrder) = 7 /\ RemovalOrder[1] = "traces"
      /\ RemovalOrder[2] = "manifest"
      /\ \A j \in 1 .. 7 : RemovalOrder[j] \in Artifact
  BY DEF RemoveStale, Dated, TypeOK, RunRecord, RemovalOrder, Artifact
<1>1. CASE run.step <= 7 /\ Put(RemovalOrder[run.step], Absent)
           /\ run' = [run EXCEPT !.step = @ + 1]
           /\ IF RemovalOrder[run.step] = "traces" THEN RemoveHeaps
                                                   ELSE UNCHANGED heaps
  <2>1. /\ disk' \in [Artifact -> Content]
        /\ disk'[RemovalOrder[run.step]] = Absent
        /\ \A b \in Artifact : b # RemovalOrder[run.step] => disk'[b] = disk[b]
    BY <1>0, <1>1, AfterPut, Contents
  <2>2. /\ heapDir' \in BOOLEAN /\ snapshots' \in 0 .. run.captured
    <3>1. CASE RemovalOrder[run.step] = "traces"
      <4>1. heapDir' = FALSE /\ snapshots' \in {0, snapshots}
        BY <1>1, <3>1 DEF RemoveHeaps
      <4>2. run.captured \in Nat /\ snapshots \in 0 .. run.captured
        BY DEF TypeOK, RunRecord
      <4>3. snapshots' \in 0 .. run.captured
        BY <4>1, <4>2
      <4>. QED  BY <4>1, <4>3
    <3>2. CASE RemovalOrder[run.step] # "traces"
      BY <1>1, <3>2 DEF heaps, TypeOK
    <3>. QED  BY <3>1, <3>2
  <2>3. /\ run' \in RunRecord /\ run'.step = run.step + 1 /\ run'.id = run.id
        /\ run'.phase = "remove" /\ run'.captured = run.captured
        /\ run'.ingested = run.ingested
    BY <1>0, <1>1, NextStep
  <2>4. TypeOK'
    BY <1>0, <2>1, <2>2, <2>3 DEF TypeOK
  <2>5. Dated'
    BY <1>0, <2>1, <2>3, Numbers, Distinct DEF Dated
  <2>6. Steps'
    BY <1>0, <1>1, <2>1, <2>3
       DEF Steps, Removing, Copying, Opening, Storing, Closing, Complete
  <2>7. Certified'
    BY <1>0, <1>1, <2>1, <2>3, Distinct DEF Certified, Dated, Steps, Removing, Artifact
  <2>8. Succeeded' /\ Untouched'
    BY <1>0, <2>3 DEF Succeeded, Untouched
  <2>. QED  BY <2>4, <2>5, <2>6, <2>7, <2>8
<1>2. CASE /\ run.step <= 7 /\ RemovalOrder[run.step] = "traces"
           /\ disk["traces"].state = "whole"
           /\ Put("traces", Partial(disk["traces"].run))
           /\ UNCHANGED <<run, heaps>>
  <2>0. run.step = 1
    BY <1>0, <1>2 DEF RemovalOrder
  <2>1. Partial(disk["traces"].run) \in Content
    BY <1>2, Distinct DEF TypeOK, Content, Artifact
  <2>2. /\ disk' \in [Artifact -> Content]
        /\ disk'["traces"] = Partial(disk["traces"].run)
        /\ \A b \in Artifact : b # "traces" => disk'[b] = disk[b]
    BY <1>0, <1>2, <2>1, AfterPut DEF Artifact
  <2>4. TypeOK'
    BY <1>0, <1>2, <2>2 DEF TypeOK, heaps
  <2>5. Dated'
    BY <1>0, <1>2, <2>2, Distinct DEF Dated, Artifact
  <2>6. Steps'
    BY <1>0, <1>2, <2>0, <2>2
       DEF Steps, Removing, Copying, Opening, Storing, Closing, Complete
  <2>7. Certified'
    BY <1>0, <1>2, <2>2, Distinct DEF Certified, Dated, Artifact
  <2>8. Succeeded' /\ Untouched'
    BY <1>0, <1>2 DEF Succeeded, Untouched
  <2>. QED  BY <2>4, <2>5, <2>6, <2>7, <2>8
<1>3. CASE run.step > 7 /\ Goto("rejects") /\ UNCHANGED <<disk, heaps>>
  <2>1. \A a \in Artifact : disk[a] = Absent
    <3>1. run.step = 8
      BY <1>0, <1>3
    <3>2. \A j \in 1 .. 7 : disk[RemovalOrder[j]] = Absent
      BY <1>0, <3>1 DEF Steps, Removing
    <3>3. \A a \in Artifact : \E j \in 1 .. 7 : a = RemovalOrder[j]
      BY DEF Artifact, RemovalOrder
    <3>. QED  BY <3>2, <3>3
  <2>3. /\ run' \in RunRecord /\ run'.step = 1 /\ run'.id = run.id
        /\ run'.phase = "rejects" /\ run'.captured = run.captured
        /\ run'.ingested = run.ingested
    BY <1>3, GoesTo DEF Phase
  <2>4. TypeOK'
    BY <1>0, <1>3, <2>3 DEF TypeOK, heaps
  <2>5. Dated'
    BY <1>0, <1>3, <2>3 DEF Dated
  <2>6. Steps'
    BY <1>3, <2>1, <2>3
       DEF Steps, Removing, Copying, Opening, Storing, Closing, Complete,
           Artifact
  <2>7. Certified'
    BY <1>0, <1>3, <2>1, <2>3, Distinct DEF Certified, Artifact
  <2>8. Succeeded' /\ Untouched'
    BY <1>0, <2>3 DEF Succeeded, Untouched
  <2>. QED  BY <2>4, <2>5, <2>6, <2>7, <2>8
<1>. QED  BY <1>0, <1>1, <1>2, <1>3 DEF RemoveStale

\* The rejects are the first artifact of a run.
LEMMA CopyRejectsKeeps ==
  ASSUME IInv, CopyRejects
  PROVE  IInv'
<1>. USE DEF IInv, In, Running
<1>0. /\ In("rejects") /\ run.id > 0 /\ run.id \in Id /\ "rejects" \in Artifact
      /\ UNCHANGED <<listed, subdirs, workspaces, outcome, before, heaps>>
  BY DEF CopyRejects, Dated, TypeOK, RunRecord, Artifact
<1>1. /\ disk' \in [Artifact -> Content]
      /\ \/ disk'["rejects"] = Partial(run.id) /\ UNCHANGED run
         \/ disk'["rejects"] = Whole(run.id) /\ Goto("open")
      /\ \A b \in Artifact : b # "rejects" => disk'[b] = disk[b]
  BY <1>0, AfterPut, Contents DEF CopyRejects
<1>2. /\ run' \in RunRecord /\ run'.id = run.id /\ run'.phase \in {"rejects", "open"}
      /\ run'.captured = run.captured /\ run'.ingested = run.ingested
      /\ run'.step = 1
  <2>1. CASE UNCHANGED run
    BY <1>0, <2>1 DEF TypeOK
  <2>2. CASE Goto("open")
    BY <2>2, GoesTo DEF Phase
  <2>. QED  BY <1>1, <2>1, <2>2
<1>3. /\ run'.phase = "rejects" => disk'["rejects"] = Partial(run.id)
      /\ run'.phase = "open" => disk'["rejects"] = Whole(run.id)
  BY <1>0, <1>1 DEF TypeOK, RunRecord, Goto
<1>4. TypeOK'
  BY <1>0, <1>1, <1>2 DEF TypeOK, heaps
<1>5. Dated'
  BY <1>0, <1>1, <1>2, Numbers, Distinct DEF Dated
<1>6. Steps'
  <2>1. Opening'
    BY <1>0, <1>1, <1>2, <1>3, Orders DEF Steps, Opening, Copying
  <2>. QED  BY <2>1, <1>0, <1>1, <1>2, <1>3
            DEF Steps, Removing, Copying, Storing, Closing, Complete
<1>7. Certified'
  BY <1>0, <1>1, Distinct DEF Certified, Steps, Copying, Artifact
<1>8. Succeeded' /\ Untouched'
  BY <1>0, <1>2 DEF Succeeded, Untouched
<1>. QED  BY <1>4, <1>5, <1>6, <1>7, <1>8

\* Every output is created once and closed once, in at most four steps.
LEMMA OrdersCover ==
  /\ Len(CreationOrder) = Len(CloseOrder)
  /\ Len(CreationOrder) \in 1 .. 4 /\ Len(CloseOrder) \in 1 .. 4
  /\ Outputs \subseteq Artifact
  /\ \A j \in 1 .. Len(CreationOrder) :
       CreationOrder[j] \in Outputs /\ CloseOrder[j] \in Outputs
  /\ \A a \in Outputs : \E j \in 1 .. Len(CreationOrder) : a = CreationOrder[j]
  /\ \A a \in Outputs : \E j \in 1 .. Len(CloseOrder) : a = CloseOrder[j]
<1>1. CASE run.full
  <2>1. /\ Len(Tables) = 3 /\ Tables[1] = "observations" /\ Tables[2] = "tracks"
        /\ Tables[3] = "entities"
    BY <1>1 DEF Tables
  <2>2. /\ Len(CreationOrder) = 4 /\ Len(CloseOrder) = 4
        /\ CreationOrder[1] = "canonical" /\ CreationOrder[2] = "observations"
        /\ CreationOrder[3] = "tracks" /\ CreationOrder[4] = "entities"
        /\ CloseOrder[1] = "observations" /\ CloseOrder[2] = "tracks"
        /\ CloseOrder[3] = "entities" /\ CloseOrder[4] = "canonical"
    BY <2>1, Orders
  <2>3. Outputs = {"canonical", "observations", "tracks", "entities"}
    BY <1>1 DEF Outputs
  <2>. QED  BY <2>2, <2>3 DEF Artifact
<1>2. CASE ~run.full
  <2>1. /\ Len(Tables) = 2 /\ Tables[1] = "observations" /\ Tables[2] = "entities"
    BY <1>2 DEF Tables
  <2>2. /\ Len(CreationOrder) = 3 /\ Len(CloseOrder) = 3
        /\ CreationOrder[1] = "canonical" /\ CreationOrder[2] = "observations"
        /\ CreationOrder[3] = "entities"
        /\ CloseOrder[1] = "observations" /\ CloseOrder[2] = "entities"
        /\ CloseOrder[3] = "canonical"
    BY <2>1, Orders
  <2>3. Outputs = {"canonical", "observations", "entities"}
    BY <1>2 DEF Outputs
  <2>. QED  BY <2>2, <2>3 DEF Artifact
<1>. QED  BY <1>1, <1>2

\* The directories are made once and stay.
LEMMA MakeDirectoriesKeeps ==
  ASSUME IInv, MakeDirectories
  PROVE  IInv'
<1>. USE DEF IInv, In, Running
<1>0. /\ In("open") /\ subdirs' = subdirs \cup {"dataset"}
      /\ UNCHANGED <<disk, listed, workspaces, run, outcome, before, heaps>>
  BY DEF MakeDirectories
<1>1. TypeOK'
  BY <1>0 DEF TypeOK, Subdir, heaps
<1>2. Dated' /\ Certified' /\ Succeeded'
  BY <1>0 DEF Dated, Certified, Succeeded
<1>3. Steps'
  BY <1>0 DEF Steps, Removing, Copying, Opening, Storing, Closing, Complete,
              Outputs, CreationOrder, Tables
<1>4. Untouched'
  BY <1>0 DEF Untouched
<1>. QED  BY <1>1, <1>2, <1>3, <1>4

\* Files are created one after the other, all of them before any entity.
LEMMA OpenWriterKeeps ==
  ASSUME IInv, OpenWriter
  PROVE  IInv'
<1>. USE DEF IInv, In, Running
<1>0. /\ In("open") /\ run.id > 0 /\ run.id \in Nat
      /\ Len(CreationOrder) \in 1 .. 4 /\ Outputs \subseteq Artifact
      /\ run.step \in 1 .. Len(CreationOrder) + 1 /\ run.step < 8
      /\ UNCHANGED <<listed, subdirs, workspaces, outcome, before, heaps>>
  <2>1. In("open") /\ UNCHANGED <<listed, subdirs, workspaces, outcome, before, heaps>>
    BY DEF OpenWriter
  <2>2. run.step \in 1 .. Len(CreationOrder) + 1
    BY <2>1 DEF Steps, Opening
  <2>3. Len(CreationOrder) \in 1 .. 4 /\ run.step < 8
    <3>1. Len(CreationOrder) \in 1 .. 4
      BY OrdersCover
    <3>2. \A n \in 1 .. 4 : \A k \in 1 .. n + 1 : k < 8
      OBVIOUS
    <3>. QED  BY <2>2, <3>1, <3>2
  <2>4. run.id > 0 /\ run.id \in Nat
    BY <2>1, Numbers DEF Dated
  <2>. QED  BY <2>1, <2>2, <2>3, <2>4, OrdersCover
<1>1. CASE /\ run.step <= Len(CreationOrder)
           /\ Put(CreationOrder[run.step], Partial(run.id))
           /\ run' = [run EXCEPT !.step = @ + 1]
  <2>1. CreationOrder[run.step] \in Outputs
    BY <1>0, <1>1, OrdersCover
  <2>2. /\ disk' \in [Artifact -> Content]
        /\ disk'[CreationOrder[run.step]] = Partial(run.id)
        /\ \A b \in Artifact : b # CreationOrder[run.step] => disk'[b] = disk[b]
    BY <1>0, <1>1, <2>1, AfterPut, Contents
  <2>3. /\ run' \in RunRecord /\ run'.step = run.step + 1 /\ run'.id = run.id
        /\ run'.phase = "open" /\ run'.captured = run.captured
        /\ run'.ingested = run.ingested /\ run'.full = run.full
    BY <1>0, <1>1, NextStep
  <2>4. CreationOrder' = CreationOrder /\ Outputs' = Outputs
    BY <2>3 DEF CreationOrder, Tables, Outputs
  <2>5. TypeOK'
    BY <1>0, <2>2, <2>3 DEF TypeOK, heaps
  <2>6. Dated'
    BY <1>0, <2>2, <2>3, Numbers, Distinct DEF Dated
  <2>7. Opening'
    <3>1. run'.step \in 1 .. Len(CreationOrder) + 1
      BY <1>0, <1>1, <2>3, OrdersCover
    <3>2. disk'["rejects"] = Whole(run.id)
      BY <1>0, <2>1, <2>2 DEF Steps, Opening, Outputs, Artifact
    <3>3. \A j \in 1 .. run'.step - 1 : disk'[CreationOrder[j]] = Partial(run.id)
      <4>. SUFFICES ASSUME NEW j \in 1 .. run'.step - 1
                    PROVE  disk'[CreationOrder[j]] = Partial(run.id)
        OBVIOUS
      <4>1. j \in 1 .. Len(CreationOrder) /\ CreationOrder[j] \in Artifact
        <5>1. j \in 1 .. Len(CreationOrder)
          BY <1>0, <1>1, <2>3
        <5>. QED  BY <5>1, <1>0, OrdersCover
      <4>2. CASE CreationOrder[j] = CreationOrder[run.step]
        BY <2>2, <4>2
      <4>3. CASE CreationOrder[j] # CreationOrder[run.step]
        <5>1. j # run.step
          BY <4>3
        <5>2. j \in 1 .. run.step - 1
          BY <1>0, <2>3, <5>1, OrdersCover
        <5>. QED  BY <1>0, <2>2, <4>1, <4>3, <5>2 DEF Steps, Opening
      <4>. QED  BY <4>2, <4>3
    <3>4. \A a \in (Artifact \ Outputs) \ {"rejects"} : disk'[a] = Absent
      BY <1>0, <2>1, <2>2 DEF Steps, Opening
    <3>. QED  BY <2>3, <2>4, <3>1, <3>2, <3>3, <3>4 DEF Opening
  <2>8. Steps'
    BY <2>3, <2>7 DEF Steps, Removing, Copying, Storing, Closing, Complete
  <2>9. Certified'
    BY <1>0, <2>1, <2>2, Distinct DEF Certified, Steps, Opening, Outputs, Artifact
  <2>10. Succeeded' /\ Untouched'
    BY <1>0, <2>3 DEF Succeeded, Untouched
  <2>. QED  BY <2>5, <2>6, <2>8, <2>9, <2>10
<1>2. CASE run.step > Len(CreationOrder) /\ Goto("write") /\ UNCHANGED disk
  <2>1. \A a \in Outputs : disk[a] = Partial(run.id)
    <3>1. run.step - 1 = Len(CreationOrder)
      BY <1>0, <1>2, OrdersCover
    <3>2. \A j \in 1 .. Len(CreationOrder) : disk[CreationOrder[j]] = Partial(run.id)
      BY <1>0, <3>1 DEF Steps, Opening
    <3>. QED  BY <3>2, OrdersCover
  <2>2. /\ run' \in RunRecord /\ run'.step = 1 /\ run'.id = run.id
        /\ run'.phase = "write" /\ run'.captured = run.captured
        /\ run'.ingested = run.ingested /\ run'.full = run.full
    BY <1>2, GoesTo DEF Phase
  <2>3. TypeOK'
    BY <1>0, <1>2, <2>2 DEF TypeOK, heaps
  <2>4. Dated'
    BY <1>0, <1>2, <2>2 DEF Dated
  <2>5. Storing'
    <3>1. Outputs' = Outputs
      BY <2>2 DEF Outputs
    <3>2. /\ disk["manifest"] = Absent /\ disk["traces"] = Absent
          /\ ~run.full => disk["tracks"] = Absent
          /\ disk["rejects"] = Whole(run.id)
      BY <1>0 DEF Steps, Opening, Outputs, Artifact
    <3>. QED  BY <1>2, <2>1, <2>2, <3>1, <3>2 DEF Storing
  <2>6. Steps'
    BY <2>2, <2>5 DEF Steps, Removing, Copying, Opening, Closing, Complete
  <2>7. Certified'
    BY <1>0, <1>2, <2>2 DEF Certified
  <2>8. Succeeded' /\ Untouched'
    BY <1>0, <2>2 DEF Succeeded, Untouched
  <2>. QED  BY <2>3, <2>4, <2>6, <2>7, <2>8
<1>. QED  BY <1>0, <1>1, <1>2, OrdersCover DEF OpenWriter

\* A trace is created, and whole once it is written.
LEMMA WriteTraceKeeps ==
  ASSUME IInv, WriteTrace
  PROVE  IInv'
<1>. USE DEF IInv, In, Running
<1>0. /\ In("write") /\ run.traced /\ run.id > 0 /\ "traces" \in Artifact \ Outputs
      /\ UNCHANGED <<listed, subdirs, workspaces, run, outcome, before, heaps>>
  BY DEF WriteTrace, Dated, Artifact, Outputs
<1>1. /\ disk' \in [Artifact -> Content]
      /\ disk'["traces"] \in {Partial(run.id), Whole(run.id)}
      /\ \A b \in Artifact : b # "traces" => disk'[b] = disk[b]
  BY <1>0, AfterPut, Contents DEF WriteTrace
<1>2. TypeOK'
  BY <1>0, <1>1 DEF TypeOK, heaps
<1>3. Dated'
  BY <1>0, <1>1, Numbers, Distinct DEF Dated
<1>4. Storing'
  <2>1. Outputs' = Outputs
    BY <1>0 DEF Outputs
  <2>. QED  BY <1>0, <1>1, <2>1, OrdersCover DEF Storing, Steps, Artifact
<1>5. Steps'
  BY <1>0, <1>4 DEF Steps, Removing, Copying, Opening, Closing, Complete
<1>6. Certified'
  BY <1>0, <1>1, Distinct DEF Certified, Steps, Storing, Artifact
<1>7. Succeeded' /\ Untouched'
  BY <1>0 DEF Succeeded, Untouched
<1>. QED  BY <1>2, <1>3, <1>5, <1>6, <1>7

\* When the entities are done, the trace is whole and every file is open.
LEMMA EntitiesDoneKeeps ==
  ASSUME IInv, EntitiesDone
  PROVE  IInv'
<1>. USE DEF IInv, In, Running
<1>0. /\ In("write")
      /\ run.traced => disk["traces"] = Whole(run.id)
      /\ UNCHANGED <<disk, listed, subdirs, workspaces, outcome, before, heaps>>
  BY DEF EntitiesDone
<1>1. /\ run' \in RunRecord /\ run'.step = 1 /\ run'.id = run.id
      /\ run'.phase = "close" /\ run'.captured = run.captured
      /\ run'.ingested = run.ingested /\ run'.full = run.full
      /\ run'.traced = run.traced
  BY GoesTo DEF EntitiesDone, Phase
<1>2. TypeOK'
  BY <1>0, <1>1 DEF TypeOK, heaps
<1>3. Dated'
  BY <1>0, <1>1 DEF Dated
<1>4. Closing'
  <2>1. CloseOrder' = CloseOrder
    BY <1>1 DEF CloseOrder, Tables
  <2>2. run'.step \in 1 .. Len(CloseOrder) + 1
    BY <1>1, OrdersCover
  <2>. QED  BY <1>0, <1>1, <2>1, <2>2 DEF Closing, Steps, Storing
<1>5. Steps'
  BY <1>1, <1>4 DEF Steps, Removing, Copying, Opening, Storing, Complete
<1>6. Certified'
  BY <1>0, <1>1 DEF Certified
<1>7. Succeeded' /\ Untouched'
  BY <1>0, <1>1 DEF Succeeded, Untouched
<1>. QED  BY <1>2, <1>3, <1>5, <1>6, <1>7

\* A sink is closed, whole or with an error that is remembered.
LEMMA CloseWriterKeeps ==
  ASSUME IInv, CloseWriter
  PROVE  IInv'
<1>. USE DEF IInv, In, Running
<1>0. /\ In("close") /\ run.step <= Len(CloseOrder)
      /\ UNCHANGED <<listed, subdirs, workspaces, outcome, before, heaps>>
  BY DEF CloseWriter
<1>1. /\ run.step \in 1 .. Len(CloseOrder) /\ run.step < 8
      /\ run.id > 0 /\ run.id \in Nat
      /\ CloseOrder[run.step] \in Outputs /\ Outputs \subseteq Artifact
  <2>1. run.step \in 1 .. Len(CloseOrder)
    BY <1>0, OrdersCover DEF Steps, Closing
  <2>2. run.step < 8
    <3>1. Len(CloseOrder) \in 1 .. 4
      BY OrdersCover
    <3>2. \A n \in 1 .. 4 : \A k \in 1 .. n : k < 8
      OBVIOUS
    <3>. QED  BY <2>1, <3>1, <3>2
  <2>3. run.id > 0 /\ run.id \in Nat
    BY <1>0, Numbers DEF Dated
  <2>. QED  BY <2>1, <2>2, <2>3, OrdersCover
<1>2. /\ disk' \in [Artifact -> Content]
      /\ \A b \in Artifact : b # CloseOrder[run.step] => disk'[b] = disk[b]
      /\ disk'[CloseOrder[run.step]] \in {Whole(run.id), disk[CloseOrder[run.step]]}
      /\ ~run'.closeError => disk'[CloseOrder[run.step]] = Whole(run.id)
  <2>1. CASE Put(CloseOrder[run.step], Whole(run.id))
    BY <1>0, <1>1, <2>1, AfterPut, Contents
  <2>2. CASE UNCHANGED disk /\ run' = [run EXCEPT !.step = @ + 1, !.closeError = TRUE]
    BY <2>2 DEF TypeOK, RunRecord
  <2>. QED  BY <2>1, <2>2 DEF CloseWriter
<1>3. /\ run' \in RunRecord /\ run'.step = run.step + 1 /\ run'.id = run.id
      /\ run'.phase = "close" /\ run'.captured = run.captured
      /\ run'.ingested = run.ingested /\ run'.full = run.full
      /\ run'.traced = run.traced /\ (~run'.closeError => ~run.closeError)
  <2>1. CASE run' = [run EXCEPT !.step = @ + 1]
    BY <1>0, <1>1, <2>1, NextStep
  <2>2. CASE run' = [run EXCEPT !.step = @ + 1, !.closeError = TRUE]
    <3>1. run \in RunRecord /\ run.step + 1 \in 1 .. 8
      BY <1>1 DEF TypeOK, RunRecord
    <3>2. run' = [run EXCEPT !.step = run.step + 1, !.closeError = TRUE]
      BY <2>2
    <3>3. run' \in RunRecord
      BY <3>1, <3>2 DEF RunRecord
    <3>. QED  BY <1>0, <3>1, <3>2, <3>3 DEF RunRecord
  <2>. QED  BY <2>1, <2>2 DEF CloseWriter
<1>4. TypeOK'
  BY <1>0, <1>2, <1>3 DEF TypeOK, heaps
<1>5. Dated'
  BY <1>0, <1>1, <1>2, <1>3, Numbers, Distinct DEF Dated
<1>6. Closing'
  <2>1. CloseOrder' = CloseOrder
    BY <1>3 DEF CloseOrder, Tables
  <2>2. run'.step \in 1 .. Len(CloseOrder) + 1
    BY <1>1, <1>3, OrdersCover
  <2>3. /\ disk'["rejects"] = disk["rejects"] /\ disk'["traces"] = disk["traces"]
        /\ disk'["manifest"] = disk["manifest"]
        /\ ~run.full => disk'["tracks"] = disk["tracks"]
    BY <1>1, <1>2 DEF Outputs, Artifact
  <2>4. ASSUME ~run'.closeError, NEW j \in 1 .. run'.step - 1
        PROVE  disk'[CloseOrder[j]] = Whole(run.id)
    <3>1. j \in 1 .. run.step /\ j \in 1 .. Len(CloseOrder)
      BY <1>1, <1>3
    <3>2. CloseOrder[j] \in Artifact
      BY <1>1, <3>1, OrdersCover
    <3>3. CASE CloseOrder[j] = CloseOrder[run.step]
      BY <1>2, <2>4, <3>3
    <3>4. CASE CloseOrder[j] # CloseOrder[run.step]
      <4>1. j \in 1 .. run.step - 1
        BY <1>1, <3>1, <3>4
      <4>. QED  BY <1>0, <1>2, <1>3, <2>4, <3>2, <3>4, <4>1 DEF Steps, Closing
    <3>. QED  BY <3>3, <3>4
  <2>. QED  BY <1>0, <1>3, <2>1, <2>2, <2>3, <2>4 DEF Closing, Steps
<1>7. Steps'
  BY <1>3, <1>6 DEF Steps, Removing, Copying, Opening, Storing, Complete
<1>8. Certified'
  BY <1>0, <1>1, <1>2, Distinct DEF Certified, Steps, Closing, Outputs, Artifact
<1>9. Succeeded' /\ Untouched'
  BY <1>0, <1>3 DEF Succeeded, Untouched
<1>. QED  BY <1>4, <1>5, <1>7, <1>8, <1>9

\* When all sinks have closed without error, all that will be listed is whole.
LEMMA WritersClosedKeeps ==
  ASSUME IInv, WritersClosed
  PROVE  IInv'
<1>. USE DEF IInv, In, Running
<1>0. /\ In("close") /\ run.step > Len(CloseOrder) /\ ~run.closeError
      /\ UNCHANGED <<disk, listed, subdirs, workspaces, outcome, before, heaps>>
  BY DEF WritersClosed
<1>1. /\ run' \in RunRecord /\ run'.step = 1 /\ run'.id = run.id
      /\ run'.phase = "storage" /\ run'.captured = run.captured
      /\ run'.ingested = run.ingested /\ run'.full = run.full
      /\ run'.traced = run.traced
  BY GoesTo DEF WritersClosed, Phase
<1>2. TypeOK'
  BY <1>0, <1>1 DEF TypeOK, heaps
<1>3. Dated'
  BY <1>0, <1>1 DEF Dated
<1>4. Complete'
  <2>1. Listed' = Listed
    BY <1>1 DEF Listed
  <2>2. /\ run.step \in 1 .. Len(CloseOrder) + 1
        /\ \A j \in 1 .. run.step - 1 : disk[CloseOrder[j]] = Whole(run.id)
    BY <1>0 DEF Steps, Closing
  <2>3. Len(CloseOrder) \in 1 .. 4
    BY OrdersCover
  <2>4. run.step - 1 = Len(CloseOrder)
    BY <1>0, <2>2, <2>3
  <2>5. \A a \in Outputs : disk[a] = Whole(run.id)
    BY <2>2, <2>4, OrdersCover
  <2>6. /\ disk["rejects"] = Whole(run.id) /\ disk["manifest"] = Absent
        /\ ~run.full => disk["tracks"] = Absent
        /\ disk["traces"] = IF run.traced THEN Whole(run.id) ELSE Absent
    BY <1>0 DEF Steps, Closing
  <2>7. \A a \in Artifact \ {"manifest"} :
          disk[a] = IF a \in Listed THEN Whole(run.id) ELSE Absent
    BY <2>5, <2>6 DEF Outputs, Listed, Artifact
  <2>. QED  BY <1>0, <1>1, <2>1, <2>6, <2>7 DEF Complete
<1>5. Steps'
  BY <1>1, <1>4 DEF Steps, Removing, Copying, Opening, Storing, Closing
<1>6. Certified'
  BY <1>0, <1>1 DEF Certified
<1>7. Succeeded' /\ Untouched'
  BY <1>0, <1>1 DEF Succeeded, Untouched
<1>. QED  BY <1>2, <1>3, <1>5, <1>6, <1>7

\* No file that is looked for is missing, and finding them changes none.
LEMMA CollectStorageKeeps ==
  ASSUME IInv, CollectStorage
  PROVE  IInv'
<1>. USE DEF IInv, In, Running
<1>0. /\ In("storage") /\ Goto("manifest")
      /\ UNCHANGED <<disk, listed, subdirs, workspaces, outcome, before, heaps>>
  <2>1. In("storage") /\ UNCHANGED <<disk, listed, subdirs, before, heaps>>
    BY DEF CollectStorage
  <2>2. \A a \in Listed : disk[a] # Absent
    <3>1. Listed \subseteq Artifact \ {"manifest"}
      BY DEF Listed, Artifact
    <3>. QED  BY <2>1, <3>1, Distinct DEF Steps, Complete
  <2>. QED  BY <2>1, <2>2 DEF CollectStorage
<1>1. /\ run' \in RunRecord /\ run'.step = 1 /\ run'.id = run.id
      /\ run'.phase = "manifest" /\ run'.captured = run.captured
      /\ run'.ingested = run.ingested /\ run'.full = run.full
      /\ run'.traced = run.traced
  BY <1>0, GoesTo DEF Phase
<1>2. TypeOK'
  BY <1>0, <1>1 DEF TypeOK, heaps
<1>3. Dated'
  BY <1>0, <1>1 DEF Dated
<1>4. Complete'
  <2>1. Listed' = Listed
    BY <1>1 DEF Listed
  <2>. QED  BY <1>0, <1>1, <2>1 DEF Complete, Steps
<1>5. Steps'
  BY <1>1, <1>4 DEF Steps, Removing, Copying, Opening, Storing, Closing
<1>6. Certified'
  BY <1>0, <1>1 DEF Certified
<1>7. Succeeded' /\ Untouched'
  BY <1>0, <1>1 DEF Succeeded, Untouched
<1>. QED  BY <1>2, <1>3, <1>5, <1>6, <1>7

\* A manifest in the making vouches for nothing.
LEMMA CreateManifestKeeps ==
  ASSUME IInv, CreateManifest
  PROVE  IInv'
<1>. USE DEF IInv, In, Running
<1>0. /\ In("manifest") /\ run.id > 0 /\ run.id \in Nat /\ "manifest" \in Artifact
      /\ UNCHANGED <<listed, subdirs, workspaces, run, outcome, before, heaps>>
  BY Numbers DEF CreateManifest, Dated, Artifact
<1>1. /\ disk' \in [Artifact -> Content]
      /\ disk'["manifest"] = Partial(run.id)
      /\ \A b \in Artifact : b # "manifest" => disk'[b] = disk[b]
  BY <1>0, AfterPut, Contents DEF CreateManifest
<1>2. TypeOK'
  BY <1>0, <1>1 DEF TypeOK, heaps
<1>3. Dated'
  BY <1>0, <1>1, Numbers, Distinct DEF Dated
<1>4. Complete'
  <2>1. Listed' = Listed
    BY <1>0 DEF Listed
  <2>. QED  BY <1>0, <1>1, <2>1 DEF Complete, Steps
<1>5. Steps'
  BY <1>0, <1>4 DEF Steps, Removing, Copying, Opening, Storing, Closing
<1>6. Certified'
  BY <1>1, Distinct DEF Certified
<1>7. Succeeded' /\ Untouched'
  BY <1>0 DEF Succeeded, Untouched
<1>. QED  BY <1>2, <1>3, <1>5, <1>6, <1>7

\* A manifest is complete when everything it lists is, and nothing else is
\* there.
LEMMA EncodeManifestKeeps ==
  ASSUME IInv, EncodeManifest
  PROVE  IInv'
<1>. USE DEF IInv, In, Running
<1>0. /\ In("manifest") /\ run.id > 0 /\ run.id \in Nat /\ "manifest" \in Artifact
      /\ listed' = Listed /\ outcome' = "ok" /\ DropWorkspace
      /\ run' = [run EXCEPT !.phase = "idle"]
      /\ UNCHANGED <<subdirs, before, heaps>>
  BY Numbers DEF EncodeManifest, Dated, Artifact
<1>1. /\ disk' \in [Artifact -> Content]
      /\ disk'["manifest"] = Whole(run.id)
      /\ \A b \in Artifact : b # "manifest" => disk'[b] = disk[b]
  BY <1>0, AfterPut, Contents DEF EncodeManifest
<1>2. /\ run' \in RunRecord /\ run'.id = run.id /\ run'.phase = "idle"
      /\ run'.captured = run.captured /\ run'.ingested = run.ingested
  BY <1>0 DEF TypeOK, RunRecord, Phase
<1>3. Listed \subseteq Artifact \ {"manifest"} /\ {"entities", "observations"} \subseteq Listed
  BY DEF Listed, Artifact
<1>4. TypeOK'
  BY <1>0, <1>1, <1>2, <1>3 DEF TypeOK, heaps, DropWorkspace
<1>5. Dated'
  BY <1>0, <1>1, <1>2, Numbers, Distinct DEF Dated
<1>6. Steps'
  BY <1>2 DEF Steps, Removing, Copying, Opening, Storing, Closing, Complete
<1>7. Certified'
  <2>1. disk'["manifest"].run = run.id
    BY <1>1, Distinct
  <2>2. \A a \in Artifact \ {"manifest"} :
          disk'[a] = IF a \in Listed THEN Whole(run.id) ELSE Absent
    BY <1>0, <1>1 DEF Steps, Complete
  <2>. QED  BY <1>0, <1>3, <2>1, <2>2 DEF Certified
<1>8. Succeeded' /\ Untouched'
  BY <1>0, <1>1, <1>2 DEF Succeeded, Untouched, DropWorkspace
<1>. QED  BY <1>4, <1>5, <1>6, <1>7, <1>8

\* Every step keeps the invariant.
LEMMA StepKeeps ==
  ASSUME IInv, [Next]_vars
  PROVE  IInv'
<1>1. ASSUME NEW o \in Options, Refuse(o) \/ Begin(o)
      PROVE  IInv'
  BY <1>1, RefuseKeeps, BeginKeeps
<1>2. CASE Progress
  <2>1. ReturnCloseError \/ ReturnCaptureError => Fail
    BY DEF ReturnCloseError, ReturnCaptureError
  <2>. QED  BY <1>2, <2>1, IngestKeeps, RemoveStaleKeeps, CopyRejectsKeeps,
            MakeDirectoriesKeeps, OpenWriterKeeps, WriteTraceKeeps,
            EntitiesDoneKeeps, CloseWriterKeeps, WritersClosedKeeps,
            CollectStorageKeeps, CreateManifestKeeps, EncodeManifestKeeps,
            CaptureKeeps, StopKeeps
            DEF Progress
<1>3. CASE Fail \/ Crash
  BY <1>3, StopKeeps
<1>4. CASE UNCHANGED vars
  BY <1>4 DEF vars, IInv, TypeOK, Dated, Steps, Removing, Copying, Opening, Storing,
              Closing, Complete, Certified, Succeeded, Untouched, In, Running,
              Outputs, CreationOrder, CloseOrder, Tables, Listed
<1>. QED  BY <1>1, <1>2, <1>3, <1>4 DEF Next

\* The invariant holds of every behaviour.
LEMMA Invariance == Spec => []IInv
<1>1. IInv /\ [Next]_vars => IInv'
  BY StepKeeps
<1>. QED  BY Initially, <1>1, PTL DEF Spec

-----------------------------------------------------------------------------
\* Every variable of the life of a directory keeps its type.
THEOREM TypeCorrect == Spec => []TypeOK
<1>1. IInv => TypeOK
  BY DEF IInv
<1>. QED  BY <1>1, Invariance, PTL

\* For any number of runs and any options: whatever fails, and wherever a run
\* is killed, a complete manifest vouches only for whole artifacts of its own
\* run (writeManifest, removeKnownArtifacts), traces under removal excepted.
THEOREM ManifestAlwaysCertifies == Spec => []ManifestCertifies
<1>1. IInv => ManifestCertifies
  <2>. SUFFICES ASSUME IInv, NEW a \in listed,
                       disk["manifest"] = Whole(disk["manifest"].run)
                PROVE  \/ disk[a] = Whole(disk["manifest"].run)
                       \/ a = "traces" /\ disk["manifest"].run < run.id
    BY DEF ManifestCertifies
  <2>1. a \in Artifact \ {"manifest"}
    BY DEF IInv, TypeOK, Certified
  <2>. QED  BY <2>1 DEF IInv, Certified
<1>. QED  BY <1>1, Invariance, PTL

\* A run that is refused or whose ingestion fails has changed no artifact, and
\* has left nothing new in the directory unless it was killed or its options
\* put something there (--keep-temp, heap profiles, or a --temp-dir, which Run
\* makes and never removes).
THEOREM PreviousAlwaysSurvives == Spec => []PreviousDatasetSurvives
<1>1. IInv => PreviousDatasetSurvives
  BY DEF IInv, Untouched, PreviousDatasetSurvives
<1>. QED  BY <1>1, Invariance, PTL

\* What a successful run leaves is its dataset and nothing else: no artifact of
\* an earlier run is among it, whatever the earlier runs wrote or left behind.
THEOREM SuccessAlwaysFresh == Spec => []SuccessIsFresh
<1>1. IInv => SuccessIsFresh
  <2>. SUFFICES ASSUME IInv, outcome = "ok"
                PROVE  /\ disk["manifest"] = Whole(run.id)
                       /\ \A a \in Artifact \ {"manifest"} :
                            disk[a] = IF a \in listed THEN Whole(run.id) ELSE Absent
    BY DEF SuccessIsFresh
  <2>1. disk["manifest"] = Whole(run.id) /\ disk["manifest"].run = run.id
    BY Distinct DEF IInv, Succeeded
  <2>2. run.id \in Nat
    BY Numbers DEF IInv
  <2>. QED  BY <2>1, <2>2 DEF IInv, Certified
<1>. QED  BY <1>1, Invariance, PTL

\* A reader that opens the directory at any moment (analyst.Open, inspect.Load)
\* sees tables of one run, the one whose manifest it decoded.
THEOREM ReadersAlwaysSeeOneRun == Spec => []ReadersSeeOneRun
<1>1. IInv => ReadersSeeOneRun
  <2>. SUFFICES ASSUME IInv PROVE ReadersSeeOneRun
    OBVIOUS
  <2>1. disk["manifest"] \in Content
    BY DEF IInv, TypeOK, Artifact
  <2>2. ASSUME Decodes
        PROVE  disk["manifest"] = Whole(disk["manifest"].run)
    BY <2>1, <2>2, Distinct DEF Decodes, Content
  <2>3. ASSUME Decodes, NEW v \in {"entities", "observations", "tracks"}, disk[v] # Absent
        PROVE  disk[v] = disk["manifest"]
    BY <2>2, <2>3 DEF IInv, Certified, Artifact
  <2>4. Opens => \A v \in Views : disk[v] = disk["manifest"]
    BY <2>3 DEF Opens, Views, Required
  <2>5. Inspects => disk["entities"] = disk["manifest"]
    BY <2>3, Distinct DEF Inspects, Reads
  <2>6. outcome = "ok" => Opens /\ Inspects
    <3>. SUFFICES ASSUME outcome = "ok" PROVE Opens /\ Inspects
      OBVIOUS
    <3>1. disk["manifest"] = Whole(run.id) /\ disk["manifest"].run = run.id /\ Decodes
      BY Distinct DEF IInv, Succeeded, Decodes
    <3>2. \A v \in Required : disk[v] = Whole(run.id)
      BY <3>1 DEF IInv, Certified, Required, Artifact
    <3>3. \A v \in Views : disk[v] = Whole(run.id)
      BY <2>3, <3>1 DEF Views, Required
    <3>. QED  BY <3>1, <3>2, <3>3, Distinct DEF Opens, Inspects, Reads, Views, Required
  <2>. QED  BY <2>4, <2>5, <2>6 DEF ReadersSeeOneRun
<1>. QED  BY <1>1, Invariance, PTL
=============================================================================
