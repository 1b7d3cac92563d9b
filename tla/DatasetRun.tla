------------------------------ MODULE DatasetRun ------------------------------
(***************************************************************************)
(* The life of one output directory: successive runs of pipeline.Run, each *)
(* of which may be refused, fail at any step with an error, or be killed.  *)
(*                                                                         *)
(* An artifact on disk belongs to the run that created it and is "partial" *)
(* (it may lack something) until that run has put everything in it and     *)
(* closed it without an error; then it is "whole".  "entities" and         *)
(* "observations" stand for the six tables every profile writes, "traces"  *)
(* for diagnostics/traces.  Runs do not overlap.  The milestones of heap   *)
(* profiling are the five between phases; those at a quarter, a half and   *)
(* three quarters of the partitions are left out, and so is a --temp-dir   *)
(* in the output's diagnostics/, refused together with --replace.          *)
(*                                                                         *)
(* A definition D_Variant is D as a plausible defect would leave it; no    *)
(* definition uses it.                                                     *)
(***************************************************************************)
EXTENDS Naturals, Sequences, FiniteSets

CONSTANTS
  MaxRuns,  \* bound on the number of runs started in the directory
  Options   \* the option combinations a run may be started with
ASSUME MaxRunsAssumption == MaxRuns \in Nat
ASSUME OptionsAssumption ==
  Options \subseteq [replace : BOOLEAN, full : BOOLEAN, traced : BOOLEAN,
                    keepTemp : BOOLEAN,
                    tempDir : {"unset", "outside", "inside"},
                    profile : {"none", "apart", "diagnostics"}]

VARIABLES
  disk,       \* the content of every known artifact, or Absent
  listed,     \* the artifacts the manifest on disk lists, if there is one
  subdirs,    \* the directories made there that nothing removes
  workspaces, \* runs whose .xqmob-tmp- directory is in it, or below it
  heapDir,    \* whether a directory for heap profiles is in diagnostics/
  snapshots,  \* heap profiles the current or last run left where it put them
  run,        \* the run in progress or, when idle, the last one
  outcome,    \* how the last run ended
  before      \* ghost: the directory as the current or last run found it

vars == <<disk, listed, subdirs, workspaces, heapDir, snapshots, run, outcome,
          before>>
heaps == <<heapDir, snapshots>>

Artifact ==
  {"manifest", "rejects", "canonical", "observations", "tracks", "entities",
   "traces"}

Absent == [run |-> 0, state |-> "absent"]
Partial(id) == [run |-> id, state |-> "partial"]
Whole(id)   == [run |-> id, state |-> "whole"]

Phase == {"idle", "ingest", "remove", "rejects", "open", "write", "close",
          "storage", "manifest"}

\* "dataset" stands for canonical/ and analysis/, "temp" for a --temp-dir that
\* the user placed in the output directory and the run had to make.
Subdir == {"dataset", "temp"}

NoRun == [id |-> 0, phase |-> "idle", step |-> 1, ingested |-> FALSE,
          closeError |-> FALSE, full |-> FALSE, traced |-> FALSE,
          replace |-> FALSE, keepTemp |-> FALSE, tempDir |-> "unset",
          profile |-> "none", captured |-> 0]

-----------------------------------------------------------------------------
(* The orders fixed by the code.                                           *)

\* removeKnownArtifacts: diagnostics first, then the list of paths.
RemovalOrder_NoTracks ==
  <<"traces", "manifest", "rejects", "canonical", "entities", "observations">>
RemovalOrder ==
  <<"traces", "manifest", "rejects", "canonical", "entities", "observations",
    "tracks">>

\* output.New and Writers.Close; tracks exist in the full profile only.
Tables ==
  IF run.full THEN <<"observations", "tracks", "entities">>
              ELSE <<"observations", "entities">>
CreationOrder == <<"canonical">> \o Tables
CloseOrder    == Tables \o <<"canonical">>

\* What collectStorage looks for and writeManifest lists.
Listed ==
  {"rejects", "canonical", "observations", "entities"}
    \cup (IF run.full THEN {"tracks"} ELSE {})
    \cup (IF run.traced THEN {"traces"} ELSE {})

Directory == [disk |-> disk, subdirs |-> subdirs, workspaces |-> workspaces,
              heapDir |-> heapDir]
Empty ==
  /\ workspaces = {} /\ subdirs = {} /\ ~heapDir
  /\ \A a \in Artifact : disk[a] = Absent

-----------------------------------------------------------------------------
Put(a, content) == disk' = [disk EXCEPT ![a] = content]
\* The heap profiles a run that has reached its phase has been asked for.
Milestones ==
  CASE run.phase = "ingest" -> 1
    [] run.phase \in {"remove", "rejects", "open"} -> 2
    [] run.phase = "write" -> 3
    [] run.phase = "close" -> 4
    [] run.phase = "storage" -> 5
    [] OTHER -> 0
Due == run.profile # "none" /\ run.captured < Milestones
Goto(phase) == run' = [run EXCEPT !.phase = phase, !.step = 1]
In(phase) == run.phase = phase
Running == run.phase # "idle"

\* The directory os.MkdirAll makes for --temp-dir, if it is in the output.
TempParent(o) == IF o.tempDir = "inside" THEN {"temp"} ELSE {}

\* checkOutputDirectory: anything at all in the directory, no --replace.
Refuse(o) ==
  /\ ~Running /\ run.id < MaxRuns
  /\ ~Empty /\ ~o.replace
  /\ outcome' = "refused"
  /\ before' = Directory
  /\ run' = [NoRun EXCEPT !.id = run.id + 1]
  /\ snapshots' = 0
  /\ UNCHANGED <<disk, listed, subdirs, workspaces, heapDir>>

Begin(o) ==
  LET id == run.id + 1
  IN  /\ ~Running /\ run.id < MaxRuns
      /\ Empty \/ o.replace
      /\ run' = [NoRun EXCEPT !.id = id, !.phase = "ingest",
                   !.replace = o.replace, !.full = o.full, !.traced = o.traced,
                   !.keepTemp = o.keepTemp, !.tempDir = o.tempDir,
                   !.profile = o.profile]
      /\ heapDir' = (heapDir \/ o.profile = "diagnostics")
      /\ snapshots' = 0
      /\ subdirs' = subdirs \cup TempParent(o)
      /\ workspaces' = IF o.tempDir = "outside" THEN workspaces
                                               ELSE workspaces \cup {id}
      /\ outcome' = "running"
      /\ before' = Directory
      /\ UNCHANGED <<disk, listed>>

\* The deferred os.RemoveAll of the workspace.
DropWorkspace ==
  workspaces' = IF run.keepTemp THEN workspaces ELSE workspaces \ {run.id}

ReturnError ==
  /\ run' = [run EXCEPT !.phase = "idle"]
  /\ outcome' = "failed"
  /\ DropWorkspace

\* Any step may return an error, but Writers.Close only once it has tried every
\* sink.  The deferred Close flushes what was buffered: no artifact is known to
\* be whole for that.
Fail ==
  /\ Running
  /\ In("close") => run.step \in {1, Len(CloseOrder) + 1}
  /\ ReturnError
  /\ UNCHANGED <<disk, listed, subdirs, heaps, before>>

\* The process is killed: no deferred call runs.
Crash ==
  /\ Running
  /\ run' = [run EXCEPT !.phase = "idle"]
  /\ outcome' = "crashed"
  /\ UNCHANGED <<disk, listed, subdirs, workspaces, heaps, before>>

\* heapProfiler.Capture: a file in the directory made when the run began.
Capture ==
  /\ Due
  /\ run.profile = "diagnostics" => heapDir
  /\ snapshots' = snapshots + 1
  /\ run' = [run EXCEPT !.captured = @ + 1]
  /\ UNCHANGED <<disk, listed, subdirs, workspaces, heapDir, outcome, before>>

\* PartitionCSV succeeded.  The rejects it staged are in the workspace.
Ingest_RejectsInPlace ==
  /\ In("ingest")
  /\ \/ disk["rejects"] # Partial(run.id)
          /\ Put("rejects", Partial(run.id)) /\ UNCHANGED run
     \/ disk["rejects"] = Partial(run.id)
          /\ run' = [run EXCEPT !.ingested = TRUE, !.phase = "open"]
          /\ UNCHANGED disk
  /\ UNCHANGED <<listed, subdirs, workspaces, outcome, before, heaps>>
Ingest ==
  /\ In("ingest") /\ ~Due
  /\ run' = [run EXCEPT !.ingested = TRUE,
                        !.phase = IF run.replace THEN "remove" ELSE "rejects"]
  /\ UNCHANGED <<disk, listed, subdirs, workspaces, outcome, before, heaps>>

\* All of diagnostics/ goes, whatever else was put in it.
RemoveHeaps ==
  /\ heapDir' = FALSE
  /\ snapshots' = IF run.profile = "diagnostics" THEN 0 ELSE snapshots

\* Here a removal is tried until it succeeds.
RemoveStale_Retries ==
  /\ In("remove") /\ ~Due
  /\ \/ /\ run.step <= Len(RemovalOrder)
        /\ disk[RemovalOrder[run.step]] # Absent
        /\ Put(RemovalOrder[run.step], Absent)
        /\ run' = [run EXCEPT !.step = @ + 1]
        /\ IF RemovalOrder[run.step] = "traces" THEN RemoveHeaps
                                                ELSE UNCHANGED heaps
     \/ /\ run.step > Len(RemovalOrder)
        /\ Goto("rejects")
        /\ UNCHANGED <<disk, heaps>>
  /\ UNCHANGED <<listed, subdirs, workspaces, outcome, before>>
\* One os.Remove; a path that does not exist is no error.  The diagnostics are
\* a directory: os.RemoveAll empties it file by file.
RemoveStale ==
  /\ In("remove") /\ ~Due
  /\ \/ /\ run.step <= Len(RemovalOrder)
        /\ Put(RemovalOrder[run.step], Absent)
        /\ run' = [run EXCEPT !.step = @ + 1]
        /\ IF RemovalOrder[run.step] = "traces" THEN RemoveHeaps
                                                ELSE UNCHANGED heaps
     \/ /\ run.step <= Len(RemovalOrder) /\ RemovalOrder[run.step] = "traces"
        /\ disk["traces"].state = "whole"
        /\ Put("traces", Partial(disk["traces"].run))
        /\ UNCHANGED <<run, heaps>>
     \/ run.step > Len(RemovalOrder) /\ Goto("rejects")
          /\ UNCHANGED <<disk, heaps>>
  /\ UNCHANGED <<listed, subdirs, workspaces, outcome, before>>

\* os.Create, then io.Copy and Close.
CopyRejects ==
  /\ In("rejects") /\ ~Due
  /\ IF disk["rejects"] # Partial(run.id)
       THEN Put("rejects", Partial(run.id)) /\ UNCHANGED run
       ELSE Put("rejects", Whole(run.id)) /\ Goto("open")
  /\ UNCHANGED <<listed, subdirs, workspaces, outcome, before, heaps>>

\* output.New makes the directories, then creates one file after the other.
MakeDirectories ==
  /\ In("open") /\ ~Due /\ "dataset" \notin subdirs
  /\ subdirs' = subdirs \cup {"dataset"}
  /\ UNCHANGED <<disk, listed, workspaces, run, outcome, before, heaps>>

OpenWriter ==
  /\ In("open") /\ "dataset" \in subdirs
  /\ IF run.step <= Len(CreationOrder)
       THEN /\ Put(CreationOrder[run.step], Partial(run.id))
            /\ run' = [run EXCEPT !.step = @ + 1]
       ELSE Goto("write") /\ UNCHANGED disk
  /\ UNCHANGED <<listed, subdirs, workspaces, outcome, before, heaps>>

\* The entity loop: rows reach buffers and open files, which stay partial; a
\* traced entity's file is created, written and closed.
WriteTrace ==
  /\ In("write") /\ ~Due /\ run.traced /\ disk["traces"] # Whole(run.id)
  /\ Put("traces", IF disk["traces"] # Partial(run.id)
                     THEN Partial(run.id) ELSE Whole(run.id))
  /\ UNCHANGED <<listed, subdirs, workspaces, run, outcome, before, heaps>>

EntitiesDone ==
  /\ In("write") /\ ~Due
  /\ run.traced => disk["traces"] = Whole(run.id)
  /\ Goto("close")
  /\ UNCHANGED <<disk, listed, subdirs, workspaces, outcome, before, heaps>>

\* Writers.Close closes every sink even after one has failed, and returns the
\* first error.
CloseWriter_ErrorDropped ==
  /\ In("close") /\ ~Due /\ run.step <= Len(CloseOrder)
  /\ run' = [run EXCEPT !.step = @ + 1]
  /\ \/ Put(CloseOrder[run.step], Whole(run.id))
     \/ UNCHANGED disk
  /\ UNCHANGED <<listed, subdirs, workspaces, outcome, before, heaps>>
CloseWriter ==
  /\ In("close") /\ ~Due /\ run.step <= Len(CloseOrder)
  /\ \/ Put(CloseOrder[run.step], Whole(run.id))
          /\ run' = [run EXCEPT !.step = @ + 1]
     \/ UNCHANGED disk
          /\ run' = [run EXCEPT !.step = @ + 1, !.closeError = TRUE]
  /\ UNCHANGED <<listed, subdirs, workspaces, outcome, before, heaps>>

WritersClosed ==
  /\ In("close") /\ run.step > Len(CloseOrder) /\ ~run.closeError
  /\ Goto("storage")
  /\ UNCHANGED <<disk, listed, subdirs, workspaces, outcome, before, heaps>>

\* os.Stat of everything the manifest will list: a missing one is an error.
CollectStorage ==
  /\ In("storage") /\ ~Due
  /\ IF \A a \in Listed : disk[a] # Absent
       THEN Goto("manifest") /\ UNCHANGED <<workspaces, outcome>>
       ELSE ReturnError
  /\ UNCHANGED <<disk, listed, subdirs, before, heaps>>

\* os.Create, then Encode; the run then succeeds.
CreateManifest ==
  /\ In("manifest") /\ disk["manifest"] # Partial(run.id)
  /\ Put("manifest", Partial(run.id))
  /\ UNCHANGED <<listed, subdirs, workspaces, run, outcome, before, heaps>>

EncodeManifest ==
  /\ In("manifest") /\ disk["manifest"] = Partial(run.id)
  /\ Put("manifest", Whole(run.id))
  /\ listed' = Listed
  /\ run' = [run EXCEPT !.phase = "idle"]
  /\ outcome' = "ok"
  /\ DropWorkspace
  /\ UNCHANGED <<subdirs, before, heaps>>

-----------------------------------------------------------------------------
Init ==
  /\ disk = [a \in Artifact |-> Absent]
  /\ listed = {}
  /\ subdirs = {}
  /\ workspaces = {}
  /\ heapDir = FALSE /\ snapshots = 0
  /\ run = NoRun
  /\ outcome = "none"
  /\ before = Directory

\* Run returns the first error of Writers.Close.
ReturnCloseError ==
  /\ In("close") /\ run.step > Len(CloseOrder) /\ run.closeError
  /\ Fail

\* os.Create of a snapshot fails: its directory is gone.
ReturnCaptureError ==
  /\ Due /\ run.profile = "diagnostics" /\ ~heapDir
  /\ Fail

\* The steps of a run that has been started and meets no further error.
Progress ==
  \/ Ingest \/ RemoveStale \/ CopyRejects \/ MakeDirectories \/ OpenWriter
  \/ WriteTrace
  \/ EntitiesDone \/ CloseWriter \/ WritersClosed \/ CollectStorage
  \/ CreateManifest \/ EncodeManifest \/ ReturnCloseError
  \/ Capture \/ ReturnCaptureError

Next ==
  \/ \E o \in Options : Refuse(o) \/ Begin(o)
  \/ Progress
  \/ Fail
  \/ Crash

\* A started run keeps taking its next step: Run never waits for anything but
\* the file system.  Nothing makes a run start, fail or be killed.
Spec == Init /\ [][Next]_vars /\ WF_vars(Progress)

-----------------------------------------------------------------------------
(* The readers of a directory, analyst.Open and inspect.Load.              *)

Decodes == disk["manifest"].state = "whole"
Reads(t) == disk[t].state = "whole"

\* initViews takes the tables it finds, and then misses one it requires.
Required == {"entities", "observations"}
Views == {t \in Required \cup {"tracks"} : disk[t] # Absent}
Opens == Decodes /\ Required \subseteq Views /\ \A v \in Views : Reads(v)

Inspects == Decodes /\ Reads("entities")

-----------------------------------------------------------------------------
Id == 0 .. MaxRuns
Content == {Absent} \cup {Partial(i) : i \in Id \ {0}}
                    \cup {Whole(i) : i \in Id \ {0}}

RunRecord ==
  [id : Id, phase : Phase, step : 1 .. 8, ingested : BOOLEAN,
   closeError : BOOLEAN, full : BOOLEAN, traced : BOOLEAN, replace : BOOLEAN,
   keepTemp : BOOLEAN, tempDir : {"unset", "outside", "inside"},
   profile : {"none", "apart", "diagnostics"}, captured : 0 .. 5]

\* Every variable holds a value of its type, and a phase that has no steps of
\* its own starts at the first, wherever the previous one stopped.
TypeOK ==
  /\ disk \in [Artifact -> Content]
  /\ listed \in SUBSET Artifact
  /\ subdirs \in SUBSET Subdir
  /\ workspaces \in SUBSET Id
  /\ run \in RunRecord
  /\ heapDir \in BOOLEAN /\ snapshots \in 0 .. run.captured
  /\ run.phase \in {"ingest", "rejects", "write", "storage", "manifest"}
       => run.step = 1
  /\ outcome \in {"none", "running", "refused", "failed", "crashed", "ok"}
  /\ before \in [disk : [Artifact -> Content], subdirs : SUBSET Subdir,
                 workspaces : SUBSET Id, heapDir : BOOLEAN]

\* A complete manifest vouches for what it lists: through crashes, failures and
\* replacements, a reader that finds one finds every listed artifact whole and
\* of the same run, except that a replacement removes the diagnostics first.
ManifestCertifies ==
  LET author == disk["manifest"].run IN
  disk["manifest"] = Whole(author) =>
    \A a \in listed :
      \/ disk[a] = Whole(author)
      \/ a = "traces" /\ author < run.id

\* A run that is refused or whose ingestion fails leaves every artifact as it
\* found it (README.md:98, RELEASE_NOTES.md:45).  Nor does it leave anything
\* new that would have the next run refused without --replace, unless it was
\* killed, keeps its temporaries, puts heap profiles there, or was given a
\* --temp-dir there: Run makes that directory and never removes it.
PreviousDatasetSurvives ==
  ~run.ingested =>
    /\ disk = before.disk
    /\ before.subdirs \subseteq subdirs
    /\ subdirs \subseteq before.subdirs \cup TempParent(run)
    /\ (outcome \in {"refused", "failed"} /\ ~run.keepTemp)
         => workspaces = before.workspaces
    /\ run.profile # "diagnostics" => heapDir = before.heapDir

\* When a run reports success the directory holds its dataset and nothing of
\* an earlier one: no stale tracks table or trace leaks into it
\* (README.md:423).
SuccessIsFresh ==
  outcome = "ok" =>
    /\ disk["manifest"] = Whole(run.id)
    /\ \A a \in Artifact \ {"manifest"} :
         disk[a] = IF a \in listed THEN Whole(run.id) ELSE Absent

\* Whoever reads the directory reads one dataset: if the manifest decodes and
\* every table it needs can be read (analyst.Open takes the tables it finds,
\* whatever the manifest lists; inspect reads the entities), all are of the run
\* that wrote the manifest; and what a successful run leaves can be opened.
ReadersSeeOneRun ==
  /\ Opens => \A v \in Views : disk[v] = disk["manifest"]
  /\ Inspects => disk["entities"] = disk["manifest"]
  /\ outcome = "ok" => Opens /\ Inspects

\* A run that is not killed ends: a stale path that is not there, a sink that
\* fails to close and a snapshot that cannot be made do not hold it up.
RunEnds == Running ~> ~Running
=============================================================================
