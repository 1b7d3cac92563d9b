----------------------------- MODULE MCDatasetRun -----------------------------
(***************************************************************************)
(* Constants for model-checking DatasetRun: a lean run with the default    *)
(* options, replacements that add and drop the tracks table and the        *)
(* traces, the other places and fates of the temporary workspace, and      *)
(* heap profiles written elsewhere or under the output's diagnostics.      *)
(***************************************************************************)
EXTENDS DatasetRun

Lean     == [replace |-> FALSE, full |-> FALSE, traced |-> FALSE,
             keepTemp |-> FALSE, tempDir |-> "unset", profile |-> "none"]
Full     == [Lean EXCEPT !.replace = TRUE, !.full = TRUE, !.traced = TRUE,
                         !.profile = "apart"]
Replaced == [Lean EXCEPT !.replace = TRUE, !.tempDir = "outside"]
Nested   == [Lean EXCEPT !.tempDir = "inside"]
Kept     == [Lean EXCEPT !.full = TRUE, !.keepTemp = TRUE]
Profiled == [Replaced EXCEPT !.profile = "diagnostics"]

Mixed == {Lean, Full, Replaced, Nested, Kept, Profiled}
=============================================================================
