--------------------------------- MODULE MCP2 ---------------------------------
(***************************************************************************)
(* Constants for model-checking P2: streams of three values, one far away, *)
(* in hundredths.                                                          *)
(***************************************************************************)
EXTENDS P2

Skewed == {0, 100, 700}
=============================================================================
