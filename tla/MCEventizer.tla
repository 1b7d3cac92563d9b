----------------------------- MODULE MCEventizer -----------------------------
(***************************************************************************)
(* Constants for model-checking Eventizer with its trace, its contract and *)
(* the validation of its events.  Positions are metres on a line, and      *)
(* multiples of 60, so that the mean of up to six of them is exact.        *)
(***************************************************************************)
EXTENDS Trace, Validation, EventizerContract, SequencesExt

MetresBetween(p, q) == IF p < q THEN q - p ELSE p - q
MeanOf(points) == FoldSeq(LAMBDA p, sum : p + sum, 0, points) \div Len(points)

TwoPlaces  == {0, 180}
FarPlaces  == {0, 180, 600}
NoHA       == {MissingHA}
Steps      == {3, 4, 5}
LongSteps  == {3, 5}
=============================================================================
