------------------------------- MODULE MCExplain -------------------------------
(* One entity over three places.  An accuracy of 40 m makes the first two, *)
(* 140 m apart, one place when both fixes have it, a move when one has, and *)
(* too fast in 3 s when none has; it takes back a jump of 200 m only when   *)
(* both have it.  The clock has two units to the millisecond, so that fixes *)
(* are a millisecond apart or more.                                         *)
EXTENDS Explain, SequencesExt

MetresBetween(p, q) == IF p < q THEN q - p ELSE p - q
MeanOf(points) == FoldSeq(LAMBDA p, sum : p + sum, 0, points) \div Len(points)

ThreePlaces == {0, 140, 200}
SomeHA      == {MissingHA, 40}
TwoSteps    == {3, 5}
MCDtBounds == <<4, 5, 30>>
MCDistanceBounds == <<370, 400, 500, 900>>
=============================================================================
