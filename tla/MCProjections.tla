---------------------------- MODULE MCProjections -----------------------------
(* Places whose distances (360, 420 and 780 m) are reached too fast in the *)
(* shortest step, in a longer one, or are a jump; buckets that tell them   *)
(* apart.                                                                  *)
EXTENDS Projections, SequencesExt

MetresBetween(p, q) == IF p < q THEN q - p ELSE p - q
MeanOf(points) == FoldSeq(LAMBDA p, sum : p + sum, 0, points) \div Len(points)

FastPlaces == {0, 360, 780}
SomeHA     == {MissingHA, 0}
TwoSteps   == {3, 5}
MCDtBounds == <<4, 5, 30>>
MCDistanceBounds == <<370, 400, 500, 900>>
=============================================================================
