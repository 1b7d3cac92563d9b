----------------------------- MODULE MCTimestamp ------------------------------
(* Units a factor of 4 apart, so that a second has 64 nanoseconds; every   *)
(* magnitude from zero past the last threshold, in halves, thirds, fifths, *)
(* 128ths of a unit (half a nanosecond) and thousandths.                   *)
EXTENDS Timestamp

MCNumerator == -1000..1000
MCDenominator == {1, 2, 3, 5, 128, 1000}
MCMin == -128
MCMax == 127
MCFirst == -4
=============================================================================
