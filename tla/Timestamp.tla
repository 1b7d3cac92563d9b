------------------------------ MODULE Timestamp -------------------------------
(***************************************************************************)
(* ParseTimestamp of internal/input/csv.go: a numeric epoch is read as     *)
(* seconds, milliseconds, microseconds or nanoseconds by its magnitude.    *)
(* An integer is split by truncated division; anything else is read as a   *)
(* rational number and rounded to a nanosecond.  A text that is too long,  *)
(* or has too large an exponent, is refused before it is read as either.   *)
(*                                                                         *)
(* The scale is a parameter: Kilo is the ratio of two units (1000 in the   *)
(* code), Milli the least magnitude read as milliseconds (10^11), and an   *)
(* instant a number of nanoseconds since the epoch.  Texts that are not    *)
(* numbers, and RFC3339 (time.Parse), are not modelled.                    *)
(*                                                                         *)
(* A definition D_Variant is D as a plausible defect would leave it.       *)
(***************************************************************************)
EXTENDS Integers

CONSTANTS
  Kilo, Milli,
  MinInt, MaxInt,        \* the range of a 64-bit integer
  FirstSecond, LastSecond, \* the seconds of the years 0000 to 9999
  Numerator, Denominator \* the numbers that are written

ASSUME ScaleAssumption ==
  /\ Kilo \in Nat \ {0, 1} /\ Milli \in Nat \ {0}
  /\ {MinInt, MaxInt, FirstSecond, LastSecond} \subseteq Int
ASSUME NumberAssumption ==
  Numerator \subseteq Int /\ Denominator \subseteq Nat \ {0}

VARIABLES
  text,  \* the number num / den, written as an integer or as a decimal; long: in
         \* more than 128 characters, extreme: with an exponent outside -400..400
  result \* the instant it is read as, or why it is rejected

timestampVars == <<text, result>>

Micro == Milli * Kilo
Nano  == Micro * Kilo
Second == Kilo * Kilo * Kilo

Unread == [status |-> "unread", instant |-> 0]
Rejected == [status |-> "rejected", instant |-> 0]

-----------------------------------------------------------------------------
Magnitude(v) == IF v < 0 THEN -v ELSE v

\* Go's integer division truncates towards zero.
QuoTruncated(a, b) ==
  IF a < 0 THEN -((-a) \div b) ELSE a \div b
RemTruncated(a, b) == a - b * QuoTruncated(a, b)

\* time.Unix accepts any nanoseconds; the year is checked afterwards.
EpochTime(sec, nsec) ==
  LET instant == sec * Second + nsec
      second  == instant \div Second
  IN  IF FirstSecond <= second /\ second <= LastSecond
      THEN [status |-> "read", instant |-> instant]
      ELSE Rejected

\* How many of the unit make a second: the largest threshold reached decides.
UnitsPerSecond(v) ==
  LET at(threshold) == Magnitude(v) >= threshold
  IN  CASE at(Nano) -> Second
        [] ~at(Nano) /\ at(Micro) -> Kilo * Kilo
        [] ~at(Micro) /\ at(Milli) -> Kilo
        [] OTHER -> 1

ReadInteger(v) ==
  LET units == UnitsPerSecond(v)
  IN  EpochTime(QuoTruncated(v, units), RemTruncated(v, units) * (Second \div units))

\* The same thresholds against a rational num / den, as nanoseconds per unit.
NanosPerUnit(num, den) ==
  LET at(threshold) == Magnitude(num) >= threshold * den
  IN  CASE at(Nano) -> 1
        [] ~at(Nano) /\ at(Micro) -> Kilo
        [] ~at(Micro) /\ at(Milli) -> Kilo * Kilo
        [] OTHER -> Second

\* Rounded to the nearest nanosecond, ties away from zero.
Rounded_TiesDown(num, den) ==
  LET rem == RemTruncated(num, den)
  IN  QuoTruncated(num, den)
        + (IF 2 * Magnitude(rem) > den THEN (IF num < 0 THEN -1 ELSE 1) ELSE 0)
Rounded(num, den) ==
  LET rem  == RemTruncated(num, den)
      sign == IF num < 0 THEN -1 ELSE IF num > 0 THEN 1 ELSE 0
  IN  QuoTruncated(num, den) + (IF 2 * Magnitude(rem) >= den THEN sign ELSE 0)

OutsideInt64(num, den) == num < MinInt * den \/ num > MaxInt * den

ReadRational(num, den) ==
  LET nanos == Rounded(num * NanosPerUnit(num, den), den)
  IN  IF OutsideInt64(num, den) THEN Rejected
      ELSE EpochTime(QuoTruncated(nanos, Second), RemTruncated(nanos, Second))

\* The exponent is judged before big.Rat sees the text.
ReadDecimal(t) ==
  IF t.extreme THEN Rejected ELSE ReadRational(t.num, t.den)

\* The length is judged first; then strconv.ParseInt takes an integer in range.
Parse(t) ==
  IF t.long THEN Rejected
  ELSE IF t.form = "integer" /\ t.num \in MinInt..MaxInt THEN ReadInteger(t.num)
  ELSE ReadDecimal(t)

-----------------------------------------------------------------------------
\* In 128 characters an exponent outside -400..400 can write zero, a number too
\* large or one that is no nanosecond; padded with zeros, any number.
CanBeExtreme(num, den) ==
  num = 0 \/ OutsideInt64(num, den) \/ 2 * Magnitude(num) * Second < den

Text ==
  {t \in [num : Numerator, den : Denominator, form : {"decimal"},
          long : BOOLEAN, extreme : BOOLEAN] :
     t.extreme => t.long \/ CanBeExtreme(t.num, t.den)}
    \cup [num : Numerator, den : {1}, form : {"integer"},
          long : BOOLEAN, extreme : {FALSE}]

TimestampInit == text \in Text /\ result = Unread

ParseTimestamp ==
  /\ result = Unread
  /\ result' = Parse(text)
  /\ UNCHANGED text

TimestampNext == ParseTimestamp
TimestampSpec == TimestampInit /\ [][TimestampNext]_timestampVars

-----------------------------------------------------------------------------
(* Properties.                                                             *)

\* The range README.md:267 gives the magnitude of num / den.
DocumentedNanos ==
  LET m == Magnitude(text.num)
  IN  CHOOSE k \in {1, Kilo, Kilo * Kilo, Second} :
        \/ k = Second /\ m < Milli * text.den
        \/ k = Kilo * Kilo /\ Milli * text.den <= m /\ m < Micro * text.den
        \/ k = Kilo /\ Micro * text.den <= m /\ m < Nano * text.den
        \/ k = 1 /\ Nano * text.den <= m

\* A number that is read is read in the documented unit, to the nearest
\* nanosecond and exactly when it is a whole number of them, halves away from
\* zero (README.md:267-269): negative numbers and thresholds included.
ReadExactly ==
  result.status = "read" =>
    LET exact == text.num * DocumentedNanos      \* times 1 / den
        twice == 2 * (result.instant * text.den - exact)
    IN  /\ Magnitude(twice) <= text.den
        /\ Magnitude(twice) = text.den =>
             Magnitude(result.instant * text.den) > Magnitude(exact)

\* What README.md:267 and 269 refuse: a number outside the 64-bit range, more
\* than 128 characters, an exponent outside -400..400.
OverLimits ==
  text.long \/ text.extreme \/ OutsideInt64(text.num, text.den)

\* The instant lies outside the years 0000 to 9999, or within the rounding of a
\* nanosecond of their ends.
OutsideCalendar ==
  LET exact == text.num * DocumentedNanos
  IN  \/ exact < (FirstSecond * Second) * text.den
      \/ 2 * exact >= (2 * (LastSecond + 1) * Second - 1) * text.den

\* A number is rejected for being over one of the limits or outside the
\* calendar and for nothing else, and never read when over a limit.
RejectedAsDocumented ==
  result # Unread =>
    /\ result = Rejected => OverLimits \/ OutsideCalendar
    /\ OverLimits => result = Rejected

\* The integer path and the decimal path read the same number alike.
FormsAgree ==
  result # Unread /\ text.form = "integer" =>
    result = Parse([text EXCEPT !.form = "decimal"])

\* A number is read as documented, refused for what is documented alone, and
\* read alike in both forms.
TimestampsAreRead == ReadExactly /\ RejectedAsDocumented /\ FormsAgree
=============================================================================
