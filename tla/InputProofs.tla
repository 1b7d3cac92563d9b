----------------------------- MODULE InputProofs ------------------------------
(***************************************************************************)
(* What the input becomes before the eventizer sees it, for every file.    *)
(*                                                                         *)
(* Part one: a numeric timestamp is the nearest nanosecond of what it      *)
(* says, in the unit its magnitude asks for.  Truncated division splits an *)
(* integer into parts that rejoin without loss (Truncated, Rejoined), and  *)
(* the rounding of a rational is off by half a unit at most.               *)
(*                                                                         *)
(* Part two: the partition loop eventizes every entity once, whole and in  *)
(* time, and what it keeps of the fixes of one time does not depend on the *)
(* order of the rows.  Both comparisons are strict total orders            *)
(* (BetterIsStrict, SortIsStrict), so counting the rows before each one    *)
(* sorts them (PlacesOf, SortedIsInOrder); in sorted rows a run of equal   *)
(* times is all rows of that time (GroupIsTogether), so the collapse makes *)
(* one observation of each (CollapseIs).  The invariant Normal says which  *)
(* rows wait and what was told of each entity known; it is inductive       *)
(* because the rows of an entity wait in one run (FirstEntity).            *)
(***************************************************************************)
EXTENDS Timestamp, Normalize, FiniteSetTheorems, SequenceTheorems,
        WellFoundedInduction, TLAPS

-----------------------------------------------------------------------------
(* Division that truncates.                                                *)

\* A number is its quotient and its remainder, which is nearer to zero than
\* the divisor and on the number's side of it.
LEMMA Truncated ==
  ASSUME NEW a \in Int, NEW b \in Nat, b # 0
  PROVE  /\ QuoTruncated(a, b) \in Int /\ RemTruncated(a, b) \in Int
         /\ a = b * QuoTruncated(a, b) + RemTruncated(a, b)
         /\ a >= 0 => 0 <= RemTruncated(a, b) /\ RemTruncated(a, b) < b
         /\ a <= 0 => -b < RemTruncated(a, b) /\ RemTruncated(a, b) <= 0
<1> DEFINE q == QuoTruncated(a, b)
           r == RemTruncated(a, b)
<1>1. CASE a >= 0
  <2>1. q = a \div b
    BY <1>1 DEF QuoTruncated
  <2>2. /\ a \div b \in Int
        /\ b * (a \div b) <= a /\ a < b * (a \div b) + b
    OBVIOUS
  <2>3. PICK m \in Int : m = b * (a \div b)
    BY <2>2
  <2>4. r = a - m
    BY <2>1, <2>3 DEF RemTruncated
  <2> QED BY <1>1, <2>1, <2>2, <2>3, <2>4
<1>2. CASE a < 0
  <2>1. PICK c \in Nat : c = -a /\ c # 0
    BY <1>2
  <2>2. q = -(c \div b)
    BY <1>2, <2>1 DEF QuoTruncated
  <2>3. /\ c \div b \in Int
        /\ b * (c \div b) <= c /\ c < b * (c \div b) + b
    BY <2>1
  <2>4. PICK d \in Int : d = c \div b
    BY <2>3
  <2>5. PICK m \in Int : m = b * d
    BY <2>4
  <2>6. b * q = -m
    BY <2>2, <2>4, <2>5
  <2>7. r = a + m
    BY <2>6, <2>5 DEF RemTruncated
  <2> QED BY <1>2, <2>1, <2>2, <2>3, <2>4, <2>5, <2>6, <2>7
<1> QED BY <1>1, <1>2

\* Splitting a number and putting it together gives it back.
LEMMA Rejoined ==
  ASSUME NEW a \in Int, NEW b \in Nat, b # 0
  PROVE  QuoTruncated(a, b) * b + RemTruncated(a, b) = a
<1>1. PICK q \in Int, r \in Int : /\ q = QuoTruncated(a, b) /\ r = RemTruncated(a, b)
                                  /\ a = b * q + r
  BY Truncated
<1>2. b * q = q * b
  BY <1>1
<1> QED BY <1>1, <1>2

-----------------------------------------------------------------------------
(* Units.                                                                  *)

\* Consecutive units differ by Kilo.
LEMMA Scale ==
  /\ Kilo \in Nat /\ Kilo >= 2 /\ Milli \in Nat /\ Milli >= 1
  /\ Micro \in Nat /\ Nano \in Nat /\ Milli <= Micro /\ Micro <= Nano
  /\ Kilo * Kilo \in Nat /\ Second \in Nat
  /\ Kilo < Kilo * Kilo /\ Kilo * Kilo < Second
<1>1. Kilo \in Nat /\ Kilo >= 2 /\ Milli \in Nat /\ Milli >= 1
  BY ScaleAssumption
<1>2. PICK k \in Nat, m \in Nat, u \in Nat : k = Kilo /\ m = Milli /\ u = k * k
  BY <1>1
<1>3. k < u
  BY <1>1, <1>2
<1>4. u * k \in Nat /\ u < u * k
  BY <1>1, <1>2, <1>3
<1>5. Second = u * k
  BY <1>2 DEF Second
<1>6. PICK c \in Nat : c = m * k /\ m <= c
  BY <1>1, <1>2
<1>7. c * k \in Nat /\ c <= c * k
  BY <1>1, <1>2, <1>6
<1>8. Micro = c /\ Nano = c * k
  BY <1>2, <1>6 DEF Micro, Nano
<1> QED BY <1>1, <1>2, <1>3, <1>4, <1>5, <1>6, <1>7, <1>8

\* A product divided by one factor is the other.
LEMMA Cancelled ==
  ASSUME NEW u \in Nat, u # 0, NEW w \in Nat
  PROVE  (u * w) \div u = w
OBVIOUS

\* The magnitude of a number is its absolute value.
LEMMA MagnitudeIs ==
  ASSUME NEW v \in Int
  PROVE  Magnitude(v) \in Nat /\ (v >= 0 => Magnitude(v) = v)
         /\ (v <= 0 => Magnitude(v) = -v)
BY DEF Magnitude

\* The unit of an integer holds as many nanoseconds as that of the same number
\* written as a decimal.
LEMMA UnitsAgree ==
  ASSUME NEW v \in Int
  PROVE  /\ UnitsPerSecond(v) \in Nat \ {0}
         /\ NanosPerUnit(v, 1) \in Nat \ {0}
         /\ UnitsPerSecond(v) * NanosPerUnit(v, 1) = Second
         /\ Second \div UnitsPerSecond(v) = NanosPerUnit(v, 1)
<1> DEFINE u == UnitsPerSecond(v)
           w == NanosPerUnit(v, 1)
           m == Magnitude(v)
<1>1. m \in Nat
  BY MagnitudeIs
<1>2. Nano * 1 = Nano /\ Micro * 1 = Micro /\ Milli * 1 = Milli
  BY Scale
<1>3. \/ m >= Nano /\ u = Second /\ w = 1
      \/ m >= Micro /\ ~(m >= Nano) /\ u = Kilo * Kilo /\ w = Kilo
      \/ m >= Milli /\ ~(m >= Micro) /\ u = Kilo /\ w = Kilo * Kilo
      \/ ~(m >= Milli) /\ u = 1 /\ w = Second
  BY <1>1, <1>2, Scale DEF UnitsPerSecond, NanosPerUnit
<1>4. u \in Nat \ {0} /\ w \in Nat \ {0}
  BY <1>3, Scale
<1>5. u * w = Second
  <2>1. Kilo * (Kilo * Kilo) = Second /\ (Kilo * Kilo) * Kilo = Second
    BY Scale DEF Second
  <2>2. Second * 1 = Second /\ 1 * Second = Second
    BY Scale
  <2> QED BY <1>3, <2>1, <2>2
<1> QED BY <1>4, <1>5, Cancelled

\* How many nanoseconds a unit has is what the documentation says.
LEMMA UnitIsDocumented ==
  ASSUME text.num \in Int, text.den \in Nat \ {0}
  PROVE  /\ DocumentedNanos = NanosPerUnit(text.num, text.den)
         /\ NanosPerUnit(text.num, text.den) \in Nat \ {0}
<1>1. PICK m \in Nat, d \in Nat : m = Magnitude(text.num) /\ d = text.den /\ d # 0
  BY MagnitudeIs
<1>2. PICK a \in Nat, b \in Nat, c \in Nat :
        a = Milli * d /\ b = Micro * d /\ c = Nano * d /\ a <= b /\ b <= c
  <2>1. Milli * d \in Nat /\ Micro * d \in Nat /\ Nano * d \in Nat
    BY <1>1, Scale
  <2>2. \A x, y \in Nat : x <= y => x * d <= y * d
    BY <1>1
  <2>3. Milli * d <= Micro * d /\ Micro * d <= Nano * d
    BY <2>2, Scale
  <2> QED BY <2>1, <2>3
<1> DEFINE w == NanosPerUnit(text.num, text.den)
<1>3. \/ c <= m /\ w = 1
      \/ b <= m /\ m < c /\ w = Kilo
      \/ a <= m /\ m < b /\ w = Kilo * Kilo
      \/ m < a /\ w = Second
  BY <1>1, <1>2, Scale DEF NanosPerUnit
<1>4. PICK k \in Nat, u \in Nat, s \in Nat :
        /\ k = Kilo /\ u = Kilo * Kilo /\ s = Second
        /\ 1 < k /\ k < u /\ u < s
  BY Scale
<1>5. DocumentedNanos =
        CHOOSE x \in {1, k, u, s} :
          \/ x = s /\ m < a
          \/ x = u /\ a <= m /\ m < b
          \/ x = k /\ b <= m /\ m < c
          \/ x = 1 /\ c <= m
  BY <1>1, <1>2, <1>4 DEF DocumentedNanos
<1>6. PICK y : y = w
  OBVIOUS
<1>7. \/ c <= m /\ y = 1
      \/ b <= m /\ m < c /\ y = k
      \/ a <= m /\ m < b /\ y = u
      \/ m < a /\ y = s
  BY <1>3, <1>4, <1>6
<1>8. DocumentedNanos = y
  BY <1>2, <1>4, <1>5, <1>7
<1> QED BY <1>4, <1>6, <1>7, <1>8

-----------------------------------------------------------------------------
(* Instants.                                                               *)

\* The instant n, if the calendar has it.
AtInstant(n) ==
  IF FirstSecond <= n \div Second /\ n \div Second <= LastSecond
    THEN [status |-> "read", instant |-> n] ELSE Rejected

\* An integer in a unit is read as exactly the instant it names.
LEMMA IntegerInstant ==
  ASSUME NEW v \in Int
  PROVE  ReadInteger(v) = AtInstant(v * NanosPerUnit(v, 1))
<1>1. PICK u \in Nat, w \in Nat :
        /\ u = UnitsPerSecond(v) /\ u # 0 /\ w = NanosPerUnit(v, 1)
        /\ u * w = Second /\ Second \div u = w
  BY UnitsAgree
<1>2. PICK q \in Int, r \in Int :
        /\ q = QuoTruncated(v, u) /\ r = RemTruncated(v, u) /\ v = u * q + r
  BY <1>1, Truncated
<1>3. q * (u * w) + r * w = v * w
  <2>1. q * (u * w) = (u * q) * w
    BY <1>1, <1>2
  <2>2. PICK p \in Int : p = u * q
    BY <1>1, <1>2
  <2>3. p * w + r * w = (p + r) * w
    BY <1>1, <1>2, <2>2
  <2> QED BY <1>2, <2>1, <2>2, <2>3
<1>4. ReadInteger(v) = EpochTime(q, r * w)
  BY <1>1, <1>2 DEF ReadInteger
<1>5. q * Second + r * w = v * w
  BY <1>1, <1>3
<1> QED BY <1>1, <1>4, <1>5 DEF EpochTime, AtInstant

\* A rounded quotient is half away from the exact one at most, and farther from
\* zero when it is half away.
LEMMA RoundedIsNearest ==
  ASSUME NEW n \in Int, NEW d \in Nat, d # 0
  PROVE  /\ Rounded(n, d) \in Int
         /\ Magnitude(2 * (Rounded(n, d) * d - n)) <= d
         /\ Magnitude(2 * (Rounded(n, d) * d - n)) = d
              => Magnitude(Rounded(n, d) * d) > Magnitude(n)
<1>1. PICK q \in Int, r \in Int :
        /\ q = QuoTruncated(n, d) /\ r = RemTruncated(n, d)
        /\ n = d * q + r
        /\ n >= 0 => 0 <= r /\ r < d
        /\ n <= 0 => -d < r /\ r <= 0
  BY Truncated
<1>2. PICK s \in {-1, 0, 1} :
        /\ Rounded(n, d) = q + s
        /\ 2 * Magnitude(r) >= d =>
             (n > 0 => s = 1) /\ (n < 0 => s = -1) /\ (n = 0 => s = 0)
        /\ ~(2 * Magnitude(r) >= d) => s = 0
  BY <1>1 DEF Rounded
<1>3. PICK p \in Int : p = d * q
  BY <1>1
<1>4. (q + s) * d = p + (IF s = 0 THEN 0 ELSE IF s = 1 THEN d ELSE -d)
  <2>1. q * d = p
    <3>1. d * q = q * d
      BY <1>1
    <3> QED BY <1>3, <3>1
  <2>2. (q + 1) * d = q * d + d /\ (q + 0) * d = q * d /\ (q + (-1)) * d = q * d - d
    BY <1>1
  <2> QED BY <1>2, <2>1, <2>2
<1>5. PICK x \in Int : x = Rounded(n, d) * d
                       /\ x = p + (IF s = 0 THEN 0 ELSE IF s = 1 THEN d ELSE -d)
  BY <1>2, <1>3, <1>4
<1>6. n = p + r
  BY <1>1, <1>3
<1>7. PICK e \in Int : e = x - n
                      /\ e = (IF s = 0 THEN 0 ELSE IF s = 1 THEN d ELSE -d) - r
  BY <1>1, <1>3, <1>5, <1>6
<1>8. Magnitude(2 * e) <= d
  BY <1>1, <1>2, <1>7 DEF Magnitude
<1>9. Magnitude(2 * e) = d => Magnitude(x) > Magnitude(n)
  <2>1. CASE n = 0
    BY <1>1, <1>2, <1>7, <2>1 DEF Magnitude
  <2>2. CASE n > 0
    <3>1. 0 <= r /\ r < d
      BY <1>1, <2>2
    <3>2. Magnitude(2 * e) = d => e > 0
      BY <1>1, <1>2, <1>7, <2>2, <3>1 DEF Magnitude
    <3> QED BY <1>7, <2>2, <3>2 DEF Magnitude
  <2>3. CASE n < 0
    <3>1. -d < r /\ r <= 0
      BY <1>1, <2>3
    <3>2. Magnitude(2 * e) = d => e < 0
      BY <1>1, <1>2, <1>7, <2>3, <3>1 DEF Magnitude
    <3> QED BY <1>7, <2>3, <3>2 DEF Magnitude
  <2> QED BY <2>1, <2>2, <2>3
<1>10. Rounded(n, d) \in Int
  BY <1>1, <1>2
<1> QED BY <1>5, <1>7, <1>8, <1>9, <1>10

\* A number that is no integer is read as its nearest nanosecond.
LEMMA DecimalInstant ==
  ASSUME NEW num \in Int, NEW den \in Nat, den # 0,
         NanosPerUnit(num, den) \in Nat,
         ~OutsideInt64(num, den)
  PROVE  ReadRational(num, den)
           = AtInstant(Rounded(num * NanosPerUnit(num, den), den))
<1>1. PICK x \in Int : x = num * NanosPerUnit(num, den)
  OBVIOUS
<1>2. PICK n \in Int : n = Rounded(x, den)
  BY RoundedIsNearest
<1>3. QuoTruncated(n, Second) * Second + RemTruncated(n, Second) = n
  <2>1. Second \in Nat /\ Second # 0
    BY Scale
  <2> QED BY <2>1, Rejoined
<1>4. ReadRational(num, den)
        = EpochTime(QuoTruncated(n, Second), RemTruncated(n, Second))
  BY <1>1, <1>2 DEF ReadRational
<1> QED BY <1>1, <1>2, <1>3, <1>4 DEF EpochTime, AtInstant

\* A whole number is its own rounding.
LEMMA WholeIsExact ==
  ASSUME NEW n \in Int PROVE Rounded(n, 1) = n
<1>1. PICK r \in Int : r = Rounded(n, 1) /\ Magnitude(2 * (r * 1 - n)) <= 1
  <2>1. 1 \in Nat /\ 1 # 0
    OBVIOUS
  <2> QED BY <2>1, RoundedIsNearest
<1> QED BY <1>1 DEF Magnitude

-----------------------------------------------------------------------------
(* What is read.                                                           *)

Parsed == text \in Text /\ (result = Unread \/ result = Parse(text))

\* Every state holds the parse of one text.
LEMMA ParsedHolds == TimestampSpec => []Parsed
<1>1. TimestampInit => Parsed
  BY DEF TimestampInit, Parsed
<1>2. Parsed /\ [TimestampNext]_timestampVars => Parsed'
  BY DEF Parsed, TimestampNext, ParseTimestamp, timestampVars
<1> QED BY <1>1, <1>2, PTL DEF TimestampSpec

\* What becomes of a number in either form.
LEMMA ParseOf ==
  ASSUME NEW t, t.num \in Int, t.den \in Nat \ {0},
         t.long \in BOOLEAN, t.extreme \in BOOLEAN,
         t.form = "integer" => t.den = 1 /\ ~t.extreme
  PROVE  /\ NanosPerUnit(t.num, t.den) \in Nat \ {0}
         /\ IF t.long \/ t.extreme \/ OutsideInt64(t.num, t.den)
            THEN Parse(t) = Rejected
            ELSE Parse(t) = AtInstant(Rounded(t.num * NanosPerUnit(t.num, t.den), t.den))
<1>2. NanosPerUnit(t.num, t.den) \in Nat \ {0}
  BY Scale DEF NanosPerUnit
<1>3. CASE t.long \/ t.extreme \/ OutsideInt64(t.num, t.den)
  <2>1. t.long \/ Parse(t) = ReadDecimal(t)
    <3>1. CASE t.form = "integer" /\ t.num \in MinInt .. MaxInt
      BY <1>3, <3>1, ScaleAssumption DEF OutsideInt64
    <3>2. CASE ~(t.form = "integer" /\ t.num \in MinInt .. MaxInt)
      BY <3>2 DEF Parse
    <3> QED BY <3>1, <3>2
  <2>2. CASE t.long
    BY <1>2, <1>3, <2>2 DEF Parse
  <2>3. CASE ~t.long
    BY <1>2, <1>3, <2>1, <2>3 DEF ReadDecimal, ReadRational
  <2> QED BY <1>3, <2>2, <2>3
<1>4. CASE /\ ~(t.long \/ t.extreme \/ OutsideInt64(t.num, t.den))
           /\ t.form = "integer" /\ t.num \in MinInt .. MaxInt
  <2>1. Parse(t) = AtInstant(t.num * NanosPerUnit(t.num, 1))
    BY <1>4, IntegerInstant DEF Parse
  <2>2. t.num * NanosPerUnit(t.num, 1) \in Int
    BY <1>2, <1>4
  <2> QED BY <1>2, <1>4, <2>1, <2>2, WholeIsExact
<1>5. CASE /\ ~(t.long \/ t.extreme \/ OutsideInt64(t.num, t.den))
           /\ ~(t.form = "integer" /\ t.num \in MinInt .. MaxInt)
  <2>1. Parse(t) = ReadRational(t.num, t.den)
    BY <1>5 DEF Parse, ReadDecimal
  <2> QED BY <1>2, <1>5, <2>1, DecimalInstant
<1> QED BY <1>2, <1>3, <1>4, <1>5

\* The number written, and what becomes of it.
LEMMA ParseIs ==
  ASSUME NEW t \in Text
  PROVE  /\ t.num \in Int /\ t.den \in Nat \ {0}
         /\ t.long \in BOOLEAN /\ t.extreme \in BOOLEAN
         /\ t.form = "integer" => t.den = 1 /\ ~t.extreme
         /\ NanosPerUnit(t.num, t.den) \in Nat \ {0}
         /\ IF t.long \/ t.extreme \/ OutsideInt64(t.num, t.den)
            THEN Parse(t) = Rejected
            ELSE Parse(t) = AtInstant(Rounded(t.num * NanosPerUnit(t.num, t.den), t.den))
<1>1. /\ t.num \in Int /\ t.den \in Nat \ {0}
      /\ t.long \in BOOLEAN /\ t.extreme \in BOOLEAN
      /\ t.form = "integer" => t.den = 1 /\ ~t.extreme
  <2>1. CASE t \in [num : Numerator, den : Denominator, form : {"decimal"},
                    long : BOOLEAN, extreme : BOOLEAN]
    BY <2>1, NumberAssumption
  <2>2. CASE t \in [num : Numerator, den : {1}, form : {"integer"},
                    long : BOOLEAN, extreme : {FALSE}]
    <3>1. t.num \in Numerator /\ t.den = 1 /\ ~t.extreme
      BY <2>2
    <3>2. t.num \in Int
      BY <3>1, NumberAssumption
    <3>3. t.den \in Nat \ {0}
      BY <3>1
    <3>4. t.long \in BOOLEAN /\ t.extreme \in BOOLEAN
      BY <2>2
    <3> QED BY <3>1, <3>2, <3>3, <3>4
  <2> QED BY <2>1, <2>2 DEF Text
<1> QED BY <1>1, ParseOf

\* An instant that was read is the number's, to the nearest nanosecond.
LEMMA ReadIsExact ==
  ASSUME Parsed PROVE ReadExactly
<1> SUFFICES ASSUME result.status = "read" PROVE ReadExactly
  BY DEF ReadExactly
<1>1. result = Parse(text)
  BY DEF Parsed, Unread
<1>2. text \in Text
  BY DEF Parsed
<1>3. PICK num \in Int, den \in Nat, w \in Nat :
        /\ num = text.num /\ den = text.den /\ den # 0
        /\ w = NanosPerUnit(num, den) /\ w = DocumentedNanos
  BY <1>2, ParseIs, UnitIsDocumented
<1>4. PICK x \in Int : x = num * w
  BY <1>3
<1>5. PICK n \in Int : /\ n = Rounded(x, den)
                       /\ Magnitude(2 * (n * den - x)) <= den
                       /\ Magnitude(2 * (n * den - x)) = den
                            => Magnitude(n * den) > Magnitude(x)
  BY <1>3, RoundedIsNearest
<1>6. Parse(text) = AtInstant(n)
  <2>1. Parse(text) # Rejected
    BY <1>1 DEF Rejected
  <2>2. Parse(text)
          = AtInstant(Rounded(text.num * NanosPerUnit(text.num, text.den), text.den))
    BY <1>2, <2>1, ParseIs
  <2> QED BY <1>3, <1>4, <1>5, <2>2
<1>7. result.instant = n
  BY <1>1, <1>6 DEF AtInstant, Rejected
<1> QED BY <1>3, <1>4, <1>5, <1>7 DEF ReadExactly

\* An instant outside the calendar is that of a number outside it.
LEMMA RejectedIsOutside ==
  ASSUME Parsed, result = Rejected, ~OverLimits PROVE OutsideCalendar
<1>1. result = Parse(text)
  BY DEF Parsed, Unread, Rejected
<1>2. text \in Text
  BY DEF Parsed
<1>3. PICK num \in Int, den \in Nat, w \in Nat :
        /\ num = text.num /\ den = text.den /\ den # 0
        /\ w = NanosPerUnit(num, den) /\ w = DocumentedNanos
  BY <1>2, ParseIs, UnitIsDocumented
<1>4. PICK x \in Int : x = num * w
  BY <1>3
<1>5. PICK n \in Int : n = Rounded(x, den) /\ Magnitude(2 * (n * den - x)) <= den
  BY <1>3, RoundedIsNearest
<1>6. Parse(text) = AtInstant(n)
  <2>1. Parse(text)
          = AtInstant(Rounded(text.num * NanosPerUnit(text.num, text.den), text.den))
    BY <1>2, ParseIs DEF OverLimits
  <2> QED BY <1>3, <1>4, <1>5, <2>1
<1> QED
  <2>1. PICK S \in Nat, F \in Int, L \in Int :
          S = Second /\ S # 0 /\ F = FirstSecond /\ L = LastSecond
    BY Scale, ScaleAssumption
  <2>2. n \div S < F \/ n \div S > L
    BY <1>1, <1>6, <2>1 DEF AtInstant, Rejected
  <2>3. PICK y \in Int : y = n \div S /\ S * y <= n /\ n < S * y + S
    BY <2>1
  <2>4. PICK nd \in Int : nd = n * den
    BY <1>3
  <2>5. 2 * (nd - x) <= den /\ -den <= 2 * (nd - x)
    BY <1>3, <1>5, <2>4 DEF Magnitude
  <2>6. CASE y < F
    <3>1. S * y + S <= F * S
      <4>1. S * (y + 1) <= S * F
        BY <2>1, <2>3, <2>6
      <4>2. S * (y + 1) = S * y + S /\ S * F = F * S
        BY <2>1, <2>3
      <4> QED BY <4>1, <4>2
    <3>2. PICK f \in Int : f = F * S
      BY <2>1
    <3>3. n <= f - 1
      BY <2>1, <2>3, <3>1, <3>2
    <3>4. n * den <= (f - 1) * den
      BY <1>3, <3>2, <3>3
    <3>5. (f - 1) * den = f * den - den
      BY <1>3, <3>2
    <3>6. PICK fd \in Int : fd = f * den
      BY <1>3, <3>2
    <3>7. x < fd
      BY <1>3, <2>4, <2>5, <3>4, <3>5, <3>6
    <3> QED BY <1>3, <1>4, <2>1, <3>2, <3>6, <3>7 DEF OutsideCalendar
  <2>7. CASE y > L
    <3>1. (L + 1) * S <= S * y
      <4>1. S * (L + 1) <= S * y
        BY <2>1, <2>3, <2>7
      <4>2. S * (L + 1) = (L + 1) * S
        BY <2>1
      <4> QED BY <4>1, <4>2
    <3>2. PICK f \in Int : f = (L + 1) * S
      BY <2>1
    <3>3. f <= n
      BY <2>1, <2>3, <3>1, <3>2
    <3>4. f * den <= n * den
      BY <1>3, <3>2, <3>3
    <3>5. 2 * (L + 1) * S = 2 * f
      <4>1. \A a, b \in Int : (2 * a) * b = 2 * (a * b)
        OBVIOUS
      <4> QED BY <2>1, <3>2, <4>1
    <3>6. (2 * f - 1) * den = 2 * (f * den) - den
      BY <1>3, <3>2
    <3>7. PICK fd \in Int : fd = f * den
      BY <1>3, <3>2
    <3>8. 2 * x >= 2 * fd - den
      BY <1>3, <2>4, <2>5, <3>4, <3>7
    <3>9. 2 * x >= (2 * (L + 1) * S - 1) * den
      BY <3>5, <3>6, <3>7, <3>8
    <3> QED BY <1>3, <1>4, <2>1, <3>9 DEF OutsideCalendar
  <2> QED BY <2>1, <2>2, <2>3, <2>6, <2>7

\* What is over a limit is refused, and nothing else inside the calendar.
LEMMA RejectedIsDocumented ==
  ASSUME Parsed PROVE RejectedAsDocumented
<1>1. ASSUME result # Unread, OverLimits PROVE result = Rejected
  <2>1. result = Parse(text) /\ text \in Text
    BY <1>1 DEF Parsed
  <2> QED BY <1>1, <2>1, ParseIs DEF OverLimits
<1> QED BY <1>1, RejectedIsOutside DEF RejectedAsDocumented

\* An integer is read as the decimal it could have been written as.
LEMMA FormsAreRead ==
  ASSUME Parsed PROVE FormsAgree
<1> SUFFICES ASSUME result # Unread, text.form = "integer" PROVE FormsAgree
  BY DEF FormsAgree
<1>1. result = Parse(text) /\ text \in Text
  BY DEF Parsed
<1> DEFINE t == [text EXCEPT !.form = "decimal"]
<1>2. text.den = 1 /\ ~text.extreme
  BY <1>1, ParseIs
<1>3. /\ t.num = text.num /\ t.den = text.den /\ t.form = "decimal"
      /\ t.long = text.long /\ t.extreme = text.extreme
  BY <1>1 DEF Text
<1>4. /\ t.num \in Int /\ t.den \in Nat \ {0}
      /\ t.long \in BOOLEAN /\ t.extreme \in BOOLEAN
  BY <1>1, <1>3, ParseIs
<1>5. Parse(t) = Parse(text)
  <2>1. t.form # "integer"
    BY <1>3
  <2> QED BY <1>1, <1>3, <1>4, <2>1, ParseIs, ParseOf
<1> QED BY <1>1, <1>5 DEF FormsAgree

\* A numeric timestamp is read in the documented unit to the nearest
\* nanosecond, rejected for its range, length or exponent alone, and read alike
\* in both forms, for every number and every scale of the units (ParseTimestamp).
THEOREM TimestampsAlwaysRead == TimestampSpec => []TimestampsAreRead
<1>1. Parsed => TimestampsAreRead
  BY ReadIsExact, RejectedIsDocumented, FormsAreRead DEF TimestampsAreRead
<1> QED BY <1>1, ParsedHolds, PTL

-----------------------------------------------------------------------------
(* Putting the members of a finite set in order.                           *)

\* What the order R puts before k, and the place that gives it.
Below(D, R, k) == {j \in D : <<j, k>> \in R}
PlaceIn(D, R) == [k \in D |-> Cardinality(Below(D, R, k)) + 1]

StrictOrder(D, R) ==
  /\ \A j \in D : <<j, j>> \notin R
  /\ \A j, k \in D : j # k => <<j, k>> \in R \/ <<k, j>> \in R
  /\ \A i, j, k \in D : <<i, j>> \in R /\ <<j, k>> \in R => <<i, k>> \in R

\* Places are taken once each, in the order R.
PlacedBy(D, R, n) ==
  /\ PlaceIn(D, R) \in [D -> 1 .. n]
  /\ \A j, k \in D : <<j, k>> \in R <=> PlaceIn(D, R)[j] < PlaceIn(D, R)[k]
  /\ \A j, k \in D : PlaceIn(D, R)[j] = PlaceIn(D, R)[k] => j = k
  /\ \A m \in 1 .. n : \E k \in D : PlaceIn(D, R)[k] = m

\* In a strict total order of a finite set, counting what comes before gives
\* each member its place.
LEMMA PlacesOf ==
  ASSUME NEW D, IsFiniteSet(D), NEW R, StrictOrder(D, R), NEW n, n = Cardinality(D)
  PROVE  n \in Nat /\ PlacedBy(D, R, n)
<1> DEFINE place == PlaceIn(D, R)
<1>0. /\ \A j \in D : <<j, j>> \notin R
      /\ \A j, k \in D : j # k => <<j, k>> \in R \/ <<k, j>> \in R
      /\ \A i, j, k \in D : <<i, j>> \in R /\ <<j, k>> \in R => <<i, k>> \in R
  BY DEF StrictOrder
<1>1. IsFiniteSet(D) /\ Cardinality(D) = n /\ n \in Nat
  BY FS_CardinalityType
<1>2. ASSUME NEW k \in D
      PROVE  /\ IsFiniteSet(Below(D, R, k)) /\ Cardinality(Below(D, R, k)) \in Nat
             /\ Cardinality(Below(D, R, k)) < n
  <2>1. Below(D, R, k) \subseteq D /\ k \in D /\ k \notin Below(D, R, k)
    BY <1>0 DEF Below
  <2>2. PICK B : B = Below(D, R, k)
    OBVIOUS
  <2>3. IsFiniteSet(B) /\ Cardinality(B) <= n /\ (Cardinality(D) = Cardinality(B) => D = B)
    BY <1>1, <2>1, <2>2, FS_Subset
  <2>4. Cardinality(B) \in Nat /\ Cardinality(B) # n
    BY <1>1, <2>1, <2>2, <2>3, FS_CardinalityType
  <2> QED BY <1>1, <2>2, <2>3, <2>4
<1>3. DOMAIN place = D /\ \A k \in D : place[k] = Cardinality(Below(D, R, k)) + 1
  BY DEF PlaceIn
<1> HIDE DEF place
<1>4. place \in [D -> 1 .. n]
  <2>1. place = [k \in D |-> place[k]]
    <3>1. PlaceIn(D, R) = [k \in D |-> PlaceIn(D, R)[k]]
      BY DEF PlaceIn
    <3> QED BY <3>1 DEF place
  <2>2. ASSUME NEW k \in D PROVE place[k] \in 1 .. n
    <3>1. PICK c : c = Cardinality(Below(D, R, k))
      OBVIOUS
    <3>2. c \in Nat /\ c < n /\ place[k] = c + 1
      BY <1>2, <1>3, <3>1, Zenon
    <3> QED BY <1>1, <3>2
  <2> QED BY <2>1, <2>2
<1>5. ASSUME NEW j \in D, NEW k \in D, <<j, k>> \in R
      PROVE  place[j] < place[k]
  <2>1. Below(D, R, j) \subseteq Below(D, R, k) /\ j \in Below(D, R, k) /\ j \notin Below(D, R, j)
    BY <1>0, <1>5 DEF Below
  <2>2. PICK A, B : A = Below(D, R, j) /\ B = Below(D, R, k)
    OBVIOUS
  <2>3. /\ IsFiniteSet(A) /\ IsFiniteSet(B)
        /\ Cardinality(A) \in Nat /\ Cardinality(B) \in Nat
    BY <1>2, <2>2
  <2>4. place[j] = Cardinality(A) + 1 /\ place[k] = Cardinality(B) + 1
    BY <1>3, <2>2
  <2>5. A \in SUBSET B /\ A # B
    BY <2>1, <2>2
  <2>6. Cardinality(A) <= Cardinality(B) /\ Cardinality(A) # Cardinality(B)
    BY <2>3, <2>5, FS_Subset
  <2> QED BY <2>3, <2>4, <2>6
<1>6. \A j, k \in D : place[j] \in Nat /\ place[k] \in Nat
  <2>1. \A j \in D : place[j] \in 1 .. n
    BY <1>4, Zenon
  <2> QED BY <1>1, <2>1
<1>7. ASSUME NEW j \in D, NEW k \in D, place[j] < place[k]
      PROVE  <<j, k>> \in R
  <2>1. CASE j = k
    BY <1>6, <1>7, <2>1
  <2>2. CASE j # k
    <3>1. CASE <<k, j>> \in R
      <4>1. place[k] < place[j]
        BY <1>5, <3>1
      <4> QED BY <1>6, <1>7, <4>1
    <3>2. CASE <<j, k>> \in R
      BY <3>2
    <3> QED BY <1>0, <2>2, <3>1, <3>2
  <2> QED BY <2>1, <2>2
<1>8. \A j, k \in D : place[j] = place[k] => j = k
  <2> SUFFICES ASSUME NEW j \in D, NEW k \in D, place[j] = place[k], j # k PROVE FALSE
    OBVIOUS
  <2>1. place[j] < place[k] \/ place[k] < place[j]
    BY <1>0, <1>5
  <2> QED BY <1>6, <2>1
<1>9. \A m \in 1 .. n : \E k \in D : place[k] = m
  <2>1. place \in Injection(D, 1 .. n)
    <3>1. IsInjective(place)
      BY <1>4, <1>8 DEF IsInjective
    <3> QED BY <1>4, <3>1 DEF Injection
  <2>2. IsFiniteSet(1 .. n) /\ Cardinality(1 .. n) = n
    BY <1>1, FS_Interval
  <2>3. place \in Surjection(D, 1 .. n)
    BY <1>1, <2>1, <2>2, FS_Injection
  <2> QED BY <2>3 DEF Surjection
<1> QED BY <1>1, <1>4, <1>5, <1>7, <1>8, <1>9 DEF place, PlacedBy

\* The first of them.
LEMMA FirstOf ==
  ASSUME NEW D, IsFiniteSet(D), D # {}, NEW R, StrictOrder(D, R)
  PROVE  \E m \in D : \A k \in D \ {m} : <<m, k>> \in R
<1>1. PICK n : n = Cardinality(D)
  OBVIOUS
<1>2. n \in Nat /\ PlacedBy(D, R, n) /\ n # 0
  BY <1>1, PlacesOf, FS_EmptySet
<1>3. PICK m \in D : PlaceIn(D, R)[m] = 1
  BY <1>2 DEF PlacedBy
<1>4. ASSUME NEW k \in D \ {m} PROVE <<m, k>> \in R
  <2>1. PlaceIn(D, R)[k] \in 1 .. n /\ PlaceIn(D, R)[k] # 1
    BY <1>2, <1>3 DEF PlacedBy
  <2>2. PlaceIn(D, R)[m] < PlaceIn(D, R)[k]
    BY <1>2, <1>3, <2>1
  <2> QED BY <1>2, <2>2 DEF PlacedBy
<1> QED BY <1>4

\* A finite set of naturals has a greatest member.
LEMMA GreatestOf ==
  ASSUME NEW D, IsFiniteSet(D), D # {}, D \subseteq Nat
  PROVE  \E d \in D : \A x \in D : x <= d
<1>1. PICK R : R = {p \in D \X D : p[1] > p[2]}
  OBVIOUS
<1>2. \A x, y \in D : <<x, y>> \in R <=> x > y
  BY <1>1
<1>3. StrictOrder(D, R)
  <2>1. \A x, y \in D : x \in Nat /\ y \in Nat
    OBVIOUS
  <2> QED BY <1>2, <2>1 DEF StrictOrder
<1>4. PICK d \in D : \A x \in D \ {d} : <<d, x>> \in R
  BY <1>3, FirstOf
<1>5. ASSUME NEW x \in D PROVE x <= d
  <2>1. x \in Nat /\ d \in Nat
    OBVIOUS
  <2>2. x = d \/ d > x
    BY <1>2, <1>4
  <2> QED BY <2>1, <2>2
<1> QED BY <1>5

-----------------------------------------------------------------------------
(* The order of rows.                                                      *)

\* Rows with numbers of their own, and fields of the types the code gives them.
Distinct(S) ==
  /\ \A a \in S : /\ a.ts \in Nat /\ a.place \in Nat /\ a.row \in Nat
                  /\ a.ha \in Nat \cup {MissingHA} /\ EntityRank(a.entity) \in Nat
  /\ \A a, b \in S : a.row = b.row => a = b
  /\ \A a, b \in S : EntityRank(a.entity) = EntityRank(b.entity) => a.entity = b.entity

BetterIn(S) == {p \in S \X S : BetterRepresentative(p[1], p[2])}
SortedIn(S) == {p \in S \X S : SortsBefore(p[1], p[2])}

\* The collapse and the sort compare rows by strict total orders.
LEMMA BetterIsStrict ==
  ASSUME NEW S, Distinct(S)
  PROVE  StrictOrder(S, BetterIn(S))
<1>0. /\ \A a \in S : /\ a.ts \in Nat /\ a.place \in Nat /\ a.row \in Nat
                      /\ a.ha \in Nat \cup {MissingHA}
      /\ \A a, b \in S : a.row = b.row => a = b
  BY DEF Distinct
<1>1. \A a, b \in S : <<a, b>> \in BetterIn(S) <=> BetterRepresentative(a, b)
  BY DEF BetterIn
<1>2. ASSUME NEW a \in S PROVE ~BetterRepresentative(a, a)
  BY <1>0 DEF BetterRepresentative
<1>3. ASSUME NEW a \in S, NEW b \in S, a # b
      PROVE  BetterRepresentative(a, b) \/ BetterRepresentative(b, a)
  BY <1>0, <1>3 DEF BetterRepresentative, HasHA, MissingHA
<1>4. ASSUME NEW a \in S, NEW b \in S, NEW c \in S,
             BetterRepresentative(a, b), BetterRepresentative(b, c)
      PROVE  BetterRepresentative(a, c)
  BY <1>0, <1>4 DEF BetterRepresentative, HasHA, MissingHA
<1> QED BY <1>1, <1>2, <1>3, <1>4 DEF StrictOrder

\* Likewise of the sort, which compares entity and time first.
LEMMA SortIsStrict ==
  ASSUME NEW S, Distinct(S)
  PROVE  StrictOrder(S, SortedIn(S))
<1>0. /\ \A a \in S : a.ts \in Nat /\ EntityRank(a.entity) \in Nat
      /\ \A a, b \in S : EntityRank(a.entity) = EntityRank(b.entity) => a.entity = b.entity
  BY DEF Distinct
<1>1. \A a, b \in S : <<a, b>> \in SortedIn(S) <=> SortsBefore(a, b)
  BY DEF SortedIn
<1>2. /\ \A a \in S : ~BetterRepresentative(a, a)
      /\ \A a, b \in S : a # b => BetterRepresentative(a, b) \/ BetterRepresentative(b, a)
      /\ \A a, b, c \in S : BetterRepresentative(a, b) /\ BetterRepresentative(b, c)
                              => BetterRepresentative(a, c)
  BY BetterIsStrict DEF StrictOrder, BetterIn
<1>3. ASSUME NEW a \in S PROVE ~SortsBefore(a, a)
  BY <1>2 DEF SortsBefore
<1>4. ASSUME NEW a \in S, NEW b \in S, a # b
      PROVE  SortsBefore(a, b) \/ SortsBefore(b, a)
  BY <1>0, <1>2, <1>4 DEF SortsBefore
<1>5. ASSUME NEW a \in S, NEW b \in S, NEW c \in S,
             SortsBefore(a, b), SortsBefore(b, c)
      PROVE  SortsBefore(a, c)
  BY <1>0, <1>2, <1>5 DEF SortsBefore
<1> QED BY <1>1, <1>3, <1>4, <1>5 DEF StrictOrder

\* A sequence of the rows of S, each once, in the order of the sort.
InSortOrder(s, S) ==
  /\ s \in Seq(S)
  /\ \A i, j \in DOMAIN s : i < j <=> SortsBefore(s[i], s[j])
  /\ \A r \in S : \E i \in DOMAIN s : s[i] = r

\* Counting the rows before each one puts all of them in order.
LEMMA SortedIsInOrder ==
  ASSUME NEW S, IsFiniteSet(S), Distinct(S)
  PROVE  InSortOrder(Sorted(S), S)
<1> DEFINE R == SortedIn(S)
           place == PlaceIn(S, R)
           s == Sorted(S)
<1>1. PICK n : n = Cardinality(S)
  OBVIOUS
<1>2. n \in Nat /\ PlacedBy(S, R, n)
  BY <1>1, SortIsStrict, PlacesOf
<1>3. /\ place \in [S -> 1 .. n]
      /\ \A a, b \in S : SortsBefore(a, b) <=> place[a] < place[b]
      /\ \A a, b \in S : place[a] = place[b] => a = b
      /\ \A m \in 1 .. n : \E a \in S : place[a] = m
  BY <1>2 DEF PlacedBy, SortedIn
<1>4. ASSUME NEW r \in S
      PROVE  /\ Cardinality({q \in S : SortsBefore(q, r)}) \in Nat
             /\ place[r] = Cardinality({q \in S : SortsBefore(q, r)}) + 1
  <2>1. {q \in S : SortsBefore(q, r)} = Below(S, R, r)
    BY DEF Below, SortedIn
  <2>2. IsFiniteSet({q \in S : SortsBefore(q, r)})
    BY FS_Subset
  <2>3. Cardinality({q \in S : SortsBefore(q, r)}) \in Nat
    BY <2>2, FS_CardinalityType
  <2> QED BY <2>1, <2>3 DEF PlaceIn
<1> HIDE DEF place
<1>5. s = [i \in 1 .. n |-> CHOOSE r \in S : Cardinality({q \in S : SortsBefore(q, r)}) = i - 1]
  BY <1>1 DEF Sorted
<1> HIDE DEF s
<1>6. ASSUME NEW i \in 1 .. n PROVE s[i] \in S /\ place[s[i]] = i
  <2>1. PICK a \in S : place[a] = i
    BY <1>3
  <2>2. Cardinality({q \in S : SortsBefore(q, a)}) = i - 1
    <3>1. PICK c : c = Cardinality({q \in S : SortsBefore(q, a)})
      OBVIOUS
    <3>2. c \in Nat /\ place[a] = c + 1
      BY <1>4, <3>1, Zenon
    <3> QED BY <2>1, <3>1, <3>2
  <2>3. s[i] = CHOOSE r \in S : Cardinality({q \in S : SortsBefore(q, r)}) = i - 1
    BY <1>5
  <2>4. s[i] \in S /\ Cardinality({q \in S : SortsBefore(q, s[i])}) = i - 1
    BY <2>2, <2>3
  <2>5. PICK r : r = s[i]
    OBVIOUS
  <2>6. PICK c : c = Cardinality({q \in S : SortsBefore(q, r)})
    OBVIOUS
  <2>7. place[r] = c + 1
    BY <1>4, <2>4, <2>5, <2>6, Zenon
  <2> QED BY <2>4, <2>5, <2>6, <2>7
<1>7. DOMAIN s = 1 .. n /\ s \in Seq(S)
  <2>1. s = [i \in 1 .. n |-> s[i]] /\ DOMAIN s = 1 .. n
    <3>1. Sorted(S) = [i \in 1 .. n |-> Sorted(S)[i]] /\ DOMAIN Sorted(S) = 1 .. n
      BY <1>1 DEF Sorted
    <3> QED BY <3>1 DEF s
  <2>2. s \in [1 .. n -> S]
    BY <1>6, <2>1
  <2> QED BY <1>2, <2>1, <2>2
<1>8. \A i, j \in 1 .. n : i < j <=> SortsBefore(s[i], s[j])
  BY <1>3, <1>6
<1>9. \A r \in S : \E i \in 1 .. n : s[i] = r
  <2> SUFFICES ASSUME NEW r \in S PROVE \E i \in 1 .. n : s[i] = r
    OBVIOUS
  <2>1. place[r] \in 1 .. n
    BY <1>3
  <2> QED BY <1>3, <1>6, <2>1
<1> QED BY <1>7, <1>8, <1>9 DEF InSortOrder, s

-----------------------------------------------------------------------------
(* The representative of a group.                                          *)

\* Distances are naturals.
LEMMA DistanceType ==
  ASSUME NEW p \in Nat, NEW q \in Nat
  PROVE  Distance(p, q) \in Nat
BY DEF Distance

\* The farthest member of a group is as far as can be, so the choice is one.
LEMMA FarthestIs ==
  ASSUME NEW G, IsFiniteSet(G), G # {}, NEW b, b.place \in Nat,
         \A g \in G : g.place \in Nat
  PROVE  /\ \E g \in G : Farthest(b, G) = Distance(b.place, g.place)
         /\ \A g \in G : Distance(b.place, g.place) <= Farthest(b, G)
<1> DEFINE D == {Distance(b.place, g.place) : g \in G}
<1>1. IsFiniteSet(D)
  <2> DEFINE f == [g \in G |-> Distance(b.place, g.place)]
  <2>1. f \in Surjection(G, D)
    BY DEF Surjection
  <2> HIDE DEF f, D
  <2> QED BY <2>1, FS_Surjection
<1>2. D # {} /\ D \subseteq Nat
  BY DistanceType
<1> HIDE DEF D
<1>5. PICK d \in D : \A x \in D : x <= d
  BY <1>1, <1>2, GreatestOf
<1>6. \A g \in G : Distance(b.place, g.place) <= d
  BY <1>5 DEF D
<1>7. /\ Farthest(b, G) \in D
      /\ \A g \in G : Distance(b.place, g.place) <= Farthest(b, G)
  BY <1>6, Zenon DEF Farthest, D
<1> QED BY <1>7 DEF D

\* Only the places of the group and of the representative matter to it.
LEMMA FarthestOfPlaces ==
  ASSUME NEW G, IsFiniteSet(G), G # {}, NEW b, b.place \in Nat,
         \A g \in G : g.place \in Nat,
         NEW H, IsFiniteSet(H), H # {}, NEW c, c.place = b.place,
         \A g \in G : \E h \in H : h.place = g.place,
         \A h \in H : \E g \in G : h.place = g.place
  PROVE  Farthest(b, G) = Farthest(c, H)
<1>1. \A h \in H : h.place \in Nat
  OBVIOUS
<1>2. PICK x, y : x = Farthest(b, G) /\ y = Farthest(c, H)
  OBVIOUS
<1>3. PICK p \in Nat : p = b.place /\ p = c.place
  OBVIOUS
<1>4. PICK g \in G : /\ x = Distance(p, g.place)
                     /\ \A k \in G : Distance(p, k.place) <= x
  <2>1. /\ \E g \in G : Farthest(b, G) = Distance(b.place, g.place)
        /\ \A g \in G : Distance(b.place, g.place) <= Farthest(b, G)
    BY FarthestIs
  <2> QED BY <1>2, <1>3, <2>1, Zenon
<1>5. PICK h \in H : /\ y = Distance(p, h.place)
                     /\ \A k \in H : Distance(p, k.place) <= y
  <2>1. /\ \E h \in H : Farthest(c, H) = Distance(c.place, h.place)
        /\ \A h \in H : Distance(c.place, h.place) <= Farthest(c, H)
    BY <1>1, FarthestIs
  <2> QED BY <1>2, <1>3, <2>1, Zenon
<1>6. x <= y /\ y <= x
  BY <1>4, <1>5
<1>7. x \in Nat /\ y \in Nat
  BY <1>1, <1>4, <1>5, DistanceType
<1> QED BY <1>2, <1>6, <1>7

\* The representative of a group is a member of it, better than the others.
LEMMA Representative ==
  ASSUME NEW G, IsFiniteSet(G), G # {}, Distinct(G)
  PROVE  LET o == Collapsed(G)
         IN  /\ o.fix \in G /\ o.samples = Cardinality(G)
             /\ \A g \in G \ {o.fix} : BetterRepresentative(o.fix, g)
             /\ o.scatter = Farthest(o.fix, G)
             /\ o = [fix |-> o.fix, samples |-> o.samples, scatter |-> o.scatter]
<1>1. PICK m \in G : \A k \in G \ {m} : <<m, k>> \in BetterIn(G)
  BY BetterIsStrict, FirstOf
<1>2. \A k \in G \ {m} : BetterRepresentative(m, k)
  BY <1>1 DEF BetterIn
<1> DEFINE best == CHOOSE b \in G : \A g \in G \ {b} : BetterRepresentative(b, g)
<1>3. best \in G /\ \A g \in G \ {best} : BetterRepresentative(best, g)
  BY <1>2, Zenon
<1> HIDE DEF best
<1>4. Collapsed(G) = [fix |-> best, samples |-> Cardinality(G), scatter |-> Farthest(best, G)]
  BY Zenon DEF Collapsed, best
<1> QED BY <1>3, <1>4

-----------------------------------------------------------------------------
(* Runs of equal keys.                                                     *)

\* A set of naturals has a least member.
LEMMA LeastNatural ==
  ASSUME NEW T, T \subseteq Nat, T # {}
  PROVE  \E x \in T : \A y \in T : x <= y
<1> DEFINE R == OpToRel(<, Nat)
<1>1. PICK x \in T : \A y \in T : ~(<<y, x>> \in R)
  <2>1. IsWellFoundedOn(R, Nat)
    BY NatLessThanWellFounded
  <2> HIDE DEF R
  <2> QED BY <2>1, WFMin
<1>2. ASSUME NEW y \in T PROVE x <= y
  <2>1. y \in Nat /\ x \in Nat
    OBVIOUS
  <2>2. <<y, x>> \in R <=> y < x
    BY <2>1 DEF OpToRel
  <2> HIDE DEF R
  <2> QED BY <1>1, <2>1, <2>2
<1> QED BY <1>2

\* A run that starts at i ends somewhere.
LEMMA RunEnds ==
  ASSUME NEW n \in Nat, NEW i \in 1 .. n, NEW K
  PROVE  \E j \in i .. n : /\ \A k \in i .. j : K[k] = K[i]
                           /\ j < n => K[j + 1] # K[i]
<1> DEFINE T == {k \in i + 1 .. n : K[k] # K[i]}
<1>1. CASE T = {}
  <2>1. \A k \in i .. n : K[k] = K[i]
    BY <1>1
  <2> QED BY <2>1
<1>2. CASE T # {}
  <2>1. PICK x \in T : \A y \in T : x <= y
    <3>1. T \subseteq Nat
      OBVIOUS
    <3> HIDE DEF T
    <3> QED BY <1>2, <3>1, LeastNatural
  <2>2. \A k \in i .. x - 1 : K[k] = K[i]
    BY <2>1
  <2>3. x - 1 \in i .. n /\ (x - 1) + 1 = x /\ K[x] # K[i]
    OBVIOUS
  <2> QED BY <2>2, <2>3
<1> QED BY <1>1, <1>2

\* The two keys whose runs are asked for.
LEMMA EndOfTime ==
  ASSUME NEW s, NEW n \in Nat, n = Len(s), NEW i \in 1 .. n,
         NEW j, j = EndOfRun(s, i, LAMBDA r : r.ts)
  PROVE  /\ j \in i .. n
         /\ \A k \in i .. j : s[k].ts = s[i].ts
         /\ j < n => s[j + 1].ts # s[i].ts
<1> DEFINE K == [k \in 1 .. n |-> s[k].ts]
<1>1. \A k \in 1 .. n : K[k] = s[k].ts
  OBVIOUS
<1> HIDE DEF K
<1>2. PICK e \in i .. n : /\ \A k \in i .. e : K[k] = K[i]
                          /\ e < n => K[e + 1] # K[i]
  BY RunEnds
<1>3. /\ \A k \in i .. e : s[k].ts = s[i].ts
      /\ e < n => s[e + 1].ts # s[i].ts
  BY <1>1, <1>2
<1>4. j = CHOOSE x \in i .. n : /\ \A k \in i .. x : s[k].ts = s[i].ts
                                /\ x < n => s[x + 1].ts # s[i].ts
  BY DEF EndOfRun
<1> QED BY <1>3, <1>4, Zenon

\* The run of an entity ends where the entity changes.
LEMMA EndOfEntity ==
  ASSUME NEW s, NEW n \in Nat, n = Len(s), NEW i \in 1 .. n,
         NEW j, j = EndOfRun(s, i, LAMBDA r : r.entity)
  PROVE  /\ j \in i .. n
         /\ \A k \in i .. j : s[k].entity = s[i].entity
         /\ j < n => s[j + 1].entity # s[i].entity
<1> DEFINE K == [k \in 1 .. n |-> s[k].entity]
<1>1. \A k \in 1 .. n : K[k] = s[k].entity
  OBVIOUS
<1> HIDE DEF K
<1>2. PICK e \in i .. n : /\ \A k \in i .. e : K[k] = K[i]
                          /\ e < n => K[e + 1] # K[i]
  BY RunEnds
<1>3. /\ \A k \in i .. e : s[k].entity = s[i].entity
      /\ e < n => s[e + 1].entity # s[i].entity
  BY <1>1, <1>2
<1>4. j = CHOOSE x \in i .. n : /\ \A k \in i .. x : s[k].entity = s[i].entity
                                /\ x < n => s[x + 1].entity # s[i].entity
  BY DEF EndOfRun
<1> QED BY <1>3, <1>4, Zenon

-----------------------------------------------------------------------------
(* The collapse.                                                           *)

\* The rows of s at the time t, and the times of s.
Together(s, t) == {s[k] : k \in {i \in 1 .. Len(s) : s[i].ts = t}}
TimesIn(s) == {s[k].ts : k \in 1 .. Len(s)}

\* Rows in the order of time.
InTime(s) ==
  /\ Len(s) \in Nat /\ DOMAIN s = 1 .. Len(s)
  /\ \A i \in 1 .. Len(s) : s[i].ts \in Nat
  /\ \A i, j \in 1 .. Len(s) : i <= j => s[i].ts <= s[j].ts

Starts(s) == {i \in DOMAIN s : i = 1 \/ s[i - 1].ts # s[i].ts}

\* A group holds all rows of its time.
LEMMA GroupIsTogether ==
  ASSUME NEW s, InTime(s), NEW i \in Starts(s)
  PROVE  GroupAt(s, i) = Together(s, s[i].ts)
<1>1. PICK n \in Nat : n = Len(s) /\ DOMAIN s = 1 .. n
  BY DEF InTime
<1>2. i \in 1 .. n /\ (i = 1 \/ s[i - 1].ts # s[i].ts)
  BY <1>1 DEF Starts
<1>3. PICK j : j = EndOfRun(s, i, LAMBDA r : r.ts)
  OBVIOUS
<1>4. /\ j \in i .. n
      /\ \A k \in i .. j : s[k].ts = s[i].ts
      /\ j < n => s[j + 1].ts # s[i].ts
  BY <1>1, <1>2, <1>3, EndOfTime
<1>5. /\ \A k \in 1 .. n : s[k].ts \in Nat
      /\ \A k, l \in 1 .. n : k <= l => s[k].ts <= s[l].ts
  BY <1>1 DEF InTime
<1>6. ASSUME NEW k \in 1 .. n, s[k].ts = s[i].ts PROVE k \in i .. j
  <2>1. ASSUME k < i PROVE FALSE
    <3>1. i - 1 \in 1 .. n /\ k <= i - 1 /\ i - 1 <= i /\ i # 1
      BY <1>2, <2>1
    <3>2. s[k].ts <= s[i - 1].ts /\ s[i - 1].ts <= s[i].ts
      BY <1>2, <1>5, <3>1
    <3>3. s[i - 1].ts \in Nat /\ s[i].ts \in Nat
      BY <1>2, <1>5, <3>1
    <3> QED BY <1>2, <1>6, <3>1, <3>2, <3>3
  <2>2. ASSUME k > j PROVE FALSE
    <3>1. j + 1 \in 1 .. n /\ j + 1 <= k /\ i <= j + 1 /\ j < n
      BY <1>2, <1>4, <2>2
    <3>2. s[i].ts <= s[j + 1].ts /\ s[j + 1].ts <= s[k].ts
      BY <1>2, <1>5, <3>1
    <3>3. s[j + 1].ts \in Nat /\ s[i].ts \in Nat
      BY <1>2, <1>5, <3>1
    <3> QED BY <1>4, <1>6, <3>1, <3>2, <3>3
  <2> QED BY <1>2, <1>4, <2>1, <2>2
<1>7. i .. j = {k \in 1 .. n : s[k].ts = s[i].ts}
  BY <1>2, <1>4, <1>6
<1>8. GroupAt(s, i) = {s[k] : k \in i .. j}
  BY <1>3 DEF GroupAt
<1> QED BY <1>1, <1>7, <1>8 DEF Together

\* The starts in order: the n-th is the one with n starts up to it.
Enumeration(s) ==
  [n \in 1 .. Cardinality(Starts(s)) |->
     CHOOSE i \in Starts(s) : Cardinality(Starts(s) \cap 1 .. i) = n]
Enumerates(start, S, m) ==
  /\ m \in Nat /\ start \in [1 .. m -> S]
  /\ \A j, k \in 1 .. m : j < k <=> start[j] < start[k]
  /\ \A i \in S : \E n \in 1 .. m : start[n] = i

\* The enumeration passes every start once, in order.
LEMMA StartsInOrder ==
  ASSUME NEW s, InTime(s)
  PROVE  Enumerates(Enumeration(s), Starts(s), Cardinality(Starts(s)))
<1>0. PICK m, start : m = Cardinality(Starts(s)) /\ start = Enumeration(s)
  OBVIOUS
<1>a. start = [n \in 1 .. m |-> CHOOSE i \in Starts(s) :
                                  Cardinality(Starts(s) \cap 1 .. i) = n]
  BY <1>0 DEF Enumeration
<1>1. PICK D, R : D = Starts(s) /\ R = {p \in D \X D : p[1] < p[2]}
  OBVIOUS
<1>2. D \subseteq Nat /\ IsFiniteSet(D)
  <2>1. PICK n \in Nat : n = Len(s) /\ DOMAIN s = 1 .. n
    BY DEF InTime
  <2>2. D \subseteq 1 .. n
    BY <1>1, <2>1 DEF Starts
  <2>3. IsFiniteSet(1 .. n)
    BY <2>1, FS_Interval
  <2>4. IsFiniteSet(D)
    BY <2>2, <2>3, FS_Subset
  <2> QED BY <2>2, <2>4
<1>3. \A i, j \in D : <<i, j>> \in R <=> i < j
  BY <1>1
<1>4. StrictOrder(D, R)
  <2>1. \A i \in D : i \in Nat
    BY <1>2
  <2> QED BY <1>3, <2>1 DEF StrictOrder
<1>5. m \in Nat /\ PlacedBy(D, R, m)
  BY <1>0, <1>1, <1>2, <1>4, PlacesOf
<1>6. PICK place : place = PlaceIn(D, R)
  OBVIOUS
<1>7. /\ place \in [D -> 1 .. m]
      /\ \A i, j \in D : i < j <=> place[i] < place[j]
      /\ \A i, j \in D : place[i] = place[j] => i = j
      /\ \A n \in 1 .. m : \E i \in D : place[i] = n
  BY <1>3, <1>5, <1>6 DEF PlacedBy
<1>8. ASSUME NEW i \in D PROVE place[i] = Cardinality(D \cap 1 .. i)
  <2>1. PICK B : B = Below(D, R, i)
    OBVIOUS
  <2>2. B \subseteq D /\ i \notin B /\ B \cup {i} = D \cap 1 .. i
    <3>1. 0 \notin D
      BY <1>1 DEF Starts, InTime
    <3>2. \A j \in D : j \in Nat /\ j # 0
      BY <1>2, <3>1
    <3>3. \A j \in D : j \in B <=> j < i
      BY <1>3, <2>1 DEF Below
    <3>4. B \subseteq D
      BY <2>1 DEF Below
    <3> QED BY <3>2, <3>3, <3>4
  <2>3. IsFiniteSet(B)
    BY <1>2, <2>2, FS_Subset
  <2>4. Cardinality(B \cup {i}) = Cardinality(B) + 1
    BY <2>2, <2>3, FS_AddElement
  <2>5. place[i] = Cardinality(B) + 1
    BY <1>6, <2>1 DEF PlaceIn
  <2> QED BY <2>2, <2>4, <2>5
<1>9. ASSUME NEW n \in 1 .. m PROVE start[n] \in D /\ place[start[n]] = n
  <2>1. PICK i \in D : place[i] = n
    BY <1>7
  <2>2. Cardinality(D \cap 1 .. i) = n
    BY <1>8, <2>1
  <2>3. start[n] = CHOOSE k \in D : Cardinality(D \cap 1 .. k) = n
    BY <1>1, <1>a
  <2>4. start[n] \in D /\ Cardinality(D \cap 1 .. start[n]) = n
    BY <2>2, <2>3
  <2> QED BY <1>8, <2>4
<1>10. start \in [1 .. m -> Starts(s)]
  <2>1. \A n \in 1 .. m : (CHOOSE i \in Starts(s) :
                             Cardinality(Starts(s) \cap 1 .. i) = n) \in Starts(s)
    <3> SUFFICES ASSUME NEW n \in 1 .. m
                 PROVE  (CHOOSE i \in Starts(s) :
                           Cardinality(Starts(s) \cap 1 .. i) = n) \in Starts(s)
      OBVIOUS
    <3>1. start[n] = CHOOSE i \in Starts(s) : Cardinality(Starts(s) \cap 1 .. i) = n
      BY <1>a
    <3> QED BY <1>1, <1>9, <3>1
  <2> QED BY <1>a, <2>1
<1>11. ASSUME NEW j \in 1 .. m, NEW k \in 1 .. m
       PROVE  j < k <=> start[j] < start[k]
  <2>1. /\ start[j] \in D /\ place[start[j]] = j
        /\ start[k] \in D /\ place[start[k]] = k
    BY <1>9
  <2>2. start[j] < start[k] <=> place[start[j]] < place[start[k]]
    BY <1>7, <2>1
  <2> QED BY <2>1, <2>2
<1>12. \A i \in D : \E n \in 1 .. m : start[n] = i
  <2> SUFFICES ASSUME NEW i \in D PROVE \E n \in 1 .. m : start[n] = i
    OBVIOUS
  <2>1. place[i] \in 1 .. m
    BY <1>7
  <2> QED BY <1>7, <1>9, <2>1
<1> QED BY <1>0, <1>1, <1>5, <1>10, <1>11, <1>12 DEF Enumerates

\* Every time of s is that of one start, and the starts are in time.
LEMMA StartsAndTimes ==
  ASSUME NEW s, InTime(s)
  PROVE  /\ \A t \in TimesIn(s) : \E i \in Starts(s) : s[i].ts = t
         /\ \A i \in Starts(s) : s[i].ts \in TimesIn(s)
         /\ \A i, j \in Starts(s) : i < j => s[i].ts < s[j].ts
<1>1. PICK n \in Nat : n = Len(s) /\ DOMAIN s = 1 .. n
  BY DEF InTime
<1>2. /\ \A k \in 1 .. n : s[k].ts \in Nat
      /\ \A k, l \in 1 .. n : k <= l => s[k].ts <= s[l].ts
  BY <1>1 DEF InTime
<1>3. ASSUME NEW t \in TimesIn(s) PROVE \E i \in Starts(s) : s[i].ts = t
  <2> DEFINE T == {k \in 1 .. n : s[k].ts = t}
  <2>1. T # {} /\ T \subseteq Nat
    BY <1>1 DEF TimesIn
  <2>2. PICK i \in T : \A y \in T : i <= y
    <3> HIDE DEF T
    <3> QED BY <2>1, LeastNatural
  <2>3. i \in 1 .. n /\ s[i].ts = t
    OBVIOUS
  <2>4. i = 1 \/ s[i - 1].ts # s[i].ts
    <3> SUFFICES ASSUME i # 1, s[i - 1].ts = s[i].ts PROVE FALSE
      OBVIOUS
    <3>1. i - 1 \in T /\ ~(i <= i - 1)
      BY <2>3
    <3> QED BY <2>2, <3>1
  <2> QED BY <1>1, <2>3, <2>4 DEF Starts
<1>4. \A i \in Starts(s) : s[i].ts \in TimesIn(s)
  BY <1>1 DEF Starts, TimesIn
<1>5. ASSUME NEW i \in Starts(s), NEW j \in Starts(s), i < j PROVE s[i].ts < s[j].ts
  <2>1. i \in 1 .. n /\ j \in 1 .. n /\ j # 1 /\ s[j - 1].ts # s[j].ts
    BY <1>1, <1>5 DEF Starts
  <2>2. j - 1 \in 1 .. n /\ i <= j - 1 /\ j - 1 <= j
    BY <1>5, <2>1
  <2>3. s[i].ts <= s[j - 1].ts /\ s[j - 1].ts <= s[j].ts
    BY <1>2, <2>1, <2>2
  <2>4. s[i].ts \in Nat /\ s[j - 1].ts \in Nat /\ s[j].ts \in Nat
    BY <1>2, <2>1, <2>2
  <2> QED BY <2>1, <2>3, <2>4
<1> QED BY <1>3, <1>4, <1>5

\* The collapse makes one observation of the rows of each time, in time.
LEMMA CollapseIs ==
  ASSUME NEW s, InTime(s), NEW o, o = CollapseSameTimestamp(s)
  PROVE  /\ IsFiniteSet(TimesIn(s))
         /\ DOMAIN o = 1 .. Cardinality(TimesIn(s)) /\ Len(o) = Cardinality(TimesIn(s))
         /\ \E t \in [DOMAIN o -> TimesIn(s)] :
              /\ \A n \in DOMAIN o : o[n] = Collapsed(Together(s, t[n]))
              /\ \A m, n \in DOMAIN o : m < n => t[m] < t[n]
              /\ \A x \in TimesIn(s) : \E n \in DOMAIN o : t[n] = x
<1>1. PICK S, T : S = Starts(s) /\ T = TimesIn(s)
  OBVIOUS
<1>2. PICK m : m = Cardinality(S)
  OBVIOUS
<1>3. PICK start : start = Enumeration(s)
  OBVIOUS
<1>4. /\ m \in Nat /\ start \in [1 .. m -> S]
      /\ \A j, k \in 1 .. m : j < k <=> start[j] < start[k]
      /\ \A i \in S : \E n \in 1 .. m : start[n] = i
  <2>1. Enumerates(start, S, m)
    BY <1>1, <1>2, <1>3, StartsInOrder
  <2> QED BY <2>1 DEF Enumerates
<1>5. /\ \A x \in T : \E i \in S : s[i].ts = x
      /\ \A i \in S : s[i].ts \in T
      /\ \A i, j \in S : i < j => s[i].ts < s[j].ts
  BY <1>1, StartsAndTimes
<1>6. o = [n \in 1 .. m |-> Collapsed(GroupAt(s, start[n]))]
  <2>1. o = [n \in DOMAIN start |-> Collapsed(GroupAt(s, start[n]))]
    BY <1>1, <1>2, <1>3 DEF CollapseSameTimestamp, Starts, Enumeration
  <2> QED BY <1>4, <2>1
<1>7. DOMAIN o = 1 .. m /\ Len(o) = m
  BY <1>4, <1>6
<1>8. PICK t : t = [n \in 1 .. m |-> s[start[n]].ts]
  OBVIOUS
<1>9. /\ t \in [1 .. m -> T]
      /\ \A j, k \in 1 .. m : j < k => t[j] < t[k]
      /\ \A x \in T : \E n \in 1 .. m : t[n] = x
  <2>1. \A n \in 1 .. m : start[n] \in S /\ t[n] = s[start[n]].ts
    BY <1>4, <1>8
  <2>2. t \in [1 .. m -> T]
    <3>1. \A n \in 1 .. m : s[start[n]].ts \in T
      BY <1>5, <2>1
    <3> QED BY <1>8, <3>1
  <2> QED BY <1>4, <1>5, <2>1, <2>2
<1>10. IsFiniteSet(T) /\ Cardinality(T) = m
  <2>1. \A j, k \in 1 .. m : t[j] = t[k] => j = k
    <3> SUFFICES ASSUME NEW j \in 1 .. m, NEW k \in 1 .. m, t[j] = t[k], j # k PROVE FALSE
      OBVIOUS
    <3>1. t[j] < t[k] \/ t[k] < t[j]
      BY <1>4, <1>9
    <3>2. t[j] \in Nat
      <4>1. T \subseteq Nat
        BY <1>1 DEF TimesIn, InTime
      <4> QED BY <1>9, <4>1
    <3> QED BY <3>1, <3>2
  <2>2. t \in Bijection(1 .. m, T)
    BY <1>9, <2>1 DEF Bijection, Injection, Surjection, IsInjective
  <2>3. IsFiniteSet(1 .. m) /\ Cardinality(1 .. m) = m
    BY <1>4, FS_Interval
  <2>4. ExistsBijection(1 .. m, T)
    BY <2>2 DEF ExistsBijection
  <2> QED BY <2>3, <2>4, FS_Bijection
<1>11. \A n \in 1 .. m : o[n] = Collapsed(Together(s, t[n]))
  <2> SUFFICES ASSUME NEW n \in 1 .. m PROVE o[n] = Collapsed(Together(s, t[n]))
    OBVIOUS
  <2>1. start[n] \in Starts(s) /\ t[n] = s[start[n]].ts
    BY <1>1, <1>4, <1>8
  <2>2. GroupAt(s, start[n]) = Together(s, t[n])
    BY <2>1, GroupIsTogether
  <2>3. o[n] = Collapsed(GroupAt(s, start[n]))
    BY <1>6
  <2> QED BY <2>2, <2>3
<1> QED BY <1>1, <1>7, <1>9, <1>10, <1>11

-----------------------------------------------------------------------------
(* The partition loop.                                                     *)

\* The row of the file with its number, and the rows of some numbers.
Numbered(i) == [input[i] EXCEPT !.row = i]
NumberedIn(I) == {Numbered(i) : i \in I}

\* The numbers of the rows of some entities, of those of one entity and time,
\* and the times of an entity.
Named(E) == {i \in DOMAIN input : input[i].entity \in E}
Moment(e, t) == {i \in DOMAIN input : input[i].entity = e /\ input[i].ts = t}
Times(e) == {input[i].ts : i \in Named({e})}

\* The distinct pairs of an entity and a time.
Instants(E) == {<<input[i].entity, input[i].ts>> : i \in Named(E)}

\* The entities eventized so far, and the rows in hand of the others.
Known == {results[k].entity : k \in DOMAIN results}
Waiting ==
  {i \in DOMAIN input : /\ PartitionIndex(input[i].entity) = part
                        /\ input[i].entity \notin Known}

\* The types of an accepted row, and what numbering it keeps.
LEMMA RowFields ==
  ASSUME input \in Seq(Row), NEW i \in DOMAIN input
  PROVE  /\ i \in Nat
         /\ input[i].ts \in Nat /\ input[i].place \in Nat
         /\ input[i].ha \in Nat \cup {MissingHA}
         /\ EntityRank(input[i].entity) \in Nat
         /\ PartitionIndex(input[i].entity) \in 1 .. Partitions
         /\ \A j \in DOMAIN input :
              EntityRank(input[i].entity) = EntityRank(input[j].entity)
                => input[i].entity = input[j].entity
         /\ Numbered(i).entity = input[i].entity /\ Numbered(i).ts = input[i].ts
         /\ Numbered(i).place = input[i].place /\ Numbered(i).ha = input[i].ha
         /\ Numbered(i).row = i
<1>1. i \in Nat /\ \A j \in DOMAIN input : input[j] \in Row
  OBVIOUS
<1>2. \A j \in DOMAIN input : \E f \in Fix :
        input[j] = [entity |-> f.entity, ts |-> f.ts, ha |-> f.ha,
                    place |-> f.place, digits |-> f.digits, row |-> 0]
  BY <1>1 DEF Row
<1>3. PICK f \in Fix : input[i] = [entity |-> f.entity, ts |-> f.ts, ha |-> f.ha,
                                   place |-> f.place, digits |-> f.digits, row |-> 0]
  BY <1>2
<1>4. /\ f.ts \in Nat /\ f.place \in Nat /\ EntityRank(f.entity) \in Nat
      /\ f.ha \in Nat \cup {MissingHA} /\ PartitionIndex(f.entity) \in 1 .. Partitions
  BY FixAssumption
<1>5. /\ input[i].entity = f.entity /\ input[i].ts = f.ts /\ input[i].ha = f.ha
      /\ input[i].place = f.place
  BY <1>3
<1>6. ASSUME NEW j \in DOMAIN input,
             EntityRank(input[i].entity) = EntityRank(input[j].entity)
      PROVE  input[i].entity = input[j].entity
  <2>1. PICK g \in Fix : input[j] = [entity |-> g.entity, ts |-> g.ts, ha |-> g.ha,
                                     place |-> g.place, digits |-> g.digits, row |-> 0]
    BY <1>2
  <2>2. input[j].entity = g.entity
    BY <2>1
  <2> QED BY <1>5, <1>6, <2>2, RankAssumption
<1>7. /\ Numbered(i).entity = input[i].entity /\ Numbered(i).ts = input[i].ts
      /\ Numbered(i).place = input[i].place /\ Numbered(i).ha = input[i].ha
      /\ Numbered(i).row = i
  BY <1>3 DEF Numbered
<1> QED BY <1>1, <1>4, <1>5, <1>6, <1>7

\* Numbered rows are rows the sort and the collapse tell apart, as many as
\* there are numbers.
LEMMA NumberedRows ==
  ASSUME input \in Seq(Row), NEW I \in SUBSET DOMAIN input
  PROVE  /\ Distinct(NumberedIn(I)) /\ IsFiniteSet(I) /\ Cardinality(I) \in Nat
         /\ IsFiniteSet(NumberedIn(I)) /\ Cardinality(NumberedIn(I)) = Cardinality(I)
<1>1. \A i \in I : i \in DOMAIN input
  OBVIOUS
<1>2. IsFiniteSet(I) /\ Cardinality(I) \in Nat
  <2>1. DOMAIN input = 1 .. Len(input) /\ Len(input) \in Nat
    OBVIOUS
  <2>2. PICK D : D = DOMAIN input
    OBVIOUS
  <2>3. IsFiniteSet(D) /\ I \in SUBSET D
    BY <2>1, <2>2, FS_Interval
  <2> QED BY <2>3, FS_Subset, FS_CardinalityType
<1>3. \A i, j \in I : Numbered(i) = Numbered(j) => i = j
  <2> SUFFICES ASSUME NEW i \in I, NEW j \in I, Numbered(i) = Numbered(j) PROVE i = j
    OBVIOUS
  <2>1. Numbered(i).row = i /\ Numbered(j).row = j
    BY <1>1, RowFields
  <2> QED BY <2>1
<1>4. PICK B : B = NumberedIn(I)
  OBVIOUS
<1>5. \A b \in B : \E i \in I : b = Numbered(i)
  BY <1>4 DEF NumberedIn
<1>6. ExistsBijection(I, B)
  <2> DEFINE f == [i \in I |-> Numbered(i)]
  <2>1. \A i \in I : Numbered(i) \in B
    BY <1>4 DEF NumberedIn
  <2>2. f \in [I -> B] /\ \A i \in I : f[i] = Numbered(i)
    BY <2>1
  <2> HIDE DEF f
  <2>3. \A i, j \in I : f[i] = f[j] => i = j
    BY <1>3, <2>2
  <2>4. \A b \in B : \E i \in I : f[i] = b
    BY <1>5, <2>2
  <2>5. f \in Bijection(I, B)
    BY <2>2, <2>3, <2>4 DEF Bijection, Injection, Surjection, IsInjective
  <2> QED BY <2>5 DEF ExistsBijection
<1>7. IsFiniteSet(B) /\ Cardinality(B) = Cardinality(I)
  BY <1>2, <1>6, FS_Bijection
<1>8. Distinct(B)
  <2>1. \A a \in B : /\ a.ts \in Nat /\ a.place \in Nat /\ a.row \in Nat
                     /\ a.ha \in Nat \cup {MissingHA} /\ EntityRank(a.entity) \in Nat
    <3> SUFFICES ASSUME NEW a \in B
                 PROVE  /\ a.ts \in Nat /\ a.place \in Nat /\ a.row \in Nat
                        /\ a.ha \in Nat \cup {MissingHA} /\ EntityRank(a.entity) \in Nat
      OBVIOUS
    <3>1. PICK i \in DOMAIN input : a = Numbered(i)
      BY <1>1, <1>5
    <3> QED BY <3>1, RowFields
  <2>2. ASSUME NEW a \in B, NEW b \in B
        PROVE  /\ a.row = b.row => a = b
               /\ EntityRank(a.entity) = EntityRank(b.entity) => a.entity = b.entity
    <3>1. PICK i \in DOMAIN input, j \in DOMAIN input : a = Numbered(i) /\ b = Numbered(j)
      BY <1>1, <1>5
    <3>2. a.row = i /\ b.row = j /\ a.entity = input[i].entity /\ b.entity = input[j].entity
      BY <3>1, RowFields
    <3> QED BY <3>1, <3>2, RowFields
  <2> QED BY <2>1, <2>2 DEF Distinct
<1> QED BY <1>2, <1>4, <1>7, <1>8

\* The observations o are those of the entity e: one of the rows of each time,
\* in strictly increasing time.
Tells(e, o) ==
  /\ DOMAIN o = 1 .. Cardinality(Times(e)) /\ Len(o) = Cardinality(Times(e))
  /\ \E t \in [DOMAIN o -> Times(e)] :
       /\ \A n \in DOMAIN o : o[n] = Collapsed(NumberedIn(Moment(e, t[n])))
       /\ \A m, n \in DOMAIN o : m < n => t[m] < t[n]
       /\ \A x \in Times(e) : \E n \in DOMAIN o : t[n] = x

\* An entity's rows, in the order of the sort, are in the order of time, and
\* collapse to its observations.
LEMMA EntityTells ==
  ASSUME input \in Seq(Row), NEW e, NEW s,
         s \in Seq(NumberedIn(Named({e}))),
         \A i, j \in DOMAIN s : i < j <=> SortsBefore(s[i], s[j]),
         \A i \in Named({e}) : \E k \in DOMAIN s : s[k] = Numbered(i)
  PROVE  /\ Tells(e, CollapseSameTimestamp(s))
         /\ Len(s) = Cardinality(Named({e}))
<1>1. PICK n \in Nat : n = Len(s) /\ DOMAIN s = 1 .. n
  OBVIOUS
<1>2. ASSUME NEW k \in 1 .. n
      PROVE  \E i \in Named({e}) : /\ s[k] = Numbered(i) /\ s[k].ts = input[i].ts
                                   /\ s[k].entity = e /\ s[k].ts \in Nat
  <2>1. s[k] \in NumberedIn(Named({e}))
    BY <1>1
  <2>2. PICK i \in Named({e}) : s[k] = Numbered(i)
    BY <2>1 DEF NumberedIn
  <2>3. i \in DOMAIN input /\ input[i].entity = e
    BY DEF Named
  <2> QED BY <2>2, <2>3, RowFields
<1>3. InTime(s)
  <2>1. ASSUME NEW i \in 1 .. n, NEW j \in 1 .. n, i <= j PROVE s[i].ts <= s[j].ts
    <3>1. s[i].ts \in Nat /\ s[j].ts \in Nat /\ s[i].entity = e /\ s[j].entity = e
      BY <1>2
    <3>2. i = j \/ SortsBefore(s[i], s[j])
      BY <1>1, <2>1
    <3> QED BY <3>1, <3>2 DEF SortsBefore
  <2> QED BY <1>1, <1>2, <2>1 DEF InTime
<1>4. TimesIn(s) = Times(e)
  <2>1. ASSUME NEW k \in 1 .. n PROVE s[k].ts \in Times(e)
    BY <1>2 DEF Times
  <2>2. ASSUME NEW i \in Named({e}) PROVE \E k \in 1 .. n : s[k].ts = input[i].ts
    <3>1. PICK k \in 1 .. n : s[k] = Numbered(i)
      BY <1>1
    <3>2. i \in DOMAIN input
      BY DEF Named
    <3> QED BY <3>1, <3>2, RowFields
  <2> QED BY <1>1, <2>1, <2>2 DEF TimesIn, Times
<1>5. ASSUME NEW t PROVE Together(s, t) = NumberedIn(Moment(e, t))
  <2>1. ASSUME NEW k \in 1 .. n, s[k].ts = t PROVE s[k] \in NumberedIn(Moment(e, t))
    <3>1. PICK i \in Named({e}) : s[k] = Numbered(i) /\ s[k].ts = input[i].ts
      BY <1>2
    <3> QED BY <2>1, <3>1 DEF Named, Moment, NumberedIn
  <2>2. ASSUME NEW i \in Moment(e, t) PROVE \E k \in 1 .. n : s[k] = Numbered(i) /\ s[k].ts = t
    <3>1. i \in Named({e}) /\ i \in DOMAIN input /\ input[i].ts = t
      BY DEF Named, Moment
    <3>2. PICK k \in 1 .. n : s[k] = Numbered(i)
      BY <1>1, <3>1
    <3> QED BY <3>1, <3>2, RowFields
  <2> QED BY <1>1, <2>1, <2>2 DEF Together, NumberedIn
<1>6. PICK o : o = CollapseSameTimestamp(s)
  OBVIOUS
<1>7. Tells(e, o)
  <2>1. /\ DOMAIN o = 1 .. Cardinality(Times(e)) /\ Len(o) = Cardinality(Times(e))
        /\ \E t \in [DOMAIN o -> Times(e)] :
             /\ \A n1 \in DOMAIN o : o[n1] = Collapsed(Together(s, t[n1]))
             /\ \A m, n1 \in DOMAIN o : m < n1 => t[m] < t[n1]
             /\ \A x \in Times(e) : \E n1 \in DOMAIN o : t[n1] = x
    BY <1>3, <1>4, <1>6, CollapseIs
  <2>2. PICK t \in [DOMAIN o -> Times(e)] :
             /\ \A n1 \in DOMAIN o : o[n1] = Collapsed(Together(s, t[n1]))
             /\ \A m, n1 \in DOMAIN o : m < n1 => t[m] < t[n1]
             /\ \A x \in Times(e) : \E n1 \in DOMAIN o : t[n1] = x
    BY <2>1
  <2>3. \A n1 \in DOMAIN o : o[n1] = Collapsed(NumberedIn(Moment(e, t[n1])))
    BY <1>5, <2>2
  <2> QED BY <2>1, <2>2, <2>3, Zenon DEF Tells
<1>8. n = Cardinality(Named({e}))
  <2>1. PICK B : B = NumberedIn(Named({e}))
    OBVIOUS
  <2>2. Named({e}) \in SUBSET DOMAIN input
    BY DEF Named
  <2>3. Cardinality(B) = Cardinality(Named({e})) /\ Distinct(B)
    BY <2>1, <2>2, NumberedRows
  <2>4. s \in [1 .. n -> B]
    BY <1>1, <2>1
  <2>5. ASSUME NEW i \in 1 .. n, NEW j \in 1 .. n, s[i] = s[j] PROVE i = j
    <3>1. ~SortsBefore(s[i], s[i])
      BY <1>1, <2>5
    <3>2. ~SortsBefore(s[i], s[j]) /\ ~SortsBefore(s[j], s[i])
      BY <2>5, <3>1
    <3>3. ~(i < j) /\ ~(j < i)
      BY <1>1, <3>2
    <3> QED BY <3>3
  <2>6. \A b \in B : \E k \in 1 .. n : s[k] = b
    BY <1>1, <2>1 DEF NumberedIn
  <2>7. s \in Bijection(1 .. n, B)
    BY <2>4, <2>5, <2>6 DEF Bijection, Injection, Surjection, IsInjective
  <2>8. IsFiniteSet(1 .. n) /\ Cardinality(1 .. n) = n
    BY FS_Interval
  <2>9. ExistsBijection(1 .. n, B)
    BY <2>7 DEF ExistsBijection
  <2> QED BY <2>3, <2>8, <2>9, FS_Bijection
<1> QED BY <1>1, <1>6, <1>7, <1>8

-----------------------------------------------------------------------------
\* The inductive invariant: the rows in hand are those that wait, in order;
\* partitions already read have no other; each entity known was eventized
\* once, with all its rows; and the counters count rows and instants.
Normal ==
  /\ input \in Seq(Row) /\ part \in 0 .. Partitions
  /\ InSortOrder(rows, NumberedIn(Waiting))
  /\ \A i \in DOMAIN input :
       PartitionIndex(input[i].entity) < part => input[i].entity \in Known
  /\ results \in Seq({results[k] : k \in DOMAIN results})
  /\ \A k \in DOMAIN results :
       /\ \E i \in DOMAIN input : /\ input[i].entity = results[k].entity
                                  /\ PartitionIndex(input[i].entity) <= part
       /\ Tells(results[k].entity, results[k].obs)
  /\ \A j, k \in DOMAIN results : results[j].entity = results[k].entity => j = k
  /\ stats = [entities   |-> Len(results),
              normalized |-> Cardinality(Instants(Known)),
              collapsed  |-> Cardinality(Named(Known)) - Cardinality(Instants(Known))]

\* What is told of the input stays told.
LEMMA TellsKept ==
  ASSUME input' = input, NEW e, NEW o, Tells(e, o)
  PROVE  Tells(e, o)'
<1>1. Times(e)' = Times(e) /\ \A t : Moment(e, t)' = Moment(e, t)
  BY DEF Times, Named, Moment
<1>2. \A t : NumberedIn(Moment(e, t))' = NumberedIn(Moment(e, t))
  BY <1>1 DEF NumberedIn, Numbered
<1> QED BY <1>1, <1>2 DEF Tells

\* No row waits in an empty hand.
LEMMA EmptyHand ==
  ASSUME Normal, rows = <<>>
  PROVE  Waiting = {}
<1>1. ASSUME NEW i \in Waiting PROVE FALSE
  <2>1. Numbered(i) \in NumberedIn(Waiting)
    BY DEF NumberedIn
  <2>2. PICK k \in DOMAIN rows : rows[k] = Numbered(i)
    BY <2>1 DEF Normal, InSortOrder
  <2> QED BY <2>2
<1> QED BY <1>1

\* Before the first partition nothing is known and nothing waits.
LEMMA InitNormal == Init => Normal
<1> SUFFICES ASSUME Init PROVE Normal
  OBVIOUS
<1>1. input \in Seq(Row) /\ part = 0 /\ rows = <<>> /\ results = <<>>
  BY BoundAssumption DEF Init
<1>2. Known = {} /\ Named({}) = {} /\ Instants({}) = {}
  BY <1>1 DEF Known, Named, Instants
<1>3. \A i \in DOMAIN input : PartitionIndex(input[i].entity) \in 1 .. Partitions
  BY <1>1, RowFields
<1>4. Waiting = {} /\ NumberedIn(Waiting) = {}
  BY <1>1, <1>3 DEF Waiting, NumberedIn
<1>5. InSortOrder(rows, NumberedIn(Waiting))
  BY <1>1, <1>4 DEF InSortOrder
<1>6. stats = [entities |-> 0, normalized |-> 0, collapsed |-> 0]
  BY DEF Init
<1>7. Cardinality({}) = 0 /\ Len(results) = 0 /\ DOMAIN results = {}
  BY <1>1, FS_EmptySet
<1>8. \A i \in DOMAIN input : ~(PartitionIndex(input[i].entity) < part)
  BY <1>1, <1>3
<1>9. stats = [entities   |-> Len(results),
               normalized |-> Cardinality(Instants(Known)),
               collapsed  |-> Cardinality(Named(Known)) - Cardinality(Instants(Known))]
  <2>1. 0 - 0 = 0
    OBVIOUS
  <2> QED BY <1>2, <1>6, <1>7, <2>1
<1>10. part \in 0 .. Partitions
  BY <1>1, BoundAssumption
<1> QED BY <1>1, <1>5, <1>7, <1>8, <1>9, <1>10 DEF Normal

\* A partition read: its entities are unknown, and none of the last one waits.
LEMMA ReadNormal ==
  ASSUME Normal, ReadPartition
  PROVE  Normal'
<1>1. /\ input' = input /\ results' = results /\ stats' = stats /\ part' = part + 1
      /\ part \in Nat /\ part' \in 0 .. Partitions /\ rows = <<>>
  BY BoundAssumption DEF Normal, ReadPartition
<1>2. Known' = Known
  BY <1>1 DEF Known
<1>3. \A i \in DOMAIN input : PartitionIndex(input[i].entity) \in 1 .. Partitions
  BY RowFields DEF Normal
<1>4. ASSUME NEW i \in DOMAIN input, PartitionIndex(input[i].entity) = part + 1
      PROVE  input[i].entity \notin Known
  <2> SUFFICES ASSUME NEW k \in DOMAIN results, input[i].entity = results[k].entity
               PROVE  FALSE
    BY DEF Known
  <2>1. PICK j \in DOMAIN input : /\ input[j].entity = results[k].entity
                                  /\ PartitionIndex(input[j].entity) <= part
    BY DEF Normal
  <2> QED BY <1>1, <1>4, <2>1
<1>5. Waiting' = {j \in DOMAIN input : PartitionIndex(input[j].entity) = part + 1}
  BY <1>1, <1>2, <1>4 DEF Waiting
<1>6. InSortOrder(rows, NumberedIn(Waiting))'
  <2>1. PICK I : I = {j \in DOMAIN input : PartitionIndex(input[j].entity) = part + 1}
    OBVIOUS
  <2>2. PICK S : S = NumberedIn(I)
    OBVIOUS
  <2>3. rows' = Sorted(S)
    BY <2>1, <2>2 DEF ReadPartition, NumberedIn, Numbered
  <2>4. Distinct(S) /\ IsFiniteSet(S)
    BY <2>1, <2>2, NumberedRows DEF Normal
  <2>5. InSortOrder(rows', S)
    BY <2>3, <2>4, SortedIsInOrder
  <2>6. NumberedIn(Waiting)' = S
    BY <1>1, <1>5, <2>1, <2>2 DEF NumberedIn, Numbered
  <2> QED BY <2>5, <2>6 DEF InSortOrder
<1>7. ASSUME NEW i \in DOMAIN input, PartitionIndex(input[i].entity) < part + 1
      PROVE  input[i].entity \in Known
  <2>1. CASE PartitionIndex(input[i].entity) < part
    BY <2>1 DEF Normal
  <2>2. CASE PartitionIndex(input[i].entity) = part
    BY <1>1, <2>2, EmptyHand DEF Waiting
  <2> QED BY <1>1, <1>3, <1>7, <2>1, <2>2
<1>8. ASSUME NEW k \in DOMAIN results
      PROVE  Tells(results[k].entity, results[k].obs)'
  <2>1. PICK e, o : e = results[k].entity /\ o = results[k].obs
    OBVIOUS
  <2>2. Tells(e, o)'
    BY <1>1, <2>1, TellsKept DEF Normal
  <2> QED BY <1>1, <2>1, <2>2
<1>9. \A k \in DOMAIN results :
        \E i \in DOMAIN input : /\ input[i].entity = results[k].entity
                                /\ PartitionIndex(input[i].entity) <= part + 1
  <2> SUFFICES ASSUME NEW k \in DOMAIN results
               PROVE  \E i \in DOMAIN input : /\ input[i].entity = results[k].entity
                                              /\ PartitionIndex(input[i].entity) <= part + 1
    OBVIOUS
  <2>1. PICK i \in DOMAIN input : /\ input[i].entity = results[k].entity
                                  /\ PartitionIndex(input[i].entity) <= part
    BY DEF Normal
  <2>2. PartitionIndex(input[i].entity) <= part + 1
    BY <1>1, <1>3, <2>1
  <2> QED BY <2>1, <2>2
<1>10. Instants(Known)' = Instants(Known) /\ Named(Known)' = Named(Known)
  BY <1>1, <1>2 DEF Instants, Named
<1>11. stats' = [entities   |-> Len(results'),
                normalized |-> Cardinality(Instants(Known)'),
                collapsed  |-> Cardinality(Named(Known)') - Cardinality(Instants(Known)')]
  BY <1>1, <1>10 DEF Normal
<1>12. \A i \in DOMAIN input' :
         PartitionIndex(input'[i].entity) < part' => input'[i].entity \in Known'
  BY <1>1, <1>2, <1>7
<1>13. \A k \in DOMAIN results' :
        \E i \in DOMAIN input' : /\ input'[i].entity = results'[k].entity
                                 /\ PartitionIndex(input'[i].entity) <= part'
  BY <1>1, <1>9
<1>14. /\ input' \in Seq(Row)
       /\ results' \in Seq({results'[k] : k \in DOMAIN results'})
       /\ \A j, k \in DOMAIN results' : results'[j].entity = results'[k].entity => j = k
  BY <1>1 DEF Normal
<1> QED BY <1>1, <1>6, <1>8, <1>11, <1>12, <1>13, <1>14 DEF Normal

\* What the run of the first row is: all waiting rows of its entity, which no
\* earlier call had, and what is left.
FirstEnd == EndOfRun(rows, 1, LAMBDA r : r.entity)
FirstRun(e, end, n) ==
  /\ end \in 1 .. n /\ n \in Nat
  /\ \A k \in 1 .. end : rows[k] \in NumberedIn(Named({e}))
  /\ \A i \in Named({e}) : \E k \in 1 .. end : rows[k] = Numbered(i)
  /\ \A k \in end + 1 .. n : rows[k] \in NumberedIn(Waiting \ Named({e}))
  /\ \A i \in Waiting \ Named({e}) : \E k \in end + 1 .. n : rows[k] = Numbered(i)
  /\ e \notin Known
  /\ \E i \in Waiting : e = input[i].entity

\* Eventize gets all rows of its entity, and leaves those of the others.
LEMMA FirstEntity ==
  ASSUME Normal, rows # <<>>, NEW e, e = rows[1].entity, NEW end, end = FirstEnd
  PROVE  FirstRun(e, end, Len(rows))
<1>1. PICK n \in Nat : n = Len(rows) /\ DOMAIN rows = 1 .. n /\ 1 \in 1 .. n
  <2>1. rows \in Seq(NumberedIn(Waiting))
    BY DEF Normal, InSortOrder
  <2> QED BY <2>1
<1>2. /\ end \in 1 .. n
      /\ \A k \in 1 .. end : rows[k].entity = e
      /\ end < n => rows[end + 1].entity # e
  BY <1>1, EndOfEntity DEF FirstEnd
<1>3. ASSUME NEW k \in 1 .. n
      PROVE  \E i \in Waiting : /\ rows[k] = Numbered(i)
                                /\ rows[k].entity = input[i].entity
                                /\ EntityRank(rows[k].entity) \in Nat
  <2>1. rows[k] \in NumberedIn(Waiting)
    BY <1>1 DEF Normal, InSortOrder
  <2>2. PICK i \in Waiting : rows[k] = Numbered(i)
    BY <2>1 DEF NumberedIn
  <2>3. i \in DOMAIN input
    BY DEF Waiting
  <2> QED BY <2>2, <2>3, RowFields DEF Normal
<1>4. ASSUME NEW j \in 1 .. n, NEW k \in 1 .. n, j <= k
      PROVE  EntityRank(rows[j].entity) <= EntityRank(rows[k].entity)
  <2>1. /\ EntityRank(rows[j].entity) \in Nat /\ EntityRank(rows[k].entity) \in Nat
    BY <1>3
  <2>2. j = k \/ SortsBefore(rows[j], rows[k])
    <3>1. j = k \/ j < k
      BY <1>4
    <3>2. j < k => SortsBefore(rows[j], rows[k])
      BY <1>1 DEF Normal, InSortOrder
    <3> QED BY <3>1, <3>2
  <2> QED BY <2>1, <2>2 DEF SortsBefore
<1>5. ASSUME NEW k \in end + 1 .. n PROVE rows[k].entity # e
  <2>1. end + 1 \in 1 .. n /\ k \in 1 .. n /\ end + 1 <= k /\ 1 \in 1 .. n /\ 1 <= end + 1
        /\ end < n
    BY <1>1, <1>2
  <2>2. /\ EntityRank(e) <= EntityRank(rows[end + 1].entity)
        /\ EntityRank(rows[end + 1].entity) <= EntityRank(rows[k].entity)
    BY <1>4, <2>1
  <2>3. PICK i \in Waiting : e = input[i].entity
    BY <1>1, <1>3
  <2>4. PICK j \in Waiting : rows[end + 1].entity = input[j].entity
    BY <1>3, <2>1
  <2>5. i \in DOMAIN input /\ j \in DOMAIN input
    BY DEF Waiting
  <2>6. EntityRank(e) # EntityRank(rows[end + 1].entity)
    BY <1>2, <2>1, <2>3, <2>4, <2>5, RowFields DEF Normal
  <2>7. /\ EntityRank(e) \in Nat /\ EntityRank(rows[end + 1].entity) \in Nat
        /\ EntityRank(rows[k].entity) \in Nat
    BY <1>1, <1>3, <2>1
  <2> QED BY <2>2, <2>6, <2>7
<1>6. PICK i0 \in Waiting : e = input[i0].entity
  BY <1>1, <1>3
<1>7. \A i \in Named({e}) : i \in Waiting
  BY <1>6 DEF Waiting, Named
<1>8. ASSUME NEW i \in Waiting
      PROVE  \E k \in 1 .. n : rows[k] = Numbered(i) /\ rows[k].entity = input[i].entity
  <2>1. Numbered(i) \in NumberedIn(Waiting)
    BY DEF NumberedIn
  <2>2. PICK k \in 1 .. n : rows[k] = Numbered(i)
    BY <1>1, <2>1 DEF Normal, InSortOrder
  <2>3. i \in DOMAIN input /\ input \in Seq(Row)
    BY DEF Waiting, Normal
  <2>4. Numbered(i).entity = input[i].entity
    BY <2>3, RowFields
  <2> QED BY <2>2, <2>4
<1>9. ASSUME NEW k \in 1 .. end PROVE rows[k] \in NumberedIn(Named({e}))
  <2>1. k \in 1 .. n /\ rows[k].entity = e
    BY <1>2
  <2>2. PICK i \in Waiting : rows[k] = Numbered(i) /\ rows[k].entity = input[i].entity
    BY <1>3, <2>1
  <2>3. i \in Named({e})
    BY <2>1, <2>2 DEF Named, Waiting
  <2> QED BY <2>2, <2>3 DEF NumberedIn
<1>10. ASSUME NEW i \in Named({e}) PROVE \E k \in 1 .. end : rows[k] = Numbered(i)
  <2>1. i \in Waiting /\ input[i].entity = e
    BY <1>7 DEF Named
  <2>2. PICK k \in 1 .. n : rows[k] = Numbered(i) /\ rows[k].entity = input[i].entity
    BY <1>8, <2>1
  <2>3. k \notin end + 1 .. n
    BY <1>5, <2>1, <2>2
  <2>4. k \in 1 .. end
    BY <1>2, <2>3
  <2> QED BY <2>2, <2>4
<1>11. ASSUME NEW k \in end + 1 .. n PROVE rows[k] \in NumberedIn(Waiting \ Named({e}))
  <2>1. k \in 1 .. n /\ rows[k].entity # e
    BY <1>2, <1>5
  <2>2. PICK i \in Waiting : rows[k] = Numbered(i) /\ rows[k].entity = input[i].entity
    BY <1>3, <2>1
  <2>3. i \in Waiting \ Named({e})
    BY <2>1, <2>2 DEF Named
  <2> QED BY <2>2, <2>3 DEF NumberedIn
<1>12. ASSUME NEW i \in Waiting \ Named({e})
       PROVE  \E k \in end + 1 .. n : rows[k] = Numbered(i)
  <2>1. i \in Waiting /\ input[i].entity # e
    BY DEF Named, Waiting
  <2>2. PICK k \in 1 .. n : rows[k] = Numbered(i) /\ rows[k].entity = input[i].entity
    BY <1>8, <2>1
  <2>3. k \notin 1 .. end
    BY <1>2, <2>1, <2>2
  <2>4. k \in end + 1 .. n
    BY <1>2, <2>3
  <2> QED BY <2>2, <2>4
<1>13. e \notin Known
  BY <1>6 DEF Waiting
<1> QED BY <1>1, <1>2, <1>6, <1>9, <1>10, <1>11, <1>12, <1>13 DEF FirstRun

\* There are finitely many instants.
LEMMA InstantsFinite ==
  ASSUME input \in Seq(Row), NEW L
  PROVE  IsFiniteSet(Instants(L)) /\ Cardinality(Instants(L)) \in Nat
<1>1. PICK A, B : A = Named(L) /\ B = Instants(L)
  OBVIOUS
<1> DEFINE f == [i \in A |-> <<input[i].entity, input[i].ts>>]
<1>2. f \in Surjection(A, B)
  BY <1>1 DEF Instants, Surjection
<1> HIDE DEF f
<1>3. A \in SUBSET DOMAIN input
  BY <1>1 DEF Named
<1>4. IsFiniteSet(A)
  BY <1>3, NumberedRows
<1> QED BY <1>1, <1>2, <1>4, FS_Surjection, FS_CardinalityType

\* One more entity counts its rows and its times.
LEMMA OneMore ==
  ASSUME input \in Seq(Row), NEW e, NEW K, e \notin K
  PROVE  /\ Cardinality(Named(K \cup {e})) = Cardinality(Named(K)) + Cardinality(Named({e}))
         /\ Cardinality(Instants(K \cup {e})) = Cardinality(Instants(K)) + Cardinality(Times(e))
         /\ {Cardinality(Named(K)), Cardinality(Named({e})),
             Cardinality(Instants(K)), Cardinality(Times(e))} \subseteq Nat
<1>1. \A L : Named(L) \in SUBSET DOMAIN input
  BY DEF Named
<1>2. \A L : IsFiniteSet(Named(L)) /\ Cardinality(Named(L)) \in Nat
  BY <1>1, NumberedRows
<1>3. \A L : IsFiniteSet(Instants(L)) /\ Cardinality(Instants(L)) \in Nat
  BY InstantsFinite
<1>4. PICK A, B, C : A = Named(K) /\ B = Named({e}) /\ C = Named(K \cup {e})
  OBVIOUS
<1>5. C = A \cup B /\ A \cap B = {}
  BY <1>4 DEF Named
<1>6. Cardinality(C) = Cardinality(A) + Cardinality(B)
  <2>1. IsFiniteSet(A) /\ IsFiniteSet(B) /\ Cardinality(A) \in Nat /\ Cardinality(B) \in Nat
    BY <1>2, <1>4
  <2>2. Cardinality(A \cup B) = Cardinality(A) + Cardinality(B) - Cardinality(A \cap B)
    BY <2>1, FS_Union
  <2>3. Cardinality(A \cap B) = 0
    BY <1>5, FS_EmptySet
  <2> QED BY <1>5, <2>1, <2>2, <2>3
<1>7. PICK P, Q, R : P = Instants(K) /\ Q = Instants({e}) /\ R = Instants(K \cup {e})
  OBVIOUS
<1>8. R = P \cup Q /\ P \cap Q = {}
  <2>1. R = P \cup Q
    BY <1>7 DEF Instants, Named
  <2>2. \A x \in P : x[1] \in K
    BY <1>7 DEF Instants, Named
  <2>3. \A x \in Q : x[1] = e
    BY <1>7 DEF Instants, Named
  <2> QED BY <2>1, <2>2, <2>3
<1>9. Cardinality(R) = Cardinality(P) + Cardinality(Q)
  <2>1. IsFiniteSet(P) /\ IsFiniteSet(Q) /\ Cardinality(P) \in Nat /\ Cardinality(Q) \in Nat
    BY <1>3, <1>7
  <2>2. Cardinality(P \cup Q) = Cardinality(P) + Cardinality(Q) - Cardinality(P \cap Q)
    BY <2>1, FS_Union
  <2>3. Cardinality(P \cap Q) = 0
    BY <1>8, FS_EmptySet
  <2> QED BY <1>8, <2>1, <2>2, <2>3
<1>10. Cardinality(Q) = Cardinality(Times(e))
  <2>1. PICK T : T = Times(e)
    OBVIOUS
  <2> DEFINE f == [x \in Q |-> x[2]]
  <2>2. \A x \in Q : \E i \in Named({e}) : x = <<e, input[i].ts>>
    BY <1>7 DEF Instants, Named
  <2>3. \A i \in Named({e}) : <<e, input[i].ts>> \in Q
    BY <1>7 DEF Instants, Named
  <2>4. f \in [Q -> T]
    <3>1. \A i \in Named({e}) : input[i].ts \in T
      BY <2>1 DEF Times
    <3>2. ASSUME NEW x \in Q PROVE x[2] \in T
      <4>1. PICK i \in Named({e}) : x = <<e, input[i].ts>>
        BY <2>2
      <4>2. x[2] = input[i].ts
        BY <4>1
      <4> QED BY <3>1, <4>2
    <3> QED BY <3>2
  <2>5. \A x, y \in Q : f[x] = f[y] => x = y
    BY <2>2
  <2>6. \A t \in T : \E x \in Q : f[x] = t
    <3> SUFFICES ASSUME NEW t \in T PROVE \E x \in Q : f[x] = t
      OBVIOUS
    <3>1. PICK i \in Named({e}) : t = input[i].ts
      BY <2>1 DEF Times
    <3>2. PICK x \in Q : x = <<e, input[i].ts>>
      BY <2>3
    <3> QED BY <3>1, <3>2
  <2> HIDE DEF f
  <2>7. f \in Bijection(Q, T)
    BY <2>4, <2>5, <2>6 DEF Bijection, Injection, Surjection, IsInjective
  <2>8. ExistsBijection(Q, T)
    BY <2>7 DEF ExistsBijection
  <2>9. IsFiniteSet(Q)
    BY <1>3, <1>7
  <2> QED BY <2>1, <2>8, <2>9, FS_Bijection
<1> QED BY <1>2, <1>3, <1>4, <1>6, <1>7, <1>9, <1>10

\* The next entity eventized: one more is known, its rows wait no longer.
LEMMA EventizeNormal ==
  ASSUME Normal, EventizeEntity
  PROVE  Normal'
<1>1. PICK e, end : e = rows[1].entity /\ end = FirstEnd
  OBVIOUS
<1>2. PICK entity : entity = SubSeq(rows, 1, end)
  OBVIOUS
<1>3. PICK o : o = CollapseSameTimestamp(entity)
  OBVIOUS
<1>4. PICK n : n = Len(rows)
  OBVIOUS
<1>5. /\ rows # <<>> /\ input' = input /\ part' = part
      /\ results' = Append(results, [entity |-> e, obs |-> o])
      /\ rows' = SubSeq(rows, end + 1, n)
      /\ stats' = [entities   |-> stats.entities + 1,
                   normalized |-> stats.normalized + Len(o),
                   collapsed  |-> stats.collapsed + Len(entity) - Len(o)]
  BY <1>1, <1>2, <1>3, <1>4 DEF EventizeEntity, Add, FirstEnd
<1>6. /\ end \in 1 .. n /\ n \in Nat
      /\ \A k \in 1 .. end : rows[k] \in NumberedIn(Named({e}))
      /\ \A i \in Named({e}) : \E k \in 1 .. end : rows[k] = Numbered(i)
      /\ \A k \in end + 1 .. n : rows[k] \in NumberedIn(Waiting \ Named({e}))
      /\ \A i \in Waiting \ Named({e}) : \E k \in end + 1 .. n : rows[k] = Numbered(i)
      /\ e \notin Known
      /\ \E i \in Waiting : e = input[i].entity
  <2>1. FirstRun(e, end, n)
    BY <1>1, <1>4, <1>5, FirstEntity
  <2> QED BY <2>1 DEF FirstRun
<1>7. \A j, k \in 1 .. n : j < k <=> SortsBefore(rows[j], rows[k])
  <2>1. rows \in Seq(NumberedIn(Waiting))
    BY DEF Normal, InSortOrder
  <2>2. DOMAIN rows = 1 .. n
    BY <1>4, <2>1
  <2> QED BY <2>2 DEF Normal, InSortOrder
<1>8. Tells(e, o) /\ Len(entity) = Cardinality(Named({e}))
  <2>1. PICK S : S = NumberedIn(Named({e}))
    OBVIOUS
  <2>2. /\ entity \in Seq(S) /\ Len(entity) = end
        /\ \A k \in 1 .. end : entity[k] = rows[k]
    <3>1. /\ entity \in Seq(S) /\ Len(entity) = IF 1 <= end THEN end - 1 + 1 ELSE 0
          /\ \A k \in 1 .. end - 1 + 1 : entity[k] = rows[1 + k - 1]
      <4>1. 1 \in Int /\ end \in Int
        BY <1>6
      <4>2. \A k \in 1 .. end : rows[k] \in S
        BY <1>6, <2>1
      <4>3. /\ SubSeq(rows, 1, end) \in Seq(S)
            /\ Len(SubSeq(rows, 1, end)) = IF 1 <= end THEN end - 1 + 1 ELSE 0
            /\ \A k \in 1 .. end - 1 + 1 : SubSeq(rows, 1, end)[k] = rows[1 + k - 1]
        BY ONLY <4>1, <4>2, SubSeqProperties
      <4> QED BY ONLY <1>2, <4>3
    <3> QED BY <1>6, <3>1
  <2>3. DOMAIN entity = 1 .. end /\ \A k \in 1 .. end : k \in 1 .. n
    BY <1>6, <2>2
  <2>4. \A i, j \in DOMAIN entity : i < j <=> SortsBefore(entity[i], entity[j])
    BY <1>7, <2>2, <2>3
  <2>5. \A i \in Named({e}) : \E k \in DOMAIN entity : entity[k] = Numbered(i)
    BY <1>6, <2>2, <2>3
  <2>6. input \in Seq(Row)
    BY DEF Normal
  <2> QED BY <1>3, <2>1, <2>2, <2>4, <2>5, <2>6, EntityTells
<1>9. /\ results \in Seq({results[k] : k \in DOMAIN results})
      /\ Len(results) \in Nat /\ DOMAIN results = 1 .. Len(results)
      /\ DOMAIN results' = 1 .. Len(results) + 1 /\ Len(results') = Len(results) + 1
      /\ \A k \in 1 .. Len(results) : results'[k] = results[k]
      /\ results'[Len(results) + 1] = [entity |-> e, obs |-> o]
      /\ results' \in Seq({results'[k] : k \in DOMAIN results'})
  <2>1. PICK r : r = [entity |-> e, obs |-> o]
    OBVIOUS
  <2>2. PICK T : T = {results[k] : k \in DOMAIN results} \cup {r}
    OBVIOUS
  <2>3. results \in Seq({results[k] : k \in DOMAIN results})
    BY DEF Normal
  <2>4. results \in Seq(T) /\ r \in T
    <3>1. {results[k] : k \in DOMAIN results} \subseteq T
      BY <2>2
    <3> QED BY <2>2, <2>3, <3>1, SeqMonotonic
  <2>5. /\ results' = Append(results, r) /\ Len(results) \in Nat
        /\ DOMAIN results = 1 .. Len(results)
        /\ DOMAIN results' = 1 .. Len(results) + 1 /\ Len(results') = Len(results) + 1
        /\ \A k \in 1 .. Len(results) : results'[k] = results[k]
        /\ results'[Len(results) + 1] = r
    BY <1>5, <2>1, <2>4
  <2>6. results' \in Seq({results'[k] : k \in DOMAIN results'})
    <3>1. results' \in Seq(T)
      BY <2>4, <2>5
    <3>2. PICK q : q = results'
      OBVIOUS
    <3>3. q \in [1 .. Len(q) -> {q[k] : k \in DOMAIN q}] /\ Len(q) \in Nat
      BY <3>1, <3>2
    <3> QED BY <3>2, <3>3
  <2> QED BY <2>1, <2>3, <2>5, <2>6
<1>10. Known' = Known \cup {e}
  <2>1. \A x : x \in Known' <=> \E k \in DOMAIN results' : x = results'[k].entity
    BY DEF Known
  <2>2. \A x : x \in Known <=> \E k \in DOMAIN results : x = results[k].entity
    BY DEF Known
  <2>3. results'[Len(results) + 1].entity = e
    BY <1>9
  <2>4. \A k \in DOMAIN results' : k \in DOMAIN results \/ k = Len(results) + 1
    BY <1>9
  <2>5. DOMAIN results \subseteq DOMAIN results' /\ Len(results) + 1 \in DOMAIN results'
    BY <1>9
  <2>6. \A k \in DOMAIN results : results'[k] = results[k]
    BY <1>9
  <2> HIDE <1>5, <1>9
  <2> QED BY <2>1, <2>2, <2>3, <2>4, <2>5, <2>6
<1>11. Waiting' = Waiting \ Named({e})
  BY <1>5, <1>10 DEF Waiting, Named
<1>12. InSortOrder(rows, NumberedIn(Waiting))'
  <2>1. PICK S : S = NumberedIn(Waiting \ Named({e}))
    OBVIOUS
  <2>2. NumberedIn(Waiting)' = S
    BY <1>5, <1>11, <2>1 DEF NumberedIn, Numbered
  <2>3. PICK m \in Nat : m = n - end
    BY <1>6
  <2>4. /\ rows' \in Seq(S) /\ Len(rows') = m
        /\ \A k \in 1 .. m : rows'[k] = rows[end + k]
    <3>1. /\ end + 1 \in Int /\ n \in Int
          /\ \A k \in end + 1 .. n : rows[k] \in S
      BY <1>6, <2>1
    <3>2. /\ rows' \in Seq(S) /\ Len(rows') = IF end + 1 <= n THEN n - (end + 1) + 1 ELSE 0
          /\ \A k \in 1 .. n - (end + 1) + 1 : rows'[k] = rows[end + 1 + k - 1]
      <4>1. /\ SubSeq(rows, end + 1, n) \in Seq(S)
            /\ Len(SubSeq(rows, end + 1, n)) = IF end + 1 <= n THEN n - (end + 1) + 1 ELSE 0
            /\ \A k \in 1 .. n - (end + 1) + 1 :
                 SubSeq(rows, end + 1, n)[k] = rows[end + 1 + k - 1]
        BY ONLY <3>1, SubSeqProperties
      <4> QED BY <1>5, <4>1, Zenon
    <3>3. n - (end + 1) + 1 = m /\ (IF end + 1 <= n THEN n - (end + 1) + 1 ELSE 0) = m
      BY <1>6, <2>3
    <3>4. \A k \in 1 .. m : end + 1 + k - 1 = end + k
      BY <1>6
    <3> QED BY <3>2, <3>3, <3>4
  <2>5. DOMAIN rows' = 1 .. m
    BY <2>4
  <2>6. ASSUME NEW j \in 1 .. m, NEW k \in 1 .. m
        PROVE  j < k <=> SortsBefore(rows'[j], rows'[k])
    <3>1. end + j \in 1 .. n /\ end + k \in 1 .. n /\ (j < k <=> end + j < end + k)
      BY <1>6, <2>3
    <3> QED BY <1>7, <2>4, <3>1
  <2>7. ASSUME NEW r \in S PROVE \E k \in 1 .. m : rows'[k] = r
    <3>1. PICK i \in Waiting \ Named({e}) : r = Numbered(i)
      BY <2>1 DEF NumberedIn
    <3>2. PICK k \in end + 1 .. n : rows[k] = Numbered(i)
      BY <1>6
    <3>3. k - end \in 1 .. m /\ end + (k - end) = k
      BY <1>6, <2>3, <3>2
    <3> QED BY <2>4, <3>1, <3>2, <3>3
  <2> QED BY <2>2, <2>4, <2>5, <2>6, <2>7 DEF InSortOrder
<1>13. \A i \in DOMAIN input' :
         PartitionIndex(input'[i].entity) < part' => input'[i].entity \in Known'
  BY <1>5, <1>10 DEF Normal
<1>14. ASSUME NEW k \in DOMAIN results'
       PROVE  /\ \E i \in DOMAIN input' : /\ input'[i].entity = results'[k].entity
                                          /\ PartitionIndex(input'[i].entity) <= part'
              /\ Tells(results[k].entity, results[k].obs)'
  <2>1. CASE k \in DOMAIN results
    <3>1. PICK f, p : f = results[k].entity /\ p = results[k].obs
      OBVIOUS
    <3>2. results'[k] = results[k]
      BY <1>9, <2>1
    <3>3. Tells(f, p) /\ \E i \in DOMAIN input : /\ input[i].entity = f
                                                /\ PartitionIndex(input[i].entity) <= part
      BY <2>1, <3>1 DEF Normal
    <3>4. Tells(f, p)'
      BY <1>5, <3>3, TellsKept
    <3> QED BY <1>5, <3>1, <3>2, <3>3, <3>4
  <2>2. CASE k = Len(results) + 1
    <3>1. results'[k].entity = e /\ results'[k].obs = o
      BY <1>9, <2>2
    <3>2. Tells(e, o)'
      BY <1>5, <1>8, TellsKept
    <3>3. PICK i \in Waiting : e = input[i].entity
      BY <1>6
    <3>4. i \in DOMAIN input /\ PartitionIndex(input[i].entity) = part /\ part \in Int
      BY <3>3 DEF Waiting, Normal
    <3>5. PartitionIndex(input[i].entity) <= part
      BY <3>4
    <3> QED BY <1>5, <3>1, <3>2, <3>3, <3>4, <3>5
  <2> QED BY <1>9, <2>1, <2>2
<1>15. ASSUME NEW j \in DOMAIN results', NEW k \in DOMAIN results',
              results'[j].entity = results'[k].entity
       PROVE  j = k
  <2>1. \A i \in DOMAIN results : results'[i].entity = results[i].entity
                                  /\ results[i].entity # e
    BY <1>6, <1>9 DEF Known
  <2>2. results'[Len(results) + 1].entity = e
    BY <1>9
  <2>3. \A i \in DOMAIN results' : i \in DOMAIN results \/ i = Len(results) + 1
    BY <1>9
  <2>4. \A a, b \in DOMAIN results : results[a].entity = results[b].entity => a = b
    BY DEF Normal
  <2> QED BY <1>15, <2>1, <2>2, <2>3, <2>4
<1>16. stats' = [entities   |-> Len(results'),
                 normalized |-> Cardinality(Instants(Known)'),
                 collapsed  |-> Cardinality(Named(Known)') - Cardinality(Instants(Known)')]
  <2>1. PICK K : K = Known
    OBVIOUS
  <2>2. Instants(Known)' = Instants(K \cup {e}) /\ Named(Known)' = Named(K \cup {e})
    BY <1>5, <1>10, <2>1 DEF Instants, Named
  <2>3. PICK a, b, c, d : /\ a = Cardinality(Named(K)) /\ b = Cardinality(Named({e}))
                          /\ c = Cardinality(Instants(K)) /\ d = Cardinality(Times(e))
    OBVIOUS
  <2>4. /\ Cardinality(Named(K \cup {e})) = a + b /\ Cardinality(Instants(K \cup {e})) = c + d
        /\ a \in Nat /\ b \in Nat /\ c \in Nat /\ d \in Nat
    BY <1>6, <2>1, <2>3, OneMore DEF Normal
  <2>5. stats = [entities |-> Len(results), normalized |-> c, collapsed |-> a - c]
    BY <2>1, <2>3 DEF Normal
  <2>6. Len(o) = d /\ Len(entity) = b
    BY <1>8, <2>3 DEF Tells
  <2>7. stats' = [entities |-> Len(results) + 1, normalized |-> c + d,
                  collapsed |-> (a - c) + b - d]
    BY <1>5, <2>5, <2>6
  <2>8. (a - c) + b - d = (a + b) - (c + d)
    BY <2>4
  <2> QED BY <1>9, <2>2, <2>4, <2>7, <2>8
<1>17. input' \in Seq(Row) /\ part' \in 0 .. Partitions
  BY <1>5 DEF Normal
<1> QED BY <1>9, <1>12, <1>13, <1>14, <1>15, <1>16, <1>17 DEF Normal

\* A stutter changes nothing the invariant speaks of.
LEMMA StayNormal ==
  ASSUME Normal, UNCHANGED vars
  PROVE  Normal'
<1>1. input' = input /\ part' = part /\ rows' = rows /\ results' = results /\ stats' = stats
  BY DEF vars
<1>2. Known' = Known
  BY <1>1 DEF Known
<1>3. /\ Waiting' = Waiting /\ Instants(Known)' = Instants(Known)
      /\ Named(Known)' = Named(Known)
  BY <1>1, <1>2 DEF Waiting, Instants, Named
<1>4. InSortOrder(rows, NumberedIn(Waiting))'
  <2>1. NumberedIn(Waiting)' = NumberedIn(Waiting)
    BY <1>1, <1>3 DEF NumberedIn, Numbered
  <2> QED BY <1>1, <2>1 DEF Normal, InSortOrder
<1>5. ASSUME NEW k \in DOMAIN results
      PROVE  Tells(results[k].entity, results[k].obs)'
  <2>1. PICK e, o : e = results[k].entity /\ o = results[k].obs
    OBVIOUS
  <2>2. Tells(e, o)'
    BY <1>1, <2>1, TellsKept DEF Normal
  <2> QED BY <1>1, <2>1, <2>2
<1>6. /\ input' \in Seq(Row) /\ part' \in 0 .. Partitions
      /\ \A i \in DOMAIN input' :
           PartitionIndex(input'[i].entity) < part' => input'[i].entity \in Known'
      /\ results' \in Seq({results'[k] : k \in DOMAIN results'})
      /\ \A k \in DOMAIN results' :
           \E i \in DOMAIN input' : /\ input'[i].entity = results'[k].entity
                                    /\ PartitionIndex(input'[i].entity) <= part'
      /\ \A j, k \in DOMAIN results' : results'[j].entity = results'[k].entity => j = k
      /\ stats' = [entities   |-> Len(results'),
                   normalized |-> Cardinality(Instants(Known)'),
                   collapsed  |-> Cardinality(Named(Known)') - Cardinality(Instants(Known)')]
  BY <1>1, <1>2, <1>3 DEF Normal
<1> QED BY <1>1, <1>4, <1>5, <1>6 DEF Normal

\* The invariant holds throughout.
LEMMA SpecNormal == Spec => []Normal
<1>1. Normal /\ [Next]_vars => Normal'
  <2> SUFFICES ASSUME Normal, [Next]_vars PROVE Normal'
    OBVIOUS
  <2>1. CASE ReadPartition
    BY <2>1, ReadNormal
  <2>2. CASE EventizeEntity
    BY <2>2, EventizeNormal
  <2>3. CASE UNCHANGED vars
    BY <2>3, StayNormal
  <2> QED BY <2>1, <2>2, <2>3 DEF Next
<1> QED BY <1>1, InitNormal, PTL DEF Spec

-----------------------------------------------------------------------------
(* What the invariant gives.                                               *)

\* The rows of one entity and time, as the file has them.
RowsOf(I) == {input[i] : i \in I}

\* Finitely many rows have finitely many contents.
LEMMA RowsOfFinite ==
  ASSUME NEW I, IsFiniteSet(I)
  PROVE  IsFiniteSet(RowsOf(I))
<1> DEFINE f == [i \in I |-> input[i]]
<1>1. PICK B : B = RowsOf(I)
  OBVIOUS
<1>2. f \in Surjection(I, B)
  BY <1>1 DEF RowsOf, Surjection
<1> HIDE DEF f
<1> QED BY <1>1, <1>2, FS_Surjection

\* The observation that stands for a fix: a function of the fixes alone.
Shape(f) ==
  [fix |-> Content(f), samples |-> Cardinality(At(f)),
   scatter |-> Farthest(f, {input[i] : i \in At(f)})]

\* The observation o stands for the row i, which is better than the others of
\* its entity and time.
StandsFor(o, i) ==
  /\ o.fix = Numbered(i)
  /\ [o EXCEPT !.fix = Content(o.fix)] = Shape(input[i])
  /\ Preferred(input[i])

\* An observation of an entity at a time stands for one of its rows.
LEMMA Observed ==
  ASSUME input \in Seq(Row), NEW e, NEW t \in Times(e),
         NEW o, o = Collapsed(NumberedIn(Moment(e, t)))
  PROVE  \E i \in Moment(e, t) : StandsFor(o, i)
<1>1. PICK I : I = Moment(e, t)
  OBVIOUS
<1>2. I \in SUBSET DOMAIN input /\ \A i \in I : input[i].entity = e /\ input[i].ts = t
  BY <1>1 DEF Moment
<1>3. PICK G : G = NumberedIn(I)
  OBVIOUS
<1>4. /\ Distinct(G) /\ IsFiniteSet(G) /\ IsFiniteSet(I) /\ Cardinality(G) = Cardinality(I)
  BY <1>2, <1>3, NumberedRows
<1>5. PICK i0 : i0 \in I
  BY <1>1 DEF Times, Named, Moment
<1>6. G # {}
  BY <1>3, <1>5 DEF NumberedIn
<1>7. /\ o.fix \in G /\ o.samples = Cardinality(G)
      /\ \A g \in G \ {o.fix} : BetterRepresentative(o.fix, g)
      /\ o.scatter = Farthest(o.fix, G)
      /\ o = [fix |-> o.fix, samples |-> o.samples, scatter |-> o.scatter]
  <2>1. o = Collapsed(G)
    BY <1>1, <1>3
  <2> QED BY <1>4, <1>6, <2>1, Representative
<1>8. PICK i \in I : o.fix = Numbered(i)
  BY <1>3, <1>7 DEF NumberedIn
<1>9. \A j \in I : /\ j \in Nat /\ input[j].ts \in Nat /\ input[j].place \in Nat
                   /\ input[j].ha \in Nat \cup {MissingHA}
                   /\ Numbered(j).entity = input[j].entity /\ Numbered(j).ts = input[j].ts
                   /\ Numbered(j).place = input[j].place /\ Numbered(j).ha = input[j].ha
                   /\ Numbered(j).row = j
  BY <1>2, RowFields
<1>10. At(input[i]) = I
  BY <1>1, <1>2, <1>8 DEF At, Moment
<1>11. ASSUME NEW j \in I
       PROVE  /\ HasHA(input[j]) => HasHA(input[i]) /\ input[i].ha <= input[j].ha
              /\ input[i].ha = input[j].ha => input[i].place <= input[j].place
  <2>1. CASE j = i
    BY <1>9, <2>1 DEF MissingHA
  <2>2. CASE j # i
    <3>1. Numbered(j) \in G \ {o.fix}
      <4>1. Numbered(j) \in G
        BY <1>3 DEF NumberedIn
      <4>2. Numbered(j).row # Numbered(i).row
        BY <1>8, <1>9, <2>2
      <4> QED BY <1>8, <4>1, <4>2
    <3>2. BetterRepresentative(Numbered(i), Numbered(j))
      BY <1>7, <1>8, <3>1
    <3>3. PICK a, b : a = Numbered(i) /\ b = Numbered(j)
      OBVIOUS
    <3>4. /\ a.ha = input[i].ha /\ b.ha = input[j].ha
          /\ a.place = input[i].place /\ b.place = input[j].place
          /\ a.ha \in Nat \cup {MissingHA} /\ b.ha \in Nat \cup {MissingHA}
          /\ a.place \in Nat /\ b.place \in Nat
      BY <1>8, <1>9, <3>3
    <3>5. BetterRepresentative(a, b)
      BY <3>2, <3>3
    <3>6. /\ HasHA(b) => HasHA(a) /\ a.ha <= b.ha
          /\ a.ha = b.ha => a.place <= b.place
      BY <3>4, <3>5 DEF BetterRepresentative, HasHA, MissingHA
    <3> QED BY <3>4, <3>6 DEF HasHA
  <2> QED BY <2>1, <2>2
<1>12. Preferred(input[i])
  BY <1>10, <1>11 DEF Preferred
<1>13. o.scatter = Farthest(input[i], RowsOf(I))
  <2>1. PICK b, c, H : b = o.fix /\ c = input[i] /\ H = RowsOf(I)
    OBVIOUS
  <2>2. b.place \in Nat /\ c.place = b.place
    BY <1>8, <1>9, <2>1
  <2>3. IsFiniteSet(H) /\ H # {}
    BY <1>4, <1>5, <2>1, RowsOfFinite DEF RowsOf
  <2>4. \A g \in G : g.place \in Nat /\ \E h \in H : h.place = g.place
    <3>1. \A g \in G : \E j \in I : g = Numbered(j)
      BY <1>3 DEF NumberedIn
    <3>2. \A j \in I : input[j] \in H
      BY <2>1 DEF RowsOf
    <3> QED BY <1>9, <3>1, <3>2
  <2>5. \A h \in H : \E g \in G : h.place = g.place
    <3>1. \A h \in H : \E j \in I : h = input[j]
      BY <2>1 DEF RowsOf
    <3>2. \A j \in I : Numbered(j) \in G
      BY <1>3 DEF NumberedIn
    <3> QED BY <1>9, <3>1, <3>2
  <2>6. Farthest(b, G) = Farthest(c, H)
    BY <1>4, <1>6, <2>2, <2>3, <2>4, <2>5, FarthestOfPlaces
  <2> QED BY <1>7, <2>1, <2>6
<1>14. [o EXCEPT !.fix = Content(o.fix)] = Shape(input[i])
  <2>1. Content(o.fix) = Content(input[i])
    BY <1>8, <1>9 DEF Content
  <2>2. PICK x, y, z, c : x = o.fix /\ y = o.samples /\ z = o.scatter /\ c = Content(o.fix)
    OBVIOUS
  <2>3. [o EXCEPT !.fix = c] = [fix |-> c, samples |-> y, scatter |-> z]
    <3>1. o = [fix |-> x, samples |-> y, scatter |-> z]
      BY <1>7, <2>2
    <3> QED BY ONLY <3>1
  <2>4. z = Farthest(input[i], {input[j] : j \in At(input[i])})
    BY <1>10, <1>13, <2>2 DEF RowsOf
  <2>5. y = Cardinality(At(input[i]))
    BY <1>4, <1>7, <1>10, <2>2
  <2> QED BY <2>1, <2>2, <2>3, <2>4, <2>5, Zenon DEF Shape
<1> QED BY <1>1, <1>8, <1>12, <1>14 DEF StandsFor

\* Two preferred fixes of one entity and time have the same shape.
LEMMA PreferredIsOne ==
  ASSUME input \in Seq(Row), NEW i \in DOMAIN input, NEW j \in DOMAIN input,
         Preferred(input[i]), Preferred(input[j]),
         input[i].entity = input[j].entity, input[i].ts = input[j].ts
  PROVE  Shape(input[i]) = Shape(input[j])
<1>1. PICK f, g : f = input[i] /\ g = input[j]
  OBVIOUS
<1>2. PICK I : I = At(f)
  OBVIOUS
<1>3. I = At(g) /\ i \in I /\ j \in I /\ I \in SUBSET DOMAIN input
  BY <1>1, <1>2 DEF At
<1>4. /\ f.place \in Nat /\ f.ha \in Nat \cup {MissingHA}
      /\ g.place \in Nat /\ g.ha \in Nat \cup {MissingHA}
  BY <1>1, RowFields
<1>5. /\ HasHA(g) => HasHA(f) /\ f.ha <= g.ha
      /\ f.ha = g.ha => f.place <= g.place
      /\ HasHA(f) => HasHA(g) /\ g.ha <= f.ha
      /\ g.ha = f.ha => g.place <= f.place
  <2>1. \A k \in I : LET h == input[k]
                     IN  /\ HasHA(h) => HasHA(f) /\ f.ha <= h.ha
                         /\ f.ha = h.ha => f.place <= h.place
    BY <1>1, <1>2 DEF Preferred
  <2>2. \A k \in I : LET h == input[k]
                     IN  /\ HasHA(h) => HasHA(g) /\ g.ha <= h.ha
                         /\ g.ha = h.ha => g.place <= h.place
    BY <1>1, <1>3 DEF Preferred
  <2> QED BY <1>1, <1>3, <2>1, <2>2
<1>6. f.ha = g.ha /\ f.place = g.place
  BY <1>4, <1>5 DEF HasHA, MissingHA
<1>7. Content(f) = Content(g)
  BY <1>1, <1>6 DEF Content
<1>8. Farthest(f, RowsOf(I)) = Farthest(g, RowsOf(I))
  <2>1. PICK H : H = RowsOf(I)
    OBVIOUS
  <2>2. IsFiniteSet(H) /\ H # {}
    BY <1>3, <2>1, NumberedRows, RowsOfFinite DEF RowsOf
  <2>3. \A h \in H : h.place \in Nat
    <3>1. \A h \in H : \E k \in DOMAIN input : h = input[k]
      BY <1>3, <2>1 DEF RowsOf
    <3> QED BY <3>1, RowFields
  <2>4. \A h \in H : \E x \in H : h.place = x.place
    OBVIOUS
  <2> QED BY <1>4, <1>6, <2>1, <2>2, <2>3, <2>4, FarthestOfPlaces
<1> QED BY <1>1, <1>2, <1>3, <1>7, <1>8, Zenon DEF Shape, RowsOf

\* What each observation of the run stands for.
LEMMA EachStands ==
  ASSUME Normal, NEW k \in DOMAIN results, NEW e, e = results[k].entity
  PROVE  /\ \A n \in DOMAIN results[k].obs :
              \E i \in DOMAIN input : /\ input[i].entity = e
                                      /\ StandsFor(results[k].obs[n], i)
         /\ \A x \in Times(e) : \E n \in DOMAIN results[k].obs :
              \E i \in DOMAIN input : /\ input[i].entity = e /\ input[i].ts = x
                                      /\ StandsFor(results[k].obs[n], i)
         /\ \A n \in DOMAIN results[k].obs :
              n > 1 => results[k].obs[n - 1].fix.ts < results[k].obs[n].fix.ts
<1>1. PICK o : o = results[k].obs
  OBVIOUS
<1>2. input \in Seq(Row) /\ Tells(e, o)
  BY <1>1 DEF Normal
<1>3. PICK m : m = Cardinality(Times(e))
  OBVIOUS
<1>4. DOMAIN o = 1 .. m /\ m \in Nat
  <2>1. m \in Nat
    <3>1. e \notin {}
      OBVIOUS
    <3> QED BY <1>2, <1>3, <3>1, OneMore
  <2> QED BY <1>2, <1>3, <2>1 DEF Tells
<1>5. PICK t \in [DOMAIN o -> Times(e)] :
        /\ \A n \in DOMAIN o : o[n] = Collapsed(NumberedIn(Moment(e, t[n])))
        /\ \A a, b \in DOMAIN o : a < b => t[a] < t[b]
        /\ \A x \in Times(e) : \E n \in DOMAIN o : t[n] = x
  BY <1>2 DEF Tells
<1>6. ASSUME NEW n \in DOMAIN o
      PROVE  \E i \in DOMAIN input : /\ input[i].entity = e /\ input[i].ts = t[n]
                                     /\ StandsFor(o[n], i) /\ o[n].fix.ts = t[n]
  <2>1. PICK x : x = t[n]
    OBVIOUS
  <2>2. x \in Times(e) /\ o[n] = Collapsed(NumberedIn(Moment(e, x)))
    BY <1>5, <2>1
  <2>3. PICK i \in Moment(e, x) : StandsFor(o[n], i)
    BY <1>2, <2>2, Observed
  <2>4. i \in DOMAIN input /\ input[i].entity = e /\ input[i].ts = x
    BY DEF Moment
  <2>5. o[n].fix.ts = x
    <3>1. o[n].fix = Numbered(i)
      BY <2>3 DEF StandsFor
    <3>2. Numbered(i).ts = input[i].ts
      BY <1>2, <2>4, RowFields
    <3> QED BY <2>4, <3>1, <3>2
  <2> QED BY <2>1, <2>3, <2>4, <2>5
<1>7. ASSUME NEW n \in DOMAIN o, n > 1 PROVE o[n - 1].fix.ts < o[n].fix.ts
  <2>1. n - 1 \in DOMAIN o /\ n - 1 < n
    BY <1>4, <1>7
  <2> QED BY <1>5, <1>6, <2>1
<1>8. ASSUME NEW x \in Times(e)
      PROVE  \E n \in DOMAIN o : \E i \in DOMAIN input :
               input[i].entity = e /\ input[i].ts = x /\ StandsFor(o[n], i)
  <2>1. PICK n \in DOMAIN o : t[n] = x
    BY <1>5
  <2> QED BY <1>6, <2>1
<1> QED BY <1>1, <1>6, <1>7, <1>8

\* At the end every entity is known.
LEMMA AllKnown ==
  ASSUME Normal, Done
  PROVE  /\ \A i \in DOMAIN input : input[i].entity \in Known
         /\ Known = {input[i].entity : i \in DOMAIN input}
         /\ Named(Known) = DOMAIN input
<1>1. part = Partitions /\ Partitions \in Nat /\ Waiting = {} /\ input \in Seq(Row)
  BY EmptyHand, BoundAssumption DEF Done, Normal
<1>2. ASSUME NEW i \in DOMAIN input PROVE input[i].entity \in Known
  <2>1. PartitionIndex(input[i].entity) \in 1 .. Partitions
    BY <1>1, RowFields
  <2>2. CASE PartitionIndex(input[i].entity) < part
    BY <2>2 DEF Normal
  <2>3. CASE PartitionIndex(input[i].entity) = part
    BY <1>1, <2>3 DEF Waiting
  <2> QED BY <1>1, <2>1, <2>2, <2>3
<1>3. \A x \in Known : \E i \in DOMAIN input : x = input[i].entity
  <2> SUFFICES ASSUME NEW x \in Known PROVE \E i \in DOMAIN input : x = input[i].entity
    OBVIOUS
  <2>1. PICK k \in DOMAIN results : x = results[k].entity
    BY DEF Known
  <2>2. \E i \in DOMAIN input : input[i].entity = results[k].entity
    BY DEF Normal
  <2> QED BY <2>1, <2>2
<1> QED BY <1>2, <1>3 DEF Named

\* The invariant counts and orders entities as EntitiesAreWhole asks.
LEMMA NormalIsWhole == Normal => EntitiesAreWhole
<1> SUFFICES ASSUME Normal PROVE EntitiesAreWhole
  OBVIOUS
<1>1. \A i, j \in DOMAIN results : results[i].entity = results[j].entity => i = j
  BY DEF Normal
<1>2. ASSUME NEW k \in DOMAIN results, NEW n \in DOMAIN results[k].obs
      PROVE  results[k].obs[n].fix.entity = results[k].entity
  <2>1. PICK i \in DOMAIN input : /\ input[i].entity = results[k].entity
                                  /\ StandsFor(results[k].obs[n], i)
    BY EachStands
  <2>2. Numbered(i).entity = input[i].entity
    BY RowFields DEF Normal
  <2> QED BY <2>1, <2>2 DEF StandsFor
<1>3. ASSUME NEW k \in DOMAIN results, NEW n \in DOMAIN results[k].obs, n > 1
      PROVE  results[k].obs[n - 1].fix.ts < results[k].obs[n].fix.ts
  BY <1>3, EachStands
<1>4. ASSUME Done
      PROVE  /\ stats.normalized + stats.collapsed = Len(input)
             /\ stats.entities = Cardinality({input[i].entity : i \in DOMAIN input})
  <2>1. PICK a, c, l : /\ a = Cardinality(Named(Known)) /\ c = Cardinality(Instants(Known))
                       /\ l = Len(results)
    OBVIOUS
  <2>2. stats = [entities |-> l, normalized |-> c, collapsed |-> a - c]
    BY <2>1 DEF Normal
  <2>3. IsFiniteSet(Named(Known)) /\ IsFiniteSet(Instants(Known))
    <3>1. input \in Seq(Row) /\ Named(Known) \in SUBSET DOMAIN input
      BY DEF Normal, Named
    <3> QED BY <3>1, NumberedRows, InstantsFinite
  <2>4. a \in Nat /\ c \in Nat
    BY <2>1, <2>3, FS_CardinalityType
  <2>5. a = Len(input)
    <3>1. PICK m \in Nat : m = Len(input) /\ DOMAIN input = 1 .. m
      BY DEF Normal
    <3>2. Cardinality(1 .. m) = m
      BY FS_Interval
    <3> QED BY <1>4, <2>1, <3>1, <3>2, AllKnown
  <2>6. l = Cardinality(Known)
    <3>1. PICK K : K = Known
      OBVIOUS
    <3>2. l \in Nat /\ DOMAIN results = 1 .. l
      BY <2>1 DEF Normal
    <3> DEFINE f == [k \in 1 .. l |-> results[k].entity]
    <3>3. f \in [1 .. l -> K] /\ \A k \in 1 .. l : f[k] = results[k].entity
      BY <3>1, <3>2 DEF Known
    <3>4. \A x \in K : \E k \in 1 .. l : x = f[k]
      BY <3>1, <3>2 DEF Known
    <3> HIDE DEF f
    <3>5. \A j, k \in 1 .. l : f[j] = f[k] => j = k
      BY <1>1, <3>2, <3>3
    <3>6. f \in Bijection(1 .. l, K)
      BY <3>3, <3>4, <3>5 DEF Bijection, Injection, Surjection, IsInjective
    <3>7. ExistsBijection(1 .. l, K)
      BY <3>6 DEF ExistsBijection
    <3>8. IsFiniteSet(1 .. l) /\ Cardinality(1 .. l) = l
      BY <3>2, FS_Interval
    <3> QED BY <3>1, <3>7, <3>8, FS_Bijection
  <2>7. stats.normalized + stats.collapsed = a
    BY <2>2, <2>4
  <2>8. stats.entities = l
    BY <2>2
  <2> QED BY <1>4, <2>5, <2>6, <2>7, <2>8, AllKnown
<1> QED BY <1>1, <1>2, <1>3, <1>4 DEF EntitiesAreWhole

\* Each instant yields the shape of its preferred fix, and no other.
LEMMA NormalIsIrrelevant == Normal => RowOrderIsIrrelevant
<1> SUFFICES ASSUME Normal, Done
             PROVE  /\ {[o EXCEPT !.fix = Content(o.fix)] : o \in Observations} = Expected
                    /\ Cardinality(Expected) = stats.normalized
  BY DEF RowOrderIsIrrelevant
<1>1. input \in Seq(Row) /\ \A i \in DOMAIN input : input[i].entity \in Known
  BY AllKnown DEF Normal
<1>2. PICK X : X = Expected
  OBVIOUS
<1>3. /\ \A i \in DOMAIN input : Preferred(input[i]) => Shape(input[i]) \in X
      /\ \A x \in X : \E i \in DOMAIN input : Preferred(input[i]) /\ x = Shape(input[i])
  BY <1>2, Zenon DEF Expected, Shape
<1>4. \A o : o \in Observations <=>
               \E k \in DOMAIN results : \E n \in DOMAIN results[k].obs : o = results[k].obs[n]
  BY DEF Observations
<1>5. ASSUME NEW o \in Observations
      PROVE  [o EXCEPT !.fix = Content(o.fix)] \in X
  <2>1. PICK k \in DOMAIN results : \E n \in DOMAIN results[k].obs : o = results[k].obs[n]
    BY <1>4
  <2>2. PICK n \in DOMAIN results[k].obs : o = results[k].obs[n]
    BY <2>1
  <2>3. PICK i \in DOMAIN input : StandsFor(o, i)
    BY <2>2, EachStands
  <2> QED BY <1>3, <2>3 DEF StandsFor
<1>6. ASSUME NEW e \in Known, NEW x \in Times(e)
      PROVE  \E o \in Observations : \E i \in DOMAIN input :
               input[i].entity = e /\ input[i].ts = x /\ StandsFor(o, i)
  <2>1. PICK k \in DOMAIN results : e = results[k].entity
    BY DEF Known
  <2>2. PICK n \in DOMAIN results[k].obs :
          \E i \in DOMAIN input : /\ input[i].entity = e /\ input[i].ts = x
                                  /\ StandsFor(results[k].obs[n], i)
    BY <2>1, EachStands
  <2>3. results[k].obs[n] \in Observations
    BY <1>4
  <2> QED BY <2>2, <2>3
<1>7. \A i \in DOMAIN input : input[i].ts \in Times(input[i].entity)
  BY DEF Times, Named
<1>8. ASSUME NEW x \in X
      PROVE  \E o \in Observations : x = [o EXCEPT !.fix = Content(o.fix)]
  <2>1. PICK j \in DOMAIN input : Preferred(input[j]) /\ x = Shape(input[j])
    BY <1>3
  <2>2. PICK o \in Observations : \E i \in DOMAIN input :
          input[i].entity = input[j].entity /\ input[i].ts = input[j].ts /\ StandsFor(o, i)
    BY <1>1, <1>6, <1>7
  <2>3. PICK i \in DOMAIN input :
          input[i].entity = input[j].entity /\ input[i].ts = input[j].ts /\ StandsFor(o, i)
    BY <2>2
  <2>4. Shape(input[i]) = Shape(input[j])
    BY <1>1, <2>1, <2>3, PreferredIsOne DEF StandsFor
  <2> QED BY <2>1, <2>3, <2>4 DEF StandsFor
<1>9. {[o EXCEPT !.fix = Content(o.fix)] : o \in Observations} = X
  BY <1>5, <1>8
<1>10. Cardinality(X) = stats.normalized
  <2>1. PICK P : P = Instants(Known)
    OBVIOUS
  <2>2. \A p : p \in P <=> \E i \in DOMAIN input : p = <<input[i].entity, input[i].ts>>
    BY <1>1, <2>1 DEF Instants, Named
  <2> DEFINE f == [x \in X |-> <<x.fix.entity, x.fix.ts>>]
  <2>3. \A i \in DOMAIN input : /\ Shape(input[i]).fix.entity = input[i].entity
                                /\ Shape(input[i]).fix.ts = input[i].ts
    BY DEF Shape, Content
  <2>4. \A i \in DOMAIN input :
          Preferred(input[i]) => f[Shape(input[i])] = <<input[i].entity, input[i].ts>>
    BY <1>3, <2>3
  <2>5. f \in [X -> P]
    <3>1. ASSUME NEW x \in X PROVE <<x.fix.entity, x.fix.ts>> \in P
      <4>1. PICK i \in DOMAIN input : x = Shape(input[i])
        BY <1>3
      <4> QED BY <2>2, <2>3, <4>1
    <3> QED BY <3>1
  <2> HIDE DEF f
  <2>6. ASSUME NEW x \in X, NEW y \in X, f[x] = f[y] PROVE x = y
    <3>1. PICK i \in DOMAIN input : Preferred(input[i]) /\ x = Shape(input[i])
      BY <1>3
    <3>2. PICK j \in DOMAIN input : Preferred(input[j]) /\ y = Shape(input[j])
      BY <1>3
    <3>3. <<input[i].entity, input[i].ts>> = <<input[j].entity, input[j].ts>>
      BY <2>4, <2>6, <3>1, <3>2
    <3>4. input[i].entity = input[j].entity /\ input[i].ts = input[j].ts
      BY <3>3
    <3> QED BY <1>1, <3>1, <3>2, <3>4, PreferredIsOne
  <2>7. ASSUME NEW p \in P PROVE \E x \in X : f[x] = p
    <3>1. PICK j \in DOMAIN input : p = <<input[j].entity, input[j].ts>>
      BY <2>2
    <3>2. PICK o \in Observations : \E i \in DOMAIN input :
            input[i].entity = input[j].entity /\ input[i].ts = input[j].ts /\ StandsFor(o, i)
      BY <1>1, <1>6, <1>7
    <3>3. PICK i \in DOMAIN input :
            input[i].entity = input[j].entity /\ input[i].ts = input[j].ts /\ StandsFor(o, i)
      BY <3>2
    <3>4. Preferred(input[i])
      BY <3>3 DEF StandsFor
    <3> QED BY <1>3, <2>4, <3>1, <3>3, <3>4
  <2>8. f \in Injection(X, P) /\ f \in Surjection(X, P)
    BY <2>5, <2>6, <2>7 DEF Injection, Surjection, IsInjective
  <2>9. IsFiniteSet(P)
    BY <1>1, <2>1, InstantsFinite
  <2>10. Cardinality(X) = Cardinality(P)
    BY <2>8, <2>9, FS_Injection
  <2>11. stats.normalized = Cardinality(P)
    BY <2>1 DEF Normal
  <2> QED BY <2>10, <2>11
<1> QED BY <1>2, <1>9, <1>10

\* Every call of Eventize gets one entity whole and in strictly increasing
\* time, none is eventized twice, and accepted rows = normalized + collapsed,
\* for every file, partition function and number of partitions (the partition
\* loop of pipeline.Run with collapseSameTimestamp).
THEOREM EntitiesAlwaysWhole == Spec => []EntitiesAreWhole
BY SpecNormal, NormalIsWhole, PTL

\* At the end the observations are exactly those the fixes ask for, whatever
\* the order of the rows and their partitions (betterTimestampRepresentative).
THEOREM RowOrderNeverMatters == Spec => []RowOrderIsIrrelevant
BY SpecNormal, NormalIsIrrelevant, PTL
=============================================================================
