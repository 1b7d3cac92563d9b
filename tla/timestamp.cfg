CONSTANTS
  Kilo = 4
  Milli = 6
  MinInt <- MCMin
  MaxInt <- MCMax
  FirstSecond <- MCFirst
  LastSecond = 5
  Numerator <- MCNumerator
  Denominator <- MCDenominator
SPECIFICATION TimestampSpec
INVARIANTS
  TimestampsAreRead
CHECK_DEADLOCK FALSE
