SPECIFICATION ReportsSpec
CONSTANTS
  t1 = t1 t2 = t2 a = a b = b c = c
  Parts = {"whole", "throws", "again", "expect"}
  Cases <- Sound
  Tests = {t1, t2}
  Plans <- Both
  NSteps = 1
  Keys <- Request
  ThrowsIn <- Callbacks
  MaxRuns = 1
INVARIANTS Reported ExpectTells
CHECK_DEADLOCK FALSE
