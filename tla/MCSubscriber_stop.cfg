CONSTANTS
  t1 = t1 t2 = t2 a = a b = b
  Tests = {t1, t2}
  Topics = {a, b}
  Program <- WaitsAndCalls
  AutoSubscribe = TRUE
  Unreliable = TRUE
  Aborts = {t2}
  MaxMsgs = 2
  MaxStarts = 1
SPECIFICATION Spec
CHECK_DEADLOCK FALSE
INVARIANTS TypeOK StoppedClean WaitersSettled
PROPERTIES OneLiveAdapter
