CONSTANTS
  t1 = t1 t2 = t2 a = a b = b
  Tests = {t1, t2}
  Topics = {a, b}
  Program <- WaitOrCalls
  AutoSubscribe = TRUE
  Unreliable = TRUE
  Aborts = {t1}
  MaxMsgs = 1
  MaxStarts = 1
SPECIFICATION FairSpec
CHECK_DEADLOCK FALSE
PROPERTIES StopAndTestsEnd
