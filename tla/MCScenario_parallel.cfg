CONSTANTS
  db = db back = back proxy = proxy c1 = c1 c2 = c2 dyn1 = dyn1 dyn2 = dyn2
  t1 = t1 t2 = t2 t3 = t3 g1 = g1 g2 = g2 InitHook = InitHook
  NonNetwork <- OneDb
  Servers <- TwoServers
  Clients <- OneClient
  Dynamic = {dyn1, dyn2}
  Groups = {g1, g2}
  Tests = {t1, t2, t3}
  TestsOf <- Parallel
  Uses <- UsesWithDynamic
  Waits <- WaitsOnClient
  Brings <- BringsOne
  InitBrings <- InitBringsOne
  Busy = {}
  Lossy = {c1}
  NSteps = 1
  FlakyStart = {c1, dyn1, dyn2}
  FlakyStop = {back, dyn1}
  Hanging = {db}
  ReportersThrow = TRUE
  StopMayThrow = FALSE
  MaxRuns = 1
SPECIFICATION FairSpec
CHECK_DEADLOCK FALSE
INVARIANTS HooksScoped UsedComponentsUp DynamicCleanedUp NothingLeftRunning
PROPERTIES HooksLostOnlyByOwner RunEnds
