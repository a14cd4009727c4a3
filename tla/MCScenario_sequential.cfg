CONSTANTS
  db = db back = back proxy = proxy c1 = c1 c2 = c2 dyn1 = dyn1 dyn2 = dyn2
  t1 = t1 t2 = t2 t3 = t3 g1 = g1 g2 = g2 InitHook = InitHook
  NonNetwork <- NoComps
  Servers <- OneServer
  Clients <- OneClient
  Dynamic = {dyn1}
  Groups = {g1}
  Tests = {t1, t2}
  TestsOf <- Sequential
  Uses <- UsesWithDynamic
  Waits <- WaitsOnServer
  Brings <- BringsOne
  InitBrings <- NoComps
  Busy = {back}
  Lossy = {}
  NSteps = 1
  FlakyStart = {back}
  FlakyStop = {dyn1}
  Hanging = {}
  ReportersThrow = TRUE
  StopMayThrow = TRUE
  MaxRuns = 2
SPECIFICATION Spec
CHECK_DEADLOCK FALSE
INVARIANTS TypeOK ErrorsFailTheirTest
