SPECIFICATION ResultsSpec
CONSTANTS
  Parts = {"handlers", "dataSource", "routes"}
  NoRoute = NoRoute
  Messages = {m1, m2}
  Cases <- ChainsToTake
  m1 = m1
  m2 = m2
  t1 = t1
  t2 = t2
  MaxChain = 3
  Kinds = {"pg", "mongo", "clickhouse", "redis"}
  MaxStarts = 2
  Second = {m2}
  Tests = {t1, t2}
  Programs <- ExecPrograms
  Names <- Braced
  InitSteps <- InitRoutes
  TestSteps <- TestRoutes
  Requests <- Asked
  MaxRuns = 2
  Failing = TRUE
INVARIANTS PassedMeansAsserted GoesOnAsMade FailuresTold ParamsAsDeclared ClientsReleased AttemptsAwaited
CHECK_DEADLOCK FALSE
