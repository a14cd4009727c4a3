SPECIFICATION Spec
CONSTANTS
  Tests = {t1, t2}
  t1 = t1
  t2 = t2
  e1 = e1
  e2 = e2
  o1 = o1
  o2 = o2
  l1 = l1
  NoConn = NoConn
  NoLink = NoLink
  Requests = {n1, n2}
  EventTypes = {e1, e2}
  Operations = {o1, o2}
  Conns = {c1, c2}
  Links = {l1}
  Programs <- ProgramsOfAll
  AsyncClientPrograms <- AcPrograms
  SyncClientPrograms <- ScPrograms
  SyncServerPrograms <- SsPrograms
  AsyncServerPrograms <- AsPrograms
  Components = {"asyncClient", "client", "server", "proxy", "asyncServer"}
  Parallel = TRUE
  Failing = TRUE
  AutoConnect = TRUE
  SlowClose = FALSE
  SlowHandlers = FALSE
  MaxConns = 2
  MaxEvents = 2
  MaxTook = 1
INVARIANTS WaitsTold RetryInBudget StopReleases
PROPERTIES TestsEnd AnswersCome
CHECK_DEADLOCK FALSE
