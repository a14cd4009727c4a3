CONSTANTS
  c1 = c1 c2 = c2 c3 = c3 l1 = l1 l2 = l2 l3 = l3
  NoLink = NoLink NoConn = NoConn
  Conns = {c1}
  Links = {l1, l2, l3}
  Proxy = TRUE
  LinkHooks <- NoHooks
  WaitDisc <- NoHooks
  Watched = {}
  MaxMsgs = 4
  HookOf <- Mixed
  Failing = TRUE
  EarlyClose = TRUE
  LateArrival = TRUE
  SlowClose = TRUE
SPECIFICATION MCSpec
CHECK_DEADLOCK FALSE
INVARIANTS BackendLossCloses NothingLost ForwardedInOrder LinksLive
PROPERTIES LinkPartingTold
