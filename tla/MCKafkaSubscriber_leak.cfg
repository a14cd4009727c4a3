CONSTANTS
  a = a b = b c = c
  DefaultOffset = "latest"
  Topics = {a, b, c}
  Params = {"auto", "begin", "latest"}
  MaxConsumers = 3
  Unsubscribes = TRUE
  Failing = FALSE
SPECIFICATION Spec
CHECK_DEADLOCK FALSE
INVARIANTS CloseReleases
