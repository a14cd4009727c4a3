SPECIFICATION Spec
CONSTANTS
  Conns = {c1}
  CLOSE = CLOSE
  Protocols = {"tcp", "ws", "grpc"}
  EarlyGreeting = FALSE
  ServerSends = 1
  Codecs = {"default", "custom"}
  Messages <- TwoMessages
  Sends <- ClientFirst
  Framings <- LengthOrZero
PROPERTIES Contract Delivered PeerTold StopEnds
CHECK_DEADLOCK FALSE
