SPECIFICATION Spec
CONSTANTS
  Components = {"kafka", "explicit", "rabbitmq", "redis", "publisher", "factory", "codec"}
  Kinds = {"kafka", "rabbitmq", "redis"}
  t1 = t1
  t2 = t2
  k1 = k1
  k2 = k2
  Tests = {t1, t2}
  PublisherPrograms <- TestPrograms
  Parallel = TRUE
  Creators = {t1, t2}
  NoCreator = NoCreator
  Overlapping = {"kafka", "redis"}
  Topics = {k1, k2}
  Words = {"a", "b"}
  Patterns <- RabbitPatterns
  RoutingKeys <- KeysOfWords
  RabbitCalls <- RabbitBatches
  Channels = {k1}
  RedisTopics = {k1, k2}
  covers <- CoversFirst
  RedisCalls <- RedisBatches
  CodecKeys = {k1, k2}
  Types = {"T", "U"}
  Matchers <- RegExps
  MaxBindings = 2
  MaxCalls = 3
  MaxConsumers = 3
  MaxMessages = 2
  prefetch = 1
  autoAck = TRUE
  AsyncCodec = FALSE
  Failing = TRUE
INVARIANTS HeldIsDelivered RightMessages PublishedWhole Releases
PROPERTIES CallsSettle
CHECK_DEADLOCK FALSE
