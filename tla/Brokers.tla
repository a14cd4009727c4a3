------------------------------ MODULE Brokers ------------------------------
(***************************************************************************)
(* The subscriber adapters of Kafka, RabbitMQ and Redis, the Publisher     *)
(* component with the publisher adapters, the adapter factories and the    *)
(* codecs, one per behaviour.  Variables of one name play the same part.   *)
(***************************************************************************)
EXTENDS Integers, Sequences

CONSTANTS
  Components,                              \* those to be looked at
  Kinds,                                   \* the brokers of publishers and factories
  Tests, PublisherPrograms, Parallel,
  Creators, NoCreator, Overlapping,
  Topics,                                  \* of Kafka
  Words, Patterns, RoutingKeys, RabbitCalls,
  Channels, RedisTopics, covers, RedisCalls,
  CodecKeys, Types, Matchers, MaxBindings, MaxCalls,
  MaxConsumers, MaxMessages, prefetch, autoAck, AsyncCodec, Failing

\* A step of a publisher is a batch of messages that validate or do not.
PublishSteps == [type : {"publish", "publishBatch"}, mode : {"action"}, pending : {FALSE}, strict : {FALSE},
                 messages : Seq([valid : BOOLEAN])]

ASSUME BrokersAssumption ==
  /\ Kinds \subseteq {"kafka", "rabbitmq", "redis"}
  /\ PublisherPrograms \subseteq [Tests -> Seq(PublishSteps)]
  /\ RabbitCalls \subseteq Seq(Patterns) /\ RedisCalls \subseteq Seq(RedisTopics)
  /\ NoCreator \notin Creators
  /\ MaxConsumers \in Nat \ {0} /\ MaxMessages \in Nat

VARIABLES
  component,
  connected, call, failed, decoding, surfaced, closing, told,
  running, closed, known, active, params, consumer, asked, offset, conn, sub, crashed,
  channel, topics, broker, wire, unacked, sent, handed,
  cst, program, hooks, resolved, rejected, pc, at, verdict, adapter, encoding, confirming, log,
  kind,
  role, stage, via, current, publishers, subscribers, clients, open, restarted, refused, disposing, next,
  bindings, built, lastIndex, got, calls

subscriberVars == <<connected, call, failed, decoding, surfaced, closing, told>>
kafkaVars      == <<running, closed, known, active, params, consumer, asked, offset, conn, sub, crashed>>
queueVars      == <<channel, topics, broker, wire, sent, handed>>
publisherVars  == <<cst, program, hooks, resolved, rejected, pc, at, verdict, adapter, encoding, confirming, log>>
factoryVars    == <<role, stage, via, current, publishers, subscribers, clients, open, restarted, refused, disposing, next>>
codecVars      == <<bindings, built, lastIndex, got, calls>>
vars == <<component, subscriberVars, kafkaVars, queueVars, unacked, publisherVars, kind, factoryVars, codecVars>>

\* Kafka topics come and go in one instance; in the other they are explicit and stay
K == INSTANCE KafkaSubscriber WITH
       Params <- {"auto", "begin", "latest"}, DefaultOffset <- "latest", Unsubscribes <- TRUE
E == INSTANCE KafkaSubscriber WITH
       Params <- {"begin", "latest"}, DefaultOffset <- "latest", Unsubscribes <- FALSE
R == INSTANCE RabbitSubscriber WITH Calls <- RabbitCalls, Keys <- RoutingKeys
D == INSTANCE RedisSubscriber WITH Calls <- RedisCalls
P == INSTANCE Publisher WITH Programs <- PublisherPrograms
M == INSTANCE MQAdapters
C == INSTANCE Codecs WITH Keys <- CodecKeys

-----------------------------------------------------------------------------

Absent(v) == v = "absent"
NoSubscriber == /\ Absent(connected) /\ Absent(call) /\ Absent(failed) /\ Absent(decoding)
                /\ Absent(surfaced) /\ Absent(closing) /\ Absent(told)
NoKafka      == /\ Absent(running) /\ Absent(closed) /\ Absent(known) /\ Absent(active) /\ Absent(params)
                /\ Absent(consumer) /\ Absent(asked) /\ Absent(offset) /\ Absent(conn) /\ Absent(sub) /\ Absent(crashed)
NoQueue      == /\ Absent(channel) /\ Absent(topics) /\ Absent(broker) /\ Absent(wire) /\ Absent(sent) /\ Absent(handed)
NoPublisher  == /\ Absent(cst) /\ Absent(program) /\ Absent(hooks) /\ Absent(resolved) /\ Absent(rejected)
                /\ Absent(pc) /\ Absent(at) /\ Absent(verdict) /\ Absent(adapter)
                /\ Absent(encoding) /\ Absent(confirming) /\ Absent(log)
NoFactory    == /\ Absent(role) /\ Absent(stage) /\ Absent(via) /\ Absent(current) /\ Absent(publishers)
                /\ Absent(subscribers) /\ Absent(clients) /\ Absent(open) /\ Absent(restarted) /\ Absent(refused)
                /\ Absent(disposing) /\ Absent(next)
NoKind       == Absent(kind)
NoCodec      == Absent(bindings) /\ Absent(built) /\ Absent(lastIndex) /\ Absent(got) /\ Absent(calls)

Init ==
  /\ component \in Components
  /\ component # "codec" => NoCodec
  /\ \/ /\ component \in {"kafka", "explicit"} /\ K!Init
        /\ NoQueue /\ Absent(unacked) /\ NoPublisher /\ NoKind /\ NoFactory
     \/ component = "rabbitmq" /\ R!Init /\ NoKafka /\ NoPublisher /\ NoKind /\ NoFactory
     \/ component = "redis" /\ D!Init /\ NoKafka /\ Absent(unacked) /\ NoPublisher /\ NoKind /\ NoFactory
     \/ component = "publisher" /\ P!Init /\ NoSubscriber /\ NoKafka /\ NoQueue /\ Absent(unacked) /\ NoFactory
     \/ component = "factory" /\ M!Init /\ NoSubscriber /\ NoKafka /\ NoQueue /\ Absent(unacked) /\ NoPublisher
     \/ /\ component = "codec" /\ C!Init /\ NoSubscriber /\ NoKafka /\ NoPublisher /\ NoKind /\ NoFactory
        /\ Absent(channel) /\ Absent(topics) /\ Absent(broker) /\ Absent(sent) /\ Absent(handed) /\ Absent(unacked)

NotSubscribing == UNCHANGED <<component, publisherVars, kind, factoryVars, codecVars>>
KStep(A) == component = "kafka" /\ A /\ UNCHANGED <<queueVars, unacked>> /\ NotSubscribing
EStep(A) == component = "explicit" /\ A /\ UNCHANGED <<queueVars, unacked>> /\ NotSubscribing
RStep(A) == component = "rabbitmq" /\ A /\ UNCHANGED kafkaVars /\ NotSubscribing
DStep(A) == component = "redis" /\ A /\ UNCHANGED <<kafkaVars, unacked>> /\ NotSubscribing
Others   == UNCHANGED <<component, subscriberVars, kafkaVars, queueVars, unacked>>
PStep(A) == component = "publisher" /\ A /\ UNCHANGED <<factoryVars, codecVars>> /\ Others
MStep(A) == component = "factory" /\ A /\ UNCHANGED <<publisherVars, codecVars>> /\ Others
CStep(A) == component = "codec" /\ A
              /\ UNCHANGED <<component, subscriberVars, kafkaVars, channel, topics, broker, sent, handed, unacked,
                             publisherVars, kind, factoryVars>>

Next == KStep(K!Next) \/ EStep(E!Next) \/ RStep(R!Next) \/ DStep(D!Next) \/ PStep(P!Next) \/ MStep(M!Next)
        \/ CStep(C!Next)

\* calls of the clients settle: they have timeouts or the connection ends
Fairness ==
  /\ WF_vars(KStep(K!SubscribeStep)) /\ WF_vars(KStep(K!Disconnected))
  /\ WF_vars(EStep(E!SubscribeStep)) /\ WF_vars(EStep(E!Disconnected))
  /\ WF_vars(RStep(R!CallStep)) /\ WF_vars(RStep(R!CloseStep)) /\ WF_vars(RStep(R!Message))
  /\ WF_vars(DStep(D!CallStep)) /\ WF_vars(DStep(D!CloseStep)) /\ WF_vars(DStep(D!Reconnected))
  /\ WF_vars(MStep(M!DisposeStep))

Spec == Init /\ [][Next]_vars /\ Fairness

-----------------------------------------------------------------------------

\* subscribe() "MUST NOT return until newly-published messages on the subscribed
\* topics will be delivered": between calls the broker delivers what is held.
HeldIsDelivered ==
  /\ component = "explicit" => E!ActiveDelivered
  /\ component = "rabbitmq" => R!HeldIsBound
  /\ component = "redis" => D!HeldIsSubscribed

\* A topic keeps its offset over the restarts of a consumer, which never leave
\* two members in the group of a test case; a queue's message is handed once,
\* under a pattern that it matches; and a message is decoded as the type it was
\* encoded with, but for a topic that a global RegExp is asked for.
RightMessages ==
  /\ component = "explicit" => E!OffsetsPreserved
  /\ component \in {"kafka", "explicit"} => K!OneMember
  /\ component = "rabbitmq" => R!HandedRight
  /\ component = "codec" => C!DecodedAsEncoded

\* A publish step that passed was accepted by the broker whole, and in order.
PublishedWhole ==
  component = "publisher" => P!BatchInOrder /\ (kind # "redis" => P!PassedIsAccepted)

\* dispose() of a factory closes all it opened, but for the consumers of Kafka
\* that were replaced or did not disconnect, and close() of a Redis adapter
\* its client.
Releases ==
  /\ component = "factory" => M!DisposeReleases
  /\ component = "redis" => D!CloseReleases
  /\ component = "rabbitmq" => R!CloseReleases

\* subscribe(), unsubscribe(), close() and dispose() settle.
Calling ==
  \/ component \in {"kafka", "explicit"} /\ call # "idle"
  \/ component = "rabbitmq" /\ call # R!idle
  \/ component = "redis" /\ call # D!idle
Closing ==
  \/ component \in {"kafka", "explicit"} /\ closed /\ closing # "done"
  \/ component \in {"rabbitmq", "redis"} /\ closing \notin {"no", "done", "rejected"}
  \/ component = "factory" /\ disposing \notin {"no", "done", "rejected"}
CallsSettle == (Calling ~> ~Calling) /\ (Closing ~> ~Closing)

-----------------------------------------------------------------------------
(* What the code does not promise; no passing run checks it.               *)

\* Not so: publishBatch of Redis does not look at the results of its commands.
RedisAccepted == component = "publisher" /\ kind = "redis" => P!PassedIsAccepted

\* Not so: a global RegExp says no after each yes.
DecodedAlways == component = "codec" => C!DecodedAlways
=============================================================================
