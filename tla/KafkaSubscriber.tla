-------------------------- MODULE KafkaSubscriber --------------------------
(***************************************************************************)
(* The Kafka subscriber adapter of one test case.                          *)
(*                                                                         *)
(* Kafka cannot change the topics of a running consumer.  The adapter      *)
(* drops a topic by filtering its messages, and adds one by disconnecting  *)
(* the consumer and replaying the active topics on a new one.  The         *)
(* component awaits each subscribe and unsubscribe call of a test case, so *)
(* these do not overlap; close() and the broker come at any time.          *)
(***************************************************************************)
EXTENDS Naturals, FiniteSets

CONSTANTS
  Topics,
  DefaultOffset,  \* _defaultFromBeginning
  Params,         \* what subscribe calls pass: "auto" (undefined) or an offset
  MaxConsumers,   \* bound on the consumers created, one more than the restarts
  Unsubscribes,   \* TRUE when the test case unsubscribes topics
  Failing         \* TRUE when calls of the Kafka client fail and consumers crash

Offsets == {"begin", "latest"}  \* fromBeginning: true, false

Consumers == 1..MaxConsumers

VARIABLES
  connected,  \* _isConnected
  running,    \* _isRunning
  closed,     \* _closed
  known,      \* kafkaSubscribed
  active,     \* activeTopics
  params,     \* _topicSubscribeParams
  consumer,   \* which of the consumers created is the current one
  call,       \* where subscribe() is
  asked,      \* newToKafka of that call
  offset,     \* fromBeginning of that call
  failed,     \* TRUE once a subscribe call failed: the test case stops there
  closing,    \* close(): "no", "disconnecting", "done"
  conn,       \* connection of each consumer, as the broker sees it
  sub,        \* topics of each consumer, with the offset asked for
  decoding,   \* topics of the messages being decoded
  told,       \* calls of the component's disconnect handler, up to 2
  crashed,    \* consumers that crashed
  surfaced    \* crashes reported to the component's error handler

adapterVars == <<connected, running, closed>>
topicVars   == <<known, active, params>>
callVars    == <<call, asked, offset, failed>>
brokerVars  == <<conn, sub>>
eventVars   == <<told, crashed, surfaced>>
vars == <<adapterVars, topicVars, consumer, callVars, closing, brokerVars, decoding, eventVars>>

TypeOK ==
  /\ {connected, running, closed, failed} \subseteq BOOLEAN
  /\ known \subseteq Topics /\ active \subseteq Topics
  /\ params \in [Topics -> Offsets \cup {"none"}]
  /\ consumer \in Consumers
  /\ call \in {"idle", "disconnect", "connect", "replay", "subscribe", "join"}
  /\ asked \subseteq Topics /\ offset \in Offsets
  /\ closing \in {"no", "disconnecting", "done"}
  /\ conn \in [Consumers -> {"new", "up", "down"}]
  /\ sub \in [Consumers -> [Topics -> Offsets \cup {"none"}]]
  /\ decoding \subseteq Topics /\ told \in 0..2
  /\ crashed \subseteq Consumers /\ surfaced \subseteq crashed

\* createSubscriber returns the adapter connected; the component then
\* registers its handlers, on the consumer there is
Init ==
  /\ connected = TRUE /\ running = FALSE /\ closed = FALSE
  /\ known = {} /\ active = {} /\ params = [t \in Topics |-> "none"]
  /\ consumer = 1
  /\ call = "idle" /\ asked = {} /\ offset = DefaultOffset /\ failed = FALSE
  /\ closing = "no"
  /\ conn = [n \in Consumers |-> IF n = 1 THEN "up" ELSE "new"]
  /\ sub = [n \in Consumers |-> [t \in Topics |-> "none"]]
  /\ decoding = {} /\ told = 0 /\ crashed = {} /\ surfaced = {}

-----------------------------------------------------------------------------
(* subscribe and unsubscribe                                               *)

Idle == call = "idle" /\ ~closed /\ ~failed

OffsetOf(p) == IF p = "auto" THEN DefaultOffset ELSE p

\* fault: the last explicit offset is kept
RecordedLast(T, p) == [t \in Topics |-> IF t \in T /\ p # "auto" THEN p ELSE params[t]]

\* the first explicit offset of a topic is kept, also when the topic was
\* subscribed without one before
Recorded(T, p) == [t \in Topics |->
  IF t \in T /\ p # "auto" /\ (t \notin known \/ params[t] = "none")
  THEN p ELSE params[t]]

\* topics the consumer knows are only activated again; others need the broker
Subscribe(T, p) ==
  /\ Idle
  /\ running /\ ~(T \subseteq known) => consumer < MaxConsumers
  /\ active' = active \cup (T \cap known)
  /\ params' = Recorded(T, p)
  /\ asked' = T \ known /\ offset' = OffsetOf(p)
  /\ call' = IF T \subseteq known THEN "idle"
             ELSE IF running THEN "disconnect" ELSE "subscribe"
  /\ UNCHANGED <<adapterVars, known, consumer, failed, closing, brokerVars, decoding, eventVars>>

\* consumer.disconnect event: listened to on the first consumer only
Heard(n) == IF n = 1 /\ told < 2 THEN told + 1 ELSE told

\* fault: the disconnect of the old consumer is not awaited
ConsumerReplaced ==
  /\ call = "disconnect"
  /\ running' = FALSE
  /\ consumer' = consumer + 1
  /\ call' = "connect"
  /\ UNCHANGED <<connected, closed, topicVars, asked, offset, failed, closing, brokerVars, decoding, eventVars>>

\* restartConsumerWithTopics: the old consumer leaves, a new one is made
ConsumerDisconnected ==
  /\ call = "disconnect"
  /\ conn' = [conn EXCEPT ![consumer] = "down"]
  /\ connected' = (connected /\ consumer # 1) /\ told' = Heard(consumer)
  /\ running' = FALSE
  /\ consumer' = consumer + 1
  /\ call' = "connect"
  /\ UNCHANGED <<closed, topicVars, asked, offset, failed, closing, sub, decoding, crashed, surfaced>>

ConsumerConnected ==
  /\ call = "connect"
  /\ conn' = [conn EXCEPT ![consumer] = "up"]
  /\ call' = "replay"
  /\ UNCHANGED <<adapterVars, topicVars, consumer, asked, offset, failed, closing, sub, decoding, eventVars>>

Subscribed(T, o) == [sub EXCEPT ![consumer] = [t \in Topics |-> IF t \in T THEN o[t] ELSE @[t]]]

\* fault: the new consumer gets the new topics only
NothingReplayed ==
  /\ call = "replay" /\ conn[consumer] = "up"
  /\ call' = "subscribe"
  /\ UNCHANGED <<adapterVars, topicVars, consumer, asked, offset, failed, closing, brokerVars, decoding, eventVars>>

\* the active topics, each with its recorded offset or the default one
ActiveReplayed ==
  /\ call = "replay" /\ conn[consumer] = "up"
  /\ sub' = Subscribed(active, [t \in Topics |->
                IF params[t] = "none" THEN DefaultOffset ELSE params[t]])
  /\ call' = "subscribe"
  /\ UNCHANGED <<adapterVars, topicVars, consumer, asked, offset, failed, closing, conn, decoding, eventVars>>

NewSubscribed ==
  /\ call = "subscribe" /\ conn[consumer] = "up"
  /\ sub' = Subscribed(asked, [t \in Topics |-> offset])
  /\ call' = "join"
  /\ UNCHANGED <<adapterVars, topicVars, consumer, asked, offset, failed, closing, conn, decoding, eventVars>>

\* startInternalRun: GROUP_JOIN and the first FETCH_START (or 2 s) have come
Joined ==
  /\ call = "join" /\ conn[consumer] = "up"
  /\ running' = TRUE
  /\ known' = known \cup asked /\ active' = active \cup asked
  /\ call' = "idle"
  /\ UNCHANGED <<connected, closed, params, consumer, asked, offset, failed, closing, brokerVars, decoding, eventVars>>

\* fault: the join has no timeout
CallFailsEarly ==
  /\ call \in {"disconnect", "connect"} /\ Failing
  /\ call' = "idle" /\ failed' = TRUE
  /\ UNCHANGED <<adapterVars, topicVars, consumer, asked, offset, closing, brokerVars, decoding, eventVars>>

\* a call of the client rejects, or the join times out; on a consumer that is
\* down they all do
CallFails ==
  /\ call # "idle"
  /\ Failing \/ (call \in {"replay", "subscribe", "join"} /\ conn[consumer] # "up")
  /\ call' = "idle" /\ failed' = TRUE
  /\ UNCHANGED <<adapterVars, topicVars, consumer, asked, offset, closing, brokerVars, decoding, eventVars>>

Unsubscribe(T) ==
  /\ Idle /\ Unsubscribes
  /\ active' = active \ T
  /\ UNCHANGED <<adapterVars, known, params, consumer, callVars, closing, brokerVars, decoding, eventVars>>

-----------------------------------------------------------------------------
(* Messages, crashes                                                       *)

Fetches(t) == conn[consumer] = "up" /\ (running \/ call = "join") /\ sub[consumer][t] # "none"

\* handleMessage filters by active topic, then awaits codec.decode
ReceiveMessage(t) ==
  /\ Fetches(t) /\ t \in active /\ t \notin decoding
  /\ decoding' = decoding \cup {t}
  /\ UNCHANGED <<adapterVars, topicVars, consumer, callVars, closing, brokerVars, eventVars>>

\* the handler gets the message, or the error of the codec
HandleMessage(t) ==
  /\ t \in decoding
  /\ decoding' = decoding \ {t}
  /\ UNCHANGED <<adapterVars, topicVars, consumer, callVars, closing, brokerVars, eventVars>>

\* the client gives up: consumer.crash, then consumer.disconnect; the
\* listeners are those onError and onDisconnect put on the first consumer
Crash ==
  /\ Failing /\ conn[consumer] = "up"
  /\ conn' = [conn EXCEPT ![consumer] = "down"]
  /\ crashed' = crashed \cup {consumer}
  /\ surfaced' = surfaced \cup ({consumer} \cap {1})
  /\ connected' = (connected /\ consumer # 1) /\ told' = Heard(consumer)
  /\ UNCHANGED <<running, closed, topicVars, consumer, callVars, closing, sub, decoding>>

-----------------------------------------------------------------------------
(* close                                                                   *)

Forget ==
  /\ known' = {} /\ active' = {} /\ params' = [t \in Topics |-> "none"]
  /\ closing' = "done"

\* without a connection there is nothing to disconnect
Close ==
  /\ ~closed
  /\ closed' = TRUE /\ running' = FALSE
  /\ IF connected THEN closing' = "disconnecting" /\ UNCHANGED topicVars ELSE Forget
  /\ UNCHANGED <<connected, consumer, callVars, brokerVars, decoding, eventVars>>

\* connected holds of the first consumer only, so that is the one close()
\* disconnects; disconnectHandler is called even when disconnect() rejects
Disconnected ==
  /\ closing = "disconnecting"
  /\ conn' = [conn EXCEPT ![1] = "down"]
  /\ connected' = FALSE /\ told' = 2
  /\ Forget
  /\ UNCHANGED <<running, closed, consumer, callVars, sub, decoding, crashed, surfaced>>

-----------------------------------------------------------------------------

SubscribeStep ==
  \/ ConsumerDisconnected \/ ConsumerConnected \/ ActiveReplayed
  \/ NewSubscribed \/ Joined \/ CallFails

Next ==
  \/ \E T \in SUBSET Topics \ {{}} : Unsubscribe(T) \/ \E p \in Params : Subscribe(T, p)
  \/ SubscribeStep
  \/ \E t \in Topics : ReceiveMessage(t) \/ HandleMessage(t)
  \/ Crash \/ Close \/ Disconnected

Spec == Init /\ [][Next]_vars

\* calls of the Kafka client settle: each has a timeout
FairSpec == Spec /\ WF_vars(SubscribeStep) /\ WF_vars(Disconnected)

-----------------------------------------------------------------------------
(* Properties                                                              *)

\* The group of the test case never has two members: a restart connects the
\* new consumer only when the old one has left, whatever close() does.
OneMember == {n \in Consumers : conn[n] = "up"} \subseteq {consumer}

\* When no call is under way, a running adapter's consumer fetches every
\* active topic: "MUST NOT return until newly-published messages on the new
\* topics will be delivered".
ActiveDelivered ==
  running /\ call = "idle" /\ conn[consumer] = "up" =>
    \A t \in active : sub[consumer][t] # "none"

\* A restart "preserves per-topic fromBeginning for already-active topics":
\* every consumer that has a topic has it from the same offset.
OffsetsPreserved ==
  \A m, n \in Consumers, t \in Topics :
    "none" \notin {sub[m][t], sub[n][t]} => sub[m][t] = sub[n][t]

\* close() "releases every resource the adapter owns": once it is over and no
\* call is under way, no consumer is connected.
CloseReleases ==
  closing = "done" /\ call = "idle" => \A n \in Consumers : conn[n] # "up"

\* The restart is "transparent": the component hears of a disconnect only
\* when the consumer crashed or close() was called, since it then rejects the
\* pending waits of the test case.
RestartTransparent == told > 0 => crashed # {} \/ closed

\* A crash of the consumer reaches the error handler.
CrashSurfaced == crashed \subseteq surfaced

\* The handler gets no message of a topic that the test case has unsubscribed.
NothingAfterUnsubscribe ==
  [][\A t \in Topics : t \in decoding /\ t \notin decoding' => t \in active \/ closed]_vars

\* subscribe() and close() end.
CallsEnd == call # "idle" ~> call = "idle"
CloseEnds == closed ~> closing = "done"
=============================================================================
