------------------------------ MODULE MQAdapters ------------------------------
(***************************************************************************)
(* The adapter factories KafkaAdapter, RabbitMQAdapter and                 *)
(* RedisPubSubAdapter: what they create, share and dispose of.  A creator  *)
(* is one call of createPublisher or createSubscriber, and the adapter     *)
(* that it makes.  What is open is a connection of RabbitMQ, <<"conn", c>>,*)
(* the client or channel of an adapter, <<"own", c>>, or the client that   *)
(* the publishers of Redis share.                                          *)
(***************************************************************************)
EXTENDS Integers, SequencesExt

CONSTANTS
  Kinds,
  Creators,
  NoCreator,
  Overlapping, \* the kinds whose creates may be under way at the same time
  Failing      \* whether connecting and closing may fail, and connections end

VARIABLES
  kind,        \* "kafka", "rabbitmq", "redis"
  role,        \* what a creator makes: "publisher", "subscriber"
  stage,       \* of a creator: "none", "dialing", "connecting", "made", "closed", "failed"
  via,         \* rabbitmq: whose connection the adapter uses
  current,     \* rabbitmq: whose connection this.connection is
  publishers, subscribers,   \* the lists of the factory
  clients,     \* redis: subscriberRedisInstances, as creators
  open,
  restarted,   \* kafka: subscribers whose consumer was replaced
  refused,     \* kafka: subscribers whose consumer did not disconnect
  disposing,   \* "no", "publishers", "subscribers", "sweep", "shared", "clients", "done", "rejected"
  next         \* how many of the list being closed are closed

creatorVars == <<stage, via, current>>
listVars    == <<publishers, subscribers, clients>>
leftVars    == <<restarted, refused>>
vars        == <<kind, role, creatorVars, listVars, open, leftVars, disposing, next>>

Init ==
  /\ kind \in Kinds
  /\ role \in [Creators -> {"publisher", "subscriber"}]
  /\ stage = [c \in Creators |-> "none"]
  /\ via = [c \in Creators |-> NoCreator] /\ current = NoCreator
  /\ publishers = <<>> /\ subscribers = <<>> /\ clients = <<>>
  /\ open = {} /\ restarted = {} /\ refused = {} /\ disposing = "no" /\ next = 0

own(c)    == <<"own", c>>
conn(c)   == <<"conn", c>>
shared    == <<"shared", NoCreator>>
Ready(c)  == stage[c] \in {"dialing", "connecting"}

-----------------------------------------------------------------------------
(* createPublisher, createSubscriber                                       *)

Goes(c, to) == stage' = [stage EXCEPT ![c] = to]

Begins(c) ==
  /\ stage[c] = "none" /\ disposing = "no"
  /\ kind \in Overlapping \/ \A d \in Creators : ~Ready(d)
  /\ UNCHANGED <<kind, role, publishers, subscribers, leftVars, disposing, next>>

createKafka(c) ==
  /\ kind = "kafka" /\ Begins(c)
  /\ Goes(c, "connecting")
  /\ UNCHANGED <<via, current, clients, open>>

\* getPublisherRedis shares one client, createSubscriberRedis makes one
createRedis(c) ==
  /\ kind = "redis" /\ Begins(c)
  /\ Goes(c, "connecting")
  /\ IF role[c] = "publisher" THEN open' = open \cup {shared} /\ UNCHANGED clients
     ELSE open' = open \cup {own(c)} /\ clients' = Append(clients, c)
  /\ UNCHANGED <<via, current>>

\* ensureConnection: whoever finds no connection makes one
createRabbit(c) ==
  /\ kind = "rabbitmq" /\ Begins(c)
  /\ IF current = NoCreator THEN Goes(c, "dialing") /\ UNCHANGED via
     ELSE Goes(c, "connecting") /\ via' = [via EXCEPT ![c] = current]
  /\ UNCHANGED <<current, clients, open>>

Dialed(c) ==
  /\ stage[c] = "dialing"
  /\ Goes(c, "connecting")
  /\ via' = [via EXCEPT ![c] = c] /\ current' = c
  /\ open' = open \cup {conn(c)}
  /\ UNCHANGED <<kind, role, listVars, leftVars, disposing, next>>

\* fault: the adapter is not put in its list
ConnectedUnlisted(c) ==
  /\ stage[c] = "connecting" /\ (kind = "rabbitmq" => conn(via[c]) \in open)
  /\ Goes(c, "made")
  /\ open' = IF kind = "redis" THEN open ELSE open \cup {own(c)}
  /\ UNCHANGED <<kind, role, via, current, listVars, leftVars, disposing, next>>

\* adapter.connect() has ended
Connected(c) ==
  /\ stage[c] = "connecting" /\ (kind = "rabbitmq" => conn(via[c]) \in open)
  /\ Goes(c, "made")
  /\ open' = IF kind = "redis" THEN open ELSE open \cup {own(c)}
  /\ IF role[c] = "publisher" THEN publishers' = Append(publishers, c) /\ UNCHANGED subscribers
     ELSE subscribers' = Append(subscribers, c) /\ UNCHANGED publishers
  /\ UNCHANGED <<kind, role, via, current, clients, leftVars, disposing, next>>

\* a Redis client goes on connecting, in the list
CreateFails(c) ==
  /\ Ready(c)
  /\ Failing \/ (kind = "rabbitmq" /\ stage[c] = "connecting" /\ conn(via[c]) \notin open)
  /\ Goes(c, "failed")
  /\ UNCHANGED <<kind, role, via, current, listVars, open, leftVars, disposing, next>>

-----------------------------------------------------------------------------
(* The adapters are closed with their test case or component               *)

Listed(list, c) == \E i \in DOMAIN list : list[i] = c

\* what closing a made adapter leaves open: publishers of Redis own nothing
WithoutOwn(c) == IF kind = "redis" /\ role[c] = "publisher" THEN open ELSE open \ {own(c)}

\* RabbitMQ: the channel of an adapter that was not closed, and has ended
Broken(c) == kind = "rabbitmq" /\ stage[c] = "made" /\ own(c) \notin open

KafkaSubscriber(c) == kind = "kafka" /\ role[c] = "subscriber"

\* restartConsumerWithTopics: another consumer takes the place of the first
\* one, whose end is all that the adapter was told; it may fail to connect
Restarted(c) ==
  /\ KafkaSubscriber(c) /\ stage[c] = "made" /\ disposing = "no"
  /\ restarted' = restarted \cup {c}
  /\ UNCHANGED open \/ (Failing /\ open' = open \ {own(c)})
  /\ UNCHANGED <<kind, role, creatorVars, listVars, refused, disposing, next>>

\* close() disconnects the consumer that it knows to be connected, then tells
\* the KafkaAdapter (onClose); when disconnect() rejects it does not, and
\* another close() returns at once
KafkaClose(c) ==
  \/ /\ open' = IF c \in restarted THEN open ELSE open \ {own(c)}
     /\ \E i \in DOMAIN subscribers : subscribers[i] = c /\ subscribers' = RemoveAt(subscribers, i)
     /\ UNCHANGED refused
  \/ /\ Failing /\ c \notin restarted
     /\ refused' = refused \cup {c}
     /\ UNCHANGED <<open, subscribers>>

\* a close that rejects leaves every other adapter as it was
Closed(c) ==
  /\ stage[c] = "made" /\ disposing = "no" /\ ~Broken(c)
  /\ Goes(c, "closed")
  /\ IF KafkaSubscriber(c) THEN KafkaClose(c) ELSE open' = WithoutOwn(c) /\ UNCHANGED <<subscribers, refused>>
  /\ UNCHANGED <<kind, role, via, current, publishers, clients, restarted, disposing, next>>

\* the channels end with their connection; the "close" event of any
\* connection clears this.connection
ConnectionLost(c) ==
  /\ Failing /\ conn(c) \in open
  /\ open' = open \ ({conn(c)} \cup {own(d) : d \in {e \in Creators : via[e] = c}})
  /\ current' = NoCreator
  /\ UNCHANGED <<kind, role, stage, via, listVars, leftVars, disposing, next>>

-----------------------------------------------------------------------------
(* dispose                                                                 *)

To(step) == disposing' = step /\ next' = 0

dispose ==
  /\ disposing = "no" /\ \A c \in Creators : ~Ready(c)
  /\ To(IF kind = "kafka" THEN "subscribers" ELSE "publishers")
  /\ UNCHANGED <<kind, role, creatorVars, listVars, open, leftVars>>

\* one after the other; the first that cannot be closed ends dispose()
CloseNext(list) ==
  /\ next < Len(list)
  /\ LET c == list[next + 1]
     IN  IF Broken(c) THEN disposing' = "rejected" /\ UNCHANGED <<next, stage, open>>
         ELSE \/ /\ next' = next + 1 /\ Goes(c, "closed") /\ open' = WithoutOwn(c)
                 /\ UNCHANGED disposing
              \/ /\ Failing /\ stage[c] = "made"
                 /\ disposing' = "rejected" /\ UNCHANGED <<next, stage, open>>
  /\ UNCHANGED <<kind, role, via, current, listVars, leftVars>>

PublishersClosed ==
  /\ disposing = "publishers" /\ next = Len(publishers)
  /\ To(IF kind = "kafka" THEN "done" ELSE "subscribers")
  /\ publishers' = <<>>
  /\ UNCHANGED <<kind, role, creatorVars, subscribers, clients, open, leftVars>>

SubscribersClosed ==
  /\ disposing = "subscribers" /\ kind # "kafka" /\ next = Len(subscribers)
  /\ To("shared")
  /\ subscribers' = <<>>
  /\ UNCHANGED <<kind, role, creatorVars, publishers, clients, open, leftVars>>

\* KafkaAdapter closes its subscribers at once, and goes on whatever comes of
\* it (Promise.allSettled)
KafkaSubscriberClosed(c) ==
  /\ disposing = "subscribers" /\ KafkaSubscriber(c)
  /\ Listed(subscribers, c) /\ stage[c] = "made"
  /\ Goes(c, "closed") /\ KafkaClose(c)
  /\ UNCHANGED <<kind, role, via, current, publishers, clients, restarted, disposing, next>>

KafkaSubscribersSettled ==
  /\ disposing = "subscribers" /\ kind = "kafka"
  /\ \A c \in Creators : Listed(subscribers, c) => stage[c] = "closed"
  /\ To("sweep")
  /\ UNCHANGED <<kind, role, creatorVars, listVars, open, leftVars>>

\* deleteGroups may fail; the admin client has to connect
Swept ==
  /\ disposing = "sweep"
  /\ To("publishers") \/ (Failing /\ To("rejected"))
  /\ UNCHANGED <<kind, role, creatorVars, listVars, open, leftVars>>

\* the connection of RabbitMQ, the publishers' client of Redis
SharedClosed ==
  /\ disposing = "shared"
  /\ \/ /\ To(IF kind = "redis" THEN "clients" ELSE "done")
        /\ open' = open \ IF kind = "redis" THEN {shared} ELSE
                     {conn(current)} \cup {own(d) : d \in {e \in Creators : via[e] = current}}
        /\ current' = NoCreator
     \/ /\ Failing /\ (shared \in open \/ current # NoCreator)
        /\ To("rejected") /\ UNCHANGED <<open, current>>
  /\ UNCHANGED <<kind, role, stage, via, listVars, leftVars>>

\* a client that has quit already rejects another quit, if its end is known
ClientQuits ==
  /\ disposing = "clients"
  /\ IF next = Len(clients) THEN To("done") /\ clients' = <<>> /\ UNCHANGED open
     ELSE /\ open' = open \ {own(clients[next + 1])}
          /\ UNCHANGED clients
          /\ \/ next' = next + 1 /\ UNCHANGED disposing
             \/ own(clients[next + 1]) \notin open /\ To("rejected")
  /\ UNCHANGED <<kind, role, creatorVars, publishers, subscribers, leftVars>>

DisposeStep ==
  \/ disposing = "publishers" /\ CloseNext(publishers)
  \/ disposing = "subscribers" /\ kind # "kafka" /\ CloseNext(subscribers)
  \/ PublishersClosed \/ SubscribersClosed
  \/ (\E c \in Creators : KafkaSubscriberClosed(c)) \/ KafkaSubscribersSettled
  \/ Swept \/ SharedClosed \/ ClientQuits

Next ==
  \/ \E c \in Creators :
       \/ createKafka(c) \/ createRedis(c) \/ createRabbit(c)
       \/ Dialed(c) \/ Connected(c) \/ CreateFails(c)
       \/ Restarted(c) \/ Closed(c) \/ ConnectionLost(c)
  \/ dispose \/ DisposeStep

-----------------------------------------------------------------------------
(* Properties                                                              *)

\* A dispose() that resolves has closed all that the factory opened, but for
\* the consumers that Kafka's close() does not disconnect: after a restart it
\* takes the adapter for disconnected, and a disconnect() that rejects is
\* neither tried again nor told.
DisposeReleases == disposing = "done" => open \subseteq {own(c) : c \in restarted \cup refused}

\* An adapter is made on a connection that is there.
CurrentIsOpen == current # NoCreator => conn(current) \in open

\* dispose() settles.
DisposeEnds == disposing # "no" ~> disposing \in {"done", "rejected"}
=============================================================================
