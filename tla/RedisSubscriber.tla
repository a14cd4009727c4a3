--------------------------- MODULE RedisSubscriber ---------------------------
(***************************************************************************)
(* The Redis pub/sub subscriber adapter of one test case, on a Redis       *)
(* client of its own.  Topics are channels or, with usePatterns, patterns; *)
(* the server says which subscription a message is for.  The client        *)
(* reconnects by itself and subscribes again.                              *)
(***************************************************************************)
EXTENDS Integers, SequencesExt

CONSTANTS
  Calls,        \* what subscribe and unsubscribe are called with: sequences of topics
  Channels,     \* channels that messages are published on
  covers,       \* the channels a topic stands for: a function of the topics
  MaxMessages,  \* bound on the messages published
  AsyncCodec,   \* whether codec.decode may end in another order than it began
  Failing       \* whether the server refuses calls and connections are lost

VARIABLES
  connected,  \* _isConnected
  channel,    \* the client: "open", "closed" and reconnecting, "null" after quit
  topics,     \* subscribedTopics
  broker,     \* what the server has subscribed for the client
  call,       \* the call under way, with the topics it still has to do
  failed,     \* whether a call was refused: the test case stops there
  wire,       \* the messages on the way to the client
  sent,       \* how many messages were published
  decoding,   \* the messages that codec.decode works on
  handed,     \* what messageHandler was called with: number, channel and topic
  surfaced,   \* whether errorHandler was called
  closing,    \* close(): "no", "unsubscribe", "quit", "done", "rejected"
  told        \* calls of disconnectHandler

holdVars == <<topics, broker, call, failed>>
flowVars == <<wire, sent, decoding, handed>>
endVars  == <<connected, channel, closing, told>>
vars     == <<holdVars, flowVars, endVars, surfaced>>

idle == [op |-> "idle", todo |-> <<>>, applied |-> FALSE]

Init ==
  /\ connected = TRUE /\ channel = "open" /\ closing = "no" /\ told = 0
  /\ topics = {} /\ broker = {} /\ call = idle /\ failed = FALSE
  /\ wire = <<>> /\ sent = 0 /\ decoding = <<>> /\ handed = {}
  /\ surfaced = FALSE

-----------------------------------------------------------------------------
(* subscribe and unsubscribe: one topic after the other                    *)

\* the loop goes on with the first topic that is not as the call wants it
GoesOn(op, todo, held) ==
  LET busy == {i \in DOMAIN todo : (op = "subscribe") # (todo[i] \in held)}
  IN  call' = IF busy = {} THEN idle
              ELSE [op |-> op, todo |-> SubSeq(todo, Min(busy), Len(todo)), applied |-> FALSE]

Starts(op, batch) ==
  /\ call = idle /\ ~failed /\ closing = "no"
  /\ GoesOn(op, batch, topics)
  /\ UNCHANGED <<topics, broker, failed, flowVars, endVars, surfaced>>

subscribe(batch)   == Starts("subscribe", batch)
unsubscribe(batch) == Starts("unsubscribe", batch)

\* commands wait in the client until it is connected
Applied ==
  /\ call # idle /\ ~call.applied /\ channel = "open"
  /\ broker' = IF call.op = "subscribe" THEN broker \cup {Head(call.todo)}
               ELSE broker \ {Head(call.todo)}
  /\ call' = [call EXCEPT !.applied = TRUE]
  /\ UNCHANGED <<topics, failed, flowVars, endVars, surfaced>>

Answered ==
  /\ call.applied /\ channel # "closed"
  /\ topics' = IF call.op = "subscribe" THEN topics \cup {Head(call.todo)}
               ELSE topics \ {Head(call.todo)}
  /\ GoesOn(call.op, Tail(call.todo), topics')
  /\ UNCHANGED <<broker, failed, flowVars, endVars, surfaced>>

\* the server refuses, the client gives up, or it has quit
CallRejects ==
  /\ call # idle /\ ~call.applied
  /\ Failing \/ channel = "null"
  /\ call' = idle /\ failed' = TRUE
  /\ UNCHANGED <<topics, broker, flowVars, endVars, surfaced>>

-----------------------------------------------------------------------------
(* The connection                                                          *)

MaxLosses == 1   \* bound; a client gives a command up after some losses

\* what was on the way is lost, commands are sent again later; an "error" event
\* may come before "close"
Lost ==
  /\ Failing /\ channel = "open" /\ told < MaxLosses
  /\ channel' = "closed" /\ connected' = FALSE
  /\ told' = told + 1
  /\ wire' = <<>> /\ broker' = {}
  /\ surfaced' \in {TRUE, surfaced}
  /\ call' = [call EXCEPT !.applied = FALSE]
  /\ UNCHANGED <<topics, failed, sent, decoding, handed, closing>>

\* the client subscribes again what it had been answered; _isConnected stays false
Reconnected ==
  /\ channel = "closed"
  /\ channel' = "open"
  /\ broker' = topics
  /\ UNCHANGED <<topics, call, failed, flowVars, connected, closing, told, surfaced>>

-----------------------------------------------------------------------------
(* Messages                                                                *)

\* a message comes once for every subscription that covers its channel
Publish(c) ==
  /\ sent < MaxMessages
  /\ sent' = sent + 1
  /\ \E copies \in SetToSeqs({[n |-> sent + 1, key |-> c, topic |-> p] : p \in {q \in broker : c \in covers[q]}}) :
       wire' = wire \o copies
  /\ UNCHANGED <<holdVars, decoding, handed, endVars, surfaced>>

Receive ==
  /\ channel = "open" /\ wire # <<>>
  /\ wire' = Tail(wire)
  /\ decoding' = Append(decoding, Head(wire))
  /\ UNCHANGED <<holdVars, sent, handed, endVars, surfaced>>

Ends(i) ==
  /\ i \in DOMAIN decoding /\ (AsyncCodec \/ i = 1)
  /\ decoding' = RemoveAt(decoding, i)

handleMessage(i) ==
  /\ Ends(i)
  /\ handed' = handed \cup {decoding[i]}
  /\ UNCHANGED <<holdVars, wire, sent, endVars, surfaced>>

DecodeFails(i) ==
  /\ Failing /\ Ends(i)
  /\ surfaced' = TRUE
  /\ UNCHANGED <<holdVars, wire, sent, handed, endVars>>

-----------------------------------------------------------------------------
(* close                                                                   *)

\* a connection that was lost once counts as lost for good
close ==
  /\ closing = "no"
  /\ IF connected /\ topics # {}
       THEN closing' = "unsubscribe" /\ UNCHANGED <<connected, topics>>
       ELSE closing' = "quit" /\ connected' = FALSE /\ topics' = {}
  /\ UNCHANGED <<broker, call, failed, flowVars, channel, told, surfaced>>

Unsubscribed ==
  /\ closing = "unsubscribe" /\ channel = "open"
  /\ broker' = broker \ topics
  /\ closing' = "quit" /\ connected' = FALSE /\ topics' = {}
  /\ UNCHANGED <<call, failed, flowVars, channel, told, surfaced>>

\* a refused unsubscribe ends close(): the client is not told to quit
UnsubscribeRejects ==
  /\ closing = "unsubscribe" /\ Failing
  /\ closing' = "rejected"
  /\ UNCHANGED <<holdVars, flowVars, connected, channel, told, surfaced>>

\* whatever comes of it is ignored; the "close" event follows
quit ==
  /\ closing = "quit"
  /\ channel' = "null" /\ broker' = {} /\ wire' = <<>> /\ closing' = "done"
  /\ connected' = FALSE
  /\ told' = told + 1
  /\ UNCHANGED <<topics, call, failed, sent, decoding, handed, surfaced>>

-----------------------------------------------------------------------------

CallStep  == Applied \/ Answered \/ CallRejects
Message   == Receive \/ \E i \in 1..(MaxMessages * Cardinality(DOMAIN covers)) : handleMessage(i) \/ DecodeFails(i)
CloseStep == Unsubscribed \/ UnsubscribeRejects \/ quit

Next ==
  \/ \E batch \in Calls : subscribe(batch) \/ unsubscribe(batch)
  \/ CallStep \/ Lost \/ Reconnected
  \/ \E c \in Channels : Publish(c)
  \/ Message
  \/ close \/ CloseStep

-----------------------------------------------------------------------------
(* Properties                                                              *)

\* "MUST NOT return until newly-published messages on the subscribed topics
\* will be delivered": between calls the server has subscribed what is held.
HeldIsSubscribed == call = idle /\ ~failed /\ channel = "open" /\ closing = "no" => broker = topics

\* A close() that did not fail has quit the client.
CloseReleases == closing = "done" => channel = "null"
=============================================================================
