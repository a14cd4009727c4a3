-------------------------- MODULE RabbitSubscriber --------------------------
(***************************************************************************)
(* The RabbitMQ subscriber adapter of one test case: a channel, a queue of *)
(* its own, and the patterns bound to it.  Topics are patterns of words;   *)
(* the adapter finds out itself which of them a message matched.           *)
(***************************************************************************)
EXTENDS Integers, SequencesExt

CONSTANTS
  Calls,        \* what subscribe and unsubscribe are called with: sequences of patterns
  Words,        \* the words that routing keys consist of
  Keys,         \* routing keys: sequences of words
  MaxMessages,  \* bound on the messages published
  prefetch,
  autoAck,
  AsyncCodec,   \* whether codec.decode may end in another order than it began
  Failing       \* whether the broker refuses calls and closes the channel

VARIABLES
  connected,  \* _isConnected
  channel,    \* "open"; "closed" by the broker, "null" after close()
  topics,     \* subscribedTopics, in the order of insertion
  broker,     \* the patterns bound to the queue
  call,       \* the call under way, with the patterns it still has to do
  failed,     \* whether a call was refused: the test case stops there
  wire,       \* the messages in the queue
  unacked,    \* the messages delivered and not acknowledged
  sent,       \* how many messages were published
  decoding,   \* the messages that codec.decode works on
  handed,     \* what messageHandler was called with: number, key and topic
  surfaced,   \* whether errorHandler was called
  closing,    \* close(): "no", "cancel", "channel", "done", "rejected"
  told        \* calls of disconnectHandler

holdVars == <<topics, broker, call, failed>>
flowVars == <<wire, unacked, sent, decoding, handed>>
endVars  == <<connected, channel, closing, told>>
vars     == <<holdVars, flowVars, endVars, surfaced>>

idle == [op |-> "idle", todo |-> <<>>, applied |-> FALSE]

\* connect() has opened the channel and consumes a queue that nothing is bound to
Init ==
  /\ connected = TRUE /\ channel = "open" /\ closing = "no" /\ told = 0
  /\ topics = <<>> /\ broker = {} /\ call = idle /\ failed = FALSE
  /\ wire = <<>> /\ unacked = 0 /\ sent = 0 /\ decoding = <<>> /\ handed = {}
  /\ surfaced = FALSE

Held == {topics[i] : i \in DOMAIN topics}

-----------------------------------------------------------------------------
(* Patterns: * stands for one word, # for any number of words              *)

matchParts[p \in Seq({"*", "#"} \cup Words), k \in Seq(Words)] ==
  \/ p = <<>> /\ k = <<>>
  \/ p # <<>> /\ Head(p) = "#" /\ matchParts[Tail(p), k]
  \/ /\ p # <<>> /\ k # <<>>
     /\ \/ Head(p) = "#" /\ matchParts[p, Tail(k)]
        \/ Head(p) \in {"*", Head(k)} /\ matchParts[Tail(p), Tail(k)]

\* a pattern that is the key itself is not taken apart
matchesPattern(p, k) == p = k \/ matchParts[p, k]

\* the pattern that was subscribed first; without one, the key is the topic
findMatchingPattern(k) ==
  LET matching == {i \in DOMAIN topics : matchesPattern(topics[i], k)}
  IN  IF matching = {} THEN k ELSE topics[Min(matching)]

-----------------------------------------------------------------------------
(* subscribe and unsubscribe: one pattern after the other                  *)

\* the loop goes on with the first pattern that is not as the call wants it
Undone(todo, op, held) ==
  LET busy == {i \in DOMAIN todo : (op = "subscribe") # (todo[i] \in held)}
  IN  IF busy = {} THEN <<>> ELSE SubSeq(todo, Min(busy), Len(todo))

GoesOn(op, todo, held) ==
  LET rest == Undone(todo, op, held)
  IN  call' = IF rest = <<>> THEN idle ELSE [op |-> op, todo |-> rest, applied |-> FALSE]

Starts(op, batch) ==
  /\ call = idle /\ ~failed /\ closing = "no"
  /\ GoesOn(op, batch, Held)
  /\ UNCHANGED <<topics, broker, failed, flowVars, endVars, surfaced>>

subscribe(batch)   == Starts("subscribe", batch)
unsubscribe(batch) == Starts("unsubscribe", batch)

Asked(op) == call.op = op /\ ~call.applied /\ channel = "open"

\* the broker binds or unbinds the queue; its answer is on the way
bindQueue ==
  /\ Asked("subscribe")
  /\ broker' = broker \cup {Head(call.todo)}
  /\ call' = [call EXCEPT !.applied = TRUE]
  /\ UNCHANGED <<topics, failed, flowVars, endVars, surfaced>>

unbindQueue ==
  /\ Asked("unsubscribe")
  /\ broker' = broker \ {Head(call.todo)}
  /\ call' = [call EXCEPT !.applied = TRUE]
  /\ UNCHANGED <<topics, failed, flowVars, endVars, surfaced>>

\* the answer comes, before the close of a channel that ends after it
Answered ==
  /\ call.applied
  /\ \/ call.op = "subscribe" /\ topics' = Append(topics, Head(call.todo))
     \/ /\ call.op = "unsubscribe"
        /\ \E i \in DOMAIN topics : topics[i] = Head(call.todo) /\ topics' = RemoveAt(topics, i)
  /\ GoesOn(call.op, Tail(call.todo), {topics'[i] : i \in DOMAIN topics'})
  /\ UNCHANGED <<broker, failed, flowVars, endVars, surfaced>>

\* calls without an answer reject when their channel closes
Rejected(pending) ==
  /\ call' = IF pending THEN idle ELSE call
  /\ failed' = (failed \/ pending)

\* so does a call that begins on a closed channel
NotConnected ==
  /\ channel = "closed" /\ call # idle /\ ~call.applied
  /\ Rejected(TRUE)
  /\ UNCHANGED <<topics, broker, flowVars, endVars, surfaced>>

\* a refused call closes the channel, with an "error" event before "close"
BrokerCloses ==
  /\ Failing /\ channel = "open"
  /\ channel' = "closed" /\ connected' = FALSE /\ told' = told + 1
  /\ surfaced' = TRUE
  /\ Rejected(call # idle /\ ~call.applied)
  /\ UNCHANGED <<topics, broker, flowVars, closing>>

-----------------------------------------------------------------------------
(* Messages                                                                *)

\* the queue gets one copy, however many of its bindings match
Publish(k) ==
  /\ sent < MaxMessages
  /\ sent' = sent + 1
  /\ wire' = IF channel = "open" /\ \E p \in broker : matchesPattern(p, k)
               THEN Append(wire, [n |-> sent + 1, key |-> k]) ELSE wire
  /\ UNCHANGED <<holdVars, unacked, decoding, handed, endVars, surfaced>>

\* fault: the prefetch count applies whatever noAck says
ConsumePrefetched ==
  /\ channel = "open" /\ closing \in {"no", "cancel"} /\ wire # <<>>
  /\ unacked < prefetch
  /\ wire' = Tail(wire)
  /\ unacked' = unacked + 1
  /\ decoding' = Append(decoding, Head(wire))
  /\ UNCHANGED <<holdVars, sent, handed, endVars, surfaced>>

\* with noAck the prefetch count does not apply
Consume ==
  /\ channel = "open" /\ closing \in {"no", "cancel"} /\ wire # <<>>
  /\ autoAck \/ unacked < prefetch
  /\ wire' = Tail(wire)
  /\ unacked' = IF autoAck THEN 0 ELSE unacked + 1
  /\ decoding' = Append(decoding, Head(wire))
  /\ UNCHANGED <<holdVars, sent, handed, endVars, surfaced>>

Ends(i) ==
  /\ i \in DOMAIN decoding /\ (AsyncCodec \/ i = 1)
  /\ decoding' = RemoveAt(decoding, i)

\* the message is decoded: its topic is looked for now, among the patterns of now
handleMessage(i) ==
  /\ Ends(i)
  /\ LET m == decoding[i]
     IN  handed' = handed \cup {[n |-> m.n, key |-> m.key, topic |-> findMatchingPattern(m.key)]}
  /\ UNCHANGED <<holdVars, wire, unacked, sent, endVars, surfaced>>

DecodeFails(i) ==
  /\ Failing /\ Ends(i)
  /\ surfaced' = TRUE
  /\ UNCHANGED <<holdVars, wire, unacked, sent, handed, endVars>>

-----------------------------------------------------------------------------
(* close                                                                   *)

close ==
  /\ closing = "no"
  /\ closing' = "cancel"
  /\ UNCHANGED <<holdVars, flowVars, connected, channel, told, surfaced>>

\* whatever comes of it is ignored
cancel ==
  /\ closing = "cancel"
  /\ closing' = "channel"
  /\ UNCHANGED <<holdVars, flowVars, connected, channel, told, surfaced>>

\* the "close" event calls the handler, and so does the end of close(); a
\* channel that the broker closed cannot be closed again
channelClose ==
  /\ closing = "channel"
  /\ IF channel = "open"
       THEN /\ channel' = "null" /\ connected' = FALSE /\ closing' = "done"
            /\ told' = told + 2 /\ topics' = <<>> /\ broker' = {}
            /\ Rejected(call # idle)
       ELSE closing' = "rejected" /\ UNCHANGED <<connected, channel, told, holdVars>>
  /\ UNCHANGED <<flowVars, surfaced>>

-----------------------------------------------------------------------------

CallStep == bindQueue \/ unbindQueue \/ Answered \/ NotConnected
Message  == Consume \/ \E i \in 1..MaxMessages : handleMessage(i) \/ DecodeFails(i)
CloseStep == cancel \/ channelClose

Next ==
  \/ \E batch \in Calls : subscribe(batch) \/ unsubscribe(batch)
  \/ CallStep \/ BrokerCloses
  \/ \E k \in Keys : Publish(k)
  \/ Message
  \/ close \/ CloseStep

-----------------------------------------------------------------------------
(* Properties                                                              *)

\* "MUST NOT return until newly-published messages on the subscribed topics
\* will be delivered": between calls the queue is bound to what is held.
HeldIsBound == call = idle /\ ~failed /\ channel = "open" => broker = Held

\* A message is handed once, under a pattern that it matches.
HandedRight ==
  \A x \in handed : /\ matchesPattern(x.topic, x.key)
                    /\ \A y \in handed : x.n = y.n => x = y

\* close() releases the channel.
CloseReleases == closing \in {"done", "rejected"} => channel # "open"
=============================================================================
