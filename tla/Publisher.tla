------------------------------ MODULE Publisher ------------------------------
(***************************************************************************)
(* The Publisher component with the publisher adapter of Kafka, RabbitMQ   *)
(* or Redis.  publish is a batch of one.  A step is named by its hook.     *)
(***************************************************************************)
EXTENDS ComponentHooks, SequencesExt

CONSTANTS
  Kinds,
  AsyncCodec     \* whether codec.encode may end in another order than it began

VARIABLES
  kind,          \* "kafka", "rabbitmq", "redis"
  adapter,       \* _publisherAdapter: "none", "connected"
  encoding,      \* what codec.encode works on: pairs of a step and an index
  confirming,    \* rabbitmq: what the broker was given and has not confirmed
  log            \* what the broker has accepted, in its order

adapterVars == <<kind, adapter>>
sendVars    == <<encoding, confirming, log>>
vars        == <<baseVars, adapterVars, sendVars>>

\* the steps of PublisherStepBuilder; a message says whether it validates
publishStep(type, messages) ==
  [type |-> type, mode |-> "action", pending |-> FALSE, strict |-> FALSE, messages |-> messages]
publish(message)       == publishStep("publish", <<message>>)
publishBatch(messages) == publishStep("publishBatch", messages)

TypeOK ==
  /\ BaseTypeOK
  /\ kind \in Kinds /\ adapter \in {"none", "connected"}
  /\ \A j \in encoding \cup confirming : j[1][1] \in Tests

Init ==
  /\ BaseInit
  /\ kind \in Kinds
  /\ adapter = "none"
  /\ encoding = {} /\ confirming = {} /\ log = <<>>

doStart ==
  /\ cst = "created"
  /\ cst' = "started" /\ adapter' = "connected"
  /\ UNCHANGED <<program, hookVars, testVars, kind, sendVars>>

-----------------------------------------------------------------------------

Messages(s)  == DOMAIN StepOf(s).messages
Batch(s)     == StepOf(s).type = "publishBatch"
Part(s)      == {s} \X Messages(s)
Busy(s)      == pc[s[1]] = "busy" /\ Hook(s[1]) = s
Whole(s)     == [i \in Messages(s) |-> <<s, i>>]
autoValidate(s) == \A i \in Messages(s) : StepOf(s).messages[i].valid

\* every message is validated before the first one is encoded
executePublish(t) ==
  /\ Executes(t, "publish") \/ Executes(t, "publishBatch")
  /\ IF autoValidate(Hook(t)) /\ adapter = "connected"
       THEN encoding' = encoding \cup Part(Hook(t)) /\ StepGoesTo(t, "busy")
       ELSE StepFails(t) /\ UNCHANGED encoding
  /\ UNCHANGED <<cst, program, hookVars, adapterVars, confirming, log>>

\* Redis encodes one message after the other, the others all at once
EncodeEnds(j) ==
  /\ j \in encoding
  /\ (AsyncCodec /\ kind # "redis") \/ \A i \in encoding : i[1] = j[1] => j[2] <= i[2]

\* without an error: a channel that is closed by now takes no message
Encoded(j) ==
  /\ EncodeEnds(j)
  /\ encoding' = encoding \ {j}
  /\ IF kind = "rabbitmq" /\ adapter = "connected"
       THEN confirming' = confirming \cup {j} /\ log' = Append(log, j)
       ELSE UNCHANGED <<confirming, log>>
  /\ UNCHANGED <<cst, program, hookVars, testVars, adapterVars>>

\* the first error fails the step; what RabbitMQ's other messages do goes on
GivenUp(s) == IF kind = "rabbitmq" THEN {} ELSE Part(s)

EncodeFails(j) ==
  /\ Failing /\ EncodeEnds(j)
  /\ encoding' = (encoding \ {j}) \ GivenUp(j[1])
  /\ IF Busy(j[1]) THEN StepFails(j[1][1]) ELSE UNCHANGED testVars
  /\ UNCHANGED <<cst, program, hookVars, adapterVars, confirming, log>>

AllEncoded(s) == Busy(s) /\ Part(s) \cap encoding = {}

\* producer.send, pipeline.exec: one request for the whole batch; for RabbitMQ
\* there is none, and nothing to confirm when the batch is empty
Sent(s) ==
  /\ AllEncoded(s) /\ (kind # "rabbitmq" \/ Messages(s) = {})
  /\ log' = log \o Whole(s)
  /\ StepPasses(s[1])
  /\ UNCHANGED <<cst, program, hookVars, adapterVars, encoding, confirming>>

SendFails(s) ==
  /\ Failing /\ AllEncoded(s) /\ kind # "rabbitmq"
  /\ StepFails(s[1])
  /\ UNCHANGED <<cst, program, hookVars, adapterVars, sendVars>>

\* what the broker may take of a batch when it refuses some of it
Subsequences(s) ==
  {f \in UNION {[1..n -> Messages(s)] : n \in 0..(Len(StepOf(s).messages) - 1)} :
     \A i, j \in DOMAIN f : i < j => f[i] < f[j]}

\* pipeline.exec reports the errors of its commands in its result, which
\* publishBatch does not look at
CommandsRefused(s) ==
  /\ Failing /\ AllEncoded(s) /\ kind = "redis" /\ Batch(s)
  /\ \E taken \in Subsequences(s) : log' = log \o [i \in DOMAIN taken |-> <<s, taken[i]>>]
  /\ StepPasses(s[1])
  /\ UNCHANGED <<cst, program, hookVars, adapterVars, encoding, confirming>>

\* fault: the first confirm ends the step
ConfirmedFirst(j) ==
  /\ j \in confirming
  /\ confirming' = confirming \ {j}
  /\ IF Busy(j[1]) THEN StepPasses(j[1][1]) ELSE UNCHANGED testVars
  /\ UNCHANGED <<cst, program, hookVars, adapterVars, encoding, log>>

Confirmed(j) ==
  /\ j \in confirming
  /\ confirming' = confirming \ {j}
  /\ IF Busy(j[1]) /\ Part(j[1]) \cap (encoding \cup confirming) = {j}
       THEN StepPasses(j[1][1]) ELSE UNCHANGED testVars
  /\ UNCHANGED <<cst, program, hookVars, adapterVars, encoding, log>>

Refused(j) ==
  /\ Failing /\ j \in confirming
  /\ confirming' = confirming \ {j}
  /\ \E n \in DOMAIN log : log[n] = j /\ log' = RemoveAt(log, n)
  /\ IF Busy(j[1]) THEN StepFails(j[1][1]) ELSE UNCHANGED testVars
  /\ UNCHANGED <<cst, program, hookVars, adapterVars, encoding>>

\* close() waits for nothing that is under way
doStop ==
  /\ cst = "started" /\ Quiet
  /\ \/ cst' = "stopped" /\ adapter' = "none" /\ hooks' = <<>>
     \/ Failing /\ kind # "redis" /\ cst' = "error" /\ UNCHANGED <<adapter, hooks>>
  /\ UNCHANGED <<program, resolved, rejected, testVars, kind, sendVars>>

-----------------------------------------------------------------------------

Base(A) == A /\ UNCHANGED <<adapterVars, sendVars>>

Next ==
  \/ doStart \/ doStop
  \/ \E t \in Tests : Base(TestStep(t)) \/ executePublish(t)
  \/ \E j \in encoding : Encoded(j) \/ EncodeFails(j)
  \/ \E j \in confirming : Confirmed(j) \/ Refused(j)
  \/ \E t \in Tests : Active(t) /\ HasStep(t) /\
        LET s == Hook(t) IN Sent(s) \/ SendFails(s) \/ CommandsRefused(s)

-----------------------------------------------------------------------------
(* Properties                                                              *)

Accepted(s) == {i \in Messages(s) : \E n \in DOMAIN log : log[n] = <<s, i>>}
Passed(s)   == at[s[1]] > s[2]
AllSteps    == UNION {{t} \X DOMAIN program[t] : t \in Tests}

\* The broker has the messages of a batch in the order of the batch.
BatchInOrder ==
  \A m, n \in DOMAIN log : log[m][1] = log[n][1] /\ m < n => log[m][2] < log[n][2]

\* A step that passed was accepted whole.
PassedIsAccepted == \A s \in AllSteps : Passed(s) => Accepted(s) = Messages(s)
=============================================================================
