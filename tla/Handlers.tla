------------------------------ MODULE Handlers ------------------------------
(***************************************************************************)
(* What a component does with the handlers of a step: the chain a hook     *)
(* builder makes, executed on each message the hook of the step takes, or  *)
(* on the result of the step, by executeHandlers (clients, Subscriber,     *)
(* DataSource) or executeServerHandlers (Server, AsyncServer), and what    *)
(* the end of the chain means to the wait of the step, to the peer and to  *)
(* the unhandled errors.  Handlers are async functions of the user: their  *)
(* results are any, and messages interleave between any two handlers.      *)
(* Which hook takes which message, and when, is in the modules of the      *)
(* components.                                                             *)
(***************************************************************************)
EXTENDS Naturals, Sequences

CONSTANTS
  Messages,   \* messages that may come to the hook
  Cases       \* what there is: sets of <<component, step type, proxy?, chain>>

VARIABLES
  component, step, isProxy,
  chain,      \* step.handlers: a sequence of handler types
  schemas,    \* the directions the component has a schema for
  hook,       \* the pending of the hook: "open", "resolved", "rejected"
  run,        \* what became of each message
  assertions, \* step.metadata.assertions: <<message, handler, passed?>> in order
  out,        \* what went to a peer: <<what, message, payload>>
  tracked     \* the messages whose error is among the unhandled errors

vars == <<component, step, isProxy, chain, schemas, hook, run, assertions, out, tracked>>
fixed == <<component, step, isProxy, chain, schemas>>

\* "message" is an object with a type and a payload, "response" one whose type is "response"
Payloads == {"sent", "changed", "null", "message", "response"}

-----------------------------------------------------------------------------
(* Hook builders and components                                            *)

\* the handlers the methods of each hook builder push
AsyncClientMethods == {"assert", "transform", "validate"}
AsyncServerMethods == {"assert", "transform", "mockEvent", "proxy", "validate", "delay", "drop", "link"}
ClientMethods      == {"assert", "transform", "validate"}
ServerMethods      == {"assert", "transform", "proxy", "mockResponse", "validate", "delay", "drop"}
SubscriberMethods  == {"assert", "transform", "validate", "drop"}
DataSourceMethods  == {"assert"}

Methods(c) ==
  [AsyncClient |-> AsyncClientMethods, AsyncServer |-> AsyncServerMethods, Client |-> ClientMethods,
   Server |-> ServerMethods, Subscriber |-> SubscriberMethods, DataSource |-> DataSourceMethods][c]

\* a hook builder makes a chain of what its methods push, for a step it is for
ASSUME CasesAssumption ==
  \A c \in Cases :
    /\ c[1] \in {"AsyncClient", "AsyncServer", "Client", "Server", "Subscriber", "DataSource"}
    /\ c[4] \in Seq(Methods(c[1]))
    /\ c[1] = "Client" => c[2] \in {"onResponse", "waitResponse"}

\* the handlers each executeHandler knows; it returns undefined for any other,
\* which no builder pushes
AsyncClientHandlers == {"assert", "transform", "validate"}
AsyncServerHandlers == {"assert", "transform", "delay", "drop", "proxy", "mockEvent", "link", "validate"}
ClientHandlers      == {"assert", "transform", "validate"}
ServerHandlers      == {"assert", "transform", "delay", "drop", "proxy", "mockResponse", "validate"}
SubscriberHandlers  == {"assert", "transform", "drop", "validate"}
DataSourceHandlers  == {"assert"}

Executes(c) ==
  [AsyncClient |-> AsyncClientHandlers, AsyncServer |-> AsyncServerHandlers, Client |-> ClientHandlers,
   Server |-> ServerHandlers, Subscriber |-> SubscriberHandlers, DataSource |-> DataSourceHandlers][c]

\* lookupSchema: the directions a component may register a schema for
AsyncClientSchemas == {"clientMessage", "serverMessage"}
AsyncServerSchemas == {"clientMessage", "serverMessage"}
ClientSchemas      == {"request", "response"}
ServerSchemas      == {"request", "response"}
SubscriberSchemas  == {"message"}

Directions(c) ==
  [AsyncClient |-> AsyncClientSchemas, AsyncServer |-> AsyncServerSchemas, Client |-> ClientSchemas,
   Server |-> ServerSchemas, Subscriber |-> SubscriberSchemas, DataSource |-> {}][c]

\* the steps of an AsyncServer for the events of its backend
EventSteps == {"onEvent", "waitEvent"}

\* lookupDirection of the validate() of each hook builder
LookupDirection ==
  CASE component = "AsyncClient" -> "serverMessage"
    [] component = "AsyncServer" -> IF step \in EventSteps THEN "serverMessage" ELSE "clientMessage"
    [] component = "Client"      -> "response"
    [] component = "Server"      -> "request"
    [] OTHER                     -> "message"

\* steps whose handlers executeStep runs, on what it waited for
Awaited ==
  \/ component = "AsyncClient" /\ step = "waitEvent"
  \/ component = "Client" /\ step \in {"onResponse", "waitResponse"}
  \/ component = "Subscriber" /\ step = "waitMessage"
  \/ component = "DataSource" /\ step = "exec"

\* steps of a server that wait until the handlers of their message ended
WaitStep == component \in {"Server", "AsyncServer"} /\ step \in {"waitRequest", "waitMessage", "waitEvent"}

Server      == component = "Server"
AsyncServer == component = "AsyncServer"
Backwards   == AsyncServer /\ step \in EventSteps

-----------------------------------------------------------------------------

Idle == [pc |-> "idle", at |-> 1, came |-> "sent", value |-> "sent", type |-> "own", results |-> <<>>, error |-> "none"]

Init ==
  /\ \E c \in Cases : component = c[1] /\ step = c[2] /\ isProxy = c[3] /\ chain = c[4]
  /\ schemas \in {{}, Directions(component)}
  /\ hook = "open"
  /\ run = [m \in Messages |-> Idle]
  /\ assertions = <<>>
  /\ out = {}
  /\ tracked = {}

resolveHook == hook' = IF hook = "open" THEN "resolved" ELSE hook
rejectHook  == hook' = IF hook = "open" THEN "rejected" ELSE hook

At(m)         == run[m].at
Handles(m, h) == run[m].pc = "running" /\ At(m) \in DOMAIN chain /\ chain[At(m)] = h
                   /\ h \in Executes(component)
Becomes(m, r) == run' = [run EXCEPT ![m] = r]
Begun(m, v)   == [run[m] EXCEPT !.pc = "running", !.came = v, !.value = v]
Over(m, e)    == [run[m] EXCEPT !.pc = "over", !.error = e]

-----------------------------------------------------------------------------
(* A message comes, or the result a step waited for                        *)

\* autoValidate throws on what its schema refuses
Refused(direction) == direction \in schemas

\* handleIncomingEvent, handleMessage: an on... hook runs its handlers, a wait
\* step gets the payload; what is refused is an unhandled error
ClientMessage(m, v) ==
  /\ component \in {"AsyncClient", "Subscriber"} /\ run[m].pc = "idle"
  /\ \/ Becomes(m, Over(m, "error")) /\ tracked' = tracked \cup {m} /\ UNCHANGED hook
        /\ Refused(LookupDirection)
     \/ /\ ~Awaited /\ Becomes(m, Begun(m, v)) /\ UNCHANGED <<hook, tracked>>
     \/ /\ Awaited /\ hook = "open" /\ Becomes(m, Begun(m, v)) /\ resolveHook /\ UNCHANGED tracked
  /\ UNCHANGED <<fixed, assertions, out>>

\* handleIncomingRequest: a refused request fails before a hook is looked for
\* and is nobody's error but the adapter's
ServerRequest(m, v) ==
  /\ Server /\ run[m].pc = "idle"
  /\ \/ Refused("request") /\ Becomes(m, Over(m, "refused"))
     \/ hook = "open" /\ Becomes(m, Begun(m, v))
  /\ UNCHANGED <<fixed, hook, assertions, out, tracked>>

\* handleIncomingMessage; the connection's handler tracks what it throws
AsyncServerMessage(m, v) ==
  /\ AsyncServer /\ ~Backwards /\ run[m].pc = "idle"
  /\ \/ Refused("clientMessage") /\ Becomes(m, Over(m, "error")) /\ tracked' = tracked \cup {m}
     \/ hook = "open" /\ Becomes(m, Begun(m, v)) /\ UNCHANGED tracked
  /\ UNCHANGED <<fixed, hook, assertions, out>>

\* handleBackendEvent: events are not validated
BackendEvent(m, v) ==
  /\ Backwards /\ isProxy /\ run[m].pc = "idle" /\ hook = "open"
  /\ Becomes(m, Begun(m, v))
  /\ UNCHANGED <<fixed, hook, assertions, out, tracked>>

\* executeResponseStep: the response is validated once the step has it
Response(m, v) ==
  /\ component = "Client" /\ hook = "open" /\ run[m].pc = "idle"
  /\ resolveHook
  /\ \/ Refused("response") /\ Becomes(m, Over(m, "error"))
     \/ Becomes(m, Begun(m, v))
  /\ UNCHANGED <<fixed, assertions, out, tracked>>

\* executeExec: the result of the callback
ExecResult(m, v) ==
  /\ component = "DataSource" /\ hook = "open" /\ run[m].pc = "idle"
  /\ resolveHook
  /\ Becomes(m, Begun(m, v))
  /\ UNCHANGED <<fixed, assertions, out, tracked>>

-----------------------------------------------------------------------------
(* What a handler returns                                                  *)

Ran(m, r) == [run[m] EXCEPT !.at = @ + 1, !.results = Append(@, r)]

\* null ends the chain, undefined keeps the value
executeHandlers(m, r) ==
  CASE r = "null"      -> [Ran(m, r) EXCEPT !.pc = "dropped"]
    [] r = "undefined" -> Ran(m, r)
    [] OTHER           -> [Ran(m, r) EXCEPT !.value = r]

executeServerHandlersNullish(m, r) ==
  CASE r \in {"null", "undefined"} -> Ran(m, r)
    [] r = "response"  -> [Ran(m, r) EXCEPT !.pc = "answered", !.value = "changed"]
    [] r = "message"   -> [Ran(m, r) EXCEPT !.value = "changed", !.type = "other"]
    [] OTHER           -> [Ran(m, r) EXCEPT !.value = r]

\* an object with a type and a payload changes both; a response ends the chain
executeServerHandlers(m, r) ==
  CASE r = "null"      -> [Ran(m, r) EXCEPT !.pc = "dropped"]
    [] r = "undefined" -> Ran(m, r)
    [] r = "response"  -> [Ran(m, r) EXCEPT !.pc = "answered", !.value = "changed"]
    [] r = "message"   -> [Ran(m, r) EXCEPT !.value = "changed", !.type = "other"]
    [] OTHER           -> [Ran(m, r) EXCEPT !.value = r]

\* the type of the message is kept
executeAsyncServerHandlers(m, r) ==
  CASE r = "null"      -> [Ran(m, r) EXCEPT !.pc = "dropped"]
    [] r = "undefined" -> Ran(m, r)
    [] OTHER           -> [Ran(m, r) EXCEPT !.value = r]

Returns(m, r) ==
  Becomes(m, IF Server THEN executeServerHandlers(m, r)
             ELSE IF AsyncServer THEN executeAsyncServerHandlers(m, r)
             ELSE executeHandlers(m, r))

Throws(m, e) == Becomes(m, [run[m] EXCEPT !.pc = "failed", !.error = e])

\* any handler of the user may return any value or throw
UserReturns(m) == \E r \in Payloads \cup {"undefined"} : Returns(m, r)

-----------------------------------------------------------------------------
(* Handlers                                                                *)

recordAssertion(m, passed) == assertions' = Append(assertions, <<m, At(m), passed>>)

AssertSoft(m) ==
  /\ Handles(m, "assert")
  /\ Returns(m, "undefined") /\ \E passed \in BOOLEAN : recordAssertion(m, passed)
  /\ UNCHANGED <<fixed, hook, out, tracked>>

\* a predicate that returns false or throws fails the chain; an error whose
\* message begins with "Assertion failed" is taken for one that was recorded
Assert(m) ==
  /\ Handles(m, "assert")
  /\ \/ Returns(m, "undefined") /\ recordAssertion(m, TRUE)
     \/ Throws(m, "error") /\ (recordAssertion(m, FALSE) \/ UNCHANGED assertions)
  /\ UNCHANGED <<fixed, hook, out, tracked>>

Transform(m) ==
  /\ Handles(m, "transform") \/ Handles(m, "proxy")
  /\ UserReturns(m) \/ Throws(m, "error")
  /\ UNCHANGED <<fixed, hook, assertions, out, tracked>>

Delay(m) ==
  /\ Handles(m, "delay")
  /\ Returns(m, "undefined")
  /\ UNCHANGED <<fixed, hook, assertions, out, tracked>>

Drop(m) ==
  /\ Handles(m, "drop")
  /\ Throws(m, "drop")
  /\ UNCHANGED <<fixed, hook, assertions, out, tracked>>

\* without a schema it throws; the schema returns the payload, as it is or changed
Validate(m) ==
  /\ Handles(m, "validate")
  /\ \/ Throws(m, "error")
     \/ LookupDirection \in schemas
        /\ \E r \in {run[m].value} \cup (IF run[m].value = "null" THEN {} ELSE {"changed"}) : Returns(m, r)
  /\ UNCHANGED <<fixed, hook, assertions, out, tracked>>

\* the response of the user, whatever it is, validated by its own schema
MockResponse(m) ==
  /\ Handles(m, "mockResponse")
  /\ Returns(m, "response") \/ Throws(m, "error")
  /\ UNCHANGED <<fixed, hook, assertions, out, tracked>>

\* the event goes to the connection of the message, if it is still there
MockEvent(m) ==
  /\ Handles(m, "mockEvent")
  /\ \/ Returns(m, "undefined") /\ out' \in {out, out \cup {<<"event", m, "changed">>}}
     \/ Throws(m, "error") /\ UNCHANGED out
  /\ UNCHANGED <<fixed, hook, assertions, tracked>>

\* the links of connections are in AsyncServerSteps.tla
Link(m) ==
  /\ Handles(m, "link")
  /\ Returns(m, "undefined")
  /\ UNCHANGED <<fixed, hook, assertions, out, tracked>>

-----------------------------------------------------------------------------
(* The end of the chain                                                    *)

Completed(m) == run[m].pc = "running" /\ At(m) = Len(chain) + 1
Passed(m)    == Completed(m) \/ run[m].pc \in {"dropped", "answered"}
Sent(what, m) == out' = out \cup {<<what, m, run[m].value>>}

\* handleIncomingRequest: a response goes back, a proxy forwards the rest
ServerPasses(m) ==
  /\ Server /\ Passed(m)
  /\ IF WaitStep THEN resolveHook ELSE UNCHANGED hook
  /\ CASE run[m].pc = "answered"  -> Sent("answer", m)
       [] Completed(m) /\ isProxy -> Sent("forward", m)
       [] OTHER                   -> UNCHANGED out
  /\ Becomes(m, Over(m, "none"))
  /\ UNCHANGED <<fixed, assertions, tracked>>

\* handleIncomingMessage: a proxy forwards what a proxy() handler let through
AsyncServerPasses(m) ==
  /\ AsyncServer /\ ~Backwards /\ Passed(m)
  /\ IF WaitStep THEN resolveHook ELSE UNCHANGED hook
  /\ IF Completed(m) /\ isProxy /\ \E i \in DOMAIN chain : chain[i] = "proxy"
       THEN Sent("forward", m) ELSE UNCHANGED out
  /\ Becomes(m, Over(m, "none"))
  /\ UNCHANGED <<fixed, assertions, tracked>>

\* handleBackendEvent: what is not dropped goes on to the client
EventPasses(m) ==
  /\ Backwards /\ Passed(m)
  /\ IF WaitStep THEN resolveHook ELSE UNCHANGED hook
  /\ IF Completed(m) THEN Sent("client", m) ELSE UNCHANGED out
  /\ Becomes(m, Over(m, "none"))
  /\ UNCHANGED <<fixed, assertions, tracked>>

ServerThrowsToWait(m) ==
  /\ (Server \/ AsyncServer) /\ run[m].pc = "failed"
  /\ IF WaitStep THEN rejectHook /\ UNCHANGED tracked
     ELSE /\ UNCHANGED hook
          /\ tracked' = IF run[m].error = "drop" THEN tracked ELSE tracked \cup {m}
  /\ Becomes(m, Over(m, run[m].error))
  /\ UNCHANGED <<fixed, assertions, out>>

\* the catch of the three: the wait is told of anything, drop() is no error
ServerThrows(m) ==
  /\ (Server \/ AsyncServer) /\ run[m].pc = "failed"
  /\ IF WaitStep THEN rejectHook ELSE UNCHANGED hook
  /\ tracked' = IF run[m].error = "drop" THEN tracked ELSE tracked \cup {m}
  /\ Becomes(m, Over(m, run[m].error))
  /\ UNCHANGED <<fixed, assertions, out>>

\* the step passes or fails with its chain
StepEnds(m) ==
  /\ Awaited /\ (Passed(m) \/ run[m].pc = "failed")
  /\ Becomes(m, Over(m, run[m].error))
  /\ UNCHANGED <<fixed, hook, assertions, out, tracked>>

\* an on... step of AsyncClient or Subscriber; only Subscriber knows drop()
HookEnds(m) ==
  /\ component \in {"AsyncClient", "Subscriber"} /\ ~Awaited /\ (Passed(m) \/ run[m].pc = "failed")
  /\ tracked' = IF run[m].pc = "failed" /\ run[m].error # "drop" THEN tracked \cup {m} ELSE tracked
  /\ Becomes(m, Over(m, run[m].error))
  /\ UNCHANGED <<fixed, hook, assertions, out>>

-----------------------------------------------------------------------------

Arrives(m, v) ==
  \/ ClientMessage(m, v) \/ ServerRequest(m, v) \/ AsyncServerMessage(m, v)
  \/ BackendEvent(m, v) \/ Response(m, v) \/ ExecResult(m, v)

executeHandler(m) ==
  \/ Assert(m) \/ Transform(m) \/ Delay(m) \/ Drop(m) \/ Validate(m)
  \/ MockResponse(m) \/ MockEvent(m) \/ Link(m)

Ends(m) ==
  \/ ServerPasses(m) \/ AsyncServerPasses(m) \/ EventPasses(m)
  \/ ServerThrows(m) \/ StepEnds(m) \/ HookEnds(m)

Next == \E m \in Messages : (\E v \in {"sent", "null"} : Arrives(m, v)) \/ executeHandler(m) \/ Ends(m)

Spec == Init /\ [][Next]_vars

-----------------------------------------------------------------------------
(* Properties                                                              *)

TypeOK ==
  /\ chain \in Seq(Methods(component))
  /\ hook \in {"open", "resolved", "rejected"}
  /\ assertions \in Seq(Messages \X (DOMAIN chain) \X BOOLEAN)
  /\ out \subseteq {"answer", "forward", "client", "event"} \X Messages \X Payloads
  /\ tracked \subseteq Messages
  /\ run \in [Messages ->
       [pc : {"idle", "running", "dropped", "answered", "failed", "over"}, at : 1..(Len(chain) + 1),
        came : Payloads, value : Payloads, type : {"own", "other"},
        results : Seq(Payloads \cup {"undefined"}), error : {"none", "error", "drop", "refused"}]]

\* The message whose handling ended the wait of the step well.
Handled(m)  == run[m].pc = "over" /\ run[m].error = "none"
StepPassed  == (WaitStep /\ hook = "resolved") \/ (Awaited /\ \E m \in Messages : Handled(m))
Held(m, i)  == \E n \in DOMAIN assertions : assertions[n] = <<m, i, TRUE>>
CutShort(m, i) == \E j \in DOMAIN run[m].results : j < i /\ run[m].results[j] \in {"null", "response"}

\* A step whose wait passed saw a message for which every assertion of its
\* chain held, but those after a handler that dropped or answered it.
PassedMeansAsserted ==
  StepPassed => \E m \in Messages : Handled(m) /\
    \A i \in DOMAIN chain : chain[i] = "assert" => Held(m, i) \/ CutShort(m, i)

\* Every assertion of the chain held: not so when a handler before it returned
\* null, as the validation of a null payload does, or answered.
EveryAssertionHeld ==
  StepPassed => \E m \in Messages : Handled(m) /\
    \A i \in DOMAIN chain : chain[i] = "assert" => Held(m, i)

\* What the results of the handlers make of a message: the last one that is
\* not undefined, or what came.
Effect(r)   == IF Server /\ r \in {"message", "response"} THEN "changed" ELSE r
Changes(m)  == {i \in DOMAIN run[m].results : run[m].results[i] # "undefined"}
Made(m, v)  == \/ Changes(m) = {} /\ v = run[m].came
               \/ \E i \in Changes(m) : (\A j \in Changes(m) : j <= i) /\ v = Effect(run[m].results[i])

\* What goes on to a backend or a client, or back as the response, is what the
\* handlers of its own chain made of the message, and nothing they dropped.
GoesOnAsMade ==
  \A o \in out : o[1] # "event" =>
    Made(o[2], o[3]) /\ \A i \in DOMAIN run[o[2]].results : run[o[2]].results[i] # "null"

\* A message that failed fails a step or is among the unhandled errors; a
\* message that was dropped is not.
FailuresTold ==
  /\ \A m \in Messages : run[m].pc = "over" /\ run[m].error = "error" => Awaited \/ m \in tracked
  /\ \A m \in tracked : run[m].error = "error"
=============================================================================
