----------------------------- MODULE SyncServer -----------------------------
(***************************************************************************)
(* The Server component on an HTTP or a gRPC unary server adapter: every   *)
(* request meets the first hook of its operation, whose handlers make the  *)
(* response, or is forwarded in proxy mode, and is answered once.          *)
(*                                                                         *)
(* Handlers are awaited, and so are forwarded requests.  The adapter's     *)
(* stop waits for the requests that were not answered.                     *)
(***************************************************************************)
EXTENDS ComponentHooks

CONSTANTS
  Operations,
  Requests,      \* the requests of remote clients
  Proxy          \* isProxy: a targetAddress is configured

VARIABLES
  srv,        \* the server adapter: "none", "up", "closing", "closed"
  client,     \* the client adapter of a proxy: "none", "up", "closed"
  req,        \* a request: "new", "handling", "forwarding", "answered"
  by,         \* the operation of a request and the hook that took it, if any
  answer,     \* what it was answered: "none", "response", "forwarded", "nothing", "error"
  refused     \* the requests to a started proxy that met no client adapter

reqVars == <<req, by, answer, refused>>
vars    == <<baseVars, srv, client, reqVars>>

(* the steps of SyncServerStepBuilder; `outcome` is what its handlers come to *)
onRequest(op, outcome) ==
  [type |-> "onRequest", mode |-> "hook", pending |-> FALSE, strict |-> FALSE, op |-> op, outcome |-> outcome]
waitRequest(op, outcome) ==
  [type |-> "waitRequest", mode |-> "wait", pending |-> TRUE, strict |-> TRUE, op |-> op, outcome |-> outcome]

NoHook == <<>>

TypeOK ==
  /\ BaseTypeOK
  /\ srv \in {"none", "up", "closing", "closed"} /\ client \in {"none", "up", "closed"}
  /\ req \in [Requests -> {"new", "handling", "forwarding", "answered"}]
  /\ answer \in [Requests -> {"none", "response", "forwarded", "nothing", "error"}]

Init ==
  /\ BaseInit
  /\ srv = "none"
  /\ client = "none"
  /\ req = [n \in Requests |-> "new"]
  /\ by = [n \in Requests |-> NoHook]
  /\ answer = [n \in Requests |-> "none"]
  /\ refused = {}

\* the server takes requests before the proxy's client adapter is made
doStart ==
  /\ cst = "created"
  /\ cst' = IF Proxy THEN "starting" ELSE "started"
  /\ srv' = "up"
  /\ UNCHANGED <<program, hookVars, testVars, client, reqVars>>

ClientCreated ==
  /\ cst = "starting"
  /\ cst' = "started"
  /\ client' = "up"
  /\ UNCHANGED <<program, hookVars, testVars, srv, reqVars>>

-----------------------------------------------------------------------------
(* Requests                                                                *)

\* the adapter turns null into 404 or CANCELLED, an error into 500 or INTERNAL
Answered(n, what) ==
  /\ req' = [req EXCEPT ![n] = "answered"]
  /\ answer' = [answer EXCEPT ![n] = what]

\* forwardRequest needs the client adapter
forwardRequest(n) ==
  IF client = "up"
    THEN req' = [req EXCEPT ![n] = "forwarding"] /\ UNCHANGED <<answer, refused>>
    ELSE Answered(n, "error") /\ refused' = refused \cup {m \in {n} : cst # "starting"}

Matching(op) == FirstMatch({h \in {hooks[i] : i \in DOMAIN hooks} : StepOf(h).op = op})

\* handleIncomingRequest, up to its first await
handleIncomingRequest(n, op) ==
  /\ srv = "up" /\ req[n] = "new"
  /\ \/ /\ Matching(op) # {}
        /\ \E h \in Matching(op) : by' = [by EXCEPT ![n] = h]
        /\ req' = [req EXCEPT ![n] = "handling"]
        /\ UNCHANGED <<answer, refused>>
     \/ /\ Matching(op) = {}
        /\ IF Proxy THEN forwardRequest(n) ELSE Answered(n, "nothing") /\ UNCHANGED refused
        /\ UNCHANGED by
     \/ /\ Failing                             \* it does not validate
        /\ Answered(n, "error") /\ UNCHANGED <<by, refused>>
  /\ UNCHANGED <<cst, program, hookVars, testVars, srv, client>>

\* mockResponse; the wait goes on before the client gets its response
HandlersRespond(n) ==
  /\ req[n] = "handling" /\ StepOf(by[n]).outcome = "response"
  /\ resolveHooks({by[n]})
  /\ Answered(n, "response")
  /\ UNCHANGED <<cst, program, hooks, rejected, testVars, srv, client, by, refused>>

\* no response was made: a proxy forwards the request, a mock answers nothing
HandlersPass(n) ==
  /\ req[n] = "handling" /\ StepOf(by[n]).outcome = "pass"
  /\ resolveHooks({by[n]})
  /\ IF Proxy THEN forwardRequest(n) ELSE Answered(n, "nothing") /\ UNCHANGED refused
  /\ UNCHANGED <<cst, program, hooks, rejected, testVars, srv, client, by>>

\* drop() throws, which also ends the wait
HandlersDrop(n) ==
  /\ req[n] = "handling" /\ StepOf(by[n]).outcome = "drop"
  /\ IF StepOf(by[n]).pending THEN rejectHooks({by[n]}) ELSE UNCHANGED <<rejected, hooks>>
  /\ Answered(n, "nothing")
  /\ UNCHANGED <<cst, program, resolved, testVars, srv, client, by, refused>>

HandlersThrow(n) ==
  /\ req[n] = "handling" /\ Failing
  /\ IF StepOf(by[n]).pending THEN rejectHooks({by[n]}) ELSE UNCHANGED <<rejected, hooks>>
  /\ Answered(n, "error")
  /\ UNCHANGED <<cst, program, resolved, testVars, srv, client, by, refused>>

\* a failure of a request that a hook forwarded also rejects the hook, which
\* was resolved before
Forwarded(n) ==
  /\ req[n] = "forwarding"
  /\ \/ /\ Answered(n, "forwarded")
        /\ UNCHANGED <<hooks, rejected>>
     \/ /\ Failing \/ client = "closed"
        /\ Answered(n, "error")
        /\ IF by[n] = NoHook
             THEN UNCHANGED <<hooks, rejected>>
             ELSE IF StepOf(by[n]).pending THEN rejectHooks({by[n]}) ELSE UNCHANGED <<rejected, hooks>>
  /\ UNCHANGED <<cst, program, resolved, testVars, srv, client, by, refused>>

-----------------------------------------------------------------------------
(* Stopping                                                                *)

doStop ==
  /\ cst = "started" /\ Quiet /\ srv = "up"
  /\ cst' = "stopping"
  /\ srv' = "closing"
  /\ UNCHANGED <<program, hookVars, testVars, client, reqVars>>

\* fault: the connections of requests without an answer are destroyed
AdapterStoppedAtOnce ==
  /\ srv = "closing"
  /\ srv' = "closed"
  /\ client' = IF Proxy THEN "closed" ELSE client
  /\ cst' = "stopped"
  /\ hooks' = <<>>
  /\ req' = [n \in Requests |-> IF req[n] = "new" THEN "new" ELSE "answered"]
  /\ by' = [n \in Requests |-> NoHook]
  /\ UNCHANGED <<program, resolved, rejected, testVars, answer, refused>>

\* the server adapter is closed: the client adapter and the hooks go
AdapterStopped ==
  /\ srv = "closing"
  /\ \A n \in Requests : req[n] \in {"new", "answered"}
  /\ srv' = "closed"
  /\ client' = IF Proxy THEN "closed" ELSE client
  /\ cst' = "stopped"
  /\ hooks' = <<>>
  /\ UNCHANGED <<program, resolved, rejected, testVars, reqVars>>

-----------------------------------------------------------------------------

Base(A) == A /\ UNCHANGED <<srv, client, reqVars>>

executeWaitRequest(t) == Executes(t, "waitRequest") /\ WaitBegins(t)

HandlersEnd(n) == HandlersRespond(n) \/ HandlersPass(n) \/ HandlersDrop(n) \/ HandlersThrow(n)

Next ==
  \/ doStart \/ ClientCreated \/ doStop \/ AdapterStopped
  \/ \E t \in Tests : Base(TestStep(t)) \/ Base(executeWaitRequest(t))
  \/ \E n \in Requests :
       \/ HandlersEnd(n) \/ Forwarded(n)
       \/ \E op \in Operations : handleIncomingRequest(n, op)

\* a test case executes on
Progress(t) ==
  Base(GoesOn(t)) \/ Base(executeWaitRequest(t))

\* handlers and backends end
Answers(n) == HandlersEnd(n) \/ Forwarded(n)

-----------------------------------------------------------------------------
(* Properties                                                              *)

\* A wait whose hook took a request is not left to its timeout when that
\* request was answered or forwarded.
ServedWaitsEnd ==
  \A t \in Tests, n \in Requests :
    pc[t] = "waiting" /\ by[n] = Hook(t) /\ req[n] \in {"forwarding", "answered"} => Settled(Hook(t))

\* A proxy that is stopped forwards what it had received before it lets its
\* client adapter go.
StopForwards == refused = {} /\ (client = "closed" => \A n \in Requests : req[n] # "forwarding")
=============================================================================
