----------------------------- MODULE AsyncClient -----------------------------
(***************************************************************************)
(* The AsyncClient component: steps that connect, send, disconnect and     *)
(* wait, over connections that come and go.  A reconnect closes the old    *)
(* connection, whose onClose comes later.                                  *)
(***************************************************************************)
EXTENDS ComponentHooks

CONSTANTS
  EventTypes,
  AutoConnect,   \* the autoConnect option
  SlowClose,     \* whether the onClose of a connection may come after the next one is up
  MaxConns,      \* bound on the connections
  MaxEvents      \* bound on the events that arrive

Connections == 1..MaxConns

VARIABLES
  conn,      \* _connection: a connection, or 0
  sock,      \* a connection: "none", "connecting", "open", "closing", "gone"
  caller,    \* who awaits createClient: a test case, "start" or "none"
  seen,      \* how many events were received
  claim,     \* the event that resolved a hook, as a set of <<hook, number>>
  bereft     \* the unresolved waits there were when a connection was lost

connVars  == <<conn, sock, caller>>
eventVars == <<seen, claim>>
vars      == <<baseVars, connVars, eventVars, bereft>>

(* the steps of AsyncClientStepBuilder *)
Action(type)   == [type |-> type, mode |-> "action", pending |-> FALSE, strict |-> FALSE, event |-> "none"]
connect        == Action("connect")
sendMessage    == Action("sendMessage")
disconnect     == Action("disconnect")
waitDisconnect == [type |-> "waitDisconnect", mode |-> "wait", pending |-> TRUE, strict |-> TRUE, event |-> "none"]
onEvent(e)     == [type |-> "onEvent", mode |-> "hook", pending |-> FALSE, strict |-> FALSE, event |-> e]

\* with a matcher an event may come before its wait
waitEvent(e, matcher) ==
  [type |-> "waitEvent", mode |-> "wait", pending |-> TRUE, strict |-> ~matcher, event |-> e]

TypeOK ==
  /\ BaseTypeOK
  /\ conn \in {0} \cup Connections
  /\ sock \in [Connections -> {"none", "connecting", "open", "closing", "gone"}]
  /\ caller \in [Connections -> Tests \cup {"start", "none"}]
  /\ seen \in 0..MaxEvents

Init ==
  /\ BaseInit
  /\ conn = 0
  /\ sock = [k \in Connections |-> "none"]
  /\ caller = [k \in Connections |-> "none"]
  /\ seen = 0
  /\ claim = {}
  /\ bereft = {}

-----------------------------------------------------------------------------
(* Connecting                                                              *)

\* close() of the adapter there is; its onClose comes later
Closing == [k \in Connections |-> IF k = conn /\ sock[k] = "open" THEN "closing" ELSE sock[k]]

Fresh == {k \in Connections : sock[k] = "none" /\ \A j \in 1..(k - 1) : sock[j] # "none"}

\* fault: the connection there is stays open
establishConnectionAnew(who) ==
  \E k \in Fresh :
    /\ sock' = [sock EXCEPT ![k] = "connecting"]
    /\ caller' = [caller EXCEPT ![k] = who]
    /\ conn' = 0

establishConnection(who) ==
  \E k \in Fresh :
    /\ sock' = [Closing EXCEPT ![k] = "connecting"]
    /\ caller' = [caller EXCEPT ![k] = who]
    /\ conn' = 0

doStart ==
  /\ cst = "created"
  /\ IF AutoConnect
       THEN cst' = "starting" /\ establishConnection("start")
       ELSE cst' = "started" /\ UNCHANGED connVars
  /\ UNCHANGED <<program, hookVars, testVars, eventVars, bereft>>

executeConnect(t) ==
  /\ Executes(t, "connect")
  /\ establishConnection(t)
  /\ StepGoesTo(t, "busy")
  /\ UNCHANGED <<cst, program, hookVars, eventVars, bereft>>

\* createClient resolves: the connection takes the place of whichever is there
Connected(k) ==
  /\ sock[k] = "connecting"
  /\ SlowClose \/ \A j \in Connections : sock[j] # "closing"
  /\ sock' = [sock EXCEPT ![k] = "open"]
  /\ caller' = [caller EXCEPT ![k] = "none"]
  /\ conn' = k
  /\ IF caller[k] = "start"
       THEN cst' = "started" /\ UNCHANGED testVars
       ELSE StepPasses(caller[k]) /\ UNCHANGED cst
  /\ UNCHANGED <<program, hookVars, eventVars, bereft>>

ConnectFails(k) ==
  /\ Failing /\ sock[k] = "connecting"
  /\ sock' = [sock EXCEPT ![k] = "gone"]
  /\ caller' = [caller EXCEPT ![k] = "none"]
  /\ IF caller[k] = "start"
       THEN cst' = "error" /\ UNCHANGED testVars
       ELSE StepFails(caller[k]) /\ UNCHANGED cst
  /\ UNCHANGED <<program, hookVars, conn, eventVars, bereft>>

executeDisconnect(t) ==
  /\ Executes(t, "disconnect")
  /\ sock' = Closing /\ conn' = 0
  /\ StepPasses(t)
  /\ UNCHANGED <<cst, program, hookVars, caller, eventVars, bereft>>

-----------------------------------------------------------------------------
(* Messages and events                                                     *)

Up == conn # 0 /\ sock[conn] = "open"

\* without an open connection the step fails, as with an invalid payload
executeSendMessage(t) ==
  /\ Executes(t, "sendMessage")
  /\ \/ Up /\ StepPasses(t)
     \/ (Failing \/ ~Up) /\ StepFails(t)
  /\ UNCHANGED <<cst, program, hookVars, connVars, eventVars, bereft>>

Listening(e) == {h \in {hooks[i] : i \in DOMAIN hooks} : StepOf(h).event = e}

\* fault: hooks are looked up from the last one
matchesLast(e) == {h \in Unresolved(Listening(e)) :
                     \A g \in Unresolved(Listening(e)) : h \in Earliest({h, g}) => h = g}

matches(e) == FirstMatch(Listening(e))

\* an event of any connection, be it the current one or not; the first
\* unresolved hook gets it, and an onEvent hook is never resolved
handleIncomingEvent(k, e) ==
  /\ sock[k] \in {"open", "closing"} /\ seen < MaxEvents
  /\ seen' = seen + 1
  /\ \/ /\ resolveHooks(matches(e))
        /\ claim' = claim \cup {<<h, seen + 1>> : h \in {g \in matches(e) : StepOf(g).pending}}
     \/ Failing /\ UNCHANGED <<resolved, claim>>   \* it does not validate
  /\ UNCHANGED <<cst, program, hooks, rejected, testVars, connVars, bereft>>

-----------------------------------------------------------------------------
(* The end of a connection                                                 *)

\* the server, the network, or an error that onError reports
PeerCloses(k) ==
  /\ sock[k] = "open"
  /\ sock' = [sock EXCEPT ![k] = "closing"]
  /\ UNCHANGED <<cst, program, hookVars, testVars, conn, caller, eventVars, bereft>>

Lost == {h \in WaitHooks : StepOf(h).type # "waitDisconnect" /\ h \notin resolved}

\* fault: the loop over the hooks ends with the first one it removes
rejectFirstLost == rejectHooks(Earliest(Lost))

rejectLost == rejectHooks(Lost)

\* onClose of any connection: waitDisconnect hooks are resolved, the other
\* waits there are rejected; _connection keeps what it has
onClose(k) ==
  /\ sock[k] = "closing"
  /\ sock' = [sock EXCEPT ![k] = "gone"]
  /\ resolveHooks({h \in WaitHooks : StepOf(h).type = "waitDisconnect"})
  /\ rejectLost
  /\ bereft' = bereft \cup {h \in WaitHooks : h \notin resolved}
  /\ UNCHANGED <<cst, program, testVars, conn, caller, eventVars>>

\* stop() comes when no test case executes
doStop ==
  /\ cst \in {"started", "error"} /\ Quiet
  /\ cst' = "stopped"
  /\ sock' = Closing /\ conn' = 0
  /\ hooks' = <<>>
  /\ UNCHANGED <<program, resolved, rejected, testVars, caller, eventVars, bereft>>

-----------------------------------------------------------------------------

Base(A) == A /\ UNCHANGED <<connVars, eventVars, bereft>>

executeWaitEvent(t)      == Executes(t, "waitEvent") /\ WaitBegins(t)
executeWaitDisconnect(t) == Executes(t, "waitDisconnect") /\ WaitBegins(t)

executeStep(t) ==
  \/ executeConnect(t) \/ executeDisconnect(t) \/ executeSendMessage(t)
  \/ Base(executeWaitEvent(t)) \/ Base(executeWaitDisconnect(t))

Next ==
  \/ doStart \/ doStop
  \/ \E t \in Tests : Base(TestStep(t)) \/ executeStep(t)
  \/ \E k \in Connections :
       \/ Connected(k) \/ ConnectFails(k) \/ PeerCloses(k) \/ onClose(k)
       \/ \E e \in EventTypes : handleIncomingEvent(k, e)

\* a test case executes on, createClient settles, a socket that was closed says so
Progress(t) ==
  \/ Base(GoesOn(t)) \/ executeStep(t)

Settles(k) == Connected(k) \/ ConnectFails(k) \/ onClose(k)

-----------------------------------------------------------------------------
(* Properties                                                              *)

\* No connection of a stopped component is left open.
Released == cst = "stopped" => \A k \in Connections : sock[k] \notin {"connecting", "open"}

\* A wait that was there when a connection was lost is not left to its timeout.
LossEndsWaits == \A t \in Tests : pc[t] = "waiting" /\ Hook(t) \in bereft => Settled(Hook(t))

\* the waits of a test case for one type of event, before a wait
Before(h) == {g \in {h[1]} \X (1..(h[2] - 1)) : StepOf(g).pending /\ StepOf(g).event = StepOf(h).event}

\* Two waits of a test case for one type of event get their events in the
\* order of the steps.
ClaimsInOrder ==
  \A y \in claim, g \in UNION {Before(x[1]) : x \in claim} :
    g \in Before(y[1]) => ~HasHook(g) \/ \E x \in claim : x[1] = g /\ x[2] < y[2]

\* The end of a connection that was replaced rejects waits of the new one.
StaleCloseHarms == \E k \in Connections : sock[k] = "closing" /\ sock'[k] = "gone" /\ Up /\ rejected' # rejected
=============================================================================
