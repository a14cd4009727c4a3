-------------------------- MODULE AsyncServerSteps --------------------------
(***************************************************************************)
(* The steps and hooks of the AsyncServer component: messages of clients   *)
(* (and, in a proxy, events of backends) that meet hooks whose handlers    *)
(* are awaited, connections that meet waitConnection and onConnection      *)
(* hooks, and steps that name connections by links.  AsyncServer.tla has   *)
(* the proxy's connections.                                                *)
(***************************************************************************)
EXTENDS ComponentHooks

CONSTANTS
  Conns, NoConn,
  Links, NoLink,
  MessageTypes,
  SlowHandlers,   \* whether messages, ends of connections and stop() come while handlers run
  MaxMessages     \* bound on the messages that arrive

VARIABLES
  sock,        \* a connection: "none", "open", "closing", "gone"
  linkTo,      \* _linkToConnection
  linkOf,      \* _connectionToLink
  consumed,    \* _consumedConnectionHooks
  handling,    \* the messages whose handlers run: [hook, conn, no]
  seen,        \* how many messages were received
  claim,       \* the messages that hooks took, as a set of <<hook, number>>
  told         \* the hooks for which handlers ended or a link's connection went

linkVars == <<linkTo, linkOf, consumed>>
msgVars  == <<handling, seen, claim>>
vars     == <<baseVars, sock, linkVars, msgVars, told>>

(* the steps of AsyncServerStepBuilder; `outcome` is what the handlers come to *)
StepData(type, mode, event, link, outcome) ==
  [type |-> type, mode |-> mode, pending |-> mode = "wait", strict |-> TRUE,
   event |-> event, link |-> link, outcome |-> outcome]

onMessage(e, l, outcome)   == StepData("onMessage", "hook", e, l, outcome)
waitMessage(e, l, outcome) == StepData("waitMessage", "wait", e, l, outcome)
onConnection(l)            == StepData("onConnection", "hook", "none", l, "pass")
waitConnection(l)          == StepData("waitConnection", "wait", "none", l, "pass")
waitDisconnect(l)          == StepData("waitDisconnect", "wait", "none", l, "pass")
sendEvent(l)               == StepData("sendEvent", "action", "none", l, "pass")
broadcast                  == StepData("broadcast", "action", "none", NoLink, "pass")
disconnect(l)              == StepData("disconnect", "action", "none", l, "pass")

TypeOK ==
  /\ BaseTypeOK
  /\ sock \in [Conns -> {"none", "open", "closing", "gone"}]
  /\ linkTo \in [Links -> Conns \cup {NoConn}] /\ linkOf \in [Conns -> Links \cup {NoLink}]
  /\ seen \in 0..MaxMessages

Init ==
  /\ BaseInit
  /\ sock = [c \in Conns |-> "none"]
  /\ linkTo = [l \in Links |-> NoConn]
  /\ linkOf = [c \in Conns |-> NoLink]
  /\ consumed = {}
  /\ handling = {}
  /\ seen = 0
  /\ claim = {}
  /\ told = {}

doStart ==
  /\ cst = "created"
  /\ cst' = "started"
  /\ UNCHANGED <<program, hookVars, testVars, sock, linkVars, msgVars, told>>

Hooks(type) == {h \in {hooks[i] : i \in DOMAIN hooks} : StepOf(h).type = type}
Calm        == SlowHandlers \/ handling = {}

-----------------------------------------------------------------------------
(* Connections                                                             *)

linkConnection(c, l) ==
  /\ linkTo' = [linkTo EXCEPT ![l] = c]
  /\ linkOf' = [linkOf EXCEPT ![c] = l]

Arriving(c) == sock[c] = "none" /\ cst = "started" /\ Calm

\* the onConnection hooks come first, then the waitConnection hooks; either
\* kind gives the connection the link of one hook
handleNewConnection(c) ==
  LET on   == Earliest(Hooks("onConnection") \ consumed)
      wait == FirstMatch(Hooks("waitConnection") \ consumed)
      both == on \cup wait
      name == StepOf(CHOOSE h \in (IF wait # {} THEN wait ELSE on) : TRUE).link
  IN  /\ Arriving(c)
      /\ sock' = [sock EXCEPT ![c] = "open"]
      /\ linkTo' = [l \in Links |-> IF \E h \in both : StepOf(h).link = l THEN c ELSE linkTo[l]]
      /\ linkOf' = IF both = {} THEN linkOf ELSE [linkOf EXCEPT ![c] = name]
      /\ consumed' = consumed \cup both
      /\ resolveHooks(wait)
      /\ UNCHANGED <<cst, program, hooks, rejected, testVars, msgVars, told>>

\* the client, or an error of its socket
ClientCloses(c) ==
  /\ sock[c] = "open"
  /\ sock' = [sock EXCEPT ![c] = "closing"]
  /\ UNCHANGED <<cst, program, hookVars, testVars, linkVars, msgVars, told>>

\* the first waitDisconnect hook of the link goes on; the link is forgotten
onClose(c) ==
  /\ sock[c] = "closing" /\ Calm
  /\ sock' = [sock EXCEPT ![c] = "gone"]
  /\ LET l     == linkOf[c]
         first == FirstMatch({h \in Hooks("waitDisconnect") : StepOf(h).link = l})
     IN  IF l = NoLink
           THEN UNCHANGED <<linkTo, linkOf, resolved, told>>
           ELSE /\ resolveHooks(first)
                /\ told' = told \cup first
                /\ linkTo' = [linkTo EXCEPT ![l] = NoConn]
                /\ linkOf' = [linkOf EXCEPT ![c] = NoLink]
  /\ UNCHANGED <<cst, program, hooks, rejected, testVars, consumed, msgVars>>

-----------------------------------------------------------------------------
(* Messages                                                                *)

\* the hooks of the type whose link, if they name one, is this connection's
findMatchingHookWithConnection(e, c) ==
  FirstMatch({h \in {hooks[i] : i \in DOMAIN hooks} :
                StepOf(h).event = e /\ (StepOf(h).link # NoLink => linkTo[StepOf(h).link] = c)})

\* up to the first await; what no hook takes is ignored or goes to the backend
handleIncomingMessage(c, e) ==
  /\ sock[c] \in {"open", "closing"} /\ seen < MaxMessages /\ Calm
  /\ seen' = seen + 1
  /\ LET H == findMatchingHookWithConnection(e, c)
     IN  \/ /\ handling' = handling \cup {[hook |-> h, conn |-> c, no |-> seen + 1] : h \in H}
            /\ claim' = claim \cup {<<h, seen + 1>> : h \in H}
         \/ Failing /\ UNCHANGED <<handling, claim>>     \* it does not validate
  /\ UNCHANGED <<cst, program, hookVars, testVars, sock, linkVars, told>>

Ended(m) == handling' = handling \ {m} /\ told' = told \cup {m.hook}

\* a hook with a link links the connection, then its wait goes on
HandlersPass(m) ==
  /\ StepOf(m.hook).outcome = "pass"
  /\ Ended(m)
  /\ IF StepOf(m.hook).link = NoLink
       THEN UNCHANGED <<linkTo, linkOf>>
       ELSE linkConnection(m.conn, StepOf(m.hook).link)
  /\ resolveHooks({m.hook})
  /\ UNCHANGED <<cst, program, hooks, rejected, testVars, sock, consumed, seen, claim>>

\* drop() throws: the wait is rejected
HandlersDrop(m) ==
  /\ StepOf(m.hook).outcome = "drop"
  /\ Ended(m)
  /\ IF StepOf(m.hook).pending THEN rejectHooks({m.hook}) ELSE UNCHANGED <<hooks, rejected>>
  /\ UNCHANGED <<cst, program, resolved, testVars, sock, linkVars, seen, claim>>

HandlersThrow(m) ==
  /\ Failing
  /\ Ended(m)
  /\ IF StepOf(m.hook).pending THEN rejectHooks({m.hook}) ELSE UNCHANGED <<hooks, rejected>>
  /\ UNCHANGED <<cst, program, resolved, testVars, sock, linkVars, seen, claim>>

-----------------------------------------------------------------------------
(* Steps                                                                   *)

Linked(l)    == linkTo[l] # NoConn
Reachable(l) == Linked(l) /\ sock[linkTo[l]] = "open"

\* the link names a connection that _connections still has; send() needs it open
executeSendEvent(t) ==
  /\ Executes(t, "sendEvent")
  /\ \/ Reachable(Step(t).link) /\ StepPasses(t)
     \/ (Failing \/ ~Reachable(Step(t).link)) /\ StepFails(t)
  /\ UNCHANGED <<cst, program, hookVars, sock, linkVars, msgVars, told>>

\* one connection that is closing fails the step
executeBroadcast(t) ==
  /\ Executes(t, "broadcast")
  /\ \/ (\A c \in Conns : sock[c] # "closing") /\ StepPasses(t)
     \/ (Failing \/ \E c \in Conns : sock[c] = "closing") /\ StepFails(t)
  /\ UNCHANGED <<cst, program, hookVars, sock, linkVars, msgVars, told>>

executeDisconnect(t) ==
  /\ Executes(t, "disconnect")
  /\ LET c == linkTo[Step(t).link]
     IN  IF Linked(Step(t).link)
           THEN /\ sock' = IF sock[c] = "open" THEN [sock EXCEPT ![c] = "closing"] ELSE sock
                /\ StepPasses(t)
           ELSE StepFails(t) /\ UNCHANGED sock
  /\ UNCHANGED <<cst, program, hookVars, linkVars, msgVars, told>>

\* stop() comes when no test case executes
doStop ==
  /\ cst = "started" /\ Quiet /\ Calm
  /\ cst' = "stopped"
  /\ sock' = [c \in Conns |-> IF sock[c] = "none" THEN "none" ELSE "gone"]
  /\ linkTo' = [l \in Links |-> NoConn]
  /\ linkOf' = [c \in Conns |-> NoLink]
  /\ consumed' = {}
  /\ hooks' = <<>>
  /\ UNCHANGED <<program, resolved, rejected, testVars, msgVars, told>>

-----------------------------------------------------------------------------

Base(A) == A /\ UNCHANGED <<sock, linkVars, msgVars, told>>

executeWaitMessage(t)    == Executes(t, "waitMessage") /\ WaitBegins(t)
executeWaitConnection(t) == Executes(t, "waitConnection") /\ WaitBegins(t)
executeWaitDisconnect(t) == Executes(t, "waitDisconnect") /\ WaitBegins(t)

executeStep(t) ==
  \/ Base(executeWaitMessage(t) \/ executeWaitConnection(t) \/ executeWaitDisconnect(t))
  \/ executeSendEvent(t) \/ executeBroadcast(t) \/ executeDisconnect(t)

HandlersEnd(m) == HandlersPass(m) \/ HandlersDrop(m) \/ HandlersThrow(m)

Next ==
  \/ doStart \/ doStop
  \/ \E t \in Tests : Base(TestStep(t)) \/ executeStep(t)
  \/ \E c \in Conns :
       \/ handleNewConnection(c) \/ ClientCloses(c) \/ onClose(c)
       \/ \E e \in MessageTypes : handleIncomingMessage(c, e)
  \/ \E m \in handling : HandlersEnd(m)

\* a test case executes on
Progress(t) ==
  Base(GoesOn(t)) \/ executeStep(t)

-----------------------------------------------------------------------------
(* Properties                                                              *)

\* A wait whose message was handled, or whose link's connection is gone, is
\* not left to its timeout.
ServedWaitsEnd == \A t \in Tests : pc[t] = "waiting" /\ Hook(t) \in told => Settled(Hook(t))

\* A link names a connection that is there.
LinksLive == \A l \in Links : Linked(l) => sock[linkTo[l]] \in {"open", "closing"}

\* A waiting hook takes one message.
ClaimedOnce == \A x, y \in claim : StepOf(x[1]).pending /\ x[1] = y[1] => x[2] = y[2]
=============================================================================
