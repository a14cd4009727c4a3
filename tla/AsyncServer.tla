---------------------------- MODULE AsyncServer ----------------------------
(***************************************************************************)
(* The AsyncServer component: client connections, the links test steps     *)
(* name them by, and, in proxy mode, the pair of each client connection    *)
(* with a backend connection.                                              *)
(*                                                                         *)
(* Connections come and go on their own.  close() only asks for the end of *)
(* a socket: onClose runs later, when the socket reports it.  createClient *)
(* of the backend connection resolves some time after the client           *)
(* connected.  Message handlers (delay, transform, assert) are awaited.    *)
(***************************************************************************)
EXTENDS Integers, Sequences, FiniteSets

CONSTANTS
  Conns,        \* connection ids: the server adapter never reuses one
  Links,        \* link ids
  NoLink, NoConn,
  Proxy,        \* isProxy: a targetAddress is configured
  LinkHooks,    \* the registered onConnection and waitConnection hooks, in order
  WaitDisc,     \* the links of the registered waitDisconnect hooks, in order
  Watched,      \* links with a registered disconnect handler
  MaxMsgs,      \* bound on the messages and on the events of a connection
  HookOf,       \* [1..MaxMsgs -> kind of the hook matching that message]
  Failing,      \* TRUE when handlers throw and connection attempts fail
  EarlyClose,   \* TRUE when a client may leave while its backend connects
  LateArrival,  \* TRUE when a client may connect while doStop is executing
  SlowClose     \* TRUE when onClose may come after doStop's sleep(10)

\* a message: without hook, with an inspecting hook (no proxy() handler), with
\* a proxy() handler, or with a drop() handler
HookKinds == {"none", "observe", "proxy", "drop"}
LinkHook  == [kind : {"onConnection", "waitConnection"}, link : Links, accepts : SUBSET Conns]

ASSUME AsyncServerAssumption ==
  /\ NoLink \notin Links /\ NoConn \notin Conns
  /\ LinkHooks \in Seq(LinkHook) /\ WaitDisc \in Seq(Links) /\ Watched \subseteq Links
  /\ MaxMsgs \in Nat /\ HookOf \in [1..MaxMsgs -> HookKinds]
  /\ {Proxy, Failing, EarlyClose, LateArrival, SlowClose} \subseteq BOOLEAN

VARIABLES
  cst,       \* "created", "started", "stopping", "stopped"
  stopAt,    \* where doStop is: "none", "sleep", "adapter"
  client,    \* socket of the client: "none", "open", "closing", "gone"
  backend,   \* the pair's backend: "none", "connecting", "failed", "open", "closing", "gone"
  conns,     \* keys of _connections
  pairs,     \* keys of _connectionPairs
  ready,     \* the pair's ready deferred: "none", "pending", "resolved", "rejected"
  linkTo,    \* _linkToConnection
  linkOf,    \* _connectionToLink
  consumed,  \* _consumedConnectionHooks, as indices in LinkHooks
  linked,    \* waitConnection hooks resolved
  parted,    \* waitDisconnect hooks resolved, as indices in WaitDisc
  watching,  \* keys of _disconnectHandlers
  fate,      \* what became of each message received from a client
  waiters,   \* messages awaiting pair.ready, in the order they did
  sent,      \* messages sent to the backend, in order
  events,    \* events received from the backend so far
  relayed,   \* events sent on to the client, in order
  errs       \* TRUE when unhandledErrors is not empty

lifeVars == <<cst, stopAt>>
sockVars == <<client, backend, conns, pairs, ready>>
linkVars == <<linkTo, linkOf, consumed, linked, parted, watching>>
msgVars  == <<fate, waiters, sent, events, relayed>>
vars     == <<lifeVars, sockVars, linkVars, msgVars, errs>>

Nos   == 1..MaxMsgs
Fates == {"new", "handling", "waiting", "sent", "consumed", "dropped", "threw", "failed"}

TypeOK ==
  /\ cst \in {"created", "started", "stopping", "stopped"}
  /\ stopAt \in {"none", "sleep", "adapter"}
  /\ client \in [Conns -> {"none", "open", "closing", "gone"}]
  /\ backend \in [Conns -> {"none", "connecting", "failed", "open", "closing", "gone"}]
  /\ conns \subseteq Conns /\ pairs \subseteq Conns
  /\ ready \in [Conns -> {"none", "pending", "resolved", "rejected"}]
  /\ linkTo \in [Links -> Conns \cup {NoConn}] /\ linkOf \in [Conns -> Links \cup {NoLink}]
  /\ consumed \subseteq DOMAIN LinkHooks /\ linked \subseteq DOMAIN LinkHooks
  /\ parted \subseteq DOMAIN WaitDisc /\ watching \subseteq Links
  /\ fate \in [Conns -> [Nos -> Fates]]
  /\ waiters \in [Conns -> Seq(Nos)] /\ sent \in [Conns -> Seq(Nos)]
  /\ events \in [Conns -> 0..MaxMsgs] /\ relayed \in [Conns -> Seq(Nos)]
  /\ errs \in BOOLEAN

Init ==
  /\ cst = "created" /\ stopAt = "none"
  /\ client = [c \in Conns |-> "none"] /\ backend = [c \in Conns |-> "none"]
  /\ conns = {} /\ pairs = {} /\ ready = [c \in Conns |-> "none"]
  /\ linkTo = [l \in Links |-> NoConn] /\ linkOf = [c \in Conns |-> NoLink]
  /\ consumed = {} /\ linked = {} /\ parted = {} /\ watching = Watched
  /\ fate = [c \in Conns |-> [k \in Nos |-> "new"]]
  /\ waiters = [c \in Conns |-> <<>>] /\ sent = [c \in Conns |-> <<>>]
  /\ events = [c \in Conns |-> 0] /\ relayed = [c \in Conns |-> <<>>]
  /\ errs = FALSE

-----------------------------------------------------------------------------
(* Start and new connections                                               *)

DoStart ==
  /\ cst = "created" /\ cst' = "started"
  /\ UNCHANGED <<stopAt, sockVars, linkVars, msgVars, errs>>

\* the server adapter listens until doStop stops it, at its end
Listening == cst = "started" \/ (LateArrival /\ cst = "stopping" /\ stopAt # "adapter")

\* fault: _consumedConnectionHooks is not looked at
OpenAgain(c, kind) == {i \in DOMAIN LinkHooks :
  LinkHooks[i].kind = kind /\ c \in LinkHooks[i].accepts}

\* executeConnectionHooks takes the first onConnection hook that accepts the
\* connection, handleWaitConnectionSteps the first such waitConnection hook
Open(c, kind) == {i \in DOMAIN LinkHooks :
  LinkHooks[i].kind = kind /\ i \notin consumed /\ c \in LinkHooks[i].accepts}
FirstOf(S)    == {i \in S : \A j \in S : i <= j}
Taken(c)      == FirstOf(Open(c, "onConnection")) \cup FirstOf(Open(c, "waitConnection"))

\* linkConnection for the hooks taken: the waitConnection link comes last
LinkedBy(c, l) == \E i \in Taken(c) : LinkHooks[i].link = l
LastLink(c) ==
  LET T == {i \in Taken(c) : LinkHooks[i].kind = "waitConnection"}
      S == IF T # {} THEN T ELSE Taken(c)
  IN  IF S = {} THEN linkOf[c] ELSE LinkHooks[CHOOSE i \in S : TRUE].link

HandleNewConnection(c) ==
  /\ Listening /\ client[c] = "none"
  /\ client' = [client EXCEPT ![c] = "open"]
  /\ conns' = conns \cup {c}
  /\ linkTo' = [l \in Links |-> IF LinkedBy(c, l) THEN c ELSE linkTo[l]]
  /\ linkOf' = [linkOf EXCEPT ![c] = LastLink(c)]
  /\ consumed' = consumed \cup Taken(c)
  /\ linked' = linked \cup FirstOf(Open(c, "waitConnection"))
  /\ IF Proxy
     THEN /\ pairs' = pairs \cup {c}
          /\ backend' = [backend EXCEPT ![c] = "connecting"]
          /\ ready' = [ready EXCEPT ![c] = "pending"]
     ELSE UNCHANGED <<pairs, backend, ready>>
  /\ UNCHANGED <<lifeVars, parted, watching, msgVars, errs>>

\* fault: the client is closed only if its backend is there
ClosingPaired(c) == [client EXCEPT ![c] = IF @ = "open" /\ backend[c] = "open" THEN "closing" ELSE @]

\* close() of an adapter whose socket is open
Closing(c) == [client EXCEPT ![c] = IF @ = "open" THEN "closing" ELSE @]

\* fault: ready is never resolved
BackendUnready(c) ==
  /\ backend[c] = "connecting"
  /\ backend' = [backend EXCEPT ![c] = "open"]
  /\ UNCHANGED <<lifeVars, client, conns, pairs, ready, linkVars, msgVars, errs>>

\* ready.resolve() resumes every message awaiting it, in order, before any
\* other event; a pair removed meanwhile does not stop them
BackendConnected(c) ==
  /\ backend[c] = "connecting"
  /\ backend' = [backend EXCEPT ![c] = "open"]
  /\ ready' = [ready EXCEPT ![c] = "resolved"]
  /\ sent' = [sent EXCEPT ![c] = @ \o waiters[c]]
  /\ fate' = [fate EXCEPT ![c] = [k \in Nos |-> IF @[k] = "waiting" THEN "sent" ELSE @[k]]]
  /\ waiters' = [waiters EXCEPT ![c] = <<>>]
  /\ UNCHANGED <<lifeVars, client, conns, pairs, linkVars, events, relayed, errs>>

\* fault: the client is not told that there is no backend
BackendRefusedOnly(c) ==
  /\ backend[c] = "connecting" /\ Failing
  /\ backend' = [backend EXCEPT ![c] = "failed"]
  /\ ready' = [ready EXCEPT ![c] = "rejected"]
  /\ fate' = [fate EXCEPT ![c] = [k \in Nos |-> IF @[k] = "waiting" THEN "failed" ELSE @[k]]]
  /\ waiters' = [waiters EXCEPT ![c] = <<>>]
  /\ errs' = TRUE
  /\ UNCHANGED <<lifeVars, client, conns, pairs, linkVars, sent, events, relayed>>

BackendRefused(c) ==
  /\ backend[c] = "connecting" /\ Failing
  /\ backend' = [backend EXCEPT ![c] = "failed"]
  /\ ready' = [ready EXCEPT ![c] = "rejected"]
  /\ fate' = [fate EXCEPT ![c] = [k \in Nos |-> IF @[k] = "waiting" THEN "failed" ELSE @[k]]]
  /\ waiters' = [waiters EXCEPT ![c] = <<>>]
  /\ client' = Closing(c)
  /\ conns' = conns \ {c} /\ pairs' = pairs \ {c}
  /\ errs' = TRUE
  /\ UNCHANGED <<lifeVars, linkVars, sent, events, relayed>>

-----------------------------------------------------------------------------
(* Messages and events                                                     *)

\* fault: a message that has to wait goes before those that wait already
ForwardStacked(c, k) ==
  \/ /\ c \in pairs /\ ready[c] = "pending"
     /\ waiters' = [waiters EXCEPT ![c] = <<k>> \o @]
     /\ fate' = [fate EXCEPT ![c][k] = "waiting"]
     /\ UNCHANGED <<sent, errs>>
  \/ /\ c \in pairs /\ ready[c] = "resolved"
     /\ sent' = [sent EXCEPT ![c] = Append(@, k)]
     /\ fate' = [fate EXCEPT ![c][k] = "sent"]
     /\ UNCHANGED <<waiters, errs>>

\* forwardMessageToBackend, as far as it goes without waiting
Forward(c, k) ==
  \/ /\ c \in pairs /\ ready[c] = "pending"
     /\ waiters' = [waiters EXCEPT ![c] = Append(@, k)]
     /\ fate' = [fate EXCEPT ![c][k] = "waiting"]
     /\ UNCHANGED <<sent, errs>>
  \/ /\ c \in pairs /\ ready[c] = "resolved" /\ backend[c] = "open"
     /\ sent' = [sent EXCEPT ![c] = Append(@, k)]
     /\ fate' = [fate EXCEPT ![c][k] = "sent"]
     /\ UNCHANGED <<waiters, errs>>
  \/ /\ c \notin pairs \/ ready[c] = "rejected" \/ backend[c] # "open"
     /\ ~(c \in pairs /\ ready[c] = "pending")
     /\ fate' = [fate EXCEPT ![c][k] = "failed"] /\ errs' = TRUE
     /\ UNCHANGED <<waiters, sent>>

\* handleIncomingMessage, up to the first await
ReceiveMessage(c, k) ==
  /\ client[c] \in {"open", "closing"} /\ fate[c][k] = "new"
  /\ \A j \in 1..(k - 1) : fate[c][j] # "new"
  /\ \/ HookOf[k] = "none" /\ Proxy /\ Forward(c, k)
     \/ /\ HookOf[k] = "none" /\ ~Proxy
        /\ fate' = [fate EXCEPT ![c][k] = "consumed"]
        /\ UNCHANGED <<waiters, sent, errs>>
     \/ /\ HookOf[k] # "none"
        /\ fate' = [fate EXCEPT ![c][k] = "handling"]
        /\ UNCHANGED <<waiters, sent, errs>>
  /\ UNCHANGED <<lifeVars, sockVars, linkVars, events, relayed>>

\* the handlers of a hook end, in any order: only a proxy() handler makes the
\* message go on to the backend
HandlersDone(c, k) ==
  /\ fate[c][k] = "handling"
  /\ \/ HookOf[k] = "proxy" /\ Proxy /\ Forward(c, k)
     \/ /\ HookOf[k] = "observe" \/ (HookOf[k] = "proxy" /\ ~Proxy)
        /\ fate' = [fate EXCEPT ![c][k] = "consumed"]
        /\ UNCHANGED <<waiters, sent, errs>>
     \/ /\ HookOf[k] = "drop"
        /\ fate' = [fate EXCEPT ![c][k] = "dropped"]
        /\ UNCHANGED <<waiters, sent, errs>>
     \/ /\ Failing
        /\ fate' = [fate EXCEPT ![c][k] = "threw"] /\ errs' = TRUE
        /\ UNCHANGED <<waiters, sent>>
  /\ UNCHANGED <<lifeVars, sockVars, linkVars, events, relayed>>

\* handleBackendEvent without a hook: no pair any more, no client
ReceiveEvent(c) ==
  /\ backend[c] \in {"open", "closing"} /\ events[c] < MaxMsgs
  /\ events' = [events EXCEPT ![c] = @ + 1]
  /\ \/ c \notin pairs /\ UNCHANGED <<relayed, errs>>
     \/ /\ c \in pairs /\ client[c] = "open"
        /\ relayed' = [relayed EXCEPT ![c] = Append(@, events[c] + 1)]
        /\ UNCHANGED errs
     \/ c \in pairs /\ client[c] # "open" /\ errs' = TRUE /\ UNCHANGED relayed
  /\ UNCHANGED <<lifeVars, sockVars, linkVars, fate, waiters, sent>>

-----------------------------------------------------------------------------
(* The ends of connections                                                 *)

\* the remote client, or a disconnect step, closes the socket
ClientCloses(c) ==
  /\ client[c] = "open" /\ (EarlyClose \/ backend[c] # "connecting")
  /\ client' = Closing(c)
  /\ UNCHANGED <<lifeVars, backend, conns, pairs, ready, linkVars, msgVars, errs>>

\* fault: the watcher stays, for whoever has the link next
PartedWatching(L) ==
  /\ parted' = parted \cup FirstOf({i \in DOMAIN WaitDisc : WaitDisc[i] = L /\ i \notin parted})
  /\ UNCHANGED watching

\* the first waitDisconnect hook of the link resolves, its watcher is called
Parted(L) ==
  /\ parted' = parted \cup FirstOf({i \in DOMAIN WaitDisc : WaitDisc[i] = L /\ i \notin parted})
  /\ watching' = watching \ {L}

\* faults: the keys are mixed up; one map only; every link goes
UnlinkMixed(c, L) ==
  /\ linkTo' = [linkTo EXCEPT ![L] = NoConn]
  /\ linkOf' = [linkOf EXCEPT ![c] = NoConn]

UnlinkHalf(c, L) ==
  /\ linkOf' = [linkOf EXCEPT ![c] = NoLink] /\ UNCHANGED linkTo

UnlinkAll(c, L) ==
  /\ linkTo' = [l \in Links |-> NoConn]
  /\ linkOf' = [linkOf EXCEPT ![c] = NoLink]

Unlink(c, L) ==
  /\ linkTo' = [linkTo EXCEPT ![L] = NoConn]
  /\ linkOf' = [linkOf EXCEPT ![c] = NoLink]

\* fault: onClose leaves the backend connection alone
ClientOnCloseOnly(c) ==
  /\ client[c] = "closing"
  /\ client' = [client EXCEPT ![c] = "gone"]
  /\ conns' = conns \ {c} /\ pairs' = pairs \ {c}
  /\ UNCHANGED <<lifeVars, backend, ready, linkVars, msgVars, errs>>

\* the client's onClose: links and watchers first, then the maps, then the
\* backend, if the pair is still there and its backend known
ClientOnClose(c) ==
  /\ client[c] = "closing"
  /\ client' = [client EXCEPT ![c] = "gone"]
  /\ LET L == linkOf[c] IN
       IF L = NoLink THEN UNCHANGED linkVars
       ELSE Parted(L) /\ Unlink(c, L) /\ UNCHANGED <<consumed, linked>>
  /\ conns' = conns \ {c} /\ pairs' = pairs \ {c}
  /\ backend' = IF c \in pairs /\ backend[c] = "open"
                THEN [backend EXCEPT ![c] = "closing"] ELSE backend
  /\ UNCHANGED <<lifeVars, ready, msgVars, errs>>

BackendCloses(c) ==
  /\ backend[c] = "open"
  /\ backend' = [backend EXCEPT ![c] = "closing"]
  /\ UNCHANGED <<lifeVars, client, conns, pairs, ready, linkVars, msgVars, errs>>

BackendOnClose(c) ==
  /\ backend[c] = "closing"
  /\ backend' = [backend EXCEPT ![c] = "gone"]
  /\ client' = Closing(c)
  /\ conns' = conns \ {c} /\ pairs' = pairs \ {c}
  /\ UNCHANGED <<lifeVars, ready, linkVars, msgVars, errs>>

-----------------------------------------------------------------------------
(* doStop                                                                  *)

\* closes the known connections, then sleeps
DoStop ==
  /\ cst = "started" /\ (EarlyClose \/ \A c \in conns : backend[c] # "connecting")
  /\ cst' = "stopping" /\ stopAt' = "sleep"
  /\ client' = [c \in Conns |-> IF c \in conns THEN Closing(c)[c] ELSE client[c]]
  /\ UNCHANGED <<backend, conns, pairs, ready, linkVars, msgVars, errs>>

\* forgets everything; the server adapter closes what it still has and waits
SleepOver ==
  /\ stopAt = "sleep" /\ (SlowClose \/ \A c \in Conns : client[c] # "closing")
  /\ stopAt' = "adapter"
  /\ conns' = {} /\ pairs' = {}
  /\ linkTo' = [l \in Links |-> NoConn] /\ linkOf' = [c \in Conns |-> NoLink]
  /\ consumed' = {} /\ watching' = {}
  /\ client' = [c \in Conns |-> Closing(c)[c]]
  /\ UNCHANGED <<cst, backend, ready, linked, parted, msgVars, errs>>

AdapterStopped ==
  /\ stopAt = "adapter" /\ \A c \in Conns : client[c] \in {"none", "gone"}
  /\ cst' = "stopped" /\ stopAt' = "none"
  /\ UNCHANGED <<sockVars, linkVars, msgVars, errs>>

-----------------------------------------------------------------------------

StopStep == SleepOver \/ AdapterStopped

\* what sockets and promises report on their own
SocketStep(c) ==
  \/ BackendConnected(c) \/ BackendRefused(c) \/ ClientOnClose(c) \/ BackendOnClose(c)

MessageStep(c) ==
  \/ \E k \in Nos : ReceiveMessage(c, k) \/ HandlersDone(c, k)
  \/ ReceiveEvent(c)

Next ==
  \/ DoStart \/ DoStop \/ StopStep
  \/ \E c \in Conns :
       \/ HandleNewConnection(c) \/ ClientCloses(c) \/ BackendCloses(c)
       \/ SocketStep(c) \/ MessageStep(c)

Spec == Init /\ [][Next]_vars

\* sockets report their ends, attempts settle, timers fire
FairSpec == Spec /\ WF_vars(StopStep) /\ \A c \in Conns : WF_vars(SocketStep(c))
-----------------------------------------------------------------------------
(* Properties                                                              *)

BothOpen(c) == client[c] = "open" /\ backend[c] = "open"

\* A client whose backend is lost or never came is not left open: it would
\* wait for answers that nobody sends.
BackendLossCloses ==
  \A c \in Conns : backend[c] \in {"failed", "gone"} => client[c] # "open"

\* While both ends are open the proxy loses nothing: no message has failed to
\* be forwarded or still waits for the backend, whenever it arrived, and every
\* event of the backend has been relayed, in order.  What does get lost when
\* an end goes leaves an error.
NothingLost ==
  /\ \A c \in Conns : BothOpen(c) =>
       /\ \A k \in Nos : fate[c][k] \notin {"waiting", "failed"}
       /\ relayed[c] = [i \in 1..events[c] |-> i]
  /\ (\E c \in Conns : \E k \in DOMAIN fate[c] : fate[c][k] = "failed") => errs

\* Messages without hook reach the backend once, in the order the client sent
\* them, also those that came before the backend was connected.
ForwardedInOrder ==
  \A c \in Conns : \A i, j \in DOMAIN sent[c] :
    i < j /\ HookOf[sent[c][i]] = "none" /\ HookOf[sent[c][j]] = "none" =>
      sent[c][i] < sent[c][j]

\* The client has left for good, its backend connection is still held open.
Orphan(c) == client[c] = "gone" /\ backend[c] = "open"

\* onClose closes the backend connection of the pair ("In proxy mode, close
\* backend connection"): no client leaves an open one behind.
NoOrphanBackend == \A c \in Conns : ~Orphan(c)

\* A link, once made, names its connection as long as that is open: only a
\* newer connection or doStop takes it away.
LinkKept ==
  [][\A l \in Links, c \in Conns :
       linkTo[l] = c /\ client[c] = "open" /\ linkTo'[l] # c =>
         linkTo'[l] # NoConn \/ stopAt' = "adapter"]_vars

\* A link never names a connection that is gone, so that sendEvent and
\* disconnect by link do not act on a dead one, and both maps agree.
LinksLive ==
  \A l \in Links : linkTo[l] # NoConn =>
    client[linkTo[l]] # "gone" /\ linkOf[linkTo[l]] = l

\* Who waits for the end of a linked connection is told when it ends: a
\* waitDisconnect hook of the link resolves, its watcher runs and is dropped.
TellsParting ==
  \A l \in Links, c \in Conns :
    linkTo[l] = c /\ client[c] = "closing" /\ client'[c] = "gone" =>
      /\ l \notin watching'
      /\ {i \in DOMAIN WaitDisc : WaitDisc[i] = l} \subseteq parted \/ parted' # parted
PartingTold == [][TellsParting]_vars

\* An onConnection or waitConnection hook links one connection, so the
\* connections linked so far are never more than the hooks used for them.
OneConnectionPerHook ==
  Cardinality({c \in Conns : linkOf[c] # NoLink}) <= Cardinality(consumed)

\* ready is rejected only under a message that awaits it: a rejection nobody
\* observes escalates to unhandledRejection.
RejectionObserved ==
  [][\A c \in Conns : ready[c] = "pending" /\ ready'[c] = "rejected" => waiters[c] # <<>>]_vars

\* In proxy mode an inspected message passes through: while both ends are
\* open none was consumed by a hook that only looks at it.
InspectedPassesThrough ==
  \A c \in Conns : BothOpen(c) => \A k \in Nos : fate[c][k] # "consumed"

\* doStop ends whatever clients and backends do.
StopEnds == (cst = "stopping") ~> (cst = "stopped")

\* A client that leaves takes its backend connection with it.
BackendReleased ==
  \A c \in Conns : (client[c] = "gone") ~> (backend[c] \in {"none", "failed", "gone"})
=============================================================================
