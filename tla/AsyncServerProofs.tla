-------------------------- MODULE AsyncServerProofs --------------------------
(***************************************************************************)
(* Proofs about AsyncServer, for any connections, links, hooks and number  *)
(* of messages.  The inductive invariant has a part for the sockets of a   *)
(* pair (PairInv), one for what becomes of messages and events (MsgInv),   *)
(* one for their order (OrderInv) and one for the links (LinkInv).         *)
(***************************************************************************)
EXTENDS AsyncServer, WellFoundedInduction, TLAPS

Asc(s) == \A i, j \in DOMAIN s :
  i < j /\ HookOf[s[i]] = "none" /\ HookOf[s[j]] = "none" => s[i] < s[j]

PairOK(c) ==
  /\ client[c] = "none" => backend[c] = "none" /\ ready[c] = "none"
  /\ ready[c] = "pending" <=> backend[c] = "connecting"
  /\ backend[c] = "open" => ready[c] = "resolved"
  /\ backend[c] \in {"failed", "gone"} => client[c] # "open"
  /\ client[c] = "open" /\ backend[c] \in {"connecting", "open"} => c \in pairs

\* ready is settled once, with the backend; a client without backend is not
\* open; a pair is forgotten only with one of its ends.
PairInv == \A c \in Conns : PairOK(c)

MsgOK(c) ==
  /\ waiters[c] # <<>> => ready[c] = "pending"
  /\ \A k \in Nos :
       /\ client[c] = "none" => fate[c][k] = "new"
       /\ fate[c][k] = "waiting" => ready[c] = "pending"
       /\ fate[c][k] = "failed" =>
            errs /\ ~(client[c] = "open" /\ backend[c] \in {"connecting", "open"})
  /\ client[c] \in {"none", "open"} /\ backend[c] \in {"none", "connecting", "open"} =>
       relayed[c] = [i \in 1..events[c] |-> i]

\* Only a message of a backend that is connecting waits, only one without an
\* end fails, and only an event without an end is not relayed.
MsgInv == \A c \in Conns : MsgOK(c)

OrderOK(c) ==
  /\ \A k \in Nos : fate[c][k] # "new" => \A j \in 1..(k - 1) : fate[c][j] # "new"
  /\ \A i \in DOMAIN sent[c] : fate[c][sent[c][i]] # "new"
  /\ \A i \in DOMAIN waiters[c] : fate[c][waiters[c][i]] # "new"
  /\ Asc(sent[c]) /\ Asc(waiters[c])
  /\ \A i \in DOMAIN sent[c], j \in DOMAIN waiters[c] :
       HookOf[sent[c][i]] = "none" /\ HookOf[waiters[c][j]] = "none" => sent[c][i] < waiters[c][j]

\* What was sent came before what waits, and both before what is still new.
OrderInv == \A c \in Conns : OrderOK(c)

\* The hooks of both kinds that may take one connection give it one link: a
\* second link of a connection would stay when the connection ends.
OneLinkEach ==
  \A i, j \in DOMAIN LinkHooks :
    LinkHooks[i].accepts \cap LinkHooks[j].accepts # {} /\ LinkHooks[i].kind # LinkHooks[j].kind =>
      LinkHooks[i].link = LinkHooks[j].link

\* LinksLive, and that a connection yet to come has no link.
LinkInv ==
  /\ LinksLive
  /\ \A c \in Conns : client[c] = "none" => linkOf[c] = NoLink

-----------------------------------------------------------------------------
(* Types                                                                   *)

\* The initial values have their types.
LEMMA InitType == Init => TypeOK
<1> SUFFICES ASSUME Init PROVE TypeOK
  OBVIOUS
<1>1. MaxMsgs \in Nat /\ 0 \in 0..MaxMsgs
  BY AsyncServerAssumption DEF AsyncServerAssumption
<1>2. events \in [Conns -> 0..MaxMsgs]
  BY <1>1 DEF Init
<1>3. Watched \subseteq Links
  BY AsyncServerAssumption DEF AsyncServerAssumption
<1>4. /\ fate \in [Conns -> [Nos -> Fates]]
      /\ waiters \in [Conns -> Seq(Nos)] /\ sent \in [Conns -> Seq(Nos)]
      /\ relayed \in [Conns -> Seq(Nos)]
  BY DEF Init, Fates
<1> QED  BY <1>2, <1>3, <1>4 DEF Init, TypeOK

\* A hook names a link.
LEMMA HookType ==
  ASSUME NEW i \in DOMAIN LinkHooks
  PROVE  LinkHooks[i] \in LinkHook /\ LinkHooks[i].link \in Links /\ i \in Int
<1>1. LinkHooks \in Seq(LinkHook)
  BY AsyncServerAssumption DEF AsyncServerAssumption
<1>2. LinkHooks[i] \in LinkHook /\ i \in Int
  BY <1>1
<1> QED  BY <1>2 DEF LinkHook

\* What a connection is given is a link.
LEMMA LastLinkType ==
  ASSUME TypeOK, NEW c \in Conns
  PROVE  LastLink(c) \in Links \cup {NoLink}
<1>1. Taken(c) \subseteq DOMAIN LinkHooks
  BY DEF Taken, FirstOf, Open
<1> DEFINE T == {i \in Taken(c) : LinkHooks[i].kind = "waitConnection"}
          S == IF T # {} THEN T ELSE Taken(c)
<1>2. S \subseteq DOMAIN LinkHooks
  BY <1>1
<1>3. CASE S = {}
  BY <1>3 DEF LastLink, TypeOK
<1>4. CASE S # {}
  <2>1. (CHOOSE i \in S : TRUE) \in DOMAIN LinkHooks
    BY <1>2, <1>4
  <2>2. LinkHooks[CHOOSE i \in S : TRUE].link \in Links
    BY <2>1, HookType
  <2> QED  BY <1>4, <2>2 DEF LastLink
<1> QED  BY <1>3, <1>4

\* Forward gives the message one of the fates.
LEMMA ForwardType ==
  ASSUME TypeOK, NEW c \in Conns, NEW k \in Nos, Forward(c, k)
  PROVE  /\ fate' \in [Conns -> [Nos -> Fates]]
         /\ waiters' \in [Conns -> Seq(Nos)] /\ sent' \in [Conns -> Seq(Nos)]
         /\ errs' \in BOOLEAN
<1>1. waiters[c] \in Seq(Nos) /\ sent[c] \in Seq(Nos)
  BY DEF TypeOK
<1>2. Append(waiters[c], k) \in Seq(Nos) /\ Append(sent[c], k) \in Seq(Nos)
  BY <1>1
<1>3. \E f \in Fates : fate' = [fate EXCEPT ![c][k] = f]
  BY DEF Forward, Fates
<1>4. fate' \in [Conns -> [Nos -> Fates]]
  BY <1>3 DEF TypeOK
<1>5. waiters' = waiters \/ waiters' = [waiters EXCEPT ![c] = Append(waiters[c], k)]
  BY DEF Forward
<1>6. sent' = sent \/ sent' = [sent EXCEPT ![c] = Append(sent[c], k)]
  BY DEF Forward
<1>7. waiters' \in [Conns -> Seq(Nos)] /\ sent' \in [Conns -> Seq(Nos)]
  <2>1. waiters \in [Conns -> Seq(Nos)] /\ sent \in [Conns -> Seq(Nos)]
    BY DEF TypeOK
  <2>2. waiters' \in [Conns -> Seq(Nos)]
    BY <1>2, <1>5, <2>1
  <2>3. sent' \in [Conns -> Seq(Nos)]
    BY <1>2, <1>6, <2>1
  <2> QED  BY <2>2, <2>3
<1>8. errs' \in BOOLEAN
  BY DEF TypeOK, Forward
<1> QED  BY <1>4, <1>7, <1>8

\* The steps of the component and of its connections keep the types.
LEMMA TypeStep ==
  ASSUME TypeOK, [Next]_vars
  PROVE  TypeOK'
<1>1. CASE DoStart
  BY <1>1 DEF TypeOK, DoStart, sockVars, linkVars, msgVars
<1>2. CASE DoStop
  BY <1>2 DEF TypeOK, DoStop, Closing, linkVars, msgVars
<1>3. CASE SleepOver
  BY <1>3 DEF TypeOK, SleepOver, Closing, msgVars
<1>4. CASE AdapterStopped
  BY <1>4 DEF TypeOK, AdapterStopped, sockVars, linkVars, msgVars
<1>5. ASSUME NEW c \in Conns, HandleNewConnection(c)
      PROVE  TypeOK'
  <2>1. /\ linkTo' \in [Links -> Conns \cup {NoConn}]
        /\ linkOf' \in [Conns -> Links \cup {NoLink}]
    <3>1. linkTo' \in [Links -> Conns \cup {NoConn}]
      <4>1. linkTo \in [Links -> Conns \cup {NoConn}]
        BY DEF TypeOK
      <4>2. linkTo' = [l \in Links |-> IF LinkedBy(c, l) THEN c ELSE linkTo[l]]
        BY <1>5 DEF HandleNewConnection
      <4>3. \A l \in Links :
              (IF LinkedBy(c, l) THEN c ELSE linkTo[l]) \in Conns \cup {NoConn}
        BY <4>1, Zenon
      <4> HIDE <1>5
      <4> QED  BY <4>2, <4>3, Zenon
    <3>2. linkOf' \in [Conns -> Links \cup {NoLink}]
      BY <1>5, LastLinkType DEF TypeOK, HandleNewConnection
    <3> QED  BY <3>1, <3>2
  <2>2. consumed' \subseteq DOMAIN LinkHooks /\ linked' \subseteq DOMAIN LinkHooks
    BY <1>5 DEF TypeOK, HandleNewConnection, Taken, FirstOf, Open
  <2>3. /\ client' \in [Conns -> {"none", "open", "closing", "gone"}]
        /\ backend' \in [Conns -> {"none", "connecting", "failed", "open", "closing", "gone"}]
        /\ ready' \in [Conns -> {"none", "pending", "resolved", "rejected"}]
        /\ conns' \subseteq Conns /\ pairs' \subseteq Conns
    <3>1. /\ client' = [client EXCEPT ![c] = "open"] /\ conns' = conns \cup {c}
          /\ pairs' = pairs \cup {c} \/ pairs' = pairs
          /\ backend' = [backend EXCEPT ![c] = "connecting"] \/ backend' = backend
          /\ ready' = [ready EXCEPT ![c] = "pending"] \/ ready' = ready
      BY <1>5 DEF HandleNewConnection
    <3> HIDE <1>5
    <3> QED  BY <3>1 DEF TypeOK
  <2> QED  BY <1>5, <2>1, <2>2, <2>3 DEF TypeOK, HandleNewConnection, lifeVars, msgVars
<1>6. ASSUME NEW c \in Conns, ClientCloses(c) \/ BackendCloses(c) \/ BackendOnClose(c)
      PROVE  TypeOK'
  BY <1>6 DEF TypeOK, ClientCloses, BackendCloses, BackendOnClose, Closing, lifeVars,
     linkVars, msgVars
<1>7. ASSUME NEW c \in Conns, BackendConnected(c)
      PROVE  TypeOK'
  <2>1. waiters[c] \in Seq(Nos) /\ sent[c] \in Seq(Nos) /\ <<>> \in Seq(Nos)
    BY DEF TypeOK
  <2>2. sent[c] \o waiters[c] \in Seq(Nos)
    BY <2>1
  <2>3. waiters' \in [Conns -> Seq(Nos)] /\ sent' \in [Conns -> Seq(Nos)]
    BY <1>7, <2>1, <2>2 DEF TypeOK, BackendConnected
  <2>4. fate' \in [Conns -> [Nos -> Fates]]
    BY <1>7 DEF TypeOK, BackendConnected, Fates
  <2> QED  BY <1>7, <2>3, <2>4 DEF TypeOK, BackendConnected, lifeVars, linkVars
<1>8. ASSUME NEW c \in Conns, BackendRefused(c)
      PROVE  TypeOK'
  <2>1. waiters' \in [Conns -> Seq(Nos)]
    BY <1>8 DEF TypeOK, BackendRefused
  <2>2. fate' \in [Conns -> [Nos -> Fates]]
    BY <1>8 DEF TypeOK, BackendRefused, Fates
  <2> QED  BY <1>8, <2>1, <2>2 DEF TypeOK, BackendRefused, Closing, lifeVars, linkVars
<1>9. ASSUME NEW c \in Conns, ClientOnClose(c)
      PROVE  TypeOK'
  <2>1. /\ client' \in [Conns -> {"none", "open", "closing", "gone"}]
        /\ backend' \in [Conns -> {"none", "connecting", "failed", "open", "closing", "gone"}]
        /\ conns' \subseteq Conns /\ pairs' \subseteq Conns
    BY <1>9 DEF TypeOK, ClientOnClose
  <2>2. /\ linkTo' \in [Links -> Conns \cup {NoConn}]
        /\ linkOf' \in [Conns -> Links \cup {NoLink}]
        /\ parted' \subseteq DOMAIN WaitDisc /\ watching' \subseteq Links
        /\ consumed' = consumed /\ linked' = linked
    <3>1. CASE linkOf[c] = NoLink
      BY <1>9, <3>1 DEF TypeOK, ClientOnClose, linkVars
    <3>2. CASE linkOf[c] # NoLink
      <4>1. /\ Parted(linkOf[c]) /\ Unlink(c, linkOf[c])
            /\ consumed' = consumed /\ linked' = linked
        BY <1>9, <3>2 DEF ClientOnClose
      <4>2. parted' \subseteq DOMAIN WaitDisc /\ watching' \subseteq Links
        BY <4>1 DEF TypeOK, Parted, FirstOf
      <4>3. linkTo' \in [Links -> Conns \cup {NoConn}]
        <5>1. linkTo \in [Links -> Conns \cup {NoConn}]
          BY DEF TypeOK
        <5>2. linkTo' = [linkTo EXCEPT ![linkOf[c]] = NoConn]
          BY <4>1 DEF Unlink
        <5> QED  BY <5>1, <5>2
      <4>4. linkOf' \in [Conns -> Links \cup {NoLink}]
        BY <4>1 DEF TypeOK, Unlink
      <4> QED  BY <4>1, <4>2, <4>3, <4>4
    <3> QED  BY <3>1, <3>2
  <2> QED  BY <1>9, <2>1, <2>2 DEF TypeOK, ClientOnClose, lifeVars, msgVars
<1>10. ASSUME NEW c \in Conns, NEW k \in Nos, ReceiveMessage(c, k) \/ HandlersDone(c, k)
       PROVE  TypeOK'
  <2>1. /\ fate' \in [Conns -> [Nos -> Fates]]
        /\ waiters' \in [Conns -> Seq(Nos)] /\ sent' \in [Conns -> Seq(Nos)]
        /\ errs' \in BOOLEAN
    <3>1. CASE Forward(c, k)
      BY <3>1, ForwardType
    <3>2. CASE ~Forward(c, k)
      <4>1. /\ \/ fate' = [fate EXCEPT ![c][k] = "consumed"]
               \/ fate' = [fate EXCEPT ![c][k] = "handling"]
               \/ fate' = [fate EXCEPT ![c][k] = "dropped"]
               \/ fate' = [fate EXCEPT ![c][k] = "threw"]
            /\ waiters' = waiters /\ sent' = sent /\ (errs' = errs \/ errs' = TRUE)
        <5>1. CASE ReceiveMessage(c, k)
          BY <5>1, <3>2 DEF ReceiveMessage
        <5>2. CASE HandlersDone(c, k)
          <6>1. \/ Forward(c, k)
                \/ fate' = [fate EXCEPT ![c][k] = "consumed"] /\ UNCHANGED <<waiters, sent, errs>>
                \/ fate' = [fate EXCEPT ![c][k] = "dropped"] /\ UNCHANGED <<waiters, sent, errs>>
                \/ /\ fate' = [fate EXCEPT ![c][k] = "threw"] /\ errs' = TRUE
                   /\ UNCHANGED <<waiters, sent>>
            BY <5>2, Zenon DEF HandlersDone
          <6> QED  BY <6>1, <3>2
        <5> QED  BY <1>10, <5>1, <5>2
      <4>2. fate' \in [Conns -> [Nos -> Fates]]
        <5>1. fate \in [Conns -> [Nos -> Fates]]
          BY DEF TypeOK
        <5>2. \E f \in Fates : fate' = [fate EXCEPT ![c][k] = f]
          BY <4>1 DEF Fates
        <5> QED  BY <5>1, <5>2
      <4> QED  BY <4>1, <4>2 DEF TypeOK
    <3> QED  BY <3>1, <3>2
  <2> QED  BY <1>10, <2>1 DEF TypeOK, ReceiveMessage, HandlersDone, lifeVars, sockVars, linkVars
<1>11. ASSUME NEW c \in Conns, ReceiveEvent(c)
       PROVE  TypeOK'
  <2>1. MaxMsgs \in Nat
    BY AsyncServerAssumption DEF AsyncServerAssumption
  <2>2. events[c] + 1 \in 0..MaxMsgs /\ events[c] + 1 \in Nos /\ relayed[c] \in Seq(Nos)
    BY <1>11, <2>1 DEF TypeOK, ReceiveEvent, Nos
  <2>3. Append(relayed[c], events[c] + 1) \in Seq(Nos)
    BY <2>2
  <2> QED  BY <1>11, <2>2, <2>3 DEF TypeOK, ReceiveEvent, lifeVars, sockVars, linkVars
<1>12. CASE UNCHANGED vars
  BY <1>12 DEF TypeOK, vars, lifeVars, sockVars, linkVars, msgVars
<1> QED  BY <1>1, <1>2, <1>3, <1>4, <1>5, <1>6, <1>7, <1>8, <1>9, <1>10, <1>11, <1>12
         DEF Next, StopStep, SocketStep, MessageStep

\* Every variable of AsyncServer keeps its type.
THEOREM AsyncServerTypeCorrect == Spec => []TypeOK
<1>1. TypeOK /\ [Next]_vars => TypeOK'
  BY TypeStep
<1> QED  BY InitType, <1>1, PTL DEF Spec

-----------------------------------------------------------------------------
(* The sockets of a pair                                                   *)

\* Each step leaves every connection in a state of PairOK.
LEMMA PairStep ==
  ASSUME TypeOK, PairInv, [Next]_vars
  PROVE  PairInv'
<1> SUFFICES ASSUME NEW d \in Conns PROVE PairOK(d)'
  BY DEF PairInv
<1>1. PairOK(d)
  BY DEF PairInv
<1>2. /\ client \in [Conns -> {"none", "open", "closing", "gone"}]
      /\ backend \in [Conns -> {"none", "connecting", "failed", "open", "closing", "gone"}]
      /\ ready \in [Conns -> {"none", "pending", "resolved", "rejected"}]
  BY DEF TypeOK
<1>3. CASE DoStop
  BY <1>1, <1>2, <1>3 DEF DoStop, Closing, PairOK
<1>4. CASE SleepOver
  BY <1>1, <1>2, <1>4 DEF SleepOver, Closing, PairOK
<1>5. ASSUME NEW c \in Conns, HandleNewConnection(c)
      PROVE  PairOK(d)'
  <2>1. /\ client[c] = "none" /\ client' = [client EXCEPT ![c] = "open"]
        /\ \/ /\ pairs' = pairs \cup {c}
              /\ backend' = [backend EXCEPT ![c] = "connecting"]
              /\ ready' = [ready EXCEPT ![c] = "pending"]
           \/ pairs' = pairs /\ backend' = backend /\ ready' = ready
    BY <1>5 DEF HandleNewConnection
  <2> HIDE <1>5
  <2> QED  BY <1>1, <1>2, <2>1 DEF PairOK
<1>6. ASSUME NEW c \in Conns, ClientCloses(c) \/ BackendCloses(c)
      PROVE  PairOK(d)'
  BY <1>1, <1>2, <1>6 DEF ClientCloses, BackendCloses, Closing, PairOK
<1>7. ASSUME NEW c \in Conns, BackendConnected(c)
      PROVE  PairOK(d)'
  BY <1>1, <1>2, <1>7 DEF BackendConnected, PairOK
<1>8. ASSUME NEW c \in Conns, BackendRefused(c)
      PROVE  PairOK(d)'
  BY <1>1, <1>2, <1>8 DEF BackendRefused, Closing, PairOK
<1>9. ASSUME NEW c \in Conns, ClientOnClose(c)
      PROVE  PairOK(d)'
  BY <1>1, <1>2, <1>9 DEF ClientOnClose, PairOK
<1>10. ASSUME NEW c \in Conns, BackendOnClose(c)
       PROVE  PairOK(d)'
  BY <1>1, <1>2, <1>10 DEF BackendOnClose, Closing, PairOK
<1>11. CASE UNCHANGED sockVars
  BY <1>1, <1>11 DEF sockVars, PairOK
<1>12. ASSUME NEW c \in Conns, MessageStep(c)
       PROVE  UNCHANGED sockVars
  BY <1>12 DEF MessageStep, ReceiveMessage, HandlersDone, ReceiveEvent
<1>13. DoStart \/ AdapterStopped \/ UNCHANGED vars => UNCHANGED sockVars
  BY DEF DoStart, AdapterStopped, vars
<1> QED  BY <1>3, <1>4, <1>5, <1>6, <1>7, <1>8, <1>9, <1>10, <1>11, <1>12, <1>13
         DEF Next, StopStep, SocketStep

\* The invariants that need nothing but the sockets, kept by every step.
LEMMA PairInvariant == Spec => [](TypeOK /\ PairInv)
<1>1. Init => PairInv
  BY DEF Init, PairInv, PairOK
<1>2. TypeOK /\ PairInv /\ [Next]_vars => (TypeOK /\ PairInv)'
  BY TypeStep, PairStep
<1> QED  BY InitType, <1>1, <1>2, PTL DEF Spec

\* Whatever fails or closes first, and also while the component stops, a client
\* whose backend is lost or never came is not left open.
THEOREM LostBackendCloses == Spec => []BackendLossCloses
<1>1. PairInv => BackendLossCloses
  BY DEF PairInv, PairOK, BackendLossCloses
<1> QED  BY PairInvariant, <1>1, PTL

-----------------------------------------------------------------------------
(* The links                                                               *)

\* All hooks that take one connection give it the same link.
LEMMA SameLink ==
  ASSUME OneLinkEach, NEW c \in Conns, NEW i \in Taken(c), NEW j \in Taken(c)
  PROVE  LinkHooks[i].link = LinkHooks[j].link
<1>1. /\ i \in DOMAIN LinkHooks /\ c \in LinkHooks[i].accepts
      /\ j \in DOMAIN LinkHooks /\ c \in LinkHooks[j].accepts
  BY DEF Taken, FirstOf, Open
<1>2. CASE LinkHooks[i].kind # LinkHooks[j].kind
  BY <1>1, <1>2 DEF OneLinkEach
<1>3. CASE LinkHooks[i].kind = LinkHooks[j].kind
  <2>1. i <= j /\ j <= i
    BY <1>3 DEF Taken, FirstOf, Open
  <2>2. i \in Int /\ j \in Int
    BY <1>1, HookType
  <2> QED  BY <2>1, <2>2
<1> QED  BY <1>2, <1>3

\* What a connection gets is one link in both maps.
LEMMA LinkedOnce ==
  ASSUME OneLinkEach, NEW c \in Conns, NEW l \in Links, LinkedBy(c, l)
  PROVE  LastLink(c) = l
<1> DEFINE T == {i \in Taken(c) : LinkHooks[i].kind = "waitConnection"}
          S == IF T # {} THEN T ELSE Taken(c)
<1>1. PICK i \in Taken(c) : LinkHooks[i].link = l
  BY DEF LinkedBy
<1>2. S # {} /\ S \subseteq Taken(c)
  BY <1>1
<1>3. (CHOOSE j \in S : TRUE) \in Taken(c)
  BY <1>2
<1>4. LinkHooks[CHOOSE j \in S : TRUE].link = l
  BY <1>1, <1>3, SameLink
<1> QED  BY <1>2, <1>4 DEF LastLink

\* Each step keeps the maps of links in agreement and clear of dead connections.
LEMMA LinkStep ==
  ASSUME TypeOK, LinkInv, OneLinkEach, [Next]_vars
  PROVE  LinkInv'
<1>1. NoLink \notin Links /\ NoConn \notin Conns
  BY AsyncServerAssumption DEF AsyncServerAssumption
<1>2. /\ client \in [Conns -> {"none", "open", "closing", "gone"}]
      /\ linkTo \in [Links -> Conns \cup {NoConn}] /\ linkOf \in [Conns -> Links \cup {NoLink}]
  BY DEF TypeOK
<1> USE <1>1, <1>2 DEF LinkInv, LinksLive
<1>3. CASE /\ UNCHANGED <<linkTo, linkOf>>
           /\ \A c \in Conns : /\ client'[c] = "gone" => client[c] = "gone"
                               /\ client'[c] = "none" => client[c] = "none"
  BY <1>3
<1>4. CASE DoStop
  BY <1>4, <1>3 DEF DoStop, Closing, linkVars
<1>5. CASE SleepOver
  BY <1>5 DEF SleepOver
<1>6. ASSUME NEW c \in Conns, HandleNewConnection(c)
      PROVE  LinkInv'
  <2>1. /\ client[c] = "none" /\ client' = [client EXCEPT ![c] = "open"]
        /\ linkTo' = [l \in Links |-> IF LinkedBy(c, l) THEN c ELSE linkTo[l]]
        /\ linkOf' = [linkOf EXCEPT ![c] = LastLink(c)]
    BY <1>6 DEF HandleNewConnection
  <2>2. ASSUME NEW l \in Links, linkTo'[l] # NoConn
        PROVE  client'[linkTo'[l]] # "gone" /\ linkOf'[linkTo'[l]] = l
    <3>1. CASE LinkedBy(c, l)
      <4>1. linkTo'[l] = c
        BY <2>1, <3>1
      <4>2. LastLink(c) = l
        BY <3>1, LinkedOnce
      <4> QED  BY <2>1, <4>1, <4>2
    <3>2. CASE ~LinkedBy(c, l)
      <4>1. linkTo'[l] = linkTo[l]
        BY <2>1, <3>2
      <4>2. linkTo[l] # c
        BY <2>1, <2>2, <4>1
      <4> QED  BY <2>1, <2>2, <4>1, <4>2
    <3> QED  BY <3>1, <3>2
  <2>3. ASSUME NEW b \in Conns, client'[b] = "none"
        PROVE  linkOf'[b] = NoLink
    BY <2>1, <2>3
  <2> QED  BY <2>2, <2>3
<1>7. ASSUME NEW c \in Conns, ClientOnClose(c)
      PROVE  LinkInv'
  <2>1. client' = [client EXCEPT ![c] = "gone"]
    BY <1>7 DEF ClientOnClose
  <2>2. CASE linkOf[c] = NoLink
    <3>1. UNCHANGED <<linkTo, linkOf>>
      BY <1>7, <2>2 DEF ClientOnClose, linkVars
    <3>2. \A l \in Links : linkTo[l] # c
      BY <2>2
    <3> QED  BY <2>1, <3>1, <3>2
  <2>3. CASE linkOf[c] # NoLink
    <3>1. /\ linkTo' = [linkTo EXCEPT ![linkOf[c]] = NoConn]
          /\ linkOf' = [linkOf EXCEPT ![c] = NoLink]
      BY <1>7, <2>3 DEF ClientOnClose, Unlink
    <3>2. \A l \in Links : linkTo[l] = c => l = linkOf[c]
      OBVIOUS
    <3> QED  BY <2>1, <3>1, <3>2
  <2> QED  BY <2>2, <2>3
<1>8. ASSUME NEW c \in Conns,
             ClientCloses(c) \/ BackendCloses(c) \/ BackendConnected(c) \/ BackendRefused(c)
               \/ BackendOnClose(c) \/ MessageStep(c)
      PROVE  LinkInv'
  <2>1. UNCHANGED <<linkTo, linkOf>> /\ (client' = client \/ client' = Closing(c))
    BY <1>8 DEF ClientCloses, BackendCloses, BackendConnected, BackendRefused, BackendOnClose,
       MessageStep, ReceiveMessage, HandlersDone, ReceiveEvent, linkVars, sockVars
  <2> QED  BY <1>3, <2>1 DEF Closing
<1>9. CASE DoStart \/ AdapterStopped \/ UNCHANGED vars
  BY <1>3, <1>9 DEF DoStart, AdapterStopped, vars, linkVars, sockVars
<1> QED  BY <1>4, <1>5, <1>6, <1>7, <1>8, <1>9 DEF Next, StopStep, SocketStep

\* A non-empty set of the hooks of a list has a first.
LEMMA HasFirst ==
  ASSUME NEW S \in SUBSET (DOMAIN WaitDisc), S # {}
  PROVE  FirstOf(S) # {}
<1>1. S \subseteq Nat
  <2>1. WaitDisc \in Seq(Links)
    BY AsyncServerAssumption DEF AsyncServerAssumption
  <2> QED  BY <2>1
<1> DEFINE Less == {p \in Nat \X Nat : p[1] < p[2]}
<1>2. IsWellFoundedOn(Less, Nat)
  BY NatLessThanWellFounded DEF OpToRel
<1> HIDE DEF Less
<1>3. PICK i \in S : \A j \in S : ~(<<j, i>> \in Less)
  BY <1>1, <1>2, WFMin
<1>4. \A j \in S : i <= j
  <2> SUFFICES ASSUME NEW j \in S, ~(i <= j) PROVE FALSE
    OBVIOUS
  <2>1. <<j, i>> \in Nat \X Nat /\ <<j, i>>[1] < <<j, i>>[2]
    BY <1>1
  <2>2. <<j, i>> \in Less
    BY <2>1, Zenon DEF Less
  <2> QED  BY <1>3, <2>2
<1> QED  BY <1>4 DEF FirstOf

\* A link never names a connection that is gone, and both maps agree, however
\* connections come, leave and get a link that another had; provided no hook of
\* the other kind gives the same connection another link.
THEOREM LinksStayLive == ASSUME OneLinkEach PROVE Spec => []LinksLive
<1>1. Init => LinkInv
  BY DEF Init, LinkInv, LinksLive
<1>2. TypeOK /\ LinkInv /\ [Next]_vars => (TypeOK /\ LinkInv)'
  BY TypeStep, LinkStep
<1>3. LinkInv => LinksLive
  BY DEF LinkInv
<1> QED  BY InitType, <1>1, <1>2, <1>3, PTL DEF Spec

\* Who waits for the end of a linked connection is told of it when it ends: the
\* watcher of the link is called and a waitDisconnect hook resolves, if any is
\* left, for any connections, links and hooks.
THEOREM PartingAlwaysTold == ASSUME OneLinkEach PROVE Spec => PartingTold
<1>1. Init => LinkInv
  BY DEF Init, LinkInv, LinksLive
<1>2. TypeOK /\ LinkInv /\ [Next]_vars => (TypeOK /\ LinkInv)'
  BY TypeStep, LinkStep
<1>3. ASSUME TypeOK, LinkInv, [Next]_vars
      PROVE  [TellsParting]_vars
  <2> SUFFICES ASSUME NEW l \in Links, NEW c \in Conns,
                      linkTo[l] = c, client[c] = "closing", client'[c] = "gone"
               PROVE  /\ l \notin watching'
                      /\ {i \in DOMAIN WaitDisc : WaitDisc[i] = l} \subseteq parted \/ parted' # parted
    BY DEF TellsParting
  <2>1. ClientOnClose(c)
    BY <1>3 DEF TypeOK, Next, StopStep, SocketStep, MessageStep, DoStart, DoStop, SleepOver,
       AdapterStopped, HandleNewConnection, ClientCloses, BackendCloses, BackendConnected,
       BackendRefused, ClientOnClose, BackendOnClose, ReceiveMessage, HandlersDone, ReceiveEvent,
       Closing, vars, sockVars
  <2>2. linkOf[c] = l /\ l # NoLink
    BY <1>3, AsyncServerAssumption DEF LinkInv, LinksLive, AsyncServerAssumption
  <2>3. Parted(l)
    BY <2>1, <2>2 DEF ClientOnClose
  <2> DEFINE Left == {i \in DOMAIN WaitDisc : WaitDisc[i] = l /\ i \notin parted}
  <2>4. l \notin watching' /\ parted' = parted \cup FirstOf(Left)
    BY <2>3 DEF Parted
  <2>5. CASE Left = {}
    BY <2>4, <2>5
  <2>6. CASE Left # {}
    <3>1. FirstOf(Left) # {} /\ FirstOf(Left) \subseteq Left
      BY <2>6, HasFirst DEF FirstOf
    <3> QED  BY <2>4, <3>1
  <2> QED  BY <2>5, <2>6
<1> QED  BY InitType, <1>1, <1>2, <1>3, PTL DEF Spec, PartingTold

-----------------------------------------------------------------------------
(* What becomes of messages and events                                     *)

\* What Forward does to the message, and what it leaves alone.
LEMMA ForwardOutcome ==
  ASSUME TypeOK, NEW c \in Conns, NEW k \in Nos, Forward(c, k)
  PROVE  \/ /\ ready[c] = "pending" /\ fate' = [fate EXCEPT ![c][k] = "waiting"]
            /\ waiters' = [waiters EXCEPT ![c] = Append(@, k)] /\ sent' = sent /\ errs' = errs
         \/ /\ ready[c] = "resolved" /\ fate' = [fate EXCEPT ![c][k] = "sent"]
            /\ sent' = [sent EXCEPT ![c] = Append(@, k)] /\ waiters' = waiters /\ errs' = errs
         \/ /\ c \notin pairs \/ ready[c] = "rejected" \/ backend[c] # "open"
            /\ ~(c \in pairs /\ ready[c] = "pending")
            /\ fate' = [fate EXCEPT ![c][k] = "failed"] /\ errs' = TRUE
            /\ waiters' = waiters /\ sent' = sent
  BY DEF Forward

\* A message that comes is forwarded, handed to its hook or consumed.
LEMMA ReceiveOutcome ==
  ASSUME TypeOK, NEW c \in Conns, NEW k \in Nos, ReceiveMessage(c, k)
  PROVE  /\ client[c] \in {"open", "closing"} /\ fate[c][k] = "new"
         /\ \A j \in 1..(k - 1) : fate[c][j] # "new"
         /\ UNCHANGED <<lifeVars, sockVars, linkVars, events, relayed>>
         /\ \/ Forward(c, k)
            \/ /\ \/ fate' = [fate EXCEPT ![c][k] = "consumed"]
                  \/ fate' = [fate EXCEPT ![c][k] = "handling"]
               /\ waiters' = waiters /\ sent' = sent /\ errs' = errs
  BY DEF ReceiveMessage

\* A message whose handlers end had one that a client sent; only one with a
\* hook is forwarded then.
LEMMA HandlersOutcome ==
  ASSUME TypeOK, NEW c \in Conns, NEW k \in Nos, HandlersDone(c, k)
  PROVE  /\ fate[c][k] = "handling"
         /\ UNCHANGED <<lifeVars, sockVars, linkVars, events, relayed>>
         /\ \/ HookOf[k] = "proxy" /\ Forward(c, k)
            \/ /\ \/ fate' = [fate EXCEPT ![c][k] = "consumed"]
                  \/ fate' = [fate EXCEPT ![c][k] = "dropped"]
                  \/ fate' = [fate EXCEPT ![c][k] = "threw"]
               /\ waiters' = waiters /\ sent' = sent /\ (errs' = errs \/ errs' = TRUE)
<1>1. fate[c][k] = "handling" /\ UNCHANGED <<lifeVars, sockVars, linkVars, events, relayed>>
  BY DEF HandlersDone
<1>2. \/ HookOf[k] = "proxy" /\ Forward(c, k)
      \/ fate' = [fate EXCEPT ![c][k] = "consumed"] /\ UNCHANGED <<waiters, sent, errs>>
      \/ fate' = [fate EXCEPT ![c][k] = "dropped"] /\ UNCHANGED <<waiters, sent, errs>>
      \/ /\ fate' = [fate EXCEPT ![c][k] = "threw"] /\ errs' = TRUE
         /\ UNCHANGED <<waiters, sent>>
  BY Zenon DEF HandlersDone
<1> QED  BY <1>1, <1>2

\* Each step leaves every connection in a state of MsgOK.
LEMMA MsgStep ==
  ASSUME TypeOK, PairInv, MsgInv, [Next]_vars
  PROVE  MsgInv'
<1> SUFFICES ASSUME NEW d \in Conns PROVE MsgOK(d)'
  BY DEF MsgInv
<1>1. PairOK(d) /\ MsgOK(d)
  BY DEF PairInv, MsgInv
<1>2. /\ client \in [Conns -> {"none", "open", "closing", "gone"}]
      /\ backend \in [Conns -> {"none", "connecting", "failed", "open", "closing", "gone"}]
      /\ ready \in [Conns -> {"none", "pending", "resolved", "rejected"}]
      /\ fate \in [Conns -> [Nos -> Fates]] /\ errs \in BOOLEAN
      /\ waiters \in [Conns -> Seq(Nos)] /\ relayed \in [Conns -> Seq(Nos)]
      /\ events \in [Conns -> 0..MaxMsgs]
  BY DEF TypeOK
<1>3. ASSUME UNCHANGED <<ready, msgVars, errs>>,
             client'[d] = "none" => client[d] = "none",
             client'[d] = "open" => client[d] \in {"none", "open"},
             backend'[d] = backend[d] \/ backend'[d] \notin {"none", "connecting", "open"}
               \/ (client[d] = "none" /\ backend'[d] = "connecting")
      PROVE  MsgOK(d)'
  BY <1>1, <1>2, <1>3 DEF MsgOK, PairOK, msgVars
<1>4. CASE DoStop
  BY <1>2, <1>3, <1>4 DEF DoStop, Closing
<1>5. CASE SleepOver
  BY <1>2, <1>3, <1>5 DEF SleepOver, Closing
<1>6. ASSUME NEW c \in Conns, HandleNewConnection(c)
      PROVE  MsgOK(d)'
  <2>1. /\ client[c] = "none" /\ client' = [client EXCEPT ![c] = "open"] /\ UNCHANGED <<msgVars, errs>>
        /\ \/ /\ backend' = [backend EXCEPT ![c] = "connecting"]
              /\ ready' = [ready EXCEPT ![c] = "pending"]
           \/ backend' = backend /\ ready' = ready
    BY <1>6 DEF HandleNewConnection
  <2>2. CASE c = d
    <3>1. \A k \in Nos : fate[d][k] = "new"
      BY <1>1, <2>1, <2>2 DEF MsgOK
    <3>2. waiters[d] = <<>> /\ relayed[d] = [i \in 1..events[d] |-> i]
      BY <1>1, <2>1, <2>2 DEF MsgOK, PairOK
    <3>3. client'[d] = "open"
      BY <1>2, <2>1, <2>2
    <3> QED  BY <2>1, <3>1, <3>2, <3>3 DEF MsgOK, msgVars
  <2>3. CASE c # d
    <3>1. client'[d] = client[d] /\ backend'[d] = backend[d] /\ ready'[d] = ready[d]
      BY <1>2, <2>1, <2>3
    <3> QED  BY <1>1, <2>1, <3>1 DEF MsgOK, msgVars
  <2> QED  BY <2>2, <2>3
<1>7. ASSUME NEW c \in Conns,
             ClientCloses(c) \/ BackendCloses(c) \/ ClientOnClose(c) \/ BackendOnClose(c)
      PROVE  MsgOK(d)'
  <2>1. UNCHANGED <<ready, msgVars, errs>>
    BY <1>7 DEF ClientCloses, BackendCloses, ClientOnClose, BackendOnClose
  <2>2. /\ client'[d] = "none" => client[d] = "none"
        /\ client'[d] = "open" => client[d] = "open"
    BY <1>2, <1>7 DEF ClientCloses, BackendCloses, ClientOnClose, BackendOnClose, Closing
  <2>3. backend'[d] = backend[d] \/ backend'[d] \in {"closing", "gone"}
    BY <1>2, <1>7 DEF ClientCloses, BackendCloses, ClientOnClose, BackendOnClose
  <2> QED  BY <1>3, <2>1, <2>2, <2>3
<1>8. ASSUME NEW c \in Conns, BackendConnected(c) \/ BackendRefused(c)
      PROVE  MsgOK(d)'
  <2>1. CASE c # d
    <3>1. /\ fate'[d] = fate[d] /\ waiters'[d] = waiters[d] /\ ready'[d] = ready[d]
          /\ backend'[d] = backend[d] /\ client'[d] = client[d]
          /\ relayed' = relayed /\ events' = events /\ (errs' = errs \/ errs' = TRUE)
      BY <1>2, <1>8, <2>1 DEF BackendConnected, BackendRefused, Closing
    <3> QED  BY <1>1, <3>1 DEF MsgOK
  <2>2. CASE c = d /\ BackendConnected(c)
    <3>1. /\ waiters'[d] = <<>> /\ backend[d] = "connecting" /\ backend'[d] = "open"
          /\ fate'[d] = [k \in Nos |-> IF fate[d][k] = "waiting" THEN "sent" ELSE fate[d][k]]
          /\ client' = client /\ relayed' = relayed /\ events' = events /\ errs' = errs
      BY <1>2, <2>2 DEF BackendConnected
    <3> QED  BY <1>1, <3>1 DEF MsgOK, PairOK
  <2>3. CASE c = d /\ BackendRefused(c)
    <3>1. /\ waiters'[d] = <<>> /\ backend[d] = "connecting" /\ backend'[d] = "failed"
          /\ fate'[d] = [k \in Nos |-> IF fate[d][k] = "waiting" THEN "failed" ELSE fate[d][k]]
          /\ client'[d] \in {client[d], "closing"} /\ errs' = TRUE
      BY <1>2, <2>3 DEF BackendRefused, Closing
    <3> QED  BY <1>1, <3>1 DEF MsgOK, PairOK
  <2> QED  BY <1>8, <2>1, <2>2, <2>3
<1>9. ASSUME NEW c \in Conns, NEW k \in Nos, ReceiveMessage(c, k) \/ HandlersDone(c, k)
      PROVE  MsgOK(d)'
  <2>1. /\ client[c] # "none"
        /\ UNCHANGED <<sockVars, events, relayed>>
    <3>1. fate[c][k] = "handling" => client[c] # "none"
      BY DEF MsgInv, MsgOK
    <3> QED  BY <1>9, <3>1, ReceiveOutcome, HandlersOutcome
  <2>2. \/ Forward(c, k)
        \/ /\ \E f \in {"handling", "consumed", "dropped", "threw"} :
                fate' = [fate EXCEPT ![c][k] = f]
           /\ waiters' = waiters /\ (errs' = errs \/ errs' = TRUE)
    BY <1>9, ReceiveOutcome, HandlersOutcome
  <2>3. \E f \in {"handling", "consumed", "dropped", "threw", "waiting", "sent", "failed"} :
          /\ fate' = [fate EXCEPT ![c][k] = f]
          /\ f = "waiting" => ready[c] = "pending"
          /\ f = "failed" => /\ errs'
                             /\ c \notin pairs \/ ready[c] = "rejected" \/ backend[c] # "open"
                             /\ ~(c \in pairs /\ ready[c] = "pending")
          /\ waiters' = waiters
               \/ (ready[c] = "pending" /\ waiters' = [waiters EXCEPT ![c] = Append(@, k)])
          /\ errs' = errs \/ errs' = TRUE
    <3>1. CASE Forward(c, k)
      BY <3>1, ForwardOutcome
    <3> QED  BY <2>2, <3>1
  <2> HIDE <1>9
  <2>4. CASE c # d
    BY <1>1, <1>2, <2>1, <2>3, <2>4 DEF MsgOK, sockVars
  <2>5. CASE c = d
    BY <1>1, <1>2, <2>1, <2>3, <2>5 DEF MsgOK, PairOK, sockVars
  <2> QED  BY <2>4, <2>5
<1>10. ASSUME NEW c \in Conns, ReceiveEvent(c)
       PROVE  MsgOK(d)'
  <2>1. /\ backend[c] \in {"open", "closing"} /\ events' = [events EXCEPT ![c] = @ + 1]
        /\ UNCHANGED <<sockVars, fate, waiters>> /\ (errs' = errs \/ errs' = TRUE)
        /\ \/ c \notin pairs \/ client[c] # "open"
           \/ relayed' = [relayed EXCEPT ![c] = Append(@, events[c] + 1)]
        /\ relayed' = relayed \/ relayed' = [relayed EXCEPT ![c] = Append(@, events[c] + 1)]
    BY <1>10 DEF ReceiveEvent
  <2>2. CASE c # d
    <3>1. relayed'[d] = relayed[d] /\ events'[d] = events[d]
      BY <1>2, <2>1, <2>2
    <3>2. client' = client /\ backend' = backend /\ ready' = ready
      BY <2>1 DEF sockVars
    <3>3. fate' = fate /\ waiters' = waiters /\ (errs => errs')
      BY <2>1
    <3> HIDE <1>10
    <3> QED  BY <1>1, <3>1, <3>2, <3>3 DEF MsgOK
  <2>3. CASE c = d
    <3>1. ASSUME client[d] \in {"none", "open"}, backend[d] \in {"none", "connecting", "open"}
          PROVE  relayed'[d] = [i \in 1..events'[d] |-> i]
      <4>1. client[d] = "open" /\ d \in pairs
        BY <1>1, <2>1, <2>3, <3>1 DEF PairOK
      <4>2. relayed'[d] = Append(relayed[d], events[d] + 1) /\ events'[d] = events[d] + 1
        BY <1>2, <2>1, <2>3, <4>1
      <4>3. relayed[d] = [i \in 1..events[d] |-> i] /\ events[d] \in Nat
        BY <1>1, <1>2, <3>1 DEF MsgOK
      <4>4. events'[d] \in Nat /\ Len(relayed[d]) = events[d]
        BY <4>2, <4>3
      <4> QED  BY <4>2, <4>3, <4>4
    <3>2. client' = client /\ backend' = backend /\ ready' = ready
      BY <2>1 DEF sockVars
    <3> QED  BY <1>1, <2>1, <3>1, <3>2 DEF MsgOK
  <2> QED  BY <2>2, <2>3
<1>11. CASE DoStart \/ AdapterStopped \/ UNCHANGED vars
  <2>1. UNCHANGED <<sockVars, msgVars, errs>>
    BY <1>11 DEF DoStart, AdapterStopped, vars
  <2> QED  BY <1>1, <2>1 DEF sockVars, msgVars, MsgOK
<1> QED  BY <1>4, <1>5, <1>6, <1>7, <1>8, <1>9, <1>10, <1>11
         DEF Next, StopStep, SocketStep, MessageStep

\* At first there are no messages and no events.
LEMMA InitMsg == Init => MsgInv
<1> SUFFICES ASSUME Init, NEW c \in Conns PROVE MsgOK(c)
  BY DEF MsgInv
<1>1. relayed[c] = <<>> /\ events[c] = 0
  BY DEF Init
<1>2. relayed[c] = [i \in 1..events[c] |-> i]
  BY <1>1
<1> QED  BY <1>2 DEF Init, MsgOK

\* While both ends are open nothing is lost, for any number of messages and
\* connections; what is lost later is an error.
THEOREM ProxyLosesNothing == Spec => []NothingLost
<1>1. Init => MsgInv
  BY InitMsg
<1>2. Init => PairInv
  BY DEF Init, PairInv, PairOK
<1>3. (TypeOK /\ PairInv /\ MsgInv) /\ [Next]_vars => (TypeOK /\ PairInv /\ MsgInv)'
  BY TypeStep, PairStep, MsgStep
<1>4. TypeOK /\ PairInv /\ MsgInv => NothingLost
  <2> SUFFICES ASSUME TypeOK, PairInv, MsgInv PROVE NothingLost
    OBVIOUS
  <2>1. \A c \in Conns : DOMAIN fate[c] = Nos
    BY DEF TypeOK
  <2>2. ASSUME NEW c \in Conns, BothOpen(c)
        PROVE  /\ \A k \in Nos : fate[c][k] \notin {"waiting", "failed"}
               /\ relayed[c] = [i \in 1..events[c] |-> i]
    BY <2>2 DEF PairInv, PairOK, MsgInv, MsgOK, BothOpen
  <2>3. (\E c \in Conns : \E k \in DOMAIN fate[c] : fate[c][k] = "failed") => errs
    BY <2>1 DEF MsgInv, MsgOK
  <2> QED  BY <2>2, <2>3 DEF NothingLost
<1> QED  BY InitType, <1>1, <1>2, <1>3, <1>4, PTL DEF Spec

-----------------------------------------------------------------------------
(* The order of messages                                                   *)

\* The messages before a message are messages.
LEMMA EarlierNos == \A k \in Nos : \A j \in 1..(k - 1) : j \in Nos
  BY AsyncServerAssumption DEF AsyncServerAssumption, Nos

\* Appending a message that is none of the hookless, or later than they all,
\* keeps a sequence ascending.
LEMMA AscAppend ==
  ASSUME NEW s \in Seq(Nos), NEW k \in Nos, Asc(s),
         HookOf[k] = "none" => \A i \in DOMAIN s : s[i] < k
  PROVE  Asc(Append(s, k))
<1>1. /\ DOMAIN Append(s, k) = 1..(Len(s) + 1) /\ DOMAIN s = 1..Len(s) /\ Len(s) \in Nat
      /\ Append(s, k)[Len(s) + 1] = k
      /\ \A i \in 1..Len(s) : Append(s, k)[i] = s[i]
  OBVIOUS
<1> QED  BY <1>1 DEF Asc

\* What is in a concatenation is in one of its parts.
LEMMA ConcatParts ==
  ASSUME NEW s \in Seq(Nos), NEW w \in Seq(Nos), NEW i \in DOMAIN (s \o w)
  PROVE  \/ i \in DOMAIN s /\ (s \o w)[i] = s[i]
         \/ \E j \in DOMAIN w : (s \o w)[i] = w[j]
<1>1. /\ i \in 1..(Len(s) + Len(w)) /\ Len(s) \in Nat /\ Len(w) \in Nat
      /\ DOMAIN s = 1..Len(s) /\ DOMAIN w = 1..Len(w)
  OBVIOUS
<1>2. CASE i <= Len(s)
  BY <1>1, <1>2
<1>3. CASE i > Len(s)
  <2>1. i - Len(s) \in DOMAIN w /\ (s \o w)[i] = w[i - Len(s)]
    BY <1>1, <1>3
  <2> QED  BY <2>1
<1> QED  BY <1>1, <1>2, <1>3

\* So does appending a sequence whose messages come after those before.
LEMMA AscConcat ==
  ASSUME NEW s \in Seq(Nos), NEW w \in Seq(Nos), Asc(s), Asc(w),
         \A i \in DOMAIN s, j \in DOMAIN w :
           HookOf[s[i]] = "none" /\ HookOf[w[j]] = "none" => s[i] < w[j]
  PROVE  Asc(s \o w)
<1>1. /\ DOMAIN (s \o w) = 1..(Len(s) + Len(w)) /\ Len(s) \in Nat /\ Len(w) \in Nat
      /\ DOMAIN s = 1..Len(s) /\ DOMAIN w = 1..Len(w)
      /\ \A i \in 1..(Len(s) + Len(w)) :
           (s \o w)[i] = IF i <= Len(s) THEN s[i] ELSE w[i - Len(s)]
  OBVIOUS
<1>2. SUFFICES ASSUME NEW i \in DOMAIN (s \o w), NEW j \in DOMAIN (s \o w), i < j,
                      HookOf[(s \o w)[i]] = "none", HookOf[(s \o w)[j]] = "none"
               PROVE  (s \o w)[i] < (s \o w)[j]
  BY DEF Asc
<1>3. CASE j <= Len(s)
  BY <1>1, <1>2, <1>3 DEF Asc
<1>4. CASE i <= Len(s) /\ j > Len(s)
  BY <1>1, <1>2, <1>4
<1>5. CASE i > Len(s)
  <2>1. /\ i - Len(s) \in DOMAIN w /\ j - Len(s) \in DOMAIN w /\ i - Len(s) < j - Len(s)
        /\ (s \o w)[i] = w[i - Len(s)] /\ (s \o w)[j] = w[j - Len(s)]
    BY <1>1, <1>2, <1>5
  <2> QED  BY <1>2, <2>1 DEF Asc
<1> QED  BY <1>1, <1>3, <1>4, <1>5

\* A new message without hook, or one that a hook forwards, finds those sent
\* and those waiting before it.
LEMMA OrderForward ==
  ASSUME TypeOK, MsgInv, OrderInv, NEW c \in Conns, NEW k \in Nos, Forward(c, k),
         \/ fate[c][k] = "new" /\ \A j \in 1..(k - 1) : fate[c][j] # "new"
         \/ fate[c][k] # "new" /\ HookOf[k] # "none"
  PROVE  OrderOK(c)'
<1>1. OrderOK(c) /\ MsgOK(c)
  BY DEF OrderInv, MsgInv
<1>2. waiters[c] \in Seq(Nos) /\ sent[c] \in Seq(Nos) /\ fate \in [Conns -> [Nos -> Fates]]
  BY DEF TypeOK
<1>3. Nos \subseteq Int
  BY DEF Nos
<1>4. \E f \in {"waiting", "sent", "failed"} : fate' = [fate EXCEPT ![c][k] = f]
  BY ForwardOutcome
<1>5. /\ fate'[c][k] # "new" /\ \A j \in Nos \ {k} : fate'[c][j] = fate[c][j]
  BY <1>2, <1>4
<1>6. ASSUME NEW n \in Nos, fate[c][n] # "new"
      PROVE  fate'[c][n] # "new"
  BY <1>5, <1>6
<1>7. \A n \in Nos : fate'[c][n] # "new" => \A j \in 1..(n - 1) : fate'[c][j] # "new"
  <2> SUFFICES ASSUME NEW n \in Nos, fate'[c][n] # "new", NEW j \in 1..(n - 1)
               PROVE  fate'[c][j] # "new"
    OBVIOUS
  <2>1. j \in Nos
    BY EarlierNos
  <2>2. CASE n = k /\ fate[c][k] = "new"
    BY <1>6, <2>1, <2>2
  <2>3. CASE ~(n = k /\ fate[c][k] = "new")
    BY <1>1, <1>5, <1>6, <2>1, <2>3 DEF OrderOK
  <2> QED  BY <2>2, <2>3
\* those before a new message are smaller, as those after it are new
<1>8. ASSUME HookOf[k] = "none", NEW n \in Nos, fate[c][n] # "new"
      PROVE  n < k
  <2>1. fate[c][k] = "new"
    BY <1>8
  <2>2. ~(k \in 1..(n - 1))
    BY <1>1, <1>8, <2>1 DEF OrderOK
  <2>3. k # n /\ k >= 1
    BY <1>8, <2>1 DEF Nos
  <2> QED  BY <1>3, <2>2, <2>3
<1>9. /\ \A i \in DOMAIN sent[c] : sent[c][i] \in Nos /\ fate[c][sent[c][i]] # "new"
      /\ \A i \in DOMAIN waiters[c] : waiters[c][i] \in Nos /\ fate[c][waiters[c][i]] # "new"
  BY <1>1, <1>2 DEF OrderOK
<1>10. CASE /\ ready[c] = "pending" /\ waiters' = [waiters EXCEPT ![c] = Append(@, k)]
            /\ sent' = sent
  <2>1. waiters'[c] = Append(waiters[c], k) /\ sent'[c] = sent[c]
    BY <1>10 DEF TypeOK
  <2>2. Asc(waiters'[c])
    BY <1>1, <1>2, <1>8, <1>9, <2>1, AscAppend DEF OrderOK
  <2>3. /\ DOMAIN waiters'[c] = 1..(Len(waiters[c]) + 1) /\ DOMAIN waiters[c] = 1..Len(waiters[c])
        /\ Len(waiters[c]) \in Nat /\ waiters'[c][Len(waiters[c]) + 1] = k
        /\ \A i \in 1..Len(waiters[c]) : waiters'[c][i] = waiters[c][i]
    BY <1>2, <2>1
  <2>4. \A i \in DOMAIN waiters'[c] : fate'[c][waiters'[c][i]] # "new"
    BY <1>5, <1>6, <1>9, <2>3
  <2>5. \A i \in DOMAIN sent'[c] : fate'[c][sent'[c][i]] # "new"
    BY <1>6, <1>9, <2>1
  <2>6. \A i \in DOMAIN sent'[c], j \in DOMAIN waiters'[c] :
          HookOf[sent'[c][i]] = "none" /\ HookOf[waiters'[c][j]] = "none" =>
            sent'[c][i] < waiters'[c][j]
    BY <1>1, <1>8, <1>9, <2>1, <2>3 DEF OrderOK
  <2>7. Asc(sent'[c])
    BY <1>1, <2>1 DEF OrderOK
  <2> QED  BY <1>7, <2>2, <2>4, <2>5, <2>6, <2>7 DEF OrderOK, Asc
<1>11. CASE /\ ready[c] = "resolved" /\ sent' = [sent EXCEPT ![c] = Append(@, k)]
            /\ waiters' = waiters
  <2>1. sent'[c] = Append(sent[c], k) /\ waiters'[c] = <<>>
    BY <1>1, <1>11 DEF TypeOK, MsgOK
  <2>2. Asc(sent'[c])
    BY <1>1, <1>2, <1>8, <1>9, <2>1, AscAppend DEF OrderOK
  <2>3. /\ DOMAIN sent'[c] = 1..(Len(sent[c]) + 1) /\ DOMAIN sent[c] = 1..Len(sent[c])
        /\ Len(sent[c]) \in Nat /\ sent'[c][Len(sent[c]) + 1] = k
        /\ \A i \in 1..Len(sent[c]) : sent'[c][i] = sent[c][i]
    BY <1>2, <2>1
  <2>4. \A i \in DOMAIN sent'[c] : fate'[c][sent'[c][i]] # "new"
    BY <1>5, <1>6, <1>9, <2>3
  <2>5. DOMAIN waiters'[c] = {}
    BY <2>1
  <2> QED  BY <1>7, <2>2, <2>4, <2>5 DEF OrderOK, Asc
<1>12. CASE waiters' = waiters /\ sent' = sent
  <2>1. /\ \A i \in DOMAIN sent'[c] : fate'[c][sent'[c][i]] # "new"
        /\ \A i \in DOMAIN waiters'[c] : fate'[c][waiters'[c][i]] # "new"
    BY <1>6, <1>9, <1>12
  <2> QED  BY <1>1, <1>7, <1>12, <2>1 DEF OrderOK, Asc
<1> QED  BY <1>10, <1>11, <1>12, ForwardOutcome

\* Each step leaves every connection in a state of OrderOK.
LEMMA OrderStep ==
  ASSUME TypeOK, MsgInv, OrderInv, [Next]_vars
  PROVE  OrderInv'
<1> SUFFICES ASSUME NEW d \in Conns PROVE OrderOK(d)'
  BY DEF OrderInv
<1>1. OrderOK(d)
  BY DEF OrderInv
<1>2. /\ fate \in [Conns -> [Nos -> Fates]]
      /\ waiters \in [Conns -> Seq(Nos)] /\ sent \in [Conns -> Seq(Nos)]
  BY DEF TypeOK
<1>3. ASSUME fate'[d] = fate[d], waiters'[d] = waiters[d], sent'[d] = sent[d]
      PROVE  OrderOK(d)'
  BY <1>1, <1>3 DEF OrderOK, Asc
<1>4. ASSUME NEW c \in Conns, BackendConnected(c)
      PROVE  OrderOK(d)'
  <2>1. CASE c # d
    BY <1>2, <1>3, <1>4, <2>1 DEF BackendConnected
  <2>2. CASE c = d
    <3>1. /\ waiters'[d] = <<>> /\ sent'[d] = sent[d] \o waiters[d]
          /\ fate'[d] = [k \in Nos |-> IF fate[d][k] = "waiting" THEN "sent" ELSE fate[d][k]]
      BY <1>2, <1>4, <2>2 DEF BackendConnected
    <3>2. sent[d] \in Seq(Nos) /\ waiters[d] \in Seq(Nos)
      BY <1>2
    <3>3. Asc(sent'[d])
      BY <1>1, <3>1, <3>2, AscConcat DEF OrderOK
    <3>4. \A k \in Nos : fate'[d][k] = "new" <=> fate[d][k] = "new"
      BY <3>1
    <3>6. \A k \in Nos : fate'[d][k] # "new" => \A j \in 1..(k - 1) : fate'[d][j] # "new"
      BY <1>1, <3>4, EarlierNos DEF OrderOK
    <3>7. \A i \in DOMAIN sent'[d] : fate'[d][sent'[d][i]] # "new"
      <4>1. \A i \in DOMAIN sent'[d] :
              \/ i \in DOMAIN sent[d] /\ sent'[d][i] = sent[d][i]
              \/ \E j \in DOMAIN waiters[d] : sent'[d][i] = waiters[d][j]
        <5>1. \A i \in DOMAIN (sent[d] \o waiters[d]) :
                \/ i \in DOMAIN sent[d] /\ (sent[d] \o waiters[d])[i] = sent[d][i]
                \/ \E j \in DOMAIN waiters[d] : (sent[d] \o waiters[d])[i] = waiters[d][j]
          BY <3>2, ConcatParts, Zenon
        <5> QED  BY <3>1, <5>1, Zenon
      <4>2. \A i \in DOMAIN sent[d] : sent[d][i] \in Nos /\ fate[d][sent[d][i]] # "new"
        BY <1>1, <3>2 DEF OrderOK
      <4>3. \A i \in DOMAIN waiters[d] : waiters[d][i] \in Nos /\ fate[d][waiters[d][i]] # "new"
        BY <1>1, <3>2 DEF OrderOK
      <4> QED  BY <3>4, <4>1, <4>2, <4>3
    <3>8. DOMAIN waiters'[d] = {}
      BY <3>1
    <3> QED  BY <3>3, <3>6, <3>7, <3>8 DEF OrderOK, Asc
  <2> QED  BY <2>1, <2>2
<1>5. ASSUME NEW c \in Conns, BackendRefused(c)
      PROVE  OrderOK(d)'
  <2>1. CASE c # d
    BY <1>2, <1>3, <1>5, <2>1 DEF BackendRefused
  <2>2. CASE c = d
    <3>1. /\ waiters'[d] = <<>> /\ sent'[d] = sent[d]
          /\ fate'[d] = [k \in Nos |-> IF fate[d][k] = "waiting" THEN "failed" ELSE fate[d][k]]
      BY <1>2, <1>5, <2>2 DEF BackendRefused
    <3>2. \A k \in Nos : fate'[d][k] = "new" <=> fate[d][k] = "new"
      BY <3>1
    <3>4. \A i \in DOMAIN sent[d] : sent[d][i] \in Nos
      BY <1>2
    <3>5. DOMAIN waiters'[d] = {}
      BY <3>1
    <3> QED  BY <1>1, <3>1, <3>2, <3>4, <3>5, EarlierNos DEF OrderOK, Asc
  <2> QED  BY <2>1, <2>2
<1>6. ASSUME NEW c \in Conns, NEW k \in Nos, ReceiveMessage(c, k) \/ HandlersDone(c, k)
      PROVE  OrderOK(d)'
  <2>1. CASE c # d
    <3>1. /\ \E f \in Fates : fate' = [fate EXCEPT ![c][k] = f]
          /\ waiters' = waiters \/ waiters' = [waiters EXCEPT ![c] = Append(@, k)]
          /\ sent' = sent \/ sent' = [sent EXCEPT ![c] = Append(@, k)]
      <4>1. CASE Forward(c, k)
        BY <4>1, ForwardOutcome DEF Fates
      <4>2. CASE ReceiveMessage(c, k) /\ ~Forward(c, k)
        BY <4>2, ReceiveOutcome DEF Fates
      <4>3. CASE HandlersDone(c, k) /\ ~Forward(c, k)
        BY <4>3, HandlersOutcome DEF Fates
      <4> QED  BY <1>6, <4>1, <4>2, <4>3
    <3> QED  BY <1>2, <1>3, <2>1, <3>1
  <2>2. CASE c = d /\ Forward(c, k) /\ (ReceiveMessage(c, k) \/ HookOf[k] = "proxy")
    <3>1. \/ fate[c][k] = "new" /\ \A j \in 1..(k - 1) : fate[c][j] # "new"
          \/ fate[c][k] # "new" /\ HookOf[k] # "none"
      <4>1. CASE ReceiveMessage(c, k)
        BY <4>1, ReceiveOutcome
      <4>2. CASE HandlersDone(c, k) /\ HookOf[k] = "proxy"
        BY <4>2, HandlersOutcome
      <4> QED  BY <1>6, <2>2, <4>1, <4>2
    <3> QED  BY <2>2, <3>1, OrderForward
  <2>3. CASE c = d /\ ~(Forward(c, k) /\ (ReceiveMessage(c, k) \/ HookOf[k] = "proxy"))
    <3>1. /\ fate[c][k] # "new" \/ \A j \in 1..(k - 1) : fate[c][j] # "new"
          /\ waiters' = waiters /\ sent' = sent
          /\ \E f \in Fates \ {"new"} : fate' = [fate EXCEPT ![c][k] = f]
      <4>1. CASE ReceiveMessage(c, k)
        BY <2>3, <4>1, ReceiveOutcome DEF Fates
      <4>2. CASE HandlersDone(c, k)
        BY <2>3, <4>2, HandlersOutcome DEF Fates
      <4> QED  BY <1>6, <4>1, <4>2
    <3>2. fate'[c][k] # "new" /\ \A j \in Nos \ {k} : fate'[c][j] = fate[c][j]
      BY <1>2, <3>1
    <3>3. \A n \in Nos : fate[c][n] # "new" => fate'[c][n] # "new"
      BY <3>2
    <3>5. \A n \in Nos : fate'[c][n] # "new" => \A j \in 1..(n - 1) : fate'[c][j] # "new"
      BY <1>1, <2>3, <3>1, <3>2, <3>3, EarlierNos DEF OrderOK
    <3>6. /\ \A i \in DOMAIN sent[c] : sent[c][i] \in Nos
          /\ \A i \in DOMAIN waiters[c] : waiters[c][i] \in Nos
      BY <1>2
    <3> QED  BY <1>1, <2>3, <3>1, <3>3, <3>5, <3>6 DEF OrderOK, Asc
  <2> QED  BY <2>1, <2>2, <2>3
<1>7. CASE UNCHANGED <<fate, waiters, sent>>
  BY <1>3, <1>7
<1>8. ASSUME NEW c \in Conns,
             HandleNewConnection(c) \/ ClientCloses(c) \/ BackendCloses(c) \/ ClientOnClose(c)
               \/ BackendOnClose(c) \/ ReceiveEvent(c)
      PROVE  UNCHANGED <<fate, waiters, sent>>
  BY <1>8 DEF HandleNewConnection, ClientCloses, BackendCloses, ClientOnClose, BackendOnClose,
     ReceiveEvent, msgVars
<1>9. DoStart \/ DoStop \/ StopStep \/ UNCHANGED vars => UNCHANGED <<fate, waiters, sent>>
  BY DEF DoStart, DoStop, StopStep, SleepOver, AdapterStopped, vars, msgVars
<1> QED  BY <1>4, <1>5, <1>6, <1>7, <1>8, <1>9 DEF Next, SocketStep, MessageStep

\* What no hook takes reaches the backend in the order the client sent it, for
\* any number of messages, whenever the backend comes up and however long the
\* handlers of other messages take.
THEOREM ProxyKeepsOrder == Spec => []ForwardedInOrder
<1>1. Init => PairInv /\ MsgInv /\ OrderInv
  <2>1. Init => PairInv
    BY DEF Init, PairInv, PairOK
  <2>2. Init => MsgInv
    BY InitMsg
  <2>3. Init => OrderInv
    <3> SUFFICES ASSUME Init, NEW c \in Conns PROVE OrderOK(c)
      BY DEF OrderInv
    <3>1. \A k \in Nos : fate[c][k] = "new"
      BY DEF Init
    <3>2. sent[c] = <<>> /\ waiters[c] = <<>>
      BY DEF Init
    <3> QED  BY <3>1, <3>2 DEF OrderOK, Asc
  <2> QED  BY <2>1, <2>2, <2>3
<1>2. (TypeOK /\ PairInv /\ MsgInv /\ OrderInv) /\ [Next]_vars
        => (TypeOK /\ PairInv /\ MsgInv /\ OrderInv)'
  BY TypeStep, PairStep, MsgStep, OrderStep
<1>3. OrderInv => ForwardedInOrder
  BY DEF OrderInv, OrderOK, Asc, ForwardedInOrder
<1> QED  BY InitType, <1>1, <1>2, <1>3, PTL DEF Spec
=============================================================================
