-------------------------- MODULE TransportsProofs --------------------------
(***************************************************************************)
(* Proofs about Transports: WebSockets, gRPC streams and TCP with its      *)
(* framings implement AsyncTransport, for any connections and messages.    *)
(*                                                                         *)
(* What an end got is how what its peer sent begins, and what is under way *)
(* is how it goes on, as messages or as the bytes of their frames; an end  *)
(* whose socket is gone takes nothing more.  What arrived is handed on at  *)
(* once, or, with a codec that is awaited, later and in any order.         *)
(***************************************************************************)
EXTENDS Transports, SequenceTheorems, WellFoundedInduction, TLAPS

Payload == Messages \cup {CLOSE}

\* g was got of s, w is under way: w may be cut short, and a CLOSE ends it
InOrder(g, s) == Len(g) <= Len(s) /\ \A i \in 1..Len(g) : g[i] = s[i]

UnderWay(g, w, s) ==
  \A i \in 1..Len(w) :
    \/ w[i] = CLOSE /\ i = Len(w)
    \/ w[i] \in Messages /\ Len(g) + i <= Len(s) /\ w[i] = s[Len(g) + i]

Whole(g, w, s) == Len(g) + Len(w) = Len(s) /\ \A i \in 1..Len(w) : w[i] # CLOSE

\* what a step does to a connection, whatever its codec makes of it
Sending(x) ==
  /\ ~closed[x]
  /\ \E m \in Messages : sent' = [sent EXCEPT ![x] = Append(@, m)]
  /\ UNCHANGED <<got, closed>>

Arriving(x) ==
  /\ ~closed[x]
  /\ \E n \in (Len(got[x]) + 1)..Len(sent[T!Peer(x)]) :
       got' = [got EXCEPT ![x] = SubSeq(sent[T!Peer(x)], 1, n)]
  /\ UNCHANGED <<sent, closed>>

Closing(X) ==
  /\ X # {}
  /\ \A x \in X : ~closed[x]
  /\ closed' = [x \in Ends |-> closed[x] \/ x \in X]
  /\ UNCHANGED <<sent, got>>

Moving ==
  \/ \E x \in Ends : Sending(x) \/ Arriving(x)
  \/ \E X \in SUBSET Ends : Closing(X)

\* what an end may write
WsSend(x)   == \E m \in Messages : Ws!Write(x, m)
GrpcSend(x) == \E m \in Messages : Grpc!Write(x, m)
TcpSend(x)  == \E m \in Messages : Tcp!Write(x, m)

LEMMA SameEnds == Ws!Ends = Ends /\ Grpc!Ends = Ends /\ T!Ends = Ends
  BY DEF Ws!Ends, Grpc!Ends, T!Ends, Ends

LEMMA PairFacts ==
  ASSUME NEW c \in Conns
  PROVE  /\ Ws!Client(c) \in Ends /\ Ws!Server(c) \in Ends
         /\ Grpc!Client(c) = Ws!Client(c) /\ Grpc!Server(c) = Ws!Server(c)
         /\ T!Peer(Ws!Client(c)) = Ws!Server(c) /\ T!Peer(Ws!Server(c)) = Ws!Client(c)
  BY DEF Ends, Ws!Client, Ws!Server, Grpc!Client, Grpc!Server, T!Peer

LEMMA PeerFacts ==
  ASSUME NEW x \in Ends
  PROVE  /\ T!Peer(x) \in Ends /\ T!Peer(T!Peer(x)) = x /\ T!Peer(x) # x
         /\ Ws!Peer(x) = T!Peer(x) /\ Grpc!Peer(x) = T!Peer(x)
<1>1. PICK c \in Conns, r \in {"client", "server"} : x = <<c, r>>
  BY DEF Ends
<1>2. CASE r = "client"
  BY <1>1, <1>2 DEF Ends, T!Peer, Ws!Peer, Grpc!Peer, Ws!Server, Grpc!Server
<1>3. CASE r = "server"
  BY <1>1, <1>3 DEF Ends, T!Peer, Ws!Peer, Grpc!Peer, Ws!Client, Grpc!Client
<1> QED  BY <1>1, <1>2, <1>3

\* A message that a sender with nothing cut short writes goes on in order.
LEMMA Written ==
  ASSUME NEW g \in Seq(Messages), NEW w \in Seq(Payload), NEW s \in Seq(Messages),
         NEW m \in Messages, UnderWay(g, w, s), Whole(g, w, s)
  PROVE  UnderWay(g, Append(w, m), Append(s, m)) /\ Whole(g, Append(w, m), Append(s, m))
<1>1. Len(Append(w, m)) = Len(w) + 1 /\ Len(Append(s, m)) = Len(s) + 1
  BY DEF Payload
<1>2. ASSUME NEW i \in 1..(Len(w) + 1)
      PROVE  /\ Append(w, m)[i] \in Messages /\ Len(g) + i <= Len(s) + 1
             /\ Append(w, m)[i] = Append(s, m)[Len(g) + i]
  <2>1. CASE i = Len(w) + 1
    BY <2>1 DEF Whole, Payload
  <2>2. CASE i \in 1..Len(w)
    BY <2>2 DEF UnderWay, Whole, Payload
  <2> QED  BY <2>1, <2>2
<1>3. UnderWay(g, Append(w, m), Append(s, m))
  BY <1>1, <1>2 DEF UnderWay
<1>4. \A i \in 1..(Len(w) + 1) : Append(w, m)[i] # CLOSE
  BY <1>2, TransportsAssumption
<1>5. Len(g) + Len(w) = Len(s) /\ Len(g) \in Nat /\ Len(w) \in Nat
  BY DEF Whole
<1>6. Len(s) \in Nat /\ Len(g) + (Len(w) + 1) = Len(s) + 1
  BY <1>5
<1>7. Whole(g, Append(w, m), Append(s, m))
  BY <1>1, <1>4, <1>6, Zenon DEF Whole
<1> QED  BY <1>3, <1>7

LEMMA StillInOrder ==
  ASSUME NEW g \in Seq(Messages), NEW s \in Seq(Messages), NEW m \in Messages, InOrder(g, s)
  PROVE  InOrder(g, Append(s, m))
  BY DEF InOrder

LEMMA CloseWritten ==
  ASSUME NEW g \in Seq(Messages), NEW w \in Seq(Payload), NEW s \in Seq(Messages),
         UnderWay(g, w, s), Whole(g, w, s)
  PROVE  UnderWay(g, Append(w, CLOSE), s)
  BY DEF UnderWay, Whole

LEMMA Read ==
  ASSUME NEW g \in Seq(Messages), NEW w \in Seq(Payload), NEW s \in Seq(Messages),
         UnderWay(g, w, s), InOrder(g, s), w # <<>>, Head(w) # CLOSE
  PROVE  /\ Head(w) \in Messages
         /\ Len(g) + 1 <= Len(s) /\ Append(g, Head(w)) = SubSeq(s, 1, Len(g) + 1)
         /\ InOrder(Append(g, Head(w)), s)
         /\ UnderWay(Append(g, Head(w)), Tail(w), s)
         /\ Whole(g, w, s) => Whole(Append(g, Head(w)), Tail(w), s)
<1>1. Len(w) \in Nat /\ Len(w) > 0 /\ Head(w) = w[1]
  OBVIOUS
<1>2. Head(w) \in Messages /\ Len(g) + 1 <= Len(s) /\ w[1] = s[Len(g) + 1]
  BY <1>1 DEF UnderWay
<1>3. Append(g, Head(w)) = SubSeq(s, 1, Len(g) + 1)
  BY <1>1, <1>2 DEF InOrder
<1>4. InOrder(Append(g, Head(w)), s)
  BY <1>1, <1>2 DEF InOrder
<1>5. UnderWay(Append(g, Head(w)), Tail(w), s)
  BY <1>1, <1>2 DEF UnderWay
<1>6. Whole(g, w, s) => Whole(Append(g, Head(w)), Tail(w), s)
  BY <1>1, <1>2 DEF Whole
<1> QED  BY <1>2, <1>3, <1>4, <1>5, <1>6

LEMMA CloseRead ==
  ASSUME NEW g \in Seq(Messages), NEW w \in Seq(Payload), NEW s \in Seq(Messages),
         UnderWay(g, w, s), w # <<>>, Head(w) = CLOSE
  PROVE  UnderWay(g, Tail(w), s) /\ ~Whole(g, w, s)
<1>1. w[1] = CLOSE /\ Len(w) \in Nat /\ Len(w) > 0
  OBVIOUS
<1>2. w[1] \notin Messages /\ 1 \in 1..Len(w)
  BY <1>1, TransportsAssumption
<1>3. Len(w) = 1
  BY <1>1, <1>2 DEF UnderWay
<1>4. Len(Tail(w)) = 0
  BY <1>3
<1>5. UnderWay(g, Tail(w), s)
  BY <1>4 DEF UnderWay
<1>6. ~Whole(g, w, s)
  BY <1>1, <1>2 DEF Whole
<1> QED  BY <1>5, <1>6

LEMMA CutShort ==
  ASSUME NEW g \in Seq(Messages), NEW w \in Seq(Payload), NEW s \in Seq(Messages),
         UnderWay(g, w, s), NEW k \in 0..Len(w)
  PROVE  UnderWay(g, SubSeq(w, 1, k), s)
  BY DEF UnderWay

LEMMA NothingUnderWay ==
  ASSUME NEW g, NEW s PROVE UnderWay(g, <<>>, s)
  BY DEF UnderWay

-----------------------------------------------------------------------------
(* WebSockets                                                              *)

WsTypes ==
  /\ sock \in [Ends -> {"none", "connecting", "open", "closing", "closed"}]
  /\ wire \in [Ends -> Seq(Payload)]
  /\ sent \in [Ends -> Seq(Messages)] /\ got \in [Ends -> Seq(Messages)]
  /\ closed \in [Ends -> BOOLEAN]

\* what one end takes of the other: a socket that did not close is not cut
WsTakes(x) ==
  /\ InOrder(got[x], sent[T!Peer(x)])
  /\ sock[x] # "closed" =>
       /\ ~closed[x]
       /\ UnderWay(got[x], wire[T!Peer(x)], sent[T!Peer(x)])
       /\ sock[T!Peer(x)] \in {"none", "connecting", "open"} =>
            Whole(got[x], wire[T!Peer(x)], sent[T!Peer(x)])

WsInv == WsTypes /\ \A x \in Ends : WsTakes(x)

\* The types, step by step.
LEMMA WsTypesInductive ==
  ASSUME WsInv, Ws!Next, ~EarlyGreeting
  PROVE  WsTypes'
<1> USE SameEnds DEF WsInv
<1>a. \A c \in Conns : Ws!Client(c) \in Ends /\ Ws!Server(c) \in Ends
  BY PairFacts
<1>b. \A x \in Ends : Ws!Peer(x) = T!Peer(x) /\ T!Peer(x) \in Ends
  BY PeerFacts
<1>1. CASE Ws!Listen
  BY <1>1 DEF Ws!Listen, WsTypes
<1>2. CASE Ws!Stop
  <2> DEFINE open == {Ws!Server(c) : c \in {d \in conns : sock[Ws!Server(d)] = "open"}}
  <2>1. /\ sock' = [x \in Ends |-> IF x \in open THEN "closing" ELSE sock[x]]
        /\ wire' = [x \in Ends |-> IF x \in open THEN Append(wire[x], CLOSE) ELSE wire[x]]
        /\ UNCHANGED <<sent, got, closed>>
    BY <1>2 DEF Ws!Stop
  <2> HIDE DEF open
  <2>2. \A x \in Ends : Append(wire[x], CLOSE) \in Seq(Payload)
    BY DEF WsTypes, Payload
  <2> QED  BY <2>1, <2>2 DEF WsTypes
<1>3. CASE Ws!Stopped
  BY <1>3 DEF Ws!Stopped, WsTypes
<1>4. ASSUME NEW c \in Conns,
             Ws!Connect(c) \/ Ws!Connection(c) \/ Ws!Open(c) \/ Ws!ConnectFails(c)
      PROVE  WsTypes'
  BY <1>4, <1>a DEF Ws!Connect, Ws!Connection, Ws!Open, Ws!ConnectFails, WsTypes
<1>5. ASSUME NEW x \in Ends,
             \/ WsSend(x) \/ Ws!Arrives(x) \/ Ws!CloseCall(x)
             \/ Ws!CloseReceived(x) \/ Ws!HandshakeDone(x) \/ Ws!Drop(x)
      PROVE  WsTypes'
  <2>a. wire[x] \in Seq(Payload) /\ wire[T!Peer(x)] \in Seq(Payload)
    BY <1>b DEF WsTypes
  <2>1. CASE WsSend(x)
    <3>1. PICK m \in Messages : Ws!Write(x, m)
      BY <2>1 DEF WsSend
    <3> QED  BY <3>1 DEF Ws!Write, WsTypes, Payload
  <2>2. CASE Ws!Arrives(x)
    <3>1. Head(wire[T!Peer(x)]) \in Messages /\ Tail(wire[T!Peer(x)]) \in Seq(Payload)
      BY <2>2, <2>a, <1>b DEF Ws!Arrives, Payload
    <3> QED  BY <2>2, <3>1, <1>b DEF Ws!Arrives, WsTypes
  <2>3. CASE Ws!CloseCall(x)
    BY <2>3 DEF Ws!CloseCall, WsTypes, Payload
  <2>4. CASE Ws!CloseReceived(x)
    <3>1. Tail(wire[T!Peer(x)]) \in Seq(Payload) /\ Append(wire[x], CLOSE) \in Seq(Payload)
      BY <2>4, <2>a, <1>b DEF Ws!CloseReceived, Payload
    <3> QED  BY <2>4, <3>1, <1>b DEF Ws!CloseReceived, WsTypes
  <2>5. CASE Ws!HandshakeDone(x)
    BY <2>5 DEF Ws!HandshakeDone, Ws!Closed, WsTypes
  <2>6. CASE Ws!Drop(x)
    <3>1. PICK k \in 0..Len(wire[x]) :
            wire' = [wire EXCEPT ![x] = SubSeq(wire[x], 1, k), ![Ws!Peer(x)] = <<>>]
      BY <2>6 DEF Ws!Drop
    <3>2. SubSeq(wire[x], 1, k) \in Seq(Payload) /\ <<>> \in Seq(Payload)
      BY <2>a, <3>1
    <3>3. wire' = [wire EXCEPT ![x] = SubSeq(wire[x], 1, k), ![T!Peer(x)] = <<>>]
      BY <3>1, <1>b
    <3>4. wire' \in [Ends -> Seq(Payload)]
      BY <3>3, <3>2, <1>b DEF WsTypes
    <3> QED  BY <2>6, <3>4 DEF Ws!Drop, Ws!Closed, WsTypes
  <2> QED  BY <1>5, <2>1, <2>2, <2>3, <2>4, <2>5, <2>6
<1> QED  BY <1>1, <1>2, <1>3, <1>4, <1>5 DEF Ws!Next, Ws!Link, WsSend

\* What each end takes, step by step.
LEMMA WsTakesInductive ==
  ASSUME WsInv, Ws!Next, ~EarlyGreeting, NEW e \in Ends
  PROVE  WsTakes(e)'
<1> DEFINE p == T!Peer(e)
<1>a. /\ \A c \in Conns : Ws!Client(c) \in Ends /\ Ws!Server(c) \in Ends
      /\ Ws!Ends = Ends
  BY PairFacts, SameEnds
<1>b. p \in Ends /\ p # e /\ T!Peer(p) = e /\ Ws!Peer(e) = p /\ Ws!Peer(p) = e /\ p' = p
  BY PeerFacts DEF T!Peer
<1>c. /\ got[e] \in Seq(Messages) /\ wire[p] \in Seq(Payload) /\ sent[p] \in Seq(Messages)
      /\ WsTakes(e)
  BY <1>b DEF WsInv, WsTypes
<1>d. /\ sock \in [Ends -> {"none", "connecting", "open", "closing", "closed"}]
      /\ wire \in [Ends -> Seq(Payload)] /\ closed \in [Ends -> BOOLEAN]
      /\ sent \in [Ends -> Seq(Messages)] /\ got \in [Ends -> Seq(Messages)]
  BY DEF WsInv, WsTypes
<1>e. WsTakes(e) = (/\ InOrder(got[e], sent[p])
                    /\ sock[e] # "closed" =>
                         /\ ~closed[e]
                         /\ UnderWay(got[e], wire[p], sent[p])
                         /\ sock[p] \in {"none", "connecting", "open"} =>
                              Whole(got[e], wire[p], sent[p]))
  BY DEF WsTakes
<1>f. ASSUME /\ InOrder(got'[e], sent'[p])
             /\ sock'[e] # "closed" =>
                  /\ ~closed'[e]
                  /\ UnderWay(got'[e], wire'[p], sent'[p])
                  /\ sock'[p] \in {"none", "connecting", "open"} =>
                       Whole(got'[e], wire'[p], sent'[p])
      PROVE  WsTakes(e)'
  BY <1>b, <1>f DEF WsTakes, InOrder, UnderWay, Whole
<1> HIDE DEF p
<1>g. ASSUME got'[e] = got[e], sent'[p] = sent[p], wire'[p] = wire[p],
             sock'[e] # "closed" => sock[e] # "closed" /\ closed'[e] = closed[e],
             sock'[p] \in {"none", "connecting", "open"} =>
               sock[p] \in {"none", "connecting", "open"}
      PROVE  WsTakes(e)'
  BY <1>c, <1>e, <1>f, <1>g
<1>1. CASE Ws!Listen \/ Ws!Stopped
  BY <1>1, <1>g DEF Ws!Listen, Ws!Stopped
<1>2. CASE Ws!Stop
  <2> DEFINE open == {Ws!Server(c) : c \in {d \in conns : sock[Ws!Server(d)] = "open"}}
  <2>1. /\ sock' = [x \in Ends |-> IF x \in open THEN "closing" ELSE sock[x]]
        /\ wire' = [x \in Ends |-> IF x \in open THEN Append(wire[x], CLOSE) ELSE wire[x]]
        /\ UNCHANGED <<sent, got, closed>>
    BY <1>2, <1>a DEF Ws!Stop
  <2>2. \A x \in open : sock[x] = "open"
    OBVIOUS
  <2> HIDE DEF open
  <2>3. CASE p \in open
    <3>1. sock[e] # "closed" => UnderWay(got[e], Append(wire[p], CLOSE), sent[p])
      BY <1>c, <1>e, <2>2, <2>3, CloseWritten
    <3>2. sock'[p] = "closing" /\ wire'[p] = Append(wire[p], CLOSE)
      BY <1>b, <2>1, <2>3
    <3>3. sock'[e] # "closed" => sock[e] # "closed"
      BY <2>1, <2>2
    <3> QED  BY <1>c, <1>e, <1>f, <2>1, <3>1, <3>2, <3>3
  <2>4. CASE p \notin open
    BY <1>b, <1>g, <2>1, <2>2, <2>4
  <2> QED  BY <2>3, <2>4
<1>3. ASSUME NEW c \in Conns,
             Ws!Connect(c) \/ Ws!Connection(c) \/ Ws!Open(c) \/ Ws!ConnectFails(c)
      PROVE  WsTakes(e)'
  BY <1>3, <1>a, <1>b, <1>d, <1>g DEF Ws!Connect, Ws!Connection, Ws!Open, Ws!ConnectFails
<1>4. ASSUME NEW x \in Ends, x # e, x # p,
             \/ WsSend(x) \/ Ws!Arrives(x) \/ Ws!CloseCall(x)
             \/ Ws!CloseReceived(x) \/ Ws!HandshakeDone(x) \/ Ws!Drop(x)
      PROVE  WsTakes(e)'
  <2>1. Ws!Peer(x) \in Ends /\ Ws!Peer(x) # e /\ Ws!Peer(x) # p
    BY <1>4, <1>b, PeerFacts
  <2> QED  BY <1>4, <1>b, <1>d, <1>g, <2>1 DEF WsSend, Ws!Write, Ws!Arrives, Ws!CloseCall,
              Ws!CloseReceived, Ws!HandshakeDone, Ws!Drop, Ws!Closed
<1>5. CASE WsSend(e) \/ Ws!CloseCall(e)
  BY <1>5, <1>b, <1>d, <1>g DEF WsSend, Ws!Write, Ws!CloseCall
<1>6. CASE WsSend(p)
  <2>1. PICK m \in Messages : sent'[p] = Append(sent[p], m) /\ wire'[p] = Append(wire[p], m)
    BY <1>6, <1>b, <1>d DEF WsSend, Ws!Write
  <2>2. UNCHANGED <<sock, got, closed>> /\ sock[p] = "open"
    BY <1>6 DEF WsSend, Ws!Write
  <2>3. InOrder(got[e], Append(sent[p], m))
    BY <1>c, <1>e, StillInOrder
  <2>4. sock[e] # "closed" => /\ UnderWay(got[e], Append(wire[p], m), Append(sent[p], m))
                              /\ Whole(got[e], Append(wire[p], m), Append(sent[p], m))
    BY <1>c, <1>e, <2>2, Written
  <2> QED  BY <1>c, <1>e, <1>f, <2>1, <2>2, <2>3, <2>4
<1>7. CASE Ws!Arrives(e)
  <2>1. /\ sock[e] # "closed" /\ wire[p] # <<>> /\ Head(wire[p]) # CLOSE
        /\ got'[e] = Append(got[e], Head(wire[p])) /\ wire'[p] = Tail(wire[p])
        /\ UNCHANGED <<sock, sent, closed>>
    BY <1>7, <1>b, <1>d DEF Ws!Arrives
  <2>2. UnderWay(got[e], wire[p], sent[p]) /\ InOrder(got[e], sent[p])
    BY <1>c, <1>e, <2>1
  <2>3. /\ InOrder(Append(got[e], Head(wire[p])), sent[p])
        /\ UnderWay(Append(got[e], Head(wire[p])), Tail(wire[p]), sent[p])
        /\ Whole(got[e], wire[p], sent[p]) =>
             Whole(Append(got[e], Head(wire[p])), Tail(wire[p]), sent[p])
    BY <1>c, <2>1, <2>2, Read
  <2> QED  BY <1>c, <1>e, <1>f, <2>1, <2>3
<1>8. CASE Ws!Arrives(p)
  BY <1>8, <1>b, <1>d, <1>g DEF Ws!Arrives
<1>9. CASE Ws!CloseCall(p)
  <2>1. /\ sock[p] = "open" /\ sock'[p] = "closing" /\ wire'[p] = Append(wire[p], CLOSE)
        /\ sock'[e] = sock[e] /\ UNCHANGED <<sent, got, closed>>
    BY <1>9, <1>b, <1>d DEF Ws!CloseCall
  <2>2. sock[e] # "closed" => UnderWay(got[e], Append(wire[p], CLOSE), sent[p])
    BY <1>c, <1>e, <2>1, CloseWritten
  <2> QED  BY <1>c, <1>e, <1>f, <2>1, <2>2
<1>10. CASE Ws!CloseReceived(e)
  <2>1. /\ sock[e] # "closed" /\ wire[p] # <<>> /\ Head(wire[p]) = CLOSE
        /\ wire'[p] = Tail(wire[p]) /\ sock'[p] = sock[p] /\ UNCHANGED <<sent, got, closed>>
    BY <1>10, <1>b, <1>d DEF Ws!CloseReceived
  <2>2. UnderWay(got[e], Tail(wire[p]), sent[p]) /\ ~Whole(got[e], wire[p], sent[p])
    BY <1>c, <1>e, <2>1, CloseRead
  <2> QED  BY <1>c, <1>e, <1>f, <2>1, <2>2
<1>11. CASE Ws!CloseReceived(p)
  <2>1. /\ sock'[p] = "closing" /\ sock'[e] = sock[e] /\ UNCHANGED <<sent, got, closed>>
        /\ wire'[p] = IF sock[p] = "open" THEN Append(wire[p], CLOSE) ELSE wire[p]
    BY <1>11, <1>b, <1>d DEF Ws!CloseReceived
  <2>2. sock[e] # "closed" /\ sock[p] = "open" =>
          UnderWay(got[e], Append(wire[p], CLOSE), sent[p])
    BY <1>c, <1>e, CloseWritten
  <2> QED  BY <1>c, <1>e, <1>f, <2>1, <2>2
<1>12. CASE Ws!HandshakeDone(e) \/ Ws!HandshakeDone(p)
  BY <1>12, <1>b, <1>d, <1>g DEF Ws!HandshakeDone, Ws!Closed
<1>13. CASE Ws!Drop(e)
  <2>1. sock'[e] = "closed" /\ UNCHANGED <<sent, got>>
    BY <1>13, <1>d DEF Ws!Drop, Ws!Closed
  <2> QED  BY <1>c, <1>e, <1>f, <2>1
<1>14. CASE Ws!Drop(p)
  <2>1. PICK k \in 0..Len(wire[p]) :
          wire' = [wire EXCEPT ![p] = SubSeq(wire[p], 1, k), ![Ws!Peer(p)] = <<>>]
    BY <1>14 DEF Ws!Drop
  <2>2. wire'[p] = SubSeq(wire[p], 1, k)
    BY <1>b, <1>d, <2>1
  <2>3. /\ sock'[p] = "closed" /\ sock'[e] = sock[e] /\ closed'[e] = closed[e]
        /\ UNCHANGED <<sent, got>>
    BY <1>14, <1>b, <1>d DEF Ws!Drop, Ws!Closed
  <2>4. sock[e] # "closed" => UnderWay(got[e], SubSeq(wire[p], 1, k), sent[p])
    BY <1>c, <1>e, CutShort
  <2> QED  BY <1>c, <1>e, <1>f, <2>2, <2>3, <2>4
<1> QED  BY <1>a, <1>1, <1>2, <1>3, <1>4, <1>5, <1>6, <1>7, <1>8, <1>9, <1>10, <1>11, <1>12,
            <1>13, <1>14 DEF Ws!Next, Ws!Link, WsSend

\* What is written extends what was sent, at an end that is not closed.
LEMMA WsSends ==
  ASSUME WsInv, NEW x \in Ends, WsSend(x)
  PROVE  Sending(x)
<1>1. PICK m \in Messages : Ws!Write(x, m)
  BY DEF WsSend
<1>2. ~closed[x]
  BY <1>1 DEF Ws!Write, WsInv, WsTakes
<1> QED  BY <1>1, <1>2 DEF Ws!Write, Sending

\* Every step is one of the abstract transport's, or none.
LEMMA WsStepRefines ==
  ASSUME WsInv, Ws!Next, ~EarlyGreeting
  PROVE  [Moving]_<<sent, got, closed>>
<1> USE SameEnds
<1>a. /\ sock \in [Ends -> {"none", "connecting", "open", "closing", "closed"}]
      /\ wire \in [Ends -> Seq(Payload)] /\ closed \in [Ends -> BOOLEAN]
      /\ sent \in [Ends -> Seq(Messages)] /\ got \in [Ends -> Seq(Messages)]
  BY DEF WsInv, WsTypes
<1>1. CASE Ws!Listen \/ Ws!Stop \/ Ws!Stopped
  BY <1>1 DEF Ws!Listen, Ws!Stop, Ws!Stopped
<1>2. ASSUME NEW c \in Conns,
             Ws!Connect(c) \/ Ws!Connection(c) \/ Ws!Open(c) \/ Ws!ConnectFails(c)
      PROVE  UNCHANGED <<sent, got, closed>>
  BY <1>2 DEF Ws!Connect, Ws!Connection, Ws!Open, Ws!ConnectFails
<1>3. ASSUME NEW x \in Ends, Ws!CloseCall(x) \/ Ws!CloseReceived(x)
      PROVE  UNCHANGED <<sent, got, closed>>
  BY <1>3 DEF Ws!CloseCall, Ws!CloseReceived
<1>4. ASSUME NEW x \in Ends, WsSend(x) PROVE Sending(x)
  BY <1>4, WsSends
<1>5. ASSUME NEW x \in Ends, Ws!Arrives(x) PROVE Arriving(x)
  <2> DEFINE p == T!Peer(x)
  <2>1. p \in Ends /\ Ws!Peer(x) = p
    BY PeerFacts
  <2>2. UnderWay(got[x], wire[p], sent[p]) /\ InOrder(got[x], sent[p]) /\ ~closed[x]
    BY <1>5 DEF Ws!Arrives, WsInv, WsTakes
  <2>3. /\ wire[p] # <<>> /\ Head(wire[p]) # CLOSE /\ UNCHANGED <<sent, closed>>
        /\ got' = [got EXCEPT ![x] = Append(got[x], Head(wire[p]))]
    BY <1>5, <2>1 DEF Ws!Arrives
  <2> HIDE DEF p
  <2>4. /\ Len(got[x]) + 1 <= Len(sent[p])
        /\ Append(got[x], Head(wire[p])) = SubSeq(sent[p], 1, Len(got[x]) + 1)
    BY <1>a, <2>1, <2>2, <2>3, Read
  <2>5. Len(got[x]) + 1 \in (Len(got[x]) + 1)..Len(sent[p])
    BY <1>a, <2>1, <2>4
  <2>6. \E n \in (Len(got[x]) + 1)..Len(sent[p]) :
          got' = [got EXCEPT ![x] = SubSeq(sent[p], 1, n)]
    BY <2>3, <2>4, <2>5
  <2> QED  BY <2>2, <2>3, <2>6 DEF Arriving, p
<1>6. ASSUME NEW x \in Ends, Ws!HandshakeDone(x) \/ Ws!Drop(x) PROVE Closing({x})
  <2>1. ~closed[x] /\ closed' = [closed EXCEPT ![x] = TRUE] /\ UNCHANGED <<sent, got>>
    BY <1>6 DEF Ws!HandshakeDone, Ws!Drop, Ws!Closed, WsInv, WsTakes
  <2>2. closed' = [y \in Ends |-> closed[y] \/ y \in {x}]
    BY <1>a, <2>1
  <2> QED  BY <2>1, <2>2 DEF Closing
<1>7. \A x \in Ends : {x} \in SUBSET Ends
  OBVIOUS
<1> QED  BY <1>1, <1>2, <1>3, <1>4, <1>5, <1>6, <1>7 DEF Ws!Next, Ws!Link, WsSend, Moving

-----------------------------------------------------------------------------
(* gRPC streams                                                            *)

GrpcTypes ==
  /\ sock \in [Ends -> {"none", "up", "lost"}]
  /\ connected \in [Ends -> BOOLEAN] /\ fin \in [Ends -> BOOLEAN]
  /\ wire \in [Ends -> Seq(Messages)]
  /\ sent \in [Ends -> Seq(Messages)] /\ got \in [Ends -> Seq(Messages)]
  /\ closed \in [Ends -> BOOLEAN]

\* Nothing is cut short of an end that may still write; what was ended was read
\* before onClose, and nothing is written after it.
GrpcTakes(x) ==
  /\ InOrder(got[x], sent[T!Peer(x)])
  /\ UnderWay(got[x], wire[T!Peer(x)], sent[T!Peer(x)])
  /\ sock[T!Peer(x)] = "none" \/ (connected[T!Peer(x)] /\ sock[T!Peer(x)] = "up") =>
       Whole(got[x], wire[T!Peer(x)], sent[T!Peer(x)])
  /\ closed[x] => /\ sock[x] # "none" /\ ~connected[x]
                  /\ sock[x] = "up" => fin[T!Peer(x)] /\ wire[T!Peer(x)] = <<>>
  /\ fin[x] => sock[x] = "lost" \/ (sock[x] = "up" /\ ~connected[x])

GrpcInv == GrpcTypes /\ \A x \in Ends : GrpcTakes(x)

\* The types, step by step.
LEMMA GrpcTypesInductive ==
  ASSUME GrpcInv, Grpc!Next
  PROVE  GrpcTypes'
<1> USE SameEnds DEF GrpcInv
<1>a. \A c \in Conns : Grpc!Client(c) \in Ends /\ Grpc!Server(c) \in Ends
  BY PairFacts
<1>b. \A x \in Ends : Grpc!Peer(x) = T!Peer(x) /\ T!Peer(x) \in Ends
  BY PeerFacts
<1>1. CASE Grpc!Bind \/ Grpc!Shutdown \/ Grpc!ShutdownDone
  BY <1>1 DEF Grpc!Bind, Grpc!Shutdown, Grpc!ShutdownDone, GrpcTypes
<1>2. ASSUME NEW c \in Conns, Grpc!Create(c) \/ Grpc!bidiStreamHandler(c) PROVE GrpcTypes'
  BY <1>2, <1>a DEF Grpc!Create, Grpc!bidiStreamHandler, GrpcTypes
<1>3. ASSUME NEW c \in Conns, Grpc!CallFails(c) PROVE GrpcTypes'
  <2>1. PICK k \in 0..Len(wire[Grpc!Server(c)]) :
          wire' = [wire EXCEPT ![Grpc!Client(c)] = <<>>,
                               ![Grpc!Server(c)] = SubSeq(@, 1, k)]
    BY <1>3 DEF Grpc!CallFails
  <2>2. wire[Grpc!Server(c)] \in Seq(Messages) /\ Grpc!Client(c) # Grpc!Server(c)
    BY <1>a DEF GrpcTypes, Grpc!Client, Grpc!Server
  <2>3. wire' = [wire EXCEPT ![Grpc!Client(c)] = <<>>,
                             ![Grpc!Server(c)] = SubSeq(wire[Grpc!Server(c)], 1, k)]
    BY <2>1, <2>2
  <2>4. SubSeq(wire[Grpc!Server(c)], 1, k) \in Seq(Messages) /\ <<>> \in Seq(Messages)
    BY <2>2
  <2>5. wire' \in [Ends -> Seq(Messages)]
    BY <1>a, <2>3, <2>4 DEF GrpcTypes
  <2> QED  BY <1>3, <1>a, <2>5 DEF Grpc!CallFails, GrpcTypes
<1>4. ASSUME NEW x \in Ends, GrpcSend(x) PROVE GrpcTypes'
  <2>1. PICK m \in Messages : Grpc!Write(x, m)
    BY <1>4 DEF GrpcSend
  <2> QED  BY <2>1 DEF Grpc!Write, GrpcTypes
<1>5. ASSUME NEW x \in Ends, Grpc!Data(x) PROVE GrpcTypes'
  <2>1. wire[T!Peer(x)] \in Seq(Messages) /\ wire[T!Peer(x)] # <<>>
    BY <1>5, <1>b DEF Grpc!Data, GrpcTypes
  <2>2. Head(wire[T!Peer(x)]) \in Messages /\ Tail(wire[T!Peer(x)]) \in Seq(Messages)
    BY <2>1
  <2> QED  BY <1>5, <1>b, <2>2 DEF Grpc!Data, GrpcTypes
<1>6. ASSUME NEW x \in Ends, Grpc!CloseCall(x) \/ Grpc!End(x) PROVE GrpcTypes'
  BY <1>6 DEF Grpc!CloseCall, Grpc!End, GrpcTypes
<1> QED  BY <1>1, <1>2, <1>3, <1>4, <1>5, <1>6 DEF Grpc!Next, Grpc!Link, GrpcSend

\* What each end takes, step by step.
LEMMA GrpcTakesInductive ==
  ASSUME GrpcInv, Grpc!Next, NEW e \in Ends
  PROVE  GrpcTakes(e)'
<1> DEFINE p == T!Peer(e)
<1>a. /\ \A c \in Conns : /\ Grpc!Client(c) \in Ends /\ Grpc!Server(c) \in Ends
                          /\ T!Peer(Grpc!Client(c)) = Grpc!Server(c)
                          /\ T!Peer(Grpc!Server(c)) = Grpc!Client(c)
      /\ Grpc!Ends = Ends
  BY PairFacts, SameEnds
<1>b. p \in Ends /\ p # e /\ T!Peer(p) = e /\ Grpc!Peer(e) = p /\ Grpc!Peer(p) = e /\ p' = p
  BY PeerFacts DEF T!Peer
<1>d. /\ sock \in [Ends -> {"none", "up", "lost"}]
      /\ connected \in [Ends -> BOOLEAN] /\ fin \in [Ends -> BOOLEAN]
      /\ wire \in [Ends -> Seq(Messages)] /\ closed \in [Ends -> BOOLEAN]
      /\ sent \in [Ends -> Seq(Messages)] /\ got \in [Ends -> Seq(Messages)]
  BY DEF GrpcInv, GrpcTypes
<1>c. /\ got[e] \in Seq(Messages) /\ wire[p] \in Seq(Payload) /\ sent[p] \in Seq(Messages)
      /\ wire[p] \in Seq(Messages)
  BY <1>b, <1>d DEF Payload
<1>e. /\ InOrder(got[e], sent[p])
      /\ UnderWay(got[e], wire[p], sent[p])
      /\ sock[p] = "none" \/ (connected[p] /\ sock[p] = "up") =>
           Whole(got[e], wire[p], sent[p])
      /\ closed[e] => /\ sock[e] # "none" /\ ~connected[e]
                      /\ sock[e] = "up" => fin[p] /\ wire[p] = <<>>
      /\ fin[e] => sock[e] = "lost" \/ (sock[e] = "up" /\ ~connected[e])
      /\ fin[p] => sock[p] = "lost" \/ (sock[p] = "up" /\ ~connected[p])
  BY <1>b DEF GrpcInv, GrpcTakes
<1>f. ASSUME /\ InOrder(got'[e], sent'[p])
             /\ UnderWay(got'[e], wire'[p], sent'[p])
             /\ sock'[p] = "none" \/ (connected'[p] /\ sock'[p] = "up") =>
                  Whole(got'[e], wire'[p], sent'[p])
             /\ closed'[e] => /\ sock'[e] # "none" /\ ~connected'[e]
                              /\ sock'[e] = "up" => fin'[p] /\ wire'[p] = <<>>
             /\ fin'[e] => sock'[e] = "lost" \/ (sock'[e] = "up" /\ ~connected'[e])
      PROVE  GrpcTakes(e)'
  BY <1>b, <1>f DEF GrpcTakes, InOrder, UnderWay, Whole
<1> HIDE DEF p
<1>g. ASSUME got'[e] = got[e], sent'[p] = sent[p], wire'[p] = wire[p],
             sock'[p] = "none" \/ (connected'[p] /\ sock'[p] = "up") =>
               sock[p] = "none" \/ (connected[p] /\ sock[p] = "up"),
             closed'[e] => /\ sock'[e] # "none" /\ ~connected'[e]
                           /\ sock'[e] = "up" => fin'[p] /\ wire'[p] = <<>>,
             fin'[e] => sock'[e] = "lost" \/ (sock'[e] = "up" /\ ~connected'[e])
      PROVE  GrpcTakes(e)'
  BY <1>e, <1>f, <1>g
<1>1. CASE Grpc!Bind \/ Grpc!Shutdown \/ Grpc!ShutdownDone
  BY <1>1, <1>e, <1>g DEF Grpc!Bind, Grpc!Shutdown, Grpc!ShutdownDone
<1>2. ASSUME NEW c \in Conns, NEW y \in Ends, sock[y] = "none",
             sock' = [sock EXCEPT ![y] = "up"], connected' = [connected EXCEPT ![y] = TRUE],
             UNCHANGED <<wire, fin, sent, got, closed>>
      PROVE  GrpcTakes(e)'
  <2>1. /\ sock'[e] = (IF y = e THEN "up" ELSE sock[e])
        /\ connected'[e] = (IF y = e THEN TRUE ELSE connected[e])
        /\ sock'[p] = (IF y = p THEN "up" ELSE sock[p])
        /\ connected'[p] = (IF y = p THEN TRUE ELSE connected[p])
    BY <1>2, <1>b, <1>d
  <2> QED  BY <1>2, <1>e, <1>g, <2>1
<1>3. ASSUME NEW c \in Conns, Grpc!Create(c) \/ Grpc!bidiStreamHandler(c)
      PROVE  GrpcTakes(e)'
  BY <1>2, <1>3, <1>a DEF Grpc!Create, Grpc!bidiStreamHandler
<1>4. ASSUME NEW c \in Conns, Grpc!CallFails(c) PROVE GrpcTakes(e)'
  <2> DEFINE s == Grpc!Server(c)
             k == Grpc!Client(c)
  <2>1. s \in Ends /\ k \in Ends /\ T!Peer(k) = s /\ T!Peer(s) = k /\ k # s
    BY <1>a, PeerFacts
  <2>2. PICK n \in 0..Len(wire[s]) :
          wire' = [wire EXCEPT ![k] = <<>>, ![s] = SubSeq(@, 1, n)]
    BY <1>4 DEF Grpc!CallFails
  <2>3. /\ sock[k] = "up" /\ ~fin[s] /\ sock' = [sock EXCEPT ![s] = "lost"]
        /\ connected' = [connected EXCEPT ![k] = FALSE] /\ fin' = [fin EXCEPT ![s] = TRUE]
        /\ UNCHANGED <<sent, got, closed>>
    BY <1>4 DEF Grpc!CallFails
  <2> HIDE DEF s, k
  <2>4. wire'[k] = <<>> /\ wire'[s] = SubSeq(wire[s], 1, n)
        /\ \A y \in Ends : y # k /\ y # s => wire'[y] = wire[y]
    BY <1>d, <2>1, <2>2
  <2>5. CASE e = k
    <3>1. p = s
      BY <1>b, <2>1, <2>5 DEF p
    <3>2. UnderWay(got[e], SubSeq(wire[p], 1, n), sent[p])
      BY <1>c, <1>e, <3>1, CutShort
    <3>3. /\ sock'[p] = "lost" /\ ~connected'[e] /\ sock'[e] = "up" /\ ~closed'[e]
      BY <1>b, <1>d, <1>e, <2>3, <2>5, <3>1
    <3> QED  BY <1>e, <1>f, <2>3, <2>4, <3>1, <3>2, <3>3
  <2>6. CASE e = s
    <3>1. p = k
      BY <1>b, <2>1, <2>6 DEF p
    <3>2. UnderWay(got[e], <<>>, sent[p])
      BY NothingUnderWay
    <3>3. /\ sock'[e] = "lost" /\ ~connected'[p] /\ sock'[p] = "up"
          /\ connected'[e] = connected[e]
      BY <1>b, <1>d, <2>3, <2>6, <3>1
    <3> QED  BY <1>e, <1>f, <2>3, <2>4, <3>1, <3>2, <3>3
  <2>7. CASE e # k /\ e # s
    <3>1. p # k /\ p # s
      BY <1>b, <2>1, <2>7 DEF p
    <3>2. /\ sock'[e] = sock[e] /\ sock'[p] = sock[p] /\ connected'[e] = connected[e]
          /\ connected'[p] = connected[p] /\ fin'[e] = fin[e] /\ fin'[p] = fin[p]
          /\ wire'[p] = wire[p]
      BY <1>b, <1>d, <2>3, <2>4, <2>7, <3>1
    <3> QED  BY <1>e, <1>g, <2>3, <3>2
  <2> QED  BY <2>5, <2>6, <2>7
<1>5. ASSUME NEW x \in Ends, x # e, x # p,
             GrpcSend(x) \/ Grpc!Data(x) \/ Grpc!CloseCall(x) \/ Grpc!End(x)
      PROVE  GrpcTakes(e)'
  <2>1. Grpc!Peer(x) \in Ends /\ Grpc!Peer(x) # e /\ Grpc!Peer(x) # p
    BY <1>5, <1>b, PeerFacts
  <2>2. /\ sock'[e] = sock[e] /\ sock'[p] = sock[p] /\ connected'[e] = connected[e]
        /\ connected'[p] = connected[p] /\ fin'[e] = fin[e] /\ fin'[p] = fin[p]
        /\ wire'[p] = wire[p] /\ got'[e] = got[e] /\ sent'[p] = sent[p]
        /\ closed'[e] = closed[e]
    BY <1>5, <1>b, <1>d, <2>1 DEF GrpcSend, Grpc!Write, Grpc!Data, Grpc!CloseCall, Grpc!End
  <2> QED  BY <1>e, <1>g, <2>2
<1>6. CASE GrpcSend(e) \/ Grpc!Data(p)
  <2>1. /\ UNCHANGED <<sock, connected, fin, closed>> /\ wire'[p] = wire[p]
        /\ got'[e] = got[e] /\ sent'[p] = sent[p]
    BY <1>6, <1>b, <1>d DEF GrpcSend, Grpc!Write, Grpc!Data
  <2> QED  BY <1>e, <1>g, <2>1
<1>7. CASE GrpcSend(p)
  <2>1. PICK m \in Messages : sent'[p] = Append(sent[p], m) /\ wire'[p] = Append(wire[p], m)
    BY <1>7, <1>b, <1>d DEF GrpcSend, Grpc!Write
  <2>2. UNCHANGED <<sock, connected, fin, got, closed>> /\ connected[p] /\ sock[p] = "up"
    BY <1>7 DEF GrpcSend, Grpc!Write
  <2>3. InOrder(got[e], Append(sent[p], m))
    BY <1>c, <1>e, StillInOrder
  <2>4. /\ UnderWay(got[e], Append(wire[p], m), Append(sent[p], m))
        /\ Whole(got[e], Append(wire[p], m), Append(sent[p], m))
    BY <1>c, <1>e, <2>2, Written
  <2> QED  BY <1>e, <1>f, <2>1, <2>2, <2>3, <2>4
<1>8. CASE Grpc!Data(e)
  <2>1. /\ wire[p] # <<>> /\ UNCHANGED <<sock, connected, fin, sent, closed>> /\ sock[e] = "up"
        /\ got'[e] = Append(got[e], Head(wire[p])) /\ wire'[p] = Tail(wire[p])
    BY <1>8, <1>b, <1>d DEF Grpc!Data
  <2>2. Head(wire[p]) # CLOSE
    BY <1>c, <2>1, TransportsAssumption
  <2>3. /\ InOrder(Append(got[e], Head(wire[p])), sent[p])
        /\ UnderWay(Append(got[e], Head(wire[p])), Tail(wire[p]), sent[p])
        /\ Whole(got[e], wire[p], sent[p]) =>
             Whole(Append(got[e], Head(wire[p])), Tail(wire[p]), sent[p])
    BY <1>c, <1>e, <2>1, <2>2, Read
  <2> QED  BY <1>e, <1>f, <2>1, <2>3
<1>9. CASE Grpc!CloseCall(e) \/ Grpc!CloseCall(p)
  <2>1. PICK y \in {e, p} : Grpc!CloseCall(y)
    BY <1>9
  <2>2. /\ sock[y] # "none" /\ connected[y] /\ fin' = [fin EXCEPT ![y] = TRUE]
        /\ connected' = [connected EXCEPT ![y] = FALSE]
        /\ UNCHANGED <<sock, wire, sent, got, closed>>
    BY <2>1 DEF Grpc!CloseCall
  <2>3. /\ fin'[e] = (IF y = e THEN TRUE ELSE fin[e])
        /\ fin'[p] = (IF y = p THEN TRUE ELSE fin[p])
        /\ connected'[e] = (IF y = e THEN FALSE ELSE connected[e])
        /\ connected'[p] = (IF y = p THEN FALSE ELSE connected[p])
        /\ sock[e] \in {"none", "up", "lost"}
    BY <1>b, <1>d, <2>2
  <2> QED  BY <1>e, <1>g, <2>2, <2>3
<1>10. CASE Grpc!End(e)
  <2>1. /\ sock[e] = "up" /\ ~connected'[e] /\ closed'[e] /\ connected'[p] = connected[p]
        /\ fin[p] /\ wire[p] = <<>> /\ UNCHANGED <<sock, wire, fin, sent, got>>
    BY <1>10, <1>b, <1>d DEF Grpc!End
  <2> QED  BY <1>e, <1>g, <2>1
<1>11. CASE Grpc!End(p)
  <2>1. /\ ~connected'[p] /\ closed'[e] = closed[e] /\ connected'[e] = connected[e]
        /\ UNCHANGED <<sock, wire, fin, sent, got>> /\ sock[p] = "up"
    BY <1>11, <1>b, <1>d DEF Grpc!End
  <2> QED  BY <1>e, <1>g, <2>1
<1> QED  BY <1>a, <1>1, <1>3, <1>4, <1>5, <1>6, <1>7, <1>8, <1>9, <1>10, <1>11
         DEF Grpc!Next, Grpc!Link, GrpcSend

\* What is written extends what was sent, at an end that is not closed.
LEMMA GrpcSends ==
  ASSUME GrpcInv, NEW x \in Ends, GrpcSend(x)
  PROVE  Sending(x)
<1>1. PICK m \in Messages : Grpc!Write(x, m)
  BY DEF GrpcSend
<1>2. ~closed[x]
  BY <1>1 DEF Grpc!Write, GrpcInv, GrpcTakes
<1> QED  BY <1>1, <1>2 DEF Grpc!Write, Sending

\* Every step is one of the abstract transport's, or none.
LEMMA GrpcStepRefines ==
  ASSUME GrpcInv, Grpc!Next
  PROVE  [Moving]_<<sent, got, closed>>
<1> USE SameEnds
<1>a. /\ wire \in [Ends -> Seq(Messages)] /\ closed \in [Ends -> BOOLEAN]
      /\ sent \in [Ends -> Seq(Messages)] /\ got \in [Ends -> Seq(Messages)]
  BY DEF GrpcInv, GrpcTypes
<1>1. CASE Grpc!Bind \/ Grpc!Shutdown \/ Grpc!ShutdownDone
  BY <1>1 DEF Grpc!Bind, Grpc!Shutdown, Grpc!ShutdownDone
<1>2. ASSUME NEW c \in Conns, Grpc!Create(c) \/ Grpc!bidiStreamHandler(c) \/ Grpc!CallFails(c)
      PROVE  UNCHANGED <<sent, got, closed>>
  BY <1>2 DEF Grpc!Create, Grpc!bidiStreamHandler, Grpc!CallFails
<1>3. ASSUME NEW x \in Ends, Grpc!CloseCall(x) PROVE UNCHANGED <<sent, got, closed>>
  BY <1>3 DEF Grpc!CloseCall
<1>4. ASSUME NEW x \in Ends, GrpcSend(x) PROVE Sending(x)
  BY <1>4, GrpcSends
<1>5. ASSUME NEW x \in Ends, Grpc!Data(x) PROVE Arriving(x)
  <2> DEFINE p == T!Peer(x)
  <2>1. p \in Ends /\ Grpc!Peer(x) = p
    BY PeerFacts
  <2>2. /\ wire[p] # <<>> /\ UNCHANGED <<sent, closed>> /\ sock[x] = "up"
        /\ got' = [got EXCEPT ![x] = Append(got[x], Head(wire[p]))]
    BY <1>5, <2>1 DEF Grpc!Data
  <2>3. UnderWay(got[x], wire[p], sent[p]) /\ InOrder(got[x], sent[p]) /\ ~closed[x]
    BY <2>2 DEF GrpcInv, GrpcTakes
  <2> HIDE DEF p
  <2>4. /\ got[x] \in Seq(Messages) /\ wire[p] \in Seq(Payload) /\ sent[p] \in Seq(Messages)
        /\ wire[p] \in Seq(Messages)
    BY <1>a, <2>1 DEF Payload
  <2>5. Head(wire[p]) # CLOSE
    BY <2>2, <2>4, TransportsAssumption
  <2>6. /\ Len(got[x]) + 1 <= Len(sent[p])
        /\ Append(got[x], Head(wire[p])) = SubSeq(sent[p], 1, Len(got[x]) + 1)
    BY <2>2, <2>3, <2>4, <2>5, Read
  <2>7. Len(got[x]) + 1 \in (Len(got[x]) + 1)..Len(sent[p])
    BY <2>4, <2>6
  <2>8. \E n \in (Len(got[x]) + 1)..Len(sent[p]) :
          got' = [got EXCEPT ![x] = SubSeq(sent[p], 1, n)]
    BY <2>2, <2>6, <2>7
  <2> QED  BY <2>2, <2>3, <2>8 DEF Arriving, p
<1>6. ASSUME NEW x \in Ends, Grpc!End(x) PROVE Closing({x})
  <2>1. ~closed[x] /\ closed' = [closed EXCEPT ![x] = TRUE] /\ UNCHANGED <<sent, got>>
    BY <1>6 DEF Grpc!End
  <2>2. closed' = [y \in Ends |-> closed[y] \/ y \in {x}]
    BY <1>a, <2>1
  <2> QED  BY <2>1, <2>2 DEF Closing
<1>7. \A x \in Ends : {x} \in SUBSET Ends
  OBVIOUS
<1> QED  BY <1>1, <1>2, <1>3, <1>4, <1>5, <1>6, <1>7 DEF Grpc!Next, Grpc!Link, GrpcSend, Moving

-----------------------------------------------------------------------------
(* TCP: induction                                                          *)

\* Induction over the naturals, for a set instead of a predicate.
LEMMA Induction ==
  ASSUME NEW P, 0 \in P, \A n \in Nat : n \in P => n + 1 \in P
  PROVE  Nat \subseteq P
<1> DEFINE Others == Nat \ P
<1> SUFFICES ASSUME Others # {} PROVE FALSE
  OBVIOUS
<1>1. IsWellFoundedOn(OpToRel(<, Nat), Nat)
  BY NatLessThanWellFounded
<1>2. PICK n \in Others : \A m \in Others : ~(<<m, n>> \in OpToRel(<, Nat))
  BY <1>1, WFMin, Zenon
<1>3. n \in Nat /\ n # 0 /\ n - 1 \in Nat
  OBVIOUS
<1>4. n - 1 \notin P
  BY <1>3
<1>5. n - 1 \in Others /\ n - 1 < n
  BY <1>3, <1>4
<1> HIDE DEF Others
<1>6. <<n - 1, n>> \in OpToRel(<, Nat)
  BY <1>3, <1>5 DEF OpToRel
<1> QED  BY <1>2, <1>5, <1>6

\* A loop body repeated any number of times: what a recursive function over the
\* naturals defines.
Iterations(S, s, body) ==
  {f \in [Nat -> S] : f[0] = s /\ \A n \in Nat : f[n + 1] = body[f[n]]}

LEMMA Iteration ==
  ASSUME NEW S, NEW s \in S, NEW body \in [S -> S]
  PROVE  Iterations(S, s, body) # {}
<1> DEFINE Run(n, g) == g \in [0..n -> S] /\ g[0] = s /\ \A k \in 0..(n - 1) : g[k + 1] = body[g[k]]
           Runs == {n \in Nat : \E g : Run(n, g)}
<1>1. 0 \in Runs
  <2>1. Run(0, [k \in 0..0 |-> s])
    OBVIOUS
  <2> QED  BY <2>1
<1>2. ASSUME NEW n \in Nat, n \in Runs PROVE n + 1 \in Runs
  <2>1. PICK g : Run(n, g)
    BY <1>2
  <2> DEFINE h == [k \in 0..(n + 1) |-> IF k = n + 1 THEN body[g[n]] ELSE g[k]]
  <2>2. n \in 0..n /\ g[n] \in S
    BY <2>1
  <2>3. h \in [0..(n + 1) -> S] /\ h[0] = s
    BY <2>1, <2>2
  <2>4. ASSUME NEW k \in 0..n PROVE h[k + 1] = body[h[k]]
    <3>1. CASE k = n
      BY <3>1
    <3>2. CASE k \in 0..(n - 1)
      BY <3>2, <2>1
    <3> QED  BY <3>1, <3>2
  <2> HIDE DEF h
  <2>5. Run(n + 1, h)
    BY <2>3, <2>4
  <2> QED  BY <2>5
<1>3. Nat \subseteq Runs
  <2> HIDE DEF Runs
  <2> QED  BY <1>1, <1>2, Induction
<1>4. ASSUME NEW n \in Nat, NEW m \in Nat, n <= m, NEW g, NEW h, Run(n, g), Run(m, h)
      PROVE  g[n] = h[n]
  <2> DEFINE Same == {k \in Nat : k <= n => g[k] = h[k]}
  <2>1. 0 \in Same
    BY <1>4
  <2>2. ASSUME NEW k \in Nat, k \in Same PROVE k + 1 \in Same
    BY <1>4, <2>2
  <2>3. Nat \subseteq Same
    <3> HIDE DEF Same
    <3> QED  BY <2>1, <2>2, Induction
  <2> QED  BY <2>3
<1> DEFINE the(n) == CHOOSE g : Run(n, g)
           f == [n \in Nat |-> the(n)[n]]
<1>5. \A n \in Nat : Run(n, the(n))
  <2> SUFFICES ASSUME NEW n \in Nat PROVE Run(n, the(n))
    OBVIOUS
  <2>1. \E g : Run(n, g)
    BY <1>3
  <2> HIDE DEF Run
  <2> QED  BY <2>1, Zenon
<1> HIDE DEF the
<1>6. f \in [Nat -> S]
  BY <1>5
<1>7. f[0] = s
  BY <1>5
<1>8. ASSUME NEW n \in Nat PROVE f[n + 1] = body[f[n]]
  <2>1. Run(n + 1, the(n + 1)) /\ Run(n, the(n))
    BY <1>5
  <2>2. the(n)[n] = the(n + 1)[n]
    <3> HIDE DEF Run
    <3> QED  BY <2>1, <1>4
  <2>3. the(n + 1)[n + 1] = body[the(n + 1)[n]]
    BY <2>1
  <2> QED  BY <2>2, <2>3
<1> HIDE DEF f
<1> QED  BY <1>6, <1>7, <1>8 DEF Iterations

LEMMA LeastExists ==
  ASSUME NEW S \in SUBSET Nat, S # {}
  PROVE  \E m \in S : \A k \in S : m <= k
<1> DEFINE less == OpToRel(<, Nat)
<1>1. IsWellFoundedOn(less, Nat)
  BY NatLessThanWellFounded, Zenon
<1>2. \A a, b \in Nat : a < b => <<a, b>> \in less
  BY DEF OpToRel
<1> HIDE DEF less
<1>3. PICK m \in S : \A k \in S : <<k, m>> \notin less
  BY <1>1, WFMin
<1>4. ASSUME NEW k \in S PROVE m <= k
  <2>1. ~(k < m)
    BY <1>2, <1>3
  <2> QED  BY <2>1
<1> QED  BY <1>4

Sizes == {1, 2, 4, 8}

LEMMA ByteOfWord ==
  ASSUME NEW v \in Nat
  PROVE  v % 256 \in 0..255 /\ v \div 256 \in Nat /\ v % 256 = v - 256 * (v \div 256)
  BY SMT

LEMMA WordWritten ==
  ASSUME NEW v \in Nat, Tcp!High(v) = 0
  PROVE  /\ Tcp!writeUInt32BE(v) \in Seq(Tcp!Bytes) /\ Len(Tcp!writeUInt32BE(v)) = 4
         /\ Tcp!readUInt32BE(Tcp!writeUInt32BE(v), 1) = v
<1> DEFINE w == Tcp!writeUInt32BE(v)
           a == v \div 256
           b == v \div 65536
           c == v \div 16777216
           r0 == v % 256
           r1 == a % 256
           r2 == b % 256
<1>1. (v \div 65536) \div 65536 = 0
  BY DEF Tcp!High
<1>2. a \in Nat /\ b \in Nat /\ c \in 0..255
  BY <1>1, SMT
<1>3. b = a \div 256 /\ c = b \div 256
  BY SMT
<1>4. w = <<c, r2, r1, r0>>
  BY DEF Tcp!writeUInt32BE
<1> HIDE DEF a, b, c, w
<1>5. /\ r0 \in 0..255 /\ r0 = v - 256 * a
      /\ r1 \in 0..255 /\ r1 = a - 256 * b
      /\ r2 \in 0..255 /\ r2 = b - 256 * c
  BY <1>2, <1>3, ByteOfWord DEF a
<1> HIDE DEF r0, r1, r2
<1>6. Len(w) = 4 /\ w[1] = c /\ w[2] = r2 /\ w[3] = r1 /\ w[4] = r0
  BY <1>4
<1>7. w \in Seq(Tcp!Bytes)
  BY <1>2, <1>4, <1>5 DEF Tcp!Bytes
<1>8. 256 * (256 * (256 * c + r2) + r1) + r0 = v
  BY <1>2, <1>5
<1>9. Tcp!readUInt32BE(w, 1) = v
  BY <1>6, <1>8 DEF Tcp!readUInt32BE
<1> QED  BY <1>6, <1>7, <1>9 DEF w

LEMMA HighAndLow ==
  ASSUME NEW v \in Nat
  PROVE  /\ Tcp!High(v) \in Nat /\ Tcp!Low(v) \in Nat /\ Tcp!High(Tcp!Low(v)) = 0
         /\ 65536 * (65536 * Tcp!High(v)) + Tcp!Low(v) = v
  BY SMT DEF Tcp!High, Tcp!Low

LEMMA LengthWritten ==
  ASSUME NEW n \in Nat, n \in Sizes, NEW len \in Nat, Tcp!Fits(len, n)
  PROVE  /\ Tcp!writeLength(len, n) \in Seq(Tcp!Bytes) /\ Len(Tcp!writeLength(len, n)) = n
         /\ Tcp!readLength(Tcp!writeLength(len, n), n) = len
<1>1. CASE n = 1
  BY <1>1, SMT DEF Tcp!Fits, Tcp!writeLength, Tcp!readLength, Tcp!Bytes
<1>2. CASE n = 2
  <2> DEFINE q == len \div 256
             r == len % 256
  <2>1. len < 65536
    BY <1>2, SMT DEF Tcp!Fits
  <2>2. q \in 0..255 /\ r \in 0..255 /\ r = len - 256 * q
    BY <2>1, ByteOfWord
  <2>3. Tcp!writeLength(len, n) = <<q, r>>
    BY <1>2 DEF Tcp!writeLength
  <2> HIDE DEF q, r
  <2>4. 256 * q + r = len
    BY <2>2
  <2>5. <<q, r>> \in Seq(Tcp!Bytes)
    BY <2>2 DEF Tcp!Bytes
  <2>6. Tcp!readLength(<<q, r>>, 2) = 256 * q + r
    BY DEF Tcp!readLength
  <2> QED  BY <1>2, <2>3, <2>4, <2>5, <2>6
<1>3. CASE n = 4
  BY <1>3, WordWritten, SMT DEF Tcp!Fits, Tcp!writeLength, Tcp!readLength
<1>4. CASE n = 8
  <2> DEFINE h == Tcp!writeUInt32BE(Tcp!High(len))
             l == Tcp!writeUInt32BE(Tcp!Low(len))
  <2>1. Tcp!writeLength(len, n) = h \o l /\ Tcp!High(Tcp!High(len)) = 0
    BY <1>4 DEF Tcp!Fits, Tcp!writeLength
  <2>2. /\ h \in Seq(Tcp!Bytes) /\ Len(h) = 4 /\ Tcp!readUInt32BE(h, 1) = Tcp!High(len)
        /\ l \in Seq(Tcp!Bytes) /\ Len(l) = 4 /\ Tcp!readUInt32BE(l, 1) = Tcp!Low(len)
    <3> DEFINE high == Tcp!High(len)
               low == Tcp!Low(len)
    <3>1. high \in Nat /\ low \in Nat /\ Tcp!High(low) = 0 /\ Tcp!High(high) = 0
      BY <2>1, HighAndLow
    <3> HIDE DEF high, low
    <3>2. /\ Tcp!writeUInt32BE(high) \in Seq(Tcp!Bytes) /\ Len(Tcp!writeUInt32BE(high)) = 4
          /\ Tcp!readUInt32BE(Tcp!writeUInt32BE(high), 1) = high
      BY <3>1, WordWritten
    <3>3. /\ Tcp!writeUInt32BE(low) \in Seq(Tcp!Bytes) /\ Len(Tcp!writeUInt32BE(low)) = 4
          /\ Tcp!readUInt32BE(Tcp!writeUInt32BE(low), 1) = low
      BY <3>1, WordWritten
    <3> QED  BY <3>2, <3>3 DEF high, low
  <2> HIDE DEF h, l
  <2>3. /\ h \o l \in Seq(Tcp!Bytes) /\ Len(h \o l) = Len(h) + Len(l)
        /\ \A i \in 1..(Len(h) + Len(l)) :
             (h \o l)[i] = IF i <= Len(h) THEN h[i] ELSE l[i - Len(h)]
    BY <2>2, ConcatProperties, Zenon
  <2>4. /\ Tcp!readUInt32BE(h \o l, 1) = Tcp!High(len)
        /\ Tcp!readUInt32BE(h \o l, 5) = Tcp!Low(len)
    <3> DEFINE w == h \o l
    <3>1. \A i \in 1..8 : w[i] = IF i <= 4 THEN h[i] ELSE l[i - 4]
      BY <2>2, <2>3
    <3> HIDE DEF w
    <3>2. /\ w[1] = h[1] /\ w[1 + 1] = h[1 + 1] /\ w[1 + 2] = h[1 + 2] /\ w[1 + 3] = h[1 + 3]
          /\ w[5] = l[1] /\ w[5 + 1] = l[1 + 1] /\ w[5 + 2] = l[1 + 2] /\ w[5 + 3] = l[1 + 3]
      BY <3>1
    <3>3. /\ Tcp!readUInt32BE(w, 1) = Tcp!readUInt32BE(h, 1)
          /\ Tcp!readUInt32BE(w, 5) = Tcp!readUInt32BE(l, 1)
      BY <3>2, Zenon DEF Tcp!readUInt32BE
    <3> QED  BY <2>2, <3>3 DEF w
  <2>5. Tcp!readLength(h \o l, 8) = 65536 * (65536 * Tcp!High(len)) + Tcp!Low(len)
    BY <2>4 DEF Tcp!readLength
  <2>6. 65536 * (65536 * Tcp!High(len)) + Tcp!Low(len) = len
    BY HighAndLow
  <2>7. Len(h \o l) = 8
    BY <2>2, <2>3
  <2>8. Tcp!readLength(h \o l, 8) = len
    BY <2>5, <2>6
  <2> QED  BY <1>4, <2>1, <2>3, <2>7, <2>8, Zenon
<1> QED  BY <1>1, <1>2, <1>3, <1>4 DEF Sizes

\* Only the bytes of the field matter.
LEMMA LengthReadAlike ==
  ASSUME NEW n \in Nat, n \in Sizes, NEW a, NEW b,
         \A i \in 1..n : a[i] \in Nat /\ b[i] = a[i]
  PROVE  Tcp!readLength(a, n) = Tcp!readLength(b, n) /\ Tcp!readLength(a, n) \in Nat
<1>1. ASSUME NEW i \in Nat, i >= 1, n >= i + 3
      PROVE  Tcp!readUInt32BE(a, i) = Tcp!readUInt32BE(b, i) /\ Tcp!readUInt32BE(a, i) \in Nat
  <2>1. i \in 1..n /\ i + 1 \in 1..n /\ i + 2 \in 1..n /\ i + 3 \in 1..n
    BY <1>1
  <2>2. /\ a[i] \in Nat /\ a[i + 1] \in Nat /\ a[i + 2] \in Nat /\ a[i + 3] \in Nat
        /\ b[i] = a[i] /\ b[i + 1] = a[i + 1] /\ b[i + 2] = a[i + 2] /\ b[i + 3] = a[i + 3]
    BY <2>1
  <2>3. 256 * (256 * (256 * a[i] + a[i + 1]) + a[i + 2]) + a[i + 3] \in Nat
    BY <2>2
  <2> QED  BY <2>2, <2>3 DEF Tcp!readUInt32BE
<1>2. CASE n = 1
  BY <1>2 DEF Tcp!readLength
<1>3. CASE n = 2
  <2>1. a[1] \in Nat /\ a[2] \in Nat /\ b[1] = a[1] /\ b[2] = a[2]
    BY <1>3
  <2>2. 256 * a[1] + a[2] \in Nat
    BY <2>1
  <2> QED  BY <1>3, <2>1, <2>2 DEF Tcp!readLength
<1>4. CASE n = 4
  BY <1>1, <1>4 DEF Tcp!readLength
<1>5. CASE n = 8
  <2>1. /\ Tcp!readUInt32BE(a, 1) \in Nat /\ Tcp!readUInt32BE(a, 5) \in Nat
        /\ Tcp!readUInt32BE(a, 1) = Tcp!readUInt32BE(b, 1)
        /\ Tcp!readUInt32BE(a, 5) = Tcp!readUInt32BE(b, 5)
    BY <1>1, <1>5
  <2>2. 65536 * (65536 * Tcp!readUInt32BE(a, 1)) + Tcp!readUInt32BE(a, 5) \in Nat
    BY <2>1
  <2> QED  BY <1>5, <2>1, <2>2 DEF Tcp!readLength
<1> QED  BY <1>2, <1>3, <1>4, <1>5 DEF Sizes

-----------------------------------------------------------------------------
(* Frames                                                                  *)

Framing(f) ==
  \/ f.lengthFieldLength \in Sizes
  \/ /\ f.lengthFieldLength = 0
     /\ f.delimiter \in Seq(Tcp!Bytes) /\ f.delimiter # <<>>

\* m is a message that f can carry
Carried(m, f) ==
  /\ m \in Seq(Tcp!Bytes)
  /\ f.lengthFieldLength > 0 => Tcp!Fits(Len(m), f.lengthFieldLength)
  /\ f.lengthFieldLength = 0 =>
       \A i \in 1..Len(m) : ~Tcp!Occurs(f.delimiter, m \o f.delimiter, i)

LEMMA ByteAt ==
  ASSUME NEW b \in Seq(Tcp!Bytes), NEW i \in 1..Len(b)
  PROVE  b[i] \in Tcp!Bytes /\ b[i] \in Nat
<1>1. b[i] \in Tcp!Bytes
  OBVIOUS
<1>2. \A v \in Tcp!Bytes : v \in Nat
  BY DEF Tcp!Bytes
<1> QED  BY <1>1, <1>2

LEMMA SubSeqIs ==
  ASSUME NEW d \in Seq(Tcp!Bytes), NEW b \in Seq(Tcp!Bytes), NEW k \in 1..Len(b),
         k + Len(d) - 1 <= Len(b)
  PROVE  SubSeq(b, k, k + Len(d) - 1) = d <=> \A j \in 1..Len(d) : b[k + j - 1] = d[j]
<1> DEFINE s == SubSeq(b, k, k + Len(d) - 1)
<1>1. s \in Seq(Tcp!Bytes) /\ Len(s) = Len(d)
  OBVIOUS
<1>2. \A j \in 1..Len(d) : s[j] = b[k + j - 1]
  OBVIOUS
<1> HIDE DEF s
<1>3. s = d <=> \A j \in 1..Len(d) : s[j] = d[j]
  BY <1>1, SeqEqual
<1> QED  BY <1>2, <1>3 DEF s

LEMMA FirstOccurrence ==
  ASSUME NEW d \in Seq(Tcp!Bytes), NEW b \in Seq(Tcp!Bytes), \E i \in 1..Len(b) : Tcp!Occurs(d, b, i)
  PROVE  /\ Tcp!IndexOf(d, b) \in 1..Len(b) /\ Tcp!Occurs(d, b, Tcp!IndexOf(d, b))
         /\ \A j \in 1..(Tcp!IndexOf(d, b) - 1) : ~Tcp!Occurs(d, b, j)
<1> DEFINE S == {i \in 1..Len(b) : Tcp!Occurs(d, b, i)}
<1>1. PICK i \in S : \A k \in S : i <= k
  <2>1. S \in SUBSET Nat /\ S # {}
    OBVIOUS
  <2> HIDE DEF S
  <2> QED  BY <2>1, LeastExists
<1>2. \A j \in 1..(i - 1) : j \in 1..Len(b) /\ ~(i <= j)
  OBVIOUS
<1>3. i \in 1..Len(b) /\ Tcp!Occurs(d, b, i) /\ \A j \in 1..(i - 1) : ~Tcp!Occurs(d, b, j)
  BY <1>1, <1>2
<1> QED  BY <1>3, Zenon DEF Tcp!IndexOf

\* A frame takes some of the buffer.
LEMMA FrameShortens ==
  ASSUME NEW f, Framing(f), NEW b \in Seq(Tcp!Bytes), Tcp!HasFrame(b, f)
  PROVE  /\ Tcp!Frame(b, f).after \in Seq(Tcp!Bytes)
         /\ Len(Tcp!Frame(b, f).after) < Len(b)
<1>1. CASE f.lengthFieldLength \in Sizes
  <2> DEFINE n == f.lengthFieldLength
             len == Tcp!readLength(b, n)
  <2>1. n \in Nat /\ n > 0 /\ n \in Sizes
    BY <1>1 DEF Sizes
  <2>2. Len(b) >= n /\ Len(b) >= n + len
    BY <2>1 DEF Tcp!HasFrame
  <2>3. Tcp!Frame(b, f).after = SubSeq(b, n + len + 1, Len(b))
    BY <2>1 DEF Tcp!Frame, Tcp!From
  <2> HIDE DEF len, n
  <2>4. \A i \in 1..n : b[i] \in Nat /\ b[i] = b[i]
    <3> SUFFICES ASSUME NEW i \in 1..n PROVE b[i] \in Nat
      OBVIOUS
    <3>1. i \in 1..Len(b)
      BY <2>1, <2>2
    <3> QED  BY <3>1, ByteAt
  <2>5. len \in Nat
    BY <2>1, <2>4, LengthReadAlike DEF len
  <2>6. SubSeq(b, n + len + 1, Len(b)) \in Seq(Tcp!Bytes)
    BY <2>1, <2>5
  <2>7. Len(SubSeq(b, n + len + 1, Len(b))) < Len(b)
    BY <2>1, <2>2, <2>5
  <2> QED  BY <2>3, <2>6, <2>7
<1>2. CASE f.lengthFieldLength = 0 /\ f.delimiter \in Seq(Tcp!Bytes) /\ f.delimiter # <<>>
  <2> DEFINE d == f.delimiter
             i == Tcp!IndexOf(d, b)
  <2>1. ~(f.lengthFieldLength > 0)
    BY <1>2
  <2>2. \E k \in 1..Len(b) : Tcp!Occurs(d, b, k)
    BY <2>1 DEF Tcp!HasFrame
  <2>3. i \in 1..Len(b)
    BY <1>2, <2>2, FirstOccurrence
  <2>4. Tcp!Frame(b, f).after = SubSeq(b, i + Len(d), Len(b))
    BY <2>1 DEF Tcp!Frame, Tcp!From
  <2>5. d \in Seq(Tcp!Bytes) /\ Len(d) \in Nat /\ Len(d) > 0
    BY <1>2
  <2> HIDE DEF d, i
  <2>6. SubSeq(b, i + Len(d), Len(b)) \in Seq(Tcp!Bytes)
    BY <2>3, <2>5
  <2>7. Len(SubSeq(b, i + Len(d), Len(b))) < Len(b)
    BY <2>3, <2>5
  <2> QED  BY <2>4, <2>6, <2>7
<1> QED  BY <1>1, <1>2 DEF Framing

LEMMA NothingFramed ==
  ASSUME NEW f, Framing(f)
  PROVE  ~Tcp!HasFrame(<<>>, f)
<1>1. CASE f.lengthFieldLength \in Sizes
  BY <1>1 DEF Sizes, Tcp!HasFrame
<1>2. CASE f.lengthFieldLength = 0
  BY <1>2 DEF Tcp!HasFrame
<1> QED  BY <1>1, <1>2 DEF Framing

\* What is read of a buffer that begins as the frame of m does.
LEMMA FrameRead ==
  ASSUME NEW f, Framing(f), NEW m, Carried(m, f), NEW b \in Seq(Tcp!Bytes),
         \A i \in 1..Len(b) : i <= Len(Tcp!frameMessage(m, f)) => b[i] = Tcp!frameMessage(m, f)[i],
         Tcp!HasFrame(b, f)
  PROVE  /\ Len(Tcp!frameMessage(m, f)) <= Len(b)
         /\ Tcp!Frame(b, f).payload = m
         /\ Tcp!Frame(b, f).after = SubSeq(b, Len(Tcp!frameMessage(m, f)) + 1, Len(b))
<1> DEFINE F == Tcp!frameMessage(m, f)
<1>m. m \in Seq(Tcp!Bytes) /\ Len(m) \in Nat
  BY DEF Carried
<1>1. CASE f.lengthFieldLength \in Sizes
  <2> DEFINE n == f.lengthFieldLength
             h == Tcp!writeLength(Len(m), n)
             len == Tcp!readLength(b, n)
  <2>1. n \in Nat /\ n > 0 /\ n \in Sizes
    BY <1>1 DEF Sizes
  <2>2. Len(b) >= n /\ Len(b) >= n + len
    BY <2>1 DEF Tcp!HasFrame
  <2>3. /\ Tcp!Frame(b, f).payload = SubSeq(b, n + 1, n + len)
        /\ Tcp!Frame(b, f).after = SubSeq(b, n + len + 1, Len(b))
    BY <2>1 DEF Tcp!Frame, Tcp!From
  <2>4. F = h \o m /\ Tcp!Fits(Len(m), n)
    BY <2>1 DEF Tcp!frameMessage, Carried
  <2>5. h \in Seq(Tcp!Bytes) /\ Len(h) = n /\ Tcp!readLength(h, n) = Len(m)
    BY <1>m, <2>1, <2>4, LengthWritten
  <2>b. \A i \in 1..Len(b) : i <= Len(F) => b[i] = F[i]
    OBVIOUS
  <2> HIDE DEF n, h, F
  <2>6. /\ F \in Seq(Tcp!Bytes) /\ Len(F) = Len(h) + Len(m)
        /\ \A i \in 1..(Len(h) + Len(m)) : F[i] = IF i <= Len(h) THEN h[i] ELSE m[i - Len(h)]
    BY <1>m, <2>4, <2>5, ConcatProperties, Zenon
  <2>7. ASSUME NEW i \in 1..n PROVE h[i] \in Nat /\ b[i] = h[i]
    <3>1. i \in 1..Len(h) /\ i \in 1..Len(b) /\ i <= Len(F) /\ i \in 1..(Len(h) + Len(m))
      BY <1>m, <2>1, <2>2, <2>5, <2>6
    <3>2. F[i] = h[i] /\ b[i] = F[i]
      BY <2>b, <2>6, <3>1
    <3> QED  BY <2>5, <3>1, <3>2, ByteAt
  <2>8. len = Len(m)
    BY <2>1, <2>5, <2>7, LengthReadAlike
  <2> HIDE DEF len
  <2>9. Len(F) = n + Len(m)
    BY <2>5, <2>6
  <2>10. SubSeq(b, n + 1, n + Len(m)) = m
    <3> DEFINE s == SubSeq(b, n + 1, n + Len(m))
    <3>1. s \in Seq(Tcp!Bytes) /\ Len(s) = Len(m)
      BY <1>m, <2>1, <2>2, <2>8
    <3>2. ASSUME NEW i \in 1..Len(m) PROVE s[i] = m[i]
      <4> DEFINE k == n + i
      <4>1. s[i] = b[k]
        BY <1>m, <2>1, <2>2, <2>8
      <4>2. /\ k \in 1..Len(b) /\ k <= Len(F) /\ k \in 1..(Len(h) + Len(m))
            /\ ~(k <= Len(h)) /\ k - Len(h) = i
        BY <1>m, <2>1, <2>2, <2>5, <2>8, <2>9
      <4> HIDE DEF k
      <4>3. F[k] = m[k - Len(h)]
        BY <2>6, <4>2
      <4>4. b[k] = F[k]
        BY <2>b, <4>2
      <4> QED  BY <4>1, <4>2, <4>3, <4>4
    <3> HIDE DEF s
    <3>3. s = m
      BY <1>m, <3>1, <3>2, SeqEqual
    <3> QED  BY <3>3 DEF s
  <2> QED  BY <2>1, <2>2, <2>3, <2>8, <2>9, <2>10 DEF F
<1>2. CASE f.lengthFieldLength = 0 /\ f.delimiter \in Seq(Tcp!Bytes) /\ f.delimiter # <<>>
  <2> DEFINE d == f.delimiter
             i == Tcp!IndexOf(d, b)
             e == Len(m) + 1
  <2>1. ~(f.lengthFieldLength > 0)
    BY <1>2
  <2>2. \E k \in 1..Len(b) : Tcp!Occurs(d, b, k)
    BY <2>1 DEF Tcp!HasFrame
  <2>3. /\ i \in 1..Len(b) /\ Tcp!Occurs(d, b, i)
        /\ \A j \in 1..(i - 1) : ~Tcp!Occurs(d, b, j)
    BY <1>2, <2>2, FirstOccurrence
  <2>4. /\ Tcp!Frame(b, f).payload = SubSeq(b, 1, i - 1)
        /\ Tcp!Frame(b, f).after = SubSeq(b, i + Len(d), Len(b))
    BY <2>1 DEF Tcp!Frame, Tcp!From
  <2>5. d \in Seq(Tcp!Bytes) /\ Len(d) \in Nat /\ Len(d) > 0
    BY <1>2
  <2>6. F = m \o d
    BY <2>1 DEF Tcp!frameMessage
  <2>7. \A k \in 1..Len(m) : ~Tcp!Occurs(d, F, k)
    BY <1>2, <2>6 DEF Carried
  <2>b. \A k \in 1..Len(b) : k <= Len(F) => b[k] = F[k]
    OBVIOUS
  <2> HIDE DEF F, d, i
  <2>8. /\ F \in Seq(Tcp!Bytes) /\ Len(F) = Len(m) + Len(d)
        /\ \A k \in 1..(Len(m) + Len(d)) : F[k] = IF k <= Len(m) THEN m[k] ELSE d[k - Len(m)]
    BY <1>m, <2>5, <2>6, ConcatProperties, Zenon
  <2>9. ASSUME NEW k \in 1..Len(b)
        PROVE  Tcp!Occurs(d, b, k) <=> /\ k + Len(d) - 1 <= Len(b)
                                       /\ \A j \in 1..Len(d) : b[k + j - 1] = d[j]
    BY <2>5, SubSeqIs DEF Tcp!Occurs
  <2>10. ASSUME NEW k \in 1..Len(F), k + Len(d) - 1 <= Len(F), \A j \in 1..Len(d) : F[k + j - 1] = d[j]
         PROVE  Tcp!Occurs(d, F, k)
    BY <2>5, <2>8, <2>10, SubSeqIs DEF Tcp!Occurs
  <2>11. ~(i <= Len(m))
    <3> SUFFICES ASSUME i <= Len(m) PROVE FALSE
      OBVIOUS
    <3>1. i \in 1..Len(F) /\ i + Len(d) - 1 <= Len(F) /\ i \in 1..Len(m) /\ i + Len(d) - 1 <= Len(b)
      BY <1>m, <2>3, <2>5, <2>8, <2>9
    <3>2. ASSUME NEW j \in 1..Len(d) PROVE F[i + j - 1] = d[j]
      <4> DEFINE k == i + j - 1
      <4>1. k \in 1..Len(b) /\ k <= Len(F)
        BY <2>3, <2>5, <2>8, <3>1
      <4>2. b[k] = d[j]
        BY <2>3, <2>9
      <4> HIDE DEF k
      <4>3. F[k] = d[j]
        BY <2>b, <4>1, <4>2
      <4> QED  BY <4>3 DEF k
    <3> QED  BY <2>7, <2>10, <3>1, <3>2
  <2>12. e <= i
    BY <1>m, <2>3, <2>11
  <2>13. e + Len(d) - 1 <= Len(b)
    BY <1>m, <2>3, <2>5, <2>9, <2>12
  <2>14. Tcp!Occurs(d, b, e)
    <3>1. e \in 1..Len(b)
      BY <1>m, <2>5, <2>13
    <3>2. ASSUME NEW j \in 1..Len(d) PROVE b[e + j - 1] = d[j]
      <4> DEFINE k == e + j - 1
      <4>1. /\ k \in 1..Len(b) /\ k <= Len(F) /\ k \in 1..(Len(m) + Len(d))
            /\ ~(k <= Len(m)) /\ k - Len(m) = j
        BY <1>m, <2>5, <2>8, <2>13
      <4> HIDE DEF k
      <4>2. F[k] = d[k - Len(m)]
        BY <2>8, <4>1
      <4>3. b[k] = d[j]
        BY <2>b, <4>1, <4>2
      <4> QED  BY <4>3 DEF k
    <3> QED  BY <2>9, <2>13, <3>1, <3>2
  <2>15. i = e
    <3>1. ~(e \in 1..(i - 1))
      BY <2>3, <2>14
    <3> QED  BY <1>m, <2>3, <2>12, <3>1
  <2>16. Len(F) <= Len(b) /\ e + Len(d) = Len(F) + 1 /\ i - 1 = Len(m)
    BY <1>m, <2>5, <2>8, <2>13, <2>15
  <2>17. SubSeq(b, 1, Len(m)) = m
    <3> DEFINE s == SubSeq(b, 1, Len(m))
    <3>1. s \in Seq(Tcp!Bytes) /\ Len(s) = Len(m)
      BY <1>m, <2>5, <2>8, <2>16
    <3>2. ASSUME NEW k \in 1..Len(m) PROVE s[k] = m[k]
      <4>1. s[k] = b[k]
        BY <1>m, <2>5, <2>8, <2>16
      <4>2. k \in 1..Len(b) /\ k <= Len(F) /\ k \in 1..(Len(m) + Len(d)) /\ k <= Len(m)
        BY <1>m, <2>5, <2>8, <2>16
      <4>3. F[k] = m[k]
        BY <2>8, <4>2
      <4>4. b[k] = F[k]
        BY <2>b, <4>2
      <4> QED  BY <4>1, <4>3, <4>4
    <3> HIDE DEF s
    <3>3. s = m
      BY <1>m, <3>1, <3>2, SeqEqual
    <3> QED  BY <3>3 DEF s
  <2> QED  BY <2>4, <2>15, <2>16, <2>17 DEF F
<1> QED  BY <1>1, <1>2 DEF Framing

-----------------------------------------------------------------------------
(* The loop                                                                *)

LEMMA LoopIterates ==
  ASSUME NEW f, Framing(f), NEW b \in Seq(Tcp!Bytes)
  PROVE  \E g \in [Nat -> Seq(Tcp!Bytes)] :
           /\ g[0] = b
           /\ \A n \in Nat :
                g[n + 1] = IF Tcp!HasFrame(g[n], f) THEN Tcp!Frame(g[n], f).after ELSE g[n]
<1> DEFINE body == [s \in Seq(Tcp!Bytes) |->
                     IF Tcp!HasFrame(s, f) THEN Tcp!Frame(s, f).after ELSE s]
<1>1. body \in [Seq(Tcp!Bytes) -> Seq(Tcp!Bytes)]
  BY FrameShortens
<1>2. \A s \in Seq(Tcp!Bytes) :
        body[s] = IF Tcp!HasFrame(s, f) THEN Tcp!Frame(s, f).after ELSE s
  OBVIOUS
<1> HIDE DEF body
<1>3. PICK g \in [Nat -> Seq(Tcp!Bytes)] : g[0] = b /\ \A n \in Nat : g[n + 1] = body[g[n]]
  <2>1. Iterations(Seq(Tcp!Bytes), b, body) # {}
    BY <1>1, Iteration, Zenon
  <2> QED  BY <2>1 DEF Iterations
<1> QED  BY <1>2, <1>3

LEMMA LoopBody ==
  ASSUME NEW f, Framing(f), NEW b \in Seq(Tcp!Bytes)
  PROVE  /\ Tcp!readBuffer(b, f) \in [Nat -> Seq(Tcp!Bytes)]
         /\ Tcp!readBuffer(b, f)[0] = b
         /\ \A k \in Nat : Tcp!readBuffer(b, f)[k + 1] =
              LET last == Tcp!readBuffer(b, f)[k]
              IN  IF Tcp!HasFrame(last, f) THEN Tcp!Frame(last, f).after ELSE last
<1> DEFINE next(s) == IF Tcp!HasFrame(s, f) THEN Tcp!Frame(s, f).after ELSE s
           loop(g) == [k \in Nat |-> IF k = 0 THEN b ELSE next(g[k - 1])]
           left == Tcp!readBuffer(b, f)
<1>1. \A s \in Seq(Tcp!Bytes) : next(s) \in Seq(Tcp!Bytes)
  BY FrameShortens
<1>2. left = CHOOSE g : g = loop(g)
  BY DEF Tcp!readBuffer
<1> HIDE DEF next, left
<1>5. PICK g \in [Nat -> Seq(Tcp!Bytes)] : g[0] = b /\ \A n \in Nat : g[n + 1] = next(g[n])
  BY LoopIterates DEF next
<1>6. \A n \in Nat : n # 0 => g[n] = next(g[n - 1])
  <2> SUFFICES ASSUME NEW n \in Nat, n # 0 PROVE g[n] = next(g[n - 1])
    OBVIOUS
  <2>1. n - 1 \in Nat /\ (n - 1) + 1 = n
    OBVIOUS
  <2> QED  BY <1>5, <2>1
<1>7. g = loop(g)
  BY <1>5, <1>6
<1>8. left = loop(left)
  <2> HIDE DEF loop
  <2> QED  BY <1>2, <1>7, Zenon
<1>9. left[0] = b /\ \A k \in Nat : left[k + 1] = next(left[k])
  <2>1. \A k \in Nat : left[k] = IF k = 0 THEN b ELSE next(left[k - 1])
    BY <1>8
  <2>2. \A k \in Nat : k + 1 \in Nat /\ k + 1 # 0 /\ (k + 1) - 1 = k
    OBVIOUS
  <2> QED  BY <2>1, <2>2
<1>10. left \in [Nat -> Seq(Tcp!Bytes)]
  <2> DEFINE Typed == {k \in Nat : left[k] \in Seq(Tcp!Bytes)}
  <2>1. 0 \in Typed
    BY <1>9
  <2>a. ASSUME NEW k \in Nat, k \in Typed PROVE k + 1 \in Typed
    <3>1. left[k + 1] = next(left[k]) /\ left[k] \in Seq(Tcp!Bytes)
      BY <1>9, <2>a
    <3>2. left[k + 1] \in Seq(Tcp!Bytes) /\ k + 1 \in Nat
      BY <1>1, <3>1
    <3> QED  BY <3>2
  <2>2. Nat \subseteq Typed
    <3> HIDE DEF Typed
    <3> QED  BY <2>1, <2>a, Induction
  <2>3. DOMAIN left = Nat /\ left = [k \in DOMAIN left |-> left[k]]
    BY <1>8
  <2> QED  BY <2>2, <2>3
<1> QED  BY <1>9, <1>10 DEF left, next

\* The loop ends, with the first buffer that begins with no whole frame.
LEMMA LoopEnds ==
  ASSUME NEW f, Framing(f), NEW b \in Seq(Tcp!Bytes)
  PROVE  /\ Tcp!Rounds(b, f) \in 0..Len(b)
         /\ ~Tcp!HasFrame(Tcp!readBuffer(b, f)[Tcp!Rounds(b, f)], f)
         /\ \A k \in 0..(Tcp!Rounds(b, f) - 1) : Tcp!HasFrame(Tcp!readBuffer(b, f)[k], f)
<1> DEFINE left == Tcp!readBuffer(b, f)
           Ends0 == {n \in 0..Len(b) : ~Tcp!HasFrame(left[n], f)}
           Short == {k \in Nat : \/ \E n \in 0..(k - 1) : ~Tcp!HasFrame(left[n], f)
                                 \/ Len(left[k]) + k <= Len(b)}
<1>1. /\ left \in [Nat -> Seq(Tcp!Bytes)] /\ left[0] = b
      /\ \A k \in Nat : left[k + 1] =
            IF Tcp!HasFrame(left[k], f) THEN Tcp!Frame(left[k], f).after ELSE left[k]
  BY LoopBody
<1> HIDE DEF left
<1>2. 0 \in Short
  BY <1>1
<1>3. ASSUME NEW k \in Nat, k \in Short PROVE k + 1 \in Short
  <2>1. CASE \E n \in 0..k : ~Tcp!HasFrame(left[n], f)
    BY <2>1
  <2>2. CASE ~\E n \in 0..k : ~Tcp!HasFrame(left[n], f)
    <3>1. Tcp!HasFrame(left[k], f) /\ Len(left[k]) + k <= Len(b)
      BY <1>3, <2>2
    <3>2. left[k + 1] = Tcp!Frame(left[k], f).after
      BY <1>1, <3>1
    <3>a. k \in Nat /\ k + 1 \in Nat
      OBVIOUS
    <3>3. left[k] \in Seq(Tcp!Bytes) /\ left[k + 1] \in Seq(Tcp!Bytes)
      BY <1>1, <3>a, Zenon
    <3>4. Len(left[k + 1]) < Len(left[k])
      BY <3>1, <3>2, <3>3, FrameShortens
    <3>5. Len(left[k]) \in Nat /\ Len(left[k + 1]) \in Nat /\ Len(b) \in Nat
      BY <3>3
    <3>6. \A u, v, w \in Nat : v < u /\ u + k <= w => v + (k + 1) <= w
      OBVIOUS
    <3>7. Len(left[k + 1]) + (k + 1) <= Len(b)
      BY <3>1, <3>4, <3>5, <3>6
    <3> QED  BY <3>a, <3>7
  <2> QED  BY <2>1, <2>2
<1>4. Nat \subseteq Short
  <2> HIDE DEF Short
  <2> QED  BY <1>2, <1>3, Induction
<1>5. Ends0 # {}
  <2>1. Len(b) \in Nat /\ Len(b) \in Short
    BY <1>4
  <2>2. CASE \E n \in 0..(Len(b) - 1) : ~Tcp!HasFrame(left[n], f)
    BY <2>1, <2>2
  <2>3. CASE Len(left[Len(b)]) + Len(b) <= Len(b)
    <3>1. left[Len(b)] \in Seq(Tcp!Bytes)
      BY <1>1, <2>1
    <3>2. left[Len(b)] = <<>>
      BY <2>1, <2>3, <3>1
    <3>3. ~Tcp!HasFrame(left[Len(b)], f)
      BY <3>2, NothingFramed
    <3> QED  BY <2>1, <3>3
  <2> QED  BY <2>1, <2>2, <2>3
<1>6. PICK n \in Ends0 : \A k \in Ends0 : n <= k
  <2>1. Ends0 \in SUBSET Nat
    OBVIOUS
  <2> HIDE DEF Ends0
  <2> QED  BY <1>5, <2>1, LeastExists
<1>7. \A k \in 0..(n - 1) : Tcp!HasFrame(left[k], f)
  <2> SUFFICES ASSUME NEW k \in 0..(n - 1), ~Tcp!HasFrame(left[k], f) PROVE FALSE
    OBVIOUS
  <2>1. k \in Ends0 /\ ~(n <= k)
    BY <1>6
  <2> QED  BY <1>6, <2>1
<1>8. n \in 0..Len(b) /\ ~Tcp!HasFrame(left[n], f)
  BY <1>6
<1> HIDE DEF Ends0
<1> QED  BY <1>7, <1>8, Zenon DEF Tcp!Rounds, left

-----------------------------------------------------------------------------
(* A stream of frames                                                      *)

\* B is the frames of the messages q, which end at p
Cut(B, q, p, f) ==
  /\ p \in [0..Len(q) -> Nat] /\ p[0] = 0 /\ p[Len(q)] = Len(B)
  /\ \A i \in 1..Len(q) :
       /\ p[i] = p[i - 1] + Len(Tcp!frameMessage(q[i], f))
       /\ \A j \in 1..Len(Tcp!frameMessage(q[i], f)) :
            B[p[i - 1] + j] = Tcp!frameMessage(q[i], f)[j]

Stream(B, q, f) == B \in Seq(Tcp!Bytes) /\ \E p : Cut(B, q, p, f)

Begins(b, B) == b \in Seq(Tcp!Bytes) /\ Len(b) <= Len(B) /\ \A i \in 1..Len(b) : b[i] = B[i]

Load(f) == {m \in Messages : Carried(m, f)}

LEMMA FrameTyped ==
  ASSUME NEW f, Framing(f), NEW m, Carried(m, f)
  PROVE  Tcp!frameMessage(m, f) \in Seq(Tcp!Bytes) /\ Len(Tcp!frameMessage(m, f)) \in Nat
<1>m. m \in Seq(Tcp!Bytes) /\ Len(m) \in Nat
  BY DEF Carried
<1>1. CASE f.lengthFieldLength \in Sizes
  <2>1. f.lengthFieldLength \in Nat /\ f.lengthFieldLength > 0
    BY <1>1 DEF Sizes
  <2>2. Tcp!writeLength(Len(m), f.lengthFieldLength) \in Seq(Tcp!Bytes)
    BY <1>m, <1>1, <2>1, LengthWritten DEF Carried
  <2>3. Tcp!frameMessage(m, f) = Tcp!writeLength(Len(m), f.lengthFieldLength) \o m
    BY <2>1 DEF Tcp!frameMessage
  <2> QED  BY <1>m, <2>2, <2>3
<1>2. CASE f.lengthFieldLength = 0 /\ f.delimiter \in Seq(Tcp!Bytes) /\ f.delimiter # <<>>
  <2>1. Tcp!frameMessage(m, f) = m \o f.delimiter
    BY <1>2 DEF Tcp!frameMessage
  <2> QED  BY <1>m, <1>2, <2>1
<1> QED  BY <1>1, <1>2 DEF Framing

LEMMA CutsAscend ==
  ASSUME NEW f, Framing(f), NEW q \in Seq(Load(f)), NEW B \in Seq(Tcp!Bytes), NEW p, Cut(B, q, p, f),
         NEW n \in 0..Len(q), NEW m \in n..Len(q)
  PROVE  p[n] \in Nat /\ p[m] \in Nat /\ p[n] <= p[m] /\ p[m] <= Len(B)
<1>q. Len(q) \in Nat /\ Len(q) \in 0..Len(q) /\ m \in 0..Len(q)
  OBVIOUS
<1>p. /\ p \in [0..Len(q) -> Nat] /\ p[Len(q)] = Len(B)
      /\ \A i \in 1..Len(q) : p[i] = p[i - 1] + Len(Tcp!frameMessage(q[i], f))
  BY DEF Cut
<1>1. ASSUME NEW i \in 0..Len(q), i < Len(q) PROVE p[i + 1] >= p[i]
  <2>1. i + 1 \in 1..Len(q) /\ (i + 1) - 1 = i
    BY <1>1
  <2>2. q[i + 1] \in Load(f)
    BY <2>1
  <2>3. Len(Tcp!frameMessage(q[i + 1], f)) \in Nat
    BY <2>2, FrameTyped DEF Load
  <2>4. p[i + 1] = p[i] + Len(Tcp!frameMessage(q[i + 1], f))
    BY <1>p, <2>1
  <2>5. p[i] \in Nat
    BY <1>p
  <2> QED  BY <2>3, <2>4, <2>5
<1>2. ASSUME NEW a \in 0..Len(q) PROVE \A k \in Nat : a + k <= Len(q) => p[a] <= p[a + k]
  <2> DEFINE Up == {k \in Nat : a + k <= Len(q) => p[a] <= p[a + k]}
  <2>a. p[a] \in Nat
    BY <1>p, Zenon
  <2>1. 0 \in Up
    <3>1. a + 0 = a
      OBVIOUS
    <3> QED  BY <2>a, <3>1
  <2>2. ASSUME NEW k \in Nat, k \in Up PROVE k + 1 \in Up
    <3> SUFFICES ASSUME a + (k + 1) <= Len(q) PROVE p[a] <= p[a + (k + 1)]
      OBVIOUS
    <3>1. /\ a + k \in 0..Len(q) /\ a + (k + 1) \in 0..Len(q)
          /\ a + k < Len(q) /\ (a + k) + 1 = a + (k + 1)
      OBVIOUS
    <3>2. p[a] <= p[a + k] /\ p[(a + k) + 1] >= p[a + k]
      BY <1>1, <2>2, <3>1
    <3>3. p[a] \in Nat /\ p[a + k] \in Nat /\ p[a + (k + 1)] \in Nat
      BY <1>p, <2>a, <3>1, Zenon
    <3> QED  BY <3>1, <3>2, <3>3
  <2>3. Nat \subseteq Up
    <3> HIDE DEF Up
    <3> QED  BY <2>1, <2>2, Induction
  <2> QED  BY <2>3
<1>3. p[n] <= p[m]
  <2> DEFINE k == m - n
  <2>1. k \in Nat /\ n + k = m /\ n + k <= Len(q)
    OBVIOUS
  <2> HIDE DEF k
  <2>2. p[n] <= p[n + k]
    BY <1>2, <2>1
  <2> QED  BY <2>1, <2>2
<1>4. p[m] <= p[Len(q)]
  <2> DEFINE k == Len(q) - m
  <2>1. k \in Nat /\ m + k = Len(q) /\ m + k <= Len(q)
    OBVIOUS
  <2> HIDE DEF k
  <2>2. p[m] <= p[m + k]
    BY <1>2, <1>q, <2>1
  <2> QED  BY <2>1, <2>2
<1> QED  BY <1>p, <1>q, <1>3, <1>4

LEMMA NothingStreams ==
  ASSUME NEW f
  PROVE  Stream(<<>>, <<>>, f)
<1>1. Cut(<<>>, <<>>, [k \in 0..0 |-> 0], f)
  BY DEF Cut
<1> QED  BY <1>1 DEF Stream

LEMMA StreamGrows ==
  ASSUME NEW f, Framing(f), NEW q \in Seq(Load(f)), NEW B, Stream(B, q, f), NEW m \in Load(f)
  PROVE  Stream(B \o Tcp!frameMessage(m, f), Append(q, m), f)
<1> DEFINE F == Tcp!frameMessage(m, f)
           C == B \o F
           r == Append(q, m)
<1>1. PICK p : Cut(B, q, p, f)
  BY DEF Stream
<1>2. F \in Seq(Tcp!Bytes) /\ Len(F) \in Nat /\ B \in Seq(Tcp!Bytes) /\ Len(B) \in Nat
  BY FrameTyped DEF Load, Stream
<1>3. /\ C \in Seq(Tcp!Bytes) /\ Len(C) = Len(B) + Len(F)
      /\ \A i \in 1..(Len(B) + Len(F)) : C[i] = IF i <= Len(B) THEN B[i] ELSE F[i - Len(B)]
  <2> HIDE DEF F
  <2> QED  BY <1>2, ConcatProperties, Zenon
<1>4. Len(r) = Len(q) + 1 /\ r[Len(q) + 1] = m /\ (\A i \in 1..Len(q) : r[i] = q[i]) /\ Len(q) \in Nat
  OBVIOUS
<1> DEFINE o == [k \in 0..Len(r) |-> IF k = Len(r) THEN Len(C) ELSE p[k]]
<1>5. /\ p \in [0..Len(q) -> Nat] /\ p[0] = 0 /\ p[Len(q)] = Len(B)
      /\ \A i \in 1..Len(q) :
           /\ p[i] = p[i - 1] + Len(Tcp!frameMessage(q[i], f))
           /\ \A j \in 1..Len(Tcp!frameMessage(q[i], f)) :
                B[p[i - 1] + j] = Tcp!frameMessage(q[i], f)[j]
  BY <1>1 DEF Cut
<1> HIDE DEF r, C
<1>6. /\ o \in [0..Len(r) -> Nat] /\ o[0] = 0 /\ o[Len(r)] = Len(C)
      /\ \A k \in 0..Len(q) : o[k] = p[k]
  BY <1>2, <1>3, <1>4, <1>5
<1> HIDE DEF o
<1>7. ASSUME NEW i \in 1..Len(r)
      PROVE  /\ o[i] = o[i - 1] + Len(Tcp!frameMessage(r[i], f))
             /\ \A j \in 1..Len(Tcp!frameMessage(r[i], f)) :
                  C[o[i - 1] + j] = Tcp!frameMessage(r[i], f)[j]
  <2>1. CASE i = Len(q) + 1
    <3>1. i - 1 = Len(q) /\ i - 1 \in 0..Len(q) /\ i = Len(r)
      BY <1>4, <2>1
    <3>2. o[i - 1] = Len(B) /\ o[i] = Len(B) + Len(F)
      BY <1>3, <1>5, <1>6, <3>1
    <3>3. Tcp!frameMessage(r[i], f) = F
      BY <1>4, <2>1
    <3> HIDE DEF F
    <3>4. ASSUME NEW j \in 1..Len(F) PROVE C[Len(B) + j] = F[j]
      <4> DEFINE k == Len(B) + j
      <4>1. k \in 1..(Len(B) + Len(F)) /\ ~(k <= Len(B)) /\ k - Len(B) = j
        BY <1>2
      <4> HIDE DEF k
      <4>2. C[k] = F[j]
        BY <1>3, <4>1
      <4> QED  BY <4>2 DEF k
    <3> QED  BY <3>2, <3>3, <3>4
  <2>2. CASE i \in 1..Len(q)
    <3> DEFINE G == Tcp!frameMessage(q[i], f)
    <3>1. i \in 0..Len(q) /\ i - 1 \in 0..Len(q) /\ i \in (i - 1)..Len(q)
      BY <1>4, <2>2
    <3>2. o[i] = p[i] /\ o[i - 1] = p[i - 1] /\ Tcp!frameMessage(r[i], f) = G
      BY <1>4, <1>6, <2>2, <3>1
    <3>3. p[i] = p[i - 1] + Len(G) /\ (\A j \in 1..Len(G) : B[p[i - 1] + j] = G[j])
      BY <1>5, <2>2
    <3>4. q[i] \in Load(f)
      BY <2>2
    <3>5. Len(G) \in Nat
      BY <3>4, FrameTyped DEF Load
    <3>6. p[i - 1] \in Nat /\ p[i] <= Len(B)
      BY <1>1, <1>2, <3>1, CutsAscend
    <3> HIDE DEF G
    <3>7. ASSUME NEW j \in 1..Len(G) PROVE C[p[i - 1] + j] = G[j]
      <4> DEFINE k == p[i - 1] + j
      <4>1. k \in 1..(Len(B) + Len(F)) /\ k <= Len(B)
        BY <1>2, <3>3, <3>5, <3>6
      <4>2. B[k] = G[j]
        BY <3>3
      <4> HIDE DEF k
      <4>3. C[k] = B[k]
        BY <1>3, <4>1
      <4> QED  BY <4>2, <4>3 DEF k
    <3> QED  BY <3>2, <3>3, <3>7
  <2> QED  BY <1>4, <2>1, <2>2
<1>8. Cut(C, r, o, f)
  BY <1>6, <1>7 DEF Cut
<1> QED  BY <1>3, <1>8 DEF Stream, C, r

LEMMA SubSeqParts ==
  ASSUME NEW S, NEW s \in Seq(S), NEW n \in Nat, n <= Len(s)
  PROVE  /\ SubSeq(s, n + 1, Len(s)) \in Seq(S) /\ Len(SubSeq(s, n + 1, Len(s))) = Len(s) - n
         /\ \A i \in 1..(Len(s) - n) : SubSeq(s, n + 1, Len(s))[i] = s[n + i]
<1>1. SubSeq(s, n + 1, Len(s)) \in Seq(S)
  OBVIOUS
<1>2. Len(SubSeq(s, n + 1, Len(s))) = Len(s) - n
  OBVIOUS
<1>3. \A i \in 1..(Len(s) - n) : SubSeq(s, n + 1, Len(s))[i] = s[n + i]
  OBVIOUS
<1> QED  BY <1>1, <1>2, <1>3

\* What is left of a stream when some of its frames are taken.
LEMMA StreamGoesOn ==
  ASSUME NEW f, Framing(f), NEW q \in Seq(Load(f)), NEW B \in Seq(Tcp!Bytes), NEW p, Cut(B, q, p, f),
         NEW n \in 0..Len(q)
  PROVE  Stream(SubSeq(B, p[n] + 1, Len(B)), SubSeq(q, n + 1, Len(q)), f)
<1> DEFINE C == SubSeq(B, p[n] + 1, Len(B))
           r == SubSeq(q, n + 1, Len(q))
<1>1. p[n] \in Nat /\ p[n] <= Len(B) /\ n \in Nat /\ n <= Len(q) /\ Len(q) \in Nat /\ Len(B) \in Nat
  <2>1. n \in n..Len(q)
    OBVIOUS
  <2> QED  BY <2>1, CutsAscend
<1>2. /\ C \in Seq(Tcp!Bytes) /\ Len(C) = Len(B) - p[n]
      /\ \A i \in 1..(Len(B) - p[n]) : C[i] = B[p[n] + i]
  BY <1>1, SubSeqParts
<1>3. /\ Len(r) = Len(q) - n /\ \A i \in 1..(Len(q) - n) : r[i] = q[n + i]
  BY <1>1, SubSeqParts
<1> HIDE DEF C, r
<1> DEFINE o == [k \in 0..Len(r) |-> p[n + k] - p[n]]
<1>4. /\ p \in [0..Len(q) -> Nat] /\ p[Len(q)] = Len(B)
      /\ \A i \in 1..Len(q) :
           /\ p[i] = p[i - 1] + Len(Tcp!frameMessage(q[i], f))
           /\ \A j \in 1..Len(Tcp!frameMessage(q[i], f)) :
                B[p[i - 1] + j] = Tcp!frameMessage(q[i], f)[j]
  BY DEF Cut
<1>5. ASSUME NEW k \in 0..Len(r)
      PROVE  n + k \in n..Len(q) /\ n + k \in 0..Len(q) /\ p[n + k] \in Nat /\ p[n] <= p[n + k]
             /\ p[n + k] <= Len(B)
  <2>1. n + k \in n..Len(q) /\ n + k \in 0..Len(q)
    BY <1>1, <1>3
  <2> QED  BY <2>1, CutsAscend
<1>6. o \in [0..Len(r) -> Nat] /\ o[0] = 0 /\ o[Len(r)] = Len(C)
  <2>1. \A k \in 0..Len(r) : p[n + k] - p[n] \in Nat
    BY <1>1, <1>5
  <2>2. n + 0 = n /\ n + Len(r) = Len(q) /\ 0 \in 0..Len(r) /\ Len(r) \in 0..Len(r)
    BY <1>1, <1>3
  <2>3. o[0] = 0
    BY <1>1, <2>2
  <2>4. o[Len(r)] = Len(C)
    BY <1>2, <1>4, <2>2
  <2> QED  BY <2>1, <2>3, <2>4
<1>7. ASSUME NEW i \in 1..Len(r)
      PROVE  /\ o[i] = o[i - 1] + Len(Tcp!frameMessage(r[i], f))
             /\ \A j \in 1..Len(Tcp!frameMessage(r[i], f)) :
                  C[o[i - 1] + j] = Tcp!frameMessage(r[i], f)[j]
  <2> DEFINE k == n + i
             G == Tcp!frameMessage(q[k], f)
  <2>1. k \in 1..Len(q) /\ k - 1 = n + (i - 1) /\ i \in 0..Len(r) /\ i - 1 \in 0..Len(r)
    BY <1>1, <1>3
  <2>2. r[i] = q[k] /\ q[k] \in Load(f)
    BY <1>3, <2>1
  <2>3. G \in Seq(Tcp!Bytes) /\ Len(G) \in Nat
    BY <2>2, FrameTyped DEF Load
  <2>4. o[i] = p[k] - p[n] /\ o[i - 1] = p[k - 1] - p[n]
    BY <2>1
  <2>5. p[k] = p[k - 1] + Len(G) /\ \A j \in 1..Len(G) : B[p[k - 1] + j] = G[j]
    BY <1>4, <2>1
  <2>6. p[k - 1] \in Nat /\ p[n] <= p[k - 1] /\ p[k] \in Nat /\ p[k] <= Len(B)
    BY <1>5, <2>1
  <2>7. Tcp!frameMessage(r[i], f) = G
    BY <2>2
  <2> HIDE DEF k, G, o
  <2>8. o[i] = o[i - 1] + Len(G)
    BY <1>1, <2>3, <2>4, <2>5, <2>6
  <2>9. ASSUME NEW j \in 1..Len(G) PROVE C[o[i - 1] + j] = G[j]
    <3> DEFINE a == o[i - 1] + j
    <3>a. j \in Nat /\ j >= 1 /\ j <= Len(G)
      BY <2>3
    <3>b. \A u, v, w, g, l \in Nat : v <= u /\ w = u + g /\ w <= l /\ j <= g =>
            (u - v) + j \in 1..(l - v) /\ v + ((u - v) + j) = u + j
      BY <3>a
    <3>1. a \in 1..(Len(B) - p[n]) /\ p[n] + a = p[k - 1] + j
      BY <1>1, <2>3, <2>4, <2>5, <2>6, <3>a, <3>b
    <3> HIDE DEF a
    <3>2. C[a] = B[p[n] + a]
      BY <1>2, <3>1
    <3> QED  BY <2>5, <3>1, <3>2 DEF a
  <2> QED  BY <2>7, <2>8, <2>9
<1> HIDE DEF o
<1>8. Cut(C, r, o, f)
  BY <1>6, <1>7 DEF Cut
<1> QED  BY <1>2, <1>8 DEF Stream, C, r

\* What the loop reads of a buffer that a stream begins with: some of its
\* messages, in order; what is left begins where the last of them ended.
LEMMA Parsed ==
  ASSUME NEW f, Framing(f), NEW q \in Seq(Load(f)), NEW B \in Seq(Tcp!Bytes), NEW p, Cut(B, q, p, f),
         NEW b, Begins(b, B)
  PROVE  /\ Tcp!Rounds(b, f) \in 0..Len(q)
         /\ p[Tcp!Rounds(b, f)] <= Len(b)
         /\ Tcp!readBuffer(b, f)[Tcp!Rounds(b, f)] = SubSeq(b, p[Tcp!Rounds(b, f)] + 1, Len(b))
         /\ \A k \in 1..Tcp!Rounds(b, f) : Tcp!Frame(Tcp!readBuffer(b, f)[k - 1], f).payload = q[k]
<1> DEFINE left == Tcp!readBuffer(b, f)
           n == Tcp!Rounds(b, f)
<1>1. b \in Seq(Tcp!Bytes) /\ Len(b) \in Nat /\ Len(q) \in Nat /\ Len(b) <= Len(B)
      /\ \A i \in 1..Len(b) : b[i] = B[i]
  BY DEF Begins
<1>2. /\ left \in [Nat -> Seq(Tcp!Bytes)] /\ left[0] = b
      /\ \A k \in Nat : left[k + 1] =
            IF Tcp!HasFrame(left[k], f) THEN Tcp!Frame(left[k], f).after ELSE left[k]
  BY <1>1, LoopBody
<1>3. n \in Nat /\ \A k \in 0..(n - 1) : Tcp!HasFrame(left[k], f)
  BY <1>1, LoopEnds
<1>4. /\ p \in [0..Len(q) -> Nat] /\ p[0] = 0 /\ p[Len(q)] = Len(B)
      /\ \A i \in 1..Len(q) :
           /\ p[i] = p[i - 1] + Len(Tcp!frameMessage(q[i], f))
           /\ \A j \in 1..Len(Tcp!frameMessage(q[i], f)) :
                B[p[i - 1] + j] = Tcp!frameMessage(q[i], f)[j]
  BY DEF Cut
<1> HIDE DEF left, n
<1> DEFINE At(k) == /\ k <= Len(q) /\ p[k] <= Len(b)
                    /\ left[k] = SubSeq(b, p[k] + 1, Len(b))
                    /\ k > 0 => Tcp!Frame(left[k - 1], f).payload = q[k]
           Read0 == {k \in Nat : k <= n => At(k)}
<1>5. 0 \in Read0
  <2>1. SubSeq(b, p[0] + 1, Len(b)) = b
    BY <1>1, <1>4
  <2>2. 0 <= Len(q) /\ p[0] <= Len(b) /\ ~(0 > 0)
    BY <1>1, <1>4
  <2> QED  BY <1>2, <2>1, <2>2
<1>6. ASSUME NEW k \in Nat, k \in Read0 PROVE k + 1 \in Read0
  <2> SUFFICES ASSUME k + 1 <= n PROVE At(k + 1)
    OBVIOUS
  <2>1. k <= Len(q) /\ p[k] <= Len(b) /\ left[k] = SubSeq(b, p[k] + 1, Len(b))
    BY <1>3, <1>6
  <2>2. Tcp!HasFrame(left[k], f)
    BY <1>3
  <2>3. p[k] \in Nat
    <3>1. k \in 0..Len(q)
      BY <1>1, <2>1
    <3> QED  BY <1>4, <3>1, Zenon
  <2>4. /\ left[k] \in Seq(Tcp!Bytes) /\ Len(left[k]) = Len(b) - p[k]
        /\ \A i \in 1..(Len(b) - p[k]) : left[k][i] = b[p[k] + i]
    <3> DEFINE n0 == p[k]
    <3>1. n0 \in Nat /\ n0 <= Len(b) /\ left[k] = SubSeq(b, n0 + 1, Len(b))
      BY <2>1, <2>3
    <3> HIDE DEF n0
    <3>2. /\ SubSeq(b, n0 + 1, Len(b)) \in Seq(Tcp!Bytes)
          /\ Len(SubSeq(b, n0 + 1, Len(b))) = Len(b) - n0
          /\ \A i \in 1..(Len(b) - n0) : SubSeq(b, n0 + 1, Len(b))[i] = b[n0 + i]
      BY <1>1, <3>1, SubSeqParts
    <3> QED  BY <3>1, <3>2, Zenon DEF n0
  <2>5. k < Len(q)
    <3> SUFFICES ASSUME k = Len(q) PROVE FALSE
      BY <1>1, <2>1
    <3>1. p[k] = Len(B) /\ Len(B) \in Nat
      BY <1>4
    <3>2. Len(left[k]) = 0
      BY <1>1, <2>1, <2>4, <3>1
    <3>3. left[k] = <<>>
      BY <2>4, <3>2
    <3> QED  BY <2>2, <3>3, NothingFramed
  <2> DEFINE F == Tcp!frameMessage(q[k + 1], f)
  <2>6. k + 1 \in 1..Len(q) /\ (k + 1) - 1 = k
    BY <1>1, <2>5
  <2>7. q[k + 1] \in Load(f)
    BY <2>6
  <2>8. Carried(q[k + 1], f) /\ F \in Seq(Tcp!Bytes) /\ Len(F) \in Nat
    BY <2>7, FrameTyped DEF Load
  <2>9. p[k + 1] = p[k] + Len(F) /\ \A j \in 1..Len(F) : B[p[k] + j] = F[j]
    BY <1>4, <2>6
  <2>10. \A i \in 1..Len(left[k]) : i <= Len(F) => left[k][i] = F[i]
    <3> SUFFICES ASSUME NEW i \in 1..Len(left[k]), i <= Len(F) PROVE left[k][i] = F[i]
      OBVIOUS
    <3> HIDE DEF F
    <3>a. i \in 1..(Len(b) - p[k])
      BY <2>4
    <3>b. \A u, v \in Nat : i \in 1..(u - v) => v + i \in 1..u
      OBVIOUS
    <3>c. \A u \in Nat : i <= u => i \in 1..u
      OBVIOUS
    <3>1. i \in 1..(Len(b) - p[k]) /\ i \in 1..Len(F) /\ p[k] + i \in 1..Len(b)
      BY <1>1, <2>3, <2>8, <3>a, <3>b, <3>c
    <3> QED  BY <1>1, <2>4, <2>9, <3>1
  <2>11. /\ Len(F) <= Len(left[k]) /\ Tcp!Frame(left[k], f).payload = q[k + 1]
         /\ Tcp!Frame(left[k], f).after = SubSeq(left[k], Len(F) + 1, Len(left[k]))
    <3> DEFINE c == left[k]
               m == q[k + 1]
    <3>1. c \in Seq(Tcp!Bytes) /\ Carried(m, f) /\ Tcp!HasFrame(c, f) /\ Framing(f)
      BY <2>2, <2>4, <2>8
    <3>2. \A i \in 1..Len(c) : i <= Len(Tcp!frameMessage(m, f)) => c[i] = Tcp!frameMessage(m, f)[i]
      BY <2>10
    <3> HIDE DEF c, m
    <3>3. /\ Len(Tcp!frameMessage(m, f)) <= Len(c) /\ Tcp!Frame(c, f).payload = m
          /\ Tcp!Frame(c, f).after = SubSeq(c, Len(Tcp!frameMessage(m, f)) + 1, Len(c))
      BY <3>1, <3>2, FrameRead
    <3> QED  BY <3>3 DEF c, m
  <2> HIDE DEF F
  <2>12. left[k + 1] = SubSeq(left[k], Len(F) + 1, Len(left[k]))
    BY <1>2, <2>2, <2>11
  <2>13. p[k + 1] \in Nat /\ p[k + 1] <= Len(b)
    <3>1. \A u, v, w \in Nat : w <= u - v => v + w \in Nat /\ v + w <= u
      OBVIOUS
    <3>2. Len(F) <= Len(b) - p[k]
      BY <2>4, <2>11
    <3> QED  BY <1>1, <2>3, <2>8, <2>9, <3>1, <3>2
  <2>14. SubSeq(left[k], Len(F) + 1, Len(left[k])) = SubSeq(b, p[k + 1] + 1, Len(b))
    <3> DEFINE u == SubSeq(left[k], Len(F) + 1, Len(left[k]))
               v == SubSeq(b, p[k + 1] + 1, Len(b))
    <3>1. /\ u \in Seq(Tcp!Bytes) /\ Len(u) = Len(left[k]) - Len(F)
          /\ \A i \in 1..(Len(left[k]) - Len(F)) : u[i] = left[k][Len(F) + i]
      BY <2>4, <2>8, <2>11, SubSeqParts
    <3>2. /\ v \in Seq(Tcp!Bytes) /\ Len(v) = Len(b) - p[k + 1]
          /\ \A i \in 1..(Len(b) - p[k + 1]) : v[i] = b[p[k + 1] + i]
      BY <1>1, <2>13, SubSeqParts
    <3> HIDE DEF u, v
    <3>3. Len(u) = Len(v)
      BY <1>1, <2>3, <2>4, <2>8, <2>9, <3>1, <3>2
    <3>4. ASSUME NEW i \in 1..Len(u) PROVE u[i] = v[i]
      <4> DEFINE j == Len(F) + i
      <4>1. i \in 1..(Len(left[k]) - Len(F)) /\ i \in 1..(Len(b) - p[k + 1])
            /\ j \in 1..(Len(b) - p[k]) /\ p[k] + j = p[k + 1] + i
        <5>1. i \in 1..(Len(left[k]) - Len(F)) /\ i \in 1..(Len(b) - p[k + 1])
          BY <3>1, <3>2, <3>3
        <5>2. \A x, y, z \in Nat : i \in 1..(x - (y + z)) =>
                z + i \in 1..(x - y) /\ y + (z + i) = (y + z) + i
          OBVIOUS
        <5> QED  BY <1>1, <2>3, <2>8, <2>9, <5>1, <5>2
      <4>2. u[i] = left[k][j]
        BY <3>1, <4>1
      <4> HIDE DEF j
      <4>3. left[k][j] = b[p[k] + j]
        BY <2>4, <4>1
      <4> QED  BY <3>2, <4>1, <4>2, <4>3
    <3>5. u = v
      BY <3>1, <3>2, <3>3, <3>4, SeqEqual
    <3> QED  BY <3>5 DEF u, v
  <2>15. k + 1 <= Len(q) /\ left[(k + 1) - 1] = left[k]
    BY <2>6
  <2> QED  BY <2>11, <2>12, <2>13, <2>14, <2>15
<1>7. Nat \subseteq Read0
  <2> HIDE DEF Read0
  <2> QED  BY <1>5, <1>6, Induction
<1>8. ASSUME NEW k \in Nat, k <= n PROVE At(k)
  <2>1. k \in Read0
    BY <1>7
  <2> QED  BY <1>8, <2>1
<1>9. At(n)
  BY <1>3, <1>8
<1>10. \A k \in 1..n : Tcp!Frame(left[k - 1], f).payload = q[k]
  <2> SUFFICES ASSUME NEW k \in 1..n PROVE Tcp!Frame(left[k - 1], f).payload = q[k]
    OBVIOUS
  <2>1. k \in Nat /\ k <= n /\ k > 0
    BY <1>3
  <2> QED  BY <1>8, <2>1
<1>11. n \in 0..Len(q)
  BY <1>1, <1>3, <1>9
<1> QED  BY <1>9, <1>10, <1>11 DEF left, n

-----------------------------------------------------------------------------
(* What was not taken yet                                                  *)

\* The bytes under way are how the stream of what was not taken yet begins, and
\* all of it if nothing was cut.
Rest(g, s) == SubSeq(s, Len(g) + 1, Len(s))
Begun(g, b, s, f)  == \E B : Stream(B, Rest(g, s), f) /\ Begins(b, B)
Entire(g, b, s, f) == Stream(b, Rest(g, s), f)

LEMMA RestTyped ==
  ASSUME NEW S, NEW s \in Seq(S), NEW g, Len(g) \in Nat, Len(g) <= Len(s)
  PROVE  /\ Rest(g, s) \in Seq(S) /\ Len(Rest(g, s)) = Len(s) - Len(g)
         /\ \A i \in 1..(Len(s) - Len(g)) : Rest(g, s)[i] = s[Len(g) + i]
  BY SubSeqParts DEF Rest

LEMMA EntireBegins ==
  ASSUME NEW g, NEW b, NEW s, NEW f, Entire(g, b, s, f)
  PROVE  Begun(g, b, s, f)
<1>1. b \in Seq(Tcp!Bytes)
  BY DEF Entire, Stream
<1>2. Begins(b, b)
  BY <1>1 DEF Begins
<1> QED  BY <1>2, Zenon DEF Entire, Begun

LEMMA FrameWritten ==
  ASSUME NEW f, Framing(f), NEW g, Len(g) \in Nat, NEW a \in Seq(Tcp!Bytes), NEW w \in Seq(Tcp!Bytes),
         NEW s \in Seq(Load(f)), NEW m \in Load(f), Len(g) <= Len(s), Entire(g, a \o w, s, f)
  PROVE  Entire(g, a \o (w \o Tcp!frameMessage(m, f)), Append(s, m), f)
<1> DEFINE F == Tcp!frameMessage(m, f)
           r == Rest(g, Append(s, m))
           q == Append(Rest(g, s), m)
<1>1. F \in Seq(Tcp!Bytes)
  BY FrameTyped DEF Load
<1>2. Append(s, m) \in Seq(Load(f)) /\ Len(Append(s, m)) = Len(s) + 1 /\ Len(s) \in Nat
      /\ Append(s, m)[Len(s) + 1] = m /\ \A i \in 1..Len(s) : Append(s, m)[i] = s[i]
  OBVIOUS
<1>3. /\ Rest(g, s) \in Seq(Load(f)) /\ Len(Rest(g, s)) = Len(s) - Len(g)
      /\ \A i \in 1..(Len(s) - Len(g)) : Rest(g, s)[i] = s[Len(g) + i]
  BY RestTyped
<1>4. /\ r \in Seq(Load(f)) /\ Len(r) = (Len(s) + 1) - Len(g)
      /\ \A i \in 1..((Len(s) + 1) - Len(g)) : r[i] = Append(s, m)[Len(g) + i]
  <2> DEFINE t == Append(s, m)
  <2> HIDE DEF t
  <2>1. t \in Seq(Load(f)) /\ Len(t) = Len(s) + 1
    BY <1>2 DEF t
  <2>2. Len(g) <= Len(t)
    BY <1>2, <2>1
  <2>3. /\ Rest(g, t) \in Seq(Load(f)) /\ Len(Rest(g, t)) = Len(t) - Len(g)
        /\ \A i \in 1..(Len(t) - Len(g)) : Rest(g, t)[i] = t[Len(g) + i]
    BY <2>1, <2>2, RestTyped
  <2> QED  BY <2>1, <2>3 DEF t
<1>5. /\ q \in Seq(Load(f)) /\ Len(q) = (Len(s) - Len(g)) + 1
      /\ q[(Len(s) - Len(g)) + 1] = m
      /\ \A i \in 1..(Len(s) - Len(g)) : q[i] = s[Len(g) + i]
  BY <1>3
<1>6. r = q
  <2> HIDE DEF r, q
  <2>1. Len(r) = Len(q)
    BY <1>2, <1>4, <1>5
  <2>2. ASSUME NEW i \in 1..Len(q) PROVE r[i] = q[i]
    <3>1. i \in 1..((Len(s) + 1) - Len(g)) /\ i \in 1..((Len(s) - Len(g)) + 1)
      BY <1>2, <1>5
    <3>2. CASE i = (Len(s) - Len(g)) + 1
      <4>1. Len(g) + i = Len(s) + 1
        BY <1>2, <3>2
      <4> QED  BY <1>2, <1>4, <1>5, <3>1, <3>2, <4>1
    <3>3. CASE i \in 1..(Len(s) - Len(g))
      <4>1. Len(g) + i \in 1..Len(s)
        BY <1>2, <3>3
      <4> QED  BY <1>2, <1>4, <1>5, <3>1, <3>3, <4>1
    <3> QED  BY <1>2, <3>1, <3>2, <3>3
  <2> QED  BY <1>4, <1>5, <2>1, <2>2, SeqEqual
<1>7. Stream((a \o w) \o F, q, f)
  <2>1. Stream(a \o w, Rest(g, s), f)
    BY DEF Entire
  <2> QED  BY <1>3, <2>1, StreamGrows
<1>8. (a \o w) \o F = a \o (w \o F)
  <2> HIDE DEF F
  <2> QED  BY <1>1, ConcatAssociative
<1> HIDE DEF F, q, r
<1>9. Stream(a \o (w \o F), r, f)
  BY <1>6, <1>7, <1>8, Zenon
<1> QED  BY <1>9 DEF Entire, F, r

LEMMA BytesCut ==
  ASSUME NEW f, NEW g, NEW a \in Seq(Tcp!Bytes), NEW w \in Seq(Tcp!Bytes), NEW s,
         Begun(g, a \o w, s, f), NEW k \in 0..Len(w)
  PROVE  Begun(g, a \o SubSeq(w, 1, k), s, f)
<1>1. PICK B : Stream(B, Rest(g, s), f) /\ Begins(a \o w, B)
  BY DEF Begun
<1> DEFINE u == SubSeq(w, 1, k)
<1>2. u \in Seq(Tcp!Bytes) /\ Len(u) = k /\ \A i \in 1..k : u[i] = w[i]
  OBVIOUS
<1> HIDE DEF u
<1>3. /\ a \o w \in Seq(Tcp!Bytes) /\ Len(a \o w) = Len(a) + Len(w)
      /\ \A i \in 1..(Len(a) + Len(w)) : (a \o w)[i] = IF i <= Len(a) THEN a[i] ELSE w[i - Len(a)]
  BY ConcatProperties, Zenon
<1>4. /\ a \o u \in Seq(Tcp!Bytes) /\ Len(a \o u) = Len(a) + Len(u)
      /\ \A i \in 1..(Len(a) + Len(u)) : (a \o u)[i] = IF i <= Len(a) THEN a[i] ELSE u[i - Len(a)]
  BY <1>2, ConcatProperties, Zenon
<1>5. /\ Len(a \o w) <= Len(B) /\ \A i \in 1..Len(a \o w) : (a \o w)[i] = B[i]
  BY <1>1 DEF Begins
<1> DEFINE x == a \o w
           y == a \o u
<1> HIDE DEF x, y
<1>6. Len(y) <= Len(x) /\ Len(a) \in Nat /\ Len(w) \in Nat
  BY <1>2, <1>3, <1>4 DEF x, y
<1>7. ASSUME NEW i \in 1..Len(y) PROVE y[i] = x[i] /\ i \in 1..Len(x)
  <2>1. i \in 1..(Len(a) + Len(u)) /\ i \in 1..(Len(a) + Len(w))
    BY <1>2, <1>4, <1>6 DEF y
  <2>2. CASE i <= Len(a)
    BY <1>3, <1>4, <2>1, <2>2 DEF x, y
  <2>3. CASE ~(i <= Len(a))
    <3>1. i - Len(a) \in 1..k
      BY <1>2, <1>6, <2>1, <2>3
    <3> QED  BY <1>2, <1>3, <1>4, <2>1, <2>3, <3>1 DEF x, y
  <2> QED  BY <2>2, <2>3
<1>8. Begins(y, B)
  <2>1. y \in Seq(Tcp!Bytes) /\ Len(y) \in Nat /\ Len(x) \in Nat
    BY <1>3, <1>4 DEF x, y
  <2>a. Len(B) \in Nat
    BY <1>1 DEF Stream
  <2>2. Len(y) <= Len(B)
    BY <1>5, <1>6, <2>1, <2>a DEF x
  <2> QED  BY <1>5, <1>7, <2>1, <2>2 DEF Begins, x
<1> QED  BY <1>1, <1>8, Zenon DEF Begun, y, u

\* Taking a part of what is under way leaves the rest of it.
LEMMA SplitRead ==
  ASSUME NEW a \in Seq(Tcp!Bytes), NEW w \in Seq(Tcp!Bytes), NEW n \in 0..Len(w), NEW k \in Nat,
         k <= Len(a) + n
  PROVE  LET c == a \o SubSeq(w, 1, n)
             x == a \o w
         IN  /\ c \in Seq(Tcp!Bytes) /\ x \in Seq(Tcp!Bytes) /\ Len(c) = Len(a) + n /\ Len(c) <= Len(x)
             /\ \A i \in 1..Len(c) : c[i] = x[i]
             /\ SubSeq(c, k + 1, Len(c)) \o Tcp!From(w, n + 1) = SubSeq(x, k + 1, Len(x))
<1> DEFINE u == SubSeq(w, 1, n)
           v == SubSeq(w, n + 1, Len(w))
           c == a \o u
           x == a \o w
           l == SubSeq(c, k + 1, Len(c))
           y == SubSeq(x, k + 1, Len(x))
<1>1. u \in Seq(Tcp!Bytes) /\ Len(u) = n /\ \A i \in 1..n : u[i] = w[i]
  OBVIOUS
<1>2. n \in Nat /\ n <= Len(w) /\ Len(a) \in Nat /\ Len(w) \in Nat
  OBVIOUS
<1>3. v \in Seq(Tcp!Bytes) /\ Len(v) = Len(w) - n /\ \A i \in 1..(Len(w) - n) : v[i] = w[n + i]
  BY <1>2, SubSeqParts
<1> HIDE DEF u, v
<1>4. /\ x \in Seq(Tcp!Bytes) /\ Len(x) = Len(a) + Len(w)
      /\ \A i \in 1..(Len(a) + Len(w)) : x[i] = IF i <= Len(a) THEN a[i] ELSE w[i - Len(a)]
  BY ConcatProperties, Zenon
<1>5. /\ c \in Seq(Tcp!Bytes) /\ Len(c) = Len(a) + n
      /\ \A i \in 1..(Len(a) + n) : c[i] = IF i <= Len(a) THEN a[i] ELSE u[i - Len(a)]
  BY <1>1, ConcatProperties, Zenon
<1>6. ASSUME NEW i \in 1..Len(c) PROVE c[i] = x[i]
  <2>1. i \in 1..(Len(a) + n) /\ i \in 1..(Len(a) + Len(w))
    BY <1>2, <1>5
  <2>2. CASE i <= Len(a)
    BY <1>4, <1>5, <2>1, <2>2
  <2>3. CASE ~(i <= Len(a))
    <3>1. i - Len(a) \in 1..n
      BY <1>2, <2>1, <2>3
    <3> QED  BY <1>1, <1>4, <1>5, <2>1, <2>3, <3>1
  <2> QED  BY <2>2, <2>3
<1> HIDE DEF c, x
<1>7. /\ l \in Seq(Tcp!Bytes) /\ Len(l) = Len(c) - k /\ \A i \in 1..(Len(c) - k) : l[i] = c[k + i]
  BY <1>2, <1>5, SubSeqParts
<1>8. /\ y \in Seq(Tcp!Bytes) /\ Len(y) = Len(x) - k /\ \A i \in 1..(Len(x) - k) : y[i] = x[k + i]
  <2>1. k <= Len(x)
    BY <1>2, <1>4
  <2> QED  BY <1>4, <2>1, SubSeqParts
<1> HIDE DEF l, y
<1>9. /\ l \o v \in Seq(Tcp!Bytes) /\ Len(l \o v) = Len(l) + Len(v)
      /\ \A i \in 1..(Len(l) + Len(v)) : (l \o v)[i] = IF i <= Len(l) THEN l[i] ELSE v[i - Len(l)]
  BY <1>3, <1>7, ConcatProperties, Zenon
<1>10. Len(l \o v) = Len(y)
  BY <1>2, <1>3, <1>4, <1>5, <1>7, <1>8, <1>9
<1>11. ASSUME NEW i \in 1..Len(y) PROVE (l \o v)[i] = y[i]
  <2>1. i \in 1..(Len(x) - k) /\ i \in 1..(Len(l) + Len(v)) /\ i \in Nat /\ i > 0
    BY <1>8, <1>9, <1>10
  <2>2. CASE i <= Len(l)
    <3> DEFINE j == k + i
    <3>1. j \in 1..Len(c) /\ i \in 1..(Len(c) - k)
      BY <1>2, <1>5, <1>7, <2>1, <2>2
    <3>2. (l \o v)[i] = l[i] /\ l[i] = c[j] /\ y[i] = x[j]
      BY <1>7, <1>8, <1>9, <2>1, <2>2, <3>1
    <3> HIDE DEF j
    <3> QED  BY <1>6, <3>1, <3>2
  <2>3. CASE ~(i <= Len(l))
    <3> DEFINE j == i - Len(l)
               h == k + i
    <3>1. j \in 1..(Len(w) - n) /\ h \in 1..(Len(a) + Len(w)) /\ ~(h <= Len(a)) /\ h - Len(a) = n + j
      BY <1>2, <1>4, <1>5, <1>7, <2>1, <2>3
    <3>2. (l \o v)[i] = v[j] /\ y[i] = x[h]
      BY <1>8, <1>9, <2>1, <2>3
    <3> HIDE DEF j, h
    <3> QED  BY <1>3, <1>4, <3>1, <3>2
  <2> QED  BY <2>2, <2>3
<1>12. l \o v = y
  BY <1>8, <1>9, <1>10, <1>11, SeqEqual
<1>13. Len(c) <= Len(x)
  BY <1>2, <1>4, <1>5
<1>14. v = Tcp!From(w, n + 1)
  BY DEF v, Tcp!From
<1> QED  BY <1>4, <1>5, <1>6, <1>12, <1>13, <1>14 DEF l, y, c, x, u

LEMMA BranchTaken ==
  ASSUME NEW f, Framing(f), NEW b
  PROVE  /\ Tcp!processIncomingBuffer(b, f).rest = Tcp!readBuffer(b, f)[Tcp!Rounds(b, f)]
         /\ Tcp!processIncomingBuffer(b, f).messages =
              [k \in 1..Tcp!Rounds(b, f) |-> Tcp!Frame(Tcp!readBuffer(b, f)[k - 1], f).payload]
<1>1. f.lengthFieldLength > 0 \/ f.delimiter # <<>>
  BY DEF Framing, Sizes
<1> QED  BY <1>1, Zenon DEF Tcp!processIncomingBuffer

\* Messages taken in order, and what goes on after them.
LEMMA Taken ==
  ASSUME NEW S, NEW g \in Seq(S), NEW s \in Seq(S), InOrder(g, s), NEW t \in Seq(S),
         Len(t) <= Len(Rest(g, s)), \A k \in 1..Len(t) : t[k] = Rest(g, s)[k]
  PROVE  /\ Len(g \o t) = Len(g) + Len(t) /\ Len(g \o t) <= Len(s)
         /\ g \o t \in Seq(S) /\ InOrder(g \o t, s)
<1> DEFINE q == Rest(g, s)
           N == Len(t)
           h == g \o t
<1>1. Len(g) \in Nat /\ Len(g) <= Len(s) /\ Len(s) \in Nat /\ \A i \in 1..Len(g) : g[i] = s[i]
  BY DEF InOrder
<1>2. q \in Seq(S) /\ Len(q) = Len(s) - Len(g) /\ \A i \in 1..(Len(s) - Len(g)) : q[i] = s[Len(g) + i]
  BY <1>1, RestTyped
<1>3. (\A k \in 1..N : t[k] = q[k]) /\ N \in Nat /\ N <= Len(q)
  BY <1>2
<1> HIDE DEF q
<1>4. t \in Seq(S) /\ Len(t) = N /\ \A k \in 1..N : t[k] = s[Len(g) + k]
  <2>1. \A k \in 1..N : k \in 1..(Len(s) - Len(g))
    BY <1>1, <1>2, <1>3
  <2> QED  BY <1>2, <1>3, <2>1
<1>5. /\ h \in Seq(S) /\ Len(h) = Len(g) + Len(t)
      /\ \A i \in 1..(Len(g) + Len(t)) : h[i] = IF i <= Len(g) THEN g[i] ELSE t[i - Len(g)]
  BY <1>4, ConcatProperties, Zenon
<1> HIDE DEF h
<1>6. Len(h) <= Len(s)
  BY <1>1, <1>2, <1>3, <1>4, <1>5
<1>7. ASSUME NEW i \in 1..Len(h) PROVE h[i] = s[i]
  <2>1. i \in 1..(Len(g) + Len(t))
    BY <1>5
  <2>2. CASE i <= Len(g)
    BY <1>1, <1>5, <2>1, <2>2
  <2>3. CASE ~(i <= Len(g))
    <3> DEFINE j == i - Len(g)
    <3>1. j \in 1..N /\ Len(g) + j = i
      BY <1>1, <1>3, <1>4, <2>1, <2>3
    <3> HIDE DEF j
    <3>2. t[j] = s[i]
      BY <1>4, <3>1
    <3> QED  BY <1>5, <2>1, <2>3, <3>2 DEF j
  <2> QED  BY <2>2, <2>3
<1>8. InOrder(h, s)
  BY <1>6, <1>7 DEF InOrder
<1> QED  BY <1>4, <1>5, <1>6, <1>8 DEF h

LEMMA RestOfRest ==
  ASSUME NEW S, NEW s \in Seq(S), NEW g, NEW t, NEW h, Len(g) \in Nat, Len(t) \in Nat,
         Len(h) = Len(g) + Len(t), Len(h) <= Len(s)
  PROVE  Rest(t, Rest(g, s)) = Rest(h, s)
<1> DEFINE q == Rest(g, s)
           u == Rest(t, q)
           v == Rest(h, s)
           k == Len(g)
           n == Len(t)
<1>1. Len(s) \in Nat /\ k + n <= Len(s) /\ k <= Len(s) /\ Len(h) \in Nat
  OBVIOUS
<1>2. q \in Seq(S) /\ Len(q) = Len(s) - k /\ \A i \in 1..(Len(s) - k) : q[i] = s[k + i]
  BY <1>1, RestTyped
<1>3. v \in Seq(S) /\ Len(v) = Len(s) - (k + n) /\ \A i \in 1..(Len(s) - (k + n)) : v[i] = s[(k + n) + i]
  <2>1. v \in Seq(S) /\ Len(v) = Len(s) - Len(h) /\ \A i \in 1..(Len(s) - Len(h)) : v[i] = s[Len(h) + i]
    BY <1>1, RestTyped
  <2> QED  BY <2>1
<1> HIDE DEF q, v, k
<1>4. u \in Seq(S) /\ Len(u) = Len(q) - n /\ \A i \in 1..(Len(q) - n) : u[i] = q[n + i]
  <2>1. n <= Len(q)
    BY <1>1, <1>2 DEF k
  <2> QED  BY <1>2, <2>1, RestTyped
<1> HIDE DEF u, n
<1>n. k \in Nat /\ n \in Nat
  BY DEF k, n
<1>5. Len(u) = Len(v)
  BY <1>1, <1>2, <1>3, <1>4, <1>n
<1>6. ASSUME NEW i \in 1..Len(v) PROVE u[i] = v[i]
  <2> DEFINE j == n + i
  <2>1. /\ i \in 1..(Len(s) - (k + n)) /\ i \in 1..(Len(q) - n) /\ j \in 1..(Len(s) - k)
        /\ k + j = (k + n) + i
    BY <1>1, <1>2, <1>3, <1>n
  <2>2. u[i] = q[j] /\ v[i] = s[(k + n) + i]
    BY <1>3, <1>4, <2>1
  <2> HIDE DEF j
  <2> QED  BY <1>2, <2>1, <2>2
<1>7. u = v
  BY <1>3, <1>4, <1>5, <1>6, SeqEqual
<1> QED  BY <1>7 DEF u, v, q

LEMMA Prefix ==
  ASSUME NEW S, NEW h \in Seq(S), NEW s \in Seq(S), InOrder(h, s)
  PROVE  h = SubSeq(s, 1, Len(h))
<1> DEFINE z == SubSeq(s, 1, Len(h))
<1>1. Len(h) \in Nat /\ Len(h) <= Len(s) /\ \A i \in 1..Len(h) : h[i] = s[i]
  BY DEF InOrder
<1>2. z \in Seq(S) /\ Len(z) = Len(h) /\ \A i \in 1..Len(h) : z[i] = s[i]
  BY <1>1
<1> HIDE DEF z
<1>3. h = z
  BY <1>1, <1>2, SeqEqual
<1> QED  BY <1>3 DEF z

\* A chunk completes some of the messages under way, however it was cut.
LEMMA ChunkRead ==
  ASSUME NEW f, Framing(f), NEW g \in Seq(Load(f)), NEW s \in Seq(Load(f)), InOrder(g, s),
         NEW a \in Seq(Tcp!Bytes), NEW w \in Seq(Tcp!Bytes), NEW n \in 0..Len(w),
         NEW B \in Seq(Tcp!Bytes), Stream(B, Rest(g, s), f), Begins(a \o w, B)
  PROVE  LET r == Tcp!processIncomingBuffer(a \o SubSeq(w, 1, n), f)
             h == g \o r.messages
             x == a \o w
         IN  /\ r.rest \in Seq(Tcp!Bytes) /\ r.messages \in Seq(Load(f))
             /\ h \in Seq(Load(f)) /\ Len(h) = Len(g) + Len(r.messages) /\ Len(h) <= Len(s)
             /\ h = SubSeq(s, 1, Len(h)) /\ InOrder(h, s)
             /\ \E k \in 0..Len(B) :
                  /\ k <= Len(x) /\ r.rest \o Tcp!From(w, n + 1) = SubSeq(x, k + 1, Len(x))
                  /\ Stream(SubSeq(B, k + 1, Len(B)), Rest(h, s), f)
<1> DEFINE b == a \o SubSeq(w, 1, n)
           x == a \o w
           q == Rest(g, s)
           N == Tcp!Rounds(b, f)
           r == Tcp!processIncomingBuffer(b, f)
           h == g \o r.messages
<1>1. PICK p : Cut(B, q, p, f)
  BY DEF Stream
<1>2. Len(g) \in Nat /\ Len(g) <= Len(s)
  BY DEF InOrder
<1>3. q \in Seq(Load(f))
  BY <1>2, RestTyped
<1>4. /\ b \in Seq(Tcp!Bytes) /\ x \in Seq(Tcp!Bytes) /\ Len(b) = Len(a) + n /\ Len(b) <= Len(x)
      /\ \A i \in 1..Len(b) : b[i] = x[i]
  <2>1. 0 \in Nat /\ 0 <= Len(a) + n
    OBVIOUS
  <2> QED  BY <2>1, SplitRead
<1> HIDE DEF b, q
<1>5. Begins(b, B)
  <2>1. Len(x) <= Len(B) /\ \A i \in 1..Len(x) : x[i] = B[i]
    BY DEF Begins
  <2> HIDE DEF x
  <2>2. Len(b) <= Len(B) /\ \A i \in 1..Len(b) : b[i] = B[i] /\ i \in 1..Len(x)
    BY <1>4, <2>1
  <2> QED  BY <1>4, <2>2 DEF Begins
<1>6. /\ N \in 0..Len(q) /\ p[N] <= Len(b)
      /\ Tcp!readBuffer(b, f)[N] = SubSeq(b, p[N] + 1, Len(b))
      /\ \A k \in 1..N : Tcp!Frame(Tcp!readBuffer(b, f)[k - 1], f).payload = q[k]
  BY <1>1, <1>3, <1>5, Parsed
<1>7. r.rest = SubSeq(b, p[N] + 1, Len(b)) /\ r.messages = [k \in 1..N |-> q[k]]
  <2>1. /\ r.rest = Tcp!readBuffer(b, f)[N]
        /\ r.messages = [k \in 1..N |-> Tcp!Frame(Tcp!readBuffer(b, f)[k - 1], f).payload]
    BY BranchTaken
  <2> HIDE DEF r, N
  <2> QED  BY <1>6, <2>1
<1> HIDE DEF N, r
<1>8. p[N] \in Nat /\ p[N] <= Len(B) /\ p[N] \in 0..Len(B)
  <2>1. N \in N..Len(q)
    BY <1>6
  <2>2. p[N] \in Nat /\ p[N] <= Len(B)
    BY <1>1, <1>3, <1>6, <2>1, CutsAscend
  <2> QED  BY <2>2
<1>9. r.rest \o Tcp!From(w, n + 1) = SubSeq(x, p[N] + 1, Len(x))
  <2>1. p[N] <= Len(a) + n
    BY <1>4, <1>6
  <2> HIDE DEF x
  <2>2. SubSeq(b, p[N] + 1, Len(b)) \o Tcp!From(w, n + 1) = SubSeq(x, p[N] + 1, Len(x))
    BY <1>8, <2>1, SplitRead DEF b, x
  <2> QED  BY <1>7, <2>2
<1>10. p[N] <= Len(x)
  <2> HIDE DEF x
  <2> QED  BY <1>4, <1>6, <1>8
<1>11. /\ r.messages \in Seq(Load(f)) /\ Len(h) = Len(g) + N /\ Len(h) <= Len(s)
       /\ h \in Seq(Load(f)) /\ InOrder(h, s) /\ Rest(r.messages, q) = Rest(h, s)
  <2> DEFINE t == r.messages
  <2>1. \A k \in 1..N : k \in 1..Len(q)
    BY <1>6
  <2>2. \A k \in 1..N : q[k] \in Load(f)
    BY <1>3, <2>1
  <2>3. t \in Seq(Load(f)) /\ Len(t) = N
    BY <1>6, <1>7, <2>2
  <2>4. \A k \in 1..N : t[k] = Rest(g, s)[k]
    BY <1>7, Zenon DEF q
  <2>5. Len(t) <= Len(Rest(g, s)) /\ \A k \in 1..Len(t) : t[k] = Rest(g, s)[k]
    BY <1>6, <2>3, <2>4 DEF q
  <2> HIDE DEF t
  <2>6. /\ Len(g \o t) = Len(g) + Len(t) /\ Len(g \o t) <= Len(s)
        /\ g \o t \in Seq(Load(f)) /\ InOrder(g \o t, s) /\ Rest(t, Rest(g, s)) = Rest(g \o t, s)
    <3>1. Len(g \o t) = Len(g) + Len(t)
      BY <2>3, <2>5, Taken
    <3>2. Len(g \o t) <= Len(s)
      BY <2>3, <2>5, Taken
    <3>3. g \o t \in Seq(Load(f))
      BY <2>3, <2>5, Taken
    <3>4. InOrder(g \o t, s)
      BY <2>3, <2>5, Taken
    <3>5. Rest(t, Rest(g, s)) = Rest(g \o t, s)
      <4> DEFINE h0 == g \o t
      <4>1. Len(h0) = Len(g) + Len(t) /\ Len(h0) <= Len(s) /\ Len(t) \in Nat
        BY <2>3, <3>1, <3>2
      <4> HIDE DEF h0
      <4> QED  BY <1>2, <4>1, RestOfRest DEF h0
    <3> QED  BY <3>1, <3>2, <3>3, <3>4, <3>5
  <2> QED  BY <2>3, <2>6, Zenon DEF q, t
<1>N. Len(r.messages) = N
  BY <1>6, <1>7
<1>12. Stream(SubSeq(B, p[N] + 1, Len(B)), Rest(h, s), f)
  <2>1. Stream(SubSeq(B, p[N] + 1, Len(B)), SubSeq(q, N + 1, Len(q)), f)
    BY <1>1, <1>3, <1>6, StreamGoesOn
  <2>2. SubSeq(q, N + 1, Len(q)) = Rest(h, s)
    BY <1>11, <1>N DEF Rest
  <2> HIDE DEF h
  <2> QED  BY <2>1, <2>2, Zenon
<1>13. r.rest \in Seq(Tcp!Bytes)
  BY <1>4, <1>6, <1>7, <1>8, SubSeqParts
<1> HIDE DEF h, x
<1>15. /\ r.rest \in Seq(Tcp!Bytes) /\ r.messages \in Seq(Load(f))
       /\ h \in Seq(Load(f)) /\ Len(h) = Len(g) + Len(r.messages) /\ Len(h) <= Len(s)
       /\ h = SubSeq(s, 1, Len(h)) /\ InOrder(h, s)
  BY <1>11, <1>13, <1>N, Prefix
<1>16. \E k \in 0..Len(B) :
         /\ k <= Len(x) /\ r.rest \o Tcp!From(w, n + 1) = SubSeq(x, k + 1, Len(x))
         /\ Stream(SubSeq(B, k + 1, Len(B)), Rest(h, s), f)
  BY <1>8, <1>9, <1>10, <1>11, <1>12
<1> QED  BY <1>15, <1>16 DEF h, x, r, b

LEMMA EntireChunk ==
  ASSUME NEW f, Framing(f), NEW g \in Seq(Load(f)), NEW s \in Seq(Load(f)), InOrder(g, s),
         NEW a \in Seq(Tcp!Bytes), NEW w \in Seq(Tcp!Bytes), NEW n \in 0..Len(w),
         Entire(g, a \o w, s, f)
  PROVE  LET r == Tcp!processIncomingBuffer(a \o SubSeq(w, 1, n), f)
         IN  Entire(g \o r.messages, r.rest \o Tcp!From(w, n + 1), s, f)
<1> DEFINE x == a \o w
           r == Tcp!processIncomingBuffer(a \o SubSeq(w, 1, n), f)
           h == g \o r.messages
<1>1. x \in Seq(Tcp!Bytes) /\ Stream(x, Rest(g, s), f)
  BY DEF Entire, Stream
<1>2. Begins(x, x)
  <2> HIDE DEF x
  <2> QED  BY <1>1 DEF Begins
<1>3. PICK k \in 0..Len(x) : /\ r.rest \o Tcp!From(w, n + 1) = SubSeq(x, k + 1, Len(x))
                             /\ Stream(SubSeq(x, k + 1, Len(x)), Rest(h, s), f)
  BY <1>1, <1>2, ChunkRead
<1> HIDE DEF x, r
<1>4. Stream(r.rest \o Tcp!From(w, n + 1), Rest(h, s), f)
  BY <1>3
<1> QED  BY <1>4 DEF Entire, r

LEMMA BegunChunk ==
  ASSUME NEW f, Framing(f), NEW g \in Seq(Load(f)), NEW s \in Seq(Load(f)), InOrder(g, s),
         NEW a \in Seq(Tcp!Bytes), NEW w \in Seq(Tcp!Bytes), NEW n \in 0..Len(w),
         Begun(g, a \o w, s, f)
  PROVE  LET r == Tcp!processIncomingBuffer(a \o SubSeq(w, 1, n), f)
             h == g \o r.messages
         IN  /\ r.rest \in Seq(Tcp!Bytes) /\ r.messages \in Seq(Load(f))
             /\ h \in Seq(Load(f)) /\ Len(h) = Len(g) + Len(r.messages) /\ Len(h) <= Len(s)
             /\ h = SubSeq(s, 1, Len(h)) /\ InOrder(h, s)
             /\ Begun(h, r.rest \o Tcp!From(w, n + 1), s, f)
<1> DEFINE x == a \o w
           r == Tcp!processIncomingBuffer(a \o SubSeq(w, 1, n), f)
           h == g \o r.messages
           y == r.rest \o Tcp!From(w, n + 1)
<1>1. PICK B : Stream(B, Rest(g, s), f) /\ Begins(x, B)
  BY DEF Begun
<1>2. B \in Seq(Tcp!Bytes)
  BY <1>1 DEF Stream
<1>3. /\ r.rest \in Seq(Tcp!Bytes) /\ r.messages \in Seq(Load(f))
      /\ h \in Seq(Load(f)) /\ Len(h) = Len(g) + Len(r.messages) /\ Len(h) <= Len(s)
      /\ h = SubSeq(s, 1, Len(h)) /\ InOrder(h, s)
      /\ \E k \in 0..Len(B) :
           /\ k <= Len(x) /\ y = SubSeq(x, k + 1, Len(x))
           /\ Stream(SubSeq(B, k + 1, Len(B)), Rest(h, s), f)
  BY <1>1, <1>2, ChunkRead
<1>4. PICK k \in 0..Len(B) : /\ k <= Len(x) /\ y = SubSeq(x, k + 1, Len(x))
                             /\ Stream(SubSeq(B, k + 1, Len(B)), Rest(h, s), f)
  BY <1>3
<1>5. x \in Seq(Tcp!Bytes) /\ Len(x) <= Len(B) /\ \A i \in 1..Len(x) : x[i] = B[i]
  BY <1>1 DEF Begins
<1> HIDE DEF x, y, h, r
<1> DEFINE C == SubSeq(B, k + 1, Len(B))
<1>k. k \in Nat /\ k <= Len(B) /\ k <= Len(x)
  BY <1>2, <1>4
<1>6. /\ y \in Seq(Tcp!Bytes) /\ Len(y) = Len(x) - k /\ \A i \in 1..(Len(x) - k) : y[i] = x[k + i]
  BY <1>4, <1>5, <1>k, SubSeqParts
<1>7. /\ C \in Seq(Tcp!Bytes) /\ Len(C) = Len(B) - k /\ \A i \in 1..(Len(B) - k) : C[i] = B[k + i]
  BY <1>2, <1>k, SubSeqParts
<1> HIDE DEF C
<1>8. Len(x) \in Nat /\ Len(B) \in Nat
  BY <1>2, <1>5
<1>9. Len(y) <= Len(C)
  BY <1>5, <1>6, <1>7, <1>8, <1>k
<1>10. ASSUME NEW i \in 1..Len(y) PROVE y[i] = C[i]
  <2> DEFINE j == k + i
  <2>1. i \in 1..(Len(x) - k) /\ i \in 1..(Len(B) - k) /\ j \in 1..Len(x)
    BY <1>5, <1>6, <1>8, <1>k
  <2>2. y[i] = x[j] /\ C[i] = B[j]
    BY <1>6, <1>7, <2>1
  <2> HIDE DEF j
  <2> QED  BY <1>5, <2>1, <2>2
<1>11. Begins(y, C)
  BY <1>6, <1>9, <1>10 DEF Begins
<1>12. Begun(h, y, s, f)
  BY <1>4, <1>11 DEF Begun, C
<1> QED  BY <1>3, <1>12 DEF h, y, r

-----------------------------------------------------------------------------
(* TCP                                                                     *)

Live == {"none", "connecting", "up"}

TcpTypes ==
  /\ framing \in Framings
  /\ sock \in [Ends -> {"none", "connecting", "up", "destroyed", "gone"}]
  /\ wire \in [Ends -> Seq(Tcp!Bytes)] /\ buf \in [Ends -> Seq(Tcp!Bytes)]
  /\ sent \in [Ends -> Seq(Load(framing))] /\ got \in [Ends -> Seq(Load(framing))]
  /\ closed \in [Ends -> BOOLEAN]

\* what one end takes of the other: a socket that was not destroyed is not cut
TcpTakes(x) ==
  /\ InOrder(got[x], sent[T!Peer(x)])
  /\ sock[x] \in Live =>
       /\ ~closed[x]
       /\ Begun(got[x], buf[x] \o wire[T!Peer(x)], sent[T!Peer(x)], framing)
       /\ sock[T!Peer(x)] \in Live =>
            Entire(got[x], buf[x] \o wire[T!Peer(x)], sent[T!Peer(x)], framing)

\* onClose is called with the connection's entry, or by the client's last event
TcpTold(c) ==
  /\ c \in conns => ~closed[Tcp!Server(c)]
  /\ closed[Tcp!Client(c)] => sock[Tcp!Client(c)] = "gone"

TcpInv == TcpTypes /\ (\A x \in Ends : TcpTakes(x)) /\ \A c \in Conns : TcpTold(c)

LEMMA TcpPairs ==
  ASSUME NEW c \in Conns
  PROVE  /\ Tcp!Client(c) \in Ends /\ Tcp!Server(c) \in Ends /\ Tcp!Client(c) # Tcp!Server(c)
         /\ T!Peer(Tcp!Client(c)) = Tcp!Server(c) /\ T!Peer(Tcp!Server(c)) = Tcp!Client(c)
         /\ \A d \in Conns : /\ Tcp!Client(d) # Tcp!Server(c)
                             /\ Tcp!Server(d) = Tcp!Server(c) => d = c
                             /\ Tcp!Client(d) = Tcp!Client(c) => d = c
  BY DEF Ends, Tcp!Client, Tcp!Server, T!Peer

LEMMA TcpPeers ==
  ASSUME NEW x \in Ends
  PROVE  Tcp!Peer(x) = T!Peer(x) /\ Tcp!Ends = Ends
<1>1. PICK c \in Conns, r \in {"client", "server"} : x = <<c, r>>
  BY DEF Ends
<1>2. CASE r = "client"
  BY <1>1, <1>2 DEF Ends, T!Peer, Tcp!Peer, Tcp!Server, Tcp!Ends
<1>3. CASE r = "server"
  BY <1>1, <1>3 DEF Ends, T!Peer, Tcp!Peer, Tcp!Client, Tcp!Ends
<1> QED  BY <1>1, <1>2, <1>3

LEMMA FramingsSeparate ==
  ASSUME Separable, NEW f \in Framings
  PROVE  /\ Framing(f)
         /\ \A m \in Messages : (f.lengthFieldLength > 0 => Tcp!Fits(Len(m), f.lengthFieldLength))
                                  => m \in Load(f)
  BY DEF Separable, Framing, Sizes, Load, Carried

\* What a read step does, on either side.
LEMMA TcpRead ==
  ASSUME TcpInv, Separable, NEW x \in Ends,
         NEW n \in 1..Len(wire[T!Peer(x)]), Tcp!Chunk(x, n),
         Tcp!processIncoming(x, SubSeq(wire[T!Peer(x)], 1, n))
  PROVE  LET p == T!Peer(x)
         IN  /\ sock[x] = "up" /\ UNCHANGED <<framing, sock, conns, sent, closed>>
             /\ \E r \in Seq(Tcp!Bytes), h \in Seq(Load(framing)) :
                  /\ buf' = [buf EXCEPT ![x] = r] /\ got' = [got EXCEPT ![x] = h]
                  /\ \E v \in Seq(Tcp!Bytes) :
                       /\ wire' = [wire EXCEPT ![p] = v]
                       /\ Begun(h, r \o v, sent[p], framing)
                       /\ Entire(got[x], buf[x] \o wire[p], sent[p], framing) =>
                            Entire(h, r \o v, sent[p], framing)
                  /\ Len(got[x]) <= Len(h) /\ h = SubSeq(sent[p], 1, Len(h)) /\ InOrder(h, sent[p])
                  /\ Len(got[x]) = Len(h) => h = got[x]
<1> DEFINE p == T!Peer(x)
           a == buf[x]
           w == wire[p]
           g == got[x]
           s == sent[p]
           c == Tcp!processIncomingBuffer(a \o SubSeq(w, 1, n), framing)
           r == c.rest
           h == g \o c.messages
           v == Tcp!From(w, n + 1)
<1>1. p \in Ends /\ Tcp!Peer(x) = p /\ Tcp!Ends = Ends
  BY PeerFacts, TcpPeers
<1>2. /\ sock[x] = "up" /\ UNCHANGED <<framing, sock, conns, sent, closed>>
      /\ wire' = [wire EXCEPT ![p] = v]
  BY <1>1 DEF Tcp!Chunk
<1>3. buf' = [buf EXCEPT ![x] = r] /\ got' = [got EXCEPT ![x] = h]
  BY DEF Tcp!processIncoming
<1>4. /\ a \in Seq(Tcp!Bytes) /\ w \in Seq(Tcp!Bytes) /\ g \in Seq(Load(framing))
      /\ s \in Seq(Load(framing)) /\ framing \in Framings
  BY <1>1 DEF TcpInv, TcpTypes
<1>5. InOrder(g, s) /\ Begun(g, a \o w, s, framing)
  BY <1>2 DEF TcpInv, TcpTakes, Live
<1>6. Framing(framing) /\ n \in 0..Len(w)
  BY <1>4, FramingsSeparate
<1> HIDE DEF p, a, w, g, s
<1>7. /\ r \in Seq(Tcp!Bytes) /\ c.messages \in Seq(Load(framing))
      /\ h \in Seq(Load(framing)) /\ Len(h) = Len(g) + Len(c.messages) /\ Len(h) <= Len(s)
      /\ h = SubSeq(s, 1, Len(h)) /\ InOrder(h, s)
      /\ Begun(h, r \o v, s, framing)
  BY <1>4, <1>5, <1>6, BegunChunk
<1>8. Entire(g, a \o w, s, framing) => Entire(h, r \o v, s, framing)
  BY <1>4, <1>5, <1>6, EntireChunk
<1>9. v \in Seq(Tcp!Bytes)
  <2>1. SubSeq(w, n + 1, Len(w)) \in Seq(Tcp!Bytes)
    BY <1>4, <1>6
  <2> QED  BY <2>1 DEF Tcp!From
<1>10. Len(g) <= Len(h) /\ (Len(g) = Len(h) => h = g)
  <2>1. Len(g) \in Nat /\ Len(c.messages) \in Nat
    BY <1>4, <1>7
  <2>2. Len(g) = Len(h) => c.messages = <<>>
    BY <1>7, <2>1
  <2>3. g \o <<>> = g
    BY <1>4, ConcatEmptySeq
  <2> QED  BY <1>7, <2>1, <2>2, <2>3
<1> HIDE DEF r, h, v, c
<1>11. \E v0 \in Seq(Tcp!Bytes) :
         /\ wire' = [wire EXCEPT ![p] = v0]
         /\ Begun(h, r \o v0, s, framing)
         /\ Entire(g, a \o w, s, framing) => Entire(h, r \o v0, s, framing)
  BY <1>2, <1>7, <1>8, <1>9
<1> QED  BY <1>2, <1>3, <1>7, <1>10, <1>11, Zenon DEF p, a, w, g, s

\* What a socket that is destroyed leaves under way.
LEMMA TcpDestroyed ==
  ASSUME TcpTypes, NEW x \in Ends, Tcp!Destroyed(x)
  PROVE  /\ sock' = [sock EXCEPT ![x] = "destroyed"]
         /\ wire' \in [Ends -> Seq(Tcp!Bytes)]
         /\ \E k \in 0..Len(wire[x]) : wire'[x] = SubSeq(wire[x], 1, k)
         /\ \A y \in Ends : y # x /\ y # T!Peer(x) => wire'[y] = wire[y]
<1> DEFINE p == T!Peer(x)
<1>1. p \in Ends /\ p # x /\ Tcp!Peer(x) = p
  BY PeerFacts, TcpPeers
<1>2. PICK k \in 0..Len(wire[x]) :
        wire' = [wire EXCEPT ![x] = SubSeq(wire[x], 1, k), ![p] = <<>>]
  BY <1>1 DEF Tcp!Destroyed
<1> HIDE DEF p
<1>3. wire \in [Ends -> Seq(Tcp!Bytes)] /\ wire[x] \in Seq(Tcp!Bytes)
  BY DEF TcpTypes
<1>4. SubSeq(wire[x], 1, k) \in Seq(Tcp!Bytes) /\ <<>> \in Seq(Tcp!Bytes)
  BY <1>3
<1>5. wire' \in [Ends -> Seq(Tcp!Bytes)]
  BY <1>1, <1>2, <1>3, <1>4
<1>6. /\ wire'[x] = SubSeq(wire[x], 1, k)
      /\ \A y \in Ends : y # x /\ y # p => wire'[y] = wire[y]
  BY <1>1, <1>2, <1>3
<1>7. sock' = [sock EXCEPT ![x] = "destroyed"]
  BY DEF Tcp!Destroyed
<1> QED  BY <1>5, <1>6, <1>7 DEF p

\* A message that is written.
LEMMA TcpSent ==
  ASSUME TcpInv, Separable, NEW x \in Ends, TcpSend(x)
  PROVE  /\ sock[x] = "up" /\ UNCHANGED <<framing, sock, conns, buf, got, closed>>
         /\ \E m \in Load(framing) :
              /\ sent' = [sent EXCEPT ![x] = Append(sent[x], m)]
              /\ wire' = [wire EXCEPT ![x] = wire[x] \o Tcp!frameMessage(m, framing)]
<1>1. sent[x] \in Seq(Load(framing)) /\ framing \in Framings
  BY DEF TcpInv, TcpTypes
<1>2. PICK m \in Messages : Tcp!Write(x, m)
  BY DEF TcpSend
<1>4. /\ framing.lengthFieldLength > 0 => Tcp!Fits(Len(m), framing.lengthFieldLength)
      /\ sent' = [sent EXCEPT ![x] = Append(sent[x], m)]
      /\ wire' = [wire EXCEPT ![x] = wire[x] \o Tcp!frameMessage(m, framing)]
      /\ sock[x] = "up" /\ UNCHANGED <<framing, sock, conns, buf, got, closed>>
  BY <1>2 DEF Tcp!Write
<1>5. m \in Load(framing)
  BY <1>1, <1>4, FramingsSeparate
<1> QED  BY <1>4, <1>5, Zenon

\* A server that stops destroys the connections it still has.
LEMMA TcpStopped ==
  ASSUME TcpTypes, Tcp!ServerClose
  PROVE  /\ UNCHANGED <<framing, conns, buf, sent, got, closed>>
         /\ \E open, cut :
              /\ cut \subseteq open
              /\ \A x \in open : sock[x] = "up" /\ \A c \in Conns : x # Tcp!Client(c)
              /\ sock' = [x \in Ends |-> IF x \in open THEN "destroyed" ELSE sock[x]]
              /\ wire' = [x \in Ends |-> IF x \in cut \/ T!Peer(x) \in open THEN <<>> ELSE wire[x]]
<1> DEFINE open == {Tcp!Server(c) : c \in {d \in sockets : sock[Tcp!Server(d)] = "up"}}
<1>1. Tcp!Ends = Ends
  BY DEF Tcp!Ends, Ends
<1>2. /\ UNCHANGED <<framing, conns, buf, sent, got, closed>>
      /\ sock' = [x \in Ends |-> IF x \in open THEN "destroyed" ELSE sock[x]]
  BY <1>1 DEF Tcp!ServerClose
<1>3. PICK cut \in SUBSET open :
        wire' = [x \in Tcp!Ends |-> IF x \in cut \/ Tcp!Peer(x) \in open THEN <<>> ELSE wire[x]]
  BY DEF Tcp!ServerClose
<1>4. ASSUME NEW x \in open PROVE sock[x] = "up" /\ \A c \in Conns : x # Tcp!Client(c)
  <2>1. PICK d \in {d \in sockets : sock[Tcp!Server(d)] = "up"} : x = Tcp!Server(d)
    BY Zenon
  <2>2. sock[x] = "up"
    BY <2>1
  <2> QED  BY <2>1, <2>2 DEF Tcp!Server, Tcp!Client
<1> HIDE DEF open
<1>5. \A x \in Ends : Tcp!Peer(x) = T!Peer(x)
  BY TcpPeers
<1>6. wire' = [x \in Ends |-> IF x \in cut \/ T!Peer(x) \in open THEN <<>> ELSE wire[x]]
  BY <1>1, <1>3, <1>5
<1> QED  BY <1>2, <1>4, <1>6

LEMMA TcpTypesInductive ==
  ASSUME TcpInv, Tcp!Next, Separable
  PROVE  TcpTypes'
<1>a. \A c \in Conns : Tcp!Client(c) \in Ends /\ Tcp!Server(c) \in Ends
                       /\ T!Peer(Tcp!Client(c)) = Tcp!Server(c)
                       /\ T!Peer(Tcp!Server(c)) = Tcp!Client(c)
  BY TcpPairs
<1>b. \A x \in Ends : T!Peer(x) \in Ends
  BY PeerFacts
<1>c. /\ framing \in Framings /\ sock \in [Ends -> {"none", "connecting", "up", "destroyed", "gone"}]
      /\ wire \in [Ends -> Seq(Tcp!Bytes)] /\ buf \in [Ends -> Seq(Tcp!Bytes)]
      /\ sent \in [Ends -> Seq(Load(framing))] /\ got \in [Ends -> Seq(Load(framing))]
      /\ closed \in [Ends -> BOOLEAN] /\ TcpTypes
  BY DEF TcpInv, TcpTypes
<1>d. ASSUME /\ framing' = framing
             /\ sock' \in [Ends -> {"none", "connecting", "up", "destroyed", "gone"}]
             /\ wire' \in [Ends -> Seq(Tcp!Bytes)] /\ buf' \in [Ends -> Seq(Tcp!Bytes)]
             /\ sent' \in [Ends -> Seq(Load(framing))] /\ got' \in [Ends -> Seq(Load(framing))]
             /\ closed' \in [Ends -> BOOLEAN]
      PROVE  TcpTypes'
  BY <1>c, <1>d DEF TcpTypes
<1>e. Tcp!Ends = Ends
  BY DEF Tcp!Ends, Ends
<1>1. CASE Tcp!Listen \/ Tcp!ServerClosed
  BY <1>1, <1>c, <1>d DEF Tcp!Listen, Tcp!ServerClosed
<1>2. CASE Tcp!ServerClose
  <2>2. PICK open, cut :
          /\ cut \subseteq open
          /\ \A x \in open : sock[x] = "up" /\ \A c \in Conns : x # Tcp!Client(c)
          /\ sock' = [x \in Ends |-> IF x \in open THEN "destroyed" ELSE sock[x]]
          /\ wire' = [x \in Ends |-> IF x \in cut \/ T!Peer(x) \in open THEN <<>> ELSE wire[x]]
    BY <1>2, <1>c, TcpStopped
  <2>3. UNCHANGED <<framing, buf, sent, got, closed>>
    BY <1>2, <1>c, TcpStopped
  <2>4. wire' \in [Ends -> Seq(Tcp!Bytes)]
    BY <1>c, <2>2
  <2>5. sock' \in [Ends -> {"none", "connecting", "up", "destroyed", "gone"}]
    BY <1>c, <2>2
  <2> QED  BY <1>c, <1>d, <2>3, <2>4, <2>5
<1>3. ASSUME NEW c \in Conns,
             Tcp!Connect(c) \/ Tcp!Connected(c) \/ Tcp!ConnectFails(c) \/ Tcp!Accept(c)
      PROVE  TcpTypes'
  <2>1. UNCHANGED <<framing, wire, buf, sent, got, closed>>
    BY <1>3 DEF Tcp!Connect, Tcp!Connected, Tcp!ConnectFails, Tcp!Accept
  <2>2. sock' \in [Ends -> {"none", "connecting", "up", "destroyed", "gone"}]
    BY <1>3, <1>a, <1>c DEF Tcp!Connect, Tcp!Connected, Tcp!ConnectFails, Tcp!Accept
  <2> QED  BY <1>c, <1>d, <2>1, <2>2
<1>4. ASSUME NEW x \in Ends, TcpSend(x) PROVE TcpTypes'
  <2>1. PICK m \in Load(framing) :
          /\ sent' = [sent EXCEPT ![x] = Append(sent[x], m)]
          /\ wire' = [wire EXCEPT ![x] = wire[x] \o Tcp!frameMessage(m, framing)]
    BY <1>4, TcpSent
  <2>2. UNCHANGED <<framing, sock, buf, got, closed>>
    BY <1>4, TcpSent
  <2>3. Tcp!frameMessage(m, framing) \in Seq(Tcp!Bytes)
    BY <1>c, <2>1, FramingsSeparate, FrameTyped DEF Load
  <2>4. wire[x] \o Tcp!frameMessage(m, framing) \in Seq(Tcp!Bytes)
    BY <1>c, <2>3
  <2>5. Append(sent[x], m) \in Seq(Load(framing))
    BY <1>c
  <2>6. wire' \in [Ends -> Seq(Tcp!Bytes)] /\ sent' \in [Ends -> Seq(Load(framing))]
    BY <1>c, <2>1, <2>4, <2>5
  <2> QED  BY <1>c, <1>d, <2>2, <2>6
<1>5. ASSUME NEW x \in Ends, NEW n \in 1..Len(wire[T!Peer(x)]), Tcp!Chunk(x, n),
             Tcp!processIncoming(x, SubSeq(wire[T!Peer(x)], 1, n))
      PROVE  TcpTypes'
  <2>1. /\ UNCHANGED <<framing, sock, sent, closed>>
        /\ \E r \in Seq(Tcp!Bytes), h \in Seq(Load(framing)) :
             /\ buf' = [buf EXCEPT ![x] = r] /\ got' = [got EXCEPT ![x] = h]
             /\ \E v \in Seq(Tcp!Bytes) : wire' = [wire EXCEPT ![T!Peer(x)] = v]
    BY <1>5, TcpRead, Zenon
  <2>2. PICK r \in Seq(Tcp!Bytes), h \in Seq(Load(framing)), v \in Seq(Tcp!Bytes) :
          /\ buf' = [buf EXCEPT ![x] = r] /\ got' = [got EXCEPT ![x] = h]
          /\ wire' = [wire EXCEPT ![T!Peer(x)] = v]
    BY <2>1
  <2> QED  BY <1>b, <1>c, <1>d, <2>1, <2>2
<1>6. ASSUME NEW x \in Ends, Tcp!Destroyed(x), UNCHANGED <<framing, buf, sent, got>>,
             closed' \in [Ends -> BOOLEAN]
      PROVE  TcpTypes'
  BY <1>6, <1>c, <1>d, TcpDestroyed
<1>7. ASSUME NEW x \in Ends, Tcp!CloseCall(x) \/ Tcp!PeerEnded(x) PROVE TcpTypes'
  BY <1>7, <1>6, <1>c DEF Tcp!CloseCall, Tcp!PeerEnded
<1>8. ASSUME NEW c \in Conns, Tcp!ClientError(c) \/ Tcp!ServerError(c) PROVE TcpTypes'
  <2>1. CASE Tcp!ClientError(c)
    BY <2>1, <1>6, <1>a, <1>c DEF Tcp!ClientError
  <2>2. CASE Tcp!ServerError(c)
    BY <2>2, <1>6, <1>a, <1>c DEF Tcp!ServerError
  <2> QED  BY <1>8, <2>1, <2>2
<1>9. ASSUME NEW c \in Conns, Tcp!ClientEnd(c) \/ Tcp!Disconnect(c) PROVE TcpTypes'
  <2>1. UNCHANGED <<framing, wire, buf, sent, got>>
    BY <1>9 DEF Tcp!ClientEnd, Tcp!Disconnect
  <2>2. /\ sock' \in [Ends -> {"none", "connecting", "up", "destroyed", "gone"}]
        /\ closed' \in [Ends -> BOOLEAN]
    BY <1>9, <1>a, <1>c DEF Tcp!ClientEnd, Tcp!Disconnect
  <2> QED  BY <1>c, <1>d, <2>1, <2>2
<1>10. ASSUME NEW c \in Conns, Tcp!ClientData(c) \/ Tcp!ServerData(c) PROVE TcpTypes'
  <2>1. CASE Tcp!ClientData(c)
    BY <2>1, <1>5, <1>a DEF Tcp!ClientData
  <2>2. CASE Tcp!ServerData(c)
    BY <2>2, <1>5, <1>a DEF Tcp!ServerData
  <2> QED  BY <1>10, <2>1, <2>2
<1> QED  BY <1>e, <1>1, <1>2, <1>3, <1>4, <1>7, <1>8, <1>9, <1>10
         DEF Tcp!Next, Tcp!Link, TcpSend

\* What each end takes, step by step.
LEMMA TcpTakesInductive ==
  ASSUME TcpInv, Tcp!Next, Separable, NEW e \in Ends
  PROVE  TcpTakes(e)'
<1> DEFINE p == T!Peer(e)
<1>a. /\ \A c \in Conns : /\ Tcp!Client(c) \in Ends /\ Tcp!Server(c) \in Ends
                          /\ T!Peer(Tcp!Client(c)) = Tcp!Server(c)
                          /\ T!Peer(Tcp!Server(c)) = Tcp!Client(c)
      /\ Tcp!Ends = Ends
  BY TcpPairs DEF Tcp!Ends, Ends
<1>b. p \in Ends /\ p # e /\ T!Peer(p) = e /\ p' = p
  BY PeerFacts DEF T!Peer
<1>c. /\ framing \in Framings /\ sock \in [Ends -> {"none", "connecting", "up", "destroyed", "gone"}]
      /\ wire \in [Ends -> Seq(Tcp!Bytes)] /\ buf \in [Ends -> Seq(Tcp!Bytes)]
      /\ sent \in [Ends -> Seq(Load(framing))] /\ got \in [Ends -> Seq(Load(framing))]
      /\ closed \in [Ends -> BOOLEAN] /\ TcpTypes
  BY DEF TcpInv, TcpTypes
<1>e. /\ InOrder(got[e], sent[p])
      /\ sock[e] \in Live =>
           /\ ~closed[e] /\ Begun(got[e], buf[e] \o wire[p], sent[p], framing)
           /\ sock[p] \in Live => Entire(got[e], buf[e] \o wire[p], sent[p], framing)
  BY DEF TcpInv, TcpTakes
<1>f. ASSUME framing' = framing,
             /\ InOrder(got'[e], sent'[p])
             /\ sock'[e] \in Live =>
                  /\ ~closed'[e] /\ Begun(got'[e], buf'[e] \o wire'[p], sent'[p], framing)
                  /\ sock'[p] \in Live => Entire(got'[e], buf'[e] \o wire'[p], sent'[p], framing)
      PROVE  TcpTakes(e)'
  BY <1>b, <1>f DEF TcpTakes, Live
<1> HIDE DEF p
<1>g. ASSUME framing' = framing, got'[e] = got[e], sent'[p] = sent[p], wire'[p] = wire[p],
             buf'[e] = buf[e], sock'[e] \in Live => sock[e] \in Live /\ closed'[e] = closed[e],
             sock'[p] \in Live => sock[p] \in Live
      PROVE  TcpTakes(e)'
  BY <1>e, <1>f, <1>g
<1>1. CASE Tcp!Listen \/ Tcp!ServerClosed
  BY <1>1, <1>g DEF Tcp!Listen, Tcp!ServerClosed
<1>2. CASE Tcp!ServerClose
  <2>1. PICK open, cut :
          /\ cut \subseteq open
          /\ \A x \in open : sock[x] = "up" /\ \A c \in Conns : x # Tcp!Client(c)
          /\ sock' = [x \in Ends |-> IF x \in open THEN "destroyed" ELSE sock[x]]
          /\ wire' = [x \in Ends |-> IF x \in cut \/ T!Peer(x) \in open THEN <<>> ELSE wire[x]]
    BY <1>2, <1>c, TcpStopped
  <2>2. UNCHANGED <<framing, buf, sent, got, closed>>
    BY <1>2, <1>c, TcpStopped
  <2>3. CASE e \in open
    <3>1. sock'[e] \notin Live
      BY <2>1, <2>3 DEF Live
    <3> QED  BY <1>e, <1>f, <2>2, <3>1
  <2>4. CASE e \notin open /\ p \in cut
    <3>1. sock'[p] \notin Live /\ wire'[p] = <<>> /\ sock'[e] = sock[e] /\ sock[p] \in Live
      BY <1>b, <2>1, <2>4 DEF Live
    <3>2. 0 \in 0..Len(wire[p]) /\ SubSeq(wire[p], 1, 0) = <<>>
      BY <1>b, <1>c
    <3>3. sock[e] \in Live => Begun(got[e], buf[e] \o SubSeq(wire[p], 1, 0), sent[p], framing)
      BY <1>b, <1>c, <1>e, <3>2, BytesCut
    <3> QED  BY <1>e, <1>f, <2>2, <3>1, <3>2, <3>3
  <2>5. CASE e \notin open /\ p \notin cut
    <3>1. wire'[p] = wire[p] /\ sock'[e] = sock[e] /\ (sock'[p] \in Live => sock[p] \in Live)
      BY <1>b, <2>1, <2>5 DEF Live
    <3> QED  BY <1>g, <2>2, <3>1
  <2> QED  BY <2>3, <2>4, <2>5
<1>3. ASSUME NEW c \in Conns,
             Tcp!Connect(c) \/ Tcp!Connected(c) \/ Tcp!ConnectFails(c) \/ Tcp!Accept(c)
      PROVE  TcpTakes(e)'
  <2>1. UNCHANGED <<framing, wire, buf, sent, got, closed>>
    BY <1>3 DEF Tcp!Connect, Tcp!Connected, Tcp!ConnectFails, Tcp!Accept
  <2>2. \E y \in Ends : \E v : sock' = [sock EXCEPT ![y] = v] /\ sock[y] \in Live
    BY <1>3, <1>a DEF Tcp!Connect, Tcp!Connected, Tcp!ConnectFails, Tcp!Accept, Live
  <2>3. \A y \in Ends : sock'[y] \in Live => sock[y] \in Live
    BY <1>c, <2>2
  <2> QED  BY <1>b, <1>g, <2>1, <2>3
<1>4. ASSUME NEW x \in Ends, TcpSend(x) PROVE TcpTakes(e)'
  <2>1. PICK m \in Load(framing) :
          /\ sent' = [sent EXCEPT ![x] = Append(sent[x], m)]
          /\ wire' = [wire EXCEPT ![x] = wire[x] \o Tcp!frameMessage(m, framing)]
    BY <1>4, TcpSent
  <2>2. sock[x] = "up" /\ UNCHANGED <<framing, sock, buf, got, closed>>
    BY <1>4, TcpSent
  <2>3. CASE x # p
    BY <1>b, <1>c, <1>g, <2>1, <2>2, <2>3
  <2>4. CASE x = p
    <3>1. sent'[p] = Append(sent[p], m) /\ wire'[p] = wire[p] \o Tcp!frameMessage(m, framing)
      BY <1>b, <1>c, <2>1, <2>4
    <3> DEFINE g == got[e]
               s == sent[p]
               f == framing
    <3>2. g \in Seq(Load(f)) /\ s \in Seq(Load(f)) /\ InOrder(g, s) /\ Framing(f)
      BY <1>b, <1>c, <1>e, FramingsSeparate
    <3> HIDE DEF g, s, f
    <3>3. InOrder(g, Append(s, m))
      BY <3>2 DEF InOrder
    <3>4. sock[e] \in Live => Entire(g, buf[e] \o wire[p], s, f)
      BY <1>e, <2>2, <2>4 DEF Live, g, s, f
    <3>5. Len(g) \in Nat /\ Len(g) <= Len(s)
      BY <3>2 DEF InOrder
    <3>6. buf[e] \in Seq(Tcp!Bytes) /\ wire[p] \in Seq(Tcp!Bytes) /\ m \in Load(f)
      BY <1>b, <1>c, <2>1 DEF f
    <3>7. sock[e] \in Live =>
            Entire(g, buf[e] \o (wire[p] \o Tcp!frameMessage(m, f)), Append(s, m), f)
      BY <3>2, <3>4, <3>5, <3>6, FrameWritten
    <3>8. sock[e] \in Live =>
            Begun(g, buf[e] \o (wire[p] \o Tcp!frameMessage(m, f)), Append(s, m), f)
      BY <3>7, EntireBegins
    <3> QED  BY <1>e, <1>f, <2>2, <3>1, <3>3, <3>7, <3>8 DEF g, s, f
  <2> QED  BY <2>3, <2>4
<1>5. ASSUME NEW x \in Ends, NEW n \in 1..Len(wire[T!Peer(x)]), Tcp!Chunk(x, n),
             Tcp!processIncoming(x, SubSeq(wire[T!Peer(x)], 1, n))
      PROVE  TcpTakes(e)'
  <2>1. UNCHANGED <<framing, sock, sent, closed>> /\ sock[x] = "up"
    BY <1>5, TcpRead, Zenon
  <2>2. \E r \in Seq(Tcp!Bytes), h \in Seq(Load(framing)), v \in Seq(Tcp!Bytes) :
          /\ buf' = [buf EXCEPT ![x] = r] /\ got' = [got EXCEPT ![x] = h]
          /\ wire' = [wire EXCEPT ![T!Peer(x)] = v]
          /\ Begun(h, r \o v, sent[T!Peer(x)], framing)
          /\ Entire(got[x], buf[x] \o wire[T!Peer(x)], sent[T!Peer(x)], framing) =>
               Entire(h, r \o v, sent[T!Peer(x)], framing)
          /\ InOrder(h, sent[T!Peer(x)])
    BY <1>5, TcpRead, Zenon
  <2>3. PICK r \in Seq(Tcp!Bytes), h \in Seq(Load(framing)), v \in Seq(Tcp!Bytes) :
          /\ buf' = [buf EXCEPT ![x] = r] /\ got' = [got EXCEPT ![x] = h]
          /\ wire' = [wire EXCEPT ![T!Peer(x)] = v]
          /\ Begun(h, r \o v, sent[T!Peer(x)], framing)
          /\ Entire(got[x], buf[x] \o wire[T!Peer(x)], sent[T!Peer(x)], framing) =>
               Entire(h, r \o v, sent[T!Peer(x)], framing)
          /\ InOrder(h, sent[T!Peer(x)])
    BY <2>2
  <2>4. CASE x = e
    <3>1. T!Peer(x) = p
      BY <2>4 DEF p
    <3>2. buf'[e] = r /\ got'[e] = h /\ wire'[p] = v
      BY <1>b, <1>c, <2>3, <2>4, <3>1
    <3>3. Begun(h, r \o v, sent[p], framing) /\ InOrder(h, sent[p]) /\ ~closed[e]
      BY <1>e, <2>1, <2>3, <2>4, <3>1 DEF Live
    <3>4. sock[p] \in Live => Entire(h, r \o v, sent[p], framing)
      BY <1>e, <2>1, <2>3, <2>4, <3>1 DEF Live
    <3> QED  BY <1>f, <2>1, <3>2, <3>3, <3>4
  <2>5. CASE x # e
    <3>1. T!Peer(x) # p
      BY <1>b, <2>5, PeerFacts DEF p
    <3> QED  BY <1>b, <1>c, <1>g, <2>1, <2>3, <2>5, <3>1
  <2> QED  BY <2>4, <2>5
<1>6. ASSUME NEW x \in Ends, Tcp!Destroyed(x), UNCHANGED <<framing, buf, sent, got>>,
             \A y \in Ends : y # x => closed'[y] = closed[y]
      PROVE  TcpTakes(e)'
  <2>1. /\ sock' = [sock EXCEPT ![x] = "destroyed"]
        /\ \A y \in Ends : y # x /\ y # T!Peer(x) => wire'[y] = wire[y]
    BY <1>6, <1>c, TcpDestroyed
  <2>2. PICK k \in 0..Len(wire[x]) : wire'[x] = SubSeq(wire[x], 1, k)
    BY <1>6, <1>c, TcpDestroyed
  <2>3. CASE x = e
    <3>1. sock'[e] \notin Live
      BY <1>c, <2>1, <2>3 DEF Live
    <3> QED  BY <1>e, <1>f, <1>6, <3>1
  <2>4. CASE x = p
    <3>1. sock'[p] \notin Live /\ sock'[e] = sock[e] /\ closed'[e] = closed[e]
      BY <1>b, <1>c, <1>6, <2>1, <2>4 DEF Live
    <3>2. sock[e] \in Live => Begun(got[e], buf[e] \o wire'[p], sent[p], framing)
      BY <1>b, <1>c, <1>e, <2>2, <2>4, BytesCut
    <3> QED  BY <1>e, <1>f, <1>6, <3>1, <3>2
  <2>5. CASE x # e /\ x # p
    <3>1. T!Peer(x) # p
      BY <1>b, <2>5, PeerFacts
    <3>2. wire'[p] = wire[p] /\ sock'[e] = sock[e] /\ sock'[p] = sock[p] /\ closed'[e] = closed[e]
      BY <1>b, <1>c, <1>6, <2>1, <2>5, <3>1
    <3> QED  BY <1>g, <1>6, <3>2
  <2> QED  BY <2>3, <2>4, <2>5
<1>7. ASSUME NEW x \in Ends, Tcp!CloseCall(x) \/ Tcp!PeerEnded(x) PROVE TcpTakes(e)'
  BY <1>7, <1>6 DEF Tcp!CloseCall, Tcp!PeerEnded
<1>8. ASSUME NEW c \in Conns, Tcp!ClientError(c) \/ Tcp!ServerError(c) PROVE TcpTakes(e)'
  <2>1. CASE Tcp!ClientError(c)
    BY <2>1, <1>6, <1>a DEF Tcp!ClientError
  <2>2. CASE Tcp!ServerError(c)
    BY <2>2, <1>6, <1>a, <1>c DEF Tcp!ServerError
  <2> QED  BY <1>8, <2>1, <2>2
<1>9. ASSUME NEW c \in Conns, Tcp!ClientEnd(c) \/ Tcp!Disconnect(c) PROVE TcpTakes(e)'
  <2>1. UNCHANGED <<framing, wire, buf, sent, got>>
    BY <1>9 DEF Tcp!ClientEnd, Tcp!Disconnect
  <2>2. \E y \in Ends : /\ sock' = [sock EXCEPT ![y] = "gone"]
                        /\ \A z \in Ends : z # y => closed'[z] = closed[z]
    BY <1>9, <1>a, <1>c DEF Tcp!ClientEnd, Tcp!Disconnect
  <2>3. \A z \in Ends : sock'[z] \in Live => sock[z] \in Live /\ closed'[z] = closed[z]
    BY <1>c, <2>2 DEF Live
  <2> QED  BY <1>b, <1>g, <2>1, <2>3
<1>10. ASSUME NEW c \in Conns, Tcp!ClientData(c) \/ Tcp!ServerData(c) PROVE TcpTakes(e)'
  <2>1. CASE Tcp!ClientData(c)
    BY <2>1, <1>5, <1>a DEF Tcp!ClientData
  <2>2. CASE Tcp!ServerData(c)
    BY <2>2, <1>5, <1>a DEF Tcp!ServerData
  <2> QED  BY <1>10, <2>1, <2>2
<1> QED  BY <1>a, <1>1, <1>2, <1>3, <1>4, <1>7, <1>8, <1>9, <1>10
         DEF Tcp!Next, Tcp!Link, TcpSend

LEMMA TcpToldInductive ==
  ASSUME TcpInv, Tcp!Next, Separable, NEW c \in Conns
  PROVE  TcpTold(c)'
<1> DEFINE k == Tcp!Client(c)
           s == Tcp!Server(c)
<1>a. /\ k \in Ends /\ s \in Ends /\ k # s
      /\ \A d \in Conns : /\ Tcp!Client(d) \in Ends /\ Tcp!Server(d) \in Ends
                          /\ Tcp!Client(d) # s /\ Tcp!Server(d) # k
                          /\ Tcp!Server(d) = s => d = c
                          /\ Tcp!Client(d) = k => d = c
      /\ Tcp!Ends = Ends
  BY TcpPairs DEF Tcp!Ends, Ends
<1>b. k' = k /\ s' = s
  BY DEF Tcp!Client, Tcp!Server
<1>c. /\ sock \in [Ends -> {"none", "connecting", "up", "destroyed", "gone"}]
      /\ closed \in [Ends -> BOOLEAN] /\ TcpTypes
  BY DEF TcpInv, TcpTypes
<1>d. (c \in conns => ~closed[s]) /\ (closed[k] => sock[k] = "gone")
  BY DEF TcpInv, TcpTold
<1>e. sock[s] \in Live => ~closed[s]
  BY <1>a DEF TcpInv, TcpTakes
<1>f. ASSUME c \in conns' => ~closed'[s], closed'[k] => sock'[k] = "gone" PROVE TcpTold(c)'
  BY <1>b, <1>f DEF TcpTold
<1>g. ASSUME c \in conns' => c \in conns /\ closed'[s] = closed[s],
             closed'[k] = closed[k], sock[k] = "gone" => sock'[k] = "gone"
      PROVE  TcpTold(c)'
  BY <1>d, <1>f, <1>g
<1>1. CASE Tcp!Listen \/ Tcp!ServerClosed
  BY <1>1, <1>g DEF Tcp!Listen, Tcp!ServerClosed
<1>2. CASE Tcp!ServerClose
  <2>1. PICK open, cut :
          /\ cut \subseteq open
          /\ \A x \in open : sock[x] = "up" /\ \A d \in Conns : x # Tcp!Client(d)
          /\ sock' = [x \in Ends |-> IF x \in open THEN "destroyed" ELSE sock[x]]
          /\ wire' = [x \in Ends |-> IF x \in cut \/ T!Peer(x) \in open THEN <<>> ELSE wire[x]]
    BY <1>2, <1>c, TcpStopped
  <2>2. UNCHANGED <<conns, closed>>
    BY <1>2, <1>c, TcpStopped
  <2>3. sock'[k] = sock[k]
    BY <1>a, <2>1
  <2> QED  BY <1>g, <2>2, <2>3
<1>3. ASSUME NEW d \in Conns, Tcp!Connect(d) \/ Tcp!Connected(d) \/ Tcp!ConnectFails(d)
      PROVE  TcpTold(c)'
  <2>1. UNCHANGED <<conns, closed>>
    BY <1>3 DEF Tcp!Connect, Tcp!Connected, Tcp!ConnectFails
  <2>2. \E v : sock' = [sock EXCEPT ![Tcp!Client(d)] = v] /\ sock[Tcp!Client(d)] # "gone"
    BY <1>3 DEF Tcp!Connect, Tcp!Connected, Tcp!ConnectFails
  <2>3. sock[k] = "gone" => sock'[k] = "gone"
    BY <1>a, <1>c, <2>2
  <2> QED  BY <1>g, <2>1, <2>3
<1>4. ASSUME NEW d \in Conns, Tcp!Accept(d) PROVE TcpTold(c)'
  <2>1. /\ sock[Tcp!Server(d)] = "none" /\ sock' = [sock EXCEPT ![Tcp!Server(d)] = "up"]
        /\ conns' = conns \cup {d} /\ UNCHANGED closed
    BY <1>4 DEF Tcp!Accept
  <2>2. d = c => ~closed[s]
    BY <1>e, <2>1 DEF Live
  <2>3. sock'[k] = sock[k]
    BY <1>a, <1>c, <2>1
  <2> QED  BY <1>d, <1>f, <2>1, <2>2, <2>3
<1>5. ASSUME NEW x \in Ends, TcpSend(x) PROVE TcpTold(c)'
  BY <1>5, <1>g DEF TcpSend, Tcp!Write
<1>6. ASSUME NEW d \in Conns, Tcp!ClientData(d) \/ Tcp!ServerData(d) PROVE TcpTold(c)'
  <2>1. UNCHANGED <<sock, conns, closed>>
    BY <1>6 DEF Tcp!ClientData, Tcp!ServerData, Tcp!Chunk
  <2> QED  BY <1>g, <2>1
<1>7. ASSUME NEW x \in Ends, sock[x] = "up", Tcp!Destroyed(x) PROVE sock[k] = "gone" => sock'[k] = "gone"
  BY <1>7, <1>a, <1>c DEF Tcp!Destroyed
<1>8. ASSUME NEW x \in Ends, Tcp!CloseCall(x) \/ Tcp!PeerEnded(x) PROVE TcpTold(c)'
  BY <1>8, <1>7, <1>g DEF Tcp!CloseCall, Tcp!PeerEnded
<1>9. ASSUME NEW d \in Conns, Tcp!ClientError(d) PROVE TcpTold(c)'
  BY <1>9, <1>7, <1>g, <1>a DEF Tcp!ClientError
<1>10. ASSUME NEW d \in Conns, Tcp!ServerError(d) PROVE TcpTold(c)'
  <2>1. /\ conns' = conns \ {d}
        /\ closed' = [closed EXCEPT ![Tcp!Server(d)] = closed[Tcp!Server(d)] \/ d \in conns]
    BY <1>10 DEF Tcp!ServerError
  <2>2. sock[k] = "gone" => sock'[k] = "gone"
    BY <1>10, <1>7, <1>a DEF Tcp!ServerError
  <2>3. closed'[k] = closed[k] /\ (c \in conns' => c \in conns /\ closed'[s] = closed[s])
    BY <1>a, <1>c, <2>1
  <2> QED  BY <1>g, <2>2, <2>3
<1>11. ASSUME NEW d \in Conns, Tcp!ClientEnd(d) PROVE TcpTold(c)'
  <2>1. /\ sock' = [sock EXCEPT ![Tcp!Client(d)] = "gone"] /\ UNCHANGED conns
        /\ closed' = [closed EXCEPT ![Tcp!Client(d)] = TRUE]
    BY <1>11 DEF Tcp!ClientEnd
  <2>2. closed'[s] = closed[s] /\ (closed'[k] => sock'[k] = "gone")
    BY <1>a, <1>c, <1>d, <2>1
  <2> QED  BY <1>d, <1>f, <2>1, <2>2
<1>12. ASSUME NEW d \in Conns, Tcp!Disconnect(d) PROVE TcpTold(c)'
  <2>1. /\ conns' = conns \ {d} /\ sock' = [sock EXCEPT ![Tcp!Server(d)] = "gone"]
        /\ closed' = [closed EXCEPT ![Tcp!Server(d)] = closed[Tcp!Server(d)] \/ d \in conns]
    BY <1>12 DEF Tcp!Disconnect
  <2>2. /\ sock'[k] = sock[k] /\ closed'[k] = closed[k]
        /\ c \in conns' => c \in conns /\ closed'[s] = closed[s]
    BY <1>a, <1>c, <2>1
  <2> QED  BY <1>g, <2>2
<1> QED  BY <1>a, <1>1, <1>2, <1>3, <1>4, <1>5, <1>6, <1>8, <1>9, <1>10, <1>11, <1>12
         DEF Tcp!Next, Tcp!Link, TcpSend

\* What is written extends what was sent, at an end that is not closed.
LEMMA TcpSends ==
  ASSUME TcpInv, Separable, NEW x \in Ends, TcpSend(x)
  PROVE  Sending(x)
<1>1. \E m \in Messages : sent' = [sent EXCEPT ![x] = Append(sent[x], m)]
  BY TcpSent DEF Load
<1>2. ~closed[x] /\ UNCHANGED <<got, closed>>
  BY TcpSent DEF Live, TcpInv, TcpTakes
<1> QED  BY <1>1, <1>2 DEF Sending

\* Every step is one of the abstract transport's, or none.
LEMMA TcpStepRefines ==
  ASSUME TcpInv, Tcp!Next, Separable
  PROVE  [Moving]_<<sent, got, closed>>
<1> USE SameEnds
<1>a. /\ \A c \in Conns : /\ Tcp!Client(c) \in Ends /\ Tcp!Server(c) \in Ends
                          /\ T!Peer(Tcp!Client(c)) = Tcp!Server(c)
                          /\ T!Peer(Tcp!Server(c)) = Tcp!Client(c)
      /\ Tcp!Ends = Ends
  BY TcpPairs DEF Tcp!Ends, Ends
<1>c. /\ sent \in [Ends -> Seq(Load(framing))] /\ got \in [Ends -> Seq(Load(framing))]
      /\ closed \in [Ends -> BOOLEAN] /\ TcpTypes
  BY DEF TcpInv, TcpTypes
<1>d. \A x \in Ends : sock[x] \in Live => ~closed[x]
  BY DEF TcpInv, TcpTakes
<1>1. CASE Tcp!Listen \/ Tcp!ServerClosed
  BY <1>1 DEF Tcp!Listen, Tcp!ServerClosed
<1>2. CASE Tcp!ServerClose
  BY <1>2, <1>c, TcpStopped
<1>3. ASSUME NEW c \in Conns,
             Tcp!Connect(c) \/ Tcp!Connected(c) \/ Tcp!ConnectFails(c) \/ Tcp!Accept(c)
             \/ Tcp!ClientError(c)
      PROVE  UNCHANGED <<sent, got, closed>>
  BY <1>3 DEF Tcp!Connect, Tcp!Connected, Tcp!ConnectFails, Tcp!Accept, Tcp!ClientError
<1>4. ASSUME NEW x \in Ends, Tcp!CloseCall(x) \/ Tcp!PeerEnded(x) PROVE UNCHANGED <<sent, got, closed>>
  BY <1>4 DEF Tcp!CloseCall, Tcp!PeerEnded
<1>5. ASSUME NEW x \in Ends, TcpSend(x) PROVE Sending(x)
  BY <1>5, TcpSends
<1>6. ASSUME NEW x \in Ends, NEW n \in 1..Len(wire[T!Peer(x)]), Tcp!Chunk(x, n),
             Tcp!processIncoming(x, SubSeq(wire[T!Peer(x)], 1, n))
      PROVE  Arriving(x) \/ UNCHANGED <<sent, got, closed>>
  <2> DEFINE p == T!Peer(x)
  <2>1. UNCHANGED <<sent, closed>> /\ ~closed[x]
    BY <1>6, <1>d, TcpRead DEF Live
  <2>2. PICK h \in Seq(Load(framing)) :
          /\ got' = [got EXCEPT ![x] = h]
          /\ Len(got[x]) <= Len(h) /\ h = SubSeq(sent[p], 1, Len(h)) /\ InOrder(h, sent[p])
          /\ Len(got[x]) = Len(h) => h = got[x]
    BY <1>6, TcpRead
  <2>3. CASE Len(got[x]) = Len(h)
    <3>1. got' = got
      BY <1>c, <2>2, <2>3
    <3> QED  BY <2>1, <3>1
  <2>4. CASE Len(got[x]) # Len(h)
    <3>1. Len(got[x]) \in Nat /\ Len(h) \in Nat /\ Len(h) <= Len(sent[p]) /\ p \in Ends
      BY <1>c, <2>2, PeerFacts DEF InOrder
    <3>2. sent[p] \in Seq(Load(framing))
      BY <1>c, <3>1
    <3>3. Len(h) \in (Len(got[x]) + 1)..Len(sent[p])
      BY <2>2, <2>4, <3>1, <3>2
    <3>4. got' = [got EXCEPT ![x] = SubSeq(sent[p], 1, Len(h))]
      BY <2>2
    <3> QED  BY <2>1, <3>3, <3>4, Zenon DEF Arriving
  <2> QED  BY <2>3, <2>4
<1>7. ASSUME NEW c \in Conns, Tcp!ClientData(c) \/ Tcp!ServerData(c)
      PROVE  \/ Arriving(Tcp!Client(c)) \/ Arriving(Tcp!Server(c))
             \/ UNCHANGED <<sent, got, closed>>
  <2>1. CASE Tcp!ClientData(c)
    BY <2>1, <1>6, <1>a DEF Tcp!ClientData
  <2>2. CASE Tcp!ServerData(c)
    BY <2>2, <1>6, <1>a DEF Tcp!ServerData
  <2> QED  BY <1>7, <2>1, <2>2
<1>8. ASSUME NEW x \in Ends, ~closed[x], closed' = [closed EXCEPT ![x] = TRUE], UNCHANGED <<sent, got>>
      PROVE  Closing({x})
  <2>1. closed' = [y \in Ends |-> closed[y] \/ y \in {x}]
    BY <1>8, <1>c
  <2> QED  BY <1>8, <2>1 DEF Closing
<1>9. ASSUME NEW c \in Conns, Tcp!ServerError(c) \/ Tcp!Disconnect(c)
      PROVE  Closing({Tcp!Server(c)}) \/ UNCHANGED <<sent, got, closed>>
  <2> DEFINE s == Tcp!Server(c)
  <2>1. closed' = [closed EXCEPT ![s] = closed[s] \/ c \in conns] /\ UNCHANGED <<sent, got>>
    BY <1>9 DEF Tcp!ServerError, Tcp!Disconnect
  <2>2. s \in Ends /\ (c \in conns => ~closed[s])
    BY <1>a DEF TcpInv, TcpTold
  <2> HIDE DEF s
  <2>3. CASE c \in conns
    <3>1. closed' = [closed EXCEPT ![s] = TRUE]
      BY <2>1, <2>3
    <3> QED  BY <1>8, <2>1, <2>2, <2>3, <3>1 DEF s
  <2>4. CASE c \notin conns
    <3>1. closed' = closed
      BY <1>c, <2>1, <2>2, <2>4
    <3> QED  BY <2>1, <3>1
  <2> QED  BY <2>3, <2>4
<1>10. ASSUME NEW c \in Conns, Tcp!ClientEnd(c) PROVE Closing({Tcp!Client(c)})
  <2>1. /\ sock[Tcp!Client(c)] = "destroyed" /\ UNCHANGED <<sent, got>>
        /\ closed' = [closed EXCEPT ![Tcp!Client(c)] = TRUE]
    BY <1>10 DEF Tcp!ClientEnd
  <2>2. ~closed[Tcp!Client(c)]
    BY <2>1 DEF TcpInv, TcpTold
  <2> QED  BY <1>8, <1>a, <2>1, <2>2
<1>11. \A x \in Ends : {x} \in SUBSET Ends /\ x \in Ends
  OBVIOUS
<1>12. ASSUME NEW c \in Conns, Arriving(Tcp!Client(c)) \/ Arriving(Tcp!Server(c))
                               \/ Closing({Tcp!Client(c)}) \/ Closing({Tcp!Server(c)})
       PROVE  Moving
  BY <1>12, <1>11, <1>a DEF Moving
<1>13. ASSUME NEW x \in Ends, Sending(x) PROVE Moving
  BY <1>13, <1>11 DEF Moving
<1> QED  BY <1>a, <1>1, <1>2, <1>3, <1>4, <1>5, <1>7, <1>9, <1>10, <1>12, <1>13
         DEF Tcp!Next, Tcp!Link, TcpSend

-----------------------------------------------------------------------------
(* The transports together                                                 *)

StreamInv ==
  /\ protocol \in Protocols
  /\ protocol = "ws" => WsInv
  /\ protocol = "grpc" => GrpcInv
  /\ protocol = "tcp" => TcpInv

\* what a custom codec encodes is to be sent; what the default one is given is
\* handed on at once
CodecInv ==
  /\ called \in [Ends -> Nat] /\ encoding \in [Ends -> SUBSET Nat]
  /\ \A x \in Ends : \A n \in encoding[x] : n \in 1..Len(Sends[x])
  /\ codec # "custom" => handed = [x \in Ends |-> T!Positions(Len(got[x]))]

LEMMA StreamsStart ==
  ASSUME Init
  PROVE  StreamInv /\ CodecInv /\ T!Init
<1>a. \A x \in Ends : T!Peer(x) \in Ends
  BY PeerFacts
<1>b. Tcp!Ends = Ends
  BY DEF Tcp!Ends, Ends
<1>1. /\ sent = [x \in Ends |-> <<>>] /\ got = [x \in Ends |-> <<>>]
      /\ closed = [x \in Ends |-> FALSE] /\ wire = [x \in Ends |-> <<>>]
      /\ sock = [x \in Ends |-> "none"] /\ protocol \in Protocols
  BY <1>b, SameEnds DEF Init, Ws!Init, Grpc!Init, Tcp!Init
<1>2. protocol = "grpc" => connected = [x \in Ends |-> FALSE] /\ fin = [x \in Ends |-> FALSE]
  BY SameEnds DEF Init, Grpc!Init
<1>3. <<>> \in Seq(Messages) /\ <<>> \in Seq(Payload) /\ InOrder(<<>>, <<>>)
      /\ UnderWay(<<>>, <<>>, <<>>) /\ Whole(<<>>, <<>>, <<>>)
  BY DEF InOrder, UnderWay, Whole
<1>4. WsInv
  BY <1>a, <1>1, <1>3 DEF WsInv, WsTypes, WsTakes
<1>5. protocol = "grpc" => GrpcInv
  BY <1>a, <1>1, <1>2, <1>3 DEF GrpcInv, GrpcTypes, GrpcTakes
<1>6. protocol = "tcp" => TcpInv
  <2> SUFFICES ASSUME protocol = "tcp" PROVE TcpInv
    OBVIOUS
  <2>1. framing \in Framings /\ buf = [x \in Ends |-> <<>>] /\ conns = {}
    BY <1>b DEF Init, Tcp!Init
  <2>2. <<>> \in Seq(Load(framing)) /\ <<>> \in Seq(Tcp!Bytes)
    OBVIOUS
  <2>3. TcpTypes
    BY <1>1, <2>1, <2>2 DEF TcpTypes
  <2>4. Entire(<<>>, <<>> \o <<>>, <<>>, framing)
    <3>1. <<>> \o <<>> = <<>> /\ Rest(<<>>, <<>>) = <<>>
      BY <2>2, ConcatEmptySeq DEF Rest
    <3> QED  BY <3>1, NothingStreams DEF Entire
  <2>5. ASSUME NEW x \in Ends PROVE TcpTakes(x)
    BY <1>a, <1>1, <1>3, <2>1, <2>4, EntireBegins DEF TcpTakes
  <2>6. ASSUME NEW c \in Conns PROVE TcpTold(c)
    BY <1>1, <2>1, TcpPairs DEF TcpTold
  <2> QED  BY <2>3, <2>5, <2>6 DEF TcpInv
<1>7. /\ handed = [x \in Ends |-> <<>>] /\ lost = [x \in Ends |-> {}]
      /\ called = [x \in Ends |-> 0] /\ encoding = [x \in Ends |-> {}]
  BY DEF Init
<1>8. \A x \in Ends : T!Positions(Len(got[x])) = <<>>
  BY <1>1 DEF T!Positions
<1>9. CodecInv
  BY <1>7, <1>8 DEF CodecInv
<1>10. (codec = "custom") \in BOOLEAN
  OBVIOUS
<1> QED  BY <1>1, <1>4, <1>5, <1>6, <1>7, <1>9, <1>10, SameEnds DEF StreamInv, T!Init

\* What no step of a connection is keeps it as it is.
LEMMA StreamsStay ==
  ASSUME StreamInv, UNCHANGED linkVars
  PROVE  StreamInv'
<1>1. UNCHANGED <<sent, got, closed>> /\ UNCHANGED <<protocol, sock, wire, connected, fin>>
      /\ UNCHANGED <<framing, buf, conns>>
  BY DEF linkVars
<1>2. ASSUME WsInv PROVE WsInv'
  <2>1. WsTypes'
    BY <1>1, <1>2 DEF WsInv, WsTypes
  <2>2. ASSUME NEW x \in Ends PROVE WsTakes(x)'
    <3>1. WsTakes(x)
      BY <1>2 DEF WsInv
    <3> QED  BY <1>1, <3>1 DEF WsTakes, InOrder, UnderWay, Whole, T!Peer
  <2> QED  BY <2>1, <2>2 DEF WsInv
<1>3. ASSUME GrpcInv PROVE GrpcInv'
  <2>1. GrpcTypes'
    BY <1>1, <1>3 DEF GrpcInv, GrpcTypes
  <2>2. ASSUME NEW x \in Ends PROVE GrpcTakes(x)'
    <3>1. GrpcTakes(x)
      BY <1>3 DEF GrpcInv
    <3> QED  BY <1>1, <3>1 DEF GrpcTakes, InOrder, UnderWay, Whole, T!Peer
  <2> QED  BY <2>1, <2>2 DEF GrpcInv
<1>4. ASSUME TcpInv PROVE TcpInv'
  <2>1. TcpTypes'
    BY <1>1, <1>4 DEF TcpInv, TcpTypes
  <2>2. ASSUME NEW x \in Ends PROVE TcpTakes(x)'
    <3>1. TcpTakes(x)
      BY <1>4 DEF TcpInv
    <3> QED  BY <1>1, <3>1 DEF TcpTakes, T!Peer
  <2>3. ASSUME NEW c \in Conns PROVE TcpTold(c)'
    <3>1. TcpTold(c)
      BY <1>4 DEF TcpInv
    <3> QED  BY <1>1, <3>1 DEF TcpTold, Tcp!Server, Tcp!Client
  <2> QED  BY <2>1, <2>2, <2>3 DEF TcpInv
<1> QED  BY <1>1, <1>2, <1>3, <1>4 DEF StreamInv

\* A step of a connection, and what is written, whatever the codec.
LEMMA StreamsMove ==
  ASSUME StreamInv, "tcp" \in Protocols => Separable, "ws" \in Protocols => ~EarlyGreeting,
         WsStep(Ws!Next) \/ GrpcStep(Grpc!Next) \/ TcpStep(Tcp!Next)
  PROVE  StreamInv' /\ [Moving]_<<sent, got, closed>>
<1>1. CASE WsStep(Ws!Next)
  BY <1>1, WsTypesInductive, WsTakesInductive, WsStepRefines DEF WsStep, StreamInv, WsInv
<1>2. CASE GrpcStep(Grpc!Next)
  BY <1>2, GrpcTypesInductive, GrpcTakesInductive, GrpcStepRefines
     DEF GrpcStep, StreamInv, GrpcInv
<1>3. CASE TcpStep(Tcp!Next)
  <2>1. TcpInv /\ Tcp!Next /\ Separable /\ protocol = "tcp" /\ protocol' = protocol
        /\ protocol \in Protocols
    BY <1>3 DEF TcpStep, StreamInv
  <2>2. TcpInv'
    BY <2>1, TcpTypesInductive, TcpTakesInductive, TcpToldInductive DEF TcpInv
  <2> QED  BY <2>1, <2>2, TcpStepRefines DEF StreamInv
<1> QED  BY <1>1, <1>2, <1>3

LEMMA StreamsWrite ==
  ASSUME StreamInv, "tcp" \in Protocols => Separable, "ws" \in Protocols => ~EarlyGreeting,
         NEW x \in Ends, NEW m \in Messages, Write(x, m)
  PROVE  StreamInv' /\ Sending(x)
<1>1. Tcp!Ends = Ends
  BY DEF Tcp!Ends, Ends
<1>2. WsStep(Ws!Next) \/ GrpcStep(Grpc!Next) \/ TcpStep(Tcp!Next)
  BY <1>1, SameEnds DEF Write, WsStep, GrpcStep, TcpStep, Ws!Next, Grpc!Next, Tcp!Next
<1>3. ASSUME WsStep(Ws!Write(x, m)) PROVE Sending(x)
  <2>1. WsInv /\ WsSend(x)
    BY <1>3 DEF WsStep, WsSend, StreamInv
  <2> QED  BY <2>1, WsSends
<1>4. ASSUME GrpcStep(Grpc!Write(x, m)) PROVE Sending(x)
  <2>1. GrpcInv /\ GrpcSend(x)
    BY <1>4 DEF GrpcStep, GrpcSend, StreamInv
  <2> QED  BY <2>1, GrpcSends
<1>5. ASSUME TcpStep(Tcp!Write(x, m)) PROVE Sending(x)
  <2>1. TcpInv /\ TcpSend(x) /\ Separable
    BY <1>5 DEF TcpStep, TcpSend, StreamInv
  <2> QED  BY <2>1, TcpSends
<1> QED  BY <1>2, <1>3, <1>4, <1>5, StreamsMove DEF Write

LEMMA StreamsTyped ==
  ASSUME StreamInv, protocol \in {"tcp", "ws", "grpc"}
  PROVE  sent \in [Ends -> Seq(Messages)] /\ got \in [Ends -> Seq(Messages)]
<1>1. ASSUME NEW f PROVE Seq(Load(f)) \subseteq Seq(Messages)
  BY DEF Load
<1> QED  BY <1>1 DEF StreamInv, WsInv, WsTypes, GrpcInv, GrpcTypes, TcpInv, TcpTypes

\* What moves and is handed on as the codec allows is a step of AsyncTransport.
LEMMA HandedOn ==
  ASSUME sent \in [Ends -> Seq(Messages)], got \in [Ends -> Seq(Messages)], CodecInv,
         [Moving]_<<sent, got, closed>>, Arrivals
  PROVE  CodecInv' /\ [T!Next]_T!vars
<1>1. /\ UNCHANGED <<codec, called, encoding, lost>> /\ (codec = "custom")' = (codec = "custom")
      /\ codec = "custom" => handed' = handed
      /\ codec # "custom" => /\ handed = [x \in Ends |-> T!Positions(Len(got[x]))]
                             /\ handed' = [x \in Ends |-> T!Positions(Len(got'[x]))]
  BY DEF Arrivals, CodecInv
<1>2. CodecInv'
  BY <1>1 DEF CodecInv, T!Positions
<1>3. got' = got => handed' = handed
  BY <1>1
<1>4. CASE UNCHANGED <<sent, got, closed>>
  <2>1. sent' = sent /\ got' = got /\ closed' = closed /\ handed' = handed /\ lost' = lost
    BY <1>1, <1>3, <1>4
  <2>2. (codec = "custom")' = (codec = "custom")
    BY <1>1
  <2>3. UNCHANGED T!vars
    BY <2>1, <2>2, Zenon DEF T!vars
  <2> QED  BY <1>2, <2>3
<1>5. ASSUME NEW x \in Ends, Sending(x) PROVE T!Send(x)
  BY <1>1, <1>3, <1>5 DEF Sending, T!Send
<1>6. ASSUME NEW x \in Ends, Arriving(x) PROVE T!Deliver(x)
  <2> DEFINE p == T!Peer(x)
  <2>1. PICK n \in (Len(got[x]) + 1)..Len(sent[p]) : got' = [got EXCEPT ![x] = SubSeq(sent[p], 1, n)]
    BY <1>6 DEF Arriving
  <2>2. p \in Ends
    BY PeerFacts
  <2>3. n \in Nat /\ n <= Len(sent[p]) /\ sent[p] \in Seq(Messages)
    BY <2>1, <2>2
  <2>4. Len(SubSeq(sent[p], 1, n)) = n
    BY <2>3
  <2>5. \A y \in Ends : Len(got'[y]) = IF y = x THEN n ELSE Len(got[y])
    BY <2>1, <2>4
  <2>6. codec # "custom" => handed' = [handed EXCEPT ![x] = T!Positions(n)]
    BY <1>1, <2>5
  <2>7. handed' = IF codec = "custom" THEN handed ELSE [handed EXCEPT ![x] = T!Positions(n)]
    BY <1>1, <2>6
  <2>8. ~closed[x] /\ UNCHANGED <<sent, closed>>
    BY <1>6 DEF Arriving
  <2> HIDE DEF p
  <2>9. \E i \in (Len(got[x]) + 1)..Len(sent[p]) :
          /\ got' = [got EXCEPT ![x] = SubSeq(sent[p], 1, i)]
          /\ handed' = IF codec = "custom" THEN handed ELSE [handed EXCEPT ![x] = T!Positions(i)]
    BY <2>1, <2>7
  <2> QED  BY <1>1, <2>8, <2>9 DEF T!Deliver, p
<1>7. ASSUME NEW X \in SUBSET Ends, Closing(X) PROVE T!Close(X)
  BY <1>1, <1>3, <1>7, SameEnds DEF Closing, T!Close
<1> QED  BY <1>2, <1>4, <1>5, <1>6, <1>7, SameEnds DEF Moving, T!Next

LEMMA StreamsStep ==
  ASSUME StreamInv, CodecInv, [Next]_vars,
         "tcp" \in Protocols => Separable, "ws" \in Protocols => ~EarlyGreeting
  PROVE  StreamInv' /\ CodecInv' /\ [T!Next]_T!vars
<1>1. CASE UNCHANGED vars
  <2>1. UNCHANGED linkVars /\ UNCHANGED codecVars
    BY <1>1 DEF vars
  <2>2. UNCHANGED <<sent, got, closed, codec, called, encoding, handed, lost>>
    BY <2>1 DEF linkVars, codecVars
  <2> QED  BY <2>1, <2>2, StreamsStay DEF CodecInv, T!Positions, T!vars
<1>2. CASE (TcpStep(Tcp!Link) \/ WsStep(Ws!Link) \/ GrpcStep(Grpc!Link)) /\ Arrivals
  <2>1. WsStep(Ws!Next) \/ GrpcStep(Grpc!Next) \/ TcpStep(Tcp!Next)
    BY <1>2 DEF WsStep, GrpcStep, TcpStep, Ws!Next, Grpc!Next, Tcp!Next
  <2>2. protocol \in {"tcp", "ws", "grpc"}
    BY <1>2 DEF WsStep, GrpcStep, TcpStep
  <2> QED  BY <1>2, <2>1, <2>2, StreamsMove, StreamsTyped, HandedOn
<1>3. ASSUME NEW x \in Ends, NEW n \in 1..Len(Sends[x]), Write(x, Sends[x][n]),
             UNCHANGED <<codec, handed, lost>>,
             called' \in [Ends -> Nat], encoding' \in [Ends -> SUBSET Nat],
             \A y \in Ends : encoding'[y] \subseteq encoding[y]
      PROVE  StreamInv' /\ CodecInv' /\ [T!Next]_T!vars
  <2>1. Sends[x][n] \in Messages
    BY <1>3, TransportsAssumption
  <2>2. StreamInv' /\ Sending(x)
    BY <1>3, <2>1, StreamsWrite
  <2>3. CodecInv'
    BY <1>3, <2>2 DEF CodecInv, Sending, T!Positions
  <2>4. T!Send(x)
    BY <1>3, <2>2 DEF Sending, T!Send
  <2> QED  BY <2>2, <2>3, <2>4, SameEnds DEF T!Next
<1>4. ASSUME NEW x \in Ends, send(x) PROVE StreamInv' /\ CodecInv' /\ [T!Next]_T!vars
  <2>1. /\ called[x] < Len(Sends[x]) /\ called[x] \in Nat /\ Len(Sends[x]) \in Nat
        /\ called' = [called EXCEPT ![x] = called[x] + 1] /\ UNCHANGED <<codec, handed, lost>>
    BY <1>4, TransportsAssumption DEF send, CodecInv
  <2>2. called' \in [Ends -> Nat] /\ called[x] + 1 \in 1..Len(Sends[x])
    BY <2>1 DEF CodecInv
  <2>3. CASE codec = "default" /\ Write(x, Sends[x][called[x] + 1]) /\ UNCHANGED encoding
    BY <1>3, <2>1, <2>2, <2>3 DEF CodecInv
  <2>4. CASE /\ codec = "custom" /\ UNCHANGED linkVars
             /\ encoding' = [encoding EXCEPT ![x] = encoding[x] \cup {called[x] + 1}]
    <3>1. CodecInv'
      BY <2>1, <2>2, <2>4 DEF CodecInv
    <3>2. UNCHANGED <<sent, got, closed>>
      BY <2>4 DEF linkVars
    <3> QED  BY <2>1, <2>4, <3>1, <3>2, StreamsStay DEF T!vars
  <2> QED  BY <1>4, <2>3, <2>4 DEF send
<1>5. ASSUME NEW x \in Ends, NEW n, Encoded(x, n) \/ EncodedInVain(x, n)
      PROVE  StreamInv' /\ CodecInv' /\ [T!Next]_T!vars
  <2>1. /\ n \in encoding[x] /\ UNCHANGED <<codec, called, handed, lost>>
        /\ encoding' = [encoding EXCEPT ![x] = encoding[x] \ {n}]
    BY <1>5 DEF Encoded, EncodedInVain
  <2>2. /\ n \in 1..Len(Sends[x]) /\ called' \in [Ends -> Nat]
        /\ encoding' \in [Ends -> SUBSET Nat] /\ \A y \in Ends : encoding'[y] \subseteq encoding[y]
    BY <2>1 DEF CodecInv
  <2>3. CASE Encoded(x, n)
    BY <1>3, <2>1, <2>2, <2>3 DEF Encoded
  <2>4. CASE UNCHANGED linkVars
    <3>1. UNCHANGED <<sent, got, closed>>
      BY <2>4 DEF linkVars
    <3>2. CodecInv'
      BY <2>1, <2>2, <3>1 DEF CodecInv, T!Positions
    <3> QED  BY <2>1, <2>4, <3>1, <3>2, StreamsStay DEF T!vars
  <2> QED  BY <1>5, <2>3, <2>4 DEF EncodedInVain
<1>6. ASSUME NEW x \in Ends, NEW k \in DOMAIN got[x], Decoded(x, k)
      PROVE  StreamInv' /\ CodecInv' /\ [T!Next]_T!vars
  <2>1. UNCHANGED linkVars /\ UNCHANGED <<codec, called, encoding>> /\ codec = "custom"
    BY <1>6 DEF Decoded
  <2>2. UNCHANGED <<sent, got, closed>>
    BY <2>1 DEF linkVars
  <2>3. T!Decode(x)
    BY <1>6, <2>1, <2>2 DEF Decoded, T!Decode
  <2> QED  BY <2>1, <2>2, <2>3, StreamsStay, SameEnds DEF CodecInv, T!Next
<1> QED  BY <1>1, <1>2, <1>4, <1>5, <1>6 DEF Next

\* What arrives over TCP, a WebSocket or a gRPC stream is what the peer wrote,
\* in order, each message once and whole however its bytes were cut, and nothing
\* arrives after onClose, which is called once.  With the default codec onMessage
\* is called with all of it at once; with one that is awaited, with each message
\* at most once, in any order.  For any number of connections and messages, any
\* length field and any delimiter that the framed messages hold nowhere but at
\* their end (framing.ts, tcp.adapters.ts, ws.adapters.ts, stream.adapters.ts).
THEOREM KeepsContract ==
  ASSUME "tcp" \in Protocols => Separable, "ws" \in Protocols => ~EarlyGreeting
  PROVE  Spec => Contract
<1>1. Init => StreamInv /\ CodecInv /\ T!Init
  BY StreamsStart
<1>2. StreamInv /\ CodecInv /\ [Next]_vars => StreamInv' /\ CodecInv' /\ [T!Next]_T!vars
  BY StreamsStep
<1> QED  BY <1>1, <1>2, PTL DEF Spec, Contract, T!Spec
=============================================================================
