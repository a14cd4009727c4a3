----------------------------- MODULE Transports -----------------------------
(***************************************************************************)
(* The three transports of AsyncServer and AsyncClient, one per behaviour, *)
(* with the codecs of their adapters.  Their variables of one name play    *)
(* the same part.                                                          *)
(***************************************************************************)
EXTENDS Integers, Sequences

CONSTANTS
  Protocols,      \* those of "tcp", "ws" and "grpc" to be looked at
  Conns,          \* the connections
  Messages,       \* what send() takes; sequences of bytes for TCP
  Sends,          \* what each end sends, in order
  Codecs,         \* those of "default" and "custom" that an adapter may have
  Framings,       \* of TCP: [lengthFieldLength, delimiter]
  CLOSE,          \* the close frame of a WebSocket, which is no message
  EarlyGreeting   \* whether frames may share a segment with the handshake's answer

Ends == Conns \X {"client", "server"}

ASSUME TransportsAssumption ==
  /\ Sends \in [Ends -> Seq(Messages)]
  /\ CLOSE \notin Messages
  /\ EarlyGreeting \in BOOLEAN

VARIABLES
  protocol, framing, srv, sock, connected, sockets, conns, wire, fin, buf,
  sent,        \* what was written to the connection
  got,         \* what arrived of it, to be decoded
  closed,
  codec,       \* "default" for JSON, which answers at once, or "custom", which may not
  called,      \* how many messages were given to send()
  encoding,    \* those whose encode() is awaited
  handed,      \* of what arrived, the positions that onMessage was called with, in turn
  lost         \* of what arrived, the positions whose decode() failed, told to onError

tcpVars   == <<framing, sockets, buf>>
linkVars  == <<protocol, framing, srv, sock, connected, sockets, conns, wire, fin, buf,
               sent, got, closed>>
codecVars == <<codec, called, encoding, handed, lost>>
vars      == <<linkVars, codecVars>>

Tcp  == INSTANCE TcpTransport
Ws   == INSTANCE WsTransport
Grpc == INSTANCE GrpcTransport
T    == INSTANCE AsyncTransport WITH awaits <- codec = "custom"

\* what a protocol does not use
Unused(v, d) == v = [x \in Ends |-> d]
NoTcp == framing = (CHOOSE f \in Framings : TRUE) /\ sockets = {} /\ Unused(buf, <<>>)

Init ==
  /\ protocol \in Protocols
  /\ \/ protocol = "tcp" /\ Tcp!Init
     \/ protocol = "ws" /\ Ws!Init /\ NoTcp /\ Unused(connected, FALSE)
     \/ protocol = "grpc" /\ Grpc!Init /\ NoTcp
  /\ codec \in IF protocol = "grpc" THEN {"default"} ELSE Codecs
  /\ called = [x \in Ends |-> 0] /\ encoding = [x \in Ends |-> {}]
  /\ handed = [x \in Ends |-> <<>>] /\ lost = [x \in Ends |-> {}]

TcpStep(A)  == protocol = "tcp" /\ A /\ UNCHANGED protocol
WsStep(A)   == protocol = "ws" /\ A /\ UNCHANGED <<protocol, tcpVars, connected>>
GrpcStep(A) == protocol = "grpc" /\ A /\ UNCHANGED <<protocol, tcpVars>>

-----------------------------------------------------------------------------
(* The codec of TcpClientAdapter and WsClientAdapter.  The default one is  *)
(* awaited for microtasks only: no other callback comes in between.        *)

\* the default codec: what arrives is handed on in the same callback
Arrivals ==
  /\ handed' = IF codec = "custom" THEN handed
               ELSE [x \in Ends |-> T!Positions(Len(got'[x]))]
  /\ UNCHANGED <<codec, called, encoding, lost>>

isConnected(x) == IF protocol = "ws" THEN sock[x] = "open" ELSE connected[x]

Write(x, m) ==
  TcpStep(Tcp!Write(x, m)) \/ WsStep(Ws!Write(x, m)) \/ GrpcStep(Grpc!Write(x, m))

\* isConnected is checked before encode() is awaited
send(x) ==
  /\ isConnected(x) /\ called[x] < Len(Sends[x])
  /\ called' = [called EXCEPT ![x] = @ + 1]
  /\ \/ /\ codec = "default" /\ Write(x, Sends[x][called[x] + 1])
        /\ UNCHANGED encoding
     \/ /\ codec = "custom" /\ UNCHANGED linkVars
        /\ encoding' = [encoding EXCEPT ![x] = @ \cup {called[x] + 1}]
  /\ UNCHANGED <<codec, handed, lost>>

Encoded(x, n) ==
  /\ n \in encoding[x]
  /\ encoding' = [encoding EXCEPT ![x] = @ \ {n}]
  /\ Write(x, Sends[x][n])
  /\ UNCHANGED <<codec, called, handed, lost>>

\* encode() rejects, or the connection takes nothing any more
EncodedInVain(x, n) ==
  /\ n \in encoding[x]
  /\ encoding' = [encoding EXCEPT ![x] = @ \ {n}]
  /\ UNCHANGED <<linkVars, codec, called, handed, lost>>

\* nothing queues what is being decoded, and no end of the connection stops it
Decoded(x, k) ==
  /\ codec = "custom" /\ T!Undecided(x, k)
  /\ \/ handed' = [handed EXCEPT ![x] = Append(@, k)] /\ UNCHANGED lost
     \/ lost' = [lost EXCEPT ![x] = @ \cup {k}] /\ UNCHANGED handed
  /\ UNCHANGED <<linkVars, codec, called, encoding>>

-----------------------------------------------------------------------------

Next ==
  \/ (TcpStep(Tcp!Link) \/ WsStep(Ws!Link) \/ GrpcStep(Grpc!Link)) /\ Arrivals
  \/ \E x \in Ends :
       \/ send(x)
       \/ \E n \in 1..called[x] : Encoded(x, n) \/ EncodedInVain(x, n)
       \/ \E k \in DOMAIN got[x] : Decoded(x, k)

Stopped ==
  TcpStep(Tcp!ServerClosed) \/ WsStep(Ws!Stopped) \/ GrpcStep(Grpc!ShutdownDone)

Callback(x) ==
  TcpStep(Tcp!Callback(x)) \/ WsStep(Ws!Callback(x)) \/ GrpcStep(Grpc!Callback(x))

CodecSettles ==
  \E x \in Ends :
    \/ \E n \in encoding[x] : EncodedInVain(x, n) \/ Encoded(x, n)
    \/ \E k \in DOMAIN got[x] : Decoded(x, k)

\* The promises of a codec settle: as each message is encoded and decoded once,
\* that some are is that all are.
Fairness ==
  /\ WF_vars(Stopped /\ Arrivals)
  /\ \A x \in Ends : WF_vars(Callback(x) /\ Arrivals)
  /\ WF_vars(CodecSettles)

Spec == Init /\ [][Next]_vars /\ Fairness

\* What TCP asks of its users: a length field, or a delimiter that no framed
\* message holds before its end.
Separable ==
  /\ Messages \subseteq Seq(Tcp!Bytes)
  /\ \A f \in Framings :
       \/ f.lengthFieldLength \in {1, 2, 4, 8}
       \/ /\ f.lengthFieldLength = 0
          /\ f.delimiter \in Seq(Tcp!Bytes) /\ f.delimiter # <<>>
          /\ \A m \in Messages : \A i \in 1..Len(m) : ~Tcp!Occurs(f.delimiter, m \o f.delimiter, i)

\* Each protocol keeps what AsyncServer and AsyncClient rely on: what arrives is
\* what the peer wrote, each message once, in order and whole however the bytes
\* were cut, and onClose is called once, after which nothing arrives.  With the
\* default codec onMessage is called at once, so in order and never after
\* onClose; with one that is awaited it is called once with each message whose
\* decoding succeeds, in any order and perhaps after onClose.
Contract == T!Spec

Parted(c) ==
  \/ srv \in {"closing", "closed"}
  \/ \E x \in {<<c, "client">>, <<c, "server">>} :
       fin[x] \/ closed[x] \/ sock[x] \notin {"none", "connecting", "up", "open"}

\* What was written reaches the peer's onMessage, or its onError when it cannot
\* be decoded, unless one side closes, fails or the server is stopped.
Delivered ==
  \A x \in Ends : \A n \in 1..Len(Sends[x]) :
    Len(sent[x]) = n ~> n \in T!Told(T!Peer(x)) \/ Parted(x[1])

\* The end of one side is told to the other one's onClose.  A server that is
\* being stopped tells its own side nothing (TcpServerAdapter), and a gRPC call
\* ends with the server's half.
PeerTold ==
  \A c \in Conns :
    LET client == <<c, "client">>
        server == <<c, "server">>
    IN  /\ (IF protocol = "grpc" THEN fin[server] ELSE closed[server]) ~>
             (closed[client] \/ sock[client] \in {"gone", "closed"})
        /\ (protocol # "grpc" /\ closed[client]) ~>
             (closed[server] \/ sock[server] = "none" \/ srv \in {"closing", "closed"})

\* stop() of a server ends: sockets are destroyed or their CLOSE is answered or
\* times out.  (A gRPC server waits for the calls it did not end itself.)
StopEnds == (protocol # "grpc" /\ srv = "closing") ~> srv = "closed"

\* It would for gRPC too if a client's half-close made the server end its own.
GrpcStopEnds == (protocol = "grpc" /\ srv = "closing") ~> srv = "closed"
=============================================================================
