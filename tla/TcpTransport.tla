---------------------------- MODULE TcpTransport ----------------------------
(***************************************************************************)
(* packages/protocol-tcp: a server and its connections, from the sockets   *)
(* (tcp.server.ts, tcp.socket.ts, tcp.client.ts) to the adapters that the  *)
(* components own (tcp.adapters.ts).                                       *)
(*                                                                         *)
(* An action is one callback of a Node socket or one call of a component.  *)
(* Messages are what a codec made of them: encoding and decoding, which    *)
(* the adapters await, are in Transports.tla.                              *)
(***************************************************************************)
EXTENDS TcpFraming

CONSTANTS
  Conns,       \* client connections
  Framings,    \* the framings chosen from, [lengthFieldLength, delimiter]
  Messages     \* what may be written

Ends == Conns \X {"client", "server"}

Client(c) == <<c, "client">>
Server(c) == <<c, "server">>
Peer(x)   == IF x[2] = "client" THEN Server(x[1]) ELSE Client(x[1])

VARIABLES
  framing,
  srv,         \* the listening socket: "down", "up", "closing", "closed", "failed"
  sock,        \* an endpoint's socket: "none", "connecting", "up", "destroyed", "gone"
  connected,   \* isConnected of an endpoint's adapter
  sockets,     \* TcpServer._sockets
  conns,       \* TcpServerAdapter.connections
  wire,        \* the bytes an endpoint wrote that are under way
  fin,         \* whether an endpoint's direction was shut
  buf,         \* readBuffer of an endpoint
  sent, got, closed

vars == <<framing, srv, sock, connected, sockets, conns, wire, fin, buf, sent, got, closed>>

Init ==
  /\ framing \in Framings
  /\ srv = "down"
  /\ sock = [x \in Ends |-> "none"]
  /\ connected = [x \in Ends |-> FALSE]
  /\ sockets = {}
  /\ conns = {}
  /\ wire = [x \in Ends |-> <<>>]
  /\ fin = [x \in Ends |-> FALSE]
  /\ buf = [x \in Ends |-> <<>>]
  /\ sent = [x \in Ends |-> <<>>]
  /\ got = [x \in Ends |-> <<>>]
  /\ closed = [x \in Ends |-> FALSE]

(* listening and connecting *)

Listen ==
  /\ srv = "down"
  /\ srv' \in {"up", "failed"}
  /\ UNCHANGED <<framing, sock, connected, sockets, conns, wire, fin, buf, sent, got, closed>>

Connect(c) ==
  /\ sock[Client(c)] = "none"
  /\ sock' = [sock EXCEPT ![Client(c)] = "connecting"]
  /\ UNCHANGED <<framing, srv, connected, sockets, conns, wire, fin, buf, sent, got, closed>>

\* the kernel completes the handshake, before or after the server's accept
Connected(c) ==
  /\ sock[Client(c)] = "connecting"
  /\ srv = "up" \/ sock[Server(c)] # "none"
  /\ sock' = [sock EXCEPT ![Client(c)] = "up"]
  /\ connected' = [connected EXCEPT ![Client(c)] = TRUE]
  /\ UNCHANGED <<framing, srv, sockets, conns, wire, fin, buf, sent, got, closed>>

\* createClient rejects; the adapter has no handlers yet
ConnectFails(c) ==
  /\ sock[Client(c)] = "connecting"
  /\ sock[Server(c)] = "none"
  /\ sock' = [sock EXCEPT ![Client(c)] = "gone"]
  /\ UNCHANGED <<framing, srv, connected, sockets, conns, wire, fin, buf, sent, got, closed>>

Accept(c) ==
  /\ srv = "up"
  /\ sock[Client(c)] \in {"connecting", "up"}
  /\ sock[Server(c)] = "none"
  /\ sock' = [sock EXCEPT ![Server(c)] = "up"]
  /\ connected' = [connected EXCEPT ![Server(c)] = TRUE]
  /\ sockets' = sockets \cup {c}
  /\ conns' = conns \cup {c}
  /\ UNCHANGED <<framing, srv, wire, fin, buf, sent, got, closed>>

(* messages *)

Write(x, m) ==
  /\ connected[x] /\ sock[x] = "up"
  /\ framing.lengthFieldLength > 0 => Fits(Len(m), framing.lengthFieldLength)
  /\ sent' = [sent EXCEPT ![x] = Append(@, m)]
  /\ wire' = [wire EXCEPT ![x] = @ \o frameMessage(m, framing)]
  /\ UNCHANGED <<framing, srv, sock, connected, sockets, conns, fin, buf, got, closed>>

\* fault: what an earlier chunk left is not kept
processIncomingUnbuffered(x, chunk) ==
  LET result == processIncomingBuffer(chunk, framing)
  IN  buf' = buf /\ got' = [got EXCEPT ![x] = @ \o result.messages]

\* fault: a chunk completes one message at most
processIncomingOnce(x, chunk) ==
  LET bytes  == buf[x] \o chunk
      result == processIncomingBuffer(bytes, framing)
      first  == result.messages[1]
  IN  IF result.messages = <<>>
        THEN buf' = [buf EXCEPT ![x] = bytes] /\ got' = got
        ELSE /\ buf' = [buf EXCEPT ![x] = From(bytes, Len(frameMessage(first, framing)) + 1)]
             /\ got' = [got EXCEPT ![x] = Append(@, first)]

processIncoming(x, chunk) ==
  LET result == processIncomingBuffer(buf[x] \o chunk, framing)
  IN  /\ buf' = [buf EXCEPT ![x] = result.rest]
      /\ got' = [got EXCEPT ![x] = @ \o result.messages]

\* a chunk of any size
Chunk(x, n) ==
  /\ sock[x] = "up"
  /\ wire' = [wire EXCEPT ![Peer(x)] = From(@, n + 1)]
  /\ UNCHANGED <<framing, srv, sock, connected, sockets, conns, fin, sent, closed>>

ClientData(c) ==
  \E n \in 1..Len(wire[Server(c)]) :
    /\ Chunk(Client(c), n)
    /\ processIncoming(Client(c), SubSeq(wire[Server(c)], 1, n))

\* the server's adapter looks the connection up for every message
ServerData(c) ==
  /\ c \in conns
  /\ \E n \in 1..Len(wire[Client(c)]) :
       /\ Chunk(Server(c), n)
       /\ processIncoming(Server(c), SubSeq(wire[Client(c)], 1, n))

(* the end of a connection *)

\* destroy() drops what was not read and perhaps some of what was written
Destroyed(x) ==
  /\ sock' = [sock EXCEPT ![x] = "destroyed"]
  /\ fin' = [fin EXCEPT ![x] = TRUE]
  /\ \E k \in 0..Len(wire[x]) :
       wire' = [wire EXCEPT ![x] = SubSeq(@, 1, k), ![Peer(x)] = <<>>]

CloseCall(x) ==
  /\ sock[x] = "up"
  /\ connected' = [connected EXCEPT ![x] = FALSE]
  /\ Destroyed(x)
  /\ UNCHANGED <<framing, srv, sockets, conns, buf, sent, got, closed>>

\* the peer's end was read: Node ends and destroys this side by itself
PeerEnded(x) ==
  /\ sock[x] = "up"
  /\ fin[Peer(x)] /\ wire[Peer(x)] = <<>>
  /\ Destroyed(x)
  /\ UNCHANGED <<framing, srv, connected, sockets, conns, buf, sent, got, closed>>

\* the server's adapter forgets the connection with the first error
ClientError(c) ==
  /\ sock[Client(c)] = "up"
  /\ Destroyed(Client(c))
  /\ connected' = [connected EXCEPT ![Client(c)] = FALSE]
  /\ UNCHANGED <<framing, srv, sockets, conns, buf, sent, got, closed>>

ServerError(c) ==
  /\ sock[Server(c)] = "up"
  /\ Destroyed(Server(c))
  /\ closed' = [closed EXCEPT ![Server(c)] = @ \/ c \in conns]
  /\ conns' = conns \ {c}
  /\ UNCHANGED <<framing, srv, connected, sockets, buf, sent, got>>

\* the socket's 'close' event
ClientEnd(c) ==
  /\ sock[Client(c)] = "destroyed"
  /\ sock' = [sock EXCEPT ![Client(c)] = "gone"]
  /\ connected' = [connected EXCEPT ![Client(c)] = FALSE]
  /\ closed' = [closed EXCEPT ![Client(c)] = TRUE]
  /\ UNCHANGED <<framing, srv, sockets, conns, wire, fin, buf, sent, got>>

Disconnect(c) ==
  /\ sock[Server(c)] = "destroyed"
  /\ sock' = [sock EXCEPT ![Server(c)] = "gone"]
  /\ connected' = [connected EXCEPT ![Server(c)] = FALSE]
  /\ sockets' = sockets \ {c}
  /\ closed' = [closed EXCEPT ![Server(c)] = @ \/ c \in conns]
  /\ conns' = conns \ {c}
  /\ UNCHANGED <<framing, srv, wire, fin, buf, sent, got>>

(* stopping the server *)

\* connections that were not accepted yet are reset
ServerClose ==
  /\ srv = "up"
  /\ srv' = "closing"
  /\ sockets' = {}
  /\ LET open == {Server(c) : c \in {d \in sockets : sock[Server(d)] = "up"}}
     IN  /\ sock' = [x \in Ends |-> IF x \in open THEN "destroyed" ELSE sock[x]]
         /\ fin' = [x \in Ends |-> fin[x] \/ x \in open]
         /\ connected' = [x \in Ends |->
                            connected[x] /\ ~(x[2] = "server" /\ x[1] \in sockets)]
         /\ \E cut \in SUBSET open :
              wire' = [x \in Ends |-> IF x \in cut \/ Peer(x) \in open THEN <<>> ELSE wire[x]]
  /\ UNCHANGED <<framing, conns, buf, sent, got, closed>>

ServerClosed ==
  /\ srv = "closing"
  /\ \A c \in Conns : sock[Server(c)] # "up"
  /\ srv' = "closed"
  /\ conns' = {}
  /\ UNCHANGED <<framing, sock, connected, sockets, wire, fin, buf, sent, got, closed>>

Link ==
  \/ Listen \/ ServerClose \/ ServerClosed
  \/ \E c \in Conns :
       \/ Connect(c) \/ Connected(c) \/ ConnectFails(c) \/ Accept(c)
       \/ ClientData(c) \/ ServerData(c)
       \/ ClientError(c) \/ ServerError(c) \/ ClientEnd(c) \/ Disconnect(c)
  \/ \E x \in Ends : CloseCall(x) \/ PeerEnded(x)

Next == Link \/ \E x \in Ends, m \in Messages : Write(x, m)

Spec == Init /\ [][Next]_vars

\* what the network and the event loop do for a socket sooner or later: a
\* connection left in the backlog of a closed server is reset
Callback(x) ==
  LET c == x[1]
  IN  \/ PeerEnded(x)
      \/ /\ x[2] = "client"
         /\ \/ Connected(c) \/ ConnectFails(c) \/ ClientData(c) \/ ClientEnd(c)
            \/ /\ srv \in {"closing", "closed"} /\ sock[Server(c)] = "none"
               /\ ClientError(c)
      \/ x[2] = "server" /\ (Accept(c) \/ ServerData(c) \/ Disconnect(c))

Fairness == WF_vars(ServerClosed) /\ \A x \in Ends : WF_vars(Callback(x))
=============================================================================
