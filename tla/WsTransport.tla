----------------------------- MODULE WsTransport -----------------------------
(***************************************************************************)
(* packages/protocol-ws/src/ws.adapters.ts over the `ws` library.  Frames  *)
(* arrive whole and in order; closing is a handshake of two CLOSE frames,  *)
(* and messages that were under way before the peer's CLOSE are delivered  *)
(* while a socket is closing.                                              *)
(***************************************************************************)
EXTENDS Integers, Sequences

CONSTANTS
  Conns,
  CLOSE,          \* the close frame, which is no message
  Messages,       \* what may be written, encoded by the adapter's codec
  EarlyGreeting   \* whether frames may share a segment with the handshake's answer

Ends == Conns \X {"client", "server"}

Client(c) == <<c, "client">>
Server(c) == <<c, "server">>
Peer(x)   == IF x[2] = "client" THEN Server(x[1]) ELSE Client(x[1])

VARIABLES
  srv,      \* the WebSocketServer: "down", "up", "closing", "closed", "failed"
  sock,     \* readyState, or "none"
  conns,    \* WsServerAdapter.connections
  wire,     \* frames an endpoint wrote that are under way
  fin,      \* whether an endpoint has read the peer's CLOSE
  sent, got, closed

vars == <<srv, sock, conns, wire, fin, sent, got, closed>>

Init ==
  /\ srv = "down"
  /\ sock = [x \in Ends |-> "none"]
  /\ conns = {}
  /\ wire = [x \in Ends |-> <<>>]
  /\ fin = [x \in Ends |-> FALSE]
  /\ sent = [x \in Ends |-> <<>>]
  /\ got = [x \in Ends |-> <<>>]
  /\ closed = [x \in Ends |-> FALSE]

Listen ==
  /\ srv = "down"
  /\ srv' \in {"up", "failed"}
  /\ UNCHANGED <<sock, conns, wire, fin, sent, got, closed>>

Connect(c) ==
  /\ sock[Client(c)] = "none"
  /\ sock' = [sock EXCEPT ![Client(c)] = "connecting"]
  /\ UNCHANGED <<srv, conns, wire, fin, sent, got, closed>>

Connection(c) ==
  /\ srv = "up"
  /\ sock[Client(c)] = "connecting" /\ sock[Server(c)] = "none"
  /\ sock' = [sock EXCEPT ![Server(c)] = "open"]
  /\ conns' = conns \cup {c}
  /\ UNCHANGED <<srv, wire, fin, sent, got, closed>>

\* 'open'; a frame read with the answer is emitted before onMessage is called
Open(c) ==
  /\ sock[Client(c)] = "connecting" /\ sock[Server(c)] # "none"
  /\ sock' = [sock EXCEPT ![Client(c)] = "open"]
  /\ \/ wire' = wire
     \/ /\ EarlyGreeting
        /\ wire[Server(c)] # <<>> /\ Head(wire[Server(c)]) # CLOSE
        /\ wire' = [wire EXCEPT ![Server(c)] = Tail(@)]
  /\ UNCHANGED <<srv, conns, fin, sent, got, closed>>

\* an error or the timeout, which terminates the socket: create() rejects
ConnectFails(c) ==
  /\ sock[Client(c)] = "connecting"
  /\ sock' = [sock EXCEPT ![Client(c)] = "closed"]
  /\ UNCHANGED <<srv, conns, wire, fin, sent, got, closed>>

\* the library drops what is written to a socket that is closing or closed
Write(x, m) ==
  /\ sock[x] = "open"
  /\ sent' = [sent EXCEPT ![x] = Append(@, m)]
  /\ wire' = [wire EXCEPT ![x] = Append(@, m)]
  /\ UNCHANGED <<srv, sock, conns, fin, got, closed>>

\* the "message" event
Arrives(x) ==
  /\ sock[x] \in {"open", "closing"}
  /\ wire[Peer(x)] # <<>> /\ Head(wire[Peer(x)]) # CLOSE
  /\ got' = [got EXCEPT ![x] = Append(@, Head(wire[Peer(x)]))]
  /\ wire' = [wire EXCEPT ![Peer(x)] = Tail(@)]
  /\ UNCHANGED <<srv, sock, conns, fin, sent, closed>>

CloseCall(x) ==
  /\ sock[x] = "open"
  /\ sock' = [sock EXCEPT ![x] = "closing"]
  /\ wire' = [wire EXCEPT ![x] = Append(@, CLOSE)]
  /\ UNCHANGED <<srv, conns, fin, sent, got, closed>>

\* the library answers with a CLOSE of its own
CloseReceived(x) ==
  /\ sock[x] \in {"open", "closing"}
  /\ wire[Peer(x)] # <<>> /\ Head(wire[Peer(x)]) = CLOSE
  /\ fin' = [fin EXCEPT ![x] = TRUE]
  /\ sock' = [sock EXCEPT ![x] = "closing"]
  /\ wire' = [wire EXCEPT ![Peer(x)] = Tail(@),
                          ![x] = IF sock[x] = "open" THEN Append(@, CLOSE) ELSE @]
  /\ UNCHANGED <<srv, conns, sent, got, closed>>

\* fault: a socket that was closing tells nobody
ClosedSilently(x) ==
  /\ sock' = [sock EXCEPT ![x] = "closed"]
  /\ closed' = [closed EXCEPT ![x] = sock[x] = "open"]
  /\ conns' = IF x[2] = "server" THEN conns \ {x[1]} ELSE conns
  /\ UNCHANGED <<srv, fin, sent, got>>

\* 'close': the adapter's handler, then the server adapter's
Closed(x) ==
  /\ sock' = [sock EXCEPT ![x] = "closed"]
  /\ closed' = [closed EXCEPT ![x] = TRUE]
  /\ conns' = IF x[2] = "server" THEN conns \ {x[1]} ELSE conns
  /\ UNCHANGED <<srv, fin, sent, got>>

HandshakeDone(x) ==
  /\ sock[x] = "closing" /\ fin[x]
  /\ Closed(x)
  /\ UNCHANGED wire

\* the socket is lost, or nobody answers the CLOSE in time
Drop(x) ==
  /\ sock[x] \in {"open", "closing"}
  /\ Closed(x)
  /\ \E k \in 0..Len(wire[x]) :
       wire' = [wire EXCEPT ![x] = SubSeq(@, 1, k), ![Peer(x)] = <<>>]

\* fault: the server waits for connections that nobody closes
StopWaiting ==
  /\ srv = "up"
  /\ srv' = "closing"
  /\ conns' = {}
  /\ UNCHANGED <<sock, wire, fin, sent, got, closed>>

\* stop() closes every connection, then awaits the server
Stop ==
  /\ srv = "up"
  /\ srv' = "closing"
  /\ LET open == {Server(c) : c \in {d \in conns : sock[Server(d)] = "open"}}
     IN  /\ sock' = [x \in Ends |-> IF x \in open THEN "closing" ELSE sock[x]]
         /\ wire' = [x \in Ends |-> IF x \in open THEN Append(wire[x], CLOSE) ELSE wire[x]]
  /\ conns' = {}
  /\ UNCHANGED <<fin, sent, got, closed>>

Stopped ==
  /\ srv = "closing"
  /\ \A c \in Conns : sock[Server(c)] \in {"none", "closed"}
  /\ srv' = "closed"
  /\ UNCHANGED <<sock, conns, wire, fin, sent, got, closed>>

Link ==
  \/ Listen \/ Stop \/ Stopped
  \/ \E c \in Conns : Connect(c) \/ Connection(c) \/ Open(c) \/ ConnectFails(c)
  \/ \E x \in Ends :
       \/ Arrives(x) \/ CloseCall(x)
       \/ CloseReceived(x) \/ HandshakeDone(x) \/ Drop(x)

Next == Link \/ \E x \in Ends, m \in Messages : Write(x, m)

Spec == Init /\ [][Next]_vars

\* what comes sooner or later: a socket whose peer is gone, or whose CLOSE
\* nobody answers, ends by itself
Callback(x) ==
  \/ Arrives(x) \/ CloseReceived(x) \/ HandshakeDone(x)
  \/ x[2] = "client" /\ (Open(x[1]) \/ ConnectFails(x[1]))
  \/ x[2] = "server" /\ Connection(x[1])
  \/ /\ \/ sock[x] = "closing"
        \/ sock[Peer(x)] = "closed" /\ wire[Peer(x)] = <<>>
     /\ Drop(x)

Fairness == WF_vars(Stopped) /\ \A x \in Ends : WF_vars(Callback(x))
=============================================================================
