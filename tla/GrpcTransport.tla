---------------------------- MODULE GrpcTransport ----------------------------
(***************************************************************************)
(* packages/protocol-grpc/src/stream.adapters.ts over grpc-js.  A          *)
(* connection is one bidirectional call; close() ends the own direction    *)
(* only (the server's end carries the status and ends the call), and the   *)
(* onClose handler is called when the other direction was read to its end. *)
(***************************************************************************)
EXTENDS Integers, Sequences

CONSTANTS
  Conns,
  Messages       \* what may be written

Ends == Conns \X {"client", "server"}

Client(c) == <<c, "client">>
Server(c) == <<c, "server">>
Peer(x)   == IF x[2] = "client" THEN Server(x[1]) ELSE Client(x[1])

VARIABLES
  srv,         \* the grpc.Server: "down", "up", "closing", "closed", "failed"
  sock,        \* an endpoint's call: "none", "up", "lost"
  connected,   \* _connected
  conns,       \* GrpcStreamServerAdapter.connections
  wire,        \* messages an endpoint wrote that are under way
  fin,         \* whether an endpoint ended its direction
  sent, got, closed

vars == <<srv, sock, connected, conns, wire, fin, sent, got, closed>>

Init ==
  /\ srv = "down"
  /\ sock = [x \in Ends |-> "none"]
  /\ connected = [x \in Ends |-> FALSE]
  /\ conns = {}
  /\ wire = [x \in Ends |-> <<>>]
  /\ fin = [x \in Ends |-> FALSE]
  /\ sent = [x \in Ends |-> <<>>]
  /\ got = [x \in Ends |-> <<>>]
  /\ closed = [x \in Ends |-> FALSE]

Bind ==
  /\ srv = "down"
  /\ srv' \in {"up", "failed"}
  /\ UNCHANGED <<sock, connected, conns, wire, fin, sent, got, closed>>

\* create() starts the call and does not wait for the server
Create(c) ==
  /\ sock[Client(c)] = "none"
  /\ sock' = [sock EXCEPT ![Client(c)] = "up"]
  /\ connected' = [connected EXCEPT ![Client(c)] = TRUE]
  /\ UNCHANGED <<srv, conns, wire, fin, sent, got, closed>>

bidiStreamHandler(c) ==
  /\ srv = "up"
  /\ sock[Client(c)] = "up" /\ sock[Server(c)] = "none"
  /\ sock' = [sock EXCEPT ![Server(c)] = "up"]
  /\ connected' = [connected EXCEPT ![Server(c)] = TRUE]
  /\ conns' = conns \cup {c}
  /\ UNCHANGED <<srv, wire, fin, sent, got, closed>>

\* a write to a destroyed call is an error
Write(x, m) ==
  /\ connected[x] /\ sock[x] = "up"
  /\ sent' = [sent EXCEPT ![x] = Append(@, m)]
  /\ wire' = [wire EXCEPT ![x] = Append(@, m)]
  /\ UNCHANGED <<srv, sock, connected, conns, fin, got, closed>>

Data(x) ==
  /\ sock[x] = "up"
  /\ wire[Peer(x)] # <<>>
  /\ got' = [got EXCEPT ![x] = Append(@, Head(wire[Peer(x)]))]
  /\ wire' = [wire EXCEPT ![Peer(x)] = Tail(@)]
  /\ UNCHANGED <<srv, sock, connected, conns, fin, sent, closed>>

CloseCall(x) ==
  /\ sock[x] # "none" /\ connected[x]
  /\ fin' = [fin EXCEPT ![x] = TRUE]
  /\ connected' = [connected EXCEPT ![x] = FALSE]
  /\ UNCHANGED <<srv, sock, conns, wire, sent, got, closed>>

\* 'end' of the call: the peer's direction was read, the adapter forgets it
End(x) ==
  /\ sock[x] = "up" /\ ~closed[x]
  /\ fin[Peer(x)] /\ wire[Peer(x)] = <<>>
  /\ connected' = [connected EXCEPT ![x] = FALSE]
  /\ closed' = [closed EXCEPT ![x] = TRUE]
  /\ conns' = IF x[2] = "server" THEN conns \ {x[1]} ELSE conns
  /\ UNCHANGED <<srv, sock, wire, fin, sent, got>>

\* no server or no network: the client gets 'error' and then 'end', the call
\* of the server is destroyed without a callback
CallFails(c) ==
  /\ sock[Client(c)] = "up" /\ ~fin[Server(c)]
  /\ sock' = [sock EXCEPT ![Server(c)] = "lost"]
  /\ connected' = [connected EXCEPT ![Client(c)] = FALSE]
  /\ fin' = [fin EXCEPT ![Server(c)] = TRUE]
  /\ \E k \in 0..Len(wire[Server(c)]) :
       wire' = [wire EXCEPT ![Client(c)] = <<>>, ![Server(c)] = SubSeq(@, 1, k)]
  /\ UNCHANGED <<srv, conns, sent, got, closed>>

\* tryShutdown() waits for every call the server has not ended
Shutdown ==
  /\ srv = "up"
  /\ srv' = "closing"
  /\ UNCHANGED <<sock, connected, conns, wire, fin, sent, got, closed>>

ShutdownDone ==
  /\ srv = "closing"
  /\ \A c \in Conns : sock[Server(c)] = "up" => fin[Server(c)]
  /\ srv' = "closed"
  /\ conns' = {}
  /\ UNCHANGED <<sock, connected, wire, fin, sent, got, closed>>

Link ==
  \/ Bind \/ Shutdown \/ ShutdownDone
  \/ \E c \in Conns : Create(c) \/ bidiStreamHandler(c) \/ CallFails(c)
  \/ \E x \in Ends : Data(x) \/ CloseCall(x) \/ End(x)

Next == Link \/ \E x \in Ends, m \in Messages : Write(x, m)

Spec == Init /\ [][Next]_vars

\* what comes sooner or later: a call that no server takes fails; once the
\* server has ended the call its own 'end' may not come
Callback(x) ==
  LET c == x[1]
  IN  \/ Data(x)
      \/ /\ x[2] = "client"
         /\ \/ End(x)
            \/ sock[Server(c)] = "none" /\ srv # "up" /\ CallFails(c)
      \/ x[2] = "server" /\ (bidiStreamHandler(c) \/ (~fin[x] /\ End(x)))

Fairness == WF_vars(ShutdownDone) /\ \A x \in Ends : WF_vars(Callback(x))
=============================================================================
