--------------------------- MODULE AsyncTransport ---------------------------
(***************************************************************************)
(* What IAsyncClientAdapter (core/src/protocols/base/base.types.ts)        *)
(* promises of a connection, whatever protocol carries it.  An endpoint    *)
(* wrote some messages, received some of its peer's, called onMessage with *)
(* some of these, and called onClose or did not.                           *)
(***************************************************************************)
EXTENDS Integers, Sequences

CONSTANTS
  Conns,      \* the connections
  Messages    \* what send() takes

VARIABLES
  awaits,     \* whether decoding is awaited while other things happen
  sent,       \* per endpoint, the messages it wrote
  got,        \* per endpoint, the messages that arrived
  handed,     \* their positions, in the order in which onMessage was called with them
  lost,       \* the positions of those that could not be decoded
  closed      \* per endpoint, whether onClose was called

vars == <<awaits, sent, got, handed, lost, closed>>

Ends == Conns \X {"client", "server"}

Peer(x) == <<x[1], IF x[2] = "client" THEN "server" ELSE "client">>

Positions(n)    == [k \in 1..n |-> k]
Told(x)         == {handed[x][i] : i \in DOMAIN handed[x]} \cup lost[x]
Undecided(x, k) == k \in DOMAIN got[x] \ Told(x)

Init ==
  /\ awaits \in BOOLEAN
  /\ sent = [x \in Ends |-> <<>>]
  /\ got = [x \in Ends |-> <<>>]
  /\ handed = [x \in Ends |-> <<>>]
  /\ lost = [x \in Ends |-> {}]
  /\ closed = [x \in Ends |-> FALSE]

Send(x) ==
  /\ ~closed[x]
  /\ \E m \in Messages : sent' = [sent EXCEPT ![x] = Append(@, m)]
  /\ UNCHANGED <<awaits, got, handed, lost, closed>>

\* one read may complete several messages; when decoding is not awaited they
\* are handed on before anything else happens
Deliver(x) ==
  /\ ~closed[x]
  /\ \E n \in (Len(got[x]) + 1)..Len(sent[Peer(x)]) :
       /\ got' = [got EXCEPT ![x] = SubSeq(sent[Peer(x)], 1, n)]
       /\ handed' = IF awaits THEN handed ELSE [handed EXCEPT ![x] = Positions(n)]
  /\ UNCHANGED <<awaits, sent, lost, closed>>

\* an awaited decoding ends at any time, once for each message
Decode(x) ==
  /\ awaits
  /\ \E k \in DOMAIN got[x] :
       /\ Undecided(x, k)
       /\ \/ handed' = [handed EXCEPT ![x] = Append(@, k)] /\ UNCHANGED lost
          \/ lost' = [lost EXCEPT ![x] = @ \cup {k}] /\ UNCHANGED handed
  /\ UNCHANGED <<awaits, sent, got, closed>>

Close(X) ==
  /\ X # {}
  /\ \A x \in X : ~closed[x]
  /\ closed' = [x \in Ends |-> closed[x] \/ x \in X]
  /\ UNCHANGED <<awaits, sent, got, handed, lost>>

Next ==
  \/ \E x \in Ends : Send(x) \/ Deliver(x) \/ Decode(x)
  \/ \E X \in SUBSET Ends : Close(X)

Spec == Init /\ [][Next]_vars
=============================================================================
