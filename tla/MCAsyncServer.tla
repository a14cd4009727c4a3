---------------------------- MODULE MCAsyncServer ----------------------------
(***************************************************************************)
(* Instances of AsyncServer for TLC, one per behaviour: a proxy of one     *)
(* client connection, which the constants describe, and a mock server of   *)
(* three connections and links.  The invariants are those of AsyncServer:  *)
(* of the mock server they say what concerns the connections in Conns and  *)
(* all links.                                                              *)
(***************************************************************************)
EXTENDS AsyncServer

CONSTANTS c1, c2, c3, l1, l2, l3

VARIABLE part

Hook(k, l, cs) == [kind |-> k, link |-> l, accepts |-> cs]

NoHooks == <<>>
Mixed   == <<"none", "proxy", "none", "drop">>

\* two hooks contend for the first connections, the third is awaited
L == INSTANCE AsyncServer WITH
       Conns <- {c1, c2, c3}, Links <- {l1, l2, l3}, Proxy <- FALSE,
       LinkHooks <- <<Hook("onConnection", l1, {c1, c2}), Hook("onConnection", l2, {c1, c2}),
                      Hook("waitConnection", l3, {c3})>>,
       WaitDisc <- <<l1, l1, l3>>, Watched <- {l1, l3},
       MaxMsgs <- 2, HookOf <- <<"none", "observe">>

MCInit == (part = "proxy" /\ Init) \/ (part = "links" /\ L!Init)
MCNext == ((part = "proxy" /\ Next) \/ (part = "links" /\ L!Next)) /\ UNCHANGED part

MCSpec == MCInit /\ [][MCNext]_<<vars, part>>

-----------------------------------------------------------------------------

\* The end of a linked connection is told to who waits for it.
LinkPartingTold == [][part = "links" => L!TellsParting]_<<vars, part>>
=============================================================================
