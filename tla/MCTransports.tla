---------------------------- MODULE MCTransports ----------------------------
(* Instances of Transports for TLC: two messages of each client, none to    *)
(* two of the server, and both framings of TCP.                             *)
EXTENDS Transports

CONSTANT ServerSends    \* how many messages the server sends, 0 to 2

TwoMessages == {<<1>>, <<2, 3>>}
ClientFirst == [x \in Ends |-> IF x[2] = "client" THEN <<<<1>>, <<2, 3>>>>
                                 ELSE SubSeq(<<<<1>>, <<2, 3>>>>, 1, ServerSends)]

\* 0 is the delimiter of delimited framing
LengthOrZero == {[lengthFieldLength |-> 1, delimiter |-> <<>>],
                 [lengthFieldLength |-> 0, delimiter |-> <<0>>]}

ASSUME SeparableAssumption == Separable
=============================================================================
