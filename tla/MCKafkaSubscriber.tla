------------------------- MODULE MCKafkaSubscriber -------------------------
(* Instances of KafkaSubscriber for TLC: two or three topics, up to three   *)
(* consumers (two restarts).                                               *)
EXTENDS KafkaSubscriber

CONSTANTS a, b, c
=============================================================================
