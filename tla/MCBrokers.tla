------------------------------ MODULE MCBrokers ------------------------------
(* Instances of Brokers for TLC.                                            *)
EXTENDS Brokers

CONSTANTS
  t1, t2,             \* test cases and, for the factories, creators
  k1, k2              \* Kafka topics, Redis channels and patterns, keys of a codec

\* This instance makes steps only; the programs are built from them.
PbSteps == INSTANCE Publisher WITH Programs <- {}

message(valid) == [valid |-> valid]
OneBatch == <<PbSteps!publishBatch(<<message(TRUE), message(TRUE)>>)>>
TwoSteps == <<PbSteps!publish(message(TRUE)), PbSteps!publishBatch(<<message(TRUE), message(FALSE)>>)>>
TestPrograms == {[t \in {t1, t2} |-> IF t = t1 THEN OneBatch ELSE s] : s \in {OneBatch, TwoSteps}}

RabbitPatterns == {<<"a", "#">>, <<"a", "b">>}
RabbitBatches == {<<<<"a", "#">>>>, <<<<"a", "b">>, <<"a", "#">>>>}
KeysOfWords == {<<"a">>, <<"a", "b">>}
RedisBatches == {<<k1>>, <<k1, k2>>}
CoversFirst == [k \in {k1, k2} |-> {k1}]
RegExps == {<<kd, ks>> : kd \in {"regexp", "global"}, ks \in {{k1}, {k2}, {k1, k2}}}
=============================================================================
