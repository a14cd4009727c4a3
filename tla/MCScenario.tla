----------------------------- MODULE MCScenario -----------------------------
(* Instances of Scenario for TLC: one data source, one or two servers, one  *)
(* or two clients, components brought in by test cases, and one or two      *)
(* groups of test cases.                                                    *)
EXTENDS Scenario

CONSTANTS db, back, proxy, c1, c2, dyn1, dyn2, t1, t2, t3, g1, g2

NoComps  == <<>>
OneDb    == <<db>>
OneServer  == <<back>>
TwoServers == <<back, proxy>>
OneClient  == {c1}
TwoClients == {c1, c2}

\* one group of two test cases / two groups, the first with two test cases
Sequential == [g \in {g1} |-> <<t1, t2>>]
Parallel   == [g \in {g1, g2} |-> IF g = g1 THEN <<t1, t2>> ELSE <<t3>>]
TwoGroups  == [g \in {g1, g2} |-> IF g = g1 THEN <<t1>> ELSE <<t2>>]
Single     == [g \in {g1} |-> <<t1>>]

UsesServerAndClient == [t \in Tests |-> {back, c1}]
UsesWithDynamic == [t \in Tests |-> IF t = t1 THEN {back, dyn1} ELSE {back, c1}]
WaitsOnServer   == [t \in Tests |-> IF t = t1 THEN {<<back, 1>>} ELSE {}]
WaitsOnClient   == [t \in Tests |-> IF t \in {t2, t3} THEN {<<c1, 1>>} ELSE {}]
BringsNothing   == [t \in Tests |-> <<>>]
BringsOne       == [t \in Tests |-> IF t = t1 THEN <<dyn1>> ELSE <<>>]
BringsTwo       == [t \in Tests |-> IF t = t1 THEN <<dyn1, dyn2>> ELSE <<>>]
InitBringsOne   == <<dyn2>>
=============================================================================
