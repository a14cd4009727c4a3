------------------------------ MODULE MCResults ------------------------------
(* An instance of Results for TLC.                                          *)
EXTENDS Results

CONSTANTS
  m1, m2,             \* messages
  t1, t2,             \* test cases
  MaxChain

\* every step that has handlers, with every chain its hook builder can make
StepsOf == [AsyncClient |-> {"onEvent", "waitEvent"},
            AsyncServer |-> {"onMessage", "waitMessage", "onEvent", "waitEvent"},
            Client      |-> {"onResponse", "waitResponse"},
            Server      |-> {"onRequest", "waitRequest", "onResponse"},
            Subscriber  |-> {"onMessage", "waitMessage"},
            DataSource  |-> {"exec"}]
Proxies(c)   == IF c \in {"Server", "AsyncServer"} THEN BOOLEAN ELSE {FALSE}
Chains(c)    == UNION {[1..n -> Methods(c)] : n \in 0..MaxChain}
ChainsToTake == UNION {{c} \X StepsOf[c] \X Proxies(c) \X Chains(c) : c \in DOMAIN StepsOf}

Plain == [type |-> "exec", mode |-> "action", pending |-> FALSE, strict |-> FALSE, retries |-> 0, timeout |-> FALSE]
ExecPrograms == {[t \in {t1, t2} |-> IF t = t1 THEN <<[Plain EXCEPT !.timeout = TRUE], Plain>>
                                     ELSE <<[Plain EXCEPT !.retries = 2, !.timeout = b]>>] : b \in BOOLEAN}

\* /users/{id} and /users/me, and a test case that gives the name another name
Braced == {"{id}", "{post}", "{name}"}
Get(path) == [method |-> "GET", path |-> path]
User == Get(<<"users", "{id}">>)
Me   == Get(<<"users", "me">>)
Post == [method |-> "POST", path |-> <<"users", "{id}", "posts", "{post}">>]

InitRoutes == <<Me, User>>
TestRoutes == [t \in {t1, t2} |-> IF t = t1 THEN <<Get(<<"users", "{name}">>), NoRoute>> ELSE <<Post, User>>]
Asked == {<<"GET", <<"users", "me">>>>, <<"GET", <<"users", "7">>>>, <<"POST", <<"users", "7", "posts", "8">>>>}
=============================================================================
