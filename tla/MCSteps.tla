------------------------------- MODULE MCSteps -------------------------------
(* Instances of Steps for TLC: what two test cases do, the steps as their   *)
(* builders make them.                                                      *)
EXTENDS Steps

CONSTANTS
  t1, t2,                                  \* the test cases
  e1, e2,                                  \* message and event types
  o1, o2,                                  \* operations
  l1                                       \* a link

\* These instances make steps only; the programs are built from them.
AcSteps == INSTANCE AsyncClient WITH Programs <- {}
ClSteps == INSTANCE SyncClient WITH Programs <- {}
SvSteps == INSTANCE SyncServer WITH Proxy <- FALSE, Programs <- {}
AsSteps == INSTANCE AsyncServerSteps WITH
             MessageTypes <- EventTypes, MaxMessages <- MaxEvents, Programs <- {}

Both(p, q) == [t \in {t1, t2} |-> IF t = t1 THEN p ELSE q]

AcPrograms ==
  { Both(<<AcSteps!sendMessage, AcSteps!waitEvent(e1, FALSE), AcSteps!waitEvent(e1, FALSE)>>,
         <<AcSteps!onEvent(e2), AcSteps!waitDisconnect>>),
    Both(<<AcSteps!waitEvent(e1, TRUE), AcSteps!connect, AcSteps!waitEvent(e2, TRUE), AcSteps!disconnect>>,
         <<AcSteps!waitEvent(e1, FALSE)>>) }

ScPrograms ==
  LET poll    == [timeout |-> 3, interval |-> 2, retryOnError |-> FALSE]
      stubborn == [timeout |-> 2, interval |-> 0, retryOnError |-> TRUE]
  IN  { Both(<<ClSteps!request(o1, ClSteps!noRetry), ClSteps!waitResponse(o1), ClSteps!onResponse(o1)>>,
             <<ClSteps!request(o1, poll), ClSteps!onResponse(o1)>>),
        Both(<<ClSteps!request(o1, ClSteps!noRetry), ClSteps!request(o2, stubborn), ClSteps!onResponse(o2)>>,
             <<ClSteps!request(o2, ClSteps!noRetry), ClSteps!waitResponse(o2)>>) }

SsPrograms ==
  { Both(<<SvSteps!onRequest(o1, "response"), SvSteps!waitRequest(o1, "response")>>,
         <<SvSteps!waitRequest(o1, "drop"), SvSteps!waitRequest(o2, "pass")>>),
    Both(<<SvSteps!waitRequest(o1, "pass")>>,
         <<SvSteps!waitRequest(o1, "response"), SvSteps!onRequest(o2, "pass")>>) }

AsPrograms ==
  { Both(<<AsSteps!waitConnection(l1), AsSteps!waitMessage(e1, l1, "drop")>>,
         <<AsSteps!waitDisconnect(l1)>>),
    Both(<<AsSteps!onConnection(l1), AsSteps!onMessage(e1, NoLink, "pass"), AsSteps!disconnect(l1)>>,
         <<AsSteps!waitMessage(e1, l1, "pass")>>),
    Both(<<AsSteps!waitConnection(l1), AsSteps!sendEvent(l1)>>, <<AsSteps!broadcast>>) }

ProgramsOfAll == AcPrograms \cup ScPrograms \cup SsPrograms \cup AsPrograms
=============================================================================
