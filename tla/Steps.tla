-------------------------------- MODULE Steps --------------------------------
(***************************************************************************)
(* The four components that execute steps, one per behaviour, with the     *)
(* programs of their test cases.  Variables of one name play the same part.*)
(***************************************************************************)
EXTENDS ComponentHooks

CONSTANTS
  Components,                              \* those to be looked at
  AsyncClientPrograms, SyncClientPrograms, SyncServerPrograms, AsyncServerPrograms,
  EventTypes, Operations,
  AutoConnect, SlowClose, MaxConns, MaxEvents, MaxTook,
  Requests,
  Conns, NoConn, Links, NoLink, SlowHandlers

\* The steps whose builders give them a pending, and the policies of retry.
WaitTypes == {"waitEvent", "waitDisconnect", "waitResponse", "onResponse",
              "waitRequest", "waitMessage", "waitConnection"}
Policies  == [timeout : Nat, interval : Nat, retryOnError : BOOLEAN]

AllPrograms ==
  AsyncClientPrograms \cup SyncClientPrograms \cup SyncServerPrograms \cup AsyncServerPrograms

ASSUME StepsAssumption ==
  /\ AllPrograms \subseteq Programs
  /\ \A p \in AllPrograms, t \in Tests :
       /\ Len(p[t]) \in Nat
       /\ \A i \in 1..Len(p[t]) :
            /\ p[t][i].type \in WaitTypes => p[t][i].pending
            /\ p[t][i].type = "request" => p[t][i].retry \in Policies
  /\ MaxTook \in Nat /\ MaxConns \in Nat
  /\ "start" \notin Tests

VARIABLES
  component,
  conn, sock, caller, seen, claim, bereft,
  flying, answered, served, matched, left, sleeping, spent,
  srv, client, req, by, answer, refused,
  linkTo, linkOf, consumed, handling, told

asyncVars  == <<sock, seen, claim>>
clientVars == <<conn, caller, bereft>>
pollVars   == <<flying, answered, served, matched, left, sleeping, spent>>
serverVars == <<srv, client, req, by, answer, refused>>
linkVars   == <<linkTo, linkOf, consumed, handling, told>>
vars == <<component, baseVars, asyncVars, clientVars, pollVars, serverVars, linkVars>>

AC == INSTANCE AsyncClient
SC == INSTANCE SyncClient
SM == INSTANCE SyncServer WITH Proxy <- FALSE
SP == INSTANCE SyncServer WITH Proxy <- TRUE
AS == INSTANCE AsyncServerSteps WITH MessageTypes <- EventTypes, MaxMessages <- MaxEvents

-----------------------------------------------------------------------------

Absent(v)  == v = "absent"
NoAsync    == Absent(sock) /\ Absent(seen) /\ Absent(claim)
NoClient   == Absent(conn) /\ Absent(caller) /\ Absent(bereft)
NoPoll     == /\ Absent(flying) /\ Absent(answered) /\ Absent(served)
              /\ Absent(matched) /\ Absent(left) /\ Absent(sleeping) /\ Absent(spent)
NoServer   == Absent(srv) /\ Absent(client) /\ Absent(req) /\ Absent(by) /\ Absent(answer) /\ Absent(refused)
NoLinks    == Absent(linkTo) /\ Absent(linkOf) /\ Absent(consumed) /\ Absent(handling) /\ Absent(told)

Init ==
  /\ component \in Components
  /\ \/ /\ component = "asyncClient" /\ AC!Init /\ program \in AsyncClientPrograms
        /\ NoPoll /\ NoServer /\ NoLinks
     \/ /\ component = "client" /\ SC!Init /\ program \in SyncClientPrograms
        /\ NoAsync /\ NoClient /\ NoServer /\ NoLinks
     \/ /\ component = "server" /\ SM!Init /\ program \in SyncServerPrograms
        /\ NoAsync /\ NoClient /\ NoPoll /\ NoLinks
     \/ /\ component = "proxy" /\ SP!Init /\ program \in SyncServerPrograms
        /\ NoAsync /\ NoClient /\ NoPoll /\ NoLinks
     \/ /\ component = "asyncServer" /\ AS!Init /\ program \in AsyncServerPrograms
        /\ NoClient /\ NoPoll /\ NoServer

AcStep(A) == component = "asyncClient" /\ A /\ UNCHANGED <<component, pollVars, serverVars, linkVars>>
ScStep(A) == component = "client" /\ A /\ UNCHANGED <<component, asyncVars, clientVars, serverVars, linkVars>>
SsUnchanged == UNCHANGED <<component, asyncVars, clientVars, pollVars, linkVars>>
SmStep(A) == component = "server" /\ A /\ SsUnchanged
SpStep(A) == component = "proxy" /\ A /\ SsUnchanged
AsStep(A) == component = "asyncServer" /\ A /\ UNCHANGED <<component, clientVars, pollVars, serverVars>>

Next == AcStep(AC!Next) \/ ScStep(SC!Next) \/ SmStep(SM!Next) \/ SpStep(SP!Next) \/ AsStep(AS!Next)

Progress(t) ==
  \/ AcStep(AC!Progress(t)) \/ ScStep(SC!Progress(t))
  \/ SmStep(SM!Progress(t)) \/ SpStep(SP!Progress(t)) \/ AsStep(AS!Progress(t))

Fairness ==
  /\ \A t \in Tests : WF_vars(Progress(t))
  /\ \A k \in 1..MaxConns : WF_vars(AcStep(AC!Settles(k)))
  /\ \A n \in Requests : WF_vars(SmStep(SM!Answers(n))) /\ WF_vars(SpStep(SP!Answers(n)))

Spec == Init /\ [][Next]_vars /\ Fairness

-----------------------------------------------------------------------------

TypeOK ==
  CASE component = "asyncClient" -> AC!TypeOK
    [] component = "client"      -> SC!TypeOK
    [] component = "server"      -> SM!TypeOK
    [] component = "proxy"       -> SP!TypeOK
    [] component = "asyncServer" -> AS!TypeOK

\* What a wait is for ends it: a wait that lost its connection, whose request
\* is over, whose message or request was handled or whose link is gone is not
\* left to its timeout.
WaitsTold ==
  CASE component = "asyncClient" -> AC!LossEndsWaits
    [] component = "client"      -> SC!ServedWaitsEnd
    [] component = "server"      -> SM!ServedWaitsEnd
    [] component = "proxy"       -> SP!ServedWaitsEnd
    [] component = "asyncServer" -> AS!ServedWaitsEnd

\* Two waits of a test case for one type of event get their events in the
\* order of the steps (AsyncClient.handleIncomingEvent).
ClaimsInOrder == component = "asyncClient" => AC!ClaimsInOrder

\* A poll never sleeps beyond its timeout (runWithRetry).
RetryInBudget == component = "client" => SC!RetryInBudget

\* No connection of a stopped AsyncClient is left open, and a proxy that is
\* stopped forwards what it had received before its client adapter goes.
StopReleases ==
  /\ component = "asyncClient" => AC!Released
  /\ component = "proxy" => SP!StopForwards

\* Every test case that begins ends, whatever its steps wait for.
TestsEnd == \A t \in Tests : Active(t) ~> pc[t] = "done"

\* Every request that a handler took or that was forwarded is answered.
Serving      == component \in {"server", "proxy"}
Taken(n)     == Serving /\ req[n] \in {"handling", "forwarding"}
AnswersCome  == \A n \in Requests : Taken(n) ~> Serving /\ answer[n] # "none"

-----------------------------------------------------------------------------
(* What the code does not promise; no passing run checks it.               *)

\* Not so with two requests of one operation, in one test case or in two.
OwnResponse == component = "client" => SC!OwnResponse

\* Not so when messages arrive while the handlers of a waitMessage run.
ClaimedOnce == component = "asyncServer" => AS!ClaimedOnce

\* Not so when a connection ends while the handlers of its message run.
LinksLive == component = "asyncServer" => AS!LinksLive

\* Not so when the onClose of the old connection comes after a reconnect.
StaleCloseHarmless == [][component = "asyncClient" => ~AC!StaleCloseHarms]_vars
=============================================================================
