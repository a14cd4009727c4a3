------------------------------ MODULE Scenario ------------------------------
(***************************************************************************)
(* TestScenario.run(): the life cycle of the components of one scenario    *)
(* and of the test cases that share them.                                  *)
(*                                                                         *)
(* The scenario starts its configured components, runs the groups of test  *)
(* cases in parallel (the test cases of a group one after the other), and  *)
(* stops the components.  Every await of the code is a point where the     *)
(* other groups, the components' own start() and stop() and the handlers   *)
(* of already registered hooks go on; the actions below are the code       *)
(* between two awaits.                                                     *)
(***************************************************************************)
EXTENDS Integers, Sequences, FiniteSets

CONSTANTS
  NonNetwork,     \* config.components that are neither Server nor Client, in order
  Servers,        \* the Server components, in config order
  Clients,        \* the Client components (started and stopped in parallel)
  Dynamic,        \* components the bodies pass to use() and config does not hold
  Groups,         \* the arguments of run()
  Tests,          \* the test cases
  TestsOf,        \* [Groups -> Seq(Tests)]
  Uses,           \* [Tests -> SUBSET Comps]: the components of the steps
  Waits,          \* [Tests -> SUBSET (Comps \X 1..NSteps)]: the steps that wait, on which component
  Brings,         \* [Tests -> Seq(Dynamic)]: the dynamic ones among them, in order
  InitBrings,     \* Seq(Dynamic): those the init handler passes to use()
  Busy,           \* components that receive traffic for the hooks (a bound)
  Lossy,          \* components that may reject the waits on them: a connection
                  \* that closes, a request that fails (a bound)
  NSteps,         \* steps of a test case
  FlakyStart,     \* components whose doStart may fail
  FlakyStop,      \* components whose doStop may fail
  Hanging,        \* configured components whose doStop may never end
  ReportersThrow, \* TRUE when a reporter callback may throw
  StopMayThrow,   \* TRUE when the stop handler may throw
  MaxRuns,        \* bound on the calls of run() on this scenario
  InitHook        \* the owner of the persistent hooks of the init handler

Owners  == Tests \cup {InitHook}

\* a registered hook: <<t, n>> is that of t's wait in step n, which a rejection
\* removes; <<o, 0>> stands for those of the on... steps and the persistent ones
Hooks   == {<<InitHook, 0>>} \cup (Tests \X (0..NSteps))
IsWait(h) == h[2] > 0

Ordered == NonNetwork \o Servers
Listed  == {Ordered[i] : i \in 1..Len(Ordered)}
Config  == Listed \cup Clients
Comps   == Config \cup Dynamic

ASSUME ScenarioAssumption ==
  /\ NonNetwork \in Seq(Comps) /\ Servers \in Seq(Comps)
  /\ Config \cap Dynamic = {}
  /\ TestsOf \in [Groups -> Seq(Tests)]
  /\ Uses \in [Tests -> SUBSET Comps]
  /\ Waits \in [Tests -> SUBSET (Comps \X (1..NSteps))]
  /\ Brings \in [Tests -> Seq(Dynamic)]
  /\ InitBrings \in Seq(Dynamic) /\ Busy \subseteq Comps /\ Lossy \subseteq Comps
  /\ NSteps \in Nat /\ MaxRuns \in Nat
  /\ {ReportersThrow, StopMayThrow} \subseteq BOOLEAN
  /\ FlakyStart \subseteq Comps /\ FlakyStop \subseteq Comps
  /\ Hanging \subseteq Config
  /\ InitHook \notin Tests

VARIABLES
  phase,       \* where run() is
  at,          \* index in Ordered of the sequential start or stop
  runs,        \* calls of run() so far
  initError,   \* run() caught an error of runInit or of a group
  result,      \* "none", or what createTestResult answered
  initQueue,   \* the init handler's pending components still to start
  cst,         \* Component.state
  registered,  \* keys of TestScenario.components, shared by all builders
  hooks,       \* for each component, its registered hooks
  errs,        \* for each component, the owners of its unhandledErrors entries
  handling,    \* for each component, the hooks whose handlers are executing
  pc,          \* where executeTestCase is
  pending,     \* pendingComponents still to start, later testCaseComponents to stop
  own,         \* the components the test case queued for starting
  stepNo,      \* steps passed
  stepsOk,     \* TestCase.execute has met no failure
  verdict,     \* finalResult.passed
  rejected,    \* groups whose promise rejected
  reported     \* history: owners with an error tracked before their verdict

runVars   == <<phase, at, runs, initError, result, initQueue>>
testVars  == <<pc, pending, own, stepNo, stepsOk, verdict, rejected>>
vars      == <<runVars, cst, registered, hooks, errs, handling, testVars, reported>>

CStates == {"created", "starting", "started", "stopping", "stopped", "error"}
Phases  == {"idle", "start", "startWait", "clientsWait", "initPending",
            "initWait", "tests", "stop",
            "clientsStopping", "stopOrdered", "stopWait", "done", "left"}
PCs     == {"idle", "pending", "pendingWait", "hooks", "exec", "wait", "clear",
            "collect", "cleanup", "cleanupWait", "final", "done"}

TypeOK ==
  /\ phase \in Phases /\ at \in Nat /\ runs \in 0..MaxRuns
  /\ initError \in BOOLEAN /\ result \in {"none", "passed", "failed"}
  /\ initQueue \subseteq Dynamic
  /\ cst \in [Comps -> CStates]
  /\ registered \subseteq Comps
  /\ hooks \in [Comps -> SUBSET Hooks]
  /\ errs \in [Comps -> SUBSET Owners]
  /\ handling \in [Comps -> SUBSET Hooks]
  /\ pc \in [Tests -> PCs]
  /\ pending \in [Tests -> SUBSET Dynamic] /\ own \in [Tests -> SUBSET Dynamic]
  /\ stepNo \in [Tests -> 0..NSteps]
  /\ stepsOk \in [Tests -> BOOLEAN]
  /\ verdict \in [Tests -> {"none", "passed", "failed"}]
  /\ rejected \subseteq Groups
  /\ reported \subseteq Owners

Init ==
  /\ phase = "idle" /\ at = 1 /\ runs = 0 /\ initError = FALSE /\ result = "none"
  /\ initQueue = {}
  /\ cst = [c \in Comps |-> "created"]
  /\ registered = Config
  /\ hooks = [c \in Comps |-> {}]
  /\ errs = [c \in Comps |-> {}]
  /\ handling = [c \in Comps |-> {}]
  /\ pc = [t \in Tests |-> "idle"]
  /\ pending = [t \in Tests |-> {}] /\ own = [t \in Tests |-> {}]
  /\ stepNo = [t \in Tests |-> 0]
  /\ stepsOk = [t \in Tests |-> TRUE]
  /\ verdict = [t \in Tests |-> "none"]
  /\ rejected = {} /\ reported = {}

-----------------------------------------------------------------------------
(* Component.start() and Component.stop()                                  *)

CanStart(c) == cst[c] \in {"created", "stopped"}
CanStop(c)  == cst[c] \in {"started", "error"}

DoStartOk(c) ==
  /\ cst[c] = "starting"
  /\ cst' = [cst EXCEPT ![c] = "started"]
  /\ UNCHANGED <<runVars, registered, hooks, errs, handling, testVars, reported>>

DoStartFails(c) ==
  /\ cst[c] = "starting" /\ c \in FlakyStart
  /\ cst' = [cst EXCEPT ![c] = "error"]
  /\ UNCHANGED <<runVars, registered, hooks, errs, handling, testVars, reported>>

\* doStop ends with clearHooks(): a failing doStop throws before it gets there
DoStopOk(c) ==
  /\ cst[c] = "stopping"
  /\ cst' = [cst EXCEPT ![c] = "stopped"]
  /\ hooks' = [hooks EXCEPT ![c] = {}]
  /\ UNCHANGED <<runVars, registered, errs, handling, testVars, reported>>

DoStopFails(c) ==
  /\ cst[c] = "stopping" /\ c \in FlakyStop
  /\ cst' = [cst EXCEPT ![c] = "error"]
  /\ UNCHANGED <<runVars, registered, hooks, errs, handling, testVars, reported>>

-----------------------------------------------------------------------------
(* run(): runInit and startComponents                                      *)

InSeq(q) == {q[i] : i \in DOMAIN q}

\* the loops over components go in the order in which use() received them
FirstIn(q, S) ==
  LET i == CHOOSE i \in DOMAIN q : q[i] \in S /\ \A j \in 1..(i - 1) : q[j] \notin S
  IN  q[i]

NextInit       == FirstIn(InitBrings, initQueue)
NextPending(t) == FirstIn(Brings[t], pending[t])

\* the groups were started: initError then means that one of them rejected
ReachedTests ==
  /\ phase \in {"tests", "stop", "clientsStopping", "stopOrdered", "stopWait", "done", "left"}
  /\ initError => rejected # {}

\* t is the test case its group is at: the groups go on after run() returned
IsNext(t) ==
  /\ ReachedTests /\ pc[t] = "idle"
  /\ \E g \in Groups \ rejected : \E i \in DOMAIN TestsOf[g] :
       TestsOf[g][i] = t /\ \A j \in 1..(i - 1) : pc[TestsOf[g][j]] = "done"

\* run() returned: after stopComponents, or without it
Returned == phase \in {"done", "left"}

\* `initialized` between two runs: only the end of runStop resets it
Initialized == phase = "left" /\ ReachedTests

\* run() is called again only when no group of the last run is left executing
CanRun ==
  /\ phase = "idle" \/ Returned
  /\ runs < MaxRuns
  /\ \A t \in Tests : pc[t] \in {"idle", "done"} /\ ~IsNext(t)

NewTests ==
  /\ pc' = [t \in Tests |-> "idle"]
  /\ pending' = [t \in Tests |-> {}] /\ own' = [t \in Tests |-> {}]
  /\ stepNo' = [t \in Tests |-> 0] /\ stepsOk' = [t \in Tests |-> TRUE]
  /\ verdict' = [t \in Tests |-> "none"]
  /\ rejected' = {} /\ reported' = {}

\* runInit: the init handler's steps register their hooks before any start()
BeginRun ==
  /\ CanRun /\ ~Initialized /\ NewTests
  /\ phase' = "start" /\ at' = 1 /\ runs' = runs + 1
  /\ initError' = FALSE /\ result' = "none"
  /\ registered' = registered \cup InSeq(InitBrings)
  /\ initQueue' = InSeq(InitBrings) \ registered
  /\ hooks' = [c \in Comps |-> IF c \in Config THEN hooks[c] \cup {<<InitHook, 0>>} ELSE hooks[c]]
  /\ UNCHANGED <<cst, errs, handling>>

InitHandlerThrows ==
  /\ CanRun /\ ~Initialized /\ NewTests
  /\ phase' = "stop" /\ at' = 1 /\ runs' = runs + 1
  /\ initError' = TRUE /\ result' = "none"
  /\ UNCHANGED <<initQueue, registered, hooks, cst, errs, handling>>

\* runInit returns at once: the components are those of the last run
RunAgain ==
  /\ CanRun /\ Initialized /\ NewTests
  /\ phase' = "tests" /\ runs' = runs + 1
  /\ initError' = FALSE /\ result' = "none"
  /\ UNCHANGED <<at, initQueue, registered, hooks, cst, errs, handling>>

InitFails ==
  /\ phase' = "stop" /\ initError' = TRUE
  /\ UNCHANGED <<at, runs, result, initQueue>>

\* fault: start() of one component is not awaited before the next
StartUnawaited ==
  /\ phase = "start" /\ at <= Len(Ordered)
  /\ LET c == Ordered[at] IN
       \/ /\ CanStart(c)
          /\ cst' = [cst EXCEPT ![c] = "starting"]
          /\ at' = at + 1
          /\ UNCHANGED <<phase, runs, initError, result, initQueue>>
       \/ ~CanStart(c) /\ InitFails /\ UNCHANGED cst
  /\ UNCHANGED <<registered, hooks, errs, handling, testVars, reported>>

StartNext ==
  /\ phase = "start" /\ at <= Len(Ordered)
  /\ LET c == Ordered[at] IN
       \/ /\ CanStart(c)
          /\ cst' = [cst EXCEPT ![c] = "starting"]
          /\ phase' = "startWait"
          /\ UNCHANGED <<at, runs, initError, result, initQueue>>
       \/ ~CanStart(c) /\ InitFails /\ UNCHANGED cst
  /\ UNCHANGED <<registered, hooks, errs, handling, testVars, reported>>

StartSettled ==
  /\ phase = "startWait"
  /\ LET c == Ordered[at] IN
       \/ /\ cst[c] = "started"
          /\ phase' = "start" /\ at' = at + 1
          /\ UNCHANGED <<runs, initError, result, initQueue>>
       \/ cst[c] = "error" /\ InitFails
  /\ UNCHANGED <<cst, registered, hooks, errs, handling, testVars, reported>>

\* Promise.all calls every start(): the refused ones do not hold back the others
StartClients ==
  /\ phase = "start" /\ at = Len(Ordered) + 1
  /\ cst' = [c \in Comps |-> IF c \in Clients /\ CanStart(c) THEN "starting" ELSE cst[c]]
  /\ \/ /\ \A c \in Clients : CanStart(c)
        /\ phase' = "clientsWait"
        /\ UNCHANGED <<at, runs, initError, result, initQueue>>
     \/ (\E c \in Clients : ~CanStart(c)) /\ InitFails
  /\ UNCHANGED <<registered, hooks, errs, handling, testVars, reported>>

ClientsSettled ==
  /\ phase = "clientsWait"
  /\ \/ /\ \A c \in Clients : cst[c] = "started"
        /\ phase' = "initPending"
        /\ UNCHANGED <<at, runs, initError, result, initQueue>>
     \/ (\E c \in Clients : cst[c] = "error") /\ InitFails
  /\ UNCHANGED <<cst, registered, hooks, errs, handling, testVars, reported>>

\* processPendingComponents for the init handler's builder
StartInitPending ==
  /\ phase = "initPending"
  /\ \/ /\ initQueue = {}
        /\ phase' = "tests"
        /\ UNCHANGED <<at, runs, initError, result, initQueue, cst>>
     \/ /\ initQueue # {} /\ CanStart(NextInit)
        /\ cst' = [cst EXCEPT ![NextInit] = "starting"]
        /\ phase' = "initWait"
        /\ UNCHANGED <<at, runs, initError, result, initQueue>>
     \/ initQueue # {} /\ ~CanStart(NextInit) /\ InitFails /\ UNCHANGED cst
  /\ UNCHANGED <<registered, hooks, errs, handling, testVars, reported>>

InitPendingSettled ==
  /\ phase = "initWait"
  /\ \/ /\ cst[NextInit] = "started"
        /\ phase' = "initPending" /\ initQueue' = initQueue \ {NextInit}
        /\ UNCHANGED <<at, runs, initError, result>>
     \/ cst[NextInit] = "error" /\ InitFails
  /\ UNCHANGED <<cst, registered, hooks, errs, handling, testVars, reported>>

-----------------------------------------------------------------------------
(* executeGroup and executeTestCase                                        *)

Goto(t, l)   == pc' = [pc EXCEPT ![t] = l]
Fail(t)      == stepsOk' = [stepsOk EXCEPT ![t] = FALSE]
GroupOf(t)   == CHOOSE g \in Groups : \E i \in DOMAIN TestsOf[g] : TestsOf[g][i] = t

\* onTestCaseStart of a reporter throws: nothing catches it inside the group
ReporterThrows(t) ==
  /\ IsNext(t) /\ ReportersThrow
  /\ rejected' = rejected \cup {GroupOf(t)}
  /\ UNCHANGED <<runVars, cst, registered, hooks, errs, handling, pc, pending, own, stepNo,
                 stepsOk, verdict, reported>>

\* clear the unhandled errors of ALL components, then setTestCaseId and buildSteps
ClearedErrs == [c \in Comps |-> IF c \in registered THEN {} ELSE errs[c]]

ExecuteTestCase(t) ==
  /\ IsNext(t)
  /\ errs' = ClearedErrs
  /\ registered' = registered \cup InSeq(Brings[t])
  /\ LET queued == InSeq(Brings[t]) \ registered IN
       /\ pending' = [pending EXCEPT ![t] = queued]
       /\ own' = [own EXCEPT ![t] = queued]
  /\ Goto(t, "pending")
  /\ UNCHANGED <<runVars, cst, hooks, handling, stepNo, stepsOk, verdict, rejected, reported>>

\* the body of the test case throws after its use() calls: nothing is started
BuildThrows(t) ==
  /\ IsNext(t)
  /\ errs' = ClearedErrs
  /\ registered' = registered \cup InSeq(Brings[t])
  /\ Fail(t) /\ Goto(t, "collect")
  /\ UNCHANGED <<runVars, cst, hooks, handling, pending, own, stepNo, verdict, rejected, reported>>

\* processPendingComponents: a refused or failed start aborts the test case and
\* testCaseComponents keeps its initial value []
PendingFails(t) ==
  /\ Fail(t) /\ Goto(t, "collect")
  /\ pending' = [pending EXCEPT ![t] = {}]
  /\ own' = [own EXCEPT ![t] = {}]

StartPending(t) ==
  /\ pc[t] = "pending" /\ pending[t] # {}
  /\ LET c == NextPending(t) IN
       \/ /\ CanStart(c)
          /\ cst' = [cst EXCEPT ![c] = "starting"]
          /\ Goto(t, "pendingWait")
          /\ UNCHANGED <<pending, own, stepsOk>>
       \/ ~CanStart(c) /\ PendingFails(t) /\ UNCHANGED cst
  /\ UNCHANGED <<runVars, registered, hooks, errs, handling, stepNo, verdict, rejected, reported>>

PendingSettled(t) ==
  /\ pc[t] = "pendingWait"
  /\ LET c == NextPending(t) IN
       \/ /\ cst[c] = "started"
          /\ pending' = [pending EXCEPT ![t] = @ \ {NextPending(t)}]
          /\ Goto(t, "pending")
          /\ UNCHANGED <<own, stepsOk>>
       \/ cst[c] = "error" /\ PendingFails(t)
  /\ UNCHANGED <<runVars, cst, registered, hooks, errs, handling, stepNo, verdict, rejected, reported>>

PendingDone(t) ==
  /\ pc[t] = "pending" /\ pending[t] = {}
  /\ Goto(t, "hooks")
  /\ UNCHANGED <<runVars, cst, registered, hooks, errs, handling, pending, own, stepNo,
                 stepsOk, verdict, rejected, reported>>

\* what the steps of t register with c
HooksOf(t, c) == {<<t, n>> : n \in {0} \cup {m \in 1..NSteps : <<c, m>> \in Waits[t]}}
Without(S, t) == {h \in S : h[1] # t}

\* Phase 1 and 1.5: every hook is registered; afterHooksRegistered may reject
RegisterHooks(t) ==
  /\ pc[t] = "hooks"
  /\ hooks' = [c \in Comps |-> IF c \in Uses[t] THEN hooks[c] \cup HooksOf(t, c) ELSE hooks[c]]
  /\ \/ Goto(t, "exec") /\ UNCHANGED stepsOk
     \/ Goto(t, "clear") /\ Fail(t)
  /\ UNCHANGED <<runVars, cst, registered, errs, handling, pending, own, stepNo, verdict,
                 rejected, reported>>

\* the wait that is the next step, or the one that is executing
OwnWait(t)   == <<t, stepNo[t] + 1>>
NextWaits(t) == {c \in Comps : <<c, stepNo[t] + 1>> \in Waits[t]}

\* fault: one step too many
StepPassesOnce(t) ==
  /\ pc[t] = "exec" /\ stepNo[t] <= NSteps /\ NextWaits(t) = {}
  /\ stepNo' = [stepNo EXCEPT ![t] = @ + 1]
  /\ UNCHANGED <<runVars, cst, registered, hooks, errs, handling, pc, pending, own, stepsOk,
                 verdict, rejected, reported>>

\* Phase 2, failFast
StepPasses(t) ==
  /\ pc[t] = "exec" /\ stepNo[t] < NSteps /\ NextWaits(t) = {}
  /\ stepNo' = [stepNo EXCEPT ![t] = @ + 1]
  /\ UNCHANGED <<runVars, cst, registered, hooks, errs, handling, pc, pending, own, stepsOk,
                 verdict, rejected, reported>>

\* fault: clearHooks of Phase 3 is not in a finally block
StepFailsUncleared(t) ==
  /\ pc[t] = "exec" /\ stepNo[t] < NSteps
  /\ Fail(t) /\ Goto(t, "collect")
  /\ UNCHANGED <<runVars, cst, registered, hooks, errs, handling, pending, own, stepNo, verdict,
                 rejected, reported>>

StepFails(t) ==
  /\ pc[t] = "exec" /\ stepNo[t] < NSteps
  /\ Fail(t) /\ Goto(t, "clear")
  /\ UNCHANGED <<runVars, cst, registered, hooks, errs, handling, pending, own, stepNo, verdict,
                 rejected, reported>>

\* findHookByStepId: a hook that was rejected before the step is not found
WaitBegins(t) ==
  /\ pc[t] = "exec" /\ stepNo[t] < NSteps
  /\ \E c \in NextWaits(t) :
       \/ OwnWait(t) \in hooks[c] /\ Goto(t, "wait") /\ UNCHANGED stepsOk
       \/ OwnWait(t) \notin hooks[c] /\ Fail(t) /\ Goto(t, "clear")
  /\ UNCHANGED <<runVars, cst, registered, hooks, errs, handling, pending, own, stepNo, verdict,
                 rejected, reported>>

\* the wait is told, rejected or times out; its finally block removes the hook,
\* which a second handler may have rejected after the first one resolved it
WaitEnds(t) ==
  /\ pc[t] = "wait"
  /\ hooks' = [c \in Comps |-> hooks[c] \ {OwnWait(t)}]
  /\ \/ /\ stepNo' = [stepNo EXCEPT ![t] = @ + 1] /\ Goto(t, "exec")
        /\ UNCHANGED stepsOk
     \/ Fail(t) /\ Goto(t, "clear") /\ UNCHANGED stepNo
  /\ UNCHANGED <<runVars, cst, registered, errs, handling, pending, own, verdict, rejected,
                 reported>>

StepsDone(t) ==
  /\ pc[t] = "exec" /\ stepNo[t] = NSteps
  /\ Goto(t, "clear")
  /\ UNCHANGED <<runVars, cst, registered, hooks, errs, handling, pending, own, stepNo, stepsOk,
                 verdict, rejected, reported>>

\* Phase 3: clearHooks(testCaseId) of one component after the other
Phase3Clear(t, c) ==
  /\ pc[t] = "clear" /\ Without(hooks[c], t) # hooks[c]
  /\ hooks' = [hooks EXCEPT ![c] = Without(@, t)]
  /\ UNCHANGED <<runVars, cst, registered, errs, handling, testVars, reported>>

Phase3Done(t) ==
  /\ pc[t] = "clear" /\ \A c \in Comps : Without(hooks[c], t) = hooks[c]
  /\ Goto(t, "collect")
  /\ UNCHANGED <<runVars, cst, registered, hooks, errs, handling, pending, own, stepNo, stepsOk,
                 verdict, rejected, reported>>

\* a matching message or request runs the handlers of the hook, which may fail
HandlerBegins(h, c) ==
  /\ c \in Busy /\ h \in hooks[c] /\ cst[c] = "started" /\ h \notin handling[c]
  /\ handling' = [handling EXCEPT ![c] = @ \cup {h}]
  /\ UNCHANGED <<runVars, cst, registered, hooks, errs, testVars, reported>>

HandlerPasses(h, c) ==
  /\ h \in handling[c]
  /\ handling' = [handling EXCEPT ![c] = @ \ {h}]
  /\ UNCHANGED <<runVars, cst, registered, hooks, errs, testVars, reported>>

\* rejectHook: a wait is told the error, and its hook is removed
Reject(h, c) == hooks' = IF IsWait(h) THEN [hooks EXCEPT ![c] = @ \ {h}] ELSE hooks

HandlerFails(h, c) ==
  /\ h \in handling[c] /\ Reject(h, c)
  /\ handling' = [handling EXCEPT ![c] = @ \ {h}]
  /\ errs' = [errs EXCEPT ![c] = @ \cup {h[1]}]
  /\ reported' = IF h[1] = InitHook \/ pc[h[1]] \in {"exec", "wait", "clear", "collect"}
                    THEN reported \cup {h[1]} ELSE reported
  /\ UNCHANGED <<runVars, cst, registered, testVars>>

\* drop() is a DropMessageError: it rejects a wait and is not tracked
HandlerDrops(h, c) ==
  /\ h \in handling[c] /\ Reject(h, c)
  /\ handling' = [handling EXCEPT ![c] = @ \ {h}]
  /\ UNCHANGED <<runVars, cst, registered, errs, testVars, reported>>

\* a connection that closes or a request that fails rejects the waits it concerns
RejectWaits(c) ==
  /\ c \in Lossy /\ cst[c] \notin {"created", "starting"}
  /\ \E S \in SUBSET {h \in hooks[c] : IsWait(h)} :
       S # {} /\ hooks' = [hooks EXCEPT ![c] = @ \ S]
  /\ UNCHANGED <<runVars, cst, registered, errs, handling, testVars, reported>>

\* getUnhandledErrors() of ALL components decides the verdict
UnhandledErrors == UNION {errs[c] : c \in registered}

\* fault: the verdict is that of the steps alone
StepsVerdict(t) ==
  /\ pc[t] = "collect"
  /\ verdict' = [verdict EXCEPT ![t] = IF stepsOk[t] THEN "passed" ELSE "failed"]
  /\ pending' = [pending EXCEPT ![t] = own[t]]
  /\ Goto(t, "cleanup")
  /\ UNCHANGED <<runVars, cst, registered, hooks, errs, handling, own, stepNo, stepsOk,
                 rejected, reported>>

\* fault: only a test case whose steps passed cleans up
CleanupIfPassed(t) ==
  /\ pc[t] = "collect"
  /\ verdict' = [verdict EXCEPT ![t] =
                   IF stepsOk[t] /\ UnhandledErrors = {} THEN "passed" ELSE "failed"]
  /\ pending' = [pending EXCEPT ![t] = IF stepsOk[t] THEN own[t] ELSE {}]
  /\ Goto(t, "cleanup")
  /\ UNCHANGED <<runVars, cst, registered, hooks, errs, handling, own, stepNo, stepsOk,
                 rejected, reported>>

CollectErrors(t) ==
  /\ pc[t] = "collect"
  /\ verdict' = [verdict EXCEPT ![t] =
                   IF stepsOk[t] /\ UnhandledErrors = {} THEN "passed" ELSE "failed"]
  /\ pending' = [pending EXCEPT ![t] = own[t]]
  /\ Goto(t, "cleanup")
  /\ UNCHANGED <<runVars, cst, registered, hooks, errs, handling, own, stepNo, stepsOk,
                 rejected, reported>>

\* cleanupTestCaseComponents: a stop() that throws keeps the component in the map
CleanupNext(t) ==
  /\ pc[t] = "cleanup" /\ pending[t] # {}
  /\ LET c == NextPending(t) IN
       \/ /\ CanStop(c)
          /\ cst' = [cst EXCEPT ![c] = "stopping"]
          /\ Goto(t, "cleanupWait")
          /\ UNCHANGED <<pending, registered>>
       \/ /\ ~CanStop(c)
          /\ registered' = IF cst[c] = "stopped" THEN registered \ {c} ELSE registered
          /\ pending' = [pending EXCEPT ![t] = @ \ {NextPending(t)}]
          /\ UNCHANGED <<cst, pc>>
  /\ UNCHANGED <<runVars, hooks, errs, handling, own, stepNo, stepsOk, verdict, rejected, reported>>

CleanupSettled(t) ==
  /\ pc[t] = "cleanupWait"
  /\ LET c == NextPending(t) IN
       /\ cst[c] \in {"stopped", "error"}
       /\ registered' = IF cst[c] = "stopped" THEN registered \ {c} ELSE registered
  /\ pending' = [pending EXCEPT ![t] = @ \ {NextPending(t)}]
  /\ Goto(t, "cleanup")
  /\ UNCHANGED <<runVars, cst, hooks, errs, handling, own, stepNo, stepsOk, verdict, rejected, reported>>

CleanupDone(t) ==
  /\ pc[t] = "cleanup" /\ pending[t] = {}
  /\ Goto(t, "final")
  /\ UNCHANGED <<runVars, cst, registered, hooks, errs, handling, pending, own, stepNo, stepsOk,
                 verdict, rejected, reported>>

\* fault: clearHooks() is called without the id of the test case
FinishClearsAll(t) ==
  /\ pc[t] = "final"
  /\ hooks' = [c \in Comps |-> IF c \in registered THEN {} ELSE hooks[c]]
  /\ Goto(t, "done") /\ UNCHANGED rejected
  /\ UNCHANGED <<runVars, cst, registered, errs, handling, pending, own, stepNo, stepsOk,
                 verdict, reported>>

\* the second clearHooks(testCaseId), over the whole map; then the reporters
FinishTestCase(t) ==
  /\ pc[t] = "final"
  /\ hooks' = [c \in Comps |-> IF c \in registered THEN Without(hooks[c], t) ELSE hooks[c]]
  /\ Goto(t, "done")
  /\ \/ UNCHANGED rejected
     \/ ReportersThrow /\ rejected' = rejected \cup {GroupOf(t)}
  /\ UNCHANGED <<runVars, cst, registered, errs, handling, pending, own, stepNo, stepsOk,
                 verdict, reported>>

-----------------------------------------------------------------------------
(* run(): the end of the tests, runStop and stopComponents                 *)

AllDone == \A t \in Tests : pc[t] = "done"

\* fault: the first group that ends ends the tests
FirstGroupEnds ==
  /\ phase = "tests" /\ \E g \in Groups : \A t \in InSeq(TestsOf[g]) : pc[t] = "done"
  /\ phase' = "stop" /\ initError' = (rejected # {})
  /\ UNCHANGED <<at, runs, result, initQueue, cst, registered, hooks, errs, handling, testVars, reported>>

\* Promise.all resolves when all groups did and rejects with the first one
TestsEnd ==
  /\ phase = "tests" /\ (AllDone \/ rejected # {})
  /\ phase' = "stop" /\ initError' = (rejected # {})
  /\ UNCHANGED <<at, runs, result, initQueue, cst, registered, hooks, errs, handling, testVars, reported>>

\* fault: the ordered stop begins at the last component but one
StopClientsShort ==
  /\ phase = "stop"
  /\ cst' = [c \in Comps |-> IF c \in Clients /\ CanStop(c) THEN "stopping" ELSE cst[c]]
  /\ phase' = "clientsStopping" /\ at' = Len(Ordered) - 1
  /\ UNCHANGED <<runs, initError, result, initQueue, registered, hooks, errs, handling, testVars, reported>>

StopClients ==
  /\ phase = "stop"
  /\ cst' = [c \in Comps |-> IF c \in Clients /\ CanStop(c) THEN "stopping" ELSE cst[c]]
  /\ phase' = "clientsStopping" /\ at' = Len(Ordered)
  /\ UNCHANGED <<runs, initError, result, initQueue, registered, hooks, errs, handling, testVars, reported>>

ClientsStopped ==
  /\ phase = "clientsStopping" /\ \A c \in Clients : cst[c] # "stopping"
  /\ phase' = "stopOrdered"
  /\ UNCHANGED <<at, runs, initError, result, initQueue, cst, registered, hooks, errs, handling, testVars, reported>>

\* a stop() that is refused (created, starting, stopping) is ignored
StopNext ==
  /\ phase = "stopOrdered" /\ at > 0
  /\ LET c == Ordered[at] IN
       \/ /\ CanStop(c)
          /\ cst' = [cst EXCEPT ![c] = "stopping"]
          /\ phase' = "stopWait" /\ UNCHANGED at
       \/ ~CanStop(c) /\ at' = at - 1 /\ UNCHANGED <<cst, phase>>
  /\ UNCHANGED <<runs, initError, result, initQueue, registered, hooks, errs, handling, testVars, reported>>

StopSettled ==
  /\ phase = "stopWait" /\ cst[Ordered[at]] # "stopping"
  /\ phase' = "stopOrdered" /\ at' = at - 1
  /\ UNCHANGED <<runs, initError, result, initQueue, cst, registered, hooks, errs, handling, testVars, reported>>

\* fault: only the stop of the Clients has a timeout
ClientsTimeout ==
  /\ phase = "clientsStopping" /\ \E c \in Clients : cst[c] = "stopping"
  /\ phase' = "stopOrdered"
  /\ UNCHANGED <<at, runs, initError, result, initQueue, cst, registered, hooks, errs, handling, testVars, reported>>

\* stopWithTimeout: after one second the scenario no longer waits for this stop()
StopTimeout ==
  /\ \/ /\ phase = "clientsStopping" /\ \E c \in Clients : cst[c] = "stopping"
        /\ phase' = "stopOrdered" /\ UNCHANGED at
     \/ /\ phase = "stopWait" /\ cst[Ordered[at]] = "stopping"
        /\ phase' = "stopOrdered" /\ at' = at - 1
  /\ UNCHANGED <<runs, initError, result, initQueue, cst, registered, hooks, errs, handling, testVars, reported>>

\* createTestResult; the results of the groups are lost when one of them rejected
Passed == ~initError /\ \A t \in Tests : verdict[t] = "passed"

\* run() swallows the error of the stop handler, and with it stopComponents
StopHandlerThrows ==
  /\ phase = "stop" /\ StopMayThrow
  /\ phase' = "left" /\ result' = IF Passed THEN "passed" ELSE "failed"
  /\ UNCHANGED <<at, runs, initError, initQueue, cst, registered, hooks, errs, handling, testVars, reported>>

EndRun ==
  /\ phase = "stopOrdered" /\ at = 0
  /\ phase' = "done" /\ result' = IF Passed THEN "passed" ELSE "failed"
  /\ UNCHANGED <<at, runs, initError, initQueue, cst, registered, hooks, errs, handling, testVars, reported>>

-----------------------------------------------------------------------------

RunStep ==
  \/ BeginRun \/ InitHandlerThrows \/ RunAgain
  \/ StartNext \/ StartSettled \/ StartClients \/ ClientsSettled
  \/ StartInitPending \/ InitPendingSettled
  \/ TestsEnd \/ StopClients \/ ClientsStopped \/ StopNext \/ StopSettled
  \/ StopTimeout \/ StopHandlerThrows \/ EndRun

TestStep(t) ==
  \/ ReporterThrows(t) \/ ExecuteTestCase(t) \/ BuildThrows(t)
  \/ StartPending(t) \/ PendingSettled(t) \/ PendingDone(t)
  \/ RegisterHooks(t) \/ StepPasses(t) \/ StepFails(t) \/ StepsDone(t)
  \/ WaitBegins(t) \/ WaitEnds(t)
  \/ (\E c \in Comps : Phase3Clear(t, c)) \/ Phase3Done(t)
  \/ CollectErrors(t) \/ CleanupNext(t) \/ CleanupSettled(t) \/ CleanupDone(t)
  \/ FinishTestCase(t)

StartEnds(c) == DoStartOk(c) \/ DoStartFails(c)
StopEnds(c)  == DoStopOk(c) \/ DoStopFails(c)

HandlerStep(h, c) ==
  HandlerBegins(h, c) \/ HandlerPasses(h, c) \/ HandlerFails(h, c) \/ HandlerDrops(h, c)

Next ==
  \/ RunStep
  \/ \E t \in Tests : TestStep(t)
  \/ \E c \in Comps : StartEnds(c) \/ StopEnds(c) \/ RejectWaits(c)
  \/ \E h \in Hooks, c \in Comps : HandlerStep(h, c)

Spec == Init /\ [][Next]_vars

\* the event loop runs every continuation that is ready, a timer included
Progress == WF_vars(RunStep) /\ \A t \in Tests : WF_vars(TestStep(t))

\* every doStart ends, and every doStop but those of Hanging: stopComponents
\* does not wait longer than its timeout, cleanupTestCaseComponents does
FairSpec ==
  /\ Spec /\ Progress
  /\ \A c \in Comps : WF_vars(StartEnds(c))
  /\ \A c \in Comps \ Hanging : WF_vars(StopEnds(c))

-----------------------------------------------------------------------------
(* Properties                                                              *)

\* A hook never outlives its test case: whatever failed, and whatever the
\* other groups did meanwhile, a test case that left Phase 3 has no hook in
\* any component (executeSteps' finally block).
HooksScoped ==
  \A c \in Comps : \A h \in hooks[c] :
    h[1] \in Tests => pc[h[1]] \in {"exec", "wait", "clear"}

\* clearHooks(testCaseId) and the finally block of a wait take neither another
\* test case's hook nor a persistent one.  A hook goes when its component stops,
\* when its owner clears its hooks, when it is that of the wait that ends, and,
\* that of a wait only, when it is rejected: by a handler of its own that
\* failed, or by the loss of its component's connection or request.
Rejected(h, c) == IsWait(h) /\ (h \in handling[c] \/ c \in Lossy) /\ UNCHANGED <<pc, cst>>

HooksLostOnlyByOwner ==
  [][\A c \in Comps : \A h \in hooks[c] \ hooks'[c] :
        \/ cst[c] = "stopping" \/ Rejected(h, c)
        \/ h[1] \in Tests /\ pc[h[1]] \in {"clear", "final"}
        \/ h[1] \in Tests /\ pc[h[1]] = "wait" /\ h = OwnWait(h[1])]_vars

\* A handler failure tracked while its test case is executing makes that test
\* case fail (executeTestCase: "passed but there are unhandled errors").
ErrorsFailTheirTest ==
  \A t \in Tests : verdict[t] = "passed" => t \notin reported

\* A test case whose own steps and handlers were fine, with no failing
\* persistent hook around, does not fail: errors are attributed to the test
\* case they come from.
NoForeignErrors ==
  \A t \in Tests :
    verdict[t] = "failed" =>
      ~stepsOk[t] \/ t \in reported \/ InitHook \in reported

\* The components under a test case's steps stay up until its steps are over:
\* neither the end of another test case nor the end of the run stops them,
\* unless a throwing reporter made run() give up on the groups.
UsedComponentsUp ==
  rejected = {} =>
    \A t \in Tests : pc[t] \in {"exec", "wait"} => \A c \in Uses[t] : cst[c] = "started"

\* When run() returned, no configured component is left running or about to
\* run; it is stopped, or its stop() failed or is overdue.
NothingLeftRunning ==
  Returned => \A c \in Config : cst[c] \notin {"starting", "started"}

\* A component a test case brought in is down when the test case is over.
DynamicCleanedUp ==
  \A t \in Tests : pc[t] = "done" => \A c \in InSeq(Brings[t]) : cst[c] \notin {"starting", "started"}

\* Nothing starts before what it may depend on is up, and nothing is stopped
\* under a component that may still depend on it: configured order up, Clients
\* last, and the reverse down.
Begins(c, s) == cst[c] # s /\ cst'[c] = s

DependencyOrder ==
  [][/\ \A i \in 1..Len(Ordered) : Begins(Ordered[i], "starting") =>
          \A j \in 1..(i - 1) : cst[Ordered[j]] = "started"
     /\ \A c \in Clients : Begins(c, "starting") => \A d \in Listed : cst[d] = "started"
     /\ \A i \in 1..Len(Ordered) : Begins(Ordered[i], "stopping") =>
          /\ \A j \in (i + 1)..Len(Ordered) : cst[Ordered[j]] # "started"
          /\ \A c \in Clients : cst[c] # "started"]_vars

\* Every run() returns, whatever fails or is slow, also when the stop of a
\* configured component never ends (stopWithTimeout).
RunEnds == (phase = "start") ~> Returned
=============================================================================
