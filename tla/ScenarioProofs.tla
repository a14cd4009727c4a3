--------------------------- MODULE ScenarioProofs ---------------------------
(***************************************************************************)
(* Proofs about Scenario, for any components, groups and test cases: the   *)
(* type invariant; HooksScoped, which is inductive with the types of the   *)
(* two variables it is about, and what a step does to hooks; that run()    *)
(* stops the configured components; whose errors decide a verdict; and     *)
(* that the components of a test case are up while it executes and down    *)
(* when it is over.  A theorem about a part of the instances names their   *)
(* condition; without it the code breaks the property.                     *)
(***************************************************************************)
EXTENDS Scenario, TLAPS, WellFoundedInduction

\* The test case is one of those that run() received.
Planned(t) == \E g \in Groups : \E i \in DOMAIN TestsOf[g] : TestsOf[g][i] = t

\* TypeOK in three parts, with what keeps `at` a natural number and GroupOf a
\* group: the variables of run(), those of the components and those of the
\* test cases.
RunTypes ==
  /\ phase \in Phases /\ at \in Nat /\ runs \in 0..MaxRuns
  /\ initError \in BOOLEAN /\ result \in {"none", "passed", "failed"}
  /\ initQueue \subseteq Dynamic
  /\ phase = "stopWait" => at > 0

ComponentTypes ==
  /\ cst \in [Comps -> CStates]
  /\ registered \subseteq Comps
  /\ hooks \in [Comps -> SUBSET Hooks]
  /\ errs \in [Comps -> SUBSET Owners]
  /\ handling \in [Comps -> SUBSET Hooks]
  /\ reported \subseteq Owners

TestTypes ==
  /\ pc \in [Tests -> PCs]
  /\ pending \in [Tests -> SUBSET Dynamic] /\ own \in [Tests -> SUBSET Dynamic]
  /\ stepNo \in [Tests -> 0..NSteps]
  /\ stepsOk \in [Tests -> BOOLEAN]
  /\ verdict \in [Tests -> {"none", "passed", "failed"}]
  /\ rejected \subseteq Groups
  /\ \A t \in Tests : /\ pc[t] # "idle" => Planned(t)
                      /\ pc[t] = "wait" => stepNo[t] < NSteps

TypeInv == RunTypes /\ ComponentTypes /\ TestTypes

\* What the constants say of the operators that the steps use.
LEMMA ConstantTypes ==
  /\ Len(Ordered) \in Nat /\ NSteps \in Nat /\ MaxRuns \in Nat
  /\ Dynamic \subseteq Comps /\ Config \subseteq Comps
  /\ InSeq(InitBrings) \subseteq Dynamic
  /\ \A t \in Tests : InSeq(Brings[t]) \subseteq Dynamic
<1>1. Len(Ordered) \in Nat
  BY ScenarioAssumption DEF Ordered
<1>2. ASSUME NEW q \in Seq(Dynamic) PROVE InSeq(q) \subseteq Dynamic
  BY <1>2 DEF InSeq
<1> QED  BY <1>1, <1>2, ScenarioAssumption DEF Comps

\* The group of a planned test case is one of the groups.
LEMMA GroupOfType == \A t \in Tests : Planned(t) => GroupOf(t) \in Groups
  BY DEF Planned, GroupOf

\* What the steps of a test case register are hooks of its own.
LEMMA HooksOfType ==
  ASSUME NEW t \in Tests, NEW c \in Comps
  PROVE  HooksOf(t, c) \subseteq Hooks /\ \A h \in HooksOf(t, c) : h[1] = t
<1>1. \A n \in {0} \cup {m \in 1..NSteps : <<c, m>> \in Waits[t]} : n \in 0..NSteps
  BY ConstantTypes
<1>2. ASSUME NEW h \in HooksOf(t, c) PROVE h \in Hooks /\ h[1] = t
  <2>1. PICK n \in 0..NSteps : h = <<t, n>>
    BY <1>1, <1>2 DEF HooksOf
  <2>2. h \in Tests \X (0..NSteps) /\ h[1] = t
    BY <2>1
  <2> QED  BY <2>2 DEF Hooks
<1> QED  BY <1>2

\* run() keeps the types of its variables; nobody else writes them.
LEMMA RunTypesKept == TypeInv /\ [Next]_vars => RunTypes'
<1> SUFFICES ASSUME TypeInv, [Next]_vars PROVE RunTypes'
  OBVIOUS
<1> USE ConstantTypes DEF TypeInv
<1>1. CASE RunStep
  <2>1. CASE BeginRun
    <3>1. phase' \in Phases /\ (phase' = "stopWait" => at' > 0)
      BY <2>1 DEF BeginRun, Phases
    <3>2. at' \in Nat
      BY <2>1 DEF BeginRun, RunTypes
    <3>3. runs' \in 0..MaxRuns
      BY <2>1 DEF BeginRun, RunTypes, CanRun
    <3>4. initError' \in BOOLEAN
      BY <2>1 DEF BeginRun, RunTypes
    <3>5. result' \in {"none", "passed", "failed"} /\ initQueue' \subseteq Dynamic
      BY <2>1 DEF BeginRun, RunTypes
    <3> QED  BY <3>1, <3>2, <3>3, <3>4, <3>5 DEF RunTypes
  <2>2. CASE InitHandlerThrows
    BY <2>2 DEF RunTypes, Phases, InitHandlerThrows, CanRun
  <2>3. CASE RunAgain
    <3>1. phase' \in Phases /\ (phase' = "stopWait" => at' > 0)
      BY <2>3 DEF RunAgain, Phases
    <3>2. at' \in Nat
      BY <2>3 DEF RunAgain, RunTypes
    <3>3. runs' \in 0..MaxRuns
      BY <2>3 DEF RunAgain, RunTypes, CanRun
    <3>4. initError' \in BOOLEAN
      BY <2>3 DEF RunAgain, RunTypes
    <3>5. result' \in {"none", "passed", "failed"} /\ initQueue' \subseteq Dynamic
      BY <2>3 DEF RunAgain, RunTypes
    <3> QED  BY <3>1, <3>2, <3>3, <3>4, <3>5 DEF RunTypes
  <2>4. CASE StartNext
    BY <2>4 DEF RunTypes, Phases, StartNext, InitFails
  <2>5. CASE StartSettled
    <3>1. phase' \in Phases /\ (phase' = "stopWait" => at' > 0)
      BY <2>5 DEF StartSettled, InitFails, Phases
    <3>2. at' \in Nat
      BY <2>5 DEF StartSettled, InitFails, RunTypes
    <3>3. runs' \in 0..MaxRuns
      BY <2>5 DEF StartSettled, InitFails, RunTypes
    <3>4. initError' \in BOOLEAN
      BY <2>5 DEF StartSettled, InitFails, RunTypes
    <3>5. result' \in {"none", "passed", "failed"} /\ initQueue' \subseteq Dynamic
      BY <2>5 DEF StartSettled, InitFails, RunTypes
    <3> QED  BY <3>1, <3>2, <3>3, <3>4, <3>5 DEF RunTypes
  <2>6. CASE StartClients
    BY <2>6 DEF RunTypes, Phases, StartClients, InitFails
  <2>7. CASE ClientsSettled
    BY <2>7 DEF RunTypes, Phases, ClientsSettled, InitFails
  <2>8. CASE StartInitPending
    BY <2>8 DEF RunTypes, Phases, StartInitPending, InitFails
  <2>9. CASE InitPendingSettled
    BY <2>9 DEF RunTypes, Phases, InitPendingSettled, InitFails
  <2>10. CASE TestsEnd
    BY <2>10 DEF RunTypes, Phases, TestsEnd
  <2>11. CASE StopClients
    BY <2>11 DEF RunTypes, Phases, StopClients
  <2>12. CASE ClientsStopped
    BY <2>12 DEF RunTypes, Phases, ClientsStopped
  <2>13. CASE StopNext
    BY <2>13 DEF RunTypes, Phases, StopNext
  <2>14. CASE StopSettled
    BY <2>14 DEF RunTypes, Phases, StopSettled
  <2>15. CASE StopTimeout
    BY <2>15 DEF RunTypes, Phases, StopTimeout
  <2>16. CASE StopHandlerThrows
    BY <2>16 DEF RunTypes, Phases, StopHandlerThrows, Passed
  <2>17. CASE EndRun
    BY <2>17 DEF RunTypes, Phases, EndRun, Passed
  <2> QED  BY <1>1, <2>1, <2>2, <2>3, <2>4, <2>5, <2>6, <2>7, <2>8, <2>9, <2>10, <2>11,
      <2>12, <2>13, <2>14, <2>15, <2>16, <2>17 DEF RunStep
<1>2. ASSUME NEW t \in Tests, TestStep(t) PROVE RunTypes'
  BY <1>2 DEF RunTypes, runVars, TestStep, ReporterThrows, ExecuteTestCase,
      BuildThrows, StartPending, PendingSettled, PendingDone, RegisterHooks,
      StepPasses, StepFails, StepsDone, WaitBegins, WaitEnds, Phase3Clear, Phase3Done,
      CollectErrors, CleanupNext, CleanupSettled, CleanupDone, FinishTestCase
<1>3. ASSUME NEW c \in Comps, StartEnds(c) \/ StopEnds(c) \/ RejectWaits(c) PROVE RunTypes'
  BY <1>3 DEF RunTypes, runVars, StartEnds, StopEnds, DoStartOk, DoStartFails,
      DoStopOk, DoStopFails, RejectWaits
<1>4. ASSUME NEW h \in Hooks, NEW c \in Comps, HandlerStep(h, c) PROVE RunTypes'
  BY <1>4 DEF RunTypes, runVars, HandlerStep, HandlerBegins, HandlerPasses,
      HandlerFails, HandlerDrops, Reject
<1>5. CASE UNCHANGED vars
  BY <1>5 DEF RunTypes, runVars, vars
<1> QED  BY <1>1, <1>2, <1>3, <1>4, <1>5 DEF Next

\* Nobody puts a component, its hooks or its errors out of their types.
LEMMA ComponentTypesKept == TypeInv /\ [Next]_vars => ComponentTypes'
<1> SUFFICES ASSUME TypeInv, [Next]_vars PROVE ComponentTypes'
  OBVIOUS
<1> USE ConstantTypes DEF TypeInv
<1>1. CASE RunStep
  <2>1. CASE BeginRun
    BY <2>1 DEF ComponentTypes, CStates, Owners, Hooks, BeginRun, NewTests
  <2>2. CASE InitHandlerThrows
    BY <2>2 DEF ComponentTypes, CStates, Owners, Hooks, InitHandlerThrows, NewTests
  <2>3. CASE RunAgain
    BY <2>3 DEF ComponentTypes, CStates, Owners, Hooks, RunAgain, NewTests
  <2>4. CASE StartNext
    BY <2>4 DEF ComponentTypes, CStates, Owners, Hooks, StartNext
  <2>5. CASE StartClients
    BY <2>5 DEF ComponentTypes, CStates, Owners, Hooks, StartClients
  <2>6. CASE StartInitPending
    BY <2>6 DEF ComponentTypes, CStates, Owners, Hooks, StartInitPending
  <2>7. CASE StopClients
    BY <2>7 DEF ComponentTypes, CStates, Owners, Hooks, StopClients
  <2>8. CASE StopNext
    BY <2>8 DEF ComponentTypes, CStates, Owners, Hooks, StopNext
  <2>9. CASE StartSettled \/ ClientsSettled \/ InitPendingSettled \/ TestsEnd \/
            ClientsStopped \/ StopSettled \/ StopTimeout \/
            StopHandlerThrows \/ EndRun
    BY <2>9 DEF ComponentTypes, StartSettled, ClientsSettled, InitPendingSettled,
        TestsEnd, ClientsStopped, StopSettled, StopTimeout, StopHandlerThrows,
        EndRun
  <2> QED  BY <1>1, <2>1, <2>2, <2>3, <2>4, <2>5, <2>6, <2>7, <2>8, <2>9 DEF RunStep
<1>2. ASSUME NEW t \in Tests, TestStep(t) PROVE ComponentTypes'
  <2>1. CASE ExecuteTestCase(t)
    BY <2>1 DEF ComponentTypes, CStates, Owners, Hooks, ExecuteTestCase, ClearedErrs
  <2>2. CASE BuildThrows(t)
    BY <2>2 DEF ComponentTypes, CStates, Owners, Hooks, BuildThrows, ClearedErrs
  <2>3. CASE StartPending(t)
    BY <2>3 DEF ComponentTypes, CStates, Owners, Hooks, StartPending
  <2>4. CASE RegisterHooks(t)
    <3>1. hooks' \in [Comps -> SUBSET Hooks]
      BY <2>4, HooksOfType DEF ComponentTypes, RegisterHooks
    <3> QED  BY <2>4, <3>1 DEF ComponentTypes, RegisterHooks
  <2>5. CASE \E c \in Comps : Phase3Clear(t, c)
    BY <2>5 DEF ComponentTypes, CStates, Owners, Hooks, Without, Phase3Clear
  <2>6. CASE CleanupNext(t)
    BY <2>6 DEF ComponentTypes, CStates, Owners, Hooks, CleanupNext
  <2>7. CASE CleanupSettled(t)
    BY <2>7 DEF ComponentTypes, CStates, Owners, Hooks, CleanupSettled
  <2>8. CASE FinishTestCase(t)
    BY <2>8 DEF ComponentTypes, CStates, Owners, Hooks, Without, FinishTestCase
  <2>9. CASE ReporterThrows(t) \/ PendingSettled(t) \/ PendingDone(t) \/ StepPasses(t) \/
            StepFails(t) \/ StepsDone(t) \/ WaitBegins(t) \/ Phase3Done(t) \/
            CollectErrors(t) \/ CleanupDone(t)
    BY <2>9 DEF ComponentTypes, ReporterThrows, PendingSettled, PendingDone,
        StepPasses, StepFails, StepsDone, WaitBegins, Phase3Done, CollectErrors, CleanupDone
  <2>10. CASE WaitEnds(t)
    BY <2>10 DEF ComponentTypes, WaitEnds
  <2> QED  BY <1>2, <2>1, <2>2, <2>3, <2>4, <2>5, <2>6, <2>7, <2>8, <2>9, <2>10 DEF TestStep
<1>3. ASSUME NEW c \in Comps, StartEnds(c) \/ StopEnds(c) \/ RejectWaits(c) PROVE ComponentTypes'
  BY <1>3 DEF ComponentTypes, CStates, StartEnds, StopEnds, DoStartOk,
      DoStartFails, DoStopOk, DoStopFails, RejectWaits
<1>4. ASSUME NEW h \in Hooks, NEW c \in Comps, HandlerStep(h, c) PROVE ComponentTypes'
  <2>1. h[1] \in Owners
    BY DEF Hooks, Owners
  <2>2. hooks' \in [Comps -> SUBSET Hooks]
    BY <1>4 DEF ComponentTypes, HandlerStep, HandlerBegins, HandlerPasses, HandlerFails,
        HandlerDrops, Reject
  <2> QED  BY <1>4, <2>1, <2>2 DEF ComponentTypes, HandlerStep, HandlerBegins,
      HandlerPasses, HandlerFails, HandlerDrops
<1>5. CASE UNCHANGED vars
  BY <1>5 DEF ComponentTypes, vars
<1> QED  BY <1>1, <1>2, <1>3, <1>4, <1>5 DEF Next

\* Only the test cases of run() execute, and only their groups are rejected.
LEMMA TestTypesKept == TypeInv /\ [Next]_vars => TestTypes'
<1> SUFFICES ASSUME TypeInv, [Next]_vars PROVE TestTypes'
  OBVIOUS
<1> USE ConstantTypes DEF TypeInv
<1>1. CASE RunStep
  <2>1. CASE BeginRun
    BY <2>1 DEF TestTypes, PCs, NewTests, BeginRun
  <2>2. CASE InitHandlerThrows
    BY <2>2 DEF TestTypes, PCs, NewTests, InitHandlerThrows
  <2>3. CASE RunAgain
    BY <2>3 DEF TestTypes, PCs, NewTests, RunAgain
  <2>4. CASE StartNext \/ StartSettled \/ StartClients \/ ClientsSettled \/
            StartInitPending \/ InitPendingSettled \/ TestsEnd \/
            StopClients \/ ClientsStopped \/ StopNext \/ StopSettled \/
            StopTimeout \/ StopHandlerThrows \/ EndRun
    BY <2>4 DEF TestTypes, testVars, StartNext, StartSettled, StartClients,
        ClientsSettled, StartInitPending, InitPendingSettled, TestsEnd,
        StopClients, ClientsStopped, StopNext, StopSettled, StopTimeout,
        StopHandlerThrows, EndRun
  <2> QED  BY <1>1, <2>1, <2>2, <2>3, <2>4 DEF RunStep
<1>2. ASSUME NEW t \in Tests, TestStep(t) PROVE TestTypes'
  <2>1. CASE ReporterThrows(t)
    BY <2>1, GroupOfType DEF TestTypes, PCs, ReporterThrows, IsNext, Planned
  <2>2. CASE ExecuteTestCase(t)
    BY <2>2 DEF TestTypes, PCs, ExecuteTestCase, IsNext, Planned, Goto
  <2>3. CASE BuildThrows(t)
    <3>1. Planned(t)
      BY <2>3 DEF BuildThrows, IsNext, Planned
    <3>2. pc' = [pc EXCEPT ![t] = "collect"] /\ stepsOk' = [stepsOk EXCEPT ![t] = FALSE]
      BY <2>3 DEF BuildThrows, Goto, Fail
    <3>3. UNCHANGED <<pending, own, stepNo, verdict, rejected>>
      BY <2>3 DEF BuildThrows
    <3> QED  BY <3>1, <3>2, <3>3 DEF TestTypes, PCs
  <2>4. CASE StartPending(t)
    BY <2>4 DEF TestTypes, PCs, StartPending, PendingFails, Fail, Goto
  <2>5. CASE PendingSettled(t)
    BY <2>5 DEF TestTypes, PCs, PendingSettled, PendingFails, Fail, Goto
  <2>6. CASE PendingDone(t)
    BY <2>6 DEF TestTypes, PCs, PendingDone, Goto
  <2>7. CASE RegisterHooks(t)
    BY <2>7 DEF TestTypes, PCs, RegisterHooks, Fail, Goto
  <2>8. CASE StepPasses(t)
    BY <2>8 DEF TestTypes, PCs, StepPasses
  <2>9. CASE StepFails(t)
    BY <2>9 DEF TestTypes, PCs, StepFails, Fail, Goto
  <2>10. CASE StepsDone(t)
    BY <2>10 DEF TestTypes, PCs, StepsDone, Goto
  <2>11. CASE \E c \in Comps : Phase3Clear(t, c)
    BY <2>11 DEF TestTypes, PCs, Phase3Clear, testVars
  <2>12. CASE Phase3Done(t)
    BY <2>12 DEF TestTypes, PCs, Phase3Done, Goto
  <2>13. CASE CollectErrors(t)
    BY <2>13 DEF TestTypes, PCs, CollectErrors, Goto
  <2>14. CASE CleanupNext(t)
    BY <2>14 DEF TestTypes, PCs, CleanupNext, Goto
  <2>15. CASE CleanupSettled(t)
    BY <2>15 DEF TestTypes, PCs, CleanupSettled, Goto
  <2>16. CASE CleanupDone(t)
    BY <2>16 DEF TestTypes, PCs, CleanupDone, Goto
  <2>17. CASE FinishTestCase(t)
    BY <2>17, GroupOfType DEF TestTypes, PCs, FinishTestCase, Goto
  <2>18. CASE WaitBegins(t)
    BY <2>18 DEF TestTypes, PCs, WaitBegins, Fail, Goto
  <2>19. CASE WaitEnds(t)
    <3>1. pc[t] = "wait" /\ Planned(t) /\ stepNo[t] \in 0..NSteps /\ stepNo[t] < NSteps
      BY <2>19 DEF TestTypes, WaitEnds
    <3>2. UNCHANGED <<pending, own, verdict, rejected>>
      BY <2>19 DEF WaitEnds
    <3>3. stepNo' \in [Tests -> 0..NSteps]
      <4>1. stepNo[t] + 1 \in 0..NSteps
        BY <3>1
      <4> QED  BY <2>19, <4>1 DEF TestTypes, WaitEnds
    <3>4. stepsOk' \in [Tests -> BOOLEAN]
      BY <2>19 DEF TestTypes, WaitEnds, Fail
    <3>5. \E l \in {"exec", "clear"} : pc' = [pc EXCEPT ![t] = l]
      BY <2>19 DEF WaitEnds, Goto
    <3>6. \A u \in Tests \ {t} : stepNo'[u] = stepNo[u]
      BY <2>19 DEF TestTypes, WaitEnds
    <3>7. pc' \in [Tests -> PCs]
      BY <3>5 DEF TestTypes, PCs
    <3>8. \A u \in Tests : /\ pc'[u] # "idle" => Planned(u)
                           /\ pc'[u] = "wait" => stepNo'[u] < NSteps
      BY <3>1, <3>5, <3>6 DEF TestTypes
    <3>9. \A u \in Tests : Planned(u)' <=> Planned(u)
      BY DEF Planned
    <3> QED  BY <3>2, <3>3, <3>4, <3>7, <3>8, <3>9 DEF TestTypes
  <2> QED  BY <1>2, <2>1, <2>2, <2>3, <2>4, <2>5, <2>6, <2>7, <2>8, <2>9, <2>10, <2>11,
      <2>12, <2>13, <2>14, <2>15, <2>16, <2>17, <2>18, <2>19 DEF TestStep
<1>3. ASSUME NEW c \in Comps, StartEnds(c) \/ StopEnds(c) \/ RejectWaits(c) PROVE TestTypes'
  BY <1>3 DEF TestTypes, testVars, StartEnds, StopEnds, DoStartOk, DoStartFails,
      DoStopOk, DoStopFails, RejectWaits
<1>4. ASSUME NEW h \in Hooks, NEW c \in Comps, HandlerStep(h, c) PROVE TestTypes'
  BY <1>4 DEF TestTypes, testVars, HandlerStep, HandlerBegins, HandlerPasses,
      HandlerFails, HandlerDrops, Reject
<1>5. CASE UNCHANGED vars
  BY <1>5 DEF TestTypes, testVars, vars
<1> QED  BY <1>1, <1>2, <1>3, <1>4, <1>5 DEF Next

LEMMA TypeInvariant == Spec => []TypeInv
<1>1. Init => TypeInv
  <2> SUFFICES ASSUME Init PROVE TypeInv
    OBVIOUS
  <2>1. RunTypes
    <3>1. phase \in Phases /\ (phase = "stopWait" => at > 0)
      BY DEF Init, Phases
    <3>2. at \in Nat
      BY DEF Init
    <3>3. runs \in 0..MaxRuns
      BY ConstantTypes DEF Init
    <3>4. initError \in BOOLEAN
      BY DEF Init
    <3>5. result \in {"none", "passed", "failed"} /\ initQueue \subseteq Dynamic
      BY DEF Init
    <3> QED  BY <3>1, <3>2, <3>3, <3>4, <3>5 DEF RunTypes
  <2>2. ComponentTypes
    BY ConstantTypes DEF Init, ComponentTypes, CStates
  <2>3. TestTypes
    BY ConstantTypes DEF Init, TestTypes, PCs
  <2> QED  BY <2>1, <2>2, <2>3 DEF TypeInv
<1>2. TypeInv /\ [Next]_vars => TypeInv'
  BY RunTypesKept, ComponentTypesKept, TestTypesKept DEF TypeInv
<1> QED  BY <1>1, <1>2, PTL DEF Spec

\* Every variable keeps its type, for any scenario: the index of the ordered
\* stop never goes below 0 and every rejected group is one of run()'s.
THEOREM ScenarioTypeCorrect == Spec => []TypeOK
<1>1. TypeInv => TypeOK
  BY DEF TypeInv, RunTypes, ComponentTypes, TestTypes, TypeOK
<1> QED  BY <1>1, TypeInvariant, PTL

\* HooksScoped with the types that a step needs.
HooksInv ==
  /\ pc \in [Tests -> PCs]
  /\ hooks \in [Comps -> SUBSET Hooks]
  /\ HooksScoped

\* A hook is registered by a test case about to execute, and a test case gets
\* past Phase 3 only without hooks; a new run begins only when no test case is
\* between the two.
LEMMA HooksInvInductive == HooksInv /\ [Next]_vars => HooksInv'
<1> SUFFICES ASSUME HooksInv, [Next]_vars PROVE HooksInv'
  OBVIOUS
<1>1. CASE RunStep
  <2>1. CASE BeginRun
    <3>1. /\ \A t \in Tests : pc[t] \in {"idle", "done"}
          /\ pc' = [u \in Tests |-> "idle"]
          /\ hooks' = [c \in Comps |-> IF c \in Config THEN hooks[c] \cup {<<InitHook, 0>>} ELSE hooks[c]]
      BY <2>1 DEF BeginRun, CanRun, NewTests
    <3>2. \A c \in Comps : \A h \in hooks[c] : h[1] \notin Tests
      BY <3>1 DEF HooksInv, HooksScoped
    <3>3. <<InitHook, 0>> \in Hooks /\ <<InitHook, 0>>[1] \notin Tests
      BY ScenarioAssumption DEF Hooks
    <3>4. hooks' \in [Comps -> SUBSET Hooks]
      BY <3>1, <3>3 DEF HooksInv
    <3>5. pc' \in [Tests -> PCs]
      <4>1. "idle" \in PCs
        BY DEF PCs
      <4> QED  BY <3>1, <4>1
    <3> QED  BY <3>1, <3>2, <3>3, <3>4, <3>5 DEF HooksInv, HooksScoped
  <2>2. CASE InitHandlerThrows
    BY <2>2, ScenarioAssumption DEF HooksInv, HooksScoped, Hooks, Without, HooksOf, PCs, runVars,
        testVars, InitHandlerThrows, CanRun, NewTests, IsNext, Returned
  <2>3. CASE StartNext
    BY <2>3, ScenarioAssumption DEF HooksInv, HooksScoped, Hooks, Without, HooksOf, PCs, runVars,
        testVars, StartNext, InitFails
  <2>4. CASE StartSettled
    BY <2>4, ScenarioAssumption DEF HooksInv, HooksScoped, Hooks, Without, HooksOf, PCs, runVars,
        testVars, StartSettled, InitFails
  <2>5. CASE StartClients
    BY <2>5, ScenarioAssumption DEF HooksInv, HooksScoped, Hooks, Without, HooksOf, PCs, runVars,
        testVars, StartClients, InitFails
  <2>6. CASE ClientsSettled
    BY <2>6, ScenarioAssumption DEF HooksInv, HooksScoped, Hooks, Without, HooksOf, PCs, runVars,
        testVars, ClientsSettled, InitFails
  <2>7. CASE StartInitPending
    BY <2>7, ScenarioAssumption DEF HooksInv, HooksScoped, Hooks, Without, HooksOf, PCs, runVars,
        testVars, StartInitPending, InitFails
  <2>8. CASE InitPendingSettled
    BY <2>8, ScenarioAssumption DEF HooksInv, HooksScoped, Hooks, Without, HooksOf, PCs, runVars,
        testVars, InitPendingSettled, InitFails
  <2>9. CASE TestsEnd
    BY <2>9, ScenarioAssumption DEF HooksInv, HooksScoped, Hooks, Without, HooksOf, PCs, runVars,
        testVars, TestsEnd
  <2>10. CASE StopClients
    BY <2>10, ScenarioAssumption DEF HooksInv, HooksScoped, Hooks, Without, HooksOf, PCs, runVars,
        testVars, StopClients
  <2>11. CASE ClientsStopped
    BY <2>11, ScenarioAssumption DEF HooksInv, HooksScoped, Hooks, Without, HooksOf, PCs, runVars,
        testVars, ClientsStopped
  <2>12. CASE StopNext
    BY <2>12, ScenarioAssumption DEF HooksInv, HooksScoped, Hooks, Without, HooksOf, PCs, runVars,
        testVars, StopNext
  <2>13. CASE StopSettled
    BY <2>13, ScenarioAssumption DEF HooksInv, HooksScoped, Hooks, Without, HooksOf, PCs, runVars,
        testVars, StopSettled
  <2>14. CASE StopTimeout
    BY <2>14, ScenarioAssumption DEF HooksInv, HooksScoped, Hooks, Without, HooksOf, PCs, runVars,
        testVars, StopTimeout
  <2>15. CASE EndRun
    BY <2>15, ScenarioAssumption DEF HooksInv, HooksScoped, Hooks, Without, HooksOf, PCs, runVars,
        testVars, EndRun
  <2>16. CASE RunAgain
    BY <2>16, ScenarioAssumption DEF HooksInv, HooksScoped, Hooks, Without, HooksOf, PCs, runVars,
        testVars, RunAgain, CanRun, NewTests, IsNext, Returned
  <2>17. CASE StopHandlerThrows
    BY <2>17, ScenarioAssumption DEF HooksInv, HooksScoped, Hooks, Without, HooksOf, PCs, runVars,
        testVars, StopHandlerThrows
  <2> QED  BY <1>1, <2>1, <2>2, <2>3, <2>4, <2>5, <2>6, <2>7, <2>8, <2>9, <2>10, <2>11,
      <2>12, <2>13, <2>14, <2>15, <2>16, <2>17 DEF RunStep
<1>2. ASSUME NEW t \in Tests, TestStep(t) PROVE HooksInv'
  <2>1. CASE ReporterThrows(t)
    BY <2>1 DEF HooksInv, HooksScoped, Hooks, Without, HooksOf, PCs, runVars, testVars, ReporterThrows
  <2>2. CASE ExecuteTestCase(t)
    BY <2>2 DEF HooksInv, HooksScoped, Hooks, Without, HooksOf, PCs, runVars, testVars, ExecuteTestCase,
        Goto, IsNext
  <2>3. CASE BuildThrows(t)
    BY <2>3 DEF HooksInv, HooksScoped, Hooks, Without, HooksOf, PCs, runVars, testVars, BuildThrows, Goto,
        IsNext
  <2>4. CASE StartPending(t)
    BY <2>4 DEF HooksInv, HooksScoped, Hooks, Without, HooksOf, PCs, runVars, testVars, StartPending,
        Goto, PendingFails
  <2>5. CASE PendingSettled(t)
    BY <2>5 DEF HooksInv, HooksScoped, Hooks, Without, HooksOf, PCs, runVars, testVars, PendingSettled,
        Goto, PendingFails
  <2>6. CASE PendingDone(t)
    BY <2>6 DEF HooksInv, HooksScoped, Hooks, Without, HooksOf, PCs, runVars, testVars, PendingDone, Goto
  <2>7. CASE RegisterHooks(t)
    <3>1. /\ pc[t] = "hooks" /\ \E l \in {"exec", "clear"} : pc' = [pc EXCEPT ![t] = l]
          /\ hooks' = [c \in Comps |-> IF c \in Uses[t] THEN hooks[c] \cup HooksOf(t, c) ELSE hooks[c]]
      BY <2>7 DEF RegisterHooks, Goto
    <3>2. \A c \in Comps : HooksOf(t, c) \subseteq Hooks /\ \A h \in HooksOf(t, c) : h[1] = t
      BY HooksOfType
    <3>3. hooks' \in [Comps -> SUBSET Hooks]
      BY <3>1, <3>2 DEF HooksInv
    <3>4. pc' \in [Tests -> PCs] /\ pc'[t] \in {"exec", "wait", "clear"} /\ \A u \in Tests \ {t} : pc'[u] = pc[u]
      BY <3>1 DEF HooksInv, PCs
    <3> QED  BY <3>1, <3>2, <3>3, <3>4 DEF HooksInv, HooksScoped
  <2>8. CASE StepPasses(t)
    BY <2>8 DEF HooksInv, HooksScoped, Hooks, Without, HooksOf, PCs, runVars, testVars, StepPasses
  <2>9. CASE StepFails(t)
    BY <2>9 DEF HooksInv, HooksScoped, Hooks, Without, HooksOf, PCs, runVars, testVars, StepFails, Goto
  <2>10. CASE StepsDone(t)
    BY <2>10 DEF HooksInv, HooksScoped, Hooks, Without, HooksOf, PCs, runVars, testVars, StepsDone, Goto
  <2>11. CASE \E c \in Comps : Phase3Clear(t, c)
    BY <2>11 DEF HooksInv, HooksScoped, Hooks, Without, HooksOf, PCs, runVars, testVars, Phase3Clear
  <2>12. CASE Phase3Done(t)
    BY <2>12 DEF HooksInv, HooksScoped, Hooks, Without, HooksOf, PCs, runVars, testVars, Phase3Done, Goto
  <2>13. CASE CollectErrors(t)
    BY <2>13 DEF HooksInv, HooksScoped, Hooks, Without, HooksOf, PCs, runVars, testVars, CollectErrors, Goto
  <2>14. CASE CleanupNext(t)
    BY <2>14 DEF HooksInv, HooksScoped, Hooks, Without, HooksOf, PCs, runVars, testVars, CleanupNext, Goto
  <2>15. CASE CleanupSettled(t)
    BY <2>15 DEF HooksInv, HooksScoped, Hooks, Without, HooksOf, PCs, runVars, testVars, CleanupSettled, Goto
  <2>16. CASE CleanupDone(t)
    BY <2>16 DEF HooksInv, HooksScoped, Hooks, Without, HooksOf, PCs, runVars, testVars, CleanupDone, Goto
  <2>17. CASE FinishTestCase(t)
    BY <2>17 DEF HooksInv, HooksScoped, Hooks, Without, HooksOf, PCs, runVars, testVars, FinishTestCase, Goto
  <2>18. CASE WaitBegins(t)
    BY <2>18 DEF HooksInv, HooksScoped, Hooks, Without, HooksOf, PCs, runVars, testVars, WaitBegins, Goto, Fail
  <2>19. CASE WaitEnds(t)
    BY <2>19 DEF HooksInv, HooksScoped, Hooks, Without, HooksOf, PCs, runVars, testVars, WaitEnds, Goto, Fail
  <2> QED  BY <1>2, <2>1, <2>2, <2>3, <2>4, <2>5, <2>6, <2>7, <2>8, <2>9, <2>10, <2>11,
      <2>12, <2>13, <2>14, <2>15, <2>16, <2>17, <2>18, <2>19 DEF TestStep
<1>3. ASSUME NEW c \in Comps, StartEnds(c) \/ StopEnds(c) \/ RejectWaits(c) PROVE HooksInv'
  BY <1>3 DEF HooksInv, HooksScoped, Hooks, Without, HooksOf, PCs, runVars, testVars, StartEnds, StopEnds,
      DoStartOk, DoStartFails, DoStopOk, DoStopFails, RejectWaits
<1>4. ASSUME NEW h \in Hooks, NEW c \in Comps, HandlerStep(h, c) PROVE HooksInv'
  BY <1>4 DEF HooksInv, HooksScoped, Hooks, Without, HooksOf, PCs, runVars, testVars, HandlerStep,
      HandlerBegins, HandlerPasses, HandlerFails, HandlerDrops, Reject
<1>5. CASE UNCHANGED vars
  BY <1>5 DEF HooksInv, HooksScoped, Hooks, Without, HooksOf, PCs, runVars, testVars, vars
<1> QED  BY <1>1, <1>2, <1>3, <1>4, <1>5 DEF Next

\* No test case that left Phase 3 has a hook in any component.
THEOREM HooksAlwaysScoped == Spec => []HooksScoped
<1>1. Init => HooksInv
  BY DEF Init, HooksInv, HooksScoped, Hooks, Without, HooksOf, PCs
<1>2. HooksInv => HooksScoped
  BY DEF HooksInv
<1> QED  BY <1>1, <1>2, HooksInvInductive, PTL DEF Spec

\* What a step does to hooks: the ones that go belong to a stopping component,
\* to the test case that clears them or whose wait ends, or were rejected.
KeepsHooks ==
  \A c \in Comps : \A h \in hooks[c] \ hooks'[c] :
    \/ cst[c] = "stopping" \/ Rejected(h, c)
    \/ h[1] \in Tests /\ pc[h[1]] \in {"clear", "final"}
    \/ h[1] \in Tests /\ pc[h[1]] = "wait" /\ h = OwnWait(h[1])

\* Every step keeps the hooks of the others: only clearHooks(testCaseId), doStop,
\* the end of a wait and a rejection remove any.
LEMMA StepKeepsHooks == HooksInv /\ [Next]_vars => KeepsHooks
<1> SUFFICES ASSUME HooksInv, [Next]_vars PROVE KeepsHooks
  OBVIOUS
<1>1. CASE RunStep
  <2>1. CASE BeginRun
    BY <2>1, ScenarioAssumption DEF HooksInv, KeepsHooks, Hooks, Without, PCs, runVars, testVars,
        BeginRun, CanRun, NewTests, IsNext, Returned
  <2>2. CASE InitHandlerThrows
    BY <2>2, ScenarioAssumption DEF HooksInv, KeepsHooks, Hooks, Without, PCs, runVars, testVars,
        InitHandlerThrows, CanRun, NewTests, IsNext, Returned
  <2>3. CASE StartNext
    BY <2>3, ScenarioAssumption DEF HooksInv, KeepsHooks, Hooks, Without, PCs, runVars, testVars,
        StartNext, InitFails
  <2>4. CASE StartSettled
    BY <2>4, ScenarioAssumption DEF HooksInv, KeepsHooks, Hooks, Without, PCs, runVars, testVars,
        StartSettled, InitFails
  <2>5. CASE StartClients
    BY <2>5, ScenarioAssumption DEF HooksInv, KeepsHooks, Hooks, Without, PCs, runVars, testVars,
        StartClients, InitFails
  <2>6. CASE ClientsSettled
    BY <2>6, ScenarioAssumption DEF HooksInv, KeepsHooks, Hooks, Without, PCs, runVars, testVars,
        ClientsSettled, InitFails
  <2>7. CASE StartInitPending
    BY <2>7, ScenarioAssumption DEF HooksInv, KeepsHooks, Hooks, Without, PCs, runVars, testVars,
        StartInitPending, InitFails
  <2>8. CASE InitPendingSettled
    BY <2>8, ScenarioAssumption DEF HooksInv, KeepsHooks, Hooks, Without, PCs, runVars, testVars,
        InitPendingSettled, InitFails
  <2>9. CASE TestsEnd
    BY <2>9, ScenarioAssumption DEF HooksInv, KeepsHooks, Hooks, Without, PCs, runVars, testVars,
        TestsEnd
  <2>10. CASE StopClients
    BY <2>10, ScenarioAssumption DEF HooksInv, KeepsHooks, Hooks, Without, PCs, runVars,
        testVars, StopClients
  <2>11. CASE ClientsStopped
    BY <2>11, ScenarioAssumption DEF HooksInv, KeepsHooks, Hooks, Without, PCs, runVars,
        testVars, ClientsStopped
  <2>12. CASE StopNext
    BY <2>12, ScenarioAssumption DEF HooksInv, KeepsHooks, Hooks, Without, PCs, runVars,
        testVars, StopNext
  <2>13. CASE StopSettled
    BY <2>13, ScenarioAssumption DEF HooksInv, KeepsHooks, Hooks, Without, PCs, runVars,
        testVars, StopSettled
  <2>14. CASE StopTimeout
    BY <2>14, ScenarioAssumption DEF HooksInv, KeepsHooks, Hooks, Without, PCs, runVars,
        testVars, StopTimeout
  <2>15. CASE EndRun
    BY <2>15, ScenarioAssumption DEF HooksInv, KeepsHooks, Hooks, Without, PCs, runVars,
        testVars, EndRun
  <2>16. CASE RunAgain
    BY <2>16, ScenarioAssumption DEF HooksInv, KeepsHooks, Hooks, Without, PCs, runVars,
        testVars, RunAgain, CanRun, NewTests, IsNext, Returned
  <2>17. CASE StopHandlerThrows
    BY <2>17, ScenarioAssumption DEF HooksInv, KeepsHooks, Hooks, Without, PCs, runVars,
        testVars, StopHandlerThrows
  <2> QED  BY <1>1, <2>1, <2>2, <2>3, <2>4, <2>5, <2>6, <2>7, <2>8, <2>9, <2>10, <2>11,
      <2>12, <2>13, <2>14, <2>15, <2>16, <2>17 DEF RunStep
<1>2. ASSUME NEW t \in Tests, TestStep(t) PROVE KeepsHooks
  <2>1. CASE ReporterThrows(t)
    BY <2>1 DEF HooksInv, KeepsHooks, Hooks, Without, PCs, runVars, testVars, ReporterThrows
  <2>2. CASE ExecuteTestCase(t)
    BY <2>2 DEF HooksInv, KeepsHooks, Hooks, Without, PCs, runVars, testVars, ExecuteTestCase,
        Goto, IsNext
  <2>3. CASE BuildThrows(t)
    BY <2>3 DEF HooksInv, KeepsHooks, Hooks, Without, PCs, runVars, testVars, BuildThrows, Goto,
        IsNext
  <2>4. CASE StartPending(t)
    BY <2>4 DEF HooksInv, KeepsHooks, Hooks, Without, PCs, runVars, testVars, StartPending, Goto,
        PendingFails
  <2>5. CASE PendingSettled(t)
    BY <2>5 DEF HooksInv, KeepsHooks, Hooks, Without, PCs, runVars, testVars, PendingSettled,
        Goto, PendingFails
  <2>6. CASE PendingDone(t)
    BY <2>6 DEF HooksInv, KeepsHooks, Hooks, Without, PCs, runVars, testVars, PendingDone, Goto
  <2>7. CASE RegisterHooks(t)
    BY <2>7 DEF HooksInv, KeepsHooks, Hooks, Without, PCs, runVars, testVars, RegisterHooks, Goto
  <2>8. CASE StepPasses(t)
    BY <2>8 DEF HooksInv, KeepsHooks, Hooks, Without, PCs, runVars, testVars, StepPasses
  <2>9. CASE StepFails(t)
    BY <2>9 DEF HooksInv, KeepsHooks, Hooks, Without, PCs, runVars, testVars, StepFails, Goto
  <2>10. CASE StepsDone(t)
    BY <2>10 DEF HooksInv, KeepsHooks, Hooks, Without, PCs, runVars, testVars, StepsDone, Goto
  <2>11. CASE \E c \in Comps : Phase3Clear(t, c)
    BY <2>11 DEF HooksInv, KeepsHooks, Hooks, Without, PCs, runVars, testVars, Phase3Clear
  <2>12. CASE Phase3Done(t)
    BY <2>12 DEF HooksInv, KeepsHooks, Hooks, Without, PCs, runVars, testVars, Phase3Done, Goto
  <2>13. CASE CollectErrors(t)
    BY <2>13 DEF HooksInv, KeepsHooks, Hooks, Without, PCs, runVars, testVars, CollectErrors, Goto
  <2>14. CASE CleanupNext(t)
    BY <2>14 DEF HooksInv, KeepsHooks, Hooks, Without, PCs, runVars, testVars, CleanupNext, Goto
  <2>15. CASE CleanupSettled(t)
    BY <2>15 DEF HooksInv, KeepsHooks, Hooks, Without, PCs, runVars, testVars, CleanupSettled, Goto
  <2>16. CASE CleanupDone(t)
    BY <2>16 DEF HooksInv, KeepsHooks, Hooks, Without, PCs, runVars, testVars, CleanupDone, Goto
  <2>17. CASE FinishTestCase(t)
    BY <2>17 DEF HooksInv, KeepsHooks, Hooks, Without, PCs, runVars, testVars, FinishTestCase, Goto
  <2>18. CASE WaitBegins(t)
    BY <2>18 DEF HooksInv, KeepsHooks, Hooks, Without, PCs, runVars, testVars, WaitBegins, Goto, Fail
  <2>19. CASE WaitEnds(t)
    BY <2>19 DEF HooksInv, KeepsHooks, OwnWait, WaitEnds, Goto, Fail
  <2> QED  BY <1>2, <2>1, <2>2, <2>3, <2>4, <2>5, <2>6, <2>7, <2>8, <2>9, <2>10, <2>11,
      <2>12, <2>13, <2>14, <2>15, <2>16, <2>17, <2>18, <2>19 DEF TestStep
<1>3. ASSUME NEW c \in Comps, StartEnds(c) \/ StopEnds(c) \/ RejectWaits(c) PROVE KeepsHooks
  BY <1>3 DEF HooksInv, KeepsHooks, Rejected, IsWait, runVars, testVars, StartEnds, StopEnds,
      DoStartOk, DoStartFails, DoStopOk, DoStopFails, RejectWaits
<1>4. ASSUME NEW h \in Hooks, NEW c \in Comps, HandlerStep(h, c) PROVE KeepsHooks
  BY <1>4 DEF HooksInv, KeepsHooks, Rejected, runVars, testVars, HandlerStep,
      HandlerBegins, HandlerPasses, HandlerFails, HandlerDrops, Reject
<1>5. CASE UNCHANGED vars
  BY <1>5 DEF HooksInv, KeepsHooks, Hooks, Without, PCs, runVars, testVars, vars
<1> QED  BY <1>1, <1>2, <1>3, <1>4, <1>5 DEF Next

\* No test case takes a hook of another one's step or a persistent one: these
\* go only with their owner's clearHooks or when their component stops.  The hook
\* of a wait goes with its wait, too, or when a handler of its own or the loss of
\* its component's connection rejects it (rejectHook), which another test case
\* may cause.
THEOREM HooksKept == Spec => HooksLostOnlyByOwner
<1>1. Init => HooksInv
  BY DEF Init, HooksInv, HooksScoped, Hooks, Without, HooksOf, PCs
<1> QED  BY <1>1, HooksInvInductive, StepKeepsHooks, PTL DEF Spec, HooksLostOnlyByOwner,
    KeepsHooks

-----------------------------------------------------------------------------
(* What the test cases bring in                                            *)

\* The test cases execute only in a run that got to them, and the components
\* they start or stop are those they brought in; so are the init handler's.
BroughtInv ==
  /\ ~ReachedTests => \A t \in Tests : pc[t] = "idle"
  /\ phase \in {"start", "startWait"} => at > 0
  /\ initQueue \subseteq InSeq(InitBrings)
  /\ phase = "initWait" => initQueue # {}
  /\ \A t \in Tests :
       /\ pending[t] \subseteq own[t] /\ own[t] \subseteq InSeq(Brings[t])
       /\ pc[t] \in {"pendingWait", "cleanupWait"} => pending[t] # {}
       /\ pc[t] = "idle" => own[t] = {}

\* The loops over components find the next one.
LEMMA FirstInType ==
  ASSUME NEW X, NEW q \in Seq(X), NEW S \in SUBSET InSeq(q), S # {}
  PROVE  FirstIn(q, S) \in S
<1> DEFINE I == {i \in DOMAIN q : q[i] \in S}
           Less == {p \in Nat \X Nat : p[1] < p[2]}
<1>1. I # {} /\ I \subseteq Nat /\ DOMAIN q = 1..Len(q) /\ Len(q) \in Nat
  BY DEF InSeq
<1>2. IsWellFoundedOn(Less, Nat)
  BY NatLessThanWellFounded DEF OpToRel
<1> HIDE DEF Less
<1>3. PICK i \in I : \A j \in I : ~(<<j, i>> \in Less)
  BY <1>1, <1>2, WFMin
<1>4. \A j \in 1..(i - 1) : q[j] \notin S
  <2> SUFFICES ASSUME NEW j \in 1..(i - 1), q[j] \in S PROVE FALSE
    OBVIOUS
  <2>1. i \in Nat /\ i \in DOMAIN q
    BY <1>1
  <2>2. j \in I
    BY <1>1, <2>1
  <2>3. <<j, i>> \in Nat \X Nat /\ <<j, i>>[1] < <<j, i>>[2]
    BY <2>1
  <2>4. <<j, i>> \in Less
    BY <2>3, Zenon DEF Less
  <2> QED  BY <1>3, <2>2, <2>4
<1>5. \E k \in DOMAIN q : q[k] \in S /\ \A j \in 1..(k - 1) : q[j] \notin S
  BY <1>4
<1> HIDE DEF I
<1>6. q[CHOOSE k \in DOMAIN q : q[k] \in S /\ \A j \in 1..(k - 1) : q[j] \notin S] \in S
  BY <1>5
<1> QED  BY <1>6 DEF FirstIn

LEMMA NextPendingType ==
  ASSUME BroughtInv, NEW t \in Tests, pending[t] # {}
  PROVE  NextPending(t) \in pending[t]
  BY FirstInType, ScenarioAssumption DEF BroughtInv, NextPending

LEMMA NextInitType ==
  ASSUME BroughtInv, initQueue # {}
  PROVE  NextInit \in initQueue
  BY FirstInType, ScenarioAssumption DEF BroughtInv, NextInit

\* A test case is executed only after its run got to the test cases.
LEMMA BroughtInvInductive ==
  TypeInv /\ BroughtInv /\ [Next]_vars => BroughtInv'
<1> SUFFICES ASSUME TypeInv, BroughtInv, [Next]_vars PROVE BroughtInv'
  OBVIOUS
<1>a. /\ pc \in [Tests -> PCs] /\ at \in Nat /\ pending \in [Tests -> SUBSET Dynamic]
      /\ own \in [Tests -> SUBSET Dynamic]
  BY DEF TypeInv, TestTypes, RunTypes
<1>1. CASE RunStep
  <2>1. CASE BeginRun
    BY <2>1, <1>a DEF BroughtInv, ReachedTests, runVars, testVars, BeginRun, CanRun,
        Returned, NewTests
  <2>2. CASE InitHandlerThrows
    BY <2>2, <1>a DEF BroughtInv, ReachedTests, runVars, testVars,
        InitHandlerThrows, CanRun, Returned, NewTests
  <2>3. CASE RunAgain
    BY <2>3, <1>a DEF BroughtInv, ReachedTests, runVars, testVars, RunAgain, CanRun,
        Returned, NewTests, Initialized
  <2>4. CASE StartNext
    BY <2>4, <1>a DEF BroughtInv, ReachedTests, runVars, testVars, StartNext,
        InitFails, CanStart
  <2>5. CASE StartSettled
    BY <2>5, <1>a DEF BroughtInv, ReachedTests, runVars, testVars, StartSettled,
        InitFails
  <2>6. CASE StartClients
    BY <2>6, <1>a DEF BroughtInv, ReachedTests, runVars, testVars, StartClients,
        InitFails, CanStart
  <2>7. CASE ClientsSettled
    BY <2>7, <1>a DEF BroughtInv, ReachedTests, runVars, testVars, ClientsSettled,
        InitFails
  <2>8. CASE StartInitPending
    BY <2>8, <1>a DEF BroughtInv, ReachedTests, runVars, testVars, StartInitPending,
        InitFails, CanStart
  <2>9. CASE InitPendingSettled
    BY <2>9, <1>a DEF BroughtInv, ReachedTests, runVars, testVars,
        InitPendingSettled, InitFails
  <2>10. CASE TestsEnd
    BY <2>10, <1>a DEF BroughtInv, ReachedTests, runVars, testVars, TestsEnd
  <2>11. CASE StopClients
    BY <2>11, <1>a DEF BroughtInv, ReachedTests, runVars, testVars, StopClients,
        CanStop
  <2>12. CASE ClientsStopped
    BY <2>12, <1>a DEF BroughtInv, ReachedTests, runVars, testVars, ClientsStopped
  <2>13. CASE StopNext
    BY <2>13, <1>a DEF BroughtInv, ReachedTests, runVars, testVars, StopNext,
        CanStop
  <2>14. CASE StopSettled
    BY <2>14, <1>a DEF BroughtInv, ReachedTests, runVars, testVars, StopSettled
  <2>15. CASE StopTimeout
    BY <2>15, <1>a DEF BroughtInv, ReachedTests, runVars, testVars, StopTimeout
  <2>16. CASE StopHandlerThrows
    BY <2>16, <1>a DEF BroughtInv, ReachedTests, runVars, testVars,
        StopHandlerThrows
  <2>17. CASE EndRun
    BY <2>17, <1>a DEF BroughtInv, ReachedTests, runVars, testVars, EndRun
  <2> QED  BY <1>1, <2>1, <2>2, <2>3, <2>4, <2>5, <2>6, <2>7, <2>8, <2>9, <2>10,
      <2>11, <2>12, <2>13, <2>14, <2>15, <2>16, <2>17 DEF RunStep
<1>2. ASSUME NEW t \in Tests, TestStep(t) PROVE BroughtInv'
  <2>1. CASE ReporterThrows(t)
    BY <2>1, <1>a DEF BroughtInv, ReachedTests, runVars, testVars, ReporterThrows,
        IsNext
  <2>2. CASE ExecuteTestCase(t)
    BY <2>2, <1>a DEF BroughtInv, ReachedTests, runVars, testVars, ExecuteTestCase,
        IsNext, Goto, ClearedErrs
  <2>3. CASE BuildThrows(t)
    BY <2>3, <1>a DEF BroughtInv, ReachedTests, runVars, testVars, BuildThrows,
        IsNext, Goto, Fail, ClearedErrs
  <2>4. CASE StartPending(t)
    BY <2>4, <1>a DEF BroughtInv, ReachedTests, runVars, testVars, StartPending,
        Goto, PendingFails, Fail, CanStart
  <2>5. CASE PendingSettled(t)
    BY <2>5, <1>a DEF BroughtInv, ReachedTests, runVars, testVars, PendingSettled,
        Goto, PendingFails, Fail
  <2>6. CASE PendingDone(t)
    BY <2>6, <1>a DEF BroughtInv, ReachedTests, runVars, testVars, PendingDone, Goto
  <2>7. CASE RegisterHooks(t)
    BY <2>7, <1>a DEF BroughtInv, ReachedTests, runVars, testVars, RegisterHooks,
        Goto, Fail
  <2>8. CASE StepPasses(t)
    BY <2>8, <1>a DEF BroughtInv, ReachedTests, runVars, testVars, StepPasses
  <2>9. CASE StepFails(t)
    BY <2>9, <1>a DEF BroughtInv, ReachedTests, runVars, testVars, StepFails, Goto,
        Fail
  <2>10. CASE StepsDone(t)
    BY <2>10, <1>a DEF BroughtInv, ReachedTests, runVars, testVars, StepsDone, Goto
  <2>11. CASE (\E c \in Comps : Phase3Clear(t, c))
    BY <2>11, <1>a DEF BroughtInv, ReachedTests, runVars, testVars, Phase3Clear
  <2>12. CASE Phase3Done(t)
    BY <2>12, <1>a DEF BroughtInv, ReachedTests, runVars, testVars, Phase3Done, Goto
  <2>13. CASE CollectErrors(t)
    BY <2>13, <1>a DEF BroughtInv, ReachedTests, runVars, testVars, CollectErrors,
        Goto
  <2>14. CASE CleanupNext(t)
    BY <2>14, <1>a DEF BroughtInv, ReachedTests, runVars, testVars, CleanupNext,
        Goto, CanStop
  <2>15. CASE CleanupSettled(t)
    BY <2>15, <1>a DEF BroughtInv, ReachedTests, runVars, testVars, CleanupSettled,
        Goto
  <2>16. CASE CleanupDone(t)
    BY <2>16, <1>a DEF BroughtInv, ReachedTests, runVars, testVars, CleanupDone,
        Goto
  <2>17. CASE FinishTestCase(t)
    BY <2>17, <1>a DEF BroughtInv, ReachedTests, runVars, testVars, FinishTestCase,
        Goto
  <2>18. CASE WaitBegins(t)
    BY <2>18, <1>a DEF BroughtInv, ReachedTests, runVars, testVars, WaitBegins, Goto,
        Fail
  <2>19. CASE WaitEnds(t)
    BY <2>19, <1>a DEF BroughtInv, ReachedTests, runVars, testVars, WaitEnds, Goto,
        Fail
  <2> QED  BY <1>2, <2>1, <2>2, <2>3, <2>4, <2>5, <2>6, <2>7, <2>8, <2>9, <2>10,
      <2>11, <2>12, <2>13, <2>14, <2>15, <2>16, <2>17, <2>18, <2>19 DEF TestStep
<1>3. ASSUME NEW c \in Comps, StartEnds(c) \/ StopEnds(c) \/ RejectWaits(c) PROVE BroughtInv'
  BY <1>3, <1>a DEF BroughtInv, ReachedTests, runVars, testVars, StartEnds,
      StopEnds, DoStartOk, DoStartFails, DoStopOk, DoStopFails, RejectWaits
<1>4. ASSUME NEW h \in Hooks, NEW c \in Comps, HandlerStep(h, c) PROVE BroughtInv'
  BY <1>4, <1>a DEF BroughtInv, ReachedTests, runVars, testVars, HandlerStep,
      HandlerBegins, HandlerPasses, HandlerFails, HandlerDrops, Reject
<1>5. CASE UNCHANGED vars
  BY <1>5, <1>a DEF BroughtInv, ReachedTests, runVars, testVars, vars
<1> QED  BY <1>1, <1>2, <1>3, <1>4, <1>5 DEF Next

-----------------------------------------------------------------------------
(* What the end of run() leaves behind                                     *)

\* Between two runs and while one stops, no configured component is starting;
\* the Clients are stopped first and then the others from the last one on.
StoppingInv ==
  /\ phase # "left"
  /\ \A c \in Config : cst[c] = "starting" =>
       \/ phase = "startWait" /\ c = Ordered[at]
       \/ phase = "clientsWait" /\ c \in Clients
  /\ phase \in {"clientsStopping", "stopOrdered", "stopWait", "done"} =>
       \A c \in Clients : cst[c] # "started"
  /\ phase = "clientsStopping" => at = Len(Ordered)
  /\ phase \in {"stopOrdered", "stopWait", "done"} =>
       /\ at <= Len(Ordered)
       /\ \A j \in DOMAIN Ordered : j > at => cst[Ordered[j]] # "started"
  /\ phase = "stopWait" => at > 0 /\ cst[Ordered[at]] # "started"
  /\ phase = "done" => at = 0

\* The hypothesis: no Client starts while another fails, and the stop handler
\* does not throw.
StopsAll == (\A c, d \in Clients : c = d) /\ StopMayThrow = FALSE

\* The configured components move only as start() and stop() end.
LEMMA StoppingEnds ==
  ASSUME StoppingInv, UNCHANGED <<phase, at>>,
         at \in Nat, DOMAIN Ordered = 1..Len(Ordered), Len(Ordered) \in Nat,
         \A j \in DOMAIN Ordered : Ordered[j] \in Config, Clients \subseteq Config,
         \A d \in Config :
           \/ cst'[d] = cst[d]
           \/ cst[d] = "starting" /\ cst'[d] \in {"started", "error"}
           \/ cst[d] = "stopping" /\ cst'[d] \in {"stopped", "error"}
  PROVE  StoppingInv'
<1>1. phase = "stopWait" => at \in DOMAIN Ordered
  BY DEF StoppingInv
<1>2. \A d \in Config : cst'[d] = "starting" => cst[d] = "starting"
  OBVIOUS
<1>3. phase \notin {"startWait", "clientsWait"} =>
        \A d \in Config : cst'[d] = "started" => cst[d] = "started"
  BY DEF StoppingInv
<1> QED  BY <1>1, <1>2, <1>3 DEF StoppingInv

\* A stop() is refused only to what is not running, for a start ended before.
LEMMA StoppingInvInductive ==
  ASSUME StopsAll
  PROVE  TypeInv /\ BroughtInv /\ StoppingInv /\ [Next]_vars => StoppingInv'
<1> SUFFICES ASSUME TypeInv, BroughtInv, StoppingInv, [Next]_vars PROVE StoppingInv'
  OBVIOUS
<1>a. cst \in [Comps -> CStates] /\ at \in Nat /\ Config \subseteq Comps
  BY ConstantTypes DEF TypeInv, ComponentTypes, RunTypes
<1>b. Len(Ordered) \in Nat /\ DOMAIN Ordered = 1..Len(Ordered)
  BY ScenarioAssumption DEF Ordered
<1>c. \A j \in DOMAIN Ordered : Ordered[j] \in Config
  BY <1>b DEF Config, Listed
<1>d. Clients \subseteq Config /\ Config \cap Dynamic = {}
  BY ScenarioAssumption DEF Config
<1>e. \A c \in Config : c \in Clients \/ \E j \in DOMAIN Ordered : Ordered[j] = c
  BY <1>b DEF Config, Listed
<1>f. initQueue \subseteq Dynamic /\ \A t \in Tests : pending[t] \subseteq Dynamic
  BY DEF TypeInv, RunTypes, TestTypes
<1>g. StopMayThrow = FALSE /\ \A c, d \in Clients : c = d
  BY DEF StopsAll
<1>1. CASE RunStep
  <2>1. CASE BeginRun
    BY <2>1, <1>a DEF StoppingInv, CStates, runVars, testVars, BeginRun, CanRun,
        Returned, NewTests
  <2>2. CASE InitHandlerThrows
    BY <2>2, <1>a DEF StoppingInv, CStates, runVars, testVars, InitHandlerThrows,
        CanRun, Returned, NewTests
  <2>3. CASE RunAgain
    BY <2>3, <1>a DEF StoppingInv, CStates, runVars, testVars, RunAgain, CanRun,
        Returned, NewTests, Initialized
  <2>4. CASE StartNext
    BY <2>4, <1>a, <1>b, <1>c DEF StoppingInv, CStates, runVars, testVars,
        StartNext, InitFails, CanStart
  <2>5. CASE StartSettled
    BY <2>5, <1>a, <1>b, <1>c DEF StoppingInv, CStates, runVars, testVars,
        StartSettled, InitFails
  <2>6. CASE StartClients
    BY <2>6, <1>a, <1>b, <1>c, <1>d, <1>g DEF StoppingInv, CStates, runVars,
        testVars, StartClients, InitFails, CanStart
  <2>7. CASE ClientsSettled
    BY <2>7, <1>a, <1>d, <1>g DEF StoppingInv, CStates, runVars, testVars,
        ClientsSettled, InitFails
  <2>8. CASE StartInitPending
    BY <2>8, <1>a, <1>b, <1>c, <1>f, <1>d, NextInitType DEF StoppingInv, CStates,
        runVars, testVars, StartInitPending, InitFails, CanStart
  <2>9. CASE InitPendingSettled
    BY <2>9, <1>a DEF StoppingInv, CStates, runVars, testVars, InitPendingSettled,
        InitFails
  <2>10. CASE TestsEnd
    BY <2>10, <1>a DEF StoppingInv, CStates, runVars, testVars, TestsEnd
  <2>11. CASE StopClients
    BY <2>11, <1>a, <1>b, <1>d DEF StoppingInv, CStates, runVars, testVars,
        StopClients, CanStop
  <2>12. CASE ClientsStopped
    BY <2>12, <1>a, <1>b, <1>d DEF StoppingInv, CStates, runVars, testVars,
        ClientsStopped
  <2>13. CASE StopNext
    <3>1. phase = "stopOrdered" /\ at \in DOMAIN Ordered /\ Ordered[at] \in Config
      BY <2>13, <1>a, <1>b, <1>c DEF StopNext, StoppingInv
    <3>2. CASE CanStop(Ordered[at])
      BY <2>13, <3>1, <3>2, <1>a, <1>b, <1>c, <1>d DEF StoppingInv, StopNext
    <3>3. CASE ~CanStop(Ordered[at])
      <4>1. cst' = cst /\ phase' = phase /\ at' = at - 1
        BY <2>13, <3>3 DEF StopNext
      <4>2. cst[Ordered[at]] # "started"
        BY <3>3 DEF CanStop
      <4>3. \A j \in DOMAIN Ordered : j > at' => j > at \/ j = at
        BY <1>a, <1>b, <4>1
      <4> QED  BY <3>1, <4>1, <4>2, <4>3, <1>a, <1>b DEF StoppingInv
    <3> QED  BY <3>2, <3>3
  <2>14. CASE StopSettled
    BY <2>14, <1>a, <1>b, <1>c DEF StoppingInv, CStates, runVars, testVars,
        StopSettled
  <2>15. CASE StopTimeout
    <3>1. CASE phase = "clientsStopping"
      BY <2>15, <3>1, <1>a, <1>b, <1>c DEF StopTimeout, StoppingInv
    <3>2. CASE phase = "stopWait"
      <4>1. cst' = cst /\ phase' = "stopOrdered" /\ at' = at - 1
        BY <2>15, <3>2 DEF StopTimeout
      <4>2. at \in DOMAIN Ordered /\ \A j \in DOMAIN Ordered : j > at' => j > at \/ j = at
        BY <1>a, <1>b, <3>2, <4>1 DEF StoppingInv
      <4> QED  BY <3>2, <4>1, <4>2, <1>a, <1>b DEF StoppingInv
    <3> QED  BY <2>15, <3>1, <3>2 DEF StopTimeout
  <2>16. CASE StopHandlerThrows
    BY <2>16, <1>a, <1>g DEF StoppingInv, CStates, runVars, testVars,
        StopHandlerThrows
  <2>17. CASE EndRun
    BY <2>17, <1>a DEF StoppingInv, CStates, runVars, testVars, EndRun
  <2> QED  BY <1>1, <2>1, <2>2, <2>3, <2>4, <2>5, <2>6, <2>7, <2>8, <2>9, <2>10,
      <2>11, <2>12, <2>13, <2>14, <2>15, <2>16, <2>17 DEF RunStep
<1>2. ASSUME NEW t \in Tests, TestStep(t) PROVE StoppingInv'
  <2>1. CASE StartPending(t)
    <3>1. phase' = phase /\ at' = at
      BY <2>1 DEF StartPending, runVars
    <3>2. pending[t] # {} => NextPending(t) \notin Config
      BY <1>d, <1>f, NextPendingType
    <3>3. \A d \in Config : cst'[d] = cst[d]
      BY <2>1, <3>2, <1>a DEF StartPending
    <3> QED  BY <3>1, <3>3, <1>a, <1>b, <1>c, <1>d, StoppingEnds
  <2>2. CASE CleanupNext(t)
    <3>1. phase' = phase /\ at' = at
      BY <2>2 DEF CleanupNext, runVars
    <3>2. pending[t] # {} => NextPending(t) \notin Config
      BY <1>d, <1>f, NextPendingType
    <3>3. \A d \in Config : cst'[d] = cst[d]
      BY <2>2, <3>2, <1>a DEF CleanupNext
    <3> QED  BY <3>1, <3>3, <1>a, <1>b, <1>c, <1>d, StoppingEnds
  <2>3. CASE ReporterThrows(t) \/ ExecuteTestCase(t) \/ BuildThrows(t) \/
           PendingSettled(t) \/ PendingDone(t) \/ RegisterHooks(t) \/ StepPasses(t) \/
           StepFails(t) \/ StepsDone(t) \/ WaitBegins(t) \/ WaitEnds(t) \/
           (\E c \in Comps : Phase3Clear(t, c)) \/
           Phase3Done(t) \/ CollectErrors(t) \/ CleanupSettled(t) \/ CleanupDone(t) \/
           FinishTestCase(t)
    BY <2>3, <1>a DEF StoppingInv, CStates, runVars, testVars, ReporterThrows,
        ExecuteTestCase, BuildThrows, PendingSettled, PendingDone, RegisterHooks,
        StepPasses, StepFails, StepsDone, WaitBegins, WaitEnds, Phase3Clear, Phase3Done,
        CollectErrors, CleanupSettled, CleanupDone, FinishTestCase, Goto, Fail
  <2> QED  BY <1>2, <2>1, <2>2, <2>3 DEF TestStep
<1>3. ASSUME NEW c \in Comps, StartEnds(c) \/ StopEnds(c) \/ RejectWaits(c) PROVE StoppingInv'
  <2>1. phase' = phase /\ at' = at
    BY <1>3 DEF runVars, StartEnds, StopEnds, DoStartOk, DoStartFails, DoStopOk, DoStopFails, RejectWaits
  <2>2. \A d \in Config :
           \/ cst'[d] = cst[d]
           \/ cst[d] = "starting" /\ cst'[d] \in {"started", "error"}
           \/ cst[d] = "stopping" /\ cst'[d] \in {"stopped", "error"}
    BY <1>3, <1>a DEF StartEnds, StopEnds, DoStartOk, DoStartFails, DoStopOk, DoStopFails, RejectWaits
  <2> QED  BY <2>1, <2>2, <1>a, <1>b, <1>c, <1>d, StoppingEnds
<1>4. ASSUME NEW h \in Hooks, NEW c \in Comps, HandlerStep(h, c) PROVE StoppingInv'
  BY <1>4, <1>a DEF StoppingInv, CStates, runVars, testVars, HandlerStep,
      HandlerBegins, HandlerPasses, HandlerFails, HandlerDrops, Reject
<1>5. CASE UNCHANGED vars
  BY <1>5, <1>a DEF StoppingInv, CStates, runVars, testVars, vars
<1> QED  BY <1>1, <1>2, <1>3, <1>4, <1>5 DEF Next

\* When run() returned, every configured component is stopped, or its stop()
\* failed or is overdue: no start() that another failure overtook is forgotten,
\* for any order of starts, failures and timeouts; provided there is one Client
\* at most and the stop handler does not throw.
THEOREM RunStopsComponents == ASSUME StopsAll PROVE Spec => []NothingLeftRunning
<1>1. Init => StoppingInv /\ BroughtInv
  BY ConstantTypes DEF Init, StoppingInv, BroughtInv, ReachedTests, InSeq
<1>2. TypeInv /\ StoppingInv => NothingLeftRunning
  <2> SUFFICES ASSUME TypeInv, StoppingInv, Returned, NEW c \in Config
               PROVE  cst[c] \notin {"starting", "started"}
    BY DEF NothingLeftRunning
  <2>1. phase = "done" /\ at = 0
    BY DEF StoppingInv, Returned
  <2>2. c \in Clients \/ \E j \in DOMAIN Ordered : j > at /\ Ordered[j] = c
    <3>1. DOMAIN Ordered = 1..Len(Ordered) /\ Len(Ordered) \in Nat
      BY ScenarioAssumption DEF Ordered
    <3> QED  BY <2>1, <3>1 DEF Config, Listed
  <2> QED  BY <2>1, <2>2 DEF StoppingInv
<1> QED  BY <1>1, <1>2, TypeInvariant, BroughtInvInductive, StoppingInvInductive, PTL DEF Spec

-----------------------------------------------------------------------------
(* Whose errors decide a verdict                                           *)

\* A run of the scenario before its test cases; the test cases being executed.
Starting  == {"start", "startWait", "clientsWait", "initPending", "initWait"}
Active(t) == pc[t] \notin {"idle", "done"}

\* One test case executes at a time.
OneActive ==
  /\ \A t, u \in Tests : Active(t) /\ Active(u) => t = u
  /\ \A t \in Tests : pc[t] # "idle" =>
       \E g \in Groups : \E k \in DOMAIN TestsOf[g] :
         TestsOf[g][k] = t /\ \A j \in 1..(k - 1) : pc[TestsOf[g][j]] = "done"

\* The hypothesis: the test cases run one after the other.
OneGroup == \A g, h \in Groups : g = h

\* The next test case begins when no other is executing.
LEMMA NextIsAlone ==
  ASSUME OneGroup, OneActive, NEW t \in Tests, IsNext(t)
  PROVE  /\ \A u \in Tests : ~Active(u)
         /\ \E g \in Groups : \E k \in DOMAIN TestsOf[g] :
              TestsOf[g][k] = t /\ \A j \in 1..(k - 1) : pc[TestsOf[g][j]] = "done"
<1>0. PICK g \in Groups : \E i \in DOMAIN TestsOf[g] :
        TestsOf[g][i] = t /\ \A j \in 1..(i - 1) : pc[TestsOf[g][j]] = "done"
  BY DEF IsNext
<1>1. PICK i \in DOMAIN TestsOf[g] :
        TestsOf[g][i] = t /\ \A j \in 1..(i - 1) : pc[TestsOf[g][j]] = "done"
  BY <1>0
<1>2. DOMAIN TestsOf[g] = 1..Len(TestsOf[g]) /\ Len(TestsOf[g]) \in Nat
  BY ScenarioAssumption
<1>3. ASSUME NEW u \in Tests, Active(u) PROVE FALSE
  <2>1. PICK k \in DOMAIN TestsOf[g] :
          TestsOf[g][k] = u /\ \A j \in 1..(k - 1) : pc[TestsOf[g][j]] = "done"
    BY <1>3 DEF OneActive, OneGroup, Active
  <2>2. k < i \/ i < k \/ i = k
    BY <1>2
  <2>3. k < i => k \in 1..(i - 1)
    BY <1>2
  <2>4. i < k => i \in 1..(k - 1)
    BY <1>2
  <2> QED  BY <1>1, <1>3, <2>1, <2>2, <2>3, <2>4 DEF Active, IsNext
<1> QED  BY <1>1, <1>3


\* It is then the only one that executes.
LEMMA NextBegins ==
  ASSUME OneGroup, OneActive, pc \in [Tests -> PCs], NEW t \in Tests, IsNext(t),
         NEW l, l \notin {"idle", "done"}, Goto(t, l)
  PROVE  OneActive'
<1>1. /\ \A u \in Tests : ~Active(u)
      /\ \E g \in Groups : \E k \in DOMAIN TestsOf[g] :
           TestsOf[g][k] = t /\ \A j \in 1..(k - 1) : pc[TestsOf[g][j]] = "done"
  BY NextIsAlone
<1>2. pc[t] = "idle" /\ pc' = [pc EXCEPT ![t] = l]
  BY DEF IsNext, Goto
<1>3. \A u \in Tests : u # t => pc'[u] = pc[u]
  BY <1>2
<1>4. \A u, v \in Tests : pc'[u] \notin {"idle", "done"} /\ pc'[v] \notin {"idle", "done"} => u = v
  BY <1>1, <1>3 DEF Active
<1>5. \A g \in Groups : \A k \in DOMAIN TestsOf[g] : \A j \in 1..(k - 1) :
        pc[TestsOf[g][j]] = "done" => pc'[TestsOf[g][j]] = "done"
  BY <1>2, <1>3, ScenarioAssumption
<1>6. ASSUME NEW u \in Tests, pc'[u] # "idle"
      PROVE  \E g \in Groups : \E k \in DOMAIN TestsOf[g] :
               TestsOf[g][k] = u /\ \A j \in 1..(k - 1) : pc'[TestsOf[g][j]] = "done"
  <2>1. \E g \in Groups : \E k \in DOMAIN TestsOf[g] :
          TestsOf[g][k] = u /\ \A j \in 1..(k - 1) : pc[TestsOf[g][j]] = "done"
    BY <1>1, <1>3, <1>6 DEF OneActive
  <2> QED  BY <1>5, <2>1
<1> QED  BY <1>4, <1>6 DEF OneActive, Active

\* The test cases of a group are executed one after the other.
LEMMA OneActiveInductive ==
  ASSUME OneGroup
  PROVE  TypeInv /\ OneActive /\ [Next]_vars => OneActive'
<1> SUFFICES ASSUME TypeInv, OneActive, [Next]_vars PROVE OneActive'
  OBVIOUS
<1>a. pc \in [Tests -> PCs]
  BY DEF TypeInv, TestTypes
<1>b. \A g \in Groups : \A k \in DOMAIN TestsOf[g] : \A j \in 1..(k - 1) : TestsOf[g][j] \in Tests
  BY ScenarioAssumption
<1>1. CASE RunStep
  <2>1. CASE BeginRun
    BY <2>1, <1>a, <1>b DEF OneActive, Active, runVars, testVars, BeginRun, CanRun,
        Returned, NewTests
  <2>2. CASE InitHandlerThrows
    BY <2>2, <1>a, <1>b DEF OneActive, Active, runVars, testVars, InitHandlerThrows,
        CanRun, Returned, NewTests
  <2>3. CASE RunAgain
    BY <2>3, <1>a, <1>b DEF OneActive, Active, runVars, testVars, RunAgain, CanRun,
        Returned, NewTests, Initialized
  <2>4. CASE StartNext
    BY <2>4, <1>a, <1>b DEF OneActive, Active, runVars, testVars, StartNext,
        InitFails, CanStart
  <2>5. CASE StartSettled
    BY <2>5, <1>a, <1>b DEF OneActive, Active, runVars, testVars, StartSettled,
        InitFails
  <2>6. CASE StartClients
    BY <2>6, <1>a, <1>b DEF OneActive, Active, runVars, testVars, StartClients,
        InitFails, CanStart
  <2>7. CASE ClientsSettled
    BY <2>7, <1>a, <1>b DEF OneActive, Active, runVars, testVars, ClientsSettled,
        InitFails
  <2>8. CASE StartInitPending
    BY <2>8, <1>a, <1>b DEF OneActive, Active, runVars, testVars, StartInitPending,
        InitFails, CanStart
  <2>9. CASE InitPendingSettled
    BY <2>9, <1>a, <1>b DEF OneActive, Active, runVars, testVars,
        InitPendingSettled, InitFails
  <2>10. CASE TestsEnd
    BY <2>10, <1>a, <1>b DEF OneActive, Active, runVars, testVars, TestsEnd
  <2>11. CASE StopClients
    BY <2>11, <1>a, <1>b DEF OneActive, Active, runVars, testVars, StopClients,
        CanStop
  <2>12. CASE ClientsStopped
    BY <2>12, <1>a, <1>b DEF OneActive, Active, runVars, testVars, ClientsStopped
  <2>13. CASE StopNext
    BY <2>13, <1>a, <1>b DEF OneActive, Active, runVars, testVars, StopNext, CanStop
  <2>14. CASE StopSettled
    BY <2>14, <1>a, <1>b DEF OneActive, Active, runVars, testVars, StopSettled
  <2>15. CASE StopTimeout
    BY <2>15, <1>a, <1>b DEF OneActive, Active, runVars, testVars, StopTimeout
  <2>16. CASE StopHandlerThrows
    BY <2>16, <1>a, <1>b DEF OneActive, Active, runVars, testVars, StopHandlerThrows
  <2>17. CASE EndRun
    BY <2>17, <1>a, <1>b DEF OneActive, Active, runVars, testVars, EndRun
  <2> QED  BY <1>1, <2>1, <2>2, <2>3, <2>4, <2>5, <2>6, <2>7, <2>8, <2>9, <2>10,
      <2>11, <2>12, <2>13, <2>14, <2>15, <2>16, <2>17 DEF RunStep
<1>2. ASSUME NEW t \in Tests, TestStep(t) PROVE OneActive'
  <2>1. CASE ReporterThrows(t)
    BY <2>1, <1>a, <1>b DEF OneActive, Active, runVars, testVars, ReporterThrows,
        IsNext
  <2>2. CASE ExecuteTestCase(t)
    BY <2>2, <1>a, NextBegins DEF ExecuteTestCase
  <2>3. CASE BuildThrows(t)
    BY <2>3, <1>a, NextBegins DEF BuildThrows
  <2>4. CASE StartPending(t)
    BY <2>4, <1>a, <1>b DEF OneActive, Active, runVars, testVars, StartPending,
        Goto, PendingFails, Fail, CanStart
  <2>5. CASE PendingSettled(t)
    BY <2>5, <1>a, <1>b DEF OneActive, Active, runVars, testVars, PendingSettled,
        Goto, PendingFails, Fail
  <2>6. CASE PendingDone(t)
    BY <2>6, <1>a, <1>b DEF OneActive, Active, runVars, testVars, PendingDone, Goto
  <2>7. CASE RegisterHooks(t)
    BY <2>7, <1>a, <1>b DEF OneActive, Active, runVars, testVars, RegisterHooks,
        Goto, Fail
  <2>8. CASE StepPasses(t)
    BY <2>8, <1>a, <1>b DEF OneActive, Active, runVars, testVars, StepPasses
  <2>9. CASE StepFails(t)
    BY <2>9, <1>a, <1>b DEF OneActive, Active, runVars, testVars, StepFails, Goto,
        Fail
  <2>10. CASE StepsDone(t)
    BY <2>10, <1>a, <1>b DEF OneActive, Active, runVars, testVars, StepsDone, Goto
  <2>11. CASE (\E c \in Comps : Phase3Clear(t, c))
    BY <2>11, <1>a, <1>b DEF OneActive, Active, runVars, testVars, Phase3Clear
  <2>12. CASE Phase3Done(t)
    BY <2>12, <1>a, <1>b DEF OneActive, Active, runVars, testVars, Phase3Done, Goto
  <2>13. CASE CollectErrors(t)
    BY <2>13, <1>a, <1>b DEF OneActive, Active, runVars, testVars, CollectErrors,
        Goto
  <2>14. CASE CleanupNext(t)
    BY <2>14, <1>a, <1>b DEF OneActive, Active, runVars, testVars, CleanupNext,
        Goto, CanStop
  <2>15. CASE CleanupSettled(t)
    BY <2>15, <1>a, <1>b DEF OneActive, Active, runVars, testVars, CleanupSettled,
        Goto
  <2>16. CASE CleanupDone(t)
    BY <2>16, <1>a, <1>b DEF OneActive, Active, runVars, testVars, CleanupDone, Goto
  <2>17. CASE FinishTestCase(t)
    BY <2>17, <1>a, <1>b DEF OneActive, Active, runVars, testVars, FinishTestCase,
        Goto
  <2>18. CASE WaitBegins(t)
    BY <2>18, <1>a, <1>b DEF OneActive, Active, runVars, testVars, WaitBegins, Goto,
        Fail
  <2>19. CASE WaitEnds(t)
    BY <2>19, <1>a, <1>b DEF OneActive, Active, runVars, testVars, WaitEnds, Goto,
        Fail
  <2> QED  BY <1>2, <2>1, <2>2, <2>3, <2>4, <2>5, <2>6, <2>7, <2>8, <2>9, <2>10,
      <2>11, <2>12, <2>13, <2>14, <2>15, <2>16, <2>17, <2>18, <2>19 DEF TestStep
<1>3. ASSUME NEW c \in Comps, StartEnds(c) \/ StopEnds(c) \/ RejectWaits(c) PROVE OneActive'
  BY <1>3, <1>a, <1>b DEF OneActive, Active, runVars, testVars, StartEnds, StopEnds,
      DoStartOk, DoStartFails, DoStopOk, DoStopFails, RejectWaits
<1>4. ASSUME NEW h \in Hooks, NEW c \in Comps, HandlerStep(h, c) PROVE OneActive'
  BY <1>4, <1>a, <1>b DEF OneActive, Active, runVars, testVars, HandlerStep,
      HandlerBegins, HandlerPasses, HandlerFails, HandlerDrops, Reject
<1>5. CASE UNCHANGED vars
  BY <1>5, <1>a, <1>b DEF OneActive, Active, runVars, testVars, vars
<1> QED  BY <1>1, <1>2, <1>3, <1>4, <1>5 DEF Next


\* A component that runs is registered, and one whose handler of t is executing
\* is registered while t is.
RegisteredInv ==
  /\ Config \subseteq registered
  /\ phase \in Starting => initQueue \subseteq registered
  /\ \A c \in Comps : cst[c] \in {"starting", "started"} => c \in registered
  /\ \A t \in Tests :
       pc[t] \in {"pending", "pendingWait", "hooks", "exec", "wait", "clear", "collect"} =>
         InSeq(Brings[t]) \subseteq registered
  /\ \A c \in Comps : \A h \in handling[c] : h[1] \in Tests =>
       /\ c \in registered \/ c \in InSeq(Brings[h[1]])
       /\ \A u \in Tests : Active(u) /\ c \in own[u] => c \in InSeq(Brings[h[1]])

\* A test case cleans up while no other one is executing.
LEMMA LeavesCleanly ==
  ASSUME BroughtInv, OneActive, RegisteredInv, cst \in [Comps -> CStates],
         Config \cap Dynamic = {}, Dynamic \subseteq Comps, NEW t \in Tests,
         pc[t] \in {"cleanup", "cleanupWait"}, pc'[t] \in {"cleanup", "cleanupWait"},
         \A u \in Tests \ {t} : pc'[u] = pc[u],
         UNCHANGED <<phase, initQueue, own, handling>>,
         NEW d \in own[t], d \in Dynamic,
         \/ registered' = registered /\ cst' = [cst EXCEPT ![d] = "stopping"]
         \/ registered' = registered /\ cst' = cst
         \/ cst[d] = "stopped" /\ registered' = registered \ {d} /\ cst' = cst
  PROVE  RegisteredInv'
<1>1. Active(t) /\ \A u \in Tests \ {t} : ~Active(u)
  BY DEF OneActive, Active
<1>2. phase \notin Starting
  BY <1>1 DEF BroughtInv, ReachedTests, Starting, Active
<1>3. \A u \in Tests : pc'[u] \notin {"pending", "pendingWait", "hooks", "exec", "wait", "clear", "collect"}
  BY <1>1 DEF Active
<1>4. Config \subseteq registered'
  BY DEF RegisteredInv
<1>5. \A c \in Comps : cst'[c] \in {"starting", "started"} => c \in registered'
  BY DEF RegisteredInv
<1>6. \A c \in Comps : \A h \in handling[c] :
        h[1] \in Tests => c \in registered' \/ c \in InSeq(Brings[h[1]])
  BY <1>1 DEF RegisteredInv
<1>7. \A u \in Tests : Active(u)' <=> Active(u)
  BY DEF Active
<1> QED  BY <1>2, <1>3, <1>4, <1>5, <1>6, <1>7 DEF RegisteredInv

\* A component leaves the registry stopped, at the end of the test case that
\* brought it in.
LEMMA RegisteredInvInductive ==
  ASSUME OneGroup
  PROVE  TypeInv /\ HooksInv /\ BroughtInv /\ OneActive /\ RegisteredInv /\ [Next]_vars => RegisteredInv'
<1> SUFFICES ASSUME TypeInv, HooksInv, BroughtInv, OneActive, RegisteredInv, [Next]_vars PROVE RegisteredInv'
  OBVIOUS
<1>a. /\ cst \in [Comps -> CStates] /\ handling \in [Comps -> SUBSET Hooks]
      /\ pc \in [Tests -> PCs] /\ hooks \in [Comps -> SUBSET Hooks]
      /\ own \in [Tests -> SUBSET Dynamic] /\ pending \in [Tests -> SUBSET Dynamic]
  BY DEF TypeInv, TestTypes, ComponentTypes
<1>b. Config \cap Dynamic = {} /\ Config \subseteq Comps /\ Dynamic \subseteq Comps
  BY ConstantTypes, ScenarioAssumption
<1>c. initQueue \subseteq Dynamic
  BY DEF TypeInv, RunTypes
<1>1. CASE RunStep
  <2>1. CASE BeginRun
    BY <2>1, <1>a DEF RegisteredInv, Starting, Active, runVars, testVars, BeginRun,
        CanRun, Returned, NewTests
  <2>2. CASE InitHandlerThrows
    BY <2>2, <1>a DEF RegisteredInv, Starting, Active, runVars, testVars,
        InitHandlerThrows, CanRun, Returned, NewTests
  <2>3. CASE RunAgain
    BY <2>3, <1>a DEF RegisteredInv, Starting, Active, runVars, testVars, RunAgain,
        CanRun, Returned, NewTests, Initialized
  <2>4. CASE StartNext
    <3>1. at \in 1..Len(Ordered) => Ordered[at] \in registered
      BY DEF RegisteredInv, Config, Listed
    <3>2. phase = "start" /\ at \in Nat /\ at > 0 /\ at <= Len(Ordered) /\ Len(Ordered) \in Nat
      BY <2>4, ConstantTypes DEF StartNext, BroughtInv, TypeInv, RunTypes
    <3>3. at \in 1..Len(Ordered)
      BY <3>2
    <3> QED  BY <2>4, <1>a, <3>1, <3>3 DEF RegisteredInv, Starting, Active, testVars, StartNext, InitFails
  <2>5. CASE StartSettled
    BY <2>5, <1>a DEF RegisteredInv, Starting, Active, runVars, testVars,
        StartSettled, InitFails
  <2>6. CASE StartClients
    <3>1. Clients \subseteq registered
      BY DEF RegisteredInv, Config
    <3> QED  BY <2>6, <1>a, <3>1 DEF RegisteredInv, Starting, Active, testVars, StartClients, InitFails
  <2>7. CASE ClientsSettled
    BY <2>7, <1>a DEF RegisteredInv, Starting, Active, runVars, testVars,
        ClientsSettled, InitFails
  <2>8. CASE StartInitPending
    BY <2>8, <1>a, NextInitType DEF RegisteredInv, Starting, Active, runVars,
        testVars, StartInitPending, InitFails, CanStart
  <2>9. CASE InitPendingSettled
    BY <2>9, <1>a DEF RegisteredInv, Starting, Active, runVars, testVars,
        InitPendingSettled, InitFails
  <2>10. CASE TestsEnd
    BY <2>10, <1>a DEF RegisteredInv, Starting, Active, runVars, testVars, TestsEnd
  <2>11. CASE StopClients
    BY <2>11, <1>a DEF RegisteredInv, Starting, Active, runVars, testVars,
        StopClients, CanStop
  <2>12. CASE ClientsStopped
    BY <2>12, <1>a DEF RegisteredInv, Starting, Active, runVars, testVars,
        ClientsStopped
  <2>13. CASE StopNext
    BY <2>13, <1>a DEF RegisteredInv, Starting, Active, runVars, testVars, StopNext,
        CanStop
  <2>14. CASE StopSettled
    BY <2>14, <1>a DEF RegisteredInv, Starting, Active, runVars, testVars,
        StopSettled
  <2>15. CASE StopTimeout
    BY <2>15, <1>a DEF RegisteredInv, Starting, Active, runVars, testVars,
        StopTimeout
  <2>16. CASE StopHandlerThrows
    BY <2>16, <1>a DEF RegisteredInv, Starting, Active, runVars, testVars,
        StopHandlerThrows
  <2>17. CASE EndRun
    BY <2>17, <1>a DEF RegisteredInv, Starting, Active, runVars, testVars, EndRun
  <2> QED  BY <1>1, <2>1, <2>2, <2>3, <2>4, <2>5, <2>6, <2>7, <2>8, <2>9, <2>10,
      <2>11, <2>12, <2>13, <2>14, <2>15, <2>16, <2>17 DEF RunStep
<1>2. ASSUME NEW t \in Tests, TestStep(t) PROVE RegisteredInv'
  <2>1. CASE ReporterThrows(t)
    BY <2>1, <1>a DEF RegisteredInv, Starting, Active, runVars, testVars,
        ReporterThrows, IsNext
  <2>2. CASE ExecuteTestCase(t)
    BY <2>2, <1>a DEF RegisteredInv, Starting, Active, runVars, testVars,
        ExecuteTestCase, IsNext, Goto, ClearedErrs
  <2>3. CASE BuildThrows(t)
    BY <2>3, <1>a, NextIsAlone, <1>b DEF RegisteredInv, Starting, Active, runVars,
        testVars, BuildThrows, IsNext, Goto, Fail, ClearedErrs, BroughtInv
  <2>4. CASE StartPending(t)
    <3>1. pending[t] # {} => NextPending(t) \in registered
      BY <2>4, NextPendingType DEF RegisteredInv, BroughtInv, StartPending
    <3> QED  BY <2>4, <1>a, <3>1 DEF RegisteredInv, Starting, Active, runVars, StartPending,
        PendingFails, Fail, Goto
  <2>5. CASE PendingSettled(t)
    BY <2>5, <1>a DEF RegisteredInv, Starting, Active, runVars, testVars,
        PendingSettled, Goto, PendingFails, Fail
  <2>6. CASE PendingDone(t)
    BY <2>6, <1>a DEF RegisteredInv, Starting, Active, runVars, testVars,
        PendingDone, Goto
  <2>7. CASE RegisterHooks(t)
    BY <2>7, <1>a DEF RegisteredInv, Starting, Active, runVars, testVars,
        RegisterHooks, Goto, Fail
  <2>8. CASE StepPasses(t)
    BY <2>8, <1>a DEF RegisteredInv, Starting, Active, runVars, testVars, StepPasses
  <2>9. CASE StepFails(t)
    BY <2>9, <1>a DEF RegisteredInv, Starting, Active, runVars, testVars, StepFails,
        Goto, Fail
  <2>10. CASE StepsDone(t)
    BY <2>10, <1>a DEF RegisteredInv, Starting, Active, runVars, testVars,
        StepsDone, Goto
  <2>11. CASE (\E c \in Comps : Phase3Clear(t, c))
    BY <2>11, <1>a DEF RegisteredInv, Starting, Active, runVars, testVars,
        Phase3Clear
  <2>12. CASE Phase3Done(t)
    BY <2>12, <1>a DEF RegisteredInv, Starting, Active, runVars, testVars,
        Phase3Done, Goto
  <2>13. CASE CollectErrors(t)
    BY <2>13, <1>a DEF RegisteredInv, Starting, Active, runVars, testVars,
        CollectErrors, Goto
  <2>14. CASE CleanupNext(t)
    <3>1. pending[t] # {} /\ pc[t] = "cleanup" /\ pc'[t] \in {"cleanup", "cleanupWait"}
      BY <2>14, <1>a DEF CleanupNext, Goto
    <3>2. PICK d \in own[t] : d = NextPending(t) /\ d \in Dynamic
      BY <3>1, <1>a, NextPendingType DEF BroughtInv
    <3>3. UNCHANGED <<phase, initQueue, own, handling>>
      BY <2>14 DEF CleanupNext, runVars
    <3>4. \A u \in Tests \ {t} : pc'[u] = pc[u]
      BY <2>14, <1>a DEF CleanupNext, Goto
    <3>5. \/ registered' = registered /\ cst' = [cst EXCEPT ![d] = "stopping"]
          \/ registered' = registered /\ cst' = cst
          \/ cst[d] = "stopped" /\ registered' = registered \ {d} /\ cst' = cst
      BY <2>14, <3>2 DEF CleanupNext
    <3> QED  BY <1>a, <1>b, <3>1, <3>2, <3>3, <3>4, <3>5, LeavesCleanly
  <2>15. CASE CleanupSettled(t)
    <3>1. pending[t] # {} /\ pc[t] = "cleanupWait" /\ pc'[t] \in {"cleanup", "cleanupWait"}
      BY <2>15, <1>a DEF CleanupSettled, Goto, BroughtInv
    <3>2. PICK d \in own[t] : d = NextPending(t) /\ d \in Dynamic
      BY <3>1, <1>a, NextPendingType DEF BroughtInv
    <3>3. UNCHANGED <<phase, initQueue, own, handling>>
      BY <2>15 DEF CleanupSettled, runVars
    <3>4. \A u \in Tests \ {t} : pc'[u] = pc[u]
      BY <2>15, <1>a DEF CleanupSettled, Goto
    <3>5. \/ registered' = registered /\ cst' = cst
          \/ cst[d] = "stopped" /\ registered' = registered \ {d} /\ cst' = cst
      BY <2>15, <3>2 DEF CleanupSettled
    <3> QED  BY <1>a, <1>b, <3>1, <3>2, <3>3, <3>4, <3>5, LeavesCleanly
  <2>16. CASE CleanupDone(t)
    BY <2>16, <1>a DEF RegisteredInv, Starting, Active, runVars, testVars,
        CleanupDone, Goto
  <2>17. CASE FinishTestCase(t)
    BY <2>17, <1>a DEF RegisteredInv, Starting, Active, runVars, testVars,
        FinishTestCase, Goto
  <2>18. CASE WaitBegins(t)
    BY <2>18, <1>a DEF RegisteredInv, Starting, Active, runVars, testVars, WaitBegins,
        Goto, Fail
  <2>19. CASE WaitEnds(t)
    BY <2>19, <1>a DEF RegisteredInv, Starting, Active, runVars, testVars, WaitEnds,
        Goto, Fail
  <2> QED  BY <1>2, <2>1, <2>2, <2>3, <2>4, <2>5, <2>6, <2>7, <2>8, <2>9, <2>10,
      <2>11, <2>12, <2>13, <2>14, <2>15, <2>16, <2>17, <2>18, <2>19 DEF TestStep
<1>3. ASSUME NEW c \in Comps, StartEnds(c) \/ StopEnds(c) \/ RejectWaits(c) PROVE RegisteredInv'
  BY <1>3, <1>a DEF RegisteredInv, Starting, Active, runVars, testVars, StartEnds,
      StopEnds, DoStartOk, DoStartFails, DoStopOk, DoStopFails, RejectWaits
<1>4. ASSUME NEW h \in Hooks, NEW c \in Comps, HandlerStep(h, c) PROVE RegisteredInv'
  <2>1. CASE HandlerBegins(h, c)
    <3>1. h[1] \in Tests => Active(h[1])
      BY <2>1 DEF HandlerBegins, HooksInv, HooksScoped, Active
    <3>2. c \in registered
      BY <2>1 DEF HandlerBegins, RegisteredInv
    <3>3. \A u \in Tests : Active(u) /\ c \in own[u] /\ h[1] \in Tests => c \in InSeq(Brings[h[1]])
      BY <3>1 DEF OneActive, BroughtInv
    <3>4. UNCHANGED <<phase, initQueue, registered, cst, pc, own>>
      BY <2>1 DEF HandlerBegins, runVars, testVars
    <3>5. handling' = [handling EXCEPT ![c] = handling[c] \cup {h}]
      BY <2>1 DEF HandlerBegins
    <3> QED  BY <1>a, <3>2, <3>3, <3>4, <3>5 DEF RegisteredInv, Active
  <2>2. CASE HandlerPasses(h, c) \/ HandlerFails(h, c) \/ HandlerDrops(h, c)
    BY <2>2, <1>a DEF RegisteredInv, Active, runVars, testVars, HandlerPasses, HandlerFails,
        HandlerDrops
  <2> QED  BY <1>4, <2>1, <2>2 DEF HandlerStep
<1>5. CASE UNCHANGED vars
  BY <1>5, <1>a DEF RegisteredInv, Starting, Active, runVars, testVars, vars
<1> QED  BY <1>1, <1>2, <1>3, <1>4, <1>5 DEF Next


\* An error tracked for a test case is among those that decide its verdict.
ReportedInv ==
  \A t \in Tests :
    /\ verdict[t] = "passed" => pc[t] \in {"cleanup", "cleanupWait", "final", "done"}
    /\ t \in reported =>
         /\ pc[t] \in {"exec", "wait", "clear", "collect", "cleanup", "cleanupWait", "final", "done"}
         /\ pc[t] \in {"exec", "wait", "clear", "collect"} => \E c \in registered : t \in errs[c]
         /\ verdict[t] # "passed"

\* Only the beginning of a test case clears the errors of the components.
LEMMA ReportedInvInductive ==
  ASSUME OneGroup
  PROVE  TypeInv /\ BroughtInv /\ OneActive /\ RegisteredInv /\ ReportedInv /\ [Next]_vars => ReportedInv'
<1> SUFFICES ASSUME TypeInv, BroughtInv, OneActive, RegisteredInv, ReportedInv, [Next]_vars PROVE ReportedInv'
  OBVIOUS
<1>a. /\ errs \in [Comps -> SUBSET Owners] /\ pc \in [Tests -> PCs]
      /\ verdict \in [Tests -> {"none", "passed", "failed"}] /\ registered \subseteq Comps
  BY DEF TypeInv, TestTypes, ComponentTypes
<1>1. CASE RunStep
  <2>1. CASE BeginRun
    BY <2>1, <1>a DEF ReportedInv, Active, runVars, testVars, BeginRun, CanRun,
        Returned, NewTests
  <2>2. CASE InitHandlerThrows
    BY <2>2, <1>a DEF ReportedInv, Active, runVars, testVars, InitHandlerThrows,
        CanRun, Returned, NewTests
  <2>3. CASE RunAgain
    BY <2>3, <1>a DEF ReportedInv, Active, runVars, testVars, RunAgain, CanRun,
        Returned, NewTests, Initialized
  <2>4. CASE StartNext
    BY <2>4, <1>a DEF ReportedInv, Active, runVars, testVars, StartNext, InitFails,
        CanStart
  <2>5. CASE StartSettled
    BY <2>5, <1>a DEF ReportedInv, Active, runVars, testVars, StartSettled,
        InitFails
  <2>6. CASE StartClients
    BY <2>6, <1>a DEF ReportedInv, Active, runVars, testVars, StartClients,
        InitFails, CanStart
  <2>7. CASE ClientsSettled
    BY <2>7, <1>a DEF ReportedInv, Active, runVars, testVars, ClientsSettled,
        InitFails
  <2>8. CASE StartInitPending
    BY <2>8, <1>a DEF ReportedInv, Active, runVars, testVars, StartInitPending,
        InitFails, CanStart
  <2>9. CASE InitPendingSettled
    BY <2>9, <1>a DEF ReportedInv, Active, runVars, testVars, InitPendingSettled,
        InitFails
  <2>10. CASE TestsEnd
    BY <2>10, <1>a DEF ReportedInv, Active, runVars, testVars, TestsEnd
  <2>11. CASE StopClients
    BY <2>11, <1>a DEF ReportedInv, Active, runVars, testVars, StopClients, CanStop
  <2>12. CASE ClientsStopped
    BY <2>12, <1>a DEF ReportedInv, Active, runVars, testVars, ClientsStopped
  <2>13. CASE StopNext
    BY <2>13, <1>a DEF ReportedInv, Active, runVars, testVars, StopNext, CanStop
  <2>14. CASE StopSettled
    BY <2>14, <1>a DEF ReportedInv, Active, runVars, testVars, StopSettled
  <2>15. CASE StopTimeout
    BY <2>15, <1>a DEF ReportedInv, Active, runVars, testVars, StopTimeout
  <2>16. CASE StopHandlerThrows
    BY <2>16, <1>a DEF ReportedInv, Active, runVars, testVars, StopHandlerThrows
  <2>17. CASE EndRun
    BY <2>17, <1>a DEF ReportedInv, Active, runVars, testVars, EndRun
  <2> QED  BY <1>1, <2>1, <2>2, <2>3, <2>4, <2>5, <2>6, <2>7, <2>8, <2>9, <2>10,
      <2>11, <2>12, <2>13, <2>14, <2>15, <2>16, <2>17 DEF RunStep
<1>2. ASSUME NEW t \in Tests, TestStep(t) PROVE ReportedInv'
  <2>1. CASE ReporterThrows(t)
    BY <2>1, <1>a DEF ReportedInv, Active, runVars, testVars, ReporterThrows, IsNext
  <2>2. CASE ExecuteTestCase(t)
    <3>1. \A u \in Tests : pc[u] \notin {"exec", "wait", "clear", "collect"}
      BY <2>2, NextIsAlone DEF ExecuteTestCase, Active
    <3>2. t \notin reported /\ verdict[t] # "passed"
      BY <2>2, <3>1 DEF ExecuteTestCase, IsNext, ReportedInv
    <3>3. \A u \in Tests \ {t} : pc'[u] = pc[u]
      BY <2>2, <1>a DEF ExecuteTestCase, Goto
    <3>4. UNCHANGED <<verdict, reported>>
      BY <2>2 DEF ExecuteTestCase
    <3> QED  BY <3>1, <3>2, <3>3, <3>4 DEF ReportedInv
  <2>3. CASE BuildThrows(t)
    <3>1. \A u \in Tests : pc[u] \notin {"exec", "wait", "clear", "collect"}
      BY <2>3, NextIsAlone DEF BuildThrows, Active
    <3>2. t \notin reported /\ verdict[t] # "passed"
      BY <2>3, <3>1 DEF BuildThrows, IsNext, ReportedInv
    <3>3. \A u \in Tests \ {t} : pc'[u] = pc[u]
      BY <2>3, <1>a DEF BuildThrows, Goto
    <3>4. UNCHANGED <<verdict, reported>>
      BY <2>3 DEF BuildThrows
    <3> QED  BY <3>1, <3>2, <3>3, <3>4 DEF ReportedInv
  <2>4. CASE StartPending(t)
    BY <2>4, <1>a DEF ReportedInv, Active, runVars, testVars, StartPending, Goto,
        PendingFails, Fail, CanStart
  <2>5. CASE PendingSettled(t)
    BY <2>5, <1>a DEF ReportedInv, Active, runVars, testVars, PendingSettled, Goto,
        PendingFails, Fail
  <2>6. CASE PendingDone(t)
    BY <2>6, <1>a DEF ReportedInv, Active, runVars, testVars, PendingDone, Goto
  <2>7. CASE RegisterHooks(t)
    BY <2>7, <1>a DEF ReportedInv, Active, runVars, testVars, RegisterHooks, Goto,
        Fail
  <2>8. CASE StepPasses(t)
    BY <2>8, <1>a DEF ReportedInv, Active, runVars, testVars, StepPasses
  <2>9. CASE StepFails(t)
    BY <2>9, <1>a DEF ReportedInv, Active, runVars, testVars, StepFails, Goto, Fail
  <2>10. CASE StepsDone(t)
    BY <2>10, <1>a DEF ReportedInv, Active, runVars, testVars, StepsDone, Goto
  <2>11. CASE (\E c \in Comps : Phase3Clear(t, c))
    BY <2>11, <1>a DEF ReportedInv, Active, runVars, testVars, Phase3Clear
  <2>12. CASE Phase3Done(t)
    BY <2>12, <1>a DEF ReportedInv, Active, runVars, testVars, Phase3Done, Goto
  <2>13. CASE CollectErrors(t)
    BY <2>13, <1>a, ConstantTypes DEF ReportedInv, Active, runVars, testVars,
        CollectErrors, Goto, UnhandledErrors
  <2>14. CASE CleanupNext(t)
    BY <2>14, <1>a DEF ReportedInv, Active, runVars, testVars, CleanupNext, Goto,
        CanStop, OneActive
  <2>15. CASE CleanupSettled(t)
    BY <2>15, <1>a DEF ReportedInv, Active, runVars, testVars, CleanupSettled, Goto,
        OneActive
  <2>16. CASE CleanupDone(t)
    BY <2>16, <1>a DEF ReportedInv, Active, runVars, testVars, CleanupDone, Goto
  <2>17. CASE FinishTestCase(t)
    BY <2>17, <1>a DEF ReportedInv, Active, runVars, testVars, FinishTestCase, Goto
  <2>18. CASE WaitBegins(t)
    BY <2>18, <1>a DEF ReportedInv, Active, runVars, testVars, WaitBegins, Goto, Fail
  <2>19. CASE WaitEnds(t)
    BY <2>19, <1>a DEF ReportedInv, Active, runVars, testVars, WaitEnds, Goto, Fail
  <2> QED  BY <1>2, <2>1, <2>2, <2>3, <2>4, <2>5, <2>6, <2>7, <2>8, <2>9, <2>10,
      <2>11, <2>12, <2>13, <2>14, <2>15, <2>16, <2>17, <2>18, <2>19 DEF TestStep
<1>3. ASSUME NEW c \in Comps, StartEnds(c) \/ StopEnds(c) \/ RejectWaits(c) PROVE ReportedInv'
  BY <1>3, <1>a DEF ReportedInv, Active, runVars, testVars, StartEnds, StopEnds,
      DoStartOk, DoStartFails, DoStopOk, DoStopFails, RejectWaits
<1>4. ASSUME NEW h \in Hooks, NEW c \in Comps, HandlerStep(h, c) PROVE ReportedInv'
  <2>1. CASE HandlerBegins(h, c) \/ HandlerPasses(h, c) \/ HandlerDrops(h, c)
    BY <2>1, <1>a DEF ReportedInv, testVars, HandlerBegins, HandlerPasses, HandlerDrops
  <2>2. CASE HandlerFails(h, c)
    <3>1. h[1] \in Tests /\ pc[h[1]] \in {"exec", "wait", "clear", "collect"} => c \in registered
      BY <2>2 DEF HandlerFails, RegisteredInv
    <3>2. UNCHANGED <<pc, verdict, registered>> /\ errs' = [errs EXCEPT ![c] = errs[c] \cup {h[1]}]
      BY <2>2 DEF HandlerFails, testVars
    <3>3. reported' = IF h[1] = InitHook \/ pc[h[1]] \in {"exec", "wait", "clear", "collect"}
                        THEN reported \cup {h[1]} ELSE reported
      BY <2>2 DEF HandlerFails
    <3>4. InitHook \notin Tests
      BY ScenarioAssumption
    <3> QED  BY <1>a, <3>1, <3>2, <3>3, <3>4 DEF ReportedInv
  <2> QED  BY <1>4, <2>1, <2>2 DEF HandlerStep
<1>5. CASE UNCHANGED vars
  BY <1>5, <1>a DEF ReportedInv, Active, runVars, testVars, vars
<1> QED  BY <1>1, <1>2, <1>3, <1>4, <1>5 DEF Next


\* An error tracked for a test case while it executes makes it fail, whatever
\* components it or others brought in and however many runs came before; provided
\* the test cases are executed one after the other.
THEOREM ErrorsDecide == ASSUME OneGroup PROVE Spec => []ErrorsFailTheirTest
<1>1. Init => BroughtInv /\ OneActive /\ RegisteredInv /\ ReportedInv
  BY DEF Init, BroughtInv, ReachedTests, OneActive, Active, RegisteredInv, Starting,
      ReportedInv, InSeq
<1>2. Init => HooksInv
  BY DEF Init, HooksInv, HooksScoped, Hooks, Without, HooksOf, PCs
<1>3. ReportedInv => ErrorsFailTheirTest
  BY DEF ReportedInv, ErrorsFailTheirTest
<1> QED  BY <1>1, <1>2, <1>3, TypeInvariant, HooksInvInductive, BroughtInvInductive,
      OneActiveInductive, RegisteredInvInductive, ReportedInvInductive, PTL DEF Spec

-----------------------------------------------------------------------------
(* The components under the steps of a test case                           *)

\* The configured components are up when the test cases begin, and nothing
\* stops them before run() is over with the groups; when the stop handler throws
\* they stay up, and the next run() finds them so.
ConfigUp ==
  /\ phase \in {"start", "startWait", "clientsWait", "initPending", "initWait"} => rejected = {}
  /\ phase \in {"start", "startWait"} =>
       \A j \in DOMAIN Ordered : j < at => cst[Ordered[j]] = "started"
  /\ phase = "clientsWait" => \A c \in Listed : cst[c] = "started"
  /\ phase \in {"initPending", "initWait", "tests"} => \A c \in Config : cst[c] = "started"
  /\ phase \in {"stop", "left"} /\ ReachedTests => \A c \in Config : cst[c] = "started"
  /\ phase \in {"stop", "clientsStopping", "stopOrdered", "stopWait", "done", "left"} =>
       rejected # {} \/ initError \/ AllDone
  /\ phase \in {"clientsStopping", "stopOrdered", "stopWait"} => at <= Len(Ordered)

\* Those the init handler brings in, in the first run().
InitUp ==
  /\ runs = 0 => phase = "idle" /\ registered = Config
  /\ phase \in {"start", "startWait", "clientsWait"} => initQueue = InSeq(InitBrings)
  /\ phase \in {"initPending", "initWait"} =>
       \A c \in InSeq(InitBrings) \ initQueue : cst[c] = "started"
  /\ phase = "tests" => \A c \in InSeq(InitBrings) : cst[c] = "started"

\* The hypothesis: one run() of the scenario; a test case uses the configured
\* components, those of the init handler and those it alone brings in.
OwnComponents ==
  /\ MaxRuns = 1
  /\ \A t \in Tests :
       /\ Uses[t] \subseteq Config \cup InSeq(InitBrings) \cup InSeq(Brings[t])
       /\ InSeq(Brings[t]) \cap InSeq(InitBrings) = {}
       /\ \A u \in Tests \ {t} : InSeq(Brings[t]) \cap InSeq(Brings[u]) = {}

\* What a component does on its own.
Evolves(c) ==
  \/ cst'[c] = cst[c]
  \/ cst[c] = "starting" /\ cst'[c] = "started"
  \/ cst[c] = "starting" /\ cst'[c] = "error" /\ c \in FlakyStart
  \/ cst[c] = "stopping" /\ cst'[c] \in {"stopped", "error"}

\* A step of run() leaves the components of the test cases alone.
LEMMA RunTouches ==
  ASSUME OwnComponents, TypeInv, BroughtInv, ConfigUp, InitUp, RunStep
  PROVE  /\ UNCHANGED <<pc, pending, own>>
         /\ registered' \subseteq registered \cup InSeq(InitBrings)
         /\ \A c \in Comps : c \notin Config /\ c \notin InSeq(InitBrings) => cst'[c] = cst[c]
<1> DEFINE G == /\ UNCHANGED <<pc, pending, own>>
                /\ registered' \subseteq registered \cup InSeq(InitBrings)
                /\ \A c \in Comps : c \notin Config /\ c \notin InSeq(InitBrings) => cst'[c] = cst[c]
<1> SUFFICES G
  OBVIOUS
<1>a. cst \in [Comps -> CStates] /\ runs \in 0..MaxRuns /\ MaxRuns = 1 /\ at \in Nat
  BY DEF TypeInv, ComponentTypes, RunTypes, OwnComponents
<1>b. ASSUME CanRun, NewTests PROVE UNCHANGED <<pc, pending, own>>
  <2>1. phase = "idle"
    BY <1>a, <1>b DEF CanRun, InitUp
  <2>2. \A t \in Tests : pc[t] = "idle" /\ pending[t] = {} /\ own[t] = {}
    BY <2>1 DEF BroughtInv, ReachedTests
  <2>3. /\ pc \in [Tests -> PCs] /\ pending \in [Tests -> SUBSET Dynamic]
        /\ own \in [Tests -> SUBSET Dynamic]
    BY DEF TypeInv, TestTypes
  <2> QED  BY <1>b, <2>2, <2>3 DEF NewTests
<1>c. Clients \subseteq Config
  BY DEF Config
<1>d. \A i \in 1..Len(Ordered) : Ordered[i] \in Config
  BY DEF Config, Listed
<1>e. phase \in {"start", "startWait"} => at > 0
  BY DEF BroughtInv
<1>1. CASE BeginRun \/ InitHandlerThrows \/ RunAgain
  BY <1>1, <1>b DEF G, BeginRun, InitHandlerThrows, RunAgain
<1>2. CASE StartNext
  BY <1>2, <1>a, <1>d, <1>e, ConstantTypes DEF G, StartNext, testVars, InitFails
<1>3. CASE StartClients
  BY <1>3, <1>a, <1>c DEF G, StartClients, testVars
<1>4. CASE StartInitPending
  BY <1>4, <1>a, NextInitType DEF G, StartInitPending, testVars, BroughtInv
<1>5. CASE StartSettled \/ ClientsSettled \/ InitPendingSettled \/ TestsEnd
  BY <1>5 DEF G, StartSettled, ClientsSettled, InitPendingSettled, TestsEnd,
      testVars
<1>6. CASE StopClients
  BY <1>6, <1>a, <1>c DEF G, StopClients, testVars
<1>7. CASE StopNext
  <2>1. at \in 1..Len(Ordered)
    BY <1>7, <1>a, ConstantTypes DEF StopNext, ConfigUp
  <2>2. Ordered[at] \in Config
    BY <1>d, <2>1
  <2> QED  BY <1>7, <1>a, <2>2 DEF StopNext, testVars
<1>8. CASE ClientsStopped \/ StopSettled \/ StopTimeout \/ StopHandlerThrows \/ EndRun
  BY <1>8, <1>a, <1>c DEF G, ClientsStopped, StopSettled, StopTimeout,
      StopHandlerThrows, EndRun, testVars
<1> QED  BY <1>1, <1>2, <1>3, <1>4, <1>5, <1>6, <1>7, <1>8 DEF RunStep


\* A step of a test case touches that test case and the components it brings in.
LEMMA TestTouches ==
  ASSUME TypeInv, BroughtInv, NEW t \in Tests, TestStep(t)
  PROVE  /\ UNCHANGED runVars /\ ReachedTests /\ pc[t] # "done" /\ rejected \subseteq rejected'
         /\ \A u \in Tests \ {t} :
              pc'[u] = pc[u] /\ pending'[u] = pending[u] /\ own'[u] = own[u]
         /\ registered' \subseteq registered \cup InSeq(Brings[t])
         /\ \A c \in Comps : c \notin InSeq(Brings[t]) => cst'[c] = cst[c]
<1> DEFINE R == /\ UNCHANGED runVars /\ (pc[t] # "idle" \/ IsNext(t)) /\ pc[t] # "done"
                /\ rejected \subseteq rejected'
           U == \A u \in Tests \ {t} :
                  pc'[u] = pc[u] /\ pending'[u] = pending[u] /\ own'[u] = own[u]
           C == /\ registered' \subseteq registered \cup InSeq(Brings[t])
                /\ \A c \in Comps : c \notin InSeq(Brings[t]) => cst'[c] = cst[c]
<1>a. /\ cst \in [Comps -> CStates] /\ pc \in [Tests -> PCs]
      /\ pending \in [Tests -> SUBSET Dynamic] /\ own \in [Tests -> SUBSET Dynamic]
  BY DEF TypeInv, TestTypes, ComponentTypes
<1>b. pending[t] # {} => NextPending(t) \in InSeq(Brings[t])
  BY NextPendingType DEF BroughtInv
<1>1. R
  <2>1. CASE ReporterThrows(t)
    BY <2>1 DEF R, ReporterThrows, IsNext
  <2>2. CASE ExecuteTestCase(t)
    BY <2>2 DEF R, ExecuteTestCase, IsNext
  <2>3. CASE BuildThrows(t)
    BY <2>3 DEF R, BuildThrows, IsNext
  <2>4. CASE StartPending(t)
    BY <2>4 DEF R, StartPending
  <2>5. CASE PendingSettled(t)
    BY <2>5 DEF R, PendingSettled
  <2>6. CASE PendingDone(t)
    BY <2>6 DEF R, PendingDone
  <2>7. CASE RegisterHooks(t)
    BY <2>7 DEF R, RegisterHooks
  <2>8. CASE StepPasses(t)
    BY <2>8 DEF R, StepPasses
  <2>9. CASE StepFails(t)
    BY <2>9 DEF R, StepFails
  <2>10. CASE StepsDone(t)
    BY <2>10 DEF R, StepsDone
  <2>11. CASE (\E c \in Comps : Phase3Clear(t, c))
    BY <2>11 DEF R, Phase3Clear, testVars
  <2>12. CASE Phase3Done(t)
    BY <2>12 DEF R, Phase3Done
  <2>13. CASE CollectErrors(t)
    BY <2>13 DEF R, CollectErrors
  <2>14. CASE CleanupNext(t)
    BY <2>14 DEF R, CleanupNext
  <2>15. CASE CleanupSettled(t)
    BY <2>15 DEF R, CleanupSettled
  <2>16. CASE CleanupDone(t)
    BY <2>16 DEF R, CleanupDone
  <2>17. CASE FinishTestCase(t)
    BY <2>17 DEF R, FinishTestCase
  <2>18. CASE WaitBegins(t)
    BY <2>18 DEF R, WaitBegins
  <2>19. CASE WaitEnds(t)
    BY <2>19 DEF R, WaitEnds
  <2> QED  BY <2>1, <2>2, <2>3, <2>4, <2>5, <2>6, <2>7, <2>8, <2>9, <2>10, <2>11,
      <2>12, <2>13, <2>14, <2>15, <2>16, <2>17, <2>18, <2>19 DEF TestStep
<1>2. U
  <2>1. CASE ReporterThrows(t)
    BY <2>1, <1>a DEF U, ReporterThrows, testVars
  <2>2. CASE ExecuteTestCase(t)
    BY <2>2, <1>a DEF U, ExecuteTestCase, testVars, Goto
  <2>3. CASE BuildThrows(t)
    BY <2>3, <1>a DEF U, BuildThrows, testVars, Goto
  <2>4. CASE StartPending(t)
    BY <2>4, <1>a DEF U, StartPending, testVars, Goto, PendingFails
  <2>5. CASE PendingSettled(t)
    BY <2>5, <1>a DEF U, PendingSettled, testVars, Goto, PendingFails
  <2>6. CASE PendingDone(t)
    BY <2>6, <1>a DEF U, PendingDone, testVars, Goto
  <2>7. CASE RegisterHooks(t)
    BY <2>7, <1>a DEF U, RegisterHooks, testVars, Goto
  <2>8. CASE StepPasses(t)
    BY <2>8, <1>a DEF U, StepPasses, testVars
  <2>9. CASE StepFails(t)
    BY <2>9, <1>a DEF U, StepFails, testVars, Goto
  <2>10. CASE StepsDone(t)
    BY <2>10, <1>a DEF U, StepsDone, testVars, Goto
  <2>11. CASE (\E c \in Comps : Phase3Clear(t, c))
    BY <2>11, <1>a DEF U, Phase3Clear, testVars
  <2>12. CASE Phase3Done(t)
    BY <2>12, <1>a DEF U, Phase3Done, testVars, Goto
  <2>13. CASE CollectErrors(t)
    BY <2>13, <1>a DEF U, CollectErrors, testVars, Goto
  <2>14. CASE CleanupNext(t)
    BY <2>14, <1>a DEF U, CleanupNext, testVars, Goto
  <2>15. CASE CleanupSettled(t)
    BY <2>15, <1>a DEF U, CleanupSettled, testVars, Goto
  <2>16. CASE CleanupDone(t)
    BY <2>16, <1>a DEF U, CleanupDone, testVars, Goto
  <2>17. CASE FinishTestCase(t)
    BY <2>17, <1>a DEF U, FinishTestCase, testVars, Goto
  <2>18. CASE WaitBegins(t)
    BY <2>18, <1>a DEF U, WaitBegins, testVars, Goto, Fail
  <2>19. CASE WaitEnds(t)
    BY <2>19, <1>a DEF U, WaitEnds, testVars, Goto, Fail
  <2> QED  BY <2>1, <2>2, <2>3, <2>4, <2>5, <2>6, <2>7, <2>8, <2>9, <2>10, <2>11,
      <2>12, <2>13, <2>14, <2>15, <2>16, <2>17, <2>18, <2>19 DEF TestStep
<1>3. C
  <2>1. CASE ReporterThrows(t)
    BY <2>1, <1>a DEF C, ReporterThrows
  <2>2. CASE ExecuteTestCase(t)
    BY <2>2, <1>a DEF C, ExecuteTestCase
  <2>3. CASE BuildThrows(t)
    BY <2>3, <1>a DEF C, BuildThrows
  <2>4. CASE StartPending(t)
    BY <2>4, <1>a, <1>b DEF C, StartPending
  <2>5. CASE PendingSettled(t)
    BY <2>5, <1>a DEF C, PendingSettled
  <2>6. CASE PendingDone(t)
    BY <2>6, <1>a DEF C, PendingDone
  <2>7. CASE RegisterHooks(t)
    BY <2>7, <1>a DEF C, RegisterHooks
  <2>8. CASE StepPasses(t)
    BY <2>8, <1>a DEF C, StepPasses
  <2>9. CASE StepFails(t)
    BY <2>9, <1>a DEF C, StepFails
  <2>10. CASE StepsDone(t)
    BY <2>10, <1>a DEF C, StepsDone
  <2>11. CASE (\E c \in Comps : Phase3Clear(t, c))
    BY <2>11, <1>a DEF C, Phase3Clear
  <2>12. CASE Phase3Done(t)
    BY <2>12, <1>a DEF C, Phase3Done
  <2>13. CASE CollectErrors(t)
    BY <2>13, <1>a DEF C, CollectErrors
  <2>14. CASE CleanupNext(t)
    BY <2>14, <1>a, <1>b DEF C, CleanupNext
  <2>15. CASE CleanupSettled(t)
    BY <2>15, <1>a DEF C, CleanupSettled
  <2>16. CASE CleanupDone(t)
    BY <2>16, <1>a DEF C, CleanupDone
  <2>17. CASE FinishTestCase(t)
    BY <2>17, <1>a DEF C, FinishTestCase
  <2>18. CASE WaitBegins(t)
    BY <2>18, <1>a DEF C, WaitBegins
  <2>19. CASE WaitEnds(t)
    BY <2>19, <1>a DEF C, WaitEnds
  <2> QED  BY <2>1, <2>2, <2>3, <2>4, <2>5, <2>6, <2>7, <2>8, <2>9, <2>10, <2>11,
      <2>12, <2>13, <2>14, <2>15, <2>16, <2>17, <2>18, <2>19 DEF TestStep
<1>4. ReachedTests
  BY <1>1 DEF BroughtInv, IsNext
<1> QED  BY <1>1, <1>2, <1>3, <1>4

LEMMA ComponentTouches ==
  ASSUME TypeInv, NEW c \in Comps, StartEnds(c) \/ StopEnds(c) \/ RejectWaits(c)
  PROVE  UNCHANGED <<runVars, registered, testVars>> /\ \A d \in Comps : Evolves(d)
<1>1. cst \in [Comps -> CStates]
  BY DEF TypeInv, ComponentTypes
<1> QED  BY <1>1 DEF StartEnds, StopEnds, DoStartOk, DoStartFails, DoStopOk, DoStopFails, RejectWaits, Evolves

LEMMA HandlerTouches ==
  ASSUME NEW h \in Hooks, NEW c \in Comps, HandlerStep(h, c)
  PROVE  UNCHANGED <<runVars, registered, testVars, cst>>
  BY DEF HandlerStep, HandlerBegins, HandlerPasses, HandlerFails, HandlerDrops, Reject


\* The configured components stay up while the test cases execute.
LEMMA ConfigUpInductive ==
  TypeInv /\ BroughtInv /\ ConfigUp /\ [Next]_vars => ConfigUp'
<1> SUFFICES ASSUME TypeInv, BroughtInv, ConfigUp, [Next]_vars PROVE ConfigUp'
  OBVIOUS
<1>a. cst \in [Comps -> CStates] /\ at \in Nat
  BY DEF TypeInv, RunTypes, ComponentTypes
<1>b. /\ Config \cap Dynamic = {} /\ InSeq(InitBrings) \subseteq Dynamic
      /\ \A t \in Tests : InSeq(Brings[t]) \subseteq Dynamic
      /\ Config \subseteq Comps /\ Dynamic \subseteq Comps
  BY ConstantTypes, ScenarioAssumption
<1>c. Len(Ordered) \in Nat /\ DOMAIN Ordered = 1..Len(Ordered)
  BY ScenarioAssumption DEF Ordered
<1>d. Listed \subseteq Config /\ Clients \subseteq Config /\ Config = Listed \cup Clients
  BY DEF Config
<1>e. \A j \in DOMAIN Ordered : Ordered[j] \in Listed
  BY <1>c DEF Listed
<1>f. ASSUME phase' = "stop", initError', rejected' = {} PROVE ConfigUp'
  BY <1>f DEF ConfigUp, ReachedTests
<1>1. CASE RunStep
  <2>1. CASE BeginRun
    BY <2>1, <1>a, <1>b, <1>c DEF ConfigUp, BeginRun, CanRun, NewTests
  <2>2. CASE InitHandlerThrows
    BY <2>2, <1>f DEF InitHandlerThrows, NewTests
  <2>3. CASE RunAgain
    BY <2>3, <1>a DEF ConfigUp, RunAgain, CanRun, Initialized
  <2>4. CASE StartNext
    <3>1. phase = "start" /\ at <= Len(Ordered) /\ rejected' = rejected /\ rejected = {} /\ at \in DOMAIN Ordered
      BY <2>4, <1>a, <1>c DEF StartNext, ConfigUp, BroughtInv, testVars
    <3>2. CASE InitFails
      BY <3>1, <3>2, <1>f DEF InitFails
    <3>3. CASE /\ CanStart(Ordered[at]) /\ cst' = [cst EXCEPT ![Ordered[at]] = "starting"]
               /\ phase' = "startWait" /\ at' = at
      <4>1. \A j \in DOMAIN Ordered : j < at => cst'[Ordered[j]] = "started"
        BY <3>1, <3>3, <1>a, <1>b, <1>d, <1>e DEF ConfigUp, CanStart
      <4> QED  BY <3>1, <3>3, <4>1 DEF ConfigUp
    <3> QED  BY <2>4, <3>2, <3>3 DEF StartNext
  <2>5. CASE StartSettled
    <3>1. phase = "startWait" /\ rejected' = rejected /\ rejected = {} /\ cst' = cst
      BY <2>5 DEF StartSettled, ConfigUp, testVars
    <3>2. CASE InitFails
      BY <3>1, <3>2, <1>f DEF InitFails
    <3>3. CASE cst[Ordered[at]] = "started" /\ phase' = "start" /\ at' = at + 1
      <4>1. \A j \in DOMAIN Ordered : j < at' => cst'[Ordered[j]] = "started"
        BY <3>1, <3>3, <1>a, <1>c DEF ConfigUp
      <4> QED  BY <3>1, <3>3, <4>1 DEF ConfigUp
    <3> QED  BY <2>5, <3>2, <3>3 DEF StartSettled
  <2>6. CASE StartClients
    <3>1. phase = "start" /\ rejected' = rejected /\ rejected = {}
      BY <2>6 DEF StartClients, ConfigUp, testVars
    <3>2. CASE InitFails
      BY <3>1, <3>2, <1>f DEF InitFails
    <3>3. CASE phase' = "clientsWait"
      <4>1. \A c \in Listed : cst[c] = "started"
        BY <2>6, <1>a, <1>c DEF StartClients, ConfigUp, Listed
      <4>2. \A c \in Listed : cst'[c] = "started"
        BY <2>6, <4>1, <1>b, <1>d DEF StartClients, CanStart
      <4> QED  BY <3>1, <3>3, <4>2 DEF ConfigUp
    <3> QED  BY <2>6, <3>2, <3>3 DEF StartClients
  <2>7. CASE ClientsSettled
    <3>1. phase = "clientsWait" /\ rejected' = rejected /\ rejected = {} /\ cst' = cst
      BY <2>7 DEF ClientsSettled, ConfigUp, testVars
    <3>2. CASE InitFails
      BY <3>1, <3>2, <1>f DEF InitFails
    <3>3. CASE (\A c \in Clients : cst[c] = "started") /\ phase' = "initPending"
      BY <3>1, <3>3, <1>d DEF ConfigUp
    <3> QED  BY <2>7, <3>2, <3>3 DEF ClientsSettled
  <2>8. CASE StartInitPending
    <3>1. phase = "initPending" /\ rejected' = rejected /\ rejected = {}
      BY <2>8 DEF StartInitPending, ConfigUp, testVars
    <3>2. CASE InitFails
      BY <3>1, <3>2, <1>f DEF InitFails
    <3>3. CASE phase' \in {"initWait", "tests"}
      <4>1. initQueue # {} => NextInit \in initQueue /\ NextInit \in Dynamic
        BY NextInitType, <1>b DEF BroughtInv
      <4>2. \A c \in Config : cst'[c] = "started"
        BY <2>8, <3>1, <4>1, <1>a, <1>b DEF StartInitPending, ConfigUp
      <4> QED  BY <3>1, <3>3, <4>2 DEF ConfigUp
    <3> QED  BY <2>8, <3>2, <3>3 DEF StartInitPending
  <2>9. CASE InitPendingSettled
    <3>1. phase = "initWait" /\ rejected' = rejected /\ rejected = {} /\ cst' = cst
      BY <2>9 DEF InitPendingSettled, ConfigUp, testVars
    <3>2. CASE InitFails
      BY <3>1, <3>2, <1>f DEF InitFails
    <3>3. CASE phase' = "initPending"
      BY <3>1, <3>3 DEF ConfigUp
    <3> QED  BY <2>9, <3>2, <3>3 DEF InitPendingSettled
  <2>10. CASE TestsEnd
    BY <2>10 DEF ConfigUp, TestsEnd, AllDone, testVars
  <2>11. CASE StopClients
    BY <2>11, <1>c DEF ConfigUp, StopClients, AllDone, testVars
  <2>12. CASE StopNext
    BY <2>12, <1>a, <1>c DEF ConfigUp, StopNext, AllDone, testVars
  <2>13. CASE StopHandlerThrows
    BY <2>13 DEF ConfigUp, StopHandlerThrows, AllDone, testVars, ReachedTests
  <2>14. CASE ClientsStopped \/ StopSettled \/ StopTimeout \/ EndRun
    BY <2>14, <1>a, <1>c DEF ConfigUp, ClientsStopped, StopSettled, StopTimeout, EndRun,
        AllDone, testVars
  <2> QED  BY <1>1, <2>1, <2>2, <2>3, <2>4, <2>5, <2>6, <2>7, <2>8, <2>9, <2>10,
      <2>11, <2>12, <2>13, <2>14 DEF RunStep
<1>2. ASSUME NEW t \in Tests, TestStep(t) PROVE ConfigUp'
  <2>1. /\ UNCHANGED <<phase, initError, at>> /\ rejected \subseteq rejected'
        /\ pc[t] # "done" /\ ReachedTests
        /\ phase \notin {"start", "startWait", "clientsWait", "initPending", "initWait"}
    BY <1>2, TestTouches DEF runVars, ReachedTests
  <2>2. \A c \in Config : cst'[c] = cst[c]
    BY <1>2, TestTouches, <1>b
  <2>3. ~AllDone
    BY <2>1 DEF AllDone
  <2>4. rejected # {} => rejected' # {}
    BY <2>1
  <2> QED  BY <2>1, <2>2, <2>3, <2>4 DEF ConfigUp
<1>3. ASSUME NEW c \in Comps, StartEnds(c) \/ StopEnds(c) \/ RejectWaits(c) PROVE ConfigUp'
  <2>1. UNCHANGED <<phase, initError, at, rejected, pc>>
    BY <1>3, ComponentTouches DEF runVars, testVars
  <2>2. \A d \in Comps : cst[d] = "started" => cst'[d] = "started"
    BY <1>3, ComponentTouches DEF Evolves
  <2>3. \A j \in DOMAIN Ordered : Ordered[j] \in Comps
    BY <1>b, <1>d, <1>e
  <2>4. Listed \subseteq Comps /\ Config \subseteq Comps
    BY <1>b, <1>d
  <2> QED  BY <2>1, <2>2, <2>3, <2>4 DEF ConfigUp, AllDone, ReachedTests
<1>4. ASSUME NEW h \in Hooks, NEW c \in Comps, HandlerStep(h, c) PROVE ConfigUp'
  BY <1>4, HandlerTouches DEF ConfigUp, runVars, testVars, AllDone, ReachedTests
<1>5. CASE UNCHANGED vars
  BY <1>5 DEF ConfigUp, vars, runVars, testVars, AllDone, ReachedTests
<1> QED  BY <1>1, <1>2, <1>3, <1>4, <1>5 DEF Next

\* A configured component under the steps of a test case is up while it executes
\* its steps, in every run() of the scenario, whatever the test cases bring in
\* besides, whatever fails and whichever groups go on beside it: the part of
\* UsedComponentsUp that needs no hypothesis.
THEOREM ConfiguredStayUp ==
  Spec => [](rejected = {} =>
               \A t \in Tests : pc[t] \in {"exec", "wait"} => \A c \in Uses[t] \cap Config : cst[c] = "started")
<1> DEFINE Up == rejected = {} =>
                   \A t \in Tests : pc[t] \in {"exec", "wait"} => \A c \in Uses[t] \cap Config : cst[c] = "started"
<1>1. Init => BroughtInv /\ ConfigUp
  BY DEF Init, BroughtInv, ConfigUp, ReachedTests
<1>2. BroughtInv /\ ConfigUp => Up
  <2> SUFFICES ASSUME BroughtInv, ConfigUp, rejected = {}, NEW t \in Tests, pc[t] \in {"exec", "wait"},
                      NEW c \in Uses[t] \cap Config
               PROVE  cst[c] = "started"
    OBVIOUS
  <2>1. ReachedTests /\ ~AllDone
    BY DEF BroughtInv, AllDone
  <2> QED  BY <2>1 DEF ReachedTests, ConfigUp
<1> SUFFICES Spec => []Up
  OBVIOUS
<1> HIDE DEF Up
<1> QED  BY <1>1, <1>2, TypeInvariant, BroughtInvInductive, ConfigUpInductive, PTL DEF Spec

\* What the init handler brought in stays up as well.
LEMMA InitUpInductive ==
  ASSUME OwnComponents
  PROVE  TypeInv /\ BroughtInv /\ ConfigUp /\ InitUp /\ [Next]_vars => InitUp'
<1> SUFFICES ASSUME TypeInv, BroughtInv, ConfigUp, InitUp, [Next]_vars PROVE InitUp'
  OBVIOUS
<1>a. cst \in [Comps -> CStates] /\ runs \in 0..MaxRuns /\ MaxRuns = 1
  BY DEF TypeInv, RunTypes, ComponentTypes, OwnComponents
<1>b. /\ Config \cap Dynamic = {} /\ InSeq(InitBrings) \subseteq Dynamic /\ Dynamic \subseteq Comps
  BY ConstantTypes, ScenarioAssumption
<1>1. CASE RunStep
  <2>1. CASE BeginRun
    BY <2>1, <1>a, <1>b DEF InitUp, BeginRun, CanRun
  <2>2. CASE InitHandlerThrows
    BY <2>2, <1>a DEF InitUp, InitHandlerThrows, CanRun
  <2>3. CASE RunAgain
    BY <2>3, <1>a DEF InitUp, RunAgain, CanRun, Initialized
  <2>4. CASE StartNext \/ StartSettled \/ StartClients
    BY <2>4 DEF InitUp, StartNext, StartSettled, StartClients, InitFails
  <2>5. CASE ClientsSettled
    BY <2>5 DEF InitUp, ClientsSettled, InitFails
  <2>6. CASE StartInitPending
    <3>1. initQueue # {} => NextInit \in initQueue
      BY NextInitType DEF BroughtInv
    <3>2. \A c \in InSeq(InitBrings) \ initQueue : cst'[c] = "started"
      BY <2>6, <3>1, <1>a, <1>b DEF StartInitPending, InitUp
    <3>3. /\ phase' \in {"stop", "initWait", "tests"} /\ (phase' = "tests" => initQueue = {})
          /\ runs' = runs /\ registered' = registered /\ initQueue' = initQueue /\ phase = "initPending"
      BY <2>6 DEF StartInitPending, InitFails
    <3> QED  BY <3>2, <3>3 DEF InitUp
  <2>7. CASE InitPendingSettled
    BY <2>7 DEF InitUp, InitPendingSettled, InitFails
  <2>8. CASE StopClients \/ StopNext \/ ClientsStopped \/ StopSettled \/ StopTimeout
             \/ StopHandlerThrows \/ EndRun \/ TestsEnd
    BY <2>8 DEF InitUp, StopClients, StopNext, ClientsStopped, StopSettled, StopTimeout,
        StopHandlerThrows, EndRun, TestsEnd
  <2> QED  BY <1>1, <2>1, <2>2, <2>3, <2>4, <2>5, <2>6, <2>7, <2>8 DEF RunStep
<1>2. ASSUME NEW t \in Tests, TestStep(t) PROVE InitUp'
  <2>1. /\ UNCHANGED <<phase, runs, initQueue>> /\ phase # "idle"
        /\ phase \notin {"start", "startWait", "clientsWait", "initPending", "initWait"}
    BY <1>2, TestTouches DEF runVars, ReachedTests
  <2>2. \A c \in InSeq(InitBrings) : cst'[c] = cst[c]
    BY <1>2, TestTouches, <1>b DEF OwnComponents
  <2> QED  BY <2>1, <2>2 DEF InitUp
<1>3. ASSUME NEW c \in Comps, StartEnds(c) \/ StopEnds(c) \/ RejectWaits(c) PROVE InitUp'
  <2>1. UNCHANGED <<phase, runs, initQueue, registered>>
    BY <1>3, ComponentTouches DEF runVars
  <2>2. \A d \in Comps : cst[d] = "started" => cst'[d] = "started"
    BY <1>3, ComponentTouches DEF Evolves
  <2> QED  BY <1>b, <2>1, <2>2 DEF InitUp
<1>4. ASSUME NEW h \in Hooks, NEW c \in Comps, HandlerStep(h, c) PROVE InitUp'
  BY <1>4, HandlerTouches DEF InitUp, runVars
<1>5. CASE UNCHANGED vars
  BY <1>5 DEF InitUp, vars, runVars
<1> QED  BY <1>1, <1>2, <1>3, <1>4, <1>5 DEF Next


\* Where each component t brings in is while t starts and uses it.
OwnUp(t) ==
  /\ pc[t] = "idle" => \A c \in InSeq(Brings[t]) : c \notin registered /\ cst[c] = "created"
  /\ pc[t] \in {"pending", "pendingWait"} =>
       /\ own[t] = InSeq(Brings[t])
       /\ \A c \in own[t] \ pending[t] : cst[c] = "started"
       /\ \A c \in pending[t] :
            cst[c] = "created" \/ (pc[t] = "pendingWait" /\ c = NextPending(t))
  /\ pc[t] \in {"hooks", "exec", "wait"} => \A c \in InSeq(Brings[t]) : cst[c] = "started"

\* It stays there while others move and the components evolve.
LEMMA OwnUpStays ==
  ASSUME NEW t \in Tests, OwnUp(t), own[t] \subseteq InSeq(Brings[t]), pending[t] \subseteq own[t],
         pc'[t] = pc[t], pending'[t] = pending[t], own'[t] = own[t],
         \A c \in InSeq(Brings[t]) : Evolves(c) /\ (c \notin registered => c \notin registered')
  PROVE  OwnUp(t)'
<1>1. \A c \in InSeq(Brings[t]) : /\ cst[c] = "created" => cst'[c] = "created"
                                  /\ cst[c] = "started" => cst'[c] = "started"
  BY DEF Evolves
<1>2. NextPending(t)' = NextPending(t)
  BY DEF NextPending
<1> QED  BY <1>1, <1>2 DEF OwnUp

LEMMA OwnUpInductive ==
  ASSUME OwnComponents
  PROVE  TypeInv /\ BroughtInv /\ ConfigUp /\ InitUp /\ (\A t \in Tests : OwnUp(t)) /\ [Next]_vars
           => \A t \in Tests : OwnUp(t)'
<1> SUFFICES ASSUME TypeInv, BroughtInv, ConfigUp, InitUp, \A t \in Tests : OwnUp(t), [Next]_vars,
                    NEW t \in Tests
             PROVE  OwnUp(t)'
  OBVIOUS
<1>a. /\ cst \in [Comps -> CStates] /\ pc \in [Tests -> PCs]
      /\ pending \in [Tests -> SUBSET Dynamic] /\ own \in [Tests -> SUBSET Dynamic]
  BY DEF TypeInv, TestTypes, ComponentTypes
<1>b. InSeq(Brings[t]) \subseteq Comps /\ InSeq(Brings[t]) \cap Config = {}
  BY ConstantTypes, ScenarioAssumption
<1>c. OwnUp(t) /\ own[t] \subseteq InSeq(Brings[t]) /\ pending[t] \subseteq own[t]
  BY DEF BroughtInv
<1>d. InSeq(Brings[t]) \cap InSeq(InitBrings) = {}
  BY DEF OwnComponents
<1>1. CASE RunStep
  BY <1>1, <1>b, <1>c, <1>d, RunTouches, OwnUpStays DEF Evolves
<1>2. ASSUME NEW u \in Tests, TestStep(u), u # t PROVE OwnUp(t)'
  <2>1. InSeq(Brings[t]) \cap InSeq(Brings[u]) = {}
    BY <1>2 DEF OwnComponents
  <2>2. /\ pc'[t] = pc[t] /\ pending'[t] = pending[t] /\ own'[t] = own[t]
        /\ registered' \subseteq registered \cup InSeq(Brings[u])
        /\ \A c \in Comps : c \notin InSeq(Brings[u]) => cst'[c] = cst[c]
    BY <1>2, TestTouches
  <2> QED  BY <1>b, <1>c, <2>1, <2>2, OwnUpStays DEF Evolves
<1>3. CASE TestStep(t)
  <2>a. pending[t] # {} => NextPending(t) \in pending[t]
    BY NextPendingType
  <2>b. pc[t] \in {"pendingWait", "cleanupWait"} => pending[t] # {}
    BY DEF BroughtInv
  <2>1. CASE ReporterThrows(t)
    BY <2>1, <1>a, <1>b, <1>c DEF OwnUp, ReporterThrows, IsNext
  <2>2. CASE ExecuteTestCase(t)
    <3>1. pc[t] = "idle" /\ pc'[t] = "pending"
      BY <2>2, <1>a DEF ExecuteTestCase, IsNext, Goto
    <3>2. InSeq(Brings[t]) \ registered = InSeq(Brings[t])
      BY <3>1, <1>c DEF OwnUp
    <3>3. own'[t] = InSeq(Brings[t]) /\ pending'[t] = InSeq(Brings[t]) /\ cst' = cst
      BY <2>2, <3>2, <1>a DEF ExecuteTestCase
    <3> QED  BY <3>1, <3>3, <1>c DEF OwnUp
  <2>3. CASE BuildThrows(t)
    BY <2>3, <1>a DEF OwnUp, BuildThrows, Goto
  <2>4. CASE StartPending(t)
    <3>1. pc[t] = "pending" /\ NextPending(t) \in pending[t]
      BY <2>4, <2>a DEF StartPending
    <3>2. CASE pc'[t] = "collect"
      BY <3>2 DEF OwnUp
    <3>3. CASE pc'[t] = "pendingWait" /\ cst' = [cst EXCEPT ![NextPending(t)] = "starting"]
               /\ UNCHANGED <<pending, own>>
      <4>1. NextPending(t)' = NextPending(t)
        BY <3>3 DEF NextPending
      <4>2. \A c \in Comps : c # NextPending(t) => cst'[c] = cst[c]
        BY <3>3, <1>a
      <4> QED  BY <1>b, <1>c, <3>1, <3>3, <4>1, <4>2 DEF OwnUp
    <3> QED  BY <2>4, <1>a, <3>2, <3>3 DEF StartPending, PendingFails, Goto
  <2>5. CASE PendingSettled(t)
    <3>1. pc[t] = "pendingWait" /\ cst' = cst
      BY <2>5 DEF PendingSettled
    <3>2. CASE pc'[t] = "collect"
      BY <3>2 DEF OwnUp
    <3>3. CASE /\ pc'[t] = "pending" /\ own'[t] = own[t]
               /\ pending'[t] = pending[t] \ {NextPending(t)} /\ cst[NextPending(t)] = "started"
      BY <1>c, <3>1, <3>3 DEF OwnUp
    <3> QED  BY <2>5, <1>a, <3>2, <3>3 DEF PendingSettled, PendingFails, Goto
  <2>6. CASE PendingDone(t)
    BY <2>6, <1>a, <1>c DEF OwnUp, PendingDone, Goto
  <2>7. CASE RegisterHooks(t)
    BY <2>7, <1>a, <1>c DEF OwnUp, RegisterHooks, Goto
  <2>8. CASE StepPasses(t) \/ StepFails(t) \/ StepsDone(t) \/ WaitBegins(t) \/ WaitEnds(t)
    BY <2>8, <1>a, <1>c DEF OwnUp, StepPasses, StepFails, StepsDone, WaitBegins, WaitEnds, Goto
  <2>9. CASE (\E c \in Comps : Phase3Clear(t, c))
    BY <2>9, <1>c DEF OwnUp, Phase3Clear, testVars
  <2>10. CASE Phase3Done(t) \/ CollectErrors(t)
    BY <2>10, <1>a DEF OwnUp, Phase3Done, CollectErrors, Goto
  <2>11. CASE CleanupNext(t) \/ CleanupSettled(t)
    BY <2>11, <1>a DEF OwnUp, CleanupNext, CleanupSettled, Goto
  <2>12. CASE CleanupDone(t) \/ FinishTestCase(t)
    BY <2>12, <1>a DEF OwnUp, CleanupDone, FinishTestCase, Goto
  <2> QED  BY <1>3, <2>1, <2>2, <2>3, <2>4, <2>5, <2>6, <2>7, <2>8, <2>9, <2>10,
      <2>11, <2>12 DEF TestStep
<1>4. ASSUME NEW c \in Comps, StartEnds(c) \/ StopEnds(c) \/ RejectWaits(c) PROVE OwnUp(t)'
  BY <1>4, <1>b, <1>c, ComponentTouches, OwnUpStays DEF testVars
<1>5. ASSUME NEW h \in Hooks, NEW c \in Comps, HandlerStep(h, c) PROVE OwnUp(t)'
  BY <1>5, <1>b, <1>c, HandlerTouches, OwnUpStays DEF testVars, Evolves
<1>6. CASE UNCHANGED vars
  BY <1>6, <1>b, <1>c, OwnUpStays DEF vars, testVars, Evolves
<1> QED  BY <1>1, <1>2, <1>3, <1>4, <1>5, <1>6 DEF Next

LEMMA OwnUpInvariant ==
  ASSUME OwnComponents
  PROVE  Spec => [](TypeInv /\ BroughtInv /\ ConfigUp /\ InitUp /\ \A t \in Tests : OwnUp(t))
<1>1. Init => BroughtInv
  BY DEF Init, BroughtInv, ReachedTests
<1>2. Init => ConfigUp /\ InitUp
  BY DEF Init, ConfigUp, InitUp, ReachedTests
<1>3. Init => \A t \in Tests : OwnUp(t)
  <2>1. \A t \in Tests : InSeq(Brings[t]) \subseteq Comps /\ InSeq(Brings[t]) \cap Config = {}
    BY ConstantTypes, ScenarioAssumption
  <2> QED  BY <2>1 DEF Init, OwnUp
<1> DEFINE Up == \A t \in Tests : OwnUp(t)
<1>4. TypeInv /\ BroughtInv /\ ConfigUp /\ InitUp /\ Up /\ [Next]_vars => Up'
  BY OwnUpInductive
<1>5. Init => Up
  BY <1>3
<1> SUFFICES Spec => [](TypeInv /\ BroughtInv /\ ConfigUp /\ InitUp /\ Up)
  OBVIOUS
<1> HIDE DEF Up
<1> QED  BY <1>1, <1>2, <1>4, <1>5, TypeInvariant, BroughtInvInductive, ConfigUpInductive,
      InitUpInductive, PTL DEF Spec

\* The components under the steps of a test case are up while it executes its
\* steps, for any number of groups that go on beside it and end in any order:
\* those of the configuration, of the init handler, and those it alone brings in.
THEOREM UsedStayUp == ASSUME OwnComponents PROVE Spec => []UsedComponentsUp
<1>1. TypeInv /\ BroughtInv /\ ConfigUp /\ InitUp /\ (\A t \in Tests : OwnUp(t)) => UsedComponentsUp
  <2> SUFFICES ASSUME BroughtInv, ConfigUp, InitUp, \A u \in Tests : OwnUp(u), rejected = {},
                      NEW t \in Tests, pc[t] \in {"exec", "wait"}, NEW c \in Uses[t]
               PROVE  cst[c] = "started"
    BY DEF UsedComponentsUp
  <2>1. ReachedTests /\ ~AllDone
    BY DEF BroughtInv, AllDone
  <2>2. phase = "tests"
    BY <2>1 DEF ReachedTests, ConfigUp
  <2>3. OwnUp(t) /\ c \in Config \cup InSeq(InitBrings) \cup InSeq(Brings[t])
    BY DEF OwnComponents
  <2> QED  BY <2>2, <2>3 DEF ConfigUp, InitUp, OwnUp
<1> QED  BY <1>1, OwnUpInvariant, PTL

-----------------------------------------------------------------------------
(* What is left of a test case when it is over                             *)

\* What becomes of them until t is over.
OwnDown(t) ==
  /\ pc[t] = "pendingWait" =>
       \/ cst[NextPending(t)] \in {"starting", "started"}
       \/ cst[NextPending(t)] = "error" /\ NextPending(t) \in FlakyStart
  /\ pc[t] \in {"hooks", "exec", "wait", "clear"} =>
       own[t] = InSeq(Brings[t]) /\ \A c \in own[t] : cst[c] = "started"
  /\ pc[t] = "collect" =>
       \/ own[t] = InSeq(Brings[t]) /\ \A c \in own[t] : cst[c] = "started"
       \/ own[t] = {} /\ \A c \in InSeq(Brings[t]) : cst[c] \in {"created", "error"}
  /\ pc[t] \in {"cleanup", "cleanupWait"} => \A c \in InSeq(Brings[t]) :
       \/ c \in pending[t] /\ cst[c] = "started"
       \/ c \notin pending[t] /\ cst[c] \notin {"starting", "started"}
       \/ pc[t] = "cleanupWait" /\ c = NextPending(t) /\ cst[c] \in {"stopping", "stopped", "error"}
  /\ pc[t] \in {"final", "done"} =>
       \A c \in InSeq(Brings[t]) : cst[c] \notin {"starting", "started"}

\* The hypothesis: a component that may not start is the only one its test case
\* brings in.
FlakyAlone ==
  \A t \in Tests : \A c, d \in InSeq(Brings[t]) : c \in FlakyStart => c = d

LEMMA OwnDownStays ==
  ASSUME NEW t \in Tests, OwnDown(t), BroughtInv,
         pc'[t] = pc[t], pending'[t] = pending[t], own'[t] = own[t],
         \A c \in InSeq(Brings[t]) : Evolves(c)
  PROVE  OwnDown(t)'
<1>1. own[t] \subseteq InSeq(Brings[t]) /\ pending[t] \subseteq own[t]
  BY DEF BroughtInv
<1>2. \A c \in InSeq(Brings[t]) :
        /\ cst[c] = "started" => cst'[c] = "started"
        /\ cst[c] \in {"created", "error"} => cst'[c] = cst[c]
        /\ cst[c] \notin {"starting", "started"} => cst'[c] \notin {"starting", "started"}
        /\ cst[c] \in {"stopping", "stopped", "error"} => cst'[c] \in {"stopping", "stopped", "error"}
        /\ cst[c] = "starting" =>
             cst'[c] \in {"starting", "started"} \/ (cst'[c] = "error" /\ c \in FlakyStart)
  BY DEF Evolves
<1>3. NextPending(t)' = NextPending(t)
  BY DEF NextPending
<1>4. pc[t] \in {"pendingWait", "cleanupWait"} => NextPending(t) \in InSeq(Brings[t])
  BY <1>1, NextPendingType DEF BroughtInv
<1>5. ASSUME pc[t] \in {"cleanup", "cleanupWait"}, NEW c \in InSeq(Brings[t])
      PROVE  \/ c \in pending[t] /\ cst'[c] = "started"
             \/ c \notin pending[t] /\ cst'[c] \notin {"starting", "started"}
             \/ pc[t] = "cleanupWait" /\ c = NextPending(t) /\ cst'[c] \in {"stopping", "stopped", "error"}
  BY <1>2, <1>5 DEF OwnDown
<1>6. pc[t] = "collect" =>
       \/ own[t] = InSeq(Brings[t]) /\ \A c \in own[t] : cst'[c] = "started"
       \/ own[t] = {} /\ \A c \in InSeq(Brings[t]) : cst'[c] \in {"created", "error"}
  BY <1>1, <1>2 DEF OwnDown
<1>7. pc[t] = "pendingWait" =>
       \/ cst'[NextPending(t)] \in {"starting", "started"}
       \/ cst'[NextPending(t)] = "error" /\ NextPending(t) \in FlakyStart
  BY <1>2, <1>4 DEF OwnDown
<1>8. pc[t] \in {"hooks", "exec", "wait", "clear"} =>
       own[t] = InSeq(Brings[t]) /\ \A c \in own[t] : cst'[c] = "started"
  BY <1>1, <1>2 DEF OwnDown
<1>9. pc[t] \in {"final", "done"} =>
       \A c \in InSeq(Brings[t]) : cst'[c] \notin {"starting", "started"}
  BY <1>2 DEF OwnDown
<1> QED  BY <1>3, <1>5, <1>6, <1>7, <1>8, <1>9 DEF OwnDown

LEMMA OwnDownInductive ==
  ASSUME OwnComponents, FlakyAlone
  PROVE  TypeInv /\ BroughtInv /\ ConfigUp /\ InitUp /\ (\A t \in Tests : OwnUp(t))
           /\ (\A t \in Tests : OwnDown(t)) /\ [Next]_vars
           => \A t \in Tests : OwnDown(t)'
<1> SUFFICES ASSUME TypeInv, BroughtInv, ConfigUp, InitUp, \A t \in Tests : OwnUp(t),
                    \A t \in Tests : OwnDown(t), [Next]_vars, NEW t \in Tests
             PROVE  OwnDown(t)'
  OBVIOUS
<1>a. /\ cst \in [Comps -> CStates] /\ pc \in [Tests -> PCs]
      /\ pending \in [Tests -> SUBSET Dynamic] /\ own \in [Tests -> SUBSET Dynamic]
  BY DEF TypeInv, TestTypes, ComponentTypes
<1>b. InSeq(Brings[t]) \subseteq Comps /\ InSeq(Brings[t]) \cap Config = {}
  BY ConstantTypes, ScenarioAssumption
<1>c. OwnUp(t) /\ OwnDown(t) /\ own[t] \subseteq InSeq(Brings[t]) /\ pending[t] \subseteq own[t]
  BY DEF BroughtInv
<1>d. InSeq(Brings[t]) \cap InSeq(InitBrings) = {}
  BY DEF OwnComponents
<1>1. CASE RunStep
  BY <1>1, <1>b, <1>c, <1>d, RunTouches, OwnDownStays DEF Evolves
<1>2. ASSUME NEW u \in Tests, TestStep(u), u # t PROVE OwnDown(t)'
  <2>1. InSeq(Brings[t]) \cap InSeq(Brings[u]) = {}
    BY <1>2 DEF OwnComponents
  <2>2. /\ pc'[t] = pc[t] /\ pending'[t] = pending[t] /\ own'[t] = own[t]
        /\ \A c \in Comps : c \notin InSeq(Brings[u]) => cst'[c] = cst[c]
    BY <1>2, TestTouches
  <2> QED  BY <1>b, <1>c, <2>1, <2>2, OwnDownStays DEF Evolves
<1>3. CASE TestStep(t)
  <2>a. pending[t] # {} => NextPending(t) \in pending[t]
    BY NextPendingType
  <2>b. pc[t] \in {"pendingWait", "cleanupWait"} => pending[t] # {}
    BY DEF BroughtInv
  <2>1. CASE ReporterThrows(t)
    BY <2>1, <1>b, <1>c, OwnDownStays DEF OwnDown, ReporterThrows, Evolves
  <2>2. CASE ExecuteTestCase(t)
    BY <2>2, <1>a DEF OwnDown, ExecuteTestCase, Goto
  <2>3. CASE BuildThrows(t)
    <3>1. pc[t] = "idle" /\ pc'[t] = "collect" /\ cst' = cst /\ own' = own
      BY <2>3, <1>a DEF BuildThrows, IsNext, Goto
    <3>2. own[t] = {} /\ \A c \in InSeq(Brings[t]) : cst[c] = "created"
      BY <3>1, <1>c DEF BroughtInv, OwnUp
    <3> QED  BY <3>1, <3>2 DEF OwnDown
  <2>4. CASE StartPending(t)
    <3>1. pc[t] = "pending" /\ NextPending(t) \in pending[t] /\ cst[NextPending(t)] = "created"
      BY <2>4, <1>c, <2>a DEF StartPending, OwnUp
    <3>2. /\ pc'[t] = "pendingWait" /\ cst' = [cst EXCEPT ![NextPending(t)] = "starting"]
          /\ UNCHANGED pending
      BY <2>4, <1>a, <3>1 DEF StartPending, CanStart, Goto
    <3>3. NextPending(t)' = NextPending(t)
      BY <3>2 DEF NextPending
    <3>4. cst'[NextPending(t)] = "starting"
      BY <1>a, <1>b, <1>c, <3>1, <3>2
    <3> QED  BY <3>2, <3>3, <3>4 DEF OwnDown
  <2>5. CASE PendingSettled(t)
    <3>1. pc[t] = "pendingWait" /\ cst' = cst /\ NextPending(t) \in InSeq(Brings[t])
      BY <2>5, <1>c, <2>a, <2>b DEF PendingSettled
    <3>2. CASE pc'[t] = "collect" /\ own'[t] = {} /\ cst[NextPending(t)] = "error"
      <4>1. NextPending(t) \in FlakyStart
        BY <3>1, <3>2, <1>c DEF OwnDown
      <4>2. \A c \in InSeq(Brings[t]) : c = NextPending(t)
        BY <3>1, <4>1 DEF FlakyAlone
      <4> QED  BY <3>1, <3>2, <4>2 DEF OwnDown
    <3>3. CASE pc'[t] = "pending"
      BY <3>3 DEF OwnDown
    <3> QED  BY <2>5, <1>a, <3>2, <3>3 DEF PendingSettled, PendingFails, Goto
  <2>6. CASE PendingDone(t)
    BY <2>6, <1>a, <1>c DEF OwnDown, PendingDone, Goto, OwnUp
  <2>7. CASE RegisterHooks(t)
    BY <2>7, <1>a, <1>c DEF OwnDown, RegisterHooks, Goto
  <2>8. CASE StepPasses(t)
    BY <2>8, <1>b, <1>c, OwnDownStays DEF OwnDown, StepPasses, Evolves
  <2>9. CASE StepFails(t) \/ StepsDone(t) \/ WaitBegins(t) \/ WaitEnds(t)
    BY <2>9, <1>a, <1>c DEF OwnDown, StepFails, StepsDone, WaitBegins, WaitEnds, Goto
  <2>10. CASE (\E c \in Comps : Phase3Clear(t, c))
    BY <2>10, <1>b, <1>c, OwnDownStays DEF OwnDown, Phase3Clear, testVars, Evolves
  <2>11. CASE Phase3Done(t)
    BY <2>11, <1>a, <1>c DEF OwnDown, Phase3Done, Goto
  <2>12. CASE CollectErrors(t)
    <3>1. /\ pc[t] = "collect" /\ pc'[t] = "cleanup" /\ pending'[t] = own[t]
          /\ cst' = cst
      BY <2>12, <1>a DEF CollectErrors, Goto
    <3> QED  BY <3>1, <1>c DEF OwnDown
  <2>13. CASE CleanupNext(t)
    <3>1. pc[t] = "cleanup" /\ NextPending(t) \in pending[t] /\ NextPending(t) \in Comps
      BY <2>13, <1>b, <1>c, <2>a DEF CleanupNext
    <3>2. cst[NextPending(t)] = "started"
      BY <1>c, <3>1 DEF OwnDown
    <3>3. /\ pc'[t] = "cleanupWait" /\ cst' = [cst EXCEPT ![NextPending(t)] = "stopping"]
          /\ UNCHANGED pending
      BY <2>13, <1>a, <3>2 DEF CleanupNext, CanStop, Goto
    <3>4. NextPending(t)' = NextPending(t)
      BY <3>3 DEF NextPending
    <3>5. /\ cst'[NextPending(t)] = "stopping"
          /\ \A c \in Comps : c # NextPending(t) => cst'[c] = cst[c]
      BY <1>a, <3>1, <3>3
    <3>6. ASSUME NEW c \in InSeq(Brings[t])
          PROVE  \/ c \in pending[t] /\ cst'[c] = "started"
                 \/ c \notin pending[t] /\ cst'[c] \notin {"starting", "started"}
                 \/ c = NextPending(t) /\ cst'[c] = "stopping"
      BY <1>b, <1>c, <3>1, <3>5, <3>6 DEF OwnDown
    <3> QED  BY <3>3, <3>4, <3>6 DEF OwnDown
  <2>14. CASE CleanupSettled(t)
    <3>1. /\ pc[t] = "cleanupWait" /\ pc'[t] = "cleanup" /\ cst' = cst
          /\ cst[NextPending(t)] \in {"stopped", "error"}
          /\ pending'[t] = pending[t] \ {NextPending(t)}
      BY <2>14, <1>a DEF CleanupSettled, Goto
    <3> QED  BY <3>1, <1>c DEF OwnDown
  <2>15. CASE CleanupDone(t)
    <3>1. pc[t] = "cleanup" /\ pc'[t] = "final" /\ cst' = cst /\ pending[t] = {}
      BY <2>15, <1>a DEF CleanupDone, Goto
    <3> QED  BY <3>1, <1>c DEF OwnDown
  <2>16. CASE FinishTestCase(t)
    BY <2>16, <1>a, <1>c DEF OwnDown, FinishTestCase, Goto
  <2> QED  BY <1>3, <2>1, <2>2, <2>3, <2>4, <2>5, <2>6, <2>7, <2>8, <2>9, <2>10,
      <2>11, <2>12, <2>13, <2>14, <2>15, <2>16 DEF TestStep
<1>4. ASSUME NEW c \in Comps, StartEnds(c) \/ StopEnds(c) \/ RejectWaits(c) PROVE OwnDown(t)'
  BY <1>4, <1>b, <1>c, ComponentTouches, OwnDownStays DEF testVars
<1>5. ASSUME NEW h \in Hooks, NEW c \in Comps, HandlerStep(h, c) PROVE OwnDown(t)'
  BY <1>5, <1>b, <1>c, HandlerTouches, OwnDownStays DEF testVars, Evolves
<1>6. CASE UNCHANGED vars
  BY <1>6, <1>b, <1>c, OwnDownStays DEF vars, testVars, Evolves
<1> QED  BY <1>1, <1>2, <1>3, <1>4, <1>5, <1>6 DEF Next

\* A component that a test case brought in is stopped, failed, or was never
\* started when that test case is over, whatever failed on the way; provided a
\* start that fails leaves no other component of the test case started.
THEOREM BroughtGoDown == ASSUME OwnComponents, FlakyAlone PROVE Spec => []DynamicCleanedUp
<1> DEFINE Up   == \A t \in Tests : OwnUp(t)
           Down == \A t \in Tests : OwnDown(t)
<1>1. Init => Down
  BY DEF Init, OwnDown
<1>2. TypeInv /\ BroughtInv /\ ConfigUp /\ InitUp /\ Up /\ Down /\ [Next]_vars => Down'
  BY OwnDownInductive
<1>3. Down => DynamicCleanedUp
  BY DEF OwnDown, DynamicCleanedUp
<1>4. Spec => [](TypeInv /\ BroughtInv /\ ConfigUp /\ InitUp /\ Up)
  BY OwnUpInvariant
<1> HIDE DEF Up, Down
<1> QED  BY <1>1, <1>2, <1>3, <1>4, PTL DEF Spec
=============================================================================
