-------------------------- MODULE SubscriberProofs --------------------------
(***************************************************************************)
(* Proofs about Subscriber, for any test cases, programs, topics and       *)
(* bounds.  TypeCorrect rests on one lemma per action that changes more    *)
(* than one variable; StopLeavesNothing on the inductive invariant StopInv *)
(* of Subscriber.                                                          *)
(***************************************************************************)
EXTENDS Subscriber, TLAPS

\* Every step of a program is a Step.
LEMMA StepType ==
  ASSUME NEW t \in Tests, NEW i \in DOMAIN Program[t]
  PROVE  Program[t][i] \in Step
<1>1. Program[t] \in Seq(Step)
  BY SubscriberAssumption DEF SubscriberAssumption
<1> QED  BY <1>1

\* The current step of a test case is one of its program.
LEMMA CurType ==
  ASSUME TypeOK, NEW t \in Tests, HasStep(t)
  PROVE  Cur(t) \in Step
<1>1. Program[t] \in Seq(Step)
  BY SubscriberAssumption DEF SubscriberAssumption
<1>2. step[t] \in DOMAIN Program[t]
  BY <1>1 DEF TypeOK, HasStep
<1> QED  BY <1>2, StepType DEF Cur

\* The initial values have their types.
LEMMA InitType ==
  Init => TypeOK
<1> SUFFICES ASSUME Init PROVE TypeOK
  OBVIOUS
<1> USE SubscriberAssumption DEF Init
<1>1. claim \in [Hooks -> 0..MaxMsgs] /\ msgs \in 0..MaxMsgs /\ starts \in 0..MaxStarts
  OBVIOUS
<1>2. step \in [Tests -> Nat \ {0}]
  OBVIOUS
<1> QED  BY <1>1, <1>2 DEF TypeOK

\* addTopics changes the call and the entry of t to values of their types.
LEMMA AddTopicsType ==
  ASSUME TypeOK, NEW t \in Tests, NEW T \in SUBSET Topics, AddTopics(t, T)
  PROVE  /\ call' \in [Tests -> {"none", "create", "subscribe", "unsubscribe"}]
         /\ wanted' \in [Tests -> SUBSET Topics]
         /\ ast' \in [Tests -> {"none", "creating", "open", "closing", "closed"}]
         /\ entry' \subseteq Tests
         /\ topics' \in [Tests -> SUBSET Topics] /\ broker' \in [Tests -> SUBSET Topics]
  BY DEF TypeOK, AddTopics

\* unsubscribe() of the adapter ends.
LEMMA UnsubscribeEndsType ==
  ASSUME TypeOK, NEW t \in Tests, UnsubscribeEnds(t)
  PROVE  TypeOK'
<1>1. pc' \in [Tests -> {"idle", "ready", "phase15", "exec", "call", "wait",
                       "clear", "closing", "cleared", "closing2", "done"}]
  BY DEF TypeOK, UnsubscribeEnds, Resume, ResumeFailed, Awaited
<1>2. step' \in [Tests -> Nat \ {0}]
  BY DEF TypeOK, UnsubscribeEnds, NextStep
<1>3. broker' \in [Tests -> SUBSET Topics]
  BY DEF TypeOK, UnsubscribeEnds
<1>4. call' \in [Tests -> {"none", "create", "subscribe",
    "unsubscribe"}] /\ wanted' \in [Tests -> SUBSET Topics]
  BY DEF TypeOK, UnsubscribeEnds, CallEnds
<1> QED  BY <1>1, <1>2, <1>3, <1>4 DEF UnsubscribeEnds, TypeOK, lifeVars, tcVars,
    callVars, mqVars, hookVars

\* Registration: the topics derived are those of the program's hook steps.
LEMMA RegisterHooksType ==
  ASSUME TypeOK, NEW t \in Tests, RegisterHooks(t)
  PROVE  TypeOK'
<1>1. hooks' \subseteq Hooks
  BY DEF TypeOK, RegisterHooks, Hooks, HookSteps
<1>2. \A i \in HookSteps(t) : Program[t][i].topics \subseteq Topics
  BY StepType DEF HookSteps, Step
<1>3. derived' \in [Tests -> SUBSET Topics]
  BY <1>2 DEF TypeOK, RegisterHooks
<1> QED  BY <1>1, <1>3 DEF RegisterHooks, Goto, TypeOK, lifeVars, tcVars, callVars,
    mqVars, hookVars

\* Phase 1.5 starts the auto-subscribe call, is refused or has nothing to do.
LEMMA AfterHooksRegisteredType ==
  ASSUME TypeOK, NEW t \in Tests, AfterHooksRegistered(t)
  PROVE  TypeOK'
<1>1. derived[t] \in SUBSET Topics
  BY DEF TypeOK
<1>2. CASE AddTopics(t, derived[t]) /\ Goto(t, "phase15")
  BY <1>1, <1>2, AddTopicsType DEF AfterHooksRegistered, Goto, TypeOK, lifeVars, tcVars,
      hookVars
<1>3. CASE UNCHANGED <<callVars, mqVars>> /\ (Goto(t, "clear") \/ Goto(t, "exec"))
  BY <1>3 DEF AfterHooksRegistered, Goto, TypeOK, lifeVars, tcVars, callVars, mqVars,
      hookVars
<1> QED BY <1>2, <1>3 DEF AfterHooksRegistered

\* A subscribe step, with topics given or the hook-derived ones.
LEMMA ExecuteSubscribeType ==
  ASSUME TypeOK, NEW t \in Tests, ExecuteSubscribe(t)
  PROVE  TypeOK'
<1> DEFINE T == IF Cur(t).topics = {} THEN derived[t] ELSE Cur(t).topics
<1>1. T \in SUBSET Topics
  BY CurType DEF TypeOK, ExecuteSubscribe, At, Step
<1>2. CASE AddTopics(t, T) /\ Goto(t, "call") /\ UNCHANGED step
  <2> HIDE DEF T
  <2> QED BY <1>1, <1>2, AddTopicsType DEF ExecuteSubscribe, Goto, TypeOK, lifeVars,
      tcVars, hookVars
<1>3. CASE Skip(t) /\ UNCHANGED <<pc, callVars, mqVars>>
  BY <1>3 DEF ExecuteSubscribe, Skip, TypeOK, lifeVars, tcVars, callVars, mqVars, hookVars
<1>4. CASE Goto(t, "clear") /\ UNCHANGED <<step, callVars, mqVars>>
  BY <1>4 DEF ExecuteSubscribe, Goto, TypeOK, lifeVars, tcVars, callVars, mqVars, hookVars
<1> QED BY <1>2, <1>3, <1>4 DEF ExecuteSubscribe

\* An unsubscribe step, of topics that are held.
LEMMA ExecuteUnsubscribeType ==
  ASSUME TypeOK, NEW t \in Tests, ExecuteUnsubscribe(t)
  PROVE  TypeOK'
<1> DEFINE T == IF t \notin entry THEN {}
              ELSE IF Cur(t).topics = {} THEN topics[t] ELSE Cur(t).topics \cap topics[t]
<1>1. T \in SUBSET Topics
  BY DEF TypeOK
<1>2. CASE Skip(t) /\ UNCHANGED <<pc, callVars, topics>>
  BY <1>2 DEF ExecuteUnsubscribe, Skip, TypeOK, lifeVars, tcVars, callVars, mqVars, hookVars
<1>3. CASE /\ topics' = [topics EXCEPT ![t] = @ \ T]
          /\ call' = [call EXCEPT ![t] = "unsubscribe"] /\ wanted' = [wanted EXCEPT ![t] = T]
          /\ Goto(t, "call") /\ UNCHANGED step
  <2> HIDE DEF T
  <2> QED BY <1>1, <1>3 DEF ExecuteUnsubscribe, Goto, TypeOK, lifeVars, tcVars, callVars,
      mqVars, hookVars
<1> QED BY <1>2, <1>3 DEF ExecuteUnsubscribe

\* A wait step ends with the message, or with the error of its handler.
LEMMA WaitEndsType ==
  ASSUME TypeOK, NEW t \in Tests, WaitEnds(t)
  PROVE  TypeOK'
<1>1. step' \in [Tests -> Nat \ {0}] /\ hooks' \subseteq Hooks
  BY DEF TypeOK, WaitEnds, Skip
<1>2. pc' \in [Tests -> {"idle", "ready", "phase15", "exec", "call", "wait",
                       "clear", "closing", "cleared", "closing2", "done"}]
  BY DEF TypeOK, WaitEnds, Goto
<1> QED  BY <1>1, <1>2 DEF WaitEnds, TypeOK, lifeVars, callVars, mqVars

\* A delivery: the hook that takes the message is a registered one.
LEMMA HandleMessageType ==
  ASSUME TypeOK, NEW t \in Tests, NEW m \in Topics, HandleMessage(t, m)
  PROVE  TypeOK'
<1>1. Candidates(t, m) \subseteq Hooks
  BY DEF TypeOK, Candidates, HooksOf
<1>2. msgs' \in 0..MaxMsgs /\ msgs + 1 \in 0..MaxMsgs
  BY SubscriberAssumption DEF TypeOK, HandleMessage
<1>3. resolved' \subseteq Hooks
  BY <1>1 DEF TypeOK, HandleMessage
<1>4. claim' \in [Hooks -> 0..MaxMsgs]
  BY <1>1, <1>2 DEF TypeOK, HandleMessage
<1>5. errs' \subseteq Tests
  BY DEF TypeOK, HandleMessage
<1> QED BY <1>2, <1>3, <1>4, <1>5 DEF HandleMessage, TypeOK, lifeVars, tcVars, callVars,
    mqVars, hookVars

\* Every variable keeps its type, with hooks, resolutions and rejections those
\* of steps of the programs.
THEOREM TypeCorrect == Spec => []TypeOK
<1>1. TypeOK /\ [Next]_vars => TypeOK'
  <2> SUFFICES ASSUME TypeOK, [Next]_vars PROVE TypeOK'
    OBVIOUS
  <2> USE SubscriberAssumption
  <2>1. CASE Start
    BY <2>1 DEF TypeOK, lifeVars, tcVars, callVars, mqVars, hookVars, Start
  <2>2. CASE DoStop
    BY <2>2 DEF TypeOK, lifeVars, tcVars, callVars, mqVars, hookVars, DoStop
  <2>3. CASE StopStep
    <3>1. CASE StopDrained
      BY <3>1 DEF TypeOK, lifeVars, tcVars, callVars, mqVars, hookVars, StopDrained,
          RejectAll, Unsettled
    <3>2. CASE StopClosed
      BY <3>2 DEF TypeOK, lifeVars, tcVars, callVars, mqVars, hookVars, StopClosed
    <3> QED  BY <2>3, <3>1, <3>2 DEF StopStep
  <2>4. ASSUME NEW t \in Tests, CallStep(t) PROVE TypeOK'
    <3>1. CASE CreateOk(t)
      BY <3>1 DEF TypeOK, lifeVars, tcVars, callVars, mqVars, hookVars, CreateOk
    <3>2. CASE CreateFails(t)
      BY <3>2 DEF TypeOK, lifeVars, tcVars, callVars, mqVars, hookVars, CreateFails,
          CallEnds, ResumeFailed, Awaited
    <3>3. CASE SubscribeOk(t)
      BY <3>3 DEF TypeOK, lifeVars, tcVars, callVars, mqVars, hookVars, SubscribeOk,
          CallEnds, Resume, Awaited, NextStep
    <3>4. CASE SubscribeFails(t)
      BY <3>4 DEF TypeOK, lifeVars, tcVars, callVars, mqVars, hookVars, SubscribeFails,
          CallEnds, ResumeFailed, Awaited
    <3>5. CASE UnsubscribeEnds(t)
      BY <3>5, UnsubscribeEndsType
    <3>6. CASE CloseEnds(t)
      BY <3>6 DEF TypeOK, lifeVars, tcVars, callVars, mqVars, hookVars, CloseEnds
    <3> QED  BY <2>4, <3>1, <3>2, <3>3, <3>4, <3>5, <3>6 DEF CallStep
  <2>5. ASSUME NEW t \in Tests, TestStep(t) PROVE TypeOK'
    <3>1. CASE RegisterHooks(t)
      BY <3>1, RegisterHooksType
    <3>2. CASE AfterHooksRegistered(t)
      BY <3>2, AfterHooksRegisteredType
    <3>3. CASE OtherComponentFails(t)
      BY <3>3 DEF TypeOK, lifeVars, tcVars, callVars, mqVars, hookVars,
          OtherComponentFails, Goto
    <3>4. CASE ExecuteOnMessage(t)
      BY <3>4 DEF TypeOK, lifeVars, tcVars, callVars, mqVars, hookVars, ExecuteOnMessage,
          Skip
    <3>5. CASE ExecuteSubscribe(t)
      BY <3>5, ExecuteSubscribeType
    <3>6. CASE ExecuteUnsubscribe(t)
      BY <3>6, ExecuteUnsubscribeType
    <3>7. CASE ExecuteWaitMessage(t)
      BY <3>7 DEF TypeOK, lifeVars, tcVars, callVars, mqVars, hookVars,
          ExecuteWaitMessage, Goto, At, HasStep
    <3>8. CASE WaitEnds(t)
      BY <3>8, WaitEndsType
    <3>9. CASE WaitRejected(t)
      BY <3>9 DEF TypeOK, lifeVars, tcVars, callVars, mqVars, hookVars, WaitRejected, Goto
    <3>10. CASE WaitTimeout(t)
      BY <3>10 DEF TypeOK, lifeVars, tcVars, callVars, mqVars, hookVars, WaitTimeout, Goto
    <3>11. CASE StepsDone(t)
      BY <3>11 DEF TypeOK, lifeVars, tcVars, callVars, mqVars, hookVars, StepsDone, Goto
    <3>12. CASE ClearHooks(t)
      BY <3>12 DEF TypeOK, lifeVars, tcVars, callVars, mqVars, hookVars, ClearHooks,
          Goto, HooksOf
    <3>13. CASE ClearSettled(t)
      BY <3>13 DEF TypeOK, lifeVars, tcVars, callVars, mqVars, hookVars, ClearSettled, Goto
    <3> QED  BY <2>5, <3>1, <3>2, <3>3, <3>4, <3>5, <3>6, <3>7, <3>8, <3>9, <3>10, <3>11,
        <3>12, <3>13 DEF TestStep
  <2>6. ASSUME NEW t \in Tests, AdapterEvent(t) PROVE TypeOK'
    <3>1. CASE \E m \in Topics : HandleMessage(t, m)
      BY <3>1, HandleMessageType
    <3>2. CASE HandleAdapterError(t)
      BY <3>2 DEF TypeOK, lifeVars, tcVars, callVars, mqVars, hookVars, HandleAdapterError
    <3>3. CASE HandleAdapterDisconnect(t)
      BY <3>3 DEF TypeOK, lifeVars, tcVars, callVars, mqVars, hookVars,
          HandleAdapterDisconnect, RejectAll, Unsettled, HooksOf
    <3> QED  BY <2>6, <3>1, <3>2, <3>3 DEF AdapterEvent
  <2>7. CASE UNCHANGED vars
    BY <2>7 DEF TypeOK, lifeVars, tcVars, callVars, mqVars, hookVars, vars, hookVars
  <2> QED  BY <2>1, <2>2, <2>3, <2>4, <2>5, <2>6, <2>7 DEF Next
<1> QED  BY InitType, <1>1, PTL DEF Spec

\* The strengthening of StoppedClean is inductive.
LEMMA StopInvInductive == TypeOK /\ StopInv /\ [Next]_vars => StopInv'
<1> SUFFICES ASSUME TypeOK, StopInv, [Next]_vars PROVE StopInv'
  OBVIOUS
<1>1. CASE Start
  BY <1>1 DEF TypeOK, StopInv, lifeVars, tcVars, callVars, mqVars, Start
<1>2. CASE DoStop
  BY <1>2 DEF TypeOK, StopInv, lifeVars, tcVars, callVars, mqVars, DoStop
<1>3. CASE StopStep
  <2>1. CASE StopDrained
    BY <2>1 DEF TypeOK, StopInv, lifeVars, tcVars, callVars, mqVars, StopDrained,
        RejectAll, Unsettled
  <2>2. CASE StopClosed
    BY <2>2 DEF TypeOK, StopInv, lifeVars, tcVars, callVars, mqVars, StopClosed
  <2> QED  BY <1>3, <2>1, <2>2 DEF StopStep
<1>4. ASSUME NEW t \in Tests, CallStep(t) PROVE StopInv'
  <2>1. CASE CreateOk(t)
    BY <2>1 DEF TypeOK, StopInv, lifeVars, tcVars, callVars, mqVars, CreateOk
  <2>2. CASE CreateFails(t)
    BY <2>2 DEF TypeOK, StopInv, lifeVars, tcVars, callVars, mqVars, CreateFails,
        CallEnds, ResumeFailed, Awaited
  <2>3. CASE SubscribeOk(t)
    BY <2>3 DEF TypeOK, StopInv, lifeVars, tcVars, callVars, mqVars, SubscribeOk,
        CallEnds, Resume, Awaited, NextStep
  <2>4. CASE SubscribeFails(t)
    BY <2>4 DEF TypeOK, StopInv, lifeVars, tcVars, callVars, mqVars, SubscribeFails,
        CallEnds, ResumeFailed, Awaited
  <2>5. CASE UnsubscribeEnds(t)
    BY <2>5 DEF TypeOK, StopInv, lifeVars, tcVars, callVars, mqVars, UnsubscribeEnds,
        CallEnds, Resume, ResumeFailed, Awaited, NextStep
  <2>6. CASE CloseEnds(t)
    BY <2>6 DEF TypeOK, StopInv, lifeVars, tcVars, callVars, mqVars, CloseEnds
  <2> QED  BY <1>4, <2>1, <2>2, <2>3, <2>4, <2>5, <2>6 DEF CallStep
<1>5. ASSUME NEW t \in Tests, TestStep(t) PROVE StopInv'
  <2>1. CASE RegisterHooks(t)
    BY <2>1 DEF TypeOK, StopInv, lifeVars, tcVars, callVars, mqVars, RegisterHooks, Goto,
        HookSteps
  <2>2. CASE AfterHooksRegistered(t)
    BY <2>2 DEF TypeOK, StopInv, lifeVars, tcVars, callVars, mqVars,
        AfterHooksRegistered, AddTopics, AddRefused, Goto
  <2>3. CASE OtherComponentFails(t)
    BY <2>3 DEF TypeOK, StopInv, lifeVars, tcVars, callVars, mqVars, OtherComponentFails,
        Goto
  <2>4. CASE ExecuteOnMessage(t)
    BY <2>4 DEF TypeOK, StopInv, lifeVars, tcVars, callVars, mqVars, ExecuteOnMessage, Skip
  <2>5. CASE ExecuteSubscribe(t)
    <3>1. UNCHANGED <<cst, isStopping, stopAt, closes>>
      BY <2>5 DEF ExecuteSubscribe, lifeVars
    <3>2. pc[t] = "exec"
      BY <2>5 DEF ExecuteSubscribe, At, HasStep
    <3>3. CASE UNCHANGED <<pc, callVars, mqVars>> \/ (Goto(t, "clear") /\ UNCHANGED <<callVars, mqVars>>)
      BY <3>1, <3>2, <3>3 DEF TypeOK, StopInv, callVars, mqVars, Goto
    <3>4. CASE Goto(t, "call") /\ \E T : AddTopics(t, T)
      <4>1. ~(pc[t] \in {"closing", "closing2"})
        BY <3>2
      <4>2. CASE UNCHANGED <<ast, entry>> /\ t \in entry /\ call' = [call EXCEPT ![t] = "subscribe"]
        BY <3>1, <3>4, <4>1, <4>2 DEF TypeOK, StopInv, Goto
      <4>3. CASE /\ t \notin entry /\ ~isStopping
                 /\ call' = [call EXCEPT ![t] = "create"]
                 /\ ast' = [ast EXCEPT ![t] = "creating"] /\ UNCHANGED entry
        BY <3>1, <3>4, <4>1, <4>3 DEF TypeOK, StopInv, Goto
      <4> QED  BY <3>4, <4>2, <4>3 DEF AddTopics
    <3> QED  BY <2>5, <3>3, <3>4 DEF ExecuteSubscribe, AddRefused
  <2>6. CASE ExecuteUnsubscribe(t)
    BY <2>6 DEF TypeOK, StopInv, lifeVars, tcVars, callVars, mqVars, ExecuteUnsubscribe,
        Goto, At, HasStep, Cur, Skip
  <2>7. CASE ExecuteWaitMessage(t)
    BY <2>7 DEF TypeOK, StopInv, lifeVars, tcVars, callVars, mqVars, ExecuteWaitMessage,
        Goto, At, HasStep
  <2>8. CASE WaitEnds(t)
    BY <2>8 DEF TypeOK, StopInv, lifeVars, tcVars, callVars, mqVars, WaitEnds, Goto, Skip
  <2>9. CASE WaitRejected(t)
    BY <2>9 DEF TypeOK, StopInv, lifeVars, tcVars, callVars, mqVars, WaitRejected, Goto
  <2>10. CASE WaitTimeout(t)
    BY <2>10 DEF TypeOK, StopInv, lifeVars, tcVars, callVars, mqVars, WaitTimeout, Goto
  <2>11. CASE StepsDone(t)
    BY <2>11 DEF TypeOK, StopInv, lifeVars, tcVars, callVars, mqVars, StepsDone, Goto
  <2>12. CASE ClearHooks(t)
    BY <2>12 DEF TypeOK, StopInv, lifeVars, tcVars, callVars, mqVars, ClearHooks, Goto,
        HooksOf
  <2>13. CASE ClearSettled(t)
    BY <2>13 DEF TypeOK, StopInv, lifeVars, tcVars, callVars, mqVars, ClearSettled, Goto
  <2> QED  BY <1>5, <2>1, <2>2, <2>3, <2>4, <2>5, <2>6, <2>7, <2>8, <2>9, <2>10, <2>11,
      <2>12, <2>13 DEF TestStep
<1>6. ASSUME NEW t \in Tests, AdapterEvent(t) PROVE StopInv'
  <2>1. CASE \E m \in Topics : HandleMessage(t, m)
    BY <2>1 DEF TypeOK, StopInv, lifeVars, tcVars, callVars, mqVars, HandleMessage,
        Candidates, HooksOf
  <2>2. CASE HandleAdapterError(t)
    BY <2>2 DEF TypeOK, StopInv, lifeVars, tcVars, callVars, mqVars, HandleAdapterError
  <2>3. CASE HandleAdapterDisconnect(t)
    BY <2>3 DEF TypeOK, StopInv, lifeVars, tcVars, callVars, mqVars,
        HandleAdapterDisconnect, RejectAll, Unsettled, HooksOf
  <2> QED  BY <1>6, <2>1, <2>2, <2>3 DEF AdapterEvent
<1>7. CASE UNCHANGED vars
  BY <1>7 DEF TypeOK, StopInv, lifeVars, tcVars, callVars, mqVars, vars, hookVars
<1> QED  BY <1>1, <1>2, <1>3, <1>4, <1>5, <1>6, <1>7 DEF Next

\* When doStop is over, no test case has an adapter open or being created, and
\* none has an entry: whatever creations were in flight when stop() came, and
\* however the test cases were executing.
THEOREM StopLeavesNothing == Spec => []StoppedClean
<1>1. Init => StopInv
  BY DEF Init, StopInv
<1>2. StopInv => StoppedClean
  BY DEF StopInv, StoppedClean
<1> QED  BY <1>1, <1>2, TypeCorrect, StopInvInductive, PTL DEF Spec

\* No test case ever has two adapters at once: ensureTestCaseEntry creates one
\* only when the last is gone, also under stop() and after an abort.
THEOREM AdapterUnique == Spec => OneLiveAdapter
<1> DEFINE A == \A t \in Tests :
      ast'[t] = "creating" /\ ast[t] # "creating" => ast[t] \in {"none", "closed"}
<1>1. Init => StopInv
  BY DEF Init, StopInv
<1>2. TypeOK /\ StopInv /\ [Next]_vars => A
  <2> SUFFICES ASSUME TypeOK, StopInv, [Next]_vars PROVE A
    OBVIOUS
  <2>1. CASE Start
    BY <2>1 DEF TypeOK, StopInv, lifeVars, tcVars, callVars, mqVars, A, Start
  <2>2. CASE DoStop
    BY <2>2 DEF TypeOK, StopInv, lifeVars, tcVars, callVars, mqVars, A, DoStop
  <2>3. CASE StopStep
    <3>1. CASE StopDrained
      BY <3>1 DEF TypeOK, StopInv, lifeVars, tcVars, callVars, mqVars, A, StopDrained,
          RejectAll, Unsettled
    <3>2. CASE StopClosed
      BY <3>2 DEF TypeOK, StopInv, lifeVars, tcVars, callVars, mqVars, A, StopClosed
    <3> QED  BY <2>3, <3>1, <3>2 DEF StopStep
  <2>4. ASSUME NEW t \in Tests, CallStep(t) PROVE A
    <3>1. CASE CreateOk(t)
      BY <3>1 DEF TypeOK, StopInv, lifeVars, tcVars, callVars, mqVars, A, CreateOk
    <3>2. CASE CreateFails(t)
      BY <3>2 DEF TypeOK, StopInv, lifeVars, tcVars, callVars, mqVars, A, CreateFails,
          CallEnds, ResumeFailed, Awaited
    <3>3. CASE SubscribeOk(t)
      BY <3>3 DEF TypeOK, StopInv, lifeVars, tcVars, callVars, mqVars, A, SubscribeOk,
          CallEnds, Resume, Awaited, NextStep
    <3>4. CASE SubscribeFails(t)
      BY <3>4 DEF TypeOK, StopInv, lifeVars, tcVars, callVars, mqVars, A, SubscribeFails,
          CallEnds, ResumeFailed, Awaited
    <3>5. CASE UnsubscribeEnds(t)
      BY <3>5 DEF TypeOK, StopInv, lifeVars, tcVars, callVars, mqVars, A,
          UnsubscribeEnds, CallEnds, Resume, ResumeFailed, Awaited, NextStep
    <3>6. CASE CloseEnds(t)
      BY <3>6 DEF TypeOK, StopInv, lifeVars, tcVars, callVars, mqVars, A, CloseEnds
    <3> QED  BY <2>4, <3>1, <3>2, <3>3, <3>4, <3>5, <3>6 DEF CallStep
  <2>5. ASSUME NEW t \in Tests, TestStep(t) PROVE A
    <3>1. CASE RegisterHooks(t)
      BY <3>1 DEF TypeOK, StopInv, lifeVars, tcVars, callVars, mqVars, A, RegisterHooks,
          Goto, HookSteps
    <3>2. CASE AfterHooksRegistered(t)
      BY <3>2 DEF TypeOK, StopInv, lifeVars, tcVars, callVars, mqVars, A,
          AfterHooksRegistered, AddTopics, AddRefused, Goto
    <3>3. CASE OtherComponentFails(t)
      BY <3>3 DEF TypeOK, StopInv, lifeVars, tcVars, callVars, mqVars, A,
          OtherComponentFails, Goto
    <3>4. CASE ExecuteOnMessage(t)
      BY <3>4 DEF TypeOK, StopInv, lifeVars, tcVars, callVars, mqVars, A,
          ExecuteOnMessage, Skip
    <3>5. CASE ExecuteSubscribe(t)
      BY <3>5 DEF TypeOK, StopInv, lifeVars, tcVars, callVars, mqVars, A,
          ExecuteSubscribe, AddTopics, AddRefused, Goto, At, HasStep, Cur, Skip
    <3>6. CASE ExecuteUnsubscribe(t)
      BY <3>6 DEF TypeOK, StopInv, lifeVars, tcVars, callVars, mqVars, A,
          ExecuteUnsubscribe, Goto, At, HasStep, Cur, Skip
    <3>7. CASE ExecuteWaitMessage(t)
      BY <3>7 DEF TypeOK, StopInv, lifeVars, tcVars, callVars, mqVars, A,
          ExecuteWaitMessage, Goto, At, HasStep
    <3>8. CASE WaitEnds(t)
      BY <3>8 DEF TypeOK, StopInv, lifeVars, tcVars, callVars, mqVars, A, WaitEnds, Goto,
          Skip
    <3>9. CASE WaitRejected(t)
      BY <3>9 DEF TypeOK, StopInv, lifeVars, tcVars, callVars, mqVars, A, WaitRejected, Goto
    <3>10. CASE WaitTimeout(t)
      BY <3>10 DEF TypeOK, StopInv, lifeVars, tcVars, callVars, mqVars, A, WaitTimeout, Goto
    <3>11. CASE StepsDone(t)
      BY <3>11 DEF TypeOK, StopInv, lifeVars, tcVars, callVars, mqVars, A, StepsDone, Goto
    <3>12. CASE ClearHooks(t)
      BY <3>12 DEF TypeOK, StopInv, lifeVars, tcVars, callVars, mqVars, A, ClearHooks,
          Goto, HooksOf
    <3>13. CASE ClearSettled(t)
      BY <3>13 DEF TypeOK, StopInv, lifeVars, tcVars, callVars, mqVars, A, ClearSettled,
          Goto
    <3> QED  BY <2>5, <3>1, <3>2, <3>3, <3>4, <3>5, <3>6, <3>7, <3>8, <3>9, <3>10, <3>11,
        <3>12, <3>13 DEF TestStep
  <2>6. ASSUME NEW t \in Tests, AdapterEvent(t) PROVE A
    <3>1. CASE \E m \in Topics : HandleMessage(t, m)
      BY <3>1 DEF TypeOK, StopInv, lifeVars, tcVars, callVars, mqVars, A, HandleMessage,
          Candidates, HooksOf
    <3>2. CASE HandleAdapterError(t)
      BY <3>2 DEF TypeOK, StopInv, lifeVars, tcVars, callVars, mqVars, A, HandleAdapterError
    <3>3. CASE HandleAdapterDisconnect(t)
      BY <3>3 DEF TypeOK, StopInv, lifeVars, tcVars, callVars, mqVars, A,
          HandleAdapterDisconnect, RejectAll, Unsettled, HooksOf
    <3> QED  BY <2>6, <3>1, <3>2, <3>3 DEF AdapterEvent
  <2>7. CASE UNCHANGED vars
    BY <2>7 DEF TypeOK, StopInv, lifeVars, tcVars, callVars, mqVars, A, vars, hookVars
  <2> QED  BY <2>1, <2>2, <2>3, <2>4, <2>5, <2>6, <2>7 DEF Next
<1> QED  BY <1>1, <1>2, TypeCorrect, StopInvInductive, PTL DEF Spec, OneLiveAdapter

-----------------------------------------------------------------------------
(* The waits of a component that stops                                     *)

\* A stopping component has rejected its waits, or is down.
Told == stopAt = "closing" \/ cst = "stopped"

\* A wait that has begun has its hook, its message or its rejection; once the
\* waits were rejected, a hook that is still to be satisfied belongs to a test
\* case that registered after that, and that one cannot begin: its Phase 1.5 is
\* refused, for it has topics to subscribe to and no entry.
WaitInv ==
  /\ cst = "created" => starts = 0 /\ \A t \in Tests : pc[t] = "idle"
  /\ \A t \in Tests : pc[t] \in {"idle", "ready"} => t \notin entry /\ call[t] = "none"
  /\ \A t \in Tests : pc[t] = "ready" =>
       \A i \in HookSteps(t) : <<t, i>> \in hooks => Program[t][i].topics \subseteq derived[t]
  /\ \A t \in Tests : pc[t] = "wait" =>
       <<t, step[t]>> \in Unsettled(hooks) \cup resolved \cup rejected
  /\ Told => \A h \in Unsettled(hooks) :
       pc[h[1]] \in {"ready", "clear", "closing", "cleared", "closing2", "done"}
  /\ Told => \A t \in Tests : pc[t] = "wait" => <<t, step[t]>> \in resolved \cup rejected

\* The hypothesis: the topics of the hooks are subscribed to, and every wait
\* has one.
WaitsSubscribed ==
  AutoSubscribe /\ \A h \in Hooks : IsWait(h) => StepOf(h).topics # {}

\* A test case that moves on in its steps keeps the invariant, whatever it is
\* at, when no hook of its own is still to be satisfied after the rejection.
LEMMA TestMoves ==
  ASSUME TypeOK, WaitInv, NEW t \in Tests, pc[t] # "idle",
         pc'[t] \in {"phase15", "exec", "call", "clear"},
         \A u \in Tests \ {t} : pc'[u] = pc[u] /\ step'[u] = step[u] /\ call'[u] = call[u],
         UNCHANGED <<cst, stopAt, starts, derived, hooks, resolved, rejected, entry>>,
         pc'[t] # "clear" /\ Told => \A h \in Unsettled(hooks) : h[1] # t
  PROVE  WaitInv'
<1>1. \A h \in hooks : h[1] \in Tests
  BY DEF TypeOK, Hooks
<1>2. \A u \in Tests : pc'[u] \in {"idle", "ready"} => pc[u] \in {"idle", "ready"} /\ call'[u] = call[u]
  OBVIOUS
<1> QED  BY <1>1, <1>2 DEF WaitInv, Told, Unsettled

\* Nothing but the end of a wait, the end of its test case and its rejection
\* takes away the hook of a wait.
LEMMA WaitInvInductive ==
  ASSUME WaitsSubscribed
  PROVE  TypeOK /\ StopInv /\ WaitInv /\ [Next]_vars => WaitInv'
<1> SUFFICES ASSUME TypeOK, StopInv, WaitInv, [Next]_vars PROVE WaitInv'
  OBVIOUS
<1>1. CASE Start
  BY <1>1 DEF TypeOK, StopInv, WaitInv, Told, Unsettled, lifeVars, tcVars, callVars,
      mqVars, hookVars, Start
<1>2. CASE DoStop
  BY <1>2 DEF TypeOK, StopInv, WaitInv, Told, Unsettled, lifeVars, tcVars, callVars,
      mqVars, hookVars, DoStop
<1>3. CASE StopStep
  <2>1. CASE StopDrained
    BY <2>1 DEF TypeOK, StopInv, WaitInv, Told, Unsettled, lifeVars, tcVars,
        callVars, mqVars, hookVars, StopDrained, RejectAll
  <2>2. CASE StopClosed
    BY <2>2 DEF TypeOK, StopInv, WaitInv, Told, Unsettled, lifeVars, tcVars,
        callVars, mqVars, hookVars, StopClosed
  <2> QED  BY <1>3, <2>1, <2>2 DEF StopStep
<1>4. ASSUME NEW t \in Tests, CallStep(t) PROVE WaitInv'
  <2>1. CASE CreateOk(t)
    BY <2>1 DEF TypeOK, StopInv, WaitInv, Told, Unsettled, lifeVars, tcVars,
        callVars, mqVars, hookVars, CreateOk
  <2>2. CASE CreateFails(t)
    BY <2>2 DEF TypeOK, StopInv, WaitInv, Told, Unsettled, lifeVars, tcVars,
        callVars, mqVars, hookVars, CreateFails, CallEnds, ResumeFailed, Awaited
  <2>3. CASE SubscribeOk(t)
    BY <2>3 DEF TypeOK, StopInv, WaitInv, Told, Unsettled, lifeVars, tcVars,
        callVars, mqVars, hookVars, SubscribeOk, CallEnds, Resume, Awaited, NextStep
  <2>4. CASE SubscribeFails(t)
    BY <2>4 DEF TypeOK, StopInv, WaitInv, Told, Unsettled, lifeVars, tcVars,
        callVars, mqVars, hookVars, SubscribeFails, CallEnds, ResumeFailed, Awaited
  <2>5. CASE UnsubscribeEnds(t)
    <3>1. CASE Awaited(t)
      <4>1. pc[t] \in {"phase15", "call"} /\ pc'[t] \in {"exec", "clear"}
        BY <2>5, <3>1 DEF TypeOK, UnsubscribeEnds, Resume, ResumeFailed, Awaited
      <4>2. \A u \in Tests \ {t} : pc'[u] = pc[u] /\ step'[u] = step[u] /\ call'[u] = call[u]
        BY <2>5 DEF TypeOK, UnsubscribeEnds, Resume, ResumeFailed, NextStep, CallEnds
      <4>3. UNCHANGED <<cst, stopAt, starts, derived, hooks, resolved, rejected, entry>>
        BY <2>5 DEF UnsubscribeEnds, lifeVars, hookVars
      <4>4. Told => \A h \in Unsettled(hooks) : h[1] # t
        BY <4>1 DEF WaitInv
      <4> QED  BY <4>1, <4>2, <4>3, <4>4, TestMoves
    <3>2. CASE ~Awaited(t)
      <4>1. pc' = pc /\ step' = step /\ (pc[t] \in {"idle", "ready"} => FALSE)
        BY <2>5, <3>2 DEF TypeOK, WaitInv, UnsubscribeEnds, Resume, ResumeFailed, Awaited,
            NextStep
      <4>2. \A u \in Tests \ {t} : call'[u] = call[u]
        BY <2>5 DEF TypeOK, UnsubscribeEnds, CallEnds
      <4> QED  BY <2>5, <4>1, <4>2 DEF UnsubscribeEnds, WaitInv, Told, Unsettled, lifeVars,
          hookVars
    <3> QED  BY <3>1, <3>2
  <2>6. CASE CloseEnds(t)
    BY <2>6 DEF TypeOK, StopInv, WaitInv, Told, Unsettled, lifeVars, tcVars,
        callVars, mqVars, hookVars, CloseEnds
  <2> QED  BY <1>4, <2>1, <2>2, <2>3, <2>4, <2>5, <2>6 DEF CallStep
<1>5. ASSUME NEW t \in Tests, TestStep(t) PROVE WaitInv'
  <2>1. CASE RegisterHooks(t)
    BY <2>1 DEF TypeOK, StopInv, WaitInv, Told, Unsettled, lifeVars, tcVars,
        callVars, mqVars, hookVars, RegisterHooks, Goto, HookSteps
  <2>2. CASE AfterHooksRegistered(t)
    <3>1. pc[t] = "ready" /\ pc'[t] \in {"phase15", "exec", "clear"}
      BY <2>2 DEF TypeOK, AfterHooksRegistered, Goto
    <3>2. \A u \in Tests \ {t} : pc'[u] = pc[u] /\ step'[u] = step[u] /\ call'[u] = call[u]
      BY <2>2 DEF TypeOK, AfterHooksRegistered, Goto, AddTopics, callVars
    <3>3. UNCHANGED <<cst, stopAt, starts, derived, hooks, resolved, rejected, entry>>
      BY <2>2 DEF AfterHooksRegistered, AddTopics, lifeVars, hookVars, mqVars
    <3>4. CASE pc'[t] = "clear"
      BY <3>1, <3>2, <3>3, <3>4, TestMoves
    <3>5. CASE pc'[t] # "clear"
      <4> SUFFICES ASSUME Told, NEW h \in Unsettled(hooks), h[1] = t PROVE FALSE
        BY <3>1, <3>2, <3>3, TestMoves
      <4>1. isStopping /\ t \notin entry
        BY <3>1 DEF Told, StopInv, WaitInv
      <4>2. derived[t] = {}
        BY <2>2, <3>5, <4>1 DEF AfterHooksRegistered, AddTopics, Goto, WaitsSubscribed, TypeOK
      <4>3. PICK i \in DOMAIN Program[t] : h = <<t, i>>
        BY DEF TypeOK, Unsettled, Hooks
      <4>4. i \in HookSteps(t) /\ Program[t][i].topics # {}
        BY <4>3 DEF HookSteps, Unsettled, IsWait, StepOf, WaitsSubscribed, TypeOK
      <4>5. Program[t][i].topics \subseteq derived[t]
        BY <3>1, <4>3, <4>4 DEF WaitInv, Unsettled
      <4> QED  BY <4>2, <4>4, <4>5
    <3> QED  BY <3>4, <3>5
  <2>3. CASE OtherComponentFails(t)
    BY <2>3 DEF TypeOK, StopInv, WaitInv, Told, Unsettled, lifeVars, tcVars,
        callVars, mqVars, hookVars, OtherComponentFails, Goto
  <2>4. CASE ExecuteOnMessage(t)
    BY <2>4 DEF TypeOK, StopInv, WaitInv, Told, Unsettled, lifeVars, tcVars,
        callVars, mqVars, hookVars, ExecuteOnMessage, Skip, At, HasStep, Cur
  <2>5. CASE ExecuteSubscribe(t)
    <3>1. pc[t] = "exec" /\ pc'[t] \in {"call", "exec", "clear"}
      BY <2>5 DEF TypeOK, ExecuteSubscribe, Goto, At, HasStep
    <3>2. \A u \in Tests \ {t} : pc'[u] = pc[u] /\ step'[u] = step[u] /\ call'[u] = call[u]
      BY <2>5 DEF TypeOK, ExecuteSubscribe, Goto, Skip, AddTopics, callVars
    <3>3. UNCHANGED <<cst, stopAt, starts, derived, hooks, resolved, rejected, entry>>
      BY <2>5 DEF ExecuteSubscribe, AddTopics, lifeVars, hookVars, mqVars
    <3>4. Told => \A h \in Unsettled(hooks) : h[1] # t
      BY <3>1 DEF WaitInv
    <3> QED  BY <3>1, <3>2, <3>3, <3>4, TestMoves
  <2>6. CASE ExecuteUnsubscribe(t)
    <3>1. pc[t] = "exec" /\ pc'[t] \in {"call", "exec", "clear"}
      BY <2>6 DEF TypeOK, ExecuteUnsubscribe, Goto, At, HasStep
    <3>2. \A u \in Tests \ {t} : pc'[u] = pc[u] /\ step'[u] = step[u] /\ call'[u] = call[u]
      BY <2>6 DEF TypeOK, ExecuteUnsubscribe, Goto, Skip, callVars
    <3>3. UNCHANGED <<cst, stopAt, starts, derived, hooks, resolved, rejected, entry>>
      BY <2>6 DEF ExecuteUnsubscribe, lifeVars, hookVars
    <3>4. Told => \A h \in Unsettled(hooks) : h[1] # t
      BY <3>1 DEF WaitInv
    <3> QED  BY <3>1, <3>2, <3>3, <3>4, TestMoves
  <2>7. CASE ExecuteWaitMessage(t)
    <3>1. pc[t] = "exec" /\ IsWait(<<t, step[t]>>)
      BY <2>7 DEF ExecuteWaitMessage, At, HasStep, Cur, IsWait, StepOf
    <3>2. UNCHANGED <<cst, stopAt, starts, derived, hooks, resolved, rejected, entry, step, call>>
      BY <2>7 DEF ExecuteWaitMessage, lifeVars, hookVars, callVars, mqVars
    <3>3. Told => \A h \in Unsettled(hooks) : h[1] # t
      BY <3>1 DEF WaitInv
    <3>4. CASE <<t, step[t]>> \in hooks
      <4>1. pc' = [pc EXCEPT ![t] = "wait"]
        BY <2>7, <3>4 DEF ExecuteWaitMessage, Goto
      <4>2. <<t, step[t]>> \in Unsettled(hooks) \cup resolved
        BY <3>1, <3>4 DEF Unsettled
      <4> QED  BY <3>1, <3>2, <3>3, <4>1, <4>2 DEF TypeOK, WaitInv, Told, Unsettled
    <3>5. CASE <<t, step[t]>> \notin hooks
      <4>1. pc' = [pc EXCEPT ![t] = "clear"]
        BY <2>7, <3>5 DEF ExecuteWaitMessage, Goto
      <4> QED  BY <3>1, <3>2, <4>1, TestMoves DEF TypeOK
    <3> QED  BY <3>4, <3>5
  <2>8. CASE WaitEnds(t)
    <3>1. pc[t] = "wait" /\ pc'[t] \in {"exec", "clear"}
      BY <2>8 DEF TypeOK, WaitEnds, Goto
    <3>2. \A u \in Tests \ {t} : pc'[u] = pc[u] /\ step'[u] = step[u]
      BY <2>8 DEF TypeOK, WaitEnds, Goto, Skip
    <3>3. UNCHANGED <<cst, stopAt, starts, derived, resolved, rejected, entry, call>>
      BY <2>8 DEF WaitEnds, lifeVars, callVars, mqVars
    <3>4. hooks' = hooks \ {<<t, step[t]>>}
      BY <2>8 DEF WaitEnds
    <3>5. \A u \in Tests \ {t} : <<u, step[u]>> \in hooks => <<u, step[u]>> \in hooks'
      BY <3>4
    <3>6. hooks' \subseteq hooks
      BY <3>4
    <3> HIDE <3>4
    <3>7. \A h \in hooks : h[1] \in Tests
      BY DEF TypeOK, Hooks
    <3> QED  BY <3>1, <3>2, <3>3, <3>5, <3>6, <3>7 DEF WaitInv, Told, Unsettled
  <2>9. CASE WaitRejected(t)
    BY <2>9 DEF TypeOK, StopInv, WaitInv, Told, Unsettled, lifeVars, tcVars,
        callVars, mqVars, hookVars, WaitRejected, Goto
  <2>10. CASE WaitTimeout(t)
    BY <2>10 DEF TypeOK, StopInv, WaitInv, Told, Unsettled, lifeVars, tcVars,
        callVars, mqVars, hookVars, WaitTimeout, Goto
  <2>11. CASE StepsDone(t)
    BY <2>11 DEF TypeOK, StopInv, WaitInv, Told, Unsettled, lifeVars, tcVars,
        callVars, mqVars, hookVars, StepsDone, Goto
  <2>12. CASE ClearHooks(t)
    <3>1. pc[t] \in {"clear", "cleared"} /\ pc'[t] \in {"closing", "closing2", "cleared", "done"}
      BY <2>12 DEF TypeOK, ClearHooks, Goto
    <3>2. \A u \in Tests \ {t} : pc'[u] = pc[u] /\ derived'[u] = derived[u]
      BY <2>12 DEF TypeOK, ClearHooks, Goto
    <3>3. UNCHANGED <<cst, stopAt, starts, resolved, rejected, call, step>> /\ entry' \subseteq entry
      BY <2>12 DEF ClearHooks, lifeVars, callVars, mqVars
    <3>4. \A u \in Tests \ {t} : <<u, step[u]>> \in hooks => <<u, step[u]>> \in hooks'
      BY <2>12 DEF ClearHooks, HooksOf
    <3>5. hooks' \subseteq hooks
      BY <2>12 DEF ClearHooks
    <3>6. \A h \in hooks : h[1] \in Tests
      BY DEF TypeOK, Hooks
    <3> QED  BY <3>1, <3>2, <3>3, <3>4, <3>5, <3>6 DEF WaitInv, Told, Unsettled
  <2>13. CASE ClearSettled(t)
    BY <2>13 DEF TypeOK, StopInv, WaitInv, Told, Unsettled, lifeVars, tcVars,
        callVars, mqVars, hookVars, ClearSettled, Goto
  <2> QED  BY <1>5, <2>1, <2>2, <2>3, <2>4, <2>5, <2>6, <2>7, <2>8, <2>9, <2>10,
      <2>11, <2>12, <2>13 DEF TestStep
<1>6. ASSUME NEW t \in Tests, AdapterEvent(t) PROVE WaitInv'
  <2>1. CASE \E m \in Topics : HandleMessage(t, m)
    BY <2>1 DEF TypeOK, StopInv, WaitInv, Told, Unsettled, lifeVars, tcVars,
        callVars, mqVars, hookVars, HandleMessage, Candidates, HooksOf
  <2>2. CASE HandleAdapterError(t)
    BY <2>2 DEF TypeOK, StopInv, WaitInv, Told, Unsettled, lifeVars, tcVars,
        callVars, mqVars, hookVars, HandleAdapterError
  <2>3. CASE HandleAdapterDisconnect(t)
    BY <2>3 DEF TypeOK, StopInv, WaitInv, Told, Unsettled, lifeVars, tcVars,
        callVars, mqVars, hookVars, HandleAdapterDisconnect, RejectAll, HooksOf
  <2> QED  BY <1>6, <2>1, <2>2, <2>3 DEF AdapterEvent
<1>7. CASE UNCHANGED vars
  BY <1>7 DEF TypeOK, StopInv, WaitInv, Told, Unsettled, lifeVars, tcVars, callVars,
      mqVars, hookVars, vars
<1> QED  BY <1>1, <1>2, <1>3, <1>4, <1>5, <1>6, <1>7 DEF Next

\* A test case that waits when its component is down was told so, and does not
\* sit out its timeout; provided the component subscribes to the topics of the
\* hooks by itself (autoSubscribe, the default) and every wait has a topic.
THEOREM WaitsRejected == ASSUME WaitsSubscribed PROVE Spec => []WaitersSettled
<1>1. Init => StopInv /\ WaitInv
  BY DEF Init, StopInv, WaitInv, Told, Unsettled
<1>2. WaitInv => WaitersSettled
  BY DEF WaitInv, WaitersSettled, Told
<1> QED  BY <1>1, <1>2, TypeCorrect, StopInvInductive, WaitInvInductive, PTL DEF Spec
=============================================================================
