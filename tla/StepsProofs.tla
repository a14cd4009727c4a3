----------------------------- MODULE StepsProofs -----------------------------
(***************************************************************************)
(* Proofs about Steps, for any test cases, programs, connections and       *)
(* requests: a wait is told when what it is for has come, a poll keeps to  *)
(* its timeout, and a stopped component leaves nothing open.               *)
(***************************************************************************)
EXTENDS Steps, TLAPS

\* what executes test cases is the same in every component
LEMMA SameSteps ==
  ASSUME NEW t \in Tests
  PROVE  /\ AC!TestStep(t) = TestStep(t) /\ AC!WaitBegins(t) = WaitBegins(t)
         /\ SC!TestStep(t) = TestStep(t) /\ SC!WaitBegins(t) = WaitBegins(t)
         /\ SM!TestStep(t) = TestStep(t) /\ SM!WaitBegins(t) = WaitBegins(t)
         /\ SP!TestStep(t) = TestStep(t) /\ SP!WaitBegins(t) = WaitBegins(t)
         /\ AS!TestStep(t) = TestStep(t) /\ AS!WaitBegins(t) = WaitBegins(t)
<1>1. AC!TestStep(t) = TestStep(t) /\ AC!WaitBegins(t) = WaitBegins(t)
  BY Zenon DEF TestStep, BeginTest, HookStep, StepsDone, ClearHooks, WaitResolved,
           WaitRejected, WaitTimeout, WaitBegins, Executes, StepPasses, StepFails, StepGoesTo,
           Registrations, Active, HasStep, Step, StepOf, Hook, HasHook, Settled, Without,
           hookVars, testVars, baseVars, AC!TestStep, AC!BeginTest, AC!HookStep, AC!StepsDone,
           AC!ClearHooks, AC!WaitResolved, AC!WaitRejected, AC!WaitTimeout, AC!WaitBegins,
           AC!Executes, AC!StepPasses, AC!StepFails, AC!StepGoesTo, AC!Registrations,
           AC!Active, AC!HasStep, AC!Step, AC!StepOf, AC!Hook, AC!HasHook, AC!Settled,
           AC!Without, AC!hookVars, AC!testVars, AC!baseVars
<1>2. SC!TestStep(t) = TestStep(t) /\ SC!WaitBegins(t) = WaitBegins(t)
  BY Zenon DEF TestStep, BeginTest, HookStep, StepsDone, ClearHooks, WaitResolved,
           WaitRejected, WaitTimeout, WaitBegins, Executes, StepPasses, StepFails, StepGoesTo,
           Registrations, Active, HasStep, Step, StepOf, Hook, HasHook, Settled, Without,
           hookVars, testVars, baseVars, SC!TestStep, SC!BeginTest, SC!HookStep, SC!StepsDone,
           SC!ClearHooks, SC!WaitResolved, SC!WaitRejected, SC!WaitTimeout, SC!WaitBegins,
           SC!Executes, SC!StepPasses, SC!StepFails, SC!StepGoesTo, SC!Registrations,
           SC!Active, SC!HasStep, SC!Step, SC!StepOf, SC!Hook, SC!HasHook, SC!Settled,
           SC!Without, SC!hookVars, SC!testVars, SC!baseVars
<1>3. SM!TestStep(t) = TestStep(t) /\ SM!WaitBegins(t) = WaitBegins(t)
  BY Zenon DEF TestStep, BeginTest, HookStep, StepsDone, ClearHooks, WaitResolved,
           WaitRejected, WaitTimeout, WaitBegins, Executes, StepPasses, StepFails, StepGoesTo,
           Registrations, Active, HasStep, Step, StepOf, Hook, HasHook, Settled, Without,
           hookVars, testVars, baseVars, SM!TestStep, SM!BeginTest, SM!HookStep, SM!StepsDone,
           SM!ClearHooks, SM!WaitResolved, SM!WaitRejected, SM!WaitTimeout, SM!WaitBegins,
           SM!Executes, SM!StepPasses, SM!StepFails, SM!StepGoesTo, SM!Registrations,
           SM!Active, SM!HasStep, SM!Step, SM!StepOf, SM!Hook, SM!HasHook, SM!Settled,
           SM!Without, SM!hookVars, SM!testVars, SM!baseVars
<1>4. SP!TestStep(t) = TestStep(t) /\ SP!WaitBegins(t) = WaitBegins(t)
  BY Zenon DEF TestStep, BeginTest, HookStep, StepsDone, ClearHooks, WaitResolved,
           WaitRejected, WaitTimeout, WaitBegins, Executes, StepPasses, StepFails, StepGoesTo,
           Registrations, Active, HasStep, Step, StepOf, Hook, HasHook, Settled, Without,
           hookVars, testVars, baseVars, SP!TestStep, SP!BeginTest, SP!HookStep, SP!StepsDone,
           SP!ClearHooks, SP!WaitResolved, SP!WaitRejected, SP!WaitTimeout, SP!WaitBegins,
           SP!Executes, SP!StepPasses, SP!StepFails, SP!StepGoesTo, SP!Registrations,
           SP!Active, SP!HasStep, SP!Step, SP!StepOf, SP!Hook, SP!HasHook, SP!Settled,
           SP!Without, SP!hookVars, SP!testVars, SP!baseVars
<1>5. AS!TestStep(t) = TestStep(t) /\ AS!WaitBegins(t) = WaitBegins(t)
  BY Zenon DEF TestStep, BeginTest, HookStep, StepsDone, ClearHooks, WaitResolved,
           WaitRejected, WaitTimeout, WaitBegins, Executes, StepPasses, StepFails, StepGoesTo,
           Registrations, Active, HasStep, Step, StepOf, Hook, HasHook, Settled, Without,
           hookVars, testVars, baseVars, AS!TestStep, AS!BeginTest, AS!HookStep, AS!StepsDone,
           AS!ClearHooks, AS!WaitResolved, AS!WaitRejected, AS!WaitTimeout, AS!WaitBegins,
           AS!Executes, AS!StepPasses, AS!StepFails, AS!StepGoesTo, AS!Registrations,
           AS!Active, AS!HasStep, AS!Step, AS!StepOf, AS!Hook, AS!HasHook, AS!Settled,
           AS!Without, AS!hookVars, AS!testVars, AS!baseVars
<1> QED  BY <1>1, <1>2, <1>3, <1>4, <1>5

BaseTypes ==
  /\ pc \in [Tests -> {"idle", "ready", "busy", "waiting", "cleanup", "done"}]
  /\ at \in [Tests -> Nat \ {0}]

\* Its own steps move a test case only, and none but a wait makes it wait.
LEMMA TestMoves ==
  ASSUME BaseTypes, NEW t \in Tests, TestStep(t) \/ (pc[t] = "ready" /\ WaitBegins(t))
  PROVE  /\ BaseTypes' /\ UNCHANGED <<cst, program, resolved, rejected>>
         /\ \A u \in Tests \ {t} : pc'[u] = pc[u] /\ at'[u] = at[u]
         /\ pc[t] # "busy" /\ pc'[t] # "busy"
         /\ pc'[t] = "waiting" => pc[t] = "ready" /\ WaitBegins(t) /\ at'[t] = at[t]
<1>1. CASE WaitBegins(t) /\ pc[t] = "ready"
  BY <1>1 DEF WaitBegins, StepGoesTo, StepFails, BaseTypes, hookVars
<1>2. CASE BeginTest(t) \/ HookStep(t) \/ StepsDone(t) \/ ClearHooks(t)
  BY <1>2 DEF BeginTest, HookStep, StepsDone, ClearHooks, StepPasses, BaseTypes, hookVars
<1>3. CASE WaitResolved(t) \/ WaitRejected(t) \/ WaitTimeout(t)
  BY <1>3 DEF WaitResolved, WaitRejected, WaitTimeout, StepPasses, StepFails, BaseTypes
<1> QED  BY <1>1, <1>2, <1>3 DEF TestStep

\* What the programs of a component are.
LEMMA ProgramFacts ==
  ASSUME NEW p \in AllPrograms, NEW t \in Tests, NEW i \in Nat \ {0}, i <= Len(p[t])
  PROVE  /\ p[t][i].type \in WaitTypes => p[t][i].pending
         /\ p[t][i].type = "request" => p[t][i].retry \in Policies
<1>1. Len(p[t]) \in Nat
  BY StepsAssumption
<1>2. i \in 1..Len(p[t])
  BY <1>1
<1> QED  BY <1>2, StepsAssumption

-----------------------------------------------------------------------------
(* Client: responses and retry                                             *)

ScTypes ==
  /\ BaseTypes
  /\ program \in SyncClientPrograms
  /\ left \in [Tests -> Int] /\ spent \in [Tests -> Int]

\* what is left and what was spent add up
ScBudget(t) ==
  pc[t] = "busy" =>
    /\ SC!Policy(t) \in Policies
    /\ left[t] + spent[t] = SC!Policy(t).timeout

\* the hooks a request is for have a pending, and none is forgotten at its end
ScServed ==
  /\ served \subseteq resolved \cup rejected
  /\ \A f \in flying : \A h \in f.hooks : StepOf(h).pending
  /\ matched = [t \in Tests |-> matched[t]]
  /\ \A t \in Tests : \A h \in matched[t] : StepOf(h).pending

ScInv == ScTypes /\ ScServed /\ \A t \in Tests : ScBudget(t)

LEMMA ScStarts ==
  ASSUME SC!Init, program \in SyncClientPrograms
  PROVE  ScInv
  BY DEF SC!Init, SC!BaseInit, ScInv, ScTypes, BaseTypes, ScServed, ScBudget

\* the hooks found when a request is made have a pending
LEMMA ScFound ==
  ASSUME NEW op
  PROVE  \A h \in SC!findAllMatchingHooks(op) : StepOf(h).pending
  BY DEF SC!findAllMatchingHooks, SC!WaitHooks, SC!StepOf, StepOf

\* resolving or rejecting hooks with a pending settles them
LEMMA ScSettles ==
  ASSUME NEW H, \A h \in H : StepOf(h).pending,
         \/ SC!resolveHooks(H) /\ UNCHANGED rejected
         \/ SC!rejectHooks(H) /\ UNCHANGED resolved
  PROVE  H \cup resolved \cup rejected \subseteq resolved' \cup rejected'
  BY DEF SC!resolveHooks, SC!rejectHooks, SC!StepOf, StepOf

LEMMA ScTypesInductive ==
  ASSUME ScInv, SC!Next
  PROVE  ScTypes'
<1> USE DEF ScInv, ScTypes
<1>0. ASSUME NEW t \in Tests, pc[t] = "busy"
      PROVE  SC!Delay(t) \in Int /\ SC!Policy(t).timeout \in Int
  BY <1>0 DEF ScBudget, SC!Delay, Policies
<1>1. CASE SC!doStart \/ SC!doStop \/ \E f \in flying : SC!Responds(f) \/ SC!RequestFails(f)
  BY <1>1 DEF SC!doStart, SC!doStop, SC!Responds, SC!RequestFails, SC!testVars, SC!retryVars,
              BaseTypes
<1>2. ASSUME NEW t \in Tests, SC!Base(SC!TestStep(t)) \/ SC!Base(SC!executeResponseStep(t))
      PROVE  ScTypes'
  BY <1>2, SameSteps, TestMoves DEF SC!Base, SC!executeResponseStep, SC!Executes, SC!retryVars
<1>3. ASSUME NEW t \in Tests, SC!executeRequest(t) \/ SC!PollEnds(t) \/ SC!PollAborts(t)
      PROVE  ScTypes'
  BY <1>3 DEF SC!executeRequest, SC!PollEnds, SC!PollAborts, SC!GiveUp, SC!StepPasses,
              SC!StepFails, SC!retryVars, BaseTypes
<1>4. ASSUME NEW t \in Tests, SC!pollRequest(t) PROVE ScTypes'
  <2>1. SC!Policy(t) \in Policies
    BY <1>4, ProgramFacts DEF SC!pollRequest, SC!Executes, SC!HasStep, SC!Step, SC!Policy,
                              BaseTypes, AllPrograms
  <2>2. SC!Policy(t).timeout \in Int
    BY <2>1 DEF Policies
  <2> QED  BY <1>4, <2>2 DEF SC!pollRequest, SC!StepGoesTo, BaseTypes
<1>5. ASSUME NEW t \in Tests, NEW took \in 0..MaxTook, SC!AttemptEnds(t, took) PROVE ScTypes'
  <2>1. took \in Int
    BY StepsAssumption
  <2>2. left' \in [Tests -> Int] /\ spent' \in [Tests -> Int]
    BY <1>5, <2>1 DEF SC!AttemptEnds
  <2> QED  BY <1>5, <2>2 DEF SC!AttemptEnds, SC!GiveUp, SC!StepFails, SC!testVars, BaseTypes
<1>6. ASSUME NEW t \in Tests, SC!SleepEnds(t) PROVE ScTypes'
  BY <1>0, <1>6 DEF SC!SleepEnds, SC!GiveUp, SC!StepFails, SC!testVars, BaseTypes
<1> QED  BY <1>1, <1>2, <1>3, <1>4, <1>5, <1>6 DEF SC!Next

LEMMA ScBudgetInductive ==
  ASSUME ScInv, SC!Next, NEW u \in Tests
  PROVE  ScBudget(u)'
<1> USE DEF ScInv, ScTypes
<1>a. pc'[u] = "busy" /\ pc[u] = "busy" /\ at'[u] = at[u] /\ program' = program =>
        SC!Policy(u)' = SC!Policy(u)
  BY DEF SC!Policy, SC!Step
<1>b. ASSUME pc'[u] = "busy" => pc[u] = "busy" /\ at'[u] = at[u], program' = program,
             left'[u] = left[u], spent'[u] = spent[u]
      PROVE  ScBudget(u)'
  BY <1>a, <1>b DEF ScBudget
<1>1. CASE SC!doStart \/ SC!doStop \/ \E f \in flying : SC!Responds(f) \/ SC!RequestFails(f)
  BY <1>1, <1>b DEF SC!doStart, SC!doStop, SC!Responds, SC!RequestFails, SC!testVars,
                    SC!retryVars
<1>2. ASSUME NEW t \in Tests, SC!Base(SC!TestStep(t)) \/ SC!Base(SC!executeResponseStep(t))
      PROVE  ScBudget(u)'
  BY <1>2, <1>b, SameSteps, TestMoves
     DEF SC!Base, SC!executeResponseStep, SC!Executes, SC!retryVars
<1>3. ASSUME NEW t \in Tests, SC!executeRequest(t) \/ SC!PollEnds(t) \/ SC!PollAborts(t)
      PROVE  ScBudget(u)'
  BY <1>3, <1>b DEF SC!executeRequest, SC!PollEnds, SC!PollAborts, SC!GiveUp, SC!StepPasses,
              SC!StepFails, SC!retryVars, BaseTypes
<1>4. ASSUME NEW t \in Tests, SC!pollRequest(t) PROVE ScBudget(u)'
  <2>1. CASE t # u
    BY <1>4, <1>b, <2>1 DEF SC!pollRequest, SC!StepGoesTo, BaseTypes
  <2>2. CASE t = u
    <3>1. SC!Policy(t) \in Policies
      BY <1>4, ProgramFacts DEF SC!pollRequest, SC!Executes, SC!HasStep, SC!Step, SC!Policy,
                                BaseTypes, AllPrograms
    <3>2. left'[u] = SC!Policy(u).timeout /\ spent'[u] = 0 /\ SC!Policy(u)' = SC!Policy(u)
      BY <1>4, <2>2 DEF SC!pollRequest, SC!StepGoesTo, SC!Policy, SC!Step
    <3>3. SC!Policy(u).timeout + 0 = SC!Policy(u).timeout
      BY <2>2, <3>1 DEF Policies
    <3> QED  BY <2>2, <3>1, <3>2, <3>3 DEF ScBudget
  <2> QED  BY <2>1, <2>2
<1>5. ASSUME NEW t \in Tests, NEW d \in Int, pc[t] = "busy", program' = program,
             spent' = [spent EXCEPT ![t] = @ + d], left' = [left EXCEPT ![t] = @ - d],
             SC!GiveUp(t) \/ UNCHANGED SC!testVars
      PROVE  ScBudget(u)'
  <2>1. pc'[u] = "busy" => pc[u] = "busy" /\ at'[u] = at[u]
    BY <1>5 DEF SC!GiveUp, SC!StepFails, SC!testVars, BaseTypes
  <2>2. CASE t # u
    BY <1>5, <1>b, <2>1, <2>2
  <2>3. CASE t = u
    <3>1. left'[u] + spent'[u] = left[u] + spent[u]
      BY <1>5, <2>3
    <3> QED  BY <1>a, <1>5, <2>1, <2>3, <3>1 DEF ScBudget
  <2> QED  BY <2>2, <2>3
<1>6. ASSUME NEW t \in Tests, NEW took \in 0..MaxTook, SC!AttemptEnds(t, took)
      PROVE  ScBudget(u)'
  <2>1. took \in Int
    BY StepsAssumption
  <2> QED  BY <1>5, <1>6, <2>1 DEF SC!AttemptEnds, SC!Attempting
<1>7. ASSUME NEW t \in Tests, SC!SleepEnds(t) PROVE ScBudget(u)'
  <2>1. SC!Delay(t) \in Int
    BY <1>7 DEF SC!SleepEnds, ScBudget, SC!Delay, Policies
  <2> QED  BY <1>5, <1>7, <2>1 DEF SC!SleepEnds
<1> QED  BY <1>1, <1>2, <1>3, <1>4, <1>6, <1>7 DEF SC!Next

LEMMA ScServedInductive ==
  ASSUME ScInv, SC!Next
  PROVE  ScServed'
<1> USE DEF ScInv, ScServed
<1>0. \A h : program' = program => StepOf(h)' = StepOf(h)
  BY DEF StepOf
<1>1. CASE SC!doStart \/ SC!doStop
  BY <1>0, <1>1 DEF SC!doStart, SC!doStop, SC!flightVars, SC!retryVars, SC!hookVars
<1>2. ASSUME NEW t \in Tests, SC!Base(SC!TestStep(t)) \/ SC!Base(SC!executeResponseStep(t))
      PROVE  ScServed'
  BY <1>0, <1>2, SameSteps, TestMoves
     DEF SC!Base, SC!executeResponseStep, SC!Executes, SC!retryVars, SC!flightVars, ScTypes
<1>3. ASSUME NEW f \in flying, SC!Responds(f) \/ SC!RequestFails(f) PROVE ScServed'
  <2>1. f.hooks \cup resolved \cup rejected \subseteq resolved' \cup rejected'
    BY <1>3, ScSettles DEF SC!Responds, SC!RequestFails
  <2> QED  BY <1>0, <1>3, <2>1 DEF SC!Responds, SC!RequestFails, SC!retryVars
<1>4. ASSUME NEW t \in Tests, SC!executeRequest(t) PROVE ScServed'
  <2>1. \A h \in SC!findAllMatchingHooks(SC!Step(t).op) : StepOf(h).pending
    BY ScFound
  <2>2. \A f \in flying' : f \in flying \/ f.hooks = SC!findAllMatchingHooks(SC!Step(t).op)
    BY <1>4 DEF SC!executeRequest
  <2> QED  BY <1>0, <1>4, <2>1, <2>2 DEF SC!executeRequest, SC!hookVars, SC!retryVars
<1>5. ASSUME NEW t \in Tests, SC!pollRequest(t) PROVE ScServed'
  <2>1. \A h \in SC!findAllMatchingHooks(SC!Step(t).op) : StepOf(h).pending
    BY ScFound
  <2> QED  BY <1>0, <1>5, <2>1 DEF SC!pollRequest, SC!hookVars, SC!flightVars
<1>6. ASSUME NEW t \in Tests, SC!PollEnds(t) \/ SC!PollAborts(t) PROVE ScServed'
  <2>1. matched[t] \cup resolved \cup rejected \subseteq resolved' \cup rejected'
    BY <1>6, ScSettles DEF SC!PollEnds, SC!PollAborts, SC!GiveUp
  <2> QED  BY <1>0, <1>6, <2>1 DEF SC!PollEnds, SC!PollAborts, SC!GiveUp, SC!retryVars
<1>7. ASSUME NEW t \in Tests, UNCHANGED <<program, flying, matched>>,
             SC!GiveUp(t) \/ UNCHANGED <<SC!hookVars, served>>
      PROVE  ScServed'
  <2>1. CASE SC!GiveUp(t)
    <3>1. matched[t] \cup resolved \cup rejected \subseteq resolved' \cup rejected'
      BY <2>1, ScSettles DEF SC!GiveUp
    <3> QED  BY <1>0, <1>7, <2>1, <3>1 DEF SC!GiveUp
  <2>2. CASE UNCHANGED <<SC!hookVars, served>>
    BY <1>0, <1>7, <2>2 DEF SC!hookVars
  <2> QED  BY <1>7, <2>1, <2>2
<1>8. ASSUME NEW t \in Tests, NEW took \in 0..MaxTook, SC!AttemptEnds(t, took)
      PROVE  ScServed'
  BY <1>7, <1>8 DEF SC!AttemptEnds
<1>9. ASSUME NEW t \in Tests, SC!SleepEnds(t) PROVE ScServed'
  BY <1>7, <1>9 DEF SC!SleepEnds
<1> QED  BY <1>1, <1>2, <1>3, <1>4, <1>5, <1>6, <1>8, <1>9 DEF SC!Next

\* at the end of its sleep a poll has what it has now and the delay
LEMMA ScKeeps ==
  ASSUME ScInv
  PROVE  SC!RetryInBudget /\ SC!ServedWaitsEnd
<1>1. ASSUME NEW t \in Tests, pc[t] = "busy"
      PROVE  /\ left[t] + spent[t] = SC!Policy(t).timeout
             /\ spent[t] + SC!Delay(t) <= SC!Policy(t).timeout
  BY <1>1 DEF ScInv, ScTypes, ScBudget, SC!Delay, Policies
<1>2. SC!ServedWaitsEnd
  BY DEF ScInv, ScServed, SC!ServedWaitsEnd, SC!Settled
<1> QED  BY <1>1, <1>2 DEF SC!RetryInBudget

-----------------------------------------------------------------------------
(* Server: requests                                                        *)

\* a waiting step has a pending to wait for
Waiting == \A t \in Tests : pc[t] = "waiting" => Step(t).pending

LEMMA WaitsWithPending ==
  ASSUME BaseTypes, Waiting, program \in AllPrograms, NEW t \in Tests,
         TestStep(t) \/ (pc[t] = "ready" /\ HasStep(t) /\ Step(t).type \in WaitTypes /\ WaitBegins(t))
  PROVE  Waiting'
<1>1. /\ BaseTypes' /\ program' = program
      /\ \A u \in Tests \ {t} : pc'[u] = pc[u] /\ at'[u] = at[u]
      /\ pc'[t] = "waiting" => WaitBegins(t) /\ at'[t] = at[t]
  BY TestMoves
<1>2. ASSUME pc'[t] = "waiting" PROVE Step(t).pending
  <2>1. ~TestStep(t)
    BY <1>2 DEF TestStep, BeginTest, HookStep, StepsDone, ClearHooks, WaitResolved, WaitRejected,
                WaitTimeout, StepPasses, StepFails, BaseTypes
  <2> QED  BY <2>1, ProgramFacts DEF HasStep, Step, BaseTypes
<1>3. ASSUME NEW u \in Tests, pc'[u] = "waiting", at'[u] = at[u], Step(u).pending
      PROVE  Step(u)'.pending
  BY <1>1, <1>3 DEF Step
<1>4. ASSUME NEW u \in Tests, pc'[u] = "waiting" PROVE Step(u)'.pending
  <2>1. CASE u = t
    BY <1>1, <1>2, <1>3, <1>4, <2>1
  <2>2. CASE u # t
    BY <1>1, <1>3, <1>4, <2>2 DEF Waiting
  <2> QED  BY <2>1, <2>2
<1> QED  BY <1>4 DEF Waiting

SsTypes ==
  /\ BaseTypes /\ Waiting
  /\ program \in SyncServerPrograms
  /\ req \in [Requests -> {"new", "handling", "forwarding", "answered"}]
  /\ by = [n \in Requests |-> by[n]]

\* the hook of a request that went on is settled, and a new request has none
SsServed ==
  \A n \in Requests :
    /\ req[n] = "new" => by[n] = <<>>
    /\ req[n] \in {"forwarding", "answered"} /\ by[n] # <<>> /\ StepOf(by[n]).pending =>
         Settled(by[n])

\* what a step does with requests and hooks, in a mock and in a proxy
SsMoves ==
  /\ program' = program /\ resolved \subseteq resolved' /\ rejected \subseteq rejected'
  /\ \A n \in Requests :
       \/ req'[n] = req[n] /\ by'[n] = by[n]
       \/ req[n] = "new" /\ by'[n] = by[n]
       \/ req'[n] = "handling"
       \/ /\ req'[n] \in {"forwarding", "answered"} /\ by'[n] = by[n]
          /\ req[n] # "forwarding" /\ StepOf(by[n]).pending => by[n] \in resolved' \cup rejected'

LEMMA SsServedInductive ==
  ASSUME SsServed, SsMoves, SsTypes'
  PROVE  SsServed'
<1> SUFFICES ASSUME NEW n \in Requests
             PROVE  /\ req'[n] = "new" => by'[n] = <<>>
                    /\ req'[n] \in {"forwarding", "answered"} /\ by'[n] # <<>> =>
                         (program'[by'[n][1]][by'[n][2]].pending =>
                            by'[n] \in resolved' \cup rejected')
  BY DEF SsServed, StepOf, Settled
<1>1. /\ req[n] = "new" => by[n] = <<>>
      /\ req[n] \in {"forwarding", "answered"} /\ by[n] # <<>> =>
           (program[by[n][1]][by[n][2]].pending => by[n] \in resolved \cup rejected)
  BY DEF SsServed, Settled, StepOf
<1>2. /\ program' = program /\ resolved \subseteq resolved' /\ rejected \subseteq rejected'
      /\ \/ req'[n] = req[n] /\ by'[n] = by[n]
         \/ req[n] = "new" /\ by'[n] = by[n]
         \/ req'[n] = "handling"
         \/ /\ req'[n] \in {"forwarding", "answered"} /\ by'[n] = by[n]
            /\ req[n] # "forwarding" /\ program[by[n][1]][by[n][2]].pending =>
                 by[n] \in resolved' \cup rejected'
  BY DEF SsMoves, StepOf
<1>3. req'[n] = "new" => by'[n] = <<>>
  BY <1>1, <1>2
<1>4. ASSUME req'[n] \in {"forwarding", "answered"}, by'[n] # <<>>,
             program'[by'[n][1]][by'[n][2]].pending
      PROVE  by'[n] \in resolved' \cup rejected'
  BY <1>1, <1>2, <1>4
<1> QED  BY <1>3, <1>4

LEMMA SmTypesInductive ==
  ASSUME SsTypes, SM!Next
  PROVE  SsTypes'
<1> USE DEF SsTypes
<1>0. ASSUME UNCHANGED <<program, pc, at>> PROVE BaseTypes' /\ Waiting'
  BY <1>0 DEF BaseTypes, Waiting, Step
<1>1. CASE SM!doStart \/ SM!ClientCreated \/ SM!doStop \/ SM!AdapterStopped
  BY <1>0, <1>1 DEF SM!doStart, SM!ClientCreated, SM!doStop, SM!AdapterStopped, SM!testVars, SM!reqVars
<1>2. ASSUME NEW t \in Tests, SM!Base(SM!TestStep(t)) \/ SM!Base(SM!executeWaitRequest(t))
      PROVE  SsTypes'
  <2>1. TestStep(t) \/ (pc[t] = "ready" /\ HasStep(t) /\ Step(t).type = "waitRequest" /\ WaitBegins(t))
    BY <1>2, SameSteps DEF SM!Base, SM!executeWaitRequest, SM!Executes, SM!HasStep, SM!Step,
                           HasStep, Step
  <2>2. BaseTypes' /\ program' = program
    BY <2>1, TestMoves
  <2>3. program \in AllPrograms /\ "waitRequest" \in WaitTypes
    BY DEF AllPrograms, WaitTypes
  <2>4. Waiting'
    BY <2>1, <2>3, WaitsWithPending
  <2> QED  BY <1>2, <2>2, <2>4 DEF SM!Base, SM!reqVars
<1>3. ASSUME NEW n \in Requests, SM!HandlersEnd(n) \/ SM!Forwarded(n) PROVE SsTypes'
  BY <1>0, <1>3 DEF SM!HandlersEnd, SM!HandlersRespond, SM!HandlersPass, SM!HandlersDrop,
            SM!HandlersThrow, SM!Forwarded, SM!forwardRequest, SM!Answered, SM!testVars
<1>4. ASSUME NEW n \in Requests, NEW op \in Operations, SM!handleIncomingRequest(n, op)
      PROVE  SsTypes'
  BY <1>0, <1>4 DEF SM!handleIncomingRequest, SM!forwardRequest, SM!Answered, SM!testVars, SM!hookVars
<1> QED  BY <1>1, <1>2, <1>3, <1>4 DEF SM!Next

LEMMA SmMoves ==
  ASSUME SsTypes, SM!Next
  PROVE  SsMoves
<1> USE DEF SsTypes
<1>a. ASSUME UNCHANGED <<req, by, program>>, resolved \subseteq resolved', rejected \subseteq rejected'
      PROVE  SsMoves
  BY <1>a DEF SsMoves
<1>1. CASE SM!doStart \/ SM!ClientCreated \/ SM!doStop \/ SM!AdapterStopped
  BY <1>a, <1>1 DEF SM!doStart, SM!ClientCreated, SM!doStop, SM!AdapterStopped, SM!hookVars, SM!reqVars
<1>2. ASSUME NEW t \in Tests, SM!Base(SM!TestStep(t)) \/ SM!Base(SM!executeWaitRequest(t))
      PROVE  SsMoves
  BY <1>a, <1>2, SameSteps, TestMoves DEF SM!Base, SM!executeWaitRequest, SM!Executes, SM!reqVars
<1>3. ASSUME NEW n \in Requests, SM!HandlersEnd(n) PROVE SsMoves
  <2>1. /\ program' = program /\ by' = by /\ \A m \in Requests \ {n} : req'[m] = req[m]
        /\ req'[n] \in {"forwarding", "answered"}
        /\ resolved \subseteq resolved' /\ rejected \subseteq rejected'
        /\ StepOf(by[n]).pending => by[n] \in resolved' \cup rejected'
    BY <1>3 DEF SM!HandlersEnd, SM!HandlersRespond, SM!HandlersPass, SM!HandlersDrop,
       SM!HandlersThrow, SM!forwardRequest, SM!Answered, SM!resolveHooks, SM!rejectHooks,
       SM!StepOf, StepOf
  <2> QED  BY <2>1 DEF SsMoves
<1>4. ASSUME NEW n \in Requests, SM!Forwarded(n) PROVE SsMoves
  <2>1. /\ program' = program /\ by' = by /\ \A m \in Requests \ {n} : req'[m] = req[m]
        /\ req'[n] \in {"forwarding", "answered"}
        /\ resolved \subseteq resolved' /\ rejected \subseteq rejected'
        /\ req[n] = "forwarding"
    BY <1>4 DEF SM!Forwarded, SM!Answered, SM!rejectHooks
  <2> QED  BY <2>1 DEF SsMoves
<1>5. ASSUME NEW n \in Requests, NEW op \in Operations, SM!handleIncomingRequest(n, op)
      PROVE  SsMoves
  <2>1. /\ program' = program /\ UNCHANGED <<resolved, rejected>> /\ req[n] = "new"
        /\ \A m \in Requests \ {n} : req'[m] = req[m] /\ by'[m] = by[m]
        /\ req'[n] = "handling" \/ by' = by
    BY <1>5 DEF SM!handleIncomingRequest, SM!forwardRequest, SM!Answered, SM!hookVars
  <2> QED  BY <2>1 DEF SsMoves
<1> QED  BY <1>1, <1>2, <1>3, <1>4, <1>5 DEF SM!Next

LEMMA SpTypesInductive ==
  ASSUME SsTypes, SP!Next
  PROVE  SsTypes'
<1> USE DEF SsTypes
<1>0. ASSUME UNCHANGED <<program, pc, at>> PROVE BaseTypes' /\ Waiting'
  BY <1>0 DEF BaseTypes, Waiting, Step
<1>1. CASE SP!doStart \/ SP!ClientCreated \/ SP!doStop \/ SP!AdapterStopped
  BY <1>0, <1>1 DEF SP!doStart, SP!ClientCreated, SP!doStop, SP!AdapterStopped, SP!testVars, SP!reqVars
<1>2. ASSUME NEW t \in Tests, SP!Base(SP!TestStep(t)) \/ SP!Base(SP!executeWaitRequest(t))
      PROVE  SsTypes'
  <2>1. TestStep(t) \/ (pc[t] = "ready" /\ HasStep(t) /\ Step(t).type = "waitRequest" /\ WaitBegins(t))
    BY <1>2, SameSteps DEF SP!Base, SP!executeWaitRequest, SP!Executes, SP!HasStep, SP!Step,
                           HasStep, Step
  <2>2. BaseTypes' /\ program' = program
    BY <2>1, TestMoves
  <2>3. program \in AllPrograms /\ "waitRequest" \in WaitTypes
    BY DEF AllPrograms, WaitTypes
  <2>4. Waiting'
    BY <2>1, <2>3, WaitsWithPending
  <2> QED  BY <1>2, <2>2, <2>4 DEF SP!Base, SP!reqVars
<1>3. ASSUME NEW n \in Requests, SP!HandlersEnd(n) \/ SP!Forwarded(n) PROVE SsTypes'
  BY <1>0, <1>3 DEF SP!HandlersEnd, SP!HandlersRespond, SP!HandlersPass, SP!HandlersDrop,
            SP!HandlersThrow, SP!Forwarded, SP!forwardRequest, SP!Answered, SP!testVars
<1>4. ASSUME NEW n \in Requests, NEW op \in Operations, SP!handleIncomingRequest(n, op)
      PROVE  SsTypes'
  BY <1>0, <1>4 DEF SP!handleIncomingRequest, SP!forwardRequest, SP!Answered, SP!testVars, SP!hookVars
<1> QED  BY <1>1, <1>2, <1>3, <1>4 DEF SP!Next

LEMMA SpMoves ==
  ASSUME SsTypes, SP!Next
  PROVE  SsMoves
<1> USE DEF SsTypes
<1>a. ASSUME UNCHANGED <<req, by, program>>, resolved \subseteq resolved', rejected \subseteq rejected'
      PROVE  SsMoves
  BY <1>a DEF SsMoves
<1>1. CASE SP!doStart \/ SP!ClientCreated \/ SP!doStop \/ SP!AdapterStopped
  BY <1>a, <1>1 DEF SP!doStart, SP!ClientCreated, SP!doStop, SP!AdapterStopped, SP!hookVars, SP!reqVars
<1>2. ASSUME NEW t \in Tests, SP!Base(SP!TestStep(t)) \/ SP!Base(SP!executeWaitRequest(t))
      PROVE  SsMoves
  BY <1>a, <1>2, SameSteps, TestMoves DEF SP!Base, SP!executeWaitRequest, SP!Executes, SP!reqVars
<1>3. ASSUME NEW n \in Requests, SP!HandlersEnd(n) PROVE SsMoves
  <2>1. /\ program' = program /\ by' = by /\ \A m \in Requests \ {n} : req'[m] = req[m]
        /\ req'[n] \in {"forwarding", "answered"}
        /\ resolved \subseteq resolved' /\ rejected \subseteq rejected'
        /\ StepOf(by[n]).pending => by[n] \in resolved' \cup rejected'
    BY <1>3 DEF SP!HandlersEnd, SP!HandlersRespond, SP!HandlersPass, SP!HandlersDrop,
       SP!HandlersThrow, SP!forwardRequest, SP!Answered, SP!resolveHooks, SP!rejectHooks,
       SP!StepOf, StepOf
  <2> QED  BY <2>1 DEF SsMoves
<1>4. ASSUME NEW n \in Requests, SP!Forwarded(n) PROVE SsMoves
  <2>1. /\ program' = program /\ by' = by /\ \A m \in Requests \ {n} : req'[m] = req[m]
        /\ req'[n] \in {"forwarding", "answered"}
        /\ resolved \subseteq resolved' /\ rejected \subseteq rejected'
        /\ req[n] = "forwarding"
    BY <1>4 DEF SP!Forwarded, SP!Answered, SP!rejectHooks
  <2> QED  BY <2>1 DEF SsMoves
<1>5. ASSUME NEW n \in Requests, NEW op \in Operations, SP!handleIncomingRequest(n, op)
      PROVE  SsMoves
  <2>1. /\ program' = program /\ UNCHANGED <<resolved, rejected>> /\ req[n] = "new"
        /\ \A m \in Requests \ {n} : req'[m] = req[m] /\ by'[m] = by[m]
        /\ req'[n] = "handling" \/ by' = by
    BY <1>5 DEF SP!handleIncomingRequest, SP!forwardRequest, SP!Answered, SP!hookVars
  <2> QED  BY <2>1 DEF SsMoves
<1> QED  BY <1>1, <1>2, <1>3, <1>4, <1>5 DEF SP!Next

LEMMA SsStarts ==
  ASSUME SM!Init \/ SP!Init, program \in SyncServerPrograms
  PROVE  SsTypes /\ SsServed
  BY DEF SM!Init, SM!BaseInit, SP!Init, SP!BaseInit, SM!NoHook, SP!NoHook, SsTypes, BaseTypes,
         Waiting, SsServed

LEMMA SsKeeps ==
  ASSUME SsTypes, SsServed
  PROVE  SM!ServedWaitsEnd /\ SP!ServedWaitsEnd
<1>1. ASSUME NEW t \in Tests, NEW n \in Requests, pc[t] = "waiting", by[n] = <<t, at[t]>>,
             req[n] \in {"forwarding", "answered"}
      PROVE  by[n] \in resolved \cup rejected
  <2>1. StepOf(by[n]).pending
    BY <1>1 DEF SsTypes, Waiting, Step, StepOf
  <2>2. by[n] # <<>>
    BY <1>1
  <2> QED  BY <1>1, <2>1, <2>2 DEF SsServed, Settled
<1> QED  BY <1>1 DEF SM!ServedWaitsEnd, SM!Hook, SM!Settled, SP!ServedWaitsEnd, SP!Hook, SP!Settled

-----------------------------------------------------------------------------
(* Proxy: stopping                                                         *)

\* the client adapter is there from the start to the end of the server's
SpOrder ==
  /\ refused = {}
  /\ cst \in {"created", "starting", "started", "stopping", "stopped"}
  /\ cst = "created" => srv = "none" /\ \A n \in Requests : req[n] = "new"
  /\ cst \in {"started", "stopping"} => client = "up"
  /\ cst = "stopped" => srv = "closed" /\ \A n \in Requests : req[n] \in {"new", "answered"}
  /\ client = "closed" => cst = "stopped"

LEMMA SpOrderInductive ==
  ASSUME SpOrder, SP!Next, SsTypes
  PROVE  SpOrder'
<1> USE DEF SpOrder
<1>1. CASE SP!doStart \/ SP!ClientCreated \/ SP!doStop \/ SP!AdapterStopped
  BY <1>1 DEF SP!doStart, SP!ClientCreated, SP!doStop, SP!AdapterStopped, SP!reqVars
<1>2. ASSUME NEW t \in Tests, SP!Base(SP!TestStep(t)) \/ SP!Base(SP!executeWaitRequest(t))
      PROVE  SpOrder'
  BY <1>2, SameSteps, TestMoves
     DEF SP!Base, SP!executeWaitRequest, SP!Executes, SP!reqVars, SsTypes
<1>3. ASSUME NEW n \in Requests, SP!HandlersEnd(n) \/ SP!Forwarded(n) PROVE SpOrder'
  <2>1. cst \notin {"created", "stopped"} /\ UNCHANGED <<cst, srv, client>>
    BY <1>3 DEF SP!HandlersEnd, SP!HandlersRespond, SP!HandlersPass, SP!HandlersDrop,
                SP!HandlersThrow, SP!Forwarded
  <2>2. refused' = {}
    BY <1>3, <2>1 DEF SP!HandlersEnd, SP!HandlersRespond, SP!HandlersPass, SP!HandlersDrop,
                      SP!HandlersThrow, SP!Forwarded, SP!forwardRequest
  <2> QED  BY <2>1, <2>2
<1>4. ASSUME NEW n \in Requests, NEW op \in Operations, SP!handleIncomingRequest(n, op)
      PROVE  SpOrder'
  <2>1. cst \notin {"created", "stopped"} /\ UNCHANGED <<cst, srv, client>>
    BY <1>4 DEF SP!handleIncomingRequest
  <2>2. refused' = {}
    BY <1>4, <2>1 DEF SP!handleIncomingRequest, SP!forwardRequest
  <2> QED  BY <2>1, <2>2
<1> QED  BY <1>1, <1>2, <1>3, <1>4 DEF SP!Next

LEMMA SpKeeps ==
  ASSUME SpOrder
  PROVE  SP!StopForwards
  BY DEF SpOrder, SP!StopForwards

-----------------------------------------------------------------------------
(* AsyncServer: messages and links                                         *)

AsTypes ==
  /\ BaseTypes /\ Waiting
  /\ program \in AsyncServerPrograms

\* a hook that was told is settled, if it can be
AsTold == \A h \in told : StepOf(h).pending => Settled(h)

LEMMA AsTypesInductive ==
  ASSUME AsTypes, AS!Next
  PROVE  AsTypes'
<1> USE DEF AsTypes
<1>0. ASSUME UNCHANGED <<program, pc, at>> PROVE BaseTypes' /\ Waiting'
  BY <1>0 DEF BaseTypes, Waiting, Step
<1>1. CASE AS!doStart \/ AS!doStop
  BY <1>0, <1>1 DEF AS!doStart, AS!doStop, AS!testVars
<1>2. ASSUME NEW t \in Tests, AS!Base(AS!TestStep(t)) PROVE AsTypes'
  <2>1. TestStep(t) /\ program \in AllPrograms
    BY <1>2, SameSteps DEF AS!Base, AllPrograms
  <2> QED  BY <2>1, WaitsWithPending, TestMoves
<1>3. ASSUME NEW t \in Tests,
             AS!Base(AS!executeWaitMessage(t) \/ AS!executeWaitConnection(t) \/ AS!executeWaitDisconnect(t))
      PROVE  AsTypes'
  <2>1. pc[t] = "ready" /\ HasStep(t) /\ Step(t).type \in WaitTypes /\ WaitBegins(t)
    BY <1>3, SameSteps DEF AS!Base, AS!executeWaitMessage, AS!executeWaitConnection,
       AS!executeWaitDisconnect, AS!Executes, AS!HasStep, AS!Step, HasStep, Step, WaitTypes
  <2>2. program \in AllPrograms
    BY DEF AllPrograms
  <2> QED  BY <2>1, <2>2, WaitsWithPending, TestMoves
<1>4. ASSUME NEW t \in Tests,
             AS!executeSendEvent(t) \/ AS!executeBroadcast(t) \/ AS!executeDisconnect(t)
      PROVE  AsTypes'
  <2>1. /\ program' = program /\ BaseTypes' /\ \A u \in Tests \ {t} : pc'[u] = pc[u] /\ at'[u] = at[u]
        /\ pc'[t] # "waiting"
    BY <1>4 DEF AS!executeSendEvent, AS!executeBroadcast, AS!executeDisconnect, AS!StepPasses,
                AS!StepFails, BaseTypes
  <2>2. Waiting'
    BY <2>1 DEF Waiting, Step
  <2> QED  BY <2>1, <2>2
<1>5. ASSUME NEW c \in Conns,
             \/ AS!handleNewConnection(c) \/ AS!ClientCloses(c) \/ AS!onClose(c)
             \/ \E e \in EventTypes : AS!handleIncomingMessage(c, e)
      PROVE  AsTypes'
  BY <1>0, <1>5 DEF AS!handleNewConnection, AS!ClientCloses, AS!onClose,
                    AS!handleIncomingMessage, AS!testVars
<1>6. ASSUME NEW m \in handling, AS!HandlersEnd(m) PROVE AsTypes'
  BY <1>0, <1>6 DEF AS!HandlersEnd, AS!HandlersPass, AS!HandlersDrop, AS!HandlersThrow, AS!testVars
<1> QED  BY <1>1, <1>2, <1>3, <1>4, <1>5, <1>6 DEF AS!Next, AS!executeStep

LEMMA AsToldInductive ==
  ASSUME AsTypes, AsTold, AS!Next
  PROVE  AsTold'
<1> USE DEF AsTold
<1>a. ASSUME program' = program, resolved \subseteq resolved', rejected \subseteq rejected',
             \A h \in told' \ told : StepOf(h).pending => h \in resolved' \cup rejected'
      PROVE  AsTold'
  BY <1>a DEF StepOf, Settled
<1>1. CASE AS!doStart \/ AS!doStop
  BY <1>a, <1>1 DEF AS!doStart, AS!doStop, AS!hookVars
<1>2. ASSUME NEW t \in Tests,
             \/ AS!Base(AS!TestStep(t))
             \/ AS!Base(AS!executeWaitMessage(t) \/ AS!executeWaitConnection(t) \/ AS!executeWaitDisconnect(t))
      PROVE  AsTold'
  BY <1>a, <1>2, SameSteps, TestMoves DEF AsTypes, AS!Base, AS!executeWaitMessage,
     AS!executeWaitConnection, AS!executeWaitDisconnect, AS!Executes
<1>3. ASSUME NEW t \in Tests,
             AS!executeSendEvent(t) \/ AS!executeBroadcast(t) \/ AS!executeDisconnect(t)
      PROVE  AsTold'
  BY <1>a, <1>3 DEF AS!executeSendEvent, AS!executeBroadcast, AS!executeDisconnect, AS!hookVars
<1>4. ASSUME NEW c \in Conns,
             \/ AS!handleNewConnection(c) \/ AS!ClientCloses(c)
             \/ \E e \in EventTypes : AS!handleIncomingMessage(c, e)
      PROVE  AsTold'
  BY <1>a, <1>4 DEF AS!handleNewConnection, AS!ClientCloses, AS!handleIncomingMessage,
                    AS!hookVars, AS!resolveHooks
<1>5. ASSUME NEW c \in Conns, AS!onClose(c) PROVE AsTold'
  <2> DEFINE first == AS!FirstMatch({h \in AS!Hooks("waitDisconnect") : AS!StepOf(h).link = linkOf[c]})
  <2>1. /\ UNCHANGED <<program, rejected>>
        /\ \/ UNCHANGED <<resolved, told>>
           \/ AS!resolveHooks(first) /\ told' = told \cup first
    BY <1>5 DEF AS!onClose
  <2> HIDE DEF first
  <2> QED  BY <1>a, <2>1 DEF AS!resolveHooks, AS!StepOf, StepOf
<1>6. ASSUME NEW m \in handling, AS!HandlersEnd(m) PROVE AsTold'
  <2>1. program' = program /\ told' = told \cup {m.hook}
    BY <1>6 DEF AS!HandlersEnd, AS!HandlersPass, AS!HandlersDrop, AS!HandlersThrow, AS!Ended
  <2>2. /\ resolved \subseteq resolved' /\ rejected \subseteq rejected'
        /\ StepOf(m.hook).pending => m.hook \in resolved' \cup rejected'
    BY <1>6 DEF AS!HandlersEnd, AS!HandlersPass, AS!HandlersDrop, AS!HandlersThrow,
                AS!resolveHooks, AS!rejectHooks, AS!StepOf, StepOf
  <2> QED  BY <1>a, <2>1, <2>2
<1> QED  BY <1>1, <1>2, <1>3, <1>4, <1>5, <1>6 DEF AS!Next, AS!executeStep

LEMMA AsKeeps ==
  ASSUME AsTypes, AsTold
  PROVE  AS!ServedWaitsEnd
<1>1. ASSUME NEW t \in Tests, pc[t] = "waiting", <<t, at[t]>> \in told
      PROVE  <<t, at[t]>> \in resolved \cup rejected
  BY <1>1 DEF AsTypes, AsTold, Waiting, Step, StepOf, Settled
<1> QED  BY <1>1 DEF AS!ServedWaitsEnd, AS!Hook, AS!Settled

-----------------------------------------------------------------------------
(* AsyncClient: lost connections                                           *)

AcTypes ==
  /\ BaseTypes
  /\ program \in AsyncClientPrograms
  /\ conn \in {0} \cup AC!Connections
  /\ sock \in [AC!Connections -> {"none", "connecting", "open", "closing", "gone"}]
  /\ caller = [k \in AC!Connections |-> caller[k]]

AcBereft == bereft \subseteq resolved \cup rejected

LEMMA AcBereftInductive ==
  ASSUME AcBereft, BaseTypes, AC!Next
  PROVE  AcBereft'
<1> USE DEF AcBereft
<1>a. ASSUME UNCHANGED bereft, resolved \subseteq resolved', rejected \subseteq rejected'
      PROVE  AcBereft'
  BY <1>a
<1>1. CASE AC!doStart \/ AC!doStop
  BY <1>a, <1>1 DEF AC!doStart, AC!doStop, AC!hookVars
<1>2. ASSUME NEW t \in Tests,
             \/ AC!Base(AC!TestStep(t))
             \/ AC!Base(AC!executeWaitEvent(t)) \/ AC!Base(AC!executeWaitDisconnect(t))
      PROVE  AcBereft'
  BY <1>a, <1>2, SameSteps, TestMoves
     DEF AC!Base, AC!executeWaitEvent, AC!executeWaitDisconnect, AC!Executes
<1>3. ASSUME NEW t \in Tests,
             AC!executeConnect(t) \/ AC!executeDisconnect(t) \/ AC!executeSendMessage(t)
      PROVE  AcBereft'
  BY <1>a, <1>3 DEF AC!executeConnect, AC!executeDisconnect, AC!executeSendMessage, AC!hookVars
<1>4. ASSUME NEW k \in AC!Connections,
             \/ AC!Connected(k) \/ AC!ConnectFails(k) \/ AC!PeerCloses(k)
             \/ \E e \in EventTypes : AC!handleIncomingEvent(k, e)
      PROVE  AcBereft'
  BY <1>a, <1>4 DEF AC!Connected, AC!ConnectFails, AC!PeerCloses, AC!handleIncomingEvent,
                    AC!hookVars, AC!resolveHooks
<1>5. ASSUME NEW k \in AC!Connections, AC!onClose(k) PROVE AcBereft'
  <2>1. /\ AC!resolveHooks({h \in AC!WaitHooks : AC!StepOf(h).type = "waitDisconnect"})
        /\ AC!rejectHooks(AC!Lost)
        /\ bereft' = bereft \cup {h \in AC!WaitHooks : h \notin resolved}
    BY <1>5 DEF AC!onClose, AC!rejectLost
  <2>2. resolved \subseteq resolved' /\ rejected \subseteq rejected'
    BY <2>1 DEF AC!resolveHooks, AC!rejectHooks
  <2>3. ASSUME NEW h \in AC!WaitHooks, h \notin resolved PROVE h \in resolved' \cup rejected'
    <3>1. AC!StepOf(h).pending
      BY DEF AC!WaitHooks
    <3>2. CASE AC!StepOf(h).type = "waitDisconnect"
      BY <2>1, <2>2, <3>1, <3>2 DEF AC!resolveHooks
    <3>3. CASE AC!StepOf(h).type # "waitDisconnect"
      BY <2>1, <2>3, <3>1, <3>3 DEF AC!rejectHooks, AC!Lost
    <3> QED  BY <3>2, <3>3
  <2> QED  BY <2>1, <2>2, <2>3
<1> QED  BY <1>1, <1>2, <1>3, <1>4, <1>5 DEF AC!Next, AC!executeStep

LEMMA AcTypesInductive ==
  ASSUME AcTypes, AC!Next
  PROVE  AcTypes'
<1> USE DEF AcTypes
<1>1. CASE AC!doStart \/ AC!doStop
  BY <1>1 DEF AC!doStart, AC!doStop, AC!establishConnection, AC!Fresh, AC!Closing, AC!connVars,
              AC!testVars, BaseTypes
<1>2. ASSUME NEW t \in Tests,
             \/ AC!Base(AC!TestStep(t))
             \/ AC!Base(AC!executeWaitEvent(t)) \/ AC!Base(AC!executeWaitDisconnect(t))
      PROVE  AcTypes'
  BY <1>2, SameSteps, TestMoves
     DEF AC!Base, AC!executeWaitEvent, AC!executeWaitDisconnect, AC!Executes, AC!connVars
<1>3. ASSUME NEW t \in Tests,
             AC!executeConnect(t) \/ AC!executeDisconnect(t) \/ AC!executeSendMessage(t)
      PROVE  AcTypes'
  <2>1. BaseTypes'
    BY <1>3 DEF AC!executeConnect, AC!executeDisconnect, AC!executeSendMessage, AC!StepPasses,
                AC!StepFails, AC!StepGoesTo, BaseTypes
  <2>2. CASE AC!executeConnect(t)
    BY <2>1, <2>2 DEF AC!executeConnect, AC!establishConnection, AC!Fresh, AC!Closing
  <2>3. CASE AC!executeDisconnect(t) \/ AC!executeSendMessage(t)
    BY <2>1, <2>3 DEF AC!executeDisconnect, AC!executeSendMessage, AC!Closing, AC!connVars
  <2> QED  BY <1>3, <2>2, <2>3
<1>4. ASSUME NEW k \in AC!Connections, AC!Connected(k) \/ AC!ConnectFails(k) PROVE AcTypes'
  BY <1>4 DEF AC!Connected, AC!ConnectFails, AC!StepPasses, AC!StepFails, AC!testVars, BaseTypes
<1>5. ASSUME NEW k \in AC!Connections,
             \/ AC!PeerCloses(k) \/ AC!onClose(k)
             \/ \E e \in EventTypes : AC!handleIncomingEvent(k, e)
      PROVE  AcTypes'
  BY <1>5 DEF AC!PeerCloses, AC!onClose, AC!handleIncomingEvent, AC!connVars, AC!testVars, BaseTypes
<1> QED  BY <1>1, <1>2, <1>3, <1>4, <1>5 DEF AC!Next, AC!executeStep

LEMMA AcKeeps ==
  ASSUME AcBereft
  PROVE  AC!LossEndsWaits
  BY DEF AcBereft, AC!LossEndsWaits, AC!Settled

-----------------------------------------------------------------------------
(* AsyncClient: connections                                                *)

\* The hypothesis: test cases that execute at the same time do not both connect.
Connects(p, t) == \E i \in 1..Len(p[t]) : p[t][i].type = "connect"
OneConnects ==
  ~Parallel \/ \A p \in AsyncClientPrograms : \A t, u \in Tests :
                 Connects(p, t) /\ Connects(p, u) => t = u

InTurn ==
  /\ ~Parallel => \A t, u \in Tests : Active(t) /\ Active(u) => t = u
  /\ cst # "started" => \A t \in Tests : ~Active(t)

AtConnect(t) == at[t] <= Len(program[t]) /\ program[t][at[t]].type = "connect"

\* one connection is being made at most, and none is there meanwhile
AcSockets ==
  /\ \A k \in AC!Connections : sock[k] = "open" => conn = k
  /\ \A k \in AC!Connections : sock[k] = "connecting" =>
       /\ conn = 0
       /\ \/ caller[k] = "start" /\ cst = "starting"
          \/ caller[k] \in Tests /\ pc[caller[k]] = "busy" /\ AtConnect(caller[k])
  /\ \A j, k \in AC!Connections : sock[j] = "connecting" /\ sock[k] = "connecting" => j = k
  /\ cst = "stopped" => conn = 0

AcInv == AcTypes /\ AcBereft /\ (OneConnects => InTurn /\ AcSockets)

LEMMA ZeroIsNone == 0 \notin AC!Connections
  BY StepsAssumption DEF AC!Connections

\* A connection is made when no other one is.
LEMMA NoneConnecting ==
  ASSUME AcTypes, InTurn, AcSockets, OneConnects,
         cst = "created" \/ \E t \in Tests : pc[t] = "ready" /\ AtConnect(t)
  PROVE  \A k \in AC!Connections : sock[k] # "connecting"
<1> SUFFICES ASSUME NEW k \in AC!Connections, sock[k] = "connecting" PROVE FALSE
  OBVIOUS
<1>1. CASE caller[k] = "start" /\ cst = "starting"
  BY <1>1 DEF InTurn, Active
<1>2. CASE caller[k] \in Tests /\ pc[caller[k]] = "busy" /\ AtConnect(caller[k])
  <2>1. Active(caller[k]) /\ cst # "created"
    BY <1>2 DEF Active, InTurn
  <2>2. PICK t \in Tests : pc[t] = "ready" /\ AtConnect(t)
    BY <2>1
  <2>3. t # caller[k]
    BY <1>2, <2>2
  <2>4. CASE ~Parallel
    BY <1>2, <2>1, <2>2, <2>3, <2>4 DEF InTurn, Active
  <2>5. CASE Parallel
    <3>1. ASSUME NEW u \in Tests, AtConnect(u) PROVE Connects(program, u)
      <4>1. at[u] \in 1..Len(program[u])
        BY <3>1, StepsAssumption DEF AtConnect, AcTypes, BaseTypes, AllPrograms
      <4> QED  BY <3>1, <4>1 DEF AtConnect, Connects
    <3> QED  BY <1>2, <2>2, <2>3, <2>5, <3>1 DEF OneConnects, AcTypes
  <2> QED  BY <2>4, <2>5
<1> QED  BY <1>1, <1>2 DEF AcSockets

LEMMA InTurnInductive ==
  ASSUME AcTypes, InTurn, AcSockets, AC!Next
  PROVE  InTurn'
<1> USE DEF InTurn, Active
<1>a. ASSUME \A t \in Tests : pc'[t] \notin {"idle", "done"} => pc[t] \notin {"idle", "done"},
             cst' # "started" => cst # "started" \/ \A t \in Tests : ~Active(t)
      PROVE  InTurn'
  BY <1>a
<1>1. CASE AC!doStart \/ AC!doStop
  BY <1>1, <1>a DEF AC!doStart, AC!doStop, AC!testVars, AC!Quiet, AC!Active
<1>2. ASSUME NEW t \in Tests, AC!Base(AC!TestStep(t)) PROVE InTurn'
  <2>1. TestStep(t)
    BY <1>2, SameSteps DEF AC!Base
  <2>2. CASE BeginTest(t)
    BY <2>2 DEF BeginTest, AcTypes, BaseTypes
  <2>3. CASE ~BeginTest(t)
    <3>1. pc[t] \notin {"idle", "done"}
      BY <2>1, <2>3 DEF TestStep, HookStep, StepsDone, ClearHooks, WaitResolved, WaitRejected,
                        WaitTimeout
    <3>2. cst' = cst /\ \A u \in Tests \ {t} : pc'[u] = pc[u]
      BY <2>1, TestMoves DEF AcTypes
    <3> QED  BY <1>a, <3>1, <3>2
  <2> QED  BY <2>2, <2>3
<1>3. ASSUME NEW t \in Tests, pc[t] = "ready", cst' = cst, \A u \in Tests \ {t} : pc'[u] = pc[u]
      PROVE  InTurn'
  BY <1>3, <1>a
<1>4. ASSUME NEW t \in Tests, AC!executeStep(t) PROVE InTurn'
  <2>1. pc[t] = "ready"
    BY <1>4 DEF AC!executeStep, AC!executeConnect, AC!executeDisconnect, AC!executeSendMessage,
                AC!executeWaitEvent, AC!executeWaitDisconnect, AC!Base, AC!Executes
  <2>2. cst' = cst /\ \A u \in Tests \ {t} : pc'[u] = pc[u]
    BY <1>4 DEF AC!executeStep, AC!executeConnect, AC!executeDisconnect, AC!executeSendMessage,
       AC!executeWaitEvent, AC!executeWaitDisconnect, AC!Base, AC!Executes, AC!WaitBegins,
       AC!StepPasses, AC!StepFails, AC!StepGoesTo, AcTypes, BaseTypes
  <2> QED  BY <1>3, <2>1, <2>2
<1>5. ASSUME NEW k \in AC!Connections, AC!Connected(k) \/ AC!ConnectFails(k) PROVE InTurn'
  <2>1. CASE caller[k] = "start"
    <3>1. cst = "starting" /\ pc' = pc
      BY <1>5, <2>1, StepsAssumption DEF AC!Connected, AC!ConnectFails, AC!testVars, AcSockets
    <3> QED  BY <1>a, <3>1
  <2>2. CASE caller[k] # "start"
    <3>1. caller[k] \in Tests /\ pc[caller[k]] = "busy" /\ cst' = cst
      BY <1>5, <2>2 DEF AC!Connected, AC!ConnectFails, AcSockets
    <3>2. \A u \in Tests \ {caller[k]} : pc'[u] = pc[u]
      BY <1>5, <2>2, <3>1 DEF AC!Connected, AC!ConnectFails, AC!StepPasses, AC!StepFails,
                              AcTypes, BaseTypes
    <3> QED  BY <1>a, <3>1, <3>2
  <2> QED  BY <2>1, <2>2
<1>6. ASSUME NEW k \in AC!Connections,
             \/ AC!PeerCloses(k) \/ AC!onClose(k)
             \/ \E e \in EventTypes : AC!handleIncomingEvent(k, e)
      PROVE  InTurn'
  BY <1>6, <1>a DEF AC!PeerCloses, AC!onClose, AC!handleIncomingEvent, AC!testVars
<1> QED  BY <1>1, <1>2, <1>4, <1>5, <1>6 DEF AC!Next

LEMMA AcSocketsInductive ==
  ASSUME AcTypes, InTurn, AcSockets, AC!Next, OneConnects
  PROVE  AcSockets'
<1> USE DEF AcSockets
<1>a. ASSUME UNCHANGED <<caller, cst, program>>, conn' = conn \/ conn' = 0,
             \A t \in Tests : pc[t] = "busy" => pc'[t] = "busy" /\ at'[t] = at[t],
             \A k \in AC!Connections : sock'[k] \in {"open", "connecting"} => sock'[k] = sock[k],
             \A k \in AC!Connections : sock'[k] = "open" => conn' = k
      PROVE  AcSockets'
  BY <1>a DEF AtConnect
<1>b. ASSUME NEW who, AC!establishConnection(who), \A k \in AC!Connections : sock[k] # "connecting",
             \/ who = "start" /\ cst' = "starting"
             \/ who \in Tests /\ pc'[who] = "busy" /\ AtConnect(who)'
      PROVE  AcSockets'
  <2>1. PICK k \in AC!Fresh : /\ sock' = [AC!Closing EXCEPT ![k] = "connecting"]
                              /\ caller' = [caller EXCEPT ![k] = who] /\ conn' = 0
    BY <1>b DEF AC!establishConnection
  <2>2. k \in AC!Connections
    BY DEF AC!Fresh
  <2>3. /\ \A j \in AC!Connections : sock'[j] # "open" /\ (sock'[j] = "connecting" => j = k)
        /\ caller'[k] = who
    BY <1>b, <2>1, <2>2 DEF AC!Closing, AcTypes
  <2> QED  BY <1>b, <2>1, <2>3
<1>c. ASSUME AC!Quiet, cst \in {"started", "error"} PROVE \A k \in AC!Connections : sock[k] # "connecting"
  BY <1>c DEF AC!Quiet, AC!Active
<1>1. CASE AC!doStart
  <2>1. CASE AC!establishConnection("start") /\ cst' = "starting"
    BY <1>1, <1>b, <2>1, NoneConnecting DEF AC!doStart
  <2>2. CASE cst' = "started" /\ UNCHANGED AC!connVars
    BY <1>1, <2>2, NoneConnecting DEF AC!doStart, AC!connVars
  <2> QED  BY <1>1, <2>1, <2>2 DEF AC!doStart
<1>2. CASE AC!doStop
  <2>1. \A k \in AC!Connections : sock'[k] \notin {"open", "connecting"}
    BY <1>2, <1>c DEF AC!doStop, AC!Closing, AcTypes
  <2> QED  BY <1>2, <2>1 DEF AC!doStop
<1>3. ASSUME NEW t \in Tests,
             \/ AC!Base(AC!TestStep(t))
             \/ AC!Base(AC!executeWaitEvent(t)) \/ AC!Base(AC!executeWaitDisconnect(t))
      PROVE  AcSockets'
  <2>1. /\ pc[t] # "busy" /\ \A u \in Tests \ {t} : pc'[u] = pc[u] /\ at'[u] = at[u]
        /\ UNCHANGED <<cst, program>> /\ UNCHANGED AC!connVars
    BY <1>3, SameSteps, TestMoves
       DEF AC!Base, AC!executeWaitEvent, AC!executeWaitDisconnect, AC!Executes, AcTypes
  <2> QED  BY <1>a, <2>1 DEF AC!connVars
<1>4. ASSUME NEW t \in Tests, AC!executeConnect(t) PROVE AcSockets'
  <2>1. /\ pc'[t] = "busy" /\ pc[t] = "ready" /\ AC!establishConnection(t)
        /\ AtConnect(t) /\ UNCHANGED <<program, at>>
    BY <1>4 DEF AC!executeConnect, AC!Executes, AC!HasStep, AC!Step, AC!StepGoesTo, AcTypes, BaseTypes, AtConnect
  <2>2. AtConnect(t)'
    BY <2>1 DEF AtConnect
  <2> QED  BY <1>b, <2>1, <2>2, NoneConnecting
<1>5. ASSUME NEW t \in Tests, AC!executeDisconnect(t) PROVE AcSockets'
  <2>1. /\ conn' = 0 /\ sock' = AC!Closing /\ UNCHANGED <<cst, program, caller>> /\ pc[t] = "ready"
        /\ \A u \in Tests \ {t} : pc'[u] = pc[u] /\ at'[u] = at[u]
    BY <1>5 DEF AC!executeDisconnect, AC!Executes, AC!StepPasses, AcTypes, BaseTypes
  <2>2. \A k \in AC!Connections : /\ sock'[k] # "open"
                                  /\ sock'[k] = "connecting" => sock[k] = "connecting"
    BY <2>1 DEF AC!Closing, AcTypes
  <2> QED  BY <1>a, <2>1, <2>2
<1>6. ASSUME NEW t \in Tests, AC!executeSendMessage(t) PROVE AcSockets'
  <2>1. /\ UNCHANGED <<cst, program, conn, sock, caller>> /\ pc[t] = "ready"
        /\ \A u \in Tests \ {t} : pc'[u] = pc[u] /\ at'[u] = at[u]
    BY <1>6 DEF AC!executeSendMessage, AC!Executes, AC!connVars, AC!StepPasses, AC!StepFails,
                AcTypes, BaseTypes
  <2> QED  BY <1>a, <2>1
<1>7. ASSUME NEW k \in AC!Connections, AC!Connected(k) PROVE AcSockets'
  <2>1. /\ sock[k] = "connecting" /\ conn' = k /\ sock' = [sock EXCEPT ![k] = "open"]
        /\ cst' = "started" \/ cst' = cst
    BY <1>7 DEF AC!Connected
  <2>2. \A j \in AC!Connections : sock'[j] # "connecting" /\ (sock'[j] = "open" => j = k)
    BY <2>1, ZeroIsNone DEF AcTypes
  <2>3. cst # "stopped"
    BY <2>1 DEF InTurn, Active
  <2> QED  BY <2>1, <2>2, <2>3
<1>8. ASSUME NEW k \in AC!Connections, AC!ConnectFails(k) PROVE AcSockets'
  <2>1. /\ sock[k] = "connecting" /\ conn' = conn /\ sock' = [sock EXCEPT ![k] = "gone"]
        /\ cst' = "error" \/ cst' = cst
    BY <1>8 DEF AC!ConnectFails
  <2>2. \A j \in AC!Connections : sock'[j] \notin {"connecting", "open"}
    BY <2>1, ZeroIsNone DEF AcTypes
  <2> QED  BY <2>1, <2>2
<1>9. ASSUME NEW k \in AC!Connections,
             \/ AC!PeerCloses(k) \/ AC!onClose(k)
             \/ \E e \in EventTypes : AC!handleIncomingEvent(k, e)
      PROVE  AcSockets'
  BY <1>9, <1>a DEF AC!PeerCloses, AC!onClose, AC!handleIncomingEvent, AC!connVars, AC!testVars,
                    AcTypes
<1> QED  BY <1>1, <1>2, <1>3, <1>4, <1>5, <1>6, <1>7, <1>8, <1>9 DEF AC!Next, AC!executeStep

LEMMA AcReleases ==
  ASSUME InTurn, AcSockets
  PROVE  AC!Released
  BY ZeroIsNone DEF InTurn, Active, AcSockets, AC!Released

-----------------------------------------------------------------------------
(* The components together                                                 *)

StepsInv ==
  /\ component = "asyncClient" => AcInv
  /\ component = "client" => ScInv
  /\ component = "server" => SsTypes /\ SsServed
  /\ component = "proxy" => SsTypes /\ SsServed /\ SpOrder
  /\ component = "asyncServer" => AsTypes /\ AsTold

LEMMA StepsStart ==
  ASSUME Init
  PROVE  StepsInv
<1>1. component = "asyncClient" => AcInv
  BY DEF Init, AC!Init, AC!BaseInit, AcInv, AcTypes, BaseTypes, AcBereft, InTurn, Active, AcSockets
<1>2. component = "client" => ScInv
  BY ScStarts DEF Init
<1>3. component \in {"server", "proxy"} => SsTypes /\ SsServed
  BY SsStarts DEF Init
<1>4. component = "proxy" => SpOrder
  BY DEF Init, SP!Init, SP!BaseInit, SpOrder
<1>5. component = "asyncServer" => AsTypes /\ AsTold
  BY DEF Init, AS!Init, AS!BaseInit, AsTypes, BaseTypes, Waiting, AsTold
<1> QED  BY <1>1, <1>2, <1>3, <1>4, <1>5 DEF StepsInv

LEMMA StepsStutter ==
  ASSUME StepsInv, UNCHANGED vars
  PROVE  StepsInv'
<1> USE DEF vars, baseVars, hookVars, testVars, asyncVars, clientVars, pollVars, serverVars, linkVars
<1>1. AcInv => AcInv'
  <2>1. AcTypes /\ AcBereft => AcTypes' /\ AcBereft'
    BY DEF AcTypes, BaseTypes, AcBereft
  <2>2. InTurn /\ AcSockets => InTurn' /\ AcSockets'
    BY DEF InTurn, Active, AcSockets, AtConnect
  <2>3. OneConnects' <=> OneConnects
    BY DEF OneConnects, Connects
  <2> QED  BY <2>1, <2>2, <2>3 DEF AcInv
<1>2. ScInv => ScInv'
  BY DEF ScInv, ScTypes, BaseTypes, ScServed, StepOf, ScBudget, SC!Policy, SC!Step
<1>3. SsTypes /\ SsServed => SsTypes' /\ SsServed'
  BY DEF SsTypes, BaseTypes, Waiting, Step, SsServed, StepOf, Settled
<1>4. SpOrder => SpOrder'
  BY DEF SpOrder
<1>5. AsTypes /\ AsTold => AsTypes' /\ AsTold'
  BY DEF AsTypes, BaseTypes, Waiting, Step, AsTold, StepOf, Settled
<1>6. component' = component
  OBVIOUS
<1> QED  BY <1>1, <1>2, <1>3, <1>4, <1>5, <1>6 DEF StepsInv

LEMMA StepsInductive ==
  ASSUME StepsInv, [Next]_vars
  PROVE  StepsInv'
<1>1. CASE AcStep(AC!Next)
  <2>1. AcInv /\ AC!Next /\ component' = "asyncClient"
    BY <1>1 DEF AcStep, StepsInv
  <2>2. AcInv'
    BY <2>1, AcTypesInductive, AcBereftInductive, InTurnInductive, AcSocketsInductive
       DEF AcInv, AcTypes
  <2> QED  BY <2>1, <2>2 DEF StepsInv
<1>2. CASE ScStep(SC!Next)
  <2>1. ScInv /\ SC!Next /\ component' = "client"
    BY <1>2 DEF ScStep, StepsInv
  <2>2. ScInv'
    BY <2>1, ScTypesInductive, ScBudgetInductive, ScServedInductive DEF ScInv
  <2> QED  BY <2>1, <2>2 DEF StepsInv
<1>3. CASE SmStep(SM!Next)
  <2>1. SsTypes /\ SsServed /\ SM!Next /\ component' = "server"
    BY <1>3 DEF SmStep, SsUnchanged, StepsInv
  <2>2. SsTypes' /\ SsServed'
    BY <2>1, SmTypesInductive, SmMoves, SsServedInductive
  <2> QED  BY <2>1, <2>2 DEF StepsInv
<1>4. CASE SpStep(SP!Next)
  <2>1. SsTypes /\ SsServed /\ SpOrder /\ SP!Next /\ component' = "proxy"
    BY <1>4 DEF SpStep, SsUnchanged, StepsInv
  <2>2. SsTypes' /\ SsServed' /\ SpOrder'
    BY <2>1, SpTypesInductive, SpMoves, SsServedInductive, SpOrderInductive
  <2> QED  BY <2>1, <2>2 DEF StepsInv
<1>5. CASE AsStep(AS!Next)
  <2>1. AsTypes /\ AsTold /\ AS!Next /\ component' = "asyncServer"
    BY <1>5 DEF AsStep, StepsInv
  <2>2. AsTypes' /\ AsTold'
    BY <2>1, AsTypesInductive, AsToldInductive
  <2> QED  BY <2>1, <2>2 DEF StepsInv
<1>6. CASE UNCHANGED vars
  BY <1>6, StepsStutter
<1> QED  BY <1>1, <1>2, <1>3, <1>4, <1>5, <1>6 DEF Next

LEMMA StepsInvHolds == Spec => []StepsInv
<1>1. Init => StepsInv
  BY StepsStart
<1>2. StepsInv /\ [Next]_vars => StepsInv'
  BY StepsInductive
<1> QED  BY <1>1, <1>2, PTL DEF Spec

\* What a wait is for ends it, in every component: a lost connection, a request
\* that is over, a handled message or the end of a link settles the pending of
\* its hooks before the timeout of the wait has to (the resolveHook and
\* rejectHook calls of the four components).
THEOREM WaitsAreTold == Spec => []WaitsTold
<1>1. StepsInv /\ component \in {"asyncClient", "client", "server", "proxy", "asyncServer"} =>
        WaitsTold
  BY AcKeeps, ScKeeps, SsKeeps, AsKeeps DEF StepsInv, AcInv, WaitsTold
<1>2. Init => component \in {"asyncClient", "client", "server", "proxy", "asyncServer"}
  BY DEF Init
<1>3. component \in {"asyncClient", "client", "server", "proxy", "asyncServer"} /\ [Next]_vars =>
        (component \in {"asyncClient", "client", "server", "proxy", "asyncServer"})'
  BY DEF Next, AcStep, ScStep, SmStep, SpStep, SsUnchanged, AsStep, vars
<1> QED  BY <1>1, <1>2, <1>3, StepsInvHolds, PTL DEF Spec

\* runWithRetry keeps to the timeout of its policy, whatever that, the interval
\* and the time of the attempts are: what is left and what was spent add up, and
\* no sleep goes beyond it.
THEOREM PollsKeepBudget == Spec => []RetryInBudget
<1>1. StepsInv => RetryInBudget
  BY ScKeeps DEF StepsInv, RetryInBudget
<1> QED  BY <1>1, StepsInvHolds, PTL

\* A stopped proxy refused nothing it had received and left no request with a
\* client adapter that is gone; a stopped AsyncClient has no open connection,
\* unless two test cases connect at the same time, which leaves one behind.
THEOREM StoppedReleases == ASSUME OneConnects PROVE Spec => []StopReleases
<1>1. StepsInv => StopReleases
  BY AcReleases, SpKeeps DEF StepsInv, AcInv, StopReleases
<1> QED  BY <1>1, StepsInvHolds, PTL

\* The proxy's half of it needs no turns.
THEOREM ProxyForwards == Spec => [](component = "proxy" => SP!StopForwards)
<1>1. StepsInv => (component = "proxy" => SP!StopForwards)
  BY SpKeeps DEF StepsInv
<1> QED  BY <1>1, StepsInvHolds, PTL
==============================================================================
