--------------------------- MODULE ComponentHooks ---------------------------
(***************************************************************************)
(* What the components have in common: the hooks of BaseComponent and the  *)
(* execution of test cases by executeSteps, on one component.  A hook is   *)
(* named by its step, <<test case, index>>.  A step says what its type is, *)
(* its mode, whether registerHook gives its hook a pending, and whether    *)
(* its wait is strict.  The modules of the components extend this one with *)
(* what their steps do.  The unhandled errors of components, and which     *)
(* test case fails for them, are in Scenario.tla.                          *)
(*                                                                         *)
(* JavaScript runs one callback at a time: an action is what happens       *)
(* between two awaits that really wait.                                    *)
(***************************************************************************)
EXTENDS Integers, Sequences, FiniteSets

CONSTANTS
  Tests,      \* test cases
  Programs,   \* what their steps may be: functions from Tests to sequences of steps
  Parallel,   \* whether test cases may execute at the same time
  Failing     \* whether handlers, validations and calls may fail

ASSUME HooksAssumption ==
  /\ {Parallel, Failing} \subseteq BOOLEAN
  /\ \A p \in Programs : DOMAIN p = Tests

VARIABLES
  cst,        \* the component: "created", "starting", "started", "error", "stopping", "stopped"
  program,    \* the steps of the test cases
  hooks,      \* BaseComponent.hooks
  resolved,   \* the hooks whose pending was resolved
  rejected,   \* the hooks whose pending was rejected
  pc,         \* a test case: "idle", "ready", "busy", "waiting", "cleanup", "done"
  at,         \* the step of a test case
  verdict     \* what its steps came to: "none", "passed", "failed"

hookVars == <<hooks, resolved, rejected>>
testVars == <<pc, at, verdict>>
baseVars == <<cst, program, hookVars, testVars>>

BaseTypeOK ==
  /\ cst \in {"created", "starting", "started", "error", "stopping", "stopped"}
  /\ program \in Programs
  /\ \A i \in DOMAIN hooks : hooks[i][2] \in DOMAIN program[hooks[i][1]]
  /\ pc \in [Tests -> {"idle", "ready", "busy", "waiting", "cleanup", "done"}]
  /\ \A t \in Tests : at[t] \in 1..(Len(program[t]) + 1)
  /\ verdict \in [Tests -> {"none", "passed", "failed"}]

BaseInit ==
  /\ cst = "created"
  /\ program \in Programs
  /\ hooks = <<>>
  /\ resolved = {}
  /\ rejected = {}
  /\ pc = [t \in Tests |-> "idle"]
  /\ at = [t \in Tests |-> 1]
  /\ verdict = [t \in Tests |-> "none"]

-----------------------------------------------------------------------------
(* Hooks                                                                   *)

StepOf(h)     == program[h[1]][h[2]]
Settled(h)    == h \in resolved \cup rejected
HasHook(h)    == \E i \in DOMAIN hooks : hooks[i] = h
Without(H)    == SelectSeq(hooks, LAMBDA g : g \notin H)
WaitHooks     == {h \in {hooks[i] : i \in DOMAIN hooks} : StepOf(h).pending}

\* findMatchingHook: the first unresolved hook among those that match
Earliest(H)   == {h \in H : \A g \in H : \E i, j \in DOMAIN hooks :
                              hooks[i] = h /\ hooks[j] = g /\ i <= j}
Unresolved(H) == {h \in H : HasHook(h) /\ h \notin resolved}
FirstMatch(H) == Earliest(Unresolved(H))

\* a pending is settled once
resolveHooks(H) ==
  resolved' = resolved \cup {h \in H : StepOf(h).pending /\ h \notin rejected}

rejectHooks(H) ==
  /\ rejected' = rejected \cup {h \in H : StepOf(h).pending /\ h \notin resolved}
  /\ hooks' = Without(H)

-----------------------------------------------------------------------------
(* Test cases                                                              *)

Active(t)  == pc[t] \notin {"idle", "done"}
HasStep(t) == at[t] <= Len(program[t])
Step(t)    == program[t][at[t]]
Hook(t)    == <<t, at[t]>>
Executes(t, type) == pc[t] = "ready" /\ HasStep(t) /\ Step(t).type = type

Registrations(t) ==
  LET steps == [i \in DOMAIN program[t] |-> <<t, i>>]
  IN  SelectSeq(steps, LAMBDA h : StepOf(h).mode # "action")

\* Phase 1 registers every hook before the first step
BeginTest(t) ==
  /\ cst = "started" /\ pc[t] = "idle"
  /\ Parallel \/ \A u \in Tests : ~Active(u)
  /\ pc' = [pc EXCEPT ![t] = "ready"]
  /\ hooks' = hooks \o Registrations(t)
  /\ UNCHANGED <<cst, program, resolved, rejected, at, verdict>>

StepPasses(t) ==
  /\ pc' = [pc EXCEPT ![t] = "ready"]
  /\ at' = [at EXCEPT ![t] = @ + 1]
  /\ UNCHANGED verdict

\* the first failing step ends the test case
StepFails(t) ==
  /\ pc' = [pc EXCEPT ![t] = "cleanup"]
  /\ verdict' = [verdict EXCEPT ![t] = "failed"]
  /\ UNCHANGED at

StepGoesTo(t, place) ==
  /\ pc' = [pc EXCEPT ![t] = place]
  /\ UNCHANGED <<at, verdict>>

\* an on... step without a pending does nothing when its turn comes
HookStep(t) ==
  /\ pc[t] = "ready" /\ HasStep(t) /\ Step(t).mode = "hook" /\ ~Step(t).pending
  /\ StepPasses(t)
  /\ UNCHANGED <<cst, program, hookVars>>

StepsDone(t) ==
  /\ pc[t] = "ready" /\ ~HasStep(t)
  /\ pc' = [pc EXCEPT ![t] = "cleanup"]
  /\ verdict' = [verdict EXCEPT ![t] = "passed"]
  /\ UNCHANGED <<cst, program, hookVars, at>>

\* Phase 3
ClearHooks(t) ==
  /\ pc[t] = "cleanup"
  /\ pc' = [pc EXCEPT ![t] = "done"]
  /\ hooks' = Without({<<t, i>> : i \in DOMAIN program[t]})
  /\ UNCHANGED <<cst, program, resolved, rejected, at, verdict>>

-----------------------------------------------------------------------------
(* Wait steps                                                              *)

\* findHookByStepId finds nothing once the hook was rejected; a strict wait
\* fails when its hook was resolved before its turn
WaitBegins(t) ==
  /\ IF HasHook(Hook(t)) /\ (Hook(t) \notin resolved \/ ~Step(t).strict)
       THEN StepGoesTo(t, "waiting")
       ELSE StepFails(t)
  /\ UNCHANGED <<cst, program, hookVars>>

\* awaitHook returns; handlers and validation of the step may still fail
WaitResolved(t) ==
  /\ pc[t] = "waiting" /\ Hook(t) \in resolved
  /\ StepPasses(t) \/ (Failing /\ StepFails(t))
  /\ hooks' = Without({Hook(t)})
  /\ UNCHANGED <<cst, program, resolved, rejected>>

WaitRejected(t) ==
  /\ pc[t] = "waiting" /\ Hook(t) \in rejected
  /\ StepFails(t)
  /\ hooks' = Without({Hook(t)})
  /\ UNCHANGED <<cst, program, resolved, rejected>>

WaitTimeout(t) ==
  /\ pc[t] = "waiting" /\ ~Settled(Hook(t))
  /\ StepFails(t)
  /\ hooks' = Without({Hook(t)})
  /\ UNCHANGED <<cst, program, resolved, rejected>>

TestStep(t) ==
  \/ BeginTest(t) \/ HookStep(t) \/ StepsDone(t) \/ ClearHooks(t)
  \/ WaitResolved(t) \/ WaitRejected(t) \/ WaitTimeout(t)

\* under way, a test case does not stop
GoesOn(t) ==
  \/ HookStep(t) \/ StepsDone(t) \/ ClearHooks(t)
  \/ WaitResolved(t) \/ WaitRejected(t) \/ WaitTimeout(t)

Quiet == \A t \in Tests : ~Active(t)
=============================================================================
