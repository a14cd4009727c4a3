----------------------------- MODULE Subscriber -----------------------------
(***************************************************************************)
(* The Subscriber component: one message-queue subscriber adapter per test *)
(* case, created on first need, closed by clearHooks(testCaseId) at the    *)
(* end of the test case or by doStop() at the end of the scenario.         *)
(*                                                                         *)
(* The test cases run concurrently, and stop() may come while some are     *)
(* executing: run() stops the components as soon as one group rejected.    *)
(* The calls of the adapter are awaited, so between the call and its end   *)
(* everything else goes on.                                                *)
(***************************************************************************)
EXTENDS Integers, Sequences, FiniteSets

CONSTANTS
  Tests,          \* the test cases
  Topics,
  Program,        \* [Tests -> Seq(Step)]: this component's steps
  AutoSubscribe,  \* SubscriberOptions.autoSubscribe
  Unreliable,     \* TRUE when calls of the adapter and handlers may fail
  Aborts,         \* test cases another component of which may fail Phase 1.5
  MaxMsgs,        \* bound on the messages delivered
  MaxStarts       \* bound on the calls of start()

Step == [kind : {"onMessage", "waitMessage", "subscribe", "unsubscribe"},
         topics : SUBSET Topics]

\* the steps of SubscriberStepBuilder; subscribe and unsubscribe without topics
\* stand for those of the hooks, and for those that are held
onMessage(topic)   == [kind |-> "onMessage", topics |-> {topic}]
waitMessage(topic) == [kind |-> "waitMessage", topics |-> {topic}]
waitMessageFrom(T) == [kind |-> "waitMessage", topics |-> T]
subscribe(T)       == [kind |-> "subscribe", topics |-> T]
unsubscribe(T)     == [kind |-> "unsubscribe", topics |-> T]

ASSUME SubscriberAssumption ==
  /\ Program \in [Tests -> Seq(Step)]
  /\ AutoSubscribe \in BOOLEAN /\ Unreliable \in BOOLEAN /\ Aborts \subseteq Tests
  /\ MaxMsgs \in Nat /\ MaxStarts \in Nat

VARIABLES
  cst,         \* Component.state
  stopAt,      \* where doStop is: "none", "draining" or "closing"
  closes,      \* the test cases whose adapter doStop is closing
  isStopping,  \* _isStopping
  starts,      \* calls of start() so far
  pc,          \* where executeSteps is, for each test case
  step,        \* index of its current step
  call,        \* its adapter call in flight: "none", "create", "subscribe", "unsubscribe"
  wanted,      \* topics of that call
  ast,         \* its adapter: "none", "creating", "open", "closing", "closed"
  entry,       \* test cases with an entry in `subscribers`
  topics,      \* entry.topics
  broker,      \* topics the adapter is subscribed to
  derived,     \* _hookDerivedTopics
  hooks,       \* registered hooks <<t, i>>, i the index of the step
  resolved,    \* hooks whose pending was resolved
  rejected,    \* hooks whose pending was rejected
  claim,       \* the number of the message that resolved a hook (0: none)
  msgs,        \* messages delivered so far
  errs         \* test cases with an entry in unhandledErrors

lifeVars == <<cst, stopAt, closes, isStopping, starts>>
tcVars   == <<pc, step>>
callVars == <<call, wanted>>
mqVars   == <<ast, entry, topics, broker>>
hookVars == <<hooks, resolved, rejected, claim>>
vars     == <<lifeVars, tcVars, callVars, mqVars, derived, hookVars, msgs, errs>>

Hooks   == UNION {{<<t, i>> : i \in DOMAIN Program[t]} : t \in Tests}
StepOf(h) == Program[h[1]][h[2]]
IsWait(h) == StepOf(h).kind = "waitMessage"
HooksOf(t) == {h \in hooks : h[1] = t}

TypeOK ==
  /\ cst \in {"created", "started", "stopping", "stopped"}
  /\ stopAt \in {"none", "draining", "closing"}
  /\ closes \subseteq Tests /\ isStopping \in BOOLEAN /\ starts \in 0..MaxStarts
  /\ pc \in [Tests -> {"idle", "ready", "phase15", "exec", "call", "wait",
                       "clear", "closing", "cleared", "closing2", "done"}]
  /\ step \in [Tests -> Nat \ {0}]
  /\ call \in [Tests -> {"none", "create", "subscribe", "unsubscribe"}]
  /\ wanted \in [Tests -> SUBSET Topics]
  /\ ast \in [Tests -> {"none", "creating", "open", "closing", "closed"}]
  /\ entry \subseteq Tests
  /\ topics \in [Tests -> SUBSET Topics] /\ broker \in [Tests -> SUBSET Topics]
  /\ derived \in [Tests -> SUBSET Topics]
  /\ hooks \subseteq Hooks /\ resolved \subseteq Hooks /\ rejected \subseteq Hooks
  /\ claim \in [Hooks -> 0..MaxMsgs] /\ msgs \in 0..MaxMsgs
  /\ errs \subseteq Tests

Init ==
  /\ cst = "created" /\ stopAt = "none" /\ closes = {} /\ isStopping = FALSE /\ starts = 0
  /\ pc = [t \in Tests |-> "idle"] /\ step = [t \in Tests |-> 1]
  /\ call = [t \in Tests |-> "none"] /\ wanted = [t \in Tests |-> {}]
  /\ ast = [t \in Tests |-> "none"] /\ entry = {}
  /\ topics = [t \in Tests |-> {}] /\ broker = [t \in Tests |-> {}]
  /\ derived = [t \in Tests |-> {}]
  /\ hooks = {} /\ resolved = {} /\ rejected = {} /\ claim = [h \in Hooks |-> 0]
  /\ msgs = 0 /\ errs = {}

Goto(t, l) == pc' = [pc EXCEPT ![t] = l]

-----------------------------------------------------------------------------
(* ensureTestCaseEntry and addTopics                                       *)

\* fault: an entry is materialized for every call
AddTopicsAfresh(t, T) ==
  /\ ~isStopping
  /\ call' = [call EXCEPT ![t] = "create"] /\ wanted' = [wanted EXCEPT ![t] = T]
  /\ ast' = [ast EXCEPT ![t] = "creating"]
  /\ UNCHANGED <<entry, topics, broker>>

\* an entry is reused even while stopping; a new one is refused then.  The
\* call goes to Phase 1.5 or to the subscribe step that asked for it.
AddTopics(t, T) ==
  \/ /\ t \in entry
     /\ call' = [call EXCEPT ![t] = "subscribe"] /\ wanted' = [wanted EXCEPT ![t] = T]
     /\ topics' = [topics EXCEPT ![t] = @ \cup T]
     /\ UNCHANGED <<ast, entry, broker>>
  \/ /\ t \notin entry /\ ~isStopping
     /\ call' = [call EXCEPT ![t] = "create"] /\ wanted' = [wanted EXCEPT ![t] = T]
     /\ ast' = [ast EXCEPT ![t] = "creating"]
     /\ UNCHANGED <<entry, topics, broker>>

AddRefused(t) == t \notin entry /\ isStopping

\* the call returned to the steps of t, unless those were aborted meanwhile
Awaited(t) == pc[t] \in {"phase15", "call"}
Resume(t) ==
  pc' = IF Awaited(t) THEN [pc EXCEPT ![t] = "exec"] ELSE pc
ResumeFailed(t) ==
  pc' = IF Awaited(t) THEN [pc EXCEPT ![t] = "clear"] ELSE pc
NextStep(t) ==
  step' = IF pc[t] = "call" THEN [step EXCEPT ![t] = @ + 1] ELSE step
CallEnds(t) == call' = [call EXCEPT ![t] = "none"] /\ wanted' = [wanted EXCEPT ![t] = {}]

\* createSubscriber resolved: handlers are wired, the entry is set, and
\* addTopics goes on to adapter.subscribe in the same turn
CreateOk(t) ==
  /\ call[t] = "create"
  /\ ast' = [ast EXCEPT ![t] = "open"]
  /\ entry' = entry \cup {t}
  /\ topics' = [topics EXCEPT ![t] = wanted[t]]
  /\ broker' = [broker EXCEPT ![t] = {}]
  /\ call' = [call EXCEPT ![t] = "subscribe"]
  /\ UNCHANGED <<lifeVars, tcVars, wanted, derived, hookVars, msgs, errs>>

\* fault: a creation that failed stays in _materializing
CreateFailsKept(t) ==
  /\ call[t] = "create" /\ Unreliable
  /\ CallEnds(t) /\ ResumeFailed(t)
  /\ UNCHANGED <<lifeVars, step, mqVars, derived, hookVars, msgs, errs>>

CreateFails(t) ==
  /\ call[t] = "create" /\ Unreliable
  /\ ast' = [ast EXCEPT ![t] = "none"]
  /\ CallEnds(t) /\ ResumeFailed(t)
  /\ UNCHANGED <<lifeVars, step, entry, topics, broker, derived, hookVars, msgs, errs>>

SubscribeOk(t) ==
  /\ call[t] = "subscribe" /\ ast[t] = "open"
  /\ broker' = [broker EXCEPT ![t] = @ \cup wanted[t]]
  /\ CallEnds(t) /\ Resume(t) /\ NextStep(t)
  /\ UNCHANGED <<lifeVars, ast, entry, topics, derived, hookVars, msgs, errs>>

\* also the answer of an adapter that is being closed
SubscribeFails(t) ==
  /\ call[t] = "subscribe" /\ (Unreliable \/ ast[t] # "open")
  /\ CallEnds(t) /\ ResumeFailed(t)
  /\ UNCHANGED <<lifeVars, step, mqVars, derived, hookVars, msgs, errs>>

UnsubscribeEnds(t) ==
  /\ call[t] = "unsubscribe"
  /\ \/ broker' = [broker EXCEPT ![t] = @ \ wanted[t]] /\ Resume(t) /\ NextStep(t)
     \/ (Unreliable \/ ast[t] # "open") /\ ResumeFailed(t) /\ UNCHANGED <<broker, step>>
  /\ CallEnds(t)
  /\ UNCHANGED <<lifeVars, ast, entry, topics, derived, hookVars, msgs, errs>>

-----------------------------------------------------------------------------
(* Phase 1 and 1.5                                                         *)

HookSteps(t) == {i \in DOMAIN Program[t] : Program[t][i].kind \in {"onMessage", "waitMessage"}}

RegisterHooks(t) ==
  /\ pc[t] = "idle" /\ starts > 0
  /\ hooks' = hooks \cup {<<t, i>> : i \in HookSteps(t)}
  /\ derived' = [derived EXCEPT ![t] = @ \cup UNION {Program[t][i].topics : i \in HookSteps(t)}]
  /\ Goto(t, "ready")
  /\ UNCHANGED <<lifeVars, step, callVars, mqVars, resolved, rejected, claim, msgs, errs>>

AfterHooksRegistered(t) ==
  /\ pc[t] = "ready"
  /\ \/ /\ AutoSubscribe /\ derived[t] # {}
        /\ AddTopics(t, derived[t]) /\ Goto(t, "phase15")
     \/ /\ AutoSubscribe /\ derived[t] # {} /\ AddRefused(t)
        /\ Goto(t, "clear") /\ UNCHANGED <<callVars, mqVars>>
     \/ /\ ~AutoSubscribe \/ derived[t] = {}
        /\ Goto(t, "exec") /\ UNCHANGED <<callVars, mqVars>>
  /\ UNCHANGED <<lifeVars, step, derived, hookVars, msgs, errs>>

\* another component of t rejects afterHooksRegistered: Promise.all does not
\* wait for this one's call
OtherComponentFails(t) ==
  /\ pc[t] = "phase15" /\ t \in Aborts
  /\ Goto(t, "clear")
  /\ UNCHANGED <<lifeVars, step, callVars, mqVars, derived, hookVars, msgs, errs>>

-----------------------------------------------------------------------------
(* Phase 2: executeStep                                                    *)

Cur(t)      == Program[t][step[t]]
HasStep(t)  == pc[t] = "exec" /\ step[t] <= Len(Program[t])
At(t, kind) == HasStep(t) /\ Cur(t).kind = kind

\* fault: the index moves the wrong way
SkipBack(t) == step' = [step EXCEPT ![t] = @ - 1]

Skip(t)     == step' = [step EXCEPT ![t] = @ + 1]

ExecuteOnMessage(t) ==
  /\ At(t, "onMessage") /\ Skip(t)
  /\ UNCHANGED <<lifeVars, pc, callVars, mqVars, derived, hookVars, msgs, errs>>

\* no topic given: every hook-derived topic of this test case
ExecuteSubscribe(t) ==
  /\ At(t, "subscribe")
  /\ LET T == IF Cur(t).topics = {} THEN derived[t] ELSE Cur(t).topics IN
       \/ T = {} /\ Skip(t) /\ UNCHANGED <<pc, callVars, mqVars>>
       \/ T # {} /\ AddTopics(t, T) /\ Goto(t, "call") /\ UNCHANGED step
       \/ T # {} /\ AddRefused(t) /\ Goto(t, "clear") /\ UNCHANGED <<step, callVars, mqVars>>
  /\ UNCHANGED <<lifeVars, derived, hookVars, msgs, errs>>

\* fault: the topics given up stay among those held
UnsubscribeKept(t) ==
  /\ At(t, "unsubscribe")
  /\ LET T == IF t \notin entry THEN {}
              ELSE IF Cur(t).topics = {} THEN topics[t] ELSE Cur(t).topics \cap topics[t] IN
       \/ T = {} /\ Skip(t) /\ UNCHANGED <<pc, callVars>>
       \/ /\ T # {}
          /\ call' = [call EXCEPT ![t] = "unsubscribe"] /\ wanted' = [wanted EXCEPT ![t] = T]
          /\ Goto(t, "call") /\ UNCHANGED step
  /\ UNCHANGED <<lifeVars, mqVars, derived, hookVars, msgs, errs>>

\* no topic given: every topic held; only held topics reach the adapter
ExecuteUnsubscribe(t) ==
  /\ At(t, "unsubscribe")
  /\ LET T == IF t \notin entry THEN {}
              ELSE IF Cur(t).topics = {} THEN topics[t] ELSE Cur(t).topics \cap topics[t] IN
       \/ T = {} /\ Skip(t) /\ UNCHANGED <<pc, callVars, topics>>
       \/ /\ T # {}
          /\ topics' = [topics EXCEPT ![t] = @ \ T]
          /\ call' = [call EXCEPT ![t] = "unsubscribe"] /\ wanted' = [wanted EXCEPT ![t] = T]
          /\ Goto(t, "call") /\ UNCHANGED step
  /\ UNCHANGED <<lifeVars, ast, entry, broker, derived, hookVars, msgs, errs>>

\* executeWaitMessage: the hook may be gone already, rejected or dropped
ExecuteWaitMessage(t) ==
  /\ At(t, "waitMessage")
  /\ Goto(t, IF <<t, step[t]>> \in hooks THEN "wait" ELSE "clear")
  /\ UNCHANGED <<lifeVars, step, callVars, mqVars, derived, hookVars, msgs, errs>>

WaitEnds(t) ==
  /\ pc[t] = "wait" /\ <<t, step[t]>> \in resolved
  /\ \/ Goto(t, "exec") /\ Skip(t)
     \/ Unreliable /\ Goto(t, "clear") /\ UNCHANGED step     \* a handler throws
  /\ hooks' = hooks \ {<<t, step[t]>>}
  /\ UNCHANGED <<lifeVars, callVars, mqVars, derived, resolved, rejected, claim, msgs, errs>>

WaitRejected(t) ==
  /\ pc[t] = "wait" /\ <<t, step[t]>> \in rejected
  /\ Goto(t, "clear")
  /\ hooks' = hooks \ {<<t, step[t]>>}
  /\ UNCHANGED <<lifeVars, step, callVars, mqVars, derived, resolved, rejected, claim, msgs, errs>>

\* fault: a wait has a timeout only while the component stops
WaitForever(t) ==
  /\ pc[t] = "wait" /\ <<t, step[t]>> \notin resolved \cup rejected /\ cst = "stopping"
  /\ Goto(t, "clear")
  /\ hooks' = hooks \ {<<t, step[t]>>}
  /\ UNCHANGED <<lifeVars, step, callVars, mqVars, derived, resolved, rejected, claim, msgs, errs>>

WaitTimeout(t) ==
  /\ pc[t] = "wait" /\ <<t, step[t]>> \notin resolved \cup rejected
  /\ Goto(t, "clear")
  /\ hooks' = hooks \ {<<t, step[t]>>}
  /\ UNCHANGED <<lifeVars, step, callVars, mqVars, derived, resolved, rejected, claim, msgs, errs>>

StepsDone(t) ==
  /\ pc[t] = "exec" /\ step[t] > Len(Program[t])
  /\ Goto(t, "clear")
  /\ UNCHANGED <<lifeVars, step, callVars, mqVars, derived, hookVars, msgs, errs>>

-----------------------------------------------------------------------------
(* Callbacks of the adapter                                                *)

Candidates(t, m) == {h \in HooksOf(t) : h \notin resolved /\ m \in StepOf(h).topics}

\* fault: the hooks are searched from the last one registered
IsLast(h, H) == \A g \in H : h[2] >= g[2]

IsFirst(h, H) == \A g \in H : h[2] <= g[2]

\* handleMessage: validation may refuse the message; otherwise the first
\* matching unresolved hook of this test case takes it
HandleMessage(t, m) ==
  /\ ast[t] \in {"open", "closing"} /\ m \in broker[t] /\ msgs < MaxMsgs
  /\ msgs' = msgs + 1
  /\ \/ Unreliable /\ errs' = errs \cup {t} /\ UNCHANGED <<resolved, claim>>
     \/ \E h \in Candidates(t, m) :
          /\ IsFirst(h, Candidates(t, m))
          /\ \/ /\ IsWait(h) /\ resolved' = resolved \cup {h}
                /\ claim' = [claim EXCEPT ![h] = msgs + 1]
                /\ UNCHANGED errs
             \/ /\ ~IsWait(h)                     \* its handlers may throw
                /\ errs' \in {errs} \cup (IF Unreliable THEN {errs \cup {t}} ELSE {})
                /\ UNCHANGED <<resolved, claim>>
     \/ Candidates(t, m) = {} /\ UNCHANGED <<resolved, claim, errs>>
  /\ UNCHANGED <<lifeVars, tcVars, callVars, mqVars, derived, hooks, rejected>>

HandleAdapterError(t) ==
  /\ Unreliable /\ ast[t] \in {"open", "closing"}
  /\ errs' = errs \cup {t}
  /\ UNCHANGED <<lifeVars, tcVars, callVars, mqVars, derived, hookVars, msgs>>

Unsettled(H) == {h \in H : IsWait(h) /\ h \notin resolved}

\* rejectHook also removes the hook
RejectAll(H) == hooks' = hooks \ H /\ rejected' = rejected \cup H

HandleAdapterDisconnect(t) ==
  /\ Unreliable /\ ast[t] \in {"open", "closing"}
  /\ RejectAll(Unsettled(HooksOf(t)))
  /\ UNCHANGED <<lifeVars, tcVars, callVars, mqVars, derived, resolved, claim, msgs, errs>>

-----------------------------------------------------------------------------
(* clearHooks(testCaseId), called by executeSteps and by executeTestCase   *)

\* fault: clearHooks forgets the entry without closing its adapter
ClearHooksOpen(t) ==
  /\ pc[t] \in {"clear", "cleared"}
  /\ hooks' = hooks \ HooksOf(t)
  /\ derived' = [derived EXCEPT ![t] = {}]
  /\ entry' = entry \ {t}
  /\ Goto(t, IF pc[t] = "clear" THEN "cleared" ELSE "done")
  /\ UNCHANGED <<lifeVars, step, callVars, ast, topics, broker, resolved, rejected, claim, msgs, errs>>

ClearHooks(t) ==
  /\ pc[t] \in {"clear", "cleared"}
  /\ hooks' = hooks \ HooksOf(t)
  /\ derived' = [derived EXCEPT ![t] = {}]
  /\ \/ /\ t \in entry
        /\ entry' = entry \ {t}
        /\ ast' = [ast EXCEPT ![t] = "closing"]
        /\ Goto(t, IF pc[t] = "clear" THEN "closing" ELSE "closing2")
     \/ /\ t \notin entry
        /\ Goto(t, IF pc[t] = "clear" THEN "cleared" ELSE "done")
        /\ UNCHANGED <<entry, ast>>
  /\ UNCHANGED <<lifeVars, step, callVars, topics, broker, resolved, rejected, claim, msgs, errs>>

\* adapter.close() settled, for clearHooks, for doStop or for both
CloseEnds(t) ==
  /\ ast[t] = "closing"
  /\ ast' = [ast EXCEPT ![t] = "closed"]
  /\ broker' = [broker EXCEPT ![t] = {}]
  /\ errs' \in {errs} \cup (IF Unreliable THEN {errs \cup {t}} ELSE {})
  /\ UNCHANGED <<lifeVars, tcVars, callVars, entry, topics, derived, hookVars, msgs>>

ClearSettled(t) ==
  /\ pc[t] \in {"closing", "closing2"} /\ ast[t] # "closing"
  /\ Goto(t, IF pc[t] = "closing" THEN "cleared" ELSE "done")
  /\ UNCHANGED <<lifeVars, step, callVars, mqVars, derived, hookVars, msgs, errs>>

-----------------------------------------------------------------------------
(* start() and stop()                                                      *)

Start ==
  /\ cst \in {"created", "stopped"} /\ starts < MaxStarts
  /\ \A t \in Tests : pc[t] \in {"idle", "done"} /\ call[t] = "none"
  /\ cst' = "started" /\ starts' = starts + 1
  /\ pc' = [t \in Tests |-> "idle"] /\ step' = [t \in Tests |-> 1]
  /\ resolved' = {} /\ rejected' = {} /\ claim' = [h \in Hooks |-> 0]
  /\ UNCHANGED <<stopAt, closes, isStopping, callVars, mqVars, derived, hooks, msgs, errs>>

\* fault: doStop drains without refusing new adapters
DoStopUnflagged ==
  /\ cst = "started"
  /\ cst' = "stopping" /\ stopAt' = "draining"
  /\ UNCHANGED <<isStopping, closes, starts, tcVars, callVars, mqVars, derived, hookVars, msgs, errs>>

\* the drain awaits exactly the creations in flight: later ones are refused
DoStop ==
  /\ cst = "started"
  /\ cst' = "stopping" /\ isStopping' = TRUE /\ stopAt' = "draining"
  /\ UNCHANGED <<closes, starts, tcVars, callVars, mqVars, derived, hookVars, msgs, errs>>

\* fault: doStop does not wait for the creations in flight
StopUndrained ==
  /\ stopAt = "draining"
  /\ RejectAll(Unsettled(hooks))
  /\ ast' = [t \in Tests |-> IF t \in entry THEN "closing" ELSE ast[t]]
  /\ stopAt' = "closing" /\ closes' = entry
  /\ UNCHANGED <<cst, isStopping, starts, tcVars, callVars, entry, topics, broker, derived,
                 resolved, claim, msgs, errs>>

\* fault: doStop does not reject the pending waits
StopSilent ==
  /\ stopAt = "draining" /\ \A t \in Tests : ast[t] # "creating"
  /\ ast' = [t \in Tests |-> IF t \in entry THEN "closing" ELSE ast[t]]
  /\ stopAt' = "closing" /\ closes' = entry
  /\ UNCHANGED <<cst, isStopping, starts, tcVars, callVars, entry, topics, broker, derived,
                 hookVars, msgs, errs>>

StopDrained ==
  /\ stopAt = "draining" /\ \A t \in Tests : ast[t] # "creating"
  /\ RejectAll(Unsettled(hooks))
  /\ ast' = [t \in Tests |-> IF t \in entry THEN "closing" ELSE ast[t]]
  /\ stopAt' = "closing" /\ closes' = entry
  /\ UNCHANGED <<cst, isStopping, starts, tcVars, callVars, entry, topics, broker, derived,
                 resolved, claim, msgs, errs>>

StopClosed ==
  /\ stopAt = "closing" /\ \A t \in closes : ast[t] # "closing"
  /\ entry' = {} /\ hooks' = {} /\ derived' = [t \in Tests |-> {}]
  /\ cst' = "stopped" /\ stopAt' = "none" /\ closes' = {}
  /\ UNCHANGED <<isStopping, starts, tcVars, callVars, ast, topics, broker, resolved, rejected,
                 claim, msgs, errs>>

-----------------------------------------------------------------------------

CallStep(t) ==
  \/ CreateOk(t) \/ CreateFails(t) \/ SubscribeOk(t) \/ SubscribeFails(t)
  \/ UnsubscribeEnds(t) \/ CloseEnds(t)

TestStep(t) ==
  \/ RegisterHooks(t) \/ AfterHooksRegistered(t) \/ OtherComponentFails(t)
  \/ ExecuteOnMessage(t) \/ ExecuteSubscribe(t) \/ ExecuteUnsubscribe(t)
  \/ ExecuteWaitMessage(t) \/ WaitEnds(t) \/ WaitRejected(t) \/ WaitTimeout(t)
  \/ StepsDone(t) \/ ClearHooks(t) \/ ClearSettled(t)

AdapterEvent(t) ==
  \/ \E m \in Topics : HandleMessage(t, m)
  \/ HandleAdapterError(t) \/ HandleAdapterDisconnect(t)

StopStep == StopDrained \/ StopClosed

Next ==
  \/ Start \/ DoStop \/ StopStep
  \/ \E t \in Tests : CallStep(t) \/ TestStep(t) \/ AdapterEvent(t)

Spec == Init /\ [][Next]_vars

\* adapter calls end, ready continuations and timers run
FairSpec ==
  /\ Spec /\ WF_vars(StopStep)
  /\ \A t \in Tests : WF_vars(CallStep(t)) /\ WF_vars(TestStep(t))

-----------------------------------------------------------------------------
(* Properties                                                              *)

\* Once doStop is over nothing is left of any test case: no adapter is being
\* created or open, even when a creation was in flight or a test case was
\* executing when stop() came (the drain and the refusal by _isStopping).
StoppedClean ==
  cst = "stopped" => entry = {} /\ \A t \in Tests : ast[t] \notin {"creating", "open"}

\* What makes it so, at every step: an open adapter has an entry and an entry
\* an adapter that exists; a creation is a call in flight; an adapter without
\* entry that is closing is awaited by its test case; and while doStop waits
\* for the adapters to close, none is open or being created.
StopInv ==
  /\ \A t \in Tests :
       /\ ast[t] = "open" => t \in entry
       /\ t \in entry => ast[t] \in {"open", "closing", "closed"}
       /\ ast[t] = "creating" <=> call[t] = "create"
       /\ ast[t] = "closing" => t \in entry \/ pc[t] \in {"closing", "closing2"}
  /\ stopAt # "none" <=> cst = "stopping"
  /\ cst \in {"stopping", "stopped"} => isStopping
  /\ stopAt = "closing" \/ cst = "stopped" =>
       \A t \in Tests : ast[t] \notin {"creating", "open"}
  /\ stopAt = "closing" => entry \subseteq closes
  /\ cst = "stopped" => entry = {}

\* A test case never has two adapters: a creation begins only when the last
\* one is gone (ensureTestCaseEntry is idempotent).
OneLiveAdapter ==
  [][\A t \in Tests : ast'[t] = "creating" /\ ast[t] # "creating" => ast[t] \in {"none", "closed"}]_vars

\* When the test case is over its adapter is closed, whatever failed: the
\* entry exists for the cleanup at the end of the test case.
AdapterDiesWithTest ==
  \A t \in Tests : pc[t] = "done" => ast[t] # "open"

\* That holds of every test case but those another component may abort while
\* the adapter is being created.
ClosedAfterTest ==
  \A t \in Tests \ Aborts : pc[t] = "done" => ast[t] # "open"

\* A message satisfies at most one wait, and the waits of a test case for the
\* same topics are satisfied in the order of its steps.
Executing(t) == pc[t] \in {"ready", "phase15", "exec", "call", "wait"}

OrderedClaims ==
  \A g, h \in {k \in Hooks : IsWait(k)} :
    claim[h] # 0 /\ g # h =>
      /\ claim[g] # claim[h]
      /\ g[1] = h[1] /\ g[2] < h[2] /\ StepOf(h).topics \subseteq StepOf(g).topics
           /\ Executing(g[1]) /\ g \notin rejected => claim[g] # 0 /\ claim[g] < claim[h]

\* A test case that waits for a message when the component is down has been
\* told: it does not sit out its timeout ("fails fast" in doStop).
WaitersSettled ==
  cst = "stopped" =>
    \A t \in Tests : pc[t] = "wait" => <<t, step[t]>> \in resolved \cup rejected

\* Between two steps of a test case, the topics the component believes held
\* are those the adapter is subscribed to.
HeldTopicsMatch ==
  \A t \in entry : pc[t] = "exec" /\ ast[t] = "open" => topics[t] = broker[t]

\* A started Subscriber materializes adapters: stop() followed by start()
\* gives a component that works.
StartedWorks == cst = "started" => ~isStopping

\* doStop ends, however many test cases are executing.
StopEnds == (cst = "stopping") ~> (cst = "stopped")

\* A test case that registered its hooks gets to its end, also when its
\* subscriber is stopped under it.
TestsEnd == \A t \in Tests : (pc[t] = "ready") ~> (pc[t] = "done")

\* Neither waits for the other: test cases that are stopped under an adapter
\* call end, and so does the stop that waits for their adapters.
StopAndTestsEnd == StopEnds /\ TestsEnd
=============================================================================
