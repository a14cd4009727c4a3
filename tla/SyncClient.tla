----------------------------- MODULE SyncClient -----------------------------
(***************************************************************************)
(* The Client component: request steps, which fire a request and go on or  *)
(* poll it with retry, and the steps that wait for responses.              *)
(*                                                                         *)
(* A request is named by its step.  Its response goes to every hook of its *)
(* operation that was registered when it was sent, whatever the test case. *)
(***************************************************************************)
EXTENDS ComponentHooks

CONSTANTS
  Operations,
  MaxTook       \* bound on the time an attempt takes

VARIABLES
  flying,    \* requests without a response, with the hooks that await it
  answered,  \* which request's response a hook was resolved with, as pairs
  served,    \* the hooks of the requests that are over
  matched,   \* per polling test case, the hooks its request is for
  left,      \* per polling test case, `remaining` of runWithRetry
  sleeping,  \* whether a polling test case sleeps
  spent      \* how long its attempts and sleeps took

flightVars == <<flying, answered, served>>
retryVars  == <<matched, left, sleeping, spent>>
vars       == <<baseVars, flightVars, retryVars>>

(* the steps of SyncClientStepBuilder; normalizeRetryPolicy makes a policy *)
noRetry == [timeout |-> 0, interval |-> 0, retryOnError |-> FALSE]

request(op, policy) ==
  [type |-> "request", mode |-> "action", pending |-> FALSE, strict |-> FALSE, op |-> op, retry |-> policy]
onResponse(op) ==
  [type |-> "onResponse", mode |-> "hook", pending |-> TRUE, strict |-> FALSE, op |-> op, retry |-> noRetry]
waitResponse(op) ==
  [type |-> "waitResponse", mode |-> "wait", pending |-> TRUE, strict |-> TRUE, op |-> op, retry |-> noRetry]

TypeOK ==
  /\ BaseTypeOK
  /\ \A f \in flying : f.hooks \subseteq UNION {{t} \X DOMAIN program[t] : t \in Tests}
  /\ left \in [Tests -> Int] /\ spent \in [Tests -> Nat]
  /\ sleeping \in [Tests -> BOOLEAN]

Init ==
  /\ BaseInit
  /\ flying = {}
  /\ answered = {}
  /\ served = {}
  /\ matched = [t \in Tests |-> {}]
  /\ left = [t \in Tests |-> 0]
  /\ sleeping = [t \in Tests |-> FALSE]
  /\ spent = [t \in Tests |-> 0]

doStart ==
  /\ cst = "created"
  /\ cst' = "started"
  /\ UNCHANGED <<program, hookVars, testVars, flightVars, retryVars>>

findAllMatchingHooks(op) == {h \in WaitHooks : StepOf(h).op = op}

-----------------------------------------------------------------------------
(* A request without retry                                                 *)

executeRequest(t) ==
  /\ Executes(t, "request") /\ Step(t).retry = noRetry
  /\ \/ /\ flying' = flying \cup {[req |-> Hook(t), hooks |-> findAllMatchingHooks(Step(t).op)]}
        /\ StepPasses(t)
     \/ Failing /\ StepFails(t) /\ UNCHANGED flying     \* the request does not validate
  /\ UNCHANGED <<cst, program, hookVars, answered, served, retryVars>>

Responds(f) ==
  /\ flying' = flying \ {f}
  /\ resolveHooks(f.hooks)
  /\ answered' = answered \cup {<<h, f.req>> : h \in {g \in f.hooks : ~Settled(g)}}
  /\ served' = served \cup f.hooks
  /\ UNCHANGED <<cst, program, hooks, rejected, testVars, retryVars>>

\* a failed request rejects its hooks
RequestFails(f) ==
  /\ Failing
  /\ flying' = flying \ {f}
  /\ rejectHooks(f.hooks)
  /\ served' = served \cup f.hooks
  /\ UNCHANGED <<cst, program, resolved, testVars, answered, retryVars>>

-----------------------------------------------------------------------------
(* A request with retry: runWithRetry                                      *)

Policy(t) == Step(t).retry

pollRequest(t) ==
  /\ Executes(t, "request") /\ Step(t).retry # noRetry
  /\ matched' = [matched EXCEPT ![t] = findAllMatchingHooks(Step(t).op)]
  /\ left' = [left EXCEPT ![t] = Policy(t).timeout]
  /\ spent' = [spent EXCEPT ![t] = 0]
  /\ StepGoesTo(t, "busy")
  /\ UNCHANGED <<cst, program, hookVars, flightVars, sleeping>>

Attempting(t) == pc[t] = "busy" /\ ~sleeping[t]

\* the predicate is content with the response
PollEnds(t) ==
  /\ Attempting(t)
  /\ resolveHooks(matched[t])
  /\ answered' = answered \cup {<<h, Hook(t)>> : h \in {g \in matched[t] : ~Settled(g)}}
  /\ served' = served \cup matched[t]
  /\ StepPasses(t)
  /\ UNCHANGED <<cst, program, hooks, rejected, flying, retryVars>>

\* the hooks of all test cases are rejected with the one that gives up
GiveUp(t) ==
  /\ rejectHooks(matched[t])
  /\ served' = served \cup matched[t]
  /\ StepFails(t)
  /\ UNCHANGED resolved

\* the predicate throws, or an attempt fails that may not
PollAborts(t) ==
  /\ Attempting(t) /\ Failing
  /\ GiveUp(t)
  /\ UNCHANGED <<cst, program, flying, answered, retryVars>>

\* fault: the sleep is not cut to what is left
DelayUncut(t) == Policy(t).interval

Delay(t) == IF Policy(t).interval < left[t] THEN Policy(t).interval ELSE left[t]

\* fault: every attempt has the whole timeout
AttemptAfresh(t, took) ==
  /\ Attempting(t)
  /\ spent' = [spent EXCEPT ![t] = took]
  /\ left' = [left EXCEPT ![t] = Policy(t).timeout - took]
  /\ sleeping' = [sleeping EXCEPT ![t] = Policy(t).interval > 0]
  /\ UNCHANGED <<cst, program, hookVars, testVars, flightVars, matched>>

\* an attempt fails or its response asks for another one
AttemptEnds(t, took) ==
  /\ Attempting(t)
  /\ spent' = [spent EXCEPT ![t] = @ + took]
  /\ left' = [left EXCEPT ![t] = @ - took]
  /\ IF left[t] - took <= 0
       THEN GiveUp(t) /\ UNCHANGED sleeping
       ELSE /\ sleeping' = [sleeping EXCEPT ![t] = Policy(t).interval > 0]
            /\ UNCHANGED <<hookVars, testVars, served>>
  /\ UNCHANGED <<cst, program, flying, answered, matched>>

SleepEnds(t) ==
  /\ pc[t] = "busy" /\ sleeping[t]
  /\ sleeping' = [sleeping EXCEPT ![t] = FALSE]
  /\ spent' = [spent EXCEPT ![t] = @ + Delay(t)]
  /\ left' = [left EXCEPT ![t] = @ - Delay(t)]
  /\ IF left[t] - Delay(t) <= 0
       THEN GiveUp(t)
       ELSE UNCHANGED <<hookVars, testVars, served>>
  /\ UNCHANGED <<cst, program, flying, answered, matched>>

-----------------------------------------------------------------------------

\* requests under way are not aborted
doStop ==
  /\ cst = "started" /\ Quiet
  /\ cst' = "stopped"
  /\ hooks' = <<>>
  /\ UNCHANGED <<program, resolved, rejected, testVars, flightVars, retryVars>>

Base(A) == A /\ UNCHANGED <<flightVars, retryVars>>

executeResponseStep(t) == (Executes(t, "onResponse") \/ Executes(t, "waitResponse")) /\ WaitBegins(t)

Next ==
  \/ doStart \/ doStop
  \/ \E f \in flying : Responds(f) \/ RequestFails(f)
  \/ \E t \in Tests :
       \/ Base(TestStep(t)) \/ Base(executeResponseStep(t)) \/ executeRequest(t) \/ pollRequest(t)
       \/ PollEnds(t) \/ PollAborts(t) \/ SleepEnds(t)
       \/ \E took \in 0..MaxTook : AttemptEnds(t, took)

\* a test case executes on; every attempt ends, and takes a while when no sleep follows
Progress(t) ==
  \/ Base(GoesOn(t)) \/ Base(executeResponseStep(t))
  \/ executeRequest(t) \/ pollRequest(t) \/ SleepEnds(t)
  \/ PollEnds(t) \/ PollAborts(t)
  \/ \E took \in 0..MaxTook : AttemptEnds(t, took) /\ (took > 0 \/ Policy(t).interval > 0)

-----------------------------------------------------------------------------
(* Properties                                                              *)

\* A poll never sleeps beyond its timeout: at the end of a sleep it has spent
\* no more than that, and what is left and what was spent add up.
RetryInBudget ==
  \A t \in Tests : pc[t] = "busy" =>
    /\ left[t] + spent[t] = Policy(t).timeout
    /\ sleeping[t] => spent[t] + Delay(t) <= Policy(t).timeout

\* A wait that a request was for is not left to its timeout when that
\* request is over.
ServedWaitsEnd == \A t \in Tests : pc[t] = "waiting" /\ Hook(t) \in served => Settled(Hook(t))

\* A response step gets the response of the last request of its operation
\* before it in its test case.
OwnRequest(h) ==
  LET R == {i \in 1..(h[2] - 1) : program[h[1]][i].type = "request"
                                  /\ program[h[1]][i].op = StepOf(h).op}
  IN  {<<h[1], i>> : i \in {j \in R : \A k \in R : k <= j}}

OwnResponse == \A x \in answered : OwnRequest(x[1]) \subseteq {x[2]}
=============================================================================
