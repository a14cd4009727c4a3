------------------------------ MODULE Reporting ------------------------------
(***************************************************************************)
(* What the reporters make of a run: the callbacks TestScenario and        *)
(* TestCase give to the list of reporters while test cases execute one     *)
(* after the other or in parallel, and the files AllureReporter writes     *)
(* from them.  Another reporter, before or after AllureReporter in the     *)
(* list, may throw from a callback.  The life of the components is in      *)
(* Scenario.tla: here a step passes or fails.                              *)
(***************************************************************************)
EXTENDS Integers, Sequences, FiniteSets, SequencesExt

CONSTANTS
  Tests,
  Plans,      \* what run() may be given: sets of groups, a group is a sequence of test cases
  NSteps,     \* the steps of a test case
  Keys,       \* the metadata keys extractPayload knows that components stamp
  ThrowsIn,   \* the callbacks from which the other reporter may throw
  MaxRuns     \* bound on the calls of run()

ASSUME ReportingAssumption == NSteps \in Nat /\ IsFiniteSet(Keys)

VARIABLES
  phase,      \* of run(): "idle", "running", "stopping"
  runs,
  groups,     \* the plan of this run
  ahead,      \* TRUE when the other reporter is before AllureReporter
  pc,         \* where each test case is
  metadata,   \* the keys stamped on each step so far
  results,    \* what executeSteps returned, or has so far, for each test case
  verdict,    \* the error of the finalResult of each test case, "none" if it passed
  returned,   \* the test cases run() has the results of
  allure,     \* the state of AllureReporter
  files       \* what FileSystemWriter wrote; a name, fresh each time, is an index

vars == <<phase, runs, groups, ahead, pc, metadata, results, verdict, returned, allure, files>>
runVars == <<phase, runs, groups, ahead, returned>>

Steps  == 1..NSteps
Errors == {"assertion", "other"}

Fresh == [uuids |-> <<>>, currentSteps |-> <<>>]
NoStamp == [i \in Steps |-> {}]

Init ==
  /\ phase = "idle" /\ runs = 0 /\ groups = {} /\ ahead \in BOOLEAN
  /\ pc = [t \in Tests |-> "idle"]
  /\ metadata = [t \in Tests |-> NoStamp]
  /\ results = [t \in Tests |-> <<>>]
  /\ verdict = [t \in Tests |-> "none"]
  /\ returned = {}
  /\ allure = Fresh
  /\ files = <<>>

-----------------------------------------------------------------------------
(* AllureReporter and its converter                                        *)

\* "failed" when the message speaks of an assertion, else "broken"
convertStatus(error) == [none |-> "passed", assertion |-> "failed", other |-> "broken"][error]

writeAttachment(t, k) == [file |-> "attachment", test |-> t, key |-> k]

\* each key of the payload is written to an attachment as the step is converted
extractPayload(r) == SetToSeq(r.payload)
convertStep(t, r, written) ==
  [step    |-> [status |-> convertStatus(r.error),
                sources |-> (Len(written) + 1)..(Len(written) + Len(extractPayload(r)))],
   written |-> written \o [i \in DOMAIN extractPayload(r) |-> writeAttachment(t, extractPayload(r)[i])]]

\* steps one after the other
convertSteps(t, rs, acc) ==
  LET made[i \in 0..Len(rs)] ==
        IF i = 0 THEN acc
        ELSE LET last == made[i - 1]
                 one  == convertStep(t, rs[i], last.written)
             IN  [steps |-> Append(last.steps, one.step), written |-> one.written]
  IN  made[Len(rs)]

testResult(t, steps) ==
  [file |-> "result", test |-> t, run |-> runs, status |-> convertStatus(verdict[t]), steps |-> steps]

convertTestCaseAccumulated(t, written) == Append(written, testResult(t, allure.currentSteps))

\* all the steps are converted again, whatever onStepComplete accumulated
convertTestCase(t, written) ==
  LET all == convertSteps(t, results[t], [steps |-> <<>>, written |-> written])
  IN  Append(all.written, testResult(t, all.steps))

convertToContainer == [file |-> "container", run |-> runs, children |-> allure.uuids]

\* the reporters are called in order; who throws ends the loop
Hears(ok)     == ok \/ ~ahead
May(callback) == IF callback \in ThrowsIn THEN BOOLEAN ELSE {TRUE}

AllureOnStartKept(ok)     == allure' = IF Hears(ok) THEN [allure EXCEPT !.currentSteps = <<>>] ELSE allure
AllureOnStart(ok)         == allure' = IF Hears(ok) THEN Fresh ELSE allure
AllureOnTestCaseStart(ok) == allure' = IF Hears(ok) THEN [allure EXCEPT !.currentSteps = <<>>] ELSE allure

\* the steps as the callbacks came
AllureOnStepComplete(t, rs) ==
  LET acc == convertSteps(t, rs, [steps |-> allure.currentSteps, written |-> files])
  IN  allure' = [allure EXCEPT !.currentSteps = acc.steps] /\ files' = acc.written

AllureOnTestCaseComplete(t, ok) ==
  LET written == convertTestCase(t, files)
  IN  IF Hears(ok)
        THEN files' = written /\ allure' = [allure EXCEPT !.uuids = Append(@, Len(written))]
        ELSE UNCHANGED <<files, allure>>

AllureOnComplete(ok) ==
  files' = IF Hears(ok) THEN Append(files, convertToContainer) ELSE files

-----------------------------------------------------------------------------
(* TestScenario.run                                                        *)

InGroup(t)    == \E g \in groups : t \in ToSet(g)
Over(t)       == pc[t] \in {"idle", "over", "thrown"}
IsNext(t)     == \E g \in groups : \E i \in DOMAIN g : g[i] = t /\ \A j \in 1..(i - 1) : pc[g[j]] = "over"
Rejected      == \E t \in Tests : pc[t] = "thrown"

\* a reporter that throws from onStart makes run() reject
Start ==
  /\ phase = "idle" /\ runs < MaxRuns /\ \A t \in Tests : Over(t)
  /\ runs' = runs + 1 /\ groups' \in Plans /\ returned' = {}
  /\ pc' = [t \in Tests |-> "idle"]
  /\ metadata' = [t \in Tests |-> NoStamp]
  /\ results' = [t \in Tests |-> <<>>]
  /\ verdict' = [t \in Tests |-> "none"]
  /\ \E ok \in May("onStart") :
       /\ AllureOnStart(ok)
       /\ phase' = IF ok THEN "running" ELSE "idle"
  /\ UNCHANGED <<ahead, files>>

\* runInit rejects: nothing runs
InitFails ==
  /\ phase = "running" /\ \A t \in Tests : pc[t] = "idle"
  /\ phase' = "stopping" /\ groups' = {}
  /\ UNCHANGED <<runs, ahead, returned, pc, metadata, results, verdict, allure, files>>

\* Promise.all of the groups: all have ended, or one has rejected, and then
\* run() has no results and the other groups go on
GroupsEnd ==
  /\ phase = "running"
  /\ phase' = "stopping"
  /\ \/ Rejected /\ UNCHANGED returned
     \/ /\ \A t \in Tests : InGroup(t) => pc[t] = "over"
        /\ returned' = {t \in Tests : InGroup(t)}
  /\ UNCHANGED <<runs, groups, ahead, pc, metadata, results, verdict, allure, files>>

Complete ==
  /\ phase = "stopping"
  /\ \E ok \in May("onComplete") : AllureOnComplete(ok)
  /\ phase' = "idle"
  /\ UNCHANGED <<runs, groups, ahead, returned, pc, metadata, results, verdict, allure>>

-----------------------------------------------------------------------------
(* executeTestCase, TestCase.execute and executeSteps                      *)

Goes(t, where) == pc' = [pc EXCEPT ![t] = where]

\* after a rejection the next test cases of the other groups start all the same
ExecuteTestCase(t) ==
  /\ pc[t] = "idle" /\ IsNext(t)
  /\ phase = "running" \/ Rejected
  /\ \E ok \in May("onTestCaseStart") :
       /\ AllureOnTestCaseStart(ok)
       /\ Goes(t, IF ok THEN "building" ELSE "thrown")
  /\ UNCHANGED <<runVars, metadata, results, verdict, files>>

\* the bodies of before, the test and after make the steps, then Phase 1
Build(t) ==
  /\ pc[t] = "building"
  /\ \/ Goes(t, "steps") /\ UNCHANGED verdict
     \/ Goes(t, "ending") /\ verdict' = [verdict EXCEPT ![t] = "other"]
  /\ UNCHANGED <<runVars, metadata, results, allure, files>>

\* stampMetadata: a component stamps a step when it executes, or when a message
\* comes to its hook
stampMetadata(t, i, k) ==
  /\ pc[t] = "steps" /\ k \notin metadata[t][i]
  /\ metadata' = [metadata EXCEPT ![t][i] = @ \cup {k}]
  /\ UNCHANGED <<runVars, pc, results, verdict, allure, files>>

At(t) == Len(results[t]) + 1
\* toStepInfo: the metadata of the step at that moment
toStepInfo(t, error) == [error |-> error, payload |-> metadata[t][At(t)]]

\* a step that passed; the callback is inside of its try, so that a reporter
\* that throws makes the same step fail, and is called again for that
StepPasses(t) ==
  LET passed == toStepInfo(t, "none")  failed == toStepInfo(t, "other")
  IN
  /\ pc[t] = "steps" /\ At(t) <= NSteps
  /\ \/ /\ results' = [results EXCEPT ![t] = Append(@, passed)]
        /\ AllureOnStepComplete(t, <<passed>>)
        /\ Goes(t, IF At(t) = NSteps THEN "ended" ELSE "steps") /\ UNCHANGED verdict
     \/ /\ "onStepComplete" \in ThrowsIn
        /\ AllureOnStepComplete(t, IF ahead THEN <<failed>> ELSE <<passed, failed>>)
        /\ results' = [results EXCEPT ![t] = @ \o <<passed, failed>>]
        /\ Goes(t, "ended") /\ UNCHANGED verdict
     \/ /\ "onStepComplete" \in ThrowsIn
        /\ AllureOnStepComplete(t, IF ahead THEN <<>> ELSE <<passed, failed>>)
        /\ results' = [results EXCEPT ![t] = <<>>]
        /\ Goes(t, "ending") /\ verdict' = [verdict EXCEPT ![t] = "other"]
  /\ UNCHANGED <<runVars, metadata>>

\* failFast; a callback that throws here makes executeSteps reject
StepFails(t) ==
  /\ pc[t] = "steps" /\ At(t) <= NSteps
  /\ \E e \in Errors, ok \in May("onStepComplete") :
       /\ AllureOnStepComplete(t, IF Hears(ok) THEN <<toStepInfo(t, e)>> ELSE <<>>)
       /\ results' = [results EXCEPT ![t] = IF ok THEN Append(@, toStepInfo(t, e)) ELSE <<>>]
       /\ Goes(t, IF ok THEN "ended" ELSE "ending")
       /\ verdict' = [verdict EXCEPT ![t] = IF ok THEN @ ELSE "other"]
  /\ UNCHANGED <<runVars, metadata>>

FirstError(rs) == IF \E i \in DOMAIN rs : rs[i].error # "none" THEN SelectSeq(rs, LAMBDA r : r.error # "none")[1].error ELSE "none"

\* the result of the test case, which an unhandled error fails if it passed
Verdict(t) ==
  /\ pc[t] = "ended"
  /\ verdict' = [verdict EXCEPT ![t] = FirstError(results[t])]
  /\ Goes(t, "ending")
  /\ UNCHANGED <<runVars, metadata, results, allure, files>>

UnhandledError(t) ==
  /\ pc[t] = "ended" /\ FirstError(results[t]) = "none"
  /\ \E e \in Errors : verdict' = [verdict EXCEPT ![t] = e]
  /\ Goes(t, "ending")
  /\ UNCHANGED <<runVars, metadata, results, allure, files>>

FinishTestCase(t) ==
  /\ pc[t] = "ending"
  /\ \E ok \in May("onTestCaseComplete") :
       /\ AllureOnTestCaseComplete(t, ok)
       /\ Goes(t, IF ok THEN "over" ELSE "thrown")
  /\ UNCHANGED <<runVars, metadata, results, verdict>>

Next ==
  \/ Start \/ InitFails \/ GroupsEnd \/ Complete
  \/ \E t \in Tests :
       \/ ExecuteTestCase(t) \/ Build(t) \/ StepPasses(t) \/ StepFails(t)
       \/ Verdict(t) \/ UnhandledError(t) \/ FinishTestCase(t)
       \/ \E i \in Steps, k \in Keys : stampMetadata(t, i, k)

Spec == Init /\ [][Next]_vars

-----------------------------------------------------------------------------
(* What is promised of the files                                           *)

IsResult(n)    == files[n].file = "result" /\ files[n].run = runs
IsContainer(n) == files[n].file = "container" /\ files[n].run = runs

\* A result file has the steps of its own test case, as executeSteps returned
\* them, each with the attachments of its own payload.
ResultTrue(n) ==
  LET t == files[n].test
  IN  /\ files[n].status = convertStatus(verdict[t])
      /\ Len(files[n].steps) = Len(results[t])
      /\ \A i \in DOMAIN results[t] :
           LET s == files[n].steps[i]
           IN  /\ s.status = convertStatus(results[t][i].error)
               /\ \A m \in s.sources : m \in DOMAIN files /\ files[m].file = "attachment" /\ files[m].test = t
               /\ {files[m].key : m \in s.sources} = results[t][i].payload

\* The container of a run that has its results lists one result file of each
\* test case, and no other.
ContainerTrue(n) ==
  LET children == files[n].children
  IN  /\ IsInjective(children)
      /\ \A i \in DOMAIN children : children[i] \in DOMAIN files /\ IsResult(children[i])
      /\ returned # {} => {files[children[i]].test : i \in DOMAIN children} = returned

Reported == \A n \in DOMAIN files : (IsResult(n) => ResultTrue(n)) /\ (IsContainer(n) => ContainerTrue(n))

\* Not so: what onStepComplete writes belongs to no result.
AttachmentsNamed ==
  phase = "idle" /\ (\A t \in Tests : Over(t)) =>
    \A m \in DOMAIN files : files[m].file = "attachment" =>
      \E n \in DOMAIN files : files[n].file = "result" /\ \E i \in DOMAIN files[n].steps : m \in files[n].steps[i].sources

\* Not so: a hook step is over before its message comes, and its payload is
\* taken when the step is over.
StampedIsReported ==
  \A t \in Tests : pc[t] = "ending" => \A i \in DOMAIN results[t] : i \in Steps => results[t][i].payload = metadata[t][i]

\* Not so when a reporter throws: a result comes after the container of its run.
ContainerLast == \A n \in DOMAIN files : IsContainer(n) => \A m \in DOMAIN files : IsResult(m) => m < n

\* Not so when a reporter throws from onStepComplete.
OneResultPerStep == \A t \in Tests : Len(results[t]) <= NSteps
=============================================================================
