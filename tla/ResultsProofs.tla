---------------------------- MODULE ResultsProofs ----------------------------
(***************************************************************************)
(* Proofs of the invariants of the handlers of a step, of the routes of an *)
(* HTTP Server and of the DataSource component, for any messages, chains,  *)
(* routes, requests, test cases and runs.                                  *)
(*                                                                         *)
(* Of the handlers, the lemma MessageSteps says what the actions do to a   *)
(* message in five kinds of steps; the type invariant and the invariants   *)
(* of the three properties are then shown for those five.                  *)
(***************************************************************************)
EXTENDS Results, FiniteSets, FiniteSetTheorems, WellFoundedInduction, TLAPS

-----------------------------------------------------------------------------
(* Handlers                                                                *)


ComponentNames    == {"AsyncClient", "AsyncServer", "Client", "Server", "Subscriber", "DataSource"}
Returned == Payloads \cup {"undefined"}
Unfailed == {"idle", "running", "dropped", "answered"}

\* The constant part of a behaviour.
Chosen ==
  /\ component \in ComponentNames
  /\ chain \in Seq(Methods(component))
  /\ component = "Client" => step \in {"onResponse", "waitResponse"}

\* A chain has an error once it failed.
Errors ==
  \A m \in Messages :
    /\ run[m].pc \in Unfailed => run[m].error = "none"
    /\ run[m].pc = "failed" => run[m].error \in {"error", "drop"}

TypeInv == TypeOK /\ Chosen /\ Errors

-----------------------------------------------------------------------------
(* The five kinds of steps                                                 *)

\* m comes: its chain begins, or a schema refuses it.
Comes(m) ==
  /\ run[m].pc = "idle"
  /\ \/ (\E v \in {"sent", "null"} : Becomes(m, Begun(m, v))) /\ tracked' = tracked
     \/ Becomes(m, Over(m, "refused")) /\ tracked' = tracked
     \/ Becomes(m, Over(m, "error")) /\ (tracked' = tracked \cup {m} \/ (Awaited /\ tracked' = tracked))
  /\ UNCHANGED hook \/ (~WaitStep /\ hook' = "resolved")
  /\ UNCHANGED <<fixed, assertions, out>>

Handling(m) == run[m].pc = "running" /\ At(m) \in DOMAIN chain

\* What executeHandlers and executeServerHandlers make of what a handler returns.
Result(m, r) ==
  CASE r = "null"                  -> [Ran(m, r) EXCEPT !.pc = "dropped"]
    [] r = "undefined"             -> Ran(m, r)
    [] r = "response" /\ Server    -> [Ran(m, r) EXCEPT !.pc = "answered", !.value = "changed"]
    [] r = "message" /\ Server     -> [Ran(m, r) EXCEPT !.value = "changed", !.type = "other"]
    [] OTHER                       -> [Ran(m, r) EXCEPT !.value = r]

\* A handler returns r; an assertion returns undefined and is recorded.
HandlerReturns(m, r) ==
  /\ Handling(m)
  /\ Becomes(m, Result(m, r))
  /\ \/ chain[At(m)] = "assert" /\ r = "undefined" /\ recordAssertion(m, TRUE)
     \/ chain[At(m)] # "assert" /\ UNCHANGED assertions
  /\ out' = out \/ out' = out \cup {<<"event", m, "changed">>}
  /\ UNCHANGED <<fixed, hook, tracked>>

Failed(m, e) == [run[m] EXCEPT !.pc = "failed", !.error = e]

HandlerThrows(m) ==
  /\ Handling(m)
  /\ \E e \in {"error", "drop"} : Becomes(m, Failed(m, e))
  /\ UNCHANGED assertions \/ recordAssertion(m, FALSE)
  /\ UNCHANGED <<fixed, hook, out, tracked>>

\* The chain of m ends well, and m may go on.
ChainPasses(m) ==
  /\ Passed(m)
  /\ Becomes(m, Over(m, "none"))
  /\ UNCHANGED hook \/ resolveHook
  /\ \/ UNCHANGED out
     \/ run[m].pc # "dropped" /\ \E what \in {"answer", "forward", "client"} : Sent(what, m)
  /\ UNCHANGED <<fixed, assertions, tracked>>

ChainFails(m) ==
  /\ run[m].pc = "failed"
  /\ Becomes(m, Over(m, run[m].error))
  /\ UNCHANGED hook \/ rejectHook
  /\ \/ Awaited /\ UNCHANGED tracked
     \/ tracked' = IF run[m].error = "drop" THEN tracked ELSE tracked \cup {m}
  /\ UNCHANGED <<fixed, assertions, out>>

MessageStep(m) ==
  \/ Comes(m) \/ (\E r \in Returned : HandlerReturns(m, r)) \/ HandlerThrows(m)
  \/ ChainPasses(m) \/ ChainFails(m)

\* What the three executeHandlers make of a result is Result.
LEMMA ReturnsResult ==
  ASSUME NEW m \in Messages, NEW r \in Returned, Returns(m, r)
  PROVE  Becomes(m, Result(m, r))
BY DEF Returns, Result, Returned, Payloads, executeHandlers, executeServerHandlers,
       executeAsyncServerHandlers, Server, AsyncServer, Becomes

\* A message comes: whatever component it comes to.
LEMMA ArrivesComes ==
  ASSUME TypeInv, NEW m \in Messages, NEW v \in {"sent", "null"}, Arrives(m, v)
  PROVE  Comes(m)
<1>1. CASE ClientMessage(m, v)
  BY <1>1 DEF ClientMessage, Comes, Awaited, WaitStep, resolveHook
<1>2. CASE ServerRequest(m, v)
  BY <1>2 DEF ServerRequest, Comes
<1>3. CASE AsyncServerMessage(m, v)
  BY <1>3 DEF AsyncServerMessage, Comes
<1>4. CASE BackendEvent(m, v)
  BY <1>4 DEF BackendEvent, Comes
<1>5. CASE Response(m, v)
  BY <1>5 DEF Response, Comes, Awaited, WaitStep, resolveHook, TypeInv, Chosen
<1>6. CASE ExecResult(m, v)
  BY <1>6 DEF ExecResult, Comes, Awaited, WaitStep, resolveHook
<1> QED  BY <1>1, <1>2, <1>3, <1>4, <1>5, <1>6 DEF Arrives

\* A handler returns or throws: whichever it is.
LEMMA HandlerSteps ==
  ASSUME TypeInv, NEW m \in Messages, executeHandler(m)
  PROVE  (\E r \in Returned : HandlerReturns(m, r)) \/ HandlerThrows(m)
<1>1. run[m].value \in Payloads
  BY DEF TypeInv, TypeOK
<1>2. /\ Handles(m, "assert") => Handling(m) /\ chain[At(m)] = "assert"
      /\ \A h \in {"transform", "proxy", "delay", "drop", "validate", "mockResponse", "mockEvent", "link"} :
           Handles(m, h) => Handling(m) /\ chain[At(m)] # "assert"
  BY DEF Handles, Handling
<1>3. {"undefined", "response", "changed"} \cup Payloads \subseteq Returned
  BY DEF Returned, Payloads
<1>4. /\ \A r \in Returned : Returns(m, r) => Becomes(m, Result(m, r))
      /\ \A e : Throws(m, e) => Becomes(m, Failed(m, e))
  BY ReturnsResult DEF Throws, Failed
<1>5. CASE Assert(m)
  BY <1>2, <1>3, <1>4, <1>5 DEF Assert, HandlerReturns, HandlerThrows
<1>6. CASE Transform(m)
  BY <1>2, <1>3, <1>4, <1>6 DEF Transform, UserReturns, HandlerReturns, HandlerThrows, Returned
<1>7. CASE Delay(m)
  BY <1>2, <1>3, <1>4, <1>7 DEF Delay, HandlerReturns
<1>8. CASE Drop(m)
  BY <1>2, <1>4, <1>8 DEF Drop, HandlerThrows
<1>9. CASE Validate(m)
  BY <1>1, <1>2, <1>3, <1>4, <1>9 DEF Validate, HandlerReturns, HandlerThrows
<1>10. CASE MockResponse(m)
  BY <1>2, <1>3, <1>4, <1>10 DEF MockResponse, HandlerReturns, HandlerThrows
<1>11. CASE MockEvent(m)
  BY <1>2, <1>3, <1>4, <1>11 DEF MockEvent, HandlerReturns, HandlerThrows
<1>12. CASE Link(m)
  BY <1>2, <1>3, <1>4, <1>12 DEF Link, HandlerReturns
<1> QED
  BY <1>5, <1>6, <1>7, <1>8, <1>9, <1>10, <1>11, <1>12 DEF executeHandler

\* The chain of a message ends.
LEMMA EndsPassOrFail ==
  ASSUME TypeInv, NEW m \in Messages, Ends(m)
  PROVE  ChainPasses(m) \/ ChainFails(m)
<1>1. /\ Passed(m) => run[m].pc # "failed" /\ Over(m, run[m].error) = Over(m, "none")
      /\ Completed(m) \/ run[m].pc = "answered" => run[m].pc # "dropped"
  BY DEF TypeInv, Errors, Unfailed, Passed, Completed, Over
<1>2. CASE ServerPasses(m)
  BY <1>1, <1>2 DEF ServerPasses, ChainPasses
<1>3. CASE AsyncServerPasses(m)
  BY <1>1, <1>3 DEF AsyncServerPasses, ChainPasses
<1>4. CASE EventPasses(m)
  BY <1>1, <1>4 DEF EventPasses, ChainPasses
<1>5. CASE ServerThrows(m)
  BY <1>5 DEF ServerThrows, ChainFails
<1>6. CASE StepEnds(m)
  BY <1>1, <1>6 DEF StepEnds, ChainPasses, ChainFails
<1>7. CASE HookEnds(m)
  BY <1>1, <1>7 DEF HookEnds, ChainPasses, ChainFails
<1> QED  BY <1>2, <1>3, <1>4, <1>5, <1>6, <1>7 DEF Ends

\* Every step is one of the five, for some message.
LEMMA MessageSteps ==
  ASSUME TypeInv, Next
  PROVE  \E m \in Messages : MessageStep(m)
<1>1. PICK m \in Messages : (\E v \in {"sent", "null"} : Arrives(m, v)) \/ executeHandler(m) \/ Ends(m)
  BY DEF Next
<1> QED  BY <1>1, ArrivesComes, HandlerSteps, EndsPassOrFail DEF MessageStep

-----------------------------------------------------------------------------
(* Types                                                                   *)

\* What a message may be, with a chain of n handlers.
Records(n) ==
  [pc : {"idle", "running", "dropped", "answered", "failed", "over"}, at : 1..(n + 1),
   came : Payloads, value : Payloads, type : {"own", "other"},
   results : Seq(Returned), error : {"none", "error", "drop", "refused"}]

LEMMA TypeInit == Init => TypeInv
<1> SUFFICES ASSUME Init PROVE TypeInv
  OBVIOUS
<1>1. Chosen
  BY CasesAssumption DEF Init, Chosen, ComponentNames
<1>2. Len(chain) \in Nat
  BY <1>1 DEF Chosen
<1>3. Idle \in Records(Len(chain)) /\ Idle.pc \in Unfailed /\ Idle.error = "none"
  BY <1>2 DEF Idle, Records, Payloads, Unfailed
<1>4. TypeOK
  BY <1>1, <1>3 DEF Init, TypeOK, Chosen, Records, Returned
<1>5. Errors
  BY <1>3 DEF Init, Errors, Unfailed
<1> QED  BY <1>1, <1>4, <1>5 DEF TypeInv

\* What becomes of the record of a message has the types of a record.
LEMMA RecordTypes ==
  ASSUME TypeInv, NEW m \in Messages
  PROVE  /\ run[m] \in Records(Len(chain))
         /\ \A v \in {"sent", "null"} : Begun(m, v) \in Records(Len(chain))
         /\ \A e \in {"none", "error", "drop", "refused"} :
              /\ Over(m, e) \in Records(Len(chain))
              /\ Failed(m, e) \in Records(Len(chain))
         /\ Handling(m) => \A r \in Returned : Result(m, r) \in Records(Len(chain))
<1>1. run[m] \in Records(Len(chain)) /\ Len(chain) \in Nat /\ DOMAIN chain = 1..Len(chain)
  BY DEF TypeInv, TypeOK, Records, Returned, Chosen
<1>2. \A v \in {"sent", "null"} : Begun(m, v) \in Records(Len(chain))
  BY <1>1 DEF Records, Begun, Payloads
<1>3. \A e \in {"none", "error", "drop", "refused"} :
        /\ Over(m, e) \in Records(Len(chain))
        /\ Failed(m, e) \in Records(Len(chain))
  BY <1>1 DEF Records, Over, Failed
<1>4. ASSUME Handling(m), NEW r \in Returned PROVE Result(m, r) \in Records(Len(chain))
  <2>1. run[m].at + 1 \in 1..(Len(chain) + 1) /\ Append(run[m].results, r) \in Seq(Returned)
    BY <1>1, <1>4 DEF Records, Handling, At
  <2>2. Ran(m, r) \in Records(Len(chain))
    BY <1>1, <2>1 DEF Records, Ran
  <2>3. /\ [Ran(m, r) EXCEPT !.pc = "dropped"] \in Records(Len(chain))
        /\ [Ran(m, r) EXCEPT !.pc = "answered", !.value = "changed"] \in Records(Len(chain))
        /\ [Ran(m, r) EXCEPT !.value = "changed", !.type = "other"] \in Records(Len(chain))
        /\ r # "undefined" => [Ran(m, r) EXCEPT !.value = r] \in Records(Len(chain))
    BY <2>2 DEF Records, Payloads, Returned
  <2> QED  BY <2>2, <2>3 DEF Result
<1> QED  BY <1>1, <1>2, <1>3, <1>4

\* What a step of m leaves of the other messages and of the fixed part, and
\* what it may make of m.
LEMMA OthersKept ==
  ASSUME TypeInv, NEW m \in Messages, MessageStep(m)
  PROVE  /\ UNCHANGED fixed
         /\ run'[m] \in Records(Len(chain))
         /\ run' = [run EXCEPT ![m] = run'[m]]
         /\ \A n \in Messages \ {m} : run'[n] = run[n]
<1>1. run \in [Messages -> Records(Len(chain))]
  BY DEF TypeInv, TypeOK, Records, Returned
<1>2. \A x : Becomes(m, x) => /\ run'[m] = x /\ run' = [run EXCEPT ![m] = x]
                            /\ \A n \in Messages \ {m} : run'[n] = run[n]
  BY <1>1 DEF Becomes
<1>3. run[m].pc = "failed" => run[m].error \in {"error", "drop"}
  BY DEF TypeInv, Errors
<1>4. CASE Comes(m)
  BY <1>2, <1>4, RecordTypes DEF Comes
<1>5. CASE \E r \in Returned : HandlerReturns(m, r)
  <2>1. PICK r \in Returned : HandlerReturns(m, r)
    BY <1>5
  <2>2. Becomes(m, Result(m, r)) /\ Handling(m) /\ UNCHANGED fixed
    BY <2>1 DEF HandlerReturns
  <2>3. Result(m, r) \in Records(Len(chain))
    BY <2>2, RecordTypes
  <2> QED  BY <1>2, <2>2, <2>3
<1>6. CASE HandlerThrows(m)
  BY <1>2, <1>6, RecordTypes DEF HandlerThrows
<1>7. CASE ChainPasses(m)
  BY <1>2, <1>7, RecordTypes DEF ChainPasses
<1>8. CASE ChainFails(m)
  BY <1>2, <1>3, <1>8, RecordTypes DEF ChainFails
<1> QED  BY <1>4, <1>5, <1>6, <1>7, <1>8 DEF MessageStep

\* The fields of what becomes of the record of a message.
LEMMA FieldsOfBegunAndOver ==
  ASSUME TypeInv, NEW m \in Messages
  PROVE  /\ \A v \in {"sent", "null"} :
              /\ Begun(m, v).pc = "running" /\ Begun(m, v).came = v /\ Begun(m, v).value = v
              /\ Begun(m, v).at = run[m].at /\ Begun(m, v).results = run[m].results
              /\ Begun(m, v).error = run[m].error
         /\ \A e \in {"none", "error", "drop", "refused"} :
              /\ Over(m, e).pc = "over" /\ Over(m, e).error = e
              /\ Over(m, e).came = run[m].came /\ Over(m, e).value = run[m].value
              /\ Over(m, e).at = run[m].at /\ Over(m, e).results = run[m].results
              /\ Failed(m, e).pc = "failed" /\ Failed(m, e).error = e /\ Failed(m, e).came = run[m].came
              /\ Failed(m, e).at = run[m].at /\ Failed(m, e).results = run[m].results
<1>1. run[m] \in Records(Len(chain))
  BY RecordTypes
<1> QED  BY <1>1 DEF Begun, Over, Failed, Records

LEMMA FieldsOfResult ==
  ASSUME TypeInv, NEW m \in Messages, NEW r \in Returned
  PROVE  /\ Result(m, r).at = run[m].at + 1
         /\ Result(m, r).results = Append(run[m].results, r)
         /\ Result(m, r).came = run[m].came /\ Result(m, r).error = run[m].error
         /\ Result(m, r).pc = IF r = "null" THEN "dropped"
                              ELSE IF r = "response" /\ Server THEN "answered" ELSE run[m].pc
         /\ r # "null" => Result(m, r).value = IF r = "undefined" THEN run[m].value ELSE Effect(r)
<1>1. run[m] \in Records(Len(chain))
  BY RecordTypes
<1>2. /\ Ran(m, r).at = run[m].at + 1 /\ Ran(m, r).results = Append(run[m].results, r)
      /\ Ran(m, r).came = run[m].came /\ Ran(m, r).error = run[m].error
      /\ Ran(m, r).pc = run[m].pc /\ Ran(m, r).value = run[m].value /\ Ran(m, r).type = run[m].type
      /\ DOMAIN Ran(m, r) = {"pc", "at", "came", "value", "type", "results", "error"}
  BY <1>1 DEF Ran, Records
<1>3. CASE r = "null"
  BY <1>2, <1>3 DEF Result
<1>4. CASE r = "undefined"
  BY <1>2, <1>4 DEF Result
<1>5. CASE r = "response" /\ Server
  BY <1>2, <1>5 DEF Result, Effect
<1>6. CASE r = "message" /\ Server
  BY <1>2, <1>6 DEF Result, Effect
<1>7. CASE ~(r \in {"null", "undefined"} \/ (r \in {"response", "message"} /\ Server))
  <2>1. Result(m, r) = [Ran(m, r) EXCEPT !.value = r] /\ Effect(r) = r
    BY <1>7 DEF Result, Effect
  <2> QED  BY <1>2, <1>7, <2>1
<1> QED  BY <1>3, <1>4, <1>5, <1>6, <1>7

LEMMA AppendInSeq ==
  ASSUME NEW V, NEW s \in Seq(V), NEW x \in V
  PROVE  Append(s, x) \in Seq(V)
OBVIOUS

LEMMA TypeKept == TypeInv /\ [Next]_vars => TypeInv'
<1> SUFFICES ASSUME TypeInv, [Next]_vars PROVE TypeInv'
  OBVIOUS
<1>1. CASE UNCHANGED vars
  BY <1>1 DEF TypeInv, TypeOK, Chosen, Errors, vars, Methods, Held
<1>2. CASE Next
  <2>1. PICK m \in Messages : MessageStep(m)
    BY <1>2, MessageSteps
  <2>2. UNCHANGED fixed /\ run' \in [Messages -> Records(Len(chain))]
    BY <2>1, OthersKept DEF TypeInv, TypeOK, Records, Returned
  <2>3. chain' = chain /\ component' = component /\ step' = step
    BY <2>2 DEF fixed
  <2>4. Chosen'
    BY <2>3 DEF TypeInv, Chosen, Methods
  <2>5. hook' \in {"open", "resolved", "rejected"} /\ tracked' \subseteq Messages
    BY <2>1 DEF TypeInv, TypeOK, MessageStep, Comes, HandlerReturns, HandlerThrows, ChainPasses,
                ChainFails, resolveHook, rejectHook
  <2>6. assertions' \in Seq(Messages \X (DOMAIN chain) \X BOOLEAN)
    <3>1. UNCHANGED assertions \/ (Handling(m) /\ \E b \in BOOLEAN : recordAssertion(m, b))
      BY <2>1 DEF MessageStep, Comes, HandlerReturns, HandlerThrows, ChainPasses, ChainFails
    <3>2. Handling(m) => \A b \in BOOLEAN : <<m, At(m), b>> \in Messages \X (DOMAIN chain) \X BOOLEAN
      BY DEF Handling
    <3>3. assertions \in Seq(Messages \X (DOMAIN chain) \X BOOLEAN)
      BY DEF TypeInv, TypeOK
    <3> QED  BY <3>1, <3>2, <3>3, AppendInSeq DEF recordAssertion
  <2>7. out' \subseteq {"answer", "forward", "client", "event"} \X Messages \X Payloads
    <3>1. run[m].value \in Payloads /\ "changed" \in Payloads
      BY DEF TypeInv, TypeOK, Payloads
    <3>2. \/ out' = out \/ out' = out \cup {<<"event", m, "changed">>}
          \/ \E what \in {"answer", "forward", "client"} : out' = out \cup {<<what, m, run[m].value>>}
      BY <2>1 DEF MessageStep, Comes, HandlerReturns, HandlerThrows, ChainPasses, ChainFails, Sent
    <3> QED  BY <3>1, <3>2 DEF TypeInv, TypeOK
  <2>8. Errors'
    <3> SUFFICES ASSUME NEW n \in Messages
                 PROVE  /\ run'[n].pc \in Unfailed => run'[n].error = "none"
                        /\ run'[n].pc = "failed" => run'[n].error \in {"error", "drop"}
      BY DEF Errors
    <3>1. CASE n # m
      BY <2>1, <3>1, OthersKept DEF TypeInv, Errors
    <3>2. CASE n = m
      <4>1. \A x : Becomes(m, x) => run'[m] = x
        BY DEF Becomes, TypeInv, TypeOK
      <4>2. CASE Comes(m)
        BY <3>2, <4>1, <4>2, FieldsOfBegunAndOver DEF Comes, TypeInv, Errors, Unfailed
      <4>3. CASE \E r \in Returned : HandlerReturns(m, r)
        <5>1. PICK r \in Returned : Becomes(m, Result(m, r)) /\ Handling(m)
          BY <4>3 DEF HandlerReturns
        <5> QED
          BY <3>2, <4>1, <5>1, FieldsOfResult DEF TypeInv, Errors, Unfailed, Handling
      <4>4. CASE HandlerThrows(m)
        BY <3>2, <4>1, <4>4, FieldsOfBegunAndOver DEF HandlerThrows, Unfailed
      <4>5. CASE ChainPasses(m)
        BY <3>2, <4>1, <4>5, FieldsOfBegunAndOver DEF ChainPasses, Unfailed
      <4>6. CASE ChainFails(m)
        BY <3>2, <4>1, <4>6, FieldsOfBegunAndOver DEF ChainFails, TypeInv, Errors, Unfailed
      <4> QED  BY <2>1, <4>2, <4>3, <4>4, <4>5, <4>6 DEF MessageStep
    <3> QED  BY <3>1, <3>2
  <2>9. TypeOK'
    BY <2>2, <2>3, <2>4, <2>5, <2>6, <2>7 DEF TypeOK, Chosen, Records, Returned
  <2> QED  BY <2>4, <2>8, <2>9 DEF TypeInv
<1> QED  BY <1>1, <1>2

\* Every variable keeps its type, for any messages and chains.
THEOREM HandlersTypeCorrect == Spec => []TypeOK
<1>1. TypeInv => TypeOK
  BY DEF TypeInv
<1> QED  BY <1>1, TypeInit, TypeKept, PTL DEF Spec

-----------------------------------------------------------------------------
(* What goes on                                                            *)

NotNull(m) == \A i \in DOMAIN run[m].results : run[m].results[i] # "null"
AsMade(m)  == Made(m, run[m].value) /\ NotNull(m)

\* What is sent is what was made because the value of a message is at any time
\* what its results made of it, and a message that is over does not change.
ValueInv ==
  /\ \A m \in Messages : run[m].pc = "idle" => run[m].results = <<>>
  /\ \A m \in Messages : run[m].pc \in {"running", "answered"} => AsMade(m)
  /\ \A o \in out : o[1] # "event" => run[o[2]].pc = "over" /\ Made(o[2], o[3]) /\ NotNull(o[2])

\* A message that does not change was made as before.
LEMMA MadeKept ==
  ASSUME UNCHANGED fixed, NEW m, run'[m].results = run[m].results, run'[m].came = run[m].came
  PROVE  (\A v : Made(m, v) => Made(m, v)') /\ (NotNull(m) => NotNull(m)')
BY DEF Made, NotNull, Changes, Effect, Server, fixed

\* The result of a handler is what the message becomes.
LEMMA MadeByResult ==
  ASSUME TypeInv, UNCHANGED fixed, NEW m \in Messages, NEW r \in Returned, r # "null",
         run'[m] = Result(m, r), AsMade(m)
  PROVE  AsMade(m)'
<1>1. /\ run'[m].results = Append(run[m].results, r) /\ run'[m].came = run[m].came
      /\ run'[m].value = IF r = "undefined" THEN run[m].value ELSE Effect(r)
  BY FieldsOfResult
<1>2. run[m].results \in Seq(Returned)
  BY DEF TypeInv, TypeOK, Returned
<1> DEFINE s == run[m].results
           k == Len(s)
<1>3. /\ k \in Nat /\ DOMAIN s = 1..k /\ DOMAIN run'[m].results = 1..(k + 1)
      /\ run'[m].results[k + 1] = r /\ \A i \in 1..k : run'[m].results[i] = s[i]
  BY <1>1, <1>2
<1>4. NotNull(m)'
  BY <1>3 DEF NotNull, AsMade
<1>5. CASE r = "undefined"
  <2>1. Changes(m)' = Changes(m) /\ \A i \in Changes(m) : i \in 1..k
    BY <1>3, <1>5 DEF Changes
  <2> QED  BY <1>1, <1>3, <1>4, <1>5, <2>1 DEF AsMade, Made, Effect, Server, fixed
<1>6. CASE r # "undefined"
  <2>1. k + 1 \in Changes(m)' /\ \A j \in Changes(m)' : j <= k + 1
    BY <1>3, <1>6 DEF Changes
  <2>2. Effect(r)' = Effect(r)
    BY DEF Effect, Server, fixed
  <2> QED  BY <1>1, <1>3, <1>4, <1>6, <2>1, <2>2 DEF AsMade, Made
<1> QED  BY <1>5, <1>6

LEMMA ValueInit == Init => ValueInv
BY DEF Init, ValueInv, Idle

\* A step finds its message under way and leaves it so, or over.
LEMMA UnderWay ==
  ASSUME TypeInv, NEW m \in Messages, MessageStep(m)
  PROVE  run[m].pc # "over"
BY DEF MessageStep, Comes, HandlerReturns, HandlerThrows, Handling, ChainPasses, ChainFails, Passed, Completed

LEMMA ValueKept == TypeInv /\ ValueInv /\ [Next]_vars => ValueInv'
<1> SUFFICES ASSUME TypeInv, ValueInv, [Next]_vars PROVE ValueInv'
  OBVIOUS
<1>1. CASE UNCHANGED vars
  BY <1>1 DEF ValueInv, vars, fixed, AsMade, NotNull, Made, Changes, Effect, Server
<1>2. CASE Next
  <2>1. PICK m \in Messages : MessageStep(m)
    BY <1>2, MessageSteps
  <2>2. UNCHANGED fixed /\ \A n \in Messages \ {m} : run'[n] = run[n]
    BY <2>1, OthersKept
  <2>3. \A x : Becomes(m, x) => run'[m] = x
    BY DEF Becomes, TypeInv, TypeOK
  <2>4. \A n \in Messages \ {m} : (\A v : Made(n, v) => Made(n, v)') /\ (NotNull(n) => NotNull(n)')
    BY <2>2, MadeKept
  <2>5. \A o \in out : o[1] # "event" => run'[o[2]].pc = "over" /\ Made(o[2], o[3])' /\ NotNull(o[2])'
    <3> SUFFICES ASSUME NEW o \in out, o[1] # "event"
                 PROVE  run'[o[2]].pc = "over" /\ Made(o[2], o[3])' /\ NotNull(o[2])'
      OBVIOUS
    <3>1. o[2] \in Messages /\ o[2] # m
      BY <2>1, UnderWay DEF ValueInv, TypeInv, TypeOK
    <3> QED  BY <2>2, <2>4, <3>1 DEF ValueInv
  <2>6. ASSUME run'[m].pc = "idle" => run'[m].results = <<>>,
               run'[m].pc \in {"running", "answered"} => AsMade(m)'
        PROVE  /\ \A n \in Messages : run'[n].pc = "idle" => run'[n].results = <<>>
               /\ \A n \in Messages : run'[n].pc \in {"running", "answered"} => AsMade(n)'
    BY <2>2, <2>4, <2>6 DEF ValueInv, AsMade
  <2>7. CASE Comes(m)
    <3>1. run'[m].pc # "idle" /\ UNCHANGED out
      BY <2>3, <2>7, FieldsOfBegunAndOver DEF Comes
    <3>2. ASSUME run'[m].pc \in {"running", "answered"} PROVE AsMade(m)'
      <4>1. run'[m].value = run'[m].came /\ run'[m].results = <<>>
        BY <2>3, <2>7, <3>2, FieldsOfBegunAndOver DEF Comes, ValueInv
      <4> QED  BY <4>1 DEF AsMade, Made, NotNull, Changes
    <3> QED  BY <2>5, <2>6, <3>1, <3>2 DEF ValueInv
  <2>8. CASE \E r \in Returned : HandlerReturns(m, r)
    <3>1. PICK r \in Returned : HandlerReturns(m, r)
      BY <2>8
    <3>2. run'[m] = Result(m, r) /\ run[m].pc = "running"
      BY <2>3, <3>1 DEF HandlerReturns, Handling
    <3>3. run'[m].pc # "idle"
      BY <3>2, FieldsOfResult
    <3>4. run'[m].pc \in {"running", "answered"} => AsMade(m)'
      <4>1. r = "null" => run'[m].pc = "dropped"
        BY <3>2, FieldsOfResult
      <4> QED  BY <2>2, <3>2, <4>1, MadeByResult DEF ValueInv
    <3> QED  BY <2>5, <2>6, <3>1, <3>3, <3>4 DEF ValueInv, HandlerReturns
  <2>9. CASE HandlerThrows(m)
    <3>1. run'[m].pc = "failed" /\ UNCHANGED out
      BY <2>3, <2>9, FieldsOfBegunAndOver DEF HandlerThrows
    <3> QED  BY <2>5, <2>6, <3>1 DEF ValueInv
  <2>10. CASE ChainPasses(m)
    <3>1. /\ run'[m].pc = "over" /\ run'[m].results = run[m].results
          /\ run'[m].came = run[m].came
      BY <2>3, <2>10, FieldsOfBegunAndOver DEF ChainPasses
    <3>2. CASE UNCHANGED out
      BY <2>5, <2>6, <3>1, <3>2 DEF ValueInv
    <3>3. CASE run[m].pc # "dropped" /\ \E what \in {"answer", "forward", "client"} : Sent(what, m)
      <4>1. PICK what \in {"answer", "forward", "client"} : out' = out \cup {<<what, m, run[m].value>>}
        BY <3>3 DEF Sent
      <4>2. run[m].pc \in {"running", "answered"}
        BY <2>10, <3>3 DEF ChainPasses, Passed, Completed
      <4>3. Made(m, run[m].value) /\ NotNull(m)
        BY <4>2 DEF ValueInv, AsMade
      <4>4. (\A v : v = run[m].value => Made(m, v)') /\ NotNull(m)'
        BY <2>2, <3>1, <4>3, MadeKept
      <4>5. \A o \in out' : o[1] # "event" => run'[o[2]].pc = "over" /\ Made(o[2], o[3])' /\ NotNull(o[2])'
        BY <2>5, <3>1, <4>1, <4>4
      <4> QED  BY <2>6, <3>1, <4>5 DEF ValueInv
    <3> QED  BY <2>10, <3>2, <3>3 DEF ChainPasses
  <2>11. CASE ChainFails(m)
    <3>1. run'[m].pc = "over" /\ UNCHANGED out
      BY <2>3, <2>11, FieldsOfBegunAndOver DEF ChainFails, TypeInv, Errors
    <3> QED  BY <2>5, <2>6, <3>1 DEF ValueInv
  <2> QED  BY <2>1, <2>7, <2>8, <2>9, <2>10, <2>11 DEF MessageStep
<1> QED  BY <1>1, <1>2

\* What goes on to a peer is what the handlers of its own chain made of it.
THEOREM ValuesGoOnAsMade == Spec => []GoesOnAsMade
<1>1. TypeInv /\ ValueInv => GoesOnAsMade
  BY DEF ValueInv, GoesOnAsMade, NotNull
<1> QED  BY <1>1, TypeInit, TypeKept, ValueInit, ValueKept, PTL DEF Spec

-----------------------------------------------------------------------------
(* What a step that passed has seen                                        *)

\* The assertions before the next handler of m held.
HeldSoFar(m) == \A i \in DOMAIN chain : i < run[m].at /\ chain[i] = "assert" => Held(m, i)

\* The last handler dropped or answered m.
Cut(m) == run[m].at > 1 /\ run[m].results[run[m].at - 1] \in {"null", "response"}

\* The number of results is that of the handlers behind; a chain that ended
\* well ran to its end or was cut.
AssertInv ==
  /\ \A m \in Messages :
       /\ Len(run[m].results) = run[m].at - 1
       /\ run[m].error = "none" => HeldSoFar(m)
       /\ run[m].pc \in {"dropped", "answered"} => Cut(m)
       /\ Handled(m) => Cut(m) \/ run[m].at = Len(chain) + 1
  /\ WaitStep /\ hook = "resolved" => \E m \in Messages : Handled(m)

LEMMA AssertInit == Init => AssertInv
<1> SUFFICES ASSUME Init PROVE AssertInv
  OBVIOUS
<1>1. DOMAIN chain \subseteq Nat \ {0}
  BY TypeInit DEF TypeInv, Chosen
<1>2. \A m \in Messages : run[m].at = 1 /\ run[m].results = <<>> /\ run[m].pc = "idle"
  BY DEF Init, Idle
<1>3. \A m \in Messages : HeldSoFar(m)
  BY <1>1, <1>2 DEF HeldSoFar
<1> QED  BY <1>2, <1>3 DEF Init, AssertInv, Handled

LEMMA Appended ==
  ASSUME NEW V, NEW s \in Seq(V), NEW x \in V
  PROVE  /\ Len(s) + 1 \in DOMAIN Append(s, x) /\ Append(s, x)[Len(s) + 1] = x
         /\ \A j \in DOMAIN s : j \in DOMAIN Append(s, x) /\ Append(s, x)[j] = s[j]
OBVIOUS

\* Recorded assertions stay recorded.
LEMMA HeldKept ==
  ASSUME TypeInv, NEW x \in Messages \X (DOMAIN chain) \X BOOLEAN,
         UNCHANGED assertions \/ assertions' = Append(assertions, x)
  PROVE  \A m, i : Held(m, i) => Held(m, i)'
<1>1. assertions \in Seq(Messages \X (DOMAIN chain) \X BOOLEAN)
  BY DEF TypeInv, TypeOK
<1>2. \A j \in DOMAIN assertions : j \in DOMAIN assertions' /\ assertions'[j] = assertions[j]
  BY <1>1, Appended
<1> QED  BY <1>2 DEF Held

LEMMA AssertKept == TypeInv /\ AssertInv /\ [Next]_vars => AssertInv'
<1> SUFFICES ASSUME TypeInv, AssertInv, [Next]_vars PROVE AssertInv'
  OBVIOUS
<1>1. CASE UNCHANGED vars
  BY <1>1 DEF AssertInv, vars, fixed, HeldSoFar, Held, Cut, Handled, WaitStep
<1>2. CASE Next
  <2>1. PICK m \in Messages : MessageStep(m)
    BY <1>2, MessageSteps
  <2>2. UNCHANGED fixed /\ \A n \in Messages \ {m} : run'[n] = run[n]
    BY <2>1, OthersKept
  <2>3. \A x : Becomes(m, x) => run'[m] = x
    BY DEF Becomes, TypeInv, TypeOK
  <2>4. \A n, i : Held(n, i) => Held(n, i)'
    <3>1. CASE UNCHANGED assertions
      BY <3>1 DEF Held
    <3>2. CASE Handling(m) /\ \E b \in BOOLEAN : recordAssertion(m, b)
      BY <3>2, HeldKept DEF Handling, recordAssertion
    <3> QED
      BY <2>1, <3>1, <3>2 DEF MessageStep, Comes, HandlerReturns, HandlerThrows, ChainPasses, ChainFails
  <2>5. chain' = chain /\ (WaitStep' <=> WaitStep)
    BY <2>2 DEF fixed, WaitStep
  <2>6. \A n \in Messages : Handled(n) => Handled(n)'
    BY <2>1, <2>2, UnderWay DEF Handled
  <2>7. WaitStep' /\ hook' = "resolved" => \E n \in Messages : Handled(n)'
    <3>1. CASE ChainPasses(m)
      BY <2>3, <3>1, FieldsOfBegunAndOver DEF ChainPasses, Handled
    <3>2. CASE ~ChainPasses(m)
      <4>1. WaitStep /\ hook' = "resolved" => hook = "resolved"
        BY <2>1, <3>2 DEF MessageStep, Comes, HandlerReturns, HandlerThrows, ChainFails, rejectHook
      <4> QED  BY <2>5, <2>6, <4>1 DEF AssertInv
    <3> QED  BY <3>1, <3>2
  <2>8. ASSUME NEW n \in Messages, n # m
        PROVE  /\ Len(run'[n].results) = run'[n].at - 1
               /\ run'[n].error = "none" => HeldSoFar(n)'
               /\ run'[n].pc \in {"dropped", "answered"} => Cut(n)'
               /\ Handled(n)' => Cut(n)' \/ run'[n].at = Len(chain) + 1
    BY <2>2, <2>4, <2>5, <2>8 DEF AssertInv, HeldSoFar, Cut, Handled
  <2>9. /\ Len(run'[m].results) = run'[m].at - 1
        /\ run'[m].error = "none" => HeldSoFar(m)'
        /\ run'[m].pc \in {"dropped", "answered"} => Cut(m)'
        /\ Handled(m)' => Cut(m)' \/ run'[m].at = Len(chain) + 1
    <3>1. CASE Comes(m) \/ HandlerThrows(m) \/ ChainFails(m)
      <4>1. /\ run'[m].at = run[m].at /\ run'[m].results = run[m].results
            /\ run'[m].pc \notin {"dropped", "answered"} /\ ~Handled(m)'
            /\ run'[m].error = "none" => run[m].error = "none"
        <5>1. CASE Comes(m)
          BY <2>3, <5>1, FieldsOfBegunAndOver DEF Comes, Handled, TypeInv, Errors, Unfailed
        <5>2. CASE HandlerThrows(m)
          BY <2>3, <5>2, FieldsOfBegunAndOver DEF HandlerThrows, Handled
        <5>3. CASE ChainFails(m)
          BY <2>3, <5>3, FieldsOfBegunAndOver DEF ChainFails, Handled, TypeInv, Errors
        <5> QED  BY <3>1, <5>1, <5>2, <5>3
      <4> QED  BY <2>4, <2>5, <4>1 DEF AssertInv, HeldSoFar
    <3>2. CASE \E r \in Returned : HandlerReturns(m, r)
      <4>1. PICK r \in Returned : HandlerReturns(m, r)
        BY <3>2
      <4>2. run'[m] = Result(m, r) /\ run[m].pc = "running" /\ run[m].at \in DOMAIN chain
        BY <2>3, <4>1 DEF HandlerReturns, Handling, At
      <4>3. /\ run'[m].at = run[m].at + 1 /\ run'[m].results = Append(run[m].results, r)
            /\ run'[m].error = run[m].error /\ run'[m].pc # "over"
            /\ run'[m].pc \in {"dropped", "answered"} => r \in {"null", "response"}
        BY <4>2, FieldsOfResult
      <4>4. run[m].results \in Seq(Returned) /\ run[m].at \in Nat \ {0} /\ DOMAIN chain \subseteq Nat
        BY <4>2 DEF TypeInv, TypeOK, Returned, Chosen
      <4>5. Len(run'[m].results) = run'[m].at - 1 /\ run'[m].results[run[m].at] = r
        BY <4>3, <4>4 DEF AssertInv
      <4>6. chain[run[m].at] = "assert" => \A i : i = run[m].at => Held(m, i)'
        <5>1. chain[run[m].at] = "assert" => assertions' = Append(assertions, <<m, run[m].at, TRUE>>)
          BY <4>1 DEF HandlerReturns, recordAssertion, At
        <5>2. assertions \in Seq(Messages \X (DOMAIN chain) \X BOOLEAN)
          BY DEF TypeInv, TypeOK
        <5>3. CASE chain[run[m].at] = "assert"
          <6>1. <<m, run[m].at, TRUE>> \in Messages \X (DOMAIN chain) \X BOOLEAN
            BY <4>2
          <6>2. \A x \in Messages \X (DOMAIN chain) \X BOOLEAN : assertions' = Append(assertions, x) =>
                  Len(assertions) + 1 \in DOMAIN assertions' /\ assertions'[Len(assertions) + 1] = x
            BY <5>2, Appended
          <6>3. \A i : i = run[m].at => Held(m, i)'
            BY <5>1, <5>3, <6>1, <6>2 DEF Held
          <6> QED  BY <6>3
        <5> QED  BY <5>3
      <4>7. run'[m].error = "none" => HeldSoFar(m)'
        <5>1. run'[m].error = "none" => HeldSoFar(m)
          BY <4>3 DEF AssertInv
        <5>2. \A i \in DOMAIN chain : i < run'[m].at => i < run[m].at \/ i = run[m].at
          BY <4>3, <4>4
        <5> QED  BY <2>4, <2>5, <4>6, <5>1, <5>2 DEF HeldSoFar
      <4>8. run'[m].pc \in {"dropped", "answered"} => Cut(m)'
        BY <4>3, <4>4, <4>5 DEF Cut
      <4> QED  BY <4>3, <4>5, <4>7, <4>8 DEF Handled
    <3>3. CASE ChainPasses(m)
      <4>1. /\ run'[m].at = run[m].at /\ run'[m].results = run[m].results /\ run'[m].pc = "over"
            /\ run[m].error = "none"
        BY <2>3, <3>3, FieldsOfBegunAndOver DEF ChainPasses, Passed, Completed, TypeInv, Errors, Unfailed
      <4>2. Cut(m) \/ run[m].at = Len(chain) + 1
        BY <3>3 DEF ChainPasses, Passed, Completed, At, AssertInv
      <4> QED  BY <2>4, <2>5, <4>1, <4>2 DEF AssertInv, HeldSoFar, Cut
    <3> QED  BY <2>1, <3>1, <3>2, <3>3 DEF MessageStep
  <2> QED  BY <2>5, <2>7, <2>8, <2>9 DEF AssertInv
<1> QED  BY <1>1, <1>2

\* A step whose wait passed saw a message for which the assertions of its chain
\* held, but those after a handler that dropped or answered it.
THEOREM PassedStepsAsserted == Spec => []PassedMeansAsserted
<1>1. TypeInv /\ AssertInv => PassedMeansAsserted
  <2> SUFFICES ASSUME TypeInv, AssertInv, StepPassed
               PROVE  \E m \in Messages : Handled(m) /\
                        \A i \in DOMAIN chain : chain[i] = "assert" => Held(m, i) \/ CutShort(m, i)
    BY DEF PassedMeansAsserted
  <2>1. PICK m \in Messages : Handled(m)
    BY DEF StepPassed, AssertInv
  <2>2. HeldSoFar(m) /\ (Cut(m) \/ run[m].at = Len(chain) + 1) /\ Len(run[m].results) = run[m].at - 1
    BY <2>1 DEF AssertInv, Handled
  <2>3. run[m].results \in Seq(Returned) /\ run[m].at \in Nat /\ DOMAIN chain = 1..Len(chain) /\ Len(chain) \in Nat
    BY DEF TypeInv, TypeOK, Returned, Chosen
  <2>4. ASSUME NEW i \in DOMAIN chain, chain[i] = "assert" PROVE Held(m, i) \/ CutShort(m, i)
    <3>1. CASE i < run[m].at
      BY <2>2, <2>4, <3>1 DEF HeldSoFar
    <3>2. CASE ~(i < run[m].at)
      <4>1. run[m].at - 1 \in DOMAIN run[m].results /\ run[m].at - 1 < i
        BY <2>2, <2>3, <3>2 DEF Cut
      <4> QED  BY <2>2, <2>3, <3>2, <4>1 DEF Cut, CutShort
    <3> QED  BY <3>1, <3>2
  <2> QED  BY <2>1, <2>4
<1> QED  BY <1>1, TypeInit, TypeKept, AssertInit, AssertKept, PTL DEF Spec

-----------------------------------------------------------------------------
(* Whom a failure reaches                                                  *)

\* What is tracked is over, and so keeps its error.
FailInv ==
  /\ \A m \in Messages : run[m].pc = "over" /\ run[m].error = "error" => Awaited \/ m \in tracked
  /\ \A m \in tracked : run[m].pc = "over" /\ run[m].error = "error"

LEMMA FailInit == Init => FailInv
BY DEF Init, FailInv, Idle

LEMMA FailKept == TypeInv /\ FailInv /\ [Next]_vars => FailInv'
<1> SUFFICES ASSUME TypeInv, FailInv, [Next]_vars PROVE FailInv'
  OBVIOUS
<1>1. CASE UNCHANGED vars
  BY <1>1 DEF FailInv, vars, fixed, Awaited
<1>2. CASE Next
  <2>1. PICK m \in Messages : MessageStep(m)
    BY <1>2, MessageSteps
  <2>2. UNCHANGED fixed /\ \A n \in Messages \ {m} : run'[n] = run[n]
    BY <2>1, OthersKept
  <2>3. \A x : Becomes(m, x) => run'[m] = x
    BY DEF Becomes, TypeInv, TypeOK
  <2>4. m \notin tracked /\ tracked \subseteq Messages /\ (Awaited' <=> Awaited)
    BY <2>1, <2>2, UnderWay DEF FailInv, TypeInv, TypeOK, Awaited, fixed
  <2>5. /\ tracked \subseteq tracked' /\ tracked' \subseteq tracked \cup {m}
        /\ run'[m].pc = "over" /\ run'[m].error = "error" => Awaited \/ m \in tracked'
        /\ m \in tracked' => run'[m].pc = "over" /\ run'[m].error = "error"
    <3>1. CASE Comes(m)
      BY <2>3, <2>4, <3>1, FieldsOfBegunAndOver DEF Comes
    <3>2. CASE \E r \in Returned : HandlerReturns(m, r)
      <4>1. PICK r \in Returned : HandlerReturns(m, r)
        BY <3>2
      <4>2. run'[m] = Result(m, r) /\ run[m].pc = "running" /\ UNCHANGED tracked
        BY <2>3, <4>1 DEF HandlerReturns, Handling
      <4> QED  BY <2>4, <4>2, FieldsOfResult
    <3>3. CASE HandlerThrows(m)
      BY <2>3, <2>4, <3>3, FieldsOfBegunAndOver DEF HandlerThrows
    <3>4. CASE ChainPasses(m)
      BY <2>3, <2>4, <3>4, FieldsOfBegunAndOver DEF ChainPasses
    <3>5. CASE ChainFails(m)
      <4>1. run[m].error \in {"error", "drop"}
        BY <3>5 DEF ChainFails, TypeInv, Errors
      <4> QED  BY <2>3, <2>4, <3>5, <4>1, FieldsOfBegunAndOver DEF ChainFails
    <3> QED  BY <2>1, <3>1, <3>2, <3>3, <3>4, <3>5 DEF MessageStep
  <2> QED  BY <2>2, <2>4, <2>5 DEF FailInv
<1> QED  BY <1>1, <1>2

\* A message that failed fails a step or is among the unhandled errors, and one
\* that was dropped is not.
THEOREM FailuresAlwaysTold == Spec => []FailuresTold
<1>1. FailInv => FailuresTold
  BY DEF FailInv, FailuresTold
<1> QED  BY <1>1, TypeInit, TypeKept, FailInit, FailKept, PTL DEF Spec

-----------------------------------------------------------------------------
(* First places                                                            *)

\* The first place among those that are looked for, if there is one.
LEMMA FirstIsFirst ==
  ASSUME NEW I \in SUBSET Nat, I # {}
  PROVE  R!FirstOf(I) \in I /\ \A j \in I : R!FirstOf(I) <= j
<1> DEFINE less == OpToRel(<, Nat)
<1>1. IsWellFoundedOn(less, Nat)
  BY NatLessThanWellFounded, Zenon
<1>2. \A a, b \in Nat : a < b => <<a, b>> \in less
  BY DEF OpToRel
<1> HIDE DEF less
<1>3. PICK i \in I : \A j \in I : <<j, i>> \notin less
  BY <1>1, WFMin
<1>4. ASSUME NEW j \in I PROVE i <= j
  <2>1. ~(j < i)
    BY <1>2, <1>3
  <2> QED  BY <2>1
<1>5. \E k \in I : \A j \in I : k <= j
  BY <1>4
<1> QED  BY <1>5, Zenon DEF R!FirstOf

\* It is the only one that comes before all others.
LEMMA FirstIs ==
  ASSUME NEW I \in SUBSET Nat, NEW i \in I, \A j \in I : i <= j
  PROVE  R!FirstOf(I) = i
<1>1. R!FirstOf(I) \in I /\ R!FirstOf(I) <= i
  BY FirstIsFirst, I # {}, Zenon
<1>2. i <= R!FirstOf(I) /\ i \in Nat /\ R!FirstOf(I) \in Nat
  BY <1>1
<1> QED
  <2> HIDE DEF R!FirstOf
  <2> QED  BY <1>1, <1>2

-----------------------------------------------------------------------------
(* The routes of an HTTP Server                                            *)

\* What a filter leaves are elements of the sequence, every one at the places
\* that it keeps, and in their order.
LEMMA FilterKeeps ==
  ASSUME NEW T, NEW s \in Seq(T), NEW I \in SUBSET (DOMAIN s), NEW r \in R!Picked(s, I)
  PROVE  \E f \in [DOMAIN r -> I] :
           /\ r \in Seq(T)
           /\ \A k \in DOMAIN r : r[k] = s[f[k]]
           /\ \A i \in I : \E k \in DOMAIN r : f[k] = i
           /\ \A k, l \in DOMAIN r : k < l => f[k] < f[l]
<1>1. Cardinality(I) \in Nat
  <2>1. DOMAIN s = 1..Len(s) /\ Len(s) \in Nat
    OBVIOUS
  <2>2. IsFiniteSet(1..Len(s))
    BY <2>1, FS_Interval
  <2>3. IsFiniteSet(I)
    BY <2>1, <2>2, FS_Subset
  <2> QED  BY <2>3, FS_CardinalityType
<1>2. PICK f \in [1..Cardinality(I) -> I] :
        /\ r = [k \in 1..Cardinality(I) |-> s[f[k]]]
        /\ \A i \in I : \E k \in DOMAIN f : f[k] = i
        /\ \A k, l \in DOMAIN f : k < l => f[k] < f[l]
  <2> DEFINE F == {g \in [1..Cardinality(I) -> I] : /\ \A i \in I : \E k \in DOMAIN g : g[k] = i
                                                   /\ \A k, l \in DOMAIN g : k < l => g[k] < g[l]}
  <2>1. r \in {[k \in 1..Cardinality(I) |-> s[f[k]]] : f \in F}
    <3>1. R!Cardinality(I) = Cardinality(I)
      BY Zenon DEF R!Cardinality, Cardinality, R!IsFiniteSet, IsFiniteSet
    <3> QED  BY <3>1, Zenon DEF R!Picked
  <2>2. PICK f \in F : r = [k \in 1..Cardinality(I) |-> s[f[k]]]
    BY <2>1, Zenon
  <2> QED  BY <2>2, Zenon
<1>3. DOMAIN r = 1..Cardinality(I) /\ DOMAIN f = 1..Cardinality(I)
  BY <1>2
<1>4. \A k \in 1..Cardinality(I) : s[f[k]] \in T
  BY <1>2
<1>5. r \in Seq(T)
  BY <1>1, <1>2, <1>4
<1> QED  BY <1>2, <1>3, <1>5

Hooked == [test : Tests \cup {"init"}, route : RouteSteps]

RtTypes ==
  /\ routes \in Seq(RouteSteps) /\ compiled \in Seq(RouteSteps)
  /\ hooks \in Seq(Hooked)

\* every route of the init handler is there, and only earlier ones before it
Ordered(s) ==
  \A i \in 1..Len(InitSteps) : InitSteps[i] # NoRoute =>
    \E c \in DOMAIN s :
      /\ s[c] = InitSteps[i]
      /\ \A d \in 1..(c - 1) : \E j \in 1..(i - 1) : s[d] = InitSteps[j] /\ InitSteps[j] # NoRoute

\* so are its hooks
HookedAt(s, k, i) ==
  /\ s[k].route = InitSteps[i]
  /\ \A j \in 1..(i - 1) : \E l \in 1..(k - 1) : s[l].test = "init" /\ s[l].route = InitSteps[j]
HooksOrdered(s) ==
  \A k \in DOMAIN s : s[k].test = "init" => \E i \in 1..Len(InitSteps) : HookedAt(s, k, i)

RtInv ==
  /\ RtTypes
  /\ HooksOrdered(hooks)
  /\ up => Ordered(compiled)
  /\ up \/ hooks # <<>> => Ordered(routes)
  /\ routes = <<>> \/ Ordered(routes)
  /\ R!ParamsAsDeclared

\* Each part of RtInv, after a step.
LEMMA RtParts ==
  ASSUME RtTypes', HooksOrdered(hooks'),
         up' => Ordered(compiled'),
         up' \/ hooks' # <<>> => Ordered(routes'),
         routes' = <<>> \/ Ordered(routes'),
         R!ParamsAsDeclared'
  PROVE  RtInv'
<1>1. HooksOrdered(hooks)'
  BY Zenon DEF HooksOrdered, HookedAt
<1>2. (up => Ordered(compiled))' /\ (up \/ hooks # <<>> => Ordered(routes))' /\ (routes = <<>> \/ Ordered(routes))'
  BY Zenon DEF Ordered
<1> QED  BY <1>1, <1>2, Zenon DEF RtInv

\* What the init handler declares is noted in order.
LEMMA NotedOrdered ==
  ASSUME NEW s \in R!Noted(InitSteps)
  PROVE  s \in Seq(RouteSteps) /\ Ordered(s)
<1> DEFINE I == {i \in DOMAIN InitSteps : InitSteps[i] # NoRoute}
<1>1. InitSteps \in Seq(RouteSteps)
  BY ResultsAssumption
<1>2. s \in R!Picked(InitSteps, I)
  BY DEF R!Noted
<1>3. I \in SUBSET (DOMAIN InitSteps)
  OBVIOUS
<1>4. PICK f \in [DOMAIN s -> I] :
           /\ s \in Seq(RouteSteps)
           /\ \A k \in DOMAIN s : s[k] = InitSteps[f[k]]
           /\ \A i \in I : \E k \in DOMAIN s : f[k] = i
           /\ \A k, l \in DOMAIN s : k < l => f[k] < f[l]
  <2> HIDE DEF I
  <2> QED  BY <1>1, <1>2, <1>3, FilterKeeps
<1>5. ASSUME NEW i \in 1..Len(InitSteps), InitSteps[i] # NoRoute
      PROVE  \E c \in DOMAIN s :
               /\ s[c] = InitSteps[i]
               /\ \A d \in 1..(c - 1) : \E j \in 1..(i - 1) : s[d] = InitSteps[j] /\ InitSteps[j] # NoRoute
  <2>1. i \in I
    BY <1>1, <1>5
  <2>2. PICK c \in DOMAIN s : f[c] = i
    BY <1>4, <2>1
  <2>3. s[c] = InitSteps[i]
    BY <1>4, <2>2
  <2>4. ASSUME NEW d \in 1..(c - 1)
        PROVE  \E j \in 1..(i - 1) : s[d] = InitSteps[j] /\ InitSteps[j] # NoRoute
    <3>1. d \in DOMAIN s /\ d < c
      BY <1>4
    <3>2. f[d] \in I /\ f[d] < i /\ s[d] = InitSteps[f[d]]
      BY <1>4, <2>2, <3>1
    <3>3. f[d] \in 1..(i - 1)
      BY <1>1, <3>2
    <3> QED  BY <3>2, <3>3
  <2> QED  BY <2>3, <2>4
<1> QED  BY <1>4, <1>5 DEF Ordered

\* Whatever is appended, what is there stays in order.
LEMMA OrderedStays ==
  ASSUME NEW s \in Seq(RouteSteps), NEW r \in Seq(RouteSteps), Ordered(s)
  PROVE  Ordered(s \o r)
<1>1. \A c \in DOMAIN s : c \in DOMAIN (s \o r) /\ (s \o r)[c] = s[c]
  OBVIOUS
<1>2. \A c \in DOMAIN s : \A d \in 1..(c - 1) : d \in DOMAIN s
  OBVIOUS
<1> DEFINE t == s \o r
<1>3. \A c \in DOMAIN s : c \in DOMAIN t /\ t[c] = s[c]
  BY <1>1
<1> HIDE DEF t
<1>4. Ordered(t)
  BY <1>2, <1>3 DEF Ordered
<1> QED  BY <1>4 DEF t

\* Hooks of test cases do not disturb those of the init handler,
LEMMA HooksStay ==
  ASSUME NEW s \in Seq(Hooked), NEW r \in Seq(Hooked), HooksOrdered(s),
         \A k \in DOMAIN r : r[k].test # "init"
  PROVE  HooksOrdered(s \o r)
<1>1. DOMAIN s = 1..Len(s) /\ Len(s) \in Nat /\ DOMAIN r = 1..Len(r) /\ Len(r) \in Nat
  OBVIOUS
<1> DEFINE t == s \o r
<1>2. \A c \in DOMAIN s : t[c] = s[c]
  OBVIOUS
<1>3. \A c \in DOMAIN t : c \in DOMAIN s \/ \E k \in DOMAIN r : t[c] = r[k]
  <2>1. \A c \in DOMAIN t : c \notin DOMAIN s => c - Len(s) \in DOMAIN r /\ t[c] = r[c - Len(s)]
    OBVIOUS
  <2> QED  BY <2>1
<1> HIDE DEF t
<1>4. ASSUME NEW k \in DOMAIN t, t[k].test = "init"
      PROVE  \E i \in 1..Len(InitSteps) : HookedAt(t, k, i)
  <2>1. k \in DOMAIN s /\ s[k].test = "init"
    BY <1>2, <1>3, <1>4
  <2>2. PICK i \in 1..Len(InitSteps) : HookedAt(s, k, i)
    BY <2>1 DEF HooksOrdered
  <2>3. \A l \in 1..(k - 1) : t[l] = s[l]
    BY <1>1, <1>2, <2>1
  <2>4. HookedAt(t, k, i)
    BY <1>2, <2>1, <2>2, <2>3 DEF HookedAt
  <2> QED  BY <2>4
<1> QED  BY <1>4 DEF HooksOrdered, t

\* nor does their removal.
LEMMA HooksLeft ==
  ASSUME NEW s \in Seq(Hooked), HooksOrdered(s), NEW u \in Tests,
         NEW r \in R!Picked(s, {i \in DOMAIN s : s[i].test # u})
  PROVE  r \in Seq(Hooked) /\ HooksOrdered(r) /\ (s = <<>> => r = <<>>)
<1> DEFINE I == {i \in DOMAIN s : s[i].test # u}
<1>1. PICK f \in [DOMAIN r -> I] :
           /\ r \in Seq(Hooked)
           /\ \A k \in DOMAIN r : r[k] = s[f[k]]
           /\ \A i \in I : \E k \in DOMAIN r : f[k] = i
           /\ \A k, l \in DOMAIN r : k < l => f[k] < f[l]
  <2>1. I \in SUBSET (DOMAIN s) /\ r \in R!Picked(s, I)
    OBVIOUS
  <2> HIDE DEF I
  <2> QED  BY <2>1, FilterKeeps
<1>2. ASSUME NEW k \in DOMAIN r, r[k].test = "init"
      PROVE  \E i \in 1..Len(InitSteps) : HookedAt(r, k, i)
  <2>1. f[k] \in DOMAIN s /\ s[f[k]].test = "init" /\ r[k] = s[f[k]]
    BY <1>1, <1>2
  <2>2. PICK i \in 1..Len(InitSteps) : HookedAt(s, f[k], i)
    BY <2>1 DEF HooksOrdered
  <2>3. ASSUME NEW j \in 1..(i - 1)
        PROVE  \E l \in 1..(k - 1) : r[l].test = "init" /\ r[l].route = InitSteps[j]
    <3>1. PICK l \in 1..(f[k] - 1) : s[l].test = "init" /\ s[l].route = InitSteps[j]
      BY <2>2 DEF HookedAt
    <3>2. l \in I /\ l < f[k]
      BY <2>1, <3>1, ResultsAssumption
    <3>3. PICK n \in DOMAIN r : f[n] = l
      BY <1>1, <3>2
    <3>4. n \in Nat \ {0} /\ k \in Nat
      BY <1>1
    <3>5. n < k
      <4>1. ~(k < n)
        BY <1>1, <3>2, <3>3, <2>1
      <4>2. n # k
        BY <3>2, <3>3, <2>1
      <4> QED  BY <3>4, <4>1, <4>2
    <3>6. r[n] = s[l]
      BY <1>1, <3>3
    <3> QED  BY <3>1, <3>4, <3>5, <3>6
  <2> QED  BY <2>1, <2>2, <2>3 DEF HookedAt
<1>3. s = <<>> => r = <<>>
  <2>1. s = <<>> => DOMAIN r = {}
    BY <1>1
  <2> QED  BY <1>1, <2>1
<1> QED  BY <1>1, <1>2, <1>3 DEF HooksOrdered

LEMMA RtStarts ==
  ASSUME R!Init
  PROVE  RtInv
  BY DEF R!Init, R!Nothing, RtInv, RtTypes, HooksOrdered, R!ParamsAsDeclared, R!Handled

\* the hooks of steps are as many as the steps
LEMMA HooksOfSteps ==
  ASSUME NEW t \in Tests \cup {"init"}, NEW steps \in Seq(RouteSteps)
  PROVE  LET hs == [i \in DOMAIN steps |-> R!Hook(t, steps[i])]
         IN  /\ hs \in Seq(Hooked) /\ Len(hs) = Len(steps)
             /\ \A i \in DOMAIN steps : hs[i].test = t /\ hs[i].route = steps[i]
<1> DEFINE hs == [i \in DOMAIN steps |-> R!Hook(t, steps[i])]
<1>1. DOMAIN steps = 1..Len(steps) /\ Len(steps) \in Nat
  OBVIOUS
<1>2. \A i \in 1..Len(steps) : R!Hook(t, steps[i]) \in Hooked
  BY DEF R!Hook, Hooked
<1>3. hs \in [1..Len(steps) -> Hooked]
  BY <1>1, <1>2
<1>4. hs \in Seq(Hooked) /\ Len(hs) = Len(steps)
  <2> HIDE DEF hs
  <2> QED  BY <1>1, <1>3
<1> QED  BY <1>4 DEF R!Hook

LEMMA RtRegistersInit ==
  ASSUME RtInv, R!RegisterInitHooks
  PROVE  RtInv'
<1> USE DEF RtInv
<1> DEFINE hs == [i \in DOMAIN InitSteps |-> R!Hook("init", InitSteps[i])]
<1>1. PICK noted \in R!Noted(InitSteps) : routes' = routes \o noted
  BY DEF R!RegisterInitHooks, R!registerHooks
<1>2. noted \in Seq(RouteSteps) /\ Ordered(noted)
  BY NotedOrdered
<1>3. /\ hs \in Seq(Hooked) /\ Len(hs) = Len(InitSteps)
      /\ \A i \in DOMAIN InitSteps : hs[i].test = "init" /\ hs[i].route = InitSteps[i]
  BY HooksOfSteps, ResultsAssumption
<1>4. hooks' = hs
  <2>1. hooks = <<>> /\ hooks' = hooks \o hs
    BY DEF R!RegisterInitHooks, R!registerHooks
  <2> HIDE DEF hs
  <2> QED  BY <1>3, <2>1
<1> HIDE DEF hs
<1>5. HooksOrdered(hs)
  <2>1. ASSUME NEW k \in DOMAIN hs PROVE HookedAt(hs, k, k) /\ k \in 1..Len(InitSteps)
    <3>1. k \in 1..Len(InitSteps) /\ DOMAIN InitSteps = 1..Len(InitSteps)
      BY <1>3, ResultsAssumption
    <3> QED  BY <1>3, <3>1 DEF HookedAt
  <2> QED  BY <2>1 DEF HooksOrdered
<1>6. routes' \in Seq(RouteSteps) /\ Ordered(routes')
  <2>1. routes \in Seq(RouteSteps)
    BY DEF RtTypes
  <2>2. CASE routes = <<>>
    <3>1. <<>> \o noted = noted
      BY <1>2
    <3> QED  BY <1>1, <1>2, <2>2, <3>1
  <2>3. CASE Ordered(routes)
    <3>1. routes \o noted \in Seq(RouteSteps) /\ Ordered(routes \o noted)
      BY <1>2, <2>1, <2>3, OrderedStays
    <3> QED  BY <1>1, <3>1
  <2> QED  BY <2>2, <2>3
<1>7. ~up' /\ UNCHANGED <<compiled, taken>>
  BY DEF R!RegisterInitHooks
<1>8. RtTypes'
  BY <1>3, <1>4, <1>6, <1>7 DEF RtTypes
<1>9. R!ParamsAsDeclared'
  BY <1>7, Zenon DEF R!ParamsAsDeclared, R!Handled, R!Wanted
<1>10. HooksOrdered(hooks')
  BY <1>4, <1>5, Zenon
<1> HIDE DEF RtInv
<1> QED  BY <1>6, <1>7, <1>8, <1>9, <1>10, RtParts, Zenon

LEMMA RtRegistersTest ==
  ASSUME RtInv, NEW t \in Tests, R!RegisterTestHooks(t)
  PROVE  RtInv'
<1> USE DEF RtInv
<1> DEFINE steps == TestSteps[t]
           hs == [i \in DOMAIN steps |-> R!Hook(t, steps[i])]
<1>0. steps \in Seq(RouteSteps) /\ t # "init"
  BY ResultsAssumption
<1> HIDE DEF steps
<1>1. PICK noted \in R!Noted(steps) : routes' = routes \o noted
  BY DEF R!RegisterTestHooks, R!registerHooks, steps
<1>2. noted \in Seq(RouteSteps)
  <2> DEFINE I == {i \in DOMAIN steps : steps[i] # NoRoute}
  <2>1. noted \in R!Picked(steps, I) /\ I \in SUBSET (DOMAIN steps)
    BY DEF R!Noted
  <2> HIDE DEF I
  <2> QED  BY <1>0, <2>1, FilterKeeps
<1>3. /\ hs \in Seq(Hooked) /\ Len(hs) = Len(steps)
      /\ \A i \in DOMAIN steps : hs[i].test = t /\ hs[i].route = steps[i]
  BY <1>0, HooksOfSteps
<1>4. hooks' = hooks \o hs
  BY DEF R!RegisterTestHooks, R!registerHooks, steps
<1> HIDE DEF hs
<1>5. \A k \in DOMAIN hs : hs[k].test # "init"
  BY <1>0, <1>3
<1>6. hooks \o hs \in Seq(Hooked) /\ HooksOrdered(hooks \o hs)
  BY <1>3, <1>5, HooksStay DEF RtTypes
<1>7. up /\ UNCHANGED <<up, compiled, taken>>
  BY DEF R!RegisterTestHooks
<1>8. routes \o noted \in Seq(RouteSteps) /\ Ordered(routes \o noted)
  BY <1>2, <1>7, OrderedStays DEF RtTypes
<1>9. RtTypes'
  BY <1>1, <1>4, <1>6, <1>7, <1>8 DEF RtTypes
<1>10. R!ParamsAsDeclared'
  BY <1>7, Zenon DEF R!ParamsAsDeclared, R!Handled, R!Wanted
<1>11. HooksOrdered(hooks') /\ Ordered(routes')
  BY <1>1, <1>4, <1>6, <1>8, Zenon
<1>12. Ordered(compiled')
  BY <1>7
<1> HIDE DEF RtInv
<1> QED  BY <1>9, <1>10, <1>11, <1>12, RtParts, Zenon

LEMMA RtClears ==
  ASSUME RtInv, NEW t \in Tests, R!clearHooks(t)
  PROVE  RtInv'
<1> USE DEF RtInv
<1>1. hooks' \in R!Picked(hooks, {i \in DOMAIN hooks : hooks[i].test # t})
  BY DEF R!clearHooks
<1>2. hooks' \in Seq(Hooked) /\ HooksOrdered(hooks') /\ (hooks = <<>> => hooks' = <<>>)
  BY <1>1, HooksLeft DEF RtTypes
<1>3. UNCHANGED <<routes, compiled, up, taken>>
  BY DEF R!clearHooks
<1>5. RtTypes'
  BY <1>2, <1>3 DEF RtTypes
<1>6. R!ParamsAsDeclared'
  BY <1>3, Zenon DEF R!ParamsAsDeclared, R!Handled, R!Wanted
<1>7. up \/ hooks # <<>> => Ordered(routes)
  OBVIOUS
<1>8. (up => Ordered(compiled)) /\ (routes = <<>> \/ Ordered(routes)) /\ HooksOrdered(hooks)
  OBVIOUS
<1> HIDE DEF RtInv
<1> QED  BY <1>2, <1>3, <1>5, <1>6, <1>7, <1>8, RtParts, Zenon

\* The adapter is constructed when the init handler's routes have been noted.
LEMMA RtCreates ==
  ASSUME RtInv, R!createServer
  PROVE  RtInv'
<1> USE DEF RtInv
<1>1. hooks # <<>> /\ up' /\ compiled' = routes /\ UNCHANGED <<routes, hooks, taken>>
  BY DEF R!createServer
<1>2. Ordered(routes)
  BY <1>1
<1>3. RtTypes'
  BY <1>1 DEF RtTypes
<1>4. R!ParamsAsDeclared'
  BY <1>1, Zenon DEF R!ParamsAsDeclared, R!Handled, R!Wanted
<1>5. HooksOrdered(hooks)
  OBVIOUS
<1> HIDE DEF RtInv
<1> QED  BY <1>1, <1>2, <1>3, <1>4, <1>5, RtParts, Zenon

LEMMA RtStops ==
  ASSUME RtInv, R!doStop
  PROVE  RtInv'
<1> USE DEF RtInv
<1>1. up /\ ~up' /\ hooks' = <<>> /\ taken' = R!Nothing /\ UNCHANGED <<routes, compiled>>
  BY DEF R!doStop
<1>2. RtTypes'
  BY <1>1 DEF RtTypes
<1>3. R!ParamsAsDeclared'
  BY <1>1 DEF R!ParamsAsDeclared, R!Handled, R!Nothing
<1>4. HooksOrdered(hooks')
  BY <1>1 DEF HooksOrdered
<1>5. Ordered(routes')
  BY <1>1
<1> HIDE DEF RtInv
<1> QED  BY <1>1, <1>2, <1>3, <1>4, <1>5, RtParts, Zenon

\* The first compiled route that fits is that of the hook, as the ones before
\* it are of hooks before that hook.
LEMMA RtHandles ==
  ASSUME RtInv, NEW q, R!handleRequest(q)
  PROVE  RtInv'
<1> USE DEF RtInv
<1> DEFINE I == {i \in DOMAIN hooks : R!isMatch(hooks[i], q)}
           k == R!FirstOf(I)
           h == hooks[k]
<1>1. /\ up /\ UNCHANGED <<routes, compiled, hooks, up>>
      /\ taken' = IF I = {} THEN R!Nothing
                  ELSE [is |-> "handled", hook |-> h, request |-> q, params |-> R!extractParams(q)]
  BY Zenon DEF R!handleRequest
<1>2. hooks \in Seq(Hooked) /\ compiled \in Seq(RouteSteps)
  BY DEF RtTypes
<1>3. ASSUME I # {}, h.test = "init", R!paramNames(h.route.path) # {}
      PROVE  R!extractParams(q) = R!ParamsOf(h.route.path, q[2])
  <2>1. I \in SUBSET Nat
    BY <1>2
  <2>2. k \in I /\ \A j \in I : k <= j
    <3> HIDE DEF I
    <3> QED  BY <1>3, <2>1, FirstIsFirst, Zenon
  <2>3. k \in DOMAIN hooks /\ R!isMatch(h, q)
    <3> HIDE DEF k
    <3> QED  BY <2>2
  <2> HIDE DEF k
  <2>4. PICK i \in 1..Len(InitSteps) : HookedAt(hooks, k, i)
    BY <1>3, <2>3 DEF HooksOrdered
  <2>5. h.route = InitSteps[i] /\ InitSteps[i] # NoRoute /\ R!Fits(InitSteps[i], q)
    BY <2>3, <2>4 DEF HookedAt, R!isMatch
  <2>6. ASSUME NEW j \in 1..(i - 1), InitSteps[j] # NoRoute
        PROVE  ~R!Fits(InitSteps[j], q)
    <3>1. PICK l \in 1..(k - 1) : hooks[l].route = InitSteps[j]
      BY <2>4 DEF HookedAt
    <3>2. l \in DOMAIN hooks /\ ~(k <= l)
      BY <1>2, <2>3
    <3>3. l \notin I
      <4> HIDE DEF I
      <4> QED  BY <2>2, <3>2
    <3>4. ~R!isMatch(hooks[l], q)
      BY <3>2, <3>3
    <3> QED  BY <2>6, <3>1, <3>4 DEF R!isMatch
  <2>7. PICK c \in DOMAIN compiled :
          /\ compiled[c] = InitSteps[i]
          /\ \A d \in 1..(c - 1) : \E j \in 1..(i - 1) : compiled[d] = InitSteps[j] /\ InitSteps[j] # NoRoute
    BY <1>1, <2>5 DEF Ordered
  <2> DEFINE J == {d \in DOMAIN compiled : R!Fits(compiled[d], q) /\ R!paramNames(compiled[d].path) # {}}
  <2>8. c \in J
    BY <1>3, <2>5, <2>7, Zenon
  <2>9. ASSUME NEW d \in J PROVE c <= d
    <3>1. d \in DOMAIN compiled /\ R!Fits(compiled[d], q)
      OBVIOUS
    <3>2. d \notin 1..(c - 1)
      BY <2>6, <2>7, <3>1
    <3> QED  BY <1>2, <3>1, <3>2
  <2>10. J \in SUBSET Nat
    BY <1>2
  <2>11. R!FirstOf(J) = c
    <3> HIDE DEF J
    <3> QED  BY <2>8, <2>9, <2>10, FirstIs
  <2>12. R!extractParams(q) = R!ParamsOf(compiled[R!FirstOf(J)].path, q[2])
    BY <2>8, Zenon DEF R!extractParams
  <2> QED  BY <2>5, <2>7, <2>11, <2>12, Zenon
<1>4. R!ParamsAsDeclared'
  <2> HIDE DEF I, h
  <2>1. CASE I = {}
    BY <1>1, <2>1 DEF R!ParamsAsDeclared, R!Handled, R!Nothing
  <2>2. CASE I # {}
    <3>1. /\ taken'.hook = h /\ taken'.request = q
          /\ taken'.params = R!extractParams(q)
      BY <1>1, <2>2
    <3>2. R!Handled' /\ h.test = "init" /\ R!paramNames(h.route.path) # {}
            => taken'.params = R!ParamsOf(h.route.path, q[2])
      BY <1>3, <2>2, <3>1
    <3> QED  BY <3>1, <3>2, Zenon DEF R!ParamsAsDeclared, R!Wanted
  <2> QED  BY <2>1, <2>2
<1>5. RtTypes'
  BY <1>1 DEF RtTypes
<1>6. up \/ hooks # <<>> => Ordered(routes)
  OBVIOUS
<1>7. (up => Ordered(compiled)) /\ (routes = <<>> \/ Ordered(routes)) /\ HooksOrdered(hooks)
  OBVIOUS
<1> HIDE DEF RtInv
<1> QED  BY <1>1, <1>4, <1>5, <1>6, <1>7, RtParts, Zenon

LEMMA RtInductive ==
  ASSUME RtInv, R!Next
  PROVE  RtInv'
<1>1. CASE R!RegisterInitHooks
  BY <1>1, RtRegistersInit
<1>2. CASE R!createServer
  BY <1>2, RtCreates
<1>3. CASE R!doStop
  BY <1>3, RtStops
<1>4. CASE \E t \in Tests : R!RegisterTestHooks(t) \/ R!clearHooks(t)
  BY <1>4, RtRegistersTest, RtClears
<1>5. CASE \E q \in Requests : R!handleRequest(q)
  BY <1>5, RtHandles
<1> QED  BY <1>1, <1>2, <1>3, <1>4, <1>5 DEF R!Next

-----------------------------------------------------------------------------
(* DataSource                                                              *)

\* a test case that failed is over; what start() and stop() await belongs to a
\* source that is not up; and a client of a source that is up lives
DsAttempts ==
  /\ pc \in [Tests -> {"idle", "ready", "busy", "waiting", "cleanup", "done"}]
  /\ verdict \in [Tests -> {"none", "passed", "failed"}]
  /\ loop \in [Tests -> {"none", "calling", "sleeping"}]
  /\ \A t \in Tests : verdict[t] = "failed" => pc[t] \in {"cleanup", "done"}
  /\ \A t \in Tests : pc[t] = "busy" => cst = "started" /\ current \in alive
  /\ \A t \in Tests : loop[t] # "none" => verdict[t] = "failed" \/ pc[t] = "busy"
  /\ lifecycle \in {"connect", "end"} => cst = "starting"
  /\ lifecycle \in {"none", "connect", "end"} \/ cst = "stopping"
  /\ cst \in {"starting", "started"} => current = 0 \/ current \in alive

\* a client that lives is the adapter's own, or was forgotten; a source that is
\* stopped has none of its own
DsClients ==
  /\ starts \in Nat
  /\ alive \subseteq Nat \ {0}
  /\ alive \subseteq abandoned \cup {current}
  /\ cst = "stopped" => current = 0

DsInv == DsClients /\ DsAttempts

LEMMA DsStarts ==
  ASSUME S!Init
  PROVE  DsInv
<1>1. DsClients
  BY DEF S!Init, S!BaseInit, DsClients
<1>2. /\ pc = [t \in Tests |-> "idle"] /\ verdict = [t \in Tests |-> "none"] /\ loop = [t \in Tests |-> "none"]
      /\ cst = "created" /\ lifecycle = "none"
  BY DEF S!Init, S!BaseInit
<1>3. DsAttempts
  BY <1>2 DEF DsAttempts
<1> QED  BY <1>1, <1>3 DEF DsInv

LEMMA DsStartStop ==
  ASSUME DsClients, S!Start \/ S!Stop
  PROVE  DsClients'
<1> USE DEF DsClients, S!Lifecycle
<1>1. CASE S!init
  <2>1. starts' = starts + 1 /\ UNCHANGED abandoned
    BY <1>1 DEF S!init
  <2>2. \/ current' = starts + 1 /\ alive' = alive \cup {starts + 1} /\ current = 0 /\ cst' = "starting"
        \/ UNCHANGED <<current, alive>> /\ cst' = "error"
    BY <1>1, Zenon DEF S!init
  <2>3. starts + 1 \in Nat \ {0}
    OBVIOUS
  <2>4. CASE current' = starts + 1 /\ alive' = alive \cup {starts + 1} /\ current = 0 /\ cst' = "starting"
    <3>1. alive' \subseteq Nat \ {0} /\ starts' \in Nat
      BY <2>1, <2>3, <2>4
    <3>2. alive \subseteq abandoned
      BY <2>4
    <3> QED  BY <2>1, <2>4, <3>1, <3>2
  <2> QED  BY <2>1, <2>2, <2>3, <2>4
<1>2. CASE S!Connected \/ S!RedisInitFails
  BY <1>2 DEF S!Connected, S!RedisInitFails
<1>3. CASE S!InitFails \/ S!EndedAfterFailure \/ S!PgEndRejects
  BY <1>3 DEF S!InitFails, S!EndedAfterFailure, S!PgEndRejects
<1>4. CASE S!dispose
  BY <1>4 DEF S!dispose
<1>5. CASE S!Disposed \/ S!DisposeRejects
  BY <1>5 DEF S!Disposed, S!DisposeRejects, S!Forgotten
<1> QED  BY <1>1, <1>2, <1>3, <1>4, <1>5 DEF S!Start, S!Stop

\* the steps of test cases and the events of clients make and release none
LEMMA DsKeeps ==
  ASSUME S!Events \/ \E t \in Tests : (S!TestStep(t) /\ UNCHANGED <<S!adapterVars, S!execVars>>) \/ S!Exec(t)
  PROVE  UNCHANGED <<cst, current, alive, abandoned, starts, lifecycle>>
<1>1. CASE S!Events
  BY <1>1 DEF S!Events, S!PoolConnects, S!PoolCloses, S!RedisReady, S!RedisCloses
<1>2. ASSUME NEW t \in Tests, S!TestStep(t), UNCHANGED <<S!adapterVars, S!execVars>>
      PROVE  UNCHANGED <<cst, current, alive, abandoned, starts, lifecycle>>
  <2>1. UNCHANGED cst
    BY <1>2 DEF S!TestStep, S!BeginTest, S!HookStep, S!StepsDone, S!ClearHooks,
                S!WaitResolved, S!WaitRejected, S!WaitTimeout
  <2> QED  BY <1>2, <2>1 DEF S!adapterVars
<1>3. ASSUME NEW t \in Tests, S!Exec(t)
      PROVE  UNCHANGED <<cst, current, alive, abandoned, starts, lifecycle>>
  <2>1. S!Unmoved
    BY <1>3 DEF S!Exec, S!executeExec, S!CallSettles, S!NextAttempt, S!withTimeout
  <2> QED  BY <2>1 DEF S!Unmoved, S!adapterVars
<1> QED  BY <1>1, <1>2, <1>3

\* start() and stop() come when no callback is waited for
LEMMA DsStartStopAttempts ==
  ASSUME DsInv, S!Start \/ S!Stop
  PROVE  DsAttempts'
<1> USE DEF DsInv, DsAttempts, S!Lifecycle
<1>1. UNCHANGED <<pc, verdict, loop>>
  BY DEF S!Start, S!Stop, S!init, S!Connected, S!RedisInitFails, S!InitFails, S!EndedAfterFailure,
         S!PgEndRejects, S!dispose, S!Disposed, S!DisposeRejects, S!StillTesting, S!testVars, S!execVars
<1>2. CASE \A t \in Tests : pc[t] # "busy"
  <2>1. (\A t \in Tests : pc[t] # "busy")' /\ (\A t \in Tests : loop[t] # "none" => verdict[t] = "failed")'
    BY <1>1, <1>2
  <2>2. /\ (lifecycle \in {"connect", "end"} => cst = "starting")'
        /\ (lifecycle \in {"none", "connect", "end"} \/ cst = "stopping")'
    BY DEF S!Start, S!Stop, S!init, S!Connected, S!RedisInitFails, S!InitFails, S!EndedAfterFailure,
           S!PgEndRejects, S!dispose, S!Disposed, S!DisposeRejects
  <2>3. (cst \in {"starting", "started"} => current = 0 \/ current \in alive)'
    <3>1. CASE S!init
      BY <3>1 DEF S!init
    <3>2. CASE S!Connected \/ S!InitFails
      BY <3>2 DEF S!Connected, S!InitFails
    <3>3. CASE S!RedisInitFails \/ S!EndedAfterFailure \/ S!PgEndRejects \/ S!Stop
      BY <3>3 DEF S!RedisInitFails, S!EndedAfterFailure, S!PgEndRejects, S!Stop, S!dispose, S!Disposed,
                  S!DisposeRejects
    <3> QED  BY <3>1, <3>2, <3>3 DEF S!Start
  <2> QED  BY <1>1, <2>1, <2>2, <2>3
<1>3. CASE S!init \/ S!dispose
  <2>1. S!Quiet
    BY <1>3 DEF S!init, S!dispose
  <2>2. \A t \in Tests : pc[t] # "busy"
    BY <2>1 DEF S!Quiet, S!Active
  <2> QED  BY <1>2, <2>2
\* awaiting, they are of a source that is not up, and no step is busy on it
<1>4. ASSUME NEW t \in Tests, pc[t] = "busy", lifecycle # "none" PROVE FALSE
  BY <1>4
<1> QED  BY <1>2, <1>3, <1>4 DEF S!Start, S!Stop, S!Connected, S!RedisInitFails, S!InitFails,
         S!EndedAfterFailure, S!PgEndRejects, S!Disposed, S!DisposeRejects

\* a test case goes on from a callback that it waited for, or fails
LEMMA DsTestAttempts ==
  ASSUME DsInv, UNCHANGED <<cst, current, alive, lifecycle>>, NEW t \in Tests,
         (S!TestStep(t) /\ UNCHANGED loop) \/ S!Exec(t)
  PROVE  DsAttempts'
<1> USE DEF DsInv, DsAttempts, S!Busy
<1>1. CASE S!TestStep(t) /\ UNCHANGED loop
  <2>1. CASE S!BeginTest(t) \/ S!HookStep(t)
    BY <1>1, <2>1 DEF S!BeginTest, S!HookStep, S!StepPasses
  <2>2. CASE S!StepsDone(t) \/ S!ClearHooks(t)
    BY <1>1, <2>2 DEF S!StepsDone, S!ClearHooks
  <2>3. CASE S!WaitResolved(t)
    BY <1>1, <2>3 DEF S!WaitResolved, S!StepPasses, S!StepFails
  <2>4. CASE S!WaitRejected(t) \/ S!WaitTimeout(t)
    BY <1>1, <2>4 DEF S!WaitRejected, S!WaitTimeout, S!StepFails
  <2> QED  BY <1>1, <2>1, <2>2, <2>3, <2>4 DEF S!TestStep
<1>2. CASE S!executeExec(t)
  BY <1>2 DEF S!executeExec, S!Executes, S!getClient, S!Calls, S!StepGoesTo, S!StepFails
<1>3. CASE S!CallSettles(t)
  BY <1>3 DEF S!CallSettles, S!LoopEnds, S!Calls, S!StepPasses, S!StepFails, S!testVars
<1>4. CASE S!NextAttempt(t)
  BY <1>4 DEF S!NextAttempt, S!Calls, S!testVars
<1>5. CASE S!withTimeout(t)
  BY <1>5 DEF S!withTimeout, S!StepFails, S!execVars
<1> QED  BY <1>1, <1>2, <1>3, <1>4, <1>5 DEF S!Exec

LEMMA DsInductive ==
  ASSUME DsInv, S!Next
  PROVE  DsInv'
<1>1. CASE S!Start \/ S!Stop
  BY <1>1, DsStartStop, DsStartStopAttempts DEF DsInv
<1>2. CASE ~(S!Start \/ S!Stop)
  <2>1. UNCHANGED <<cst, current, alive, abandoned, starts, lifecycle>>
    BY <1>2, DsKeeps DEF S!Next
  <2>2. DsClients'
    BY <2>1 DEF DsInv, DsClients
  <2>3. CASE S!Events
    <3>1. S!StillTesting
      BY <2>3, Zenon DEF S!Events, S!PoolConnects, S!PoolCloses, S!RedisReady, S!RedisCloses
    <3>2. UNCHANGED <<pc, verdict, loop>>
      BY <3>1 DEF S!StillTesting, S!testVars, S!execVars
    <3> QED  BY <2>1, <2>2, <3>2 DEF DsInv, DsAttempts
  <2>4. ASSUME NEW t \in Tests, (S!TestStep(t) /\ UNCHANGED <<S!adapterVars, S!execVars>>) \/ S!Exec(t)
        PROVE  DsAttempts'
    BY <2>1, <2>4, DsTestAttempts DEF S!execVars
  <2> QED  BY <1>2, <2>2, <2>3, <2>4 DEF S!Next, DsInv
<1> QED  BY <1>1, <1>2

-----------------------------------------------------------------------------
(* All of them                                                             *)

ResultsInv ==
  /\ part = "routes" => RtInv
  /\ part = "dataSource" => DsInv

LEMMA ResultsStart == ResultsInit => ResultsInv
  BY RtStarts, DsStarts DEF ResultsInit, ResultsInv

LEMMA ResultsInductive == ResultsInv /\ [ResultsNext]_allVars => ResultsInv'
<1> SUFFICES ASSUME ResultsInv, [ResultsNext]_allVars PROVE ResultsInv'
  OBVIOUS
<1>1. CASE RStep(R!Next)
  BY <1>1, RtInductive DEF RStep, ResultsInv
<1>2. CASE SStep(S!Next)
  BY <1>2, DsInductive DEF SStep, ResultsInv
<1>3. CASE HStep(HandlersNext)
  BY <1>3 DEF HStep, ResultsInv
<1>4. CASE UNCHANGED allVars
  <2>1. RtInv => RtInv'
    <3>1. UNCHANGED <<routes, compiled, hooks, up, taken>>
      BY <1>4 DEF allVars, routeVars
    <3>2. R!ParamsAsDeclared => R!ParamsAsDeclared'
      BY <3>1, Zenon DEF R!ParamsAsDeclared, R!Handled, R!Wanted
    <3>3. RtTypes => RtTypes'
      BY <3>1 DEF RtTypes
    <3> QED  BY <3>1, <3>2, <3>3, RtParts, Zenon DEF RtInv
  <2>2. DsInv => DsInv'
    BY <1>4 DEF allVars, sourceVars, DsInv, DsClients, DsAttempts
  <2> QED  BY <1>4, <2>1, <2>2 DEF ResultsInv, allVars
<1> QED  BY <1>1, <1>2, <1>3, <1>4 DEF ResultsNext

LEMMA ResultsInvHolds == ResultsSpec => []ResultsInv
  BY ResultsStart, ResultsInductive, PTL DEF ResultsSpec

\* The handlers of the init handler get the params of their own path, whatever
\* routes it has, whatever the test cases noted since, and in every run.
THEOREM ParamsRight == ResultsSpec => []ParamsAsDeclared
<1>1. ResultsInv => ParamsAsDeclared
  BY DEF ResultsInv, RtInv, ParamsAsDeclared
<1> QED  BY <1>1, ResultsInvHolds, PTL

\* A stopped data source holds no client, but those that a failing start of
\* Redis or a rejected close forgot: over any number of starts, whatever its
\* events and however stops and failing starts follow each other.
THEOREM SourceReleases == ResultsSpec => []ClientsReleased
<1>1. ResultsInv => ClientsReleased
  BY DEF ResultsInv, DsInv, DsClients, ClientsReleased, S!ClientsReleased
<1> QED  BY <1>1, ResultsInvHolds, PTL

\* The callback of an exec step is called only for a step that waits for it, on
\* a client that lives, or for a test case that failed: however many test cases
\* call at once, whatever their retries and deadlines.
THEOREM CallbacksAwaited == ResultsSpec => []AttemptsAwaited
<1>1. ResultsInv => AttemptsAwaited
  BY DEF ResultsInv, DsInv, DsAttempts, AttemptsAwaited, S!AttemptsAwaited, S!Busy
<1> QED  BY <1>1, ResultsInvHolds, PTL

=============================================================================
