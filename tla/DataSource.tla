----------------------------- MODULE DataSource -----------------------------
(***************************************************************************)
(* The DataSource component with the adapter of PostgreSQL, MongoDB,       *)
(* ClickHouse or Redis: start and stop, which make and release a native    *)
(* client, and exec steps, whose callback gets that client, with their     *)
(* retries and deadlines.  The time of runWithRetry is in SyncClient.tla;  *)
(* here it is a number of attempts.  The handlers of a result are in       *)
(* Handlers.tla.                                                           *)
(***************************************************************************)
EXTENDS ComponentHooks

CONSTANTS Kinds, MaxStarts

VARIABLES
  kind,       \* "pg", "mongo", "clickhouse", "redis"
  current,    \* the client of the adapter: the number of the start that made it, or 0
  connected,  \* the adapter's flag
  alive,      \* clients that hold sockets, or timers to connect again
  abandoned,  \* clients a failing init() or dispose() forgot
  starts,
  lifecycle,  \* what start() or stop() awaits: "none", "connect", "end", "close"
  loop,       \* per test case, its attempts: "none", "calling", "sleeping"
  left,       \* how many attempts may follow
  late        \* test cases with an attempt that began after their step was over

adapterVars == <<kind, current, connected, alive, abandoned, starts, lifecycle>>
execVars    == <<loop, left, late>>
vars        == <<baseVars, adapterVars, execVars>>

\* the step of DataSourceStepBuilder; retries is 0 without .retry()
exec(retries, timeout) ==
  [type |-> "exec", mode |-> "action", pending |-> FALSE, strict |-> FALSE,
   retries |-> retries, timeout |-> timeout]

TypeOK ==
  /\ BaseTypeOK
  /\ kind \in Kinds /\ connected \in BOOLEAN
  /\ current \in 0..starts /\ alive \subseteq 1..starts /\ abandoned \subseteq alive
  /\ starts \in 0..MaxStarts
  /\ lifecycle \in {"none", "connect", "end", "close"}
  /\ loop \in [Tests -> {"none", "calling", "sleeping"}]
  /\ late \subseteq Tests

Init ==
  /\ BaseInit
  /\ kind \in Kinds
  /\ current = 0 /\ connected = FALSE /\ alive = {} /\ abandoned = {} /\ starts = 0
  /\ lifecycle = "none"
  /\ loop = [t \in Tests |-> "none"] /\ left = [t \in Tests |-> 0] /\ late = {}

Lifecycle(state, awaits) == cst' = state /\ lifecycle' = awaits
StillTesting == UNCHANGED <<program, hookVars, testVars, execVars, kind>>

-----------------------------------------------------------------------------
(* start() and stop()                                                      *)

\* the client is made, then asked to connect
init ==
  /\ cst \in {"created", "stopped"} /\ starts < MaxStarts /\ Quiet
  /\ starts' = starts + 1
  /\ IF current = 0
       THEN /\ current' = starts + 1 /\ alive' = alive \cup {starts + 1}
            /\ Lifecycle("starting", "connect")
       ELSE UNCHANGED <<current, alive>> /\ Lifecycle("error", "none")
  /\ UNCHANGED <<connected, abandoned>> /\ StillTesting

\* connect(), ping(), the first client of the pool
Connected ==
  /\ lifecycle = "connect"
  /\ connected' = TRUE
  /\ Lifecycle("started", "none")
  /\ UNCHANGED <<current, alive, abandoned, starts>> /\ StillTesting

\* Redis only forgets its client
RedisInitFails ==
  /\ lifecycle = "connect" /\ Failing /\ kind = "redis"
  /\ current' = 0
  /\ abandoned' = abandoned \cup {current}
  /\ Lifecycle("error", "none")
  /\ UNCHANGED <<connected, alive, starts>> /\ StillTesting

\* the others end theirs before init() throws
InitFails ==
  /\ lifecycle = "connect" /\ Failing /\ kind # "redis"
  /\ Lifecycle(cst, "end")
  /\ UNCHANGED <<current, connected, alive, abandoned, starts>> /\ StillTesting

ForgottenAfterFailure ==
  /\ lifecycle = "end"
  /\ current' = 0
  /\ Lifecycle("error", "none")
  /\ UNCHANGED <<alive, connected, abandoned, starts>> /\ StillTesting

EndedAfterFailure ==
  /\ lifecycle = "end"
  /\ alive' = alive \ {current} /\ current' = 0
  /\ Lifecycle("error", "none")
  /\ UNCHANGED <<connected, abandoned, starts>> /\ StillTesting

\* pool.end() rejects: its error replaces the other one and the pool is kept
PgEndRejects ==
  /\ lifecycle = "end" /\ Failing /\ kind = "pg"
  /\ Lifecycle("error", "none")
  /\ UNCHANGED <<current, connected, alive, abandoned, starts>> /\ StillTesting

\* stop() comes when no test case executes
dispose ==
  /\ cst \in {"started", "error"} /\ lifecycle = "none" /\ Quiet
  /\ IF current = 0 THEN Lifecycle("stopped", "none") ELSE Lifecycle("stopping", "close")
  /\ UNCHANGED <<current, connected, alive, abandoned, starts>> /\ StillTesting

Forgotten == current' = 0 /\ connected' = FALSE

\* a quit() that fails is made good by disconnect()
Disposed ==
  /\ lifecycle = "close"
  /\ alive' = alive \ {current} /\ Forgotten
  /\ Lifecycle("stopped", "none")
  /\ UNCHANGED <<abandoned, starts>> /\ StillTesting

DisposeRejects ==
  /\ lifecycle = "close" /\ Failing /\ kind # "redis"
  /\ abandoned' = abandoned \cup {current} /\ Forgotten
  /\ Lifecycle("error", "none")
  /\ UNCHANGED <<alive, starts>> /\ StillTesting

-----------------------------------------------------------------------------
(* Events of the native clients                                            *)

\* pg: a new connection of the pool
PoolConnects ==
  /\ kind = "pg" /\ alive # {} /\ ~connected
  /\ connected' = TRUE
  /\ UNCHANGED <<cst, current, alive, abandoned, starts, lifecycle>> /\ StillTesting

\* mongo: a server left, or the client closed; nothing sets the flag again
PoolCloses ==
  /\ kind = "mongo" /\ alive # {} /\ connected
  /\ connected' = FALSE
  /\ UNCHANGED <<cst, current, alive, abandoned, starts, lifecycle>> /\ StillTesting

\* redis: the connection is lost and made again, as long as the client lives
RedisReady ==
  /\ kind = "redis" /\ alive # {} /\ ~connected
  /\ connected' = TRUE
  /\ UNCHANGED <<cst, current, alive, abandoned, starts, lifecycle>> /\ StillTesting

RedisCloses ==
  /\ kind = "redis" /\ alive # {} /\ connected
  /\ connected' = FALSE
  /\ UNCHANGED <<cst, current, alive, abandoned, starts, lifecycle>> /\ StillTesting

-----------------------------------------------------------------------------
(* exec                                                                    *)

Calls(t, how) == loop' = [loop EXCEPT ![t] = how]
Busy(t)       == pc[t] = "busy"
getClient     == cst = "started" /\ current # 0 /\ connected
Unmoved       == UNCHANGED <<cst, program, hookVars, adapterVars>>

executeExec(t) ==
  /\ Executes(t, "exec")
  /\ IF getClient
       THEN Calls(t, "calling") /\ left' = [left EXCEPT ![t] = Step(t).retries] /\ StepGoesTo(t, "busy")
       ELSE StepFails(t) /\ UNCHANGED <<loop, left>>
  /\ UNCHANGED late /\ Unmoved

\* the loop is over; handlers may fail the step, unless its deadline did
LoopEnds(t) ==
  /\ Calls(t, "none")
  /\ IF Busy(t) THEN StepPasses(t) \/ (Failing /\ StepFails(t)) ELSE UNCHANGED testVars
  /\ UNCHANGED left

\* the callback settled: with its last result, or one the predicate retries
CallSettles(t) ==
  /\ loop[t] = "calling"
  /\ \/ LoopEnds(t)
     \/ left[t] > 0 /\ Calls(t, "sleeping") /\ UNCHANGED <<left, testVars>>
  /\ UNCHANGED late /\ Unmoved

\* the interval is over: again, whether or not the step still waits
NextAttempt(t) ==
  /\ loop[t] = "sleeping"
  /\ Calls(t, "calling")
  /\ left' = [left EXCEPT ![t] = @ - 1]
  /\ late' = IF Busy(t) THEN late ELSE late \cup {t}
  /\ UNCHANGED testVars /\ Unmoved

\* fault: the deadline wins the race with a result of its own, undefined
withTimeoutResolves(t) ==
  /\ Busy(t) /\ Step(t).timeout
  /\ StepPasses(t)
  /\ UNCHANGED execVars /\ Unmoved

\* withTimeout rejects; the loop underneath is not told
withTimeout(t) ==
  /\ Busy(t) /\ Step(t).timeout
  /\ StepFails(t)
  /\ UNCHANGED execVars /\ Unmoved

-----------------------------------------------------------------------------

Start  == init \/ Connected \/ RedisInitFails \/ InitFails \/ EndedAfterFailure \/ PgEndRejects
Stop   == dispose \/ Disposed \/ DisposeRejects
Events == PoolConnects \/ PoolCloses \/ RedisReady \/ RedisCloses
Exec(t) == executeExec(t) \/ CallSettles(t) \/ NextAttempt(t) \/ withTimeout(t)

Next ==
  \/ Start \/ Stop \/ Events
  \/ \E t \in Tests : (TestStep(t) /\ UNCHANGED <<adapterVars, execVars>>) \/ Exec(t)

-----------------------------------------------------------------------------
(* Properties                                                              *)

\* A stopped data source has released every client it made, but those that
\* an init() of Redis or a rejected close forgot.
ClientsReleased == cst = "stopped" => alive \subseteq abandoned

\* No attempt begins for a step that is over; not so when its deadline comes
\* before the end of its retries.
NoLateAttempt == late = {}

\* No client is forgotten: not so when an init() of Redis fails, or a close.
NothingAbandoned == abandoned = {}

\* Whose callback is not settled, or is to be called again, is a step that waits
\* for it, on a source that is up and whose client was not ended meanwhile; or
\* its test case failed.  A test case that passed leaves no attempt behind that
\* would meet a stopped source or the next start's client.
AttemptsAwaited ==
  \A t \in Tests : loop[t] # "none" =>
    verdict[t] = "failed" \/ (Busy(t) /\ cst = "started" /\ current \in alive)
=============================================================================
