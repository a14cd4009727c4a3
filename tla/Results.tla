------------------------------- MODULE Results -------------------------------
(***************************************************************************)
(* What handlers are given and what becomes of their results: the handlers *)
(* of a step, for every component, the routes of an HTTP Server, and the   *)
(* DataSource component, one per behaviour.                                *)
(***************************************************************************)
EXTENDS Handlers, Integers

CONSTANTS
  Parts,                         \* those to be looked at
  Second,                        \* messages that come only to chains of one handler
  Tests, Programs, Failing,
  Kinds, MaxStarts,              \* of DataSource
  Names, NoRoute, InitSteps, TestSteps, Requests, MaxRuns   \* of the HTTP Server

\* What an onRequest step declares.
RouteSteps == [method : STRING, path : Seq(STRING)] \cup {NoRoute}

ASSUME ResultsAssumption ==
  /\ \A p \in Programs : DOMAIN p = Tests
  /\ InitSteps \in Seq(RouteSteps)
  /\ TestSteps \in [Tests -> Seq(RouteSteps)]
  /\ "init" \notin Tests

VARIABLES
  part,
  cst, program, hooks, resolved, rejected, pc, at, verdict,
  kind, current, connected, alive, abandoned, starts, lifecycle, loop, left, late,
  routes, compiled, up, pending, executing, taken, runs

sourceVars  == <<cst, program, resolved, rejected, pc, at, verdict,
                 kind, current, connected, alive, abandoned, starts, lifecycle, loop, left, late>>
routeVars   == <<routes, compiled, up, pending, executing, taken, runs>>
allVars     == <<part, vars, sourceVars, routeVars, hooks>>

HandlersNext == Next /\ (Len(chain) > 1 => \A m \in Second : run'[m] = run[m])

S == INSTANCE DataSource WITH Parallel <- TRUE
R == INSTANCE HttpRoutes

-----------------------------------------------------------------------------

Absent(v) == v = "absent"
NoHandlers == /\ component = "DataSource" /\ step = "exec" /\ isProxy = FALSE /\ chain = <<>> /\ schemas = {}
              /\ hook = "open" /\ run = [m \in Messages |-> Idle]
              /\ assertions = <<>> /\ out = {} /\ tracked = {}
NoSource   == /\ Absent(cst) /\ Absent(program) /\ Absent(resolved) /\ Absent(rejected)
              /\ Absent(pc) /\ Absent(at) /\ Absent(verdict) /\ Absent(kind) /\ Absent(current)
              /\ Absent(connected) /\ Absent(alive) /\ Absent(abandoned) /\ Absent(starts)
              /\ Absent(lifecycle) /\ Absent(loop) /\ Absent(left) /\ Absent(late)
NoRoutes   == /\ Absent(routes) /\ Absent(compiled) /\ Absent(up) /\ Absent(pending)
              /\ Absent(executing) /\ Absent(taken) /\ Absent(runs)

ResultsInit ==
  /\ part \in Parts
  /\ \/ part = "handlers" /\ Init /\ NoSource /\ NoRoutes /\ Absent(hooks)
     \/ part = "dataSource" /\ S!Init /\ NoHandlers /\ NoRoutes
     \/ part = "routes" /\ R!Init /\ NoHandlers /\ NoSource

HStep(A) == part = "handlers" /\ A /\ UNCHANGED <<part, sourceVars, routeVars, hooks>>
SStep(A) == part = "dataSource" /\ A /\ UNCHANGED <<part, vars, routeVars>>
RStep(A) == part = "routes" /\ A /\ UNCHANGED <<part, vars, sourceVars>>

ResultsNext == HStep(HandlersNext) \/ SStep(S!Next) \/ RStep(R!Next)

ResultsSpec == ResultsInit /\ [][ResultsNext]_allVars

-----------------------------------------------------------------------------

(* Besides those of Handlers:                                              *)

\* A handler of the init handler gets the params of its own path, in every run
\* and whatever routes the test cases noted.
ParamsAsDeclared == part = "routes" => R!ParamsAsDeclared

\* A stopped data source has released its native clients.
ClientsReleased == part = "dataSource" => S!ClientsReleased

\* A callback of an exec step runs, or is to run again, while its step waits for
\* it and the client that it was given lives, or for a test case that failed.
AttemptsAwaited == part = "dataSource" => S!AttemptsAwaited

-----------------------------------------------------------------------------
(* What the code does not promise; no passing run checks it.               *)

\* "params are always populated by the adapter": not for the handlers of a test
\* case, whose routes come after the adapter compiled them.
ParamsPopulated == part = "routes" => R!ParamsPopulated

NoLateAttempt      == part = "dataSource" => S!NoLateAttempt
NothingAbandoned   == part = "dataSource" => S!NothingAbandoned
=============================================================================
