----------------------------- MODULE HttpRoutes -----------------------------
(***************************************************************************)
(* The routes of an HTTP Server: HttpProtocol notes the method and path of *)
(* each hook as the hook is registered, HttpServerAdapter compiles what is *)
(* noted when it is constructed, and takes the params of a request from    *)
(* the compiled routes, whichever hook then handles it.  runInit registers *)
(* the hooks of the init handler before the server starts; those of a test *)
(* case are registered when it is executed.                                *)
(*                                                                         *)
(* A path is a sequence of segments.  How hooks are resolved is in         *)
(* SyncServer.tla, what their handlers do in Handlers.tla.                 *)
(***************************************************************************)
EXTENDS Naturals, Sequences, FiniteSets

CONSTANTS
  Names,       \* the segments {name} of a pattern
  InitSteps,   \* the routes of the init handler's onRequest steps, in order
  Tests,
  TestSteps,   \* TestSteps[t]: those of a test case; a step may have no route
  NoRoute,
  Requests,    \* the <<method, path>> that clients send
  MaxRuns

VARIABLES
  routes,      \* of the protocol
  compiled,    \* compiledRoutes of the adapter
  hooks,       \* of the component
  up,
  pending,     \* test cases that have not been executed in this run
  executing,   \* the ones that are
  taken,       \* what the last request came to
  runs

vars == <<routes, compiled, hooks, up, pending, executing, taken, runs>>

-----------------------------------------------------------------------------

Nothing == [is |-> "none"]
Hook(t, r) == [test |-> t, route |-> r]

Init ==
  /\ routes = <<>> /\ compiled = <<>> /\ hooks = <<>>
  /\ up = FALSE
  /\ pending = {} /\ executing = {}
  /\ taken = Nothing
  /\ runs = 0

\* what a filter leaves of a sequence: the places I, in their order
Picked(s, I) ==
  {[k \in 1..Cardinality(I) |-> s[f[k]]] :
     f \in {g \in [1..Cardinality(I) -> I] : /\ \A i \in I : \E k \in DOMAIN g : g[k] = i
                                             /\ \A k, l \in DOMAIN g : k < l => g[k] < g[l]}}

\* createMessageTypeMatcher: without a method and a path nothing is noted
Noted(steps) == Picked(steps, {i \in DOMAIN steps : steps[i] # NoRoute})

registerHooks(t, steps) ==
  /\ hooks' = hooks \o [i \in DOMAIN steps |-> Hook(t, steps[i])]
  /\ \E noted \in Noted(steps) : routes' = routes \o noted

\* the regular expression of a pattern: a {name} matches any one segment
compilePath(pattern, path) ==
  Len(pattern) = Len(path) /\ \A i \in DOMAIN path : pattern[i] \in Names \/ pattern[i] = path[i]

paramNames(pattern) == {n \in Names : \E i \in DOMAIN pattern : pattern[i] = n}
ParamsOf(pattern, path) ==
  [n \in paramNames(pattern) |-> path[CHOOSE i \in DOMAIN pattern : pattern[i] = n]]

Fits(r, q) == r.method = q[1] /\ compilePath(r.path, q[2])

Undefined == [n \in {} |-> n]
FirstOf(I) == CHOOSE i \in I : \A j \in I : i <= j

\* the first compiled route that fits and has names
extractParams(q) ==
  LET I == {i \in DOMAIN compiled : Fits(compiled[i], q) /\ paramNames(compiled[i].path) # {}}
  IN  IF I = {} THEN Undefined ELSE ParamsOf(compiled[FirstOf(I)].path, q[2])

\* createHookMatcher: a step without a route waits for a message type, and a
\* request's is its method and path
isMatch(h, q) == h.route # NoRoute /\ Fits(h.route, q)

-----------------------------------------------------------------------------

\* runInit: the hooks of the init handler, then the server
RegisterInitHooks ==
  /\ ~up /\ hooks = <<>> /\ runs < MaxRuns
  /\ registerHooks("init", InitSteps)
  /\ runs' = runs + 1
  /\ UNCHANGED <<compiled, up, pending, executing, taken>>

createServerFirst ==
  /\ ~up /\ hooks # <<>>
  /\ up' = TRUE
  /\ compiled' = SubSeq(routes, 1, Len(routes) - Len(InitSteps))
  /\ pending' = Tests
  /\ UNCHANGED <<routes, hooks, executing, taken, runs>>

createServer ==
  /\ ~up /\ hooks # <<>>
  /\ up' = TRUE
  /\ compiled' = routes
  /\ pending' = Tests
  /\ UNCHANGED <<routes, hooks, executing, taken, runs>>

\* Phase 1 of a test case
RegisterTestHooks(t) ==
  /\ up /\ t \in pending
  /\ registerHooks(t, TestSteps[t])
  /\ pending' = pending \ {t}
  /\ executing' = executing \cup {t}
  /\ UNCHANGED <<compiled, up, taken, runs>>

\* the first hook that matches handles the request; none is answered with 404
handleRequest(q) ==
  /\ up
  /\ LET I == {i \in DOMAIN hooks : isMatch(hooks[i], q)}
     IN  taken' = IF I = {} THEN Nothing
                  ELSE [is |-> "handled", hook |-> hooks[FirstOf(I)], request |-> q, params |-> extractParams(q)]
  /\ UNCHANGED <<routes, compiled, hooks, up, pending, executing, runs>>

\* Phase 3; the protocol keeps the routes
clearHooks(t) ==
  /\ t \in executing
  /\ hooks' \in Picked(hooks, {i \in DOMAIN hooks : hooks[i].test # t})
  /\ executing' = executing \ {t}
  /\ UNCHANGED <<routes, compiled, up, pending, taken, runs>>

doStop ==
  /\ up /\ pending = {} /\ executing = {}
  /\ up' = FALSE
  /\ hooks' = <<>>
  /\ taken' = Nothing
  /\ UNCHANGED <<routes, compiled, pending, executing, runs>>

Next ==
  \/ RegisterInitHooks \/ createServer \/ doStop
  \/ \E t \in Tests : RegisterTestHooks(t) \/ clearHooks(t)
  \/ \E q \in Requests : handleRequest(q)

Spec == Init /\ [][Next]_vars

-----------------------------------------------------------------------------
(* Properties                                                              *)

Handled  == taken.is = "handled"
Wanted   == ParamsOf(taken.hook.route.path, taken.request[2])

\* A handler of the init handler gets the params of its own path, in every run
\* and whatever routes test cases have noted since.
ParamsAsDeclared ==
  Handled /\ taken.hook.test = "init" /\ paramNames(taken.hook.route.path) # {} => taken.params = Wanted

\* Every handler does: not so for those of a test case, whose routes are noted
\* when the adapter has been constructed.
ParamsPopulated ==
  Handled /\ paramNames(taken.hook.route.path) # {} => taken.params = Wanted
=============================================================================
