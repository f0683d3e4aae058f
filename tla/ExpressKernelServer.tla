------------------------ MODULE ExpressKernelServer ------------------------
\* ExpressKernelServer: registrations, run() and close(), called in any order
\* and while others are under way. run() looks at serverInstance once, builds
\* the Express application across the awaits of its hooks, and sets
\* serverInstance when it listens. A step runs from one await to the next. A
\* server has the name of the run() that made it.
EXTENDS Naturals, FiniteSets, Sequences, SequencesExt

CONSTANTS
    Runs,         \* calls of run()
    Closes,       \* calls of close()
    Items,        \* middlewares, hooks, routes, controllers, error handlers
    KindOf,       \* what each is registered as
    Default,      \* the default error handler
    None          \* undefined

PipelineOrder ==
    <<"middlewares", "preControllerMiddlewares", "beforeControllersHooks",
      "beforeControllers", "routes", "controllers",
      "postControllerMiddlewares", "afterControllersHooks", "afterControllers",
      "beforeErrors", "errorHandlers">>

Kinds == ToSet(PipelineOrder)

ASSUME KindOfAssumption == KindOf \in [Items -> Kinds]
ASSUME DistinctAssumption == Default \notin Items /\ None \notin Runs

VARIABLES
    lists,            \* the registered items of each kind, live arrays; "routes"
                      \* is the list of the kernel
    serverInstance,   \* None or the server
    appInstance,      \* None or the run() whose application it is
    run,              \* what each run() does
    leg,              \* the part of the pipeline it builds
    hook,             \* the hook it awaits, 0 between two loops
    app,              \* what it put on its application, in order
    snapshot,         \* lists when it was called; it copies the routes and the
                      \* controllers
    socket,           \* what node has for each server
    close,            \* what each close() does
    target,           \* the server each close() closes
    replaced          \* history: how often serverInstance was set while it was set

buildVars == <<leg, hook, app, snapshot, replaced>>
closeVars == <<close, target>>
vars == <<lists, serverInstance, appInstance, run, buildVars, socket,
          closeVars>>

\* The hooks that run() awaits one by one, leg after leg.
Hooks == <<"beforeControllersHooks", "beforeControllers", "afterControllersHooks",
           "afterControllers", "beforeErrors">>

TypeOK ==
    /\ lists \in [Kinds -> Seq(Items)]
    /\ serverInstance \in Runs \cup {None}
    /\ appInstance \in Runs \cup {None}
    /\ run \in [Runs -> {"idle", "refused", "building", "rejected",
                         "listening", "resolved"}]
    /\ leg \in [Runs -> 1..Len(Hooks) + 1]
    /\ hook \in [Runs -> Nat]
    /\ app \in [Runs -> Seq(Items \cup {Default})]
    /\ snapshot \in [Runs -> [Kinds -> Seq(Items)]]
    /\ socket \in [Runs -> {"none", "error", "open", "closing", "closed"}]
    /\ close \in [Closes -> {"idle", "closing", "failing", "resolved",
                             "rejected"}]
    /\ target \in [Closes -> Runs \cup {None}]
    /\ replaced \in Nat

Init ==
    /\ lists = [k \in Kinds |-> <<>>]
    /\ serverInstance = None
    /\ appInstance = None
    /\ run = [r \in Runs |-> "idle"]
    /\ leg = [r \in Runs |-> 1]
    /\ hook = [r \in Runs |-> 0]
    /\ app = [r \in Runs |-> <<>>]
    /\ snapshot = [r \in Runs |-> lists]
    /\ socket = [r \in Runs |-> "none"]
    /\ close = [c \in Closes |-> "idle"]
    /\ target = [c \in Closes |-> None]
    /\ replaced = 0

\* The constructor's options and the register methods, before the server is up;
\* afterwards they throw. The kernel takes its routes at any time.
Register(i) ==
    /\ KindOf[i] = "routes" \/ serverInstance = None
    /\ i \notin ToSet(lists[KindOf[i]])
    /\ lists' = [lists EXCEPT ![KindOf[i]] = Append(@, i)]
    /\ UNCHANGED <<serverInstance, appInstance, run, buildVars, socket,
                   closeVars>>

\* What run() applies at once before the hooks of leg l: the live lists, or the
\* routes and controllers that were copied.
Applied(l, copied) ==
    CASE l = 1 -> lists["middlewares"] \o lists["preControllerMiddlewares"]
      [] l = 3 -> (copied["routes"] \o copied["controllers"])
                      \o lists["postControllerMiddlewares"]
      [] OTHER -> <<>>

\* Mutant: the last hook is left out.
LoopTooShort(r, l, i) ==
    IF i < Len(lists[Hooks[l]])
    THEN /\ hook' = [hook EXCEPT ![r] = i]
         /\ leg' = [leg EXCEPT ![r] = l]
    ELSE /\ hook' = [hook EXCEPT ![r] = 0]
         /\ leg' = [leg EXCEPT ![r] = l + 1]

\* The loop over the hooks of leg l takes hook i, or ends.
Loop(r, l, i) ==
    IF i <= Len(lists[Hooks[l]])
    THEN /\ hook' = [hook EXCEPT ![r] = i]
         /\ leg' = [leg EXCEPT ![r] = l]
    ELSE /\ hook' = [hook EXCEPT ![r] = 0]
         /\ leg' = [leg EXCEPT ![r] = l + 1]

RunRefused(r) ==
    /\ run[r] = "idle"
    /\ serverInstance # None
    /\ run' = [run EXCEPT ![r] = "refused"]
    /\ UNCHANGED <<lists, serverInstance, appInstance, buildVars, socket,
                   closeVars>>

Run(r) ==
    /\ run[r] = "idle"
    /\ serverInstance = None
    /\ run' = [run EXCEPT ![r] = "building"]
    /\ snapshot' = [snapshot EXCEPT ![r] = lists]
    /\ app' = [app EXCEPT ![r] = Applied(1, lists)]
    /\ Loop(r, 1, 1)
    /\ UNCHANGED <<lists, serverInstance, appInstance, replaced, socket,
                   closeVars>>

NextLeg(r) ==
    /\ run[r] = "building"
    /\ hook[r] = 0
    /\ leg[r] <= Len(Hooks)
    /\ app' = [app EXCEPT ![r] =
                  @ \o Applied(leg[r], snapshot[r])]
    /\ Loop(r, leg[r], 1)
    /\ UNCHANGED <<lists, serverInstance, appInstance, run, snapshot,
                   replaced, socket, closeVars>>

HookSettles(r) ==
    /\ run[r] = "building"
    /\ hook[r] > 0
    /\ app' = [app EXCEPT ![r] =
                  Append(@, lists[Hooks[leg[r]]][hook[r]])]
    /\ Loop(r, leg[r], hook[r] + 1)
    /\ UNCHANGED <<lists, serverInstance, appInstance, run, snapshot,
                   replaced, socket, closeVars>>

\* A hook rejects, or the setup throws: the application is dropped.
SetupFails(r) ==
    /\ run[r] = "building"
    /\ run' = [run EXCEPT ![r] = "rejected"]
    /\ leg' = [leg EXCEPT ![r] = 1]
    /\ hook' = [hook EXCEPT ![r] = 0]
    /\ app' = [app EXCEPT ![r] = <<>>]
    /\ UNCHANGED <<lists, serverInstance, appInstance, snapshot, replaced,
                   socket, closeVars>>

ErrorHandlers ==
    IF lists["errorHandlers"] = <<>> THEN <<Default>> ELSE lists["errorHandlers"]

AllApplied(r) ==
    /\ run[r] = "building"
    /\ hook[r] = 0
    /\ leg[r] = Len(Hooks) + 1

\* node binds the port, or finds it taken.
Listen(r, bound) ==
    /\ AllApplied(r)
    /\ app' = [app EXCEPT ![r] = @ \o ErrorHandlers]
    /\ appInstance' = r
    /\ serverInstance' = r
    /\ socket' = [socket EXCEPT ![r] = IF bound THEN "open" ELSE "error"]
    /\ run' = [run EXCEPT ![r] = "listening"]
    /\ replaced' = IF serverInstance = None THEN replaced ELSE replaced + 1
    /\ UNCHANGED <<lists, leg, hook, snapshot, closeVars>>

\* listen() throws, of a port that is none: appInstance is set already.
ListenThrows(r) ==
    /\ AllApplied(r)
    /\ app' = [app EXCEPT ![r] = @ \o ErrorHandlers]
    /\ appInstance' = r
    /\ run' = [run EXCEPT ![r] = "rejected"]
    /\ UNCHANGED <<lists, serverInstance, leg, hook, snapshot, replaced, socket,
                   closeVars>>

\* Express calls the callback of listen() for "listening" and for "error"; a
\* server that was closed before emits neither.
Listening(r) ==
    /\ run[r] = "listening"
    /\ socket[r] \in {"open", "error"}
    /\ run' = [run EXCEPT ![r] = "resolved"]
    /\ UNCHANGED <<lists, serverInstance, appInstance, buildVars, socket,
                   closeVars>>

CloseNothing(c) ==
    /\ close[c] = "idle"
    /\ serverInstance = None
    /\ close' = [close EXCEPT ![c] = "resolved"]
    /\ UNCHANGED <<lists, serverInstance, appInstance, run, buildVars,
                   socket, target>>

\* node: close() of a server that does not listen ends with an error.
Close(c) ==
    /\ close[c] = "idle"
    /\ serverInstance # None
    /\ target' = [target EXCEPT ![c] = serverInstance]
    /\ close' = [close EXCEPT ![c] =
                    IF socket[serverInstance] = "open" THEN "closing" ELSE "failing"]
    /\ socket' = [socket EXCEPT ![serverInstance] = IF @ = "open" THEN "closing" ELSE @]
    /\ UNCHANGED <<lists, serverInstance, appInstance, run, buildVars>>

Waiting(s, how) == {c \in Closes : target[c] = s /\ close[c] = how}

\* Mutant: the fields are left as they were.
ClosedKeepsFields(s) ==
    /\ Waiting(s, "closing") \cup Waiting(s, "failing") # {}
    /\ close' = [c \in Closes |->
                    IF c \in Waiting(s, "closing") THEN "resolved"
                    ELSE IF c \in Waiting(s, "failing") THEN "rejected"
                    ELSE close[c]]
    /\ socket' = [socket EXCEPT ![s] = IF @ = "closing" THEN "closed" ELSE @]
    /\ UNCHANGED <<serverInstance, appInstance, lists, run, buildVars, target>>

\* Mutant: an error of server.close() goes unanswered.
ClosedForgetsErrors(s) ==
    /\ Waiting(s, "closing") # {}
    /\ close' = [c \in Closes |->
                    IF c \in Waiting(s, "closing") THEN "resolved" ELSE close[c]]
    /\ socket' = [socket EXCEPT ![s] = "closed"]
    /\ serverInstance' = None
    /\ appInstance' = None
    /\ UNCHANGED <<lists, run, buildVars, target>>

\* node emits "close" once the connections of s have ended, and every close()
\* of s gets its answer. The one that closed it resets the fields.
Closed(s) ==
    /\ Waiting(s, "closing") \cup Waiting(s, "failing") # {}
    /\ close' = [c \in Closes |->
                    IF c \in Waiting(s, "closing") THEN "resolved"
                    ELSE IF c \in Waiting(s, "failing") THEN "rejected"
                    ELSE close[c]]
    /\ socket' = [socket EXCEPT ![s] = IF @ = "closing" THEN "closed" ELSE @]
    /\ IF Waiting(s, "closing") # {}
       THEN serverInstance' = None /\ appInstance' = None
       ELSE UNCHANGED <<serverInstance, appInstance>>
    /\ UNCHANGED <<lists, run, buildVars, target>>

RunStep(r) ==
    \/ NextLeg(r)
    \/ HookSettles(r)
    \/ SetupFails(r)
    \/ \E bound \in BOOLEAN : Listen(r, bound)
    \/ ListenThrows(r)
    \/ Listening(r)

Next ==
    \/ \E i \in Items : Register(i)
    \/ \E r \in Runs : Run(r) \/ RunRefused(r) \/ RunStep(r) \/ Closed(r)
    \/ \E c \in Closes : CloseNothing(c) \/ Close(c)

\* The event loop goes on with some promise that can settle, and connections end.
Fairness == WF_vars(\E r \in Runs : RunStep(r) \/ Closed(r))

Spec == Init /\ [][Next]_vars /\ Fairness
-----------------------------------------------------------------------------
Rank(i) == IF i = Default THEN Len(PipelineOrder)
           ELSE CHOOSE n \in DOMAIN PipelineOrder : PipelineOrder[n] = KindOf[i]

Before(i, j) == \/ Rank(i) < Rank(j)
                \/ /\ Rank(i) = Rank(j)
                   /\ \E m, n \in DOMAIN lists[KindOf[i]] :
                         /\ m < n
                         /\ lists[KindOf[i]][m] = i
                         /\ lists[KindOf[i]][n] = j

\* Whatever is registered during its hooks, a server that listens has every item
\* registered before its run() once, at the documented place of its kind and
\* there in the order of registration.
PipelineInOrder ==
    \A r \in Runs : socket[r] = "open" =>
        /\ \A m, n \in DOMAIN app[r] : m < n => Before(app[r][m], app[r][n])
        /\ \A k \in Kinds : ToSet(snapshot[r][k]) \subseteq ToSet(app[r])

\* When close() resolves the server can be run again: the field of the server is
\* empty, and that of the application holds at most one that never came up. Of
\* the servers no more are up than were replaced in the field by another: each
\* run() that overlapped costs one, and nothing else does.
ClosedIsDown ==
    [][\A c \in Closes : close[c] # "resolved" /\ close'[c] = "resolved" =>
          /\ serverInstance' = None
          /\ appInstance' # None => run'[appInstance'] = "rejected"
          /\ Cardinality({r \in Runs : socket'[r] = "open"}) <= replaced']_vars

\* The calls that were made settle, close() once the connections have ended;
\* only a run() whose server is closed before it could say that it listens
\* never does.
CallsSettle ==
    <>[](/\ \A r \in Runs :
              \/ run[r] \in {"idle", "refused", "rejected", "resolved"}
              \/ run[r] = "listening" /\ socket[r] = "closed"
         /\ \A c \in Closes : close[c] \in {"idle", "resolved", "rejected"})
=============================================================================
