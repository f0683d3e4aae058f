---------------------------- MODULE KernelLifecycle ----------------------------
(***************************************************************************)
(* Kernel: how an application brings up its consumers, schedulers and       *)
(* runtimes, and how shutdown() takes them down.  Each await is a place     *)
(* where a signal handler's shutdown(), a timer, or another part of the     *)
(* application runs; the lists are read and changed in between.             *)
(***************************************************************************)
EXTENDS SchedulerRuns, Sequences, FiniteSets

CONSTANTS
    Consumers, Runtimes,
    Hooks,          \* what registerShutdownHook() is given
    Closeable,      \* what has a shutdown(), close(), stop() or flush()
    NowSlot,        \* the call of runOnce() in runSchedulerNowAndSchedule()
    Shutdowns       \* bound: calls of shutdown(), one per name

Resources == Consumers \cup Schedulers \cup Runtimes \cup Hooks

ASSUME KernelAssumption ==
    /\ Hooks \subseteq Closeable
    /\ Closeable \subseteq Resources
    /\ Consumers \cap (Schedulers \cup Runtimes \cup Hooks) = {}
    /\ Schedulers \cap (Runtimes \cup Hooks) = {}
    /\ Runtimes \cap Hooks = {}
    /\ NowSlot \in Slots

VARIABLES
    consumersList,
    schedulersList,
    shutdownHooks,
    boot,         \* the run...() call the application awaits
    next,         \* position of its loop
    now,          \* runSchedulerNowAndSchedule() of each scheduler
    timers,       \* cron tasks of each scheduler
    live,         \* consumers, runtimes and hooks with something to close
    down,         \* how far each shutdown() is
    todo,         \* what its loop has still to close, last one first
    closed,       \* history: what each shutdown() closed, in order
    due,          \* history: what each shutdown() found started
    removed,      \* history: were registrations removed?
    early         \* history: schedulers that were run now before the others

lists == <<consumersList, schedulersList, shutdownHooks>>
startVars == <<boot, next, now, timers>>
downVars == <<down, todo, closed, due>>
vars == <<runVars, lists, startVars, live, downVars, removed, early>>

ToSet(s) == {s[i] : i \in DOMAIN s}

Boots == {"register", "runConsumers", "runSchedulers", "runRuntimes", "ready",
          "failed"}
Nows == {"no", "runOnce", "push", "scheduled", "rejected"}
Downs == {"none", "consumers", "schedulers", "hooks", "logger", "done",
          "rejected"}

TypeOK ==
    /\ RunsTypeOK
    /\ consumersList \in Seq(Consumers)
    /\ schedulersList \in Seq(Schedulers)
    /\ shutdownHooks \in Seq(Runtimes \cup Hooks)
    /\ boot \in Boots
    /\ next \in Nat
    /\ now \in [Schedulers -> Nows]
    /\ timers \in [Schedulers -> Nat]
    /\ live \subseteq Consumers \cup Runtimes \cup Hooks
    /\ down \in [Shutdowns -> Downs]
    /\ todo \in [Shutdowns -> Seq(Resources)]
    /\ closed \in [Shutdowns -> Seq(Resources)]
    /\ due \in [Shutdowns -> SUBSET Resources]
    /\ removed \in BOOLEAN
    /\ early \subseteq Schedulers

Init ==
    /\ RunsInit
    /\ consumersList = <<>>
    /\ schedulersList = <<>>
    /\ shutdownHooks = <<>>
    /\ boot = "register"
    /\ next = 1
    /\ now = [s \in Schedulers |-> "no"]
    /\ timers = [s \in Schedulers |-> 0]
    /\ live = {}
    /\ down = [d \in Shutdowns |-> "none"]
    /\ todo = [d \in Shutdowns |-> <<>>]
    /\ closed = [d \in Shutdowns |-> <<>>]
    /\ due = [d \in Shutdowns |-> {}]
    /\ removed = FALSE
    /\ early = {}
Put(call, value) == boot' = call /\ next' = value

(***************************************************************************)
(* Registration.  As its guides do, the application registers consumers and *)
(* schedulers before it runs them, each once; hooks it registers any time.  *)
(***************************************************************************)
RegisterConsumer(c) ==
    /\ boot = "register"
    /\ c \notin ToSet(consumersList)
    /\ consumersList' = Append(consumersList, c)
    /\ UNCHANGED <<runVars, schedulersList, shutdownHooks, startVars, live,
                   downVars, removed, early>>

RegisterScheduler(s) ==
    /\ boot = "register"
    /\ s \notin ToSet(schedulersList)
    /\ schedulersList' = Append(schedulersList, s)
    /\ UNCHANGED <<runVars, consumersList, shutdownHooks, startVars, live,
                   downVars, removed, early>>

\* The application opened something and registers how to close it.
RegisterShutdownHook(h) ==
    /\ h \notin ToSet(shutdownHooks)
    /\ shutdownHooks' = Append(shutdownHooks, h)
    /\ live' = live \cup {h}
    /\ UNCHANGED <<runVars, consumersList, schedulersList, startVars, downVars,
                   removed, early>>

\* removeConsumers() and removeSchedulers(), at any time.
Remove ==
    /\ \/ consumersList' = <<>> /\ UNCHANGED schedulersList
       \/ schedulersList' = <<>> /\ UNCHANGED consumersList
    /\ removed' = TRUE
    /\ UNCHANGED <<runVars, shutdownHooks, startVars, live, downVars, early>>

(***************************************************************************)
(* Startup: the application awaits runConsumers(), runSchedulers() and      *)
(* runRuntimes(), one after the other.                                      *)
(***************************************************************************)
RunConsumers ==
    /\ boot = "register"
    /\ Put("runConsumers", 1)
    /\ UNCHANGED <<runVars, lists, now, timers, live, downVars, removed, early>>

\* init() of the next consumer settles; a failure ends the startup.
InitConsumer ==
    /\ boot = "runConsumers"
    /\ next <= Len(consumersList)
    /\ \/ Put(boot, next + 1) /\ live' = live \cup {consumersList[next]}
       \/ Put("failed", 1) /\ UNCHANGED live
    /\ UNCHANGED <<runVars, lists, now, timers, downVars, removed, early>>

RunSchedulers ==
    /\ boot = "runConsumers"
    /\ next > Len(consumersList)
    /\ Put("runSchedulers", 1)
    /\ UNCHANGED <<runVars, lists, now, timers, live, downVars, removed, early>>

\* init() starts a cron task, unless the expression does not parse.
InitScheduler ==
    /\ boot = "runSchedulers"
    /\ next <= Len(schedulersList)
    /\ \/ /\ Put(boot, next + 1)
          /\ timers' = [timers EXCEPT ![schedulersList[next]] = @ + 1]
       \/ Put("failed", 1) /\ UNCHANGED timers
    /\ UNCHANGED <<runVars, lists, now, live, downVars, removed, early>>

RunRuntimes ==
    /\ boot = "runSchedulers"
    /\ next > Len(schedulersList)
    /\ Put("runRuntimes", 1)
    /\ UNCHANGED <<runVars, lists, now, timers, live, downVars, removed, early>>

Hooked == ToSet(shutdownHooks)
Unhooked == (live \cap Runtimes) \ Hooked

\* run() of a runtime brings it to life, and later settles.
StartRuntime(r) ==
    /\ boot = "runRuntimes"
    /\ Unhooked = {}
    /\ r \notin Hooked
    /\ live' = live \cup {r}
    /\ UNCHANGED <<runVars, lists, startVars, downVars, removed, early>>

\* Only after run() is there a hook that closes the runtime.
HookRuntime(r) ==
    /\ boot = "runRuntimes"
    /\ r \in Unhooked
    /\ \/ shutdownHooks' = Append(shutdownHooks, r) /\ UNCHANGED <<boot, next>>
       \/ Put("failed", 1) /\ UNCHANGED shutdownHooks
    /\ UNCHANGED <<runVars, consumersList, schedulersList, now, timers, live,
                   downVars, removed, early>>

Ready ==
    /\ boot = "runRuntimes"
    /\ Runtimes \subseteq Hooked
    /\ Put("ready", 1)
    /\ UNCHANGED <<runVars, lists, now, timers, live, downVars, removed, early>>

(***************************************************************************)
(* Schedulers.                                                              *)
(***************************************************************************)
\* A cron task calls runOnce(); without a permit nothing happens.
Tick(c) ==
    /\ timers[SchedulerOf(c)] > 0
    /\ c # <<SchedulerOf(c), NowSlot>>
    /\ Begin(c)
    /\ UNCHANGED <<lists, startVars, live, downVars, removed, early>>

Fail(c) ==
    /\ Report(c)
    /\ UNCHANGED <<lists, startVars, live, downVars, removed, early>>

Settle(c) ==
    /\ c # <<SchedulerOf(c), NowSlot>>
    /\ End(c)
    /\ UNCHANGED <<lists, startVars, live, downVars, removed, early>>

NowAt(s, from, to) == now[s] = from /\ now' = [now EXCEPT ![s] = to]

\* init() follows the run of runSchedulerNowAndSchedule() at once: it starts a
\* cron task, unless the expression does not parse.
InitNow(s, from) ==
    \/ NowAt(s, from, "push") /\ timers' = [timers EXCEPT ![s] = @ + 1]
    \/ NowAt(s, from, "rejected") /\ UNCHANGED timers

\* A run that is refused for want of a permit counts as run.
RunNow(s) ==
    /\ \/ /\ permits[s] = 1
          /\ NowAt(s, "no", "runOnce")
          /\ Begin(<<s, NowSlot>>)
          /\ UNCHANGED timers
       \/ permits[s] = 0 /\ InitNow(s, "no") /\ UNCHANGED runVars
    /\ early' = IF boot \in {"register", "runConsumers", "runSchedulers"}
                THEN early \cup {s} ELSE early
    /\ UNCHANGED <<lists, boot, next, live, downVars, removed>>

\* An error policy that throws rejects runOnce(), and nothing is scheduled.
RanNow(s) ==
    /\ \/ InitNow(s, "runOnce")
       \/ NowAt(s, "runOnce", "rejected") /\ UNCHANGED timers
    /\ End(<<s, NowSlot>>)
    /\ UNCHANGED <<lists, boot, next, live, downVars, removed, early>>

\* Mutant: the scheduler is not listed.
PushNothing(s) ==
    /\ NowAt(s, "push", "scheduled")
    /\ UNCHANGED <<runVars, lists, boot, next, timers, live, downVars, removed,
                   early>>

PushNow(s) ==
    /\ NowAt(s, "push", "scheduled")
    /\ schedulersList' = Append(schedulersList, s)
    /\ UNCHANGED <<runVars, consumersList, shutdownHooks, boot, next, timers,
                   live, downVars, removed, early>>

(***************************************************************************)
(* shutdown(), which nothing keeps from being called twice, or during the   *)
(* startup.                                                                 *)
(***************************************************************************)
Started ==
    (live \ (IF boot = "ready" THEN {} ELSE Unhooked))
        \cup {s \in ToSet(schedulersList) : timers[s] > 0}

Shutdown(d) ==
    /\ down[d] = "none"
    /\ down' = [down EXCEPT ![d] = "consumers"]
    /\ todo' = [todo EXCEPT ![d] = consumersList]
    /\ due' = [due EXCEPT ![d] = Started]
    /\ UNCHANGED <<runVars, lists, startVars, live, closed, removed, early>>

DropLast(s) == SubSeq(s, 1, Len(s) - 1)

\* Mutant: what was registered first is closed first.
CloseFirst(d) ==
    LET r == Head(todo[d]) IN
    /\ todo[d] # <<>>
    /\ todo' = [todo EXCEPT ![d] = Tail(@)]
    /\ closed' = [closed EXCEPT ![d] = IF r \in Closeable THEN Append(@, r) ELSE @]
    /\ live' = live \ {r}
    /\ UNCHANGED <<runVars, lists, startVars, down, due, removed, early>>

\* Mutant: what fails to close is passed over, too.
CloseSwallows(d) ==
    LET r == todo[d][Len(todo[d])] IN
    /\ todo[d] # <<>>
    /\ todo' = [todo EXCEPT ![d] = DropLast(@)]
    /\ \/ UNCHANGED <<closed, live>>
       \/ /\ r \in Closeable
          /\ closed' = [closed EXCEPT ![d] = Append(@, r)]
          /\ live' = live \ {r}
    /\ UNCHANGED <<runVars, lists, startVars, down, due, removed, early>>

\* closeCandidate() of the last one: what cannot be closed is passed over, and a
\* failure, which may leave it open, ends the shutdown.
Close(d) ==
    LET r == todo[d][Len(todo[d])] IN
    /\ todo[d] # <<>>
    /\ \/ /\ r \notin Closeable
          /\ todo' = [todo EXCEPT ![d] = DropLast(@)]
          /\ UNCHANGED <<down, closed, live, timers>>
       \/ /\ r \in Closeable
          /\ todo' = [todo EXCEPT ![d] = DropLast(@)]
          /\ closed' = [closed EXCEPT ![d] = Append(@, r)]
          /\ live' = live \ {r}
          /\ timers' = [s \in Schedulers |-> IF s = r THEN 0 ELSE timers[s]]
          /\ UNCHANGED down
       \/ /\ r \in Closeable
          /\ todo' = [todo EXCEPT ![d] = <<>>]
          /\ down' = [down EXCEPT ![d] = "rejected"]
          /\ UNCHANGED <<closed, live, timers>>
    /\ UNCHANGED <<runVars, lists, boot, next, now, due, removed, early>>

Loop(d, from, to, list) ==
    /\ down[d] = from
    /\ todo[d] = <<>>
    /\ down' = [down EXCEPT ![d] = to]
    /\ todo' = [todo EXCEPT ![d] = list]
    /\ UNCHANGED <<runVars, lists, startVars, live, closed, due, removed, early>>

CloseSchedulers(d) == Loop(d, "consumers", "schedulers", schedulersList)
CloseHooks(d) == Loop(d, "schedulers", "hooks", shutdownHooks)
CloseLogger(d) == Loop(d, "hooks", "logger", <<>>)
Finish(d) == \E to \in {"done", "rejected"} : Loop(d, "logger", to, <<>>)

Rest ==
    /\ boot \in {"ready", "failed"}
    /\ UNCHANGED vars

Next ==
    \/ \E c \in Consumers : RegisterConsumer(c)
    \/ \E s \in Schedulers : RegisterScheduler(s)
    \/ \E h \in Hooks : RegisterShutdownHook(h)
    \/ Remove
    \/ RunConsumers \/ InitConsumer \/ RunSchedulers \/ InitScheduler
    \/ RunRuntimes \/ Ready
    \/ \E r \in Runtimes : StartRuntime(r) \/ HookRuntime(r)
    \/ \E c \in Calls : Tick(c) \/ Fail(c) \/ Settle(c)
    \/ \E s \in Schedulers : RunNow(s) \/ RanNow(s) \/ PushNow(s)
    \/ \E d \in Shutdowns :
          \/ Shutdown(d) \/ Close(d)
          \/ CloseSchedulers(d) \/ CloseHooks(d) \/ CloseLogger(d) \/ Finish(d)
    \/ Rest

Spec == Init /\ [][Next]_vars

(***************************************************************************)
(* Properties.                                                              *)
(***************************************************************************)
Rank(r) == IF r \in Consumers THEN 1 ELSE IF r \in Schedulers THEN 2 ELSE 3

Position(list, r) == CHOOSE i \in DOMAIN list : list[i] = r

\* What a shutdown() closes it closes in the reverse order of the startup,
\* whatever is registered, or closed by another shutdown(), meanwhile.
ReverseOrder ==
    \A d \in Shutdowns : \A i, j \in DOMAIN closed[d] :
        i < j =>
            LET a == closed[d][i]
                b == closed[d][j]
            IN  /\ Rank(a) <= Rank(b)
                /\ {a, b} \subseteq Runtimes \cup Hooks =>
                       Position(shutdownHooks, a) > Position(shutdownHooks, b)
                /\ {a, b} \subseteq Consumers /\ ~removed =>
                       Position(consumersList, a) > Position(consumersList, b)

\* A shutdown() that resolves closed all that was started and could be closed
\* when it was called; only a runtime that was still starting may escape it.
ShutdownClosesAll ==
    \A d \in Shutdowns :
        down[d] = "done" /\ ~removed => due[d] \cap Closeable \subseteq ToSet(closed[d])

\* A cron task has an entry of its own in the list of schedulers, for shutdown()
\* to find. Only runSchedulerNowAndSchedule() makes one without, if it does not
\* wait for runSchedulers(): that makes another for the entry it added, and never
\* more than this one.
TimersListed ==
    \A s \in Schedulers :
        ~removed => timers[s] <=
            Cardinality({i \in DOMAIN schedulersList : schedulersList[i] = s})
                + (IF now[s] = "push" THEN 1 ELSE 0)
                + (IF s \in early THEN 1 ELSE 0)
===============================================================================
