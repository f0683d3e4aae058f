-------------------------- MODULE KernelLifecycleProofs --------------------------
\* Proofs about the kernel for any resources, calls of runOnce() and calls of
\* shutdown(): the semaphore of a scheduler, what shutdown() closes and in which
\* order, and the cron tasks it can find.
EXTENDS KernelLifecycle, FiniteSetTheorems, SequenceTheorems, TLAPS

(***************************************************************************)
(* The semaphore: whoever calls runOnce(), a scheduler has one permit, or   *)
(* one run that holds it.                                                   *)
(***************************************************************************)
\* The permit and the call under way: there is always one of the two.
OnePermit ==
    \A c \in Calls : runOnce[c] # "idle" => permits[SchedulerOf(c)] = 0

RunsInv == RunsTypeOK /\ JobNeverOverlaps /\ PermitAccounted /\ OnePermit

\* The schedulers of calls, and the call of runSchedulerNowAndSchedule().
LEMMA CallsForm ==
    /\ \A c \in Calls : SchedulerOf(c) \in Schedulers
    /\ \A s \in Schedulers : <<s, NowSlot>> \in Calls /\ SchedulerOf(<<s, NowSlot>>) = s
  BY KernelAssumption DEF Calls, SchedulerOf

LEMMA InitRuns == Init => RunsInv
<1> SUFFICES ASSUME Init PROVE RunsInv
  OBVIOUS
<1>1. RunsTypeOK
  BY DEF Init, RunsInit, RunsTypeOK
<1> QED
  BY <1>1, CallsForm DEF Init, RunsInit, RunsInv, JobNeverOverlaps, PermitAccounted,
     OnePermit

LEMMA BeginRunsInv ==
  ASSUME RunsInv, NEW c \in Calls, Begin(c)
  PROVE  RunsInv'
<1> USE CallsForm DEF RunsInv, Begin
<1>1. RunsTypeOK'
  BY DEF RunsTypeOK
<1>2. \A d \in Calls : SchedulerOf(d) = SchedulerOf(c) => runOnce[d] = "idle"
  BY DEF OnePermit, RunsTypeOK
<1>3. JobNeverOverlaps'
  BY <1>2 DEF JobNeverOverlaps, RunsTypeOK
<1>4. PermitAccounted'
  BY DEF PermitAccounted, RunsTypeOK
<1>5. OnePermit'
  BY DEF OnePermit, RunsTypeOK
<1> QED
  BY <1>1, <1>3, <1>4, <1>5

LEMMA ReportRunsInv ==
  ASSUME RunsInv, NEW c \in Calls, Report(c)
  PROVE  RunsInv'
  BY CallsForm DEF RunsInv, Report, RunsTypeOK, JobNeverOverlaps, PermitAccounted, OnePermit

LEMMA EndRunsInv ==
  ASSUME RunsInv, NEW c \in Calls, End(c)
  PROVE  RunsInv'
<1> USE CallsForm DEF RunsInv, End
<1>1. permits[SchedulerOf(c)] = 0
  BY DEF OnePermit
<1>2. RunsTypeOK'
  BY <1>1 DEF RunsTypeOK
<1>3. \A d \in Calls : runOnce'[d] # "idle" =>
          SchedulerOf(d) # SchedulerOf(c) /\ runOnce[d] # "idle"
  BY DEF JobNeverOverlaps, RunsTypeOK
<1>4. JobNeverOverlaps'
  BY <1>3 DEF JobNeverOverlaps
<1>5. PermitAccounted'
  BY <1>1 DEF PermitAccounted, RunsTypeOK
<1>6. OnePermit'
  BY <1>3 DEF OnePermit, RunsTypeOK
<1> QED
  BY <1>2, <1>4, <1>5, <1>6

\* Registration, startup and shutdown() leave the runs alone.
LEMMA NextRuns ==
  ASSUME [Next]_vars
  PROVE  \/ UNCHANGED runVars
         \/ \E c \in Calls : Begin(c) \/ Report(c) \/ End(c)
<1>1. CASE UNCHANGED vars
  BY <1>1 DEF vars
<1>2. CASE \/ \E c \in Consumers : RegisterConsumer(c)
           \/ \E s \in Schedulers : RegisterScheduler(s)
           \/ \E h \in Hooks : RegisterShutdownHook(h)
           \/ Remove
  BY <1>2 DEF RegisterConsumer, RegisterScheduler, RegisterShutdownHook, Remove
<1>3. CASE \/ RunConsumers \/ InitConsumer \/ RunSchedulers \/ InitScheduler
           \/ RunRuntimes \/ Ready
           \/ \E r \in Runtimes : StartRuntime(r) \/ HookRuntime(r)
  BY <1>3 DEF RunConsumers, InitConsumer, RunSchedulers, InitScheduler, RunRuntimes,
     Ready, StartRuntime, HookRuntime
<1>4. CASE \E c \in Calls : Tick(c) \/ Fail(c) \/ Settle(c)
  BY <1>4 DEF Tick, Fail, Settle
<1>5. CASE \E s \in Schedulers : RunNow(s) \/ RanNow(s) \/ PushNow(s)
  BY <1>5, CallsForm DEF RunNow, RanNow, PushNow
<1>6. CASE \E d \in Shutdowns :
              \/ Shutdown(d) \/ Close(d)
              \/ CloseSchedulers(d) \/ CloseHooks(d) \/ CloseLogger(d) \/ Finish(d)
  BY <1>6 DEF Shutdown, Close, CloseSchedulers, CloseHooks, CloseLogger, Finish, Loop
<1>7. CASE Rest
  BY <1>7 DEF Rest, vars
<1> QED
  BY <1>1, <1>2, <1>3, <1>4, <1>5, <1>6, <1>7 DEF Next

LEMMA NextRunsInv == RunsInv /\ [Next]_vars => RunsInv'
<1> SUFFICES ASSUME RunsInv, [Next]_vars PROVE RunsInv'
  OBVIOUS
<1>1. CASE UNCHANGED runVars
  BY <1>1 DEF RunsInv, runVars, RunsTypeOK, JobNeverOverlaps, PermitAccounted, OnePermit
<1>2. CASE \E c \in Calls : Begin(c) \/ Report(c) \/ End(c)
  BY <1>2, BeginRunsInv, ReportRunsInv, EndRunsInv
<1> QED
  BY <1>1, <1>2, NextRuns

LEMMA RunsInvariance == Spec => []RunsInv
  BY InitRuns, NextRunsInv, PTL DEF Spec

\* However many cron tasks, direct calls and shutdowns there are, a job never runs
\* twice at a time, nor while its failure is being reported.
THEOREM JobNeverOverlapsHolds == Spec => []JobNeverOverlaps
<1>1. RunsInv => JobNeverOverlaps
  BY DEF RunsInv
<1> QED
  BY <1>1, RunsInvariance, PTL

\* A permit that is out is with a run that will give it back.
THEOREM PermitAccountedHolds == Spec => []PermitAccounted
<1>1. RunsInv => PermitAccounted
  BY DEF RunsInv
<1> QED
  BY <1>1, RunsInvariance, PTL

(***************************************************************************)
(* Typing.                                                                  *)
(***************************************************************************)
TypeInv == TypeOK /\ next >= 1

LEMMA Lists ==
    /\ \A S : <<>> \in Seq(S)
    /\ Seq(Consumers) \subseteq Seq(Resources)
    /\ Seq(Schedulers) \subseteq Seq(Resources)
    /\ Seq(Runtimes \cup Hooks) \subseteq Seq(Resources)
<1>1. /\ Consumers \subseteq Resources
      /\ Schedulers \subseteq Resources
      /\ Runtimes \cup Hooks \subseteq Resources
  BY DEF Resources
<1> QED
  BY <1>1, EmptySeq, SeqMonotonic

LEMMA TypeInit == Init => TypeInv
<1> SUFFICES ASSUME Init PROVE TypeInv
  OBVIOUS
<1>1. RunsTypeOK
  BY InitRuns DEF RunsInv
<1>2. /\ consumersList \in Seq(Consumers)
      /\ schedulersList \in Seq(Schedulers)
      /\ shutdownHooks \in Seq(Runtimes \cup Hooks)
  BY Lists DEF Init
<1>3. /\ todo \in [Shutdowns -> Seq(Resources)]
      /\ closed \in [Shutdowns -> Seq(Resources)]
  <2>1. <<>> \in Seq(Resources)
    BY Lists
  <2> QED
    BY <2>1 DEF Init
<1>4. /\ now \in [Schedulers -> Nows]
      /\ timers \in [Schedulers -> Nat]
      /\ down \in [Shutdowns -> Downs]
      /\ due \in [Shutdowns -> SUBSET Resources]
  BY DEF Init, Nows, Downs
<1>5. boot \in Boots /\ next \in Nat /\ next >= 1
  BY DEF Init, Boots
<1>6. live = {} /\ early = {} /\ removed = FALSE
  BY DEF Init
<1> QED
  BY <1>1, <1>2, <1>3, <1>4, <1>5, <1>6 DEF TypeInv, TypeOK

LEMMA TypeNext == TypeInv /\ RunsTypeOK' /\ [Next]_vars => TypeInv'
<1> SUFFICES ASSUME TypeInv, RunsTypeOK', [Next]_vars PROVE TypeInv'
  OBVIOUS
<1> USE DEF TypeInv, TypeOK, Boots, Nows, Downs
<1>1. CASE UNCHANGED vars \/ Rest
  BY <1>1 DEF vars, Rest, lists, startVars, downVars
<1>2. CASE \E c \in Consumers : RegisterConsumer(c)
  BY <1>2 DEF RegisterConsumer, startVars, downVars
<1>3. CASE \E s \in Schedulers : RegisterScheduler(s)
  BY <1>3 DEF RegisterScheduler, startVars, downVars
<1>4. CASE \E h \in Hooks : RegisterShutdownHook(h)
  BY <1>4 DEF RegisterShutdownHook, startVars, downVars
<1>5. CASE Remove
  <2>1. consumersList' \in Seq(Consumers) /\ schedulersList' \in Seq(Schedulers)
    BY <1>5, EmptySeq DEF Remove
  <2> QED
    BY <1>5, <2>1 DEF Remove, startVars, downVars
<1>6. CASE RunConsumers \/ RunSchedulers \/ RunRuntimes \/ Ready
  BY <1>6 DEF RunConsumers, RunSchedulers, RunRuntimes, Ready, Put, lists, downVars
<1>7. CASE InitConsumer
  <2>1. next <= Len(consumersList) => consumersList[next] \in Consumers
    BY ElementOfSeq
  <2> QED
    BY <1>7, <2>1 DEF InitConsumer, Put, lists, downVars
<1>8. CASE InitScheduler
  <2>1. timers' \in [Schedulers -> Nat]
    BY <1>8 DEF InitScheduler
  <2>2. boot' \in Boots /\ next' \in Nat /\ next' >= 1
    BY <1>8 DEF InitScheduler, Put
  <2> QED
    BY <1>8, <2>1, <2>2 DEF InitScheduler, lists, downVars
<1>9. CASE \E r \in Runtimes : StartRuntime(r) \/ HookRuntime(r)
  <2>1. PICK r \in Runtimes : StartRuntime(r) \/ HookRuntime(r)
    BY <1>9
  <2>2. CASE StartRuntime(r)
    BY <2>2 DEF StartRuntime, lists, startVars, downVars
  <2>3. CASE HookRuntime(r)
    <3>1. shutdownHooks' \in Seq(Runtimes \cup Hooks)
      <4>1. Append(shutdownHooks, r) \in Seq(Runtimes \cup Hooks)
        BY AppendProperties
      <4> QED
        BY <2>3, <4>1 DEF HookRuntime
    <3>2. boot' \in Boots /\ next' \in Nat /\ next' >= 1
      BY <2>3 DEF HookRuntime, Put
    <3> QED
      BY <2>3, <3>1, <3>2 DEF HookRuntime, downVars
  <2> QED
    BY <2>1, <2>2, <2>3
<1>10. CASE \E c \in Calls : Tick(c) \/ Fail(c) \/ Settle(c)
  BY <1>10 DEF Tick, Fail, Settle, lists, startVars, downVars
<1>11. CASE \E s \in Schedulers : RunNow(s) \/ RanNow(s) \/ PushNow(s)
  <2>1. PICK s \in Schedulers : RunNow(s) \/ RanNow(s) \/ PushNow(s)
    BY <1>11
  <2>2. /\ UNCHANGED timers \/ timers' = [timers EXCEPT ![s] = @ + 1]
        /\ \E to \in Nows : now' = [now EXCEPT ![s] = to]
    BY <2>1 DEF RunNow, RanNow, PushNow, InitNow, NowAt
  <2>3. early' \subseteq Schedulers
    BY <2>1 DEF RunNow, RanNow, PushNow
  <2>4. schedulersList' \in Seq(Schedulers) /\ UNCHANGED <<consumersList, shutdownHooks>>
    <3>1. Append(schedulersList, s) \in Seq(Schedulers)
      BY AppendProperties
    <3> QED
      BY <2>1, <3>1 DEF RunNow, RanNow, PushNow, lists
  <2>5. UNCHANGED <<boot, next, live, downVars, removed>>
    BY <2>1 DEF RunNow, RanNow, PushNow
  <2>6. now' \in [Schedulers -> Nows] /\ timers' \in [Schedulers -> Nat]
    BY <2>2
  <2> QED
    BY <2>3, <2>4, <2>5, <2>6 DEF downVars
<1>12. CASE \E d \in Shutdowns :
              \/ Shutdown(d) \/ Close(d)
              \/ CloseSchedulers(d) \/ CloseHooks(d) \/ CloseLogger(d) \/ Finish(d)
  <2>1. PICK d \in Shutdowns :
              \/ Shutdown(d) \/ Close(d)
              \/ CloseSchedulers(d) \/ CloseHooks(d) \/ CloseLogger(d) \/ Finish(d)
    BY <1>12
  <2>2. CASE Shutdown(d)
    <3>1. Started \subseteq Resources
      BY DEF Started, Resources, ToSet
    <3> QED
      BY <2>2, <3>1 DEF Shutdown, lists, startVars, Resources
  <2>3. CASE Close(d)
    <3>1. DropLast(todo[d]) \in Seq(Resources) /\ todo[d][Len(todo[d])] \in Resources
      BY <2>3, SubSeqProperties, ElementOfSeq DEF Close, DropLast
    <3>2. timers' \in [Schedulers -> Nat]
      <4> DEFINE r == todo[d][Len(todo[d])]
      <4>1. \/ timers' = timers
            \/ timers' = [s \in Schedulers |-> IF s = r THEN 0 ELSE timers[s]]
        BY <2>3 DEF Close
      <4>2. \A s \in Schedulers : timers[s] \in Nat
        OBVIOUS
      <4> HIDE DEF r
      <4>3. [s \in Schedulers |-> IF s = r THEN 0 ELSE timers[s]] \in [Schedulers -> Nat]
        BY <4>2
      <4> QED
        BY <4>1, <4>3
    <3>3. todo' \in [Shutdowns -> Seq(Resources)]
      <4>1. <<>> \in Seq(Resources)
        BY Lists
      <4> QED
        BY <2>3, <3>1, <4>1 DEF Close
    <3>4. closed' \in [Shutdowns -> Seq(Resources)]
      <4>1. Append(closed[d], todo[d][Len(todo[d])]) \in Seq(Resources)
        BY <3>1, AppendProperties
      <4> QED
        BY <2>3, <4>1 DEF Close
    <3> QED
      BY <2>3, <3>2, <3>3, <3>4 DEF Close, lists
  <2>4. CASE CloseSchedulers(d) \/ CloseHooks(d) \/ CloseLogger(d) \/ Finish(d)
    <3>1. PICK from, to \in Downs, list \in {schedulersList, shutdownHooks, <<>>} :
             Loop(d, from, to, list)
      BY <2>4 DEF CloseSchedulers, CloseHooks, CloseLogger, Finish
    <3>2. list \in Seq(Resources)
      BY Lists
    <3> QED
      BY <3>1, <3>2 DEF Loop, lists, startVars
  <2> QED
    BY <2>1, <2>2, <2>3, <2>4
<1> QED
  BY <1>1, <1>2, <1>3, <1>4, <1>5, <1>6, <1>7, <1>8, <1>9, <1>10, <1>11, <1>12 DEF Next

(***************************************************************************)
(* The lists that shutdown() copies: until something is removed, they only   *)
(* grow at the end, and nothing is registered twice.                         *)
(***************************************************************************)
Distinct(list) == \A i, j \in DOMAIN list : list[i] = list[j] => i = j

StartsWith(list, front) ==
    /\ DOMAIN front \subseteq DOMAIN list
    /\ \A i \in DOMAIN front : front[i] = list[i]

RegisteredOnce == Distinct(consumersList) /\ Distinct(shutdownHooks)

\* What one step does to the lists.
ListsGrow ==
    /\ removed => removed'
    /\ removed' \/ StartsWith(consumersList', consumersList)
    /\ removed' \/ StartsWith(schedulersList', schedulersList)
    /\ StartsWith(shutdownHooks', shutdownHooks)

LEMMA AppendNew ==
  ASSUME NEW S, NEW list \in Seq(S), NEW x \in S
  PROVE  /\ StartsWith(Append(list, x), list)
         /\ ToSet(Append(list, x)) = ToSet(list) \cup {x}
         /\ Distinct(list) /\ x \notin ToSet(list) => Distinct(Append(list, x))
<1> DEFINE new == Append(list, x)
<1>1. /\ DOMAIN list = 1..Len(list)
      /\ DOMAIN new = 1..(Len(list) + 1)
      /\ Len(list) \in Nat
      /\ \A i \in 1..Len(list) : new[i] = list[i]
      /\ new[Len(list) + 1] = x
  BY AppendProperties, LenProperties
<1> HIDE DEF new
<1>2. StartsWith(new, list)
  BY <1>1 DEF StartsWith
<1>3. ToSet(new) = ToSet(list) \cup {x}
  <2>1. \A i \in DOMAIN new : i \in DOMAIN list \/ i = Len(list) + 1
    BY <1>1
  <2>2. DOMAIN list \subseteq DOMAIN new /\ Len(list) + 1 \in DOMAIN new
    BY <1>1
  <2> QED
    BY <1>1, <2>1, <2>2 DEF ToSet
<1>4. Distinct(list) /\ x \notin ToSet(list) => Distinct(new)
  BY <1>1 DEF Distinct, ToSet
<1> QED
  BY <1>2, <1>3, <1>4 DEF new

LEMMA PositionIs ==
  ASSUME NEW list, Distinct(list), NEW i \in DOMAIN list
  PROVE  Position(list, list[i]) = i
  BY DEF Distinct, Position

LEMMA ListsStep ==
  ASSUME TypeInv, RegisteredOnce, [Next]_vars
  PROVE  ListsGrow /\ RegisteredOnce'
<1> USE DEF ListsGrow, RegisteredOnce
<1>1. ASSUME UNCHANGED <<lists, removed>>
      PROVE  ListsGrow /\ RegisteredOnce'
  BY <1>1 DEF lists, StartsWith
<1>2. CASE UNCHANGED vars \/ Rest
  BY <1>1, <1>2 DEF vars, Rest
<1>3. ASSUME NEW c \in Consumers, RegisterConsumer(c)
      PROVE  ListsGrow /\ RegisteredOnce'
  BY <1>3, AppendNew DEF RegisterConsumer, TypeInv, TypeOK, StartsWith
<1>4. ASSUME NEW s \in Schedulers, RegisterScheduler(s) \/ PushNow(s)
      PROVE  ListsGrow /\ RegisteredOnce'
  <2>1. /\ schedulersList' = Append(schedulersList, s)
        /\ UNCHANGED <<consumersList, shutdownHooks, removed>>
    BY <1>4 DEF RegisterScheduler, PushNow
  <2>2. StartsWith(schedulersList', schedulersList)
    BY <2>1, AppendNew DEF TypeInv, TypeOK
  <2> QED
    BY <2>1, <2>2 DEF StartsWith
<1>5. ASSUME NEW h \in Hooks, RegisterShutdownHook(h)
      PROVE  ListsGrow /\ RegisteredOnce'
  <2>1. h \in Runtimes \cup Hooks
    OBVIOUS
  <2> QED
    BY <1>5, <2>1, AppendNew DEF RegisterShutdownHook, TypeInv, TypeOK, StartsWith
<1>6. CASE Remove
  BY <1>6 DEF Remove, StartsWith, Distinct
<1>7. CASE \/ RunConsumers \/ InitConsumer \/ RunSchedulers \/ InitScheduler
           \/ RunRuntimes \/ Ready
  BY <1>1, <1>7 DEF RunConsumers, InitConsumer, RunSchedulers, InitScheduler,
     RunRuntimes, Ready
<1>8. ASSUME NEW r \in Runtimes, StartRuntime(r) \/ HookRuntime(r)
      PROVE  ListsGrow /\ RegisteredOnce'
  <2>1. CASE UNCHANGED <<lists, removed>>
    BY <1>1, <2>1
  <2>2. CASE HookRuntime(r) /\ shutdownHooks' = Append(shutdownHooks, r)
    <3>1. r \in Runtimes \cup Hooks /\ r \notin ToSet(shutdownHooks)
      BY <2>2 DEF HookRuntime, Unhooked, Hooked
    <3> QED
      BY <2>2, <3>1, AppendNew DEF HookRuntime, TypeInv, TypeOK, StartsWith
  <2> QED
    BY <1>8, <2>1, <2>2 DEF StartRuntime, HookRuntime, lists
<1>9. CASE \E c \in Calls : Tick(c) \/ Fail(c) \/ Settle(c)
  BY <1>1, <1>9 DEF Tick, Fail, Settle
<1>10. CASE \E s \in Schedulers : RunNow(s) \/ RanNow(s)
  BY <1>1, <1>10 DEF RunNow, RanNow
<1>11. CASE \E d \in Shutdowns :
              \/ Shutdown(d) \/ Close(d)
              \/ CloseSchedulers(d) \/ CloseHooks(d) \/ CloseLogger(d) \/ Finish(d)
  BY <1>1, <1>11 DEF Shutdown, Close, CloseSchedulers, CloseHooks, CloseLogger, Finish, Loop
<1> QED
  BY <1>2, <1>3, <1>4, <1>5, <1>6, <1>7, <1>8, <1>9, <1>10, <1>11 DEF Next

(***************************************************************************)
(* shutdown().  What a loop has left is the front of the list it copied,     *)
(* what it closed lies behind that; and what was started is closed, or left, *)
(* or in a list that is still to be copied.                                  *)
(***************************************************************************)
HooksAndRuntimes == Runtimes \cup Hooks

TodoOf(d) ==
    /\ down[d] = "consumers" =>
          todo[d] \in Seq(Consumers) /\ (removed \/ StartsWith(consumersList, todo[d]))
    /\ down[d] = "schedulers" => todo[d] \in Seq(Schedulers)
    /\ down[d] = "hooks" => StartsWith(shutdownHooks, todo[d])
    /\ down[d] \notin {"consumers", "schedulers", "hooks"} => todo[d] = <<>>

\* r is in the list, and behind the first n if it is the one being closed.
Behind(list, r, n, closing) ==
    \E m \in DOMAIN list : list[m] = r /\ (closing => m > n)

ClosedOf(d) ==
    \A i \in DOMAIN closed[d] :
        /\ down[d] # "none"
        /\ down[d] = "consumers" => closed[d][i] \in Consumers
        /\ down[d] = "schedulers" => closed[d][i] \in Consumers \cup Schedulers
        /\ closed[d][i] \in Consumers /\ ~removed =>
              Behind(consumersList, closed[d][i], Len(todo[d]), down[d] = "consumers")
        /\ closed[d][i] \in HooksAndRuntimes =>
              Behind(shutdownHooks, closed[d][i], Len(todo[d]), down[d] = "hooks")

\* b was registered before a.
Before(list, b, a) ==
    \E m, n \in DOMAIN list : m < n /\ list[m] = b /\ list[n] = a

OrderOf(d) ==
    \A i, j \in DOMAIN closed[d] :
        i < j =>
            /\ Rank(closed[d][i]) <= Rank(closed[d][j])
            /\ closed[d][i] \in HooksAndRuntimes /\ closed[d][j] \in HooksAndRuntimes =>
                   Before(shutdownHooks, closed[d][j], closed[d][i])
            /\ closed[d][i] \in Consumers /\ closed[d][j] \in Consumers /\ ~removed =>
                   Before(consumersList, closed[d][j], closed[d][i])

LiveInv ==
    /\ ~removed => live \cap Consumers \subseteq ToSet(consumersList)
    /\ live \cap Hooks \subseteq Hooked
    /\ boot = "ready" => Runtimes \subseteq Hooked

Left(d) == (due[d] \cap Closeable) \ ToSet(closed[d])

DueOf(d) ==
    ~removed =>
        /\ down[d] = "consumers" =>
              Left(d) \subseteq ToSet(todo[d]) \cup ToSet(schedulersList) \cup Hooked
        /\ down[d] = "schedulers" => Left(d) \subseteq ToSet(todo[d]) \cup Hooked
        /\ down[d] = "hooks" => Left(d) \subseteq ToSet(todo[d])
        /\ down[d] \in {"logger", "done"} => Left(d) = {}

DownOf(d) == TodoOf(d) /\ ClosedOf(d) /\ OrderOf(d) /\ DueOf(d)

DownInv == RegisteredOnce /\ LiveInv /\ \A d \in Shutdowns : DownOf(d)

LEMMA DownInit == Init => DownInv
<1> SUFFICES ASSUME Init PROVE DownInv
  OBVIOUS
<1>1. RegisteredOnce /\ LiveInv
  BY DEF Init, RegisteredOnce, Distinct, LiveInv
<1>2. ASSUME NEW d \in Shutdowns PROVE DownOf(d)
  <2>1. down[d] = "none" /\ todo[d] = <<>> /\ closed[d] = <<>>
    BY DEF Init
  <2>2. DOMAIN closed[d] = {}
    BY <2>1
  <2> QED
    BY <2>1, <2>2 DEF DownOf, TodoOf, ClosedOf, OrderOf, DueOf
<1> QED
  BY <1>1, <1>2 DEF DownInv

LEMMA LiveStep ==
  ASSUME TypeInv, TypeInv', DownInv, [Next]_vars
  PROVE  LiveInv'
<1>1. /\ live' \subseteq live \cup ToSet(consumersList) \cup Runtimes \cup Hooked'
      /\ boot' = "ready" => boot = "ready" \/ Runtimes \subseteq Hooked
  <2>1. CASE UNCHANGED vars \/ Rest
    BY <2>1 DEF vars, Rest, startVars
  <2>2. CASE \/ \E c \in Consumers : RegisterConsumer(c)
             \/ \E s \in Schedulers : RegisterScheduler(s)
             \/ Remove
    BY <2>2 DEF RegisterConsumer, RegisterScheduler, Remove, startVars
  <2>3. ASSUME NEW h \in Hooks, RegisterShutdownHook(h)
        PROVE  live' = live \cup {h} /\ h \in Hooked' /\ boot' = boot
    <3>1. h \in Runtimes \cup Hooks
      OBVIOUS
    <3>2. ToSet(shutdownHooks') = ToSet(shutdownHooks) \cup {h}
      <4>1. shutdownHooks \in Seq(Runtimes \cup Hooks)
        BY DEF TypeInv, TypeOK
      <4>2. shutdownHooks' = Append(shutdownHooks, h)
        BY <2>3 DEF RegisterShutdownHook
      <4> QED
        BY <3>1, <4>1, <4>2, AppendNew
    <3> QED
      BY <2>3, <3>2 DEF RegisterShutdownHook, Hooked, startVars
  <2>4. CASE RunConsumers \/ RunSchedulers \/ InitScheduler \/ RunRuntimes \/ Ready
    BY <2>4 DEF RunConsumers, RunSchedulers, InitScheduler, RunRuntimes, Ready, Put
  <2>5. CASE InitConsumer
    <3>1. next <= Len(consumersList) => consumersList[next] \in ToSet(consumersList)
      BY DEF ToSet, TypeInv, TypeOK
    <3> QED
      BY <2>5, <3>1 DEF InitConsumer, Put
  <2>6. CASE \E r \in Runtimes : StartRuntime(r) \/ HookRuntime(r)
    BY <2>6 DEF StartRuntime, HookRuntime, Put, startVars
  <2>7. CASE \E c \in Calls : Tick(c) \/ Fail(c) \/ Settle(c)
    BY <2>7 DEF Tick, Fail, Settle, startVars
  <2>8. CASE \E s \in Schedulers : RunNow(s) \/ RanNow(s) \/ PushNow(s)
    BY <2>8 DEF RunNow, RanNow, PushNow
  <2>9. CASE \E d \in Shutdowns :
                \/ Shutdown(d) \/ Close(d)
                \/ CloseSchedulers(d) \/ CloseHooks(d) \/ CloseLogger(d) \/ Finish(d)
    BY <2>9 DEF Shutdown, Close, CloseSchedulers, CloseHooks, CloseLogger, Finish, Loop,
       startVars
  <2> QED
    BY <2>1, <2>2, <2>3, <2>4, <2>5, <2>6, <2>7, <2>8, <2>9 DEF Next
<1>2. ListsGrow
  BY ListsStep DEF DownInv
<1>3. /\ Hooked \subseteq Hooked'
      /\ removed' \/ ToSet(consumersList) \subseteq ToSet(consumersList)'
  BY <1>2 DEF ListsGrow, StartsWith, ToSet, Hooked
<1>4. ToSet(consumersList) \subseteq Consumers /\ Hooked \subseteq Runtimes \cup Hooks
  BY ElementOfSeq DEF ToSet, Hooked, TypeInv, TypeOK
<1>5. removed => removed'
  BY <1>2 DEF ListsGrow
<1>6. Hooked' \subseteq Runtimes \cup Hooks
  BY ElementOfSeq DEF ToSet, Hooked, TypeInv, TypeOK
<1> QED
  BY <1>1, <1>3, <1>4, <1>5, <1>6, KernelAssumption DEF LiveInv, DownInv

\* A step beside d: its variables stay, and what it says of the lists goes on.
LEMMA OthersKeep ==
  ASSUME ListsGrow, NEW d \in Shutdowns, DownOf(d),
         UNCHANGED <<down[d], todo[d], closed[d], due[d]>>
  PROVE  DownOf(d)'
<1> USE DEF ListsGrow, StartsWith
<1>1. TodoOf(d)'
  BY DEF DownOf, TodoOf
<1>2. ClosedOf(d)'
  BY DEF DownOf, ClosedOf, Behind
<1>3. OrderOf(d)'
  BY DEF DownOf, OrderOf, Before
<1>4. DueOf(d)'
  <2>1. /\ Hooked \subseteq Hooked'
        /\ removed' \/ ToSet(schedulersList) \subseteq ToSet(schedulersList)'
    BY DEF ToSet, Hooked
  <2>2. Left(d)' = Left(d) /\ ToSet(todo[d])' = ToSet(todo[d])
    BY DEF Left, ToSet
  <2> QED
    BY <2>1, <2>2 DEF DownOf, DueOf
<1> QED
  BY <1>1, <1>2, <1>3, <1>4 DEF DownOf

LEMMA ShutdownStep ==
  ASSUME TypeInv, DownInv, NEW d \in Shutdowns, Shutdown(d)
  PROVE  DownOf(d)'
<1>1. /\ down[d] = "none" /\ down'[d] = "consumers" /\ todo'[d] = consumersList
      /\ closed'[d] = closed[d] /\ due'[d] = Started
      /\ UNCHANGED <<consumersList, schedulersList, shutdownHooks, removed>>
  BY DEF Shutdown, TypeInv, TypeOK, lists
<1>2. DOMAIN closed[d] = {}
  BY <1>1 DEF DownInv, DownOf, ClosedOf
<1>3. TodoOf(d)'
  BY <1>1 DEF TodoOf, StartsWith, TypeInv, TypeOK
<1>4. ClosedOf(d)' /\ OrderOf(d)'
  BY <1>1, <1>2 DEF ClosedOf, OrderOf
<1>5. DueOf(d)'
  <2>1. ~removed => Started \subseteq ToSet(consumersList) \cup ToSet(schedulersList) \cup Hooked
    BY DEF Started, Unhooked, DownInv, LiveInv, TypeInv, TypeOK
  <2>2. Left(d)' \subseteq Started /\ Hooked' = Hooked
    BY <1>1 DEF Left, Hooked
  <2> QED
    BY <1>1, <2>1, <2>2 DEF DueOf
<1> QED
  BY <1>3, <1>4, <1>5 DEF DownOf

LEMMA LoopStep ==
  ASSUME TypeInv, DownInv, NEW d \in Shutdowns,
         CloseSchedulers(d) \/ CloseHooks(d) \/ CloseLogger(d) \/ Finish(d)
  PROVE  DownOf(d)'
<1>1. /\ todo[d] = <<>>
      /\ closed'[d] = closed[d] /\ due'[d] = due[d]
      /\ UNCHANGED <<consumersList, schedulersList, shutdownHooks, removed>>
      /\ \/ down[d] = "consumers" /\ down'[d] = "schedulers" /\ todo'[d] = schedulersList
         \/ down[d] = "schedulers" /\ down'[d] = "hooks" /\ todo'[d] = shutdownHooks
         \/ down[d] = "hooks" /\ down'[d] = "logger" /\ todo'[d] = <<>>
         \/ down[d] = "logger" /\ down'[d] \in {"done", "rejected"} /\ todo'[d] = <<>>
  BY DEF CloseSchedulers, CloseHooks, CloseLogger, Finish, Loop, TypeInv, TypeOK, lists
<1>2. DownOf(d)
  BY DEF DownInv
<1>3. TodoOf(d)'
  BY <1>1 DEF TodoOf, StartsWith, TypeInv, TypeOK
<1>4. ClosedOf(d)'
  BY <1>1, <1>2, KernelAssumption DEF DownOf, ClosedOf, Behind, HooksAndRuntimes
<1>5. OrderOf(d)'
  BY <1>1, <1>2 DEF DownOf, OrderOf, Before
<1>6. DueOf(d)'
  <2>1. Left(d)' = Left(d) /\ Hooked' = Hooked /\ ToSet(todo[d]) = {}
    BY <1>1 DEF Left, Hooked, ToSet
  <2> QED
    BY <1>1, <1>2, <2>1 DEF DownOf, DueOf, Hooked
<1> QED
  BY <1>3, <1>4, <1>5, <1>6 DEF DownOf

\* What is left when the last one is taken off.
LEMMA DropLastFacts ==
  ASSUME NEW S, NEW s \in Seq(S), s # <<>>
  PROVE  /\ DropLast(s) \in Seq(S)
         /\ Len(s) \in Nat /\ Len(s) >= 1 /\ Len(s) \in DOMAIN s
         /\ DOMAIN DropLast(s) = 1..(Len(s) - 1) /\ DOMAIN s = 1..Len(s)
         /\ Len(DropLast(s)) = Len(s) - 1
         /\ \A i \in DOMAIN DropLast(s) : DropLast(s)[i] = s[i]
         /\ ToSet(s) \subseteq ToSet(DropLast(s)) \cup {s[Len(s)]}
<1>1. Len(s) \in Nat /\ Len(s) >= 1 /\ DOMAIN s = 1..Len(s)
  BY LenProperties, EmptySeq
<1>2. /\ DropLast(s) \in Seq(S)
      /\ Len(DropLast(s)) = Len(s) - 1
      /\ \A i \in 1..(Len(s) - 1) : DropLast(s)[i] = s[i]
  BY <1>1, SubSeqProperties DEF DropLast
<1>3. DOMAIN DropLast(s) = 1..(Len(s) - 1)
  BY <1>1, <1>2, LenProperties
<1>4. \A i \in DOMAIN s : i \in DOMAIN DropLast(s) \/ i = Len(s)
  BY <1>1, <1>3
<1>5. ToSet(s) \subseteq ToSet(DropLast(s)) \cup {s[Len(s)]}
  BY <1>1, <1>2, <1>3, <1>4 DEF ToSet
<1> QED
  BY <1>1, <1>2, <1>3, <1>5

\* The one that is closed next: of which kind it is, and where it was registered.
LEMMA LastFacts ==
  ASSUME TypeInv, DownInv, NEW d \in Shutdowns, todo[d] # <<>>
  PROVE  LET n == Len(todo[d])
             r == todo[d][n]
             rest == DropLast(todo[d])
         IN  /\ down[d] \in {"consumers", "schedulers", "hooks"}
             /\ down[d] = "consumers" =>
                    /\ r \in Consumers /\ rest \in Seq(Consumers)
                    /\ ~removed => /\ n \in DOMAIN consumersList /\ consumersList[n] = r
                                   /\ StartsWith(consumersList, rest)
             /\ down[d] = "schedulers" => r \in Schedulers /\ rest \in Seq(Schedulers)
             /\ down[d] = "hooks" =>
                    /\ r \in HooksAndRuntimes
                    /\ n \in DOMAIN shutdownHooks /\ shutdownHooks[n] = r
                    /\ StartsWith(shutdownHooks, rest)
<1> DEFINE n == Len(todo[d])
           r == todo[d][n]
           rest == DropLast(todo[d])
<1>1. TodoOf(d) /\ todo[d] \in Seq(Resources)
  BY DEF DownInv, DownOf, TypeInv, TypeOK
<1>2. /\ n \in DOMAIN todo[d]
      /\ DOMAIN rest \subseteq DOMAIN todo[d]
      /\ \A i \in DOMAIN rest : rest[i] = todo[d][i]
  BY <1>1, DropLastFacts
<1>3. down[d] \in {"consumers", "schedulers", "hooks"}
  BY <1>1 DEF TodoOf
<1>4. ASSUME down[d] = "consumers"
      PROVE  /\ r \in Consumers /\ rest \in Seq(Consumers)
             /\ ~removed => /\ n \in DOMAIN consumersList /\ consumersList[n] = r
                            /\ StartsWith(consumersList, rest)
  <2>1. todo[d] \in Seq(Consumers) /\ (removed \/ StartsWith(consumersList, todo[d]))
    BY <1>1, <1>4 DEF TodoOf
  <2>2. r \in Consumers
    BY <1>2, <2>1, ElementOfSeq
  <2>3. rest \in Seq(Consumers)
    BY <2>1, DropLastFacts
  <2>4. ~removed => /\ n \in DOMAIN consumersList /\ consumersList[n] = r
                    /\ StartsWith(consumersList, rest)
    BY <1>2, <2>1 DEF StartsWith
  <2> QED
    BY <2>2, <2>3, <2>4
<1>5. ASSUME down[d] = "schedulers"
      PROVE  r \in Schedulers /\ rest \in Seq(Schedulers)
  <2>1. todo[d] \in Seq(Schedulers)
    BY <1>1, <1>5 DEF TodoOf
  <2>2. r \in Schedulers
    BY <1>2, <2>1, ElementOfSeq
  <2> QED
    BY <2>1, <2>2, DropLastFacts
<1>6. ASSUME down[d] = "hooks"
      PROVE  /\ r \in HooksAndRuntimes
             /\ n \in DOMAIN shutdownHooks /\ shutdownHooks[n] = r
             /\ StartsWith(shutdownHooks, rest)
  <2>1. StartsWith(shutdownHooks, todo[d])
    BY <1>1, <1>6 DEF TodoOf
  <2>2. /\ n \in DOMAIN shutdownHooks /\ shutdownHooks[n] = r
        /\ StartsWith(shutdownHooks, rest)
    BY <1>2, <2>1 DEF StartsWith
  <2>3. r \in HooksAndRuntimes
    BY <2>2, ElementOfSeq DEF TypeInv, TypeOK, HooksAndRuntimes
  <2> QED
    BY <2>2, <2>3
<1> HIDE DEF n, r, rest
<1>7. /\ down[d] \in {"consumers", "schedulers", "hooks"}
      /\ down[d] = "consumers" =>
             /\ r \in Consumers /\ rest \in Seq(Consumers)
             /\ ~removed => /\ n \in DOMAIN consumersList /\ consumersList[n] = r
                            /\ StartsWith(consumersList, rest)
      /\ down[d] = "schedulers" => r \in Schedulers /\ rest \in Seq(Schedulers)
      /\ down[d] = "hooks" =>
             /\ r \in HooksAndRuntimes
             /\ n \in DOMAIN shutdownHooks /\ shutdownHooks[n] = r
             /\ StartsWith(shutdownHooks, rest)
  BY <1>3, <1>4, <1>5, <1>6
<1> QED
  BY <1>7 DEF n, r, rest

LEMMA CloseStep ==
  ASSUME TypeInv, DownInv, NEW d \in Shutdowns, Close(d)
  PROVE  DownOf(d)'
<1> DEFINE n == Len(todo[d])
           r == todo[d][n]
           rest == DropLast(todo[d])
<1>1. /\ todo[d] # <<>>
      /\ UNCHANGED <<consumersList, schedulersList, shutdownHooks, removed>>
      /\ due'[d] = due[d]
      /\ \/ /\ r \notin Closeable
            /\ todo'[d] = rest /\ closed'[d] = closed[d] /\ down'[d] = down[d]
         \/ /\ r \in Closeable
            /\ todo'[d] = rest /\ closed'[d] = Append(closed[d], r) /\ down'[d] = down[d]
         \/ /\ r \in Closeable
            /\ todo'[d] = <<>> /\ closed'[d] = closed[d] /\ down'[d] = "rejected"
  BY DEF Close, TypeInv, TypeOK, lists
<1>2. /\ n \in Nat /\ n >= 1 /\ Len(rest) = n - 1
      /\ ToSet(todo[d]) \subseteq ToSet(rest) \cup {r}
  BY <1>1, DropLastFacts DEF TypeInv, TypeOK
<1>3. /\ down[d] \in {"consumers", "schedulers", "hooks"}
      /\ down[d] = "consumers" =>
             /\ r \in Consumers /\ rest \in Seq(Consumers)
             /\ ~removed => /\ n \in DOMAIN consumersList /\ consumersList[n] = r
                            /\ StartsWith(consumersList, rest)
      /\ down[d] = "schedulers" => r \in Schedulers /\ rest \in Seq(Schedulers)
      /\ down[d] = "hooks" =>
             /\ r \in HooksAndRuntimes
             /\ n \in DOMAIN shutdownHooks /\ shutdownHooks[n] = r
             /\ StartsWith(shutdownHooks, rest)
  BY <1>1, LastFacts
<1>4. TodoOf(d) /\ ClosedOf(d) /\ OrderOf(d) /\ DueOf(d)
  BY DEF DownInv, DownOf
<1>5. DOMAIN shutdownHooks \subseteq Int /\ DOMAIN consumersList \subseteq Int
  BY DEF TypeInv, TypeOK
<1>6. Hooked' = Hooked /\ ToSet(schedulersList)' = ToSet(schedulersList)
  BY <1>1 DEF Hooked, ToSet
<1> HIDE DEF n, r, rest
\* A resource that was closed stays behind what is left.
<1>7. ASSUME NEW i \in DOMAIN closed[d], todo'[d] = rest \/ down'[d] = "rejected",
             down'[d] \in {down[d], "rejected"}
      PROVE  /\ closed[d][i] \in Consumers /\ ~removed =>
                    Behind(consumersList, closed[d][i], Len(todo'[d]), down'[d] = "consumers")
             /\ closed[d][i] \in HooksAndRuntimes =>
                    Behind(shutdownHooks, closed[d][i], Len(todo'[d]), down'[d] = "hooks")
  <2>1. \A m \in Int : m > n => down'[d] = "rejected" \/ m > Len(todo'[d])
    BY <1>2, <1>7
  <2> QED
    BY <1>4, <1>5, <1>7, <2>1 DEF ClosedOf, Behind, n
<1>8. CASE /\ r \notin Closeable
           /\ todo'[d] = rest /\ closed'[d] = closed[d] /\ down'[d] = down[d]
  <2>1. TodoOf(d)'
    BY <1>1, <1>3, <1>8 DEF TodoOf
  <2>2. ClosedOf(d)'
    BY <1>1, <1>4, <1>7, <1>8 DEF ClosedOf
  <2>3. OrderOf(d)'
    BY <1>1, <1>4, <1>8 DEF OrderOf
  <2>4. DueOf(d)'
    <3>1. Left(d)' = Left(d) /\ r \notin Left(d)
      BY <1>1, <1>8 DEF Left, ToSet
    <3> QED
      BY <1>1, <1>2, <1>3, <1>4, <1>6, <1>8, <3>1 DEF DueOf
  <2> QED
    BY <2>1, <2>2, <2>3, <2>4 DEF DownOf
<1>9. CASE /\ r \in Closeable
           /\ todo'[d] = rest /\ closed'[d] = Append(closed[d], r) /\ down'[d] = down[d]
  <2>1. TodoOf(d)'
    BY <1>1, <1>3, <1>9 DEF TodoOf
  <2>2. /\ DOMAIN closed[d] = 1..Len(closed[d]) /\ Len(closed[d]) \in Nat
        /\ DOMAIN closed'[d] = 1..(Len(closed[d]) + 1)
        /\ \A i \in DOMAIN closed[d] : closed'[d][i] = closed[d][i]
        /\ closed'[d][Len(closed[d]) + 1] = r
    <3>1. closed[d] \in Seq(Resources)
      BY DEF TypeInv, TypeOK
    <3>2. r \in Resources
      BY <1>3 DEF Resources, HooksAndRuntimes
    <3> QED
      BY <1>9, <3>1, <3>2, AppendProperties, LenProperties
  <2>3. \A i \in DOMAIN closed'[d] : i \in DOMAIN closed[d] \/ i = Len(closed[d]) + 1
    BY <2>2
  <2>4. ClosedOf(d)'
    <3>1. ASSUME NEW i \in DOMAIN closed[d]
          PROVE  /\ down'[d] # "none"
                 /\ down'[d] = "consumers" => closed'[d][i] \in Consumers
                 /\ down'[d] = "schedulers" => closed'[d][i] \in Consumers \cup Schedulers
                 /\ closed'[d][i] \in Consumers /\ ~removed =>
                       Behind(consumersList, closed'[d][i], Len(todo'[d]), down'[d] = "consumers")
                 /\ closed'[d][i] \in HooksAndRuntimes =>
                       Behind(shutdownHooks, closed'[d][i], Len(todo'[d]), down'[d] = "hooks")
      BY <1>4, <1>7, <1>9, <2>2 DEF ClosedOf
    <3>2. /\ down'[d] # "none"
          /\ down'[d] = "consumers" => r \in Consumers
          /\ down'[d] = "schedulers" => r \in Consumers \cup Schedulers
      BY <1>3, <1>9
    <3>3. r \in Consumers /\ ~removed =>
             Behind(consumersList, r, Len(todo'[d]), down'[d] = "consumers")
      <4>1. r \in Consumers => down[d] = "consumers"
        BY <1>3, KernelAssumption DEF HooksAndRuntimes
      <4> QED
        BY <1>2, <1>3, <1>9, <4>1 DEF Behind
    <3>4. r \in HooksAndRuntimes =>
             Behind(shutdownHooks, r, Len(todo'[d]), down'[d] = "hooks")
      <4>1. r \in HooksAndRuntimes => down[d] = "hooks"
        BY <1>3, KernelAssumption DEF HooksAndRuntimes
      <4> QED
        BY <1>2, <1>3, <1>9, <4>1 DEF Behind
    <3> QED
      BY <1>1, <2>2, <2>3, <3>1, <3>2, <3>3, <3>4 DEF ClosedOf
  <2>5. OrderOf(d)'
    <3>1. ASSUME NEW i \in DOMAIN closed[d], NEW j \in DOMAIN closed[d], i < j
          PROVE  /\ Rank(closed[d][i]) <= Rank(closed[d][j])
                 /\ closed[d][i] \in HooksAndRuntimes /\ closed[d][j] \in HooksAndRuntimes =>
                       Before(shutdownHooks, closed[d][j], closed[d][i])
                 /\ closed[d][i] \in Consumers /\ closed[d][j] \in Consumers /\ ~removed =>
                       Before(consumersList, closed[d][j], closed[d][i])
      BY <1>4, <3>1 DEF OrderOf
    <3>2. ASSUME NEW i \in DOMAIN closed[d]
          PROVE  /\ Rank(closed[d][i]) <= Rank(r)
                 /\ closed[d][i] \in HooksAndRuntimes /\ r \in HooksAndRuntimes =>
                       Before(shutdownHooks, r, closed[d][i])
                 /\ closed[d][i] \in Consumers /\ r \in Consumers /\ ~removed =>
                       Before(consumersList, r, closed[d][i])
      <4>1. Rank(closed[d][i]) <= Rank(r)
        BY <1>3, <1>4, KernelAssumption DEF ClosedOf, Rank, HooksAndRuntimes
      <4>2. closed[d][i] \in HooksAndRuntimes /\ r \in HooksAndRuntimes =>
               Before(shutdownHooks, r, closed[d][i])
        <5>1. r \in HooksAndRuntimes => down[d] = "hooks"
          BY <1>3, KernelAssumption DEF HooksAndRuntimes
        <5> QED
          BY <1>3, <1>4, <5>1 DEF ClosedOf, Behind, Before, n
      <4>3. closed[d][i] \in Consumers /\ r \in Consumers /\ ~removed =>
               Before(consumersList, r, closed[d][i])
        <5>1. r \in Consumers => down[d] = "consumers"
          BY <1>3, KernelAssumption DEF HooksAndRuntimes
        <5> QED
          BY <1>3, <1>4, <5>1 DEF ClosedOf, Behind, Before, n
      <4> QED
        BY <4>1, <4>2, <4>3
    <3>3. SUFFICES ASSUME NEW i \in DOMAIN closed'[d], NEW j \in DOMAIN closed'[d], i < j
                   PROVE  /\ Rank(closed'[d][i]) <= Rank(closed'[d][j])
                          /\ closed'[d][i] \in HooksAndRuntimes /\ closed'[d][j] \in HooksAndRuntimes =>
                                 Before(shutdownHooks, closed'[d][j], closed'[d][i])
                          /\ closed'[d][i] \in Consumers /\ closed'[d][j] \in Consumers /\ ~removed =>
                                 Before(consumersList, closed'[d][j], closed'[d][i])
      BY <1>1 DEF OrderOf, Rank, Before
    <3>4. i \in DOMAIN closed[d]
      BY <2>2, <3>3
    <3>5. CASE j \in DOMAIN closed[d]
      BY <2>2, <3>1, <3>3, <3>4, <3>5
    <3>6. CASE j = Len(closed[d]) + 1
      BY <2>2, <3>2, <3>4, <3>6
    <3> QED
      BY <2>3, <3>5, <3>6
  <2>6. DueOf(d)'
    <3>1. ToSet(closed[d]) \cup {r} \subseteq ToSet(closed'[d])
      <4>1. Len(closed[d]) + 1 \in DOMAIN closed'[d] /\ DOMAIN closed[d] \subseteq DOMAIN closed'[d]
        BY <2>2
      <4> QED
        BY <2>2, <4>1 DEF ToSet
    <3>2. Left(d)' \subseteq Left(d) \ {r}
      BY <1>1, <3>1 DEF Left, ToSet
    <3> QED
      BY <1>1, <1>2, <1>3, <1>4, <1>6, <1>9, <3>2 DEF DueOf
  <2> QED
    BY <2>1, <2>4, <2>5, <2>6 DEF DownOf
<1>10. CASE /\ r \in Closeable
            /\ todo'[d] = <<>> /\ closed'[d] = closed[d] /\ down'[d] = "rejected"
  <2>1. TodoOf(d)' /\ DueOf(d)'
    BY <1>10 DEF TodoOf, DueOf
  <2>2. ClosedOf(d)'
    BY <1>1, <1>4, <1>7, <1>10 DEF ClosedOf
  <2>3. OrderOf(d)'
    BY <1>1, <1>4, <1>10 DEF OrderOf
  <2> QED
    BY <2>1, <2>2, <2>3 DEF DownOf
<1> QED
  BY <1>1, <1>8, <1>9, <1>10

LEMMA DownNext == TypeInv /\ TypeInv' /\ DownInv /\ [Next]_vars => DownInv'
<1> SUFFICES ASSUME TypeInv, TypeInv', DownInv, [Next]_vars PROVE DownInv'
  OBVIOUS
<1>1. ListsGrow /\ RegisteredOnce'
  BY ListsStep DEF DownInv
<1>2. LiveInv'
  BY LiveStep
<1>3. ASSUME NEW d \in Shutdowns PROVE DownOf(d)'
  <2>1. CASE UNCHANGED <<down[d], todo[d], closed[d], due[d]>>
    BY <1>1, <2>1, OthersKeep DEF DownInv
  <2>2. CASE UNCHANGED downVars
    BY <2>1, <2>2 DEF downVars
  <2>3. ASSUME NEW e \in Shutdowns,
               \/ Shutdown(e) \/ Close(e)
               \/ CloseSchedulers(e) \/ CloseHooks(e) \/ CloseLogger(e) \/ Finish(e)
        PROVE  DownOf(d)'
    <3>1. CASE d = e
      BY <2>3, <3>1, ShutdownStep, CloseStep, LoopStep
    <3>2. CASE d # e
      <4>1. UNCHANGED <<down[d], todo[d], closed[d], due[d]>>
        BY <2>3, <3>2 DEF Shutdown, Close, CloseSchedulers, CloseHooks, CloseLogger, Finish,
           Loop, TypeInv, TypeOK
      <4> QED
        BY <2>1, <4>1
    <3> QED
      BY <3>1, <3>2
  <2>4. \/ UNCHANGED downVars
        \/ \E e \in Shutdowns :
              \/ Shutdown(e) \/ Close(e)
              \/ CloseSchedulers(e) \/ CloseHooks(e) \/ CloseLogger(e) \/ Finish(e)
    <3>1. CASE UNCHANGED vars \/ Rest
      BY <3>1 DEF vars, Rest
    <3>2. CASE \/ \E c \in Consumers : RegisterConsumer(c)
               \/ \E s \in Schedulers : RegisterScheduler(s)
               \/ \E h \in Hooks : RegisterShutdownHook(h)
               \/ Remove
      BY <3>2 DEF RegisterConsumer, RegisterScheduler, RegisterShutdownHook, Remove
    <3>3. CASE \/ RunConsumers \/ InitConsumer \/ RunSchedulers \/ InitScheduler
               \/ RunRuntimes \/ Ready
               \/ \E r \in Runtimes : StartRuntime(r) \/ HookRuntime(r)
      BY <3>3 DEF RunConsumers, InitConsumer, RunSchedulers, InitScheduler, RunRuntimes,
         Ready, StartRuntime, HookRuntime
    <3>4. CASE \/ \E c \in Calls : Tick(c) \/ Fail(c) \/ Settle(c)
               \/ \E s \in Schedulers : RunNow(s) \/ RanNow(s) \/ PushNow(s)
      BY <3>4 DEF Tick, Fail, Settle, RunNow, RanNow, PushNow
    <3> QED
      BY <3>1, <3>2, <3>3, <3>4 DEF Next
  <2> QED
    BY <2>2, <2>3, <2>4
<1> QED
  BY <1>1, <1>2, <1>3 DEF DownInv

LEMMA TypeDownInvariance == Spec => [](TypeInv /\ DownInv)
<1>1. RunsInv => RunsTypeOK
  BY DEF RunsInv
<1>2. Spec => []RunsTypeOK
  BY <1>1, RunsInvariance, PTL
<1>3. TypeInv /\ DownInv /\ RunsTypeOK' /\ [Next]_vars => (TypeInv /\ DownInv)'
  BY TypeNext, DownNext
<1> QED
  BY <1>2, <1>3, TypeInit, DownInit, PTL DEF Spec

\* The lists hold what can be registered, the histories what was.
THEOREM KernelTypeCorrect == Spec => []TypeOK
<1>1. TypeInv => TypeOK
  BY DEF TypeInv
<1> QED
  BY <1>1, TypeDownInvariance, PTL

\* Whatever is registered or closed by others meanwhile, a shutdown() closes consumers,
\* then schedulers, then hooks, and of each the one registered last first.
THEOREM ReverseOrderHolds == Spec => []ReverseOrder
<1>1. TypeInv /\ DownInv => ReverseOrder
  <2> SUFFICES ASSUME TypeInv, DownInv, NEW d \in Shutdowns,
                      NEW i \in DOMAIN closed[d], NEW j \in DOMAIN closed[d], i < j
               PROVE  LET a == closed[d][i]
                          b == closed[d][j]
                      IN  /\ Rank(a) <= Rank(b)
                          /\ {a, b} \subseteq Runtimes \cup Hooks =>
                                 Position(shutdownHooks, a) > Position(shutdownHooks, b)
                          /\ {a, b} \subseteq Consumers /\ ~removed =>
                                 Position(consumersList, a) > Position(consumersList, b)
    BY DEF ReverseOrder
  <2> DEFINE a == closed[d][i]
             b == closed[d][j]
  <2>1. /\ Rank(a) <= Rank(b)
        /\ a \in HooksAndRuntimes /\ b \in HooksAndRuntimes => Before(shutdownHooks, b, a)
        /\ a \in Consumers /\ b \in Consumers /\ ~removed => Before(consumersList, b, a)
    BY DEF DownInv, DownOf, OrderOf
  <2>2. ASSUME NEW list \in {consumersList, shutdownHooks}, Before(list, b, a)
        PROVE  Position(list, a) > Position(list, b)
    <3>1. Distinct(list) /\ DOMAIN list \subseteq Int
      BY DEF DownInv, RegisteredOnce, TypeInv, TypeOK
    <3>2. PICK m, n \in DOMAIN list : m < n /\ list[m] = b /\ list[n] = a
      BY <2>2 DEF Before
    <3>3. Position(list, a) = n /\ Position(list, b) = m
      BY <3>1, <3>2, PositionIs
    <3> QED
      BY <3>1, <3>2, <3>3
  <2> HIDE DEF a, b
  <2>3. /\ Rank(a) <= Rank(b)
        /\ {a, b} \subseteq Runtimes \cup Hooks =>
               Position(shutdownHooks, a) > Position(shutdownHooks, b)
        /\ {a, b} \subseteq Consumers /\ ~removed =>
               Position(consumersList, a) > Position(consumersList, b)
    BY <2>1, <2>2 DEF HooksAndRuntimes
  <2> QED
    BY <2>3 DEF a, b
<1> QED
  BY <1>1, TypeDownInvariance, PTL

\* A shutdown() that resolves left nothing open of what it found started, even when it
\* was called in the middle of the startup or beside another one.
THEOREM ShutdownClosesAllHolds == Spec => []ShutdownClosesAll
<1>1. DownInv => ShutdownClosesAll
  BY DEF DownInv, DownOf, DueOf, Left, ShutdownClosesAll
<1> QED
  BY <1>1, TypeDownInvariance, PTL

(***************************************************************************)
(* The cron tasks and the entries that shutdown() finds them by.             *)
(***************************************************************************)
\* The entries of s among the first n.
Entries(list, s, n) == {i \in DOMAIN list : i <= n /\ list[i] = s}

EntriesOf(list, s) == {i \in DOMAIN list : list[i] = s}

Early == {"register", "runConsumers", "runSchedulers"}

\* The task that runSchedulerNowAndSchedule() makes.
Made(s) == IF now[s] \in {"push", "scheduled"} THEN 1 ELSE 0

\* That it makes before it adds the entry, and that it makes too soon.
Extra(s) == (IF now[s] = "push" THEN 1 ELSE 0) + (IF s \in early THEN 1 ELSE 0)

\* runSchedulers() makes one task for each entry it has passed; until then there is
\* none, but for a scheduler that is run now before the others.
TimersOf(s) ==
    /\ s \notin early /\ boot \in Early => now[s] = "no"
    /\ boot \in {"register", "runConsumers"} => timers[s] <= Made(s)
    /\ boot = "runSchedulers" /\ ~removed =>
          timers[s] <= Cardinality(Entries(schedulersList, s, next - 1)) + Made(s)
    /\ ~removed => timers[s] <= Cardinality(EntriesOf(schedulersList, s)) + Extra(s)

TimersInv == \A s \in Schedulers : TimersOf(s)

LEMMA EntriesCount ==
  ASSUME NEW S, NEW list \in Seq(S), NEW s, NEW n \in Int
  PROVE  /\ IsFiniteSet(EntriesOf(list, s)) /\ IsFiniteSet(Entries(list, s, n))
         /\ Cardinality(EntriesOf(list, s)) \in Nat
         /\ Cardinality(Entries(list, s, n)) \in Nat
         /\ Cardinality(Entries(list, s, n)) <= Cardinality(EntriesOf(list, s))
<1>1. DOMAIN list = 1..Len(list) /\ Len(list) \in Int
  BY LenProperties
<1>2. IsFiniteSet(DOMAIN list)
  BY <1>1, FS_Interval
<1>3. EntriesOf(list, s) \subseteq DOMAIN list /\ Entries(list, s, n) \subseteq EntriesOf(list, s)
  BY DEF Entries, EntriesOf
<1>4. IsFiniteSet(EntriesOf(list, s))
  BY <1>2, <1>3, FS_Subset
<1>5. /\ IsFiniteSet(Entries(list, s, n))
      /\ Cardinality(Entries(list, s, n)) <= Cardinality(EntriesOf(list, s))
  BY <1>3, <1>4, FS_Subset
<1> QED
  BY <1>4, <1>5, FS_CardinalityType

\* A longer list, or more of it, has no fewer entries.
LEMMA EntriesGrow ==
  ASSUME NEW S, NEW list \in Seq(S), NEW longer \in Seq(S), StartsWith(longer, list),
         NEW s, NEW m \in Int, NEW n \in Int, m <= n
  PROVE  /\ Cardinality(Entries(list, s, m)) <= Cardinality(Entries(longer, s, n))
         /\ Cardinality(EntriesOf(list, s)) <= Cardinality(EntriesOf(longer, s))
<1>1. DOMAIN list \subseteq Int
  OBVIOUS
<1>2. /\ Entries(list, s, m) \subseteq Entries(longer, s, n)
      /\ EntriesOf(list, s) \subseteq EntriesOf(longer, s)
  BY <1>1 DEF Entries, EntriesOf, StartsWith
<1>3. IsFiniteSet(Entries(longer, s, n)) /\ IsFiniteSet(EntriesOf(longer, s))
  BY EntriesCount
<1> QED
  BY <1>2, <1>3, FS_Subset

\* One entry more.
LEMMA EntriesAdd ==
  ASSUME NEW S, NEW list \in Seq(S), NEW s \in S
  PROVE  /\ \A n \in Nat : n + 1 \in DOMAIN list /\ list[n + 1] = s =>
                Cardinality(Entries(list, s, n + 1)) = Cardinality(Entries(list, s, n)) + 1
         /\ Cardinality(EntriesOf(Append(list, s), s)) = Cardinality(EntriesOf(list, s)) + 1
<1>1. ASSUME NEW n \in Nat, n + 1 \in DOMAIN list, list[n + 1] = s
      PROVE  Cardinality(Entries(list, s, n + 1)) = Cardinality(Entries(list, s, n)) + 1
  <2>1. DOMAIN list \subseteq Int
    OBVIOUS
  <2>2. Entries(list, s, n + 1) = Entries(list, s, n) \cup {n + 1}
    BY <1>1, <2>1 DEF Entries
  <2>3. n + 1 \notin Entries(list, s, n)
    BY DEF Entries
  <2>4. IsFiniteSet(Entries(list, s, n))
    BY EntriesCount
  <2> QED
    BY <2>2, <2>3, <2>4, FS_AddElement
<1>2. Cardinality(EntriesOf(Append(list, s), s)) = Cardinality(EntriesOf(list, s)) + 1
  <2> DEFINE new == Append(list, s)
  <2>1. /\ DOMAIN list = 1..Len(list)
        /\ DOMAIN new = 1..(Len(list) + 1)
        /\ Len(list) \in Nat
        /\ \A i \in 1..Len(list) : new[i] = list[i]
        /\ new[Len(list) + 1] = s
    BY AppendProperties, LenProperties
  <2> HIDE DEF new
  <2>2. EntriesOf(new, s) = EntriesOf(list, s) \cup {Len(list) + 1}
    BY <2>1 DEF EntriesOf
  <2>3. Len(list) + 1 \notin EntriesOf(list, s)
    BY <2>1 DEF EntriesOf
  <2>4. IsFiniteSet(EntriesOf(list, s))
    BY EntriesCount
  <2> QED
    BY <2>2, <2>3, <2>4, FS_AddElement DEF new
<1> QED
  BY <1>1, <1>2

LEMMA TimersInit == Init => TimersInv
<1> SUFFICES ASSUME Init, NEW s \in Schedulers PROVE TimersOf(s)
  BY DEF TimersInv
<1>1. timers[s] = 0 /\ now[s] = "no" /\ boot = "register"
  BY DEF Init
<1>2. <<>> \in Seq(Schedulers)
  BY Lists
<1>3. Cardinality(EntriesOf(schedulersList, s)) \in Nat
  <2>1. schedulersList \in Seq(Schedulers) /\ 0 \in Int
    BY <1>2 DEF Init
  <2> QED
    BY <2>1, EntriesCount
<1> QED
  BY <1>1, <1>3 DEF TimersOf, Made, Extra

\* A step that makes no task of s.
LEMMA TimersKeep ==
  ASSUME TypeInv, TypeInv', ListsGrow, NEW s \in Schedulers, TimersOf(s),
         early \subseteq early', now'[s] = now[s], timers'[s] <= timers[s],
         \/ UNCHANGED <<boot, next>>
         \/ boot' \notin Early
         \/ boot' = "runConsumers" /\ boot \in {"register", "runConsumers"}
         \/ boot' = "runSchedulers" /\ boot = "runConsumers"
  PROVE  TimersOf(s)'
<1> DEFINE passed == Cardinality(Entries(schedulersList, s, next - 1))
           all == Cardinality(EntriesOf(schedulersList, s))
<1>1. /\ schedulersList \in Seq(Schedulers) /\ schedulersList' \in Seq(Schedulers)
      /\ next - 1 \in Int /\ next' - 1 \in Int
      /\ timers[s] \in Nat /\ timers'[s] \in Nat
  BY DEF TypeInv, TypeOK
<1>2. removed => removed'
  BY DEF ListsGrow
<1>3. /\ passed \in Nat /\ passed' \in Nat
      /\ all \in Nat /\ all' \in Nat
  BY <1>1, EntriesCount
<1>4. ~removed' => all <= all' /\ (next' = next => passed <= passed')
  BY <1>1, EntriesGrow DEF ListsGrow
<1>m. /\ Made(s) \in 0..1 /\ Made(s)' = Made(s)
      /\ Extra(s) \in 0..2 /\ Extra(s)' \in 0..2 /\ Extra(s) <= Extra(s)'
  BY DEF Made, Extra
<1>5. s \notin early' /\ boot' \in Early => now'[s] = "no"
  BY DEF TimersOf, Early
<1>6. boot' \in {"register", "runConsumers"} => timers'[s] <= Made(s)'
  <2>1. boot' \in {"register", "runConsumers"} => timers[s] <= Made(s)
    BY DEF TimersOf, Early
  <2> QED
    BY <1>1, <1>m, <2>1
<1>7. boot' = "runSchedulers" /\ ~removed' => timers'[s] <= passed' + Made(s)'
  <2>1. CASE UNCHANGED <<boot, next>>
    <3>1. boot = "runSchedulers" /\ ~removed => timers[s] <= passed + Made(s)
      BY DEF TimersOf
    <3> HIDE DEF passed
    <3> QED
      BY <1>1, <1>2, <1>3, <1>4, <1>m, <2>1, <3>1
  <2>2. CASE boot' = "runSchedulers" /\ boot = "runConsumers"
    <3>1. timers[s] <= Made(s)
      BY <2>2 DEF TimersOf
    <3> HIDE DEF passed
    <3> QED
      BY <1>1, <1>3, <1>m, <3>1
  <2> QED
    BY <2>1, <2>2 DEF Early
<1>8. ~removed' => timers'[s] <= all' + Extra(s)'
  <2>1. ~removed => timers[s] <= all + Extra(s)
    BY DEF TimersOf
  <2> HIDE DEF all
  <2> QED
    BY <1>1, <1>2, <1>3, <1>4, <1>m, <2>1
<1> QED
  BY <1>5, <1>6, <1>7, <1>8 DEF TimersOf

\* runSchedulers() passes an entry and makes its task.
LEMMA InitSchedulerTimers ==
  ASSUME TypeInv, TimersInv, InitScheduler, boot' = boot, NEW s \in Schedulers
  PROVE  TimersOf(s)'
<1> DEFINE count(n) == Cardinality(Entries(schedulersList, s, n))
           all == Cardinality(EntriesOf(schedulersList, s))
<1>1. /\ boot = "runSchedulers" /\ next' = next + 1 /\ next \in DOMAIN schedulersList
      /\ timers' = [timers EXCEPT ![schedulersList[next]] = @ + 1]
      /\ UNCHANGED <<schedulersList, now, removed, early>>
  BY DEF InitScheduler, Put, TypeInv, TypeOK, lists
<1>2. schedulersList \in Seq(Schedulers) /\ next \in Nat /\ next - 1 \in Nat
  BY DEF TypeInv, TypeOK
<1>3. count(next - 1) \in Nat /\ count(next) \in Nat /\ all \in Nat /\ count(next) <= all
  BY <1>2, EntriesCount
<1>4. count(next - 1) <= count(next)
  BY <1>2, EntriesGrow DEF StartsWith
<1>5. s = schedulersList[next] => count(next) = count(next - 1) + 1
  <2>1. (next - 1) + 1 = next
    BY <1>2
  <2> QED
    BY <1>1, <1>2, <2>1, EntriesAdd
<1>6. timers[s] \in Nat /\ timers'[s] = (IF s = schedulersList[next] THEN timers[s] + 1 ELSE timers[s])
  BY <1>1 DEF TypeInv, TypeOK
<1>m. /\ Made(s) \in 0..1 /\ Made(s)' = Made(s)
      /\ Extra(s) \in 0..2 /\ Extra(s)' = Extra(s)
  BY <1>1 DEF Made, Extra
<1>7. ~removed => timers[s] <= count(next - 1) + Made(s)
  BY <1>1 DEF TimersInv, TimersOf
<1>8. ~removed => timers'[s] <= count(next) + Made(s)
  BY <1>3, <1>4, <1>5, <1>6, <1>7, <1>m
<1>9. next' - 1 = next
  BY <1>1, <1>2
<1>10. s \notin early => now[s] = "no"
  BY <1>1 DEF TimersInv, TimersOf, Early
<1>11. Made(s) <= Extra(s)
  BY <1>10 DEF Made, Extra
<1>12. ~removed => timers'[s] <= all + Extra(s)
  BY <1>3, <1>6, <1>8, <1>11, <1>m
<1> QED
  BY <1>1, <1>m, <1>8, <1>9, <1>10, <1>12 DEF TimersOf

\* runSchedulerNowAndSchedule() makes a task, whose entry it adds next.
LEMMA NowTimers ==
  ASSUME TypeInv, TypeInv', TimersInv, ListsGrow, NEW s \in Schedulers,
         RunNow(s) \/ RanNow(s) \/ PushNow(s), NEW x \in Schedulers
  PROVE  TimersOf(x)'
<1> DEFINE all == Cardinality(EntriesOf(schedulersList, s))
<1>1. UNCHANGED <<boot, next, removed>> /\ early \subseteq early'
  BY DEF RunNow, RanNow, PushNow
<1>2. /\ timers[s] \in Nat /\ timers'[s] \in Nat
      /\ schedulersList \in Seq(Schedulers)
      /\ all \in Nat
  <2>1. schedulersList \in Seq(Schedulers)
    BY DEF TypeInv, TypeOK
  <2>2. all \in Nat
    <3>1. 0 \in Int
      OBVIOUS
    <3> QED
      BY <2>1, <3>1, EntriesCount
  <2> QED
    BY <2>1, <2>2 DEF TypeInv, TypeOK
<1>3. CASE x # s
  <2>1. now'[x] = now[x] /\ timers'[x] = timers[x]
    BY <1>3 DEF RunNow, RanNow, PushNow, InitNow, NowAt, TypeInv, TypeOK
  <2>2. timers[x] \in Nat
    BY DEF TypeInv, TypeOK
  <2>3. timers'[x] <= timers[x]
    BY <2>1, <2>2
  <2> QED
    BY <1>1, <2>1, <2>3, TimersKeep DEF TimersInv
<1>4. CASE x = s
  <2> DEFINE passed == Cardinality(Entries(schedulersList, s, next - 1))
  <2>1. s \notin early' => boot \notin Early
    <3>1. CASE RunNow(s)
      BY <3>1 DEF RunNow, Early
    <3>2. CASE RanNow(s) \/ PushNow(s)
      <4>1. now[s] # "no"
        BY <3>2 DEF RanNow, PushNow, InitNow, NowAt
      <4> QED
        BY <1>1, <4>1 DEF TimersInv, TimersOf
    <3> QED
      BY <3>1, <3>2
  <2>2. \/ /\ PushNow(s)
           /\ now[s] = "push" /\ now'[s] = "scheduled" /\ timers'[s] = timers[s]
           /\ schedulersList' = Append(schedulersList, s)
        \/ /\ now[s] \notin {"push", "scheduled"}
           /\ schedulersList' = schedulersList
           /\ \/ timers'[s] = timers[s]
              \/ timers'[s] = timers[s] + 1 /\ now'[s] = "push"
    <3>1. CASE PushNow(s)
      BY <3>1 DEF PushNow, NowAt, TypeInv, TypeOK
    <3>2. CASE RunNow(s) \/ RanNow(s)
      BY <3>2 DEF RunNow, RanNow, InitNow, NowAt, TypeInv, TypeOK, lists
    <3> QED
      BY <3>1, <3>2
  <2>3. /\ Made(s) \in 0..1 /\ Made(s)' \in 0..1
        /\ timers'[s] <= timers[s] + (Made(s)' - Made(s))
    BY <1>2, <2>2 DEF Made
  <2>4. /\ passed \in Nat /\ passed' \in Nat
        /\ ~removed => passed <= passed'
    <3>1. /\ schedulersList \in Seq(Schedulers) /\ schedulersList' \in Seq(Schedulers)
          /\ next - 1 \in Int /\ next' = next
      BY <1>1 DEF TypeInv, TypeOK
    <3> QED
      BY <1>1, <3>1, EntriesCount, EntriesGrow DEF ListsGrow
  <2>5. boot \in {"register", "runConsumers"} => timers'[s] <= Made(s)'
    <3>1. boot \in {"register", "runConsumers"} => timers[s] <= Made(s)
      BY DEF TimersInv, TimersOf
    <3> QED
      BY <1>2, <2>3, <3>1
  <2>6. boot = "runSchedulers" /\ ~removed => timers'[s] <= passed' + Made(s)'
    <3>1. boot = "runSchedulers" /\ ~removed => timers[s] <= passed + Made(s)
      BY DEF TimersInv, TimersOf
    <3> HIDE DEF passed
    <3> QED
      BY <1>2, <2>3, <2>4, <3>1
  <2>7. ~removed => timers[s] <= all + Extra(s)
    BY DEF TimersInv, TimersOf
  <2>8. ~removed => timers'[s] <= Cardinality(EntriesOf(schedulersList', s)) + Extra(s)'
    <3>1. CASE PushNow(s)
      <4>1. /\ now[s] = "push" /\ now'[s] = "scheduled" /\ timers'[s] = timers[s]
            /\ schedulersList' = Append(schedulersList, s) /\ early' = early
        BY <2>2, <3>1 DEF PushNow
      <4>2. Cardinality(EntriesOf(schedulersList', s)) = all + 1
        BY <1>2, <4>1, EntriesAdd
      <4>3. Extra(s) \in 0..2 /\ Extra(s)' = Extra(s) - 1
        BY <4>1 DEF Extra
      <4> QED
        BY <1>2, <2>7, <4>1, <4>2, <4>3
    <3>2. CASE RunNow(s) \/ RanNow(s)
      <4>1. /\ now[s] # "push"
            /\ schedulersList' = schedulersList
            /\ \/ timers'[s] = timers[s]
               \/ timers'[s] = timers[s] + 1 /\ now'[s] = "push"
        BY <3>2 DEF RunNow, RanNow, InitNow, NowAt, TypeInv, TypeOK, lists
      <4>2. /\ Extra(s) \in 0..2 /\ Extra(s)' \in 0..2
            /\ timers'[s] <= timers[s] + (Extra(s)' - Extra(s))
        BY <1>1, <1>2, <4>1 DEF Extra
      <4>3. EntriesOf(schedulersList', s) = EntriesOf(schedulersList, s)
        BY <4>1
      <4> HIDE DEF all
      <4>4. ~removed => timers'[s] <= all + Extra(s)'
        BY <1>2, <2>7, <4>2
      <4> QED
        BY <4>3, <4>4 DEF all
    <3> QED
      BY <3>1, <3>2
  <2> QED
    BY <1>1, <1>4, <2>1, <2>5, <2>6, <2>8 DEF TimersOf, Early
<1> QED
  BY <1>3, <1>4

LEMMA TimersNext == TypeInv /\ TypeInv' /\ DownInv /\ TimersInv /\ [Next]_vars => TimersInv'
<1> SUFFICES ASSUME TypeInv, TypeInv', DownInv, TimersInv, [Next]_vars, NEW s \in Schedulers
             PROVE  TimersOf(s)'
  BY DEF TimersInv
<1>1. ListsGrow
  BY ListsStep DEF DownInv
<1>2. TimersOf(s) /\ timers[s] \in Nat
  BY DEF TimersInv, TypeInv, TypeOK
<1>3. ASSUME UNCHANGED early, UNCHANGED now, timers'[s] = timers[s] \/ timers'[s] = 0,
             \/ UNCHANGED <<boot, next>>
             \/ boot' \notin Early
             \/ boot' = "runConsumers" /\ boot \in {"register", "runConsumers"}
             \/ boot' = "runSchedulers" /\ boot = "runConsumers"
      PROVE  TimersOf(s)'
  <2>1. timers'[s] <= timers[s]
    BY <1>2, <1>3
  <2> QED
    BY <1>1, <1>2, <1>3, <2>1, TimersKeep
<1>4. CASE UNCHANGED vars \/ Rest
  BY <1>3, <1>4 DEF vars, Rest, startVars
<1>5. CASE \/ \E c \in Consumers : RegisterConsumer(c)
           \/ \E x \in Schedulers : RegisterScheduler(x)
           \/ \E h \in Hooks : RegisterShutdownHook(h)
           \/ Remove
  BY <1>3, <1>5 DEF RegisterConsumer, RegisterScheduler, RegisterShutdownHook, Remove,
     startVars
<1>6. CASE RunConsumers \/ InitConsumer \/ RunSchedulers \/ RunRuntimes \/ Ready
  BY <1>3, <1>6 DEF RunConsumers, InitConsumer, RunSchedulers, RunRuntimes, Ready, Put, Early
<1>7. CASE InitScheduler
  <2>1. CASE boot' = boot
    BY <1>7, <2>1, InitSchedulerTimers
  <2>2. CASE boot' # boot
    BY <1>3, <1>7, <2>2 DEF InitScheduler, Put, Early
  <2> QED
    BY <2>1, <2>2
<1>8. CASE \E r \in Runtimes : StartRuntime(r) \/ HookRuntime(r)
  BY <1>3, <1>8 DEF StartRuntime, HookRuntime, Put, startVars, Early
<1>9. CASE \E c \in Calls : Tick(c) \/ Fail(c) \/ Settle(c)
  BY <1>3, <1>9 DEF Tick, Fail, Settle, startVars
<1>10. CASE \E x \in Schedulers : RunNow(x) \/ RanNow(x) \/ PushNow(x)
  BY <1>1, <1>10, NowTimers
<1>11. CASE \E d \in Shutdowns :
              \/ Shutdown(d) \/ Close(d)
              \/ CloseSchedulers(d) \/ CloseHooks(d) \/ CloseLogger(d) \/ Finish(d)
  BY <1>3, <1>11 DEF Shutdown, Close, CloseSchedulers, CloseHooks, CloseLogger, Finish, Loop,
     startVars
<1> QED
  BY <1>4, <1>5, <1>6, <1>7, <1>8, <1>9, <1>10, <1>11 DEF Next

\* shutdown() finds an entry for every cron task there is, but for one that
\* runSchedulerNowAndSchedule() made before runSchedulers() was through, as long as no
\* registrations are removed.
THEOREM TimersListedHolds == Spec => []TimersListed
<1>1. TypeInv /\ TimersInv => TimersListed
  <2> SUFFICES ASSUME TypeInv, TimersInv, NEW s \in Schedulers, ~removed
               PROVE  timers[s] <= Cardinality(EntriesOf(schedulersList, s))
                                      + (IF now[s] = "push" THEN 1 ELSE 0)
                                      + (IF s \in early THEN 1 ELSE 0)
    BY DEF TimersListed, EntriesOf
  <2>1. Cardinality(EntriesOf(schedulersList, s)) \in Nat
    <3>1. schedulersList \in Seq(Schedulers) /\ 0 \in Int
      BY DEF TypeInv, TypeOK
    <3> QED
      BY <3>1, EntriesCount
  <2>2. timers[s] \in Nat
    BY DEF TypeInv, TypeOK
  <2>3. timers[s] <= Cardinality(EntriesOf(schedulersList, s)) + Extra(s)
    BY DEF TimersInv, TimersOf
  <2> QED
    BY <2>1, <2>2, <2>3 DEF Extra
<1>2. Spec => []TimersInv
  BY TimersInit, TimersNext, TypeDownInvariance, PTL DEF Spec
<1> QED
  BY <1>1, <1>2, TypeDownInvariance, PTL

=================================================================================
