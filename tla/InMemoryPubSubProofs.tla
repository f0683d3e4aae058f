------------------------ MODULE InMemoryPubSubProofs ------------------------
\* Proofs about InMemoryPubSub, for any number of publishes, hooks, handlers and
\* subscriptions, and for both adapters.
EXTENDS InMemoryPubSub, FiniteSetTheorems, TLAPS

-----------------------------------------------------------------------------
\* Types.

LEMMA InitType == Init => TypeOK
<1> SUFFICES ASSUME Init PROVE TypeOK
  OBVIOUS
<1>1. hooks \in 0..MaxHooks /\ 0 \in 0..MaxHooks
  BY MaxHooksAssumption DEF Init, PipelineInit
<1>2. PipelineTypeOK
  <2>1. stage \in [Publishes -> Stages] /\ failure \in [Publishes -> Failures]
    BY DEF Init, PipelineInit, Stages, Failures
  <2>2. at \in [Publishes -> 0..MaxHooks] /\ began \in [Publishes -> 0..MaxHooks]
    BY <1>1 DEF Init, PipelineInit
  <2>3. ran \in [Publishes -> [Methods -> 0..MaxHooks]]
    BY <1>1 DEF Init, PipelineInit
  <2>4. QED
    BY <1>1, <2>1, <2>2, <2>3 DEF PipelineTypeOK
<1>3. entries \in Seq(Handlers \cup {Gone})
  BY DEF Init
<1>4. /\ calls \in [Publishes -> [Handlers -> Nat]]
      /\ expected \in [Publishes -> [Handlers -> Nat]]
      /\ position \in [Publishes -> Nat]
  BY DEF Init
<1>5. /\ captured \in [Publishes -> BOOLEAN]
      /\ touched \in [Publishes -> SUBSET Handlers]
      /\ subscription \in [Subscriptions -> {"none", "open", "closed"}]
  BY DEF Init
<1>6. QED
  BY <1>2, <1>3, <1>4, <1>5 DEF Init, TypeOK

LEMMA LoopType ==
    ASSUME TypeOK, NEW p \in Publishes, NEW m \in Methods, NEW i \in Nat \ {0},
           Loop(p, m, i)
    PROVE  /\ stage' \in [Publishes -> Stages]
           /\ at' \in [Publishes -> 0..MaxHooks]
           /\ ran' \in [Publishes -> [Methods -> 0..MaxHooks]]
<1>1. LoopOf[m] \in Stages /\ ExitOf[m] \in Stages
  BY DEF LoopOf, ExitOf, Stages, Methods
<1>2. CASE i <= hooks
  <2>1. i \in 0..MaxHooks
    BY <1>2, MaxHooksAssumption DEF TypeOK, PipelineTypeOK
  <2>2. /\ stage' = [stage EXCEPT ![p] = LoopOf[m]]
        /\ at' = [at EXCEPT ![p] = i]
        /\ ran' = [ran EXCEPT ![p][m] = i]
    BY <1>2 DEF Loop, Step
  <2>3. stage' \in [Publishes -> Stages] /\ at' \in [Publishes -> 0..MaxHooks]
    BY <1>1, <2>1, <2>2 DEF TypeOK, PipelineTypeOK
  <2>4. ran' \in [Publishes -> [Methods -> 0..MaxHooks]]
    BY <2>1, <2>2 DEF TypeOK, PipelineTypeOK
  <2>5. QED
    BY <2>3, <2>4
<1>3. CASE ~(i <= hooks)
  <2>1. /\ stage' = [stage EXCEPT ![p] = ExitOf[m]]
        /\ at' = [at EXCEPT ![p] = 0]
        /\ ran' = ran
    BY <1>3 DEF Loop, Step
  <2>2. 0 \in 0..MaxHooks
    BY MaxHooksAssumption
  <2>3. stage' \in [Publishes -> Stages] /\ at' \in [Publishes -> 0..MaxHooks]
    BY <1>1, <2>1, <2>2 DEF TypeOK, PipelineTypeOK
  <2>4. QED
    BY <2>1, <2>3 DEF TypeOK, PipelineTypeOK
<1>4. QED
  BY <1>2, <1>3

LEMMA HookStepType ==
    ASSUME TypeOK, NEW p \in Publishes, HookStep(p) \/ Run(p)
    PROVE  PipelineTypeOK'
<1> DEFINE Typed == /\ stage' \in [Publishes -> Stages]
                    /\ at' \in [Publishes -> 0..MaxHooks]
                    /\ ran' \in [Publishes -> [Methods -> 0..MaxHooks]]
<1>1. at[p] + 1 \in Nat \ {0} /\ 1 \in Nat \ {0} /\ 0 \in 0..MaxHooks
  BY MaxHooksAssumption DEF TypeOK, PipelineTypeOK
<1>2. {"beforePublish", "afterPublish", "onPublishError"} = Methods
  BY DEF Methods
<1>3. CASE Run(p)
  <2>1. Typed
    BY <1>1, <1>2, <1>3, LoopType DEF Run
  <2>2. began' \in [Publishes -> 0..MaxHooks]
    BY <1>3 DEF Run, TypeOK, PipelineTypeOK
  <2>3. QED
    BY <1>3, <2>1, <2>2 DEF Run, TypeOK, PipelineTypeOK
<1>4. ASSUME NEW m \in Methods, HookSettles(p, m) PROVE PipelineTypeOK'
  <2>1. Typed
    BY <1>1, <1>4, LoopType DEF HookSettles
  <2>2. QED
    BY <1>4, <2>1 DEF HookSettles, TypeOK, PipelineTypeOK
<1>5. CASE Published(p) \/ PolicyForgives(p) \/ Catch(p)
  <2>1. Typed
    BY <1>1, <1>2, <1>5, LoopType DEF Published, PolicyForgives, Catch
  <2>2. QED
    BY <1>5, <2>1 DEF Published, PolicyForgives, Catch, TypeOK, PipelineTypeOK
<1>6. CASE AfterHookFails(p)
  BY <1>6 DEF AfterHookFails, Step, TypeOK, PipelineTypeOK, Stages
<1>7. CASE BeforeHookFails(p) \/ PolicyFails(p) \/ ErrorHookFails(p)
  <2>1. \E kind \in Failures, s \in Stages : Throw(p, kind, s)
    BY <1>7 DEF BeforeHookFails, PolicyFails, ErrorHookFails, Failures, Stages
  <2>2. QED
    BY <1>1, <2>1 DEF Throw, Step, TypeOK, PipelineTypeOK
<1>8. QED
  BY <1>3, <1>4, <1>5, <1>6, <1>7 DEF HookStep

LEMMA TakeType ==
    ASSUME TypeOK, NEW p \in Publishes, NEW i \in Nat, Take(p, i)
    PROVE  /\ stage' \in [Publishes -> Stages]
           /\ position' \in [Publishes -> Nat]
           /\ calls' \in [Publishes -> [Handlers -> Nat]]
<1>1. ASSUME NEW j \in Ahead(p, i),
             Step(p, "publishing"),
             position' = [position EXCEPT ![p] = j],
             calls' = [calls EXCEPT ![p][entries[j]] = @ + 1]
      PROVE  /\ stage' \in [Publishes -> Stages]
             /\ position' \in [Publishes -> Nat]
             /\ calls' \in [Publishes -> [Handlers -> Nat]]
  <2>1. j \in Nat /\ entries[j] \in Handlers
    BY DEF Ahead, TypeOK
  <2>2. stage' \in [Publishes -> Stages]
    BY <1>1 DEF Step, TypeOK, PipelineTypeOK, Stages
  <2>3. position' \in [Publishes -> Nat]
    BY <1>1, <2>1 DEF TypeOK
  <2>4. calls' \in [Publishes -> [Handlers -> Nat]]
    <3>1. [calls[p] EXCEPT ![entries[j]] = @ + 1] \in [Handlers -> Nat]
      BY <2>1 DEF TypeOK
    <3>2. QED
      BY <1>1, <3>1 DEF TypeOK
  <2>5. QED
    BY <2>2, <2>3, <2>4
<1>2. QED
  BY <1>1 DEF Take, Step, TypeOK, PipelineTypeOK, Stages

LEMMA NextType == TypeOK /\ [Next]_vars => TypeOK'
<1> SUFFICES ASSUME TypeOK, [Next]_vars PROVE TypeOK'
  OBVIOUS
<1> USE DEF TypeOK
<1>1. ASSUME NEW s \in Subscriptions, Subscribe(s) PROVE TypeOK'
  <2>1. HandlerOf[s] \in Handlers
    BY HandlerOfAssumption
  <2>2. entries' \in Seq(Handlers \cup {Gone})
    BY <1>1, <2>1 DEF Subscribe, Added
  <2>3. touched' \in [Publishes -> SUBSET Handlers]
    BY <1>1, <2>1 DEF Subscribe, Touch
  <2>4. QED
    BY <1>1, <2>2, <2>3 DEF Subscribe, pipelineVars, deliveryVars, PipelineTypeOK
<1>2. ASSUME NEW s \in Subscriptions, Close(s) PROVE TypeOK'
  <2>1. HandlerOf[s] \in Handlers
    BY HandlerOfAssumption
  <2>2. entries' \in Seq(Handlers \cup {Gone})
    BY <1>2, <2>1 DEF Close, Deleted
  <2>3. touched' \in [Publishes -> SUBSET Handlers]
    BY <1>2, <2>1 DEF Close, Touch
  <2>4. QED
    BY <1>2, <2>2, <2>3 DEF Close, pipelineVars, deliveryVars, PipelineTypeOK
<1>3. CASE RegisterHook /\ UNCHANGED <<adapter, subscriberVars, deliveryVars>>
  <2>1. PipelineTypeOK'
    BY <1>3, MaxHooksAssumption DEF RegisterHook, PipelineTypeOK
  <2>2. QED
    BY <1>3, <2>1 DEF subscriberVars, deliveryVars
<1>4. ASSUME NEW p \in Publishes, Publish(p) PROVE TypeOK'
  <2>1. \A h \in Handlers : Cardinality(EntriesOf(h)) \in Nat
    <3>1. ASSUME NEW h \in Handlers PROVE IsFiniteSet(EntriesOf(h))
      <4>1. IsFiniteSet(1..Len(entries))
        BY FS_Interval
      <4>2. EntriesOf(h) \subseteq 1..Len(entries)
        BY DEF EntriesOf
      <4>3. QED
        BY <4>1, <4>2, FS_Subset
    <3>2. QED
      BY <3>1, FS_CardinalityType
  <2>2. PipelineTypeOK'
    BY <1>4, HookStepType DEF Publish
  <2>3. QED
    BY <1>4, <2>1, <2>2 DEF Publish, subscriberVars
<1>5. ASSUME NEW p \in Publishes, PublishStep(p) PROVE TypeOK'
  <2>1. CASE HookStep(p) /\ UNCHANGED <<adapter, subscriberVars, deliveryVars>>
    BY <2>1, HookStepType DEF subscriberVars, deliveryVars
  <2>2. CASE Hooked(p)
    BY <2>2, TakeType DEF Hooked, subscriberVars, PipelineTypeOK
  <2>3. CASE HandlerSucceeds(p)
    <3>1. position[p] + 1 \in Nat
      OBVIOUS
    <3>2. QED
      BY <2>3, <3>1, TakeType DEF HandlerSucceeds, subscriberVars, PipelineTypeOK
  <2>4. CASE HandlerFails(p)
    BY <2>4, MaxHooksAssumption
    DEF HandlerFails, Throw, Step, subscriberVars, deliveryVars, PipelineTypeOK,
        Stages, Failures
  <2>5. QED
    BY <1>5, <2>1, <2>2, <2>3, <2>4 DEF PublishStep
<1>6. CASE UNCHANGED vars
  BY <1>6 DEF vars, pipelineVars, subscriberVars, deliveryVars, PipelineTypeOK
<1>7. QED
  BY <1>1, <1>2, <1>3, <1>4, <1>5, <1>6 DEF Next

\* Every variable of the adapters and of their hook pipeline keeps its type.
THEOREM TypeCorrect == Spec => []TypeOK
<1>1. Init => TypeOK
  BY InitType
<1>2. TypeOK /\ [Next]_vars => TypeOK'
  BY NextType
<1>3. QED
  BY <1>1, <1>2, PTL DEF Spec

-----------------------------------------------------------------------------
\* Subscriptions and entries.

\* Every entry belongs to an open subscription.
EntryIsOpen(i) ==
    entries[i] # Gone =>
       \E s \in Subscriptions :
          HandlerOf[s] = entries[i] /\ subscription[s] = "open"

SubscriberInv ==
    /\ \A i \in DOMAIN entries : EntryIsOpen(i)
    /\ OpenIsSubscribed
    /\ known = FALSE => entries = <<>>

LEMMA InitSubscribers == Init => SubscriberInv
  BY DEF Init, SubscriberInv, OpenIsSubscribed

\* subscribe() and close() of s leave the entries of other handlers alone.
LEMMA OtherEntries ==
    ASSUME TypeOK, NEW s \in Subscriptions, Subscribe(s) \/ Close(s),
           NEW h \in Handlers \ {HandlerOf[s]}
    PROVE  EntriesOf(h)' = EntriesOf(h)
<1>1. HandlerOf[s] \in Handlers /\ h # Gone
  BY HandlerOfAssumption, GoneAssumption
<1>2. DOMAIN entries = 1..Len(entries) /\ Len(entries) \in Nat
  BY DEF TypeOK
<1>3. CASE Subscribe(s) /\ entries' # entries
  <2>1. entries' = Append(entries, HandlerOf[s])
    BY <1>3 DEF Subscribe, Added
  <2>2. /\ DOMAIN entries' = 1..Len(entries) + 1
        /\ \A i \in 1..Len(entries) : entries'[i] = entries[i]
        /\ entries'[Len(entries) + 1] = HandlerOf[s]
    BY <1>1, <2>1 DEF TypeOK
  <2>3. QED
    BY <1>2, <2>2 DEF EntriesOf
<1>4. CASE Close(s)
  <2>1. /\ DOMAIN entries' = 1..Len(entries)
        /\ \A i \in 1..Len(entries) :
              entries'[i] = IF entries[i] = HandlerOf[s] THEN Gone ELSE entries[i]
    BY <1>4 DEF Close, Deleted
  <2>2. QED
    BY <1>1, <1>2, <2>1 DEF EntriesOf
<1>5. QED
  BY <1>3, <1>4 DEF EntriesOf

LEMMA NextSubscribers == TypeOK /\ SubscriberInv /\ [Next]_vars => SubscriberInv'
<1> SUFFICES ASSUME TypeOK, SubscriberInv, [Next]_vars PROVE SubscriberInv'
  OBVIOUS
<1>1. DOMAIN entries = 1..Len(entries) /\ Len(entries) \in Nat
  BY DEF TypeOK
<1>2. ASSUME NEW s \in Subscriptions, Subscribe(s) PROVE SubscriberInv'
  <2>1. HandlerOf[s] \in Handlers /\ HandlerOf[s] # Gone
    BY HandlerOfAssumption, GoneAssumption
  <2>2. subscription' = [subscription EXCEPT ![s] = "open"] /\ known'
    BY <1>2 DEF Subscribe
  <2>3. \A i \in DOMAIN entries : EntryIsOpen(i)
    BY DEF SubscriberInv
  <2>4. \A t \in Subscriptions :
           subscription[t] = "open" => subscription'[t] = "open"
    BY <2>2 DEF TypeOK
  <2>5. subscription'[s] = "open"
    BY <2>2 DEF TypeOK
  <2>6. (\A i \in DOMAIN entries' : EntryIsOpen(i)') /\ EntriesOf(HandlerOf[s])' # {}
    <3>1. CASE entries' = entries
      <4>1. EntriesOf(HandlerOf[s]) # {}
        <5>1. Append(entries, HandlerOf[s]) # entries
          <6>1. Len(Append(entries, HandlerOf[s])) = Len(entries) + 1
            BY <2>1 DEF TypeOK
          <6>2. \A n \in Nat : n + 1 # n
            OBVIOUS
          <6>3. Len(entries) \in Nat
            BY <1>1
          <6>4. QED
            BY <6>1, <6>2, <6>3, Zenon
        <5>2. entries' = Added(HandlerOf[s])
          BY <1>2 DEF Subscribe
        <5>3. QED
          BY <3>1, <5>1, <5>2 DEF Added
      <4>2. QED
        BY <2>3, <2>4, <3>1, <4>1 DEF EntryIsOpen, EntriesOf
    <3>2. CASE entries' = Append(entries, HandlerOf[s])
      <4>1. /\ DOMAIN entries' = 1..Len(entries) + 1
            /\ \A i \in 1..Len(entries) : entries'[i] = entries[i]
            /\ entries'[Len(entries) + 1] = HandlerOf[s]
        BY <2>1, <3>2 DEF TypeOK
      <4>2. \A i \in DOMAIN entries' : EntryIsOpen(i)'
        BY <1>1, <2>3, <2>4, <2>5, <4>1 DEF EntryIsOpen
      <4>3. Len(entries) + 1 \in EntriesOf(HandlerOf[s])'
        BY <1>1, <4>1 DEF EntriesOf
      <4>4. QED
        BY <4>2, <4>3
    <3>3. QED
      BY <1>2, <3>1, <3>2 DEF Subscribe, Added
  <2>7. ASSUME NEW t \in Subscriptions, subscription'[t] = "open",
               \A u \in Subscriptions :
                  HandlerOf[u] = HandlerOf[t] => subscription'[u] # "closed"
        PROVE  EntriesOf(HandlerOf[t])' # {}
    <3>1. CASE HandlerOf[t] = HandlerOf[s]
      BY <2>6, <3>1
    <3>2. CASE HandlerOf[t] # HandlerOf[s]
      <4>1. /\ subscription[t] = "open"
            /\ \A u \in Subscriptions :
                  HandlerOf[u] = HandlerOf[t] => subscription[u] # "closed"
        BY <2>2, <2>7, <3>2 DEF TypeOK
      <4>2. EntriesOf(HandlerOf[t]) # {}
        BY <4>1 DEF SubscriberInv, OpenIsSubscribed
      <4>3. HandlerOf[t] \in Handlers \ {HandlerOf[s]}
        BY <3>2, HandlerOfAssumption
      <4>4. QED
        BY <1>2, <4>2, <4>3, OtherEntries
    <3>3. QED
      BY <3>1, <3>2
  <2>8. QED
    BY <2>2, <2>6, <2>7 DEF SubscriberInv, OpenIsSubscribed
<1>3. ASSUME NEW s \in Subscriptions, Close(s) PROVE SubscriberInv'
  <2>1. subscription' = [subscription EXCEPT ![s] = "closed"]
    BY <1>3 DEF Close
  <2>2. /\ DOMAIN entries' = 1..Len(entries)
        /\ \A i \in 1..Len(entries) :
              entries'[i] = IF entries[i] = HandlerOf[s] THEN Gone ELSE entries[i]
    BY <1>3 DEF Close, Deleted
  <2>3. ASSUME NEW i \in DOMAIN entries' PROVE EntryIsOpen(i)'
    <3>1. CASE entries'[i] # Gone
      <4>1. entries'[i] = entries[i] /\ entries[i] # HandlerOf[s]
        BY <2>2, <3>1
      <4>2. PICK t \in Subscriptions :
               HandlerOf[t] = entries[i] /\ subscription[t] = "open"
        BY <1>1, <2>2, <3>1, <4>1 DEF SubscriberInv, EntryIsOpen
      <4>3. subscription'[t] = "open"
        BY <2>1, <4>1, <4>2 DEF TypeOK
      <4>4. QED
        BY <4>1, <4>2, <4>3 DEF EntryIsOpen
    <3>2. QED
      BY <3>1 DEF EntryIsOpen
  <2>4. ASSUME NEW t \in Subscriptions, subscription'[t] = "open",
               \A u \in Subscriptions :
                  HandlerOf[u] = HandlerOf[t] => subscription'[u] # "closed"
        PROVE  EntriesOf(HandlerOf[t])' # {}
    <3>1. HandlerOf[t] # HandlerOf[s] /\ t # s
      BY <2>1, <2>4 DEF TypeOK
    <3>2. /\ subscription[t] = "open"
          /\ \A u \in Subscriptions :
                HandlerOf[u] = HandlerOf[t] => subscription[u] # "closed"
      BY <2>1, <2>4, <3>1 DEF TypeOK
    <3>3. EntriesOf(HandlerOf[t]) # {}
      BY <3>2 DEF SubscriberInv, OpenIsSubscribed
    <3>4. HandlerOf[t] \in Handlers \ {HandlerOf[s]}
      BY <3>1, HandlerOfAssumption
    <3>5. QED
      BY <1>3, <3>3, <3>4, OtherEntries
  <2>5. known' = FALSE => entries' = <<>>
    BY <1>1, <1>3, <2>2 DEF Close, Deleted, SubscriberInv
  <2>6. QED
    BY <2>3, <2>4, <2>5 DEF SubscriberInv, OpenIsSubscribed
<1>4. ASSUME UNCHANGED subscriberVars PROVE SubscriberInv'
  BY <1>4 DEF subscriberVars, SubscriberInv, OpenIsSubscribed, EntryIsOpen, EntriesOf
<1>5. QED
  BY <1>2, <1>3, <1>4
  DEF Next, Publish, PublishStep, Hooked, HandlerSucceeds, HandlerFails, vars

\* An open subscription stays among the subscribers as long as none of the same
\* handler is closed.
THEOREM OpenIsSubscribedHolds == Spec => []OpenIsSubscribed
<1>1. Init => TypeOK /\ SubscriberInv
  BY InitType, InitSubscribers
<1>2. TypeOK /\ SubscriberInv /\ [Next]_vars => TypeOK' /\ SubscriberInv'
  BY NextType, NextSubscribers
<1>3. SubscriberInv => OpenIsSubscribed
  BY DEF SubscriberInv
<1>4. QED
  BY <1>1, <1>2, <1>3, PTL DEF Spec

\* The iterator of a publish calls the handler of a live entry.
LEMMA TakeCallsOpen ==
    ASSUME TypeOK, SubscriberInv, NEW q \in Publishes, NEW i \in Nat, Take(q, i),
           NEW p \in Publishes, NEW h \in Handlers, calls'[p][h] # calls[p][h]
    PROVE  \E s \in Subscriptions : HandlerOf[s] = h /\ subscription[s] = "open"
<1>1. PICK j \in Ahead(q, i) : calls' = [calls EXCEPT ![q][entries[j]] = @ + 1]
  BY DEF Take
<1>2. j \in DOMAIN entries /\ entries[j] # Gone
  BY DEF Ahead
<1>3. h = entries[j]
  BY <1>1 DEF TypeOK
<1>4. QED
  BY <1>2, <1>3 DEF SubscriberInv, EntryIsOpen

\* No publish, however far it is, calls a handler that has no open subscription.
THEOREM ClosedIsSilentHolds == Spec => ClosedIsSilent
<1> DEFINE Silent == \A p \in Publishes, h \in Handlers :
          calls'[p][h] # calls[p][h] =>
             \E s \in Subscriptions :
                HandlerOf[s] = h /\ subscription[s] = "open"
<1>1. TypeOK /\ SubscriberInv /\ [Next]_vars => [Silent]_vars
  <2> SUFFICES ASSUME TypeOK, SubscriberInv, Next PROVE Silent
    OBVIOUS
  <2>1. CASE UNCHANGED calls
    BY <2>1
  <2>2. ASSUME NEW q \in Publishes, Hooked(q) \/ HandlerSucceeds(q) PROVE Silent
    <3>1. position[q] + 1 \in Nat
      BY DEF TypeOK
    <3>2. PICK i \in Nat : Take(q, i)
      BY <2>2, <3>1 DEF Hooked, HandlerSucceeds
    <3>3. QED
      BY <3>2, TakeCallsOpen
  <2>3. QED
    BY <2>1, <2>2
    DEF Next, Subscribe, Close, Publish, PublishStep, HandlerFails, deliveryVars
<1>2. Init => TypeOK /\ SubscriberInv
  BY InitType, InitSubscribers
<1>3. TypeOK /\ SubscriberInv /\ [Next]_vars => TypeOK' /\ SubscriberInv'
  BY NextType, NextSubscribers
<1>4. QED
  BY <1>1, <1>2, <1>3, PTL DEF Spec, ClosedIsSilent

-----------------------------------------------------------------------------
\* The walk through the entries.

\* The entries of h a publish is to call, and those its iterator has reached.
Seen(p, h) == {i \in EntriesOf(h) : captured[p]}
Passed(p, h) == {i \in EntriesOf(h) : captured[p] /\ i <= position[p]}

Underway(p) == stage[p] \in {"before", "hooked", "publishing"}

WalkOf(p, h) ==
    /\ stage[p] \in {"idle", "before", "hooked"} =>
          position[p] = 0 /\ calls[p][h] = 0
    /\ Underway(p) /\ h \notin touched[p] =>
          /\ expected[p][h] = Cardinality(Seen(p, h))
          /\ calls[p][h] = Cardinality(Passed(p, h))
    /\ Delivered(p) /\ h \notin touched[p] => calls[p][h] = expected[p][h]

WalkInv == \A p \in Publishes, h \in Handlers : WalkOf(p, h)

LEMMA InitWalk == Init => WalkInv
  BY DEF Init, PipelineInit, WalkInv, WalkOf, Underway, Delivered

LEMMA EntriesFinite ==
    ASSUME TypeOK, NEW h PROVE IsFiniteSet(EntriesOf(h))
<1>1. IsFiniteSet(1..Len(entries))
  BY FS_Interval DEF TypeOK
<1>2. EntriesOf(h) \subseteq 1..Len(entries)
  BY DEF EntriesOf, TypeOK
<1>3. QED
  BY <1>1, <1>2, FS_Subset

LEMMA TakeWalks ==
    ASSUME TypeOK, NEW p \in Publishes, NEW h \in Handlers, WalkOf(p, h),
           stage[p] \in {"hooked", "publishing"}, Take(p, position[p] + 1),
           UNCHANGED <<captured, expected, touched, entries>>
    PROVE  WalkOf(p, h)'
<1>1. SUFFICES ASSUME h \notin touched[p] PROVE WalkOf(p, h)'
  BY DEF Take, Step, WalkOf, Underway, Delivered, TypeOK, PipelineTypeOK
<1>2. /\ expected[p][h] = Cardinality(Seen(p, h))
      /\ calls[p][h] = Cardinality(Passed(p, h))
  BY <1>1 DEF WalkOf, Underway
<1>3. \A i \in EntriesOf(h) : i \in Nat /\ i \in DOMAIN entries /\ entries[i] # Gone
  BY GoneAssumption DEF EntriesOf, TypeOK
<1>4. position[p] \in Nat
  BY DEF TypeOK
<1>5. ASSUME NEW j \in Ahead(p, position[p] + 1),
             \A k \in Ahead(p, position[p] + 1) : j <= k,
             Step(p, "publishing"),
             position' = [position EXCEPT ![p] = j],
             calls' = [calls EXCEPT ![p][entries[j]] = @ + 1]
      PROVE  WalkOf(p, h)'
  <2>1. /\ j \in DOMAIN entries /\ j \in Nat /\ captured[p]
        /\ j >= position[p] + 1 /\ entries[j] # Gone
    BY DEF Ahead, TypeOK
  <2>2. position'[p] = j /\ stage'[p] = "publishing"
    BY <1>5 DEF Step, TypeOK, PipelineTypeOK
  <2>3. Passed(p, h)' = {i \in EntriesOf(h) : i <= j}
    BY <2>1, <2>2 DEF Passed, EntriesOf
  <2>4. \A i \in EntriesOf(h) : i <= j => i <= position[p] \/ i = j
    BY <1>3, <1>4, <1>5, <2>1 DEF Ahead
  <2>5. IsFiniteSet(Passed(p, h)) /\ j \notin Passed(p, h)
    <3>1. Passed(p, h) \subseteq EntriesOf(h)
      BY DEF Passed
    <3>2. QED
      BY <1>4, <2>1, <3>1, EntriesFinite, FS_Subset DEF Passed
  <2>6. calls'[p][h] = Cardinality(Passed(p, h)')
    <3>1. CASE entries[j] = h
      <4>1. j \in EntriesOf(h)
        BY <2>1, <3>1 DEF EntriesOf
      <4>2. Passed(p, h)' = Passed(p, h) \cup {j}
        BY <1>3, <1>4, <2>1, <2>3, <2>4, <4>1 DEF Passed
      <4>3. Cardinality(Passed(p, h)') = Cardinality(Passed(p, h)) + 1
        BY <2>5, <4>2, FS_AddElement
      <4>4. calls'[p][h] = calls[p][h] + 1
        BY <1>5, <3>1 DEF TypeOK
      <4>5. QED
        BY <1>2, <4>3, <4>4
    <3>2. CASE entries[j] # h
      <4>1. j \notin EntriesOf(h)
        BY <3>2 DEF EntriesOf
      <4>2. Passed(p, h)' = Passed(p, h)
        BY <1>3, <1>4, <2>1, <2>3, <2>4, <4>1 DEF Passed
      <4>3. calls'[p][h] = calls[p][h]
        BY <1>5, <3>2 DEF TypeOK
      <4>4. QED
        BY <1>2, <4>2, <4>3
    <3>3. QED
      BY <3>1, <3>2
  <2>7. Seen(p, h)' = Seen(p, h)
    BY DEF Seen, EntriesOf
  <2>8. QED
    BY <1>2, <2>2, <2>6, <2>7 DEF WalkOf, Underway, Delivered
<1>6. CASE Ahead(p, position[p] + 1) = {} /\ Step(p, "returned") /\ UNCHANGED calls
  <2>1. stage'[p] = "returned"
    BY <1>6 DEF Step, TypeOK, PipelineTypeOK
  <2>2. Passed(p, h) = Seen(p, h)
    BY <1>3, <1>4, <1>6 DEF Passed, Seen, Ahead
  <2>3. QED
    BY <1>2, <1>6, <2>1, <2>2 DEF WalkOf, Underway, Delivered
<1>7. QED
  BY <1>5, <1>6 DEF Take

\* Hooks neither start a delivery nor end one.
LEMMA HookStepStage ==
    ASSUME TypeOK, NEW p \in Publishes, HookStep(p)
    PROVE  /\ \A q \in Publishes \ {p} : stage'[q] = stage[q]
           /\ \/ stage[p] = "before" /\ stage'[p] \in {"before", "hooked", "failed"}
              \/ /\ stage[p] \in {"returned", "after", "policy"}
                 /\ stage'[p] \in {"after", "policy", "published", "threw"}
              \/ /\ stage[p] \in {"threw", "reporting"}
                 /\ stage'[p] \in {"reporting", "failed"}
<1>1. ASSUME NEW m \in Methods, HookSettles(p, m) PROVE
         /\ \E s : stage' = [stage EXCEPT ![p] = s]
         /\ stage[p] = LoopOf[m] /\ stage'[p] \in {LoopOf[m], ExitOf[m]}
  BY <1>1 DEF HookSettles, Loop, Step, TypeOK, PipelineTypeOK
<1>2. CASE \E m \in Methods : HookSettles(p, m)
  BY <1>1, <1>2 DEF Methods, LoopOf, ExitOf, TypeOK, PipelineTypeOK
<1>3. CASE BeforeHookFails(p) \/ AfterHookFails(p) \/ PolicyFails(p)
           \/ ErrorHookFails(p)
  BY <1>3
  DEF BeforeHookFails, AfterHookFails, PolicyFails, ErrorHookFails, Throw, Step,
      TypeOK, PipelineTypeOK
<1>4. CASE Published(p) \/ PolicyForgives(p) \/ Catch(p)
  BY <1>4
  DEF Published, PolicyForgives, Catch, Loop, Step, LoopOf, ExitOf, TypeOK,
      PipelineTypeOK
<1>5. QED
  BY <1>2, <1>3, <1>4 DEF HookStep

LEMMA NextWalk ==
    TypeOK /\ SubscriberInv /\ WalkInv /\ [Next]_vars => WalkInv'
<1> SUFFICES ASSUME TypeOK, SubscriberInv, WalkInv, [Next]_vars,
                    NEW p \in Publishes, NEW h \in Handlers
             PROVE  WalkOf(p, h)'
  BY DEF WalkInv
<1>1. WalkOf(p, h)
  BY DEF WalkInv
<1>2. ASSUME NEW s \in Subscriptions, Subscribe(s) \/ Close(s) PROVE WalkOf(p, h)'
  <2>1. UNCHANGED <<stage, captured, position, calls, expected>>
    BY <1>2 DEF Subscribe, Close, pipelineVars, deliveryVars
  <2>2. Touch(HandlerOf[s])
    BY <1>2 DEF Subscribe, Close
  <2>3. CASE stage[p] = "idle"
    BY <1>1, <2>1, <2>3 DEF WalkOf, Underway, Delivered
  <2>4. CASE stage[p] # "idle" /\ h = HandlerOf[s]
    <3>1. h \in touched'[p]
      BY <2>2, <2>4 DEF Touch
    <3>2. QED
      BY <1>1, <2>1, <3>1 DEF WalkOf
  <2>5. CASE stage[p] # "idle" /\ h # HandlerOf[s]
    <3>1. EntriesOf(h)' = EntriesOf(h)
      BY <1>2, <2>5, OtherEntries
    <3>2. Seen(p, h)' = Seen(p, h) /\ Passed(p, h)' = Passed(p, h)
      BY <2>1, <3>1 DEF Seen, Passed
    <3>3. h \notin touched'[p] => h \notin touched[p]
      BY <2>2, <2>5 DEF Touch
    <3>4. QED
      BY <1>1, <2>1, <3>2, <3>3 DEF WalkOf, Underway, Delivered
  <2>6. QED
    BY <2>3, <2>4, <2>5
<1>3. ASSUME UNCHANGED <<stage, subscriberVars, deliveryVars>> PROVE WalkOf(p, h)'
  BY <1>1, <1>3
  DEF WalkOf, Underway, Delivered, Seen, Passed, EntriesOf, subscriberVars,
      deliveryVars
<1>4. ASSUME NEW q \in Publishes, Publish(q) PROVE WalkOf(p, h)'
  <2>1. /\ stage[q] = "idle" /\ UNCHANGED <<subscriberVars, position, calls>>
        /\ captured' = [captured EXCEPT ![q] = known]
        /\ expected' = [expected EXCEPT ![q] =
                           [g \in Handlers |-> Cardinality(EntriesOf(g))]]
    BY <1>4 DEF Publish, Run
  <2>2. /\ \A r \in Publishes \ {q} : stage'[r] = stage[r]
        /\ stage'[q] \in {"before", "hooked"}
    BY <1>4
    DEF Publish, Run, Loop, Step, LoopOf, ExitOf, TypeOK, PipelineTypeOK
  <2>3. CASE p # q
    <3>1. captured'[p] = captured[p] /\ expected'[p] = expected[p]
      BY <2>1, <2>3 DEF TypeOK
    <3>2. Seen(p, h)' = Seen(p, h) /\ Passed(p, h)' = Passed(p, h)
      BY <2>1, <3>1 DEF Seen, Passed, EntriesOf, subscriberVars
    <3>3. QED
      BY <1>1, <2>1, <2>2, <2>3, <3>1, <3>2
      DEF WalkOf, Underway, Delivered, subscriberVars
  <2>4. CASE p = q
    <3>1. position'[p] = 0 /\ calls'[p][h] = 0
      BY <1>1, <2>1, <2>4 DEF WalkOf
    <3>2. captured'[p] = known /\ expected'[p][h] = Cardinality(EntriesOf(h))
      BY <2>1, <2>4 DEF TypeOK
    <3>3. Passed(p, h)' = {}
      <4>1. EntriesOf(h)' = EntriesOf(h)
        BY <2>1 DEF EntriesOf, subscriberVars
      <4>2. \A i \in EntriesOf(h) : i \in Nat /\ i >= 1
        BY DEF EntriesOf, TypeOK
      <4>3. QED
        BY <3>1, <4>1, <4>2 DEF Passed
    <3>4. Seen(p, h)' = EntriesOf(h)
      <4>1. EntriesOf(h)' = EntriesOf(h)
        BY <2>1 DEF EntriesOf, subscriberVars
      <4>2. known = FALSE => EntriesOf(h) = {}
        BY DEF SubscriberInv, EntriesOf
      <4>3. QED
        BY <3>2, <4>1, <4>2 DEF Seen
    <3>5. Cardinality({}) = 0
      BY FS_EmptySet
    <3>6. QED
      BY <2>2, <2>4, <3>1, <3>2, <3>3, <3>4, <3>5 DEF WalkOf, Underway, Delivered
  <2>5. QED
    BY <2>3, <2>4
<1>5. ASSUME NEW q \in Publishes, HookStep(q),
             UNCHANGED <<adapter, subscriberVars, deliveryVars>>
      PROVE  WalkOf(p, h)'
  <2>1. Seen(p, h)' = Seen(p, h) /\ Passed(p, h)' = Passed(p, h)
    BY <1>5 DEF Seen, Passed, EntriesOf, subscriberVars, deliveryVars
  <2>2. /\ stage'[p] \in {"idle", "before", "hooked"} =>
              stage[p] \in {"idle", "before", "hooked"}
        /\ Underway(p)' => Underway(p)
        /\ Delivered(p)' => Delivered(p)
    BY <1>5, HookStepStage DEF Underway, Delivered
  <2>3. QED
    BY <1>1, <1>5, <2>1, <2>2 DEF WalkOf, subscriberVars, deliveryVars
<1>6. ASSUME NEW q \in Publishes, Hooked(q) \/ HandlerSucceeds(q)
      PROVE  WalkOf(p, h)'
  <2>1. /\ stage[q] \in {"hooked", "publishing"}
        /\ UNCHANGED <<captured, expected, touched, entries>>
    BY <1>6 DEF Hooked, HandlerSucceeds, subscriberVars
  <2>2. CASE p = q
    <3>1. CASE Hooked(q)
      <4>1. position[p] + 1 = 1
        BY <1>1, <2>2, <3>1 DEF Hooked, WalkOf
      <4>2. Take(p, position[p] + 1)
        BY <2>2, <3>1, <4>1 DEF Hooked
      <4>3. QED
        BY <1>1, <2>1, <2>2, <4>2, TakeWalks
    <3>2. CASE HandlerSucceeds(q)
      BY <1>1, <2>1, <2>2, <3>2, TakeWalks DEF HandlerSucceeds
    <3>3. QED
      BY <1>6, <3>1, <3>2
  <2>3. CASE p # q
    <3>1. \E i : Take(q, i)
      BY <1>6 DEF Hooked, HandlerSucceeds
    <3>2. /\ stage'[p] = stage[p] /\ position'[p] = position[p]
          /\ calls'[p] = calls[p]
      BY <2>3, <3>1 DEF Take, Step, TypeOK, PipelineTypeOK
    <3>3. Seen(p, h)' = Seen(p, h) /\ Passed(p, h)' = Passed(p, h)
      BY <2>1, <3>2 DEF Seen, Passed, EntriesOf
    <3>4. QED
      BY <1>1, <2>1, <3>2, <3>3 DEF WalkOf, Underway, Delivered
  <2>4. QED
    BY <2>2, <2>3
<1>7. ASSUME NEW q \in Publishes, HandlerFails(q) PROVE WalkOf(p, h)'
  <2>1. UNCHANGED <<subscriberVars, deliveryVars>>
    BY <1>7 DEF HandlerFails
  <2>2. stage'[p] = stage[p] \/ stage'[p] = "threw"
    BY <1>7 DEF HandlerFails, Throw, Step, TypeOK, PipelineTypeOK
  <2>3. Seen(p, h)' = Seen(p, h) /\ Passed(p, h)' = Passed(p, h)
    BY <2>1 DEF Seen, Passed, EntriesOf, subscriberVars, deliveryVars
  <2>4. QED
    BY <1>1, <2>1, <2>2, <2>3
    DEF WalkOf, Underway, Delivered, subscriberVars, deliveryVars
<1>8. CASE RegisterHook /\ UNCHANGED <<adapter, subscriberVars, deliveryVars>>
  BY <1>3, <1>8 DEF RegisterHook
<1>9. CASE UNCHANGED vars
  BY <1>3, <1>9 DEF vars, pipelineVars
<1>10. QED
  BY <1>2, <1>4, <1>5, <1>6, <1>7, <1>8, <1>9 DEF Next, PublishStep

\* However many handlers come and go while a publish is under way, one that was
\* left alone is called exactly as often as it was subscribed when it began.
THEOREM ReachedExactlyHolds == Spec => []ReachedExactly
<1>1. Init => TypeOK /\ SubscriberInv /\ WalkInv
  BY InitType, InitSubscribers, InitWalk
<1>2. TypeOK /\ SubscriberInv /\ WalkInv /\ [Next]_vars
         => TypeOK' /\ SubscriberInv' /\ WalkInv'
  BY NextType, NextSubscribers, NextWalk
<1>3. WalkInv => ReachedExactly
  BY DEF WalkInv, WalkOf, ReachedExactly
<1>4. QED
  BY <1>1, <1>2, <1>3, PTL DEF Spec

-----------------------------------------------------------------------------
\* The hooks a publish has called.  A loop that ends has called every hook there is
\* then, and hooks are only added: so each of the loops called at least those the
\* publish began with, and the second one those the first one called.

Rejected == {"publish", "after", "policy"}

HooksOf(p) ==
    /\ began[p] <= hooks /\ ran[p].beforePublish <= hooks
    /\ stage[p] = "before" => at[p] = ran[p].beforePublish
    /\ stage[p] \in {"hooked", "publishing", "returned", "after", "policy", "published"} =>
          ran[p].beforePublish >= began[p]
    /\ stage[p] \in {"idle", "before", "hooked", "publishing", "returned"} =>
          ran[p].afterPublish = 0
    /\ stage[p] \in {"after", "policy"} => at[p] = ran[p].afterPublish
    /\ stage[p] = "published" => ran[p].afterPublish >= ran[p].beforePublish
    /\ stage[p] \notin {"reporting", "failed"} => ran[p].onPublishError = 0
    /\ stage[p] = "reporting" => at[p] = ran[p].onPublishError
    /\ stage[p] \in {"threw", "reporting"} => failure[p] \in Rejected
    /\ stage[p] \notin {"threw", "reporting", "failed"} => failure[p] = "none"
    /\ stage[p] = "failed" /\ failure[p] \in Rejected => ran[p].onPublishError >= began[p]
    /\ failure[p] = "before" => ran[p].afterPublish = 0 /\ ran[p].onPublishError = 0

HooksInv == \A p \in Publishes : HooksOf(p)

LEMMA InitHooks == Init => HooksInv
<1> SUFFICES ASSUME Init, NEW p \in Publishes PROVE HooksOf(p)
  BY DEF HooksInv
<1>1. /\ stage[p] = "idle" /\ at[p] = 0 /\ failure[p] = "none" /\ began[p] = 0
      /\ ran[p] = [m \in Methods |-> 0] /\ hooks \in 0..MaxHooks
  BY DEF Init, PipelineInit
<1>2. ran[p].beforePublish = 0 /\ ran[p].afterPublish = 0 /\ ran[p].onPublishError = 0
  BY <1>1 DEF Methods
<1> QED
  BY <1>1, <1>2, MaxHooksAssumption DEF HooksOf, Rejected

\* A loop calls hook i, or ends because there is none.
LEMMA LoopSteps ==
    ASSUME TypeOK, NEW p \in Publishes, NEW m \in Methods, NEW i \in Nat \ {0},
           Loop(p, m, i)
    PROVE  /\ \A q \in Publishes \ {p} :
                 stage'[q] = stage[q] /\ at'[q] = at[q] /\ ran'[q] = ran[q]
           /\ \A n \in Methods \ {m} : ran'[p][n] = ran[p][n]
           /\ \/ /\ i <= hooks /\ stage'[p] = LoopOf[m]
                 /\ at'[p] = i /\ ran'[p][m] = i
              \/ i > hooks /\ stage'[p] = ExitOf[m] /\ ran'[p][m] = ran[p][m]
<1>1. /\ stage \in [Publishes -> Stages]
      /\ at \in [Publishes -> 0..MaxHooks]
      /\ ran \in [Publishes -> [Methods -> 0..MaxHooks]]
      /\ hooks \in Nat
  BY MaxHooksAssumption DEF TypeOK, PipelineTypeOK
<1>2. CASE i <= hooks
  <2>1. /\ stage' = [stage EXCEPT ![p] = LoopOf[m]]
        /\ at' = [at EXCEPT ![p] = i]
        /\ ran' = [ran EXCEPT ![p][m] = i]
    BY <1>2 DEF Loop, Step
  <2>2. \A q \in Publishes \ {p} :
           stage'[q] = stage[q] /\ at'[q] = at[q] /\ ran'[q] = ran[q]
    BY <1>1, <2>1
  <2>3. stage'[p] = LoopOf[m] /\ at'[p] = i
    BY <1>1, <2>1
  <2>4. ran'[p][m] = i /\ \A n \in Methods \ {m} : ran'[p][n] = ran[p][n]
    BY <1>1, <2>1
  <2> QED
    BY <1>2, <2>2, <2>3, <2>4
<1>3. CASE ~(i <= hooks)
  <2>1. /\ stage' = [stage EXCEPT ![p] = ExitOf[m]]
        /\ at' = [at EXCEPT ![p] = 0]
        /\ ran' = ran
    BY <1>3 DEF Loop, Step
  <2> QED
    BY <1>1, <1>3, <2>1
<1> QED
  BY <1>2, <1>3

\* What is not p keeps what is said of it, and a hook more changes nothing.
LEMMA HooksKeep ==
    ASSUME TypeOK, NEW p \in Publishes, HooksOf(p), hooks' \in Nat, hooks' >= hooks,
           UNCHANGED <<stage[p], at[p], failure[p], began[p], ran[p]>>
    PROVE  HooksOf(p)'
<1>1. /\ hooks \in Nat /\ began[p] \in Nat /\ ran[p].beforePublish \in Nat
  BY MaxHooksAssumption DEF TypeOK, PipelineTypeOK, Methods
<1> QED
  BY <1>1 DEF HooksOf

LEMMA OwnHooks ==
    ASSUME TypeOK, NEW p \in Publishes, HooksOf(p), HookStep(p) \/ Run(p)
    PROVE  /\ HooksOf(p)'
           /\ UNCHANGED hooks
           /\ \A q \in Publishes \ {p} :
                 UNCHANGED <<stage[q], at[q], failure[q], began[q], ran[q]>>
<1> DEFINE Others == \A q \in Publishes \ {p} :
                        UNCHANGED <<stage[q], at[q], failure[q], began[q], ran[q]>>
<1>1. /\ hooks \in Nat /\ began[p] \in Nat /\ at[p] \in Nat
      /\ ran[p].beforePublish \in Nat /\ ran[p].afterPublish \in Nat
      /\ ran[p].onPublishError \in Nat
      /\ at[p] + 1 \in Nat \ {0} /\ 1 \in Nat \ {0}
  BY MaxHooksAssumption DEF TypeOK, PipelineTypeOK, Methods
<1>2. Methods = {"beforePublish", "afterPublish", "onPublishError"}
  BY DEF Methods
<1> USE DEF LoopOf, ExitOf, Rejected
<1>3. CASE Run(p)
  <2>1. stage[p] = "idle" /\ Loop(p, "beforePublish", 1) /\ UNCHANGED <<hooks, failure>>
    BY <1>3 DEF Run
  <2>2. began'[p] = hooks /\ \A q \in Publishes \ {p} : began'[q] = began[q]
    BY <1>3 DEF Run, TypeOK, PipelineTypeOK
  <2>3. /\ \A q \in Publishes \ {p} :
              stage'[q] = stage[q] /\ at'[q] = at[q] /\ ran'[q] = ran[q]
        /\ ran'[p].afterPublish = ran[p].afterPublish
        /\ ran'[p].onPublishError = ran[p].onPublishError
        /\ \/ /\ 1 <= hooks /\ stage'[p] = "before"
              /\ at'[p] = 1 /\ ran'[p].beforePublish = 1
           \/ 1 > hooks /\ stage'[p] = "hooked"
              /\ ran'[p].beforePublish = ran[p].beforePublish
    BY <1>1, <1>2, <2>1, LoopSteps
  <2>4. HooksOf(p)'
    BY <1>1, <2>1, <2>2, <2>3 DEF HooksOf
  <2> QED
    BY <2>1, <2>2, <2>3, <2>4
<1>4. CASE HookSettles(p, "beforePublish")
  <2>1. /\ stage[p] = "before" /\ Loop(p, "beforePublish", at[p] + 1)
        /\ UNCHANGED <<hooks, failure, began>>
    BY <1>4 DEF HookSettles
  <2>2. /\ \A q \in Publishes \ {p} :
              stage'[q] = stage[q] /\ at'[q] = at[q] /\ ran'[q] = ran[q]
        /\ ran'[p].afterPublish = ran[p].afterPublish
        /\ ran'[p].onPublishError = ran[p].onPublishError
        /\ \/ /\ at[p] + 1 <= hooks /\ stage'[p] = "before"
              /\ at'[p] = at[p] + 1 /\ ran'[p].beforePublish = at[p] + 1
           \/ at[p] + 1 > hooks /\ stage'[p] = "hooked"
              /\ ran'[p].beforePublish = ran[p].beforePublish
    BY <1>1, <1>2, <2>1, LoopSteps
  <2>3. HooksOf(p)'
    BY <1>1, <2>1, <2>2 DEF HooksOf
  <2> QED
    BY <2>1, <2>2, <2>3
<1>5. CASE HookSettles(p, "afterPublish") \/ PolicyForgives(p) \/ Published(p)
  <2>1. /\ UNCHANGED <<hooks, failure, began>>
        /\ stage[p] \in {"returned", "after", "policy"}
        /\ \E i \in Nat \ {0} :
              /\ Loop(p, "afterPublish", i)
              /\ i = IF stage[p] = "returned" THEN 1 ELSE at[p] + 1
    BY <1>1, <1>5 DEF HookSettles, PolicyForgives, Published
  <2>2. PICK i \in Nat \ {0} :
           /\ Loop(p, "afterPublish", i)
           /\ i = IF stage[p] = "returned" THEN 1 ELSE at[p] + 1
    BY <2>1
  <2>3. /\ \A q \in Publishes \ {p} :
              stage'[q] = stage[q] /\ at'[q] = at[q] /\ ran'[q] = ran[q]
        /\ ran'[p].beforePublish = ran[p].beforePublish
        /\ ran'[p].onPublishError = ran[p].onPublishError
        /\ \/ /\ i <= hooks /\ stage'[p] = "after"
              /\ at'[p] = i /\ ran'[p].afterPublish = i
           \/ i > hooks /\ stage'[p] = "published"
              /\ ran'[p].afterPublish = ran[p].afterPublish
    BY <1>2, <2>2, LoopSteps
  <2>4. i = ran[p].afterPublish + 1
    BY <1>1, <2>1, <2>2 DEF HooksOf
  <2>5. HooksOf(p)'
    BY <1>1, <2>1, <2>3, <2>4 DEF HooksOf
  <2> QED
    BY <2>1, <2>3, <2>5
<1>6. CASE HookSettles(p, "onPublishError") \/ Catch(p)
  <2>1. /\ UNCHANGED <<hooks, failure, began>>
        /\ stage[p] \in {"threw", "reporting"}
        /\ \E i \in Nat \ {0} :
              /\ Loop(p, "onPublishError", i)
              /\ i = IF stage[p] = "threw" THEN 1 ELSE at[p] + 1
    BY <1>1, <1>6 DEF HookSettles, Catch
  <2>2. PICK i \in Nat \ {0} :
           /\ Loop(p, "onPublishError", i)
           /\ i = IF stage[p] = "threw" THEN 1 ELSE at[p] + 1
    BY <2>1
  <2>3. /\ \A q \in Publishes \ {p} :
              stage'[q] = stage[q] /\ at'[q] = at[q] /\ ran'[q] = ran[q]
        /\ ran'[p].beforePublish = ran[p].beforePublish
        /\ ran'[p].afterPublish = ran[p].afterPublish
        /\ \/ /\ i <= hooks /\ stage'[p] = "reporting"
              /\ at'[p] = i /\ ran'[p].onPublishError = i
           \/ i > hooks /\ stage'[p] = "failed"
              /\ ran'[p].onPublishError = ran[p].onPublishError
    BY <1>2, <2>2, LoopSteps
  <2>4. i = ran[p].onPublishError + 1
    BY <1>1, <2>1, <2>2 DEF HooksOf
  <2>5. HooksOf(p)'
    BY <1>1, <2>1, <2>3, <2>4 DEF HooksOf
  <2> QED
    BY <2>1, <2>3, <2>5
<1>7. CASE AfterHookFails(p)
  <2>1. /\ stage[p] = "after" /\ stage'[p] = "policy"
        /\ \A q \in Publishes \ {p} : stage'[q] = stage[q]
        /\ UNCHANGED <<hooks, at, failure, began, ran>>
    BY <1>7 DEF AfterHookFails, Step, TypeOK, PipelineTypeOK
  <2> QED
    BY <2>1 DEF HooksOf
<1>8. CASE BeforeHookFails(p) \/ PolicyFails(p) \/ ErrorHookFails(p)
  <2>1. \E kind \in Failures, s \in {"failed", "threw"} :
           /\ Throw(p, kind, s)
           /\ \/ stage[p] = "before" /\ kind = "before" /\ s = "failed"
              \/ stage[p] = "policy" /\ kind \in {"after", "policy"} /\ s = "threw"
              \/ stage[p] = "reporting" /\ kind = "reporting" /\ s = "failed"
    BY <1>8 DEF BeforeHookFails, PolicyFails, ErrorHookFails, Failures
  <2>2. PICK kind \in Failures, s \in {"failed", "threw"} :
           /\ Throw(p, kind, s)
           /\ \/ stage[p] = "before" /\ kind = "before" /\ s = "failed"
              \/ stage[p] = "policy" /\ kind \in {"after", "policy"} /\ s = "threw"
              \/ stage[p] = "reporting" /\ kind = "reporting" /\ s = "failed"
    BY <2>1
  <2>3. /\ stage'[p] = s /\ failure'[p] = kind
        /\ \A q \in Publishes \ {p} :
              stage'[q] = stage[q] /\ at'[q] = at[q] /\ failure'[q] = failure[q]
        /\ UNCHANGED <<hooks, began, ran>>
    BY <2>2 DEF Throw, Step, TypeOK, PipelineTypeOK
  <2>4. HooksOf(p)'
    BY <2>2, <2>3 DEF HooksOf
  <2> QED
    BY <2>3, <2>4
<1> QED
  BY <1>2, <1>3, <1>4, <1>5, <1>6, <1>7, <1>8 DEF HookStep

LEMMA NextHooks == TypeOK /\ TypeOK' /\ HooksInv /\ [Next]_vars => HooksInv'
<1> SUFFICES ASSUME TypeOK, TypeOK', HooksInv, [Next]_vars, NEW p \in Publishes
             PROVE  HooksOf(p)'
  BY DEF HooksInv
<1>1. HooksOf(p)
  BY DEF HooksInv
<1>2. hooks \in Nat /\ hooks' \in Nat
  BY MaxHooksAssumption DEF TypeOK, PipelineTypeOK
<1>3. ASSUME hooks' >= hooks,
             UNCHANGED <<stage[p], at[p], failure[p], began[p], ran[p]>>
      PROVE  HooksOf(p)'
  BY <1>1, <1>2, <1>3, HooksKeep
<1>4. CASE UNCHANGED pipelineVars
  BY <1>2, <1>3, <1>4 DEF pipelineVars
<1>5. CASE RegisterHook
  BY <1>2, <1>3, <1>5 DEF RegisterHook
<1>6. ASSUME NEW q \in Publishes, HookStep(q) \/ Run(q) PROVE HooksOf(p)'
  <2>1. CASE p = q
    BY <1>1, <1>6, <2>1, OwnHooks
  <2>2. CASE p # q
    <3>1. /\ UNCHANGED <<stage[p], at[p], failure[p], began[p], ran[p]>>
          /\ UNCHANGED hooks
      BY <1>6, <2>2, OwnHooks DEF HooksInv
    <3> QED
      BY <1>2, <1>3, <3>1
  <2> QED
    BY <2>1, <2>2
<1>7. ASSUME NEW q \in Publishes, Hooked(q) \/ HandlerSucceeds(q) PROVE HooksOf(p)'
  <2>1. /\ UNCHANGED <<hooks, at, failure, began, ran>>
        /\ stage[q] \in {"hooked", "publishing"}
        /\ \E i : Take(q, i)
    BY <1>7 DEF Hooked, HandlerSucceeds
  <2>2. \E s \in {"publishing", "returned"} : stage' = [stage EXCEPT ![q] = s]
    BY <2>1 DEF Take, Step
  <2>3. /\ p # q => stage'[p] = stage[p]
        /\ p = q => stage'[p] \in {"publishing", "returned"}
    BY <2>2 DEF TypeOK, PipelineTypeOK
  <2> QED
    BY <1>1, <2>1, <2>3 DEF HooksOf
<1>8. ASSUME NEW q \in Publishes, HandlerFails(q) PROVE HooksOf(p)'
  <2>1. /\ stage[q] = "publishing"
        /\ stage' = [stage EXCEPT ![q] = "threw"]
        /\ at' = [at EXCEPT ![q] = 0]
        /\ failure' = [failure EXCEPT ![q] = "publish"]
        /\ UNCHANGED <<hooks, began, ran>>
    BY <1>8 DEF HandlerFails, Throw, Step
  <2>2. CASE p = q
    <3>1. stage'[p] = "threw" /\ failure'[p] = "publish"
      BY <2>1, <2>2 DEF TypeOK, PipelineTypeOK
    <3> QED
      BY <1>1, <2>1, <2>2, <3>1 DEF HooksOf, Rejected
  <2>3. CASE p # q
    <3>1. stage'[p] = stage[p] /\ at'[p] = at[p] /\ failure'[p] = failure[p]
      BY <2>1, <2>3 DEF TypeOK, PipelineTypeOK
    <3> QED
      BY <1>2, <1>3, <2>1, <3>1
  <2> QED
    BY <2>2, <2>3
<1> QED
  BY <1>4, <1>5, <1>6, <1>7, <1>8 DEF Next, Subscribe, Close, Publish, PublishStep, vars

\* Whatever hooks are registered meanwhile, a publish that resolves has called both
\* methods of all there were when it began, and one that rejects reported it to them.
THEOREM HooksCompleteHolds == Spec => []HooksComplete
<1>1. Init => TypeOK /\ HooksInv
  BY InitType, InitHooks
<1>2. TypeOK /\ HooksInv /\ [Next]_vars => TypeOK' /\ HooksInv'
  BY NextType, NextHooks
<1>3. HooksInv => HooksComplete
  BY DEF HooksInv, HooksOf, HooksComplete, Rejected
<1> QED
  BY <1>1, <1>2, <1>3, PTL DEF Spec

=============================================================================
