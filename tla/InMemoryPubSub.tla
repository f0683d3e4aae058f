--------------------------- MODULE InMemoryPubSub ---------------------------
\* InMemoryPubSub and InMemoryEventBus, for one topic (one event name). The
\* adapters share their shape: publish() looks the subscribers up before it
\* awaits the hooks of its PublisherHookPipeline, and calls them one by one,
\* iterating the live collection. That is a Set for the pub/sub, where
\* subscribe() of a handler it has adds nothing and a closed subscription takes
\* the handler out; and an array without removal for the event bus.
EXTENDS PublisherHookPipeline, Sequences, FiniteSets

CONSTANTS
    Handlers,
    Subscriptions,    \* calls of subscribe()
    HandlerOf,        \* the handler each passes
    Gone              \* what an iterator finds where a Set entry was deleted

ASSUME HandlerOfAssumption == HandlerOf \in [Subscriptions -> Handlers]
ASSUME GoneAssumption == Gone \notin Handlers

VARIABLES
    adapter,          \* which of the two classes this is; never changes
    known,            \* has the topic a collection in the map?
    entries,          \* that collection, in insertion order
    subscription,     \* "none", "open" or "closed"
    captured,         \* did publish() find the collection, or make an empty one?
    position,         \* the entry whose handler it awaits
    calls,            \* history: how often it called each handler
    expected,         \* history: entries of each handler when it began
    touched           \* history: handlers subscribed or closed since then

subscriberVars == <<known, entries, subscription, touched>>
deliveryVars == <<captured, position, calls, expected>>
vars == <<pipelineVars, adapter, subscriberVars, deliveryVars>>

EntriesOf(h) == {i \in DOMAIN entries : entries[i] = h}

TypeOK ==
    /\ PipelineTypeOK
    /\ adapter \in {"InMemoryPubSub", "InMemoryEventBus"}
    /\ known \in BOOLEAN
    /\ entries \in Seq(Handlers \cup {Gone})
    /\ subscription \in [Subscriptions -> {"none", "open", "closed"}]
    /\ captured \in [Publishes -> BOOLEAN]
    /\ position \in [Publishes -> Nat]
    /\ calls \in [Publishes -> [Handlers -> Nat]]
    /\ expected \in [Publishes -> [Handlers -> Nat]]
    /\ touched \in [Publishes -> SUBSET Handlers]

Init ==
    /\ PipelineInit
    /\ adapter \in {"InMemoryPubSub", "InMemoryEventBus"}
    /\ known = FALSE
    /\ entries = <<>>
    /\ subscription = [s \in Subscriptions |-> "none"]
    /\ captured = [p \in Publishes |-> FALSE]
    /\ position = [p \in Publishes |-> 0]
    /\ calls = [p \in Publishes |-> [h \in Handlers |-> 0]]
    /\ expected = [p \in Publishes |-> [h \in Handlers |-> 0]]
    /\ touched = [p \in Publishes |-> {}]

Touch(h) == touched' = [p \in Publishes |->
    IF stage[p] = "idle" THEN touched[p] ELSE touched[p] \cup {h}]

\* Mutant: every subscribe() stores a new Set.
AddedToNewSet(h) == <<h>>

Added(h) ==
    IF adapter = "InMemoryPubSub" /\ EntriesOf(h) # {}
    THEN entries
    ELSE Append(entries, h)

Subscribe(s) ==
    /\ subscription[s] = "none"
    /\ subscription' = [subscription EXCEPT ![s] = "open"]
    /\ known' = TRUE
    /\ entries' = Added(HandlerOf[s])
    /\ Touch(HandlerOf[s])
    /\ UNCHANGED <<pipelineVars, adapter, deliveryVars>>

\* Mutant: entries behind the deleted one move up, as splice() on an array does.
DeletedBySplice(h) == SelectSeq(entries, LAMBDA e : e # h)

\* Mutant: the handler stays.
DeletedNothing(h) == entries

Deleted(h) ==
    [i \in 1..Len(entries) |-> IF entries[i] = h THEN Gone ELSE entries[i]]

\* close() of a subscription, which may be called again.
Close(s) ==
    /\ adapter = "InMemoryPubSub"
    /\ subscription[s] # "none"
    /\ subscription' = [subscription EXCEPT ![s] = "closed"]
    /\ entries' = Deleted(HandlerOf[s])
    /\ Touch(HandlerOf[s])
    /\ UNCHANGED <<pipelineVars, adapter, known, deliveryVars>>

Publish(p) ==
    /\ Run(p)
    /\ captured' = [captured EXCEPT ![p] = known]
    /\ expected' = [expected EXCEPT ![p] =
                       [h \in Handlers |-> Cardinality(EntriesOf(h))]]
    /\ UNCHANGED <<adapter, subscriberVars, position, calls>>

\* The entries the iterator of p finds at i or after it.
Ahead(p, i) ==
    {j \in DOMAIN entries : captured[p] /\ j >= i /\ entries[j] # Gone}

\* The iterator goes on at i: to the first entry it finds, or to its end.
Take(p, i) ==
    \/ \E j \in Ahead(p, i) :
          /\ \A k \in Ahead(p, i) : j <= k
          /\ Step(p, "publishing")
          /\ position' = [position EXCEPT ![p] = j]
          /\ calls' = [calls EXCEPT ![p][entries[j]] = @ + 1]
    \/ /\ Ahead(p, i) = {}
       /\ Step(p, "returned")
       /\ UNCHANGED <<position, calls>>

Hooked(p) ==
    /\ stage[p] = "hooked"
    /\ Take(p, 1)
    /\ UNCHANGED <<hooks, at, failure, began, ran>>
    /\ UNCHANGED <<adapter, subscriberVars, captured, expected>>

HandlerSucceeds(p) ==
    /\ stage[p] = "publishing"
    /\ Take(p, position[p] + 1)
    /\ UNCHANGED <<hooks, at, failure, began, ran>>
    /\ UNCHANGED <<adapter, subscriberVars, captured, expected>>

HandlerFails(p) ==
    /\ stage[p] = "publishing"
    /\ Throw(p, "publish", "threw")
    /\ UNCHANGED <<adapter, subscriberVars, deliveryVars>>

PublishStep(p) ==
    \/ HookStep(p) /\ UNCHANGED <<adapter, subscriberVars, deliveryVars>>
    \/ Hooked(p)
    \/ HandlerSucceeds(p)
    \/ HandlerFails(p)

Next ==
    \/ \E s \in Subscriptions : Subscribe(s) \/ Close(s)
    \/ RegisterHook /\ UNCHANGED <<adapter, subscriberVars, deliveryVars>>
    \/ \E p \in Publishes : Publish(p) \/ PublishStep(p)

Spec == Init /\ [][Next]_vars
-----------------------------------------------------------------------------
Delivered(p) == stage[p] \in {"returned", "after", "policy", "published"}

\* Handlers come and go while a publish walks through them. One that nobody
\* subscribed or closed meanwhile is called exactly as often as it was
\* subscribed when publish() was called: none is skipped and none called twice.
ReachedExactly ==
    \A p \in Publishes, h \in Handlers :
        Delivered(p) /\ h \notin touched[p] => calls[p][h] = expected[p][h]

\* No publish calls a handler whose subscriptions are all closed, not even one
\* that was under way when close() was called.
ClosedIsSilent ==
    [][\A p \in Publishes, h \in Handlers :
          calls'[p][h] # calls[p][h] =>
             \E s \in Subscriptions :
                HandlerOf[s] = h /\ subscription[s] = "open"]_vars

\* An open subscription is among the subscribers, unless one of the same
\* handler was closed: the Set holds the handler once for all of them.
OpenIsSubscribed ==
    \A s \in Subscriptions :
        /\ subscription[s] = "open"
        /\ \A t \in Subscriptions :
              HandlerOf[t] = HandlerOf[s] => subscription[t] # "closed"
        => EntriesOf(HandlerOf[s]) # {}
=============================================================================
