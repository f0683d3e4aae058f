----------------------------- MODULE AmqpDelivery -----------------------------
(***************************************************************************)
(* One consumer of AmqpMessageBusAdapter and the broker it talks to: how an *)
(* event goes from the consumer's queue through the delayed retry queues to *)
(* the handler's success or to the dead-letter queue.  Every await of the   *)
(* adapter is a place where the work on another message may go on; what     *)
(* runs between two awaits, and the order of the frames on the channel, is  *)
(* kept.  The broker's queues are modelled from the options they are        *)
(* declared with: the retry queues delete themselves with their last        *)
(* consumer, and are consumed without acknowledgement.                      *)
(***************************************************************************)
EXTENDS Integers, FiniteSets

CONSTANTS
    Events,       \* what is published to the consumer's queue
    Malformed,    \* events whose content is not JSON
    Invalid,      \* events whose content makes no domain event
    MaxRetries,   \* options.maxRetries; -1 stands for undefined
    RetryDelay,   \* retryDelayInMilliseconds
    MaxChannels   \* bound: channels opened, one after the other

ASSUME ConstantsAssumption ==
    /\ IsFiniteSet(Events)
    /\ Malformed \subseteq Events
    /\ Invalid \subseteq Events \ Malformed
    /\ MaxRetries \in Int /\ MaxRetries >= -1
    /\ RetryDelay \in Nat
    /\ MaxChannels \in Nat /\ MaxChannels >= 1

\* retry(): the number of the retry that follows a message with this header,
\* and the header that opts() gives to the copy: 0, 2, 3, 4 and so on.
RetryNumber(header) == IF header = 0 THEN 1 ELSE header

\* Mutant: opts() keeps the number of a retry instead of adding one to it.
SameHeader(header) == IF header = 0 THEN 2 ELSE header

NextHeader(header) == RetryNumber(header) + 1

LastHeader == IF MaxRetries <= 1 THEN 2 ELSE MaxRetries + 1
Headers == {0} \cup 2..LastHeader

Channels == 1..MaxChannels

\* One call of handle(): the event, the channel that delivered it, its header.
Tasks == Events \X Channels \X Headers

EventOf(t) == t[1]
ChannelOf(t) == t[2]
HeaderOf(t) == t[3]

\* A retry queue is named after its delay.
QueueOf(header) == RetryNumber(header) * RetryDelay
Queues == {QueueOf(h) : h \in Headers}

VARIABLES
    ready,      \* the consumer's queue, without what was delivered
    pc,         \* how far each call of handle() is
    via,        \* the delayed consumer that got the message of a call
    listed,     \* entries of delayConsumers, per queue name
    declared,   \* retry queues that exist at the broker
    consumers,  \* live consumers of each retry queue, named after the call
                \* of handle() that registered them
    handled,    \* history: events the handler succeeded with
    dlx,        \* the dead-letter queue
    discarded,  \* history: events published to a queue that is not there
    runs,       \* history: handler runs of each event, per channel
    channel,    \* the channel in use
    up          \* is it open?

vars == <<ready, pc, via, listed, declared, consumers, handled, dlx,
          discarded, runs, channel, up>>

\* "rejected": the promise of handle() rejected and nothing comes after it.
PCs == {"none", "sleeping", "handling", "declare", "bind", "consume",
        "publish", "dlx", "finish", "done", "rejected"}

TypeOK ==
    /\ ready \subseteq Events
    /\ pc \in [Tasks -> PCs]
    /\ via \in [Tasks -> Tasks]
    /\ listed \in [Queues -> Nat]
    /\ declared \subseteq Queues
    /\ consumers \in [Queues -> SUBSET Tasks]
    /\ handled \subseteq Events
    /\ dlx \subseteq Events
    /\ discarded \subseteq Events
    /\ runs \in [Events \X Channels -> Nat]
    /\ channel \in Channels
    /\ up \in BOOLEAN

Init ==
    /\ ready = Events
    /\ pc = [t \in Tasks |-> "none"]
    /\ via = [t \in Tasks |-> t]
    /\ listed = [q \in Queues |-> 0]
    /\ declared = {}
    /\ consumers = [q \in Queues |-> {}]
    /\ handled = {}
    /\ dlx = {}
    /\ discarded = {}
    /\ runs = [r \in Events \X Channels |-> 0]
    /\ channel = 1
    /\ up = TRUE

(***************************************************************************)
(* Helpers.                                                                 *)
(***************************************************************************)
Goto(t, label) == pc' = [pc EXCEPT ![t] = label]

CountRun(t) == runs' = [runs EXCEPT ![<<EventOf(t), ChannelOf(t)>>] = @ + 1]

\* The call's channel, kept in its ConsumerContext, is the one that is open.
Open(t) == up /\ ChannelOf(t) = channel

Queue(t) == QueueOf(HeaderOf(t))

OnChannel == {t \in Tasks : ChannelOf(t) = channel}

\* Delivered by the consumer's queue and not acknowledged.
Unacked == {t \in OnChannel : HeaderOf(t) = 0 /\ pc[t] \notin {"none", "done"}}

\* The call for a message of the consumer's queue, and the one for its retry.
Original(e) == <<e, channel, 0>>
Copy(t) == <<EventOf(t), channel, NextHeader(HeaderOf(t))>>

Outcomes == <<handled, dlx, discarded>>
Broker == <<ready, declared, consumers, channel, up>>

\* The channel closes: its consumers are gone, and with them the retry queues
\* that had one; what was not acknowledged is ready again.
CloseChannel ==
    /\ up' = FALSE
    /\ ready' = ready \cup {EventOf(t) : t \in Unacked}
    /\ declared' = {q \in declared : consumers[q] = {}}
    /\ consumers' = [q \in Queues |-> {}]
    /\ UNCHANGED channel

(***************************************************************************)
(* The handler.                                                             *)
(***************************************************************************)
\* consume(): prefetch(1) keeps one message unacknowledged at a time; a content
\* that does not parse makes handle() reject before its try block, one that makes
\* no domain event throws inside, before the handler is called.
Deliver(e) ==
    /\ up
    /\ e \in ready
    /\ Unacked = {}
    /\ ready' = ready \ {e}
    /\ Goto(Original(e), IF e \in Malformed THEN "rejected" ELSE "handling")
    /\ IF e \in Malformed \cup Invalid THEN UNCHANGED runs ELSE CountRun(Original(e))
    /\ UNCHANGED <<via, listed, declared, consumers, Outcomes, channel, up>>

\* A delayed consumer's timer fires.  The call that registered the consumer
\* publishes as soon as the broker confirms it, before any timer started for it.
Wake(t) ==
    /\ pc[t] = "sleeping"
    /\ pc[via[t]] # "publish"
    /\ Goto(t, "handling")
    /\ CountRun(t)
    /\ UNCHANGED <<via, listed, Outcomes, Broker>>

HandlerSucceeds(t) ==
    /\ pc[t] = "handling"
    /\ EventOf(t) \notin Invalid
    /\ Goto(t, "finish")
    /\ handled' = handled \cup {EventOf(t)}
    /\ UNCHANGED <<via, listed, dlx, discarded, runs, Broker>>

Retries(t) == MaxRetries >= 0 /\ HeaderOf(t) <= MaxRetries

(***************************************************************************)
(* retry().                                                                 *)
(***************************************************************************)
\* Mutant: handleError() goes on to sendToDlx() after retry().
PublishCopyAndDlx(t) ==
    /\ \E c \in consumers[Queue(t)] :
          /\ pc' = [pc EXCEPT ![t] = "dlx", ![Copy(t)] = "sleeping"]
          /\ via' = [via EXCEPT ![Copy(t)] = c]
    /\ UNCHANGED discarded

\* The copy goes to one of the queue's consumers at once; without a consumer it
\* is dropped, by an exchange with no such queue or when its time to live ends.
\* On a closed channel publish() throws, and so does cancel() in the catch.
PublishCopy(t) ==
    \/ /\ ~Open(t)
       /\ Goto(t, "rejected")
       /\ UNCHANGED <<via, discarded>>
    \/ /\ Open(t)
       /\ \E c \in consumers[Queue(t)] :
             /\ pc' = [pc EXCEPT ![t] = "finish", ![Copy(t)] = "sleeping"]
             /\ via' = [via EXCEPT ![Copy(t)] = c]
       /\ UNCHANGED discarded
    \/ /\ Open(t)
       /\ consumers[Queue(t)] = {}
       /\ Goto(t, "finish")
       /\ discarded' = discarded \cup {EventOf(t)}
       /\ UNCHANGED via

\* The queue is in delayConsumers: the copy is published without an await.
FailAndPublish(t) ==
    /\ pc[t] = "handling"
    /\ EventOf(t) \notin Invalid
    /\ Retries(t)
    /\ listed[Queue(t)] > 0
    /\ PublishCopy(t)
    /\ UNCHANGED <<listed, handled, dlx, runs, Broker>>

FailAndRegister(t) ==
    /\ pc[t] = "handling"
    /\ Retries(t)
    /\ listed[Queue(t)] = 0
    /\ Goto(t, "declare")
    /\ UNCHANGED <<via, listed, Outcomes, runs, Broker>>

\* Mutant: the name is listed before the queue is there.
DeclareListed(t) ==
    /\ pc[t] = "declare"
    /\ listed' = [listed EXCEPT ![Queue(t)] = @ + 1]
    /\ declared' = declared \cup {Queue(t)}
    /\ Goto(t, "bind")
    /\ UNCHANGED <<ready, via, consumers, Outcomes, runs, channel, up>>

\* registerDelayedConsumer(): assertExchange and assertQueue.
Declare(t) ==
    /\ pc[t] = "declare"
    /\ IF Open(t)
       THEN declared' = declared \cup {Queue(t)} /\ Goto(t, "bind")
       ELSE UNCHANGED declared /\ Goto(t, "rejected")
    /\ UNCHANGED <<ready, via, listed, consumers, Outcomes, runs, channel, up>>

\* bindQueue() on a queue that deleted itself meanwhile closes the channel.
Bind(t) ==
    /\ pc[t] = "bind"
    /\ IF Open(t) /\ Queue(t) \in declared
       THEN Goto(t, "consume") /\ UNCHANGED Broker
       ELSE /\ Goto(t, "rejected")
            /\ IF Open(t) THEN CloseChannel ELSE UNCHANGED Broker
    /\ UNCHANGED <<via, listed, Outcomes, runs>>

\* The name is listed first, then the consumer is asked for.
Consume(t) ==
    /\ pc[t] = "consume"
    /\ listed' = [listed EXCEPT ![Queue(t)] = @ + 1]
    /\ IF Open(t) /\ Queue(t) \in declared
       THEN /\ consumers' = [consumers EXCEPT ![Queue(t)] = @ \cup {t}]
            /\ Goto(t, "publish")
            /\ UNCHANGED <<ready, declared, channel, up>>
       ELSE /\ Goto(t, "rejected")
            /\ IF Open(t) THEN CloseChannel ELSE UNCHANGED Broker
    /\ UNCHANGED <<via, Outcomes, runs>>

Publish(t) ==
    /\ pc[t] = "publish"
    /\ EventOf(t) \notin Invalid
    /\ PublishCopy(t)
    /\ UNCHANGED <<listed, handled, dlx, runs, Broker>>

\* cancel(): with its last consumer the queue deletes itself.
Cancel(c) ==
    /\ consumers' = [consumers EXCEPT ![Queue(c)] = @ \ {c}]
    /\ declared' = IF consumers[Queue(c)] = {c} THEN declared \ {Queue(c)}
                                                ELSE declared

\* The content makes no domain event here either: nothing is published, the
\* consumer that this call registered, if it did, is cancelled, its name stays.
Withdraw(t) ==
    /\ \/ pc[t] = "publish"
       \/ pc[t] = "handling" /\ Retries(t) /\ listed[Queue(t)] > 0
    /\ EventOf(t) \in Invalid
    /\ IF Open(t)
       THEN Cancel(t) /\ Goto(t, "finish")
       ELSE UNCHANGED <<declared, consumers>> /\ Goto(t, "rejected")
    /\ UNCHANGED <<ready, via, listed, Outcomes, runs, channel, up>>

(***************************************************************************)
(* sendToDlx().  On a closed channel the declarations reject; what throws    *)
(* after them, publish() or a content that makes no domain event, is only   *)
(* logged.                                                                  *)
(***************************************************************************)
GiveUp(t) ==
    /\ pc[t] = "handling"
    /\ ~Retries(t)
    /\ Goto(t, "dlx")
    /\ UNCHANGED <<via, listed, Outcomes, runs, Broker>>

SendToDlx(t) ==
    /\ pc[t] = "dlx"
    /\ IF Open(t)
       THEN dlx' = dlx \cup ({EventOf(t)} \ Invalid) /\ Goto(t, "finish")
       ELSE UNCHANGED dlx /\ \E label \in {"rejected", "finish"} : Goto(t, label)
    /\ UNCHANGED <<via, listed, handled, discarded, runs, Broker>>

(***************************************************************************)
(* What follows handle().                                                   *)
(***************************************************************************)
\* Mutant: only a message that was handled is acknowledged.
AcknowledgeHandled(t) ==
    /\ pc[t] = "finish"
    /\ HeaderOf(t) = 0
    /\ EventOf(t) \in handled
    /\ Goto(t, IF Open(t) THEN "done" ELSE "rejected")
    /\ UNCHANGED <<via, listed, Outcomes, runs, Broker>>

\* The consumer's queue: the message is acknowledged.
Acknowledge(t) ==
    /\ pc[t] = "finish"
    /\ HeaderOf(t) = 0
    /\ Goto(t, IF Open(t) THEN "done" ELSE "rejected")
    /\ UNCHANGED <<via, listed, Outcomes, runs, Broker>>

\* Mutant: the consumer is cancelled and its name stays listed.
UnregisterKeepsName(t) ==
    /\ pc[t] = "finish"
    /\ HeaderOf(t) # 0
    /\ Cancel(via[t])
    /\ Goto(t, "done")
    /\ UNCHANGED <<ready, via, listed, Outcomes, runs, channel, up>>

\* A retry queue: one entry of this name leaves delayConsumers, whoever put it
\* there, and the consumer that got the message is cancelled.
Unregister(t) ==
    /\ pc[t] = "finish"
    /\ HeaderOf(t) # 0
    /\ listed' = [listed EXCEPT ![Queue(via[t])] = IF @ = 0 THEN 0 ELSE @ - 1]
    /\ IF Open(t)
       THEN Cancel(via[t]) /\ Goto(t, "done")
       ELSE UNCHANGED <<declared, consumers>> /\ Goto(t, "rejected")
    /\ UNCHANGED <<ready, via, Outcomes, runs, channel, up>>

(***************************************************************************)
(* The connection.                                                          *)
(***************************************************************************)
ChannelLost ==
    /\ up
    /\ channel < MaxChannels
    /\ CloseChannel
    /\ UNCHANGED <<pc, via, listed, Outcomes, runs>>

\* reconnect(): a new channel, and init() of the consumer on it.  The list of
\* delayed consumers is kept.
Reconnect ==
    /\ ~up
    /\ channel < MaxChannels
    /\ channel' = channel + 1
    /\ up' = TRUE
    /\ UNCHANGED <<ready, pc, via, listed, declared, consumers, Outcomes, runs>>

\* Nothing is under way: the consumer waits for messages that do not come, for
\* an acknowledgement that will not come, or for a channel.
Rest ==
    /\ \A t \in Tasks : pc[t] \in {"none", "done", "rejected"}
    /\ \/ ready = {}
       \/ up /\ Unacked # {}
       \/ ~up /\ channel = MaxChannels
    /\ UNCHANGED vars

Step(t) ==
    \/ Wake(t)
    \/ HandlerSucceeds(t) \/ FailAndPublish(t) \/ FailAndRegister(t) \/ GiveUp(t)
    \/ Declare(t) \/ Bind(t) \/ Consume(t) \/ Publish(t) \/ Withdraw(t)
    \/ SendToDlx(t)
    \/ Acknowledge(t) \/ Unregister(t)

Next ==
    \/ \E e \in Events : Deliver(e)
    \/ \E t \in Tasks : Step(t)
    \/ ChannelLost
    \/ Reconnect
    \/ Rest

Spec == Init /\ [][Next]_vars

\* The broker delivers what it can deliver, timers fire, a handler settles and
\* the event loop resumes what is ready.
FairSpec ==
    /\ Spec
    /\ WF_vars(\E e \in Events : Deliver(e))
    /\ \A t \in Tasks : WF_vars(Step(t))
    /\ WF_vars(Reconnect)

(***************************************************************************)
(* Properties.                                                              *)
(***************************************************************************)
\* No channel was closed so far.
FirstChannel == up /\ channel = 1

Working == {"sleeping", "handling", "declare", "bind", "consume", "publish",
            "dlx"}

Attempts(e) == {t \in OnChannel : EventOf(t) = e /\ pc[t] \in Working}

\* As long as the channel lives no event is lost, in whatever order the retry
\* queues and their consumers come and go: it is queued, being worked on,
\* handled or dead-lettered.  Apart from events that do not parse, which get
\* stuck, and those that make no domain event, which are dropped.
NothingLost ==
    FirstChannel =>
        \A e \in Events \ (Malformed \cup Invalid) :
            e \in ready \cup handled \cup dlx \/ Attempts(e) # {}

\* A name in delayConsumers stands for a consumer that will get the message,
\* although entries and consumers are removed by calls that did not add them.
ListedHasConsumer ==
    FirstChannel => \A q \in Queues : listed[q] <= Cardinality(consumers[q])

\* One outcome: an event is not retried or dead-lettered once it was handled,
\* nor worked on twice at a time.
OneOutcome ==
    FirstChannel =>
        /\ handled \cap dlx = {}
        /\ \A e \in Events : Cardinality(Attempts(e)) <= 1
        /\ \A e \in handled \cup dlx : Attempts(e) = {}

\* The handler runs once, and again for every retry the options allow; the first
\* retry is made even when they allow none.
RetryBudget ==
    \A r \in Events \X Channels :
        runs[r] <= IF MaxRetries = -1 THEN 1
                   ELSE IF MaxRetries = 0 THEN 2 ELSE MaxRetries + 1

\* No message is published into the void.
NothingDiscarded == discarded = {}

\* Every event ends with the handler's success or in the dead-letter queue,
\* unless the channel is lost, or the event is published to a retry queue whose
\* name an event that makes no domain event left listed.
EveryEventSettles ==
    []FirstChannel =>
        \A e \in Events \ Invalid :
            <>(e \in handled \cup dlx \/ (Invalid # {} /\ e \in discarded))

\* Nothing keeps the consumer from its queue for ever, on a new channel either.
QueueDrains == <>[]up => <>[](ready = {} /\ Unacked = {})
===============================================================================
