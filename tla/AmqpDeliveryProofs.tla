-------------------------- MODULE AmqpDeliveryProofs --------------------------
(***************************************************************************)
(* What AmqpDelivery does for every set of events, number of retries and    *)
(* number of channels.  The safety properties rest on one another: no event *)
(* is lost because a listed retry queue has a consumer, which is so because *)
(* the calls of handle() for one event follow each other.  Inv puts them    *)
(* together with what makes them inductive.  The last two parts are about   *)
(* AmqpDeadLetters, where this consumer fills the queue of consumeDlx().    *)
(***************************************************************************)
EXTENDS AmqpDeadLetters, FiniteSetTheorems, WellFoundedInduction, TLAPS

Registering == {"declare", "bind", "consume", "publish"}
Over == {"finish", "done", "rejected"}

\* Copies are only made where the options allow them.
CopiesAllowed ==
    \A t \in Tasks :
        /\ pc[t] \in Registering => Retries(t)
        /\ HeaderOf(t) # 0 /\ pc[t] # "none" => MaxRetries >= 0

\* No call is made for a message of a channel that is not opened yet.
FutureUntouched ==
    \A t \in Tasks : ChannelOf(t) > channel => pc[t] = "none"

\* What waits in the consumer's queue was not delivered on this channel.
ReadyUnseen ==
    up => \A t \in Tasks :
             ChannelOf(t) = channel /\ EventOf(t) \in ready => pc[t] = "none"

SameEvent(t, u) == EventOf(t) = EventOf(u) /\ ChannelOf(t) = ChannelOf(u)

\* The calls for one event on one channel follow each other.
OneByOne ==
    \A t, u \in Tasks :
        SameEvent(t, u) /\ HeaderOf(t) < HeaderOf(u) /\ pc[u] # "none"
            => pc[t] \in Over

\* A consumer stays registered until after its registrar's copy.
ConsumersRegistered ==
    \A q \in Queues : \A c \in consumers[q] :
        c \in Tasks /\ pc[c] \in Over \cup {"publish"}

ViaRegistered ==
    \A t \in Tasks :
        HeaderOf(t) # 0 /\ pc[t] # "none" =>
            /\ pc[via[t]] \in Over \cup {"publish"}
            /\ pc[t] # "sleeping" => pc[via[t]] # "publish"

RegistrarConsumes ==
    \A t \in Tasks : pc[t] = "publish" /\ Open(t) => t \in consumers[Queue(t)]

SettledOnce ==
    FirstChannel =>
        /\ handled \cap dlx = {}
        /\ ready \cap (handled \cup dlx) = {}
        /\ \A t \in OnChannel :
              EventOf(t) \in handled \cup dlx => pc[t] \notin Working

\* The runs that a call with this header may find made.
RunsBefore(header) == IF header = 0 THEN 0 ELSE header - 1

RunsCounted ==
    /\ \A t \in Tasks :
          /\ pc[t] = "sleeping" =>
                runs[<<EventOf(t), ChannelOf(t)>>] <= RunsBefore(HeaderOf(t))
          /\ pc[t] \in Working \ {"sleeping"} =>
                runs[<<EventOf(t), ChannelOf(t)>>] <= RunsBefore(HeaderOf(t)) + 1
    /\ \A e \in Events, c \in Channels :
          (\A t \in Tasks : EventOf(t) = e /\ ChannelOf(t) = c => pc[t] = "none")
              => runs[<<e, c>>] = 0

Inv ==
    /\ TypeOK
    /\ CopiesAllowed
    /\ FutureUntouched
    /\ ReadyUnseen
    /\ OneByOne
    /\ ConsumersRegistered
    /\ ViaRegistered
    /\ RegistrarConsumes
    /\ Invalid = {} => ListedHasConsumer
    /\ Invalid = {} => NothingLost
    /\ SettledOnce
    /\ RunsCounted
    /\ RetryBudget

(***************************************************************************)
(* The calls and their copies.  With these facts the later proofs need not  *)
(* look at the tuples a call is made of.                                    *)
(***************************************************************************)
USE DEF PCs

LEMMA HeaderFacts ==
    /\ MaxRetries \in Int /\ RetryDelay \in Nat /\ MaxChannels \in Nat
    /\ LastHeader \in Nat /\ LastHeader >= 2
    /\ MaxRetries >= 1 => LastHeader = MaxRetries + 1
    /\ MaxRetries <= 1 => LastHeader = 2
    /\ Headers \subseteq Nat
    /\ 0 \in Headers
    /\ 1 \notin Headers
    /\ \A h \in Headers : h <= LastHeader
    /\ \A c \in Channels : c \in Nat /\ c >= 1
    /\ 1 \in Channels
<1>1. MaxRetries \in Int /\ RetryDelay \in Nat /\ MaxChannels \in Nat /\ MaxChannels >= 1
  BY ConstantsAssumption
<1>2. LastHeader \in Nat /\ LastHeader >= 2
  BY <1>1 DEF LastHeader
<1> QED
  BY <1>1, <1>2 DEF LastHeader, Headers, Channels

\* A call is known by its event, its channel and its header.
LEMMA TaskFacts ==
    /\ \A t \in Tasks : /\ EventOf(t) \in Events
                        /\ ChannelOf(t) \in Channels
                        /\ HeaderOf(t) \in Headers
                        /\ HeaderOf(t) \in Nat
                        /\ ChannelOf(t) \in Nat
                        /\ Queue(t) \in Queues
    /\ \A t, u \in Tasks : SameEvent(t, u) /\ HeaderOf(t) = HeaderOf(u) => t = u
<1>1. ASSUME NEW t \in Tasks
      PROVE  /\ EventOf(t) \in Events
             /\ ChannelOf(t) \in Channels
             /\ HeaderOf(t) \in Headers
  BY DEF Tasks, EventOf, ChannelOf, HeaderOf
<1>2. ASSUME NEW t \in Tasks
      PROVE  Queue(t) \in Queues
  BY <1>1 DEF Queue, Queues
<1>3. ASSUME NEW t \in Tasks, NEW u \in Tasks,
             SameEvent(t, u), HeaderOf(t) = HeaderOf(u)
      PROVE  t = u
  BY <1>3 DEF SameEvent, Tasks, EventOf, ChannelOf, HeaderOf
<1> QED
  BY <1>1, <1>2, <1>3, HeaderFacts

LEMMA OriginalFacts ==
    ASSUME TypeOK, NEW e \in Events
    PROVE  /\ Original(e) \in Tasks
           /\ EventOf(Original(e)) = e
           /\ ChannelOf(Original(e)) = channel
           /\ HeaderOf(Original(e)) = 0
BY HeaderFacts DEF TypeOK, Original, Tasks, EventOf, ChannelOf, HeaderOf

\* The copy of a message that may be retried is a message of the next header.
LEMMA CopyFacts ==
    ASSUME TypeOK, NEW t \in Tasks, Retries(t)
    PROVE  /\ Copy(t) \in Tasks
           /\ EventOf(Copy(t)) = EventOf(t)
           /\ ChannelOf(Copy(t)) = channel
           /\ HeaderOf(Copy(t)) = NextHeader(HeaderOf(t))
           /\ HeaderOf(Copy(t)) > HeaderOf(t)
           /\ HeaderOf(Copy(t)) = RunsBefore(HeaderOf(t)) + 2
<1>1. HeaderOf(t) \in Headers /\ HeaderOf(t) \in Nat /\ EventOf(t) \in Events
  BY TaskFacts
<1>2. NextHeader(HeaderOf(t)) \in Headers
  <2>1. HeaderOf(t) <= MaxRetries /\ MaxRetries >= 0
    BY DEF Retries
  <2>2. NextHeader(HeaderOf(t)) \in 2..LastHeader
    BY <1>1, <2>1, HeaderFacts DEF NextHeader, RetryNumber
  <2> QED
    BY <2>2 DEF Headers
<1>3. channel \in Channels
  BY DEF TypeOK
<1>4. /\ Copy(t) \in Tasks
      /\ EventOf(Copy(t)) = EventOf(t)
      /\ ChannelOf(Copy(t)) = channel
      /\ HeaderOf(Copy(t)) = NextHeader(HeaderOf(t))
  <2> HIDE DEF EventOf, HeaderOf
  <2>1. Copy(t) = <<EventOf(t), channel, NextHeader(HeaderOf(t))>>
    BY DEF Copy
  <2>2. Copy(t) \in Tasks
    BY <1>1, <1>2, <1>3, <2>1 DEF Tasks
  <2>3. /\ Copy(t)[1] = EventOf(t)
        /\ Copy(t)[2] = channel
        /\ Copy(t)[3] = NextHeader(HeaderOf(t))
    BY <2>1
  <2> QED
    BY <2>2, <2>3 DEF EventOf, ChannelOf, HeaderOf
<1> QED
  BY <1>1, <1>4 DEF NextHeader, RetryNumber, RunsBefore

LEMMA TasksFinite == IsFiniteSet(Tasks)
<1>1. IsFiniteSet(Channels) /\ IsFiniteSet(2..LastHeader)
  BY FS_Interval, HeaderFacts DEF Channels
<1>2. IsFiniteSet(Headers)
  BY <1>1, FS_Union, FS_Singleton DEF Headers
<1>3. IsFiniteSet(Channels \X Headers)
  BY <1>1, <1>2, FS_Product
<1>4. IsFiniteSet(Events \X (Channels \X Headers))
  BY <1>3, FS_Product, ConstantsAssumption
<1> DEFINE S == Events \X (Channels \X Headers)
           flat == [p \in S |-> <<p[1], p[2][1], p[2][2]>>]
<1>5. flat \in Surjection(S, Tasks)
  <2>1. flat \in [S -> Tasks]
    BY DEF Tasks
  <2>2. ASSUME NEW t \in Tasks
        PROVE  \E p \in S : flat[p] = t
    <3>1. PICK e \in Events, c \in Channels, h \in Headers : t = <<e, c, h>>
      BY DEF Tasks
    <3>2. <<e, <<c, h>> >> \in S
      OBVIOUS
    <3>3. flat[<<e, <<c, h>> >>] = t
      BY <3>1, <3>2
    <3> QED
      BY <3>2, <3>3
  <2> QED
    BY <2>1, <2>2 DEF Surjection
<1> QED
  BY <1>4, <1>5, FS_Surjection

(***************************************************************************)
(* Types.                                                                   *)
(***************************************************************************)
LEMMA CloseChannelTypes ==
    ASSUME TypeOK, CloseChannel
    PROVE  /\ ready' \subseteq Events
           /\ declared' \subseteq Queues
           /\ consumers' \in [Queues -> SUBSET Tasks]
           /\ channel' \in Channels
           /\ up' \in BOOLEAN
BY TaskFacts DEF TypeOK, CloseChannel, Unacked, OnChannel

LEMMA CancelTypes ==
    ASSUME TypeOK, NEW c \in Tasks, Cancel(c)
    PROVE  /\ declared' \subseteq Queues
           /\ consumers' \in [Queues -> SUBSET Tasks]
BY DEF TypeOK, Cancel

LEMMA CountRunTypes ==
    ASSUME TypeOK, NEW t \in Tasks, CountRun(t)
    PROVE  runs' \in [Events \X Channels -> Nat]
<1>1. <<EventOf(t), ChannelOf(t)>> \in Events \X Channels
  BY TaskFacts
<1> QED
  BY <1>1 DEF TypeOK, CountRun

LEMMA PublishCopyTypes ==
    ASSUME TypeOK, NEW t \in Tasks, Retries(t), PublishCopy(t)
    PROVE  /\ pc' \in [Tasks -> PCs]
           /\ via' \in [Tasks -> Tasks]
           /\ discarded' \subseteq Events
<1>1. Copy(t) \in Tasks /\ EventOf(t) \in Events /\ Queue(t) \in Queues
  BY CopyFacts, TaskFacts
<1>2. CASE \E c \in consumers[Queue(t)] :
              /\ pc' = [pc EXCEPT ![t] = "finish", ![Copy(t)] = "sleeping"]
              /\ via' = [via EXCEPT ![Copy(t)] = c]
              /\ UNCHANGED discarded
  <2>1. consumers[Queue(t)] \subseteq Tasks
    BY <1>1 DEF TypeOK
  <2> QED
    BY <1>1, <1>2, <2>1 DEF TypeOK
<1>3. CASE /\ \E label \in PCs : Goto(t, label)
           /\ UNCHANGED via
           /\ discarded' \subseteq discarded \cup {EventOf(t)}
  BY <1>1, <1>3 DEF TypeOK, Goto
<1> QED
  BY <1>2, <1>3 DEF PublishCopy

\* Every step keeps the types.
LEMMA TypesKept ==
    ASSUME TypeOK, CopiesAllowed, [Next]_vars
    PROVE  TypeOK'
<1>1. ASSUME NEW e \in Events, Deliver(e)
      PROVE  TypeOK'
  BY <1>1, OriginalFacts, CountRunTypes DEF TypeOK, Deliver, Goto, Outcomes
<1>2. ASSUME NEW t \in Tasks, Step(t)
      PROVE  TypeOK'
  <2>1. CASE Wake(t)
    BY <2>1, CountRunTypes DEF TypeOK, Wake, Goto, Outcomes, Broker
  <2>2. CASE HandlerSucceeds(t)
    BY <2>2, TaskFacts DEF TypeOK, HandlerSucceeds, Goto, Broker
  <2>3. CASE FailAndPublish(t)
    BY <2>3, PublishCopyTypes DEF TypeOK, FailAndPublish, Broker
  <2>4. CASE FailAndRegister(t)
    BY <2>4 DEF TypeOK, FailAndRegister, Goto, Outcomes, Broker
  <2>5. CASE GiveUp(t)
    BY <2>5 DEF TypeOK, GiveUp, Goto, Outcomes, Broker
  <2>6. CASE Declare(t)
    BY <2>6, TaskFacts DEF TypeOK, Declare, Goto, Outcomes
  <2>7. CASE Bind(t)
    BY <2>7, CloseChannelTypes DEF TypeOK, Bind, Goto, Outcomes, Broker
  <2>8. CASE Consume(t)
    <3>1. listed' \in [Queues -> Nat] /\ pc' \in [Tasks -> PCs]
      BY <2>8, TaskFacts DEF TypeOK, Consume, Goto
    <3>2. /\ ready' \subseteq Events
          /\ declared' \subseteq Queues
          /\ consumers' \in [Queues -> SUBSET Tasks]
          /\ channel' \in Channels
          /\ up' \in BOOLEAN
      BY <2>8, TaskFacts, CloseChannelTypes DEF TypeOK, Consume, Broker
    <3> QED
      BY <2>8, <3>1, <3>2 DEF TypeOK, Consume, Outcomes
  <2>9. CASE Publish(t)
    BY <2>9, PublishCopyTypes DEF TypeOK, Publish, Broker, CopiesAllowed, Registering
  <2>10. CASE SendToDlx(t)
    BY <2>10, TaskFacts DEF TypeOK, SendToDlx, Goto, Broker
  <2>11. CASE Acknowledge(t)
    BY <2>11 DEF TypeOK, Acknowledge, Goto, Outcomes, Broker
  <2>12. CASE Unregister(t)
    <3>1. via[t] \in Tasks
      BY DEF TypeOK
    <3>2. listed' \in [Queues -> Nat] /\ pc' \in [Tasks -> PCs]
      <4>1. Queue(via[t]) \in Queues
        BY <3>1, TaskFacts
      <4>2. listed[Queue(via[t])] \in Nat
        BY <4>1 DEF TypeOK
      <4>3. listed' \in [Queues -> Nat]
        BY <2>12, <4>1, <4>2 DEF TypeOK, Unregister
      <4> QED
        BY <2>12, <4>3 DEF TypeOK, Unregister, Goto
    <3>3. declared' \subseteq Queues /\ consumers' \in [Queues -> SUBSET Tasks]
      <4>1. CASE Cancel(via[t])
        BY <3>1, <4>1, CancelTypes
      <4>2. CASE UNCHANGED <<declared, consumers>>
        BY <4>2 DEF TypeOK
      <4> QED
        BY <2>12, <4>1, <4>2 DEF Unregister
    <3> QED
      BY <2>12, <3>2, <3>3 DEF TypeOK, Unregister, Outcomes
  <2>13. CASE Withdraw(t)
    <3>1. declared' \subseteq Queues /\ consumers' \in [Queues -> SUBSET Tasks]
      <4>1. CASE Cancel(t)
        BY <4>1, CancelTypes
      <4>2. CASE UNCHANGED <<declared, consumers>>
        BY <4>2 DEF TypeOK
      <4> QED
        BY <2>13, <4>1, <4>2 DEF Withdraw
    <3> QED
      BY <2>13, <3>1 DEF TypeOK, Withdraw, Goto, Outcomes
  <2> QED
    BY <1>2, <2>1, <2>2, <2>3, <2>4, <2>5, <2>6, <2>7, <2>8, <2>9, <2>10,
       <2>11, <2>12, <2>13 DEF Step
<1>3. CASE ChannelLost
  BY <1>3, CloseChannelTypes DEF TypeOK, ChannelLost, Outcomes
<1>4. CASE Reconnect
  BY <1>4, HeaderFacts DEF TypeOK, Reconnect, Outcomes, Channels
<1>5. CASE Rest \/ UNCHANGED vars
  BY <1>5 DEF TypeOK, Rest, vars
<1> QED
  BY <1>1, <1>2, <1>3, <1>4, <1>5 DEF Next

(***************************************************************************)
(* What a step does to the calls.  The invariants about calls are proved    *)
(* from these three forms.                                                  *)
(***************************************************************************)
\* A call goes on by itself ...
Edges ==
    {<<"sleeping", "handling">>,
     <<"handling", "finish">>, <<"handling", "declare">>, <<"handling", "dlx">>,
     <<"handling", "rejected">>,
     <<"declare", "bind">>, <<"declare", "rejected">>,
     <<"bind", "consume">>, <<"bind", "rejected">>,
     <<"consume", "publish">>, <<"consume", "rejected">>,
     <<"publish", "finish">>, <<"publish", "rejected">>,
     <<"dlx", "finish">>, <<"dlx", "rejected">>,
     <<"finish", "done">>, <<"finish", "rejected">>}

GoesOn(t, label) ==
    /\ <<pc[t], label>> \in Edges
    /\ Goto(t, label)
    /\ via' = via
    /\ pc[t] = "sleeping" => pc[via[t]] # "publish"
    /\ label = "declare" => Retries(t)

\* ... or starts the call for its copy.
MakesCopy(t) ==
    /\ pc[t] \in {"handling", "publish"}
    /\ Retries(t)
    /\ Open(t)
    /\ \E c \in consumers[Queue(t)] :
          /\ pc' = [pc EXCEPT ![t] = "finish", ![Copy(t)] = "sleeping"]
          /\ via' = [via EXCEPT ![Copy(t)] = c]

\* Only a call at its consume() adds a consumer, and only itself.
AddsItself(t) ==
    \A q \in Queues : \A c \in consumers'[q] :
        \/ c \in consumers[q]
        \/ c = t /\ pc'[t] = "publish"

SameChannel == channel' = channel /\ (up' => up /\ ready' = ready)

Delivered(e) ==
    /\ up /\ e \in ready
    /\ \E label \in {"handling", "rejected"} : Goto(Original(e), label)
    /\ ready' = ready \ {e}
    /\ UNCHANGED <<via, consumers, channel, up>>

Advanced(t) ==
    /\ SameChannel
    /\ AddsItself(t)
    /\ MakesCopy(t) \/ \E label \in PCs : GoesOn(t, label)

NoCall ==
    /\ UNCHANGED <<pc, via>>
    /\ SameChannel \/ channel' = channel + 1
    /\ \A q \in Queues : consumers'[q] \subseteq consumers[q]

LEMMA PublishCopyForm ==
    ASSUME TypeOK, NEW t \in Tasks, Retries(t), PublishCopy(t),
           pc[t] \in {"handling", "publish"}
    PROVE  MakesCopy(t) \/ \E label \in PCs : GoesOn(t, label)
BY DEF PublishCopy, MakesCopy, GoesOn, Edges, Goto

LEMMA CloseChannelForm ==
    ASSUME TypeOK, CloseChannel
    PROVE  /\ SameChannel
           /\ \A q \in Queues : consumers'[q] = {}
BY DEF CloseChannel, SameChannel

LEMMA StepForm ==
    ASSUME TypeOK, CopiesAllowed, NEW t \in Tasks, Step(t)
    PROVE  Advanced(t)
<1> USE DEF Advanced, SameChannel, AddsItself, Broker
<1>1. CASE Wake(t)
  BY <1>1 DEF Wake, GoesOn, Edges, Goto
<1>2. CASE HandlerSucceeds(t)
  BY <1>2 DEF HandlerSucceeds, GoesOn, Edges, Goto
<1>3. CASE FailAndPublish(t)
  BY <1>3, PublishCopyForm DEF FailAndPublish
<1>4. CASE FailAndRegister(t)
  BY <1>4 DEF FailAndRegister, GoesOn, Edges, Goto
<1>5. CASE GiveUp(t)
  BY <1>5 DEF GiveUp, GoesOn, Edges, Goto
<1>6. CASE Declare(t)
  BY <1>6 DEF Declare, GoesOn, Edges, Goto
<1>7. CASE Bind(t)
  <2>1. \E label \in PCs : GoesOn(t, label)
    BY <1>7 DEF Bind, GoesOn, Edges, Goto
  <2>2. SameChannel /\ AddsItself(t)
    BY <1>7, CloseChannelForm DEF Bind
  <2> QED
    BY <2>1, <2>2
<1>8. CASE Consume(t)
  <2>1. \E label \in PCs : GoesOn(t, label)
    BY <1>8 DEF Consume, GoesOn, Edges, Goto
  <2>2. SameChannel
    BY <1>8, CloseChannelForm DEF Consume
  <2>3. AddsItself(t)
    <3>1. CASE consumers' = consumers
      BY <3>1
    <3>2. CASE CloseChannel
      BY <3>2, CloseChannelForm
    <3>3. CASE /\ consumers' = [consumers EXCEPT ![Queue(t)] = @ \cup {t}]
               /\ Goto(t, "publish")
      BY <3>3, TaskFacts DEF TypeOK, Goto
    <3> QED
      BY <1>8, <3>1, <3>2, <3>3 DEF Consume
  <2> QED
    BY <2>1, <2>2, <2>3
<1>9. CASE Publish(t)
  <2>1. Retries(t)
    BY <1>9 DEF Publish, CopiesAllowed, Registering
  <2> QED
    BY <1>9, <2>1, PublishCopyForm DEF Publish
<1>10. CASE SendToDlx(t)
  BY <1>10 DEF SendToDlx, GoesOn, Edges, Goto
<1>11. CASE Acknowledge(t)
  BY <1>11 DEF Acknowledge, GoesOn, Edges, Goto
<1>12. CASE Unregister(t)
  <2>1. \E label \in PCs : GoesOn(t, label)
    BY <1>12 DEF Unregister, GoesOn, Edges, Goto
  <2>2. AddsItself(t)
    <3>1. CASE consumers' = consumers
      BY <3>1
    <3>2. CASE Cancel(via[t])
      <4>1. Queue(via[t]) \in Queues
        BY TaskFacts DEF TypeOK
      <4> QED
        BY <3>2, <4>1 DEF Cancel, TypeOK
    <3> QED
      BY <1>12, <3>1, <3>2 DEF Unregister
  <2> QED
    BY <1>12, <2>1, <2>2 DEF Unregister
<1>13. CASE Withdraw(t)
  <2>1. \E label \in PCs : GoesOn(t, label)
    BY <1>13 DEF Withdraw, GoesOn, Edges, Goto
  <2>2. AddsItself(t)
    BY <1>13, TaskFacts DEF Withdraw, Cancel, TypeOK
  <2> QED
    BY <1>13, <2>1, <2>2 DEF Withdraw
<1> QED
  BY <1>1, <1>2, <1>3, <1>4, <1>5, <1>6, <1>7, <1>8, <1>9, <1>10, <1>11,
     <1>12, <1>13 DEF Step

\* Every step has one of the forms.
LEMMA NextForm ==
    ASSUME TypeOK, CopiesAllowed, [Next]_vars
    PROVE  \/ \E e \in Events : Delivered(e)
           \/ \E t \in Tasks : Advanced(t)
           \/ NoCall
<1>1. ASSUME NEW e \in Events, Deliver(e)
      PROVE  Delivered(e)
  BY <1>1 DEF Deliver, Delivered
<1>2. CASE ChannelLost
  BY <1>2, CloseChannelForm DEF ChannelLost, NoCall
<1>3. CASE Reconnect \/ Rest \/ UNCHANGED vars
  BY <1>3 DEF Reconnect, Rest, vars, NoCall, SameChannel
<1> QED
  BY <1>1, <1>2, <1>3, StepForm DEF Next

(***************************************************************************)
(* The invariants about calls.                                              *)
(***************************************************************************)
\* What the three forms make of pc and via, call by call.
LEMMA DeliveredCalls ==
    ASSUME TypeOK, NEW e \in Events, Delivered(e)
    PROVE  /\ pc'[Original(e)] \in {"handling", "rejected"}
           /\ \A u \in Tasks : u # Original(e) => pc'[u] = pc[u]
BY OriginalFacts DEF TypeOK, Delivered, Goto

LEMMA GoesOnCalls ==
    ASSUME TypeOK, NEW t \in Tasks, NEW label \in PCs, GoesOn(t, label)
    PROVE  /\ pc'[t] = label
           /\ pc[t] # "none" /\ label \notin {"none", "sleeping"}
           /\ pc[t] \in Over => label \in Over
           /\ \A u \in Tasks : u # t => pc'[u] = pc[u]
           /\ \A u \in Tasks : via'[u] = via[u]
BY DEF TypeOK, GoesOn, Edges, Goto, Over

LEMMA MakesCopyCalls ==
    ASSUME TypeOK, OneByOne, NEW t \in Tasks, MakesCopy(t)
    PROVE  /\ Copy(t) \in Tasks /\ Copy(t) # t
           /\ SameEvent(t, Copy(t)) /\ HeaderOf(Copy(t)) > HeaderOf(t)
           /\ pc[Copy(t)] = "none"
           /\ pc'[t] = "finish"
           /\ pc'[Copy(t)] = "sleeping"
           /\ via'[Copy(t)] \in consumers[Queue(t)]
           /\ \A u \in Tasks : u # t /\ u # Copy(t) => pc'[u] = pc[u]
           /\ \A u \in Tasks : u # Copy(t) => via'[u] = via[u]
<1>1. /\ Copy(t) \in Tasks
      /\ HeaderOf(Copy(t)) > HeaderOf(t)
      /\ HeaderOf(t) \in Nat
      /\ SameEvent(t, Copy(t))
      /\ Copy(t) # t
  BY CopyFacts, TaskFacts DEF MakesCopy, Open, SameEvent
<1>2. pc[Copy(t)] = "none"
  BY <1>1 DEF MakesCopy, OneByOne, Over
<1> QED
  BY <1>1, <1>2 DEF TypeOK, MakesCopy

LEMMA CopiesAllowedKept ==
    ASSUME TypeOK, CopiesAllowed, OneByOne, [Next]_vars
    PROVE  CopiesAllowed'
<1>1. ASSUME NEW e \in Events, Delivered(e)
      PROVE  CopiesAllowed'
  BY <1>1, DeliveredCalls, OriginalFacts DEF CopiesAllowed, Registering, Retries
<1>2. ASSUME NEW t \in Tasks, MakesCopy(t)
      PROVE  CopiesAllowed'
  <2>1. MaxRetries >= 0
    BY <1>2 DEF MakesCopy, Retries
  <2> QED
    BY <1>2, <2>1, MakesCopyCalls DEF CopiesAllowed, Registering, Retries
<1>3. ASSUME NEW t \in Tasks, NEW label \in PCs, GoesOn(t, label)
      PROVE  CopiesAllowed'
  <2>1. label \in Registering => Retries(t)
    BY <1>3 DEF GoesOn, Edges, CopiesAllowed, Registering
  <2> QED
    BY <1>3, <2>1, GoesOnCalls DEF CopiesAllowed, Registering, Retries
<1>4. ASSUME NoCall
      PROVE  CopiesAllowed'
  BY <1>4 DEF NoCall, CopiesAllowed, Retries
<1> QED
  BY <1>1, <1>2, <1>3, <1>4, NextForm DEF Advanced

LEMMA FutureUntouchedKept ==
    ASSUME TypeOK, CopiesAllowed, FutureUntouched, OneByOne, [Next]_vars
    PROVE  FutureUntouched'
<1>1. ASSUME NEW e \in Events, Delivered(e)
      PROVE  FutureUntouched'
  <2>1. channel' = channel /\ channel \in Nat
    BY <1>1, HeaderFacts DEF Delivered, TypeOK
  <2> QED
    BY <1>1, <2>1, DeliveredCalls, OriginalFacts, TaskFacts DEF FutureUntouched
<1>2. ASSUME NEW t \in Tasks, MakesCopy(t), SameChannel
      PROVE  FutureUntouched'
  <2>1. channel' = channel /\ channel \in Nat /\ ChannelOf(Copy(t)) = channel
    BY <1>2, CopyFacts, HeaderFacts DEF MakesCopy, SameChannel, TypeOK
  <2> QED
    BY <1>2, <2>1, MakesCopyCalls DEF FutureUntouched, MakesCopy, Open
<1>3. ASSUME NEW t \in Tasks, NEW label \in PCs, GoesOn(t, label), SameChannel
      PROVE  FutureUntouched'
  BY <1>3, GoesOnCalls DEF FutureUntouched, SameChannel
<1>4. ASSUME NoCall
      PROVE  FutureUntouched'
  <2>1. channel \in Nat
    BY HeaderFacts DEF TypeOK
  <2> QED
    BY <1>4, <2>1, TaskFacts DEF NoCall, FutureUntouched, SameChannel
<1> QED
  BY <1>1, <1>2, <1>3, <1>4, NextForm DEF Advanced

LEMMA ReadyUnseenKept ==
    ASSUME TypeOK, CopiesAllowed, FutureUntouched, ReadyUnseen, OneByOne,
           [Next]_vars
    PROVE  ReadyUnseen'
<1>1. ASSUME NEW e \in Events, Delivered(e)
      PROVE  ReadyUnseen'
  BY <1>1, DeliveredCalls, OriginalFacts DEF ReadyUnseen, Delivered
<1>2. ASSUME NEW t \in Tasks, MakesCopy(t), SameChannel
      PROVE  ReadyUnseen'
  <2>1. pc[t] # "none" /\ ChannelOf(t) = channel
    BY <1>2 DEF MakesCopy, Open
  <2>2. EventOf(Copy(t)) = EventOf(t)
    BY <1>2, MakesCopyCalls DEF SameEvent
  <2> QED
    BY <1>2, <2>1, <2>2, MakesCopyCalls DEF ReadyUnseen, SameChannel
<1>3. ASSUME NEW t \in Tasks, NEW label \in PCs, GoesOn(t, label), SameChannel
      PROVE  ReadyUnseen'
  BY <1>3, GoesOnCalls DEF ReadyUnseen, SameChannel
<1>4. ASSUME NoCall
      PROVE  ReadyUnseen'
  <2>1. CASE SameChannel
    BY <1>4, <2>1 DEF NoCall, ReadyUnseen, SameChannel
  <2>2. CASE channel' = channel + 1
    <3>1. channel \in Nat
      BY HeaderFacts DEF TypeOK
    <3>2. ASSUME NEW u \in Tasks, ChannelOf(u) = channel'
          PROVE  pc'[u] = "none"
      BY <1>4, <2>2, <3>1, <3>2 DEF NoCall, FutureUntouched
    <3> QED
      BY <3>2 DEF ReadyUnseen
  <2> QED
    BY <1>4, <2>1, <2>2 DEF NoCall
<1> QED
  BY <1>1, <1>2, <1>3, <1>4, NextForm DEF Advanced

LEMMA OneByOneKept ==
    ASSUME TypeOK, CopiesAllowed, ReadyUnseen, OneByOne, [Next]_vars
    PROVE  OneByOne'
<1>1. ASSUME NEW e \in Events, Delivered(e)
      PROVE  OneByOne'
  <2>1. \A u \in Tasks : SameEvent(Original(e), u) => pc[u] = "none"
    BY <1>1, OriginalFacts DEF Delivered, ReadyUnseen, SameEvent
  <2>2. \A u \in Tasks : ~(HeaderOf(u) < HeaderOf(Original(e)))
    BY TaskFacts, OriginalFacts
  <2> QED
    BY <1>1, <2>1, <2>2, DeliveredCalls, OriginalFacts DEF OneByOne, SameEvent
<1>2. ASSUME NEW t \in Tasks, MakesCopy(t)
      PROVE  OneByOne'
  <2>1. pc[t] \notin Over \cup {"none"}
    BY <1>2 DEF MakesCopy, Over
  <2>2. ASSUME NEW u \in Tasks, SameEvent(t, u), pc[u] # "none", u # t
        PROVE  HeaderOf(u) < HeaderOf(t) /\ pc[u] \in Over
    BY <2>1, <2>2, TaskFacts DEF OneByOne, SameEvent
  <2>3. ASSUME NEW u \in Tasks, NEW w \in Tasks,
               SameEvent(u, w), HeaderOf(u) < HeaderOf(w), pc'[w] # "none"
        PROVE  pc'[u] \in Over
    <3>1. /\ HeaderOf(t) \in Nat /\ HeaderOf(u) \in Nat /\ HeaderOf(w) \in Nat
          /\ HeaderOf(Copy(t)) \in Nat
      BY <1>2, TaskFacts, MakesCopyCalls
    <3>2. CASE u = t
      BY <1>2, <3>2, MakesCopyCalls DEF Over
    <3>3. CASE u = Copy(t)
      <4>1. w # t /\ w # Copy(t) /\ SameEvent(t, w) /\ pc[w] # "none"
        BY <1>2, <2>3, <3>1, <3>3, MakesCopyCalls DEF SameEvent
      <4> QED
        BY <1>2, <2>2, <2>3, <3>1, <3>3, <4>1, MakesCopyCalls
    <3>4. CASE u # t /\ u # Copy(t) /\ w = Copy(t)
      <4>1. SameEvent(t, u) /\ pc'[u] = pc[u]
        BY <1>2, <2>3, <3>4, MakesCopyCalls DEF SameEvent
      <4>2. HeaderOf(u) # 1 /\ HeaderOf(u) # HeaderOf(t)
        BY <3>4, <4>1, HeaderFacts, TaskFacts
      <4>3. HeaderOf(Copy(t)) = IF HeaderOf(t) = 0 THEN 2 ELSE HeaderOf(t) + 1
        BY <1>2, <3>1, CopyFacts DEF MakesCopy, NextHeader, RetryNumber
      <4>4. HeaderOf(u) < HeaderOf(t)
        BY <2>3, <3>1, <3>4, <4>2, <4>3
      <4> QED
        BY <2>1, <4>1, <4>4 DEF OneByOne, SameEvent
    <3>5. CASE u # t /\ u # Copy(t) /\ w # Copy(t)
      BY <1>2, <2>1, <2>3, <3>5, MakesCopyCalls DEF OneByOne
    <3> QED
      BY <3>2, <3>3, <3>4, <3>5
  <2> QED
    BY <2>3 DEF OneByOne, SameEvent
<1>3. ASSUME NEW t \in Tasks, NEW label \in PCs, GoesOn(t, label)
      PROVE  OneByOne'
  BY <1>3, GoesOnCalls DEF OneByOne, SameEvent
<1>4. ASSUME NoCall
      PROVE  OneByOne'
  BY <1>4 DEF NoCall, OneByOne, SameEvent
<1> QED
  BY <1>1, <1>2, <1>3, <1>4, NextForm DEF Advanced

(***************************************************************************)
(* The consumers of the retry queues.                                       *)
(***************************************************************************)
LEMMA ConsumersRegisteredKept ==
    ASSUME TypeOK, CopiesAllowed, ReadyUnseen, OneByOne, ConsumersRegistered,
           [Next]_vars
    PROVE  ConsumersRegistered'
<1>1. ASSUME NEW e \in Events, Delivered(e)
      PROVE  ConsumersRegistered'
  <2>1. pc[Original(e)] = "none"
    BY <1>1, OriginalFacts DEF Delivered, ReadyUnseen
  <2> QED
    BY <1>1, <2>1, DeliveredCalls DEF Delivered, ConsumersRegistered, Over
<1>2. ASSUME NEW t \in Tasks, MakesCopy(t), AddsItself(t)
      PROVE  ConsumersRegistered'
  BY <1>2, MakesCopyCalls DEF ConsumersRegistered, AddsItself, Over
<1>3. ASSUME NEW t \in Tasks, NEW label \in PCs, GoesOn(t, label), AddsItself(t)
      PROVE  ConsumersRegistered'
  <2>1. pc[t] = "publish" => label \in Over
    BY <1>3 DEF GoesOn, Edges, Over
  <2> QED
    BY <1>3, <2>1, GoesOnCalls DEF ConsumersRegistered, AddsItself
<1>4. ASSUME NoCall
      PROVE  ConsumersRegistered'
  BY <1>4 DEF NoCall, ConsumersRegistered
<1> QED
  BY <1>1, <1>2, <1>3, <1>4, NextForm DEF Advanced

LEMMA ViaRegisteredKept ==
    ASSUME TypeOK, CopiesAllowed, ReadyUnseen, OneByOne, ConsumersRegistered,
           ViaRegistered, [Next]_vars
    PROVE  ViaRegistered'
<1>0. \A u \in Tasks : via[u] \in Tasks
  BY DEF TypeOK
<1>1. ASSUME NEW e \in Events, Delivered(e)
      PROVE  ViaRegistered'
  <2>1. pc[Original(e)] = "none" /\ via' = via /\ HeaderOf(Original(e)) = 0
    BY <1>1, OriginalFacts DEF Delivered, ReadyUnseen
  <2> QED
    BY <1>0, <1>1, <2>1, DeliveredCalls DEF ViaRegistered, Over
<1>2. ASSUME NEW t \in Tasks, MakesCopy(t)
      PROVE  ViaRegistered'
  <2>1. /\ via'[Copy(t)] \in Tasks
        /\ pc[via'[Copy(t)]] \in Over \cup {"publish"}
    BY <1>2, MakesCopyCalls, TaskFacts DEF ConsumersRegistered
  <2>2. pc[t] \in {"handling", "publish"}
    BY <1>2 DEF MakesCopy
  <2>3. ASSUME NEW u \in Tasks, HeaderOf(u) # 0, pc'[u] # "none", u # Copy(t)
        PROVE  /\ pc[u] # "none" /\ (pc'[u] # "sleeping" => pc[u] # "sleeping")
               /\ via'[u] = via[u]
    BY <1>2, <2>2, <2>3, MakesCopyCalls
  <2>4. \A c \in Tasks : pc[c] \in Over \cup {"publish"} =>
            /\ pc'[c] \in Over \cup {"publish"}
            /\ pc[c] # "publish" => pc'[c] # "publish"
    BY <1>2, MakesCopyCalls DEF Over
  <2> QED
    BY <1>0, <1>2, <2>1, <2>3, <2>4, MakesCopyCalls DEF ViaRegistered
<1>3. ASSUME NEW t \in Tasks, NEW label \in PCs, GoesOn(t, label)
      PROVE  ViaRegistered'
  <2>1. \A c \in Tasks : pc[c] \in Over \cup {"publish"} =>
            /\ pc'[c] \in Over \cup {"publish"}
            /\ pc[c] # "publish" => pc'[c] # "publish"
    BY <1>3, GoesOnCalls DEF GoesOn, Edges, Over
  <2>2. pc[t] = "sleeping" => pc[via[t]] # "publish"
    BY <1>3 DEF GoesOn
  <2> QED
    BY <1>0, <1>3, <2>1, <2>2, GoesOnCalls DEF ViaRegistered
<1>4. ASSUME NoCall
      PROVE  ViaRegistered'
  BY <1>4 DEF NoCall, ViaRegistered
<1> QED
  BY <1>1, <1>2, <1>3, <1>4, NextForm DEF Advanced

\* What a step does to the consumers and their list.
Quiet == UNCHANGED <<listed, consumers, channel, up>>

Subscribes(t) ==
    /\ pc[t] = "consume"
    /\ Goto(t, "publish")
    /\ consumers' = [consumers EXCEPT ![Queue(t)] = @ \cup {t}]
    /\ listed' = [listed EXCEPT ![Queue(t)] = @ + 1]
    /\ UNCHANGED <<channel, up>>

Unsubscribes(t) ==
    /\ pc[t] = "finish" /\ HeaderOf(t) # 0 /\ Goto(t, "done") /\ Open(t)
    /\ Cancel(via[t])
    /\ listed' = [listed EXCEPT ![Queue(via[t])] = IF @ = 0 THEN 0 ELSE @ - 1]
    /\ UNCHANGED <<channel, up>>

Withdraws(t) ==
    /\ EventOf(t) \in Invalid
    /\ Goto(t, "finish")
    /\ Cancel(t)
    /\ UNCHANGED <<listed, channel, up>>

\* A call that finds its channel closed, or closes it.
LosesChannel(t) ==
    /\ Goto(t, "rejected")
    /\ \/ ~up'
       \/ /\ ~Open(t)
          /\ pc[t] # "none"
          /\ UNCHANGED <<consumers, channel, up>>

LEMMA ListForm ==
    ASSUME TypeOK, NEW t \in Tasks, Step(t)
    PROVE  \/ Quiet /\ pc'[t] # "publish"
           \/ Subscribes(t) \/ Unsubscribes(t) \/ Withdraws(t) \/ LosesChannel(t)
<1>1. CASE FailAndPublish(t) \/ Publish(t)
  <2>1. Quiet
    BY <1>1 DEF FailAndPublish, Publish, Broker, Quiet
  <2>2. \/ \E label \in {"rejected", "finish"} : Goto(t, label)
        \/ pc' = [pc EXCEPT ![t] = "finish", ![Copy(t)] = "sleeping"]
    BY <1>1 DEF FailAndPublish, Publish, PublishCopy
  <2> QED
    BY <2>1, <2>2 DEF TypeOK, Goto
<1>2. CASE Wake(t) \/ HandlerSucceeds(t) \/ FailAndRegister(t) \/ GiveUp(t)
           \/ SendToDlx(t) \/ Acknowledge(t) \/ Declare(t)
  <2>1. Quiet
    BY <1>2 DEF Wake, HandlerSucceeds, FailAndRegister, GiveUp, SendToDlx,
                Acknowledge, Declare, Broker, Quiet
  <2>2. \E label \in PCs \ {"publish"} : Goto(t, label)
    BY <1>2 DEF Wake, HandlerSucceeds, FailAndRegister, GiveUp, SendToDlx,
                Acknowledge, Declare
  <2> QED
    BY <2>1, <2>2 DEF TypeOK, Goto
<1>3. CASE Bind(t)
  BY <1>3 DEF TypeOK, Bind, CloseChannel, LosesChannel, Quiet, Broker, Goto
<1>4. CASE Consume(t)
  BY <1>4 DEF Consume, CloseChannel, LosesChannel, Subscribes, Broker
<1>5. CASE Unregister(t)
  BY <1>5 DEF Unregister, LosesChannel, Unsubscribes
<1>6. CASE Withdraw(t)
  BY <1>6 DEF Withdraw, LosesChannel, Withdraws
<1> QED
  BY <1>1, <1>2, <1>3, <1>4, <1>5, <1>6 DEF Step

LEMMA RegistrarConsumesKept ==
    ASSUME Inv, [Next]_vars
    PROVE  RegistrarConsumes'
<1> USE DEF Inv
<1>0. \A u \in Tasks : Queue(u) \in Queues
  BY TaskFacts
<1>1. ASSUME NEW e \in Events, Delivered(e)
      PROVE  RegistrarConsumes'
  BY <1>1, DeliveredCalls, OriginalFacts DEF Delivered, RegistrarConsumes, Open
<1>2. ASSUME NEW t \in Tasks, Step(t)
      PROVE  RegistrarConsumes'
  <2>1. ASSUME NEW u \in Tasks, u # t, pc'[u] = "publish"
        PROVE  pc[u] = "publish"
    BY <1>2, <2>1, StepForm, GoesOnCalls, MakesCopyCalls DEF Advanced
  <2>2. CASE Quiet /\ pc'[t] # "publish"
    BY <2>1, <2>2 DEF Quiet, RegistrarConsumes, Open
  <2>3. CASE Subscribes(t)
    BY <1>0, <2>1, <2>3 DEF Subscribes, RegistrarConsumes, Open, TypeOK
  <2>4. CASE Unsubscribes(t)
    <3>1. /\ pc'[t] # "publish" /\ via[t] \in Tasks
          /\ pc[via[t]] # "publish"
      BY <2>4 DEF Unsubscribes, ViaRegistered, TypeOK, Goto
    <3> QED
      BY <1>0, <2>1, <2>4, <3>1
         DEF Unsubscribes, Cancel, RegistrarConsumes, Open, TypeOK
  <2>5. CASE LosesChannel(t)
    <3>1. pc'[t] # "publish"
      BY <2>5 DEF LosesChannel, TypeOK, Goto
    <3> QED
      BY <2>1, <2>5, <3>1 DEF LosesChannel, RegistrarConsumes, Open
  <2>6. CASE Withdraws(t)
    <3>1. pc'[t] # "publish"
      BY <2>6 DEF Withdraws, TypeOK, Goto
    <3> QED
      BY <1>0, <2>1, <2>6, <3>1
         DEF Withdraws, Cancel, RegistrarConsumes, Open, TypeOK
  <2> QED
    BY <1>2, <2>2, <2>3, <2>4, <2>5, <2>6, ListForm
<1>3. CASE ChannelLost
  BY <1>3 DEF ChannelLost, CloseChannel, RegistrarConsumes, Open
<1>4. CASE Reconnect
  <2>1. channel \in Nat
    BY HeaderFacts DEF TypeOK
  <2>2. \A u \in Tasks : ChannelOf(u) = channel' => pc'[u] = "none"
    BY <1>4, <2>1 DEF Reconnect, FutureUntouched
  <2> QED
    BY <2>2 DEF RegistrarConsumes, Open
<1>5. CASE Rest \/ UNCHANGED vars
  BY <1>5 DEF Rest, vars, RegistrarConsumes, Open
<1> QED
  BY <1>1, <1>2, <1>3, <1>4, <1>5 DEF Next, Deliver, Delivered

LEMMA ListedHasConsumerKept ==
    ASSUME Inv, Invalid = {}, [Next]_vars
    PROVE  ListedHasConsumer'
<1> USE DEF Inv
<1>0. /\ \A u \in Tasks : Queue(u) \in Queues /\ via[u] \in Tasks
      /\ \A q \in Queues : IsFiniteSet(consumers[q]) /\ listed[q] \in Nat
  BY TaskFacts, TasksFinite, FS_Subset DEF TypeOK
<1>a. ListedHasConsumer
  OBVIOUS
<1>1. ASSUME NEW e \in Events, Deliver(e)
      PROVE  ListedHasConsumer'
  BY <1>1 DEF Deliver, ListedHasConsumer, FirstChannel
<1>2. ASSUME NEW t \in Tasks, Step(t)
      PROVE  ListedHasConsumer'
  <2>1. CASE Quiet
    BY <2>1 DEF Quiet, ListedHasConsumer, FirstChannel
  <2>2. CASE Subscribes(t)
    <3>1. t \notin consumers[Queue(t)]
      BY <1>0, <2>2 DEF Subscribes, ConsumersRegistered, Over
    <3>2. Cardinality(consumers[Queue(t)] \cup {t})
             = Cardinality(consumers[Queue(t)]) + 1
      BY <1>0, <3>1, FS_AddElement
    <3>3. \A q \in Queues :
             /\ listed'[q] = IF q = Queue(t) THEN listed[q] + 1 ELSE listed[q]
             /\ consumers'[q] = IF q = Queue(t) THEN consumers[q] \cup {t}
                                                ELSE consumers[q]
      BY <2>2 DEF Subscribes, TypeOK
    <3>4. \A q \in Queues : Cardinality(consumers[q]) \in Nat
      BY <1>0, FS_CardinalityType
    <3> QED
      <4> SUFFICES ASSUME FirstChannel', NEW q \in Queues
                   PROVE  listed'[q] <= Cardinality(consumers'[q])
        BY DEF ListedHasConsumer
      <4>1. listed[q] <= Cardinality(consumers[q])
        BY <2>2 DEF Subscribes, ListedHasConsumer, FirstChannel
      <4>2. CASE q = Queue(t)
        BY <1>0, <3>2, <3>3, <3>4, <4>1, <4>2
      <4>3. CASE q # Queue(t)
        BY <3>3, <4>1, <4>3
      <4> QED
        BY <4>2, <4>3
  <2>3. CASE Unsubscribes(t)
    <3> DEFINE q0 == Queue(via[t])
    <3>1. q0 \in Queues
      BY <1>0
    <3>2. \A q \in Queues :
             /\ listed'[q] = IF q = q0 /\ listed[q] # 0 THEN listed[q] - 1
                                                       ELSE listed[q]
             /\ consumers'[q] = IF q = q0 THEN consumers[q] \ {via[t]}
                                          ELSE consumers[q]
      BY <1>0, <2>3, <3>1 DEF Unsubscribes, Cancel, TypeOK
    <3>3. IsFiniteSet(consumers[q0])
      BY <1>0, <3>1
    <3>4. IsFiniteSet(consumers[q0] \ {via[t]})
      BY <3>3, FS_RemoveElement
    <3>5. /\ Cardinality(consumers[q0] \ {via[t]}) \in Nat
          /\ Cardinality(consumers[q0]) \in Nat
      BY <3>3, <3>4, FS_CardinalityType
    <3>6. Cardinality(consumers[q0] \ {via[t]}) >= Cardinality(consumers[q0]) - 1
      <4>1. Cardinality(consumers[q0] \ {via[t]})
               = IF via[t] \in consumers[q0] THEN Cardinality(consumers[q0]) - 1
                                             ELSE Cardinality(consumers[q0])
        BY <3>3, FS_RemoveElement
      <4> QED
        BY <3>5, <4>1
    <3> HIDE DEF q0, Inv
    <3> SUFFICES ASSUME FirstChannel', NEW q \in Queues
                 PROVE  listed'[q] <= Cardinality(consumers'[q])
      BY DEF ListedHasConsumer
    <3>7. listed[q] <= Cardinality(consumers[q]) /\ listed[q] \in Nat
      <4>1. FirstChannel
        BY <2>3 DEF Unsubscribes, FirstChannel
      <4>2. listed[q] <= Cardinality(consumers[q])
        BY <1>a, <4>1 DEF ListedHasConsumer
      <4> QED
        BY <1>0, <4>2
    <3>8. CASE q = q0
      BY <3>2, <3>5, <3>6, <3>7, <3>8
    <3>9. CASE q # q0
      BY <3>2, <3>7, <3>9
    <3> QED
      BY <3>8, <3>9
  <2>4. CASE LosesChannel(t)
    <3>1. FirstChannel' => FALSE
      <4> SUFFICES ASSUME up', channel' = 1
                   PROVE  FALSE
        BY DEF FirstChannel
      <4>1. ~Open(t) /\ pc[t] # "none" /\ up /\ channel = 1
        BY <2>4 DEF LosesChannel
      <4>2. ChannelOf(t) # 1 /\ ChannelOf(t) \in Nat /\ ChannelOf(t) >= 1
        BY <4>1, TaskFacts, HeaderFacts DEF Open
      <4>3. pc[t] = "none"
        BY <4>1, <4>2 DEF FutureUntouched
      <4> QED
        BY <4>1, <4>3
    <3> QED
      BY <3>1 DEF ListedHasConsumer
  <2> QED
    BY <1>2, <2>1, <2>2, <2>3, <2>4, ListForm DEF Withdraws
<1>3. CASE ChannelLost
  BY <1>3 DEF ChannelLost, CloseChannel, ListedHasConsumer, FirstChannel
<1>4. CASE Reconnect
  BY <1>4, HeaderFacts DEF Reconnect, ListedHasConsumer, FirstChannel, TypeOK
<1>5. CASE Rest \/ UNCHANGED vars
  BY <1>5 DEF Rest, vars, ListedHasConsumer, FirstChannel
<1> QED
  BY <1>1, <1>2, <1>3, <1>4, <1>5 DEF Next

(***************************************************************************)
(* The events.                                                              *)
(***************************************************************************)
\* At most one call for an event is being worked on.
LEMMA OnlyAttempt ==
    ASSUME OneByOne, NEW t \in Tasks, NEW u \in Tasks, SameEvent(t, u),
           pc[t] \in Working, pc[u] \in Working
    PROVE  t = u
<1>1. HeaderOf(t) \in Nat /\ HeaderOf(u) \in Nat
  BY TaskFacts
<1>2. SameEvent(u, t) /\ "none" \notin Working /\ Working \cap Over = {}
  BY DEF SameEvent, Working, Over
<1>3. ~(HeaderOf(t) < HeaderOf(u)) /\ ~(HeaderOf(u) < HeaderOf(t))
  BY <1>2 DEF OneByOne
<1> QED
  BY <1>1, <1>3, TaskFacts

LEMMA StepIsFirst ==
    ASSUME Inv, NEW t \in Tasks, Step(t), FirstChannel'
    PROVE  FirstChannel /\ Open(t) /\ ready' = ready /\ channel' = channel
<1>1. FirstChannel /\ ready' = ready /\ channel' = channel
  BY StepForm DEF Inv, Advanced, SameChannel, FirstChannel
<1>2. pc[t] # "none"
  BY DEF Step, Wake, HandlerSucceeds, FailAndPublish, FailAndRegister, GiveUp,
         Declare, Bind, Consume, Publish, Withdraw, SendToDlx, Acknowledge,
         Unregister
<1>3. ChannelOf(t) = 1
  BY <1>1, <1>2, TaskFacts, HeaderFacts DEF Inv, FutureUntouched, FirstChannel
<1> QED
  BY <1>1, <1>3 DEF Open, FirstChannel

\* On the first channel, a call that ends has settled its event or made a copy,
\* which has a consumer; only the end of a call settles an event.
Settles(t) ==
    /\ pc[t] \in Working /\ Goto(t, "finish")
    /\ \/ handled' = handled \cup {EventOf(t)} /\ dlx' = dlx
       \/ dlx' = dlx \cup {EventOf(t)} /\ handled' = handled

LeavesEvents(t) ==
    /\ handled' = handled /\ dlx' = dlx
    /\ MakesCopy(t) \/ \E label \in PCs : GoesOn(t, label)

KeepsWorking(t) ==
    /\ handled' = handled /\ dlx' = dlx
    /\ \/ MakesCopy(t)
       \/ \E label \in PCs :
             GoesOn(t, label) /\ (pc[t] \in Working => label \in Working)

LEMMA CopyHasConsumer ==
    ASSUME Inv, Invalid = {}, NEW t \in Tasks, Retries(t), Open(t), FirstChannel,
           pc[t] = "publish" \/ (pc[t] = "handling" /\ listed[Queue(t)] > 0),
           PublishCopy(t)
    PROVE  MakesCopy(t)
<1>1. consumers[Queue(t)] # {}
  <2>1. CASE pc[t] = "publish"
    BY <2>1 DEF Inv, RegistrarConsumes
  <2>2. CASE pc[t] = "handling" /\ listed[Queue(t)] > 0
    <3>1. Queue(t) \in Queues
      BY TaskFacts
    <3>2. listed[Queue(t)] <= Cardinality(consumers[Queue(t)])
      BY <3>1 DEF Inv, ListedHasConsumer
    <3>3. listed[Queue(t)] \in Nat
      BY <3>1 DEF Inv, TypeOK
    <3>4. Cardinality({}) = 0
      BY FS_EmptySet
    <3> QED
      BY <2>2, <3>2, <3>3, <3>4
  <2> QED
    BY <2>1, <2>2
<1> QED
  BY <1>1 DEF PublishCopy, MakesCopy

LEMMA EventForm ==
    ASSUME Inv, NEW t \in Tasks, Step(t), FirstChannel'
    PROVE  Settles(t) \/ LeavesEvents(t)
<1>0. FirstChannel /\ Open(t) /\ channel' = channel
  BY StepIsFirst
<1>1. MakesCopy(t) \/ \E label \in PCs : GoesOn(t, label)
  BY StepForm DEF Inv, Advanced
<1>2. CASE HandlerSucceeds(t)
  BY <1>2 DEF HandlerSucceeds, Settles, Working
<1>3. CASE SendToDlx(t)
  BY <1>0, <1>1, <1>3 DEF SendToDlx, Settles, LeavesEvents, Working
<1>4. CASE handled' = handled /\ dlx' = dlx
  BY <1>1, <1>4 DEF LeavesEvents
<1>5. CASE FailAndPublish(t) \/ Publish(t)
  BY <1>4, <1>5 DEF FailAndPublish, Publish
<1>6. CASE Wake(t) \/ FailAndRegister(t) \/ GiveUp(t) \/ Declare(t) \/ Bind(t)
  BY <1>4, <1>6 DEF Wake, FailAndRegister, GiveUp, Declare, Bind, Outcomes
<1>7. CASE Consume(t) \/ Withdraw(t) \/ Acknowledge(t) \/ Unregister(t)
  BY <1>4, <1>7 DEF Consume, Withdraw, Acknowledge, Unregister, Outcomes
<1> QED
  BY <1>2, <1>3, <1>5, <1>6, <1>7 DEF Step

LEMMA ValidEventForm ==
    ASSUME Inv, Invalid = {}, NEW t \in Tasks, Step(t), FirstChannel'
    PROVE  Settles(t) \/ KeepsWorking(t)
<1>0. FirstChannel /\ Open(t) /\ channel' = channel
  BY StepIsFirst
<1> USE DEF Inv
<1>1. CASE HandlerSucceeds(t)
  BY <1>1 DEF HandlerSucceeds, Settles, Working
<1>2. CASE SendToDlx(t)
  BY <1>0, <1>2 DEF SendToDlx, Settles, Working
<1>3. CASE FailAndPublish(t)
  BY <1>0, <1>3, CopyHasConsumer DEF FailAndPublish, KeepsWorking
<1>4. CASE Publish(t)
  BY <1>0, <1>4, CopyHasConsumer DEF Publish, KeepsWorking, CopiesAllowed, Registering
<1>5. CASE Wake(t)
  BY <1>5 DEF Wake, KeepsWorking, GoesOn, Goto, Edges, Working, Outcomes
<1>6. CASE FailAndRegister(t) \/ GiveUp(t)
  BY <1>6 DEF FailAndRegister, GiveUp, KeepsWorking, GoesOn, Goto, Edges,
              Working, Outcomes
<1>7. CASE Declare(t)
  BY <1>0, <1>7 DEF Declare, KeepsWorking, GoesOn, Goto, Edges, Working, Outcomes
<1>8. CASE Bind(t)
  BY <1>0, <1>8 DEF Bind, CloseChannel, FirstChannel, KeepsWorking, GoesOn, Goto,
                    Edges, Working, Outcomes
<1>9. CASE Consume(t)
  BY <1>0, <1>9 DEF Consume, CloseChannel, FirstChannel, KeepsWorking, GoesOn,
                    Goto, Edges, Working, Outcomes
<1>10. CASE Acknowledge(t) \/ Unregister(t)
  BY <1>0, <1>10 DEF Acknowledge, Unregister, KeepsWorking, GoesOn, Goto, Edges,
                     Working, Outcomes
<1>11. ~Withdraw(t)
  BY DEF Withdraw
<1> QED
  BY <1>1, <1>2, <1>3, <1>4, <1>5, <1>6, <1>7, <1>8, <1>9, <1>10, <1>11 DEF Step

\* Steps that are no call's leave the events alone on the first channel.
LEMMA OtherForm ==
    ASSUME TypeOK, ChannelLost \/ Reconnect \/ Rest \/ UNCHANGED vars, FirstChannel'
    PROVE  /\ FirstChannel
           /\ UNCHANGED <<pc, ready, handled, dlx, channel>>
<1>1. ~ChannelLost
  BY DEF ChannelLost, CloseChannel, FirstChannel
<1>2. ~Reconnect
  BY HeaderFacts DEF Reconnect, FirstChannel, TypeOK
<1> QED
  BY <1>1, <1>2 DEF Rest, vars, FirstChannel

LEMMA SettledOnceKept ==
    ASSUME Inv, [Next]_vars
    PROVE  SettledOnce'
<1> USE DEF Inv
<1> SUFFICES ASSUME FirstChannel'
             PROVE  /\ handled' \cap dlx' = {}
                    /\ ready' \cap (handled' \cup dlx') = {}
                    /\ \A u \in Tasks :
                          ChannelOf(u) = channel' /\ EventOf(u) \in handled' \cup dlx'
                              => pc'[u] \notin Working
  BY DEF SettledOnce, OnChannel
<1>1. ASSUME NEW e \in Events, Deliver(e)
      PROVE  /\ handled' \cap dlx' = {}
             /\ ready' \cap (handled' \cup dlx') = {}
             /\ \A u \in Tasks :
                   ChannelOf(u) = channel' /\ EventOf(u) \in handled' \cup dlx'
                       => pc'[u] \notin Working
  <2>1. /\ FirstChannel /\ e \in ready /\ ready' = ready \ {e}
        /\ UNCHANGED <<handled, dlx, channel>>
    BY <1>1 DEF Deliver, FirstChannel, Outcomes
  <2>2. \A u \in Tasks : u # Original(e) => pc'[u] = pc[u]
    BY <1>1, DeliveredCalls DEF Deliver, Delivered
  <2>3. EventOf(Original(e)) = e
    BY OriginalFacts
  <2> QED
    BY <2>1, <2>2, <2>3 DEF SettledOnce, OnChannel
<1>2. ASSUME NEW t \in Tasks, Step(t)
      PROVE  /\ handled' \cap dlx' = {}
             /\ ready' \cap (handled' \cup dlx') = {}
             /\ \A u \in Tasks :
                   ChannelOf(u) = channel' /\ EventOf(u) \in handled' \cup dlx'
                       => pc'[u] \notin Working
  <2>1. FirstChannel /\ Open(t) /\ ready' = ready /\ channel' = channel
    BY <1>2, StepIsFirst
  <2>2. "none" \notin Working /\ "finish" \notin Working
    BY DEF Working
  <2>3. CASE Settles(t)
    <3>1. EventOf(t) \notin handled \cup dlx \cup ready
      BY <2>1, <2>2, <2>3 DEF Settles, SettledOnce, ReadyUnseen, OnChannel, Open
    <3>2. \A u \in Tasks : pc'[u] = IF u = t THEN "finish" ELSE pc[u]
      BY <2>3 DEF Settles, Goto, TypeOK
    <3>3. ASSUME NEW u \in Tasks, ChannelOf(u) = channel,
                 EventOf(u) = EventOf(t), u # t
          PROVE  pc[u] \notin Working
      BY <2>1, <2>3, <3>3, OnlyAttempt DEF Settles, SameEvent, Open
    <3>4. \/ handled' = handled \cup {EventOf(t)} /\ dlx' = dlx
          \/ dlx' = dlx \cup {EventOf(t)} /\ handled' = handled
      BY <2>3 DEF Settles
    <3> QED
      BY <2>1, <2>2, <3>1, <3>2, <3>3, <3>4 DEF SettledOnce, OnChannel
  <2>4. CASE LeavesEvents(t)
    <3>1. ASSUME NEW u \in Tasks, ChannelOf(u) = channel, pc'[u] \in Working
          PROVE  \E w \in Tasks : /\ ChannelOf(w) = channel /\ pc[w] \in Working
                                  /\ EventOf(w) = EventOf(u)
      <4>1. CASE MakesCopy(t)
        <5>1. pc[t] \in Working /\ SameEvent(t, Copy(t))
          BY <4>1, MakesCopyCalls DEF MakesCopy, Working
        <5> QED
          BY <2>1, <2>2, <3>1, <4>1, <5>1, MakesCopyCalls DEF SameEvent, Open
      <4>2. ASSUME NEW label \in PCs, GoesOn(t, label)
            PROVE  pc[u] \in Working
        <5>1. label \in Working => pc[t] \in Working
          BY <4>2 DEF GoesOn, Edges, Working
        <5> QED
          BY <3>1, <4>2, <5>1, GoesOnCalls
      <4> QED
        BY <2>4, <3>1, <4>1, <4>2 DEF LeavesEvents
    <3> QED
      BY <2>1, <2>4, <3>1 DEF LeavesEvents, SettledOnce, OnChannel
  <2> QED
    BY <1>2, <2>3, <2>4, EventForm
<1>3. CASE ChannelLost \/ Reconnect \/ Rest \/ UNCHANGED vars
  BY <1>3, OtherForm DEF SettledOnce, OnChannel
<1> QED
  BY <1>1, <1>2, <1>3 DEF Next

LEMMA NothingLostKept ==
    ASSUME Inv, Invalid = {}, [Next]_vars
    PROVE  NothingLost'
<1> USE DEF Inv
<1> SUFFICES ASSUME FirstChannel', NEW x \in Events \ (Malformed \cup Invalid),
                    x \notin ready' \cup handled' \cup dlx'
             PROVE  \E u \in Tasks : /\ ChannelOf(u) = channel' /\ EventOf(u) = x
                                     /\ pc'[u] \in Working
  BY DEF NothingLost, Attempts, OnChannel
<1>1. ASSUME NEW e \in Events, Deliver(e)
      PROVE  \E u \in Tasks : /\ ChannelOf(u) = channel' /\ EventOf(u) = x
                              /\ pc'[u] \in Working
  <2>1. /\ FirstChannel /\ e \in ready /\ ready' = ready \ {e}
        /\ UNCHANGED <<handled, dlx, channel>>
    BY <1>1 DEF Deliver, FirstChannel, Outcomes
  <2>2. CASE x = e
    <3>1. pc'[Original(e)] = "handling"
      BY <1>1, <2>2, OriginalFacts DEF Deliver, Goto, TypeOK
    <3> QED
      BY <2>1, <2>2, <3>1, OriginalFacts DEF Working
  <2>3. CASE x # e
    <3>1. PICK u \in Tasks : ChannelOf(u) = channel /\ EventOf(u) = x /\ pc[u] \in Working
      BY <2>1, <2>3 DEF NothingLost, Attempts, OnChannel
    <3>2. u # Original(e)
      BY <2>3, <3>1, OriginalFacts
    <3> QED
      BY <1>1, <2>1, <3>1, <3>2, DeliveredCalls DEF Deliver, Delivered
  <2> QED
    BY <2>2, <2>3
<1>2. ASSUME NEW t \in Tasks, Step(t)
      PROVE  \E u \in Tasks : /\ ChannelOf(u) = channel' /\ EventOf(u) = x
                              /\ pc'[u] \in Working
  <2>1. FirstChannel /\ Open(t) /\ ready' = ready /\ channel' = channel
    BY <1>2, StepIsFirst
  <2>2. handled \subseteq handled' /\ dlx \subseteq dlx'
    BY <1>2, ValidEventForm DEF Settles, KeepsWorking
  <2>3. PICK u \in Tasks : ChannelOf(u) = channel /\ EventOf(u) = x /\ pc[u] \in Working
    BY <2>1, <2>2 DEF NothingLost, Attempts, OnChannel
  <2>4. CASE Settles(t)
    <3>1. u # t
      BY <2>3, <2>4 DEF Settles
    <3> QED
      BY <2>1, <2>3, <2>4, <3>1 DEF Settles, Goto, TypeOK
  <2>5. CASE MakesCopy(t)
    <3>1. u # Copy(t)
      BY <2>3, <2>5, MakesCopyCalls DEF Working
    <3>2. CASE u = t
      <4>1. /\ Copy(t) \in Tasks /\ ChannelOf(Copy(t)) = channel
            /\ EventOf(Copy(t)) = x /\ pc'[Copy(t)] = "sleeping"
        BY <2>3, <2>5, <3>2, MakesCopyCalls DEF SameEvent
      <4> QED
        BY <2>1, <4>1 DEF Working
    <3>3. CASE u # t
      BY <2>1, <2>3, <2>5, <3>1, <3>3, MakesCopyCalls
    <3> QED
      BY <3>2, <3>3
  <2>6. ASSUME NEW label \in PCs, GoesOn(t, label),
               pc[t] \in Working => label \in Working
        PROVE  pc'[u] \in Working
    BY <2>3, <2>6, GoesOnCalls
  <2> QED
    BY <1>2, <2>1, <2>3, <2>4, <2>5, <2>6, ValidEventForm DEF KeepsWorking
<1>3. CASE ChannelLost \/ Reconnect \/ Rest \/ UNCHANGED vars
  BY <1>3, OtherForm DEF NothingLost, Attempts, OnChannel
<1> QED
  BY <1>1, <1>2, <1>3 DEF Next

(***************************************************************************)
(* The handler's runs.                                                      *)
(***************************************************************************)
Run(t) == <<EventOf(t), ChannelOf(t)>>

Budget == IF MaxRetries = -1 THEN 1
          ELSE IF MaxRetries = 0 THEN 2 ELSE MaxRetries + 1

LEMMA RunFacts ==
    ASSUME TypeOK
    PROVE  /\ \A t \in Tasks : Run(t) \in Events \X Channels
           /\ \A r \in Events \X Channels : runs[r] \in Nat
           /\ \A t, u \in Tasks : Run(t) = Run(u) <=> SameEvent(t, u)
           /\ \A t \in Tasks : RunsBefore(HeaderOf(t)) \in Nat
BY TaskFacts, HeaderFacts DEF TypeOK, Run, SameEvent, RunsBefore

\* A step runs the handler for one call, or for none.
LEMMA RunForm ==
    ASSUME TypeOK, NEW t \in Tasks, Step(t)
    PROVE  \/ pc[t] = "sleeping" /\ Goto(t, "handling") /\ CountRun(t)
           \/ runs' = runs /\ pc[t] # "sleeping"
BY DEF Step, Wake, HandlerSucceeds, FailAndPublish, FailAndRegister, GiveUp,
       Declare, Bind, Consume, Publish, Withdraw, SendToDlx, Acknowledge,
       Unregister

LEMMA CountRunRuns ==
    ASSUME TypeOK, NEW t \in Tasks, CountRun(t)
    PROVE  \A r \in Events \X Channels :
               runs'[r] = IF r = Run(t) THEN runs[r] + 1 ELSE runs[r]
BY RunFacts DEF TypeOK, CountRun, Run

\* The runs a call may have behind it.
RunsOf(t) ==
    /\ pc[t] = "sleeping" => runs[Run(t)] <= RunsBefore(HeaderOf(t))
    /\ pc[t] \in Working \ {"sleeping"} =>
           runs[Run(t)] <= RunsBefore(HeaderOf(t)) + 1

NoRun(r) ==
    (\A t \in Tasks : Run(t) = r => pc[t] = "none") => runs[r] = 0

RunsCountedBy ==
    /\ \A t \in Tasks : RunsOf(t)
    /\ \A r \in Events \X Channels : NoRun(r)

LEMMA RunsCountedParts == RunsCounted <=> RunsCountedBy
<1>1. \A e \in Events, c \in Channels : \A t \in Tasks :
          Run(t) = <<e, c>> <=> EventOf(t) = e /\ ChannelOf(t) = c
  BY DEF Run
<1>2. (\A e \in Events, c \in Channels :
          (\A t \in Tasks : EventOf(t) = e /\ ChannelOf(t) = c => pc[t] = "none")
              => runs[<<e, c>>] = 0)
      <=> \A e \in Events, c \in Channels : NoRun(<<e, c>>)
  BY <1>1 DEF NoRun
<1>3. (\A e \in Events, c \in Channels : NoRun(<<e, c>>))
      <=> \A r \in Events \X Channels : NoRun(r)
  OBVIOUS
<1> QED
  BY <1>2, <1>3 DEF RunsCounted, RunsCountedBy, RunsOf, Run

LEMMA RunsKept ==
    ASSUME Inv, [Next]_vars
    PROVE  RunsCounted' /\ RetryBudget'
<1> USE DEF Inv
<1> DEFINE Goal == /\ \A u \in Tasks : RunsOf(u)'
                   /\ \A r \in Events \X Channels : NoRun(r)'
                   /\ RetryBudget'
<1>0. RunsCounted => /\ \A t \in Tasks : RunsOf(t)
                     /\ \A r \in Events \X Channels : NoRun(r)
  BY RunsCountedParts DEF RunsCountedBy
<1>a. Budget \in Nat /\ Budget >= 1
  BY ConstantsAssumption DEF Budget
<1>b. RetryBudget => \A r \in Events \X Channels : runs[r] <= Budget
  BY DEF RetryBudget, Budget
<1>c. (\A r \in Events \X Channels : runs'[r] <= Budget) => RetryBudget'
  BY DEF RetryBudget, Budget
<1>1. ASSUME NEW e \in Events, Deliver(e)
      PROVE  Goal
  <2> DEFINE o == Original(e)
  <2>1. o \in Tasks /\ HeaderOf(o) = 0
    BY OriginalFacts
  <2>2. \A u \in Tasks : Run(u) = Run(o) => pc[u] = "none"
    BY <1>1, <2>1, OriginalFacts, RunFacts DEF Deliver, ReadyUnseen, SameEvent
  <2>3. runs[Run(o)] = 0
    BY <1>0, <2>1, <2>2, RunFacts DEF NoRun
  <2>4. \A u \in Tasks : u # o => pc'[u] = pc[u]
    BY <1>1, DeliveredCalls DEF Deliver, Delivered
  <2>5. pc'[o] \in {"handling", "rejected"}
    BY <1>1, DeliveredCalls DEF Deliver, Delivered
  <2>6. \/ CountRun(o)
        \/ runs' = runs
    BY <1>1 DEF Deliver
  <2>7. \A r \in Events \X Channels :
            /\ r # Run(o) => runs'[r] = runs[r]
            /\ r = Run(o) => runs'[r] \in {0, 1}
    BY <2>1, <2>3, <2>6, CountRunRuns
  <2>8. ASSUME NEW u \in Tasks
        PROVE  RunsOf(u)'
    <3>1. CASE u = o
      BY <2>1, <2>5, <2>7, <3>1, RunFacts DEF RunsOf, RunsBefore, Run
    <3>2. CASE u # o /\ Run(u) = Run(o)
      BY <2>2, <2>4, <3>2 DEF RunsOf, Working
    <3>3. CASE u # o /\ Run(u) # Run(o)
      BY <1>0, <2>4, <2>7, <3>3, RunFacts DEF RunsOf, Run
    <3> QED
      BY <3>1, <3>2, <3>3
  <2>9. ASSUME NEW r \in Events \X Channels
        PROVE  NoRun(r)'
    <3>1. CASE r = Run(o)
      BY <2>1, <2>5, <3>1 DEF NoRun, Run
    <3>2. CASE r # Run(o)
      BY <1>0, <2>4, <2>7, <3>2 DEF NoRun, Run
    <3> QED
      BY <3>1, <3>2
  <2>10. RetryBudget'
    <3>1. \A r \in Events \X Channels : runs'[r] <= Budget
      BY <1>a, <1>b, <2>7, RunFacts
    <3> QED
      BY <1>c, <3>1
  <2> QED
    BY <2>8, <2>9, <2>10
<1>2. ASSUME NEW t \in Tasks, Step(t), pc[t] = "sleeping", Goto(t, "handling"),
             CountRun(t)
      PROVE  Goal
  <2>1. \A u \in Tasks : pc'[u] = IF u = t THEN "handling" ELSE pc[u]
    BY <1>2 DEF TypeOK, Goto
  <2>2. \A r \in Events \X Channels :
            runs'[r] = IF r = Run(t) THEN runs[r] + 1 ELSE runs[r]
    BY <1>2, CountRunRuns
  <2>3. /\ runs[Run(t)] \in Nat /\ RunsBefore(HeaderOf(t)) \in Nat
        /\ runs[Run(t)] <= RunsBefore(HeaderOf(t))
        /\ Run(t) \in Events \X Channels
    BY <1>0, <1>2, RunFacts DEF RunsOf
  <2>4. ASSUME NEW u \in Tasks
        PROVE  RunsOf(u)'
    <3>1. CASE u = t
      BY <2>1, <2>2, <2>3, <3>1 DEF RunsOf, Run
    <3>2. CASE u # t /\ Run(u) = Run(t)
      <4>1. pc[u] \notin Working
        BY <1>2, <3>2, OnlyAttempt, RunFacts DEF Working
      <4> QED
        BY <2>1, <3>2, <4>1 DEF RunsOf, Working
    <3>3. CASE u # t /\ Run(u) # Run(t)
      BY <1>0, <2>1, <2>2, <3>3, RunFacts DEF RunsOf, Run
    <3> QED
      BY <3>1, <3>2, <3>3
  <2>5. ASSUME NEW r \in Events \X Channels
        PROVE  NoRun(r)'
    BY <1>0, <1>2, <2>1, <2>2 DEF NoRun, Run
  <2>6. RunsBefore(HeaderOf(t)) + 1 <= Budget
    <3>1. HeaderOf(t) \in Headers /\ HeaderOf(t) \in Nat /\ HeaderOf(t) <= LastHeader
      BY TaskFacts, HeaderFacts
    <3>2. HeaderOf(t) # 0 => MaxRetries >= 0
      BY <1>2 DEF CopiesAllowed
    <3>3. CASE HeaderOf(t) = 0
      BY <1>a, <3>3 DEF RunsBefore
    <3>4. CASE HeaderOf(t) # 0
      <4>1. RunsBefore(HeaderOf(t)) + 1 = HeaderOf(t)
        BY <3>1, <3>4 DEF RunsBefore
      <4>2. LastHeader = Budget
        BY <3>2, <3>4, HeaderFacts DEF Budget
      <4> QED
        BY <3>1, <4>1, <4>2
    <3> QED
      BY <3>3, <3>4
  <2>7. \A r \in Events \X Channels : runs'[r] <= Budget
    BY <1>a, <1>b, <2>2, <2>3, <2>6, RunFacts
  <2> QED
    BY <1>c, <2>4, <2>5, <2>7
<1>3. ASSUME NEW t \in Tasks, Step(t), runs' = runs, pc[t] # "sleeping"
      PROVE  Goal
  <2>1. ASSUME MakesCopy(t)
        PROVE  \A u \in Tasks : RunsOf(u)'
    <3> SUFFICES ASSUME NEW u \in Tasks
                 PROVE  RunsOf(u)'
      OBVIOUS
    <3>1. CASE u = t
      BY <2>1, <3>1, MakesCopyCalls DEF RunsOf, Working
    <3>2. CASE u = Copy(t)
      <4>1. runs[Run(t)] <= RunsBefore(HeaderOf(t)) + 1
        BY <1>0, <2>1 DEF MakesCopy, RunsOf, Working
      <4>2. Run(Copy(t)) = Run(t)
        BY <2>1, MakesCopyCalls, RunFacts
      <4>3. RunsBefore(HeaderOf(Copy(t))) = RunsBefore(HeaderOf(t)) + 1
        BY <2>1, CopyFacts, RunFacts DEF MakesCopy, RunsBefore
      <4> QED
        BY <1>3, <2>1, <3>2, <4>1, <4>2, <4>3, MakesCopyCalls DEF RunsOf, Run
    <3>3. CASE u # t /\ u # Copy(t)
      BY <1>0, <1>3, <2>1, <3>3, MakesCopyCalls DEF RunsOf, Run
    <3> QED
      BY <3>1, <3>2, <3>3
  <2>2. ASSUME NEW label \in PCs, GoesOn(t, label)
        PROVE  \A u \in Tasks : RunsOf(u)'
    <3>1. label \in Working => pc[t] \in Working \ {"sleeping"}
      BY <1>3, <2>2 DEF GoesOn, Edges, Working
    <3> QED
      BY <1>0, <1>3, <2>2, <3>1, GoesOnCalls DEF RunsOf, Run
  <2>3. \A u \in Tasks : pc'[u] = "none" => pc[u] = "none"
    BY <1>3, StepForm, GoesOnCalls, MakesCopyCalls DEF Advanced
  <2>4. \A r \in Events \X Channels : NoRun(r)'
    BY <1>0, <1>3, <2>3 DEF NoRun, Run
  <2>5. RetryBudget'
    BY <1>3, <1>b, <1>c
  <2> QED
    BY <1>3, <2>1, <2>2, <2>4, <2>5, StepForm DEF Advanced
<1>4. ASSUME ChannelLost \/ Reconnect \/ Rest \/ UNCHANGED vars
      PROVE  Goal
  <2>1. UNCHANGED <<pc, runs>>
    BY <1>4 DEF ChannelLost, Reconnect, Rest, vars
  <2> QED
    <3>1. \A u \in Tasks : RunsOf(u)'
      BY <1>0, <2>1 DEF RunsOf, Run
    <3>2. \A r \in Events \X Channels : NoRun(r)'
      BY <1>0, <2>1 DEF NoRun, Run
    <3>3. RetryBudget'
      BY <1>b, <1>c, <2>1
    <3> QED
      BY <3>1, <3>2, <3>3
<1>5. Goal
  <2> HIDE DEF Goal
  <2>1. ASSUME NEW t \in Tasks, Step(t)
        PROVE  Goal
    BY <1>2, <1>3, <2>1, RunForm
  <2> QED
    BY <1>1, <1>4, <2>1 DEF Next
<1>6. RunsCountedBy' => RunsCounted'
  BY RunsCountedParts, PTL
<1> QED
  BY <1>5, <1>6 DEF RunsCountedBy

(***************************************************************************)
(* The theorems.                                                            *)
(***************************************************************************)
LEMMA InitInv == Init => Inv
<1> SUFFICES ASSUME Init
             PROVE  Inv
  OBVIOUS
<1>1. TypeOK
  BY HeaderFacts DEF Init, TypeOK
<1>2. CopiesAllowed /\ FutureUntouched /\ ReadyUnseen /\ OneByOne
  BY DEF Init, CopiesAllowed, Registering, FutureUntouched, ReadyUnseen, OneByOne
<1>3. ConsumersRegistered /\ ViaRegistered /\ RegistrarConsumes
  BY DEF Init, ConsumersRegistered, ViaRegistered, RegistrarConsumes
<1>4. ListedHasConsumer
  BY FS_EmptySet DEF Init, ListedHasConsumer
<1>5. NothingLost /\ SettledOnce
  BY DEF Init, NothingLost, SettledOnce
<1>6. RunsCounted
  BY TaskFacts DEF Init, RunsCounted, Working
<1>7. RetryBudget
  BY ConstantsAssumption DEF Init, RetryBudget
<1> QED
  BY <1>1, <1>2, <1>3, <1>4, <1>5, <1>6, <1>7 DEF Inv

\* Inv is inductive.
THEOREM InvariantHolds == Spec => []Inv
<1>1. Inv /\ [Next]_vars => Inv'
  <2> SUFFICES ASSUME Inv, [Next]_vars
               PROVE  Inv'
    OBVIOUS
  <2>1. TypeOK' /\ CopiesAllowed' /\ FutureUntouched' /\ ReadyUnseen' /\ OneByOne'
    BY TypesKept, CopiesAllowedKept, FutureUntouchedKept, ReadyUnseenKept,
       OneByOneKept DEF Inv
  <2>2. ConsumersRegistered' /\ ViaRegistered' /\ RegistrarConsumes'
    BY ConsumersRegisteredKept, ViaRegisteredKept, RegistrarConsumesKept DEF Inv
  <2>3. /\ Invalid = {} => ListedHasConsumer'
        /\ Invalid = {} => NothingLost'
        /\ SettledOnce'
    BY ListedHasConsumerKept, NothingLostKept, SettledOnceKept
  <2>4. RunsCounted' /\ RetryBudget'
    BY RunsKept
  <2> QED
    BY <2>1, <2>2, <2>3, <2>4 DEF Inv
<1> QED
  BY InitInv, <1>1, PTL DEF Spec

\* Every variable keeps its type; in particular a copy's header is one the
\* options allow, so the delayed queues are finitely many.
THEOREM TypeCorrect == Spec => []TypeOK
<1>1. Inv => TypeOK
  BY DEF Inv
<1> QED
  BY <1>1, InvariantHolds, PTL

\* However the retry queues and their consumers come and go, the adapter never
\* loses an event of a channel that stays open.
THEOREM NothingLostHolds == Invalid = {} => (Spec => []NothingLost)
<1> SUFFICES ASSUME Invalid = {}
             PROVE  Spec => []NothingLost
  OBVIOUS
<1>1. Inv => NothingLost
  BY DEF Inv
<1> QED
  BY <1>1, InvariantHolds, PTL

\* delayConsumers never counts more consumers than a retry queue has.
THEOREM ListedHasConsumerHolds == Invalid = {} => (Spec => []ListedHasConsumer)
<1> SUFFICES ASSUME Invalid = {}
             PROVE  Spec => []ListedHasConsumer
  OBVIOUS
<1>1. Inv => ListedHasConsumer
  BY DEF Inv
<1> QED
  BY <1>1, InvariantHolds, PTL

\* On every channel the handler runs as often as maxRetries allows, not more.
THEOREM RetryBudgetHolds == Spec => []RetryBudget
<1>1. Inv => RetryBudget
  BY DEF Inv
<1> QED
  BY <1>1, InvariantHolds, PTL

\* An event has one outcome and is worked on once at a time.
THEOREM OneOutcomeHolds == Spec => []OneOutcome
<1>1. Inv => OneOutcome
  <2> SUFFICES ASSUME Inv, FirstChannel
               PROVE  /\ handled \cap dlx = {}
                      /\ \A e \in Events : Cardinality(Attempts(e)) <= 1
                      /\ \A e \in handled \cup dlx : Attempts(e) = {}
    BY DEF OneOutcome
  <2>1. handled \cap dlx = {}
    BY DEF Inv, SettledOnce
  <2>2. ASSUME NEW e \in handled \cup dlx
        PROVE  Attempts(e) = {}
    BY <2>2 DEF Inv, SettledOnce, Attempts
  <2>3. ASSUME NEW e \in Events
        PROVE  Cardinality(Attempts(e)) <= 1
    <3>1. CASE Attempts(e) = {}
      BY <3>1, FS_EmptySet
    <3>2. ASSUME NEW t \in Attempts(e)
          PROVE  Cardinality(Attempts(e)) <= 1
      <4>1. Attempts(e) = {t}
        BY <3>2, OnlyAttempt DEF Inv, Attempts, OnChannel, SameEvent
      <4> QED
        BY <4>1, FS_Singleton
    <3> QED
      BY <3>1, <3>2
  <2> QED
    BY <2>1, <2>2, <2>3
<1> QED
  BY <1>1, InvariantHolds, PTL

(***************************************************************************)
(* The dead letters: none is lost, for any calls of consumeDlx() and        *)
(* connections that break.  This does not depend on what the consumer is    *)
(* doing: of its steps only those that write a letter count.                *)
(***************************************************************************)
DlxTypeOK ==
    /\ letters \in Seq(Events)
    /\ place \in Seq(Calls \cup {"queued", "gone"})
    /\ Len(letters) = Len(place)
    /\ DOMAIN call = Calls
    /\ DOMAIN linked = Calls

LettersInv == DlxTypeOK /\ LettersKept

LEMMA InitLetters == DlxInit => LettersInv
<1> SUFFICES ASSUME DlxInit PROVE LettersInv
  OBVIOUS
<1>1. DlxTypeOK
  BY DEF DlxInit, DlxTypeOK
<1>2. dlx = {} /\ letters = <<>>
  BY DEF DlxInit, Init
<1> QED
  BY <1>1, <1>2 DEF LettersInv, LettersKept

\* A step that leaves the queue's contents and history alone, and every call that
\* may hold a letter.
LEMMA NothingMoves ==
  ASSUME LettersInv, UNCHANGED <<letters, place, retried, dlx>>, DlxTypeOK',
         \A c \in Calls : call[c] = "handling" /\ linked[c]
                             => call'[c] = "handling" /\ linked'[c]
  PROVE  LettersInv'
  BY DEF LettersInv, LettersKept, Queued

\* The letters of a call go where they are kept without it.
LEMMA HeldMove ==
  ASSUME LettersInv, NEW c \in Calls, NEW to \in {"queued", "gone"},
         place' = [n \in DOMAIN place |-> IF place[n] = c THEN to ELSE place[n]],
         retried \subseteq retried',
         to = "gone" => Held(c) \subseteq retried',
         UNCHANGED <<letters, dlx>>,
         DOMAIN call' = Calls, DOMAIN linked' = Calls,
         \A d \in Calls \ {c} : call'[d] = call[d] /\ linked'[d] = linked[d]
  PROVE  LettersInv'
<1> USE DEF LettersInv
<1>1. place' \in Seq(Calls \cup {"queued", "gone"}) /\ Len(place') = Len(place)
  BY DEF DlxTypeOK
<1>2. DlxTypeOK'
  BY <1>1 DEF DlxTypeOK
<1>3. ASSUME NEW n \in DOMAIN letters
      PROVE  \/ n \in retried' \cup Queued'
             \/ \E d \in Calls : place'[n] = d /\ call'[d] = "handling" /\ linked'[d]
  <2>1. n \in DOMAIN place /\ n \in DOMAIN place'
    BY <1>1 DEF DlxTypeOK
  <2>2. CASE place[n] = c
    <3>1. place'[n] = to
      BY <2>1, <2>2
    <3> QED
      BY <2>1, <2>2, <3>1 DEF Held, Queued
  <2>3. CASE place[n] # c
    <3>1. place'[n] = place[n]
      BY <2>1, <2>3
    <3> QED
      BY <2>1, <2>3, <3>1 DEF LettersKept, Queued
  <2> QED
    BY <2>2, <2>3
<1> QED
  BY <1>2, <1>3 DEF LettersKept

\* Of the steps of the consumer only writing a letter changes the dead-letter
\* queue.
LEMMA OtherSteps ==
  ASSUME Next, \A t \in Tasks : ~Written(t)
  PROVE  dlx' = dlx
<1>1. ASSUME NEW t \in Tasks, SendToDlx(t) PROVE dlx' = dlx
  BY <1>1 DEF SendToDlx, Written
<1>2. CASE \E e \in Events : Deliver(e)
  BY <1>2 DEF Deliver, Outcomes
<1>3. ASSUME NEW t \in Tasks, Step(t) PROVE dlx' = dlx
  BY <1>1, <1>3 DEF Step, Wake, HandlerSucceeds, FailAndPublish, FailAndRegister,
     GiveUp, Declare, Bind, Consume, Publish, Withdraw, Acknowledge, Unregister,
     Outcomes
<1>4. CASE ChannelLost \/ Reconnect \/ Rest
  BY <1>4 DEF ChannelLost, Reconnect, Rest, Outcomes, vars
<1> QED
  BY <1>2, <1>3, <1>4 DEF Next

LEMMA DeliveryLetters ==
  ASSUME LettersInv, DeliveryStep
  PROVE  LettersInv'
<1>1. ASSUME NEW t \in Tasks, Written(t),
             letters' = Append(letters, EventOf(t)),
             place' = Append(place, "queued"),
             UNCHANGED <<historyVars, callVars>>
      PROVE  LettersInv'
  <2>1. EventOf(t) \in Events /\ dlx' \subseteq dlx \cup {EventOf(t)}
    BY <1>1 DEF Tasks, EventOf, Written, SendToDlx
  <2>2. DlxTypeOK'
    BY <1>1, <2>1 DEF LettersInv, DlxTypeOK, callVars
  <2>3. /\ DOMAIN letters' = DOMAIN letters \cup {Len(letters) + 1}
        /\ DOMAIN place' = DOMAIN letters'
        /\ letters'[Len(letters) + 1] = EventOf(t)
        /\ place'[Len(letters) + 1] = "queued"
        /\ \A n \in DOMAIN letters : letters'[n] = letters[n] /\ place'[n] = place[n]
    BY <1>1, <2>1 DEF LettersInv, DlxTypeOK
  <2>4. \A e \in dlx' : \E n \in DOMAIN letters' : letters'[n] = e
    BY <2>1, <2>3 DEF LettersInv, LettersKept
  <2>5. \A n \in DOMAIN letters : n \in Queued => n \in Queued'
    BY <2>3 DEF Queued
  <2>6. Len(letters) + 1 \in Queued'
    BY <2>3 DEF Queued
  <2>7. UNCHANGED <<retried, call, linked>>
    BY <1>1 DEF historyVars, callVars
  <2>8. ASSUME NEW n \in DOMAIN letters'
        PROVE  \/ n \in retried' \cup Queued'
               \/ \E c \in Calls : place'[n] = c /\ call'[c] = "handling" /\ linked'[c]
    BY <2>3, <2>5, <2>6, <2>7 DEF LettersInv, LettersKept
  <2> QED
    BY <2>2, <2>4, <2>8 DEF LettersInv, LettersKept
<1>2. CASE Next /\ (\A t \in Tasks : ~Written(t)) /\ UNCHANGED dlxVars
  <2>1. dlx' = dlx
    BY <1>2, OtherSteps
  <2>2. UNCHANGED <<letters, place, retried, call, linked>>
    BY <1>2 DEF dlxVars, letterVars, historyVars, callVars
  <2> QED
    BY <2>1, <2>2, NothingMoves DEF LettersInv, DlxTypeOK
<1> QED
  BY <1>1, <1>2 DEF DeliveryStep

LEMMA CallLetters ==
  ASSUME LettersInv, NEW c \in Calls, Connect(c) \/ CallStep(c) \/ LinkLost(c)
  PROVE  LettersInv'
<1> USE DEF vars, letterVars, historyVars
<1>0. DlxTypeOK
  BY DEF LettersInv
<1>1. CASE Connect(c)
  BY <1>0, <1>1, NothingMoves DEF Connect, DlxTypeOK
<1>2. CASE CheckQueue(c)
  BY <1>0, <1>2, NothingMoves DEF CheckQueue, DlxTypeOK
<1>3. CASE GetsNothing(c)
  BY <1>0, <1>3, NothingMoves DEF GetsNothing, NextRound, DlxTypeOK
<1>4. CASE Gets(c)
  <2>1. PICK first : place' = [place EXCEPT ![first] = c]
    BY <1>4 DEF Gets
  <2>2. /\ call'[c] = "handling" /\ linked'[c]
        /\ \A d \in Calls \ {c} : call'[d] = call[d] /\ linked'[d] = linked[d]
    BY <1>0, <1>4 DEF Gets, DlxTypeOK
  <2>3. place' \in Seq(Calls \cup {"queued", "gone"}) /\ Len(place') = Len(place)
    <3>1. place' = [n \in DOMAIN place |-> IF n = first THEN c ELSE place[n]]
      BY <2>1
    <3> QED
      BY <1>0, <3>1 DEF DlxTypeOK
  <2>4. DlxTypeOK'
    BY <1>0, <1>4, <2>3 DEF Gets, DlxTypeOK
  <2>5. ASSUME NEW n \in DOMAIN letters
        PROVE  \/ n \in retried' \cup Queued'
               \/ \E d \in Calls : place'[n] = d /\ call'[d] = "handling" /\ linked'[d]
    <3>1. n \in DOMAIN place /\ n \in DOMAIN place'
      BY <1>0, <2>3 DEF DlxTypeOK
    <3>2. CASE place'[n] = c
      BY <2>2, <3>2
    <3>3. CASE place'[n] # c
      <4>1. place'[n] = place[n]
        BY <2>1, <3>1, <3>3
      <4>2. retried' = retried /\ call[c] = "getting"
        BY <1>4 DEF Gets
      <4> QED
        BY <2>2, <3>1, <4>1, <4>2 DEF LettersInv, LettersKept, Queued
    <3> QED
      BY <3>2, <3>3
  <2>6. UNCHANGED <<letters, dlx>>
    BY <1>4 DEF Gets
  <2> QED
    BY <2>4, <2>5, <2>6 DEF LettersInv, LettersKept
<1>5. CASE Retried(c)
  BY <1>0, <1>5, HeldMove DEF Retried, NextRound, DlxTypeOK
<1>6. CASE PutsBack(c)
  BY <1>0, <1>6, HeldMove DEF PutsBack, ComesBack, NextRound, DlxTypeOK
<1>7. CASE Rejects(c)
  BY <1>0, <1>7, NothingMoves DEF Rejects, DlxTypeOK
<1>8. CASE LinkLost(c)
  BY <1>0, <1>8, HeldMove DEF LinkLost, ComesBack, DlxTypeOK
<1> QED
  BY <1>1, <1>2, <1>3, <1>4, <1>5, <1>6, <1>7, <1>8 DEF CallStep

\* A dead letter is lost to nobody: it is queued, held by a call whose connection
\* is alive, or a handler succeeded with it.
THEOREM LettersKeptHolds == DlxSpec => []LettersKept
<1>1. LettersInv /\ [DlxNext]_allVars => LettersInv'
  <2> SUFFICES ASSUME LettersInv, [DlxNext]_allVars PROVE LettersInv'
    OBVIOUS
  <2>1. CASE DeliveryStep
    BY <2>1, DeliveryLetters
  <2>2. ASSUME NEW c \in Calls, Connect(c) \/ CallStep(c) \/ LinkLost(c)
        PROVE  LettersInv'
    BY <2>2, CallLetters
  <2>3. CASE UNCHANGED allVars
    BY <2>3 DEF allVars, vars, dlxVars, letterVars, historyVars, callVars, LettersInv,
       DlxTypeOK, LettersKept, Queued
  <2> QED
    BY <2>1, <2>2, <2>3 DEF DlxNext
<1>2. LettersInv => LettersKept
  BY DEF LettersInv
<1> QED
  BY <1>1, <1>2, InitLetters, PTL DEF DlxSpec

\* A set of numbers has a least one.
LEMMA Least ==
  ASSUME NEW T, T \subseteq Nat, T # {}
  PROVE  \E m \in T : \A n \in T : m <= n
<1> DEFINE R == OpToRel(<, Nat)
<1>1. IsWellFoundedOn(R, Nat)
  BY NatLessThanWellFounded
<1>2. \A x, y \in Nat : x < y => <<x, y>> \in R
  BY DEF OpToRel
<1> HIDE DEF R
<1>3. PICK m \in T : \A n \in T : ~ (<<n, m>> \in R)
  BY <1>1, WFMin
<1>4. ASSUME NEW n \in T PROVE m <= n
  <2>1. m \in Nat /\ n \in Nat
    OBVIOUS
  <2>2. ~(n < m)
    BY <1>2, <1>3, <2>1
  <2> QED
    BY <2>1, <2>2
<1> QED
  BY <1>4

(***************************************************************************)
(* A call that resolves has tried what it found.                            *)
(***************************************************************************)
\* The letters that came back and wait again; what a call has yet to try of what
\* it found; and the rounds it has for that.
Back == Queued \cap taken
Untried(c) == found[c] \ taken
Rounds(c) == IF call[c] = "handling" THEN gets[c] - 1 ELSE gets[c]

\* Only a letter that was taken ever leaves the queue.
QueueShape ==
    /\ place \in Seq(Calls \cup {"queued", "gone"})
    /\ taken \subseteq DOMAIN place
    /\ returned \in Nat
    /\ \A n \in DOMAIN place \ taken : place[n] = "queued"
    /\ Cardinality(Back) <= returned

\* What was written after a call looked is behind what it found.
CallShape(c) ==
    /\ found[c] \subseteq DOMAIN place
    /\ gets[c] \in Int
    /\ call[c] \in {"getting", "handling"} => gets[c] >= 1
    /\ call[c] = "resolved" => gets[c] = 0
    /\ \A m \in found[c] : \A n \in (DOMAIN place \ taken) \ found[c] : m < n

\* The rounds that are left do for what is untried and what came back.
RoundsSuffice(c) ==
    Requested[c] = -1 /\ call[c] \in {"getting", "handling", "resolved"} =>
        Cardinality(Untried(c)) + Cardinality(Back) <= Rounds(c) + returned

TriedInv ==
    /\ QueueShape
    /\ DOMAIN call = Calls /\ DOMAIN gets = Calls /\ DOMAIN found = Calls
    /\ \A c \in Calls : CallShape(c) /\ RoundsSuffice(c)

LEMMA FiniteLetters ==
  ASSUME TriedInv
  PROVE  /\ IsFiniteSet(Queued) /\ IsFiniteSet(Back) /\ Cardinality(Back) \in Nat
         /\ \A c \in Calls : /\ IsFiniteSet(Held(c)) /\ Cardinality(Held(c)) \in Nat
                             /\ IsFiniteSet(Untried(c)) /\ Cardinality(Untried(c)) \in Nat
<1>1. IsFiniteSet(DOMAIN place)
  <2>1. Len(place) \in Nat /\ DOMAIN place = 1..Len(place)
    BY DEF TriedInv, QueueShape
  <2> QED
    BY <2>1, FS_Interval
<1>2. Queued \subseteq DOMAIN place /\ Back \subseteq DOMAIN place
  BY DEF Queued, Back
<1>3. IsFiniteSet(Queued) /\ IsFiniteSet(Back) /\ Cardinality(Back) \in Nat
  BY <1>1, <1>2, FS_Subset, FS_CardinalityType
<1>4. ASSUME NEW c \in Calls
      PROVE  /\ IsFiniteSet(Held(c)) /\ Cardinality(Held(c)) \in Nat
             /\ IsFiniteSet(Untried(c)) /\ Cardinality(Untried(c)) \in Nat
  <2>1. Held(c) \subseteq DOMAIN place /\ Untried(c) \subseteq DOMAIN place
    BY DEF Held, Untried, TriedInv, CallShape
  <2> QED
    BY <1>1, <2>1, FS_Subset, FS_CardinalityType
<1> QED
  BY <1>3, <1>4

LEMMA TriedSuffices == TriedInv => ResolvedTriedAll
<1> SUFFICES ASSUME TriedInv, NEW c \in Calls, call[c] = "resolved", Requested[c] = -1
             PROVE  Cardinality(Untried(c)) <= returned
  BY DEF ResolvedTriedAll, Untried
<1>1. RoundsSuffice(c) /\ gets[c] = 0 /\ returned \in Nat
  BY DEF TriedInv, CallShape, QueueShape
<1> QED
  BY <1>1, FiniteLetters DEF RoundsSuffice, Rounds

LEMMA InitTried == DlxInit => TriedInv
<1> SUFFICES ASSUME DlxInit PROVE TriedInv
  OBVIOUS
<1> USE DEF DlxInit
<1>1. Back = {} /\ DOMAIN place = {}
  BY DEF Back, Queued
<1>2. QueueShape
  BY <1>1, FS_EmptySet DEF QueueShape
<1>3. \A c \in Calls : CallShape(c) /\ RoundsSuffice(c)
  BY DEF CallShape, RoundsSuffice
<1> QED
  BY <1>2, <1>3 DEF TriedInv

\* What a step of one call has to show: that it keeps its own rounds, and that no
\* more came back than was returned.
LEMMA OneCall ==
  ASSUME TriedInv, NEW c \in Calls, QueueShape', DOMAIN place' = DOMAIN place,
         taken \subseteq taken',
         DOMAIN call' = Calls, DOMAIN gets' = Calls, DOMAIN found' = Calls,
         \A d \in Calls \ {c} : call'[d] = call[d] /\ gets'[d] = gets[d] /\ found'[d] = found[d],
         \A d \in Calls \ {c} :
            Cardinality(Untried(d)') + Cardinality(Back') + returned
              <= Cardinality(Untried(d)) + Cardinality(Back) + returned',
         \A d \in Calls \ {c} : Cardinality(Untried(d)') \in Nat,
         Cardinality(Back') \in Nat,
         CallShape(c)', RoundsSuffice(c)'
  PROVE  TriedInv'
<1>1. ASSUME NEW d \in Calls \ {c} PROVE CallShape(d)'
  <2>1. CallShape(d)
    BY DEF TriedInv
  <2> QED
    BY <2>1 DEF CallShape
<1>2. ASSUME NEW d \in Calls \ {c} PROVE RoundsSuffice(d)'
  <2>1. CallShape(d) /\ RoundsSuffice(d)
    BY DEF TriedInv
  <2>2. Rounds(d)' = Rounds(d) /\ Rounds(d) \in Int
    BY <2>1 DEF Rounds, CallShape
  <2>3. returned \in Nat /\ returned' \in Nat
    BY DEF TriedInv, QueueShape
  <2>4. Cardinality(Untried(d)) \in Nat /\ Cardinality(Back) \in Nat
    BY FiniteLetters
  <2> QED
    BY <2>1, <2>2, <2>3, <2>4 DEF RoundsSuffice
<1> QED
  BY <1>1, <1>2 DEF TriedInv

\* A step that leaves the queue alone.
LEMMA QueueStands ==
  ASSUME TriedInv, NEW c \in Calls, UNCHANGED <<place, taken, returned>>,
         DOMAIN call' = Calls, DOMAIN gets' = Calls, DOMAIN found' = Calls,
         \A d \in Calls \ {c} : call'[d] = call[d] /\ gets'[d] = gets[d] /\ found'[d] = found[d],
         CallShape(c)', RoundsSuffice(c)'
  PROVE  TriedInv'
<1>1. Back' = Back /\ QueueShape'
  BY DEF Back, Queued, TriedInv, QueueShape
<1>2. \A d \in Calls \ {c} : Untried(d)' = Untried(d)
  BY DEF Untried
<1>3. returned \in Nat
  BY DEF TriedInv, QueueShape
<1> QED
  BY <1>1, <1>2, <1>3, FiniteLetters, OneCall

LEMMA ConnectTried ==
  ASSUME TriedInv, NEW c \in Calls, Connect(c) \/ Rejects(c)
  PROVE  TriedInv'
<1>1. /\ UNCHANGED <<place, taken, returned, gets, found>>
      /\ call' = [call EXCEPT ![c] = call'[c]] /\ call'[c] \in {"checking", "rejected"}
  BY DEF Connect, Rejects, letterVars, historyVars, TriedInv
<1>2. CallShape(c)' /\ RoundsSuffice(c)'
  BY <1>1 DEF TriedInv, CallShape, RoundsSuffice
<1> QED
  BY <1>1, <1>2, QueueStands DEF TriedInv

\* Without messagesToRetry a call gets as many rounds as there are letters.
LEMMA CheckQueueTried ==
  ASSUME TriedInv, NEW c \in Calls, CheckQueue(c)
  PROVE  TriedInv'
<1>1. /\ UNCHANGED <<place, taken, returned>>
      /\ DOMAIN call' = Calls /\ DOMAIN gets' = Calls /\ DOMAIN found' = Calls
      /\ \A d \in Calls \ {c} : call'[d] = call[d] /\ gets'[d] = gets[d] /\ found'[d] = found[d]
  BY DEF CheckQueue, letterVars, historyVars, TriedInv
<1>2. Cardinality(Queued) \in Nat
  BY FiniteLetters, FS_CardinalityType
<1>3. CASE call'[c] = "rejected"
  <2>1. gets' = gets /\ found' = found
    BY <1>3 DEF CheckQueue, TriedInv
  <2>2. CallShape(c)' /\ RoundsSuffice(c)'
    BY <1>1, <1>3, <2>1 DEF TriedInv, CallShape, RoundsSuffice
  <2> QED
    BY <1>1, <2>2, QueueStands
<1>4. CASE call'[c] # "rejected"
  <2>1. /\ call'[c] = "getting"
        /\ gets'[c] = MessagesToRetry(c) /\ gets'[c] > 0
        /\ found'[c] = Queued
    BY <1>4 DEF CheckQueue, TriedInv
  <2>2. gets'[c] \in Int
    BY <1>2, <2>1, RequestedAssumption DEF MessagesToRetry
  <2>3. CallShape(c)'
    <3>1. Queued \subseteq DOMAIN place /\ (DOMAIN place \ taken) \subseteq Queued
      BY DEF Queued, TriedInv, QueueShape
    <3> QED
      BY <1>1, <2>1, <2>2, <3>1 DEF CallShape
  <2>4. RoundsSuffice(c)'
    <3>1. Requested[c] = -1 => gets'[c] = Cardinality(Queued)
      BY <2>1 DEF MessagesToRetry
    <3>2. Untried(c)' = Queued \ taken /\ Back' = Back
      BY <1>1, <2>1 DEF Untried, Back, Queued
    <3>3. Cardinality(Queued \ taken) = Cardinality(Queued) - Cardinality(Back)
      BY FiniteLetters, FS_Difference DEF Back
    <3> HIDE DEF Queued, Back
    <3>4. returned \in Nat /\ returned' = returned
      BY <1>1 DEF TriedInv, QueueShape
    <3> QED
      BY <1>2, <2>1, <3>1, <3>2, <3>3, <3>4, FiniteLetters DEF RoundsSuffice, Rounds
  <2> QED
    BY <1>1, <2>3, <2>4, QueueStands
<1> QED
  BY <1>3, <1>4

\* A round ends without a message only if nothing is left to try.
LEMMA GetsNothingTried ==
  ASSUME TriedInv, NEW c \in Calls, GetsNothing(c)
  PROVE  TriedInv'
<1>1. /\ UNCHANGED <<place, taken, returned, found>>
      /\ DOMAIN call' = Calls /\ DOMAIN gets' = Calls
      /\ \A d \in Calls \ {c} : call'[d] = call[d] /\ gets'[d] = gets[d]
      /\ call[c] = "getting" /\ Queued = {}
      /\ gets'[c] = gets[c] - 1
      /\ call'[c] = IF gets[c] = 1 THEN "resolved" ELSE "getting"
  BY DEF GetsNothing, NextRound, letterVars, historyVars, TriedInv
<1>2. /\ CallShape(c) /\ gets[c] \in Int /\ gets[c] >= 1
      /\ returned \in Nat
      /\ DOMAIN found = Calls
  BY <1>1 DEF TriedInv, CallShape, QueueShape
<1>3. CallShape(c)'
  BY <1>1, <1>2 DEF CallShape
<1>4. Untried(c)' = {} /\ Back' = {}
  <2>1. Untried(c) \subseteq Queued
    BY DEF Untried, Queued, TriedInv, QueueShape, CallShape
  <2> QED
    BY <1>1, <2>1 DEF Untried, Back, Queued
<1>5. RoundsSuffice(c)'
  BY <1>1, <1>2, <1>4, FS_EmptySet DEF RoundsSuffice, Rounds
<1> QED
  BY <1>1, <1>2, <1>3, <1>5, QueueStands

\* A call that gets a letter which it had tried already takes one of those that
\* came back, and it gets one that was written later only if it has tried all.
LEMMA GetsTried ==
  ASSUME TriedInv, NEW c \in Calls, Gets(c)
  PROVE  TriedInv'
<1> DEFINE first == CHOOSE n \in Queued : \A m \in Queued : n <= m
<1>1. /\ call[c] = "getting" /\ Queued # {}
      /\ place' = [place EXCEPT ![first] = c]
      /\ taken' = taken \cup {first}
      /\ UNCHANGED <<returned, gets, found>>
      /\ call' = [call EXCEPT ![c] = "handling"]
  BY DEF Gets
<1>2. place \in Seq(Calls \cup {"queued", "gone"}) /\ DOMAIN place \subseteq Nat
  BY DEF TriedInv, QueueShape
<1>3. first \in Queued /\ \A m \in Queued : first <= m
  <2>1. Queued \subseteq Nat
    BY <1>2 DEF Queued
  <2>2. \E n \in Queued : \A m \in Queued : n <= m
    BY <1>1, <2>1, Least
  <2> QED
    BY <2>2
<1> HIDE DEF first
<1>4. first \in DOMAIN place /\ place[first] = "queued" /\ c # "queued"
  BY <1>3, CallsAssumption DEF Queued
<1>5. place' \in Seq(Calls \cup {"queued", "gone"}) /\ DOMAIN place' = DOMAIN place
  <2>1. place' = [n \in DOMAIN place |-> IF n = first THEN c ELSE place[n]]
    BY <1>1
  <2>2. Len(place) \in Nat /\ DOMAIN place = 1..Len(place)
    BY <1>2
  <2>3. \A n \in 1..Len(place) : place'[n] \in Calls \cup {"queued", "gone"}
    BY <1>2, <2>1, <2>2
  <2> QED
    BY <2>1, <2>2, <2>3
<1>6. Queued' = Queued \ {first}
  BY <1>1, <1>4, <1>5 DEF Queued
<1>7. /\ Back' = Back \ {first}
      /\ \A d \in Calls : Untried(d)' = Untried(d) \ {first}
  BY <1>1, <1>6 DEF Back, Untried
<1>8. /\ Cardinality(Back') = IF first \in taken THEN Cardinality(Back) - 1 ELSE Cardinality(Back)
      /\ Cardinality(Back') \in Nat
      /\ \A d \in Calls :
            /\ Cardinality(Untried(d)') \in Nat
            /\ Cardinality(Untried(d)') = IF first \in Untried(d) THEN Cardinality(Untried(d)) - 1
                                          ELSE Cardinality(Untried(d))
  <2>1. first \in Back <=> first \in taken
    BY <1>3 DEF Back
  <2>2. IsFiniteSet(Back) /\ IsFiniteSet(Back')
    BY <1>7, FiniteLetters, FS_RemoveElement
  <2>3. ASSUME NEW d \in Calls PROVE IsFiniteSet(Untried(d)) /\ IsFiniteSet(Untried(d)')
    <3>1. IsFiniteSet(Untried(d)) /\ Untried(d)' = Untried(d) \ {first}
      BY <1>7, FiniteLetters
    <3> QED
      BY <3>1, FS_RemoveElement
  <2>4. Cardinality(Back') \in Nat /\ \A d \in Calls : Cardinality(Untried(d)') \in Nat
    BY <2>2, <2>3, FS_CardinalityType
  <2>5. Cardinality(Back') = IF first \in Back THEN Cardinality(Back) - 1 ELSE Cardinality(Back)
    BY <1>7, <2>2, FS_RemoveElement
  <2>6. \A d \in Calls : Cardinality(Untried(d)') = IF first \in Untried(d)
                                                   THEN Cardinality(Untried(d)) - 1
                                                   ELSE Cardinality(Untried(d))
    BY <1>7, <2>3, FS_RemoveElement
  <2> QED
    BY <2>1, <2>4, <2>5, <2>6
<1>9. returned \in Nat /\ Cardinality(Back) \in Nat /\ Cardinality(Back) <= returned
  BY FiniteLetters DEF TriedInv, QueueShape
<1>10. QueueShape'
  <2>1. \A n \in DOMAIN place' \ taken' : place'[n] = "queued"
    BY <1>1, <1>5 DEF TriedInv, QueueShape
  <2>2. taken' \subseteq DOMAIN place'
    BY <1>1, <1>4, <1>5 DEF TriedInv, QueueShape
  <2>3. Cardinality(Back') <= returned'
    BY <1>1, <1>8, <1>9
  <2> QED
    BY <1>1, <1>5, <1>9, <2>1, <2>2, <2>3 DEF QueueShape
<1>11. \A d \in Calls \ {c} :
          Cardinality(Untried(d)') + Cardinality(Back') + returned
            <= Cardinality(Untried(d)) + Cardinality(Back) + returned'
  <2>1. \A d \in Calls : Cardinality(Untried(d)) \in Nat
    BY FiniteLetters
  <2> QED
    BY <1>1, <1>8, <1>9, <2>1
<1>12. CallShape(c) /\ RoundsSuffice(c) /\ gets[c] \in Int /\ gets[c] >= 1
  BY <1>1 DEF TriedInv, CallShape
<1>13. call'[c] = "handling" /\ DOMAIN call' = Calls
  BY <1>1 DEF TriedInv
<1>14. CallShape(c)'
  BY <1>1, <1>5, <1>12, <1>13 DEF CallShape
<1>15. RoundsSuffice(c)'
  <2> SUFFICES ASSUME Requested[c] = -1
               PROVE  Cardinality(Untried(c)') + Cardinality(Back') <= gets[c] - 1 + returned
    BY <1>1, <1>13 DEF RoundsSuffice, Rounds
  <2>1. Cardinality(Untried(c)) + Cardinality(Back) <= gets[c] + returned
    BY <1>1, <1>12 DEF RoundsSuffice, Rounds
  <2>2. Cardinality(Untried(c)) \in Nat
    BY FiniteLetters
  <2>3. CASE first \in taken
    <3>1. first \notin Untried(c)
      BY <2>3 DEF Untried
    <3> QED
      BY <1>8, <1>9, <1>12, <2>1, <2>2, <2>3, <3>1
  <2>4. CASE first \in Untried(c)
    <3>1. first \notin taken
      BY <2>4 DEF Untried
    <3> QED
      BY <1>8, <1>9, <1>12, <2>1, <2>2, <2>4, <3>1
  <2>5. CASE first \notin taken /\ first \notin Untried(c)
    <3>1. first \in (DOMAIN place \ taken) \ found[c]
      BY <1>4, <2>5 DEF Untried
    <3>2. ASSUME NEW m \in Untried(c) PROVE FALSE
      <4>1. m \in found[c] /\ m \in Queued
        BY <3>2, <1>12 DEF Untried, Queued, CallShape, TriedInv, QueueShape
      <4>2. m < first /\ first <= m
        BY <1>3, <1>12, <3>1, <4>1 DEF CallShape
      <4> QED
        BY <1>2, <1>4, <4>1, <4>2 DEF Queued
    <3>3. Untried(c)' = {}
      BY <1>7, <3>2
    <3>4. Cardinality(Untried(c)') = 0
      BY <3>3, FS_EmptySet
    <3> QED
      BY <1>8, <1>9, <1>12, <2>5, <3>4
  <2> QED
    BY <2>3, <2>4, <2>5
<1> QED
  BY <1>1, <1>5, <1>8, <1>10, <1>11, <1>13, <1>14, <1>15, OneCall DEF TriedInv

\* What a call holds comes back, and is counted as it does; or it is gone.
LEMMA HeldLeaves ==
  ASSUME TriedInv, NEW c \in Calls, NEW to \in {"queued", "gone"},
         place' = [n \in DOMAIN place |-> IF place[n] = c THEN to ELSE place[n]],
         returned' = IF to = "queued" THEN returned + Cardinality(Held(c)) ELSE returned,
         UNCHANGED <<taken, found>>
  PROVE  /\ QueueShape' /\ DOMAIN place' = DOMAIN place
         /\ Cardinality(Back') \in Nat
         /\ Cardinality(Back') + returned <= Cardinality(Back) + returned'
         /\ \A d \in Calls : Untried(d)' = Untried(d)
<1>1. place \in Seq(Calls \cup {"queued", "gone"}) /\ returned \in Nat
  BY DEF TriedInv, QueueShape
<1>2. c # "queued" /\ c # "gone"
  BY CallsAssumption
<1>3. place' \in Seq(Calls \cup {"queued", "gone"}) /\ DOMAIN place' = DOMAIN place
  <2>1. Len(place) \in Nat /\ DOMAIN place = 1..Len(place)
    BY <1>1
  <2>2. \A n \in 1..Len(place) : place'[n] \in Calls \cup {"queued", "gone"}
    BY <1>1, <2>1
  <2> QED
    BY <2>1, <2>2
<1>4. Held(c) \subseteq taken /\ Held(c) \cap Back = {}
  BY <1>2 DEF Held, Back, Queued, TriedInv, QueueShape
<1>5. Back' = IF to = "queued" THEN Back \cup Held(c) ELSE Back
  <2>1. Queued' = IF to = "queued" THEN Queued \cup Held(c) ELSE Queued
    BY <1>2, <1>3 DEF Queued, Held
  <2> QED
    BY <1>4, <2>1 DEF Back
<1>6. Cardinality(Back) \in Nat /\ Cardinality(Held(c)) \in Nat /\ Cardinality(Back) <= returned
  BY FiniteLetters DEF TriedInv, QueueShape
<1>7. Cardinality(Back') = IF to = "queued" THEN Cardinality(Back) + Cardinality(Held(c))
                           ELSE Cardinality(Back)
  <2>1. IsFiniteSet(Back) /\ IsFiniteSet(Held(c)) /\ Back \cap Held(c) = {}
    BY <1>4, FiniteLetters
  <2>2. Cardinality(Back \cup Held(c)) = Cardinality(Back) + Cardinality(Held(c)) - Cardinality({})
    BY <2>1, FS_Union
  <2> QED
    BY <1>5, <1>6, <2>2, FS_EmptySet
<1>8. \A n \in DOMAIN place' \ taken' : place'[n] = "queued"
  BY <1>2, <1>3 DEF TriedInv, QueueShape
<1>9. taken' \subseteq DOMAIN place'
  BY <1>3 DEF TriedInv, QueueShape
<1>10. Cardinality(Back') <= returned' /\ returned' \in Nat /\ Cardinality(Back') \in Nat
       /\ Cardinality(Back') + returned <= Cardinality(Back) + returned'
  BY <1>1, <1>6, <1>7
<1> QED
  BY <1>3, <1>8, <1>9, <1>10 DEF QueueShape, Untried

\* A round that ends with an answer for the letter.
LEMMA RoundTried ==
  ASSUME TriedInv, NEW c \in Calls, NEW to \in {"queued", "gone"},
         call[c] = "handling", NextRound(c),
         place' = [n \in DOMAIN place |-> IF place[n] = c THEN to ELSE place[n]],
         returned' = IF to = "queued" THEN returned + Cardinality(Held(c)) ELSE returned,
         UNCHANGED <<taken, found>>
  PROVE  TriedInv'
<1>1. /\ DOMAIN call' = Calls /\ DOMAIN gets' = Calls /\ DOMAIN found' = Calls
      /\ \A d \in Calls \ {c} : call'[d] = call[d] /\ gets'[d] = gets[d] /\ found'[d] = found[d]
      /\ gets'[c] = gets[c] - 1
      /\ call'[c] = IF gets[c] = 1 THEN "resolved" ELSE "getting"
  BY DEF NextRound, TriedInv
<1>2. /\ QueueShape' /\ DOMAIN place' = DOMAIN place
      /\ Cardinality(Back') \in Nat
      /\ Cardinality(Back') + returned <= Cardinality(Back) + returned'
      /\ \A d \in Calls : Untried(d)' = Untried(d)
  BY HeldLeaves
<1>3. returned \in Nat /\ returned' \in Nat /\ Cardinality(Back) \in Nat
  BY <1>2, FiniteLetters DEF QueueShape, TriedInv
<1>4. \A d \in Calls : Cardinality(Untried(d)) \in Nat /\ Cardinality(Untried(d)') \in Nat
  BY <1>2, FiniteLetters
<1>5. CallShape(c) /\ RoundsSuffice(c) /\ gets[c] \in Int /\ gets[c] >= 1
  BY DEF TriedInv, CallShape
<1>6. CallShape(c)'
  BY <1>1, <1>2, <1>5 DEF CallShape
<1>7. RoundsSuffice(c)'
  <2> SUFFICES ASSUME Requested[c] = -1
               PROVE  Cardinality(Untried(c)') + Cardinality(Back') <= gets'[c] + returned'
    BY <1>1 DEF RoundsSuffice, Rounds
  <2>1. Cardinality(Untried(c)) + Cardinality(Back) <= gets[c] - 1 + returned
    BY <1>5 DEF RoundsSuffice, Rounds
  <2>2. Cardinality(Untried(c)') = Cardinality(Untried(c))
    BY <1>2
  <2> QED
    BY <1>1, <1>2, <1>3, <1>4, <1>5, <2>1, <2>2
<1>8. \A d \in Calls \ {c} :
         Cardinality(Untried(d)') + Cardinality(Back') + returned
           <= Cardinality(Untried(d)) + Cardinality(Back) + returned'
  BY <1>2, <1>3, <1>4
<1> QED
  BY <1>1, <1>2, <1>4, <1>6, <1>7, <1>8, OneCall

LEMMA LinkLostTried ==
  ASSUME TriedInv, NEW c \in Calls, LinkLost(c)
  PROVE  TriedInv'
<1>1. /\ place' = [n \in DOMAIN place |-> IF place[n] = c THEN "queued" ELSE place[n]]
      /\ returned' = IF "queued" = "queued" THEN returned + Cardinality(Held(c)) ELSE returned
      /\ UNCHANGED <<taken, found, call, gets>>
  BY DEF LinkLost, ComesBack
<1>2. /\ QueueShape' /\ DOMAIN place' = DOMAIN place
      /\ Cardinality(Back') \in Nat
      /\ Cardinality(Back') + returned <= Cardinality(Back) + returned'
      /\ \A d \in Calls : Untried(d)' = Untried(d)
  BY <1>1, HeldLeaves
<1>3. returned \in Nat /\ returned' \in Nat /\ Cardinality(Back) \in Nat
  BY <1>2, FiniteLetters DEF QueueShape, TriedInv
<1>4. \A d \in Calls : Cardinality(Untried(d)) \in Nat /\ Cardinality(Untried(d)') \in Nat
  BY <1>2, FiniteLetters
<1>5. CallShape(c) /\ RoundsSuffice(c) /\ gets[c] \in Int
  BY DEF TriedInv, CallShape
<1>6. CallShape(c)'
  BY <1>1, <1>2, <1>5 DEF CallShape
<1>7. \A d \in Calls :
         Cardinality(Untried(d)') + Cardinality(Back') + returned
           <= Cardinality(Untried(d)) + Cardinality(Back) + returned'
  BY <1>2, <1>3, <1>4
<1>8. RoundsSuffice(c)'
  <2>1. Rounds(c)' = Rounds(c) /\ Rounds(c) \in Int
    BY <1>1, <1>5 DEF Rounds
  <2> QED
    BY <1>1, <1>2, <1>3, <1>4, <1>5, <1>7, <2>1 DEF RoundsSuffice
<1> QED
  BY <1>1, <1>2, <1>4, <1>6, <1>7, <1>8, OneCall DEF TriedInv

\* What is written meanwhile goes to the end.
LEMMA DeliveryTried ==
  ASSUME TriedInv, DeliveryStep
  PROVE  TriedInv'
<1>1. CASE UNCHANGED dlxVars
  BY <1>1 DEF dlxVars, letterVars, historyVars, callVars, TriedInv, QueueShape, CallShape,
     RoundsSuffice, Back, Untried, Rounds, Queued
<1>2. CASE place' = Append(place, "queued") /\ UNCHANGED <<historyVars, callVars>>
  <2>1. /\ UNCHANGED <<taken, returned, call, gets, found>>
        /\ place' = Append(place, "queued")
    BY <1>2 DEF historyVars, callVars
  <2>2. place \in Seq(Calls \cup {"queued", "gone"})
    BY DEF TriedInv, QueueShape
  <2>3. /\ place' \in Seq(Calls \cup {"queued", "gone"})
        /\ Len(place) \in Nat
        /\ DOMAIN place = 1..Len(place)
        /\ DOMAIN place' = DOMAIN place \cup {Len(place) + 1}
        /\ place'[Len(place) + 1] = "queued"
        /\ \A n \in DOMAIN place : place'[n] = place[n]
    BY <2>1, <2>2
  <2>4. Len(place) + 1 \notin taken
    BY <2>3 DEF TriedInv, QueueShape
  <2>5. Back' = Back
    BY <2>1, <2>3, <2>4 DEF Back, Queued
  <2>6. QueueShape'
    BY <2>1, <2>3, <2>5 DEF TriedInv, QueueShape
  <2>7. ASSUME NEW c \in Calls PROVE CallShape(c)' /\ RoundsSuffice(c)'
    <3>1. CallShape(c) /\ RoundsSuffice(c)
      BY DEF TriedInv
    <3>2. found[c] \subseteq 1..Len(place)
      BY <2>3, <3>1 DEF CallShape
    <3>3. \A m \in found[c] : \A n \in (DOMAIN place' \ taken) \ found[c] : m < n
      BY <2>3, <3>1, <3>2 DEF CallShape
    <3>4. CallShape(c)'
      BY <2>1, <2>3, <3>1, <3>3 DEF CallShape
    <3>5. Untried(c)' = Untried(c) /\ Rounds(c)' = Rounds(c)
      BY <2>1 DEF Untried, Rounds
    <3>6. RoundsSuffice(c)'
      BY <2>1, <2>5, <3>1, <3>5 DEF RoundsSuffice
    <3> QED
      BY <3>4, <3>6
  <2> QED
    BY <2>1, <2>6, <2>7 DEF TriedInv
<1> QED
  BY <1>1, <1>2 DEF DeliveryStep

LEMMA NextTried == TriedInv /\ [DlxNext]_allVars => TriedInv'
<1> SUFFICES ASSUME TriedInv, [DlxNext]_allVars PROVE TriedInv'
  OBVIOUS
<1>1. CASE UNCHANGED allVars
  BY <1>1 DEF allVars, dlxVars, letterVars, historyVars, callVars, TriedInv, QueueShape,
     CallShape, RoundsSuffice, Back, Untried, Rounds, Queued
<1>2. ASSUME NEW c \in Calls, Retried(c) PROVE TriedInv'
  <2>1. /\ place' = [n \in DOMAIN place |-> IF place[n] = c THEN "gone" ELSE place[n]]
        /\ call[c] = "handling" /\ NextRound(c)
        /\ UNCHANGED <<taken, returned, found>>
    BY <1>2 DEF Retried
  <2> QED
    BY <2>1, RoundTried
<1>3. ASSUME NEW c \in Calls, PutsBack(c) PROVE TriedInv'
  <2>1. /\ place' = [n \in DOMAIN place |-> IF place[n] = c THEN "queued" ELSE place[n]]
        /\ returned' = returned + Cardinality(Held(c))
        /\ call[c] = "handling" /\ NextRound(c)
        /\ UNCHANGED <<taken, found>>
    BY <1>3 DEF PutsBack, ComesBack
  <2> QED
    BY <2>1, RoundTried
<1> QED
  BY <1>1, <1>2, <1>3, DeliveryTried, ConnectTried, CheckQueueTried, GetsNothingTried,
     GetsTried, LinkLostTried DEF DlxNext, CallStep

\* A call without messagesToRetry that resolves has tried all that it found, but
\* for one letter for each that ever came back.
THEOREM ResolvedTriedAllHolds == DlxSpec => []ResolvedTriedAll
  BY InitTried, NextTried, TriedSuffices, PTL DEF DlxSpec
===============================================================================
