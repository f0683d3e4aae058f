--------------------------- MODULE AmqpConnection ---------------------------
\* AmqpMessageBusAdapter: who owns the connection and the channel. channel(),
\* connect() and reconnect() run in every call of the adapter that is under way,
\* and each reads or writes the two fields on both sides of its awaits. A step
\* is one answer of the network with all the code that runs before the next;
\* what a promise resumes at once is part of it. A connection has the number of
\* its dial, and a channel that of its connection.
EXTENDS Naturals, FiniteSets

CONSTANTS
    Publishes,      \* calls of publish()
    Consumers,      \* how many consumers the kernel holds
    Events,         \* how many events each publish() is given
    MaxReconnects,  \* bound: calls of reconnect()
    MaxDials,       \* bound: connections opened
    MaxUpsets,      \* bound: dials that fail, channels that break, close()
    Startup,        \* runConsumers(), which calls init() of each consumer
    None            \* undefined

Reconnects == 1..MaxReconnects
Links == 1..MaxDials
Calls == {Startup} \cup Publishes \cup Reconnects

ASSUME BoundsAssumption ==
    /\ {Consumers, Events} \subseteq Nat \ {0}
    /\ {MaxReconnects, MaxDials, MaxUpsets} \subseteq Nat
ASSUME NoneAssumption == None \notin Nat
ASSUME CallsAssumption ==
    Publishes \cap Nat = {} /\ Startup \notin Nat \cup Publishes

VARIABLES
    connection,       \* the field: None or a link
    channelInstance,  \* the field: None or a link
    link,             \* each connection with its channel
    dialled,          \* connections opened so far
    pc,               \* what each call awaits
    on,               \* the link it works on
    progress,         \* consumers initialised, or events published
    reconnects,       \* calls of reconnect() so far
    consuming,        \* <<link, consumer>> that the broker delivers to
    closing,          \* close(): "idle", what it awaits, or how it settled
    upsets,           \* how many there were
    dialFailed,       \* history: could some dial not connect?
    overlaps          \* history: dials begun while another was under way

fields == <<connection, channelInstance>>
callVars == <<pc, on, progress, reconnects, overlaps>>
outerVars == <<fields, link, dialled, consuming, closing, upsets, dialFailed>>
vars == <<callVars, outerVars>>

\* "connected" has no channel yet; of a "broken" one only the channel is closed.
LinkStates == {"none", "connected", "open", "channelClosing", "broken",
               "closing", "ending", "closed"}

Dialing == {"dialing", "creating"}
Settled == {"resolved", "rejected"}

TypeOK ==
    /\ connection \in Links \cup {None}
    /\ channelInstance \in Links \cup {None}
    /\ link \in [Links -> LinkStates]
    /\ dialled \in 0..MaxDials
    /\ pc \in [Calls -> {"idle", "asserting", "working"} \cup Dialing \cup Settled]
    /\ on \in [Calls -> Links \cup {None}]
    /\ progress \in [Calls -> 0..Consumers + Events]
    /\ reconnects \in 0..MaxReconnects
    /\ consuming \subseteq Links \X (1..Consumers)
    /\ closing \in {"idle", "channel", "connection"} \cup Settled
    /\ upsets \in 0..MaxUpsets
    /\ dialFailed \in BOOLEAN
    /\ overlaps \in Nat

Init ==
    /\ connection = None
    /\ channelInstance = None
    /\ link = [k \in Links |-> "none"]
    /\ dialled = 0
    /\ pc = [c \in Calls |-> "idle"]
    /\ on = [c \in Calls |-> None]
    /\ progress = [c \in Calls |-> 0]
    /\ reconnects = 0
    /\ consuming = {}
    /\ closing = "idle"
    /\ upsets = 0
    /\ dialFailed = FALSE
    /\ overlaps = 0

Upset == upsets < MaxUpsets /\ upsets' = upsets + 1

Go(c, place, k) ==
    /\ pc' = [pc EXCEPT ![c] = place]
    /\ on' = [on EXCEPT ![c] = k]

DialUnderWay == \E c \in Calls : pc[c] \in Dialing

\* n dials begin at once.
BeginDials(n) ==
    overlaps' = overlaps + (IF DialUnderWay \/ n = 0 THEN n ELSE n - 1)

\* Mutant: every call dials, whatever the field holds.
ChannelAnew(c) ==
    Go(c, "dialing", None) /\ BeginDials(1)

\* channel(): connect() if the field is empty, and assertExchange() on the
\* channel otherwise, which throws if that is closed.
Channel(c) ==
    \/ /\ channelInstance = None
       /\ Go(c, "dialing", None)
       /\ BeginDials(1)
    \/ /\ channelInstance # None
       /\ IF link[channelInstance] = "open"
          THEN Go(c, "asserting", channelInstance)
          ELSE Go(c, "rejected", None)
       /\ UNCHANGED overlaps

\* Startup or publish() begins.
Begin(c) ==
    /\ c \notin Reconnects
    /\ pc[c] = "idle"
    /\ Channel(c)
    /\ UNCHANGED <<outerVars, progress, reconnects>>

DialFails(c) ==
    /\ pc[c] = "dialing"
    /\ Upset
    /\ Go(c, "rejected", None)
    /\ dialFailed' = TRUE
    /\ UNCHANGED <<fields, link, dialled, progress, reconnects, overlaps,
                   consuming, closing>>

\* connect() stores the connection and asks it for a channel.
Dials(c) ==
    /\ pc[c] = "dialing"
    /\ dialled < MaxDials
    /\ dialled' = dialled + 1
    /\ connection' = dialled + 1
    /\ link' = [link EXCEPT ![dialled + 1] = "connected"]
    /\ Go(c, "creating", dialled + 1)
    /\ UNCHANGED <<channelInstance, progress, reconnects, overlaps, consuming,
                   closing, upsets, dialFailed>>

\* connect() stores the channel, listens for its end and returns: to channel(),
\* which goes on with it, or to reconnect(), which begins with the init() of
\* the first consumer and so calls channel().
Creates(c) ==
    /\ pc[c] = "creating"
    /\ link[on[c]] = "connected"
    /\ link' = [link EXCEPT ![on[c]] = "open"]
    /\ channelInstance' = on[c]
    /\ Go(c, "asserting", on[c])
    /\ UNCHANGED <<connection, dialled, progress, reconnects, overlaps,
                   consuming, closing, upsets, dialFailed>>

\* Mutant: only a call that works on a channel hears of its end.
FailsWorking(c) ==
    /\ pc[c] = "working" /\ link[on[c]] # "open"
    /\ Go(c, "rejected", None)
    /\ UNCHANGED <<outerVars, progress, reconnects, overlaps>>

\* What awaits an answer of a connection or a channel that has ended rejects,
\* and so does what is about to use a channel that is closed.
Fails(c) ==
    /\ \/ pc[c] = "creating" /\ link[on[c]] # "connected"
       \/ pc[c] \in {"asserting", "working"} /\ link[on[c]] # "open"
    /\ Go(c, "rejected", None)
    /\ UNCHANGED <<outerVars, progress, reconnects, overlaps>>

\* channel() returns what the field holds by now, perhaps nothing to work on.
Asserted(c) ==
    /\ pc[c] = "asserting"
    /\ link[on[c]] = "open"
    /\ IF channelInstance = None
       THEN Go(c, "rejected", None)
       ELSE Go(c, "working", channelInstance)
    /\ UNCHANGED <<outerVars, progress, reconnects, overlaps>>

Works(c) == pc[c] = "working" /\ link[on[c]] = "open"

Advance(c) == progress' = [progress EXCEPT ![c] = @ + 1]

\* consume() of one consumer declares, binds and consumes its queue; the loop of
\* startup or reconnect() goes on to the init() of the next.
Consumes(c) ==
    /\ c \notin Publishes
    /\ Works(c)
    /\ consuming' = consuming \cup {<<on[c], progress[c] + 1>>}
    /\ Advance(c)
    /\ IF progress[c] + 1 < Consumers
       THEN Channel(c)
       ELSE Go(c, "resolved", None) /\ UNCHANGED overlaps
    /\ UNCHANGED <<fields, link, dialled, reconnects, closing, upsets,
                   dialFailed>>

\* The hooks around an event have run, and it was written between them.
Writes(c) ==
    /\ c \in Publishes
    /\ Works(c)
    /\ Advance(c)
    /\ IF progress[c] + 1 < Events
       THEN UNCHANGED <<pc, on>>
       ELSE Go(c, "resolved", None)
    /\ UNCHANGED <<outerVars, reconnects, overlaps>>

\* A hook fails, and publish() with it.
HookFails(c) ==
    /\ c \in Publishes
    /\ Works(c)
    /\ Go(c, "rejected", None)
    /\ UNCHANGED <<outerVars, progress, reconnects, overlaps>>

\* Mutant: the listeners only log.
ReconnectNot(n) ==
    /\ reconnects + n <= MaxReconnects
    /\ UNCHANGED <<pc, reconnects, overlaps>>

\* n events of a channel call reconnect() each, which dials at once.
Reconnect(n) ==
    /\ reconnects + n <= MaxReconnects
    /\ reconnects' = reconnects + n
    /\ pc' = [c \in Calls |->
                 IF c \in (reconnects + 1)..(reconnects + n) THEN "dialing"
                 ELSE pc[c]]
    /\ BeginDials(n)

\* The channel of k is closed, and what it consumed is not.
ChannelEnds(k, state) ==
    /\ link' = [link EXCEPT ![k] = state]
    /\ consuming' = {s \in consuming : s[1] # k}

\* The broker closes a channel, with an "error" before the "close" if it refused
\* a call, like checkQueue() of a queue that areQueuesBound() asks for too soon.
ChannelBreaks(k) ==
    /\ link[k] = "open"
    /\ Upset
    /\ ChannelEnds(k, "broken")
    /\ \E n \in 1..2 : Reconnect(n)
    /\ UNCHANGED <<fields, dialled, on, progress, closing, dialFailed>>

\* close() goes on to the connection the field holds by now. Of its channel, if
\* it has one, nothing is heard until the connection ends.
CloseConnection(links) ==
    IF connection = None
    THEN closing' = "resolved" /\ link' = links
    ELSE /\ closing' = "connection"
         /\ link' = [links EXCEPT ![connection] =
                        IF @ = "open" THEN "closing" ELSE "ending"]

\* close() is called, and begins with the channel: it throws if that is closed.
Close ==
    /\ closing = "idle"
    /\ Upset
    /\ \/ channelInstance = None /\ CloseConnection(link)
       \/ /\ channelInstance # None
          /\ link[channelInstance] = "open"
          /\ closing' = "channel"
          /\ link' = [link EXCEPT ![channelInstance] = "channelClosing"]
       \/ /\ channelInstance # None
          /\ link[channelInstance] # "open"
          /\ closing' = "rejected"
          /\ UNCHANGED link
    /\ UNCHANGED <<fields, dialled, callVars, consuming, dialFailed>>

\* The broker answers: the channel emits "close", which reconnects, and close()
\* goes on.
ChannelClosed ==
    /\ closing = "channel"
    /\ \E k \in Links :
          /\ link[k] = "channelClosing"
          /\ CloseConnection([link EXCEPT ![k] = "broken"])
          /\ consuming' = {s \in consuming : s[1] # k}
    /\ Reconnect(1)
    /\ UNCHANGED <<fields, dialled, on, progress, upsets, dialFailed>>

\* The connection ends; a channel of it emits "close", and close() empties the
\* fields, whatever they hold by now.
ConnectionClosed ==
    /\ closing = "connection"
    /\ closing' = "resolved"
    /\ \E k \in Links :
          /\ link[k] \in {"closing", "ending"}
          /\ ChannelEnds(k, "closed")
          /\ Reconnect(IF link[k] = "closing" THEN 1 ELSE 0)
    /\ connection' = None
    /\ channelInstance' = None
    /\ UNCHANGED <<dialled, on, progress, upsets, dialFailed>>

CallStep(c) ==
    \/ Dials(c) \/ Creates(c) \/ Fails(c) \/ Asserted(c)
    \/ Consumes(c) \/ Writes(c) \/ HookFails(c)

CloseStep == ChannelClosed \/ ConnectionClosed

Next ==
    \/ \E c \in Calls : Begin(c) \/ DialFails(c) \/ CallStep(c)
    \/ \E k \in Links : ChannelBreaks(k)
    \/ Close
    \/ CloseStep

\* The event loop goes on with some promise that can settle: dials are answered,
\* hooks settle, and the broker answers on what is open.
Fairness == WF_vars((\E c \in Calls : CallStep(c)) \/ CloseStep)

Spec == Init /\ [][Next]_vars /\ Fairness
-----------------------------------------------------------------------------
AtRest == /\ \A c \in Calls : pc[c] \in {"idle"} \cup Settled
          /\ closing \in {"idle"} \cup Settled

\* Channels break under any call, and their listeners reconnect, twice for one
\* loss and while startup or a publish dials as well. When all that has come to
\* rest the adapter holds an open channel and every consumer is consumed on some
\* open channel, unless a dial failed, which nothing repeats, or it was closed.
ConsumersResume ==
    AtRest /\ pc[Startup] # "idle" /\ ~dialFailed /\ closing = "idle" =>
        /\ channelInstance # None
        /\ link[channelInstance] = "open"
        /\ \A i \in 1..Consumers : \E k \in Links :
              link[k] = "open" /\ <<k, i>> \in consuming

\* Until close() is called, every dial that overlaps another leaves at most one
\* open channel that the adapter does not hold, and nothing else does: however
\* often channels broke and were replaced, there are no more open channels, and
\* dials that may bring one, than one and those. Without overlaps the adapter
\* holds the one there is.
OrphansNeedOverlap ==
    closing = "idle" =>
        /\ Cardinality({k \in Links : link[k] = "open"})
              + Cardinality({c \in Calls : pc[c] \in Dialing}) <= 1 + overlaps
        /\ overlaps = 0 => \A k \in Links : link[k] = "open" => channelInstance = k

\* Every call that was made settles, close() too, whichever connection or
\* channel is lost under it.
CallsSettle == <>[]AtRest
=============================================================================
