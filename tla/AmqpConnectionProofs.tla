-------------------------- MODULE AmqpConnectionProofs --------------------------
\* Proof that the adapter of AmqpConnection ends on an open channel with every
\* consumer, and leaves at most one channel too many open for each dial that
\* overlaps another, for any number of consumers, publishes, losses and reconnects. A loss always leaves a call behind that
\* dials and begins with the first consumer; what other calls do with the channel
\* meanwhile adds to that, or they fail because it is there.
EXTENDS AmqpConnection, FiniteSetTheorems, TLAPS

\* The calls that initialise consumers, and how far a call can get.
Loops == Calls \ Publishes
Steps(c) == IF c \in Publishes THEN Events ELSE Consumers

Unsettled == \A c \in Calls : pc[c] \notin Settled => progress[c] < Steps(c)
Uncalled == \A n \in Reconnects : n > reconnects => pc[n] = "idle"

\* The states of a call in which it works on a link.
OnLink == {"creating", "asserting", "working"}
Placed == \A c \in Calls : pc[c] \in OnLink => on[c] \in Links

TypeInv == TypeOK /\ Unsettled /\ Uncalled /\ Placed

LEMMA Bounds ==
    /\ Consumers \in Nat /\ Consumers >= 1 /\ Events \in Nat /\ Events >= 1
    /\ MaxReconnects \in Nat /\ MaxDials \in Nat /\ MaxUpsets \in Nat
    /\ None \notin Links
<1>1. Consumers \in Nat \ {0} /\ Events \in Nat \ {0}
  BY BoundsAssumption
<1>2. MaxReconnects \in Nat /\ MaxDials \in Nat /\ MaxUpsets \in Nat
  BY BoundsAssumption
<1>3. None \notin Links
  BY <1>2, NoneAssumption DEF Links
<1> QED
  BY <1>1, <1>2, <1>3

LEMMA CallFacts ==
    /\ Startup \in Loops
    /\ Reconnects \subseteq Loops
    /\ Loops \subseteq Calls
    /\ \A c \in Calls : c \notin Reconnects /\ c \notin Publishes => c = Startup
    /\ \A c \in Calls : Steps(c) \in Nat \ {0} /\ Steps(c) <= Consumers + Events
    /\ \A c \in Loops : Steps(c) = Consumers
  BY CallsAssumption, Bounds DEF Calls, Loops, Reconnects, Steps

LEMMA InitType == Init => TypeInv
<1> SUFFICES ASSUME Init PROVE TypeInv
  OBVIOUS
<1> USE DEF Init
<1>1. progress \in [Calls -> 0..Consumers + Events]
  BY Bounds
<1>2. dialled \in 0..MaxDials /\ reconnects \in 0..MaxReconnects /\ upsets \in 0..MaxUpsets
  BY Bounds
<1>0. dialFailed \in BOOLEAN /\ overlaps \in Nat
  OBVIOUS
<1>3. TypeOK
  BY <1>0, <1>1, <1>2 DEF TypeOK, LinkStates
<1>4. Unsettled /\ Uncalled /\ Placed
  BY CallFacts DEF Unsettled, Uncalled, Reconnects, Calls, Placed, OnLink
<1> QED
  BY <1>3, <1>4 DEF TypeInv

\* A call that moves from a state that is neither new nor over.
LEMMA GoType ==
  ASSUME TypeInv, NEW c \in Calls,
         NEW place \in {"asserting", "working"} \cup Dialing \cup Settled,
         NEW k \in Links \cup {None}, Go(c, place, k), place \in OnLink => k \in Links,
         c \in Reconnects => pc[c] # "idle",
         progress'[c] < Steps(c) \/ place \in Settled,
         progress' \in [Calls -> 0..Consumers + Events],
         \A d \in Calls \ {c} : progress'[d] = progress[d],
         reconnects' = reconnects
  PROVE  /\ pc' \in [Calls -> {"idle", "asserting", "working"} \cup Dialing \cup Settled]
         /\ on' \in [Calls -> Links \cup {None}]
         /\ Unsettled' /\ Uncalled' /\ Placed'
<1> USE DEF TypeInv
<1>1. pc' \in [Calls -> {"idle", "asserting", "working"} \cup Dialing \cup Settled]
  BY DEF Go, TypeOK
<1>2. on' \in [Calls -> Links \cup {None}]
  BY DEF Go, TypeOK
<1>3. pc'[c] = place /\ \A d \in Calls \ {c} : pc'[d] = pc[d]
  BY DEF Go, TypeOK
<1>4. Unsettled'
  BY <1>3 DEF Unsettled, Steps
<1>5. Uncalled'
  BY <1>3 DEF Uncalled, Calls, TypeOK, Reconnects
<1>6. Placed'
  BY <1>3 DEF Placed, Go, TypeOK
<1> QED
  BY <1>1, <1>2, <1>4, <1>5, <1>6

LEMMA ChannelForm ==
  ASSUME TypeInv, NEW c \in Calls, Channel(c)
  PROVE  /\ \E place \in {"dialing", "asserting", "rejected"}, k \in Links \cup {None} :
               Go(c, place, k) /\ (place \in OnLink => k \in Links)
         /\ overlaps' \in Nat
<1>1. channelInstance \in Links \cup {None} /\ overlaps \in Nat
  BY DEF TypeInv, TypeOK
<1>2. overlaps' \in Nat
  BY <1>1 DEF Channel, BeginDials
<1> QED
  BY <1>1, <1>2 DEF Channel, OnLink

\* What begins, fails, or goes on without being a step further.
LEMMA MovesType ==
  ASSUME TypeInv, NEW c \in Calls,
         Begin(c) \/ DialFails(c) \/ Dials(c) \/ Creates(c) \/ Fails(c) \/ Asserted(c)
         \/ HookFails(c)
  PROVE  TypeInv'
<1>1. /\ progress' = progress /\ reconnects' = reconnects
      /\ \E place \in {"asserting", "working"} \cup Dialing \cup Settled, k \in Links \cup {None} :
            Go(c, place, k) /\ (place \in OnLink => k \in Links)
      /\ overlaps' \in Nat
  <2>1. overlaps \in Nat /\ channelInstance \in Links \cup {None}
        /\ on[c] \in Links \cup {None} /\ (pc[c] = "creating" => on[c] \in Links)
    BY DEF TypeInv, TypeOK, Placed, OnLink
  <2>2. CASE Begin(c)
    BY <2>2, ChannelForm DEF Begin, Dialing, Settled, OnLink
  <2>3. CASE Dials(c)
    <3>1. dialled + 1 \in Links
      BY <2>3, Bounds DEF Dials, Links, TypeInv, TypeOK
    <3> QED
      BY <2>1, <2>3, <3>1 DEF Dials, Dialing, OnLink
  <2>4. CASE DialFails(c) \/ Creates(c) \/ Fails(c) \/ Asserted(c) \/ HookFails(c)
    BY <2>1, <2>4 DEF DialFails, Creates, Fails, Asserted, HookFails, Settled, OnLink, Dialing
  <2> QED
    BY <2>2, <2>3, <2>4
<1>2. pc[c] \notin Settled /\ (c \in Reconnects => pc[c] # "idle")
  BY DEF Begin, DialFails, Dials, Creates, Fails, Asserted, HookFails, Works, Settled
<1>3. progress[c] < Steps(c) /\ progress' \in [Calls -> 0..Consumers + Events]
  BY <1>1, <1>2 DEF TypeInv, Unsettled, TypeOK
<1>4. /\ pc' \in [Calls -> {"idle", "asserting", "working"} \cup Dialing \cup Settled]
      /\ on' \in [Calls -> Links \cup {None}]
      /\ Unsettled' /\ Uncalled' /\ Placed'
  BY <1>1, <1>2, <1>3, GoType
<1>5. /\ connection' \in Links \cup {None}
      /\ channelInstance' \in Links \cup {None}
      /\ link' \in [Links -> LinkStates]
      /\ dialled' \in 0..MaxDials
      /\ consuming' \subseteq Links \X (1..Consumers)
      /\ closing' \in {"idle", "channel", "connection"} \cup Settled
      /\ upsets' \in 0..MaxUpsets
      /\ dialFailed' \in BOOLEAN
  <2>1. CASE UNCHANGED outerVars
    BY <2>1 DEF outerVars, fields, TypeInv, TypeOK
  <2>2. CASE DialFails(c)
    BY <2>2, Bounds DEF DialFails, Upset, fields, TypeInv, TypeOK
  <2>3. CASE Dials(c)
    <3>1. dialled + 1 \in Links /\ dialled + 1 \in 0..MaxDials
      BY <2>3, Bounds DEF Dials, Links, TypeInv, TypeOK
    <3>2. link' \in [Links -> LinkStates]
      BY <2>3 DEF Dials, LinkStates, TypeInv, TypeOK
    <3> QED
      BY <2>3, <3>1, <3>2 DEF Dials, TypeInv, TypeOK
  <2>4. CASE Creates(c)
    <3>1. on[c] \in Links
      BY <2>4 DEF Creates, TypeInv, Placed, OnLink
    <3>2. link' \in [Links -> LinkStates]
      BY <2>4 DEF Creates, LinkStates, TypeInv, TypeOK
    <3> QED
      BY <2>4, <3>1, <3>2 DEF Creates, TypeInv, TypeOK
  <2> QED
    BY <2>1, <2>2, <2>3, <2>4 DEF Begin, Fails, Asserted, HookFails
<1>6. reconnects' \in 0..MaxReconnects /\ progress' \in [Calls -> 0..Consumers + Events]
  BY <1>1 DEF TypeInv, TypeOK
<1> QED
  BY <1>1, <1>4, <1>5, <1>6 DEF TypeInv, TypeOK

\* A step further with one consumer or event.
LEMMA AdvanceType ==
  ASSUME TypeInv, NEW c \in Calls, Consumes(c) \/ Writes(c)
  PROVE  TypeInv'
<1>1. /\ pc[c] = "working" /\ on[c] \in Links
      /\ progress[c] \in Nat /\ progress[c] < Steps(c)
  BY DEF Consumes, Writes, Works, TypeInv, TypeOK, Unsettled, Placed, OnLink, Settled
<1>2. /\ progress' = [progress EXCEPT ![c] = progress[c] + 1]
      /\ reconnects' = reconnects
      /\ UNCHANGED <<connection, channelInstance, link, dialled, closing, upsets, dialFailed>>
  BY DEF Consumes, Writes, Advance, outerVars, fields
<1>3. Steps(c) \in Nat /\ Steps(c) <= Consumers + Events /\ Consumers + Events \in Nat
  BY CallFacts, Bounds
<1>4. progress' \in [Calls -> 0..Consumers + Events]
  <2>1. progress[c] + 1 \in 0..Consumers + Events
    BY <1>1, <1>3
  <2>2. progress \in [Calls -> 0..Consumers + Events]
    BY DEF TypeInv, TypeOK
  <2> QED
    BY <1>2, <2>1, <2>2
<1>5. progress'[c] = progress[c] + 1 /\ \A d \in Calls \ {c} : progress'[d] = progress[d]
  BY <1>2 DEF TypeInv, TypeOK
<1>6. PICK place \in {"asserting", "working"} \cup Dialing \cup Settled, k \in Links \cup {None} :
        /\ Go(c, place, k)
        /\ place \in OnLink => k \in Links
        /\ progress[c] + 1 < Steps(c) \/ place \in Settled
  <2>1. CASE Consumes(c) /\ progress[c] + 1 < Consumers
    <3>1. Channel(c) /\ c \in Loops
      BY <2>1, CallFacts DEF Consumes, Loops
    <3>2. PICK place \in {"dialing", "asserting", "rejected"}, k \in Links \cup {None} :
             Go(c, place, k) /\ (place \in OnLink => k \in Links)
      BY <3>1, ChannelForm
    <3>3. place \in {"asserting", "working"} \cup Dialing \cup Settled
      BY DEF Dialing, Settled
    <3> QED
      BY <2>1, <3>1, <3>2, <3>3, CallFacts
  <2>2. CASE Consumes(c) /\ ~(progress[c] + 1 < Consumers)
    BY <2>2 DEF Consumes, Settled, OnLink
  <2>3. CASE Writes(c) /\ progress[c] + 1 < Events
    <3>1. Go(c, "working", on[c])
      BY <1>1, <2>3 DEF Writes, Go, TypeInv, TypeOK
    <3>2. Steps(c) = Events
      BY <2>3 DEF Writes, Steps
    <3> QED
      BY <1>1, <2>3, <3>1, <3>2
  <2>4. CASE Writes(c) /\ ~(progress[c] + 1 < Events)
    BY <2>4 DEF Writes, Settled, OnLink
  <2> QED
    BY <2>1, <2>2, <2>3, <2>4
<1>7. /\ pc' \in [Calls -> {"idle", "asserting", "working"} \cup Dialing \cup Settled]
      /\ on' \in [Calls -> Links \cup {None}]
      /\ Unsettled' /\ Uncalled' /\ Placed'
  BY <1>1, <1>2, <1>4, <1>5, <1>6, GoType
<1>8. consuming' \subseteq Links \X (1..Consumers)
  <2>1. CASE Consumes(c)
    <3>1. progress[c] + 1 \in 1..Consumers
      BY <1>1, <2>1, CallFacts, Bounds DEF Consumes, Loops
    <3>2. consuming' = consuming \cup {<<on[c], progress[c] + 1>>}
      BY <2>1 DEF Consumes
    <3> QED
      BY <1>1, <3>1, <3>2 DEF TypeInv, TypeOK
  <2>2. CASE Writes(c)
    BY <2>2 DEF Writes, outerVars, TypeInv, TypeOK
  <2> QED
    BY <2>1, <2>2
<1>9. overlaps' \in Nat
  <2>1. overlaps \in Nat
    BY DEF TypeInv, TypeOK
  <2> QED
    BY <2>1, ChannelForm DEF Consumes, Writes
<1> QED
  BY <1>2, <1>4, <1>7, <1>8, <1>9 DEF TypeInv, TypeOK

\* The calls that the end of a channel makes.
LEMMA ReconnectType ==
  ASSUME TypeInv, NEW n \in 0..2, Reconnect(n), UNCHANGED <<on, progress>>
  PROVE  /\ pc' \in [Calls -> {"idle", "asserting", "working"} \cup Dialing \cup Settled]
         /\ reconnects' \in 0..MaxReconnects
         /\ Unsettled' /\ Uncalled' /\ Placed'
         /\ overlaps' \in Nat
<1> DEFINE new == (reconnects + 1)..(reconnects + n)
<1>1. /\ reconnects \in Nat /\ reconnects + n <= MaxReconnects /\ reconnects' = reconnects + n
      /\ pc' = [c \in Calls |-> IF c \in new THEN "dialing" ELSE pc[c]]
  BY DEF Reconnect, TypeInv, TypeOK
<1>2. new \subseteq Reconnects
  BY <1>1, Bounds DEF Reconnects
<1>3. \A c \in new : pc[c] = "idle"
  BY <1>1, <1>2 DEF TypeInv, Uncalled
<1> HIDE DEF new
<1>4. pc' \in [Calls -> {"idle", "asserting", "working"} \cup Dialing \cup Settled]
  BY <1>1 DEF TypeInv, TypeOK, Dialing
<1>5. reconnects' \in 0..MaxReconnects
  BY <1>1, Bounds
<1>6. Unsettled'
  BY <1>1, <1>3 DEF TypeInv, Unsettled, Steps, Settled
<1>7. Uncalled'
  BY <1>1, <1>2 DEF TypeInv, Uncalled, Reconnects, Calls, new
<1>8. Placed'
  BY <1>1 DEF TypeInv, Placed, OnLink
<1>9. overlaps' \in Nat
  BY DEF Reconnect, BeginDials, TypeInv, TypeOK
<1> QED
  BY <1>4, <1>5, <1>6, <1>7, <1>8, <1>9

LEMMA CloseConnectionType ==
  ASSUME TypeInv, NEW links \in [Links -> LinkStates], CloseConnection(links)
  PROVE  closing' \in {"resolved", "connection"} /\ link' \in [Links -> LinkStates]
<1>1. connection \in Links \cup {None}
  BY DEF TypeInv, TypeOK
<1> QED
  BY <1>1 DEF CloseConnection, LinkStates

\* The end of a channel or of the connection.
LEMMA EndsType ==
  ASSUME TypeInv,
         \/ \E k \in Links : ChannelBreaks(k)
         \/ CloseStep
  PROVE  TypeInv'
<1>1. PICK n \in 0..2 : Reconnect(n)
  BY DEF ChannelBreaks, CloseStep, ChannelClosed, ConnectionClosed
<1>2. UNCHANGED <<on, progress, dialled, dialFailed>>
  BY DEF ChannelBreaks, CloseStep, ChannelClosed, ConnectionClosed
<1>3. consuming' \subseteq Links \X (1..Consumers)
  BY DEF ChannelBreaks, CloseStep, ChannelClosed, ConnectionClosed, ChannelEnds, TypeInv, TypeOK
<1>4. link' \in [Links -> LinkStates] /\ closing' \in {"idle", "channel", "connection"} \cup Settled
  <2>1. link \in [Links -> LinkStates] /\ closing \in {"idle", "channel", "connection"} \cup Settled
    BY DEF TypeInv, TypeOK
  <2>2. ASSUME NEW k \in Links, ChannelBreaks(k)
        PROVE  link' \in [Links -> LinkStates] /\ closing' = closing
    BY <2>1, <2>2 DEF ChannelBreaks, ChannelEnds, LinkStates
  <2>3. CASE ChannelClosed
    <3>1. PICK k \in Links : CloseConnection([link EXCEPT ![k] = "broken"])
      BY <2>3 DEF ChannelClosed
    <3>2. [link EXCEPT ![k] = "broken"] \in [Links -> LinkStates]
      BY <2>1 DEF LinkStates
    <3> QED
      BY <3>1, <3>2, CloseConnectionType DEF Settled
  <2>4. CASE ConnectionClosed
    BY <2>1, <2>4 DEF ConnectionClosed, ChannelEnds, LinkStates, Settled
  <2> QED
    BY <2>1, <2>2, <2>3, <2>4 DEF CloseStep
<1>5. connection' \in Links \cup {None} /\ channelInstance' \in Links \cup {None}
  BY DEF ChannelBreaks, CloseStep, ChannelClosed, ConnectionClosed, fields, TypeInv, TypeOK
<1>6. upsets' \in 0..MaxUpsets
  BY Bounds DEF ChannelBreaks, Upset, CloseStep, ChannelClosed, ConnectionClosed, TypeInv, TypeOK
<1>7. /\ pc' \in [Calls -> {"idle", "asserting", "working"} \cup Dialing \cup Settled]
      /\ reconnects' \in 0..MaxReconnects
      /\ Unsettled' /\ Uncalled' /\ Placed'
      /\ overlaps' \in Nat
  BY <1>1, <1>2, ReconnectType
<1> QED
  BY <1>2, <1>3, <1>4, <1>5, <1>6, <1>7 DEF TypeInv, TypeOK

LEMMA CloseType ==
  ASSUME TypeInv, Close
  PROVE  TypeInv'
<1>1. UNCHANGED <<connection, channelInstance, dialled, pc, on, progress, reconnects, overlaps,
                  consuming, dialFailed>>
  BY DEF Close, fields, callVars
<1>2. link \in [Links -> LinkStates] /\ upsets' \in 0..MaxUpsets
  BY Bounds DEF Close, Upset, TypeInv, TypeOK
<1>3. link' \in [Links -> LinkStates] /\ closing' \in {"idle", "channel", "connection"} \cup Settled
  BY <1>2, CloseConnectionType DEF Close, LinkStates, Settled
<1> QED
  BY <1>1, <1>2, <1>3 DEF TypeInv, TypeOK, Unsettled, Uncalled, Placed, Steps

LEMMA NextType == TypeInv /\ [Next]_vars => TypeInv'
<1> SUFFICES ASSUME TypeInv, [Next]_vars PROVE TypeInv'
  OBVIOUS
<1>1. CASE UNCHANGED vars
  BY <1>1 DEF vars, callVars, outerVars, fields, TypeInv, TypeOK, Unsettled, Uncalled, Placed, Steps
<1>2. CASE Next
  BY <1>2, MovesType, AdvanceType, EndsType, CloseType DEF Next, CallStep
<1> QED
  BY <1>1, <1>2

\* Every variable keeps its type, and no call gets further than it has to.
THEOREM TypeCorrect == Spec => []TypeOK
<1>1. TypeInv => TypeOK
  BY DEF TypeInv
<1> QED
  BY <1>1, InitType, NextType, PTL DEF Spec

(***************************************************************************)
(* Links and the calls that work on them, until close() is called.          *)
(***************************************************************************)
LinksKnown ==
    \A k \in Links : /\ link[k] \in {"none", "connected", "open", "broken"}
                     /\ k > dialled => link[k] = "none"

\* A connection without a channel is of the one call that waits for it.
CreatingAlone ==
    \A c \in Calls : pc[c] = "creating" =>
        /\ link[on[c]] = "connected"
        /\ \A d \in Calls \ {c} : pc[d] = "creating" => on[d] # on[c]

\* Only calls that have done nothing yet dial.
DialsFirst == \A c \in Calls : pc[c] \in Dialing \cup {"idle"} => progress[c] = 0

\* The field is empty only until the first channel is there.
FieldFilled ==
    /\ \A c \in Calls : pc[c] \in {"asserting", "working"} => channelInstance # None
    /\ \A k \in Links : link[k] = "open" => channelInstance # None

LinksInv == closing = "idle" => LinksKnown /\ CreatingAlone /\ DialsFirst /\ FieldFilled

LEMMA InitLinks == Init => LinksInv
  BY DEF Init, LinksInv, LinksKnown, CreatingAlone, DialsFirst, FieldFilled, Dialing

\* close() is called once, and what it is at is never "idle" again.
LEMMA ClosingForm ==
  ASSUME [Next]_vars, closing' = "idle"
  PROVE  /\ closing = "idle"
         /\ \/ UNCHANGED vars
            \/ \E c \in Calls : Begin(c) \/ DialFails(c) \/ CallStep(c)
            \/ \E k \in Links : ChannelBreaks(k)
<1>1. CASE UNCHANGED vars
  BY <1>1 DEF vars, outerVars
<1>2. CASE Close \/ CloseStep
  BY <1>2 DEF Close, CloseStep, ChannelClosed, ConnectionClosed, CloseConnection
<1>3. ASSUME NEW c \in Calls, Begin(c) \/ DialFails(c) \/ CallStep(c) PROVE closing = "idle"
  BY <1>3 DEF Begin, DialFails, CallStep, Dials, Creates, Fails, Asserted, Consumes, Writes,
     HookFails, outerVars
<1>4. ASSUME NEW k \in Links, ChannelBreaks(k) PROVE closing = "idle"
  BY <1>4 DEF ChannelBreaks
<1> QED
  BY <1>1, <1>2, <1>3, <1>4 DEF Next

\* Where one call goes, and what it does to the links.
Goes(c, place, k) ==
    /\ pc'[c] = place /\ on'[c] = k
    /\ \A d \in Calls \ {c} : pc'[d] = pc[d] /\ on'[d] = on[d]

LEMMA GoForm ==
  ASSUME TypeInv, NEW c \in Calls, NEW place, NEW k, Go(c, place, k)
  PROVE  Goes(c, place, k)
  BY DEF Go, Goes, TypeInv, TypeOK

\* The steps that neither dial nor create: a call goes to dialing only from the
\* beginning, and to a channel only if there is one.
PassesTo(c, place, k) ==
    /\ Goes(c, place, k)
    /\ place = "dialing" => /\ pc[c] = "idle" /\ progress'[c] = progress[c]
                            /\ channelInstance = None
                            /\ BeginDials(1)
    /\ place # "dialing" => overlaps' = overlaps
    /\ place = "asserting" => k = channelInstance /\ k # None /\ link[k] = "open"
    /\ place = "working" => channelInstance # None

Passes(c) ==
    /\ UNCHANGED <<link, dialled, channelInstance>>
    /\ \A d \in Calls \ {c} : progress'[d] = progress[d]
    /\ \E place \in {"dialing", "asserting", "working"} \cup Settled : \E k :
          PassesTo(c, place, k)

LEMMA ChannelPasses ==
  ASSUME TypeInv, NEW c \in Calls, Channel(c),
         UNCHANGED <<link, dialled, channelInstance>>,
         \A d \in Calls \ {c} : progress'[d] = progress[d],
         channelInstance = None => pc[c] = "idle" /\ progress'[c] = progress[c]
  PROVE  Passes(c)
<1>1. CASE channelInstance = None
  <2>1. Goes(c, "dialing", None)
    BY <1>1, GoForm DEF Channel
  <2>2. BeginDials(1)
    BY <1>1, Zenon DEF Channel
  <2>3. PassesTo(c, "dialing", None)
    BY <1>1, <2>1, <2>2 DEF PassesTo
  <2> QED
    BY <2>3 DEF Passes
<1>2. CASE channelInstance # None /\ link[channelInstance] = "open"
  <2>1. Goes(c, "asserting", channelInstance) /\ overlaps' = overlaps
    BY <1>2, GoForm DEF Channel
  <2>2. PassesTo(c, "asserting", channelInstance)
    BY <1>2, <2>1 DEF PassesTo
  <2> QED
    BY <2>2 DEF Passes
<1>3. CASE channelInstance # None /\ link[channelInstance] # "open"
  <2>1. Goes(c, "rejected", None) /\ overlaps' = overlaps
    BY <1>3, GoForm DEF Channel
  <2>2. PassesTo(c, "rejected", None)
    BY <2>1 DEF PassesTo
  <2> QED
    BY <2>2 DEF Passes, Settled
<1> QED
  BY <1>1, <1>2, <1>3

LEMMA MostPass ==
  ASSUME TypeInv, LinksInv, closing = "idle", NEW c \in Calls,
         \/ Begin(c) \/ DialFails(c) \/ Fails(c) \/ Asserted(c)
         \/ Consumes(c) \/ Writes(c) \/ HookFails(c)
  PROVE  Passes(c)
<1>1. UNCHANGED <<link, dialled, channelInstance>>
  BY DEF Begin, DialFails, Fails, Asserted, Consumes, Writes, HookFails, outerVars, fields
<1>2. \A d \in Calls \ {c} : progress'[d] = progress[d]
  BY DEF Begin, DialFails, Fails, Asserted, Consumes, Writes, HookFails, Advance, TypeInv, TypeOK
<1>3. pc[c] = "working" => channelInstance # None
  BY DEF LinksInv, FieldFilled
<1>0. DialFails(c) \/ Fails(c) \/ Asserted(c) \/ Writes(c) \/ HookFails(c) => overlaps' = overlaps
  BY DEF DialFails, Fails, Asserted, Writes, HookFails
<1>4. CASE Begin(c)
  BY <1>1, <1>2, <1>4, ChannelPasses DEF Begin
<1>5. CASE DialFails(c) \/ Fails(c) \/ HookFails(c)
  <2>1. Goes(c, "rejected", None)
    BY <1>5, GoForm DEF DialFails, Fails, HookFails
  <2>2. PassesTo(c, "rejected", None)
    BY <1>0, <1>5, <2>1 DEF PassesTo
  <2> QED
    BY <1>1, <1>2, <2>2 DEF Passes, Settled
<1>6. CASE Asserted(c)
  <2>1. \/ Goes(c, "rejected", None)
        \/ Goes(c, "working", channelInstance) /\ channelInstance # None
    BY <1>6, GoForm DEF Asserted
  <2>2. PassesTo(c, "rejected", None) \/ PassesTo(c, "working", channelInstance)
    BY <1>0, <1>6, <2>1 DEF PassesTo
  <2> QED
    BY <1>1, <1>2, <2>2 DEF Passes, Settled
<1>7. CASE Consumes(c)
  <2>1. CASE Channel(c)
    BY <1>1, <1>2, <1>3, <1>7, <2>1, ChannelPasses DEF Consumes, Works
  <2>2. CASE Go(c, "resolved", None) /\ UNCHANGED overlaps
    <3>1. Goes(c, "resolved", None)
      BY <2>2, GoForm
    <3>2. PassesTo(c, "resolved", None)
      BY <2>2, <3>1 DEF PassesTo
    <3> QED
      BY <1>1, <1>2, <3>2 DEF Passes, Settled
  <2> QED
    BY <1>7, <2>1, <2>2 DEF Consumes
<1>8. CASE Writes(c)
  <2>1. CASE Go(c, "resolved", None)
    <3>1. Goes(c, "resolved", None)
      BY <2>1, GoForm
    <3>2. PassesTo(c, "resolved", None)
      BY <1>0, <1>8, <3>1 DEF PassesTo
    <3> QED
      BY <1>1, <1>2, <3>2 DEF Passes, Settled
  <2>2. CASE UNCHANGED <<pc, on>>
    <3>1. Goes(c, "working", on[c])
      BY <1>8, <2>2 DEF Goes, Writes, Works
    <3>2. PassesTo(c, "working", on[c])
      BY <1>0, <1>3, <1>8, <3>1 DEF PassesTo, Writes, Works
    <3> QED
      BY <1>1, <1>2, <3>2 DEF Passes
  <2> QED
    BY <1>8, <2>1, <2>2 DEF Writes
<1> QED
  BY <1>4, <1>5, <1>6, <1>7, <1>8

LEMMA PassesLinks ==
  ASSUME TypeInv, LinksInv, closing = "idle", NEW c \in Calls, Passes(c)
  PROVE  LinksInv'
<1> USE DEF LinksInv
<1>p. PICK place \in {"dialing", "asserting", "working"} \cup Settled :
         \E k : PassesTo(c, place, k)
  BY DEF Passes
<1>0. PICK k : PassesTo(c, place, k)
  BY <1>p
<1>1. /\ Goes(c, place, k)
      /\ place = "dialing" => pc[c] = "idle" /\ progress'[c] = progress[c]
      /\ place = "asserting" => k = channelInstance /\ k # None
      /\ place = "working" => channelInstance # None
  BY <1>0 DEF PassesTo
<1>2. LinksKnown'
  BY DEF Passes, LinksKnown
<1>3. place \notin {"creating", "idle"}
  BY DEF Settled
<1>4. CreatingAlone'
  BY <1>1, <1>3 DEF Passes, Goes, CreatingAlone
<1>5. DialsFirst'
  BY <1>1, <1>3 DEF Passes, Goes, DialsFirst, Dialing
<1>6. FieldFilled'
  BY <1>1 DEF Passes, Goes, FieldFilled
<1> QED
  BY <1>2, <1>4, <1>5, <1>6

LEMMA DialsLinks ==
  ASSUME TypeInv, LinksInv, closing = "idle", NEW c \in Calls, Dials(c)
  PROVE  LinksInv'
<1> DEFINE new == dialled + 1
<1>1. /\ new \in Links /\ dialled \in Nat /\ dialled' = new /\ new > dialled
      /\ \A k \in Links : link'[k] = IF k = new THEN "connected" ELSE link[k]
      /\ channelInstance' = channelInstance /\ progress' = progress
  BY Bounds DEF Dials, Links, TypeInv, TypeOK
<1>2. Goes(c, "creating", new) /\ pc[c] = "dialing"
  BY GoForm DEF Dials
<1>a. LinksKnown /\ CreatingAlone /\ DialsFirst /\ FieldFilled
  BY DEF LinksInv
<1> HIDE DEF new
<1>3. link[new] = "none"
  BY <1>1, <1>a DEF LinksKnown
<1>4. LinksKnown'
  <2>1. \A k \in Links : k \in Nat
    BY DEF Links
  <2>2. ASSUME NEW k \in Links PROVE k > new => link'[k] = "none"
    <3>1. k > new => k > dialled /\ k # new
      BY <1>1, <2>1 DEF new
    <3>2. k > dialled => link[k] = "none"
      BY <1>a DEF LinksKnown
    <3> QED
      BY <1>1, <3>1, <3>2
  <2> QED
    BY <1>1, <1>a, <2>2 DEF LinksKnown
<1>5. \A d \in Calls : pc[d] = "creating" => on[d] \in Links /\ on[d] # new
  BY <1>3, <1>a DEF CreatingAlone, TypeInv, Placed, OnLink
<1>6. CreatingAlone'
  BY <1>1, <1>2, <1>5, <1>a DEF CreatingAlone, Goes
<1>7. DialsFirst'
  BY <1>1, <1>2, <1>a DEF DialsFirst, Dialing, Goes
<1>8. FieldFilled'
  BY <1>1, <1>2, <1>a DEF FieldFilled, Goes
<1> QED
  BY <1>4, <1>6, <1>7, <1>8 DEF LinksInv

LEMMA CreatesLinks ==
  ASSUME TypeInv, LinksInv, closing = "idle", NEW c \in Calls, Creates(c)
  PROVE  LinksInv'
<1> USE DEF LinksInv
<1>1. /\ on[c] \in Links /\ pc[c] = "creating" /\ link[on[c]] = "connected"
      /\ \A k \in Links : link'[k] = IF k = on[c] THEN "open" ELSE link[k]
      /\ channelInstance' = on[c] /\ on[c] # None
      /\ progress' = progress /\ dialled' = dialled
      /\ Goes(c, "asserting", on[c])
  BY GoForm, Bounds DEF Creates, TypeInv, TypeOK, Placed, OnLink
<1>2. LinksKnown'
  BY <1>1 DEF LinksKnown
<1>3. CreatingAlone'
  BY <1>1 DEF CreatingAlone, Goes, TypeInv, Placed, OnLink
<1>4. DialsFirst'
  BY <1>1 DEF DialsFirst, Dialing, Goes
<1>5. FieldFilled'
  BY <1>1 DEF FieldFilled
<1> QED
  BY <1>2, <1>3, <1>4, <1>5

\* What the loss of a channel does.
Breaks(k) ==
    /\ link[k] = "open"
    /\ \A j \in Links : link'[j] = IF j = k THEN "broken" ELSE link[j]
    /\ UNCHANGED <<on, progress, dialled, channelInstance, dialFailed>>
    /\ consuming' = {s \in consuming : s[1] # k}

LEMMA BreaksForm ==
  ASSUME TypeInv, NEW k \in Links, ChannelBreaks(k)
  PROVE  /\ Breaks(k)
         /\ \E n \in 1..2 :
              /\ BeginDials(n)
              /\ (reconnects + 1)..(reconnects + n) \subseteq Reconnects
              /\ \A c \in (reconnects + 1)..(reconnects + n) : pc[c] = "idle"
              /\ \A c \in Calls : pc'[c] = IF c \in (reconnects + 1)..(reconnects + n) THEN "dialing"
                                            ELSE pc[c]
<1>1. Breaks(k)
  BY DEF ChannelBreaks, ChannelEnds, Breaks, fields, TypeInv, TypeOK
<1>2. PICK n \in 1..2 : Reconnect(n)
  BY DEF ChannelBreaks
<1>3. /\ reconnects \in Nat /\ reconnects + n <= MaxReconnects
      /\ pc' = [c \in Calls |-> IF c \in (reconnects + 1)..(reconnects + n) THEN "dialing" ELSE pc[c]]
      /\ BeginDials(n)
  BY <1>2 DEF Reconnect, TypeInv, TypeOK
<1>4. (reconnects + 1)..(reconnects + n) \subseteq Reconnects
  BY <1>3, Bounds DEF Reconnects
<1>5. \A c \in (reconnects + 1)..(reconnects + n) : pc[c] = "idle"
  BY <1>3, <1>4 DEF TypeInv, Uncalled
<1> QED
  BY <1>1, <1>3, <1>4, <1>5

LEMMA BreaksLinks ==
  ASSUME TypeInv, LinksInv, closing = "idle", NEW k \in Links, ChannelBreaks(k)
  PROVE  LinksInv'
<1> USE DEF LinksInv
<1>1. Breaks(k)
  BY BreaksForm
<1>2. PICK new : /\ new \subseteq Reconnects /\ \A c \in new : pc[c] = "idle"
                 /\ \A c \in Calls : pc'[c] = IF c \in new THEN "dialing" ELSE pc[c]
  BY BreaksForm
<1>3. LinksKnown'
  BY <1>1 DEF Breaks, LinksKnown
<1>4. CreatingAlone'
  BY <1>1, <1>2 DEF Breaks, CreatingAlone, TypeInv, Placed, OnLink
<1>5. DialsFirst'
  BY <1>1, <1>2 DEF Breaks, DialsFirst, Dialing
<1>6. FieldFilled'
  BY <1>1, <1>2 DEF Breaks, FieldFilled
<1> QED
  BY <1>3, <1>4, <1>5, <1>6

LEMMA NextLinks == TypeInv /\ LinksInv /\ [Next]_vars => LinksInv'
<1> SUFFICES ASSUME TypeInv, LinksInv, [Next]_vars, closing' = "idle" PROVE LinksInv'
  BY DEF LinksInv
<1>1. closing = "idle"
  BY ClosingForm
<1>2. CASE UNCHANGED vars
  BY <1>2 DEF vars, callVars, outerVars, fields, LinksInv, LinksKnown, CreatingAlone, DialsFirst,
     FieldFilled
<1>3. ASSUME NEW c \in Calls, Begin(c) \/ DialFails(c) \/ CallStep(c) PROVE LinksInv'
  BY <1>1, <1>3, MostPass, PassesLinks, DialsLinks, CreatesLinks DEF CallStep
<1>4. ASSUME NEW k \in Links, ChannelBreaks(k) PROVE LinksInv'
  BY <1>1, <1>4, BreaksLinks
<1> QED
  BY <1>2, <1>3, <1>4, ClosingForm

(***************************************************************************)
(* One channel, unless two dials overlap.                                   *)
(***************************************************************************)
\* While a call dials no channel is open, and no other call dials.
OneDial ==
    closing = "idle" /\ overlaps = 0 =>
        /\ \A c, d \in Calls : pc[c] \in Dialing /\ pc[d] \in Dialing => c = d
        /\ \A k \in Links : link[k] = "open" => channelInstance = k /\ ~DialUnderWay

LEMMA InitOneDial == Init => OneDial
  BY DEF Init, OneDial, Dialing

LEMMA NextOneDial == TypeInv /\ LinksInv /\ OneDial /\ [Next]_vars => OneDial'
<1> SUFFICES ASSUME TypeInv, LinksInv, OneDial, [Next]_vars, closing' = "idle", overlaps' = 0
             PROVE  OneDial'
  BY DEF OneDial
<1> DEFINE Single == /\ \A c, d \in Calls : pc[c] \in Dialing /\ pc[d] \in Dialing => c = d
                     /\ \A k \in Links : link[k] = "open" => channelInstance = k /\ ~DialUnderWay
<1>1. closing = "idle"
  BY ClosingForm
<1>2. CASE UNCHANGED vars
  BY <1>2 DEF vars, callVars, outerVars, fields, OneDial, DialUnderWay
<1>3. ASSUME NEW c \in Calls, Passes(c) PROVE OneDial'
  <2>p. PICK place \in {"dialing", "asserting", "working"} \cup Settled :
           \E k : PassesTo(c, place, k)
    BY <1>3 DEF Passes
  <2>0. PICK k : PassesTo(c, place, k)
    BY <2>p
  <2>1. /\ Goes(c, place, k)
        /\ place = "dialing" => /\ channelInstance = None
                                /\ BeginDials(1)
        /\ place # "dialing" => overlaps' = overlaps
    BY <2>0, Zenon DEF PassesTo
  <2>2. UNCHANGED <<link, channelInstance>>
    BY <1>3 DEF Passes
  <2>3. CASE place = "dialing"
    <3>1. ~DialUnderWay
      <4>1. overlaps \in Nat
        BY DEF TypeInv, TypeOK
      <4> QED
        BY <2>1, <2>3, <4>1 DEF BeginDials
    <3>2. \A d \in Calls : pc'[d] \in Dialing => d = c
      BY <2>1, <3>1 DEF Goes, DialUnderWay
    <3>3. \A j \in Links : link'[j] # "open"
      BY <1>1, <2>1, <2>2, <2>3 DEF LinksInv, FieldFilled
    <3> QED
      BY <3>2, <3>3 DEF OneDial
  <2>4. CASE place # "dialing"
    <3>1. place \notin Dialing
      BY <2>4 DEF Dialing, Settled
    <3>2. \A d \in Calls : pc'[d] \in Dialing => pc[d] \in Dialing
      BY <2>1, <3>1 DEF Goes
    <3>3. overlaps = 0
      BY <2>1, <2>4
    <3> QED
      BY <1>1, <2>2, <3>2, <3>3 DEF OneDial, DialUnderWay
  <2> QED
    BY <2>3, <2>4
<1>4. ASSUME NEW c \in Calls, Dials(c) PROVE OneDial'
  <2>1. Goes(c, "creating", dialled + 1) /\ pc[c] = "dialing" /\ overlaps = 0
    BY <1>4, GoForm DEF Dials
  <2>2. \A k \in Links : link'[k] = "open" => link[k] = "open"
    BY <1>4 DEF Dials, TypeInv, TypeOK
  <2>3. Single
    BY <1>1, <2>1 DEF OneDial
  <2>4. DialUnderWay
    BY <2>1 DEF DialUnderWay, Dialing
  <2> QED
    BY <2>1, <2>2, <2>3, <2>4 DEF OneDial, Goes, Dialing
<1>5. ASSUME NEW c \in Calls, Creates(c) PROVE OneDial'
  <2>1. /\ on[c] \in Links /\ pc[c] = "creating" /\ overlaps = 0
        /\ \A k \in Links : link'[k] = IF k = on[c] THEN "open" ELSE link[k]
        /\ channelInstance' = on[c]
        /\ Goes(c, "asserting", on[c])
    BY <1>5, GoForm DEF Creates, TypeInv, TypeOK, Placed, OnLink
  <2>2. Single
    BY <1>1, <2>1 DEF OneDial
  <2>3. DialUnderWay
    BY <2>1 DEF DialUnderWay, Dialing
  <2>4. ~DialUnderWay'
    BY <2>1, <2>2 DEF DialUnderWay, Dialing, Goes
  <2> QED
    BY <2>1, <2>2, <2>3, <2>4 DEF OneDial, DialUnderWay
<1>6. ASSUME NEW k \in Links, ChannelBreaks(k) PROVE OneDial'
  <2>1. Breaks(k)
    BY <1>6, BreaksForm
  <2>2. PICK n \in 1..2 :
              /\ BeginDials(n)
              /\ \A c \in Calls : pc'[c] = IF c \in (reconnects + 1)..(reconnects + n) THEN "dialing"
                                            ELSE pc[c]
    BY <1>6, BreaksForm
  <2>3. n = 1 /\ overlaps = 0 /\ ~DialUnderWay
    <3>1. overlaps \in Nat
      BY DEF TypeInv, TypeOK
    <3> QED
      BY <2>2, <3>1 DEF BeginDials
  <2>4. Single /\ reconnects \in Nat
    BY <1>1, <2>3 DEF OneDial, TypeInv, TypeOK
  <2>5. \A c \in Calls : pc'[c] \in Dialing => c = reconnects + 1
    <3>1. (reconnects + 1)..(reconnects + 1) = {reconnects + 1}
      BY <2>4
    <3> QED
      BY <2>2, <2>3, <3>1 DEF DialUnderWay
  <2>6. \A j \in Links : link'[j] # "open"
    BY <2>1, <2>4 DEF Breaks
  <2> QED
    BY <2>5, <2>6 DEF OneDial
<1> QED
  BY <1>1, <1>2, <1>3, <1>4, <1>5, <1>6, ClosingForm, MostPass DEF CallStep

\* How many elements a set has when some come or go.
LEMMA NoLarger ==
  ASSUME NEW S, IsFiniteSet(S), NEW T, T \subseteq S
  PROVE  /\ IsFiniteSet(T) /\ Cardinality(T) \in Nat /\ Cardinality(S) \in Nat
         /\ Cardinality(T) <= Cardinality(S)
  BY FS_Subset, FS_CardinalityType

LEMMA OneLess ==
  ASSUME NEW S, IsFiniteSet(S), NEW x \in S, NEW T, T \subseteq S \ {x}
  PROVE  /\ IsFiniteSet(T) /\ Cardinality(T) \in Nat /\ Cardinality(S) \in Nat
         /\ Cardinality(T) <= Cardinality(S) - 1
<1>1. IsFiniteSet(S \ {x}) /\ Cardinality(S \ {x}) = Cardinality(S) - 1
  BY FS_RemoveElement
<1> QED
  BY <1>1, NoLarger, FS_CardinalityType

LEMMA SomeMore ==
  ASSUME NEW S, IsFiniteSet(S), NEW I, IsFiniteSet(I), NEW T, T \subseteq S \cup I
  PROVE  /\ IsFiniteSet(T) /\ Cardinality(T) \in Nat /\ Cardinality(S) \in Nat
         /\ Cardinality(T) <= Cardinality(S) + Cardinality(I)
<1>1. /\ IsFiniteSet(S \cup I)
      /\ Cardinality(S \cup I) = Cardinality(S) + Cardinality(I) - Cardinality(S \cap I)
  BY FS_Union
<1>2. Cardinality(S) \in Nat /\ Cardinality(I) \in Nat /\ Cardinality(S \cap I) \in Nat
  <2>1. S \cap I \subseteq S
    OBVIOUS
  <2> QED
    BY <2>1, NoLarger, FS_CardinalityType
<1>3. IsFiniteSet(T) /\ Cardinality(T) \in Nat /\ Cardinality(T) <= Cardinality(S \cup I)
  BY <1>1, NoLarger
<1> QED
  BY <1>1, <1>2, <1>3

Opens == {k \in Links : link[k] = "open"}
Dialers == {c \in Calls : pc[c] \in Dialing}

Counted == /\ IsFiniteSet(Opens) /\ IsFiniteSet(Dialers)
           /\ Cardinality(Opens) + Cardinality(Dialers) <= 1 + overlaps

CountInv == closing = "idle" => Counted

LEMMA InitCount == Init => CountInv
<1> SUFFICES ASSUME Init PROVE Counted
  BY DEF CountInv
<1>1. Opens = {} /\ Dialers = {}
  BY DEF Init, Opens, Dialers, Dialing
<1>2. overlaps = 0
  BY DEF Init
<1> QED
  BY <1>1, <1>2, FS_EmptySet DEF Counted

\* The numbers before a step.
LEMMA CountFacts ==
  ASSUME TypeInv, Counted
  PROVE  /\ IsFiniteSet(Opens) /\ Cardinality(Opens) \in Nat
         /\ IsFiniteSet(Dialers) /\ Cardinality(Dialers) \in Nat
         /\ Cardinality(Opens) + Cardinality(Dialers) <= 1 + overlaps
         /\ overlaps \in Nat
  BY FS_CardinalityType DEF Counted, TypeInv, TypeOK

LEMMA PassesCount ==
  ASSUME TypeInv, LinksInv, closing = "idle", Counted, NEW c \in Calls, Passes(c)
  PROVE  Counted'
<1>p. PICK place \in {"dialing", "asserting", "working"} \cup Settled :
         \E k : PassesTo(c, place, k)
  BY DEF Passes
<1>0. PICK k : PassesTo(c, place, k)
  BY <1>p
<1>1. /\ \A d \in Calls \ {c} : pc'[d] = pc[d]
      /\ pc'[c] = place
      /\ place = "dialing" => channelInstance = None /\ BeginDials(1)
      /\ place # "dialing" => overlaps' = overlaps
  BY <1>0, Zenon DEF PassesTo, Goes
<1>2. Opens' = Opens
  BY DEF Passes, Opens
<1>3. CASE place = "dialing"
  <2>1. Opens = {} /\ Opens' = {}
    BY <1>1, <1>2, <1>3 DEF LinksInv, FieldFilled, Opens
  <2>2. Dialers' \subseteq Dialers \cup {c}
    BY <1>1 DEF Dialers
  <2>3. IsFiniteSet({c}) /\ Cardinality({c}) = 1
    BY FS_Singleton
  <2>4. /\ IsFiniteSet(Dialers') /\ Cardinality(Dialers') \in Nat
        /\ Cardinality(Dialers') <= Cardinality(Dialers) + 1
    BY <2>2, <2>3, CountFacts, SomeMore
  <2>5. ~DialUnderWay => Cardinality(Dialers) = 0
    <3>1. ~DialUnderWay => Dialers = {}
      BY DEF DialUnderWay, Dialers
    <3> QED
      BY <3>1, FS_EmptySet
  <2>6. IsFiniteSet(Opens') /\ Cardinality(Opens') = 0 /\ Cardinality(Opens) = 0
    BY <2>1, FS_EmptySet
  <2>7. overlaps' = overlaps + (IF DialUnderWay THEN 1 ELSE 0)
    BY <1>1, <1>3 DEF BeginDials
  <2> QED
    BY <2>4, <2>5, <2>6, <2>7, CountFacts DEF Counted
<1>4. CASE place # "dialing"
  <2>1. place \notin Dialing
    BY <1>4 DEF Dialing, Settled
  <2>2. Dialers' \subseteq Dialers
    BY <1>1, <2>1 DEF Dialers
  <2>3. IsFiniteSet(Dialers') /\ Cardinality(Dialers') <= Cardinality(Dialers) /\ Cardinality(Dialers') \in Nat
    BY <2>2, CountFacts, NoLarger
  <2> QED
    BY <1>1, <1>2, <1>4, <2>3, CountFacts DEF Counted
<1> QED
  BY <1>3, <1>4

LEMMA DialsCount ==
  ASSUME TypeInv, Counted, NEW c \in Calls, Dials(c)
  PROVE  Counted'
<1>1. Goes(c, "creating", dialled + 1) /\ pc[c] = "dialing" /\ overlaps' = overlaps
  BY GoForm DEF Dials
<1>2. Opens' \subseteq Opens
  BY DEF Dials, Opens, TypeInv, TypeOK
<1>3. Dialers' \subseteq Dialers
  BY <1>1 DEF Dialers, Goes, Dialing
<1>4. IsFiniteSet(Opens') /\ Cardinality(Opens') \in Nat /\ Cardinality(Opens') <= Cardinality(Opens)
  BY <1>2, CountFacts, NoLarger
<1>5. IsFiniteSet(Dialers') /\ Cardinality(Dialers') \in Nat /\ Cardinality(Dialers') <= Cardinality(Dialers)
  BY <1>3, CountFacts, NoLarger
<1> QED
  BY <1>1, <1>4, <1>5, CountFacts DEF Counted

LEMMA CreatesCount ==
  ASSUME TypeInv, Counted, NEW c \in Calls, Creates(c)
  PROVE  Counted'
<1>1. Goes(c, "asserting", on[c]) /\ pc[c] = "creating" /\ overlaps' = overlaps
  BY GoForm DEF Creates
<1>2. Opens' \subseteq Opens \cup {on[c]}
  BY DEF Creates, Opens, TypeInv, TypeOK
<1>3. c \in Dialers /\ Dialers' \subseteq Dialers \ {c}
  BY <1>1 DEF Dialers, Goes, Dialing
<1>4. IsFiniteSet({on[c]}) /\ Cardinality({on[c]}) = 1
  BY FS_Singleton
<1>5. IsFiniteSet(Opens') /\ Cardinality(Opens') \in Nat /\ Cardinality(Opens') <= Cardinality(Opens) + 1
  BY <1>2, <1>4, CountFacts, SomeMore
<1>6. IsFiniteSet(Dialers') /\ Cardinality(Dialers') \in Nat /\ Cardinality(Dialers') <= Cardinality(Dialers) - 1
  BY <1>3, CountFacts, OneLess
<1> QED
  BY <1>1, <1>5, <1>6, CountFacts DEF Counted

LEMMA BreaksCount ==
  ASSUME TypeInv, Counted, NEW k \in Links, ChannelBreaks(k)
  PROVE  Counted'
<1>1. Breaks(k)
  BY BreaksForm
<1>2. PICK n \in 1..2 :
         /\ BeginDials(n)
         /\ \A c \in Calls : pc'[c] = IF c \in (reconnects + 1)..(reconnects + n) THEN "dialing"
                                       ELSE pc[c]
  BY BreaksForm
<1> DEFINE new == (reconnects + 1)..(reconnects + n)
<1>3. IsFiniteSet(new) /\ Cardinality(new) = n
  BY FS_Interval DEF TypeInv, TypeOK
<1> HIDE DEF new
<1>4. k \in Opens /\ Opens' \subseteq Opens \ {k}
  BY <1>1 DEF Breaks, Opens
<1>5. Dialers' \subseteq Dialers \cup new
  BY <1>2 DEF Dialers, new
<1>6. IsFiniteSet(Opens') /\ Cardinality(Opens') \in Nat /\ Cardinality(Opens') <= Cardinality(Opens) - 1
  BY <1>4, CountFacts, OneLess
<1>7. IsFiniteSet(Dialers') /\ Cardinality(Dialers') \in Nat /\ Cardinality(Dialers') <= Cardinality(Dialers) + n
  BY <1>3, <1>5, CountFacts, SomeMore
<1>8. overlaps' \in Nat /\ overlaps + n <= 1 + overlaps'
  <2>1. overlaps \in Nat
    BY CountFacts
  <2> QED
    BY <1>2, <2>1 DEF BeginDials
<1> QED
  BY <1>6, <1>7, <1>8, CountFacts DEF Counted

LEMMA NextCount == TypeInv /\ LinksInv /\ CountInv /\ [Next]_vars => CountInv'
<1> SUFFICES ASSUME TypeInv, LinksInv, CountInv, [Next]_vars, closing' = "idle"
             PROVE  Counted'
  BY DEF CountInv
<1>1. closing = "idle" /\ Counted
  BY ClosingForm DEF CountInv
<1>2. CASE UNCHANGED vars
  BY <1>1, <1>2 DEF vars, callVars, outerVars, Counted, Opens, Dialers
<1>3. ASSUME NEW c \in Calls, Begin(c) \/ DialFails(c) \/ CallStep(c) PROVE Counted'
  BY <1>1, <1>3, MostPass, PassesCount, DialsCount, CreatesCount DEF CallStep
<1>4. ASSUME NEW k \in Links, ChannelBreaks(k) PROVE Counted'
  BY <1>1, <1>4, BreaksCount
<1> QED
  BY <1>2, <1>3, <1>4, ClosingForm

\* Until close() is called, a dial that overlaps another leaves at most one
\* channel too many open, and nothing else leaves one.
THEOREM OrphansNeedOverlapHolds == Spec => []OrphansNeedOverlap
<1>1. CountInv /\ OneDial => OrphansNeedOverlap
  <2> SUFFICES ASSUME CountInv, OneDial, closing = "idle"
               PROVE  /\ Cardinality(Opens) + Cardinality(Dialers) <= 1 + overlaps
                      /\ overlaps = 0 => \A k \in Links : link[k] = "open" => channelInstance = k
    BY DEF OrphansNeedOverlap, Opens, Dialers
  <2>1. Cardinality(Opens) + Cardinality(Dialers) <= 1 + overlaps
    BY DEF CountInv, Counted
  <2>2. overlaps = 0 => \A k \in Links : link[k] = "open" => channelInstance = k
    BY DEF OneDial
  <2> QED
    BY <2>1, <2>2
<1> QED
  BY <1>1, InitType, NextType, InitLinks, NextLinks, InitOneDial, NextOneDial,
     InitCount, NextCount, PTL DEF Spec

(***************************************************************************)
(* Every consumer, on some open channel.                                    *)
(***************************************************************************)
\* A call that will come to the i-th consumer unless it fails, which it only does
\* where another one begins.
Carries(c, i) ==
    /\ progress[c] < i
    /\ \/ pc[c] \in Dialing
       \/ pc[c] \in {"asserting", "working"} /\ link[on[c]] = "open"

Consumed(i) == \E k \in Links : link[k] = "open" /\ <<k, i>> \in consuming

FreshDial == \E c \in Loops : pc[c] \in Dialing

ResumeInv ==
    closing = "idle" /\ ~dialFailed =>
        /\ channelInstance # None /\ link[channelInstance] # "open" => FreshDial
        /\ pc[Startup] # "idle" =>
              \A i \in 1..Consumers : Consumed(i) \/ \E c \in Loops : Carries(c, i)

LEMMA InitResume == Init => ResumeInv
  BY CallFacts DEF Init, ResumeInv, Loops

LEMMA ResumeSuffices == TypeInv /\ LinksInv /\ ResumeInv => ConsumersResume
<1> SUFFICES ASSUME TypeInv, LinksInv, ResumeInv, AtRest, pc[Startup] # "idle",
                    ~dialFailed, closing = "idle"
             PROVE  /\ channelInstance # None
                    /\ link[channelInstance] = "open"
                    /\ \A i \in 1..Consumers : Consumed(i)
  BY DEF ConsumersResume, Consumed
<1>1. \A c \in Calls : pc[c] \notin Dialing \cup {"asserting", "working"}
  BY DEF AtRest, Dialing, Settled
<1>2. \A i \in 1..Consumers : Consumed(i)
  BY <1>1, CallFacts DEF ResumeInv, Carries
<1>3. 1 \in 1..Consumers
  BY Bounds
<1>4. channelInstance # None
  BY <1>2, <1>3 DEF Consumed, LinksInv, FieldFilled
<1>5. link[channelInstance] = "open"
  BY <1>1, <1>4, CallFacts DEF ResumeInv, FreshDial
<1> QED
  BY <1>2, <1>4, <1>5

\* A fresh dial carries every consumer.
LEMMA FreshCarries ==
  ASSUME LinksInv', closing' = "idle", FreshDial', NEW i \in 1..Consumers
  PROVE  \E c \in Loops : Carries(c, i)'
<1>1. PICK c \in Loops : pc'[c] \in Dialing
  BY DEF FreshDial
<1>2. progress'[c] = 0
  BY <1>1, CallFacts DEF LinksInv, DialsFirst
<1>3. Carries(c, i)'
  BY <1>1, <1>2 DEF Carries
<1> QED
  BY <1>3

\* A step of one call keeps what the others carry, if every channel stays open:
\* what it carried itself it has to account for.
LEMMA OneMoves ==
  ASSUME TypeInv, LinksInv', ResumeInv, closing = "idle", closing' = "idle", ~dialFailed,
         NEW c \in Calls,
         \A d \in Calls \ {c} : pc'[d] = pc[d] /\ on'[d] = on[d] /\ progress'[d] = progress[d],
         \A k \in Links : link[k] = "open" => link'[k] = "open",
         consuming \subseteq consuming',
         \/ channelInstance' = channelInstance /\ (FreshDial => FreshDial')
         \/ link'[channelInstance'] = "open",
         \A i \in 1..Consumers :
            c \in Loops /\ Carries(c, i) => FreshDial' \/ Consumed(i)' \/ Carries(c, i)',
         \A i \in 1..Consumers :
            c = Startup /\ pc[c] = "idle" => FreshDial' \/ Carries(c, i)'
  PROVE  ResumeInv'
<1>1. channelInstance' # None /\ link'[channelInstance'] # "open" => FreshDial'
  BY DEF ResumeInv, TypeInv, TypeOK
<1>2. ASSUME pc'[Startup] # "idle", NEW i \in 1..Consumers
      PROVE  Consumed(i)' \/ \E d \in Loops : Carries(d, i)'
  <2>1. CASE FreshDial'
    BY <2>1, FreshCarries
  <2>2. CASE ~FreshDial' /\ pc[Startup] = "idle"
    <3>1. c = Startup
      BY <1>2, <2>2, CallFacts
    <3> QED
      BY <2>2, <3>1, CallFacts
  <2>3. CASE ~FreshDial' /\ pc[Startup] # "idle"
    <3>1. Consumed(i) => Consumed(i)'
      BY DEF Consumed
    <3>2. ASSUME NEW d \in Loops, Carries(d, i), d # c PROVE Carries(d, i)'
      <4>1. d \in Calls \ {c} /\ (pc[d] \in OnLink => on[d] \in Links)
        BY <3>2, CallFacts DEF TypeInv, Placed
      <4> QED
        BY <3>2, <4>1 DEF Carries, OnLink
    <3>3. Consumed(i) \/ \E d \in Loops : Carries(d, i)
      BY <2>3 DEF ResumeInv
    <3> QED
      BY <2>3, <3>1, <3>2, <3>3
  <2> QED
    BY <2>1, <2>2, <2>3
<1> QED
  BY <1>1, <1>2 DEF ResumeInv

\* channel() gives a call a channel that is open, or some listener dials.
LEMMA ChannelCarries ==
  ASSUME TypeInv, ResumeInv, closing = "idle", ~dialFailed,
         NEW c \in Calls, Channel(c), link' = link, channelInstance # None
  PROVE  \/ pc'[c] = "asserting" /\ link'[on'[c]] = "open"
         \/ FreshDial /\ \A d \in Calls \ {c} : pc'[d] = pc[d]
<1>1. CASE link[channelInstance] = "open"
  <2>1. Goes(c, "asserting", channelInstance)
    BY <1>1, GoForm DEF Channel
  <2> QED
    BY <1>1, <2>1 DEF Goes
<1>2. CASE link[channelInstance] # "open"
  <2>1. Goes(c, "rejected", None)
    BY <1>2, GoForm DEF Channel
  <2>2. FreshDial
    BY <1>2 DEF ResumeInv
  <2> QED
    BY <2>1, <2>2 DEF Goes
<1> QED
  BY <1>1, <1>2

\* Nobody else's dial ends.
LEMMA DialStays ==
  ASSUME NEW c \in Calls, pc[c] \notin Dialing, FreshDial,
         \A d \in Calls \ {c} : pc'[d] = pc[d]
  PROVE  FreshDial'
<1>1. PICK d \in Loops : pc[d] \in Dialing
  BY DEF FreshDial
<1>2. d \in Calls \ {c}
  BY <1>1, CallFacts
<1> QED
  BY <1>1, <1>2 DEF FreshDial

\* Startup begins: it carries every consumer, or a dial does.
LEMMA BeginResume ==
  ASSUME TypeInv, LinksInv, LinksInv', ResumeInv, closing = "idle", closing' = "idle", ~dialFailed,
         NEW c \in Calls, Begin(c)
  PROVE  ResumeInv'
<1>1. /\ pc[c] = "idle" /\ progress' = progress /\ link' = link /\ consuming' = consuming
      /\ channelInstance' = channelInstance /\ Channel(c)
  BY DEF Begin, outerVars, fields
<1>2. \A d \in Calls \ {c} : pc'[d] = pc[d] /\ on'[d] = on[d]
  BY <1>1 DEF Channel, Go, TypeInv, TypeOK
<1>3. progress[c] = 0
  BY <1>1 DEF LinksInv, DialsFirst
<1>4. FreshDial => FreshDial'
  BY <1>1, <1>2, DialStays DEF Dialing
<1>5. ASSUME NEW i \in 1..Consumers, c = Startup PROVE FreshDial' \/ Carries(c, i)'
  <2>1. CASE channelInstance = None
    <3>1. pc'[c] = "dialing"
      BY <1>1, <2>1 DEF Channel, Go, TypeInv, TypeOK
    <3> QED
      BY <1>5, <3>1, CallFacts DEF FreshDial, Dialing
  <2>2. CASE channelInstance # None
    <3>1. \/ pc'[c] = "asserting" /\ link'[on'[c]] = "open"
          \/ FreshDial
      BY <1>1, <2>2, ChannelCarries
    <3>2. progress'[c] < i
      BY <1>1, <1>3
    <3> QED
      BY <1>4, <3>1, <3>2 DEF Carries
  <2> QED
    BY <2>1, <2>2
<1>6. \A i \in 1..Consumers : ~Carries(c, i)
  BY <1>1 DEF Carries, Dialing
<1> QED
  BY <1>1, <1>2, <1>4, <1>5, <1>6, OneMoves

\* A dial goes on.
LEMMA DialResume ==
  ASSUME TypeInv, LinksInv, LinksInv', ResumeInv, closing = "idle", closing' = "idle", ~dialFailed,
         NEW c \in Calls, Dials(c) \/ Creates(c)
  PROVE  ResumeInv'
<1>1. CASE Dials(c)
  <2>1. /\ dialled \in Nat /\ dialled + 1 \in Links /\ pc[c] = "dialing"
        /\ \A k \in Links : link'[k] = IF k = dialled + 1 THEN "connected" ELSE link[k]
        /\ progress' = progress /\ consuming' = consuming /\ channelInstance' = channelInstance
        /\ Goes(c, "creating", dialled + 1)
    BY <1>1, Bounds, GoForm DEF Dials, Links, TypeInv, TypeOK
  <2>2. link[dialled + 1] = "none"
    <3>1. LinksKnown
      BY DEF LinksInv
    <3> QED
      BY <2>1, <3>1 DEF LinksKnown
  <2>3. \A k \in Links : link[k] = "open" => link'[k] = "open"
    BY <2>1, <2>2
  <2>4. FreshDial => FreshDial'
    BY <2>1, CallFacts DEF FreshDial, Goes, Dialing
  <2>5. \A i \in 1..Consumers : Carries(c, i) => Carries(c, i)'
    BY <2>1 DEF Carries, Goes, Dialing
  <2>6. \A d \in Calls \ {c} : pc'[d] = pc[d] /\ on'[d] = on[d] /\ progress'[d] = progress[d]
    BY <2>1 DEF Goes
  <2> QED
    BY <2>1, <2>3, <2>4, <2>5, <2>6, OneMoves
<1>2. CASE Creates(c)
  <2>1. /\ on[c] \in Links /\ pc[c] = "creating"
        /\ \A k \in Links : link'[k] = IF k = on[c] THEN "open" ELSE link[k]
        /\ progress' = progress /\ consuming' = consuming /\ channelInstance' = on[c]
        /\ Goes(c, "asserting", on[c])
    BY <1>2, GoForm DEF Creates, TypeInv, TypeOK, Placed, OnLink
  <2>2. \A k \in Links : link[k] = "open" => link'[k] = "open"
    BY <2>1
  <2>3. link'[channelInstance'] = "open"
    BY <2>1
  <2>4. \A i \in 1..Consumers : Carries(c, i) => Carries(c, i)'
    BY <2>1 DEF Carries, Goes
  <2>5. \A d \in Calls \ {c} : pc'[d] = pc[d] /\ on'[d] = on[d] /\ progress'[d] = progress[d]
    BY <2>1 DEF Goes
  <2> QED
    BY <2>1, <2>2, <2>3, <2>4, <2>5, OneMoves
<1> QED
  BY <1>1, <1>2

\* Nothing that carries a consumer fails, and a call that asserted the exchange
\* works on the channel of the field, or a dial takes over.
LEMMA AnswerResume ==
  ASSUME TypeInv, LinksInv, LinksInv', ResumeInv, closing = "idle", closing' = "idle", ~dialFailed,
         NEW c \in Calls, Fails(c) \/ Asserted(c) \/ Writes(c) \/ HookFails(c)
  PROVE  ResumeInv'
<1>1. /\ link' = link /\ consuming' = consuming /\ channelInstance' = channelInstance
      /\ pc[c] # "idle"
      /\ \A d \in Calls \ {c} : progress'[d] = progress[d]
  BY DEF Fails, Asserted, Writes, HookFails, Works, Advance, outerVars, fields, TypeInv, TypeOK
<1>2. \A d \in Calls \ {c} : pc'[d] = pc[d] /\ on'[d] = on[d]
  BY DEF Fails, Asserted, Writes, HookFails, Go, TypeInv, TypeOK
<1>3. pc[c] \notin Dialing
  <2>1. pc[c] = "creating" => link[on[c]] = "connected"
    BY DEF LinksInv, CreatingAlone
  <2> QED
    BY <2>1 DEF Fails, Asserted, Writes, HookFails, Works, Dialing
<1>4. FreshDial => FreshDial'
  BY <1>2, <1>3, DialStays
<1>5. ASSUME NEW i \in 1..Consumers, c \in Loops, Carries(c, i)
      PROVE  FreshDial' \/ Carries(c, i)'
  <2>1. pc[c] \in {"asserting", "working"} /\ link[on[c]] = "open" /\ c \notin Publishes
    BY <1>3, <1>5 DEF Carries, Loops
  <2>2. Asserted(c)
    BY <2>1 DEF Fails, Writes, HookFails
  <2>3. channelInstance # None
    BY <2>1 DEF LinksInv, FieldFilled
  <2>4. Goes(c, "working", channelInstance) /\ progress' = progress
    BY <2>2, <2>3, GoForm DEF Asserted
  <2>5. link[channelInstance] = "open" => Carries(c, i)'
    BY <1>1, <1>5, <2>4 DEF Carries, Goes
  <2>6. link[channelInstance] # "open" => FreshDial
    BY <2>3 DEF ResumeInv
  <2> QED
    BY <1>4, <2>5, <2>6
<1> QED
  BY <1>1, <1>2, <1>4, <1>5, OneMoves

\* The next consumer is consumed, and those after it are still to come.
LEMMA ConsumesResume ==
  ASSUME TypeInv, LinksInv, LinksInv', ResumeInv, closing = "idle", closing' = "idle", ~dialFailed,
         NEW c \in Calls, Consumes(c)
  PROVE  ResumeInv'
<1>1. /\ link' = link /\ channelInstance' = channelInstance
      /\ consuming' = consuming \cup {<<on[c], progress[c] + 1>>}
      /\ pc[c] = "working" /\ on[c] \in Links /\ link[on[c]] = "open"
      /\ progress[c] \in Nat /\ progress'[c] = progress[c] + 1
      /\ \A d \in Calls \ {c} : progress'[d] = progress[d]
  BY Bounds DEF Consumes, Works, Advance, fields, TypeInv, TypeOK, Placed, OnLink
<1>2. \A d \in Calls \ {c} : pc'[d] = pc[d] /\ on'[d] = on[d]
  BY DEF Consumes, Channel, Go, TypeInv, TypeOK
<1>3. FreshDial => FreshDial'
  BY <1>1, <1>2, DialStays DEF Dialing
<1>4. channelInstance # None
  BY <1>1 DEF LinksInv, FieldFilled
<1>5. ASSUME NEW i \in 1..Consumers, Carries(c, i)
      PROVE  FreshDial' \/ Consumed(i)' \/ Carries(c, i)'
  <2>1. progress[c] < i /\ i \in Nat /\ i <= Consumers /\ Consumers \in Nat
    BY <1>5, Bounds DEF Carries
  <2>2. CASE i = progress[c] + 1
    BY <1>1, <2>2 DEF Consumed
  <2>3. CASE i # progress[c] + 1
    <3>1. progress[c] + 1 < i /\ progress[c] + 1 < Consumers
      BY <1>1, <2>1, <2>3
    <3>2. Channel(c)
      BY <3>1 DEF Consumes
    <3>3. \/ pc'[c] = "asserting" /\ link'[on'[c]] = "open"
          \/ FreshDial
      BY <1>1, <1>4, <3>2, ChannelCarries
    <3> QED
      BY <1>1, <1>3, <3>1, <3>3 DEF Carries
  <2> QED
    BY <2>2, <2>3
<1>6. consuming \subseteq consuming'
  BY <1>1
<1> QED
  BY <1>1, <1>2, <1>3, <1>5, <1>6, OneMoves

\* A channel breaks: its listeners dial.
LEMMA BreaksResume ==
  ASSUME TypeInv, LinksInv', closing' = "idle", NEW k \in Links, ChannelBreaks(k)
  PROVE  ResumeInv'
<1>1. PICK n \in 1..2 :
         /\ (reconnects + 1)..(reconnects + n) \subseteq Reconnects
         /\ \A c \in Calls : pc'[c] = IF c \in (reconnects + 1)..(reconnects + n) THEN "dialing"
                                       ELSE pc[c]
  BY BreaksForm
<1>2. reconnects + 1 \in (reconnects + 1)..(reconnects + n)
  BY DEF TypeInv, TypeOK
<1>3. reconnects + 1 \in Loops /\ pc'[reconnects + 1] = "dialing"
  BY <1>1, <1>2, CallFacts
<1>4. FreshDial'
  BY <1>3 DEF FreshDial, Dialing
<1> QED
  BY <1>4, FreshCarries DEF ResumeInv

LEMMA NextResume == TypeInv /\ LinksInv /\ ResumeInv /\ [Next]_vars => ResumeInv'
<1> SUFFICES ASSUME TypeInv, LinksInv, ResumeInv, [Next]_vars, closing' = "idle", ~dialFailed'
             PROVE  ResumeInv'
  BY DEF ResumeInv
<1>1. closing = "idle"
  BY ClosingForm
<1>2. LinksInv'
  BY NextLinks
<1>3. CASE UNCHANGED vars
  BY <1>3 DEF vars, callVars, outerVars, fields, ResumeInv, FreshDial, Consumed, Carries
<1>4. ASSUME NEW c \in Calls, Begin(c) \/ DialFails(c) \/ CallStep(c) PROVE ResumeInv'
  <2>1. ~DialFails(c)
    BY DEF DialFails
  <2>2. ~dialFailed
    BY <1>4, <2>1 DEF Begin, CallStep, Dials, Creates, Fails, Asserted, Consumes, Writes,
       HookFails, outerVars
  <2> QED
    BY <1>1, <1>2, <1>4, <2>1, <2>2, BeginResume, DialResume, AnswerResume, ConsumesResume
       DEF CallStep
<1>5. ASSUME NEW k \in Links, ChannelBreaks(k) PROVE ResumeInv'
  BY <1>2, <1>5, BreaksResume
<1> QED
  BY <1>3, <1>4, <1>5, ClosingForm

\* At rest, unless a dial failed or close() was called, the adapter holds an open
\* channel and every consumer is consumed on some open one.
THEOREM ConsumersResumeHolds == Spec => []ConsumersResume
  BY InitType, NextType, InitLinks, NextLinks, InitResume, NextResume, ResumeSuffices, PTL
     DEF Spec
=============================================================================
