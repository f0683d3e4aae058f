----------------------------- MODULE AmqpDeadLetters -----------------------------
\* AmqpMessageBusAdapter.consumeDlx() beside the consumer that fills the
\* dead-letter queue. Every call works on a connection of its own, which may
\* break at any step, and several may work on one queue. A step of a call is one
\* answer of the broker or of the handler. The broker gives a message that comes
\* back its old place, so a letter has the number under which it was written.
EXTENDS AmqpDelivery, Sequences, SequencesExt

CONSTANTS
    Calls,       \* calls of consumeDlx()
    Requested    \* the messagesToRetry of each; -1 stands for undefined

ASSUME RequestedAssumption == Requested \in [Calls -> Int]
ASSUME CallsAssumption == Calls \cap {"queued", "gone"} = {}

VARIABLES
    letters,     \* the event of every message ever written to the queue
    place,       \* where each is: "queued", "gone", or the call that holds it
    call,        \* what each call awaits
    gets,        \* rounds that are left of its loop
    linked,      \* is its connection alive?
    found,       \* history: letters it found in the queue
    taken,       \* history: letters that some call got
    retried,     \* history: letters that a handler succeeded with
    returned     \* history: how often a letter came back to the queue

callVars == <<call, gets, linked, found>>
letterVars == <<letters, place>>
historyVars == <<taken, retried, returned>>
dlxVars == <<letterVars, historyVars, callVars>>
allVars == <<vars, dlxVars>>

Settled == {"resolved", "rejected"}

DlxInit ==
    /\ Init
    /\ letters = <<>>
    /\ place = <<>>
    /\ call = [c \in Calls |-> "idle"]
    /\ gets = [c \in Calls |-> 0]
    /\ linked = [c \in Calls |-> FALSE]
    /\ found = [c \in Calls |-> {}]
    /\ taken = {}
    /\ retried = {}
    /\ returned = 0

Queued == {n \in DOMAIN place : place[n] = "queued"}

\* Those that work on the queue hold at most one letter each.
Held(c) == {n \in DOMAIN place : place[n] = c}

ComesBack(c) ==
    /\ place' = [n \in DOMAIN place |-> IF place[n] = c THEN "queued" ELSE place[n]]
    /\ returned' = returned + Cardinality(Held(c))

Written(t) == SendToDlx(t) /\ Open(t) /\ EventOf(t) \notin Invalid

\* A step of the consumer; what sendToDlx() publishes joins the queue.
DeliveryStep ==
    \/ \E t \in Tasks :
          /\ Written(t)
          /\ letters' = Append(letters, EventOf(t))
          /\ place' = Append(place, "queued")
          /\ UNCHANGED <<historyVars, callVars>>
    \/ /\ Next
       /\ \A t \in Tasks : ~Written(t)
       /\ UNCHANGED dlxVars

\* channel(true): a connection for this call only.
Connect(c) ==
    /\ call[c] = "idle"
    /\ \/ call' = [call EXCEPT ![c] = "checking"] /\ linked' = [linked EXCEPT ![c] = TRUE]
       \/ call' = [call EXCEPT ![c] = "rejected"] /\ UNCHANGED linked
    /\ UNCHANGED <<vars, letterVars, historyVars, gets, found>>

\* Mutant: the loop is one round short.
OneRoundLess(c) ==
    (IF Requested[c] = -1 THEN Cardinality(Queued) ELSE Requested[c]) - 1

\* getMessagesToRetry()
MessagesToRetry(c) ==
    IF Requested[c] = -1 THEN Cardinality(Queued) ELSE Requested[c]

\* checkQueue(): nothing to retry is an error. So is a queue that is not there.
CheckQueue(c) ==
    /\ call[c] = "checking"
    /\ IF linked[c] /\ MessagesToRetry(c) > 0 /\ Queued # {}
       THEN /\ call' = [call EXCEPT ![c] = "getting"]
            /\ gets' = [gets EXCEPT ![c] = MessagesToRetry(c)]
            /\ found' = [found EXCEPT ![c] = Queued]
       ELSE /\ call' = [call EXCEPT ![c] = "rejected"]
            /\ UNCHANGED <<gets, found>>
    /\ UNCHANGED <<vars, letterVars, historyVars, linked>>

\* Mutant: a round without a message is not counted.
NextRoundUncounted(c) ==
    /\ gets' = gets
    /\ call' = [call EXCEPT ![c] = "getting"]

\* The round ends, and with the last one the call resolves.
NextRound(c) ==
    /\ gets' = [gets EXCEPT ![c] = @ - 1]
    /\ call' = [call EXCEPT ![c] = IF gets[c] = 1 THEN "resolved" ELSE "getting"]

GetsNothing(c) ==
    /\ call[c] = "getting"
    /\ linked[c]
    /\ Queued = {}
    /\ NextRound(c)
    /\ UNCHANGED <<vars, letterVars, historyVars, linked, found>>

\* The first message that nobody holds.
Gets(c) ==
    /\ call[c] = "getting"
    /\ linked[c]
    /\ Queued # {}
    /\ LET first == CHOOSE n \in Queued : \A m \in Queued : n <= m
       IN /\ place' = [place EXCEPT ![first] = c]
          /\ taken' = taken \cup {first}
    /\ call' = [call EXCEPT ![c] = "handling"]
    /\ UNCHANGED <<vars, letters, retried, returned, gets, linked, found>>

\* The handler settles, and the message is acknowledged or put back; on a broken
\* channel both throw.
Retried(c) ==
    /\ call[c] = "handling"
    /\ linked[c]
    /\ place' = [n \in DOMAIN place |-> IF place[n] = c THEN "gone" ELSE place[n]]
    /\ retried' = retried \cup Held(c)
    /\ NextRound(c)
    /\ UNCHANGED <<vars, letters, taken, returned, linked, found>>

\* Mutant: the message of a handler that failed is acknowledged.
DropsIt(c) ==
    /\ call[c] = "handling"
    /\ linked[c]
    /\ place' = [n \in DOMAIN place |-> IF place[n] = c THEN "gone" ELSE place[n]]
    /\ NextRound(c)
    /\ UNCHANGED <<vars, letters, historyVars, linked, found>>

PutsBack(c) ==
    /\ call[c] = "handling"
    /\ linked[c]
    /\ ComesBack(c)
    /\ NextRound(c)
    /\ UNCHANGED <<vars, letters, taken, retried, linked, found>>

\* The connection breaks and what the call held is queued again, while its
\* handler still runs.
LinkLost(c) ==
    /\ linked[c]
    /\ call[c] \notin Settled
    /\ linked' = [linked EXCEPT ![c] = FALSE]
    /\ ComesBack(c)
    /\ UNCHANGED <<vars, letters, taken, retried, call, gets, found>>

\* get(), ack() and nack() throw on a channel that is closed.
Rejects(c) ==
    /\ call[c] \in {"getting", "handling"}
    /\ ~linked[c]
    /\ call' = [call EXCEPT ![c] = "rejected"]
    /\ UNCHANGED <<vars, letterVars, historyVars, gets, linked, found>>

CallStep(c) ==
    \/ CheckQueue(c) \/ GetsNothing(c) \/ Gets(c)
    \/ Retried(c) \/ PutsBack(c) \/ Rejects(c)

DlxNext ==
    \/ DeliveryStep
    \/ \E c \in Calls : Connect(c) \/ CallStep(c) \/ LinkLost(c)

DlxSpec == DlxInit /\ [][DlxNext]_allVars

\* The broker answers and the handler settles.
DlxFairSpec == DlxSpec /\ \A c \in Calls : WF_allVars(CallStep(c))
-----------------------------------------------------------------------------
\* An event in the dead-letter queue stays there until a handler succeeded with
\* it: it is queued, with a call whose connection is alive, or it was retried,
\* however often it failed again and whoever lost a connection meanwhile.
LettersKept ==
    /\ \A e \in dlx : \E n \in DOMAIN letters : letters[n] = e
    /\ \A n \in DOMAIN letters :
          \/ n \in retried \cup Queued
          \/ \E c \in Calls : place[n] = c /\ call[c] = "handling" /\ linked[c]

\* A call without messagesToRetry that resolves has left nothing it found
\* untried, whatever arrived and was taken by others since, but for one letter
\* for each that ever came back, which takes the round of one behind it.
ResolvedTriedAll ==
    \A c \in Calls : call[c] = "resolved" /\ Requested[c] = -1 =>
        Cardinality(found[c] \ taken) <= returned

\* Every call settles, although the queue refills and failures go back to it.
CallsSettle ==
    \A c \in Calls : call[c] = "checking" ~> call[c] \in Settled
=================================================================================
