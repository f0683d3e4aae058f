-------------------------- MODULE ConsumerPipeline --------------------------
(***************************************************************************)
(* The consumer side of the kernel: every delivery of a domain event runs   *)
(* through ConsumerMiddlewarePipeline, one frame per middleware, down to    *)
(* the consumer's handler and back.  The idempotency, retry and correlation *)
(* middlewares are modelled step by step, one step per await, so that the   *)
(* deliveries of one process interleave the way its event loop lets them.   *)
(***************************************************************************)
EXTENDS Naturals, Sequences, FiniteSets

CONSTANTS
    Deliveries,          \* deliveries the transport makes to this process
    Keys,                \* idempotency keys
    KeyOf,               \* the key of each delivery: duplicates share one
    InitialMiddlewares,  \* what the application registers before it consumes
    LateMiddlewares,     \* kinds registered while deliveries are under way
    MaxMiddlewares,      \* bound: length the middleware list may reach
    MaxAttempts,         \* RetryConsumerMiddlewareOptions.maxAttempts
    CallbacksMayStop,    \* shouldRetry may refuse, onRetry or delay may throw
    StoreFaults,         \* the store calls that may reject
    Durable,             \* does the idempotency store outlive the process?
    MaxCrashes           \* bound: restarts of the process

Kinds == {"correlation", "idempotency", "retry"}

Frames == 1..MaxMiddlewares

ASSUME KeysAssumption ==
    KeyOf \in [Deliveries -> Keys]

ASSUME BoundsAssumption ==
    /\ MaxMiddlewares \in Nat
    /\ MaxAttempts \in Nat
    /\ MaxCrashes \in Nat
    /\ CallbacksMayStop \in BOOLEAN
    /\ Durable \in BOOLEAN
    /\ StoreFaults \subseteq {"claim", "commit", "release"}

\* One store, used by one idempotency middleware that is registered before the
\* first delivery: the configuration the guides show.
ASSUME ListAssumption ==
    /\ InitialMiddlewares \in Seq(Kinds)
    /\ Len(InitialMiddlewares) <= MaxMiddlewares
    /\ LateMiddlewares \subseteq Kinds \ {"idempotency"}
    /\ \A i, j \in DOMAIN InitialMiddlewares :
          InitialMiddlewares[i] = "idempotency"
          /\ InitialMiddlewares[j] = "idempotency" => i = j

VARIABLES
    middlewares,   \* Kernel.consumerMiddleware, the live array
    claimed,       \* claimedKeys of the idempotency store
    handled,       \* handledKeys of the idempotency store
    status,        \* what each delivery does now
    depth,         \* the frame each delivery is in
    attempt,       \* the attempt each retry frame of a delivery is at
    runs,          \* history: handler runs since the delivery was made
    successes,     \* history: handler successes per key; 2 stands for more
    crashes        \* restarts so far

storeVars == <<claimed, handled>>
vars == <<middlewares, claimed, handled, status, depth, attempt, runs,
          successes, crashes>>

(***************************************************************************)
(* "calling": run(depth) is about to look up middlewares[depth].            *)
(* "returned", "threw": control is back in frame depth; 0 is execute().     *)
(***************************************************************************)
Statuses == {"queued", "calling", "handling", "returned", "threw",
             "acked", "failed"}

TypeOK ==
    /\ middlewares \in Seq(Kinds)
    /\ Len(middlewares) <= MaxMiddlewares
    /\ claimed \subseteq Keys
    /\ handled \subseteq Keys
    /\ status \in [Deliveries -> Statuses]
    /\ depth \in [Deliveries -> 0..(MaxMiddlewares + 1)]
    /\ attempt \in [Deliveries -> [Frames -> 0..MaxAttempts]]
    /\ runs \in [Deliveries -> Nat]
    /\ successes \in [Keys -> 0..2]
    /\ crashes \in 0..MaxCrashes

Init ==
    /\ middlewares = InitialMiddlewares
    /\ claimed = {}
    /\ handled = {}
    /\ status = [d \in Deliveries |-> "queued"]
    /\ depth = [d \in Deliveries |-> 0]
    /\ attempt = [d \in Deliveries |-> [i \in Frames |-> 0]]
    /\ runs = [d \in Deliveries |-> 0]
    /\ successes = [k \in Keys |-> 0]
    /\ crashes = 0

(***************************************************************************)
(* Moving through the frames.                                               *)
(***************************************************************************)

\* Control of d is at frame i of the given kind, entering or coming back.
At(d, s, kind) ==
    /\ status[d] = s
    /\ depth[d] \in DOMAIN middlewares
    /\ middlewares[depth[d]] = kind

Goto(d, s, i) ==
    /\ status' = [status EXCEPT ![d] = s]
    /\ depth' = [depth EXCEPT ![d] = i]

\* next(): the frame below.  Return and Throw: the frame above.
Next_(d) == Goto(d, "calling", depth[d] + 1)
Return(d) == Goto(d, "returned", depth[d] - 1)
Throw(d) == Goto(d, "threw", depth[d] - 1)

KeepHistory == UNCHANGED <<middlewares, attempt, runs, successes, crashes>>

\* The transport hands the event over: Consumer.runMiddleware builds a pipeline
\* on the kernel's array itself, so later registrations are seen by it.
Deliver(d) ==
    /\ status[d] = "queued"
    /\ Goto(d, "calling", 1)
    /\ runs' = [runs EXCEPT ![d] = 0]
    /\ UNCHANGED <<middlewares, claimed, handled, attempt, successes, crashes>>

\* The correlation middleware adds ids to the event and passes it on.
PassThrough(d) ==
    /\ At(d, "calling", "correlation")
    /\ Next_(d)
    /\ KeepHistory /\ UNCHANGED storeVars

PassBack(d) ==
    /\ At(d, status[d], "correlation")
    /\ \/ status[d] = "returned" /\ Return(d)
       \/ status[d] = "threw" /\ Throw(d)
    /\ KeepHistory /\ UNCHANGED storeVars

(***************************************************************************)
(* The idempotency middleware and its store.                                *)
(***************************************************************************)
\* Mutant: claim() looks for finished keys only.
FreeUnlessHandled(k) == k \notin handled

Free(k) == k \notin handled /\ k \notin claimed

\* Mutant: the key counts as handled from the moment it is claimed.
ClaimAsHandled(d) ==
    /\ At(d, "calling", "idempotency")
    /\ Free(KeyOf[d])
    /\ claimed' = claimed \cup {KeyOf[d]}
    /\ handled' = handled \cup {KeyOf[d]}
    /\ Next_(d)
    /\ KeepHistory

Claim(d) ==
    /\ At(d, "calling", "idempotency")
    /\ Free(KeyOf[d])
    /\ claimed' = claimed \cup {KeyOf[d]}
    /\ Next_(d)
    /\ KeepHistory /\ UNCHANGED handled

\* Mutant: claim() is called inside the try block, so that the delivery that is
\* refused releases the key of the one that holds it.
ClaimRefusedInsideTry(d) ==
    /\ At(d, "calling", "idempotency")
    /\ ~Free(KeyOf[d])
    /\ claimed' = claimed \ {KeyOf[d]}
    /\ Return(d)
    /\ KeepHistory /\ UNCHANGED handled

\* A key that is claimed or handled: handle() returns as if it had succeeded.
ClaimRefused(d) ==
    /\ At(d, "calling", "idempotency")
    /\ ~Free(KeyOf[d])
    /\ Return(d)
    /\ KeepHistory /\ UNCHANGED storeVars

\* claim() rejects outside the try block, having taken effect or not.
ClaimFails(d) ==
    /\ "claim" \in StoreFaults
    /\ At(d, "calling", "idempotency")
    /\ claimed' \in {claimed, IF Free(KeyOf[d]) THEN claimed \cup {KeyOf[d]}
                                                ELSE claimed}
    /\ Throw(d)
    /\ KeepHistory /\ UNCHANGED handled

\* Mutant: commit() drops the claim and does not record the key.
CommitUnrecorded(d) ==
    /\ At(d, "returned", "idempotency")
    /\ claimed' = claimed \ {KeyOf[d]}
    /\ Return(d)
    /\ KeepHistory /\ UNCHANGED handled

Commit(d) ==
    /\ At(d, "returned", "idempotency")
    /\ claimed' = claimed \ {KeyOf[d]}
    /\ handled' = handled \cup {KeyOf[d]}
    /\ Return(d)
    /\ KeepHistory

\* commit() rejects inside the try block: the catch of the same frame runs.
CommitFails(d) ==
    /\ "commit" \in StoreFaults
    /\ At(d, "returned", "idempotency")
    /\ \/ UNCHANGED storeVars
       \/ claimed' = claimed \ {KeyOf[d]} /\ handled' = handled \cup {KeyOf[d]}
    /\ Goto(d, "threw", depth[d])
    /\ KeepHistory

\* Mutant: the error is rethrown without releasing the key.
ReleaseForgotten(d) ==
    /\ At(d, "threw", "idempotency")
    /\ Throw(d)
    /\ KeepHistory /\ UNCHANGED storeVars

Release(d) ==
    /\ At(d, "threw", "idempotency")
    /\ claimed' = claimed \ {KeyOf[d]}
    /\ Throw(d)
    /\ KeepHistory /\ UNCHANGED handled

ReleaseFails(d) ==
    /\ "release" \in StoreFaults
    /\ At(d, "threw", "idempotency")
    /\ claimed' \in {claimed, claimed \ {KeyOf[d]}}
    /\ Throw(d)
    /\ KeepHistory /\ UNCHANGED handled

(***************************************************************************)
(* The retry middleware.                                                    *)
(***************************************************************************)
SetAttempt(d, n) == attempt' = [attempt EXCEPT ![d][depth[d]] = n]

KeepAround == UNCHANGED <<middlewares, claimed, handled, runs, successes,
                          crashes>>

\* The loop's first test; with no attempt allowed the handler is skipped.
EnterRetry(d) ==
    /\ At(d, "calling", "retry")
    /\ IF MaxAttempts = 0
       THEN Return(d) /\ UNCHANGED attempt
       ELSE Next_(d) /\ SetAttempt(d, 1)
    /\ KeepAround

RetryReturns(d) ==
    /\ At(d, "returned", "retry")
    /\ Return(d)
    /\ SetAttempt(d, 0)
    /\ KeepAround

\* Mutant: the loop does not count its attempts.
RetryUncounted(d) ==
    /\ At(d, "threw", "retry")
    /\ Next_(d)
    /\ UNCHANGED attempt
    /\ KeepAround

RetryAgain(d) ==
    /\ At(d, "threw", "retry")
    /\ attempt[d][depth[d]] < MaxAttempts
    /\ Next_(d)
    /\ SetAttempt(d, attempt[d][depth[d]] + 1)
    /\ KeepAround

\* Mutant: the last error is swallowed.
RetrySwallows(d) ==
    /\ At(d, "threw", "retry")
    /\ attempt[d][depth[d]] = MaxAttempts \/ CallbacksMayStop
    /\ Return(d)
    /\ SetAttempt(d, 0)
    /\ KeepAround

RetryGivesUp(d) ==
    /\ At(d, "threw", "retry")
    /\ attempt[d][depth[d]] = MaxAttempts \/ CallbacksMayStop
    /\ Throw(d)
    /\ SetAttempt(d, 0)
    /\ KeepAround

(***************************************************************************)
(* The handler, at the index where the list ends when it is reached.        *)
(***************************************************************************)
StartHandler(d) ==
    /\ status[d] = "calling"
    /\ depth[d] \notin DOMAIN middlewares
    /\ Goto(d, "handling", depth[d])
    /\ runs' = [runs EXCEPT ![d] = @ + 1]
    /\ UNCHANGED <<middlewares, claimed, handled, attempt, successes, crashes>>

OneMore(n) == IF n = 2 THEN 2 ELSE n + 1

HandlerSucceeds(d) ==
    /\ status[d] = "handling"
    /\ Return(d)
    /\ successes' = [successes EXCEPT ![KeyOf[d]] = OneMore(@)]
    /\ UNCHANGED <<middlewares, claimed, handled, attempt, runs, crashes>>

HandlerFails(d) ==
    /\ status[d] = "handling"
    /\ Throw(d)
    /\ KeepHistory /\ UNCHANGED storeVars

(***************************************************************************)
(* What the transport does with the outcome of execute(): it acknowledges   *)
(* the event, or keeps it and delivers it again.                            *)
(***************************************************************************)
Ack(d) ==
    /\ status[d] = "returned" /\ depth[d] = 0
    /\ Goto(d, "acked", 0)
    /\ KeepHistory /\ UNCHANGED storeVars

Fail(d) ==
    /\ status[d] = "threw" /\ depth[d] = 0
    /\ Goto(d, "failed", 0)
    /\ KeepHistory /\ UNCHANGED storeVars

Redeliver(d) ==
    /\ status[d] = "failed"
    /\ Goto(d, "queued", 0)
    /\ KeepHistory /\ UNCHANGED storeVars

(***************************************************************************)
(* The process.                                                             *)
(***************************************************************************)
RegisterMiddleware(m) ==
    /\ Len(middlewares) < MaxMiddlewares
    /\ middlewares' = Append(middlewares, m)
    /\ UNCHANGED <<claimed, handled, status, depth, attempt, runs, successes,
                   crashes>>

Idle == {"queued", "acked", "failed"}
InFlight == {d \in Deliveries : status[d] \notin Idle}

\* The process dies and starts again: what was in flight was never
\* acknowledged and is queued again; an in-memory store comes back empty.
Crash ==
    /\ crashes < MaxCrashes
    /\ crashes' = crashes + 1
    /\ middlewares' = InitialMiddlewares
    /\ status' = [d \in Deliveries |->
                    IF d \in InFlight THEN "queued" ELSE status[d]]
    /\ depth' = [d \in Deliveries |-> 0]
    /\ attempt' = [d \in Deliveries |-> [i \in Frames |-> 0]]
    /\ IF Durable THEN UNCHANGED storeVars
                  ELSE claimed' = {} /\ handled' = {}
    /\ UNCHANGED <<runs, successes>>

\* Nothing is left to do: every event was acknowledged.
Done ==
    /\ \A d \in Deliveries : status[d] = "acked"
    /\ UNCHANGED vars

Frame(d) ==
    \/ PassThrough(d) \/ PassBack(d)
    \/ Claim(d) \/ ClaimRefused(d) \/ ClaimFails(d)
    \/ Commit(d) \/ CommitFails(d)
    \/ Release(d) \/ ReleaseFails(d)
    \/ EnterRetry(d) \/ RetryReturns(d) \/ RetryAgain(d) \/ RetryGivesUp(d)
    \/ StartHandler(d)

Settle(d) == Ack(d) \/ Fail(d)

Process(d) ==
    \/ Deliver(d) \/ Frame(d) \/ HandlerSucceeds(d) \/ HandlerFails(d)
    \/ Settle(d)

Next ==
    \/ \E d \in Deliveries : Process(d) \/ Redeliver(d)
    \/ \E m \in LateMiddlewares : RegisterMiddleware(m)
    \/ Crash
    \/ Done

Spec == Init /\ [][Next]_vars

(***************************************************************************)
(* Fairness: the event loop resumes every continuation that is ready, and a *)
(* handler settles its promise one way or the other.                        *)
(***************************************************************************)
FairSpec == Spec /\ \A d \in Deliveries : WF_vars(Process(d))

\* What lies outside the kernel: the transport delivers a failed event again,
\* and neither a handler that is run again and again nor the store fails for ever.
Helpful ==
    \A d \in Deliveries :
        WF_vars(Redeliver(d)) /\ SF_vars(HandlerSucceeds(d)) /\ SF_vars(Commit(d))

(***************************************************************************)
(* Who owns a key.                                                          *)
(***************************************************************************)

\* The frames of d whose handle() has called next() and not yet finished.
Entered(d) ==
    CASE status[d] \in {"calling", "handling"} -> 1..(depth[d] - 1)
      [] status[d] \in {"returned", "threw"} -> 1..depth[d]
      [] OTHER -> {}

Holds(d) ==
    \E i \in Entered(d) \cap DOMAIN middlewares : middlewares[i] = "idempotency"

SameKey(d, e) == KeyOf[d] = KeyOf[e]

Idempotent ==
    \E i \in DOMAIN InitialMiddlewares : InitialMiddlewares[i] = "idempotency"

Retries == {i \in DOMAIN middlewares : middlewares[i] = "retry"}

\* Power[n] is MaxAttempts to the n.
Power[n \in 0..MaxMiddlewares] ==
    IF n = 0 THEN 1 ELSE MaxAttempts * Power[n - 1]

(***************************************************************************)
(* Properties.                                                              *)
(***************************************************************************)

\* Two deliveries of one key are never in the handler together, whatever the
\* store calls do and whatever middleware is registered meanwhile: a claim
\* that is refused, or whose outcome is unknown, never lets a second one in.
MutualExclusion ==
    Idempotent =>
        \A d, e \in Deliveries :
            d # e /\ SameKey(d, e) =>
                ~(status[d] = "handling" /\ status[e] = "handling")

\* A key recorded as handled was handled: a retry loop that gave up, or a
\* handler that threw, never reaches commit().
HandledMeansSucceeded ==
    \A k \in handled : successes[k] >= 1

\* A duplicate that is refused is acknowledged at once, while the delivery that
\* holds the key may still fail.  The event is not lost as long as some other
\* delivery of it is still to come.
NoSilentDrop ==
    \A d \in Deliveries :
        status[d] = "acked" =>
            \/ successes[KeyOf[d]] >= 1
            \/ \E e \in Deliveries : SameKey(d, e) /\ status[e] # "acked"

\* The key of a delivery that is past its claim is in the store, and only
\* that delivery takes it out again.
ReleasedByHolder ==
    [][\A k \in claimed \ claimed' :
          \/ \E d \in Deliveries : KeyOf[d] = k /\ Holds(d)
                                   /\ status[d] \in {"returned", "threw"}
          \/ crashes' > crashes]_vars

\* One delivery runs the handler at most maxAttempts times for every retry
\* middleware around it, also when one is registered while it runs.
AttemptsBounded ==
    \A d \in InFlight : runs[d] <= Power[Cardinality(Retries)]

\* A transport that redelivers and a handler that can succeed get every event
\* handled and every delivery acknowledged.
EventuallyHandled ==
    Helpful => \A d \in Deliveries : <>(status[d] = "acked" /\ successes[KeyOf[d]] >= 1)
(***************************************************************************)
(* The pipeline implements KeyedHandling: the phase of a key is read off    *)
(* the store and off the delivery that holds the key.                       *)
(***************************************************************************)
Worked(k) ==
    \E d \in Deliveries : KeyOf[d] = k /\ status[d] = "returned" /\ Holds(d)

Phase(k) ==
    CASE k \in handled -> "done"
      [] k \in claimed \ handled -> IF Worked(k) THEN "worked" ELSE "busy"
      [] OTHER -> "free"

\* What can make the store forget a success.
Forgets == "commit" \in StoreFaults \/ MaxCrashes > 0

Promise == INSTANCE KeyedHandling WITH
    Forgetful <- Forgets,
    phase <- [k \in Keys |-> Phase(k)],
    effects <- successes

\* Whatever the interleaving, each key lives through the phases of
\* KeyedHandling: claimed, worked on once, recorded or given up.
ImplementsPromise == Promise!Spec

\* The effect of an event whose duplicates arrive in any order happens once, and
\* the store knows whether it did: this needs a store that neither loses a
\* commit nor forgets at a restart.
OnceAndKnown == Promise!OnceAndKnown

=============================================================================
