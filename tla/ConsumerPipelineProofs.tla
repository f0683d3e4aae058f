----------------------- MODULE ConsumerPipelineProofs -----------------------
(***************************************************************************)
(* Theorems about ConsumerPipeline for every set of deliveries and keys,    *)
(* every middleware list and every bound.                                   *)
(***************************************************************************)
EXTENDS ConsumerPipeline, TLAPS, FiniteSetTheorems, WellFoundedInduction

(***************************************************************************)
(* Typing.  A delivery that calls a frame, or runs the handler, is below    *)
(* execute(): its depth is at least 1.                                      *)
(***************************************************************************)
TypeInv ==
    /\ TypeOK
    /\ \A d \in Deliveries :
          status[d] \in {"calling", "handling"} => depth[d] >= 1

\* Every action of a delivery moves that delivery and keeps the types.
LEMMA MoveKeepsTypes ==
    ASSUME TypeInv, NEW d \in Deliveries, NEW s \in Statuses,
           NEW i \in 0..(MaxMiddlewares + 1), Goto(d, s, i),
           s \in {"calling", "handling"} => i >= 1
    PROVE  /\ status' \in [Deliveries -> Statuses]
           /\ depth' \in [Deliveries -> 0..(MaxMiddlewares + 1)]
           /\ \A e \in Deliveries :
                 status'[e] \in {"calling", "handling"} => depth'[e] >= 1
  BY DEF TypeInv, TypeOK, Goto

\* Where a frame's neighbours are.
LEMMA FrameBounds ==
    ASSUME TypeInv, NEW d \in Deliveries, depth[d] \in DOMAIN middlewares
    PROVE  /\ depth[d] \in Frames
           /\ depth[d] - 1 \in 0..(MaxMiddlewares + 1)
           /\ depth[d] + 1 \in 0..(MaxMiddlewares + 1)
           /\ depth[d] + 1 >= 1
  BY BoundsAssumption DEF TypeInv, TypeOK, Frames

LEMMA TypeInit == Init => TypeInv
  BY KeysAssumption, BoundsAssumption, ListAssumption
     DEF Init, TypeInv, TypeOK, Statuses

LEMMA TypeNext == TypeInv /\ [Next]_vars => TypeInv'
<1> SUFFICES ASSUME TypeInv, [Next]_vars PROVE TypeInv'
  OBVIOUS
<1> USE KeysAssumption, BoundsAssumption
<1>1. ASSUME NEW d \in Deliveries, Deliver(d) PROVE TypeInv'
  <2>1. 1 \in 0..(MaxMiddlewares + 1) /\ "calling" \in Statuses
    BY DEF Statuses
  <2>2. Goto(d, "calling", 1)
    BY <1>1 DEF Deliver
  <2>3. runs' \in [Deliveries -> Nat]
    BY <1>1 DEF Deliver, TypeInv, TypeOK
  <2> QED
    BY <1>1, <2>1, <2>2, <2>3, MoveKeepsTypes DEF Deliver, TypeInv, TypeOK
<1>2. ASSUME NEW d \in Deliveries, Frame(d) PROVE TypeInv'
  <2> DEFINE i == depth[d]
  <2>1. CASE i \in DOMAIN middlewares
    <3>1. /\ i \in Frames
          /\ i - 1 \in 0..(MaxMiddlewares + 1)
          /\ i + 1 \in 0..(MaxMiddlewares + 1)
          /\ i \in 0..(MaxMiddlewares + 1)
          /\ i + 1 >= 1
      BY <2>1, FrameBounds DEF TypeInv, TypeOK
    <3>2. \E s \in Statuses, j \in 0..(MaxMiddlewares + 1) :
             Goto(d, s, j) /\ (s \in {"calling", "handling"} => j >= 1)
      <4>1. {"calling", "returned", "threw"} \subseteq Statuses
        BY DEF Statuses
      <4> QED
        BY <1>2, <2>1, <3>1, <4>1
           DEF Frame, PassThrough, PassBack, Claim, ClaimRefused, ClaimFails,
               Commit, CommitFails, Release, ReleaseFails, EnterRetry,
               RetryReturns, RetryAgain, RetryGivesUp, StartHandler, At, Next_,
               Return, Throw
    <3>3. claimed' \subseteq Keys /\ handled' \subseteq Keys
      BY <1>2, <2>1
         DEF Frame, PassThrough, PassBack, Claim, ClaimRefused, ClaimFails,
             Commit, CommitFails, Release, ReleaseFails, EnterRetry,
             RetryReturns, RetryAgain, RetryGivesUp, StartHandler, KeepHistory,
             KeepAround, storeVars, TypeInv, TypeOK
    <3>4. attempt' \in [Deliveries -> [Frames -> 0..MaxAttempts]]
      <4>1. \/ UNCHANGED attempt
            \/ \E n \in 0..MaxAttempts : SetAttempt(d, n)
        <5>1. attempt[d][i] \in 0..MaxAttempts
          BY <3>1 DEF TypeInv, TypeOK
        <5> QED
          BY <1>2, <2>1, <5>1
             DEF Frame, PassThrough, PassBack, Claim, ClaimRefused, ClaimFails,
                 Commit, CommitFails, Release, ReleaseFails, EnterRetry,
                 RetryReturns, RetryAgain, RetryGivesUp, StartHandler,
                 KeepHistory
      <4>2. attempt \in [Deliveries -> [Frames -> 0..MaxAttempts]]
        BY DEF TypeInv, TypeOK
      <4>3. ASSUME NEW n \in 0..MaxAttempts, SetAttempt(d, n)
            PROVE  attempt' \in [Deliveries -> [Frames -> 0..MaxAttempts]]
        <5>1. [attempt[d] EXCEPT ![i] = n] \in [Frames -> 0..MaxAttempts]
          BY <4>2, <3>1
        <5>2. attempt' = [attempt EXCEPT ![d] = [attempt[d] EXCEPT ![i] = n]]
          BY <4>3 DEF SetAttempt
        <5> QED
          BY <4>2, <5>1, <5>2
      <4> QED
        BY <4>1, <4>2, <4>3
    <3>5. UNCHANGED <<middlewares, runs, successes, crashes>>
      BY <1>2, <2>1
         DEF Frame, PassThrough, PassBack, Claim, ClaimRefused, ClaimFails,
             Commit, CommitFails, Release, ReleaseFails, EnterRetry,
             RetryReturns, RetryAgain, RetryGivesUp, StartHandler, KeepHistory,
             KeepAround
    <3> QED
      BY <3>2, <3>3, <3>4, <3>5, MoveKeepsTypes DEF TypeInv, TypeOK
  <2>2. CASE i \notin DOMAIN middlewares
    <3>1. StartHandler(d)
      BY <1>2, <2>2
         DEF Frame, PassThrough, PassBack, Claim, ClaimRefused, ClaimFails,
             Commit, CommitFails, Release, ReleaseFails, EnterRetry,
             RetryReturns, RetryAgain, RetryGivesUp, At
    <3>2. i \in 0..(MaxMiddlewares + 1) /\ i >= 1 /\ "handling" \in Statuses
      BY <3>1 DEF StartHandler, TypeInv, TypeOK, Statuses
    <3>3. runs' \in [Deliveries -> Nat]
      BY <3>1 DEF StartHandler, TypeInv, TypeOK
    <3> QED
      BY <3>1, <3>2, <3>3, MoveKeepsTypes DEF StartHandler, TypeInv, TypeOK
  <2> QED
    BY <2>1, <2>2
<1>3. ASSUME NEW d \in Deliveries, HandlerSucceeds(d) \/ HandlerFails(d)
      PROVE  TypeInv'
  <2>1. depth[d] - 1 \in 0..(MaxMiddlewares + 1)
    BY <1>3 DEF HandlerSucceeds, HandlerFails, TypeInv, TypeOK
  <2>2. "returned" \in Statuses /\ "threw" \in Statuses
    BY DEF Statuses
  <2>3. \/ Goto(d, "returned", depth[d] - 1)
        \/ Goto(d, "threw", depth[d] - 1)
    BY <1>3 DEF HandlerSucceeds, HandlerFails, Return, Throw
  <2>4. successes' \in [Keys -> 0..2]
    <3>1. successes \in [Keys -> 0..2] /\ KeyOf[d] \in Keys
      BY DEF TypeInv, TypeOK
    <3>2. \A n \in 0..2 : OneMore(n) \in 0..2
      BY DEF OneMore
    <3>3. CASE HandlerSucceeds(d)
      BY <3>1, <3>2, <3>3 DEF HandlerSucceeds
    <3>4. CASE HandlerFails(d)
      BY <3>1, <3>4 DEF HandlerFails, KeepHistory
    <3> QED
      BY <1>3, <3>3, <3>4
  <2> QED
    BY <1>3, <2>1, <2>2, <2>3, <2>4, MoveKeepsTypes
       DEF HandlerSucceeds, HandlerFails, KeepHistory, storeVars, TypeInv, TypeOK
<1>4. ASSUME NEW d \in Deliveries, Settle(d) \/ Redeliver(d) PROVE TypeInv'
  <2>1. 0 \in 0..(MaxMiddlewares + 1)
    OBVIOUS
  <2>2. {"acked", "failed", "queued"} \subseteq Statuses
    BY DEF Statuses
  <2> QED
    BY <1>4, <2>1, <2>2, MoveKeepsTypes
       DEF Settle, Ack, Fail, Redeliver, KeepHistory, storeVars, TypeInv, TypeOK
<1>5. ASSUME NEW m \in LateMiddlewares, RegisterMiddleware(m) PROVE TypeInv'
  <2>1. m \in Kinds
    BY ListAssumption
  <2>2. /\ middlewares' \in Seq(Kinds)
        /\ Len(middlewares') = Len(middlewares) + 1
    BY <1>5, <2>1 DEF RegisterMiddleware, TypeInv, TypeOK
  <2>3. Len(middlewares') <= MaxMiddlewares
    BY <1>5, <2>2 DEF RegisterMiddleware, TypeInv, TypeOK
  <2> QED
    BY <1>5, <2>2, <2>3 DEF RegisterMiddleware, TypeInv, TypeOK
<1>6. CASE Crash
  <2>1. middlewares' \in Seq(Kinds) /\ Len(middlewares') <= MaxMiddlewares
    BY <1>6, ListAssumption DEF Crash
  <2>2. /\ status' \in [Deliveries -> Statuses]
        /\ \A d \in Deliveries : status'[d] \notin {"calling", "handling"}
    BY <1>6 DEF Crash, InFlight, Idle, Statuses, TypeInv, TypeOK
  <2> QED
    BY <1>6, <2>1, <2>2 DEF Crash, storeVars, TypeInv, TypeOK
<1>7. CASE UNCHANGED vars
  BY <1>7 DEF vars, TypeInv, TypeOK
<1> QED
  BY <1>1, <1>2, <1>3, <1>4, <1>5, <1>6, <1>7 DEF Next, Process, Done

\* Every variable keeps its type, for any list, any bound and any store fault.
THEOREM TypeCorrect == Spec => []TypeOK
<1>1. Spec => []TypeInv
  BY TypeInit, TypeNext, PTL DEF Spec
<1> QED
  BY <1>1, PTL DEF TypeInv

(***************************************************************************)
(* The middleware list only grows, past the idempotency middleware, and the *)
(* handler runs below every middleware that was there at the start.         *)
(***************************************************************************)
ListInv ==
    /\ Len(InitialMiddlewares) <= Len(middlewares)
    /\ \A i \in 1..Len(InitialMiddlewares) :
          middlewares[i] = InitialMiddlewares[i]
    /\ \A i \in 1..Len(middlewares) :
          middlewares[i] = "idempotency" => i <= Len(InitialMiddlewares)
    /\ \A d \in Deliveries :
          status[d] = "handling" => depth[d] > Len(InitialMiddlewares)

LEMMA ListInit == Init => ListInv
  BY ListAssumption DEF Init, ListInv

LEMMA ListNext == TypeInv /\ ListInv /\ [Next]_vars => ListInv'
<1> SUFFICES ASSUME TypeInv, ListInv, [Next]_vars PROVE ListInv'
  OBVIOUS
<1>1. ASSUME NEW d \in Deliveries, StartHandler(d) PROVE ListInv'
  <2>1. /\ depth[d] \in Nat /\ depth[d] >= 1
        /\ depth[d] \notin 1..Len(middlewares)
        /\ DOMAIN middlewares = 1..Len(middlewares)
        /\ Len(middlewares) \in Nat
    BY <1>1 DEF StartHandler, TypeInv, TypeOK
  <2>2. depth[d] > Len(InitialMiddlewares)
    BY <2>1, ListAssumption DEF ListInv
  <2> QED
    BY <1>1, <2>2 DEF StartHandler, Goto, ListInv, TypeInv, TypeOK
<1>2. ASSUME NEW d \in Deliveries, Process(d) \/ Redeliver(d), ~StartHandler(d)
      PROVE  ListInv'
  <2>1. /\ UNCHANGED middlewares
        /\ \E s \in Statuses \ {"handling"} :
              \E j : Goto(d, s, j)
    <3>1. Statuses \ {"handling"} =
             {"queued", "calling", "returned", "threw", "acked", "failed"}
      BY DEF Statuses
    <3> QED
      BY <1>2, <3>1
         DEF Process, Deliver, Frame, PassThrough, PassBack, Claim,
             ClaimRefused, ClaimFails, Commit, CommitFails, Release,
             ReleaseFails, EnterRetry, RetryReturns, RetryAgain, RetryGivesUp,
             HandlerSucceeds, HandlerFails, Settle, Ack, Fail, Redeliver, Next_,
             Return, Throw, KeepHistory, KeepAround
  <2> QED
    BY <2>1 DEF Goto, ListInv, TypeInv, TypeOK
<1>3. ASSUME NEW m \in LateMiddlewares, RegisterMiddleware(m) PROVE ListInv'
  <2>1. m # "idempotency" /\ m \in Kinds
    BY ListAssumption
  <2>2. /\ Len(middlewares') = Len(middlewares) + 1
        /\ \A i \in 1..Len(middlewares) : middlewares'[i] = middlewares[i]
        /\ middlewares'[Len(middlewares) + 1] = m
    BY <1>3, <2>1 DEF RegisterMiddleware, TypeInv, TypeOK
  <2>3. Len(middlewares) \in Nat /\ Len(InitialMiddlewares) \in Nat
    BY ListAssumption DEF TypeInv, TypeOK
  <2> QED
    BY <1>3, <2>1, <2>2, <2>3 DEF RegisterMiddleware, ListInv
<1>4. CASE Crash
  <2>1. \A d \in Deliveries : status'[d] # "handling"
    BY <1>4 DEF Crash, InFlight, Idle
  <2> QED
    BY <1>4, <2>1, ListAssumption DEF Crash, ListInv
<1>5. CASE UNCHANGED vars
  BY <1>5 DEF vars, ListInv
<1> QED
  BY <1>1, <1>2, <1>3, <1>4, <1>5 DEF Next, Done

(***************************************************************************)
(* The position of the idempotency middleware, and the deliveries past it.  *)
(***************************************************************************)
Pos == CHOOSE i \in 1..Len(InitialMiddlewares) :
          InitialMiddlewares[i] = "idempotency"

PastAt(s, i) ==
    \/ s \in {"calling", "handling"} /\ i > Pos
    \/ s \in {"returned", "threw"} /\ i >= Pos

Past(d) == PastAt(status[d], depth[d])

\* In the catch of its idempotency frame: the store may hold either answer.
CatchAt(s, i) == s = "threw" /\ i = Pos

Catching(d) == CatchAt(status[d], depth[d])

LEMMA PosFacts ==
    ASSUME Idempotent
    PROVE  /\ Pos \in 1..Len(InitialMiddlewares)
           /\ InitialMiddlewares[Pos] = "idempotency"
           /\ Len(InitialMiddlewares) \in Nat
  BY ListAssumption DEF Idempotent, Pos

\* In the live list the kind at Pos is idempotency, and only there.
LEMMA PosInList ==
    ASSUME Idempotent, TypeInv, ListInv, NEW i \in DOMAIN middlewares
    PROVE  middlewares[i] = "idempotency" <=> i = Pos
<1>1. DOMAIN middlewares = 1..Len(middlewares) /\ Len(middlewares) \in Nat
  BY DEF TypeInv, TypeOK
<1>2. ASSUME middlewares[i] = "idempotency" PROVE i = Pos
  <2>1. i \in 1..Len(InitialMiddlewares)
    BY <1>1, <1>2, PosFacts DEF ListInv
  <2>2. InitialMiddlewares[i] = "idempotency"
    BY <1>2, <2>1 DEF ListInv
  <2>3. DOMAIN InitialMiddlewares = 1..Len(InitialMiddlewares)
    BY ListAssumption
  <2> QED
    BY <2>1, <2>2, <2>3, PosFacts, ListAssumption
<1>3. middlewares[Pos] = "idempotency"
  BY PosFacts DEF ListInv
<1> QED
  BY <1>2, <1>3

\* "Past" is what Holds says, read off the position.
LEMMA HoldsIsPast ==
    ASSUME Idempotent, TypeInv, ListInv, NEW d \in Deliveries
    PROVE  Holds(d) <=> Past(d)
<1>1. /\ DOMAIN middlewares = 1..Len(middlewares) /\ Len(middlewares) \in Nat
      /\ depth[d] \in Nat
      /\ status[d] \in Statuses
  BY DEF TypeInv, TypeOK
<1>2. Pos \in DOMAIN middlewares
  BY <1>1, PosFacts DEF ListInv
<1>3. Holds(d) <=> Pos \in Entered(d)
  BY <1>2, PosInList DEF Holds
<1>4. Pos \in Nat /\ Pos >= 1
  BY PosFacts
<1>5. CASE status[d] \in {"calling", "handling"}
  <2>1. Entered(d) = 1..(depth[d] - 1)
    BY <1>5 DEF Entered
  <2> QED
    BY <1>1, <1>3, <1>4, <1>5, <2>1 DEF Past, PastAt
<1>6. CASE status[d] \in {"returned", "threw"}
  <2>1. Entered(d) = 1..depth[d]
    BY <1>6 DEF Entered
  <2> QED
    BY <1>1, <1>3, <1>4, <1>6, <2>1 DEF Past, PastAt
<1>7. CASE status[d] \notin {"calling", "handling", "returned", "threw"}
  <2>1. Entered(d) = {}
    BY <1>7 DEF Entered
  <2> QED
    BY <1>3, <1>7, <2>1 DEF Past, PastAt
<1> QED
  BY <1>5, <1>6, <1>7

(***************************************************************************)
(* The invariant behind every property of the store: a delivery past its    *)
(* claim owns the key, alone, and the store says so.                        *)
(***************************************************************************)
OwnerInv ==
    /\ \A d \in Deliveries :
          Past(d) /\ ~Catching(d) =>
              KeyOf[d] \in claimed /\ KeyOf[d] \notin handled
    /\ \A d \in Deliveries : Past(d) => KeyOf[d] \in claimed \cup handled
    /\ \A d, e \in Deliveries :
          d # e /\ SameKey(d, e) => ~(Past(d) /\ Past(e))

\* A move that neither enters nor leaves the claim, with the store untouched.
LEMMA QuietMove ==
    ASSUME TypeInv, OwnerInv, NEW d \in Deliveries, NEW s, NEW i,
           Goto(d, s, i), UNCHANGED storeVars,
           PastAt(s, i) => Past(d) /\ (Catching(d) => CatchAt(s, i))
    PROVE  OwnerInv'
<1>1. status'[d] = s /\ depth'[d] = i
  BY DEF Goto, TypeInv, TypeOK
<1>2. \A e \in Deliveries \ {d} : status'[e] = status[e] /\ depth'[e] = depth[e]
  BY DEF Goto, TypeInv, TypeOK
<1>3. \A e \in Deliveries \ {d} :
         (Past(e)' <=> Past(e)) /\ (Catching(e)' <=> Catching(e))
  BY <1>2 DEF Past, Catching, PastAt, CatchAt
<1>4. (Past(d)' <=> PastAt(s, i)) /\ (Catching(d)' <=> CatchAt(s, i))
  BY <1>1 DEF Past, Catching, PastAt, CatchAt
<1> QED
  BY <1>3, <1>4 DEF OwnerInv, storeVars, SameKey

\* A step out of the claim: every other owner of another key keeps it.
LEMMA LeavingMove ==
    ASSUME TypeInv, OwnerInv, NEW d \in Deliveries, NEW s, NEW i,
           Goto(d, s, i), ~PastAt(s, i), Past(d),
           \A k \in Keys \ {KeyOf[d]} :
              /\ k \in claimed' <=> k \in claimed
              /\ k \in handled' <=> k \in handled
    PROVE  OwnerInv'
<1>1. \A e \in Deliveries \ {d} : status'[e] = status[e] /\ depth'[e] = depth[e]
  BY DEF Goto, TypeInv, TypeOK
<1>2. \A e \in Deliveries \ {d} :
         (Past(e)' <=> Past(e)) /\ (Catching(e)' <=> Catching(e))
  BY <1>1 DEF Past, Catching, PastAt, CatchAt
<1>3. ~Past(d)'
  BY DEF Goto, TypeInv, TypeOK, Past, PastAt
<1>4. \A e \in Deliveries : Past(e)' => e # d /\ KeyOf[e] # KeyOf[d]
  BY <1>2, <1>3 DEF OwnerInv, SameKey
<1>5. \A e \in Deliveries : KeyOf[e] \in Keys
  BY KeysAssumption
<1> QED
  BY <1>2, <1>3, <1>4, <1>5 DEF OwnerInv, SameKey

\* A key that is free has no owner, and taking it disturbs nobody.
LEMMA FreeHasNoOwner ==
    ASSUME TypeInv, OwnerInv, NEW d \in Deliveries, Free(KeyOf[d])
    PROVE  \A e \in Deliveries : SameKey(d, e) => ~Past(e)
  BY DEF OwnerInv, Free, SameKey

LEMMA OwnerInit == Idempotent /\ Init => OwnerInv
  BY DEF Init, OwnerInv, Past, PastAt, Catching, CatchAt

LEMMA OwnerNext ==
    Idempotent /\ TypeInv /\ ListInv /\ OwnerInv /\ [Next]_vars => OwnerInv'
<1> SUFFICES ASSUME Idempotent, TypeInv, ListInv, OwnerInv, [Next]_vars
             PROVE  OwnerInv'
  OBVIOUS
<1>1. /\ Pos \in Nat /\ Pos >= 1
      /\ \A d \in Deliveries : depth[d] \in Nat /\ KeyOf[d] \in Keys
  BY PosFacts, KeysAssumption DEF TypeInv, TypeOK
<1>2. ASSUME NEW d \in Deliveries,
             \/ PassThrough(d) \/ PassBack(d) \/ EnterRetry(d)
             \/ RetryReturns(d) \/ RetryAgain(d) \/ RetryGivesUp(d)
      PROVE  OwnerInv'
  <2>1. depth[d] # Pos
    BY <1>2, PosInList
       DEF PassThrough, PassBack, EnterRetry, RetryReturns, RetryAgain,
           RetryGivesUp, At
  <2>2. \E s, i : Goto(d, s, i) /\ (PastAt(s, i) => Past(d))
    <3>1. CASE \/ PassThrough(d)
               \/ EnterRetry(d) /\ MaxAttempts # 0
      <4>1. status[d] = "calling" /\ Goto(d, "calling", depth[d] + 1)
        BY <3>1 DEF PassThrough, EnterRetry, At, Next_
      <4> QED
        BY <1>1, <2>1, <4>1 DEF Past, PastAt
    <3>2. CASE EnterRetry(d) /\ MaxAttempts = 0
      <4>1. status[d] = "calling" /\ Goto(d, "returned", depth[d] - 1)
        BY <3>2 DEF EnterRetry, At, Return
      <4> QED
        BY <1>1, <2>1, <4>1 DEF Past, PastAt
    <3>3. CASE \/ PassBack(d) /\ status[d] = "returned"
               \/ RetryReturns(d)
      <4>1. status[d] = "returned" /\ Goto(d, "returned", depth[d] - 1)
        BY <3>3 DEF PassBack, RetryReturns, At, Return
      <4> QED
        BY <1>1, <2>1, <4>1 DEF Past, PastAt
    <3>4. CASE \/ PassBack(d) /\ status[d] = "threw"
               \/ RetryGivesUp(d)
      <4>1. status[d] = "threw" /\ Goto(d, "threw", depth[d] - 1)
        BY <3>4 DEF PassBack, RetryGivesUp, At, Throw
      <4> QED
        BY <1>1, <2>1, <4>1 DEF Past, PastAt
    <3>5. CASE RetryAgain(d)
      <4>1. status[d] = "threw" /\ Goto(d, "calling", depth[d] + 1)
        BY <3>5 DEF RetryAgain, At, Next_
      <4>2. PastAt("calling", depth[d] + 1) => Past(d)
        BY <1>1, <2>1, <4>1 DEF Past, PastAt
      <4> QED
        BY <4>1, <4>2
    <3> QED
      BY <1>2, <3>1, <3>2, <3>3, <3>4, <3>5 DEF PassBack
  <2>3. UNCHANGED storeVars
    BY <1>2 DEF PassThrough, PassBack, EnterRetry, RetryReturns, RetryAgain,
                RetryGivesUp, KeepAround, storeVars
  <2>4. ~Catching(d)
    BY <2>1 DEF Catching, CatchAt
  <2> QED
    BY <2>2, <2>3, <2>4, QuietMove
<1>3. ASSUME NEW d \in Deliveries, Claim(d) PROVE OwnerInv'
  <2>1. depth[d] = Pos /\ Free(KeyOf[d])
    BY <1>3, PosInList DEF Claim, At
  <2>2. /\ status'[d] = "calling" /\ depth'[d] = Pos + 1
        /\ \A e \in Deliveries \ {d} :
              status'[e] = status[e] /\ depth'[e] = depth[e]
    BY <1>3, <2>1 DEF Claim, Next_, Goto, TypeInv, TypeOK
  <2>3. \A e \in Deliveries \ {d} :
           (Past(e)' <=> Past(e)) /\ (Catching(e)' <=> Catching(e))
    BY <2>2 DEF Past, Catching, PastAt, CatchAt
  <2>4. \A e \in Deliveries : SameKey(d, e) => ~Past(e)
    BY <2>1, FreeHasNoOwner
  <2>5. claimed' = claimed \cup {KeyOf[d]} /\ handled' = handled
    BY <1>3 DEF Claim
  <2> QED
    BY <2>1, <2>3, <2>4, <2>5 DEF OwnerInv, SameKey, Free
<1>4. ASSUME NEW d \in Deliveries, ClaimRefused(d) PROVE OwnerInv'
  <2>1. depth[d] = Pos /\ Goto(d, "returned", depth[d] - 1)
    BY <1>4, PosInList DEF ClaimRefused, At, Return
  <2>2. ~PastAt("returned", depth[d] - 1)
    BY <1>1, <2>1 DEF PastAt
  <2> QED
    BY <1>4, <2>1, <2>2, QuietMove DEF ClaimRefused
<1>5. ASSUME NEW d \in Deliveries, ClaimFails(d) PROVE OwnerInv'
  <2>1. depth[d] = Pos /\ Goto(d, "threw", depth[d] - 1)
    BY <1>5, PosInList DEF ClaimFails, At, Throw
  <2>2. ~PastAt("threw", depth[d] - 1)
    BY <1>1, <2>1 DEF PastAt
  <2>3. CASE UNCHANGED storeVars
    BY <2>1, <2>2, <2>3, QuietMove
  <2>4. CASE Free(KeyOf[d]) /\ claimed' = claimed \cup {KeyOf[d]}
    <3>1. handled' = handled
      BY <1>5 DEF ClaimFails
    <3>2. \A e \in Deliveries \ {d} :
             (Past(e)' <=> Past(e)) /\ (Catching(e)' <=> Catching(e))
      BY <2>1 DEF Goto, TypeInv, TypeOK, Past, Catching, PastAt, CatchAt
    <3>3. ~Past(d)'
      BY <2>1, <2>2 DEF Goto, TypeInv, TypeOK, Past, PastAt
    <3> QED
      BY <2>4, <3>1, <3>2, <3>3 DEF OwnerInv, SameKey
  <2> QED
    BY <1>5, <2>3, <2>4 DEF ClaimFails, storeVars
<1>6. ASSUME NEW d \in Deliveries, Commit(d) PROVE OwnerInv'
  <2>1. depth[d] = Pos /\ status[d] = "returned" /\ Goto(d, "returned", Pos - 1)
    BY <1>6, PosInList DEF Commit, At, Return
  <2>2. ~PastAt("returned", Pos - 1) /\ Past(d)
    BY <1>1, <2>1 DEF PastAt, Past
  <2> QED
    BY <1>6, <2>1, <2>2, LeavingMove DEF Commit
<1>7. ASSUME NEW d \in Deliveries, CommitFails(d) PROVE OwnerInv'
  <2>1. depth[d] = Pos /\ status[d] = "returned" /\ Goto(d, "threw", Pos)
    BY <1>7, PosInList DEF CommitFails, At
  <2>2. Past(d) /\ KeyOf[d] \in claimed
    BY <1>1, <2>1 DEF PastAt, CatchAt, Past, Catching, OwnerInv
  <2>3. Past(d)' /\ Catching(d)'
    BY <1>1, <2>1 DEF Goto, TypeInv, TypeOK, Past, Catching, PastAt, CatchAt
  <2>4. \A e \in Deliveries \ {d} :
           (Past(e)' <=> Past(e)) /\ (Catching(e)' <=> Catching(e))
    BY <2>1 DEF Goto, TypeInv, TypeOK, Past, Catching, PastAt, CatchAt
  <2>5. /\ KeyOf[d] \in claimed' \cup handled'
        /\ \A k \in Keys \ {KeyOf[d]} :
              /\ k \in claimed' <=> k \in claimed
              /\ k \in handled' <=> k \in handled
    BY <1>7, <2>2 DEF CommitFails, storeVars
  <2> QED
    BY <1>1, <2>2, <2>3, <2>4, <2>5 DEF OwnerInv, SameKey
<1>8. ASSUME NEW d \in Deliveries, Release(d) \/ ReleaseFails(d) PROVE OwnerInv'
  <2>1. depth[d] = Pos /\ status[d] = "threw" /\ Goto(d, "threw", Pos - 1)
    BY <1>8, PosInList DEF Release, ReleaseFails, At, Throw
  <2>2. ~PastAt("threw", Pos - 1) /\ Past(d)
    BY <1>1, <2>1 DEF PastAt, Past
  <2> QED
    BY <1>8, <2>1, <2>2, LeavingMove DEF Release, ReleaseFails
<1>9. ASSUME NEW d \in Deliveries,
             StartHandler(d) \/ HandlerSucceeds(d) \/ HandlerFails(d)
      PROVE  OwnerInv'
  <2>1. UNCHANGED storeVars
    BY <1>9 DEF StartHandler, HandlerSucceeds, HandlerFails, KeepHistory,
                storeVars
  <2>2. ~Catching(d)
    BY <1>9 DEF StartHandler, HandlerSucceeds, HandlerFails, Catching, CatchAt
  <2>3. CASE StartHandler(d)
    <3>1. status[d] = "calling" /\ Goto(d, "handling", depth[d])
      BY <2>3 DEF StartHandler
    <3>2. PastAt("handling", depth[d]) => Past(d)
      BY <3>1 DEF PastAt, Past
    <3> QED
      BY <2>1, <2>2, <3>1, <3>2, QuietMove
  <2>4. CASE HandlerSucceeds(d) \/ HandlerFails(d)
    <3>1. status[d] = "handling" /\ depth[d] > Pos
      BY <1>1, <2>4, PosFacts DEF HandlerSucceeds, HandlerFails, ListInv
    <3>2. Past(d)
      BY <3>1 DEF Past, PastAt
    <3>3. \E s \in {"returned", "threw"} : Goto(d, s, depth[d] - 1)
      BY <2>4 DEF HandlerSucceeds, HandlerFails, Return, Throw
    <3> QED
      BY <2>1, <2>2, <3>2, <3>3, QuietMove
  <2> QED
    BY <1>9, <2>3, <2>4
<1>10. ASSUME NEW d \in Deliveries,
              Deliver(d) \/ Settle(d) \/ Redeliver(d)
       PROVE  OwnerInv'
  <2>1. \E s, i : Goto(d, s, i) /\ ~PastAt(s, i)
    BY <1>1, <1>10 DEF Deliver, Settle, Ack, Fail, Redeliver, PastAt
  <2>2. UNCHANGED storeVars
    BY <1>10 DEF Deliver, Settle, Ack, Fail, Redeliver, storeVars
  <2> QED
    BY <2>1, <2>2, QuietMove
<1>11. ASSUME NEW m \in LateMiddlewares, RegisterMiddleware(m) PROVE OwnerInv'
  BY <1>11 DEF RegisterMiddleware, OwnerInv, Past, Catching, PastAt, CatchAt
<1>12. CASE Crash
  <2>1. \A d \in Deliveries :
           status'[d] \notin {"calling", "handling", "returned", "threw"}
    BY <1>12 DEF Crash, InFlight, Idle
  <2> QED
    BY <2>1 DEF OwnerInv, Past, PastAt
<1>13. CASE UNCHANGED vars
  BY <1>13 DEF vars, OwnerInv, Past, Catching, PastAt, CatchAt
<1> QED
  BY <1>2, <1>3, <1>4, <1>5, <1>6, <1>7, <1>8, <1>9, <1>10, <1>11, <1>12, <1>13
     DEF Next, Process, Frame, Done

(***************************************************************************)
(* Mutual exclusion.                                                        *)
(***************************************************************************)
IInv == TypeInv /\ ListInv /\ OwnerInv

LEMMA IInvAlways == Idempotent => (Spec => []IInv)
<1> SUFFICES ASSUME Idempotent PROVE Spec => []IInv
  OBVIOUS
<1>1. Init => IInv
  BY TypeInit, ListInit, OwnerInit DEF IInv
<1>2. IInv /\ [Next]_vars => IInv'
  BY TypeNext, ListNext, OwnerNext DEF IInv
<1> QED
  BY <1>1, <1>2, PTL DEF Spec

\* No two deliveries of one event are in the handler together: the store's
\* atomic claim is enough, whatever fails and whenever the process restarts.
THEOREM MutualExclusionHolds == Spec => []MutualExclusion
<1>1. CASE ~Idempotent
  <2>1. MutualExclusion
    BY <1>1 DEF MutualExclusion
  <2> QED
    BY <2>1, PTL
<1>2. CASE Idempotent
  <2>1. IInv => MutualExclusion
    BY PosFacts DEF IInv, TypeInv, TypeOK, ListInv, OwnerInv, MutualExclusion,
                    Past, PastAt
  <2> QED
    BY <1>2, <2>1, IInvAlways, PTL
<1> QED
  BY <1>1, <1>2

(***************************************************************************)
(* Refinement: under the refinement mapping of ConsumerPipeline every step  *)
(* is a step of KeyedHandling or changes nothing there.                     *)
(***************************************************************************)

\* The handler succeeded for d, and the success is on its way to commit().
Succeeded(d) == status[d] = "returned" /\ Past(d)

LEMMA WorkedIsSucceeded ==
    Idempotent /\ IInv =>
        \A k \in Keys :
            Worked(k) <=> \E d \in Deliveries : KeyOf[d] = k /\ Succeeded(d)
  BY HoldsIsPast DEF IInv, Worked, Succeeded

LEMMA WorkedIsSucceededNext ==
    ASSUME Idempotent
    PROVE  IInv' =>
        (\A k \in Keys :
            Worked(k) <=> \E d \in Deliveries : KeyOf[d] = k /\ Succeeded(d))'
<1>1. IInv =>
        \A k \in Keys :
            Worked(k) <=> \E d \in Deliveries : KeyOf[d] = k /\ Succeeded(d)
  BY WorkedIsSucceeded
<1> QED
  BY <1>1, PTL

\* The phase of one key changes, the others stay.
LEMMA PhaseChange ==
    ASSUME NEW k \in Keys, NEW v,
           \A j \in Keys \ {k} : Phase(j)' = Phase(j),
           Phase(k)' = v
    PROVE  [j \in Keys |-> Phase(j)]' =
               [[j \in Keys |-> Phase(j)] EXCEPT ![k] = v]
  OBVIOUS

LEMMA PhaseKept ==
    ASSUME \A j \in Keys : Phase(j)' = Phase(j)
    PROVE  [j \in Keys |-> Phase(j)]' = [j \in Keys |-> Phase(j)]
  OBVIOUS

\* A step of d on its own key leaves the phase of every other key alone.
LEMMA OtherPhases ==
    ASSUME Idempotent, IInv, IInv', NEW d \in Deliveries,
           \A e \in Deliveries \ {d} : Succeeded(e)' <=> Succeeded(e),
           \A j \in Keys \ {KeyOf[d]} :
              /\ j \in claimed' <=> j \in claimed
              /\ j \in handled' <=> j \in handled
    PROVE  \A j \in Keys \ {KeyOf[d]} : Phase(j)' = Phase(j)
<1>1. \A j \in Keys \ {KeyOf[d]} : Worked(j)' <=> Worked(j)
  BY WorkedIsSucceeded, WorkedIsSucceededNext
<1> QED
  BY <1>1 DEF Phase

\* A delivery past its claim decides the phase of its key.
LEMMA OwnPhase ==
    ASSUME Idempotent, IInv, NEW d \in Deliveries, Past(d), ~Catching(d)
    PROVE  Phase(KeyOf[d]) = IF status[d] = "returned" THEN "worked" ELSE "busy"
<1>1. KeyOf[d] \in claimed /\ KeyOf[d] \notin handled /\ KeyOf[d] \in Keys
  BY KeysAssumption DEF IInv, OwnerInv
<1>2. \A e \in Deliveries : KeyOf[e] = KeyOf[d] /\ Past(e) => e = d
  BY DEF IInv, OwnerInv, SameKey
<1>3. Worked(KeyOf[d]) <=> status[d] = "returned"
  BY <1>1, <1>2, WorkedIsSucceeded DEF Succeeded
<1> QED
  BY <1>1, <1>3 DEF Phase

LEMMA OwnPhaseNext ==
    ASSUME Idempotent
    PROVE  IInv' =>
        (\A d \in Deliveries :
            Past(d) /\ ~Catching(d) =>
               Phase(KeyOf[d]) =
                  IF status[d] = "returned" THEN "worked" ELSE "busy")'
<1>1. IInv =>
        \A d \in Deliveries :
            Past(d) /\ ~Catching(d) =>
               Phase(KeyOf[d]) =
                  IF status[d] = "returned" THEN "worked" ELSE "busy"
  BY OwnPhase
<1> QED
  BY <1>1, PTL

LEMMA MapInit == Init => Promise!Init
  BY DEF Init, Promise!Init, Phase

LEMMA MapNext ==
    ASSUME Idempotent, MaxAttempts # 0, IInv, IInv', [Next]_vars
    PROVE  [Promise!Next]_Promise!vars
<1> DEFINE phases == [k \in Keys |-> Phase(k)]
<1>1. /\ Pos \in Nat /\ Pos >= 1
      /\ \A d \in Deliveries : depth[d] \in Nat /\ KeyOf[d] \in Keys
  BY PosFacts, KeysAssumption DEF IInv, TypeInv, TypeOK
<1>2. \A d \in Deliveries : \A s, i :
         Goto(d, s, i) =>
            /\ \A e \in Deliveries \ {d} :
                  (Succeeded(e)' <=> Succeeded(e)) /\ (Past(e)' <=> Past(e))
            /\ Past(d)' <=> PastAt(s, i)
            /\ Catching(d)' <=> CatchAt(s, i)
            /\ status'[d] = s /\ depth'[d] = i
  BY DEF Goto, Succeeded, Past, Catching, IInv, TypeInv, TypeOK
<1>3. ASSUME NEW d \in Deliveries, NEW s, NEW i, Goto(d, s, i),
             UNCHANGED <<claimed, handled, successes>>,
             PastAt(s, i) /\ s = "returned" <=> Succeeded(d)
      PROVE  UNCHANGED Promise!vars
  <2>1. \A e \in Deliveries : Succeeded(e)' <=> Succeeded(e)
    BY <1>2, <1>3 DEF Succeeded
  <2>2. \A k \in Keys : Worked(k)' <=> Worked(k)
    BY <2>1, WorkedIsSucceeded, WorkedIsSucceededNext
  <2>3. \A k \in Keys : Phase(k)' = Phase(k)
    BY <1>3, <2>2 DEF Phase
  <2> QED
    BY <1>3, <2>3, PhaseKept DEF Promise!vars
<1>4. ASSUME NEW d \in Deliveries,
             \/ Deliver(d) \/ Frame(d) \/ HandlerFails(d) \/ Settle(d)
             \/ Redeliver(d),
             UNCHANGED storeVars,
             ~CommitFails(d)
      PROVE  UNCHANGED Promise!vars \/ ReleaseFails(d) \/ Release(d)
  <2>1. CASE \/ PassThrough(d) \/ PassBack(d) \/ EnterRetry(d)
             \/ RetryReturns(d) \/ RetryAgain(d) \/ RetryGivesUp(d)
    <3>1. depth[d] # Pos
      BY <2>1, PosInList
         DEF PassThrough, PassBack, EnterRetry, RetryReturns, RetryAgain,
             RetryGivesUp, At, IInv
    <3>2. \/ status[d] \in {"calling", "threw"} /\
                \E s \in {"calling", "threw"} : \E i : Goto(d, s, i)
          \/ status[d] = "returned" /\ Goto(d, "returned", depth[d] - 1)
      BY <2>1 DEF PassThrough, PassBack, EnterRetry, RetryReturns, RetryAgain,
                  RetryGivesUp, At, Next_, Return, Throw
    <3>3. UNCHANGED <<claimed, handled, successes>>
      BY <2>1, <1>4 DEF PassThrough, PassBack, EnterRetry, RetryReturns,
                  RetryAgain, RetryGivesUp, KeepHistory, KeepAround, storeVars
    <3>4. PastAt("returned", depth[d] - 1) <=> PastAt("returned", depth[d])
      BY <1>1, <3>1 DEF PastAt
    <3> QED
      BY <1>3, <3>2, <3>3, <3>4 DEF Succeeded, Past
  <2>2. CASE ClaimRefused(d) \/ ClaimFails(d)
    <3>1. depth[d] = Pos /\ status[d] = "calling"
      BY <2>2, PosInList DEF ClaimRefused, ClaimFails, At, IInv
    <3>2. \E s \in {"returned", "threw"} : Goto(d, s, Pos - 1)
      BY <2>2, <3>1 DEF ClaimRefused, ClaimFails, Return, Throw
    <3>3. \A s : ~PastAt(s, Pos - 1)
      BY <1>1 DEF PastAt
    <3>4. UNCHANGED <<claimed, handled, successes>>
      BY <2>2, <1>4 DEF ClaimRefused, ClaimFails, KeepHistory, storeVars
    <3> QED
      BY <1>3, <3>1, <3>2, <3>3, <3>4 DEF Succeeded
  <2>3. CASE \/ StartHandler(d) \/ HandlerFails(d) \/ Deliver(d)
             \/ Settle(d) \/ Redeliver(d)
    <3>1. \E s \in {"calling", "handling", "threw", "acked", "failed", "queued"} :
             \E i : Goto(d, s, i)
      BY <2>3 DEF StartHandler, HandlerFails, Deliver, Settle, Ack, Fail,
                  Redeliver, Throw
    <3>2. ~Succeeded(d)
      <4>1. \/ status[d] # "returned"
            \/ status[d] = "returned" /\ depth[d] = 0
        BY <2>3 DEF StartHandler, HandlerFails, Deliver, Settle, Ack, Fail,
                    Redeliver
      <4> QED
        BY <1>1, <4>1 DEF Succeeded, Past, PastAt
    <3>3. UNCHANGED <<claimed, handled, successes>>
      BY <2>3, <1>4 DEF StartHandler, HandlerFails, Deliver, Settle, Ack, Fail,
                  Redeliver, KeepHistory, storeVars
    <3> QED
      BY <1>3, <3>1, <3>2, <3>3
  <2>4. ~Claim(d) /\ ~Commit(d)
    <3>1. ~Claim(d)
      BY <1>4 DEF Claim, Free, storeVars
    <3>2. ASSUME Commit(d) PROVE FALSE
      <4>1. Past(d) /\ ~Catching(d)
        BY <1>1, <3>2, PosInList DEF Commit, At, Past, PastAt, Catching,
                                     CatchAt, IInv
      <4> QED
        BY <1>4, <3>2, <4>1 DEF Commit, storeVars, IInv, OwnerInv
    <3> QED
      BY <3>1, <3>2
  <2> QED
    BY <1>4, <2>1, <2>2, <2>3, <2>4 DEF Frame
<1>5. ASSUME NEW d \in Deliveries, NEW v, NEW s, NEW i, Goto(d, s, i),
             \A j \in Keys \ {KeyOf[d]} :
                /\ j \in claimed' <=> j \in claimed
                /\ j \in handled' <=> j \in handled,
             Phase(KeyOf[d])' = v
      PROVE  phases' = [phases EXCEPT ![KeyOf[d]] = v]
  BY <1>1, <1>2, <1>5, OtherPhases, PhaseChange
<1>6. ASSUME NEW d \in Deliveries, Claim(d) PROVE Promise!Next
  <2>1. depth[d] = Pos /\ Goto(d, "calling", Pos + 1) /\ Free(KeyOf[d])
    BY <1>6, PosInList DEF Claim, At, Next_, IInv
  <2>2. Past(d)' /\ ~Catching(d)'
    BY <1>1, <1>2, <2>1 DEF PastAt, CatchAt
  <2>3. Phase(KeyOf[d])' = "busy"
    BY <1>2, <2>1, <2>2, OwnPhaseNext
  <2>4. Phase(KeyOf[d]) = "free"
    BY <2>1 DEF Free, Phase
  <2>5. phases' = [phases EXCEPT ![KeyOf[d]] = "busy"]
    BY <1>5, <1>6, <2>1, <2>3 DEF Claim
  <2>6. UNCHANGED successes
    BY <1>6 DEF Claim, KeepHistory
  <2> QED
    BY <1>1, <2>4, <2>5, <2>6 DEF Promise!Next, Promise!Begin, Promise!Move
<1>7. ASSUME NEW d \in Deliveries, ClaimFails(d) PROVE [Promise!Next]_Promise!vars
  <2>1. CASE UNCHANGED storeVars
    <3>1. ~CommitFails(d) /\ ~ReleaseFails(d) /\ ~Release(d)
      BY <1>7 DEF ClaimFails, CommitFails, ReleaseFails, Release, At
    <3> QED
      BY <1>4, <1>7, <2>1, <3>1 DEF Frame
  <2>2. CASE Free(KeyOf[d]) /\ claimed' = claimed \cup {KeyOf[d]}
    <3>1. /\ depth[d] = Pos /\ Goto(d, "threw", Pos - 1)
          /\ handled' = handled /\ UNCHANGED successes
      BY <1>7, PosInList DEF ClaimFails, At, Throw, IInv, KeepHistory
    <3>2. ~Worked(KeyOf[d])'
      <4>1. \A e \in Deliveries : SameKey(d, e) => ~Past(e)
        BY <2>2, FreeHasNoOwner DEF IInv
      <4>2. \A e \in Deliveries : SameKey(d, e) => ~Succeeded(e)'
        <5>1. ~Past(d)'
          BY <1>1, <1>2, <3>1 DEF PastAt
        <5> QED
          BY <1>2, <3>1, <4>1, <5>1 DEF Succeeded
      <4> QED
        BY <1>1, <4>2, WorkedIsSucceededNext DEF SameKey
    <3>3. Phase(KeyOf[d])' = "busy" /\ Phase(KeyOf[d]) = "free"
      BY <2>2, <3>1, <3>2 DEF Phase, Free
    <3>4. phases' = [phases EXCEPT ![KeyOf[d]] = "busy"]
      BY <1>5, <2>2, <3>1, <3>3
    <3> QED
      BY <1>1, <3>1, <3>3, <3>4 DEF Promise!Next, Promise!Begin, Promise!Move
  <2> QED
    BY <1>7, <2>1, <2>2 DEF ClaimFails, storeVars
<1>8. ASSUME NEW d \in Deliveries, HandlerSucceeds(d) PROVE Promise!Next
  <2>1. /\ status[d] = "handling" /\ Past(d) /\ ~Catching(d)
        /\ depth[d] > Pos /\ Goto(d, "returned", depth[d] - 1)
    BY <1>1, <1>8, PosFacts DEF HandlerSucceeds, Return, IInv, ListInv, Past,
                                PastAt, Catching, CatchAt
  <2>2. Past(d)' /\ ~Catching(d)'
    BY <1>1, <1>2, <2>1 DEF PastAt, CatchAt
  <2>3. Phase(KeyOf[d]) = "busy" /\ Phase(KeyOf[d])' = "worked"
    BY <1>2, <2>1, <2>2, OwnPhase, OwnPhaseNext
  <2>4. phases' = [phases EXCEPT ![KeyOf[d]] = "worked"]
    BY <1>5, <1>8, <2>1, <2>3 DEF HandlerSucceeds
  <2>5. successes' = [successes EXCEPT ![KeyOf[d]] = IF @ = 2 THEN 2 ELSE @ + 1]
    BY <1>8 DEF HandlerSucceeds, OneMore
  <2> QED
    BY <1>1, <2>3, <2>4, <2>5 DEF Promise!Next, Promise!Succeed, Promise!Move
<1>9. ASSUME NEW d \in Deliveries, Commit(d) \/ CommitFails(d)
      PROVE  [Promise!Next]_Promise!vars
  <2>1. depth[d] = Pos /\ status[d] = "returned"
    BY <1>9, PosInList DEF Commit, CommitFails, At, IInv
  <2>2. Phase(KeyOf[d]) = "worked" /\ KeyOf[d] \in claimed
    BY <1>1, <2>1, OwnPhase DEF Past, PastAt, Catching, CatchAt, IInv, OwnerInv
  <2>3. \E s, i : Goto(d, s, i)
    BY <1>9 DEF Commit, CommitFails, Return
  <2>4. UNCHANGED successes
    BY <1>9 DEF Commit, CommitFails, KeepHistory
  <2>5. CASE claimed' = claimed \ {KeyOf[d]} /\ handled' = handled \cup {KeyOf[d]}
    <3>1. Phase(KeyOf[d])' = "done"
      BY <2>5 DEF Phase
    <3>2. phases' = [phases EXCEPT ![KeyOf[d]] = "done"]
      BY <1>5, <2>3, <2>5, <3>1
    <3> QED
      BY <1>1, <2>2, <2>4, <3>2 DEF Promise!Next, Promise!Record, Promise!Move
  <2>6. CASE CommitFails(d) /\ UNCHANGED storeVars
    <3>1. Forgets
      BY <2>6 DEF CommitFails, Forgets
    <3>2. Goto(d, "threw", Pos)
      BY <2>1, <2>6 DEF CommitFails
    <3>3. ~Worked(KeyOf[d])'
      <4>1. \A e \in Deliveries : SameKey(d, e) /\ e # d => ~Past(e)
        BY <1>1, <2>1 DEF IInv, OwnerInv, Past, PastAt
      <4>2. \A e \in Deliveries : SameKey(d, e) => ~Succeeded(e)'
        BY <1>2, <3>2, <4>1 DEF Succeeded
      <4> QED
        BY <1>1, <4>2, WorkedIsSucceededNext DEF SameKey
    <3>4. KeyOf[d] \notin handled
      BY <1>1, <2>1 DEF Past, PastAt, Catching, CatchAt, IInv, OwnerInv
    <3>5. Phase(KeyOf[d])' = "busy"
      BY <2>2, <2>6, <3>3, <3>4 DEF Phase, storeVars
    <3>6. phases' = [phases EXCEPT ![KeyOf[d]] = "busy"]
      BY <1>5, <2>3, <2>6, <3>5 DEF storeVars
    <3> QED
      BY <1>1, <2>2, <2>4, <3>1, <3>6
         DEF Promise!Next, Promise!Forget, Promise!Move
  <2> QED
    BY <1>9, <2>5, <2>6 DEF Commit, CommitFails
<1>10. ASSUME NEW d \in Deliveries, Release(d) \/ ReleaseFails(d)
       PROVE  [Promise!Next]_Promise!vars
  <2>1. /\ depth[d] = Pos /\ status[d] = "threw" /\ Goto(d, "threw", Pos - 1)
        /\ UNCHANGED <<handled, successes>>
        /\ claimed' \in {claimed, claimed \ {KeyOf[d]}}
    BY <1>10, PosInList DEF Release, ReleaseFails, At, Throw, IInv, KeepHistory
  <2>2. CASE claimed' = claimed
    <3>1. PastAt("threw", Pos - 1) /\ "threw" = "returned" <=> Succeeded(d)
      BY <2>1 DEF Succeeded
    <3> QED
      BY <1>3, <2>1, <2>2, <3>1
  <2>3. CASE claimed' # claimed
    <3>1. KeyOf[d] \in claimed /\ claimed' = claimed \ {KeyOf[d]}
      BY <2>1, <2>3
    <3>2. ~Worked(KeyOf[d])
      <4>1. \A e \in Deliveries : SameKey(d, e) /\ e # d => ~Past(e)
        BY <1>1, <2>1 DEF IInv, OwnerInv, Past, PastAt
      <4>2. \A e \in Deliveries : SameKey(d, e) => ~Succeeded(e)
        BY <2>1, <4>1 DEF Succeeded
      <4> QED
        BY <1>1, <4>2, WorkedIsSucceeded DEF SameKey
    <3>3. CASE KeyOf[d] \in handled
      <4>1. \A e \in Deliveries : Succeeded(e)' <=> Succeeded(e)
        BY <1>2, <2>1 DEF Succeeded
      <4>2. \A k \in Keys : Worked(k)' <=> Worked(k)
        BY <4>1, WorkedIsSucceeded, WorkedIsSucceededNext
      <4>3. \A k \in Keys : Phase(k)' = Phase(k)
        BY <2>1, <3>1, <3>3, <4>2 DEF Phase
      <4> QED
        BY <2>1, <4>3, PhaseKept DEF Promise!vars
    <3>4. CASE KeyOf[d] \notin handled
      <4>1. Phase(KeyOf[d]) = "busy" /\ Phase(KeyOf[d])' = "free"
        BY <2>1, <3>1, <3>2, <3>4 DEF Phase
      <4>2. phases' = [phases EXCEPT ![KeyOf[d]] = "free"]
        BY <1>5, <2>1, <3>1, <4>1
      <4> QED
        BY <1>1, <2>1, <4>1, <4>2
           DEF Promise!Next, Promise!Abandon, Promise!Move
    <3> QED
      BY <3>3, <3>4
  <2> QED
    BY <2>2, <2>3
<1>11. ASSUME NEW m \in LateMiddlewares, RegisterMiddleware(m)
       PROVE  UNCHANGED Promise!vars
  <2>1. /\ UNCHANGED <<claimed, handled, successes>>
        /\ \A e \in Deliveries : Succeeded(e)' <=> Succeeded(e)
    BY <1>11 DEF RegisterMiddleware, Succeeded, Past
  <2>2. \A k \in Keys : Phase(k)' = Phase(k)
    BY <2>1, WorkedIsSucceeded, WorkedIsSucceededNext DEF Phase
  <2> QED
    BY <2>1, <2>2, PhaseKept DEF Promise!vars
<1>12. CASE Crash
  <2>1. Forgets /\ UNCHANGED successes
    BY <1>12, BoundsAssumption DEF Crash, Forgets, IInv, TypeInv, TypeOK
  <2>2. \A k \in Keys : ~Worked(k)'
    <3>1. \A e \in Deliveries : ~Succeeded(e)'
      BY <1>12 DEF Crash, InFlight, Idle, Succeeded
    <3> QED
      BY <3>1, WorkedIsSucceededNext
  <2>3. CASE Durable
    <3>1. \A k \in Keys :
             Phase(k)' = IF Phase(k) = "worked" THEN "busy" ELSE Phase(k)
      BY <1>12, <2>2, <2>3 DEF Crash, storeVars, Phase
    <3>2. phases' = [k \in Keys |-> IF phases[k] = "worked" THEN "busy"
                                                          ELSE phases[k]]
      BY <3>1
    <3> QED
      BY <2>1, <3>2 DEF Promise!Next, Promise!Interrupt
  <2>4. CASE ~Durable
    <3>1. \A k \in Keys : Phase(k)' = "free"
      BY <1>12, <2>4 DEF Crash, Phase
    <3>2. phases' = [k \in Keys |-> "free"]
      BY <3>1
    <3> QED
      BY <2>1, <3>2 DEF Promise!Next, Promise!Restart
  <2> QED
    BY <2>3, <2>4
<1>13. CASE UNCHANGED vars
  <2>1. /\ UNCHANGED <<claimed, handled, successes>>
        /\ \A e \in Deliveries : Succeeded(e)' <=> Succeeded(e)
    BY <1>13 DEF vars, Succeeded, Past
  <2>2. \A k \in Keys : Phase(k)' = Phase(k)
    BY <2>1, WorkedIsSucceeded, WorkedIsSucceededNext DEF Phase
  <2> QED
    BY <2>1, <2>2, PhaseKept DEF Promise!vars
<1>14. ASSUME NEW d \in Deliveries, Process(d) \/ Redeliver(d)
       PROVE  [Promise!Next]_Promise!vars
  <2>1. CASE \/ Claim(d) \/ ClaimFails(d) \/ HandlerSucceeds(d) \/ Commit(d)
             \/ CommitFails(d) \/ Release(d) \/ ReleaseFails(d)
    BY <1>6, <1>7, <1>8, <1>9, <1>10, <2>1
  <2>2. CASE ~(\/ Claim(d) \/ ClaimFails(d) \/ HandlerSucceeds(d) \/ Commit(d)
               \/ CommitFails(d) \/ Release(d) \/ ReleaseFails(d))
    <3>1. UNCHANGED storeVars
      BY <1>14, <2>2
         DEF Process, Deliver, Frame, PassThrough, PassBack, ClaimRefused,
             EnterRetry, RetryReturns, RetryAgain, RetryGivesUp, StartHandler,
             HandlerFails, Settle, Ack, Fail, Redeliver, KeepAround, storeVars
    <3> QED
      BY <1>4, <1>14, <2>2, <3>1 DEF Process
  <2> QED
    BY <2>1, <2>2
<1> QED
  BY <1>11, <1>12, <1>13, <1>14 DEF Next, Done

\* The pipeline implements KeyedHandling for every middleware list with an
\* idempotency middleware in it, provided a retry middleware runs the handler
\* at all (with maxAttempts 0 it reports success without running it).
THEOREM Refinement ==
    Idempotent /\ MaxAttempts # 0 => (Spec => ImplementsPromise)
<1> SUFFICES ASSUME Idempotent, MaxAttempts # 0 PROVE Spec => ImplementsPromise
  OBVIOUS
<1>1. IInv /\ IInv' /\ [Next]_vars => [Promise!Next]_Promise!vars
  BY MapNext
<1> QED
  BY <1>1, MapInit, IInvAlways, PTL DEF Spec, ImplementsPromise, Promise!Spec

(***************************************************************************)
(* What KeyedHandling promises, of the phases and effects that the pipeline *)
(* is mapped to: the invariants are those of KeyedHandling alone.           *)
(***************************************************************************)
PromiseType ==
    /\ [k \in Keys |-> Phase(k)] \in [Keys -> Promise!Phases]
    /\ successes \in [Keys -> 0..2]

\* A success is recorded only after it happened, whatever is forgotten.
DoneMeansEffect ==
    \A k \in Keys : Phase(k) \in {"worked", "done"} => successes[k] >= 1

PromiseInv == PromiseType /\ Promise!OnceAndKnown /\ DoneMeansEffect

\* Each action moves one key, in one of these ways.
KeyMoves(k) ==
    /\ \A j \in Keys \ {k} : Phase(j)' = Phase(j) /\ successes'[j] = successes[j]
    /\ \/ /\ Phase(k) = "free" /\ Phase(k)' = "busy"
          /\ successes'[k] = successes[k]
       \/ /\ Phase(k) = "busy" /\ Phase(k)' = "worked"
          /\ successes'[k] = IF successes[k] = 2 THEN 2 ELSE successes[k] + 1
       \/ /\ Phase(k) = "worked" /\ Phase(k)' = "done"
          /\ successes'[k] = successes[k]
       \/ /\ Phase(k) = "busy" /\ Phase(k)' = "free"
          /\ successes'[k] = successes[k]
       \/ /\ Forgets /\ Phase(k) = "worked" /\ Phase(k)' = "busy"
          /\ successes'[k] = successes[k]

LEMMA KeyMovesForm ==
  ASSUME PromiseType, NEW k \in Keys,
         \/ Promise!Begin(k) \/ Promise!Succeed(k) \/ Promise!Record(k)
         \/ Promise!Abandon(k) \/ Promise!Forget(k)
  PROVE  KeyMoves(k) /\ successes' \in [Keys -> 0..2]
<1> DEFINE ph == [j \in Keys |-> Phase(j)]
<1>1. /\ \A j \in Keys : ph[j] = Phase(j)
      /\ \A j \in Keys : ph'[j] = Phase(j)'
  OBVIOUS
<1>2. ASSUME NEW from, NEW to, Promise!Move(k, from, to)
      PROVE  /\ Phase(k) \in from /\ Phase(k)' = to
             /\ \A j \in Keys \ {k} : Phase(j)' = Phase(j)
  <2>1. ph[k] \in from /\ ph' = [ph EXCEPT ![k] = to]
    BY <1>2 DEF Promise!Move
  <2> HIDE DEF ph
  <2>2. ph'[k] = to /\ \A j \in Keys \ {k} : ph'[j] = ph[j]
    <3>1. ph \in [Keys -> Promise!Phases]
      BY DEF PromiseType, ph
    <3> QED
      BY <2>1, <3>1
  <2> QED
    BY <1>1, <2>1, <2>2
<1> HIDE DEF ph
<1>3. CASE Promise!Begin(k)
  BY <1>2, <1>3 DEF Promise!Begin, KeyMoves, PromiseType
<1>4. CASE Promise!Succeed(k)
  BY <1>2, <1>4 DEF Promise!Succeed, KeyMoves, PromiseType
<1>5. CASE Promise!Record(k)
  BY <1>2, <1>5 DEF Promise!Record, KeyMoves, PromiseType
<1>6. CASE Promise!Abandon(k)
  BY <1>2, <1>6 DEF Promise!Abandon, KeyMoves, PromiseType
<1>7. CASE Promise!Forget(k)
  BY <1>2, <1>7 DEF Promise!Forget, KeyMoves, PromiseType
<1> QED
  BY <1>3, <1>4, <1>5, <1>6, <1>7

LEMMA PromiseInit == Promise!Init => PromiseInv
<1> SUFFICES ASSUME Promise!Init PROVE PromiseInv
  OBVIOUS
<1>1. [k \in Keys |-> Phase(k)] = [k \in Keys |-> "free"]
  BY DEF Promise!Init
<1>2. ASSUME NEW k \in Keys PROVE Phase(k) = "free"
  <2>1. [j \in Keys |-> Phase(j)][k] = [j \in Keys |-> "free"][k]
    BY <1>1
  <2> QED
    BY <2>1
<1>3. successes = [k \in Keys |-> 0]
  BY DEF Promise!Init
<1> QED
  BY <1>2, <1>3 DEF PromiseInv, PromiseType, Promise!OnceAndKnown,
     Promise!Phases, DoneMeansEffect

LEMMA PromiseNext == PromiseInv /\ [Promise!Next]_Promise!vars => PromiseInv'
<1> SUFFICES ASSUME PromiseInv, [Promise!Next]_Promise!vars PROVE PromiseInv'
  OBVIOUS
<1>1. PromiseType /\ Promise!OnceAndKnown /\ DoneMeansEffect
  BY DEF PromiseInv
<1>2. \A k \in Keys : Phase(k) \in Promise!Phases /\ successes[k] \in 0..2
  BY <1>1 DEF PromiseType
<1>3. ~Forgets => \A k \in Keys : /\ successes[k] <= 1
                                  /\ Phase(k) \in {"worked", "done"} <=> successes[k] = 1
  BY <1>1 DEF Promise!OnceAndKnown
<1>4. ASSUME NEW k \in Keys, KeyMoves(k), successes' \in [Keys -> 0..2]
      PROVE  PromiseInv'
  <2>1. PromiseType'
    BY <1>2, <1>4 DEF KeyMoves, PromiseType, Promise!Phases
  <2>2. Promise!OnceAndKnown'
    BY <1>2, <1>3, <1>4 DEF KeyMoves, Promise!OnceAndKnown
  <2>3. DoneMeansEffect'
    BY <1>1, <1>2, <1>4 DEF KeyMoves, DoneMeansEffect
  <2> QED
    BY <2>1, <2>2, <2>3 DEF PromiseInv
<1>5. ASSUME Forgets, successes' = successes,
             \A k \in Keys : /\ Phase(k)' \in Promise!Phases
                             /\ Phase(k)' \in {"worked", "done"} => Phase(k) \in {"worked", "done"}
      PROVE  PromiseInv'
  BY <1>1, <1>5 DEF PromiseInv, PromiseType, Promise!OnceAndKnown, DoneMeansEffect
<1>6. CASE Promise!Interrupt
  <2>1. [k \in Keys |-> Phase(k)'] =
        [k \in Keys |-> IF Phase(k) = "worked" THEN "busy" ELSE Phase(k)]
    BY <1>6 DEF Promise!Interrupt
  <2>2. ASSUME NEW k \in Keys
        PROVE  Phase(k)' = IF Phase(k) = "worked" THEN "busy" ELSE Phase(k)
    <3>1. [j \in Keys |-> Phase(j)'][k] =
          [j \in Keys |-> IF Phase(j) = "worked" THEN "busy" ELSE Phase(j)][k]
      BY <2>1
    <3> QED
      BY <3>1
  <2>3. Forgets /\ successes' = successes
    BY <1>6 DEF Promise!Interrupt
  <2> QED
    BY <1>2, <1>5, <2>2, <2>3 DEF Promise!Phases
<1>7. CASE Promise!Restart
  <2>1. [k \in Keys |-> Phase(k)'] = [k \in Keys |-> "free"]
    BY <1>7 DEF Promise!Restart
  <2>2. ASSUME NEW k \in Keys PROVE Phase(k)' = "free"
    <3>1. [j \in Keys |-> Phase(j)'][k] = [j \in Keys |-> "free"][k]
      BY <2>1
    <3> QED
      BY <3>1
  <2>3. Forgets /\ successes' = successes
    BY <1>7 DEF Promise!Restart
  <2> QED
    BY <1>5, <2>2, <2>3 DEF Promise!Phases
<1>8. CASE UNCHANGED Promise!vars
  <2>1. [k \in Keys |-> Phase(k)'] = [k \in Keys |-> Phase(k)] /\ successes' = successes
    BY <1>8 DEF Promise!vars
  <2>2. ASSUME NEW k \in Keys PROVE Phase(k)' = Phase(k)
    <3>1. [j \in Keys |-> Phase(j)'][k] = [j \in Keys |-> Phase(j)][k]
      BY <2>1
    <3> QED
      BY <3>1
  <2> QED
    BY <1>1, <2>1, <2>2 DEF PromiseInv, PromiseType, Promise!OnceAndKnown, DoneMeansEffect
<1> QED
  BY <1>1, <1>4, <1>6, <1>7, <1>8, KeyMovesForm DEF Promise!Next

LEMMA PromiseKept == ImplementsPromise => []PromiseInv
  BY PromiseInit, PromiseNext, PTL DEF ImplementsPromise, Promise!Spec

\* With a store that keeps what it committed and a process that goes on, every
\* event has its effect at most once, and the store knows whether it had it.
THEOREM OnceAndKnownHolds ==
    Idempotent /\ MaxAttempts # 0 => (Spec => []OnceAndKnown)
<1>1. PromiseInv => OnceAndKnown
  BY DEF PromiseInv, OnceAndKnown
<1>2. ImplementsPromise => []OnceAndKnown
  BY <1>1, PromiseKept, PTL
<1> QED
  BY <1>2, Refinement

\* The store records a key as handled only after its handler succeeded, even
\* when commits fail and the process restarts.
THEOREM HandledMeansSucceededHolds ==
    Idempotent /\ MaxAttempts # 0 => (Spec => []HandledMeansSucceeded)
<1>1. TypeOK /\ PromiseInv => HandledMeansSucceeded
  BY DEF TypeOK, PromiseInv, DoneMeansEffect, HandledMeansSucceeded, Phase
<1>2. ImplementsPromise /\ []TypeOK => []HandledMeansSucceeded
  BY <1>1, PromiseKept, PTL
<1> QED
  BY <1>2, Refinement, TypeCorrect

\* A claim is given up by the delivery that holds it, on its way out of the
\* idempotency frame, or by a restart.
THEOREM ReleasedByHolderHolds == Spec => ReleasedByHolder
<1> DEFINE ByHolder ==
        \A k \in claimed \ claimed' :
           \/ \E d \in Deliveries : KeyOf[d] = k /\ Holds(d)
                                    /\ status[d] \in {"returned", "threw"}
           \/ crashes' > crashes
<1>1. TypeInv /\ [Next]_vars => [ByHolder]_vars
  <2> SUFFICES ASSUME TypeInv, [Next]_vars, NEW k \in claimed \ claimed',
                      ~(crashes' > crashes)
               PROVE  \E d \in Deliveries : KeyOf[d] = k /\ Holds(d)
                                    /\ status[d] \in {"returned", "threw"}
    OBVIOUS
  <2>1. ~Crash
    BY DEF Crash, TypeInv, TypeOK
  <2>2. PICK d \in Deliveries :
           /\ Commit(d) \/ CommitFails(d) \/ Release(d) \/ ReleaseFails(d)
           /\ k = KeyOf[d]
    BY <2>1
       DEF Next, Process, Deliver, Frame, PassThrough, PassBack, Claim,
           ClaimRefused, ClaimFails, Commit, CommitFails, Release,
           ReleaseFails, EnterRetry, RetryReturns, RetryAgain, RetryGivesUp,
           StartHandler, HandlerSucceeds, HandlerFails, Settle, Ack, Fail,
           Redeliver, RegisterMiddleware, Done, KeepHistory, KeepAround,
           storeVars, vars
  <2>3. /\ status[d] \in {"returned", "threw"}
        /\ depth[d] \in DOMAIN middlewares
        /\ middlewares[depth[d]] = "idempotency"
    BY <2>2 DEF Commit, CommitFails, Release, ReleaseFails, At
  <2>4. depth[d] \in Entered(d)
    <3>1. depth[d] \in Nat /\ depth[d] >= 1
      BY <2>3 DEF TypeInv, TypeOK
    <3> QED
      BY <2>3, <3>1 DEF Entered
  <2> QED
    BY <2>2, <2>3, <2>4 DEF Holds
<1>2. Spec => []TypeInv
  BY TypeInit, TypeNext, PTL DEF Spec
<1>3. Spec => [][ByHolder]_vars
  BY <1>1, <1>2, PTL DEF Spec
<1> QED
  BY <1>3 DEF ReleasedByHolder

(***************************************************************************)
(* No event is dropped.  A delivery that comes back without a success left  *)
(* another one behind that holds the key, or held it and failed.            *)
(***************************************************************************)
\* A store whose claims are never left behind: claim() and release() do not fail,
\* and claims go down with the process, as the in-memory store's do.
KeepsNoClaims ==
    /\ StoreFaults \subseteq {"commit"}
    /\ Durable => MaxCrashes = 0

\* handle() returned for d, or its event is acknowledged.
Back(d) == status[d] \in {"returned", "acked"}

DropInv ==
    /\ HandledMeansSucceeded
    /\ Idempotent => \A d \in Deliveries : Succeeded(d) => successes[KeyOf[d]] >= 1
    /\ Idempotent => \A k \in claimed : \E d \in Deliveries : KeyOf[d] = k /\ Past(d)
    /\ \A d \in Deliveries :
          Back(d) => \/ successes[KeyOf[d]] >= 1
                     \/ \E e \in Deliveries : SameKey(d, e) /\ ~Back(e)

LEMMA DropInit == Init => DropInv
  BY DEF Init, DropInv, HandledMeansSucceeded, Succeeded, Back

\* A move that neither ends nor begins a hold, nor comes back from the handler.
LEMMA DropQuietMove ==
    ASSUME TypeInv, DropInv, NEW d \in Deliveries, NEW s, NEW i,
           Goto(d, s, i), UNCHANGED <<claimed, handled, successes>>,
           s \in {"returned", "acked"} => Back(d),
           Idempotent => (Past(d) => PastAt(s, i)),
           Idempotent => (s = "returned" /\ PastAt(s, i) => Succeeded(d))
    PROVE  DropInv'
<1>1. status'[d] = s /\ depth'[d] = i
  BY DEF Goto, TypeInv, TypeOK
<1>2. \A e \in Deliveries \ {d} : status'[e] = status[e] /\ depth'[e] = depth[e]
  BY DEF Goto, TypeInv, TypeOK
<1>3. \A e \in Deliveries \ {d} :
         /\ Past(e)' <=> Past(e)
         /\ Succeeded(e)' <=> Succeeded(e)
         /\ Back(e)' <=> Back(e)
  BY <1>2 DEF Past, PastAt, Succeeded, Back
<1>4. /\ Past(d)' <=> PastAt(s, i)
      /\ Succeeded(d)' <=> s = "returned" /\ PastAt(s, i)
      /\ Back(d)' => Back(d)
  BY <1>1 DEF Past, PastAt, Succeeded, Back
<1>5. HandledMeansSucceeded'
  BY DEF DropInv, HandledMeansSucceeded
<1>6. Idempotent => \A e \in Deliveries : Succeeded(e)' => successes[KeyOf[e]] >= 1
  BY <1>3, <1>4 DEF DropInv
<1>7. Idempotent => \A k \in claimed : \E e \in Deliveries : KeyOf[e] = k /\ Past(e)'
  BY <1>3, <1>4 DEF DropInv
<1>8. \A e \in Deliveries : Back(e)' => Back(e)
  BY <1>3, <1>4
<1>9. \A e \in Deliveries :
         Back(e)' => \/ successes[KeyOf[e]] >= 1
                     \/ \E f \in Deliveries : SameKey(e, f) /\ ~Back(f)'
  BY <1>8 DEF DropInv
<1> QED
  BY <1>5, <1>6, <1>7, <1>9 DEF DropInv, SameKey

\* The frames around and below the idempotency middleware.
LEMMA DropFrames ==
    ASSUME TypeInv, ListInv, DropInv, MaxAttempts # 0, NEW d \in Deliveries,
           \/ PassThrough(d) \/ PassBack(d) \/ EnterRetry(d)
           \/ RetryReturns(d) \/ RetryAgain(d) \/ RetryGivesUp(d)
    PROVE  DropInv'
<1>1. Idempotent => depth[d] # Pos
  BY PosInList
     DEF PassThrough, PassBack, EnterRetry, RetryReturns, RetryAgain, RetryGivesUp, At
<1>2. depth[d] \in Nat /\ (Idempotent => Pos \in Nat)
  BY PosFacts DEF TypeInv, TypeOK
<1>3. \/ status[d] \in {"calling", "threw"} /\ Goto(d, "calling", depth[d] + 1)
      \/ status[d] = "returned" /\ Goto(d, "returned", depth[d] - 1)
      \/ status[d] = "threw" /\ Goto(d, "threw", depth[d] - 1)
  BY DEF PassThrough, PassBack, EnterRetry, RetryReturns, RetryAgain, RetryGivesUp, At,
     Next_, Return, Throw
<1>4. \E s \in {"calling", "returned", "threw"} : \E i :
         /\ Goto(d, s, i)
         /\ s = "returned" => status[d] = "returned"
         /\ Idempotent => (Past(d) => PastAt(s, i))
         /\ Idempotent => (s = "returned" /\ PastAt(s, i) => Succeeded(d))
  <2>1. CASE status[d] \in {"calling", "threw"} /\ Goto(d, "calling", depth[d] + 1)
    BY <1>1, <1>2, <2>1 DEF Past, PastAt
  <2>2. CASE status[d] = "returned" /\ Goto(d, "returned", depth[d] - 1)
    BY <1>1, <1>2, <2>2 DEF Past, PastAt, Succeeded
  <2>3. CASE status[d] = "threw" /\ Goto(d, "threw", depth[d] - 1)
    BY <1>1, <1>2, <2>3 DEF Past, PastAt
  <2> QED
    BY <1>3, <2>1, <2>2, <2>3
<1>5. PICK s \in {"calling", "returned", "threw"} : \E i :
         /\ Goto(d, s, i)
         /\ s = "returned" => status[d] = "returned"
         /\ Idempotent => (Past(d) => PastAt(s, i))
         /\ Idempotent => (s = "returned" /\ PastAt(s, i) => Succeeded(d))
  BY <1>4
<1>6. UNCHANGED <<claimed, handled, successes>>
  BY DEF PassThrough, PassBack, EnterRetry, RetryReturns, RetryAgain, RetryGivesUp,
     KeepHistory, KeepAround, storeVars
<1>7. s \in {"returned", "acked"} => Back(d)
  BY <1>5 DEF Back
<1> QED
  BY <1>5, <1>6, <1>7, DropQuietMove

\* The handler, and what execute() and the transport do around the frames.
LEMMA DropEnds ==
    ASSUME TypeInv, ListInv, DropInv, NEW d \in Deliveries,
           StartHandler(d) \/ HandlerFails(d) \/ Deliver(d) \/ Settle(d) \/ Redeliver(d)
    PROVE  DropInv'
<1>1. UNCHANGED <<claimed, handled, successes>>
  BY DEF StartHandler, HandlerFails, Deliver, Settle, Ack, Fail, Redeliver, KeepHistory,
     storeVars
<1>2. depth[d] \in Nat /\ (Idempotent => Pos \in Nat /\ Pos >= 1)
  BY PosFacts DEF TypeInv, TypeOK
<1>3. CASE StartHandler(d)
  <2>1. status[d] = "calling" /\ Goto(d, "handling", depth[d])
    BY <1>3 DEF StartHandler
  <2>2. Past(d) => PastAt("handling", depth[d])
    BY <2>1 DEF Past, PastAt
  <2> QED
    BY <1>1, <2>1, <2>2, DropQuietMove
<1>4. CASE HandlerFails(d)
  <2>1. status[d] = "handling" /\ Goto(d, "threw", depth[d] - 1)
    BY <1>4 DEF HandlerFails, Throw
  <2>2. Idempotent => (Past(d) => PastAt("threw", depth[d] - 1))
    BY <1>2, <2>1 DEF Past, PastAt
  <2> QED
    BY <1>1, <2>1, <2>2, DropQuietMove
<1>5. CASE Deliver(d) \/ Settle(d) \/ Redeliver(d)
  <2>1. \E s \in {"calling", "acked", "failed", "queued"}, i \in 0..1 :
           Goto(d, s, i) /\ (s = "acked" => status[d] = "returned")
    BY <1>5 DEF Deliver, Settle, Ack, Fail, Redeliver
  <2>2. PICK s \in {"calling", "acked", "failed", "queued"}, i \in 0..1 :
           Goto(d, s, i) /\ (s = "acked" => status[d] = "returned")
    BY <2>1
  <2>3. s \in {"returned", "acked"} => Back(d)
    BY <2>2 DEF Back
  <2>4. Idempotent => ~Past(d)
    BY <1>2, <1>5 DEF Deliver, Settle, Ack, Fail, Redeliver, Past, PastAt
  <2> QED
    BY <1>1, <2>2, <2>3, <2>4, DropQuietMove
<1> QED
  BY <1>3, <1>4, <1>5

LEMMA DropSucceeds ==
    ASSUME TypeInv, ListInv, DropInv, NEW d \in Deliveries, HandlerSucceeds(d)
    PROVE  DropInv'
<1>1. /\ status[d] = "handling" /\ status'[d] = "returned" /\ depth'[d] = depth[d] - 1
      /\ \A e \in Deliveries \ {d} : status'[e] = status[e] /\ depth'[e] = depth[e]
      /\ UNCHANGED <<claimed, handled>>
  BY DEF HandlerSucceeds, Return, Goto, TypeInv, TypeOK
<1>2. /\ successes'[KeyOf[d]] >= 1
      /\ \A k \in Keys : successes[k] >= 1 => successes'[k] >= 1
  <2>1. successes \in [Keys -> 0..2] /\ KeyOf[d] \in Keys
    BY KeysAssumption DEF TypeInv, TypeOK
  <2>2. \A n \in 0..2 : OneMore(n) >= 1
    BY DEF OneMore
  <2>3. successes' = [successes EXCEPT ![KeyOf[d]] = OneMore(@)]
    BY DEF HandlerSucceeds
  <2> QED
    BY <2>1, <2>2, <2>3
<1>3. \A e \in Deliveries : KeyOf[e] \in Keys
  BY KeysAssumption
<1>4. Idempotent => Past(d) /\ Past(d)'
  <2>1. depth[d] > Len(InitialMiddlewares) /\ depth[d] \in Nat
    BY <1>1 DEF ListInv, TypeInv, TypeOK
  <2> QED
    BY <1>1, <2>1, PosFacts DEF Past, PastAt
<1>5. \A e \in Deliveries \ {d} :
         /\ Past(e)' <=> Past(e)
         /\ Succeeded(e)' <=> Succeeded(e)
         /\ Back(e)' <=> Back(e)
  BY <1>1 DEF Past, PastAt, Succeeded, Back
<1>6. HandledMeansSucceeded'
  BY <1>1, <1>2 DEF DropInv, HandledMeansSucceeded, TypeInv, TypeOK
<1>7. Idempotent => \A e \in Deliveries : Succeeded(e)' => successes'[KeyOf[e]] >= 1
  BY <1>2, <1>3, <1>5 DEF DropInv
<1>8. Idempotent => \A k \in claimed' : \E e \in Deliveries : KeyOf[e] = k /\ Past(e)'
  BY <1>1, <1>4, <1>5 DEF DropInv
<1>9. \A e \in Deliveries :
         Back(e)' => \/ successes'[KeyOf[e]] >= 1
                     \/ \E f \in Deliveries : SameKey(e, f) /\ ~Back(f)'
  <2> SUFFICES ASSUME NEW e \in Deliveries, Back(e)', KeyOf[e] # KeyOf[d]
               PROVE  \/ successes'[KeyOf[e]] >= 1
                      \/ \E f \in Deliveries : SameKey(e, f) /\ ~Back(f)'
    BY <1>2
  <2>1. \/ successes[KeyOf[e]] >= 1
        \/ \E f \in Deliveries : SameKey(e, f) /\ ~Back(f)
    BY <1>5 DEF DropInv
  <2> QED
    BY <1>2, <1>3, <1>5, <2>1 DEF SameKey
<1> QED
  BY <1>6, <1>7, <1>8, <1>9 DEF DropInv, SameKey

\* The idempotency frame: a delivery takes the key, gives it up, or finds another
\* one that holds it or did its work.
LEMMA DropClaims ==
    ASSUME Idempotent, TypeInv, ListInv, OwnerInv, DropInv, NEW d \in Deliveries,
           Claim(d) \/ ClaimRefused(d) \/ Commit(d) \/ CommitFails(d) \/ Release(d)
    PROVE  DropInv'
<1>1. depth[d] = Pos /\ Pos \in Nat /\ Pos >= 1
  BY PosInList, PosFacts DEF Claim, ClaimRefused, Commit, CommitFails, Release, At
<1>2. UNCHANGED successes
  BY DEF Claim, ClaimRefused, Commit, CommitFails, Release, KeepHistory
<1>3. PICK s, i : Goto(d, s, i)
  BY DEF Claim, ClaimRefused, Commit, CommitFails, Release, Next_, Return, Throw
<1>4. /\ status'[d] = s /\ depth'[d] = i
      /\ \A e \in Deliveries \ {d} : status'[e] = status[e] /\ depth'[e] = depth[e]
  BY <1>3 DEF Goto, TypeInv, TypeOK
<1>5. \A e \in Deliveries \ {d} :
         /\ Past(e)' <=> Past(e)
         /\ Succeeded(e)' <=> Succeeded(e)
         /\ Back(e)' <=> Back(e)
  BY <1>4 DEF Past, PastAt, Succeeded, Back
<1>6. ~Succeeded(d)'
  <2>1. s = "returned" => i = Pos - 1
    BY <1>1, <1>4
       DEF Claim, ClaimRefused, Commit, CommitFails, Release, Next_, Return, Throw, Goto,
           TypeInv, TypeOK
  <2> QED
    BY <1>1, <1>4, <2>1 DEF Succeeded, Past, PastAt
<1>7. Idempotent => \A e \in Deliveries : Succeeded(e)' => successes[KeyOf[e]] >= 1
  BY <1>5, <1>6 DEF DropInv
<1>8. HandledMeansSucceeded'
  <2>1. CASE UNCHANGED handled
    BY <1>2, <2>1 DEF DropInv, HandledMeansSucceeded
  <2>2. CASE (Commit(d) \/ CommitFails(d)) /\ handled' = handled \cup {KeyOf[d]}
    <3>1. Succeeded(d)
      BY <1>1, <2>2 DEF Commit, CommitFails, At, Succeeded, Past, PastAt
    <3>2. successes[KeyOf[d]] >= 1
      BY <3>1 DEF DropInv
    <3> QED
      BY <1>2, <2>2, <3>2 DEF DropInv, HandledMeansSucceeded
  <2> QED
    BY <2>1, <2>2 DEF Claim, ClaimRefused, Commit, CommitFails, Release, storeVars
<1>9. \A k \in claimed' : \E e \in Deliveries : KeyOf[e] = k /\ Past(e)'
  <2> SUFFICES ASSUME NEW k \in claimed'
               PROVE  \E e \in Deliveries : KeyOf[e] = k /\ Past(e)'
    OBVIOUS
  <2>1. CASE k \in claimed /\ k # KeyOf[d]
    BY <1>5, <2>1 DEF DropInv
  <2>2. CASE k \notin claimed
    <3>1. Claim(d) /\ k = KeyOf[d]
      BY <2>2 DEF Claim, ClaimRefused, Commit, CommitFails, Release, storeVars
    <3>2. Past(d)'
      BY <1>1, <3>1 DEF Claim, Next_, Goto, TypeInv, TypeOK, Past, PastAt
    <3> QED
      BY <3>1, <3>2
  <2>3. CASE k \in claimed /\ k = KeyOf[d]
    <3>1. CASE ClaimRefused(d)
      <4>1. ~Past(d)
        BY <1>1, <3>1 DEF ClaimRefused, At, Past, PastAt
      <4> QED
        BY <1>5, <2>3, <4>1 DEF DropInv
    <3>2. CASE CommitFails(d)
      <4>1. Past(d)'
        BY <1>1, <3>2 DEF CommitFails, Goto, TypeInv, TypeOK, Past, PastAt
      <4> QED
        BY <2>3, <4>1
    <3>3. ~Claim(d) /\ ~Commit(d) /\ ~Release(d)
      BY <2>3 DEF Claim, Free, Commit, Release
    <3> QED
      BY <3>1, <3>2, <3>3
  <2> QED
    BY <2>1, <2>2, <2>3
<1>10. \A e \in Deliveries :
          Back(e)' => \/ successes[KeyOf[e]] >= 1
                      \/ \E f \in Deliveries : SameKey(e, f) /\ ~Back(f)'
  <2>1. CASE ~ClaimRefused(d)
    <3>1. Back(d)' => Back(d)
      BY <1>4, <2>1
         DEF Claim, Commit, CommitFails, Release, At, Next_, Throw, Goto, Back, TypeInv, TypeOK
    <3>2. \A e \in Deliveries : Back(e)' => Back(e)
      BY <1>5, <3>1
    <3> QED
      BY <3>2 DEF DropInv
  <2>2. CASE ClaimRefused(d)
    <3>1. status[d] = "calling" /\ ~Past(d) /\ ~Free(KeyOf[d])
      BY <1>1, <2>2 DEF ClaimRefused, At, Past, PastAt
    <3>2. \/ successes[KeyOf[d]] >= 1
          \/ \E h \in Deliveries \ {d} : SameKey(d, h) /\ ~Back(h)
      <4>1. CASE KeyOf[d] \in handled
        BY <4>1 DEF DropInv, HandledMeansSucceeded
      <4>2. CASE KeyOf[d] \in claimed
        <5>1. PICK h \in Deliveries : KeyOf[h] = KeyOf[d] /\ Past(h)
          BY <4>2 DEF DropInv
        <5>2. Back(h) => Succeeded(h)
          BY <5>1 DEF Back, Succeeded, Past, PastAt
        <5>3. h # d
          BY <3>1, <5>1
        <5> QED
          BY <5>1, <5>2, <5>3 DEF DropInv, SameKey
      <4> QED
        BY <3>1, <4>1, <4>2 DEF Free
    <3>3. ASSUME NEW e \in Deliveries, Back(e)'
          PROVE  \/ successes[KeyOf[e]] >= 1
                 \/ \E f \in Deliveries : SameKey(e, f) /\ ~Back(f)'
      <4>1. CASE SameKey(e, d)
        BY <1>5, <3>2, <4>1 DEF SameKey
      <4>2. CASE ~SameKey(e, d)
        <5>1. Back(e)
          BY <1>5, <3>3, <4>2 DEF SameKey
        <5> QED
          BY <1>5, <4>2, <5>1 DEF DropInv, SameKey
      <4> QED
        BY <4>1, <4>2
    <3> QED
      BY <3>3
  <2> QED
    BY <2>1, <2>2
<1> QED
  BY <1>2, <1>7, <1>8, <1>9, <1>10 DEF DropInv, SameKey

LEMMA DropNext ==
    ASSUME MaxAttempts # 0, KeepsNoClaims, TypeInv, ListInv, Idempotent => OwnerInv,
           DropInv, [Next]_vars
    PROVE  DropInv'
<1>1. ASSUME NEW d \in Deliveries, Process(d) \/ Redeliver(d) PROVE DropInv'
  <2>1. CASE \/ PassThrough(d) \/ PassBack(d) \/ EnterRetry(d)
             \/ RetryReturns(d) \/ RetryAgain(d) \/ RetryGivesUp(d)
    BY <2>1, DropFrames
  <2>2. CASE StartHandler(d) \/ HandlerFails(d) \/ Deliver(d) \/ Settle(d) \/ Redeliver(d)
    BY <2>2, DropEnds
  <2>3. CASE HandlerSucceeds(d)
    BY <2>3, DropSucceeds
  <2>4. CASE Claim(d) \/ ClaimRefused(d) \/ Commit(d) \/ CommitFails(d) \/ Release(d)
    <3>1. /\ depth[d] \in DOMAIN middlewares
          /\ middlewares[depth[d]] = "idempotency"
      BY <2>4 DEF Claim, ClaimRefused, Commit, CommitFails, Release, At
    <3>2. DOMAIN middlewares = 1..Len(middlewares)
      BY DEF TypeInv, TypeOK
    <3>3. /\ depth[d] \in 1..Len(InitialMiddlewares)
          /\ InitialMiddlewares[depth[d]] = "idempotency"
      BY <3>1, <3>2, ListAssumption DEF ListInv
    <3>4. Idempotent
      BY <3>3, ListAssumption DEF Idempotent
    <3> QED
      BY <2>4, <3>4, DropClaims
  <2>5. ~ClaimFails(d) /\ ~ReleaseFails(d)
    BY DEF KeepsNoClaims, ClaimFails, ReleaseFails
  <2> QED
    BY <1>1, <2>1, <2>2, <2>3, <2>4, <2>5 DEF Process, Frame
<1>2. ASSUME NEW m \in LateMiddlewares, RegisterMiddleware(m) PROVE DropInv'
  BY <1>2 DEF RegisterMiddleware, DropInv, HandledMeansSucceeded, Succeeded, Past, Back
<1>3. CASE Crash
  <2>1. ~Durable
    BY <1>3 DEF Crash, KeepsNoClaims, TypeInv, TypeOK
  <2>2. claimed' = {} /\ handled' = {} /\ UNCHANGED successes
    BY <1>3, <2>1 DEF Crash
  <2>3. \A d \in Deliveries : (Back(d)' => Back(d)) /\ ~Succeeded(d)'
    BY <1>3 DEF Crash, InFlight, Idle, Back, Succeeded
  <2> QED
    BY <2>2, <2>3 DEF DropInv, HandledMeansSucceeded, SameKey
<1>4. CASE UNCHANGED vars
  BY <1>4 DEF vars, DropInv, HandledMeansSucceeded, Succeeded, Past, Back
<1> QED
  BY <1>1, <1>2, <1>3, <1>4 DEF Next, Done

\* No event is lost to a duplicate that was refused and acknowledged: with a store that
\* leaves no claim behind, an event all of whose deliveries are acknowledged was handled.
THEOREM NoSilentDropHolds ==
    MaxAttempts # 0 /\ KeepsNoClaims => (Spec => []NoSilentDrop)
<1> SUFFICES ASSUME MaxAttempts # 0, KeepsNoClaims PROVE Spec => []NoSilentDrop
  OBVIOUS
<1> DEFINE Inv == TypeInv /\ ListInv /\ (Idempotent => OwnerInv) /\ DropInv
<1>1. Init => Inv
  BY TypeInit, ListInit, OwnerInit, DropInit
<1>2. Inv /\ [Next]_vars => Inv'
  <2>1. Idempotent' = Idempotent
    BY DEF Idempotent
  <2> QED
    BY <2>1, TypeNext, ListNext, OwnerNext, DropNext
<1>3. Inv => NoSilentDrop
  BY DEF DropInv, Back, NoSilentDrop
<1> QED
  BY <1>1, <1>2, <1>3, PTL DEF Spec

(***************************************************************************)
(* How often the handler runs.  Induction and recursion over 0..N come      *)
(* first, with sets in the place of predicates.                             *)
(***************************************************************************)

\* A set of numbers has a least one.
LEMMA Least ==
  ASSUME NEW T, T \subseteq Nat, T # {}
  PROVE  \E m \in T : \A n \in T : m <= n
<1> DEFINE R == OpToRel(<, Nat)
<1>1. IsWellFoundedOn(R, Nat)
  BY NatLessThanWellFounded
<1>2. \A x, y \in Nat : x < y => <<x, y>> \in R
  BY DEF OpToRel
<1> HIDE DEF R
<1>3. PICK m \in T : \A n \in T : ~ (<<n, m>> \in R)
  BY <1>1, WFMin
<1>4. ASSUME NEW n \in T PROVE m <= n
  <2>1. m \in Nat /\ n \in Nat
    OBVIOUS
  <2>2. ~(n < m)
    BY <1>2, <1>3, <2>1
  <2> QED
    BY <2>1, <2>2
<1> QED
  BY <1>4

\* Induction, with a set of numbers for the predicate.
LEMMA UpTo ==
  ASSUME NEW N \in Nat, NEW T, 0 \in T, \A n \in Nat : n < N /\ n \in T => n + 1 \in T
  PROVE  0..N \subseteq T
<1> SUFFICES ASSUME (0..N) \ T # {} PROVE FALSE
  OBVIOUS
<1> DEFINE D == (0..N) \ T
<1>1. PICK m \in D : \A n \in D : m <= n
  <2>1. D \subseteq Nat /\ D # {}
    OBVIOUS
  <2> HIDE DEF D
  <2> QED
    BY <2>1, Least
<1>2. m # 0
  BY <1>1
<1>3. m - 1 \in 0..N /\ m - 1 < N /\ m - 1 \in Nat /\ (m - 1) + 1 = m /\ ~(m <= m - 1)
  BY <1>1, <1>2
<1>4. m - 1 \in T
  BY <1>1, <1>3
<1> QED
  BY <1>1, <1>3, <1>4

\* A function on 0..N is given by its first value and a step for each of the others.
Computes(g, r, N, step) ==
    g[0] = r /\ \A n \in 1..N : g[n] = step[n][g[n - 1]]

LEMMA Recursion ==
  ASSUME NEW S, NEW r \in S, NEW N \in Nat, NEW step \in [1..N -> [S -> S]]
  PROVE  \E g \in [0..N -> S] : Computes(g, r, N, step)
<1> DEFINE Good(n, g) == g[0] = r /\ \A k \in 1..n : g[k] = step[k][g[k - 1]]
           T == {n \in 0..N : \E g \in [0..n -> S] : Good(n, g)}
<1>1. 0 \in T
  <2>1. [k \in 0..0 |-> r] \in [0..0 -> S] /\ Good(0, [k \in 0..0 |-> r])
    OBVIOUS
  <2>2. 0 \in 0..N
    OBVIOUS
  <2> HIDE DEF Good
  <2> QED
    BY <2>1, <2>2
<1>2. ASSUME NEW n \in Nat, n < N, n \in T PROVE n + 1 \in T
  <2>1. PICK g \in [0..n -> S] : Good(n, g)
    BY <1>2
  <2> DEFINE v == step[n + 1][g[n]]
             h == [k \in 0..(n + 1) |-> IF k = n + 1 THEN v ELSE g[k]]
  <2>2. n + 1 \in 1..N /\ n \in 0..n /\ 0 \in 0..n
    BY <1>2
  <2>3. v \in S
    BY <2>2
  <2>4. \A k \in 0..(n + 1) : k = n + 1 \/ k \in 0..n
    BY <1>2
  <2>5. h \in [0..(n + 1) -> S]
    BY <2>3, <2>4
  <2>6. h[0] = r
    BY <2>1, <2>2
  <2>7. ASSUME NEW k \in 1..(n + 1) PROVE h[k] = step[k][h[k - 1]]
    <3>1. k - 1 \in 0..n /\ k - 1 # n + 1 /\ k \in 0..(n + 1)
      BY <1>2
    <3>2. h[k - 1] = g[k - 1]
      BY <3>1
    <3>3. CASE k = n + 1
      BY <3>1, <3>2, <3>3
    <3>4. CASE k # n + 1
      <4>1. k \in 1..n /\ h[k] = g[k]
        BY <1>2, <3>1, <3>4
      <4> QED
        BY <2>1, <3>2, <4>1
    <3> QED
      BY <3>3, <3>4
  <2> HIDE DEF h
  <2>8. Good(n + 1, h)
    BY <2>6, <2>7
  <2>9. n + 1 \in 0..N /\ \E f \in [0..(n + 1) -> S] : Good(n + 1, f)
    BY <2>2, <2>5, <2>8
  <2> HIDE DEF Good
  <2> QED
    BY <2>9
<1>3. N \in T
  <2> HIDE DEF T
  <2>1. 0..N \subseteq T
    BY <1>1, <1>2, UpTo
  <2>2. N \in 0..N
    OBVIOUS
  <2> QED
    BY <2>1, <2>2
<1> QED
  BY <1>3 DEF Computes

\* Power is defined.
LEMMA PowerDef ==
    /\ Power[0] = 1
    /\ \A n \in 1..MaxMiddlewares : Power[n] = MaxAttempts * Power[n - 1]
    /\ \A n \in 0..MaxMiddlewares : Power[n] \in Nat
<1> DEFINE step == [n \in 1..MaxMiddlewares |-> [x \in Nat |-> MaxAttempts * x]]
<1>1. step \in [1..MaxMiddlewares -> [Nat -> Nat]]
  BY BoundsAssumption
<1>2. \E g \in [0..MaxMiddlewares -> Nat] : Computes(g, 1, MaxMiddlewares, step)
  <2> HIDE DEF step
  <2> QED
    BY <1>1, BoundsAssumption, Recursion
<1>3. PICK g \in [0..MaxMiddlewares -> Nat] :
         g[0] = 1 /\ \A n \in 1..MaxMiddlewares : g[n] = step[n][g[n - 1]]
  BY <1>2 DEF Computes
<1>4. \A n \in 1..MaxMiddlewares : n - 1 \in 0..MaxMiddlewares /\ g[n] = MaxAttempts * g[n - 1]
  <2> SUFFICES ASSUME NEW n \in 1..MaxMiddlewares PROVE n - 1 \in 0..MaxMiddlewares /\ g[n] = MaxAttempts * g[n - 1]
    OBVIOUS
  <2>1. n - 1 \in 0..MaxMiddlewares
    BY BoundsAssumption
  <2>2. g[n - 1] \in Nat
    BY <2>1
  <2>3. step[n][g[n - 1]] = MaxAttempts * g[n - 1]
    BY <2>2
  <2> QED
    BY <1>3, <2>1, <2>3
<1>5. g = [n \in 0..MaxMiddlewares |-> IF n = 0 THEN 1 ELSE MaxAttempts * g[n - 1]]
  BY <1>3, <1>4
<1>6. Power = [n \in 0..MaxMiddlewares |-> IF n = 0 THEN 1 ELSE MaxAttempts * Power[n - 1]]
  <2>1. \E f : f = [n \in 0..MaxMiddlewares |-> IF n = 0 THEN 1 ELSE MaxAttempts * f[n - 1]]
    BY <1>5, Zenon
  <2> QED
    BY <2>1, Zenon DEF Power
<1>7. Power[0] = 1
  BY <1>6, BoundsAssumption
<1>8. \A n \in 1..MaxMiddlewares : Power[n] = MaxAttempts * Power[n - 1]
  BY <1>6, BoundsAssumption
<1>9. 0..MaxMiddlewares \subseteq {n \in Nat : Power[n] \in Nat}
  <2> DEFINE T == {n \in Nat : Power[n] \in Nat}
  <2>1. 0 \in T
    BY <1>7
  <2>2. ASSUME NEW n \in Nat, n < MaxMiddlewares, n \in T PROVE n + 1 \in T
    <3>1. n + 1 \in 1..MaxMiddlewares /\ (n + 1) - 1 = n
      BY <2>2, BoundsAssumption
    <3> QED
      BY <1>8, <2>2, <3>1, BoundsAssumption
  <2> HIDE DEF T
  <2>3. 0..MaxMiddlewares \subseteq T
    BY <2>1, <2>2, UpTo, BoundsAssumption
  <2> QED
    BY <2>3 DEF T
<1> QED
  BY <1>7, <1>8, <1>9

LEMMA PowerPositive ==
    ASSUME MaxAttempts # 0
    PROVE  \A n \in 0..MaxMiddlewares : Power[n] \in Nat /\ Power[n] >= 1
<1> DEFINE T == {n \in Nat : Power[n] >= 1}
<1>1. 0 \in T
  BY PowerDef
<1>2. ASSUME NEW n \in Nat, n < MaxMiddlewares, n \in T PROVE n + 1 \in T
  <2>1. n \in 0..MaxMiddlewares /\ n + 1 \in 1..MaxMiddlewares /\ (n + 1) - 1 = n
    BY <1>2, BoundsAssumption
  <2>2. Power[n + 1] = MaxAttempts * Power[n] /\ Power[n] \in Nat /\ Power[n] >= 1
    BY <1>2, <2>1, PowerDef
  <2>3. \A a, b \in Nat : a # 0 /\ b >= 1 => a * b >= 1
    OBVIOUS
  <2> QED
    BY <2>1, <2>2, <2>3, BoundsAssumption
<1>3. 0..MaxMiddlewares \subseteq T
  <2> HIDE DEF T
  <2> QED
    BY <1>1, <1>2, UpTo, BoundsAssumption
<1> QED
  BY <1>3, PowerDef

(***************************************************************************)
(* How often the handler may run below a frame, and what the attempts of a  *)
(* frame that are over may have cost.                                       *)
(***************************************************************************)
Below(i) == Power[Cardinality({n \in Retries : n > i})]

Spent(d, i) ==
    IF middlewares[i] = "retry" THEN (attempt[d][i] - 1) * Below(i) ELSE 0

LEMMA BelowFacts ==
    ASSUME TypeInv, MaxAttempts # 0
    PROVE  /\ \A i \in 0..Len(middlewares) : Below(i) \in Nat /\ Below(i) >= 1
           /\ \A i \in 1..Len(middlewares) :
                 Below(i - 1) = IF middlewares[i] = "retry" THEN MaxAttempts * Below(i)
                                                            ELSE Below(i)
           /\ Below(0) = Power[Cardinality(Retries)]
<1> DEFINE After(i) == {n \in Retries : n > i}
<1>1. /\ Len(middlewares) \in Nat /\ Len(middlewares) <= MaxMiddlewares
      /\ DOMAIN middlewares = 1..Len(middlewares)
  BY DEF TypeInv, TypeOK
<1>2. /\ IsFiniteSet(1..Len(middlewares))
      /\ Cardinality(1..Len(middlewares)) = Len(middlewares)
  <2>1. 1 \in Int /\ Len(middlewares) \in Int /\ (1 > Len(middlewares) => Len(middlewares) = 0)
    BY <1>1
  <2> QED
    BY <1>1, <2>1, FS_Interval
<1>3. \A i \in Nat : After(i) \subseteq 1..Len(middlewares)
  BY <1>1 DEF Retries
<1>4. \A i \in Nat : /\ IsFiniteSet(After(i))
                     /\ Cardinality(After(i)) \in 0..MaxMiddlewares
  <2> SUFFICES ASSUME NEW i \in Nat
               PROVE  IsFiniteSet(After(i)) /\ Cardinality(After(i)) \in 0..MaxMiddlewares
    OBVIOUS
  <2>1. After(i) \in SUBSET (1..Len(middlewares))
    BY <1>3
  <2> HIDE DEF After
  <2>2. /\ IsFiniteSet(After(i))
        /\ Cardinality(After(i)) <= Cardinality(1..Len(middlewares))
    BY <1>2, <2>1, FS_Subset
  <2>3. Cardinality(After(i)) \in Nat
    BY <2>2, FS_CardinalityType
  <2> QED
    BY <1>1, <1>2, <2>2, <2>3, BoundsAssumption
<1>5. ASSUME NEW i \in 1..Len(middlewares)
      PROVE  Below(i - 1) = IF middlewares[i] = "retry" THEN MaxAttempts * Below(i)
                                                        ELSE Below(i)
  <2>1. i \in Nat /\ i - 1 \in Nat
    OBVIOUS
  <2>2. CASE middlewares[i] = "retry"
    <3>1. After(i - 1) = After(i) \cup {i} /\ i \notin After(i)
      BY <1>1, <2>2 DEF Retries
    <3> HIDE DEF After
    <3>2. Cardinality(After(i - 1)) = Cardinality(After(i)) + 1
      BY <1>4, <2>1, <3>1, FS_AddElement
    <3>3. /\ Cardinality(After(i - 1)) \in 1..MaxMiddlewares
          /\ Cardinality(After(i - 1)) - 1 = Cardinality(After(i))
      <4>1. /\ Cardinality(After(i)) \in Nat
            /\ Cardinality(After(i - 1)) \in 0..MaxMiddlewares
        BY <1>4, <2>1
      <4> QED
        BY <3>2, <4>1, BoundsAssumption
    <3>4. Power[Cardinality(After(i - 1))] = MaxAttempts * Power[Cardinality(After(i))]
      BY <3>3, PowerDef
    <3> QED
      BY <2>2, <3>4 DEF Below, After
  <2>3. CASE middlewares[i] # "retry"
    <3>1. After(i - 1) = After(i)
      BY <1>1, <2>3 DEF Retries
    <3> QED
      BY <2>3, <3>1 DEF Below
  <2> QED
    BY <2>2, <2>3
<1>6. \A i \in 0..Len(middlewares) : Below(i) \in Nat /\ Below(i) >= 1
  <2> SUFFICES ASSUME NEW i \in 0..Len(middlewares) PROVE Below(i) \in Nat /\ Below(i) >= 1
    OBVIOUS
  <2>1. i \in Nat
    BY <1>1
  <2>2. Cardinality(After(i)) \in 0..MaxMiddlewares
    BY <1>4, <2>1
  <2> HIDE DEF After
  <2>3. Power[Cardinality(After(i))] \in Nat /\ Power[Cardinality(After(i))] >= 1
    BY <2>2, PowerPositive
  <2> QED
    BY <2>3 DEF Below, After
<1>7. After(0) = Retries
  BY <1>1 DEF Retries
<1> QED
  BY <1>5, <1>6, <1>7 DEF Below

(***************************************************************************)
(* A budget for each delivery under way: bound[i] is what the frames above  *)
(* i have used up of it, and what frame i may still use fits in the rest.   *)
(***************************************************************************)
Budgets == [1..(MaxMiddlewares + 1) -> Nat]

Paid(d, bound, j) ==
    /\ j \in 1..(Len(middlewares) + 1)
    /\ \A i \in 1..j : bound[i] + Below(i - 1) <= Below(0)
    /\ \A i \in 1..(j - 1) :
          /\ middlewares[i] = "retry" => attempt[d][i] \in 1..MaxAttempts
          /\ bound[i + 1] <= bound[i] + Spent(d, i)

\* The frame that d is about to call, or the one below the frame it is back in.
Top(d) == IF status[d] \in {"calling", "handling"} THEN depth[d] ELSE depth[d] + 1

\* What the runs of d may be ahead of the frames that are over.
Open(d) ==
    CASE status[d] = "calling" -> 0
      [] status[d] = "handling" -> 1
      [] OTHER -> Below(depth[d])

WithinBudget(d) ==
    \E bound \in Budgets : Paid(d, bound, Top(d)) /\ runs[d] <= bound[Top(d)] + Open(d)

AttemptInv == \A d \in InFlight : WithinBudget(d)

\* Products of attempts.
LEMMA Products ==
    /\ \A a, b \in Nat : a * b \in Nat
    /\ \A a, b, m \in Nat : a + 1 <= m => a * b + b <= m * b
    /\ \A b, m \in Nat : m # 0 => b <= m * b
  OBVIOUS

\* Coming back to a frame, what was open below it fits in what was open there.
LEMMA PaidBack ==
    ASSUME TypeInv, MaxAttempts # 0, NEW d \in Deliveries, NEW bound \in Budgets,
           NEW j \in 1..Len(middlewares), Paid(d, bound, j + 1)
    PROVE  /\ Paid(d, bound, j)
           /\ bound[j + 1] + Below(j) <= bound[j] + Below(j - 1)
<1>1. /\ Len(middlewares) \in Nat /\ Len(middlewares) <= MaxMiddlewares
      /\ j \in Nat /\ j \in 1..((j + 1) - 1) /\ j \in 1..(MaxMiddlewares + 1)
      /\ j + 1 \in 1..(MaxMiddlewares + 1) /\ j \in 0..Len(middlewares)
      /\ j - 1 \in 0..Len(middlewares)
  BY BoundsAssumption DEF TypeInv, TypeOK
<1>2. bound[j] \in Nat /\ bound[j + 1] \in Nat
  BY <1>1 DEF Budgets
<1>3. /\ Below(j) \in Nat /\ Below(j - 1) \in Nat
      /\ Below(j - 1) = IF middlewares[j] = "retry" THEN MaxAttempts * Below(j) ELSE Below(j)
  BY <1>1, BelowFacts
<1>4. /\ middlewares[j] = "retry" => attempt[d][j] \in 1..MaxAttempts
      /\ bound[j + 1] <= bound[j] + Spent(d, j)
  BY <1>1 DEF Paid
<1>5. Paid(d, bound, j)
  <2>1. j \in 1..(Len(middlewares) + 1)
    BY <1>1
  <2>2. 1..j \subseteq 1..(j + 1) /\ 1..(j - 1) \subseteq 1..((j + 1) - 1)
    BY <1>1
  <2> QED
    BY <2>1, <2>2 DEF Paid
<1>6. bound[j + 1] + Below(j) <= bound[j] + Below(j - 1)
  <2>1. CASE middlewares[j] = "retry"
    <3> DEFINE a == attempt[d][j] - 1
    <3>1. a \in Nat /\ a + 1 <= MaxAttempts
      BY <1>4, <2>1, BoundsAssumption
    <3>2. Spent(d, j) = a * Below(j)
      BY <2>1 DEF Spent
    <3>3. a * Below(j) \in Nat /\ a * Below(j) + Below(j) <= MaxAttempts * Below(j)
      BY <1>3, <3>1, Products, BoundsAssumption
    <3>4. MaxAttempts * Below(j) = Below(j - 1)
      BY <1>3, <2>1
    <3> HIDE DEF a
    <3> QED
      BY <1>2, <1>3, <1>4, <3>2, <3>3, <3>4
  <2>2. CASE middlewares[j] # "retry"
    <3>1. Spent(d, j) = 0 /\ Below(j - 1) = Below(j)
      BY <1>3, <2>2 DEF Spent
    <3> QED
      BY <1>2, <1>3, <1>4, <3>1
  <2> QED
    BY <2>1, <2>2
<1> QED
  BY <1>5, <1>6

\* What a frame may use depends on the list alone.
LEMMA BelowStays ==
    ASSUME UNCHANGED middlewares
    PROVE  \A i : Below(i)' = Below(i)
<1>1. Retries' = Retries
  BY DEF Retries
<1> QED
  BY <1>1 DEF Below

\* The frames above j keep what they have paid while d moves elsewhere.
LEMMA PaidStays ==
    ASSUME TypeInv, NEW d \in Deliveries, NEW bound, NEW j, Paid(d, bound, j),
           UNCHANGED middlewares, \A i \in 1..(j - 1) : attempt'[d][i] = attempt[d][i]
    PROVE  /\ Paid(d, bound, j)'
           /\ \A i : Below(i)' = Below(i)
<1>1. \A i : Below(i)' = Below(i)
  BY BelowStays
<1>2. \A i \in 1..(j - 1) : Spent(d, i)' = Spent(d, i)
  BY <1>1 DEF Spent
<1> QED
  BY <1>1, <1>2 DEF Paid

\* Frame j calls the one below: what its attempts before this one may have cost is
\* added to what was used up before.
LEMMA PaidDown ==
    ASSUME TypeInv, MaxAttempts # 0, NEW d \in Deliveries, NEW bound \in Budgets,
           NEW j \in 1..Len(middlewares), Paid(d, bound, j),
           UNCHANGED middlewares, \A i \in 1..(j - 1) : attempt'[d][i] = attempt[d][i],
           middlewares[j] = "retry" => attempt'[d][j] \in 1..MaxAttempts
    PROVE  /\ Spent(d, j)' \in Nat
           /\ \E b \in Budgets : b[j + 1] = bound[j] + Spent(d, j)' /\ Paid(d, b, j + 1)'
<1>1. /\ Len(middlewares) \in Nat /\ Len(middlewares) <= MaxMiddlewares
      /\ j \in Nat /\ j \in 1..j /\ j \in 1..(MaxMiddlewares + 1)
      /\ j + 1 \in 1..(MaxMiddlewares + 1) /\ j \in 0..Len(middlewares)
      /\ j - 1 \in 0..Len(middlewares) /\ (j + 1) - 1 = j
      /\ j + 1 \in 1..(Len(middlewares) + 1)
  BY BoundsAssumption DEF TypeInv, TypeOK
<1>2. bound[j] \in Nat
  BY <1>1 DEF Budgets
<1>3. /\ Below(j) \in Nat /\ Below(j - 1) \in Nat /\ Below(0) \in Nat
      /\ Below(j - 1) = IF middlewares[j] = "retry" THEN MaxAttempts * Below(j) ELSE Below(j)
  <2>1. 0 \in 0..Len(middlewares)
    BY <1>1
  <2> QED
    BY <1>1, <2>1, BelowFacts
<1>4. Paid(d, bound, j)' /\ \A i : Below(i)' = Below(i)
  BY PaidStays
<1>5. Spent(d, j)' \in Nat /\ Spent(d, j)' + Below(j) <= Below(j - 1)
  <2>1. CASE middlewares[j] = "retry"
    <3> DEFINE a == attempt'[d][j] - 1
    <3>1. a \in Nat /\ a + 1 <= MaxAttempts
      BY <2>1, BoundsAssumption
    <3>2. Spent(d, j)' = a * Below(j)
      BY <1>4, <2>1 DEF Spent
    <3>3. a * Below(j) \in Nat /\ a * Below(j) + Below(j) <= MaxAttempts * Below(j)
      BY <1>3, <3>1, Products, BoundsAssumption
    <3>4. MaxAttempts * Below(j) = Below(j - 1)
      BY <1>3, <2>1
    <3> QED
      BY <3>2, <3>3, <3>4
  <2>2. CASE middlewares[j] # "retry"
    <3>1. Spent(d, j)' = 0 /\ Below(j - 1) = Below(j)
      BY <1>3, <2>2 DEF Spent
    <3> QED
      BY <1>3, <3>1
  <2> QED
    BY <2>1, <2>2
<1>v. PICK v : v = bound[j] + Spent(d, j)'
  OBVIOUS
<1>6. v \in Nat /\ v + Below(j) <= Below(0)
  <2>1. bound[j] + Below(j - 1) <= Below(0)
    BY <1>1 DEF Paid
  <2>2. \A x, y, z, u, w \in Nat : x + u <= w /\ y + z <= u => x + y + z <= w /\ x + y \in Nat
    OBVIOUS
  <2>3. bound[j] + Spent(d, j)' + Below(j) <= Below(0) /\ bound[j] + Spent(d, j)' \in Nat
    BY ONLY <1>2, <1>3, <1>5, <2>1, <2>2
  <2> QED
    BY ONLY <1>v, <2>3
<1> DEFINE b == [bound EXCEPT ![j + 1] = v]
<1>7. b \in Budgets
  BY <1>1, <1>6 DEF Budgets
<1>8. b[j + 1] = v /\ \A i \in 1..j : b[i] = bound[i]
  BY <1>1 DEF Budgets
<1>9. Paid(d, b, j + 1)'
  <2> HIDE DEF b
  <2>1. j + 1 \in 1..(Len(middlewares') + 1)
    BY <1>1
  <2>2. \A i \in 1..(j + 1) : b[i] + Below(i - 1)' <= Below(0)'
    <3> SUFFICES ASSUME NEW i \in 1..(j + 1)
                 PROVE  b[i] + Below(i - 1) <= Below(0)
      BY <1>4
    <3>1. CASE i = j + 1
      BY <1>1, <1>6, <1>8, <3>1
    <3>2. CASE i # j + 1
      <4>1. i \in 1..j
        BY <1>1, <3>2
      <4> QED
        BY <1>8, <4>1 DEF Paid
    <3> QED
      BY <3>1, <3>2
  <2>3. ASSUME NEW i \in 1..((j + 1) - 1)
        PROVE  /\ middlewares'[i] = "retry" => attempt'[d][i] \in 1..MaxAttempts
               /\ b[i + 1] <= b[i] + Spent(d, i)'
    <3>1. CASE i = j
      <4>1. b[j + 1] = bound[j] + Spent(d, j)' /\ b[j] = bound[j]
        BY <1>1, <1>8, <1>v
      <4> QED
        BY <1>2, <1>5, <3>1, <4>1
    <3>2. CASE i # j
      <4>1. i \in 1..(j - 1) /\ i \in 1..j /\ i + 1 \in 1..j
        BY <1>1, <3>2
      <4>2. /\ middlewares'[i] = "retry" => attempt'[d][i] \in 1..MaxAttempts
            /\ bound[i + 1] <= bound[i] + Spent(d, i)'
        BY <1>4, <4>1 DEF Paid
      <4> QED
        BY <1>8, <4>1, <4>2
    <3> QED
      BY <3>1, <3>2
  <2> QED
    BY <2>1, <2>2, <2>3 DEF Paid
<1> QED
  BY <1>5, <1>7, <1>8, <1>9, <1>v

\* One more retry middleware multiplies what every frame may use, any other kind leaves
\* it: no delivery under way overdraws its budget.
LEMMA Scaling ==
    /\ \A x, y, z, c \in Nat : c # 0 /\ x + y <= z => x + c * y <= c * z
    /\ \A a, b, c \in Nat : c # 0 => a * b <= a * (c * b)
<1>1. ASSUME NEW x \in Nat, NEW y \in Nat, NEW z \in Nat, NEW c \in Nat, c # 0, x + y <= z
      PROVE  x + c * y <= c * z
  <2>1. PICK k \in Nat : z = x + y + k
    BY <1>1, z - (x + y) \in Nat
  <2>2. c * z = c * x + c * y + c * k
    BY <2>1
  <2>3. x <= c * x /\ c * k \in Nat /\ c * x \in Nat /\ c * y \in Nat
    BY <1>1
  <2> QED
    BY <2>2, <2>3
<1>2. ASSUME NEW a \in Nat, NEW b \in Nat, NEW c \in Nat, c # 0
      PROVE  a * b <= a * (c * b)
  <2>1. a * (c * b) = c * (a * b) /\ a * b \in Nat
    OBVIOUS
  <2>2. \A n \in Nat : n <= c * n
    BY <1>2
  <2> QED
    BY <2>1, <2>2
<1> QED
  BY <1>1, <1>2

LEMMA BelowGrows ==
    ASSUME TypeInv, MaxAttempts # 0, NEW m \in LateMiddlewares, RegisterMiddleware(m)
    PROVE  \E c \in Nat \ {0} : \A i \in 0..Len(middlewares) : Below(i)' = c * Below(i)
<1> DEFINE n == Len(middlewares)
           After(i) == {k \in Retries : k > i}
<1>1. /\ n \in Nat /\ n < MaxMiddlewares /\ DOMAIN middlewares = 1..n
      /\ DOMAIN middlewares' = 1..(n + 1)
      /\ \A i \in 1..n : middlewares'[i] = middlewares[i]
      /\ middlewares'[n + 1] = m
  BY ListAssumption DEF RegisterMiddleware, TypeInv, TypeOK
<1>2. Retries' = Retries \cup (IF m = "retry" THEN {n + 1} ELSE {})
  <2>1. n + 1 \notin 1..n /\ 1..(n + 1) = (1..n) \cup {n + 1}
    BY <1>1
  <2> HIDE DEF n
  <2> QED
    BY <1>1, <2>1 DEF Retries
<1>3. CASE m # "retry"
  <2>1. \A i : Below(i)' = Below(i)
    BY <1>2, <1>3 DEF Below
  <2>2. \A i \in 0..n : 1 * Below(i) = Below(i)
    BY BelowFacts
  <2> QED
    BY <2>1, <2>2
<1>4. CASE m = "retry"
  <2>1. ASSUME NEW i \in 0..n PROVE Below(i)' = MaxAttempts * Below(i)
    <3>1. /\ {k \in Retries' : k > i} = After(i) \cup {n + 1}
          /\ n + 1 \notin After(i) /\ After(i) \in SUBSET (1..n)
      BY <1>1, <1>2, <1>4 DEF Retries
    <3> HIDE DEF After
    <3>2. /\ IsFiniteSet(1..n) /\ Cardinality(1..n) = n
      <4>1. 1 \in Int /\ n \in Int /\ (1 > n => n = 0)
        BY <1>1
      <4> HIDE DEF n
      <4> QED
        BY <1>1, <4>1, FS_Interval
    <3>3. IsFiniteSet(After(i)) /\ Cardinality(After(i)) \in Nat /\ Cardinality(After(i)) <= n
      BY <3>1, <3>2, FS_Subset, FS_CardinalityType
    <3>4. Cardinality({k \in Retries' : k > i}) = Cardinality(After(i)) + 1
      BY <3>1, <3>3, FS_AddElement
    <3>5. /\ Cardinality(After(i)) + 1 \in 1..MaxMiddlewares
          /\ (Cardinality(After(i)) + 1) - 1 = Cardinality(After(i))
      BY <1>1, <3>3, BoundsAssumption
    <3>6. Power[Cardinality(After(i)) + 1] = MaxAttempts * Power[Cardinality(After(i))]
      BY <3>5, PowerDef
    <3> QED
      BY <3>4, <3>6 DEF Below, After
  <2> QED
    BY <2>1, BoundsAssumption
<1> QED
  BY <1>3, <1>4

LEMMA PaidGrows ==
    ASSUME TypeInv, MaxAttempts # 0, NEW m \in LateMiddlewares, RegisterMiddleware(m),
           NEW d \in Deliveries, NEW bound \in Budgets, NEW j \in Nat, Paid(d, bound, j)
    PROVE  /\ Paid(d, bound, j)'
           /\ \A i \in 0..Len(middlewares) : Below(i) <= Below(i)'
<1>1. /\ Len(middlewares) \in Nat /\ Len(middlewares) <= MaxMiddlewares
      /\ Len(middlewares') = Len(middlewares) + 1
      /\ \A i \in 1..Len(middlewares) : middlewares'[i] = middlewares[i]
      /\ UNCHANGED attempt
  BY ListAssumption DEF RegisterMiddleware, TypeInv, TypeOK
<1>2. PICK c \in Nat \ {0} : \A i \in 0..Len(middlewares) : Below(i)' = c * Below(i)
  BY BelowGrows
<1>3. \A i \in 0..Len(middlewares) : Below(i) \in Nat
  BY BelowFacts
<1>4. \A i \in 0..Len(middlewares) : Below(i) <= Below(i)'
  BY <1>2, <1>3, Products
<1>5. j \in 1..(Len(middlewares) + 1)
  BY DEF Paid
<1>6. j \in 1..(Len(middlewares') + 1)
  BY <1>1, <1>5
<1>7. ASSUME NEW i \in 1..j PROVE bound[i] + Below(i - 1)' <= Below(0)'
  <2>1. i - 1 \in 0..Len(middlewares) /\ 0 \in 0..Len(middlewares) /\ i \in 1..(MaxMiddlewares + 1)
    BY <1>1, <1>5, BoundsAssumption
  <2>2. bound[i] + Below(i - 1) <= Below(0)
    BY DEF Paid
  <2>3. bound[i] \in Nat /\ Below(i - 1) \in Nat /\ Below(0) \in Nat
    BY <1>3, <2>1 DEF Budgets
  <2>4. bound[i] + c * Below(i - 1) <= c * Below(0)
    BY <2>2, <2>3, Scaling
  <2> QED
    BY <1>2, <2>1, <2>4
<1>8. ASSUME NEW i \in 1..(j - 1)
      PROVE  /\ middlewares'[i] = "retry" => attempt'[d][i] \in 1..MaxAttempts
             /\ bound[i + 1] <= bound[i] + Spent(d, i)'
  <2>1. /\ i \in 1..Len(middlewares) /\ i \in 0..Len(middlewares)
        /\ i \in 1..(MaxMiddlewares + 1) /\ i + 1 \in 1..(MaxMiddlewares + 1)
    BY <1>1, <1>5, BoundsAssumption
  <2>2. /\ middlewares[i] = "retry" => attempt[d][i] \in 1..MaxAttempts
        /\ bound[i + 1] <= bound[i] + Spent(d, i)
    BY DEF Paid
  <2>3. bound[i] \in Nat /\ bound[i + 1] \in Nat /\ Below(i) \in Nat
    BY <1>3, <2>1 DEF Budgets
  <2>4. middlewares'[i] = middlewares[i]
    BY <1>1, <2>1
  <2>5. CASE middlewares[i] = "retry"
    <3> DEFINE a == attempt[d][i] - 1
    <3>1. a \in Nat
      BY <2>2, <2>5, BoundsAssumption
    <3>2. Spent(d, i) = a * Below(i)
      BY <2>5 DEF Spent
    <3>3. Spent(d, i)' = a * (c * Below(i))
      BY <1>1, <1>2, <2>1, <2>4, <2>5 DEF Spent
    <3>4. a * Below(i) <= a * (c * Below(i)) /\ a * Below(i) \in Nat /\ a * (c * Below(i)) \in Nat
      BY <2>3, <3>1, Scaling
    <3> HIDE DEF a
    <3>5. bound[i + 1] <= bound[i] + Spent(d, i)'
      BY ONLY <2>2, <2>3, <3>2, <3>3, <3>4
    <3> QED
      BY <1>1, <2>2, <3>5, <2>4
  <2>6. CASE middlewares[i] # "retry"
    BY <2>2, <2>4, <2>6 DEF Spent
  <2> QED
    BY <2>5, <2>6
<1> QED
  BY <1>4, <1>6, <1>7, <1>8 DEF Paid

\* A step of one delivery leaves the budgets of the others alone.
LEMMA OwnBudget ==
    ASSUME TypeInv, AttemptInv, NEW d \in Deliveries, NEW s, NEW i, Goto(d, s, i),
           UNCHANGED middlewares,
           \A e \in Deliveries \ {d} : attempt'[e] = attempt[e] /\ runs'[e] = runs[e],
           s \notin Idle => WithinBudget(d)'
    PROVE  AttemptInv'
<1> SUFFICES ASSUME NEW e \in Deliveries, e \in InFlight' PROVE WithinBudget(e)'
  BY DEF AttemptInv, InFlight
<1>1. CASE e = d
  BY <1>1 DEF InFlight, Goto, TypeInv, TypeOK
<1>2. CASE e # d
  <2>1. status'[e] = status[e] /\ depth'[e] = depth[e]
    BY <1>2 DEF Goto, TypeInv, TypeOK
  <2>2. e \in InFlight
    BY <2>1 DEF InFlight
  <2>3. PICK bound \in Budgets : Paid(e, bound, Top(e)) /\ runs[e] <= bound[Top(e)] + Open(e)
    BY <2>2 DEF AttemptInv, WithinBudget
  <2>4. PICK t : t = Top(e)
    OBVIOUS
  <2>5. attempt'[e] = attempt[e] /\ runs'[e] = runs[e]
    BY <1>2
  <2>6. Paid(e, bound, t)' /\ \A n : Below(n)' = Below(n)
    BY <2>3, <2>4, <2>5, PaidStays
  <2>7. Top(e)' = t
    BY <2>1, <2>4 DEF Top
  <2>8. Open(e)' = Open(e)
    BY <2>1, <2>6 DEF Open
  <2>9. Paid(e, bound, Top(e))'
    BY <2>6, <2>7
  <2> QED
    BY <2>3, <2>4, <2>5, <2>7, <2>8, <2>9 DEF WithinBudget
<1> QED
  BY <1>1, <1>2

\* What a step of d does to the counters.
Counts(d) ==
    /\ UNCHANGED middlewares
    /\ \A e \in Deliveries \ {d} : attempt'[e] = attempt[e] /\ runs'[e] = runs[e]
    /\ \A i \in Frames : i # depth[d] => attempt'[d][i] = attempt[d][i]

LEMMA SetAttemptCounts ==
    ASSUME TypeInv, NEW d \in Deliveries, NEW n, SetAttempt(d, n)
    PROVE  /\ \A e \in Deliveries \ {d} : attempt'[e] = attempt[e]
           /\ \A i \in Frames : i # depth[d] => attempt'[d][i] = attempt[d][i]
           /\ depth[d] \in Frames => attempt'[d][depth[d]] = n
<1>1. attempt \in [Deliveries -> [Frames -> 0..MaxAttempts]]
  BY DEF TypeInv, TypeOK
<1>2. attempt' = [attempt EXCEPT ![d] = [attempt[d] EXCEPT ![depth[d]] = n]]
  BY DEF SetAttempt
<1> QED
  BY <1>1, <1>2

LEMMA StepCounts ==
    ASSUME TypeInv, NEW d \in Deliveries, Process(d) \/ Redeliver(d)
    PROVE  Counts(d)
<1>1. UNCHANGED middlewares
  BY DEF Process, Deliver, Frame, PassThrough, PassBack, Claim, ClaimRefused, ClaimFails,
         Commit, CommitFails, Release, ReleaseFails, EnterRetry, RetryReturns, RetryAgain,
         RetryGivesUp, StartHandler, HandlerSucceeds, HandlerFails, Settle, Ack, Fail,
         Redeliver, KeepHistory, KeepAround
<1>2. UNCHANGED attempt \/ \E n : SetAttempt(d, n)
  BY DEF Process, Deliver, Frame, PassThrough, PassBack, Claim, ClaimRefused, ClaimFails,
         Commit, CommitFails, Release, ReleaseFails, EnterRetry, RetryReturns, RetryAgain,
         RetryGivesUp, StartHandler, HandlerSucceeds, HandlerFails, Settle, Ack, Fail,
         Redeliver, KeepHistory
<1>3. UNCHANGED runs \/ \E n : runs' = [runs EXCEPT ![d] = n]
  BY DEF Process, Deliver, Frame, PassThrough, PassBack, Claim, ClaimRefused, ClaimFails,
         Commit, CommitFails, Release, ReleaseFails, EnterRetry, RetryReturns, RetryAgain,
         RetryGivesUp, StartHandler, HandlerSucceeds, HandlerFails, Settle, Ack, Fail,
         Redeliver, KeepHistory, KeepAround
<1>4. \A e \in Deliveries \ {d} : runs'[e] = runs[e]
  BY <1>3 DEF TypeInv, TypeOK
<1> QED
  BY <1>1, <1>2, <1>4, SetAttemptCounts DEF Counts

\* A step that calls no frame, with the runs that its new place allows.
LEMMA StaysWithin ==
    ASSUME TypeInv, NEW d \in Deliveries, Counts(d), NEW bound \in Budgets, NEW t,
           Paid(d, bound, t), t <= depth[d] \/ UNCHANGED attempt,
           Top(d)' = t, runs'[d] <= bound[t] + Open(d)'
    PROVE  WithinBudget(d)'
<1>1. \A i \in 1..(t - 1) : attempt'[d][i] = attempt[d][i]
  <2>1. t \in Nat /\ t <= MaxMiddlewares + 1 /\ depth[d] \in Nat
    BY BoundsAssumption DEF Paid, TypeInv, TypeOK
  <2>2. \A i \in 1..(t - 1) : i \in Frames /\ (t <= depth[d] => i # depth[d])
    BY <2>1, BoundsAssumption DEF Frames
  <2> QED
    BY <2>2 DEF Counts
<1>2. Paid(d, bound, t)'
  BY <1>1, PaidStays DEF Counts
<1>3. Paid(d, bound, Top(d))'
  BY <1>2
<1> QED
  BY <1>3 DEF WithinBudget

\* Calling a frame, the frame answers without calling on, and its catch block.
LEMMA LeavesWithin ==
    ASSUME TypeInv, AttemptInv, MaxAttempts # 0, NEW d \in Deliveries, Counts(d),
           UNCHANGED runs,
           \/ /\ status[d] \in {"calling", "handling"}
              /\ Return(d) \/ Throw(d)
           \/ /\ status[d] = "returned"
              /\ Goto(d, "threw", depth[d])
              /\ UNCHANGED attempt
    PROVE  WithinBudget(d)'
<1>1. d \in InFlight
  BY DEF InFlight, Idle
<1>2. PICK bound \in Budgets : Paid(d, bound, Top(d)) /\ runs[d] <= bound[Top(d)] + Open(d)
  BY <1>1 DEF AttemptInv, WithinBudget
<1>3. PICK t : t = Top(d)
  OBVIOUS
<1>4. t \in 1..(Len(middlewares) + 1)
  BY <1>2, <1>3 DEF Paid
<1>5. t \in Nat /\ t - 1 \in 0..Len(middlewares) /\ depth[d] \in Nat /\ runs[d] \in Nat
      /\ t \in 1..(MaxMiddlewares + 1)
  BY <1>4, BoundsAssumption DEF TypeInv, TypeOK
<1>6. bound[t] \in Nat
  BY <1>5 DEF Budgets
<1>7. \A i : Below(i)' = Below(i)
  BY <1>2, BelowStays DEF Counts
<1>8. Below(t - 1) \in Nat /\ Below(t - 1) >= 1
  BY <1>5, BelowFacts
<1>9. /\ Top(d)' = t
      /\ t <= depth[d] \/ UNCHANGED attempt
      /\ Open(d)' = Below(t - 1)
      /\ Open(d) \in {0, 1, Below(t - 1)}
  <2>1. CASE status[d] \in {"calling", "handling"} /\ (Return(d) \/ Throw(d))
    <3>1. status'[d] \in {"returned", "threw"} /\ depth'[d] = depth[d] - 1
      BY <2>1 DEF Return, Throw, Goto, TypeInv, TypeOK
    <3>2. t = depth[d] /\ Top(d)' = depth[d]
      BY <1>3, <1>5, <2>1, <3>1 DEF Top
    <3>3. Open(d)' = Below(t - 1)'
      BY <3>1, <3>2 DEF Open
    <3>4. Open(d) \in {0, 1}
      BY <2>1 DEF Open
    <3> QED
      BY <1>5, <1>7, <1>8, <3>2, <3>3, <3>4
  <2>2. CASE status[d] = "returned" /\ Goto(d, "threw", depth[d]) /\ UNCHANGED attempt
    <3>1. status'[d] = "threw" /\ depth'[d] = depth[d]
      BY <2>2 DEF Goto, TypeInv, TypeOK
    <3>2. t = depth[d] + 1 /\ Top(d)' = depth[d] + 1
      BY <1>3, <2>2, <3>1 DEF Top
    <3>3. t - 1 = depth[d] /\ t - 1 = depth'[d]
      BY <1>3, <1>5, <2>2, <3>1, <3>2 DEF Top
    <3>4. t <= depth[d] \/ UNCHANGED attempt
      BY <2>2
    <3>5. Open(d)' = Below(t - 1)' /\ Open(d) = Below(t - 1)
      BY <2>2, <3>1, <3>3 DEF Open
    <3>6. Open(d)' = Below(t - 1)
      BY <1>7, <3>5
    <3> QED
      BY <1>3, <1>5, <3>2, <3>3, <3>4, <3>5, <3>6
  <2> QED
    BY <2>1, <2>2
<1>10. Paid(d, bound, t) /\ runs'[d] <= bound[t] + Open(d)'
  <2>1. runs[d] <= bound[t] + Open(d) /\ Paid(d, bound, t)
    BY <1>2, <1>3
  <2>2. Open(d) \in Nat /\ Open(d) <= Below(t - 1) /\ Open(d)' = Below(t - 1)
    BY <1>8, <1>9
  <2>3. runs[d] <= bound[t] + Below(t - 1)
    BY <1>5, <1>6, <1>8, <2>1, <2>2
  <2> QED
    BY <2>1, <2>2, <2>3
<1> QED
  BY <1>9, <1>10, StaysWithin

\* Back in a frame, which hands the outcome to the frame above.
LEMMA ReturnsWithin ==
    ASSUME TypeInv, AttemptInv, MaxAttempts # 0, NEW d \in Deliveries, Counts(d),
           UNCHANGED runs, status[d] \in {"returned", "threw"},
           depth[d] \in DOMAIN middlewares, Return(d) \/ Throw(d)
    PROVE  WithinBudget(d)'
<1>1. d \in InFlight
  BY DEF InFlight, Idle
<1>2. PICK bound \in Budgets : Paid(d, bound, Top(d)) /\ runs[d] <= bound[Top(d)] + Open(d)
  BY <1>1 DEF AttemptInv, WithinBudget
<1>3. PICK t : t = depth[d]
  OBVIOUS
<1>4. t \in 1..Len(middlewares) /\ Top(d) = t + 1 /\ Open(d) = Below(t)
  BY <1>3 DEF Top, Open, TypeInv, TypeOK
<1>5. Paid(d, bound, t) /\ bound[t + 1] + Below(t) <= bound[t] + Below(t - 1)
  <2>1. Paid(d, bound, t + 1)
    BY <1>2, <1>4
  <2> QED
    BY <1>4, <2>1, PaidBack
<1>6. status'[d] \in {"returned", "threw"} /\ depth'[d] = t - 1
  BY <1>3 DEF Return, Throw, Goto, TypeInv, TypeOK
<1>7. Top(d)' = t /\ Open(d)' = Below(t - 1)'
  <2>1. (t - 1) + 1 = t
    BY <1>4
  <2> QED
    BY <1>6, <2>1 DEF Top, Open
<1>8. Below(t - 1)' = Below(t - 1)
  BY BelowStays DEF Counts
<1>9. /\ t \in 1..(MaxMiddlewares + 1) /\ t + 1 \in 1..(MaxMiddlewares + 1)
      /\ t \in 0..Len(middlewares) /\ t - 1 \in 0..Len(middlewares)
  BY <1>4, BoundsAssumption DEF TypeInv, TypeOK
<1>10. /\ bound[t] \in Nat /\ bound[t + 1] \in Nat /\ runs[d] \in Nat
       /\ Below(t) \in Nat /\ Below(t - 1) \in Nat
  BY <1>9, BelowFacts DEF Budgets, TypeInv, TypeOK
<1>11. runs[d] <= bound[t + 1] + Below(t)
  BY <1>2, <1>4
<1>12. runs'[d] <= bound[t] + Open(d)'
  <2>1. runs[d] <= bound[t] + Below(t - 1)
    BY ONLY <1>5, <1>10, <1>11
  <2> QED
    BY <1>7, <1>8, <2>1
<1> QED
  BY <1>3, <1>4, <1>5, <1>7, <1>12, StaysWithin

\* A frame calls the one below it, for the first time or for the next attempt.
LEMMA CallsWithin ==
    ASSUME TypeInv, AttemptInv, MaxAttempts # 0, NEW d \in Deliveries, Counts(d),
           UNCHANGED runs, depth[d] \in DOMAIN middlewares, Next_(d),
           \/ /\ status[d] = "calling"
              /\ middlewares[depth[d]] = "retry" => attempt'[d][depth[d]] = 1
           \/ /\ status[d] = "threw"
              /\ middlewares[depth[d]] = "retry"
              /\ attempt[d][depth[d]] < MaxAttempts
              /\ attempt'[d][depth[d]] = attempt[d][depth[d]] + 1
    PROVE  WithinBudget(d)'
<1>1. d \in InFlight
  BY DEF InFlight, Idle
<1>2. PICK bound \in Budgets : Paid(d, bound, Top(d)) /\ runs[d] <= bound[Top(d)] + Open(d)
  BY <1>1 DEF AttemptInv, WithinBudget
<1>3. PICK t : t = depth[d]
  OBVIOUS
<1>4. /\ t \in 1..Len(middlewares) /\ Len(middlewares) \in Nat /\ t \in Nat
      /\ Len(middlewares) <= MaxMiddlewares
  BY <1>3 DEF TypeInv, TypeOK
<1>5. /\ t \in 1..(MaxMiddlewares + 1) /\ t + 1 \in 1..(MaxMiddlewares + 1)
      /\ t \in 0..Len(middlewares) /\ t - 1 \in 0..Len(middlewares) /\ t \in Frames
  BY <1>4, BoundsAssumption DEF Frames
<1>6. /\ bound[t] \in Nat /\ bound[t + 1] \in Nat /\ runs[d] \in Nat
      /\ Below(t) \in Nat /\ Below(t - 1) \in Nat
  BY <1>5, BelowFacts DEF Budgets, TypeInv, TypeOK
<1>7. \A i \in 1..(t - 1) : attempt'[d][i] = attempt[d][i]
  <2>1. \A i \in 1..(t - 1) : i \in Frames /\ i # t
    BY <1>4, BoundsAssumption DEF Frames
  <2> QED
    BY <1>3, <2>1 DEF Counts
<1>8. Below(t)' = Below(t) /\ UNCHANGED middlewares
  BY BelowStays DEF Counts
<1>9. /\ Paid(d, bound, t)
      /\ middlewares[t] = "retry" => attempt'[d][t] \in 1..MaxAttempts
      /\ runs[d] <= bound[t] + Spent(d, t)'
  <2>1. CASE /\ status[d] = "calling"
             /\ middlewares[depth[d]] = "retry" => attempt'[d][depth[d]] = 1
    <3>1. Top(d) = t /\ Open(d) = 0
      BY <1>3, <2>1 DEF Top, Open
    <3>2. Paid(d, bound, t) /\ runs[d] <= bound[t]
      BY <1>2, <1>6, <3>1
    <3>3. Spent(d, t)' = 0
      <4>1. CASE middlewares[t] = "retry"
        <5>1. attempt'[d][t] - 1 = 0
          BY <1>3, <2>1, <4>1
        <5>2. Spent(d, t)' = (attempt'[d][t] - 1) * Below(t)
          BY <1>8, <4>1 DEF Spent
        <5> QED
          BY <1>6, <5>1, <5>2
      <4>2. CASE middlewares[t] # "retry"
        BY <1>8, <4>2 DEF Spent
      <4> QED
        BY <4>1, <4>2
    <3>4. middlewares[t] = "retry" => attempt'[d][t] \in 1..MaxAttempts
      BY <1>3, <2>1, BoundsAssumption
    <3> QED
      BY <1>6, <3>2, <3>3, <3>4
  <2>2. CASE /\ status[d] = "threw"
             /\ middlewares[depth[d]] = "retry"
             /\ attempt[d][depth[d]] < MaxAttempts
             /\ attempt'[d][depth[d]] = attempt[d][depth[d]] + 1
    <3>1. Top(d) = t + 1 /\ Open(d) = Below(t)
      BY <1>3, <2>2 DEF Top, Open
    <3>2. Paid(d, bound, t + 1) /\ runs[d] <= bound[t + 1] + Below(t)
      BY <1>2, <3>1
    <3>3. Paid(d, bound, t)
      BY <1>4, <3>2, PaidBack
    <3> DEFINE a == attempt[d][t]
    <3>4. t \in 1..((t + 1) - 1)
      BY <1>4
    <3>5. a \in 1..MaxAttempts /\ bound[t + 1] <= bound[t] + Spent(d, t)
      BY <1>3, <2>2, <3>2, <3>4 DEF Paid
    <3>6. a \in Nat /\ a - 1 \in Nat /\ a < MaxAttempts /\ a + 1 \in 1..MaxAttempts
      BY <1>3, <2>2, <3>5, BoundsAssumption
    <3>7. Spent(d, t) = (a - 1) * Below(t)
      BY <1>3, <2>2 DEF Spent
    <3>8. Spent(d, t)' = a * Below(t)
      <4>1. attempt'[d][t] - 1 = a
        BY <1>3, <2>2, <3>6
      <4>2. Spent(d, t)' = (attempt'[d][t] - 1) * Below(t)
        BY <1>3, <1>8, <2>2 DEF Spent
      <4> QED
        BY <4>1, <4>2
    <3>9. (a - 1) * Below(t) + Below(t) <= a * Below(t) /\ (a - 1) * Below(t) \in Nat
          /\ a * Below(t) \in Nat
      <4>1. (a - 1) + 1 <= a
        BY <3>6
      <4> QED
        BY <1>6, <3>6, <4>1, Products
    <3> HIDE DEF a
    <3>10. runs[d] <= bound[t] + Spent(d, t)'
      BY ONLY <1>6, <3>2, <3>5, <3>7, <3>8, <3>9
    <3> QED
      BY <1>3, <2>2, <3>3, <3>6, <3>10 DEF a
  <2> QED
    BY <2>1, <2>2
<1>10. PICK b \in Budgets : b[t + 1] = bound[t] + Spent(d, t)' /\ Paid(d, b, t + 1)'
  BY <1>4, <1>7, <1>8, <1>9, PaidDown
<1>11. status'[d] = "calling" /\ depth'[d] = t + 1
  BY <1>3 DEF Next_, Goto, TypeInv, TypeOK
<1>12. Top(d)' = t + 1 /\ Open(d)' = 0
  BY <1>11 DEF Top, Open
<1>13. b[t + 1] \in Nat
  BY <1>5 DEF Budgets
<1>14. runs'[d] <= b[t + 1] + Open(d)'
  BY <1>6, <1>9, <1>10, <1>12, <1>13
<1>15. Paid(d, b, Top(d))'
  BY <1>10, <1>12
<1> QED
  BY <1>12, <1>14, <1>15 DEF WithinBudget

\* The handler starts where the list ends, and a delivery starts at the first frame.
LEMMA StartsWithin ==
    ASSUME TypeInv, AttemptInv, MaxAttempts # 0, NEW d \in Deliveries, StartHandler(d)
    PROVE  WithinBudget(d)'
<1>1. /\ status[d] = "calling" /\ Counts(d) /\ UNCHANGED attempt
      /\ status'[d] = "handling" /\ depth'[d] = depth[d] /\ runs'[d] = runs[d] + 1
  BY StepCounts DEF StartHandler, Goto, Process, Frame, TypeInv, TypeOK
<1>2. d \in InFlight
  BY <1>1 DEF InFlight, Idle
<1>3. PICK bound \in Budgets : Paid(d, bound, Top(d)) /\ runs[d] <= bound[Top(d)] + Open(d)
  BY <1>2 DEF AttemptInv, WithinBudget
<1>4. PICK t : t = depth[d]
  OBVIOUS
<1>5. Top(d) = t /\ Top(d)' = t /\ Open(d) = 0 /\ Open(d)' = 1
  BY <1>1, <1>4 DEF Top, Open
<1>6. Paid(d, bound, t) /\ runs[d] <= bound[t] + 0
  BY <1>3, <1>5
<1>7. bound[t] \in Nat /\ runs[d] \in Nat
  <2>1. t \in 1..(MaxMiddlewares + 1)
    BY <1>6, BoundsAssumption DEF Paid, TypeInv, TypeOK
  <2> QED
    BY <2>1 DEF Budgets, TypeInv, TypeOK
<1>8. runs'[d] <= bound[t] + Open(d)'
  BY ONLY <1>1, <1>5, <1>6, <1>7
<1> QED
  BY <1>1, <1>4, <1>5, <1>6, <1>8, StaysWithin

LEMMA DeliversWithin ==
    ASSUME TypeInv, MaxAttempts # 0, NEW d \in Deliveries, Deliver(d)
    PROVE  WithinBudget(d)'
<1>1. /\ UNCHANGED middlewares /\ status'[d] = "calling" /\ depth'[d] = 1 /\ runs'[d] = 0
  BY DEF Deliver, Goto, TypeInv, TypeOK
<1>2. Top(d)' = 1 /\ Open(d)' = 0
  BY <1>1 DEF Top, Open
<1> DEFINE b == [i \in 1..(MaxMiddlewares + 1) |-> 0]
<1>3. b \in Budgets /\ b[1] = 0
  BY BoundsAssumption DEF Budgets
<1> HIDE DEF b
<1>4. Below(0)' \in Nat
  <2>1. 0 \in 0..Len(middlewares)
    BY DEF TypeInv, TypeOK
  <2> QED
    BY <1>1, <2>1, BelowFacts, BelowStays
<1>5. Paid(d, b, 1)'
  <2>1. 1 \in 1..(Len(middlewares') + 1)
    BY <1>1 DEF TypeInv, TypeOK
  <2>2. \A i \in 1..1 : b[i] + Below(i - 1)' <= Below(0)'
    BY <1>3, <1>4
  <2>3. 1..(1 - 1) = {}
    OBVIOUS
  <2> QED
    BY <2>1, <2>2, <2>3 DEF Paid
<1>6. Paid(d, b, Top(d))' /\ runs'[d] <= b[1] + Open(d)'
  BY <1>1, <1>2, <1>3, <1>5
<1> QED
  BY <1>2, <1>3, <1>6 DEF WithinBudget

LEMMA AttemptNext ==
    ASSUME TypeInv, AttemptInv, MaxAttempts # 0, [Next]_vars
    PROVE  AttemptInv'
<1>1. ASSUME NEW d \in Deliveries, Process(d) \/ Redeliver(d) PROVE AttemptInv'
  <2>1. Counts(d)
    BY <1>1, StepCounts
  <2>2. \E s \in Statuses : \E i :
           /\ Goto(d, s, i)
           /\ s \notin Idle => WithinBudget(d)'
    <3>1. CASE /\ \/ PassThrough(d) \/ Claim(d) \/ EnterRetry(d) \/ RetryAgain(d)
               /\ depth[d] \in DOMAIN middlewares
      <4>1. depth[d] \in Frames
        BY <3>1, FrameBounds
      <4>2. UNCHANGED runs /\ Next_(d)
        BY <3>1 DEF PassThrough, Claim, EnterRetry, RetryAgain, KeepHistory, KeepAround
      <4>3. \/ /\ status[d] = "calling"
               /\ middlewares[depth[d]] = "retry" => attempt'[d][depth[d]] = 1
            \/ /\ status[d] = "threw"
               /\ middlewares[depth[d]] = "retry"
               /\ attempt[d][depth[d]] < MaxAttempts
               /\ attempt'[d][depth[d]] = attempt[d][depth[d]] + 1
        BY <3>1, <4>1, SetAttemptCounts DEF PassThrough, Claim, EnterRetry, RetryAgain, At
      <4>4. WithinBudget(d)'
        BY <2>1, <3>1, <4>2, <4>3, CallsWithin
      <4>5. Goto(d, "calling", depth[d] + 1) /\ "calling" \in Statuses
        BY <4>2 DEF Next_, Statuses
      <4> QED
        BY <4>4, <4>5
    <3>2. CASE /\ \/ PassBack(d) \/ Commit(d) \/ Release(d) \/ ReleaseFails(d)
                  \/ RetryReturns(d) \/ RetryGivesUp(d)
               /\ depth[d] \in DOMAIN middlewares
      <4>1. /\ UNCHANGED runs /\ status[d] \in {"returned", "threw"}
            /\ Return(d) \/ Throw(d)
        BY <3>2 DEF PassBack, Commit, Release, ReleaseFails, RetryReturns, RetryGivesUp,
                    KeepHistory, KeepAround, At
      <4>2. WithinBudget(d)'
        BY <2>1, <3>2, <4>1, ReturnsWithin
      <4>3. {"returned", "threw"} \subseteq Statuses
        BY DEF Statuses
      <4> QED
        BY <4>1, <4>2, <4>3 DEF Return, Throw
    <3>3. CASE ClaimRefused(d) \/ ClaimFails(d) \/ CommitFails(d) \/ HandlerSucceeds(d)
               \/ HandlerFails(d)
      <4>1. /\ UNCHANGED runs
            /\ \/ /\ status[d] \in {"calling", "handling"}
                  /\ Return(d) \/ Throw(d)
               \/ /\ status[d] = "returned"
                  /\ Goto(d, "threw", depth[d])
                  /\ UNCHANGED attempt
        BY <3>3 DEF ClaimRefused, ClaimFails, CommitFails, HandlerSucceeds, HandlerFails,
                    KeepHistory, At
      <4>2. WithinBudget(d)'
        BY <2>1, <4>1, LeavesWithin
      <4>3. {"returned", "threw"} \subseteq Statuses
        BY DEF Statuses
      <4> QED
        BY <4>1, <4>2, <4>3 DEF Return, Throw
    <3>4. CASE StartHandler(d)
      <4>1. WithinBudget(d)'
        BY <3>4, StartsWithin
      <4> QED
        BY <3>4, <4>1 DEF StartHandler, Statuses
    <3>5. CASE Deliver(d)
      <4>1. WithinBudget(d)'
        BY <3>5, DeliversWithin
      <4> QED
        BY <3>5, <4>1 DEF Deliver, Statuses
    <3>6. CASE Settle(d) \/ Redeliver(d)
      <4>1. \E s \in {"acked", "failed", "queued"} : Goto(d, s, 0)
        BY <3>6 DEF Settle, Ack, Fail, Redeliver
      <4>2. {"acked", "failed", "queued"} \subseteq Statuses \cap Idle
        BY DEF Statuses, Idle
      <4> QED
        BY <4>1, <4>2
    <3>7. ~StartHandler(d) /\ Frame(d) => depth[d] \in DOMAIN middlewares
      BY DEF Frame, PassThrough, PassBack, Claim, ClaimRefused, ClaimFails, Commit,
             CommitFails, Release, ReleaseFails, EnterRetry, RetryReturns, RetryAgain,
             RetryGivesUp, At
    <3> QED
      BY <1>1, <3>1, <3>2, <3>3, <3>4, <3>5, <3>6, <3>7 DEF Process, Frame
  <2> QED
    BY <2>1, <2>2, OwnBudget DEF Counts
<1>2. ASSUME NEW m \in LateMiddlewares, RegisterMiddleware(m) PROVE AttemptInv'
  <2>1. InFlight' = InFlight /\ UNCHANGED <<status, depth, runs>>
    BY <1>2 DEF RegisterMiddleware, InFlight
  <2> SUFFICES ASSUME NEW d \in Deliveries, d \in InFlight PROVE WithinBudget(d)'
    BY <2>1 DEF AttemptInv, InFlight
  <2>2. PICK bound \in Budgets : Paid(d, bound, Top(d)) /\ runs[d] <= bound[Top(d)] + Open(d)
    BY DEF AttemptInv, WithinBudget
  <2>3. PICK t : t = Top(d)
    OBVIOUS
  <2>4. t \in 1..(Len(middlewares) + 1) /\ Len(middlewares) \in Nat
        /\ Len(middlewares) <= MaxMiddlewares
    BY <2>2, <2>3 DEF Paid, TypeInv, TypeOK
  <2>5. /\ Paid(d, bound, t)'
        /\ \A i \in 0..Len(middlewares) : Below(i) <= Below(i)'
        /\ \A i \in 0..Len(middlewares) : Below(i) \in Nat
        /\ \A i \in 0..Len(middlewares) : Below(i)' \in Nat
    <3>1. t \in Nat
      BY <2>4
    <3>2. PICK c \in Nat \ {0} : \A i \in 0..Len(middlewares) : Below(i)' = c * Below(i)
      BY <1>2, BelowGrows
    <3>3. \A i \in 0..Len(middlewares) : Below(i) \in Nat
      BY BelowFacts
    <3>4. \A i \in 0..Len(middlewares) : Below(i)' \in Nat
      BY <3>2, <3>3, Products
    <3>5. Paid(d, bound, t)
      BY <2>2, <2>3
    <3> QED
      BY <1>2, <3>1, <3>3, <3>4, <3>5, PaidGrows
  <2>6. Top(d)' = t
    BY <2>1, <2>3 DEF Top
  <2>7. Open(d) <= Open(d)' /\ Open(d) \in Nat /\ Open(d)' \in Nat
    <3>1. CASE status[d] \in {"calling", "handling"}
      BY <2>1, <3>1 DEF Open
    <3>2. CASE status[d] \notin {"calling", "handling"}
      <4>1. PICK j : j = depth[d]
        OBVIOUS
      <4>2. j + 1 = t /\ j \in 0..Len(middlewares)
        BY <2>3, <2>4, <3>2, <4>1 DEF Top, TypeInv, TypeOK
      <4>3. Open(d) = Below(j) /\ Open(d)' = Below(j)'
        BY <2>1, <3>2, <4>1 DEF Open
      <4> QED
        BY <2>5, <4>2, <4>3
    <3> QED
      BY <3>1, <3>2
  <2>8. bound[t] \in Nat /\ runs[d] \in Nat
    <3>1. t \in 1..(MaxMiddlewares + 1)
      BY <2>4, BoundsAssumption
    <3> QED
      BY <3>1 DEF Budgets, TypeInv, TypeOK
  <2>9. runs'[d] <= bound[t] + Open(d)'
    <3>1. runs[d] <= bound[t] + Open(d)
      BY <2>2, <2>3
    <3> QED
      BY <2>1, <2>7, <2>8, <3>1
  <2>10. Paid(d, bound, Top(d))'
    BY <2>5, <2>6
  <2> QED
    BY <2>6, <2>9, <2>10 DEF WithinBudget
<1>3. CASE Crash
  <2>1. InFlight' = {}
    BY <1>3 DEF Crash, InFlight, Idle
  <2> QED
    BY <2>1 DEF AttemptInv
<1>4. CASE UNCHANGED vars
  <2>1. InFlight' = InFlight
    BY <1>4 DEF vars, InFlight
  <2>2. \A i : Below(i)' = Below(i)
    BY <1>4, BelowStays DEF vars
  <2> SUFFICES ASSUME NEW d \in Deliveries, d \in InFlight PROVE WithinBudget(d)'
    BY <2>1 DEF AttemptInv, InFlight
  <2>3. PICK bound \in Budgets : Paid(d, bound, Top(d)) /\ runs[d] <= bound[Top(d)] + Open(d)
    BY DEF AttemptInv, WithinBudget
  <2>4. PICK t : t = Top(d)
    OBVIOUS
  <2>5. Top(d)' = t /\ Open(d)' = Open(d) /\ runs'[d] = runs[d]
    BY <1>4, <2>2, <2>4 DEF vars, Top, Open
  <2>6. Paid(d, bound, t)'
    BY <1>4, <2>3, <2>4, PaidStays DEF vars
  <2>7. Paid(d, bound, Top(d))'
    BY <2>5, <2>6
  <2> QED
    BY <2>3, <2>4, <2>5, <2>7 DEF WithinBudget
<1> QED
  BY <1>1, <1>2, <1>3, <1>4 DEF Next, Done

\* What a budget comes to.
LEMMA BudgetBounds ==
    ASSUME TypeInv, MaxAttempts # 0, NEW d \in InFlight, WithinBudget(d)
    PROVE  runs[d] <= Power[Cardinality(Retries)]
<1>1. PICK bound \in Budgets : Paid(d, bound, Top(d)) /\ runs[d] <= bound[Top(d)] + Open(d)
  BY DEF WithinBudget
<1>2. PICK t : t = Top(d)
  OBVIOUS
<1>3. Paid(d, bound, t) /\ runs[d] <= bound[t] + Open(d)
  BY <1>1, <1>2
<1>4. /\ t \in 1..(Len(middlewares) + 1) /\ Len(middlewares) \in Nat
      /\ t - 1 \in 0..Len(middlewares) /\ 0 \in 0..Len(middlewares)
      /\ t \in 1..(MaxMiddlewares + 1) /\ t \in 1..t
  BY <1>3, BoundsAssumption DEF Paid, TypeInv, TypeOK
<1>5. /\ bound[t] \in Nat /\ runs[d] \in Nat
      /\ Below(t - 1) \in Nat /\ Below(t - 1) >= 1 /\ Below(0) \in Nat
      /\ Below(0) = Power[Cardinality(Retries)]
  BY <1>4, BelowFacts DEF Budgets, TypeInv, TypeOK, InFlight
<1>6. Open(d) \in {0, 1, Below(t - 1)}
  <2>1. depth[d] \in Nat
    BY DEF TypeInv, TypeOK, InFlight
  <2>2. CASE status[d] \in {"calling", "handling"}
    BY <2>2 DEF Open
  <2>3. CASE status[d] \notin {"calling", "handling"}
    <3>1. depth[d] = t - 1
      BY <1>2, <2>1, <2>3 DEF Top
    <3> QED
      BY <2>3, <3>1 DEF Open
  <2> QED
    BY <2>2, <2>3
<1>7. bound[t] + Below(t - 1) <= Below(0)
  BY <1>3, <1>4 DEF Paid
<1> QED
  BY ONLY <1>3, <1>5, <1>6, <1>7

\* A delivery under way has run the handler at most maxAttempts times for every retry
\* middleware of the list, wherever it is in the frames and whatever was registered since
\* it came.  With no attempt allowed at all the bound is wrong: a retry middleware that is
\* registered while the handler runs makes it 0.
THEOREM AttemptsBoundedHolds == MaxAttempts # 0 => (Spec => []AttemptsBounded)
<1> SUFFICES ASSUME MaxAttempts # 0 PROVE Spec => []AttemptsBounded
  OBVIOUS
<1>1. Init => AttemptInv
  BY DEF Init, AttemptInv, InFlight, Idle
<1>2. TypeInv /\ AttemptInv => AttemptsBounded
  BY BudgetBounds DEF AttemptsBounded, AttemptInv
<1> QED
  BY <1>1, <1>2, TypeInit, TypeNext, AttemptNext, PTL DEF Spec

=============================================================================
