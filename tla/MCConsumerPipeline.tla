-------------------------- MODULE MCConsumerPipeline --------------------------
(* Instances of ConsumerPipeline for TLC. *)
EXTENDS ConsumerPipeline

CONSTANTS d1, d2, d3, k1, k2

\* Two deliveries of one event and one of another.
MCDeliveries == {d1, d2, d3}
MCKeys == {k1, k2}
MCKeyOf == [d \in MCDeliveries |-> IF d = d3 THEN k2 ELSE k1]

\* Two deliveries of one event.
PairDeliveries == {d1, d2}
PairKeys == {k1}
PairKeyOf == [d \in PairDeliveries |-> k1]

\* The order of the guides: idempotency around retry.
GuideOrder == <<"correlation", "idempotency", "retry">>


\* Retry on both sides of the claim.
RetryBothSides == <<"retry", "idempotency", "retry">>

===============================================================================
