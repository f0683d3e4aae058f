----------------------------- MODULE MCAmqpDelivery -----------------------------
(* Instances of AmqpDelivery for TLC. *)
EXTENDS AmqpDelivery, TLC

CONSTANTS e1, e2, e3

\* Nothing tells the events apart in a run without malformed ones.
Symmetry == Permutations(Events)
=================================================================================
