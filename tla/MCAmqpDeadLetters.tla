--------------------------- MODULE MCAmqpDeadLetters ---------------------------
(* An instance of AmqpDeadLetters for TLC: two calls, one of which asks for   *)
(* two letters.                                                              *)
EXTENDS AmqpDeadLetters, TLC

CONSTANTS e1, e2, e3, c1, c2

\* options.maxRetries is undefined: the first failure goes to the dead letters.
NotConfigured == -1

RequestedOf == c1 :> -1 @@ c2 :> 2
================================================================================
