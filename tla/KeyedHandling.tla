---------------------------- MODULE KeyedHandling ----------------------------
(***************************************************************************)
(* What idempotent consumption promises about each key, without deliveries, *)
(* frames or a store: one attempt at a time, at most one success in an      *)
(* attempt, and no attempt after a success that was recorded.               *)
(***************************************************************************)
EXTENDS Naturals

CONSTANTS
    Keys,
    Forgetful   \* may a recorded or unrecorded success be forgotten?

VARIABLES
    phase,      \* of each key
    effects     \* successes of each key so far; 2 stands for more

vars == <<phase, effects>>

Phases == {"free", "busy", "worked", "done"}

Init ==
    /\ phase = [k \in Keys |-> "free"]
    /\ effects = [k \in Keys |-> 0]

Move(k, from, to) ==
    /\ phase[k] \in from
    /\ phase' = [phase EXCEPT ![k] = to]

Begin(k) == Move(k, {"free"}, "busy") /\ UNCHANGED effects

Succeed(k) ==
    /\ Move(k, {"busy"}, "worked")
    /\ effects' = [effects EXCEPT ![k] = IF @ = 2 THEN 2 ELSE @ + 1]

Record(k) == Move(k, {"worked"}, "done") /\ UNCHANGED effects

Abandon(k) == Move(k, {"busy"}, "free") /\ UNCHANGED effects

\* The record of a success is lost and the attempt goes on as a failed one.
Forget(k) == Forgetful /\ Move(k, {"worked"}, "busy") /\ UNCHANGED effects

\* The process stops: no success that is not recorded yet will be.
Interrupt ==
    /\ Forgetful
    /\ phase' = [k \in Keys |-> IF phase[k] = "worked" THEN "busy" ELSE phase[k]]
    /\ UNCHANGED effects

\* Every key starts over: what was recorded is gone.
Restart ==
    /\ Forgetful
    /\ phase' = [k \in Keys |-> "free"]
    /\ UNCHANGED effects

Next ==
    \/ \E k \in Keys :
          Begin(k) \/ Succeed(k) \/ Record(k) \/ Abandon(k) \/ Forget(k)
    \/ Interrupt \/ Restart

Spec == Init /\ [][Next]_vars

\* The effect of a key happens once, and is known to have happened.
OnceAndKnown ==
    ~Forgetful =>
        \A k \in Keys :
            /\ effects[k] <= 1
            /\ phase[k] \in {"worked", "done"} <=> effects[k] = 1
=============================================================================
