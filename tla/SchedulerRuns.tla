----------------------------- MODULE SchedulerRuns -----------------------------
(***************************************************************************)
(* Calls of Scheduler.runOnce(), from the timers of node-cron and from the  *)
(* application, which share the scheduler's semaphore of one permit.        *)
(***************************************************************************)
EXTENDS Integers

CONSTANTS
    Schedulers,
    Slots         \* bound: calls of runOnce() of one scheduler under way

VARIABLES
    permits,      \* of executionSemaphore
    runOnce       \* how far each call is: "idle", "executing" and awaiting the
                  \* job, "reporting" and awaiting the error policy

runVars == <<permits, runOnce>>

Calls == Schedulers \X Slots

SchedulerOf(c) == c[1]

RunsTypeOK ==
    /\ permits \in [Schedulers -> 0..1]
    /\ runOnce \in [Calls -> {"idle", "executing", "reporting"}]

RunsInit ==
    /\ permits = [s \in Schedulers |-> 1]
    /\ runOnce = [c \in Calls |-> "idle"]

\* Mutant: the permit is not asked for.
BeginWithoutPermit(c) ==
    /\ runOnce[c] = "idle"
    /\ runOnce' = [runOnce EXCEPT ![c] = "executing"]
    /\ UNCHANGED permits

\* tryAcquire() gave the permit: the job runs.
Begin(c) ==
    /\ runOnce[c] = "idle"
    /\ permits[SchedulerOf(c)] = 1
    /\ permits' = [permits EXCEPT ![SchedulerOf(c)] = 0]
    /\ runOnce' = [runOnce EXCEPT ![c] = "executing"]

\* The job failed and the error policy does not skip the error.
Report(c) ==
    /\ runOnce[c] = "executing"
    /\ runOnce' = [runOnce EXCEPT ![c] = "reporting"]
    /\ UNCHANGED permits

\* Mutant: only a call that has nothing to report gives its permit back.
EndKeepingPermit(c) ==
    /\ runOnce[c] # "idle"
    /\ permits' = IF runOnce[c] = "executing"
                  THEN [permits EXCEPT ![SchedulerOf(c)] = @ + 1] ELSE permits
    /\ runOnce' = [runOnce EXCEPT ![c] = "idle"]

\* The job is done, its error is skipped, or the policy is done with it, also by
\* throwing: the finally block gives the permit back.
End(c) ==
    /\ runOnce[c] # "idle"
    /\ permits' = [permits EXCEPT ![SchedulerOf(c)] = @ + 1]
    /\ runOnce' = [runOnce EXCEPT ![c] = "idle"]

(***************************************************************************)
(* Properties.                                                              *)
(***************************************************************************)
\* However many timers a scheduler has and whoever else calls runOnce(), its job
\* never overlaps with itself, nor with the report of its own failure.
JobNeverOverlaps ==
    \A c, d \in Calls :
        /\ SchedulerOf(c) = SchedulerOf(d)
        /\ runOnce[c] # "idle"
        /\ runOnce[d] # "idle"
        => c = d

\* A permit is out only as long as a call is under way: a job that fails, or
\* whose failure cannot be reported, does not keep the scheduler from running.
PermitAccounted ==
    \A s \in Schedulers :
        permits[s] = 0 => \E c \in Calls : SchedulerOf(c) = s /\ runOnce[c] # "idle"
================================================================================
