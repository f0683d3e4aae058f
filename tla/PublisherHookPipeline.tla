----------------------- MODULE PublisherHookPipeline -----------------------
\* PublisherHookPipeline: what the in-memory adapters and the AMQP bus wrap
\* around publish(). The before hooks run outside the try block; publish(), the
\* after hooks and their error policy inside it; the error hooks in its catch.
\* All loops read the live array of hooks, so a hook registered meanwhile is
\* seen by every loop that has not ended. A step here is one promise settling:
\* the hook, publish() or policy call under way ends, and the code runs on to
\* its next await. The step publish() itself takes belongs to the adapter.
EXTENDS Naturals

CONSTANTS
    Publishes,    \* calls of run()
    MaxHooks      \* bound: hooks registered

ASSUME MaxHooksAssumption == MaxHooks \in Nat

VARIABLES
    hooks,        \* how many hooks the array holds
    stage,        \* what each call awaits
    at,           \* the hook it awaits, 0 for none
    failure,      \* whose error it will throw
    began,        \* history: hooks there were when it was called
    ran           \* history: hooks it called, by method

pipelineVars == <<hooks, stage, at, failure, began, ran>>

Methods == {"beforePublish", "afterPublish", "onPublishError"}

LoopOf == [beforePublish |-> "before", afterPublish |-> "after",
           onPublishError |-> "reporting"]

ExitOf == [beforePublish |-> "hooked", afterPublish |-> "published",
           onPublishError |-> "failed"]

Stages == {"idle", "before", "hooked", "publishing", "returned", "after",
           "policy", "threw", "reporting", "published", "failed"}

Failures == {"none", "before", "publish", "after", "policy", "reporting"}

PipelineTypeOK ==
    /\ hooks \in 0..MaxHooks
    /\ stage \in [Publishes -> Stages]
    /\ at \in [Publishes -> 0..MaxHooks]
    /\ failure \in [Publishes -> Failures]
    /\ began \in [Publishes -> 0..MaxHooks]
    /\ ran \in [Publishes -> [Methods -> 0..MaxHooks]]

PipelineInit ==
    /\ hooks \in 0..MaxHooks
    /\ stage = [p \in Publishes |-> "idle"]
    /\ at = [p \in Publishes |-> 0]
    /\ failure = [p \in Publishes |-> "none"]
    /\ began = [p \in Publishes |-> 0]
    /\ ran = [p \in Publishes |-> [m \in Methods |-> 0]]

Step(p, s) == stage' = [stage EXCEPT ![p] = s]

\* Mutant: the loop takes one hook more than there are.
LoopPastEnd(p, method, i) ==
    IF i <= hooks + 1
    THEN /\ Step(p, LoopOf[method])
         /\ at' = [at EXCEPT ![p] = i]
         /\ ran' = [ran EXCEPT ![p][method] = i]
    ELSE /\ Step(p, ExitOf[method])
         /\ at' = [at EXCEPT ![p] = 0]
         /\ UNCHANGED ran

\* The for-of loop over the live array takes hook i, or ends.
Loop(p, method, i) ==
    IF i <= hooks
    THEN /\ Step(p, LoopOf[method])
         /\ at' = [at EXCEPT ![p] = i]
         /\ ran' = [ran EXCEPT ![p][method] = i]
    ELSE /\ Step(p, ExitOf[method])
         /\ at' = [at EXCEPT ![p] = 0]
         /\ UNCHANGED ran

Run(p) ==
    /\ stage[p] = "idle"
    /\ Loop(p, "beforePublish", 1)
    /\ began' = [began EXCEPT ![p] = hooks]
    /\ UNCHANGED <<hooks, failure>>

HookSettles(p, method) ==
    /\ stage[p] = LoopOf[method]
    /\ Loop(p, method, at[p] + 1)
    /\ UNCHANGED <<hooks, failure, began>>

\* The call ends with an error of this kind, at stage s.
Throw(p, kind, s) ==
    /\ Step(p, s)
    /\ at' = [at EXCEPT ![p] = 0]
    /\ failure' = [failure EXCEPT ![p] = kind]
    /\ UNCHANGED <<hooks, began, ran>>

BeforeHookFails(p) == stage[p] = "before" /\ Throw(p, "before", "failed")

Published(p) ==
    /\ stage[p] = "returned"
    /\ Loop(p, "afterPublish", 1)
    /\ UNCHANGED <<hooks, failure, began>>

AfterHookFails(p) ==
    /\ stage[p] = "after"
    /\ Step(p, "policy")
    /\ UNCHANGED <<hooks, at, failure, began, ran>>

\* Mutant: a hook that fails ends the loop, although it is forgiven.
PolicyForgivesAll(p) ==
    /\ stage[p] = "policy"
    /\ Step(p, "published")
    /\ at' = [at EXCEPT ![p] = 0]
    /\ UNCHANGED <<hooks, failure, began, ran>>

PolicyForgives(p) ==
    /\ stage[p] = "policy"
    /\ Loop(p, "afterPublish", at[p] + 1)
    /\ UNCHANGED <<hooks, failure, began>>

PolicyFails(p) ==
    \E kind \in {"after", "policy"} :
        stage[p] = "policy" /\ Throw(p, kind, "threw")

Catch(p) ==
    /\ stage[p] = "threw"
    /\ Loop(p, "onPublishError", 1)
    /\ UNCHANGED <<hooks, failure, began>>

ErrorHookFails(p) == stage[p] = "reporting" /\ Throw(p, "reporting", "failed")

RegisterHook ==
    /\ hooks < MaxHooks
    /\ hooks' = hooks + 1
    /\ UNCHANGED <<stage, at, failure, began, ran>>

HookStep(p) ==
    \/ \E method \in Methods : HookSettles(p, method)
    \/ BeforeHookFails(p)
    \/ Published(p)
    \/ AfterHookFails(p)
    \/ PolicyForgives(p)
    \/ PolicyFails(p)
    \/ Catch(p)
    \/ ErrorHookFails(p)

\* A publish that resolves has called both methods of every hook there was
\* when it began; one that rejects has reported its error to all of them,
\* unless a before hook failed, which is reported to none, or an error hook did.
HooksComplete ==
    \A p \in Publishes :
        /\ stage[p] = "published" =>
              /\ ran[p].beforePublish >= began[p]
              /\ ran[p].afterPublish >= ran[p].beforePublish
              /\ ran[p].onPublishError = 0
        /\ stage[p] = "failed" /\ failure[p] \in {"publish", "after", "policy"} =>
              ran[p].onPublishError >= began[p]
        /\ failure[p] = "before" =>
              ran[p].afterPublish = 0 /\ ran[p].onPublishError = 0
=============================================================================
