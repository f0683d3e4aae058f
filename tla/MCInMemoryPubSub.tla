-------------------------- MODULE MCInMemoryPubSub --------------------------
\* One publish, while three subscriptions, two of them of the same handler, open
\* and close. Publishes only read what others write, so one shows them all.
EXTENDS InMemoryPubSub, TLC

CONSTANTS p1, h1, h2, s1, s2, s3

MCHandlerOf == s1 :> h1 @@ s2 :> h1 @@ s3 :> h2
=============================================================================
