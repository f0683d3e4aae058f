---------------------------- MODULE MCKernelLifecycle ----------------------------
(* Instances of KernelLifecycle for TLC. *)
EXTENDS KernelLifecycle

CONSTANTS c1, c2, s1, r1, h1, app, cron, d1
=================================================================================
