---------------------------- MODULE MCScheduler ----------------------------
(* Scheduler on small instances.                                           *)
EXTENDS Scheduler

CONSTANTS a, b, c

Ids2 == {a, b}
Ids3 == {a, b, c}
=============================================================================
