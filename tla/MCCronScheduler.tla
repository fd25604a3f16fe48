-------------------------- MODULE MCCronScheduler --------------------------
(* Small instances of CronScheduler for TLC. *)
EXTENDS CronScheduler, TLC

\* Threads are interchangeable in the runs without liveness.
Symmetry == Permutations(Workers)
=============================================================================
