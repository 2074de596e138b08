---------------------------- MODULE MCScheduler ----------------------------
(* The symmetry Scheduler.tla is checked with; its constants are in the cfg. *)
EXTENDS Scheduler, TLC

\* Thread structures are alike.
Symmetry == Permutations(Threads)
=============================================================================
