---------------------------- MODULE MCOpenFiles ----------------------------
(* OpenFiles.tla with interchangeable processes and open files, for the runs *)
(* that check no liveness. *)
EXTENDS OpenFiles, TLC

Interchangeable == Permutations(Procs) \cup Permutations(Opens)
=============================================================================
