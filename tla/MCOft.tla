------------------------------- MODULE MCOft -------------------------------
(* Oft.tla with interchangeable open file infos. *)
EXTENDS Oft, TLC

Interchangeable == Permutations(Infos)
=============================================================================
