----------------------------- MODULE MCProcess -----------------------------
(* Process.tla with its user processes interchangeable, for runs that check *)
(* no liveness. *)
EXTENDS Process, TLC

Interchangeable == Permutations(Users) \cup Permutations(Statuses)
=============================================================================
