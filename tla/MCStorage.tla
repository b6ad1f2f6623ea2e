----------------------------- MODULE MCStorage -----------------------------
(* Two processes on a state directory, for TLC. *)
EXTENDS Storage, TLC

Sym == Permutations(Proc) \cup Permutations(Name) \cup Permutations(Key)
=============================================================================
