----------------------------- MODULE MCSessions -----------------------------
(* Instances of Sessions for TLC. *)
EXTENDS Sessions, TLC

Perms == Permutations(Tokens) \cup Permutations(Calls) \cup Permutations(Links)
=============================================================================
