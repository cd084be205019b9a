----------------------------- MODULE MCSessions -----------------------------
(* Instances of Sessions for TLC. *)
EXTENDS Sessions, TLC

Symmetry == Permutations(Clients \ Mortal) \cup Permutations(Mortal)
=============================================================================
