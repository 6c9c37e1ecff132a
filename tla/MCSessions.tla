----------------------------- MODULE MCSessions -----------------------------
(* Sessions of one user, for TLC. *)
EXTENDS Sessions, TLC

CONSTANT u

MCOwner == [d \in Devices |-> u]

Symmetry == Permutations(Devices) \cup Permutations(Sids) \cup Permutations(Handlers)

=============================================================================
