--------------------------- MODULE MCSocialGraph ---------------------------
(* SocialGraph on a few users, for TLC. *)
EXTENDS SocialGraph, TLC

Symmetry == Permutations(Users) \cup Permutations(Handlers) \cup Permutations(EdgeIds)

=============================================================================
