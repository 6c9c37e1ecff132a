----------------------------- MODULE MCWallets -----------------------------
(* Wallets with two handlers, for TLC. *)
EXTENDS Wallets, TLC

Symmetry == Permutations(Handlers) \cup Permutations(Users) \cup Permutations(Addresses)

=============================================================================
