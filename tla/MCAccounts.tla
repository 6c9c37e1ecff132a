----------------------------- MODULE MCAccounts -----------------------------
(* Accounts on two handlers, two usernames and two addresses, for TLC. *)
EXTENDS Accounts, TLC

Symmetry == Permutations(Handlers) \cup Permutations(Names) \cup Permutations(Emails)

=============================================================================
