----------------------------- MODULE MCUserSync -----------------------------
(* UserSync on a few clients, workers and nodes, for TLC. *)
EXTENDS UserSync, TLC

=============================================================================
