--------------------------- MODULE MCDeviceLogin ---------------------------
(* DeviceLogin on two handlers, for TLC. *)
EXTENDS DeviceLogin, TLC

Symmetry == Permutations(Handlers)

=============================================================================
