-------------------------- MODULE MCNotifications --------------------------
(* Notifications of a user with two clients, for TLC. *)
EXTENDS Notifications, TLC

=============================================================================
