-------------------------- MODULE MCNotifications --------------------------
(***************************************************************************)
(* TLC instances of Notifications: see the .cfg files for the bounds.      *)
(***************************************************************************)
EXTENDS Notifications
=============================================================================
