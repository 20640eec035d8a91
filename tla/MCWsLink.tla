------------------------------ MODULE MCWsLink ------------------------------
(***************************************************************************)
(* TLC instances of WsLink: see the .cfg files for the bounds.             *)
(***************************************************************************)
EXTENDS WsLink
=============================================================================
