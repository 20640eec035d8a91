------------------------------ MODULE Mailbox -------------------------------
(***************************************************************************)
(* What the relay promises its clients, whatever goes on inside it: a      *)
(* message gets an id greater than every id ever given out, it keeps that  *)
(* id and its recipient for as long as it is stored, and a stored message  *)
(* may disappear but never comes back.  Relay implements this              *)
(* specification; InboxSync relies on nothing else about a server.         *)
(***************************************************************************)
EXTENDS Naturals

CONSTANT Users      \* fingerprints

VARIABLES
  box,              \* the stored messages: [id, to]
  last              \* the greatest id given out so far

vars == <<box, last>>

Init == box = {} /\ last = 0

Deliver(to) ==
  /\ last' = last + 1
  /\ box' = box \union {[id |-> last + 1, to |-> to]}

Expire ==
  /\ box' \subseteq box
  /\ UNCHANGED last

Next == (\E to \in Users : Deliver(to)) \/ Expire

Spec == Init /\ [][Next]_vars
=============================================================================
