------------------------------ MODULE MCUnread ------------------------------
(***************************************************************************)
(* TLC instance of Unread: two tabs of one browser, two senders.           *)
(***************************************************************************)
EXTENDS Unread, TLC

\* Nothing tells two tabs, or two senders, apart.
Alike == Permutations(Tabs) \union Permutations(Peers)
=============================================================================
