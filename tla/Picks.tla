------------------------------- MODULE Picks -------------------------------
(***************************************************************************)
(* What JavaScript's filter leaves of an array: the elements at some of    *)
(* its places, in their order.  Pure operators, used by Notifications and  *)
(* Unread, written without recursion so that they can be reasoned about.   *)
(***************************************************************************)
EXTENDS Naturals, Sequences, FiniteSets

\* A finite set of numbers as an ascending sequence.
Ascending(S) ==
  CHOOSE s \in [1..Cardinality(S) -> S] : \A i, j \in DOMAIN s : i < j => s[i] < s[j]

\* What is left of a sequence when only these of its places are kept.
Keep(seq, places) == [i \in 1..Cardinality(places) |-> seq[Ascending(places)[i]]]
=============================================================================
