--------------------------- MODULE MCRegistration ---------------------------
(***************************************************************************)
(* TLC instance of Registration: two honest sessions share a key, one has  *)
(* a key of its own, and one presents a key it does not hold.              *)
(***************************************************************************)
EXTENDS Registration, TLC

CONSTANTS a, b, tab1, tab2, other, wrong

MCPresents == (tab1 :> a) @@ (tab2 :> a) @@ (other :> b) @@ (wrong :> a)
MCHolds == (tab1 :> a) @@ (tab2 :> a) @@ (other :> b) @@ (wrong :> b)

\* The two tabs present and hold the same: nothing tells them apart.
Tabs == Permutations({tab1, tab2})
=============================================================================
