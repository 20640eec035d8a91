----------------------------- MODULE MCComposer -----------------------------
(***************************************************************************)
(* TLC instance of Composer.  Pages, peers and slots are interchangeable,  *)
(* and every property is a safety property, so the symmetry is sound.      *)
(***************************************************************************)
EXTENDS Composer, TLC

Symmetry == Permutations(Pages) \union Permutations(Peers) \union Permutations(Sends)
=============================================================================
