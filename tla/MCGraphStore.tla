----------------------------- MODULE MCGraphStore -----------------------------
(* A small instance of GraphStore for TLC. *)
EXTENDS GraphStore, TLC

CONSTANTS fan, purchase, edge1, c1, c2

(* Two anchor calls are alike.                                                 *)
CallerSymmetry == Permutations(Caller)
=============================================================================
