------------------------------ MODULE MCVector ------------------------------
(* Vector on a small heap; see the README for the bounds. *)
EXTENDS Vector, TLC

Symmetry == Permutations(Bufs) \cup Permutations(Handles) \cup Permutations(Vectors)
=============================================================================
