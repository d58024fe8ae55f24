--------------------------- MODULE MCMemoryHandle ---------------------------
(* MemoryHandle on a small heap; see the README for the bounds. *)
EXTENDS MemoryHandle, TLC

Symmetry == Permutations(Bufs) \cup Permutations(Handles)
=============================================================================
