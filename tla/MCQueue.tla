------------------------------ MODULE MCQueue ------------------------------
(* Queue on three threads; see the README for the bounds. *)
EXTENDS Queue
=============================================================================
