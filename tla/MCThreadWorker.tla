--------------------------- MODULE MCThreadWorker ---------------------------
(* ThreadWorker with the owner and other clients. *)
EXTENDS ThreadWorker
=============================================================================
