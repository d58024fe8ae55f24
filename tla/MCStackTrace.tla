---------------------------- MODULE MCStackTrace ----------------------------
(* StackTrace for TLC; see the README for the bounds. *)
EXTENDS StackTrace

MCKeys == {"is_pushing", "log_stack"}
=============================================================================
