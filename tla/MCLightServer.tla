--------------------------- MODULE MCLightServer ---------------------------
(* LightServer with few clients and few descriptors; see the README. *)
EXTENDS LightServer
=============================================================================
