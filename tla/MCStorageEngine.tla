-------------------------- MODULE MCStorageEngine --------------------------
(* StorageEngine on three threads; see the README for the bounds. *)
EXTENDS StorageEngine
=============================================================================
