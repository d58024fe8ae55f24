-------------------------- MODULE MCSocketChannel --------------------------
(* SocketChannel on every array of at most MaxBlocks short blocks. *)
EXTENDS SocketChannel
=============================================================================
