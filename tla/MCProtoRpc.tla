------------------------------ MODULE MCProtoRpc ------------------------------
(* ProtoRpc with a plain function "a", an extended one "b", and names nobody registered. *)
EXTENDS ProtoRpc

Byte(letter) == [byte |-> letter]
MCOctets == {Byte("a"), Byte("b"), Byte("c")}
MCPlain == {<<Byte("a")>>}
MCExtended == {<<Byte("b")>>}

\* Names of one byte, and one that begins with the name of the plain function
MCNames == MCPlain \cup MCExtended \cup {<<Byte("c")>>}
MCLongNames == MCPlain \cup {<<Byte("a"), Byte("c")>>}

\* Serialized messages: empty, or of one byte that a name has too
MCContents == {<<>>, <<Byte("a")>>, <<Byte("c")>>}
MCShortContents == {<<Byte("a")>>, <<Byte("c")>>}
=============================================================================
