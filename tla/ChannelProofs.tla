--------------------------- MODULE ChannelProofs ---------------------------
(***************************************************************************)
(* The properties of a transfer, for blocks of any number and lengths, any *)
(* number of them to a call, and any number of failing calls; and those of *)
(* the calls of a client over such a channel, for any functions, messages  *)
(* and number of calls.                                                    *)
(*                                                                         *)
(* The stream is the blocks flattened, and FlattenSeq is recursive: that a *)
(* block more is a piece more (FlattenAppend) is shown by induction over   *)
(* the natural numbers, which is done for one set at a time, from the      *)
(* least number that would not be in it (ByInduction).                     *)
(*                                                                         *)
(* The invariant IInv says, for each point of the loop, how the position,  *)
(* the count and the array belong together.  Its core is that the bytes    *)
(* before the current block, those passed in it and what the next call is  *)
(* given are together the beginning of the stream (WindowInStream).        *)
(*                                                                         *)
(* The invariant of the calls, RpcInv, says where the message of a call    *)
(* is: on its way to the worker, in its hand, on its way back or in the    *)
(* client's, with what the stream holds in each case; whoever reads it has *)
(* read the first of its blocks, the rest of them is next in the stream.   *)
(***************************************************************************)
EXTENDS SocketChannel, ProtoRpc, SequenceTheorems, WellFoundedInduction,
        FiniteSetTheorems, TLAPS

\* A set of natural numbers with an element has a least one.
LEMMA Least ==
    ASSUME NEW T \in SUBSET Nat, T # {}
    PROVE  \E n \in T : \A k \in T : n <= k
<1> DEFINE R == {p \in Nat \X Nat : p[1] < p[2]}
<1>1. IsWellFoundedOn(R, Nat)
  BY NatLessThanWellFounded, Zenon DEF OpToRel
<1>2. PICK x \in T : \A y \in T : <<y, x>> \notin R
  <2> HIDE DEF R
  <2> QED BY <1>1, WFMin
<1>3. ASSUME NEW y \in T PROVE x <= y
  <2>1. x \in Nat /\ y \in Nat /\ <<y, x>> \in Nat \X Nat
    OBVIOUS
  <2>2. ~(y < x)
    BY <1>2, <2>1
  <2> QED BY <2>1, <2>2
<1> QED BY <1>3

\* What holds of 0 and is handed on from each number to the next holds of all.
LEMMA ByInduction ==
    ASSUME NEW T \in SUBSET Nat, 0 \in T, \A n \in T : n + 1 \in T
    PROVE  T = Nat
<1> SUFFICES ASSUME Nat \ T # {} PROVE FALSE
  OBVIOUS
<1>1. PICK n \in Nat \ T : \A k \in Nat \ T : n <= k
  BY Least
<1>2. n # 0 /\ n - 1 \in Nat /\ ~(n <= n - 1)
  BY <1>1
<1>3. n - 1 \in T
  BY <1>1, <1>2
<1>4. (n - 1) + 1 \in T
  BY <1>3
<1> QED BY <1>1, <1>4

\* f holds the beginnings of the flattened s.
Flattens(f, s) == \A k \in 1..Len(s) : f[k] = IF k = 1 THEN s[k] ELSE f[k - 1] \o s[k]

\* The beginnings of the first n of them.
Begins(f, s, n) == \A k \in 1..n : f[k] = IF k = 1 THEN s[k] ELSE f[k - 1] \o s[k]

\* The beginnings go on by one.
LEMMA FlattenStep ==
    ASSUME NEW S, NEW s \in Seq(Seq(S)), NEW n \in Nat, n + 1 <= Len(s),
           NEW f \in [1..n -> Seq(S)], Begins(f, s, n)
    PROVE  \E g \in [1..n + 1 -> Seq(S)] : Begins(g, s, n + 1)
<1>1. s[n + 1] \in Seq(S) /\ n + 1 \in 1..Len(s)
  OBVIOUS
<1>2. PICK last \in Seq(S) : last = IF n = 0 THEN s[n + 1] ELSE f[n] \o s[n + 1]
  <2>1. CASE n = 0
    BY <1>1, <2>1
  <2>2. CASE n # 0
    <3>1. n \in 1..n
      BY <2>2
    <3>2. f[n] \in Seq(S)
      BY <3>1
    <3>3. f[n] \o s[n + 1] \in Seq(S)
      BY <1>1, <3>2, ConcatProperties
    <3> QED BY <2>2, <3>3
  <2> QED BY <2>1, <2>2
<1> DEFINE g == [k \in 1..n + 1 |-> IF k <= n THEN f[k] ELSE last]
<1>3. g \in [1..n + 1 -> Seq(S)]
  <2>1. ASSUME NEW k \in 1..n + 1 PROVE (IF k <= n THEN f[k] ELSE last) \in Seq(S)
    <3>1. CASE k <= n
      <4>1. k \in 1..n
        BY <3>1
      <4> QED BY <3>1, <4>1
    <3>2. CASE ~(k <= n)
      BY <1>2, <3>2
    <3> QED BY <3>1, <3>2
  <2> QED BY <2>1
<1>4. /\ \A k \in 1..n : g[k] = f[k]
      /\ g[n + 1] = last
  OBVIOUS
<1> HIDE DEF g
<1>5. ASSUME NEW k \in 1..n + 1
      PROVE  g[k] = IF k = 1 THEN s[k] ELSE g[k - 1] \o s[k]
  <2>1. CASE k \in 1..n
    <3>1. f[k] = IF k = 1 THEN s[k] ELSE f[k - 1] \o s[k]
      BY <2>1 DEF Begins
    <3>2. k # 1 => k - 1 \in 1..n
      BY <2>1
    <3>3. g[k] = f[k] /\ (k # 1 => g[k - 1] = f[k - 1])
      BY <1>4, <2>1, <3>2
    <3> QED BY <3>1, <3>3
  <2>2. CASE k = n + 1 /\ n = 0
    BY <1>2, <1>4, <2>2
  <2>3. CASE k = n + 1 /\ n # 0
    <3>1. k - 1 = n /\ k # 1 /\ n \in 1..n
      BY <2>3
    <3>2. g[n] = f[n] /\ g[k] = f[n] \o s[k]
      BY <1>2, <1>4, <2>3, <3>1
    <3> QED BY <3>1, <3>2
  <2> QED BY <2>1, <2>2, <2>3
<1> QED BY <1>3, <1>5 DEF Begins

\* There are beginnings of the flattened sequence,
LEMMA FlattenExists ==
    ASSUME NEW S, NEW s \in Seq(Seq(S))
    PROVE  \E f \in [1..Len(s) -> Seq(S)] : Flattens(f, s)
<1> DEFINE T == {n \in Nat : n <= Len(s) => \E f \in [1..n -> Seq(S)] : Begins(f, s, n)}
<1>0. Len(s) \in Nat
  OBVIOUS
<1>1. 0 \in T
  <2>1. PICK f : f = [k \in 1..0 |-> <<>>]
    OBVIOUS
  <2>2. 1..0 = {}
    OBVIOUS
  <2>3. f \in [1..0 -> Seq(S)]
    BY <2>1, <2>2
  <2>4. Begins(f, s, 0)
    BY <2>2 DEF Begins
  <2> QED BY <2>3, <2>4
<1>2. ASSUME NEW n \in T PROVE n + 1 \in T
  <2>1. n \in Nat /\ n + 1 \in Nat
    OBVIOUS
  <2>2. ASSUME n + 1 <= Len(s)
        PROVE  \E g \in [1..n + 1 -> Seq(S)] : Begins(g, s, n + 1)
    <3>1. PICK f \in [1..n -> Seq(S)] : Begins(f, s, n)
      BY <1>0, <2>1, <2>2
    <3> QED BY <2>1, <2>2, <3>1, FlattenStep
  <2> QED BY <2>1, <2>2
<1>3. T = Nat
  <2>1. T \subseteq Nat
    OBVIOUS
  <2> HIDE DEF T
  <2> QED BY <1>1, <1>2, <2>1, ByInduction
<1>4. Len(s) \in T
  <2> HIDE DEF T
  <2> QED BY <1>0, <1>3
<1>5. PICK f \in [1..Len(s) -> Seq(S)] : Begins(f, s, Len(s))
  BY <1>0, <1>4
<1>6. Flattens(f, s)
  BY <1>5, Zenon DEF Flattens, Begins
<1> QED BY <1>6

\* there are no two of them,
LEMMA FlattenUnique ==
    ASSUME NEW s, Len(s) \in Nat, NEW f, NEW g, Flattens(f, s), Flattens(g, s), NEW k \in 1..Len(s)
    PROVE  f[k] = g[k]
<1> DEFINE T == {n \in Nat : n \in 1..Len(s) => f[n] = g[n]}
<1>1. 0 \in T
  OBVIOUS
<1>2. ASSUME NEW n \in T PROVE n + 1 \in T
  <2> SUFFICES ASSUME n + 1 \in 1..Len(s) PROVE f[n + 1] = g[n + 1]
    OBVIOUS
  <2>1. CASE n = 0
    BY <2>1 DEF Flattens
  <2>2. CASE n # 0
    <3>1. f[n] = g[n] /\ (n + 1) - 1 = n /\ n + 1 # 1
      BY <2>2
    <3> QED BY <3>1 DEF Flattens
  <2> QED BY <2>1, <2>2
<1>3. T = Nat
  <2>1. T \subseteq Nat
    OBVIOUS
  <2> HIDE DEF T
  <2> QED BY <1>1, <1>2, <2>1, ByInduction
<1> QED BY <1>3

\* and the last of them is what FlattenSeq returns.
LEMMA FlattenIs ==
    ASSUME NEW S, NEW s \in Seq(Seq(S)), Len(s) # 0, NEW f, Flattens(f, s)
    PROVE  FlattenSeq(s) = f[Len(s)]
<1> DEFINE D(h) == [k \in 1..Len(s) |-> IF k = 1 THEN s[k] ELSE h[k - 1] \o s[k]]
           flat == CHOOSE h : h = D(h)
<1>1. FlattenSeq(s) = flat[Len(s)]
  BY DEF FlattenSeq
<1>2. \E h : h = D(h)
  <2>1. PICK h \in [1..Len(s) -> Seq(S)] : Flattens(h, s)
    BY FlattenExists
  <2>2. h = D(h)
    BY <2>1 DEF Flattens
  <2> QED BY <2>2
<1>3. flat = D(flat)
  <2> HIDE DEF D
  <2> QED BY <1>2
<1>4. Flattens(flat, s)
  <2> HIDE DEF flat
  <2> QED BY <1>3 DEF Flattens
<1>5. Len(s) \in 1..Len(s)
  OBVIOUS
<1> HIDE DEF flat
<1> QED BY <1>1, <1>4, <1>5, FlattenUnique

\* Nothing flattened is nothing.
LEMMA FlattenEmpty == FlattenSeq(<<>>) = <<>>
BY DEF FlattenSeq

\* One sequence appended is its elements more.
LEMMA FlattenAppend ==
    ASSUME NEW S, NEW s \in Seq(Seq(S)), NEW x \in Seq(S)
    PROVE  /\ FlattenSeq(s) \in Seq(S)
           /\ FlattenSeq(Append(s, x)) = FlattenSeq(s) \o x
<1>1. PICK t \in Seq(Seq(S)) : t = Append(s, x)
  <2>1. Append(s, x) \in Seq(Seq(S))
    BY AppendProperties
  <2> QED BY <2>1
<1>2. /\ Len(s) \in Nat /\ Len(t) = Len(s) + 1 /\ t[Len(s) + 1] = x
      /\ \A k \in 1..Len(s) : t[k] = s[k]
  BY <1>1
<1>3. PICK f \in [1..Len(t) -> Seq(S)] : Flattens(f, t)
  BY FlattenExists
<1>4. FlattenSeq(t) = f[Len(t)]
  BY <1>2, <1>3, FlattenIs
<1>5. Flattens(f, s)
  <2>1. ASSUME NEW k \in 1..Len(s)
        PROVE  f[k] = IF k = 1 THEN s[k] ELSE f[k - 1] \o s[k]
    <3>1. k \in 1..Len(t) /\ t[k] = s[k]
      BY <1>2
    <3> QED BY <1>3, <3>1 DEF Flattens
  <2> QED BY <2>1 DEF Flattens
<1>6. CASE Len(s) = 0
  <2>1. s = <<>>
    BY <1>6
  <2>2. FlattenSeq(s) = <<>>
    BY <2>1, FlattenEmpty
  <2>3. 1 \in 1..Len(t) /\ Len(t) = 1 /\ t[1] = x
    BY <1>2, <1>6
  <2>4. f[1] = x
    BY <1>3, <2>3 DEF Flattens
  <2>5. <<>> \o x = x
    OBVIOUS
  <2>6. <<>> \in Seq(S)
    OBVIOUS
  <2> QED BY <1>1, <1>4, <2>2, <2>3, <2>4, <2>5, <2>6
<1>7. CASE Len(s) # 0
  <2>1. Len(s) \in 1..Len(t) /\ Len(t) \in 1..Len(t) /\ Len(t) # 1 /\ Len(t) - 1 = Len(s)
    BY <1>2, <1>7
  <2>2. FlattenSeq(s) = f[Len(s)]
    BY <1>5, <1>7, FlattenIs
  <2>3. f[Len(t)] = f[Len(t) - 1] \o t[Len(t)]
    BY <1>3, <2>1 DEF Flattens
  <2>4. t[Len(t)] = x
    BY <1>2
  <2>5. f[Len(s)] \in Seq(S)
    BY <2>1
  <2> QED BY <1>1, <1>4, <2>1, <2>2, <2>3, <2>4, <2>5
<1> QED BY <1>2, <1>6, <1>7
-----------------------------------------------------------------------------
Byte == Nat \X Nat

\* A function on 1..n is a sequence.
LEMMA FunctionsAreSeqs == \A S : \A n \in Nat : \A f \in [1..n -> S] : f \in Seq(S) /\ Len(f) = n
OBVIOUS

\* n bytes of a block are a sequence of n.
LEMMA BytesFacts ==
    ASSUME NEW b \in Nat, NEW from \in Nat, NEW n \in Nat
    PROVE  /\ Bytes(b, from, n) \in Seq(Byte)
           /\ Len(Bytes(b, from, n)) = n
           /\ \A k \in 1..n : Bytes(b, from, n)[k] = <<b, from + k - 1>>
<1>1. \A k \in 1..n : <<b, from + k - 1>> \in Byte
  BY DEF Byte
<1>2. Bytes(b, from, n) \in [1..n -> Byte]
  BY <1>1 DEF Bytes
<1> QED BY <1>2, FunctionsAreSeqs DEF Bytes

\* The first d bytes of a block and the next n are the first d + n.
LEMMA BytesSplit ==
    ASSUME NEW b \in Nat, NEW d \in Nat, NEW n \in Nat
    PROVE  Bytes(b, 0, d) \o Bytes(b, d, n) = Bytes(b, 0, d + n)
<1>1. PICK p, q, r \in Seq(Byte) : p = Bytes(b, 0, d) /\ q = Bytes(b, d, n) /\ r = Bytes(b, 0, d + n)
  <2>1. 0 \in Nat /\ d + n \in Nat
    OBVIOUS
  <2>2. Bytes(b, 0, d) \in Seq(Byte) /\ Bytes(b, d, n) \in Seq(Byte)
    BY <2>1, BytesFacts
  <2>3. Bytes(b, 0, d + n) \in Seq(Byte)
    BY <2>1, BytesFacts
  <2> QED BY <2>2, <2>3
<1>2. /\ Len(p) = d /\ Len(q) = n /\ Len(r) = d + n
      /\ \A k \in 1..d : p[k] = <<b, 0 + k - 1>>
      /\ \A k \in 1..n : q[k] = <<b, d + k - 1>>
      /\ \A k \in 1..d + n : r[k] = <<b, 0 + k - 1>>
  <2>1. 0 \in Nat /\ d + n \in Nat
    OBVIOUS
  <2>2. Len(p) = d /\ \A k \in 1..d : p[k] = <<b, 0 + k - 1>>
    <3>1. /\ Len(Bytes(b, 0, d)) = d
          /\ \A k \in 1..d : Bytes(b, 0, d)[k] = <<b, 0 + k - 1>>
      BY <2>1, BytesFacts, Zenon
    <3> QED BY <1>1, <3>1, Zenon
  <2>3. Len(q) = n /\ \A k \in 1..n : q[k] = <<b, d + k - 1>>
    <3>1. /\ Len(Bytes(b, d, n)) = n
          /\ \A k \in 1..n : Bytes(b, d, n)[k] = <<b, d + k - 1>>
      BY <2>1, BytesFacts, Zenon
    <3> QED BY <1>1, <3>1, Zenon
  <2>4. Len(r) = d + n /\ \A k \in 1..d + n : r[k] = <<b, 0 + k - 1>>
    <3>1. /\ Len(Bytes(b, 0, d + n)) = d + n
          /\ \A k \in 1..d + n : Bytes(b, 0, d + n)[k] = <<b, 0 + k - 1>>
      BY <2>1, BytesFacts, Zenon
    <3> QED BY <1>1, <3>1, Zenon
  <2> QED BY <2>2, <2>3, <2>4
<1>3. /\ p \o q \in Seq(Byte) /\ Len(p \o q) = d + n
      /\ \A k \in 1..d + n : (p \o q)[k] = IF k <= d THEN p[k] ELSE q[k - d]
  BY <1>2, ConcatProperties
<1>4. ASSUME NEW k \in 1..d + n PROVE (p \o q)[k] = r[k]
  <2>1. CASE k <= d
    <3>1. k \in 1..d
      BY <2>1
    <3> QED BY <1>2, <1>3, <2>1, <3>1
  <2>2. CASE ~(k <= d)
    <3>1. k - d \in 1..n /\ d + (k - d) - 1 = 0 + k - 1
      BY <2>2
    <3> QED BY <1>2, <1>3, <2>2, <3>1
  <2> QED BY <2>1, <2>2
<1>5. p \o q = r
  BY <1>2, <1>3, <1>4, SeqEqual
<1> QED BY <1>1, <1>5

\* One sequence more.
LEMMA FlattenMore ==
    ASSUME NEW S, NEW n \in Nat, NEW r \in Seq(Seq(S)), NEW s \in Seq(Seq(S)),
           Len(r) = n, Len(s) = n + 1, \A k \in 1..n : r[k] = s[k]
    PROVE  /\ FlattenSeq(r) \in Seq(S) /\ s[n + 1] \in Seq(S)
           /\ FlattenSeq(s) = FlattenSeq(r) \o s[n + 1]
<1>1. PICK x \in Seq(S) : x = s[n + 1]
  OBVIOUS
<1>2. /\ Append(r, x) \in Seq(Seq(S)) /\ Len(Append(r, x)) = n + 1
      /\ \A k \in 1..n : Append(r, x)[k] = r[k]
      /\ Append(r, x)[n + 1] = x
  BY AppendProperties
<1>3. ASSUME NEW k \in 1..n + 1 PROVE Append(r, x)[k] = s[k]
  <2>1. k \in 1..n \/ k = n + 1
    OBVIOUS
  <2> QED BY <1>1, <1>2, <2>1
<1>4. Append(r, x) = s
  BY <1>2, <1>3, SeqEqual
<1> QED BY <1>1, <1>4, FlattenAppend

\* The first k blocks, and the bytes of them.
Firsts(l, k) == [b \in 1..k |-> Bytes(b, 0, l[b])]
Joined(l, k) == FlattenSeq(Firsts(l, k))

\* The blocks are a sequence of sequences of bytes.
LEMMA FirstsFacts ==
    ASSUME NEW l \in Seq(Nat), NEW k \in Nat, k <= Len(l)
    PROVE  /\ Firsts(l, k) \in Seq(Seq(Byte)) /\ Len(Firsts(l, k)) = k
           /\ \A b \in 1..k : Firsts(l, k)[b] = Bytes(b, 0, l[b])
<1>1. ASSUME NEW b \in 1..k PROVE Bytes(b, 0, l[b]) \in Seq(Byte)
  <2>1. b \in Nat /\ 0 \in Nat /\ l[b] \in Nat
    OBVIOUS
  <2> QED BY <2>1, BytesFacts
<1>2. Firsts(l, k) \in [1..k -> Seq(Byte)]
  BY <1>1 DEF Firsts
<1>3. \A b \in 1..k : Firsts(l, k)[b] = Bytes(b, 0, l[b])
  BY DEF Firsts
<1> QED BY <1>2, <1>3, FunctionsAreSeqs

\* One block more.
LEMMA JoinedStep ==
    ASSUME NEW l \in Seq(Nat), NEW k \in Nat, k <= Len(l)
    PROVE  /\ Joined(l, k) \in Seq(Byte)
           /\ k < Len(l) => /\ Bytes(k + 1, 0, l[k + 1]) \in Seq(Byte)
                            /\ Joined(l, k + 1) = Joined(l, k) \o Bytes(k + 1, 0, l[k + 1])
<1>1. PICK r \in Seq(Seq(Byte)) : /\ r = Firsts(l, k) /\ Len(r) = k
                                  /\ \A b \in 1..k : r[b] = Bytes(b, 0, l[b])
  BY FirstsFacts
<1>2. Joined(l, k) \in Seq(Byte)
  <2>1. <<>> \in Seq(Byte)
    OBVIOUS
  <2> QED BY <1>1, <2>1, FlattenAppend DEF Joined
<1>3. ASSUME k < Len(l)
      PROVE  /\ Bytes(k + 1, 0, l[k + 1]) \in Seq(Byte)
             /\ Joined(l, k + 1) = Joined(l, k) \o Bytes(k + 1, 0, l[k + 1])
  <2>1. k + 1 \in Nat /\ k + 1 <= Len(l)
    BY <1>3
  <2>2. PICK s \in Seq(Seq(Byte)) : /\ s = Firsts(l, k + 1) /\ Len(s) = k + 1
                                    /\ \A b \in 1..k + 1 : s[b] = Bytes(b, 0, l[b])
    BY <2>1, FirstsFacts
  <2>3. /\ \A b \in 1..k : r[b] = s[b]
        /\ s[k + 1] = Bytes(k + 1, 0, l[k + 1])
    BY <1>1, <2>2
  <2>4. s[k + 1] \in Seq(Byte) /\ FlattenSeq(s) = FlattenSeq(r) \o s[k + 1]
    BY <1>1, <2>2, <2>3, FlattenMore
  <2> QED BY <1>1, <2>2, <2>3, <2>4 DEF Joined
<1> QED BY <1>2, <1>3

\* No blocks have no bytes.
LEMMA JoinedEmpty == \A l : Joined(l, 0) = <<>>
<1>1. ASSUME NEW l PROVE Firsts(l, 0) = <<>>
  <2>1. 1..0 = {}
    OBVIOUS
  <2>2. Firsts(l, 0) \in [1..0 -> {}]
    BY <2>1 DEF Firsts
  <2>3. Firsts(l, 0) \in Seq({}) /\ Len(Firsts(l, 0)) = 0
    BY <2>2, FunctionsAreSeqs
  <2> QED BY <2>3, EmptySeq
<1> QED BY <1>1, FlattenEmpty DEF Joined

\* Concatenation of bytes is associative.
LEMMA Associative == \A s, t, u \in Seq(Byte) : (s \o t) \o u = s \o (t \o u)
BY ConcatAssociative

\* The bytes of the first j blocks are the beginning of those of the first k.
Continues(l, j, k) == \E t \in Seq(Byte) : Joined(l, k) = Joined(l, j) \o t

\* The beginning stays the beginning as blocks are added.
LEMMA ContinuesStep ==
    ASSUME NEW l \in Seq(Nat), NEW j \in Nat, NEW k \in Nat, j <= k, k < Len(l), Continues(l, j, k)
    PROVE  Continues(l, j, k + 1)
<1>1. PICK t \in Seq(Byte) : Joined(l, k) = Joined(l, j) \o t
  BY DEF Continues
<1>2. PICK u \in Seq(Byte) : Joined(l, k + 1) = Joined(l, k) \o u
  <2>1. /\ Bytes(k + 1, 0, l[k + 1]) \in Seq(Byte)
        /\ Joined(l, k + 1) = Joined(l, k) \o Bytes(k + 1, 0, l[k + 1])
    <3>1. k <= Len(l)
      OBVIOUS
    <3> QED BY <3>1, JoinedStep
  <2> QED BY <2>1
<1>3. Joined(l, j) \in Seq(Byte)
  BY JoinedStep
<1>4. t \o u \in Seq(Byte) /\ (Joined(l, j) \o t) \o u = Joined(l, j) \o (t \o u)
  <2>1. t \o u \in Seq(Byte)
    BY ConcatProperties, Zenon
  <2>2. (Joined(l, j) \o t) \o u = Joined(l, j) \o (t \o u)
    BY <1>3, Associative, Zenon
  <2> QED BY <2>1, <2>2
<1> QED BY <1>1, <1>2, <1>4 DEF Continues

\* So the first blocks are the beginning of more of them,
LEMMA JoinedContinues ==
    ASSUME NEW l \in Seq(Nat), NEW j \in Nat, NEW k \in Nat, j <= k, k <= Len(l)
    PROVE  Continues(l, j, k)
<1> DEFINE T == {n \in Nat : j + n <= Len(l) => Continues(l, j, j + n)}
<1>1. 0 \in T
  <2>1. Joined(l, j) \in Seq(Byte)
    BY JoinedStep
  <2>2. <<>> \in Seq(Byte) /\ Joined(l, j) = Joined(l, j) \o <<>> /\ j + 0 = j
    BY <2>1, ConcatEmptySeq
  <2>3. Continues(l, j, j + 0)
    BY <2>2 DEF Continues
  <2> QED BY <2>3
<1>2. ASSUME NEW n \in T PROVE n + 1 \in T
  <2>1. n \in Nat /\ n + 1 \in Nat /\ j + n \in Nat /\ j <= j + n /\ (j + n) + 1 = j + (n + 1)
    OBVIOUS
  <2>2. ASSUME j + (n + 1) <= Len(l) PROVE Continues(l, j, j + (n + 1))
    <3>1. j + n < Len(l) /\ Continues(l, j, j + n)
      BY <2>1, <2>2
    <3>2. Continues(l, j, (j + n) + 1)
      BY <2>1, <3>1, ContinuesStep
    <3> QED BY <2>1, <3>2
  <2> QED BY <2>1, <2>2
<1>3. T = Nat
  <2>1. T \subseteq Nat
    OBVIOUS
  <2> HIDE DEF T
  <2> QED BY <1>1, <1>2, <2>1, ByInduction
<1>4. k - j \in T /\ j + (k - j) = k
  <2>1. k - j \in Nat
    OBVIOUS
  <2> HIDE DEF T
  <2> QED BY <1>3, <2>1
<1> QED BY <1>4

\* and their length grows by that of each block.
LEMMA JoinedGrows ==
    ASSUME NEW l \in Seq(Nat), NEW j \in Nat, NEW k \in Nat, j <= k, k <= Len(l)
    PROVE  /\ Len(Joined(l, j)) \in Nat /\ Len(Joined(l, k)) \in Nat
           /\ Len(Joined(l, j)) <= Len(Joined(l, k))
           /\ k < Len(l) => /\ l[k + 1] \in Nat
                            /\ Len(Joined(l, k + 1)) = Len(Joined(l, k)) + l[k + 1]
<1>1. Joined(l, j) \in Seq(Byte) /\ Joined(l, k) \in Seq(Byte)
  BY JoinedStep
<1>2. PICK t \in Seq(Byte) : Joined(l, k) = Joined(l, j) \o t
  BY JoinedContinues DEF Continues
<1>3. ASSUME k < Len(l) PROVE l[k + 1] \in Nat /\ Len(Joined(l, k + 1)) = Len(Joined(l, k)) + l[k + 1]
  <2>1. k + 1 \in Nat /\ 0 \in Nat /\ l[k + 1] \in Nat
    BY <1>3
  <2>2. PICK u \in Seq(Byte) : u = Bytes(k + 1, 0, l[k + 1]) /\ Len(u) = l[k + 1]
    <3>1. Bytes(k + 1, 0, l[k + 1]) \in Seq(Byte) /\ Len(Bytes(k + 1, 0, l[k + 1])) = l[k + 1]
      BY <2>1, BytesFacts
    <3> QED BY <3>1
  <2>3. Joined(l, k + 1) = Joined(l, k) \o u
    BY <1>3, <2>2, JoinedStep
  <2> QED BY <1>1, <2>1, <2>2, <2>3
<1> QED BY <1>1, <1>2, <1>3

\* The blocks together are no longer than so many of the longest.
LEMMA JoinedBounded ==
    ASSUME NEW l \in Seq(Nat), NEW w \in Nat, \A b \in 1..Len(l) : l[b] <= w,
           NEW k \in Nat, k <= Len(l)
    PROVE  Len(Joined(l, k)) <= k * w
<1> DEFINE T == {n \in Nat : n <= Len(l) => Len(Joined(l, n)) <= n * w}
<1>1. 0 \in T
  <2>1. Len(Joined(l, 0)) = 0 /\ 0 * w = 0
    BY JoinedEmpty
  <2> QED BY <2>1
<1>2. ASSUME NEW n \in T PROVE n + 1 \in T
  <2>1. n \in Nat /\ n + 1 \in Nat
    OBVIOUS
  <2>2. ASSUME n + 1 <= Len(l) PROVE Len(Joined(l, n + 1)) <= (n + 1) * w
    <3>1. Len(Joined(l, n)) <= n * w /\ n < Len(l)
      BY <2>1, <2>2
    <3>2. Len(Joined(l, n)) \in Nat /\ l[n + 1] \in Nat /\ Len(Joined(l, n + 1)) = Len(Joined(l, n)) + l[n + 1]
      BY <2>1, <3>1, JoinedGrows
    <3>3. l[n + 1] <= w
      BY <2>1, <2>2
    <3>4. (n + 1) * w = n * w + w /\ n * w \in Nat
      BY <2>1
    <3> HIDE DEF T
    <3> QED BY <3>1, <3>2, <3>3, <3>4
  <2> QED BY <2>1, <2>2
<1>3. T = Nat
  <2>1. T \subseteq Nat
    OBVIOUS
  <2> HIDE DEF T
  <2> QED BY <1>1, <1>2, <2>1, ByInduction
<1>4. k \in T
  <2> HIDE DEF T
  <2> QED BY <1>3
<1> QED BY <1>4


\* What a call is given of m blocks from block c on, d bytes of which it has moved.
RestsOf(l, c, d, m) ==
    [j \in 1..m |-> IF j = 1 THEN Bytes(c, d, l[c] - d) ELSE Bytes(c + j - 1, 0, l[c + j - 1])]

\* There are m blocks from block c on, and d bytes in it.
At(l, c, d, m) == c \in 1..Len(l) /\ d \in 0..l[c] /\ m \in 1..Len(l) - c + 1

\* What a call is given is a sequence of sequences of bytes.
LEMMA RestsFacts ==
    ASSUME NEW l \in Seq(Nat), NEW c \in Nat, NEW d \in Nat, NEW m \in Nat, At(l, c, d, m)
    PROVE  RestsOf(l, c, d, m) \in Seq(Seq(Byte)) /\ Len(RestsOf(l, c, d, m)) = m
<1>1. ASSUME NEW j \in 1..m
      PROVE  (IF j = 1 THEN Bytes(c, d, l[c] - d) ELSE Bytes(c + j - 1, 0, l[c + j - 1])) \in Seq(Byte)
  <2>1. CASE j = 1
    <3>1. l[c] - d \in Nat
      BY DEF At
    <3> QED BY <2>1, <3>1, BytesFacts
  <2>2. CASE j # 1
    <3>1. c + j - 1 \in 1..Len(l)
      BY <2>2 DEF At
    <3>2. c + j - 1 \in Nat /\ 0 \in Nat /\ l[c + j - 1] \in Nat
      BY <3>1
    <3> QED BY <2>2, <3>2, BytesFacts
  <2> QED BY <2>1, <2>2
<1>2. RestsOf(l, c, d, m) \in [1..m -> Seq(Byte)]
  BY <1>1 DEF RestsOf
<1> QED BY <1>2, FunctionsAreSeqs

\* The blocks before c, the d bytes of it, and what the call is given are the
\* first c + m - 1 blocks.
Completes(l, c, d, m) ==
    /\ FlattenSeq(RestsOf(l, c, d, m)) \in Seq(Byte)
    /\ (Joined(l, c - 1) \o Bytes(c, 0, d)) \o FlattenSeq(RestsOf(l, c, d, m)) = Joined(l, c + m - 1)

\* This holds of one block,
LEMMA CompletesFirst ==
    ASSUME NEW l \in Seq(Nat), NEW c \in Nat, NEW d \in Nat, NEW m \in Nat, At(l, c, d, m), m = 1
    PROVE  Completes(l, c, d, m)
<1>0. RestsOf(l, c, d, m) \in Seq(Seq(Byte)) /\ Len(RestsOf(l, c, d, m)) = m
  <2>1. \A o \in Nat : At(l, c, d, o) => RestsOf(l, c, d, o) \in Seq(Seq(Byte)) /\ Len(RestsOf(l, c, d, o)) = o
    BY RestsFacts, Zenon
  <2> QED BY <2>1, Zenon
<1>1. PICK n \in Nat, j \in Nat :
        /\ n = l[c] - d /\ d + n = l[c]
        /\ j = c - 1 /\ j < Len(l) /\ j <= Len(l) /\ j + 1 = c /\ c + m - 1 = c
  <2>1. c \in 1..Len(l) /\ l[c] \in Nat
    BY DEF At
  <2>2. d \in 0..l[c]
    BY DEF At
  <2> QED BY <2>1, <2>2
<1>2. PICK p \in Seq(Byte) : p = Bytes(c, 0, d)
  BY BytesFacts
<1>3. PICK q \in Seq(Byte) : q = Bytes(c, d, n)
  BY BytesFacts
<1>4. p \o q = Bytes(c, 0, l[c])
  <2>1. Bytes(c, 0, d) \o Bytes(c, d, n) = Bytes(c, 0, d + n)
    BY BytesSplit
  <2> QED BY <1>1, <1>2, <1>3, <2>1, Zenon
<1>5. PICK x \in Seq(Byte) : x = Joined(l, j)
  BY <1>1, JoinedStep
<1>6. Joined(l, c) = x \o Bytes(c, 0, l[c])
  <2>1. Joined(l, j + 1) = Joined(l, j) \o Bytes(j + 1, 0, l[j + 1])
    BY <1>1, JoinedStep
  <2> QED BY <1>1, <1>5, <2>1
<1>7. FlattenSeq(RestsOf(l, c, d, m)) = q
  <2>1. PICK s \in Seq(Seq(Byte)) : s = RestsOf(l, c, d, m) /\ Len(s) = m
    BY <1>0
  <2>2. s[1] = q
    <3>1. 1 \in 1..m
      OBVIOUS
    <3> QED BY <1>1, <1>3, <2>1, <3>1 DEF RestsOf
  <2>3. PICK r \in Seq(Seq(Byte)) : r = <<>> /\ Len(r) = 0
    BY EmptySeq, Zenon
  <2>4. PICK z \in Nat : z = 0 /\ z + 1 = 1 /\ 1..z = {}
    OBVIOUS
  <2>5. FlattenSeq(s) = FlattenSeq(r) \o s[z + 1]
    <3>1. Len(s) = z + 1 /\ \A i \in 1..z : r[i] = s[i]
      BY <2>1, <2>4
    <3>2. Len(r) = z
      BY <2>3, <2>4, Zenon
    <3> QED BY <3>1, <3>2, FlattenMore, Zenon
  <2>6. <<>> \o q = q
    BY ConcatEmptySeq
  <2> QED BY <2>1, <2>2, <2>3, <2>4, <2>5, <2>6, FlattenEmpty
<1>8. (x \o p) \o q = x \o (p \o q)
  BY Associative, Zenon
<1> QED BY <1>1, <1>2, <1>3, <1>4, <1>5, <1>6, <1>7, <1>8 DEF Completes

\* of one more,
LEMMA CompletesStep ==
    ASSUME NEW l \in Seq(Nat), NEW c \in Nat, NEW d \in Nat, NEW m \in Nat, NEW n \in Nat,
           n = m + 1, At(l, c, d, m), At(l, c, d, n), Completes(l, c, d, m)
    PROVE  Completes(l, c, d, n)
<1>1. PICK k \in Nat : k = c + m - 1 /\ k < Len(l) /\ k <= Len(l) /\ k + 1 = c + n - 1
  <2>1. c \in 1..Len(l) /\ n \in 1..Len(l) - c + 1 /\ Len(l) \in Nat
    BY DEF At
  <2> QED BY <2>1
<1>2. PICK j \in Nat : j = c - 1 /\ j <= Len(l)
  <2>1. c \in 1..Len(l) /\ Len(l) \in Nat
    BY DEF At
  <2> QED BY <2>1
<1>3. PICK r \in Seq(Seq(Byte)) : r = RestsOf(l, c, d, m) /\ Len(r) = m
  BY RestsFacts
<1>4. PICK s \in Seq(Seq(Byte)) : s = RestsOf(l, c, d, n) /\ Len(s) = n
  BY RestsFacts
<1>5. \A i \in 1..m : r[i] = s[i]
  <2> SUFFICES ASSUME NEW i \in 1..m PROVE r[i] = s[i]
    OBVIOUS
  <2>1. i \in 1..n
    OBVIOUS
  <2> QED BY <1>3, <1>4, <2>1 DEF RestsOf
<1>6. s[m + 1] = Bytes(k + 1, 0, l[k + 1])
  <2>1. n \in 1..n /\ n # 1 /\ c + n - 1 = k + 1
    <3>1. m # 0
      BY DEF At
    <3> QED BY <1>1, <3>1
  <2> QED BY <1>1, <1>4, <2>1 DEF RestsOf
<1>7. /\ FlattenSeq(r) \in Seq(Byte) /\ s[m + 1] \in Seq(Byte)
      /\ FlattenSeq(s) = FlattenSeq(r) \o s[m + 1]
  <2>1. Len(s) = m + 1
    BY <1>4
  <2> QED BY <1>3, <1>5, <2>1, FlattenMore, Zenon
<1>8. Joined(l, k + 1) = Joined(l, k) \o s[m + 1]
  BY <1>1, <1>6, JoinedStep
<1>9. PICK a \in Seq(Byte) : a = Joined(l, c - 1) \o Bytes(c, 0, d)
  <2>1. Joined(l, j) \in Seq(Byte)
    BY <1>2, JoinedStep
  <2>2. Bytes(c, 0, d) \in Seq(Byte)
    BY BytesFacts
  <2>3. Joined(l, c - 1) \o Bytes(c, 0, d) \in Seq(Byte)
    BY <1>2, <2>1, <2>2, ConcatProperties
  <2> QED BY <2>3
<1>10. a \o FlattenSeq(r) = Joined(l, k)
  BY <1>1, <1>3, <1>9 DEF Completes
<1>11. (a \o FlattenSeq(r)) \o s[m + 1] = a \o (FlattenSeq(r) \o s[m + 1])
  BY <1>7, Associative, Zenon
<1>12. FlattenSeq(s) \in Seq(Byte)
  BY <1>7, ConcatProperties
<1> QED BY <1>1, <1>4, <1>7, <1>8, <1>9, <1>10, <1>11, <1>12 DEF Completes

\* and so of any number.
LEMMA GivenCompletes ==
    ASSUME NEW l \in Seq(Nat), NEW c \in Nat, NEW d \in Nat, NEW m \in Nat, At(l, c, d, m)
    PROVE  Completes(l, c, d, m)
<1> DEFINE T == {n \in Nat : At(l, c, d, n) => Completes(l, c, d, n)}
<1>1. 0 \in T
  <2>1. ~At(l, c, d, 0)
    BY DEF At
  <2> QED BY <2>1
<1>2. ASSUME NEW n \in T PROVE n + 1 \in T
  <2>1. n \in Nat /\ n + 1 \in Nat
    OBVIOUS
  <2>2. ASSUME At(l, c, d, n + 1) PROVE Completes(l, c, d, n + 1)
    <3>1. CASE n = 0
      <4>1. PICK o \in Nat : o = n + 1 /\ o = 1
        BY <3>1
      <4> QED BY <2>2, <4>1, CompletesFirst
    <3>2. CASE n # 0
      <4>1. At(l, c, d, n)
        BY <2>1, <2>2, <3>2 DEF At
      <4>2. Completes(l, c, d, n)
        BY <4>1
      <4>3. PICK o \in Nat : o = n + 1
        BY <2>1
      <4> HIDE DEF T
      <4> QED BY <2>1, <2>2, <4>1, <4>2, <4>3, CompletesStep
    <3> QED BY <3>1, <3>2
  <2> QED BY <2>1, <2>2
<1>3. T = Nat
  <2>1. T \subseteq Nat
    OBVIOUS
  <2> HIDE DEF T
  <2> QED BY <1>1, <1>2, <2>1, ByInduction
<1>4. m \in T
  <2> HIDE DEF T
  <2> QED BY <1>3
<1> QED BY <1>4

-----------------------------------------------------------------------------
\* The elements from x + 1 to y.
LEMMA Slice ==
    ASSUME NEW S, NEW s \in Seq(S), NEW x \in Nat, NEW n \in Nat, x + n <= Len(s)
    PROVE  /\ SubSeq(s, x + 1, x + n) \in Seq(S) /\ Len(SubSeq(s, x + 1, x + n)) = n
           /\ \A i \in 1..n : SubSeq(s, x + 1, x + n)[i] = s[x + i]
           /\ ToSet(SubSeq(s, x + 1, x + n)) \subseteq ToSet(s)
<1>1. PICK p \in Nat, q \in Nat : p = x + 1 /\ q = x + n
  OBVIOUS
<1>2. \A i \in p..q : s[i] \in S
  BY <1>1
<1>3. (IF p <= q THEN q - p + 1 ELSE 0) = n /\ q - p + 1 = n
  BY <1>1
<1>4. /\ SubSeq(s, p, q) \in Seq(S)
      /\ Len(SubSeq(s, p, q)) = IF p <= q THEN q - p + 1 ELSE 0
      /\ \A i \in 1..q - p + 1 : SubSeq(s, p, q)[i] = s[p + i - 1]
  BY <1>2, SubSeqProperties
<1>5. PICK t \in Seq(S) : t = SubSeq(s, p, q) /\ Len(t) = n /\ \A i \in 1..n : t[i] = s[p + i - 1]
  BY <1>3, <1>4
<1>6. ASSUME NEW i \in 1..n PROVE t[i] = s[x + i] /\ t[i] \in ToSet(s)
  <2>1. p + i - 1 = x + i /\ x + i \in DOMAIN s
    BY <1>1
  <2>2. t[i] = s[p + i - 1]
    BY <1>5
  <2>3. t[i] = s[x + i]
    BY <2>1, <2>2
  <2> QED BY <2>1, <2>3, Zenon DEF ToSet
<1>7. ToSet(t) \subseteq ToSet(s)
  <2>1. DOMAIN t = 1..n
    BY <1>5
  <2> QED BY <1>6, <2>1, Zenon DEF ToSet
<1> QED BY <1>1, <1>5, <1>6, <1>7

\* The same from the beginning.
LEMMA Beginning ==
    ASSUME NEW S, NEW s \in Seq(S), NEW n \in Nat, n <= Len(s)
    PROVE  /\ SubSeq(s, 1, n) \in Seq(S) /\ Len(SubSeq(s, 1, n)) = n
           /\ \A i \in 1..n : SubSeq(s, 1, n)[i] = s[i]
           /\ ToSet(SubSeq(s, 1, n)) \subseteq ToSet(s)
<1>1. PICK z \in Nat : z = 0 /\ z + 1 = 1 /\ z + n = n /\ \A i \in 1..n : z + i = i
  OBVIOUS
<1>2. z + n <= Len(s)
  BY <1>1
<1>3. /\ SubSeq(s, z + 1, z + n) \in Seq(S) /\ Len(SubSeq(s, z + 1, z + n)) = n
      /\ \A i \in 1..n : SubSeq(s, z + 1, z + n)[i] = s[z + i]
      /\ ToSet(SubSeq(s, z + 1, z + n)) \subseteq ToSet(s)
  BY <1>2, Slice
<1> QED BY <1>1, <1>3

Joins(s, a, w, b) == s = (a \o w) \o b

\* The first n elements of the middle of three pieces, and where they are.
LEMMA CutAt ==
    ASSUME NEW S, NEW a \in Seq(S), NEW w \in Seq(S), NEW b \in Seq(S), NEW s \in Seq(S),
           Joins(s, a, w, b), NEW n \in Nat, n <= Len(w)
    PROVE  /\ Len(a) + Len(w) <= Len(s)
           /\ SubSeq(w, 1, n) = SubSeq(s, Len(a) + 1, Len(a) + n)
<1>1. PICK v \in Seq(S) : v = a \o w
  BY ConcatProperties
<1>2. PICK x \in Nat, y \in Nat, z \in Nat : x = Len(a) /\ y = Len(w) /\ z = Len(b)
  OBVIOUS
<1>3. Len(v) = x + y /\ \A i \in 1..x + y : v[i] = IF i <= x THEN a[i] ELSE w[i - x]
  BY <1>1, <1>2, ConcatProperties
<1>4. Len(s) = (x + y) + z /\ \A i \in 1..(x + y) + z : s[i] = IF i <= x + y THEN v[i] ELSE b[i - (x + y)]
  <2>1. s = v \o b
    BY <1>1 DEF Joins
  <2>2. /\ Len(v \o b) = Len(v) + Len(b)
        /\ \A i \in 1..Len(v) + Len(b) : (v \o b)[i] = IF i <= Len(v) THEN v[i] ELSE b[i - Len(v)]
    BY ConcatProperties
  <2> QED BY <1>2, <1>3, <2>1, <2>2
<1>5. ASSUME NEW i \in 1..y PROVE w[i] = s[x + i]
  <2>1. x + i \in 1..x + y /\ x + i \in 1..(x + y) + z /\ x + i <= x + y /\ ~(x + i <= x) /\ (x + i) - x = i
    OBVIOUS
  <2> QED BY <1>3, <1>4, <2>1
<1>6. PICK p \in Seq(S) : p = SubSeq(w, 1, n) /\ Len(p) = n /\ \A i \in 1..n : p[i] = w[i]
  <2>1. /\ SubSeq(w, 1, n) \in Seq(S) /\ Len(SubSeq(w, 1, n)) = n
        /\ \A i \in 1..n : SubSeq(w, 1, n)[i] = w[i]
    BY Beginning, Zenon
  <2> QED BY <2>1
<1>7. PICK q \in Seq(S) : /\ q = SubSeq(s, x + 1, x + n) /\ Len(q) = n
                          /\ \A i \in 1..n : q[i] = s[x + i]
  <2>1. x + n <= Len(s)
    BY <1>2, <1>4
  <2>2. SubSeq(s, x + 1, x + n) \in Seq(S) /\ Len(SubSeq(s, x + 1, x + n)) = n
    BY <2>1, Slice
  <2>3. \A i \in 1..n : SubSeq(s, x + 1, x + n)[i] = s[x + i]
    BY <2>1, Slice
  <2> QED BY <2>2, <2>3
<1>8. ASSUME NEW i \in 1..n PROVE p[i] = q[i]
  <2>1. i \in 1..y
    BY <1>2
  <2> QED BY <1>5, <1>6, <1>7, <2>1
<1>9. p = q
  BY <1>6, <1>7, <1>8, SeqEqual
<1> QED BY <1>2, <1>4, <1>6, <1>7, <1>9

\* w is the part of s that comes after the length of a.
Middle(s, a, w) ==
    /\ Len(a) + Len(w) <= Len(s)
    /\ \A n \in Nat : n <= Len(w) => SubSeq(w, 1, n) = SubSeq(s, Len(a) + 1, Len(a) + n)

\* The same for every n.
LEMMA Cut ==
    ASSUME NEW S, NEW a \in Seq(S), NEW w \in Seq(S), NEW b \in Seq(S), NEW s \in Seq(S),
           Joins(s, a, w, b)
    PROVE  Middle(s, a, w)
<1>1. Len(w) \in Nat /\ Len(w) <= Len(w)
  OBVIOUS
<1>2. ASSUME NEW n \in Nat, n <= Len(w)
      PROVE  SubSeq(w, 1, n) = SubSeq(s, Len(a) + 1, Len(a) + n)
  BY <1>2, CutAt
<1>3. Len(a) + Len(w) <= Len(s)
  BY <1>1, CutAt
<1> QED BY <1>2, <1>3 DEF Middle

\* The elements of a concatenation are those of its parts.
LEMMA ToSetConcat ==
    ASSUME NEW S, NEW s \in Seq(S), NEW t \in Seq(S)
    PROVE  ToSet(s \o t) = ToSet(s) \cup ToSet(t)
<1>1. /\ s \o t \in Seq(S) /\ Len(s \o t) = Len(s) + Len(t)
      /\ \A i \in 1..Len(s) + Len(t) : (s \o t)[i] = IF i <= Len(s) THEN s[i] ELSE t[i - Len(s)]
  BY ConcatProperties
<1>2. PICK u \in Seq(S), x \in Nat, y \in Nat : /\ u = s \o t /\ x = Len(s) /\ y = Len(t) /\ Len(u) = x + y
      /\ \A i \in 1..x + y : u[i] = IF i <= x THEN s[i] ELSE t[i - x]
  <2>1. Len(s) \in Nat /\ Len(t) \in Nat
    OBVIOUS
  <2> QED BY <1>1, <2>1
<1>3. DOMAIN u = 1..x + y /\ DOMAIN s = 1..x /\ DOMAIN t = 1..y
  BY <1>2
<1>4. ASSUME NEW i \in 1..x + y PROVE u[i] \in ToSet(s) \cup ToSet(t)
  <2>1. CASE i <= x
    <3>1. i \in 1..x
      BY <2>1
    <3> QED BY <1>2, <1>3, <2>1, <3>1 DEF ToSet
  <2>2. CASE ~(i <= x)
    <3>1. i - x \in 1..y
      BY <2>2
    <3> QED BY <1>2, <1>3, <2>2, <3>1 DEF ToSet
  <2> QED BY <2>1, <2>2
<1>5. ASSUME NEW i \in 1..x PROVE s[i] \in ToSet(u)
  <2>1. i \in 1..x + y /\ i <= x
    OBVIOUS
  <2> QED BY <1>2, <1>3, <2>1 DEF ToSet
<1>6. ASSUME NEW i \in 1..y PROVE t[i] \in ToSet(u)
  <2>1. x + i \in 1..x + y /\ ~(x + i <= x) /\ (x + i) - x = i
    OBVIOUS
  <2>2. u[x + i] = t[i]
    BY <1>2, <2>1
  <2> QED BY <1>3, <2>1, <2>2 DEF ToSet
<1>7. ToSet(u) \subseteq ToSet(s) \cup ToSet(t)
  BY <1>3, <1>4 DEF ToSet
<1>8. ToSet(s) \subseteq ToSet(u) /\ ToSet(t) \subseteq ToSet(u)
  BY <1>3, <1>5, <1>6 DEF ToSet
<1> QED BY <1>2, <1>7, <1>8

\* What went over the wire is of the stream, and all of its first z bytes.
Covers(s, z, w) == ToSet(SubSeq(s, 1, z)) \subseteq ToSet(w) /\ ToSet(w) \subseteq ToSet(s)

\* v is w and the next n bytes.
Enlarged(s, w, z, n, v) == /\ v \in Seq(Byte)
                           /\ Len(v) = Len(w) + n
                           /\ w = SubSeq(s, 1, z) => v = SubSeq(s, 1, z + n)
                           /\ Covers(s, z, w) => Covers(s, z + n, v)

\* It goes on covering when the next n bytes follow.
LEMMA CoversMore ==
    ASSUME NEW s \in Seq(Byte), NEW w \in Seq(Byte), NEW z \in Nat, NEW n \in Nat, z + n <= Len(s)
    PROVE  /\ SubSeq(s, z + 1, z + n) \in Seq(Byte) /\ Len(SubSeq(s, z + 1, z + n)) = n
           /\ Enlarged(s, w, z, n, w \o SubSeq(s, z + 1, z + n))
<1>1. PICK o \in Nat : o = z + n /\ z <= o /\ o <= Len(s) /\ z <= Len(s)
  OBVIOUS
<1>2. PICK x \in Seq(Byte) : x = SubSeq(s, z + 1, o) /\ Len(x) = n /\ ToSet(x) \subseteq ToSet(s)
  BY <1>1, Slice
<1>3. PICK v \in Seq(Byte) : v = SubSeq(s, 1, z)
  BY <1>1, Beginning
<1>4. v \o x = SubSeq(s, 1, o)
  <2>1. 1 \in 1..Len(s) + 1 /\ z \in 1 - 1..Len(s) /\ o \in z..Len(s)
    BY <1>1
  <2> QED BY <1>2, <1>3, <2>1, ConcatAdjacentSubSeq
<1>5. w \o x \in Seq(Byte) /\ Len(w \o x) = Len(w) + n
  BY <1>2, ConcatProperties
<1>6. ToSet(v \o x) = ToSet(v) \cup ToSet(x) /\ ToSet(w \o x) = ToSet(w) \cup ToSet(x)
  BY ToSetConcat
<1>7. Covers(s, z, w) => Covers(s, o, w \o x)
  BY <1>2, <1>3, <1>4, <1>6 DEF Covers
<1>8. w = v => w \o x = SubSeq(s, 1, o)
  BY <1>4
<1> QED BY <1>1, <1>2, <1>3, <1>5, <1>7, <1>8 DEF Enlarged

\* It covers one byte less, too: a failing call takes one off the count.
LEMMA CoversLess ==
    ASSUME NEW s \in Seq(Byte), NEW w \in Seq(Byte), NEW z \in Nat \ {0}, z <= Len(s), Covers(s, z, w)
    PROVE  Covers(s, z - 1, w)
<1>1. PICK y \in Nat : y = z - 1 /\ y + 1 = z
  OBVIOUS
<1>2. PICK v \in Seq(Byte) : v = SubSeq(s, 1, y)
  <2>1. y <= Len(s)
    BY <1>1
  <2> QED BY <2>1, Beginning
<1>3. PICK x \in Seq(Byte) : v \o x = SubSeq(s, 1, z)
  <2>1. y + 1 <= Len(s) /\ 1 \in Nat
    BY <1>1
  <2>2. /\ SubSeq(s, y + 1, y + 1) \in Seq(Byte)
        /\ v = SubSeq(s, 1, y) => v \o SubSeq(s, y + 1, y + 1) = SubSeq(s, 1, y + 1)
    BY <2>1, CoversMore DEF Enlarged
  <2> QED BY <1>1, <1>2, <2>2
<1>4. ToSet(v) \subseteq ToSet(SubSeq(s, 1, z))
  <2>1. ToSet(v \o x) = ToSet(v) \cup ToSet(x)
    BY ToSetConcat
  <2> QED BY <1>3, <2>1
<1> QED BY <1>1, <1>2, <1>4 DEF Covers


\* The first n elements of the rest of s after z, which read and write are given.
LEMMA CutTail ==
    ASSUME NEW S, NEW s \in Seq(S), NEW z \in Nat, NEW n \in Nat, z + n <= Len(s)
    PROVE  /\ Len(SubSeq(s, z + 1, Len(s))) = Len(s) - z
           /\ SubSeq(SubSeq(s, z + 1, Len(s)), 1, n) = SubSeq(s, z + 1, z + n)
<1>0. Len(s) - z \in Nat
  OBVIOUS
<1>1. PICK r \in Nat : r = Len(s) - z
  BY <1>0, Zenon
<1>rest. z + r = Len(s) /\ n <= r /\ z + r <= Len(s)
  BY <1>1
<1>2. SubSeq(s, z + 1, z + r) \in Seq(S) /\ Len(SubSeq(s, z + 1, z + r)) = r
  <2>1. \A k \in Nat : z + k <= Len(s) => SubSeq(s, z + 1, z + k) \in Seq(S)
    BY Slice
  <2>2. \A k \in Nat : z + k <= Len(s) => Len(SubSeq(s, z + 1, z + k)) = k
    BY Slice
  <2> QED BY <1>rest, <2>1, <2>2
<1>3. \A i \in 1..r : SubSeq(s, z + 1, z + r)[i] = s[z + i]
  BY <1>rest, Slice
<1>4. PICK t \in Seq(S) : /\ t = SubSeq(s, z + 1, Len(s)) /\ Len(t) = r
                          /\ \A i \in 1..r : t[i] = s[z + i]
  BY <1>rest, <1>2, <1>3
<1>5. PICK p \in Seq(S) : p = SubSeq(t, 1, n) /\ Len(p) = n /\ \A i \in 1..n : p[i] = t[i]
  <2>1. n <= Len(t)
    BY <1>rest, <1>4
  <2>2. /\ SubSeq(t, 1, n) \in Seq(S) /\ Len(SubSeq(t, 1, n)) = n
        /\ \A i \in 1..n : SubSeq(t, 1, n)[i] = t[i]
    BY <2>1, Beginning, Zenon
  <2> QED BY <2>2
<1>6. PICK q \in Seq(S) : q = SubSeq(s, z + 1, z + n) /\ Len(q) = n /\ \A i \in 1..n : q[i] = s[z + i]
  <2>1. SubSeq(s, z + 1, z + n) \in Seq(S) /\ Len(SubSeq(s, z + 1, z + n)) = n
    BY Slice
  <2>2. \A i \in 1..n : SubSeq(s, z + 1, z + n)[i] = s[z + i]
    BY Slice
  <2> QED BY <2>1, <2>2
<1>7. ASSUME NEW i \in 1..n PROVE p[i] = q[i]
  <2>1. i \in 1..r
    BY <1>rest
  <2> QED BY <1>4, <1>5, <1>6, <2>1
<1>8. p = q
  BY <1>5, <1>6, <1>7, SeqEqual
<1> QED BY <1>1, <1>4, <1>5, <1>6, <1>8

\* w comes in the stream s after z bytes.
InStream(w, s, z) == /\ w \in Seq(Byte) /\ z \in Nat /\ z + Len(w) <= Len(s)
                     /\ \A n \in Nat : n <= Len(w) => SubSeq(w, 1, n) = SubSeq(s, z + 1, z + n)

\* What m blocks from block c hold, d bytes of which have been moved, is the part of
\* the stream that comes after the blocks before c and those d bytes.
LEMMA WindowInStream ==
    ASSUME NEW l \in Seq(Nat), NEW c \in Nat, NEW d \in Nat, NEW m \in Nat, At(l, c, d, m),
           NEW s, s = Joined(l, Len(l)), NEW w, w = FlattenSeq(RestsOf(l, c, d, m)),
           NEW z, z = Len(Joined(l, c - 1)) + d
    PROVE  InStream(w, s, z)
<1>1. Completes(l, c, d, m)
  BY GivenCompletes
<1>2. PICK j \in Nat, k \in Nat : j = c - 1 /\ j <= Len(l) /\ k = c + m - 1 /\ k <= Len(l)
  <2>1. c \in 1..Len(l) /\ m \in 1..Len(l) - c + 1 /\ Len(l) \in Nat
    BY DEF At
  <2> QED BY <2>1
<1>3. PICK x \in Seq(Byte) : x = Joined(l, j)
  BY <1>2, JoinedStep
<1>4. PICK y \in Seq(Byte) : y = Bytes(c, 0, d) /\ Len(y) = d
  <2>1. Bytes(c, 0, d) \in Seq(Byte) /\ Len(Bytes(c, 0, d)) = d
    BY BytesFacts
  <2> QED BY <2>1
<1>5. PICK a \in Seq(Byte) : a = x \o y /\ Len(a) = Len(x) + d
  <2>1. x \o y \in Seq(Byte) /\ Len(x \o y) = Len(x) + Len(y)
    BY ConcatProperties, Zenon
  <2> QED BY <1>4, <2>1
<1>6. PICK v \in Seq(Byte) : v = w
  BY <1>1 DEF Completes
<1>7. a \o v = Joined(l, k)
  BY <1>1, <1>2, <1>3, <1>4, <1>5, <1>6, Zenon DEF Completes
<1>8. PICK t \in Seq(Byte) : Joined(l, Len(l)) = Joined(l, k) \o t
  <2>1. Len(l) \in Nat /\ Len(l) <= Len(l)
    OBVIOUS
  <2> QED BY <1>2, <2>1, JoinedContinues DEF Continues
<1>9. PICK r \in Seq(Byte) : r = s
  <2>1. Len(l) \in Nat /\ Len(l) <= Len(l)
    OBVIOUS
  <2>2. Joined(l, Len(l)) \in Seq(Byte)
    BY <2>1, JoinedStep
  <2> QED BY <2>2
<1>10. Joins(r, a, v, t)
  BY <1>7, <1>8, <1>9 DEF Joins
<1>11. z = Len(a) /\ z \in Nat
  <2>1. Len(x) \in Nat
    OBVIOUS
  <2> QED BY <1>2, <1>3, <1>5, <2>1
<1>12. Middle(r, a, v)
  BY <1>10, Cut
<1> QED BY <1>6, <1>9, <1>11, <1>12 DEF Middle, InStream

-----------------------------------------------------------------------------
\* What a transfer never changes.
Fixed == /\ op \in {"vector", "plain"}
         /\ lengths \in Seq(Nat)
         /\ Len(lengths) <= MaxBlocks
         /\ \A b \in 1..Len(lengths) : lengths[b] <= MaxLength
         /\ op = "plain" => Len(lengths) = 1

Types == /\ base \in [Blocks -> Nat]
         /\ len \in [Blocks -> Nat]
         /\ current \in 1..(Len(lengths) + 1)
         /\ done \in 0..MaxLength
         /\ size \in 0..SizeMax
         /\ length \in Int
         /\ pc \in {"io", "skip", "return"}
         /\ ended \in BOOLEAN
         /\ failures \in 0..MaxFailures
         /\ wire \in Seq(Byte)

\* The array is as passed, but for the first d bytes of block c.
Skipped(c, d) == \A b \in Blocks : /\ base[b] = IF b = c THEN d ELSE 0
                                   /\ len[b] = lengths[b] - base[b]

\* The bytes of the blocks before the current one.
Before == Len(Joined(lengths, current - 1))

\* What has been moved.
Sent == /\ failures = 0 \/ op = "plain" => wire = SubSeq(Stream, 1, size)
        /\ op = "vector" => Len(wire) = size + failures
        /\ Covers(Stream, size, wire)

\* Between two calls readwritev is in a block, or it has lost its position.
Placed == /\ current \in Blocks /\ done \in 0..lengths[current] /\ Skipped(current, done)
          /\ size = Before + done /\ size < Total /\ Sent

Adrift == /\ current = Len(lengths) + 1 /\ done = 0 /\ Skipped(0, 0)
          /\ failures > 0 /\ size < Total

\* While it passes blocks, what is left of the result leads to the count; or the
\* result was negative and it passes them all.
Counting == Skipped(0, 0) /\ length >= 0 /\ size = Before + length /\ size <= Total /\ Sent

Losing == /\ Skipped(0, 0) /\ failures > 0 /\ done = 0
          /\ length < 0 \/ current = Len(lengths) + 1
          /\ size < Total \/ size = SizeMax

Finished == /\ Skipped(0, 0)
            /\ \/ size = Total /\ Sent
               \/ failures > 0 /\ size = SizeMax

\* read and write.
OneBuffer == /\ Skipped(0, 0) /\ current = 1 /\ done = 0 /\ size <= Total /\ Sent
             /\ \/ pc = "io" /\ failures = 0 /\ size < Total
                \/ pc = "return" /\ (failures = 0 \/ size < Total)

Phase == /\ op = "plain" => OneBuffer
         /\ op = "vector" /\ pc = "io" => Placed \/ Adrift
         /\ op = "vector" /\ pc = "skip" => Counting \/ Losing
         /\ op = "vector" /\ pc = "return" => Finished

IInv == Fixed /\ Types /\ Phase
-----------------------------------------------------------------------------
\* The stream is finite, and its length, the total, is below SIZE_MAX.
LEMMA StreamFacts ==
    ASSUME Fixed
    PROVE  /\ Stream = Joined(lengths, Len(lengths)) /\ Stream \in Seq(Byte)
           /\ Total \in Nat /\ Total < SizeMax /\ Len(lengths) \in Nat
<1>1. Stream = Joined(lengths, Len(lengths))
  BY DEF Stream, Joined, Firsts, Blocks
<1>2. PICK l \in Seq(Nat), n \in Nat : l = lengths /\ n = Len(l)
  BY DEF Fixed
<1>3. n <= MaxBlocks /\ (\A b \in 1..Len(l) : l[b] <= MaxLength) /\ n <= Len(l)
  BY <1>2 DEF Fixed
<1>4. Joined(l, n) \in Seq(Byte)
  BY <1>3, JoinedStep
<1>5. Len(Joined(l, n)) <= n * MaxLength
  BY <1>3, JoinedBounded, BoundsAssumption
<1>6. n * MaxLength <= MaxBlocks * MaxLength /\ n * MaxLength \in Nat /\ MaxBlocks * MaxLength \in Nat
  <2>1. \A x, y, w \in Nat : x <= y => x * w <= y * w /\ x * w \in Nat /\ y * w \in Nat
    OBVIOUS
  <2> QED BY <1>3, <2>1, BoundsAssumption
<1>7. Len(Joined(l, n)) \in Nat
  BY <1>4
<1>8. Len(Joined(l, n)) < SizeMax
  BY <1>5, <1>6, <1>7, SizeMaxAssumption
<1> QED BY <1>1, <1>2, <1>4, <1>7, <1>8 DEF Total

\* What the invariant says is read off the variables.
LEMMA Facts ==
    ASSUME IInv
    PROVE  /\ lengths \in Seq(Nat) /\ Len(lengths) \in Nat
           /\ \A b \in Blocks : lengths[b] \in Nat /\ lengths[b] <= MaxLength
           /\ base \in [Blocks -> Nat] /\ len \in [Blocks -> Nat]
           /\ current \in Nat \ {0} /\ current <= Len(lengths) + 1
           /\ done \in Nat /\ done <= MaxLength
           /\ size \in Nat /\ size <= SizeMax
           /\ failures \in Nat /\ failures <= MaxFailures
           /\ length \in Int /\ wire \in Seq(Byte)
           /\ SizeMax \in Nat /\ MaxLength \in Nat
BY BoundsAssumption, SizeMaxAssumption DEF IInv, Fixed, Types, Blocks

\* The invariant holds when a transfer begins.
THEOREM InitInvariant == Init => IInv
<1> SUFFICES ASSUME Init PROVE IInv
  OBVIOUS
<1>1. PICK m \in 0..MaxBlocks : lengths \in [1..m -> 0..MaxLength]
  BY BoundsAssumption DEF Init, BoundedSeq, SeqOf
<1>2. lengths \in Seq(0..MaxLength) /\ Len(lengths) = m
  BY <1>1, FunctionsAreSeqs, BoundsAssumption
<1>3. Fixed
  <2>1. lengths \in Seq(Nat)
    BY <1>1, FunctionsAreSeqs
  <2>2. \A b \in 1..Len(lengths) : lengths[b] <= MaxLength
    BY <1>1, <1>2, BoundsAssumption
  <2> QED BY <1>2, <2>1, <2>2 DEF Fixed, Init
<1>4. Stream \in Seq(Byte) /\ Total \in Nat /\ Len(lengths) \in Nat /\ lengths \in Seq(Nat) /\ Total < SizeMax
  BY <1>3, StreamFacts DEF Fixed
<1>5. Types
  <2>1. lengths \in [Blocks -> Nat]
    BY <1>4 DEF Blocks
  <2>2. base \in [Blocks -> Nat]
    BY DEF Init
  <2>3. wire \in Seq(Byte)
    BY DEF Init
  <2>4. 0 \in 0..MaxLength /\ 0 \in 0..SizeMax /\ 0 \in 0..MaxFailures
    BY BoundsAssumption, SizeMaxAssumption
  <2>5. current \in 1..(Len(lengths) + 1)
    BY <1>4 DEF Init
  <2>6. /\ len \in [Blocks -> Nat] /\ done \in 0..MaxLength /\ size \in 0..SizeMax
        /\ failures \in 0..MaxFailures /\ length \in Int
    BY <2>1, <2>4 DEF Init
  <2>7. pc \in {"io", "skip", "return"} /\ ended \in BOOLEAN
    BY DEF Init
  <2> QED BY <2>2, <2>3, <2>5, <2>6, <2>7 DEF Types
<1>6. Sent
  <2>1. SubSeq(Stream, 1, 0) = <<>>
    BY SubSeqEmpty
  <2>2. ToSet(<<>>) = {}
    BY DEF ToSet
  <2>3. size = 0 /\ failures = 0 /\ wire = <<>> /\ Len(wire) = 0
    BY DEF Init
  <2>4. Covers(Stream, size, wire)
    BY <2>1, <2>2, <2>3 DEF Covers
  <2> QED BY <2>1, <2>3, <2>4 DEF Sent
<1>7. Skipped(0, 0) /\ Skipped(1, 0)
  BY <1>4 DEF Skipped, Init, Blocks
<1>8. Before = 0
  <2>1. Before = Len(Joined(lengths, 0))
    BY DEF Before, Init
  <2> QED BY <2>1, JoinedEmpty
<1>9. CASE Total > 0
  <2>1. Len(lengths) # 0
    <3>1. CASE Len(lengths) = 0
      <4>1. Stream = <<>>
        BY <1>3, <3>1, StreamFacts, JoinedEmpty
      <4> QED BY <1>9, <4>1 DEF Total
    <3> QED BY <3>1
  <2>2. 1 \in Blocks /\ lengths[1] \in Nat
    BY <1>4, <2>1 DEF Blocks
  <2>3. Placed
    BY <1>6, <1>7, <1>8, <1>9, <2>2 DEF Placed, Init
  <2> QED BY <1>3, <1>4, <1>5, <1>6, <1>7, <1>9, <2>3 DEF IInv, Phase, OneBuffer, Init
<1>10. CASE ~(Total > 0)
  <2>1. pc = "return" /\ size = 0 /\ Total = 0 /\ failures = 0 /\ current = 1 /\ done = 0
    BY <1>4, <1>10 DEF Init
  <2>2. OneBuffer /\ Finished
    BY <1>6, <1>7, <2>1 DEF OneBuffer, Finished
  <2>3. Phase
    BY <2>1, <2>2 DEF Phase
  <2> QED BY <1>3, <1>5, <2>3 DEF IInv
<1> QED BY <1>9, <1>10


\* What a transfer does not change.
LEMMA Kept ==
    ASSUME Fixed, op' = op, lengths' = lengths
    PROVE  Fixed' /\ Stream' = Stream /\ Total' = Total /\ Blocks' = Blocks
BY DEF Fixed, Stream, Total, Blocks

\* The sums on size_t that occur: within range, and one below zero.
LEMMA Modulo ==
    ASSUME NEW m \in Nat
    PROVE  /\ \A n \in 0..m : n % (m + 1) = n
           /\ (-1) % (m + 1) = m
OBVIOUS

\* The loop sets back the block that the call began in.
LEMMA AccountRestores ==
    ASSUME IInv, op = "vector", pc = "io", NEW n \in Int, Account(n), lengths' = lengths
    PROVE  base' \in [Blocks -> Nat] /\ len' \in [Blocks -> Nat] /\ Skipped(0, 0)'
<1>1. /\ \A b \in Blocks : lengths[b] \in Nat
      /\ base \in [Blocks -> Nat] /\ len \in [Blocks -> Nat] /\ done \in Nat
      /\ Blocks' = Blocks /\ 0 \notin Blocks /\ Len(lengths) \in Nat
  <2>1. Blocks' = Blocks /\ 0 \notin Blocks
    BY DEF Blocks
  <2> QED BY <2>1, Facts
<1>2. CASE Placed
  <2>1. /\ current \in Blocks /\ done <= lengths[current]
        /\ base' = [base EXCEPT ![current] = @ - done]
        /\ len' = [len EXCEPT ![current] = @ + done]
    BY <1>2 DEF Placed, Account
  <2>2. \A b \in Blocks : /\ base[b] = IF b = current THEN done ELSE 0
                          /\ len[b] = lengths[b] - base[b]
    BY <1>2 DEF Placed, Skipped
  <2>3. ASSUME NEW b \in Blocks PROVE base'[b] = 0 /\ len'[b] = lengths[b]
    <3>1. CASE b = current
      <4>1. base[b] = done /\ len[b] = lengths[b] - done /\ lengths[b] \in Nat
        BY <1>1, <2>2, <3>1
      <4>2. base'[b] = base[b] - done /\ len'[b] = len[b] + done
        BY <1>1, <2>1, <3>1
      <4> QED BY <1>1, <4>1, <4>2
    <3>2. CASE b # current
      <4>1. base[b] = 0 /\ len[b] = lengths[b] - 0
        BY <2>2, <3>2
      <4>2. base'[b] = base[b] /\ len'[b] = len[b]
        BY <1>1, <2>1, <3>2
      <4> QED BY <1>1, <4>1, <4>2
    <3> QED BY <3>1, <3>2
  <2>4. base' \in [Blocks -> Nat] /\ len' \in [Blocks -> Nat]
    <3>1. /\ base' = [b \in Blocks |-> base'[b]] /\ len' = [b \in Blocks |-> len'[b]]
      BY <1>1, <2>1
    <3>2. \A b \in Blocks : base'[b] \in Nat /\ len'[b] \in Nat
      BY <1>1, <2>3
    <3> QED BY <3>1, <3>2
  <2>5. \A b \in Blocks : /\ base'[b] = IF b = 0 THEN 0 ELSE 0
                          /\ len'[b] = lengths[b] - base'[b]
    BY <1>1, <2>3
  <2> QED BY <1>1, <2>4, <2>5 DEF Skipped
<1>3. CASE Adrift
  <2>1. current \notin Blocks /\ Skipped(0, 0)
    BY <1>1, <1>3 DEF Adrift, Blocks
  <2>2. base' = base /\ len' = len
    BY <2>1 DEF Account
  <2> QED BY <1>1, <2>1, <2>2 DEF Skipped
<1> QED BY <1>2, <1>3 DEF IInv, Phase

\* A call in a block is given what follows in the stream; one that is adrift, nothing.
LEMMA WindowIs ==
    ASSUME IInv, op = "vector", pc = "io"
    PROVE  /\ Placed => InStream(Window, Stream, size)
           /\ Adrift => Window = <<>>
<1>1. /\ lengths \in Seq(Nat) /\ Len(lengths) \in Nat /\ current \in Nat \ {0} /\ done \in Nat
      /\ current <= Len(lengths) + 1 /\ Stream = Joined(lengths, Len(lengths))
  BY Facts, StreamFacts DEF IInv
<1> DEFINE left == Len(lengths) - current + 1
<1>2. PICK m \in Int : m = Min({MaxIovs, left})
  <2>1. Min({MaxIovs, left}) \in {MaxIovs, left}
    <3>1. left \in Int /\ MaxIovs \in Int
      BY <1>1, BoundsAssumption
    <3>2. \E x \in {MaxIovs, left} : \A y \in {MaxIovs, left} : x <= y
      <4>1. CASE MaxIovs <= left
        BY <3>1, <4>1
      <4>2. CASE ~(MaxIovs <= left)
        BY <3>1, <4>2
      <4> QED BY <4>1, <4>2
    <3> HIDE DEF left
    <3> QED BY <3>2 DEF Min
  <2> QED BY <1>1, <2>1, BoundsAssumption
<1>3. m <= left /\ (left > 0 => m \in Nat \ {0})
  <2>1. left \in Int /\ MaxIovs \in Nat \ {0}
    BY <1>1, BoundsAssumption
  <2>2. \E x \in {MaxIovs, left} : \A y \in {MaxIovs, left} : x <= y
    <3>1. CASE MaxIovs <= left
      BY <2>1, <3>1
    <3>2. CASE ~(MaxIovs <= left)
      BY <2>1, <3>2
    <3> QED BY <3>1, <3>2
  <2> HIDE DEF left
  <2>3. m \in {MaxIovs, left} /\ \A y \in {MaxIovs, left} : m <= y
    BY <1>2, <2>2 DEF Min
  <2> QED BY <2>1, <2>3
<1>4. Given = [i \in 1..m |-> current + i - 1]
  BY <1>2 DEF Given
<1>5. CASE Placed
  <2>1. current \in Blocks /\ done \in 0..lengths[current] /\ size = Before + done /\ Skipped(current, done)
    BY <1>5 DEF Placed
  <2>2. m \in Nat /\ At(lengths, current, done, m)
    <3>1. left > 0
      BY <1>1, <2>1 DEF Blocks
    <3> QED BY <1>1, <1>3, <2>1, <3>1 DEF At, Blocks
  <2>3. ASSUME NEW i \in 1..m
        PROVE  Bytes(Given[i], base[Given[i]], len[Given[i]]) =
                  IF i = 1 THEN Bytes(current, done, lengths[current] - done)
                           ELSE Bytes(current + i - 1, 0, lengths[current + i - 1])
    <3>1. Given[i] = current + i - 1 /\ current + i - 1 \in Blocks
      BY <1>1, <1>3, <1>4, <2>1 DEF Blocks
    <3>2. CASE i = 1
      <4>1. Given[i] = current
        BY <1>1, <3>1, <3>2
      <4>2. base[current] = done /\ len[current] = lengths[current] - done
        BY <2>1 DEF Skipped
      <4> QED BY <3>2, <4>1, <4>2
    <3>3. CASE i # 1
      <4>1. Given[i] # current
        BY <1>1, <3>1, <3>3
      <4>2. base[Given[i]] = 0 /\ len[Given[i]] = lengths[Given[i]] - 0
        BY <2>1, <3>1, <4>1 DEF Skipped
      <4>3. lengths[Given[i]] - 0 = lengths[Given[i]]
        BY <3>1, Facts
      <4> QED BY <3>1, <3>3, <4>2, <4>3
    <3> QED BY <3>2, <3>3
  <2>4. DOMAIN Given = 1..m
    BY <1>4
  <2>5. Window = FlattenSeq(RestsOf(lengths, current, done, m))
    <3>1. Window = FlattenSeq([i \in DOMAIN Given |-> Bytes(Given[i], base[Given[i]], len[Given[i]])])
      BY DEF Window
    <3>2. [i \in DOMAIN Given |-> Bytes(Given[i], base[Given[i]], len[Given[i]])] = RestsOf(lengths, current, done, m)
      BY <2>3, <2>4 DEF RestsOf
    <3> QED BY <3>1, <3>2
  <2>6. InStream(Window, Stream, size)
    <3>1. size = Len(Joined(lengths, current - 1)) + done
      BY <2>1 DEF Before
    <3> QED BY <1>1, <2>2, <2>5, <3>1, WindowInStream
  <2>7. ~Adrift
    BY <1>1, <2>1 DEF Adrift, Blocks
  <2> QED BY <1>5, <2>6, <2>7
<1>6. CASE ~Placed
  <2>1. ASSUME Adrift PROVE Window = <<>>
    <3>1. 1..m = {}
      BY <1>1, <1>3, <2>1 DEF Adrift
    <3>2. Given = <<>>
      <4>1. Given \in [1..m -> {}]
        BY <1>4, <3>1
      <4>2. m <= 0
        BY <1>1, <1>3, <2>1 DEF Adrift
      <4>3. 1..m = 1..0
        BY <3>1
      <4>4. Given \in Seq({}) /\ Len(Given) = 0
        BY <4>1, <4>3, FunctionsAreSeqs
      <4> QED BY <4>4, EmptySeq
    <3>3. DOMAIN Given = {}
      BY <1>4, <3>1
    <3> DEFINE F == [i \in DOMAIN Given |-> Bytes(Given[i], base[Given[i]], len[Given[i]])]
    <3>4. F = <<>>
      <4>1. 1..0 = {}
        OBVIOUS
      <4>2. F \in [1..0 -> {}]
        BY <3>3, <4>1
      <4>3. F \in Seq({}) /\ Len(F) = 0
        BY <4>2, FunctionsAreSeqs
      <4> HIDE DEF F
      <4> QED BY <4>3, EmptySeq
    <3>5. Window = FlattenSeq(F)
      BY DEF Window
    <3> QED BY <3>4, <3>5, FlattenEmpty
  <2> QED BY <1>6, <2>1
<1> QED BY <1>5, <1>6

-----------------------------------------------------------------------------
\* What a call in readwritev leaves, if its result leads to the count or is lost.
LEMMA CallVector ==
    ASSUME IInv, op = "vector", NEW n \in Int, Result(n), ended' \in BOOLEAN, failures' \in 0..MaxFailures,
           wire' \in Seq(Byte), size' \in 0..SizeMax,
           \/ n + done >= 0 /\ size' = Before + (n + done) /\ size' <= Total /\ Sent'
           \/ /\ failures' > 0 /\ done = 0
              /\ n < 0 \/ current = Len(lengths) + 1
              /\ size' < Total \/ size' = SizeMax
    PROVE  IInv'
<1>1. /\ pc = "io" /\ Account(n) /\ op' = op /\ lengths' = lengths /\ current' = current /\ done' = done
      /\ pc' = "skip" /\ length' = n + done
  BY DEF Result, Account
<1>2. Fixed' /\ Stream' = Stream /\ Total' = Total /\ Blocks' = Blocks
  BY <1>1, Kept DEF IInv
<1>3. base' \in [Blocks -> Nat] /\ len' \in [Blocks -> Nat] /\ Skipped(0, 0)'
  BY <1>1, AccountRestores
<1>4. Types'
  <2>1. length' \in Int
    BY <1>1, Facts
  <2> QED BY <1>1, <1>2, <1>3, <2>1 DEF IInv, Types
<1>5. Before' = Before
  BY <1>1 DEF Before
<1>6. CASE n + done >= 0 /\ size' = Before + (n + done) /\ size' <= Total /\ Sent'
  <2>1. Counting'
    BY <1>1, <1>2, <1>3, <1>5, <1>6 DEF Counting
  <2> QED BY <1>1, <1>2, <1>4, <2>1 DEF IInv, Phase
<1>7. CASE /\ failures' > 0 /\ done = 0
           /\ n < 0 \/ current = Len(lengths) + 1
           /\ size' < Total \/ size' = SizeMax
  <2>1. length' = n
    BY <1>1, <1>7
  <2>2. Losing'
    BY <1>1, <1>2, <1>3, <1>7, <2>1 DEF Losing
  <2> QED BY <1>1, <1>2, <1>4, <2>2 DEF IInv, Phase
<1> QED BY <1>6, <1>7

\* The bytes before the current block are a number.
LEMMA BeforeInt == ASSUME IInv PROVE Before \in Nat
<1>1. current \in Nat \ {0} /\ current <= Len(lengths) + 1 /\ lengths \in Seq(Nat) /\ Len(lengths) \in Nat
  BY Facts
<1>2. PICK j \in Nat : j = current - 1 /\ j <= Len(lengths)
  BY <1>1
<1>3. Joined(lengths, j) \in Seq(Byte)
  BY <1>1, <1>2, JoinedStep
<1> QED BY <1>2, <1>3 DEF Before

\* n more bytes of the stream have gone over the wire.
LEMMA SentMore ==
    ASSUME IInv, Sent, NEW n \in Nat, size + n <= Total,
           op' = op, lengths' = lengths, failures' = failures, size' = size + n,
           wire' = wire \o SubSeq(Stream, size + 1, size + n)
    PROVE  Sent' /\ wire' \in Seq(Byte)
<1>1. Stream \in Seq(Byte) /\ Stream' = Stream
  BY StreamFacts, Kept DEF IInv
<1>2. size \in Nat /\ failures \in Nat /\ wire \in Seq(Byte)
  BY Facts
<1>3. PICK s \in Seq(Byte), w \in Seq(Byte), z \in Nat : s = Stream /\ w = wire /\ z = size
  BY <1>1, <1>2
<1>4. z + n <= Len(s)
  BY <1>3 DEF Total
<1>5. Enlarged(s, w, z, n, w \o SubSeq(s, z + 1, z + n))
  BY <1>4, CoversMore
<1>6. PICK v \in Seq(Byte) : v = wire' /\ Enlarged(s, w, z, n, v)
  BY <1>3, <1>5, Zenon DEF Enlarged
<1>7. Len(w) \in Nat
  OBVIOUS
<1>8. op = "vector" => Len(v) = (z + n) + failures
  <2>1. Len(v) = Len(w) + n
    BY <1>6 DEF Enlarged
  <2>2. op = "vector" => Len(w) = z + failures
    BY <1>3, Zenon DEF Sent
  <2>3. \A x, y \in Nat : (x + y) + n = (x + n) + y
    OBVIOUS
  <2>4. (z + failures) + n = (z + n) + failures
    BY <1>2, <2>3, Zenon
  <2> QED BY <2>1, <2>2, <2>4, Zenon
<1>9. Covers(s, z + n, v) /\ (failures = 0 \/ op = "plain" => v = SubSeq(s, 1, z + n))
  BY <1>3, <1>6, Zenon DEF Sent, Enlarged
<1> QED BY <1>1, <1>3, <1>6, <1>8, <1>9, Zenon DEF Sent

\* A call of readv or writev that moves n bytes keeps the invariant.
LEMMA MoveVector ==
    ASSUME IInv, op = "vector", NEW n \in Nat \ {0}, Move(n)
    PROVE  IInv'
<1>1. /\ n <= Len(Window) /\ Result(n) /\ pc = "io"
      /\ wire' = wire \o SubSeq(Window, 1, n) /\ ended' = ended /\ failures' = failures
      /\ op' = op /\ lengths' = lengths /\ current' = current /\ done' = done
      /\ size' = (size + n) % (SizeMax + 1)
  BY DEF Move, Result, Account
<1>2. /\ size \in Nat /\ done \in Nat /\ SizeMax \in Nat /\ Before \in Nat /\ Total \in Nat /\ Total < SizeMax
  BY Facts, StreamFacts, BeforeInt DEF IInv
<1>3. Placed
  <2>1. ASSUME Adrift PROVE FALSE
    <3>1. Window = <<>>
      BY <1>1, <2>1, WindowIs
    <3>2. Len(Window) = 0
      BY <3>1
    <3> QED BY <1>1, <3>2
  <2> QED BY <1>1, <2>1 DEF IInv, Phase
<1>4. InStream(Window, Stream, size)
  BY <1>1, <1>3, WindowIs
<1>5. SubSeq(Window, 1, n) = SubSeq(Stream, size + 1, size + n)
  <2>1. n \in Nat
    OBVIOUS
  <2> QED BY <1>1, <1>4, <2>1, Zenon DEF InStream
<1>6. size + n <= Total
  <2>1. Len(Window) \in Nat /\ size + Len(Window) <= Total
    BY <1>4 DEF InStream, Total
  <2> QED BY <1>1, <1>2, <2>1
<1>7. size' = size + n /\ size' \in 0..SizeMax
  <2>1. size + n \in 0..SizeMax
    BY <1>2, <1>6
  <2> QED BY <1>1, <1>2, <2>1, Modulo
<1>8. Sent' /\ wire' \in Seq(Byte)
  <2>1. n \in Nat /\ wire' = wire \o SubSeq(Stream, size + 1, size + n)
    BY <1>1, <1>5
  <2>2. Sent
    BY <1>3 DEF Placed
  <2> QED BY <1>1, <1>6, <1>7, <2>1, <2>2, SentMore, Zenon
<1>9. n + done >= 0 /\ size' = Before + (n + done) /\ size' <= Total
  <2>1. size = Before + done
    BY <1>3 DEF Placed
  <2> QED BY <1>2, <1>6, <1>7, <2>1
<1>10. ended' \in BOOLEAN /\ failures' \in 0..MaxFailures
  BY <1>1 DEF IInv, Types
<1> QED BY <1>1, <1>7, <1>8, <1>9, <1>10, CallVector

\* So does one that moves nothing,
LEMMA MoveNothingVector ==
    ASSUME IInv, op = "vector", MoveNothing
    PROVE  IInv'
<1>1. /\ Result(0) /\ pc = "io" /\ wire' = wire /\ ended' = ended /\ failures' = failures
      /\ op' = op /\ lengths' = lengths /\ size' = (size + 0) % (SizeMax + 1)
  BY DEF MoveNothing, Result, Account
<1>2. /\ size \in Nat /\ done \in Nat /\ SizeMax \in Nat /\ Before \in Nat /\ Total \in Nat /\ Total < SizeMax
      /\ size <= SizeMax
  BY Facts, StreamFacts, BeforeInt DEF IInv
<1>3. size' = size /\ size' \in 0..SizeMax
  <2>1. size + 0 = size /\ size \in 0..SizeMax
    BY <1>2
  <2> QED BY <1>1, <1>2, <2>1, Modulo
<1>4. wire' \in Seq(Byte) /\ ended' \in BOOLEAN /\ failures' \in 0..MaxFailures
  BY <1>1 DEF IInv, Types
<1>5. CASE Placed
  <2>1. Stream' = Stream
    BY <1>1, Kept DEF IInv
  <2>2. Sent'
    BY <1>1, <1>3, <1>5, <2>1 DEF Placed, Sent
  <2>3. 0 + done >= 0 /\ size' = Before + (0 + done) /\ size' <= Total
    BY <1>2, <1>3, <1>5 DEF Placed
  <2> QED BY <1>1, <1>3, <1>4, <2>2, <2>3, CallVector
<1>6. CASE Adrift
  <2>1. failures' > 0 /\ done = 0 /\ current = Len(lengths) + 1 /\ size' < Total
    BY <1>1, <1>3, <1>6 DEF Adrift
  <2> QED BY <1>1, <1>3, <1>4, <2>1, CallVector
<1> QED BY <1>1, <1>5, <1>6 DEF IInv, Phase

\* and one that fails, in the midst of a block, at its start, or adrift.
LEMMA FailVector ==
    ASSUME IInv, op = "vector", Fail
    PROVE  IInv'
<1>1. /\ Result(-1) /\ pc = "io" /\ wire' = wire /\ ended' = ended /\ failures' = failures + 1
      /\ op' = op /\ lengths' = lengths /\ size' = (size + (-1)) % (SizeMax + 1)
  BY DEF Fail, Result, Account
<1>2. /\ size \in Nat /\ done \in Nat /\ SizeMax \in Nat /\ Before \in Nat /\ Total \in Nat /\ Total < SizeMax
      /\ failures \in Nat /\ size <= SizeMax
  BY Facts, StreamFacts, BeforeInt DEF IInv
<1>3. wire' \in Seq(Byte) /\ ended' \in BOOLEAN /\ failures' \in 0..MaxFailures /\ failures' > 0
  <2>1. failures < MaxFailures /\ MaxFailures \in Nat
    BY BoundsAssumption DEF Fail
  <2> QED BY <1>1, <1>2, <2>1 DEF IInv, Types
<1>4. size < Total
  BY <1>1 DEF IInv, Phase, Placed, Adrift
<1>5. CASE size = 0
  <2>1. size' = SizeMax /\ size' \in 0..SizeMax
    <3>1. size + (-1) = -1
      BY <1>5
    <3> QED BY <1>1, <1>2, <3>1, Modulo
  <2>2. done = 0
    BY <1>1, <1>2, <1>5 DEF IInv, Phase, Placed, Adrift
  <2>3. failures' > 0 /\ done = 0 /\ -1 < 0 /\ -1 \in Int
    BY <1>3, <2>2
  <2> QED BY <1>1, <1>3, <2>1, <2>3, CallVector
<1>6. CASE size # 0
  <2>1. size' = size - 1 /\ size' \in 0..SizeMax /\ size' < Total
    <3>1. size + (-1) = size - 1 /\ size - 1 \in 0..SizeMax
      BY <1>2, <1>6
    <3> QED BY <1>1, <1>2, <1>4, <3>1, Modulo
  <2>2. CASE done = 0
    <3>1. -1 < 0 /\ -1 \in Int
      OBVIOUS
    <3> QED BY <1>1, <1>3, <2>1, <2>2, <3>1, CallVector
  <2>3. CASE done # 0
    <3>1. Placed
      BY <1>1, <2>3 DEF IInv, Phase, Adrift
    <3>2. -1 + done >= 0 /\ size' = Before + (-1 + done) /\ size' <= Total /\ -1 \in Int
      BY <1>2, <2>1, <2>3, <3>1 DEF Placed
    <3>3. Sent'
      <4>1. Stream \in Seq(Byte) /\ Stream' = Stream /\ Total = Len(Stream)
        BY <1>1, StreamFacts, Kept DEF IInv, Total
      <4>2. PICK s \in Seq(Byte), w \in Seq(Byte), z \in Nat \ {0} : s = Stream /\ w = wire /\ z = size
        BY <1>2, <1>6, <4>1, Facts
      <4>3. z <= Len(s) /\ Covers(s, z, w)
        BY <1>2, <1>4, <3>1, <4>1, <4>2 DEF Placed, Sent
      <4>4. Covers(s, z - 1, w)
        BY <4>3, CoversLess
      <4>5. Len(w) = size' + failures'
        <5>1. Len(w) = size + failures
          BY <3>1, <4>2 DEF Placed, Sent
        <5> QED BY <1>1, <1>2, <2>1, <5>1
      <4>6. op' # "plain" /\ failures' # 0
        BY <1>1, <1>3
      <4> QED BY <1>1, <2>1, <4>1, <4>2, <4>4, <4>5, <4>6 DEF Sent
    <3> QED BY <1>1, <1>3, <2>1, <3>2, <3>3, CallVector
  <2> QED BY <2>2, <2>3
<1> QED BY <1>5, <1>6


\* The bytes before the next block, and that they are of the stream.
LEMMA NextBlock ==
    ASSUME IInv, current \in Blocks
    PROVE  /\ lengths[current] \in Nat /\ current \in Nat
           /\ Len(Joined(lengths, current)) = Before + lengths[current]
           /\ Len(Joined(lengths, current)) <= Total
<1>1. /\ lengths \in Seq(Nat) /\ Len(lengths) \in Nat /\ current \in 1..Len(lengths)
      /\ Total = Len(Joined(lengths, Len(lengths)))
  BY Facts, StreamFacts DEF IInv, Blocks, Total
<1>2. PICK l \in Seq(Nat) : l = lengths
  BY <1>1
<1>3. PICK j \in Nat : j = current - 1 /\ j + 1 = current /\ j < Len(l) /\ j <= Len(l) /\ j <= j
  BY <1>1, <1>2
<1>4. l[j + 1] \in Nat /\ Len(Joined(l, j + 1)) = Len(Joined(l, j)) + l[j + 1]
  BY <1>3, JoinedGrows
<1>5. PICK c \in Nat, n \in Nat : c = current /\ n = Len(l) /\ c <= n /\ n <= Len(l)
  BY <1>1, <1>2
<1>6. Len(Joined(l, c)) <= Len(Joined(l, n))
  BY <1>5, JoinedGrows
<1> QED BY <1>1, <1>2, <1>3, <1>4, <1>5, <1>6 DEF Before

\* Passing a finished block keeps the invariant.
LEMMA SkipStep ==
    ASSUME IInv, SkipBlock
    PROVE  IInv'
<1>1. /\ pc = "skip" /\ current \in Blocks /\ ~Inside
      /\ length' = length - len[current] /\ current' = current + 1
      /\ op' = op /\ lengths' = lengths /\ base' = base /\ len' = len /\ done' = done /\ size' = size
      /\ pc' = pc /\ ended' = ended /\ failures' = failures /\ wire' = wire
  BY DEF SkipBlock
<1>2. op = "vector" /\ (Counting \/ Losing)
  BY <1>1 DEF IInv, Phase, OneBuffer, Fixed
<1>3. Fixed' /\ Stream' = Stream /\ Total' = Total /\ Blocks' = Blocks
  BY <1>1, Kept DEF IInv
<1>4. /\ lengths[current] \in Nat /\ current \in Nat
      /\ Len(Joined(lengths, current)) = Before + lengths[current] /\ Before \in Nat
  BY <1>1, NextBlock, BeforeInt
<1>5. Len(lengths) \in Nat /\ size \in Nat /\ length \in Int /\ current <= Len(lengths)
  BY <1>1, Facts DEF Blocks
<1>6. len[current] = lengths[current]
  <2>1. Skipped(0, 0)
    BY <1>2 DEF Counting, Losing
  <2>2. base[current] = (IF current = 0 THEN 0 ELSE 0) /\ len[current] = lengths[current] - base[current]
    BY <1>1, <2>1 DEF Skipped
  <2> QED BY <1>4, <2>2
<1>7. length' = length - lengths[current] /\ length' \in Int
  BY <1>1, <1>4, <1>5, <1>6
<1>8. Types'
  <2>1. current' \in 1..(Len(lengths') + 1)
    BY <1>1, <1>4, <1>5
  <2> QED BY <1>1, <1>3, <1>7, <2>1 DEF IInv, Types
<1>9. Skipped(0, 0)'
  BY <1>1, <1>2, <1>3 DEF Counting, Losing, Skipped
<1>10. Before' = Before + lengths[current]
  <2>1. Before' = Len(Joined(lengths, (current + 1) - 1))
    BY <1>1 DEF Before
  <2>2. (current + 1) - 1 = current
    BY <1>4
  <2> QED BY <1>4, <2>1, <2>2
<1>11. CASE Counting
  <2>1. length >= lengths[current]
    <3>1. length >= 0
      BY <1>11 DEF Counting
    <3>2. length \notin 0..(lengths[current] - 1)
      BY <1>1, <1>6 DEF Inside
    <3> QED BY <1>4, <1>5, <3>1, <3>2
  <2>2. length' >= 0 /\ size' = Before' + length' /\ size' <= Total'
    <3>1. size = Before + length /\ size <= Total
      BY <1>11 DEF Counting
    <3>2. length' >= 0
      BY <1>4, <1>5, <1>7, <2>1
    <3>3. size' = Before' + length'
      BY <1>1, <1>4, <1>5, <1>7, <1>10, <3>1
    <3> QED BY <1>1, <1>3, <3>1, <3>2, <3>3
  <2>3. Sent'
    BY <1>1, <1>3, <1>11 DEF Counting, Sent
  <2>4. Counting'
    BY <1>9, <2>2, <2>3 DEF Counting
  <2> QED BY <1>1, <1>2, <1>3, <1>8, <2>4 DEF IInv, Phase
<1>12. CASE Losing
  <2>1. length < 0
    BY <1>4, <1>5, <1>12 DEF Losing
  <2>2. length' < 0
    BY <1>4, <1>5, <1>7, <2>1
  <2>3. Losing'
    BY <1>1, <1>3, <1>9, <1>12, <2>2 DEF Losing
  <2> QED BY <1>1, <1>2, <1>3, <1>8, <2>3 DEF IInv, Phase
<1> QED BY <1>2, <1>11, <1>12

\* Settling in an unfinished block, or past the last one, keeps the invariant.
LEMMA SettleStep ==
    ASSUME IInv, Settle
    PROVE  IInv'
<1>1. /\ pc = "skip"
      /\ op' = op /\ lengths' = lengths /\ current' = current /\ size' = size /\ length' = length
      /\ ended' = ended /\ failures' = failures /\ wire' = wire
      /\ pc' = IF size < Total THEN "io" ELSE "return"
  BY DEF Settle
<1>2. op = "vector" /\ (Counting \/ Losing)
  BY <1>1 DEF IInv, Phase, OneBuffer, Fixed
<1>3. Fixed' /\ Stream' = Stream /\ Total' = Total /\ Blocks' = Blocks
  BY <1>1, Kept DEF IInv
<1>4. /\ Len(lengths) \in Nat /\ size \in Nat /\ length \in Int /\ Before \in Nat
      /\ current \in Nat \ {0} /\ current <= Len(lengths) + 1
      /\ Total \in Nat /\ Total < SizeMax /\ SizeMax \in Nat
  BY Facts, BeforeInt, StreamFacts DEF IInv
<1>5. Skipped(0, 0)
  BY <1>2 DEF Counting, Losing
<1>6. Before' = Before
  BY <1>1 DEF Before
<1>7. CASE current \in Blocks
  <2>1. /\ Inside /\ done' = length
        /\ base' = [base EXCEPT ![current] = @ + length]
        /\ len' = [len EXCEPT ![current] = @ - length]
    BY <1>7 DEF Settle
  <2>2. \A b \in Blocks : base[b] = 0 /\ len[b] = lengths[b] /\ lengths[b] \in Nat /\ lengths[b] <= MaxLength
    <3>1. \A b \in Blocks : base[b] = (IF b = 0 THEN 0 ELSE 0) /\ len[b] = lengths[b] - base[b]
      BY <1>5 DEF Skipped
    <3> QED BY <3>1, Facts
  <2>3. length \in Nat /\ length < lengths[current]
    BY <1>4, <1>7, <2>1, <2>2 DEF Inside
  <2>4. Counting
    BY <1>2, <1>4, <1>7, <2>3 DEF Losing, Blocks
  <2>5. size = Before + length /\ size < Total
    <3>1. /\ Len(Joined(lengths, current)) = Before + lengths[current]
          /\ Len(Joined(lengths, current)) <= Total /\ lengths[current] \in Nat
      BY <1>7, NextBlock
    <3>2. size = Before + length
      BY <2>4 DEF Counting
    <3> QED BY <1>4, <2>3, <3>1, <3>2
  <2>6. ASSUME NEW b \in Blocks
        PROVE  /\ base'[b] = IF b = current THEN length ELSE 0
               /\ len'[b] = lengths[b] - base'[b]
               /\ base'[b] \in Nat /\ len'[b] \in Nat
    <3>1. base \in [Blocks -> Nat] /\ len \in [Blocks -> Nat]
      BY Facts
    <3>2. CASE b = current
      <4>1. base'[b] = 0 + length /\ len'[b] = lengths[b] - length
        BY <2>1, <2>2, <3>1, <3>2
      <4> QED BY <2>2, <2>3, <3>2, <4>1
    <3>3. CASE b # current
      <4>1. base'[b] = 0 /\ len'[b] = lengths[b]
        BY <2>1, <2>2, <3>1, <3>3
      <4> QED BY <2>2, <3>3, <4>1
    <3> QED BY <3>2, <3>3
  <2>7. base' \in [Blocks -> Nat] /\ len' \in [Blocks -> Nat]
    <3>1. base \in [Blocks -> Nat] /\ len \in [Blocks -> Nat]
      BY Facts
    <3>2. base' = [b \in Blocks |-> base'[b]] /\ len' = [b \in Blocks |-> len'[b]]
      BY <2>1, <3>1
    <3> QED BY <2>6, <3>2
  <2>8. Types'
    <3>1. done' \in 0..MaxLength
      BY <1>7, <2>1, <2>2, <2>3, BoundsAssumption
    <3>2. pc' \in {"io", "skip", "return"}
      BY <1>1
    <3> QED BY <1>1, <1>3, <2>7, <3>1, <3>2 DEF IInv, Types
  <2>9. Placed'
    <3>1. Skipped(current, done)'
      BY <1>1, <1>3, <2>1, <2>6 DEF Skipped
    <3>2. done' \in 0..lengths'[current']
      BY <1>1, <1>7, <2>1, <2>2, <2>3
    <3>3. Sent'
      BY <1>1, <1>3, <2>4 DEF Counting, Sent
    <3> QED BY <1>1, <1>3, <1>6, <1>7, <2>1, <2>5, <3>1, <3>2, <3>3 DEF Placed
  <2>10. pc' = "io"
    BY <1>1, <2>5
  <2> QED BY <1>1, <1>2, <1>3, <2>8, <2>9, <2>10 DEF IInv, Phase
<1>8. CASE current \notin Blocks
  <2>1. base' = base /\ len' = len /\ done' = done
    BY <1>8 DEF Settle
  <2>2. current = Len(lengths) + 1 /\ Before = Total
    <3>1. current = Len(lengths) + 1
      BY <1>4, <1>8 DEF Blocks
    <3>2. current - 1 = Len(lengths)
      BY <1>4, <3>1
    <3>3. Stream = Joined(lengths, Len(lengths))
      BY StreamFacts DEF IInv
    <3> QED BY <3>1, <3>2, <3>3 DEF Before, Total
  <2>3. Types'
    <3>1. pc' \in {"io", "skip", "return"}
      BY <1>1
    <3> QED BY <1>1, <1>3, <2>1, <3>1 DEF IInv, Types
  <2>4. Skipped(0, 0)'
    BY <1>1, <1>3, <1>5, <2>1 DEF Skipped
  <2>5. CASE Counting
    <3>1. size = Total /\ pc' = "return"
      BY <1>1, <1>4, <2>2, <2>5 DEF Counting
    <3>2. Sent'
      BY <1>1, <1>3, <2>5 DEF Counting, Sent
    <3>3. Finished'
      BY <1>1, <1>3, <2>4, <3>1, <3>2 DEF Finished
    <3> QED BY <1>1, <1>2, <1>3, <2>3, <3>1, <3>3 DEF IInv, Phase
  <2>6. CASE Losing /\ size < Total
    <3>1. pc' = "io"
      BY <1>1, <2>6
    <3>2. Adrift'
      BY <1>1, <1>3, <2>1, <2>2, <2>4, <2>6 DEF Losing, Adrift
    <3> QED BY <1>1, <1>2, <1>3, <2>3, <3>1, <3>2 DEF IInv, Phase
  <2>7. CASE Losing /\ ~(size < Total)
    <3>1. pc' = "return"
      BY <1>1, <2>7
    <3>2. Finished'
      BY <1>1, <1>3, <2>4, <2>7 DEF Losing, Finished
    <3> QED BY <1>1, <1>2, <1>3, <2>3, <3>1, <3>2 DEF IInv, Phase
  <2> QED BY <1>2, <2>5, <2>6, <2>7
<1> QED BY <1>7, <1>8


\* A call of read or write.
LEMMA CallPlain ==
    ASSUME IInv, op = "plain", NEW n \in Int, Result(n), ended' \in BOOLEAN, failures' \in 0..MaxFailures,
           wire' \in Seq(Byte), size' \in 0..SizeMax, size' <= Total, Sent',
           pc' = "io" => failures' = 0,
           pc' = "return" => failures' = 0 \/ size' < Total
    PROVE  IInv'
<1>1. /\ pc = "io" /\ AccountPlain(n) /\ op' = op /\ lengths' = lengths /\ current' = current /\ done' = done
      /\ base' = base /\ len' = len /\ length' = length
      /\ pc' = IF n > 0 /\ size' < Total THEN "io" ELSE "return"
  BY DEF Result, AccountPlain
<1>2. Fixed' /\ Stream' = Stream /\ Total' = Total /\ Blocks' = Blocks
  BY <1>1, Kept DEF IInv
<1>3. Types'
  <2>1. pc' \in {"io", "skip", "return"}
    BY <1>1
  <2> QED BY <1>1, <1>2, <2>1 DEF IInv, Types
<1>4. Skipped(0, 0)' /\ current' = 1 /\ done' = 0
  BY <1>1, <1>2 DEF IInv, Phase, OneBuffer, Skipped
<1>5. \/ pc' = "io" /\ failures' = 0 /\ size' < Total'
      \/ pc' = "return" /\ (failures' = 0 \/ size' < Total')
  <2>1. CASE n > 0 /\ size' < Total
    BY <1>1, <1>2, <2>1
  <2>2. CASE ~(n > 0 /\ size' < Total)
    BY <1>1, <1>2, <2>2
  <2> QED BY <2>1, <2>2
<1>6. OneBuffer'
  BY <1>2, <1>4, <1>5 DEF OneBuffer
<1> QED BY <1>1, <1>2, <1>3, <1>6 DEF IInv, Phase

\* A call of read or write that moves n bytes keeps the invariant.
LEMMA MovePlain ==
    ASSUME IInv, op = "plain", NEW n \in Nat \ {0}, Move(n)
    PROVE  IInv'
<1>1. /\ n <= Len(Window) /\ Result(n) /\ pc = "io"
      /\ wire' = wire \o SubSeq(Window, 1, n) /\ ended' = ended /\ failures' = failures
      /\ op' = op /\ lengths' = lengths /\ size' = size + n
  BY DEF Move, Result, AccountPlain
<1>2. OneBuffer /\ failures = 0 /\ Sent /\ size < Total
  BY <1>1 DEF IInv, Phase, OneBuffer
<1>3. size \in Nat /\ Total \in Nat /\ Total < SizeMax /\ SizeMax \in Nat /\ Stream \in Seq(Byte)
  BY Facts, StreamFacts DEF IInv
<1>4. Window = SubSeq(Stream, size + 1, Len(Stream))
  BY DEF Window, Total
<1>5. n \in Nat /\ size + n <= Total /\ SubSeq(Window, 1, n) = SubSeq(Stream, size + 1, size + n)
  <2>1. PICK s \in Seq(Byte), z \in Nat : s = Stream /\ z = size
    BY <1>3
  <2>2. 0 \in Nat /\ z + 0 <= Len(s)
    BY <1>2, <1>3, <2>1 DEF Total
  <2>3. Len(SubSeq(s, z + 1, Len(s))) = Len(s) - z
    BY <2>2, CutTail
  <2>4. n \in Nat /\ z + n <= Len(s)
    BY <1>1, <1>4, <2>1, <2>3
  <2>5. SubSeq(SubSeq(s, z + 1, Len(s)), 1, n) = SubSeq(s, z + 1, z + n)
    BY <2>4, CutTail
  <2> QED BY <1>4, <2>1, <2>4, <2>5 DEF Total
<1>6. size' <= Total /\ size' \in 0..SizeMax
  BY <1>1, <1>3, <1>5
<1>7. Sent' /\ wire' \in Seq(Byte)
  <2>1. wire' = wire \o SubSeq(Stream, size + 1, size + n)
    BY <1>1, <1>5
  <2> QED BY <1>1, <1>2, <1>5, <2>1, SentMore
<1>8. ended' \in BOOLEAN /\ failures' \in 0..MaxFailures /\ failures' = 0
  BY <1>1, <1>2 DEF IInv, Types
<1> QED BY <1>1, <1>6, <1>7, <1>8, CallPlain

\* So does one that ends the transfer.
LEMMA StopPlain ==
    ASSUME IInv, op = "plain", MoveNothing \/ Fail
    PROVE  IInv'
<1>1. PICK n \in {0, -1} :
        /\ Result(n) /\ pc = "io" /\ wire' = wire /\ ended' = ended /\ op' = op /\ lengths' = lengths
        /\ size' = size /\ pc' = "return"
        /\ \/ failures' = failures
           \/ failures < MaxFailures /\ failures' = failures + 1
  <2>1. CASE MoveNothing
    BY <2>1 DEF MoveNothing, Result, AccountPlain
  <2>2. CASE Fail
    BY <2>2 DEF Fail, Result, AccountPlain
  <2> QED BY <2>1, <2>2
<1>2. OneBuffer /\ failures = 0 /\ Sent /\ size < Total
  BY <1>1 DEF IInv, Phase, OneBuffer
<1>3. Stream' = Stream
  BY <1>1, Kept DEF IInv
<1>4. Sent'
  BY <1>1, <1>2, <1>3 DEF Sent
<1>5. /\ n \in Int /\ wire' \in Seq(Byte) /\ ended' \in BOOLEAN /\ failures' \in 0..MaxFailures
      /\ size' \in 0..SizeMax /\ size' <= Total /\ size' < Total
  <2>1. size \in Nat /\ Total \in Nat /\ failures \in Nat /\ MaxFailures \in Nat
    BY Facts, StreamFacts, BoundsAssumption DEF IInv
  <2> QED BY <1>1, <1>2, <2>1 DEF IInv, Types
<1> QED BY <1>1, <1>4, <1>5, CallPlain

\* The end of the stream changes nothing else.
LEMMA NoStep ==
    ASSUME IInv, ended' \in BOOLEAN,
           UNCHANGED <<op, lengths, base, len, current, done, size, length, pc, failures, wire>>
    PROVE  IInv'
<1>1. Fixed' /\ Stream' = Stream /\ Total' = Total /\ Blocks' = Blocks
  BY Kept DEF IInv
<1>2. Types'
  BY <1>1 DEF IInv, Types
<1>3. Sent' = Sent /\ Skipped(0, 0)' = Skipped(0, 0) /\ Skipped(current, done)' = Skipped(current, done) /\ Before' = Before
  BY <1>1 DEF Sent, Skipped, Before
<1>4. /\ Placed' = Placed /\ Adrift' = Adrift /\ Counting' = Counting /\ Losing' = Losing
      /\ Finished' = Finished /\ OneBuffer' = OneBuffer
  BY <1>1, <1>3 DEF Placed, Adrift, Counting, Losing, Finished, OneBuffer
<1> QED BY <1>1, <1>2, <1>4 DEF IInv, Phase

\* The inductive invariant holds of every transfer.
THEOREM Invariant == Spec => []IInv
<1>1. IInv /\ [Next]_vars => IInv'
  <2> SUFFICES ASSUME IInv, [Next]_vars PROVE IInv'
    OBVIOUS
  <2>0. op = "vector" \/ op = "plain"
    BY DEF IInv, Fixed
  <2>1. CASE MoveSome
    <3>1. PICK n \in Nat \ {0} : Move(n)
      BY <2>1, BoundsAssumption DEF MoveSome
    <3> QED BY <2>0, <3>1, MoveVector, MovePlain
  <2>2. CASE MoveNothing
    BY <2>0, <2>2, MoveNothingVector, StopPlain
  <2>3. CASE Fail
    BY <2>0, <2>3, FailVector, StopPlain
  <2>4. CASE End
    BY <2>4, NoStep DEF End
  <2>5. CASE SkipBlock
    BY <2>5, SkipStep
  <2>6. CASE Settle
    BY <2>6, SettleStep
  <2>7. CASE UNCHANGED vars
    <3>1. ended' \in BOOLEAN
      BY <2>7 DEF vars, IInv, Types
    <3> QED BY <2>7, <3>1, NoStep DEF vars
  <2> QED BY <2>1, <2>2, <2>3, <2>4, <2>5, <2>6, <2>7 DEF Next
<1> QED BY InitInvariant, <1>1, PTL DEF Spec

\* InOrder of readwritev, read and write: as long as no call has failed, and in read
\* and write whatever fails, what has been moved is the beginning of the stream, byte
\* by byte, and size is how much.
THEOREM InOrderHolds == Spec => []InOrder
<1>1. IInv => InOrder
  <2> SUFFICES ASSUME IInv, failures = 0 \/ op = "plain" PROVE wire = SubSeq(Stream, 1, size)
    BY DEF InOrder
  <2>1. failures \in Nat
    BY Facts
  <2>2. Sent
    <3>1. CASE op = "plain"
      BY <3>1 DEF IInv, Phase, OneBuffer
    <3>2. CASE op # "plain"
      <4>1. op = "vector" /\ failures = 0 /\ ~(failures > 0) /\ pc \in {"io", "skip", "return"}
        BY <3>2 DEF IInv, Fixed, Types
      <4> QED BY <4>1 DEF IInv, Phase, Placed, Adrift, Counting, Losing, Finished
    <3> QED BY <3>1, <3>2
  <2> QED BY <2>2 DEF Sent
<1> QED BY Invariant, <1>1, PTL

\* PlaceKept: before each call of readwritev the count, the position and the changed
\* array agree, and when it returns the array is as the caller passed it.
THEOREM PlaceKeptHolds == Spec => []PlaceKept
<1>1. IInv => PlaceKept
  <2> SUFFICES ASSUME IInv PROVE PlaceKept
    OBVIOUS
  <2>1. TypeOK
    BY DEF IInv, Fixed, Types, TypeOK
  <2>2. current \in Nat \ {0} /\ Len(lengths) \in Nat /\ 0 \notin Blocks
    BY Facts DEF Blocks
  <2>3. PositionMatches
    <3>1. ASSUME Lost PROVE done = 0
      <4>1. pc = "io" /\ op = "vector" /\ current \notin Blocks
        BY <2>2, <3>1 DEF Lost, Blocks
      <4> QED BY <4>1 DEF IInv, Phase, Placed, Adrift
    <3>2. ASSUME pc = "io", op = "vector", ~Lost
          PROVE  /\ size = Len(FlattenSeq([i \in 1..(current - 1) |-> Bytes(i, 0, lengths[i])])) + done
                 /\ \A i \in Blocks : LET skipped == IF i = current THEN done ELSE 0 IN
                       base[i] = skipped /\ len[i] = lengths[i] - skipped
      <4>1. Placed
        BY <3>2 DEF IInv, Phase, Adrift, Lost
      <4>2. size = Len(FlattenSeq([i \in 1..(current - 1) |-> Bytes(i, 0, lengths[i])])) + done
        BY <4>1 DEF Placed, Before, Joined, Firsts
      <4>3. \A i \in Blocks : /\ base[i] = IF i = current THEN done ELSE 0
                              /\ len[i] = lengths[i] - base[i]
        BY <4>1 DEF Placed, Skipped
      <4> QED BY <4>2, <4>3
    <3> QED BY <3>1, <3>2 DEF PositionMatches
  <2>4. ArrayRestored
    <3> SUFFICES ASSUME pc = "return" PROVE len = lengths /\ \A i \in Blocks : base[i] = 0
      BY DEF ArrayRestored
    <3>1. Skipped(0, 0)
      BY DEF IInv, Fixed, Phase, OneBuffer, Finished
    <3>2. \A i \in Blocks : base[i] = (IF i = 0 THEN 0 ELSE 0) /\ len[i] = lengths[i] - base[i]
      BY <3>1 DEF Skipped
    <3>3. \A i \in Blocks : lengths[i] \in Nat /\ base[i] = 0 /\ len[i] = lengths[i]
      BY <3>2, Facts
    <3>4. len \in [Blocks -> Nat] /\ lengths \in [Blocks -> Nat]
      BY Facts DEF Blocks
    <3> QED BY <3>3, <3>4
  <2> QED BY <2>1, <2>3, <2>4 DEF PlaceKept
<1> QED BY Invariant, <1>1, PTL

\* CompleteMeansAll: a transfer that returns the total has moved every byte of the
\* stream and none besides, one of them twice for each call that failed.
THEOREM CompleteMeansAllHolds == Spec => []CompleteMeansAll
<1>1. IInv => CompleteMeansAll
  <2> SUFFICES ASSUME IInv, pc = "return", size = Total
               PROVE  ToSet(wire) = ToSet(Stream) /\ Len(wire) = Total + failures
    BY DEF CompleteMeansAll
  <2>1. Stream \in Seq(Byte) /\ Total \in Nat /\ Total < SizeMax /\ failures \in Nat
    BY Facts, StreamFacts DEF IInv
  <2>2. Sent /\ (op = "plain" => failures = 0)
    <3>1. CASE op = "plain"
      BY <2>1, <3>1 DEF IInv, Phase, OneBuffer
    <3>2. CASE op # "plain"
      <4>1. op = "vector"
        BY <3>2 DEF IInv, Fixed
      <4>2. size # SizeMax
        BY <2>1
      <4> QED BY <3>2, <4>1, <4>2 DEF IInv, Phase, Finished
    <3> QED BY <3>1, <3>2
  <2>3. SubSeq(Stream, 1, Total) = Stream
    BY <2>1, SubSeqFull DEF Total
  <2>4. ToSet(wire) = ToSet(Stream)
    BY <2>2, <2>3 DEF Sent, Covers
  <2>5. Len(wire) = Total + failures
    <3>1. CASE op = "plain"
      <4>1. wire = Stream /\ failures = 0
        BY <2>2, <2>3, <3>1 DEF Sent
      <4> QED BY <2>1, <4>1 DEF Total
    <3>2. CASE op # "plain"
      <4>1. op = "vector"
        BY <3>2 DEF IInv, Fixed
      <4> QED BY <2>2, <4>1 DEF Sent
    <3> QED BY <3>1, <3>2
  <2> QED BY <2>4, <2>5
<1> QED BY Invariant, <1>1, PTL
-----------------------------------------------------------------------------
(* Messages and readers: what is read of the stream of a message. *)

\* A flattened sequence of sequences is a sequence.
LEMMA FlattenType ==
    ASSUME NEW S, NEW s \in Seq(Seq(S))
    PROVE  FlattenSeq(s) \in Seq(S)
<1>1. <<>> \in Seq(S)
  OBVIOUS
<1> QED BY <1>1, FlattenAppend

\* Concatenation is associative.
Associate(s, t, u) == (s \o t) \o u = s \o (t \o u)

LEMMA AllAssociate ==
    ASSUME NEW S, NEW s \in Seq(S), NEW t \in Seq(S), NEW u \in Seq(S)
    PROVE  Associate(s, t, u)
BY DEF Associate

\* The elements of the first sequence come first: for s of a given length,
FlattensFirst(S, n) ==
    \A s \in Seq(Seq(S)) : Len(s) = n =>
        \A x \in Seq(S) : FlattenSeq(<<x>> \o s) = x \o FlattenSeq(s)

\* for one more,
LEMMA FlattenFirstStep ==
    ASSUME NEW S, NEW n \in Nat, FlattensFirst(S, n)
    PROVE  FlattensFirst(S, n + 1)
<1> SUFFICES ASSUME NEW s \in Seq(Seq(S)), Len(s) = n + 1, NEW x \in Seq(S)
             PROVE  FlattenSeq(<<x>> \o s) = x \o FlattenSeq(s)
  BY DEF FlattensFirst
<1>0. SubSeq(s, 1, n) \in Seq(Seq(S)) /\ s[n + 1] \in Seq(S)
  OBVIOUS
<1>1. PICK t \in Seq(Seq(S)), y \in Seq(S) : t = SubSeq(s, 1, n) /\ y = s[n + 1]
  BY <1>0, Zenon
<1>2. Len(t) = n /\ s = Append(t, y)
  BY <1>1
<1>3. PICK v \in Seq(Seq(S)) : v = <<x>> \o t
  <2>1. <<x>> \in Seq(Seq(S))
    OBVIOUS
  <2>2. <<x>> \o t \in Seq(Seq(S))
    BY <2>1, ConcatProperties
  <2> QED BY <2>2
<1>4. <<x>> \o s = Append(v, y)
  BY <1>2, <1>3
<1>5. FlattenSeq(v) = x \o FlattenSeq(t)
  BY <1>2, <1>3 DEF FlattensFirst
<1>6. FlattenSeq(t) \in Seq(S) /\ FlattenSeq(Append(v, y)) = FlattenSeq(v) \o y
      /\ FlattenSeq(s) = FlattenSeq(t) \o y
  BY <1>2, FlattenAppend
<1>7. (x \o FlattenSeq(t)) \o y = x \o (FlattenSeq(t) \o y)
  <2>1. Associate(x, FlattenSeq(t), y)
    BY <1>6, AllAssociate, Zenon
  <2> QED BY <2>1, Zenon DEF Associate
<1> QED BY <1>4, <1>5, <1>6, <1>7, Zenon

\* and so for every length.
LEMMA FlattenFirst ==
    ASSUME NEW S, NEW s \in Seq(Seq(S)), NEW x \in Seq(S)
    PROVE  FlattenSeq(<<x>> \o s) = x \o FlattenSeq(s)
<1> DEFINE T == {n \in Nat : FlattensFirst(S, n)}
<1>1. 0 \in T
  <2> SUFFICES ASSUME NEW t \in Seq(Seq(S)), Len(t) = 0, NEW y \in Seq(S)
               PROVE  FlattenSeq(<<y>> \o t) = y \o FlattenSeq(t)
    BY DEF FlattensFirst
  <2>1. t = <<>> /\ <<y>> \o t = Append(<<>>, y) /\ <<>> \in Seq(Seq(S))
    OBVIOUS
  <2>2. FlattenSeq(Append(<<>>, y)) = FlattenSeq(<<>>) \o y
    BY <2>1, FlattenAppend
  <2>3. <<>> \o y = y /\ y \o <<>> = y
    OBVIOUS
  <2> QED BY <2>1, <2>2, <2>3, FlattenEmpty
<1>2. ASSUME NEW n \in T PROVE n + 1 \in T
  BY FlattenFirstStep
<1>3. T = Nat
  <2>1. T \subseteq Nat
    OBVIOUS
  <2> HIDE DEF T
  <2> QED BY <1>1, <1>2, <2>1, ByInduction
<1>4. FlattensFirst(S, Len(s))
  BY <1>3
<1> QED BY <1>4 DEF FlattensFirst

\* What follows the first n blocks, as bytes
Rest(blocks, n) == FlattenSeq(SubSeq(blocks, n + 1, Len(blocks)))

\* The next block, and the rest without it
LEMMA RestFacts ==
    ASSUME NEW S, NEW s \in Seq(Seq(S)), NEW n \in 0..Len(s)
    PROVE  /\ Rest(s, n) \in Seq(S)
           /\ n < Len(s) => s[n + 1] \in Seq(S) /\ Rest(s, n) = s[n + 1] \o Rest(s, n + 1)
           /\ n = Len(s) => Rest(s, n) = <<>>
           /\ n = 0 => Rest(s, n) = FlattenSeq(s)
<1>1. SubSeq(s, n + 1, Len(s)) \in Seq(Seq(S))
  OBVIOUS
<1>2. ASSUME n < Len(s)
      PROVE  s[n + 1] \in Seq(S) /\ Rest(s, n) = s[n + 1] \o Rest(s, n + 1)
  <2>0. SubSeq(s, n + 2, Len(s)) \in Seq(Seq(S))
    BY <1>2
  <2>1. PICK t \in Seq(Seq(S)) : t = SubSeq(s, n + 2, Len(s))
    BY <2>0
  <2>2. SubSeq(s, n + 1, Len(s)) = <<s[n + 1]>> \o t /\ s[n + 1] \in Seq(S)
    BY <1>2, <2>1
  <2>3. (n + 1) + 1 = n + 2
    OBVIOUS
  <2> QED BY <2>1, <2>2, <2>3, FlattenFirst DEF Rest
<1>3. ASSUME n = Len(s) PROVE Rest(s, n) = <<>>
  <2>1. SubSeq(s, n + 1, Len(s)) = <<>>
    BY <1>3
  <2> QED BY <2>1, FlattenEmpty DEF Rest
<1>4. ASSUME n = 0 PROVE Rest(s, n) = FlattenSeq(s)
  <2>1. SubSeq(s, n + 1, Len(s)) = s
    BY <1>4
  <2> QED BY <2>1 DEF Rest
<1> QED BY <1>1, <1>2, <1>3, <1>4, FlattenType DEF Rest

\* Where the stream begins with a block, reading as many bytes as it has takes it off.
LEMMA TakeOff ==
    ASSUME NEW S, NEW x \in Seq(S), NEW y \in Seq(S), NEW s, s = x \o y
    PROVE  SubSeq(s, 1, Len(x)) = x /\ SubSeq(s, Len(x) + 1, Len(s)) = y
OBVIOUS

\* A set of numbers up to n has a greatest one.
LEMMA MaxIsIn ==
    ASSUME NEW n \in Nat, NEW t \in SUBSET (1..n), t # {}
    PROVE  Max(t) \in t /\ \A k \in t : k <= Max(t)
<1> DEFINE below == {n - k : k \in t}
<1>1. below \in SUBSET Nat /\ below # {}
  <2>1. ASSUME NEW k \in t PROVE n - k \in Nat
    OBVIOUS
  <2>2. PICK k : k \in t
    OBVIOUS
  <2>3. n - k \in below
    BY <2>2
  <2> QED BY <2>1, <2>3
<1>2. PICK least \in below : \A k \in below : least <= k
  <2> HIDE DEF below
  <2> QED BY <1>1, Least
<1>3. PICK m \in t : least = n - m
  BY <1>2
<1>4. ASSUME NEW k \in t PROVE m >= k
  <2>1. n - m <= n - k
    BY <1>2, <1>3
  <2> QED BY <2>1
<1>5. \E x \in t : \A y \in t : x >= y
  BY <1>4
<1>6. Max(t) \in t /\ \A y \in t : Max(t) >= y
  BY <1>5 DEF Max
<1> QED BY <1>6

\* f has the sum for each set of the places up to n.
Sums(f, s, n) ==
    \A t \in SUBSET (1..n) : f[t] = IF t = {} THEN 0 ELSE f[t \ {Max(t)}] + s[Max(t)]

\* There is one for one place more,
LEMMA SumsStep ==
    ASSUME NEW s \in Seq(Nat), NEW n \in Nat, n + 1 <= Len(s),
           NEW f \in [SUBSET (1..n) -> Nat], Sums(f, s, n)
    PROVE  \E g \in [SUBSET (1..(n + 1)) -> Nat] : Sums(g, s, n + 1)
<1>1. s[n + 1] \in Nat
  OBVIOUS
<1> DEFINE g == [t \in SUBSET (1..(n + 1)) |->
                    IF n + 1 \in t THEN f[t \ {n + 1}] + s[n + 1] ELSE f[t]]
<1>2. ASSUME NEW t \in SUBSET (1..(n + 1)) PROVE t \ {n + 1} \in SUBSET (1..n)
  OBVIOUS
<1>3. g \in [SUBSET (1..(n + 1)) -> Nat]
  <2>1. ASSUME NEW t \in SUBSET (1..(n + 1))
        PROVE  (IF n + 1 \in t THEN f[t \ {n + 1}] + s[n + 1] ELSE f[t]) \in Nat
    <3>1. f[t \ {n + 1}] \in Nat
      BY <1>2
    <3>2. n + 1 \notin t => t = t \ {n + 1}
      OBVIOUS
    <3> QED BY <1>1, <3>1, <3>2
  <2> QED BY <2>1
<1>4. ASSUME NEW t \in SUBSET (1..(n + 1))
      PROVE  g[t] = IF t = {} THEN 0 ELSE g[t \ {Max(t)}] + s[Max(t)]
  <2>1. CASE t = {}
    <3>1. n + 1 \notin t /\ t \in SUBSET (1..n)
      BY <2>1
    <3>2. f[t] = 0
      BY <2>1, <3>1 DEF Sums
    <3> QED BY <2>1, <3>1, <3>2
  <2>2. CASE n + 1 \in t
    <3>0. n + 1 \in Nat /\ t # {}
      BY <2>2
    <3>1. Max(t) \in t /\ \A k \in t : k <= Max(t)
      BY <3>0, MaxIsIn
    <3>2. Max(t) = n + 1
      <4>1. Max(t) \in 1..(n + 1) /\ n + 1 <= Max(t)
        BY <2>2, <3>1
      <4> QED BY <4>1
    <3>3. n + 1 \notin t \ {n + 1} /\ t \ {n + 1} \in SUBSET (1..(n + 1))
      OBVIOUS
    <3>4. g[t \ {n + 1}] = f[t \ {n + 1}]
      BY <3>3
    <3> QED BY <2>2, <3>2, <3>4
  <2>3. CASE t # {} /\ n + 1 \notin t
    <3>1. t \in SUBSET (1..n)
      BY <2>3
    <3>2. Max(t) \in t
      BY <2>3, <3>1, MaxIsIn
    <3>3. f[t] = f[t \ {Max(t)}] + s[Max(t)]
      BY <2>3, <3>1 DEF Sums
    <3>4. n + 1 \notin t \ {Max(t)} /\ t \ {Max(t)} \in SUBSET (1..(n + 1))
      BY <2>3
    <3>5. g[t \ {Max(t)}] = f[t \ {Max(t)}] /\ g[t] = f[t]
      BY <2>3, <3>4
    <3> QED BY <2>3, <3>3, <3>5
  <2> QED BY <2>1, <2>2, <2>3
<1> HIDE DEF g
<1> QED BY <1>3, <1>4 DEF Sums

\* and so there is one for all.
LEMMA SumsExist ==
    ASSUME NEW s \in Seq(Nat)
    PROVE  \E f \in [SUBSET (1..Len(s)) -> Nat] : Sums(f, s, Len(s))
<1> DEFINE T == {n \in Nat : n <= Len(s) => \E f \in [SUBSET (1..n) -> Nat] : Sums(f, s, n)}
<1>1. 0 \in T
  <2>1. 1..0 = {}
    OBVIOUS
  <2>2. PICK f : f = [t \in SUBSET (1..0) |-> 0]
    OBVIOUS
  <2>3. f \in [SUBSET (1..0) -> Nat]
    BY <2>2
  <2>4. ASSUME NEW t \in SUBSET (1..0) PROVE t = {} /\ f[t] = 0
    BY <2>1, <2>2
  <2>5. Sums(f, s, 0)
    BY <2>4 DEF Sums
  <2> QED BY <2>3, <2>5
<1>2. ASSUME NEW n \in T PROVE n + 1 \in T
  <2>1. n \in Nat /\ Len(s) \in Nat
    OBVIOUS
  <2>2. ASSUME n + 1 <= Len(s)
        PROVE  \E g \in [SUBSET (1..(n + 1)) -> Nat] : Sums(g, s, n + 1)
    <3>1. n <= Len(s)
      BY <2>1, <2>2
    <3>2. PICK f \in [SUBSET (1..n) -> Nat] : Sums(f, s, n)
      BY <3>1
    <3> QED BY <2>1, <2>2, <3>2, SumsStep
  <2>3. n + 1 \in Nat
    BY <2>1
  <2> QED BY <2>2, <2>3, Zenon
<1>3. T = Nat
  <2>1. T \subseteq Nat
    OBVIOUS
  <2> HIDE DEF T
  <2> QED BY <1>1, <1>2, <2>1, ByInduction
<1>4. Len(s) \in Nat /\ Len(s) <= Len(s)
  OBVIOUS
<1>5. Len(s) \in T
  <2> HIDE DEF T
  <2> QED BY <1>3, <1>4
<1> QED BY <1>4, <1>5

\* FoldLeft takes the sum of one of them.
LEMMA FoldSums ==
    ASSUME NEW s \in Seq(Nat)
    PROVE  \E f : Sums(f, s, Len(s)) /\ FoldLeft(+, 0, s) = f[1..Len(s)]
<1> DEFINE D(h) == [t \in SUBSET (1..Len(s)) |->
                       IF t = {} THEN 0 ELSE h[t \ {Max(t)}] + s[Max(t)]]
           fold == CHOOSE h : h = D(h)
<1>1. DOMAIN s = 1..Len(s)
  OBVIOUS
<1>2. FoldLeft(+, 0, s) = fold[1..Len(s)]
  BY <1>1 DEF FoldLeft, MapThenFoldSet
<1>3. \E h : h = D(h)
  <2>1. PICK h \in [SUBSET (1..Len(s)) -> Nat] : Sums(h, s, Len(s))
    BY SumsExist
  <2>2. h = D(h)
    BY <2>1 DEF Sums
  <2> QED BY <2>2
<1>4. fold = D(fold)
  <2> HIDE DEF D
  <2> QED BY <1>3
<1>5. Sums(fold, s, Len(s))
  <2> HIDE DEF fold
  <2> QED BY <1>4 DEF Sums
<1> QED BY <1>2, <1>5

\* The lengths of blocks
LengthsOf(blocks) == [i \in DOMAIN blocks |-> Len(blocks[i])]

\* What is sent has as many bytes as the lengths say together.
LEMMA LengthsAddUp ==
    ASSUME NEW S, NEW s \in Seq(Seq(S))
    PROVE  /\ LengthsOf(s) \in Seq(Nat) /\ Len(LengthsOf(s)) = Len(s)
           /\ \A i \in 1..Len(s) : LengthsOf(s)[i] = Len(s[i])
           /\ FoldLeft(+, 0, LengthsOf(s)) = Len(FlattenSeq(s))
<1>0. Len(s) \in Nat /\ DOMAIN s = 1..Len(s) /\ \A i \in 1..Len(s) : s[i] \in Seq(S) /\ Len(s[i]) \in Nat
  OBVIOUS
<1>1. PICK l : l = LengthsOf(s)
  OBVIOUS
<1>2. l \in [1..Len(s) -> Nat] /\ \A i \in 1..Len(s) : l[i] = Len(s[i])
  BY <1>0, <1>1 DEF LengthsOf
<1>3. l \in Seq(Nat) /\ Len(l) = Len(s)
  BY <1>0, <1>2, FunctionsAreSeqs
<1>4. PICK f : Sums(f, l, Len(s)) /\ FoldLeft(+, 0, l) = f[1..Len(s)]
  BY <1>3, FoldSums
<1> DEFINE T == {n \in Nat : n <= Len(s) => f[1..n] = Len(FlattenSeq(SubSeq(s, 1, n)))}
<1>5. 0 \in T
  <2>1. 1..0 = {} /\ SubSeq(s, 1, 0) = <<>> /\ Len(<<>>) = 0
    OBVIOUS
  <2>2. f[{}] = 0
    BY <1>4 DEF Sums
  <2> QED BY <2>1, <2>2, FlattenEmpty
<1>6. ASSUME NEW n \in T PROVE n + 1 \in T
  <2> SUFFICES ASSUME n + 1 <= Len(s)
               PROVE  f[1..(n + 1)] = Len(FlattenSeq(SubSeq(s, 1, n + 1)))
    OBVIOUS
  <2>0. n \in Nat /\ n + 1 \in 1..Len(s)
    BY <1>0
  <2>1. f[1..n] = Len(FlattenSeq(SubSeq(s, 1, n)))
    BY <1>0
  <2>2. 1..(n + 1) \in SUBSET (1..Len(s)) /\ 1..(n + 1) # {}
    <3>1. 1 \in 1..(n + 1) /\ \A k \in 1..(n + 1) : k \in 1..Len(s)
      BY <1>0, <2>0
    <3> QED BY <3>1
  <2>3. Max(1..(n + 1)) \in 1..(n + 1) /\ \A k \in 1..(n + 1) : k <= Max(1..(n + 1))
    BY <1>0, <2>2, MaxIsIn
  <2>4. Max(1..(n + 1)) = n + 1 /\ (1..(n + 1)) \ {n + 1} = 1..n
    BY <2>0, <2>3
  <2>5. f[1..(n + 1)] = f[1..n] + l[n + 1]
    BY <1>4, <2>2, <2>4 DEF Sums
  <2>6. PICK t \in Seq(Seq(S)) : t = SubSeq(s, 1, n)
    <3>1. SubSeq(s, 1, n) \in Seq(Seq(S))
      BY <2>0
    <3> QED BY <3>1
  <2>7. SubSeq(s, 1, n + 1) = Append(t, s[n + 1])
    BY <2>0, <2>6
  <2>8. FlattenSeq(t) \in Seq(S) /\ FlattenSeq(Append(t, s[n + 1])) = FlattenSeq(t) \o s[n + 1]
    BY <1>0, <2>0, FlattenAppend
  <2>9. Len(FlattenSeq(t) \o s[n + 1]) = Len(FlattenSeq(t)) + Len(s[n + 1])
    BY <1>0, <2>0, <2>8
  <2> QED BY <1>2, <2>0, <2>1, <2>5, <2>6, <2>7, <2>8, <2>9
<1>7. T = Nat
  <2>1. T \subseteq Nat
    OBVIOUS
  <2> HIDE DEF T
  <2> QED BY <1>5, <1>6, <2>1, ByInduction
<1>8. f[1..Len(s)] = Len(FlattenSeq(SubSeq(s, 1, Len(s))))
  BY <1>0, <1>7
<1>9. SubSeq(s, 1, Len(s)) = s
  OBVIOUS
<1> QED BY <1>1, <1>2, <1>3, <1>4, <1>8, <1>9

\* What a stream is made of
HeaderUnits == [lengths : Seq(Nat)]
Units == Octets \cup HeaderUnits

\* Headers and bytes are told apart.
LEMMA UnitFacts ==
    /\ \A u \in Octets : ~IsHeader(u)
    /\ \A u \in HeaderUnits : IsHeader(u) /\ u.lengths \in Seq(Nat)
<1>1. ASSUME NEW u \in Octets PROVE ~IsHeader(u)
  <2>1. DOMAIN u = {"byte"}
    BY OctetsAssumption
  <2>2. "byte" # "lengths"
    OBVIOUS
  <2> QED BY <2>1, <2>2 DEF IsHeader
<1>2. ASSUME NEW u \in HeaderUnits PROVE IsHeader(u) /\ u.lengths \in Seq(Nat)
  BY DEF HeaderUnits, IsHeader
<1> QED BY <1>1, <1>2

\* A message is a header with the lengths of its blocks, and their bytes.
LEMMA MessageFacts ==
    ASSUME NEW b \in BlockSeqs
    PROVE  /\ Header(b) \in HeaderUnits /\ Header(b).lengths = LengthsOf(b)
           /\ FlattenSeq(b) \in Seq(Octets)
           /\ Message(b) \in Seq(Units) /\ Len(Message(b)) = 1 + Len(FlattenSeq(b))
           /\ Head(Message(b)) = Header(b) /\ Message(b)[1] = Header(b)
           /\ Tail(Message(b)) = FlattenSeq(b)
           /\ \A i \in 2..Len(Message(b)) : Message(b)[i] \in Octets
<1>1. b \in Seq(Seq(Octets))
  BY DEF BlockSeqs
<1>2. LengthsOf(b) \in Seq(Nat) /\ FlattenSeq(b) \in Seq(Octets)
  BY <1>1, LengthsAddUp, FlattenType
<1>3. PICK h \in HeaderUnits : h = Header(b) /\ h.lengths = LengthsOf(b)
  <2>1. Header(b) = [lengths |-> LengthsOf(b)]
    BY DEF Header, LengthsOf
  <2>2. PICK l \in Seq(Nat) : l = LengthsOf(b)
    BY <1>2
  <2>3. [lengths |-> l] \in HeaderUnits /\ [lengths |-> l].lengths = l
    BY DEF HeaderUnits
  <2> QED BY <2>1, <2>2, <2>3
<1>4. PICK f \in Seq(Octets) : f = FlattenSeq(b)
  BY <1>2
<1>5. f \in Seq(Units) /\ <<h>> \in Seq(Units)
  BY DEF Units
<1>6. Message(b) = <<h>> \o f
  BY <1>3, <1>4 DEF Message
<1>7. <<h>> \o f \in Seq(Units) /\ Len(<<h>> \o f) = 1 + Len(f) /\ (<<h>> \o f)[1] = h
  BY <1>5, ConcatProperties
<1>8. Head(<<h>> \o f) = h /\ Tail(<<h>> \o f) = f
  BY <1>5
<1>9. ASSUME NEW i \in 2..(1 + Len(f)) PROVE (<<h>> \o f)[i] \in Octets
  <2>1. (<<h>> \o f)[i] = f[i - 1] /\ i - 1 \in 1..Len(f)
    OBVIOUS
  <2> QED BY <2>1
<1> QED BY <1>3, <1>4, <1>6, <1>7, <1>8, <1>9

\* Bytes only are no header.
LEMMA BytesOnly ==
    ASSUME NEW s \in Seq(Octets)
    PROVE  /\ s \in Seq(Units) /\ Headers(s) = 0 /\ BeforeHeader(s) = Len(s)
           /\ \A i \in 1..Len(s) : ~IsHeader(s[i])
<1>1. \A i \in 1..Len(s) : s[i] \in Octets /\ ~IsHeader(s[i])
  BY UnitFacts
<1>2. {i \in DOMAIN s : IsHeader(s[i])} = {}
  BY <1>1
<1>3. s \in Seq(Units)
  BY DEF Units
<1> QED BY <1>1, <1>2, <1>3, FS_EmptySet DEF Headers, BeforeHeader

\* Behind bytes, a message is one header more, and nothing precedes it in the message.
LEMMA OneMessage ==
    ASSUME NEW left \in Seq(Octets), NEW b \in BlockSeqs
    PROVE  /\ left \o Message(b) \in Seq(Units)
           /\ left \o Message(b) # <<>>
           /\ Headers(left \o Message(b)) = 1
           /\ left = <<>> => BeforeHeader(left \o Message(b)) = 0
           /\ \A i \in 1..Len(left \o Message(b)) :
                 IsHeader((left \o Message(b))[i]) => (left \o Message(b))[i] = Header(b)
<1>1. PICK m \in Seq(Units) : m = Message(b)
  BY MessageFacts
<1>2. PICK s : s = left \o m
  OBVIOUS
<1>3. left \in Seq(Units) /\ Len(left) \in Nat
  BY BytesOnly
<1>4. s \in Seq(Units) /\ Len(s) = Len(left) + Len(m) /\ DOMAIN s = 1..Len(s)
  BY <1>2, <1>3, ConcatProperties
<1>5. Len(m) \in Nat /\ Len(m) >= 1 /\ m[1] = Header(b) /\ IsHeader(m[1])
  <2>1. FlattenSeq(b) \in Seq(Octets) /\ Len(m) = 1 + Len(FlattenSeq(b))
    BY <1>1, MessageFacts
  <2> QED BY <1>1, <2>1, MessageFacts, UnitFacts
<1>6. ASSUME NEW i \in 1..Len(s)
      PROVE  IF i = Len(left) + 1 THEN s[i] = Header(b) /\ IsHeader(s[i]) ELSE ~IsHeader(s[i])
  <2>1. CASE i <= Len(left)
    <3>1. s[i] = left[i] /\ i \in 1..Len(left)
      BY <1>2, <2>1, <1>3
    <3> QED BY <1>3, <2>1, <3>1, BytesOnly
  <2>2. CASE i = Len(left) + 1
    <3>1. s[i] = m[1]
      BY <1>2, <1>3, <1>5, <2>2
    <3> QED BY <1>5, <2>2, <3>1
  <2>3. CASE i > Len(left) + 1
    <3>1. s[i] = m[i - Len(left)] /\ i - Len(left) \in 2..Len(m)
      BY <1>2, <1>3, <1>4, <1>5, <2>3
    <3>2. m[i - Len(left)] \in Octets
      BY <1>1, <3>1, MessageFacts
    <3> QED BY <1>3, <2>3, <3>1, <3>2, UnitFacts
  <2> QED BY <1>3, <2>1, <2>2, <2>3
<1>7. {i \in DOMAIN s : IsHeader(s[i])} = {Len(left) + 1}
  <2>1. Len(left) + 1 \in 1..Len(s)
    BY <1>3, <1>4, <1>5
  <2> QED BY <1>4, <1>6, <2>1
<1>8. Headers(s) = 1
  BY <1>7, FS_Singleton DEF Headers
<1>9. ASSUME left = <<>> PROVE BeforeHeader(s) = 0
  <2>1. Len(left) + 1 = 1
    BY <1>9
  <2>2. Min({1}) = 1
    <3>1. \E x \in {1} : \A y \in {1} : x =< y
      OBVIOUS
    <3>2. Min({1}) \in {1}
      BY <3>1 DEF Min
    <3> QED BY <3>2
  <2>3. {i \in DOMAIN s : IsHeader(s[i])} = {1} /\ {1} # {}
    BY <1>7, <2>1
  <2>4. BeforeHeader(s) = Min({1}) - 1
    BY <2>3, Zenon DEF BeforeHeader
  <2> QED BY <2>2, <2>4
<1>10. s # <<>>
  BY <1>3, <1>4, <1>5
<1> QED BY <1>1, <1>2, <1>4, <1>6, <1>8, <1>9, <1>10

-----------------------------------------------------------------------------
(* Readers *)

LEMMA NoReaderFacts ==
    /\ NoReader \in Readers /\ NoReader.lens = <<>> /\ NoReader.index = 0
    /\ NoReader.index <= Len(NoReader.lens)
    /\ OwnLength(NoReader) /\ Remaining(NoReader) = 0
<1>1. <<>> \in Seq(Nat) /\ Len(<<>>) = 0 /\ SubSeq(<<>>, 1, 0) = <<>>
  OBVIOUS
<1>2. NoReader \in Readers /\ NoReader.lens = <<>> /\ NoReader.index = 0
  BY <1>1 DEF NoReader, Readers
<1>3. FoldLeft(+, 0, <<>>) = 0
  <2>1. <<>> \in Seq(Seq(Nat)) /\ LengthsOf(<<>>) = <<>>
    BY DEF LengthsOf
  <2>2. FoldLeft(+, 0, LengthsOf(<<>>)) = Len(FlattenSeq(<<>>))
    BY <2>1, LengthsAddUp
  <2> QED BY <1>1, <2>1, <2>2, FlattenEmpty
<1>4. Remaining(NoReader) = FoldLeft(+, 0, SubSeq(<<>>, 0 + 1, 0))
  BY <1>1, <1>2, Zenon DEF Remaining
<1>5. SubSeq(<<>>, 0 + 1, 0) = <<>>
  OBVIOUS
<1>6. NoReader.index <= Len(NoReader.lens) /\ ~(NoReader.index < Len(NoReader.lens))
  BY <1>1, <1>2
<1> QED BY <1>2, <1>3, <1>4, <1>5, <1>6, Zenon DEF OwnLength

\* What get_block_length returns is some length.
LEMMA BlockLengthType ==
    ASSUME NEW lens \in Seq(Nat), NEW index \in Nat, NEW n \in BlockLength(lens, index)
    PROVE  n \in Nat
<1>1. CASE index + 1 < Len(lens)
  <2>1. index + 2 \in 1..Len(lens)
    BY <1>1
  <2>2. lens[index + 2] \in Nat
    BY <2>1
  <2> QED BY <1>1, <2>2 DEF BlockLength
<1>2. CASE ~(index + 1 < Len(lens))
  BY <1>2, CallsAssumption DEF BlockLength
<1> QED BY <1>1, <1>2

\* A reader that is opened is at the first block,
LEMMA OpenFacts ==
    ASSUME NEW lens \in Seq(Nat), NEW r \in Open(lens)
    PROVE  r \in Readers /\ r.lens = lens /\ r.index = 0
<1>1. PICK n \in BlockLength(lens, 0) : r = [lens |-> lens, index |-> 0, length |-> n]
  BY DEF Open
<1>2. n \in Nat
  BY <1>1, BlockLengthType
<1> QED BY <1>1, <1>2 DEF Readers

\* and goes on by one.
LEMMA AdvanceFacts ==
    ASSUME NEW r \in Readers, NEW q \in Advance(r)
    PROVE  q \in Readers /\ q.lens = r.lens /\ q.index = r.index + 1
<1> DEFINE step == [r EXCEPT !.index = @ + 1, !.length = 0]
<1>1. r.lens \in Seq(Nat) /\ r.index \in Nat
  BY DEF Readers
<1>2. step \in Readers /\ step.lens = r.lens /\ step.index = r.index + 1
  <2>1. PICK i \in Nat : i = r.index + 1
    BY <1>1
  <2>2. PICK moved \in Readers : moved = [r EXCEPT !.index = i]
    <3>1. [r EXCEPT !.index = i] \in Readers
      BY DEF Readers
    <3> QED BY <3>1
  <2>3. moved.lens = r.lens /\ moved.index = i
    BY <2>2 DEF Readers
  <2>4. step = [moved EXCEPT !.length = 0]
    BY <2>1, <2>2
  <2>5. [moved EXCEPT !.length = 0] \in Readers
    BY DEF Readers
  <2>6. [moved EXCEPT !.length = 0].lens = moved.lens /\ [moved EXCEPT !.length = 0].index = moved.index
    BY DEF Readers
  <2> QED BY <2>1, <2>3, <2>4, <2>5, <2>6
<1> HIDE DEF step
<1>3. Advance(r) = IF step.index < Len(step.lens)
                   THEN {[step EXCEPT !.length = n] : n \in BlockLength(r.lens, step.index)}
                   ELSE {step}
  BY <1>2, Zenon DEF Advance, step
<1>4. CASE step.index < Len(step.lens)
  <2>1. PICK n \in BlockLength(r.lens, step.index) : q = [step EXCEPT !.length = n]
    BY <1>3, <1>4
  <2>2. n \in Nat
    BY <1>1, <1>2, <2>1, BlockLengthType
  <2> QED BY <1>2, <2>1, <2>2 DEF Readers
<1>5. CASE ~(step.index < Len(step.lens))
  BY <1>2, <1>3, <1>5
<1> QED BY <1>4, <1>5

\* r is a reader of the message with these blocks; read is what it has read, and stream what
\* it has not.
Reading(r, read, stream, blocks) ==
    /\ r.lens = LengthsOf(blocks)
    /\ read = SubSeq(blocks, 1, r.index)
    /\ stream = Rest(blocks, r.index)

\* A reader that is opened behind the header has it all before it.
LEMMA ReadingStart ==
    ASSUME NEW b \in BlockSeqs, NEW r \in Open(LengthsOf(b))
    PROVE  Reading(r, <<>>, FlattenSeq(b), b)
<1>1. b \in Seq(Seq(Octets)) /\ SubSeq(b, 1, 0) = <<>> /\ 0 \in 0..Len(b)
  BY DEF BlockSeqs
<1>2. LengthsOf(b) \in Seq(Nat) /\ Rest(b, 0) = FlattenSeq(b)
  BY <1>1, LengthsAddUp, RestFacts
<1>3. r.lens = LengthsOf(b) /\ r.index = 0
  BY <1>2, OpenFacts
<1> QED BY <1>1, <1>2, <1>3 DEF Reading

\* With the block's own length, the next block is what it reads.
LEMMA ReadingStep ==
    ASSUME NEW b \in BlockSeqs, NEW r \in Readers, NEW read, NEW stream,
           Reading(r, read, stream, b), OwnLength(r), r.index < Len(b),
           NEW q \in Advance(r)
    PROVE  Reading(q, Append(read, SubSeq(stream, 1, r.length)),
                   SubSeq(stream, r.length + 1, Len(stream)), b)
<1>1. b \in Seq(Seq(Octets))
  BY DEF BlockSeqs
<1>2. PICK n \in 0..Len(b) : n = r.index /\ n < Len(b) /\ n + 1 \in 1..Len(b)
  <2>1. r.index \in Nat /\ Len(b) \in Nat
    BY <1>1 DEF Readers
  <2> QED BY <2>1
<1>3. PICK x \in Seq(Octets), y \in Seq(Octets) : x = b[n + 1] /\ y = Rest(b, n + 1)
  <2>1. b[n + 1] \in Seq(Octets) /\ n + 1 \in 0..Len(b)
    BY <1>1, <1>2
  <2> QED BY <1>1, <2>1, RestFacts
<1>4. stream = x \o y
  BY <1>1, <1>2, <1>3, RestFacts DEF Reading
<1>5. r.length = Len(x)
  <2>1. Len(LengthsOf(b)) = Len(b) /\ LengthsOf(b)[n + 1] = Len(x)
    BY <1>1, <1>2, <1>3, LengthsAddUp
  <2> QED BY <1>2, <2>1 DEF OwnLength, Reading
<1>6. SubSeq(stream, 1, Len(x)) = x /\ SubSeq(stream, Len(x) + 1, Len(stream)) = y
  BY <1>4, TakeOff
<1>7. q.lens = r.lens /\ q.index = n + 1
  BY <1>2, AdvanceFacts
<1>8. SubSeq(b, 1, n + 1) = Append(SubSeq(b, 1, n), b[n + 1])
  <2>1. n \in Nat /\ n + 1 <= Len(b)
    BY <1>2
  <2> QED BY <1>1, <2>1
<1> QED BY <1>2, <1>3, <1>5, <1>6, <1>7, <1>8 DEF Reading

\* What its lengths still say is what is still there; when that is nothing, all is read.
LEMMA ReadingFacts ==
    ASSUME NEW b \in BlockSeqs, NEW r \in Readers, r.index <= Len(r.lens),
           NEW read, NEW stream, Reading(r, read, stream, b)
    PROVE  /\ Len(r.lens) = Len(b)
           /\ stream \in Seq(Octets)
           /\ BeforeHeader(stream) = Remaining(r)
           /\ IsPrefix(read, b)
           /\ AllRead(r) => stream = <<>> /\ read = b
<1>1. b \in Seq(Seq(Octets))
  BY DEF BlockSeqs
<1>2. Len(r.lens) = Len(b) /\ Len(b) \in Nat /\ LengthsOf(b) \in Seq(Nat)
  <2>1. LengthsOf(b) \in Seq(Nat) /\ Len(LengthsOf(b)) = Len(b)
    BY <1>1, LengthsAddUp
  <2>2. r.lens = LengthsOf(b)
    BY DEF Reading
  <2> QED BY <1>1, <2>1, <2>2
<1>3. PICK n \in 0..Len(b) : n = r.index
  BY <1>2 DEF Readers
<1>4. PICK t \in Seq(Seq(Octets)) : t = SubSeq(b, n + 1, Len(b))
  <2>1. SubSeq(b, n + 1, Len(b)) \in Seq(Seq(Octets))
    BY <1>1
  <2> QED BY <2>1
<1>5. stream = FlattenSeq(t) /\ stream \in Seq(Octets)
  BY <1>3, <1>4, FlattenType DEF Reading, Rest
<1>6. SubSeq(LengthsOf(b), n + 1, Len(b)) = LengthsOf(t)
  <2>1. /\ Len(t) = Len(b) - n /\ Len(t) \in Nat
        /\ \A i \in 1..Len(t) : t[i] = b[n + i] /\ n + i \in 1..Len(b)
    BY <1>1, <1>4
  <2>2. PICK l \in Seq(Nat), m \in Seq(Nat) : l = LengthsOf(b) /\ m = LengthsOf(t)
    BY <1>2, <1>4, LengthsAddUp
  <2>3. /\ Len(l) = Len(b) /\ Len(m) = Len(t)
        /\ \A i \in 1..Len(t) : m[i] = l[n + i]
    <3>1. Len(l) = Len(b) /\ \A i \in 1..Len(b) : l[i] = Len(b[i])
      BY <1>1, <2>2, LengthsAddUp
    <3>2. Len(m) = Len(t) /\ \A i \in 1..Len(t) : m[i] = Len(t[i])
      BY <1>4, <2>2, LengthsAddUp
    <3> QED BY <2>1, <3>1, <3>2
  <2>4. SubSeq(l, n + 1, Len(b)) \in Seq(Nat) /\ Len(SubSeq(l, n + 1, Len(b))) = Len(t)
        /\ \A i \in 1..Len(t) : SubSeq(l, n + 1, Len(b))[i] = l[n + i]
    <3>1. n + 1 \in 1..(Len(l) + 1) /\ Len(b) = Len(l) /\ Len(l) \in Nat
      BY <2>3
    <3>2. SubSeq(l, n + 1, Len(l)) \in Seq(Nat) /\ Len(SubSeq(l, n + 1, Len(l))) = Len(l) - n
          /\ \A i \in 1..(Len(l) - n) : SubSeq(l, n + 1, Len(l))[i] = l[n + i]
      <4>1. PICK first \in Int, last \in Int : first = n + 1 /\ last = Len(l)
        BY <3>1
      <4>2. \A i \in first..last : l[i] \in Nat
        BY <3>1, <4>1
      <4>3. /\ SubSeq(l, first, last) \in Seq(Nat)
            /\ Len(SubSeq(l, first, last)) = IF first <= last THEN last - first + 1 ELSE 0
            /\ \A i \in 1..(last - first + 1) : SubSeq(l, first, last)[i] = l[first + i - 1]
        BY <4>2, SubSeqProperties
      <4>4. last - first + 1 = Len(l) - n /\ (first <= last \/ Len(l) - n = 0)
        BY <3>1, <4>1
      <4>5. ASSUME NEW i \in 1..(Len(l) - n) PROVE SubSeq(l, first, last)[i] = l[n + i]
        <5>1. first + i - 1 = n + i
          BY <4>1
        <5> QED BY <4>3, <4>4, <5>1
      <4> QED BY <4>1, <4>3, <4>4, <4>5
    <3> QED BY <2>1, <3>1, <3>2
  <2> QED BY <2>2, <2>3, <2>4
<1>7. Remaining(r) = FoldLeft(+, 0, LengthsOf(t))
  BY <1>2, <1>3, <1>6 DEF Remaining, Reading
<1>8. BeforeHeader(stream) = Remaining(r)
  BY <1>4, <1>5, <1>7, LengthsAddUp, BytesOnly
<1>9. IsPrefix(read, b)
  <2>1. read = SubSeq(b, 1, n) /\ Len(read) = n /\ SubSeq(read, 1, n) = read
    BY <1>1, <1>3 DEF Reading
  <2> QED BY <1>3, <2>1 DEF IsPrefix
<1>10. ASSUME AllRead(r) PROVE stream = <<>> /\ read = b
  <2>1. n = Len(b)
    BY <1>2, <1>3, <1>10 DEF AllRead
  <2>2. SubSeq(b, 1, Len(b)) = b
    BY <1>1
  <2> QED BY <1>1, <1>3, <2>1, <2>2, RestFacts DEF Reading
<1> QED BY <1>2, <1>5, <1>8, <1>9, <1>10

-----------------------------------------------------------------------------
(* Types.  A request has a name and a message, so the worker finds two blocks. *)

\* Streams whose headers are those of requests
Requests == {s \in Seq(Units) : \A i \in 1..Len(s) : IsHeader(s[i]) => Len(s[i].lengths) >= 2}

RpcTypes ==
    /\ spc \in {"message", "name", "proto", "user", "lost", "dead"}
    /\ cpc \in {"idle", "message", "blocks", "crashed", "lost"}
    /\ up \in Requests /\ down \in Seq(Units)
    /\ sreader \in Readers /\ sreader.index <= Len(sreader.lens)
    /\ creader \in Readers /\ creader.index <= Len(creader.lens)
    /\ spc = "name" => sreader.index = 0 /\ Len(sreader.lens) >= 2
    /\ spc = "proto" => sreader.index = 1 /\ Len(sreader.lens) >= 2
    /\ cpc = "blocks" => creader.index < Len(creader.lens)
    /\ calls \in 0..MaxCalls
    /\ sent \in BlockSeqs /\ replied \in BlockSeqs
    /\ exact \in BOOLEAN /\ unread \in BOOLEAN

\* The parts of RpcTypes that a step of the client, or of the worker, leaves as they are
WorkerTypes ==
    /\ spc \in {"message", "name", "proto", "user", "lost", "dead"}
    /\ sreader \in Readers /\ sreader.index <= Len(sreader.lens)
    /\ spc = "name" => sreader.index = 0 /\ Len(sreader.lens) >= 2
    /\ spc = "proto" => sreader.index = 1 /\ Len(sreader.lens) >= 2
    /\ replied \in BlockSeqs
ClientTypes ==
    /\ cpc \in {"idle", "message", "blocks", "crashed", "lost"}
    /\ creader \in Readers /\ creader.index <= Len(creader.lens)
    /\ cpc = "blocks" => creader.index < Len(creader.lens)
    /\ calls \in 0..MaxCalls /\ sent \in BlockSeqs
StreamTypes == up \in Requests /\ down \in Seq(Units)

LEMMA TypesAre ==
    RpcTypes <=> WorkerTypes /\ ClientTypes /\ StreamTypes /\ exact \in BOOLEAN /\ unread \in BOOLEAN
BY Zenon DEF RpcTypes, WorkerTypes, ClientTypes, StreamTypes

\* What is left of a stream is a stream,
LEMMA CutStream ==
    ASSUME NEW s \in Seq(Units), NEW n \in Nat
    PROVE  SubSeq(s, n + 1, Len(s)) \in Seq(Units) /\ (s # <<>> => Tail(s) \in Seq(Units))
OBVIOUS

LEMMA CutRequests ==
    ASSUME NEW s \in Requests, NEW n \in Nat
    PROVE  SubSeq(s, n + 1, Len(s)) \in Requests /\ (s # <<>> => Tail(s) \in Requests)
<1>1. s \in Seq(Units) /\ Len(s) \in Nat
  BY DEF Requests
<1>2. \A i \in 1..Len(s) : IsHeader(s[i]) => Len(s[i].lengths) >= 2
  BY DEF Requests
<1>3. PICK t : t = SubSeq(s, n + 1, Len(s))
  OBVIOUS
<1>4. t \in Seq(Units) /\ \A i \in 1..Len(t) : n + i \in 1..Len(s) /\ t[i] = s[n + i]
  BY <1>1, <1>3
<1>5. t \in Requests
  BY <1>2, <1>4, Zenon DEF Requests
<1>6. ASSUME s # <<>> PROVE Tail(s) \in Requests
  <2>1. PICK u : u = Tail(s)
    OBVIOUS
  <2>2. u \in Seq(Units) /\ \A i \in 1..Len(u) : 1 + i \in 1..Len(s) /\ u[i] = s[1 + i]
    BY <1>1, <1>6, <2>1
  <2>3. u \in Requests
    BY <1>2, <2>2, Zenon DEF Requests
  <2> QED BY <2>1, <2>3
<1> QED BY <1>3, <1>5, <1>6

\* and what two are, one behind the other.
LEMMA JoinRequests ==
    ASSUME NEW s \in Requests, NEW b \in BlockSeqs, Len(b) >= 2
    PROVE  s \o Message(b) \in Requests
<1>1. PICK m \in Seq(Units) : m = Message(b)
  BY MessageFacts
<1>2. s \in Seq(Units) /\ Len(s) \in Nat /\ Len(m) \in Nat
  BY DEF Requests
<1>3. \A i \in 1..Len(s) : IsHeader(s[i]) => Len(s[i].lengths) >= 2
  BY DEF Requests
<1>4. PICK t \in Seq(Units) : t = s \o m
  BY <1>2, ConcatProperties
<1>5. ASSUME NEW i \in 1..Len(t), IsHeader(t[i]) PROVE Len(t[i].lengths) >= 2
  <2>1. CASE i <= Len(s)
    <3>1. i \in 1..Len(s) /\ t[i] = s[i]
      BY <1>2, <1>4, <2>1
    <3> QED BY <1>3, <1>5, <3>1
  <2>2. CASE i > Len(s)
    <3>1. t[i] = m[i - Len(s)] /\ i - Len(s) \in 1..Len(m)
      BY <1>2, <1>4, <2>2
    <3>2. i - Len(s) \in 2..Len(m) => ~IsHeader(m[i - Len(s)])
      BY <1>1, MessageFacts, UnitFacts
    <3>3. i - Len(s) = 1
      BY <1>2, <1>5, <3>1, <3>2
    <3>4. t[i] = Header(b)
      BY <1>1, <3>1, <3>3, MessageFacts
    <3>5. b \in Seq(Seq(Octets))
      BY DEF BlockSeqs
    <3>6. Header(b).lengths = LengthsOf(b) /\ Len(LengthsOf(b)) = Len(b)
      BY <3>5, MessageFacts, LengthsAddUp
    <3> QED BY <3>4, <3>6
  <2> QED BY <1>2, <2>1, <2>2
<1>6. t \in Requests
  BY <1>5 DEF Requests
<1> QED BY <1>1, <1>4, <1>6

\* Blocks that the two sides send
LEMMA SentBlocks ==
    /\ \A name \in Names, content \in Contents, extra \in ExtraBlocks :
          <<name, content>> \o extra \in BlockSeqs /\ Len(<<name, content>> \o extra) >= 2
          /\ <<name, content>> \o extra # <<>>
    /\ \A out \in Contents, extra \in ExtraBlocks :
          <<out>> \o extra \in BlockSeqs /\ <<out>> \o extra # <<>>
    /\ \A out \in Contents : <<out>> \in BlockSeqs /\ <<out>> # <<>>
    /\ <<>> \in BlockSeqs
<1>1. Names \subseteq Seq(Octets) /\ Contents \subseteq Seq(Octets)
  BY BlocksAssumption
<1>2. ASSUME NEW extra \in ExtraBlocks
      PROVE  extra \in Seq(Seq(Octets)) /\ Len(extra) \in Nat
  <2>1. PICK n \in 0..MaxExtra : extra \in [1..n -> Contents]
    BY DEF ExtraBlocks
  <2>2. n \in Nat /\ extra \in [1..n -> Seq(Octets)]
    BY <1>1, <2>1, CallsAssumption
  <2> QED BY <2>2, FunctionsAreSeqs
<1>3. ASSUME NEW name \in Names, NEW content \in Contents, NEW extra \in ExtraBlocks
      PROVE  <<name, content>> \o extra \in BlockSeqs /\ Len(<<name, content>> \o extra) >= 2
             /\ <<name, content>> \o extra # <<>>
  <2>1. <<name, content>> \in Seq(Seq(Octets)) /\ Len(<<name, content>>) = 2
    BY <1>1
  <2>2. PICK t : t = <<name, content>> \o extra
    OBVIOUS
  <2>3. t \in Seq(Seq(Octets)) /\ Len(t) = 2 + Len(extra)
    BY <1>2, <2>1, <2>2, ConcatProperties
  <2>4. t # <<>> /\ Len(t) >= 2
    BY <1>2, <2>3
  <2> QED BY <2>2, <2>3, <2>4 DEF BlockSeqs
<1>4. ASSUME NEW out \in Contents PROVE <<out>> \in BlockSeqs /\ <<out>> # <<>>
  BY <1>1 DEF BlockSeqs
<1>5. ASSUME NEW out \in Contents, NEW extra \in ExtraBlocks
      PROVE  <<out>> \o extra \in BlockSeqs /\ <<out>> \o extra # <<>>
  <2>1. <<out>> \in Seq(Seq(Octets)) /\ Len(<<out>>) = 1
    BY <1>1
  <2>2. PICK t : t = <<out>> \o extra
    OBVIOUS
  <2>3. t \in Seq(Seq(Octets)) /\ Len(t) = 1 + Len(extra)
    BY <1>2, <2>1, <2>2, ConcatProperties
  <2>4. t # <<>>
    BY <1>2, <2>3
  <2> QED BY <2>2, <2>3, <2>4 DEF BlockSeqs
<1>6. <<>> \in BlockSeqs
  BY DEF BlockSeqs
<1> QED BY <1>3, <1>4, <1>5, <1>6

\* A header that is found in a stream
LEMMA HeadOf ==
    ASSUME NEW s \in Seq(Units), s # <<>>, IsHeader(Head(s))
    PROVE  Head(s) \in HeaderUnits /\ Head(s).lengths \in Seq(Nat)
<1>1. Head(s) \in Units
  OBVIOUS
<1> QED BY <1>1, UnitFacts DEF Units

\* Each step of the client keeps its types and those of the streams.
LEMMA ClientStepTypes ==
    ASSUME RpcTypes, ClientStep
    PROVE  ClientTypes' /\ StreamTypes' /\ UNCHANGED <<worker, unread>>
<1>1. CASE SendRequest
  <2>1. PICK name \in Names, content \in Contents, extra \in ExtraBlocks :
            /\ up' = up \o Message(<<name, content>> \o extra)
            /\ sent' = <<name, content>> \o extra
    BY <1>1 DEF SendRequest
  <2>2. PICK b \in BlockSeqs : b = <<name, content>> \o extra /\ Len(b) >= 2
    BY SentBlocks
  <2>3. up' \in Requests /\ sent' \in BlockSeqs
    BY <2>1, <2>2, JoinRequests DEF RpcTypes
  <2>4. calls' \in 0..MaxCalls /\ cpc' = "message" /\ UNCHANGED <<down, worker, creader, unread>>
    BY <1>1, CallsAssumption DEF SendRequest, RpcTypes
  <2> QED BY <2>3, <2>4 DEF RpcTypes, ClientTypes, StreamTypes
<1>2. CASE ReadReply
  <2>1. down # <<>> /\ down' = Tail(down) /\ UNCHANGED <<up, worker, calls, sent, unread>>
    BY <1>2 DEF ReadReply
  <2>2. StreamTypes'
    BY <2>1, CutStream DEF RpcTypes, StreamTypes
  <2>3. \/ cpc' \in {"lost", "crashed"} /\ UNCHANGED creader
        \/ /\ IsHeader(Head(down)) /\ Head(down).lengths # <<>>
           /\ cpc' = "blocks" /\ creader' \in Open(Head(down).lengths)
    BY <1>2, Zenon DEF ReadReply
  <2>4. CASE cpc' \in {"lost", "crashed"} /\ UNCHANGED creader
    BY <2>1, <2>2, <2>4 DEF RpcTypes, ClientTypes
  <2>5. CASE /\ IsHeader(Head(down)) /\ Head(down).lengths # <<>>
             /\ cpc' = "blocks" /\ creader' \in Open(Head(down).lengths)
    <3>1. PICK lens \in Seq(Nat) : lens = Head(down).lengths
      BY <2>1, <2>5, HeadOf DEF RpcTypes
    <3>2. Len(lens) \in Nat /\ 0 < Len(lens)
      BY <2>5, <3>1
    <3>3. creader' \in Readers /\ creader'.lens = lens /\ creader'.index = 0
      BY <2>5, <3>1, OpenFacts
    <3>4. creader'.index < Len(creader'.lens) /\ creader'.index <= Len(creader'.lens)
      BY <3>2, <3>3
    <3> QED BY <2>1, <2>2, <2>5, <3>3, <3>4 DEF RpcTypes, ClientTypes
  <2> QED BY <2>3, <2>4, <2>5
<1>3. CASE ReadEnd
  BY <1>3 DEF ReadEnd, RpcTypes, ClientTypes, StreamTypes
<1>4. CASE ReadReplyBlock
  <2>1. PICK r \in Advance(creader) :
            /\ creader' = IF AllRead(r) THEN NoReader ELSE r
            /\ cpc' = IF AllRead(r) THEN "idle" ELSE "blocks"
    BY <1>4 DEF ReadReplyBlock
  <2>2. /\ cpc = "blocks" /\ down' = SubSeq(down, creader.length + 1, Len(down))
        /\ UNCHANGED <<up, worker, calls, sent, unread>>
    BY <1>4 DEF ReadReplyBlock
  <2>3. /\ creader \in Readers /\ creader.index < Len(creader.lens)
        /\ creader.length \in Nat /\ creader.index \in Nat /\ Len(creader.lens) \in Nat
    BY <2>2 DEF RpcTypes, Readers
  <2>4. r \in Readers /\ r.index <= Len(r.lens) /\ (~AllRead(r) => r.index < Len(r.lens))
    <3>1. r \in Readers /\ r.lens = creader.lens /\ r.index = creader.index + 1
      BY <2>1, <2>3, AdvanceFacts
    <3> QED BY <2>3, <3>1 DEF AllRead
  <2>5. StreamTypes'
    BY <2>2, <2>3, CutStream DEF RpcTypes, StreamTypes
  <2>6. CASE AllRead(r)
    BY <2>1, <2>2, <2>5, <2>6, NoReaderFacts DEF RpcTypes, ClientTypes
  <2>7. CASE ~AllRead(r)
    BY <2>1, <2>2, <2>4, <2>5, <2>7 DEF RpcTypes, ClientTypes
  <2> QED BY <2>6, <2>7
<1> QED BY <1>1, <1>2, <1>3, <1>4 DEF ClientStep

\* Reading a block goes on by one.
LEMMA ReadTypes ==
    ASSUME RpcTypes, ReadNextBlock, sreader.index < Len(sreader.lens), NEW r \in Advance(sreader)
    PROVE  /\ up' \in Requests
           /\ r \in Readers /\ r.lens = sreader.lens /\ r.index = sreader.index + 1
           /\ r.index <= Len(r.lens)
<1>1. /\ sreader \in Readers /\ sreader.length \in Nat /\ sreader.index \in Nat
      /\ Len(sreader.lens) \in Nat /\ up \in Requests
  BY DEF RpcTypes, Readers
<1>2. up' = SubSeq(up, sreader.length + 1, Len(up))
  BY DEF ReadNextBlock
<1>3. up' \in Requests
  BY <1>1, <1>2, CutRequests
<1>4. r \in Readers /\ r.lens = sreader.lens /\ r.index = sreader.index + 1
  BY <1>1, AdvanceFacts
<1> QED BY <1>1, <1>3, <1>4

\* A reply is blocks in the other stream, and the worker is ready again.
LEMMA ReplyTypes ==
    ASSUME RpcTypes, NEW b \in BlockSeqs, Reply(b), sreader' = NoReader
    PROVE  WorkerTypes' /\ down' \in Seq(Units)
<1>1. down' = down \o Message(b) /\ replied' = b /\ spc' = "message"
  BY DEF Reply
<1>2. Message(b) \in Seq(Units) /\ down \in Seq(Units)
  BY MessageFacts DEF RpcTypes
<1>3. down' \in Seq(Units)
  BY <1>1, <1>2, ConcatProperties
<1> QED BY <1>1, <1>3, NoReaderFacts DEF WorkerTypes

\* Each step of the worker keeps its types and those of the streams.
LEMMA WorkerStepTypes ==
    ASSUME RpcTypes, WorkerStep
    PROVE  WorkerTypes' /\ StreamTypes' /\ UNCHANGED client /\ unread' \in BOOLEAN
<1>0. /\ up \in Requests /\ down \in Seq(Units) /\ unread \in BOOLEAN
      /\ sreader.index \in Nat /\ Len(sreader.lens) \in Nat
  BY DEF RpcTypes, Readers
<1>1. CASE ReadMessage
  <2>1. /\ up # <<>> /\ up' = Tail(up)
        /\ UNCHANGED <<down, client, replied, unread>>
    BY <1>1 DEF ReadMessage
  <2>2. StreamTypes'
    BY <1>0, <2>1, CutRequests DEF StreamTypes
  <2>3. \/ IsHeader(Head(up)) /\ spc' = "name" /\ sreader' \in Open(Head(up).lengths)
        \/ spc' = "lost" /\ UNCHANGED sreader
    BY <1>1, Zenon DEF ReadMessage
  <2>4. CASE IsHeader(Head(up)) /\ spc' = "name" /\ sreader' \in Open(Head(up).lengths)
    <3>1. up \in Seq(Units)
      BY <1>0 DEF Requests
    <3>2. PICK lens \in Seq(Nat) : lens = Head(up).lengths
      BY <2>1, <2>4, <3>1, HeadOf
    <3>3. 1 \in 1..Len(up) /\ Head(up) = up[1]
      BY <2>1, <3>1
    <3>4. Len(lens) \in Nat /\ Len(lens) >= 2
      BY <1>0, <2>4, <3>2, <3>3 DEF Requests
    <3>5. sreader' \in Readers /\ sreader'.lens = lens /\ sreader'.index = 0
      BY <2>4, <3>2, OpenFacts
    <3>6. sreader'.index <= Len(sreader'.lens) /\ Len(sreader'.lens) >= 2
      BY <3>4, <3>5
    <3> QED BY <1>0, <2>1, <2>2, <2>4, <3>5, <3>6 DEF RpcTypes, WorkerTypes
  <2>5. CASE spc' = "lost" /\ UNCHANGED sreader
    BY <1>0, <2>1, <2>2, <2>5 DEF RpcTypes, WorkerTypes
  <2> QED BY <2>3, <2>4, <2>5
<1>2. CASE ReadName
  <2>1. PICK r \in Advance(sreader) :
            IF Head(sread') \in Registered
            THEN sreader' = r /\ spc' = "proto" /\ UNCHANGED <<down, replied, unread>>
            ELSE DestroyReader(r) /\ Reply(<<>>)
    BY <1>2, Zenon DEF ReadName
  <2>2. spc = "name" /\ ReadNextBlock /\ UNCHANGED client
    BY <1>2, Zenon DEF ReadName
  <2>3. sreader.index = 0 /\ Len(sreader.lens) >= 2 /\ sreader.index < Len(sreader.lens)
    BY <1>0, <2>2 DEF RpcTypes
  <2>4. /\ up' \in Requests
        /\ r \in Readers /\ r.index = 1 /\ Len(r.lens) >= 2 /\ r.index <= Len(r.lens)
    BY <2>2, <2>3, ReadTypes
  <2>5. CASE sreader' = r /\ spc' = "proto" /\ UNCHANGED <<down, replied, unread>>
    BY <1>0, <2>2, <2>4, <2>5 DEF RpcTypes, WorkerTypes, StreamTypes
  <2>6. CASE DestroyReader(r) /\ Reply(<<>>)
    <3>1. sreader' = NoReader /\ unread' \in BOOLEAN /\ <<>> \in BlockSeqs
      BY <1>0, <2>6, SentBlocks, Zenon DEF DestroyReader
    <3>2. WorkerTypes' /\ down' \in Seq(Units)
      BY <2>6, <3>1, ReplyTypes
    <3> QED BY <2>2, <2>4, <3>1, <3>2 DEF StreamTypes
  <2> QED BY <2>1, <2>5, <2>6
<1>3. CASE ReadProtoPlain
  <2>1. PICK r \in Advance(sreader), out \in Contents : DestroyReader(r) /\ Reply(<<out>>)
    BY <1>3, Zenon DEF ReadProtoPlain
  <2>2. spc = "proto" /\ ReadNextBlock /\ UNCHANGED client
    BY <1>3, Zenon DEF ReadProtoPlain
  <2>3. sreader.index < Len(sreader.lens)
    BY <1>0, <2>2 DEF RpcTypes
  <2>4. up' \in Requests
    BY <2>1, <2>2, <2>3, ReadTypes
  <2>5. sreader' = NoReader /\ unread' \in BOOLEAN /\ <<out>> \in BlockSeqs
    BY <1>0, <2>1, SentBlocks, Zenon DEF DestroyReader
  <2>6. WorkerTypes' /\ down' \in Seq(Units)
    BY <2>1, <2>5, ReplyTypes
  <2> QED BY <2>2, <2>4, <2>5, <2>6 DEF StreamTypes
<1>4. CASE ReadProtoExtended \/ ReadUserBlock
  <2>1. /\ spc = "proto" \/ (spc = "user" /\ ~AllRead(sreader))
        /\ ReadNextBlock /\ sreader' \in Advance(sreader) /\ spc' = "user"
        /\ UNCHANGED <<down, replied, client, unread>>
    BY <1>4 DEF ReadProtoExtended, ReadUserBlock
  <2>2. sreader.index < Len(sreader.lens)
    BY <1>0, <2>1 DEF RpcTypes, AllRead
  <2>3. up' \in Requests /\ sreader' \in Readers /\ sreader'.index <= Len(sreader'.lens)
    <3>1. PICK r \in Advance(sreader) : r = sreader'
      BY <2>1
    <3> QED BY <2>1, <2>2, <3>1, ReadTypes
  <2> QED BY <1>0, <2>1, <2>3 DEF RpcTypes, WorkerTypes, StreamTypes
<1>5. CASE CallBack
  <2>1. PICK out \in Contents, extra \in ExtraBlocks : Reply(<<out>> \o extra)
    BY <1>5, Zenon DEF CallBack
  <2>2. sreader' = NoReader /\ unread' \in BOOLEAN /\ UNCHANGED <<up, client>>
    BY <1>0, <1>5, Zenon DEF CallBack, DestroyReader
  <2>3. <<out>> \o extra \in BlockSeqs
    BY SentBlocks
  <2>4. WorkerTypes' /\ down' \in Seq(Units)
    BY <2>1, <2>2, <2>3, ReplyTypes
  <2> QED BY <1>0, <2>2, <2>4 DEF StreamTypes
<1> QED BY <1>1, <1>2, <1>3, <1>4, <1>5 DEF WorkerStep

LEMMA InitTypes == RpcInit => RpcTypes
<1> SUFFICES ASSUME RpcInit PROVE RpcTypes
  OBVIOUS
<1>1. <<>> \in Seq(Units) /\ Len(<<>>) = 0
  OBVIOUS
<1>2. <<>> \in Requests
  BY <1>1 DEF Requests
<1>3. 0 \in 0..MaxCalls
  BY CallsAssumption
<1> QED BY <1>1, <1>2, <1>3, SentBlocks, NoReaderFacts DEF RpcInit, RpcTypes

LEMMA NextTypes == RpcTypes /\ [RpcNext]_rpcVars => RpcTypes'
<1> SUFFICES ASSUME RpcTypes, [RpcNext]_rpcVars PROVE RpcTypes'
  OBVIOUS
<1>0. WorkerTypes /\ ClientTypes /\ StreamTypes /\ exact \in BOOLEAN /\ unread \in BOOLEAN
  BY TypesAre
<1>1. CASE RpcNext
  <2>1. exact' \in BOOLEAN
    BY <1>1, Zenon DEF RpcNext, OwnLength
  <2>2. CASE ClientStep
    <3>1. ClientTypes' /\ StreamTypes' /\ UNCHANGED <<worker, unread>>
      BY <2>2, ClientStepTypes
    <3>2. WorkerTypes' /\ unread' \in BOOLEAN
      BY <1>0, <3>1 DEF WorkerTypes, worker
    <3> QED BY <2>1, <3>1, <3>2, Zenon DEF RpcTypes, WorkerTypes, ClientTypes, StreamTypes
  <2>3. CASE WorkerStep
    <3>1. WorkerTypes' /\ StreamTypes' /\ UNCHANGED client /\ unread' \in BOOLEAN
      BY <2>3, WorkerStepTypes
    <3>2. ClientTypes'
      BY <1>0, <3>1 DEF ClientTypes, client
    <3> QED BY <2>1, <3>1, <3>2, Zenon DEF RpcTypes, WorkerTypes, ClientTypes, StreamTypes
  <2>4. CASE Die
    <3>1. WorkerTypes' /\ ClientTypes' /\ StreamTypes' /\ unread' \in BOOLEAN
      BY <1>0, <2>4 DEF Die, WorkerTypes, ClientTypes, StreamTypes, client
    <3> QED BY <2>1, <3>1, Zenon DEF RpcTypes, WorkerTypes, ClientTypes, StreamTypes
  <2> QED BY <1>1, <2>2, <2>3, <2>4 DEF RpcNext
<1>2. CASE UNCHANGED rpcVars
  BY <1>2 DEF rpcVars, worker, client, RpcTypes
<1> QED BY <1>1, <1>2

-----------------------------------------------------------------------------
(* Where the message of a call is, while lengths are right *)

\* Blocks that a destroyed reader has left in the stream
Left(s) == s \in Seq(Octets) /\ (~unread => s = <<>>)

\* The client has its last reply, and makes no call.
AtRest == /\ cpc = "idle" /\ cread = replied
          /\ Left(up) /\ down = <<>>
          /\ sreader = NoReader /\ creader = NoReader

\* It has called, and has no part of the reply.
Calling == cpc \in {"message", "crashed"} /\ cread = <<>> /\ creader = NoReader /\ sent # <<>>

\* The request is in the stream.
Asked == /\ Calling /\ (cpc = "crashed" => spc = "dead")
         /\ \E left \in Seq(Octets) : Left(left) /\ up = left \o Message(sent)
         /\ down = <<>> /\ sreader = NoReader

\* The worker has it, or died over it.
Served == /\ Calling /\ (cpc = "crashed" => spc = "dead")
          /\ spc \in {"name", "proto", "user", "dead"}
          /\ Reading(sreader, sread, up, sent)
          /\ down = <<>>

\* Only a function that is not there is answered by no block.
NoneIfUnknown == replied = <<>> => Head(sent) \notin Registered

\* The reply is in the stream,
Returning == /\ Calling /\ cpc = "message"
             /\ Left(up) /\ down = Message(replied) /\ sreader = NoReader
             /\ NoneIfUnknown

\* or was one without a block,
Refused == /\ Calling /\ cpc = "crashed"
           /\ Left(up) /\ down = <<>> /\ sreader = NoReader
           /\ replied = <<>> /\ NoneIfUnknown

\* or the client is reading it.
Taken == /\ cpc = "blocks" /\ Left(up) /\ sreader = NoReader
         /\ Reading(creader, cread, down, replied)

Place == AtRest \/ Asked \/ Served \/ Returning \/ Refused \/ Taken

\* A worker that has a message has the client's, and one that is lost found left blocks.
InHand == /\ spc \in {"name", "proto", "user"} => Served
          /\ spc = "lost" => unread

RpcInv == /\ RpcTypes
          /\ exact => OwnLength(sreader) /\ OwnLength(creader) /\ Place /\ InHand

LEMMA RpcInitInv == RpcInit => RpcInv
<1> SUFFICES ASSUME RpcInit PROVE RpcInv
  OBVIOUS
<1>1. RpcTypes
  BY InitTypes
<1>2. AtRest /\ InHand
  BY DEF RpcInit, AtRest, Left, InHand
<1> QED BY <1>1, <1>2, NoReaderFacts DEF RpcInit, RpcInv, Place

\* A request that is sent is in the stream.
LEMMA SendPlace ==
    ASSUME RpcTypes, Place, InHand, SendRequest
    PROVE  Place' /\ InHand'
<1>1. cpc = "idle" /\ AtRest
  BY DEF SendRequest, Place, Asked, Served, Returning, Refused, Taken, Calling
<1>2. spc \notin {"name", "proto", "user"} /\ (spc = "lost" => unread)
  BY <1>1 DEF InHand, Served, Calling
<1>3. PICK name \in Names, content \in Contents, extra \in ExtraBlocks :
          /\ up' = up \o Message(<<name, content>> \o extra)
          /\ sent' = <<name, content>> \o extra
  BY DEF SendRequest
<1>4. PICK b : b = <<name, content>> \o extra /\ b # <<>>
  <2>1. <<name, content>> \o extra # <<>>
    BY SentBlocks, Zenon
  <2> QED BY <2>1
<1>5. PICK left \in Seq(Octets) : left = up /\ (~unread => left = <<>>)
  BY <1>1 DEF AtRest, Left
<1>6. /\ cpc' = "message" /\ cread' = <<>>
      /\ spc' = spc /\ unread' = unread /\ down' = down /\ creader' = creader /\ sreader' = sreader
  BY DEF SendRequest, worker
<1>7. Left(left)' /\ up' = left \o Message(sent')
  BY <1>3, <1>4, <1>5, <1>6 DEF Left
<1>8. Calling' /\ down' = <<>> /\ sreader' = NoReader
  BY <1>1, <1>3, <1>4, <1>6 DEF AtRest, Calling
<1>9. Asked'
  BY <1>6, <1>7, <1>8 DEF Asked
<1> QED BY <1>2, <1>6, <1>9 DEF Place, InHand

\* A reply in the stream is refused, if there is no block, or else taken.
LEMMA ReplyPlace ==
    ASSUME RpcTypes, Place, InHand, ReadReply
    PROVE  Place' /\ InHand'
<1>1. Returning
  BY DEF ReadReply, Place, AtRest, Asked, Served, Returning, Refused, Taken
<1>2. spc \notin {"name", "proto", "user"} /\ (spc = "lost" => unread)
  BY DEF InHand, Served, ReadReply
<1>3. PICK b \in BlockSeqs : b = replied
  BY DEF RpcTypes
<1>4. /\ Head(down) = Header(b) /\ Tail(down) = FlattenSeq(b) /\ IsHeader(Head(down))
      /\ Head(down).lengths = LengthsOf(b)
  BY <1>1, <1>3, MessageFacts, UnitFacts DEF Returning
<1>5. /\ down' = FlattenSeq(b)
      /\ UNCHANGED <<up, spc, sreader, sread, replied, sent, cread, unread>>
  BY <1>4 DEF ReadReply, worker
<1>6. Left(up)' /\ sreader' = NoReader
  BY <1>1, <1>5 DEF Returning, Left
<1>7. \/ LengthsOf(b) = <<>> /\ cpc' = "crashed" /\ creader' = creader
      \/ cpc' = "blocks" /\ creader' \in Open(LengthsOf(b))
  BY <1>4 DEF ReadReply
<1>8. CASE LengthsOf(b) = <<>> /\ cpc' = "crashed" /\ creader' = creader
  <2>1. Len(b) = 0 /\ b \in Seq(Seq(Octets))
    BY <1>8, LengthsAddUp DEF BlockSeqs
  <2>2. b = <<>> /\ down' = <<>>
    BY <1>5, <2>1, FlattenEmpty
  <2>3. Refused'
    BY <1>1, <1>3, <1>5, <1>6, <1>8, <2>2 DEF Refused, Returning, Calling, NoneIfUnknown
  <2> QED BY <1>2, <1>5, <2>3 DEF Place, InHand
<1>9. CASE cpc' = "blocks" /\ creader' \in Open(LengthsOf(b))
  <2>1. PICK r \in Open(LengthsOf(b)) : r = creader'
    BY <1>9
  <2>2. Reading(r, <<>>, FlattenSeq(b), b)
    BY ReadingStart
  <2>3. cread' = <<>> /\ replied' = b
    BY <1>1, <1>3, <1>5 DEF Returning, Calling
  <2>4. Reading(creader, cread, down, replied)'
    BY <1>5, <2>1, <2>2, <2>3
  <2>5. Taken'
    BY <1>6, <1>9, <2>4 DEF Taken
  <2> QED BY <1>2, <1>5, <2>5 DEF Place, InHand
<1> QED BY <1>7, <1>8, <1>9

\* The end of the server leaves the request where it is.
LEMMA EndPlace ==
    ASSUME RpcTypes, Place, InHand, ReadEnd
    PROVE  Place' /\ InHand'
<1>1. /\ cpc = "message" /\ down = <<>> /\ spc = "dead" /\ cpc' = "crashed"
      /\ UNCHANGED <<up, down, spc, sreader, sread, replied, creader, cread, sent, unread>>
  BY DEF ReadEnd, worker
<1>2. ~Returning
  <2>1. Len(Message(replied)) = 1 + Len(FlattenSeq(replied)) /\ Len(FlattenSeq(replied)) \in Nat
    BY MessageFacts DEF RpcTypes
  <2>2. Message(replied) # <<>>
    BY <2>1
  <2> QED BY <1>1, <2>2 DEF Returning
<1>3. Asked \/ Served
  BY <1>1, <1>2 DEF Place, AtRest, Refused, Taken
<1>4. InHand'
  BY <1>1 DEF InHand
<1>5. ASSUME Asked PROVE Asked'
  BY <1>1, <1>5 DEF Asked, Calling, Left
<1>6. ASSUME Served PROVE Served'
  BY <1>1, <1>6 DEF Served, Calling, Reading
<1> QED BY <1>3, <1>4, <1>5, <1>6 DEF Place

\* A reply is taken block for block, until the client has it all.
LEMMA ReplyBlockPlace ==
    ASSUME RpcTypes, Place, InHand, OwnLength(creader), ReadReplyBlock
    PROVE  Place' /\ InHand'
<1>1. cpc = "blocks" /\ Taken
  BY DEF ReadReplyBlock, Place, AtRest, Asked, Served, Returning, Refused, Calling
<1>2. spc \notin {"name", "proto", "user"} /\ (spc = "lost" => unread)
  BY <1>1 DEF InHand, Served, Calling
<1>3. PICK b \in BlockSeqs : b = replied
  BY DEF RpcTypes
<1>4. PICK r \in Advance(creader) :
          /\ creader' = IF AllRead(r) THEN NoReader ELSE r
          /\ cpc' = IF AllRead(r) THEN "idle" ELSE "blocks"
  BY DEF ReadReplyBlock
<1>5. /\ cread' = Append(cread, SubSeq(down, 1, creader.length))
      /\ down' = SubSeq(down, creader.length + 1, Len(down))
      /\ UNCHANGED <<up, spc, sreader, sread, replied, sent, unread>>
  BY DEF ReadReplyBlock, worker
<1>6. creader \in Readers /\ creader.index < Len(creader.lens) /\ creader.index <= Len(creader.lens)
  BY <1>1 DEF RpcTypes
<1>7. Reading(creader, cread, down, b)
  BY <1>1, <1>3 DEF Taken
<1>8. Len(creader.lens) = Len(b)
  BY <1>6, <1>7, ReadingFacts
<1>9. Reading(r, cread', down', b)
  BY <1>5, <1>6, <1>7, <1>8, ReadingStep
<1>10. r \in Readers /\ r.index <= Len(r.lens)
  <2>1. r \in Readers /\ r.lens = creader.lens /\ r.index = creader.index + 1
    BY <1>6, AdvanceFacts
  <2>2. creader.index \in Nat /\ Len(creader.lens) \in Nat
    BY <1>6 DEF Readers
  <2> QED BY <1>6, <2>1, <2>2
<1>11. Left(up)' /\ sreader' = NoReader /\ replied' = b
  BY <1>1, <1>3, <1>5 DEF Taken, Left
<1>12. CASE AllRead(r)
  <2>1. down' = <<>> /\ cread' = b
    BY <1>9, <1>10, <1>12, ReadingFacts
  <2>2. AtRest'
    BY <1>4, <1>11, <1>12, <2>1 DEF AtRest
  <2> QED BY <1>2, <1>5, <2>2 DEF Place, InHand
<1>13. CASE ~AllRead(r)
  <2>1. Taken'
    BY <1>4, <1>9, <1>11, <1>13 DEF Taken
  <2> QED BY <1>2, <1>5, <2>1 DEF Place, InHand
<1> QED BY <1>12, <1>13

\* The worker gets lost in left blocks; otherwise it has the request before it.
LEMMA MessagePlace ==
    ASSUME RpcTypes, Place, InHand, ReadMessage
    PROVE  Place' /\ InHand'
<1>1. /\ spc = "message" /\ up # <<>> /\ up' = Tail(up) /\ sread' = <<>>
      /\ UNCHANGED <<down, replied, unread, cpc, creader, cread, calls, sent>>
  BY DEF ReadMessage, client
<1>2. CASE Left(up)
  <2>1. PICK s \in Seq(Octets) : s = up
    BY <1>2 DEF Left
  <2>2. Head(s) \in Octets /\ Tail(s) \in Seq(Octets)
    BY <1>1, <2>1
  <2>3. spc' = "lost" /\ sreader' = sreader
    BY <2>1, <2>2, UnitFacts DEF ReadMessage
  <2>4. unread
    BY <1>1, <1>2 DEF Left
  <2>5. Left(up)' /\ InHand'
    BY <1>1, <2>1, <2>2, <2>3, <2>4 DEF Left, InHand
  <2>6. AtRest \/ Returning \/ Refused \/ Taken \/ Asked
    BY <1>1 DEF Place, Served
  <2>7. ASSUME AtRest PROVE AtRest'
    BY <1>1, <2>3, <2>5, <2>7 DEF AtRest
  <2>8. ASSUME Returning PROVE Returning'
    BY <1>1, <2>3, <2>5, <2>8 DEF Returning, Calling, NoneIfUnknown
  <2>9. ASSUME Refused PROVE Refused'
    BY <1>1, <2>3, <2>5, <2>9 DEF Refused, Calling, NoneIfUnknown
  <2>10. ASSUME Taken PROVE Taken'
    BY <1>1, <2>3, <2>5, <2>10 DEF Taken, Reading
  <2>11. ~Asked
    <3> SUFFICES ASSUME Asked PROVE FALSE
      OBVIOUS
    <3>1. PICK left \in Seq(Octets) : up = left \o Message(sent)
      BY DEF Asked
    <3>2. sent \in BlockSeqs
      BY DEF RpcTypes
    <3>3. Headers(up) = 1 /\ Headers(up) = 0
      BY <2>1, <3>1, <3>2, OneMessage, BytesOnly
    <3> QED BY <3>3
  <2> QED BY <2>5, <2>6, <2>7, <2>8, <2>9, <2>10, <2>11 DEF Place
<1>3. CASE ~Left(up)
  <2>1. Asked
    BY <1>1, <1>3 DEF Place, AtRest, Served, Returning, Refused, Taken
  <2>2. PICK left \in Seq(Octets) : Left(left) /\ up = left \o Message(sent)
    BY <2>1 DEF Asked
  <2>3. PICK b \in BlockSeqs : b = sent
    BY DEF RpcTypes
  <2>4. PICK m \in Seq(Units) : m = Message(b)
    BY MessageFacts
  <2>5. cpc = "message" /\ cpc' = "message" /\ Calling' /\ down' = <<>> /\ sreader = NoReader
    BY <1>1, <2>1 DEF Asked, Calling
  <2>6. CASE left # <<>>
    <3>1. Tail(up) = Tail(left) \o m /\ Head(up) = Head(left)
          /\ Head(left) \in Octets /\ Tail(left) \in Seq(Octets)
      <4>1. left \in Seq(Units)
        BY BytesOnly
      <4>2. up = left \o m
        BY <2>2, <2>3, <2>4
      <4> QED BY <2>4, <2>6, <4>1, <4>2
    <3>2. spc' = "lost" /\ sreader' = sreader
      BY <3>1, UnitFacts DEF ReadMessage
    <3>3. unread /\ unread'
      BY <1>1, <2>2, <2>6 DEF Left
    <3>4. Left(Tail(left))' /\ up' = Tail(left) \o Message(sent')
      BY <1>1, <2>3, <2>4, <3>1, <3>3 DEF Left
    <3>5. Asked' /\ InHand'
      BY <2>5, <3>1, <3>2, <3>3, <3>4 DEF Asked, InHand
    <3> QED BY <3>5 DEF Place
  <2>7. CASE left = <<>>
    <3>1. up = m
      BY <2>2, <2>3, <2>4, <2>7
    <3>2. /\ Head(up) = Header(b) /\ IsHeader(Head(up)) /\ Head(up).lengths = LengthsOf(b)
          /\ Tail(up) = FlattenSeq(b)
      BY <2>4, <3>1, MessageFacts, UnitFacts
    <3>3. spc' = "name" /\ sreader' \in Open(LengthsOf(b))
      BY <3>2, Zenon DEF ReadMessage
    <3>4. PICK r \in Open(LengthsOf(b)) : r = sreader'
      BY <3>3
    <3>5. Reading(r, <<>>, FlattenSeq(b), b)
      BY ReadingStart
    <3>6. Reading(sreader, sread, up, sent)'
      BY <1>1, <2>3, <3>2, <3>4, <3>5
    <3>7. Served'
      BY <2>5, <3>3, <3>6 DEF Served
    <3> QED BY <3>3, <3>7 DEF Place, InHand
  <2> QED BY <2>6, <2>7
<1> QED BY <1>2, <1>3

\* A worker that has a message and reads the next block still has what is behind it.
LEMMA NextBlockReads ==
    ASSUME RpcTypes, Place, InHand, OwnLength(sreader), spc \in {"name", "proto", "user"},
           ReadNextBlock, sreader.index < Len(sreader.lens), NEW r \in Advance(sreader)
    PROVE  /\ Calling /\ cpc = "message" /\ down = <<>>
           /\ Reading(r, sread', up', sent)
           /\ r \in Readers /\ r.lens = sreader.lens /\ r.index = sreader.index + 1
           /\ r.index <= Len(r.lens)
           /\ up' \in Seq(Octets) /\ (AllRead(r) => up' = <<>>)
<1>1. Served /\ spc # "dead"
  BY DEF InHand
<1>2. Calling /\ cpc = "message" /\ down = <<>>
  BY <1>1 DEF Served, Calling
<1>3. PICK b \in BlockSeqs : b = sent
  BY DEF RpcTypes
<1>4. Reading(sreader, sread, up, b)
  BY <1>1, <1>3 DEF Served
<1>5. sreader \in Readers /\ sreader.index <= Len(sreader.lens)
  BY DEF RpcTypes
<1>6. sreader.index < Len(b)
  BY <1>4, <1>5, ReadingFacts
<1>7. /\ sread' = Append(sread, SubSeq(up, 1, sreader.length))
      /\ up' = SubSeq(up, sreader.length + 1, Len(up))
  BY DEF ReadNextBlock
<1>8. Reading(r, sread', up', b)
  BY <1>4, <1>5, <1>6, <1>7, ReadingStep
<1>9. r \in Readers /\ r.lens = sreader.lens /\ r.index = sreader.index + 1 /\ r.index <= Len(r.lens)
  BY ReadTypes
<1>10. up' \in Seq(Octets) /\ (AllRead(r) => up' = <<>>)
  BY <1>8, <1>9, ReadingFacts
<1> QED BY <1>2, <1>3, <1>8, <1>9, <1>10

\* What the worker replies is in the stream to the client.
LEMMA ReplyReturns ==
    ASSUME Calling, cpc = "message", down = <<>>, NEW b \in BlockSeqs, Reply(b),
           sreader' = NoReader, UNCHANGED client,
           up' \in Seq(Octets), ~unread' => up' = <<>>, b = <<>> => Head(sent) \notin Registered
    PROVE  Place' /\ InHand'
<1>1. UNCHANGED <<cpc, creader, cread, sent>>
  BY DEF client
<1>2. replied' = b /\ spc' = "message" /\ down' = <<>> \o Message(b)
  BY DEF Reply
<1>3. Message(b) \in Seq(Units)
  BY MessageFacts
<1>4. down' = Message(replied')
  BY <1>2, <1>3
<1>5. Left(up)' /\ NoneIfUnknown' /\ Calling'
  BY <1>1, <1>2, Zenon DEF Left, NoneIfUnknown, Calling
<1>6. Returning'
  BY <1>1, <1>4, <1>5 DEF Returning
<1> QED BY <1>2, <1>6 DEF Place, InHand

\* The name decides whether the worker goes on with the message or refuses it.
LEMMA NamePlace ==
    ASSUME RpcTypes, Place, InHand, OwnLength(sreader), ReadName
    PROVE  Place' /\ InHand'
<1>1. PICK r \in Advance(sreader) :
          IF Head(sread') \in Registered
          THEN sreader' = r /\ spc' = "proto" /\ UNCHANGED <<down, replied, unread>>
          ELSE DestroyReader(r) /\ Reply(<<>>)
  BY Zenon DEF ReadName
<1>2. spc = "name" /\ ReadNextBlock /\ UNCHANGED client
  BY Zenon DEF ReadName
<1>3. sreader.index = 0 /\ sreader.index < Len(sreader.lens)
  <2>1. sreader.index = 0 /\ Len(sreader.lens) >= 2 /\ Len(sreader.lens) \in Nat
    BY <1>2 DEF RpcTypes, Readers
  <2> QED BY <2>1
<1>4. /\ Calling /\ cpc = "message" /\ down = <<>>
      /\ Reading(r, sread', up', sent) /\ r.index = 1
      /\ up' \in Seq(Octets) /\ (AllRead(r) => up' = <<>>)
  BY <1>2, <1>3, NextBlockReads
<1>5. UNCHANGED <<cpc, creader, cread, sent>>
  BY <1>2 DEF client
<1>6. CASE sreader' = r /\ spc' = "proto" /\ UNCHANGED <<down, replied, unread>>
  <2>1. Reading(sreader, sread, up, sent)'
    BY <1>4, <1>5, <1>6
  <2>2. Served'
    BY <1>4, <1>5, <1>6, <2>1 DEF Served, Calling
  <2> QED BY <1>6, <2>2 DEF Place, InHand
<1>7. CASE Head(sread') \notin Registered /\ DestroyReader(r) /\ Reply(<<>>)
  <2>1. Head(sread') = Head(sent)
    <3>1. sent \in Seq(Seq(Octets)) /\ sent # <<>>
      BY <1>4 DEF RpcTypes, BlockSeqs, Calling
    <3>2. sread' = SubSeq(sent, 1, 1)
      BY <1>4 DEF Reading
    <3> QED BY <3>1, <3>2
  <2>2. sreader' = NoReader /\ (~unread' => up' = <<>>) /\ <<>> \in BlockSeqs
    BY <1>4, <1>7, SentBlocks DEF DestroyReader
  <2> QED BY <1>2, <1>4, <1>7, <2>1, <2>2, ReplyReturns
<1> QED BY <1>1, <1>6, <1>7

\* A plain function replies by one block,
LEMMA PlainPlace ==
    ASSUME RpcTypes, Place, InHand, OwnLength(sreader), ReadProtoPlain
    PROVE  Place' /\ InHand'
<1>1. PICK r \in Advance(sreader), out \in Contents : DestroyReader(r) /\ Reply(<<out>>)
  BY Zenon DEF ReadProtoPlain
<1>2. spc = "proto" /\ ReadNextBlock /\ UNCHANGED client
  BY Zenon DEF ReadProtoPlain
<1>3. sreader.index < Len(sreader.lens)
  <2>1. sreader.index = 1 /\ Len(sreader.lens) >= 2 /\ Len(sreader.lens) \in Nat
    BY <1>2 DEF RpcTypes, Readers
  <2> QED BY <2>1
<1>4. /\ Calling /\ cpc = "message" /\ down = <<>>
      /\ up' \in Seq(Octets) /\ (AllRead(r) => up' = <<>>)
  BY <1>2, <1>3, NextBlockReads
<1>5. sreader' = NoReader /\ (~unread' => up' = <<>>) /\ <<out>> \in BlockSeqs /\ <<out>> # <<>>
  BY <1>1, <1>4, SentBlocks DEF DestroyReader
<1> QED BY <1>1, <1>2, <1>4, <1>5, ReplyReturns

\* an extended one reads on,
LEMMA ExtendedPlace ==
    ASSUME RpcTypes, Place, InHand, OwnLength(sreader), ReadProtoExtended \/ ReadUserBlock
    PROVE  Place' /\ InHand'
<1>1. /\ spc \in {"proto", "user"} /\ (spc = "user" => ~AllRead(sreader))
      /\ ReadNextBlock /\ sreader' \in Advance(sreader) /\ spc' = "user"
      /\ UNCHANGED <<down, replied, client, unread>>
  BY DEF ReadProtoExtended, ReadUserBlock
<1>2. sreader.index < Len(sreader.lens)
  <2>1. sreader.index \in Nat /\ Len(sreader.lens) \in Nat /\ sreader.index <= Len(sreader.lens)
    BY DEF RpcTypes, Readers
  <2>2. CASE spc = "proto"
    BY <2>1, <2>2 DEF RpcTypes
  <2>3. CASE spc = "user"
    BY <1>1, <2>1, <2>3 DEF AllRead
  <2> QED BY <1>1, <2>2, <2>3
<1>3. PICK r \in Advance(sreader) : r = sreader'
  BY <1>1
<1>4. Calling /\ cpc = "message" /\ down = <<>> /\ Reading(r, sread', up', sent)
  BY <1>1, <1>2, NextBlockReads
<1>5. UNCHANGED <<cpc, creader, cread, sent>>
  BY <1>1 DEF client
<1>6. Reading(sreader, sread, up, sent)'
  BY <1>3, <1>4, <1>5
<1>7. Served'
  BY <1>1, <1>4, <1>5, <1>6 DEF Served, Calling
<1> QED BY <1>1, <1>7 DEF Place, InHand

\* and replies when it has read everything.
LEMMA CallBackPlace ==
    ASSUME RpcTypes, Place, InHand, CallBack
    PROVE  Place' /\ InHand'
<1>1. /\ spc = "user" /\ AllRead(sreader) /\ UNCHANGED <<up, sread, client>>
      /\ DestroyReader(sreader)
  BY Zenon DEF CallBack
<1>2. PICK out \in Contents, extra \in ExtraBlocks : Reply(<<out>> \o extra)
  BY Zenon DEF CallBack
<1>3. Served /\ Calling /\ cpc = "message" /\ down = <<>>
  BY <1>1 DEF InHand, Served, Calling
<1>4. up = <<>>
  BY <1>1, <1>3, ReadingFacts DEF RpcTypes, Served
<1>5. sreader' = NoReader /\ up' = <<>> /\ <<>> \in Seq(Octets)
  BY <1>1, <1>4 DEF DestroyReader
<1>6. PICK b \in BlockSeqs : b = <<out>> \o extra /\ b # <<>>
  BY SentBlocks, Zenon
<1> QED BY <1>1, <1>2, <1>3, <1>5, <1>6, ReplyReturns

\* The end of the server moves nothing.
LEMMA DiePlace ==
    ASSUME RpcTypes, Place, InHand, Die
    PROVE  Place' /\ InHand'
<1>1. /\ spc' = "dead"
      /\ UNCHANGED <<up, down, sreader, sread, replied, cpc, creader, cread, sent, unread>>
  BY DEF Die, client
<1>2. InHand' /\ (Calling => Calling') /\ (NoneIfUnknown => NoneIfUnknown') /\ (Left(up) => Left(up)')
  BY <1>1 DEF InHand, Calling, NoneIfUnknown, Left
<1>3. ASSUME AtRest PROVE AtRest'
  BY <1>1, <1>2, <1>3 DEF AtRest
<1>4. ASSUME Asked PROVE Asked'
  BY <1>1, <1>2, <1>4 DEF Asked, Left
<1>5. ASSUME Served PROVE Served'
  BY <1>1, <1>2, <1>5 DEF Served, Reading
<1>6. ASSUME Returning PROVE Returning'
  BY <1>1, <1>2, <1>6 DEF Returning
<1>7. ASSUME Refused PROVE Refused'
  BY <1>1, <1>2, <1>7 DEF Refused
<1>8. ASSUME Taken PROVE Taken'
  BY <1>1, <1>2, <1>8 DEF Taken, Reading
<1> QED BY <1>2, <1>3, <1>4, <1>5, <1>6, <1>7, <1>8 DEF Place

LEMMA RpcNextInv == RpcInv /\ [RpcNext]_rpcVars => RpcInv'
<1> SUFFICES ASSUME RpcInv, [RpcNext]_rpcVars PROVE RpcInv'
  OBVIOUS
<1>1. RpcTypes /\ RpcTypes'
  BY NextTypes DEF RpcInv
<1>2. ASSUME RpcNext, exact'
      PROVE  OwnLength(sreader)' /\ OwnLength(creader)' /\ Place' /\ InHand'
  <2>1. exact /\ OwnLength(sreader') /\ OwnLength(creader')
    BY <1>2, Zenon DEF RpcNext
  <2>2. OwnLength(sreader) /\ OwnLength(creader) /\ Place /\ InHand
    BY <2>1 DEF RpcInv
  <2>3. OwnLength(sreader)' /\ OwnLength(creader)'
    BY <2>1 DEF OwnLength
  <2>4. ASSUME ClientStep PROVE Place' /\ InHand'
    BY <1>1, <2>2, <2>4, SendPlace, ReplyPlace, EndPlace, ReplyBlockPlace DEF ClientStep
  <2>5. ASSUME WorkerStep PROVE Place' /\ InHand'
    BY <1>1, <2>2, <2>5, MessagePlace, NamePlace, PlainPlace, ExtendedPlace, CallBackPlace
       DEF WorkerStep
  <2>6. ASSUME Die PROVE Place' /\ InHand'
    BY <1>1, <2>2, <2>6, DiePlace
  <2> QED BY <1>2, <2>3, <2>4, <2>5, <2>6 DEF RpcNext
<1>3. ASSUME UNCHANGED rpcVars, exact'
      PROVE  OwnLength(sreader)' /\ OwnLength(creader)' /\ Place' /\ InHand'
  <2>1. /\ exact
        /\ UNCHANGED <<up, down, spc, sreader, sread, replied, cpc, creader, cread, sent, unread>>
    BY <1>3 DEF rpcVars, worker, client
  <2>2. OwnLength(sreader) /\ OwnLength(creader) /\ Place /\ InHand
    BY <2>1 DEF RpcInv
  <2>3. (Served => Served') /\ (AtRest => AtRest') /\ (Taken => Taken')
    BY <2>1 DEF Served, Calling, Reading, AtRest, Left, Taken
  <2>4. (Asked => Asked') /\ (Returning => Returning') /\ (Refused => Refused')
    BY <2>1 DEF Asked, Calling, Left, Returning, Refused, NoneIfUnknown
  <2> QED BY <2>1, <2>2, <2>3, <2>4 DEF Place, InHand, OwnLength
<1> QED BY <1>1, <1>2, <1>3 DEF RpcInv

\* The calls and replies of ProtoRpc keep their invariant.
THEOREM RpcInvariant == RpcSpec => []RpcInv
<1> QED BY RpcInitInv, RpcNextInv, PTL DEF RpcSpec

LEMMA TypesSuffice == RpcTypes => RpcTypeOK
<1> SUFFICES ASSUME RpcTypes PROVE RpcTypeOK
  OBVIOUS
<1>1. up \in Seq(Units) /\ down \in Seq(Units)
  BY DEF RpcTypes, Requests
<1>2. ASSUME NEW s \in Seq(Units), NEW i \in DOMAIN s PROVE IsHeader(s[i]) \/ s[i] \in Octets
  <2>1. s[i] \in Units
    OBVIOUS
  <2> QED BY <2>1, UnitFacts DEF Units
<1>3. \A s \in {up, down} : \A i \in DOMAIN s : IsHeader(s[i]) \/ s[i] \in Octets
  BY <1>1, <1>2
<1> QED BY <1>3 DEF RpcTypes, RpcTypeOK

LEMMA BoundariesAre == RpcInv => BoundaryKept
<1> SUFFICES ASSUME RpcInv, exact, ~unread
             PROVE  /\ spc # "lost" /\ cpc # "lost"
                    /\ BeforeHeader(up) = Remaining(sreader)
                    /\ BeforeHeader(down) = Remaining(creader)
  BY DEF BoundaryKept
<1>1. RpcTypes /\ Place /\ InHand
  BY DEF RpcInv
<1>2. /\ sreader \in Readers /\ sreader.index <= Len(sreader.lens)
      /\ creader \in Readers /\ creader.index <= Len(creader.lens)
      /\ sent \in BlockSeqs /\ replied \in BlockSeqs
  BY <1>1 DEF RpcTypes
<1>3. spc # "lost" /\ cpc # "lost"
  BY <1>1 DEF InHand, Place, AtRest, Asked, Served, Returning, Refused, Taken, Calling
<1>4. <<>> \in Seq(Octets) /\ Len(<<>>) = 0
  OBVIOUS
<1>5. BeforeHeader(<<>>) = 0
  BY <1>4, BytesOnly
<1>6. BeforeHeader(up) = Remaining(sreader)
  <2>1. CASE AtRest \/ Returning \/ Refused \/ Taken
    <3>1. up = <<>> /\ sreader = NoReader
      BY <2>1 DEF AtRest, Returning, Refused, Taken, Left
    <3> QED BY <1>5, <3>1, NoReaderFacts
  <2>2. CASE Asked
    <3>1. PICK left \in Seq(Octets) : left = <<>> /\ up = left \o Message(sent)
      BY <2>2 DEF Asked, Left
    <3>2. sreader = NoReader
      BY <2>2 DEF Asked
    <3>3. BeforeHeader(up) = 0
      BY <1>2, <3>1, OneMessage
    <3> QED BY <3>2, <3>3, NoReaderFacts
  <2>3. CASE Served
    BY <1>2, <2>3, ReadingFacts DEF Served
  <2> QED BY <1>1, <2>1, <2>2, <2>3 DEF Place
<1>7. BeforeHeader(down) = Remaining(creader)
  <2>1. CASE AtRest \/ Asked \/ Served \/ Refused
    <3>1. down = <<>> /\ creader = NoReader
      BY <2>1 DEF AtRest, Asked, Served, Refused, Calling
    <3> QED BY <1>5, <3>1, NoReaderFacts
  <2>2. CASE Returning
    <3>1. down = Message(replied) /\ creader = NoReader
      BY <2>2 DEF Returning, Calling
    <3>2. Message(replied) \in Seq(Units)
      BY <1>2, MessageFacts
    <3>3. <<>> \o Message(replied) = Message(replied)
      BY <3>2
    <3>4. BeforeHeader(<<>> \o Message(replied)) = 0
      BY <1>2, <1>4, OneMessage
    <3> QED BY <3>1, <3>3, <3>4, NoReaderFacts
  <2>3. CASE Taken
    BY <1>2, <2>3, ReadingFacts DEF Taken
  <2> QED BY <1>1, <2>1, <2>2, <2>3 DEF Place
<1> QED BY <1>3, <1>6, <1>7

LEMMA BlocksAreRight == RpcInv => RightBlocks
<1> SUFFICES ASSUME RpcInv, exact
             PROVE  /\ spc \in {"name", "proto", "user"} => IsPrefix(sread, sent)
                    /\ cpc = "blocks" => IsPrefix(cread, replied)
                    /\ cpc = "idle" => cread = replied
  BY DEF RightBlocks
<1>1. RpcTypes /\ Place /\ InHand
  BY DEF RpcInv
<1>2. /\ sreader \in Readers /\ sreader.index <= Len(sreader.lens)
      /\ creader \in Readers /\ creader.index <= Len(creader.lens)
      /\ sent \in BlockSeqs /\ replied \in BlockSeqs
  BY <1>1 DEF RpcTypes
<1>3. ASSUME spc \in {"name", "proto", "user"} PROVE IsPrefix(sread, sent)
  BY <1>1, <1>2, <1>3, ReadingFacts DEF InHand, Served
<1>4. ASSUME cpc = "blocks" PROVE IsPrefix(cread, replied)
  <2>1. Taken
    BY <1>1, <1>4 DEF Place, AtRest, Asked, Served, Returning, Refused, Calling
  <2> QED BY <1>2, <2>1, ReadingFacts DEF Taken
<1>5. ASSUME cpc = "idle" PROVE cread = replied
  BY <1>1, <1>5 DEF Place, AtRest, Asked, Served, Returning, Refused, Taken, Calling
<1> QED BY <1>3, <1>4, <1>5

LEMMA OneOnItsWay == RpcInv => InStep
<1> SUFFICES ASSUME RpcInv, exact, {spc, cpc} \cap {"lost", "dead"} = {}
             PROVE  Headers(up) + One(spc # "message") + Headers(down)
                       + One(cpc \in {"blocks", "crashed"}) = One(cpc # "idle")
  BY DEF InStep
<1>1. RpcTypes /\ Place /\ InHand /\ spc \notin {"lost", "dead"}
  BY DEF RpcInv
<1>2. /\ sreader \in Readers /\ sreader.index <= Len(sreader.lens)
      /\ creader \in Readers /\ creader.index <= Len(creader.lens)
      /\ sent \in BlockSeqs /\ replied \in BlockSeqs
      /\ spc \in {"message", "name", "proto", "user"}
  BY <1>1 DEF RpcTypes
<1>3. <<>> \in Seq(Octets) /\ Headers(<<>>) = 0
  <2>1. <<>> \in Seq(Octets)
    OBVIOUS
  <2> QED BY <2>1, BytesOnly
<1>4. spc # "message" => Served
  BY <1>1, <1>2 DEF InHand
<1>5. CASE AtRest
  <2>1. Headers(up) = 0 /\ Headers(down) = 0 /\ cpc = "idle" /\ ~Served
    BY <1>3, <1>5, BytesOnly DEF AtRest, Left, Served, Calling
  <2> QED BY <1>4, <2>1 DEF One
<1>6. CASE Asked
  <2>1. PICK left \in Seq(Octets) : up = left \o Message(sent)
    BY <1>6 DEF Asked
  <2>2. Headers(up) = 1 /\ Headers(down) = 0 /\ cpc = "message"
    BY <1>1, <1>2, <1>3, <1>6, <2>1, OneMessage DEF Asked, Calling
  <2>3. ~Served
    <3> SUFFICES ASSUME Served PROVE FALSE
      OBVIOUS
    <3>1. up \in Seq(Octets)
      BY <1>2, ReadingFacts DEF Served
    <3> QED BY <2>2, <3>1, BytesOnly
  <2> QED BY <1>4, <2>2, <2>3 DEF One
<1>7. CASE Served
  <2>1. up \in Seq(Octets)
    BY <1>2, <1>7, ReadingFacts DEF Served
  <2>2. Headers(up) = 0 /\ Headers(down) = 0 /\ cpc = "message" /\ spc # "message"
    BY <1>1, <1>3, <1>7, <2>1, BytesOnly DEF Served, Calling
  <2> QED BY <2>2 DEF One
<1>8. CASE Returning
  <2>1. Headers(down) = 1
    <3>1. <<>> \o Message(replied) = Message(replied)
      <4>1. Message(replied) \in Seq(Units)
        BY <1>2, MessageFacts
      <4> QED BY <4>1
    <3> QED BY <1>2, <1>3, <1>8, <3>1, OneMessage DEF Returning
  <2>2. Headers(up) = 0 /\ cpc = "message" /\ ~Served
    <3>1. Headers(up) = 0 /\ cpc = "message"
      BY <1>8, BytesOnly DEF Returning, Left
    <3>2. down # <<>>
      BY <1>3, <2>1
    <3> QED BY <3>1, <3>2 DEF Served
  <2> QED BY <1>4, <2>1, <2>2 DEF One
<1>9. CASE Refused
  <2>1. Headers(up) = 0 /\ Headers(down) = 0 /\ cpc = "crashed" /\ ~Served
    BY <1>1, <1>3, <1>9, BytesOnly DEF Refused, Left, Calling, Served
  <2> QED BY <1>4, <2>1 DEF One
<1>10. CASE Taken
  <2>1. down \in Seq(Octets)
    BY <1>2, <1>10, ReadingFacts DEF Taken
  <2>2. Headers(up) = 0 /\ Headers(down) = 0 /\ cpc = "blocks" /\ ~Served
    BY <1>10, <2>1, BytesOnly DEF Taken, Left, Calling, Served
  <2> QED BY <1>4, <2>2 DEF One
<1> QED BY <1>1, <1>5, <1>6, <1>7, <1>8, <1>9, <1>10 DEF Place

\* As long as every length asked of a reader is the block's own (read_next_block): the worker
\* reads the blocks of the request and the client those of its reply, one message at most is on
\* its way, and unless a reader left blocks unread both sides stay at the boundaries of messages.
THEOREM LengthsKeepAllHolds == RpcSpec => []LengthsKeepAll
<1>1. RpcInv => LengthsKeepAll
  BY TypesSuffice, BoundariesAre, BlocksAreRight, OneOnItsWay DEF LengthsKeepAll, RpcInv
<1> QED BY <1>1, RpcInvariant, PTL

\* As long as they are, the client's process fails only after the server's has ended or over a
\* function that is not registered (recv, which uses a reply without looking at it).
THEOREM CrashesOnlyWhenHolds == RpcSpec => []CrashesOnlyWhen
<1>1. ASSUME RpcInv PROVE CrashesOnlyWhen
  <2>1. exact => Place
    BY <1>1 DEF RpcInv
  <2> QED BY <2>1 DEF CrashesOnlyWhen, Place, AtRest, Asked, Served, Returning, Refused, Taken,
                      Calling, NoneIfUnknown, Registered
<1> QED BY <1>1, RpcInvariant, PTL
=============================================================================
