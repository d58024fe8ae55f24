---------------------------- MODULE MemoryProofs ----------------------------
(***************************************************************************)
(* The memory of math/: the engine that makes the allocator, the memory    *)
(* handles, and the vectors over them.                                     *)
(*                                                                         *)
(* Handles: for every set of addresses, sizes, requests and handles and    *)
(* every limit (0 included), memory has one owner, is long enough, and     *)
(* comes back.  The argument: IInv is an account of the blocks.  A         *)
(* position in a stack or a live handle names a block, two of them never   *)
(* the same, the block has the size that its stack or its handle's size    *)
(* class says, and every block is named.  Each operation moves one block   *)
(* between the accounts, or, in free_all, all of the pool's back to the    *)
(* system.                                                                 *)
(*                                                                         *)
(* The counter of the pool goes wrong in one way only.  The bytes that it  *)
(* should count are a sum over the size classes, a recursive function on   *)
(* sets; SumIsCells makes it the cardinality of a set (w[c] cells for each *)
(* c), which the library has theorems about.                               *)
(*                                                                         *)
(* Vectors use the handles as MemoryHandle allows, so what is proved of    *)
(* handles holds under them; and for any vectors, sizes and heap: owners   *)
(* have room, buffers are shared by intent only, views hold until the      *)
(* memory that they were taken from goes.  The argument: a vector is bound *)
(* to a handle, its own, or the one that a view was taken from.  While the *)
(* handle lives, the vector's window lies in its size class, except a      *)
(* window that something has moved (loose).  A step changes one vector,    *)
(* makes one handle, or destroys one that no vector is bound to any more.  *)
(*                                                                         *)
(* The engine: RWLockInv ties the lock to the program counters, so the     *)
(* writer is alone.  ProgressInv says how far the one construction is:     *)
(* only the writer can be between its second look at the pointer and the   *)
(* store, and what it saw is still true.                                   *)
(***************************************************************************)
EXTENDS Vector, StorageEngine, TLAPS, SequenceTheorems, FiniteSetTheorems

Positions(c) == 1..Len(pool[c])

StacksInv ==
    /\ \A c \in Classes : \A i \in Positions(c) : heap[pool[c][i]] = c
    /\ \A c \in Classes : \A i, j \in Positions(c) : pool[c][i] = pool[c][j] => i = j

HandlesInv ==
    /\ \A h \in Live : heap[buf[h]] = AllocSize(size[h]) /\ size[h] \in Requests
    /\ \A g, h \in Live : buf[g] = buf[h] => g = h
    /\ \A h \in Live : buf[h] \notin Pooled

IInv == /\ TypeOK /\ StacksInv /\ HandlesInv /\ NoLeak
        /\ CountedIfPooled /\ NothingLeft
-----------------------------------------------------------------------------
\* The size class of a request is as long as the request, and wastes less than a
\* kilobyte on it, or gives it at most 512 bytes.
THEOREM AllocSizeSound ==
    ASSUME NEW s \in Nat
    PROVE  /\ AllocSize(s) \in Nat /\ AllocSize(s) >= 256
           /\ AllocSize(s) >= s
           /\ AllocSize(s) <= 512 \/ AllocSize(s) < s + 1024
BY DEF AllocSize

\* Pool and handles name allocated blocks.
LEMMA NamedIsAllocated ==
    ASSUME TypeOK, StacksInv, HandlesInv
    PROVE  /\ \A b \in Pooled : heap[b] > 0
           /\ \A h \in Live : heap[buf[h]] > 0
<1>1. \A b \in Pooled : heap[b] > 0
  BY ClassesAssumption DEF Pooled, StacksInv, Positions
<1>2. \A h \in Live : heap[buf[h]] > 0
  <2> SUFFICES ASSUME NEW h \in Live PROVE heap[buf[h]] > 0
    OBVIOUS
  <2>1. size[h] \in Nat /\ heap[buf[h]] = AllocSize(size[h])
    BY RequestsAssumption DEF HandlesInv
  <2>2. AllocSize(size[h]) \in Nat /\ AllocSize(size[h]) >= 256
    BY <2>1, AllocSizeSound
  <2> QED BY <2>1, <2>2
<1> QED BY <1>1, <1>2

LEMMA PopFacts ==
    ASSUME NEW S, NEW s \in Seq(S), s # <<>>
    PROVE  /\ Len(s) \in Nat \ {0}
           /\ s[Len(s)] \in S
           /\ SubSeq(s, 1, Len(s) - 1) \in Seq(S)
           /\ Len(SubSeq(s, 1, Len(s) - 1)) = Len(s) - 1
           /\ \A i \in 1..(Len(s) - 1) : SubSeq(s, 1, Len(s) - 1)[i] = s[i]
<1>1. Len(s) \in Nat \ {0}
  BY EmptySeq
<1>2. s[Len(s)] \in S
  BY <1>1
<1>3. SubSeq(s, 1, Len(s) - 1) \in Seq(S)
  BY <1>1
<1>4. Len(SubSeq(s, 1, Len(s) - 1)) = Len(s) - 1
  <2>1. Len(s) - 1 \in Int /\ \A i \in 1..(Len(s) - 1) : s[i] \in S
    BY <1>1
  <2>2. Len(SubSeq(s, 1, Len(s) - 1))
           = IF 1 <= Len(s) - 1 THEN (Len(s) - 1) - 1 + 1 ELSE 0
    BY <2>1, SubSeqProperties
  <2>3. CASE Len(s) = 1
    BY <2>2, <2>3
  <2>4. CASE Len(s) > 1
    <3>1. 1 <= Len(s) - 1 /\ (Len(s) - 1) - 1 + 1 = Len(s) - 1
      BY <1>1, <2>4
    <3> QED BY <2>2, <3>1
  <2> QED BY <1>1, <2>3, <2>4
<1>5. \A i \in 1..(Len(s) - 1) : SubSeq(s, 1, Len(s) - 1)[i] = s[i]
  BY <1>1
<1> QED BY <1>1, <1>2, <1>3, <1>4, <1>5

LEMMA PushFacts ==
    ASSUME NEW S, NEW s \in Seq(S), NEW e \in S
    PROVE  /\ Len(s) \in Nat
           /\ Append(s, e) \in Seq(S)
           /\ Len(Append(s, e)) = Len(s) + 1
           /\ Append(s, e)[Len(s) + 1] = e
           /\ \A i \in 1..Len(s) : Append(s, e)[i] = s[i]
OBVIOUS

LEMMA InitIInv == Init => IInv
<1> SUFFICES ASSUME Init PROVE IInv
  OBVIOUS
<1>1. TypeOK
  <2>1. failed \in BOOLEAN /\ destroyed \in BOOLEAN
    BY DEF Init, InitPool
  <2>2. size \in [Handles -> Nat] /\ buf \in [Handles -> Bufs \cup {NoBuf}]
    BY DEF Init
  <2>3. /\ heap \in [Bufs -> Nat] /\ pool \in [Classes -> Seq(Bufs)]
        /\ pool_memory_size \in Nat
    BY DEF Init, InitPool
  <2> QED BY <2>1, <2>2, <2>3 DEF TypeOK
<1>2. Pooled = {} /\ Live = {} /\ StacksInv
  BY DEF Init, InitPool, Pooled, Live, StacksInv, Positions
<1>3. NoLeak /\ NothingLeft
  BY DEF Init, InitPool, NoLeak, NothingLeft
<1> QED BY <1>1, <1>2, <1>3 DEF IInv, HandlesInv, CountedIfPooled
-----------------------------------------------------------------------------
\* A hit takes b out of the stacks, and only b.
LEMMA PooledAfterHit ==
    ASSUME TypeOK, StacksInv, NEW c \in Classes, NEW b \in Bufs, AllocPooled(c, b)
    PROVE  /\ pool' \in [Classes -> Seq(Bufs)]
           /\ StacksInv'
           /\ b \in Pooled /\ heap[b] = c
           /\ Pooled' = Pooled \ {b}
<1> DEFINE n == Len(pool[c])
<1>1. /\ n \in Nat \ {0} /\ b = pool[c][n]
      /\ pool' = [pool EXCEPT ![c] = SubSeq(pool[c], 1, n - 1)]
      /\ SubSeq(pool[c], 1, n - 1) \in Seq(Bufs)
      /\ Len(SubSeq(pool[c], 1, n - 1)) = n - 1
      /\ \A i \in 1..(n - 1) : SubSeq(pool[c], 1, n - 1)[i] = pool[c][i]
  BY PopFacts DEF AllocPooled, Has, TypeOK
<1>2. heap' = heap
  BY DEF AllocPooled
<1> HIDE DEF n
<1>3. /\ pool' \in [Classes -> Seq(Bufs)]
      /\ Len(pool'[c]) = n - 1
      /\ \A i \in 1..(n - 1) : pool'[c][i] = pool[c][i]
      /\ \A d \in Classes \ {c} : pool'[d] = pool[d]
  BY <1>1 DEF TypeOK
<1>4. n = Len(pool[c]) /\ \A d \in Classes : Len(pool[d]) \in Nat
  BY DEF n, TypeOK
<1>5. \A d \in Classes : \A i \in Positions(d)' :
          i \in Positions(d) /\ pool'[d][i] = pool[d][i] /\ (d = c => i # n)
  BY <1>1, <1>3, <1>4 DEF Positions
<1>6. StacksInv'
  BY <1>2, <1>5 DEF StacksInv
<1>7. b \in Pooled /\ heap[b] = c
  BY <1>1, <1>4 DEF Pooled, StacksInv, Positions
<1>8. Pooled' \subseteq Pooled \ {b}
  <2> SUFFICES ASSUME NEW x \in Bufs, NEW d \in Classes, NEW i \in Positions(d)',
                      pool'[d][i] = x
               PROVE  x \in Pooled \ {b}
    BY DEF Pooled, Positions
  <2>1. i \in Positions(d) /\ pool[d][i] = x /\ (d = c => i # n)
    BY <1>5
  <2>2. n \in Positions(c) /\ pool[c][n] = b
    BY <1>1, <1>4 DEF Positions
  <2>3. x # b
    <3>1. CASE d = c
      BY <2>1, <2>2, <3>1 DEF StacksInv
    <3>2. CASE d # c
      BY <2>1, <2>2, <3>2 DEF StacksInv
    <3> QED BY <3>1, <3>2
  <2> QED BY <2>1, <2>3 DEF Pooled, Positions
<1>9. Pooled \ {b} \subseteq Pooled'
  <2> SUFFICES ASSUME NEW x \in Bufs, x # b, NEW d \in Classes, NEW i \in Positions(d),
                      pool[d][i] = x
               PROVE  x \in Pooled'
    BY DEF Pooled, Positions
  <2>1. i \in Positions(d)' /\ pool'[d][i] = x
    BY <1>1, <1>3, <1>4 DEF Positions
  <2> QED BY <2>1 DEF Pooled, Positions
<1> QED BY <1>3, <1>6, <1>7, <1>8, <1>9

\* free() puts b on a stack, and changes no other position.
LEMMA PooledAfterFree ==
    ASSUME TypeOK, StacksInv, NEW c \in Classes, NEW b \in Bufs, b \notin Pooled,
           heap[b] = c, SizeLimit > 0, Free(b, c)
    PROVE  /\ pool' \in [Classes -> Seq(Bufs)]
           /\ StacksInv'
           /\ Pooled' = Pooled \cup {b}
<1> DEFINE n == Len(pool[c])
<1>1. /\ n \in Nat
      /\ pool' = [pool EXCEPT ![c] = Append(pool[c], b)]
      /\ Append(pool[c], b) \in Seq(Bufs)
      /\ Len(Append(pool[c], b)) = n + 1
      /\ Append(pool[c], b)[n + 1] = b
      /\ \A i \in 1..n : Append(pool[c], b)[i] = pool[c][i]
  BY PushFacts DEF Free, TypeOK
<1>2. heap' = heap
  BY DEF Free
<1> HIDE DEF n
<1>3. /\ pool' \in [Classes -> Seq(Bufs)]
      /\ Len(pool'[c]) = n + 1
      /\ pool'[c][n + 1] = b
      /\ \A i \in 1..n : pool'[c][i] = pool[c][i]
      /\ \A d \in Classes \ {c} : pool'[d] = pool[d]
  BY <1>1 DEF TypeOK
<1>4. n = Len(pool[c]) /\ \A d \in Classes : Len(pool[d]) \in Nat
  BY DEF n, TypeOK
<1>5. \A d \in Classes : \A i \in Positions(d)' :
          \/ i \in Positions(d) /\ pool'[d][i] = pool[d][i]
          \/ d = c /\ i = n + 1 /\ pool'[d][i] = b
  BY <1>1, <1>3, <1>4 DEF Positions
<1>6. \A d \in Classes : \A i \in Positions(d) : pool[d][i] # b
  BY DEF Pooled, Positions
<1>7. StacksInv'
  BY <1>2, <1>5, <1>6 DEF StacksInv
<1>8. Pooled' \subseteq Pooled \cup {b}
  <2> SUFFICES ASSUME NEW x \in Bufs, NEW d \in Classes, NEW i \in Positions(d)',
                      pool'[d][i] = x
               PROVE  x \in Pooled \cup {b}
    BY DEF Pooled, Positions
  <2> QED BY <1>5 DEF Pooled, Positions
<1>9. Pooled \subseteq Pooled'
  <2> SUFFICES ASSUME NEW x \in Bufs, NEW d \in Classes, NEW i \in Positions(d),
                      pool[d][i] = x
               PROVE  x \in Pooled'
    BY DEF Pooled, Positions
  <2>1. i \in Positions(d)' /\ pool'[d][i] = x
    BY <1>1, <1>3, <1>4 DEF Positions
  <2> QED BY <2>1 DEF Pooled, Positions
<1>10. b \in Pooled'
  <2>1. n + 1 \in Positions(c)'
    BY <1>1, <1>3 DEF Positions
  <2> QED BY <1>3, <2>1 DEF Pooled, Positions
<1> QED BY <1>3, <1>7, <1>8, <1>9, <1>10

\* With the stacks empty nothing is pooled.
LEMMA PooledWhenCleared ==
    ASSUME pool' = [c \in Classes |-> <<>>]
    PROVE  pool' \in [Classes -> Seq(Bufs)] /\ StacksInv' /\ Pooled' = {}
BY DEF StacksInv, Positions, Pooled
-----------------------------------------------------------------------------
(* One lemma for each way an operation can go. *)

\* A handle is constructed on b, no matter where b comes from.
LEMMA HandlesAfterCreate ==
    ASSUME TypeOK, HandlesInv, NEW h \in Handles, h \notin Live, NEW s \in Requests,
           NEW b \in Bufs,
           buf' = [buf EXCEPT ![h] = b], size' = [size EXCEPT ![h] = s],
           heap'[b] = AllocSize(s), b \notin Pooled',
           \A g \in Live : /\ buf[g] # b /\ buf[g] \notin Pooled'
                           /\ heap'[buf[g]] = heap[buf[g]]
    PROVE  HandlesInv' /\ Live' = Live \cup {h}
<1>1. Live' = Live \cup {h}
  BY NoBufAssumption DEF Live, TypeOK
<1>2. \A g \in Live : buf'[g] = buf[g] /\ size'[g] = size[g]
  BY DEF Live, TypeOK
<1>3. buf'[h] = b /\ size'[h] = s
  BY DEF TypeOK
<1> QED BY <1>1, <1>2, <1>3 DEF HandlesInv

LEMMA CreateHit ==
    ASSUME IInv, MayRun, NEW h \in Handles, h \notin Live, NEW s \in Requests,
           NEW b \in Bufs, AllocPooled(AllocSize(s), b),
           buf' = [buf EXCEPT ![h] = b], size' = [size EXCEPT ![h] = s]
    PROVE  IInv'
<1> DEFINE c == AllocSize(s)
<1>0. /\ TypeOK /\ StacksInv /\ HandlesInv /\ NoLeak /\ c \in Classes /\ c \in Nat \ {0}
      /\ s \in Nat
  BY ClassesCover, ClassesAssumption, RequestsAssumption DEF IInv
<1>1. AllocPooled(c, b)
  OBVIOUS
<1> HIDE DEF c
<1>2. /\ pool' \in [Classes -> Seq(Bufs)] /\ StacksInv'
      /\ b \in Pooled /\ heap[b] = c /\ Pooled' = Pooled \ {b}
  BY <1>0, <1>1, PooledAfterHit
<1>3. UNCHANGED <<heap, failed, destroyed>> /\ pool_memory_size' = c
  BY <1>1 DEF AllocPooled
<1>4. TypeOK'
  BY <1>0, <1>2, <1>3 DEF TypeOK
<1>5. HandlesInv' /\ Live' = Live \cup {h}
  <2>1. heap'[b] = AllocSize(s)
    BY <1>2, <1>3 DEF c
  <2>2. \A g \in Live : buf[g] # b /\ buf[g] \notin Pooled'
    BY <1>0, <1>2 DEF HandlesInv
  <2> QED BY <1>0, <1>2, <1>3, <2>1, <2>2, HandlesAfterCreate
<1>6. NoLeak'
  <2>1. buf'[h] = b /\ \A g \in Live : buf'[g] = buf[g]
    BY <1>0 DEF TypeOK, Live
  <2> QED BY <1>0, <1>2, <1>3, <1>5, <2>1 DEF NoLeak
<1>7. CountedIfPooled' /\ NothingLeft'
  BY <1>0, <1>3 DEF CountedIfPooled, NothingLeft, MayRun
<1> QED BY <1>2, <1>4, <1>5, <1>6, <1>7 DEF IInv

LEMMA CreateMiss ==
    ASSUME IInv, MayRun, NEW h \in Handles, h \notin Live, NEW s \in Requests,
           NEW b \in Bufs, AllocSystem(AllocSize(s), b),
           buf' = [buf EXCEPT ![h] = b], size' = [size EXCEPT ![h] = s]
    PROVE  IInv'
<1> DEFINE c == AllocSize(s)
<1>0. /\ TypeOK /\ StacksInv /\ HandlesInv /\ NoLeak /\ CountedIfPooled
      /\ c \in Classes /\ c \in Nat \ {0} /\ s \in Nat
  BY ClassesCover, ClassesAssumption, RequestsAssumption DEF IInv
<1>1. /\ heap[b] = 0 \/ b \in Purged
      /\ heap' = [x \in Bufs |-> IF x = b THEN c ELSE IF x \in Purged THEN 0 ELSE heap[x]]
      /\ pool' = [d \in Classes |-> IF Purges THEN <<>> ELSE pool[d]]
      /\ pool_memory_size' = IF Purges THEN 0 ELSE pool_memory_size
      /\ UNCHANGED <<failed, destroyed>>
  BY DEF AllocSystem, TakeBlock
<1>2. c = AllocSize(s)
  OBVIOUS
<1> HIDE DEF c
<1>3. Purged \in {{}, Pooled} /\ Purged \subseteq Pooled
  BY DEF Purged
\* What is pooled afterwards is neither b nor a freed block.
<1>4. /\ pool' \in [Classes -> Seq(Bufs)] /\ StacksInv'
      /\ Pooled' = Pooled \ Purged /\ b \notin Pooled'
  <2>1. CASE Purges
    <3>1. pool' = [d \in Classes |-> <<>>]
      BY <1>1, <2>1
    <3> QED BY <2>1, <3>1, PooledWhenCleared DEF Purged
  <2>2. CASE ~Purges
    <3>1. Purged = {} /\ pool' = pool /\ heap[b] = 0
      BY <1>0, <1>1, <2>2 DEF Purged, TypeOK
    <3>2. Pooled' = Pooled /\ b \notin Pooled
      BY <1>0, <3>1, NamedIsAllocated DEF Pooled
    <3>3. \A x \in Pooled : heap'[x] = heap[x]
      BY <1>1, <3>1, <3>2 DEF Pooled
    <3>4. StacksInv'
      <4>1. \A d \in Classes : \A i \in Positions(d) : pool[d][i] \in Pooled
        <5>1. \A d \in Classes : \A i \in Positions(d) : pool[d][i] \in Bufs
          BY <1>0 DEF TypeOK, Positions
        <5> QED BY <5>1 DEF Pooled, Positions
      <4> QED BY <1>0, <3>1, <3>3, <4>1 DEF StacksInv, Positions
    <3> QED BY <1>0, <3>1, <3>2, <3>4 DEF TypeOK
  <2> QED BY <2>1, <2>2
<1>5. TypeOK'
  BY <1>0, <1>1, <1>4 DEF TypeOK
<1>6. \A g \in Live : buf[g] # b /\ buf[g] \notin Pooled /\ buf[g] \in Bufs
  BY <1>0, <1>1, <1>3, NamedIsAllocated DEF HandlesInv, Live, TypeOK
<1>7. HandlesInv' /\ Live' = Live \cup {h}
  <2>1. heap'[b] = AllocSize(s)
    BY <1>1, <1>2
  <2>2. \A g \in Live : buf[g] \notin Pooled' /\ heap'[buf[g]] = heap[buf[g]]
    BY <1>1, <1>3, <1>4, <1>6
  <2> QED BY <1>0, <1>4, <1>6, <2>1, <2>2, HandlesAfterCreate
<1>8. NoLeak'
  <2>1. buf'[h] = b /\ \A g \in Live : buf'[g] = buf[g]
    BY <1>0 DEF TypeOK, Live
  <2> SUFFICES ASSUME NEW x \in Bufs, heap'[x] > 0
               PROVE  x \in Pooled' \/ \E g \in Live' : buf'[g] = x
    BY DEF NoLeak
  <2>2. CASE x = b
    BY <1>7, <2>1, <2>2
  <2>3. CASE x # b
    <3>1. x \notin Purged /\ heap[x] > 0
      BY <1>1, <2>3
    <3> QED BY <1>0, <1>4, <1>7, <2>1, <3>1 DEF NoLeak
  <2> QED BY <2>2, <2>3
<1>9. CountedIfPooled'
  <2>1. CASE Purges
    BY <1>4, <2>1 DEF CountedIfPooled, Purged
  <2>2. CASE ~Purges
    BY <1>0, <1>1, <1>4, <2>2 DEF CountedIfPooled, Purged
  <2> QED BY <2>1, <2>2
<1>10. NothingLeft'
  BY <1>1 DEF NothingLeft, MayRun
<1> QED BY <1>4, <1>5, <1>7, <1>8, <1>9, <1>10 DEF IInv

LEMMA CreateFails ==
    ASSUME IInv, MayRun, NEW h \in Handles, h \notin Live, NEW s \in Requests,
           AllocFails(AllocSize(s)), UNCHANGED buf, size' = [size EXCEPT ![h] = s]
    PROVE  IInv'
<1>0. /\ TypeOK /\ StacksInv /\ HandlesInv /\ NoLeak /\ CountedIfPooled /\ s \in Nat
  BY RequestsAssumption DEF IInv
<1>1. Live' = Live /\ \A g \in Live : buf'[g] = buf[g] /\ size'[g] = size[g]
  BY <1>0 DEF Live, TypeOK
<1>2. failed' = TRUE /\ destroyed' = destroyed /\ ~destroyed
  BY DEF AllocFails, MayRun
<1>3. NothingLeft'
  BY <1>2 DEF NothingLeft
<1>4. CASE Purges
  <2>1. /\ heap' = [b \in Bufs |-> IF b \in Pooled THEN 0 ELSE heap[b]]
        /\ pool' = [c \in Classes |-> <<>>] /\ pool_memory_size' = 0
    BY <1>4 DEF AllocFails, FreeAll
  <2>2. pool' \in [Classes -> Seq(Bufs)] /\ StacksInv' /\ Pooled' = {}
    BY <2>1, PooledWhenCleared
  <2>3. TypeOK'
    <3>1. destroyed \in BOOLEAN
      BY <1>0 DEF TypeOK
    <3>2. failed' \in BOOLEAN /\ destroyed' \in BOOLEAN
      BY <1>2, <3>1
    <3> QED BY <1>0, <2>1, <2>2, <3>2 DEF TypeOK
  <2>4. \A g \in Live : buf[g] \in Bufs /\ heap'[buf[g]] = heap[buf[g]]
    BY <1>0, <2>1 DEF HandlesInv, Live, TypeOK
  <2>5. HandlesInv'
    BY <1>0, <1>1, <2>2, <2>4 DEF HandlesInv
  <2>6. NoLeak'
    BY <1>0, <1>1, <2>1 DEF NoLeak
  <2> QED BY <1>3, <2>2, <2>3, <2>5, <2>6 DEF IInv, CountedIfPooled
<1>5. CASE ~Purges
  <2>1. UNCHANGED <<heap, pool, pool_memory_size>>
    BY <1>5 DEF AllocFails
  <2>2. Pooled' = Pooled /\ StacksInv'
    BY <1>0, <2>1 DEF Pooled, StacksInv, Positions
  <2>3. TypeOK'
    <3>1. destroyed \in BOOLEAN
      BY <1>0 DEF TypeOK
    <3>2. failed' \in BOOLEAN /\ destroyed' \in BOOLEAN
      BY <1>2, <3>1
    <3> QED BY <1>0, <2>1, <3>2 DEF TypeOK
  <2>4. HandlesInv'
    BY <1>0, <1>1, <2>1, <2>2 DEF HandlesInv
  <2>5. NoLeak' /\ CountedIfPooled'
    BY <1>0, <1>1, <2>1, <2>2 DEF NoLeak, CountedIfPooled
  <2> QED BY <1>3, <2>2, <2>3, <2>4, <2>5 DEF IInv
<1> QED BY <1>4, <1>5

LEMMA CreateStep ==
    ASSUME IInv, NEW h \in Handles, NEW s \in Requests, Create(h, s)
    PROVE  IInv'
BY CreateHit, CreateMiss, CreateFails DEF Create

LEMMA DestroyStep == ASSUME IInv, NEW h \in Handles, Destroy(h) PROVE IInv'
<1> DEFINE b == buf[h]
           c == AllocSize(size[h])
<1>0. /\ TypeOK /\ StacksInv /\ HandlesInv /\ NoLeak /\ CountedIfPooled
      /\ h \in Live /\ b \in Bufs /\ b \notin Pooled /\ heap[b] = c
      /\ c \in Classes /\ c \in Nat \ {0}
  BY ClassesCover, ClassesAssumption DEF IInv, Destroy, HandlesInv, Live, TypeOK
<1>1. Free(b, c) /\ b = buf[h]
  BY DEF Destroy
<1> HIDE DEF b, c
<1>2. /\ Live' = Live \ {h} /\ size' = size
      /\ \A g \in Live' : buf'[g] = buf[g] /\ g # h
      /\ buf' \in [Handles -> Bufs \cup {NoBuf}]
  BY <1>0 DEF Destroy, Live, TypeOK
<1>3. UNCHANGED <<failed, destroyed>> /\ ~destroyed
  BY <1>1 DEF Free, Destroy, MayRun
<1>4. NothingLeft'
  BY <1>3 DEF NothingLeft
<1>5. \A g \in Live' : buf[g] # b
  BY <1>0, <1>1, <1>2 DEF HandlesInv
<1>6. CASE SizeLimit > 0
  <2>1. /\ pool' \in [Classes -> Seq(Bufs)] /\ StacksInv' /\ Pooled' = Pooled \cup {b}
    BY <1>0, <1>1, <1>6, PooledAfterFree
  <2>2. UNCHANGED heap /\ pool_memory_size' = pool_memory_size + c
    BY <1>1, <1>6 DEF Free
  <2>3. TypeOK'
    BY <1>0, <1>2, <1>3, <2>1, <2>2 DEF TypeOK
  <2>4. HandlesInv'
    BY <1>0, <1>2, <1>5, <2>1, <2>2 DEF HandlesInv
  <2>5. NoLeak'
    BY <1>0, <1>1, <1>2, <2>1, <2>2 DEF NoLeak
  <2>6. CountedIfPooled'
    BY <1>0, <2>2 DEF CountedIfPooled, TypeOK
  <2> QED BY <1>4, <2>1, <2>3, <2>4, <2>5, <2>6 DEF IInv
<1>7. CASE ~(SizeLimit > 0)
  <2>1. heap' = [heap EXCEPT ![b] = 0] /\ UNCHANGED <<pool, pool_memory_size>>
    BY <1>1, <1>7 DEF Free
  <2>2. Pooled' = Pooled
    BY <2>1 DEF Pooled
  <2>3. \A d \in Classes : \A i \in Positions(d) : pool[d][i] \in Bufs /\ pool[d][i] # b
    <3>1. \A d \in Classes : \A i \in Positions(d) : pool[d][i] \in Bufs
      BY <1>0 DEF TypeOK, Positions
    <3> QED BY <1>0, <3>1 DEF Pooled, Positions
  <2>4. StacksInv'
    BY <1>0, <2>1, <2>3 DEF StacksInv, Positions, TypeOK
  <2>5. TypeOK'
    BY <1>0, <1>2, <1>3, <2>1 DEF TypeOK
  <2>6. HandlesInv'
    <3>1. \A g \in Live' : heap'[buf[g]] = heap[buf[g]]
      BY <1>0, <1>2, <1>5, <2>1 DEF Live, TypeOK
    <3> QED BY <1>0, <1>2, <2>2, <3>1 DEF HandlesInv
  <2>7. NoLeak'
    BY <1>0, <1>1, <1>2, <2>1, <2>2 DEF NoLeak, TypeOK
  <2>8. CountedIfPooled'
    BY <1>0, <2>1, <2>2 DEF CountedIfPooled
  <2> QED BY <1>4, <2>4, <2>5, <2>6, <2>7, <2>8 DEF IInv
<1> QED BY <1>6, <1>7

LEMMA DestroyEngineStep == ASSUME IInv, DestroyEngine PROVE IInv'
<1>0. TypeOK /\ NoLeak /\ Live = {}
  BY DEF IInv, DestroyEngine
<1>1. /\ heap' = [b \in Bufs |-> IF b \in Pooled THEN 0 ELSE heap[b]]
      /\ pool' = [c \in Classes |-> <<>>] /\ pool_memory_size' = 0
      /\ destroyed' = TRUE /\ UNCHANGED <<failed, size, buf>>
  BY DEF DestroyEngine, DestroyPool, FreeAll
<1>2. pool' \in [Classes -> Seq(Bufs)] /\ StacksInv' /\ Pooled' = {}
  BY <1>1, PooledWhenCleared
<1>3. \A b \in Bufs : heap'[b] = 0
  BY <1>0, <1>1 DEF NoLeak, TypeOK
<1>4. Live' = {}
  BY <1>0, <1>1 DEF Live
<1>5. TypeOK'
  <2>1. failed' \in BOOLEAN /\ destroyed' \in BOOLEAN
    BY <1>0, <1>1 DEF TypeOK
  <2> QED BY <1>0, <1>1, <1>2, <2>1 DEF TypeOK
<1> QED BY <1>2, <1>3, <1>4, <1>5
        DEF IInv, HandlesInv, NoLeak, CountedIfPooled, NothingLeft

LEMMA NextIInv == IInv /\ [Next]_vars => IInv'
<1>1. ASSUME IInv, UNCHANGED vars PROVE IInv'
  BY <1>1 DEF vars, IInv, TypeOK, StacksInv, Positions, HandlesInv, Live, Pooled,
     NoLeak, CountedIfPooled, NothingLeft
<1>2. ASSUME IInv, Next PROVE IInv'
  BY <1>2, CreateStep, DestroyStep, DestroyEngineStep DEF Next
<1> QED BY <1>1, <1>2

THEOREM Inductive == Spec => []IInv
BY InitIInv, NextIInv, PTL DEF Spec
-----------------------------------------------------------------------------
\* Every variable keeps its type.
THEOREM TypeCorrect == Spec => []TypeOK
<1>1. IInv => TypeOK
  BY DEF IInv
<1> QED BY <1>1, Inductive, PTL

\* No two owners share a buffer.
THEOREM OneOwner == Spec => []NoSharedBuffer
<1>1. IInv => NoSharedBuffer
  BY DEF IInv, HandlesInv, StacksInv, Positions, NoSharedBuffer
<1> QED BY <1>1, Inductive, PTL

\* The memory under a handle is allocated and long enough, whether it is fresh or
\* comes from the pool.
THEOREM HandlesHaveRoom == Spec => []BlocksFit
<1>1. IInv => BlocksFit
  <2> SUFFICES ASSUME IInv PROVE BlocksFit
    OBVIOUS
  <2>1. ASSUME NEW h \in Live PROVE heap[buf[h]] >= size[h] /\ heap[buf[h]] > 0
    <3>1. size[h] \in Nat /\ heap[buf[h]] = AllocSize(size[h])
      BY RequestsAssumption DEF IInv, HandlesInv
    <3>2. /\ AllocSize(size[h]) \in Nat /\ AllocSize(size[h]) >= 256
          /\ AllocSize(size[h]) >= size[h]
      BY <3>1, AllocSizeSound
    <3> QED BY <3>1, <3>2
  <2>2. \A c \in Classes : \A i \in 1..Len(pool[c]) : heap[pool[c][i]] = c
    BY DEF IInv, StacksInv, Positions
  <2> QED BY <2>1, <2>2 DEF BlocksFit
<1> QED BY <1>1, Inductive, PTL

\* Nothing is lost while the engine lives, and nothing is left when it has gone.
THEOREM MemoryComesBack == Spec => [](NoLeak /\ NothingLeft)
<1>1. IInv => NoLeak /\ NothingLeft
  BY DEF IInv
<1> QED BY <1>1, Inductive, PTL

\* A counter of zero means an empty pool.
THEOREM ZeroMeansEmpty == Spec => []CountedIfPooled
<1>1. IInv => CountedIfPooled
  BY DEF IInv
<1> QED BY <1>1, Inductive, PTL
-----------------------------------------------------------------------------
(* A sum of sizes is the number of cells: w[c] of them in each column c.  *)

Column(w, c) == {c} \X (1..w[c])
Cells(w, s) == UNION {Column(w, c) : c \in s}

\* A column is finite, and so are the cells.
LEMMA ColumnFacts ==
    ASSUME NEW C, NEW w \in [C -> Nat], NEW c \in C
    PROVE  IsFiniteSet(Column(w, c)) /\ Cardinality(Column(w, c)) = w[c]
<1>1. PICK n \in Nat : n = w[c]
  OBVIOUS
<1>2. IsFiniteSet(1..n) /\ Cardinality(1..n) = n
  <2>1. IsFiniteSet(1..n) /\ Cardinality(1..n) = IF 1 > n THEN 0 ELSE n - 1 + 1
    BY FS_Interval
  <2> QED BY <2>1
<1>3. IsFiniteSet({c}) /\ Cardinality({c}) = 1
  BY FS_Singleton
<1>4. /\ IsFiniteSet({c} \X (1..n))
      /\ Cardinality({c} \X (1..n)) = Cardinality({c}) * Cardinality(1..n)
  BY <1>2, <1>3, FS_Product, Zenon
<1>5. Cardinality({c} \X (1..n)) = n
  BY <1>2, <1>3, <1>4
<1> QED BY <1>1, <1>4, <1>5 DEF Column

LEMMA CellsFinite ==
    ASSUME NEW C, IsFiniteSet(C), NEW w \in [C -> Nat], NEW s \in SUBSET C
    PROVE  IsFiniteSet(Cells(w, s)) /\ Cardinality(Cells(w, s)) \in Nat
<1>1. IsFiniteSet(s)
  BY FS_Subset
<1>2. IsFiniteSet({Column(w, c) : c \in s})
  <2> DEFINE f == [c \in s |-> Column(w, c)]
  <2>1. f \in Surjection(s, {Column(w, c) : c \in s})
    BY DEF Surjection
  <2> HIDE DEF f
  <2> QED BY <1>1, <2>1, FS_Surjection, Zenon
<1>3. \A T \in {Column(w, c) : c \in s} : IsFiniteSet(T)
  BY ColumnFacts
<1>4. IsFiniteSet(Cells(w, s))
  BY <1>2, <1>3, FS_UNION, Zenon DEF Cells
<1> QED BY <1>4, FS_CardinalityType

\* A column more has its cells more.
LEMMA OneColumnMore ==
    ASSUME NEW C, IsFiniteSet(C), NEW w \in [C -> Nat], NEW s \in SUBSET C, NEW x \in s
    PROVE  Cardinality(Cells(w, s)) = w[x] + Cardinality(Cells(w, s \ {x}))
<1>1. Cells(w, s) = Column(w, x) \cup Cells(w, s \ {x})
  BY DEF Cells
<1>2. Column(w, x) \cap Cells(w, s \ {x}) = {}
  BY DEF Cells, Column
<1>3. PICK P, Q : P = Column(w, x) /\ Q = Cells(w, s \ {x})
  OBVIOUS
<1>4. IsFiniteSet(P) /\ Cardinality(P) = w[x] /\ w[x] \in Nat
  BY <1>3, ColumnFacts
<1>5. IsFiniteSet(Q) /\ Cardinality(Q) \in Nat
  BY <1>3, CellsFinite
<1>6. Cardinality(P \cup Q) = Cardinality(P) + Cardinality(Q) - Cardinality(P \cap Q)
  BY <1>4, <1>5, FS_Union
<1>7. Cardinality(P \cap Q) = 0
  BY <1>2, <1>3, FS_EmptySet
<1> QED BY <1>1, <1>3, <1>4, <1>5, <1>6, <1>7

\* What a sum over a set is for each of its subsets, one element after the other.
FirstOf(s) == CHOOSE x \in s : TRUE
AddsUp(g, w, C) ==
    g = [s \in SUBSET C |-> IF s = {} THEN 0 ELSE w[FirstOf(s)] + g[s \ {FirstOf(s)}]]

LEMMA CellsAddUp ==
    ASSUME NEW C, IsFiniteSet(C), NEW w \in [C -> Nat]
    PROVE  AddsUp([s \in SUBSET C |-> Cardinality(Cells(w, s))], w, C)
<1> DEFINE g == [s \in SUBSET C |-> Cardinality(Cells(w, s))]
<1>1. ASSUME NEW s \in SUBSET C
      PROVE  g[s] = IF s = {} THEN 0 ELSE w[FirstOf(s)] + g[s \ {FirstOf(s)}]
  <2>1. CASE s = {}
    <3>1. Cells(w, s) = {}
      BY <2>1 DEF Cells
    <3> QED BY <2>1, <3>1, FS_EmptySet
  <2>2. CASE s # {}
    <3>1. FirstOf(s) \in s
      BY <2>2 DEF FirstOf
    <3>2. PICK x \in s : x = FirstOf(s)
      BY <3>1
    <3>3. Cardinality(Cells(w, s)) = w[x] + Cardinality(Cells(w, s \ {x}))
      BY OneColumnMore
    <3>4. s \ {x} \in SUBSET C
      OBVIOUS
    <3>5. g[s] = w[x] + g[s \ {x}]
      BY <3>3, <3>4
    <3> HIDE DEF g
    <3> QED BY <2>2, <3>2, <3>5
  <2> QED BY <2>1, <2>2
<1>2. g = [s \in SUBSET C |-> g[s]]
  OBVIOUS
<1> HIDE DEF g
<1>3. AddsUp(g, w, C)
  BY <1>1, <1>2 DEF AddsUp
<1> QED BY <1>3 DEF g

\* Whatever adds up counts the cells: there is no least set for which it does not.
LEMMA AddedUpIsCells ==
    ASSUME NEW C, IsFiniteSet(C), NEW w \in [C -> Nat], NEW g, AddsUp(g, w, C)
    PROVE  g[C] = Cardinality(Cells(w, C))
<1> DEFINE T == {s \in SUBSET C : g[s] # Cardinality(Cells(w, s))}
<1>1. ASSUME NEW s \in SUBSET C
      PROVE  g[s] = IF s = {} THEN 0 ELSE w[FirstOf(s)] + g[s \ {FirstOf(s)}]
  BY DEF AddsUp
<1>2. ASSUME T # {} PROVE FALSE
  <2>1. T \subseteq FiniteSubsetsOf(C)
    BY FS_FiniteSubsetsOfFinite
  <2>2. IsWellFoundedOn(StrictSubsetOrdering(C), FiniteSubsetsOf(C))
    BY FS_StrictSubsetOrderingWellFounded
  <2>3. PICK m \in T : \A y \in T : ~(<<y, m>> \in StrictSubsetOrdering(C))
    <3> HIDE DEF T
    <3> QED BY <1>2, <2>1, <2>2, WFMin, Zenon
  <2>4. m # {}
    <3>1. ASSUME m = {} PROVE FALSE
      <4>1. Cells(w, m) = {}
        BY <3>1 DEF Cells
      <4>2. g[m] = 0
        BY <1>1, <3>1
      <4> QED BY <4>1, <4>2, FS_EmptySet
    <3> QED BY <3>1
  <2>5. FirstOf(m) \in m
    BY <2>4 DEF FirstOf
  <2>6. PICK x \in m : x = FirstOf(m)
    BY <2>5
  <2>7. PICK r \in SUBSET C : r = m \ {x}
    OBVIOUS
  <2>8. g[r] = Cardinality(Cells(w, r))
    <3>1. <<r, m>> \in StrictSubsetOrdering(C)
      BY <2>7 DEF StrictSubsetOrdering
    <3> QED BY <2>3, <3>1
  <2>9. g[m] = w[x] + g[r]
    BY <1>1, <2>4, <2>6, <2>7
  <2>10. Cardinality(Cells(w, m)) = w[x] + Cardinality(Cells(w, r))
    BY <2>7, OneColumnMore
  <2> QED BY <2>8, <2>9, <2>10
<1> QED BY <1>2

\* So a sum is the number of cells.
LEMMA SumIsCells ==
    ASSUME NEW C, IsFiniteSet(C), NEW w \in [C -> Nat]
    PROVE  SumFunction(w) = Cardinality(Cells(w, C))
<1> DEFINE G == CHOOSE g : AddsUp(g, w, C)
<1>1. AddsUp(G, w, C)
  BY CellsAddUp
<1>2. SumFunction(w) = G[C]
  <2>1. DOMAIN w = C
    OBVIOUS
  <2> QED BY <2>1 DEF SumFunction, SumFunctionOnSet, FoldFunctionOnSet, MapThenFoldSet,
                      AddsUp, FirstOf
<1> HIDE DEF G
<1> QED BY <1>1, <1>2, AddedUpIsCells

\* Where one term grows, so does the sum.
GrowsAt(C, v, w, c, n) == w[c] = v[c] + n /\ \A d \in C \ {c} : w[d] = v[d]

LEMMA SumGrows ==
    ASSUME NEW C, IsFiniteSet(C), NEW v \in [C -> Nat], NEW w \in [C -> Nat],
           NEW c \in C, NEW n \in Nat, GrowsAt(C, v, w, c, n)
    PROVE  SumFunction(w) = SumFunction(v) + n
<1>1. C \in SUBSET C /\ C \ {c} \in SUBSET C
  OBVIOUS
<1>2. Cells(w, C \ {c}) = Cells(v, C \ {c})
  BY DEF Cells, Column, GrowsAt
<1>3. PICK m \in Nat : m = Cardinality(Cells(v, C \ {c}))
  BY <1>1, CellsFinite
<1>4. Cardinality(Cells(v, C)) = v[c] + m
  BY <1>1, <1>3, OneColumnMore
<1>5. Cardinality(Cells(w, C)) = w[c] + m
  BY <1>1, <1>2, <1>3, OneColumnMore
<1>6. SumFunction(v) = Cardinality(Cells(v, C)) /\ SumFunction(w) = Cardinality(Cells(w, C))
  BY SumIsCells
<1>7. v[c] \in Nat /\ w[c] = v[c] + n
  BY DEF GrowsAt
<1> QED BY <1>3, <1>4, <1>5, <1>6, <1>7

\* Where there is nothing, it is 0.
LEMMA SumOfNothing ==
    ASSUME NEW C, IsFiniteSet(C), NEW w \in [C -> Nat], \A c \in C : w[c] = 0
    PROVE  SumFunction(w) = 0
<1>1. Cells(w, C) = {}
  BY DEF Cells, Column
<1> QED BY <1>1, SumIsCells, FS_EmptySet
-----------------------------------------------------------------------------
(* The counter of the pool.                                               *)

\* The stacks have as many bytes as their sizes say.
LEMMA BytesOfType ==
    ASSUME pool \in [Classes -> Seq(Bufs)]
    PROVE  BytesOf \in [Classes -> Nat]
<1>1. ASSUME NEW c \in Classes PROVE c * Len(pool[c]) \in Nat
  <2>1. c \in Nat /\ Len(pool[c]) \in Nat
    BY ClassesAssumption
  <2> QED BY <2>1
<1> QED BY <1>1 DEF BytesOf

\* An empty pool has none of them.
LEMMA EmptyPoolIsExact ==
    ASSUME pool' = [c \in Classes |-> <<>>], pool_memory_size' = 0
    PROVE  Exact'
<1>1. PICK w : w = BytesOf'
  OBVIOUS
<1>2. w \in [Classes -> Nat] /\ \A c \in Classes : w[c] = 0
  <2>1. \A c \in Classes : c * Len(<<>>) = 0
    BY ClassesAssumption
  <2> QED BY <1>1, <2>1 DEF BytesOf
<1>3. SumFunction(w) = 0
  BY <1>2, ClassesFinite, SumOfNothing
<1> QED BY <1>1, <1>3 DEF Exact, PooledBytes

\* What changes neither the stacks nor the counter leaves it as exact as it was.
LEMMA SameIsAsExact ==
    ASSUME Exact, pool' = pool, pool_memory_size' = pool_memory_size
    PROVE  Exact'
BY DEF Exact, PooledBytes, BytesOf

\* A buffer that is retained is counted with its size.
LEMMA FreeIsExact ==
    ASSUME TypeOK, Exact, NEW b \in Bufs, NEW c \in Classes, Free(b, c)
    PROVE  Exact'
<1>1. CASE SizeLimit > 0
  <2>1. pool' = [pool EXCEPT ![c] = Append(@, b)] /\ pool_memory_size' = pool_memory_size + c
    BY <1>1 DEF Free
  <2>2. /\ pool \in [Classes -> Seq(Bufs)] /\ pool' \in [Classes -> Seq(Bufs)]
        /\ Len(pool'[c]) = Len(pool[c]) + 1 /\ Len(pool[c]) \in Nat
        /\ \A d \in Classes \ {c} : pool'[d] = pool[d]
    BY <2>1 DEF TypeOK
  <2>3. BytesOf \in [Classes -> Nat]
    BY <2>2, BytesOfType
  <2>4. BytesOf' \in [Classes -> Nat]
    <3>1. ASSUME NEW d \in Classes PROVE d * Len(pool'[d]) \in Nat
      <4>1. d \in Nat /\ Len(pool'[d]) \in Nat
        BY <2>2, ClassesAssumption
      <4> QED BY <4>1
    <3> QED BY <3>1 DEF BytesOf
  <2>5. PICK v \in [Classes -> Nat], w \in [Classes -> Nat] : v = BytesOf /\ w = BytesOf'
    BY <2>3, <2>4
  <2>6. c \in Nat /\ w[c] = v[c] + c
    <3>1. w[c] = c * Len(pool'[c]) /\ v[c] = c * Len(pool[c])
      BY <2>5 DEF BytesOf
    <3>2. PICK n \in Nat : n = Len(pool[c])
      BY <2>2
    <3>3. c \in Nat /\ c * (n + 1) = c * n + c
      BY ClassesAssumption
    <3> QED BY <2>2, <3>1, <3>2, <3>3
  <2>7. \A d \in Classes \ {c} : w[d] = v[d]
    BY <2>2, <2>5 DEF BytesOf
  <2>8. SumFunction(w) = SumFunction(v) + c
    <3>1. GrowsAt(Classes, v, w, c, c)
      BY <2>6, <2>7 DEF GrowsAt
    <3> QED BY <2>6, <3>1, ClassesFinite, SumGrows
  <2> QED BY <2>1, <2>5, <2>8 DEF Exact, PooledBytes
<1>2. CASE ~(SizeLimit > 0)
  BY <1>2, SameIsAsExact DEF Free
<1> QED BY <1>1, <1>2

\* The counter starts to differ from the bytes in the pool only where alloc takes a buffer from
\* it and overwrites the counter with that buffer's size (PoolAllocator.cpp:38).
THEOREM DriftsOnlyByReuseHolds == Spec => DriftsOnlyByReuse
<1> DEFINE Hit == \E c \in Classes : Len(pool'[c]) < Len(pool[c]) /\ pool_memory_size' = c
<1>1. ASSUME IInv, Exact, NEW h \in Handles, NEW s \in Requests, Create(h, s) PROVE Exact' \/ Hit
  <2>1. PICK c \in Classes : c = AllocSize(s)
    BY ClassesCover
  <2>2. ASSUME NEW b \in Bufs, AllocPooled(c, b) PROVE Hit
    <3>1. pool \in [Classes -> Seq(Bufs)] /\ pool[c] \in Seq(Bufs) /\ pool[c] # <<>>
      BY <1>1, <2>2 DEF IInv, TypeOK, AllocPooled, Has
    <3>2. /\ pool' = [pool EXCEPT ![c] = SubSeq(pool[c], 1, Len(pool[c]) - 1)]
          /\ pool_memory_size' = c
      BY <2>2 DEF AllocPooled
    <3>3. Len(SubSeq(pool[c], 1, Len(pool[c]) - 1)) = Len(pool[c]) - 1 /\ Len(pool[c]) \in Nat
      BY <3>1, PopFacts
    <3>4. Len(pool'[c]) < Len(pool[c])
      BY <3>1, <3>2, <3>3
    <3> QED BY <3>2, <3>4
  <2>3. ASSUME NEW b \in Bufs, AllocSystem(c, b) PROVE Exact'
    <3>1. CASE Purges
      BY <2>3, <3>1, EmptyPoolIsExact DEF AllocSystem
    <3>2. CASE ~Purges
      <4>1. pool' = pool /\ pool_memory_size' = pool_memory_size
        BY <1>1, <2>3, <3>2 DEF AllocSystem, IInv, TypeOK
      <4> QED BY <1>1, <4>1, SameIsAsExact
    <3> QED BY <3>1, <3>2
  <2>4. ASSUME AllocFails(c) PROVE Exact'
    <3>1. CASE Purges
      BY <2>4, <3>1, EmptyPoolIsExact DEF AllocFails, FreeAll
    <3>2. CASE ~Purges
      BY <1>1, <2>4, <3>2, SameIsAsExact DEF AllocFails
    <3> QED BY <3>1, <3>2
  <2> HIDE DEF Hit
  <2> QED BY <1>1, <2>1, <2>2, <2>3, <2>4 DEF Create
<1>2. ASSUME IInv, Exact, NEW h \in Handles, Destroy(h) PROVE Exact'
  <2>1. TypeOK /\ buf[h] \in Bufs /\ AllocSize(size[h]) \in Classes
    BY <1>2, ClassesCover DEF IInv, HandlesInv, Destroy, Live, TypeOK
  <2>2. Free(buf[h], AllocSize(size[h]))
    BY <1>2 DEF Destroy
  <2> QED BY <1>2, <2>1, <2>2, FreeIsExact
<1>3. ASSUME Exact, DestroyEngine PROVE Exact'
  BY <1>3, EmptyPoolIsExact DEF DestroyEngine, DestroyPool, FreeAll
<1>4. ASSUME Exact, UNCHANGED vars PROVE Exact'
  BY <1>4, SameIsAsExact DEF vars
<1>5. IInv /\ [Next]_vars => [Exact /\ ~Exact' => Hit]_vars
  <2> HIDE DEF Hit
  <2> QED BY <1>1, <1>2, <1>3, <1>4 DEF Next
<1> QED BY <1>5, Inductive, PTL DEF Spec, DriftsOnlyByReuse
-----------------------------------------------------------------------------
(* Vectors *)

VTypes == /\ handle \in [Vectors -> Handles \cup {NoHandle}]
          /\ data \in [Vectors -> Bufs \cup {NoBuf}]
          /\ at \in [Vectors -> Nat]
          /\ length \in [Vectors -> Nat]
          /\ kind \in [Vectors -> {"none", "own", "shifted", "view"}]
          /\ source \in [Vectors -> Handles \cup {NoHandle}]
          /\ loose \in [Vectors -> BOOLEAN]
          /\ dropped \in Handles \cup {NoHandle}

\* The window of v, seen as elements of h's memory, ends inside the size class.
FitsIn(v, h) == (at[v] + length[v]) * SizeOf <= AllocSize(size[h])

Shares(v) == handle[v] # NoHandle => handle[v] \in Live
Owns(v) == kind[v] \in {"own", "shifted"} => handle[v] \in Live /\ data[v] = buf[handle[v]]
Whole(v) == kind[v] = "own" => at[v] = 0 /\ FitsIn(v, handle[v])
Inside(v) == kind[v] = "shifted" /\ ~loose[v] => FitsIn(v, handle[v])
Sees(v) == kind[v] = "view" /\ ~loose[v] =>
              source[v] \in Live /\ data[v] = buf[source[v]] /\ FitsIn(v, source[v])

Bound(v) == Shares(v) /\ Owns(v) /\ Whole(v) /\ Inside(v) /\ Sees(v)
VInv == VTypes /\ (~failed => (dropped # NoHandle => dropped \in Live) /\ \A v \in Vectors : Bound(v))

\* What a step leaves of the handles in H.
Stay(H) == \A h \in H : h \in Live' /\ buf'[h] = buf[h] /\ size'[h] = size[h]
Same(v) == /\ handle'[v] = handle[v] /\ data'[v] = data[v] /\ at'[v] = at[v]
           /\ length'[v] = length[v] /\ kind'[v] = kind[v] /\ source'[v] = source[v]
           /\ loose'[v] = loose[v]
-----------------------------------------------------------------------------
LEMMA Monotone ==
    ASSUME NEW a \in Nat, NEW b \in Nat, NEW c \in Nat, a <= b
    PROVE  a * c <= b * c
OBVIOUS

LEMMA LengthFacts ==
    /\ SizeOf \in Nat /\ NoHandle \notin Handles
    /\ \A n \in Lengths : n \in Nat /\ n * SizeOf \in Requests /\ n * SizeOf \in Nat
    /\ \A s \in Starts : s \in Nat
BY SizeOfAssumption, LengthsAssumption, RequestsOfLengths, RequestsAssumption, NoHandleAssumption

\* A vector that a step does not touch stays bound if the handles it may be bound to stay.
LEMMA BoundStays ==
    ASSUME VTypes, NEW v \in Vectors, Bound(v), Same(v), Stay(Live)
    PROVE  Bound(v)'
<1> USE DEF Same, Stay
<1>1. Shares(v)' /\ Owns(v)'
  BY LengthFacts DEF Bound, Shares, Owns
<1>2. \A h \in Live : FitsIn(v, h) => FitsIn(v, h)'
  BY DEF FitsIn
<1>3. Whole(v)' /\ Inside(v)'
  BY <1>2 DEF Bound, Owns, Whole, Inside, FitsIn
<1>4. Sees(v)'
  BY <1>2 DEF Bound, Sees, FitsIn
<1> QED BY <1>1, <1>3, <1>4 DEF Bound

\* What Becomes says of the vector that it changes and of the others.
LEMMA BecomesFacts ==
    ASSUME VTypes, NEW v \in Vectors, NEW h \in Handles \cup {NoHandle}, NEW b \in Bufs \cup {NoBuf},
           NEW start \in Nat, NEW n \in Nat, NEW k \in {"none", "own", "shifted", "view"},
           NEW s \in Handles \cup {NoHandle},
           handle' = [handle EXCEPT ![v] = h], data' = [data EXCEPT ![v] = b],
           at' = [at EXCEPT ![v] = start], length' = [length EXCEPT ![v] = n],
           kind' = [kind EXCEPT ![v] = k], source' = [source EXCEPT ![v] = s],
           loose' \in [Vectors -> BOOLEAN], \A w \in Vectors \ {v} : loose'[w] = loose[w],
           dropped' \in Handles \cup {NoHandle}
    PROVE  /\ VTypes'
           /\ handle'[v] = h /\ data'[v] = b /\ at'[v] = start /\ length'[v] = n
           /\ kind'[v] = k /\ source'[v] = s
           /\ \A w \in Vectors \ {v} : Same(w)
<1>1. /\ handle'[v] = h /\ data'[v] = b /\ at'[v] = start /\ length'[v] = n
      /\ kind'[v] = k /\ source'[v] = s
      /\ \A w \in Vectors \ {v} :
            /\ handle'[w] = handle[w] /\ data'[w] = data[w] /\ at'[w] = at[w]
            /\ length'[w] = length[w] /\ kind'[w] = kind[w] /\ source'[w] = source[w]
  BY DEF VTypes
<1>2. /\ handle' \in [Vectors -> Handles \cup {NoHandle}]
      /\ data' \in [Vectors -> Bufs \cup {NoBuf}]
      /\ at' \in [Vectors -> Nat] /\ length' \in [Vectors -> Nat]
      /\ kind' \in [Vectors -> {"none", "own", "shifted", "view"}]
      /\ source' \in [Vectors -> Handles \cup {NoHandle}]
  BY DEF VTypes
<1> QED BY <1>1, <1>2 DEF VTypes, Same

\* A step that makes v what it says, keeps the handles and binds v to one of them.
LEMMA OneBecomes ==
    ASSUME VInv, ~failed, NEW v \in Vectors, VTypes',
           \A w \in Vectors \ {v} : Same(w), Stay(Live), Bound(v)',
           dropped' # NoHandle => dropped' \in Live
    PROVE  VInv'
<1>1. \A w \in Vectors : Bound(w)'
  BY BoundStays DEF VInv
<1>2. dropped' # NoHandle => dropped' \in Live'
  BY DEF Stay
<1> QED BY <1>1, <1>2 DEF VInv
-----------------------------------------------------------------------------
\* Construction of a handle disturbs no other, and its block holds the request.
LEMMA CreateFacts ==
    ASSUME TypeOK, NEW h \in Handles, NEW s \in Requests, Create(h, s), TypeOK'
    PROVE  /\ buf'[h] \in Bufs \cup {NoBuf} /\ ~failed /\ h \notin Live
           /\ ~failed' => h \in Live' /\ size'[h] = s /\ Stay(Live)
<1>1. buf'[h] \in Bufs \cup {NoBuf} /\ ~failed /\ h \notin Live
  BY DEF Create, MayRun, TypeOK
<1>2. size'[h] = s /\ \A g \in Handles \ {h} : size'[g] = size[g]
  BY DEF Create, TypeOK
<1>3. ASSUME ~failed'
      PROVE  \E b \in Bufs : buf' = [buf EXCEPT ![h] = b]
  BY <1>3 DEF Create, AllocFails
<1>4. ASSUME ~failed' PROVE h \in Live' /\ Stay(Live)
  <2>1. PICK b \in Bufs : buf' = [buf EXCEPT ![h] = b]
    BY <1>3, <1>4
  <2>2. buf'[h] = b /\ \A g \in Handles \ {h} : buf'[g] = buf[g]
    BY <2>1 DEF TypeOK
  <2>3. h \in Live' /\ \A g \in Live : g \in Live'
    BY <1>1, <2>2, NoBufAssumption DEF Live
  <2> QED BY <1>1, <1>2, <2>2, <2>3 DEF Stay, Live
<1> QED BY <1>1, <1>2, <1>4

\* Destruction takes one handle and leaves the others.
LEMMA DestroyFacts ==
    ASSUME TypeOK, NEW h \in Handles, Destroy(h)
    PROVE  Stay(Live \ {h}) /\ (failed' <=> failed)
<1>1. failed' = failed /\ size' = size /\ buf' = [buf EXCEPT ![h] = NoBuf]
  BY DEF Destroy, Free
<1>2. \A g \in Handles \ {h} : buf'[g] = buf[g]
  BY <1>1 DEF TypeOK
<1> QED BY <1>1, <1>2 DEF Stay, Live
-----------------------------------------------------------------------------
LEMMA InitVInv == VectorInit => VInv
BY LengthFacts DEF VectorInit, VInv, VTypes, Bound, Shares, Owns, Whole, Inside, Sees

\* A vector with the whole of a new handle, in create or resize.
LEMMA WholeIsBound ==
    ASSUME IInv, IInv', VInv, NEW v \in Vectors, NEW n \in Lengths, NEW h \in Handles,
           Create(h, n * SizeOf), Becomes(v, h, buf'[h], 0, n, "own", NoHandle, FALSE),
           dropped' \in Handles \cup {NoHandle}, dropped' # NoHandle /\ ~failed => dropped' \in Live
    PROVE  VInv'
<1>1. n \in Nat /\ n * SizeOf \in Requests /\ n * SizeOf \in Nat /\ NoHandle \notin Handles
  BY LengthFacts
<1>2. TypeOK /\ TypeOK' /\ VTypes
  BY DEF IInv, VInv
<1>3. /\ buf'[h] \in Bufs \cup {NoBuf} /\ ~failed /\ h \notin Live
      /\ ~failed' => h \in Live' /\ size'[h] = n * SizeOf /\ Stay(Live)
  BY <1>1, <1>2, CreateFacts
<1>4. /\ VTypes' /\ handle'[v] = h /\ data'[v] = buf'[h] /\ at'[v] = 0 /\ length'[v] = n
      /\ kind'[v] = "own" /\ \A w \in Vectors \ {v} : Same(w)
  <2>1. /\ handle' = [handle EXCEPT ![v] = h] /\ data' = [data EXCEPT ![v] = buf'[h]]
        /\ at' = [at EXCEPT ![v] = 0] /\ length' = [length EXCEPT ![v] = n]
        /\ kind' = [kind EXCEPT ![v] = "own"] /\ source' = [source EXCEPT ![v] = NoHandle]
    BY DEF Becomes
  <2>2. loose' = [loose EXCEPT ![v] = FALSE]
    BY DEF Becomes
  <2>3. loose' \in [Vectors -> BOOLEAN] /\ \A w \in Vectors \ {v} : loose'[w] = loose[w]
    BY <1>2, <2>2 DEF VTypes
  <2> QED BY <1>1, <1>2, <1>3, <2>1, <2>3, BecomesFacts
<1>5. CASE failed'
  BY <1>4, <1>5 DEF VInv
<1>6. CASE ~failed'
  <2>1. AllocSize(n * SizeOf) >= n * SizeOf
    BY <1>1, AllocSizeSound
  <2>2. FitsIn(v, h)'
    <3>1. (at'[v] + length'[v]) * SizeOf = n * SizeOf
      BY <1>1, <1>4
    <3>2. AllocSize(n * SizeOf) = AllocSize(size[h])'
      BY <1>3, <1>6
    <3>3. AllocSize(n * SizeOf) \in Nat
      BY <1>1, AllocSizeSound
    <3> QED BY <1>1, <2>1, <3>1, <3>2, <3>3 DEF FitsIn
  <2>3. Bound(v)'
    BY <1>3, <1>4, <1>6, <2>2 DEF Bound, Shares, Owns, Whole, Inside, Sees
  <2> QED BY <1>3, <1>4, <1>6, <2>3, OneBecomes
<1> QED BY <1>5, <1>6

LEMMA NewStep ==
    ASSUME IInv, IInv', VInv, NEW v \in Vectors, NEW n \in Lengths, New(v, n)
    PROVE  VInv'
<1>1. PICK h \in Handles : Create(h, n * SizeOf) /\ Becomes(v, h, buf'[h], 0, n, "own", NoHandle, FALSE)
  BY DEF New
<1>2. dropped' = NoHandle
  BY DEF New, Ready
<1> QED BY <1>1, <1>2, WholeIsBound

LEMMA ResizeNewStep ==
    ASSUME IInv, IInv', VInv, NEW v \in Vectors, NEW n \in Lengths, ResizeNew(v, n)
    PROVE  VInv'
<1>1. PICK h \in Handles : Create(h, n * SizeOf) /\ Becomes(v, h, buf'[h], 0, n, "own", NoHandle, FALSE)
  BY DEF ResizeNew
<1>2. dropped' = handle[v]
  BY DEF ResizeNew
<1>3. handle[v] \in Handles \cup {NoHandle} /\ (handle[v] # NoHandle /\ ~failed => handle[v] \in Live)
  BY DEF VInv, VTypes, Bound, Shares
<1> QED BY <1>1, <1>2, <1>3, WholeIsBound
-----------------------------------------------------------------------------
\* Steps that leave the memory alone.
LEMMA NothingMoves ==
    ASSUME UNCHANGED vars
    PROVE  Stay(Live) /\ Live' = Live /\ (failed' <=> failed)
BY DEF vars, Stay, Live

LEMMA ShareStep ==
    ASSUME IInv, VInv, NEW v \in Vectors, NEW u \in Vectors, NEW n \in Lengths, NEW start \in Starts,
           Share(v, u, n, start)
    PROVE  VInv'
<1> DEFINE k == IF start = 0 THEN "own" ELSE "shifted"
<1>1. /\ n \in Nat /\ start \in Nat /\ SizeOf \in Nat /\ NoHandle \notin Handles
  BY LengthFacts
<1>2. /\ VTypes /\ ~failed /\ handle[u] # NoHandle /\ UNCHANGED <<vars, dropped>>
      /\ (start + n) * SizeOf <= size[handle[u]]
      /\ Becomes(v, handle[u], buf[handle[u]], start, n, k, NoHandle, FALSE)
  BY DEF Share, Ready, MayRun, VInv
<1>3. handle[u] \in Live
  BY <1>2 DEF VInv, Bound, Shares
<1>4. buf[handle[u]] \in Bufs \cup {NoBuf} /\ size[handle[u]] \in Nat /\ handle[u] \in Handles
  BY <1>3 DEF IInv, TypeOK, Live
<1>5. k \in {"none", "own", "shifted", "view"} /\ (k = "own" => start = 0) /\ k # "view"
  OBVIOUS
<1>6. dropped' \in Handles \cup {NoHandle} /\ dropped' = NoHandle
  BY <1>2 DEF Share, Ready
<1> HIDE DEF k
<1>7. /\ VTypes' /\ handle'[v] = handle[u] /\ data'[v] = buf[handle[u]] /\ at'[v] = start
      /\ length'[v] = n /\ kind'[v] = k /\ \A w \in Vectors \ {v} : Same(w)
  <2>1. /\ handle' = [handle EXCEPT ![v] = handle[u]] /\ data' = [data EXCEPT ![v] = buf[handle[u]]]
        /\ at' = [at EXCEPT ![v] = start] /\ length' = [length EXCEPT ![v] = n]
        /\ kind' = [kind EXCEPT ![v] = k] /\ source' = [source EXCEPT ![v] = NoHandle]
    BY <1>2 DEF Becomes
  <2>2. loose' = [loose EXCEPT ![v] = FALSE]
    BY <1>2 DEF Becomes
  <2>3. loose' \in [Vectors -> BOOLEAN] /\ \A w \in Vectors \ {v} : loose'[w] = loose[w]
    BY <1>2, <2>2 DEF VTypes
  <2>4. handle[u] \in Handles \cup {NoHandle} /\ NoHandle \in Handles \cup {NoHandle}
    BY <1>4
  <2> QED BY <1>1, <1>2, <1>4, <1>5, <1>6, <2>1, <2>3, <2>4, BecomesFacts
<1>8. Stay(Live)
  BY <1>2, NothingMoves
<1>9. FitsIn(v, handle[v])'
  <2>1. /\ AllocSize(size[handle[u]]) \in Nat
        /\ AllocSize(size[handle[u]]) >= size[handle[u]]
    BY <1>4, AllocSizeSound
  <2>2. AllocSize(size[handle[v]])' = AllocSize(size[handle[u]])
    BY <1>2, <1>7 DEF vars
  <2>3. (start + n) * SizeOf <= AllocSize(size[handle[u]])
    BY <1>1, <1>2, <1>4, <2>1
  <2> QED BY <1>7, <2>2, <2>3 DEF FitsIn
<1>10. Bound(v)'
  BY <1>3, <1>5, <1>7, <1>8, <1>9 DEF Bound, Shares, Owns, Whole, Inside, Sees, Stay
<1> QED BY <1>2, <1>6, <1>7, <1>8, <1>10, OneBecomes

LEMMA ResizeKeepStep ==
    ASSUME IInv, VInv, NEW v \in Vectors, NEW n \in Lengths, ResizeKeep(v, n)
    PROVE  VInv'
<1> DEFINE l == (loose[v] \/ kind[v] # "own")
<1>1. n \in Nat /\ SizeOf \in Nat /\ NoHandle \notin Handles
  BY LengthFacts
<1>2. /\ VTypes /\ Bound(v) /\ ~failed /\ UNCHANGED <<vars, dropped>>
      /\ dropped' = NoHandle /\ dropped' \in Handles \cup {NoHandle}
      /\ Becomes(v, handle[v], data[v], at[v], n, kind[v], source[v], l)
  BY DEF ResizeKeep, Ready, MayRun, VInv
<1>3. handle[v] # NoHandle /\ n * SizeOf <= AllocSize(size[handle[v]])
  <2>1. handle[v] # NoHandle /\ ~(n * SizeOf > AllocSize(size[handle[v]]))
    BY DEF ResizeKeep, TooSmall
  <2>2. handle[v] \in Handles
    BY <1>2, <2>1 DEF VTypes
  <2>3. AllocSize(size[handle[v]]) \in Nat
    BY <2>2, AllocSizeSound DEF IInv, TypeOK
  <2>4. ASSUME NEW need \in Int, NEW have \in Int, ~(need > have) PROVE need <= have
    BY <2>4
  <2>5. n * SizeOf \in Int
    BY <1>1
  <2> QED BY <2>1, <2>3, <2>4, <2>5
<1>5. l \in BOOLEAN /\ (kind[v] # "own" => l)
  BY <1>2 DEF VTypes
<1> HIDE DEF l
<1>6. /\ VTypes' /\ handle'[v] = handle[v] /\ data'[v] = data[v] /\ at'[v] = at[v]
      /\ length'[v] = n /\ kind'[v] = kind[v] /\ loose'[v] = l /\ \A w \in Vectors \ {v} : Same(w)
  <2>1. handle' = handle /\ data' = data /\ at' = at /\ kind' = kind /\ source' = source
    BY <1>2 DEF Becomes, VTypes
  <2>2. /\ length' \in [Vectors -> Nat] /\ length'[v] = n
        /\ \A w \in Vectors \ {v} : length'[w] = length[w]
    BY <1>1, <1>2 DEF Becomes, VTypes
  <2>3. loose' = [loose EXCEPT ![v] = l] /\ loose \in [Vectors -> BOOLEAN]
    BY <1>2 DEF Becomes, VTypes
  <2>4. loose' \in [Vectors -> BOOLEAN] /\ loose'[v] = l /\ \A w \in Vectors \ {v} : loose'[w] = loose[w]
    BY <1>5, <2>3
  <2>5. VTypes'
    BY <1>2, <2>1, <2>2, <2>4 DEF VTypes
  <2>6. \A w \in Vectors \ {v} : Same(w)
    BY <2>1, <2>2, <2>4 DEF Same
  <2> QED BY <2>1, <2>2, <2>4, <2>5, <2>6
<1>7. Stay(Live)
  BY <1>2, NothingMoves
<1>8. handle[v] \in Live
  BY <1>2, <1>3 DEF Bound, Shares
<1>9. Shares(v)' /\ Owns(v)'
  BY <1>2, <1>6, <1>7, <1>8 DEF Bound, Shares, Owns, Stay
<1>10. Whole(v)'
  <2>1. kind[v] = "own" => at[v] = 0 /\ (0 + n) * SizeOf <= AllocSize(size[handle[v]])
    BY <1>1, <1>2, <1>3 DEF Bound, Whole
  <2>2. AllocSize(size[handle[v]])' = AllocSize(size[handle[v]])
    BY <1>2, <1>6 DEF vars
  <2> QED BY <1>6, <2>1, <2>2 DEF Whole, FitsIn
<1>11. Inside(v)' /\ Sees(v)'
  BY <1>5, <1>6 DEF Inside, Sees
<1>12. Bound(v)'
  BY <1>9, <1>10, <1>11 DEF Bound
<1> QED BY <1>2, <1>6, <1>7, <1>12, OneBecomes
-----------------------------------------------------------------------------
\* What a window inside that of u is to the memory that u looks at.
LEMMA PartFits ==
    ASSUME TypeOK, VTypes, NEW u \in Vectors, Bound(u), kind[u] # "none", ~loose[u],
           NEW start \in Nat, NEW n \in Nat, start + n <= length[u]
    PROVE  /\ Origin(u) \in Live /\ data[u] = buf[Origin(u)]
           /\ (at[u] + start + n) * SizeOf <= AllocSize(size[Origin(u)])
<1>1. Origin(u) \in Live /\ data[u] = buf[Origin(u)] /\ FitsIn(u, Origin(u))
  BY DEF VTypes, Bound, Owns, Whole, Inside, Sees, Origin
<1>2. at[u] \in Nat /\ length[u] \in Nat /\ SizeOf \in Nat
  BY LengthFacts DEF VTypes
<1>3. size[Origin(u)] \in Nat /\ AllocSize(size[Origin(u)]) \in Nat
  BY <1>1, AllocSizeSound DEF TypeOK, Live
<1>4. at[u] + start + n \in Nat /\ at[u] + length[u] \in Nat /\ at[u] + start + n <= at[u] + length[u]
  BY <1>2
<1>5. (at[u] + start + n) * SizeOf <= (at[u] + length[u]) * SizeOf
  BY <1>2, <1>4, Monotone
<1>6. (at[u] + start + n) * SizeOf \in Int /\ (at[u] + length[u]) * SizeOf \in Int
  BY <1>2, <1>4
<1>7. (at[u] + length[u]) * SizeOf <= AllocSize(size[Origin(u)])
  BY <1>1 DEF FitsIn
<1> HIDE DEF Origin
<1> QED BY <1>1, <1>3, <1>5, <1>6, <1>7

\* v looks into the data of u, and has the handle h, which is its own or none.
IsView(v, u, start, n, h) ==
    /\ handle'[v] = h /\ data'[v] = data[u] /\ at'[v] = at[u] + start
    /\ length'[v] = n /\ kind'[v] = "view" /\ source'[v] = Origin(u)
    /\ \A w \in Vectors \ {v} : Same(w)

LEMMA ViewFacts ==
    ASSUME VTypes, NEW v \in Vectors, NEW u \in Vectors, NEW start \in Nat, NEW n \in Nat,
           NEW h \in Handles \cup {NoHandle},
           handle' = [handle EXCEPT ![v] = h], data' = [data EXCEPT ![v] = data[u]],
           at' = [at EXCEPT ![v] = at[u] + start], length' = [length EXCEPT ![v] = n],
           kind' = [kind EXCEPT ![v] = "view"], source' = [source EXCEPT ![v] = Origin(u)],
           loose' \in [Vectors -> BOOLEAN], \A w \in Vectors \ {v} : loose'[w] = loose[w],
           dropped' \in Handles \cup {NoHandle}
    PROVE  VTypes' /\ IsView(v, u, start, n, h)
<1> DEFINE p == at[u] + start
           o == Origin(u)
           b == data[u]
<1>1. p \in Nat /\ o \in Handles \cup {NoHandle} /\ b \in Bufs \cup {NoBuf}
  BY DEF VTypes, Origin
<1>2. /\ handle' = [handle EXCEPT ![v] = h] /\ data' = [data EXCEPT ![v] = b]
      /\ at' = [at EXCEPT ![v] = p] /\ length' = [length EXCEPT ![v] = n]
      /\ kind' = [kind EXCEPT ![v] = "view"] /\ source' = [source EXCEPT ![v] = o]
  OBVIOUS
<1>3. loose' \in [Vectors -> BOOLEAN] /\ \A w \in Vectors \ {v} : loose'[w] = loose[w]
  OBVIOUS
<1>4. "view" \in {"none", "own", "shifted", "view"}
  OBVIOUS
<1> HIDE DEF p, o, b
<1>5. /\ handle'[v] = h /\ data'[v] = b /\ at'[v] = p
      /\ length'[v] = n /\ kind'[v] = "view" /\ source'[v] = o
      /\ \A w \in Vectors \ {v} :
            /\ handle'[w] = handle[w] /\ data'[w] = data[w] /\ at'[w] = at[w]
            /\ length'[w] = length[w] /\ kind'[w] = kind[w] /\ source'[w] = source[w]
  BY <1>2 DEF VTypes
<1>6. /\ handle' \in [Vectors -> Handles \cup {NoHandle}]
      /\ data' \in [Vectors -> Bufs \cup {NoBuf}]
      /\ at' \in [Vectors -> Nat] /\ length' \in [Vectors -> Nat]
      /\ kind' \in [Vectors -> {"none", "own", "shifted", "view"}]
      /\ source' \in [Vectors -> Handles \cup {NoHandle}]
  BY <1>1, <1>2, <1>4 DEF VTypes
<1>7. VTypes'
  BY <1>3, <1>6 DEF VTypes
<1>8. \A w \in Vectors \ {v} : Same(w)
  BY <1>3, <1>5 DEF Same
<1> QED BY <1>5, <1>7, <1>8 DEF p, o, b, IsView

LEMMA ViewIsBound ==
    ASSUME IInv, VInv, ~failed, UNCHANGED <<vars, dropped>>, dropped = NoHandle,
           NEW v \in Vectors, NEW u \in Vectors, kind[u] # "none",
           NEW start \in Nat, NEW n \in Nat, NEW h \in {handle[v], NoHandle},
           VTypes', IsView(v, u, start, n, h),
           ~loose'[v] => ~loose[u] /\ ~Overruns(u, start, n)
    PROVE  VInv'
<1>1. TypeOK /\ VTypes /\ Bound(u) /\ Bound(v) /\ NoHandle \notin Handles
  BY LengthFacts DEF IInv, VInv
<1>2. length[u] \in Nat
  BY <1>1 DEF VTypes
<1>3. dropped' = NoHandle
  OBVIOUS
<1>5. /\ handle'[v] = h /\ data'[v] = data[u] /\ at'[v] = at[u] + start
      /\ length'[v] = n /\ kind'[v] = "view" /\ source'[v] = Origin(u)
      /\ \A w \in Vectors \ {v} : Same(w)
  BY DEF IsView
<1>6. Stay(Live) /\ Live' = Live
  BY NothingMoves
<1>7. Shares(v)'
  BY <1>1, <1>5, <1>6 DEF Bound, Shares
<1>8. Owns(v)' /\ Whole(v)' /\ Inside(v)'
  BY <1>5 DEF Owns, Whole, Inside
<1>9. ASSUME ~loose'[v]
      PROVE  source'[v] \in Live' /\ data'[v] = buf'[source'[v]] /\ FitsIn(v, source[v])'
  <2>1. ~loose[u] /\ start + n <= length[u]
    BY <1>2, <1>9 DEF Overruns
  <2>2. /\ Origin(u) \in Live /\ data[u] = buf[Origin(u)]
        /\ (at[u] + start + n) * SizeOf <= AllocSize(size[Origin(u)])
    BY <1>1, <2>1, PartFits
  <2>3. AllocSize(size[source[v]])' = AllocSize(size[Origin(u)]) /\ buf' = buf
    BY <1>5 DEF vars
  <2>4. FitsIn(v, source[v])'
    BY <1>5, <2>2, <2>3 DEF FitsIn
  <2> QED BY <1>5, <1>6, <2>2, <2>3, <2>4
<1>10. Bound(v)'
  BY <1>7, <1>8, <1>9 DEF Bound, Sees
<1> QED BY <1>3, <1>5, <1>6, <1>10, OneBecomes

LEMMA SubVecFromStep ==
    ASSUME IInv, VInv, NEW v \in Vectors, NEW u \in Vectors, NEW n \in Lengths, NEW start \in Starts,
           SubVecFrom(v, u, start, n)
    PROVE  VInv'
<1> DEFINE l == (loose[u] \/ start >= length[u] \/ Overruns(u, start, n))
<1>1. n \in Nat /\ start \in Nat /\ VTypes
  BY LengthFacts DEF VInv
<1>2. /\ ~failed /\ UNCHANGED <<vars, dropped>> /\ dropped = NoHandle /\ kind[u] # "none"
  BY DEF SubVecFrom, Ready, MayRun, Exist
<1>3. /\ handle' = [handle EXCEPT ![v] = handle[v]] /\ data' = [data EXCEPT ![v] = data[u]]
      /\ at' = [at EXCEPT ![v] = at[u] + start] /\ length' = [length EXCEPT ![v] = n]
      /\ kind' = [kind EXCEPT ![v] = "view"] /\ source' = [source EXCEPT ![v] = Origin(u)]
  BY DEF SubVecFrom, Becomes
<1>4. loose' = [loose EXCEPT ![v] = l]
  BY DEF SubVecFrom, Becomes
<1>5. l \in BOOLEAN /\ (~l => ~loose[u] /\ ~Overruns(u, start, n))
  BY <1>1 DEF VTypes
<1> HIDE DEF l
<1>6. loose' \in [Vectors -> BOOLEAN] /\ loose'[v] = l /\ \A w \in Vectors \ {v} : loose'[w] = loose[w]
  BY <1>1, <1>4, <1>5 DEF VTypes
<1>7. ~loose'[v] => ~loose[u] /\ ~Overruns(u, start, n)
  BY <1>5, <1>6
<1>9. dropped' \in Handles \cup {NoHandle} /\ handle[v] \in Handles \cup {NoHandle}
  BY <1>1, <1>2 DEF VTypes
<1>8. VTypes' /\ IsView(v, u, start, n, handle[v])
  BY <1>1, <1>2, <1>3, <1>6, <1>9, ViewFacts
<1> QED BY <1>1, <1>2, <1>7, <1>8, ViewIsBound

LEMMA SubVecStep ==
    ASSUME IInv, VInv, NEW v \in Vectors, NEW u \in Vectors, NEW n \in Lengths, NEW start \in Starts,
           SubVec(v, u, start, n)
    PROVE  VInv'
<1> DEFINE l == (loose[u] \/ Overruns(u, start, n))
<1>1. n \in Nat /\ start \in Nat /\ VTypes
  BY LengthFacts DEF VInv
<1>2. /\ ~failed /\ UNCHANGED <<vars, dropped>> /\ dropped = NoHandle /\ kind[u] # "none"
  BY DEF SubVec, Ready, MayRun, Exist
<1>3. /\ handle' = [handle EXCEPT ![v] = NoHandle] /\ data' = [data EXCEPT ![v] = data[u]]
      /\ at' = [at EXCEPT ![v] = at[u] + start] /\ length' = [length EXCEPT ![v] = n]
      /\ kind' = [kind EXCEPT ![v] = "view"] /\ source' = [source EXCEPT ![v] = Origin(u)]
  BY DEF SubVec, Becomes
<1>4. loose' = [loose EXCEPT ![v] = l]
  BY DEF SubVec, Becomes
<1>5. l \in BOOLEAN /\ (~l => ~loose[u] /\ ~Overruns(u, start, n))
  BY <1>1 DEF VTypes
<1> HIDE DEF l
<1>6. loose' \in [Vectors -> BOOLEAN] /\ loose'[v] = l /\ \A w \in Vectors \ {v} : loose'[w] = loose[w]
  BY <1>1, <1>4, <1>5 DEF VTypes
<1>7. ~loose'[v] => ~loose[u] /\ ~Overruns(u, start, n)
  BY <1>5, <1>6
<1>9. dropped' \in Handles \cup {NoHandle} /\ handle[v] \in Handles \cup {NoHandle}
  BY <1>1, <1>2 DEF VTypes
<1>8. VTypes' /\ IsView(v, u, start, n, NoHandle)
  BY <1>1, <1>2, <1>3, <1>6, <1>9, ViewFacts
<1> QED BY <1>1, <1>2, <1>7, <1>8, ViewIsBound
-----------------------------------------------------------------------------
LEMMA DropStep ==
    ASSUME IInv, VInv, NEW v \in Vectors, Drop(v)
    PROVE  VInv'
<1>1. /\ VTypes /\ Bound(v) /\ ~failed /\ UNCHANGED vars /\ dropped' = handle[v]
      /\ NoHandle \notin Handles
  BY LengthFacts DEF Drop, Ready, MayRun, VInv
<1>2. /\ handle[v] \in Handles \cup {NoHandle} /\ NoHandle \in Handles \cup {NoHandle}
      /\ NoBuf \in Bufs \cup {NoBuf} /\ 0 \in Nat /\ "none" \in {"none", "own", "shifted", "view"}
  BY <1>1 DEF VTypes
<1>3. /\ VTypes' /\ handle'[v] = NoHandle /\ kind'[v] = "none"
      /\ \A w \in Vectors \ {v} : Same(w)
  <2>1. /\ handle' = [handle EXCEPT ![v] = NoHandle] /\ data' = [data EXCEPT ![v] = NoBuf]
        /\ at' = [at EXCEPT ![v] = 0] /\ length' = [length EXCEPT ![v] = 0]
        /\ kind' = [kind EXCEPT ![v] = "none"] /\ source' = [source EXCEPT ![v] = NoHandle]
    BY DEF Drop, Becomes
  <2>2. loose' = [loose EXCEPT ![v] = FALSE]
    BY DEF Drop, Becomes
  <2>3. loose' \in [Vectors -> BOOLEAN] /\ \A w \in Vectors \ {v} : loose'[w] = loose[w]
    BY <1>1, <2>2 DEF VTypes
  <2>4. dropped' \in Handles \cup {NoHandle}
    BY <1>1, <1>2
  <2> QED BY <1>1, <1>2, <2>1, <2>3, <2>4, BecomesFacts
<1>4. Bound(v)'
  BY <1>1, <1>3 DEF Bound, Shares, Owns, Whole, Inside, Sees
<1>5. Stay(Live)
  BY <1>1, NothingMoves
<1>6. dropped' # NoHandle => dropped' \in Live
  BY <1>1 DEF Bound, Shares
<1> QED BY <1>1, <1>3, <1>4, <1>5, <1>6, OneBecomes

\* The handle that goes is nobody's, and the views that were taken from it are loose.
LEMMA ReleaseLast ==
    ASSUME IInv, VInv, Release, Users(dropped) = {}
    PROVE  VInv'
<1>1. /\ TypeOK /\ VTypes /\ ~failed /\ dropped \in Live /\ NoHandle \notin Handles
      /\ \A v \in Vectors : Bound(v)
  BY LengthFacts DEF Release, MayRun, VInv, IInv
<1>2. /\ Destroy(dropped) /\ dropped' = NoHandle
      /\ UNCHANGED <<handle, data, at, length, kind, source>>
  BY DEF Release
<1>3. loose' = [v \in Vectors |-> loose[v] \/ (kind[v] = "view" /\ source[v] = dropped)]
  BY DEF Release
<1>4. dropped \in Handles
  BY <1>1 DEF Live
<1>5. Stay(Live \ {dropped})
  BY <1>1, <1>2, <1>4, DestroyFacts
<1>6. VTypes'
  <2>1. loose' \in [Vectors -> BOOLEAN]
    BY <1>1, <1>3 DEF VTypes
  <2> QED BY <1>1, <1>2, <2>1 DEF VTypes
<1>7. ASSUME NEW v \in Vectors PROVE Bound(v)'
  <2>1. /\ handle'[v] = handle[v] /\ data'[v] = data[v] /\ at'[v] = at[v]
        /\ length'[v] = length[v] /\ kind'[v] = kind[v] /\ source'[v] = source[v]
    BY <1>2
  <2>2. handle[v] # dropped
    BY DEF Users
  <2>3. kind[v] = "view" /\ ~loose'[v] => ~loose[v] /\ source[v] # dropped
    BY <1>3
  <2>4. ~loose'[v] => ~loose[v]
    BY <1>3
  <2>5. \A h \in Live \ {dropped} : FitsIn(v, h) => FitsIn(v, h)'
    BY <1>5, <2>1 DEF FitsIn, Stay
  <2>6. Shares(v)' /\ Owns(v)'
    BY <1>1, <1>5, <2>1, <2>2 DEF Bound, Shares, Owns, Stay
  <2>7. Whole(v)'
    BY <1>1, <2>1, <2>2, <2>5 DEF Bound, Owns, Whole, FitsIn
  <2>8. Inside(v)'
    BY <1>1, <2>1, <2>2, <2>4, <2>5 DEF Bound, Owns, Inside, FitsIn
  <2>9. Sees(v)'
    BY <1>1, <1>5, <2>1, <2>3, <2>5 DEF Bound, Sees, Stay, FitsIn
  <2> QED BY <2>6, <2>7, <2>8, <2>9 DEF Bound
<1> QED BY <1>2, <1>6, <1>7 DEF VInv

LEMMA ReleaseStep ==
    ASSUME IInv, VInv, Release
    PROVE  VInv'
<1>1. CASE Users(dropped) = {}
  BY <1>1, ReleaseLast
<1>2. CASE Users(dropped) # {}
  <2>1. /\ UNCHANGED <<vars, viewVars>> /\ dropped' = NoHandle /\ ~failed
    BY <1>2 DEF Release, MayRun, viewVars
  <2>2. VTypes' /\ \A v \in Vectors : Same(v)
    BY <2>1 DEF VInv, VTypes, Same, viewVars
  <2>3. \A v \in Vectors : Bound(v)'
    BY <2>1, <2>2, NothingMoves, BoundStays DEF VInv
  <2> QED BY <2>1, <2>2, <2>3 DEF VInv
<1> QED BY <1>1, <1>2

\* Nothing happens to the vectors, and no handle goes.
LEMMA QuietStep ==
    ASSUME VInv, UNCHANGED <<viewVars, dropped, size, buf>>, ~failed' => ~failed
    PROVE  VInv'
<1>1. VTypes' /\ \A v \in Vectors : Same(v)
  BY DEF VInv, VTypes, Same, viewVars
<1>2. Stay(Live) /\ Live' = Live
  BY DEF Stay, Live
<1>3. ASSUME ~failed PROVE \A v \in Vectors : Bound(v)'
  BY <1>1, <1>2, <1>3, BoundStays DEF VInv
<1> QED BY <1>1, <1>2, <1>3 DEF VInv

LEMMA NextVInv == IInv /\ IInv' /\ VInv /\ [VectorNext]_vectorVars => VInv'
<1> SUFFICES ASSUME IInv, IInv', VInv, [VectorNext]_vectorVars PROVE VInv'
  OBVIOUS
<1>1. ASSUME NEW v \in Vectors, NEW n \in Lengths,
             New(v, n) \/ ResizeNew(v, n) \/ ResizeKeep(v, n)
      PROVE  VInv'
  BY <1>1, NewStep, ResizeNewStep, ResizeKeepStep
<1>2. ASSUME NEW v \in Vectors, NEW u \in Vectors, NEW n \in Lengths, NEW start \in Starts,
             Share(v, u, n, start) \/ SubVecFrom(v, u, start, n) \/ SubVec(v, u, start, n)
      PROVE  VInv'
  BY <1>2, ShareStep, SubVecFromStep, SubVecStep
<1>3. ASSUME NEW v \in Vectors, Drop(v) PROVE VInv'
  BY <1>3, DropStep
<1>4. CASE End
  BY <1>4, QuietStep DEF End, DestroyEngine, MayRun
<1>5. CASE UNCHANGED vectorVars
  BY <1>5, QuietStep DEF vectorVars, vars
<1> QED BY <1>1, <1>2, <1>3, <1>4, <1>5, ReleaseStep DEF VectorNext
-----------------------------------------------------------------------------
\* Every step of the vectors is a step of the memory under them, or none.
LEMMA StepOfMemory == VInv /\ [VectorNext]_vectorVars => [Next]_vars
<1> SUFFICES ASSUME VInv, [VectorNext]_vectorVars PROVE [Next]_vars
  OBVIOUS
<1>1. ASSUME NEW v \in Vectors, NEW n \in Lengths,
             New(v, n) \/ ResizeNew(v, n) \/ ResizeKeep(v, n)
      PROVE  [Next]_vars
  <2>1. n * SizeOf \in Requests
    BY LengthFacts
  <2> QED BY <1>1, <2>1 DEF New, ResizeNew, ResizeKeep, Next
<1>2. ASSUME NEW v \in Vectors, NEW u \in Vectors, NEW n \in Lengths, NEW start \in Starts,
             Share(v, u, n, start) \/ SubVecFrom(v, u, start, n) \/ SubVec(v, u, start, n)
      PROVE  [Next]_vars
  BY <1>2 DEF Share, SubVecFrom, SubVec
<1>3. ASSUME NEW v \in Vectors, Drop(v) PROVE [Next]_vars
  BY <1>3 DEF Drop
<1>4. CASE Release
  <2>1. dropped \in Handles
    BY <1>4 DEF Release, VInv, VTypes
  <2> QED BY <1>4, <2>1 DEF Release, Next
<1>5. CASE End
  BY <1>5 DEF End, Next
<1>6. CASE UNCHANGED vectorVars
  BY <1>6 DEF vectorVars
<1> QED BY <1>1, <1>2, <1>3, <1>4, <1>5, <1>6 DEF VectorNext

\* The invariant of the handles and that of the vectors over them hold together.
THEOREM VectorInductive == VectorSpec => [](IInv /\ VInv)
<1>1. VectorInit => IInv /\ VInv
  BY InitIInv, InitVInv DEF VectorInit
<1>2. IInv /\ VInv /\ [VectorNext]_vectorVars => (IInv /\ VInv)'
  BY StepOfMemory, NextIInv, NextVInv
<1> QED BY <1>1, <1>2, PTL DEF VectorSpec

\* Creating, resizing, sharing, viewing and dropping vectors does to the handles what
\* MemoryHandle allows and nothing else: a handle is made by its constructor and
\* destroyed once, while it lives.
THEOREM MemoryRefinement == VectorSpec => Spec
<1>1. VectorInit => Init
  BY DEF VectorInit
<1> QED BY <1>1, StepOfMemory, VectorInductive, PTL DEF VectorSpec, Spec

\* A vector that starts where its memory does has at least as many elements in it as
\* its size, whatever it was resized to and whoever shares the memory.
THEOREM OwnersKeepRoom == VectorSpec => []OwnersHaveRoom
<1>1. IInv /\ VInv => OwnersHaveRoom
  <2> SUFFICES ASSUME IInv, VInv, ~failed, NEW v \in Exist, kind[v] = "own"
               PROVE  /\ handle[v] \in Live /\ data[v] = buf[handle[v]] /\ at[v] = 0
                      /\ length[v] * SizeOf <= heap[data[v]]
    BY DEF OwnersHaveRoom
  <2>1. /\ handle[v] \in Live /\ data[v] = buf[handle[v]] /\ at[v] = 0
        /\ FitsIn(v, handle[v]) /\ length[v] \in Nat
    BY DEF Exist, VInv, VTypes, Bound, Owns, Whole
  <2>2. heap[data[v]] = AllocSize(size[handle[v]])
    BY <2>1 DEF IInv, HandlesInv
  <2> QED BY <2>1, <2>2 DEF FitsIn
<1> QED BY <1>1, VectorInductive, PTL

\* Two vectors meet in one buffer only if they share a handle or one was made a view.
THEOREM BuffersMeetByIntent == VectorSpec => []MeetByIntent
<1>1. IInv /\ VInv => MeetByIntent
  <2> SUFFICES ASSUME IInv, VInv, ~failed, NEW u \in Exist, NEW v \in Exist,
                      data[u] = data[v], kind[u] # "view", kind[v] # "view"
               PROVE  handle[u] = handle[v]
    BY DEF MeetByIntent
  <2>1. \A w \in Exist : kind[w] # "view" => handle[w] \in Live /\ data[w] = buf[handle[w]]
    BY DEF Exist, VInv, VTypes, Bound, Owns
  <2> QED BY <2>1 DEF IInv, HandlesInv
<1> QED BY <1>1, VectorInductive, PTL

\* A view stays inside live memory until the last owner of that memory gives it back,
\* unless its check complained or a resize moved it.
THEOREM ViewsHold == VectorSpec => []ViewsHoldWhileOwned
<1>1. IInv /\ VInv => ViewsHoldWhileOwned
  <2> SUFFICES ASSUME IInv, VInv, ~failed, NEW v \in Exist, kind[v] = "view", ~loose[v]
               PROVE  /\ source[v] \in Live /\ data[v] = buf[source[v]]
                      /\ (at[v] + length[v]) * SizeOf <= heap[data[v]]
    BY DEF ViewsHoldWhileOwned
  <2>1. source[v] \in Live /\ data[v] = buf[source[v]] /\ FitsIn(v, source[v])
    BY DEF Exist, VInv, Bound, Sees
  <2>2. heap[data[v]] = AllocSize(size[source[v]])
    BY <2>1 DEF IInv, HandlesInv
  <2> QED BY <2>1, <2>2 DEF FitsIn
<1> QED BY <1>1, VectorInductive, PTL
-----------------------------------------------------------------------------
(* The engine. *)

RWLockInv ==
    /\ \A t \in Threads : pc[t] \in Reading <=> t \in readers
    /\ \A t \in Threads : pc[t] \in Writing <=> writer = t
    /\ writer # NoThread => readers = {}

ProgressInv ==
    /\ \A t \in Threads : pc[t] = "construct" => cpu_allocator = None /\ constructed = 0
    /\ \A t \in Threads : pc[t] = "publish" => cpu_allocator = None /\ constructed = 1
    /\ (\A t \in Threads : pc[t] # "publish") => cpu_allocator = constructed
    /\ constructed \in {0, 1}

ResultInv ==
    /\ \A t \in Threads : result[t] \in {None, cpu_allocator}
    /\ \A t \in Threads : pc[t] = "fetch" => cpu_allocator # None
    /\ \A t \in Threads : pc[t] = "wrunlock" => result[t] # None
    /\ \A t \in Threads :
          pc[t] \in {"rdlock", "read", "wrlock"} \cup (Writing \ {"wrunlock"})
             => result[t] = None

EngineInv == EngineTypeOK /\ RWLockInv /\ ProgressInv /\ ResultInv
-----------------------------------------------------------------------------
LEMMA OneWriter ==
    ASSUME RWLockInv, NEW s \in Threads, NEW t \in Threads,
           pc[s] \in Writing, pc[t] \in Writing \cup Reading
    PROVE  s = t
BY NoThreadAssumption DEF RWLockInv, Reading, Writing

LEMMA InitEngineInv == EngineInit => EngineInv
BY NoThreadAssumption
   DEF EngineInit, Lock!Init, EngineInv, EngineTypeOK, RWLockInv, ProgressInv,
   ResultInv, Reading, Writing, None

LEMMA EngineCallStep == ASSUME EngineInv, NEW t \in Threads, Call(t) PROVE EngineInv'
<1> USE DEF EngineInv, Call, Step, EngineTypeOK, None
<1>1. EngineTypeOK'
  OBVIOUS
<1>2. RWLockInv'
  BY DEF RWLockInv, Reading, Writing
<1>3. ProgressInv'
  BY DEF ProgressInv
<1>4. ResultInv'
  BY DEF ResultInv, Writing
<1> QED BY <1>1, <1>2, <1>3, <1>4

LEMMA ReadLockStep == ASSUME EngineInv, NEW t \in Threads, ReadLock(t) PROVE EngineInv'
<1> USE DEF EngineInv, ReadLock, Lock!LockShared, Step, EngineTypeOK,
   None
<1>1. EngineTypeOK'
  BY DEF Reading
<1>2. RWLockInv'
  BY DEF RWLockInv, Reading, Writing
<1>3. ProgressInv'
  BY DEF ProgressInv
<1>4. ResultInv'
  BY DEF ResultInv, Writing
<1> QED BY <1>1, <1>2, <1>3, <1>4

LEMMA ReadStep == ASSUME EngineInv, NEW t \in Threads, Read(t) PROVE EngineInv'
<1> USE DEF EngineInv, Read, Step, EngineTypeOK, None
<1>1. EngineTypeOK'
  BY DEF Reading
<1>2. RWLockInv'
  BY DEF RWLockInv, Reading, Writing
<1>3. ProgressInv'
  BY DEF ProgressInv
<1>4. ResultInv'
  BY DEF ResultInv, Writing
<1> QED BY <1>1, <1>2, <1>3, <1>4

LEMMA ReadUnlockStep == ASSUME EngineInv, NEW t \in Threads, ReadUnlock(t)
      PROVE EngineInv'
<1> USE
   DEF EngineInv, ReadUnlock, Lock!Unlock, Step, EngineTypeOK, None
<1>1. EngineTypeOK'
  OBVIOUS
<1>2. RWLockInv'
  BY DEF RWLockInv, Reading, Writing
<1>3. ProgressInv'
  BY DEF ProgressInv
<1>4. ResultInv'
  BY DEF ResultInv, Writing
<1> QED BY <1>1, <1>2, <1>3, <1>4

LEMMA WriteLockStep == ASSUME EngineInv, NEW t \in Threads, WriteLock(t) PROVE EngineInv'
<1> USE
   DEF EngineInv, WriteLock, Lock!Lock, Step, EngineTypeOK, None
<1>1. EngineTypeOK'
  BY DEF Writing
<1>2. RWLockInv'
  BY NoThreadAssumption DEF RWLockInv, Reading, Writing
<1>3. ProgressInv'
  BY DEF ProgressInv
<1>4. ResultInv'
  BY DEF ResultInv, Writing
<1> QED BY <1>1, <1>2, <1>3, <1>4

LEMMA RecheckStep == ASSUME EngineInv, NEW t \in Threads, Recheck(t) PROVE EngineInv'
<1> USE DEF EngineInv, Recheck, Step, EngineTypeOK, None
<1>1. EngineTypeOK'
  BY DEF Writing
<1>2. RWLockInv'
  BY DEF RWLockInv, Reading, Writing
<1>3. ProgressInv'
  <2>1. \A s \in Threads : pc[s] # "publish"
    BY OneWriter DEF Writing
  <2> QED BY <2>1 DEF ProgressInv
<1>4. ResultInv'
  BY DEF ResultInv, Writing
<1> QED BY <1>1, <1>2, <1>3, <1>4

LEMMA ConstructStep == ASSUME EngineInv, NEW t \in Threads, Construct(t) PROVE EngineInv'
<1> USE DEF EngineInv, Construct, Step, EngineTypeOK, None
<1>1. EngineTypeOK'
  BY DEF Writing
<1>2. RWLockInv'
  BY DEF RWLockInv, Reading, Writing
<1>3. ProgressInv'
  <2>1. \A s \in Threads : s # t => pc[s] \notin {"construct", "publish"}
    BY OneWriter DEF Writing
  <2> QED BY <2>1 DEF ProgressInv
<1>4. ResultInv'
  BY DEF ResultInv, Writing
<1> QED BY <1>1, <1>2, <1>3, <1>4

LEMMA PublishStep == ASSUME EngineInv, NEW t \in Threads, Publish(t) PROVE EngineInv'
<1> USE DEF EngineInv, Publish, Step, EngineTypeOK, None
<1>1. EngineTypeOK'
  BY DEF Writing
<1>2. RWLockInv'
  BY DEF RWLockInv, Reading, Writing
<1>3. ProgressInv'
  <2>1. \A s \in Threads : s # t => pc[s] \notin {"construct", "publish"}
    BY OneWriter DEF Writing
  <2> QED BY <2>1 DEF ProgressInv
<1>4. ResultInv'
  BY DEF ProgressInv, ResultInv, Writing
<1> QED BY <1>1, <1>2, <1>3, <1>4

LEMMA FetchStep == ASSUME EngineInv, NEW t \in Threads, Fetch(t) PROVE EngineInv'
<1> USE DEF EngineInv, Fetch, Step, EngineTypeOK, None
<1>1. EngineTypeOK'
  BY DEF Writing
<1>2. RWLockInv'
  BY DEF RWLockInv, Reading, Writing
<1>3. ProgressInv'
  BY DEF ProgressInv
<1>4. ResultInv'
  BY DEF ResultInv, Writing
<1> QED BY <1>1, <1>2, <1>3, <1>4

LEMMA WriteUnlockStep == ASSUME EngineInv, NEW t \in Threads, WriteUnlock(t)
      PROVE EngineInv'
<1> USE DEF EngineInv, WriteUnlock, Lock!Unlock, Step, EngineTypeOK,
   None
<1>1. EngineTypeOK'
  OBVIOUS
<1>2. RWLockInv'
  BY NoThreadAssumption DEF RWLockInv, Reading, Writing
<1>3. ProgressInv'
  BY DEF ProgressInv
<1>4. ResultInv'
  BY DEF ResultInv, Writing
<1> QED BY <1>1, <1>2, <1>3, <1>4

LEMMA NextEngineInv == EngineInv /\ [EngineNext]_engineVars => EngineInv'
<1>1. ASSUME EngineInv, UNCHANGED engineVars PROVE EngineInv'
  BY <1>1 DEF engineVars, EngineInv, EngineTypeOK, RWLockInv, ProgressInv, ResultInv
<1>2. ASSUME EngineInv, EngineNext PROVE EngineInv'
  BY <1>2, EngineCallStep, ReadLockStep, ReadStep, ReadUnlockStep, WriteLockStep, RecheckStep,
     ConstructStep, PublishStep, FetchStep, WriteUnlockStep DEF EngineNext, InCall
<1> QED BY <1>1, <1>2

THEOREM EngineInductive == EngineSpec => []EngineInv
BY InitEngineInv, NextEngineInv, PTL DEF EngineSpec
-----------------------------------------------------------------------------
\* Every variable keeps its type.
THEOREM EngineTypeCorrect == EngineSpec => []EngineTypeOK
<1>1. EngineInv => EngineTypeOK
  BY DEF EngineInv
<1> QED BY <1>1, EngineInductive, PTL

\* The pointer is stored by a thread that is alone with it.
THEOREM NoRace == EngineSpec => []NoDataRace
<1>1. EngineInv => NoDataRace
  BY OneWriter DEF EngineInv, NoDataRace, Reading, Writing
<1> QED BY <1>1, EngineInductive, PTL

\* At most one allocator is constructed, and only that one is ever stored.
THEOREM OneIsMade == EngineSpec => []OneAllocator
<1>1. EngineInv => OneAllocator
  BY DEF EngineInv, ProgressInv, OneAllocator
<1> QED BY <1>1, EngineInductive, PTL
-----------------------------------------------------------------------------
(* Every step is a step of OnceCell, or leaves its variables alone. *)

LEMMA InitOnceCell == EngineInit => Abstract!Init
BY DEF EngineInit, Stage, Got, Abstract!Init

LEMMA NextOnceCell ==
    EngineInv /\ [EngineNext]_engineVars => [Abstract!Next]_(Abstract!vars)
<1> SUFFICES ASSUME EngineInv, [EngineNext]_engineVars
             PROVE  \/ Abstract!Next
                    \/ UNCHANGED <<cpu_allocator, Stage, Got>>
  BY DEF Abstract!vars
<1> USE DEF EngineInv
<1>1. CASE UNCHANGED engineVars
  BY <1>1 DEF engineVars, Stage, Got
<1>2. ASSUME NEW t \in Threads, Call(t) PROVE Abstract!Call(t)
  <2>1. Stage[t] = "idle" /\ Stage' = [Stage EXCEPT ![t] = "pending"]
    BY <1>2 DEF Call, Step, Stage, EngineTypeOK, None
  <2>2. Got' = [Got EXCEPT ![t] = None]
    BY <1>2 DEF Call, Step, Got, EngineTypeOK
  <2> QED BY <1>2, <2>1, <2>2 DEF Call, Abstract!Call
<1>3. ASSUME NEW t \in Threads, ReadLock(t) \/ WriteLock(t) \/ Construct(t)
      PROVE  UNCHANGED <<cpu_allocator, Stage, Got>>
  BY <1>3 DEF ReadLock, WriteLock, Construct, Step, Stage,
     Got, EngineTypeOK
<1>4. ASSUME NEW t \in Threads, Read(t)
      PROVE  Abstract!Get(t) \/ UNCHANGED <<cpu_allocator, Stage, Got>>
  <2>1. Stage[t] = "pending" /\ Got' = [Got EXCEPT ![t] = cpu_allocator]
    BY <1>4 DEF Read, Step, Stage, Got, EngineTypeOK
  <2>2. CASE cpu_allocator = None
    <3>1. UNCHANGED result
      BY <1>4, <2>2 DEF Read, Step, ResultInv, EngineTypeOK
    <3> QED BY <1>4, <2>2, <3>1
       DEF Read, Step, Stage, Got, ResultInv, EngineTypeOK
  <2>3. CASE cpu_allocator # None
    <3>1. Stage' = [Stage EXCEPT ![t] = "done"]
      BY <1>4, <2>3 DEF Read, Step, Stage, EngineTypeOK
    <3> QED BY <1>4, <2>1, <2>3, <3>1 DEF Read, Abstract!Get
  <2> QED BY <2>2, <2>3
<1>5. ASSUME NEW t \in Threads, ReadUnlock(t)
      PROVE  Abstract!Return(t) \/ UNCHANGED <<cpu_allocator, Stage, Got>>
  <2>1. UNCHANGED <<cpu_allocator, result, Got>>
    BY <1>5 DEF ReadUnlock, Step, Got, EngineTypeOK
  <2>2. CASE result[t] = None
    BY <1>5, <2>1, <2>2 DEF ReadUnlock, Step, Stage, EngineTypeOK
  <2>3. CASE result[t] # None
    <3>1. Stage[t] = "done" /\ Stage' = [Stage EXCEPT ![t] = "idle"]
      BY <1>5, <2>3 DEF ReadUnlock, Step, Stage, EngineTypeOK
    <3> QED BY <2>1, <3>1 DEF Abstract!Return
  <2> QED BY <2>2, <2>3
<1>6. ASSUME NEW t \in Threads, Recheck(t)
      PROVE  Abstract!Get(t) \/ UNCHANGED <<cpu_allocator, Stage, Got>>
  <2>1. CASE cpu_allocator = None
    BY <1>6, <2>1 DEF Recheck, Step, Stage, Got, EngineTypeOK
  <2>2. CASE cpu_allocator # None
    <3>1. Stage[t] = "pending" /\ Stage' = [Stage EXCEPT ![t] = "done"]
      BY <1>6, <2>2 DEF Recheck, Step, Stage, EngineTypeOK
    <3>2. Got' = [Got EXCEPT ![t] = cpu_allocator]
      BY <1>6, <2>2 DEF Recheck, Step, Got, EngineTypeOK
    <3> QED BY <1>6, <2>2, <3>1, <3>2 DEF Recheck, Abstract!Get
  <2> QED BY <2>1, <2>2
<1>7. ASSUME NEW t \in Threads, Publish(t) PROVE Abstract!Get(t)
  <2>1. cpu_allocator = None /\ cpu_allocator' = 1
    BY <1>7 DEF Publish, Step, ProgressInv
  <2>2. \A s \in Threads : pc[s] # "fetch"
    BY <1>7, OneWriter DEF Publish, Step, Writing
  <2>3. Stage[t] = "pending" /\ Stage' = [Stage EXCEPT ![t] = "done"]
    BY <1>7 DEF Publish, Step, Stage, EngineTypeOK
  <2>4. Got' = [Got EXCEPT ![t] = cpu_allocator']
    BY <1>7, <2>2 DEF Publish, Step, Got, EngineTypeOK
  <2> QED BY <2>1, <2>3, <2>4 DEF Abstract!Get
<1>8. ASSUME NEW t \in Threads, Fetch(t)
      PROVE  UNCHANGED <<cpu_allocator, Stage, Got>>
  BY <1>8 DEF Fetch, Step, Stage, Got, EngineTypeOK
<1>9. ASSUME NEW t \in Threads, WriteUnlock(t) PROVE Abstract!Return(t)
  <2>1. Stage[t] = "done" /\ Stage' = [Stage EXCEPT ![t] = "idle"]
    BY <1>9 DEF WriteUnlock, Step, Stage, EngineTypeOK
  <2>2. UNCHANGED <<cpu_allocator, Got>>
    BY <1>9 DEF WriteUnlock, Step, Got, EngineTypeOK
  <2> QED BY <2>1, <2>2 DEF Abstract!Return
<1> QED BY <1>1, <1>2, <1>3, <1>4, <1>5, <1>6, <1>7, <1>8, <1>9
           DEF EngineNext, InCall, Abstract!Next

\* However many threads race to be first, every call returns the one allocator
\* that the first call to take effect has made.
THEOREM EngineRefinement == EngineSpec => ImplementsOnceCell
BY InitOnceCell, NextOnceCell, EngineInductive, PTL
   DEF EngineSpec, ImplementsOnceCell, Abstract!Spec
=============================================================================
