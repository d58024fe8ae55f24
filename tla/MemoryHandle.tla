---------------------------- MODULE MemoryHandle ----------------------------
(***************************************************************************)
(* math/MemoryHandle.cpp over the pool allocator of the storage engine: a  *)
(* handle owns one buffer from its construction to its destruction, and    *)
(* asks for a size rounded up to a size class so that buffers are reused.  *)
(***************************************************************************)
EXTENDS PoolAllocator, FiniteSets, Functions

CONSTANTS Handles,    \* CpuMemoryHandle objects alive at the same time, at most
          Requests,   \* sizes their users ask for
          NoBuf       \* the handle is not constructed

ASSUME RequestsAssumption == Requests \subseteq Nat
ASSUME NoBufAssumption == NoBuf \notin Bufs

VARIABLES size,   \* size[h]: _size, the request
          buf     \* buf[h]: _buf, or NoBuf

vars == <<heap, pool, pool_memory_size, failed, destroyed, size, buf>>

\* _alloc_size.  A request of 0 is only logged, and gets 256 bytes.
AllocSize(s) ==
    IF s <= 256 THEN 256
    ELSE IF s <= 512 THEN 512
    ELSE IF s <= 65536 THEN ((s + 1023) \div 1024) * 1024
    ELSE s

ASSUME ClassesCover == \A s \in Requests : AllocSize(s) \in Classes

\* Sizes are numbers of a size_t, so there are finitely many of them.
ASSUME ClassesFinite == IsFiniteSet(Classes)

Live == {h \in Handles : buf[h] # NoBuf}

Init == /\ InitPool
        /\ size = [h \in Handles |-> 0]
        /\ buf = [h \in Handles |-> NoBuf]

MayRun == ~failed /\ ~destroyed

Create(h, s) ==
    /\ MayRun
    /\ h \notin Live
    /\ \/ \E b \in Bufs : /\ AllocPooled(AllocSize(s), b) \/ AllocSystem(AllocSize(s), b)
                          /\ buf' = [buf EXCEPT ![h] = b]
       \/ AllocFails(AllocSize(s)) /\ UNCHANGED buf
    /\ size' = [size EXCEPT ![h] = s]

Destroy(h) ==
    /\ MayRun
    /\ h \in Live
    /\ Free(buf[h], AllocSize(size[h]))
    /\ buf' = [buf EXCEPT ![h] = NoBuf]
    /\ UNCHANGED size

\* The storage engine goes away at the end of the process, after its handles.
DestroyEngine ==
    /\ MayRun
    /\ Live = {}
    /\ DestroyPool
    /\ UNCHANGED <<size, buf>>

Next == \/ \E h \in Handles, s \in Requests : Create(h, s)
        \/ \E h \in Handles : Destroy(h)
        \/ DestroyEngine

Spec == Init /\ [][Next]_vars
-----------------------------------------------------------------------------
TypeOK == /\ heap \in [Bufs -> Nat]
          /\ pool \in [Classes -> Seq(Bufs)]
          /\ pool_memory_size \in Nat
          /\ failed \in BOOLEAN /\ destroyed \in BOOLEAN
          /\ size \in [Handles -> Nat]
          /\ buf \in [Handles -> Bufs \cup {NoBuf}]

\* A buffer has one owner: no two handles write to the same memory, a buffer is
\* in one stack once, and what a handle uses is not in the pool.
NoSharedBuffer ==
    /\ \A g, h \in Live : buf[g] = buf[h] => g = h
    /\ \A h \in Live : buf[h] \notin Pooled
    /\ \A c, d \in Classes : \A i \in 1..Len(pool[c]), j \in 1..Len(pool[d]) :
          pool[c][i] = pool[d][j] => c = d /\ i = j

\* Recycling respects sizes: the block under a handle is allocated and at least as
\* long as the request, and every pooled block is as long as its stack says.
BlocksFit ==
    /\ \A h \in Live : heap[buf[h]] >= size[h] /\ heap[buf[h]] > 0
    /\ \A c \in Classes : \A i \in 1..Len(pool[c]) : heap[pool[c][i]] = c

\* Every block taken from the system is in a handle or in the pool.
NoLeak == \A b \in Bufs : heap[b] > 0 => b \in Pooled \/ \E h \in Live : buf[h] = b

\* A pool that retains anything has a counter that is not zero, although a hit sets
\* the counter to the size of one buffer; so with a limit the next miss can purge.
CountedIfPooled == Pooled # {} => pool_memory_size > 0

\* The bytes in the pool, by size class, and all of them
BytesOf == [c \in Classes |-> c * Len(pool[c])]
PooledBytes == SumFunction(BytesOf)

Exact == pool_memory_size = PooledBytes

\* The counter goes wrong by reuse only: free, a purge and a miss keep an exact
\* counter exact, a hit may not.
DriftsOnlyByReuse ==
    [][Exact /\ ~Exact' =>
          \E c \in Classes : Len(pool'[c]) < Len(pool[c]) /\ pool_memory_size' = c]_vars

\* When the engine is gone the system has everything back.
NothingLeft == destroyed => \A b \in Bufs : heap[b] = 0
=============================================================================
