--------------------------- MODULE PoolAllocator ---------------------------
(***************************************************************************)
(* math/PoolAllocator.cpp over the CpuAllocator of math/Allocator.h.  The  *)
(* pool keeps freed buffers in stacks, one per size, and serves the next   *)
(* request of that size from it.  alloc and free run under one mutex, so   *)
(* each is one step; a limit of 0 turns the pool off.                      *)
(*                                                                         *)
(* posix_memalign may fail.  CC_CHECK_EQ only logs that, and alloc returns *)
(* a pointer variable that was never written: what follows is undefined,   *)
(* and the model stops there (failed).                                     *)
(***************************************************************************)
EXTENDS Integers, Sequences

CONSTANTS Bufs,        \* addresses the system can hand out
          Classes,     \* sizes asked of the pool
          SizeLimit    \* _size_limit, the flag pool_limit_size

ASSUME ClassesAssumption == Classes \subseteq Nat \ {0}
ASSUME SizeLimitAssumption == SizeLimit \in Nat

VARIABLES heap,               \* heap[b]: size of the block at b, 0 if none
          pool,               \* _pool: the stack of each size, top last
          pool_memory_size,   \* _pool_memory_size
          failed,             \* posix_memalign has failed
          destroyed           \* the pool has been destroyed

poolVars == <<heap, pool, pool_memory_size, failed, destroyed>>

InitPool == /\ heap = [b \in Bufs |-> 0]
            /\ pool = [c \in Classes |-> <<>>]
            /\ pool_memory_size = 0
            /\ failed = FALSE
            /\ destroyed = FALSE

Pooled == {b \in Bufs : \E c \in Classes : \E i \in 1..Len(pool[c]) : pool[c][i] = b}

\* The pool holds a buffer of size c.
Has(c) == SizeLimit > 0 /\ pool[c] # <<>>

\* free_all(): gives every pooled buffer back to the system.
FreeAll == /\ heap' = [b \in Bufs |-> IF b \in Pooled THEN 0 ELSE heap[b]]
           /\ pool' = [c \in Classes |-> <<>>]
           /\ pool_memory_size' = 0

\* A miss finds that the pool retains its limit or more.
Purges == SizeLimit > 0 /\ pool_memory_size >= SizeLimit

\* (mutant of AllocPooled: the buffer stays in the stack)
AllocPooledKeep(c, b) ==
    /\ Has(c)
    /\ b = pool[c][Len(pool[c])]
    /\ pool_memory_size' = c
    /\ UNCHANGED <<heap, pool, failed, destroyed>>

\* alloc(c) takes b from the pool.  The counter is set to c, not lowered by c.
AllocPooled(c, b) ==
    /\ Has(c)
    /\ b = pool[c][Len(pool[c])]
    /\ pool' = [pool EXCEPT ![c] = SubSeq(@, 1, Len(@) - 1)]
    /\ pool_memory_size' = c
    /\ UNCHANGED <<heap, failed, destroyed>>

\* What free_all() gives back on the way.
Purged == IF Purges THEN Pooled ELSE {}

\* (mutant of TakeBlock: free_all() clears the map and frees no buffer)
TakeBlockLeak(c, b) == heap[b] = 0 /\ heap' = [heap EXCEPT ![b] = c]

\* The system returns b, free by now, as a block of c bytes.
TakeBlock(c, b) ==
    /\ heap[b] = 0 \/ b \in Purged
    /\ heap' = [x \in Bufs |-> IF x = b THEN c ELSE IF x \in Purged THEN 0 ELSE heap[x]]

\* alloc(c) gets b from the system, after free_all() if the pool is over its limit.
AllocSystem(c, b) ==
    /\ ~Has(c)
    /\ TakeBlock(c, b)
    /\ pool' = [d \in Classes |-> IF Purges THEN <<>> ELSE pool[d]]
    /\ pool_memory_size' = IF Purges THEN 0 ELSE pool_memory_size
    /\ UNCHANGED <<failed, destroyed>>

\* The system has no block for c, even after free_all().
AllocFails(c) ==
    /\ ~Has(c)
    /\ failed' = TRUE
    /\ IF Purges THEN FreeAll ELSE UNCHANGED <<heap, pool, pool_memory_size>>
    /\ UNCHANGED destroyed

\* (mutant of Free: the buffer goes to the stack of the smallest size)
FreeToSmallest(b, c) ==
    /\ IF SizeLimit > 0
       THEN LET least == CHOOSE d \in Classes : \A e \in Classes : d <= e IN
            /\ pool' = [pool EXCEPT ![least] = Append(@, b)]
            /\ pool_memory_size' = pool_memory_size + c
            /\ UNCHANGED heap
       ELSE heap' = [heap EXCEPT ![b] = 0] /\ UNCHANGED <<pool, pool_memory_size>>
    /\ UNCHANGED <<failed, destroyed>>

\* (mutant of Free: does not count what it retains)
FreeUncounted(b, c) ==
    /\ IF SizeLimit > 0
       THEN /\ pool' = [pool EXCEPT ![c] = Append(@, b)]
            /\ UNCHANGED <<heap, pool_memory_size>>
       ELSE heap' = [heap EXCEPT ![b] = 0] /\ UNCHANGED <<pool, pool_memory_size>>
    /\ UNCHANGED <<failed, destroyed>>

\* free(b, c): nothing here looks at the limit.
Free(b, c) ==
    /\ IF SizeLimit > 0
       THEN /\ pool' = [pool EXCEPT ![c] = Append(@, b)]
            /\ pool_memory_size' = pool_memory_size + c
            /\ UNCHANGED heap
       ELSE /\ heap' = [heap EXCEPT ![b] = 0]
            /\ UNCHANGED <<pool, pool_memory_size>>
    /\ UNCHANGED <<failed, destroyed>>

\* ~PoolAllocator
DestroyPool == FreeAll /\ destroyed' = TRUE /\ UNCHANGED failed
=============================================================================
