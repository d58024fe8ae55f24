--------------------------- MODULE StorageEngine ---------------------------
(***************************************************************************)
(* math/Storage.cpp: the process-wide pool allocator, made by the first    *)
(* call of get_cpu_allocator.  A call first looks under the read lock; if  *)
(* there is none it lets go, takes the write lock, looks again and, if     *)
(* there still is none, constructs one and stores the pointer.             *)
(***************************************************************************)
EXTENDS Integers

CONSTANTS Threads,    \* callers
          NoThread,   \* nobody holds the write lock
          MaxCalls    \* bound: calls made by each thread

ASSUME NoThreadAssumption == NoThread \notin Threads
ASSUME MaxCallsAssumption == MaxCalls \in Nat

VARIABLES readers, writer,   \* _lock
          cpu_allocator,     \* _cpu_allocator: an allocator, or None
          constructed,       \* allocators constructed, which also names them
          pc,                \* where each thread is in get_cpu_allocator
          result,            \* the pointer it has read and may return
          calls              \* calls started by each thread

engineVars == <<readers, writer, cpu_allocator, constructed, pc, result, calls>>

None == 0   \* nullptr

Lock == INSTANCE RWLock

EngineInit == /\ Lock!Init
        /\ cpu_allocator = None
        /\ constructed = 0
        /\ pc = [t \in Threads |-> "idle"]
        /\ result = [t \in Threads |-> None]
        /\ calls = [t \in Threads |-> 0]

Step(t, from, to) == pc[t] = from /\ pc' = [pc EXCEPT ![t] = to]

Call(t) ==
    /\ Step(t, "idle", "rdlock")
    /\ calls[t] < MaxCalls
    /\ calls' = [calls EXCEPT ![t] = @ + 1]
    /\ result' = [result EXCEPT ![t] = None]
    /\ UNCHANGED <<readers, writer, cpu_allocator, constructed>>

\* (mutant of ReadLock: no lock is taken to look)
ReadUnlocked(t) ==
    /\ Step(t, "rdlock", "read")
    /\ UNCHANGED <<readers, writer, cpu_allocator, constructed, result, calls>>

ReadLock(t) ==
    /\ Step(t, "rdlock", "read")
    /\ Lock!LockShared(t)
    /\ UNCHANGED <<cpu_allocator, constructed, result, calls>>

Read(t) ==
    /\ Step(t, "read", "rdunlock")
    /\ result' = [result EXCEPT ![t] = cpu_allocator]
    /\ UNCHANGED <<readers, writer, cpu_allocator, constructed, calls>>

\* (mutant of ReadUnlock: a call that found nothing keeps its read lock)
ReadUpgrade(t) ==
    /\ Step(t, "rdunlock", IF result[t] # None THEN "idle" ELSE "wrlock")
    /\ IF result[t] # None THEN Lock!Unlock(t) ELSE UNCHANGED <<readers, writer>>
    /\ UNCHANGED <<cpu_allocator, constructed, result, calls>>

\* The read guard goes out of scope, before the return or before the write lock.
ReadUnlock(t) ==
    /\ Step(t, "rdunlock", IF result[t] # None THEN "idle" ELSE "wrlock")
    /\ Lock!Unlock(t)
    /\ UNCHANGED <<cpu_allocator, constructed, result, calls>>

WriteLock(t) ==
    /\ Step(t, "wrlock", "recheck")
    /\ Lock!Lock(t)
    /\ UNCHANGED <<cpu_allocator, constructed, result, calls>>

\* (mutant of Recheck: the null seen under the read lock is trusted)
NoRecheck(t) ==
    /\ Step(t, "recheck", "construct")
    /\ UNCHANGED <<readers, writer, cpu_allocator, constructed, result, calls>>

Recheck(t) ==
    /\ Step(t, "recheck", IF cpu_allocator = None THEN "construct" ELSE "fetch")
    /\ UNCHANGED <<readers, writer, cpu_allocator, constructed, result, calls>>

Construct(t) ==
    /\ Step(t, "construct", "publish")
    /\ constructed' = constructed + 1
    /\ UNCHANGED <<readers, writer, cpu_allocator, result, calls>>

Publish(t) ==
    /\ Step(t, "publish", "fetch")
    /\ cpu_allocator' = constructed
    /\ UNCHANGED <<readers, writer, constructed, result, calls>>

Fetch(t) ==
    /\ Step(t, "fetch", "wrunlock")
    /\ result' = [result EXCEPT ![t] = cpu_allocator]
    /\ UNCHANGED <<readers, writer, cpu_allocator, constructed, calls>>

WriteUnlock(t) ==
    /\ Step(t, "wrunlock", "idle")
    /\ Lock!Unlock(t)
    /\ UNCHANGED <<cpu_allocator, constructed, result, calls>>

InCall(t) == \/ ReadLock(t) \/ Read(t) \/ ReadUnlock(t)
             \/ WriteLock(t) \/ Recheck(t) \/ Construct(t) \/ Publish(t)
             \/ Fetch(t) \/ WriteUnlock(t)

EngineNext == \E t \in Threads : Call(t) \/ InCall(t)

EngineSpec == EngineInit /\ [][EngineNext]_engineVars

\* A thread inside the call keeps running, and gets the lock when nobody who
\* excludes it keeps asking; readers may pass a writer, but only MaxCalls times.
Fairness == \A t \in Threads : WF_engineVars(InCall(t))

FairSpec == EngineSpec /\ Fairness
-----------------------------------------------------------------------------
Reading == {"read", "rdunlock"}
Writing == {"recheck", "construct", "publish", "fetch", "wrunlock"}

EngineTypeOK == /\ readers \subseteq Threads
          /\ writer \in Threads \cup {NoThread}
          /\ cpu_allocator \in Nat
          /\ constructed \in Nat
          /\ pc \in [Threads -> {"idle", "rdlock", "wrlock"} \cup Reading \cup Writing]
          /\ result \in [Threads -> Nat]
          /\ calls \in [Threads -> Nat]

\* The pointer is never stored while another thread is about to read it, so the
\* plain pointer needs no atomic: the accesses are ordered by the lock.
NoDataRace ==
    \A s, t \in Threads :
        pc[s] = "publish" /\ pc[t] \in {"read", "recheck", "publish", "fetch"} => s = t

\* However many threads find no allocator under the read lock, one is made: none
\* leaks, and none that a caller already uses is replaced.
OneAllocator == constructed <= 1 /\ cpu_allocator \in {None, constructed}

\* What each call has reached, as OnceCell names it: it takes effect when it reads
\* a pointer that is not null, or stores it.
Stage == [t \in Threads |->
             IF pc[t] = "idle" THEN "idle"
             ELSE IF \/ pc[t] \in {"fetch", "wrunlock"}
                     \/ pc[t] = "rdunlock" /\ result[t] # None THEN "done"
             ELSE "pending"]

Got == [t \in Threads |-> IF pc[t] = "fetch" THEN cpu_allocator ELSE result[t]]

Abstract == INSTANCE OnceCell
    WITH cell <- cpu_allocator, st <- Stage, got <- Got, Objects <- Nat \ {0}

\* The call behaves as one atomic step that makes the allocator if there is none
\* and returns it; in particular every call returns the same allocator, not null.
ImplementsOnceCell == Abstract!Spec

\* Every call returns: letting go of the read lock before asking for the write
\* lock is what keeps two callers from waiting for each other.
CallsReturn == \A t \in Threads : pc[t] # "idle" ~> pc[t] = "idle"
=============================================================================
