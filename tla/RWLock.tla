------------------------------- MODULE RWLock -------------------------------
(***************************************************************************)
(* core/Locks.h, RWLock and the two guards over it: a default POSIX        *)
(* rwlock.  A reader enters whenever nobody writes, so waiting writers are *)
(* passed by readers; unlock gives up whatever the caller holds.           *)
(***************************************************************************)
CONSTANTS Threads,   \* callers
          NoThread   \* nobody writes

VARIABLES readers,   \* threads that hold the lock in read mode
          writer     \* the thread that holds it in write mode, or NoThread

Init == readers = {} /\ writer = NoThread

LockShared(t) == /\ writer = NoThread
                 /\ readers' = readers \cup {t}
                 /\ UNCHANGED writer

Lock(t) == /\ writer = NoThread
           /\ readers = {}
           /\ writer' = t
           /\ UNCHANGED readers

Unlock(t) == /\ readers' = readers \ {t}
             /\ writer' = IF writer = t THEN NoThread ELSE writer
=============================================================================
