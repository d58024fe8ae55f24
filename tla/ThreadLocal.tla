---------------------------- MODULE ThreadLocal ----------------------------
(***************************************************************************)
(* core/ThreadLocal.h over POSIX keys: per key and thread one object,      *)
(* made at the first get() and deleted by the key's destructor when the    *)
(* thread ends.  The system gives the id of a thread that has ended to a   *)
(* new thread, so an object is named by its key, its thread's id and by    *)
(* how many threads had that id before.                                    *)
(***************************************************************************)
EXTENDS Naturals

CONSTANTS Threads,    \* ids of threads
          Keys,       \* the ThreadLocal objects, each with its own POSIX key
          MaxLives    \* bound: how many threads get the same id

ASSUME MaxLivesAssumption == MaxLives \in Nat \ {0}

VARIABLES life,    \* life[t]: how many threads have had the id t
          alive,   \* alive[t]: the last of them is running
          slot     \* slot[k][t]: life of the thread whose object it holds, 0 for nullptr

InitLocal == /\ life = [t \in Threads |-> 1]
             /\ alive = [t \in Threads |-> TRUE]
             /\ slot = [k \in Keys |-> [t \in Threads |-> 0]]

Pointers == [key : Keys, owner : Threads, life : 1..MaxLives]

\* The object has been made and not been deleted.
Exists(p) == slot[p.key][p.owner] = p.life

\* get(false): what the thread sees, which may be null.
Get(k, t) == slot[k][t]

\* get(): a new object in an empty slot.
Create(k, t) ==
    /\ Get(k, t) = 0
    /\ slot' = [slot EXCEPT ![k][t] = life[t]]
    /\ UNCHANGED <<life, alive>>

\* data_destructor runs for every key of a thread that ends.
DeleteAll(t) == slot' = [k \in Keys |-> [slot[k] EXCEPT ![t] = 0]]

EndThread(t) ==
    /\ alive[t]
    /\ DeleteAll(t)
    /\ alive' = [alive EXCEPT ![t] = FALSE]
    /\ UNCHANGED life

StartThread(t) ==
    /\ ~alive[t] /\ life[t] < MaxLives
    /\ alive' = [alive EXCEPT ![t] = TRUE]
    /\ life' = [life EXCEPT ![t] = @ + 1]
    /\ UNCHANGED slot
=============================================================================
