------------------------------ MODULE OnceCell ------------------------------
(***************************************************************************)
(* What StorageEngine::get_cpu_allocator promises: the first call to take  *)
(* effect makes the one object there will ever be, and every call returns  *)
(* it.  Module StorageEngine implements it.                                *)
(***************************************************************************)
CONSTANTS Threads,   \* callers
          Objects,   \* what the cell may hold
          None       \* nothing yet

VARIABLES cell,   \* the object
          st,     \* st[t]: "idle", "pending" (called), "done" (took effect)
          got     \* got[t]: what t's latest call returns

vars == <<cell, st, got>>

Init == /\ cell = None
        /\ st = [t \in Threads |-> "idle"]
        /\ got = [t \in Threads |-> None]

Call(t) == /\ st[t] = "idle"
           /\ st' = [st EXCEPT ![t] = "pending"]
           /\ got' = [got EXCEPT ![t] = None]
           /\ UNCHANGED cell

Get(t) == /\ st[t] = "pending"
          /\ st' = [st EXCEPT ![t] = "done"]
          /\ IF cell = None THEN cell' \in Objects ELSE cell' = cell
          /\ got' = [got EXCEPT ![t] = cell']

Return(t) == /\ st[t] = "done"
             /\ st' = [st EXCEPT ![t] = "idle"]
             /\ UNCHANGED <<cell, got>>

Next == \E t \in Threads : Call(t) \/ Get(t) \/ Return(t)

Spec == Init /\ [][Next]_vars
=============================================================================
