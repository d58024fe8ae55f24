----------------------------- MODULE FifoQueue -----------------------------
(***************************************************************************)
(* What core/Queue.h promises its callers, with no mutex, condition        *)
(* variable or element counter: every call takes effect at one instant     *)
(* between its start and its return, elements leave in the order in which  *)
(* they entered, a dequeue takes effect only when there is an element and  *)
(* a wait_empty only when there is none.  Module Queue implements it.      *)
(***************************************************************************)
EXTENDS Sequences

CONSTANTS Threads,   \* callers of the queue
          Values,    \* elements
          NoElem     \* the value-initialised T of a call that has no element

VARIABLES q,    \* the elements, the oldest first
          op,   \* op[t]: the operation of t's latest call
          st,   \* st[t]: "idle", "pending" (called), "done" (took effect)
          val   \* val[t]: the element passed to enqueue or got from dequeue

vars == <<q, op, st, val>>

Ops == {"enqueue", "dequeue", "wait_empty"}

Init == /\ q = <<>>
        /\ op = [t \in Threads |-> "wait_empty"]
        /\ st = [t \in Threads |-> "idle"]
        /\ val = [t \in Threads |-> NoElem]

Call(t) ==
    /\ st[t] = "idle"
    /\ st' = [st EXCEPT ![t] = "pending"]
    /\ \E o \in Ops, v \in Values \cup {NoElem} :
          /\ o = "enqueue" <=> v # NoElem
          /\ op' = [op EXCEPT ![t] = o]
          /\ val' = [val EXCEPT ![t] = v]
    /\ UNCHANGED q

TakesEffect(t, o) ==
    /\ st[t] = "pending"
    /\ op[t] = o
    /\ st' = [st EXCEPT ![t] = "done"]
    /\ UNCHANGED op

Enqueue(t) ==
    /\ TakesEffect(t, "enqueue")
    /\ q' = Append(q, val[t])
    /\ UNCHANGED val

Dequeue(t) ==
    /\ TakesEffect(t, "dequeue")
    /\ q # <<>>
    /\ val' = [val EXCEPT ![t] = Head(q)]
    /\ q' = Tail(q)

WaitEmpty(t) ==
    /\ TakesEffect(t, "wait_empty")
    /\ q = <<>>
    /\ UNCHANGED <<q, val>>

Return(t) ==
    /\ st[t] = "done"
    /\ st' = [st EXCEPT ![t] = "idle"]
    /\ UNCHANGED <<q, op, val>>

Next == \E t \in Threads :
            Call(t) \/ Enqueue(t) \/ Dequeue(t) \/ WaitEmpty(t) \/ Return(t)

Spec == Init /\ [][Next]_vars
=============================================================================
