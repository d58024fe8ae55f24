------------------------------- MODULE Queue -------------------------------
(***************************************************************************)
(* core/Queue.h: an unbounded queue behind one mutex and one condition     *)
(* variable that both the consumers (waiting for an element) and the       *)
(* callers of wait_empty (waiting for none) sleep on.  The deque and its   *)
(* counter _num_elements change one after the other inside the critical    *)
(* section, and size() and empty() read the counter without the mutex.     *)
(***************************************************************************)
EXTENDS Integers, Sequences

CONSTANTS Threads,      \* callers of the queue
          Values,       \* elements
          NoElem,       \* the value-initialised T of a call without element
          NoThread,     \* the mutex is free
          MaxCalls,     \* bound: calls made by each thread
          MaxSpurious   \* bound: spurious wakeups of the condition variable

ASSUME NoElemAssumption == NoElem \notin Values
ASSUME NoThreadAssumption == NoThread \notin Threads
ASSUME BoundsAssumption == MaxCalls \in Nat /\ MaxSpurious \in Nat

VARIABLES elements,       \* _elements
          num_elements,   \* _num_elements
          queue_lock,     \* the thread that holds _queue_lock, or NoThread
          pc,             \* where each thread is in its call
          op,             \* the operation of each thread's latest call
          val,            \* the element it enqueues or has dequeued
          calls,          \* calls started by each thread
          spurious        \* spurious wakeups so far

vars == <<elements, num_elements, queue_lock, pc, op, val, calls, spurious>>

Ops == {"enqueue", "dequeue", "wait_empty"}

\* "acquire": wants the mutex (a new call or a woken sleeper); "locked": holds
\* it and is about to evaluate the predicate of its operation; "sleep": inside
\* _cv.wait; "count": has changed the deque and not yet the counter; "unlock":
\* has finished and still holds the mutex.
PCs == {"idle", "acquire", "locked", "sleep", "count", "unlock"}

Holding == {"locked", "count", "unlock"}

Init == /\ elements = <<>>
        /\ num_elements = 0
        /\ queue_lock = NoThread
        /\ pc = [t \in Threads |-> "idle"]
        /\ op = [t \in Threads |-> "wait_empty"]
        /\ val = [t \in Threads |-> NoElem]
        /\ calls = [t \in Threads |-> 0]
        /\ spurious = 0

\* The unlocked observers.
Size == num_elements
Empty == num_elements = 0

\* The predicate each operation waits for.
MayProceed(t) == /\ op[t] = "dequeue" => num_elements # 0
                 /\ op[t] = "wait_empty" => num_elements = 0

Sleepers == {t \in Threads : pc[t] = "sleep"}

\* (mutant of NotifyAll: notify_one)
NotifyOne(t) ==
    \/ Sleepers = {} /\ pc' = [pc EXCEPT ![t] = "unlock"]
    \/ \E s \in Sleepers : pc' = [pc EXCEPT ![t] = "unlock", ![s] = "acquire"]

\* _cv.notify_all(): every sleeper goes back for the mutex, and t goes on.
NotifyAll(t) ==
    pc' = [s \in Threads |-> IF s = t THEN "unlock"
                             ELSE IF s \in Sleepers THEN "acquire" ELSE pc[s]]

Call(t, o, v) ==
    /\ pc[t] = "idle"
    /\ calls[t] < MaxCalls
    /\ o = "enqueue" <=> v # NoElem
    /\ calls' = [calls EXCEPT ![t] = @ + 1]
    /\ op' = [op EXCEPT ![t] = o]
    /\ val' = [val EXCEPT ![t] = v]
    /\ pc' = [pc EXCEPT ![t] = "acquire"]
    /\ UNCHANGED <<elements, num_elements, queue_lock, spurious>>

Lock(t) ==
    /\ pc[t] = "acquire"
    /\ queue_lock = NoThread
    /\ queue_lock' = t
    /\ pc' = [pc EXCEPT ![t] = "locked"]
    /\ UNCHANGED <<elements, num_elements, op, val, calls, spurious>>

\* The predicate is false: _cv.wait releases the mutex and sleeps, atomically.
Sleep(t) ==
    /\ pc[t] = "locked"
    /\ ~MayProceed(t)
    /\ pc' = [pc EXCEPT ![t] = "sleep"]
    /\ queue_lock' = NoThread
    /\ UNCHANGED <<elements, num_elements, op, val, calls, spurious>>

SpuriousWakeup(t) ==
    /\ pc[t] = "sleep"
    /\ spurious < MaxSpurious
    /\ spurious' = spurious + 1
    /\ pc' = [pc EXCEPT ![t] = "acquire"]
    /\ UNCHANGED <<elements, num_elements, queue_lock, op, val, calls>>

\* (mutant of Insert: emplace_front)
InsertInFront(t) ==
    /\ pc[t] = "locked"
    /\ op[t] = "enqueue"
    /\ elements' = <<val[t]>> \o elements
    /\ pc' = [pc EXCEPT ![t] = "count"]
    /\ UNCHANGED <<num_elements, queue_lock, op, val, calls, spurious>>

Insert(t) ==
    /\ pc[t] = "locked"
    /\ op[t] = "enqueue"
    /\ elements' = Append(elements, val[t])
    /\ pc' = [pc EXCEPT ![t] = "count"]
    /\ UNCHANGED <<num_elements, queue_lock, op, val, calls, spurious>>

CountInserted(t) ==
    /\ pc[t] = "count"
    /\ op[t] = "enqueue"
    /\ num_elements' = num_elements + 1
    /\ NotifyAll(t)
    /\ UNCHANGED <<elements, queue_lock, op, val, calls, spurious>>

Remove(t) ==
    /\ pc[t] = "locked"
    /\ op[t] = "dequeue"
    /\ MayProceed(t)
    /\ val' = [val EXCEPT ![t] = Head(elements)]
    /\ elements' = Tail(elements)
    /\ pc' = [pc EXCEPT ![t] = "count"]
    /\ UNCHANGED <<num_elements, queue_lock, op, calls, spurious>>

\* (mutant of CountRemoved: nobody is told that the queue has become empty)
RemoveUnnotified(t) ==
    /\ pc[t] = "count"
    /\ op[t] = "dequeue"
    /\ num_elements' = num_elements - 1
    /\ pc' = [pc EXCEPT ![t] = "unlock"]
    /\ UNCHANGED <<elements, queue_lock, op, val, calls, spurious>>

CountRemoved(t) ==
    /\ pc[t] = "count"
    /\ op[t] = "dequeue"
    /\ num_elements' = num_elements - 1
    /\ IF num_elements' = 0 THEN NotifyAll(t)
                            ELSE pc' = [pc EXCEPT ![t] = "unlock"]
    /\ UNCHANGED <<elements, queue_lock, op, val, calls, spurious>>

SeeEmpty(t) ==
    /\ pc[t] = "locked"
    /\ op[t] = "wait_empty"
    /\ MayProceed(t)
    /\ pc' = [pc EXCEPT ![t] = "unlock"]
    /\ UNCHANGED <<elements, num_elements, queue_lock, op, val, calls, spurious>>

\* The unique_lock is destroyed and the call returns.
Unlock(t) ==
    /\ pc[t] = "unlock"
    /\ queue_lock' = NoThread
    /\ pc' = [pc EXCEPT ![t] = "idle"]
    /\ UNCHANGED <<elements, num_elements, op, val, calls, spurious>>

InCall(t) == \/ Lock(t) \/ Sleep(t)
             \/ Insert(t) \/ CountInserted(t)
             \/ Remove(t) \/ CountRemoved(t)
             \/ SeeEmpty(t) \/ Unlock(t)

Next == \E t \in Threads :
            \/ \E o \in Ops, v \in Values \cup {NoElem} : Call(t, o, v)
            \/ SpuriousWakeup(t)
            \/ InCall(t)

Spec == Init /\ [][Next]_vars

\* A thread inside a call keeps running and a free mutex is given to one of
\* those who keep asking for it.  Weak fairness of Lock is enough, and no more
\* than std::mutex gives, because each thread makes finitely many calls.
Fairness == \A t \in Threads : WF_vars(InCall(t))

FairSpec == Spec /\ Fairness
-----------------------------------------------------------------------------
TypeOK == /\ elements \in Seq(Values)
          /\ num_elements \in Nat
          /\ queue_lock \in Threads \cup {NoThread}
          /\ pc \in [Threads -> PCs]
          /\ op \in [Threads -> Ops]
          /\ val \in [Threads -> Values \cup {NoElem}]
          /\ calls \in [Threads -> Nat]
          /\ spurious \in Nat

\* The counter that size(), empty() and both predicates trust is the length of
\* the deque, except inside the critical section of the one thread that has
\* changed the deque and not yet the counter; then it is one behind.
CountMatches ==
    num_elements = IF \E t \in Threads : pc[t] = "count" /\ op[t] = "enqueue"
                   THEN Len(elements) - 1
                   ELSE IF \E t \in Threads : pc[t] = "count" /\ op[t] = "dequeue"
                   THEN Len(elements) + 1
                   ELSE Len(elements)

\* No wakeup is lost: a thread that sleeps in dequeue or in wait_empty sleeps on
\* a predicate that is false now, although one condition variable serves both.
NoLostWakeup == \A t \in Sleepers : ~MayProceed(t)

\* dequeue never takes front() and pop_front() of an empty deque.
NoUnderflow == \A t \in Threads :
    pc[t] = "locked" /\ op[t] = "dequeue" /\ MayProceed(t) => elements # <<>>

\* What each call has reached, as FifoQueue names it: a call takes effect when
\* it changes the deque, or finds it empty.
Stage == [t \in Threads |-> IF pc[t] = "idle" THEN "idle"
                           ELSE IF pc[t] \in {"count", "unlock"} THEN "done"
                           ELSE "pending"]

Abstract == INSTANCE FifoQueue WITH q <- elements, st <- Stage

\* What the callers see is a FIFO queue whose operations are atomic, although
\* each is several steps and the deque and its counter change one by one.
ImplementsFifo == Abstract!Spec

\* Once the callers have made their calls, every call has returned but those
\* that must wait: a dequeue with nothing to take, a wait_empty with elements
\* left that nobody takes.
AllServed ==
    <>[](\A t \in Threads :
            \/ pc[t] = "idle"
            \/ op[t] = "dequeue" /\ elements = <<>>
            \/ op[t] = "wait_empty" /\ elements # <<>>)
=============================================================================
