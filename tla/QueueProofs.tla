---------------------------- MODULE QueueProofs ----------------------------
(***************************************************************************)
(* For every set of threads and elements and every bound: the invariants   *)
(* of Queue, and that it implements FifoQueue.                             *)
(*                                                                         *)
(* The argument.  Mutex says that exactly the holder of queue_lock is      *)
(* inside a critical section, so at most one thread is between its two     *)
(* updates; CountInv is CountMatches told thread by thread, which is the   *)
(* form that a step preserves.  From both, a step that makes a predicate   *)
(* true is one that calls notify_all, which is NoLostWakeup.               *)
(***************************************************************************)
EXTENDS Queue, TLAPS, SequenceTheorems

Mutex == \A t \in Threads : pc[t] \in Holding <=> queue_lock = t

CountInv ==
    /\ (\A t \in Threads : pc[t] # "count") => num_elements = Len(elements)
    /\ \A t \in Threads : pc[t] = "count" =>
          \/ op[t] = "enqueue" /\ num_elements = Len(elements) - 1
          \/ op[t] = "dequeue" /\ num_elements = Len(elements) + 1

EnqueueHasElem == \A t \in Threads : op[t] = "enqueue" => val[t] # NoElem

IInv == TypeOK /\ EnqueueHasElem /\ Mutex /\ CountInv /\ NoLostWakeup
-----------------------------------------------------------------------------
\* At most one thread is inside a critical section of the queue.
LEMMA OneHolder ==
    ASSUME Mutex, NEW s \in Threads, NEW t \in Threads,
           pc[s] \in Holding, pc[t] \in Holding
    PROVE  s = t
BY DEF Mutex

\* While t evaluates its predicate the counter is the length of the deque.
LEMMA CountedWhenLocked ==
    ASSUME Mutex, CountInv, NEW t \in Threads, pc[t] = "locked"
    PROVE  num_elements = Len(elements)
<1>1. \A s \in Threads : pc[s] # "count"
  BY OneHolder DEF Holding
<1> QED BY <1>1 DEF CountInv

LEMMA HeadTail ==
    ASSUME NEW S, NEW s \in Seq(S), Len(s) # 0
    PROVE  /\ s # <<>>
           /\ Head(s) \in S
           /\ Tail(s) \in Seq(S)
           /\ Len(Tail(s)) = Len(s) - 1
BY HeadTailProperties, EmptySeq
-----------------------------------------------------------------------------
LEMMA InitIInv == Init => IInv
BY NoThreadAssumption DEF Init, IInv, TypeOK, EnqueueHasElem, Mutex, CountInv,
   NoLostWakeup, Sleepers, PCs, Ops, Holding

LEMMA CallStep ==
    ASSUME IInv, NEW t \in Threads, NEW o \in Ops,
           NEW v \in Values \cup {NoElem}, Call(t, o, v)
    PROVE  IInv'
<1> USE DEF IInv, Call
<1>1. TypeOK'
  BY DEF TypeOK, PCs
<1>2. EnqueueHasElem'
  BY DEF TypeOK, EnqueueHasElem
<1>3. Mutex'
  BY DEF TypeOK, Mutex, Holding
<1>4. CountInv'
  BY DEF TypeOK, CountInv
<1>5. NoLostWakeup'
  BY DEF TypeOK, NoLostWakeup, Sleepers, MayProceed
<1> QED BY <1>1, <1>2, <1>3, <1>4, <1>5

LEMMA SpuriousStep ==
    ASSUME IInv, NEW t \in Threads, SpuriousWakeup(t)
    PROVE  IInv'
<1> USE DEF IInv, SpuriousWakeup
<1>1. TypeOK' /\ EnqueueHasElem'
  BY DEF TypeOK, PCs, EnqueueHasElem
<1>2. Mutex'
  BY DEF TypeOK, Mutex, Holding
<1>3. CountInv'
  BY DEF TypeOK, CountInv
<1>4. NoLostWakeup'
  BY DEF TypeOK, NoLostWakeup, Sleepers, MayProceed
<1> QED BY <1>1, <1>2, <1>3, <1>4

LEMMA LockStep ==
    ASSUME IInv, NEW t \in Threads, Lock(t)
    PROVE  IInv'
<1> USE DEF IInv, Lock
<1>1. TypeOK' /\ EnqueueHasElem'
  BY DEF TypeOK, PCs, EnqueueHasElem
<1>2. Mutex'
  BY NoThreadAssumption DEF TypeOK, Mutex, Holding
<1>3. CountInv'
  BY DEF TypeOK, CountInv
<1>4. NoLostWakeup'
  BY DEF TypeOK, NoLostWakeup, Sleepers, MayProceed
<1> QED BY <1>1, <1>2, <1>3, <1>4

LEMMA SleepStep ==
    ASSUME IInv, NEW t \in Threads, Sleep(t)
    PROVE  IInv'
<1> USE DEF IInv, Sleep
<1>1. TypeOK' /\ EnqueueHasElem'
  BY DEF TypeOK, PCs, EnqueueHasElem
<1>2. Mutex'
  BY NoThreadAssumption DEF TypeOK, Mutex, Holding
<1>3. CountInv'
  BY DEF TypeOK, CountInv
<1>4. NoLostWakeup'
  BY DEF TypeOK, NoLostWakeup, Sleepers, MayProceed
<1> QED BY <1>1, <1>2, <1>3, <1>4

LEMMA InsertStep ==
    ASSUME IInv, NEW t \in Threads, Insert(t)
    PROVE  IInv'
<1> USE DEF IInv, Insert
<1>1. val[t] \in Values
  BY DEF TypeOK, EnqueueHasElem
<1>2. /\ elements' \in Seq(Values)
      /\ Len(elements') = Len(elements) + 1
  BY <1>1 DEF TypeOK
<1>3. TypeOK' /\ EnqueueHasElem'
  BY <1>2 DEF TypeOK, PCs, EnqueueHasElem
<1>4. Mutex'
  BY DEF TypeOK, Mutex, Holding
<1>5. CountInv'
  <2>1. num_elements = Len(elements)
    BY CountedWhenLocked
  <2>2. \A s \in Threads : s # t => pc[s] # "count"
    BY OneHolder DEF Holding
  <2>3. pc'[t] = "count" /\ op'[t] = "enqueue"
    BY DEF TypeOK
  <2>4. num_elements' = Len(elements') - 1
    BY <1>2, <2>1 DEF TypeOK
  <2> QED BY <2>2, <2>3, <2>4 DEF TypeOK, CountInv
<1>6. NoLostWakeup'
  BY DEF TypeOK, NoLostWakeup, Sleepers, MayProceed
<1> QED BY <1>3, <1>4, <1>5, <1>6

LEMMA RemoveStep ==
    ASSUME IInv, NEW t \in Threads, Remove(t)
    PROVE  IInv'
<1> USE DEF IInv, Remove
<1>1. num_elements = Len(elements) /\ num_elements # 0
  BY CountedWhenLocked DEF MayProceed
<1>2. /\ Head(elements) \in Values
      /\ elements' \in Seq(Values)
      /\ Len(elements') = Len(elements) - 1
  BY <1>1, HeadTail DEF TypeOK
<1>3. TypeOK' /\ EnqueueHasElem'
  BY <1>2 DEF TypeOK, PCs, EnqueueHasElem
<1>4. Mutex'
  BY DEF TypeOK, Mutex, Holding
<1>5. CountInv'
  <2>1. \A s \in Threads : s # t => pc[s] # "count"
    BY OneHolder DEF Holding
  <2>2. pc'[t] = "count" /\ op'[t] = "dequeue"
    BY DEF TypeOK
  <2>3. num_elements' = Len(elements') + 1
    BY <1>1, <1>2 DEF TypeOK
  <2> QED BY <2>1, <2>2, <2>3 DEF TypeOK, CountInv
<1>6. NoLostWakeup'
  BY DEF TypeOK, NoLostWakeup, Sleepers, MayProceed
<1> QED BY <1>3, <1>4, <1>5, <1>6

\* notify_all leaves nobody asleep and only t leaves its critical section.
LEMMA NotifyAllEffect ==
    ASSUME TypeOK, NEW t \in Threads, pc[t] = "count", NotifyAll(t)
    PROVE  /\ pc' \in [Threads -> PCs]
           /\ pc'[t] = "unlock"
           /\ \A s \in Threads : pc'[s] # "sleep"
           /\ \A s \in Threads : pc'[s] = "count" <=> s # t /\ pc[s] = "count"
           /\ \A s \in Threads : pc'[s] \in Holding <=> pc[s] \in Holding
BY DEF TypeOK, PCs, NotifyAll, Sleepers, Holding

LEMMA CountInsertedStep ==
    ASSUME IInv, NEW t \in Threads, CountInserted(t)
    PROVE  IInv'
<1> USE DEF IInv, CountInserted
<1>1. TypeOK' /\ EnqueueHasElem'
  BY NotifyAllEffect DEF TypeOK, EnqueueHasElem
<1>2. Mutex'
  BY NotifyAllEffect DEF Mutex
<1>3. CountInv'
  <2>1. \A s \in Threads : s # t => pc[s] # "count"
    BY OneHolder DEF Holding
  <2>2. num_elements = Len(elements) - 1
    BY DEF CountInv
  <2> QED BY <2>1, <2>2, NotifyAllEffect DEF TypeOK, CountInv
<1>4. NoLostWakeup'
  BY NotifyAllEffect DEF NoLostWakeup, Sleepers
<1> QED BY <1>1, <1>2, <1>3, <1>4

LEMMA CountRemovedStep ==
    ASSUME IInv, NEW t \in Threads, CountRemoved(t)
    PROVE  IInv'
<1> USE DEF IInv, CountRemoved
<1>1. \A s \in Threads : s # t => pc[s] # "count"
  BY OneHolder DEF Holding
<1>2. num_elements = Len(elements) + 1 /\ Len(elements) \in Nat
  BY DEF CountInv, TypeOK
<1>3. CASE num_elements' = 0
  <2> USE <1>3
  <2>1. NotifyAll(t)
    OBVIOUS
  <2>2. TypeOK' /\ EnqueueHasElem'
    BY <2>1, NotifyAllEffect DEF TypeOK, EnqueueHasElem
  <2>3. Mutex'
    BY <2>1, NotifyAllEffect DEF Mutex
  <2>4. CountInv'
    BY <1>1, <1>2, <2>1, NotifyAllEffect DEF TypeOK, CountInv
  <2>5. NoLostWakeup'
    BY <2>1, NotifyAllEffect DEF NoLostWakeup, Sleepers
  <2> QED BY <2>2, <2>3, <2>4, <2>5
<1>4. CASE num_elements' # 0
  <2> USE <1>4
  <2>1. pc' = [pc EXCEPT ![t] = "unlock"]
    OBVIOUS
  <2>2. TypeOK' /\ EnqueueHasElem'
    BY <1>2 DEF TypeOK, PCs, EnqueueHasElem
  <2>3. Mutex'
    BY DEF TypeOK, Mutex, Holding
  <2>4. CountInv'
    BY <1>1, <1>2 DEF TypeOK, CountInv
  <2>5. NoLostWakeup'
    BY <1>2 DEF TypeOK, Ops, NoLostWakeup, Sleepers, MayProceed
  <2> QED BY <2>2, <2>3, <2>4, <2>5
<1> QED BY <1>3, <1>4

LEMMA SeeEmptyStep ==
    ASSUME IInv, NEW t \in Threads, SeeEmpty(t)
    PROVE  IInv'
<1> USE DEF IInv, SeeEmpty
<1>1. TypeOK' /\ EnqueueHasElem'
  BY DEF TypeOK, PCs, EnqueueHasElem
<1>2. Mutex'
  BY DEF TypeOK, Mutex, Holding
<1>3. CountInv'
  BY DEF TypeOK, CountInv
<1>4. NoLostWakeup'
  BY DEF TypeOK, NoLostWakeup, Sleepers, MayProceed
<1> QED BY <1>1, <1>2, <1>3, <1>4

LEMMA UnlockStep ==
    ASSUME IInv, NEW t \in Threads, Unlock(t)
    PROVE  IInv'
<1> USE DEF IInv, Unlock
<1>1. TypeOK' /\ EnqueueHasElem'
  BY DEF TypeOK, PCs, EnqueueHasElem
<1>2. Mutex'
  BY NoThreadAssumption DEF TypeOK, Mutex, Holding
<1>3. CountInv'
  BY DEF TypeOK, CountInv
<1>4. NoLostWakeup'
  BY DEF TypeOK, NoLostWakeup, Sleepers, MayProceed
<1> QED BY <1>1, <1>2, <1>3, <1>4

LEMMA StutterStep == IInv /\ UNCHANGED vars => IInv'
BY DEF IInv, TypeOK, EnqueueHasElem, Mutex, CountInv, NoLostWakeup, Sleepers,
   MayProceed, vars

LEMMA NextIInv == IInv /\ [Next]_vars => IInv'
<1> SUFFICES ASSUME IInv, Next PROVE IInv'
  BY StutterStep
<1>1. PICK t \in Threads : \/ \E o \in Ops, v \in Values \cup {NoElem} : Call(t, o, v)
                           \/ SpuriousWakeup(t)
                           \/ InCall(t)
  BY DEF Next
<1>2. CASE \E o \in Ops, v \in Values \cup {NoElem} : Call(t, o, v)
  BY <1>2, CallStep
<1>3. CASE SpuriousWakeup(t)
  BY <1>3, SpuriousStep
<1>4. CASE InCall(t)
  BY <1>4, LockStep, SleepStep, InsertStep, CountInsertedStep, RemoveStep,
     CountRemovedStep, SeeEmptyStep, UnlockStep DEF InCall
<1> QED BY <1>1, <1>2, <1>3, <1>4

THEOREM Inductive == Spec => []IInv
BY InitIInv, NextIInv, PTL DEF Spec
-----------------------------------------------------------------------------
\* Every variable keeps its type; in particular the counter is never negative.
THEOREM TypeCorrect == Spec => []TypeOK
<1>1. IInv => TypeOK
  BY DEF IInv
<1> QED BY <1>1, Inductive, PTL

\* The counter is the length of the deque but for the one update in progress.
THEOREM CounterCorrect == Spec => []CountMatches
<1>1. IInv => CountMatches
  <2> SUFFICES ASSUME IInv PROVE CountMatches
    OBVIOUS
  <2> USE DEF IInv
  <2>1. CASE \A t \in Threads : pc[t] # "count"
    BY <2>1 DEF CountInv, CountMatches
  <2>2. CASE \E t \in Threads : pc[t] = "count"
    <3>1. PICK t \in Threads : pc[t] = "count"
      BY <2>2
    <3>2. \A s \in Threads : pc[s] = "count" => s = t
      BY <3>1, OneHolder DEF Holding
    <3> QED BY <3>1, <3>2 DEF CountInv, CountMatches
  <2> QED BY <2>1, <2>2
<1> QED BY <1>1, Inductive, PTL

\* No thread sleeps on a predicate that holds.
THEOREM NoWakeupIsLost == Spec => []NoLostWakeup
<1>1. IInv => NoLostWakeup
  BY DEF IInv
<1> QED BY <1>1, Inductive, PTL

\* dequeue takes the front of a deque that has one.
THEOREM NoUnderflowHolds == Spec => []NoUnderflow
<1>1. IInv => NoUnderflow
  <2> SUFFICES ASSUME IInv, NEW t \in Threads,
                      pc[t] = "locked", op[t] = "dequeue", MayProceed(t)
               PROVE  elements # <<>>
    BY DEF NoUnderflow
  <2>1. Len(elements) # 0
    BY CountedWhenLocked DEF IInv, MayProceed
  <2> QED BY <2>1
<1> QED BY <1>1, Inductive, PTL
-----------------------------------------------------------------------------
(* Every step of Queue is a step of FifoQueue, or leaves its variables alone. *)

LEMMA InitAbstract == Init => Abstract!Init
BY DEF Init, Stage, Abstract!Init

LEMMA NextAbstract == IInv /\ [Next]_vars => [Abstract!Next]_(Abstract!vars)
<1> SUFFICES ASSUME IInv, [Next]_vars
             PROVE  Abstract!Next \/ UNCHANGED <<elements, op, Stage, val>>
  BY DEF Abstract!vars
<1> USE DEF IInv
<1>1. CASE UNCHANGED vars
  BY <1>1 DEF vars, Stage
<1>2. ASSUME NEW t \in Threads, NEW o \in Ops, NEW v \in Values \cup {NoElem},
             Call(t, o, v)
      PROVE  Abstract!Call(t)
  <2>1. Stage[t] = "idle" /\ Stage' = [Stage EXCEPT ![t] = "pending"]
    BY <1>2 DEF Call, Stage, TypeOK
  <2> QED BY <1>2, <2>1 DEF Call, Abstract!Call, Abstract!Ops, Ops, Stage
<1>3. ASSUME NEW t \in Threads, SpuriousWakeup(t) \/ Lock(t) \/ Sleep(t)
      PROVE  UNCHANGED <<elements, op, Stage, val>>
  BY <1>3 DEF SpuriousWakeup, Lock, Sleep, Stage, TypeOK
<1>4. ASSUME NEW t \in Threads, Insert(t) PROVE Abstract!Enqueue(t)
  <2>1. Stage[t] = "pending" /\ Stage' = [Stage EXCEPT ![t] = "done"]
    BY <1>4 DEF Insert, Stage, TypeOK
  <2> QED BY <1>4, <2>1 DEF Insert, Abstract!Enqueue, Abstract!TakesEffect, Stage
<1>5. ASSUME NEW t \in Threads, Remove(t) PROVE Abstract!Dequeue(t)
  <2>1. Stage[t] = "pending" /\ Stage' = [Stage EXCEPT ![t] = "done"]
    BY <1>5 DEF Remove, Stage, TypeOK
  <2>2. elements # <<>>
    BY <1>5, CountedWhenLocked DEF Remove, MayProceed
  <2> QED BY <1>5, <2>1, <2>2
             DEF Remove, Abstract!Dequeue, Abstract!TakesEffect, Stage
<1>6. ASSUME NEW t \in Threads, SeeEmpty(t) PROVE Abstract!WaitEmpty(t)
  <2>1. Stage[t] = "pending" /\ Stage' = [Stage EXCEPT ![t] = "done"]
    BY <1>6 DEF SeeEmpty, Stage, TypeOK
  <2>2. elements = <<>>
    BY <1>6, CountedWhenLocked, EmptySeq DEF SeeEmpty, MayProceed, TypeOK
  <2> QED BY <1>6, <2>1, <2>2
             DEF SeeEmpty, Abstract!WaitEmpty, Abstract!TakesEffect, Stage
<1>7. ASSUME NEW t \in Threads, CountInserted(t) \/ CountRemoved(t)
      PROVE  UNCHANGED <<elements, op, Stage, val>>
  <2>1. NotifyAll(t) \/ pc' = [pc EXCEPT ![t] = "unlock"]
    BY <1>7 DEF CountInserted, CountRemoved
  <2>2. UNCHANGED Stage
    BY <1>7, <2>1 DEF CountInserted, CountRemoved, NotifyAll, Sleepers, Stage, TypeOK
  <2> QED BY <1>7, <2>2 DEF CountInserted, CountRemoved
<1>8. ASSUME NEW t \in Threads, Unlock(t) PROVE Abstract!Return(t)
  <2>1. Stage[t] = "done" /\ Stage' = [Stage EXCEPT ![t] = "idle"]
    BY <1>8 DEF Unlock, Stage, TypeOK
  <2> QED BY <1>8, <2>1 DEF Unlock, Abstract!Return, Stage
<1> QED BY <1>1, <1>2, <1>3, <1>4, <1>5, <1>6, <1>7, <1>8
           DEF Next, InCall, Abstract!Next

\* The queue is linearizable as a FIFO queue: the deque of a concurrent run goes
\* through the states of an atomic queue, in the order the calls take effect.
THEOREM Refinement == Spec => ImplementsFifo
BY InitAbstract, NextAbstract, Inductive, PTL DEF Spec, ImplementsFifo, Abstract!Spec
=============================================================================
