------------------------- MODULE ThreadWorkerProofs -------------------------
(***************************************************************************)
(* For every set of clients and every number of jobs: the safety           *)
(* properties of ThreadWorker.                                             *)
(*                                                                         *)
(* The argument.  Conserved accounts for everything ever enqueued: called, *)
(* in hand, or queued, in this order.  StopProtocol follows the one owner  *)
(* through stop() and the destructor.  Accurate says what _empty is worth  *)
(* before the first overlap, and Drained carries it from the return of the *)
(* destructor's wait() to the end of the thread.                           *)
(***************************************************************************)
EXTENDS ThreadWorker, TLAPS, SequenceTheorems

\* The function taken from the queue and not called (yet), if any.
Hand == IF wpc \in {"check", "exited"} THEN <<cur>> ELSE <<>>

Conserved == sent = executed \o Hand \o jobs

NoOpStops == /\ \A i \in 1..Len(sent) : sent[i] = NoOp => stopping
             /\ \A i \in 1..Len(executed) : executed[i] # NoOp

StopProtocol ==
    /\ stopping /\ cpc[Owner] \notin {"noop", "join"} => wpc = "exited"
    /\ stopping /\ dtor = "no" => stop_called
    /\ wpc = "exited" \/ stop_called => stopping
    /\ cpc[Owner] \in {"noop", "join"} => stopping
    /\ cpc[Owner] = "stop" => dtor = "begun"
    /\ dtor = "begun" => cpc[Owner] # "idle"
    /\ dtor = "begun" /\ cpc[Owner] \notin {"noop", "join"} => ~stopping /\ ~stop_called
    /\ dtor # "no" => \A c \in Clients : cpc[c] # "idle" => c = Owner /\ dtor = "begun"
    /\ dtor # "no" => cpc[Owner] # "send"
    /\ dtor = "done" => stopping

Accurate ==
    empty /\ ~raced /\ ~stopping => jobs = <<>> /\ ~Adding /\ wpc = "dequeue"

Drained ==
    ~raced /\ ~stop_called =>
        /\ cpc[Owner] \in {"stop", "noop"} => wpc = "dequeue" /\ jobs = <<>>
        /\ cpc[Owner] = "join" \/ dtor = "done" =>
              \/ wpc = "dequeue" /\ jobs = <<NoOp>>
              \/ wpc \in {"check", "exited"} /\ jobs = <<>> /\ cur = NoOp

IInv == /\ TypeOK /\ Conserved /\ NoOpStops /\ StopProtocol /\ ParkedMeansEmpty
        /\ NoLostWakeup /\ Accurate /\ Drained
-----------------------------------------------------------------------------
LEMMA AppendFacts ==
    ASSUME NEW S, NEW s \in Seq(S), NEW e \in S
    PROVE  /\ Append(s, e) \in Seq(S)
           /\ Append(s, e) # <<>>
           /\ Len(Append(s, e)) = Len(s) + 1
           /\ Append(s, e)[Len(s) + 1] = e
           /\ \A i \in 1..Len(s) : Append(s, e)[i] = s[i]
BY AppendProperties

LEMMA HeadTailFacts ==
    ASSUME NEW S, NEW s \in Seq(S), s # <<>>
    PROVE  /\ Head(s) \in S /\ Head(s) = s[1]
           /\ Tail(s) \in Seq(S)
           /\ Len(s) \in Nat \ {0}
           /\ Len(Tail(s)) = Len(s) - 1
           /\ \A i \in 1..Len(Tail(s)) : Tail(s)[i] = s[i + 1]
BY HeadTailProperties, EmptySeq

LEMMA NatSeqAssociative ==
    \A s, t, u \in Seq(Nat) : (s \o t) \o u = s \o (t \o u)
OBVIOUS

LEMMA AppendOfConcat ==
    ASSUME NEW a \in Seq(Nat), NEW b \in Seq(Nat), NEW c \in Seq(Nat), NEW e \in Nat
    PROVE  Append(a \o b \o c, e) = a \o b \o Append(c, e)
<1> DEFINE ab == a \o b
<1>1. ab \in Seq(Nat) /\ <<e>> \in Seq(Nat) /\ ab \o c \in Seq(Nat)
  OBVIOUS
<1>2. Append(c, e) = c \o <<e>>
  BY AppendIsConcat
<1> HIDE DEF ab
<1>3. Append(ab \o c, e) = (ab \o c) \o <<e>>
  BY <1>1, AppendIsConcat
<1>4. (ab \o c) \o <<e>> = ab \o (c \o <<e>>)
  BY <1>1, NatSeqAssociative
<1>5. Append(ab \o c, e) = ab \o Append(c, e)
  BY <1>2, <1>3, <1>4
<1> QED BY <1>5 DEF ab

LEMMA TakeFromConcat ==
    ASSUME NEW S, NEW a \in Seq(S), NEW c \in Seq(S), c # <<>>
    PROVE  a \o <<>> \o c = a \o <<Head(c)>> \o Tail(c)
OBVIOUS

LEMMA PassInConcat ==
    ASSUME NEW S, NEW a \in Seq(S), NEW c \in Seq(S), NEW e \in S
    PROVE  a \o <<e>> \o c = Append(a, e) \o <<>> \o c
OBVIOUS

LEMMA PrefixOfConcat ==
    ASSUME NEW S, NEW a \in Seq(S), NEW b \in Seq(S), NEW c \in Seq(S)
    PROVE  /\ Len(a) \in Nat /\ Len(a) <= Len(a \o b \o c)
           /\ \A i \in 1..Len(a) : (a \o b \o c)[i] = a[i]
OBVIOUS

LEMMA MiddleOfConcat ==
    ASSUME NEW S, NEW a \in Seq(S), NEW c \in Seq(S), NEW e \in S
    PROVE  /\ Len(a) + 1 \in 1..Len(a \o <<e>> \o c)
           /\ (a \o <<e>> \o c)[Len(a) + 1] = e
OBVIOUS

LEMMA LastOfConcat ==
    ASSUME NEW S, NEW a \in Seq(S), NEW e \in S
    PROVE  a \o <<e>> \o <<>> = Append(a, e)
OBVIOUS

LEMMA InitIInv == Init => IInv
<1> SUFFICES ASSUME Init PROVE IInv
  OBVIOUS
<1> USE OwnerAssumption DEF Init
<1>1. TypeOK
  <2>1. FlagsOK
    BY DEF FlagsOK
  <2> QED BY <2>1 DEF TypeOK, WorkerPCs, ClientPCs, NoOp
<1>2. Conserved /\ NoOpStops
  BY DEF Conserved, NoOpStops, Hand
<1>3. StopProtocol /\ Accurate /\ Drained
  BY DEF StopProtocol, Accurate, Drained
<1>4. ParkedMeansEmpty /\ NoLostWakeup
  BY DEF ParkedMeansEmpty, NoLostWakeup
<1> QED BY <1>1, <1>2, <1>3, <1>4 DEF IInv
-----------------------------------------------------------------------------
(* One lemma for each conjunct of IInv, one step for each action. *)

LEMMA JobIsNew == TypeOK => Job \in Nat \ {0}
BY DEF TypeOK, Job

LEMMA FlagsStep == IInv /\ [Next]_vars => FlagsOK'
<1> SUFFICES ASSUME FlagsOK, [Next]_vars PROVE FlagsOK'
  BY DEF IInv, TypeOK
<1> USE DEF FlagsOK
<1>1. ASSUME NEW c \in Clients, Client(c) PROVE FlagsOK'
  BY <1>1 DEF Client, ClientInCall, ClearEmpty, SendJob, WaitCall, WaitCheck,
     SpuriousWakeup
<1>2. CASE StopCall \/ DestructorCall \/ OwnerInCall
  BY <1>2 DEF StopCall, DestructorCall, OwnerInCall, DestructorStop, SendNoOp, Join
<1>3. CASE WorkerStep \/ JobClearsEmpty
  BY <1>3 DEF WorkerStep, Dequeue, Check, JobClearsEmpty, JobSendsJob, JobReturns,
     Probe, Notify
<1>4. CASE UNCHANGED vars
  BY <1>4 DEF vars
<1> QED BY <1>1, <1>2, <1>3, <1>4 DEF Next

LEMMA TypeStep == IInv /\ [Next]_vars => TypeOK'
<1> SUFFICES ASSUME IInv, [Next]_vars PROVE TypeOK'
  OBVIOUS
<1>0. TypeOK /\ FlagsOK'
  BY FlagsStep DEF IInv
<1>1. ASSUME NEW c \in Clients, Client(c) PROVE TypeOK'
  <2>1. CASE SendJob(c)
    BY <1>0, <2>1, JobIsNew, AppendFacts
       DEF SendJob, Enqueue, TypeOK, ClientPCs, Goto
  <2>2. CASE ClearEmpty(c)
    BY <1>0, <2>2 DEF ClearEmpty, TypeOK, ClientPCs, Goto
  <2>3. CASE WaitCall(c)
    BY <1>0, <2>3 DEF WaitCall, TypeOK, ClientPCs, Goto
  <2>4. CASE WaitCheck(c)
    <3>1. dtor = "begun" => c = Owner
      BY <2>4 DEF WaitCheck, IInv, StopProtocol
    <3> QED BY <1>0, <2>4, <3>1 DEF WaitCheck, TypeOK, ClientPCs, Goto
  <2>5. CASE SpuriousWakeup(c)
    BY <1>0, <2>5 DEF SpuriousWakeup, TypeOK, ClientPCs, Goto
  <2> QED BY <1>1, <2>1, <2>2, <2>3, <2>4, <2>5 DEF Client, ClientInCall
<1>2. CASE StopCall \/ DestructorCall \/ OwnerInCall
  <2> USE <1>0, OwnerAssumption DEF TypeOK, ClientPCs, Goto
  <2>1. CASE StopCall
    BY <2>1 DEF StopCall
  <2>2. CASE DestructorCall
    BY <2>2 DEF DestructorCall
  <2>3. CASE DestructorStop
    BY <2>3 DEF DestructorStop
  <2>4. CASE SendNoOp
    BY <2>4, AppendFacts DEF SendNoOp, Enqueue, NoOp
  <2>5. CASE Join
    BY <2>5 DEF Join
  <2> QED BY <1>2, <2>1, <2>2, <2>3, <2>4, <2>5 DEF OwnerInCall
<1>3. CASE WorkerStep \/ JobClearsEmpty
  <2> USE <1>0 DEF TypeOK, WorkerPCs
  <2>1. CASE Dequeue
    BY <2>1, HeadTailFacts DEF Dequeue
  <2>2. CASE Check
    <3>1. Append(executed, cur) \in Seq(Nat)
      BY AppendFacts
    <3> QED BY <2>2, <3>1 DEF Check
  <2>3. CASE JobClearsEmpty
    BY <2>3 DEF JobClearsEmpty
  <2>4. CASE JobSendsJob
    BY <2>4, JobIsNew, AppendFacts DEF JobSendsJob, Enqueue
  <2>5. CASE JobReturns
    BY <2>5 DEF JobReturns
  <2>6. CASE Probe
    BY <2>6 DEF Probe
  <2>7. CASE Notify
    BY <2>7 DEF Notify, ClientPCs
  <2> QED BY <1>3, <2>1, <2>2, <2>3, <2>4, <2>5, <2>6, <2>7 DEF WorkerStep
<1>4. CASE UNCHANGED vars
  BY <1>0, <1>4 DEF vars, TypeOK
<1> QED BY <1>1, <1>2, <1>3, <1>4 DEF Next

LEMMA EnqueueConserves ==
    ASSUME TypeOK, Conserved, NEW e \in Nat, Enqueue(e), UNCHANGED <<executed, Hand>>
    PROVE  Conserved'
<1>1. executed \in Seq(Nat) /\ Hand \in Seq(Nat) /\ jobs \in Seq(Nat)
  BY DEF TypeOK, Hand
<1>2. Append(executed \o Hand \o jobs, e) = executed \o Hand \o Append(jobs, e)
  BY <1>1, AppendOfConcat
<1> QED BY <1>2 DEF Conserved, Enqueue

LEMMA ConservedStep == IInv /\ [Next]_vars => Conserved'
<1> SUFFICES ASSUME IInv, [Next]_vars PROVE Conserved'
  OBVIOUS
<1>0. TypeOK /\ Conserved
  BY DEF IInv
<1>1. CASE UNCHANGED <<sent, executed, Hand, jobs>>
  BY <1>0, <1>1 DEF Conserved
<1>2. ASSUME NEW c \in Clients, Client(c) PROVE Conserved'
  <2>1. CASE SendJob(c)
    BY <1>0, <2>1, JobIsNew, EnqueueConserves DEF SendJob, Hand
  <2>2. CASE ClearEmpty(c) \/ WaitCall(c) \/ WaitCheck(c) \/ SpuriousWakeup(c)
    BY <1>1, <2>2 DEF ClearEmpty, WaitCall, WaitCheck, SpuriousWakeup, Hand
  <2> QED BY <1>2, <2>1, <2>2 DEF Client, ClientInCall
<1>3. CASE StopCall \/ DestructorCall \/ OwnerInCall
  <2>1. CASE SendNoOp
    BY <1>0, <2>1, EnqueueConserves DEF SendNoOp, Hand, NoOp
  <2>2. CASE StopCall \/ DestructorCall \/ DestructorStop \/ Join
    BY <1>1, <2>2 DEF StopCall, DestructorCall, DestructorStop, Join, Hand
  <2> QED BY <1>3, <2>1, <2>2 DEF OwnerInCall
<1>4. CASE WorkerStep \/ JobClearsEmpty
  <2>1. CASE Dequeue
    <3>1. Hand = <<>> /\ Hand' = <<Head(jobs)>> /\ jobs' = Tail(jobs)
      BY <2>1 DEF Dequeue, Hand
    <3>2. jobs # <<>> /\ UNCHANGED <<sent, executed>>
      BY <2>1 DEF Dequeue
    <3>3. executed \o <<>> \o jobs = executed \o <<Head(jobs)>> \o Tail(jobs)
      BY <1>0, <3>2, TakeFromConcat DEF TypeOK
    <3> QED BY <1>0, <3>1, <3>2, <3>3 DEF Conserved
  <2>2. CASE Check
    <3>1. CASE stopping
      BY <1>1, <2>2, <3>1 DEF Check, Hand
    <3>2. CASE ~stopping
      <4>1. Hand = <<cur>> /\ Hand' = <<>> /\ executed' = Append(executed, cur)
        BY <2>2, <3>2 DEF Check, Hand
      <4>2. executed \o <<cur>> \o jobs = Append(executed, cur) \o <<>> \o jobs
        BY <1>0, PassInConcat DEF TypeOK
      <4> QED BY <1>0, <2>2, <4>1, <4>2 DEF Check, Conserved
    <3> QED BY <3>1, <3>2
  <2>3. CASE JobSendsJob
    BY <1>0, <2>3, JobIsNew, EnqueueConserves DEF JobSendsJob, Hand
  <2>4. CASE JobClearsEmpty \/ JobReturns \/ Probe \/ Notify
    BY <1>1, <2>4 DEF JobClearsEmpty, JobReturns, Probe, Notify, Hand
  <2> QED BY <1>4, <2>1, <2>2, <2>3, <2>4 DEF WorkerStep
<1>5. CASE UNCHANGED vars
  BY <1>1, <1>5 DEF vars, Hand
<1> QED BY <1>2, <1>3, <1>4, <1>5 DEF Next

LEMMA NoOpStopsStep == IInv /\ [Next]_vars => NoOpStops'
<1> SUFFICES ASSUME IInv, [Next]_vars PROVE NoOpStops'
  OBVIOUS
<1>0. TypeOK /\ NoOpStops
  BY DEF IInv
<1>1. CASE UNCHANGED <<sent, executed, stopping>>
  BY <1>0, <1>1 DEF NoOpStops
<1>2. CASE Enqueue(Job) /\ UNCHANGED <<executed, stopping>>
  <2>1. /\ Len(sent') = Len(sent) + 1
        /\ \A i \in 1..Len(sent) : sent'[i] = sent[i]
        /\ sent'[Len(sent) + 1] # NoOp
    <3>1. sent \in Seq(Nat) /\ Job \in Nat /\ Job # 0
      BY <1>0, JobIsNew DEF NoOp, TypeOK
    <3>2. sent' = Append(sent, Job)
      BY <1>2 DEF Enqueue
    <3> QED BY <3>1, <3>2, AppendFacts DEF NoOp
  <2>2. Len(sent) \in Nat
    BY <1>0 DEF TypeOK
  <2> QED BY <1>0, <1>2, <2>1, <2>2 DEF NoOpStops
<1>3. CASE stopping' /\ UNCHANGED executed
  BY <1>0, <1>3 DEF NoOpStops
<1>4. CASE Check
  <2>1. CASE stopping
    BY <1>1, <1>4, <2>1 DEF Check
  <2>2. CASE ~stopping
    <3>1. /\ Len(executed') = Len(executed) + 1
          /\ \A i \in 1..Len(executed) : executed'[i] = executed[i]
          /\ executed'[Len(executed) + 1] = cur
      <4>1. executed \in Seq(Nat) /\ cur \in Nat
        BY <1>0 DEF TypeOK
      <4>2. executed' = Append(executed, cur)
        BY <1>4, <2>2 DEF Check
      <4> QED BY <4>1, <4>2, AppendFacts
    <3>2. cur = sent[Len(executed) + 1] /\ Len(executed) + 1 \in 1..Len(sent)
      <4>1. sent = executed \o <<cur>> \o jobs
        BY <1>4 DEF Check, IInv, Conserved, Hand
      <4> QED BY <1>0, <4>1, MiddleOfConcat DEF TypeOK
    <3>3. cur # NoOp
      BY <1>0, <2>2, <3>2 DEF NoOpStops
    <3>4. Len(executed) \in Nat
      BY <1>0 DEF TypeOK
    <3> QED BY <1>0, <1>4, <3>1, <3>3, <3>4 DEF Check, NoOpStops
  <2> QED BY <2>1, <2>2
<1>5. ASSUME NEW c \in Clients, Client(c)
      PROVE  \/ UNCHANGED <<sent, executed, stopping>>
             \/ Enqueue(Job) /\ UNCHANGED <<executed, stopping>>
  BY <1>5 DEF Client, ClientInCall, ClearEmpty, SendJob, WaitCall, WaitCheck,
     SpuriousWakeup
<1>6. CASE StopCall \/ DestructorCall \/ DestructorStop \/ Join
  BY <1>1, <1>3, <1>6 DEF StopCall, DestructorCall, DestructorStop, Join
<1>7. CASE SendNoOp
  <2>1. stopping'
    BY <1>7 DEF SendNoOp, IInv, StopProtocol
  <2> QED BY <1>3, <1>7, <2>1 DEF SendNoOp
<1>8. CASE JobSendsJob
  BY <1>2, <1>8 DEF JobSendsJob
<1>9. CASE Dequeue \/ JobClearsEmpty \/ JobReturns \/ Probe \/ Notify
  BY <1>1, <1>9 DEF Dequeue, JobClearsEmpty, JobReturns, Probe, Notify
<1>10. CASE UNCHANGED vars
  BY <1>1, <1>10 DEF vars
<1> QED BY <1>1, <1>2, <1>4, <1>5, <1>6, <1>7, <1>8, <1>9, <1>10
           DEF Next, OwnerInCall, WorkerStep

LEMMA StopProtocolStep == IInv /\ [Next]_vars => StopProtocol'
<1> SUFFICES ASSUME IInv, [Next]_vars PROVE StopProtocol'
  OBVIOUS
<1>0. TypeOK /\ StopProtocol
  BY DEF IInv
<1> USE OwnerAssumption DEF StopProtocol, Goto, MayCall
<1>1. ASSUME NEW c \in Clients, Client(c) PROVE StopProtocol'
  <2>1. CASE SendJob(c)
    BY <1>0, <2>1 DEF SendJob, TypeOK
  <2>2. CASE ClearEmpty(c)
    BY <1>0, <2>2 DEF ClearEmpty, TypeOK
  <2>3. CASE WaitCall(c)
    BY <1>0, <2>3 DEF WaitCall, TypeOK
  <2>4. CASE WaitCheck(c)
    BY <1>0, <2>4 DEF WaitCheck, TypeOK
  <2>5. CASE SpuriousWakeup(c)
    BY <1>0, <2>5 DEF SpuriousWakeup, TypeOK
  <2> QED BY <1>1, <2>1, <2>2, <2>3, <2>4, <2>5 DEF Client, ClientInCall
<1>2. CASE StopCall
  BY <1>0, <1>2 DEF StopCall, TypeOK
<1>3. CASE DestructorCall
  BY <1>0, <1>3 DEF DestructorCall, TypeOK
<1>4. CASE DestructorStop
  BY <1>0, <1>4 DEF DestructorStop, TypeOK
<1>5. CASE SendNoOp
  BY <1>0, <1>5 DEF SendNoOp, TypeOK
<1>6. CASE Join
  BY <1>0, <1>6 DEF Join, TypeOK
<1>7. CASE Check
  BY <1>0, <1>7 DEF Check
<1>8. CASE Dequeue \/ JobClearsEmpty \/ JobSendsJob \/ JobReturns \/ Probe
  BY <1>0, <1>8 DEF Dequeue, JobClearsEmpty, JobSendsJob, JobReturns, Probe
<1>9. CASE Notify
  <2>1. /\ \A c \in Clients : cpc'[c] # cpc[c] => cpc[c] = "asleep" /\ cpc'[c] = "check"
        /\ UNCHANGED <<stopping, dtor, stop_called>>
        /\ wpc = "notify" /\ wpc' = "dequeue"
    BY <1>9 DEF Notify
  <2> QED BY <1>0, <2>1
<1>10. CASE UNCHANGED vars
  BY <1>0, <1>10 DEF vars
<1> HIDE DEF StopProtocol
<1> QED BY <1>1, <1>2, <1>3, <1>4, <1>5, <1>6, <1>7, <1>8, <1>9, <1>10
           DEF Next, OwnerInCall, WorkerStep

LEMMA ParkedStep == IInv /\ [Next]_vars => ParkedMeansEmpty'
<1> SUFFICES ASSUME IInv, [Next]_vars PROVE ParkedMeansEmpty'
  OBVIOUS
<1>0. TypeOK /\ ParkedMeansEmpty
  BY DEF IInv
<1> USE DEF ParkedMeansEmpty, Adding, Goto
<1>1. ASSUME NEW c \in Clients, Client(c) PROVE ParkedMeansEmpty'
  <2>1. CASE SendJob(c)
    <3>1. Append(jobs, Job) # <<>>
      <4>1. jobs \in Seq(Nat) /\ Job \in Nat
        BY <1>0, JobIsNew DEF TypeOK
      <4> QED BY <4>1, AppendFacts
    <3> QED BY <2>1, <3>1 DEF SendJob, Enqueue
  <2>2. CASE ClearEmpty(c)
    BY <1>0, <2>2 DEF ClearEmpty, TypeOK
  <2>3. CASE WaitCall(c) \/ WaitCheck(c) \/ SpuriousWakeup(c)
    BY <1>0, <2>3 DEF WaitCall, WaitCheck, SpuriousWakeup, MayCall, TypeOK
  <2> QED BY <1>1, <2>1, <2>2, <2>3 DEF Client, ClientInCall
<1>2. CASE SendNoOp
  <2>1. Append(jobs, NoOp) # <<>>
    <3>1. jobs \in Seq(Nat) /\ NoOp \in Nat
      BY <1>0 DEF TypeOK, NoOp
    <3> QED BY <3>1, AppendFacts
  <2> QED BY <1>2, <2>1 DEF SendNoOp, Enqueue
<1>3. CASE StopCall \/ DestructorCall \/ DestructorStop \/ Join
  BY <1>0, <1>3, OwnerAssumption
     DEF StopCall, DestructorCall, DestructorStop, Join, MayCall, TypeOK
<1>4. CASE Probe
  BY <1>0, <1>4 DEF Probe
<1>5. CASE Notify
  BY <1>0, <1>5 DEF Notify
<1>6. CASE Dequeue \/ Check \/ JobClearsEmpty \/ JobSendsJob \/ JobReturns
  BY <1>0, <1>6 DEF Dequeue, Check, JobClearsEmpty, JobSendsJob, JobReturns
<1>7. CASE UNCHANGED vars
  BY <1>0, <1>7 DEF vars
<1> QED BY <1>1, <1>2, <1>3, <1>4, <1>5, <1>6, <1>7 DEF Next, OwnerInCall, WorkerStep

LEMMA WakeupStep == IInv /\ [Next]_vars => NoLostWakeup'
<1> SUFFICES ASSUME IInv, [Next]_vars PROVE NoLostWakeup'
  OBVIOUS
<1>0. TypeOK /\ NoLostWakeup
  BY DEF IInv
<1> USE DEF NoLostWakeup, Goto
<1>1. ASSUME NEW c \in Clients, Client(c) PROVE NoLostWakeup'
  BY <1>0, <1>1 DEF Client, ClientInCall, ClearEmpty, SendJob, WaitCall, WaitCheck,
     SpuriousWakeup, MayCall, TypeOK
<1>2. CASE StopCall \/ DestructorCall \/ OwnerInCall
  BY <1>0, <1>2, OwnerAssumption DEF StopCall, DestructorCall, OwnerInCall,
     DestructorStop, SendNoOp, Join, MayCall, TypeOK
<1>3. CASE Notify
  BY <1>0, <1>3 DEF Notify
<1>4. CASE Dequeue \/ Check \/ JobClearsEmpty \/ JobSendsJob \/ JobReturns \/ Probe
  BY <1>0, <1>4 DEF Dequeue, Check, JobClearsEmpty, JobSendsJob, JobReturns, Probe
<1>5. CASE UNCHANGED vars
  BY <1>0, <1>5 DEF vars
<1> QED BY <1>1, <1>2, <1>3, <1>4, <1>5 DEF Next, WorkerStep

LEMMA AccurateStep == IInv /\ [Next]_vars => Accurate'
<1> SUFFICES ASSUME IInv, [Next]_vars PROVE Accurate'
  OBVIOUS
<1>0. TypeOK /\ Accurate
  BY DEF IInv
<1> USE DEF Accurate, Adding, Goto
<1>1. ASSUME NEW c \in Clients, Client(c) PROVE Accurate'
  <2>1. CASE SendJob(c)
    BY <1>0, <2>1 DEF SendJob, TypeOK
  <2>2. CASE ClearEmpty(c)
    BY <1>0, <2>2 DEF ClearEmpty, TypeOK
  <2>3. CASE WaitCall(c) \/ WaitCheck(c) \/ SpuriousWakeup(c)
    BY <1>0, <2>3 DEF WaitCall, WaitCheck, SpuriousWakeup, MayCall, TypeOK
  <2> QED BY <1>1, <2>1, <2>2, <2>3 DEF Client, ClientInCall
<1>2. CASE StopCall \/ DestructorCall \/ OwnerInCall
  <2>1. CASE StopCall \/ DestructorStop
    BY <2>1 DEF StopCall, DestructorStop
  <2>2. CASE SendNoOp
    BY <2>2 DEF SendNoOp, IInv, StopProtocol
  <2>3. CASE DestructorCall \/ Join
    BY <1>0, <2>3, OwnerAssumption DEF DestructorCall, Join, MayCall, TypeOK
  <2> QED BY <1>2, <2>1, <2>2, <2>3 DEF OwnerInCall
<1>3. CASE Notify
  BY <1>0, <1>3 DEF Notify
<1>4. CASE Dequeue \/ Check \/ JobClearsEmpty \/ JobSendsJob \/ JobReturns \/ Probe
  BY <1>0, <1>4 DEF Dequeue, Check, JobClearsEmpty, JobSendsJob, JobReturns, Probe
<1>5. CASE UNCHANGED vars
  BY <1>0, <1>5 DEF vars
<1> QED BY <1>1, <1>2, <1>3, <1>4, <1>5 DEF Next, WorkerStep

LEMMA DrainedStep == IInv /\ [Next]_vars => Drained'
<1> SUFFICES ASSUME IInv, [Next]_vars, ~raced', ~stop_called' PROVE Drained'
  BY DEF Drained
<1>0. TypeOK /\ Drained /\ StopProtocol /\ Accurate
  BY DEF IInv
<1> USE OwnerAssumption DEF Drained, Goto
<1>1. ASSUME NEW c \in Clients, Client(c) PROVE Drained'
  <2>1. CASE SendJob(c)
    <3>1. /\ cpc[Owner] \notin {"stop", "noop", "join"} /\ dtor # "done"
          /\ cpc'[Owner] \notin {"stop", "noop", "join"} /\ dtor' # "done"
      BY <1>0, <2>1 DEF SendJob, StopProtocol, TypeOK
    <3> QED BY <3>1
  <2>2. CASE ClearEmpty(c) \/ WaitCall(c) \/ SpuriousWakeup(c)
    BY <1>0, <2>2 DEF ClearEmpty, WaitCall, SpuriousWakeup, MayCall, TypeOK
  <2>3. CASE WaitCheck(c)
    <3>1. CASE empty /\ dtor = "begun"
      <4>1. c = Owner /\ ~stopping
        BY <1>0, <2>3, <3>1 DEF WaitCheck, StopProtocol
      <4>2. wpc = "dequeue" /\ jobs = <<>>
        BY <1>0, <2>3, <3>1, <4>1 DEF WaitCheck, Accurate
      <4> QED BY <2>3, <3>1, <4>1, <4>2 DEF WaitCheck, TypeOK
    <3>2. CASE ~(empty /\ dtor = "begun")
      BY <1>0, <2>3, <3>2 DEF WaitCheck, TypeOK
    <3> QED BY <3>1, <3>2
  <2> HIDE DEF Drained
  <2> QED BY <1>1, <2>1, <2>2, <2>3 DEF Client, ClientInCall
<1>2. CASE StopCall
  BY <1>2 DEF StopCall
<1>3. CASE DestructorCall
  BY <1>0, <1>3 DEF DestructorCall, MayCall, StopProtocol, TypeOK
<1>4. CASE DestructorStop
  BY <1>0, <1>4 DEF DestructorStop, StopProtocol, TypeOK
<1>5. CASE SendNoOp
  BY <1>0, <1>5 DEF SendNoOp, Enqueue, StopProtocol, TypeOK
<1>6. CASE Join
  BY <1>0, <1>6 DEF Join, StopProtocol, TypeOK
<1>7. CASE Dequeue
  BY <1>0, <1>7 DEF Dequeue, StopProtocol
<1>8. CASE Check
  BY <1>0, <1>8 DEF Check, StopProtocol
<1>9. CASE JobClearsEmpty \/ JobSendsJob \/ JobReturns \/ Probe
  BY <1>0, <1>9 DEF JobClearsEmpty, JobSendsJob, JobReturns, Probe
<1>10. CASE Notify
  BY <1>0, <1>10 DEF Notify
<1>11. CASE UNCHANGED vars
  BY <1>0, <1>11 DEF vars
<1> HIDE DEF Drained
<1> QED BY <1>1, <1>2, <1>3, <1>4, <1>5, <1>6, <1>7, <1>8, <1>9, <1>10, <1>11
           DEF Next, OwnerInCall, WorkerStep

THEOREM Inductive == Spec => []IInv
<1>1. IInv /\ [Next]_vars => IInv'
  BY TypeStep, ConservedStep, NoOpStopsStep, StopProtocolStep, ParkedStep,
     WakeupStep, AccurateStep, DrainedStep DEF IInv
<1> QED BY InitIInv, <1>1, PTL DEF Spec
-----------------------------------------------------------------------------
\* Every variable keeps its type, and only the owner is ever inside stop().
THEOREM TypeCorrect == Spec => []TypeOK
<1>1. IInv => TypeOK
  BY DEF IInv
<1> QED BY <1>1, Inductive, PTL

\* Jobs are called in the order they were enqueued, each at most once, none is
\* skipped, and the empty function of stop() is never called.
THEOREM JobsRunInOrder == Spec => []RunsInOrder
<1>1. IInv => RunsInOrder
  <2> SUFFICES ASSUME IInv PROVE RunsInOrder
    OBVIOUS
  <2>1. Hand \in Seq(Nat) /\ TypeOK /\ Conserved /\ NoOpStops
    BY DEF IInv, TypeOK, Hand
  <2>2. /\ Len(executed) <= Len(sent)
        /\ \A i \in 1..Len(executed) : sent[i] = executed[i]
    BY <2>1, PrefixOfConcat DEF TypeOK, Conserved
  <2> QED BY <2>1, <2>2 DEF RunsInOrder, NoOpStops
<1> QED BY <1>1, Inductive, PTL

\* The destructor returns after the thread has left run().
THEOREM DestructorJoins == Spec => []NoUseAfterDestroy
<1>1. IInv => NoUseAfterDestroy
  BY OwnerAssumption DEF IInv, StopProtocol, NoUseAfterDestroy
<1> QED BY <1>1, Inductive, PTL

\* Only a worker that was never given a job parks with _empty false, and nobody
\* sleeps while _empty is true: no client is left in wait() but on such a worker
\* or on one that is stopped.
THEOREM WaitersAreWoken == Spec => [](ParkedMeansEmpty /\ NoLostWakeup)
<1>1. IInv => ParkedMeansEmpty /\ NoLostWakeup
  BY DEF IInv
<1> QED BY <1>1, Inductive, PTL

\* Unless the setting of _empty overlapped an add_job, or the owner called
\* stop(), the destructor returns when every job has been called.
THEOREM DestructorDropsNothing == Spec => []DestructorRunsAll
<1>1. IInv => DestructorRunsAll
  <2> SUFFICES ASSUME IInv, dtor = "done", ~raced, ~stop_called
               PROVE  sent = Append(executed, NoOp)
    BY DEF DestructorRunsAll
  <2>1. wpc = "exited" /\ jobs = <<>> /\ cur = NoOp
    BY OwnerAssumption DEF IInv, StopProtocol, Drained
  <2>2. sent = executed \o <<NoOp>> \o <<>>
    BY <2>1 DEF IInv, Conserved, Hand
  <2> QED BY <2>2, LastOfConcat DEF IInv, TypeOK, NoOp
<1> QED BY <1>1, Inductive, PTL

\* The one way in which _empty goes wrong is an add_job between the worker's look
\* at the queue and its setting of _empty.
THEOREM OnlyOverlapMisleads == Spec => StaleOnlyByOverlap
<1>1. IInv /\ [Next]_vars /\ ~Stale /\ Stale'
         => wpc = "notify" /\ (jobs # <<>> \/ Adding)
  <2> SUFFICES ASSUME IInv, [Next]_vars, ~Stale, Stale'
               PROVE  wpc = "notify" /\ (jobs # <<>> \/ Adding)
    OBVIOUS
  <2>0. TypeOK /\ StopProtocol
    BY DEF IInv
  <2> USE DEF Stale, Adding, Goto
  <2>1. CASE Notify
    BY <2>1 DEF Notify
  <2>2. ASSUME NEW c \in Clients, Client(c) PROVE FALSE
    BY <2>0, <2>2 DEF Client, ClientInCall, ClearEmpty, SendJob, WaitCall, WaitCheck,
       SpuriousWakeup, MayCall, TypeOK
  <2>3. CASE StopCall \/ DestructorCall \/ OwnerInCall
    BY <2>0, <2>3, OwnerAssumption DEF StopCall, DestructorCall, OwnerInCall,
       DestructorStop, SendNoOp, Join, MayCall, TypeOK, StopProtocol
  <2>4. CASE Dequeue \/ Check \/ JobClearsEmpty \/ JobSendsJob \/ JobReturns \/ Probe
    BY <2>4 DEF Dequeue, Check, JobClearsEmpty, JobSendsJob, JobReturns, Probe
  <2>5. CASE UNCHANGED vars
    BY <2>5 DEF vars
  <2> QED BY <2>1, <2>2, <2>3, <2>4, <2>5 DEF Next, WorkerStep
<1>2. IInv /\ [Next]_vars
         => [~Stale /\ Stale' => wpc = "notify" /\ (jobs # <<>> \/ Adding)]_vars
  BY <1>1
<1> QED BY <1>2, Inductive, PTL DEF Spec, StaleOnlyByOverlap
=============================================================================
