---------------------------- MODULE ThreadWorker ----------------------------
(***************************************************************************)
(* core/Thread.h, ThreadWorker: one thread that runs the jobs its clients  *)
(* add, and two bare bools, _empty and _stopping, that both sides read and *)
(* write.  Only the setting of _empty and the test in wait() happen under  *)
(* the mutex of the LockedCondition (core/Locks.h); add_job clears _empty  *)
(* and enqueues in two unprotected steps, and run() looks at the queue and *)
(* sets _empty in two more.                                                *)
(*                                                                         *)
(* The queue is the FIFO queue that module Queue implements.  An element   *)
(* counts as enqueued from the moment the counter includes it: that is     *)
(* when empty() shows it and when the worker, the one consumer, can take   *)
(* it.                                                                     *)
(***************************************************************************)
EXTENDS Integers, Sequences

CONSTANTS Clients,   \* threads that use the worker
          Owner,     \* the client that stops and destroys it
          MaxJobs    \* bound: calls of add_job

ASSUME OwnerAssumption == Owner \in Clients
ASSUME MaxJobsAssumption == MaxJobs \in Nat

VARIABLES empty,         \* _empty
          stopping,      \* _stopping
          jobs,          \* _jobs
          wpc,           \* where run() is
          cur,           \* its local variable func
          cpc,           \* where each client is
          dtor,          \* the destructor: "no", "begun", "done"
          submitted,     \* calls of add_job so far
          sent,          \* history: everything ever enqueued, in order
          executed,      \* history: the jobs called, in order
          stop_called,   \* history: the owner has called stop() itself
          raced          \* history: _empty was set while a job was on its way

vars == <<empty, stopping, jobs, wpc, cur, cpc, dtor, submitted, sent,
          executed, stop_called, raced>>

\* Jobs are numbered as they are enqueued; stop() enqueues the empty function.
NoOp == 0
Job == Len(sent) + 1

WorkerPCs == {"dequeue", "check", "run", "selfsend", "probe", "notify", "exited"}
ClientPCs == {"idle", "send", "check", "asleep", "stop", "noop", "join"}

Init == /\ empty = FALSE
        /\ stopping = FALSE
        /\ jobs = <<>>
        /\ wpc = "dequeue"
        /\ cur = NoOp
        /\ cpc = [c \in Clients |-> "idle"]
        /\ dtor = "no"
        /\ submitted = 0
        /\ sent = <<>>
        /\ executed = <<>>
        /\ stop_called = FALSE
        /\ raced = FALSE

\* Some thread has cleared _empty for a job that it has not enqueued yet.
Adding == wpc = "selfsend" \/ \E c \in Clients : cpc[c] = "send"

\* A client may start a call: it is in none, and the worker is not going away.
MayCall(c) == cpc[c] = "idle" /\ dtor = "no"

Goto(c, where) == cpc' = [cpc EXCEPT ![c] = where]

Enqueue(j) == /\ jobs' = Append(jobs, j)
              /\ sent' = Append(sent, j)
-----------------------------------------------------------------------------
(* add_job *)

\* (mutant of ClearEmpty: _empty stays as it is)
KeepEmpty(c) ==
    /\ MayCall(c)
    /\ submitted < MaxJobs
    /\ submitted' = submitted + 1
    /\ Goto(c, "send")
    /\ UNCHANGED <<empty, stopping, jobs, wpc, cur, dtor, sent, executed,
                   stop_called, raced>>

ClearEmpty(c) ==
    /\ MayCall(c)
    /\ submitted < MaxJobs
    /\ submitted' = submitted + 1
    /\ empty' = FALSE
    /\ Goto(c, "send")
    /\ UNCHANGED <<stopping, jobs, wpc, cur, dtor, sent, executed,
                   stop_called, raced>>

SendJob(c) ==
    /\ cpc[c] = "send"
    /\ Enqueue(Job)
    /\ Goto(c, "idle")
    /\ UNCHANGED <<empty, stopping, wpc, cur, dtor, submitted, executed,
                   stop_called, raced>>
-----------------------------------------------------------------------------
(* wait, called by a client or by the destructor *)

WaitCall(c) ==
    /\ MayCall(c)
    /\ Goto(c, "check")
    /\ UNCHANGED <<empty, stopping, jobs, wpc, cur, dtor, submitted, sent,
                   executed, stop_called, raced>>

\* Under the mutex: return if _empty, else sleep.
WaitCheck(c) ==
    /\ cpc[c] = "check"
    /\ Goto(c, IF ~empty THEN "asleep"
               ELSE IF dtor = "begun" THEN "stop" ELSE "idle")
    /\ UNCHANGED <<empty, stopping, jobs, wpc, cur, dtor, submitted, sent,
                   executed, stop_called, raced>>

SpuriousWakeup(c) ==
    /\ cpc[c] = "asleep"
    /\ Goto(c, "check")
    /\ UNCHANGED <<empty, stopping, jobs, wpc, cur, dtor, submitted, sent,
                   executed, stop_called, raced>>
-----------------------------------------------------------------------------
(* stop and the destructor.  stop() joins the thread, so it is called once,  *)
(* by the owner; no client is in a call when the owner destroys the worker.  *)

StopCall ==
    /\ MayCall(Owner)
    /\ ~stopping
    /\ stopping' = TRUE
    /\ stop_called' = TRUE
    /\ Goto(Owner, "noop")
    /\ UNCHANGED <<empty, jobs, wpc, cur, dtor, submitted, sent, executed, raced>>

\* (mutant of DestructorCall: stops without waiting)
DestructorCallHurried ==
    /\ \A c \in Clients : MayCall(c)
    /\ IF stopping
       THEN dtor' = "done" /\ UNCHANGED cpc
       ELSE dtor' = "begun" /\ Goto(Owner, "stop")
    /\ UNCHANGED <<empty, stopping, jobs, wpc, cur, submitted, sent, executed,
                   stop_called, raced>>

DestructorCall ==
    /\ \A c \in Clients : MayCall(c)
    /\ IF stopping
       THEN dtor' = "done" /\ UNCHANGED cpc
       ELSE dtor' = "begun" /\ Goto(Owner, "check")
    /\ UNCHANGED <<empty, stopping, jobs, wpc, cur, submitted, sent, executed,
                   stop_called, raced>>

DestructorStop ==
    /\ cpc[Owner] = "stop"
    /\ stopping' = TRUE
    /\ Goto(Owner, "noop")
    /\ UNCHANGED <<empty, jobs, wpc, cur, dtor, submitted, sent, executed,
                   stop_called, raced>>

\* (mutant of SendNoOp: nothing wakes the worker)
SkipNoOp ==
    /\ cpc[Owner] = "noop"
    /\ Goto(Owner, "join")
    /\ UNCHANGED <<empty, stopping, jobs, wpc, cur, dtor, submitted, sent,
                   executed, stop_called, raced>>

SendNoOp ==
    /\ cpc[Owner] = "noop"
    /\ Enqueue(NoOp)
    /\ Goto(Owner, "join")
    /\ UNCHANGED <<empty, stopping, wpc, cur, dtor, submitted, executed,
                   stop_called, raced>>

Join ==
    /\ cpc[Owner] = "join"
    /\ wpc = "exited"
    /\ dtor' = IF dtor = "begun" THEN "done" ELSE dtor
    /\ Goto(Owner, "idle")
    /\ UNCHANGED <<empty, stopping, jobs, wpc, cur, submitted, sent, executed,
                   stop_called, raced>>
-----------------------------------------------------------------------------
(* run *)

\* (mutant of Dequeue: takes the newest job)
DequeueNewest ==
    /\ wpc = "dequeue"
    /\ jobs # <<>>
    /\ cur' = jobs[Len(jobs)]
    /\ jobs' = SubSeq(jobs, 1, Len(jobs) - 1)
    /\ wpc' = "check"
    /\ UNCHANGED <<empty, stopping, cpc, dtor, submitted, sent, executed,
                   stop_called, raced>>

Dequeue ==
    /\ wpc = "dequeue"
    /\ jobs # <<>>
    /\ cur' = Head(jobs)
    /\ jobs' = Tail(jobs)
    /\ wpc' = "check"
    /\ UNCHANGED <<empty, stopping, cpc, dtor, submitted, sent, executed,
                   stop_called, raced>>

\* _stopping drops the function in hand, whatever it is; otherwise it is called.
Check ==
    /\ wpc = "check"
    /\ IF stopping
       THEN wpc' = "exited" /\ UNCHANGED executed
       ELSE wpc' = "run" /\ executed' = Append(executed, cur)
    /\ UNCHANGED <<empty, stopping, jobs, cur, cpc, dtor, submitted, sent,
                   stop_called, raced>>

\* A job may add a job to the worker that runs it.
JobClearsEmpty ==
    /\ wpc = "run"
    /\ submitted < MaxJobs
    /\ submitted' = submitted + 1
    /\ empty' = FALSE
    /\ wpc' = "selfsend"
    /\ UNCHANGED <<stopping, jobs, cur, cpc, dtor, sent, executed, stop_called,
                   raced>>

JobSendsJob ==
    /\ wpc = "selfsend"
    /\ Enqueue(Job)
    /\ wpc' = "run"
    /\ UNCHANGED <<empty, stopping, cur, cpc, dtor, submitted, executed,
                   stop_called, raced>>

JobReturns ==
    /\ wpc = "run"
    /\ wpc' = "probe"
    /\ UNCHANGED <<empty, stopping, jobs, cur, cpc, dtor, submitted, sent,
                   executed, stop_called, raced>>

\* _jobs.empty(), without the mutex of the queue or of the condition.
Probe ==
    /\ wpc = "probe"
    /\ wpc' = IF jobs = <<>> THEN "notify" ELSE "dequeue"
    /\ UNCHANGED <<empty, stopping, jobs, cur, cpc, dtor, submitted, sent,
                   executed, stop_called, raced>>

\* (mutant of Notify: sets _empty and wakes nobody)
SetEmptyOnly ==
    /\ wpc = "notify"
    /\ empty' = TRUE
    /\ raced' = (raced \/ jobs # <<>> \/ Adding)
    /\ wpc' = "dequeue"
    /\ UNCHANGED <<stopping, jobs, cur, cpc, dtor, submitted, sent, executed,
                   stop_called>>

\* Under the mutex: set _empty and wake every waiter.  What Probe saw may be
\* out of date by now.
Notify ==
    /\ wpc = "notify"
    /\ empty' = TRUE
    /\ raced' = (raced \/ jobs # <<>> \/ Adding)
    /\ wpc' = "dequeue"
    /\ cpc' = [c \in Clients |-> IF cpc[c] = "asleep" THEN "check" ELSE cpc[c]]
    /\ UNCHANGED <<stopping, jobs, cur, dtor, submitted, sent, executed,
                   stop_called>>
-----------------------------------------------------------------------------
ClientInCall(c) == SendJob(c) \/ WaitCheck(c)

OwnerInCall == DestructorStop \/ SendNoOp \/ Join

Client(c) == ClearEmpty(c) \/ WaitCall(c) \/ SpuriousWakeup(c) \/ ClientInCall(c)

WorkerStep == \/ Dequeue \/ Check \/ JobSendsJob \/ JobReturns \/ Probe \/ Notify

Next == \/ \E c \in Clients : Client(c)
        \/ StopCall \/ DestructorCall \/ OwnerInCall
        \/ WorkerStep \/ JobClearsEmpty

Spec == Init /\ [][Next]_vars

\* Threads inside a call and the worker keep running, and jobs return.
Fairness == /\ \A c \in Clients : WF_vars(ClientInCall(c))
            /\ WF_vars(OwnerInCall)
            /\ WF_vars(WorkerStep)

FairSpec == Spec /\ Fairness
-----------------------------------------------------------------------------
FlagsOK == /\ empty \in BOOLEAN /\ stopping \in BOOLEAN
           /\ stop_called \in BOOLEAN /\ raced \in BOOLEAN

TypeOK == /\ FlagsOK
          /\ jobs \in Seq(Nat)
          /\ wpc \in WorkerPCs
          /\ cur \in Nat
          /\ cpc \in [Clients -> ClientPCs]
          /\ \A c \in Clients : cpc[c] \in {"stop", "noop", "join"} => c = Owner
          /\ dtor \in {"no", "begun", "done"}
          /\ submitted \in Nat
          /\ sent \in Seq(Nat)
          /\ executed \in Seq(Nat)

\* Jobs are called in the order they were enqueued, each at most once, and none
\* is skipped before the worker stops; the empty function of stop() is never
\* called and stands only in a queue that is being stopped.
RunsInOrder ==
    /\ Len(executed) <= Len(sent)
    /\ \A i \in 1..Len(executed) : executed[i] = sent[i] /\ executed[i] # NoOp

\* The members that run() uses live as long as the thread: when the destructor
\* has returned the thread has left run(), whether the destructor stopped it or
\* an earlier stop() did.
NoUseAfterDestroy == dtor = "done" => wpc = "exited"

\* A waiter can be left asleep for good only on a worker that was never given a
\* job, or after a stop(): as long as run() is parked in dequeue() with nothing
\* on its way, _empty is true.
ParkedMeansEmpty ==
    wpc = "dequeue" /\ jobs = <<>> /\ ~Adding /\ ~empty => sent = <<>>

\* No waiter sleeps through the setting of _empty.
NoLostWakeup == \A c \in Clients : cpc[c] = "asleep" => ~empty

\* A destructor that was not overtaken by an add_job drops no job: all were
\* called when it returns, and only the empty function was not.
DestructorRunsAll ==
    dtor = "done" /\ ~raced /\ ~stop_called => sent = Append(executed, NoOp)

\* _empty is wrong: a job is on its way, queued or in hand.
Stale == empty /\ ~stopping /\ (jobs # <<>> \/ Adding \/ wpc # "dequeue")

\* _empty goes wrong in one way only: the worker sets it after looking at a
\* queue to which a job has been added, or is being added, since.
StaleOnlyByOverlap ==
    [][~Stale /\ Stale' => wpc = "notify" /\ (jobs # <<>> \/ Adding)]_vars

Waiting(c) == cpc[c] \in {"check", "asleep"}

\* wait() returns if the worker has ever been given a job and is not stopped.
WaitReturns ==
    \A c \in Clients : Waiting(c) /\ sent # <<>> ~> ~Waiting(c) \/ stop_called

\* So the destructor of a worker that was given a job returns.
DestructorReturns == (dtor = "begun" /\ sent # <<>>) ~> (dtor = "done")
=============================================================================
