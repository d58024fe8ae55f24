----------------------------- MODULE StackTrace -----------------------------
(***************************************************************************)
(* utils/CustomStackTrace.h: each thread keeps a stack of the layers it is *)
(* in, in thread-local objects; a map from thread ids to these objects     *)
(* lets a thread look at the stacks of all, to report where they are.      *)
(* The mutex guards the map and not the stacks.                            *)
(*                                                                         *)
(* A thread gets to an object and changes it in two steps, so that others  *)
(* can be seen to use it at the same time.  A race, a deleted object and   *)
(* the top of an empty stack have no defined outcome: the model stops      *)
(* there (Broken), and the properties say how it can get there.            *)
(***************************************************************************)
EXTENDS ThreadLocal, Sequences, SequencesExt

CONSTANTS Layers,     \* names of layers
          MaxCalls,   \* bound: calls made
          NoThread

ASSUME KeysAssumption == Keys = {"is_pushing", "log_stack"}
ASSUME NoThreadAssumption == NoThread \notin Threads

VARIABLES stack,     \* stack[t]: content of the stack of t, top last
          pushing,   \* pushing[t]: content of its flag
          buffer,    \* buffer[k][t]: the pointer in the map of k, 0 if there is none
          mutex,     \* holder of _mutex
          pc, op,    \* where each thread is, and in which call
          item,      \* the layer it pushes or pops
          todo,      \* entries of the map that empty() or dump() has not visited
          acc,       \* acc[t]: pointers that t is reading or writing through
          layers,    \* history: layers that t is in, as its own calls say
          looked,    \* history: a call looked at more than its own thread
          drained,   \* history: drained[t]: a dump or a clear has emptied the stack of t
          calls      \* calls made, for the bound

localVars == <<life, alive, slot>>
dataVars  == <<stack, pushing>>
history   == <<layers, looked, drained>>
vars == <<localVars, dataVars, buffer, mutex, pc, op, item, todo, acc, history, calls>>

NoItem == CHOOSE i \in Layers : TRUE

Init == /\ InitLocal
        /\ stack = [t \in Threads |-> <<>>]
        /\ pushing = [t \in Threads |-> FALSE]
        /\ buffer = [k \in Keys |-> [t \in Threads |-> 0]]
        /\ mutex = NoThread
        /\ pc = [t \in Threads |-> "idle"]
        /\ op = [t \in Threads |-> "none"]
        /\ item = [t \in Threads |-> NoItem]
        /\ todo = [t \in Threads |-> {}]
        /\ acc = [t \in Threads |-> {}]
        /\ layers = [t \in Threads |-> {}]
        /\ looked = FALSE
        /\ drained = [t \in Threads |-> FALSE]
        /\ calls = 0

Goto(t, label) == pc' = [pc EXCEPT ![t] = label]
Mine(k, t) == [key |-> k, owner |-> t, life |-> Get(k, t)]
Mapped(k, t) == [key |-> k, owner |-> t, life |-> buffer[k][t]]

\* Two threads use one object, and not both of them only to read it.
Race == \E t, u \in Threads :
            /\ t # u /\ acc[t] \cap acc[u] # {}
            /\ op[t] # "empty" \/ op[u] # "empty"
Dangling == \E t \in Threads : \E p \in acc[t] : ~Exists(p)
AsksTopOfEmpty(t) == pc[t] = "in_stack" /\ op[t] = "pop" /\ stack[t] = <<>>
Broken == Race \/ Dangling \/ \E t \in Threads : AsksTopOfEmpty(t)

\* A layer enters with push and leaves with pop, the innermost first or not.
Call(t) ==
    /\ alive[t] /\ pc[t] = "idle" /\ calls < MaxCalls
    /\ calls' = calls + 1
    /\ \/ \E i \in Layers :
             /\ op' = [op EXCEPT ![t] = IF i \in layers[t] THEN "pop" ELSE "push"]
             /\ item' = [item EXCEPT ![t] = i]
             /\ Goto(t, "flag") /\ UNCHANGED looked
       \/ /\ op' = [op EXCEPT ![t] = "clear"]
          /\ Goto(t, "stack") /\ UNCHANGED <<item, looked>>
       \/ \E o \in {"empty", "dump_all", "dump_own"} :
             /\ op' = [op EXCEPT ![t] = o]
             /\ looked' = (looked \/ o # "dump_own")
             /\ Goto(t, "lock") /\ UNCHANGED item
    /\ UNCHANGED <<localVars, dataVars, buffer, mutex, todo, acc, layers, drained>>

KeyOf(label) == IF label = "flag" THEN "is_pushing" ELSE "log_stack"

\* (mutant of Register: without the lock)
RegisterUnlocked(t) ==
    LET k == KeyOf(pc[t]) IN
    /\ pc[t] \in {"flag", "stack"}
    /\ Create(k, t)
    /\ buffer' = [buffer EXCEPT ![k][t] = IF @ = 0 THEN life[t] ELSE @]
    /\ UNCHANGED <<dataVars, mutex, pc, op, item, todo, acc, history, calls>>

\* get_threadlocal finds no object: one is made and entered in the map, under the
\* mutex; insert leaves an entry alone that is there.
Register(t) ==
    LET k == KeyOf(pc[t]) IN
    /\ pc[t] \in {"flag", "stack"}
    /\ mutex = NoThread
    /\ Create(k, t)
    /\ buffer' = [buffer EXCEPT ![k][t] = IF @ = 0 THEN life[t] ELSE @]
    /\ UNCHANGED <<dataVars, mutex, pc, op, item, todo, acc, history, calls>>

\* The thread has the pointer to its own object and begins to use it.
Reach(t) ==
    /\ pc[t] \in {"flag", "stack"}
    /\ Get(KeyOf(pc[t]), t) # 0
    /\ acc' = [acc EXCEPT ![t] = {Mine(KeyOf(pc[t]), t)}]
    /\ Goto(t, IF pc[t] = "flag" THEN "in_flag" ELSE "in_stack")
    /\ UNCHANGED <<localVars, dataVars, buffer, mutex, op, item, todo, history, calls>>

\* pushing() = true in push, false in pop.
SetFlag(t) ==
    /\ pc[t] = "in_flag"
    /\ pushing' = [pushing EXCEPT ![t] = op[t] = "push"]
    /\ acc' = [acc EXCEPT ![t] = {}]
    /\ Goto(t, "stack")
    /\ UNCHANGED <<localVars, stack, buffer, mutex, op, item, todo, history, calls>>

Leave(t) == /\ Goto(t, "idle")
            /\ op' = [op EXCEPT ![t] = "none"]
            /\ item' = [item EXCEPT ![t] = NoItem]

Return(t) == /\ acc' = [acc EXCEPT ![t] = {}]
             /\ Leave(t)
             /\ UNCHANGED <<localVars, pushing, buffer, mutex, todo, looked, calls>>

Push(t) ==
    /\ pc[t] = "in_stack" /\ op[t] = "push"
    /\ stack' = [stack EXCEPT ![t] = Append(@, item[t])]
    /\ layers' = [layers EXCEPT ![t] = @ \cup {item[t]}]
    /\ Return(t) /\ UNCHANGED drained

\* (mutant of Pop: whatever is on top)
PopWithoutLook(t) ==
    /\ pc[t] = "in_stack" /\ op[t] = "pop"
    /\ stack' = [stack EXCEPT ![t] = Front(@)]
    /\ layers' = [layers EXCEPT ![t] = @ \ {item[t]}]
    /\ Return(t) /\ UNCHANGED drained

\* pop(item) removes the top if it is item, else nothing.
Pop(t) ==
    /\ pc[t] = "in_stack" /\ op[t] = "pop"
    /\ stack' = [stack EXCEPT ![t] = IF Last(@) = item[t] THEN Front(@) ELSE @]
    /\ layers' = [layers EXCEPT ![t] = @ \ {item[t]}]
    /\ Return(t) /\ UNCHANGED drained

Clear(t) ==
    /\ pc[t] = "in_stack" /\ op[t] = "clear"
    /\ stack' = [stack EXCEPT ![t] = <<>>]
    /\ drained' = [drained EXCEPT ![t] = TRUE]
    /\ Return(t) /\ UNCHANGED layers
-----------------------------------------------------------------------------
\* (mutant of TakeMutex: dump_own skips nothing)
TakeMutexForAll(t) ==
    /\ pc[t] = "lock" /\ mutex = NoThread
    /\ mutex' = t
    /\ todo' = [todo EXCEPT ![t] = {u \in Threads : buffer["log_stack"][u] # 0}]
    /\ Goto(t, "scan")
    /\ UNCHANGED <<localVars, dataVars, buffer, op, item, acc, history, calls>>

\* empty() and dump() take the mutex; dump_own skips the entries of other threads.
TakeMutex(t) ==
    /\ pc[t] = "lock" /\ mutex = NoThread
    /\ mutex' = t
    /\ todo' = [todo EXCEPT ![t] =
                   {u \in Threads : buffer["log_stack"][u] # 0 /\ (op[t] = "dump_own" => u = t)}]
    /\ Goto(t, "scan")
    /\ UNCHANGED <<localVars, dataVars, buffer, op, item, acc, history, calls>>

\* The next entry, in the map's order; dump also finds the flag of that thread.
Visit(t) ==
    /\ pc[t] = "scan" /\ acc[t] = {}
    /\ \E u \in todo[t] :
          /\ acc' = [acc EXCEPT ![t] = {Mapped("log_stack", u)} \cup
                        IF op[t] = "empty" \/ buffer["is_pushing"][u] = 0 THEN {}
                        ELSE {Mapped("is_pushing", u)}]
          /\ todo' = [todo EXCEPT ![t] = @ \ {u}]
    /\ UNCHANGED <<localVars, dataVars, buffer, mutex, pc, op, item, history, calls>>

Visited(t) == (CHOOSE p \in acc[t] : p.key = "log_stack").owner

\* empty() goes on to the next stack as long as they are empty.
LookAt(t) ==
    /\ pc[t] = "scan" /\ acc[t] # {} /\ op[t] = "empty"
    /\ todo' = [todo EXCEPT ![t] = IF stack[Visited(t)] = <<>> THEN @ ELSE {}]
    /\ acc' = [acc EXCEPT ![t] = {}]
    /\ UNCHANGED <<localVars, dataVars, buffer, mutex, pc, op, item, history, calls>>

\* dump() gives the layers to the callback, innermost first, and pops each of them.
Report(t) ==
    LET u == Visited(t) IN
    /\ pc[t] = "scan" /\ acc[t] # {} /\ op[t] # "empty"
    /\ stack' = [stack EXCEPT ![u] = <<>>]
    /\ drained' = [drained EXCEPT ![u] = TRUE]
    /\ acc' = [acc EXCEPT ![t] = {}]
    /\ UNCHANGED <<localVars, pushing, buffer, mutex, pc, op, item, todo, layers, looked, calls>>

\* (mutant of Unlock: the mutex stays locked)
UnlockNot(t) ==
    /\ pc[t] = "scan" /\ acc[t] = {} /\ todo[t] = {}
    /\ Leave(t)
    /\ UNCHANGED <<localVars, dataVars, buffer, mutex, todo, acc, history, calls>>

\* The guard is gone when the map has been walked through.
Unlock(t) ==
    /\ pc[t] = "scan" /\ acc[t] = {} /\ todo[t] = {}
    /\ mutex' = NoThread
    /\ Leave(t)
    /\ UNCHANGED <<localVars, dataVars, buffer, todo, acc, history, calls>>
-----------------------------------------------------------------------------
\* A thread ends, and with it its objects; the maps keep their pointers.
End(t) ==
    /\ pc[t] = "idle"
    /\ EndThread(t)
    /\ stack' = [stack EXCEPT ![t] = <<>>]
    /\ pushing' = [pushing EXCEPT ![t] = FALSE]
    /\ layers' = [layers EXCEPT ![t] = {}]
    /\ drained' = [drained EXCEPT ![t] = FALSE]
    /\ UNCHANGED <<buffer, mutex, pc, op, item, todo, acc, looked, calls>>

Begin(t) ==
    /\ StartThread(t)
    /\ UNCHANGED <<dataVars, buffer, mutex, pc, op, item, todo, acc, history, calls>>

Step(t) == \/ Register(t) \/ Reach(t) \/ SetFlag(t) \/ Push(t) \/ Pop(t) \/ Clear(t)
           \/ TakeMutex(t) \/ Visit(t) \/ LookAt(t) \/ Report(t) \/ Unlock(t)

Next == /\ ~Broken
        /\ \E t \in Threads : Step(t) \/ Call(t) \/ End(t) \/ Begin(t)

\* A thread inside a call goes on, and a free mutex goes to one who wants it.
Spec == Init /\ [][Next]_vars /\ \A t \in Threads : WF_vars(~Broken /\ Step(t))
-----------------------------------------------------------------------------
TypeOK == /\ life \in [Threads -> 1..MaxLives] /\ alive \in [Threads -> BOOLEAN]
          /\ slot \in [Keys -> [Threads -> 0..MaxLives]]
          /\ buffer \in [Keys -> [Threads -> 0..MaxLives]]
          /\ stack \in [Threads -> Seq(Layers)] /\ pushing \in [Threads -> BOOLEAN]
          /\ mutex \in Threads \cup {NoThread}
          /\ todo \in [Threads -> SUBSET Threads] /\ acc \in [Threads -> SUBSET Pointers]

Reused == \E t \in Threads, k \in Keys : buffer[k][t] # 0 /\ buffer[k][t] < life[t]

\* What the class does keep safe without a lock on the stacks: threads that enter and
\* leave layers and dump only themselves, with ids that are not used twice, never
\* race and never use a deleted object; and the top of an empty stack is asked for
\* only after something emptied the stack under the thread's feet.
OwnUseIsSafe ==
    /\ Race => looked
    /\ Dangling => looked \/ Reused
    /\ \A t \in Threads : AsksTopOfEmpty(t) => drained[t]

\* No map changes while empty() or dump() walks through it.
MapsStandStill == [][(\E t \in Threads : pc[t] = "scan") => buffer' = buffer]_vars

\* Every object in use can be found through the map, unless the id of its thread was
\* used before: then the map has the pointer to the deleted one and keeps it.
InMapUnlessReused ==
    \A k \in Keys, t \in Threads :
        slot[k][t] # 0 => /\ buffer[k][t] # 0
                          /\ buffer[k][t] # slot[k][t] => buffer[k][t] < life[t]

\* A dump names every layer a thread is in, unless an earlier one or a clear has
\* taken them: pops in another order leave names behind but remove none too many.
LayersOnStack ==
    \A t \in Threads : ~drained[t] => layers[t] \subseteq ToSet(stack[t])

\* The type invariant and the two above: what a dump can see.
LayersKept == TypeOK /\ InMapUnlessReused /\ LayersOnStack

\* Every call returns, whoever holds the mutex, unless the program broke.
CallsReturn == \A t \in Threads : pc[t] # "idle" ~> pc[t] = "idle" \/ Broken
=============================================================================
