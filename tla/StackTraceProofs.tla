-------------------------- MODULE StackTraceProofs --------------------------
(***************************************************************************)
(* For any threads, layers, calls and lives: how far the stacks are safe   *)
(* without a lock, what a dump can see, and that maps stand still while    *)
(* somebody walks through them.                                            *)
(*                                                                         *)
(* The argument.  Until a call has looked at more than its own thread,     *)
(* every pointer in use is to an object of the thread that uses it; and    *)
(* unless an id was used twice, the map has the object that exists, which  *)
(* cannot be deleted while its thread is in a call.                        *)
(***************************************************************************)
EXTENDS StackTrace, SequenceTheorems, TLAPS

Types ==
    /\ TypeOK
    /\ pc \in [Threads -> {"idle", "flag", "in_flag", "stack", "in_stack", "lock", "scan"}]
    /\ op \in [Threads -> {"none", "push", "pop", "clear", "empty", "dump_all", "dump_own"}]
    /\ item \in [Threads -> Layers \cup {NoItem}]
    /\ layers \in [Threads -> SUBSET Layers]
    /\ drained \in [Threads -> BOOLEAN] /\ looked \in BOOLEAN

Objects(t) == \A k \in Keys :
    /\ slot[k][t] = 0 \/ slot[k][t] = life[t]
    /\ buffer[k][t] <= life[t]
    /\ slot[k][t] # 0 => buffer[k][t] # 0
    /\ buffer[k][t] = life[t] /\ alive[t] => slot[k][t] = life[t]
    /\ ~alive[t] => slot[k][t] = 0

\* Where t is, what it does there, and what it then has.
Place(t) ==
    /\ pc[t] # "idle" => alive[t]
    /\ pc[t] = "idle" => op[t] = "none"
    /\ pc[t] \in {"flag", "in_flag"} => op[t] \in {"push", "pop"}
    /\ pc[t] \in {"stack", "in_stack"} => op[t] \in {"push", "pop", "clear"}
    /\ pc[t] \in {"lock", "scan"} => op[t] \in {"empty", "dump_all", "dump_own"}
    /\ op[t] \in {"push", "pop"} => item[t] \in Layers
    /\ op[t] = "pop" => item[t] \in layers[t]
Uses(t) ==
    /\ pc[t] \in {"idle", "flag", "stack", "lock"} => acc[t] = {}
    /\ pc[t] = "scan" /\ acc[t] # {} => \E p \in acc[t] : p.key = "log_stack"
    /\ \A u \in todo[t] : buffer["log_stack"][u] # 0
    /\ ~looked => /\ todo[t] \subseteq {t} /\ op[t] \notin {"empty", "dump_all"}
                  /\ \A p \in acc[t] : p.owner = t
    /\ ~looked /\ ~Reused => \A p \in acc[t] : Exists(p)

Locked == \A t \in Threads : pc[t] = "scan" <=> mutex = t
OnStack(t) == ~drained[t] => layers[t] \subseteq ToSet(stack[t])

IInv == /\ Types /\ Locked
        /\ \A t \in Threads : Objects(t) /\ Place(t) /\ Uses(t) /\ OnStack(t)
-----------------------------------------------------------------------------
LEMMA PushSet ==
    ASSUME NEW S, NEW s \in Seq(S), NEW e \in S
    PROVE  Append(s, e) \in Seq(S) /\ ToSet(s) \cup {e} \subseteq ToSet(Append(s, e))
<1>1. /\ Append(s, e) \in Seq(S) /\ Len(s) \in Nat /\ Len(Append(s, e)) = Len(s) + 1
      /\ DOMAIN s = 1..Len(s) /\ DOMAIN Append(s, e) = 1..Len(s) + 1
      /\ \A i \in 1..Len(s) : Append(s, e)[i] = s[i]
      /\ Append(s, e)[Len(s) + 1] = e
  OBVIOUS
<1>2. Len(s) + 1 \in 1..Len(s) + 1 /\ \A i \in 1..Len(s) : i \in 1..Len(s) + 1
  BY <1>1
<1> QED BY <1>1, <1>2 DEF ToSet

LEMMA PopSet ==
    ASSUME NEW S, NEW s \in Seq(S), s # <<>>
    PROVE  Front(s) \in Seq(S) /\ ToSet(s) \ {Last(s)} \subseteq ToSet(Front(s))
<1>1. Len(s) \in Nat \ {0} /\ DOMAIN s = 1..Len(s)
  BY EmptySeq
<1> DEFINE f == SubSeq(s, 1, Len(s) - 1)
<1>2. f \in Seq(S)
  BY <1>1
<1>3. /\ Len(f) = Len(s) - 1 /\ \A i \in 1..Len(s) - 1 : f[i] = s[i]
  <2>1. CASE Len(s) = 1
    BY <1>1, <2>1, SubSeqProperties
  <2>2. CASE Len(s) > 1
    BY <1>1, <2>2, SubSeqProperties
  <2> QED BY <1>1, <2>1, <2>2
<1>4. DOMAIN f = 1..Len(s) - 1
  BY <1>2, <1>3
<1> HIDE DEF f
<1>5. \A i \in 1..Len(s) : i = Len(s) \/ i \in 1..Len(s) - 1
  <2>1. \A n \in Nat \ {0} : \A i \in 1..n : i = n \/ i \in 1..n - 1
    OBVIOUS
  <2> QED BY <1>1, <2>1
<1>6. ToSet(s) \ {Last(s)} \subseteq ToSet(f)
  BY <1>1, <1>3, <1>4, <1>5 DEF ToSet, Last
<1> QED BY <1>2, <1>6 DEF f, Front

LEMMA Basics ==
    /\ 1 \in 1..MaxLives /\ MaxLives \in Nat /\ NoThread \notin Threads
    /\ "is_pushing" \in Keys /\ "log_stack" \in Keys
BY MaxLivesAssumption, KeysAssumption, NoThreadAssumption

LEMMA InitIInv == Init => IInv
<1> SUFFICES ASSUME Init PROVE IInv
  OBVIOUS
<1>1. /\ life \in [Threads -> 1..MaxLives] /\ alive \in [Threads -> BOOLEAN]
      /\ slot \in [Keys -> [Threads -> 0..MaxLives]]
      /\ buffer \in [Keys -> [Threads -> 0..MaxLives]]
  BY Basics DEF Init, InitLocal
<1>2. /\ stack \in [Threads -> Seq(Layers)] /\ pushing \in [Threads -> BOOLEAN]
      /\ mutex \in Threads \cup {NoThread}
      /\ todo \in [Threads -> SUBSET Threads] /\ acc \in [Threads -> SUBSET Pointers]
  BY DEF Init
<1>3. /\ pc \in [Threads -> {"idle", "flag", "in_flag", "stack", "in_stack", "lock", "scan"}]
      /\ op \in [Threads -> {"none", "push", "pop", "clear", "empty", "dump_all", "dump_own"}]
      /\ item \in [Threads -> Layers \cup {NoItem}] /\ layers \in [Threads -> SUBSET Layers]
      /\ drained \in [Threads -> BOOLEAN] /\ looked \in BOOLEAN
  BY DEF Init
<1>4. Types
  BY <1>1, <1>2, <1>3 DEF Types, TypeOK
<1>5. Locked
  BY Basics DEF Init, Locked
<1>6. ASSUME NEW t \in Threads PROVE Objects(t) /\ Place(t) /\ Uses(t) /\ OnStack(t)
  BY <1>1 DEF Init, InitLocal, Objects, Place, Uses, OnStack
<1> QED BY <1>4, <1>5, <1>6 DEF IInv
-----------------------------------------------------------------------------
\* What a step of t leaves of the other threads, and of what was there.
Frame(t) ==
    /\ \A u \in Threads \ {t} :
          /\ pc'[u] = pc[u] /\ op'[u] = op[u] /\ item'[u] = item[u] /\ todo'[u] = todo[u]
          /\ acc'[u] = acc[u] /\ layers'[u] = layers[u]
          /\ life'[u] = life[u] /\ (alive'[u] <=> alive[u])
          /\ \A k \in Keys : slot'[k][u] = slot[k][u] /\ buffer'[k][u] = buffer[k][u]
    /\ \A k \in Keys : buffer[k][t] # 0 => buffer'[k][t] = buffer[k][t]
    /\ life[t] <= life'[t]
    /\ looked => looked'

LEMMA ReusedStays ==
    ASSUME Types, Types', NEW t \in Threads, Frame(t), Reused
    PROVE  Reused'
<1>1. PICK u \in Threads, k \in Keys : buffer[k][u] # 0 /\ buffer[k][u] < life[u]
  BY DEF Reused
<1>2. buffer[k][u] \in Nat /\ life[u] \in Nat /\ life'[u] \in Nat
  <2>1. buffer[k][u] \in 0..MaxLives /\ life[u] \in 1..MaxLives /\ life'[u] \in 1..MaxLives
    BY DEF Types, TypeOK
  <2> QED BY <2>1, Basics
<1>3. buffer'[k][u] = buffer[k][u] /\ life[u] <= life'[u]
  <2>1. CASE u = t
    BY <1>1, <2>1 DEF Frame
  <2>2. CASE u # t
    BY <1>2, <2>2 DEF Frame
  <2> QED BY <2>1, <2>2
<1>4. buffer'[k][u] # 0 /\ buffer'[k][u] < life'[u]
  BY <1>1, <1>2, <1>3
<1> QED BY <1>4 DEF Reused

LEMMA OthersStay ==
    ASSUME IInv, Types', NEW t \in Threads, Frame(t), NEW u \in Threads \ {t}
    PROVE  Objects(u)' /\ Place(u)' /\ Uses(u)'
<1>1. Types /\ Objects(u) /\ Place(u) /\ Uses(u)
  BY DEF IInv
<1>2. Objects(u)'
  BY <1>1 DEF Objects, Frame
<1>3. Place(u)'
  BY <1>1 DEF Place, Frame
<1>4. Uses(u)'
  <2>1. /\ pc[u] \in {"idle", "flag", "stack", "lock"} => acc[u] = {}
        /\ pc[u] = "scan" /\ acc[u] # {} => \E p \in acc[u] : p.key = "log_stack"
        /\ \A x \in todo[u] : buffer["log_stack"][x] # 0
    BY <1>1 DEF Uses
  <2>2. pc'[u] = pc[u] /\ acc'[u] = acc[u] /\ todo'[u] = todo[u] /\ op'[u] = op[u]
    BY DEF Frame
  <2>3. \A x \in todo'[u] : buffer'["log_stack"][x] # 0
    <3> SUFFICES ASSUME NEW x \in todo'[u] PROVE buffer'["log_stack"][x] # 0
      OBVIOUS
    <3>1. x \in Threads /\ x \in todo[u] /\ buffer["log_stack"][x] # 0
      BY <1>1, <2>1, <2>2 DEF Types, TypeOK
    <3> QED BY <3>1, Basics DEF Frame
  <2>4. ~looked' => ~looked
    BY DEF Frame
  <2>5. ~looked => /\ todo[u] \subseteq {u} /\ op[u] \notin {"empty", "dump_all"}
                   /\ \A p \in acc[u] : p.owner = u
    BY <1>1 DEF Uses
  <2>6. ~looked' /\ ~Reused' => \A p \in acc'[u] : Exists(p)'
    <3> SUFFICES ASSUME ~looked', ~Reused', NEW p \in acc[u] PROVE Exists(p)'
      BY <2>2
    <3>1. ~looked /\ ~Reused
      BY <1>1, <2>4, ReusedStays
    <3>2. Exists(p) /\ p.owner = u
      BY <1>1, <2>5, <3>1 DEF Uses
    <3>3. p.key \in Keys
      BY <1>1 DEF Types, TypeOK, Pointers
    <3> QED BY <3>2, <3>3 DEF Exists, Frame
  <2> QED BY <2>1, <2>2, <2>3, <2>4, <2>5, <2>6 DEF Uses
<1> QED BY <1>2, <1>3, <1>4

LEMMA StepOf ==
    ASSUME IInv, Types', NEW t \in Threads, Frame(t), Locked',
           Objects(t)', Place(t)', Uses(t)', \A u \in Threads : OnStack(u)'
    PROVE  IInv'
BY OthersStay DEF IInv

\* The same for steps that make and delete no object.
LEMMA LocalStep ==
    ASSUME IInv, Types', NEW t \in Threads, UNCHANGED <<life, alive, slot, buffer>>, looked => looked',
           \A u \in Threads \ {t} :
              /\ pc'[u] = pc[u] /\ op'[u] = op[u] /\ item'[u] = item[u] /\ todo'[u] = todo[u]
              /\ acc'[u] = acc[u] /\ layers'[u] = layers[u],
           Locked', Place(t)', Uses(t)', \A u \in Threads : OnStack(u)'
    PROVE  IInv'
<1>1. life[t] \in Nat
  BY DEF IInv, Types, TypeOK
<1>2. Frame(t)
  BY <1>1 DEF Frame
<1>3. Objects(t)'
  BY DEF IInv, Objects
<1> QED BY <1>2, <1>3, StepOf
-----------------------------------------------------------------------------
LEMMA SameObjects ==
    ASSUME UNCHANGED <<life, alive, slot, buffer>>
    PROVE  (Reused' <=> Reused) /\ \A p \in Pointers : Exists(p)' <=> Exists(p)
BY DEF Reused, Exists

\* t enters the call o, and is then at l.
LEMMA Enters ==
    ASSUME IInv, NEW t \in Threads, pc[t] = "idle", alive[t],
           NEW l \in {"flag", "stack", "lock"}, NEW i \in Layers \cup {NoItem},
           NEW o \in {"push", "pop", "clear", "empty", "dump_all", "dump_own"},
           l = "flag" => o \in {"push", "pop"} /\ i \in Layers /\ (o = "pop" => i \in layers[t]),
           l = "stack" => o = "clear", l = "lock" => o \in {"empty", "dump_all", "dump_own"},
           pc' = [pc EXCEPT ![t] = l], op' = [op EXCEPT ![t] = o], item' = [item EXCEPT ![t] = i],
           looked' \in BOOLEAN, looked => looked', o \in {"empty", "dump_all"} => looked',
           UNCHANGED <<life, alive, slot, buffer, stack, pushing, mutex, todo, acc, layers, drained>>
    PROVE  IInv'
<1>1. Types /\ Locked /\ Uses(t)
  BY DEF IInv
<1>2. /\ pc'[t] = l /\ op'[t] = o /\ item'[t] = i
      /\ \A u \in Threads \ {t} : pc'[u] = pc[u] /\ op'[u] = op[u] /\ item'[u] = item[u]
  BY <1>1 DEF Types
<1>3. Types'
  BY <1>1 DEF Types, TypeOK
<1>4. Locked'
  BY <1>1, <1>2 DEF Locked
<1>5. Place(t)'
  BY <1>2 DEF Place
<1>6. Uses(t)'
  BY <1>1, <1>2, SameObjects DEF Uses
<1>7. \A u \in Threads : OnStack(u)'
  BY DEF IInv, OnStack
<1> QED BY <1>2, <1>3, <1>4, <1>5, <1>6, <1>7, LocalStep

LEMMA CallStep ==
    ASSUME IInv, NEW t \in Threads, Call(t)
    PROVE  IInv'
<1>1. /\ pc[t] = "idle" /\ alive[t] /\ Types
      /\ UNCHANGED <<life, alive, slot, buffer, stack, pushing, mutex, todo, acc, layers, drained>>
  BY DEF Call, IInv, localVars, dataVars
<1>2. item[t] \in Layers \cup {NoItem} /\ item = [item EXCEPT ![t] = item[t]] /\ looked \in BOOLEAN
  BY <1>1 DEF Types
<1>3. ASSUME NEW i \in Layers, op' = [op EXCEPT ![t] = IF i \in layers[t] THEN "pop" ELSE "push"],
             item' = [item EXCEPT ![t] = i], Goto(t, "flag"), UNCHANGED looked
      PROVE  IInv'
  <2>1. CASE i \in layers[t]
    <3>1. op' = [op EXCEPT ![t] = "pop"] /\ pc' = [pc EXCEPT ![t] = "flag"]
      BY <1>3, <2>1 DEF Goto
    <3> QED BY <1>1, <1>2, <1>3, <2>1, <3>1, Enters
  <2>2. CASE i \notin layers[t]
    <3>1. op' = [op EXCEPT ![t] = "push"] /\ pc' = [pc EXCEPT ![t] = "flag"]
      BY <1>3, <2>2 DEF Goto
    <3> QED BY <1>1, <1>2, <1>3, <2>2, <3>1, Enters
  <2> QED BY <2>1, <2>2
<1>4. ASSUME op' = [op EXCEPT ![t] = "clear"], Goto(t, "stack"), UNCHANGED <<item, looked>>
      PROVE  IInv'
  <2>1. pc' = [pc EXCEPT ![t] = "stack"] /\ item' = [item EXCEPT ![t] = item[t]]
    BY <1>2, <1>4 DEF Goto
  <2> QED BY <1>1, <1>2, <1>4, <2>1, Enters
<1>5. ASSUME NEW o \in {"empty", "dump_all", "dump_own"}, op' = [op EXCEPT ![t] = o],
             looked' = (looked \/ o # "dump_own"), Goto(t, "lock"), UNCHANGED item
      PROVE  IInv'
  <2>1. pc' = [pc EXCEPT ![t] = "lock"] /\ item' = [item EXCEPT ![t] = item[t]]
    BY <1>2, <1>5 DEF Goto
  <2>2. looked' \in BOOLEAN /\ (looked => looked') /\ (o \in {"empty", "dump_all"} => looked')
    BY <1>2, <1>5
  <2> QED BY <1>1, <1>2, <1>5, <2>1, <2>2, Enters
<1> QED BY <1>3, <1>4, <1>5 DEF Call

LEMMA ReachStep ==
    ASSUME IInv, NEW t \in Threads, Reach(t)
    PROVE  IInv'
<1> DEFINE k == KeyOf(pc[t])
           l == IF pc[t] = "flag" THEN "in_flag" ELSE "in_stack"
<1>1. /\ pc[t] \in {"flag", "stack"} /\ slot[k][t] # 0
      /\ acc' = [acc EXCEPT ![t] = {Mine(k, t)}] /\ pc' = [pc EXCEPT ![t] = l]
      /\ UNCHANGED <<life, alive, slot, buffer, stack, pushing, mutex, op, item, todo, layers, looked, drained>>
      /\ Types /\ Locked /\ Place(t) /\ Uses(t)
  BY DEF Reach, IInv, Goto, Get, localVars, dataVars, history
<1>2. k \in Keys
  BY Basics DEF KeyOf
<1>3. slot[k][t] \in 0..MaxLives
  BY <1>1, <1>2 DEF Types, TypeOK
<1>4. slot[k][t] \in 1..MaxLives
  BY <1>1, <1>3, Basics
<1>5. l \in {"in_flag", "in_stack"} /\ (l = "in_flag" <=> pc[t] = "flag")
  BY <1>1
<1> DEFINE m == Mine(k, t)
<1>6. m \in Pointers /\ m.owner = t /\ Exists(m)
  BY <1>2, <1>4 DEF Mine, Pointers, Exists, Get
<1> HIDE DEF k, l, m
<1>7. /\ acc' = [acc EXCEPT ![t] = {m}] /\ acc'[t] = {m} /\ pc'[t] = l
      /\ \A u \in Threads \ {t} : pc'[u] = pc[u] /\ acc'[u] = acc[u]
  BY <1>1 DEF Types, TypeOK, m
<1>8. Types'
  <2>1. acc' \in [Threads -> SUBSET Pointers]
    <3>1. {m} \in SUBSET Pointers /\ acc \in [Threads -> SUBSET Pointers]
      BY <1>1, <1>6 DEF Types, TypeOK
    <3>2. acc' = [acc EXCEPT ![t] = {m}]
      BY <1>7
    <3> HIDE DEF m
    <3> QED BY <3>1, <3>2
  <2>2. pc' \in [Threads -> {"idle", "flag", "in_flag", "stack", "in_stack", "lock", "scan"}]
    BY <1>1, <1>5 DEF Types
  <2> QED BY <1>1, <2>1, <2>2 DEF Types, TypeOK
<1>9. Locked'
  BY <1>1, <1>5, <1>7 DEF Locked
<1>10. Place(t)'
  BY <1>1, <1>5, <1>7 DEF Place
<1>11. Uses(t)'
  BY <1>1, <1>5, <1>6, <1>7, SameObjects DEF Uses
<1>12. \A u \in Threads : OnStack(u)'
  BY <1>1 DEF IInv, OnStack
<1> QED BY <1>1, <1>7, <1>8, <1>9, <1>10, <1>11, <1>12, LocalStep

LEMMA SetFlagStep ==
    ASSUME IInv, NEW t \in Threads, SetFlag(t)
    PROVE  IInv'
<1>1. /\ pc[t] = "in_flag" /\ acc' = [acc EXCEPT ![t] = {}] /\ pc' = [pc EXCEPT ![t] = "stack"]
      /\ UNCHANGED <<life, alive, slot, buffer, stack, mutex, op, item, todo, layers, looked, drained>>
      /\ Types /\ Locked /\ Place(t) /\ Uses(t)
  BY DEF SetFlag, IInv, Goto, localVars, history
<1>2. /\ acc'[t] = {} /\ pc'[t] = "stack"
      /\ \A u \in Threads \ {t} : pc'[u] = pc[u] /\ acc'[u] = acc[u]
  BY <1>1 DEF Types, TypeOK
<1>3. pushing' \in [Threads -> BOOLEAN]
  BY <1>1 DEF SetFlag, Types, TypeOK
<1>4. Types'
  BY <1>1, <1>3 DEF Types, TypeOK
<1>5. Locked'
  BY <1>1, <1>2 DEF Locked
<1>6. Place(t)'
  BY <1>1, <1>2 DEF Place
<1>7. Uses(t)'
  BY <1>1, <1>2, SameObjects DEF Uses
<1>8. \A u \in Threads : OnStack(u)'
  BY <1>1 DEF IInv, OnStack
<1> QED BY <1>1, <1>2, <1>4, <1>5, <1>6, <1>7, <1>8, LocalStep
-----------------------------------------------------------------------------
\* t has done what it wanted with its stack and returns.
LEMMA Returns ==
    ASSUME IInv, NEW t \in Threads, pc[t] = "in_stack", Return(t),
           stack' \in [Threads -> Seq(Layers)], drained' \in [Threads -> BOOLEAN],
           layers' \in [Threads -> SUBSET Layers],
           \A u \in Threads \ {t} : layers'[u] = layers[u],
           \A u \in Threads : OnStack(u)'
    PROVE  IInv'
<1>1. /\ acc' = [acc EXCEPT ![t] = {}] /\ pc' = [pc EXCEPT ![t] = "idle"]
      /\ op' = [op EXCEPT ![t] = "none"] /\ item' = [item EXCEPT ![t] = NoItem]
      /\ UNCHANGED <<life, alive, slot, buffer, pushing, mutex, todo, looked>>
      /\ Types /\ Locked /\ Uses(t)
  BY DEF Return, Leave, Goto, IInv, localVars
<1>2. /\ acc'[t] = {} /\ pc'[t] = "idle" /\ op'[t] = "none"
      /\ \A u \in Threads \ {t} : /\ pc'[u] = pc[u] /\ acc'[u] = acc[u]
                                   /\ op'[u] = op[u] /\ item'[u] = item[u]
  BY <1>1 DEF Types, TypeOK
<1>3. Types'
  BY <1>1 DEF Types, TypeOK
<1>4. Locked'
  BY <1>1, <1>2 DEF Locked
<1>5. Place(t)'
  BY <1>2 DEF Place
<1>6. Uses(t)'
  BY <1>1, <1>2, SameObjects DEF Uses
<1> QED BY <1>1, <1>2, <1>3, <1>4, <1>5, <1>6, LocalStep

LEMMA PushStep ==
    ASSUME IInv, NEW t \in Threads, Push(t)
    PROVE  IInv'
<1>1. /\ pc[t] = "in_stack" /\ op[t] = "push" /\ Return(t) /\ UNCHANGED drained
      /\ stack' = [stack EXCEPT ![t] = Append(stack[t], item[t])]
      /\ layers' = [layers EXCEPT ![t] = layers[t] \cup {item[t]}]
      /\ Types /\ Place(t)
  BY DEF Push, IInv
<1>2. item[t] \in Layers /\ stack[t] \in Seq(Layers) /\ layers[t] \subseteq Layers
  BY <1>1 DEF Place, Types, TypeOK
<1>3. /\ Append(stack[t], item[t]) \in Seq(Layers)
      /\ ToSet(stack[t]) \cup {item[t]} \subseteq ToSet(Append(stack[t], item[t]))
  BY <1>2, PushSet
<1>4. /\ stack' \in [Threads -> Seq(Layers)] /\ layers' \in [Threads -> SUBSET Layers]
      /\ stack'[t] = Append(stack[t], item[t]) /\ layers'[t] = layers[t] \cup {item[t]}
      /\ \A u \in Threads \ {t} : layers'[u] = layers[u] /\ stack'[u] = stack[u]
  BY <1>1, <1>2, <1>3 DEF Types, TypeOK
<1>5. OnStack(t)'
  BY <1>1, <1>3, <1>4 DEF IInv, OnStack
<1>6. \A u \in Threads \ {t} : OnStack(u)'
  BY <1>1, <1>4 DEF IInv, OnStack
<1>7. drained' \in [Threads -> BOOLEAN]
  BY <1>1 DEF Types
<1> QED BY <1>1, <1>4, <1>5, <1>6, <1>7, Returns

LEMMA PopStep ==
    ASSUME IInv, ~Broken, NEW t \in Threads, Pop(t)
    PROVE  IInv'
<1> DEFINE rest == IF Last(stack[t]) = item[t] THEN Front(stack[t]) ELSE stack[t]
<1>1. /\ pc[t] = "in_stack" /\ op[t] = "pop" /\ Return(t) /\ UNCHANGED drained
      /\ stack' = [stack EXCEPT ![t] = rest]
      /\ layers' = [layers EXCEPT ![t] = layers[t] \ {item[t]}]
      /\ Types /\ stack[t] # <<>>
  BY DEF Pop, IInv, Broken, AsksTopOfEmpty
<1>2. stack[t] \in Seq(Layers) /\ layers[t] \subseteq Layers
  BY <1>1 DEF Types, TypeOK
<1>3. /\ Front(stack[t]) \in Seq(Layers)
      /\ ToSet(stack[t]) \ {Last(stack[t])} \subseteq ToSet(Front(stack[t]))
  BY <1>1, <1>2, PopSet
<1>4. rest \in Seq(Layers) /\ ToSet(stack[t]) \ {item[t]} \subseteq ToSet(rest)
  BY <1>2, <1>3
<1> HIDE DEF rest
<1>5. /\ stack' \in [Threads -> Seq(Layers)] /\ layers' \in [Threads -> SUBSET Layers]
      /\ stack'[t] = rest /\ layers'[t] = layers[t] \ {item[t]}
      /\ \A u \in Threads \ {t} : layers'[u] = layers[u] /\ stack'[u] = stack[u]
  BY <1>1, <1>2, <1>4 DEF Types, TypeOK
<1>6. OnStack(t)'
  BY <1>1, <1>4, <1>5 DEF IInv, OnStack
<1>7. \A u \in Threads \ {t} : OnStack(u)'
  BY <1>1, <1>5 DEF IInv, OnStack
<1>8. drained' \in [Threads -> BOOLEAN]
  BY <1>1 DEF Types
<1> QED BY <1>1, <1>5, <1>6, <1>7, <1>8, Returns

LEMMA ClearStep ==
    ASSUME IInv, NEW t \in Threads, Clear(t)
    PROVE  IInv'
<1>1. /\ pc[t] = "in_stack" /\ Return(t) /\ UNCHANGED layers
      /\ stack' = [stack EXCEPT ![t] = <<>>] /\ drained' = [drained EXCEPT ![t] = TRUE]
      /\ Types
  BY DEF Clear, IInv
<1>2. /\ stack' \in [Threads -> Seq(Layers)] /\ drained' \in [Threads -> BOOLEAN]
      /\ layers' \in [Threads -> SUBSET Layers]
      /\ \A u \in Threads \ {t} : stack'[u] = stack[u]
  BY <1>1 DEF Types, TypeOK
<1>3. drained'[t] /\ \A u \in Threads \ {t} : drained'[u] <=> drained[u]
  BY <1>1 DEF Types
<1>4. \A u \in Threads : OnStack(u)'
  BY <1>1, <1>2, <1>3 DEF IInv, OnStack
<1> QED BY <1>1, <1>2, <1>4, Returns
-----------------------------------------------------------------------------
LEMMA TakeMutexStep ==
    ASSUME IInv, NEW t \in Threads, TakeMutex(t)
    PROVE  IInv'
<1> DEFINE all == {u \in Threads : buffer["log_stack"][u] # 0 /\ (op[t] = "dump_own" => u = t)}
<1>1. /\ pc[t] = "lock" /\ mutex = NoThread /\ mutex' = t
      /\ todo' = [todo EXCEPT ![t] = all] /\ pc' = [pc EXCEPT ![t] = "scan"]
      /\ UNCHANGED <<life, alive, slot, buffer, stack, pushing, op, item, acc, layers, looked, drained>>
      /\ Types /\ Locked /\ Place(t) /\ Uses(t)
  BY DEF TakeMutex, IInv, Goto, localVars, dataVars, history
<1>2. /\ all \subseteq Threads /\ (op[t] = "dump_own" => all \subseteq {t})
      /\ \A u \in all : buffer["log_stack"][u] # 0
  OBVIOUS
<1> HIDE DEF all
<1>3. /\ todo'[t] = all /\ pc'[t] = "scan"
      /\ \A u \in Threads \ {t} : pc'[u] = pc[u] /\ todo'[u] = todo[u]
  BY <1>1 DEF Types, TypeOK
<1>4. Types'
  <2>1. todo' \in [Threads -> SUBSET Threads] /\ mutex' \in Threads \cup {NoThread}
    BY <1>1, <1>2 DEF Types, TypeOK
  <2>2. pc' \in [Threads -> {"idle", "flag", "in_flag", "stack", "in_stack", "lock", "scan"}]
    BY <1>1 DEF Types
  <2> QED BY <1>1, <2>1, <2>2 DEF Types, TypeOK
<1>5. Locked'
  BY <1>1, <1>3, Basics DEF Locked
<1>6. Place(t)'
  BY <1>1, <1>3 DEF Place
<1>7. Uses(t)'
  BY <1>1, <1>2, <1>3, SameObjects DEF Uses, Place
<1>8. \A u \in Threads : OnStack(u)'
  BY <1>1 DEF IInv, OnStack
<1> QED BY <1>1, <1>3, <1>4, <1>5, <1>6, <1>7, <1>8, LocalStep

\* What a walk through the map has of an entry is its pointer; the object of a dump of
\* the thread itself exists, unless the id was used before.
LEMMA EntryFacts ==
    ASSUME IInv, NEW t \in Threads, pc[t] # "idle", NEW k \in Keys, NEW u \in Threads, buffer[k][u] # 0
    PROVE  /\ Mapped(k, u) \in Pointers /\ Mapped(k, u).key = k /\ Mapped(k, u).owner = u
           /\ u = t /\ ~Reused => Exists(Mapped(k, u))
<1>1. buffer[k][u] \in 0..MaxLives /\ life[u] \in 1..MaxLives
  BY DEF IInv, Types, TypeOK
<1>2. buffer[k][u] \in 1..MaxLives
  BY <1>1, Basics
<1>3. Mapped(k, u) \in Pointers /\ Mapped(k, u).key = k /\ Mapped(k, u).owner = u
  BY <1>2 DEF Mapped, Pointers
<1>4. ASSUME u = t, ~Reused PROVE Exists(Mapped(k, u))
  <2>1. /\ alive[t] /\ buffer[k][t] <= life[t]
        /\ (buffer[k][t] = life[t] /\ alive[t] => slot[k][t] = life[t])
    BY DEF IInv, Place, Objects
  <2>2. ~(buffer[k][t] < life[t])
    BY <1>4 DEF Reused
  <2>3. buffer[k][t] = life[t]
    BY <1>1, <1>4, <2>1, <2>2, Basics
  <2> QED BY <1>4, <2>1, <2>3 DEF Exists, Mapped
<1> QED BY <1>3, <1>4

LEMMA VisitStep ==
    ASSUME IInv, NEW t \in Threads, Visit(t)
    PROVE  IInv'
<1>1. /\ pc[t] = "scan" /\ acc[t] = {}
      /\ UNCHANGED <<life, alive, slot, buffer, stack, pushing, mutex, pc, op, item, layers, looked, drained>>
      /\ Types /\ Locked /\ Place(t) /\ Uses(t)
  BY DEF Visit, IInv, localVars, dataVars, history
<1>2. PICK u \in todo[t] :
         /\ acc' = [acc EXCEPT ![t] = {Mapped("log_stack", u)} \cup
                       IF op[t] = "empty" \/ buffer["is_pushing"][u] = 0 THEN {}
                       ELSE {Mapped("is_pushing", u)}]
         /\ todo' = [todo EXCEPT ![t] = todo[t] \ {u}]
  BY DEF Visit
<1> DEFINE s == Mapped("log_stack", u)
           f == IF op[t] = "empty" \/ buffer["is_pushing"][u] = 0 THEN {} ELSE {Mapped("is_pushing", u)}
<1>3. u \in Threads /\ todo[t] \subseteq Threads /\ buffer["log_stack"][u] # 0
  BY <1>1 DEF Types, TypeOK, Uses
<1>4. /\ s \in Pointers /\ s.key = "log_stack" /\ s.owner = u
      /\ u = t /\ ~Reused => Exists(s)
  BY <1>1, <1>3, EntryFacts, Basics
<1>5. \A p \in f : p \in Pointers /\ p.owner = u /\ (u = t /\ ~Reused => Exists(p))
  BY <1>1, <1>3, EntryFacts, Basics
<1> DEFINE a == {s} \cup f
<1>6. /\ a \in SUBSET Pointers /\ s \in a
      /\ \A p \in a : p.owner = u /\ (u = t /\ ~Reused => Exists(p))
  BY <1>4, <1>5
<1>7. acc' = [acc EXCEPT ![t] = a]
  BY <1>2
<1> HIDE DEF a, f, s
<1>8. /\ acc'[t] = a /\ todo'[t] = todo[t] \ {u}
      /\ \A w \in Threads \ {t} : acc'[w] = acc[w] /\ todo'[w] = todo[w]
  BY <1>1, <1>2, <1>7 DEF Types, TypeOK
<1>9. Types'
  <2>1. acc' \in [Threads -> SUBSET Pointers]
    BY <1>1, <1>6, <1>7 DEF Types, TypeOK
  <2>2. todo' \in [Threads -> SUBSET Threads]
    BY <1>1, <1>2, <1>3 DEF Types, TypeOK
  <2> QED BY <1>1, <2>1, <2>2 DEF Types, TypeOK
<1>10. Locked' /\ Place(t)'
  BY <1>1 DEF Locked, Place
<1>11. Uses(t)'
  <2>1. /\ pc'[t] = "scan" /\ \E p \in acc'[t] : p.key = "log_stack"
    BY <1>1, <1>4, <1>6, <1>8
  <2>2. \A w \in todo'[t] : buffer'["log_stack"][w] # 0
    BY <1>1, <1>8 DEF Uses
  <2>3. ~looked' => /\ todo'[t] \subseteq {t} /\ op'[t] \notin {"empty", "dump_all"}
                    /\ \A p \in acc'[t] : p.owner = t
    BY <1>1, <1>6, <1>8 DEF Uses
  <2>4. ~looked' /\ ~Reused' => \A p \in acc'[t] : Exists(p)'
    <3> SUFFICES ASSUME ~looked', ~Reused', NEW p \in a PROVE Exists(p)'
      BY <1>8
    <3>1. u = t /\ ~Reused
      BY <1>1, SameObjects DEF Uses
    <3>2. Exists(p) /\ p \in Pointers
      BY <1>6, <3>1
    <3> QED BY <1>1, <3>2, SameObjects
  <2> QED BY <2>1, <2>2, <2>3, <2>4 DEF Uses
<1>12. \A w \in Threads : OnStack(w)'
  BY <1>1 DEF IInv, OnStack
<1> QED BY <1>1, <1>8, <1>9, <1>10, <1>11, <1>12, LocalStep

LEMMA LookAtStep ==
    ASSUME IInv, NEW t \in Threads, LookAt(t)
    PROVE  IInv'
<1> DEFINE left == IF stack[Visited(t)] = <<>> THEN todo[t] ELSE {}
<1>1. /\ pc[t] = "scan" /\ acc' = [acc EXCEPT ![t] = {}] /\ todo' = [todo EXCEPT ![t] = left]
      /\ UNCHANGED <<life, alive, slot, buffer, stack, pushing, mutex, pc, op, item, layers, looked, drained>>
      /\ Types /\ Locked /\ Place(t) /\ Uses(t)
  BY DEF LookAt, IInv, localVars, dataVars, history
<1>2. left \subseteq todo[t] /\ todo[t] \subseteq Threads
  BY <1>1 DEF Types, TypeOK
<1> HIDE DEF left
<1>3. /\ acc'[t] = {} /\ todo'[t] = left
      /\ \A u \in Threads \ {t} : acc'[u] = acc[u] /\ todo'[u] = todo[u]
  BY <1>1 DEF Types, TypeOK
<1>4. Types'
  <2>1. todo' \in [Threads -> SUBSET Threads] /\ acc' \in [Threads -> SUBSET Pointers]
    BY <1>1, <1>2 DEF Types, TypeOK
  <2> QED BY <1>1, <2>1 DEF Types, TypeOK
<1>5. Locked' /\ Place(t)'
  BY <1>1 DEF Locked, Place
<1>6. Uses(t)'
  BY <1>1, <1>2, <1>3, SameObjects DEF Uses
<1>7. \A u \in Threads : OnStack(u)'
  BY <1>1 DEF IInv, OnStack
<1> QED BY <1>1, <1>3, <1>4, <1>5, <1>6, <1>7, LocalStep

LEMMA ReportStep ==
    ASSUME IInv, NEW t \in Threads, Report(t)
    PROVE  IInv'
<1> DEFINE u == Visited(t)
<1>1. /\ pc[t] = "scan" /\ acc[t] # {} /\ acc' = [acc EXCEPT ![t] = {}]
      /\ stack' = [stack EXCEPT ![u] = <<>>] /\ drained' = [drained EXCEPT ![u] = TRUE]
      /\ UNCHANGED <<life, alive, slot, buffer, pushing, mutex, pc, op, item, todo, layers, looked>>
      /\ Types /\ Locked /\ Place(t) /\ Uses(t)
  BY DEF Report, IInv, localVars
<1>2. u \in Threads
  <2>1. \E p \in acc[t] : p.key = "log_stack"
    BY <1>1 DEF Uses
  <2>2. (CHOOSE p \in acc[t] : p.key = "log_stack") \in acc[t]
    BY <2>1
  <2>3. acc[t] \subseteq Pointers
    BY <1>1 DEF Types, TypeOK
  <2> QED BY <2>2, <2>3 DEF Visited, Pointers
<1> HIDE DEF u
<1>3. /\ acc'[t] = {} /\ stack'[u] = <<>> /\ drained'[u]
      /\ \A w \in Threads \ {t} : acc'[w] = acc[w]
  BY <1>1, <1>2 DEF Types, TypeOK
<1>4. \A w \in Threads \ {u} : stack'[w] = stack[w] /\ (drained'[w] <=> drained[w])
  BY <1>1 DEF Types, TypeOK
<1>5. Types'
  <2>1. stack' \in [Threads -> Seq(Layers)]
    <3>1. <<>> \in Seq(Layers) /\ stack \in [Threads -> Seq(Layers)]
      BY <1>1 DEF Types, TypeOK
    <3>2. stack' = [stack EXCEPT ![u] = <<>>]
      BY <1>1
    <3> QED BY <3>1, <3>2
  <2>2. acc' \in [Threads -> SUBSET Pointers] /\ drained' \in [Threads -> BOOLEAN]
    BY <1>1 DEF Types, TypeOK
  <2> QED BY <1>1, <2>1, <2>2 DEF Types, TypeOK
<1>6. Locked' /\ Place(t)'
  BY <1>1 DEF Locked, Place
<1>7. Uses(t)'
  BY <1>1, <1>3, SameObjects DEF Uses
<1>8. \A w \in Threads : OnStack(w)'
  BY <1>1, <1>3, <1>4 DEF IInv, OnStack
<1> QED BY <1>1, <1>3, <1>5, <1>6, <1>7, <1>8, LocalStep

LEMMA UnlockStep ==
    ASSUME IInv, NEW t \in Threads, Unlock(t)
    PROVE  IInv'
<1>1. /\ pc[t] = "scan" /\ acc[t] = {} /\ mutex' = NoThread
      /\ pc' = [pc EXCEPT ![t] = "idle"] /\ op' = [op EXCEPT ![t] = "none"]
      /\ item' = [item EXCEPT ![t] = NoItem]
      /\ UNCHANGED <<life, alive, slot, buffer, stack, pushing, todo, acc, layers, looked, drained>>
      /\ Types /\ Locked /\ Uses(t)
  BY DEF Unlock, Leave, Goto, IInv, localVars, dataVars, history
<1>2. /\ pc'[t] = "idle" /\ op'[t] = "none"
      /\ \A u \in Threads \ {t} : pc'[u] = pc[u] /\ op'[u] = op[u] /\ item'[u] = item[u]
  BY <1>1 DEF Types
<1>3. Types'
  BY <1>1 DEF Types, TypeOK
<1>4. Locked'
  BY <1>1, <1>2, Basics DEF Locked
<1>5. Place(t)'
  BY <1>2 DEF Place
<1>6. Uses(t)'
  BY <1>1, <1>2, SameObjects DEF Uses
<1>7. \A u \in Threads : OnStack(u)'
  BY <1>1 DEF IInv, OnStack
<1> QED BY <1>1, <1>2, <1>3, <1>4, <1>5, <1>6, <1>7, LocalStep
-----------------------------------------------------------------------------
\* The first use of an object: made, and in the map if the id is new there.
LEMMA RegisterStep ==
    ASSUME IInv, NEW t \in Threads, Register(t)
    PROVE  IInv'
<1> DEFINE k == KeyOf(pc[t])
           b == IF buffer[k][t] = 0 THEN life[t] ELSE buffer[k][t]
<1>1. /\ pc[t] \in {"flag", "stack"} /\ mutex = NoThread /\ slot[k][t] = 0
      /\ slot' = [slot EXCEPT ![k][t] = life[t]] /\ buffer' = [buffer EXCEPT ![k][t] = b]
      /\ UNCHANGED <<life, alive, stack, pushing, mutex, pc, op, item, todo, acc, layers, looked, drained>>
      /\ Types /\ Locked /\ Place(t) /\ Uses(t) /\ Objects(t)
  BY DEF Register, Create, Get, IInv, dataVars, history
<1>2. k \in Keys /\ alive[t] /\ acc[t] = {}
  BY <1>1, Basics DEF KeyOf, Place, Uses
<1> HIDE DEF k
<1>3. /\ life[t] \in 1..MaxLives /\ buffer[k][t] \in 0..MaxLives
      /\ slot \in [Keys -> [Threads -> 0..MaxLives]]
      /\ buffer \in [Keys -> [Threads -> 0..MaxLives]]
  BY <1>1, <1>2 DEF Types, TypeOK
<1>4. /\ life[t] \in Nat /\ life[t] # 0 /\ life[t] \in 0..MaxLives /\ b \in 0..MaxLives /\ b \in Nat
      /\ b # 0 /\ b <= life[t] /\ (buffer[k][t] # 0 => b = buffer[k][t])
  BY <1>1, <1>2, <1>3, Basics DEF Objects
<1> HIDE DEF b
<1>5. /\ slot'[k][t] = life[t] /\ buffer'[k][t] = b
      /\ \A j \in Keys : \A u \in Threads :
            j # k \/ u # t => slot'[j][u] = slot[j][u] /\ buffer'[j][u] = buffer[j][u]
  BY <1>1, <1>2, <1>3
<1>6. Types'
  <2>1. slot' \in [Keys -> [Threads -> 0..MaxLives]]
    BY <1>1, <1>3, <1>4
  <2>2. buffer' \in [Keys -> [Threads -> 0..MaxLives]]
    BY <1>1, <1>3, <1>4
  <2> QED BY <1>1, <2>1, <2>2 DEF Types, TypeOK
<1>7. Frame(t)
  <2>1. \A j \in Keys : buffer[j][t] # 0 => buffer'[j][t] = buffer[j][t]
    BY <1>4, <1>5
  <2> QED BY <1>1, <1>4, <1>5, <2>1 DEF Frame
<1>8. Objects(t)'
  <2>1. ASSUME NEW j \in Keys
        PROVE  /\ slot'[j][t] = 0 \/ slot'[j][t] = life'[t]
               /\ buffer'[j][t] <= life'[t]
               /\ slot'[j][t] # 0 => buffer'[j][t] # 0
               /\ buffer'[j][t] = life'[t] /\ alive'[t] => slot'[j][t] = life'[t]
               /\ ~alive'[t] => slot'[j][t] = 0
    <3>1. CASE j = k
      BY <1>1, <1>2, <1>4, <1>5, <3>1
    <3>2. CASE j # k
      BY <1>1, <1>5, <3>2 DEF Objects
    <3> QED BY <3>1, <3>2
  <2> QED BY <2>1 DEF Objects
<1>9. Uses(t)'
  <2>1. \A u \in todo[t] : buffer'["log_stack"][u] # 0
    <3> SUFFICES ASSUME NEW u \in todo[t] PROVE buffer'["log_stack"][u] # 0
      OBVIOUS
    <3>1. u \in Threads /\ buffer["log_stack"][u] # 0
      BY <1>1 DEF Types, TypeOK, Uses
    <3> QED BY <1>4, <1>5, <3>1, Basics
  <2> QED BY <1>1, <1>2, <2>1 DEF Uses
<1>10. Locked' /\ Place(t)'
  BY <1>1 DEF Locked, Place
<1>11. \A u \in Threads : OnStack(u)'
  BY <1>1 DEF IInv, OnStack
<1> QED BY <1>6, <1>7, <1>8, <1>9, <1>10, <1>11, StepOf

LEMMA EndStep ==
    ASSUME IInv, NEW t \in Threads, End(t)
    PROVE  IInv'
<1>1. /\ pc[t] = "idle" /\ alive' = [alive EXCEPT ![t] = FALSE]
      /\ slot' = [k \in Keys |-> [slot[k] EXCEPT ![t] = 0]]
      /\ stack' = [stack EXCEPT ![t] = <<>>] /\ pushing' = [pushing EXCEPT ![t] = FALSE]
      /\ layers' = [layers EXCEPT ![t] = {}] /\ drained' = [drained EXCEPT ![t] = FALSE]
      /\ UNCHANGED <<life, buffer, mutex, pc, op, item, todo, acc, looked>>
      /\ Types /\ Locked /\ Place(t) /\ Uses(t) /\ Objects(t)
  BY DEF End, EndThread, DeleteAll, IInv
<1>2. acc[t] = {} /\ life[t] \in Nat
  BY <1>1 DEF Uses, Types, TypeOK
<1>3. /\ ~alive'[t] /\ layers'[t] = {}
      /\ \A u \in Threads \ {t} : /\ (alive'[u] <=> alive[u]) /\ layers'[u] = layers[u]
                                  /\ stack'[u] = stack[u] /\ (drained'[u] <=> drained[u])
  BY <1>1 DEF Types, TypeOK
<1>4. \A k \in Keys : slot'[k][t] = 0 /\ \A u \in Threads \ {t} : slot'[k][u] = slot[k][u]
  BY <1>1 DEF Types, TypeOK
<1>5. Types'
  <2>1. stack' \in [Threads -> Seq(Layers)]
    <3>1. <<>> \in Seq(Layers) /\ stack \in [Threads -> Seq(Layers)]
      BY <1>1 DEF Types, TypeOK
    <3>2. stack' = [stack EXCEPT ![t] = <<>>]
      BY <1>1
    <3> QED BY <3>1, <3>2
  <2>2. slot' \in [Keys -> [Threads -> 0..MaxLives]]
    <3>1. 0 \in 0..MaxLives /\ slot \in [Keys -> [Threads -> 0..MaxLives]]
      BY <1>1, Basics DEF Types, TypeOK
    <3>2. \A k \in Keys : [slot[k] EXCEPT ![t] = 0] \in [Threads -> 0..MaxLives]
      BY <3>1
    <3>3. slot' = [k \in Keys |-> [slot[k] EXCEPT ![t] = 0]]
      BY <1>1
    <3> QED BY <3>2, <3>3
  <2>3. alive' \in [Threads -> BOOLEAN] /\ pushing' \in [Threads -> BOOLEAN]
    BY <1>1 DEF Types, TypeOK
  <2>4. layers' \in [Threads -> SUBSET Layers] /\ drained' \in [Threads -> BOOLEAN]
    BY <1>1 DEF Types
  <2> QED BY <1>1, <2>1, <2>2, <2>3, <2>4 DEF Types, TypeOK
<1>6. Frame(t)
  BY <1>1, <1>2, <1>3, <1>4 DEF Frame
<1>7. Objects(t)'
  BY <1>1, <1>3, <1>4 DEF Objects
<1>8. Place(t)'
  <2>1. op[t] # "pop"
    BY <1>1 DEF Place
  <2> QED BY <1>1, <2>1 DEF Place
<1>9. Uses(t)'
  BY <1>1, <1>2 DEF Uses
<1>10. Locked'
  BY <1>1 DEF Locked
<1>11. \A u \in Threads : OnStack(u)'
  BY <1>1, <1>3 DEF IInv, OnStack
<1> QED BY <1>5, <1>6, <1>7, <1>8, <1>9, <1>10, <1>11, StepOf

LEMMA BeginStep ==
    ASSUME IInv, NEW t \in Threads, Begin(t)
    PROVE  IInv'
<1>1. /\ ~alive[t] /\ life[t] < MaxLives
      /\ alive' = [alive EXCEPT ![t] = TRUE] /\ life' = [life EXCEPT ![t] = life[t] + 1]
      /\ UNCHANGED <<slot, stack, pushing, buffer, mutex, pc, op, item, todo, acc, layers, looked, drained>>
      /\ Types /\ Locked /\ Place(t) /\ Uses(t) /\ Objects(t)
  BY DEF Begin, StartThread, IInv, dataVars, history
<1>2. /\ life[t] \in 1..MaxLives /\ life \in [Threads -> 1..MaxLives] /\ alive \in [Threads -> BOOLEAN]
      /\ \A k \in Keys : buffer[k][t] \in 0..MaxLives
  BY <1>1 DEF Types, TypeOK
<1>3. life[t] + 1 \in 1..MaxLives /\ life[t] <= life[t] + 1
  BY <1>1, <1>2, Basics
<1>4. /\ life'[t] = life[t] + 1 /\ alive'[t]
      /\ \A u \in Threads \ {t} : life'[u] = life[u] /\ (alive'[u] <=> alive[u])
  BY <1>1, <1>2
<1>5. Types'
  <2>1. life' \in [Threads -> 1..MaxLives]
    BY <1>1, <1>2, <1>3
  <2>2. alive' \in [Threads -> BOOLEAN]
    BY <1>1, <1>2
  <2> QED BY <1>1, <2>1, <2>2 DEF Types, TypeOK
<1>6. Frame(t)
  BY <1>1, <1>3, <1>4 DEF Frame
<1>7. pc[t] = "idle" /\ acc[t] = {} /\ \A k \in Keys : slot[k][t] = 0
  BY <1>1, <1>2 DEF Place, Uses, Objects
<1>8. Objects(t)'
  <2>1. ASSUME NEW k \in Keys
        PROVE  buffer'[k][t] <= life'[t] /\ buffer'[k][t] # life'[t]
    <3>1. buffer'[k][t] <= life[t] /\ buffer'[k][t] \in Nat /\ life[t] \in Nat
      BY <1>1, <1>2 DEF Objects
    <3> QED BY <1>4, <3>1
  <2> QED BY <1>1, <1>7, <2>1 DEF Objects
<1>9. Place(t)'
  BY <1>1, <1>7 DEF Place
<1>10. Uses(t)'
  BY <1>1, <1>7 DEF Uses
<1>11. Locked'
  BY <1>1 DEF Locked
<1>12. \A u \in Threads : OnStack(u)'
  BY <1>1 DEF IInv, OnStack
<1> QED BY <1>5, <1>6, <1>8, <1>9, <1>10, <1>11, <1>12, StepOf
-----------------------------------------------------------------------------
LEMMA NextIInv == IInv /\ [Next]_vars => IInv'
<1> SUFFICES ASSUME IInv, [Next]_vars PROVE IInv'
  OBVIOUS
<1>1. CASE Next
  <2>1. ~Broken
    BY <1>1 DEF Next
  <2>2. PICK t \in Threads : Step(t) \/ Call(t) \/ End(t) \/ Begin(t)
    BY <1>1 DEF Next
  <2>3. CASE Step(t)
    BY <2>1, <2>3, RegisterStep, ReachStep, SetFlagStep, PushStep, PopStep, ClearStep,
       TakeMutexStep, VisitStep, LookAtStep, ReportStep, UnlockStep DEF Step
  <2> QED BY <2>2, <2>3, CallStep, EndStep, BeginStep
<1>2. CASE UNCHANGED vars
  <2>1. UNCHANGED <<life, alive, slot, stack, pushing, buffer, mutex, pc, op, item,
                    todo, acc, layers, looked, drained>>
    BY <1>2 DEF vars, localVars, dataVars, history
  <2>2. Types' /\ Locked'
    BY <2>1 DEF IInv, Types, TypeOK, Locked
  <2>3. ASSUME NEW t \in Threads PROVE Objects(t)' /\ Place(t)' /\ Uses(t)' /\ OnStack(t)'
    <3>1. Objects(t)' /\ Place(t)' /\ OnStack(t)'
      BY <2>1 DEF IInv, Objects, Place, OnStack
    <3>2. Uses(t)'
      BY <2>1 DEF IInv, Uses, Reused, Exists
    <3> QED BY <3>1, <3>2
  <2> QED BY <2>2, <2>3 DEF IInv
<1> QED BY <1>1, <1>2

\* The invariant holds in every state the program gets to, however long it runs.
THEOREM Inductive == Spec => []IInv
BY InitIInv, NextIInv, PTL DEF Spec
-----------------------------------------------------------------------------
LEMMA IInvOwnUse == IInv => OwnUseIsSafe
<1> SUFFICES ASSUME IInv PROVE OwnUseIsSafe
  OBVIOUS
<1>1. ASSUME Race, ~looked PROVE FALSE
  <2>1. PICK t \in Threads, u \in Threads : t # u /\ acc[t] \cap acc[u] # {}
    BY <1>1 DEF Race
  <2>2. PICK p : p \in acc[t] /\ p \in acc[u]
    BY <2>1
  <2>3. p.owner = t /\ p.owner = u
    BY <1>1, <2>2 DEF IInv, Uses
  <2> QED BY <2>1, <2>3
<1>2. ASSUME Dangling, ~looked, ~Reused PROVE FALSE
  BY <1>2 DEF Dangling, IInv, Uses
<1>3. ASSUME NEW t \in Threads, AsksTopOfEmpty(t), ~drained[t] PROVE FALSE
  <2>1. item[t] \in layers[t] /\ stack[t] = <<>>
    BY <1>3 DEF AsksTopOfEmpty, IInv, Place
  <2>2. item[t] \in ToSet(<<>>)
    BY <1>3, <2>1 DEF IInv, OnStack
  <2> QED BY <2>2 DEF ToSet
<1> QED BY <1>1, <1>2, <1>3 DEF OwnUseIsSafe

\* However many threads enter and leave layers: as long as each looks at no stack but
\* its own and no id comes back, none of them races with another one or uses a deleted
\* object, and the top of an empty stack is asked for only after a dump or a clear.
THEOREM OwnThreadsAreSafe == Spec => []OwnUseIsSafe
BY Inductive, IInvOwnUse, PTL

LEMMA IInvLayers == IInv => LayersKept
<1> SUFFICES ASSUME IInv PROVE LayersKept
  OBVIOUS
<1>1. TypeOK
  BY DEF IInv, Types
<1>2. InMapUnlessReused
  <2> SUFFICES ASSUME NEW k \in Keys, NEW t \in Threads, slot[k][t] # 0
               PROVE  /\ buffer[k][t] # 0
                      /\ buffer[k][t] # slot[k][t] => buffer[k][t] < life[t]
    BY DEF InMapUnlessReused
  <2>1. /\ slot[k][t] = life[t] /\ buffer[k][t] <= life[t] /\ buffer[k][t] # 0
        /\ life[t] \in Nat /\ buffer[k][t] \in Nat
    BY <1>1 DEF IInv, Objects, TypeOK
  <2> QED BY <2>1
<1>3. LayersOnStack
  BY DEF IInv, OnStack, LayersOnStack
<1> QED BY <1>1, <1>2, <1>3 DEF LayersKept

\* A dump names every layer its thread is in, unless an earlier dump or a clear has
\* taken it; and every object in use is in the map, unless its thread's id came back.
THEOREM DumpsAreComplete == Spec => []LayersKept
BY Inductive, IInvLayers, PTL

LEMMA StandStill ==
    ASSUME IInv, [Next]_vars
    PROVE  (\E t \in Threads : pc[t] = "scan") => buffer' = buffer
<1> SUFFICES ASSUME NEW w \in Threads, pc[w] = "scan" PROVE buffer' = buffer
  OBVIOUS
<1>1. mutex = w /\ mutex # NoThread
  BY Basics DEF IInv, Locked
<1>2. CASE UNCHANGED vars
  BY <1>2 DEF vars
<1>3. ASSUME NEW t \in Threads, Step(t) PROVE buffer' = buffer
  BY <1>1, <1>3 DEF Step, Register, Reach, SetFlag, Push, Pop, Clear, Return,
     TakeMutex, Visit, LookAt, Report, Unlock
<1>4. ASSUME NEW t \in Threads, Call(t) \/ End(t) \/ Begin(t) PROVE buffer' = buffer
  BY <1>4 DEF Call, End, Begin
<1> QED BY <1>2, <1>3, <1>4 DEF Next

\* No map changes while a call walks through it, whichever calls other threads make.
THEOREM WalksAreUndisturbed == Spec => MapsStandStill
<1>1. IInv /\ [Next]_vars => [(\E t \in Threads : pc[t] = "scan") => buffer' = buffer]_vars
  BY StandStill
<1> QED BY <1>1, Inductive, PTL DEF Spec, MapsStandStill
=============================================================================
