---------------------- MODULE ParameterServerMainProofs ----------------------
(***************************************************************************)
(* Proofs about a process from its start to its servers: the properties    *)
(* of ParameterServerMain for every registry of flags, list of arguments,  *)
(* environment, set of init functions, and number of ports and devices.    *)
(***************************************************************************)
EXTENDS ParameterServerMain, FiniteSetTheorems, WellFoundedInduction, TLAPS

\* What is known of a sequence of which only that is known.
LEMMA SequenceFacts ==
    ASSUME NEW s, IsSequence(s)
    PROVE  /\ Len(s) \in Nat /\ DOMAIN s = 1..Len(s)
           /\ s \in [1..Len(s) -> Range(s)]
           /\ s \in Surjection(1..Len(s), Range(s))
           /\ IsFiniteSet(Range(s))
<1>1. s \in Seq(Range(s))
  BY DEF IsSequence
<1>2. Len(s) \in Nat /\ DOMAIN s = 1..Len(s) /\ s \in [1..Len(s) -> Range(s)]
  BY <1>1
<1>3. s \in Surjection(1..Len(s), Range(s))
  BY <1>2 DEF Surjection, Range
<1>4. IsFiniteSet(1..Len(s))
  BY <1>2, FS_Interval
<1> QED BY <1>2, <1>3, <1>4, FS_Surjection

LEMMA CountTo ==
    ASSUME NEW n \in Nat PROVE IsFiniteSet(1..n) /\ Cardinality(1..n) = n
<1>1. IsFiniteSet(1..n) /\ Cardinality(1..n) = IF 1 > n THEN 0 ELSE n - 1 + 1
  BY FS_Interval
<1> QED BY <1>1
-----------------------------------------------------------------------------
(* The init functions. *)

\* The loop is in the sorted part of the list, whatever has been registered behind it.
Underway ==
    /\ next <= end + 1 /\ end <= Len(g_init_funcs)
    /\ \A a, b \in 1..end : a < b => Priority[g_init_funcs[a]] >= Priority[g_init_funcs[b]]
    /\ before = {g_init_funcs[a] : a \in 1..end}
    /\ ran = [a \in 1..next - 1 |-> g_init_funcs[a]]

RunInv ==
    /\ g_init_funcs \in Seq(Functions) /\ IsInjective(g_init_funcs)
    /\ next \in Nat /\ end \in Nat
    /\ ~g_initialized /\ ~Running => ran = <<>>
    /\ Running => ~g_initialized /\ Underway
    /\ g_initialized => IsInjective(ran) /\ Range(ran) = before /\ Ordered(ran)

LEMMA RegisterStep ==
    ASSUME RunInv, NEW f \in Functions, RegisterInitFunction(f) PROVE RunInv'
<1>1. /\ g_init_funcs \in Seq(Functions) /\ g_init_funcs' = Append(g_init_funcs, f)
      /\ Len(g_init_funcs) \in Nat
  BY DEF RunInv, RegisterInitFunction
<1>2. /\ g_init_funcs' \in Seq(Functions) /\ Len(g_init_funcs') = Len(g_init_funcs) + 1
      /\ \A a \in 1..Len(g_init_funcs) : g_init_funcs'[a] = g_init_funcs[a]
      /\ g_init_funcs'[Len(g_init_funcs) + 1] = f
      /\ DOMAIN g_init_funcs = 1..Len(g_init_funcs)
      /\ DOMAIN g_init_funcs' = 1..Len(g_init_funcs) + 1
  BY <1>1
<1>3. IsInjective(g_init_funcs)'
  <2>1. \A a \in 1..Len(g_init_funcs) : g_init_funcs[a] # f
    BY <1>2 DEF RegisterInitFunction, Registered, Range
  <2>2. \A a, b \in 1..Len(g_init_funcs) : g_init_funcs[a] = g_init_funcs[b] => a = b
    BY <1>2 DEF RunInv, IsInjective
  <2>3. ASSUME NEW a \in 1..Len(g_init_funcs) + 1, NEW b \in 1..Len(g_init_funcs) + 1,
               g_init_funcs'[a] = g_init_funcs'[b]
        PROVE  a = b
    BY <1>1, <1>2, <2>1, <2>2, <2>3
  <2> QED BY <1>2, <2>3 DEF IsInjective
<1>4. UNCHANGED <<g_initialized, next, end, ran, before>>
  BY DEF RegisterInitFunction
<1>5. ASSUME Running PROVE Underway'
  <2>1. Underway /\ next \in Nat /\ end \in Nat
    BY <1>5 DEF RunInv
  <2>2. 1..end \subseteq 1..Len(g_init_funcs) /\ 1..next - 1 \subseteq 1..end
    BY <2>1, <1>1 DEF Underway
  <2>3. \A a \in 1..end : g_init_funcs'[a] = g_init_funcs[a]
    BY <2>2, <1>2
  <2>4. before' = {g_init_funcs'[a] : a \in 1..end'}
    BY <2>1, <2>3, <1>4 DEF Underway
  <2>5. ran' = [a \in 1..next' - 1 |-> g_init_funcs'[a]]
    BY <2>1, <2>2, <2>3, <1>4 DEF Underway
  <2>6. \A a, b \in 1..end' : a < b => Priority[g_init_funcs'[a]] >= Priority[g_init_funcs'[b]]
    BY <2>1, <2>3, <1>4 DEF Underway
  <2> QED BY <2>1, <2>4, <2>5, <2>6, <1>2, <1>1, <1>4 DEF Underway
<1> QED BY <1>2, <1>3, <1>4, <1>5 DEF RunInv, Running, Ordered, IsInjective, Range

LEMMA SortStep == ASSUME RunInv, SortFunctions PROVE RunInv'
<1> DEFINE S == Range(g_init_funcs)
           D == 1..Cardinality(S)
           n == Len(g_init_funcs)
<1>1. PICK list \in SetToSeqs(S) : Ordered(list) /\ g_init_funcs' = list
  BY DEF SortFunctions
<1>2. g_init_funcs \in [1..n -> Functions] /\ n \in Nat /\ DOMAIN g_init_funcs = 1..n
  BY DEF RunInv
<1>3. g_init_funcs \in Surjection(1..n, S) /\ g_init_funcs \in Injection(1..n, S)
  BY <1>2 DEF Surjection, Injection, Range, RunInv, IsInjective
<1>4. IsFiniteSet(1..n) /\ Cardinality(1..n) = n
  BY <1>2, CountTo
<1>5. IsFiniteSet(S) /\ Cardinality(S) = n
  BY <1>3, <1>4, FS_Surjection
<1>6. list \in [D -> S] /\ \A a, b \in D : a # b => list[a] # list[b]
  BY <1>1 DEF SetToSeqs
<1>7. list \in Injection(D, S)
  BY <1>6 DEF Injection, IsInjective
<1>8. list \in Surjection(D, S)
  <2>1. D = 1..n
    BY <1>5
  <2>2. Cardinality(D) = Cardinality(S)
    BY <1>4, <1>5, <2>1
  <2> HIDE DEF D, S
  <2> QED BY <2>2, <1>5, <1>7, FS_Injection
<1>9. S = {list[a] : a \in 1..n}
  <2>1. D = 1..n
    BY <1>5
  <2> HIDE DEF D, S
  <2>2. S = {list[a] : a \in D}
    BY <1>6, <1>8 DEF Surjection
  <2> QED BY <2>1, <2>2
<1>10. S \subseteq Functions
  BY <1>2 DEF Range
<1>11. list \in [1..n -> Functions]
  BY <1>5, <1>6, <1>10
<1>12. list \in Seq(Functions) /\ Len(list) = n /\ IsInjective(list)
  BY <1>2, <1>7, <1>11 DEF Injection
<1>13. /\ next' = 1 /\ end' = n /\ before' = S /\ ran' = <<>> /\ ~g_initialized /\ ~g_initialized'
  BY DEF SortFunctions, RunInv
<1>14. Underway'
  <2>1. \A a, b \in 1..n : a < b => Priority[list[a]] >= Priority[list[b]]
    BY <1>1, <1>11 DEF Ordered
  <2>2. ran' = [a \in 1..next' - 1 |-> list[a]]
    BY <1>13
  <2> HIDE DEF S, D, n
  <2> QED BY <2>1, <2>2, <1>1, <1>2, <1>9, <1>12, <1>13 DEF Underway
<1> HIDE DEF S, D, n
<1> QED BY <1>1, <1>2, <1>12, <1>13, <1>14 DEF RunInv, Running

LEMMA RunFunctionStep == ASSUME RunInv, RunFunction PROVE RunInv'
<1>1. /\ Running /\ next \in Nat /\ next # 0 /\ next <= end /\ end \in Nat
      /\ UNCHANGED <<g_init_funcs, g_initialized, end, broken, before>>
      /\ next' = next + 1 /\ ran' = Append(ran, g_init_funcs[next])
      /\ Underway /\ ~g_initialized
  BY DEF RunFunction, RunInv, Running
<1>2. ran' = [a \in 1..next' - 1 |-> g_init_funcs'[a]]
  <2> DEFINE r == [a \in 1..next - 1 |-> g_init_funcs[a]]
  <2>1. g_init_funcs \in [1..Len(g_init_funcs) -> Functions] /\ end <= Len(g_init_funcs)
    BY <1>1 DEF RunInv, Underway
  <2>2. ran = r /\ r \in Seq(Functions) /\ Len(r) = next - 1 /\ g_init_funcs[next] \in Functions
    <3>1. ran = r
      BY <1>1 DEF Underway
    <3>2. 1..next - 1 \subseteq 1..Len(g_init_funcs) /\ next \in 1..Len(g_init_funcs)
      BY <1>1, <2>1
    <3>3. r \in [1..next - 1 -> Functions] /\ next - 1 \in Nat
      BY <1>1, <2>1, <3>2
    <3> QED BY <2>1, <3>1, <3>2, <3>3
  <2>3. \A a \in 1..next - 1 : r[a] = g_init_funcs[a]
    OBVIOUS
  <2>4. Append(r, g_init_funcs[next]) = [a \in 1..next |-> g_init_funcs[a]]
    <3> HIDE DEF r
    <3>1. Append(r, g_init_funcs[next]) = [a \in 1..(next - 1) + 1 |->
                                             IF a = (next - 1) + 1 THEN g_init_funcs[next] ELSE r[a]]
      BY <2>2
    <3> QED BY <1>1, <2>3, <3>1
  <2> HIDE DEF r
  <2> QED BY <1>1, <2>2, <2>4
<1>3. Underway'
  BY <1>1, <1>2 DEF Underway
<1> QED BY <1>1, <1>3 DEF RunInv, Running

\* At the end of the loop all of the sorted part has run.
LEMMA EndFunctionsStep == ASSUME RunInv, EndFunctions PROVE RunInv'
<1>1. /\ Running /\ next \in Nat /\ end \in Nat /\ next > end
      /\ g_init_funcs' = <<>> /\ next' = 0 /\ g_initialized'
      /\ UNCHANGED <<end, broken, ran, before>> /\ Underway
  BY DEF EndFunctions, RunInv, Running
<1>2. ran = [a \in 1..end |-> g_init_funcs[a]]
  BY <1>1 DEF Underway
<1>3. 1..end \subseteq DOMAIN g_init_funcs
  BY <1>1 DEF RunInv, Underway
<1>4. IsInjective(ran) /\ Range(ran) = before /\ Ordered(ran)
  BY <1>1, <1>2, <1>3 DEF RunInv, Underway, IsInjective, Range, Ordered
<1>5. IsInjective(g_init_funcs') /\ g_init_funcs' \in Seq(Functions)
  BY <1>1 DEF IsInjective
<1> QED BY <1>1, <1>4, <1>5 DEF RunInv, Running, Ordered, IsInjective, Range

LEMMA RunKept == ASSUME RunInv, UNCHANGED initVars PROVE RunInv'
BY DEF RunInv, initVars, Running, Underway, Ordered, IsInjective, Range

LEMMA RunInvSuffices == RunInv => RunInOrderOnce
<1> SUFFICES ASSUME RunInv PROVE RunInOrderOnce
  OBVIOUS
<1>1. CASE g_initialized
  BY <1>1 DEF RunInv, RunInOrderOnce, Ordered
<1>2. CASE ~g_initialized /\ ~Running
  <2>1. ran = <<>> /\ DOMAIN ran = {}
    BY <1>2 DEF RunInv
  <2> QED BY <1>2, <2>1 DEF RunInOrderOnce, IsInjective, Range
<1>3. CASE ~g_initialized /\ Running
  <2>1. Underway /\ next \in Nat /\ end \in Nat /\ g_init_funcs \in Seq(Functions)
    BY <1>3 DEF RunInv
  <2>2. ran = [a \in 1..next - 1 |-> g_init_funcs[a]] /\ 1..next - 1 \subseteq 1..end
    BY <2>1 DEF Underway
  <2>3. 1..end \subseteq DOMAIN g_init_funcs
    BY <2>1 DEF Underway
  <2>4. IsInjective(ran) /\ Range(ran) \subseteq before
    BY <2>1, <2>2, <2>3 DEF RunInv, Underway, IsInjective, Range
  <2>5. \A a, b \in DOMAIN ran : a < b => Priority[ran[a]] >= Priority[ran[b]]
    BY <2>1, <2>2 DEF Underway
  <2> QED BY <1>3, <2>4, <2>5 DEF RunInOrderOnce
<1> QED BY <1>1, <1>2, <1>3
-----------------------------------------------------------------------------
(* The log. *)

LogInv == /\ env.dir \in BOOLEAN /\ g_log_to_stderr \in BOOLEAN /\ g_log_inited \in BOOLEAN
          /\ g_log_min_level \in Int
          /\ SevereMeansMore

\* Where a severity that the loops reach goes to.
Places(s) == {p \in {STDERR} : g_log_to_stderr}
             \cup {FileOf(t) : t \in {u \in g_log_min_level..s : env.dir}}

\* A list that starts with stderr goes to it and to the rest.
LEMMA Prefixed ==
    ASSUME NEW l \in Seq(Nat \ {STDERR}), IsInjective(l)
    PROVE  /\ IsInjective(<<STDERR>> \o l)
           /\ Range(<<STDERR>> \o l) = {STDERR} \cup Range(l)
<1> DEFINE p == <<STDERR>> \o l
<1>1. Len(l) \in Nat /\ DOMAIN l = 1..Len(l) /\ l \in [1..Len(l) -> Nat \ {STDERR}]
  OBVIOUS
<1>2. DOMAIN p = 1..Len(l) + 1 /\ p[1] = STDERR /\ \A k \in 1..Len(l) : p[k + 1] = l[k]
  <2>1. l \in Seq(Nat) /\ <<STDERR>> \in Seq(Nat) /\ Len(<<STDERR>>) = 1
    BY DEF STDERR
  <2> QED BY <2>1, <1>1
<1> HIDE DEF p
<1>3. \A k \in DOMAIN p : k = 1 \/ (k - 1 \in 1..Len(l) /\ p[k] = l[k - 1] /\ p[k] # STDERR)
  <2> SUFFICES ASSUME NEW k \in DOMAIN p, k # 1
               PROVE  k - 1 \in 1..Len(l) /\ p[k] = l[k - 1] /\ p[k] # STDERR
    OBVIOUS
  <2>1. k - 1 \in 1..Len(l) /\ (k - 1) + 1 = k
    BY <1>1, <1>2
  <2> QED BY <2>1, <1>1, <1>2
<1>4. IsInjective(p)
  <2> SUFFICES ASSUME NEW a \in DOMAIN p, NEW b \in DOMAIN p, p[a] = p[b] PROVE a = b
    BY DEF IsInjective
  <2>1. CASE a = 1 \/ b = 1
    BY <2>1, <1>2, <1>3
  <2>2. CASE a # 1 /\ b # 1
    <3>1. a - 1 = b - 1
      BY <2>2, <1>1, <1>3 DEF IsInjective
    <3> QED BY <3>1, <1>1, <1>2
  <2> QED BY <2>1, <2>2
<1>5. Range(p) = {STDERR} \cup Range(l)
  <2>1. \A x \in Range(p) : x \in {STDERR} \cup Range(l)
    BY <1>1, <1>2, <1>3 DEF Range
  <2>2. STDERR \in Range(p)
    BY <1>1, <1>2 DEF Range
  <2>3. ASSUME NEW k \in 1..Len(l) PROVE l[k] \in Range(p)
    <3>1. k + 1 \in DOMAIN p /\ p[k + 1] = l[k]
      BY <1>1, <1>2
    <3> QED BY <3>1 DEF Range
  <2> QED BY <2>1, <2>2, <2>3, <1>1 DEF Range
<1> QED BY <1>4, <1>5 DEF p

LEMMA FilesFacts ==
    ASSUME NEW s \in Int, g_log_min_level \in Nat, g_log_min_level <= s
    PROVE  /\ FilesUpTo(s) \in Seq(Nat \ {STDERR}) /\ IsInjective(FilesUpTo(s))
           /\ Range(FilesUpTo(s)) = {FileOf(t) : t \in {u \in g_log_min_level..s : env.dir}}
<1> DEFINE m == g_log_min_level
           n == s - m + 1
           l == [k \in 1..n |-> FileOf(m + k - 1)]
<1>1. n \in Nat
  OBVIOUS
<1>2. \A k \in 1..n : l[k] = m + k + 2 /\ l[k] \in Nat \ {STDERR}
  BY DEF FileOf, STDERR
<1>3. CASE env.dir
  <2>1. FilesUpTo(s) = l
    BY <1>3 DEF FilesUpTo
  <2>2. l \in [1..n -> Nat \ {STDERR}]
    BY <1>2
  <2>3. l \in Seq(Nat \ {STDERR})
    BY <1>1, <2>2
  <2>4. IsInjective(l)
    BY <1>1, <1>2 DEF IsInjective
  <2>5. Range(l) = {FileOf(t) : t \in m..s}
    <3>1. \A k \in 1..n : m + k - 1 \in m..s /\ l[k] = FileOf(m + k - 1)
      OBVIOUS
    <3>2. ASSUME NEW t \in m..s PROVE t - m + 1 \in 1..n /\ l[t - m + 1] = FileOf(t)
      BY DEF FileOf
    <3> HIDE DEF n
    <3>3. DOMAIN l = 1..n
      OBVIOUS
    <3> HIDE DEF l
    <3> QED BY <3>1, <3>2, <3>3 DEF Range
  <2>6. {u \in m..s : env.dir} = m..s
    BY <1>3
  <2> QED BY <2>1, <2>3, <2>4, <2>5, <2>6
<1>4. CASE ~env.dir
  <2>1. FilesUpTo(s) = <<>> /\ {u \in m..s : env.dir} = {}
    BY <1>4 DEF FilesUpTo
  <2> QED BY <2>1 DEF IsInjective, Range
<1> QED BY <1>3, <1>4

LEMMA FdsFacts ==
    ASSUME NEW s \in Int, g_log_min_level \in Nat, g_log_min_level <= s
    PROVE  IsInjective(FdsOf(s)) /\ Range(FdsOf(s)) = Places(s)
<1>1. CASE g_log_to_stderr
  <2>1. FdsOf(s) = <<STDERR>> \o FilesUpTo(s) /\ {p \in {STDERR} : g_log_to_stderr} = {STDERR}
    BY <1>1 DEF FdsOf, ToStderr
  <2> QED BY <2>1, FilesFacts, Prefixed DEF Places
<1>2. CASE ~g_log_to_stderr
  <2>1. FilesUpTo(s) \in Seq(Nat)
    BY FilesFacts
  <2>2. FdsOf(s) = FilesUpTo(s) /\ {p \in {STDERR} : g_log_to_stderr} = {}
    BY <1>2, <2>1 DEF FdsOf, ToStderr
  <2> QED BY <2>2, FilesFacts DEF Places
<1> QED BY <1>1, <1>2

\* The table goes wrong for no minimum level: a negative one is only survived without any
\* place to write to.
LEMMA InitializeStep == ASSUME LogInv, InitializeLogFds PROVE LogInv'
<1>1. UNCHANGED <<env, g_log_to_stderr, g_log_min_level>>
  BY DEF InitializeLogFds
<1>2. CASE UNCHANGED <<g_log_inited, g_log_fds>>
  BY <1>1, <1>2 DEF LogInv, SevereMeansMore, Destinations
<1>3. CASE /\ g_log_fds' = [s \in Severities |-> IF s \in Looped THEN FdsOf(s) ELSE <<>>]
           /\ g_log_inited' = TRUE
           /\ ~(g_log_min_level < 0 /\ (g_log_to_stderr \/ env.dir))
  <2>1. \A s \in Severities : s \in Int /\ s >= 0
    BY LevelsAssumption DEF Severities
  <2>2. \A s \in Severities : Destinations(s)' = IF s \in Looped THEN FdsOf(s) ELSE <<>>
    BY <1>3 DEF Destinations
  <2>3. \A s \in Severities : s \in Looped <=> g_log_min_level <= s
    BY <2>1, LevelsAssumption DEF Looped, Severities, LogInv
  <2>4. IsInjective(<<>>) /\ Range(<<>>) = {}
    BY DEF IsInjective, Range
  <2>5. CASE g_log_min_level < 0
    <3>1. \A s \in Severities : Destinations(s)' = <<>>
      <4>1. ~g_log_to_stderr /\ ~env.dir
        BY <1>3, <2>5
      <4>2. \A s : FdsOf(s) = <<>>
        BY <4>1 DEF FdsOf, ToStderr, FilesUpTo
      <4> QED BY <2>2, <4>2
    <3> QED BY <1>1, <1>3, <2>4, <3>1 DEF LogInv, SevereMeansMore, Severities
  <2>6. CASE g_log_min_level >= 0
    <3>1. g_log_min_level \in Nat
      BY <2>6 DEF LogInv
    <3>2. \A s \in Severities :
             /\ IsInjective(Destinations(s)')
             /\ Range(Destinations(s)') = IF g_log_min_level <= s THEN Places(s) ELSE {}
      BY <2>1, <2>2, <2>3, <2>4, <3>1, FdsFacts
    <3>3. ASSUME NEW s \in Severities, NEW t \in Severities, s <= t
          PROVE  Range(Destinations(s)') \subseteq Range(Destinations(t)')
      <4>1. g_log_min_level..s \subseteq g_log_min_level..t
        BY <2>1, <3>1, <3>3
      <4>2. Places(s) \subseteq Places(t)
        BY <4>1 DEF Places
      <4> QED BY <2>1, <3>1, <3>2, <3>3, <4>2
    <3>4. ASSUME NEW s \in Severities, NEW t \in Severities,
                 FileOf(t) \in Range(Destinations(s)')
          PROVE  t <= s
      BY <2>1, <3>1, <3>2, <3>4 DEF Places, FileOf, STDERR
    <3> QED BY <1>1, <1>3, <3>2, <3>3, <3>4 DEF LogInv, SevereMeansMore
  <2> QED BY <2>5, <2>6 DEF LogInv
<1> QED BY <1>2, <1>3 DEF InitializeLogFds

LEMMA EnvironmentStep == ASSUME LogInv, ReadEnvironment PROVE LogInv'
<1>1. MinLevel(env.level) \in Int
  <2>1. \A s \in Severities : s \in Int
    BY LevelsAssumption DEF Severities
  <2>2. CASE env.level \in Range(LevelNames)
    <3>1. \E s \in Severities : LevelNames[s + 1] = env.level
      <4>1. PICK k \in DOMAIN LevelNames : LevelNames[k] = env.level
        BY <2>2 DEF Range
      <4>2. k \in 1..Len(LevelNames) /\ Len(LevelNames) \in Nat
        BY <4>1, LevelsAssumption
      <4>3. k - 1 \in Severities /\ (k - 1) + 1 = k
        BY <4>2 DEF Severities
      <4> QED BY <4>1, <4>3
    <3> QED BY <2>1, <3>1, LevelsAssumption DEF MinLevel
  <2> QED BY <2>2, LevelsAssumption DEF MinLevel
<1> QED BY <1>1 DEF LogInv, ReadEnvironment, SevereMeansMore, Destinations

LEMMA SetLevelStep ==
    ASSUME LogInv, NEW level \in Levels, SetMinLogLevel(level) PROVE LogInv'
BY EnvironmentsAssumption DEF LogInv, SetMinLogLevel, SevereMeansMore, Destinations

LEMMA LogInitial == LogInit(Environments) => LogInv
<1> SUFFICES ASSUME LogInit(Environments) PROVE LogInv
  OBVIOUS
<1>1. /\ env.dir \in BOOLEAN /\ g_log_to_stderr = FALSE /\ g_log_inited = FALSE
      /\ g_log_min_level \in Int
  BY EnvironmentsAssumption DEF LogInit
<1>2. \A s \in Severities : s \in Int /\ s >= 0
  BY LevelsAssumption DEF Severities
<1>3. \A s \in Severities : Destinations(s) = <<STDERR>>
  BY <1>1 DEF Destinations
<1>4. IsInjective(<<STDERR>>) /\ Range(<<STDERR>>) = {STDERR}
  BY DEF IsInjective, Range
<1>5. \A t \in Severities : FileOf(t) \notin {STDERR}
  BY <1>2 DEF FileOf, STDERR
<1>6. SevereMeansMore
  BY <1>3, <1>4, <1>5 DEF SevereMeansMore
<1> QED BY <1>1, <1>6 DEF LogInv

LEMMA LogKept == ASSUME LogInv, UNCHANGED logVars PROVE LogInv'
BY DEF LogInv, logVars, SevereMeansMore, Destinations
-----------------------------------------------------------------------------
(* What an argument says: at most one flag is concerned. *)

\* arg begins with m dashes, and what follows them is the name of command k.
Names(arg, m, k) ==
    LET n == Commands[k].name
    IN  /\ m + Len(n) <= Len(arg)
        /\ \A p \in 1..m : arg[p] = "-"
        /\ \A p \in 1..Len(n) : arg[m + p] = n[p]

\* A value follows the name.
Assigns(arg, m, k) == /\ Names(arg, m, k)
                      /\ m + Len(Commands[k].name) + 1 <= Len(arg)
                      /\ arg[m + Len(Commands[k].name) + 1] = "="

LEMMA NameFacts ==
    ASSUME NEW k \in DOMAIN Commands
    PROVE  LET n == Commands[k].name
           IN  /\ Len(n) \in Nat /\ n \in Seq(Range(n)) /\ DOMAIN n = 1..Len(n)
               /\ \A p \in 1..Len(n) : n[p] # "-" /\ n[p] # "="
<1>1. IsSequence(Commands[k].name) /\ {"-", "="} \cap Range(Commands[k].name) = {}
  BY NamesAssumption
<1>2. Len(Commands[k].name) \in Nat /\ DOMAIN Commands[k].name = 1..Len(Commands[k].name)
  BY <1>1, SequenceFacts
<1> QED BY <1>1, <1>2 DEF Range, IsSequence

LEMMA SameName ==
    ASSUME NEW k \in DOMAIN Commands, NEW j \in DOMAIN Commands,
           Len(Commands[k].name) = Len(Commands[j].name),
           \A p \in 1..Len(Commands[k].name) : Commands[k].name[p] = Commands[j].name[p]
    PROVE  k = j
<1>1. Commands[k].name = Commands[j].name
  <2> DEFINE a == Commands[k].name
             b == Commands[j].name
  <2>1. /\ a \in Seq(Range(a)) /\ b \in Seq(Range(b)) /\ Len(a) = Len(b)
        /\ \A p \in 1..Len(a) : a[p] = b[p]
    BY NameFacts
  <2>2. a \in [1..Len(a) -> Range(a)] /\ b \in [1..Len(b) -> Range(b)]
    BY <2>1
  <2> HIDE DEF a, b
  <2>3. a = b
    BY <2>1, <2>2
  <2> QED BY <2>3 DEF a, b
<1> QED BY <1>1, NamesAssumption

\* The "=" ends the name, and the first other character begins it: one command is assigned.
LEMMA AssignsOne ==
    ASSUME NEW arg, NEW k \in DOMAIN Commands, NEW j \in DOMAIN Commands,
           NEW m \in {1, 2}, NEW l \in {1, 2}, Assigns(arg, m, k), Assigns(arg, l, j)
    PROVE  k = j
<1> DEFINE a == Commands[k].name
           b == Commands[j].name
<1>1. /\ Len(a) \in Nat /\ Len(b) \in Nat
      /\ \A p \in 1..Len(a) : a[p] # "-" /\ a[p] # "="
      /\ \A p \in 1..Len(b) : b[p] # "-" /\ b[p] # "="
  BY NameFacts
<1>2. /\ \A p \in 1..m : arg[p] = "-"
      /\ \A p \in 1..Len(a) : arg[m + p] = a[p]
      /\ arg[m + Len(a) + 1] = "="
      /\ \A p \in 1..l : arg[p] = "-"
      /\ \A p \in 1..Len(b) : arg[l + p] = b[p]
      /\ arg[l + Len(b) + 1] = "="
  BY DEF Assigns, Names
<1> HIDE DEF a, b
<1>3. \A p \in 1..m + Len(a) : arg[p] # "="
  <2> SUFFICES ASSUME NEW p \in 1..m + Len(a), p > m PROVE arg[p] # "="
    BY <1>1, <1>2
  <2>1. p - m \in 1..Len(a) /\ p = m + (p - m)
    BY <1>1
  <2>2. PICK q \in 1..Len(a) : p = m + q
    BY <2>1
  <2>3. arg[p] = a[q]
    BY <2>2, <1>2
  <2> QED BY <2>3, <1>1
<1>4. \A p \in 1..l + Len(b) : arg[p] # "="
  <2> SUFFICES ASSUME NEW p \in 1..l + Len(b), p > l PROVE arg[p] # "="
    BY <1>1, <1>2
  <2>1. p - l \in 1..Len(b) /\ p = l + (p - l)
    BY <1>1
  <2>2. PICK q \in 1..Len(b) : p = l + q
    BY <2>1
  <2>3. arg[p] = b[q]
    BY <2>2, <1>2
  <2> QED BY <2>3, <1>1
<1>5. m + Len(a) = l + Len(b)
  <2>1. ~(m + Len(a) < l + Len(b))
    BY <1>1, <1>2, <1>4
  <2>2. ~(m + Len(a) > l + Len(b))
    BY <1>1, <1>2, <1>3
  <2> QED BY <2>1, <2>2, <1>1
<1>6. m = l
  <2>1. arg[m + 1] # "-"
    BY <1>1, <1>2
  <2>2. arg[l + 1] # "-"
    BY <1>1, <1>2
  <2> QED BY <2>1, <2>2, <1>2
<1>7. Len(a) = Len(b) /\ \A p \in 1..Len(a) : a[p] = b[p]
  BY <1>1, <1>2, <1>5, <1>6
<1> QED BY <1>7, SameName DEF a, b

\* The two ways to begin an argument.
Dashes == {<<"-">>, <<"-", "-">>}

LEMMA DashesFacts ==
    ASSUME NEW d \in Dashes
    PROVE  /\ Len(d) \in {1, 2} /\ d \in Seq({"-"})
           /\ \A p \in 1..Len(d) : d[p] = "-"
<1>1. CASE d = <<"-">>
  BY <1>1
<1>2. CASE d = <<"-", "-">>
  BY <1>2
<1> QED BY <1>1, <1>2 DEF Dashes

LEMMA PrefixFacts ==
    ASSUME NEW arg, IsSequence(arg), NEW T, NEW q \in Seq(T), IsPrefix(q, arg)
    PROVE  Len(q) <= Len(arg) /\ \A p \in 1..Len(q) : arg[p] = q[p]
<1>1. /\ Len(arg) \in Nat /\ arg \in [1..Len(arg) -> Range(arg)] /\ arg \in Seq(Range(arg))
  BY SequenceFacts DEF IsSequence
<1>2. /\ Len(q) \in Nat /\ Len(q) <= Len(arg)
      /\ SubSeq(q, 1, Len(q)) = SubSeq(arg, 1, Len(q))
  BY DEF IsPrefix
<1>3. \A p \in 1..Len(q) : SubSeq(q, 1, Len(q))[p] = q[p]
  BY <1>2
<1>4. \A p \in 1..Len(q) : SubSeq(arg, 1, Len(q))[p] = arg[p]
  BY <1>1, <1>2
<1> QED BY <1>2, <1>3, <1>4

\* The places of two sequences in the one that they make up.
LEMMA Joined ==
    ASSUME NEW T, NEW s \in Seq(T), NEW t \in Seq(T)
    PROVE  /\ s \o t \in Seq(T) /\ Len(s \o t) = Len(s) + Len(t)
           /\ Len(s) \in Nat /\ Len(t) \in Nat
           /\ \A p \in 1..Len(s) : (s \o t)[p] = s[p]
           /\ \A p \in 1..Len(t) : (s \o t)[Len(s) + p] = t[p]
OBVIOUS

\* What a command may read as its value is a part of an argument that assigns to it.
LEMMA ContentsFacts ==
    ASSUME NEW arg, IsSequence(arg), NEW k \in DOMAIN Commands, NEW c \in Contents(Commands[k], arg)
    PROVE  IsSequence(c) /\ \E m \in {1, 2} : Assigns(arg, m, k)
<1> DEFINE n == Commands[k].name
<1>1. PICK d \in Dashes : /\ IsPrefix(d \o n \o <<"=">>, arg)
                          /\ c = SubSeq(arg, Len(d \o n \o <<"=">>) + 1, Len(arg))
  BY DEF Contents, Dashes, StartsWith
<1>2. Len(d) \in {1, 2} /\ d \in Seq({"-"}) /\ \A p \in 1..Len(d) : d[p] = "-"
  BY DashesFacts
<1>3. n \in Seq(Range(n)) /\ Len(n) \in Nat
  BY NameFacts
<1> DEFINE T == Range(n) \cup {"-", "="}
           q == d \o n \o <<"=">>
<1> HIDE DEF n
<1>4. d \in Seq(T) /\ n \in Seq(T) /\ <<"=">> \in Seq(T)
  BY <1>2, <1>3
<1> HIDE DEF T
<1>5. d \o n \in Seq(T) /\ Len(d \o n) = Len(d) + Len(n)
  BY <1>4, Joined
<1>6. /\ \A p \in 1..Len(d) : (d \o n)[p] = d[p]
      /\ \A p \in 1..Len(n) : (d \o n)[Len(d) + p] = n[p]
  BY <1>4, Joined
<1>7. /\ q \in Seq(T) /\ Len(q) = Len(d) + Len(n) + 1 /\ q[Len(d) + Len(n) + 1] = "="
      /\ \A p \in 1..Len(d) + Len(n) : q[p] = (d \o n)[p]
  <2> DEFINE w == d \o n
             e == <<"=">>
  <2>1. /\ w \in Seq(T) /\ Len(w) = Len(d) + Len(n)
        /\ e \in Seq(T) /\ Len(e) = 1 /\ e[1] = "="
    BY <1>4, <1>5
  <2> HIDE DEF w, e
  <2>2. /\ w \o e \in Seq(T) /\ Len(w \o e) = Len(w) + 1
        /\ (w \o e)[Len(w) + 1] = "=" /\ \A p \in 1..Len(w) : (w \o e)[p] = w[p]
    BY <2>1, Joined
  <2> QED BY <2>1, <2>2 DEF w, e
<1> HIDE DEF q
<1>8. Len(q) <= Len(arg) /\ \A p \in 1..Len(q) : arg[p] = q[p]
  <2>1. IsPrefix(q, arg)
    BY <1>1 DEF q
  <2> QED BY <2>1, <1>7, PrefixFacts
<1>9. Len(arg) \in Nat /\ arg \in Seq(Range(arg))
  BY SequenceFacts DEF IsSequence
<1>10. Assigns(arg, Len(d), k)
  <2>1. Len(d) + Len(n) + 1 <= Len(arg) /\ arg[Len(d) + Len(n) + 1] = "="
    BY <1>2, <1>3, <1>7, <1>8
  <2>2. \A p \in 1..Len(d) : arg[p] = "-"
    <3> TAKE p \in 1..Len(d)
    <3>1. p \in 1..Len(d) + Len(n) /\ p \in 1..Len(q)
      BY <1>2, <1>3, <1>7
    <3> QED BY <3>1, <1>2, <1>6, <1>7, <1>8
  <2>3. \A p \in 1..Len(n) : arg[Len(d) + p] = n[p]
    <3> TAKE p \in 1..Len(n)
    <3>1. Len(d) + p \in 1..Len(d) + Len(n) /\ Len(d) + p \in 1..Len(q)
      BY <1>2, <1>3, <1>7
    <3> QED BY <3>1, <1>6, <1>7, <1>8
  <2>4. Len(d) + Len(n) <= Len(arg)
    BY <2>1, <1>2, <1>3, <1>9
  <2> QED BY <2>1, <2>2, <2>3, <2>4 DEF Assigns, Names, n
<1>11. IsSequence(c)
  <2>1. c = SubSeq(arg, Len(q) + 1, Len(arg))
    BY <1>1 DEF q
  <2>2. c \in Seq(Range(arg))
    BY <2>1, <1>7, <1>9
  <2>3. c \in [1..Len(c) -> Range(c)] /\ Len(c) \in Nat
    BY <2>2 DEF Range
  <2> QED BY <2>3 DEF IsSequence
<1> QED BY <1>2, <1>10, <1>11

\* The dashes of a prefix, and the length of the word behind them.
DashesOf(d) == IF d \in {1, 3} THEN 1 ELSE 2
WordOf(d) == IF d \in {1, 2} THEN 0 ELSE 2

LEMMA BoolPrefixesFacts ==
    ASSUME NEW d \in 1..4
    PROVE  /\ BoolPrefixes[d] \in Seq({"-", "n", "o"})
           /\ Len(BoolPrefixes[d]) = DashesOf(d) + WordOf(d)
           /\ DashesOf(d) \in {1, 2} /\ WordOf(d) \in {0, 2}
           /\ \A p \in 1..DashesOf(d) : BoolPrefixes[d][p] = "-"
           /\ WordOf(d) = 2 => /\ BoolPrefixes[d][DashesOf(d) + 1] = "n"
                              /\ BoolPrefixes[d][DashesOf(d) + 2] = "o"
<1>1. CASE d = 1
  <2>1. BoolPrefixes[d] = <<"-">> /\ DashesOf(d) = 1 /\ WordOf(d) = 0
    BY <1>1 DEF BoolPrefixes, DashesOf, WordOf
  <2> QED BY <2>1
<1>2. CASE d = 2
  <2>1. BoolPrefixes[d] = <<"-", "-">> /\ DashesOf(d) = 2 /\ WordOf(d) = 0
    BY <1>2 DEF BoolPrefixes, DashesOf, WordOf
  <2> QED BY <2>1
<1>3. CASE d = 3
  <2>1. BoolPrefixes[d] = <<"-", "n", "o">> /\ DashesOf(d) = 1 /\ WordOf(d) = 2
    BY <1>3 DEF BoolPrefixes, DashesOf, WordOf
  <2> QED BY <2>1
<1>4. CASE d = 4
  <2>1. BoolPrefixes[d] = <<"-", "-", "n", "o">> /\ DashesOf(d) = 2 /\ WordOf(d) = 2
    BY <1>4 DEF BoolPrefixes, DashesOf, WordOf
  <2> QED BY <2>1
<1> QED BY <1>1, <1>2, <1>3, <1>4

\* arg is made up of prefix d and the name of command k.
Switches(arg, d, k) ==
    LET n == Commands[k].name
        b == BoolPrefixes[d]
    IN  /\ Len(arg) = Len(b) + Len(n)
        /\ \A p \in 1..Len(b) : arg[p] = b[p]
        /\ \A p \in 1..Len(n) : arg[Len(b) + p] = n[p]

LEMMA SwitchesFacts ==
    ASSUME NEW k \in DOMAIN Commands, NEW d \in 1..4
    PROVE  Switches(BoolPrefixes[d] \o Commands[k].name, d, k)
<1> DEFINE n == Commands[k].name
           b == BoolPrefixes[d]
           T == Range(n) \cup {"-", "n", "o"}
<1>1. n \in Seq(Range(n))
  BY NameFacts
<1>2. b \in Seq({"-", "n", "o"})
  BY BoolPrefixesFacts
<1> HIDE DEF n, b
<1>3. n \in Seq(T) /\ b \in Seq(T)
  BY <1>1, <1>2
<1> HIDE DEF T
<1>4. /\ Len(b \o n) = Len(b) + Len(n)
      /\ \A p \in 1..Len(b) : (b \o n)[p] = b[p]
      /\ \A p \in 1..Len(n) : (b \o n)[Len(b) + p] = n[p]
  BY <1>3, Joined
<1> QED BY <1>4 DEF Switches, n, b

LEMMA SwitchBegins ==
    ASSUME NEW arg, NEW k \in DOMAIN Commands, NEW d \in 1..4, Switches(arg, d, k)
    PROVE  /\ \A p \in 1..DashesOf(d) : arg[p] = "-"
           /\ WordOf(d) = 2 => arg[DashesOf(d) + 1] = "n" /\ arg[DashesOf(d) + 2] = "o"
<1> DEFINE b == BoolPrefixes[d]
<1>1. /\ DashesOf(d) \in {1, 2} /\ WordOf(d) \in {0, 2} /\ Len(b) = DashesOf(d) + WordOf(d)
      /\ \A p \in 1..DashesOf(d) : b[p] = "-"
      /\ WordOf(d) = 2 => b[DashesOf(d) + 1] = "n" /\ b[DashesOf(d) + 2] = "o"
  BY BoolPrefixesFacts
<1>2. \A p \in 1..Len(b) : arg[p] = b[p]
  BY DEF Switches
<1> HIDE DEF b
<1>3. \A p \in 1..DashesOf(d) : arg[p] = b[p]
  BY <1>1, <1>2
<1>4. WordOf(d) = 2 => /\ arg[DashesOf(d) + 1] = b[DashesOf(d) + 1]
                       /\ arg[DashesOf(d) + 2] = b[DashesOf(d) + 2]
  BY <1>1, <1>2
<1> QED BY <1>1, <1>3, <1>4

\* A switch has no "=".
LEMMA SwitchAssignsNone ==
    ASSUME NEW arg, NEW k \in DOMAIN Commands, NEW d \in 1..4, Switches(arg, d, k),
           NEW j \in DOMAIN Commands, NEW m \in {1, 2}, Assigns(arg, m, j)
    PROVE  FALSE
<1> DEFINE n == Commands[k].name
           b == BoolPrefixes[d]
           e == m + Len(Commands[j].name) + 1
<1>1. Len(n) \in Nat /\ \A p \in 1..Len(n) : n[p] # "="
  BY NameFacts
<1>2. Len(b) \in 1..4 /\ \A p \in 1..Len(b) : b[p] # "="
  <2>1. b \in Seq({"-", "n", "o"}) /\ Len(b) = DashesOf(d) + WordOf(d)
    BY BoolPrefixesFacts
  <2>2. Len(b) \in 1..4
    BY <2>1, BoolPrefixesFacts
  <2> HIDE DEF b
  <2> QED BY <2>1, <2>2
<1>3. /\ Len(arg) = Len(b) + Len(n)
      /\ \A p \in 1..Len(b) : arg[p] = b[p]
      /\ \A p \in 1..Len(n) : arg[Len(b) + p] = n[p]
  BY DEF Switches
<1>4. e \in Nat \ {0} /\ e <= Len(arg) /\ arg[e] = "="
  BY NameFacts DEF Assigns
<1> HIDE DEF n, b, e
<1>5. CASE e <= Len(b)
  BY <1>2, <1>3, <1>4, <1>5
<1>6. CASE e > Len(b)
  <2>1. e - Len(b) \in 1..Len(n) /\ Len(b) + (e - Len(b)) = e
    BY <1>1, <1>2, <1>3, <1>4, <1>6
  <2>2. PICK q \in 1..Len(n) : e = Len(b) + q
    BY <2>1
  <2>3. arg[e] = n[q]
    BY <2>2, <1>3
  <2> QED BY <2>3, <1>1, <1>4
<1> QED BY <1>2, <1>4, <1>5, <1>6

LEMMA SameSequence ==
    ASSUME NEW T, NEW s \in Seq(T), NEW t \in Seq(T), Len(s) = Len(t),
           \A p \in 1..Len(s) : s[p] = t[p]
    PROVE  s = t
OBVIOUS

\* arg has s behind its first m places.
Has(arg, m, s) == \A p \in 1..Len(s) : arg[m + p] = s[p]

\* A sequence that goes on as another does behind a word is the two together.
LEMMA Continued ==
    ASSUME NEW T, NEW a \in Seq(T), NEW b \in Seq(T), NEW w \in Seq(T), NEW arg, NEW m \in Nat,
           Len(a) = Len(w) + Len(b),
           Has(arg, m, a), Has(arg, m, w), Has(arg, m + Len(w), b)
    PROVE  a = w \o b
<1> DEFINE c == w \o b
<1>1. /\ c \in Seq(T) /\ Len(c) = Len(w) + Len(b)
      /\ \A p \in 1..Len(w) : c[p] = w[p]
      /\ \A p \in 1..Len(b) : c[Len(w) + p] = b[p]
  OBVIOUS
<1> HIDE DEF c
<1>2. Len(a) \in Nat /\ Len(w) \in Nat /\ Len(b) \in Nat
  OBVIOUS
<1>3. ASSUME NEW p \in 1..Len(a) PROVE a[p] = c[p]
  <2>1. p \in 1..Len(w) \/ \E q \in 1..Len(b) : p = Len(w) + q
    <3>1. p \in 1..Len(w) \/ (p - Len(w) \in 1..Len(b) /\ p = Len(w) + (p - Len(w)))
      BY <1>2
    <3> QED BY <3>1
  <2>2. CASE p \in 1..Len(w)
    BY <2>2, <1>1 DEF Has
  <2>3. ASSUME NEW q \in 1..Len(b), p = Len(w) + q PROVE a[p] = c[p]
    <3>1. m + p = m + Len(w) + q
      BY <2>3, <1>2
    <3>2. a[p] = arg[m + p] /\ arg[m + p] = b[q] /\ c[p] = b[q]
      BY <3>1, <2>3, <1>1 DEF Has
    <3> QED BY <3>2
  <2> QED BY <2>1, <2>2, <2>3
<1>4. Len(a) = Len(c) /\ \A p \in 1..Len(a) : a[p] = c[p]
  BY <1>1, <1>3
<1>5. a = c
  BY <1>1, <1>4, SameSequence
<1> QED BY <1>5 DEF c

LEMMA JoinedFromStart ==
    ASSUME NEW T, NEW a \in Seq(T), NEW w \in Seq(T), NEW c \in Seq(T),
           Len(c) = Len(a) + Len(w), Has(c, 0, c), Has(c, 0, a), Has(c, 0 + Len(a), w)
    PROVE  c = a \o w
BY Continued, SMT

\* A name that goes on as the other does behind "no" is the one that is ruled out.
LEMMA Negation ==
    ASSUME NEW S, NEW T, NEW a \in Seq(S), NEW b \in Seq(T), NEW arg, NEW m \in Nat,
           Len(a) = 2 + Len(b), Has(arg, m, a), Has(arg, m + 2, b),
           arg[m + 1] = "n", arg[m + 2] = "o"
    PROVE  a = <<"n", "o">> \o b
<1> DEFINE U == S \cup T \cup {"n", "o"}
           w == <<"n", "o">>
<1>1. a \in Seq(U) /\ b \in Seq(U) /\ w \in Seq(U) /\ Len(w) = 2 /\ w[1] = "n" /\ w[2] = "o"
  OBVIOUS
<1> HIDE DEF U, w
<1>3. Has(arg, m, w)
  BY <1>1 DEF Has
<1>4. Has(arg, m + Len(w), b)
  BY <1>1
<1>5. Len(a) = Len(w) + Len(b)
  BY <1>1
<1>6. a = w \o b
  <2>1. a \in Seq(U) /\ b \in Seq(U) /\ w \in Seq(U)
    BY <1>1
  <2>2. m \in Nat
    OBVIOUS
  <2> QED BY <2>1, <2>2, <1>3, <1>4, <1>5, Continued
<1> QED BY <1>6 DEF w

\* No argument is a switch of two commands.
LEMMA SwitchesOne ==
    ASSUME NEW arg, NEW k \in DOMAIN Commands, NEW j \in DOMAIN Commands,
           NEW d \in 1..4, NEW e \in 1..4, Switches(arg, d, k), Switches(arg, e, j)
    PROVE  k = j
<1> DEFINE a == Commands[k].name
           b == Commands[j].name
<1>1. /\ Len(a) \in Nat /\ Len(b) \in Nat /\ a \in Seq(Range(a)) /\ b \in Seq(Range(b))
      /\ \A p \in 1..Len(a) : a[p] # "-"
      /\ \A p \in 1..Len(b) : b[p] # "-"
  BY NameFacts
<1>2. /\ Len(arg) = Len(BoolPrefixes[d]) + Len(a)
      /\ \A p \in 1..Len(BoolPrefixes[d]) : arg[p] = BoolPrefixes[d][p]
      /\ \A p \in 1..Len(a) : arg[Len(BoolPrefixes[d]) + p] = a[p]
      /\ Len(arg) = Len(BoolPrefixes[e]) + Len(b)
      /\ \A p \in 1..Len(BoolPrefixes[e]) : arg[p] = BoolPrefixes[e][p]
      /\ \A p \in 1..Len(b) : arg[Len(BoolPrefixes[e]) + p] = b[p]
  BY DEF Switches
<1> DEFINE m == DashesOf(d)
           l == DashesOf(e)
           x == WordOf(d)
           y == WordOf(e)
<1>3. /\ Len(BoolPrefixes[d]) = m + x /\ m \in {1, 2} /\ x \in {0, 2}
      /\ Len(BoolPrefixes[e]) = l + y /\ l \in {1, 2} /\ y \in {0, 2}
  BY BoolPrefixesFacts
<1>4. /\ \A p \in 1..m : arg[p] = "-"
      /\ x = 2 => arg[m + 1] = "n" /\ arg[m + 2] = "o"
  BY SwitchBegins
<1>5. /\ \A p \in 1..l : arg[p] = "-"
      /\ y = 2 => arg[l + 1] = "n" /\ arg[l + 2] = "o"
  BY SwitchBegins
<1>6. /\ Len(arg) = m + x + Len(a) /\ \A p \in 1..Len(a) : arg[m + x + p] = a[p]
      /\ Len(arg) = l + y + Len(b) /\ \A p \in 1..Len(b) : arg[l + y + p] = b[p]
  BY <1>2, <1>3
<1> HIDE DEF a, b, m, l, x, y
<1>7. m = l
  <2>1. Len(arg) > m => arg[m + 1] # "-"
    BY <1>1, <1>3, <1>4, <1>6
  <2>2. Len(arg) > l => arg[l + 1] # "-"
    BY <1>1, <1>3, <1>5, <1>6
  <2> QED BY <2>1, <2>2, <1>1, <1>3, <1>4, <1>5, <1>6
<1>8. CASE x = y
  <2>1. Len(a) = Len(b) /\ \A p \in 1..Len(a) : a[p] = b[p]
    BY <1>1, <1>3, <1>6, <1>7, <1>8
  <2> QED BY <2>1, SameName DEF a, b
<1>9. CASE x = 0 /\ y = 2
  <2>1. a = <<"n", "o">> \o b
    <3>1. m \in Nat /\ Len(a) = 2 + Len(b)
      BY <1>1, <1>3, <1>6, <1>7, <1>9
    <3>2. Has(arg, m, a)
      BY <1>1, <1>3, <1>6, <1>9 DEF Has
    <3>3. Has(arg, m + 2, b)
      BY <1>1, <1>3, <1>6, <1>7, <1>9 DEF Has
    <3>4. arg[m + 1] = "n" /\ arg[m + 2] = "o"
      BY <1>5, <1>7, <1>9
    <3>5. a \in Seq(Range(a)) /\ b \in Seq(Range(b))
      BY <1>1
    <3> QED BY <3>1, <3>2, <3>3, <3>4, <3>5, Negation
  <2> QED BY <2>1, NamesAssumption DEF a, b
<1>10. CASE x = 2 /\ y = 0
  <2>1. b = <<"n", "o">> \o a
    <3>1. l \in Nat /\ Len(b) = 2 + Len(a)
      BY <1>1, <1>3, <1>6, <1>7, <1>10
    <3>2. Has(arg, l, b)
      BY <1>1, <1>3, <1>6, <1>10 DEF Has
    <3>3. Has(arg, l + 2, a)
      BY <1>1, <1>3, <1>6, <1>7, <1>10 DEF Has
    <3>4. arg[l + 1] = "n" /\ arg[l + 2] = "o"
      BY <1>4, <1>7, <1>10
    <3>5. a \in Seq(Range(a)) /\ b \in Seq(Range(b))
      BY <1>1
    <3> QED BY <3>1, <3>2, <3>3, <3>4, <3>5, Negation
  <2> QED BY <2>1, NamesAssumption DEF a, b
<1> QED BY <1>3, <1>8, <1>9, <1>10

\* How the notations of Says are prefixes of the code.
LEMMA PrefixesOfWords ==
    /\ \A dashes \in Dashes, v \in BOOLEAN : \E d \in 1..4 :
          dashes \o (IF v THEN <<>> ELSE <<"n", "o">>) = BoolPrefixes[d]
    /\ \A d \in 1..2 : \E dashes \in Dashes : dashes \o <<>> = BoolPrefixes[d]
    /\ \A d \in 3..4 : \E dashes \in Dashes : dashes \o <<"n", "o">> = BoolPrefixes[d]
<1>1. /\ <<"-">> \o <<>> = BoolPrefixes[1] /\ <<"-", "-">> \o <<>> = BoolPrefixes[2]
      /\ <<"-">> \o <<"n", "o">> = BoolPrefixes[3]
      /\ <<"-", "-">> \o <<"n", "o">> = BoolPrefixes[4]
  <2>1. /\ BoolPrefixes[1] = <<"-">> /\ BoolPrefixes[2] = <<"-", "-">>
        /\ BoolPrefixes[3] = <<"-", "n", "o">> /\ BoolPrefixes[4] = <<"-", "-", "n", "o">>
    BY DEF BoolPrefixes
  <2>2. <<"-">> \o <<>> = <<"-">> /\ <<"-", "-">> \o <<>> = <<"-", "-">>
    OBVIOUS
  <2>3. <<"-">> \o <<"n", "o">> = <<"-", "n", "o">>
    <3> DEFINE T == {"-", "n", "o"}
               a == <<"-">>
               w == <<"n", "o">>
               c == <<"-", "n", "o">>
    <3>1. /\ a \in Seq(T) /\ w \in Seq(T) /\ c \in Seq(T)
          /\ Len(a) = 1 /\ Len(w) = 2 /\ Len(c) = Len(a) + Len(w)
      OBVIOUS
    <3>2. Has(c, 0, c) /\ Has(c, 0, a) /\ Has(c, 0 + Len(a), w)
      BY DEF Has
    <3> HIDE DEF T, a, w, c
    <3>3. c = a \o w
      BY <3>1, <3>2, JoinedFromStart
    <3> QED BY <3>3 DEF a, w, c
  <2>4. <<"-", "-">> \o <<"n", "o">> = <<"-", "-", "n", "o">>
    <3> DEFINE T == {"-", "n", "o"}
               a == <<"-", "-">>
               w == <<"n", "o">>
               c == <<"-", "-", "n", "o">>
    <3>1. /\ a \in Seq(T) /\ w \in Seq(T) /\ c \in Seq(T)
          /\ Len(a) = 2 /\ Len(w) = 2 /\ Len(c) = Len(a) + Len(w)
      OBVIOUS
    <3>2. Has(c, 0, c) /\ Has(c, 0, a) /\ Has(c, 0 + Len(a), w)
      BY DEF Has
    <3> HIDE DEF T, a, w, c
    <3>3. c = a \o w
      BY <3>1, <3>2, JoinedFromStart
    <3> QED BY <3>3 DEF a, w, c
  <2> QED BY <2>1, <2>2, <2>3, <2>4
<1>2. <<"-">> \in Dashes /\ <<"-", "-">> \in Dashes
  BY DEF Dashes
<1>3. \A d \in 1..2 : \E dashes \in Dashes : dashes \o <<>> = BoolPrefixes[d]
  <2> TAKE d \in 1..2
  <2> d = 1 \/ d = 2
    OBVIOUS
  <2> QED BY <1>1, <1>2, Zenon
<1>4. \A d \in 3..4 : \E dashes \in Dashes : dashes \o <<"n", "o">> = BoolPrefixes[d]
  <2> TAKE d \in 3..4
  <2> d = 3 \/ d = 4
    OBVIOUS
  <2> QED BY <1>1, <1>2, Zenon
<1>5. ASSUME NEW dashes \in Dashes, NEW v \in BOOLEAN
      PROVE  \E d \in 1..4 : dashes \o (IF v THEN <<>> ELSE <<"n", "o">>) = BoolPrefixes[d]
  <2>1. dashes = <<"-">> \/ dashes = <<"-", "-">>
    BY DEF Dashes
  <2>2. 1 \in 1..4 /\ 2 \in 1..4 /\ 3 \in 1..4 /\ 4 \in 1..4
    OBVIOUS
  <2>3. CASE v
    <3>1. dashes \o <<>> = BoolPrefixes[1] \/ dashes \o <<>> = BoolPrefixes[2]
      BY <1>1, <2>1, Zenon
    <3> QED BY <2>2, <2>3, <3>1, Zenon
  <2>4. CASE ~v
    <3>1. dashes \o <<"n", "o">> = BoolPrefixes[3] \/ dashes \o <<"n", "o">> = BoolPrefixes[4]
      BY <1>1, <2>1, Zenon
    <3> QED BY <2>2, <2>4, <3>1, Zenon
  <2> QED BY <2>3, <2>4
<1> QED BY <1>3, <1>4, <1>5

LEMMA SaysSwitch ==
    ASSUME NEW arg, NEW k \in DOMAIN Commands, Values(k, arg) = {}, Says(k, arg) # {}
    PROVE  k \in BoolCandidates(arg)
<1>1. PICK v \in BOOLEAN : /\ Commands[k].type = "bool"
                           /\ \E dashes \in Dashes :
                                 arg = dashes \o (IF v THEN <<>> ELSE <<"n", "o">>) \o Commands[k].name
  BY DEF Says, Dashes
<1>2. PICK d \in 1..4 : arg = BoolPrefixes[d] \o Commands[k].name
  BY <1>1, PrefixesOfWords
<1>3. DOMAIN BoolPrefixes = 1..4
  BY DEF BoolPrefixes
<1> QED BY <1>1, <1>2, <1>3 DEF BoolCandidates

LEMMA BoolCandidatesFacts ==
    ASSUME NEW arg, NEW k \in BoolCandidates(arg)
    PROVE  /\ k \in DOMAIN Commands /\ Commands[k].type = "bool"
           /\ \E d \in 1..4 : arg = BoolPrefixes[d] \o Commands[k].name /\ Switches(arg, d, k)
<1>1. DOMAIN BoolPrefixes = 1..4
  BY DEF BoolPrefixes
<1>2. k \in DOMAIN Commands /\ Commands[k].type = "bool"
  BY DEF BoolCandidates
<1>3. PICK d \in 1..4 : arg = BoolPrefixes[d] \o Commands[k].name
  BY <1>1 DEF BoolCandidates
<1> QED BY <1>2, <1>3, SwitchesFacts

LEMMA NoContents ==
    ASSUME NEW arg, NEW k \in DOMAIN Commands, k \notin Candidates(arg)
    PROVE  Values(k, arg) = {}
BY DEF Candidates, Values

\* Nobody else is concerned by an argument from which k takes a value.
LEMMA ValueFacts ==
    ASSUME NEW arg, IsSequence(arg), NEW k \in Candidates(arg), NEW v \in Values(k, arg)
    PROVE  /\ k \in DOMAIN Commands /\ v \in Says(k, arg)
           /\ \A j \in DOMAIN Commands \ {k} : Says(j, arg) = {}
<1>1. k \in DOMAIN Commands /\ Contents(Commands[k], arg) # {}
  BY DEF Candidates
<1>2. PICK m \in {1, 2} : Assigns(arg, m, k)
  BY <1>1, ContentsFacts
<1>3. v \in Says(k, arg)
  BY DEF Says
<1>4. ASSUME NEW j \in DOMAIN Commands \ {k}, Says(j, arg) # {} PROVE FALSE
  <2>1. j \notin Candidates(arg)
    <3> SUFFICES ASSUME j \in Candidates(arg) PROVE FALSE
      OBVIOUS
    <3>1. PICK l \in {1, 2} : Assigns(arg, l, j)
      BY ContentsFacts DEF Candidates
    <3> QED BY <3>1, <1>1, <1>2, <1>4, AssignsOne
  <2>2. j \in BoolCandidates(arg)
    BY <2>1, <1>4, NoContents, SaysSwitch
  <2>3. PICK d \in 1..4 : Switches(arg, d, j)
    BY <2>2, BoolCandidatesFacts
  <2> QED BY <2>3, <1>1, <1>2, <1>4, SwitchAssignsNone
<1> QED BY <1>1, <1>3, <1>4

\* Nobody else is concerned by a switch, and the value is what the prefix says.
LEMMA SwitchFacts ==
    ASSUME NEW arg, Candidates(arg) = {}, NEW k \in BoolCandidates(arg)
    PROVE  /\ k \in DOMAIN Commands /\ Commands[k].type = "bool"
           /\ (\E d \in 1..2 : arg = BoolPrefixes[d] \o Commands[k].name) \in Says(k, arg)
           /\ \A j \in DOMAIN Commands \ {k} : Says(j, arg) = {}
<1>1. k \in DOMAIN Commands /\ Commands[k].type = "bool"
  BY BoolCandidatesFacts
<1>2. PICK d \in 1..4 : arg = BoolPrefixes[d] \o Commands[k].name /\ Switches(arg, d, k)
  BY BoolCandidatesFacts
<1>3. Values(k, arg) = {}
  BY <1>1, NoContents
<1>4. Says(k, arg) = {v \in BOOLEAN : \E dashes \in Dashes :
                        arg = dashes \o (IF v THEN <<>> ELSE <<"n", "o">>) \o Commands[k].name}
  BY <1>1, <1>3 DEF Says, Dashes
<1>5. (\E e \in 1..2 : arg = BoolPrefixes[e] \o Commands[k].name) \in Says(k, arg)
  <2>1. CASE \E e \in 1..2 : arg = BoolPrefixes[e] \o Commands[k].name
    <3>1. \E dashes \in Dashes : arg = dashes \o <<>> \o Commands[k].name
      BY <2>1, PrefixesOfWords
    <3>2. TRUE \in Says(k, arg)
      BY <1>4, <3>1
    <3>3. (\E e \in 1..2 : arg = BoolPrefixes[e] \o Commands[k].name) = TRUE
      BY <2>1
    <3> QED BY <3>2, <3>3
  <2>2. CASE ~ \E e \in 1..2 : arg = BoolPrefixes[e] \o Commands[k].name
    <3>1. d \in 3..4
      <4>1. d \notin 1..2
        BY <1>2, <2>2, Zenon
      <4> QED BY <4>1
    <3>2. \E dashes \in Dashes : arg = dashes \o <<"n", "o">> \o Commands[k].name
      BY <1>2, <3>1, PrefixesOfWords
    <3>3. FALSE \in Says(k, arg)
      BY <1>4, <3>2
    <3>4. (\E e \in 1..2 : arg = BoolPrefixes[e] \o Commands[k].name) = FALSE
      BY <2>2
    <3> QED BY <3>3, <3>4
  <2> QED BY <2>1, <2>2
<1>6. ASSUME NEW j \in DOMAIN Commands \ {k}, Says(j, arg) # {} PROVE FALSE
  <2>1. j \in BoolCandidates(arg)
    BY <1>6, NoContents, SaysSwitch
  <2>2. PICK e \in 1..4 : Switches(arg, e, j)
    BY <2>1, BoolCandidatesFacts
  <2> QED BY <2>2, <1>1, <1>2, <1>6, SwitchesOne
<1> QED BY <1>1, <1>5, <1>6

LEMMA UnknownFacts ==
    ASSUME NEW arg, Candidates(arg) = {}, BoolCandidates(arg) = {}
    PROVE  \A j \in DOMAIN Commands : Says(j, arg) = {}
BY NoContents, SaysSwitch
-----------------------------------------------------------------------------
(* The loop over the arguments. *)

CountOf(arg, s) == Cardinality({j \in DOMAIN s : s[j] = arg})
Swapped(s, a, b) == [s EXCEPT ![a] = s[b], ![b] = s[a]]

\* Exchanging two elements of a sequence leaves every element as often in it as it was.
LEMMA SwapKeepsCounts ==
    ASSUME NEW s, IsSequence(s), NEW a \in DOMAIN s, NEW b \in DOMAIN s, NEW x
    PROVE  CountOf(x, Swapped(s, a, b)) = CountOf(x, s)
<1> DEFINE t == Swapped(s, a, b)
           S == {j \in DOMAIN s : s[j] = x}
           T == {j \in DOMAIN t : t[j] = x}
           other(j) == IF j = a THEN b ELSE IF j = b THEN a ELSE j
           f == [j \in S |-> other(j)]
<1>1. DOMAIN s = 1..Len(s) /\ Len(s) \in Nat
  BY SequenceFacts
<1>2. IsFiniteSet(S)
  <2>1. S \in SUBSET (1..Len(s))
    BY <1>1
  <2> QED BY <2>1, <1>1, CountTo, FS_Subset
<1>3. DOMAIN t = DOMAIN s /\ \A j \in DOMAIN s : t[other(j)] = s[j] /\ other(j) \in DOMAIN s
  BY DEF Swapped
<1>4. \A j \in DOMAIN s : other(other(j)) = j
  OBVIOUS
<1>5. \A j \in S : other(j) \in T
  BY <1>3
<1>6. \A j \in T : other(j) \in S /\ other(other(j)) = j
  BY <1>3, <1>4
<1> HIDE DEF other, S, T
<1>7. f \in [S -> T]
  BY <1>5
<1>8. S \subseteq DOMAIN s
  BY DEF S
<1>9. f \in Bijection(S, T)
  <2>1. \A i1, i2 \in S : f[i1] = f[i2] => i1 = i2
    BY <1>4, <1>8
  <2>2. \A j \in T : \E h \in S : f[h] = j
    BY <1>6
  <2> QED BY <1>7, <2>1, <2>2 DEF Bijection, Injection, Surjection, IsInjective
<1>10. Cardinality(T) = Cardinality(S)
  BY <1>2, <1>9, FS_Bijection DEF ExistsBijection
<1> QED BY <1>10 DEF CountOf, S, T

\* What each flag has come to be.
Latest == \A k \in DOMAIN Commands :
    LET about == {j \in 2..i - 1 : Says(k, given[j]) # {}}
    IN  IF about = {} THEN flags[k] = Defaults[k] ELSE flags[k] \in Says(k, given[Max(about)])

\* An argument has been kept, in order behind the program, or gone into its flag; from i on the
\* array is as it was given.
LoopInv ==
    /\ i \in Nat /\ unused \in Nat /\ 1 <= unused /\ unused < i
    /\ i = 2 \/ i <= Len(given) + 1
    /\ IsSequence(argv) /\ Len(argv) = Len(given)
    /\ \A j \in i..Len(given) : argv[j] = given[j]
    /\ unused = 1 + Cardinality(Kept)
    /\ \A j \in Kept : argv[PlaceOf(j)] = given[j]
    /\ \A arg \in Range(given) : CountOf(arg, argv) = CountOf(arg, given)
    /\ Latest

\* Types that conversions keep.
FlagsTyped ==
    /\ DOMAIN flags = DOMAIN Commands
    /\ \A k \in DOMAIN Commands :
          /\ Commands[k].type = "int32" /\ Defaults[k] \in Int => flags[k] \in Int
          /\ Commands[k].type = "string" /\ IsSequence(Defaults[k]) => IsSequence(flags[k])

ParseInv ==
    /\ IsSequence(given) /\ \A j \in DOMAIN given : IsSequence(given[j])
    /\ status \in {"none", "parsing", "done", "refused", "helped"}
    /\ status \in {"none", "parsing"} => argc = Len(given)
    /\ status = "none" => i = 2 /\ unused = 1 /\ flags = Defaults
    /\ LoopInv /\ FlagsTyped

LEMMA KeptFacts ==
    ASSUME i \in Nat
    PROVE  /\ IsFiniteSet(Kept) /\ Cardinality(Kept) \in Nat
           /\ \A j \in Kept : PlaceOf(j) \in 2..1 + Cardinality(Kept)
<1>1. IsFiniteSet(2..i - 1) /\ Kept \in SUBSET (2..i - 1)
  BY FS_Interval DEF Kept
<1>2. IsFiniteSet(Kept) /\ Cardinality(Kept) \in Nat
  BY <1>1, FS_Subset, FS_CardinalityType
<1>3. ASSUME NEW j \in Kept PROVE PlaceOf(j) \in 2..1 + Cardinality(Kept)
  <2> DEFINE S == {k \in Kept : k <= j}
  <2>1. S \in SUBSET Kept /\ j \in S
    BY <1>1, <1>3
  <2> HIDE DEF S
  <2>2. IsFiniteSet(S) /\ Cardinality(S) <= Cardinality(Kept)
    BY <1>2, <2>1, FS_Subset
  <2>3. Cardinality(S) \in Nat /\ Cardinality(S) # 0
    BY <2>1, <2>2, FS_EmptySet, FS_CardinalityType
  <2>4. PlaceOf(j) = 1 + Cardinality(S)
    BY DEF PlaceOf, S
  <2> QED BY <1>2, <2>2, <2>3, <2>4
<1> QED BY <1>2, <1>3

\* The last of the arguments about a flag.
LEMMA MaxOfNext ==
    ASSUME NEW S \in SUBSET (2..i - 1), i \in Nat
    PROVE  Max(S \cup {i}) = i
<1>1. \A y \in S \cup {i} : i >= y
  OBVIOUS
<1>2. \A x \in S \cup {i} : (\A y \in S \cup {i} : x >= y) => x = i
  OBVIOUS
<1> QED BY <1>1, <1>2 DEF Max

\* One argument on, flags are what they were but for the one that the argument is about.
LEMMA LatestStep ==
    ASSUME Latest, i \in Nat, i >= 2, i' = i + 1, given' = given,
           \A k \in DOMAIN Commands :
              IF Says(k, given[i]) = {} THEN flags'[k] = flags[k] ELSE flags'[k] \in Says(k, given[i])
    PROVE  Latest'
<1> SUFFICES ASSUME NEW k \in DOMAIN Commands
             PROVE  LET about == {j \in 2..i' - 1 : Says(k, given[j]) # {}}
                    IN  IF about = {} THEN flags'[k] = Defaults[k]
                        ELSE flags'[k] \in Says(k, given[Max(about)])
  BY DEF Latest
<1> DEFINE about == {j \in 2..i - 1 : Says(k, given[j]) # {}}
           aboutNext == {j \in 2..i' - 1 : Says(k, given[j]) # {}}
<1>1. 2..i' - 1 = (2..i - 1) \cup {i}
  OBVIOUS
<1>2. IF about = {} THEN flags[k] = Defaults[k] ELSE flags[k] \in Says(k, given[Max(about)])
  BY DEF Latest
<1>3. CASE Says(k, given[i]) = {}
  <2>1. aboutNext = about
    BY <1>1, <1>3
  <2>2. flags'[k] = flags[k]
    BY <1>3
  <2> HIDE DEF about, aboutNext
  <2> QED BY <1>2, <2>1, <2>2 DEF aboutNext
<1>4. CASE Says(k, given[i]) # {}
  <2>1. aboutNext = about \cup {i} /\ about \in SUBSET (2..i - 1)
    BY <1>1, <1>4
  <2>2. flags'[k] \in Says(k, given[i])
    BY <1>4
  <2> HIDE DEF about, aboutNext
  <2>3. Max(aboutNext) = i /\ aboutNext # {}
    BY <2>1, MaxOfNext
  <2> QED BY <2>2, <2>3 DEF aboutNext
<1> QED BY <1>3, <1>4

LEMMA ReadFacts ==
    ASSUME ParseInv, Looping
    PROVE  /\ i \in Nat /\ i >= 2 /\ i <= Len(given) /\ Len(given) \in Nat
           /\ i \in DOMAIN given /\ DOMAIN argv = DOMAIN given /\ DOMAIN given = 1..Len(given)
           /\ argv[i] = given[i] /\ IsSequence(given[i])
           /\ IsSequence(argv)
           /\ unused + 1 \in DOMAIN argv /\ unused + 1 <= i
<1>1. /\ i \in Nat /\ unused \in Nat /\ 1 <= unused /\ unused < i /\ i <= Len(given)
      /\ IsSequence(given) /\ IsSequence(argv) /\ Len(argv) = Len(given)
  BY DEF ParseInv, LoopInv, Looping
<1>2. /\ Len(given) \in Nat /\ DOMAIN given = 1..Len(given) /\ DOMAIN argv = 1..Len(given)
  BY <1>1, SequenceFacts
<1>3. i \in DOMAIN given /\ i \in i..Len(given)
  BY <1>1, <1>2
<1>4. argv[i] = given[i] /\ IsSequence(given[i])
  BY <1>3 DEF ParseInv, LoopInv
<1> QED BY <1>1, <1>2, <1>3, <1>4

\* An argument that goes into a flag.
LEMMA IntoFlag ==
    ASSUME ParseInv, Looping, NextArgument, UNCHANGED <<argv, unused>>,
           NEW k \in DOMAIN Commands, NEW v \in Says(k, argv[i]),
           \A j \in DOMAIN Commands \ {k} : Says(j, argv[i]) = {},
           flags' = [flags EXCEPT ![k] = v]
    PROVE  LoopInv'
<1>1. /\ i \in Nat /\ i >= 2 /\ i <= Len(given) /\ Len(given) \in Nat
      /\ argv[i] = given[i]
  BY ReadFacts
<1>2. i' = i + 1 /\ UNCHANGED <<argc, status, given, argv, unused>>
  BY DEF NextArgument
<1>3. Known(given[i])
  BY <1>1 DEF Known
<1>4. 2..i' - 1 = (2..i - 1) \cup {i}
  BY <1>1, <1>2
<1>5. Kept' = Kept
  BY <1>2, <1>3, <1>4 DEF Kept
<1>6. \A j : PlaceOf(j)' = PlaceOf(j)
  BY <1>5 DEF PlaceOf
<1>7. Latest'
  <2>1. DOMAIN flags = DOMAIN Commands
    BY DEF ParseInv, FlagsTyped
  <2>2. \A j \in DOMAIN Commands :
           IF Says(j, given[i]) = {} THEN flags'[j] = flags[j] ELSE flags'[j] \in Says(j, given[i])
    BY <2>1, <1>1
  <2> QED BY <1>1, <1>2, <2>2, LatestStep DEF ParseInv, LoopInv
<1>8. \A j \in Kept' : argv'[PlaceOf(j)'] = given'[j]
  BY <1>2, <1>5, <1>6 DEF ParseInv, LoopInv
<1>9. \A j \in i'..Len(given') : argv'[j] = given'[j]
  BY <1>1, <1>2 DEF ParseInv, LoopInv
<1>10. \A arg \in Range(given') : CountOf(arg, argv') = CountOf(arg, given')
  BY <1>2 DEF ParseInv, LoopInv
<1>11. unused' = 1 + Cardinality(Kept')
  BY <1>2, <1>5 DEF ParseInv, LoopInv
<1>12. /\ i' \in Nat /\ unused' \in Nat /\ 1 <= unused' /\ unused' < i' /\ i' <= Len(given') + 1
       /\ IsSequence(argv') /\ Len(argv') = Len(given')
  BY <1>1, <1>2 DEF ParseInv, LoopInv
<1> QED BY <1>7, <1>8, <1>9, <1>10, <1>11, <1>12 DEF LoopInv

LEMMA KeepStep ==
    ASSUME ParseInv, ParseKeep
    PROVE  ParseInv'
<1> DEFINE u == unused + 1
<1>1. /\ i \in Nat /\ i >= 2 /\ i <= Len(given) /\ Len(given) \in Nat
      /\ i \in DOMAIN given /\ DOMAIN argv = DOMAIN given /\ DOMAIN given = 1..Len(given)
      /\ argv[i] = given[i] /\ IsSequence(argv)
      /\ u \in DOMAIN argv /\ u <= i /\ u \in Nat /\ u \in 2..i
  <2>1. unused \in Nat /\ 1 <= unused
    BY DEF ParseInv, LoopInv
  <2> QED BY <2>1, ReadFacts DEF ParseKeep, Unknown
<1>2. /\ i' = i + 1 /\ UNCHANGED <<argc, status, given, flags>> /\ unused' = u
      /\ argv' = [argv EXCEPT ![u] = argv[i], ![i] = argv[u]]
  BY DEF ParseKeep, NextArgument
<1>3. \A j \in DOMAIN Commands : Says(j, given[i]) = {}
  BY <1>1, UnknownFacts DEF ParseKeep, Unknown
<1>4. ~Known(given[i])
  BY <1>3 DEF Known
<1>5. 2..i' - 1 = (2..i - 1) \cup {i}
  BY <1>1, <1>2
<1>6. Kept' = Kept \cup {i} /\ i \notin Kept /\ Kept \in SUBSET (2..i - 1)
  BY <1>1, <1>2, <1>4, <1>5 DEF Kept
<1>7. /\ IsFiniteSet(Kept) /\ Cardinality(Kept) \in Nat
      /\ \A j \in Kept : PlaceOf(j) \in 2..1 + Cardinality(Kept)
      /\ unused = 1 + Cardinality(Kept)
  BY <1>1, KeptFacts DEF ParseInv, LoopInv
<1>8. Cardinality(Kept') = Cardinality(Kept) + 1
  BY <1>6, <1>7, FS_AddElement
<1>9. ASSUME NEW j \in Kept PROVE PlaceOf(j)' = PlaceOf(j)
  <2>1. {h \in Kept' : h <= j} = {h \in Kept : h <= j}
    BY <1>1, <1>6, <1>9
  <2> QED BY <2>1 DEF PlaceOf
<1> PICK c : c = i
  OBVIOUS
<1>10. PlaceOf(c)' = u
  <2>1. Kept' = Kept \cup {c} /\ \A h \in Kept : h \in Int /\ h <= c /\ c \in Int
    BY <1>1, <1>6
  <2>2. {h \in Kept' : h <= c} = Kept'
    BY <1>1, <2>1
  <2>3. PlaceOf(c)' = 1 + Cardinality({h \in Kept' : h <= c})
    BY DEF PlaceOf
  <2> QED BY <2>2, <2>3, <1>7, <1>8
<1>11. /\ DOMAIN argv' = 1..Len(given) /\ argv'[u] = argv[i]
       /\ \A j \in 1..Len(given) : j # u /\ j # i => argv'[j] = argv[j]
  BY <1>1, <1>2
<1>12. IsSequence(argv') /\ Len(argv') = Len(given)
  <2>1. argv \in [1..Len(given) -> Range(argv)]
    BY <1>1, SequenceFacts
  <2>2. argv[i] \in Range(argv) /\ argv[u] \in Range(argv)
    BY <1>1 DEF Range
  <2>3. argv' \in [1..Len(given) -> Range(argv)]
    BY <1>1, <1>2, <2>1, <2>2
  <2>4. argv' \in Seq(Range(argv)) /\ Len(argv') = Len(given)
    BY <1>1, <2>3
  <2>5. argv' \in [1..Len(given) -> Range(argv')]
    BY <2>3 DEF Range
  <2> QED BY <1>1, <2>4, <2>5 DEF IsSequence
<1> HIDE DEF u
<1>12a. ASSUME NEW x PROVE CountOf(x, argv') = CountOf(x, argv)
  <2>1. /\ IsSequence(argv) /\ i \in DOMAIN argv /\ u \in DOMAIN argv
        /\ argv' = Swapped(argv, u, i)
    BY <1>1, <1>2 DEF Swapped
  <2>2. CountOf(x, Swapped(argv, u, i)) = CountOf(x, argv)
    BY <2>1, SwapKeepsCounts
  <2> QED BY <2>1, <2>2
<1>13. \A j \in Kept' : argv'[PlaceOf(j)'] = given'[j]
  <2>1. ASSUME NEW j \in Kept PROVE argv'[PlaceOf(j)'] = given'[j]
    <3>1. argv[PlaceOf(j)] = given[j]
      BY DEF ParseInv, LoopInv
    <3>2. PlaceOf(j) \in 2..u - 1
      BY <1>7 DEF u
    <3>3. argv'[PlaceOf(j)] = argv[PlaceOf(j)]
      BY <3>2, <1>1, <1>11
    <3> QED BY <3>1, <3>3, <1>2, <1>9
  <2>2. argv'[PlaceOf(c)'] = given'[c]
    BY <1>1, <1>2, <1>10, <1>11
  <2>3. Kept' = Kept \cup {c}
    BY <1>6
  <2> QED BY <2>1, <2>2, <2>3
<1>14. \A j \in i'..Len(given') : argv'[j] = given'[j]
  <2> TAKE j \in i'..Len(given')
  <2>1. j \in i..Len(given) /\ j \in 1..Len(given) /\ j # i /\ j # u
    BY <1>1, <1>2
  <2> QED BY <2>1, <1>2, <1>11 DEF ParseInv, LoopInv
<1>15. \A arg \in Range(given') : CountOf(arg, argv') = CountOf(arg, given')
  <2> TAKE arg \in Range(given')
  <2>1. arg \in Range(given) /\ CountOf(arg, argv) = CountOf(arg, given)
    BY <1>2 DEF ParseInv, LoopInv
  <2>2. CountOf(arg, argv') = CountOf(arg, argv)
    BY <1>12a
  <2> QED BY <2>1, <2>2, <1>2
<1>16. Latest'
  BY <1>1, <1>2, <1>3, LatestStep DEF ParseInv, LoopInv
<1>17. /\ i' \in Nat /\ unused' \in Nat /\ 1 <= unused' /\ unused' < i' /\ i' <= Len(given') + 1
       /\ unused' = 1 + Cardinality(Kept')
  BY <1>1, <1>2, <1>7, <1>8 DEF u
<1>18. LoopInv'
  BY <1>2, <1>12, <1>13, <1>14, <1>15, <1>16, <1>17 DEF LoopInv
<1>19. FlagsTyped'
  BY <1>2 DEF ParseInv, FlagsTyped
<1>20. status = "parsing"
  BY DEF ParseKeep, Unknown, Looping
<1> QED BY <1>2, <1>18, <1>19, <1>20 DEF ParseInv

\* What Min chooses is one of the set.
LEMMA LeastOf == ASSUME NEW S \in SUBSET Nat, S # {} PROVE Min(S) \in S
<1>1. PICK x \in S : \A y \in S : ~(<<y, x>> \in OpToRel(<, Nat))
  BY NatLessThanWellFounded, WFMin
<1>2. \A y \in S : x <= y
  <2> TAKE y \in S
  <2>1. <<y, x>> \in Nat \X Nat
    OBVIOUS
  <2>2. ~(y < x)
    BY <1>1, <2>1 DEF OpToRel
  <2> QED BY <2>2
<1>3. \E z \in S : \A y \in S : z <= y
  BY <1>2
<1> QED BY <1>3 DEF Min

LEMMA FirstCommand ==
    ASSUME NEW S \in SUBSET DOMAIN Commands, S # {} PROVE Min(S) \in S
<1>1. DOMAIN Commands \subseteq Nat
  BY CommandsAssumption, SequenceFacts
<1> QED BY <1>1, LeastOf

\* A value has the type of its flag.
LEMMA ValuesTyped ==
    ASSUME NEW arg, IsSequence(arg), NEW k \in DOMAIN Commands, NEW v \in Values(k, arg)
    PROVE  /\ Commands[k].type = "int32" => v \in Int
           /\ Commands[k].type = "string" => IsSequence(v)
<1>1. PICK c \in Contents(Commands[k], arg) : v \in StringToValue(Commands[k].type, c)
  BY DEF Values
<1>2. IsSequence(c)
  BY <1>1, ContentsFacts
<1>3. CASE Commands[k].type = "int32"
  <2>1. v \in ToWithStatus("int32", c)
    BY <1>1, <1>3 DEF StringToValue
  <2>2. v \in {Numeral[word] : word \in {w \in DOMAIN Numeral : c = <<w>>}}
    BY <2>1 DEF ToWithStatus
  <2> QED BY <2>2, <1>3, NumeralAssumption
<1>4. CASE Commands[k].type = "string"
  BY <1>1, <1>2, <1>4 DEF StringToValue
<1> QED BY <1>3, <1>4

LEMMA ValueStep == ASSUME ParseInv, ParseValue PROVE ParseInv'
<1> DEFINE arg == argv[i]
<1>1. IsSequence(arg) /\ Looping
  BY ReadFacts DEF ParseValue
<1>2. PICK k : k = Min(Candidates(arg))
  OBVIOUS
<1>3. k \in Candidates(arg) /\ k \in DOMAIN Commands
  BY <1>2, FirstCommand DEF ParseValue, Candidates
<1>4. PICK v \in Values(k, arg) : flags' = [flags EXCEPT ![k] = v]
  BY <1>2 DEF ParseValue
<1>5. v \in Says(k, arg) /\ \A j \in DOMAIN Commands \ {k} : Says(j, arg) = {}
  BY <1>1, <1>3, <1>4, ValueFacts
<1>6. NextArgument /\ UNCHANGED <<argv, unused>>
  BY DEF ParseValue
<1>7. LoopInv'
  BY <1>1, <1>3, <1>4, <1>5, <1>6, IntoFlag
<1>8. /\ Commands[k].type = "int32" => v \in Int
      /\ Commands[k].type = "string" => IsSequence(v)
  BY <1>1, <1>3, <1>4, ValuesTyped
<1>9. FlagsTyped'
  BY <1>4, <1>8 DEF ParseInv, FlagsTyped
<1> QED BY <1>1, <1>6, <1>7, <1>9 DEF ParseInv, NextArgument, Looping

LEMMA BoolStep == ASSUME ParseInv, ParseBool PROVE ParseInv'
<1> DEFINE arg == argv[i]
<1>1. Looping /\ Candidates(arg) = {} /\ NextArgument /\ UNCHANGED <<argv, unused>>
  BY DEF ParseBool
<1>2. PICK k : k = Min(BoolCandidates(arg))
  OBVIOUS
<1>3. k \in BoolCandidates(arg) /\ k \in DOMAIN Commands /\ Commands[k].type = "bool"
  BY <1>2, FirstCommand DEF ParseBool, BoolCandidates
<1>4. PICK v : /\ v = (\E d \in 1..2 : arg = BoolPrefixes[d] \o Commands[k].name)
               /\ flags' = [flags EXCEPT ![k] = v]
  BY <1>2 DEF ParseBool
<1>5. v \in Says(k, arg) /\ \A j \in DOMAIN Commands \ {k} : Says(j, arg) = {}
  BY <1>1, <1>3, <1>4, SwitchFacts
<1>6. LoopInv'
  BY <1>1, <1>3, <1>4, <1>5, IntoFlag
<1>7. FlagsTyped'
  BY <1>3, <1>4 DEF ParseInv, FlagsTyped
<1> QED BY <1>1, <1>6, <1>7 DEF ParseInv, NextArgument, Looping

\* Nothing but the status and the length moves.
LEMMA ParseInvSame ==
    ASSUME ParseInv, UNCHANGED <<flags, argv, i, unused, given>>,
           status' \in {"parsing", "done", "refused", "helped"},
           status' = "parsing" => argc' = Len(given)
    PROVE  ParseInv'
<1>1. Kept' = Kept
  BY DEF Kept
<1>2. \A j : PlaceOf(j)' = PlaceOf(j)
  BY <1>1 DEF PlaceOf
<1>3. LoopInv'
  BY <1>1, <1>2 DEF ParseInv, LoopInv, Latest
<1>4. FlagsTyped'
  BY DEF ParseInv, FlagsTyped
<1> QED BY <1>3, <1>4 DEF ParseInv

LEMMA ParseInvStep == ASSUME ParseInv, ParseCall \/ ParseStep PROVE ParseInv'
<1>1. CASE ParseCall
  BY <1>1, ParseInvSame DEF ParseCall, ParseInv
<1>2. CASE ParseValue
  BY <1>2, ValueStep
<1>3. CASE ParseRefuse
  BY <1>3, ParseInvSame DEF ParseRefuse
<1>4. CASE ParseBool
  BY <1>4, BoolStep
<1>5. CASE ParseHelp
  BY <1>5, ParseInvSame DEF ParseHelp
<1>6. CASE ParseKeep
  BY <1>6, KeepStep
<1>7. CASE ParseReturn
  BY <1>7, ParseInvSame DEF ParseReturn
<1> QED BY <1>1, <1>2, <1>3, <1>4, <1>5, <1>6, <1>7 DEF ParseStep

LEMMA ParseInvKept == ASSUME ParseInv, UNCHANGED parseVars PROVE ParseInv'
<1>1. Kept' = Kept
  BY DEF Kept, parseVars
<1>2. \A j : PlaceOf(j)' = PlaceOf(j)
  BY <1>1 DEF PlaceOf
<1>3. LoopInv'
  BY <1>1, <1>2 DEF ParseInv, LoopInv, Latest, parseVars
<1>4. FlagsTyped'
  BY DEF ParseInv, FlagsTyped, parseVars
<1> QED BY <1>3, <1>4 DEF ParseInv, parseVars

\* Before the first argument nothing has been read.
LEMMA NothingRead ==
    ASSUME i = 2, unused = 1, flags = Defaults, argv = given,
           IsSequence(given), \A j \in DOMAIN given : IsSequence(given[j])
    PROVE  LoopInv /\ FlagsTyped
<1>1. 2..i - 1 = {}
  OBVIOUS
<1>2. Kept = {}
  BY <1>1 DEF Kept
<1>3. Cardinality(Kept) = 0
  BY <1>2, FS_EmptySet
<1>4. Latest
  BY <1>1 DEF Latest
<1>5. LoopInv
  BY <1>2, <1>3, <1>4 DEF LoopInv
<1>6. FlagsTyped
  BY CommandsAssumption DEF FlagsTyped
<1> QED BY <1>5, <1>6

LEMMA ParseInitial == ParseInit => ParseInv
<1> SUFFICES ASSUME ParseInit PROVE ParseInv
  OBVIOUS
<1>1. IsSequence(<<>>) /\ DOMAIN <<>> = {}
  BY DEF IsSequence, Range
<1> QED BY <1>1, NothingRead DEF ParseInit, ParseInv

LEMMA StartStep ==
    ASSUME ParseInv, status = "none", NEW args \in ArgumentLists, StartWith(args) PROVE ParseInv'
<1>1. IsSequence(args) /\ \A j \in DOMAIN args : IsSequence(args[j])
  BY ArgumentsAssumption DEF Range
<1>2. /\ i' = 2 /\ unused' = 1 /\ flags' = Defaults /\ argv' = args /\ given' = args
      /\ argc' = Len(args) /\ status' = "none"
  BY DEF ParseInv, StartWith
<1>3. (LoopInv /\ FlagsTyped)'
  <2>1. 2..i' - 1 = {}
    BY <1>2
  <2>2. Kept' = {}
    BY <2>1 DEF Kept
  <2>3. Cardinality(Kept') = 0
    BY <2>2, FS_EmptySet
  <2>4. Latest'
    BY <1>2, <2>1 DEF Latest
  <2>5. LoopInv'
    BY <1>1, <1>2, <2>2, <2>3, <2>4 DEF LoopInv
  <2>6. FlagsTyped'
    BY <1>2, CommandsAssumption DEF FlagsTyped
  <2> QED BY <2>5, <2>6
<1> QED BY <1>1, <1>2, <1>3 DEF ParseInv

LEMMA ParseInvSuffices == ParseInv => CompactionInPlace /\ LastWins
<1> SUFFICES ASSUME ParseInv PROVE CompactionInPlace /\ LastWins
  OBVIOUS
<1>1. LoopInv /\ IsSequence(given) /\ i \in Nat /\ i >= 2
  BY DEF ParseInv, LoopInv
<1>2. LastWins
  BY <1>1 DEF LoopInv, Latest, LastWins
<1>3. SubSeq(argv, i, Len(argv)) = SubSeq(given, i, Len(given))
  <2> DEFINE n == Len(given)
  <2>1. /\ n \in Nat /\ Len(argv) = n /\ argv \in Seq(Range(argv)) /\ given \in Seq(Range(given))
        /\ \A j \in i..n : argv[j] = given[j]
    BY <1>1, SequenceFacts DEF LoopInv, IsSequence
  <2> HIDE DEF n
  <2>2. SubSeq(argv, i, n) = [j \in 1..n - i + 1 |-> argv[i + j - 1]]
    BY <2>1, <1>1
  <2>3. SubSeq(given, i, n) = [j \in 1..n - i + 1 |-> given[i + j - 1]]
    BY <2>1, <1>1
  <2>4. \A j \in 1..n - i + 1 : i + j - 1 \in i..n
    BY <2>1, <1>1
  <2> QED BY <2>1, <2>2, <2>3, <2>4 DEF n
<1>4. CompactionInPlace
  BY <1>1, <1>3 DEF LoopInv, CompactionInPlace, CountOf
<1> QED BY <1>2, <1>4
-----------------------------------------------------------------------------
(* The servers. *)

\* The flags that are read have their types.
LEMMA FlagsRead ==
    ASSUME FlagsTyped
    PROVE  /\ NumPorts \in Int /\ FlagOf(<<"port">>) \in Int /\ IsSequence(FlagOf(<<"nics">>))
<1>1. ASSUME NEW k \in DOMAIN Commands, NEW name, Commands[k].name = name
      PROVE  FlagOf(name) = flags[k]
  <2>1. \A j \in DOMAIN Commands : Commands[j].name = name => j = k
    BY <1>1, NamesAssumption
  <2> QED BY <1>1, <2>1 DEF FlagOf
<1>2. ASSUME NEW name \in {"port", "num_ports", "num_ports_for_sparse"}
      PROVE  FlagOf(<<name>>) \in Int
  <2>1. PICK k \in DOMAIN Commands :
           Commands[k] = [type |-> "int32", name |-> <<name>>] /\ Defaults[k] \in Int
    BY FlagsAssumption
  <2> QED BY <1>1, <2>1 DEF FlagsTyped
<1>3. IsSequence(FlagOf(<<"nics">>))
  <2>1. PICK k \in DOMAIN Commands :
           Commands[k] = [type |-> "string", name |-> <<"nics">>] /\ IsSequence(Defaults[k])
    BY FlagsAssumption
  <2> QED BY <1>1, <2>1 DEF FlagsTyped
<1>4. /\ FlagOf(<<"port">>) \in Int /\ FlagOf(<<"num_ports">>) \in Int
      /\ FlagOf(<<"num_ports_for_sparse">>) \in Int
  BY <1>2
<1> QED BY <1>3, <1>4 DEF NumPorts

\* The pieces of a string are a sequence.
LEMMA SplitFacts == ASSUME NEW s, IsSequence(s), NEW sep PROVE Len(Split(s, sep)) \in Nat
<1> DEFINE stops == {j \in DOMAIN s : s[j] = sep} \cup {Len(s) + 1}
           n == Cardinality(stops)
<1>1. /\ Len(s) \in Nat /\ DOMAIN s = 1..Len(s)
  BY SequenceFacts
<1>2. IsFiniteSet(stops) /\ stops # {}
  <2>1. stops \in SUBSET (1..Len(s) + 1)
    BY <1>1
  <2> HIDE DEF stops
  <2> QED BY <1>1, <2>1, CountTo, FS_Subset DEF stops
<1>3. n \in Nat /\ n # 0
  <2> HIDE DEF stops
  <2> QED BY <1>2, FS_EmptySet, FS_CardinalityType
<1>4. PICK pieces : /\ DOMAIN pieces = 1..n /\ pieces = [k \in 1..n |-> pieces[k]]
                    /\ Split(s, sep) = IF Last(pieces) = <<>> THEN Front(pieces) ELSE pieces
  BY DEF Split
<1> HIDE DEF n
<1>5. pieces \in Seq({pieces[k] : k \in 1..n}) /\ Len(pieces) = n
  BY <1>3, <1>4
<1>6. Len(Front(pieces)) \in Nat
  BY <1>3, <1>5 DEF Front
<1> QED BY <1>3, <1>4, <1>5, <1>6

\* Multiplication, as far as the rows of the vector need it.
LEMMA Rows ==
    ASSUME NEW D \in Nat, NEW P \in Int
    PROVE  /\ D * P = P * D /\ D * P \in Int
           /\ D * P >= 0 => P >= 0 \/ D = 0
           /\ \A p, q \in Nat : /\ p < P /\ q < D => p * D + q + 1 <= D * P
                                /\ (p + 1) * D = p * D + D /\ p * D \in Nat
OBVIOUS

Base == FlagOf(<<"port">>)
Alone == FlagOf(<<"nics">>) = <<>>
DeviceCount == Len(Devices)
SlotCount == IF Alone THEN NumPorts ELSE DeviceCount * NumPorts

\* What the loops put into a slot.
Serves(n) ==
    IF Alone THEN pservers[n] = [device |-> 0, named |-> 0, port |-> Base + (n - 1)]
    ELSE \E p, q \in Nat : /\ p < DeviceCount /\ q < DeviceCount /\ n = Slot(p, q)
                           /\ pservers[n] = [device |-> p + 1, named |-> q + 1, port |-> Base + p]

\* How far the loops have come.
Position ==
    /\ DOMAIN pservers = 1..SlotCount /\ SlotCount >= 0
    /\ port_index \in Nat /\ nic \in Nat
    /\ Alone => Len(started) = port_index /\ port_index <= NumPorts
    /\ ~Alone => /\ Len(started) = port_index * DeviceCount + nic
                 /\ nic = 0 \/ (nic < DeviceCount /\ port_index < NumPorts)
                 /\ port_index <= NumPorts \/ DeviceCount = 0

\* The slots are filled one behind the other.
ServeInv ==
    /\ pc = "static" => status = "none"
    /\ pc \notin {"serve", "exit"} =>
          pservers = <<>> /\ started = <<>> /\ port_index = 0 /\ nic = 0
    /\ started \in Seq(Nat) /\ \A n \in 1..Len(started) : started[n] = n
    /\ 1..Len(started) \subseteq DOMAIN pservers
    /\ \A n \in 1..Len(started) : Serves(n)
    /\ pc = "serve" => Position

LEMMA CountsFacts ==
    ASSUME FlagsTyped PROVE NumPorts \in Int /\ Base \in Int /\ DeviceCount \in Nat
BY FlagsRead, SplitFacts DEF Base, Devices, DeviceCount

LEMMA FlagsSame ==
    ASSUME flags' = flags
    PROVE  /\ NumPorts' = NumPorts /\ Base' = Base /\ Alone' = Alone /\ DeviceCount' = DeviceCount
           /\ Devices' = Devices /\ SlotCount' = SlotCount
           /\ \A p, q : Slot(p, q)' = Slot(p, q)
BY DEF NumPorts, Base, Alone, DeviceCount, Devices, SlotCount, Slot, FlagOf

\* Steps that touch neither the servers nor, once there are any, the flags.
LEMMA NotServing ==
    ASSUME ServeInv, UNCHANGED <<pservers, port_index, nic, started>>,
           pc' = "static" => pc = "static" /\ status' = status,
           pc' = "serve" => pc = "serve" /\ flags' = flags,
           pc \in {"serve", "exit"} => pc' \in {"serve", "exit"} /\ flags' = flags
    PROVE  ServeInv'
<1>1. CASE pc \notin {"serve", "exit"}
  <2>1. started' = <<>> /\ Len(started') = 0 /\ 1..Len(started') = {}
    BY <1>1 DEF ServeInv
  <2> QED BY <1>1, <2>1 DEF ServeInv
<1>2. CASE pc \in {"serve", "exit"}
  <2>1. /\ Base' = Base /\ Alone' = Alone /\ DeviceCount' = DeviceCount /\ NumPorts' = NumPorts
        /\ SlotCount' = SlotCount /\ \A p, q : Slot(p, q)' = Slot(p, q)
    BY <1>2, FlagsSame
  <2>2. \A n : Serves(n)' = Serves(n)
    BY <2>1 DEF Serves, Slot
  <2>3. Position' = Position
    BY <2>1 DEF Position
  <2> QED BY <1>2, <2>2, <2>3 DEF ServeInv
<1> QED BY <1>1, <1>2

LEMMA ResizeStep == ASSUME ServeInv, FlagsTyped, Resize PROVE ServeInv'
<1>1. /\ pc = "main" /\ UNCHANGED <<flags, status, port_index, nic, started>>
      /\ pservers = <<>> /\ started = <<>> /\ port_index = 0 /\ nic = 0
  BY DEF Resize, ServeInv, parseVars
<1>2. started' = <<>> /\ Len(started') = 0 /\ 1..Len(started') = {}
  BY <1>1
<1>3. CASE pc' = "exit"
  BY <1>1, <1>2, <1>3 DEF ServeInv
<1>4. CASE pc' = "serve"
  <2>1. SlotCount >= 0 /\ DOMAIN pservers' = 1..SlotCount
    <3>1. SlotCount \in Int
      BY CountsFacts, Rows DEF SlotCount
    <3> QED BY <1>4, <3>1 DEF Resize, SlotCount, Alone, DeviceCount
  <2>2. /\ NumPorts' = NumPorts /\ Alone' = Alone /\ DeviceCount' = DeviceCount
        /\ SlotCount' = SlotCount /\ NumPorts \in Int /\ DeviceCount \in Nat
    BY <1>1, FlagsSame, CountsFacts
  <2>3. Alone => 0 <= NumPorts
    BY <2>1 DEF SlotCount
  <2>4. ~Alone => 0 <= NumPorts \/ DeviceCount = 0
    BY <2>1, <2>2, Rows DEF SlotCount
  <2>5. 0 * DeviceCount + 0 = 0
    BY <2>2
  <2>6. Position'
    BY <1>1, <1>2, <2>1, <2>2, <2>3, <2>4, <2>5 DEF Position
  <2> QED BY <1>1, <1>2, <1>4, <2>6 DEF ServeInv
<1> QED BY <1>3, <1>4 DEF Resize

\* The next slot is filled: those before it stay as they are.
LEMMA Filled ==
    ASSUME ServeInv, flags' = flags, NEW server, NEW c, c = Len(started) + 1,
           StartIn(c, server), c \in DOMAIN pservers, Serves(c)'
    PROVE  /\ started' \in Seq(Nat) /\ \A n \in 1..Len(started') : started'[n] = n
           /\ Len(started') = c /\ DOMAIN pservers' = DOMAIN pservers
           /\ 1..Len(started') \subseteq DOMAIN pservers'
           /\ \A n \in 1..Len(started') : Serves(n)'
<1>2. /\ started \in Seq(Nat) /\ c \in Nat /\ started' = Append(started, c)
      /\ pservers' = [pservers EXCEPT ![c] = server]
  BY DEF ServeInv, StartIn
<1>3. /\ started' \in Seq(Nat) /\ Len(started') = c /\ \A n \in 1..c : started'[n] = n
      /\ 1..c = (1..Len(started)) \cup {c} /\ c \notin 1..Len(started)
  BY <1>2 DEF ServeInv
<1>4. DOMAIN pservers' = DOMAIN pservers /\ 1..c \subseteq DOMAIN pservers
  BY <1>2, <1>3 DEF ServeInv
<1>6. ASSUME NEW n \in 1..Len(started) PROVE Serves(n)'
  <2>1. Serves(n) /\ pservers'[n] = pservers[n]
    BY <1>2, <1>3 DEF ServeInv
  <2>2. Base' = Base /\ Alone' = Alone /\ DeviceCount' = DeviceCount /\ Devices' = Devices
    BY FlagsSame
  <2> QED BY <2>1, <2>2 DEF Serves, Slot
<1> QED BY <1>3, <1>4, <1>6

LEMMA PortStep == ASSUME ServeInv, FlagsTyped, StartPort PROVE ServeInv'
<1>1. /\ pc = "serve" /\ pc' = pc /\ flags' = flags /\ Alone /\ port_index < NumPorts
      /\ nic' = nic /\ port_index' = port_index + 1 /\ Position
      /\ StartIn(port_index + 1, [device |-> 0, named |-> 0, port |-> Base + port_index])
  BY DEF StartPort, ServeInv, Alone, Base, parseVars
<1>2. /\ NumPorts' = NumPorts /\ Alone' /\ Base' = Base
      /\ SlotCount' = SlotCount /\ SlotCount = NumPorts /\ NumPorts \in Int
  BY <1>1, FlagsSame, CountsFacts DEF SlotCount
<1>3. port_index \in Nat /\ Len(started) = port_index /\ DOMAIN pservers = 1..NumPorts
  BY <1>1, <1>2 DEF Position
<1>4. port_index + 1 \in DOMAIN pservers
  BY <1>1, <1>2, <1>3
<1>5. PICK c : c = port_index + 1
  OBVIOUS
<1>6. Serves(c)'
  <2>1. pservers'[c] = [device |-> 0, named |-> 0, port |-> Base + port_index]
    BY <1>1, <1>4, <1>5 DEF StartIn
  <2>2. c - 1 = port_index
    BY <1>3, <1>5
  <2> QED BY <1>2, <2>1, <2>2 DEF Serves
<1>6a. c = Len(started) + 1 /\ c \in DOMAIN pservers
  BY <1>3, <1>4, <1>5
<1>6b. StartIn(c, [device |-> 0, named |-> 0, port |-> Base + port_index])
  BY <1>1, <1>5
<1>7. /\ started' \in Seq(Nat) /\ \A n \in 1..Len(started') : started'[n] = n
      /\ Len(started') = c /\ DOMAIN pservers' = DOMAIN pservers
      /\ 1..Len(started') \subseteq DOMAIN pservers'
      /\ \A n \in 1..Len(started') : Serves(n)'
  BY <1>1, <1>6, <1>6a, <1>6b, Filled
<1>8. Position'
  BY <1>1, <1>2, <1>3, <1>5, <1>7 DEF Position
<1> QED BY <1>1, <1>7, <1>8 DEF ServeInv

LEMMA DeviceStep == ASSUME ServeInv, FlagsTyped, StartDevice PROVE ServeInv'
<1> DEFINE D == DeviceCount
<1>1. /\ pc = "serve" /\ flags' = flags /\ status' = status /\ ~Alone /\ Position
      /\ port_index < NumPorts /\ nic < D
      /\ IF nic + 1 < D THEN nic' = nic + 1 /\ port_index' = port_index
                        ELSE nic' = 0 /\ port_index' = port_index + 1
  BY DEF StartDevice, ServeInv, Alone, DeviceCount, parseVars
<1>2. /\ NumPorts' = NumPorts /\ ~Alone' /\ Base' = Base /\ DeviceCount' = D
      /\ SlotCount' = SlotCount /\ SlotCount = D * NumPorts
      /\ NumPorts \in Int /\ D \in Nat
  BY <1>1, FlagsSame, CountsFacts DEF SlotCount
<1>3. /\ port_index \in Nat /\ nic \in Nat /\ Len(started) = port_index * D + nic
      /\ DOMAIN pservers = 1..D * NumPorts /\ SlotCount >= 0
  BY <1>1, <1>2 DEF Position
<1>4. CASE port_index >= D
  <2>1. pc' = "exit" /\ UNCHANGED <<pservers, started>>
    BY <1>4 DEF StartDevice, DeviceCount
  <2>2. \A n : Serves(n)' = Serves(n)
    <3>1. Devices' = Devices /\ Alone' = Alone
      BY <1>1, FlagsSame
    <3> QED BY <1>2, <2>1, <3>1 DEF Serves, Slot
  <2> QED BY <2>1, <2>2 DEF ServeInv
<1>5. CASE port_index < D
  <2>1. PICK c : c = Slot(port_index, nic)
    OBVIOUS
  <2>2. c = port_index * D + nic + 1
    BY <2>1 DEF Slot, DeviceCount
  <2>3. PICK m : m = port_index * D
    OBVIOUS
  <2>4. m \in Nat /\ (port_index + 1) * D = m + D /\ m + nic + 1 <= D * NumPorts
    BY <1>1, <1>2, <1>3, <2>3, Rows
  <2>5. c = Len(started) + 1 /\ c \in DOMAIN pservers
    <3>1. D * NumPorts \in Int
      BY <1>2, Rows
    <3> HIDE DEF D
    <3> QED BY <3>1, <1>3, <2>2, <2>3, <2>4
  <2>6. /\ pc' = pc
        /\ StartIn(c, [device |-> port_index + 1, named |-> nic + 1, port |-> Base + port_index])
    <3>1. ~(port_index >= Len(Devices))
      BY <1>2, <1>3, <1>5 DEF DeviceCount
    <3> QED BY <2>1, <3>1 DEF StartDevice, Base
  <2>7. Serves(c)'
    <3>1. pservers'[c] = [device |-> port_index + 1, named |-> nic + 1, port |-> Base + port_index]
      BY <2>5, <2>6 DEF StartIn
    <3>3. PICK a, b \in Nat : a = port_index /\ b = nic
      BY <1>3
    <3>4. c = Slot(a, b)'
      <4>1. c = Slot(a, b)
        BY <2>1, <3>3
      <4>2. Devices' = Devices
        BY <1>1, FlagsSame
      <4> QED BY <4>1, <4>2 DEF Slot
    <3> QED BY <1>1, <1>2, <1>5, <3>1, <3>3, <3>4 DEF Serves
  <2>8. /\ started' \in Seq(Nat) /\ \A n \in 1..Len(started') : started'[n] = n
        /\ Len(started') = c /\ DOMAIN pservers' = DOMAIN pservers
        /\ 1..Len(started') \subseteq DOMAIN pservers'
        /\ \A n \in 1..Len(started') : Serves(n)'
    BY <1>1, <2>5, <2>6, <2>7, Filled
  <2> HIDE DEF D
  <2>9. CASE nic + 1 < D
    <3>1. Len(started') = port_index' * D + nic' /\ nic' \in Nat /\ port_index' \in Nat
      BY <1>1, <1>3, <2>2, <2>3, <2>4, <2>8, <2>9
    <3>2. Position'
      BY <1>1, <1>2, <1>3, <2>8, <2>9, <3>1 DEF Position
    <3> QED BY <1>1, <2>6, <2>8, <3>2 DEF ServeInv
  <2>10. CASE ~(nic + 1 < D)
    <3>1. nic + 1 = D /\ nic' = 0 /\ port_index' = port_index + 1
      BY <1>1, <1>2, <1>3, <2>10
    <3>2. Len(started') = port_index' * D + nic' /\ nic' \in Nat /\ port_index' \in Nat
      <4>1. port_index' * D = m + D /\ c = m + D
        BY <2>2, <2>3, <2>4, <3>1, <1>3, <1>2
      <4> QED BY <1>3, <1>2, <2>4, <2>8, <3>1, <4>1
    <3>3. port_index' <= NumPorts
      BY <1>1, <1>2, <1>3, <3>1
    <3>4. Position'
      BY <1>1, <1>2, <1>3, <2>8, <3>1, <3>2, <3>3 DEF Position
    <3> QED BY <1>1, <2>6, <2>8, <3>4 DEF ServeInv
  <2> QED BY <2>9, <2>10
<1> QED BY <1>2, <1>3, <1>4, <1>5

LEMMA ServerFacts ==
    ASSUME NEW n, Serves(n)
    PROVE  /\ Alone => /\ pservers[n].device = 0 /\ pservers[n].named = 0
                       /\ pservers[n].port = Base + (n - 1)
           /\ ~Alone => \E p, q \in Nat :
                 /\ p < DeviceCount /\ q < DeviceCount /\ n = Slot(p, q)
                 /\ pservers[n].device = p + 1 /\ pservers[n].named = q + 1
                 /\ pservers[n].port = Base + p
<1>1. CASE Alone
  BY <1>1 DEF Serves
<1>2. CASE ~Alone
  <2>1. PICK p, q \in Nat :
           /\ p < DeviceCount /\ q < DeviceCount /\ n = Slot(p, q)
           /\ pservers[n] = [device |-> p + 1, named |-> q + 1, port |-> Base + p]
    BY <1>2 DEF Serves
  <2> QED BY <1>2, <2>1
<1> QED BY <1>1, <1>2

LEMMA ServeInvSuffices == ServeInv /\ FlagsTyped => EverySlotServes
<1> SUFFICES ASSUME ServeInv, FlagsTyped PROVE EverySlotServes
  OBVIOUS
<1> DEFINE n == Len(started)
<1>1. n \in Nat /\ DOMAIN started = 1..n /\ Range(started) = 1..n /\ IsInjective(started)
  <2>1. n \in Nat /\ DOMAIN started = 1..n /\ \A m \in 1..n : started[m] = m
    BY DEF ServeInv
  <2> HIDE DEF n
  <2> QED BY <2>1 DEF Range, IsInjective
<1>2. NumPorts \in Int /\ Base \in Int /\ DeviceCount \in Nat
  BY CountsFacts
<1>3. \A m \in 1..n : Serves(m) /\ m \in DOMAIN pservers
  BY DEF ServeInv
<1> HIDE DEF n
<1>4. ASSUME NEW m \in 1..n PROVE pservers[m] # Null
  <2>1. pservers[m].device >= 0
    BY <1>3, ServerFacts
  <2>2. ~(Null.device >= 0)
    BY DEF Null
  <2> QED BY <2>1, <2>2
<1>5. ASSUME AllStarted PROVE Range(started) = DOMAIN pservers /\ Null \notin Range(pservers)
  <2>1. Position /\ port_index >= NumPorts
    BY <1>5 DEF AllStarted, ServeInv
  <2>2. n = SlotCount
    <3>1. CASE Alone
      BY <1>2, <2>1, <3>1 DEF Position, SlotCount, n
    <3>2. CASE ~Alone /\ DeviceCount = 0
      BY <1>2, <2>1, <3>2 DEF Position, SlotCount, n
    <3>3. CASE ~Alone /\ DeviceCount # 0
      <4>1. port_index = NumPorts /\ nic = 0 /\ port_index \in Nat
        BY <1>2, <2>1, <3>3 DEF Position
      <4>2. n = port_index * DeviceCount + nic
        BY <2>1, <3>3 DEF Position, n
      <4>3. port_index * DeviceCount \in Nat /\ port_index * DeviceCount = DeviceCount * NumPorts
        BY <1>2, <4>1, Rows
      <4> QED BY <3>3, <4>1, <4>2, <4>3 DEF SlotCount
    <3> QED BY <3>1, <3>2, <3>3
  <2>3. DOMAIN pservers = 1..n
    BY <2>1, <2>2 DEF Position
  <2> QED BY <1>1, <1>4, <2>3 DEF Range
<1>6. ASSUME NEW s \in 1..n, NEW t \in 1..n, s # t,
             pservers[s].device = pservers[t].device, pservers[s].port = pservers[t].port
      PROVE  pservers[s].named # pservers[t].named
  <2>1. Serves(s) /\ Serves(t) /\ s \in Int /\ t \in Int
    BY <1>1, <1>3
  <2>2. CASE Alone
    BY <1>2, <1>6, <2>1, <2>2, ServerFacts
  <2>3. CASE ~Alone
    <3>1. PICK p, q \in Nat : /\ s = Slot(p, q) /\ pservers[s].device = p + 1
                              /\ pservers[s].named = q + 1
      BY <2>1, <2>3, ServerFacts
    <3>2. PICK a, b \in Nat : /\ t = Slot(a, b) /\ pservers[t].device = a + 1
                              /\ pservers[t].named = b + 1
      BY <2>1, <2>3, ServerFacts
    <3>3. a = p
      BY <1>6, <3>1, <3>2
    <3>4. b # q
      BY <1>6, <3>1, <3>2, <3>3
    <3> QED BY <3>1, <3>2, <3>4
  <2> QED BY <2>2, <2>3
<1>7. ASSUME NEW s \in 1..n, pservers[s].device # pservers[s].named PROVE Len(Devices) > 1
  <2>1. Serves(s)
    BY <1>3
  <2>2. ~Alone
    BY <1>7, <2>1, ServerFacts
  <2>3. PICK p, q \in Nat : /\ p < DeviceCount /\ q < DeviceCount
                            /\ pservers[s].device = p + 1 /\ pservers[s].named = q + 1
    BY <2>1, <2>2, ServerFacts
  <2>4. DeviceCount > 1
    BY <1>2, <1>7, <2>3
  <2> QED BY <2>4 DEF DeviceCount
<1> QED BY <1>1, <1>5, <1>6, <1>7 DEF EverySlotServes
-----------------------------------------------------------------------------
(* The process. *)

\* What is true of the process at every point: each part by itself, since none of them
\* looks at the state of another but for the flags that the loops over the servers read.
IInv == ParseInv /\ LogInv /\ RunInv /\ ServeInv

LEMMA Initial == Init => IInv
<1> SUFFICES ASSUME Init PROVE IInv
  OBVIOUS
<1>1. ParseInv
  BY ParseInitial DEF Init
<1>2. LogInv
  BY LogInitial DEF Init
<1>3. RunInv
  BY DEF Init, InitFunctionsInit, RunInv, Running, IsInjective
<1>4. ServeInv
  <2>1. started = <<>> /\ Len(started) = 0 /\ 1..Len(started) = {}
    BY DEF Init
  <2> QED BY <2>1 DEF Init, ParseInit, ServeInv
<1> QED BY <1>1, <1>2, <1>3, <1>4 DEF IInv

LEMMA Step == IInv /\ [Next]_vars => IInv'
<1> SUFFICES ASSUME IInv, [Next]_vars PROVE IInv'
  OBVIOUS
<1> USE DEF IInv
<1>1. CASE StaticObjects
  <2>1. UNCHANGED parseVars /\ UNCHANGED mainVars
    BY <1>1 DEF StaticObjects
  <2>2. ParseInv'
    BY <2>1, ParseInvKept
  <2>3. ServeInv'
    BY <2>1, NotServing DEF parseVars, mainVars
  <2>4. CASE ReadEnvironment /\ UNCHANGED initVars
    BY <2>2, <2>3, <2>4, EnvironmentStep, RunKept
  <2>5. CASE (\E f \in Functions : RegisterInitFunction(f)) /\ UNCHANGED logVars
    BY <2>2, <2>3, <2>5, RegisterStep, LogKept
  <2>6. CASE (\E level \in Levels : SetMinLogLevel(level)) /\ UNCHANGED initVars
    BY <2>2, <2>3, <2>6, SetLevelStep, RunKept
  <2> QED BY <1>1, <2>4, <2>5, <2>6 DEF StaticObjects
<1>2. CASE Start
  <2>1. ParseInv'
    BY <1>2, StartStep DEF Start, ServeInv
  <2>2. ServeInv'
    BY <1>2, NotServing DEF Start
  <2> QED BY <1>2, <2>1, <2>2, LogKept, RunKept DEF Start
<1>3. CASE Parse
  <2>1. ParseInv'
    BY <1>3, ParseInvStep DEF Parse
  <2>2. ServeInv'
    BY <1>3, NotServing DEF Parse
  <2> QED BY <1>3, <2>1, <2>2, LogKept, RunKept DEF Parse
<1>4. CASE InitLogging
  <2>1. ParseInv' /\ RunInv'
    BY <1>4, ParseInvKept, RunKept DEF InitLogging
  <2>2. LogInv'
    BY <1>4, InitializeStep DEF InitLogging
  <2>3. ServeInv'
    BY <1>4, NotServing DEF InitLogging
  <2> QED BY <2>1, <2>2, <2>3
<1>5. CASE PrintVersion
  <2>1. ParseInv' /\ LogInv'
    BY <1>5, ParseInvKept, LogKept DEF PrintVersion
  <2>2. RunInv'
    BY <1>5, SortStep, RunKept DEF PrintVersion
  <2>3. ServeInv'
    BY <1>5, NotServing DEF PrintVersion
  <2> QED BY <2>1, <2>2, <2>3
<1>6. CASE RunInitFunctions
  <2>1. ParseInv' /\ LogInv'
    BY <1>6, ParseInvKept, LogKept DEF RunInitFunctions
  <2>2. RunInv'
    BY <1>6, RunFunctionStep, EndFunctionsStep DEF RunInitFunctions
  <2>3. ServeInv'
    BY <1>6, NotServing DEF RunInitFunctions
  <2> QED BY <2>1, <2>2, <2>3
<1>7. CASE Resize
  BY <1>7, ResizeStep, ParseInvKept, LogKept, RunKept DEF Resize, ParseInv
<1>8. CASE StartPort
  BY <1>8, PortStep, ParseInvKept, LogKept, RunKept DEF StartPort, ParseInv
<1>9. CASE StartDevice
  BY <1>9, DeviceStep, ParseInvKept, LogKept, RunKept DEF StartDevice, ParseInv
<1>10. CASE UNCHANGED vars
  BY <1>10, ParseInvKept, LogKept, RunKept, NotServing DEF vars, mainVars, parseVars
<1> QED BY <1>1, <1>2, <1>3, <1>4, <1>5, <1>6, <1>7, <1>8, <1>9, <1>10 DEF Next

\* Reading the command line, setting up the log, running the init functions and starting
\* the servers keep the invariant of all four, whatever the environment and the arguments.
THEOREM StartUpInvariant == Spec => []IInv
<1> QED BY Initial, Step, PTL DEF Spec

\* parse_commandline_flags loses, doubles and reorders none of the arguments that it
\* leaves, for every registry of flags and every list of arguments.
THEOREM CompactionInPlaceAlways == Spec => []CompactionInPlace
<1>1. IInv => CompactionInPlace
  BY ParseInvSuffices DEF IInv
<1> QED BY <1>1, StartUpInvariant, PTL

\* A flag is what the last argument about it says, in whichever notation and wherever the
\* search through the registries finds it.
THEOREM LastWinsAlways == Spec => []LastWins
<1>1. IInv => LastWins
  BY ParseInvSuffices DEF IInv
<1> QED BY <1>1, StartUpInvariant, PTL

\* The table of descriptors that initialize_log_fds builds orders the severities, for
\* every number of them and every environment.
THEOREM SevereMeansMoreAlways == Spec => []SevereMeansMore
<1>1. IInv => SevereMeansMore
  BY DEF IInv, LogInv
<1> QED BY <1>1, StartUpInvariant, PTL

\* The init functions that were registered before the run are run once each, by priority.
THEOREM RunInOrderOnceAlways == Spec => []RunInOrderOnce
<1>1. IInv => RunInOrderOnce
  BY RunInvSuffices DEF IInv
<1> QED BY <1>1, StartUpInvariant, PTL

\* The two loops of main fill every slot of the vector once, for all numbers of ports and
\* devices.
THEOREM EverySlotServesAlways == Spec => []EverySlotServes
<1>1. IInv => EverySlotServes
  BY ServeInvSuffices DEF IInv, ParseInv
<1> QED BY <1>1, StartUpInvariant, PTL
=============================================================================
