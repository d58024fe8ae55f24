---------------------------- MODULE InitFunctions ----------------------------
(***************************************************************************)
(* The init functions of utils/Util.cpp: registered by constructors of     *)
(* static objects, sorted by priority, and run once by init_main.          *)
(***************************************************************************)
EXTENDS Integers, SequencesExt

CONSTANTS Functions, Priority

ASSUME PriorityAssumption == Priority \in [Functions -> Int]

VARIABLES g_init_funcs,    \* the list, empty for nullptr
          g_initialized,
          next,            \* the position of the loop that runs them, 0 outside it
          end,             \* and where it ends: the end of the list when it began
          broken,          \* the list was moved under the loop
          ran,             \* history: what was run
          before           \* history: what was registered before the run began

initVars == <<g_init_funcs, g_initialized, next, end, broken, ran, before>>

InitFunctionsInit ==
    /\ g_init_funcs = <<>> /\ g_initialized = FALSE
    /\ next = 0 /\ end = 0 /\ broken = FALSE
    /\ ran = <<>> /\ before = {}

Running == next # 0
Registered == before \cup Range(g_init_funcs)

\* register_init_function, by a static object, by an init function (the vector may be
\* moved while it is iterated), or after the run (logged as fatal, and forgotten).
RegisterInitFunction(f) ==
    /\ ~broken
    /\ f \notin Registered
    /\ g_init_funcs' = Append(g_init_funcs, f)
    /\ broken' \in {FALSE, Running}
    /\ UNCHANGED <<g_initialized, next, end, ran, before>>

\* (mutant of Ordered: the least urgent first)
OrderedBackwards(list) ==
    \A a, b \in DOMAIN list : a < b => Priority[list[a]] <= Priority[list[b]]

\* std::sort with the given comparison; equal priorities come in any order.
Ordered(list) == \A a, b \in DOMAIN list : a < b => Priority[list[a]] >= Priority[list[b]]

SortFunctions ==
    /\ ~g_initialized /\ ~Running
    /\ \E list \in SetToSeqs(Range(g_init_funcs)) :
          Ordered(list) /\ g_init_funcs' = list
    /\ next' = 1 /\ end' = Len(g_init_funcs)
    /\ before' = Range(g_init_funcs)
    /\ UNCHANGED <<g_initialized, broken, ran>>

RunFunction ==
    /\ Running /\ next <= end /\ ~broken
    /\ ran' = Append(ran, g_init_funcs[next])
    /\ next' = next + 1
    /\ UNCHANGED <<g_init_funcs, g_initialized, end, broken, before>>

EndFunctions ==
    /\ Running /\ next > end /\ ~broken
    /\ g_init_funcs' = <<>> /\ next' = 0
    /\ g_initialized' = TRUE
    /\ UNCHANGED <<end, broken, ran, before>>
-----------------------------------------------------------------------------
\* In whatever order files registered them, functions run in the order of their
\* priorities, each once; what is registered during the run or after it never runs.
RunInOrderOnce ==
    /\ IsInjective(ran) /\ Range(ran) \subseteq before
    /\ \A a, b \in DOMAIN ran : a < b => Priority[ran[a]] >= Priority[ran[b]]
    /\ g_initialized => Range(ran) = before
=============================================================================
