----------------------------- MODULE CommandLine -----------------------------
(***************************************************************************)
(* utils/CommandLineParser: parse_commandline_flags sets flags from the    *)
(* arguments that it knows, and moves the others to the front of the array *)
(* that it is reading.                                                     *)
(***************************************************************************)
EXTENDS StringUtils

CONSTANTS Commands,   \* all registries in the order of the search: [type, name] each
          Defaults    \* what the flags were initialised to

ASSUME CommandsAssumption == IsSequence(Commands) /\ DOMAIN Defaults = DOMAIN Commands

\* A name is an identifier, of one flag only; nor does any flag negate another.
ASSUME NamesAssumption ==
    \A k \in DOMAIN Commands :
       /\ IsSequence(Commands[k].name) /\ {"-", "="} \cap Range(Commands[k].name) = {}
       /\ \A j \in DOMAIN Commands : /\ Commands[j].name = Commands[k].name => j = k
                                     /\ Commands[j].name # <<"n", "o">> \o Commands[k].name

VARIABLES flags,    \* FLAGS_..., by the index of the command
          argv,     \* the array, argv[1] being the program
          argc,     \* its length, and at last that of what is left
          i,        \* the argument that the loop looks at
          unused,   \* unused_argc
          status,   \* "none", "parsing", "done", or why the process exited
          given     \* history: the array before the call

parseVars == <<flags, argv, argc, i, unused, status, given>>

ParseInit == /\ flags = Defaults
             /\ status = "none"
             /\ argv = <<>> /\ argc = 0 /\ i = 2 /\ unused = 1 /\ given = <<>>

\* The program is started with arguments.
StartWith(args) == /\ argv' = args /\ given' = args
                   /\ argc' = Len(args)
                   /\ UNCHANGED <<flags, i, unused, status>>

ParseCall == /\ status = "none" /\ status' = "parsing"
             /\ UNCHANGED <<flags, argv, argc, i, unused, given>>

\* StringToValue: the value that the text has as one of the type, if any.
StringToValue(type, content) ==
    CASE type = "bool" -> {v \in BOOLEAN : content \in IF v THEN {<<"true">>, <<"TRUE">>, <<"1">>}
                                                            ELSE {<<"false">>, <<"FALSE">>, <<"0">>}}
      [] type = "string" -> {content}
      [] OTHER -> ToWithStatus(type, content)

\* What follows "--name=" or "-name=", unless that is nothing.
Contents(command, arg) ==
    LET prefixes == {dashes \o command.name \o <<"=">> : dashes \in {<<"-">>, <<"-", "-">>}}
    IN  {SubSeq(arg, Len(p) + 1, Len(arg)) : p \in {q \in prefixes : StartsWith(arg, q)}} \ {<<>>}

\* parse_argument for each type in turn: the first command that has a content.
Candidates(arg) == {k \in DOMAIN Commands : Contents(Commands[k], arg) # {}}
Values(k, arg) == UNION {StringToValue(Commands[k].type, c) : c \in Contents(Commands[k], arg)}

\* parse_bool_argument_extra: prefixes by their length, the two longer ones negate.
BoolPrefixes == << <<"-">>, <<"-", "-">>, <<"-", "n", "o">>, <<"-", "-", "n", "o">> >>
BoolCandidates(arg) ==
    {k \in DOMAIN Commands : /\ Commands[k].type = "bool"
                             /\ \E d \in DOMAIN BoolPrefixes : arg = BoolPrefixes[d] \o Commands[k].name}

Looping == status = "parsing" /\ i <= argc
NextArgument == i' = i + 1 /\ UNCHANGED <<argc, status, given>>

ParseValue ==
    /\ Looping
    /\ Candidates(argv[i]) # {}
    /\ LET k == Min(Candidates(argv[i])) IN
         \E v \in Values(k, argv[i]) : flags' = [flags EXCEPT ![k] = v]
    /\ NextArgument /\ UNCHANGED <<argv, unused>>

\* print_parse_error: the usage, and exit.
ParseRefuse ==
    /\ Looping
    /\ Candidates(argv[i]) # {}
    /\ Values(Min(Candidates(argv[i])), argv[i]) = {}
    /\ status' = "refused"
    /\ UNCHANGED <<flags, argv, argc, i, unused, given>>

\* (mutant of ParseBool: does not look at what the prefix means)
ParseBoolTrue ==
    /\ Looping
    /\ Candidates(argv[i]) = {} /\ BoolCandidates(argv[i]) # {}
    /\ flags' = [flags EXCEPT ![Min(BoolCandidates(argv[i]))] = TRUE]
    /\ NextArgument /\ UNCHANGED <<argv, unused>>

\* A bool without a value.
ParseBool ==
    /\ Looping
    /\ Candidates(argv[i]) = {} /\ BoolCandidates(argv[i]) # {}
    /\ LET k == Min(BoolCandidates(argv[i])) IN
         flags' = [flags EXCEPT ![k] = \E d \in 1..2 : argv[i] = BoolPrefixes[d] \o Commands[k].name]
    /\ NextArgument /\ UNCHANGED <<argv, unused>>

Unknown == Looping /\ Candidates(argv[i]) = {} /\ BoolCandidates(argv[i]) = {}
Help == {<<"-", "-", "help">>, <<"-", "h">>}

ParseHelp == /\ Unknown /\ argv[i] \in Help
             /\ status' = "helped"
             /\ UNCHANGED <<flags, argv, argc, i, unused, given>>

\* (mutant of ParseKeep: overwrites instead of swapping)
ParseKeepOver ==
    /\ Unknown /\ argv[i] \notin Help
    /\ argv' = [argv EXCEPT ![unused + 1] = argv[i]]
    /\ unused' = unused + 1
    /\ NextArgument /\ UNCHANGED flags

\* The argument is swapped to the front, whatever was there is used.
ParseKeep ==
    /\ Unknown /\ argv[i] \notin Help
    /\ argv' = [argv EXCEPT ![unused + 1] = argv[i], ![i] = argv[unused + 1]]
    /\ unused' = unused + 1
    /\ NextArgument /\ UNCHANGED flags

ParseReturn == /\ status = "parsing" /\ i > argc
               /\ argc' = unused
               /\ status' = "done"
               /\ UNCHANGED <<flags, argv, i, unused, given>>

ParseStep == ParseValue \/ ParseRefuse \/ ParseBool \/ ParseHelp \/ ParseKeep \/ ParseReturn
-----------------------------------------------------------------------------
\* Reference: what an argument says of a flag, looked at alone.
Says(k, arg) == IF Values(k, arg) # {} THEN Values(k, arg)
                ELSE {v \in BOOLEAN : /\ Commands[k].type = "bool"
                                      /\ \E dashes \in {<<"-">>, <<"-", "-">>} :
                                            arg = dashes \o (IF v THEN <<>> ELSE <<"n", "o">>) \o Commands[k].name}
Known(arg) == \E k \in DOMAIN Commands : Says(k, arg) # {}

\* The arguments read that no flag knew, and where such a one goes: behind those before it.
Kept == {j \in 2..i - 1 : ~Known(given[j])}
PlaceOf(j) == 1 + Cardinality({k \in Kept : k <= j})

\* Compaction in place loses, doubles and reorders nothing: what was not read is as it
\* was given, what is at the front is what no flag knew, in order, and every argument is
\* still in the array, which callers may free.
CompactionInPlace ==
    status \in {"parsing", "done"} =>
        /\ SubSeq(argv, i, Len(argv)) = SubSeq(given, i, Len(given))
        /\ unused = 1 + Cardinality(Kept) /\ \A j \in Kept : argv[PlaceOf(j)] = given[j]
        /\ \A arg \in Range(given) : Cardinality({j \in DOMAIN argv : argv[j] = arg})
                                       = Cardinality({j \in DOMAIN given : given[j] = arg})

\* A flag has the value that the last argument about it gave it, whichever of the
\* notations it used, and its default if there was none.
LastWins ==
    status \in {"parsing", "done"} => \A k \in DOMAIN Commands :
        LET about == {j \in 2..i - 1 : Says(k, given[j]) # {}}
        IN  IF about = {} THEN flags[k] = Defaults[k] ELSE flags[k] \in Says(k, given[Max(about)])
=============================================================================
