------------------------------- MODULE Logging -------------------------------
(***************************************************************************)
(* utils/Logging: which descriptors a message of each severity goes to.    *)
(* Static initialisation reads the environment, initialize_log_fds builds  *)
(* the table once, and messages before it go to stderr.                    *)
(***************************************************************************)
EXTENDS Integers, SequencesExt

CONSTANTS LevelNumber,   \* CC_LOG_MIN_LEVEL: the number it begins with, by its value
          LevelNames     \* the names of the severities, INFO first

ASSUME LevelsAssumption == /\ LevelNames \in Seq(Range(LevelNames))
                           /\ \A word \in DOMAIN LevelNumber : LevelNumber[word] \in Int

Severities == 0..Len(LevelNames) - 1
STDERR == 2
FileOf(severity) == 3 + severity     \* the descriptor that open returns for its file

VARIABLES env,               \* the environment: [level, dir, writable]
          g_log_inited, g_log_to_stderr, g_log_min_level, g_log_fds, g_log_file_fds,
          log_status         \* "static", "running", "failed" (exit -1) or "undefined"

logVars == <<env, g_log_inited, g_log_to_stderr, g_log_min_level, g_log_fds,
             g_log_file_fds, log_status>>

LogInit(environments) ==
    /\ env \in environments
    /\ g_log_inited = FALSE /\ g_log_to_stderr = FALSE /\ g_log_min_level = 0
    /\ g_log_fds = [s \in Severities |-> <<>>] /\ g_log_file_fds = <<>>
    /\ log_status = "static"

\* env2int of env2index: a number, else a name, else 0.
MinLevel(value) ==
    IF value \in DOMAIN LevelNumber THEN LevelNumber[value]
    ELSE IF value \in Range(LevelNames) THEN CHOOSE s \in Severities : LevelNames[s + 1] = value
    ELSE 0

\* The statics of Logging.cpp.  env2bool assigns nullptr to the value that it has read, and
\* reads through it: the build may crash or go on with either answer.
ReadEnvironment ==
    /\ log_status = "static"
    /\ \/ log_status' = "running" /\ g_log_to_stderr' \in BOOLEAN
       \/ log_status' = "undefined" /\ UNCHANGED g_log_to_stderr
    /\ g_log_min_level' = MinLevel(env.level)
    /\ UNCHANGED <<env, g_log_inited, g_log_fds, g_log_file_fds>>

\* set_min_log_level, which nobody asks after initialize_log_fds.
SetMinLogLevel(level) ==
    /\ log_status = "running"
    /\ g_log_min_level' = level
    /\ UNCHANGED <<env, g_log_inited, g_log_to_stderr, g_log_fds, g_log_file_fds, log_status>>

\* The severities that the loops go through; a negative minimum indexes before the table.
Looped == g_log_min_level..Len(LevelNames) - 1
FilesUpTo(s) ==
    IF env.dir THEN [n \in 1..s - g_log_min_level + 1 |-> FileOf(g_log_min_level + n - 1)] ELSE <<>>
ToStderr == IF g_log_to_stderr THEN <<STDERR>> ELSE <<>>

\* (mutant of FdsOf: each severity goes to its own file only)
FdsOfOwn(s) == ToStderr \o IF env.dir THEN <<FileOf(s)>> ELSE <<>>

\* stderr, and then every file opened so far, the own one last.
FdsOf(s) == ToStderr \o FilesUpTo(s)

InitializeLogFds ==
    /\ log_status = "running"
    /\ UNCHANGED <<env, g_log_to_stderr, g_log_min_level>>
    /\ IF g_log_min_level < 0 /\ (g_log_to_stderr \/ env.dir)
       THEN log_status' = "undefined" /\ UNCHANGED <<g_log_inited, g_log_fds, g_log_file_fds>>
       ELSE IF env.dir /\ ~env.writable /\ Looped # {}
       THEN log_status' = "failed" /\ UNCHANGED <<g_log_inited, g_log_fds, g_log_file_fds>>
       ELSE /\ g_log_fds' = [s \in Severities |-> IF s \in Looped THEN FdsOf(s) ELSE <<>>]
            /\ g_log_file_fds' = FilesUpTo(Len(LevelNames) - 1)
            /\ g_log_inited' = TRUE
            /\ UNCHANGED log_status

\* generate_log_message: where a message goes.
Destinations(severity) == IF g_log_inited THEN g_log_fds[severity] ELSE <<STDERR>>
-----------------------------------------------------------------------------
\* No message is written twice to one place, a message that goes anywhere takes every
\* more severe one with it, and a file has no message below the severity of its name.
SevereMeansMore ==
    /\ \A s \in Severities : IsInjective(Destinations(s))
    /\ \A s, t \in Severities : s <= t => Range(Destinations(s)) \subseteq Range(Destinations(t))
    /\ \A s, t \in Severities : FileOf(t) \in Range(Destinations(s)) => t <= s
=============================================================================
