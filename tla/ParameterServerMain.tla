------------------------- MODULE ParameterServerMain -------------------------
(***************************************************************************)
(* A process from its static objects to its servers: Util.cpp's init_main  *)
(* and core/ParameterServerMain.cpp, over the command line, the log and    *)
(* the init functions.  init_main has its call of parse_commandline_flags  *)
(* commented out, so the model has mains that call it and mains that       *)
(* do not.                                                                 *)
(***************************************************************************)
EXTENDS CommandLine, Logging, InitFunctions

CONSTANTS ArgumentLists,   \* argument arrays that the program is started with
          Environments,    \* [level, dir, writable] it is started in
          Levels           \* levels that callers set

ASSUME ArgumentsAssumption ==
    \A args \in ArgumentLists : IsSequence(args) /\ \A arg \in Range(args) : IsSequence(arg)
ASSUME EnvironmentsAssumption ==
    /\ \A e \in Environments : e.dir \in BOOLEAN /\ e.writable \in BOOLEAN
    /\ Levels \subseteq Int

\* The flags that main reads are defined, with defaults of their types.
ASSUME FlagsAssumption ==
    /\ \A name \in {"port", "num_ports", "num_ports_for_sparse"} : \E k \in DOMAIN Commands :
          Commands[k] = [type |-> "int32", name |-> <<name>>] /\ Defaults[k] \in Int
    /\ \E k \in DOMAIN Commands :
          Commands[k] = [type |-> "string", name |-> <<"nics">>] /\ IsSequence(Defaults[k])

VARIABLES pc,         \* what main does next
          pservers,   \* the vector: [device, named, port] per slot, Null for nullptr
          port_index, \* i of the loop over ports
          nic,        \* j of the loop over devices, 0 without devices
          started     \* history: the slots, in the order of starting

mainVars == <<pc, pservers, port_index, nic, started>>
vars == <<parseVars, logVars, initVars, mainVars>>

Null == [device |-> -1, named |-> -1, port |-> 0]

FlagOf(name) == flags[CHOOSE k \in DOMAIN Commands : Commands[k].name = name]

Init == /\ ParseInit /\ LogInit(Environments) /\ InitFunctionsInit
        /\ pc = "static"
        /\ pservers = <<>> /\ port_index = 0 /\ nic = 0 /\ started = <<>>

Alive == log_status # "failed" /\ log_status # "undefined" /\ ~broken

\* Static objects of all files, in any order, and callers of the interfaces later on.
StaticObjects ==
    /\ Alive /\ pc # "exit"
    /\ \/ /\ pc = "static" /\ ReadEnvironment /\ UNCHANGED initVars
       \/ /\ pc \in {"static", "running", "serve"}
          /\ \E f \in Functions : RegisterInitFunction(f)
          /\ UNCHANGED logVars
       \/ /\ pc \in {"logging", "serve"}
          /\ \E level \in Levels : SetMinLogLevel(level)
          /\ UNCHANGED initVars
    /\ UNCHANGED <<parseVars, mainVars>>

Start == /\ Alive /\ pc = "static" /\ log_status = "running"
         /\ \E args \in ArgumentLists : StartWith(args)
         /\ pc' \in {"parse", "logging"}
         /\ UNCHANGED <<logVars, initVars, pservers, port_index, nic, started>>

Parse == /\ pc = "parse"
         /\ ParseCall \/ ParseStep
         /\ pc' = CASE status' \in {"refused", "helped"} -> "exit"
                    [] status' = "done" -> "logging"
                    [] OTHER -> pc
         /\ UNCHANGED <<logVars, initVars, pservers, port_index, nic, started>>

\* init_main, whose check that argc is 1 only logs.
InitLogging == /\ Alive /\ pc = "logging"
               /\ InitializeLogFds
               /\ pc' = "version"
               /\ UNCHANGED <<parseVars, initVars, pservers, port_index, nic, started>>

\* print_version ends the process if its flag is set, before any init function.
PrintVersion == /\ Alive /\ pc = "version"
                /\ IF FlagOf(<<"version">>) THEN pc' = "exit" /\ UNCHANGED initVars
                                            ELSE pc' = "running" /\ SortFunctions
                /\ UNCHANGED <<parseVars, logVars, pservers, port_index, nic, started>>

RunInitFunctions == /\ Alive /\ pc = "running"
                    /\ RunFunction \/ EndFunctions
                    /\ pc' = IF g_initialized' THEN "main" ELSE pc
                    /\ UNCHANGED <<parseVars, logVars, pservers, port_index, nic, started>>

NumPorts == FlagOf(<<"num_ports">>) + FlagOf(<<"num_ports_for_sparse">>)
Devices == Split(FlagOf(<<"nics">>), ",")

\* The vector gets its length; a negative one does not fit, and
\* the exception ends the process.
Resize == /\ Alive /\ pc = "main"
          /\ LET slots == IF FlagOf(<<"nics">>) = <<>> THEN NumPorts ELSE Len(Devices) * NumPorts
             IN  IF slots < 0 THEN pc' = "exit" /\ UNCHANGED pservers
                 ELSE pc' = "serve" /\ pservers' = [slot \in 1..slots |-> Null]
          /\ UNCHANGED <<parseVars, logVars, initVars, port_index, nic, started>>

\* The new server gets its slot and is started; init and its check only log a failure.
StartIn(slot, server) == /\ pservers' = [pservers EXCEPT ![slot] = server]
                         /\ started' = Append(started, slot)

\* No devices: one server per port, on every address.
StartPort ==
    /\ Alive /\ pc = "serve" /\ FlagOf(<<"nics">>) = <<>>
    /\ port_index < NumPorts
    /\ StartIn(port_index + 1,
               [device |-> 0, named |-> 0, port |-> FlagOf(<<"port">>) + port_index])
    /\ port_index' = port_index + 1
    /\ UNCHANGED <<parseVars, logVars, initVars, pc, nic>>

\* (mutant of Slot: the rows have the length of the other loop)
SlotTransposed(port, device) == port * NumPorts + device + 1

\* The slot for a port and a device.
Slot(port, device) == port * Len(Devices) + device + 1

\* One server per device and port.  The address asked for is that of the device with the
\* port's index, not of the device that the log names: behind the last, where the
\* model stops, the code reads past its vector.
StartDevice ==
    /\ Alive /\ pc = "serve" /\ FlagOf(<<"nics">>) # <<>>
    /\ port_index < NumPorts /\ nic < Len(Devices)
    /\ IF port_index >= Len(Devices)
       THEN pc' = "exit" /\ UNCHANGED <<pservers, started>>
       ELSE /\ StartIn(Slot(port_index, nic),
                       [device |-> port_index + 1, named |-> nic + 1,
                        port |-> FlagOf(<<"port">>) + port_index])
            /\ UNCHANGED pc
    /\ IF nic + 1 < Len(Devices) THEN nic' = nic + 1 /\ UNCHANGED port_index
                                 ELSE nic' = 0 /\ port_index' = port_index + 1
    /\ UNCHANGED <<parseVars, logVars, initVars>>

\* Every server is joined, by a call through the slot.
AllStarted == pc = "serve" /\ port_index >= NumPorts

Next == StaticObjects \/ Start \/ Parse \/ InitLogging \/ PrintVersion \/ RunInitFunctions
        \/ Resize \/ StartPort \/ StartDevice

Spec == Init /\ [][Next]_vars
-----------------------------------------------------------------------------
\* No slot is null when it is joined, or filled twice: the index arithmetic of the two loops
\* covers the vector.  Two servers ask for the same address and port, so that the second
\* fails to bind, only if they were started for one port and two devices; and a server
\* has the address of another device than its log line says only if there are several.
EverySlotServes ==
    /\ IsInjective(started)
    /\ AllStarted => Range(started) = DOMAIN pservers /\ Null \notin Range(pservers)
    /\ \A s, t \in Range(started) :
          /\ s # t /\ pservers[s].device = pservers[t].device /\ pservers[s].port = pservers[t].port
                => pservers[s].named # pservers[t].named
          /\ pservers[s].device # pservers[s].named => Len(Devices) > 1
=============================================================================
