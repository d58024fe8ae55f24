----------------------- MODULE MCParameterServerMain -----------------------
(* A process with six flags and two init functions; see the README for the bounds. *)
EXTENDS ParameterServerMain

MCNumeral == [w \in {"0", "1", "2", "-1", "9"} |->
                 CASE w = "0" -> 0 [] w = "1" -> 1 [] w = "2" -> 2 [] w = "-1" -> -1 [] w = "9" -> 9]
MCWidth == [type \in {"int32", "int64", "uint64"} |-> 4]
MCCommands == << [type |-> "bool", name |-> <<"version">>],
                 [type |-> "int32", name |-> <<"port">>],
                 [type |-> "int32", name |-> <<"num_ports">>],
                 [type |-> "int32", name |-> <<"num_ports_for_sparse">>],
                 [type |-> "uint64", name |-> <<"limit">>],
                 [type |-> "string", name |-> <<"nics">>] >>
MCDefaults == << FALSE, 5, 1, 0, 3, <<>> >>

Options == { <<"-", "-", "version">>, <<"-", "n", "o", "version">>,
             <<"-", "version", "=", "TRUE">>, <<"-", "-", "version", "=">>,
             <<"-", "-", "num_ports", "=", "2">>, <<"-", "num_ports", "=", "-1">>,
             <<"-", "-", "num_ports", "=", "9">>, <<"-", "-", "num_ports_for_sparse", "=", "1">>,
             <<"-", "-", "limit", "=", "-1">>,
             <<"-", "-", "nics", "=", "eth0">>, <<"-", "-", "nics", "=", "eth0", ",", "eth1", ",", "eth2", ",">>,
             <<"-", "-", "help">>, <<"name">> }
Few == { <<"name">>, <<"other">>, <<"-", "version">>, <<"-", "-", "num_ports", "=", "2">> }
MCArgumentLists == {<<<<"program">>>> \o args :
                       args \in [1..3 -> Few] \cup UNION {[1..n -> Options] : n \in 0..2}}

MCLevelNames == <<"INFO", "WARNING", "ERROR", "FATAL">>
MCLevelNumber == [w \in {"-1", "4"} |-> IF w = "4" THEN 4 ELSE -1]
MCEnvironments == { [level |-> "none", dir |-> FALSE, writable |-> FALSE],
                    [level |-> "none", dir |-> TRUE, writable |-> FALSE],
                    [level |-> "none", dir |-> TRUE, writable |-> TRUE],
                    [level |-> "ERROR", dir |-> TRUE, writable |-> TRUE],
                    [level |-> "-1", dir |-> FALSE, writable |-> FALSE],
                    [level |-> "4", dir |-> TRUE, writable |-> FALSE] }
MCPriority == [f \in Functions |-> IF f = "storage" THEN 9 ELSE 0]
=============================================================================
