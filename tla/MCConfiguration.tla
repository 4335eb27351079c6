-------------------------- MODULE MCConfiguration --------------------------
(***************************************************************************)
(* Directories, environments and calls for Configuration: pairs of calls,  *)
(* on files that are good, incomplete, broken or not there.                *)
(***************************************************************************)
EXTENDS Configuration

MCHostPort(host, port) == IF port = 1414 THEN "mq(1414)" ELSE "mq(0)"

\* Remote, with and without a port or a channel; with a user of either kind, with
\* settings that do not convert, that are out of range, or that nobody knows.
Remote  == [queue_manager |-> "QM1", channel |-> "C", host |-> "mq", mq_port |-> 1414,
            username |-> "file", interval |-> [n |-> 1, unit |-> "h"]]
NoPort  == [queue_manager |-> "QM1", channel |-> "C", host |-> "mq"]
NoNames == [connection_name |-> "qm2(1)", user |-> "file", password |-> "file",
            max_cycles |-> 3, continuous |-> TRUE]
Local   == [queue_manager |-> "QM1", use_statistics |-> TRUE, port |-> 9157,
            interval |-> [n |-> 500, unit |-> "ms"], colour |-> "red",
            tags |-> <<"t">>, values |-> <<"v">>]
Odd     == [queue_manager |-> "QM1", port |-> Unreadable, interval |-> Unreadable,
            max_cycles |-> 3, rediscover_interval |-> [n |-> 2, unit |-> "m"],
            mq_port |-> Unreadable, host |-> "mq", connection_name |-> "qm2(1)"]
Wrong   == {[queue_manager |-> "QM1", interval |-> [n |-> 0, unit |-> "s"]],
            [queue_manager |-> "QM1", port |-> 65536],
            [queue_manager |-> "QM1", tags |-> <<"t">>],
            [queue_manager |-> "QM1", stats_queue |-> Unreadable]}

Contents == {Remote, NoPort, NoNames, Local, Odd, Broken} \cup Wrong

Directory(first, second, other) ==
    [p \in {"config.yaml", "configs/default.yaml", "./config/config.yaml", "other.yaml"} |->
       CASE p = "config.yaml" -> first
         [] p = "configs/default.yaml" -> second
         [] p = "other.yaml" -> other
         [] OTHER -> Missing]

MCDirectories ==
    {Directory(first, Remote, other) : first \in {Missing, Local}, other \in Contents}
    \cup {Directory(first, Missing, Missing) : first \in Contents \cup {Missing}}

MCEnvironments ==
    {Nothing,
     [queue_manager |-> "QM9", channel |-> "", user |-> "env", password |-> "env"],
     [connection_name |-> "qm9(9)", channel |-> "D"]}

MCFlags ==
    {Nothing, [interval |-> 60, port |-> 9090], [interval |-> 5, max_cycles |-> 0],
     [port |-> 9158, continuous |-> TRUE], [interval |-> 0, reset_stats |-> TRUE],
     [port |-> 65536], [max_cycles |-> 1]}

MCCall(command, before, behind, flags) ==
    [command |-> command, before |-> before, behind |-> behind, flags |-> flags]

MCCalls ==
    {MCCall("run", path, "", flags) : path \in {"", "other.yaml"}, flags \in MCFlags}
    \cup {MCCall(command, before, behind, Nothing) :
            command \in {"test", "validate"}, before \in {"", "other.yaml"},
            behind \in {"", "config.yaml"}}
    \cup {MCCall(command, "", "", Nothing) : command \in {"generate", "version"}}
=============================================================================
