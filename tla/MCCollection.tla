---------------------------- MODULE MCCollection ----------------------------
(***************************************************************************)
(* Instances of Collection for TLC.                                        *)
(***************************************************************************)
EXTENDS Collection

CONSTANTS app, sys, mqi, None

MCQueues == {app, sys}
MCApp    == {app}
MCSys    == {sys}
MCNone   == {}

Usual == [monitored_queues |-> TRUE, monitor_all_queues |-> TRUE, use_status |-> TRUE,
          zos |-> FALSE, description |-> "text", labels_valid |-> TRUE]

\* Every switch in both positions.
MCConfigs ==
    {Usual,
     [Usual EXCEPT !.monitored_queues = FALSE, !.zos = TRUE, !.description = ""],
     [Usual EXCEPT !.monitored_queues = FALSE, !.monitor_all_queues = FALSE,
                   !.use_status = FALSE],
     [Usual EXCEPT !.labels_valid = FALSE]}

MCUsual == {Usual}
=============================================================================
