------------------------ MODULE MCExporterLifecycle ------------------------
(***************************************************************************)
(* Instances of ExporterLifecycle for TLC.                                 *)
(***************************************************************************)
EXTENDS ExporterLifecycle

MCConfig(keep, continuous, max, pubs, redisc) ==
    [keep_running |-> keep, continuous |-> continuous, max_cycles |-> max,
     use_publications |-> pubs, rediscover |-> redisc]

\* Bounded and unbounded runs with and without keep_running, single runs, and both
\* kinds of run with a resource monitor and rediscovery.
MCConfigs ==
    {MCConfig(keep, TRUE, max, FALSE, FALSE) : keep \in BOOLEAN, max \in {0, 2}}
    \cup {MCConfig(keep, FALSE, 0, FALSE, FALSE) : keep \in BOOLEAN}
    \cup {MCConfig(TRUE, TRUE, 0, TRUE, TRUE), MCConfig(FALSE, TRUE, 2, TRUE, TRUE)}

\* configs/default.yaml.
MCShippedConfigs == {MCConfig(TRUE, TRUE, 0, TRUE, FALSE)}
=============================================================================
