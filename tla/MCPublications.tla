--------------------------- MODULE MCPublications ---------------------------
(***************************************************************************)
(* An instance of Publications for TLC: two types of the queue manager     *)
(* with the same name, in two classes that share a metric name and an      *)
(* element id; a type per queue; and application statistics.               *)
(***************************************************************************)
EXTENDS Publications

CONSTANTS q1, None

Cpu  == <<"CPU", "SystemSummary">>
Disk == <<"DISK", "SystemSummary">>
Put  == <<"STATQ", "PUT">>
App  == <<"STATAPP", "INSTANCE">>

MCTypes    == {Cpu, Disk, Put, App}
MCPerQueue == {Put}
MCAppTypes == {App}
MCQueues   == {q1}

MCElements ==
    (Cpu :> (0 :> "user" @@ 1 :> "system")) @@
    (Disk :> (1 :> "system")) @@
    (Put :> (1 :> "put_count" @@ 3 :> "put_bytes")) @@
    (App :> (1 :> "instances"))

\* One pattern finds the queue.
MCOnce == {<<q1>>}
=============================================================================
