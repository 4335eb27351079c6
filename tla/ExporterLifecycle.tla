-------------------------- MODULE ExporterLifecycle --------------------------
(***************************************************************************)
(* The two threads of the exporter process: the main thread of             *)
(* run_collector (src/src/main.cpp) and the thread it starts to run        *)
(* Collector::start (src/src/collector.cpp), with the state they share     *)
(* without a lock: the running_ flags, the MQ client, the resource monitor *)
(* and the pointer MetricsCollector keeps to it.                           *)
(*                                                                         *)
(* The queue manager is external: it accepts connections or not, and it    *)
(* may break the connection it gave at any moment.                         *)
(*                                                                         *)
(* A step is one C++ statement or a run of statements between which the    *)
(* other thread cannot tell a difference.  MQ calls return at once with    *)
(* any result the queue manager can give.                                  *)
(***************************************************************************)
EXTENDS Integers

CONSTANTS
    Configs,      \* configurations that load_config and validate() accept
    CounterCap    \* bound: the three cycle counters saturate here

ConfigType ==
    [keep_running: BOOLEAN, continuous: BOOLEAN, max_cycles: Int,
     use_publications: BOOLEAN, rediscover: BOOLEAN]

ASSUME ConfigsAssumption == Configs \subseteq ConfigType

ASSUME CounterCapAssumption ==
    /\ CounterCap \in Nat \ {0}
    /\ \A c \in Configs : c.max_cycles + 1 < CounterCap

VARIABLES
    config,            \* Collector::config_
    mainPc, mainRet,   \* where the main thread is, and where stop() returns to
    colPc, cycle,      \* where the collector thread is, and which call of
                       \* collect_cycle it is in
    shutdownRequested, \* g_shutdown_requested
    running, collectorEnd, connectedOnce, connectedQmgr,
    cycleCount, totalCollections, errorCount,
    http,              \* HTTPServer::exposer_
    connected,         \* MQClient::connected_
    handles,           \* which of the client's queues and topics are open
    resourceMonitor,   \* Collector::resource_monitor_ (owning pointer)
    monitorPtr,        \* MetricsCollector::resource_monitor_ (raw pointer)
    hconn,             \* the connection at the queue manager (external)
    qmUp,              \* the queue manager accepts connections (external)
    lateCycles         \* history: cycles begun after running_ was cleared

flags    == <<running, collectorEnd>>
link     == <<connectedOnce, connectedQmgr>>
counters == <<cycleCount, totalCollections, errorCount>>
client   == <<connected, handles, hconn>>
monitor  == <<resourceMonitor, monitorPtr>>
mainVars == <<mainPc, mainRet>>
colVars  == <<colPc, cycle, lateCycles>>

steady   == <<config, shutdownRequested, qmUp>>
colSide  == <<steady, colVars, link, counters>>
data     == <<flags, link, counters, http, client, monitor>>

vars == <<steady, mainVars, colVars, data>>

-----------------------------------------------------------------------------
StopPcs == {"stop", "stop_http", "stop_monitor", "stop_close",
            "stop_disconnect"}
MainPcs == {"load", "poll", "join", "destroy", "exit", "crashed"} \cup StopPcs

SetupPcs == {"open", "monitor_new", "monitor_discover", "monitor_subscribe",
             "monitor_publish"}
CyclePcs == {"drain", "update", "pubs", "finish", "returned"}
LoopPcs  == {"sleep", "rediscover"}
ColPcs   == {"none", "http", "flag", "head", "connect", "retry", "run", "tail",
             "done", "crashed"} \cup SetupPcs \cup CyclePcs \cup LoopPcs

TypeOK ==
    /\ config \in Configs
    /\ mainPc \in MainPcs /\ mainRet \in {"join", "destroy"}
    /\ colPc \in ColPcs /\ cycle \in {"once", "initial", "periodic"}
    /\ shutdownRequested \in BOOLEAN
    /\ running \in BOOLEAN /\ collectorEnd \in BOOLEAN
    /\ connectedOnce \in BOOLEAN /\ connectedQmgr \in BOOLEAN
    /\ cycleCount \in 0 .. CounterCap
    /\ totalCollections \in 0 .. CounterCap
    /\ errorCount \in 0 .. CounterCap
    /\ http \in {"down", "up"}
    /\ connected \in BOOLEAN /\ handles \in SUBSET {"queues", "topics"}
    /\ resourceMonitor \in {"none", "made", "subscribed"}
    /\ monitorPtr \in {"null", "set"}
    /\ hconn \in {"none", "live", "dead", "refused"} /\ qmUp \in BOOLEAN
    /\ lateCycles \in 0 .. CounterCap

Init ==
    /\ config \in Configs
    /\ mainPc = "load" /\ mainRet = "join"
    /\ colPc = "none" /\ cycle = "once" /\ lateCycles = 0
    /\ shutdownRequested = FALSE
    /\ running = FALSE /\ collectorEnd = FALSE
    /\ connectedOnce = FALSE /\ connectedQmgr = FALSE
    /\ cycleCount = 0 /\ totalCollections = 0 /\ errorCount = 0
    /\ http = "down"
    /\ connected = FALSE /\ handles = {} /\ hconn = "none"
    /\ resourceMonitor = "none" /\ monitorPtr = "null"
    /\ qmUp \in BOOLEAN

\* Mutant: the counters do not saturate.
BumpUnbounded(n) == n + 1

Bump(n) == IF n < CounterCap THEN n + 1 ELSE n

-----------------------------------------------------------------------------
(* The main thread.                                                        *)

\* The main thread writes neither the counters nor the collector's places.
MainGoto(pc) == mainPc' = pc /\ UNCHANGED <<mainRet, colSide>>

\* MQDISC ends the connection, or fails and leaves it: "refused".
Disc ==
    \/ hconn' = "none"
    \/ hconn \in {"live", "refused"} /\ hconn' = "refused"

\* MQClient::disconnect(): nothing to do when the client neither believes it
\* is connected nor holds an open handle; otherwise every handle is closed and
\* MQDISC called.  That it failed is logged; the client takes itself for
\* disconnected all the same.
Disconnect ==
    IF connected \/ handles # {}
      THEN connected' = FALSE /\ handles' = {} /\ Disc
      ELSE UNCHANGED client

\* load_config or validate() throws: run_collector returns 1.
LoadConfigFails ==
    /\ mainPc = "load" /\ MainGoto("exit")
    /\ UNCHANGED <<flags, http, client, monitor>>

\* The handlers are installed, the Collector is built and its thread starts.
SpawnCollector ==
    /\ mainPc = "load"
    /\ mainPc' = "poll" /\ colPc' = "http"
    /\ UNCHANGED <<steady, mainRet, cycle, lateCycles, data>>

\* Mutant: the wait loop does not look at the signal.
PollIgnoresSignal ==
    /\ mainPc = "poll" /\ ~running
    /\ mainPc' = "stop" /\ mainRet' = "join"
    /\ UNCHANGED <<colSide, flags, http, client, monitor>>

\* The wait loop ends on a signal, and also when is_running() is false: the
\* collector thread has stopped, or has not yet set the flag.
PollEnds ==
    /\ mainPc = "poll"
    /\ shutdownRequested \/ ~running
    /\ mainPc' = "stop" /\ mainRet' = "join"
    /\ UNCHANGED <<colSide, flags, http, client, monitor>>

\* Mutant: stop() forgets running_ = false.
StopKeepsRunning ==
    /\ mainPc = "stop" /\ MainGoto(IF running THEN "stop_http" ELSE mainRet)
    /\ collectorEnd' = (collectorEnd \/ running)
    /\ UNCHANGED <<running, http, client, monitor>>

\* stop() returns at once unless running_.  Every reader of the two flags
\* tests running_ first, so the two stores are one step.
StopFlags ==
    /\ mainPc = "stop" /\ MainGoto(IF running THEN "stop_http" ELSE mainRet)
    /\ running' = FALSE
    /\ collectorEnd' = (collectorEnd \/ running)
    /\ UNCHANGED <<http, client, monitor>>

StopHttp ==
    /\ mainPc = "stop_http" /\ MainGoto("stop_monitor")
    /\ http' = "down"
    /\ UNCHANGED <<flags, client, monitor>>

\* if (resource_monitor_): the metrics collector's pointer is cleared first.
StopMonitor ==
    /\ mainPc = "stop_monitor"
    /\ IF resourceMonitor = "none"
         THEN MainGoto("stop_disconnect") /\ UNCHANGED monitorPtr
         ELSE MainGoto("stop_close") /\ monitorPtr' = "null"
    /\ UNCHANGED <<flags, http, client, resourceMonitor>>

\* resource_monitor_->close(); resource_monitor_.reset()
StopClose ==
    /\ mainPc = "stop_close" /\ MainGoto("stop_disconnect")
    /\ resourceMonitor' = "none"
    /\ UNCHANGED <<flags, http, client, monitorPtr>>

StopDisconnect ==
    /\ mainPc = "stop_disconnect" /\ MainGoto(mainRet)
    /\ Disconnect
    /\ UNCHANGED <<flags, http, monitor>>

\* join() returns; run_collector returns and ~Collector calls stop() again.
Join ==
    /\ mainPc = "join" /\ colPc = "done"
    /\ mainPc' = "stop" /\ mainRet' = "destroy"
    /\ UNCHANGED <<colSide, flags, http, client, monitor>>

\* The members are destroyed in reverse order of declaration:
\* resource_monitor_ (closes its subscriptions), http_server_ (stops),
\* metrics_collector_, mq_client_ (disconnects).
Destroy ==
    /\ mainPc = "destroy" /\ MainGoto("exit")
    /\ resourceMonitor' = "none" /\ http' = "down"
    /\ Disconnect
    /\ UNCHANGED <<flags, monitorPtr>>

Main == \/ LoadConfigFails \/ SpawnCollector \/ PollEnds
        \/ StopFlags \/ StopHttp \/ StopMonitor \/ StopClose \/ StopDisconnect
        \/ Join \/ Destroy

-----------------------------------------------------------------------------
(* The collector thread: start().                                          *)

Goto(pc) == colPc' = pc /\ UNCHANGED <<steady, mainVars, cycle, lateCycles>>

\* http_server_->start() comes before running_ is set.
HttpStart ==
    /\ colPc = "http" /\ Goto("flag")
    /\ http' = "up"
    /\ UNCHANGED <<flags, link, counters, client, monitor>>

\* The port is in use: the exception leaves start(), the thread logs it.
HttpStartFails == colPc = "http" /\ Goto("done") /\ UNCHANGED data

SetRunning ==
    /\ colPc = "flag"
    /\ Goto(IF config.keep_running THEN "head" ELSE "connect")
    /\ running' = TRUE
    /\ UNCHANGED <<collectorEnd, link, counters, http, client, monitor>>

\* Mutant: the loop of start() does not look at the flags.
LoopHeadIgnoresStop ==
    /\ colPc = "head" /\ Goto(IF connectedQmgr THEN "run" ELSE "connect")
    /\ UNCHANGED data

\* while (running_ && !collector_end_) { if (!connected_qmgr_) ...
LoopHead ==
    /\ colPc = "head"
    /\ Goto(IF ~running \/ collectorEnd THEN "done"
            ELSE IF connectedQmgr THEN "run" ELSE "connect")
    /\ UNCHANGED data

\* try_connect() succeeds; MQClient::connect() returns at once when connected.
Connect ==
    /\ colPc = "connect" /\ Goto("open")
    /\ connected \/ qmUp
    /\ hconn' = IF connected THEN hconn ELSE "live"
    /\ connected' = TRUE
    /\ connectedQmgr' = TRUE /\ connectedOnce' = TRUE
    /\ UNCHANGED <<flags, counters, http, handles, monitor>>

\* Mutant: a failed connect ends start() although keep_running is set.
ConnectFailsGivesUp ==
    /\ colPc = "connect" /\ ~connected /\ Goto("done")
    /\ connectedQmgr' = FALSE
    /\ UNCHANGED <<flags, connectedOnce, counters, http, client, monitor>>

\* try_connect() fails.  Without keep_running start() gives up.
ConnectFails ==
    /\ colPc = "connect" /\ ~connected
    /\ Goto(IF config.keep_running THEN "retry" ELSE "done")
    /\ connectedQmgr' = FALSE
    /\ running' = (running /\ config.keep_running)
    /\ UNCHANGED <<collectorEnd, connectedOnce, counters, http, client, monitor>>

\* The wait for reconnect_interval, cut short when running_ is cleared.
Retry == colPc = "retry" /\ Goto("head") /\ UNCHANGED data

-----------------------------------------------------------------------------
(* setup_after_connect().                                                  *)

\* Any of the opens and subscriptions may fail, none stops the others.
OpenHandles ==
    /\ colPc = "open"
    /\ Goto(IF config.use_publications THEN "monitor_new" ELSE "run")
    /\ \E opened \in SUBSET {"queues", "topics"} :
         /\ opened # {} => connected /\ hconn = "live"
         /\ handles' = handles \cup opened
    /\ UNCHANGED <<flags, link, counters, http, connected, hconn, monitor>>

MonitorNew ==
    /\ colPc = "monitor_new" /\ Goto("monitor_discover")
    /\ resourceMonitor' = "made"
    /\ UNCHANGED <<flags, link, counters, http, client, monitorPtr>>

MonitorDiscovers ==
    /\ colPc = "monitor_discover" /\ Goto("monitor_subscribe")
    /\ connected /\ hconn = "live"
    /\ UNCHANGED data

\* discover() returns false or throws: resource_monitor_.reset()
MonitorDiscoverFails ==
    /\ colPc = "monitor_discover" /\ Goto("run")
    /\ resourceMonitor' = "none"
    /\ UNCHANGED <<flags, link, counters, http, client, monitorPtr>>

\* create_subscriptions(): its result is ignored.
MonitorSubscribe ==
    /\ colPc = "monitor_subscribe" /\ Goto("monitor_publish")
    /\ \/ UNCHANGED resourceMonitor
       \/ /\ resourceMonitor = "made" /\ connected /\ hconn = "live"
          /\ resourceMonitor' = "subscribed"
    /\ UNCHANGED <<flags, link, counters, http, client, monitorPtr>>

\* metrics_collector_->set_resource_monitor(resource_monitor_.get())
MonitorPublish ==
    /\ colPc = "monitor_publish" /\ Goto("run")
    /\ monitorPtr' = IF resourceMonitor = "none" THEN "null" ELSE "set"
    /\ UNCHANGED <<flags, link, counters, http, client, resourceMonitor>>

-----------------------------------------------------------------------------
(* run_once(), run_continuous() and collect_cycle().                       *)

\* collect_cycle() is called; which names the caller.
BeginCycle(which) ==
    /\ colPc' = "drain" /\ cycle' = which
    /\ lateCycles' = IF running THEN lateCycles ELSE Bump(lateCycles)
    /\ UNCHANGED <<steady, mainVars, data>>

\* Neither run_once() nor the first cycle of run_continuous() looks at running_.
Run ==
    /\ colPc = "run"
    /\ BeginCycle(IF config.continuous THEN "initial" ELSE "once")

\* Mutant: every failed MQGET is taken for a broken connection.
DrainForgetsConnection ==
    /\ colPc = "drain" /\ Goto("update")
    /\ connected' \in {connected, FALSE}
    /\ UNCHANGED <<flags, link, counters, http, handles, hconn, monitor>>

\* get_all_messages() on the statistics and accounting queues.  The client
\* notices here, and only here, that its connection is broken; the exception
\* stops in collect_messages().
Drain ==
    /\ colPc = "drain" /\ Goto("update")
    /\ connected' = (connected /\ ~(hconn = "dead" /\ "queues" \in handles))
    /\ UNCHANGED <<flags, link, counters, http, handles, hconn, monitor>>

\* update_metrics_from_messages() throws (a label the registry refuses): the
\* handler of collect_cycle() counts an error and, if the client has lost its
\* connection, clears connected_qmgr_.
UpdateThrows ==
    /\ colPc = "update" /\ Goto("returned")
    /\ errorCount' = Bump(errorCount)
    /\ connectedQmgr' = (connectedQmgr /\ connected)
    /\ UNCHANGED <<flags, connectedOnce, cycleCount, totalCollections, http,
                   client, monitor>>

\* The inquiries, and then: if (resource_monitor_ && mq_client_->is_connected())
Update ==
    /\ colPc = "update"
    /\ Goto(IF monitorPtr = "set" /\ connected THEN "pubs" ELSE "finish")
    /\ UNCHANGED data

\* process_publications() on the object the pointer named when it was read.
Publications == colPc = "pubs" /\ Goto("finish") /\ UNCHANGED data

Finish ==
    /\ colPc = "finish" /\ Goto("returned")
    /\ totalCollections' = Bump(totalCollections)
    /\ UNCHANGED <<flags, link, cycleCount, errorCount, http, client, monitor>>

\* Where start() goes when run_continuous() or run_once() returns.
AfterRun == IF config.keep_running THEN "tail" ELSE "done"

OnceReturns ==
    /\ colPc = "returned" /\ cycle = "once" /\ Goto(AfterRun)
    /\ collectorEnd' = (collectorEnd \/ config.keep_running)
    /\ UNCHANGED <<running, link, counters, http, client, monitor>>

InitialReturns ==
    colPc = "returned" /\ cycle = "initial" /\ Goto("sleep") /\ UNCHANGED data

LastCycle == config.max_cycles > 0 /\ cycleCount' >= config.max_cycles

\* Mutant: the last cycle leaves the loop without clearing running_.
PeriodicKeepsRunning ==
    /\ colPc = "returned" /\ cycle = "periodic"
    /\ cycleCount' = Bump(cycleCount)
    /\ Goto(IF LastCycle THEN AfterRun ELSE "sleep")
    /\ UNCHANGED <<flags, link, totalCollections, errorCount, http, client,
                   monitor>>

\* cycle_count_++, then the test for max_cycles.
PeriodicReturns ==
    /\ colPc = "returned" /\ cycle = "periodic"
    /\ cycleCount' = Bump(cycleCount)
    /\ IF LastCycle THEN Goto(AfterRun) /\ running' = FALSE
                    ELSE Goto("sleep") /\ UNCHANGED running
    /\ UNCHANGED <<collectorEnd, link, totalCollections, errorCount, http,
                   client, monitor>>

\* The loop and its sleep end when running_ is cleared ...
SleepStopped ==
    colPc = "sleep" /\ ~running /\ Goto(AfterRun) /\ UNCHANGED data

\* ... or the interval elapses with running_ set.
SleepElapses == colPc = "sleep" /\ running /\ BeginCycle("periodic")

RediscoverIsDue ==
    /\ colPc = "sleep" /\ running /\ config.rediscover /\ Goto("rediscover")
    /\ UNCHANGED data

\* discover_queues() for each pattern; the cycle follows without a look at
\* running_.
Rediscover == colPc = "rediscover" /\ BeginCycle("periodic")

\* The end of the body of start()'s loop, with the block that drops the client
\* so that the next turn reconnects: disconnect(), resource_monitor_.reset(),
\* set_resource_monitor(nullptr) and a new MQClient.
Tail ==
    /\ colPc = "tail" /\ Goto("head")
    /\ IF running /\ ~collectorEnd
         THEN /\ connectedQmgr' = FALSE
              /\ connected' = FALSE /\ handles' = {} /\ Disc
              /\ resourceMonitor' = "none" /\ monitorPtr' = "null"
         ELSE UNCHANGED <<connectedQmgr, client, monitor>>
    /\ UNCHANGED <<flags, connectedOnce, counters, http>>

Startup == \/ HttpStart \/ HttpStartFails \/ SetRunning \/ LoopHead
           \/ Connect \/ ConnectFails \/ Retry

Setup == \/ OpenHandles \/ MonitorNew \/ MonitorDiscovers
         \/ MonitorDiscoverFails \/ MonitorSubscribe \/ MonitorPublish

CollectCycle == Drain \/ Update \/ UpdateThrows \/ Publications \/ Finish

RunContinuous == \/ InitialReturns \/ PeriodicReturns \/ SleepStopped
                 \/ SleepElapses \/ RediscoverIsDue \/ Rediscover

CollectorThread ==
    \/ Startup \/ Setup \/ CollectCycle \/ RunContinuous
    \/ Run \/ OnceReturns \/ Tail

-----------------------------------------------------------------------------
(* The environment.                                                        *)

Terminated == mainPc \in {"exit", "crashed"}

threads == <<mainVars, colVars>>

\* SIGINT or SIGTERM, once the handlers are installed.
Signal ==
    /\ mainPc # "load" /\ ~Terminated
    /\ shutdownRequested' = TRUE
    /\ UNCHANGED <<config, qmUp, threads, data>>

QueueManagerStops ==
    /\ qmUp' = FALSE
    /\ hconn' = IF hconn \in {"live", "refused"} THEN "dead" ELSE hconn
    /\ UNCHANGED <<config, shutdownRequested, threads, flags, link, counters,
                   http, connected, handles, monitor>>

QueueManagerStarts ==
    qmUp' = TRUE /\ UNCHANGED <<config, shutdownRequested, threads, data>>

\* The threads use the monitor while, or after, the other destroys it.
UseAfterDestroy ==
    /\ resourceMonitor = "none"
    /\ \/ colPc \in {"monitor_discover", "monitor_subscribe", "pubs"}
       \/ mainPc = "stop_close"

\* Undefined behaviour: the process may crash here, or go on.
Crash ==
    /\ UseAfterDestroy /\ ~Terminated
    /\ mainPc' = "crashed" /\ colPc' = "crashed"
    /\ UNCHANGED <<steady, mainRet, cycle, lateCycles, data>>

Environment == Signal \/ QueueManagerStops \/ QueueManagerStarts \/ Crash

Next == Main \/ CollectorThread \/ Environment

\* Both threads are scheduled; every sleep ends and every MQ call returns.
Spec == Init /\ [][Next]_vars /\ WF_vars(Main) /\ WF_vars(CollectorThread)

-----------------------------------------------------------------------------
(* Properties.                                                             *)

\* The endpoint is reachable for as long as the collector says it is running:
\* start() binds the port before it sets running_, stop() clears running_
\* before it closes the port.
EndpointUpWhileRunning == running => http = "up"

\* One run makes at most one collection, or max_cycles and the initial one, which
\* cycle_count_ does not count.  That is one more than the option is said to allow
\* ("Maximum collection cycles", main.cpp:264), and never more than one.
CycleBudget == IF config.continuous THEN config.max_cycles + 1 ELSE 1

CyclesWithinBudget ==
    (~config.continuous \/ config.max_cycles > 0)
        => totalCollections + errorCount <= CycleBudget

\* After running_ is cleared the collector begins at most one more collection,
\* wherever the two threads were when stop() came.
AtMostOneLateCycle == lateCycles <= 1

\* Why LostConnectionRedialled (below) fails: the block of start() that drops the
\* client in order to reconnect is never entered, because the run it follows only
\* ever ends with running_ cleared or collector_end_ set.
ReconnectBlockUnreachable == colPc = "tail" => ~(running /\ ~collectorEnd)

\* Whatever stop() and the collector thread did to each other, a process that
\* returns from main holds no monitor and no port, and no connection but one for
\* which it has called MQDISC in vain ("refused"): what stop() misses (a connect
\* that finishes after its disconnect, a monitor made after its reset) the
\* destructors release.
NothingHeldAtExit ==
    mainPc = "exit" =>
        hconn # "live" /\ resourceMonitor = "none" /\ http = "down"

\* A signal ends the process, if the main thread still polls and the collector
\* has declared itself running.
SignalHonouredWhileRunning ==
    (shutdownRequested /\ running /\ mainPc = "poll") ~> Terminated

\* With keep_running, a collector that has never reached the queue manager
\* dials it again and again until it is stopped.
FirstConnectRetried ==
    (config.keep_running /\ running /\ ~connectedOnce)
        ~> (colPc = "connect" \/ ~running \/ Terminated)

\* A run with max_cycles that has connected ends by itself.
BoundedRunEnds ==
    (colPc = "run" /\ config.continuous /\ config.max_cycles > 0) ~> Terminated

-----------------------------------------------------------------------------
(* What comments and documents say, and the code does not do.              *)

\* "Received signal, shutting down": every signal ends the process.
SignalAlwaysHonoured == shutdownRequested ~> Terminated

\* stop() is a "graceful stop (thread-safe)".
StopIsThreadSafe == ~UseAfterDestroy

\* "Reconnection: survives queue manager restarts": a collector that runs and whose
\* client has seen its connection break dials again, unless it is stopped.
LostConnectionRedialled ==
    (config.keep_running /\ running /\ mainPc = "poll" /\ connectedOnce /\ ~connected)
        ~> (colPc = "connect" \/ ~running \/ mainPc # "poll")
=============================================================================
