----------------------------- MODULE Collection -----------------------------
(***************************************************************************)
(* One collection after the other: MetricsCollector::collect_metrics       *)
(* (src/src/metrics_collector.cpp), the sources it reads and the gauges it *)
(* sets, while queues, messages and the connection change under it.        *)
(*                                                                         *)
(* The sources are the statistics and accounting queues, whose messages    *)
(* are removed when they are read; the inquiries about single queues; and  *)
(* the PCF status inquiries.  A gauge that is never set has the value      *)
(* NoSeries, and no series is ever removed.  One application stands for    *)
(* all: its MQI gauge "opens" is set by statistics messages and added to   *)
(* by accounting messages, which put the same labels on it.                *)
(*                                                                         *)
(* What is left out: the many gauges that are set together with those      *)
(* below from the same answer, and the texts of labels, save those that    *)
(* tell one series from another.  Publications have module Publications.   *)
(***************************************************************************)
EXTENDS Integers, Sequences, FiniteSets

CONSTANTS
    Configs,      \* configurations, see ConfigType
    Queues,       \* the local queues
    Application,  \* what a statistics message is about that is about no queue
    Matched,      \* those a pattern of monitored_queues matches (one that begins
                  \* with '!' is passed over, and matches nothing here)
    Excluded,     \* those a pattern of queue_exclusion_patterns matches
    SystemQueues, \* SYSTEM.ADMIN.STATISTICS.QUEUE, SYSTEM.ADMIN.ACCOUNTING.QUEUE
    NoSeries,
    MaxValue,     \* bound: depths and handle counts
    MaxWaiting,   \* bound: statistics messages on their queue
    MaxAccounting \* bound: accounting messages ever written

ConfigType ==
    [monitored_queues: BOOLEAN,    \* the list is not empty
     monitor_all_queues: BOOLEAN,
     use_status: BOOLEAN,
     zos: BOOLEAN,                 \* the platform of the queue manager
     description: {"", "text"},    \* DESCR of the queue manager
     labels_valid: BOOLEAN]        \* the metadata tags are label names

ASSUME ConfigsAssumption == Configs \subseteq ConfigType
ASSUME QueuesAssumption ==
    /\ Application \notin Queues
    /\ Matched \subseteq Queues
    /\ Excluded \subseteq Queues /\ SystemQueues \subseteq Queues
    /\ IsFiniteSet(Queues)
ASSUME BoundsAssumption ==
    /\ MaxValue \in Nat /\ MaxWaiting \in Nat /\ MaxAccounting \in Nat
    /\ NoSeries \notin 0 .. MaxValue

VARIABLES
    config,
    pc, section,         \* where the collection is
    statsMsgs, acctMsgs, \* stats_msgs and the number of acct_msgs
    cachedQueues,        \* cached_queues_
    connected,           \* MQClient::connected_
    depthGauge,          \* queue_depth_, by queue
    inputGauge,          \* queue_input_handles_, the series of the queue
    online,              \* the queues with a series of queue_oldest_msg_age_
    qmgrStatus,          \* qmgr_status_, by label description
    opens,               \* mqi_metrics_["opens"] of the application
    overwritten,         \* history: a statistics message has set opens
    lost,                \* history: accounting messages thrown away
    stamped,             \* history: this collection has set the timestamp
    attempted,           \* history: sections this collection has begun
    depthRead,           \* history: what the inquiries of this collection read
    hconn,               \* the connection is alive (external)
    statsQueue,          \* messages on the statistics queue: [about, value]
    acctQueue,           \* number of messages on the accounting queue
    acctMade             \* history: accounting messages ever written

batch   == <<statsMsgs, acctMsgs, cachedQueues>>
gauges  == <<depthGauge, inputGauge, online, qmgrStatus, opens, overwritten>>
history == <<lost, stamped, attempted, depthRead>>
qmgr    == <<hconn, statsQueue, acctQueue, acctMade>>
vars    == <<config, pc, section, batch, connected, gauges, history, qmgr>>

Values  == 0 .. MaxValue
Series  == Values \cup {NoSeries}
Message == [about: Queues \cup {Application}, value: Values]

-----------------------------------------------------------------------------
\* Mutant: the messages are applied after the inquiries.
OrderMessagesLast ==
    <<"stats", "acct", "queues", "queue_metrics", "handles", "messages",
      "status", "publications", "baseline", "idle">>

Order ==
    <<"stats", "acct", "messages", "queues", "queue_metrics", "handles",
      "status", "publications", "baseline", "idle">>

\* The PCF status inquiries; the last for z/OS only.
Sections == <<"qmgr", "channel", "topic", "sub", "cluster", "queue_online",
              "usage">>

LastSection == IF config.zos THEN 7 ELSE 6

Steps == {Order[i] : i \in DOMAIN Order}

TypeOK ==
    /\ config \in Configs
    /\ pc \in Steps /\ section \in 1 .. 7
    /\ statsMsgs \in Seq(Message) /\ acctMsgs \in 0 .. MaxAccounting
    /\ cachedQueues \subseteq Queues
    /\ connected \in BOOLEAN
    /\ depthGauge \in [Queues -> Series] /\ inputGauge \in [Queues -> Series]
    /\ qmgrStatus \in [{"", "text"} -> {"none", "unavailable", "running"}]
    /\ online \subseteq Queues
    /\ opens \in 0 .. MaxValue + MaxAccounting /\ overwritten \in BOOLEAN
    /\ lost \in Nat
    /\ stamped \in BOOLEAN
    /\ attempted \subseteq {Sections[i] : i \in 1 .. 7}
    /\ depthRead \in [Queues -> Series]
    /\ hconn \in BOOLEAN
    /\ statsQueue \in Seq(Message) /\ acctQueue \in 0 .. MaxAccounting
    /\ acctMade \in 0 .. MaxAccounting

Nothing == [q \in Queues |-> NoSeries]

Init ==
    /\ config \in Configs
    /\ pc = "idle" /\ section = 1
    /\ statsMsgs = <<>> /\ acctMsgs = 0 /\ cachedQueues = {}
    /\ connected = TRUE
    /\ depthGauge = Nothing /\ inputGauge = Nothing
    /\ qmgrStatus = [d \in {"", "text"} |-> "none"]
    /\ online = {}
    /\ opens = 0 /\ overwritten = FALSE /\ lost = 0
    /\ stamped = FALSE /\ attempted = {} /\ depthRead = Nothing
    /\ hconn = TRUE
    /\ statsQueue = <<>> /\ acctQueue = 0 /\ acctMade = 0

\* From one step of collect_metrics() to the next.
Advance ==
    \E i \in DOMAIN Order :
        Order[i] = pc /\ pc' = Order[i + 1] /\ UNCHANGED <<config, section>>

-----------------------------------------------------------------------------
(* Messages.                                                               *)

Begin ==
    /\ pc = "idle" /\ pc' = "stats"
    /\ stamped' = FALSE /\ attempted' = {} /\ depthRead' = Nothing
    /\ UNCHANGED <<config, section, batch, connected, gauges, lost, qmgr>>

\* get_all_messages("stats") reads to the end of the queue.
DrainStats ==
    /\ pc = "stats" /\ Advance
    /\ hconn
    /\ statsMsgs' = statsQueue /\ statsQueue' = <<>>
    /\ UNCHANGED <<acctMsgs, cachedQueues, connected, gauges, history, hconn,
                   acctQueue, acctMade>>

\* The queue is not open, or MQGET fails after k messages: collect_messages()
\* gives an empty batch, and the k messages are gone.  A dead connection is
\* noticed here.
DrainStatsFails ==
    /\ pc = "stats" /\ Advance
    /\ \E k \in 0 .. Len(statsQueue) :
         /\ k > 0 => hconn
         /\ statsQueue' = SubSeq(statsQueue, k + 1, Len(statsQueue))
    /\ connected' \in IF hconn THEN {connected} ELSE {connected, FALSE}
    /\ statsMsgs' = <<>>
    /\ UNCHANGED <<acctMsgs, cachedQueues, gauges, history, hconn, acctQueue,
                   acctMade>>

DrainAccounting ==
    /\ pc = "acct" /\ Advance
    /\ hconn
    /\ acctMsgs' = acctQueue /\ acctQueue' = 0
    /\ UNCHANGED <<statsMsgs, cachedQueues, connected, gauges, history, hconn,
                   statsQueue, acctMade>>

DrainAccountingFails ==
    /\ pc = "acct" /\ Advance
    /\ \E k \in 0 .. acctQueue :
         /\ k > 0 => hconn
         /\ acctQueue' = acctQueue - k /\ lost' = lost + k
    /\ connected' \in IF hconn THEN {connected} ELSE {connected, FALSE}
    /\ acctMsgs' = 0
    /\ UNCHANGED <<statsMsgs, cachedQueues, gauges, stamped, attempted, depthRead,
                   hconn, statsQueue, acctMade>>

\* What the last statistics message about x reports; without one, what is shown.
About(x) == {i \in DOMAIN statsMsgs : statsMsgs[i].about = x}

Reported(x, shown) ==
    IF About(x) = {} THEN shown
    ELSE statsMsgs[CHOOSE i \in About(x) : \A j \in About(x) : j <= i].value

\* Mutant: an accounting message sets the gauge, as a statistics message does.
ApplySets ==
    /\ pc = "messages" /\ config.labels_valid /\ Advance
    /\ depthGauge' = [q \in Queues |-> Reported(q, depthGauge[q])]
    /\ opens' = IF acctMsgs > 0 THEN 1 ELSE Reported(Application, opens)
    /\ overwritten' = (overwritten \/ About(Application) # {})
    /\ statsMsgs' = <<>> /\ acctMsgs' = 0
    /\ UNCHANGED <<cachedQueues, connected, inputGauge, online, qmgrStatus, history,
                   qmgr>>

\* Mutant: both handlers count an accounting message.
ApplyCountsTwice ==
    /\ pc = "messages" /\ config.labels_valid /\ Advance
    /\ depthGauge' = [q \in Queues |-> Reported(q, depthGauge[q])]
    /\ opens' = Reported(Application, opens) + 2 * acctMsgs
    /\ overwritten' = (overwritten \/ About(Application) # {})
    /\ statsMsgs' = <<>> /\ acctMsgs' = 0
    /\ UNCHANGED <<cachedQueues, connected, inputGauge, online, qmgrStatus, history,
                   qmgr>>

\* update_metrics_from_messages(): the statistics messages first, which set the
\* depth of their queue or the counts of their application; then the accounting
\* messages, each of which adds to the counts of its application.
ApplyMessages ==
    /\ pc = "messages" /\ config.labels_valid /\ Advance
    /\ depthGauge' = [q \in Queues |-> Reported(q, depthGauge[q])]
    /\ opens' = Reported(Application, opens) + acctMsgs
    /\ overwritten' = (overwritten \/ About(Application) # {})
    /\ statsMsgs' = <<>> /\ acctMsgs' = 0
    /\ UNCHANGED <<cachedQueues, connected, inputGauge, online, qmgrStatus, history,
                   qmgr>>

\* The registry refuses a label name: the exception leaves collect_metrics(),
\* and the batches are gone.
ApplyThrows ==
    /\ pc = "messages" /\ ~config.labels_valid
    /\ pc' = "idle"
    /\ statsMsgs' = <<>> /\ acctMsgs' = 0 /\ lost' = lost + acctMsgs
    /\ UNCHANGED <<config, section, cachedQueues, connected, gauges, stamped,
                   attempted, depthRead, qmgr>>

-----------------------------------------------------------------------------
(* Queues.                                                                 *)

\* discover_queues() finds all that a pattern matches, or a part of it when the
\* replies break off, or nothing.
Found(pattern) == IF connected /\ hconn THEN SUBSET pattern ELSE {{}}

\* get_queues_to_monitor(): the patterns, without those that begin with '!';
\* if they find nothing, all queues; if that finds nothing, two system queues.
QueuesToMonitor ==
    /\ pc = "queues" /\ Advance
    /\ IF ~config.monitor_all_queues /\ ~config.monitored_queues
         THEN cachedQueues' = {}
         ELSE \E matched \in IF config.monitored_queues THEN Found(Matched) ELSE {{}},
                 all \in Found(Queues) :
                cachedQueues' = IF matched # {} THEN matched \ Excluded
                                ELSE IF all # {} THEN all \ Excluded
                                ELSE SystemQueues
    /\ UNCHANGED <<statsMsgs, acctMsgs, connected, gauges, history, qmgr>>

\* What get_queue_info() reads for the queues of the list: the inquiry of each
\* queue may fail, and the queue may hold anything by then.
Readings ==
    IF connected /\ hconn
      THEN {r \in [Queues -> Series] : \A q \in Queues \ cachedQueues : r[q] = NoSeries}
      ELSE {Nothing}

\* collect_and_update_queue_metrics()
QueueMetrics ==
    /\ pc = "queue_metrics" /\ Advance
    /\ depthRead' \in Readings
    /\ depthGauge' = [q \in Queues |-> IF depthRead'[q] # NoSeries
                                         THEN depthRead'[q] ELSE depthGauge[q]]
    /\ UNCHANGED <<batch, connected, inputGauge, online, qmgrStatus, opens,
                   overwritten, lost, stamped, attempted, qmgr>>

\* collect_and_update_handle_metrics(): a count of 0 sets nothing.
HandleMetrics ==
    /\ pc = "handles" /\ Advance
    /\ \E r \in Readings :
         inputGauge' = [q \in Queues |-> IF r[q] \notin {NoSeries, 0}
                                           THEN r[q] ELSE inputGauge[q]]
    /\ UNCHANGED <<batch, connected, depthGauge, online, qmgrStatus, opens,
                   overwritten, history, qmgr>>

-----------------------------------------------------------------------------
(* Status inquiries.                                                       *)

SkipStatus ==
    /\ pc = "status" /\ section = 1 /\ ~(config.use_status /\ connected)
    /\ Advance
    /\ UNCHANGED <<batch, connected, gauges, history, qmgr>>

\* Mutant: a section that throws ends the status collection.
NextSectionIfOk ==
    \/ /\ section < LastSection /\ section' = section + 1 /\ UNCHANGED <<pc, config>>
    \/ section' = 1 /\ pc' = "publications" /\ UNCHANGED config

\* Each section is in a try block of its own.
NextSection ==
    /\ section' = IF section < LastSection THEN section + 1 ELSE 1
    /\ pc' = IF section < LastSection THEN pc ELSE "publications"
    /\ UNCHANGED config

InStatus ==
    /\ pc = "status" /\ config.use_status /\ connected
    /\ NextSection
    /\ attempted' = attempted \cup {Sections[section]}

\* collect_qmgr_status(): without an answer the status is 0, on the series
\* without a description.
QmgrStatus ==
    /\ InStatus /\ section = 1
    /\ \/ /\ hconn
          /\ qmgrStatus' = [qmgrStatus EXCEPT ![config.description] = "running"]
       \/ qmgrStatus' = [qmgrStatus EXCEPT ![""] = "unavailable"]
    /\ UNCHANGED <<batch, connected, depthGauge, inputGauge, online, opens,
                   overwritten, lost, stamped, depthRead, qmgr>>

\* The queues that a status inquiry for the pattern "*" answers for.
Answered == IF hconn THEN SUBSET Queues ELSE {{}}

\* Mutant: the series are not restricted to the monitored queues.
QueueOnlineOfAll ==
    /\ InStatus /\ section = 6
    /\ \E qs \in Answered : online' = online \cup qs
    /\ UNCHANGED <<batch, connected, depthGauge, inputGauge, qmgrStatus, opens,
                   overwritten, lost, stamped, depthRead, qmgr>>

\* collect_queue_online_status(): all queues are inquired about, and those on the
\* list of this collection get their series.
QueueOnlineStatus ==
    /\ InStatus /\ section = 6
    /\ \E qs \in Answered : online' = online \cup (qs \cap cachedQueues)
    /\ UNCHANGED <<batch, connected, depthGauge, inputGauge, qmgrStatus, opens,
                   overwritten, lost, stamped, depthRead, qmgr>>

\* The other sections; each may be answered, be left without an answer, or throw.
OtherStatus ==
    /\ InStatus /\ section \notin {1, 6}
    /\ UNCHANGED <<batch, connected, gauges, lost, stamped, depthRead, qmgr>>

Publications ==
    /\ pc = "publications" /\ Advance
    /\ UNCHANGED <<batch, connected, gauges, history, qmgr>>

\* cached_queues_.clear(); set_baseline_metrics()
Baseline ==
    /\ pc = "baseline" /\ Advance
    /\ cachedQueues' = {} /\ stamped' = TRUE
    /\ UNCHANGED <<statsMsgs, acctMsgs, connected, gauges, lost, attempted, depthRead,
                   qmgr>>

CollectMetrics ==
    \/ Begin \/ DrainStats \/ DrainStatsFails \/ DrainAccounting
    \/ DrainAccountingFails \/ ApplyMessages \/ ApplyThrows \/ QueuesToMonitor
    \/ QueueMetrics \/ HandleMetrics \/ SkipStatus \/ QmgrStatus
    \/ QueueOnlineStatus \/ OtherStatus \/ Publications \/ Baseline

-----------------------------------------------------------------------------
(* The queue manager.                                                      *)

collector == <<config, pc, section, batch, connected, gauges, history>>

\* A statistics message about a queue or about the application.  The model has the
\* messages that carry the name of the configured queue manager.
WritesStatistics ==
    /\ Len(statsQueue) < MaxWaiting
    /\ \E m \in Message : statsQueue' = Append(statsQueue, m)
    /\ UNCHANGED <<collector, hconn, acctQueue, acctMade>>

WritesAccounting ==
    /\ acctMade < MaxAccounting /\ acctMade' = acctMade + 1
    /\ acctQueue' = acctQueue + 1
    /\ UNCHANGED <<collector, hconn, statsQueue>>

ConnectionBreaks ==
    /\ hconn /\ hconn' = FALSE
    /\ UNCHANGED <<collector, statsQueue, acctQueue, acctMade>>

QueueManager == WritesStatistics \/ WritesAccounting \/ ConnectionBreaks

Next == CollectMetrics \/ QueueManager

Spec == Init /\ [][Next]_vars

-----------------------------------------------------------------------------
(* Properties.                                                             *)

\* Each accounting message that the queue manager wrote is in one place: on the
\* queue, in the batch, in the gauge, or among those thrown away by a drain that
\* failed behind it or by the exception of ApplyThrows.  None is counted twice and
\* none vanishes elsewhere.  A statistics message that sets the gauge discards what was
\* counted; from then on the gauge exceeds what was written by no more than was set.
AccountingBalances ==
    /\ acctMsgs + acctQueue + lost <= acctMade
    /\ opens + acctMsgs + acctQueue + lost <= acctMade + MaxValue
    /\ ~overwritten => opens + acctMsgs + acctQueue + lost = acctMade

\* A statistics message is older than the inquiry of the same collection; the
\* depth that a collection leaves behind is the one it inquired.
InquiryBeatsMessage ==
    pc = "baseline" =>
        \A q \in Queues : depthRead[q] # NoSeries => depthGauge[q] = depthRead[q]

\* "each wrapped so one failure doesn't block others"
EverySectionIsTried ==
    (pc = "baseline" /\ config.use_status /\ connected) =>
        attempted = {Sections[i] : i \in 1 .. LastSection}

\* No inquiry ever gives a queue a series that a pattern of
\* queue_exclusion_patterns matches, save the two system queues of the last resort:
\* not with the patterns, not with either fallback, and not with the status inquiry
\* that asks for all queues.  (Statistics messages are not restricted, and a pattern
\* of monitored_queues that begins with '!' excludes nothing, against README.md:342.)
ExcludedNotShown ==
    \A q \in Excluded \ SystemQueues :
        inputGauge[q] = NoSeries /\ depthRead[q] = NoSeries /\ q \notin online

-----------------------------------------------------------------------------
(* What a document says, and the code does not do.                         *)

\* README: "reports qmgr_status=0 while disconnected".
ReportsDisconnection ==
    (pc = "idle" /\ stamped /\ ~connected /\ config.use_status)
        => \A d \in {"", "text"} : qmgrStatus[d] # "running"
=============================================================================
