------------------------------ MODULE MQClient ------------------------------
(***************************************************************************)
(* The MQI handles of class MQClient (src/src/mqclient.cpp): which objects *)
(* the exporter has open at the queue manager, and which of them it still  *)
(* knows of, when every MQI call may fail and the connection may break     *)
(* between any two calls.                                                  *)
(*                                                                         *)
(* The methods are called by one thread.  A method is one step for each    *)
(* MQI call after which something is left to release; the calls that       *)
(* release (MQCLOSE) are part of the last step.  Names, options and        *)
(* message contents are left out, so are replies to PCF commands, which    *)
(* module PcfCommand has.                                                  *)
(*                                                                         *)
(* The queue manager is external: it keeps the open objects of the         *)
(* connection and frees them when the connection ends.  The dynamic queues *)
(* come from a model queue of temporary queues, which live as long as the  *)
(* handle that created them.                                               *)
(***************************************************************************)
EXTENDS Integers, FiniteSets

CONSTANTS
    Handles,     \* object handles the queue manager can give (MQHOBJ)
    NoHandle,    \* the value 0
    MaxRefused   \* bound: how many MQCLOSE calls are refused on a live connection

ASSUME HandlesAssumption == NoHandle \notin Handles
ASSUME MaxRefusedAssumption == MaxRefused \in Nat

VARIABLES
    connected,      \* connected_
    statsQueue,     \* stats_queue_ if stats_open_, else NoHandle
    acctQueue,      \* acct_queue_ if acct_open_, else NoHandle
    subscriptions,  \* subscriptions_: [hobj, hsub]
    dataSubs,       \* ResourceMonitor::data_subs_: [hobj, hsub]
    method,         \* the method in progress and the call it is at
    hobj, hsub,     \* its local handles
    hconn,          \* the connection at the queue manager
    opened,         \* the open objects of the connection, by handle
    destination,    \* the queue a subscription delivers to
    refused         \* history: handles whose MQCLOSE was refused

kept   == <<statsQueue, acctQueue, subscriptions, dataSubs>>
locals == <<method, hobj, hsub>>
broker == <<opened, destination, refused>>
vars   == <<connected, kept, locals, hconn, broker>>

Kinds   == {"free", "queue", "dynamic", "sub"}
Pairs   == [hobj: Handles, hsub: Handles]
Subscribers == {"subscribe_to_topic", "create_subscription",
                "subscribe_and_get"}
Methods == {"idle", "platform", "inquire", "pcf_reply_open", "pcf_both_open", "pcf_sent",
            "retained"} \cup Subscribers

TypeOK ==
    /\ connected \in BOOLEAN
    /\ statsQueue \in Handles \cup {NoHandle}
    /\ acctQueue \in Handles \cup {NoHandle}
    /\ subscriptions \subseteq Pairs /\ dataSubs \subseteq Pairs
    /\ method \in Methods
    /\ hobj \in Handles \cup {NoHandle} /\ hsub \in Handles \cup {NoHandle}
    /\ hconn \in {"none", "live", "dead", "refused"}
    /\ opened \in [Handles -> Kinds]
    /\ destination \in [Handles -> Handles \cup {NoHandle}]
    /\ refused \subseteq Handles

Init ==
    /\ connected = FALSE
    /\ statsQueue = NoHandle /\ acctQueue = NoHandle
    /\ subscriptions = {} /\ dataSubs = {}
    /\ method = "idle" /\ hobj = NoHandle /\ hsub = NoHandle
    /\ hconn = "none"
    /\ opened = [h \in Handles |-> "free"]
    /\ destination = [h \in Handles |-> NoHandle]
    /\ refused = {}

-----------------------------------------------------------------------------
(* The queue manager.                                                      *)

Open == {h \in Handles : opened[h] # "free"}

\* MQOPEN and MQSUB give a handle that is not in use.
Opens(h, kind) ==
    /\ hconn = "live" /\ h \notin Open
    /\ opened' = [opened EXCEPT ![h] = kind]
    /\ UNCHANGED <<destination, refused>>

\* MQCLOSE of the handles hs.  On a live connection each may be refused, and
\* then stays open; without one the objects are gone already.
Closes(hs) ==
    \E stuck \in SUBSET (hs \cap Open) :
      /\ Cardinality(refused \cup stuck) <= MaxRefused
      /\ opened' = [h \in Handles |->
                      IF h \in hs \ stuck THEN "free" ELSE opened[h]]
      /\ refused' = refused \cup stuck
      /\ UNCHANGED destination

\* The connection ends: the queue manager frees every object.
FreesAll ==
    /\ opened' = [h \in Handles |-> "free"]
    /\ destination' = [h \in Handles |-> NoHandle]
    /\ refused' = {}

ConnectionBreaks ==
    /\ hconn \in {"live", "refused"}
    /\ hconn' = "dead" /\ FreesAll
    /\ UNCHANGED <<connected, kept, locals>>

-----------------------------------------------------------------------------
(* connect() and the administrative queues.                                *)

Idle == method = "idle"
Return == method' = "idle" /\ hobj' = NoHandle /\ hsub' = NoHandle

HoldsNothing ==
    /\ statsQueue = NoHandle /\ acctQueue = NoHandle
    /\ subscriptions = {} /\ dataSubs = {}

\* MQCONNX succeeds.  The collector connects a client that holds nothing: a new
\* one, or one that has disconnected.  A connection left over by a refused MQDISC
\* is not followed any further: hconn_ is that of the new one.
Connect ==
    /\ Idle /\ ~connected /\ HoldsNothing
    /\ connected' = TRUE /\ hconn' = "live"
    /\ method' = "platform"
    /\ FreesAll
    /\ UNCHANGED <<kept, hobj, hsub>>

\* detect_platform(), the end of connect(): the queue manager object is opened,
\* inquired and closed.  Nothing remains, unless the MQCLOSE is refused.
DetectPlatform ==
    /\ method = "platform"
    /\ \/ UNCHANGED broker
       \/ /\ hconn = "live" /\ Cardinality(refused) < MaxRefused
          /\ \E h \in Handles \ Open :
               /\ opened' = [opened EXCEPT ![h] = "queue"]
               /\ refused' = refused \cup {h}
          /\ UNCHANGED destination
    /\ Return
    /\ UNCHANGED <<connected, kept, hconn>>

\* open_stats_queue(): called once for each connection.
OpenStatsQueue ==
    /\ Idle /\ connected /\ statsQueue = NoHandle
    /\ \E h \in Handles : Opens(h, "queue") /\ statsQueue' = h
    /\ UNCHANGED <<connected, acctQueue, subscriptions, dataSubs, locals, hconn>>

OpenAccountingQueue ==
    /\ Idle /\ connected /\ acctQueue = NoHandle
    /\ \E h \in Handles : Opens(h, "queue") /\ acctQueue' = h
    /\ UNCHANGED <<connected, statsQueue, subscriptions, dataSubs, locals,
                   hconn>>

\* get_message() with reason 2009: the only place that notices the loss.
GetMessageBroken ==
    /\ Idle /\ connected /\ hconn = "dead"
    /\ statsQueue # NoHandle \/ acctQueue # NoHandle
    /\ connected' = FALSE
    /\ UNCHANGED <<kept, locals, hconn, broker>>

-----------------------------------------------------------------------------
(* get_queue_stats(), get_queue_info(), get_queue_handles().               *)

InquireOpens ==
    /\ Idle /\ connected
    /\ \E h \in Handles : Opens(h, "queue") /\ hobj' = h
    /\ method' = "inquire"
    /\ UNCHANGED <<connected, kept, hsub, hconn>>

\* Mutant: the handle is not closed when MQINQ fails.
InquireLeaks ==
    /\ method = "inquire"
    /\ Closes({hobj}) \/ UNCHANGED broker
    /\ Return
    /\ UNCHANGED <<connected, kept, hconn>>

\* MQINQ, with any result, then close_queue().
InquireReturns ==
    /\ method = "inquire"
    /\ Closes({hobj})
    /\ Return
    /\ UNCHANGED <<connected, kept, hconn>>

-----------------------------------------------------------------------------
(* send_pcf_command().                                                     *)

\* The dynamic reply queue.
PcfOpensReply ==
    /\ Idle /\ connected
    /\ \E h \in Handles : Opens(h, "dynamic") /\ hobj' = h
    /\ method' = "pcf_reply_open"
    /\ UNCHANGED <<connected, kept, hsub, hconn>>

PcfOpensCommand ==
    /\ method = "pcf_reply_open"
    /\ \E h \in Handles : Opens(h, "queue") /\ hsub' = h
    /\ method' = "pcf_both_open"
    /\ UNCHANGED <<connected, kept, hobj, hconn>>

\* MQPUT, then the command queue is closed, whatever the result.
PcfPuts ==
    /\ method = "pcf_both_open"
    /\ Closes({hsub})
    /\ method' = "pcf_sent" /\ hsub' = NoHandle
    /\ UNCHANGED <<connected, kept, hobj, hconn>>

\* The reply queue is deleted on every way out: an unexpected name, no command
\* queue, a failed put, the last reply, a failed get.
PcfReturns ==
    /\ method \in {"pcf_reply_open", "pcf_sent"}
    /\ Closes({hobj})
    /\ Return
    /\ UNCHANGED <<connected, kept, hconn>>

-----------------------------------------------------------------------------
(* Subscriptions, each with a dynamic queue of its own.                    *)

SubscriberOpensQueue ==
    /\ Idle /\ connected
    /\ method' \in Subscribers
    /\ \E h \in Handles : Opens(h, "dynamic") /\ hobj' = h
    /\ UNCHANGED <<connected, kept, hsub, hconn>>

\* MQSUB succeeds; h is the subscription.
Subscribes(h) ==
    /\ hconn = "live" /\ h \notin Open
    /\ opened' = [opened EXCEPT ![h] = "sub"]
    /\ destination' = [destination EXCEPT ![h] = hobj]
    /\ UNCHANGED refused

Pair(h) == [hobj |-> hobj, hsub |-> h]

\* Mutant: the subscription is kept without its queue.
SubscribeForgetsQueue ==
    /\ method = "subscribe_to_topic"
    /\ \E h \in Handles :
         /\ Subscribes(h)
         /\ subscriptions' = subscriptions \cup {[Pair(h) EXCEPT !.hobj = NoHandle]}
    /\ Return
    /\ UNCHANGED <<connected, statsQueue, acctQueue, dataSubs, hconn>>

SubscribeToTopic ==
    /\ method = "subscribe_to_topic"
    /\ \E h \in Handles :
         Subscribes(h) /\ subscriptions' = subscriptions \cup {Pair(h)}
    /\ Return
    /\ UNCHANGED <<connected, statsQueue, acctQueue, dataSubs, hconn>>

\* Mutant: the pair is kept without its subscription handle.
CreateForgetsSub ==
    /\ method = "create_subscription"
    /\ \E h \in Handles : Subscribes(h)
    /\ dataSubs' = dataSubs \cup {Pair(hobj)}
    /\ Return
    /\ UNCHANGED <<connected, statsQueue, acctQueue, subscriptions, hconn>>

\* The caller, ResourceMonitor::create_subscriptions(), keeps the pair.
CreateSubscription ==
    /\ method = "create_subscription"
    /\ \E h \in Handles : Subscribes(h) /\ dataSubs' = dataSubs \cup {Pair(h)}
    /\ Return
    /\ UNCHANGED <<connected, statsQueue, acctQueue, subscriptions, hconn>>

SubscribeAndGet ==
    /\ method = "subscribe_and_get"
    /\ \E h \in Handles : Subscribes(h) /\ hsub' = h
    /\ method' = "retained"
    /\ UNCHANGED <<connected, kept, hobj, hconn>>

\* MQSUB fails: the queue is deleted.
SubscribeFails ==
    /\ method \in Subscribers
    /\ Closes({hobj})
    /\ Return
    /\ UNCHANGED <<connected, kept, hconn>>

\* Mutant: the queue is deleted before the subscription is removed.
RemovesQueueFirst ==
    /\ method = "retained"
    /\ Closes({hobj})
    /\ method' = "retained" /\ hobj' = NoHandle
    /\ UNCHANGED <<connected, kept, hsub, hconn>>

\* MQGET on the queue, with any result; then the subscription is removed ...
RetainedRemovesSub ==
    /\ method = "retained" /\ hsub # NoHandle
    /\ Closes({hsub})
    /\ hsub' = NoHandle
    /\ UNCHANGED <<connected, kept, method, hobj, hconn>>

\* ... and the queue deleted.
RetainedDeletesQueue ==
    /\ method = "retained" /\ hsub = NoHandle
    /\ Closes({hobj})
    /\ Return
    /\ UNCHANGED <<connected, kept, hconn>>

\* ResourceMonitor::close() calls close_subscription() for each pair, whether
\* or not the client is connected: first the subscription, then the queue, and
\* both handles are forgotten even if MQCLOSE was refused.
CloseDataSubscriptions ==
    /\ Idle /\ dataSubs # {}
    /\ Closes({p.hsub : p \in dataSubs} \cup {p.hobj : p \in dataSubs})
    /\ dataSubs' = {}
    /\ UNCHANGED <<connected, statsQueue, acctQueue, subscriptions, locals,
                   hconn>>

HandlesOf(pairs) == {p.hobj : p \in pairs} \cup {p.hsub : p \in pairs}

\* The handles that disconnect() closes: unsubscribe_all() and the two queues.
Administered == ({statsQueue, acctQueue} \ {NoHandle}) \cup HandlesOf(subscriptions)

\* Mutant: MQDISC alone, the queues and the subscriptions are left to it.
DiscOnly ==
    \/ hconn' = "none" /\ FreesAll
    \/ hconn = "live" /\ hconn' = "refused" /\ UNCHANGED broker

\* The objects are closed and MQDISC called.  It ends the connection, and with it
\* every object, or it fails: that is logged, and the connection stays with the
\* objects whose MQCLOSE was refused.
Disc ==
    \/ hconn' = "none" /\ FreesAll
    \/ hconn = "live" /\ hconn' = "refused" /\ Closes(Administered)

\* disconnect(), called after ResourceMonitor::close().  A client that is not
\* connected and holds nothing returns; otherwise it takes itself for
\* disconnected afterwards, whatever MQDISC said.
Disconnect ==
    /\ Idle /\ dataSubs = {}
    /\ connected \/ ~HoldsNothing
    /\ connected' = FALSE
    /\ statsQueue' = NoHandle /\ acctQueue' = NoHandle /\ subscriptions' = {}
    /\ Disc
    /\ UNCHANGED <<dataSubs, locals>>

Administration == \/ Connect \/ DetectPlatform \/ OpenStatsQueue
                  \/ OpenAccountingQueue \/ GetMessageBroken \/ Disconnect

Inquiry == \/ InquireOpens \/ InquireReturns
           \/ PcfOpensReply \/ PcfOpensCommand \/ PcfPuts \/ PcfReturns

Subscription ==
    \/ SubscriberOpensQueue \/ SubscribeToTopic \/ CreateSubscription
    \/ SubscribeAndGet \/ SubscribeFails \/ RetainedRemovesSub
    \/ RetainedDeletesQueue \/ CloseDataSubscriptions

Next == Administration \/ Inquiry \/ Subscription \/ ConnectionBreaks

Spec == Init /\ [][Next]_vars

-----------------------------------------------------------------------------
(* Properties.                                                             *)

Known == ({statsQueue, acctQueue, hobj, hsub} \ {NoHandle})
            \cup HandlesOf(subscriptions) \cup HandlesOf(dataSubs)

\* "Queue leak prevention": on a live connection every object that is open is
\* one the client still knows, or one whose MQCLOSE was refused.  No way out of
\* a method drops a handle.
NothingLeaks == hconn = "live" => Open \subseteq Known \cup refused

\* Each pair that is kept is a subscription and the dynamic queue it delivers to.
PairsAgree ==
    \A p \in subscriptions \cup dataSubs :
      /\ opened[p.hobj] = "dynamic" /\ opened[p.hsub] = "sub"
      /\ destination[p.hsub] = p.hobj

\* No two pairs share a handle, and no pair is kept twice.
PairsDiffer ==
    /\ \A p, q \in subscriptions \cup dataSubs :
         p.hobj = q.hobj \/ p.hsub = q.hsub => p = q
    /\ subscriptions \cap dataSubs = {}

\* The administrative queues are two, and open.
QueuesAgree ==
    /\ \A q \in {statsQueue, acctQueue} \ {NoHandle} : opened[q] = "queue"
    /\ statsQueue = acctQueue => statsQueue = NoHandle

\* What the client knows is what it thinks it is: no kept handle was closed by
\* another method, given away again, or stored twice.
OwnersAgree ==
    hconn = "live" =>
        /\ PairsAgree /\ PairsDiffer /\ QueuesAgree
        /\ {statsQueue, acctQueue, hobj, hsub} \cap refused = {}

\* "Remove the subscription first (stops new publications arriving)": a live
\* subscription never loses its queue, unless its removal was refused.
SubscriptionKeepsItsQueue ==
    \A h \in Handles : opened[h] = "sub" /\ h \notin refused =>
        opened[destination[h]] = "dynamic"

\* disconnect() returns at once when the client believes that it neither is
\* connected nor holds anything.  Then there is no connection but one whose MQDISC
\* was tried and refused ("refused"), and nothing is open on that but objects
\* whose MQCLOSE was tried and refused: nothing is left that was not tried.
EarlyReturnIsSafe ==
    ~connected /\ HoldsNothing => hconn # "live" /\ Open \subseteq refused
=============================================================================
