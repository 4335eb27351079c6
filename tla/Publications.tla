---------------------------- MODULE Publications ----------------------------
(***************************************************************************)
(* The resource monitor (src/src/resource_monitor.cpp): it learns from the *)
(* queue manager which types of measurements there are and which elements  *)
(* each has, subscribes to the data topic of each type, once for each      *)
(* queue where the topic is per queue, and in each collection reads what   *)
(* has been published and sets a gauge for each element                    *)
(* (MetricsCollector::collect_publication_metrics).                        *)
(*                                                                         *)
(* A publication is the number it has on its topic, and so is the value a  *)
(* gauge shows; units and names are left out.                              *)
(***************************************************************************)
EXTENDS Integers, Sequences, SequencesExt

CONSTANTS
    Types,        \* types of measurements the queue manager has, <<class, type>>
    Elements,     \* for each type, its elements: element id -> metric name
    PerQueueTypes,\* the types whose data topic has a %s for the queue
    AppTypes,     \* the types of class STATAPP
    Queues,       \* the local queues
    Lists,        \* lists of queues that discovery can give: overlapping patterns
                  \* give a queue twice
    QmgrLevel,    \* the object of a publication that names no queue
    Limit,        \* max_messages of get_messages_from_handle()
    MaxPublished  \* bound: publications on a topic

Metrics == UNION {Range(Elements[t]) : t \in Types}

\* An element id is unique within a type only, and so is a metric name.
ASSUME MetadataAssumption ==
    /\ PerQueueTypes \subseteq Types /\ AppTypes \subseteq Types
    /\ \A t \in Types : DOMAIN Elements[t] \subseteq Nat /\ IsInjective(Elements[t])
ASSUME BoundsAssumption ==
    /\ Limit \in Nat \ {0} /\ MaxPublished \in Nat
    /\ QmgrLevel \notin Queues /\ Lists \subseteq Seq(Queues)

VARIABLES
    pc, next,      \* where setup or a collection is; the subscription to be read
    typeElements,  \* the types with an entry in type_elements_
    todo,          \* subscriptions create_subscriptions() has yet to make
    dataSubs,      \* data_subs_, each with the topic its handle stands for
    metrics,       \* what process_publications() returns: for each publication the
                   \* series it sets that are yet to be set, and the value
    gauge,         \* the publication that each series shows, 0 if there is none
    discoveredQueues, \* discovered_queues_, as setup found it
    labelsValid,   \* the metadata tags are label names (configuration)
    hconn,         \* the connection is alive (external)
    published,     \* number of publications on each topic (external)
    inbox          \* the queue of each subscription (external)

config == <<discoveredQueues, labelsValid>>
local  == <<pc, next, typeElements, todo, dataSubs, metrics, gauge, config>>
broker == <<hconn, published, inbox>>
vars   == <<local, broker>>

-----------------------------------------------------------------------------
\* The object a topic is about.
Objects(t) == IF t \in PerQueueTypes THEN Queues ELSE {QmgrLevel}

Topics == UNION {{t} \X Objects(t) : t \in Types}

\* The name of a family is that of the metric, and the registry gives one family to
\* all that register the name: the class is in the key of the cache and in the help
\* text only.  The labels tell the type, for the queue manager, or the queue.
Series(t, metric, object) ==
    IF object = QmgrLevel THEN <<metric, t[2], QmgrLevel>>
                          ELSE <<metric, "no type", object>>

AllSeries ==
    UNION {{Series(t, Elements[t][id], q) : id \in DOMAIN Elements[t],
                                            q \in Objects(t)} : t \in Types}

TypeOK ==
    /\ pc \in {"new", "subscribe", "idle", "read", "apply", "closed"}
    /\ typeElements \subseteq Types
    /\ discoveredQueues \in Lists
    /\ todo \subseteq Types \X (0 .. Len(discoveredQueues))
    /\ dataSubs \in Seq(Topics) /\ next \in 1 .. Len(dataSubs) + 1
    /\ metrics \in Seq([left: SUBSET AllSeries, value: 1 .. MaxPublished])
    /\ gauge \in [AllSeries -> 0 .. MaxPublished]
    /\ labelsValid \in BOOLEAN /\ hconn \in BOOLEAN
    /\ published \in [Topics -> 0 .. MaxPublished]
    /\ inbox \in Seq(Seq(1 .. MaxPublished)) /\ Len(inbox) = Len(dataSubs)

Init ==
    /\ pc = "new" /\ next = 1
    /\ typeElements = {} /\ todo = {} /\ dataSubs = <<>> /\ metrics = <<>>
    /\ gauge = [s \in AllSeries |-> 0]
    /\ discoveredQueues \in Lists /\ labelsValid \in BOOLEAN
    /\ hconn = TRUE /\ published = [t \in Topics |-> 0] /\ inbox = <<>>

-----------------------------------------------------------------------------
(* Setup.                                                                  *)

\* emap: the elements of a type, those with id 0 skipped.
ElementMap(t) == [id \in DOMAIN Elements[t] \ {0} |-> Elements[t][id]]

\* The types whose elements can be had: each metadata topic may stay silent.
HasElements(t) == DOMAIN ElementMap(t) # {}

\* Where create_subscriptions() subscribes: once for a type of the queue
\* manager, for a type per queue once for each entry of the list of queues.
Targets(types) ==
    UNION {{t} \X IF t \in PerQueueTypes THEN DOMAIN discoveredQueues ELSE {0}
             : t \in types \ AppTypes}

\* discover() and the element lookup maps.
Discover ==
    /\ pc = "new" /\ hconn
    /\ \E known \in SUBSET {t \in Types : HasElements(t)} \ {{}} :
         typeElements' = known /\ todo' = Targets(known)
    /\ pc' = "subscribe"
    /\ UNCHANGED <<next, dataSubs, metrics, gauge, config, broker>>

DiscoverFails ==
    /\ pc = "new" /\ pc' = "closed"
    /\ UNCHANGED <<next, typeElements, todo, dataSubs, metrics, gauge,
                   config, broker>>

TopicOf(target) ==
    <<target[1], IF target[2] = 0 THEN QmgrLevel ELSE discoveredQueues[target[2]]>>

\* create_subscription(): from now on publications reach the new queue.
Subscribe ==
    /\ pc = "subscribe" /\ hconn
    /\ \E target \in todo :
         /\ todo' = todo \ {target}
         /\ dataSubs' = Append(dataSubs, TopicOf(target))
         /\ inbox' = Append(inbox, <<>>)
    /\ UNCHANGED <<pc, next, typeElements, metrics, gauge, config, hconn,
                   published>>

\* The subscription is refused, and the next one is tried.
SubscribeFails ==
    /\ pc = "subscribe"
    /\ \E target \in todo : todo' = todo \ {target}
    /\ UNCHANGED <<pc, next, typeElements, dataSubs, metrics, gauge, config,
                   broker>>

Subscribed ==
    /\ pc = "subscribe" /\ todo = {} /\ pc' = "idle"
    /\ UNCHANGED <<next, typeElements, todo, dataSubs, metrics, gauge, config,
                   broker>>

-----------------------------------------------------------------------------
(* One collection: process_publications(), then a gauge for each metric.   *)

\* collect_metrics() comes here when update_metrics_from_messages() has not thrown,
\* which it does in each collection when the registry refuses a label.
Process ==
    /\ pc = "idle" /\ labelsValid /\ pc' = "read" /\ next' = 1 /\ metrics' = <<>>
    /\ UNCHANGED <<typeElements, todo, dataSubs, gauge, config, broker>>

\* Mutant: one map for the elements of all types.
MetricOfAnyType(t, id) ==
    LET u == CHOOSE u \in typeElements : id \in DOMAIN ElementMap(u)
    IN ElementMap(u)[id]

MetricOf(t, id) == ElementMap(t)[id]

\* The metrics of one publication; their order is the one of its parameters, and
\* that is up to the queue manager.
MetricsOf(topic, n) ==
    [left  |-> {Series(topic[1], MetricOf(topic[1], id), topic[2])
                  : id \in DOMAIN ElementMap(topic[1])},
     value |-> n]

\* Mutant: the loop stops at the first handle that has no message.
NextHandleIfAny ==
    /\ next' = IF inbox[next] # <<>> THEN next + 1 ELSE next
    /\ pc' = IF inbox[next] # <<>> THEN pc ELSE "apply"

\* Mutant: the loop counter is advanced twice.
NextHandleButOne == next' = next + 2 /\ pc' = pc

NextHandle == next' = next + 1 /\ pc' = pc

\* get_messages_from_handle() reads at most max_messages, the oldest first.
Taken(queue) == IF Len(queue) < Limit THEN Len(queue) ELSE Limit

MetricsRead(k) == [n \in 1 .. k |-> MetricsOf(dataSubs[next], inbox[next][n])]

\* Mutant: the messages are browsed and stay on the queue.
ReadHandleBrowses ==
    /\ pc = "read" /\ next <= Len(dataSubs) /\ NextHandle
    /\ metrics' = metrics \o MetricsRead(Taken(inbox[next]))
    /\ UNCHANGED <<typeElements, todo, dataSubs, gauge, config, broker>>

ReadHandle ==
    /\ pc = "read" /\ next <= Len(dataSubs) /\ NextHandle
    /\ LET k     == Taken(inbox[next])
           queue == inbox[next]
       IN /\ inbox' = [inbox EXCEPT ![next] = SubSeq(queue, k + 1, Len(queue))]
          /\ metrics' = metrics \o MetricsRead(k)
    /\ UNCHANGED <<typeElements, todo, dataSubs, gauge, config, hconn,
                   published>>

ReadDone ==
    /\ pc = "read" /\ next > Len(dataSubs) /\ pc' = "apply"
    /\ UNCHANGED <<next, typeElements, todo, dataSubs, metrics, gauge, config,
                   broker>>

\* A gauge is set for one of the metrics of the publication that is n-th.
SetOne(n) ==
    \E s \in metrics[n].left :
      LET left == metrics[n].left \ {s}
      IN /\ gauge' = [gauge EXCEPT ![s] = metrics[n].value]
         /\ metrics' = IF left = {} THEN RemoveAt(metrics, n)
                                    ELSE [metrics EXCEPT ![n].left = left]

\* Mutant: the metrics are applied last first.
ApplyReversed ==
    /\ pc = "apply" /\ metrics # <<>>
    /\ SetOne(Len(metrics))
    /\ UNCHANGED <<pc, next, typeElements, todo, dataSubs, config, broker>>

\* One gauge after the other: Set() for every datatype, DELTA too.
Apply ==
    /\ pc = "apply" /\ metrics # <<>>
    /\ SetOne(1)
    /\ UNCHANGED <<pc, next, typeElements, todo, dataSubs, config, broker>>

ApplyDone ==
    /\ pc = "apply" /\ metrics = <<>> /\ pc' = "idle"
    /\ UNCHANGED <<next, typeElements, todo, dataSubs, metrics, gauge, config,
                   broker>>

\* close(), or the destructor.
Close ==
    /\ pc = "idle" /\ pc' = "closed" /\ next' = 1
    /\ typeElements' = {} /\ dataSubs' = <<>> /\ inbox' = <<>>
    /\ UNCHANGED <<todo, metrics, gauge, config, hconn, published>>

Monitor == \/ Discover \/ DiscoverFails \/ Subscribe \/ SubscribeFails \/ Subscribed
           \/ Process \/ ReadHandle \/ ReadDone \/ Apply \/ ApplyDone

-----------------------------------------------------------------------------
(* The queue manager.                                                      *)

\* One publication for each topic and period, to every subscription there is;
\* nobody subscribes to application statistics.
Publish ==
    /\ hconn
    /\ \E topic \in {t \in Topics : t[1] \notin AppTypes} :
         /\ published[topic] < MaxPublished
         /\ published' = [published EXCEPT ![topic] = @ + 1]
         /\ inbox' = [i \in DOMAIN inbox |->
                        IF dataSubs[i] = topic THEN Append(inbox[i], published'[topic])
                                               ELSE inbox[i]]
    /\ UNCHANGED <<local, hconn>>

\* The subscriptions and their queues go with the connection.
ConnectionBreaks ==
    /\ hconn /\ hconn' = FALSE
    /\ inbox' = [i \in DOMAIN inbox |-> <<>>]
    /\ UNCHANGED <<local, published>>

Next == Monitor \/ Close \/ Publish \/ ConnectionBreaks

\* Setup proceeds, and collection follows collection.
Spec == Init /\ [][Next]_vars /\ WF_vars(Monitor)

-----------------------------------------------------------------------------
(* Properties.                                                             *)

\* Each topic has one subscription at most.
NoOverlap == IsInjective(discoveredQueues)

\* The types whose publications can set a series, and the series that only one sets:
\* where two classes give a metric the same name, the series shows now the one and
\* now the other.
Setters(s) ==
    {t \in Types : \E id \in DOMAIN ElementMap(t), q \in Objects(t) :
                      s = Series(t, ElementMap(t)[id], q)}

OwnSeries == {s \in AllSeries : \A t, u \in Setters(s) : t = u}

\* The series a subscription sets.
Fed(i) == {Series(dataSubs[i][1], ElementMap(dataSubs[i][1])[id], dataSubs[i][2])
             : id \in DOMAIN ElementMap(dataSubs[i][1])}

\* Between collections a series that one type sets shows the publication just before
\* the oldest that waits on its queue: none is skipped, none that was read is left
\* out, and a backlog of more than max_messages is shown in its order.
NothingSkipped ==
    (pc = "idle" /\ hconn /\ NoOverlap) =>
        \A i \in DOMAIN dataSubs : \A s \in Fed(i) \cap OwnSeries :
            gauge[s] # 0 => gauge[s] + Len(inbox[i]) = published[dataSubs[i]]

\* A scrape never sees a series that one type sets return to an older publication,
\* in the middle of a collection neither.
NeverGoesBack ==
    [][NoOverlap => \A s \in OwnSeries : gauge'[s] >= gauge[s]]_vars

\* Between collections the elements of a type show one publication, although other
\* types use the same element ids: "so we know the class/type context for correct
\* element lookup".  (Where a second type sets the series of an element as well, that
\* element is no part of the view.)
OneViewOfEachType ==
    pc = "idle" => \A i \in DOMAIN dataSubs :
        \A r, s \in Fed(i) \cap OwnSeries : gauge[r] = gauge[s]

\* Every subscription is read again and again: when publications cease, no queue
\* keeps any.  (Metadata tags that are no label names end every collection before the
\* publications; then nothing is ever read.)
BacklogIsRead ==
    (pc = "idle" /\ labelsValid) ~> (\A i \in DOMAIN inbox : inbox[i] = <<>>)

=============================================================================
