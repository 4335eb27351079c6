------------------------- MODULE PublicationsProofs -------------------------
(***************************************************************************)
(* The safety of Publications for every number of types, elements, queues  *)
(* and publications: no publication is skipped, none is shown after a      *)
(* newer one, and the elements of a type show the same one.                *)
(*                                                                         *)
(* The inductive invariant follows a publication from the queue to the     *)
(* gauges.  The queue of a subscription has the last ones of its topic, in *)
(* order; what process_publications() has taken from it comes before       *)
(* those, in order, and after what the gauges show.  All this is said of   *)
(* the series that one type alone sets: there two topics never set one     *)
(* series, and what is applied for one subscription leaves the others      *)
(* alone.                                                                  *)
(***************************************************************************)
EXTENDS Publications, TLAPS

\* The series that the publications on a topic set.
SeriesOf(topic) ==
    {Series(topic[1], ElementMap(topic[1])[id], topic[2])
       : id \in DOMAIN ElementMap(topic[1])}

\* Those of them that no other type sets.
OwnSeriesOf(topic) == SeriesOf(topic) \cap OwnSeries

\* A series that has been set.
Shown(s) == gauge[s] # 0

\* What there is at each place: metrics in a collection only, and no gauge before the
\* first one.
PlaceInv ==
    /\ pc \notin {"read", "apply"} => metrics = <<>>
    /\ pc = "apply" => next > Len(dataSubs)
    /\ pc = "new" => dataSubs = <<>>
    /\ pc # "subscribe" => todo = {}
    /\ pc \in {"new", "subscribe"} => \A s \in AllSeries : ~Shown(s)

\* Each publication sets all the series of a handle that has been read, and a part of them
\* only when it is the one being applied: the others show it already.
BatchInv ==
    \A m \in DOMAIN metrics : \E i \in DOMAIN dataSubs :
      /\ i < next /\ metrics[m].left \subseteq SeriesOf(dataSubs[i])
      /\ \A r \in SeriesOf(dataSubs[i]) \ metrics[m].left :
           m = 1 /\ gauge[r] = metrics[m].value

\* The elements of a type show one publication when none is to be applied.
AlikeInv ==
    \A i \in DOMAIN dataSubs : \A r, s \in OwnSeriesOf(dataSubs[i]) :
      (\A m \in DOMAIN metrics : metrics[m].left \cap OwnSeriesOf(dataSubs[i]) = {})
        => gauge[r] = gauge[s]

\* No topic is subscribed to twice, and none of those that are to come is there.
TopicsInv ==
    /\ todo \subseteq Targets(typeElements) /\ typeElements \subseteq Types
    /\ NoOverlap =>
         /\ IsInjective(dataSubs)
         /\ \A i \in DOMAIN dataSubs : \A x \in todo : dataSubs[i] # TopicOf(x)

\* A queue has the last publications of its topic, or nothing without a connection.
InboxInv ==
    \A i \in DOMAIN inbox :
      IF hconn THEN \A j \in DOMAIN inbox[i] :
                      inbox[i][j] = published[dataSubs[i]] - Len(inbox[i]) + j
               ELSE inbox[i] = <<>>

\* What is to be applied to a series is newer than what it shows, and in order.
OrderInv ==
    NoOverlap =>
      /\ \A m \in DOMAIN metrics : \A s \in metrics[m].left \cap OwnSeries :
           gauge[s] <= metrics[m].value
      /\ \A m, n \in DOMAIN metrics :
           m < n /\ (metrics[m].left \cap metrics[n].left) \cap OwnSeries # {}
             => metrics[m].value < metrics[n].value

\* What a series will show in the end is the publication before those on the queue.
GapInv ==
    NoOverlap /\ hconn =>
      \A i \in DOMAIN dataSubs : \A s \in OwnSeriesOf(dataSubs[i]) :
        /\ (\A m \in DOMAIN metrics : s \notin metrics[m].left) /\ Shown(s)
             => gauge[s] + Len(inbox[i]) = published[dataSubs[i]]
        /\ \A m \in DOMAIN metrics :
             /\ s \in metrics[m].left
             /\ \A n \in DOMAIN metrics : m < n => s \notin metrics[n].left
             => metrics[m].value + Len(inbox[i]) = published[dataSubs[i]]

IInv == /\ TypeOK /\ PlaceInv /\ BatchInv /\ AlikeInv /\ TopicsInv /\ InboxInv
        /\ OrderInv /\ GapInv

-----------------------------------------------------------------------------
(* The operators of the model.                                             *)

\* A topic is a type and an object.
LEMMA TopicShape ==
  ASSUME NEW topic \in Topics
  PROVE  /\ topic[1] \in Types /\ topic[2] \in Objects(topic[1])
         /\ topic = <<topic[1], topic[2]>>
<1>1. PICK t \in Types : topic \in {t} \X Objects(t)
  BY DEF Topics
<1> QED
  BY <1>1

\* What is in the map of a type is one of its elements.
LEMMA ElementKnown ==
  ASSUME NEW t \in Types, NEW id \in DOMAIN ElementMap(t)
  PROVE  /\ id \in DOMAIN Elements[t] /\ ElementMap(t)[id] = Elements[t][id]
         /\ ElementMap(t)[id] \in Range(Elements[t])
  BY DEF ElementMap, Range

\* A topic sets series that exist.
LEMMA SeriesKnown ==
  ASSUME NEW topic \in Topics
  PROVE  SeriesOf(topic) \subseteq AllSeries
<1> SUFFICES ASSUME NEW id \in DOMAIN ElementMap(topic[1])
             PROVE  Series(topic[1], ElementMap(topic[1])[id], topic[2]) \in AllSeries
  BY DEF SeriesOf
<1>1. topic[1] \in Types /\ topic[2] \in Objects(topic[1])
  BY TopicShape
<1>2. id \in DOMAIN Elements[topic[1]] /\ ElementMap(topic[1])[id] = Elements[topic[1]][id]
  BY <1>1, ElementKnown
<1> QED
  BY <1>1, <1>2 DEF AllSeries

\* No two topics set a series of one type: the object is a label, or there is none.
LEMMA SeriesApart ==
  ASSUME NEW topic \in Topics, NEW other \in Topics, NEW s \in OwnSeries,
         s \in SeriesOf(topic), s \in SeriesOf(other)
  PROVE  topic = other
<1> DEFINE t == topic[1]
           u == other[1]
           o == topic[2]
           p == other[2]
<1>1. /\ t \in Types /\ u \in Types
      /\ topic = <<t, o>> /\ other = <<u, p>>
      /\ o \in Objects(t) /\ p \in Objects(u)
  BY TopicShape
<1>2. PICK i \in DOMAIN ElementMap(t) : s = Series(t, ElementMap(t)[i], o)
  BY DEF SeriesOf
<1>3. PICK j \in DOMAIN ElementMap(u) : s = Series(u, ElementMap(u)[j], p)
  BY DEF SeriesOf
<1>4. t \in Setters(s) /\ u \in Setters(s)
  BY <1>1, <1>2, <1>3 DEF Setters
<1>5. t = u
  BY <1>4 DEF OwnSeries
<1>6. s[3] = o
  BY <1>2 DEF Series
<1>7. s[3] = p
  BY <1>3 DEF Series
<1> HIDE DEF t, u, o, p
<1> QED
  BY <1>1, <1>5, <1>6, <1>7

\* The metrics of a publication set the series of its topic.
LEMMA MetricsSetSeries ==
  ASSUME NEW topic, NEW n
  PROVE  MetricsOf(topic, n) = [left |-> SeriesOf(topic), value |-> n]
  BY DEF MetricsOf, MetricOf, SeriesOf

\* create_subscriptions() subscribes to topics that exist.
LEMMA TargetTopic ==
  ASSUME TypeOK, TopicsInv, NEW x \in todo
  PROVE  TopicOf(x) \in Topics
<1>1. PICK t \in typeElements \ AppTypes :
        x \in {t} \X IF t \in PerQueueTypes THEN DOMAIN discoveredQueues ELSE {0}
  BY DEF TopicsInv, Targets
<1>2. t \in Types /\ discoveredQueues \in Seq(Queues)
  BY BoundsAssumption DEF TypeOK
<1>3. CASE t \in PerQueueTypes
  <2>1. x[1] = t /\ x[2] \in 1 .. Len(discoveredQueues)
    BY <1>1, <1>2, <1>3
  <2>2. discoveredQueues[x[2]] \in Objects(t) /\ TopicOf(x) = <<t, discoveredQueues[x[2]]>>
    BY <1>2, <1>3, <2>1 DEF Objects, TopicOf
  <2> QED
    BY <1>2, <2>2 DEF Topics
<1>4. CASE t \notin PerQueueTypes
  <2>1. QmgrLevel \in Objects(t) /\ TopicOf(x) = <<t, QmgrLevel>>
    BY <1>1, <1>4 DEF Objects, TopicOf
  <2> QED
    BY <1>2, <2>1 DEF Topics
<1> QED
  BY <1>3, <1>4

\* Without overlap each of them is subscribed to once.
LEMMA TargetsApart ==
  ASSUME TypeOK, TopicsInv, NoOverlap, NEW x \in todo, NEW y \in todo, TopicOf(x) = TopicOf(y)
  PROVE  x = y
<1>1. discoveredQueues \in Seq(Queues)
  BY BoundsAssumption DEF TypeOK
<1>2. PICK t \in typeElements \ AppTypes :
        x \in {t} \X IF t \in PerQueueTypes THEN DOMAIN discoveredQueues ELSE {0}
  BY DEF TopicsInv, Targets
<1>3. PICK u \in typeElements \ AppTypes :
        y \in {u} \X IF u \in PerQueueTypes THEN DOMAIN discoveredQueues ELSE {0}
  BY DEF TopicsInv, Targets
<1>4. x = <<t, x[2]>> /\ y = <<u, y[2]>> /\ t = u
  BY <1>2, <1>3 DEF TopicOf
<1>5. x[2] = y[2]
  <2>1. CASE t \in PerQueueTypes
    <3>1. x[2] \in 1 .. Len(discoveredQueues) /\ y[2] \in 1 .. Len(discoveredQueues)
      BY <1>1, <1>2, <1>3, <1>4, <2>1
    <3>2. discoveredQueues[x[2]] = discoveredQueues[y[2]]
      BY <1>1, <3>1 DEF TopicOf
    <3> QED
      BY <1>1, <3>1, <3>2 DEF NoOverlap, IsInjective
  <2>2. CASE t \notin PerQueueTypes
    BY <1>2, <1>3, <1>4, <2>2
  <2> QED
    BY <2>1, <2>2
<1> QED
  BY <1>4, <1>5

-----------------------------------------------------------------------------
(* Each step preserves the invariant.                                      *)

\* What the type invariant says of sequences and numbers.
LEMMA Numbers ==
  ASSUME TypeOK
  PROVE  /\ dataSubs \in Seq(Topics) /\ DOMAIN dataSubs = 1 .. Len(dataSubs)
         /\ Len(dataSubs) \in Nat
         /\ inbox \in Seq(Seq(1 .. MaxPublished)) /\ DOMAIN inbox = DOMAIN dataSubs
         /\ \A i \in DOMAIN inbox :
              /\ inbox[i] \in Seq(1 .. MaxPublished) /\ Len(inbox[i]) \in Nat
              /\ DOMAIN inbox[i] = 1 .. Len(inbox[i])
         /\ \A i \in DOMAIN dataSubs : dataSubs[i] \in Topics
         /\ \A topic \in Topics : published[topic] \in Nat
         /\ \A s \in AllSeries : gauge[s] \in Nat
         /\ metrics \in Seq([left: SUBSET AllSeries, value: 1 .. MaxPublished])
         /\ DOMAIN metrics = 1 .. Len(metrics) /\ Len(metrics) \in Nat
         /\ \A m \in DOMAIN metrics :
              /\ metrics[m] \in [left: SUBSET AllSeries, value: 1 .. MaxPublished]
              /\ metrics[m].left \subseteq AllSeries /\ metrics[m].value \in Nat
         /\ next \in Nat /\ MaxPublished \in Nat
<1>1. /\ dataSubs \in Seq(Topics) /\ inbox \in Seq(Seq(1 .. MaxPublished))
      /\ Len(inbox) = Len(dataSubs) /\ next \in 1 .. Len(dataSubs) + 1
      /\ metrics \in Seq([left: SUBSET AllSeries, value: 1 .. MaxPublished])
      /\ gauge \in [AllSeries -> 0 .. MaxPublished]
      /\ published \in [Topics -> 0 .. MaxPublished]
  BY DEF TypeOK
<1>2. MaxPublished \in Nat
  BY BoundsAssumption
<1>3. \A i \in DOMAIN inbox : inbox[i] \in Seq(1 .. MaxPublished)
  BY <1>1
<1>4. \A m \in DOMAIN metrics :
        metrics[m] \in [left: SUBSET AllSeries, value: 1 .. MaxPublished]
  <2> DEFINE R == [left: SUBSET AllSeries, value: 1 .. MaxPublished]
  <2>1. metrics \in Seq(R)
    BY <1>1
  <2> HIDE DEF R
  <2>2. \A m \in DOMAIN metrics : metrics[m] \in R
    BY <2>1
  <2> QED
    BY <2>2 DEF R
<1>5. /\ \A topic \in Topics : published[topic] \in Nat
      /\ \A s \in AllSeries : gauge[s] \in Nat
  BY <1>1, <1>2
<1>6. DOMAIN inbox = DOMAIN dataSubs /\ next \in Nat
  BY <1>1
<1>7. \A m \in DOMAIN metrics :
        metrics[m].left \subseteq AllSeries /\ metrics[m].value \in Nat
  BY <1>2, <1>4
<1> QED
  BY <1>1, <1>2, <1>3, <1>4, <1>5, <1>6, <1>7

\* The invariant holds at first.
LEMMA InitStep ==
  Init => IInv
<1> SUFFICES ASSUME Init PROVE IInv
  OBVIOUS
<1>1. /\ dataSubs = <<>> /\ inbox = <<>> /\ metrics = <<>> /\ todo = {} /\ pc = "new"
      /\ typeElements = {} /\ gauge = [s \in AllSeries |-> 0]
  BY DEF Init
<1>2. TypeOK
  BY BoundsAssumption DEF Init, TypeOK
<1>3. PlaceInv
  BY <1>1 DEF PlaceInv, Shown
<1>4. BatchInv /\ AlikeInv /\ InboxInv /\ OrderInv /\ GapInv
  BY <1>1 DEF BatchInv, AlikeInv, InboxInv, OrderInv, GapInv
<1>5. TopicsInv
  BY <1>1 DEF TopicsInv, IsInjective
<1> QED
  BY <1>2, <1>3, <1>4, <1>5 DEF IInv

\* What the parts of the invariant do not speak of may change.
LEMMA FrameStep ==
  ASSUME IInv, next' = next,
         UNCHANGED <<dataSubs, metrics, gauge, config, hconn, published, inbox>>
  PROVE  BatchInv' /\ AlikeInv' /\ InboxInv' /\ OrderInv' /\ GapInv'
<1>1. BatchInv' /\ AlikeInv'
  BY DEF IInv, BatchInv, AlikeInv
<1>2. InboxInv'
  BY DEF IInv, InboxInv
<1>3. OrderInv' /\ GapInv'
  BY DEF IInv, OrderInv, GapInv, NoOverlap, IsInjective, config, Shown
<1> QED
  BY <1>1, <1>2, <1>3

\* Discovery only says what is to be subscribed to.
LEMMA DiscoverStep ==
  ASSUME IInv, Discover
  PROVE  IInv'
<1>1. /\ pc = "new" /\ pc' = "subscribe" /\ next' = next
      /\ UNCHANGED <<dataSubs, metrics, gauge, config, hconn, published, inbox>>
      /\ typeElements' \subseteq Types /\ todo' = Targets(typeElements')
  BY DEF Discover, broker
<1>2. BatchInv' /\ AlikeInv' /\ InboxInv' /\ OrderInv' /\ GapInv'
  BY <1>1, FrameStep
<1>3. dataSubs = <<>>
  BY <1>1 DEF IInv, PlaceInv
<1>4. TypeOK'
  <2>1. todo' \subseteq Types \X (0 .. Len(discoveredQueues))
    <3>1. discoveredQueues \in Seq(Queues)
      BY BoundsAssumption DEF IInv, TypeOK
    <3>2. DOMAIN discoveredQueues \subseteq 0 .. Len(discoveredQueues)
          /\ 0 \in 0 .. Len(discoveredQueues)
      BY <3>1
    <3> HIDE DEF IInv
    <3> QED
      BY <1>1, <3>2 DEF Targets
  <2> QED
    BY <1>1, <2>1 DEF IInv, TypeOK, config
<1>5. PlaceInv'
  BY <1>1, <1>3 DEF IInv, PlaceInv, Shown, config
<1>6. TopicsInv'
  <2>1. todo' \subseteq Targets(typeElements)'
    BY <1>1 DEF Targets, config
  <2> QED
    BY <1>1, <1>3, <2>1 DEF TopicsInv, IsInjective
<1> QED
  BY <1>2, <1>4, <1>5, <1>6 DEF IInv

\* These steps move on and leave queues, metrics and gauges alone.
LEMMA QuietStep ==
  ASSUME IInv,
         DiscoverFails \/ SubscribeFails \/ Subscribed \/ ReadDone \/ UNCHANGED vars
  PROVE  IInv'
<1>1. /\ next' = next /\ typeElements' = typeElements
      /\ UNCHANGED <<dataSubs, metrics, gauge, config, hconn, published, inbox>>
  BY DEF DiscoverFails, SubscribeFails, Subscribed, ReadDone, vars, local, broker
<1>2. BatchInv' /\ AlikeInv' /\ InboxInv' /\ OrderInv' /\ GapInv'
  BY <1>1, FrameStep
<1>3. todo' \subseteq todo
  BY DEF DiscoverFails, SubscribeFails, Subscribed, ReadDone, vars, local
<1>4. /\ pc' \in {"closed", "idle", "apply", pc}
      /\ pc' = "idle" => pc \in {"subscribe", "idle"}
      /\ pc' = "closed" => pc \in {"new", "closed"}
      /\ pc' = "apply" => (pc = "read" /\ next > Len(dataSubs)) \/ pc = "apply"
  BY DEF DiscoverFails, SubscribeFails, Subscribed, ReadDone, vars, local
<1>5. pc = "subscribe" => pc' = pc \/ todo' = {}
  BY DEF DiscoverFails, SubscribeFails, Subscribed, ReadDone, vars, local
<1>6. TypeOK'
  BY <1>1, <1>3, <1>4 DEF IInv, TypeOK, config
<1>7. PlaceInv'
  BY <1>1, <1>3, <1>4, <1>5 DEF IInv, PlaceInv, Shown, config
<1>8. TopicsInv'
  <2>1. todo' \subseteq Targets(typeElements)'
    BY <1>1, <1>3 DEF IInv, TopicsInv, Targets, config
  <2> QED
    BY <1>1, <1>3, <2>1 DEF IInv, TopicsInv, NoOverlap, TopicOf, config
<1> QED
  BY <1>2, <1>6, <1>7, <1>8 DEF IInv

\* The list of queues and the subscriptions stay.
LEMMA TopicsFrame ==
  ASSUME TopicsInv, UNCHANGED <<typeElements, todo, dataSubs, config>>
  PROVE  TopicsInv'
<1>1. Targets(typeElements)' = Targets(typeElements)
  BY DEF Targets, config
<1> QED
  BY <1>1 DEF TopicsInv, NoOverlap, TopicOf, config

\* A collection begins with the first handle.
LEMMA ProcessStep ==
  ASSUME IInv, Process
  PROVE  IInv'
<1>1. /\ pc = "idle" /\ pc' = "read" /\ next' = 1 /\ metrics' = <<>>
      /\ UNCHANGED <<typeElements, todo, dataSubs, gauge, config, hconn, published, inbox>>
  BY DEF Process, broker
<1>2. metrics = <<>> /\ todo = {}
  BY <1>1 DEF IInv, PlaceInv
<1>3. TypeOK'
  BY <1>1 DEF IInv, TypeOK, config
<1>4. PlaceInv'
  BY <1>1, <1>2 DEF IInv, PlaceInv, Shown, config
<1>5. BatchInv' /\ OrderInv'
  BY <1>1 DEF BatchInv, OrderInv
<1>6. AlikeInv' /\ InboxInv' /\ GapInv'
  BY <1>1, <1>2 DEF IInv, AlikeInv, InboxInv, GapInv, NoOverlap, Shown, config
<1>7. TopicsInv'
  BY <1>1, TopicsFrame DEF IInv
<1> QED
  BY <1>3, <1>4, <1>5, <1>6, <1>7 DEF IInv

\* A collection ends with every metric shown.
LEMMA ApplyDoneStep ==
  ASSUME IInv, ApplyDone
  PROVE  IInv'
<1>1. /\ pc = "apply" /\ pc' = "idle" /\ metrics' = metrics /\ metrics = <<>>
      /\ next' = next
      /\ UNCHANGED <<typeElements, todo, dataSubs, gauge, config, hconn, published, inbox>>
  BY DEF ApplyDone, broker
<1>2. BatchInv' /\ AlikeInv' /\ InboxInv' /\ OrderInv' /\ GapInv'
  BY <1>1, FrameStep
<1>3. TypeOK' /\ PlaceInv'
  BY <1>1 DEF IInv, TypeOK, PlaceInv, Shown, config
<1>4. TopicsInv'
  BY <1>1, TopicsFrame DEF IInv
<1> QED
  BY <1>2, <1>3, <1>4 DEF IInv

\* close() leaves no subscription.
LEMMA CloseStep ==
  ASSUME IInv, Close
  PROVE  IInv'
<1>1. /\ pc = "idle" /\ pc' = "closed" /\ next' = 1 /\ typeElements' = {}
      /\ dataSubs' = <<>> /\ inbox' = <<>>
      /\ UNCHANGED <<todo, metrics, gauge, config, hconn, published>>
  BY DEF Close
<1>2. metrics = <<>> /\ todo = {}
  BY <1>1 DEF IInv, PlaceInv
<1>3. TypeOK'
  BY <1>1, <1>2 DEF IInv, TypeOK, config
<1>4. PlaceInv'
  BY <1>1, <1>2 DEF IInv, PlaceInv, Shown, config
<1>5. BatchInv' /\ AlikeInv' /\ InboxInv' /\ OrderInv' /\ GapInv'
  BY <1>1, <1>2 DEF BatchInv, AlikeInv, InboxInv, OrderInv, GapInv
<1>6. TopicsInv'
  BY <1>1, <1>2 DEF TopicsInv, IsInjective
<1> QED
  BY <1>3, <1>4, <1>5, <1>6 DEF IInv

\* A function on 1 .. n is a sequence.
LEMMA SequenceOf ==
  ASSUME NEW f, NEW n \in Nat, NEW S, f = [i \in 1 .. n |-> f[i]],
         \A i \in 1 .. n : f[i] \in S
  PROVE  f \in Seq(S) /\ Len(f) = n
<1>1. f \in [1 .. n -> S]
  OBVIOUS
<1> QED
  BY <1>1

\* A new subscription is to a new topic, and its queue is empty.
LEMMA SubscribeStep ==
  ASSUME IInv, Subscribe
  PROVE  IInv'
<1>1. PICK x \in todo :
        /\ pc = "subscribe" /\ hconn /\ pc' = pc /\ next' = next
        /\ todo' = todo \ {x} /\ dataSubs' = Append(dataSubs, TopicOf(x))
        /\ inbox' = Append(inbox, <<>>)
        /\ UNCHANGED <<typeElements, metrics, gauge, config, hconn, published>>
  BY DEF Subscribe
<1>2. metrics = <<>> /\ \A s \in AllSeries : gauge[s] = 0
  BY <1>1 DEF IInv, PlaceInv, Shown
<1>3. TopicOf(x) \in Topics
  BY TargetTopic DEF IInv
<1>4. dataSubs \in Seq(Topics) /\ inbox \in Seq(Seq(1 .. MaxPublished))
      /\ Len(inbox) = Len(dataSubs) /\ <<>> \in Seq(1 .. MaxPublished)
  BY DEF IInv, TypeOK
<1>5. /\ dataSubs' \in Seq(Topics) /\ inbox' \in Seq(Seq(1 .. MaxPublished))
      /\ Len(dataSubs') = Len(dataSubs) + 1 /\ Len(inbox') = Len(dataSubs')
      /\ DOMAIN dataSubs' = 1 .. Len(dataSubs) + 1 /\ DOMAIN dataSubs = 1 .. Len(dataSubs)
      /\ DOMAIN inbox' = DOMAIN dataSubs' /\ DOMAIN inbox = DOMAIN dataSubs
      /\ Len(dataSubs) \in Nat
      /\ \A i \in DOMAIN dataSubs : dataSubs'[i] = dataSubs[i] /\ inbox'[i] = inbox[i]
      /\ dataSubs'[Len(dataSubs) + 1] = TopicOf(x) /\ inbox'[Len(dataSubs) + 1] = <<>>
  BY <1>1, <1>3, <1>4
<1>6. TypeOK'
  <2>1. next' \in 1 .. Len(dataSubs') + 1
    BY <1>1, <1>5 DEF IInv, TypeOK
  <2> QED
    BY <1>1, <1>5, <2>1 DEF IInv, TypeOK, config
<1>7. PlaceInv'
  BY <1>1, <1>2 DEF IInv, PlaceInv, Shown, config
<1>8. BatchInv' /\ OrderInv'
  BY <1>1, <1>2 DEF BatchInv, OrderInv
<1>9. AlikeInv' /\ GapInv'
  <2>1. \A i \in DOMAIN dataSubs' : SeriesOf(dataSubs'[i]) \subseteq AllSeries
    BY <1>5, SeriesKnown
  <2>2. AlikeInv'
    BY <1>1, <1>2, <2>1 DEF AlikeInv, OwnSeriesOf
  <2>3. GapInv'
    BY <1>1, <1>2, <2>1 DEF GapInv, Shown, OwnSeriesOf
  <2> QED
    BY <2>2, <2>3
<1>10. InboxInv'
  <2> SUFFICES ASSUME NEW i \in DOMAIN inbox', NEW j \in DOMAIN inbox'[i]
               PROVE  inbox'[i][j] = published[dataSubs'[i]] - Len(inbox'[i]) + j
    BY <1>1 DEF InboxInv
  <2>1. i \in DOMAIN dataSubs
    BY <1>5
  <2> QED
    BY <1>1, <1>5, <2>1 DEF IInv, InboxInv
<1>11. TopicsInv'
  <2>1. todo' \subseteq Targets(typeElements)'
    BY <1>1 DEF IInv, TopicsInv, Targets, config
  <2>2. ASSUME NoOverlap PROVE IsInjective(dataSubs')
    <3>1. \A i, j \in DOMAIN dataSubs : dataSubs[i] = dataSubs[j] => i = j
      BY <2>2 DEF IInv, TopicsInv, IsInjective
    <3>2. \A i \in DOMAIN dataSubs : dataSubs[i] # TopicOf(x)
      BY <2>2 DEF IInv, TopicsInv
    <3>3. \A i \in DOMAIN dataSubs' : i \in DOMAIN dataSubs \/ i = Len(dataSubs) + 1
      BY <1>5
    <3> QED
      BY <1>5, <3>1, <3>2, <3>3 DEF IsInjective
  <2>3. ASSUME NoOverlap, NEW i \in DOMAIN dataSubs', NEW y \in todo'
        PROVE  dataSubs'[i] # TopicOf(y)
    <3>1. y \in todo /\ y # x
      BY <1>1
    <3>2. CASE i \in DOMAIN dataSubs
      BY <1>5, <2>3, <3>1, <3>2 DEF IInv, TopicsInv
    <3>3. CASE i = Len(dataSubs) + 1
      BY <1>5, <2>3, <3>1, <3>3, TargetsApart DEF IInv
    <3> QED
      BY <1>5, <3>2, <3>3
  <2>4. typeElements' \subseteq Types /\ NoOverlap' = NoOverlap
        /\ \A y : TopicOf(y)' = TopicOf(y)
    BY <1>1 DEF IInv, TopicsInv, NoOverlap, TopicOf, config
  <2> QED
    BY <2>1, <2>2, <2>3, <2>4 DEF TopicsInv
<1> QED
  BY <1>6, <1>7, <1>8, <1>9, <1>10, <1>11 DEF IInv

\* A publication comes last on every queue of its topic.
LEMMA PublishStep ==
  ASSUME IInv, Publish
  PROVE  IInv'
<1>1. PICK topic \in Topics :
        /\ published[topic] < MaxPublished
        /\ published' = [published EXCEPT ![topic] = @ + 1]
        /\ inbox' = [i \in DOMAIN inbox |->
                       IF dataSubs[i] = topic THEN Append(inbox[i], published'[topic])
                                              ELSE inbox[i]]
  BY DEF Publish
<1>2. /\ hconn /\ hconn' = hconn
      /\ UNCHANGED <<pc, next, typeElements, todo, dataSubs, metrics, gauge, config>>
  BY DEF Publish, local
<1>3. published \in [Topics -> 0 .. MaxPublished] /\ MaxPublished \in Nat
  BY BoundsAssumption DEF IInv, TypeOK
<1>4. /\ published' \in [Topics -> 0 .. MaxPublished]
      /\ published'[topic] = published[topic] + 1 /\ published'[topic] \in 1 .. MaxPublished
      /\ \A other \in Topics : other # topic => published'[other] = published[other]
  BY <1>1, <1>3
<1>5. ASSUME NEW i \in DOMAIN dataSubs
      PROVE  /\ inbox'[i] \in Seq(1 .. MaxPublished) /\ Len(inbox[i]) \in Nat
             /\ Len(inbox'[i]) - published'[dataSubs[i]] = Len(inbox[i]) - published[dataSubs[i]]
             /\ \A j \in DOMAIN inbox'[i] :
                  inbox'[i][j] = published'[dataSubs[i]] - Len(inbox'[i]) + j
  <2>1. /\ i \in DOMAIN inbox /\ inbox[i] \in Seq(1 .. MaxPublished)
        /\ dataSubs[i] \in Topics /\ Len(inbox[i]) \in Nat
        /\ DOMAIN inbox[i] = 1 .. Len(inbox[i]) /\ published[dataSubs[i]] \in Nat
    BY Numbers DEF IInv
  <2>2. \A j \in DOMAIN inbox[i] : inbox[i][j] = published[dataSubs[i]] - Len(inbox[i]) + j
    BY <1>2, <2>1 DEF IInv, InboxInv
  <2>3. CASE dataSubs[i] = topic
    <3> DEFINE n == published'[topic]
    <3>1. inbox'[i] = Append(inbox[i], n) /\ n \in 1 .. MaxPublished
      BY <1>1, <1>4, <2>1, <2>3
    <3> HIDE DEF n
    <3>2. /\ inbox'[i] \in Seq(1 .. MaxPublished) /\ Len(inbox'[i]) = Len(inbox[i]) + 1
          /\ DOMAIN inbox'[i] = 1 .. Len(inbox[i]) + 1
          /\ \A j \in DOMAIN inbox[i] : inbox'[i][j] = inbox[i][j]
          /\ inbox'[i][Len(inbox[i]) + 1] = n
      BY <2>1, <3>1
    <3>3. published'[dataSubs[i]] = published[dataSubs[i]] + 1 /\ n = published'[dataSubs[i]]
      BY <1>4, <2>3 DEF n
    <3> DEFINE l == Len(inbox[i])
               p == published[dataSubs[i]]
    <3>4. /\ l \in Nat /\ p \in Nat /\ Len(inbox'[i]) = l + 1 /\ published'[dataSubs[i]] = p + 1
          /\ n = p + 1
      BY <2>1, <3>2, <3>3
    <3>5. ASSUME NEW j \in DOMAIN inbox'[i] PROVE inbox'[i][j] = p + 1 - (l + 1) + j
      <4>1. CASE j = l + 1
        BY <3>2, <3>4, <4>1
      <4>2. CASE j \in DOMAIN inbox[i]
        <5>1. inbox'[i][j] = p - l + j /\ j \in Nat
          BY <2>1, <2>2, <3>2, <4>2
        <5> HIDE DEF l, p
        <5> QED
          BY <3>4, <5>1
      <4> QED
        BY <2>1, <3>2, <3>4, <4>1, <4>2
    <3> HIDE DEF l, p
    <3>6. Len(inbox'[i]) - published'[dataSubs[i]] = l - p
      BY <3>4
    <3>7. \A j \in DOMAIN inbox'[i] :
            inbox'[i][j] = published'[dataSubs[i]] - Len(inbox'[i]) + j
      BY <3>4, <3>5
    <3>8. Len(inbox[i]) \in Nat
      BY <2>1
    <3> QED
      BY <3>2, <3>6, <3>7, <3>8 DEF l, p
  <2>4. CASE dataSubs[i] # topic
    <3>1. inbox'[i] = inbox[i] /\ published'[dataSubs[i]] = published[dataSubs[i]]
      BY <1>1, <1>4, <2>1, <2>4
    <3> QED
      BY <2>1, <2>2, <3>1
  <2> QED
    BY <2>3, <2>4
<1>6. inbox' \in Seq(Seq(1 .. MaxPublished)) /\ Len(inbox') = Len(dataSubs')
      /\ DOMAIN inbox' = DOMAIN dataSubs
  <2>1. inbox \in Seq(Seq(1 .. MaxPublished)) /\ Len(inbox) = Len(dataSubs)
        /\ DOMAIN inbox = DOMAIN dataSubs /\ Len(dataSubs) \in Nat
    BY Numbers DEF IInv, TypeOK
  <2>2. DOMAIN inbox' = 1 .. Len(dataSubs) /\ DOMAIN inbox = 1 .. Len(dataSubs)
    BY <1>1, <2>1
  <2>3. \A i \in DOMAIN inbox' : inbox'[i] \in Seq(1 .. MaxPublished)
    BY <1>5, <2>1, <2>2
  <2>4. inbox' = [i \in 1 .. Len(dataSubs) |-> inbox'[i]]
    BY <1>1, <2>1, <2>2
  <2> DEFINE Q == Seq(1 .. MaxPublished)
  <2>6. \A i \in 1 .. Len(dataSubs) : inbox'[i] \in Q
    BY <2>2, <2>3
  <2> HIDE DEF Q
  <2>5. inbox' \in Seq(Q) /\ Len(inbox') = Len(dataSubs)
    BY <2>1, <2>2, <2>4, <2>6, SequenceOf
  <2> QED
    BY <1>2, <2>1, <2>2, <2>5 DEF Q
<1>7. TypeOK'
  BY <1>2, <1>4, <1>6 DEF IInv, TypeOK, config
<1>8. PlaceInv' /\ BatchInv' /\ AlikeInv' /\ OrderInv'
  BY <1>2 DEF IInv, PlaceInv, BatchInv, AlikeInv, OrderInv, Shown, NoOverlap, config
<1>9. TopicsInv'
  BY <1>2, TopicsFrame DEF IInv
<1>10. InboxInv'
  BY <1>2, <1>5, <1>6 DEF InboxInv
<1>11. GapInv'
  <2> SUFFICES ASSUME NoOverlap, NEW i \in DOMAIN dataSubs,
                      NEW s \in OwnSeriesOf(dataSubs[i])
               PROVE  /\ (\A m \in DOMAIN metrics : s \notin metrics[m].left) /\ Shown(s)
                           => gauge[s] + Len(inbox'[i]) = published'[dataSubs[i]]
                      /\ \A m \in DOMAIN metrics :
                           /\ s \in metrics[m].left
                           /\ \A n \in DOMAIN metrics : m < n => s \notin metrics[n].left
                           => metrics[m].value + Len(inbox'[i]) = published'[dataSubs[i]]
    BY <1>2 DEF GapInv, NoOverlap, Shown, config
  <2>1. /\ gauge[s] \in Nat /\ dataSubs[i] \in Topics /\ published[dataSubs[i]] \in Nat
        /\ \A m \in DOMAIN metrics : metrics[m].value \in Nat
    BY Numbers, SeriesKnown DEF IInv, OwnSeriesOf
  <2>2. Len(inbox'[i]) \in Nat /\ published'[dataSubs[i]] \in Nat
    BY <1>3, <1>4, <1>5, <2>1
  <2>3. /\ (\A m \in DOMAIN metrics : s \notin metrics[m].left) /\ Shown(s)
             => gauge[s] + Len(inbox[i]) = published[dataSubs[i]]
        /\ \A m \in DOMAIN metrics :
             /\ s \in metrics[m].left
             /\ \A n \in DOMAIN metrics : m < n => s \notin metrics[n].left
             => metrics[m].value + Len(inbox[i]) = published[dataSubs[i]]
    BY <1>2 DEF IInv, GapInv
  <2> DEFINE l == Len(inbox[i])
             p == published[dataSubs[i]]
             l2 == Len(inbox'[i])
             p2 == published'[dataSubs[i]]
  <2>4. l2 - p2 = l - p /\ l \in Nat
    BY <1>5
  <2>5. l2 \in Nat /\ p2 \in Nat /\ p \in Nat
    BY <2>1, <2>2
  <2> HIDE DEF l, p, l2, p2
  <2>6. \A v \in Nat : v + l = p => v + l2 = p2
    BY <2>4, <2>5
  <2> QED
    BY <2>1, <2>3, <2>6 DEF l, p, l2, p2
<1> QED
  BY <1>7, <1>8, <1>9, <1>10, <1>11 DEF IInv

\* The queues go with the connection.
LEMMA BreakStep ==
  ASSUME IInv, ConnectionBreaks
  PROVE  IInv'
<1>1. /\ hconn' = FALSE /\ inbox' = [i \in DOMAIN inbox |-> <<>>]
      /\ UNCHANGED <<pc, next, typeElements, todo, dataSubs, metrics, gauge, config,
                     published>>
  BY DEF ConnectionBreaks, local
<1>2. inbox' \in Seq(Seq(1 .. MaxPublished)) /\ Len(inbox') = Len(dataSubs')
  <2>1. DOMAIN inbox = 1 .. Len(dataSubs) /\ Len(dataSubs) \in Nat
    BY Numbers DEF IInv
  <2>2. <<>> \in Seq(1 .. MaxPublished)
    OBVIOUS
  <2> QED
    BY <1>1, <2>1, <2>2
<1>3. TypeOK'
  BY <1>1, <1>2 DEF IInv, TypeOK, config
<1>4. PlaceInv' /\ BatchInv' /\ AlikeInv' /\ OrderInv'
  BY <1>1 DEF IInv, PlaceInv, BatchInv, AlikeInv, OrderInv, Shown, NoOverlap, config
<1>5. TopicsInv'
  BY <1>1, TopicsFrame DEF IInv
<1>6. InboxInv' /\ GapInv'
  BY <1>1 DEF InboxInv, GapInv
<1> QED
  BY <1>3, <1>4, <1>5, <1>6 DEF IInv

\* What is left of a queue when the first k have been taken.
LEMMA Drained ==
  ASSUME NEW S, NEW q \in Seq(S), NEW k \in 0 .. Len(q)
  PROVE  /\ SubSeq(q, k + 1, Len(q)) \in Seq(S)
         /\ Len(SubSeq(q, k + 1, Len(q))) = Len(q) - k
         /\ \A j \in 1 .. Len(q) - k : SubSeq(q, k + 1, Len(q))[j] = q[k + j]
<1>1. Len(q) \in Nat
  OBVIOUS
<1>2. SubSeq(q, k + 1, Len(q)) = [j \in 1 .. Len(q) - k |-> q[k + j]]
  BY <1>1
<1>3. \A j \in 1 .. Len(q) - k : q[k + j] \in S
  BY <1>1
<1> QED
  BY <1>1, <1>2, <1>3

\* A sequence with another behind it.
LEMMA Added ==
  ASSUME NEW S, NEW s \in Seq(S), NEW k \in Nat, NEW f, f = [n \in 1 .. k |-> f[n]],
         \A n \in 1 .. k : f[n] \in S
  PROVE  /\ s \o f \in Seq(S) /\ Len(s \o f) = Len(s) + k
         /\ \A m \in 1 .. Len(s) : (s \o f)[m] = s[m]
         /\ \A n \in 1 .. k : (s \o f)[Len(s) + n] = f[n]
<1>1. f \in Seq(S) /\ Len(f) = k
  BY SequenceOf
<1>2. Len(s) \in Nat
  OBVIOUS
<1> QED
  BY <1>1, <1>2

\* What one step of process_publications() takes from its queue, and what it adds.
LEMMA ReadEffect ==
  ASSUME IInv, ReadHandle
  PROVE  \E k \in Nat :
    /\ pc = "read" /\ pc' = pc /\ next \in DOMAIN dataSubs /\ next' = next + 1
    /\ UNCHANGED <<typeElements, todo, dataSubs, gauge, config, hconn, published>>
    /\ k <= Len(inbox[next])
    /\ inbox' \in Seq(Seq(1 .. MaxPublished)) /\ Len(inbox') = Len(inbox)
    /\ \A i \in DOMAIN inbox : i # next => inbox'[i] = inbox[i]
    /\ Len(inbox'[next]) = Len(inbox[next]) - k
    /\ \A j \in 1 .. Len(inbox[next]) - k : inbox'[next][j] = inbox[next][k + j]
    /\ metrics' \in Seq([left: SUBSET AllSeries, value: 1 .. MaxPublished])
    /\ Len(metrics') = Len(metrics) + k
    /\ \A m \in DOMAIN metrics : metrics'[m] = metrics[m]
    /\ \A n \in 1 .. k : metrics'[Len(metrics) + n] =
                           [left |-> SeriesOf(dataSubs[next]), value |-> inbox[next][n]]
<1> DEFINE q == inbox[next]
           k == Taken(q)
           S == SeriesOf(dataSubs[next])
           R == [left: SUBSET AllSeries, value: 1 .. MaxPublished]
           f == MetricsRead(k)
<1>1. /\ pc = "read" /\ pc' = pc /\ next <= Len(dataSubs) /\ next' = next + 1
      /\ inbox' = [inbox EXCEPT ![next] = SubSeq(q, k + 1, Len(q))]
      /\ metrics' = metrics \o MetricsRead(k)
      /\ UNCHANGED <<typeElements, todo, dataSubs, gauge, config, hconn, published>>
  BY DEF ReadHandle, NextHandle
<1>2. /\ next \in DOMAIN dataSubs /\ next \in DOMAIN inbox /\ q \in Seq(1 .. MaxPublished)
      /\ Len(q) \in Nat /\ DOMAIN q = 1 .. Len(q) /\ dataSubs[next] \in Topics
      /\ metrics \in Seq(R) /\ DOMAIN metrics = 1 .. Len(metrics)
  <2>1. next \in 1 .. Len(dataSubs)
    BY <1>1, Numbers DEF IInv, TypeOK
  <2> QED
    BY <2>1, Numbers DEF IInv
<1>3. k \in Nat /\ k <= Len(q) /\ k \in 0 .. Len(q)
  BY <1>2, BoundsAssumption DEF Taken
<1>4. /\ SubSeq(q, k + 1, Len(q)) \in Seq(1 .. MaxPublished)
      /\ Len(SubSeq(q, k + 1, Len(q))) = Len(q) - k
      /\ \A j \in 1 .. Len(q) - k : SubSeq(q, k + 1, Len(q))[j] = q[k + j]
  <2> HIDE DEF q, k
  <2> QED
    BY <1>2, <1>3, Drained
<1>5. /\ inbox' \in Seq(Seq(1 .. MaxPublished)) /\ Len(inbox') = Len(inbox)
      /\ inbox'[next] = SubSeq(q, k + 1, Len(q))
      /\ \A i \in DOMAIN inbox : i # next => inbox'[i] = inbox[i]
  <2> DEFINE Q == Seq(1 .. MaxPublished)
             rest == SubSeq(q, k + 1, Len(q))
  <2>1. inbox \in Seq(Q) /\ rest \in Q /\ next \in DOMAIN inbox
        /\ inbox' = [inbox EXCEPT ![next] = rest]
    BY <1>1, <1>2, <1>4, Numbers DEF IInv
  <2> HIDE DEF Q, rest
  <2>2. /\ inbox' \in Seq(Q) /\ Len(inbox') = Len(inbox) /\ inbox'[next] = rest
        /\ \A i \in DOMAIN inbox : i # next => inbox'[i] = inbox[i]
    BY <2>1
  <2> QED
    BY <2>2 DEF Q, rest
<1>6. /\ f = [n \in 1 .. k |-> f[n]]
      /\ \A n \in 1 .. k : f[n] = [left |-> S, value |-> q[n]] /\ f[n] \in R
  <2>1. f = [n \in 1 .. k |-> MetricsOf(dataSubs[next], q[n])]
    BY DEF MetricsRead
  <2>2. \A n \in 1 .. k : f[n] = [left |-> S, value |-> q[n]]
    BY <2>1, MetricsSetSeries
  <2>3. S \subseteq AllSeries
    BY <1>2, SeriesKnown
  <2>4. \A n \in 1 .. k : q[n] \in 1 .. MaxPublished
    <3> DEFINE V == 1 .. MaxPublished
    <3>1. q \in Seq(V) /\ Len(q) \in Nat
      BY <1>2
    <3> HIDE DEF V, q, k
    <3>2. \A n \in 1 .. Len(q) : q[n] \in V
      BY <3>1
    <3>3. 1 .. k \subseteq 1 .. Len(q)
      BY <1>2, <1>3
    <3> QED
      BY <3>2, <3>3 DEF V
  <2>5. \A n \in 1 .. k : f[n] \in R
    <3> TAKE n \in 1 .. k
    <3>1. f[n] = [left |-> S, value |-> q[n]] /\ S \in SUBSET AllSeries
          /\ q[n] \in 1 .. MaxPublished
      BY <2>2, <2>3, <2>4
    <3> HIDE DEF f, S, q, k
    <3> QED
      BY <3>1
  <2> HIDE DEF k, q, S, R
  <2>6. f = [n \in 1 .. k |-> f[n]]
    BY <2>1
  <2> QED
    BY <2>2, <2>5, <2>6
<1>7. /\ metrics' \in Seq(R) /\ Len(metrics') = Len(metrics) + k
      /\ \A m \in DOMAIN metrics : metrics'[m] = metrics[m]
      /\ \A n \in 1 .. k : metrics'[Len(metrics) + n] = [left |-> S, value |-> q[n]]
  <2>1. metrics' = metrics \o f
    BY <1>1
  <2> HIDE DEF f, R, k, q, S
  <2>2. /\ metrics \o f \in Seq(R) /\ Len(metrics \o f) = Len(metrics) + k
        /\ \A m \in 1 .. Len(metrics) : (metrics \o f)[m] = metrics[m]
        /\ \A n \in 1 .. k : (metrics \o f)[Len(metrics) + n] = f[n]
    BY <1>2, <1>3, <1>6, Added
  <2> QED
    BY <1>2, <1>6, <2>1, <2>2
<1> HIDE DEF k
<1> QED
  BY <1>1, <1>2, <1>3, <1>4, <1>5, <1>7

\* Without overlap nothing that is to be applied is about the handle to be read next.
LEMMA NothingYet ==
  ASSUME IInv, NoOverlap, next \in DOMAIN dataSubs, NEW m \in DOMAIN metrics
  PROVE  metrics[m].left \cap OwnSeriesOf(dataSubs[next]) = {}
<1> SUFFICES ASSUME NEW s \in metrics[m].left, s \in SeriesOf(dataSubs[next]),
                    s \in OwnSeries
             PROVE  FALSE
  BY DEF OwnSeriesOf
<1>1. PICK i \in DOMAIN dataSubs : i < next /\ metrics[m].left \subseteq SeriesOf(dataSubs[i])
  BY DEF IInv, BatchInv
<1>2. dataSubs[i] \in Topics /\ dataSubs[next] \in Topics
  BY Numbers DEF IInv
<1>3. dataSubs[i] = dataSubs[next]
  BY <1>1, <1>2, SeriesApart
<1>4. i = next
  BY <1>3 DEF IInv, TopicsInv, IsInjective
<1>5. i \in Nat
  BY Numbers DEF IInv
<1> QED
  BY <1>1, <1>4, <1>5

\* What is read goes behind what was read before, and takes from the queue the oldest:
\* without overlap nothing in between is about the same series.
LEMMA ReadStep ==
  ASSUME IInv, ReadHandle
  PROVE  IInv'
<1> DEFINE S == SeriesOf(dataSubs[next])
           q == inbox[next]
           L == Len(metrics)
<1>1. PICK k \in Nat :
    /\ pc = "read" /\ pc' = pc /\ next \in DOMAIN dataSubs /\ next' = next + 1
    /\ UNCHANGED <<typeElements, todo, dataSubs, gauge, config, hconn, published>>
    /\ k <= Len(q)
    /\ inbox' \in Seq(Seq(1 .. MaxPublished)) /\ Len(inbox') = Len(inbox)
    /\ \A i \in DOMAIN inbox : i # next => inbox'[i] = inbox[i]
    /\ Len(inbox'[next]) = Len(q) - k
    /\ \A j \in 1 .. Len(q) - k : inbox'[next][j] = q[k + j]
    /\ metrics' \in Seq([left: SUBSET AllSeries, value: 1 .. MaxPublished])
    /\ Len(metrics') = L + k
    /\ \A m \in DOMAIN metrics : metrics'[m] = metrics[m]
    /\ \A n \in 1 .. k : metrics'[L + n] = [left |-> S, value |-> q[n]]
  BY ReadEffect
<1>2. /\ L \in Nat /\ DOMAIN metrics = 1 .. L /\ DOMAIN metrics' = 1 .. L + k
      /\ next \in Nat /\ Len(q) \in Nat /\ DOMAIN q = 1 .. Len(q)
      /\ DOMAIN inbox' = DOMAIN inbox /\ DOMAIN inbox = DOMAIN dataSubs
      /\ DOMAIN dataSubs = 1 .. Len(dataSubs) /\ Len(dataSubs) \in Nat
  BY <1>1, Numbers DEF IInv
<1>3. \A m \in DOMAIN metrics' :
        \/ m \in DOMAIN metrics /\ metrics'[m] = metrics[m]
        \/ \E n \in 1 .. k : /\ m = L + n
                             /\ metrics'[m].left = S /\ metrics'[m].value = q[n]
  <2> SUFFICES ASSUME NEW m \in DOMAIN metrics', m \notin DOMAIN metrics
               PROVE  \E n \in 1 .. k : /\ m = L + n
                                        /\ metrics'[m].left = S /\ metrics'[m].value = q[n]
    BY <1>1
  <2>1. m - L \in 1 .. k /\ m = L + (m - L)
    BY <1>2
  <2>2. metrics'[L + (m - L)] = [left |-> S, value |-> q[m - L]]
    BY <1>1, <2>1
  <2> HIDE DEF L, S, q
  <2>3. metrics'[m].left = S /\ metrics'[m].value = q[m - L]
    BY <2>1, <2>2
  <2> QED
    BY <2>1, <2>3
<1>4. DOMAIN metrics \subseteq DOMAIN metrics'
  BY <1>2
<1>5. hconn => \A n \in 1 .. Len(q) : q[n] = published[dataSubs[next]] - Len(q) + n
  BY <1>1, <1>2 DEF IInv, InboxInv
<1>6. ~hconn => k = 0
  <2>1. ~hconn => q = <<>>
    BY <1>1, <1>2 DEF IInv, InboxInv
  <2> QED
    BY <1>1, <2>1
<1>7. NoOverlap => \A m \in DOMAIN metrics : metrics[m].left \cap OwnSeriesOf(dataSubs[next]) = {}
  BY <1>1, NothingYet
<1>18. OwnSeriesOf(dataSubs[next]) = S \cap OwnSeries
  BY DEF OwnSeriesOf
<1>8. S \subseteq AllSeries /\ (\A s \in AllSeries : gauge[s] \in Nat)
      /\ published[dataSubs[next]] \in Nat
  BY <1>1, Numbers, SeriesKnown DEF IInv
<1>9. k \in Nat /\ Len(q) \in Nat /\ k <= Len(q) /\ \A n \in 1 .. Len(q) : q[n] \in Nat
  <2> DEFINE V == 1 .. MaxPublished
  <2>1. q \in Seq(V)
    BY <1>1, Numbers DEF IInv
  <2>2. \A v \in V : v \in Nat
    OBVIOUS
  <2>3. k \in Nat /\ Len(q) \in Nat /\ k <= Len(q)
    BY <1>1, <1>2
  <2> HIDE DEF q, V
  <2>4. \A n \in 1 .. Len(q) : q[n] \in V
    BY <2>1
  <2> QED
    BY <2>2, <2>3, <2>4
<1>10. TypeOK'
  <2>1. next' \in 1 .. Len(dataSubs') + 1
    BY <1>1, <1>2
  <2>2. Len(inbox') = Len(dataSubs')
    BY <1>1 DEF IInv, TypeOK
  <2> QED
    BY <1>1, <2>1, <2>2 DEF IInv, TypeOK, config
<1>11. PlaceInv'
  BY <1>1 DEF IInv, PlaceInv, Shown, config
<1>12. BatchInv'
  <2> SUFFICES ASSUME NEW m \in DOMAIN metrics'
               PROVE  \E i \in DOMAIN dataSubs :
                        /\ i < next + 1 /\ metrics'[m].left \subseteq SeriesOf(dataSubs[i])
                        /\ \A r \in SeriesOf(dataSubs[i]) \ metrics'[m].left :
                             m = 1 /\ gauge[r] = metrics'[m].value
    <3>1. next' = next + 1 /\ dataSubs' = dataSubs /\ gauge' = gauge
      BY <1>1
    <3> QED
      BY <3>1 DEF BatchInv
  <2>1. CASE m \in DOMAIN metrics /\ metrics'[m] = metrics[m]
    <3>1. PICK i \in DOMAIN dataSubs :
            /\ i < next /\ metrics[m].left \subseteq SeriesOf(dataSubs[i])
            /\ \A r \in SeriesOf(dataSubs[i]) \ metrics[m].left :
                 m = 1 /\ gauge[r] = metrics[m].value
      BY <2>1 DEF IInv, BatchInv
    <3>2. i < next + 1
      BY <1>2, <3>1
    <3> QED
      BY <2>1, <3>1, <3>2
  <2>2. CASE metrics'[m].left = S
    <3>1. next \in DOMAIN dataSubs /\ next < next + 1
      BY <1>1, <1>2
    <3> HIDE DEF S
    <3>2. S = SeriesOf(dataSubs[next])
      BY DEF S
    <3> QED
      BY <2>2, <3>1, <3>2
  <2> QED
    BY <1>3, <2>1, <2>2
<1>13. AlikeInv'
  <2> SUFFICES ASSUME NEW i \in DOMAIN dataSubs, NEW r \in OwnSeriesOf(dataSubs[i]),
                      NEW s \in OwnSeriesOf(dataSubs[i]),
                      \A m \in DOMAIN metrics' :
                        metrics'[m].left \cap OwnSeriesOf(dataSubs[i]) = {}
               PROVE  gauge[r] = gauge[s]
    BY <1>1 DEF AlikeInv
  <2>1. \A m \in DOMAIN metrics : metrics[m].left \cap OwnSeriesOf(dataSubs[i]) = {}
    BY <1>1, <1>4
  <2> QED
    BY <2>1 DEF IInv, AlikeInv
<1>14. TopicsInv'
  BY <1>1, TopicsFrame DEF IInv
<1>15. InboxInv'
  <2> SUFFICES ASSUME NEW i \in DOMAIN inbox
               PROVE  IF hconn THEN \A j \in DOMAIN inbox'[i] :
                          inbox'[i][j] = published[dataSubs[i]] - Len(inbox'[i]) + j
                      ELSE inbox'[i] = <<>>
    BY <1>1, <1>2 DEF InboxInv
  <2>1. CASE i # next
    <3>1. inbox'[i] = inbox[i]
      BY <1>1, <2>1
    <3> QED
      BY <3>1 DEF IInv, InboxInv
  <2>2. CASE i = next
    <3>1. inbox'[next] \in Seq(1 .. MaxPublished)
      BY <1>1, <1>2
    <3>2. DOMAIN inbox'[next] = 1 .. Len(q) - k
      <4>1. Len(inbox'[next]) = Len(q) - k
        BY <1>1
      <4>2. DOMAIN inbox'[next] = 1 .. Len(inbox'[next])
        BY <3>1
      <4> HIDE DEF q
      <4> QED
        BY <4>1, <4>2
    <3>3. CASE hconn
      <4>1. ASSUME NEW j \in DOMAIN inbox'[i]
            PROVE  inbox'[i][j] = published[dataSubs[i]] - Len(inbox'[i]) + j
        <5>1. j \in 1 .. Len(q) - k
          BY <2>2, <3>2
        <5>2. k + j \in 1 .. Len(q) /\ j \in Nat
          BY <1>9, <5>1
        <5>3. q[k + j] = published[dataSubs[next]] - Len(q) + (k + j)
          BY <1>5, <3>3, <5>2
        <5>4. inbox'[i][j] = q[k + j] /\ Len(inbox'[i]) = Len(q) - k
          BY <1>1, <2>2, <5>1
        <5> HIDE DEF q
        <5> QED
          BY <1>8, <1>9, <2>2, <5>2, <5>3, <5>4
      <4> QED
        BY <3>3, <4>1
    <3>4. CASE ~hconn
      <4>1. q = <<>>
        BY <1>1, <1>2, <3>4 DEF IInv, InboxInv
      <4>2. Len(inbox'[next]) = 0
        BY <1>1, <1>6, <3>4, <4>1
      <4> QED
        BY <2>2, <3>1, <3>4, <4>2
    <3> QED
      BY <3>3, <3>4
  <2> QED
    BY <2>1, <2>2
<1>16. OrderInv'
  <2> SUFFICES ASSUME NoOverlap
               PROVE  /\ \A m \in DOMAIN metrics' : \A s \in metrics'[m].left \cap OwnSeries :
                           gauge[s] <= metrics'[m].value
                      /\ \A m, n \in DOMAIN metrics' :
                           m < n /\ (metrics'[m].left \cap metrics'[n].left) \cap OwnSeries # {}
                             => metrics'[m].value < metrics'[n].value
    BY <1>1 DEF OrderInv, NoOverlap, config
  <2>1. ASSUME NEW m \in DOMAIN metrics', NEW s \in metrics'[m].left \cap OwnSeries
        PROVE  gauge[s] <= metrics'[m].value
    <3>1. CASE m \in DOMAIN metrics /\ metrics'[m] = metrics[m]
      BY <3>1, <2>1 DEF IInv, OrderInv
    <3>2. ASSUME NEW n \in 1 .. k, metrics'[m].left = S, metrics'[m].value = q[n]
          PROVE  gauge[s] <= metrics'[m].value
      <4>1. hconn /\ n \in 1 .. Len(q)
        BY <1>1, <1>2, <1>6
      <4>2. q[n] = published[dataSubs[next]] - Len(q) + n
        BY <1>5, <4>1
      <4>3. s \in S /\ \A j \in DOMAIN metrics : s \notin metrics[j].left
        BY <1>7, <1>18, <2>1, <3>2
      <4>4. gauge[s] = 0 \/ gauge[s] + Len(q) = published[dataSubs[next]]
        BY <1>1, <1>18, <2>1, <4>1, <4>3 DEF IInv, GapInv, Shown
      <4>5. gauge[s] \in Nat /\ Len(q) \in Nat /\ published[dataSubs[next]] \in Nat
        BY <1>2, <1>8, <4>3
      <4>6. q[n] \in Nat
        BY <1>9, <4>1
      <4> HIDE DEF q
      <4> QED
        BY <3>2, <4>2, <4>4, <4>5, <4>6
    <3> QED
      BY <1>3, <3>1, <3>2
  <2>2. ASSUME NEW m \in DOMAIN metrics', NEW n \in DOMAIN metrics', m < n,
               (metrics'[m].left \cap metrics'[n].left) \cap OwnSeries # {}
        PROVE  metrics'[m].value < metrics'[n].value
    <3>1. CASE m \in DOMAIN metrics /\ n \in DOMAIN metrics
      BY <1>1, <2>2, <3>1 DEF IInv, OrderInv
    <3>2. CASE m \in DOMAIN metrics /\ n \notin DOMAIN metrics
      BY <1>1, <1>3, <1>7, <1>18, <2>2, <3>2
    <3>3. CASE m \notin DOMAIN metrics
      <4>1. PICK a \in 1 .. k : m = L + a /\ metrics'[m].value = q[a]
        BY <1>3, <3>3
      <4>2. n \notin DOMAIN metrics
        BY <1>2, <2>2, <3>3
      <4>3. PICK b \in 1 .. k : n = L + b /\ metrics'[n].value = q[b]
        BY <1>3, <4>2
      <4>6. hconn
        BY <1>6
      <4>4. a \in 1 .. Len(q) /\ b \in 1 .. Len(q) /\ a < b
        <5>1. m < n /\ m = L + a /\ n = L + b /\ L \in Nat /\ k \in Nat
          BY <1>2, <2>2, <4>1, <4>3
        <5> HIDE DEF L, q
        <5> QED
          BY <1>9, <5>1
      <4>5. q[a] = published[dataSubs[next]] - Len(q) + a
            /\ q[b] = published[dataSubs[next]] - Len(q) + b
        BY <1>5, <4>4, <4>6
      <4> HIDE DEF q
      <4> QED
        BY <1>2, <1>8, <4>1, <4>3, <4>4, <4>5
    <3> QED
      BY <3>1, <3>2, <3>3
  <2> QED
    BY <2>1, <2>2
<1>17. GapInv'
  <2> SUFFICES ASSUME NoOverlap, hconn, NEW i \in DOMAIN dataSubs,
                      NEW s \in OwnSeriesOf(dataSubs[i])
               PROVE  /\ (\A m \in DOMAIN metrics' : s \notin metrics'[m].left) /\ Shown(s)
                           => gauge[s] + Len(inbox'[i]) = published[dataSubs[i]]
                      /\ \A m \in DOMAIN metrics' :
                           /\ s \in metrics'[m].left
                           /\ \A n \in DOMAIN metrics' : m < n => s \notin metrics'[n].left
                           => metrics'[m].value + Len(inbox'[i]) = published[dataSubs[i]]
    BY <1>1 DEF GapInv, NoOverlap, Shown, config
  <2>1. /\ (\A m \in DOMAIN metrics : s \notin metrics[m].left) /\ Shown(s)
             => gauge[s] + Len(inbox[i]) = published[dataSubs[i]]
        /\ \A m \in DOMAIN metrics :
             /\ s \in metrics[m].left
             /\ \A n \in DOMAIN metrics : m < n => s \notin metrics[n].left
             => metrics[m].value + Len(inbox[i]) = published[dataSubs[i]]
    BY DEF IInv, GapInv
  <2>2. CASE i # next
    <3>1. inbox'[i] = inbox[i]
      BY <1>1, <1>2, <2>2
    <3>2. s \notin S
      <4>1. dataSubs[i] # dataSubs[next]
        BY <1>1, <2>2 DEF IInv, TopicsInv, IsInjective
      <4> QED
        BY <1>1, <4>1, SeriesApart, Numbers DEF IInv, OwnSeriesOf
    <3>3. \A m \in DOMAIN metrics' :
            s \in metrics'[m].left => m \in DOMAIN metrics /\ metrics'[m] = metrics[m]
      BY <1>3, <3>2
    <3>4. ASSUME \A m \in DOMAIN metrics' : s \notin metrics'[m].left
          PROVE  \A m \in DOMAIN metrics : s \notin metrics[m].left
      BY <1>1, <1>4, <3>4
    <3>5. ASSUME NEW m \in DOMAIN metrics', s \in metrics'[m].left,
                 \A n \in DOMAIN metrics' : m < n => s \notin metrics'[n].left
          PROVE  metrics'[m].value + Len(inbox[i]) = published[dataSubs[i]]
      <4>1. m \in DOMAIN metrics /\ metrics'[m] = metrics[m]
        BY <3>3, <3>5
      <4>2. \A n \in DOMAIN metrics : n \in DOMAIN metrics' /\ metrics'[n] = metrics[n]
        BY <1>1, <1>4
      <4>3. \A n \in DOMAIN metrics : m < n => s \notin metrics[n].left
        BY <3>5, <4>2
      <4> QED
        BY <2>1, <3>5, <4>1, <4>3
    <3> QED
      BY <2>1, <3>1, <3>4, <3>5
  <2>3. CASE i = next
    <3>1. s \in S /\ \A m \in DOMAIN metrics : s \notin metrics[m].left
      BY <1>7, <1>18, <2>3
    <3>2. CASE k = 0
      <4>1. DOMAIN metrics' = DOMAIN metrics /\ Len(inbox'[i]) = Len(inbox[i])
        BY <1>1, <1>2, <2>3, <3>2
      <4> QED
        BY <1>1, <2>1, <3>1, <4>1
    <3>3. CASE k # 0
      <4>1. L + k \in DOMAIN metrics' /\ k \in 1 .. k
        BY <1>1, <1>2, <3>3
      <4>2. metrics'[L + k].left = S /\ metrics'[L + k].value = q[k]
        <5>1. metrics'[L + k] = [left |-> S, value |-> q[k]]
          BY <1>1, <4>1
        <5> HIDE DEF L, S, q
        <5> QED
          BY <5>1
      <4>3. ASSUME NEW m \in DOMAIN metrics', s \in metrics'[m].left,
                   \A n \in DOMAIN metrics' : m < n => s \notin metrics'[n].left
            PROVE  metrics'[m].value + Len(inbox'[i]) = published[dataSubs[i]]
        <5>1. m = L + k
          <6>1. L \in Nat /\ k \in Nat /\ m \in 1 .. L + k
            BY <1>2, <1>9
          <6>2. ~(m < L + k)
            BY <3>1, <4>1, <4>2, <4>3
          <6> QED
            BY <6>1, <6>2
        <5>2. metrics'[m].value = q[k] /\ k \in 1 .. Len(q)
          BY <1>9, <4>1, <4>2, <5>1
        <5>3. q[k] = published[dataSubs[next]] - Len(q) + k
          BY <1>5, <5>2
        <5>4. Len(inbox'[i]) = Len(q) - k
          BY <1>1, <2>3
        <5> HIDE DEF q
        <5> QED
          BY <1>8, <1>9, <2>3, <5>2, <5>3, <5>4
      <4> QED
        BY <3>1, <4>1, <4>2, <4>3
    <3> QED
      BY <3>2, <3>3
  <2> QED
    BY <2>2, <2>3
<1> QED
  BY <1>10, <1>11, <1>12, <1>13, <1>14, <1>15, <1>16, <1>17 DEF IInv

\* What one gauge takes from the metrics: the publication that is first loses the series,
\* and is gone (d = 1) when it has no other.
LEMMA ApplyEffect ==
  ASSUME IInv, Apply
  PROVE  \E s \in AllSeries : \E d \in {0, 1} :
    /\ pc = "apply" /\ pc' = pc /\ 1 \in DOMAIN metrics
    /\ s \in metrics[1].left /\ gauge' = [gauge EXCEPT ![s] = metrics[1].value]
    /\ UNCHANGED <<next, typeElements, todo, dataSubs, config, hconn, published, inbox>>
    /\ metrics' \in Seq([left: SUBSET AllSeries, value: 1 .. MaxPublished])
    /\ d = 1 <=> metrics[1].left = {s}
    /\ DOMAIN metrics' = 1 .. Len(metrics) - d
    /\ \A m \in DOMAIN metrics' :
         /\ metrics'[m].value = metrics[m + d].value
         /\ metrics'[m].left = metrics[m + d].left \ (IF m + d = 1 THEN {s} ELSE {})
<1> DEFINE R == [left: SUBSET AllSeries, value: 1 .. MaxPublished]
<1>1. /\ pc = "apply" /\ pc' = pc /\ metrics # <<>> /\ SetOne(1)
      /\ UNCHANGED <<next, typeElements, todo, dataSubs, config, hconn, published, inbox>>
  BY DEF Apply, broker
<1>2. /\ metrics \in Seq(R) /\ Len(metrics) \in Nat /\ DOMAIN metrics = 1 .. Len(metrics)
      /\ \A m \in DOMAIN metrics : metrics[m] \in R /\ metrics[m].left \subseteq AllSeries
  BY Numbers DEF IInv
<1>3. 1 \in DOMAIN metrics /\ Len(metrics) >= 1
  <2> HIDE DEF R
  <2> QED
    BY <1>1, <1>2
<1>4. PICK s \in metrics[1].left :
        LET left == metrics[1].left \ {s}
        IN /\ gauge' = [gauge EXCEPT ![s] = metrics[1].value]
           /\ metrics' = IF left = {} THEN RemoveAt(metrics, 1)
                                      ELSE [metrics EXCEPT ![1].left = left]
  BY <1>1 DEF SetOne
<1>5. s \in AllSeries
  BY <1>2, <1>3, <1>4
<1>6. CASE metrics[1].left = {s}
  <2>1. metrics' = SubSeq(metrics, 1, 0) \o SubSeq(metrics, 2, Len(metrics))
    BY <1>4, <1>6 DEF RemoveAt
  <2> HIDE DEF R
  <2>2. metrics' = [m \in 1 .. Len(metrics) - 1 |-> metrics[m + 1]]
    <3>1. SubSeq(metrics, 1, 0) = <<>>
      BY <1>2
    <3>2. /\ SubSeq(metrics, 2, Len(metrics)) \in Seq(R)
          /\ SubSeq(metrics, 2, Len(metrics)) = [m \in 1 .. Len(metrics) - 1 |-> metrics[m + 1]]
      BY <1>2, <1>3
    <3> QED
      BY <2>1, <3>1, <3>2
  <2>3. metrics' \in Seq(R)
    BY <1>2, <1>3, <2>2
  <2>4. \A m \in DOMAIN metrics' : metrics'[m] = metrics[m + 1] /\ m + 1 # 1
    BY <1>2, <2>2
  <2>5. DOMAIN metrics' = 1 .. Len(metrics) - 1
    BY <2>2
  <2>6. \A m \in DOMAIN metrics' :
          /\ metrics'[m].value = metrics[m + 1].value
          /\ metrics'[m].left = metrics[m + 1].left \ (IF m + 1 = 1 THEN {s} ELSE {})
    BY <2>4
  <2> QED
    BY <1>1, <1>3, <1>4, <1>5, <1>6, <2>3, <2>5, <2>6 DEF R
<1>7. CASE metrics[1].left # {s}
  <2> DEFINE left == metrics[1].left \ {s}
             e == [metrics[1] EXCEPT !.left = left]
  <2>1. left # {} /\ left \subseteq AllSeries
    BY <1>2, <1>3, <1>4, <1>7
  <2>2. metrics' = [metrics EXCEPT ![1] = e]
    BY <1>4, <2>1
  <2>3. e \in R /\ e.left = left /\ e.value = metrics[1].value
    BY <1>2, <1>3, <2>1
  <2> HIDE DEF R, left, e
  <2>4. metrics' \in Seq(R) /\ DOMAIN metrics' = DOMAIN metrics
    BY <1>2, <1>3, <2>2, <2>3
  <2>5. \A m \in DOMAIN metrics' : metrics'[m] = IF m = 1 THEN e ELSE metrics[m]
    BY <2>2, <2>4
  <2>6. \A m \in DOMAIN metrics' :
          /\ m + 0 = m
          /\ metrics'[m].value = metrics[m + 0].value
          /\ metrics'[m].left = metrics[m + 0].left \ (IF m + 0 = 1 THEN {s} ELSE {})
    <3> TAKE m \in DOMAIN metrics'
    <3>1. m \in Nat /\ m + 0 = m
      BY <1>2, <2>4
    <3> QED
      BY <2>3, <2>5, <3>1 DEF left
  <2>7. DOMAIN metrics' = 1 .. Len(metrics) - 0
    BY <1>2, <2>4
  <2>8. metrics' \in Seq([left: SUBSET AllSeries, value: 1 .. MaxPublished])
    BY <2>4 DEF R
  <2>9. (0 = 1 <=> metrics[1].left = {s}) /\ 0 \in {0, 1}
    BY <1>7
  <2> QED
    BY <1>1, <1>3, <1>4, <1>5, <2>6, <2>7, <2>8, <2>9
<1> QED
  BY <1>6, <1>7

\* A gauge shows the first of the publications that are to be applied to it, and the
\* others come after that one.
LEMMA ApplyStep ==
  ASSUME IInv, Apply
  PROVE  IInv'
<1> DEFINE S(i) == SeriesOf(dataSubs[i])
           O(i) == OwnSeriesOf(dataSubs[i])
<1>1. PICK s \in AllSeries, d \in {0, 1} :
    /\ pc = "apply" /\ pc' = pc /\ 1 \in DOMAIN metrics
    /\ s \in metrics[1].left /\ gauge' = [gauge EXCEPT ![s] = metrics[1].value]
    /\ UNCHANGED <<next, typeElements, todo, dataSubs, config, hconn, published, inbox>>
    /\ metrics' \in Seq([left: SUBSET AllSeries, value: 1 .. MaxPublished])
    /\ d = 1 <=> metrics[1].left = {s}
    /\ DOMAIN metrics' = 1 .. Len(metrics) - d
    /\ \A m \in DOMAIN metrics' :
         /\ metrics'[m].value = metrics[m + d].value
         /\ metrics'[m].left = metrics[m + d].left \ (IF m + d = 1 THEN {s} ELSE {})
  BY ApplyEffect
<1>2. /\ DOMAIN metrics = 1 .. Len(metrics) /\ Len(metrics) \in Nat
      /\ \A m \in DOMAIN metrics : metrics[m].value \in Nat
      /\ metrics[1].value \in 0 .. MaxPublished /\ DOMAIN gauge = AllSeries
      /\ gauge \in [AllSeries -> 0 .. MaxPublished]
      /\ \A t \in AllSeries : gauge[t] \in Nat
  <2>1. metrics[1] \in [left: SUBSET AllSeries, value: 1 .. MaxPublished]
    BY <1>1, Numbers DEF IInv
  <2>2. metrics[1].value \in 0 .. MaxPublished
    BY <2>1
  <2>3. gauge \in [AllSeries -> 0 .. MaxPublished]
    BY DEF IInv, TypeOK
  <2> QED
    BY <2>2, <2>3, Numbers DEF IInv
<1>3. \A t \in AllSeries : gauge'[t] = IF t = s THEN metrics[1].value ELSE gauge[t]
  BY <1>1, <1>2
<1>4. \A m \in DOMAIN metrics' : m + d \in DOMAIN metrics
  BY <1>1, <1>2
<1>5. \A m \in DOMAIN metrics : m # 1 =>
        m - d \in DOMAIN metrics' /\ metrics'[m - d].left = metrics[m].left
  <2> TAKE m \in DOMAIN metrics
  <2> SUFFICES ASSUME m # 1
               PROVE  m - d \in DOMAIN metrics' /\ metrics'[m - d].left = metrics[m].left
    OBVIOUS
  <2>1. m - d \in DOMAIN metrics' /\ (m - d) + d = m
    BY <1>1, <1>2
  <2> QED
    BY <1>1, <2>1
<1>6. d = 0 => 1 \in DOMAIN metrics' /\ metrics'[1].left = metrics[1].left \ {s}
  <2>1. d = 0 => 1 \in DOMAIN metrics'
    BY <1>1, <1>2
  <2> QED
    BY <1>1, <2>1
<1>7. \A i \in DOMAIN dataSubs :
        S(i) \subseteq AllSeries /\ dataSubs[i] \in Topics /\ O(i) = S(i) \cap OwnSeries
  BY SeriesKnown, Numbers DEF IInv, OwnSeriesOf
<1>8. TypeOK'
  <2>1. gauge' \in [AllSeries -> 0 .. MaxPublished]
    BY <1>1, <1>2
  <2> QED
    BY <1>1, <2>1 DEF IInv, TypeOK, config
<1>9. PlaceInv'
  BY <1>1 DEF IInv, PlaceInv, Shown, config
<1>10. BatchInv'
  <2> SUFFICES ASSUME NEW m \in DOMAIN metrics'
               PROVE  \E i \in DOMAIN dataSubs :
                        /\ i < next /\ metrics'[m].left \subseteq SeriesOf(dataSubs[i])
                        /\ \A r \in SeriesOf(dataSubs[i]) \ metrics'[m].left :
                             m = 1 /\ gauge'[r] = metrics'[m].value
    BY <1>1 DEF BatchInv
  <2>1. PICK i \in DOMAIN dataSubs :
          /\ i < next /\ metrics[m + d].left \subseteq S(i)
          /\ \A r \in S(i) \ metrics[m + d].left :
               m + d = 1 /\ gauge[r] = metrics[m + d].value
    BY <1>4 DEF IInv, BatchInv
  <2>2. /\ metrics'[m].value = metrics[m + d].value
        /\ metrics'[m].left = metrics[m + d].left \ (IF m + d = 1 THEN {s} ELSE {})
    BY <1>1
  <2>3. m + d = 1 => m = 1
    BY <1>1, <1>2
  <2>4. ASSUME NEW r \in S(i) \ metrics'[m].left
        PROVE  m = 1 /\ gauge'[r] = metrics'[m].value
    BY <1>3, <1>7, <2>1, <2>2, <2>3, <2>4
  <2> QED
    BY <2>1, <2>2, <2>4
<1>11. AlikeInv'
  <2> SUFFICES ASSUME NEW i \in DOMAIN dataSubs, NEW r \in O(i), NEW t \in O(i),
                      \A m \in DOMAIN metrics' : metrics'[m].left \cap O(i) = {}
               PROVE  gauge'[r] = gauge'[t]
    BY <1>1 DEF AlikeInv
  <2>3. \A x \in O(i) : x \in metrics[1].left => x = s
    BY <1>1, <1>6
  <2>1. CASE s \in O(i)
    <3>1. PICK k \in DOMAIN dataSubs :
            /\ metrics[1].left \subseteq S(k)
            /\ \A u \in S(k) \ metrics[1].left : gauge[u] = metrics[1].value
      BY <1>1 DEF IInv, BatchInv
    <3>2. dataSubs[i] = dataSubs[k]
      BY <1>1, <1>7, <2>1, <3>1, SeriesApart
    <3>3. \A x \in O(i) : gauge'[x] = metrics[1].value
      BY <1>3, <1>7, <2>3, <3>1, <3>2
    <3> QED
      BY <3>3
  <2>2. CASE s \notin O(i)
    <3>1. \A m \in DOMAIN metrics : metrics[m].left \cap O(i) = {}
      BY <1>5, <2>2, <2>3
    <3>2. gauge[r] = gauge[t]
      BY <3>1 DEF IInv, AlikeInv
    <3> QED
      BY <1>3, <1>7, <2>2, <3>2
  <2> QED
    BY <2>1, <2>2
<1>12. TopicsInv'
  BY <1>1, TopicsFrame DEF IInv
<1>13. InboxInv'
  BY <1>1 DEF IInv, InboxInv
<1>14. OrderInv'
  <2> SUFFICES ASSUME NoOverlap
               PROVE  /\ \A m \in DOMAIN metrics' : \A t \in metrics'[m].left \cap OwnSeries :
                           gauge'[t] <= metrics'[m].value
                      /\ \A m, n \in DOMAIN metrics' :
                           m < n /\ (metrics'[m].left \cap metrics'[n].left) \cap OwnSeries # {}
                             => metrics'[m].value < metrics'[n].value
    BY <1>1 DEF OrderInv, NoOverlap, config
  <2>1. /\ \A m \in DOMAIN metrics : \A t \in metrics[m].left \cap OwnSeries :
             gauge[t] <= metrics[m].value
        /\ \A m, n \in DOMAIN metrics :
             m < n /\ (metrics[m].left \cap metrics[n].left) \cap OwnSeries # {}
               => metrics[m].value < metrics[n].value
    BY DEF IInv, OrderInv
  <2>2. ASSUME NEW m \in DOMAIN metrics', NEW t \in metrics'[m].left \cap OwnSeries
        PROVE  gauge'[t] <= metrics'[m].value
    <3>1. m + d \in DOMAIN metrics /\ t \in metrics[m + d].left
          /\ metrics'[m].value = metrics[m + d].value /\ (t = s => m + d # 1)
          /\ t \in AllSeries /\ t \in OwnSeries
      <4>1. m + d \in DOMAIN metrics
        BY <1>4
      <4>2. metrics[m + d].left \subseteq AllSeries
        BY <4>1, Numbers DEF IInv
      <4> QED
        BY <1>1, <2>2, <4>1, <4>2
    <3>2. CASE t = s
      <4>1. 1 < m + d /\ s \in (metrics[1].left \cap metrics[m + d].left) \cap OwnSeries
        BY <1>1, <1>2, <3>1, <3>2
      <4>2. metrics[1].value < metrics[m + d].value
        BY <1>1, <2>1, <3>1, <4>1
      <4> QED
        BY <1>1, <1>2, <1>3, <3>1, <3>2, <4>2
    <3>3. CASE t # s
      BY <1>3, <2>1, <3>1, <3>3
    <3> QED
      BY <3>2, <3>3
  <2>3. ASSUME NEW m \in DOMAIN metrics', NEW n \in DOMAIN metrics', m < n,
               (metrics'[m].left \cap metrics'[n].left) \cap OwnSeries # {}
        PROVE  metrics'[m].value < metrics'[n].value
    <3>1. m + d \in DOMAIN metrics /\ n + d \in DOMAIN metrics
      BY <1>4
    <3>2. m + d < n + d
      BY <1>1, <2>3
    <3>3. (metrics[m + d].left \cap metrics[n + d].left) \cap OwnSeries # {}
      BY <1>1, <2>3
    <3> QED
      BY <1>1, <2>1, <3>1, <3>2, <3>3
  <2> QED
    BY <2>2, <2>3
<1>15. GapInv'
  <2> SUFFICES ASSUME NoOverlap, hconn, NEW i \in DOMAIN dataSubs, NEW t \in O(i)
               PROVE  /\ (\A m \in DOMAIN metrics' : t \notin metrics'[m].left) /\ gauge'[t] # 0
                           => gauge'[t] + Len(inbox[i]) = published[dataSubs[i]]
                      /\ \A m \in DOMAIN metrics' :
                           /\ t \in metrics'[m].left
                           /\ \A n \in DOMAIN metrics' : m < n => t \notin metrics'[n].left
                           => metrics'[m].value + Len(inbox[i]) = published[dataSubs[i]]
    BY <1>1 DEF GapInv, NoOverlap, Shown, config
  <2>1. /\ (\A m \in DOMAIN metrics : t \notin metrics[m].left) /\ gauge[t] # 0
             => gauge[t] + Len(inbox[i]) = published[dataSubs[i]]
        /\ \A m \in DOMAIN metrics :
             /\ t \in metrics[m].left
             /\ \A n \in DOMAIN metrics : m < n => t \notin metrics[n].left
             => metrics[m].value + Len(inbox[i]) = published[dataSubs[i]]
    BY DEF IInv, GapInv, Shown
  <2>2. ASSUME \A m \in DOMAIN metrics' : t \notin metrics'[m].left, gauge'[t] # 0
        PROVE  gauge'[t] + Len(inbox[i]) = published[dataSubs[i]]
    <3>1. \A m \in DOMAIN metrics : m # 1 => t \notin metrics[m].left
      BY <1>5, <2>2
    <3>2. CASE t = s
      <4>1. \A n \in DOMAIN metrics : 1 < n => t \notin metrics[n].left
        BY <3>1
      <4>2. metrics[1].value + Len(inbox[i]) = published[dataSubs[i]]
        BY <1>1, <2>1, <3>2, <4>1
      <4> QED
        BY <1>3, <3>2, <4>2
    <3>3. CASE t # s
      <4>1. t \notin metrics[1].left
        BY <1>1, <1>6, <2>2, <3>3
      <4>2. gauge'[t] = gauge[t]
        BY <1>3, <1>7, <3>3
      <4> QED
        BY <2>1, <2>2, <3>1, <4>1, <4>2
    <3> QED
      BY <3>2, <3>3
  <2>3. ASSUME NEW m \in DOMAIN metrics', t \in metrics'[m].left,
               \A n \in DOMAIN metrics' : m < n => t \notin metrics'[n].left
        PROVE  metrics'[m].value + Len(inbox[i]) = published[dataSubs[i]]
    <3>1. m + d \in DOMAIN metrics /\ t \in metrics[m + d].left
          /\ metrics'[m].value = metrics[m + d].value
      BY <1>1, <1>4, <2>3
    <3>2. ASSUME NEW n \in DOMAIN metrics, m + d < n PROVE t \notin metrics[n].left
      <4>1. n # 1 /\ m < n - d
        BY <1>1, <1>2, <3>1, <3>2
      <4> QED
        BY <1>5, <2>3, <4>1
    <3> QED
      BY <2>1, <3>1, <3>2
  <2> QED
    BY <2>2, <2>3
<1> QED
  BY <1>8, <1>9, <1>10, <1>11, <1>12, <1>13, <1>14, <1>15 DEF IInv

-----------------------------------------------------------------------------
(* The theorems.                                                           *)

\* The invariant holds in every state.
THEOREM Inductive ==
  Spec => []IInv
<1>1. IInv /\ [Next]_vars => IInv'
  BY DiscoverStep, QuietStep, SubscribeStep, ProcessStep, ReadStep, ApplyStep,
     ApplyDoneStep, CloseStep, PublishStep, BreakStep DEF Next, Monitor
<1> QED
  BY InitStep, <1>1, PTL DEF Spec

\* The variables keep their types: next stays within the subscriptions, there is a
\* queue for each of them, and a gauge shows a publication that there was or none.
THEOREM TypeCorrect ==
  Spec => []TypeOK
<1>1. IInv => TypeOK
  BY DEF IInv
<1> QED
  BY Inductive, <1>1, PTL

\* Of a series that one type sets, process_publications() skips no publication and leaves
\* none out that it has read, however many arrive while it reads, for each max_messages.
THEOREM NoneSkipped ==
  Spec => []NothingSkipped
<1>1. IInv => NothingSkipped
  <2> SUFFICES ASSUME IInv, pc = "idle", hconn, NoOverlap, NEW i \in DOMAIN dataSubs,
                      NEW s \in Fed(i) \cap OwnSeries, gauge[s] # 0
               PROVE  gauge[s] + Len(inbox[i]) = published[dataSubs[i]]
    BY DEF NothingSkipped
  <2>1. metrics = <<>>
    BY DEF IInv, PlaceInv
  <2>2. s \in OwnSeriesOf(dataSubs[i])
    BY DEF Fed, SeriesOf, OwnSeriesOf
  <2> QED
    BY <2>1, <2>2 DEF IInv, GapInv, Shown
<1> QED
  BY Inductive, <1>1, PTL

\* Between collections the elements of a type that no other type sets show the same
\* publication, whatever element ids the types share, and with lists that name a queue
\* twice as well.
THEOREM OneView ==
  Spec => []OneViewOfEachType
<1>1. IInv => OneViewOfEachType
  <2> SUFFICES ASSUME IInv, pc = "idle", NEW i \in DOMAIN dataSubs,
                      NEW r \in Fed(i) \cap OwnSeries, NEW s \in Fed(i) \cap OwnSeries
               PROVE  gauge[r] = gauge[s]
    BY DEF OneViewOfEachType
  <2>1. metrics = <<>>
    BY DEF IInv, PlaceInv
  <2>2. r \in OwnSeriesOf(dataSubs[i]) /\ s \in OwnSeriesOf(dataSubs[i])
    BY DEF Fed, SeriesOf, OwnSeriesOf
  <2> QED
    BY <2>1, <2>2 DEF IInv, AlikeInv
<1> QED
  BY Inductive, <1>1, PTL

\* No step of a collection returns a gauge that one type sets to an older publication,
\* as long as the list of queues names none twice.
THEOREM NeverBack ==
  Spec => NeverGoesBack
<1> DEFINE Forward == NoOverlap => \A s \in OwnSeries : gauge'[s] >= gauge[s]
<1>1. IInv /\ [Next]_vars => [Forward]_vars
  <2> SUFFICES ASSUME IInv, Next, NoOverlap, NEW t \in OwnSeries
               PROVE  gauge'[t] >= gauge[t]
    OBVIOUS
  <2>3. t \in AllSeries
    BY DEF OwnSeries
  <2>1. CASE Apply
    <3>1. PICK s \in AllSeries :
            /\ 1 \in DOMAIN metrics
            /\ s \in metrics[1].left /\ gauge' = [gauge EXCEPT ![s] = metrics[1].value]
      BY <2>1, ApplyEffect
    <3>2. s \in OwnSeries => gauge[s] <= metrics[1].value
      BY <3>1 DEF IInv, OrderInv
    <3>3. /\ gauge[t] \in Nat /\ gauge[s] \in Nat /\ metrics[1].value \in Nat
          /\ DOMAIN gauge = AllSeries
      BY <2>3, <3>1, Numbers DEF IInv, TypeOK
    <3> QED
      BY <2>3, <3>1, <3>2, <3>3
  <2>2. CASE gauge' = gauge
    BY <2>2, <2>3, Numbers DEF IInv
  <2> QED
    BY <2>1, <2>2 DEF Next, Monitor, Discover, DiscoverFails, Subscribe, SubscribeFails,
       Subscribed, Process, ReadHandle, ReadDone, ApplyDone, Close, Publish,
       ConnectionBreaks, local
<1> QED
  BY Inductive, <1>1, PTL DEF Spec, NeverGoesBack
=============================================================================
