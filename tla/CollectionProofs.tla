-------------------------- MODULE CollectionProofs --------------------------
(***************************************************************************)
(* The safety of Collection for every set of queues and configurations and *)
(* every bound: the balance of the accounting messages, the inquiry has    *)
(* the last word on a depth, each section is tried, and exclusions hold.   *)
(*                                                                         *)
(* A collection passes through its steps in one order, which Advance       *)
(* states; the inductive invariant says what each step may assume of those *)
(* before it.                                                              *)
(***************************************************************************)
EXTENDS Collection, TLAPS, WellFoundedInduction

\* Behind the inquiries a depth that was inquired is the one shown.
DepthInv ==
    pc \in {"handles", "status", "publications", "baseline"} =>
        \A q \in Queues : depthRead[q] # NoSeries => depthGauge[q] = depthRead[q]

\* The sections begun are those before the present one; behind them, all.
SectionInv ==
    /\ section \in 1 .. LastSection
    /\ pc # "status" => section = 1
    /\ pc \in {"stats", "acct", "messages", "queues", "queue_metrics", "handles"} =>
         attempted = {}
    /\ pc = "status" =>
         /\ attempted = {Sections[i] : i \in 1 .. section - 1}
         /\ section > 1 => config.use_status /\ connected
    /\ (pc \in {"publications", "baseline"} /\ config.use_status /\ connected) =>
         attempted = {Sections[i] : i \in 1 .. LastSection}

\* The queues that no inquiry may show are not on the list, which is what each
\* inquiry reads.
ExclusionInv ==
    /\ cachedQueues \cap (Excluded \ SystemQueues) = {}
    /\ ExcludedNotShown

\* The batch lives from the drain to the step that applies it: no drain finds one
\* that it would replace.
BalanceInv ==
    /\ pc # "messages" => acctMsgs = 0
    /\ AccountingBalances

IInv == TypeOK /\ BalanceInv /\ DepthInv /\ SectionInv /\ ExclusionInv

-----------------------------------------------------------------------------
(* The operators of the model.                                             *)

\* What is not empty and bounded has a last element.
LEMMA LastOf ==
  ASSUME NEW n \in Nat, NEW A \in SUBSET (1 .. n), A # {}
  PROVE  \E i \in A : \A j \in A : j <= i
<1> DEFINE D == {n - i : i \in A}
<1>1. D \subseteq Nat
  <2> SUFFICES ASSUME NEW i \in A PROVE n - i \in Nat
    OBVIOUS
  <2> QED
    OBVIOUS
<1>2. D # {}
  OBVIOUS
<1>3. PICK x \in D : \A y \in D : <<y, x>> \notin OpToRel(<, Nat)
  BY <1>1, <1>2, NatLessThanWellFounded, WFMin
<1>4. \A y \in D : ~(y < x)
  BY <1>1, <1>3 DEF OpToRel
<1>5. PICK i \in A : x = n - i
  OBVIOUS
<1>6. \A j \in A : ~(n - j < n - i)
  BY <1>4, <1>5
<1> QED
  BY <1>6

\* A message reports a value, and without one the gauge stays.
LEMMA ReportedType ==
  ASSUME TypeOK, NEW x, NEW shown
  PROVE  Reported(x, shown) \in Values \cup {shown}
<1>1. CASE About(x) = {}
  BY <1>1 DEF Reported
<1>2. CASE About(x) # {}
  <2>1. /\ Len(statsMsgs) \in Nat /\ DOMAIN statsMsgs = 1 .. Len(statsMsgs)
        /\ \A i \in DOMAIN statsMsgs : statsMsgs[i] \in Message
    <3>1. statsMsgs \in Seq(Message)
      BY DEF TypeOK
    <3> QED
      BY <3>1
  <2>2. \E i \in About(x) : \A j \in About(x) : j <= i
    <3> About(x) \in SUBSET (1 .. Len(statsMsgs))
      BY <2>1 DEF About
    <3> QED
      BY <1>2, <2>1, LastOf
  <2> DEFINE last == CHOOSE i \in About(x) : \A j \in About(x) : j <= i
  <2>3. last \in About(x)
    BY <2>2
  <2>4. statsMsgs[last] \in Message
    BY <2>1, <2>3 DEF About
  <2> QED
    BY <1>2, <2>4 DEF Reported, Message
<1> QED
  BY <1>1, <1>2

\* An inquiry reads nothing of a queue that is not on the list.
LEMMA ReadingsKeepToTheList ==
  ASSUME NEW r \in Readings
  PROVE  \A q \in Queues \ cachedQueues : r[q] = NoSeries
  BY DEF Readings, Nothing

\* The steps of collect_metrics() follow each other in one order.
LEMMA AdvanceOrder ==
  ASSUME Advance
  PROVE  /\ pc = "stats" => pc' = "acct"
         /\ pc = "acct" => pc' = "messages"
         /\ pc = "messages" => pc' = "queues"
         /\ pc = "queues" => pc' = "queue_metrics"
         /\ pc = "queue_metrics" => pc' = "handles"
         /\ pc = "handles" => pc' = "status"
         /\ pc = "status" => pc' = "publications"
         /\ pc = "publications" => pc' = "baseline"
         /\ pc = "baseline" => pc' = "idle"
         /\ UNCHANGED <<config, section>>
  BY DEF Advance, Order

\* The steps by name.
LEMMA StepNames ==
  Steps = {"stats", "acct", "messages", "queues", "queue_metrics", "handles",
           "status", "publications", "baseline", "idle"}
<1>1. DOMAIN Order = 1 .. 10
  BY DEF Order
<1> QED
  BY <1>1 DEF Steps, Order

\* What TypeOK says of the numbers.
LEMMA Counters ==
  ASSUME TypeOK
  PROVE  /\ MaxAccounting \in Nat
         /\ opens \in Nat /\ acctMsgs \in Nat /\ acctQueue \in Nat /\ acctMade \in Nat
         /\ lost \in Nat /\ overwritten \in BOOLEAN
         /\ MaxValue \in Nat /\ opens \in 0 .. MaxValue + MaxAccounting
         /\ acctMade <= MaxAccounting /\ acctMsgs <= MaxAccounting
         /\ acctQueue <= MaxAccounting
<1>1. /\ acctMsgs \in 0 .. MaxAccounting
      /\ acctQueue \in 0 .. MaxAccounting /\ acctMade \in 0 .. MaxAccounting
      /\ opens \in 0 .. MaxValue + MaxAccounting /\ lost \in Nat
      /\ overwritten \in BOOLEAN
  BY DEF TypeOK
<1>2. MaxAccounting \in Nat /\ MaxValue \in Nat
  BY BoundsAssumption
<1> QED
  BY <1>1, <1>2

\* What the gauge of the application shows is a number.
LEMMA OpensType ==
  ASSUME TypeOK
  PROVE  /\ Reported(Application, opens) \in Nat
         /\ Reported(Application, opens) <= MaxValue \/ Reported(Application, opens) = opens
         /\ About(Application) = {} => Reported(Application, opens) = opens
<1>1. \A v \in Values : v \in Nat /\ v <= MaxValue
  BY BoundsAssumption DEF Values
<1> QED
  BY <1>1, ReportedType, Counters DEF Reported

\* What a number of messages is moved from one place to another, or added to what was
\* counted, leaves the sum alone.
LEMMA Moved ==
  ASSUME NEW o \in Nat, NEW a \in Nat, NEW q \in Nat, NEW l \in Nat, NEW k \in 0 .. q
  PROVE  /\ k \in Nat /\ q - k \in Nat /\ l + k \in Nat
         /\ a + (q - k) + (l + k) = a + q + l
         /\ o + a + (q - k) + (l + k) = o + a + q + l
         /\ o + 0 + q + l <= o + a + q + l
         /\ 0 + q + l <= a + q + l
  OBVIOUS

\* No message, and a part of the messages, are messages.
LEMMA Messages ==
  ASSUME NEW s \in Seq(Message)
  PROVE  /\ <<>> \in Seq(Message)
         /\ \A k \in 0 .. Len(s) : SubSeq(s, k + 1, Len(s)) \in Seq(Message)
         /\ \A m \in Message : Append(s, m) \in Seq(Message)
  OBVIOUS
-----------------------------------------------------------------------------
(* Each step preserves each part of the invariant.                         *)

\* Every step preserves the type invariant.
LEMMA TypeStep == TypeOK /\ BalanceInv /\ [Next]_vars => TypeOK'
<1> SUFFICES ASSUME TypeOK, BalanceInv, [Next]_vars PROVE TypeOK'
  OBVIOUS
<1> USE DEF batch, gauges, history, qmgr, collector
<1>1. CASE Begin
  BY <1>1, StepNames, BoundsAssumption DEF TypeOK, Values, Series, Begin, Nothing
<1>2. CASE DrainStats
  <2>1. statsMsgs' \in Seq(Message) /\ statsQueue' \in Seq(Message)
    BY <1>2, Messages DEF DrainStats, TypeOK
  <2> QED
    BY <1>2, <2>1, StepNames, AdvanceOrder DEF TypeOK, DrainStats
<1>3. CASE DrainStatsFails
  <2>1. statsMsgs' \in Seq(Message) /\ statsQueue' \in Seq(Message)
    BY <1>3, Messages DEF DrainStatsFails, TypeOK
  <2> QED
    BY <1>3, <2>1, StepNames, AdvanceOrder DEF TypeOK, DrainStatsFails
<1>4. CASE DrainAccounting
  <2>1. /\ opens' \in 0 .. MaxValue + MaxAccounting /\ lost' \in Nat
        /\ acctMsgs' \in 0 .. MaxAccounting
        /\ acctQueue' \in 0 .. MaxAccounting /\ acctMade' \in 0 .. MaxAccounting
    BY <1>4, Counters DEF DrainAccounting, BalanceInv, AccountingBalances
  <2>2. statsMsgs' \in Seq(Message) /\ statsQueue' \in Seq(Message)
    BY <1>4, Messages DEF DrainAccounting, TypeOK
  <2> QED
    BY <1>4, <2>1, <2>2, StepNames, AdvanceOrder DEF TypeOK, DrainAccounting
<1>5. CASE DrainAccountingFails
  <2>1. /\ opens' \in 0 .. MaxValue + MaxAccounting /\ lost' \in Nat
        /\ acctMsgs' \in 0 .. MaxAccounting
        /\ acctQueue' \in 0 .. MaxAccounting /\ acctMade' \in 0 .. MaxAccounting
    <3>1. PICK k \in 0 .. acctQueue : acctQueue' = acctQueue - k /\ lost' = lost + k
      BY <1>5 DEF DrainAccountingFails
    <3> QED
      BY <1>5, <3>1, Counters DEF DrainAccountingFails
  <2>2. statsMsgs' \in Seq(Message) /\ statsQueue' \in Seq(Message)
    BY <1>5, Messages DEF DrainAccountingFails, TypeOK
  <2> QED
    BY <1>5, <2>1, <2>2, StepNames, AdvanceOrder DEF TypeOK, DrainAccountingFails
<1>6. CASE ApplyMessages
  <2>1. /\ opens' \in 0 .. MaxValue + MaxAccounting /\ lost' \in Nat
        /\ acctMsgs' \in 0 .. MaxAccounting
        /\ acctQueue' \in 0 .. MaxAccounting /\ acctMade' \in 0 .. MaxAccounting
    <3>1. 0 \in 0 .. MaxAccounting
      BY BoundsAssumption
    <3>2. Reported(Application, opens) + acctMsgs \in 0 .. MaxValue + MaxAccounting
      BY Counters, OpensType DEF BalanceInv, AccountingBalances
    <3> QED
      BY <1>6, <3>1, <3>2, Counters DEF ApplyMessages
  <2>2. statsMsgs' \in Seq(Message) /\ statsQueue' \in Seq(Message)
    BY <1>6, Messages DEF ApplyMessages, TypeOK
  <2>3. depthGauge' \in [Queues -> Series]
    <3>1. \A q \in Queues : depthGauge[q] \in Series
      BY DEF TypeOK
    <3>2. \A q \in Queues : Reported(q, depthGauge[q]) \in Series
      BY <3>1, ReportedType DEF Series
    <3> QED
      BY <1>6, <3>2 DEF ApplyMessages
  <2> QED
    BY <1>6, <2>1, <2>2, StepNames, AdvanceOrder, <2>3 DEF TypeOK, ApplyMessages
<1>7. CASE ApplyThrows
  <2>1. /\ opens' \in 0 .. MaxValue + MaxAccounting /\ lost' \in Nat
        /\ acctMsgs' \in 0 .. MaxAccounting
        /\ acctQueue' \in 0 .. MaxAccounting /\ acctMade' \in 0 .. MaxAccounting
    BY <1>7, Counters DEF ApplyThrows
  <2>2. statsMsgs' \in Seq(Message) /\ statsQueue' \in Seq(Message)
    BY <1>7, Messages DEF ApplyThrows, TypeOK
  <2> QED
    BY <1>7, <2>1, <2>2, StepNames DEF TypeOK, ApplyThrows
<1>8. CASE QueuesToMonitor
  BY <1>8, AdvanceOrder, StepNames, BoundsAssumption, QueuesAssumption
  DEF TypeOK, Values, Series, QueuesToMonitor, Found
<1>9. CASE QueueMetrics
  BY <1>9, AdvanceOrder, StepNames, BoundsAssumption
  DEF TypeOK, Values, Series, QueueMetrics, Readings, Nothing
<1>10. CASE HandleMetrics
  BY <1>10, AdvanceOrder, StepNames, BoundsAssumption
  DEF TypeOK, Values, Series, HandleMetrics, Readings, Nothing
<1>11. CASE SkipStatus
  BY <1>11, AdvanceOrder, StepNames, BoundsAssumption
  DEF TypeOK, Values, Series, SkipStatus
<1>12. CASE QmgrStatus
  <2>1. LastSection \in {6, 7} /\ section \in 1 .. 7
    BY DEF LastSection, TypeOK
  <2>2. section' \in 1 .. 7 /\ pc' \in Steps
    <3>1. InStatus
      BY <1>12 DEF QmgrStatus
    <3> QED
      BY <2>1, <3>1, StepNames DEF InStatus, NextSection
  <2>3. attempted' \subseteq {Sections[i] : i \in 1 .. 7}
    BY <1>12, <2>1 DEF QmgrStatus, InStatus, TypeOK
  <2>4. config.description \in {"", "text"}
    BY ConfigsAssumption DEF TypeOK, ConfigType
  <2>5. qmgrStatus' \in [{"", "text"} -> {"none", "unavailable", "running"}]
    BY <1>12, <2>4 DEF QmgrStatus, TypeOK
  <2> QED
    BY <1>12, <2>2, <2>3, <2>5 DEF TypeOK, QmgrStatus, InStatus, NextSection
<1>13. CASE QueueOnlineStatus
  <2>1. LastSection \in {6, 7} /\ section \in 1 .. 7
    BY DEF LastSection, TypeOK
  <2>2. section' \in 1 .. 7 /\ pc' \in Steps
    <3>1. InStatus
      BY <1>13 DEF QueueOnlineStatus
    <3> QED
      BY <2>1, <3>1, StepNames DEF InStatus, NextSection
  <2>3. attempted' \subseteq {Sections[i] : i \in 1 .. 7}
    BY <1>13, <2>1 DEF QueueOnlineStatus, InStatus, TypeOK
  <2>4. online' \subseteq Queues
    BY <1>13 DEF QueueOnlineStatus, TypeOK
  <2> QED
    BY <1>13, <2>2, <2>3, <2>4 DEF TypeOK, QueueOnlineStatus, InStatus, NextSection
<1>14. CASE OtherStatus
  <2>1. LastSection \in {6, 7} /\ section \in 1 .. 7
    BY DEF LastSection, TypeOK
  <2>2. section' \in 1 .. 7 /\ pc' \in Steps
    BY <1>14, <2>1, StepNames DEF OtherStatus, InStatus, NextSection
  <2>3. attempted' \subseteq {Sections[i] : i \in 1 .. 7}
    BY <1>14, <2>1 DEF OtherStatus, InStatus, TypeOK
  <2> QED
    BY <1>14, <2>2, <2>3 DEF TypeOK, OtherStatus, InStatus, NextSection
<1>15. CASE Publications
  BY <1>15, AdvanceOrder, StepNames, BoundsAssumption
  DEF TypeOK, Values, Series, Publications
<1>16. CASE Baseline
  BY <1>16, AdvanceOrder, StepNames, BoundsAssumption
  DEF TypeOK, Values, Series, Baseline
<1>17. CASE WritesStatistics
  <2>1. statsMsgs' \in Seq(Message) /\ statsQueue' \in Seq(Message)
    BY <1>17, Messages DEF WritesStatistics, TypeOK
  <2> QED
    BY <1>17, <2>1, StepNames DEF TypeOK, WritesStatistics
<1>18. CASE WritesAccounting
  <2>1. /\ opens' \in 0 .. MaxValue + MaxAccounting /\ lost' \in Nat
        /\ acctMsgs' \in 0 .. MaxAccounting
        /\ acctQueue' \in 0 .. MaxAccounting /\ acctMade' \in 0 .. MaxAccounting
    BY <1>18, Counters DEF WritesAccounting, BalanceInv, AccountingBalances
  <2>2. statsMsgs' \in Seq(Message) /\ statsQueue' \in Seq(Message)
    BY <1>18, Messages DEF WritesAccounting, TypeOK
  <2> QED
    BY <1>18, <2>1, <2>2, StepNames DEF TypeOK, WritesAccounting
<1>19. CASE ConnectionBreaks
  BY <1>19, StepNames, BoundsAssumption DEF TypeOK, Values, Series, ConnectionBreaks
<1>20. CASE UNCHANGED vars
  BY <1>20, StepNames, BoundsAssumption DEF TypeOK, Values, Series, vars
<1> QED
  BY <1>1, <1>2, <1>3, <1>4, <1>5, <1>6, <1>7, <1>8, <1>9, <1>10, <1>11, <1>12,
     <1>13, <1>14, <1>15, <1>16, <1>17, <1>18, <1>19, <1>20
  DEF Next, CollectMetrics, QueueManager

\* No step counts an accounting message that it leaves on the queue or in the batch.
LEMMA CountStep == TypeOK /\ BalanceInv /\ [Next]_vars => BalanceInv'
<1> SUFFICES ASSUME TypeOK, BalanceInv, [Next]_vars PROVE BalanceInv'
  OBVIOUS
<1> USE DEF batch, gauges, history, qmgr, collector
<1>1. CASE Begin
  BY <1>1, Counters DEF BalanceInv, AccountingBalances, Begin
<1>2. CASE DrainStats
  BY <1>2, Counters, AdvanceOrder DEF BalanceInv, AccountingBalances, DrainStats
<1>3. CASE DrainStatsFails
  BY <1>3, Counters, AdvanceOrder DEF BalanceInv, AccountingBalances, DrainStatsFails
<1>4. CASE DrainAccounting
  <2>1. /\ acctMsgs = 0 /\ acctMsgs' = acctQueue /\ acctQueue' = 0 /\ pc' = "messages"
        /\ UNCHANGED <<opens, overwritten, lost, acctMade>>
    BY <1>4, AdvanceOrder DEF DrainAccounting, BalanceInv
  <2> QED
    BY <2>1, Counters DEF BalanceInv, AccountingBalances
<1>5. CASE DrainAccountingFails
  <2>1. /\ acctMsgs = 0 /\ acctMsgs' = 0 /\ pc' = "messages"
        /\ UNCHANGED <<opens, overwritten, acctMade>>
    BY <1>5, AdvanceOrder DEF DrainAccountingFails, BalanceInv
  <2>2. PICK k \in 0 .. acctQueue : acctQueue' = acctQueue - k /\ lost' = lost + k
    BY <1>5 DEF DrainAccountingFails
  <2> QED
    BY <2>1, <2>2, Counters, Moved DEF BalanceInv, AccountingBalances
<1>6. CASE ApplyMessages
  <2>1. /\ acctMsgs' = 0 /\ UNCHANGED <<acctQueue, lost, acctMade>>
        /\ overwritten' = (overwritten \/ About(Application) # {})
        /\ opens' = Reported(Application, opens) + acctMsgs
    BY <1>6 DEF ApplyMessages
  <2>2. acctMsgs' + acctQueue' + lost' <= acctMade'
    BY <2>1, Counters DEF BalanceInv, AccountingBalances
  <2>4. opens' + acctMsgs' + acctQueue' + lost' <= acctMade' + MaxValue
    BY <2>1, Counters, OpensType DEF BalanceInv, AccountingBalances
  <2>3. ASSUME ~overwritten'
        PROVE  opens' + acctMsgs' + acctQueue' + lost' = acctMade'
    <3>1. ~overwritten /\ opens' = opens + acctMsgs
      BY <2>1, <2>3, OpensType, Counters
    <3> QED
      BY <2>1, <3>1, Counters DEF BalanceInv, AccountingBalances
  <2> QED
    BY <2>1, <2>2, <2>3, <2>4 DEF BalanceInv, AccountingBalances, ApplyMessages
<1>7. CASE ApplyThrows
  BY <1>7, Counters DEF BalanceInv, AccountingBalances, ApplyThrows
<1>8. CASE QueuesToMonitor
  BY <1>8, Counters, AdvanceOrder DEF BalanceInv, AccountingBalances, QueuesToMonitor
<1>9. CASE QueueMetrics
  BY <1>9, Counters, AdvanceOrder DEF BalanceInv, AccountingBalances, QueueMetrics
<1>10. CASE HandleMetrics
  BY <1>10, Counters, AdvanceOrder DEF BalanceInv, AccountingBalances, HandleMetrics
<1>11. CASE SkipStatus
  BY <1>11, Counters, AdvanceOrder DEF BalanceInv, AccountingBalances, SkipStatus
<1>12. CASE QmgrStatus
  BY <1>12, Counters DEF BalanceInv, AccountingBalances, QmgrStatus, InStatus, NextSection
<1>13. CASE QueueOnlineStatus
  BY <1>13, Counters DEF BalanceInv, AccountingBalances, QueueOnlineStatus, InStatus, NextSection
<1>14. CASE OtherStatus
  BY <1>14, Counters DEF BalanceInv, AccountingBalances, OtherStatus, InStatus, NextSection
<1>15. CASE Publications
  BY <1>15, Counters, AdvanceOrder DEF BalanceInv, AccountingBalances, Publications
<1>16. CASE Baseline
  BY <1>16, Counters, AdvanceOrder DEF BalanceInv, AccountingBalances, Baseline
<1>17. CASE WritesStatistics
  BY <1>17, Counters DEF BalanceInv, AccountingBalances, WritesStatistics
<1>18. CASE WritesAccounting
  BY <1>18, Counters DEF BalanceInv, AccountingBalances, WritesAccounting
<1>19. CASE ConnectionBreaks
  BY <1>19, Counters DEF BalanceInv, AccountingBalances, ConnectionBreaks
<1>20. CASE UNCHANGED vars
  BY <1>20, Counters DEF BalanceInv, AccountingBalances, vars
<1> QED
  BY <1>1, <1>2, <1>3, <1>4, <1>5, <1>6, <1>7, <1>8, <1>9, <1>10, <1>11, <1>12,
     <1>13, <1>14, <1>15, <1>16, <1>17, <1>18, <1>19, <1>20
  DEF Next, CollectMetrics, QueueManager

\* The inquiries of a collection set the depths, and nothing behind them does.
LEMMA DepthStep == TypeOK /\ DepthInv /\ [Next]_vars => DepthInv'
<1> SUFFICES ASSUME TypeOK, DepthInv, [Next]_vars PROVE DepthInv'
  OBVIOUS
<1> USE DEF batch, gauges, history, qmgr, collector
<1>1. CASE Begin
  BY <1>1 DEF DepthInv, Begin
<1>2. CASE DrainStats
  BY <1>2, AdvanceOrder DEF DepthInv, DrainStats
<1>3. CASE DrainStatsFails
  BY <1>3, AdvanceOrder DEF DepthInv, DrainStatsFails
<1>4. CASE DrainAccounting
  BY <1>4, AdvanceOrder DEF DepthInv, DrainAccounting
<1>5. CASE DrainAccountingFails
  BY <1>5, AdvanceOrder DEF DepthInv, DrainAccountingFails
<1>6. CASE ApplyMessages
  BY <1>6, AdvanceOrder DEF DepthInv, ApplyMessages
<1>7. CASE ApplyThrows
  BY <1>7 DEF DepthInv, ApplyThrows
<1>8. CASE QueuesToMonitor
  BY <1>8, AdvanceOrder DEF DepthInv, QueuesToMonitor
<1>9. CASE QueueMetrics
  BY <1>9, AdvanceOrder DEF DepthInv, QueueMetrics, Readings, Nothing, TypeOK
<1>10. CASE HandleMetrics
  BY <1>10, AdvanceOrder DEF DepthInv, HandleMetrics
<1>11. CASE SkipStatus
  BY <1>11, AdvanceOrder DEF DepthInv, SkipStatus
<1>12. CASE QmgrStatus
  BY <1>12 DEF DepthInv, QmgrStatus, InStatus, NextSection
<1>13. CASE QueueOnlineStatus
  BY <1>13 DEF DepthInv, QueueOnlineStatus, InStatus, NextSection
<1>14. CASE OtherStatus
  BY <1>14 DEF DepthInv, OtherStatus, InStatus, NextSection
<1>15. CASE Publications
  BY <1>15, AdvanceOrder DEF DepthInv, Publications
<1>16. CASE Baseline
  BY <1>16, AdvanceOrder DEF DepthInv, Baseline
<1>17. CASE WritesStatistics
  BY <1>17 DEF DepthInv, WritesStatistics
<1>18. CASE WritesAccounting
  BY <1>18 DEF DepthInv, WritesAccounting
<1>19. CASE ConnectionBreaks
  BY <1>19 DEF DepthInv, ConnectionBreaks
<1>20. CASE UNCHANGED vars
  BY <1>20 DEF DepthInv, vars
<1> QED
  BY <1>1, <1>2, <1>3, <1>4, <1>5, <1>6, <1>7, <1>8, <1>9, <1>10, <1>11, <1>12,
     <1>13, <1>14, <1>15, <1>16, <1>17, <1>18, <1>19, <1>20
  DEF Next, CollectMetrics, QueueManager

\* Sections are begun one after the other.
LEMMA SectionStep == TypeOK /\ SectionInv /\ [Next]_vars => SectionInv'
<1> SUFFICES ASSUME TypeOK, SectionInv, [Next]_vars PROVE SectionInv'
  OBVIOUS
<1> USE DEF batch, gauges, history, qmgr, collector
<1>1. CASE Begin
  BY <1>1 DEF SectionInv, LastSection, Begin
<1>2. CASE DrainStats
  BY <1>2, AdvanceOrder DEF SectionInv, LastSection, DrainStats
<1>3. CASE DrainStatsFails
  BY <1>3, AdvanceOrder DEF SectionInv, LastSection, DrainStatsFails
<1>4. CASE DrainAccounting
  BY <1>4, AdvanceOrder DEF SectionInv, LastSection, DrainAccounting
<1>5. CASE DrainAccountingFails
  BY <1>5, AdvanceOrder DEF SectionInv, LastSection, DrainAccountingFails
<1>6. CASE ApplyMessages
  BY <1>6, AdvanceOrder DEF SectionInv, LastSection, ApplyMessages
<1>7. CASE ApplyThrows
  BY <1>7 DEF SectionInv, LastSection, ApplyThrows
<1>8. CASE QueuesToMonitor
  BY <1>8, AdvanceOrder DEF SectionInv, LastSection, QueuesToMonitor
<1>9. CASE QueueMetrics
  BY <1>9, AdvanceOrder DEF SectionInv, LastSection, QueueMetrics
<1>10. CASE HandleMetrics
  BY <1>10, AdvanceOrder DEF SectionInv, LastSection, HandleMetrics
<1>11. CASE SkipStatus
  BY <1>11, AdvanceOrder DEF SectionInv, LastSection, SkipStatus
<1>12. CASE QmgrStatus
  <2>1. InStatus /\ UNCHANGED connected
    BY <1>12 DEF QmgrStatus
  <2> QED
    BY <2>1 DEF SectionInv, LastSection, InStatus, NextSection
<1>13. CASE QueueOnlineStatus
  <2>1. InStatus /\ UNCHANGED connected
    BY <1>13 DEF QueueOnlineStatus
  <2> QED
    BY <2>1 DEF SectionInv, LastSection, InStatus, NextSection
<1>14. CASE OtherStatus
  <2>1. InStatus /\ UNCHANGED connected
    BY <1>14 DEF OtherStatus
  <2> QED
    BY <2>1 DEF SectionInv, LastSection, InStatus, NextSection
<1>15. CASE Publications
  BY <1>15, AdvanceOrder DEF SectionInv, LastSection, Publications
<1>16. CASE Baseline
  BY <1>16, AdvanceOrder DEF SectionInv, LastSection, Baseline
<1>17. CASE WritesStatistics
  BY <1>17 DEF SectionInv, LastSection, WritesStatistics
<1>18. CASE WritesAccounting
  BY <1>18 DEF SectionInv, LastSection, WritesAccounting
<1>19. CASE ConnectionBreaks
  BY <1>19 DEF SectionInv, LastSection, ConnectionBreaks
<1>20. CASE UNCHANGED vars
  BY <1>20 DEF SectionInv, LastSection, vars
<1> QED
  BY <1>1, <1>2, <1>3, <1>4, <1>5, <1>6, <1>7, <1>8, <1>9, <1>10, <1>11, <1>12,
     <1>13, <1>14, <1>15, <1>16, <1>17, <1>18, <1>19, <1>20
  DEF Next, CollectMetrics, QueueManager

\* The list of queues changes in two places.
LEMMA ExcludedStep ==
  TypeOK /\ ExclusionInv /\ [Next]_vars
    => ExclusionInv'
<1> SUFFICES ASSUME TypeOK, ExclusionInv, [Next]_vars PROVE ExclusionInv'
  OBVIOUS
<1> USE DEF batch, gauges, history, qmgr, collector
<1>1. CASE Begin
  BY <1>1, QueuesAssumption DEF ExclusionInv, ExcludedNotShown, Begin, Nothing
<1>2. CASE DrainStats
  BY <1>2 DEF ExclusionInv, ExcludedNotShown, DrainStats
<1>3. CASE DrainStatsFails
  BY <1>3 DEF ExclusionInv, ExcludedNotShown, DrainStatsFails
<1>4. CASE DrainAccounting
  BY <1>4 DEF ExclusionInv, ExcludedNotShown, DrainAccounting
<1>5. CASE DrainAccountingFails
  BY <1>5 DEF ExclusionInv, ExcludedNotShown, DrainAccountingFails
<1>6. CASE ApplyMessages
  BY <1>6 DEF ExclusionInv, ExcludedNotShown, ApplyMessages
<1>7. CASE ApplyThrows
  BY <1>7 DEF ExclusionInv, ExcludedNotShown, ApplyThrows
<1>8. CASE QueuesToMonitor
  BY <1>8 DEF ExclusionInv, ExcludedNotShown, QueuesToMonitor, Found
<1>9. CASE QueueMetrics
  BY <1>9, ReadingsKeepToTheList, QueuesAssumption
  DEF ExclusionInv, ExcludedNotShown, QueueMetrics
<1>10. CASE HandleMetrics
  BY <1>10, ReadingsKeepToTheList, QueuesAssumption
  DEF ExclusionInv, ExcludedNotShown, HandleMetrics
<1>11. CASE SkipStatus
  BY <1>11 DEF ExclusionInv, ExcludedNotShown, SkipStatus
<1>12. CASE QmgrStatus
  BY <1>12 DEF ExclusionInv, ExcludedNotShown, QmgrStatus, InStatus
<1>13. CASE QueueOnlineStatus
  BY <1>13 DEF ExclusionInv, ExcludedNotShown, QueueOnlineStatus, InStatus
<1>14. CASE OtherStatus
  BY <1>14 DEF ExclusionInv, ExcludedNotShown, OtherStatus, InStatus
<1>15. CASE Publications
  BY <1>15 DEF ExclusionInv, ExcludedNotShown, Publications
<1>16. CASE Baseline
  BY <1>16 DEF ExclusionInv, ExcludedNotShown, Baseline
<1>17. CASE WritesStatistics
  BY <1>17 DEF ExclusionInv, ExcludedNotShown, WritesStatistics
<1>18. CASE WritesAccounting
  BY <1>18 DEF ExclusionInv, ExcludedNotShown, WritesAccounting
<1>19. CASE ConnectionBreaks
  BY <1>19 DEF ExclusionInv, ExcludedNotShown, ConnectionBreaks
<1>20. CASE UNCHANGED vars
  BY <1>20 DEF ExclusionInv, ExcludedNotShown, vars
<1> QED
  BY <1>1, <1>2, <1>3, <1>4, <1>5, <1>6, <1>7, <1>8, <1>9, <1>10, <1>11, <1>12,
     <1>13, <1>14, <1>15, <1>16, <1>17, <1>18, <1>19, <1>20
  DEF Next, CollectMetrics, QueueManager

-----------------------------------------------------------------------------
(* The theorems.                                                           *)

LEMMA Inductive == Spec => []IInv
<1>1. Init => IInv
  <2> SUFFICES ASSUME Init PROVE IInv
    OBVIOUS
  <2>1. /\ pc = "idle" /\ section = 1 /\ attempted = {} /\ cachedQueues = {}
        /\ opens = 0 /\ acctMsgs = 0 /\ acctQueue = 0 /\ acctMade = 0
    BY DEF Init
  <2>2. TypeOK
    <3>1. 0 \in 0 .. MaxAccounting /\ 0 \in 0 .. MaxValue + MaxAccounting /\ 1 \in 1 .. 7
          /\ <<>> \in Seq(Message)
      BY BoundsAssumption
    <3>2. Nothing \in [Queues -> Series]
      BY DEF Nothing, Series
    <3>3. qmgrStatus \in [{"", "text"} -> {"none", "unavailable", "running"}]
      BY DEF Init
    <3>4. 0 \in Nat /\ {} \subseteq Queues /\ TRUE \in BOOLEAN /\ FALSE \in BOOLEAN
      OBVIOUS
    <3> QED
      BY <2>1, <3>1, <3>2, <3>3, <3>4, StepNames DEF Init, TypeOK
  <2>3. BalanceInv /\ ExclusionInv /\ DepthInv
    <3>1. lost = 0 /\ online = {} /\ depthRead = Nothing /\ inputGauge = Nothing
      BY DEF Init
    <3>2. \A q \in Excluded \ SystemQueues : Nothing[q] = NoSeries
      BY QueuesAssumption DEF Nothing
    <3>3. 0 + 0 + 0 + 0 <= 0 + MaxValue
      BY BoundsAssumption
    <3> QED
      BY <2>1, <3>1, <3>2, <3>3
      DEF BalanceInv, AccountingBalances, ExclusionInv, ExcludedNotShown, DepthInv
  <2>4. SectionInv
    BY <2>1 DEF SectionInv, LastSection
  <2> QED
    BY <2>2, <2>3, <2>4 DEF IInv
<1>2. IInv /\ [Next]_vars => IInv'
  BY TypeStep, CountStep, DepthStep, SectionStep, ExcludedStep DEF IInv
<1> QED
  BY <1>1, <1>2, PTL DEF Spec

\* The variables keep their types: the batch and the queue hold no more accounting
\* messages than were ever written, and every gauge shows a value or nothing.
THEOREM TypeCorrect == Spec => []TypeOK
<1>1. IInv => TypeOK
  BY DEF IInv
<1> QED
  BY <1>1, Inductive, PTL

\* As long as no statistics message has set the gauge, each accounting message is on
\* its queue, in the batch, counted once, or was thrown away by a drain that failed
\* or by the exception in update_metrics_from_messages(); behind such a message the sum
\* exceeds what was written by no more than the message set.
THEOREM AccountingInBalance == Spec => []AccountingBalances
<1>1. IInv => AccountingBalances
  BY DEF IInv, BalanceInv
<1> QED
  BY <1>1, Inductive, PTL

\* The depth that collect_and_update_queue_metrics() inquired is the one that the
\* collection leaves behind: no message, which is older, comes after it.
THEOREM InquiryWins == Spec => []InquiryBeatsMessage
<1>1. IInv => InquiryBeatsMessage
  BY DEF IInv, DepthInv, InquiryBeatsMessage
<1> QED
  BY <1>1, Inductive, PTL

\* A collection that reaches the status inquiries begins each section, however many of
\* them throw.
THEOREM AllSectionsTried == Spec => []EverySectionIsTried
<1>1. IInv => EverySectionIsTried
  BY DEF IInv, SectionInv, EverySectionIsTried
<1> QED
  BY <1>1, Inductive, PTL

\* No inquiry shows a queue that queue_exclusion_patterns excludes, the two system
\* queues of the last resort aside: not through a pattern, not through the fallbacks
\* of get_queues_to_monitor(), and not through the status inquiry for all queues.
THEOREM ExcludedNeverShown == Spec => []ExcludedNotShown
<1>1. IInv => ExcludedNotShown
  BY DEF IInv, ExclusionInv
<1> QED
  BY <1>1, Inductive, PTL

=============================================================================
