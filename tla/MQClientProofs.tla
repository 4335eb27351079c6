--------------------------- MODULE MQClientProofs ---------------------------
(***************************************************************************)
(* The safety of MQClient for every number of handles: no way out of a     *)
(* method drops a handle, two owners never share one, and a subscription   *)
(* is removed before its queue.                                            *)
(*                                                                         *)
(* The inductive invariant divides the open objects of a live connection.  *)
(* Each belongs to one owner only: a field of the client, a pair that the  *)
(* client or the monitor keeps, the method under way, or nobody, because   *)
(* its MQCLOSE was refused; and the place of the method says what its      *)
(* handles stand for.                                                      *)
(***************************************************************************)
EXTENDS MQClient, TLAPS

Kept == subscriptions \cup dataSubs

\* No field and no pair has the handle h.
NotKept(h) ==
    /\ h # statsQueue /\ h # acctQueue
    /\ \A p \in Kept : p.hobj # h /\ p.hsub # h

\* Which local handles a method has at its place.
MethodInv ==
    /\ (hobj = NoHandle) <=> method \in {"idle", "platform"}
    /\ hsub # NoHandle => method \in {"pcf_both_open", "retained"}
    /\ method = "pcf_both_open" => hsub # NoHandle

\* The client knows of a live connection; without one nothing is open, save what
\* was refused on a connection whose MQDISC was refused too.
ConnectionInv ==
    /\ hconn = "live" => connected
    /\ hconn # "live" => Open \subseteq refused

\* What the local handles stand for.
LocalKinds ==
    /\ hobj # NoHandle =>
         opened[hobj] = IF method = "inquire" THEN "queue" ELSE "dynamic"
    /\ method = "pcf_both_open" => opened[hsub] = "queue"
    /\ method = "retained" /\ hsub # NoHandle =>
         opened[hsub] = "sub" /\ destination[hsub] = hobj

\* The local handles and the refused ones have no owner besides.
Apart ==
    /\ \A h \in {hobj, hsub} \ {NoHandle} : NotKept(h)
    /\ \A h \in refused : NotKept(h) /\ h # hobj /\ h # hsub /\ opened[h] # "free"

LocalInv == hconn = "live" => LocalKinds /\ Apart

KeptInv == hconn = "live" => PairsAgree /\ PairsDiffer /\ QueuesAgree

\* Every open object has an owner, or was refused.
LeakInv ==
    hconn = "live" =>
        \A h \in Handles : opened[h] # "free" =>
            ~NotKept(h) \/ h \in {hobj, hsub} \cup refused

IInv == TypeOK /\ MethodInv /\ ConnectionInv /\ KeptInv /\ LocalInv /\ LeakInv

-----------------------------------------------------------------------------
(* What the queue manager does to the open objects.                        *)

\* MQCLOSE frees its handles, save those that are refused, and no others.
LEMMA ClosesEffect ==
  ASSUME TypeOK, NEW hs, Closes(hs)
  PROVE  /\ opened' \in [Handles -> Kinds] /\ destination' = destination
         /\ refused \subseteq refused' /\ refused' \subseteq Handles
         /\ \A h \in Handles : h \notin hs => opened'[h] = opened[h]
         /\ \A h \in Handles : opened'[h] \in {"free", opened[h]}
         /\ \A h \in hs \cap Handles : opened'[h] = "free" \/ h \in refused'
         /\ \A h \in refused' \ refused :
              h \in hs /\ opened[h] # "free" /\ opened'[h] = opened[h]
  BY DEF TypeOK, Closes, Open, Kinds

\* MQOPEN and MQSUB change one handle, which was free.
LEMMA OpensEffect ==
  ASSUME TypeOK, NEW h \in Handles, NEW kind \in Kinds, Opens(h, kind)
  PROVE  /\ hconn = "live" /\ opened[h] = "free"
         /\ opened' \in [Handles -> Kinds] /\ opened'[h] = kind
         /\ \A k \in Handles : k # h => opened'[k] = opened[k]
         /\ destination' = destination /\ refused' = refused
  BY DEF TypeOK, Opens, Open

LEMMA SubscribesEffect ==
  ASSUME TypeOK, NEW h \in Handles, Subscribes(h)
  PROVE  /\ hconn = "live" /\ opened[h] = "free"
         /\ opened' \in [Handles -> Kinds] /\ opened'[h] = "sub"
         /\ destination' \in [Handles -> Handles \cup {NoHandle}]
         /\ destination'[h] = hobj
         /\ \A k \in Handles : k # h =>
              opened'[k] = opened[k] /\ destination'[k] = destination[k]
         /\ refused' = refused
  BY DEF TypeOK, Subscribes, Open, Kinds

-----------------------------------------------------------------------------
(* Each step preserves each part of the invariant.                         *)

\* Every step preserves the type invariant.
LEMMA TypeStep == TypeOK /\ MethodInv /\ [Next]_vars => TypeOK'
<1> SUFFICES ASSUME TypeOK, MethodInv, [Next]_vars PROVE TypeOK'
  OBVIOUS
<1> USE DEF kept, locals, broker
<1>1. CASE Connect
  BY <1>1 DEF TypeOK, Connect, FreesAll, Kinds, Methods
<1>2. CASE DetectPlatform
  BY <1>2 DEF TypeOK, DetectPlatform, Return, Open, Kinds, Methods
<1>3. CASE OpenStatsQueue
  BY <1>3, OpensEffect DEF TypeOK, OpenStatsQueue, Kinds
<1>4. CASE OpenAccountingQueue
  BY <1>4, OpensEffect DEF TypeOK, OpenAccountingQueue, Kinds
<1>5. CASE GetMessageBroken
  BY <1>5 DEF TypeOK, GetMessageBroken
<1>6. CASE Disconnect
  BY <1>6, ClosesEffect DEF TypeOK, Disconnect, Disc, FreesAll, Kinds
<1>7. CASE InquireOpens
  BY <1>7, OpensEffect DEF TypeOK, InquireOpens, Kinds, Methods
<1>8. CASE InquireReturns
  BY <1>8, ClosesEffect DEF TypeOK, InquireReturns, Return, Methods
<1>9. CASE PcfOpensReply
  BY <1>9, OpensEffect DEF TypeOK, PcfOpensReply, Kinds, Methods
<1>10. CASE PcfOpensCommand
  BY <1>10, OpensEffect DEF TypeOK, PcfOpensCommand, Kinds, Methods
<1>11. CASE PcfPuts
  BY <1>11, ClosesEffect DEF TypeOK, PcfPuts, Methods
<1>12. CASE PcfReturns
  BY <1>12, ClosesEffect DEF TypeOK, PcfReturns, Return, Methods
<1>13. CASE SubscriberOpensQueue
  BY <1>13, OpensEffect DEF TypeOK, SubscriberOpensQueue, Kinds, Methods
<1>14. CASE SubscribeToTopic
  <2>1. PICK h \in Handles : Subscribes(h) /\ subscriptions' = subscriptions \cup {Pair(h)}
    BY <1>14 DEF SubscribeToTopic
  <2>2. Pair(h) \in Pairs
    BY <1>14 DEF SubscribeToTopic, TypeOK, MethodInv, Subscribers, Pair, Pairs
  <2> QED
    BY <1>14, <2>1, <2>2, SubscribesEffect DEF TypeOK, SubscribeToTopic, Return, Methods
<1>15. CASE CreateSubscription
  <2>1. PICK h \in Handles : Subscribes(h) /\ dataSubs' = dataSubs \cup {Pair(h)}
    BY <1>15 DEF CreateSubscription
  <2>2. Pair(h) \in Pairs
    BY <1>15 DEF CreateSubscription, TypeOK, MethodInv, Subscribers, Pair, Pairs
  <2> QED
    BY <1>15, <2>1, <2>2, SubscribesEffect DEF TypeOK, CreateSubscription, Return, Methods
<1>16. CASE SubscribeAndGet
  BY <1>16, SubscribesEffect DEF TypeOK, SubscribeAndGet, Methods
<1>17. CASE SubscribeFails
  BY <1>17, ClosesEffect DEF TypeOK, SubscribeFails, Return, Methods
<1>18. CASE RetainedRemovesSub
  BY <1>18, ClosesEffect DEF TypeOK, RetainedRemovesSub
<1>19. CASE RetainedDeletesQueue
  BY <1>19, ClosesEffect DEF TypeOK, RetainedDeletesQueue, Return, Methods
<1>20. CASE CloseDataSubscriptions
  BY <1>20, ClosesEffect DEF TypeOK, CloseDataSubscriptions
<1>21. CASE ConnectionBreaks
  BY <1>21 DEF TypeOK, ConnectionBreaks, FreesAll, Kinds
<1>22. CASE UNCHANGED vars
  BY <1>22 DEF TypeOK, vars
<1> QED
  BY <1>1, <1>2, <1>3, <1>4, <1>5, <1>6, <1>7, <1>8, <1>9, <1>10, <1>11, <1>12,
     <1>13, <1>14, <1>15, <1>16, <1>17, <1>18, <1>19, <1>20, <1>21, <1>22
  DEF Next, Administration, Inquiry, Subscription

\* Every step leaves a method with the handles of its new place.
LEMMA MethodStep == TypeOK /\ MethodInv /\ [Next]_vars => MethodInv'
<1> SUFFICES ASSUME TypeOK, MethodInv, [Next]_vars PROVE MethodInv'
  OBVIOUS
<1> USE DEF kept, locals, broker
<1>1. CASE Connect
  BY <1>1 DEF TypeOK, MethodInv, Connect, Idle
<1>2. CASE DetectPlatform
  BY <1>2 DEF TypeOK, MethodInv, DetectPlatform, Return
<1>3. CASE OpenStatsQueue
  BY <1>3 DEF TypeOK, MethodInv, OpenStatsQueue, Idle
<1>4. CASE OpenAccountingQueue
  BY <1>4 DEF TypeOK, MethodInv, OpenAccountingQueue, Idle
<1>5. CASE GetMessageBroken
  BY <1>5 DEF TypeOK, MethodInv, GetMessageBroken, Idle
<1>6. CASE Disconnect
  BY <1>6 DEF TypeOK, MethodInv, Disconnect, Idle
<1>7. CASE InquireOpens
  BY <1>7, HandlesAssumption DEF TypeOK, MethodInv, InquireOpens, Idle
<1>8. CASE InquireReturns
  BY <1>8 DEF TypeOK, MethodInv, InquireReturns, Return
<1>9. CASE PcfOpensReply
  BY <1>9, HandlesAssumption DEF TypeOK, MethodInv, PcfOpensReply, Idle
<1>10. CASE PcfOpensCommand
  BY <1>10, HandlesAssumption DEF TypeOK, MethodInv, PcfOpensCommand
<1>11. CASE PcfPuts
  BY <1>11 DEF TypeOK, MethodInv, PcfPuts
<1>12. CASE PcfReturns
  BY <1>12 DEF TypeOK, MethodInv, PcfReturns, Return
<1>13. CASE SubscriberOpensQueue
  BY <1>13, HandlesAssumption DEF TypeOK, MethodInv, SubscriberOpensQueue, Idle, Subscribers
<1>14. CASE SubscribeToTopic
  BY <1>14 DEF TypeOK, MethodInv, SubscribeToTopic, Return, Subscribers
<1>15. CASE CreateSubscription
  BY <1>15 DEF TypeOK, MethodInv, CreateSubscription, Return, Subscribers
<1>16. CASE SubscribeAndGet
  BY <1>16, HandlesAssumption DEF TypeOK, MethodInv, SubscribeAndGet, Subscribers
<1>17. CASE SubscribeFails
  BY <1>17 DEF TypeOK, MethodInv, SubscribeFails, Return, Subscribers
<1>18. CASE RetainedRemovesSub
  BY <1>18 DEF TypeOK, MethodInv, RetainedRemovesSub
<1>19. CASE RetainedDeletesQueue
  BY <1>19 DEF TypeOK, MethodInv, RetainedDeletesQueue, Return
<1>20. CASE CloseDataSubscriptions
  BY <1>20 DEF TypeOK, MethodInv, CloseDataSubscriptions, Idle
<1>21. CASE ConnectionBreaks
  BY <1>21 DEF TypeOK, MethodInv, ConnectionBreaks
<1>22. CASE UNCHANGED vars
  BY <1>22 DEF TypeOK, MethodInv, vars
<1> QED
  BY <1>1, <1>2, <1>3, <1>4, <1>5, <1>6, <1>7, <1>8, <1>9, <1>10, <1>11, <1>12,
     <1>13, <1>14, <1>15, <1>16, <1>17, <1>18, <1>19, <1>20, <1>21, <1>22
  DEF Next, Administration, Inquiry, Subscription

\* The client knows of a live connection, and the handles go with it.
LEMMA ConnectionStep ==
  TypeOK /\ MethodInv /\ ConnectionInv /\ LeakInv /\ [Next]_vars => ConnectionInv'
<1> SUFFICES ASSUME TypeOK, MethodInv, ConnectionInv, LeakInv, [Next]_vars
             PROVE  ConnectionInv'
  OBVIOUS
<1> USE DEF kept, locals, broker, Open
<1>1. CASE Connect
  BY <1>1 DEF TypeOK, ConnectionInv, Connect, FreesAll, Idle
<1>2. CASE DetectPlatform
  BY <1>2 DEF TypeOK, ConnectionInv, DetectPlatform, Open
<1>3. CASE OpenStatsQueue
  BY <1>3, OpensEffect DEF TypeOK, ConnectionInv, OpenStatsQueue, Kinds
<1>4. CASE OpenAccountingQueue
  BY <1>4, OpensEffect DEF TypeOK, ConnectionInv, OpenAccountingQueue, Kinds
<1>5. CASE GetMessageBroken
  BY <1>5 DEF TypeOK, ConnectionInv, GetMessageBroken
<1>6. CASE Disconnect
  <2>1. CASE hconn' = "none" /\ FreesAll
    BY <2>1 DEF ConnectionInv, FreesAll
  <2>2. CASE hconn = "live" /\ hconn' = "refused" /\ Closes(Administered)
    <3>1. hobj = NoHandle /\ hsub = NoHandle /\ dataSubs = {}
      BY <1>6 DEF Disconnect, Idle, MethodInv
    <3>2. ASSUME NEW h \in Handles, opened[h] # "free"
          PROVE  h \in Administered \/ h \in refused
      BY <2>2, <3>1, <3>2, HandlesAssumption
      DEF LeakInv, NotKept, Kept, Administered, HandlesOf
    <3> QED
      BY <2>2, <3>2, ClosesEffect DEF ConnectionInv
  <2> QED
    BY <1>6, <2>1, <2>2 DEF Disconnect, Disc
<1>7. CASE InquireOpens
  BY <1>7, OpensEffect DEF TypeOK, ConnectionInv, InquireOpens, Kinds
<1>8. CASE InquireReturns
  BY <1>8, ClosesEffect DEF TypeOK, ConnectionInv, InquireReturns
<1>9. CASE PcfOpensReply
  BY <1>9, OpensEffect DEF TypeOK, ConnectionInv, PcfOpensReply, Kinds
<1>10. CASE PcfOpensCommand
  BY <1>10, OpensEffect DEF TypeOK, ConnectionInv, PcfOpensCommand, Kinds
<1>11. CASE PcfPuts
  BY <1>11, ClosesEffect DEF TypeOK, ConnectionInv, PcfPuts
<1>12. CASE PcfReturns
  BY <1>12, ClosesEffect DEF TypeOK, ConnectionInv, PcfReturns
<1>13. CASE SubscriberOpensQueue
  BY <1>13, OpensEffect DEF TypeOK, ConnectionInv, SubscriberOpensQueue, Kinds
<1>14. CASE SubscribeToTopic
  BY <1>14, SubscribesEffect DEF TypeOK, ConnectionInv, SubscribeToTopic
<1>15. CASE CreateSubscription
  BY <1>15, SubscribesEffect DEF TypeOK, ConnectionInv, CreateSubscription
<1>16. CASE SubscribeAndGet
  BY <1>16, SubscribesEffect DEF TypeOK, ConnectionInv, SubscribeAndGet
<1>17. CASE SubscribeFails
  BY <1>17, ClosesEffect DEF TypeOK, ConnectionInv, SubscribeFails
<1>18. CASE RetainedRemovesSub
  BY <1>18, ClosesEffect DEF TypeOK, ConnectionInv, RetainedRemovesSub
<1>19. CASE RetainedDeletesQueue
  BY <1>19, ClosesEffect DEF TypeOK, ConnectionInv, RetainedDeletesQueue
<1>20. CASE CloseDataSubscriptions
  BY <1>20, ClosesEffect DEF TypeOK, ConnectionInv, CloseDataSubscriptions
<1>21. CASE ConnectionBreaks
  BY <1>21 DEF TypeOK, ConnectionInv, ConnectionBreaks, FreesAll
<1>22. CASE UNCHANGED vars
  BY <1>22 DEF TypeOK, ConnectionInv, vars
<1> QED
  BY <1>1, <1>2, <1>3, <1>4, <1>5, <1>6, <1>7, <1>8, <1>9, <1>10, <1>11, <1>12,
     <1>13, <1>14, <1>15, <1>16, <1>17, <1>18, <1>19, <1>20, <1>21, <1>22
  DEF Next, Administration, Inquiry, Subscription

-----------------------------------------------------------------------------
(* What the client keeps.                                                  *)

\* The queue manager gives no handle that somebody has.
LEMMA FreeIsNew ==
  ASSUME TypeOK, KeptInv, LocalInv, MethodInv, hconn = "live",
         NEW h \in Handles, opened[h] = "free"
  PROVE  NotKept(h) /\ h # hobj /\ h # hsub /\ h \notin refused
<1>1. h # statsQueue /\ h # acctQueue
  BY HandlesAssumption DEF KeptInv, QueuesAgree
<1>2. \A p \in Kept : p.hobj # h /\ p.hsub # h
  BY DEF KeptInv, PairsAgree, Kept
<1>3. h # hobj /\ h # hsub
  BY HandlesAssumption DEF LocalInv, LocalKinds, MethodInv
<1>4. h \notin refused
  BY DEF LocalInv, Apart
<1> QED
  BY <1>1, <1>2, <1>3, <1>4 DEF NotKept

\* What is kept agrees as long as no kept handle is touched.
LEMMA KeptUntouched ==
  ASSUME TypeOK, KeptInv, UNCHANGED <<kept, hconn>>,
         \A h \in Handles : ~NotKept(h) =>
            opened'[h] = opened[h] /\ destination'[h] = destination[h]
  PROVE  KeptInv'
<1> SUFFICES ASSUME hconn = "live" PROVE (PairsAgree /\ PairsDiffer /\ QueuesAgree)'
  BY DEF KeptInv, kept
<1>1. PairsAgree'
  BY DEF KeptInv, PairsAgree, kept, NotKept, Kept, TypeOK, Pairs
<1>2. PairsDiffer'
  BY DEF KeptInv, PairsDiffer, kept
<1>3. QueuesAgree'
  BY DEF KeptInv, QueuesAgree, kept, NotKept, TypeOK
<1> QED
  BY <1>1, <1>2, <1>3

\* The handles that a method opens or closes for itself are not kept.
LEMMA LocalOpen ==
  ASSUME TypeOK, MethodInv, KeptInv, LocalInv, UNCHANGED <<kept, hconn>>,
         NEW h \in Handles, NEW kind \in Kinds, Opens(h, kind)
  PROVE  KeptInv'
<1>1. NotKept(h)
  BY OpensEffect, FreeIsNew
<1> QED
  BY <1>1, OpensEffect, KeptUntouched

LEMMA LocalClose ==
  ASSUME TypeOK, KeptInv, LocalInv, UNCHANGED <<kept, hconn>>,
         NEW hs, hs \subseteq {hobj, hsub} \ {NoHandle}, Closes(hs)
  PROVE  KeptInv'
<1>1. CASE hconn = "live"
  <2>1. \A h \in hs : NotKept(h)
    BY <1>1 DEF LocalInv, Apart
  <2> QED
    BY <2>1, ClosesEffect, KeptUntouched
<1>2. CASE hconn # "live"
  BY <1>2 DEF KeptInv
<1> QED
  BY <1>1, <1>2

\* A pair of a new subscription and the queue of its method joins the others.
LEMMA KeepsPair ==
  ASSUME TypeOK, MethodInv, KeptInv, LocalInv, UNCHANGED hconn,
         method \in Subscribers, NEW h \in Handles, Subscribes(h),
         UNCHANGED <<statsQueue, acctQueue>>,
         \/ subscriptions' = subscriptions \cup {Pair(h)} /\ UNCHANGED dataSubs
         \/ dataSubs' = dataSubs \cup {Pair(h)} /\ UNCHANGED subscriptions
  PROVE  KeptInv'
<1> DEFINE new == Pair(h)
<1>1. hconn = "live" /\ opened[h] = "free" /\ hobj \in Handles
  BY SubscribesEffect DEF MethodInv, Subscribers, TypeOK
<1>2. NotKept(h) /\ h # hobj
  BY <1>1, FreeIsNew
<1>3. NotKept(hobj) /\ opened[hobj] = "dynamic"
  BY <1>1, HandlesAssumption DEF LocalInv, LocalKinds, Apart, MethodInv, Subscribers
<1>4. /\ new.hobj = hobj /\ new.hsub = h
      /\ opened'[hobj] = "dynamic" /\ opened'[h] = "sub" /\ destination'[h] = hobj
  BY <1>1, <1>2, <1>3, SubscribesEffect DEF Pair
<1>5. \A p \in Kept : /\ p \in Pairs /\ p # new
                      /\ p.hobj # hobj /\ p.hsub # h
                      /\ opened'[p.hobj] = "dynamic" /\ opened'[p.hsub] = "sub"
                      /\ destination'[p.hsub] = p.hobj
  <2> SUFFICES ASSUME NEW p \in Kept
               PROVE  /\ p \in Pairs /\ p # new
                      /\ p.hobj # hobj /\ p.hsub # h
                      /\ opened'[p.hobj] = "dynamic" /\ opened'[p.hsub] = "sub"
                      /\ destination'[p.hsub] = p.hobj
    OBVIOUS
  <2>1. p \in Pairs /\ p.hobj \in Handles /\ p.hsub \in Handles
    BY DEF Kept, TypeOK, Pairs
  <2>2. p.hobj # hobj /\ p.hobj # h /\ p.hsub # h
    BY <1>2, <1>3 DEF NotKept
  <2>3. opened[p.hobj] = "dynamic" /\ opened[p.hsub] = "sub" /\ destination[p.hsub] = p.hobj
    BY <1>1 DEF KeptInv, PairsAgree, Kept
  <2> QED
    BY <1>4, <2>1, <2>2, <2>3, SubscribesEffect
<1>6. Kept' = Kept \cup {new}
  BY DEF Kept
<1>7. PairsAgree'
  BY <1>4, <1>5, <1>6 DEF PairsAgree, Kept
<1>8. PairsDiffer'
  BY <1>1, <1>4, <1>5, <1>6 DEF PairsDiffer, Kept, KeptInv
<1>9. QueuesAgree'
  <2>1. \A q \in {statsQueue, acctQueue} \ {NoHandle} : q # h /\ q \in Handles
    BY <1>2 DEF NotKept, TypeOK
  <2> QED
    BY <1>1, <2>1, SubscribesEffect DEF QueuesAgree, KeptInv
<1> QED
  BY <1>7, <1>8, <1>9 DEF KeptInv

\* Every step keeps what the client knows true of the queue manager.
LEMMA KeptStep == TypeOK /\ MethodInv /\ KeptInv /\ LocalInv /\ [Next]_vars => KeptInv'
<1> SUFFICES ASSUME TypeOK, MethodInv, KeptInv, LocalInv, [Next]_vars PROVE KeptInv'
  OBVIOUS
<1> USE DEF kept, locals, broker
<1>1. CASE Connect
  BY <1>1 DEF Connect, HoldsNothing, KeptInv, PairsAgree, PairsDiffer, QueuesAgree
<1>2. CASE DetectPlatform
  BY <1>2, FreeIsNew, KeptUntouched
  DEF DetectPlatform, TypeOK, Open, KeptInv, PairsAgree, PairsDiffer, QueuesAgree
<1>3. CASE OpenStatsQueue
  <2>1. PICK h \in Handles : Opens(h, "queue") /\ statsQueue' = h
    BY <1>3 DEF OpenStatsQueue
  <2>2. hconn = "live" /\ hconn' = "live" /\ NotKept(h)
    BY <1>3, <2>1, OpensEffect, FreeIsNew DEF OpenStatsQueue, Kinds
  <2>3. PairsAgree' /\ PairsDiffer'
    BY <1>3, <2>1, <2>2, OpensEffect
    DEF OpenStatsQueue, KeptInv, PairsAgree, PairsDiffer, NotKept, Kept, TypeOK, Pairs, Kinds
  <2>4. QueuesAgree'
    BY <1>3, <2>1, <2>2, OpensEffect, HandlesAssumption
    DEF OpenStatsQueue, KeptInv, QueuesAgree, NotKept, TypeOK, Kinds
  <2> QED
    BY <2>3, <2>4 DEF KeptInv
<1>4. CASE OpenAccountingQueue
  <2>1. PICK h \in Handles : Opens(h, "queue") /\ acctQueue' = h
    BY <1>4 DEF OpenAccountingQueue
  <2>2. hconn = "live" /\ hconn' = "live" /\ NotKept(h)
    BY <1>4, <2>1, OpensEffect, FreeIsNew DEF OpenAccountingQueue, Kinds
  <2>3. PairsAgree' /\ PairsDiffer'
    BY <1>4, <2>1, <2>2, OpensEffect
    DEF OpenAccountingQueue, KeptInv, PairsAgree, PairsDiffer, NotKept, Kept, TypeOK, Pairs, Kinds
  <2>4. QueuesAgree'
    BY <1>4, <2>1, <2>2, OpensEffect, HandlesAssumption
    DEF OpenAccountingQueue, KeptInv, QueuesAgree, NotKept, TypeOK, Kinds
  <2> QED
    BY <2>3, <2>4 DEF KeptInv
<1>5. CASE GetMessageBroken
  BY <1>5 DEF GetMessageBroken, KeptInv, PairsAgree, PairsDiffer, QueuesAgree
<1>6. CASE Disconnect
  BY <1>6 DEF Disconnect, Disc, KeptInv
<1>7. CASE InquireOpens
  BY <1>7, LocalOpen DEF Kinds, InquireOpens
<1>8. CASE InquireReturns
  BY <1>8, LocalClose, HandlesAssumption DEF MethodInv, InquireReturns
<1>9. CASE PcfOpensReply
  BY <1>9, LocalOpen DEF Kinds, PcfOpensReply
<1>10. CASE PcfOpensCommand
  BY <1>10, LocalOpen DEF Kinds, PcfOpensCommand
<1>11. CASE PcfPuts
  BY <1>11, LocalClose, HandlesAssumption DEF MethodInv, PcfPuts
<1>12. CASE PcfReturns
  BY <1>12, LocalClose, HandlesAssumption DEF MethodInv, PcfReturns
<1>13. CASE SubscriberOpensQueue
  BY <1>13, LocalOpen DEF Kinds, SubscriberOpensQueue
<1>14. CASE SubscribeToTopic
  BY <1>14, KeepsPair DEF SubscribeToTopic, Subscribers
<1>15. CASE CreateSubscription
  BY <1>15, KeepsPair DEF CreateSubscription, Subscribers
<1>16. CASE SubscribeAndGet
  BY <1>16, SubscribesEffect, FreeIsNew, KeptUntouched DEF SubscribeAndGet
<1>17. CASE SubscribeFails
  BY <1>17, LocalClose, HandlesAssumption DEF MethodInv, SubscribeFails, Subscribers
<1>18. CASE RetainedRemovesSub
  BY <1>18, LocalClose, HandlesAssumption DEF MethodInv, RetainedRemovesSub
<1>19. CASE RetainedDeletesQueue
  BY <1>19, LocalClose, HandlesAssumption DEF MethodInv, RetainedDeletesQueue
<1>20. CASE CloseDataSubscriptions
  <2> DEFINE hs == {p.hsub : p \in dataSubs} \cup {p.hobj : p \in dataSubs}
  <2>1. hconn' = "live" => hconn = "live"
    BY <1>20 DEF CloseDataSubscriptions
  <2>2. ASSUME hconn = "live" PROVE \A p \in subscriptions : p.hobj \notin hs /\ p.hsub \notin hs
    BY <2>2 DEF KeptInv, PairsAgree, PairsDiffer
  <2>3. ASSUME hconn = "live" PROVE \A q \in {statsQueue, acctQueue} : q \notin hs
    BY <2>3, HandlesAssumption DEF KeptInv, PairsAgree, QueuesAgree, TypeOK, Pairs
  <2>4. Closes(hs) /\ UNCHANGED <<statsQueue, acctQueue, subscriptions>> /\ dataSubs' = {}
    BY <1>20 DEF CloseDataSubscriptions
  <2>5. ASSUME hconn = "live" PROVE PairsAgree' /\ PairsDiffer'
    BY <2>2, <2>4, <2>5, ClosesEffect DEF KeptInv, PairsAgree, PairsDiffer, TypeOK, Pairs
  <2>6. ASSUME hconn = "live" PROVE QueuesAgree'
    BY <2>3, <2>4, <2>6, ClosesEffect DEF KeptInv, QueuesAgree, TypeOK
  <2> QED
    BY <2>1, <2>5, <2>6 DEF KeptInv
<1>21. CASE ConnectionBreaks
  BY <1>21 DEF ConnectionBreaks, KeptInv
<1>22. CASE UNCHANGED vars
  BY <1>22 DEF vars, KeptInv, PairsAgree, PairsDiffer, QueuesAgree
<1> QED
  BY <1>1, <1>2, <1>3, <1>4, <1>5, <1>6, <1>7, <1>8, <1>9, <1>10, <1>11, <1>12,
     <1>13, <1>14, <1>15, <1>16, <1>17, <1>18, <1>19, <1>20, <1>21, <1>22
  DEF Next, Administration, Inquiry, Subscription

\* Every step keeps the handles of the method, and the refused ones, apart.
LEMMA LocalStep == TypeOK /\ MethodInv /\ KeptInv /\ LocalInv /\ [Next]_vars => LocalInv'
<1> SUFFICES ASSUME TypeOK, MethodInv, KeptInv, LocalInv, [Next]_vars PROVE LocalInv'
  OBVIOUS
<1> USE DEF kept, locals, broker
<1>1. CASE Connect
  BY <1>1
  DEF LocalInv, LocalKinds, Apart, NotKept, Kept, MethodInv, TypeOK, Connect, FreesAll,
     Idle
<1>2. CASE DetectPlatform
  BY <1>2, FreeIsNew
  DEF LocalInv, LocalKinds, Apart, NotKept, Kept, MethodInv, TypeOK, Open, Return,
     DetectPlatform
<1>3. CASE OpenStatsQueue
  BY <1>3, OpensEffect, FreeIsNew, HandlesAssumption
  DEF LocalInv, LocalKinds, Apart, NotKept, Kept, MethodInv, TypeOK, Kinds, Idle,
     OpenStatsQueue
<1>4. CASE OpenAccountingQueue
  BY <1>4, OpensEffect, FreeIsNew, HandlesAssumption
  DEF LocalInv, LocalKinds, Apart, NotKept, Kept, MethodInv, TypeOK, Kinds, Idle,
     OpenAccountingQueue
<1>5. CASE GetMessageBroken
  BY <1>5 DEF GetMessageBroken, LocalInv
<1>6. CASE Disconnect
  BY <1>6 DEF Disconnect, Disc, LocalInv
<1>7. CASE InquireOpens
  BY <1>7, OpensEffect, FreeIsNew, HandlesAssumption
  DEF LocalInv, LocalKinds, Apart, NotKept, Kept, MethodInv, TypeOK, Kinds, InquireOpens
<1>8. CASE InquireReturns
  BY <1>8, ClosesEffect, HandlesAssumption
  DEF LocalInv, LocalKinds, Apart, NotKept, Kept, MethodInv, TypeOK, InquireReturns,
     Return
<1>9. CASE PcfOpensReply
  BY <1>9, OpensEffect, FreeIsNew, HandlesAssumption
  DEF LocalInv, LocalKinds, Apart, NotKept, Kept, MethodInv, TypeOK, Kinds,
     PcfOpensReply
<1>10. CASE PcfOpensCommand
  BY <1>10, OpensEffect, FreeIsNew, HandlesAssumption
  DEF LocalInv, LocalKinds, Apart, NotKept, Kept, MethodInv, TypeOK, Kinds,
     PcfOpensCommand
<1>11. CASE PcfPuts
  BY <1>11, ClosesEffect, HandlesAssumption
  DEF LocalInv, LocalKinds, Apart, NotKept, Kept, MethodInv, TypeOK, PcfPuts
<1>12. CASE PcfReturns
  BY <1>12, ClosesEffect, HandlesAssumption
  DEF LocalInv, LocalKinds, Apart, NotKept, Kept, MethodInv, TypeOK, PcfReturns, Return
<1>13. CASE SubscriberOpensQueue
  BY <1>13, OpensEffect, FreeIsNew, HandlesAssumption
  DEF LocalInv, LocalKinds, Apart, NotKept, Kept, MethodInv, TypeOK, Kinds,
     SubscriberOpensQueue, Subscribers
<1>14. CASE SubscribeToTopic
  BY <1>14, SubscribesEffect, FreeIsNew, HandlesAssumption
  DEF LocalInv, LocalKinds, Apart, NotKept, Kept, MethodInv, TypeOK, Return, Pair,
     Subscribers, SubscribeToTopic
<1>15. CASE CreateSubscription
  BY <1>15, SubscribesEffect, FreeIsNew, HandlesAssumption
  DEF LocalInv, LocalKinds, Apart, NotKept, Kept, MethodInv, TypeOK, Return, Pair,
     Subscribers, CreateSubscription
<1>16. CASE SubscribeAndGet
  BY <1>16, SubscribesEffect, FreeIsNew, HandlesAssumption
  DEF LocalInv, LocalKinds, Apart, NotKept, Kept, MethodInv, TypeOK, SubscribeAndGet
<1>17. CASE SubscribeFails
  BY <1>17, ClosesEffect, HandlesAssumption
  DEF LocalInv, LocalKinds, Apart, NotKept, Kept, MethodInv, TypeOK, SubscribeFails,
     Return
<1>18. CASE RetainedRemovesSub
  BY <1>18, ClosesEffect, HandlesAssumption
  DEF LocalInv, LocalKinds, Apart, NotKept, Kept, MethodInv, TypeOK, RetainedRemovesSub
<1>19. CASE RetainedDeletesQueue
  BY <1>19, ClosesEffect, HandlesAssumption
  DEF LocalInv, LocalKinds, Apart, NotKept, Kept, MethodInv, TypeOK,
     RetainedDeletesQueue, Return
<1>20. CASE CloseDataSubscriptions
  <2> DEFINE hs == {p.hsub : p \in dataSubs} \cup {p.hobj : p \in dataSubs}
  <2>1. /\ Closes(hs) /\ dataSubs' = {} /\ method = "idle"
        /\ UNCHANGED <<statsQueue, acctQueue, subscriptions, method, hobj, hsub, hconn>>
    BY <1>20 DEF CloseDataSubscriptions, Idle
  <2>2. hobj = NoHandle /\ hsub = NoHandle
    BY <2>1 DEF MethodInv
  <2> SUFFICES ASSUME hconn = "live" PROVE Apart'
    BY <2>1, <2>2 DEF LocalInv, LocalKinds
  <2> SUFFICES ASSUME NEW h \in refused' PROVE NotKept(h)' /\ h # NoHandle /\ opened'[h] # "free"
    BY <2>1, <2>2 DEF Apart
  <2>3. CASE h \in refused
    <3>1. NotKept(h) /\ opened[h] # "free" /\ h \in Handles
      BY <2>3 DEF LocalInv, Apart, TypeOK
    <3>2. h \notin hs
      BY <3>1 DEF NotKept, Kept
    <3> QED
      BY <2>1, <3>1, <3>2, ClosesEffect, HandlesAssumption DEF NotKept, Kept
  <2>4. CASE h \notin refused
    <3>1. h \in hs /\ opened[h] # "free" /\ opened'[h] = opened[h]
      BY <2>1, <2>4, ClosesEffect
    <3>2. h \in Handles /\ h \notin {statsQueue, acctQueue}
      BY <3>1, HandlesAssumption DEF KeptInv, PairsAgree, QueuesAgree, TypeOK, Pairs
    <3>3. \A p \in subscriptions : p.hobj # h /\ p.hsub # h
      BY <3>1 DEF KeptInv, PairsAgree, PairsDiffer
    <3> QED
      BY <2>1, <3>1, <3>2, <3>3, HandlesAssumption DEF NotKept, Kept
  <2> QED
    BY <2>3, <2>4
<1>21. CASE ConnectionBreaks
  BY <1>21 DEF ConnectionBreaks, LocalInv
<1>22. CASE UNCHANGED vars
  BY <1>22 DEF vars, LocalInv, LocalKinds, Apart, NotKept, Kept
<1> QED
  BY <1>1, <1>2, <1>3, <1>4, <1>5, <1>6, <1>7, <1>8, <1>9, <1>10, <1>11, <1>12,
     <1>13, <1>14, <1>15, <1>16, <1>17, <1>18, <1>19, <1>20, <1>21, <1>22
  DEF Next, Administration, Inquiry, Subscription

\* No step drops a handle of an open object.
LEMMA LeakStep == TypeOK /\ MethodInv /\ LeakInv /\ [Next]_vars => LeakInv'
<1> SUFFICES ASSUME TypeOK, MethodInv, LeakInv, [Next]_vars PROVE LeakInv'
  OBVIOUS
<1> USE DEF kept, locals, broker
<1>1. CASE Connect
  BY <1>1 DEF Connect, FreesAll, LeakInv
<1>2. CASE DetectPlatform
  BY <1>2 DEF LeakInv, NotKept, Kept, MethodInv, TypeOK, Open, Return, DetectPlatform
<1>3. CASE OpenStatsQueue
  BY <1>3, OpensEffect, HandlesAssumption
  DEF LeakInv, NotKept, Kept, MethodInv, TypeOK, Kinds, OpenStatsQueue
<1>4. CASE OpenAccountingQueue
  BY <1>4, OpensEffect, HandlesAssumption
  DEF LeakInv, NotKept, Kept, MethodInv, TypeOK, Kinds, OpenAccountingQueue
<1>5. CASE GetMessageBroken
  BY <1>5 DEF GetMessageBroken, LeakInv
<1>6. CASE Disconnect
  BY <1>6 DEF Disconnect, Disc, LeakInv
<1>7. CASE InquireOpens
  BY <1>7, OpensEffect, HandlesAssumption
  DEF LeakInv, NotKept, Kept, MethodInv, TypeOK, Kinds, InquireOpens, Idle
<1>8. CASE InquireReturns
  BY <1>8, ClosesEffect, HandlesAssumption
  DEF LeakInv, NotKept, Kept, MethodInv, TypeOK, InquireReturns, Return
<1>9. CASE PcfOpensReply
  BY <1>9, OpensEffect, HandlesAssumption
  DEF LeakInv, NotKept, Kept, MethodInv, TypeOK, Kinds, PcfOpensReply, Idle
<1>10. CASE PcfOpensCommand
  BY <1>10, OpensEffect, HandlesAssumption
  DEF LeakInv, NotKept, Kept, MethodInv, TypeOK, Kinds, PcfOpensCommand, Idle
<1>11. CASE PcfPuts
  BY <1>11, ClosesEffect, HandlesAssumption
  DEF LeakInv, NotKept, Kept, MethodInv, TypeOK, PcfPuts
<1>12. CASE PcfReturns
  BY <1>12, ClosesEffect, HandlesAssumption
  DEF LeakInv, NotKept, Kept, MethodInv, TypeOK, PcfReturns, Return
<1>13. CASE SubscriberOpensQueue
  BY <1>13, OpensEffect, HandlesAssumption
  DEF LeakInv, NotKept, Kept, MethodInv, TypeOK, Kinds, SubscriberOpensQueue, Idle
<1>14. CASE SubscribeToTopic
  <2>1. PICK h \in Handles : Subscribes(h) /\ subscriptions' = subscriptions \cup {Pair(h)}
    BY <1>14 DEF SubscribeToTopic
  <2>2. /\ Pair(h).hobj = hobj /\ Pair(h).hsub = h /\ Pair(h) \in Kept'
        /\ Kept \subseteq Kept' /\ UNCHANGED <<statsQueue, acctQueue>>
    BY <1>14, <2>1 DEF SubscribeToTopic, Pair, Kept
  <2>3. hsub = NoHandle
    BY <1>14 DEF SubscribeToTopic, MethodInv
  <2>4. ASSUME NEW g \in Handles, ~NotKept(g) \/ g \in {hobj, h} PROVE ~NotKept(g)'
    BY <2>2, <2>4 DEF NotKept
  <2> QED
    BY <2>1, <2>3, <2>4, SubscribesEffect, HandlesAssumption DEF LeakInv
<1>15. CASE CreateSubscription
  <2>1. PICK h \in Handles : Subscribes(h) /\ dataSubs' = dataSubs \cup {Pair(h)}
    BY <1>15 DEF CreateSubscription
  <2>2. /\ Pair(h).hobj = hobj /\ Pair(h).hsub = h /\ Pair(h) \in Kept'
        /\ Kept \subseteq Kept' /\ UNCHANGED <<statsQueue, acctQueue>>
    BY <1>15, <2>1 DEF CreateSubscription, Pair, Kept
  <2>3. hsub = NoHandle
    BY <1>15 DEF CreateSubscription, MethodInv
  <2>4. ASSUME NEW g \in Handles, ~NotKept(g) \/ g \in {hobj, h} PROVE ~NotKept(g)'
    BY <2>2, <2>4 DEF NotKept
  <2> QED
    BY <2>1, <2>3, <2>4, SubscribesEffect, HandlesAssumption DEF LeakInv
<1>16. CASE SubscribeAndGet
  BY <1>16, SubscribesEffect, HandlesAssumption
  DEF LeakInv, NotKept, Kept, MethodInv, SubscribeAndGet
<1>17. CASE SubscribeFails
  BY <1>17, ClosesEffect, HandlesAssumption
  DEF LeakInv, NotKept, Kept, MethodInv, TypeOK, SubscribeFails, Subscribers, Return
<1>18. CASE RetainedRemovesSub
  BY <1>18, ClosesEffect, HandlesAssumption
  DEF LeakInv, NotKept, Kept, MethodInv, TypeOK, RetainedRemovesSub
<1>19. CASE RetainedDeletesQueue
  BY <1>19, ClosesEffect, HandlesAssumption
  DEF LeakInv, NotKept, Kept, MethodInv, TypeOK, RetainedDeletesQueue, Return
<1>20. CASE CloseDataSubscriptions
  <2> DEFINE hs == {p.hsub : p \in dataSubs} \cup {p.hobj : p \in dataSubs}
  <2>1. /\ Closes(hs) /\ dataSubs' = {}
        /\ UNCHANGED <<statsQueue, acctQueue, subscriptions, hobj, hsub, hconn>>
    BY <1>20 DEF CloseDataSubscriptions
  <2>2. ASSUME NEW h \in Handles, ~NotKept(h), h \notin hs PROVE ~NotKept(h)'
    BY <2>1, <2>2 DEF NotKept, Kept
  <2>3. \A h \in Handles : opened'[h] # "free" => opened[h] # "free" /\ (h \notin hs \/ h \in refused')
    BY <2>1, ClosesEffect
  <2> QED
    BY <2>1, <2>2, <2>3, ClosesEffect DEF LeakInv
<1>21. CASE ConnectionBreaks
  BY <1>21 DEF ConnectionBreaks, LeakInv
<1>22. CASE UNCHANGED vars
  BY <1>22 DEF vars, LeakInv, NotKept, Kept
<1> QED
  BY <1>1, <1>2, <1>3, <1>4, <1>5, <1>6, <1>7, <1>8, <1>9, <1>10, <1>11, <1>12,
     <1>13, <1>14, <1>15, <1>16, <1>17, <1>18, <1>19, <1>20, <1>21, <1>22
  DEF Next, Administration, Inquiry, Subscription

-----------------------------------------------------------------------------
(* The theorems.                                                           *)

LEMMA Inductive == Spec => []IInv
<1>1. Init => IInv
  BY DEF Init, IInv, TypeOK, MethodInv, ConnectionInv, Open, KeptInv, LocalInv, LeakInv,
         Kinds, Methods
<1>2. IInv /\ [Next]_vars => IInv'
  BY TypeStep, MethodStep, ConnectionStep, KeptStep, LocalStep, LeakStep DEF IInv
<1> QED
  BY <1>1, <1>2, PTL DEF Spec

\* The variables keep their types: a handle is one of the queue manager's or 0.
THEOREM TypeCorrect == Spec => []TypeOK
<1>1. IInv => TypeOK
  BY DEF IInv
<1> QED
  BY <1>1, Inductive, PTL

\* On a live connection every open object is known to the client, or its MQCLOSE was
\* refused: no way out of a method of MQClient drops a handle.
THEOREM NoLeak == Spec => []NothingLeaks
<1>1. IInv => NothingLeaks
  <2> SUFFICES ASSUME IInv, hconn = "live", NEW h \in Open PROVE h \in Known \cup refused
    BY DEF NothingLeaks
  <2>1. h \in Handles /\ h # NoHandle
    BY HandlesAssumption DEF Open
  <2>2. ~NotKept(h) \/ h \in {hobj, hsub} \cup refused
    BY <2>1 DEF IInv, LeakInv, Open
  <2> QED
    BY <2>1, <2>2 DEF Known, HandlesOf, NotKept, Kept
<1> QED
  BY <1>1, Inductive, PTL

\* What the client keeps is open, is what it takes it for, and has one owner: the two
\* queues, the pairs of both containers and the handles of the method under way.
THEOREM OneOwner == Spec => []OwnersAgree
<1>1. IInv => OwnersAgree
  <2> SUFFICES ASSUME IInv, hconn = "live"
               PROVE  {statsQueue, acctQueue, hobj, hsub} \cap refused = {}
    BY DEF OwnersAgree, IInv, KeptInv
  <2> QED
    BY DEF IInv, LocalInv, Apart, NotKept
<1> QED
  BY <1>1, Inductive, PTL

\* A subscription is removed before its queue is deleted: as long as it is open, and
\* its removal was not refused, its queue is open.
THEOREM QueueOutlivesSubscription == Spec => []SubscriptionKeepsItsQueue
<1>1. IInv => SubscriptionKeepsItsQueue
  <2> SUFFICES ASSUME IInv, NEW h \in Handles, opened[h] = "sub", h \notin refused
               PROVE  opened[destination[h]] = "dynamic"
    BY DEF SubscriptionKeepsItsQueue
  <2>1. hconn = "live"
    BY DEF IInv, ConnectionInv, Open
  <2>2. ~NotKept(h) \/ h \in {hobj, hsub}
    BY <2>1 DEF IInv, LeakInv
  <2>3. CASE ~NotKept(h)
    <3>1. h \notin {statsQueue, acctQueue}
      BY <2>1, HandlesAssumption DEF IInv, KeptInv, QueuesAgree
    <3>2. PICK p \in Kept : p.hobj = h \/ p.hsub = h
      BY <2>3, <3>1 DEF NotKept
    <3> QED
      BY <2>1, <3>2 DEF IInv, KeptInv, PairsAgree, Kept
  <2>4. CASE h \in {hobj, hsub}
    <3>1. h # NoHandle
      BY HandlesAssumption
    <3>2. h = hsub /\ method = "retained"
      BY <2>1, <2>4, <3>1 DEF IInv, LocalInv, LocalKinds, MethodInv
    <3>3. destination[h] = hobj /\ hobj # NoHandle
      BY <2>1, <3>1, <3>2 DEF IInv, LocalInv, LocalKinds, MethodInv
    <3> QED
      BY <2>1, <3>2, <3>3 DEF IInv, LocalInv, LocalKinds
  <2> QED
    BY <2>2, <2>3, <2>4
<1> QED
  BY <1>1, Inductive, PTL

\* disconnect() may return at once when the client believes that it neither is connected
\* nor holds anything: there is no connection then but one whose MQDISC was refused, and
\* nothing open but what MQCLOSE was refused for.
THEOREM EarlyReturnRight == Spec => []EarlyReturnIsSafe
<1>1. IInv => EarlyReturnIsSafe
  BY DEF IInv, ConnectionInv, EarlyReturnIsSafe
<1> QED
  BY <1>1, Inductive, PTL

=============================================================================
