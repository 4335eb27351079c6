---------------------- MODULE ExporterLifecycleProofs ----------------------
(***************************************************************************)
(* The safety properties of ExporterLifecycle, for every set of            *)
(* configurations and every bound on the counters.                         *)
(*                                                                         *)
(* The inductive invariant says, place by place, what each thread may rely *)
(* on while the other runs: which of them can still write running_, that   *)
(* the collector thread is over when the members are destroyed, that the   *)
(* client knows of every live connection, and how many collections a place *)
(* in the collector thread stands for.                                     *)
(***************************************************************************)
EXTENDS ExporterLifecycle, TLAPS

\* The collector thread has not set running_ yet.
BeforeFlag == {"none", "http", "flag"}

\* stop() has cleared running_ and goes on.
Stopping == {"stop_http", "stop_monitor", "stop_close", "stop_disconnect"}

\* Who may write running_, and when the port is bound.
FlagInv ==
    /\ colPc \in BeforeFlag => ~running
    /\ colPc = "flag" => http = "up"
    /\ mainPc \in Stopping => ~running /\ colPc \notin BeforeFlag
    /\ running => http = "up"

\* The main thread destroys what the collector thread uses after joining it.
JoinInv ==
    /\ mainPc = "load" => colPc = "none" /\ ~running
    /\ mainPc \in StopPcs /\ mainRet = "destroy" => colPc = "done"
    /\ mainPc = "destroy" => colPc = "done" /\ ~running
    /\ mainPc = "exit" => colPc \in {"none", "done"} /\ ~running

\* What is held, and who knows.
HeldInv ==
    /\ hconn = "live" => connected
    /\ colPc = "none" => /\ hconn = "none" /\ ~connected /\ handles = {}
                         /\ resourceMonitor = "none" /\ http = "down"
    /\ NothingHeldAtExit

LateInv ==
    /\ lateCycles <= 1
    /\ lateCycles = 1 =>
         ~running /\ colPc \in CyclePcs \cup {"sleep", "tail", "head", "done",
                                              "crashed"}

BeforeCycles ==
    BeforeFlag \cup {"connect", "retry", "run"} \cup SetupPcs

InCycle == CyclePcs \ {"returned"}

Collections == totalCollections + errorCount

\* How many collections each place stands for.
BudgetInv ==
    /\ colPc \in BeforeCycles => Collections = 0 /\ cycleCount = 0
    /\ colPc = "head" =>
         (Collections = 0 /\ cycleCount = 0) \/ ~running \/ collectorEnd
    /\ colPc \in CyclePcs => (cycle = "once" <=> ~config.continuous)
    /\ colPc \in LoopPcs => config.continuous
    /\ colPc \in InCycle /\ cycle # "periodic" =>
         Collections = 0 /\ cycleCount = 0
    /\ colPc = "returned" /\ cycle # "periodic" =>
         Collections <= 1 /\ cycleCount = 0
    /\ config.max_cycles > 0 =>
         /\ colPc \in LoopPcs =>
              Collections <= cycleCount + 1 /\ cycleCount < config.max_cycles
         /\ colPc \in InCycle /\ cycle = "periodic" =>
              Collections <= cycleCount + 1 /\ cycleCount < config.max_cycles
         /\ colPc = "returned" /\ cycle = "periodic" =>
              Collections <= cycleCount + 2 /\ cycleCount < config.max_cycles
    /\ CyclesWithinBudget

IInv == /\ TypeOK /\ FlagInv /\ JoinInv /\ HeldInv
        /\ ReconnectBlockUnreachable /\ LateInv /\ BudgetInv

-----------------------------------------------------------------------------
(* Each step preserves each part of the invariant.                         *)

\* Every step preserves the type invariant.  A step that assigns a truth value
\* shows it in a step of its own.
LEMMA TypeStep == IInv /\ [Next]_vars => TypeOK'
<1> SUFFICES ASSUME IInv, [Next]_vars PROVE TypeOK'
  OBVIOUS
<1> USE ConfigsAssumption, CounterCapAssumption DEF IInv, TypeOK, ConfigType,
  StopPcs, MainPcs, SetupPcs, CyclePcs, LoopPcs, ColPcs, steady, colSide,
  data, flags, link, counters, client, monitor, mainVars, colVars, threads,
  Goto, MainGoto
<1>1. CASE Main
  <2>1. CASE LoadConfigFails
    BY <2>1 DEF LoadConfigFails
  <2>2. CASE SpawnCollector
    BY <2>2 DEF SpawnCollector
  <2>3. CASE PollEnds
    BY <2>3 DEF PollEnds
  <2>4. CASE StopFlags
    <3>1. running' \in BOOLEAN /\ collectorEnd' \in BOOLEAN
      BY <2>4, Zenon DEF StopFlags
    <3>2. QED
      BY <2>4, <3>1 DEF StopFlags
  <2>5. CASE StopHttp
    BY <2>5 DEF StopHttp
  <2>6. CASE StopMonitor
    BY <2>6 DEF StopMonitor
  <2>7. CASE StopClose
    BY <2>7 DEF StopClose
  <2>8. CASE StopDisconnect
    <3>1. connected' \in BOOLEAN
      BY <2>8, Zenon DEF StopDisconnect, Disconnect, Disc
    <3>2. QED
      BY <2>8, <3>1 DEF StopDisconnect, Disconnect, Disc
  <2>9. CASE Join
    BY <2>9 DEF Join
  <2>10. CASE Destroy
    <3>1. connected' \in BOOLEAN
      BY <2>10, Zenon DEF Destroy, Disconnect, Disc
    <3>2. QED
      BY <2>10, <3>1 DEF Destroy, Disconnect, Disc
  <2>11. QED
    BY <1>1, <2>1, <2>2, <2>3, <2>4, <2>5, <2>6, <2>7, <2>8, <2>9, <2>10
       DEF Main
<1>2. CASE Startup
  <2>1. CASE HttpStart
    BY <2>1 DEF HttpStart
  <2>2. CASE HttpStartFails
    BY <2>2 DEF HttpStartFails
  <2>3. CASE SetRunning
    BY <2>3 DEF SetRunning
  <2>4. CASE LoopHead
    BY <2>4 DEF LoopHead
  <2>5. CASE Connect
    BY <2>5 DEF Connect
  <2>6. CASE ConnectFails
    <3>1. connectedQmgr' \in BOOLEAN /\ running' \in BOOLEAN
      BY <2>6, Zenon DEF ConnectFails
    <3>2. QED
      BY <2>6, <3>1 DEF ConnectFails
  <2>7. CASE Retry
    BY <2>7 DEF Retry
  <2>8. QED
    BY <1>2, <2>1, <2>2, <2>3, <2>4, <2>5, <2>6, <2>7 DEF Startup
<1>3. CASE Setup
  <2>1. CASE OpenHandles
    BY <2>1 DEF OpenHandles
  <2>2. CASE MonitorNew
    BY <2>2 DEF MonitorNew
  <2>3. CASE MonitorDiscovers
    BY <2>3 DEF MonitorDiscovers
  <2>4. CASE MonitorDiscoverFails
    BY <2>4 DEF MonitorDiscoverFails
  <2>5. CASE MonitorSubscribe
    BY <2>5 DEF MonitorSubscribe
  <2>6. CASE MonitorPublish
    BY <2>6 DEF MonitorPublish
  <2>7. QED
    BY <1>3, <2>1, <2>2, <2>3, <2>4, <2>5, <2>6 DEF Setup
<1>4. CASE CollectCycle
  <2>1. CASE Drain
    BY <2>1 DEF Drain
  <2>2. CASE Update
    BY <2>2 DEF Update
  <2>3. CASE UpdateThrows
    BY <2>3 DEF UpdateThrows, Bump
  <2>4. CASE Publications
    BY <2>4 DEF Publications
  <2>5. CASE Finish
    BY <2>5 DEF Finish, Bump
  <2>6. QED
    BY <1>4, <2>1, <2>2, <2>3, <2>4, <2>5 DEF CollectCycle
<1>5. CASE RunContinuous
  <2>1. CASE InitialReturns
    BY <2>1 DEF InitialReturns
  <2>2. CASE PeriodicReturns
    <3>1. running' \in BOOLEAN
      BY <2>2, Zenon DEF PeriodicReturns, AfterRun, LastCycle, Bump
    <3>2. QED
      BY <2>2, <3>1 DEF PeriodicReturns, AfterRun, LastCycle, Bump
  <2>3. CASE SleepStopped
    BY <2>3 DEF SleepStopped, AfterRun
  <2>4. CASE SleepElapses
    BY <2>4 DEF SleepElapses, BeginCycle, Bump
  <2>5. CASE RediscoverIsDue
    BY <2>5 DEF RediscoverIsDue
  <2>6. CASE Rediscover
    BY <2>6 DEF Rediscover, BeginCycle, Bump
  <2>7. QED
    BY <1>5, <2>1, <2>2, <2>3, <2>4, <2>5, <2>6 DEF RunContinuous
<1>6. CASE Run
  BY <1>6 DEF Run, BeginCycle, Bump
<1>7. CASE OnceReturns
  BY <1>7 DEF OnceReturns, AfterRun
<1>8. CASE Tail
  <2>1. connectedQmgr' \in BOOLEAN /\ connected' \in BOOLEAN
    BY <1>8, Zenon DEF Tail, Disc
  <2>2. CASE running /\ ~collectorEnd
    BY <1>8, <2>1, <2>2 DEF Tail, Disc
  <2>3. CASE ~(running /\ ~collectorEnd)
    <3>1. UNCHANGED <<connectedQmgr, client, monitor>>
      BY <1>8, <2>3 DEF Tail, Disc
    <3>2. QED
      BY <1>8, <3>1 DEF Tail, Disc
  <2>4. QED
    BY <2>2, <2>3
<1>9. CASE Environment
  <2>1. CASE Signal
    BY <2>1 DEF Signal, Terminated
  <2>2. CASE QueueManagerStops
    <3>1. qmUp' \in BOOLEAN
      BY <2>2, Zenon DEF QueueManagerStops
    <3>2. QED
      BY <2>2, <3>1 DEF QueueManagerStops
  <2>3. CASE QueueManagerStarts
    BY <2>3 DEF QueueManagerStarts
  <2>4. CASE Crash
    BY <2>4 DEF Crash, UseAfterDestroy, Terminated
  <2>5. QED
    BY <1>9, <2>1, <2>2, <2>3, <2>4 DEF Environment
<1>10. CASE UNCHANGED vars
  BY <1>10 DEF vars
<1>11. QED
  BY <1>1, <1>2, <1>3, <1>4, <1>5, <1>6, <1>7, <1>8, <1>9, <1>10 DEF Next,
     CollectorThread

\* Main and Startup write the flag and the port: only the collector thread sets
\* running_, once, after it has bound the port; only stop() and the end of a
\* run clear it.
LEMMA FlagStep == IInv /\ [Next]_vars => FlagInv'
<1> SUFFICES ASSUME IInv, [Next]_vars PROVE FlagInv'
  OBVIOUS
<1> USE ConfigsAssumption, CounterCapAssumption DEF IInv, TypeOK, FlagInv,
  JoinInv, BeforeFlag, Stopping, StopPcs, MainPcs, SetupPcs, CyclePcs,
  LoopPcs, ColPcs, steady, colSide, data, flags, link, counters, client,
  monitor, mainVars, colVars, threads, Goto, MainGoto
<1>1. CASE Main
  <2>1. CASE LoadConfigFails
    BY <2>1 DEF LoadConfigFails
  <2>2. CASE SpawnCollector
    BY <2>2 DEF SpawnCollector
  <2>3. CASE PollEnds
    BY <2>3 DEF PollEnds
  <2>4. CASE StopFlags
    BY <2>4 DEF StopFlags
  <2>5. CASE StopHttp
    BY <2>5 DEF StopHttp
  <2>6. CASE StopMonitor
    BY <2>6 DEF StopMonitor
  <2>7. CASE StopClose
    BY <2>7 DEF StopClose
  <2>8. CASE StopDisconnect
    BY <2>8 DEF StopDisconnect, Disconnect, Disc
  <2>9. CASE Join
    BY <2>9 DEF Join
  <2>10. CASE Destroy
    BY <2>10 DEF Destroy, Disconnect, Disc
  <2>11. QED
    BY <1>1, <2>1, <2>2, <2>3, <2>4, <2>5, <2>6, <2>7, <2>8, <2>9, <2>10
       DEF Main
<1>2. CASE Startup
  <2>1. CASE HttpStart
    BY <2>1 DEF HttpStart
  <2>2. CASE HttpStartFails
    BY <2>2 DEF HttpStartFails
  <2>3. CASE SetRunning
    BY <2>3 DEF SetRunning
  <2>4. CASE LoopHead
    BY <2>4 DEF LoopHead
  <2>5. CASE Connect
    BY <2>5 DEF Connect
  <2>6. CASE ConnectFails
    BY <2>6 DEF ConnectFails
  <2>7. CASE Retry
    BY <2>7 DEF Retry
  <2>8. QED
    BY <1>2, <2>1, <2>2, <2>3, <2>4, <2>5, <2>6, <2>7 DEF Startup
<1>3. CASE Setup
  BY <1>3 DEF Setup, OpenHandles, MonitorNew, MonitorDiscovers,
     MonitorDiscoverFails, MonitorSubscribe, MonitorPublish
<1>4. CASE CollectCycle
  BY <1>4 DEF CollectCycle, Drain, Update, UpdateThrows, Publications, Finish,
     Bump
<1>5. CASE RunContinuous
  BY <1>5 DEF RunContinuous, InitialReturns, PeriodicReturns, SleepStopped,
     SleepElapses, RediscoverIsDue, Rediscover, AfterRun, LastCycle, Bump,
     BeginCycle
<1>6. CASE Run
  BY <1>6 DEF Run, BeginCycle, Bump
<1>7. CASE OnceReturns
  BY <1>7 DEF OnceReturns, AfterRun
<1>8. CASE Tail
  BY <1>8 DEF Tail, Disc
<1>9. CASE Environment
  BY <1>9 DEF Environment, Signal, QueueManagerStops, QueueManagerStarts,
     Crash, Terminated, UseAfterDestroy
<1>10. CASE UNCHANGED vars
  BY <1>10 DEF vars
<1>11. QED
  BY <1>1, <1>2, <1>3, <1>4, <1>5, <1>6, <1>7, <1>8, <1>9, <1>10 DEF Next,
     CollectorThread

\* The main thread destroys the members only after the collector thread is over.
LEMMA JoinStep == IInv /\ [Next]_vars => JoinInv'
<1> SUFFICES ASSUME IInv, [Next]_vars PROVE JoinInv'
  OBVIOUS
<1> USE ConfigsAssumption DEF IInv, TypeOK, FlagInv, JoinInv, BeforeFlag,
  Stopping, StopPcs, MainPcs, SetupPcs, CyclePcs, LoopPcs, ColPcs, steady,
  colSide, data, flags, link, counters, client, monitor, mainVars, colVars,
  threads, Goto, MainGoto
<1>1. CASE Main
  <2>1. CASE LoadConfigFails
    BY <2>1 DEF LoadConfigFails
  <2>2. CASE SpawnCollector
    BY <2>2 DEF SpawnCollector
  <2>3. CASE PollEnds
    BY <2>3 DEF PollEnds
  <2>4. CASE StopFlags
    BY <2>4 DEF StopFlags
  <2>5. CASE StopHttp
    BY <2>5 DEF StopHttp
  <2>6. CASE StopMonitor
    BY <2>6 DEF StopMonitor
  <2>7. CASE StopClose
    BY <2>7 DEF StopClose
  <2>8. CASE StopDisconnect
    BY <2>8 DEF StopDisconnect, Disconnect, Disc
  <2>9. CASE Join
    BY <2>9 DEF Join
  <2>10. CASE Destroy
    BY <2>10 DEF Destroy, Disconnect, Disc
  <2>11. QED
    BY <1>1, <2>1, <2>2, <2>3, <2>4, <2>5, <2>6, <2>7, <2>8, <2>9, <2>10
       DEF Main
<1>2. CASE Startup
  BY <1>2 DEF Startup, HttpStart, HttpStartFails, SetRunning, LoopHead,
     Connect, ConnectFails, Retry
<1>3. CASE Setup
  BY <1>3 DEF Setup, OpenHandles, MonitorNew, MonitorDiscovers,
     MonitorDiscoverFails, MonitorSubscribe, MonitorPublish
<1>4. CASE CollectCycle
  BY <1>4 DEF CollectCycle, Drain, Update, UpdateThrows, Publications, Finish,
     Bump
<1>5. CASE RunContinuous
  BY <1>5 DEF RunContinuous, InitialReturns, PeriodicReturns, SleepStopped,
     SleepElapses, RediscoverIsDue, Rediscover, AfterRun, LastCycle, Bump,
     BeginCycle
<1>6. CASE Run
  BY <1>6 DEF Run, BeginCycle, Bump
<1>7. CASE OnceReturns
  BY <1>7 DEF OnceReturns, AfterRun
<1>8. CASE Tail
  BY <1>8 DEF Tail, Disc
<1>9. CASE Environment
  BY <1>9 DEF Environment, Signal, QueueManagerStops, QueueManagerStarts,
     Crash, Terminated, UseAfterDestroy
<1>10. CASE UNCHANGED vars
  BY <1>10 DEF vars
<1>11. QED
  BY <1>1, <1>2, <1>3, <1>4, <1>5, <1>6, <1>7, <1>8, <1>9, <1>10 DEF Next,
     CollectorThread

\* The client never forgets a live connection, so the last disconnect() does
\* not return early on one.
LEMMA HeldStep == IInv /\ [Next]_vars => HeldInv'
<1> SUFFICES ASSUME IInv, [Next]_vars PROVE HeldInv'
  OBVIOUS
<1> USE ConfigsAssumption DEF IInv, TypeOK, JoinInv, HeldInv,
  NothingHeldAtExit, StopPcs, MainPcs, SetupPcs, CyclePcs, LoopPcs, ColPcs,
  steady, colSide, data, flags, link, counters, client, monitor, mainVars,
  colVars, threads, Goto, MainGoto
<1>1. CASE Main
  <2>1. CASE LoadConfigFails
    BY <2>1 DEF LoadConfigFails
  <2>2. CASE SpawnCollector
    BY <2>2 DEF SpawnCollector
  <2>3. CASE PollEnds
    BY <2>3 DEF PollEnds
  <2>4. CASE StopFlags
    BY <2>4 DEF StopFlags
  <2>5. CASE StopHttp
    BY <2>5 DEF StopHttp
  <2>6. CASE StopMonitor
    BY <2>6 DEF StopMonitor
  <2>7. CASE StopClose
    BY <2>7 DEF StopClose
  <2>8. CASE StopDisconnect
    BY <2>8 DEF StopDisconnect, Disconnect, Disc
  <2>9. CASE Join
    BY <2>9 DEF Join
  <2>10. CASE Destroy
    BY <2>10 DEF Destroy, Disconnect, Disc
  <2>11. QED
    BY <1>1, <2>1, <2>2, <2>3, <2>4, <2>5, <2>6, <2>7, <2>8, <2>9, <2>10
       DEF Main
<1>2. CASE Startup
  <2>1. CASE HttpStart
    BY <2>1 DEF HttpStart
  <2>2. CASE HttpStartFails
    BY <2>2 DEF HttpStartFails
  <2>3. CASE SetRunning
    BY <2>3 DEF SetRunning
  <2>4. CASE LoopHead
    BY <2>4 DEF LoopHead
  <2>5. CASE Connect
    BY <2>5 DEF Connect
  <2>6. CASE ConnectFails
    BY <2>6 DEF ConnectFails
  <2>7. CASE Retry
    BY <2>7 DEF Retry
  <2>8. QED
    BY <1>2, <2>1, <2>2, <2>3, <2>4, <2>5, <2>6, <2>7 DEF Startup
<1>3. CASE Setup
  BY <1>3 DEF Setup, OpenHandles, MonitorNew, MonitorDiscovers,
     MonitorDiscoverFails, MonitorSubscribe, MonitorPublish
<1>4. CASE CollectCycle
  BY <1>4 DEF CollectCycle, Drain, Update, UpdateThrows, Publications, Finish,
     Bump
<1>5. CASE RunContinuous
  BY <1>5 DEF RunContinuous, InitialReturns, PeriodicReturns, SleepStopped,
     SleepElapses, RediscoverIsDue, Rediscover, AfterRun, LastCycle, Bump,
     BeginCycle
<1>6. CASE Run
  BY <1>6 DEF Run, BeginCycle, Bump
<1>7. CASE OnceReturns
  BY <1>7 DEF OnceReturns, AfterRun
<1>8. CASE Tail
  BY <1>8 DEF Tail, Disc
<1>9. CASE Environment
  <2>1. CASE Signal
    BY <2>1 DEF Signal, Terminated
  <2>2. CASE QueueManagerStops
    BY <2>2 DEF QueueManagerStops
  <2>3. CASE QueueManagerStarts
    BY <2>3 DEF QueueManagerStarts
  <2>4. CASE Crash
    BY <2>4 DEF Crash, UseAfterDestroy, Terminated
  <2>5. QED
    BY <1>9, <2>1, <2>2, <2>3, <2>4 DEF Environment
<1>10. CASE UNCHANGED vars
  BY <1>10 DEF vars
<1>11. QED
  BY <1>1, <1>2, <1>3, <1>4, <1>5, <1>6, <1>7, <1>8, <1>9, <1>10 DEF Next,
     CollectorThread

\* Each way into the end of start()'s loop has cleared running_ or set
\* collector_end_, and neither is undone.
LEMMA ReconnectStep == IInv /\ [Next]_vars => ReconnectBlockUnreachable'
<1> SUFFICES ASSUME IInv, [Next]_vars PROVE ReconnectBlockUnreachable'
  OBVIOUS
<1> USE ConfigsAssumption DEF IInv, TypeOK, ReconnectBlockUnreachable, StopPcs,
  MainPcs, SetupPcs, CyclePcs, LoopPcs, ColPcs, steady, colSide, data, flags,
  link, counters, client, monitor, mainVars, colVars, threads, Goto, MainGoto
<1>1. CASE Main
  BY <1>1 DEF Main, LoadConfigFails, SpawnCollector, PollEnds, StopFlags,
     StopHttp, StopMonitor, StopClose, StopDisconnect, Join, Destroy,
     Disconnect, Disc
<1>2. CASE Startup
  BY <1>2 DEF Startup, HttpStart, HttpStartFails, SetRunning, LoopHead,
     Connect, ConnectFails, Retry
<1>3. CASE Setup
  BY <1>3 DEF Setup, OpenHandles, MonitorNew, MonitorDiscovers,
     MonitorDiscoverFails, MonitorSubscribe, MonitorPublish
<1>4. CASE CollectCycle
  BY <1>4 DEF CollectCycle, Drain, Update, UpdateThrows, Publications, Finish,
     Bump
<1>5. CASE RunContinuous
  <2>1. CASE InitialReturns
    BY <2>1 DEF InitialReturns
  <2>2. CASE PeriodicReturns
    BY <2>2 DEF PeriodicReturns, AfterRun, LastCycle, Bump
  <2>3. CASE SleepStopped
    BY <2>3 DEF SleepStopped, AfterRun
  <2>4. CASE SleepElapses
    BY <2>4 DEF SleepElapses, BeginCycle, Bump
  <2>5. CASE RediscoverIsDue
    BY <2>5 DEF RediscoverIsDue
  <2>6. CASE Rediscover
    BY <2>6 DEF Rediscover, BeginCycle, Bump
  <2>7. QED
    BY <1>5, <2>1, <2>2, <2>3, <2>4, <2>5, <2>6 DEF RunContinuous
<1>6. CASE Run
  BY <1>6 DEF Run, BeginCycle, Bump
<1>7. CASE OnceReturns
  BY <1>7 DEF OnceReturns, AfterRun
<1>8. CASE Tail
  BY <1>8 DEF Tail, Disc
<1>9. CASE Environment
  BY <1>9 DEF Environment, Signal, QueueManagerStops, QueueManagerStarts,
     Crash, Terminated, UseAfterDestroy
<1>10. CASE UNCHANGED vars
  BY <1>10 DEF vars
<1>11. QED
  BY <1>1, <1>2, <1>3, <1>4, <1>5, <1>6, <1>7, <1>8, <1>9, <1>10 DEF Next,
     CollectorThread

\* A cycle begun with running_ cleared leads out of the loops.
LEMMA LateStep == IInv /\ [Next]_vars => LateInv'
<1> SUFFICES ASSUME IInv, [Next]_vars PROVE LateInv'
  OBVIOUS
<1> USE ConfigsAssumption, CounterCapAssumption DEF IInv, TypeOK, FlagInv,
  JoinInv, BeforeFlag, LateInv, StopPcs, MainPcs, SetupPcs, CyclePcs, LoopPcs,
  ColPcs, steady, colSide, data, flags, link, counters, client, monitor,
  mainVars, colVars, threads, Goto, MainGoto
<1>1. CASE Main
  BY <1>1 DEF Main, LoadConfigFails, SpawnCollector, PollEnds, StopFlags,
     StopHttp, StopMonitor, StopClose, StopDisconnect, Join, Destroy,
     Disconnect, Disc
<1>2. CASE Startup
  BY <1>2 DEF Startup, HttpStart, HttpStartFails, SetRunning, LoopHead,
     Connect, ConnectFails, Retry
<1>3. CASE Setup
  BY <1>3 DEF Setup, OpenHandles, MonitorNew, MonitorDiscovers,
     MonitorDiscoverFails, MonitorSubscribe, MonitorPublish
<1>4. CASE CollectCycle
  BY <1>4 DEF CollectCycle, Drain, Update, UpdateThrows, Publications, Finish,
     Bump
<1>5. CASE RunContinuous
  <2>1. CASE InitialReturns
    BY <2>1 DEF InitialReturns
  <2>2. CASE PeriodicReturns
    BY <2>2 DEF PeriodicReturns, AfterRun, LastCycle, Bump
  <2>3. CASE SleepStopped
    BY <2>3 DEF SleepStopped, AfterRun
  <2>4. CASE SleepElapses
    BY <2>4 DEF SleepElapses, BeginCycle, Bump
  <2>5. CASE RediscoverIsDue
    BY <2>5 DEF RediscoverIsDue
  <2>6. CASE Rediscover
    BY <2>6 DEF Rediscover, BeginCycle, Bump
  <2>7. QED
    BY <1>5, <2>1, <2>2, <2>3, <2>4, <2>5, <2>6 DEF RunContinuous
<1>6. CASE Run
  BY <1>6 DEF Run, BeginCycle, Bump
<1>7. CASE OnceReturns
  BY <1>7 DEF OnceReturns, AfterRun
<1>8. CASE Tail
  BY <1>8 DEF Tail, Disc
<1>9. CASE Environment
  BY <1>9 DEF Environment, Signal, QueueManagerStops, QueueManagerStarts,
     Crash, Terminated, UseAfterDestroy
<1>10. CASE UNCHANGED vars
  BY <1>10 DEF vars
<1>11. QED
  BY <1>1, <1>2, <1>3, <1>4, <1>5, <1>6, <1>7, <1>8, <1>9, <1>10 DEF Next,
     CollectorThread

\* No place in the collector thread stands for more collections than it may.
LEMMA BudgetStep == IInv /\ [Next]_vars => BudgetInv'
<1> SUFFICES ASSUME IInv, [Next]_vars PROVE BudgetInv'
  OBVIOUS
<1> USE ConfigsAssumption, CounterCapAssumption DEF IInv, TypeOK, ConfigType,
  JoinInv, ReconnectBlockUnreachable, BudgetInv, BeforeCycles, BeforeFlag,
  InCycle, Collections, CyclesWithinBudget, CycleBudget, StopPcs, MainPcs,
  SetupPcs, CyclePcs, LoopPcs, ColPcs, steady, colSide, data, flags, link,
  counters, client, monitor, mainVars, colVars, threads, Goto, MainGoto
<1>1. CASE Main
  BY <1>1 DEF Main, LoadConfigFails, SpawnCollector, PollEnds, StopFlags,
     StopHttp, StopMonitor, StopClose, StopDisconnect, Join, Destroy,
     Disconnect, Disc
<1>2. CASE Startup
  BY <1>2 DEF Startup, HttpStart, HttpStartFails, SetRunning, LoopHead,
     Connect, ConnectFails, Retry
<1>3. CASE Setup
  BY <1>3 DEF Setup, OpenHandles, MonitorNew, MonitorDiscovers,
     MonitorDiscoverFails, MonitorSubscribe, MonitorPublish
<1>4. CASE CollectCycle
  <2>1. CASE Drain
    BY <2>1 DEF Drain
  <2>2. CASE Update
    BY <2>2 DEF Update
  <2>3. CASE UpdateThrows
    BY <2>3 DEF UpdateThrows, Bump
  <2>4. CASE Publications
    BY <2>4 DEF Publications
  <2>5. CASE Finish
    BY <2>5 DEF Finish, Bump
  <2>6. QED
    BY <1>4, <2>1, <2>2, <2>3, <2>4, <2>5 DEF CollectCycle
<1>5. CASE RunContinuous
  <2>1. CASE InitialReturns
    BY <2>1 DEF InitialReturns
  <2>2. CASE PeriodicReturns
    BY <2>2 DEF PeriodicReturns, AfterRun, LastCycle, Bump
  <2>3. CASE SleepStopped
    BY <2>3 DEF SleepStopped, AfterRun
  <2>4. CASE SleepElapses
    BY <2>4 DEF SleepElapses, BeginCycle, Bump
  <2>5. CASE RediscoverIsDue
    BY <2>5 DEF RediscoverIsDue
  <2>6. CASE Rediscover
    BY <2>6 DEF Rediscover, BeginCycle, Bump
  <2>7. QED
    BY <1>5, <2>1, <2>2, <2>3, <2>4, <2>5, <2>6 DEF RunContinuous
<1>6. CASE Run
  BY <1>6 DEF Run, BeginCycle, Bump
<1>7. CASE OnceReturns
  BY <1>7 DEF OnceReturns, AfterRun
<1>8. CASE Tail
  BY <1>8 DEF Tail, Disc
<1>9. CASE Environment
  BY <1>9 DEF Environment, Signal, QueueManagerStops, QueueManagerStarts,
     Crash, Terminated, UseAfterDestroy
<1>10. CASE UNCHANGED vars
  BY <1>10 DEF vars
<1>11. QED
  BY <1>1, <1>2, <1>3, <1>4, <1>5, <1>6, <1>7, <1>8, <1>9, <1>10 DEF Next,
     CollectorThread

-----------------------------------------------------------------------------
(* The invariant, and what it implies.                                     *)

\* The initial states satisfy every part of the invariant.
LEMMA InitIInv == Init => IInv
<1> SUFFICES ASSUME Init PROVE IInv
  OBVIOUS
<1> USE ConfigsAssumption, CounterCapAssumption DEF Init, MainPcs, StopPcs,
  ColPcs, SetupPcs, CyclePcs, LoopPcs, BeforeFlag
<1>1. TypeOK
  <2>1. /\ shutdownRequested \in BOOLEAN /\ running \in BOOLEAN
        /\ collectorEnd \in BOOLEAN /\ connectedOnce \in BOOLEAN
        /\ connectedQmgr \in BOOLEAN /\ connected \in BOOLEAN
    BY Zenon
  <2>2. QED
    BY <2>1 DEF TypeOK
<1>2. FlagInv /\ JoinInv
  BY DEF FlagInv, JoinInv, Stopping
<1>3. HeldInv /\ ReconnectBlockUnreachable /\ LateInv
  BY DEF HeldInv, NothingHeldAtExit, ReconnectBlockUnreachable, LateInv
<1>4. BudgetInv
  BY DEF BudgetInv, BeforeCycles, InCycle, Collections, CyclesWithinBudget,
         CycleBudget, ConfigType
<1>5. QED
  BY <1>1, <1>2, <1>3, <1>4 DEF IInv

\* The inductive invariant holds in every reachable state.
THEOREM InductiveInvariant == Spec => []IInv
<1>1. Init => IInv
  BY InitIInv
<1>2. IInv /\ [Next]_vars => IInv'
  BY TypeStep, FlagStep, JoinStep, HeldStep, ReconnectStep, LateStep,
     BudgetStep DEF IInv
<1>3. QED
  BY <1>1, <1>2, PTL DEF Spec


\* Every variable keeps its type: the counters of collector.cpp:235-248 their
\* bound, the two threads their places.
THEOREM TypeCorrect == Spec => []TypeOK
<1>1. IInv => TypeOK
  BY DEF IInv
<1>2. QED
  BY InductiveInvariant, <1>1, PTL


\* Whatever the interleaving of start() and stop(), the port is bound in every
\* state in which running_ is set (collector.cpp:100-101 and 167-170).
THEOREM EndpointUp == Spec => []EndpointUpWhileRunning
<1>1. IInv => EndpointUpWhileRunning
  BY DEF IInv, FlagInv, EndpointUpWhileRunning
<1>2. QED
  BY InductiveInvariant, <1>1, PTL


\* A bounded run makes at most max_cycles + 1 collections, and a single run one
\* (collector.cpp:192-239), for every configuration.
THEOREM CycleBudgetKept == Spec => []CyclesWithinBudget
<1>1. IInv => CyclesWithinBudget
  BY DEF IInv, BudgetInv
<1>2. QED
  BY InductiveInvariant, <1>1, PTL


\* stop() is followed by at most one more collection, wherever the collector
\* thread is when running_ is cleared (collector.cpp:163-168, 204-230).
THEOREM LateCycleBound == Spec => []AtMostOneLateCycle
<1>1. IInv => AtMostOneLateCycle
  BY DEF IInv, LateInv, AtMostOneLateCycle
<1>2. QED
  BY InductiveInvariant, <1>1, PTL


\* The reconnect block of start() (collector.cpp:134-144) is dead code, for
\* every configuration and every behaviour of the queue manager.
THEOREM ReconnectDead == Spec => []ReconnectBlockUnreachable
<1>1. IInv => ReconnectBlockUnreachable
  BY DEF IInv
<1>2. QED
  BY InductiveInvariant, <1>1, PTL


\* A process that returns from main has released its monitor, its port and its
\* connection, but for one whose MQDISC was called and failed (mqclient.cpp:148),
\* also after a stop() that ran during the connect or the setup
\* (collector.cpp:20-22, 163-190).
THEOREM CleanExit == Spec => []NothingHeldAtExit
<1>1. IInv => NothingHeldAtExit
  BY DEF IInv, HeldInv
<1>2. QED
  BY InductiveInvariant, <1>1, PTL
=============================================================================
