# IBM MQ metrics exporter: specifications and proofs

TLA+ specifications of the C++ exporter in `src/`, the TLC configurations that
check them on small instances, and the theorems TLAPS proves for every
instance. Paths below are relative to the repository (`collector.cpp` stands for
`src/collector.cpp`, and so on).

- [The system](#the-system): components, state, operations, interactions
- [Modules](#modules): what models what
- [Runs](#runs): what TLC checks, with which bounds and fairness
- [Proofs](#proofs): theorems, assumptions, the inductive invariants
- [Findings](#findings) and [known limits of the code](#known-limits-of-the-code)
- [Not modelled](#not-modelled) and [Plan](#plan)

## The system

The exporter is one process with two threads of its own and the HTTP threads of
prometheus-cpp. The main thread (`run_collector`, main.cpp) loads the
configuration, installs signal handlers, starts a second thread that runs
`Collector::start`, polls a flag, and at the end calls `Collector::stop` and
joins. The two threads share, without a lock, the flags `running_` and
`collector_end_`, the MQ client, the resource monitor and the raw pointer to it
that the metrics collector keeps.

| Component | State | Operations | Talks to |
|---|---|---|---|
| main | `g_shutdown_requested`, its thread | signal handler, wait loop, subcommands | Collector |
| Collector | `running_`, `collector_end_`, `connected_qmgr_`, counters, owners of all below | `start`, `stop`, `setup_after_connect`, `run_once`, `run_continuous`, `collect_cycle` | all |
| MQClient | `connected_`, connection handle, two input queues, subscription pairs | `connect`, `disconnect`, opens, gets, inquiries, PCF commands, subscriptions | queue manager |
| PCF request/reply | a dynamic reply queue for each call | `send_pcf_command` | command server |
| MetricsCollector | gauges and counters of the registry, `cached_queues_`, monitor pointer | `collect_metrics` | MQClient, ResourceMonitor |
| ResourceMonitor | discovered types and elements, data subscriptions | `discover`, `create_subscriptions`, `process_publications`, `close` | MQClient |
| HTTPServer | the exposer | `start`, `stop` | prometheus-cpp |
| Configuration | the settings while they are put together; the files and the environment outlive a call | `load_config`, flags, `validate`, the subcommands | main, file system |
| PCF parser | none | decode statistics and accounting messages | MetricsCollector |
| PCF inquiry | none | build commands, decode replies | MQClient |

What is hard to get right, and what makes each component correct:

- *Lifecycle.* `stop()` can come at any statement of the collector thread, before it
  has set `running_` or in the middle of a connect. Correct means: the port is bound
  while the collector says it runs, a run makes the number of collections it was
  asked for, nothing is held at exit but a connection that refused to be given up, a
  signal ends the process, a lost connection is dialled again.
- *MQ client.* Any MQI call may fail between two that succeeded, and the
  connection may break anywhere. Correct means: no handle is dropped, used by
  two owners, or closed in an order in which messages are lost.
- *PCF request/reply.* The server may answer when the caller has given up.
  A reply may be longer than the buffer. Correct means: a caller is given
  replies to its own command only, in order, and it always returns.
- *Collection.* Sources fail one by one, and destructive reads have no second
  chance. Correct means: what was counted balances with what was written, the
  newest value wins, one failed source does not take others with it, what is
  excluded is not shown, and gauges do not go stale.
- *Publications.* They arrive while they are read, more than a collection
  reads, for types whose element ids overlap. Correct means: none is skipped
  or shown out of order, and no value lands on the wrong series.
- *PCF.* Five loops walk through structures whose lengths they did not write.
  Correct means: each looks at nothing behind its message and ends, finds what
  was sent, and mixes no reply, group or list with the next.
- *Configuration.* Four layers are put over each other in two files. Correct
  means: no layer undoes one of a higher rank, what one command accepts starts
  another, and what was written by hand twice agrees.

`PROJECT.json` lists each such hazard at its line, with the property that
covers it, or why none does.

## Modules

| Module | Models | Composes or refines |
|---|---|---|
| `ExporterLifecycle` | both threads of the process, the signal, the queue manager's connection | composes Collector, main, HTTP server and the lives of client and monitor |
| `ExporterLifecycleProofs` | theorems about it | |
| `MQClient` | every method of the client that opens or closes an MQ object | composes client, resource monitor's handles, queue manager |
| `MQClientProofs` | theorems about it | |
| `Inquiry` | what callers of `send_pcf_command` rely on | abstract specification |
| `PcfCommand` | `send_pcf_command`, queue manager, command server | implements `Inquiry` |
| `PcfCommandProofs` | theorems about it, with the refinement | |
| `Collection` | `collect_metrics` over and over, with its sources | composes metrics collector, client, queue manager |
| `CollectionProofs` | theorems about it | |
| `Publications` | resource monitor and its subscriptions | composes monitor, broker, registry |
| `PublicationsProofs` | theorems about it | |
| `PcfMessage` | layout of PCF messages, the commands of `pcf_inquiry.cpp` | |
| `PcfDecode` | the loops over PCF structures, turn by turn | extends `PcfMessage`; five readers and the command server |
| `PcfDecodeProofs` | theorems about the walk, for every message, and about what it collects of one that is laid out well | |
| `PcfResults` | what status replies, discovery, statistics and accounting become | extends `PcfDecode` |
| `PcfResultsProofs` | theorems about those results, for every message that is laid out well, and that every message is | extends `PcfDecodeProofs` |
| `Configuration` | `load_config`, `validate`, the flags and the subcommands | composes main, configuration, files |
| `ConfigurationProofs` | theorems about it | |
| `MC*` | instances for TLC | |

**ExporterLifecycle.** `mainPc` and `colPc` are the places of the two threads;
an action is a statement, or statements between which the other thread cannot
tell a difference. `StopFlags` .. `StopDisconnect` are the lines of
`Collector::stop`; `mainRet` says whether main or the destructor called it.
`HttpStart` .. `Tail` are `start()` with `setup_after_connect` (`Setup`),
`run_continuous` and `collect_cycle` (`CollectCycle`) written out in place.
`connected` is what the client believes, `hconn` what the queue manager knows:
no connection, a live one, or one whose MQDISC failed ("refused"), which
`disconnect` logs and forgets. What such a connection goes through later is not
followed. Using a destroyed monitor is undefined behaviour: `Crash` may end the process
there, or it may go on.

**MQClient.** The state is the set of MQ handles, each with the kind of object
the queue manager holds under it, and the variables and containers of the
client and the monitor that own handles. A method with several MQI calls is
several actions, and each call may fail. Handles come from a finite pool and
are reused, as the queue manager does. `refused` is the set of handles whose
MQCLOSE failed. MQDISC may fail as well (`Disc`): `connected` is cleared all the
same, and the connection stays with what is open on it.

**PcfCommand.** One call at a time (the client is used by one thread) creates a
reply queue, puts the request, reads until the last reply, the limit or a
failure, and deletes the queue, which may fail as well. The command server is
external; it may be late, stop in the middle or say nothing. A reply is the
command it answers, its number, whether it is marked last, and whether it is
`long`er than the 64 KiB of the buffer. MQGET answers such a reply with
MQCC_WARNING and leaves it on the queue; the loop tests for MQCC_FAILED alone
(mqclient.cpp:481), appends what is in the buffer and what lies behind it, and
reads the same reply again until its limit. Looking behind the buffer may end
the process (`GetCrashes`). `Inquiry` says what this leaves of the promise: the
replies from the first on and in order, and the one that is too long over and
over instead of the rest.

**Collection.** The steps of `collect_metrics` in their order, the drains of
two queues, queue selection, two inquiries per queue, and the PCF status
sections each in a try block. Of the many gauges it has those that more than
one source sets or that can go stale: depth, input handles, status, the series
of the online status, and the MQI gauge "opens" of one application.
That gauge has two writers: a statistics message sets it, an accounting message
adds to it. A statistics message is about a queue or about the application.

**Publications.** A subscription is a topic (a type, and a queue for types per
queue) with its queue of waiting publications. The value of a publication is its
number, so that a gauge tells which publication it shows. A series is named by
metric, level and queue and not by the class, as the exported family is, so that two
types may set one series; `OwnSeries` are those that one type sets. With metadata
tags that are no label names (`labelsValid`) a collection ends before its
publications are read. `metrics` has, for each publication that was read, the series
it has yet to set: publications are applied in the order in which they were read,
the elements of one in the order in which the queue manager sent them, which is any.

**PcfMessage, PcfDecode, PcfResults.** A message is its length, its command and
completion code, and what a reader finds at each offset: type, StrucLength, id,
contents. Byte order and padding are left out; texts are members of a small set
with a size in bytes. `PcfDecode` has one behaviour for each reader and message.
`frames` is the stack of loops under way: the top level, and a group inside it,
with the end of its region and, where a loop counts, how many structures are
left. A loop starts where its reader does, the monitor where the header's
StrucLength says (`FirstOffset`). A structure has its StrucLength and its inner
StringLength or Count. `Suffices` and `Refuses` are the readers' tests of them,
in the `uint32_t` of the code, so that `param_struc_len - 8`, `12 + str_len`,
`20 + str_len` and `16 + count * 4` wrap where the code's do; `Reach` is how far a
turn then looks. `Fits` is the condition of a loop with the break behind it; what the
readers do differently (bytes that must be there, least length, types they
understand, how they enter a group and where they go on behind it) are
operators with the reader as a parameter. The sixth reader, the command server,
is external: it counts the structures the header announces, which is what the
hand-written counts of the builders are for. `PcfResults` has the results as
operators over the parameters that were decoded; fields are named by parameter
ids. `responses` is the sequence of messages of one call, of which
`get_queue_handle_details_by_pcf` reads the first (`LastMessage`).

**Configuration.** A layer is a partial function from settings to values, and `Over`
puts one over another. A call goes through the stages of `main`, `load_config`,
`run_collector`, `run_test` and `validate_config` in their order; `env` and `files`
stay between calls, and `config generate` writes a file that the next call may read.
`User` is `get_user()`: a `username` of the file before the `user` that the
environment may have set. `Calls` may repeat up to `MaxCalls`. Values that do not
convert are one value, `Unreadable`, with the default of each conversion.

## Runs

All configurations use the modules' own definitions; only constants are given.

| Run | Configuration | Instance | Shows |
|---|---|---|---|
| `lifecycle` | `Lifecycle.cfg` | 8 configurations: bounded, unbounded and single runs, with and without monitor and rediscovery | port, late cycle, clean exit; signal while running, bounded run, first connect |
| `mqclient` | `MQClient.cfg` | 5 interchangeable handles | handles never leak or mix; what an early return of `disconnect` leaves |
| `pcf_command` | `PcfCommand.cfg` | 2 commands, 2 names, limit 3, 4 replies, of any length | own replies, refinement, termination |
| `collection` | `Collection.cfg` | 4 configurations, 2 queues, an application | accounting balances, newest wins, independence, exclusions |
| `publications` | `Publications.cfg` | 4 types, two of them sharing a series, limit 2, 3 publications on each topic | nothing skipped, one view, no going back, backlog read |
| `pcf_decode` | `PcfDecode.cfg` | messages of up to 4 items and 3 groups for each reader, whole, cut and damaged in each length | walks and reads inside, ends, reads what was sent, keeps replies and handles apart, counters |
| `configuration` | `Configuration.cfg` | 31 directories, 3 environments, 24 calls, pairs of calls | which layer decides, what is accepted starts, generated file |
| `lifecycle_signal_lost`, `lifecycle_stop_race`, `lifecycle_reconnect`, `collection_status`, `pcf_groups` | one each | | a statement of a document or comment that does not hold, see [Findings](#findings) |

Bounds, and why they are enough:

- `CounterCap` (4): counters saturate, and the assumption on it says it is above
  every `max_cycles + 1`, so no comparison of the code sees the saturation.
  `max_cycles = 2` has an initial, an inner and a last cycle. The theorems hold
  for every value of both.
- Handles (5): the client holds two queues and at most one pair in a method
  besides one pair of the monitor or of a topic; one more handle is reused.
  Two refused calls (`MaxRefused`) let both halves of a pair fail, or a close and
  the MQDISC behind it.
- `Limit` 3 and `MaxReplies` 4: a call can be answered fully, be cut by its limit
  with replies left, be late by a whole call, and have an oversized reply anywhere;
  two queue names are needed for one to linger while another is used. Proved for
  every value.
- Collection: one waiting statistics message, two accounting messages, values 0
  and 1, a plain and a system queue. Two messages are needed for a drain that
  fails in the middle; one statistics message is enough to set a gauge between
  two that add.
- Publications: `Limit` 2 with three publications makes a backlog of more than
  one collection, and a batch of more than one; `Cpu` has element ids 0 and 1,
  `Disk` in another class has 1 with the same metric name, `Put` has 1 and 3, so
  that ids overlap, are not equal, and lead to one series or to two. One queue,
  listed once, gives a subscription per queue beside two of the queue manager;
  lists with a queue twice are left to the proofs, which cover every list.
- PCF: texts fill a word, do not, or are empty; `Word` is 512, and values and sums
  beyond 255 wrap. Messages are whole, end at, in or behind a structure or in the
  header, or have one StrucLength, StringLength, Count or header length that is
  zero, negative, too short or beyond the end. Two replies and three groups are
  needed for something of one to be shown for the next, also past one in the middle
  that names nothing. The theorems hold for any lengths, counts and nesting.
- Configuration: two calls are needed for one to accept, or to generate, what
  the next reads. Files are good, incomplete, out of range in each way that
  `validate` names, do not convert, are broken or missing, and lie at one or two
  of the places that are searched.

Fairness: `ExporterLifecycle` has weak fairness of each thread. The operating
system schedules both; every sleep of either has an end; MQCONN and the other
calls return, and MQGET waits five seconds at most. That `Drain` ends
is an assumption about the messages: `get_all_messages` does not end on one of
more than 100 KiB (see below). Nothing is assumed of the
signal or the queue manager. `PcfCommand` has weak fairness of the call alone:
the command server owes nothing. `Publications` has weak fairness of the steps
of setup and collection; publications are bounded by `MaxPublished`, which is
the hypothesis that they cease. `PcfDecode` has weak fairness of its loops,
which wait for nothing. `Configuration` has none and no liveness.

Deadlock is checked except in `Publications`, where the monitor may be closed,
and in `PcfCommand`, where the process may end in a call.
In `ExporterLifecycle` the queue manager can always act, so the check says
nothing there, and the liveness properties do instead.

## Proofs

`ExporterLifecycleProofs` proves, for every set of configurations and every
counter bound that `ConfigsAssumption` and `CounterCapAssumption` allow:

| Theorem | Statement |
|---|---|
| `TypeCorrect` | the type invariant |
| `EndpointUp` | the port is bound while `running_` |
| `CycleBudgetKept` | at most `max_cycles + 1` collections, or one: one more than the documents say, and never more |
| `LateCycleBound` | at most one collection begins after `running_` is cleared |
| `ReconnectDead` | why `LostConnectionRedialled` fails: the reconnect block of `start()` is never entered |
| `CleanExit` | a process that returns from main holds no monitor or port, and no connection but one whose MQDISC was called and failed |

None of these is inductive. `IInv` adds what each place of a thread may assume
of the other. `FlagInv`: `running_` is false until the collector thread sets
it, and bound with the port; once `stop()` is under way nobody sets it again.
`JoinInv`: the destructor runs after the collector thread has ended, which is
what makes `CleanExit` true although `stop()` misses a connect that finishes
after its disconnect. `HeldInv`: the client knows of each live connection.
`LateInv`: after a late cycle the collector thread can only be on its way out.
`BudgetInv` gives the number of collections at each place of the collector
thread, as a function of `cycle_count_`. There is one lemma for each part of
`IInv`, with a step for each action.

`PcfCommandProofs` proves, for every set of commands, names and limits that
`CommandsAssumption`, `NamesAssumption` and `LimitAssumption` allow:

| Theorem | Statement |
|---|---|
| `PcfTypeCorrect` | the type invariant, with at most `Limit` responses |
| `RepliesAreOwn` | the reply queue of a call holds the next replies to its command |
| `RefinesInquiry` | `Spec => ImplementsInquiry`, with replies of any length |

The argument follows one reply queue. Until the request is put nobody else knows its
name (`FreshInv`); afterwards only one of the request and the answer under way names
it, and what was read, what waits and what the server sends next are one numbered
row (`Row`); an oversized reply is counted as read and waiting at once, which is
what `After` of `Inquiry` says. A late answer to an earlier call names another
queue, since a name is not reused while anything refers to it. That is an assumption
about the queue manager (`InUse`), and it is what the fresh queue per command relies
on.

`PcfDecodeProofs` proves, for every set of messages with integers for lengths and
counts that `InputsAssumption` and `WordAssumption` allow:

| Theorem | Statement |
|---|---|
| `TypeCorrect` | the type invariant |
| `StaysInMessage` | no loop stands behind its message, or a group behind the loop around it |
| `ReadsInside` | the parser, the monitor and discovery look at nothing behind the end of the message; the status and the reply readers do not where nothing wraps |
| `AlwaysAdvances` | each turn of a loop moves on, or ends a group |
| `ReadsWhatWasSent` | each loop returns exactly the parameters that were sent |

For the first three the invariant is that the ends of the loops on the stack are in
order, the innermost first, and the offset lies before all of them. Entering a group keeps
it for the parser because its region was tested against the loop around it, and
for the monitor because a group has the end of the message; leaving one keeps it
because the parser goes on at the end of the group and the monitor where it is.
`AlwaysAdvances` is the variant from which `DecodingEnds` follows under fairness,
for TLC on the instance. One lemma for each action gives both the invariant and
the progress of its step; the lemmas before them say what pushing and popping do.
`ReadsInside` follows from the invariant without another induction
(`InsideInvariant`): `ReachBounded` is about one structure, whose StrucLength fits
into its region and whose counts are any integers, and has a case for each reader.
`WithoutWrap` is its hypothesis for the two readers that compare in `uint32_t`. It
cannot be dropped: with a StrucLength of 1 to 7 in a status reply
`param_struc_len - 8` is a large number and the code does read behind the message
(pcf_inquiry.cpp:623), and so it does for the sums at lines 231, 259 and 572.

`ReadsWhatWasSent` (`DecodesWhatWasSent`) holds whatever the items are, their
number, their members and the names in a command. It needs one assumption more.
`LayoutAssumption` says what a well-formed message is (`LaidOut`, in `PcfMessage`):
the structures of its items stand one behind the other from the header on, each
group before its members, and behind them is the end of the message; in a damaged
one, a structure that was cut off, or whose StrucLength is zero, negative or beyond
the end. What the command server gets is one of the commands. `Message`, `CutAt` and
`WithLength` build such messages with folds: that they always do is proved in
`PcfResultsProofs` (below), and TLC evaluates the assumption on all messages of
`pcf_decode`.

Its invariant says how far a loop has come. `RowInv` is for the readers that take
structures one by one: some number r of the row has been read, the offset is where
the next one starts, and the parameters are what the reader wants of the first r, in
order (`Listed` counts those before each, since a hidden queue leaves no trace).
`TreeInv` is for the parser and the monitor: i items are read, and in a group j of
its members. The parser is inside the StrucLength of the group, the monitor counts
down what its header announces; at the last member both are at the start of item i +
2. A loop goes on as long as there is a next structure because it ends inside the
message (`RowInside`, `RoomFits`), and stops behind the last because nothing fits
there (`RowEnd`, `EndFitsNot`); for the command server it is the count that stops
it, and `CommandCount` shows for each builder that the number it writes is the
number of its parameters. Where rows and offsets only grow, what would be an
induction is a least counterexample (`Climbs`).

`PcfResultsProofs` goes on from there, with the results that are made of the parameters
once a loop is done:

| Theorem | Statement |
|---|---|
| `RepliesStandAlone` | each reply that names its object gives one entry, which says what that reply says last |
| `HandlesStandAlone` | each group that names its queue gives one handle, made of what stands between its header and the next |
| `DiscoveryListsAll` | each queue that some reply names is listed once, and no hidden one |
| `CountersShown` | each counter of a message without groups is what its last unharmed item gives |

They hold for messages of any number with any items, under the assumptions of
`ReadsWhatWasSent` and three about the instance. `KindAssumption`: a reply is read for one
of the eight kinds of details that `pcf_inquiry.cpp` knows. `ItemAssumption`: an item
holds what its type says, and of the texts only the empty one has no bytes; a text is an
opaque value here, and the parser tells an empty one from the others by its size.
`NoneAssumption`: no number is the value that stands for "no value".

By `ReadsWhatWasSent` the parameters of a message that is laid out well are its
items, so what is left is what becomes of a row of items. `ResultInv` adds the rest
of what the loops return: nothing for a reply that is not read, and a sequence for
one that is. The properties compare by position and count, for instance: the entry
of a reply is the n-th of the result, where n is the number of the replies up to it
that name their object. So the proofs follow a fold item by item. `CountingUp` is an
induction over `0 .. n` as a least counterexample, for a set in place of a
predicate; from the recursive function in the definition of the folds, `StepsExist`
has the sequence of their intermediate results, and one lemma for each operation
that is folded (`AddsSteps`, `HandlesSteps`, `MqiSteps`, `TotalSteps`,
`FlattenSteps`) says that these lead from one to the next. These lemmas are much
alike: a lemma about all operations cannot be instantiated by the provers.
`FlattenRanks` turns a concatenation of parts with one element or none into
positions and counts, which gives the entries, handles and queues their places.

`HandlesReadNext` is the invariant of the loop over handles: up to the first header there
is one handle in the making from the start of the reply, and afterwards one from the
last header; those before it are listed, if they name their queue (a handle from before
the first header is lost there, as in the code).

`CountersShown` is about messages as the exporter gets them: the members of a group stand
behind it, so for the parser (see `pcf_groups`) a message is one row of parameters, and
what is to be said of a message with groups is the finding. `CountUpToNext` is one turn of
the loop over that row, `MqiCounts` the loop of statistics messages, where a list counts
as the sum of its numbers in 32 bits, and `OperationCount` the look-up that accounting
messages use, which knows no lists. `UnharmedRead` has the row of a cut or damaged message
end before the damage.

The last part of the module is about the messages themselves, so that `LayoutAssumption`
asks for no more than what `Message`, `CutAt` and `WithLength` build:

| Theorem | Statement |
|---|---|
| `WholeLaidOut` | a message for any items is laid out well, in both layouts of groups |
| `CutLaidOut` | so is what is left of it when it is cut at any offset |
| `DamagedLaidOut` | so is a message with a StrucLength that is zero, negative or beyond the end |
| `CommandsLaidOut` | each command of `pcf_inquiry.cpp` is laid out well, for objects of any name |

`Sayable` is what they assume of the items: a value has a size, and only groups have
members, which are no groups. `CutLaidOut` is about messages with items: a header
alone has nothing to be cut off. The places of the items in the row with their
members (`Placed`, `Rowed`) and the offsets of the structures (`Starting`) exist as
functions because the folds that define them have a sequence of intermediate results
(`PrefixTotals`, `PrefixFlats`), in which the sum and the row of the first items
appear again; that is what `StartOf`, `Place` and `Row` ask for. Offsets only grow,
by 16 at least (`StartsGrow`), so two structures never share one, and `at` finds
each where it was put (`MessageLayout`). `ItemsUpTo` shows that `ItemsBefore`, the
number of the items that came unharmed, marks a prefix of them. One lemma,
`PartLaidOut`, then serves the whole, the cut and the damaged message: it asks that
the structures of the unharmed items are where they were, and what is behind them.

`MQClientProofs` proves, for every set of handles and every number of refused calls:

| Theorem | Statement |
|---|---|
| `TypeCorrect` | the type invariant |
| `NoLeak` | each object open on a live connection is known to the client, or its MQCLOSE was refused |
| `OneOwner` | what the client keeps is open, of the right kind, and kept once |
| `QueueOutlivesSubscription` | the queue of a subscription is open as long as the subscription |
| `EarlyReturnRight` | where `disconnect` returns early there is no connection but one whose MQDISC was refused, and nothing is open on it but what MQCLOSE was refused for |

The two big ones need each other: an object that is closed must have had no
second owner, or the other owner is left with a handle that the queue manager
gives away again. `MethodInv` says which local handles a method holds at each of
its calls, `LocalInv` what they stand for and that nobody else owns them, nor
those whose close was refused; `KeptInv` is the part of `OwnersAgree` about what
is kept, and `LeakInv` gives each open object one of these owners. A broken
connection frees all handles at once, so everything is stated for a live one, and
`ConnectionInv` has nothing open without one. Two lemmas say what opening and
closing do to the handles; `HandlesAssumption` is that 0 is no handle.

`CollectionProofs` proves, for every set of queues, exclusions and configurations,
and all bounds on messages and values:

| Theorem | Statement |
|---|---|
| `TypeCorrect` | the type invariant |
| `AccountingInBalance` | each accounting message is on the queue, in the batch, counted, or thrown away where the code does so; behind a statistics message that set the gauge it exceeds what was written by no more than was set |
| `InquiryWins` | the depth a collection leaves is the one it inquired |
| `AllSectionsTried` | each status section is begun, whichever throw |
| `ExcludedNeverShown` | no inquiry gives an excluded queue a series: not by the patterns, not by a fallback, not by the online status of all queues; the two system queues of the last resort aside |

`IInv` is `TypeOK` with four parts. `BalanceInv` has the batch empty but between the
drain and the step that applies it, so that no drain replaces messages that were not
counted. `ExclusionInv` has the list of queues without the excluded ones, which is
where every inquiry looks. The other two properties speak of the end of a
collection, and `DepthInv` and `SectionInv` carry them there from the inquiries and
from section to section. The one hard lemma is about the messages: the last of those
that report a depth decides. That there is a last one is a fact about a set of
numbers, so it follows from the theorem that such a set has a least element
(`WFMin`), where an induction could not be used.

`PublicationsProofs` proves, for every set of types, elements, queues and lists,
every number of publications and every `Limit`, from `MetadataAssumption` (element
ids are numbers, and a type gives each metric name once) and the bounds:

| Theorem | Statement |
|---|---|
| `TypeCorrect` | the type invariant |
| `NoneSkipped` | between collections a series that one type sets shows the publication just before those that wait, if no queue is listed twice |
| `OneView` | between collections the series of a subscription that no other type sets show one publication, whatever the lists |
| `NeverBack` | no step returns a series that one type sets to an older publication, if no queue is listed twice |

The invariant follows a publication from the queue of its subscription to `metrics`
and on to the gauges. `InboxInv`: a queue has the last publications of its topic, in
order. `OrderInv`: what is to be applied to a series is newer than what it shows,
and in order. `GapInv`: the last value a series has coming, or shows if none is, is
the one just before the queue. `BatchInv` says that only the publication being
applied can have set a part of its series, from which `AlikeInv` and `OneView`
follow. Nothing of this can be said of a series that two types set, as two classes
with a metric of one name do (metrics_collector.cpp:805): it shows now the one and
now the other. So the invariant is about `OwnSeries`. Applying one publication
leaves the series of the others in it alone because two topics that share such a
series are one topic (`SeriesApart`), and because no two subscriptions have one
topic (`TopicsInv`). That last part is the hypothesis `NoOverlap`; with a queue that
is listed twice `NothingSkipped` and `NeverGoesBack` fail, and `OneView` does not
need it.

`ConfigurationProofs` proves, for every content of the files, every sequence of
calls, every environment within the variables that `load_config` asks for
(`EnvironmentsAssumption`, config.cpp:67-81) and all flags that `main` has
(`CallsAssumption`, main.cpp:60-80):

| Theorem | Statement |
|---|---|
| `RankedByLayers` | each setting is that of the layer that decides it: flags that differ from their defaults, environment, file, defaults; for the user a user name of the file, then the rest |
| `ValidatedStarts` | what `validate` or `test` accepted starts the collector, with the same settings |
| `GeneratedNeutral` | the generated file says what holds without a file |

`LayersByRank` is the heart of the first: after five assignments over each other,
with the connection name and the counter type derived in between, each setting is
that of the first layer, by rank, that gives it. `UserRanked` has the exception:
`get_user()` puts a `username`, which only the file sets, before the `user`, which
the environment sets as well, so there the file wins. The invariant has how many
layers lie over each other at each place of a call (`LayersInv`), that the file read
is the one that the search finds (`ReadInv`), and, for each call that has returned,
what its file comes to (`EndedInv`): two calls with the same files come to the same,
whatever is written or called between them.

Out of the reach of this prover, and left to TLC: liveness under fairness and
`ENABLED` (`SignalHonouredWhileRunning`, `BoundedRunEnds`, `FirstConnectRetried`,
`CallReturns`, `BacklogIsRead`, `DecodingEnds`); induction over data as the library
states it, with an operator as parameter (the folds of `PcfResultsProofs` are
unrolled by least counterexamples instead); and `RECURSIVE` operators, which no
module here declares. Every invariant and every action property that a passing run
checks is stated by a theorem.

To repeat a run: `tlc -config Lifecycle.cfg MCExporterLifecycle.tla`; each
run takes about two minutes on two cores at most. To repeat the proofs:
`tlapm ExporterLifecycleProofs.tla` (659 obligations), and the same for
`PcfCommandProofs` (491), `PcfDecodeProofs` (2349), `PcfResultsProofs` (4384),
`MQClientProofs` (857), `CollectionProofs` (675), `PublicationsProofs` (1352) and
`ConfigurationProofs` (466).

## Findings

| Run | The code | The text |
|---|---|---|
| `lifecycle_signal_lost` | main reads `is_running()` before the collector thread has set it; `stop()` is a no-op, main joins a thread that runs on, and no signal ends the process | main.cpp: "Received signal, shutting down" |
| `lifecycle_stop_race` | `stop()` destroys the monitor while the collector thread uses it | collector.h: "graceful stop (thread-safe)" |
| `lifecycle_reconnect` | `run_continuous` returns only when the collector was stopped, so the block of `start()` that drops the client to dial again is dead; a collector whose connection broke goes on with a dead client | README: "**Reconnection**: survives queue manager restarts"; collector.cpp: "Connection lost during collection, triggering reconnect" |
| `collection_status` | the status section is skipped while disconnected, the gauge keeps its value | README: "reports `qmgr_status=0` while disconnected" |
| `pcf_groups` | `parse_parameters` looks for the members of a group inside its StrucLength and finds none | resource_monitor.cpp: "follow SEQUENTIALLY in the stream after the header, NOT within the group's StrucLength byte range" |

The lines are in `PROJECT.json`.

## Known limits of the code

Where documents and code disagree, and the disagreement is one guard or one
assignment; no run claims either side of it:

- A run with `max_cycles` = N collects N + 1 times, as the initial collection is
  not counted (collector.cpp:202, 233); README.md:523 says "Maximum collection
  cycles". `CycleBudgetKept` proves N + 1 to be the bound.
- `!` patterns of `monitored_queues` are skipped, not excluded
  (metrics_collector.cpp:503), though README.md:342 has "!SYSTEM.*" to "Exclude
  system queues" and config.collector.yaml:64 says so too. `ExcludedNotShown`
  is about `queue_exclusion_patterns`, which do hold.
- A pattern whose discovery comes back empty, or late, falls back to all queues
  (520), though README.md:341 has "APP.*" for "All queues starting with APP.".
- `IBMMQ_USER` loses against a `username:` in the file (config.cpp:20-23), while
  `IBMMQ_PASSWORD` counts; README.md:282 and 292 list both as overrides.
- A flag that repeats its own default counts for nothing: `--prometheus-port 9090`
  gives the port of the file, or 9091 (main.cpp:73, 260; config.cpp:65), though
  main.cpp:68 says "Override config with CLI flags". `SettingsRanked` has this
  and the line before as the code does them.
- An element id of 0 is taken for "no id" (resource_monitor.cpp:347): the first
  element of a type is never shown. MQ_Prometheus_Overview.json:928 plots
  "ibmmq_qmgr_user_cpu_time_percentage", which no file of metric_samples has.
- A reply of more than 64 KiB stays on the reply queue and is read up to 1000
  times (mqclient.cpp:481), though mqclient.cpp:466 says "loop until MQCFC_LAST or
  no more messages". `ImplementsInquiry` has what is left of the promise.

Met while reading:

- A statistics message of more than 100 KiB gives MQCC_WARNING and stays on its
  queue as well, and `get_all_messages` has no limit: it reads it for ever
  (mqclient.cpp:282).
- Sums of lengths wrap in `uint32_t`, and bytes behind the message are read: a
  StrucLength of 1 to 7 in a queue status reply (pcf_inquiry.cpp:623), a
  StringLength near 2^32 (231, 572), a Count of 2^30 or so (259).
- MQDISC that fails is only logged; the connection stays until the process ends
  (mqclient.cpp:148-155).
- Statistics messages set the `mqi` gauges of an application and accounting messages
  add to them (metrics_collector.cpp:423-425, 452-459): what was added is gone with
  the next statistics message.
- Two classes with a metric of one name set one series (805-808, 822-825), as the
  class is in the key of the cache and in the help text alone.
- Metadata tags that are no label names make each collection throw after its
  messages were removed and before its publications are read.
- Durations: "ms" counts as minutes and "h" as seconds (config.cpp:85-95);
  config.collector.yaml:60 has a rediscover_interval of "1h".
- The logger is set up before the file is read, and nothing reads the `logging:`
  section. The generated file leaves out `use_publications` and `max_cycles`.
- With groups read as in `pcf_groups`, statistics of several queues collapse into
  the last, and accounting has no queue operations. Accounting reads no counter
  that comes as a list (pcf_parser.cpp:456-471).
- Counters of 64 bits are cut to 32 (pcf_parser.cpp:78), whatever the field.
- Handles are parsed from replies to INQUIRE_Q, and only from the first
  (mqclient.cpp:506-516).
- Replies without a key (queue manager status, usage) become an entry of zeros
  when they report an error (pcf_inquiry.cpp:430, 487, 516).
- `find_last_not_of(" \0")` is a C string of one blank: the resource monitor does
  not strip zero bytes (resource_monitor.cpp:64).
- Comments with other ids than the code: pcf_inquiry.h:46-49, 126, 129.
- The branch that sets `qmgr_status` to 0 writes the series with an empty
  description, and leaves the other as it is (metrics_collector.cpp:724-728).
- The timestamp of the "last successful collection" is set however much failed
  (metrics_collector.cpp:213, 272).
- Handle gauges are not set for a count of 0 and never return to it (542-557).
- Exclusions do not apply to statistics messages or to the two system queues of
  the last resort.
- Nothing reads the subscriptions to `monitored_topics`.
- The list that rediscovery replaces has no reader after setup.
- Overlapping patterns subscribe a queue twice; its series then goes back to the
  first publication of the batch in the middle of each collection.
- A connection that breaks when neither input queue could be opened is never
  noticed.
- DELTA values are set like absolute ones, and the first of two is lost.
- An exception in the collector thread still leads to exit status 0.

## Not modelled

- The scrape: prometheus-cpp reads the registry under its own locks.
- The command line parser (CLI11) and the YAML parser: external. A layer is what
  they give. The set-up of the logger, which has no effect on anything else.
- Bytes: their order, the padding of structures and the trailing blanks of texts;
  `read_string_param()` and `read_int_param()`, which nothing calls. What a reader
  takes for the value of a structure that says it is shorter or longer than it is
  depends on other bytes: `pcf_decode` has such lengths and checks the walk and what
  is looked at; that about the result, `DecodesWhatWasSent`, is for messages that
  are laid out well up to the damage. The widths of names in a string list, and the
  parser's refusal of texts longer than its region, which it cuts here.
- The names that the resource monitor derives from descriptions, and the glob
  matcher of the exclusion patterns: text. Which queues discovery hides is a
  constant (`Hidden`): the code hides what has "MODEL" anywhere in its name, also
  ordinary queues.
- What becomes of a connection that MQDISC refused to give up.
- `receive_publications()`, which nothing calls.
- Scripts, images, dashboards, MQ stubs: no state of the exporter.
- Inside modules: message contents, label texts, wording of logs, and gauges
  that are set from one answer alone.

## Plan

Written in this order, the most important behaviour first: `ExporterLifecycle`
and its proofs; `MQClient`; `Inquiry` and `PcfCommand` with the refinement and
its proof; `Collection`; `Publications`; `PcfMessage`, `PcfDecode`, `PcfResults`
and the proofs about the loops; `Configuration`; then the proofs about `MQClient`,
`Collection`, `Configuration` and `Publications`, and about what `PcfDecode` collects
and `PcfResults` makes of it, and that what `PcfMessage` builds is laid out well.
What is left:

1. The families of `MetricsCollector` that one answer alone sets, fed by the
   results of `PcfResults`.
2. An abstract collector (idle, running, stopped, with a bounded number of
   collections) which `ExporterLifecycle` implements; a composition of
   lifecycle and publications in which subscriptions are made from a stale list.
