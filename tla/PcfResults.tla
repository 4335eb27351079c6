----------------------------- MODULE PcfResults -----------------------------
(***************************************************************************)
(* What the exporter makes of the parameters that PcfDecode reads: the     *)
(* details of status replies and the handles of a queue (pcf_inquiry.cpp), *)
(* the queues it discovers (mqclient.cpp), and the contents of statistics  *)
(* and accounting messages (pcf_parser.cpp).  Fields are named by the      *)
(* parameter ids they come from.                                           *)
(***************************************************************************)
EXTENDS PcfDecode

\* The parameters of these types and ids that have a value, and the last of them:
\* an assignment for each parameter, in their order, leaves that one.
Given(params, types, ids) ==
    {x \in DOMAIN params : /\ params[x].type \in types /\ params[x].id \in ids
                           /\ params[x].value # None}

\* Mutant: the first one, a parameter that is set is not set again.
FirstGiven(params, types, ids, default) ==
    LET given == Given(params, types, ids)
    IN  IF given = {} THEN default ELSE params[Min(given)].value

LastGiven(params, types, ids, default) ==
    LET given == Given(params, types, ids)
    IN  IF given = {} THEN default ELSE params[Max(given)].value

LastText(params, ids) == LastGiven(params, {MQCFT_STRING}, ids, Empty)
Texts(params, ids) == [id \in ids |-> LastText(params, {id})]

-----------------------------------------------------------------------------
(* Status replies.  A reply becomes an entry if one of the keys of its kind *)
(* is not empty, or if its kind has no keys.                               *)

Kind(keys, texts, ints, longs, lists) ==
    [keys |-> keys, texts |-> keys \cup texts, ints |-> ints, longs |-> longs,
     lists |-> lists]

ChannelStatus ==
    Kind({3501}, {3506, 3507, 3524, 3525, 3528, 3529, 3530, 3544},
         {1527, 1511, 1534, 1537, 1609, 1523, 1538, 1539, 1585, 1618, 1619},
         {1535, 1536}, {1604, 1605, 1607})
TopicStatus == Kind({2094, 2092}, {}, {208, 215, 204}, {}, {})
SubStatus   == Kind({3152}, {2094, 3154, 7016, 3167, 3168}, {1289, 175, 1290}, {}, {})
QmgrStatus  == Kind({}, {2015, 2014, 3175, 3176}, {1149, 1232, 1229, 1233}, {}, {})
ClusterQmgr == Kind({2029}, {2015}, {125, 1127, 1087}, {}, {})
UsageBP     == Kind({}, {}, {1158, 1330, 1166, 1170}, {}, {})
UsagePS     == Kind({}, {}, {62, 1170, 1159, 1160, 1161, 1162, 1163, 1164}, {}, {})
QueueOnline == Kind({2016}, {3128, 3129, 3130, 3131}, {1227, 1027, 1437, 1438}, {}, {1226})

Kinds == {ChannelStatus, TopicStatus, SubStatus, QmgrStatus, ClusterQmgr, UsageBP, UsagePS,
          QueueOnline}

ASSUME KindAssumption == \A i \in Inputs : i.reader = "reply" => i.kind \in Kinds

\* The i-th number of an indicator, from the last list that has it.
Indicator(params, id, i) ==
    LET long == {x \in Given(params, {MQCFT_INTEGER_LIST}, {id}) : Len(params[x].value) >= i}
    IN  IF long = {} THEN 0 ELSE params[Max(long)].value[i]

Details(kind, params) ==
    [texts |-> Texts(params, kind.texts),
     ints  |-> [id \in kind.ints |-> LastGiven(params, {MQCFT_INTEGER}, {id}, 0)],
     longs |-> [id \in kind.longs |-> LastGiven(params, {MQCFT_INTEGER64}, {id}, 0)],
     lists |-> [id \in kind.lists |-> [i \in 1 .. 2 |-> Indicator(params, id, i)]]]

IsEntry(kind, details) ==
    kind.keys = {} \/ \E id \in kind.keys : details.texts[id] # Empty

\* Mutant: the entry is declared before the loop over the replies.
EntryKept(i) ==
    LET details == Details(input.kind, FlattenSeq(SubSeq(decoded, 1, i)))
    IN  IF input.msgs[i].len >= HeaderSize /\ IsEntry(input.kind, details)
          THEN <<details>> ELSE <<>>

\* What the i-th reply adds to the result.
Entry(i) ==
    LET details == Details(input.kind, decoded[i])
    IN  IF input.msgs[i].len >= HeaderSize /\ IsEntry(input.kind, details)
          THEN <<details>> ELSE <<>>

Replies == FlattenSeq([i \in DOMAIN decoded |-> Entry(i)])

-----------------------------------------------------------------------------
(* Handles of a queue.                                                     *)

NoHandle == [texts |-> [id \in {2016, 3501, 3502, 2549, 2046} |-> Empty],
             process |-> 0, modes |-> {}]

HandleAfter(handle, p) ==
    IF p.value = None THEN handle
    ELSE CASE p.type = MQCFT_STRING /\ p.id \in DOMAIN handle.texts ->
                [handle EXCEPT !.texts[p.id] = p.value]
           [] p.type = MQCFT_INTEGER /\ p.id = 3002 -> [handle EXCEPT !.process = p.value]
           [] p.type = MQCFT_INTEGER /\ p.id \in {1411, 1412} /\ p.value > 0 ->
                [handle EXCEPT !.modes = @ \cup {p.id}]
           [] OTHER -> handle

Named(handle) == IF handle.texts[2016] = Empty THEN <<>> ELSE <<handle>>

\* Mutant: a group does not start from an empty handle.
HandlesAfterKept(state, p) ==
    IF p.type = MQCFT_GROUP
      THEN [handles |-> state.handles \o (IF state.inGroup THEN Named(state.current) ELSE <<>>),
            current |-> state.current, inGroup |-> TRUE]
      ELSE [state EXCEPT !.current = HandleAfter(@, p)]

\* The header of a group ends the handle before it; its members follow.
HandlesAfter(state, p) ==
    IF p.type = MQCFT_GROUP
      THEN [handles |-> state.handles \o (IF state.inGroup THEN Named(state.current) ELSE <<>>),
            current |-> NoHandle, inGroup |-> TRUE]
      ELSE [state EXCEPT !.current = HandleAfter(@, p)]

Handles(params) ==
    LET end == FoldLeft(HandlesAfter,
                        [handles |-> <<>>, current |-> NoHandle, inGroup |-> FALSE], params)
    IN  end.handles \o Named(end.current)

-----------------------------------------------------------------------------
(* Discovered queues.                                                      *)

NamesIn(p) ==
    IF p.id # 2016 \/ p.value = None THEN <<>>
    ELSE CASE p.type = MQCFT_STRING -> <<p.value>>
           [] p.type = MQCFT_STRING_LIST -> p.value
           [] OTHER -> <<>>

\* Mutant: a queue is listed as often as it is named.
AddsAlways(queues, q) ==
    IF q = Empty \/ q \in Hidden THEN queues ELSE Append(queues, q)

\* Names that stand alone and are to be hidden were skipped (SkipQueue).
Adds(queues, q) ==
    IF q = Empty \/ q \in Hidden \/ q \in ToSet(queues) THEN queues ELSE Append(queues, q)

Discovered ==
    LET params == FlattenSeq(decoded)
        mentioned == FlattenSeq([i \in DOMAIN params |-> NamesIn(params[i])])
    IN  FoldLeft(Adds, <<>>, mentioned)

-----------------------------------------------------------------------------
(* Statistics and accounting messages.  A counter may come as an integer,  *)
(* or as a list that is summed up; a group has the counters of one object. *)

IntTypes  == {MQCFT_INTEGER, MQCFT_INTEGER64}
ListTypes == {MQCFT_INTEGER_LIST, MQCFT_INTEGER64_LIST}

LastInt(params, id) == LastGiven(params, IntTypes, {id}, 0)
Counts(params, ids) == [id \in ids |-> LastInt(params, id)]

\* Opens, closes, puts, gets, commits and backouts.
Summed == {733, 709, 735, 722, 710, 704}
\* Counters of either form, of lists only (sums of 64 bits), of integers only.
EitherForm  == Summed \cup {705, 727, 744, 817, 790, 726, 771, 770, 772, 773, 774, 775,
                            776, 777, 778, 779}
LongCounts  == {818, 791, 781, 783, 784, 785, 786, 787}
SingleCounts == {765, 766, 767, 769, 788, 1527, 1511, 720}

\* MQCA_APPL_NAME and MQCACF_APPL_NAME are one field, the later one counts.
ApplNames == {2024, 3024}
ConnNames == {3502, 3506}

MqiTexts == [application_name |-> ApplNames, application_tag |-> {3058},
             user_identifier |-> {3025}, connection_name |-> {3506},
             channel_name |-> {3501}]

NoMqi == [counts |-> [id \in EitherForm \cup LongCounts \cup SingleCounts |-> 0],
          texts |-> [f \in DOMAIN MqiTexts |-> Empty]]

MqiAfterParam(stats, p) ==
    IF p.value = None THEN stats
    ELSE CASE p.type \in ListTypes /\ p.id \in EitherForm ->
                [stats EXCEPT !.counts[p.id] = Signed(Total(p.value))]
           [] p.type \in ListTypes /\ p.id \in LongCounts ->
                [stats EXCEPT !.counts[p.id] = Total(p.value)]
           [] p.type \in IntTypes /\ p.id \in EitherForm \cup SingleCounts ->
                [stats EXCEPT !.counts[p.id] = p.value]
           [] p.type = MQCFT_STRING ->
                [stats EXCEPT !.texts = [f \in DOMAIN @ |->
                                           IF p.id \in MqiTexts[f] THEN p.value ELSE @[f]]]
           [] OTHER -> stats

MqiAfter(stats, p) ==
    IF p.type # MQCFT_GROUP THEN MqiAfterParam(stats, p)
    ELSE LET group == FoldLeft(MqiAfterParam, NoMqi, p.members)
             name  == group.texts.application_name
         IN  [stats EXCEPT
                !.counts = [id \in DOMAIN @ |->
                   IF id \in Summed THEN Signed(@[id] + group.counts[id]) ELSE @[id]],
                !.texts.application_name = IF name = Empty THEN @ ELSE name]

MqiStats(params) == FoldLeft(MqiAfter, NoMqi, params)

ChannelStats(params) ==
    [texts |-> Texts(params, {3501, 3502}), counts |-> Counts(params, {1534, 1535, 1537})]

\* A process with the queue open: its role is the last open count above zero.
\* It is listed if an application, a connection or a user is known.
Process(members) ==
    LET opens == {x \in Given(members, IntTypes, {17, 18}) : members[x].value > 0}
        process == [application |-> LastText(members, ApplNames),
                    connection |-> LastText(members, ConnNames),
                    texts |-> Texts(members, {3025, 3501, 3058}),
                    process |-> LastInt(members, 1024),
                    role |-> IF opens = {} THEN 0 ELSE members[Max(opens)].id]
        known == \/ process.application # Empty \/ process.connection # Empty
                 \/ process.texts[3025] # Empty
    IN  IF known THEN <<process>> ELSE <<>>

QueueStats(params) ==
    [queue |-> LastText(params, {2016}), counts |-> Counts(params, {3, 36, 17, 18, 37, 38}),
     processes |-> FlattenSeq([x \in DOMAIN params |->
                      IF params[x].type = MQCFT_GROUP THEN Process(params[x].members) ELSE <<>>])]

ConnectionInfo(params) ==
    [application |-> LastText(params, ApplNames), connection |-> LastText(params, ConnNames),
     texts |-> Texts(params, {3501, 3058, 3025})]

OperationCounts(params) == Counts(params, Summed)

\* Puts, gets, messages received and sent.
Operations == {735, 722, 817, 790}

\* What an application did with a queue, if there is a queue and any operation.
QueueOperation(members) ==
    LET op == [queue |-> LastText(members, {2016}), application |-> LastText(members, ApplNames),
               connection |-> LastText(members, ConnNames), user |-> LastText(members, {3025}),
               counts |-> Counts(members, Operations)]
    IN  IF op.queue # Empty /\ \E id \in Operations : op.counts[id] # 0 THEN <<op>> ELSE <<>>

QueueOperations(params) ==
    FlattenSeq([x \in DOMAIN params |-> IF params[x].type = MQCFT_GROUP
                                          THEN QueueOperation(params[x].members) ELSE <<>>])

\* The result of PCFParser::parse_message().
Parsed(m, params) ==
    LET qmgr == LastText(params, {2015})
    IN  CASE m.command = 165 -> [queue_manager |-> qmgr, queue |-> QueueStats(params)]
          [] m.command = 166 -> [queue_manager |-> qmgr, channel |-> ChannelStats(params)]
          [] m.command = 164 -> [queue_manager |-> qmgr, mqi |-> MqiStats(params)]
          [] m.command \in {167, 168} ->
               [queue_manager |-> qmgr, connection |-> ConnectionInfo(params),
                operations |-> OperationCounts(params),
                queues |-> QueueOperations(params)]
          [] OTHER -> [queue_manager |-> Empty]

-----------------------------------------------------------------------------
(* What the items of a message hold: none is the value that stands for     *)
(* nothing, and no text but the empty one has no bytes.                    *)

Holds(item) ==
    /\ item.value # None
    /\ item.type = MQCFT_STRING =>
         Size(item.value) \in Nat /\ (Size(item.value) = 0 <=> item.value = Empty)
    /\ item.type \in IntTypes => item.value \in Int
    /\ item.type \in ListTypes => item.value \in Seq(Int)
    /\ item.type = MQCFT_STRING_LIST => IsSequence(item.value)

ASSUME NoneAssumption == None \notin Int

ASSUME ItemAssumption ==
    \A i \in Inputs : \A j \in DOMAIN i.msgs : \A r \in DOMAIN Row(i.msgs[j]) :
        Holds(Row(i.msgs[j])[r])

-----------------------------------------------------------------------------
(* Properties.  They compare with the items of the messages.               *)

\* What is there to be read of the i-th message: nothing of a reply with an error.
Said(i) == IF Readable(input.msgs[i]) THEN Row(input.msgs[i]) ELSE <<>>

AllMeant == \A i \in DOMAIN input.msgs : Readable(input.msgs[i]) => Meant(input.msgs[i])

\* The value of the last item at one of these places of a row, and the last that is
\* said for a parameter there.
LastValue(row, said, default) == IF said = {} THEN default ELSE row[Max(said)].value

SaidFor(row, places, type, id) == {x \in places : row[x].type = type /\ row[x].id = id}

LastSaid(row, places, type, id, default) ==
    LastValue(row, SaidFor(row, places, type, id), default)

\* What the i-th reply alone says about an object of this kind.
SaidText(i, id) == LastSaid(Said(i), DOMAIN Said(i), MQCFT_STRING, id, Empty)
SaidNumber(i, type, id) == LastSaid(Said(i), DOMAIN Said(i), type, id, 0)
Reached(i, id, n) ==
    {x \in SaidFor(Said(i), DOMAIN Said(i), MQCFT_INTEGER_LIST, id) : Len(Said(i)[x].value) >= n}

\* The replies among the first n that name their object, or are of a kind without keys.
Naming(n) ==
    {i \in 1 .. n : /\ input.msgs[i].len >= HeaderSize
                    /\ \/ input.kind.keys = {}
                       \/ \E id \in input.kind.keys : SaidText(i, id) # Empty}

\* The result has one entry for each reply that names its object (for each reply
\* at all where the kind has no key), in their order; what an entry says is what its
\* own reply says last, and what that left out is empty or zero, whatever the
\* replies before it said (parse_channel_status_response and its like).
EachReplyOnItsOwn ==
    (Done /\ input.reader = "reply" /\ AllMeant) =>
        LET all == Len(input.msgs)  kind == input.kind IN
        /\ Len(Replies) = Cardinality(Naming(all))
        /\ \A i \in Naming(all) :
             LET e == Replies[Cardinality(Naming(i))] IN
             /\ \A id \in kind.texts : e.texts[id] = SaidText(i, id)
             /\ \A id \in kind.ints : e.ints[id] = SaidNumber(i, MQCFT_INTEGER, id)
             /\ \A id \in kind.longs : e.longs[id] = SaidNumber(i, MQCFT_INTEGER64, id)
             /\ \A id \in kind.lists : \A n \in 1 .. 2 :
                  e.lists[id][n] = IF Reached(i, id, n) = {} THEN 0
                                   ELSE Said(i)[Max(Reached(i, id, n))].value[n]

\* Where the handles of a row begin: behind the header of each group, or at once
\* where there is no group.  What belongs to one of them ends before the next header.
Headers(row) == {x \in DOMAIN row : row[x].type = MQCFT_GROUP}
Starts(row)  == IF Headers(row) = {} THEN {0} ELSE Headers(row)
Belong(row, h, n) ==
    {x \in 1 .. n : h < x /\ \A y \in Headers(row) : ~(h < y /\ y <= x)}

\* The handle that the items at these places describe.
HandleOf(row, places) ==
    [texts |-> [id \in DOMAIN NoHandle.texts |-> LastSaid(row, places, MQCFT_STRING, id, Empty)],
     process |-> LastSaid(row, places, MQCFT_INTEGER, 3002, 0),
     modes |-> {id \in {1411, 1412} : \E x \in SaidFor(row, places, MQCFT_INTEGER, id) :
                                         row[x].value > 0}]

\* The handles up to place n that name their queue.
NamedUpTo(row, n) ==
    {h \in Starts(row) : h <= n /\ HandleOf(row, Belong(row, h, Len(row))).texts[2016] # Empty}

\* There is one handle for each group that names its queue, in their order, and
\* it is what stands between the header of its group and the next: no application,
\* process or mode of one handle is shown for another.  A reply without groups is
\* one handle (parse_queue_status_response).
HandlesAreSeparate ==
    (Done /\ input.reader = "status" /\ Meant(input.msgs[1])) =>
        LET row == Row(input.msgs[1])  handles == Handles(decoded[1]) IN
        /\ Len(handles) = Cardinality(NamedUpTo(row, Len(row)))
        /\ \A h \in NamedUpTo(row, Len(row)) :
             handles[Cardinality(NamedUpTo(row, h))] = HandleOf(row, Belong(row, h, Len(row)))

\* The queues that are named in the i-th reply, alone or in a list.
QueuesNamed(i) ==
    LET row == Said(i)
        said(type) == {row[x].value : x \in SaidFor(row, DOMAIN row, type, 2016)}
    IN  said(MQCFT_STRING) \cup UNION {ToSet(names) : names \in said(MQCFT_STRING_LIST)}

\* Discovery lists every queue that some reply names, in either form, each once,
\* and none that is to be hidden (discover_queues).
DiscoveryIsExact ==
    (Done /\ input.reader = "discover" /\ AllMeant) =>
        /\ Cardinality(ToSet(Discovered)) = Len(Discovered)
        /\ ToSet(Discovered) =
             (UNION {QueuesNamed(i) : i \in DOMAIN input.msgs}) \ (Hidden \cup {Empty})

\* The number that an item gives, and the last that a row of items gives for a counter.
Number(item) ==
    CASE item.type \in ListTypes -> Signed(Total(item.value))
      [] item.type = MQCFT_INTEGER64 -> Signed(item.value)
      [] OTHER -> item.value

CountOf(members, id) ==
    LET given == {x \in DOMAIN members : /\ members[x].id = id
                                         /\ members[x].type \in IntTypes \cup ListTypes}
    IN  IF given = {} THEN 0 ELSE Number(members[Max(given)])

\* The items of a message that came unharmed.
Unharmed(m) == SubSeq(m.items, 1, m.good)

\* A statistics or accounting message without groups shows each of its six counters as
\* the last item for it gives it, a list as the sum of its numbers in 32 bits, and one
\* it does not name as zero; an accounting message, whose lists are not read, if all
\* its counters are single integers (parse_mqi_stats, parse_operation_counts).  (What
\* becomes of groups, see GroupsKeepMembers.)
CountersAsSaid ==
    (Done /\ input.reader = "parser") =>
        \A i \in DOMAIN decoded :
            LET m == input.msgs[i]
                parsed == Parsed(m, decoded[i])
                said(id) == CountOf(Unharmed(m), id)
            IN  Meant(m) /\ ~HasGroups(m) =>
                /\ m.command = 164 =>
                     \A id \in Summed : parsed.mqi.counts[id] = said(id)
                /\ m.command \in {167, 168} =>
                     \A id \in Summed :
                       (\A x \in 1 .. m.good : m.items[x].id = id => m.items[x].type \notin ListTypes)
                         => parsed.operations[id] = said(id)
=============================================================================
