----------------------------- MODULE PcfMessage -----------------------------
(***************************************************************************)
(* PCF messages as the queue manager lays them out, and the commands that  *)
(* src/src/pcf_inquiry.cpp builds.                                         *)
(*                                                                         *)
(* A message is a header of 36 bytes and a row of structures.  What is     *)
(* kept of the bytes is what a reader finds when it takes the bytes at an  *)
(* offset for a structure: its type, its StrucLength, its parameter id, the *)
(* count in it (the StringLength of a text, the Count of a list or of a    *)
(* group) and its contents.  Byte order, the trailing blanks of texts and  *)
(* other widths of the names in a list are left out.                       *)
(***************************************************************************)
EXTENDS Integers, Sequences, FiniteSets, SequencesExt

CONSTANTS
    Empty,     \* the text of no bytes
    Size(_)    \* the bytes of a text

\* Structure types.
MQCFT_INTEGER == 3
MQCFT_STRING == 4
MQCFT_INTEGER_LIST == 5
MQCFT_STRING_LIST == 6
MQCFT_GROUP == 20
MQCFT_INTEGER64 == 23
MQCFT_INTEGER64_LIST == 25

HeaderSize == 36
NameWidth == 48  \* the fixed width of the names in a list

-----------------------------------------------------------------------------
(* What a message says.  value is an integer, a text, or a sequence of     *)
(* either; members are the parameters of a group.                          *)

Item(type, id, value, members) ==
    [type |-> type, id |-> id, value |-> value, members |-> members]

Int32(id, n)     == Item(MQCFT_INTEGER, id, n, <<>>)
Int64(id, n)     == Item(MQCFT_INTEGER64, id, n, <<>>)
Text(id, t)      == Item(MQCFT_STRING, id, t, <<>>)
Ints(id, ns)     == Item(MQCFT_INTEGER_LIST, id, ns, <<>>)
Longs(id, ns)    == Item(MQCFT_INTEGER64_LIST, id, ns, <<>>)
Names(id, ts)    == Item(MQCFT_STRING_LIST, id, ts, <<>>)
Group(id, items) == Item(MQCFT_GROUP, id, <<>>, items)

-----------------------------------------------------------------------------
(* Layout.                                                                 *)

\* The bytes of a structure, of a group its header only.
Bytes(item) ==
    CASE item.type = MQCFT_INTEGER        -> 16
      [] item.type = MQCFT_INTEGER64      -> 24
      [] item.type = MQCFT_STRING         -> 20 + 4 * ((Size(item.value) + 3) \div 4)
      [] item.type = MQCFT_INTEGER_LIST   -> 16 + 4 * Len(item.value)
      [] item.type = MQCFT_INTEGER64_LIST -> 16 + 8 * Len(item.value)
      [] item.type = MQCFT_STRING_LIST    -> 24 + NameWidth * Len(item.value)
      [] OTHER                      -> 16

Total(ns) == FoldLeft(LAMBDA sum, n : sum + n, 0, ns)

BytesOf(items) == Total([i \in DOMAIN items |-> Bytes(items[i])])

\* What a structure counts.
Announced(item) ==
    CASE item.type = MQCFT_STRING -> Size(item.value)
      [] item.type \in {MQCFT_INTEGER_LIST, MQCFT_INTEGER64_LIST, MQCFT_STRING_LIST} ->
           Len(item.value)
      [] OTHER -> Len(item.members)

Structure(type, id, length, count, value) ==
    [type |-> type, id |-> id, length |-> length, count |-> count, value |-> value]

\* The structure of an item, of a group that of its header.
Own(item) ==
    Structure(item.type, item.id, Bytes(item), Announced(item), item.value)

\* What the queue manager writes for an item.  The members of a group follow
\* its header; in the layout "nested" its StrucLength covers them.
Structures(item, layout) ==
    LET nested == IF layout = "nested" THEN BytesOf(item.members) ELSE 0
    IN  <<[Own(item) EXCEPT !.length = @ + nested]>>
          \o [i \in DOMAIN item.members |-> Own(item.members[i])]

\* The items with their members, in the order of their bytes.
Flat(items) == FlattenSeq([i \in DOMAIN items |-> <<items[i]>> \o items[i].members])

\* A message that says items.  header is the StrucLength of its header.  good is the
\* number of leading items that came unharmed; it is known to the properties, not to
\* the readers.
Message(command, code, items, layout) ==
    LET flat == Flat(items)
        rows == FlattenSeq([i \in DOMAIN items |-> Structures(items[i], layout)])
        starts == [i \in DOMAIN rows |-> HeaderSize + BytesOf(SubSeq(flat, 1, i - 1))]
    IN  [command |-> command, code |-> code, count |-> Len(items), header |-> HeaderSize,
         items |-> items, layout |-> layout, good |-> Len(items),
         len |-> HeaderSize + BytesOf(flat),
         at |-> [o \in {starts[i] : i \in DOMAIN rows} |->
                   rows[CHOOSE i \in DOMAIN rows : starts[i] = o]]]

\* How many of its items lie before offset o.
ItemsBefore(m, o) ==
    Cardinality({i \in DOMAIN m.items :
                   HeaderSize + BytesOf(Flat(SubSeq(m.items, 1, i))) <= o})

\* A message that ends at o, and one with another StrucLength, or another count, at o,
\* or with another StrucLength of the header.
CutAt(m, o)         == [m EXCEPT !.len = o, !.good = ItemsBefore(m, o)]
WithLength(m, o, n) == [m EXCEPT !.at[o].length = n, !.good = ItemsBefore(m, o)]
WithCount(m, o, n)  == [m EXCEPT !.at[o].count = n, !.good = ItemsBefore(m, o)]
WithHeader(m, n)    == [m EXCEPT !.header = n, !.good = 0]

\* Bytes that are no structure are taken for one of length 0.
At(m, o) == IF o \in DOMAIN m.at THEN m.at[o] ELSE Structure(0, 0, 0, 0, 0)

HasGroups(m) == \E i \in DOMAIN m.items : m.items[i].type = MQCFT_GROUP

\* The row of the items that came unharmed, with their members, where the r-th of
\* the row begins, and the place of the i-th item in it.
Row(m)        == Flat(SubSeq(m.items, 1, m.good))
StartOf(m, r) == HeaderSize + BytesOf(SubSeq(Row(m), 1, r - 1))
Place(m, i)   == Len(Flat(SubSeq(m.items, 1, i - 1))) + 1

IsSequence(s) == s \in Seq({s[i] : i \in DOMAIN s})

\* The unharmed items stand one behind the other, each group before its members;
\* behind them is the end, or what does not fit into the message.
LaidOut(m) ==
    LET row   == Row(m)
        at(r) == At(m, StartOf(m, r))
        end   == StartOf(m, Len(row) + 1)
    IN  /\ m.header = HeaderSize
        /\ IsSequence(m.items) /\ IsSequence(row) /\ m.good \in 0 .. Len(m.items)
        /\ m.layout \in {"following", "nested"}
        /\ StartOf(m, 1) = HeaderSize /\ Place(m, 1) = 1 /\ Place(m, m.good + 1) = Len(row) + 1
        /\ \A r \in DOMAIN row :
             /\ Bytes(row[r]) \in Nat /\ Bytes(row[r]) >= 16
             /\ row[r].type = MQCFT_STRING =>
                  Announced(row[r]) \in Nat /\ 20 + Announced(row[r]) <= Bytes(row[r])
             /\ StartOf(m, r + 1) = StartOf(m, r) + Bytes(row[r])
             /\ at(r) = [Own(row[r]) EXCEPT !.length = at(r).length]
             /\ row[r].type # MQCFT_GROUP \/ ~HasGroups(m) \/ m.layout = "following" =>
                  at(r) = Own(row[r])
        /\ \A i \in 1 .. m.good :
             LET item == m.items[i] IN
             /\ IsSequence(item.members)
             /\ Place(m, i + 1) = Place(m, i) + 1 + Len(item.members)
             /\ row[Place(m, i)] = item
             /\ \A j \in DOMAIN item.members :
                  /\ item.members[j].type # MQCFT_GROUP
                  /\ row[Place(m, i) + j] = item.members[j]
             /\ item.type # MQCFT_GROUP => item.members = <<>>
             /\ m.layout = "nested" =>
                  StartOf(m, Place(m, i)) + at(Place(m, i)).length = StartOf(m, Place(m, i + 1))
        /\ m.good = Len(m.items) => end = m.len
        /\ m.good < Len(m.items) /\ m.len >= HeaderSize /\ ~HasGroups(m) =>
             /\ end <= m.len
             /\ at(Len(row) + 1).length < 1 \/ end + at(Len(row) + 1).length > m.len

-----------------------------------------------------------------------------
(* Commands: build_pcf_cmd() with append_string_param() (Text), which pads *)
(* to a word, and append_integer_param() (Int32).                          *)

\* The count is written by each builder and not derived from its parameters.
BuildPcfCmd(command, count, params) ==
    [Message(command, 0, params, "following") EXCEPT !.count = count]

\* Mutant: the count was not changed when the type of the queue was added.
BuildInquireQStale(q) ==
    BuildPcfCmd(13, 1, <<Text(2016, q), Int32(20, 1)>>)

BuildInquireQ(q) ==
    BuildPcfCmd(13, 2, <<Text(2016, q), Int32(20, 1)>>)

BuildInquireQStatus(q) ==
    BuildPcfCmd(41, 2, <<Text(2016, q), Int32(1103, 1104)>>)

BuildInquireQStatusOnline(q) ==
    BuildPcfCmd(41, 2, <<Text(2016, q), Int32(1103, 1105)>>)

BuildInquireChannelStatus(c) == BuildPcfCmd(42, 1, <<Text(3501, c)>>)
BuildInquireTopicStatus(t)   == BuildPcfCmd(183, 1, <<Text(2094, t)>>)
BuildInquireSubStatus(s)     == BuildPcfCmd(182, 1, <<Text(3152, s)>>)
BuildInquireQmgrStatus       == BuildPcfCmd(161, 0, <<>>)
BuildInquireClusterQmgr(all) == BuildPcfCmd(70, 1, <<Text(2029, all)>>)
BuildInquireUsage(type)      == BuildPcfCmd(126, 1, <<Int32(1157, type)>>)
BuildResetQStats(q)          == BuildPcfCmd(17, 1, <<Text(2016, q)>>)

\* Every command of the client about an object of this name.
Commands(name) ==
    {BuildInquireQ(name), BuildInquireQStatus(name), BuildInquireQStatusOnline(name),
     BuildInquireChannelStatus(name), BuildInquireTopicStatus(name),
     BuildInquireSubStatus(name), BuildInquireQmgrStatus, BuildInquireClusterQmgr(name),
     BuildInquireUsage(1), BuildInquireUsage(2), BuildResetQStats(name)}
=============================================================================
