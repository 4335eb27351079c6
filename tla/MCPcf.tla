------------------------------- MODULE MCPcf -------------------------------
(***************************************************************************)
(* Messages for the six readers of PcfDecode and PcfResults.               *)
(***************************************************************************)
EXTENDS PcfResults

\* Texts that fill their words, that do not, and that are empty.
MCSize(t) == CASE t = "" -> 0 [] t = "full" -> 4 [] t = "odd" -> 3 [] OTHER -> 6

MCHidden == {"hidden"}
MCWord == 512

Input(reader, kind, msgs) == [reader |-> reader, kind |-> kind, msgs |-> msgs]

Whole(command, code, items) == Message(command, code, items, "following")

\* A message, and what is left of it when it is cut in the midst of a structure,
\* at its end, or in the header, or when a StrucLength is wrong: zero, negative,
\* beyond the end, or too short; or when a count is wrong.
Damaged(m) ==
    {CutAt(m, o + n) : o \in DOMAIN m.at, n \in {0, 4, 12}}
    \cup {CutAt(m, 20)}
    \cup {WithLength(m, o, n) : o \in DOMAIN m.at, n \in {0, -4, m.len, 4, 12, 20}}
    \cup {WithCount(m, o, n) : o \in DOMAIN m.at, n \in {-1, 0, 2, 9, 50, MCWord - 18}}
OrDamaged(m) == {m} \cup Damaged(m)

-----------------------------------------------------------------------------
\* Commands.
MCCommands == {Input("server", None, <<c>>) : c \in Commands("odd") \cup Commands("full")}

-----------------------------------------------------------------------------
\* Status replies.
Some(ids, item(_)) == IF ids = {} THEN <<>> ELSE <<item(CHOOSE id \in ids : TRUE)>>

\* The name of the object or not, with a text, numbers, a list of one or two numbers.
Bodies(kind) ==
    {Some(kind.keys, LAMBDA id : Text(id, name)) \o rest :
       name \in {"odd", "full", ""},
       rest \in {<<>>,
                 Some(kind.texts, LAMBDA id : Text(id, "other")),
                 Some(kind.ints, LAMBDA id : Int32(id, 7))
                   \o Some(kind.ints, LAMBDA id : Int32(id, 8)),
                 Some(kind.lists, LAMBDA id : Ints(id, <<3>>))
                   \o Some(kind.longs, LAMBDA id : Int64(id, 300)),
                 Some(kind.lists, LAMBDA id : Ints(id, <<5, 6>>))
                   \o <<Names(1, <<"odd">>)>>}}

MCReplies ==
    UNION {{Input("reply", kind, <<Whole(1, c, a), Whole(1, d, b)>>) :
              a \in Bodies(kind), b \in Bodies(kind), c \in {0, 2}, d \in {0}}
           : kind \in Kinds}
    \cup {Input("reply", ChannelStatus, <<m, Whole(1, 0, <<Text(3501, "odd")>>)>>) :
            m \in Damaged(Whole(1, 0, <<Text(3501, "full"), Int32(1534, 7),
                                        Int64(1535, 300), Ints(1604, <<5, 6>>)>>))}
    \cup {Input("reply", ChannelStatus,
                <<Whole(1, 0, <<Text(3501, a), Ints(1604, <<5>>), Text(3501, b)>>),
                  Whole(1, 0, <<Text(3506, a), Group(1, <<Text(3501, b), Int32(1534, 7)>>)>>)>>) :
            a \in {"odd", ""}, b \in {"full", ""}}

-----------------------------------------------------------------------------
\* Handles of a queue, in groups or alone.
HandleItems ==
    {<<>>, <<Text(2016, "odd"), Int32(1411, 1)>>, <<Text(2016, "full"), Int32(1412, 2), Int32(1411, 0)>>,
     <<Text(2016, "odd"), Text(3502, "full"), Int32(3002, 9)>>, <<Int32(3002, 4), Text(3501, "odd")>>}

MCStatus ==
    {Input("status", None, <<Whole(13, code, <<Group(1, a), Group(1, b), Group(1, c)>>)>>) :
       a \in HandleItems, b \in HandleItems, c \in HandleItems, code \in {0, 2}}
    \cup {Input("status", None, <<Whole(13, 0, a \o <<Int32(1, 1)>>), Whole(13, 0, a)>>) :
            a \in HandleItems}
    \cup {Input("status", None, <<Whole(13, 0, <<Int32(3002, 4), Group(1, a), Text(3502, "full"),
                                               Group(1, b), Text(2016, "odd")>>)>>) :
            a \in HandleItems, b \in HandleItems}
    \cup {Input("status", None, <<m>>) :
            m \in UNION {Damaged(Whole(13, 0, <<Int32(2, 2), Group(1, a)>>)) : a \in HandleItems}}

-----------------------------------------------------------------------------
\* Queues, by name or in lists, visible or not.
Listings ==
    {<<Text(2016, a), Int32(20, 1), Text(2016, b)>> :
       a \in {"odd", "hidden"}, b \in {"full", "odd", "", "hidden"}}
    \cup {<<Names(2016, <<a, b>>), Text(id, "odd")>> :
            a \in {"odd", "hidden", ""}, b \in {"full", "odd"}, id \in {2015, 2016}}

MCDiscover ==
    {Input("discover", None, <<Whole(13, c, a), Whole(13, 0, b)>>) :
       a \in Listings, b \in Listings, c \in {0, 2}}
    \cup {Input("discover", None, <<m>>) : m \in UNION {Damaged(Whole(13, 0, a)) : a \in Listings}}

-----------------------------------------------------------------------------
\* Publications, with groups of which one has no members.
Measured == {<<>>, <<Int32(1, 5)>>, <<Text(2, "odd"), Int64(3, 300)>>}

MCMonitor ==
    {Input("monitor", None, <<m>>) :
       m \in UNION {OrDamaged(Message(22, 0, <<Int32(7, 1), Group(9, a), Group(9, b), Ints(8, <<1, 2>>)>>,
                                      layout))
                    : a \in Measured, b \in Measured, layout \in {"following", "nested"}}}
    \cup {Input("monitor", None, <<m>>) :
            m \in UNION {Damaged(w) \cup {WithHeader(w, n) : n \in {-4, 8, 40, 52, 400}} :
                         w \in {Whole(22, 0, <<Int32(7, 1), Text(2, "odd"), Int64(3, 300),
                                              Int32(7, 2)>>)}}}

-----------------------------------------------------------------------------
\* Statistics and accounting messages.
MqiCounters ==
    {<<>>, <<Int32(735, 3), Text(2024, "odd")>>, <<Int32(735, 100), Int32(705, 4), Int64(722, 300)>>,
     <<Int32(735, 9), Longs(735, <<2, 3>>), Ints(733, <<200, 160>>)>>}
QueueGroups ==
    {<<Text(2016, "odd"), Text(2016, ""), Int32(735, 2), Text(3024, "full")>>, <<Text(2016, "full"), Int32(722, 0)>>,
     <<Int32(735, 2)>>, <<Text(2016, "full"), Int64(817, 5), Text(3025, "odd")>>}

MCParser ==
    {Input("parser", None, <<Message(c, 0, <<Text(2015, "full")>> \o loose \o a \o b, "following")>>) :
       a \in MqiCounters, b \in MqiCounters, loose \in {<<>>, <<Int32(710, 1), Names(4, <<"odd">>)>>},
       c \in {164, 168}}
    \cup {Input("parser", None, <<Message(164, 0, <<Group(1, a), Int32(710, 1), Group(1, b)>>, layout)>>) :
            a \in MqiCounters, b \in MqiCounters, layout \in {"nested", "following"}}
    \cup {Input("parser", None, <<Message(168, 0, <<Group(1, a), Group(1, b)>>, "nested")>>) :
            a \in QueueGroups, b \in QueueGroups}
    \cup {Input("parser", None, <<m>>) :
            m \in UNION {OrDamaged(Message(165, 0, <<Text(2016, "odd"), Int64(3, 300), Text(1, ""),
                                                     Group(1, <<Int32(17, 1), Text(3025, "odd")>>),
                                                     Int32(36, 2)>>, layout))
                         : layout \in {"nested", "following"}}
               \cup Damaged(Whole(166, 0, <<Text(3501, "odd"), Int64(1535, 300), Int32(1534, 1)>>))
               \cup Damaged(Whole(164, 0, <<Int32(735, 3), Ints(735, <<200, 160>>), Text(3025, "odd")>>))}

MCInputs == MCCommands \cup MCReplies \cup MCStatus \cup MCDiscover \cup MCMonitor \cup MCParser
=============================================================================
