----------------------------- MODULE PcfDecode -----------------------------
(***************************************************************************)
(* The loops that walk through the structures of PCF messages.  There is   *)
(* one in each of                                                          *)
(*   "parser"    PCFParser::parse_parameters      (pcf_parser.cpp)         *)
(*   "monitor"   ResourceMonitor::parse_pcf_params (resource_monitor.cpp)  *)
(*   "reply"     parse_pcf_response_params        (pcf_inquiry.cpp)        *)
(*   "status"    parse_queue_status_response      (pcf_inquiry.cpp)        *)
(*   "discover"  MQClient::discover_queues        (mqclient.cpp)           *)
(* and each was written on its own.  "server" is the command server, which *)
(* is external: it reads as many structures as the header announces.       *)
(*                                                                         *)
(* An action is one turn of a loop, the call for a group, or its return.   *)
(* What a reader finds behind the end of its message is taken for what the *)
(* structure holds.                                                        *)
(***************************************************************************)
EXTENDS PcfMessage

CONSTANTS
    Inputs,    \* what may be read: a reader, the kind of its answers, messages
    Hidden,    \* names of dynamic and model queues, and of the exporter's own
    None,      \* the value of a parameter that a reader makes nothing of
    Word       \* how many values an int32_t has, and a uint32_t

Readers == {"parser", "monitor", "reply", "status", "discover", "server"}

\* The lengths and the counts in a message are any integers, but none is as long as
\* an integer counts.
AnyMessage(m) ==
    /\ m.len \in Nat /\ m.len < Word /\ m.count \in Nat /\ m.header \in Int
    /\ \A o \in DOMAIN m.at : m.at[o].length \in Int /\ m.at[o].count \in Int

ASSUME WordAssumption == Word \in Nat /\ Word > 0 /\ Word % 2 = 0
ASSUME InputsAssumption ==
    \A i \in Inputs :
        /\ i.reader \in Readers
        /\ IsSequence(i.msgs) /\ Len(i.msgs) > 0
        /\ \A j \in DOMAIN i.msgs : AnyMessage(i.msgs[j])

\* What the command server gets is one of the commands.
ASSUME CommandAssumption ==
    \A i \in Inputs : \A j \in DOMAIN i.msgs :
        i.reader = "server" =>
             \E name \in {item.value : item \in {it \in ToSet(i.msgs[j].items) :
                                                  it.type = MQCFT_STRING}} \cup {Empty} :
               i.msgs[j] \in Commands(name)

VARIABLES
    input,
    k,        \* the message that is read
    offset,   \* the next structure
    frames,   \* the loops under way, the innermost first
    decoded   \* what the loop over each message returned

vars == <<input, k, offset, frames, decoded>>

\* The rest of the region, not a number of structures, bounds a loop.
Unbounded == -1

Frame(id, end, left, params) ==
    [id |-> id, end |-> end, left |-> left, params |-> params]

\* get_queue_handle_details_by_pcf() looks at the first response only.
LastMessage == IF input.reader = "status" THEN 1 ELSE Len(input.msgs)

Done == k > LastMessage

M == input.msgs[k]
Here == At(M, offset)

TypeOK ==
    /\ input.reader \in Readers
    /\ k \in 1 .. LastMessage + 1
    /\ offset \in Nat
    /\ \A i \in DOMAIN frames :
         frames[i].end \in Nat /\ frames[i].left \in Nat \cup {Unbounded}
    /\ Len(decoded) = k - 1

Init ==
    /\ input \in Inputs
    /\ k = 1 /\ offset = HeaderSize /\ frames = <<>> /\ decoded = <<>>

-----------------------------------------------------------------------------
(* One structure.                                                          *)

Param(type, id, value, members) == Item(type, id, value, members)

\* The bytes that must be there before a structure is looked at.
HeadBytes(reader) == IF reader = "monitor" THEN 16 ELSE 8

Understood(reader) ==
    CASE reader = "monitor"  -> {MQCFT_INTEGER, MQCFT_STRING, MQCFT_INTEGER64}
      [] reader = "reply"    -> {MQCFT_INTEGER, MQCFT_STRING, MQCFT_INTEGER64,
                                 MQCFT_INTEGER_LIST}
      [] reader = "status"   -> {MQCFT_INTEGER, MQCFT_STRING, MQCFT_GROUP}
      [] reader = "discover" -> {MQCFT_STRING, MQCFT_STRING_LIST}
      [] OTHER               -> {MQCFT_INTEGER, MQCFT_STRING, MQCFT_INTEGER_LIST,
                                 MQCFT_STRING_LIST, MQCFT_INTEGER64,
                                 MQCFT_INTEGER64_LIST, MQCFT_GROUP}

\* The StrucLength that a reader asks for before it takes a value.
Smallest(reader, type) ==
    CASE type = MQCFT_STRING -> IF reader \in {"reply", "discover"} THEN 24 ELSE 20
      [] type \in {MQCFT_INTEGER64, MQCFT_STRING_LIST} -> 24
      [] OTHER -> 16

\* static_cast<int32_t>, and what a uint32_t makes of it.
Signed(n) == ((n + Word \div 2) % Word) - Word \div 2
Unsigned(n) == n % Word

\* A StrucLength that lets a reader take the value.  The status reader computes
\* param_struc_len - 8, and lengths less than 8 wrap to large ones.
Suffices(reader, s) ==
    \/ s.length >= Smallest(reader, s.type)
    \/ reader = "status" /\ s.length < 8

\* Mutant: the end of the message is not looked at before a text is taken.
RefusesNegative(reader, s, room) ==
    CASE reader \in {"parser", "monitor"} -> s.count < 0
      [] reader = "status" -> Unsigned(12 + Unsigned(s.count)) > Unsigned(s.length - 8)
      [] OTHER             -> FALSE

\* A StringLength for which a reader takes no text, room bytes before the end of its
\* region: the reply readers and the parser cut the text to the structure.  (The
\* parser refuses texts that are longer than its region; they are cut here.)
Refuses(reader, s, room) ==
    CASE reader = "parser"   -> s.count < 0
      [] reader = "monitor"  -> s.count < 0 \/ 20 + s.count > room
      [] reader = "discover" -> 20 + Unsigned(s.count) > room
      [] reader = "status"   -> Unsigned(12 + Unsigned(s.count)) > Unsigned(s.length - 8)
      [] OTHER               -> FALSE

\* The reply readers return zero, or an empty text or list, for what is too short.
Unread(reader, type) ==
    IF reader # "reply" \/ type \notin Understood(reader) THEN None
    ELSE CASE type = MQCFT_STRING       -> Empty
           [] type = MQCFT_INTEGER_LIST -> <<>>
           [] OTHER                     -> 0

\* A text of no bytes is empty.
Content(s) == IF s.type = MQCFT_STRING /\ s.count = 0 THEN Empty ELSE s.value

\* The value that a reader takes if its StringLength does not stop it.
Value(reader, s) ==
    IF s.type \notin Understood(reader) \/ ~Suffices(reader, s)
      THEN Unread(reader, s.type)
      ELSE CASE reader = "parser" /\ s.type = MQCFT_INTEGER64 -> Signed(s.value)
             [] reader = "parser" /\ s.type = MQCFT_STRING /\ Content(s) = Empty -> None
             [] OTHER -> Content(s)

Reads(reader, s, room) ==
    Param(s.type, s.id,
          IF s.type = MQCFT_STRING /\ Refuses(reader, s, room)
            THEN IF reader = "monitor" THEN Empty ELSE None
            ELSE Value(reader, s), <<>>)

\* Whether it looks behind the head of a structure.
Takes(reader, s, room) ==
    /\ s.type \in Understood(reader) /\ Suffices(reader, s)
    /\ s.type = MQCFT_STRING => ~Refuses(reader, s, room)

\* The bytes of a structure that a reader looks at lie before this one: the parser
\* never goes behind the StrucLength, discovery takes names up to the end of the
\* message, and the sums of the reply readers may wrap.
Reach(reader, s, room) ==
    LET n     == Unsigned(s.count)
        text  == IF reader = "reply" /\ Unsigned(20 + n) > s.length THEN s.length - 20 ELSE n
        list  == IF Unsigned(16 + 4 * n) > s.length THEN (s.length - 16) \div 4 ELSE n
    IN  IF ~Takes(reader, s, room) THEN HeadBytes(reader)
        ELSE IF reader \in {"parser", "server"} THEN s.length
        ELSE CASE s.type = MQCFT_STRING       -> 20 + text
               [] s.type = MQCFT_INTEGER_LIST -> 16 + 4 * list
               [] s.type = MQCFT_STRING_LIST  -> room
               [] OTHER                       -> Smallest(reader, s.type)

-----------------------------------------------------------------------------
(* A loop.                                                                 *)

\* The least StrucLength that does not end the loop.
LeastLength(reader) == IF reader = "monitor" THEN 16 ELSE 1

\* Mutant: the end of the region is not looked at.
FitsAnywhere(f, s) ==
    /\ f.left # 0
    /\ offset + HeadBytes(input.reader) <= f.end
    /\ s.length >= LeastLength(input.reader)

\* Mutant: a StrucLength of 0 does not end the loop.
FitsEmpty(f, s) ==
    /\ f.left # 0
    /\ offset + HeadBytes(input.reader) <= f.end
    /\ s.length >= 0
    /\ offset + s.length <= f.end

\* The condition of the loop and the break behind it.
Fits(f, s) ==
    /\ f.left # 0
    /\ offset + HeadBytes(input.reader) <= f.end
    /\ s.length >= LeastLength(input.reader)
    /\ offset + s.length <= f.end

\* Only the parser and the monitor look into groups, the monitor into those that
\* are in no other.
EntersGroup(s) ==
    /\ s.type = MQCFT_GROUP
    /\ \/ input.reader = "parser" /\ s.length >= 16
       \/ input.reader = "monitor" /\ Len(frames) = 1

\* A queue of which discover_queues() wants to know nothing.
Skips(s) ==
    /\ input.reader = "discover" /\ s.type = MQCFT_STRING /\ s.id = 2016
    /\ s.value \in Hidden

Reading == frames # <<>> /\ Fits(Head(frames), Here)
Room == Head(frames).end - offset

\* Mutant: the number of structures is counted down in any loop.
TakenCounted(f, p) ==
    Frame(f.id, f.end, f.left - 1, Append(f.params, p))

\* A loop that has one parameter more.
Taken(f, p) ==
    Frame(f.id, f.end, IF f.left = Unbounded THEN Unbounded ELSE f.left - 1,
          Append(f.params, p))

ReadParam ==
    /\ Reading /\ ~EntersGroup(Here) /\ ~Skips(Here)
    /\ frames' = <<Taken(Head(frames), Reads(input.reader, Here, Room))>> \o Tail(frames)
    /\ offset' = offset + Here.length
    /\ UNCHANGED <<input, k, decoded>>

\* Mutant: the loop continues where it is.
SkipInPlace ==
    /\ Reading /\ Skips(Here)
    /\ UNCHANGED <<input, k, decoded, frames, offset>>

SkipQueue ==
    /\ Reading /\ Skips(Here)
    /\ offset' = offset + Here.length
    /\ UNCHANGED <<input, k, decoded, frames>>

\* The parser recurs into the StrucLength of the group; the monitor reads as
\* many structures behind its header as the group announces.
EnterGroup ==
    /\ Reading /\ EntersGroup(Here)
    /\ LET group == IF input.reader = "parser"
                      THEN Frame(Here.id, offset + Here.length, Unbounded, <<>>)
                      ELSE Frame(Here.id, Head(frames).end,
                                 IF Here.count > 0 THEN Here.count ELSE 0, <<>>)
       IN  frames' = <<group>> \o frames
    /\ offset' = offset + 16
    /\ UNCHANGED <<input, k, decoded>>

\* The parser goes on behind the group, the monitor where its members end.
LeaveGroup ==
    /\ Len(frames) > 1 /\ ~Reading
    /\ LET group == Head(frames)
           outer == frames[2]
           p     == Param(MQCFT_GROUP, group.id, <<>>, group.params)
       IN  /\ frames' = <<Taken(outer, p)>> \o Tail(Tail(frames))
           /\ offset' = IF input.reader = "parser" THEN group.end ELSE offset
    /\ UNCHANGED <<input, k, decoded>>

-----------------------------------------------------------------------------
(* A message.                                                              *)

\* A message without a header is not read, nor is a reply that reports an error.
Readable(m) ==
    /\ m.len >= HeaderSize
    /\ input.reader \in {"reply", "status", "discover"} => m.code = 0

\* Where the structures begin: only the monitor looks at the StrucLength of the header.
FirstOffset ==
    IF input.reader = "monitor" /\ M.header > 0 /\ M.header <= M.len
      THEN M.header ELSE HeaderSize

StartMessage ==
    /\ ~Done /\ frames = <<>> /\ Readable(M)
    /\ offset' = FirstOffset
    /\ frames' = <<Frame(0, M.len, IF input.reader = "server" THEN M.count ELSE Unbounded, <<>>)>>
    /\ UNCHANGED <<input, k, decoded>>

Returns(params) ==
    /\ decoded' = Append(decoded, params)
    /\ k' = k + 1 /\ frames' = <<>>
    /\ UNCHANGED <<input, offset>>

PassMessage == ~Done /\ frames = <<>> /\ ~Readable(M) /\ Returns(<<>>)

EndMessage == Len(frames) = 1 /\ ~Reading /\ Returns(Head(frames).params)

Decode ==
    \/ StartMessage \/ PassMessage \/ EndMessage
    \/ ReadParam \/ SkipQueue \/ EnterGroup \/ LeaveGroup

Finished == Done /\ UNCHANGED vars

Next == Decode \/ Finished

\* Nothing in a loop waits for anything.
Spec == Init /\ [][Next]_vars /\ WF_vars(Decode)

-----------------------------------------------------------------------------
(* Properties.                                                             *)

\* Whatever the lengths in a message, where a loop stands is inside its message,
\* and a loop over a group inside the region of the loop around it.  (What a turn
\* looks at from there, see ReadsInBounds.)
WalkInBounds ==
    /\ \A i \in DOMAIN frames : frames[i].end <= M.len
    /\ \A i, j \in DOMAIN frames : i <= j => frames[i].end <= frames[j].end
    /\ \A i \in DOMAIN frames : offset <= frames[i].end

\* No sum of a length or a count with what stands before it wraps.
WithoutWrap(s) ==
    8 <= s.length /\ 0 <= s.count /\ 20 + 4 * s.count < Word

\* Whatever StrucLength and whatever count a structure has, a turn looks at nothing
\* behind the end of the message: each reader compares the counts with its region
\* before it takes a text or a list.  The status and the reply readers compare in
\* uint32_t: of them it holds only as long as nothing wraps (see the hazards at
\* pcf_inquiry.cpp:231, 259, 572 and 623).
ReadsInBounds ==
    Reading /\ (input.reader \in {"reply", "status"} => WithoutWrap(Here)) =>
        offset + Reach(input.reader, Here, Room) <= M.len

\* Whatever the lengths in a message, a turn of a loop moves on, or a group ends:
\* the variant that makes the loops end.
WalkAdvances ==
    [][k' = k /\ frames # <<>> =>
         \/ offset' > offset
         \/ offset' = offset /\ Len(frames') < Len(frames)]_vars

\* Every message comes to its end.
DecodingEnds == <>Done

\* What a reader is to make of an item, and which items it wants.
Leaf(reader, item) == Param(item.type, item.id, Value(reader, Own(item)), <<>>)

Tree(reader, item) ==
    IF item.type = MQCFT_GROUP
      THEN Param(MQCFT_GROUP, item.id, <<>>,
                 [i \in DOMAIN item.members |-> Leaf(reader, item.members[i])])
      ELSE Leaf(reader, item)

Wanted(reader, item) ==
    ~(reader = "discover" /\ item.type = MQCFT_STRING /\ item.id = 2016
      /\ item.value \in Hidden)

\* The places of those it wants among the first n of a row.
Kept(reader, row, n) == {x \in 1 .. n : Wanted(reader, row[x])}

\* Parameters that are what the reader wants of the first n of a row, in their order,
\* and those that are the first n items with their members.
Listed(params, reader, row, n) ==
    /\ Len(params) = Cardinality(Kept(reader, row, n))
    /\ \A x \in Kept(reader, row, n) :
         params[Cardinality(Kept(reader, row, x))] = Leaf(reader, row[x])

Trees(reader, items, n) == [i \in 1 .. n |-> Tree(reader, items[i])]

\* The messages that their reader reads as they were meant: whole ones, or damaged
\* ones without groups, in which the damage does not fit into the message.  Only the
\* monitor knows both layouts of a group, only the parser needs its members inside
\* its StrucLength.
Meant(m) ==
    /\ Readable(m) /\ LaidOut(m)
    /\ HasGroups(m) =>
         /\ m.good = Len(m.items)
         /\ input.reader = "parser" => m.layout = "nested"
         /\ input.reader \notin {"parser", "monitor"} => m.layout = "following"

\* A message that is well formed is read as it was meant, groups with their
\* members, and a command as it was built; of one that is cut, or has a StrucLength
\* that does not fit, exactly what precedes the damage is read.  (Where the parser
\* meets groups as the queue manager writes them, see GroupsKeepMembers.)
DecodesWhatWasSent ==
    \A i \in DOMAIN decoded :
        LET m == input.msgs[i] IN
        Meant(m) =>
          IF input.reader \in {"parser", "monitor"}
            THEN decoded[i] = Trees(input.reader, m.items, m.good)
            ELSE Listed(decoded[i], input.reader, Row(m), Len(Row(m)))

\* "The inner parameters follow SEQUENTIALLY in the stream after the header, NOT
\* within the group's StrucLength byte range" (resource_monitor.cpp:76): the
\* parser, too, is to find the members of a group in it.
GroupsKeepMembers ==
    \A i \in DOMAIN decoded :
        LET m == input.msgs[i] IN
        m.good = Len(m.items) /\ Readable(m) /\ LaidOut(m) /\ input.reader = "parser"
          => decoded[i] = Trees("parser", m.items, m.good)
=============================================================================
