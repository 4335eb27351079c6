----------------------------- MODULE PcfCommand -----------------------------
(***************************************************************************)
(* MQClient::send_pcf_command (src/src/mqclient.cpp): a PCF command is put *)
(* on the queue of the command server and its replies are read from a      *)
(* dynamic queue that is made for this call and deleted at its end.        *)
(*                                                                         *)
(* The command server is external.  It is as slow as it likes: it may      *)
(* answer a command when the call that asked it has given up, or a later   *)
(* call is waiting.  It may stop in the middle of an answer, and the       *)
(* connection may break.                                                   *)
(*                                                                         *)
(* A reply stands for one PCF message: the command it answers, its place   *)
(* in the answer, whether its Control field is MQCFC_LAST, and whether it  *)
(* is longer than the buffer of 64 KiB.                                    *)
(***************************************************************************)
EXTENDS Integers, Sequences

CONSTANTS
    Commands,    \* the PCF commands the exporter sends
    NoCommand,
    Names,       \* names of dynamic reply queues
    NoName,
    Limit,       \* the most replies a call reads (1000 in the code)
    MaxReplies   \* bound: the longest answer of the command server

ASSUME CommandsAssumption == NoCommand \notin Commands
ASSUME NamesAssumption == NoName \notin Names
ASSUME LimitAssumption == Limit \in Nat \ {0} /\ MaxReplies \in Nat

VARIABLES
    pc, command, replyQueue, responses,  \* the call: where it is, its locals
    hconn,     \* the connection is usable
    queues,    \* the dynamic queues that exist, with their messages
    requests,  \* what is on the command queue
    server     \* the request the command server answers, and how far it is

call   == <<pc, command, replyQueue, responses>>
broker == <<queues, requests, server>>
vars   == <<call, hconn, broker>>

Reply   == [command: Commands, number: Nat, last: BOOLEAN, long: BOOLEAN]
Request == [command: Commands, replyTo: Names]
Idle    == [command |-> NoCommand, replyTo |-> NoName, sent |-> 0]
Busy    == [command: Commands, replyTo: Names, sent: Nat]

TypeOK ==
    /\ pc \in {"idle", "open", "send", "read", "delete", "crashed"}
    /\ command \in Commands \cup {NoCommand}
    /\ replyQueue \in Names \cup {NoName}
    /\ responses \in Seq(Reply) /\ Len(responses) <= Limit
    /\ hconn \in BOOLEAN
    /\ DOMAIN queues \subseteq Names
    /\ \A q \in DOMAIN queues : queues[q] \in Seq(Reply)
    /\ requests \subseteq Request
    /\ server \in Busy \cup {Idle}

Init ==
    /\ pc = "idle" /\ command = NoCommand /\ replyQueue = NoName
    /\ responses = <<>>
    /\ hconn = TRUE
    /\ queues = <<>> /\ requests = {} /\ server = Idle

-----------------------------------------------------------------------------
(* The call.                                                               *)

\* The queues that are left when q is deleted.
Without(q) == [n \in DOMAIN queues \ {q} |-> queues[n]]

\* Mutant: the vector of responses outlives the call.
CallKeepsResponses(c) ==
    /\ pc = "idle"
    /\ pc' = "open" /\ command' = c
    /\ UNCHANGED <<replyQueue, responses, hconn, broker>>

Call(c) ==
    /\ pc = "idle"
    /\ pc' = "open" /\ command' = c /\ responses' = <<>>
    /\ UNCHANGED <<replyQueue, hconn, broker>>

\* The queue manager completes "EXPORTER.*" to a name that is not in use.
InUse(q) ==
    \/ q \in DOMAIN queues \/ q = server.replyTo
    \/ \E r \in requests : r.replyTo = q

\* Mutant: the queue of an earlier call is taken up again.
OpenAnyReplyQueue(q) ==
    /\ pc = "open" /\ hconn
    /\ pc' = "send" /\ replyQueue' = q
    /\ queues' = [n \in DOMAIN queues \cup {q} |->
                    IF n \in DOMAIN queues THEN queues[n] ELSE <<>>]
    /\ UNCHANGED <<command, responses, hconn, requests, server>>

OpenReplyQueue(q) ==
    /\ pc = "open" /\ hconn /\ ~InUse(q)
    /\ pc' = "send" /\ replyQueue' = q
    /\ queues' = [n \in DOMAIN queues \cup {q} |->
                    IF n = q THEN <<>> ELSE queues[n]]
    /\ UNCHANGED <<command, responses, hconn, requests, server>>

\* Not connected, or MQOPEN fails: the call returns no responses.
OpenFails ==
    /\ pc = "open"
    /\ pc' = "idle" /\ UNCHANGED <<command, replyQueue, responses, hconn, broker>>

Put ==
    /\ pc = "send" /\ hconn
    /\ pc' = "read"
    /\ requests' = requests \cup {[command |-> command, replyTo |-> replyQueue]}
    /\ UNCHANGED <<command, replyQueue, responses, hconn, queues, server>>

\* An unexpected queue name, no command queue, or MQPUT fails.
PutFails ==
    /\ pc = "send"
    /\ pc' = "delete" /\ UNCHANGED <<command, replyQueue, responses, hconn, broker>>

\* Mutant: the loop gives no heed to its limit.
GetReplyUnlimited ==
    /\ pc = "read" /\ replyQueue \in DOMAIN queues
    /\ queues[replyQueue] # <<>>
    /\ LET reply == Head(queues[replyQueue]) IN
         /\ responses' = Append(responses, reply)
         /\ pc' = IF reply.last THEN "delete" ELSE "read"
         /\ queues' = IF reply.long THEN queues
                      ELSE [queues EXCEPT ![replyQueue] = Tail(@)]
    /\ UNCHANGED <<command, replyQueue, hconn, requests, server>>

\* MQGET has a message.  The loop ends with MQCFC_LAST and after Limit turns.
\* One that is longer than the buffer is no failure to the code (MQCC_WARNING,
\* reason 2080): the start of it is in the buffer, what is behind the buffer is
\* taken for the rest, and the message stays the first on the queue.
GetReply ==
    /\ pc = "read" /\ replyQueue \in DOMAIN queues
    /\ queues[replyQueue] # <<>>
    /\ LET reply == Head(queues[replyQueue]) IN
         /\ responses' = Append(responses, reply)
         /\ pc' = IF reply.last \/ Len(responses') = Limit THEN "delete"
                                                           ELSE "read"
         /\ queues' = IF reply.long THEN queues
                      ELSE [queues EXCEPT ![replyQueue] = Tail(@)]
    /\ UNCHANGED <<command, replyQueue, hconn, requests, server>>

\* What is behind the buffer need not be readable: then the process ends there.
GetCrashes ==
    /\ pc = "read" /\ replyQueue \in DOMAIN queues
    /\ queues[replyQueue] # <<>> /\ Head(queues[replyQueue]).long
    /\ pc' = "crashed"
    /\ UNCHANGED <<command, replyQueue, responses, hconn, broker>>

\* Mutant: MQGET waits for as long as the connection lives.
GetWaits ==
    /\ pc = "read" /\ ~hconn
    /\ pc' = "delete" /\ UNCHANGED <<command, replyQueue, responses, hconn, broker>>

\* MQGET fails, for whatever reason: nothing came for five seconds, the
\* connection is broken.  The loop ends and the call returns what it has.
GetFails ==
    /\ pc = "read"
    /\ pc' = "delete" /\ UNCHANGED <<command, replyQueue, responses, hconn, broker>>

\* MQCLOSE with MQCO_DELETE_PURGE, which may fail; the call returns anyway.
DeleteReplyQueue ==
    /\ pc = "delete"
    /\ pc' = "idle" /\ replyQueue' = NoName
    /\ queues' \in {Without(replyQueue), queues}
    /\ UNCHANGED <<command, responses, hconn, requests, server>>

Client ==
    \/ \E q \in Names : OpenReplyQueue(q)
    \/ OpenFails \/ Put \/ PutFails \/ GetReply \/ GetCrashes \/ GetFails
    \/ DeleteReplyQueue

-----------------------------------------------------------------------------
(* The queue manager.                                                      *)

ServerTakes ==
    /\ server = Idle
    /\ \E r \in requests :
         /\ requests' = requests \ {r}
         /\ server' = [command |-> r.command, replyTo |-> r.replyTo, sent |-> 0]
    /\ UNCHANGED <<call, hconn, queues>>

\* A reply to a queue that is no longer there is lost.
ServerReplies ==
    /\ server # Idle /\ server.sent < MaxReplies
    /\ \E last, long \in BOOLEAN :
         LET reply == [command |-> server.command, number |-> server.sent + 1,
                       last |-> last, long |-> long]
         IN /\ queues' = [n \in DOMAIN queues |->
                            IF n = server.replyTo THEN Append(queues[n], reply)
                                                  ELSE queues[n]]
            /\ server' = IF last THEN Idle ELSE [server EXCEPT !.sent = @ + 1]
    /\ UNCHANGED <<call, hconn, requests>>

\* The command server ends, or forgets the rest of its answer.
ServerStops ==
    /\ server # Idle
    /\ server' = Idle /\ UNCHANGED <<call, hconn, queues, requests>>

\* Temporary dynamic queues go with the connection.
ConnectionBreaks ==
    /\ hconn
    /\ hconn' = FALSE /\ queues' = <<>>
    /\ UNCHANGED <<call, requests, server>>

QueueManager == ServerTakes \/ ServerReplies \/ ServerStops \/ ConnectionBreaks

Next == (\E c \in Commands : Call(c)) \/ Client \/ QueueManager

\* The exporter's thread runs, and every MQI call returns: MQGET waits for five
\* seconds at most.  The command server owes nothing.
Spec == Init /\ [][Next]_vars /\ WF_vars(Client)

-----------------------------------------------------------------------------
(* Properties.                                                             *)

\* The caller's view: a call is in progress, or its responses are there.
AnInquiry == INSTANCE Inquiry
    WITH asked  <- IF pc = "idle" THEN NoCommand ELSE command,
         result <- IF pc = "idle" THEN responses ELSE <<>>

\* "creates a fresh reply queue per command": a call returns the replies to its
\* own command, in order and from the first on, and none that a late server sent
\* for an earlier call.  None comes twice and none is passed over, save that one
\* longer than the buffer is repeated until the call ends.
ImplementsInquiry == AnInquiry!Spec

\* How many replies the call has taken off its queue: all it has read, without
\* one that is longer than the buffer.
Taken ==
    IF responses = <<>> THEN 0
    ELSE LET r == responses[Len(responses)] IN
         IF r.long THEN r.number - 1 ELSE r.number

\* While a call reads, only its own command is answered into its queue, and the
\* queue goes on where the responses end.
NoForeignReplies ==
    (pc = "read" /\ replyQueue \in DOMAIN queues) =>
        \A i \in 1 .. Len(queues[replyQueue]) :
            /\ queues[replyQueue][i].command = command
            /\ queues[replyQueue][i].number = Taken + i

\* However the server behaves, the call returns, unless the process ended in it.
CallReturns == pc # "idle" ~> pc \in {"idle", "crashed"}
=============================================================================
