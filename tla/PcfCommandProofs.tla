-------------------------- MODULE PcfCommandProofs --------------------------
(***************************************************************************)
(* The safety of PcfCommand for every number of commands, queue names and  *)
(* replies: a call returns the ordered replies to its own command, however *)
(* late the command server is.                                             *)
(*                                                                         *)
(* The inductive invariant follows one reply queue.  A queue is opened     *)
(* under a name that nobody holds; from then on the only request and the   *)
(* only answer under way that name it are those of the call that opened    *)
(* it, and what it has read, what waits on the queue and what the server   *)
(* has yet to send are one numbered row.                                   *)
(***************************************************************************)
EXTENDS PcfCommand, TLAPS

\* A request or an answer under way that names the reply queue q.
Asked(q)    == \E r \in requests : r.replyTo = q
Answered(q) == server.replyTo = q

\* What the call holds at each place.
CallInv ==
    /\ pc # "idle" => command \in Commands
    /\ pc \in {"open", "send"} => responses = <<>>
    /\ pc \in {"send", "read", "delete"} => replyQueue \in Names
    /\ pc = "read" => /\ Len(responses) < Limit
                      /\ \A i \in 1 .. Len(responses) : ~responses[i].last

\* The responses are a part of an answer to the command of the call.
ResponsesInv == pc # "idle" => AnInquiry!AnswersTo(command, responses)

\* Before the command is put nobody else holds the name of the reply queue.
FreshInv ==
    pc = "send" => /\ ~Asked(replyQueue) /\ ~Answered(replyQueue)
                   /\ replyQueue \in DOMAIN queues => queues[replyQueue] = <<>>

\* The row that begins with the responses goes on with the queue and with what
\* the server sends next.
Row ==
    /\ \A i \in 1 .. Len(queues[replyQueue]) :
         /\ queues[replyQueue][i].command = command
         /\ queues[replyQueue][i].number = Taken + i
    /\ Asked(replyQueue) =>
         /\ ~Answered(replyQueue)
         /\ responses = <<>> /\ queues[replyQueue] = <<>>
         /\ \A r \in requests : r.replyTo = replyQueue => r.command = command
    /\ Answered(replyQueue) =>
         /\ server.command = command
         /\ server.sent = Taken + Len(queues[replyQueue])

RowInv == (pc = "read" /\ replyQueue \in DOMAIN queues) => Row

IInv == TypeOK /\ CallInv /\ ResponsesInv /\ FreshInv /\ RowInv

\* The reply that the server sends next, and the step that sends it.
NextReply(last, long) ==
    [command |-> server.command, number |-> server.sent + 1,
     last |-> last, long |-> long]

Sends(last, long) ==
    /\ queues' = [n \in DOMAIN queues |->
                    IF n = server.replyTo THEN Append(queues[n], NextReply(last, long))
                                          ELSE queues[n]]
    /\ server' = IF last THEN Idle ELSE [server EXCEPT !.sent = @ + 1]

\* When the connection is broken there are no queues.
LEMMA EmptyQueues == DOMAIN <<>> = {}
  OBVIOUS

\* What is taken off the queue is counted by the last response.
LEMMA TakenNat ==
  ASSUME TypeOK
  PROVE  Taken \in Int
<1>1. CASE responses = <<>>
  BY <1>1 DEF Taken
<1>2. CASE responses # <<>>
  <2>1. responses[Len(responses)] \in Reply
    BY <1>2 DEF TypeOK
  <2>2. responses[Len(responses)].number \in Nat
    BY <2>1 DEF Reply
  <2>3. QED
    BY <1>2, <2>2 DEF Taken
<1>3. QED
  BY <1>1, <1>2

-----------------------------------------------------------------------------
(* Each step preserves each part of the invariant.                         *)

\* Every step preserves the type invariant.
LEMMA TypeStep == TypeOK /\ CallInv /\ [Next]_vars => TypeOK'
<1> SUFFICES ASSUME TypeOK, CallInv, [Next]_vars PROVE TypeOK'
  OBVIOUS
<1> USE LimitAssumption DEF TypeOK, call, broker
<1>1. ASSUME NEW c \in Commands, Call(c) PROVE TypeOK'
  BY <1>1 DEF Call
<1>2. ASSUME NEW q \in Names, OpenReplyQueue(q) PROVE TypeOK'
  BY <1>2 DEF OpenReplyQueue
<1>3. CASE OpenFails
  BY <1>3 DEF OpenFails
<1>4. CASE Put
  BY <1>4 DEF Put, Request, CallInv
<1>5. CASE PutFails
  BY <1>5 DEF PutFails
<1>6. CASE GetReply
  <2> DEFINE waiting == queues[replyQueue]
  <2>1. waiting \in Seq(Reply) /\ waiting # <<>>
    BY <1>6 DEF GetReply
  <2>2. Head(waiting) \in Reply /\ Tail(waiting) \in Seq(Reply)
    BY <2>1
  <2>3. responses' = Append(responses, Head(waiting))
    BY <1>6 DEF GetReply
  <2>4. responses' \in Seq(Reply) /\ Len(responses') <= Limit
    BY <1>6, <2>2, <2>3 DEF GetReply, CallInv
  <2>5. \/ queues' = queues
        \/ queues' = [queues EXCEPT ![replyQueue] = Tail(waiting)]
    BY <1>6 DEF GetReply
  <2>6. /\ DOMAIN queues' \subseteq Names
        /\ \A q \in DOMAIN queues' : queues'[q] \in Seq(Reply)
    BY <2>2, <2>5
  <2>7. QED
    BY <1>6, <2>4, <2>6 DEF GetReply
<1>7. CASE GetFails \/ GetCrashes
  BY <1>7 DEF GetFails, GetCrashes
<1>8. CASE DeleteReplyQueue
  BY <1>8 DEF DeleteReplyQueue, Without
<1>9. CASE ServerTakes
  <2>1. PICK r \in requests :
          /\ requests' = requests \ {r}
          /\ server' = [command |-> r.command, replyTo |-> r.replyTo, sent |-> 0]
    BY <1>9 DEF ServerTakes
  <2>2. r.command \in Commands /\ r.replyTo \in Names
    BY <2>1 DEF Request
  <2>3. server' \in Busy
    BY <2>1, <2>2 DEF Busy
  <2>4. QED
    BY <1>9, <2>1, <2>3 DEF ServerTakes
<1>10. CASE ServerReplies
  <2>1. server \in Busy
    BY <1>10 DEF ServerReplies
  <2>2. PICK last \in BOOLEAN, long \in BOOLEAN : Sends(last, long)
    BY <1>10 DEF ServerReplies, Sends, NextReply
  <2>3. NextReply(last, long) \in Reply
    BY <2>1 DEF NextReply, Reply, Busy
  <2>4. /\ DOMAIN queues' \subseteq Names
        /\ \A q \in DOMAIN queues' : queues'[q] \in Seq(Reply)
    BY <2>2, <2>3 DEF Sends
  <2>5. server' \in Busy \cup {Idle}
    BY <2>1, <2>2 DEF Sends, Busy
  <2>6. QED
    BY <1>10, <2>4, <2>5 DEF ServerReplies
<1>11. CASE ServerStops
  BY <1>11 DEF ServerStops
<1>12. CASE ConnectionBreaks
  <2>1. DOMAIN queues' = {}
    BY <1>12, EmptyQueues DEF ConnectionBreaks
  <2>2. QED
    BY <1>12, <2>1 DEF ConnectionBreaks
<1>13. CASE UNCHANGED vars
  BY <1>13 DEF vars
<1>14. QED
  BY <1>1, <1>2, <1>3, <1>4, <1>5, <1>6, <1>7, <1>8, <1>9, <1>10, <1>11,
     <1>12, <1>13 DEF Next, Client, QueueManager

\* Every step keeps what the call holds at each place.
LEMMA CallStep == TypeOK /\ CallInv /\ [Next]_vars => CallInv'
<1> SUFFICES ASSUME TypeOK, CallInv, [Next]_vars PROVE CallInv'
  OBVIOUS
<1> USE LimitAssumption DEF TypeOK, CallInv, call, broker
<1>1. ASSUME NEW c \in Commands, Call(c) PROVE CallInv'
  BY <1>1 DEF Call
<1>2. ASSUME NEW q \in Names, OpenReplyQueue(q) PROVE CallInv'
  BY <1>2 DEF OpenReplyQueue
<1>3. CASE Put
  BY <1>3 DEF Put
<1>4. CASE GetReply
  <2> DEFINE waiting == queues[replyQueue]
  <2>1. Head(waiting) \in Reply
    BY <1>4 DEF GetReply
  <2>2. /\ responses' = Append(responses, Head(waiting))
        /\ pc' = "read" => ~Head(waiting).last /\ Len(responses') # Limit
    BY <1>4 DEF GetReply
  <2>3. /\ Len(responses') = Len(responses) + 1
        /\ responses'[Len(responses')] = Head(waiting)
        /\ \A i \in 1 .. Len(responses) : responses'[i] = responses[i]
    BY <2>1, <2>2
  <2>4. QED
    BY <1>4, <2>2, <2>3 DEF GetReply
<1>5. CASE OpenFails \/ PutFails \/ GetFails \/ GetCrashes \/ DeleteReplyQueue
  BY <1>5 DEF OpenFails, PutFails, GetFails, GetCrashes, DeleteReplyQueue
<1>6. CASE QueueManager
  BY <1>6 DEF QueueManager, ServerTakes, ServerReplies, ServerStops,
     ConnectionBreaks
<1>7. CASE UNCHANGED vars
  BY <1>7 DEF vars
<1>8. QED
  BY <1>1, <1>2, <1>3, <1>4, <1>5, <1>6, <1>7 DEF Next, Client

\* A reply that is read continues the responses: the row says that it answers
\* the command of the call and has the next number.
LEMMA ResponsesStep == IInv /\ [Next]_vars => ResponsesInv'
<1> SUFFICES ASSUME IInv, [Next]_vars PROVE ResponsesInv'
  OBVIOUS
<1> USE LimitAssumption DEF IInv, TypeOK, CallInv, ResponsesInv,
  AnInquiry!AnswersTo, AnInquiry!After, call, broker
<1>1. ASSUME NEW c \in Commands, Call(c) PROVE ResponsesInv'
  BY <1>1 DEF Call
<1>2. CASE GetReply
  <2> DEFINE reply == Head(queues[replyQueue])
  <2>1. /\ reply \in Reply
        /\ reply.command = command /\ reply.number = Taken + 1
    <3> DEFINE waiting == queues[replyQueue]
    <3>1. waiting \in Seq(Reply) /\ waiting # <<>>
      BY <1>2 DEF GetReply
    <3>2. reply \in Reply /\ reply = waiting[1] /\ 1 \in 1 .. Len(waiting)
      BY <3>1
    <3>3. Row /\ pc = "read" /\ replyQueue \in DOMAIN queues
      BY <1>2 DEF GetReply, RowInv
    <3>4. QED
      BY <3>2, <3>3 DEF Row
  <2>2. responses' = Append(responses, reply) /\ command' = command
    BY <1>2 DEF GetReply
  <2>3. /\ Len(responses') = Len(responses) + 1
        /\ responses'[Len(responses')] = reply
        /\ \A i \in 1 .. Len(responses) : responses'[i] = responses[i]
    BY <2>1, <2>2
  <2>4. pc = "read"
    BY <1>2 DEF GetReply
  <2>5. reply.number = IF responses = <<>> THEN 1
                       ELSE AnInquiry!After(responses[Len(responses)])
    <3>1. CASE responses = <<>>
      BY <2>1, <3>1 DEF Taken
    <3>2. CASE responses # <<>>
      <4>1. responses[Len(responses)] \in Reply
        BY <3>2
      <4>2. QED
        BY <2>1, <3>2, <4>1 DEF Taken, Reply
    <3>3. QED
      BY <3>1, <3>2
  <2>6. QED
    BY <2>1, <2>2, <2>3, <2>4, <2>5
<1>3. CASE (\E q \in Names : OpenReplyQueue(q)) \/ Put
  BY <1>3 DEF OpenReplyQueue, Put
<1>4. CASE OpenFails \/ PutFails \/ GetFails \/ GetCrashes \/ DeleteReplyQueue
  BY <1>4 DEF OpenFails, PutFails, GetFails, GetCrashes, DeleteReplyQueue
<1>5. CASE QueueManager
  BY <1>5 DEF QueueManager, ServerTakes, ServerReplies, ServerStops,
     ConnectionBreaks
<1>6. CASE UNCHANGED vars
  BY <1>6 DEF vars
<1>7. QED
  BY <1>1, <1>2, <1>3, <1>4, <1>5, <1>6 DEF Next, Client

\* A name is fresh when the queue is opened, and nobody else learns it.
LEMMA FreshStep == IInv /\ [Next]_vars => FreshInv'
<1> SUFFICES ASSUME IInv, [Next]_vars PROVE FreshInv'
  OBVIOUS
<1> USE NamesAssumption DEF IInv, TypeOK, CallInv, FreshInv, Asked, Answered,
  call, broker
<1>1. ASSUME NEW q \in Names, OpenReplyQueue(q) PROVE FreshInv'
  BY <1>1 DEF OpenReplyQueue, InUse
<1>2. CASE \/ OpenFails \/ Put \/ PutFails \/ GetReply \/ GetFails
           \/ GetCrashes \/ DeleteReplyQueue \/ \E c \in Commands : Call(c)
  BY <1>2 DEF OpenFails, Put, PutFails, GetReply, GetFails, GetCrashes,
     DeleteReplyQueue, Call
<1>3. CASE ServerTakes
  BY <1>3 DEF ServerTakes
<1>4. CASE ServerReplies
  <2>1. PICK last \in BOOLEAN, long \in BOOLEAN : Sends(last, long)
    BY <1>4 DEF ServerReplies, Sends, NextReply
  <2>2. CASE pc = "send"
    <3>1. replyQueue # server.replyTo /\ replyQueue \in Names
      BY <2>2
    <3>2. server'.replyTo # replyQueue
      BY <2>1, <3>1 DEF Sends, Idle, Busy
    <3>3. replyQueue \in DOMAIN queues' => queues'[replyQueue] = <<>>
      BY <2>1, <2>2, <3>1 DEF Sends
    <3>4. QED
      BY <1>4, <2>2, <3>2, <3>3 DEF ServerReplies
  <2>3. QED
    BY <1>4, <2>2 DEF ServerReplies
<1>5. CASE ServerStops
  BY <1>5 DEF ServerStops, Idle
<1>6. CASE ConnectionBreaks
  BY <1>6, EmptyQueues DEF ConnectionBreaks
<1>7. CASE UNCHANGED vars
  BY <1>7 DEF vars
<1>8. QED
  BY <1>1, <1>2, <1>3, <1>4, <1>5, <1>6, <1>7 DEF Next, Client, QueueManager

\* The row grows at its end when the server sends, and its first waiting reply
\* becomes the last response when the call reads; others write to other queues.
LEMMA RowStep == IInv /\ [Next]_vars => RowInv'
<1> SUFFICES ASSUME IInv, [Next]_vars, pc' = "read",
                    replyQueue' \in DOMAIN queues'
             PROVE  Row'
  BY DEF RowInv
<1>0. Taken \in Int /\ (UNCHANGED responses => UNCHANGED Taken)
  BY TakenNat DEF IInv, Taken
<1> USE DEF IInv, TypeOK, RowInv, Row, Asked, Answered, call, broker
<1>1. CASE Put
  <2>1. /\ responses = <<>> /\ queues[replyQueue] = <<>>
        /\ ~Asked(replyQueue) /\ ~Answered(replyQueue)
    BY <1>1 DEF Put, CallInv, FreshInv
  <2>2. /\ requests' = requests \cup {[command |-> command, replyTo |-> replyQueue]}
        /\ UNCHANGED <<command, replyQueue, responses, queues, server>>
    BY <1>1 DEF Put
  <2>3. Len(queues[replyQueue]) = 0
    BY <2>1
  <2>4. QED
    BY <2>1, <2>2, <2>3
<1>2. CASE GetReply
  <2> DEFINE waiting == queues[replyQueue]
  <2>1. /\ waiting \in Seq(Reply) /\ waiting # <<>> /\ Row
        /\ responses' = Append(responses, Head(waiting))
        /\ queues' = IF Head(waiting).long THEN queues
                     ELSE [queues EXCEPT ![replyQueue] = Tail(waiting)]
        /\ UNCHANGED <<command, replyQueue, requests, server>>
    BY <1>2 DEF GetReply
  <2>2. queues'[replyQueue] = IF Head(waiting).long THEN waiting ELSE Tail(waiting)
    BY <1>2, <2>1 DEF GetReply
  <2>3. /\ Len(Tail(waiting)) = Len(waiting) - 1 /\ Len(waiting) \in Nat
        /\ \A i \in 1 .. Len(Tail(waiting)) :
             Tail(waiting)[i] = waiting[i + 1] /\ i + 1 \in 1 .. Len(waiting)
    BY <2>1
  <2>4. Taken' = IF Head(waiting).long THEN Taken ELSE Taken + 1
    <3>1. Head(waiting) \in Reply /\ Head(waiting) = waiting[1] /\ 1 \in 1 .. Len(waiting)
      BY <2>1
    <3>2. Head(waiting).number = Taken + 1
      BY <2>1, <3>1
    <3>3. /\ responses' # <<>>
          /\ responses'[Len(responses')] = Head(waiting)
      BY <2>1, <3>1
    <3>4. Taken' = IF Head(waiting).long THEN Head(waiting).number - 1
                                        ELSE Head(waiting).number
      BY <3>3 DEF Taken
    <3>5. QED
      <4> DEFINE k == Head(waiting).number
      <4>1. k = Taken + 1
        BY <3>2
      <4>2. k - 1 = Taken
        BY <1>0, <4>1
      <4>3. QED
        BY <3>4, <4>1, <4>2
  <2>5. ~Asked(replyQueue)
    BY <2>1
  <2>6. CASE Head(waiting).long
    BY <2>1, <2>2, <2>4, <2>5, <2>6
  <2>7. CASE ~Head(waiting).long
    <3>1. Taken' = Taken + 1 /\ queues'[replyQueue] = Tail(waiting)
      BY <2>2, <2>4, <2>7
    <3>2. ASSUME NEW i \in 1 .. Len(Tail(waiting))
          PROVE  /\ Tail(waiting)[i].command = command
                 /\ Tail(waiting)[i].number = Taken' + i
      <4>1. /\ Tail(waiting)[i] = waiting[i + 1] /\ i + 1 \in 1 .. Len(waiting)
            /\ i \in Int
        BY <2>3
      <4>2. waiting[i + 1].command = command /\ waiting[i + 1].number = Taken + (i + 1)
        BY <2>1, <4>1
      <4>3. QED
        BY <1>0, <3>1, <4>1, <4>2
    <3>3. Answered(replyQueue) =>
            /\ server.command = command
            /\ server.sent = Taken' + Len(Tail(waiting))
      <4> DEFINE n == Len(waiting)  m == Len(Tail(waiting))
      <4>1. Answered(replyQueue) => server.command = command /\ server.sent = Taken + n
        BY <2>1
      <4>2. n \in Nat /\ m = n - 1
        BY <2>3
      <4> HIDE DEF n, m
      <4>3. Taken' + m = Taken + n
        BY <1>0, <3>1, <4>2
      <4>4. Answered(replyQueue) => server.command = command /\ server.sent = Taken' + m
        BY <4>1, <4>3
      <4>5. QED
        BY <4>4 DEF m
    <3>4. QED
      BY <2>1, <2>5, <3>1, <3>2, <3>3
  <2>8. QED
    BY <2>6, <2>7
<1>3. CASE ServerTakes
  <2>1. PICK r \in requests :
          /\ requests' = requests \ {r}
          /\ server' = [command |-> r.command, replyTo |-> r.replyTo, sent |-> 0]
    BY <1>3 DEF ServerTakes
  <2>2. Row /\ UNCHANGED <<command, replyQueue, responses, queues>>
    BY <1>3 DEF ServerTakes
  <2>3. CASE r.replyTo = replyQueue
    <3>1. /\ responses = <<>> /\ queues[replyQueue] = <<>> /\ r.command = command
          /\ Taken' = 0 /\ Len(queues[replyQueue]) = 0
      BY <2>1, <2>2, <2>3 DEF Taken
    <3>2. \A q \in requests : q.replyTo = replyQueue => q = r
      BY <2>1, <2>2, <2>3, <3>1 DEF Request
    <3>3. QED
      BY <2>1, <2>2, <3>1, <3>2
  <2>4. CASE r.replyTo # replyQueue
    BY <1>0, <2>1, <2>2, <2>4
  <2>5. QED
    BY <2>3, <2>4
<1>4. CASE ServerReplies
  <2>1. PICK last \in BOOLEAN, long \in BOOLEAN : Sends(last, long)
    BY <1>4 DEF ServerReplies, Sends, NextReply
  <2>2. /\ Row /\ pc = "read" /\ server \in Busy
        /\ UNCHANGED <<command, replyQueue, responses, requests>>
    BY <1>4, <2>1 DEF ServerReplies, Sends
  <2> DEFINE waiting == queues[replyQueue]
  <2>3. waiting \in Seq(Reply) /\ replyQueue \in Names
    BY <1>4, <2>1, <2>2 DEF Sends, CallInv
  <2>4. CASE Answered(replyQueue)
    <3>1. /\ queues'[replyQueue] = Append(waiting, NextReply(last, long))
          /\ NextReply(last, long).command = command
          /\ NextReply(last, long).number = Taken + Len(waiting) + 1
      BY <1>4, <2>1, <2>2, <2>4 DEF Sends, NextReply
    <3>2. /\ Len(queues'[replyQueue]) = Len(waiting) + 1
          /\ queues'[replyQueue][Len(waiting) + 1] = NextReply(last, long)
          /\ \A i \in 1 .. Len(waiting) : queues'[replyQueue][i] = waiting[i]
      BY <2>3, <3>1
    <3>3. server' = Idle \/ server' = [server EXCEPT !.sent = @ + 1]
      BY <2>1 DEF Sends
    <3>4. ~Asked(replyQueue) /\ Idle.replyTo = NoName /\ NoName # replyQueue
      BY <2>2, <2>3, <2>4, NamesAssumption DEF Idle
    <3>5. Answered(replyQueue)' =>
            server'.command = command /\ server'.sent = server.sent + 1
      BY <2>2, <3>3, <3>4 DEF Busy
    <3>6. Len(waiting) \in Nat /\ Taken' = Taken
      BY <2>2, <2>3 DEF Taken
    <3>7. \A i \in 1 .. Len(queues'[replyQueue]) :
            /\ queues'[replyQueue][i].command = command
            /\ queues'[replyQueue][i].number = Taken + i
      <4> SUFFICES ASSUME NEW i \in 1 .. Len(queues'[replyQueue])
                   PROVE  /\ queues'[replyQueue][i].command = command
                          /\ queues'[replyQueue][i].number = Taken + i
        OBVIOUS
      <4>1. CASE i \in 1 .. Len(waiting)
        BY <2>2, <3>2, <4>1
      <4>2. CASE i = Len(waiting) + 1
        BY <1>0, <3>1, <3>2, <3>6, <4>2
      <4>3. QED
        BY <3>2, <3>6, <4>1, <4>2
    <3>8. ~Asked(replyQueue)'
      BY <2>2, <3>4
    <3>9. Answered(replyQueue)' =>
            server'.sent = Taken + Len(queues'[replyQueue])
      BY <1>0, <2>2, <2>4, <3>2, <3>5, <3>6
    <3>10. QED
      BY <2>2, <3>5, <3>6, <3>7, <3>8, <3>9
  <2>5. CASE ~Answered(replyQueue)
    <3>1. queues'[replyQueue] = waiting
      BY <1>4, <2>1, <2>2, <2>5 DEF Sends
    <3>2. ~Answered(replyQueue)'
      BY <2>1, <2>2, <2>3, <2>5, NamesAssumption DEF Sends, Idle, Busy
    <3>3. QED
      BY <1>0, <2>2, <3>1, <3>2
  <2>6. QED
    BY <2>4, <2>5
<1>5. CASE ServerStops
  BY <1>0, <1>5, NamesAssumption DEF ServerStops, Idle, CallInv
<1>6. CASE ConnectionBreaks
  BY <1>6, EmptyQueues DEF ConnectionBreaks
<1>7. CASE \/ OpenFails \/ PutFails \/ GetFails \/ GetCrashes \/ DeleteReplyQueue
           \/ (\E q \in Names : OpenReplyQueue(q)) \/ \E c \in Commands : Call(c)
  BY <1>7 DEF OpenFails, PutFails, GetFails, GetCrashes, DeleteReplyQueue,
     OpenReplyQueue, Call
<1>8. CASE UNCHANGED vars
  BY <1>0, <1>8 DEF vars
<1>9. QED
  BY <1>1, <1>2, <1>3, <1>4, <1>5, <1>6, <1>7, <1>8 DEF Next, Client,
     QueueManager

-----------------------------------------------------------------------------
(* The theorems.                                                           *)

\* The invariant holds before the first call.
LEMMA InitIInv == Init => IInv
  BY LimitAssumption, EmptyQueues DEF Init, IInv, TypeOK, CallInv, ResponsesInv,
     FreshInv, RowInv

\* The strengthened invariant of MQClient::send_pcf_command holds for every
\* number of commands, queue names and replies.
THEOREM RowsNeverMix == Spec => []IInv
<1>1. IInv /\ [Next]_vars => IInv'
  BY TypeStep, CallStep, ResponsesStep, FreshStep, RowStep DEF IInv
<1>2. QED
  BY InitIInv, <1>1, PTL DEF Spec

\* The call, its queue and the command server keep their types; the responses
\* never exceed the limit of the loop.
THEOREM PcfTypeCorrect == Spec => []TypeOK
  BY RowsNeverMix, PTL DEF IInv

\* While send_pcf_command reads, its dynamic queue holds replies to its own
\* command only, numbered on from what was read.
THEOREM RepliesAreOwn == Spec => []NoForeignReplies
<1>1. IInv => NoForeignReplies
  BY DEF IInv, RowInv, Row, NoForeignReplies
<1>2. QED
  BY RowsNeverMix, <1>1, PTL

\* Every step of the call, the queue manager and the command server is a step
\* of the abstract inquiry, or none.
LEMMA InquiryStep == IInv /\ [Next]_vars => [AnInquiry!Next]_(AnInquiry!vars)
<1> SUFFICES ASSUME IInv, [Next]_vars
             PROVE  AnInquiry!Next \/ UNCHANGED AnInquiry!vars
  OBVIOUS
<1> USE CommandsAssumption DEF IInv, CallInv, ResponsesInv, AnInquiry!vars,
  AnInquiry!Next, AnInquiry!Ask, AnInquiry!Return, call, broker
<1>1. ASSUME NEW c \in Commands, Call(c)
      PROVE  AnInquiry!Next
  BY <1>1 DEF Call
<1>2. CASE OpenFails
  BY <1>2 DEF OpenFails
<1>3. CASE DeleteReplyQueue
  BY <1>3 DEF DeleteReplyQueue
<1>4. CASE (\E q \in Names : OpenReplyQueue(q)) \/ Put \/ PutFails
  BY <1>4 DEF OpenReplyQueue, Put, PutFails
<1>5. CASE GetReply \/ GetFails \/ GetCrashes
  BY <1>5 DEF GetReply, GetFails, GetCrashes
<1>6. CASE QueueManager
  BY <1>6 DEF QueueManager, ServerTakes, ServerReplies, ServerStops,
     ConnectionBreaks
<1>7. CASE UNCHANGED vars
  BY <1>7 DEF vars
<1>8. QED
  BY <1>1, <1>2, <1>3, <1>4, <1>5, <1>6, <1>7 DEF Next, Client

\* "Creates a fresh reply queue per command": what a caller of send_pcf_command
\* is given are the replies to its own command, in order, from the first on; only
\* one that is longer than the buffer is given again, and it hides the rest.
THEOREM RefinesInquiry == Spec => ImplementsInquiry
<1>1. Init => AnInquiry!Init
  BY DEF Init, AnInquiry!Init
<1>2. QED
  BY RowsNeverMix, <1>1, InquiryStep, PTL DEF Spec, ImplementsInquiry,
     AnInquiry!Spec
=============================================================================
