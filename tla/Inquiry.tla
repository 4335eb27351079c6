------------------------------- MODULE Inquiry -------------------------------
(***************************************************************************)
(* What the callers of MQClient::send_pcf_command (src/src/mqclient.cpp)   *)
(* rely on: they ask one command at a time and are given replies to that   *)
(* very command, from the first on and in order, with nothing after the    *)
(* reply that is marked MQCFC_LAST.  The replies may break off early, and  *)
(* there may be none.  One that is longer than the buffer is repeated, and *)
(* hides those that follow it.                                             *)
(***************************************************************************)
EXTENDS Integers, Sequences

CONSTANTS
    Commands,   \* the PCF commands the exporter sends
    NoCommand,  \* none
    Limit       \* the most replies a call returns (1000 in the code)

VARIABLES
    asked,      \* the command of the call in progress
    result      \* what the last call returned

vars == <<asked, result>>

\* The number of the reply that is read next after r.
After(r) == IF r.long THEN r.number ELSE r.number + 1

\* rs are replies to c, in order, and only the last of them can be marked.
AnswersTo(c, rs) ==
    /\ Len(rs) <= Limit
    /\ \A i \in 1 .. Len(rs) :
         /\ rs[i].command = c
         /\ rs[i].number = IF i = 1 THEN 1 ELSE After(rs[i - 1])
         /\ rs[i].last => i = Len(rs)

Init == asked = NoCommand /\ result = <<>>

Ask(c) == asked = NoCommand /\ asked' = c /\ result' = <<>>

Return ==
    /\ asked # NoCommand
    /\ asked' = NoCommand /\ AnswersTo(asked, result')

Next == (\E c \in Commands : Ask(c)) \/ Return

Spec == Init /\ [][Next]_vars
=============================================================================
