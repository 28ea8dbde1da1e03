---------------------------- MODULE RemoteControl ----------------------------
(***************************************************************************)
(* The device's side of remote control: RequestTransponder fetches a       *)
(* request from the mailbox of module Transponder, refuses it when it is   *)
(* out of date by the device's own clock, carries it out and sends the     *)
(* answer.  The clock is set from the server when the mailbox is empty and *)
(* goes on by the milliseconds that have passed when it is empty again or  *)
(* the device is off its network.                                          *)
(*                                                                         *)
(* Calls may be lost, answered late or not at all; the process behind a    *)
(* call the device has given up still runs.  The device may restart        *)
(* between any two steps.                                                  *)
(***************************************************************************)
EXTENDS Transponder

CONSTANTS
    ErequestActualSec,   \* how long a request is good for, in seconds
    TooOld,              \* the answer to a request that is not
    NoCall

ASSUME DeviceAssumption ==
    /\ ErequestActualSec \in Nat
    /\ TooOld \in Resps
    /\ NoCall \notin Calls

VARIABLES
    localUnixtime,   \* 0 while it is not set
    unx_ms,          \* when it was last set or moved, in seconds of the server
    dpc,             \* what RequestTransponder is waiting for
    call,            \* the call it is waiting for, or NoCall
    answers          \* history: the answers given, with the time of the request

device == <<localUnixtime, unx_ms, dpc, call, answers>>
vars == <<now, file, php, asked, device>>

DPC == {"idle", "receive", "refresh", "answer"}

-----------------------------------------------------------------------------
(* client_stop: the call is over for the device, whatever the process does. *)
Closed == IF call = NoCall THEN php ELSE [php EXCEPT ![call] = Close(call)]

Free == {c \in Calls : Closed[c].pc = "idle"}

(* request_on_transponder *)
Request(op, line, d) ==
    \E c \in Free :
        /\ php' = [Closed EXCEPT ![c] = Send(op, line)]
        /\ call' = c
        /\ dpc' = d

(* RequestTransponder returns. *)
Return ==
    /\ php' = Closed
    /\ call' = NoCall
    /\ dpc' = "idle"

Reply == IF call = NoCall THEN NoReply ELSE php[call].reply

(* loop(): the planned poll. *)
Poll ==
    /\ dpc = "idle"
    /\ Request("receive", Blank, "receive")
    /\ UNCHANGED <<now, file, asked, localUnixtime, unx_ms, answers>>

(* A time limit of client_request, or an answer without the tags.  Without a
   time from the server the clock is off. *)
Timeout ==
    /\ dpc # "idle"
    /\ Return
    /\ localUnixtime' = IF dpc = "refresh" THEN 0 ELSE localUnixtime
    /\ UNCHANGED <<now, file, asked, unx_ms, answers>>

(* The mailbox is empty: the clock is due to be set ... *)
AskTime ==
    /\ dpc = "receive"
    /\ Reply = Empty
    /\ Request("get_unixtime", Blank, "refresh")
    /\ UNCHANGED <<now, file, asked, localUnixtime, unx_ms, answers>>

SetTime ==
    /\ dpc = "refresh"
    /\ Reply # NoReply
    /\ Return
    /\ localUnixtime' = Reply.time
    /\ unx_ms' = now
    /\ UNCHANGED <<now, file, asked, answers>>

(* A plausible slip: unx_ms is not moved along. *)
MoveTimeAgain ==
    /\ dpc = "idle" \/ (dpc = "receive" /\ Reply = Empty)
    /\ localUnixtime # 0
    /\ Return
    /\ localUnixtime' = localUnixtime + now - unx_ms
    /\ UNCHANGED <<now, file, asked, unx_ms, answers>>

(* ... or it moves on by what has passed since it last did.  It also moves
   when the device, about to poll, is not connected to its network. *)
MoveTime ==
    /\ dpc = "idle" \/ (dpc = "receive" /\ Reply = Empty)
    /\ localUnixtime # 0
    /\ Return
    /\ localUnixtime' = localUnixtime + now - unx_ms
    /\ unx_ms' = now
    /\ UNCHANGED <<now, file, asked, answers>>

Received == dpc = "receive" /\ Reply \in Line

OutOfDate == localUnixtime > 0 /\ localUnixtime - Reply.time > ErequestActualSec

(* The line has lost its time: no answer is needed. *)
Ignore ==
    /\ Received
    /\ Reply.time = NoTime
    /\ Return
    /\ UNCHANGED <<now, file, asked, localUnixtime, unx_ms, answers>>

(* transmit_response *)
Respond(resp) ==
    /\ Request("set_response", [Reply EXCEPT !.resp = resp], "answer")
    /\ answers' = answers \cup {[time |-> Reply.time, resp |-> resp]}
    /\ UNCHANGED <<now, file, asked, localUnixtime, unx_ms>>

Refuse ==
    /\ Received
    /\ Reply.time # NoTime
    /\ OutOfDate
    /\ Respond(TooOld)

(* A plausible slip: a request without a time is carried out. *)
CarriedUndated == Received /\ (Reply.time = NoTime \/ ~OutOfDate)

Carried == Received /\ Reply.time # NoTime /\ ~OutOfDate

(* parser->process *)
Execute == Carried /\ \E resp \in Resps \ {TooOld} : Respond(resp)

(* The call of set_response returns. *)
Answered ==
    /\ dpc = "answer"
    /\ php[call].pc = "done"
    /\ Return
    /\ UNCHANGED <<now, file, asked, localUnixtime, unx_ms, answers>>

(* At any moment; also by a request ("reset", "rsttodef"), which is then not
   answered. *)
Restart ==
    /\ Return
    /\ localUnixtime' = 0
    /\ unx_ms' = 0
    /\ UNCHANGED <<now, file, asked, answers>>

-----------------------------------------------------------------------------
Init ==
    /\ ServerInit
    /\ localUnixtime = 0
    /\ unx_ms = 0
    /\ dpc = "idle"
    /\ call = NoCall
    /\ answers = {}

Next ==
    \/ ServerNext /\ UNCHANGED device
    \/ Poll
    \/ Timeout
    \/ AskTime
    \/ SetTime
    \/ MoveTime
    \/ Ignore
    \/ Refuse
    \/ Execute
    \/ Answered
    \/ Restart

Spec == Init /\ [][Next]_vars

-----------------------------------------------------------------------------
(* Whatever is torn or cut, a process that writes has a line to write and
   stands inside the file or right behind it, so that no gap of undefined
   lines can arise; times are seconds of the server. *)
TypeOK ==
    /\ now \in Time
    /\ file = NoFile \/ file \in Seq(Entry)
    /\ php \in [Procs -> Process]
    /\ asked \subseteq Line
    /\ localUnixtime \in Nat
    /\ unx_ms \in 0 .. MaxTime
    /\ dpc \in DPC
    /\ call \in Calls \cup {NoCall}
    /\ answers \subseteq [time : Time, resp : Resps]
    /\ \A p \in Procs :
        /\ php[p].pc = "write" => php[p].lines # <<>>
        /\ php[p].pc = "write" /\ ~php[p].lost => file # NoFile /\ php[p].pos <= Len(file) + 1

(* However the processes of guests and device cut into each other, a request
   that reaches the device with a key is one that a guest made, with this key
   and in this second. *)
NothingInvented == Received /\ Reply.key # NoKey => Reply \in asked

(* An answer a guest is shown was given by the device to a request of the
   same second: lines that are moved, torn or put at a wrong index never
   join a request with the answer to another one. *)
AnswerOfTheSecond ==
    \A g \in Guests : php[g].reply # NoReply
        => [time |-> php[g].reply.time, resp |-> php[g].reply.resp] \in answers

(* The device refuses a request as too old only when it is: late answers and
   lost calls make its clock slow, never fast. *)
RefusedOnlyWhenOld ==
    \A l \in answers : l.resp = TooOld => now - l.time > ErequestActualSec
=============================================================================
