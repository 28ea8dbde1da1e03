--------------------------- MODULE MCRemoteHistory ---------------------------
(***************************************************************************)
(* Remote control with two records: when the device last asked for a       *)
(* request, and which request each answer was given to, key included.      *)
(***************************************************************************)
EXTENDS MCRemoteControl

VARIABLES
    polled,      \* server time of the last poll
    given        \* requests the device dealt with, with its answer

HistoryInit == Init /\ polled = 1 /\ given = {}

HistoryNext ==
    /\ Next
    /\ polled' = IF dpc = "idle" /\ dpc' = "receive" THEN now ELSE polled
    /\ given' = IF dpc = "receive" /\ dpc' = "answer" THEN given \cup {php'[call'].line} ELSE given

HistorySpec == HistoryInit /\ [][HistoryNext]_<<vars, polled, given>>

(* While the device has a clock, a request is carried out only if it was not
   yet out of date, by the server's time, when the device asked for it: the
   check of RequestTransponder against ErequestActualSec. *)
FreshOnly ==
    [][Carried /\ localUnixtime > 0 /\ dpc' = "answer"
        => polled - Reply.time <= ErequestActualSec]_<<vars, polled, given>>

(* A guest is shown an answer that the device gave to a request with this
   guest's key: set_response names the key, and set_response_in_file looks
   for it. *)
AnswerOfTheKey == \A g \in Guests : php[g].reply # NoReply => php[g].reply \in given
=============================================================================
