-------------------------------- MODULE Ftp ---------------------------------
(***************************************************************************)
(* The upload of the transponder by FTP: the lookup of the server's name   *)
(* (hostByName), the control connection with its commands and answers, the *)
(* data connection, and what upload_transponder makes of them.  TCP keeps  *)
(* the order of what the server sends; an answer may arrive whole or in    *)
(* two pieces, late or never.  The server and the name server are          *)
(* external.                                                               *)
(***************************************************************************)
EXTENDS Integers, Sequences

CONSTANTS
    None,
    Names            \* host names; "ftp" is the one of the FTP server

ASSUME FtpNamed == "ftp" \in Names

VARIABLES
    pc,              \* "rest", "lookup", "resolved" or "upload"
    step,            \* of an upload: where in Script
    phase,           \* of a step: "send" or "wait"
    name,            \* what hostByName looks up
    addr,            \* its aResult; an address is named after its host
    done,            \* WIFI_DNS_DONE_BIT
    queries,         \* lookups the name server owes an answer
    said,            \* history: what it answered the lookup that runs
    spoilt,          \* history: an answer came after its lookup, and no lookup ended since
    clean,           \* history: when this lookup began, nothing of others was left
    open,            \* the control connection
    isConnected,     \* _isConnected
    owed,            \* steps the server has not answered yet
    flying,          \* pieces of answers under way
    arrived,         \* pieces that can be read
    took,            \* history: the last answer read, and for which step
    stor,            \* history: the server has opened the file
    split,           \* history: an answer of this session came in pieces
    late,            \* history: the answer to STOR was not waited for
    result,          \* of the last upload_transponder
    antilock         \* the watchdog counts

lookups == <<name, addr, done, queries, said, spoilt, clean>>
net == <<open, owed, flying, arrived>>
session == <<net, isConnected, took, stor, split, late>>
at == <<pc, step, phase>>
vars == <<at, lookups, session, result, antilock>>

(* upload_transponder: OpenConnection, InitFile twice, NewFile, Write,
   CloseFile. *)
Script == <<"greet", "USER", "PASS", "SYST",
            "TYPE", "PASV", "data",
            "TYPE", "PASV", "data",
            "STOR", "Write", "CloseFile">>

Steps == DOMAIN Script
In(s) == pc = "upload" /\ Script[step] = s

-----------------------------------------------------------------------------
(* hostByName *)

(* dns_gethostbyname knows the address, asks the name server, or fails. *)
hostByName(n) ==
    /\ pc = "rest"
    /\ name' = n
    /\ clean' = (~spoilt /\ queries = {})
    /\ \/ /\ addr' = n /\ said' = n
          /\ pc' = "resolved"
          /\ UNCHANGED queries
       \/ /\ addr' = None /\ said' = "silence"
          /\ pc' = "lookup"
          /\ queries' = queries \cup {[of |-> n, runs |-> TRUE]}
       \/ /\ addr' = None /\ said' = None
          /\ pc' = "resolved"
          /\ UNCHANGED queries
    /\ antilock' = (n # "ftp")
    /\ took' = [step |-> 0, text |-> <<>>]
    /\ stor' = FALSE /\ split' = FALSE /\ late' = FALSE
    /\ result' = "none"
    /\ UNCHANGED <<step, phase, done, spoilt, net, isConnected>>

(* The answer, an address or nothing.  The pointer of a lookup that is over
   leads into a dead stack frame, which may be the frame of the one that
   runs. *)
wifi_dns_found_callback(q, a) ==
    /\ q \in queries
    /\ queries' = queries \ {q}
    /\ done' = TRUE
    /\ said' = IF q.runs THEN a ELSE said
    /\ spoilt' = (spoilt \/ ~q.runs)
    /\ \/ q.runs /\ addr' = a
       \/ ~q.runs /\ UNCHANGED addr
       \/ ~q.runs /\ pc = "lookup" /\ a # None /\ addr' = a
    /\ UNCHANGED <<at, name, clean, session, result, antilock>>

(* A plausible slip: the bit is left for the next lookup. *)
LookupEndsDone ==
    /\ pc = "lookup"
    /\ said' = IF done THEN said ELSE None
    /\ spoilt' = FALSE
    /\ pc' = "resolved"
    /\ queries' = {[q EXCEPT !.runs = FALSE] : q \in queries}
    /\ UNCHANGED <<step, phase, name, addr, done, clean, session, result, antilock>>

(* The bit is set; or it is not, and 4 seconds are over without an answer. *)
LookupEnds ==
    /\ pc = "lookup"
    /\ said' = IF done THEN said ELSE None
    /\ done' = FALSE
    /\ spoilt' = FALSE
    /\ pc' = "resolved"
    /\ queries' = {[q EXCEPT !.runs = FALSE] : q \in queries}
    /\ UNCHANGED <<step, phase, name, addr, clean, session, result, antilock>>

-----------------------------------------------------------------------------
(* The server *)

(* It answers its commands in order.  After a refused STOR it has nothing to
   say about the file. *)
ServerAnswers(code, pieces) ==
    /\ open /\ owed # <<>>
    /\ LET s == Head(owed)
       IN  /\ flying' = flying \o
                [i \in 1 .. pieces |->
                    [step |-> s, code |-> code,
                     part |-> IF pieces = 1 THEN "whole" ELSE IF i = 1 THEN "head" ELSE "rest"]]
           /\ stor' = (stor \/ (Script[s] = "STOR" /\ code = "good"))
    /\ owed' = Tail(owed)
    /\ split' = (split \/ pieces > 1)
    /\ UNCHANGED <<at, lookups, open, arrived, isConnected, took, late, result, antilock>>

Arrives ==
    /\ open /\ flying # <<>>
    /\ arrived' = Append(arrived, Head(flying))
    /\ flying' = Tail(flying)
    /\ UNCHANGED <<at, lookups, open, owed, isConnected, took, stor, split, late,
                   result, antilock>>

ServerCloses ==
    /\ open
    /\ open' = FALSE
    /\ owed' = <<>> /\ flying' = <<>>
    /\ UNCHANGED <<at, lookups, arrived, isConnected, took, stor, split, late,
                   result, antilock>>

-----------------------------------------------------------------------------
(* The client *)

(* upload_transponder returns; both connections end with the ftp object. *)
Return(r) ==
    /\ pc' = "rest" /\ step' = 0 /\ phase' = "send"
    /\ open' = FALSE
    /\ owed' = <<>> /\ flying' = <<>> /\ arrived' = <<>>
    /\ result' = r
    /\ antilock' = TRUE

NextStep ==
    /\ step' = step + 1 /\ phase' = "send"
    /\ UNCHANGED <<pc, result, antilock>>

(* client.connect: no address, no connection in time, or a new session. *)
Connect ==
    /\ pc = "resolved"
    /\ \/ /\ name = "ftp" /\ addr # None
          /\ pc' = "upload" /\ step' = 1 /\ phase' = "wait"
          /\ open' = TRUE
          /\ owed' = <<1>>
          /\ UNCHANGED <<flying, arrived, result, antilock>>
       \/ name = "ftp" /\ Return("error")
       \/ /\ name # "ftp"
          /\ pc' = "rest"
          /\ UNCHANGED <<step, phase, net, result, antilock>>
    /\ UNCHANGED <<lookups, isConnected, took, stor, split, late>>

(* A command is written to a connection that may be gone; then nobody gets
   it. *)
Send ==
    /\ phase = "send"
    /\ pc = "upload" /\ Script[step] \in {"USER", "PASS", "SYST", "TYPE", "PASV", "STOR"}
    /\ owed' = IF open THEN Append(owed, step) ELSE owed
    /\ phase' = "wait"
    /\ UNCHANGED <<pc, step, lookups, open, flying, arrived, isConnected, took, stor, split, late,
                   result, antilock>>

(* The character GetFTPAnswer judges: the middle of an answer may begin with
   anything. *)
Judged(text) == IF text[1].part = "rest" THEN {"good", "bad"} ELSE {text[1].code}

(* Six numbers can be found: surely in a whole answer to PASV, perhaps in a
   piece of one. *)
PasvParts(text) ==
    {text[i].part : i \in {j \in DOMAIN text :
                                text[j].code = "good" /\ Script[text[j].step] = "PASV"}}

Parses(text) ==
    IF "whole" \in PasvParts(text) \/ {"head", "rest"} \subseteq PasvParts(text) THEN {TRUE}
    ELSE IF PasvParts(text) = {} THEN {FALSE} ELSE BOOLEAN

(* What the callers make of an answer.  NewFile and CloseFile do not look at
   it; Write looks at _isConnected. *)
Verdicts(code, text) ==
    IF In("CloseFile") THEN {"end"}
    ELSE IF In("STOR") THEN {"next"}
    ELSE IF code = "bad" THEN {"fail"}
    ELSE IF In("PASV") THEN {IF b THEN "next" ELSE "fail" : b \in Parses(text)}
    ELSE {"next"}

Follow(verdict) ==
    \/ /\ verdict = "next"
       /\ NextStep
       /\ arrived' = <<>>
       /\ UNCHANGED <<open, owed, flying>>
    \/ verdict = "end" /\ Return("ok")
    \/ verdict = "fail" /\ Return("error")

(* GetFTPAnswer takes all there is for one answer ... *)
GetFTPAnswer ==
    /\ pc = "upload" /\ phase = "wait" /\ arrived # <<>>
    /\ took' = [step |-> step, text |-> arrived]
    /\ \E code \in Judged(arrived) :
          /\ isConnected' = (code = "good")
          /\ \E v \in Verdicts(code, arrived) : Follow(v)
    /\ UNCHANGED <<lookups, stor, split, late>>

(* A plausible slip: a time-out is not told to the caller. *)
TimeoutGoesOn ==
    /\ pc = "upload" /\ phase = "wait" /\ arrived = <<>>
    /\ isConnected' = TRUE
    /\ late' = (late \/ In("STOR"))
    /\ Follow(IF In("CloseFile") THEN "end" ELSE "next")
    /\ UNCHANGED <<lookups, took, stor, split>>

(* A plausible slip: an answer is waited for without a limit. *)
TimeoutNever == FALSE /\ UNCHANGED vars

(* ... or nothing came in time. *)
Timeout ==
    /\ pc = "upload" /\ phase = "wait" /\ arrived = <<>>
    /\ isConnected' = FALSE
    /\ late' = (late \/ In("STOR"))
    /\ \E v \in Verdicts("bad", <<>>) : Follow(v)
    /\ UNCHANGED <<lookups, took, stor, split>>

(* The data connection of InitFile. *)
ConnectData ==
    /\ In("data")
    /\ \/ NextStep /\ UNCHANGED net
       \/ Return("error")
    /\ UNCHANGED <<lookups, isConnected, took, stor, split, late>>

(* A plausible slip: the file is written whatever STOR was answered. *)
WriteAnyway ==
    /\ In("Write")
    /\ NextStep
    /\ UNCHANGED <<net, lookups, isConnected, took, stor, split, late>>

(* What print could send is not looked at. *)
Write ==
    /\ In("Write")
    /\ \/ isConnected /\ NextStep /\ UNCHANGED net
       \/ ~isConnected /\ Return("error")
    /\ UNCHANGED <<lookups, isConnected, took, stor, split, late>>

(* The data connection is closed; a server with an open file answers that. *)
CloseFile ==
    /\ In("CloseFile") /\ phase = "send"
    /\ phase' = "wait"
    /\ owed' = IF open /\ stor THEN Append(owed, step) ELSE owed
    /\ UNCHANGED <<pc, step, lookups, open, flying, arrived, isConnected, took, stor, split, late,
                   result, antilock>>

-----------------------------------------------------------------------------
Init ==
    /\ pc = "rest" /\ step = 0 /\ phase = "send"
    /\ name = None /\ addr = None
    /\ done = FALSE /\ queries = {}
    /\ said = None /\ spoilt = FALSE /\ clean = TRUE
    /\ open = FALSE /\ isConnected = FALSE
    /\ owed = <<>> /\ flying = <<>> /\ arrived = <<>>
    /\ took = [step |-> 0, text |-> <<>>]
    /\ stor = FALSE /\ split = FALSE /\ late = FALSE
    /\ result = "none"
    /\ antilock = TRUE

Client ==
    \/ LookupEnds \/ Connect \/ Send \/ GetFTPAnswer \/ Timeout
    \/ ConnectData \/ Write \/ CloseFile

Next ==
    \/ \E n \in Names : hostByName(n)
    \/ \E q \in queries : \E a \in {q.of, None} : wifi_dns_found_callback(q, a)
    \/ \E code \in {"good", "bad"}, pieces \in 1 .. 2 : ServerAnswers(code, pieces)
    \/ Arrives
    \/ ServerCloses
    \/ Client

(* Only the client is sure to go on: every wait of it has a time limit. *)
Spec == Init /\ [][Next]_vars /\ WF_vars(Client)

-----------------------------------------------------------------------------
(* The watchdog counts exactly when no upload runs, on every way out of it,
   and no answer outlives its session. *)
TypeOK ==
    /\ pc \in {"rest", "lookup", "resolved", "upload"}
    /\ step \in IF pc = "upload" THEN Steps ELSE {0}
    /\ name \in Names \cup {None} /\ addr \in Names \cup {None}
    /\ result \in {"none", "ok", "error"}
    /\ antilock = (pc = "rest" \/ (pc \in {"lookup", "resolved"} /\ name # "ftp"))
    /\ pc # "upload" => <<owed, flying, arrived>> = <<<<>>, <<>>, <<>>>>

(* A lookup waits for its own answer and tells what that was, or has waited
   all its time, unless an earlier lookup was given up and its answer was still
   to come or to be noticed. *)
NameFound == pc = "resolved" /\ clean => addr = said

(* The answer that is judged is the answer to the command just sent, all of
   it and nothing else, as long as the server's answers arrive whole: late
   answers are never taken for later ones.  No answer outlives its upload, and
   the watchdog is back after it (TypeOK). *)
AnswerOfCommand ==
    /\ TypeOK
    /\ ~split /\ took.step # 0 =>
         /\ Len(took.text) = 1
         /\ took.text[1].step = took.step

(* An upload that is reported as done was accepted by the server, and a
   failed one has not opened (and emptied) the file, as long as answers arrive
   whole and the answer to STOR arrived in time. *)
ResultHonest ==
    pc = "rest" /\ ~split =>
        /\ result = "ok" => stor
        /\ result = "error" /\ stor => late

(* The watchdog is off during an upload, so that nothing but its own time
   limits ends it: they do. *)
UploadEnds == (pc # "rest") ~> (pc = "rest")
=============================================================================
