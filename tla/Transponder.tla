----------------------------- MODULE Transponder -----------------------------
(***************************************************************************)
(* The mailbox between guests and the device: the script lock.php on a web *)
(* server and its log file.  Guests leave requests, the device fetches the *)
(* first unanswered one and leaves its answer beside it.                   *)
(*                                                                         *)
(* Every HTTP call is a PHP process of its own, and they run side by side. *)
(* A process reads the file without a lock, opens it with mode 'wb', which *)
(* empties it, waits for the lock and writes what it has, line by line.    *)
(* Another process can come between any two of these steps.                *)
(***************************************************************************)
EXTENDS Integers, Sequences, FiniteSets

CONSTANTS
    Guests,      \* guests in front of the form
    Calls,       \* HTTP calls of the device that may be under way
    Keys,        \* access keys guests type
    Longer,      \* Longer[k]: the keys that begin with k
    Resps,       \* answers of the device
    maxlogs,     \* lines the log file is cut to
    MaxTime,     \* bound: seconds
    MaxLines,    \* bound: lines of the file while an older text shows behind a newer one
    NoKey, NoTime, NoResp,      \* fields that a line does not have
    Header,      \* the first line of the log file
    Broken,      \* a first line that is none, or zeros up to the next line end
    NoFile, Empty, NoReply

ASSUME FileAssumption ==
    /\ maxlogs \in Nat \ {0}
    /\ MaxTime \in Nat \ {0}
    /\ MaxLines \in Nat /\ MaxLines >= maxlogs
    /\ Longer \in [Keys -> SUBSET Keys]
    /\ NoKey \notin Keys
    /\ NoTime \notin Nat
    /\ NoResp \notin Resps
    /\ Guests \cap Calls = {}

Procs == Guests \cup Calls
Time == 1 .. MaxTime

Line == [key : Keys \cup {NoKey}, time : Time \cup {NoTime}, resp : Resps \cup {NoResp}]
Entry == Line \cup {Header, Broken}

ASSUME FieldAssumption ==
    /\ \A x \in {Header, Broken, Empty, NoReply} : x \notin Line
    /\ NoFile \notin Seq(Entry)

VARIABLES
    now,         \* time() of the server
    file,        \* NoFile, or the lines of the log file
    php,         \* the processes
    asked        \* history: the requests guests made, as lines

(* pc "sent": the call is on its way; "lock": the file is open; "wait": the
   form polls for its answer.  line: the request, the answer, or the line to
   put at index ix.  lines: what is still to be written, from line pos on
   (0: behind a hole).  lost: the open file was unlinked.  next: where to go
   on after writing.  heard: the caller is still connected.  reply: what it
   got. *)
PC == {"idle", "sent", "save", "receive", "find", "replace", "open", "lock", "write",
       "check", "wait", "done"}
Op == {"transfer", "receive", "set_response", "get_unixtime"}

Process ==
    [pc : PC, op : Op, line : Line, ix : Nat, lines : Seq(Entry), pos : Nat,
     lost : BOOLEAN, next : PC, heard : BOOLEAN, reply : Line \cup {Empty, NoReply}]

Blank == [key |-> NoKey, time |-> NoTime, resp |-> NoResp]

Idle ==
    [pc |-> "idle", op |-> "transfer", line |-> Blank, ix |-> 0, lines |-> <<>>, pos |-> 0,
     lost |-> FALSE, next |-> "idle", heard |-> FALSE, reply |-> NoReply]

(* A process that has nothing more to do; one nobody listens to is gone. *)
Ended(p) ==
    IF p.heard THEN [Idle EXCEPT !.pc = "done", !.heard = TRUE, !.reply = p.reply] ELSE Idle

End(p) == php' = [php EXCEPT ![p] = Ended(@)]

-----------------------------------------------------------------------------
(* Helpers on the lines of a file. *)

Requests == 2 .. Len(file)

Lowest(S) == CHOOSE i \in S : \A j \in S : i <= j

Unanswered == {i \in Requests : file[i].resp = NoResp}

(* put_line_to_file: get_var takes everything up to the last ';', so key and
   time must both be the same, and the last line must have no answer yet. *)
Repeats(line) == Len(file) > 1 /\ file[Len(file)] = line

(* Lines 2, 4, ... go until maxlogs are left. *)
Cut(s) ==
    LET over == Len(s) - maxlogs
        k    == IF over <= 0 THEN 0 ELSE IF 2 * over <= Len(s) THEN over ELSE Len(s) \div 2
    IN  [n \in 1 .. Len(s) - k |-> IF n <= k THEN s[2 * n - 1] ELSE s[n + k]]

Whole(line) == line.key # NoKey /\ line.time # NoTime

(* The lines that are whole, behind the first one; the n-th of them has n up
   to it. *)
Kept ==
    LET whole == {i \in Requests : Whole(file[i])}
    IN  <<file[1]>> \o [n \in 1 .. Cardinality(whole) |->
            file[CHOOSE i \in whole : Cardinality({j \in whole : j <= i}) = n]]

(* What is left of a line whose beginning was overwritten. *)
Torn(line) ==
    IF line \notin Line THEN {Blank}
    ELSE {[line EXCEPT !.key = NoKey],
          [line EXCEPT !.key = NoKey, !.time = NoTime],
          Blank}

(* What may follow after l was written over line n of an older text.  The
   lines before n are the writer's own, so the same line ends where it ended
   before; another one may be longer or shorter by any amount. *)
Tails(n, l) ==
    IF n <= Len(file) /\ file[n] = l /\ (l = Header \/ (l \in Line /\ Whole(l)))
    THEN {SubSeq(file, n + 1, Len(file))}
    ELSE {<<>>} \cup {SubSeq(file, j, Len(file)) : j \in n + 1 .. Len(file)}
            \cup UNION {{<<t>> \o SubSeq(file, j + 1, Len(file)) : t \in Torn(file[j])} :
                        j \in n .. Len(file)}

-----------------------------------------------------------------------------
(* fopen(..., 'wb'): whoever is in the middle of writing goes on at its old
   offset. *)
Open(p) ==
    /\ php[p].pc = "open"
    /\ file' = <<>>
    /\ php' = [q \in Procs |->
                IF q = p THEN [php[p] EXCEPT !.pc = "lock", !.pos = 1, !.lost = FALSE]
                ELSE IF php[q].pc = "write" THEN [php[q] EXCEPT !.pos = 0]
                ELSE php[q]]
    /\ UNCHANGED <<now, asked>>

Locked == \E q \in Procs : php[q].pc = "write" /\ ~php[q].lost

(* flock before the first line, then one fwrite a line. *)
Write(p) ==
    /\ \/ php[p].pc = "lock" /\ (php[p].lost \/ ~Locked)
       \/ php[p].pc = "write"
    /\ LET n    == php[p].pos
           todo == php[p].lines
       IN  /\ \/ (php[p].lost \/ todo = <<>>) /\ UNCHANGED file
              \/ ~php[p].lost /\ todo # <<>> /\ n = 0 /\ file' = <<Broken>>
              \/ /\ ~php[p].lost /\ todo # <<>> /\ n # 0
                 /\ \E t \in Tails(n, Head(todo)) :
                        /\ n + Len(t) <= MaxLines
                        /\ file' = SubSeq(file, 1, n - 1) \o <<Head(todo)>> \o t
           /\ IF Len(todo) > 1
              THEN php' = [php EXCEPT ![p].pc = "write", ![p].lines = Tail(@),
                                      ![p].pos = IF n = 0 THEN 2 ELSE n + 1]
              ELSE IF php[p].next = "done" THEN End(p)
              ELSE php' = [php EXCEPT ![p].pc = php[p].next, ![p].lines = <<>>, ![p].pos = 0,
                                      ![p].lost = FALSE, ![p].next = "idle"]
    /\ UNCHANGED <<now, asked>>

Rewrite(p, lines, next) ==
    php' = [php EXCEPT ![p].pc = "open", ![p].lines = lines, ![p].next = next]

create_file(p) == Rewrite(p, <<Header>>, php[p].pc)

-----------------------------------------------------------------------------
(* The top of the script: an empty file, and one whose first line names no
   time zone, is unlinked. *)
Readable == file = NoFile \/ (file # <<>> /\ file[1] = Header)

(* The settings are those of the first line, or the defaults. *)
Settings == Readable \/ file = <<>>

(* With settings taken from zeros or from a request, create_file writes no
   line, and put_line_to_file fails on the empty file. *)
Begun(p) ==
    CASE p.op = "transfer" /\ Settings ->
            [p EXCEPT !.pc = "save", !.line.time = now]
      [] p.op = "transfer" /\ ~Settings ->
            [p EXCEPT !.pc = "open", !.line.time = now, !.next = "done"]
      [] p.op = "receive" /\ Settings -> [p EXCEPT !.pc = "receive"]
      [] p.op = "receive" /\ ~Settings -> Ended([p EXCEPT !.reply = Empty])
      [] p.op = "set_response" /\ Settings -> [p EXCEPT !.pc = "find"]
      [] p.op = "set_response" /\ ~Settings -> Ended(p)
      [] p.op = "get_unixtime" -> Ended([p EXCEPT !.reply = [Blank EXCEPT !.time = now]])

Run(p, request) ==
    /\ file' = IF Readable THEN file ELSE NoFile
    /\ php' = [q \in Procs |->
                IF q = p THEN Begun(request)
                ELSE IF ~Readable /\ php[q].pc \in {"lock", "write"}
                THEN [php[q] EXCEPT !.lost = TRUE]
                ELSE php[q]]
    /\ UNCHANGED now

Send(op, line) == [Idle EXCEPT !.pc = "sent", !.op = op, !.line = line, !.heard = TRUE]

(* A call of the device arrives. *)
Start(c) ==
    /\ php[c].pc = "sent"
    /\ Run(c, php[c])
    /\ UNCHANGED asked

(* A guest's key arrives, typed into the form. *)
Submit(g, k) ==
    /\ php[g].pc = "idle"
    /\ Run(g, Send("transfer", [Blank EXCEPT !.key = k]))
    /\ asked' = asked \cup {[Blank EXCEPT !.key = k, !.time = now]}

(* A call that never reaches the server. *)
Lost(c) ==
    /\ php[c].pc = "sent"
    /\ End(c)
    /\ UNCHANGED <<now, file, asked>>

(* save_request_to_file, put_line_to_file *)
put_line_to_file(p) ==
    /\ php[p].pc = "save"
    /\ IF file = NoFile THEN create_file(p)
       ELSE IF file = <<>> \/ Repeats(php[p].line) THEN End(p)
       ELSE Rewrite(p, Cut(Append(file, php[p].line)), "check")
    /\ UNCHANGED <<now, file, asked>>

check_if_file_correct(p) ==
    /\ php[p].pc = "check"
    /\ LET next == IF php[p].op = "transfer" THEN "wait" ELSE "done"
       IN  IF file \notin {NoFile, <<>>} /\ Kept # file THEN Rewrite(p, Kept, next)
           ELSE IF next = "done" THEN End(p)
           ELSE php' = [php EXCEPT ![p].pc = next]
    /\ UNCHANGED <<now, file, asked>>

(* A plausible slip: the time of the call in place of that of the request. *)
ReplyNow == [file[Lowest(Unanswered)] EXCEPT !.time = now]

FirstRequest == file[Lowest(Unanswered)]

get_request_from_file(p) ==
    /\ php[p].pc = "receive"
    /\ php' = [php EXCEPT ![p].pc = "check",
                          ![p].reply = IF ~php[p].heard THEN NoReply
                                       ELSE IF file = NoFile THEN Empty
                                       ELSE IF Unanswered = {} THEN Empty
                                       ELSE FirstRequest]
    /\ UNCHANGED <<now, file, asked>>

(* A plausible slip: the answer goes to any request that has none. *)
AddressedAny(p) == {i \in Unanswered : file[i].key # NoKey}

(* set_response_in_file: $_ukeyz is made from $$_ukey, which is no variable,
   so the second of the two key tests holds for every line with a key. *)
Addressed(p) ==
    {i \in Unanswered : file[i].key # NoKey /\ file[i].time = php[p].line.time}

set_response_in_file(p) ==
    /\ php[p].pc = "find"
    /\ IF file = NoFile THEN End(p)
       ELSE IF Addressed(p) = {} THEN End(p)
       ELSE LET i == Lowest(Addressed(p))
            IN  php' = [php EXCEPT ![p].pc = "replace", ![p].ix = i,
                                   ![p].line = [file[i] EXCEPT !.resp = php[p].line.resp]]
    /\ UNCHANGED <<now, file, asked>>

(* The file is read again; the index is the old one. *)
replace_line_in_file(p) ==
    /\ php[p].pc = "replace"
    /\ IF file = NoFile THEN create_file(p)
       ELSE IF php[p].ix > Len(file) THEN End(p)
       ELSE Rewrite(p, [file EXCEPT ![php[p].ix] = php[p].line], "done")
    /\ UNCHANGED <<now, file, asked>>

Shown(p) ==
    {i \in Requests : /\ file[i].key \in Longer[php[p].line.key]
                      /\ file[i].time = php[p].line.time}

(* One turn of the form's loop: the first line of this key and second.  After
   ten seconds it gives up. *)
get_response_from_file(p) ==
    /\ php[p].pc = "wait"
    /\ \/ End(p)
       \/ /\ file # NoFile
          /\ Shown(p) # {}
          /\ LET l == file[Lowest(Shown(p))]
             IN  l.resp # NoResp /\ php' = [php EXCEPT ![p] = Ended([@ EXCEPT !.reply = l])]
    /\ UNCHANGED <<now, file, asked>>

-----------------------------------------------------------------------------
(* The caller closes the connection; the process goes on. *)
Close(p) == IF php[p].pc = "done" THEN Idle ELSE [php[p] EXCEPT !.heard = FALSE, !.reply = NoReply]

Tick ==
    /\ now < MaxTime
    /\ now' = now + 1
    /\ UNCHANGED <<file, php, asked>>

Script(p) ==
    \/ put_line_to_file(p)
    \/ check_if_file_correct(p)
    \/ get_request_from_file(p)
    \/ set_response_in_file(p)
    \/ replace_line_in_file(p)
    \/ get_response_from_file(p)
    \/ Open(p)
    \/ Write(p)

ServerInit ==
    /\ now = 1
    /\ file = NoFile
    /\ php = [p \in Procs |-> Idle]
    /\ asked = {}

ServerNext ==
    \/ \E c \in Calls : Start(c) \/ Lost(c)
    \/ \E p \in Procs : Script(p)
    \/ \E g \in Guests, k \in Keys : Submit(g, k)
    \/ Tick
=============================================================================
