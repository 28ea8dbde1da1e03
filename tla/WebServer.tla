----------------------------- MODULE WebServer ------------------------------
(***************************************************************************)
(* The web server of the lock and the requests it makes itself.  There is  *)
(* one task: loop() calls handleClient, which serves one connection at a   *)
(* time, and the poller.  A request to the remote host (client_request)    *)
(* and the wait for a firmware (loop_upload) call handleClient again while *)
(* they wait, so that requests run inside requests, on one stack, with one *)
(* _currentClient, one _currentStatus, one pconMs and one HTTP client for  *)
(* all of them.                                                            *)
(***************************************************************************)
EXTENDS Integers, Sequences, SequencesExt

CONSTANTS
    Conns,           \* connections of browsers
    None,
    Poller,          \* who asks when loop() polls the remote host
    DATA_WAIT,       \* HTTP_MAX_DATA_WAIT, in ticks
    CLOSE_WAIT,      \* HTTP_MAX_CLOSE_WAIT
    RespLimit,       \* clientRespLimit
    UploadTime,      \* how long loop_upload waits
    MaxDepth,        \* bound: requests that run inside each other
    Kinds            \* what browsers ask for

ASSUME Constants ==
    /\ None \notin Conns /\ Poller \notin Conns
    /\ {DATA_WAIT, CLOSE_WAIT, RespLimit, UploadTime} \subseteq Nat
    /\ MaxDepth \in Nat \ {0}
    /\ Kinds \cap {"none", "read"} = {}

VARIABLES
    where,           \* of a connection: "away", "queued" or "current"
    alive,           \* its browser has not hung up
    asks,            \* what it has sent and nobody has read yet
    backlog,         \* connections that wait for accept
    cur,             \* _currentClient
    status,          \* _currentStatus
    age,             \* time since _statusChange
    stack,           \* the requests that run, the innermost last
    pcon,            \* time since pconMs
    sock,            \* the connection of the HTTP client, and whether an answer is there
    upload,          \* parser->upload
    ota,             \* OTA_enabled
    got,             \* history: the answers each connection was sent
    mixed            \* history: a request has read what was meant for another

conns == <<where, alive, asks, backlog>>
http == <<pcon, sock>>
vars == <<conns, cur, status, age, stack, http, upload, ota, got, mixed>>

(* Time is counted until it is longer than the wait of the status. *)
Long(st) == 1 + (IF st = "close" THEN CLOSE_WAIT ELSE DATA_WAIT)

NoSock == [for |-> <<>>, answered |-> FALSE]

Depth == Len(stack)
top == stack[Depth]

-----------------------------------------------------------------------------
(* Browsers and network *)

(* A name is used again when nothing of its last connection is left. *)
Connect(c) ==
    /\ where[c] = "away"
    /\ \A d \in 1 .. Depth : stack[d].asker # c
    /\ where' = [where EXCEPT ![c] = "queued"]
    /\ alive' = [alive EXCEPT ![c] = TRUE]
    /\ backlog' = Append(backlog, c)
    /\ UNCHANGED <<asks, cur, status, age, stack, http, upload, ota, got, mixed>>

Ask(c, k) ==
    /\ where[c] \in {"queued", "current"}
    /\ alive[c]
    /\ asks[c] = "none"
    /\ asks' = [asks EXCEPT ![c] = k]
    /\ UNCHANGED <<where, alive, backlog, cur, status, age, stack, http, upload, ota,
                   got, mixed>>

HangUp(c) ==
    /\ where[c] \in {"queued", "current"}
    /\ alive[c]
    /\ alive' = [alive EXCEPT ![c] = FALSE]
    /\ UNCHANGED <<where, asks, backlog, cur, status, age, stack, http, upload, ota,
                   got, mixed>>

(* The remote host answers. *)
HostAnswers ==
    /\ sock.for # <<>>
    /\ ~sock.answered
    /\ sock' = [sock EXCEPT !.answered = TRUE]
    /\ UNCHANGED <<conns, cur, status, age, stack, pcon, upload, ota, got, mixed>>

(* pconMs is looked at in these two loops only. *)
Waiting == \E d \in 1 .. Depth : stack[d].at \in {"connect", "answer"}

Older(n, cap) == IF n < cap THEN n + 1 ELSE n

Tick ==
    /\ age' = IF status = "none" THEN age ELSE Older(age, Long(status))
    /\ pcon' = IF Waiting THEN Older(pcon, RespLimit + 1) ELSE pcon
    /\ stack' = [d \in 1 .. Depth |->
                    [stack[d] EXCEPT !.left = IF @ = 0 THEN 0 ELSE @ - 1]]
    /\ UNCHANGED <<conns, cur, status, sock, upload, ota, got, mixed>>

-----------------------------------------------------------------------------
(* handleClient is called from loop() and from the loops that wait. *)
Polled ==
    \A d \in 1 .. Depth : d = Depth => stack[d].at \in {"ap", "connect", "answer", "read", "loop"}

(* The connection it looks at: the current one, or the next that waits. *)
Serving(c) ==
    /\ Polled
    /\ \/ status # "none" /\ cur = c /\ UNCHANGED backlog
       \/ status = "none" /\ backlog # <<>> /\ c = Head(backlog) /\ backlog' = Tail(backlog)

Status == IF status = "none" THEN "read" ELSE status
Age == IF status = "none" THEN 0 ELSE age

Without(f, c, v) == IF c = None THEN f ELSE [f EXCEPT ![c] = v]

(* _currentClient = WiFiClient() closes the connection. *)
Drop(c) ==
    /\ cur' = None
    /\ status' = "none"
    /\ age' = 0
    /\ where' = Without(where, c, "away")
    /\ alive' = Without(alive, c, FALSE)
    /\ asks' = Without(asks, c, "none")
    /\ got' = Without(got, c, {})

(* Its handler may still be running, further down the stack. *)
GivenUp(c) ==
    /\ Drop(c)
    /\ stack' = [d \in 1 .. Depth |-> [stack[d] EXCEPT !.lost = @ \/ stack[d].asker = c]]
    /\ UNCHANGED <<http, upload, ota, mixed>>

(* The browser's end of the connection is found closed. *)
FoundClosed(c) ==
    /\ Serving(c)
    /\ ~alive[c]
    /\ GivenUp(c)

Accepted(c) ==
    /\ status = "none"
    /\ Serving(c)
    /\ asks[c] \in {"none", "read"}
    /\ cur' = c
    /\ status' = "read"
    /\ age' = 0
    /\ where' = [where EXCEPT ![c] = "current"]
    /\ UNCHANGED <<alive, asks, stack, http, upload, ota, got, mixed>>

(* A plausible slip: a browser that sends nothing is waited for. *)
WaitOverPatient(c) ==
    /\ Serving(c)
    /\ Status = "close" /\ Age > CLOSE_WAIT
    /\ GivenUp(c)

(* Nothing comes, or it has been answered and is not closed. *)
WaitOver(c) ==
    /\ Serving(c)
    /\ \/ Status = "read" /\ asks[c] \in {"none", "read"} /\ Age > DATA_WAIT
       \/ Status = "close" /\ Age > CLOSE_WAIT
    /\ GivenUp(c)

(* Whether what is written arrives, and what has arrived once the header and
   the content are sent. *)
There(to) == to # None /\ alive[to]

Sent(verdict, to) == IF There(to) THEN [got EXCEPT ![to] = @ \cup {verdict}] ELSE got

(* What the connection gets that is current when an answer is sent: its own,
   one whose asker was given up meanwhile ("late"), a page the poller was told
   to send, or any other ("stray").  Then it is waited for until it closes, if
   it is still there; whether a closed end is noticed is open. *)
Answer(verdict, to, read) ==
    \/ /\ to # None
       /\ cur' = to
       /\ status' = "close"
       /\ age' = 0
       /\ where' = [where EXCEPT ![to] = "current"]
       /\ asks' = read
       /\ got' = Sent(verdict, to)
       /\ UNCHANGED alive
    \/ /\ ~There(to)
       /\ Drop(to)

-----------------------------------------------------------------------------
(* _parseRequest and _handleRequest *)

Reads(c, k) ==
    /\ Serving(c)
    /\ Status = "read"
    /\ asks[c] = k

(* The request is read with its headers and arguments. *)
Read(c) == [asks EXCEPT ![c] = "read"]

(* The handlers that answer at once: the portal (also for what is not found),
   the icon, a login.  A command that was typed at the login and is slow runs
   like the same command of handleCmd, below. *)
Page(c) ==
    /\ Reads(c, "page")
    /\ Answer("own", c, Read(c))
    /\ UNCHANGED <<stack, http, upload, ota, mixed>>

(* While an update waits, every command is answered like that. *)
InProcess(c) ==
    /\ ota
    /\ \E k \in {"slow", "update", "upload"} : Reads(c, k)
    /\ Answer("own", c, Read(c))
    /\ UNCHANGED <<stack, http, upload, ota, mixed>>

(* A first line that is none, or a body that does not come: no answer. *)
BadRequest(c) ==
    /\ \E k \in Kinds : Reads(c, k)
    /\ GivenUp(c)

(* The command "upload": a page with a form, and then the (empty) answer. *)
UploadPage(c) ==
    /\ ~ota
    /\ Reads(c, "upload")
    /\ upload' = TRUE
    /\ Answer("own", c, Read(c))
    /\ UNCHANGED <<stack, http, ota, mixed>>

(* A key file.  _parseForm reads all of it; the handler ends the upload. *)
KeyFile(c) ==
    /\ Reads(c, "file")
    /\ upload' = FALSE
    /\ Answer("own", c, Read(c))
    /\ UNCHANGED <<stack, http, ota, mixed>>

(* upload_transponder and update run on. *)
Runs(c, at) ==
    [asker |-> c, at |-> at, todo |-> IF c = Poller THEN 3 ELSE 2, lost |-> FALSE,
     left |-> IF at = "loop" THEN UploadTime ELSE 0]

(* A plausible slip: handleClient is done with a connection when its handler
   begins. *)
StartFrees(c, at) ==
    /\ Depth < MaxDepth
    /\ stack' = Append(stack, Runs(c, at))
    /\ cur' = None
    /\ status' = "none"
    /\ age' = 0
    /\ where' = [where EXCEPT ![c] = "away"]
    /\ asks' = [asks EXCEPT ![c] = "none"]
    /\ alive' = [alive EXCEPT ![c] = FALSE]

(* _currentStatus and _statusChange stay what they are. *)
Start(c, at) ==
    /\ Depth < MaxDepth
    /\ stack' = Append(stack, Runs(c, at))
    /\ cur' = c
    /\ status' = "read"
    /\ age' = Age
    /\ where' = [where EXCEPT ![c] = "current"]
    /\ asks' = Read(c)
    /\ UNCHANGED alive

Slow(c) ==
    /\ ~ota
    /\ Reads(c, "slow")
    /\ Start(c, "ftp")
    /\ UNCHANGED <<http, upload, ota, got, mixed>>

Update(c) ==
    /\ ~ota
    /\ Reads(c, "update")
    /\ ota' = TRUE
    /\ got' = Sent("own", c)
    /\ Start(c, "loop")
    /\ UNCHANGED <<http, upload, mixed>>

(* The stack of the device is deeper than the bound: a request at the bound
   is answered without running. *)
TooDeep(c) ==
    /\ Depth = MaxDepth
    /\ ~ota
    /\ \E k \in {"slow", "update"} : Reads(c, k)
    /\ Answer("own", c, Read(c))
    /\ UNCHANGED <<stack, http, upload, ota, mixed>>

handleClient(c) ==
    \/ FoundClosed(c)
    \/ Accepted(c)
    \/ WaitOver(c)
    \/ Page(c)
    \/ InProcess(c)
    \/ BadRequest(c)
    \/ UploadPage(c)
    \/ KeyFile(c)
    \/ Slow(c)
    \/ Update(c)
    \/ TooDeep(c)

-----------------------------------------------------------------------------
(* The frames of the stack *)

At(a) == stack # <<>> /\ top.at = a

GoTo(a) == stack' = [stack EXCEPT ![Depth].at = a]

web == <<conns, cur, status, age, got>>

(* The handler returns: its answer is sent, and handleClient goes on. *)
Return ==
    /\ stack' = Front(stack)
    /\ IF top.asker = Poller
       THEN UNCHANGED <<cur, status, age, where, alive, asks, got>>
       ELSE Answer(IF top.asker = cur THEN "own" ELSE IF top.lost THEN "late" ELSE "stray", cur, asks)
    /\ UNCHANGED backlog

Then(todo, at) ==
    /\ stack' = [stack EXCEPT ![Depth].todo = todo, ![Depth].at = at]
    /\ UNCHANGED web

(* One client_request is over; set_tzone is followed by set_maxlogs.  The
   poller goes on with what it was given to do, or, when the transponder is
   not there, uploads it first and makes these two requests. *)
RequestDone ==
    \/ top.todo = 1 /\ Return
    \/ top.todo = 2 /\ Then(1, "begin")
    \/ top.todo = 3 /\ (Then(1, "process") \/ Then(2, "ftp"))

(* upload_transponder, without a call of handleClient *)
FtpDone ==
    /\ At("ftp")
    /\ \/ GoTo("begin") /\ UNCHANGED web
       \/ Return
    /\ UNCHANGED <<http, upload, ota, mixed>>

(* client_request: esp_wifi_connect reports an error, or all begins.  The link
   to the access point may come and go at any time. *)
Begin ==
    /\ At("begin")
    /\ \/ RequestDone /\ UNCHANGED pcon
       \/ (GoTo("connect") \/ GoTo("ap")) /\ pcon' = 0 /\ UNCHANGED web
    /\ UNCHANGED <<sock, upload, ota, mixed>>

(* The wait for the access point has no limit. *)
ApThere ==
    /\ At("ap")
    /\ GoTo("connect")
    /\ pcon' = 0
    /\ UNCHANGED <<web, sock, upload, ota, mixed>>

Mine == <<Depth, top.todo>>

HostConnected ==
    /\ At("connect")
    /\ sock' = [for |-> Mine, answered |-> FALSE]
    /\ GoTo("answer")
    /\ pcon' = 0
    /\ UNCHANGED <<web, upload, ota, mixed>>

(* A plausible slip: the client is not stopped when no answer comes. *)
NoAnswerOpen ==
    /\ At("answer")
    /\ ~sock.answered
    /\ pcon > RespLimit
    /\ RequestDone
    /\ UNCHANGED <<pcon, sock, upload, ota, mixed>>

NoAnswer ==
    /\ At("answer")
    /\ ~sock.answered
    /\ pcon > RespLimit
    /\ sock' = NoSock
    /\ RequestDone
    /\ UNCHANGED <<pcon, upload, ota, mixed>>

NotConnected ==
    /\ At("connect")
    /\ pcon > RespLimit
    /\ sock' = NoSock
    /\ RequestDone
    /\ UNCHANGED <<pcon, upload, ota, mixed>>

AnswerThere ==
    /\ At("answer")
    /\ sock.answered
    /\ GoTo("read")
    /\ pcon' = 0
    /\ UNCHANGED <<web, sock, upload, ota, mixed>>

(* A line is read; the last one leaves nothing. *)
ReadLine ==
    /\ At("read")
    /\ sock.answered
    /\ mixed' = (mixed \/ sock.for # Mine)
    /\ sock' = [sock EXCEPT !.answered = FALSE]
    /\ UNCHANGED <<web, stack, pcon, upload, ota>>

ReadDone ==
    /\ At("read")
    /\ ~sock.answered
    /\ sock' = NoSock
    /\ RequestDone
    /\ UNCHANGED <<pcon, upload, ota, mixed>>

(* loop_upload is over: "UPDATE FAILED". *)
LoopDone ==
    /\ At("loop")
    /\ top.left = 0
    /\ ota' = FALSE
    /\ IF top.asker = Poller THEN GoTo("begin") /\ UNCHANGED web ELSE Return
    /\ UNCHANGED <<http, upload, mixed>>

(* loop() polls the remote host while the link is there and when it is time
   again, unless keys or a firmware are awaited. *)
RequestTransponder ==
    /\ stack = <<>>
    /\ ~upload
    /\ ~ota
    /\ stack' = <<Runs(Poller, "begin")>>
    /\ UNCHANGED <<web, http, upload, ota, mixed>>

(* There is nothing to do, or a command that is carried out at once, ... *)
Processed ==
    /\ At("process")
    /\ \/ GoTo("begin") /\ UNCHANGED web
       \/ Return
    /\ UNCHANGED <<http, upload, ota, mixed>>

(* ... or one that sends a page to whoever is connected. *)
ProcessedPage ==
    /\ At("process")
    /\ got' = Sent("page", cur)
    /\ \/ GoTo("begin") /\ upload' = TRUE /\ UNCHANGED ota
       \/ stack' = [stack EXCEPT ![Depth].at = "loop", ![Depth].left = UploadTime]
          /\ ota' = TRUE /\ UNCHANGED upload
    /\ UNCHANGED <<conns, cur, status, age, http, mixed>>

Frames ==
    \/ FtpDone
    \/ Begin
    \/ HostConnected
    \/ NotConnected
    \/ AnswerThere
    \/ NoAnswer
    \/ ReadLine
    \/ ReadDone
    \/ LoopDone
    \/ Processed
    \/ ProcessedPage

(* esp_restart, by a command, a new firmware or the watchdog *)
Restart ==
    /\ where' = [c \in Conns |-> "away"]
    /\ alive' = [c \in Conns |-> FALSE]
    /\ asks' = [c \in Conns |-> "none"]
    /\ backlog' = <<>>
    /\ cur' = None
    /\ status' = "none"
    /\ age' = 0
    /\ stack' = <<>>
    /\ pcon' = 0
    /\ sock' = NoSock
    /\ upload' = FALSE
    /\ ota' = FALSE
    /\ got' = [c \in Conns |-> {}]
    /\ mixed' = FALSE

-----------------------------------------------------------------------------
Init ==
    /\ where = [c \in Conns |-> "away"]
    /\ alive = [c \in Conns |-> FALSE]
    /\ asks = [c \in Conns |-> "none"]
    /\ backlog = <<>>
    /\ cur = None
    /\ status = "none"
    /\ age = 0
    /\ stack = <<>>
    /\ pcon = 0
    /\ sock = NoSock
    /\ upload = FALSE
    /\ ota = FALSE
    /\ got = [c \in Conns |-> {}]
    /\ mixed = FALSE

Serve == \E c \in Conns : handleClient(c)

Next ==
    \/ \E c \in Conns : Connect(c)
    \/ \E c \in Conns, k \in Kinds : Ask(c, k)
    \/ \E c \in Conns : HangUp(c)
    \/ HostAnswers
    \/ Tick
    \/ Serve
    \/ Frames
    \/ ApThere
    \/ RequestTransponder
    \/ Restart

Spec == Init /\ [][Next]_vars /\ SF_vars(Serve) /\ WF_vars(Frames) /\ WF_vars(Tick)

-----------------------------------------------------------------------------
(* However requests nest, handleClient has a current connection exactly while
   its status says so, and the ones it has not accepted are in the backlog. *)
TypeOK ==
    /\ cur \in Conns \cup {None}
    /\ status \in {"none", "read", "close"}
    /\ age \in 0 .. Long(status)
    /\ pcon \in 0 .. RespLimit + 1
    /\ Depth <= MaxDepth
    /\ (status = "none") = (cur = None)
    /\ \A c \in Conns : (where[c] = "current") = (cur = c)
    /\ \A c \in Conns : (where[c] = "queued") = Contains(backlog, c)
    /\ IsInjective(backlog)

(* One connection is current, and answers go where they belong, although the
   server is entered again inside a request: an answer reaches another browser
   than the one that asked in one case only ("late"), when the asker was given
   up while its request ran; and a browser is waited for until it closes
   although its request has not been read in that same case only, as it got
   the late answer instead of its own. *)
NoStray ==
    /\ TypeOK
    /\ \A c \in Conns : "stray" \notin got[c]
    /\ status = "close" /\ alive[cur] /\ asks[cur] # "read" => "late" \in got[cur]

(* Requests to the remote host that run inside each other share one client;
   none reads the answer of another. *)
OwnReplies == ~mixed

(* A browser that connects is accepted, also while a request waits without
   limit for the access point.  (One stands for all: the specification treats
   them alike.) *)
Served ==
    LET c == CHOOSE b \in Conns : TRUE
    IN  where[c] = "queued" ~> where[c] # "queued"
=============================================================================
