-------------------------- MODULE WebServer_proofs ---------------------------
(***************************************************************************)
(* Proofs about the web server: about module WebServer, for any number of  *)
(* browsers, any times and any depth of requests inside requests, and then *)
(* about module FormFile, for any file, form, boundary and alphabet, and   *)
(* any size of the buffer, of a key and of the store.                      *)
(***************************************************************************)
EXTENDS WebServer, FormFile, SequenceTheorems, NaturalsInduction, WellFoundedInduction, TLAPS

Step == {"ftp", "begin", "ap", "connect", "answer", "read", "process", "loop"}
Frame == [asker : Conns \cup {Poller}, at : Step, todo : 1 .. 3, lost : BOOLEAN, left : Nat]
Verdict == {"own", "late", "stray", "page"}

WebTypes ==
    /\ where \in [Conns -> {"away", "queued", "current"}]
    /\ alive \in [Conns -> BOOLEAN]
    /\ asks \in [Conns -> Kinds \cup {"none", "read"}]
    /\ backlog \in Seq(Conns)
    /\ cur \in Conns \cup {None} /\ status \in {"none", "read", "close"}
    /\ age \in 0 .. Long(status)
    /\ got \in [Conns -> SUBSET Verdict]

StackTypes == stack \in Seq(Frame) /\ Len(stack) <= MaxDepth

HostTypes ==
    /\ pcon \in 0 .. RespLimit + 1
    /\ sock = [for |-> sock.for, answered |-> sock.answered]

(* Each connection is in the place where it is said to be. *)
Listed ==
    /\ (status = "none") = (cur = None)
    /\ \A c \in Conns : (where[c] = "current") = (cur = c)
    /\ \A c \in Conns : (where[c] = "queued") = Contains(backlog, c)
    /\ IsInjective(backlog)

(* A request whose browser was not given up is the innermost one, and its
   connection is the current one and has been read.  A browser that was given
   up stays away while its request runs. *)
Running ==
    \A d \in 1 .. Depth : stack[d].asker # Poller =>
        IF stack[d].lost THEN where[stack[d].asker] = "away"
        ELSE /\ d = Depth /\ stack[d].asker = cur
             /\ status = "read" /\ asks[cur] = "read"

Waited == status = "close" /\ alive[cur] /\ asks[cur] # "read" => "late" \in got[cur]

Clean == \A c \in Conns : "stray" \notin got[c]

(* The connection to the remote host belongs to a request that waits for the
   answer or reads it, and to the innermost of these. *)
Asking == {"answer", "read"}

OwnSock ==
    /\ sock.answered => sock.for # <<>>
    /\ sock.for # <<>> =>
        \E d \in 1 .. Depth :
            /\ sock.for = <<d, stack[d].todo>> /\ stack[d].at \in Asking
            /\ \A e \in 1 .. Depth : e > d => stack[e].at \notin Asking

(* The inductive invariant, in three parts: of the connections of the browsers,
   of the requests that run, and of the connection to the remote host. *)
WebOK == WebTypes /\ Listed /\ Waited /\ Clean
StackOK == StackTypes /\ Running
HostOK == HostTypes /\ OwnSock /\ ~mixed

IInv == WebOK /\ StackOK /\ HostOK
-----------------------------------------------------------------------------
(* The stack of requests. *)

(* The innermost request goes on at another step ... *)
Advanced(a, t) ==
    /\ stack' \in Seq(Frame) /\ Len(stack') = Len(stack)
    /\ \A d \in 1 .. Len(stack) : d # Len(stack) => stack'[d] = stack[d]
    /\ LET f == stack'[Len(stack)]
       IN  f.asker = top.asker /\ f.lost = top.lost /\ f.at = a /\ f.todo = t

(* ... or is over. *)
Popped ==
    /\ stack' \in Seq(Frame) /\ Len(stack') = Len(stack) - 1
    /\ \A d \in 1 .. Len(stack') : stack'[d] = stack[d]

(* The innermost request. *)
LEMMA TopType ==
    ASSUME StackTypes, stack # <<>>
    PROVE  Len(stack) \in Nat /\ Len(stack) \in 1 .. Len(stack) /\ top = stack[Len(stack)] /\ top \in Frame
BY DEF StackTypes, top, Depth

(* A change of the innermost request. *)
LEMMA TopChanged ==
    ASSUME StackTypes, stack # <<>>, NEW f \in Frame, stack' = [stack EXCEPT ![Len(stack)] = f],
           f.asker = top.asker, f.lost = top.lost
    PROVE  Advanced(f.at, f.todo)
<1>1. Len(stack) \in Nat /\ Len(stack) \in 1 .. Len(stack) /\ stack \in Seq(Frame)
  BY TopType DEF StackTypes
<1>2. /\ stack' \in Seq(Frame) /\ Len(stack') = Len(stack) /\ stack'[Len(stack)] = f
      /\ \A d \in 1 .. Len(stack) : d # Len(stack) => stack'[d] = stack[d]
  BY <1>1
<1>3. QED
  BY <1>2 DEF Advanced

(* GoTo changes the step only. *)
LEMMA GoToAdvances ==
    ASSUME StackTypes, stack # <<>>, NEW a \in Step, GoTo(a)
    PROVE  Advanced(a, top.todo)
<1>1. PICK f : f = [top EXCEPT !.at = a]
  OBVIOUS
<1>2. f \in Frame /\ f.asker = top.asker /\ f.lost = top.lost /\ f.at = a /\ f.todo = top.todo
  BY <1>1, TopType DEF Frame
<1>3. stack' = [stack EXCEPT ![Len(stack)] = f]
  BY <1>1, TopType DEF GoTo, Depth, StackTypes
<1>4. QED
  BY <1>2, <1>3, TopChanged

(* Then changes what is left to do as well. *)
LEMMA ThenAdvances ==
    ASSUME StackTypes, stack # <<>>, NEW a \in Step, NEW t \in 1 .. 3, Then(t, a)
    PROVE  Advanced(a, t) /\ UNCHANGED web
<1>1. PICK f : f = [top EXCEPT !.todo = t, !.at = a]
  OBVIOUS
<1>2. f \in Frame /\ f.asker = top.asker /\ f.lost = top.lost /\ f.at = a /\ f.todo = t
  BY <1>1, TopType DEF Frame
<1>3. stack' = [stack EXCEPT ![Len(stack)] = f]
  BY <1>1, TopType DEF Then, Depth, StackTypes
<1>4. QED
  BY <1>2, <1>3, TopChanged DEF Then

(* The end of the innermost request. *)
LEMMA FrontPops ==
    ASSUME StackTypes, stack # <<>>, stack' = Front(stack)
    PROVE  Popped
<1>1. Len(stack) \in Nat /\ Len(stack) > 0 /\ stack \in Seq(Frame)
  BY TopType DEF StackTypes
<1>2. stack' = SubSeq(stack, 1, Len(stack) - 1)
  BY DEF Front
<1>3. Len(stack) - 1 \in Nat /\ stack' = [d \in 1 .. Len(stack) - 1 |-> stack[d]]
  BY <1>1, <1>2
<1>4. stack' \in [1 .. Len(stack) - 1 -> Frame]
  BY <1>1, <1>3
<1>5. stack' \in Seq(Frame) /\ Len(stack') = Len(stack) - 1
  BY <1>3, <1>4
<1>6. QED
  BY <1>3, <1>5 DEF Popped

(* The requests further out do not notice. *)
LEMMA AdvancedStack ==
    ASSUME IInv, stack # <<>>, NEW a, NEW t, Advanced(a, t), UNCHANGED <<where, asks, cur, status>>
    PROVE  StackOK'
<1>1. /\ StackTypes /\ Running /\ Len(stack) \in Nat /\ top = stack[Len(stack)]
  BY TopType DEF IInv, StackOK
<1>2. StackTypes'
  BY <1>1 DEF Advanced, StackTypes
<1>3. \A d \in 1 .. Len(stack) : stack'[d].asker = stack[d].asker /\ stack'[d].lost = stack[d].lost
  BY <1>1 DEF Advanced
<1>4. Len(stack') = Len(stack)
  BY DEF Advanced
<1>5. Running'
  BY <1>1, <1>3, <1>4 DEF Running, Depth
<1>6. QED
  BY <1>2, <1>5 DEF StackOK

(* Nothing the browsers see has changed. *)
LEMMA WebKept ==
    ASSUME WebOK, UNCHANGED web
    PROVE  WebOK'
<1>1. UNCHANGED <<where, alive, asks, backlog, cur, status, age, got>>
  BY DEF web, conns
<1>2. QED
  BY <1>1 DEF WebOK, WebTypes, Listed, Waited, Clean, Long
-----------------------------------------------------------------------------
(* The connection to the remote host. *)

(* It is as it was, and so are the requests, but for their times and askers. *)
LEMMA HostKept ==
    ASSUME HostOK, UNCHANGED <<sock, mixed>>, pcon' \in 0 .. RespLimit + 1,
           Len(stack') = Len(stack),
           \A d \in 1 .. Len(stack) : stack'[d].at = stack[d].at /\ stack'[d].todo = stack[d].todo
    PROVE  HostOK'
<1>1. OwnSock'
  BY DEF HostOK, OwnSock, Depth
<1>2. QED
  BY <1>1 DEF HostOK, HostTypes

(* The remote host has answered, or its answer has been read. *)
LEMMA HostAnswered ==
    ASSUME HostOK, ~mixed', sock' = [for |-> sock.for, answered |-> sock'.answered],
           sock.for # <<>>, UNCHANGED <<stack, pcon>>
    PROVE  HostOK'
<1>1. sock'.for = sock.for
  OBVIOUS
<1>2. OwnSock'
  BY <1>1 DEF HostOK, OwnSock, Depth
<1>3. QED
  BY <1>1, <1>2 DEF HostOK, HostTypes

(* A request begins; it has not asked yet. *)
LEMMA HostPushed ==
    ASSUME IInv, UNCHANGED <<http, mixed>>, NEW f \in Frame, f.at \notin Asking, stack' = Append(stack, f)
    PROVE  HostOK'
<1>1. UNCHANGED <<pcon, sock>> /\ HostOK /\ stack \in Seq(Frame)
  BY DEF http, IInv, StackOK, StackTypes
<1>2. /\ Len(stack) \in Nat /\ Len(stack') = Len(stack) + 1 /\ stack'[Len(stack) + 1] = f
      /\ \A d \in 1 .. Len(stack) : stack'[d] = stack[d]
  BY <1>1
<1>3. OwnSock'
  <2>1. ASSUME sock'.for # <<>>
        PROVE  \E d \in 1 .. Len(stack') :
                    /\ sock'.for = <<d, stack'[d].todo>> /\ stack'[d].at \in Asking
                    /\ \A e \in 1 .. Len(stack') : e > d => stack'[e].at \notin Asking
    <3>1. PICK d \in 1 .. Len(stack) :
                    /\ sock.for = <<d, stack[d].todo>> /\ stack[d].at \in Asking
                    /\ \A e \in 1 .. Len(stack) : e > d => stack[e].at \notin Asking
      BY <1>1, <2>1 DEF HostOK, OwnSock, Depth
    <3>2. d \in 1 .. Len(stack')
      BY <1>2
    <3>3. \A e \in 1 .. Len(stack') : e = Len(stack) + 1 \/ e \in 1 .. Len(stack)
      BY <1>2
    <3>4. QED
      BY <1>1, <1>2, <3>1, <3>2, <3>3
  <2>2. QED
    BY <1>1, <2>1 DEF HostOK, OwnSock, Depth
<1>4. QED
  BY <1>1, <1>3 DEF HostOK, HostTypes

(* The innermost request goes on or ends without waiting for an answer: it did
   not wait for one before, or has closed the connection. *)
LEMMA HostLeft ==
    ASSUME IInv, stack # <<>>, UNCHANGED mixed, pcon' \in 0 .. RespLimit + 1,
           Popped \/ (\E a, t : Advanced(a, t) /\ a \notin Asking),
           sock' = NoSock \/ (sock' = sock /\ top.at \notin Asking)
    PROVE  HostOK'
<1>1. HostOK /\ Len(stack) \in Nat /\ Len(stack) \in 1 .. Len(stack) /\ top = stack[Len(stack)]
  BY TopType DEF IInv, StackOK
<1>2. CASE sock' = NoSock
  <2>1. sock' = [for |-> sock'.for, answered |-> sock'.answered] /\ sock'.for = <<>> /\ ~sock'.answered
    BY <1>2 DEF NoSock
  <2>2. QED
    BY <1>1, <2>1 DEF HostOK, HostTypes, OwnSock
<1>3. CASE sock' = sock /\ top.at \notin Asking
  <2>1. /\ Len(stack') \in {Len(stack), Len(stack) - 1}
        /\ \A d \in 1 .. Len(stack) : d # Len(stack) => d \in 1 .. Len(stack') /\ stack'[d] = stack[d]
        /\ \A d \in 1 .. Len(stack') : d = Len(stack) => stack'[d].at \notin Asking
        /\ \A d \in 1 .. Len(stack') : d \in 1 .. Len(stack)
    BY <1>1 DEF Popped, Advanced
  <2>2. ASSUME sock'.for # <<>>
        PROVE  \E d \in 1 .. Len(stack') :
                    /\ sock'.for = <<d, stack'[d].todo>> /\ stack'[d].at \in Asking
                    /\ \A e \in 1 .. Len(stack') : e > d => stack'[e].at \notin Asking
    <3>1. PICK d \in 1 .. Len(stack) :
                    /\ sock.for = <<d, stack[d].todo>> /\ stack[d].at \in Asking
                    /\ \A e \in 1 .. Len(stack) : e > d => stack[e].at \notin Asking
      BY <1>1, <1>3, <2>2 DEF HostOK, OwnSock, Depth
    <3>2. d # Len(stack)
      BY <1>1, <1>3, <3>1
    <3>3. QED
      BY <1>3, <2>1, <3>1, <3>2
  <2>3. OwnSock'
    BY <1>1, <1>3, <2>2 DEF HostOK, OwnSock, Depth
  <2>4. QED
    BY <1>1, <1>3, <2>3 DEF HostOK, HostTypes
<1>4. QED
  BY <1>2, <1>3
-----------------------------------------------------------------------------
(* The connections of the browsers. *)

(* A connection c has been taken out of the backlog, or was not in it. *)
LeftBacklog(c) ==
    /\ backlog' \in Seq(Conns) /\ IsInjective(backlog')
    /\ \A b \in Conns : Contains(backlog', b) <=> b # c /\ Contains(backlog, b)

(* The times are numbers. *)
LEMMA Times ==
    /\ DATA_WAIT \in Nat /\ CLOSE_WAIT \in Nat /\ RespLimit \in Nat /\ UploadTime \in Nat
    /\ MaxDepth \in Nat /\ MaxDepth > 0
    /\ \A st : Long(st) \in Nat /\ 0 \in 0 .. Long(st)
    /\ 0 \in 0 .. RespLimit + 1
<1>1. /\ DATA_WAIT \in Nat /\ CLOSE_WAIT \in Nat /\ RespLimit \in Nat /\ UploadTime \in Nat
      /\ MaxDepth \in Nat /\ MaxDepth > 0
  BY Constants
<1>2. QED
  BY <1>1 DEF Long

(* The connection handleClient looks at. *)
LEMMA ServingFacts ==
    ASSUME WebOK, NEW c \in Conns, Serving(c)
    PROVE  /\ status # "none" => cur = c
           /\ where[c] # "away"
           /\ \A b \in Conns \ {c} : where[b] # "current"
           /\ LeftBacklog(c)
<1>1. Listed /\ WebTypes /\ None \notin Conns
  BY Constants DEF WebOK
<1>2. CASE status # "none" /\ cur = c /\ UNCHANGED backlog
  <2>1. where[c] = "current" /\ ~Contains(backlog, c) /\ \A b \in Conns \ {c} : where[b] # "current"
    BY <1>1, <1>2 DEF Listed
  <2>2. QED
    BY <1>1, <1>2, <2>1 DEF LeftBacklog, Listed, WebTypes, IsInjective
<1>3. CASE status = "none" /\ backlog # <<>> /\ c = Head(backlog) /\ backlog' = Tail(backlog)
  <2>1. cur = None /\ \A b \in Conns : where[b] # "current"
    BY <1>1, <1>3 DEF Listed
  <2>2. /\ backlog \in Seq(Conns) /\ Len(backlog) \in Nat /\ Len(backlog) > 0 /\ c = backlog[1]
        /\ backlog' \in Seq(Conns) /\ Len(backlog') = Len(backlog) - 1
        /\ \A i \in 1 .. Len(backlog) - 1 : backlog'[i] = backlog[i + 1]
    BY <1>1, <1>3 DEF WebTypes
  <2>3. \A i, j \in 1 .. Len(backlog) : backlog[i] = backlog[j] => i = j
    BY <1>1, <2>2 DEF Listed, IsInjective
  <2>4. Contains(backlog, c)
    BY <2>2 DEF Contains
  <2>5. \A b \in Conns : Contains(backlog', b) <=> b # c /\ Contains(backlog, b)
    <3> SUFFICES ASSUME NEW b \in Conns
                 PROVE  Contains(backlog', b) <=> b # c /\ Contains(backlog, b)
      OBVIOUS
    <3>1. ASSUME Contains(backlog', b)
          PROVE  b # c /\ Contains(backlog, b)
      <4>1. PICK i \in 1 .. Len(backlog') : backlog'[i] = b
        BY <3>1 DEF Contains
      <4>2. i + 1 \in 1 .. Len(backlog) /\ i + 1 # 1 /\ backlog[i + 1] = b
        BY <2>2, <4>1
      <4>3. 1 \in 1 .. Len(backlog)
        BY <2>2
      <4>4. QED
        BY <2>2, <2>3, <4>2, <4>3 DEF Contains
    <3>2. ASSUME b # c, Contains(backlog, b)
          PROVE  Contains(backlog', b)
      <4>1. PICK i \in 1 .. Len(backlog) : backlog[i] = b
        BY <3>2 DEF Contains
      <4>2. i # 1
        BY <2>2, <3>2, <4>1
      <4>3. i - 1 \in 1 .. Len(backlog') /\ backlog'[i - 1] = b
        BY <2>2, <4>1, <4>2
      <4>4. QED
        BY <4>3 DEF Contains
    <3>3. QED
      BY <3>1, <3>2
  <2>6. IsInjective(backlog')
    <3>1. ASSUME NEW i \in 1 .. Len(backlog'), NEW j \in 1 .. Len(backlog'), backlog'[i] = backlog'[j]
          PROVE  i = j
      <4>1. /\ i + 1 \in 1 .. Len(backlog) /\ j + 1 \in 1 .. Len(backlog)
            /\ backlog[i + 1] = backlog[j + 1]
        BY <2>2, <3>1
      <4>2. i + 1 = j + 1
        BY <2>3, <4>1
      <4>3. QED
        BY <2>2, <4>2
    <3>2. DOMAIN backlog' = 1 .. Len(backlog')
      BY <2>2
    <3>3. QED
      BY <3>1, <3>2 DEF IsInjective
  <2>7. where[c] # "away"
    BY <1>1, <2>4 DEF Listed
  <2>8. QED
    BY <1>3, <2>1, <2>2, <2>5, <2>6, <2>7 DEF LeftBacklog
<1>4. QED
  BY <1>2, <1>3 DEF Serving

(* When a request is read, no request runs whose browser still waits for it. *)
LEMMA NobodyWaits ==
    ASSUME IInv, NEW c \in Conns, Serving(c), asks[c] # "read"
    PROVE  \A d \in 1 .. Len(stack) : stack[d].asker = Poller \/ stack[d].lost
<1>1. status # "none" => cur = c
  BY ServingFacts DEF IInv
<1>2. QED
  BY <1>1 DEF IInv, StackOK, Running, Depth

(* The current connection is another, or none. *)
LEMMA ListedNew ==
    ASSUME WebOK, NEW c \in Conns, NEW w, where' = [where EXCEPT ![c] = w], LeftBacklog(c),
           \A b \in Conns \ {c} : where[b] # "current",
           \/ w = "current" /\ cur' = c /\ status' \in {"read", "close"}
           \/ w = "away" /\ cur' = None /\ status' = "none"
    PROVE  /\ Listed' /\ where' \in [Conns -> {"away", "queued", "current"}]
           /\ cur' \in Conns \cup {None} /\ status' \in {"none", "read", "close"}
<1>1. Listed /\ WebTypes /\ None \notin Conns
  BY Constants DEF WebOK
<1>2. /\ where' \in [Conns -> {"away", "queued", "current"}]
      /\ \A b \in Conns : where'[b] = IF b = c THEN w ELSE where[b]
  BY <1>1 DEF WebTypes
<1>3. (status' = "none") = (cur' = None)
  BY <1>1
<1>4. \A b \in Conns : (where'[b] = "current") = (cur' = b)
  BY <1>1, <1>2
<1>5. \A b \in Conns : (where'[b] = "queued") = Contains(backlog', b)
  <2>1. \A b \in Conns : (where'[b] = "queued") <=> Contains(backlog', b)
    BY <1>1, <1>2 DEF Listed, LeftBacklog
  <2>2. QED
    BY <2>1 DEF Contains
<1>6. QED
  BY <1>2, <1>3, <1>4, <1>5 DEF Listed, LeftBacklog

(* A connection is closed. *)
LEMMA DropInv ==
    ASSUME WebOK, NEW c \in Conns, Drop(c), LeftBacklog(c),
           \A b \in Conns \ {c} : where[b] # "current"
    PROVE  WebOK' /\ \A b \in Conns : where'[b] = IF b = c THEN "away" ELSE where[b]
<1>1. c # None /\ WebTypes
  BY Constants DEF WebOK
<1>2. /\ cur' = None /\ status' = "none" /\ age' = 0
      /\ where' = [where EXCEPT ![c] = "away"] /\ alive' = [alive EXCEPT ![c] = FALSE]
      /\ asks' = [asks EXCEPT ![c] = "none"] /\ got' = [got EXCEPT ![c] = {}]
  BY <1>1 DEF Drop, Without
<1>3. /\ Listed' /\ where' \in [Conns -> {"away", "queued", "current"}]
      /\ cur' \in Conns \cup {None} /\ status' \in {"none", "read", "close"}
  BY <1>2, ListedNew
<1>4. WebTypes'
  BY <1>1, <1>2, <1>3, Times DEF WebTypes, LeftBacklog, Long
<1>5. Waited' /\ Clean'
  BY <1>1, <1>2 DEF Waited, Clean, WebOK, WebTypes
<1>6. QED
  BY <1>1, <1>2, <1>3, <1>4, <1>5 DEF WebOK, WebTypes

(* An answer goes to the current connection: the asker's own, which has been
   read, or a late one. *)
LEMMA AnswerInv ==
    ASSUME WebOK, NEW to \in Conns, NEW verdict \in {"own", "late"},
           NEW read \in [Conns -> Kinds \cup {"none", "read"}], Answer(verdict, to, read),
           verdict = "late" \/ read[to] = "read",
           LeftBacklog(to), \A b \in Conns \ {to} : where[b] # "current"
    PROVE  WebOK' /\ \A b \in Conns \ {to} : where'[b] = where[b]
<1>1. to # None /\ WebTypes /\ Clean
  BY Constants DEF WebOK
<1>2. CASE /\ cur' = to /\ status' = "close" /\ age' = 0
           /\ where' = [where EXCEPT ![to] = "current"]
           /\ asks' = read /\ got' = Sent(verdict, to) /\ UNCHANGED alive
  <2>1. /\ Listed' /\ where' \in [Conns -> {"away", "queued", "current"}]
        /\ cur' \in Conns \cup {None} /\ status' \in {"none", "read", "close"}
    BY <1>2, ListedNew
  <2>2. /\ got' \in [Conns -> SUBSET Verdict]
        /\ \A b \in Conns : got'[b] = IF b = to /\ alive[to] THEN got[b] \cup {verdict} ELSE got[b]
    <3>1. verdict \in Verdict
      BY DEF Verdict
    <3>2. CASE alive[to]
      <4>1. got' = [got EXCEPT ![to] = @ \cup {verdict}]
        BY <1>1, <1>2, <3>2 DEF Sent, There
      <4>2. QED
        BY <1>1, <3>1, <3>2, <4>1 DEF WebTypes
    <3>3. CASE ~alive[to]
      BY <1>1, <1>2, <3>3 DEF Sent, There, WebTypes
    <3>4. QED
      BY <3>2, <3>3
  <2>3. WebTypes'
    BY <1>1, <1>2, <2>1, <2>2, Times DEF WebTypes, LeftBacklog, Long
  <2>4. Waited'
    BY <1>2, <2>2 DEF Waited
  <2>5. Clean'
    BY <1>1, <2>2 DEF Clean
  <2>6. QED
    BY <1>1, <1>2, <2>1, <2>3, <2>4, <2>5 DEF WebOK, WebTypes
<1>3. CASE Drop(to)
  BY <1>3, DropInv
<1>4. QED
  BY <1>2, <1>3 DEF Answer

(* A stack on which every browser's request was given up. *)
LEMMA AllLost ==
    ASSUME StackTypes',
           \A d \in 1 .. Len(stack') :
                stack'[d].asker = Poller \/ (stack'[d].lost /\ where'[stack'[d].asker] = "away")
    PROVE  StackOK'
BY DEF StackOK, Running, Depth

(* The requests of browsers that were given up stay where they are while
   another connection is answered or closed. *)
LEMMA LostStay ==
    ASSUME IInv, NEW c \in Conns, where[c] # "away", UNCHANGED stack,
           \A b \in Conns \ {c} : where'[b] = where[b],
           \A d \in 1 .. Len(stack) : stack[d].asker = Poller \/ stack[d].lost
    PROVE  StackOK'
<1>1. StackTypes /\ Running
  BY DEF IInv, StackOK
<1>2. StackTypes'
  BY <1>1 DEF StackTypes
<1>3. ASSUME NEW d \in 1 .. Len(stack), stack[d].asker # Poller
      PROVE  stack[d].lost /\ where'[stack[d].asker] = "away"
  <2>1. stack[d] \in Frame
    BY <1>1 DEF StackTypes
  <2>2. stack[d].asker \in Conns
    BY <1>3, <2>1 DEF Frame
  <2>3. where[stack[d].asker] = "away" /\ stack[d].lost
    BY <1>1, <1>3 DEF Running, Depth
  <2>4. QED
    BY <2>2, <2>3
<1>4. QED
  BY <1>2, <1>3, AllLost

(* The handler of the innermost request returns. *)
LEMMA ReturnInv ==
    ASSUME IInv, stack # <<>>, Return
    PROVE  WebOK' /\ StackOK' /\ Popped
<1>1. /\ WebOK /\ WebTypes /\ Listed /\ StackTypes /\ Running /\ None \notin Conns
      /\ Poller \notin Conns
  BY Constants DEF IInv, StackOK, WebOK
<1>2. Popped
  BY <1>1, FrontPops DEF Return
<1>3. Len(stack) \in Nat /\ Len(stack) \in 1 .. Len(stack) /\ top = stack[Len(stack)] /\ top \in Frame
  BY <1>1, TopType
<1>4. /\ stack' \in Seq(Frame) /\ Len(stack') = Len(stack) - 1
      /\ \A d \in 1 .. Len(stack') : stack'[d] = stack[d] /\ d \in 1 .. Len(stack) /\ d # Len(stack)
  BY <1>2, <1>3 DEF Popped
<1>5. StackTypes'
  BY <1>1, <1>3, <1>4, Times DEF StackTypes
<1>6. \A d \in 1 .. Len(stack') :
        stack'[d].asker = Poller
        \/ (stack'[d].lost /\ stack'[d].asker \in Conns /\ where[stack'[d].asker] = "away")
  <2> SUFFICES ASSUME NEW d \in 1 .. Len(stack'), stack'[d].asker # Poller
               PROVE  /\ stack'[d].lost /\ stack'[d].asker \in Conns
                      /\ where[stack'[d].asker] = "away"
    OBVIOUS
  <2>1. stack'[d] = stack[d] /\ d \in 1 .. Len(stack) /\ d # Len(stack) /\ stack[d] \in Frame
    BY <1>1, <1>4 DEF StackTypes
  <2>2. stack[d].asker \in Conns
    BY <2>1 DEF Frame
  <2>3. QED
    BY <1>1, <2>1, <2>2 DEF Running, Depth
<1>7. CASE top.asker = Poller
  <2>1. UNCHANGED web
    BY <1>7 DEF Return, web, conns
  <2>2. UNCHANGED where
    BY <2>1 DEF web, conns
  <2>3. StackOK'
    BY <1>5, <1>6, <2>2, AllLost
  <2>4. QED
    BY <1>1, <1>2, <2>1, <2>3, WebKept
<1>8. CASE top.asker # Poller
  <2>1. PICK v : /\ v = IF top.asker = cur THEN "own" ELSE IF top.lost THEN "late" ELSE "stray"
                 /\ Answer(v, cur, asks)
    BY <1>8 DEF Return
  <2>2. UNCHANGED backlog
    BY DEF Return
  <2>3. top.asker \in Conns
    BY <1>3, <1>8 DEF Frame
  <2>4. \/ top.lost /\ where[top.asker] = "away"
        \/ top.asker = cur /\ asks[cur] = "read"
    BY <1>1, <1>3, <1>8 DEF Running, Depth
  <2>5. CASE cur = None
    <3>1. Drop(None)
      BY <2>1, <2>5 DEF Answer
    <3>2. /\ cur' = None /\ status' = "none" /\ age' = 0
          /\ UNCHANGED <<where, alive, asks, got, backlog>>
      BY <2>2, <3>1 DEF Drop, Without
    <3>3. UNCHANGED <<cur, status>>
      BY <1>1, <2>5, <3>2 DEF Listed
    <3>4. WebOK'
      BY <1>1, <3>2, <3>3, Times DEF WebOK, WebTypes, Listed, Waited, Clean, Long
    <3>5. StackOK'
      BY <1>5, <1>6, <3>2, AllLost
    <3>6. QED
      BY <1>2, <3>4, <3>5
  <2>6. CASE cur # None
    <3>1. /\ cur \in Conns /\ where[cur] = "current" /\ asks \in [Conns -> Kinds \cup {"none", "read"}]
          /\ \A b \in Conns \ {cur} : where[b] # "current"
          /\ ~Contains(backlog, cur)
      BY <1>1, <2>6 DEF WebTypes, Listed
    <3>2. LeftBacklog(cur)
      BY <1>1, <2>2, <3>1 DEF LeftBacklog, WebTypes, Listed, IsInjective
    <3>3. v \in {"own", "late"} /\ (v = "late" \/ asks[cur] = "read")
      BY <2>1, <2>4, <3>1
    <3>4. WebOK' /\ \A b \in Conns \ {cur} : where'[b] = where[b]
      BY <1>1, <2>1, <3>1, <3>2, <3>3, AnswerInv
    <3>5. \A d \in 1 .. Len(stack') :
            stack'[d].asker = Poller \/ (stack'[d].lost /\ where'[stack'[d].asker] = "away")
      BY <1>6, <3>1, <3>4
    <3>6. QED
      BY <1>2, <1>5, <3>4, <3>5, AllLost
  <2>7. QED
    BY <2>5, <2>6
<1>9. QED
  BY <1>7, <1>8
-----------------------------------------------------------------------------
(* Browsers, network and time. *)

(* A step that leaves the requests and the remote host alone. *)
LEMMA StackKept ==
    ASSUME IInv, UNCHANGED <<stack, http, mixed>>
    PROVE  HostOK' /\ StackTypes'
<1>1. HostOK /\ StackTypes /\ UNCHANGED <<pcon, sock, mixed, stack>>
  BY DEF IInv, StackOK, http
<1>2. HostOK'
  BY <1>1, HostKept DEF HostOK, HostTypes
<1>3. QED
  BY <1>1, <1>2 DEF StackTypes

(* A browser connects under a name of which nothing is left. *)
LEMMA ConnectInv ==
    ASSUME IInv, NEW c \in Conns, Connect(c)
    PROVE  IInv'
<1>1. WebTypes /\ Listed /\ Running /\ Waited /\ Clean /\ None \notin Conns
  BY Constants DEF IInv, WebOK, StackOK
<1>2. /\ where[c] = "away" /\ where' = [where EXCEPT ![c] = "queued"]
      /\ alive' = [alive EXCEPT ![c] = TRUE] /\ backlog' = Append(backlog, c)
      /\ UNCHANGED <<asks, cur, status, age, stack, http, got, mixed>>
      /\ \A d \in 1 .. Len(stack) : stack[d].asker # c
  BY DEF Connect, Depth
<1>3. HostOK' /\ StackTypes'
  BY <1>2, StackKept
<1>4. ~Contains(backlog, c) /\ cur # c /\ backlog \in Seq(Conns)
  BY <1>1, <1>2 DEF Listed, WebTypes
<1>5. /\ backlog' \in Seq(Conns) /\ Len(backlog) \in Nat /\ Len(backlog') = Len(backlog) + 1
      /\ backlog'[Len(backlog) + 1] = c /\ \A i \in 1 .. Len(backlog) : backlog'[i] = backlog[i]
      /\ DOMAIN backlog' = 1 .. Len(backlog) + 1 /\ DOMAIN backlog = 1 .. Len(backlog)
  BY <1>2, <1>4
<1>6. \A b \in Conns : Contains(backlog', b) <=> b = c \/ Contains(backlog, b)
  <2>1. \A i \in 1 .. Len(backlog') : i = Len(backlog) + 1 \/ i \in 1 .. Len(backlog)
    BY <1>5
  <2>2. \A i \in 1 .. Len(backlog) : i \in 1 .. Len(backlog')
    BY <1>5
  <2>3. Len(backlog) + 1 \in 1 .. Len(backlog')
    BY <1>5
  <2>4. QED
    BY <1>5, <2>1, <2>2, <2>3 DEF Contains
<1>7. IsInjective(backlog')
  <2>1. \A i \in 1 .. Len(backlog) : backlog[i] # c
    BY <1>4 DEF Contains
  <2>2. \A i \in DOMAIN backlog' : i = Len(backlog) + 1 \/ i \in 1 .. Len(backlog)
    BY <1>5
  <2>3. QED
    BY <1>1, <1>5, <2>1, <2>2 DEF Listed, IsInjective
<1>8. \A b \in Conns : where'[b] = IF b = c THEN "queued" ELSE where[b]
  BY <1>1, <1>2 DEF WebTypes
<1>9. Listed'
  <2>1. \A b \in Conns : (where'[b] = "current") = (cur' = b)
    <3>1. \A b \in Conns : (where[b] = "current") <=> (cur = b)
      BY <1>1 DEF Listed
    <3>2. \A b \in Conns : (where'[b] = "current") <=> (cur' = b)
      BY <1>2, <1>4, <1>8, <3>1
    <3>3. QED
      BY <3>2
  <2>2. \A b \in Conns : (where'[b] = "queued") <=> Contains(backlog', b)
    <3>1. \A b \in Conns : (where[b] = "queued") <=> Contains(backlog, b)
      BY <1>1 DEF Listed
    <3>2. QED
      BY <1>6, <1>8, <3>1
  <2>3. \A b \in Conns : (where'[b] = "queued") = Contains(backlog', b)
    BY <2>2 DEF Contains
  <2>4. (status' = "none") = (cur' = None)
    BY <1>1, <1>2 DEF Listed
  <2>5. QED
    BY <1>7, <2>1, <2>3, <2>4 DEF Listed
<1>10. WebTypes'
  BY <1>1, <1>2, <1>5 DEF WebTypes, Long
<1>11. Waited' /\ Clean'
  <2>1. status = "close" => cur \in Conns
    BY <1>1 DEF Listed, WebTypes
  <2>2. QED
    BY <1>1, <1>2, <1>4, <2>1 DEF Waited, Clean, WebTypes
<1>12. Running'
  <2> SUFFICES ASSUME NEW d \in 1 .. Len(stack), stack[d].asker # Poller
               PROVE  IF stack[d].lost THEN where'[stack[d].asker] = "away"
                      ELSE /\ d = Len(stack) /\ stack[d].asker = cur
                           /\ status = "read" /\ asks[cur] = "read"
    BY <1>2 DEF Running, Depth
  <2>1. stack[d] \in Frame
    BY DEF IInv, StackOK, StackTypes
  <2>2. stack[d].asker \in Conns \ {c}
    BY <1>2, <2>1 DEF Frame
  <2>3. QED
    BY <1>1, <1>8, <2>2 DEF Running, Depth
<1>13. QED
  BY <1>3, <1>9, <1>10, <1>11, <1>12 DEF IInv, WebOK, StackOK

(* A browser asks, once, or hangs up. *)
LEMMA BrowserInv ==
    ASSUME IInv, NEW c \in Conns, (\E k \in Kinds : Ask(c, k)) \/ HangUp(c)
    PROVE  IInv'
<1>1. WebTypes /\ Listed /\ Running /\ Waited /\ Clean
  BY DEF IInv, WebOK, StackOK
<1>2. UNCHANGED <<where, backlog, cur, status, age, stack, http, got, mixed>>
  BY DEF Ask, HangUp
<1>3. HostOK' /\ StackTypes'
  BY <1>2, StackKept
<1>4. Listed'
  BY <1>1, <1>2 DEF Listed
<1>5. Clean'
  BY <1>1, <1>2 DEF Clean
<1>6. status = "close" => cur \in Conns
  BY <1>1, Constants DEF Listed, WebTypes
<1>7. CASE \E k \in Kinds : Ask(c, k)
  <2>1. PICK k \in Kinds : asks[c] = "none" /\ asks' = [asks EXCEPT ![c] = k] /\ UNCHANGED alive
    BY <1>7 DEF Ask
  <2>2. WebTypes'
    BY <1>1, <1>2, <2>1 DEF WebTypes, Long
  <2>3. \A b \in Conns : asks[b] = "read" => asks'[b] = "read"
    BY <1>1, <2>1 DEF WebTypes
  <2>4. asks[c] # "read"
    BY <2>1
  <2>5. \A b \in Conns : b # c => asks'[b] = asks[b]
    BY <1>1, <2>1 DEF WebTypes
  <2>6. Waited'
    BY <1>1, <1>2, <1>6, <2>1, <2>4, <2>5 DEF Waited
  <2>7. Running'
    <3> SUFFICES ASSUME NEW d \in 1 .. Len(stack), stack[d].asker # Poller
                 PROVE  IF stack[d].lost THEN where[stack[d].asker] = "away"
                        ELSE /\ d = Len(stack) /\ stack[d].asker = cur
                             /\ status = "read" /\ asks'[cur] = "read"
      BY <1>2 DEF Running, Depth
    <3>1. stack[d] \in Frame
      BY DEF IInv, StackOK, StackTypes
    <3>2. stack[d].asker \in Conns
      BY <3>1 DEF Frame
    <3>3. QED
      BY <1>1, <2>3, <3>2 DEF Running, Depth
  <2>8. QED
    BY <1>3, <1>4, <1>5, <2>2, <2>6, <2>7 DEF IInv, WebOK, StackOK
<1>8. CASE HangUp(c)
  <2>1. alive' = [alive EXCEPT ![c] = FALSE] /\ UNCHANGED asks
    BY <1>8 DEF HangUp
  <2>2. WebTypes'
    BY <1>1, <1>2, <2>1 DEF WebTypes, Long
  <2>3. Waited'
    BY <1>1, <1>2, <1>6, <2>1 DEF Waited, WebTypes
  <2>4. Running'
    BY <1>1, <1>2, <2>1 DEF Running, Depth
  <2>5. QED
    BY <1>3, <1>4, <1>5, <2>2, <2>3, <2>4 DEF IInv, WebOK, StackOK
<1>9. QED
  BY <1>7, <1>8

(* Time passes. *)
LEMMA TickInv ==
    ASSUME IInv, Tick
    PROVE  IInv'
<1>1. /\ WebTypes /\ Listed /\ Running /\ Waited /\ Clean /\ HostOK /\ stack \in Seq(Frame)
      /\ StackTypes /\ Len(stack) \in Nat
  BY DEF IInv, WebOK, StackOK, StackTypes
<1>2. UNCHANGED <<where, alive, asks, backlog, cur, status, sock, got, mixed>>
  BY DEF Tick, conns
<1>3. age' \in 0 .. Long(status)
  <2>1. Long(status) \in Nat /\ age \in 0 .. Long(status)
    BY <1>1, Times DEF WebTypes
  <2>2. age' = age \/ age' = Older(age, Long(status))
    BY DEF Tick
  <2>3. QED
    BY <2>1, <2>2 DEF Older
<1>4. pcon' \in 0 .. RespLimit + 1
  <2>1. pcon \in 0 .. RespLimit + 1 /\ RespLimit \in Nat
    BY <1>1, Times DEF HostOK, HostTypes
  <2>2. pcon' = pcon \/ pcon' = Older(pcon, RespLimit + 1)
    BY DEF Tick
  <2>3. QED
    BY <2>1, <2>2 DEF Older
<1>5. stack' = [d \in 1 .. Len(stack) |-> [stack[d] EXCEPT !.left = IF @ = 0 THEN 0 ELSE @ - 1]]
  BY DEF Tick, Depth
<1>6. \A d \in 1 .. Len(stack) :
        /\ stack'[d] \in Frame /\ stack'[d].asker = stack[d].asker /\ stack'[d].lost = stack[d].lost
        /\ stack'[d].at = stack[d].at /\ stack'[d].todo = stack[d].todo
  <2> SUFFICES ASSUME NEW d \in 1 .. Len(stack)
               PROVE  /\ stack'[d] \in Frame
                      /\ stack'[d].asker = stack[d].asker /\ stack'[d].lost = stack[d].lost
                      /\ stack'[d].at = stack[d].at /\ stack'[d].todo = stack[d].todo
    OBVIOUS
  <2>1. stack[d] \in Frame
    BY <1>1
  <2>2. PICK n : n = IF stack[d].left = 0 THEN 0 ELSE stack[d].left - 1
    OBVIOUS
  <2>3. stack[d].left \in Nat
    BY <2>1 DEF Frame
  <2>4. n \in Nat
    BY <2>2, <2>3
  <2>5. stack'[d] = [stack[d] EXCEPT !.left = n]
    BY <1>5, <2>1, <2>2 DEF Frame
  <2>6. QED
    BY <2>1, <2>4, <2>5 DEF Frame
<1>7. stack' \in Seq(Frame) /\ Len(stack') = Len(stack)
  <2>1. stack' \in [1 .. Len(stack) -> Frame]
    BY <1>5, <1>6
  <2>2. QED
    BY <1>1, <2>1
<1>8. HostOK'
  BY <1>1, <1>2, <1>4, <1>6, <1>7, HostKept
<1>9. StackOK'
  BY <1>1, <1>2, <1>6, <1>7 DEF StackOK, StackTypes, Running, Depth
<1>10. WebOK'
  BY <1>1, <1>2, <1>3 DEF WebOK, WebTypes, Listed, Waited, Clean, Long
<1>11. QED
  BY <1>8, <1>9, <1>10 DEF IInv
(* The answer of the remote host arrives. *)
LEMMA HostAnswersInv ==
    ASSUME IInv, HostAnswers
    PROVE  IInv'
<1>1. HostOK /\ WebOK /\ StackTypes /\ Running /\ sock.for # <<>>
  BY DEF IInv, StackOK, HostAnswers
<1>2. UNCHANGED <<where, asks, cur, status, stack, pcon, mixed, web>>
  BY DEF HostAnswers, web, conns
<1>3. sock = [for |-> sock.for, answered |-> sock.answered] /\ sock' = [sock EXCEPT !.answered = TRUE]
  BY <1>1 DEF HostOK, HostTypes, HostAnswers
<1>4. sock' = [for |-> sock.for, answered |-> sock'.answered]
  BY <1>3
<1>5. HostOK'
  BY <1>1, <1>2, <1>4, HostAnswered DEF HostOK
<1>6. StackOK'
  BY <1>1, <1>2 DEF StackOK, StackTypes, Running, Depth
<1>7. QED
  BY <1>1, <1>2, <1>5, <1>6, WebKept DEF IInv
-----------------------------------------------------------------------------
(* handleClient *)

(* A connection is given up; a request of its browser that runs is lost. *)
LEMMA GivenUpInv ==
    ASSUME IInv, NEW c \in Conns, Serving(c), GivenUp(c)
    PROVE  IInv'
<1>1. WebOK /\ HostOK /\ stack \in Seq(Frame) /\ Len(stack) <= MaxDepth /\ Running
  BY DEF IInv, StackOK, StackTypes
<1>2. /\ status # "none" => cur = c
      /\ \A b \in Conns \ {c} : where[b] # "current"
      /\ LeftBacklog(c)
  BY <1>1, ServingFacts
<1>3. WebOK' /\ \A b \in Conns : where'[b] = IF b = c THEN "away" ELSE where[b]
  BY <1>1, <1>2, DropInv DEF GivenUp
<1>4. UNCHANGED <<pcon, sock, mixed>>
  BY DEF GivenUp, http
<1>5. stack' = [d \in 1 .. Len(stack) |-> [stack[d] EXCEPT !.lost = @ \/ stack[d].asker = c]]
  BY DEF GivenUp, Depth
<1>6. \A d \in 1 .. Len(stack) :
        /\ stack'[d] \in Frame /\ stack'[d].asker = stack[d].asker
        /\ stack'[d].at = stack[d].at /\ stack'[d].todo = stack[d].todo
        /\ stack'[d].lost <=> stack[d].lost \/ stack[d].asker = c
  <2> SUFFICES ASSUME NEW d \in 1 .. Len(stack)
               PROVE  /\ stack'[d] \in Frame /\ stack'[d].asker = stack[d].asker
                      /\ stack'[d].at = stack[d].at /\ stack'[d].todo = stack[d].todo
                      /\ stack'[d].lost <=> stack[d].lost \/ stack[d].asker = c
    OBVIOUS
  <2>1. stack[d] \in Frame
    BY <1>1
  <2>2. PICK l \in BOOLEAN : l = (stack[d].lost \/ stack[d].asker = c)
    OBVIOUS
  <2>3. stack'[d] = [stack[d] EXCEPT !.lost = l]
    BY <1>5, <2>2
  <2>4. QED
    BY <2>1, <2>2, <2>3 DEF Frame
<1>7. stack' \in Seq(Frame) /\ Len(stack') = Len(stack)
  <2>1. stack' \in [1 .. Len(stack) -> Frame] /\ Len(stack) \in Nat
    BY <1>1, <1>5, <1>6
  <2>2. QED
    BY <2>1
<1>8. HostOK'
  <2>1. pcon' \in 0 .. RespLimit + 1
    BY <1>1, <1>4 DEF HostOK, HostTypes
  <2>2. QED
    BY <1>1, <1>4, <1>6, <1>7, <2>1, HostKept
<1>9. StackTypes'
  BY <1>1, <1>7 DEF StackTypes
<1>10. ASSUME NEW d \in 1 .. Len(stack'), stack'[d].asker # Poller
       PROVE  stack'[d].lost /\ where'[stack'[d].asker] = "away"
  <2>1. d \in 1 .. Len(stack) /\ stack[d] \in Frame /\ stack[d].asker # Poller
    BY <1>1, <1>6, <1>7, <1>10
  <2>2. stack[d].asker \in Conns
    BY <2>1 DEF Frame
  <2>3. \/ stack[d].lost /\ where[stack[d].asker] = "away"
        \/ stack[d].asker = c
    BY <1>1, <1>2, <2>1 DEF Running, Depth
  <2>4. QED
    BY <1>3, <1>6, <2>1, <2>2, <2>3
<1>11. StackOK'
  BY <1>9, <1>10, AllLost
<1>12. QED
  BY <1>3, <1>8, <1>11 DEF IInv

(* A connection is accepted and has sent nothing yet. *)
LEMMA AcceptedInv ==
    ASSUME IInv, NEW c \in Conns, Accepted(c)
    PROVE  IInv'
<1>1. WebOK /\ WebTypes /\ Clean /\ Running /\ StackTypes /\ Serving(c) /\ Listed
  BY DEF IInv, WebOK, StackOK, Accepted
<1>2. /\ where[c] # "away" /\ LeftBacklog(c)
      /\ \A b \in Conns \ {c} : where[b] # "current"
  BY <1>1, ServingFacts
<1>3. /\ status = "none" /\ cur' = c /\ status' = "read" /\ age' = 0
      /\ where' = [where EXCEPT ![c] = "current"]
      /\ UNCHANGED <<alive, asks, stack, http, got, mixed>>
  BY DEF Accepted
<1>4. /\ Listed' /\ where' \in [Conns -> {"away", "queued", "current"}]
      /\ cur' \in Conns \cup {None} /\ status' \in {"none", "read", "close"}
  BY <1>1, <1>2, <1>3, ListedNew
<1>5. WebTypes'
  BY <1>1, <1>2, <1>3, <1>4, Times DEF WebTypes, LeftBacklog, Long
<1>6. Waited' /\ Clean'
  BY <1>1, <1>3 DEF Waited, Clean
<1>7. HostOK'
  BY <1>3, StackKept
<1>8. \A d \in 1 .. Len(stack) : stack[d].asker = Poller \/ stack[d].lost
  BY <1>1, <1>3 DEF Running, Depth
<1>9. \A b \in Conns \ {c} : where'[b] = where[b]
  BY <1>1, <1>3 DEF WebTypes
<1>10. StackOK'
  BY <1>2, <1>3, <1>8, <1>9, LostStay
<1>11. QED
  BY <1>4, <1>5, <1>6, <1>7, <1>10 DEF IInv, WebOK

(* A request is read and answered at once. *)
LEMMA AnsweredInv ==
    ASSUME IInv, NEW c \in Conns, Serving(c), asks[c] \in Kinds, Answer("own", c, Read(c)),
           UNCHANGED <<stack, http, mixed>>
    PROVE  IInv'
<1>1. WebOK /\ WebTypes /\ asks[c] # "read"
  BY Constants DEF IInv, WebOK
<1>2. /\ where[c] # "away" /\ LeftBacklog(c)
      /\ \A b \in Conns \ {c} : where[b] # "current"
  BY <1>1, ServingFacts
<1>3. Read(c) \in [Conns -> Kinds \cup {"none", "read"}] /\ Read(c)[c] = "read"
  BY <1>1 DEF Read, WebTypes
<1>4. WebOK' /\ \A b \in Conns \ {c} : where'[b] = where[b]
  BY <1>1, <1>2, <1>3, AnswerInv
<1>5. \A d \in 1 .. Len(stack) : stack[d].asker = Poller \/ stack[d].lost
  BY <1>1, NobodyWaits
<1>6. StackOK'
  BY <1>2, <1>4, <1>5, LostStay
<1>7. QED
  BY <1>4, <1>6, StackKept DEF IInv
(* What a browser is sent besides the answer to its request. *)
LEMMA SentTypes ==
    ASSUME WebTypes, NEW v \in {"own", "page"}, NEW to \in Conns \cup {None}, got' = Sent(v, to)
    PROVE  /\ got' \in [Conns -> SUBSET Verdict]
           /\ \A b \in Conns : got[b] \subseteq got'[b] /\ ("stray" \in got'[b] => "stray" \in got[b])
<1>1. v \in Verdict
  BY DEF Verdict
<1>2. CASE to # None /\ alive[to]
  <2>1. to \in Conns /\ got' = [got EXCEPT ![to] = @ \cup {v}]
    BY <1>2 DEF Sent, There
  <2>2. \A b \in Conns : got'[b] = IF b = to THEN got[b] \cup {v} ELSE got[b]
    BY <2>1 DEF WebTypes
  <2>3. got' \in [Conns -> SUBSET Verdict]
    BY <1>1, <2>1 DEF WebTypes
  <2>4. QED
    BY <2>2, <2>3
<1>3. CASE ~(to # None /\ alive[to])
  BY <1>3 DEF Sent, There, WebTypes
<1>4. QED
  BY <1>2, <1>3

(* A request is read and runs on: it is the only one whose browser waits. *)
LEMMA StartInv ==
    ASSUME IInv, NEW c \in Conns, Serving(c), Status = "read", asks[c] \in Kinds,
           NEW at \in {"ftp", "loop"}, Start(c, at), got' = got \/ got' = Sent("own", c),
           UNCHANGED <<http, mixed>>
    PROVE  IInv'
<1>1. /\ WebOK /\ WebTypes /\ Listed /\ Clean /\ Running /\ stack \in Seq(Frame)
      /\ asks[c] # "read" /\ c # Poller
  BY Constants DEF IInv, WebOK, StackOK, StackTypes
<1>2. /\ where[c] # "away" /\ LeftBacklog(c)
      /\ \A b \in Conns \ {c} : where[b] # "current"
  BY <1>1, ServingFacts
<1>3. PICK f : f = Runs(c, at)
  OBVIOUS
<1>4. /\ Len(stack) < MaxDepth /\ stack' = Append(stack, f) /\ cur' = c /\ status' = "read"
      /\ age' = Age /\ where' = [where EXCEPT ![c] = "current"]
      /\ asks' = [asks EXCEPT ![c] = "read"] /\ UNCHANGED alive
  BY <1>3 DEF Start, Read, Depth
<1>5. f \in Frame /\ f.at \notin Asking /\ f.asker = c /\ f.lost = FALSE
  BY <1>1, <1>3, Times DEF Runs, Frame, Step, Asking
<1>6. /\ Listed' /\ where' \in [Conns -> {"away", "queued", "current"}]
      /\ cur' \in Conns \cup {None} /\ status' \in {"none", "read", "close"}
  BY <1>1, <1>2, <1>4, ListedNew
<1>7. got' \in [Conns -> SUBSET Verdict] /\ \A b \in Conns : "stray" \in got'[b] => "stray" \in got[b]
  <2>1. CASE got' = got
    BY <1>1, <2>1 DEF WebTypes
  <2>2. CASE got' = Sent("own", c)
    BY <1>1, <2>2, SentTypes
  <2>3. QED
    BY <2>1, <2>2
<1>8. age' \in 0 .. Long(status')
  <2>1. status # "none" => status = "read"
    BY DEF Status
  <2>2. age \in 0 .. Long(status)
    BY <1>1 DEF WebTypes
  <2>3. QED
    BY <1>4, <2>1, <2>2, Times DEF Age
<1>9. WebTypes'
  <2>1. backlog' \in Seq(Conns)
    BY <1>2 DEF LeftBacklog
  <2>2. asks' \in [Conns -> Kinds \cup {"none", "read"}] /\ alive' \in [Conns -> BOOLEAN]
    BY <1>1, <1>4 DEF WebTypes
  <2>3. QED
    BY <1>6, <1>7, <1>8, <2>1, <2>2 DEF WebTypes, Long
<1>10. Waited' /\ Clean'
  BY <1>1, <1>4, <1>7 DEF Waited, Clean
<1>11. HostOK'
  BY <1>4, <1>5, HostPushed
<1>12. /\ Len(stack) \in Nat /\ Len(stack') = Len(stack) + 1 /\ stack' \in Seq(Frame)
       /\ stack'[Len(stack) + 1] = f /\ \A d \in 1 .. Len(stack) : stack'[d] = stack[d]
  BY <1>1, <1>4, <1>5
<1>13. StackTypes'
  BY <1>4, <1>12, Times DEF StackTypes
<1>14. ASSUME NEW d \in 1 .. Len(stack'), stack'[d].asker # Poller
       PROVE  IF stack'[d].lost THEN where'[stack'[d].asker] = "away"
              ELSE /\ d = Len(stack') /\ stack'[d].asker = cur'
                   /\ status' = "read" /\ asks'[cur'] = "read"
  <2>1. CASE d = Len(stack) + 1
    <3>1. asks'[c] = "read"
      BY <1>1, <1>4 DEF WebTypes
    <3>2. QED
      BY <1>4, <1>5, <1>12, <2>1, <3>1
  <2>2. CASE d # Len(stack) + 1
    <3>1. d \in 1 .. Len(stack) /\ stack'[d] = stack[d] /\ stack[d] \in Frame
      BY <1>1, <1>12, <2>2
    <3>2. stack[d].lost
      BY <1>1, <1>14, <3>1, NobodyWaits
    <3>3. stack[d].asker \in Conns /\ where[stack[d].asker] = "away"
      BY <1>1, <1>14, <3>1, <3>2 DEF Frame, Running, Depth
    <3>4. where'[stack[d].asker] = "away"
      BY <1>1, <1>2, <1>4, <3>3 DEF WebTypes
    <3>5. QED
      BY <3>1, <3>2, <3>4
  <2>3. QED
    BY <2>1, <2>2
<1>15. StackOK'
  BY <1>13, <1>14 DEF StackOK, Running, Depth
<1>16. QED
  BY <1>6, <1>9, <1>10, <1>11, <1>15 DEF IInv, WebOK

(* Whatever handleClient finds. *)
LEMMA HandleInv ==
    ASSUME IInv, NEW c \in Conns, handleClient(c)
    PROVE  IInv'
<1>1. \A k : Reads(c, k) => /\ Serving(c) /\ Status = "read" /\ asks[c] = k
                            /\ k \notin {"none", "read"} => asks[c] \in Kinds
  BY DEF Reads, IInv, WebOK, WebTypes
<1>2. CASE FoundClosed(c) \/ WaitOver(c) \/ BadRequest(c)
  <2>1. Serving(c) /\ GivenUp(c)
    BY <1>1, <1>2 DEF FoundClosed, WaitOver, BadRequest
  <2>2. QED
    BY <2>1, GivenUpInv
<1>3. CASE Accepted(c)
  BY <1>3, AcceptedInv
<1>4. CASE Page(c) \/ InProcess(c) \/ UploadPage(c) \/ KeyFile(c) \/ TooDeep(c)
  <2>1. Serving(c) /\ asks[c] \in Kinds
    BY <1>1, <1>4 DEF Page, InProcess, UploadPage, KeyFile, TooDeep
  <2>2. Answer("own", c, Read(c)) /\ UNCHANGED <<stack, http, mixed>>
    BY <1>4 DEF Page, InProcess, UploadPage, KeyFile, TooDeep
  <2>3. QED
    BY <2>1, <2>2, AnsweredInv
<1>5. CASE Slow(c)
  <2>1. Serving(c) /\ Status = "read" /\ asks[c] \in Kinds
    BY <1>1, <1>5 DEF Slow
  <2>2. Start(c, "ftp") /\ UNCHANGED <<http, got, mixed>>
    BY <1>5 DEF Slow
  <2>3. QED
    BY <2>1, <2>2, StartInv
<1>6. CASE Update(c)
  <2>1. Serving(c) /\ Status = "read" /\ asks[c] \in Kinds
    BY <1>1, <1>6 DEF Update
  <2>2. Start(c, "loop") /\ got' = Sent("own", c) /\ UNCHANGED <<http, mixed>>
    BY <1>6 DEF Update
  <2>3. QED
    BY <2>1, <2>2, StartInv
<1>7. QED
  BY <1>2, <1>3, <1>4, <1>5, <1>6 DEF handleClient-----------------------------------------------------------------------------
(* The frames of the stack *)

(* The innermost request is over, or is somewhere where it awaits no answer. *)
GoesOn ==
    \/ Return
    \/ UNCHANGED web /\ \E a, t : Advanced(a, t) /\ a \notin Asking

(* One client_request is over. *)
LEMMA RequestOver ==
    ASSUME StackTypes, stack # <<>>, RequestDone
    PROVE  GoesOn
<1>1. {"begin", "process", "ftp"} \subseteq Step /\ {"begin", "process", "ftp"} \cap Asking = {}
  BY DEF Step, Asking
<1>2. CASE Then(1, "begin")
  BY <1>1, <1>2, ThenAdvances DEF GoesOn
<1>3. CASE Then(1, "process")
  BY <1>1, <1>3, ThenAdvances DEF GoesOn
<1>4. CASE Then(2, "ftp")
  BY <1>1, <1>4, ThenAdvances DEF GoesOn
<1>5. CASE Return
  BY <1>5 DEF GoesOn
<1>6. QED
  BY <1>2, <1>3, <1>4, <1>5 DEF RequestDone

(* So it is when the request takes another step that awaits nothing. *)
LEMMA StepOver ==
    ASSUME StackTypes, stack # <<>>, NEW a \in Step \ Asking, GoTo(a), UNCHANGED web
    PROVE  GoesOn
BY GoToAdvances DEF GoesOn

(* It leaves no connection behind that it has asked on. *)
LEMMA GoesOnInv ==
    ASSUME IInv, stack # <<>>, GoesOn, UNCHANGED mixed, pcon' \in 0 .. RespLimit + 1,
           sock' = NoSock \/ (sock' = sock /\ top.at \notin Asking)
    PROVE  IInv'
<1>1. CASE Return
  <2>1. WebOK' /\ StackOK' /\ Popped
    BY <1>1, ReturnInv
  <2>2. HostOK'
    BY <2>1, HostLeft
  <2>3. QED
    BY <2>1, <2>2 DEF IInv
<1>2. CASE UNCHANGED web /\ \E a, t : Advanced(a, t) /\ a \notin Asking
  <2>1. WebOK'
    BY <1>2, WebKept DEF IInv
  <2>2. StackOK'
    <3>1. UNCHANGED <<where, asks, cur, status>>
      BY <1>2 DEF web, conns
    <3>2. PICK a, t : Advanced(a, t)
      BY <1>2
    <3>3. QED
      BY <3>1, <3>2, AdvancedStack
  <2>3. HostOK'
    BY <1>2, HostLeft
  <2>4. QED
    BY <2>1, <2>2, <2>3 DEF IInv
<1>3. QED
  BY <1>1, <1>2 DEF GoesOn

(* The steps that await nothing from the remote host. *)
LEMMA IdleInv ==
    ASSUME IInv, FtpDone \/ Begin \/ ApThere \/ LoopDone \/ Processed
    PROVE  IInv'
<1>1. StackTypes /\ pcon \in 0 .. RespLimit + 1
  BY DEF IInv, StackOK, HostOK, HostTypes
<1>2. {"begin", "connect", "ap"} \subseteq Step \ Asking
  BY DEF Step, Asking
<1>3. stack # <<>> /\ top.at \notin Asking /\ UNCHANGED <<sock, mixed>>
  BY DEF FtpDone, Begin, ApThere, LoopDone, Processed, At, Asking, http
<1>4. pcon' \in 0 .. RespLimit + 1
  BY <1>1, Times DEF FtpDone, Begin, ApThere, LoopDone, Processed, http
<1>5. \/ Return
      \/ RequestDone
      \/ \E a \in {"begin", "connect", "ap"} : GoTo(a) /\ UNCHANGED web
  BY DEF FtpDone, Begin, ApThere, LoopDone, Processed
<1>6. GoesOn
  <2>1. CASE Return
    BY <2>1 DEF GoesOn
  <2>2. CASE RequestDone
    BY <1>1, <1>3, <2>2, RequestOver
  <2>3. CASE \E a \in {"begin", "connect", "ap"} : GoTo(a) /\ UNCHANGED web
    BY <1>1, <1>2, <1>3, <2>3, StepOver
  <2>4. QED
    BY <1>5, <2>1, <2>2, <2>3
<1>7. QED
  BY <1>3, <1>4, <1>6, GoesOnInv

(* The client is stopped: not connected, not answered, or all is read. *)
LEMMA StoppedInv ==
    ASSUME IInv, NotConnected \/ NoAnswer \/ ReadDone
    PROVE  IInv'
<1>1. StackTypes /\ pcon \in 0 .. RespLimit + 1
  BY DEF IInv, StackOK, HostOK, HostTypes
<1>2. stack # <<>> /\ sock' = NoSock /\ RequestDone /\ UNCHANGED <<pcon, mixed>>
  BY DEF NotConnected, NoAnswer, ReadDone, At
<1>3. QED
  BY <1>1, <1>2, RequestOver, GoesOnInv

(* The poller is told to send a page. *)
LEMMA PageInv ==
    ASSUME IInv, ProcessedPage
    PROVE  IInv'
<1>1. StackTypes /\ WebTypes /\ Listed /\ Waited /\ Clean /\ pcon \in 0 .. RespLimit + 1
  BY DEF IInv, WebOK, StackOK, HostOK, HostTypes
<1>2. /\ stack # <<>> /\ top.at = "process" /\ got' = Sent("page", cur)
      /\ UNCHANGED <<where, alive, asks, backlog, cur, status, age, pcon, sock, mixed>>
  BY DEF ProcessedPage, At, conns, http
<1>3. Len(stack) \in 1 .. Len(stack) /\ top = stack[Len(stack)] /\ top \in Frame
  BY <1>1, <1>2, TopType
<1>4. PICK a \in {"begin", "loop"} : Advanced(a, top.todo)
  <2>1. CASE GoTo("begin")
    BY <1>1, <1>2, <2>1, GoToAdvances DEF Step
  <2>2. CASE stack' = [stack EXCEPT ![Depth].at = "loop", ![Depth].left = UploadTime]
    <3>1. PICK f : f = [top EXCEPT !.at = "loop", !.left = UploadTime]
      OBVIOUS
    <3>2. /\ f \in Frame /\ f.asker = top.asker /\ f.lost = top.lost
          /\ f.at = "loop" /\ f.todo = top.todo
      BY <1>3, <3>1, Times DEF Frame, Step
    <3>3. stack' = [stack EXCEPT ![Len(stack)] = f]
      BY <1>1, <1>3, <2>2, <3>1 DEF Depth, StackTypes
    <3>4. QED
      BY <1>1, <1>2, <3>2, <3>3, TopChanged
  <2>3. QED
    BY <2>1, <2>2 DEF ProcessedPage
<1>5. StackOK'
  BY <1>2, <1>4, AdvancedStack
<1>6. HostOK'
  BY <1>1, <1>2, <1>4, HostLeft DEF Asking
<1>7. /\ got' \in [Conns -> SUBSET Verdict]
      /\ \A b \in Conns : got[b] \subseteq got'[b] /\ ("stray" \in got'[b] => "stray" \in got[b])
  <2>1. cur \in Conns \cup {None}
    BY <1>1 DEF WebTypes
  <2>2. QED
    BY <1>1, <1>2, <2>1, SentTypes
<1>8. WebTypes' /\ Listed'
  BY <1>1, <1>2, <1>7 DEF WebTypes, Listed, Long
<1>9. Waited' /\ Clean'
  <2>1. status = "close" => cur \in Conns
    BY <1>1 DEF Listed, WebTypes
  <2>2. QED
    BY <1>1, <1>2, <1>7, <2>1 DEF Waited, Clean
<1>10. QED
  BY <1>5, <1>6, <1>8, <1>9 DEF IInv, WebOK
(* A request asks the remote host; the connection is its own from now on,
   also when a request further out waits for an answer. *)
LEMMA HostConnectedInv ==
    ASSUME IInv, HostConnected
    PROVE  IInv'
<1>1. StackTypes /\ HostOK
  BY DEF IInv, StackOK
<1>2. stack # <<>> /\ GoTo("answer") /\ pcon' = 0 /\ UNCHANGED <<web, mixed>>
  BY DEF HostConnected, At
<1>3. Len(stack) \in 1 .. Len(stack) /\ Len(stack) \in Nat
  BY <1>1, <1>2, TopType
<1>4. Advanced("answer", top.todo)
  BY <1>1, <1>2, GoToAdvances DEF Step
<1>5. UNCHANGED <<where, asks, cur, status>>
  BY <1>2 DEF web, conns
<1>6. StackOK'
  BY <1>2, <1>4, <1>5, AdvancedStack
<1>7. sock' = [for |-> <<Len(stack), top.todo>>, answered |-> FALSE]
  BY DEF HostConnected, Mine, Depth
<1>8. /\ Len(stack') = Len(stack) /\ stack'[Len(stack)].at = "answer"
      /\ stack'[Len(stack)].todo = top.todo
  BY <1>4 DEF Advanced
<1>9. OwnSock'
  <2>1. sock'.for = <<Len(stack), stack'[Len(stack)].todo>> /\ ~sock'.answered
    BY <1>7, <1>8
  <2>2. \A e \in 1 .. Len(stack') : ~(e > Len(stack))
    BY <1>3, <1>8
  <2>3. QED
    BY <1>3, <1>8, <2>1, <2>2 DEF OwnSock, Depth, Asking
<1>10. HostTypes' /\ ~mixed'
  BY <1>1, <1>2, <1>7, Times DEF HostOK, HostTypes
<1>11. QED
  BY <1>2, <1>6, <1>9, <1>10, WebKept DEF IInv, HostOK

(* The innermost request is one that awaits an answer or reads it: the
   connection is its own. *)
LEMMA OwnConnection ==
    ASSUME IInv, stack # <<>>, top.at \in Asking, sock.answered
    PROVE  sock.for = <<Len(stack), top.todo>>
<1>1. Len(stack) \in 1 .. Len(stack) /\ Len(stack) \in Nat /\ top = stack[Len(stack)]
  BY TopType DEF IInv, StackOK
<1>2. PICK d \in 1 .. Len(stack) :
        /\ sock.for = <<d, stack[d].todo>>
        /\ \A e \in 1 .. Len(stack) : e > d => stack[e].at \notin Asking
  BY DEF IInv, HostOK, OwnSock, Depth
<1>3. d = Len(stack)
  BY <1>1, <1>2
<1>4. QED
  BY <1>1, <1>2, <1>3

(* The answer is there and is read line by line. *)
LEMMA AnswerThereInv ==
    ASSUME IInv, AnswerThere
    PROVE  IInv'
<1>1. StackTypes /\ HostOK
  BY DEF IInv, StackOK
<1>2. /\ stack # <<>> /\ top.at = "answer" /\ sock.answered /\ GoTo("read") /\ pcon' = 0
      /\ UNCHANGED <<web, sock, mixed>>
  BY DEF AnswerThere, At
<1>3. Len(stack) \in 1 .. Len(stack) /\ Len(stack) \in Nat
  BY <1>1, <1>2, TopType
<1>4. Advanced("read", top.todo)
  BY <1>1, <1>2, GoToAdvances DEF Step
<1>5. UNCHANGED <<where, asks, cur, status>>
  BY <1>2 DEF web, conns
<1>6. StackOK'
  BY <1>2, <1>4, <1>5, AdvancedStack
<1>7. sock.for = <<Len(stack), top.todo>>
  BY <1>2, OwnConnection DEF Asking
<1>8. /\ Len(stack') = Len(stack) /\ stack'[Len(stack)].at = "read"
      /\ stack'[Len(stack)].todo = top.todo
  BY <1>4 DEF Advanced
<1>9. OwnSock'
  <2>1. sock'.for = <<Len(stack), stack'[Len(stack)].todo>> /\ (sock'.answered => sock'.for # <<>>)
    BY <1>1, <1>2, <1>7, <1>8 DEF HostOK, OwnSock
  <2>2. \A e \in 1 .. Len(stack') : ~(e > Len(stack))
    BY <1>3, <1>8
  <2>3. QED
    BY <1>3, <1>8, <2>1, <2>2 DEF OwnSock, Depth, Asking
<1>10. HostTypes' /\ ~mixed'
  BY <1>1, <1>2, Times DEF HostOK, HostTypes
<1>11. QED
  BY <1>2, <1>6, <1>9, <1>10, WebKept DEF IInv, HostOK

(* What is read is the request's own. *)
LEMMA ReadLineInv ==
    ASSUME IInv, ReadLine
    PROVE  IInv'
<1>1. StackTypes /\ Running /\ WebOK /\ HostOK
  BY DEF IInv, StackOK
<1>2. /\ stack # <<>> /\ top.at = "read" /\ sock.answered
      /\ mixed' = (mixed \/ sock.for # <<Len(stack), top.todo>>)
      /\ sock' = [sock EXCEPT !.answered = FALSE] /\ UNCHANGED <<web, stack, pcon>>
  BY DEF ReadLine, At, Mine, Depth
<1>3. sock.for = <<Len(stack), top.todo>> /\ sock.for # <<>>
  BY <1>1, <1>2, OwnConnection DEF Asking, HostOK, OwnSock
<1>4. ~mixed'
  BY <1>1, <1>2, <1>3 DEF HostOK
<1>5. sock' = [for |-> sock.for, answered |-> sock'.answered]
  <2>1. sock = [for |-> sock.for, answered |-> sock.answered]
    BY <1>1 DEF HostOK, HostTypes
  <2>2. QED
    BY <1>2, <2>1
<1>6. HostOK'
  BY <1>1, <1>2, <1>3, <1>4, <1>5, HostAnswered
<1>7. UNCHANGED <<where, asks, cur, status>>
  BY <1>2 DEF web, conns
<1>8. StackOK'
  BY <1>1, <1>2, <1>7 DEF StackOK, StackTypes, Running, Depth
<1>9. QED
  BY <1>1, <1>2, <1>6, <1>8, WebKept DEF IInv

(* loop() polls: nothing runs, and so nobody has a connection to the host. *)
LEMMA PollInv ==
    ASSUME IInv, RequestTransponder
    PROVE  IInv'
<1>1. HostOK /\ WebOK /\ stack = <<>> /\ UNCHANGED <<web, pcon, sock, mixed>>
  BY DEF IInv, RequestTransponder, http
<1>2. PICK f : f = Runs(Poller, "begin")
  OBVIOUS
<1>3. f \in Frame /\ f.asker = Poller
  BY <1>2 DEF Runs, Frame, Step
<1>4. stack' = <<f>>
  BY <1>2 DEF RequestTransponder
<1>5. stack' \in Seq(Frame) /\ Len(stack') = 1 /\ stack'[1] = f
  BY <1>3, <1>4
<1>6. StackTypes'
  BY <1>5, Times DEF StackTypes
<1>7. StackOK'
  <2>1. \A d \in 1 .. Len(stack') : stack'[d].asker = Poller
    BY <1>3, <1>5
  <2>2. QED
    BY <1>6, <2>1, AllLost
<1>8. sock.for = <<>> /\ ~sock.answered
  BY <1>1 DEF HostOK, OwnSock, Depth
<1>9. HostOK'
  BY <1>1, <1>8 DEF HostOK, HostTypes, OwnSock
<1>10. QED
  BY <1>1, <1>7, <1>9, WebKept DEF IInv
-----------------------------------------------------------------------------
(* The invariant holds in the beginning. *)
LEMMA InitInv == Init => IInv
<1> SUFFICES ASSUME Init
             PROVE  IInv
  OBVIOUS
<1>1. /\ where = [c \in Conns |-> "away"] /\ alive = [c \in Conns |-> FALSE]
      /\ asks = [c \in Conns |-> "none"] /\ backlog = <<>> /\ cur = None /\ status = "none"
      /\ age = 0 /\ got = [c \in Conns |-> {}]
  BY DEF Init
<1>2. stack = <<>> /\ pcon = 0 /\ sock = NoSock /\ mixed = FALSE
  BY DEF Init
<1>3. WebTypes
  BY <1>1, Times DEF WebTypes
<1>4. Listed
  <2>1. \A c \in Conns : ~Contains(backlog, c)
    BY <1>1 DEF Contains
  <2>2. IsInjective(backlog)
    BY <1>1 DEF IsInjective
  <2>3. \A c \in Conns : where[c] = "away" /\ cur # c
    BY <1>1, Constants
  <2>4. \A c \in Conns : (where[c] = "queued") = Contains(backlog, c)
    BY <2>1, <2>3 DEF Contains
  <2>5. QED
    BY <1>1, <2>2, <2>3, <2>4 DEF Listed
<1>5. Waited /\ Clean
  BY <1>1 DEF Waited, Clean
<1>6. StackOK
  BY <1>2, Times DEF StackOK, StackTypes, Running, Depth
<1>7. HostOK
  BY <1>2, Times DEF HostOK, HostTypes, OwnSock, NoSock
<1>8. QED
  BY <1>3, <1>4, <1>5, <1>6, <1>7 DEF IInv, WebOK

(* A restart begins anew. *)
LEMMA RestartInv ==
    ASSUME Restart
    PROVE  IInv'
<1>1. /\ where' = [c \in Conns |-> "away"] /\ alive' = [c \in Conns |-> FALSE]
      /\ asks' = [c \in Conns |-> "none"] /\ backlog' = <<>> /\ cur' = None /\ status' = "none"
      /\ age' = 0 /\ got' = [c \in Conns |-> {}]
  BY DEF Restart
<1>2. stack' = <<>> /\ pcon' = 0 /\ sock' = NoSock /\ mixed' = FALSE
  BY DEF Restart
<1>3. WebTypes'
  BY <1>1, Times DEF WebTypes, Long
<1>4. Listed'
  <2>1. \A c \in Conns : ~Contains(backlog', c)
    BY <1>1 DEF Contains
  <2>2. IsInjective(backlog')
    BY <1>1 DEF IsInjective
  <2>3. \A c \in Conns : where'[c] = "away" /\ cur' # c
    BY <1>1, Constants
  <2>4. \A c \in Conns : (where'[c] = "queued") = Contains(backlog', c)
    BY <2>1, <2>3 DEF Contains
  <2>5. QED
    BY <1>1, <2>2, <2>3, <2>4 DEF Listed
<1>5. Waited' /\ Clean'
  BY <1>1 DEF Waited, Clean
<1>6. StackOK'
  BY <1>2, Times DEF StackOK, StackTypes, Running, Depth
<1>7. HostOK'
  BY <1>2, Times DEF HostOK, HostTypes, OwnSock, NoSock
<1>8. QED
  BY <1>3, <1>4, <1>5, <1>6, <1>7 DEF IInv, WebOK

(* Every step keeps it. *)
LEMMA NextInv == IInv /\ [Next]_vars => IInv'
<1> SUFFICES ASSUME IInv, [Next]_vars
             PROVE  IInv'
  OBVIOUS
<1>1. CASE \E c \in Conns : Connect(c)
  BY <1>1, ConnectInv
<1>2. CASE \E c \in Conns, k \in Kinds : Ask(c, k)
  BY <1>2, BrowserInv
<1>3. CASE \E c \in Conns : HangUp(c)
  BY <1>3, BrowserInv
<1>4. CASE HostAnswers
  BY <1>4, HostAnswersInv
<1>5. CASE Tick
  BY <1>5, TickInv
<1>6. CASE Serve
  BY <1>6, HandleInv DEF Serve
<1>7. CASE FtpDone \/ Begin \/ ApThere \/ LoopDone \/ Processed
  BY <1>7, IdleInv
<1>8. CASE NotConnected \/ NoAnswer \/ ReadDone
  BY <1>8, StoppedInv
<1>9. CASE HostConnected
  BY <1>9, HostConnectedInv
<1>10. CASE AnswerThere
  BY <1>10, AnswerThereInv
<1>11. CASE ReadLine
  BY <1>11, ReadLineInv
<1>12. CASE ProcessedPage
  BY <1>12, PageInv
<1>13. CASE RequestTransponder
  BY <1>13, PollInv
<1>14. CASE Restart
  BY <1>14, RestartInv
<1>15. CASE UNCHANGED vars
  <2>1. UNCHANGED <<web, where, asks, cur, status, stack, http, mixed>>
    BY <1>15 DEF vars, conns, web
  <2>2. WebOK' /\ HostOK' /\ StackTypes'
    BY <2>1, WebKept, StackKept DEF IInv
  <2>3. Running'
    BY <2>1 DEF IInv, StackOK, Running, Depth
  <2>4. QED
    BY <2>2, <2>3 DEF IInv, StackOK
<1>16. QED
  BY <1>1, <1>2, <1>3, <1>4, <1>5, <1>6, <1>7, <1>8, <1>9, <1>10, <1>11, <1>12, <1>13, <1>14, <1>15
     DEF Next, Frames

(* However deep requests of browsers and of the poller run inside each other,
   the one set of variables of the server and the one HTTP client belong to
   the request that uses them. *)
THEOREM WebServerInvariant == Spec => []IInv
BY InitInv, NextInv, PTL DEF Spec

(* handleClient, entered again inside a request, sends every answer to the
   browser that asked, unless that one was given up while its request ran; no
   other answer strays, and the lists of connections stay consistent. *)
THEOREM AnswersGoHome == Spec => []NoStray
<1>1. IInv => NoStray
  <2> SUFFICES ASSUME IInv
               PROVE  NoStray
    OBVIOUS
  <2>1. /\ WebTypes /\ Listed /\ Waited /\ Clean /\ Len(stack) <= MaxDepth
        /\ pcon \in 0 .. RespLimit + 1
    BY DEF IInv, WebOK, StackOK, StackTypes, HostOK, HostTypes
  <2>2. TypeOK
    BY <2>1 DEF TypeOK, WebTypes, Listed, Depth
  <2>3. QED
    BY <2>1, <2>2 DEF NoStray, Waited, Clean
<1>2. QED
  BY <1>1, WebServerInvariant, PTL

(* A request that runs inside another uses the same HTTP client, and yet each
   reads only the answer it asked for. *)
THEOREM RequestsReadTheirOwn == Spec => []OwnReplies
<1>1. IInv => OwnReplies
  BY DEF IInv, HostOK, OwnReplies
<1>2. QED
  BY <1>1, WebServerInvariant, PTL

-----------------------------------------------------------------------------
(* The upload of a key file: module FormFile *)

Keys == Seq(Alphabet)

(* What scanForKeys knows after each character, and what is written after each
   byte. *)
ScanStates(keys, s) ==
    LET st[i \in 0 .. Len(s)] ==
            IF i = 0 THEN [keys |-> keys, word |-> <<>>, error |-> FALSE]
            ELSE ScanChar(st[i - 1], s[i])
    IN  st

WriteStates(u, bytes) ==
    LET w[i \in 0 .. Len(bytes)] ==
            IF i = 0 THEN u ELSE _uploadWriteByte(w[i - 1], bytes[i])
    IN  w

(* A word of a buffer: i bytes before, e bytes up to its end. *)
WordAt(s, i, e) ==
    /\ i < e
    /\ i = 0 \/ s[i] \in Separators
    /\ s[e + 1] \in Separators
    /\ \A j \in i + 1 .. e : s[j] \notin Separators

(* k is a word that ends within the first n bytes of s. *)
WordWithin(s, n, k) ==
    \E i, e \in 0 .. n - 1 : WordAt(s, i, e) /\ k = Cut(SubSeq(s, i + 1, e))

(* The last b bytes of the first n have no separator and are all of a word
   so far. *)
Begun(s, n, b) ==
    /\ b = 0 \/ s[b] \in Separators
    /\ \A j \in b + 1 .. n : s[j] \notin Separators

Stopped(st) == st.error \/ Len(st.keys) >= MAX_KEYS

ScanState == [keys : Seq(Keys), word : Keys, error : BOOLEAN]

(* After n bytes scanForKeys has added words that end within them, all of them
   unless it has stopped, and word is what has begun since. *)
ScanOK(keys, s, n, st) ==
    /\ st \in ScanState
    /\ Len(keys) <= Len(st.keys) /\ Len(st.keys) <= MAX_KEYS
    /\ \A k \in ToSet(st.keys) : k \in ToSet(keys) \/ WordWithin(s, n, k)
    /\ ~Stopped(st) =>
         /\ \A k : k \in ToSet(keys) \/ WordWithin(s, n, k) => k \in ToSet(st.keys)
         /\ \E b \in 0 .. n : Begun(s, n, b) /\ st.word = SubSeq(s, b + 1, n)

UpState == [buf : Seq(Alphabet), keys : Seq(Keys), before : Seq(Keys),
            handed : Seq(Alphabet), refused : BOOLEAN]

(* The store has got words of what was handed over and nothing else; all of
   them, unless one was refused or the store is full. *)
KeysOK(u) ==
    /\ \A k \in ToSet(u.keys) : k \in ToSet(u.before) \/ k \in Words(u.handed)
    /\ ~u.refused /\ Len(u.keys) < MAX_KEYS =>
         \A k \in ToSet(u.before) \cup Words(u.handed) : k \in ToSet(u.keys)

UpOK(u) == u \in UpState /\ Len(u.buf) <= BUFLEN /\ Len(u.keys) <= MAX_KEYS /\ KeysOK(u)

(* While a file is read, only whole buffers have been handed over. *)
Whole(u) == Place(Len(u.handed)) = 0

(* A file part lies behind. *)
FileBehind == \E i \in 1 .. part - 1 : form[i] = "file"

(* The file has something like a delimiter close to its end. *)
LookAlike ==
    \E i \in Len(file) - Len(Delimiter) .. Len(file) :
        i >= 0 /\ IsAt(file, <<CR, LF, DASH, DASH>>, i)

(* Where the parser is in the form. *)
PartsOK ==
    /\ form \in Forms /\ file \in Files
    /\ pc \in {"start", "part", "file"} \cup Ended
    /\ part \in 1 .. Len(form) + 1
    /\ garbled \in BOOLEAN
    /\ pc = "start" => part = 1
    /\ pc = "file" => part <= Len(form) /\ form[part] = "file"
    /\ pc = "done" => part = Len(form) + 1

(* Where it is in the file: what it has read it has written, and the file that
   lies behind was handed over. *)
BytesOK ==
    /\ pos \in 0 .. Len(stream)
    /\ UpOK(up)
    /\ pc = "file" => Whole(up)
    /\ pc = "file" /\ ~garbled => up.handed \o up.buf = SubSeq(stream, 1, pos)
    /\ pc \in {"part", "done"} /\ ~garbled /\ FileBehind => up.handed = file

FormInv == PartsOK /\ EndMissed /\ BytesOK /\ DelimiterSeen

-----------------------------------------------------------------------------
(* A set of natural numbers that is not empty has a least element. *)
LEMMA LeastOf ==
    ASSUME NEW S, S \subseteq Nat, S # {}
    PROVE  \E i \in S : \A j \in S : i <= j
<1> DEFINE R == OpToRel(<, Nat)
<1>1. IsWellFoundedOn(R, Nat)
  BY NatLessThanWellFounded
<1>2. \A x, y \in Nat : x < y => <<x, y>> \in R
  BY DEF OpToRel
<1> HIDE DEF R
<1>3. PICK x \in S : \A y \in S : ~(<<y, x>> \in R)
  BY <1>1, WFMin
<1>4. \A y \in S : ~(y < x)
  BY <1>2, <1>3
<1>5. \A y \in S : x <= y
  BY <1>4
<1>6. QED
  BY <1>5

(* Induction: a set of numbers that holds 0 and with each number below n the
   next one holds all up to n. *)
LEMMA UpTo ==
    ASSUME NEW n \in Nat, NEW S, 0 \in S, \A i \in 0 .. n - 1 : i \in S => i + 1 \in S
    PROVE  \A i \in 0 .. n : i \in S
<1> DEFINE T == {i \in 0 .. n : i \notin S}
<1> SUFFICES ASSUME T # {} PROVE FALSE
  OBVIOUS
<1>1. PICK m \in T : \A j \in T : m <= j
  <2>1. T \subseteq Nat
    OBVIOUS
  <2> HIDE DEF T
  <2>2. QED
    BY <2>1, LeastOf
<1>2. m # 0 /\ m \in 1 .. n
  OBVIOUS
<1>3. m - 1 \in 0 .. n - 1 /\ m - 1 \in S
  BY <1>1, <1>2
<1>4. QED
  BY <1>1, <1>2, <1>3

(* scanForKeys goes through the buffer character by character. *)
LEMMA ScanSteps ==
    ASSUME NEW keys, NEW s \in Seq(Alphabet)
    PROVE  /\ ScanStates(keys, s)[0] = [keys |-> keys, word |-> <<>>, error |-> FALSE]
           /\ \A i \in 1 .. Len(s) :
                ScanStates(keys, s)[i] = ScanChar(ScanStates(keys, s)[i - 1], s[i])
           /\ scanForKeys(keys, s) = ScanStates(keys, s)[Len(s)]
<1> DEFINE b == [keys |-> keys, word |-> <<>>, error |-> FALSE]
           Val(g, i) == IF i = 0 THEN b ELSE ScanChar(g[i - 1], s[i])
           S == {n \in Nat : \E g : g = [i \in 0 .. n |-> Val(g, i)]}
<1>1. 0 \in S
  <2> DEFINE g == [i \in 0 .. 0 |-> b]
  <2>1. g = [i \in 0 .. 0 |-> Val(g, i)]
    OBVIOUS
  <2>2. QED
    BY <2>1
<1>2. ASSUME NEW n \in Nat, n \in S
      PROVE  n + 1 \in S
  <2>1. PICK g : g = [i \in 0 .. n |-> Val(g, i)]
    BY <1>2
  <2>2. \A i \in 0 .. n : g[i] = Val(g, i)
    BY <2>1, Zenon
  <2> DEFINE h == [i \in 0 .. n + 1 |-> IF i = n + 1 THEN ScanChar(g[n], s[n + 1]) ELSE g[i]]
  <2>3. \A i \in 0 .. n : h[i] = g[i]
    OBVIOUS
  <2>4. ASSUME NEW i \in 0 .. n + 1
        PROVE  h[i] = Val(h, i)
    <3>1. CASE i = 0
      BY <2>1, <2>3, <3>1
    <3>2. CASE i \in 1 .. n
      <4>1. h[i] = g[i] /\ h[i - 1] = g[i - 1]
        BY <2>3, <3>2
      <4>2. g[i] = Val(g, i)
        BY <2>2, <3>2
      <4>3. QED
        BY <3>2, <4>1, <4>2
    <3>3. CASE i = n + 1
      <4>1. h[i] = ScanChar(g[n], s[n + 1]) /\ h[n] = g[n]
        BY <2>3, <3>3
      <4>2. i # 0 /\ i - 1 = n
        BY <3>3
      <4>3. QED
        BY <3>3, <4>1, <4>2
    <3>4. QED
      BY <3>1, <3>2, <3>3
  <2>5. h = [i \in 0 .. n + 1 |-> h[i]]
    OBVIOUS
  <2>6. h = [i \in 0 .. n + 1 |-> Val(h, i)]
    BY <2>4, <2>5
  <2>7. \E f : f = [i \in 0 .. n + 1 |-> Val(f, i)]
    BY <2>6
  <2>8. n + 1 \in Nat
    OBVIOUS
  <2>9. QED
    BY <2>7, <2>8, Zenon
<1>3. Len(s) \in S
  <2>1. Len(s) \in Nat
    OBVIOUS
  <2>2. \A i \in 0 .. Len(s) - 1 : i \in S => i + 1 \in S
    BY <1>2
  <2> HIDE DEF S
  <2>3. \A i \in 0 .. Len(s) : i \in S
    BY <1>1, <2>1, <2>2, UpTo
  <2>4. QED
    BY <2>1, <2>3
<1>4. PICK g : g = [i \in 0 .. Len(s) |-> Val(g, i)]
  BY <1>3
<1> DEFINE st == ScanStates(keys, s)
<1>5. st = [i \in 0 .. Len(s) |-> Val(st, i)]
  BY <1>4 DEF ScanStates
<1>6. scanForKeys(keys, s) = st[Len(s)]
  BY DEF scanForKeys, ScanStates
<1>7. QED
  <2> HIDE DEF st
  <2>1. Len(s) \in Nat
    OBVIOUS
  <2>2. st[0] = b
    BY <1>5, <2>1
  <2>3. ASSUME NEW i \in 1 .. Len(s)
        PROVE  st[i] = ScanChar(st[i - 1], s[i])
    <3>1. i \in 0 .. Len(s) /\ i # 0
      BY <2>1
    <3>2. st[i] = Val(st, i)
      BY <1>5, <3>1, Zenon
    <3>3. QED
      BY <3>1, <3>2
  <2>4. QED
    BY <1>6, <2>2, <2>3 DEF st

(* _uploadWriteByte is called for one byte after the other. *)
LEMMA WriteSteps ==
    ASSUME NEW u, NEW s \in Seq(Alphabet)
    PROVE  /\ WriteStates(u, s)[0] = u
           /\ \A i \in 1 .. Len(s) :
                WriteStates(u, s)[i] = _uploadWriteByte(WriteStates(u, s)[i - 1], s[i])
           /\ Written(u, s) = WriteStates(u, s)[Len(s)]
<1> DEFINE Val(g, i) == IF i = 0 THEN u ELSE _uploadWriteByte(g[i - 1], s[i])
           S == {n \in Nat : \E g : g = [i \in 0 .. n |-> Val(g, i)]}
<1>1. 0 \in S
  <2> DEFINE g == [i \in 0 .. 0 |-> u]
  <2>1. g = [i \in 0 .. 0 |-> Val(g, i)]
    OBVIOUS
  <2>2. QED
    BY <2>1
<1>2. ASSUME NEW n \in Nat, n \in S
      PROVE  n + 1 \in S
  <2>1. PICK g : g = [i \in 0 .. n |-> Val(g, i)]
    BY <1>2
  <2>2. \A i \in 0 .. n : g[i] = Val(g, i)
    BY <2>1, Zenon
  <2> DEFINE h == [i \in 0 .. n + 1 |-> IF i = n + 1 THEN _uploadWriteByte(g[n], s[n + 1]) ELSE g[i]]
  <2>3. \A i \in 0 .. n : h[i] = g[i]
    OBVIOUS
  <2>4. ASSUME NEW i \in 0 .. n + 1
        PROVE  h[i] = Val(h, i)
    <3>1. CASE i = 0
      BY <2>1, <2>3, <3>1
    <3>2. CASE i \in 1 .. n
      <4>1. h[i] = g[i] /\ h[i - 1] = g[i - 1]
        BY <2>3, <3>2
      <4>2. g[i] = Val(g, i)
        BY <2>2, <3>2
      <4>3. QED
        BY <3>2, <4>1, <4>2
    <3>3. CASE i = n + 1
      <4>1. h[i] = _uploadWriteByte(g[n], s[n + 1]) /\ h[n] = g[n]
        BY <2>3, <3>3
      <4>2. i # 0 /\ i - 1 = n
        BY <3>3
      <4>3. QED
        BY <3>3, <4>1, <4>2
    <3>4. QED
      BY <3>1, <3>2, <3>3
  <2>5. h = [i \in 0 .. n + 1 |-> h[i]]
    OBVIOUS
  <2>6. h = [i \in 0 .. n + 1 |-> Val(h, i)]
    BY <2>4, <2>5
  <2>7. \E f : f = [i \in 0 .. n + 1 |-> Val(f, i)]
    BY <2>6
  <2>8. n + 1 \in Nat
    OBVIOUS
  <2>9. QED
    BY <2>7, <2>8, Zenon
<1>3. Len(s) \in S
  <2>1. Len(s) \in Nat
    OBVIOUS
  <2>2. \A i \in 0 .. Len(s) - 1 : i \in S => i + 1 \in S
    BY <1>2
  <2> HIDE DEF S
  <2>3. \A i \in 0 .. Len(s) : i \in S
    BY <1>1, <2>1, <2>2, UpTo
  <2>4. QED
    BY <2>1, <2>3
<1>4. PICK g : g = [i \in 0 .. Len(s) |-> Val(g, i)]
  BY <1>3
<1> DEFINE st == WriteStates(u, s)
<1>5. st = [i \in 0 .. Len(s) |-> Val(st, i)]
  BY <1>4 DEF WriteStates
<1>6. Written(u, s) = st[Len(s)]
  BY DEF Written, WriteStates
<1>7. QED
  <2> HIDE DEF st
  <2>1. Len(s) \in Nat
    OBVIOUS
  <2>2. st[0] = u
    BY <1>5, <2>1
  <2>3. ASSUME NEW i \in 1 .. Len(s)
        PROVE  st[i] = _uploadWriteByte(st[i - 1], s[i])
    <3>1. i \in 0 .. Len(s) /\ i # 0
      BY <2>1
    <3>2. st[i] = Val(st, i)
      BY <1>5, <3>1, Zenon
    <3>3. QED
      BY <3>1, <3>2
  <2>4. QED
    BY <1>6, <2>2, <2>3 DEF st

-----------------------------------------------------------------------------
(* scanForKeys *)

(* A key is cut to KeyLen characters. *)
LEMMA CutType ==
    ASSUME NEW w \in Keys
    PROVE  Cut(w) \in Keys
<1>1. Len(w) \in Nat /\ KeyLen \in Nat
  BY SizesAssumption DEF Keys
<1> DEFINE m == IF Len(w) < KeyLen THEN Len(w) ELSE KeyLen
<1>2. m \in 0 .. Len(w)
  BY <1>1
<1>3. SubSeq(w, 1, m) \in Seq(Alphabet)
  BY <1>2, SubSeqProperties DEF Keys
<1>4. QED
  BY <1>3 DEF Cut, Keys

(* What another element does to the set of elements. *)
LEMMA ToSetAppend ==
    ASSUME NEW S, NEW q \in Seq(S), NEW x \in S
    PROVE  /\ Append(q, x) \in Seq(S) /\ Len(Append(q, x)) = Len(q) + 1
           /\ ToSet(Append(q, x)) = ToSet(q) \cup {x}
<1>1. /\ Append(q, x) \in Seq(S) /\ Len(Append(q, x)) = Len(q) + 1
      /\ \A i \in 1 .. Len(q) : Append(q, x)[i] = q[i]
      /\ Append(q, x)[Len(q) + 1] = x
      /\ DOMAIN q = 1 .. Len(q) /\ DOMAIN Append(q, x) = 1 .. Len(q) + 1 /\ Len(q) \in Nat
  BY AppendProperties
<1>2. ASSUME NEW y \in ToSet(Append(q, x))
      PROVE  y \in ToSet(q) \cup {x}
  <2>1. PICK i \in 1 .. Len(q) + 1 : y = Append(q, x)[i]
    BY <1>1 DEF ToSet
  <2>2. CASE i = Len(q) + 1
    BY <1>1, <2>1, <2>2
  <2>3. CASE i \in 1 .. Len(q)
    BY <1>1, <2>1, <2>3 DEF ToSet
  <2>4. QED
    BY <1>1, <2>1, <2>2, <2>3
<1>3. ASSUME NEW y \in ToSet(q)
      PROVE  y \in ToSet(Append(q, x))
  <2>1. PICK i \in 1 .. Len(q) : y = q[i]
    BY <1>1 DEF ToSet
  <2>2. i \in 1 .. Len(q) + 1 /\ Append(q, x)[i] = y
    BY <1>1, <2>1
  <2>3. QED
    BY <1>1, <2>2 DEF ToSet
<1>4. x \in ToSet(Append(q, x))
  <2>1. Len(q) + 1 \in 1 .. Len(q) + 1
    BY <1>1
  <2>2. QED
    BY <1>1, <2>1 DEF ToSet
<1>5. QED
  BY <1>1, <1>2, <1>3, <1>4

(* Words of one byte more: those that there were, and the one that ends with
   a separator in this byte. *)
LEMMA OneByteMore ==
    ASSUME NEW s \in Seq(Alphabet), NEW n \in Nat, n < Len(s), NEW k
    PROVE  WordWithin(s, n + 1, k) <=>
             \/ WordWithin(s, n, k)
             \/ \E i \in 0 .. n - 1 : WordAt(s, i, n) /\ k = Cut(SubSeq(s, i + 1, n))
<1>1. ASSUME NEW i \in 0 .. n, NEW e \in 0 .. n, WordAt(s, i, e)
      PROVE  i \in 0 .. n - 1 /\ (e \in 0 .. n - 1 \/ e = n)
  BY <1>1 DEF WordAt
<1>2. QED
  BY <1>1 DEF WordWithin

(* A separator that follows a separator ends no word; one that follows a word
   ends this word and no other. *)
LEMMA EndsOne ==
    ASSUME NEW s \in Seq(Alphabet), NEW n \in Nat, n < Len(s), s[n + 1] \in Separators,
           NEW b \in 0 .. n, Begun(s, n, b)
    PROVE  \A i \in 0 .. n - 1 : WordAt(s, i, n) <=> i = b
<1>1. ASSUME NEW i \in 0 .. n - 1, WordAt(s, i, n), i # b
      PROVE  FALSE
  <2>1. CASE i < b
    <3>1. b \in i + 1 .. n /\ s[b] \in Separators
      BY <2>1 DEF Begun
    <3>2. QED
      BY <1>1, <3>1 DEF WordAt
  <2>2. CASE b < i
    <3>1. i \in b + 1 .. n /\ s[i] \in Separators
      BY <1>1, <2>2 DEF WordAt
    <3>2. QED
      BY <3>1 DEF Begun
  <2>3. QED
    BY <1>1, <2>1, <2>2
<1>2. ASSUME b \in 0 .. n - 1
      PROVE  WordAt(s, b, n)
  BY <1>2 DEF WordAt, Begun
<1>3. QED
  BY <1>1, <1>2

(* The states of scanForKeys as records. *)
LEMMA StateFields ==
    ASSUME NEW k, NEW w, NEW e
    PROVE  LET st == [keys |-> k, word |-> w, error |-> e]
           IN  /\ st.keys = k /\ st.word = w /\ st.error = e
               /\ k \in Seq(Keys) /\ w \in Keys /\ e \in BOOLEAN => st \in ScanState
BY DEF ScanState

(* scanForKeys sets one field of its state at a time. *)
LEMMA NewField ==
    ASSUME NEW st \in ScanState, NEW x
    PROVE  /\ [st EXCEPT !.keys = x] = [keys |-> x, word |-> st.word, error |-> st.error]
           /\ [st EXCEPT !.word = x] = [keys |-> st.keys, word |-> x, error |-> st.error]
           /\ [st EXCEPT !.error = x] = [keys |-> st.keys, word |-> st.word, error |-> x]
BY DEF ScanState

(* addKey appends the key, or it refuses it and leaves the store alone. *)
LEMMA AddKeyDoes ==
    ASSUME NEW st \in ScanState, ~Stopped(st), NEW w \in Keys
    PROVE  /\ addKey(st, w) \in ScanState
           /\ \/ addKey(st, w) = [keys |-> st.keys, word |-> st.word, error |-> TRUE]
              \/ addKey(st, w) = [keys |-> Append(st.keys, Cut(w)), word |-> st.word, error |-> FALSE]
<1>1. st = [keys |-> st.keys, word |-> st.word, error |-> st.error] /\ st.error = FALSE
  BY DEF ScanState, Stopped
<1>2. \/ addKey(st, w) = [keys |-> st.keys, word |-> st.word, error |-> TRUE]
      \/ addKey(st, w) = [keys |-> Append(st.keys, Cut(w)), word |-> st.word, error |-> FALSE]
  <2>1. \/ addKey(st, w) = [st EXCEPT !.error = TRUE]
        \/ addKey(st, w) = [st EXCEPT !.keys = Append(st.keys, Cut(w))]
    BY DEF addKey
  <2>2. [st EXCEPT !.error = TRUE] = [keys |-> st.keys, word |-> st.word, error |-> TRUE]
    BY NewField
  <2>3. [st EXCEPT !.keys = Append(st.keys, Cut(w))]
          = [keys |-> Append(st.keys, Cut(w)), word |-> st.word, error |-> st.error]
    BY NewField
  <2>4. QED
    BY <1>1, <2>1, <2>2, <2>3
<1>3. Append(st.keys, Cut(w)) \in Seq(Keys) /\ st.keys \in Seq(Keys) /\ st.word \in Keys
  BY CutType, ToSetAppend DEF ScanState
<1>4. /\ [keys |-> st.keys, word |-> st.word, error |-> TRUE] \in ScanState
      /\ [keys |-> Append(st.keys, Cut(w)), word |-> st.word, error |-> FALSE] \in ScanState
  BY <1>3, StateFields
<1>5. QED
  BY <1>2, <1>4

(* ScanChar, case by case. *)
LEMMA ScanCharDoes ==
    ASSUME NEW st \in ScanState, NEW c
    PROVE  /\ Stopped(st) => ScanChar(st, c) = st
           /\ ~Stopped(st) /\ c \notin Separators =>
                ScanChar(st, c) = [keys |-> st.keys, word |-> Append(st.word, c), error |-> FALSE]
           /\ ~Stopped(st) /\ c \in Separators /\ st.word = <<>> =>
                ScanChar(st, c) = [keys |-> st.keys, word |-> <<>>, error |-> FALSE]
           /\ ~Stopped(st) /\ c \in Separators /\ st.word # <<>> =>
                \/ ScanChar(st, c) = [keys |-> st.keys, word |-> <<>>, error |-> TRUE]
                \/ ScanChar(st, c) = [keys |-> Append(st.keys, Cut(st.word)), word |-> <<>>, error |-> FALSE]
<1>1. st = [keys |-> st.keys, word |-> st.word, error |-> st.error] /\ st.word \in Keys
  BY DEF ScanState
<1>2. Stopped(st) => ScanChar(st, c) = st
  BY DEF ScanChar, Stopped
<1>3. ASSUME ~Stopped(st), c \notin Separators
      PROVE  ScanChar(st, c) = [keys |-> st.keys, word |-> Append(st.word, c), error |-> FALSE]
  <2>1. ScanChar(st, c) = [st EXCEPT !.word = Append(st.word, c)]
    BY <1>3 DEF ScanChar, Stopped
  <2>2. st.error = FALSE
    BY <1>3 DEF ScanState, Stopped
  <2>3. QED
    BY <2>1, <2>2, NewField
<1>4. ASSUME ~Stopped(st), c \in Separators, st.word = <<>>
      PROVE  ScanChar(st, c) = [keys |-> st.keys, word |-> <<>>, error |-> FALSE]
  <2>1. ScanChar(st, c) = [st EXCEPT !.word = <<>>]
    BY <1>4 DEF ScanChar, Stopped
  <2>2. st.error = FALSE
    BY <1>4 DEF ScanState, Stopped
  <2>3. QED
    BY <2>1, <2>2, NewField
<1>5. ASSUME ~Stopped(st), c \in Separators, st.word # <<>>
      PROVE  \/ ScanChar(st, c) = [keys |-> st.keys, word |-> <<>>, error |-> TRUE]
             \/ ScanChar(st, c) = [keys |-> Append(st.keys, Cut(st.word)), word |-> <<>>, error |-> FALSE]
  <2>1. ScanChar(st, c) = [addKey(st, st.word) EXCEPT !.word = <<>>]
    BY <1>5 DEF ScanChar, Stopped
  <2>2. \/ addKey(st, st.word) = [keys |-> st.keys, word |-> st.word, error |-> TRUE]
        \/ addKey(st, st.word) = [keys |-> Append(st.keys, Cut(st.word)), word |-> st.word, error |-> FALSE]
    BY <1>1, <1>5, AddKeyDoes
  <2>3. addKey(st, st.word) \in ScanState
    BY <1>1, <1>5, AddKeyDoes
  <2>4. ScanChar(st, c) = [keys |-> addKey(st, st.word).keys, word |-> <<>>, error |-> addKey(st, st.word).error]
    BY <2>1, <2>3, NewField
  <2>5. CASE addKey(st, st.word) = [keys |-> st.keys, word |-> st.word, error |-> TRUE]
    <3>1. addKey(st, st.word).keys = st.keys /\ addKey(st, st.word).error = TRUE
      BY <2>5, StateFields
    <3>2. QED
      BY <2>4, <3>1
  <2>6. CASE addKey(st, st.word) = [keys |-> Append(st.keys, Cut(st.word)), word |-> st.word, error |-> FALSE]
    <3>1. addKey(st, st.word).keys = Append(st.keys, Cut(st.word)) /\ addKey(st, st.word).error = FALSE
      BY <2>6, StateFields
    <3>2. QED
      BY <2>4, <3>1
  <2>7. QED
    BY <2>2, <2>5, <2>6
<1>6. QED
  BY <1>2, <1>3, <1>4, <1>5

(* One byte keeps what scanForKeys knows true. *)
LEMMA ScanCharOK ==
    ASSUME NEW s \in Seq(Alphabet), NEW keys \in Seq(Keys), NEW n \in Nat, n < Len(s),
           NEW st, ScanOK(keys, s, n, st)
    PROVE  ScanOK(keys, s, n + 1, ScanChar(st, s[n + 1]))
<1> DEFINE c == s[n + 1]
           to == ScanChar(st, c)
<1>1. /\ st \in ScanState /\ st.keys \in Seq(Keys) /\ st.word \in Keys
      /\ Len(keys) <= Len(st.keys) /\ Len(st.keys) <= MAX_KEYS
      /\ Len(keys) \in Nat /\ Len(st.keys) \in Nat /\ MAX_KEYS \in Nat
      /\ \A k \in ToSet(st.keys) : k \in ToSet(keys) \/ WordWithin(s, n, k)
  BY SizesAssumption DEF ScanOK, ScanState
<1>2. c \in Alphabet /\ <<>> \in Keys
  BY DEF Keys
<1>3. \A k : WordWithin(s, n, k) => WordWithin(s, n + 1, k)
  BY OneByteMore
<1>4. CASE Stopped(st)
  <2>1. to = st
    BY <1>1, <1>4, ScanCharDoes
  <2>2. QED
    BY <1>1, <1>3, <1>4, <2>1 DEF ScanOK
<1>5. CASE ~Stopped(st)
  <2>1. PICK b \in 0 .. n : Begun(s, n, b) /\ st.word = SubSeq(s, b + 1, n)
    BY <1>5 DEF ScanOK
  <2>2. \A k : k \in ToSet(keys) \/ WordWithin(s, n, k) => k \in ToSet(st.keys)
    BY <1>5 DEF ScanOK
  <2>3. ~st.error /\ Len(st.keys) < MAX_KEYS
    BY <1>1, <1>5 DEF Stopped
  <2>4. CASE c \notin Separators
    <3>1. to = [keys |-> st.keys, word |-> Append(st.word, c), error |-> FALSE]
      BY <1>1, <1>5, <2>4, ScanCharDoes
    <3>2. Append(st.word, c) \in Keys
      BY <1>1, <1>2, AppendProperties DEF Keys
    <3>3. \A k : WordWithin(s, n + 1, k) => WordWithin(s, n, k)
      BY <2>4, OneByteMore DEF WordAt
    <3>4. Begun(s, n + 1, b) /\ b \in 0 .. n + 1
      BY <2>1, <2>4 DEF Begun
    <3>5. Append(st.word, c) = SubSeq(s, b + 1, n + 1)
      BY <2>1, SubSeqRecursiveSecond
    <3>6. to \in ScanState
      BY <1>1, <3>1, <3>2 DEF ScanState
    <3>7. to.keys = st.keys /\ to.word = SubSeq(s, b + 1, n + 1)
      BY <3>1, <3>5
    <3>8. QED
      BY <1>1, <1>3, <2>2, <3>3, <3>4, <3>6, <3>7 DEF ScanOK
  <2>5. CASE c \in Separators
    <3>1. Begun(s, n + 1, n + 1) /\ SubSeq(s, n + 2, n + 1) = <<>> /\ n + 1 \in 0 .. n + 1
      BY <2>5, SubSeqEmpty DEF Begun
    <3>2. \A i \in 0 .. n - 1 : WordAt(s, i, n) <=> i = b
      BY <2>1, <2>5, EndsOne
    <3>3. CASE st.word = <<>>
      <4>1. to = [keys |-> st.keys, word |-> <<>>, error |-> FALSE]
        BY <1>1, <1>5, <2>5, <3>3, ScanCharDoes
      <4>2. b = n
        BY <2>1, <3>3, SubSeqProperties
      <4>3. \A k : WordWithin(s, n + 1, k) => WordWithin(s, n, k)
        BY <3>2, <4>2, OneByteMore
      <4>4. to \in ScanState
        BY <1>1, <1>2, <4>1 DEF ScanState
      <4>5. \E e \in 0 .. n + 1 : Begun(s, n + 1, e) /\ to.word = SubSeq(s, e + 1, n + 1)
        BY <3>1, <4>1
      <4>6. QED
        BY <1>1, <1>3, <2>2, <4>1, <4>3, <4>4, <4>5 DEF ScanOK
    <3>4. CASE st.word # <<>>
      <4>1. b \in 0 .. n - 1
        BY <2>1, <3>4, SubSeqEmpty
      <4>2. \A k : WordWithin(s, n + 1, k) <=> WordWithin(s, n, k) \/ k = Cut(st.word)
        <5>1. Cut(st.word) = Cut(SubSeq(s, b + 1, n))
          BY <2>1
        <5>2. ASSUME NEW k
              PROVE  (\E i \in 0 .. n - 1 : WordAt(s, i, n) /\ k = Cut(SubSeq(s, i + 1, n)))
                       <=> k = Cut(SubSeq(s, b + 1, n))
          BY <3>2, <4>1
        <5>3. ASSUME NEW k
              PROVE  WordWithin(s, n + 1, k) <=> WordWithin(s, n, k) \/ k = Cut(st.word)
          <6>1. WordWithin(s, n + 1, k) <=>
                  \/ WordWithin(s, n, k)
                  \/ \E i \in 0 .. n - 1 : WordAt(s, i, n) /\ k = Cut(SubSeq(s, i + 1, n))
            BY OneByteMore
          <6>2. QED
            BY <5>1, <5>2, <6>1, Zenon
        <5>4. QED
          BY <5>3
      <4>3. CASE to = [keys |-> st.keys, word |-> <<>>, error |-> TRUE]
        <5>1. to \in ScanState
          BY <1>1, <1>2, <4>3 DEF ScanState
        <5>2. QED
          BY <1>1, <1>3, <4>3, <5>1 DEF ScanOK, Stopped
      <4>4. CASE to = [keys |-> Append(st.keys, Cut(st.word)), word |-> <<>>, error |-> FALSE]
        <5>1. /\ Append(st.keys, Cut(st.word)) \in Seq(Keys)
              /\ Len(Append(st.keys, Cut(st.word))) = Len(st.keys) + 1
              /\ ToSet(Append(st.keys, Cut(st.word))) = ToSet(st.keys) \cup {Cut(st.word)}
          BY <1>1, CutType, ToSetAppend
        <5>2. to \in ScanState
          BY <1>2, <4>4, <5>1 DEF ScanState
        <5>3. Len(keys) <= Len(to.keys) /\ Len(to.keys) <= MAX_KEYS
          BY <1>1, <2>3, <4>4, <5>1
        <5>4. \A k \in ToSet(to.keys) : k \in ToSet(keys) \/ WordWithin(s, n + 1, k)
          BY <1>1, <4>2, <4>4, <5>1
        <5>5. \A k : k \in ToSet(keys) \/ WordWithin(s, n + 1, k) => k \in ToSet(to.keys)
          BY <2>2, <4>2, <4>4, <5>1
        <5>6. \E e \in 0 .. n + 1 : Begun(s, n + 1, e) /\ to.word = SubSeq(s, e + 1, n + 1)
          BY <3>1, <4>4
        <5>7. QED
          BY <5>2, <5>3, <5>4, <5>5, <5>6 DEF ScanOK
      <4>5. QED
        BY <1>1, <1>5, <2>5, <3>4, <4>3, <4>4, ScanCharDoes
    <3>5. QED
      BY <3>3, <3>4
  <2>6. QED
    BY <2>4, <2>5
<1>6. QED
  BY <1>4, <1>5

(* scanForKeys adds words of the buffer and nothing else; all of them, unless
   addKey refused one or the store is full. *)
LEMMA ScanAddsWords ==
    ASSUME NEW s \in Seq(Alphabet), NEW keys \in Seq(Keys), Len(keys) <= MAX_KEYS
    PROVE  LET end == scanForKeys(keys, s)
           IN  /\ end.keys \in Seq(Keys) /\ end.error \in BOOLEAN
               /\ Len(keys) <= Len(end.keys) /\ Len(end.keys) <= MAX_KEYS
               /\ \A k \in ToSet(end.keys) : k \in ToSet(keys) \/ WordWithin(s, Len(s), k)
               /\ ~end.error /\ Len(end.keys) < MAX_KEYS =>
                    \A k : k \in ToSet(keys) \/ WordWithin(s, Len(s), k) => k \in ToSet(end.keys)
<1> DEFINE st == ScanStates(keys, s)
           S == {n \in Nat : ScanOK(keys, s, n, st[n])}
           end == scanForKeys(keys, s)
<1>1. /\ st[0] = [keys |-> keys, word |-> <<>>, error |-> FALSE]
      /\ \A i \in 1 .. Len(s) : st[i] = ScanChar(st[i - 1], s[i])
      /\ end = st[Len(s)]
      /\ Len(s) \in Nat /\ Len(keys) \in Nat /\ MAX_KEYS \in Nat
  BY ScanSteps, SizesAssumption
<1> HIDE DEF st, end
<1>2. 0 \in S
  <2>1. \A k : ~WordWithin(s, 0, k)
    BY DEF WordWithin
  <2>2. <<>> \in Keys /\ SubSeq(s, 1, 0) = <<>> /\ Begun(s, 0, 0)
    BY SubSeqEmpty DEF Begun, Keys
  <2>3. st[0] \in ScanState /\ st[0].keys = keys /\ st[0].word = <<>>
    BY <1>1, <2>2 DEF ScanState
  <2>4. \E b \in 0 .. 0 : Begun(s, 0, b) /\ st[0].word = SubSeq(s, b + 1, 0)
    <3>1. 0 \in 0 .. 0 /\ 0 + 1 = 1
      OBVIOUS
    <3>2. QED
      BY <2>2, <2>3, <3>1
  <2>5. ScanOK(keys, s, 0, st[0])
    BY <1>1, <2>1, <2>3, <2>4 DEF ScanOK
  <2>6. QED
    BY <2>5
<1>3. \A n \in 0 .. Len(s) - 1 : n \in S => n + 1 \in S
  <2> SUFFICES ASSUME NEW n \in 0 .. Len(s) - 1, ScanOK(keys, s, n, st[n])
               PROVE  ScanOK(keys, s, n + 1, st[n + 1])
    BY <1>1
  <2>1. n \in Nat /\ n < Len(s) /\ n + 1 \in 1 .. Len(s) /\ (n + 1) - 1 = n
    BY <1>1
  <2>2. st[n + 1] = ScanChar(st[n], s[n + 1])
    BY <1>1, <2>1
  <2>3. QED
    BY <2>1, <2>2, ScanCharOK
<1>4. ScanOK(keys, s, Len(s), end)
  <2>1. Len(s) \in S
    <3> HIDE DEF S
    <3>1. \A n \in 0 .. Len(s) : n \in S
      BY <1>1, <1>2, <1>3, UpTo
    <3>2. QED
      BY <1>1, <3>1
  <2>2. QED
    BY <1>1, <2>1
<1>5. /\ end.keys \in Seq(Keys) /\ end.error \in BOOLEAN
      /\ Len(end.keys) \in Nat
      /\ ~end.error /\ Len(end.keys) < MAX_KEYS => ~Stopped(end)
  BY <1>1, <1>4 DEF ScanOK, ScanState, Stopped
<1>6. QED
  BY <1>4, <1>5 DEF ScanOK, end

-----------------------------------------------------------------------------
(* Words at the boundaries of buffers *)

(* Division with remainder, and that the remainder is unique. *)
LEMMA Division ==
    ASSUME NEW n \in Nat, NEW b \in Nat, b > 0
    PROVE  n = b * (n \div b) + (n % b) /\ n % b \in 0 .. b - 1 /\ n \div b \in Nat
OBVIOUS

(* Of two ways to divide a number, neither has the smaller quotient. *)
LEMMA QuotientNotLess ==
    ASSUME NEW q \in Nat, NEW p \in Nat, NEW b \in Nat, b > 0,
           NEW r \in 0 .. b - 1, NEW t \in 0 .. b - 1, b * q + r = b * p + t
    PROVE  ~(q < p)
<1> SUFFICES ASSUME q < p PROVE FALSE
  OBVIOUS
<1>1. PICK d \in Nat : p = q + 1 + d
  <2>1. p - q - 1 \in Nat /\ p = q + 1 + (p - q - 1)
    OBVIOUS
  <2>2. QED
    BY <2>1
<1>2. b * p = b * q + b + b * d
  BY <1>1
<1>3. b * d \in Nat /\ b * q \in Nat
  OBVIOUS
<1>4. QED
  BY <1>2, <1>3

(* So there is one remainder. *)
LEMMA RemainderUnique ==
    ASSUME NEW q \in Nat, NEW p \in Nat, NEW b \in Nat, b > 0,
           NEW r \in 0 .. b - 1, NEW t \in 0 .. b - 1, b * q + r = b * p + t
    PROVE  r = t
<1>1. ~(q < p) /\ ~(p < q)
  BY QuotientNotLess
<1>2. q = p
  BY <1>1
<1>3. QED
  BY <1>2

(* Places in the buffer after n bytes, if n bytes are whole buffers. *)
LEMMA PlaceInBuffer ==
    ASSUME NEW n \in Nat, Place(n) = 0
    PROVE  /\ \A r \in 0 .. BUFLEN - 1 : Place(n + r) = r
           /\ Place(n + BUFLEN) = 0
<1> DEFINE q == n \div BUFLEN
<1>1. BUFLEN \in Nat /\ BUFLEN > 0
  BY SizesAssumption
<1>2. n = BUFLEN * q /\ q \in Nat
  BY <1>1, Division DEF Place
<1>3. ASSUME NEW m \in Nat, NEW p \in Nat, NEW r \in 0 .. BUFLEN - 1, m = BUFLEN * p + r
      PROVE  Place(m) = r
  <2> DEFINE k == m \div BUFLEN
             t == m % BUFLEN
  <2>1. m = BUFLEN * k + t /\ k \in Nat /\ t \in 0 .. BUFLEN - 1
    BY <1>1, Division
  <2> HIDE DEF k, t
  <2>2. t = r
    BY <1>1, <1>3, <2>1, RemainderUnique
  <2>3. QED
    BY <2>2 DEF Place, t
<1> HIDE DEF q
<1>4. ASSUME NEW r \in 0 .. BUFLEN - 1
      PROVE  Place(n + r) = r
  <2>1. n + r \in Nat /\ n + r = BUFLEN * q + r
    BY <1>1, <1>2
  <2>2. QED
    BY <1>2, <1>3, <2>1
<1>5. Place(n + BUFLEN) = 0
  <2>1. /\ n + BUFLEN \in Nat /\ q + 1 \in Nat /\ 0 \in 0 .. BUFLEN - 1
        /\ n + BUFLEN = BUFLEN * (q + 1) + 0
    BY <1>1, <1>2
  <2>2. QED
    BY <1>3, <2>1
<1>6. QED
  BY <1>4, <1>5

(* The first byte begins a buffer. *)
LEMMA PlaceOfFirst == Place(0) = 0
BY SizesAssumption DEF Place

(* A word by its place. *)
LEMMA InWords ==
    ASSUME NEW s, NEW k
    PROVE  k \in Words(s) <=>
             \E i, e \in 0 .. Len(s) - 1 : IsWord(s, i, e) /\ k = Cut(SubSeq(s, i + 1, e))
<1> DEFINE R == 0 .. Len(s) - 1
           P == {v \in R \X R : IsWord(s, v[1], v[2])}
<1>1. k \in Words(s) <=> \E w \in P : k = Cut(SubSeq(s, w[1] + 1, w[2]))
  BY DEF Words
<1>2. ASSUME NEW w \in P
      PROVE  w[1] \in R /\ w[2] \in R /\ IsWord(s, w[1], w[2])
  OBVIOUS
<1>3. ASSUME NEW i \in R, NEW e \in R, IsWord(s, i, e)
      PROVE  <<i, e>> \in P /\ <<i, e>>[1] = i /\ <<i, e>>[2] = e
  BY <1>3
<1> HIDE DEF R, P
<1>4. ASSUME k \in Words(s)
      PROVE  \E i, e \in R : IsWord(s, i, e) /\ k = Cut(SubSeq(s, i + 1, e))
  BY <1>1, <1>2, <1>4
<1>5. ASSUME NEW i \in R, NEW e \in R, IsWord(s, i, e), k = Cut(SubSeq(s, i + 1, e))
      PROVE  k \in Words(s)
  <2>1. k = Cut(SubSeq(s, <<i, e>>[1] + 1, <<i, e>>[2]))
    BY <1>3, <1>5
  <2>2. <<i, e>> \in P
    BY <1>3, <1>5
  <2>3. QED
    BY <1>1, <2>1, <2>2
<1>6. QED
  BY <1>4, <1>5 DEF R

(* The words of a buffer more are those that there were and those that
   scanForKeys finds in it. *)
LEMMA WordsOfMore ==
    ASSUME NEW h \in Seq(Alphabet), NEW b \in Seq(Alphabet),
           Place(Len(h)) = 0, Len(b) <= BUFLEN, NEW k
    PROVE  k \in Words(h \o b) <=> k \in Words(h) \/ WordWithin(b, Len(b), k)
<1> DEFINE t == h \o b
           n == Len(h)
           m == Len(b)
<1>1. /\ t \in Seq(Alphabet) /\ Len(t) = n + m
      /\ \A i \in 1 .. n : t[i] = h[i]
      /\ \A i \in 1 .. m : t[n + i] = b[i]
      /\ n \in Nat /\ m \in Nat /\ BUFLEN \in Nat /\ BUFLEN > 0
      /\ m <= BUFLEN /\ Place(n) = 0
  BY SizesAssumption
<1> HIDE DEF t, n, m
<1>2. \A r \in 0 .. BUFLEN - 1 : Place(n + r) = r
  BY <1>1, PlaceInBuffer
<1>3. ASSUME NEW s
      PROVE  k \in Words(s) <=> \E i, e \in 0 .. Len(s) - 1 : IsWord(s, i, e) /\ k = Cut(SubSeq(s, i + 1, e))
  BY InWords
<1>4. ASSUME NEW i \in 0 .. n - 1, NEW e \in 0 .. n - 1
      PROVE  /\ IsWord(t, i, e) <=> IsWord(h, i, e)
             /\ IsWord(h, i, e) => SubSeq(t, i + 1, e) = SubSeq(h, i + 1, e)
  <2>1. t[e + 1] = h[e + 1] /\ (i # 0 => t[i] = h[i]) /\ \A j \in i + 1 .. e : t[j] = h[j]
    BY <1>1
  <2>2. i = 0 => Place(i) = 0
    BY PlaceOfFirst
  <2>3. IsWord(t, i, e) <=> IsWord(h, i, e)
    BY <2>1, <2>2 DEF IsWord
  <2>4. ASSUME i < e
        PROVE  SubSeq(t, i + 1, e) = SubSeq(h, i + 1, e)
    BY <1>1, <2>4, SubSeqOfConcat1 DEF t, n
  <2>5. QED
    BY <2>3, <2>4 DEF IsWord
<1>5. ASSUME NEW i \in 0 .. m - 1, NEW e \in 0 .. m - 1
      PROVE  /\ IsWord(t, n + i, n + e) <=> WordAt(b, i, e)
             /\ WordAt(b, i, e) => SubSeq(t, n + i + 1, n + e) = SubSeq(b, i + 1, e)
  <2>1. /\ t[n + e + 1] = b[e + 1] /\ (i # 0 => t[n + i] = b[i])
        /\ \A j \in i + 1 .. e : t[n + j] = b[j]
    BY <1>1
  <2>2. Place(n + i) = 0 <=> i = 0
    <3>1. i \in 0 .. BUFLEN - 1
      BY <1>1
    <3>2. QED
      BY <1>2, <3>1
  <2>3. ASSUME NEW j \in i + 1 .. e
        PROVE  Place(n + j) # 0
    <3>1. j \in 0 .. BUFLEN - 1 /\ j # 0
      BY <1>1
    <3>2. QED
      BY <1>2, <3>1
  <2>4. (\A j \in n + i + 1 .. n + e : Place(j) # 0 /\ t[j] \notin Separators)
          <=> (\A j \in i + 1 .. e : b[j] \notin Separators)
    <3>1. ASSUME \A j \in i + 1 .. e : b[j] \notin Separators, NEW j \in n + i + 1 .. n + e
          PROVE  Place(j) # 0 /\ t[j] \notin Separators
      <4>1. j - n \in i + 1 .. e /\ n + (j - n) = j
        BY <1>1
      <4>2. QED
        BY <2>1, <2>3, <3>1, <4>1
    <3>2. ASSUME \A j \in n + i + 1 .. n + e : Place(j) # 0 /\ t[j] \notin Separators, NEW j \in i + 1 .. e
          PROVE  b[j] \notin Separators
      <4>1. n + j \in n + i + 1 .. n + e
        BY <1>1
      <4>2. QED
        BY <2>1, <3>2, <4>1
    <3>3. QED
      BY <3>1, <3>2
  <2>5. n + i < n + e <=> i < e
    BY <1>1
  <2>6. IsWord(t, n + i, n + e) <=> WordAt(b, i, e)
    BY <2>1, <2>2, <2>4, <2>5 DEF IsWord, WordAt
  <2>7. ASSUME i < e
        PROVE  SubSeq(t, n + i + 1, n + e) = SubSeq(b, i + 1, e)
    BY <1>1, <2>7, SubSeqOfConcat2 DEF t, n, m
  <2>8. QED
    BY <2>6, <2>7 DEF WordAt
<1>6. ASSUME NEW i \in 0 .. n - 1, NEW e \in n .. n + m - 1
      PROVE  ~IsWord(t, i, e)
  <2>1. n \in i + 1 .. e
    BY <1>1
  <2>2. QED
    BY <1>1, <2>1 DEF IsWord
<1>7. ASSUME k \in Words(t)
      PROVE  k \in Words(h) \/ WordWithin(b, m, k)
  <2>1. PICK i, e \in 0 .. n + m - 1 : IsWord(t, i, e) /\ k = Cut(SubSeq(t, i + 1, e))
    BY <1>1, <1>3, <1>7
  <2>2. i < e
    BY <2>1 DEF IsWord
  <2>3. CASE e < n
    <3>1. i \in 0 .. n - 1 /\ e \in 0 .. n - 1
      BY <1>1, <2>2, <2>3
    <3>2. IsWord(h, i, e) /\ k = Cut(SubSeq(h, i + 1, e))
      BY <1>4, <2>1, <3>1
    <3>3. QED
      BY <1>3, <3>1, <3>2 DEF n
  <2>4. CASE i >= n
    <3> DEFINE a == i - n
               z == e - n
    <3>1. a \in 0 .. m - 1 /\ z \in 0 .. m - 1 /\ n + a = i /\ n + z = e
      BY <1>1, <2>2, <2>4
    <3> HIDE DEF a, z
    <3>2. WordAt(b, a, z)
      BY <1>5, <2>1, <3>1
    <3>3. k = Cut(SubSeq(b, a + 1, z))
      BY <1>5, <2>1, <3>1, <3>2
    <3>4. QED
      BY <3>1, <3>2, <3>3 DEF WordWithin
  <2>5. QED
    BY <1>1, <1>6, <2>1, <2>3, <2>4
<1>8. ASSUME k \in Words(h)
      PROVE  k \in Words(t)
  <2>1. PICK i, e \in 0 .. n - 1 : IsWord(h, i, e) /\ k = Cut(SubSeq(h, i + 1, e))
    BY <1>3, <1>8 DEF n
  <2>2. IsWord(t, i, e) /\ k = Cut(SubSeq(t, i + 1, e)) /\ i \in 0 .. n + m - 1 /\ e \in 0 .. n + m - 1
    <3>1. IsWord(t, i, e) /\ k = Cut(SubSeq(t, i + 1, e))
      BY <1>4, <2>1
    <3>2. QED
      BY <1>1, <3>1
  <2>3. i \in 0 .. Len(t) - 1 /\ e \in 0 .. Len(t) - 1
    BY <1>1, <2>2
  <2>4. \E a, z \in 0 .. Len(t) - 1 : IsWord(t, a, z) /\ k = Cut(SubSeq(t, a + 1, z))
    BY <2>2, <2>3, Zenon
  <2>5. QED
    BY <1>3, <2>4
<1>9. ASSUME WordWithin(b, m, k)
      PROVE  k \in Words(t)
  <2>1. PICK i, e \in 0 .. m - 1 : WordAt(b, i, e) /\ k = Cut(SubSeq(b, i + 1, e))
    BY <1>9 DEF WordWithin
  <2>2. /\ IsWord(t, n + i, n + e) /\ k = Cut(SubSeq(t, (n + i) + 1, n + e))
        /\ n + i \in 0 .. n + m - 1 /\ n + e \in 0 .. n + m - 1
    <3>1. IsWord(t, n + i, n + e) /\ k = Cut(SubSeq(t, (n + i) + 1, n + e))
      BY <1>5, <2>1
    <3>2. QED
      BY <1>1, <3>1
  <2>3. n + i \in 0 .. Len(t) - 1 /\ n + e \in 0 .. Len(t) - 1
    BY <1>1, <2>2
  <2>4. \E a, z \in 0 .. Len(t) - 1 : IsWord(t, a, z) /\ k = Cut(SubSeq(t, a + 1, z))
    BY <2>2, <2>3, Zenon
  <2>5. QED
    BY <1>3, <2>4
<1>10. QED
  BY <1>7, <1>8, <1>9 DEF t, m

-----------------------------------------------------------------------------
(* handleUploadFile and _uploadWriteByte *)

(* An upload as a record. *)
LEMMA UpFields ==
    ASSUME NEW u \in UpState
    PROVE  /\ u.buf \in Seq(Alphabet) /\ u.keys \in Seq(Keys) /\ u.before \in Seq(Keys)
           /\ u.handed \in Seq(Alphabet) /\ u.refused \in BOOLEAN
           /\ Len(u.buf) \in Nat /\ Len(u.keys) \in Nat /\ Len(u.handed) \in Nat
BY DEF UpState

(* A buffer that is filled again. *)
LEMMA NewBuf ==
    ASSUME NEW u \in UpState, NEW b \in Seq(Alphabet), NEW v, v = [u EXCEPT !.buf = b]
    PROVE  /\ v \in UpState /\ v.buf = b
           /\ v.keys = u.keys /\ v.before = u.before /\ v.handed = u.handed /\ v.refused = u.refused
BY DEF UpState

(* The buffer does not matter for what is in the store. *)
LEMMA SameKeysOK ==
    ASSUME NEW u, NEW v, KeysOK(u),
           v.keys = u.keys, v.before = u.before, v.handed = u.handed, v.refused = u.refused
    PROVE  KeysOK(v)
BY Zenon DEF KeysOK

(* Appending at the end of a concatenation. *)
LEMMA ConcatAppend ==
    ASSUME NEW h \in Seq(Alphabet), NEW s \in Seq(Alphabet), NEW x \in Alphabet
    PROVE  /\ h \o <<x>> = Append(h, x)
           /\ h \o Append(s, x) = Append(h \o s, x)
           /\ h \o s \in Seq(Alphabet) /\ Len(h \o s) = Len(h) + Len(s)
OBVIOUS

(* handleUploadFile hands over what is in the buffer. *)
LEMMA HandOver ==
    ASSUME NEW u, UpOK(u), Whole(u)
    PROVE  LET v == handleUploadFile(u)
           IN  /\ UpOK(v) /\ v.handed = u.handed \o u.buf
               /\ v.before = u.before /\ v.buf = u.buf
<1> DEFINE end == scanForKeys(u.keys, u.buf)
           v == handleUploadFile(u)
           h == u.handed \o u.buf
<1>1. /\ u \in UpState /\ u.buf \in Seq(Alphabet) /\ u.keys \in Seq(Keys) /\ u.before \in Seq(Keys)
      /\ u.handed \in Seq(Alphabet) /\ u.refused \in BOOLEAN
      /\ Len(u.buf) <= BUFLEN /\ Len(u.keys) <= MAX_KEYS /\ Place(Len(u.handed)) = 0
      /\ Len(u.keys) \in Nat /\ MAX_KEYS \in Nat
  BY UpFields, SizesAssumption DEF UpOK, Whole
<1>2. /\ end.keys \in Seq(Keys) /\ end.error \in BOOLEAN
      /\ Len(u.keys) <= Len(end.keys) /\ Len(end.keys) <= MAX_KEYS
      /\ \A k \in ToSet(end.keys) : k \in ToSet(u.keys) \/ WordWithin(u.buf, Len(u.buf), k)
      /\ ~end.error /\ Len(end.keys) < MAX_KEYS =>
           \A k : k \in ToSet(u.keys) \/ WordWithin(u.buf, Len(u.buf), k) => k \in ToSet(end.keys)
  BY <1>1, ScanAddsWords
<1>3. /\ v = [u EXCEPT !.keys = end.keys, !.handed = h, !.refused = u.refused \/ end.error]
  BY DEF handleUploadFile
<1> HIDE DEF end, v
<1>4. h \in Seq(Alphabet) /\ Len(end.keys) \in Nat
  BY <1>1, <1>2
<1>5. u.refused \/ end.error \in BOOLEAN
  BY <1>1, <1>2
<1>6. /\ v \in UpState /\ v.keys = end.keys /\ v.handed = h /\ v.before = u.before /\ v.buf = u.buf
      /\ v.refused = (u.refused \/ end.error)
  BY <1>1, <1>2, <1>3, <1>4, <1>5 DEF UpState
<1>7. \A k : k \in Words(h) <=> k \in Words(u.handed) \/ WordWithin(u.buf, Len(u.buf), k)
  BY <1>1, WordsOfMore
<1> HIDE DEF h
<1>8. \A k \in ToSet(v.keys) : k \in ToSet(v.before) \/ k \in Words(v.handed)
  <2>1. \A k \in ToSet(u.keys) : k \in ToSet(u.before) \/ k \in Words(u.handed)
    BY DEF UpOK, KeysOK
  <2>2. QED
    BY <1>2, <1>6, <1>7, <2>1
<1>9. ASSUME ~v.refused, Len(v.keys) < MAX_KEYS
      PROVE  \A k \in ToSet(v.before) \cup Words(v.handed) : k \in ToSet(v.keys)
  <2>1. ~u.refused /\ ~end.error
    BY <1>1, <1>2, <1>6, <1>9
  <2>2. Len(u.keys) < MAX_KEYS /\ Len(end.keys) < MAX_KEYS
    BY <1>1, <1>2, <1>4, <1>6, <1>9
  <2>3. \A k : k \in ToSet(u.before) \/ k \in Words(u.handed) => k \in ToSet(u.keys)
    BY <2>1, <2>2 DEF UpOK, KeysOK
  <2>4. QED
    BY <1>2, <1>6, <1>7, <2>1, <2>2, <2>3
<1>10. KeysOK(v)
  BY <1>8, <1>9 DEF KeysOK
<1>11. QED
  BY <1>1, <1>2, <1>6, <1>10 DEF UpOK, v, h

(* A byte more is in the buffer, and the bytes before it are where they were
   or have been handed over. *)
LEMMA WriteByteOK ==
    ASSUME NEW u, UpOK(u), Whole(u), NEW b \in Alphabet
    PROVE  LET v == _uploadWriteByte(u, b)
           IN  /\ UpOK(v) /\ Whole(v) /\ v.before = u.before
               /\ v.handed \o v.buf = Append(u.handed \o u.buf, b)
<1> DEFINE v == _uploadWriteByte(u, b)
           w == handleUploadFile(u)
<1>1. /\ u \in UpState /\ u.buf \in Seq(Alphabet) /\ u.handed \in Seq(Alphabet)
      /\ Len(u.buf) \in Nat /\ Len(u.handed) \in Nat /\ BUFLEN \in Nat /\ BUFLEN > 0
      /\ Len(u.buf) <= BUFLEN
  BY UpFields, SizesAssumption DEF UpOK
<1>2. CASE Len(u.buf) = BUFLEN
  <2>1. UpOK(w) /\ w.handed = u.handed \o u.buf /\ w.before = u.before
    BY HandOver
  <2> DEFINE c == <<b>>
  <2>2. v = [w EXCEPT !.buf = c]
    BY <1>2 DEF _uploadWriteByte
  <2>3. w \in UpState /\ c \in Seq(Alphabet) /\ Len(c) = 1
    BY <2>1 DEF UpOK
  <2> HIDE DEF v, w, c
  <2>4. /\ v \in UpState /\ v.buf = c
        /\ v.keys = w.keys /\ v.before = w.before /\ v.handed = w.handed /\ v.refused = w.refused
    BY <2>2, <2>3 DEF UpState
  <2>5. Whole(v)
    <3>1. Len(v.handed) = Len(u.handed) + BUFLEN
      <4>1. Len(u.handed \o u.buf) = Len(u.handed) + Len(u.buf)
        BY <1>1, ConcatAppend, Zenon
      <4>2. v.handed = u.handed \o u.buf
        BY <2>1, <2>4, Zenon
      <4>3. QED
        BY <1>2, <4>1, <4>2, Zenon
    <3>2. QED
      BY <1>1, <3>1, PlaceInBuffer DEF Whole
  <2>6. UpOK(v)
    <3>1. KeysOK(w) /\ Len(w.keys) <= MAX_KEYS
      BY <2>1 DEF UpOK
    <3>2. KeysOK(v)
      BY <2>4, <3>1, SameKeysOK, Zenon
    <3>3. Len(v.buf) <= BUFLEN
      <4>1. Len(v.buf) = 1
        BY <2>3, <2>4, Zenon
      <4>2. BUFLEN >= 1
        BY SizesAssumption
      <4>3. QED
        BY <4>1, <4>2
    <3>4. QED
      BY <2>4, <3>1, <3>2, <3>3 DEF UpOK
  <2>7. v.handed \o v.buf = Append(u.handed \o u.buf, b)
    <3>1. u.handed \o u.buf \in Seq(Alphabet)
      BY <1>1, ConcatProperties
    <3>2. (u.handed \o u.buf) \o <<b>> = Append(u.handed \o u.buf, b)
      BY <3>1, ConcatAppend, Zenon
    <3>3. QED
      BY <2>1, <2>4, <3>2, Zenon DEF c
  <2>8. QED
    BY <2>1, <2>4, <2>5, <2>6, <2>7 DEF v
<1>3. CASE Len(u.buf) # BUFLEN
  <2> DEFINE c == Append(u.buf, b)
  <2>1. v = [u EXCEPT !.buf = c]
    BY <1>3 DEF _uploadWriteByte
  <2>2. c \in Seq(Alphabet) /\ Len(c) = Len(u.buf) + 1
    BY <1>1
  <2> HIDE DEF v, c
  <2>3. /\ v \in UpState /\ v.buf = c
        /\ v.keys = u.keys /\ v.before = u.before /\ v.handed = u.handed /\ v.refused = u.refused
    BY <1>1, <2>1, <2>2, NewBuf
  <2>4. Whole(v)
    BY <2>3 DEF Whole
  <2>5. UpOK(v)
    <3>1. KeysOK(u) /\ Len(u.keys) <= MAX_KEYS
      BY DEF UpOK
    <3>2. KeysOK(v)
      BY <2>3, <3>1, SameKeysOK, Zenon
    <3>3. Len(v.buf) <= BUFLEN
      <4>1. Len(v.buf) = Len(u.buf) + 1
        BY <2>2, <2>3, Zenon
      <4>2. QED
        BY <1>1, <1>3, <4>1
    <3>4. QED
      BY <2>3, <3>1, <3>2, <3>3 DEF UpOK
  <2>6. v.handed \o v.buf = Append(u.handed \o u.buf, b)
    <3>1. u.handed \o c = Append(u.handed \o u.buf, b)
      BY <1>1, ConcatAppend, Zenon DEF c
    <3>2. QED
      BY <2>3, <3>1, Zenon
  <2>7. QED
    BY <2>3, <2>4, <2>5, <2>6 DEF v
<1>4. QED
  BY <1>2, <1>3

(* The same of several bytes, however they fall into buffers. *)
LEMMA WrittenOK ==
    ASSUME NEW u, UpOK(u), Whole(u), NEW s \in Seq(Alphabet)
    PROVE  LET v == Written(u, s)
           IN  /\ UpOK(v) /\ Whole(v) /\ v.before = u.before
               /\ v.handed \o v.buf = (u.handed \o u.buf) \o s
<1> DEFINE w == WriteStates(u, s)
           a == u.handed \o u.buf
           OK(i) == /\ UpOK(w[i]) /\ Whole(w[i]) /\ w[i].before = u.before
                    /\ w[i].handed \o w[i].buf = a \o SubSeq(s, 1, i)
           S == {i \in Nat : OK(i)}
           v == Written(u, s)
<1>1. /\ w[0] = u
      /\ \A i \in 1 .. Len(s) : w[i] = _uploadWriteByte(w[i - 1], s[i])
      /\ v = w[Len(s)]
      /\ Len(s) \in Nat
  BY WriteSteps
<1>2. a \in Seq(Alphabet)
  BY UpFields DEF UpOK
<1> HIDE DEF w, v
<1>3. 0 \in S
  <2>1. a \o SubSeq(s, 1, 0) = a
    <3> HIDE DEF a
    <3>1. SubSeq(s, 1, 0) = <<>>
      BY SubSeqEmpty
    <3>2. QED
      BY <1>2, <3>1, ConcatEmptySeq
  <2>2. QED
    BY <1>1, <2>1
<1>4. ASSUME NEW i \in 0 .. Len(s) - 1, OK(i)
      PROVE  OK(i + 1)
  <2>1. i + 1 \in 1 .. Len(s) /\ (i + 1) - 1 = i /\ i \in Nat
    BY <1>1
  <2>2. w[i + 1] = _uploadWriteByte(w[i], s[i + 1]) /\ s[i + 1] \in Alphabet
    BY <1>1, <2>1
  <2>3. /\ UpOK(w[i + 1]) /\ Whole(w[i + 1]) /\ w[i + 1].before = w[i].before
        /\ w[i + 1].handed \o w[i + 1].buf = Append(w[i].handed \o w[i].buf, s[i + 1])
    BY <1>4, <2>2, WriteByteOK
  <2>4. SubSeq(s, 1, i + 1) = Append(SubSeq(s, 1, i), s[i + 1]) /\ SubSeq(s, 1, i) \in Seq(Alphabet)
    BY <2>1, SubSeqRecursiveSecond, SubSeqProperties
  <2> HIDE DEF a
  <2>5. Append(a \o SubSeq(s, 1, i), s[i + 1]) = a \o SubSeq(s, 1, i + 1)
    <3>1. a \o Append(SubSeq(s, 1, i), s[i + 1]) = Append(a \o SubSeq(s, 1, i), s[i + 1])
      BY <1>2, <2>2, <2>4, ConcatAppend, Zenon
    <3>2. QED
      BY <2>4, <3>1, Zenon
  <2>6. QED
    BY <1>4, <2>3, <2>5
<1>5. OK(Len(s))
  <2>1. \A i \in 0 .. Len(s) - 1 : i \in S => i + 1 \in S
    <3> SUFFICES ASSUME NEW i \in 0 .. Len(s) - 1, OK(i)
                 PROVE  i + 1 \in Nat /\ OK(i + 1)
      OBVIOUS
    <3>1. i + 1 \in Nat
      BY <1>1
    <3> HIDE DEF OK
    <3>2. QED
      BY <1>4, <3>1
  <2>2. Len(s) \in S
    <3> HIDE DEF S
    <3>1. \A i \in 0 .. Len(s) : i \in S
      BY <1>1, <1>3, <2>1, UpTo
    <3>2. QED
      BY <1>1, <3>1
  <2>3. QED
    BY <2>2
<1>6. SubSeq(s, 1, Len(s)) = s
  BY SubSeqFull
<1>7. QED
  BY <1>1, <1>5, <1>6 DEF v

-----------------------------------------------------------------------------
(* The stream *)

(* The delimiter follows the file. *)
LEMMA StreamShape ==
    ASSUME file \in Files
    PROVE  /\ file \in Seq(Alphabet) /\ Len(file) \in Nat
           /\ Delimiter \in Seq(Alphabet) /\ Len(Delimiter) = 4 + Len(Boundary) /\ Len(Boundary) \in Nat
           /\ stream \in Seq(Alphabet) /\ Len(stream) = Len(file) + Len(Delimiter)
           /\ \A i \in 1 .. Len(file) : stream[i] = file[i]
           /\ stream[Len(file) + 1] = CR /\ stream[Len(file) + 2] = LF
           /\ stream[Len(file) + 3] = DASH /\ stream[Len(file) + 4] = DASH
<1>1. file \in Seq(Alphabet)
  BY SizesAssumption DEF Files
<1>2. <<CR, LF, DASH, DASH>> \in Seq(Alphabet) /\ Boundary \in Seq(Alphabet)
  BY BytesAssumption
<1>3. /\ Delimiter \in Seq(Alphabet) /\ Len(Delimiter) = 4 + Len(Boundary)
      /\ Len(Boundary) \in Nat
      /\ Delimiter[1] = CR /\ Delimiter[2] = LF /\ Delimiter[3] = DASH /\ Delimiter[4] = DASH
  BY <1>2 DEF Delimiter
<1>4. QED
  BY <1>1, <1>3 DEF stream

(* The true delimiter is at the end of the file, and only there. *)
LEMMA DelimiterPlace ==
    ASSUME file \in Files, NEW p \in 0 .. Len(stream)
    PROVE  IsAt(stream, Delimiter, p) <=> p = Len(file)
<1>1. /\ file \in Seq(Alphabet) /\ Len(file) \in Nat
      /\ Delimiter \in Seq(Alphabet) /\ Len(Delimiter) \in Nat
      /\ Len(stream) = Len(file) + Len(Delimiter)
  BY StreamShape
<1>2. \A i \in 0 .. Len(file) - 1 : ~IsAt(stream, Delimiter, i)
  BY DEF Files, stream
<1>3. IsAt(stream, Delimiter, p) => p <= Len(file)
  BY <1>1 DEF IsAt
<1>4. IsAt(stream, Delimiter, Len(file))
  <2>1. SubSeq(file \o Delimiter, Len(file) + 1, Len(file) + Len(Delimiter)) = Delimiter
    <3>1. Len(Delimiter) >= 1
      BY StreamShape
    <3>2. SubSeq(file \o Delimiter, Len(file) + 1, Len(file) + Len(Delimiter)) = SubSeq(Delimiter, 1, Len(Delimiter))
      BY <1>1, <3>1, SubSeqOfConcat2
    <3>3. QED
      BY <1>1, <3>2, SubSeqFull
  <2>2. QED
    BY <1>1, <2>1 DEF IsAt, stream
<1>5. QED
  BY <1>1, <1>2, <1>3, <1>4

(* Reading on. *)
LEMMA ReadOn ==
    ASSUME NEW s \in Seq(Alphabet), NEW p \in Nat, NEW k \in Nat, p + k <= Len(s)
    PROVE  /\ SubSeq(s, p + 1, p + k) \in Seq(Alphabet)
           /\ SubSeq(s, 1, p) \o SubSeq(s, p + 1, p + k) = SubSeq(s, 1, p + k)
<1>1. Len(s) \in Nat
  OBVIOUS
<1>2. SubSeq(s, p + 1, p + k) \in Seq(Alphabet)
  BY <1>1, SubSeqProperties
<1>3. SubSeq(s, 1, p) \o SubSeq(s, p + 1, p + k) = SubSeq(s, 1, p + k)
  BY <1>1
<1>4. QED
  BY <1>2, <1>3

(* The bytes that are written back after a look ahead. *)
LEMMA FirstBytes ==
    ASSUME NEW s \in Seq(Alphabet), NEW p \in Nat
    PROVE  /\ p + 1 <= Len(s) => SubSeq(s, p + 1, p + 1) = <<s[p + 1]>>
           /\ IsAt(s, <<CR, LF>>, p) =>
                /\ SubSeq(s, p + 1, p + 2) = <<CR, LF>> /\ p + 2 <= Len(s)
                /\ s[p + 1] = CR /\ s[p + 2] = LF
           /\ IsAt(s, <<CR, LF, DASH>>, p) =>
                /\ SubSeq(s, p + 1, p + 3) = <<CR, LF, DASH>> /\ p + 3 <= Len(s)
                /\ s[p + 1] = CR /\ s[p + 2] = LF /\ s[p + 3] = DASH
           /\ IsAt(s, <<CR, LF, DASH, DASH>>, p) =>
                /\ SubSeq(s, p + 1, p + 4) = <<CR, LF, DASH, DASH>> /\ p + 4 <= Len(s)
                /\ s[p + 1] = CR /\ s[p + 2] = LF /\ s[p + 3] = DASH /\ s[p + 4] = DASH
<1>1. Len(s) \in Nat
  OBVIOUS
<1>2. ASSUME p + 1 <= Len(s)
      PROVE  SubSeq(s, p + 1, p + 1) = <<s[p + 1]>>
  <2> DEFINE t == SubSeq(s, p + 1, p + 1)
  <2>1. t \in Seq(Alphabet) /\ Len(t) = 1 /\ t[1] = s[p + 1]
    BY <1>1, <1>2, SubSeqProperties
  <2> HIDE DEF t
  <2>2. t = <<t[1]>>
    BY <2>1
  <2>3. QED
    BY <2>1, <2>2 DEF t
<1>3. ASSUME NEW k \in 2 .. 4, p + k <= Len(s)
      PROVE  \A i \in 1 .. k : s[p + i] = SubSeq(s, p + 1, p + k)[i]
  BY <1>1, <1>3, SubSeqProperties
<1>4. ASSUME IsAt(s, <<CR, LF>>, p)
      PROVE  /\ SubSeq(s, p + 1, p + 2) = <<CR, LF>> /\ p + 2 <= Len(s)
             /\ s[p + 1] = CR /\ s[p + 2] = LF
  <2>1. SubSeq(s, p + 1, p + 2) = <<CR, LF>> /\ p + 2 <= Len(s)
    BY <1>4 DEF IsAt
  <2>2. \A i \in 1 .. 2 : s[p + i] = <<CR, LF>>[i]
    <3>1. 2 \in 2 .. 4
      OBVIOUS
    <3>2. QED
      BY <1>3, <2>1, <3>1, Zenon
  <2>3. QED
    BY <2>1, <2>2
<1>5. ASSUME IsAt(s, <<CR, LF, DASH>>, p)
      PROVE  /\ SubSeq(s, p + 1, p + 3) = <<CR, LF, DASH>> /\ p + 3 <= Len(s)
             /\ s[p + 1] = CR /\ s[p + 2] = LF /\ s[p + 3] = DASH
  <2>1. SubSeq(s, p + 1, p + 3) = <<CR, LF, DASH>> /\ p + 3 <= Len(s)
    BY <1>5 DEF IsAt
  <2>2. \A i \in 1 .. 3 : s[p + i] = <<CR, LF, DASH>>[i]
    <3>1. 3 \in 2 .. 4
      OBVIOUS
    <3>2. QED
      BY <1>3, <2>1, <3>1, Zenon
  <2>3. QED
    BY <2>1, <2>2
<1>6. ASSUME IsAt(s, <<CR, LF, DASH, DASH>>, p)
      PROVE  /\ SubSeq(s, p + 1, p + 4) = <<CR, LF, DASH, DASH>> /\ p + 4 <= Len(s)
             /\ s[p + 1] = CR /\ s[p + 2] = LF /\ s[p + 3] = DASH /\ s[p + 4] = DASH
  <2>1. SubSeq(s, p + 1, p + 4) = <<CR, LF, DASH, DASH>> /\ p + 4 <= Len(s)
    BY <1>6 DEF IsAt
  <2>2. \A i \in 1 .. 4 : s[p + i] = <<CR, LF, DASH, DASH>>[i]
    <3>1. 4 \in 2 .. 4
      OBVIOUS
    <3>2. QED
      BY <1>3, <2>1, <3>1, Zenon
  <2>3. QED
    BY <2>1, <2>2
<1>7. QED
  BY <1>2, <1>4, <1>5, <1>6

-----------------------------------------------------------------------------
(* The steps *)

(* Nothing has been uploaded yet. *)
LEMMA NoUploadOK ==
    ASSUME NEW keys \in Seq(Keys), Len(keys) <= MAX_KEYS
    PROVE  /\ UpOK(NoUpload(keys)) /\ Whole(NoUpload(keys))
           /\ NoUpload(keys).handed \o NoUpload(keys).buf = <<>>
<1> DEFINE u == NoUpload(keys)
<1>1. /\ u \in UpState /\ u.buf = <<>> /\ u.handed = <<>> /\ u.keys = keys /\ u.before = keys
  BY DEF NoUpload, UpState
<1>2. Words(<<>>) = {}
  <2>1. ASSUME NEW k PROVE k \notin Words(<<>>)
    <3>1. 0 .. Len(<<>>) - 1 = {}
      OBVIOUS
    <3>2. QED
      BY <3>1, InWords
  <2>2. QED
    BY <2>1
<1> HIDE DEF u
<1>3. UpOK(u)
  BY <1>1, <1>2, SizesAssumption DEF UpOK, KeysOK
<1>4. Whole(u)
  BY <1>1, PlaceOfFirst DEF Whole
<1>5. u.handed \o u.buf = <<>>
  BY <1>1
<1>6. QED
  BY <1>3, <1>4, <1>5 DEF u

(* FormInv holds when the form arrives. *)
LEMMA InitStep ==
    FormInit => FormInv
<1> SUFFICES ASSUME FormInit PROVE FormInv
  OBVIOUS
<1>1. UpOK(up)
  <2>1. <<>> \in Seq(Keys) /\ Len(<<>>) <= MAX_KEYS
    BY SizesAssumption
  <2>2. QED
    BY <2>1, NoUploadOK DEF FormInit
<1>2. form \in Seq({"arg", "file"}) /\ form # <<>> /\ Len(form) \in Nat /\ Len(form) > 0
  <2>1. form \in Seq({"arg", "file"}) /\ form # <<>>
    BY FormsAssumption DEF FormInit
  <2>2. QED
    BY <2>1, EmptySeq
<1>3. Len(stream) \in Nat
  BY StreamShape DEF FormInit
<1>4. PartsOK /\ EndMissed
  <2>1. garbled \in BOOLEAN
    BY Zenon DEF FormInit
  <2>2. pc = "start" /\ part = 1 /\ form \in Forms /\ file \in Files
    BY DEF FormInit
  <2>3. QED
    BY <1>2, <2>1, <2>2 DEF PartsOK, EndMissed
<1>5. BytesOK
  BY <1>1, <1>3 DEF FormInit, BytesOK
<1>6. DelimiterSeen
  BY DEF FormInit, DelimiterSeen
<1>7. QED
  BY <1>4, <1>5, <1>6 DEF FormInv

(* What the invariant says of the lengths. *)
LEMMA InvFacts ==
    ASSUME FormInv
    PROVE  /\ form \in Seq({"arg", "file"}) /\ Len(form) \in Nat /\ Len(form) > 0
           /\ part \in Nat /\ part >= 1 /\ part <= Len(form) + 1
           /\ pos \in Nat /\ pos <= Len(stream) /\ file \in Files /\ garbled \in BOOLEAN
           /\ up.keys \in Seq(Keys) /\ Len(up.keys) <= MAX_KEYS /\ UpOK(up)
<1>1. form \in Seq({"arg", "file"}) /\ form # <<>>
  BY FormsAssumption DEF FormInv, PartsOK
<1>2. Len(form) \in Nat /\ Len(form) > 0
  BY <1>1, EmptySeq
<1>3. file \in Files /\ garbled \in BOOLEAN /\ UpOK(up) /\ pos \in 0 .. Len(stream) /\ part \in 1 .. Len(form) + 1
  BY DEF FormInv, PartsOK, BytesOK
<1>4. Len(stream) \in Nat
  BY <1>3, StreamShape
<1>5. up.keys \in Seq(Keys) /\ Len(up.keys) <= MAX_KEYS
  BY <1>3, UpFields DEF UpOK
<1>6. QED
  BY <1>1, <1>2, <1>3, <1>4, <1>5

(* A step between two parts that leaves the upload alone. *)
LEMMA LineStep ==
    ASSUME FormInv, FirstLine \/ NoFirstLine \/ ArgPart \/ LineCut \/ _parseFormUploadAborted
    PROVE  FormInv'
<1>1. /\ form \in Seq({"arg", "file"}) /\ Len(form) \in Nat /\ Len(form) > 0
      /\ part \in Nat /\ part >= 1 /\ part <= Len(form) + 1
  BY InvFacts
<1>2. UNCHANGED <<form, file, pos, up>>
  BY DEF FirstLine, NoFirstLine, ArgPart, LineCut, _parseFormUploadAborted
<1>3. PartsOK' /\ EndMissed'
  <2>1. CASE FirstLine
    BY <1>1, <2>1 DEF FirstLine, FormInv, PartsOK, EndMissed, Ended
  <2>2. CASE NoFirstLine
    BY <1>1, <2>2 DEF NoFirstLine, FormInv, PartsOK, EndMissed, Ended
  <2>3. CASE ArgPart
    BY <1>1, <2>3 DEF ArgPart, FormInv, PartsOK, EndMissed, Ended
  <2>4. CASE LineCut
    BY <1>1, <2>4 DEF LineCut, FormInv, PartsOK, EndMissed, Ended
  <2>5. CASE _parseFormUploadAborted
    BY <1>1, <2>5 DEF _parseFormUploadAborted, FormInv, PartsOK, EndMissed, Ended
  <2>6. QED
    BY <2>1, <2>2, <2>3, <2>4, <2>5
<1>4. pc' # "file" /\ stream' = stream
  BY <1>2 DEF FirstLine, NoFirstLine, ArgPart, LineCut, _parseFormUploadAborted, FormInv, PartsOK, stream
<1>5. ASSUME pc' \in {"part", "done"}, ~garbled', FileBehind'
      PROVE  up.handed = file
  <2>1. CASE FirstLine
    BY <1>5, <2>1 DEF FirstLine, FormInv, PartsOK, FileBehind
  <2>2. CASE ArgPart
    <3>1. FileBehind
      <4>1. PICK i \in 1 .. part : form[i] = "file"
        BY <1>1, <1>5, <2>2 DEF ArgPart, FileBehind
      <4>2. i # part
        BY <2>2, <4>1 DEF ArgPart
      <4>3. QED
        BY <1>1, <4>1, <4>2 DEF FileBehind
    <3>2. QED
      BY <1>5, <2>2, <3>1 DEF ArgPart, FormInv, BytesOK
  <2>3. CASE NoFirstLine \/ LineCut \/ _parseFormUploadAborted
    BY <1>5, <2>3 DEF NoFirstLine, LineCut, _parseFormUploadAborted
  <2>4. QED
    BY <2>1, <2>2, <2>3
<1>6. BytesOK'
  BY <1>2, <1>4, <1>5 DEF FormInv, BytesOK
<1>7. DelimiterSeen'
  BY <1>4 DEF DelimiterSeen
<1>8. QED
  BY <1>3, <1>6, <1>7 DEF FormInv

(* A step that begins an upload, or a form from its start. *)
LEMMA FreshStep ==
    ASSUME FormInv, FilePart \/ Watchdog \/ Again
    PROVE  FormInv'
<1>1. /\ form \in Seq({"arg", "file"}) /\ Len(form) \in Nat /\ Len(form) > 0
      /\ part \in Nat /\ part >= 1 /\ part <= Len(form) + 1
      /\ up.keys \in Seq(Keys) /\ Len(up.keys) <= MAX_KEYS /\ file \in Files
  BY InvFacts
<1>2. UNCHANGED <<form, file>> /\ pos' = 0 /\ stream' = stream
  BY DEF FilePart, Watchdog, Again, stream
<1>3. /\ UpOK(up') /\ Whole(up') /\ up'.handed \o up'.buf = <<>>
  <2>1. <<>> \in Seq(Keys) /\ Len(<<>>) <= MAX_KEYS
    BY SizesAssumption
  <2>2. up' = NoUpload(up.keys) \/ up' = NoUpload(<<>>)
    BY DEF FilePart, Watchdog, Again
  <2>3. CASE up' = NoUpload(up.keys)
    BY <1>1, <2>3, NoUploadOK
  <2>4. CASE up' = NoUpload(<<>>)
    BY <2>1, <2>4, NoUploadOK
  <2>5. QED
    BY <2>2, <2>3, <2>4
<1>4. Len(stream) \in Nat /\ stream \in Seq(Alphabet) /\ SubSeq(stream, 1, 0) = <<>>
  <2>1. stream \in Seq(Alphabet)
    BY <1>1, StreamShape
  <2>2. QED
    BY <2>1, SubSeqEmpty
<1>5. PartsOK' /\ EndMissed' /\ pc' \in {"file", "start"}
  <2>1. CASE FilePart
    BY <1>1, <2>1 DEF FilePart, FormInv, PartsOK, EndMissed, Ended
  <2>2. CASE Watchdog
    <3>1. garbled' \in BOOLEAN
      BY <2>2, Zenon DEF Watchdog
    <3>2. pc' = "start" /\ part' = 1 /\ UNCHANGED <<form, file>>
      BY <2>2 DEF Watchdog
    <3>3. form \in Forms /\ file \in Files
      BY DEF FormInv, PartsOK
    <3>4. QED
      BY <1>1, <3>1, <3>2, <3>3 DEF PartsOK, EndMissed
  <2>3. CASE Again
    <3>1. garbled' \in BOOLEAN
      BY <2>3, Zenon DEF Again
    <3>2. pc' = "start" /\ part' = 1 /\ UNCHANGED <<form, file>>
      BY <2>3 DEF Again
    <3>3. form \in Forms /\ file \in Files
      BY DEF FormInv, PartsOK
    <3>4. QED
      BY <1>1, <3>1, <3>2, <3>3 DEF PartsOK, EndMissed
  <2>4. QED
    BY <2>1, <2>2, <2>3
<1>6. BytesOK'
  BY <1>2, <1>3, <1>4, <1>5 DEF BytesOK
<1>7. DelimiterSeen'
  <2>1. Len(file) \in Nat
    BY <1>1, StreamShape
  <2>2. QED
    BY <1>2, <2>1 DEF DelimiterSeen
<1>8. QED
  BY <1>5, <1>6, <1>7 DEF FormInv

(* k bytes are read and written: the step of the whole loop over the bytes.
   It passes the end of the file only over a look-alike of the delimiter. *)
LEMMA ReadStep ==
    ASSUME FormInv, pc = "file", NEW k \in Nat, Arrived(k),
           WriteBytes(SubSeq(stream, pos + 1, pos + k)), ReadFile(k),
           pos <= Len(file) => pos + k <= Len(file) \/ LookAlike
    PROVE  FormInv'
<1>1. /\ pos \in Nat /\ pos <= Len(stream) /\ file \in Files /\ UpOK(up)
  BY InvFacts
<1>2. /\ UNCHANGED <<form, file, part, pc, garbled>> /\ pos' = pos + k
      /\ stream' = stream /\ pos + k <= Len(stream)
  BY DEF ReadFile, Arrived, stream
<1>3. stream \in Seq(Alphabet) /\ Len(stream) \in Nat /\ Len(file) \in Nat
  BY <1>1, StreamShape
<1> DEFINE b == SubSeq(stream, pos + 1, pos + k)
<1>4. b \in Seq(Alphabet) /\ SubSeq(stream, 1, pos) \o b = SubSeq(stream, 1, pos + k)
  BY <1>1, <1>2, <1>3, ReadOn
<1>5. up' = Written(up, b) /\ Whole(up)
  BY DEF WriteBytes, FormInv, BytesOK
<1>6. /\ UpOK(up') /\ Whole(up') /\ up'.handed \o up'.buf = (up.handed \o up.buf) \o b
  <2> HIDE DEF b
  <2>1. QED
    BY <1>1, <1>4, <1>5, WrittenOK
<1>7. ~garbled => up'.handed \o up'.buf = SubSeq(stream, 1, pos + k)
  <2> HIDE DEF b
  <2>1. ~garbled => up.handed \o up.buf = SubSeq(stream, 1, pos)
    BY DEF FormInv, BytesOK
  <2>2. QED
    BY <1>4, <1>6, <2>1
<1>8. PartsOK' /\ EndMissed'
  BY <1>2 DEF FormInv, PartsOK, EndMissed
<1>9. BytesOK'
  <2>1. pos' \in 0 .. Len(stream') /\ pc' = "file"
    BY <1>1, <1>2, <1>3
  <2>2. ~garbled' => up'.handed \o up'.buf = SubSeq(stream', 1, pos')
    BY <1>2, <1>7, Zenon
  <2>3. QED
    BY <1>6, <2>1, <2>2 DEF BytesOK
<1>10. DelimiterSeen'
  <2> SUFFICES ASSUME ~garbled, pos + k > Len(file)
               PROVE  LookAlike
    BY <1>2 DEF DelimiterSeen, LookAlike
  <2>1. CASE pos <= Len(file)
    BY <1>1, <1>3, <2>1
  <2>2. CASE pos > Len(file)
    BY <2>2 DEF FormInv, DelimiterSeen, LookAlike
  <2>3. QED
    BY <1>1, <1>3, <2>1, <2>2
<1>11. QED
  BY <1>8, <1>9, <1>10 DEF FormInv

(* A byte of the file that is not \r is written. *)
LEMMA ByteStep ==
    ASSUME FormInv, Byte
    PROVE  FormInv'
<1>1. /\ pos \in Nat /\ file \in Files
  BY InvFacts
<1>2. /\ stream \in Seq(Alphabet) /\ Len(file) \in Nat /\ stream[Len(file) + 1] = CR
  BY <1>1, StreamShape
<1>3. pc = "file" /\ Arrived(1) /\ ReadFile(1) /\ WriteBytes(<<stream[pos + 1]>>) /\ stream[pos + 1] # CR
  BY DEF Byte
<1>4. SubSeq(stream, pos + 1, pos + 1) = <<stream[pos + 1]>>
  BY <1>1, <1>2, <1>3, FirstBytes DEF Arrived
<1>5. pos <= Len(file) => pos + 1 <= Len(file)
  BY <1>1, <1>2, <1>3
<1>6. QED
  BY <1>3, <1>4, <1>5, ReadStep

(* \r and another byte: the \r is written, and the byte comes next. *)
LEMMA LoneCRStep ==
    ASSUME FormInv, LoneCR
    PROVE  FormInv'
<1>1. /\ pos \in Nat /\ file \in Files
  BY InvFacts
<1>2. /\ stream \in Seq(Alphabet) /\ Len(stream) \in Nat /\ Len(file) \in Nat
      /\ stream[Len(file) + 1] = CR /\ stream[Len(file) + 2] = LF
  BY <1>1, StreamShape
<1>3. /\ pc = "file" /\ Arrived(2) /\ ReadFile(1) /\ WriteBytes(<<CR>>)
      /\ stream[pos + 1] = CR /\ stream[pos + 2] # LF
  BY DEF LoneCR
<1>4. Arrived(1)
  BY <1>1, <1>2, <1>3 DEF Arrived
<1>5. SubSeq(stream, pos + 1, pos + 1) = <<CR>>
  BY <1>1, <1>2, <1>3, <1>4, FirstBytes DEF Arrived
<1>6. pos <= Len(file) => pos + 1 <= Len(file)
  BY <1>1, <1>2, <1>3
<1>7. QED
  BY <1>3, <1>4, <1>5, <1>6, ReadStep

(* \r\n and a byte that is not "-": both are written. *)
LEMMA NewLineStep ==
    ASSUME FormInv, NewLine
    PROVE  FormInv'
<1>1. /\ pos \in Nat /\ file \in Files
  BY InvFacts
<1>2. /\ stream \in Seq(Alphabet) /\ Len(stream) \in Nat /\ Len(file) \in Nat
      /\ stream[Len(file) + 1] = CR /\ stream[Len(file) + 3] = DASH
  BY <1>1, StreamShape
<1>3. /\ pc = "file" /\ ReadFile(2) /\ WriteBytes(<<CR, LF>>)
      /\ IsAt(stream, <<CR, LF>>, pos) /\ stream[pos + 3] # DASH
  BY DEF NewLine
<1>4. /\ SubSeq(stream, pos + 1, pos + 2) = <<CR, LF>> /\ Arrived(2)
      /\ stream[pos + 1] = CR /\ stream[pos + 2] = LF
  BY <1>1, <1>2, <1>3, FirstBytes DEF Arrived
<1>5. pos <= Len(file) => pos + 2 <= Len(file)
  <2>1. pos # Len(file)
    BY <1>2, <1>3
  <2>2. pos + 1 # Len(file)
    <3>1. ASSUME pos + 1 = Len(file) PROVE stream[pos + 2] = CR
      BY <1>1, <1>2, <3>1
    <3>2. QED
      BY <1>4, <3>1, BytesAssumption
  <2>3. QED
    BY <1>1, <1>2, <2>1, <2>2
<1>6. QED
  BY <1>3, <1>4, <1>5, ReadStep

(* \r\n- and a byte that is not "-": the three are written. *)
LEMMA NewLineDashStep ==
    ASSUME FormInv, NewLineDash
    PROVE  FormInv'
<1>1. /\ pos \in Nat /\ file \in Files
  BY InvFacts
<1>2. /\ stream \in Seq(Alphabet) /\ Len(stream) \in Nat /\ Len(file) \in Nat
      /\ stream[Len(file) + 1] = CR /\ stream[Len(file) + 4] = DASH
  BY <1>1, StreamShape
<1>3. /\ pc = "file" /\ ReadFile(3) /\ WriteBytes(<<CR, LF, DASH>>)
      /\ IsAt(stream, <<CR, LF, DASH>>, pos) /\ stream[pos + 4] # DASH
  BY DEF NewLineDash
<1>4. /\ SubSeq(stream, pos + 1, pos + 3) = <<CR, LF, DASH>> /\ Arrived(3)
      /\ stream[pos + 1] = CR /\ stream[pos + 2] = LF /\ stream[pos + 3] = DASH
  BY <1>1, <1>2, <1>3, FirstBytes DEF Arrived
<1>5. pos <= Len(file) => pos + 3 <= Len(file)
  <2>1. pos # Len(file)
    BY <1>2, <1>3
  <2>2. pos + 1 # Len(file)
    <3>1. ASSUME pos + 1 = Len(file) PROVE stream[pos + 2] = CR
      BY <1>1, <1>2, <3>1
    <3>2. QED
      BY <1>4, <3>1, BytesAssumption
  <2>3. pos + 2 # Len(file)
    <3>1. ASSUME pos + 2 = Len(file) PROVE stream[pos + 3] = CR
      BY <1>1, <1>2, <3>1
    <3>2. QED
      BY <1>4, <3>1, BytesAssumption
  <2>4. QED
    BY <1>1, <1>2, <2>1, <2>2, <2>3
<1>6. QED
  BY <1>3, <1>4, <1>5, ReadStep

(* What looks like a delimiter, and is not the one behind the file, is in the
   file. *)
LEMMA DashesInFile ==
    ASSUME file \in Files, NEW p \in Nat, p < Len(file), IsAt(stream, <<CR, LF, DASH, DASH>>, p)
    PROVE  IsAt(file, <<CR, LF, DASH, DASH>>, p)
<1>1. /\ stream \in Seq(Alphabet) /\ Len(stream) \in Nat
      /\ file \in Seq(Alphabet) /\ Len(file) \in Nat /\ Delimiter \in Seq(Alphabet)
      /\ stream[Len(file) + 1] = CR
  BY StreamShape
<1>2. /\ SubSeq(stream, p + 1, p + 4) = <<CR, LF, DASH, DASH>>
      /\ stream[p + 2] = LF /\ stream[p + 3] = DASH /\ stream[p + 4] = DASH
  BY <1>1, FirstBytes
<1>3. p + 4 <= Len(file)
  <2>1. p + 1 # Len(file)
    <3>1. ASSUME p + 1 = Len(file) PROVE stream[p + 2] = CR
      BY <1>1, <3>1
    <3>2. QED
      BY <1>2, <3>1, BytesAssumption
  <2>2. p + 2 # Len(file)
    <3>1. ASSUME p + 2 = Len(file) PROVE stream[p + 3] = CR
      BY <1>1, <3>1
    <3>2. QED
      BY <1>2, <3>1, BytesAssumption
  <2>3. p + 3 # Len(file)
    <3>1. ASSUME p + 3 = Len(file) PROVE stream[p + 4] = CR
      BY <1>1, <3>1
    <3>2. QED
      BY <1>2, <3>1, BytesAssumption
  <2>4. QED
    BY <1>1, <2>1, <2>2, <2>3
<1>4. SubSeq(file \o Delimiter, p + 1, p + 4) = SubSeq(file, p + 1, p + 4)
  BY <1>1, <1>3, SubSeqOfConcat1
<1>5. Len(<<CR, LF, DASH, DASH>>) = 4
  OBVIOUS
<1>6. QED
  BY <1>2, <1>3, <1>4, <1>5 DEF IsAt, stream

(* \r\n-- and bytes that are not the boundary: all of them are written. *)
LEMMA NotTheBoundaryStep ==
    ASSUME FormInv, NotTheBoundary
    PROVE  FormInv'
<1>1. /\ pos \in Nat /\ pos <= Len(stream) /\ file \in Files
  BY InvFacts
<1>2. /\ Len(stream) \in Nat /\ Len(file) \in Nat /\ Len(Delimiter) \in Nat
  BY <1>1, StreamShape
<1>3. /\ pc = "file" /\ Arrived(Len(Delimiter)) /\ IsAt(stream, <<CR, LF, DASH, DASH>>, pos)
      /\ ~IsAt(stream, Delimiter, pos) /\ ReadFile(Len(Delimiter))
      /\ WriteBytes(SubSeq(stream, pos + 1, pos + Len(Delimiter)))
  BY DEF NotTheBoundary, Dashes
<1>4. pos # Len(file)
  BY <1>1, <1>2, <1>3, DelimiterPlace
<1>5. pos <= Len(file) => pos + Len(Delimiter) <= Len(file) \/ LookAlike
  <2> SUFFICES ASSUME pos < Len(file), pos + Len(Delimiter) > Len(file)
               PROVE  LookAlike
    BY <1>1, <1>2, <1>4
  <2>1. IsAt(file, <<CR, LF, DASH, DASH>>, pos)
    BY <1>1, <1>3, DashesInFile
  <2>2. pos \in Len(file) - Len(Delimiter) .. Len(file) /\ pos >= 0
    BY <1>1, <1>2
  <2>3. QED
    BY <2>1, <2>2 DEF LookAlike
<1>6. QED
  BY <1>2, <1>3, <1>5, ReadStep

(* The end of a file part, in time or not. *)
LEMMA EndOfFileStep ==
    ASSUME FormInv, pc = "file", EndOfFile, pos' \in 0 .. Len(stream), garbled' \in BOOLEAN,
           ~garbled' => ~garbled /\ pos = Len(file)
    PROVE  FormInv'
<1>1. /\ form \in Seq({"arg", "file"}) /\ Len(form) \in Nat /\ Len(form) > 0
      /\ part \in Nat /\ part >= 1 /\ part <= Len(form) /\ file \in Files /\ UpOK(up) /\ Whole(up)
  BY InvFacts DEF FormInv, PartsOK, BytesOK
<1>2. /\ UNCHANGED <<form, file>> /\ stream' = stream /\ part' = part + 1
      /\ pc' = IF part = Len(form) THEN "done" ELSE "part"
      /\ up' = handleUploadFile(up)
  BY DEF EndOfFile, stream
<1>3. UpOK(up') /\ up'.handed = up.handed \o up.buf
  BY <1>1, <1>2, HandOver
<1>4. ASSUME ~garbled'
      PROVE  up'.handed = file
  <2>1. up.handed \o up.buf = SubSeq(stream, 1, Len(file))
    BY <1>4 DEF FormInv, BytesOK
  <2>2. SubSeq(stream, 1, Len(file)) = file
    <3>1. file \in Seq(Alphabet) /\ Delimiter \in Seq(Alphabet)
      BY <1>1, StreamShape
    <3>2. SubSeq(file \o Delimiter, 1, Len(file)) = file
      BY <3>1, ConcatSimplifications
    <3>3. QED
      BY <3>2 DEF stream
  <2>3. QED
    BY <1>3, <2>1, <2>2
<1>5. PartsOK' /\ EndMissed'
  <2>1. form \in Forms /\ file \in Files
    BY DEF FormInv, PartsOK
  <2>2. QED
    BY <1>1, <1>2, <2>1 DEF PartsOK, EndMissed, Ended
<1>6. BytesOK'
  <2>1. pc' # "file"
    BY <1>2
  <2>2. QED
    BY <1>2, <1>3, <1>4, <2>1 DEF BytesOK
<1>7. DelimiterSeen'
  BY <1>2 DEF DelimiterSeen
<1>8. QED
  BY <1>5, <1>6, <1>7 DEF FormInv

(* \r\n-- and the boundary end the file. *)
LEMMA TheBoundaryStep ==
    ASSUME FormInv, TheBoundary
    PROVE  FormInv'
<1>1. /\ pos \in Nat /\ pos <= Len(stream) /\ file \in Files /\ garbled \in BOOLEAN
  BY InvFacts
<1>2. Len(stream) \in Nat
  BY <1>1, StreamShape
<1>3. pc = "file" /\ IsAt(stream, Delimiter, pos) /\ EndOfFile /\ UNCHANGED <<pos, garbled>>
  BY DEF TheBoundary, Dashes
<1>4. pos = Len(file)
  BY <1>1, <1>2, <1>3, DelimiterPlace
<1>5. pos' \in 0 .. Len(stream) /\ garbled' \in BOOLEAN
  BY <1>1, <1>2, <1>3
<1>6. QED
  BY <1>3, <1>4, <1>5, EndOfFileStep

(* Too few bytes of the boundary come in time: endBuf is compared, and written,
   with what was on the stack. *)
LEMMA EndBufShortStep ==
    ASSUME FormInv, EndBufShort
    PROVE  FormInv'
<1>1. /\ pos \in Nat /\ pos <= Len(stream) /\ file \in Files /\ UpOK(up)
  BY InvFacts
<1>2. /\ stream \in Seq(Alphabet) /\ Len(stream) \in Nat /\ Len(Boundary) \in Nat
      /\ Boundary \in Seq(Alphabet) /\ DASH \in Alphabet
  BY <1>1, StreamShape, BytesAssumption
<1> DEFINE Rests(m) == {SubSeq(Boundary, m + 1, Len(Boundary)), [i \in 1 .. Len(Boundary) - m |-> DASH]}
<1>3. PICK m \in 0 .. Len(Boundary) - 1 :
        /\ Dashes(4 + m)
        /\ garbled' = TRUE
        /\ pos' = pos + 4 + m
        /\ \/ EndOfFile
           \/ \E rest \in Rests(m) :
                /\ WriteBytes(SubSeq(stream, pos + 1, pos + 4 + m) \o rest)
                /\ UNCHANGED <<form, file, part, pc>>
  BY DEF EndBufShort
<1>4. pc = "file" /\ pos + (4 + m) <= Len(stream)
  BY <1>3 DEF Dashes, Arrived
<1>5. pos' \in 0 .. Len(stream)
  BY <1>1, <1>2, <1>3, <1>4
<1>6. garbled' \in BOOLEAN /\ ~(~garbled')
  BY <1>3, Zenon
<1>7. CASE EndOfFile
  BY <1>4, <1>5, <1>6, <1>7, EndOfFileStep
<1>8. ASSUME NEW rest \in Rests(m),
             WriteBytes(SubSeq(stream, pos + 1, pos + 4 + m) \o rest),
             UNCHANGED <<form, file, part, pc>>
      PROVE  FormInv'
  <2>1. rest \in Seq(Alphabet)
    <3>1. SubSeq(Boundary, m + 1, Len(Boundary)) \in Seq(Alphabet)
      BY <1>2, SubSeqProperties
    <3>2. [i \in 1 .. Len(Boundary) - m |-> DASH] \in Seq(Alphabet)
      <4>1. Len(Boundary) - m \in Nat
        BY <1>2
      <4>2. QED
        BY <1>2, <4>1, IsASeq
    <3>3. QED
      BY <3>1, <3>2
  <2>2. SubSeq(stream, pos + 1, pos + 4 + m) \in Seq(Alphabet)
    <3>1. 4 + m \in Nat /\ pos + (4 + m) = pos + 4 + m
      BY <1>1, <1>2
    <3>2. QED
      BY <1>1, <1>2, <1>4, <3>1, ReadOn
  <2> DEFINE b == SubSeq(stream, pos + 1, pos + 4 + m) \o rest
  <2>3. b \in Seq(Alphabet)
    BY <2>1, <2>2, ConcatProperties
  <2>4. up' = Written(up, b) /\ Whole(up)
    BY <1>4, <1>8 DEF WriteBytes, FormInv, BytesOK
  <2> HIDE DEF b
  <2>5. UpOK(up') /\ Whole(up')
    BY <1>1, <2>3, <2>4, WrittenOK
  <2>6. stream' = stream /\ pc' = "file"
    BY <1>4, <1>8 DEF stream
  <2>7. PartsOK' /\ EndMissed'
    BY <1>6, <1>8, <2>6 DEF FormInv, PartsOK, EndMissed
  <2>8. BytesOK'
    BY <1>5, <1>6, <2>5, <2>6 DEF BytesOK
  <2>9. DelimiterSeen'
    BY <1>6 DEF DelimiterSeen
  <2>10. QED
    BY <2>7, <2>8, <2>9 DEF FormInv
<1>9. QED
  BY <1>3, <1>7, <1>8

(* No step breaks the invariant. *)
LEMMA FormStep ==
    FormInv /\ [FormNext]_formVars => FormInv'
<1> SUFFICES ASSUME FormInv, [FormNext]_formVars
             PROVE  FormInv'
  OBVIOUS
<1>1. CASE UNCHANGED formVars
  <2>1. UNCHANGED <<form, file, part, pc, pos, up, garbled>> /\ stream' = stream
    BY <1>1 DEF formVars, stream
  <2>2. PartsOK' /\ EndMissed'
    BY <2>1 DEF FormInv, PartsOK, EndMissed
  <2>3. BytesOK'
    BY <2>1 DEF FormInv, BytesOK, FileBehind
  <2>4. DelimiterSeen'
    BY <2>1 DEF FormInv, DelimiterSeen
  <2>5. QED
    BY <2>2, <2>3, <2>4 DEF FormInv
<1>2. CASE FormNext
  BY <1>2, LineStep, FreshStep, ByteStep, LoneCRStep, NewLineStep, NewLineDashStep,
     NotTheBoundaryStep, TheBoundaryStep, EndBufShortStep
  DEF FormNext, _parseForm, Lines, Bytes
<1>3. QED
  BY <1>1, <1>2

(* The invariant of the form parser holds in every reachable state. *)
THEOREM FormInvariant == FormSpec => []FormInv
<1>1. FormInit => FormInv
  BY InitStep
<1>2. FormInv /\ [FormNext]_formVars => FormInv'
  BY FormStep
<1>3. QED
  BY <1>1, <1>2, PTL DEF FormSpec

(* Nothing that is read from the form is lost, doubled or moved on its way
   through _parseForm and its buffer, for any file and any boundary. *)
THEOREM NothingIsLost == FormSpec => []NothingLost
<1>1. FormInv => NothingLost
  <2> SUFFICES ASSUME FormInv PROVE NothingLost
    OBVIOUS
  <2>1. form \in Seq({"arg", "file"}) /\ Len(form) \in Nat
    BY InvFacts
  <2>2. FormTypeOK
    BY DEF FormInv, PartsOK, BytesOK, UpOK, FormTypeOK
  <2>3. pc = "file" /\ ~garbled => up.handed \o up.buf = SubSeq(stream, 1, pos)
    BY DEF FormInv, BytesOK
  <2>4. ASSUME pc = "done", ~garbled, Contains(form, "file")
        PROVE  up.handed = file
    <3>1. part = Len(form) + 1
      BY <2>4 DEF FormInv, PartsOK
    <3>2. FileBehind
      BY <2>1, <2>4, <3>1 DEF FileBehind, Contains
    <3>3. QED
      BY <2>4, <3>2 DEF FormInv, BytesOK
  <2>5. QED
    BY <2>2, <2>3, <2>4 DEF NothingLost
<1>2. QED
  BY <1>1, FormInvariant, PTL

(* The parser passes the end of the file only if something like a delimiter is
   close to it. *)
THEOREM EndIsSeen == FormSpec => []DelimiterSeen
<1>1. FormInv => DelimiterSeen
  BY DEF FormInv
<1>2. QED
  BY <1>1, FormInvariant, PTL

(* An upload adds words of the file and nothing else; all of them, unless one
   is refused or the store is full: scanForKeys over buffers of any length. *)
THEOREM UploadAddsWords == FormSpec => []KeysAreWords
<1>1. FormInv => KeysAreWords
  <2> SUFFICES ASSUME FormInv, ~garbled, pc = "done", Contains(form, "file")
               PROVE  /\ ToSet(up.keys) \subseteq ToSet(up.before) \cup Words(file)
                      /\ ~up.refused /\ Len(up.keys) < MAX_KEYS =>
                           ToSet(up.keys) = ToSet(up.before) \cup Words(file)
    BY DEF KeysAreWords
  <2>1. form \in Seq({"arg", "file"}) /\ Len(form) \in Nat /\ KeysOK(up)
    BY InvFacts DEF UpOK
  <2>2. part = Len(form) + 1
    BY DEF FormInv, PartsOK
  <2>3. FileBehind
    BY <2>1, <2>2 DEF FileBehind, Contains
  <2>4. up.handed = file
    BY <2>3 DEF FormInv, BytesOK
  <2>5. QED
    BY <2>1, <2>4 DEF KeysOK
<1>2. QED
  BY <1>1, FormInvariant, PTL

(* The loop over the parts runs past the last one only after a line that was
   cut short. *)
THEOREM EndIsMissedOnlyLate == FormSpec => []EndMissed
<1>1. FormInv => EndMissed
  BY DEF FormInv
<1>2. QED
  BY <1>1, FormInvariant, PTL
=============================================================================
