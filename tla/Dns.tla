-------------------------------- MODULE Dns ---------------------------------
(***************************************************************************)
(* The name server of the captive portal.  DNSServer answers every host    *)
(* name with the address of the access point; it runs on WiFiUDP, whose    *)
(* parsePacket counts the errors of recvfrom and reopens the socket after  *)
(* ErrorLimit of them in a row.  loop() calls processNextRequest once a    *)
(* round, and nothing else touches the server, so a call is one step.      *)
(*                                                                         *)
(* A packet has the sender, the name it asks for and a kind: "host" (one   *)
(* question and nothing else), "extra" (a query with more records, as one  *)
(* with EDNS, or another opcode), "response" (QR is set), "void" (no       *)
(* bytes).  Packets have a whole header and a name below 128 bytes.        *)
(***************************************************************************)
EXTENDS Integers, Sequences

CONSTANTS
    Client,          \* the stations that ask
    Name,            \* host names, without "www." and in lower case
    ErrorLimit,      \* 10, errors in a row before the socket is reopened
    Room,            \* bound: packets that wait in the socket
    MaxFaults        \* bound: faults of the network stack

ASSUME Bounds == ErrorLimit \in Nat \ {0} /\ Room \in Nat \ {0} /\ MaxFaults \in Nat

VARIABLES
    udp,             \* WiFiUDP: its socket, the error count, rx_buffer, remote
    _resolvedIP,     \* DNSServer: the address it answers
    waiting,         \* packets in the socket
    asks,            \* the name a station wants to know
    reply,           \* the last packet the server sent
    faults,          \* faults so far
    starved          \* history: malloc failed in processNextRequest

dnsVars == <<udp, _resolvedIP, waiting, asks, reply, faults, starved>>

Nobody == "nobody"
Nothing == "nothing"
apIP == "apIP"

Kind == {"host", "extra", "response", "void"}
Packet == [from : Client, name : Name, kind : Kind]
NoPacket == [from |-> Nobody, name |-> Nothing, kind |-> "none"]
NoReply == [to |-> Nobody, of |-> NoPacket, qr |-> "none", address |-> Nothing]
Address == {apIP, "elsewhere"}

(* hosts[], whose rows are all commented out; ntoh32 finds nothing in it. *)
hostsFilled == [n \in {CHOOSE n \in Name : TRUE} |-> "elsewhere"]

hosts == [n \in {} |-> apIP]

ntoh(name) == IF name \in DOMAIN hosts THEN hosts[name] ELSE Nothing

-----------------------------------------------------------------------------
(* WiFiUDP *)

stop(u) == [u EXCEPT !.socket = "closed", !.rx = NoPacket]

(* begin: a failure of socket() leaves no socket, one of setsockopt or bind
   stops the object again. *)
begin(u, works) == [stop(u) EXCEPT !.socket = IF works THEN "open" ELSE "closed"]

(* recvfrom fails on a socket that is not there, that no longer works, or by
   a passing error. *)
Fails == udp.socket # "open" \/ faults < MaxFaults
NewFault == IF udp.socket = "open" THEN faults + 1 ELSE faults

parsePacketFailsOnce ==
    /\ udp.rx = NoPacket /\ Fails /\ udp.enumb + 1 < ErrorLimit
    /\ udp' = [udp EXCEPT !.enumb = @ + 1]
    /\ faults' = NewFault
    /\ UNCHANGED waiting

(* A plausible slip: the object is stopped and not started again. *)
ReopenForgets ==
    /\ udp.rx = NoPacket /\ Fails /\ udp.enumb + 1 >= ErrorLimit
    /\ udp' = [stop(udp) EXCEPT !.enumb = 0]
    /\ waiting' = <<>>
    /\ faults' = NewFault

Reopen ==
    /\ udp.rx = NoPacket /\ Fails /\ udp.enumb + 1 >= ErrorLimit
    /\ waiting' = <<>>
    /\ \E works \in BOOLEAN :
         /\ works \/ NewFault < MaxFaults
         /\ udp' = [begin(udp, works) EXCEPT !.enumb = 0]
         /\ faults' = IF works THEN NewFault ELSE NewFault + 1

(* EWOULDBLOCK. *)
parsePacketEmpty ==
    /\ udp.rx = NoPacket /\ udp.socket = "open" /\ waiting = <<>>
    /\ udp' = [udp EXCEPT !.enumb = 0]
    /\ UNCHANGED <<waiting, faults>>

(* rx_buffer still holds the packet before: the socket is not asked. *)
parsePacketHolds == udp.rx # NoPacket /\ UNCHANGED <<udp, waiting, faults>>

parsePacketNone ==
    parsePacketFailsOnce \/ Reopen \/ parsePacketEmpty \/ parsePacketHolds

(* A packet with bytes is in rx_buffer afterwards, and its sender in
   remote_ip and remote_port; the error count stays. *)
Received(p) ==
    [udp EXCEPT !.rx = IF p.kind = "void" THEN NoPacket ELSE p, !.remote = p.from]

Receives == udp.rx = NoPacket /\ udp.socket = "open" /\ waiting # <<>>

(* As many bytes are read as parsePacket announced, which empties rx_buffer. *)
read(u) == [u EXCEPT !.rx = NoPacket]

(* The socket is there, since the packet came from it: only the remote end is
   set. *)
beginPacket(u, to) == [u EXCEPT !.remote = to]

(* The station it is for hears the packet, and is content with the answer to
   its question; or sendto fails, and nobody looks at the result. *)
endPacket(u, r) ==
    \/ /\ reply' = [r EXCEPT !.to = u.remote]
       /\ asks' = IF r.qr = "response" /\ asks[u.remote] = r.of.name
                  THEN [asks EXCEPT ![u.remote] = Nothing] ELSE asks
       /\ UNCHANGED faults
    \/ /\ faults < MaxFaults
       /\ faults' = faults + 1
       /\ UNCHANGED <<reply, asks>>

-----------------------------------------------------------------------------
(* DNSServer *)

(* The address of a known host replaces the answer for every later name. *)
Resolved(p) == IF ntoh(p.name) = Nothing THEN _resolvedIP ELSE ntoh(p.name)

Sends(u, r) ==
    /\ udp' = beginPacket(read(u), u.remote)
    /\ endPacket(beginPacket(read(u), u.remote), r)

replyWithIP(u, p) ==
    /\ Sends(u, [NoReply EXCEPT !.of = p, !.qr = "response", !.address = Resolved(p)])
    /\ _resolvedIP' = Resolved(p)

(* The changed header is not sent: the query goes back as it came. *)
replyWithCustomCode(u, p) ==
    /\ Sends(u, [NoReply EXCEPT !.of = p, !.qr = "query"])
    /\ UNCHANGED _resolvedIP

Poll ==
    /\ parsePacketNone
    /\ UNCHANGED <<_resolvedIP, reply, starved, asks>>

(* A datagram without bytes: parsePacket returns 0. *)
VoidPacket ==
    /\ Receives /\ Head(waiting).kind = "void"
    /\ udp' = Received(Head(waiting)) /\ waiting' = Tail(waiting)
    /\ UNCHANGED <<_resolvedIP, reply, starved, asks, faults>>

(* malloc fails and the packet stays in rx_buffer. *)
NoMemory ==
    /\ Receives /\ Head(waiting).kind # "void" /\ faults < MaxFaults
    /\ udp' = Received(Head(waiting)) /\ waiting' = Tail(waiting)
    /\ starved' = TRUE /\ faults' = faults + 1
    /\ UNCHANGED <<_resolvedIP, reply, asks>>

Answer ==
    /\ Receives /\ Head(waiting).kind # "void"
    /\ LET u == Received(Head(waiting))
       IN  \/ u.rx.kind = "host" /\ replyWithIP(u, u.rx)
           \/ u.rx.kind = "extra" /\ replyWithCustomCode(u, u.rx)
           \/ /\ u.rx.kind = "response" /\ udp' = read(u)
              /\ UNCHANGED <<reply, _resolvedIP, asks, faults>>
    /\ waiting' = Tail(waiting)
    /\ UNCHANGED starved

processNextRequest == Poll \/ VoidPacket \/ NoMemory \/ Answer

-----------------------------------------------------------------------------
(* The stations and the network stack *)

Ask(c) ==
    /\ asks[c] = Nothing
    /\ \E n \in Name : asks' = [asks EXCEPT ![c] = n]
    /\ UNCHANGED <<udp, _resolvedIP, waiting, reply, faults, starved>>

(* A question, and again as long as there is no answer. *)
Send(c) ==
    /\ asks[c] # Nothing /\ udp.socket = "open" /\ Len(waiting) < Room
    /\ waiting' = Append(waiting, [from |-> c, name |-> asks[c], kind |-> "host"])
    /\ UNCHANGED <<udp, _resolvedIP, asks, reply, faults, starved>>

Other(c) ==
    /\ udp.socket = "open" /\ Len(waiting) < Room /\ faults < MaxFaults
    /\ \E k \in Kind \ {"host"}, n \in Name :
         waiting' = Append(waiting, [from |-> c, name |-> n, kind |-> k])
    /\ faults' = faults + 1
    /\ UNCHANGED <<udp, _resolvedIP, asks, reply, starved>>

(* Every recvfrom fails from now on. *)
Break ==
    /\ udp.socket = "open" /\ faults < MaxFaults
    /\ udp' = [udp EXCEPT !.socket = "broken"]
    /\ faults' = faults + 1
    /\ UNCHANGED <<_resolvedIP, waiting, asks, reply, starved>>

(* setup(): start, whose result nobody looks at. *)
DnsInit ==
    /\ \E s \in {"open", "closed"} :
         udp = [socket |-> s, enumb |-> 0, rx |-> NoPacket, remote |-> Nobody]
    /\ _resolvedIP = apIP /\ waiting = <<>> /\ reply = NoReply
    /\ asks = [c \in Client |-> Nothing]
    /\ faults = 0 /\ starved = FALSE

DnsNext ==
    \/ processNextRequest
    \/ \E c \in Client : Ask(c) \/ Send(c) \/ Other(c)
    \/ Break

(* loop() always calls the server again, and a station repeats its question:
   each attempt may find the socket closed or full, so it is tried again and
   again rather than waiting for its turn. *)
Fairness ==
    /\ WF_dnsVars(processNextRequest)
    /\ \A c \in Client : SF_dnsVars(Send(c))

DnsSpec == DnsInit /\ [][DnsNext]_dnsVars /\ Fairness

-----------------------------------------------------------------------------
DnsTypeOK ==
    /\ udp.socket \in {"open", "closed", "broken"}
    /\ udp.enumb \in 0 .. ErrorLimit - 1
    /\ udp.rx \in Packet \cup {NoPacket}
    /\ udp.remote \in Client \cup {Nobody}
    /\ _resolvedIP \in Address
    /\ Len(waiting) <= Room /\ \A i \in DOMAIN waiting : waiting[i] \in Packet
    /\ asks \in [Client -> Name \cup {Nothing}]
    /\ faults \in 0 .. MaxFaults /\ starved \in BOOLEAN

(* What leaves the server goes to the station whose packet it answers, an
   answer sends that station to the access point, and only a query is
   answered: the address, the remote end and the question come from three
   places that an earlier packet wrote last (replyWithIP, parsePacket). *)
OwnAnswer ==
    /\ DnsTypeOK
    /\ reply # NoReply =>
        /\ reply.to = reply.of.from
        /\ reply.of.kind \in {"host", "extra"}
        /\ reply.qr = "response" => reply.address = apIP

(* Whatever the socket goes through (a start that failed, passing errors, a
   socket that works no more, a reopening that fails), a station that repeats
   its question is answered in the end.  The one exception is a malloc that
   failed: the packet is left in rx_buffer and parsePacket never asks the
   socket again (DNSServer.cpp:75, WiFiUdp.cpp:206). *)
Answered == \A c \in Client : asks[c] # Nothing ~> asks[c] = Nothing \/ starved

=============================================================================
