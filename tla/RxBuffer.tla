------------------------------ MODULE RxBuffer ------------------------------
(***************************************************************************)
(* The receive side of a WiFiClient: WiFiClientRxBuffer between the socket *)
(* of lwIP and the readers of the web server, the HTTP and the FTP client, *)
(* with WiFiClient::flush, which empties the socket past the buffer.       *)
(*                                                                         *)
(* The n-th byte of the connection is the number n.  Bytes arrive while a  *)
(* read or a flush is under way, so these are a step per call of recv.     *)
(***************************************************************************)
EXTENDS Integers

CONSTANTS
    Size,        \* of the buffer (1436 in the code)
    MaxLen,      \* bound: bytes asked for in one read
    MaxBytes     \* bound: bytes of one connection

ASSUME RxAssumption ==
    /\ Size \in Nat \ {0}
    /\ MaxLen \in Nat \ {0}
    /\ MaxBytes \in Nat

VARIABLES
    arrived,     \* bytes that reached the socket
    received,    \* ... and that recv has taken from it
    closed,      \* the peer has closed its side
    buffer,      \* _buffer
    pos,         \* _pos
    fill,        \* _fill
    failed,      \* _failed
    pc,          \* the call under way
    left,        \* bytes it still wants
    last,        \* history: the last byte handed to a reader
    strays,      \* history: copies with a byte out of its turn
    flushed      \* history: bytes that flush has thrown away

socket == <<arrived, received, closed>>
vars == <<socket, buffer, pos, fill, failed, pc, left, last, strays, flushed>>

(* "have": read() has made sure that there is something in the buffer;
   "loop": it has emptied the buffer and goes on; "stopped": after stop(). *)
PC == {"idle", "have", "loop", "flush", "stopped"}

Cells == 0 .. Size - 1

-----------------------------------------------------------------------------
r_available == arrived - received

available == fill - pos + r_available

(* fillBuffer starts over when everything was read. *)
AllRead == fill > 0 /\ pos = fill
Fill0 == IF AllRead THEN 0 ELSE fill

(* A plausible slip: the read position is not moved back with it. *)
Pos0Kept == pos

Pos0 == IF AllRead THEN 0 ELSE pos

(* A plausible slip: the buffer is refilled from its beginning while bytes
   are still unread. *)
fillBufferOver(n) ==
    /\ Size > Fill0
    /\ n \in 1 .. r_available
    /\ n <= Size - Fill0
    /\ buffer' = [i \in Cells |-> IF i < n THEN received + 1 + i ELSE buffer[i]]
    /\ received' = received + n
    /\ fill' = Fill0 + n
    /\ UNCHANGED <<arrived, closed, failed>>

(* fillBuffer with n bytes from recv, which may be fewer than there are. *)
fillBuffer(n) ==
    /\ Size > Fill0
    /\ n \in 1 .. r_available
    /\ n <= Size - Fill0
    /\ buffer' = [i \in Cells |->
                    IF i \in Fill0 .. Fill0 + n - 1 THEN received + 1 + i - Fill0 ELSE buffer[i]]
    /\ received' = received + n
    /\ fill' = Fill0 + n
    /\ UNCHANGED <<arrived, closed, failed>>

(* fillBuffer without: the buffer is full, nothing is there, or the socket
   reports an error, after which the client is stopped when the call is over. *)
FillsNothing ==
    /\ \/ failed' = TRUE
       \/ (Size <= Fill0 \/ r_available = 0) /\ UNCHANGED failed
    /\ fill' = Fill0
    /\ UNCHANGED <<socket, buffer>>

Filled == \E n \in 1 .. Size : fillBuffer(n)

Return == pc' = IF failed' THEN "stopped" ELSE "idle"

(* k bytes are copied to the reader from cell p on. *)
Copy(k, p, b) ==
    /\ pos' = p + k
    /\ last' = IF k = 0 THEN last ELSE b[p + k - 1]
    /\ strays' = IF \A i \in 0 .. k - 1 :
                        /\ b[p + i] > (IF i = 0 THEN last ELSE b[p + i - 1])
                        /\ flushed = 0 => b[p + i] = last + 1 + i
                 THEN strays ELSE strays + 1

NoCopy == UNCHANGED <<last, strays, flushed>>

-----------------------------------------------------------------------------
(* lwIP *)
Arrive ==
    /\ arrived < MaxBytes
    /\ ~closed
    /\ arrived' = arrived + 1
    /\ UNCHANGED <<received, closed, buffer, pos, fill, failed, pc, left, last, strays, flushed>>

PeerCloses ==
    /\ ~closed
    /\ closed' = TRUE
    /\ UNCHANGED <<arrived, received, buffer, pos, fill, failed, pc, left, last, strays, flushed>>

-----------------------------------------------------------------------------
(* read(dst, len) *)

(* It returns -1. *)
ReadNothing ==
    /\ pc = "idle"
    /\ pos = fill
    /\ FillsNothing
    /\ pos' = Pos0
    /\ Return
    /\ UNCHANGED left
    /\ NoCopy

Read(len) ==
    /\ pc = "idle"
    /\ \/ pos < fill /\ UNCHANGED <<socket, buffer, pos, fill, failed>>
       \/ pos = fill /\ Filled /\ pos' = Pos0
    /\ pc' = "have"
    /\ left' = len
    /\ NoCopy

(* What the caller asks for is in the buffer. *)
ReadAll ==
    /\ pc = "have"
    /\ left <= fill - pos
    /\ UNCHANGED <<socket, buffer, fill, failed, flushed>>
    /\ Copy(left, pos, buffer)
    /\ Return
    /\ left' = 0

(* It has room beside what is in the buffer, and recv brings enough of it ... *)
ReadMore ==
    /\ pc = "have"
    /\ left > fill - pos
    /\ left - (fill - pos) <= Size - fill
    /\ \E n \in left - (fill - pos) .. Size : fillBuffer(n)
    /\ Copy(left, pos, buffer')
    /\ Return
    /\ left' = 0
    /\ UNCHANGED flushed

(* ... or too little, and only what was there before is copied, ... *)
ReadLess ==
    /\ pc = "have"
    /\ left > fill - pos
    /\ left - (fill - pos) <= Size - fill
    /\ \/ \E n \in 1 .. left - (fill - pos) - 1 : fillBuffer(n)
       \/ FillsNothing
    /\ Copy(fill - pos, pos, buffer)
    /\ left' = left - (fill - pos)
    /\ pc' = "loop"
    /\ UNCHANGED flushed

(* ... as when there is no room. *)
ReadPart ==
    /\ pc = "have"
    /\ left > fill - pos
    /\ left - (fill - pos) > Size - fill
    /\ Copy(fill - pos, pos, buffer)
    /\ left' = left - (fill - pos)
    /\ pc' = "loop"
    /\ UNCHANGED <<socket, buffer, fill, failed, flushed>>

Smaller(a, b) == IF a > b THEN b ELSE a

ReadOn ==
    /\ pc = "loop"
    /\ Filled
    /\ LET k == Smaller(fill' - Pos0, left)
       IN  /\ Copy(k, Pos0, buffer')
           /\ left' = left - k
           /\ IF left = k THEN Return ELSE pc' = "loop"
    /\ UNCHANGED flushed

(* It returns fewer bytes than asked for; after a short recv some may still
   be in the buffer. *)
ReadShort ==
    /\ pc = "loop"
    /\ FillsNothing
    /\ pos' = Pos0
    /\ left' = 0
    /\ Return
    /\ NoCopy

peek ==
    /\ pc = "idle"
    /\ pos = fill
    /\ Filled
    /\ pos' = Pos0
    /\ UNCHANGED <<pc, left>>
    /\ NoCopy

-----------------------------------------------------------------------------
(* flush(): available() counts the bytes in the buffer too, recv only finds
   the ones in the socket. *)
flush ==
    /\ pc = "idle"
    /\ available > 0
    /\ left' = available
    /\ pc' = "flush"
    /\ UNCHANGED <<socket, buffer, pos, fill, failed>>
    /\ NoCopy

FlushRecv ==
    /\ pc = "flush"
    /\ r_available > 0
    /\ \E n \in 1 .. Smaller(left, r_available) :
        /\ received' = received + n
        /\ left' = left - n
        /\ flushed' = flushed + n
        /\ pc' = IF left = n THEN "idle" ELSE "flush"
    /\ UNCHANGED <<arrived, closed, buffer, pos, fill, failed, last, strays>>

(* A plausible slip: EWOULDBLOCK is taken as a reason to try again. *)
FlushRetries ==
    /\ pc = "flush"
    /\ r_available = 0
    /\ ~closed
    /\ UNCHANGED vars

(* recv has nothing: EWOULDBLOCK, and the client is stopped. *)
FlushFails ==
    /\ pc = "flush"
    /\ r_available = 0
    /\ ~closed
    /\ pc' = "stopped"
    /\ left' = 0
    /\ UNCHANGED <<socket, buffer, pos, fill, failed>>
    /\ NoCopy

(* connect() or accept: a new connection with a new buffer. *)
New ==
    /\ arrived' = 0
    /\ received' = 0
    /\ closed' = FALSE
    /\ buffer' = [i \in Cells |-> 0]
    /\ pos' = 0
    /\ fill' = 0
    /\ failed' = FALSE
    /\ pc' = "idle"
    /\ left' = 0
    /\ last' = 0
    /\ strays' = 0
    /\ flushed' = 0

Connect == pc \in {"idle", "stopped"} /\ New

(* With recv at the end of the connection (0 bytes) flush turns in its loop
   until the watchdog restarts the device. *)
Watchdog == pc = "flush" /\ r_available = 0 /\ closed /\ New

-----------------------------------------------------------------------------
Init ==
    /\ arrived = 0
    /\ received = 0
    /\ closed = FALSE
    /\ buffer = [i \in Cells |-> 0]
    /\ pos = 0
    /\ fill = 0
    /\ failed = FALSE
    /\ pc = "idle"
    /\ left = 0
    /\ last = 0
    /\ strays = 0
    /\ flushed = 0

FlushStep == FlushRecv \/ FlushFails

Next ==
    \/ Arrive
    \/ PeerCloses
    \/ ReadNothing
    \/ ReadLess
    \/ ReadShort
    \/ \E len \in 1 .. MaxLen : Read(len)
    \/ ReadAll
    \/ ReadMore
    \/ ReadPart
    \/ ReadOn
    \/ peek
    \/ flush
    \/ FlushStep
    \/ Connect
    \/ Watchdog

Spec == Init /\ [][Next]_vars /\ WF_vars(FlushStep)

-----------------------------------------------------------------------------
(* Whatever is asked for and however little recv brings at a time, the read
   position stays behind the fill position and both in the buffer, a call
   that goes on has something left to fetch, and "have" means that the
   buffer is not empty. *)
TypeOK ==
    /\ arrived \in 0 .. MaxBytes
    /\ received \in 0 .. arrived
    /\ closed \in BOOLEAN
    /\ buffer \in [Cells -> Nat]
    /\ fill \in 0 .. Size
    /\ pos \in 0 .. fill
    /\ failed \in BOOLEAN
    /\ pc \in PC
    /\ left \in Nat
    /\ last \in Nat
    /\ strays \in Nat
    /\ flushed \in Nat
    /\ pc = "have" => pos < fill
    /\ pc \in {"have", "loop", "flush"} => left > 0

(* Cells p .. f - 1 of a buffer b hold bytes newer than l and not newer than
   r, in the order of the connection; without a flush they are exactly the
   ones after l up to r. *)
Unread(b, p, f, l, r) ==
    /\ l <= r
    /\ \A i \in p .. f - 1 : l < b[i] /\ b[i] <= r
    /\ \A i, j \in p .. f - 1 : i < j => b[i] < b[j]
    /\ flushed = 0 => /\ l + f - p = r
                      /\ \A i \in p .. f - 1 : b[i] = l + 1 + i - p

(* What is in the buffer comes between what was handed to a reader and what
   is still in the socket, in the order of the connection. *)
Ahead == Unread(buffer, pos, fill, last, received)

(* Readers get the bytes of the connection in order, none twice, and, as
   long as nobody flushes, none is left out: read()'s three ways of copying
   and the restarts of the buffer fit together. *)
InOrder == strays = 0 /\ (flushed = 0 => last + available = arrived)

(* flush() comes to an end, by emptying the socket or by stopping the client,
   unless the peer has closed: then recv returns 0 for ever. *)
FlushEnds == pc = "flush" ~> (pc # "flush" \/ closed)
=============================================================================
