---------------------------- MODULE Socket_proofs ----------------------------
(***************************************************************************)
(* Proofs about the two modules that stand right on a socket: RxBuffer,    *)
(* for every size of the buffer, every length of a read and every way the  *)
(* bytes arrive; and Dns, for any stations, names and limits.              *)
(***************************************************************************)
EXTENDS RxBuffer, Dns, TLAPS

-----------------------------------------------------------------------------
(* RxBuffer. *)

(* InOrder is not inductive: what the next copy hands over is decided by what
   is in the buffer, which Ahead describes. *)
IInv == TypeOK /\ Ahead /\ InOrder

(* What a fill that brings something does to the buffer, in one place: the
   bytes from Pos0 on are the old unread ones and the new ones after them. *)
LEMMA FillKeepsOrder ==
    ASSUME IInv, NEW n \in 1 .. Size, fillBuffer(n)
    PROVE  /\ arrived' = arrived /\ closed' = closed /\ failed' = failed
           /\ received' \in 0 .. arrived
           /\ buffer' \in [Cells -> Nat]
           /\ fill' \in 1 .. Size
           /\ Pos0 \in 0 .. fill' - 1
           /\ fill' - Pos0 = fill - pos + n
           /\ received' = received + n
           /\ Unread(buffer', Pos0, fill', last, received')
  <1>1. /\ Fill0 \in 0 .. Size - 1
        /\ Pos0 \in 0 .. Fill0
        /\ Fill0 - Pos0 = fill - pos
        /\ AllRead \/ (Fill0 = fill /\ Pos0 = pos)
    BY RxAssumption DEF IInv, TypeOK, fillBuffer, Fill0, Pos0, AllRead
  <1>2. /\ fill' = Fill0 + n
        /\ received' = received + n
        /\ n <= Size - Fill0
        /\ received + n <= arrived
        /\ arrived' = arrived /\ closed' = closed /\ failed' = failed
    BY RxAssumption DEF IInv, TypeOK, fillBuffer, r_available
  <1>3. buffer' \in [Cells -> Nat]
    BY <1>1, RxAssumption DEF IInv, TypeOK, fillBuffer, Cells
  <1>4. \A i \in Fill0 .. Fill0 + n - 1 : buffer'[i] = received + 1 + i - Fill0
    BY <1>1, <1>2, RxAssumption DEF fillBuffer, Cells
  <1>5. \A i \in Pos0 .. Fill0 - 1 : buffer'[i] = buffer[i] /\ i \in pos .. fill - 1 /\ Pos0 = pos /\ Fill0 = fill
    BY <1>1, RxAssumption DEF fillBuffer, Cells, AllRead, Fill0, Pos0, IInv, TypeOK
  <1>6. \A i \in Pos0 .. fill' - 1 : last < buffer'[i] /\ buffer'[i] <= received'
    <2>1. ASSUME NEW i \in Pos0 .. Fill0 - 1 PROVE last < buffer'[i] /\ buffer'[i] <= received'
      BY <2>1, <1>1, <1>2, <1>5, RxAssumption DEF IInv, TypeOK, Ahead, Unread, Cells
    <2>2. ASSUME NEW i \in Fill0 .. Fill0 + n - 1 PROVE last < buffer'[i] /\ buffer'[i] <= received'
      BY <2>2, <1>1, <1>2, <1>4 DEF IInv, TypeOK, Ahead, Unread
    <2>3. QED
      BY <2>1, <2>2, <1>1, <1>2, RxAssumption
  <1>7. \A i, j \in Pos0 .. fill' - 1 : i < j => buffer'[i] < buffer'[j]
    <2> SUFFICES ASSUME NEW i \in Pos0 .. fill' - 1, NEW j \in Pos0 .. fill' - 1, i < j
                 PROVE  buffer'[i] < buffer'[j]
      OBVIOUS
    <2>1. CASE j < Fill0
      <3>1. i \in Pos0 .. Fill0 - 1 /\ j \in Pos0 .. Fill0 - 1
        BY <2>1, <1>1, <1>2, RxAssumption
      <3>2. QED
        BY <3>1, <1>5, <1>1 DEF IInv, Ahead, Unread
    <2>2. CASE i < Fill0 /\ j >= Fill0
      <3>1. i \in Pos0 .. Fill0 - 1 /\ j \in Fill0 .. Fill0 + n - 1
        BY <2>2, <1>1, <1>2, RxAssumption
      <3>2. buffer'[i] <= received
        BY <3>1, <1>5 DEF IInv, Ahead, Unread
      <3>3. buffer'[j] > received
        BY <3>1, <1>4, <1>1 DEF IInv, TypeOK
      <3>4. buffer'[i] \in Nat /\ buffer'[j] \in Nat
        BY <1>3, <1>1, <1>2, RxAssumption DEF Cells
      <3>5. QED
        BY <3>2, <3>3, <3>4 DEF IInv, TypeOK
    <2>3. CASE i >= Fill0
      BY <2>3, <1>1, <1>2, <1>4, RxAssumption DEF IInv, TypeOK
    <2>4. QED
      BY <2>1, <2>2, <2>3, <1>1, <1>2, RxAssumption
  <1>8. ASSUME flushed = 0
        PROVE  /\ last + fill' - Pos0 = received'
               /\ \A i \in Pos0 .. fill' - 1 : buffer'[i] = last + 1 + i - Pos0
    <2>1. last + fill - pos = received
      BY <1>8 DEF IInv, Ahead, Unread
    <2>2. last + fill' - Pos0 = received'
      BY <2>1, <1>1, <1>2, RxAssumption DEF IInv, TypeOK
    <2>3. ASSUME NEW i \in Pos0 .. Fill0 - 1 PROVE buffer'[i] = last + 1 + i - Pos0
      BY <1>8, <1>5 DEF IInv, Ahead, Unread
    <2>4. ASSUME NEW i \in Fill0 .. Fill0 + n - 1 PROVE buffer'[i] = last + 1 + i - Pos0
      BY <2>1, <1>1, <1>2, <1>4, RxAssumption DEF IInv, TypeOK
    <2>5. QED
      BY <2>2, <2>3, <2>4, <1>1, <1>2, RxAssumption
  <1>9. QED
    BY <1>1, <1>2, <1>3, <1>6, <1>7, <1>8, RxAssumption DEF IInv, TypeOK, Ahead, Unread

(* A fill that brings nothing leaves the unread bytes as they are. *)
LEMMA NothingFilled ==
    ASSUME IInv, FillsNothing
    PROVE  /\ arrived' = arrived /\ received' = received /\ closed' = closed
           /\ buffer' = buffer /\ failed' \in BOOLEAN
           /\ fill' \in 0 .. Size
           /\ Pos0 \in 0 .. fill'
           /\ fill' - Pos0 = fill - pos
           /\ Pos0 = fill' \/ (Pos0 = pos /\ fill' = fill)
  <1>1. /\ arrived' = arrived /\ received' = received /\ closed' = closed
        /\ buffer' = buffer /\ fill' = Fill0
    BY DEF FillsNothing, socket
  <1>2. failed' \in BOOLEAN
    BY Zenon DEF IInv, TypeOK, FillsNothing
  <1>3. /\ Fill0 \in 0 .. Size
        /\ Pos0 \in 0 .. Fill0
        /\ Fill0 - Pos0 = fill - pos
        /\ Pos0 = Fill0 \/ (Pos0 = pos /\ Fill0 = fill)
    BY RxAssumption DEF IInv, TypeOK, Fill0, Pos0, AllRead
  <1>4. QED
    BY <1>1, <1>2, <1>3

(* k bytes handed over from the front of unread bytes p .. f - 1 of a buffer
   b leave the rest in order. *)
LEMMA CopyKeepsOrder ==
    ASSUME NEW b \in [Cells -> Nat], NEW f \in 0 .. Size, NEW p \in 0 .. f,
           NEW k \in 0 .. f - p, NEW r \in Nat,
           last \in Nat, strays = 0,
           Unread(b, p, f, last, r), Copy(k, p, b)
    PROVE  /\ pos' = p + k
           /\ last' \in Nat
           /\ strays' = 0
           /\ Unread(b, pos', f, last', r)
  <1>1. pos' = p + k /\ last' = IF k = 0 THEN last ELSE b[p + k - 1]
    BY DEF Copy
  <1>2. \A i \in p .. f - 1 : i \in Cells /\ b[i] \in Nat
    BY RxAssumption DEF Cells
  <1>3. k # 0 => p + k - 1 \in p .. f - 1
    BY RxAssumption
  <1>4. last' \in Nat /\ last' <= r
    BY <1>1, <1>2, <1>3 DEF Unread
  <1>5. \A i \in 0 .. k - 1 : /\ b[p + i] > (IF i = 0 THEN last ELSE b[p + i - 1])
                              /\ flushed = 0 => b[p + i] = last + 1 + i
    <2> SUFFICES ASSUME NEW i \in 0 .. k - 1
                 PROVE  /\ b[p + i] > (IF i = 0 THEN last ELSE b[p + i - 1])
                        /\ flushed = 0 => b[p + i] = last + 1 + i
      OBVIOUS
    <2>1. p + i \in p .. f - 1 /\ (i # 0 => p + i - 1 \in p .. f - 1 /\ p + i - 1 < p + i)
      BY RxAssumption
    <2>2. b[p + i] > (IF i = 0 THEN last ELSE b[p + i - 1])
      BY <2>1, <1>2 DEF Unread
    <2>3. flushed = 0 => b[p + i] = last + 1 + i
      BY <2>1, <1>2 DEF Unread
    <2>4. QED
      BY <2>2, <2>3
  <1>6. strays' = 0
    BY <1>5 DEF Copy
  <1>7. \A i \in p + k .. f - 1 : last' < b[i] /\ b[i] <= r
    <2> SUFFICES ASSUME NEW i \in p + k .. f - 1 PROVE last' < b[i] /\ b[i] <= r
      OBVIOUS
    <2>1. i \in p .. f - 1 /\ (k # 0 => p + k - 1 < i)
      BY RxAssumption
    <2>2. QED
      BY <2>1, <1>1, <1>2, <1>3 DEF Unread
  <1>8. \A i, j \in p + k .. f - 1 : i < j => b[i] < b[j]
    BY RxAssumption DEF Unread
  <1>9. ASSUME flushed = 0
        PROVE  /\ last' + f - (p + k) = r
               /\ \A i \in p + k .. f - 1 : b[i] = last' + 1 + i - (p + k)
    <2>1. last' = last + k
      BY <1>9, <1>1, <1>3, <1>2 DEF Unread
    <2>2. last' + f - (p + k) = r
      BY <2>1, <1>9 DEF Unread
    <2>3. QED
      BY <2>1, <2>2, <1>9, RxAssumption DEF Unread
  <1>10. QED
    BY <1>1, <1>4, <1>6, <1>7, <1>8, <1>9 DEF Unread

-----------------------------------------------------------------------------
(* An empty buffer satisfies the invariant. *)
LEMMA InitIInv == Init => IInv
  <1> SUFFICES ASSUME Init PROVE IInv
    OBVIOUS
  <1>1. closed \in BOOLEAN /\ failed \in BOOLEAN
    BY Zenon DEF Init
  <1>2. TypeOK
    BY <1>1, RxAssumption DEF Init, TypeOK, Cells, PC
  <1>3. Ahead /\ InOrder
    BY RxAssumption DEF Init, Ahead, Unread, InOrder, available, r_available
  <1>4. QED
    BY <1>2, <1>3 DEF IInv

(* The state of a new connection. *)
LEMMA NewIInv == New => IInv'
  <1> SUFFICES ASSUME New PROVE IInv'
    OBVIOUS
  <1>1. closed' \in BOOLEAN /\ failed' \in BOOLEAN
    BY Zenon DEF New
  <1>2. TypeOK'
    BY <1>1, RxAssumption DEF New, TypeOK, Cells, PC
  <1>3. Ahead' /\ InOrder'
    BY RxAssumption DEF New, Ahead, Unread, InOrder, available, r_available
  <1>4. QED
    BY <1>2, <1>3 DEF IInv

(* Without a flush the bytes after the last one read fill the buffer and
   the socket. *)
LEMMA CountOn ==
  TypeOK /\ Ahead /\ strays = 0 => InOrder
  BY RxAssumption DEF TypeOK, Ahead, Unread, InOrder, available, r_available

(* A copy that leaves the rest of the buffer unread keeps both orders. *)
LEMMA RestStays ==
  /\ TypeOK' /\ flushed' = flushed /\ strays' = 0
  /\ Unread(buffer', pos', fill', last', received')
  => Ahead' /\ InOrder'
  <1>1. flushed' = flushed /\ Unread(buffer', pos', fill', last', received') => Ahead'
    BY DEF Ahead, Unread
  <1>2. TypeOK' /\ Ahead' /\ (strays = 0)' => InOrder'
    BY CountOn, PTL
  <1>3. QED
    BY <1>1, <1>2

(* Every step keeps the bytes in order. *)
LEMMA NextIInv == IInv /\ [Next]_vars => IInv'
  <1> SUFFICES ASSUME IInv, [Next]_vars PROVE IInv'
    OBVIOUS
  <1> USE RxAssumption
  <1>0. UNCHANGED <<last, strays, flushed>> <=> NoCopy
    BY DEF NoCopy
  <1>1. CASE Arrive
    BY <1>1 DEF Arrive, IInv, TypeOK, Ahead, Unread, InOrder, available, r_available
  <1>2. CASE PeerCloses
    BY <1>2 DEF PeerCloses, IInv, TypeOK, Ahead, Unread, InOrder, available, r_available
  <1>3. CASE ReadNothing
    <2>1. FillsNothing /\ pos' = Pos0 /\ Return /\ left' = left /\ NoCopy /\ pos = fill
      BY <1>3 DEF ReadNothing
    <2>2. TypeOK'
      BY <2>1, NothingFilled DEF IInv, TypeOK, Return, NoCopy, PC
    <2>3. pos' = fill'
      BY <2>1, NothingFilled DEF IInv, TypeOK
    <2>4. Ahead' /\ InOrder'
      BY <2>1, <2>3, NothingFilled DEF IInv, TypeOK, Ahead, Unread, InOrder, NoCopy, available, r_available
    <2>5. QED
      BY <2>2, <2>4 DEF IInv
  <1>4. ASSUME NEW len \in 1 .. MaxLen, Read(len) PROVE IInv'
    <2>1. CASE pos < fill /\ UNCHANGED <<socket, buffer, pos, fill, failed>>
      BY <1>4, <2>1 DEF Read, IInv, TypeOK, Ahead, Unread, InOrder, NoCopy, PC, socket, available, r_available
    <2>2. CASE pos = fill /\ Filled /\ pos' = Pos0
      <3>1. PICK n \in 1 .. Size : fillBuffer(n)
        BY <2>2 DEF Filled
      <3>2. pc' = "have" /\ left' = len /\ NoCopy
        BY <1>4 DEF Read
      <3>3. TypeOK'
        BY <2>2, <3>1, <3>2, FillKeepsOrder DEF IInv, TypeOK, NoCopy, PC
      <3>4. Ahead' /\ InOrder'
        BY <2>2, <3>1, <3>2, FillKeepsOrder DEF IInv, TypeOK, Ahead, Unread, InOrder, NoCopy, available, r_available
      <3>5. QED
        BY <3>3, <3>4 DEF IInv
    <2>3. QED
      BY <1>4, <2>1, <2>2 DEF Read
  <1>5. CASE ReadAll
    <2>1. /\ left <= fill - pos /\ Copy(left, pos, buffer) /\ Return /\ left' = 0
          /\ UNCHANGED <<socket, buffer, fill, failed, flushed>> /\ left \in 0 .. fill - pos
      BY <1>5 DEF ReadAll, IInv, TypeOK
    <2>2. pos' = pos + left /\ last' \in Nat /\ strays' = 0 /\ Unread(buffer, pos', fill, last', received)
      BY <2>1, CopyKeepsOrder DEF IInv, TypeOK, Ahead, InOrder
    <2>3. TypeOK'
      BY <2>1, <2>2 DEF IInv, TypeOK, Return, PC, socket
    <2>4. Ahead' /\ InOrder'
      BY <2>1, <2>2, <2>3, RestStays DEF socket
    <2>5. QED
      BY <2>3, <2>4 DEF IInv
  <1>6. CASE ReadMore
    <2>1. /\ pc = "have" /\ left > fill - pos /\ Copy(left, pos, buffer') /\ Return /\ left' = 0
          /\ flushed' = flushed
      BY <1>6 DEF ReadMore
    <2>2. PICK n \in left - (fill - pos) .. Size : fillBuffer(n)
      BY <1>6 DEF ReadMore
    <2>3. n \in 1 .. Size /\ Pos0 = pos
      BY <2>1 DEF IInv, TypeOK, Pos0, AllRead
    <2>4. left \in 0 .. fill' - pos
      BY <2>1, <2>2, <2>3, FillKeepsOrder DEF IInv, TypeOK
    <2>5. pos' = pos + left /\ last' \in Nat /\ strays' = 0 /\ Unread(buffer', pos', fill', last', received')
      <3>1. /\ buffer' \in [Cells -> Nat] /\ fill' \in 0 .. Size /\ pos \in 0 .. fill' /\ received' \in Nat
            /\ last \in Nat /\ strays = 0 /\ Unread(buffer', pos, fill', last, received')
        BY <2>2, <2>3, FillKeepsOrder DEF IInv, TypeOK, InOrder
      <3>2. QED
        BY <2>1, <2>4, <3>1, CopyKeepsOrder
    <2>6. TypeOK'
      BY <2>1, <2>2, <2>3, <2>4, <2>5, FillKeepsOrder DEF IInv, TypeOK, Return, PC
    <2>7. Ahead' /\ InOrder'
      BY <2>1, <2>2, <2>5, <2>6, RestStays
    <2>8. QED
      BY <2>6, <2>7 DEF IInv
  <1>7. CASE ReadLess
    <2>1. /\ pc = "have" /\ left > fill - pos /\ Copy(fill - pos, pos, buffer)
          /\ left' = left - (fill - pos) /\ pc' = "loop" /\ flushed' = flushed /\ pos < fill
          /\ Pos0 = pos /\ Fill0 = fill
      BY <1>7 DEF ReadLess, IInv, TypeOK, Pos0, Fill0, AllRead
    <2>2. /\ pos' = fill /\ last' \in Nat /\ last' <= received /\ strays' = 0 /\ last' = buffer[fill - 1]
          /\ flushed = 0 => last' = received
      <3>1. fill - pos \in 0 .. fill - pos
        BY DEF IInv, TypeOK
      <3>2. /\ pos' = pos + (fill - pos) /\ last' \in Nat /\ strays' = 0
            /\ Unread(buffer, pos', fill, last', received)
        BY <2>1, <3>1, CopyKeepsOrder DEF IInv, TypeOK, Ahead, InOrder
      <3>3. last' = buffer[fill - 1]
        BY <2>1 DEF Copy, IInv, TypeOK
      <3>4. QED
        BY <3>2, <3>3 DEF IInv, TypeOK, Unread
    <2>3. CASE \E n \in 1 .. left - (fill - pos) - 1 : fillBuffer(n)
      <3>1. PICK n \in 1 .. left - (fill - pos) - 1 : fillBuffer(n)
        BY <2>3
      <3>2. n \in 1 .. Size
        BY <3>1, <2>1 DEF fillBuffer, IInv, TypeOK
      <3>3. fill' = fill + n /\ fill' \in 0 .. Size
        BY <3>1, <3>2, <2>1, FillKeepsOrder DEF fillBuffer
      <3>4. TypeOK'
        BY <2>1, <2>2, <3>1, <3>2, <3>3, FillKeepsOrder DEF IInv, TypeOK, PC
      <3>5. /\ fill - 1 \in pos .. fill' - 1
            /\ \A i \in fill .. fill' - 1 : i \in pos .. fill' - 1 /\ fill - 1 < i
            /\ buffer'[fill - 1] = buffer[fill - 1]
        BY <2>1, <3>1, <3>2, <3>3 DEF IInv, TypeOK, fillBuffer, Cells
      <3>6. \A i \in fill .. fill' - 1 : last' < buffer'[i] /\ buffer'[i] <= received'
        BY <2>1, <2>2, <3>1, <3>2, <3>5, FillKeepsOrder DEF Unread
      <3>7. \A i, j \in fill .. fill' - 1 : i < j => buffer'[i] < buffer'[j]
        BY <2>1, <3>1, <3>2, <3>5, FillKeepsOrder DEF Unread
      <3>8. flushed = 0 => /\ last' + fill' - fill = received'
                        /\ \A i \in fill .. fill' - 1 : buffer'[i] = last' + 1 + i - fill
        <4> SUFFICES ASSUME flushed = 0
                     PROVE /\ last' + fill' - fill = received'
                           /\ \A i \in fill .. fill' - 1 : buffer'[i] = last' + 1 + i - fill
          OBVIOUS
        <4>1. last' = received /\ received' = received + n /\ last + fill - pos = received
          BY <2>2, <3>1, <3>2, FillKeepsOrder DEF IInv, Ahead, Unread
        <4>2. \A i \in fill .. fill' - 1 : buffer'[i] = last + 1 + i - pos
          BY <2>1, <3>1, <3>2, <3>5, FillKeepsOrder DEF Unread
        <4>3. QED
          BY <4>1, <4>2, <3>3 DEF IInv, TypeOK
      <3>9. Ahead' /\ InOrder'
        BY <2>1, <2>2, <3>1, <3>2, <3>3, <3>6, <3>7, <3>8, FillKeepsOrder
           DEF IInv, TypeOK, Ahead, Unread, InOrder, available, r_available
      <3>10. QED
        BY <3>4, <3>9 DEF IInv
    <2>4. CASE FillsNothing
      <3>1. fill' = fill
        BY <2>1, <2>4 DEF FillsNothing
      <3>2. TypeOK'
        BY <2>1, <2>2, <2>4, <3>1, NothingFilled DEF IInv, TypeOK, PC
      <3>3. Ahead' /\ InOrder'
        BY <2>1, <2>2, <2>4, <3>1, NothingFilled DEF IInv, TypeOK, Ahead, Unread, InOrder, available, r_available
      <3>4. QED
        BY <3>2, <3>3 DEF IInv
    <2>5. QED
      BY <1>7, <2>3, <2>4 DEF ReadLess
  <1>8. CASE ReadPart
    <2>1. /\ pc = "have" /\ left > fill - pos /\ Copy(fill - pos, pos, buffer)
          /\ left' = left - (fill - pos) /\ pc' = "loop" /\ pos < fill
          /\ UNCHANGED <<socket, buffer, fill, failed, flushed>>
      BY <1>8 DEF ReadPart, IInv, TypeOK
    <2>2. fill - pos \in 0 .. fill - pos
      BY DEF IInv, TypeOK
    <2>3. /\ pos' = pos + (fill - pos) /\ last' \in Nat /\ strays' = 0
          /\ Unread(buffer, pos', fill, last', received)
      BY <2>1, <2>2, CopyKeepsOrder DEF IInv, TypeOK, Ahead, InOrder
    <2>4. TypeOK'
      BY <2>1, <2>3 DEF IInv, TypeOK, PC, socket
    <2>5. Ahead' /\ InOrder'
      BY <2>1, <2>3, <2>4, RestStays DEF socket
    <2>6. QED
      BY <2>4, <2>5 DEF IInv
  <1>9. CASE ReadOn
    <2> DEFINE k == Smaller(fill' - Pos0, left)
    <2>1. PICK n \in 1 .. Size : fillBuffer(n)
      BY <1>9 DEF ReadOn, Filled
    <2>2. /\ pc = "loop" /\ Copy(k, Pos0, buffer') /\ left' = left - k /\ flushed' = flushed
          /\ (left = k /\ Return) \/ (left # k /\ pc' = "loop")
      BY <1>9 DEF ReadOn
    <2>3. k \in 0 .. fill' - Pos0 /\ k <= left /\ left \in Nat
      BY <2>1, FillKeepsOrder DEF IInv, TypeOK, Smaller
    <2>4. /\ buffer' \in [Cells -> Nat] /\ fill' \in 0 .. Size /\ Pos0 \in 0 .. fill' /\ received' \in Nat
          /\ last \in Nat /\ strays = 0
      BY <2>1, FillKeepsOrder DEF IInv, TypeOK, InOrder
    <2> HIDE DEF k
    <2>5. pos' = Pos0 + k /\ last' \in Nat /\ strays' = 0 /\ Unread(buffer', pos', fill', last', received')
      BY <2>1, <2>2, <2>3, <2>4, FillKeepsOrder, CopyKeepsOrder
    <2>6. TypeOK'
      BY <2>1, <2>2, <2>3, <2>5, FillKeepsOrder DEF IInv, TypeOK, Return, PC
    <2>7. Ahead' /\ InOrder'
      BY <2>1, <2>2, <2>5, <2>6, RestStays
    <2>8. QED
      BY <2>6, <2>7 DEF IInv
  <1>10. CASE ReadShort
    <2>1. FillsNothing /\ pos' = Pos0 /\ Return /\ left' = 0 /\ NoCopy
      BY <1>10 DEF ReadShort
    <2>2. TypeOK'
      BY <2>1, NothingFilled DEF IInv, TypeOK, Return, NoCopy, PC
    <2>3. Ahead' /\ InOrder'
      BY <2>1, NothingFilled DEF IInv, TypeOK, Ahead, Unread, InOrder, NoCopy, available, r_available
    <2>4. QED
      BY <2>2, <2>3 DEF IInv
  <1>11. CASE peek
    <2>1. PICK n \in 1 .. Size : fillBuffer(n)
      BY <1>11 DEF peek, Filled
    <2>2. pos' = Pos0 /\ pc' = pc /\ left' = left /\ NoCopy /\ pc = "idle"
      BY <1>11 DEF peek
    <2>3. TypeOK'
      BY <2>1, <2>2, FillKeepsOrder DEF IInv, TypeOK, NoCopy
    <2>4. Ahead' /\ InOrder'
      BY <2>1, <2>2, FillKeepsOrder DEF IInv, TypeOK, Ahead, Unread, InOrder, NoCopy, available, r_available
    <2>5. QED
      BY <2>3, <2>4 DEF IInv
  <1>12. CASE flush
    BY <1>12 DEF flush, IInv, TypeOK, Ahead, Unread, InOrder, NoCopy, PC, socket, available, r_available
  <1>13. CASE FlushRecv
    <2>1. PICK n \in 1 .. Smaller(left, r_available) :
             /\ received' = received + n /\ left' = left - n /\ flushed' = flushed + n
             /\ pc' = IF left = n THEN "idle" ELSE "flush"
      BY <1>13 DEF FlushRecv
    <2>2. /\ n \in 1 .. left /\ n <= arrived - received
          /\ UNCHANGED <<arrived, closed, buffer, pos, fill, failed, last, strays>>
      BY <1>13 DEF FlushRecv, Smaller, r_available, IInv, TypeOK
    <2>3. TypeOK'
      BY <2>1, <2>2 DEF IInv, TypeOK, PC
    <2>4. Ahead' /\ InOrder'
      BY <2>1, <2>2 DEF IInv, TypeOK, Ahead, Unread, InOrder, Cells
    <2>5. QED
      BY <2>3, <2>4 DEF IInv
  <1>14. CASE FlushFails
    BY <1>14 DEF FlushFails, IInv, TypeOK, Ahead, Unread, InOrder, NoCopy, PC, socket, available, r_available
  <1>15. CASE Connect \/ Watchdog
    BY <1>15, NewIInv DEF Connect, Watchdog
  <1>16. CASE UNCHANGED vars
    BY <1>16 DEF vars, IInv, TypeOK, Ahead, Unread, InOrder, socket, available, r_available
  <1>17. QED
    BY <1>1, <1>2, <1>3, <1>4, <1>5, <1>6, <1>7, <1>8, <1>9, <1>10, <1>11, <1>12, <1>13, <1>14,
       <1>15, <1>16 DEF Next, FlushStep

(* The inductive invariant of the receive buffer. *)
THEOREM RxInvariant == Spec => []IInv
  BY InitIInv, NextIInv, PTL DEF Spec

(* For every size of the buffer the positions stay in it (fillBuffer, read). *)
THEOREM TypeCorrect == Spec => []TypeOK
  <1>1. IInv => TypeOK
    BY DEF IInv
  <1>2. QED
    BY <1>1, RxInvariant, PTL

(* The buffer holds what comes next, in order (fillBuffer). *)
THEOREM BufferAhead == Spec => []Ahead
  <1>1. IInv => Ahead
    BY DEF IInv
  <1>2. QED
    BY <1>1, RxInvariant, PTL

(* Readers get every byte once and in order as long as nobody flushes, for
   every size of the buffer and every way bytes arrive (WiFiClient::read). *)
THEOREM BytesInOrder == Spec => []InOrder
  <1>1. IInv => InOrder
    BY DEF IInv
  <1>2. QED
    BY <1>1, RxInvariant, PTL

-----------------------------------------------------------------------------
(* Dns. *)

Udp == [socket : {"open", "closed", "broken"}, enumb : 0 .. ErrorLimit - 1,
        rx : Packet \cup {NoPacket}, remote : Client \cup {Nobody}]

(* OwnAnswer is inductive with the shape of the object and the queue, and with
   the address that no row of hosts[] has changed: replyWithIP takes it over
   from the packet before. *)
DnsInv ==
    /\ udp \in Udp
    /\ waiting \in Seq(Packet)
    /\ _resolvedIP = apIP
    /\ OwnAnswer

(* What the server has sent. *)
Own(r) ==
    r # NoReply =>
        /\ r.to = r.of.from
        /\ r.of.kind \in {"host", "extra"}
        /\ r.qr = "response" => r.address = apIP

(* DnsInv in its parts. *)
LEMMA DnsParts ==
    DnsInv <=> /\ udp \in Udp /\ waiting \in Seq(Packet) /\ Len(waiting) <= Room
               /\ _resolvedIP = apIP /\ asks \in [Client -> Name \cup {Nothing}]
               /\ faults \in 0 .. MaxFaults /\ starved \in BOOLEAN
               /\ Own(reply)
BY DEF DnsInv, OwnAnswer, DnsTypeOK, Udp, Own, Address

(* The packet at the head of the queue, when it has bytes, is in rx_buffer
   with its sender in remote. *)
LEMMA HeadReceived ==
    ASSUME DnsInv, Receives, NEW p, p = Head(waiting)
    PROVE  /\ p \in Packet /\ p.from \in Client /\ p.name \in Name /\ p.kind \in Kind
           /\ Received(p) \in Udp
           /\ p.kind # "void" => Received(p).rx = p /\ Received(p).remote = p.from
           /\ Tail(waiting) \in Seq(Packet) /\ Len(Tail(waiting)) <= Room
<1>1. waiting \in Seq(Packet) /\ waiting # <<>> /\ Len(waiting) <= Room /\ udp \in Udp
  BY DnsParts DEF Receives
<1>2. Len(waiting) \in Nat /\ Room \in Nat
  BY <1>1, Bounds
<1>3. p \in Packet /\ Tail(waiting) \in Seq(Packet) /\ Len(Tail(waiting)) = Len(waiting) - 1
  BY <1>1
<1>4. p.from \in Client /\ p.name \in Name /\ p.kind \in Kind
  BY <1>3 DEF Packet
<1>5. Received(p) \in Udp
  BY <1>1, <1>3, <1>4 DEF Received, Udp
<1>6. p.kind # "void" => Received(p).rx = p /\ Received(p).remote = p.from
  BY <1>1 DEF Received, Udp
<1>7. Len(waiting) - 1 <= Room
  BY <1>1, <1>2
<1>8. QED
  BY <1>3, <1>4, <1>5, <1>6, <1>7

(* A packet is sent to the station in remote, or lost. *)
LEMMA SendsOwn ==
    ASSUME DnsInv, NEW u \in Udp, NEW p \in Packet, u.remote = p.from,
           p.kind \in {"host", "extra"}, NEW q \in {"response", "query"}, NEW a,
           q = "response" => a = apIP,
           Sends(u, [NoReply EXCEPT !.of = p, !.qr = q, !.address = a])
    PROVE  /\ udp' \in Udp /\ Own(reply') /\ asks' \in [Client -> Name \cup {Nothing}]
           /\ faults' \in 0 .. MaxFaults
<1>1. PICK r : r = [NoReply EXCEPT !.of = p, !.qr = q, !.address = a]
  OBVIOUS
<1>2. r = [to |-> Nobody, of |-> p, qr |-> q, address |-> a]
  BY <1>1 DEF NoReply
<1>3. PICK v : v = beginPacket(read(u), u.remote)
  OBVIOUS
<1>4. v \in Udp /\ v.remote = p.from
  BY <1>3 DEF beginPacket, read, Udp
<1>5. udp' = v /\ endPacket(v, r)
  BY <1>1, <1>3 DEF Sends
<1>6. p.from \in Client
  BY DEF Packet
<1>7. /\ Own(reply) /\ asks \in [Client -> Name \cup {Nothing}] /\ faults \in 0 .. MaxFaults
  BY DnsParts
<1>8. CASE /\ reply' = [r EXCEPT !.to = v.remote]
           /\ asks' = IF r.qr = "response" /\ asks[v.remote] = r.of.name
                      THEN [asks EXCEPT ![v.remote] = Nothing] ELSE asks
           /\ UNCHANGED faults
  <2>1. reply' = [to |-> p.from, of |-> p, qr |-> q, address |-> a]
    BY <1>2, <1>4, <1>8
  <2>2. Own(reply')
    BY <2>1 DEF Own
  <2>3. asks' \in [Client -> Name \cup {Nothing}]
    BY <1>4, <1>6, <1>7, <1>8
  <2>4. QED
    BY <1>4, <1>5, <1>7, <1>8, <2>2, <2>3
<1>9. CASE faults < MaxFaults /\ faults' = faults + 1 /\ UNCHANGED <<reply, asks>>
  BY <1>4, <1>5, <1>7, <1>9, Bounds
<1>10. QED
  BY <1>5, <1>8, <1>9 DEF endPacket

(* Whatever parsePacket meets in the socket. *)
LEMMA PollInv ==
    ASSUME DnsInv, Poll
    PROVE  DnsInv'
<1>1. /\ udp \in Udp /\ waiting \in Seq(Packet) /\ Len(waiting) <= Room
      /\ _resolvedIP = apIP /\ asks \in [Client -> Name \cup {Nothing}]
      /\ faults \in 0 .. MaxFaults /\ starved \in BOOLEAN /\ Own(reply)
  BY DnsParts
<1>2. UNCHANGED <<_resolvedIP, reply, starved, asks>> /\ parsePacketNone
  BY DEF Poll
<1>3. Fails => NewFault \in 0 .. MaxFaults
  BY <1>1, Bounds DEF Fails, NewFault
<1>4. udp' \in Udp /\ waiting' \in {waiting, <<>>} /\ faults' \in 0 .. MaxFaults
  <2>1. CASE parsePacketFailsOnce
    <3>1. udp.enumb + 1 \in 0 .. ErrorLimit - 1
      BY <1>1, <2>1, Bounds DEF parsePacketFailsOnce, Udp
    <3>2. udp' \in Udp
      BY <1>1, <2>1, <3>1 DEF parsePacketFailsOnce, Udp
    <3>3. QED
      BY <1>3, <2>1, <3>2 DEF parsePacketFailsOnce
  <2>2. CASE Reopen
    <3>1. PICK works \in BOOLEAN :
            /\ works \/ NewFault < MaxFaults
            /\ udp' = [begin(udp, works) EXCEPT !.enumb = 0]
            /\ faults' = IF works THEN NewFault ELSE NewFault + 1
      BY <2>2 DEF Reopen
    <3>2. 0 \in 0 .. ErrorLimit - 1
      BY Bounds
    <3>3. stop(udp) \in Udp
      BY <1>1 DEF stop, Udp
    <3>4. begin(udp, works) \in Udp
      BY <3>3 DEF begin, Udp
    <3>5. udp' \in Udp
      BY <3>1, <3>2, <3>4 DEF Udp
    <3>6. faults' \in 0 .. MaxFaults
      BY <1>3, <2>2, <3>1, Bounds DEF Reopen
    <3>7. QED
      BY <2>2, <3>5, <3>6 DEF Reopen
  <2>3. CASE parsePacketEmpty
    <3>1. 0 \in 0 .. ErrorLimit - 1
      BY Bounds
    <3>2. udp' \in Udp
      BY <1>1, <2>3, <3>1 DEF parsePacketEmpty, Udp
    <3>3. QED
      BY <1>1, <2>3, <3>2 DEF parsePacketEmpty
  <2>4. CASE parsePacketHolds
    BY <1>1, <2>4 DEF parsePacketHolds
  <2>5. QED
    BY <1>2, <2>1, <2>2, <2>3, <2>4 DEF parsePacketNone
<1>5. waiting' \in Seq(Packet) /\ Len(waiting') <= Room
  <2>1. CASE waiting' = waiting
    BY <1>1, <2>1
  <2>2. CASE waiting' = <<>>
    <3>1. <<>> \in Seq(Packet) /\ Len(<<>>) = 0 /\ 0 <= Room
      BY Bounds
    <3>2. QED
      BY <2>2, <3>1, Zenon
  <2>3. QED
    BY <1>4, <2>1, <2>2
<1>6. (DnsInv)' <=> /\ udp' \in Udp /\ waiting' \in Seq(Packet) /\ Len(waiting') <= Room
                    /\ _resolvedIP' = apIP /\ asks' \in [Client -> Name \cup {Nothing}]
                    /\ faults' \in 0 .. MaxFaults /\ starved' \in BOOLEAN /\ Own(reply')
  BY DEF DnsInv, OwnAnswer, DnsTypeOK, Udp, Own, Address
<1>7. QED
  BY <1>1, <1>2, <1>4, <1>5, <1>6

(* A request is answered, with what its own packet holds. *)
LEMMA AnswerInv ==
    ASSUME DnsInv, Answer
    PROVE  DnsInv'
<1>1. /\ udp \in Udp /\ waiting \in Seq(Packet) /\ Len(waiting) <= Room
      /\ _resolvedIP = apIP /\ asks \in [Client -> Name \cup {Nothing}]
      /\ faults \in 0 .. MaxFaults /\ starved \in BOOLEAN /\ Own(reply)
  BY DnsParts
<1>2. PICK p : p = Head(waiting)
  OBVIOUS
<1>3. PICK u : u = Received(p)
  OBVIOUS
<1>4. /\ Receives /\ p.kind # "void" /\ waiting' = Tail(waiting) /\ starved' = starved
      /\ \/ u.rx.kind = "host" /\ replyWithIP(u, u.rx)
         \/ u.rx.kind = "extra" /\ replyWithCustomCode(u, u.rx)
         \/ u.rx.kind = "response" /\ udp' = read(u) /\ UNCHANGED <<reply, _resolvedIP, asks, faults>>
  BY <1>2, <1>3 DEF Answer
<1>5. /\ p \in Packet /\ u \in Udp /\ u.rx = p /\ u.remote = p.from
      /\ Tail(waiting) \in Seq(Packet) /\ Len(Tail(waiting)) <= Room
  BY <1>2, <1>3, <1>4, HeadReceived
<1>6. /\ udp' \in Udp /\ Own(reply') /\ asks' \in [Client -> Name \cup {Nothing}]
      /\ faults' \in 0 .. MaxFaults /\ _resolvedIP' = apIP
  <2>1. CASE p.kind = "host" /\ replyWithIP(u, p)
    <3>1. Resolved(p) = apIP
      BY <1>1 DEF Resolved, ntoh, hosts
    <3>2. Sends(u, [NoReply EXCEPT !.of = p, !.qr = "response", !.address = apIP])
      BY <2>1, <3>1 DEF replyWithIP
    <3>3. _resolvedIP' = apIP
      BY <2>1, <3>1 DEF replyWithIP
    <3>4. QED
      BY <1>5, <2>1, <3>2, <3>3, SendsOwn
  <2>2. CASE p.kind = "extra" /\ replyWithCustomCode(u, p)
    <3>1. Sends(u, [NoReply EXCEPT !.of = p, !.qr = "query"])
      BY <2>2 DEF replyWithCustomCode
    <3>2. [NoReply EXCEPT !.of = p, !.qr = "query"]
            = [NoReply EXCEPT !.of = p, !.qr = "query", !.address = Nothing]
      <4>1. PICK r : r = [NoReply EXCEPT !.of = p, !.qr = "query"]
        OBVIOUS
      <4>2. r = [to |-> Nobody, of |-> p, qr |-> "query", address |-> Nothing]
        BY <4>1 DEF NoReply
      <4>3. r = [r EXCEPT !.address = Nothing]
        BY <4>2
      <4>4. QED
        BY <4>1, <4>3
    <3>3. Sends(u, [NoReply EXCEPT !.of = p, !.qr = "query", !.address = Nothing])
      BY <3>1, <3>2
    <3>4. _resolvedIP' = apIP
      BY <1>1, <2>2 DEF replyWithCustomCode
    <3>5. QED
      BY <1>5, <2>2, <3>3, <3>4, SendsOwn
  <2>3. CASE udp' = read(u) /\ UNCHANGED <<reply, _resolvedIP, asks, faults>>
    <3>1. read(u) \in Udp
      BY <1>5 DEF read, Udp
    <3>2. QED
      BY <1>1, <2>3, <3>1
  <2>4. QED
    BY <1>4, <1>5, <2>1, <2>2, <2>3
<1>7. (DnsInv)' <=> /\ udp' \in Udp /\ waiting' \in Seq(Packet) /\ Len(waiting') <= Room
                    /\ _resolvedIP' = apIP /\ asks' \in [Client -> Name \cup {Nothing}]
                    /\ faults' \in 0 .. MaxFaults /\ starved' \in BOOLEAN /\ Own(reply')
  BY DEF DnsInv, OwnAnswer, DnsTypeOK, Udp, Own, Address
<1>8. QED
  BY <1>1, <1>4, <1>5, <1>6, <1>7

(* DnsInv holds after start, whether the socket was opened or not. *)
LEMMA DnsInitInv == DnsInit => DnsInv
<1> SUFFICES ASSUME DnsInit
             PROVE  DnsInv
  OBVIOUS
<1>1. /\ _resolvedIP = apIP /\ waiting = <<>> /\ reply = NoReply
      /\ asks = [c \in Client |-> Nothing] /\ faults = 0 /\ starved = FALSE
  BY DEF DnsInit
<1>2. udp \in Udp
  BY Bounds DEF DnsInit, Udp
<1>3. Len(waiting) <= Room /\ waiting \in Seq(Packet) /\ faults \in 0 .. MaxFaults
  BY <1>1, Bounds
<1>4. asks \in [Client -> Name \cup {Nothing}] /\ Own(reply) /\ starved \in BOOLEAN
  BY <1>1 DEF Own
<1>5. QED
  BY <1>1, <1>2, <1>3, <1>4, DnsParts

(* Every step keeps DnsInv. *)
LEMMA DnsNextInv == DnsInv /\ [DnsNext]_dnsVars => DnsInv'
<1> SUFFICES ASSUME DnsInv, [DnsNext]_dnsVars
             PROVE  DnsInv'
  OBVIOUS
<1>1. /\ udp \in Udp /\ waiting \in Seq(Packet) /\ Len(waiting) <= Room
      /\ _resolvedIP = apIP /\ asks \in [Client -> Name \cup {Nothing}]
      /\ faults \in 0 .. MaxFaults /\ starved \in BOOLEAN /\ Own(reply)
  BY DnsParts
<1>2. (DnsInv)' <=> /\ udp' \in Udp /\ waiting' \in Seq(Packet) /\ Len(waiting') <= Room
                    /\ _resolvedIP' = apIP /\ asks' \in [Client -> Name \cup {Nothing}]
                    /\ faults' \in 0 .. MaxFaults /\ starved' \in BOOLEAN /\ Own(reply')
  BY DEF DnsInv, OwnAnswer, DnsTypeOK, Udp, Own, Address
<1>3. faults < MaxFaults => faults + 1 \in 0 .. MaxFaults
  BY <1>1, Bounds
<1>4. CASE Poll
  BY <1>4, PollInv
<1>5. CASE VoidPacket
  <2>1. PICK p : p = Head(waiting)
    OBVIOUS
  <2>2. /\ Receives /\ udp' = Received(p) /\ waiting' = Tail(waiting)
        /\ UNCHANGED <<_resolvedIP, reply, starved, asks, faults>>
    BY <1>5, <2>1 DEF VoidPacket
  <2>3. udp' \in Udp /\ waiting' \in Seq(Packet) /\ Len(waiting') <= Room
    BY <2>1, <2>2, HeadReceived
  <2>4. QED
    BY <1>1, <1>2, <2>2, <2>3
<1>6. CASE NoMemory
  <2>1. PICK p : p = Head(waiting)
    OBVIOUS
  <2>2. /\ Receives /\ udp' = Received(p) /\ waiting' = Tail(waiting)
        /\ faults < MaxFaults /\ faults' = faults + 1 /\ starved' = TRUE
        /\ UNCHANGED <<_resolvedIP, reply, asks>>
    BY <1>6, <2>1 DEF NoMemory
  <2>3. udp' \in Udp /\ waiting' \in Seq(Packet) /\ Len(waiting') <= Room
    BY <2>1, <2>2, HeadReceived
  <2>4. QED
    BY <1>1, <1>2, <1>3, <2>2, <2>3
<1>7. CASE Answer
  BY <1>7, AnswerInv
<1>8. ASSUME NEW c \in Client, Ask(c)
      PROVE  DnsInv'
  BY <1>1, <1>2, <1>8 DEF Ask
<1>9. ASSUME NEW m \in Packet, waiting' = Append(waiting, m), Len(waiting) < Room
      PROVE  waiting' \in Seq(Packet) /\ Len(waiting') <= Room
  BY <1>1, <1>9, Bounds
<1>10. ASSUME NEW c \in Client, Send(c)
       PROVE  DnsInv'
  <2>1. [from |-> c, name |-> asks[c], kind |-> "host"] \in Packet
    BY <1>1, <1>10 DEF Send, Packet, Kind
  <2>2. waiting' \in Seq(Packet) /\ Len(waiting') <= Room
    BY <1>9, <1>10, <2>1 DEF Send
  <2>3. QED
    BY <1>1, <1>2, <1>10, <2>2 DEF Send
<1>11. ASSUME NEW c \in Client, Other(c)
       PROVE  DnsInv'
  <2>1. PICK k \in Kind \ {"host"}, n \in Name :
            waiting' = Append(waiting, [from |-> c, name |-> n, kind |-> k])
    BY <1>11 DEF Other
  <2>2. [from |-> c, name |-> n, kind |-> k] \in Packet
    BY DEF Packet
  <2>3. waiting' \in Seq(Packet) /\ Len(waiting') <= Room
    BY <1>9, <1>11, <2>1, <2>2 DEF Other
  <2>4. QED
    BY <1>1, <1>2, <1>3, <1>11, <2>3 DEF Other
<1>12. CASE Break
  <2>1. udp' \in Udp
    BY <1>1, <1>12 DEF Break, Udp
  <2>2. QED
    BY <1>1, <1>2, <1>3, <1>12, <2>1 DEF Break
<1>13. CASE UNCHANGED dnsVars
  BY <1>1, <1>2, <1>13 DEF dnsVars
<1>14. QED
  BY <1>4, <1>5, <1>6, <1>7, <1>8, <1>10, <1>11, <1>12, <1>13 DEF DnsNext, processNextRequest

(* What leaves processNextRequest is what DnsInv says, whatever the socket
   goes through. *)
THEOREM DnsInvariant == DnsSpec => []DnsInv
<1>1. QED
  BY DnsInitInv, DnsNextInv, PTL DEF DnsSpec

(* OwnAnswer: replyWithIP and replyWithCustomCode answer the station that
   asked, and an answer sends it to the access point. *)
THEOREM AnswersTheAsker == DnsSpec => []OwnAnswer
<1>1. DnsInv => OwnAnswer
  BY DEF DnsInv
<1>2. QED
  BY <1>1, DnsInvariant, PTL
=============================================================================
