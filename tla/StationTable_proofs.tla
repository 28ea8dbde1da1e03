------------------------- MODULE StationTable_proofs -------------------------
(***************************************************************************)
(* Proofs about module StationTable, for any set of stations and addresses *)
(* and any number of cells and of events under way.                        *)
(***************************************************************************)
EXTENDS StationTable, FiniteSetTheorems, TLAPS

Come(m) == [type |-> "connected", mac |-> m]
Gone(m) == [type |-> "disconnected", mac |-> m]
Has(ip) == [type |-> "ip", ip |-> ip]

(* The events of a queue. *)
On(q) == {q[k] : k \in DOMAIN q}

(* A disconnect of m is in the queue, and behind it no connect of m. *)
LastGone(q, m) ==
    \E k \in DOMAIN q : q[k] = Gone(m) /\ \A l \in DOMAIN q : l > k => q[l] # Come(m)

Count == Cardinality(Occupied)

(* How far sta_connections may be from the number of occupied cells: a reset
   of the counter forgets the stations of the table, a reset of the table
   those of the counter. *)
CountOffset ==
    /\ pc = "starting" => sta_connections = 0 /\ Occupied = {}
    /\ pc = "registered" => sta_connections = Count
    /\ pc = "counted" => sta_connections \in Count - MAX_CLIENTS .. Count
    /\ pc = "run" => sta_connections \in Count - MAX_CLIENTS .. Count + MAX_CLIENTS

(* A station that left and is in the table, or has a connect under way, has a
   disconnect under way behind it. *)
LeftKnown(q, stations, tab) ==
    \A m \in Macs \ stations : m \in tab \/ Come(m) \in On(q) => LastGone(q, m)

LeftIsKnown == intact => LeftKnown(queue, Stations, Table)

(* No two stations have the same lease; a free cell has no address. *)
DistinctLeases(leases) ==
    \A s, t \in DOMAIN leases : leases[s] = leases[t] /\ leases[s] # NoIp => s = t

OneLease == DistinctLeases(assoc)

FreeHasNoIp == \A i \in Cell : is_maccell_free(i) => ips[i] = NoIp

(* An address in the table is its station's, or an event under way will
   correct it. *)
AddressKnown(q, leases, m, ip) ==
    \/ Gone(m) \in On(q)
    \/ m \in DOMAIN leases /\ (leases[m] = ip \/ Has(leases[m]) \in On(q))

AddressIsKnown ==
    intact => \A i \in Occupied : ips[i] # NoIp => AddressKnown(queue, assoc, macs[i], ips[i])

(* When the table is full and the control was on, the disconnect of one of
   its stations is under way. *)
OneIsLeaving ==
    intact /\ pc = "run" /\ ~skipped /\ sta_connections = Count /\ Count = MAX_CLIENTS
        => \E i \in Occupied : Gone(macs[i]) \in On(queue)

(* The inductive invariant. *)
IInv ==
    /\ DistinctMacs
    /\ IsFiniteSet(Stations)
    /\ CountOffset
    /\ LeftIsKnown
    /\ OneLease
    /\ FreeHasNoIp
    /\ AddressIsKnown
    /\ OneIsLeaving
-----------------------------------------------------------------------------
(* Events and queues. *)

(* The three kinds of events differ, and an event is determined by what it
   names. *)
LEMMA EventsDiffer ==
    ASSUME NEW m, NEW n
    PROVE  /\ Come(m) # Gone(n) /\ Come(m) # Has(n) /\ Gone(m) # Has(n)
           /\ Come(m) = Come(n) => m = n
           /\ Gone(m) = Gone(n) => m = n
           /\ Has(m) = Has(n) => m = n
<1>1. Come(m).type = "connected" /\ Gone(n).type = "disconnected" /\ Gone(m).type = "disconnected" /\ Has(n).type = "ip"
  BY DEF Come, Gone, Has
<1>2. Come(m).mac = m /\ Gone(m).mac = m /\ Has(m).ip = m /\ Come(n).mac = n /\ Gone(n).mac = n /\ Has(n).ip = n
  BY DEF Come, Gone, Has
<1> HIDE DEF Come, Gone, Has
<1>3. Come(m) # Gone(n) /\ Come(m) # Has(n) /\ Gone(m) # Has(n)
  BY <1>1
<1>4. QED
  BY <1>2, <1>3

(* An event is one of these three. *)
LEMMA EventForms ==
    ASSUME NEW e \in Event
    PROVE  /\ e.type = "connected" => e = Come(e.mac) /\ e.mac \in Macs
           /\ e.type = "disconnected" => e = Gone(e.mac) /\ e.mac \in Macs
           /\ e.type = "ip" => e = Has(e.ip) /\ e.ip \in Ips
<1>1. CASE e \in [type : {"connected", "disconnected"}, mac : Macs]
  BY <1>1 DEF Come, Gone, Has
<1>2. CASE e \in [type : {"ip"}, ip : Ips]
  BY <1>2 DEF Come, Gone, Has
<1>3. QED
  BY <1>1, <1>2 DEF Event

(* What is posted is an event. *)
LEMMA EventTypes ==
    /\ \A m \in Macs : Come(m) \in Event /\ Gone(m) \in Event
    /\ \A ip \in Ips : Has(ip) \in Event
BY DEF Event, Come, Gone, Has

(* Posting an event adds it behind all others. *)
LEMMA PostedLast ==
    ASSUME NEW q \in Seq(Event), NEW e \in Event
    PROVE  /\ Append(q, e) \in Seq(Event)
           /\ On(Append(q, e)) = On(q) \cup {e}
           /\ \A m : e # Come(m) /\ LastGone(q, m) => LastGone(Append(q, e), m)
           /\ \A m : e = Gone(m) => LastGone(Append(q, e), m)
<1> DEFINE a == Append(q, e)
<1>1. /\ a \in Seq(Event) /\ DOMAIN a = 1 .. Len(q) + 1 /\ DOMAIN q = 1 .. Len(q)
      /\ Len(q) \in Nat
      /\ \A k \in 1 .. Len(q) : a[k] = q[k]
      /\ a[Len(q) + 1] = e
  OBVIOUS
<1> HIDE DEF a
<1>2. On(a) = On(q) \cup {e}
  <2>1. \A k \in DOMAIN a : k \in DOMAIN q \/ k = Len(q) + 1
    BY <1>1
  <2>2. Len(q) + 1 \in DOMAIN a /\ \A k \in DOMAIN q : k \in DOMAIN a
    BY <1>1
  <2>3. QED
    BY <1>1, <2>1, <2>2 DEF On
<1>3. ASSUME NEW m, e # Come(m), LastGone(q, m)
      PROVE  LastGone(a, m)
  <2>1. PICK k \in DOMAIN q : q[k] = Gone(m) /\ \A l \in DOMAIN q : l > k => q[l] # Come(m)
    BY <1>3 DEF LastGone
  <2>2. k \in DOMAIN a /\ a[k] = Gone(m)
    BY <1>1, <2>1
  <2>3. \A l \in DOMAIN a : l > k => a[l] # Come(m)
    BY <1>1, <1>3, <2>1
  <2>4. QED
    BY <2>2, <2>3 DEF LastGone
<1>4. ASSUME NEW m, e = Gone(m)
      PROVE  LastGone(a, m)
  <2>1. Len(q) + 1 \in DOMAIN a /\ a[Len(q) + 1] = Gone(m)
    BY <1>1, <1>4
  <2>2. \A l \in DOMAIN a : ~(l > Len(q) + 1)
    BY <1>1
  <2>3. QED
    BY <2>1, <2>2 DEF LastGone
<1>5. QED
  BY <1>1, <1>2, <1>3, <1>4 DEF a

(* Taking the first event off leaves the others in their order. *)
LEMMA TakenFirst ==
    ASSUME NEW q \in Seq(Event), q # <<>>
    PROVE  /\ Head(q) \in Event /\ Head(q) \in On(q)
           /\ Tail(q) \in Seq(Event)
           /\ On(q) = On(Tail(q)) \cup {Head(q)}
           /\ \A m : LastGone(q, m) /\ (Head(q) # Gone(m) \/ Come(m) \in On(Tail(q)))
                        => LastGone(Tail(q), m)
<1> DEFINE t == Tail(q)
<1>1. /\ Len(q) \in Nat /\ Len(q) > 0
      /\ t \in Seq(Event) /\ DOMAIN t = 1 .. Len(q) - 1 /\ DOMAIN q = 1 .. Len(q)
      /\ \A k \in 1 .. Len(q) - 1 : t[k] = q[k + 1]
      /\ Head(q) = q[1] /\ q[1] \in Event
  OBVIOUS
<1> HIDE DEF t
<1>2. On(q) = On(t) \cup {q[1]}
  <2>1. 1 \in DOMAIN q
    BY <1>1
  <2>2. \A k \in DOMAIN q : k = 1 \/ (k - 1 \in DOMAIN t /\ t[k - 1] = q[k])
    BY <1>1
  <2>3. \A k \in DOMAIN t : k + 1 \in DOMAIN q /\ t[k] = q[k + 1]
    BY <1>1
  <2>4. QED
    BY <2>1, <2>2, <2>3 DEF On
<1>3. ASSUME NEW m, LastGone(q, m), Head(q) # Gone(m) \/ Come(m) \in On(t)
      PROVE  LastGone(t, m)
  <2>1. PICK k \in DOMAIN q : q[k] = Gone(m) /\ \A l \in DOMAIN q : l > k => q[l] # Come(m)
    BY <1>3 DEF LastGone
  <2>2. k # 1
    <3>1. CASE Head(q) # Gone(m)
      BY <1>1, <2>1, <3>1
    <3>2. CASE Come(m) \in On(t)
      <4>1. PICK j \in DOMAIN t : t[j] = Come(m)
        BY <3>2 DEF On
      <4>2. j + 1 \in DOMAIN q /\ q[j + 1] = Come(m) /\ j + 1 > 1
        BY <1>1, <4>1
      <4>3. QED
        BY <2>1, <4>2
    <3>3. QED
      BY <1>3, <3>1, <3>2
  <2>3. k - 1 \in DOMAIN t /\ t[k - 1] = Gone(m)
    BY <1>1, <2>1, <2>2
  <2>4. \A l \in DOMAIN t : l > k - 1 => t[l] # Come(m)
    <3>1. \A l \in DOMAIN t : l + 1 \in DOMAIN q /\ t[l] = q[l + 1] /\ (l > k - 1 => l + 1 > k)
      BY <1>1, <2>1
    <3>2. QED
      BY <2>1, <3>1
  <2>5. QED
    BY <2>3, <2>4 DEF LastGone
<1>4. QED
  BY <1>1, <1>2, <1>3 DEF t, On

(* A station whose last event is its departure has that event in the queue. *)
LEMMA LastGoneIsOn ==
    ASSUME NEW q, NEW m, LastGone(q, m)
    PROVE  Gone(m) \in On(q)
BY DEF LastGone, On

-----------------------------------------------------------------------------
(* Cells. *)

(* A set of natural numbers that is not empty has a least element. *)
LEMMA Least ==
    ASSUME NEW S, S \subseteq Nat, S # {}
    PROVE  \E i \in S : \A j \in S : i <= j
<1> DEFINE R == OpToRel(<, Nat)
<1>1. IsWellFoundedOn(R, Nat)
  BY NatLessThanWellFounded
<1>2. \A x, y \in Nat : x < y => <<x, y>> \in R
  BY DEF OpToRel
<1> HIDE DEF R
<1>3. PICK x \in S : \A y \in S : ~(<<y, x>> \in R)
  BY <1>1, WFMin
<1>4. \A y \in S : ~(y < x)
  BY <1>2, <1>3
<1>5. \A y \in S : x <= y
  BY <1>4
<1>6. QED
  BY <1>5

(* The search loops return an index of the set they look for, or -1. *)
LEMMA FirstFound ==
    ASSUME NEW S, S \subseteq Cell
    PROVE  /\ First(S) = -1 <=> S = {}
           /\ First(S) # -1 => First(S) \in S
<1>1. CASE S = {}
  BY <1>1 DEF First
<1>2. CASE S # {}
  <2>1. S \subseteq Nat
    BY TableAssumption DEF Cell
  <2>2. \E i \in S : \A j \in S : i <= j
    BY <1>2, <2>1, Least
  <2>3. First(S) \in S
    BY <1>2, <2>2 DEF First
  <2>4. First(S) \in Nat
    BY <2>1, <2>3
  <2>5. First(S) # -1
    BY <2>4
  <2>6. QED
    BY <1>2, <2>3, <2>5
<1>3. QED
  BY <1>1, <1>2

(* search_mac finds a station that is in the table. *)
LEMMA SearchMac ==
    ASSUME NEW m \in Macs
    PROVE  /\ search_mac(m) = -1 <=> m \notin Table
           /\ search_mac(m) # -1 => search_mac(m) \in Occupied /\ macs[search_mac(m)] = m
<1> DEFINE S == {i \in Cell : macs[i] = m}
<1>1. S \subseteq Cell /\ search_mac(m) = First(S)
  BY DEF search_mac
<1>2. m # NoMac
  BY TableAssumption
<1>3. S = {} <=> m \notin Table
  BY <1>2 DEF Table, Occupied, is_maccell_free
<1>4. \A i \in S : i \in Occupied /\ macs[i] = m
  BY <1>2 DEF Occupied, is_maccell_free
<1> HIDE DEF S
<1>5. QED
  BY <1>1, <1>3, <1>4, FirstFound

(* The table has MAX_CLIENTS cells ... *)
LEMMA CellsFinite ==
    IsFiniteSet(Cell) /\ Cardinality(Cell) = MAX_CLIENTS
<1>1. 0 \in Int /\ MAX_CLIENTS - 1 \in Int /\ MAX_CLIENTS > 0
  BY TableAssumption
<1>2. IsFiniteSet(Cell) /\ Cardinality(Cell) = IF 0 > MAX_CLIENTS - 1 THEN 0 ELSE MAX_CLIENTS - 1 - 0 + 1
  BY <1>1, FS_Interval DEF Cell
<1>3. QED
  BY <1>1, <1>2, TableAssumption

(* ... and not more of them are occupied. *)
LEMMA OccupiedFinite ==
    IsFiniteSet(Occupied) /\ Count \in 0 .. MAX_CLIENTS
<1>1. Occupied \in SUBSET Cell
  BY DEF Occupied
<1>2. IsFiniteSet(Occupied) /\ Count <= MAX_CLIENTS
  BY <1>1, CellsFinite, FS_Subset DEF Count
<1>3. Count \in Nat
  BY <1>2, FS_CardinalityType DEF Count
<1>4. QED
  BY <1>2, <1>3, TableAssumption

(* save_mac: one more cell and one more station. *)
LEMMA CellFilled ==
    ASSUME macs \in [Cell -> Macs \cup {NoMac}],
           NEW i \in Cell \ Occupied, NEW m \in Macs,
           macs' = [macs EXCEPT ![i] = m]
    PROVE  /\ Occupied' = Occupied \cup {i}
           /\ Table' = Table \cup {m}
           /\ Count' = Count + 1
           /\ macs' \in [Cell -> Macs \cup {NoMac}]
           /\ macs'[i] = m /\ \A j \in Cell \ {i} : macs'[j] = macs[j]
<1>1. m # NoMac /\ macs[i] = NoMac
  BY TableAssumption DEF Occupied, is_maccell_free
<1>2. /\ macs' \in [Cell -> Macs \cup {NoMac}]
      /\ macs'[i] = m /\ \A j \in Cell \ {i} : macs'[j] = macs[j]
  OBVIOUS
<1>3. Occupied' = Occupied \cup {i}
  BY <1>1, <1>2 DEF Occupied, is_maccell_free
<1>4. Table' = Table \cup {m}
  <2>1. Occupied \subseteq Cell \ {i}
    BY DEF Occupied
  <2>2. Table' = {macs'[j] : j \in Occupied'}
    BY DEF Table
  <2>3. QED
    BY <1>2, <1>3, <2>1, <2>2 DEF Table
<1>5. Count' = Count + 1
  <2>1. Count' = Cardinality(Occupied')
    BY DEF Count
  <2>2. QED
    BY <1>3, <2>1, OccupiedFinite, FS_AddElement DEF Count
<1>6. QED
  BY <1>2, <1>3, <1>4, <1>5

(* clear_mac: one cell less and, as no station has two, one station less. *)
LEMMA CellCleared ==
    ASSUME DistinctMacs, NEW i \in Occupied,
           macs' = [macs EXCEPT ![i] = NoMac]
    PROVE  /\ Occupied' = Occupied \ {i}
           /\ Table' = Table \ {macs[i]}
           /\ Count' = Count - 1
           /\ macs' \in [Cell -> Macs \cup {NoMac}]
           /\ macs'[i] = NoMac /\ \A j \in Cell \ {i} : macs'[j] = macs[j]
<1>1. /\ i \in Cell /\ macs \in [Cell -> Macs \cup {NoMac}]
      /\ \A j, k \in Occupied : macs[j] = macs[k] => j = k
  BY DEF DistinctMacs, TypeOK, Occupied
<1>2. /\ macs' \in [Cell -> Macs \cup {NoMac}]
      /\ macs'[i] = NoMac /\ \A j \in Cell \ {i} : macs'[j] = macs[j]
  BY <1>1
<1>3. Occupied' = Occupied \ {i}
  BY <1>1, <1>2 DEF Occupied, is_maccell_free
<1>4. Table' = Table \ {macs[i]}
  <2>1. \A j \in Occupied \ {i} : j \in Cell \ {i} /\ macs[j] # macs[i]
    BY <1>1 DEF Occupied
  <2>2. Table' = {macs'[j] : j \in Occupied'}
    BY DEF Table
  <2>3. QED
    BY <1>2, <1>3, <2>1, <2>2 DEF Table
<1>5. Count' = Count - 1
  <2>1. Count' = Cardinality(Occupied')
    BY DEF Count
  <2>2. QED
    BY <1>3, <2>1, OccupiedFinite, FS_RemoveElement DEF Count
<1>6. QED
  BY <1>2, <1>3, <1>4, <1>5
-----------------------------------------------------------------------------
(* What the steps of the queue do to LeftKnown and AddressKnown. *)

Released(leases, m) == [s \in DOMAIN leases \ {m} |-> leases[s]]

(* A station that joins posts a connect, one that leaves a disconnect, one
   that is given an address that address. *)
LEMMA LeftPosted ==
    ASSUME NEW q \in Seq(Event), NEW st, NEW tab, LeftKnown(q, st, tab)
    PROVE  /\ \A m \in Macs : LeftKnown(Append(q, Come(m)), st \cup {m}, tab)
           /\ \A m \in Macs : LeftKnown(Append(q, Gone(m)), st \ {m}, tab)
           /\ \A ip \in Ips : LeftKnown(Append(q, Has(ip)), st, tab)
<1>1. ASSUME NEW m \in Macs
      PROVE  LeftKnown(Append(q, Come(m)), st \cup {m}, tab)
  <2> SUFFICES ASSUME NEW n \in Macs \ (st \cup {m}),
                      n \in tab \/ Come(n) \in On(Append(q, Come(m)))
               PROVE  LastGone(Append(q, Come(m)), n)
    BY DEF LeftKnown
  <2>1. Come(m) \in Event /\ Come(m) # Come(n)
    BY EventTypes, EventsDiffer
  <2>2. LastGone(q, n)
    BY <2>1, PostedLast DEF LeftKnown
  <2>3. QED
    BY <2>1, <2>2, PostedLast
<1>2. ASSUME NEW m \in Macs
      PROVE  LeftKnown(Append(q, Gone(m)), st \ {m}, tab)
  <2> SUFFICES ASSUME NEW n \in Macs \ (st \ {m}),
                      n \in tab \/ Come(n) \in On(Append(q, Gone(m)))
               PROVE  LastGone(Append(q, Gone(m)), n)
    BY DEF LeftKnown
  <2>1. Gone(m) \in Event /\ Gone(m) # Come(n)
    BY EventTypes, EventsDiffer
  <2>2. CASE n = m
    BY <2>1, <2>2, PostedLast
  <2>3. CASE n # m
    <3>1. LastGone(q, n)
      BY <2>1, <2>3, PostedLast DEF LeftKnown
    <3>2. QED
      BY <2>1, <3>1, PostedLast
  <2>4. QED
    BY <2>2, <2>3
<1>3. ASSUME NEW ip \in Ips
      PROVE  LeftKnown(Append(q, Has(ip)), st, tab)
  <2> SUFFICES ASSUME NEW n \in Macs \ st,
                      n \in tab \/ Come(n) \in On(Append(q, Has(ip)))
               PROVE  LastGone(Append(q, Has(ip)), n)
    BY DEF LeftKnown
  <2>1. Has(ip) \in Event /\ Has(ip) # Come(n)
    BY EventTypes, EventsDiffer
  <2>2. LastGone(q, n)
    BY <2>1, PostedLast DEF LeftKnown
  <2>3. QED
    BY <2>1, <2>2, PostedLast
<1>4. QED
  BY <1>1, <1>2, <1>3

(* The handler of a connect may enter its station, that of a disconnect
   removes it, and with an empty table any event may be ignored. *)
LEMMA LeftTaken ==
    ASSUME NEW q \in Seq(Event), q # <<>>, NEW st, NEW tab, LeftKnown(q, st, tab)
    PROVE  /\ \A m : Head(q) = Come(m) => LeftKnown(Tail(q), st, tab \cup {m})
           /\ \A m : Head(q) = Gone(m) => LeftKnown(Tail(q), st, tab \ {m})
           /\ \A ip : Head(q) = Has(ip) => LeftKnown(Tail(q), st, tab)
           /\ tab = {} => LeftKnown(Tail(q), st, {})
<1>1. ASSUME NEW n \in Macs \ st, NEW t,
             n \in t \/ Come(n) \in On(Tail(q)),
             n \in t => n \in tab \/ Come(n) \in On(q),
             n \in t => Head(q) # Gone(n)
      PROVE  LastGone(Tail(q), n)
  <2>1. LastGone(q, n)
    BY <1>1, TakenFirst DEF LeftKnown
  <2>2. QED
    BY <1>1, <2>1, TakenFirst
<1>2. \A m : Head(q) = Come(m) => LeftKnown(Tail(q), st, tab \cup {m})
  BY <1>1, EventsDiffer, TakenFirst DEF LeftKnown
<1>3. \A m : Head(q) = Gone(m) => LeftKnown(Tail(q), st, tab \ {m})
  BY <1>1, EventsDiffer DEF LeftKnown
<1>4. \A ip : Head(q) = Has(ip) => LeftKnown(Tail(q), st, tab)
  BY <1>1, EventsDiffer DEF LeftKnown
<1>5. tab = {} => LeftKnown(Tail(q), st, {})
  BY <1>1 DEF LeftKnown
<1>6. QED
  BY <1>2, <1>3, <1>4, <1>5

(* LeftKnown holds of every smaller table. *)
LEMMA LeftLess ==
    ASSUME NEW q, NEW st, NEW tab, NEW t \in SUBSET tab, LeftKnown(q, st, tab)
    PROVE  LeftKnown(q, st, t)
BY DEF LeftKnown

(* Whatever is posted leaves an address known. *)
LEMMA AddressPosted ==
    ASSUME NEW q \in Seq(Event), NEW leases, NEW m, NEW ip, AddressKnown(q, leases, m, ip)
    PROVE  /\ \A n \in Macs : AddressKnown(Append(q, Gone(n)), Released(leases, n), m, ip)
           /\ \A e \in Event : AddressKnown(Append(q, e), leases, m, ip)
           /\ \A n \in DOMAIN leases, p \in Ips :
                AddressKnown(Append(q, Has(p)), [leases EXCEPT ![n] = p], m, ip)
<1>1. \A e \in Event : On(Append(q, e)) = On(q) \cup {e}
  BY PostedLast
<1>2. ASSUME NEW n \in Macs
      PROVE  AddressKnown(Append(q, Gone(n)), Released(leases, n), m, ip)
  <2>1. On(Append(q, Gone(n))) = On(q) \cup {Gone(n)}
    BY <1>1, EventTypes
  <2>2. CASE m = n
    BY <2>1, <2>2 DEF AddressKnown
  <2>3. CASE m # n
    <3>1. m \in DOMAIN leases => m \in DOMAIN Released(leases, n) /\ Released(leases, n)[m] = leases[m]
      BY <2>3 DEF Released
    <3>2. QED
      BY <2>1, <3>1 DEF AddressKnown
  <2>4. QED
    BY <2>2, <2>3
<1>3. \A e \in Event : AddressKnown(Append(q, e), leases, m, ip)
  BY <1>1 DEF AddressKnown
<1>4. ASSUME NEW n \in DOMAIN leases, NEW p \in Ips
      PROVE  AddressKnown(Append(q, Has(p)), [leases EXCEPT ![n] = p], m, ip)
  <2> DEFINE l == [leases EXCEPT ![n] = p]
  <2>1. On(Append(q, Has(p))) = On(q) \cup {Has(p)}
    BY <1>1, EventTypes
  <2>2. DOMAIN l = DOMAIN leases /\ l[n] = p /\ \A s \in DOMAIN leases \ {n} : l[s] = leases[s]
    OBVIOUS
  <2> HIDE DEF l
  <2>3. AddressKnown(Append(q, Has(p)), l, m, ip)
    BY <2>1, <2>2 DEF AddressKnown
  <2>4. QED
    BY <2>3 DEF l
<1>5. QED
  BY <1>2, <1>3, <1>4
-----------------------------------------------------------------------------
(* The steps. *)

(* What the steps need of the types. *)
LEMMA Types ==
    ASSUME IInv
    PROVE  /\ TypeOK
           /\ macs \in [Cell -> Macs \cup {NoMac}] /\ ips \in [Cell -> Ips \cup {NoIp}]
           /\ queue \in Seq(Event) /\ assoc \in [Stations -> Ips \cup {NoIp}]
           /\ Stations \subseteq Macs /\ IsFiniteSet(Stations)
           /\ Cardinality(Stations) \in Nat /\ Cardinality(Stations) <= MAX_CLIENTS
           /\ \A i \in Occupied : i \in Cell /\ macs[i] \in Macs /\ macs[i] \in Table
           /\ \A i, j \in Occupied : macs[i] = macs[j] => i = j
<1>1. TypeOK /\ IsFiniteSet(Stations) /\ \A i, j \in Occupied : macs[i] = macs[j] => i = j
  BY DEF IInv, DistinctMacs
<1>2. Cardinality(Stations) \in Nat
  BY <1>1, FS_CardinalityType
<1>3. macs \in [Cell -> Macs \cup {NoMac}]
  BY <1>1 DEF TypeOK
<1>4. \A i \in Occupied : i \in Cell /\ macs[i] \in Macs /\ macs[i] \in Table
  BY <1>3 DEF Occupied, is_maccell_free, Table
<1>5. QED
  BY <1>1, <1>2, <1>3, <1>4 DEF TypeOK

(* What depends on the addresses in the table only. *)
LEMMA SameMacs ==
    ASSUME macs' = macs
    PROVE  Occupied' = Occupied /\ Table' = Table /\ Count' = Count
<1>1. Occupied' = Occupied
  BY DEF Occupied, is_maccell_free
<1>2. QED
  BY <1>1 DEF Table, Count

(* The table, the counter and the driver stay as they are. *)
LEMMA StepAside ==
    ASSUME IInv, TypeOK',
           UNCHANGED <<macs, ips, sta_connections, skipped, driver>>,
           pc' = pc \/ (pc = "starting" /\ pc' = "registered")
    PROVE  IInv'
<1>1. Occupied' = Occupied /\ Table' = Table /\ Count' = Count /\ Stations' = Stations
  BY SameMacs DEF driver, Stations
<1>2. queue' = queue /\ assoc' = assoc /\ intact' = intact
  BY DEF driver
<1>3. DistinctMacs' /\ IsFiniteSet(Stations)'
  BY <1>1 DEF IInv, DistinctMacs
<1>4. CountOffset'
  BY <1>1, FS_EmptySet DEF IInv, CountOffset, Count
<1>5. LeftIsKnown' /\ OneLease' /\ FreeHasNoIp' /\ AddressIsKnown'
  BY <1>1, <1>2 DEF IInv, LeftIsKnown, OneLease, FreeHasNoIp, is_maccell_free, AddressIsKnown
<1>6. OneIsLeaving'
  BY <1>1, <1>2 DEF IInv, OneIsLeaving
<1>7. QED
  BY <1>3, <1>4, <1>5, <1>6 DEF IInv

(* The driver posts an event and the table stays as it is. *)
LEMMA StepPosted ==
    ASSUME IInv, NEW e \in Event,
           UNCHANGED <<table, control, pc, ix, intact>>,
           queue' = Append(queue, e),
           assoc' \in [Stations' -> Ips \cup {NoIp}], Stations' \subseteq Macs,
           IsFiniteSet(Stations'), Cardinality(Stations') <= MAX_CLIENTS,
           DistinctLeases(assoc'),
           LeftKnown(queue, Stations, Table) => LeftKnown(queue', Stations', Table),
           \A m \in Macs, ip \in Ips :
                AddressKnown(queue, assoc, m, ip) => AddressKnown(queue', assoc', m, ip)
    PROVE  IInv'
<1>1. macs' = macs /\ ips' = ips /\ sta_connections' = sta_connections /\ skipped' = skipped
  BY DEF table
<1>2. Occupied' = Occupied /\ Table' = Table /\ Count' = Count
  BY <1>1, SameMacs
<1>3. queue' \in Seq(Event) /\ On(queue') = On(queue) \cup {e}
  BY Types, PostedLast
<1>4. TypeOK'
  BY <1>1, <1>3, Types DEF TypeOK, table
<1>5. DistinctMacs' /\ IsFiniteSet(Stations)'
  BY <1>1, <1>2, <1>4 DEF IInv, DistinctMacs
<1>6. CountOffset'
  BY <1>1, <1>2 DEF IInv, CountOffset
<1>7. LeftIsKnown' /\ OneLease'
  BY <1>2 DEF IInv, LeftIsKnown, OneLease
<1>8. FreeHasNoIp'
  BY <1>1 DEF IInv, FreeHasNoIp, is_maccell_free
<1>9. AddressIsKnown'
  <2>1. \A i \in Occupied : macs[i] \in Macs /\ (ips[i] # NoIp => ips[i] \in Ips)
    BY Types
  <2>2. QED
    BY <1>1, <1>2, <2>1 DEF IInv, AddressIsKnown
<1>10. OneIsLeaving'
  BY <1>1, <1>2, <1>3 DEF IInv, OneIsLeaving
<1>11. QED
  BY <1>5, <1>6, <1>7, <1>8, <1>9, <1>10 DEF IInv

(* A station associates; the table hears of it later. *)
LEMMA AssociateInv == ASSUME IInv, NEW m \in Macs, Associate(m) PROVE IInv'
<1>1. /\ assoc' = [s \in Stations \cup {m} |-> IF s \in Stations THEN assoc[s] ELSE NoIp]
      /\ queue' = Append(queue, Come(m))
      /\ UNCHANGED <<table, control, pc, ix, intact>>
      /\ Cardinality(Stations \ {m}) < MAX_CLIENTS
  BY DEF Associate, Posted, Come
<1>2. Stations' = Stations \cup {m} /\ Stations' \subseteq Macs
  BY <1>1, Types DEF Stations
<1>3. assoc' \in [Stations' -> Ips \cup {NoIp}]
  BY <1>1, <1>2, Types
<1>4. IsFiniteSet(Stations') /\ Cardinality(Stations') <= MAX_CLIENTS
  <2>1. IsFiniteSet(Stations \ {m})
    BY Types, FS_RemoveElement
  <2>2. Stations' = (Stations \ {m}) \cup {m} /\ m \notin Stations \ {m}
    BY <1>2
  <2>3. IsFiniteSet(Stations') /\ Cardinality(Stations') = Cardinality(Stations \ {m}) + 1
    BY <2>1, <2>2, FS_AddElement
  <2>4. Cardinality(Stations \ {m}) \in Nat
    BY <2>1, FS_CardinalityType
  <2>5. QED
    BY <1>1, <2>3, <2>4, TableAssumption
<1>5. DistinctLeases(assoc')
  BY <1>1 DEF Stations, IInv, OneLease, DistinctLeases
<1>6. LeftKnown(queue, Stations, Table) => LeftKnown(queue', Stations', Table)
  BY <1>1, <1>2, Types, LeftPosted
<1>7. ASSUME NEW n \in Macs, NEW ip \in Ips, AddressKnown(queue, assoc, n, ip)
      PROVE  AddressKnown(queue', assoc', n, ip)
  <2>1. On(queue') = On(queue) \cup {Come(m)}
    BY <1>1, Types, PostedLast, EventTypes
  <2>2. n \in Stations => n \in DOMAIN assoc' /\ assoc'[n] = assoc[n]
    BY <1>1
  <2>3. QED
    BY <1>7, <2>1, <2>2 DEF AddressKnown, Stations
<1>8. QED
  BY <1>1, <1>2, <1>3, <1>4, <1>5, <1>6, <1>7, StepPosted, EventTypes

(* What is left of the stations and leases when one goes. *)
LEMMA ReleasedTypes ==
    ASSUME IInv, NEW m, assoc' = Released(assoc, m)
    PROVE  /\ Stations' = Stations \ {m} /\ Stations' \subseteq Macs
           /\ assoc' \in [Stations' -> Ips \cup {NoIp}]
           /\ IsFiniteSet(Stations') /\ Cardinality(Stations') <= MAX_CLIENTS
           /\ DistinctLeases(assoc')
<1>1. Stations' = Stations \ {m} /\ Stations' \subseteq Macs /\ assoc' \in [Stations' -> Ips \cup {NoIp}]
  BY Types DEF Released, Stations
<1>2. IsFiniteSet(Stations') /\ Cardinality(Stations') <= Cardinality(Stations)
  BY <1>1, Types, FS_Subset
<1>3. Cardinality(Stations') \in Nat
  BY <1>2, FS_CardinalityType
<1>4. Cardinality(Stations') <= MAX_CLIENTS
  BY <1>2, <1>3, Types, TableAssumption
<1>5. DistinctLeases(assoc')
  BY <1>1 DEF IInv, OneLease, DistinctLeases, Released
<1>6. QED
  BY <1>1, <1>2, <1>4, <1>5

(* A station leaves. *)
LEMMA LeaveInv == ASSUME IInv, NEW m \in Macs, Leave(m) PROVE IInv'
<1>1. /\ assoc' = Released(assoc, m)
      /\ queue' = Append(queue, Gone(m))
      /\ UNCHANGED <<table, control, pc, ix, intact>>
  BY DEF Stations, Leave, Without, Released, Posted, Gone
<1>2. LeftKnown(queue, Stations, Table) => LeftKnown(queue', Stations \ {m}, Table)
  BY <1>1, Types, LeftPosted
<1>3. \A n \in Macs, ip \in Ips :
        AddressKnown(queue, assoc, n, ip) => AddressKnown(queue', assoc', n, ip)
  BY <1>1, Types, AddressPosted
<1>4. QED
  BY <1>1, <1>2, <1>3, ReleasedTypes, StepPosted, EventTypes

(* The DHCP server gives a station an address. *)
LEMMA LeaseInv == ASSUME IInv, NEW m \in Macs, NEW ip \in Ips, Lease(m, ip) PROVE IInv'
<1>1. /\ m \in Stations
      /\ \A s \in Stations \ {m} : assoc[s] # ip
      /\ assoc' = [assoc EXCEPT ![m] = ip]
      /\ queue' = Append(queue, Has(ip))
      /\ UNCHANGED <<table, control, pc, ix, intact>>
  BY DEF Lease, Posted, Has
<1>2. Stations' = Stations /\ assoc' \in [Stations' -> Ips \cup {NoIp}]
  BY <1>1, Types DEF Stations
<1>3. assoc'[m] = ip /\ \A s \in Stations \ {m} : assoc'[s] = assoc[s]
  BY <1>1, Types
<1>4. DistinctLeases(assoc')
  BY <1>1, <1>2, <1>3 DEF IInv, OneLease, DistinctLeases
<1>5. LeftKnown(queue, Stations, Table) => LeftKnown(queue', Stations', Table)
  BY <1>1, <1>2, Types, LeftPosted
<1>6. \A n \in Macs, p \in Ips :
        AddressKnown(queue, assoc, n, p) => AddressKnown(queue', assoc', n, p)
  BY <1>1, Types, AddressPosted
<1>7. QED
  BY <1>1, <1>2, <1>4, <1>5, <1>6, Types, StepPosted, EventTypes

(* The counter is at most MAX_CLIENTS away from the number of occupied cells. *)
LEMMA OffsetArithmetic ==
    ASSUME NEW c \in 0 .. MAX_CLIENTS, NEW n,
           n = 0 \/ n = c \/ n \in c - MAX_CLIENTS .. c \/ n \in c - MAX_CLIENTS .. c + MAX_CLIENTS
    PROVE  n \in -MAX_CLIENTS .. 2 * MAX_CLIENTS
BY TableAssumption

(* The counter is in its range after a step that keeps CountOffset. *)
LEMMA CounterInRange ==
    ASSUME pc' \in PC, CountOffset'
    PROVE  sta_connections' \in -MAX_CLIENTS .. 2 * MAX_CLIENTS
<1>1. Occupied' \in SUBSET Cell /\ Count' = Cardinality(Occupied')
  BY DEF Occupied, Count
<1>2. IsFiniteSet(Occupied') /\ Cardinality(Occupied') <= MAX_CLIENTS
  BY <1>1, CellsFinite, FS_Subset
<1>3. Cardinality(Occupied') \in Nat
  BY <1>2, FS_CardinalityType
<1>4. Count' \in 0 .. MAX_CLIENTS
  BY <1>1, <1>2, <1>3, TableAssumption
<1>5. \/ sta_connections' = 0
      \/ sta_connections' = Count'
      \/ sta_connections' \in Count' - MAX_CLIENTS .. Count'
      \/ sta_connections' \in Count' - MAX_CLIENTS .. Count' + MAX_CLIENTS
  BY DEF CountOffset, PC
<1>6. QED
  BY <1>4, <1>5, OffsetArithmetic

(* A handler runs for an event of the queue, and for the first one if no
   event was overwritten. *)
LEMMA Dispatched ==
    ASSUME IInv, NEW type, NEW e, Dispatch(type, e)
    PROVE  /\ queue # <<>> /\ pc # "starting" /\ e.type = type
           /\ intact' \in BOOLEAN
           /\ intact' => intact /\ Head(queue) = e
<1>1. e \in Read /\ pc # "starting" /\ e.type = type /\ intact' = (intact /\ e = Head(queue))
  BY DEF Dispatch
<1>2. queue # <<>>
  BY <1>1 DEF Read
<1>3. QED
  BY <1>1, <1>2
(* The first event is taken and the table stays as it is: the connect of a
   station the table has, or has no room for, or the disconnect of one it
   does not have. *)
LEMMA StepIgnored ==
    ASSUME IInv, queue # <<>>, Taken,
           UNCHANGED <<table, control, pc, ix>>,
           intact' \in BOOLEAN,
           intact' => intact /\ \/ \E m \in Macs : Head(queue) = Come(m)
                                \/ \E m \in Macs \ Table : Head(queue) = Gone(m)
    PROVE  IInv'
<1>1. macs' = macs /\ ips' = ips /\ sta_connections' = sta_connections /\ skipped' = skipped
  BY DEF table
<1>2. Occupied' = Occupied /\ Table' = Table /\ Count' = Count /\ Stations' = Stations
  BY <1>1, SameMacs DEF Taken, Stations
<1>3. queue' = Tail(queue) /\ queue' \in Seq(Event) /\ assoc' = assoc
  BY Types, TakenFirst DEF Taken
<1>4. On(queue) = On(queue') \cup {Head(queue)}
  BY <1>3, Types, TakenFirst
<1>5. TypeOK'
  BY <1>1, <1>2, <1>3, Types DEF TypeOK, table
<1>6. DistinctMacs' /\ IsFiniteSet(Stations)' /\ CountOffset' /\ OneLease' /\ FreeHasNoIp'
  BY <1>1, <1>2, <1>3, <1>5
     DEF IInv, DistinctMacs, CountOffset, OneLease, FreeHasNoIp, is_maccell_free
<1>7. ASSUME intact' PROVE LeftKnown(queue', Stations, Table)
  <2>1. LeftKnown(queue, Stations, Table)
    BY <1>7 DEF IInv, LeftIsKnown
  <2>2. CASE \E m \in Macs : Head(queue) = Come(m)
    <3>1. PICK m \in Macs : Head(queue) = Come(m)
      BY <2>2
    <3>2. LeftKnown(queue', Stations, Table \cup {m})
      BY <1>3, <2>1, <3>1, Types, LeftTaken
    <3>3. QED
      BY <3>2, LeftLess
  <2>3. CASE \E m \in Macs \ Table : Head(queue) = Gone(m)
    <3>1. PICK m \in Macs \ Table : Head(queue) = Gone(m)
      BY <2>3
    <3>2. LeftKnown(queue', Stations, Table \ {m})
      BY <1>3, <2>1, <3>1, Types, LeftTaken
    <3>3. Table \ {m} = Table
      BY <3>1
    <3>4. QED
      BY <3>2, <3>3
  <2>4. QED
    BY <1>7, <2>2, <2>3
<1>8. ASSUME intact', NEW i \in Occupied
      PROVE  /\ Gone(macs[i]) \in On(queue) => Gone(macs[i]) \in On(queue')
             /\ \A ip : Has(ip) \in On(queue) => Has(ip) \in On(queue')
  <2>1. Head(queue) # Gone(macs[i]) /\ \A ip : Head(queue) # Has(ip)
    BY <1>8, Types, EventsDiffer
  <2>2. QED
    BY <1>4, <2>1
<1>9. AddressIsKnown'
  BY <1>1, <1>2, <1>3, <1>8 DEF IInv, AddressIsKnown, AddressKnown
<1>10. OneIsLeaving'
  BY <1>1, <1>2, <1>8 DEF IInv, OneIsLeaving
<1>11. QED
  BY <1>2, <1>6, <1>7, <1>9, <1>10 DEF IInv, LeftIsKnown

(* WiFiStationConnected with a new station: it is entered in a free cell and
   the one idle longest may be told to go. *)
LEMMA StepEntered ==
    ASSUME IInv, NEW m \in Macs \ Table, NEW i \in Cell \ Occupied,
           queue # <<>>, pc # "starting",
           intact' \in BOOLEAN, intact' => intact /\ Head(queue) = Come(m),
           macs' = [macs EXCEPT ![i] = m],
           mac_ms' = Stamped(i),
           sta_connections' = sta_connections + 1,
           skipped' = (AtLimit(sta_connections') /\ ~control),
           IF AtLimit(sta_connections') /\ control THEN deauth_old_sta(i) ELSE Taken,
           UNCHANGED <<ips, control, pc, ix>>
    PROVE  IInv'
<1> DEFINE q == Tail(queue)
<1>1. q \in Seq(Event) /\ On(queue) = On(q) \cup {Head(queue)}
  BY Types, TakenFirst
<1>2. /\ Occupied' = Occupied \cup {i}
      /\ Table' = Table \cup {m}
      /\ Count' = Count + 1
      /\ macs' \in [Cell -> Macs \cup {NoMac}]
      /\ macs'[i] = m /\ \A j \in Cell \ {i} : macs'[j] = macs[j]
  BY CellFilled, Types
<1>3. \A j \in Occupied : j \in Cell \ {i} /\ macs'[j] = macs[j] /\ macs[j] \in Table /\ macs[j] \in Macs
  BY <1>2, Types DEF Occupied
<1>4. ASSUME intact'
      PROVE  /\ LeftKnown(q, Stations, Table')
             /\ \A j \in Occupied : ips[j] # NoIp => AddressKnown(q, assoc, macs[j], ips[j])
  <2>1. intact /\ Head(queue) = Come(m)
    BY <1>4
  <2>2. LeftKnown(q, Stations, Table')
    BY <1>2, <2>1, Types, LeftTaken DEF IInv, LeftIsKnown
  <2>3. \A n : Gone(n) # Head(queue) /\ Has(n) # Head(queue)
    BY <2>1, EventsDiffer
  <2>4. \A n : (Gone(n) \in On(queue) => Gone(n) \in On(q)) /\ (Has(n) \in On(queue) => Has(n) \in On(q))
    BY <1>1, <2>3
  <2>5. \A j \in Occupied : ips[j] # NoIp => AddressKnown(queue, assoc, macs[j], ips[j])
    BY <2>1 DEF IInv, AddressIsKnown
  <2>6. QED
    BY <2>2, <2>4, <2>5 DEF AddressKnown
<1> HIDE DEF q
<1>5. \/ queue' = q /\ assoc' = assoc
      \/ \E o \in Occupied \cup {i} :
            assoc' = Released(assoc, macs'[o]) /\ queue' = Append(q, Gone(macs'[o])) /\ macs'[o] \in Macs
  <2>1. \A o \in Occupied \cup {i} : macs'[o] \in Macs
    BY <1>2, <1>3
  <2>2. CASE Taken
    BY <2>2 DEF Taken, q
  <2>3. CASE deauth_old_sta(i)
    <3>1. PICK o \in Occupied \cup {i} :
            \/ assoc' = Without(macs'[o]) /\ queue' = Append(q, Gone(macs'[o]))
            \/ Taken
      BY <2>3 DEF deauth_old_sta, Oldest, Gone, q
    <3>2. QED
      BY <2>1, <2>2, <3>1 DEF Without, Released, Stations
  <2>4. QED
    BY <2>2, <2>3
<1>6. /\ queue' \in Seq(Event) /\ Stations' \subseteq Macs
      /\ assoc' \in [Stations' -> Ips \cup {NoIp}]
      /\ IsFiniteSet(Stations') /\ Cardinality(Stations') <= MAX_CLIENTS
      /\ DistinctLeases(assoc')
  <2>1. CASE queue' = q /\ assoc' = assoc
    BY <1>1, <2>1, Types DEF Stations, IInv, OneLease
  <2>2. ASSUME NEW o, assoc' = Released(assoc, macs'[o]), queue' = Append(q, Gone(macs'[o])), macs'[o] \in Macs
        PROVE  <1>6
    BY <1>1, <2>2, ReleasedTypes, PostedLast, EventTypes
  <2>3. QED
    BY <1>5, <2>1, <2>2
<1>7. ASSUME intact'
      PROVE  /\ LeftKnown(queue', Stations', Table')
             /\ \A j \in Occupied : ips[j] # NoIp => AddressKnown(queue', assoc', macs[j], ips[j])
  <2>1. CASE queue' = q /\ assoc' = assoc
    BY <1>4, <1>7, <2>1 DEF Stations
  <2>2. ASSUME NEW o, assoc' = Released(assoc, macs'[o]), queue' = Append(q, Gone(macs'[o])), macs'[o] \in Macs
        PROVE  <1>7!2
    <3>1. Stations' = Stations \ {macs'[o]}
      BY <2>2, ReleasedTypes
    <3>2. QED
      BY <1>1, <1>4, <1>7, <2>2, <3>1, LeftPosted, AddressPosted
  <2>3. QED
    BY <1>5, <2>1, <2>2
<1>8. CountOffset'
  BY <1>2, OccupiedFinite, TableAssumption DEF IInv, CountOffset, DistinctMacs, TypeOK, PC
<1>9. TypeOK'
  <2>1. sta_connections' \in -MAX_CLIENTS .. 2 * MAX_CLIENTS
    BY <1>8, Types, CounterInRange DEF TypeOK
  <2>2. mac_ms' \subseteq Cell \X Cell
    BY Types DEF TypeOK, Stamped, Occupied
  <2>3. skipped' \in BOOLEAN
    BY DEF AtLimit
  <2>4. QED
    BY <1>2, <1>6, <2>1, <2>2, <2>3, Types DEF TypeOK
<1>10. DistinctMacs'
  <2>1. \A j, k \in Occupied' : macs'[j] = macs'[k] => j = k
    BY <1>2, <1>3, Types
  <2>2. QED
    BY <1>9, <2>1 DEF DistinctMacs
<1>11. FreeHasNoIp'
  BY <1>2, TableAssumption DEF IInv, FreeHasNoIp, is_maccell_free
<1>12. AddressIsKnown'
  <2>1. ips[i] = NoIp
    BY DEF IInv, FreeHasNoIp, Occupied
  <2>2. QED
    BY <1>2, <1>3, <1>7, <2>1 DEF AddressIsKnown
<1>13. OneIsLeaving'
  <2> SUFFICES ASSUME intact', pc = "run", ~skipped', sta_connections' = Count', Count' = MAX_CLIENTS
               PROVE  \E j \in Occupied' : Gone(macs'[j]) \in On(queue')
    BY DEF OneIsLeaving
  <2>1. AtLimit(sta_connections') /\ control
    <3>1. AtLimit(sta_connections')
      BY TableAssumption DEF AtLimit
    <3>2. QED
      BY <3>1, Zenon
  <2>2. PICK o \in Oldest(i) :
          \/ assoc' = Without(macs'[o]) /\ queue' = Append(q, Gone(macs'[o]))
          \/ (macs'[o] \notin Stations \/ o = i) /\ queue' = q
    BY <2>1 DEF deauth_old_sta, Gone, Taken, q
  <2>3. Occupied # {}
    BY <1>2, OccupiedFinite, FS_EmptySet, TableAssumption DEF Count
  <2>4. o \in Occupied
    <3>1. PICK c \in Occupied : c # i
      BY <2>3
    <3>2. o # i
      BY <3>1 DEF Oldest, Stamped
    <3>3. QED
      BY <3>2 DEF Oldest
  <2>5. CASE queue' = Append(q, Gone(macs'[o]))
    <3>1. Gone(macs'[o]) \in Event
      BY <1>3, <2>4, EventTypes
    <3>2. QED
      BY <1>1, <1>2, <2>4, <2>5, <3>1, PostedLast
  <2>6. CASE macs'[o] \notin Stations /\ queue' = q
    <3>1. macs'[o] \in Macs /\ macs'[o] \in Table'
      BY <1>2, <1>3, <2>4
    <3>2. LastGone(q, macs'[o])
      BY <1>4, <2>6, <3>1 DEF LeftKnown
    <3>3. QED
      BY <1>2, <2>4, <2>6, <3>2, LastGoneIsOn
  <2>7. o # i
    BY <2>4
  <2>8. QED
    BY <2>2, <2>5, <2>6, <2>7
<1>14. QED
  BY <1>6, <1>7, <1>8, <1>10, <1>11, <1>12, <1>13 DEF IInv, LeftIsKnown, OneLease

(* WiFiStationConnected: the station is known, or is put into a free cell. *)
LEMMA ConnectedInv == ASSUME IInv, NEW e \in Event, WiFiStationConnected(e) PROVE IInv'
<1> DEFINE i == First(Cell \ Occupied)
<1>1. /\ queue # <<>> /\ pc # "starting" /\ intact' \in BOOLEAN
      /\ intact' => intact /\ Head(queue) = e
      /\ e = Come(e.mac) /\ e.mac \in Macs
  BY Dispatched, EventForms DEF WiFiStationConnected
<1>2. CASE search_mac(e.mac) # -1 \/ i = -1
  <2>1. Taken /\ UNCHANGED <<table, control, pc, ix>>
    BY <1>2 DEF WiFiStationConnected
  <2>2. QED
    BY <1>1, <2>1, StepIgnored
<1>3. CASE ~(search_mac(e.mac) # -1 \/ i = -1)
  <2>1. e.mac \in Macs \ Table /\ i \in Cell \ Occupied
    BY <1>1, <1>3, SearchMac, FirstFound
  <2>2. /\ macs' = [macs EXCEPT ![i] = e.mac]
        /\ mac_ms' = Stamped(i)
        /\ sta_connections' = sta_connections + 1
        /\ skipped' = (AtLimit(sta_connections') /\ ~control)
        /\ IF AtLimit(sta_connections') /\ control THEN deauth_old_sta(i) ELSE Taken
        /\ UNCHANGED <<ips, control, pc, ix>>
    BY <1>3 DEF WiFiStationConnected
  <2> HIDE DEF i
  <2>3. QED
    BY <1>1, <2>1, <2>2, StepEntered
<1>4. QED
  BY <1>2, <1>3

(* WiFiStationDisconnected: the cell of the station is cleared. *)
LEMMA DisconnectedInv == ASSUME IInv, NEW e \in Event, WiFiStationDisconnected(e) PROVE IInv'
<1> DEFINE m == e.mac
           n == search_mac(m)
<1>1. /\ queue # <<>> /\ pc # "starting" /\ intact' \in BOOLEAN
      /\ intact' => intact /\ Head(queue) = Gone(m)
      /\ m \in Macs
      /\ Taken /\ UNCHANGED <<control, pc, ix>>
  BY Dispatched, EventForms DEF WiFiStationDisconnected
<1>2. CASE n = -1
  <2>1. UNCHANGED <<table, control, pc, ix>>
    BY <1>2 DEF WiFiStationDisconnected
  <2>2. m \in Macs \ Table
    BY <1>1, <1>2, SearchMac
  <2>3. QED
    BY <1>1, <2>1, <2>2, StepIgnored
<1>3. CASE n # -1
  <2>1. n \in Occupied /\ n \in Cell /\ macs[n] = m
    BY <1>1, <1>3, SearchMac DEF Occupied
  <2>2. /\ macs' = [macs EXCEPT ![n] = NoMac]
        /\ mac_ms' = Unstamped(n)
        /\ ips' = [ips EXCEPT ![n] = NoIp]
        /\ sta_connections' = sta_connections - 1
        /\ skipped' = FALSE
    BY <1>3 DEF WiFiStationDisconnected, clear_mac
  <2> HIDE DEF m, n
  <2>3. /\ Occupied' = Occupied \ {n}
        /\ Table' = Table \ {m}
        /\ Count' = Count - 1
        /\ macs' \in [Cell -> Macs \cup {NoMac}]
        /\ macs'[n] = NoMac /\ \A j \in Cell \ {n} : macs'[j] = macs[j]
    BY <2>1, <2>2, CellCleared DEF IInv
  <2>4. ips' \in [Cell -> Ips \cup {NoIp}] /\ ips'[n] = NoIp /\ \A j \in Cell \ {n} : ips'[j] = ips[j]
    BY <2>1, <2>2, Types
  <2>5. /\ queue' = Tail(queue) /\ queue' \in Seq(Event) /\ assoc' = assoc /\ Stations' = Stations
        /\ On(queue) = On(queue') \cup {Head(queue)}
    BY <1>1, Types, TakenFirst DEF Taken, Stations
  <2>6. \A j \in Occupied' : /\ j \in Occupied /\ j \in Cell \ {n} /\ macs[j] # m
                             /\ macs'[j] = macs[j] /\ ips'[j] = ips[j]
    BY <2>1, <2>3, <2>4, Types
  <2>7. CountOffset'
    BY <1>1, <2>2, <2>3, OccupiedFinite, TableAssumption DEF IInv, CountOffset, DistinctMacs, TypeOK, PC
  <2>8. TypeOK'
    <3>1. sta_connections' \in -MAX_CLIENTS .. 2 * MAX_CLIENTS
      BY <1>1, <2>7, Types, CounterInRange DEF TypeOK
    <3>2. mac_ms' \subseteq Cell \X Cell
      BY <2>2, Types DEF TypeOK, Unstamped
    <3>3. QED
      BY <1>1, <2>2, <2>3, <2>4, <2>5, <3>1, <3>2, Types DEF TypeOK
  <2>9. DistinctMacs'
    BY <2>6, <2>8, Types DEF DistinctMacs
  <2>10. IsFiniteSet(Stations)' /\ OneLease'
    BY <2>5 DEF IInv, OneLease
  <2>11. LeftIsKnown'
    BY <1>1, <2>3, <2>5, Types, LeftTaken DEF IInv, LeftIsKnown
  <2>12. FreeHasNoIp'
    <3>1. \A j \in Cell \ {n} : is_maccell_free(j)' = is_maccell_free(j)
      BY <2>3 DEF is_maccell_free
    <3>2. QED
      BY <2>4, <3>1 DEF IInv, FreeHasNoIp
  <2>13. AddressIsKnown'
    <3> SUFFICES ASSUME intact', NEW j \in Occupied', ips'[j] # NoIp
                 PROVE  AddressKnown(queue', assoc', macs'[j], ips'[j])
      BY DEF AddressIsKnown
    <3>1. Head(queue) # Gone(macs[j]) /\ \A p : Head(queue) # Has(p)
      BY <1>1, <2>6, EventsDiffer
    <3>2. AddressKnown(queue, assoc, macs[j], ips[j])
      BY <1>1, <2>6 DEF IInv, AddressIsKnown
    <3>3. AddressKnown(queue', assoc, macs[j], ips[j])
      BY <2>5, <3>1, <3>2 DEF AddressKnown
    <3>4. QED
      BY <2>5, <2>6, <3>3
  <2>14. OneIsLeaving'
    <3>1. Count' # MAX_CLIENTS
      BY <2>3, OccupiedFinite, TableAssumption
    <3>2. QED
      BY <3>1 DEF OneIsLeaving
  <2>15. QED
    BY <2>7, <2>9, <2>10, <2>11, <2>12, <2>13, <2>14 DEF IInv
<1>4. QED
  BY <1>2, <1>3

(* WiFiStaIPassigned: the station with this lease gets the address in its cell. *)
LEMMA AddressInv == ASSUME IInv, NEW e \in Event, WiFiStaIPassigned(e) PROVE IInv'
<1> DEFINE p == e.ip
<1>1. /\ queue # <<>> /\ pc # "starting" /\ intact' \in BOOLEAN
      /\ intact' => intact /\ Head(queue) = Has(p)
      /\ p \in Ips /\ p # NoIp
      /\ Taken /\ UNCHANGED <<macs, mac_ms, sta_connections, skipped, control, pc, ix>>
  BY Dispatched, EventForms, TableAssumption DEF WiFiStaIPassigned
<1>2. \/ \E m \in Stations : assoc[m] = p /\ search_mac(m) # -1 /\ ips' = [ips EXCEPT ![search_mac(m)] = p]
      \/ (\A m \in Stations : assoc[m] = p => search_mac(m) = -1) /\ ips' = ips
  BY DEF WiFiStaIPassigned
<1> HIDE DEF p
<1>3. Occupied' = Occupied /\ Table' = Table /\ Count' = Count
  BY <1>1, SameMacs
<1>4. /\ queue' = Tail(queue) /\ queue' \in Seq(Event) /\ assoc' = assoc /\ Stations' = Stations
      /\ On(queue) = On(queue') \cup {Head(queue)}
  BY <1>1, Types, TakenFirst DEF Taken, Stations
<1>5. /\ ips' \in [Cell -> Ips \cup {NoIp}]
      /\ \A j \in Cell \ Occupied : ips'[j] = ips[j]
      /\ \A j \in Occupied : ips'[j] = ips[j] \/ (macs[j] \in Stations /\ assoc[macs[j]] = ips'[j])
      /\ \A j \in Occupied : macs[j] \in Stations /\ assoc[macs[j]] = p => ips'[j] = p
  <2>1. CASE (\A m \in Stations : assoc[m] = p => search_mac(m) = -1) /\ ips' = ips
    <3>1. \A j \in Occupied : search_mac(macs[j]) # -1
      BY Types, SearchMac
    <3>2. QED
      BY <2>1, <3>1, Types
  <2>2. ASSUME NEW m \in Stations, assoc[m] = p, search_mac(m) # -1, ips' = [ips EXCEPT ![search_mac(m)] = p]
        PROVE  <1>5
    <3>1. search_mac(m) \in Occupied /\ search_mac(m) \in Cell /\ macs[search_mac(m)] = m
      BY <2>2, Types, SearchMac
    <3>2. /\ ips' \in [Cell -> Ips \cup {NoIp}] /\ ips'[search_mac(m)] = p
          /\ \A j \in Cell \ {search_mac(m)} : ips'[j] = ips[j]
      BY <1>1, <2>2, <3>1, Types
    <3>3. ASSUME NEW j \in Occupied, macs[j] \in Stations, assoc[macs[j]] = p
          PROVE  j = search_mac(m)
      <4>1. macs[j] = m
        BY <1>1, <2>2, <3>3 DEF IInv, OneLease, DistinctLeases, Stations
      <4>2. QED
        BY <3>1, <4>1, Types
    <3>4. Occupied \subseteq Cell
      BY DEF Occupied
    <3>5. QED
      BY <2>2, <3>1, <3>2, <3>3, <3>4
  <2>3. QED
    BY <1>2, <2>1, <2>2
<1>6. TypeOK'
  BY <1>1, <1>4, <1>5, Types DEF TypeOK
<1>7. DistinctMacs' /\ IsFiniteSet(Stations)' /\ CountOffset' /\ OneLease'
  BY <1>1, <1>3, <1>4, <1>6 DEF IInv, DistinctMacs, CountOffset, OneLease
<1>8. LeftIsKnown'
  BY <1>1, <1>3, <1>4, Types, LeftTaken DEF IInv, LeftIsKnown
<1>9. FreeHasNoIp'
  <2>1. \A j \in Cell : is_maccell_free(j)' = is_maccell_free(j) /\ (is_maccell_free(j) => j \in Cell \ Occupied)
    BY <1>1 DEF is_maccell_free, Occupied
  <2>2. QED
    BY <1>5, <2>1 DEF IInv, FreeHasNoIp
<1>10. AddressIsKnown'
  <2> SUFFICES ASSUME intact', NEW j \in Occupied, ips'[j] # NoIp
               PROVE  AddressKnown(queue', assoc, macs[j], ips'[j])
    BY <1>1, <1>3, <1>4 DEF AddressIsKnown
  <2>1. CASE macs[j] \in Stations /\ assoc[macs[j]] = ips'[j]
    BY <2>1 DEF AddressKnown, Stations
  <2>2. CASE ~(macs[j] \in Stations /\ assoc[macs[j]] = ips'[j])
    <3>1. ips'[j] = ips[j] /\ AddressKnown(queue, assoc, macs[j], ips[j])
      BY <1>1, <1>5, <2>2 DEF IInv, AddressIsKnown
    <3>2. \A n : Gone(n) # Head(queue)
      BY <1>1, EventsDiffer
    <3>3. macs[j] \in Stations => Has(assoc[macs[j]]) # Head(queue)
      BY <1>1, <1>5, <2>2, EventsDiffer
    <3>4. QED
      BY <1>4, <2>2, <3>1, <3>2, <3>3 DEF AddressKnown, Stations
  <2>3. QED
    BY <2>1, <2>2
<1>11. OneIsLeaving'
  <2>1. ASSUME intact', NEW n, Gone(n) \in On(queue)
        PROVE  Gone(n) \in On(queue')
    BY <1>1, <1>4, <2>1, EventsDiffer
  <2>2. QED
    BY <1>1, <1>3, <2>1 DEF IInv, OneIsLeaving
<1>12. QED
  BY <1>7, <1>8, <1>9, <1>10, <1>11 DEF IInv

(* An event that is taken before any handler is registered. *)
LEMMA UnhandledInv == ASSUME IInv, Unhandled PROVE IInv'
<1>1. /\ pc = "starting" /\ queue # <<>> /\ queue' = Tail(queue)
      /\ UNCHANGED <<table, control, pc, ix, assoc, intact>>
  BY DEF Unhandled
<1>2. macs' = macs /\ ips' = ips /\ sta_connections' = sta_connections /\ skipped' = skipped /\ mac_ms' = mac_ms
  BY <1>1 DEF table
<1>3. /\ Occupied' = Occupied /\ Table' = Table /\ Count' = Count /\ Stations' = Stations
      /\ Occupied = {} /\ Table = {}
  BY <1>1, <1>2, SameMacs DEF Stations, IInv, CountOffset, Table
<1>4. queue' \in Seq(Event)
  BY <1>1, Types, TakenFirst
<1>5. TypeOK'
  BY <1>1, <1>2, <1>3, <1>4, Types DEF TypeOK
<1>6. DistinctMacs' /\ IsFiniteSet(Stations)' /\ CountOffset' /\ OneLease' /\ FreeHasNoIp'
  BY <1>1, <1>2, <1>3, <1>5
     DEF IInv, DistinctMacs, CountOffset, OneLease, FreeHasNoIp, is_maccell_free
<1>7. LeftIsKnown'
  BY <1>1, <1>3, Types, LeftTaken DEF IInv, LeftIsKnown
<1>8. AddressIsKnown' /\ OneIsLeaving'
  BY <1>1, <1>3 DEF AddressIsKnown, OneIsLeaving
<1>9. QED
  BY <1>6, <1>7, <1>8 DEF IInv

(* The first half of the reset of the table: the counter ... *)
LEMMA ResetCountInv == ASSUME IInv, ResetCount PROVE IInv'
<1>1. /\ pc = "registered" /\ pc' = "counted" /\ sta_connections' = 0
      /\ UNCHANGED <<macs, ips, mac_ms, skipped, control, ix, driver>>
  BY DEF ResetCount
<1>2. /\ Occupied' = Occupied /\ Table' = Table /\ Count' = Count /\ Stations' = Stations
      /\ assoc' = assoc /\ queue' = queue /\ intact' = intact
  BY <1>1, SameMacs DEF driver, Stations
<1>3. CountOffset'
  BY <1>1, <1>2, OccupiedFinite, TableAssumption DEF CountOffset
<1>4. TypeOK'
  <2>1. pc' \in PC
    BY <1>1 DEF PC
  <2>2. sta_connections' \in -MAX_CLIENTS .. 2 * MAX_CLIENTS
    BY <1>3, <2>1, CounterInRange
  <2>3. QED
    BY <1>1, <1>2, <2>1, <2>2, Types DEF TypeOK
<1>5. DistinctMacs' /\ IsFiniteSet(Stations)' /\ OneLease' /\ FreeHasNoIp'
  BY <1>1, <1>2, <1>4 DEF IInv, DistinctMacs, OneLease, FreeHasNoIp, is_maccell_free
<1>6. LeftIsKnown' /\ AddressIsKnown' /\ OneIsLeaving'
  BY <1>1, <1>2 DEF IInv, LeftIsKnown, AddressIsKnown, OneIsLeaving
<1>7. QED
  BY <1>3, <1>5, <1>6 DEF IInv

(* An emptied table. *)
LEMMA Emptied ==
    ASSUME macs' = [i \in Cell |-> NoMac], ips' = [i \in Cell |-> NoIp]
    PROVE  /\ Occupied' = {} /\ Table' = {} /\ Count' = 0
           /\ macs' \in [Cell -> Macs \cup {NoMac}] /\ ips' \in [Cell -> Ips \cup {NoIp}]
           /\ FreeHasNoIp'
<1>1. Occupied' = {}
  BY DEF Occupied, is_maccell_free
<1>2. Table' = {} /\ Count' = 0
  BY <1>1, FS_EmptySet DEF Table, Count
<1>3. FreeHasNoIp'
  BY DEF FreeHasNoIp
<1>4. QED
  BY <1>1, <1>2, <1>3

(* ... and then the cells, in a step of its own. *)
LEMMA ResetArraysInv == ASSUME IInv, ResetArrays PROVE IInv'
<1>1. /\ pc = "counted" /\ pc' = "run"
      /\ macs' = [i \in Cell |-> NoMac] /\ ips' = [i \in Cell |-> NoIp]
      /\ UNCHANGED <<mac_ms, sta_connections, skipped, control, ix, driver>>
  BY DEF ResetArrays
<1>2. /\ Occupied' = {} /\ Table' = {} /\ Count' = 0
      /\ macs' \in [Cell -> Macs \cup {NoMac}] /\ ips' \in [Cell -> Ips \cup {NoIp}]
      /\ FreeHasNoIp'
  BY <1>1, Emptied
<1>3. Stations' = Stations /\ assoc' = assoc /\ queue' = queue /\ intact' = intact
  BY <1>1 DEF driver, Stations
<1>4. CountOffset'
  <2>1. sta_connections \in Count - MAX_CLIENTS .. Count
    BY <1>1 DEF IInv, CountOffset
  <2>2. sta_connections \in -MAX_CLIENTS .. MAX_CLIENTS
    BY <2>1, OccupiedFinite, TableAssumption
  <2>3. QED
    BY <1>1, <1>2, <2>2, TableAssumption DEF CountOffset
<1>5. TypeOK'
  BY <1>1, <1>2, <1>3, Types DEF TypeOK, PC
<1>6. DistinctMacs' /\ IsFiniteSet(Stations)' /\ OneLease'
  BY <1>2, <1>3, <1>5 DEF IInv, DistinctMacs, OneLease
<1>7. LeftIsKnown'
  BY <1>2, <1>3, LeftLess DEF IInv, LeftIsKnown
<1>8. AddressIsKnown' /\ OneIsLeaving'
  BY <1>2, TableAssumption DEF AddressIsKnown, OneIsLeaving
<1>9. QED
  BY <1>2, <1>4, <1>6, <1>7, <1>8 DEF IInv

(* The values everything starts with are in range. *)
LEMMA StartValues ==
    /\ 0 \in -MAX_CLIENTS .. 2 * MAX_CLIENTS /\ 0 <= MAX_CLIENTS
    /\ <<>> \in Seq(Event)
    /\ [s \in {} |-> NoIp] \in [{} -> Ips \cup {NoIp}]
<1>1. 0 \in -MAX_CLIENTS .. 2 * MAX_CLIENTS /\ 0 <= MAX_CLIENTS
  BY TableAssumption
<1>2. <<>> \in Seq(Event)
  OBVIOUS
<1>3. [s \in {} |-> NoIp] \in [{} -> Ips \cup {NoIp}]
  OBVIOUS
<1>4. QED
  BY <1>1, <1>2, <1>3

(* The device restarts. *)
LEMMA RestartInv == ASSUME IInv, Restart PROVE IInv'
<1>1. /\ macs' = [i \in Cell |-> NoMac] /\ ips' = [i \in Cell |-> NoIp]
      /\ mac_ms' = {} /\ sta_connections' = 0 /\ skipped' = FALSE /\ pc' = "starting" /\ ix' = -1
      /\ assoc' = [s \in {} |-> NoIp] /\ queue' = <<>> /\ intact' = TRUE /\ control' = control
  BY DEF Restart
<1>2. /\ Occupied' = {} /\ Table' = {} /\ Count' = 0
      /\ macs' \in [Cell -> Macs \cup {NoMac}] /\ ips' \in [Cell -> Ips \cup {NoIp}]
      /\ FreeHasNoIp'
  BY <1>1, Emptied
<1>3. Stations' = {} /\ IsFiniteSet(Stations') /\ Cardinality(Stations') = 0
  BY <1>1, FS_EmptySet DEF Stations
<1>4. On(queue') = {}
  BY <1>1 DEF On
<1>5. TypeOK'
  <2>1. assoc' \in [Stations' -> Ips \cup {NoIp}]
    BY <1>1, <1>3, StartValues
  <2>2. QED
    BY <1>1, <1>2, <1>3, <2>1, StartValues, Types DEF TypeOK, PC
<1>6. DistinctMacs' /\ CountOffset' /\ OneLease'
  BY <1>1, <1>2, <1>3, <1>5 DEF DistinctMacs, CountOffset, OneLease, DistinctLeases, Stations
<1>7. LeftIsKnown' /\ AddressIsKnown' /\ OneIsLeaving'
  BY <1>1, <1>2, <1>4 DEF LeftIsKnown, LeftKnown, AddressIsKnown, OneIsLeaving
<1>8. QED
  BY <1>2, <1>3, <1>6, <1>7 DEF IInv

(* The invariant holds in the beginning. *)
LEMMA InitInv == Init => IInv
<1> SUFFICES ASSUME Init PROVE IInv
  OBVIOUS
<1>1. Occupied = {}
  BY DEF Init, Occupied, is_maccell_free
<1>2. Table = {} /\ Count = 0
  BY <1>1, FS_EmptySet DEF Table, Count
<1>3. Stations = {} /\ IsFiniteSet(Stations) /\ Cardinality(Stations) = 0
  BY FS_EmptySet DEF Init, Stations
<1>4. On(queue) = {}
  BY DEF Init, On
<1>5. TypeOK
  <2>1. assoc \in [Stations -> Ips \cup {NoIp}]
    BY <1>3, StartValues DEF Init
  <2>2. QED
    BY <1>3, <2>1, StartValues DEF Init, TypeOK, PC
<1>6. DistinctMacs /\ CountOffset /\ OneLease /\ FreeHasNoIp
  BY <1>1, <1>3, <1>5 DEF Init, DistinctMacs, CountOffset, OneLease, DistinctLeases, Stations, FreeHasNoIp
<1>7. LeftIsKnown /\ AddressIsKnown /\ OneIsLeaving
  BY <1>1, <1>2, <1>4 DEF Init, LeftIsKnown, LeftKnown, AddressIsKnown, OneIsLeaving
<1>8. QED
  BY <1>3, <1>6, <1>7 DEF IInv

(* The steps of the loop task that change no cell and no event. *)
LEMMA AsideInv ==
    ASSUME IInv, configAP \/ Refresh \/ SetControl \/ (\E m \in Macs : handleCmd(m)) \/ UNCHANGED vars
    PROVE  IInv'
<1>1. CASE configAP
  <2>1. /\ UNCHANGED <<macs, ips, mac_ms, sta_connections, skipped, control, ix, driver>>
        /\ pc = "starting" /\ pc' = "registered"
    BY <1>1 DEF configAP, table
  <2>2. TypeOK'
    BY <2>1, Types DEF TypeOK, driver, PC, Stations
  <2>3. QED
    BY <2>1, <2>2, StepAside
<1>2. CASE Refresh
  <2>1. /\ UNCHANGED <<macs, ips, sta_connections, skipped, control, pc, driver>>
        /\ ix' = -1 /\ ix # -1
        /\ mac_ms' = mac_ms \/ mac_ms' = Stamped(ix)
    BY <1>2 DEF Refresh
  <2>2. ix \in Cell
    BY <2>1, Types DEF TypeOK
  <2>3. mac_ms' \subseteq Cell \X Cell
    BY <2>1, <2>2, Types DEF TypeOK, Stamped, Occupied
  <2>4. TypeOK'
    BY <2>1, <2>3, Types DEF TypeOK, driver, Stations
  <2>5. QED
    BY <2>1, <2>4, StepAside
<1>3. CASE SetControl
  <2>1. /\ UNCHANGED <<macs, ips, mac_ms, sta_connections, skipped, pc, ix, driver>>
        /\ control' = ~control
    BY <1>3 DEF SetControl, table
  <2>2. TypeOK'
    BY <2>1, Types DEF TypeOK, driver, Stations
  <2>3. QED
    BY <2>1, <2>2, StepAside
<1>4. CASE \E m \in Macs : handleCmd(m)
  <2>1. PICK m \in Macs : handleCmd(m)
    BY <1>4
  <2>2. /\ UNCHANGED <<macs, ips, mac_ms, sta_connections, skipped, control, pc, driver>>
        /\ ix' = First({i \in Cell : ips[i] = assoc[m]})
    BY <2>1 DEF handleCmd, table, search_ip
  <2>3. ix' \in Cell \cup {-1}
    BY <2>2, FirstFound
  <2>4. TypeOK'
    BY <2>2, <2>3, Types DEF TypeOK, driver, Stations
  <2>5. QED
    BY <2>2, <2>4, StepAside
<1>5. CASE UNCHANGED vars
  <2>1. UNCHANGED <<macs, ips, mac_ms, sta_connections, skipped, control, pc, ix, driver>>
    BY <1>5 DEF vars, driver
  <2>2. TypeOK'
    BY <2>1, Types DEF TypeOK, driver, Stations
  <2>3. QED
    BY <2>1, <2>2, StepAside
<1>6. QED
  BY <1>1, <1>2, <1>3, <1>4, <1>5

(* Every step of the stations, of the event task and of the loop task keeps it. *)
LEMMA NextInv == IInv /\ [Next]_vars => IInv'
<1> SUFFICES ASSUME IInv, [Next]_vars PROVE IInv'
  OBVIOUS
<1>1. ASSUME NEW m \in Macs, Associate(m) \/ Leave(m) \/ (\E ip \in Ips : Lease(m, ip))
      PROVE  IInv'
  BY <1>1, AssociateInv, LeaveInv, LeaseInv
<1>2. ASSUME NEW e \in Event, WiFiStationConnected(e) \/ WiFiStationDisconnected(e) \/ WiFiStaIPassigned(e)
      PROVE  IInv'
  BY <1>2, ConnectedInv, DisconnectedInv, AddressInv
<1>3. CASE Unhandled \/ ResetCount \/ ResetArrays \/ Restart
  BY <1>3, UnhandledInv, ResetCountInv, ResetArraysInv, RestartInv
<1>4. CASE configAP \/ Refresh \/ SetControl \/ (\E m \in Macs : handleCmd(m)) \/ UNCHANGED vars
  BY <1>4, AsideInv
<1>5. QED
  BY <1>1, <1>2, <1>3, <1>4 DEF Next

-----------------------------------------------------------------------------
(* The inductive invariant holds in every reachable state. *)
THEOREM TableInvariant == Spec => []IInv
<1>1. QED
  BY InitInv, NextInv, PTL DEF Spec

(* Every index is in its array and no station has two cells, whatever events
   are repeated, lost or read twice and wherever setup() was interrupted. *)
THEOREM StationsHaveOneCell == Spec => []DistinctMacs
<1>1. IInv => DistinctMacs
  BY DEF IInv
<1>2. QED
  BY <1>1, TableInvariant, PTL

(* When no event is under way or was overwritten, the table holds connected
   stations only. *)
THEOREM TableHoldsConnected == Spec => []OnlyConnected
<1>1. IInv => OnlyConnected
  <2> SUFFICES ASSUME IInv, Quiet, NEW m \in Table PROVE m \in Stations
    BY DEF OnlyConnected
  <2>1. m \in Macs
    BY Types DEF Table
  <2>2. On(queue) = {} /\ LeftKnown(queue, Stations, Table)
    BY DEF IInv, LeftIsKnown, Quiet, On
  <2>3. QED
    BY <2>1, <2>2, LastGoneIsOn DEF LeftKnown
<1>2. QED
  BY <1>1, TableInvariant, PTL

(* ... and their addresses are those the driver leased to them. *)
THEOREM AddressesAreCurrent == Spec => []AddressOfStation
<1>1. IInv => AddressOfStation
  <2> SUFFICES ASSUME IInv, Quiet, NEW i \in Occupied, ips[i] # NoIp
               PROVE  macs[i] \in Stations /\ assoc[macs[i]] = ips[i]
    BY DEF AddressOfStation
  <2>1. On(queue) = {} /\ AddressKnown(queue, assoc, macs[i], ips[i])
    BY DEF IInv, AddressIsKnown, Quiet, On
  <2>2. QED
    BY <2>1 DEF AddressKnown, Stations
<1>2. QED
  BY <1>1, TableInvariant, PTL

(* When the table knows all stations, a newcomer finds a place. *)
THEOREM NewcomersFindRoom == Spec => []RoomForNewcomer
<1>1. IInv => RoomForNewcomer
  <2> SUFFICES ASSUME IInv, Quiet, Table = Stations, sta_connections = Cardinality(Stations), ~skipped
               PROVE  Cardinality(Stations) < MAX_CLIENTS
    BY DEF RoomForNewcomer
  <2> DEFINE f == [i \in Occupied |-> macs[i]]
  <2>1. f \in Bijection(Occupied, Table)
    <3>1. f \in [Occupied -> Table]
      BY DEF Table
    <3>2. \A i, j \in Occupied : f[i] = f[j] => i = j
      BY Types
    <3>3. \A m \in Table : \E i \in Occupied : f[i] = m
      BY DEF Table
    <3>4. QED
      BY <3>1, <3>2, <3>3 DEF Bijection, Injection, IsInjective, Surjection
  <2>2. Cardinality(Table) = Count
    BY <2>1, OccupiedFinite, FS_Bijection DEF ExistsBijection, Count
  <2>3. On(queue) = {} /\ intact /\ pc = "run"
    BY DEF Quiet, On
  <2>4. Count # MAX_CLIENTS
    BY <2>2, <2>3 DEF IInv, OneIsLeaving
  <2>5. QED
    BY <2>2, <2>4, OccupiedFinite, TableAssumption
<1>2. QED
  BY <1>1, TableInvariant, PTL
(* sta_connections and the number of occupied cells differ by the same amount
   after a step as before it, if setup() is over. *)
LEMMA CountStep ==
    ASSUME IInv, Next, pc = "run", pc' = "run"
    PROVE  sta_connections' - sta_connections = Count' - Count
<1>1. sta_connections \in Int /\ Count \in Int
  <2>1. sta_connections \in -MAX_CLIENTS .. 2 * MAX_CLIENTS
    BY Types DEF TypeOK
  <2>2. QED
    BY <2>1, OccupiedFinite, TableAssumption
<1>2. ASSUME macs' = macs, sta_connections' = sta_connections
      PROVE  sta_connections' - sta_connections = Count' - Count
  BY <1>1, <1>2, SameMacs
<1>3. ASSUME NEW e \in Event, WiFiStationConnected(e)
      PROVE  sta_connections' - sta_connections = Count' - Count
  <2> DEFINE i == First(Cell \ Occupied)
  <2>1. CASE search_mac(e.mac) # -1 \/ i = -1
    BY <1>2, <1>3, <2>1 DEF WiFiStationConnected, table
  <2>2. CASE ~(search_mac(e.mac) # -1 \/ i = -1)
    <3>1. i \in Cell \ Occupied
      BY <2>2, FirstFound
    <3>2. e.mac \in Macs
      BY <1>3, EventForms DEF WiFiStationConnected, Dispatch
    <3>3. macs' = [macs EXCEPT ![i] = e.mac] /\ sta_connections' = sta_connections + 1
      BY <1>3, <2>2 DEF WiFiStationConnected
    <3> HIDE DEF i
    <3>4. Count' = Count + 1
      BY <3>1, <3>2, <3>3, CellFilled, Types
    <3>5. QED
      BY <1>1, <3>3, <3>4
  <2>3. QED
    BY <2>1, <2>2
<1>4. ASSUME NEW e \in Event, WiFiStationDisconnected(e)
      PROVE  sta_connections' - sta_connections = Count' - Count
  <2> DEFINE n == search_mac(e.mac)
  <2>1. CASE n = -1
    BY <1>2, <1>4, <2>1 DEF WiFiStationDisconnected, table
  <2>2. CASE n # -1
    <3>1. e.mac \in Macs
      BY <1>4, EventForms DEF WiFiStationDisconnected, Dispatch
    <3>2. n \in Occupied
      BY <2>2, <3>1, SearchMac
    <3>3. macs' = [macs EXCEPT ![n] = NoMac] /\ sta_connections' = sta_connections - 1
      BY <1>4, <2>2 DEF WiFiStationDisconnected, clear_mac
    <3> HIDE DEF n
    <3>4. Count' = Count - 1
      BY <3>2, <3>3, CellCleared DEF IInv
    <3>5. QED
      BY <1>1, <3>3, <3>4
  <2>3. QED
    BY <2>1, <2>2
<1>5. ASSUME NEW m \in Macs, Associate(m) \/ Leave(m) \/ (\E ip \in Ips : Lease(m, ip)) \/ handleCmd(m)
      PROVE  macs' = macs /\ sta_connections' = sta_connections
  BY <1>5 DEF Associate, Leave, Lease, handleCmd, table
<1>6. ASSUME NEW e \in Event, WiFiStaIPassigned(e)
      PROVE  macs' = macs /\ sta_connections' = sta_connections
  BY <1>6 DEF WiFiStaIPassigned
<1>7. CASE Refresh \/ SetControl
  BY <1>2, <1>7 DEF Refresh, SetControl, table
<1>8. ~Unhandled /\ ~configAP /\ ~ResetCount /\ ~ResetArrays /\ ~Restart
  BY DEF Unhandled, configAP, ResetCount, ResetArrays, Restart
<1>9. QED
  BY <1>2, <1>3, <1>4, <1>5, <1>6, <1>7, <1>8 DEF Next

(* From the end of setup() on, the counter and the table move together: an
   event that is repeated, lost or overwritten changes both or neither. *)
THEOREM CounterFollows == Spec => CountFollowsTable
<1>1. IInv /\ [Next]_vars
        => [pc = "run" /\ pc' = "run"
             => sta_connections' - sta_connections = Cardinality(Occupied') - Cardinality(Occupied)]_vars
  BY CountStep DEF Count
<1>2. QED
  BY <1>1, TableInvariant, PTL DEF Spec, CountFollowsTable-----------------------------------------------------------------------------
(* The time stamps: deauth_old_sta finds the station that was idle longest. *)

(* The pairs of R order the members of S. *)
Ordered(R, S) ==
    /\ \A a \in S : <<a, a>> \notin R
    /\ \A a, b \in S : a # b => <<a, b>> \in R \/ <<b, a>> \in R
    /\ \A a, b, c \in S : <<a, b>> \in R /\ <<b, c>> \in R => <<a, c>> \in R

StampsOrder == Ordered(mac_ms, Occupied)

(* Whichever cell is filled or refreshed, there is one stamped before all
   others. *)
OldestKnown == \A i \in Cell : Oldest(i) # {}

(* A stamp with the present time puts its cell behind all others. *)
LEMMA StampOrdered ==
    ASSUME NEW R, NEW S, Ordered(R, S), NEW i
    PROVE  Ordered({p \in R : p[1] # i} \cup ((S \ {i}) \X {i}), S \cup {i})
<1> DEFINE Q == {p \in R : p[1] # i} \cup ((S \ {i}) \X {i})
<1>1. \A a, b : <<a, b>> \in Q <=> (<<a, b>> \in R /\ a # i) \/ (a \in S \ {i} /\ b = i)
  OBVIOUS
<1> HIDE DEF Q
<1>2. QED
  BY <1>1 DEF Ordered, Q

(* The order is that of any part of the set, and one that leaves a member out
   orders the rest. *)
LEMMA UnstampOrdered ==
    ASSUME NEW R, NEW S, Ordered(R, S), NEW i
    PROVE  Ordered({p \in R : p[1] # i /\ p[2] # i}, S \ {i})
<1> DEFINE Q == {p \in R : p[1] # i /\ p[2] # i}
<1>1. \A a, b : <<a, b>> \in Q <=> <<a, b>> \in R /\ a # i /\ b # i
  OBVIOUS
<1> HIDE DEF Q
<1>2. QED
  BY <1>1 DEF Ordered, Q

(* A finite set that is ordered and not empty has a first member. *)
LEMMA OrderedFirst ==
    ASSUME NEW R, NEW S, Ordered(R, S), IsFiniteSet(S), S # {}
    PROVE  \E o \in S : \A c \in S : c # o => <<o, c>> \in R
<1> DEFINE Before(o) == {c \in S : <<c, o>> \in R}
           T == {Before(o) : o \in S}
           L == StrictSubsetOrdering(S)
<1>1. IsWellFoundedOn(L, SUBSET S)
  BY FS_StrictSubsetOrderingWellFounded, FS_FiniteSubsetsOfFinite
<1>2. T \subseteq SUBSET S /\ T # {}
  OBVIOUS
<1>3. \A x, y \in SUBSET S : x \subseteq y /\ x # y => <<x, y>> \in L
  BY DEF StrictSubsetOrdering
<1> HIDE DEF L, T
<1>4. PICK x \in T : \A y \in T : ~(<<y, x>> \in L)
  BY <1>1, <1>2, WFMin
<1>5. PICK o \in S : x = Before(o)
  BY DEF T
<1>6. ASSUME NEW c \in Before(o)
      PROVE  FALSE
  <2>1. c \in S /\ <<c, o>> \in R
    OBVIOUS
  <2>2. Before(c) \subseteq Before(o) /\ c \notin Before(c)
    BY <2>1 DEF Ordered
  <2>3. Before(c) \in T /\ Before(c) \in SUBSET S /\ Before(o) \in SUBSET S
    BY <2>1 DEF T
  <2>4. QED
    BY <1>3, <1>4, <1>5, <1>6, <2>2, <2>3
<1>7. QED
  BY <1>6 DEF Ordered

(* The time stamps order the occupied cells after a step of any task. *)
LEMMA StampsStep ==
    ASSUME IInv, StampsOrder, [Next]_vars
    PROVE  StampsOrder'
<1>1. ASSUME macs' = macs, mac_ms' = mac_ms
      PROVE  StampsOrder'
  BY <1>1, SameMacs DEF StampsOrder
<1>2. ASSUME NEW e \in Event, WiFiStationConnected(e)
      PROVE  StampsOrder'
  <2> DEFINE i == First(Cell \ Occupied)
  <2>1. CASE search_mac(e.mac) # -1 \/ i = -1
    BY <1>1, <1>2, <2>1 DEF WiFiStationConnected, table
  <2>2. CASE ~(search_mac(e.mac) # -1 \/ i = -1)
    <3>1. i \in Cell \ Occupied
      BY <2>2, FirstFound
    <3>2. e.mac \in Macs
      BY <1>2, EventForms DEF WiFiStationConnected, Dispatch
    <3>3. macs' = [macs EXCEPT ![i] = e.mac] /\ mac_ms' = Stamped(i)
      BY <1>2, <2>2 DEF WiFiStationConnected
    <3> HIDE DEF i
    <3>4. Occupied' = Occupied \cup {i}
      BY <3>1, <3>2, <3>3, CellFilled, Types
    <3>5. QED
      BY <3>3, <3>4, StampOrdered DEF StampsOrder, Stamped
  <2>3. QED
    BY <2>1, <2>2
<1>3. ASSUME NEW e \in Event, WiFiStationDisconnected(e)
      PROVE  StampsOrder'
  <2> DEFINE n == search_mac(e.mac)
  <2>1. CASE n = -1
    BY <1>1, <1>3, <2>1 DEF WiFiStationDisconnected, table
  <2>2. CASE n # -1
    <3>1. e.mac \in Macs
      BY <1>3, EventForms DEF WiFiStationDisconnected, Dispatch
    <3>2. n \in Occupied
      BY <2>2, <3>1, SearchMac
    <3>3. macs' = [macs EXCEPT ![n] = NoMac] /\ mac_ms' = Unstamped(n)
      BY <1>3, <2>2 DEF WiFiStationDisconnected, clear_mac
    <3> HIDE DEF n
    <3>4. Occupied' = Occupied \ {n}
      BY <3>2, <3>3, CellCleared DEF IInv
    <3>5. QED
      BY <3>3, <3>4, UnstampOrdered DEF StampsOrder, Unstamped
  <2>3. QED
    BY <2>1, <2>2
<1>4. CASE Refresh
  <2>1. macs' = macs /\ mac_ms' = IF is_maccell_free(ix) THEN mac_ms ELSE Stamped(ix)
    BY <1>4 DEF Refresh
  <2>2. CASE is_maccell_free(ix)
    BY <1>1, <2>1, <2>2
  <2>3. CASE ~is_maccell_free(ix)
    <3>1. ix \in Cell
      BY <1>4, Types DEF Refresh, TypeOK
    <3>2. Occupied' = Occupied \cup {ix} /\ mac_ms' = Stamped(ix)
      BY <2>1, <2>3, <3>1, SameMacs DEF Occupied
    <3>3. QED
      BY <3>2, StampOrdered DEF StampsOrder, Stamped
  <2>4. QED
    BY <2>2, <2>3
<1>5. CASE ResetArrays \/ Restart
  <2>1. Occupied' = {}
    BY <1>5, Emptied DEF ResetArrays, Restart
  <2>2. QED
    BY <2>1 DEF StampsOrder, Ordered
<1>6. ASSUME NEW m \in Macs, Associate(m) \/ Leave(m) \/ (\E ip \in Ips : Lease(m, ip)) \/ handleCmd(m)
      PROVE  macs' = macs /\ mac_ms' = mac_ms
  BY <1>6 DEF Associate, Leave, Lease, handleCmd, table
<1>7. ASSUME NEW e \in Event, WiFiStaIPassigned(e)
      PROVE  macs' = macs /\ mac_ms' = mac_ms
  BY <1>7 DEF WiFiStaIPassigned
<1>8. CASE Unhandled \/ configAP \/ ResetCount \/ SetControl \/ UNCHANGED vars
  BY <1>1, <1>8 DEF Unhandled, configAP, ResetCount, SetControl, table, vars
<1>9. QED
  BY <1>1, <1>2, <1>3, <1>4, <1>5, <1>6, <1>7, <1>8 DEF Next

(* Whenever the table fills up, deauth_old_sta finds the station that was
   idle longest: the time stamps order the occupied cells, although cells are
   cleared, refilled and refreshed and setup() resets the cells but not the
   stamps.  Without this, the step of deauth_old_sta would not exist and
   NewcomersFindRoom would hold for want of it. *)
THEOREM OldestIsKnown == Spec => []OldestKnown
<1>1. Init => StampsOrder
  <2>1. Init => Occupied = {}
    BY DEF Init, Occupied, is_maccell_free
  <2>2. QED
    BY <2>1 DEF StampsOrder, Ordered
<1>2. StampsOrder => OldestKnown
  <2> SUFFICES ASSUME StampsOrder, NEW i \in Cell
               PROVE  Oldest(i) # {}
    BY DEF OldestKnown
  <2>1. Ordered(Stamped(i), Occupied \cup {i})
    BY StampOrdered DEF StampsOrder, Stamped
  <2>2. IsFiniteSet(Occupied \cup {i})
    BY OccupiedFinite, FS_AddElement
  <2>3. QED
    BY <2>1, <2>2, OrderedFirst DEF Oldest
<1>3. IInv /\ StampsOrder /\ [Next]_vars => StampsOrder'
  BY StampsStep
<1>4. QED
  BY <1>1, <1>2, <1>3, TableInvariant, PTL DEF Spec
=============================================================================
