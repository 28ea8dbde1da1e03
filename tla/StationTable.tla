---------------------------- MODULE StationTable ----------------------------
(***************************************************************************)
(* The stations of the device's access point: the arrays macs, mac_ms and  *)
(* ips with the counter sta_connections, kept by the WiFi event handlers,  *)
(* reset by setup() and refreshed by handleCmd.                            *)
(*                                                                         *)
(* The handlers run on the network_event task, which preempts the loop     *)
(* task (setup, handleCmd) between any two of its steps and is never       *)
(* preempted by it.  The task is handed pointers to events whose memory is *)
(* only good during the callback that queued them: by the time an event is *)
(* read, a later one may have taken its place.                             *)
(***************************************************************************)
EXTENDS Integers, Sequences, FiniteSets

CONSTANTS
    Macs,          \* stations
    Ips,           \* addresses the DHCP server leases
    NoMac,         \* an all-zero cell
    NoIp,          \* address 0
    MAX_CLIENTS,   \* cells, and stations the access point admits
    MaxEvents      \* bound: events queued at a time (32 in WiFiGeneric.cpp)

ASSUME TableAssumption ==
    /\ MAX_CLIENTS \in Nat
    /\ MAX_CLIENTS > 1
    /\ MaxEvents \in Nat \ {0}
    /\ NoMac \notin Macs
    /\ NoIp \notin Ips

Cell == 0 .. MAX_CLIENTS - 1

VARIABLES
    macs,             \* the station in each cell
    ips,              \* its address
    mac_ms,           \* <<i, j>>: cell i was stamped earlier than cell j
    sta_connections,
    control,          \* FNOSTACONTROL is not set and no firmware update is running
    skipped,          \* the table filled up while control was off
    pc,               \* how far setup() is
    ix,               \* local of handleCmd, -1 outside of it
    assoc,            \* driver: the associated stations and their leases
    queue,            \* events on their way to the network_event task
    intact            \* every event was read as it was posted

vars == <<macs, ips, mac_ms, sta_connections, control, skipped, pc, ix, assoc, queue, intact>>
table == <<macs, ips, mac_ms, sta_connections, skipped>>
driver == <<assoc, queue, intact>>

(* "starting": softAP is up and no handler is registered; "registered": the
   handlers are (a disconnect handled before the connect handler is there
   finds an empty table and does nothing); "counted": sta_connections is reset; "run": the arrays are. *)
PC == {"starting", "registered", "counted", "run"}

Event == [type : {"connected", "disconnected"}, mac : Macs]
            \cup [type : {"ip"}, ip : Ips]

Stations == DOMAIN assoc

-----------------------------------------------------------------------------
is_maccell_free(i) == macs[i] = NoMac

Occupied == {i \in Cell : ~is_maccell_free(i)}

Table == {macs[i] : i \in Occupied}

(* The lowest index with a property, -1 if there is none. *)
First(S) == IF S = {} THEN -1 ELSE CHOOSE i \in S : \A j \in S : i <= j

search_mac(m) == First({i \in Cell : macs[i] = m})

search_ip(ip) == First({i \in Cell : ips[i] = ip})

(* millis() is later than the stamp of every other station. *)
Stamped(i) == {p \in mac_ms : p[1] # i} \cup ((Occupied \ {i}) \X {i})

-----------------------------------------------------------------------------
(* The WiFi driver and its DHCP server. *)

Posted(e) == Len(queue) < MaxEvents /\ queue' = Append(queue, e) /\ UNCHANGED intact

(* A station joins, or joins again without having left. *)
Associate(m) ==
    /\ Cardinality(Stations \ {m}) < MAX_CLIENTS
    /\ assoc' = [s \in Stations \cup {m} |-> IF s \in Stations THEN assoc[s] ELSE NoIp]
    /\ Posted([type |-> "connected", mac |-> m])
    /\ UNCHANGED <<table, control, pc, ix>>

Without(m) == [s \in Stations \ {m} |-> assoc[s]]

Leave(m) ==
    /\ m \in Stations
    /\ assoc' = Without(m)
    /\ Posted([type |-> "disconnected", mac |-> m])
    /\ UNCHANGED <<table, control, pc, ix>>

Lease(m, ip) ==
    /\ m \in Stations
    /\ \A s \in Stations \ {m} : assoc[s] # ip
    /\ assoc' = [assoc EXCEPT ![m] = ip]
    /\ Posted([type |-> "ip", ip |-> ip])
    /\ UNCHANGED <<table, control, pc, ix>>

-----------------------------------------------------------------------------
(* The network_event task. *)

(* The event behind the first pointer of the queue. *)
Read == {queue[k] : k \in DOMAIN queue}

Dispatch(type, e) ==
    /\ pc # "starting"
    /\ e \in Read
    /\ e.type = type
    /\ intact' = (intact /\ e = Head(queue))

Unhandled ==
    /\ pc = "starting"
    /\ queue # <<>>
    /\ queue' = Tail(queue)
    /\ UNCHANGED <<table, control, pc, ix, assoc, intact>>

Taken == queue' = Tail(queue) /\ UNCHANGED assoc

(* deauth_old_sta, after cell i was filled: the cell stamped longest ago.
   If its station has already left, esp_wifi_ap_get_sta_aid fails and that
   is all; otherwise the driver drops it and says so.  When the newcomer is
   the only one in the table its age is 0, unless millis() went on. *)
Oldest(i) ==
    {o \in Occupied \cup {i} : \A c \in Occupied \cup {i} : c # o => <<o, c>> \in Stamped(i)}

deauth_old_sta(i) ==
    \E o \in Oldest(i) :
        \/ /\ macs'[o] \in Stations
           /\ assoc' = Without(macs'[o])
           /\ queue' = Append(Tail(queue), [type |-> "disconnected", mac |-> macs'[o]])
        \/ (macs'[o] \notin Stations \/ o = i) /\ Taken

AtLimitLate(n) == n > MAX_CLIENTS
AtLimit(n) == n >= MAX_CLIENTS

ConnectedTwice(e) ==
    /\ Dispatch("connected", e)
    /\ LET i == First(Cell \ Occupied)
       IN  /\ i # -1
           /\ macs' = [macs EXCEPT ![i] = e.mac]
           /\ mac_ms' = Stamped(i)
           /\ sta_connections' = sta_connections + 1
           /\ skipped' = (AtLimit(sta_connections') /\ ~control)
           /\ IF AtLimit(sta_connections') /\ control THEN deauth_old_sta(i) ELSE Taken
    /\ UNCHANGED <<ips, control, pc, ix>>

(* save_mac takes the first free cell. *)
WiFiStationConnected(e) ==
    /\ Dispatch("connected", e)
    /\ LET i == First(Cell \ Occupied)
       IN  IF search_mac(e.mac) # -1 \/ i = -1
           THEN Taken /\ UNCHANGED table
           ELSE /\ macs' = [macs EXCEPT ![i] = e.mac]
                /\ mac_ms' = Stamped(i)
                /\ sta_connections' = sta_connections + 1
                /\ skipped' = (AtLimit(sta_connections') /\ ~control)
                /\ IF AtLimit(sta_connections') /\ control THEN deauth_old_sta(i) ELSE Taken
                /\ UNCHANGED ips
    /\ UNCHANGED <<control, pc, ix>>

Unstamped(i) == {p \in mac_ms : p[1] # i /\ p[2] # i}

clear_macKeepsIp(i) ==
    /\ macs' = [macs EXCEPT ![i] = NoMac]
    /\ mac_ms' = Unstamped(i)
    /\ UNCHANGED ips

clear_mac(i) ==
    /\ macs' = [macs EXCEPT ![i] = NoMac]
    /\ mac_ms' = Unstamped(i)
    /\ ips' = [ips EXCEPT ![i] = NoIp]

DisconnectedUncounted(e) ==
    /\ Dispatch("disconnected", e)
    /\ Taken
    /\ IF search_mac(e.mac) = -1 THEN UNCHANGED table
       ELSE clear_mac(search_mac(e.mac)) /\ UNCHANGED sta_connections /\ skipped' = FALSE
    /\ UNCHANGED <<control, pc, ix>>

DisconnectedKept(e) ==
    /\ Dispatch("disconnected", e)
    /\ Taken
    /\ UNCHANGED <<table, control, pc, ix>>

WiFiStationDisconnected(e) ==
    /\ Dispatch("disconnected", e)
    /\ Taken
    /\ IF search_mac(e.mac) = -1 THEN UNCHANGED table
       ELSE /\ clear_mac(search_mac(e.mac))
            /\ sta_connections' = sta_connections - 1
            /\ skipped' = FALSE
    /\ UNCHANGED <<control, pc, ix>>

(* The event names an address only; the station is looked up in the list the
   driver has now. *)
WiFiStaIPassigned(e) ==
    /\ Dispatch("ip", e)
    /\ Taken
    /\ \/ \E m \in Stations :
            /\ assoc[m] = e.ip
            /\ search_mac(m) # -1
            /\ ips' = [ips EXCEPT ![search_mac(m)] = e.ip]
       \/ /\ \A m \in Stations : assoc[m] = e.ip => search_mac(m) = -1
          /\ UNCHANGED ips
    /\ UNCHANGED <<macs, mac_ms, sta_connections, skipped, control, pc, ix>>

-----------------------------------------------------------------------------
(* The loop task. *)

configAP ==
    /\ pc = "starting"
    /\ pc' = "registered"
    /\ UNCHANGED <<table, control, ix, driver>>

ResetCount ==
    /\ pc = "registered"
    /\ pc' = "counted"
    /\ sta_connections' = 0
    /\ UNCHANGED <<macs, ips, mac_ms, skipped, control, ix, driver>>

ResetArrays ==
    /\ pc = "counted"
    /\ pc' = "run"
    /\ macs' = [i \in Cell |-> NoMac]
    /\ ips' = [i \in Cell |-> NoIp]
    /\ UNCHANGED <<mac_ms, sta_connections, skipped, control, ix, driver>>

(* A request of station m: its cell is looked up by its address, and then
   stamped. *)
handleCmd(m) ==
    /\ pc = "run"
    /\ control
    /\ ix = -1
    /\ m \in Stations
    /\ assoc[m] # NoIp
    /\ ix' = search_ip(assoc[m])
    /\ UNCHANGED <<table, control, pc, driver>>

Refresh ==
    /\ ix # -1
    /\ ix' = -1
    /\ mac_ms' = IF is_maccell_free(ix) THEN mac_ms ELSE Stamped(ix)
    /\ UNCHANGED <<macs, ips, sta_connections, skipped, control, pc, driver>>

(* "set_flags", and a firmware update that begins or fails. *)
SetControl ==
    /\ pc = "run"
    /\ control' = ~control
    /\ UNCHANGED <<table, pc, ix, driver>>

Init ==
    /\ macs = [i \in Cell |-> NoMac]
    /\ ips = [i \in Cell |-> NoIp]
    /\ mac_ms = {}
    /\ sta_connections = 0
    /\ control \in BOOLEAN
    /\ skipped = FALSE
    /\ pc = "starting"
    /\ ix = -1
    /\ assoc = [s \in {} |-> NoIp]
    /\ queue = <<>>
    /\ intact = TRUE

(* esp_restart: the access point goes down and everything starts anew. *)
Restart ==
    /\ macs' = [i \in Cell |-> NoMac]
    /\ ips' = [i \in Cell |-> NoIp]
    /\ mac_ms' = {}
    /\ sta_connections' = 0
    /\ skipped' = FALSE
    /\ pc' = "starting"
    /\ ix' = -1
    /\ assoc' = [s \in {} |-> NoIp]
    /\ queue' = <<>>
    /\ intact' = TRUE
    /\ UNCHANGED control

Next ==
    \/ \E m \in Macs : Associate(m) \/ Leave(m) \/ (\E ip \in Ips : Lease(m, ip)) \/ handleCmd(m)
    \/ \E e \in Event : WiFiStationConnected(e) \/ WiFiStationDisconnected(e) \/ WiFiStaIPassigned(e)
    \/ Unhandled
    \/ configAP
    \/ ResetCount
    \/ ResetArrays
    \/ Refresh
    \/ SetControl
    \/ Restart

Spec == Init /\ [][Next]_vars

-----------------------------------------------------------------------------
(* Every index stays in the arrays, and sta_connections within one table of
   zero, wherever setup was interrupted. *)
TypeOK ==
    /\ macs \in [Cell -> Macs \cup {NoMac}]
    /\ ips \in [Cell -> Ips \cup {NoIp}]
    /\ mac_ms \subseteq Cell \X Cell
    /\ sta_connections \in -MAX_CLIENTS .. 2 * MAX_CLIENTS
    /\ control \in BOOLEAN
    /\ skipped \in BOOLEAN
    /\ pc \in PC
    /\ ix \in Cell \cup {-1}
    /\ assoc \in [Stations -> Ips \cup {NoIp}]
    /\ Stations \subseteq Macs
    /\ Cardinality(Stations) <= MAX_CLIENTS
    /\ queue \in Seq(Event)
    /\ intact \in BOOLEAN

(* No station has two cells, although WiFi may report a station connected
   again without a disconnect, and events may be read twice: clear_mac
   frees one cell only. *)
DistinctMacs ==
    /\ TypeOK
    /\ \A i, j \in Occupied : macs[i] = macs[j] => i = j

(* Once setup is over, sta_connections follows the table: whatever is lost,
   repeated or late, the two move together. *)
CountFollowsTable ==
    [][pc = "run" /\ pc' = "run"
        => sta_connections' - sta_connections
            = Cardinality(Occupied') - Cardinality(Occupied)]_vars

Quiet == pc = "run" /\ queue = <<>> /\ intact

(* macs holds stations that are connected: when every event was read as it
   was posted, no station that left still has a cell. *)
OnlyConnected == Quiet => Table \subseteq Stations

(* An address in the table is the address of the station in its cell, so a
   request refreshes the station it came from. *)
AddressOfStation ==
    Quiet => \A i \in Occupied : ips[i] # NoIp => macs[i] \in Stations /\ assoc[macs[i]] = ips[i]

(* When the table knows all stations, the access point always has a place
   for another one, unless the control was off when it filled up: the
   longest idle station is disconnected in time, also when it had already
   left or others joined meanwhile. *)
RoomForNewcomer ==
    Quiet /\ Table = Stations /\ sta_connections = Cardinality(Stations) /\ ~skipped
        => Cardinality(Stations) < MAX_CLIENTS

(* sta_connections is the number of connected stations. *)
CountsStations == Quiet => sta_connections = Cardinality(Stations)
=============================================================================
