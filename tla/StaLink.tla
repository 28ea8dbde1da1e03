------------------------------ MODULE StaLink -------------------------------
(***************************************************************************)
(* The station link: how the lock stays connected to the access point of   *)
(* the network.  Three parties share STA_action, conAPcntr and connected:  *)
(* loop(), the event callbacks (which preempt loop() anywhere and run one  *)
(* at a time) and the 10 ms timer interrupt.  The driver is external; it   *)
(* answers esp_wifi_connect and esp_wifi_disconnect and queues events.     *)
(***************************************************************************)
EXTENDS Integers, Sequences

CONSTANTS
    Limit,           \* antilock_timeoutMs - 1000, in ticks
    Pause,           \* AP_CON_PAUSE_MINUTS, in ticks
    MaxEvents        \* bound: events that wait for the event task

ASSUME Bounds == Limit \in Nat \ {0} /\ Pause \in Nat /\ MaxEvents \in Nat \ {0}

VARIABLES
    wmode,           \* interfaces that are switched on
    ap,              \* the access point can be reached
    link,            \* the driver: its state, its events, its address timer,
                     \*   and history: why nobody drives it ("no" if somebody does)
    wlc,             \* WiFi.status() == WL_CONNECTED
    STA_action,      \* 1: run on_connected, 3..6: attempts
    conAPcntr,       \* see NoCount, Normal and PauseFrom
    connected,       \* the poller may ask the remote host
    version,         \* transponder_version == ACTUAL_TRANSPONDER_VERSION
    remote,          \* FNOREMOTE is not set
    pc,              \* where loop() is
    raced            \* history: sta_lost ran inside the last on_connected

vars == <<wmode, ap, link, wlc, STA_action, conAPcntr, connected, version,
          remote, pc, raced>>

(* Values of conAPcntr that are not the time of an attempt. *)
NoCount == -1                       \* -1, wait without limit
Normal == -2                        \* -1000, the link is up
PauseFrom == -3                     \* -1001, counts down from here
PauseOver == PauseFrom - Pause - 1

Losses == {"leave", "lost", "expire", "lostip"}
Ends == {"no", "refused", "waits", "unanswered", "settings", "untimed", "off"}

-----------------------------------------------------------------------------
(* The driver, as operators on the link.  Reasons of a disconnection: "leave"
   (also AUTH_FAIL), "expire" (AUTH_EXPIRE), "lost" (BEACON_TIMEOUT and
   above). *)

Gone(l, reason) ==
    [l EXCEPT !.drv = "idle", !.timer = @ \/ l.drv = "ip",
              !.events = Append(@, reason)]

esp_wifi_disconnect(l) == IF l.drv = "idle" THEN l ELSE Gone(l, "leave")

esp_wifi_connect(l, m) ==
    IF l.drv # "idle" THEN {l}
    ELSE {[l EXCEPT !.stalled = "refused"]} \cup
         (IF "sta" \in m THEN {[l EXCEPT !.drv = "connecting", !.stalled = "no"]} ELSE {})

(* A connection that is left without its time limit. *)
Unwatched(l) == IF l.drv = "assoc" THEN [l EXCEPT !.stalled = "untimed"] ELSE l

Quiet == Len(link.events) < MaxEvents

Device == <<wmode, wlc, STA_action, conAPcntr, connected, version, remote, pc, raced>>

Associate ==
    /\ ap /\ link.drv = "connecting" /\ Quiet
    /\ link' = [link EXCEPT !.drv = "assoc", !.events = Append(@, "connected")]
    /\ UNCHANGED <<ap, Device>>

GetIp ==
    /\ ap /\ link.drv = "assoc" /\ Quiet
    /\ link' = [link EXCEPT !.drv = "ip", !.timer = FALSE, !.events = Append(@, "gotip")]
    /\ UNCHANGED <<ap, Device>>

Drops(reason) ==
    /\ link.drv # "idle" /\ Quiet
    /\ link' = Gone(link, reason)
    /\ UNCHANGED <<ap, Device>>

(* The address is not renewed, or not got again in time after a loss. *)
LostIp ==
    /\ link.drv = "ip" \/ link.timer
    /\ Quiet
    /\ link' = [link EXCEPT !.drv = IF @ = "ip" THEN "assoc" ELSE @,
                            !.timer = FALSE, !.events = Append(@, "lostip")]
    /\ UNCHANGED <<ap, Device>>

ApComesAndGoes == ap' = ~ap /\ UNCHANGED <<link, Device>>

-----------------------------------------------------------------------------
(* Events.  The library sets the status and may reconnect, then the callback
   of the sketch runs. *)

_setStatus(e) ==
    wlc' = CASE e = "gotip"  -> TRUE
             [] e = "expire" -> wlc
             [] OTHER        -> FALSE

(* WiFi.disconnect() *)
disconnect(l) == IF "sta" \in wmode THEN esp_wifi_disconnect(l) ELSE l

(* WiFi.begin() without arguments, with the station already enabled. *)
begin(l) == IF wlc' THEN {l} ELSE esp_wifi_connect(l, wmode)

(* What the library leaves for sta_lost. *)
AutoReconnect(l, e) ==
    IF e \in {"lost", "expire"} THEN begin(disconnect(l)) ELSE {l}

sta_connected_to_AP(l) ==
    /\ connected' = FALSE
    /\ conAPcntr' = 0
    /\ link' = [l EXCEPT !.stalled = "no"]
    /\ UNCHANGED <<STA_action, version>>

sta_got_ip(l) ==
    /\ conAPcntr' = Normal
    /\ STA_action' = 1
    /\ link' = [l EXCEPT !.stalled = "no"]
    /\ UNCHANGED <<connected, version>>

(* Attempts are under way: count this one.  Only the library can have
   started the next. *)
LostAgain(l) ==
    /\ STA_action >= 3
    /\ \/ /\ STA_action + 1 > 6
          /\ STA_action' = 0
          /\ conAPcntr' = PauseFrom
          /\ link' = esp_wifi_disconnect(l)
       \/ /\ STA_action + 1 <= 6
          /\ STA_action' = STA_action + 1
          /\ conAPcntr' = NoCount
          /\ link' = IF l.drv = "connecting" THEN l ELSE [l EXCEPT !.stalled = "waits"]

(* A plausible slip: the station is left without a new attempt. *)
LostFirstStays(l) ==
    /\ STA_action < 3
    /\ STA_action' = IF remote THEN 3 ELSE 0
    /\ link' = IF remote THEN esp_wifi_disconnect(l)
               ELSE [esp_wifi_disconnect(l) EXCEPT !.stalled = "off"]
    /\ conAPcntr' = IF remote THEN NoCount ELSE conAPcntr

LostFirst(l) ==
    /\ STA_action < 3
    /\ \/ /\ ~remote
          /\ STA_action' = 0
          /\ link' = [esp_wifi_disconnect(l) EXCEPT !.stalled = "off"]
          /\ UNCHANGED conAPcntr
       \/ /\ remote
          /\ STA_action' = 3
          /\ conAPcntr' = NoCount
          /\ link' \in esp_wifi_connect(esp_wifi_disconnect(l), wmode)

(* A plausible slip: the flag is left alone when the link is lost. *)
sta_lostKeeps(l) ==
    /\ UNCHANGED connected
    /\ version' = FALSE
    /\ LostAgain(l) \/ LostFirst(l)

sta_lost(l) ==
    /\ connected' = FALSE
    /\ version' = FALSE
    /\ LostAgain(l) \/ LostFirst(l)

_eventCallback ==
    /\ link.events # <<>>
    /\ LET e == Head(link.events)
           popped == [link EXCEPT !.events = Tail(@)]
       IN  /\ _setStatus(e)
           /\ raced' = (raced \/ (e \in Losses /\ pc \in {"run", "asking", "judge"}))
           /\ \/ e = "connected" /\ sta_connected_to_AP(popped)
              \/ e = "gotip" /\ sta_got_ip(popped)
              \/ /\ e \in Losses
                 /\ \E l \in AutoReconnect(popped, e) : sta_lost(l)
    /\ UNCHANGED <<wmode, ap, remote, pc>>

(* scan_keys: the part of the timer interrupt that counts.  A tick of the
   model is a large part of a minute; the event task, which runs before
   loop(), does not leave an event that long. *)
scan_keys ==
    /\ remote /\ pc # "halted" /\ link.events = <<>>
    /\ \/ conAPcntr >= 0 /\ conAPcntr' = (IF conAPcntr < Limit THEN conAPcntr + 1 ELSE Limit)
       \/ /\ conAPcntr <= PauseFrom
          /\ conAPcntr' = (IF conAPcntr > PauseOver THEN conAPcntr - 1 ELSE PauseOver)
    /\ UNCHANGED <<wmode, ap, link, wlc, STA_action, connected, version, remote, pc, raced>>

-----------------------------------------------------------------------------
(* loop() *)

Keep == UNCHANGED <<wmode, ap, wlc, version, remote>>

(* A plausible slip: the pause never ends. *)
PauseEndsNever ==
    /\ pc = "check" /\ remote
    /\ conAPcntr <= PauseOver
    /\ pc' = "action"
    /\ Keep /\ UNCHANGED <<link, STA_action, conAPcntr, connected, raced>>

(* The pause is over: try again. *)
PauseEnds ==
    /\ pc = "check" /\ remote
    /\ conAPcntr <= PauseOver
    /\ conAPcntr' = NoCount
    /\ \E l \in esp_wifi_connect(link, wmode) : link' = Unwatched(l)
    /\ pc' = "action"
    /\ Keep /\ UNCHANGED <<STA_action, connected, raced>>

CheckCounter ==
    /\ pc = "check" /\ remote
    /\ conAPcntr > PauseOver
    /\ pc' = IF conAPcntr >= Limit THEN "expired" ELSE "action"
    /\ Keep /\ UNCHANGED <<link, STA_action, conAPcntr, connected, raced>>

Expired ==
    /\ pc = "expired"
    /\ link' = esp_wifi_disconnect(link)
    /\ pc' = "pausing"
    /\ Keep /\ UNCHANGED <<STA_action, conAPcntr, connected, raced>>

StartPause ==
    /\ pc = "pausing"
    /\ conAPcntr' = PauseFrom
    /\ pc' = "action"
    /\ Keep /\ UNCHANGED <<link, STA_action, connected, raced>>

CheckAction ==
    /\ pc = "action"
    /\ pc' = IF STA_action = 1 THEN "run" ELSE "serve"
    /\ raced' = IF STA_action = 1 THEN FALSE ELSE raced
    /\ Keep /\ UNCHANGED <<link, STA_action, conAPcntr, connected>>

RemoteOff ==
    /\ pc = "check" /\ ~remote
    /\ link' = IF connected \/ wlc THEN esp_wifi_disconnect(link) ELSE link
    /\ pc' = "serve"
    /\ Keep /\ UNCHANGED <<STA_action, conAPcntr, connected, raced>>

(* on_connected: the transponder is asked for its version ... *)
StartAsking ==
    /\ pc = "run"
    /\ STA_action' = 0
    /\ pc' = "asking"
    /\ Keep /\ UNCHANGED <<link, conAPcntr, connected, raced>>

Unanswered ==
    /\ pc = "asking"
    /\ link' = [link EXCEPT !.stalled = "unanswered"]
    /\ pc' = "serve"
    /\ Keep /\ UNCHANGED <<STA_action, conAPcntr, connected, raced>>

(* ... another answer than the version brings the transponder up by FTP ... *)
Answered ==
    /\ pc = "asking"
    /\ version' \in BOOLEAN
    /\ pc' = "judge"
    /\ UNCHANGED <<wmode, ap, link, wlc, STA_action, conAPcntr, connected, remote, raced>>

(* ... and without the version the link is given back. *)
WrongVersion ==
    /\ pc = "judge" /\ ~version
    /\ link' = esp_wifi_disconnect(link)
    /\ pc' = "serve"
    /\ Keep /\ UNCHANGED <<STA_action, conAPcntr, connected, raced>>

RightVersion ==
    /\ pc = "judge" /\ version
    /\ connected' = TRUE
    /\ link' = [link EXCEPT !.stalled = IF link.drv = "ip" THEN "no" ELSE @]
    /\ pc' = "serve"
    /\ Keep /\ UNCHANGED <<STA_action, conAPcntr, raced>>

(* The rest of loop(), where commands come in (see Commands). *)
LoopEnds ==
    /\ pc = "serve"
    /\ pc' = "check"
    /\ Keep /\ UNCHANGED <<link, STA_action, conAPcntr, connected, raced>>

loop ==
    \/ PauseEnds \/ CheckCounter \/ Expired \/ StartPause \/ CheckAction
    \/ RemoteOff \/ StartAsking \/ Unanswered \/ Answered \/ WrongVersion
    \/ RightVersion \/ LoopEnds

-----------------------------------------------------------------------------
(* Commands, which handleClient runs in loop() or while on_connected waits *)

CommandsRun == pc \in {"serve", "asking"} /\ Quiet

EnableRemote(on) ==
    /\ CommandsRun
    /\ remote' = on
    /\ UNCHANGED <<wmode, ap, link, wlc, STA_action, conAPcntr, connected, version, pc, raced>>

ConnectCommand ==
    /\ CommandsRun
    /\ conAPcntr' = NoCount
    /\ \E l \in esp_wifi_connect(link, wmode) : link' = Unwatched(l)
    /\ Keep /\ UNCHANGED <<STA_action, connected, pc, raced>>

(* New settings are accepted: the end of loadStringMasterdata.  With a link
   that has its address but not yet its version, the request to run
   on_connected is written over. *)
NewSettings(on) ==
    /\ CommandsRun
    /\ remote' = on
    /\ \/ /\ ~on
          /\ STA_action' = 0
          /\ link' = IF connected \/ wlc THEN esp_wifi_disconnect(link) ELSE link
          /\ UNCHANGED conAPcntr
       \/ /\ on /\ ~(connected /\ wlc)
          /\ STA_action' = 3
          /\ conAPcntr' = NoCount
          /\ \E l \in esp_wifi_connect(link, wmode) :
                link' = IF l.drv = "ip" THEN [l EXCEPT !.stalled = "settings"]
                        ELSE Unwatched(l)
       \/ on /\ connected /\ wlc /\ UNCHANGED <<STA_action, conAPcntr, link>>
    /\ UNCHANGED <<wmode, ap, wlc, connected, version, pc, raced>>

-----------------------------------------------------------------------------
(* setup() *)

(* WiFi.mode(m) while the mode is cm: it may fail. *)
mode(cm, m) == {cm, m}

enableSTA(cm) == mode(cm, cm \cup {"sta"})
enableAP(cm) == mode(cm, cm \cup {"ap"})

NoLink == [drv |-> "idle", events |-> <<>>, timer |-> FALSE, stalled |-> "off"]

(* configAP: the mode is asked for twice more, then the address and the name
   are set; a failure stops the lock for good. *)
configAP(m) == {c \in enableAP(m) \X BOOLEAN : c[2] => "ap" \in c[1]}

(* WiFi.begin(ssid, passphrase) at the end of setup. *)
FirstConnect(m) ==
    UNION {{n} \X esp_wifi_connect(NoLink, n) : n \in enableSTA(m)}

(* The mode and the link setup() ends with, for a lock that is remote or not. *)
Started(r) ==
    UNION {
        {<<c[1], NoLink, "halted">> : c \in {d \in configAP(m) : ~d[2]}} \cup
        UNION {IF r THEN {<<f[1], f[2], "check">> : f \in FirstConnect(c[1])}
               ELSE {<<c[1], NoLink, "check">>} : c \in {d \in configAP(m) : d[2]}}
        : m \in mode({}, IF r THEN {"ap", "sta"} ELSE {"ap"})}

Init ==
    /\ ap \in BOOLEAN
    /\ remote \in BOOLEAN
    /\ \E s \in Started(remote) : wmode = s[1] /\ link = s[2] /\ pc = s[3]
    /\ conAPcntr = IF remote THEN NoCount ELSE Normal
    /\ wlc = FALSE
    /\ STA_action = 0
    /\ connected = FALSE
    /\ version = FALSE
    /\ raced = FALSE

(* A restart with the settings that were saved last. *)
Restart ==
    /\ remote' \in BOOLEAN
    /\ \E s \in Started(remote') : wmode' = s[1] /\ link' = s[2] /\ pc' = s[3]
    /\ conAPcntr' = IF remote' THEN NoCount ELSE Normal
    /\ wlc' = FALSE
    /\ STA_action' = 0
    /\ connected' = FALSE
    /\ version' = FALSE
    /\ raced' = FALSE
    /\ UNCHANGED ap

(* What the radio and the power supply do to the link. *)
Disturbance ==
    \/ LostIp \/ Restart
    \/ \E r \in {"leave", "lost", "expire"} : Drops(r)

Next ==
    \/ Associate \/ GetIp \/ ApComesAndGoes
    \/ Disturbance
    \/ _eventCallback
    \/ scan_keys
    \/ loop
    \/ \E on \in BOOLEAN : EnableRemote(on) \/ NewSettings(on)
    \/ ConnectCommand

(* loop(), the event task and the timer are always scheduled.  An access
   point that can be reached answers again and again, and sooner or later
   before an attempt is given up. *)
Fairness ==
    /\ WF_vars(loop) /\ WF_vars(_eventCallback) /\ WF_vars(scan_keys)
    /\ SF_vars(Associate) /\ SF_vars(GetIp)

Spec == Init /\ [][Next]_vars /\ Fairness

-----------------------------------------------------------------------------
(* The events that wait do not pile up, although callbacks and loop() cause
   more of them when the driver and the commands were stopped: each that makes
   the library connect again leads to one more at most. *)
TypeOK ==
    /\ link.drv \in {"idle", "connecting", "assoc", "ip"}
    /\ Len(link.events) <= 2 * MaxEvents + 2
    /\ link.timer \in BOOLEAN
    /\ link.stalled \in Ends
    /\ STA_action \in {0, 1} \cup 3 .. 6
    /\ conAPcntr \in PauseOver .. Limit
    /\ wmode \subseteq {"ap", "sta"}
    /\ pc \in {"check", "expired", "pausing", "action", "run", "asking", "judge",
               "serve", "halted"}

(* Whenever the lock should be connected, somebody still drives the link: an
   attempt is under way, a time limit or the pause is counted, or on_connected
   has run or will; unless the link was left in one of the named ways.  The
   attempts, the counter and the events that wait stay within their limits. *)
KeepsTrying ==
    TypeOK /\ (remote /\ pc = "check" /\ link.events = <<>> /\ link.stalled = "no" =>
        \/ link.drv = "connecting"
        \/ link.drv = "ip" /\ (connected \/ STA_action = 1)
        \/ conAPcntr >= 0
        \/ conAPcntr <= PauseFrom)

(* The poller is told of a link that is not there only while the event that
   says so waits, or when the link was lost while on_connected asked. *)
ConnectedHonest ==
    connected /\ ~raced =>
        link.drv = "ip" \/ \E i \in 1 .. Len(link.events) : link.events[i] \in Losses

(* When the disturbances end and the access point can be reached, a lock that
   should be connected and has not left the link alone gets its address, and
   gets it again whenever it gives the link back itself. *)
Reconnects ==
    /\ <>[](ap /\ remote /\ pc # "halted" /\ link.stalled = "no")
    /\ <>[][~Disturbance]_vars
    => []<>(link.drv = "ip")
=============================================================================
