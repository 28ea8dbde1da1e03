----------------------------- MODULE LockControl -----------------------------
(***************************************************************************)
(* The relay of the lock and what drives it: the timer interrupt scan_keys *)
(* (button, hold time of the relay, antilock watchdog), the commands that  *)
(* switch the relay, the firmware update that stops the timer, and the     *)
(* part of loop() that feeds the watchdog and acts on a reset request.     *)
(*                                                                         *)
(* The interrupt preempts the loop task between any two of its steps.      *)
(* interval_10ms and the times taken from it are 32-bit words; Word is     *)
(* 2^32, STEP the 10 milliseconds the interrupt adds.                      *)
(***************************************************************************)
EXTENDS Integers

CONSTANTS
    Word,               \* values of an unsigned word
    STEP,               \* added to interval_10ms by every interrupt
    RelayIntervals,     \* values ErelayInterval is given
    DefaultRelay,       \* its default
    EresetInterval,     \* how long the button is held for a reset
    AntilockTimeout,    \* antilock_timeoutMs
    HardHold,           \* the 2000 ms of the hard button test in scan_keys
    FlagSets            \* values Eflag is given (sets of flags)

ASSUME WordAssumption ==
    /\ Word \in Nat
    /\ STEP \in Nat
    /\ 0 < STEP
    /\ STEP < Word
    /\ AntilockTimeout \in Nat
    /\ STEP < AntilockTimeout

ASSUME SettingsAssumption ==
    /\ RelayIntervals \subseteq 0 .. Word - 1
    /\ DefaultRelay \in RelayIntervals
    /\ EresetInterval \in 0 .. Word - 1
    /\ HardHold \in Nat

Flags == {"FSSL", "FNOREMOTE", "FNOANTILOCK", "FNOSERVICE"}
DefaultFlags == {"FSSL"}

ASSUME FlagsAssumption == FlagSets \subseteq SUBSET Flags

VARIABLES
    interval,        \* interval_10ms
    relayMillis,     \* when the hold time of the relay started
    swMillis,        \* when the button changed, or was last seen released
    relayState,      \* TRUE: HIGH, the lock is open
    swState,         \* TRUE: LOW, the button was pressed at the last interrupt
    button,          \* TRUE: the button is pressed
    hardButton,      \* TRUE: the hard reset button is pressed
    rst_mode,        \* reset request to the loop task
    antilock,        \* watchdog counter, -1 when it is off
    timerOn,         \* scan_timer is running
    OTA_enabled,
    ErelayInterval,  \* settings; every command that changes one saves it
    Eflag,
    client,          \* the pointer client is not NULL
    pc,              \* where the loop task is
    age              \* time since relayMillis was written, at most Word

vars == <<interval, relayMillis, swMillis, relayState, swState, button, hardButton,
          rst_mode, antilock, timerOn, OTA_enabled, ErelayInterval, Eflag, client, pc, age>>

settings == <<ErelayInterval, Eflag>>
buttons == <<button, hardButton>>
relay == <<relayMillis, relayState, age>>

(* "serve": server->handleClient or RequestTransponder is running; "opening":
   between the two statements of "open"; "ota": in loop_upload; "reset" and
   "hardreset": the loop has decided to reset. *)
PC == {"top", "serve", "opening", "ota", "check", "clear", "reset", "hardreset"}

-----------------------------------------------------------------------------
(* Unsigned arithmetic of two words. *)
Plus(x, y) == IF x + y >= Word THEN x + y - Word ELSE x + y
Minus(x, y) == IF x >= y THEN x - y ELSE x - y + Word

Older == IF age + STEP >= Word THEN Word ELSE age + STEP

(* What setup() leaves; the hard button held at start loads the defaults. *)
BootWith(e, f) ==
    /\ interval' = 0
    /\ relayMillis' = 0
    /\ swMillis' = 0
    /\ relayState' = FALSE
    /\ swState' = FALSE
    /\ rst_mode' = 0
    /\ antilock' = 0
    /\ timerOn' = TRUE
    /\ OTA_enabled' = FALSE
    /\ ErelayInterval' = e
    /\ Eflag' = f
    /\ client' = (f \cap {"FSSL", "FNOREMOTE"} = {})
    /\ pc' = "top"
    /\ age' = 0
    /\ UNCHANGED buttons

RestoreDefaults == BootWith(DefaultRelay, DefaultFlags)

esp_restart ==
    IF hardButton THEN RestoreDefaults ELSE BootWith(ErelayInterval, Eflag)

-----------------------------------------------------------------------------
(* The interrupt. *)

now == Plus(interval, STEP)

AntilockCounts == antilock >= 0 /\ "FNOANTILOCK" \notin Eflag
AntilockFires == AntilockCounts /\ antilock + STEP >= AntilockTimeout

(* hrst_tms is back at 0 after every interrupt that leaves it below the
   limit, so one interrupt alone has to reach it. *)
HardRequest == hardButton /\ STEP >= HardHold

(* A plausible slip: one interrupt late. *)
ExpiredLate == now > Plus(relayMillis, ErelayInterval)
Expired == now >= Plus(relayMillis, ErelayInterval)

(* A plausible slip: the hold time starts at the previous interrupt. *)
ArmStale == relayMillis' = interval /\ age' = 0
Arm == relayMillis' = now /\ age' = 0
KeepRelay == relayState' = relayState /\ relayMillis' = relayMillis /\ age' = Older

(* A reset request freezes the button and the relay. *)
Frozen ==
    /\ rst_mode' = IF HardRequest THEN 2 ELSE rst_mode
    /\ KeepRelay
    /\ UNCHANGED <<swState, swMillis>>

ButtonChanged ==
    /\ swState' = button
    /\ swMillis' = now
    /\ IF button THEN relayState' = TRUE /\ Arm ELSE KeepRelay
    /\ UNCHANGED rst_mode

ButtonHeld ==
    /\ Arm
    /\ rst_mode' = IF Minus(now, swMillis) >= EresetInterval THEN 1 ELSE rst_mode
    /\ UNCHANGED <<relayState, swState, swMillis>>

ButtonFreeOpen ==
    /\ swMillis' = now
    /\ IF relayState /\ ~Expired THEN KeepRelay ELSE Arm /\ UNCHANGED relayState
    /\ UNCHANGED <<swState, rst_mode>>

ButtonFree ==
    /\ swMillis' = now
    /\ IF relayState THEN IF Expired THEN Arm /\ relayState' = FALSE ELSE KeepRelay
                     ELSE Arm /\ UNCHANGED relayState
    /\ UNCHANGED <<swState, rst_mode>>

scan_keys ==
    /\ timerOn
    /\ IF AntilockFires THEN esp_restart
       ELSE /\ interval' = now
            /\ antilock' = IF AntilockCounts THEN antilock + STEP ELSE antilock
            /\ IF rst_mode # 0 \/ HardRequest THEN Frozen
               ELSE IF button # swState THEN ButtonChanged
               ELSE IF swState THEN ButtonHeld ELSE ButtonFree
            /\ UNCHANGED <<buttons, settings, timerOn, OTA_enabled, client, pc>>

(* Time passes while timerStop keeps the interrupt away. *)
Unattended ==
    /\ ~timerOn
    /\ age' = Older
    /\ UNCHANGED <<interval, relayMillis, swMillis, relayState, swState, buttons, rst_mode,
                   antilock, timerOn, OTA_enabled, settings, client, pc>>

(* The environment: somebody presses or releases a button. *)
Press ==
    /\ \/ button' = ~button /\ UNCHANGED hardButton
       \/ hardButton' = ~hardButton /\ UNCHANGED button
    /\ UNCHANGED <<interval, relay, swMillis, swState, rst_mode, antilock, timerOn,
                   OTA_enabled, settings, client, pc>>

-----------------------------------------------------------------------------
(* loop() *)

LoopTop ==
    /\ pc = "top"
    /\ pc' = "serve"
    /\ antilock' = IF antilock >= 0 THEN 0 ELSE antilock
    /\ UNCHANGED <<interval, relay, swMillis, swState, buttons, rst_mode, timerOn,
                   OTA_enabled, settings, client>>

(* handleClient and RequestTransponder return. *)
ServeDone ==
    /\ pc = "serve"
    /\ pc' = "check"
    /\ UNCHANGED <<interval, relay, swMillis, swState, buttons, rst_mode, antilock, timerOn,
                   OTA_enabled, settings, client>>

LoopCheck ==
    /\ pc = "check"
    /\ pc' = IF hardButton THEN "hardreset"
             ELSE IF ~OTA_enabled /\ rst_mode # 0 THEN "reset" ELSE "clear"
    /\ UNCHANGED <<interval, relay, swMillis, swState, buttons, rst_mode, antilock, timerOn,
                   OTA_enabled, settings, client>>

LoopClear ==
    /\ pc = "clear"
    /\ pc' = "top"
    /\ rst_mode' = 0
    /\ UNCHANGED <<interval, relay, swMillis, swState, buttons, antilock, timerOn,
                   OTA_enabled, settings, client>>

(* The reset itself.  client->stop() runs first: with client == NULL it is a
   bad access, and the device starts anew before the defaults are stored. *)
LoopReset ==
    /\ pc \in {"reset", "hardreset"}
    /\ IF client /\ (pc = "hardreset" \/ rst_mode = 2) THEN RestoreDefaults ELSE esp_restart

-----------------------------------------------------------------------------
(* Commands, inside handleClient or RequestTransponder.  After an update has
   failed they are served inside loop_upload too. *)

Serving == pc = "serve" \/ (pc = "ota" /\ ~OTA_enabled)

Service == "FNOSERVICE" \notin Eflag

Open ==
    /\ Serving
    /\ Service
    /\ relayMillis' = interval
    /\ age' = 0
    /\ \/ pc = "serve" /\ pc' = "opening" /\ UNCHANGED relayState
       \/ pc = "ota" /\ relayState' = TRUE /\ UNCHANGED pc    \* no interrupt in between
    /\ UNCHANGED <<interval, swMillis, swState, buttons, rst_mode, antilock, timerOn,
                   OTA_enabled, settings, client>>

OpenRelay ==
    /\ pc = "opening"
    /\ pc' = "serve"
    /\ relayState' = TRUE
    /\ UNCHANGED <<interval, relayMillis, age, swMillis, swState, buttons, rst_mode, antilock,
                   timerOn, OTA_enabled, settings, client>>

(* "close", and the master's "on" and "off", which leave relayMillis alone. *)
SwitchRelay ==
    /\ Serving
    /\ relayState' \in BOOLEAN
    /\ UNCHANGED <<interval, relayMillis, age, swMillis, swState, buttons, rst_mode, antilock,
                   timerOn, OTA_enabled, settings, client, pc>>

SetRelayInterval ==
    /\ Serving
    /\ ErelayInterval' \in RelayIntervals
    /\ UNCHANGED <<interval, relay, swMillis, swState, buttons, rst_mode, antilock, timerOn,
                   OTA_enabled, Eflag, client, pc>>

SetFlags ==
    /\ Serving
    /\ Eflag' \in FlagSets
    /\ UNCHANGED <<interval, relay, swMillis, swState, buttons, rst_mode, antilock, timerOn,
                   OTA_enabled, ErelayInterval, client, pc>>

(* "reset", "rsttodef". *)
ResetCommand == Serving /\ (esp_restart \/ RestoreDefaults)

(* A long request feeds the watchdog, and creates or deletes client when it
   changes between http and https. *)
Request ==
    /\ Serving
    /\ antilock' \in {0, -1}
    /\ client' \in BOOLEAN
    /\ UNCHANGED <<interval, relay, swMillis, swState, buttons, rst_mode, timerOn,
                   OTA_enabled, settings, pc>>

-----------------------------------------------------------------------------
(* "update": the timer is stopped and never started again. *)
Update ==
    /\ Serving
    /\ pc' = "ota"
    /\ OTA_enabled' = TRUE
    /\ timerOn' = FALSE
    /\ antilock' = -1
    /\ UNCHANGED <<interval, relay, swMillis, swState, buttons, rst_mode, settings, client>>

(* handleUpdateStatus after a complete image, handleRestart. *)
UpdateDone == pc = "ota" /\ OTA_enabled /\ esp_restart

(* handleUpdate after an error. *)
UpdateError ==
    /\ pc = "ota"
    /\ OTA_enabled' = FALSE
    /\ UNCHANGED <<interval, relay, swMillis, swState, buttons, rst_mode, antilock, timerOn,
                   settings, client, pc>>

(* The five minutes of loop_upload are over: "UPDATE FAILED". *)
UpdateTimeout ==
    /\ pc = "ota"
    /\ pc' = "serve"
    /\ OTA_enabled' = FALSE
    /\ UNCHANGED <<interval, relay, swMillis, swState, buttons, rst_mode, antilock, timerOn,
                   settings, client>>

-----------------------------------------------------------------------------
Init ==
    /\ interval = 0
    /\ relayMillis = 0
    /\ swMillis = 0
    /\ relayState = FALSE
    /\ swState = FALSE
    /\ button = FALSE
    /\ hardButton = FALSE
    /\ rst_mode = 0
    /\ antilock = 0
    /\ timerOn = TRUE
    /\ OTA_enabled = FALSE
    /\ ErelayInterval = DefaultRelay
    /\ Eflag = DefaultFlags
    /\ client = FALSE
    /\ pc = "top"
    /\ age = 0

Loop == LoopTop \/ ServeDone \/ LoopCheck \/ LoopClear \/ LoopReset \/ OpenRelay \/ UpdateTimeout

Command == Open \/ SwitchRelay \/ SetRelayInterval \/ SetFlags \/ ResetCommand \/ Request

Next ==
    \/ scan_keys
    \/ Unattended
    \/ Press
    \/ Loop
    \/ Command
    \/ Update
    \/ UpdateDone
    \/ UpdateError

Spec == Init /\ [][Next]_vars

(* The timer interrupt is never held off, and the calls of loop() return. *)
Fairness == WF_vars(scan_keys) /\ WF_vars(Unattended) /\ WF_vars(Loop)

FairSpec == Spec /\ Fairness

-----------------------------------------------------------------------------
(* Every word stays a word and the watchdog below its limit. *)
TypeOK ==
    /\ interval \in 0 .. Word - 1
    /\ relayMillis \in 0 .. Word - 1
    /\ swMillis \in 0 .. Word - 1
    /\ relayState \in BOOLEAN /\ swState \in BOOLEAN
    /\ button \in BOOLEAN /\ hardButton \in BOOLEAN
    /\ timerOn \in BOOLEAN /\ OTA_enabled \in BOOLEAN /\ client \in BOOLEAN
    /\ rst_mode \in 0 .. 2
    /\ antilock \in -1 .. AntilockTimeout - 1
    /\ ErelayInterval \in RelayIntervals
    /\ Eflag \in FlagSets \cup {DefaultFlags}
    /\ pc \in PC
    /\ age \in 0 .. Word

(* While the timer runs, interval_10ms and relayMillis together measure the
   time the relay has been held, until the counter wraps.  "open" writes
   relayMillis in one statement and the relay in another, the interrupt
   writes both, and a reset request freezes them: no order of these loses
   time. *)
AgeTracksCounter == timerOn /\ relayMillis + age < Word => interval = relayMillis + age

(* An interrupt that looks at the relay: nothing pressed, no reset pending. *)
Attended ==
    /\ scan_keys
    /\ ~AntilockFires
    /\ rst_mode = 0
    /\ ~HardRequest
    /\ ~button
    /\ ~swState
    /\ relayState

(* scan_keys closes the lock at the first interrupt at which it was held for
   ErelayInterval, and not before, as long as neither the counter nor the
   end of the hold time has wrapped. *)
HoldIsExact ==
    [][Attended /\ relayMillis + ErelayInterval < Word /\ relayMillis + age + STEP < Word
        => (relayState' <=> age + STEP < ErelayInterval)]_vars

(* The same without the exception for the wrap of the 32-bit counter: the
   lock never closes by itself before ErelayInterval has passed. *)
HoldsWholeInterval ==
    [][Attended /\ ~relayState' => age + STEP >= ErelayInterval]_vars

(* An open lock closes, unless it is opened again or the button is pressed,
   in every order of interrupts, loop steps, settings and resets in which the
   timer is running. *)
RelayCloses ==
    relayState ~> (~relayState \/ swState \/ pc = "opening" \/ ~timerOn)

(* The same with no exception for the stopped timer. *)
RelayAlwaysCloses ==
    relayState ~> (~relayState \/ button \/ pc = "opening" \/ age = 0)

(* A reset decided because of the hard button leaves the default settings. *)
HardResetLoadsDefaults ==
    [][pc = "hardreset" /\ LoopReset
        => ErelayInterval' = DefaultRelay /\ Eflag' = DefaultFlags]_vars
=============================================================================
