---------------------------- MODULE Sketch_proofs ----------------------------
(***************************************************************************)
(* Proofs about the two modules of the sketch's own loop: LockControl, for *)
(* any word size, interrupt period and settings, and Settings, for any     *)
(* texts and any size of a field.                                          *)
(***************************************************************************)
EXTENDS LockControl, Settings, FiniteSetTheorems, SequenceTheorems, TLAPS

-----------------------------------------------------------------------------
(* LockControl. *)

(* AgeTracksCounter is inductive with the ranges of the counters. *)
IInv == TypeOK /\ AgeTracksCounter

(* The times, split off from TypeOK: what the arithmetic is about. *)
Times ==
    /\ interval \in 0 .. Word - 1
    /\ relayMillis \in 0 .. Word - 1
    /\ swMillis \in 0 .. Word - 1
    /\ age \in 0 .. Word

(* Everything else of TypeOK. *)
Rest ==
    /\ relayState \in BOOLEAN /\ swState \in BOOLEAN
    /\ button \in BOOLEAN /\ hardButton \in BOOLEAN
    /\ timerOn \in BOOLEAN /\ OTA_enabled \in BOOLEAN /\ client \in BOOLEAN
    /\ rst_mode \in 0 .. 2
    /\ antilock \in -1 .. AntilockTimeout - 1
    /\ ErelayInterval \in RelayIntervals
    /\ Eflag \in FlagSets \cup {DefaultFlags}
    /\ pc \in PC

(* TypeOK in two parts: the times, which only some steps touch, and the rest. *)
LEMMA TypeSplit == TypeOK <=> Times /\ Rest
BY DEF TypeOK, Times, Rest

-----------------------------------------------------------------------------
(* The two values the loop task writes into the watchdog. *)
LEMMA WatchdogRange ==
    /\ 0 \in -1 .. AntilockTimeout - 1
    /\ -1 \in -1 .. AntilockTimeout - 1
BY WordAssumption

(* A start of the device establishes the invariant. *)
LEMMA BootInv ==
    ASSUME TypeOK, NEW e \in RelayIntervals, NEW f \in FlagSets \cup {DefaultFlags}, BootWith(e, f)
    PROVE  Times' /\ Rest' /\ AgeTracksCounter'
<1>1. Times' /\ AgeTracksCounter'
  BY WordAssumption DEF BootWith, Times, AgeTracksCounter
<1>2. /\ relayState' \in BOOLEAN /\ swState' \in BOOLEAN
      /\ timerOn' \in BOOLEAN /\ OTA_enabled' \in BOOLEAN
  BY DEF BootWith
<1>3. client' \in BOOLEAN
  BY Zenon DEF BootWith
<1>4. button' \in BOOLEAN /\ hardButton' \in BOOLEAN
  BY DEF BootWith, TypeOK, buttons
<1>5. rst_mode' \in 0 .. 2 /\ antilock' \in -1 .. AntilockTimeout - 1
  BY WatchdogRange DEF BootWith
<1>6. /\ ErelayInterval' \in RelayIntervals
      /\ Eflag' \in FlagSets \cup {DefaultFlags}
      /\ pc' \in PC
  BY DEF BootWith, PC
<1>7. QED
  BY <1>1, <1>2, <1>3, <1>4, <1>5, <1>6 DEF Rest

(* A restart, with the settings kept or restored, begins anew. *)
LEMMA RestartInv ==
    ASSUME TypeOK, esp_restart \/ RestoreDefaults
    PROVE  Times' /\ Rest' /\ AgeTracksCounter'
<1>1. ErelayInterval \in RelayIntervals /\ Eflag \in FlagSets \cup {DefaultFlags}
  BY DEF TypeOK
<1>2. DefaultRelay \in RelayIntervals /\ DefaultFlags \in FlagSets \cup {DefaultFlags}
  BY SettingsAssumption
<1>3. CASE BootWith(DefaultRelay, DefaultFlags)
  BY <1>2, <1>3, BootInv
<1>4. CASE BootWith(ErelayInterval, Eflag)
  BY <1>1, <1>4, BootInv
<1>5. QED
  BY <1>3, <1>4 DEF esp_restart, RestoreDefaults

(* The next value of the counter is a word, and a later time unless it wraps. *)
LEMMA NowLemma ==
    ASSUME TypeOK
    PROVE  /\ now \in 0 .. Word - 1
           /\ interval + STEP < Word => now = interval + STEP
           /\ Older \in 0 .. Word
           /\ relayMillis + Older < Word => Older = age + STEP
BY WordAssumption DEF TypeOK, now, Plus, Older

(* The interrupt leaves the hold time either restarted at the new value of
   the counter or one period older. *)
LEMMA ScanRelay ==
    ASSUME TypeOK, scan_keys, ~AntilockFires
    PROVE  /\ interval' = now /\ timerOn' = timerOn
           /\ \/ relayMillis' = now /\ age' = 0
              \/ relayMillis' = relayMillis /\ age' = Older
           /\ swMillis' \in {now, swMillis}
<1>1. interval' = now /\ timerOn' = timerOn
  BY DEF scan_keys
<1>2. Frozen \/ ButtonChanged \/ ButtonHeld \/ ButtonFree
  BY DEF scan_keys
<1>3. QED
  BY <1>1, <1>2 DEF Frozen, ButtonChanged, ButtonHeld, ButtonFree, Arm, KeepRelay

(* scan_keys: the watchdog fires, a button is looked at, or nothing happens. *)
LEMMA ScanInv ==
    ASSUME IInv, scan_keys
    PROVE  Times' /\ Rest' /\ AgeTracksCounter'
<1> USE DEF IInv
<1>1. CASE AntilockFires
  BY <1>1, RestartInv DEF scan_keys
<1>2. CASE ~AntilockFires
  <2> DEFINE Armed == relayMillis' = now /\ age' = 0
             Older1 == relayMillis' = relayMillis /\ age' = Older
  <2>0. /\ interval' = now /\ timerOn' = timerOn
        /\ Armed \/ Older1
        /\ swMillis' \in {now, swMillis}
    BY <1>2, ScanRelay
  <2>1. Times'
    BY <2>0, NowLemma, WordAssumption DEF TypeOK, Times
  <2>2. AgeTracksCounter'
    <3>1. CASE Armed
      BY <2>0, <3>1, NowLemma, WordAssumption DEF AgeTracksCounter
    <3>2. CASE Older1
      <4>1. SUFFICES ASSUME timerOn, relayMillis + Older < Word
                     PROVE  now = relayMillis + Older
        BY <2>0, <3>2 DEF AgeTracksCounter
      <4>2. Older = age + STEP /\ relayMillis + age + STEP < Word
        BY <4>1, NowLemma, WordAssumption DEF TypeOK
      <4>3. interval = relayMillis + age
        BY <4>1, <4>2, WordAssumption DEF AgeTracksCounter, TypeOK
      <4>4. QED
        BY <4>2, <4>3, NowLemma, WordAssumption DEF TypeOK
    <3>3. QED
      BY <2>0, <3>1, <3>2
  <2>3. Rest'
    <3>1. antilock' \in -1 .. AntilockTimeout - 1
      <4>1. antilock' = IF AntilockCounts THEN antilock + STEP ELSE antilock
        BY <1>2 DEF scan_keys
      <4>2. CASE AntilockCounts
        BY <1>2, <4>1, <4>2, WordAssumption DEF AntilockFires, AntilockCounts, TypeOK
      <4>3. CASE ~AntilockCounts
        BY <4>1, <4>3 DEF TypeOK
      <4>4. QED
        BY <4>2, <4>3
    <3>2. Frozen \/ ButtonChanged \/ ButtonHeld \/ ButtonFree
      BY <1>2 DEF scan_keys
    <3>3. relayState' \in BOOLEAN /\ swState' \in BOOLEAN /\ rst_mode' \in 0 .. 2
      <4>0. relayState \in BOOLEAN /\ swState \in BOOLEAN /\ button \in BOOLEAN /\ rst_mode \in 0 .. 2
        BY DEF TypeOK
      <4>1. CASE Frozen
        BY <4>0, <4>1 DEF Frozen, KeepRelay
      <4>2. CASE ButtonChanged
        BY <4>0, <4>2 DEF ButtonChanged, KeepRelay
      <4>3. CASE ButtonHeld
        BY <4>0, <4>3 DEF ButtonHeld
      <4>4. CASE ButtonFree
        BY <4>0, <4>4 DEF ButtonFree, KeepRelay
      <4>5. QED
        BY <3>2, <4>1, <4>2, <4>3, <4>4
    <3>4. UNCHANGED <<buttons, settings, timerOn, OTA_enabled, client, pc>>
      BY <1>2 DEF scan_keys
    <3>5. QED
      BY <3>1, <3>3, <3>4 DEF Rest, TypeOK, buttons, settings
  <2>4. QED
    BY <2>1, <2>2, <2>3
<1>3. QED
  BY <1>1, <1>2

(* The invariant holds after power on. *)
LEMMA InitInv == Init => IInv
<1> SUFFICES ASSUME Init PROVE Times /\ Rest /\ AgeTracksCounter
  BY TypeSplit DEF IInv
<1>1. Times /\ AgeTracksCounter
  BY WordAssumption DEF Init, Times, AgeTracksCounter
<1>2. rst_mode \in 0 .. 2 /\ antilock \in -1 .. AntilockTimeout - 1
  BY WatchdogRange DEF Init
<1>3. QED
  BY <1>1, <1>2, SettingsAssumption DEF Init, Rest, PC

(* A step of the loop task that leaves the counter and the hold time alone,
   or restarts the hold time at the current value of the counter. *)
LEMMA LoopTimes ==
    ASSUME IInv, UNCHANGED <<interval, swMillis>>, timerOn' => timerOn,
           UNCHANGED <<relayMillis, age>> \/ (relayMillis' = interval /\ age' = 0)
    PROVE  Times' /\ AgeTracksCounter'
BY WordAssumption DEF IInv, TypeOK, Times, AgeTracksCounter

(* Every step of the two tasks and of the interrupt keeps it. *)
LEMMA NextInv == IInv /\ [Next]_vars => IInv'
<1> SUFFICES ASSUME IInv, [Next]_vars PROVE Times' /\ Rest' /\ AgeTracksCounter'
  BY TypeSplit DEF IInv, TypeOK, Times, Rest
<1> USE DEF IInv
<1>1. CASE scan_keys
  BY <1>1, ScanInv
<1>2. CASE Unattended
  <2>1. Times' /\ AgeTracksCounter'
    BY <1>2, NowLemma DEF Unattended, Times, AgeTracksCounter, TypeOK
  <2>2. Rest'
    BY <1>2 DEF Unattended, Rest, TypeOK, buttons, settings
  <2>3. QED
    BY <2>1, <2>2
<1>3. CASE LoopReset \/ ResetCommand \/ UpdateDone
  BY <1>3, RestartInv DEF LoopReset, ResetCommand, UpdateDone
<1>4. CASE Press
  <2>1. Times' /\ AgeTracksCounter'
    BY <1>4, LoopTimes DEF Press, relay
  <2>2. Rest'
    BY <1>4 DEF Press, Rest, TypeOK, relay, settings
  <2>3. QED
    BY <2>1, <2>2
<1>5. CASE LoopTop \/ ServeDone \/ LoopCheck \/ LoopClear
  <2>1. Times' /\ AgeTracksCounter'
    BY <1>5, LoopTimes DEF LoopTop, ServeDone, LoopCheck, LoopClear, relay
  <2>2. Rest'
    BY <1>5, WordAssumption DEF LoopTop, ServeDone, LoopCheck, LoopClear, Rest, TypeOK, PC, relay, settings, buttons
  <2>3. QED
    BY <2>1, <2>2
<1>6. CASE Open \/ OpenRelay \/ SwitchRelay
  <2>1. Times' /\ AgeTracksCounter'
    BY <1>6, LoopTimes DEF Open, OpenRelay, SwitchRelay
  <2>2. Rest'
    BY <1>6 DEF Open, OpenRelay, SwitchRelay, Rest, TypeOK, PC, settings, buttons
  <2>3. QED
    BY <2>1, <2>2
<1>7. CASE SetRelayInterval \/ SetFlags \/ Request
  <2>1. Times' /\ AgeTracksCounter'
    BY <1>7, LoopTimes DEF SetRelayInterval, SetFlags, Request, relay
  <2>2. Rest'
    BY <1>7, WordAssumption DEF SetRelayInterval, SetFlags, Request, Rest, TypeOK, relay, settings, buttons
  <2>3. QED
    BY <2>1, <2>2
<1>8. CASE Update \/ UpdateError \/ UpdateTimeout
  <2>1. Times' /\ AgeTracksCounter'
    BY <1>8, LoopTimes DEF Update, UpdateError, UpdateTimeout, relay
  <2>2. Rest'
    BY <1>8, WatchdogRange DEF Update, UpdateError, UpdateTimeout, Rest, TypeOK, PC, relay, settings, buttons
  <2>3. QED
    BY <2>1, <2>2
<1>9. CASE UNCHANGED vars
  <2>1. Times' /\ AgeTracksCounter'
    BY <1>9, LoopTimes DEF vars
  <2>2. Rest'
    BY <1>9 DEF vars, Rest, TypeOK
  <2>3. QED
    BY <2>1, <2>2
<1>10. QED
  BY <1>1, <1>2, <1>3, <1>4, <1>5, <1>6, <1>7, <1>8, <1>9 DEF Next, Loop, Command

(* The invariant of the lock: the words stay words, and between two wraps
   interval_10ms - relayMillis is the time since the relay was armed. *)
THEOREM LockInvariant == Spec => []IInv
<1>1. QED
  BY InitInv, NextInv, PTL DEF Spec

(* Every field stays in its range, the watchdog below its limit. *)
THEOREM TypeCorrect == Spec => []TypeOK
<1>1. IInv => TypeOK
  BY DEF IInv
<1>2. QED
  BY <1>1, LockInvariant, PTL

(* The counter measures the hold time, whatever the interleaving of the
   interrupt with the loop task. *)
THEOREM CounterMeasuresHold == Spec => []AgeTracksCounter
<1>1. IInv => AgeTracksCounter
  BY DEF IInv
<1>2. QED
  BY <1>1, LockInvariant, PTL

-----------------------------------------------------------------------------
(* The test of scan_keys decides exactly whether ErelayInterval has passed. *)
LEMMA HoldStep ==
    ASSUME IInv, Attended, relayMillis + ErelayInterval < Word, relayMillis + age + STEP < Word
    PROVE  relayState' <=> age + STEP < ErelayInterval
<1> USE DEF IInv
<1>0. ~(button # swState)
  BY DEF Attended, TypeOK
<1>1. ButtonFree /\ timerOn /\ relayState
  BY <1>0 DEF Attended, scan_keys
<1>2. ErelayInterval \in Nat /\ relayMillis \in Nat /\ age \in Nat /\ interval \in Nat
  BY SettingsAssumption DEF TypeOK
<1>3. interval = relayMillis + age
  BY <1>1, <1>2, WordAssumption DEF AgeTracksCounter
<1>4. now = relayMillis + age + STEP
  BY <1>2, <1>3, WordAssumption DEF now, Plus
<1>5. Plus(relayMillis, ErelayInterval) = relayMillis + ErelayInterval
  BY <1>2, WordAssumption DEF Plus
<1>6. Expired <=> age + STEP >= ErelayInterval
  BY <1>2, <1>4, <1>5, WordAssumption DEF Expired
<1>7. CASE Expired
  <2>1. ~relayState'
    BY <1>1, <1>7 DEF ButtonFree
  <2>2. ~(age + STEP < ErelayInterval)
    BY <1>2, <1>6, <1>7, WordAssumption
  <2>3. QED
    BY <2>1, <2>2
<1>8. CASE ~Expired
  <2>1. relayState'
    BY <1>1, <1>8 DEF ButtonFree, KeepRelay
  <2>2. age + STEP < ErelayInterval
    BY <1>2, <1>6, <1>8, WordAssumption
  <2>3. QED
    BY <2>1, <2>2
<1>9. QED
  BY <1>7, <1>8

(* Away from the wrap of the counter the lock closes exactly when its hold
   time is over. *)
THEOREM HoldTimeIsExact == Spec => HoldIsExact
<1>1. IInv /\ [Next]_vars
        => [Attended /\ relayMillis + ErelayInterval < Word /\ relayMillis + age + STEP < Word
              => (relayState' <=> age + STEP < ErelayInterval)]_vars
  BY HoldStep
<1>2. QED
  BY <1>1, LockInvariant, PTL DEF Spec, HoldIsExact

-----------------------------------------------------------------------------
(* Settings. *)

(* Characters; the provers do not know of single strings that they are. *)
Char == STRING \cup {"0", "?"}

(* Texts are sequences of them. *)
LEMMA TextType == Text \subseteq Seq(Char)
<1> SUFFICES ASSUME NEW v \in Text
             PROVE  v \in Seq(Char)
  OBVIOUS
<1>1. v \in Seq(STRING) /\ STRING \subseteq Char
  BY Constants DEF Char
<1>2. Len(v) \in Nat /\ v \in [1 .. Len(v) -> STRING]
  BY <1>1, LenProperties
<1>3. v \in [1 .. Len(v) -> Char]
  BY <1>1, <1>2, Zenon
<1>4. QED
  BY <1>2, <1>3

(* A struct SWdata whose texts fit their fields. *)
Struct(s) ==
    /\ s = [f \in Field |-> s[f]]
    /\ \A f \in Field \ Texts : s[f] \in {0, 1}
    /\ \A f \in Texts : s[f] \in Seq(Char) /\ Len(s[f]) <= Size

(* The inductive invariant. *)
SettingsInv ==
    /\ Struct(data) /\ Struct(flash)
    /\ refused \subseteq InLine /\ kept \subseteq InLine
    /\ \A f \in Field : data[f] # flash[f] => f \in refused \cup {"Eflag"}

-----------------------------------------------------------------------------
(* The line of values. *)

(* Where each field stands in the line. *)
LEMMA Places ==
    /\ Values = 4
    /\ Place("EresetInterval") = 1 /\ Place("Edevelopment") = 2
    /\ Place("ESSID") = 3 /\ Place("Epass") = 4
    /\ InLine = {"EresetInterval", "ESSID", "Epass"}
    /\ Field = {"EresetInterval", "Eflag", "ESSID", "Epass"}
<1>1. Values = 4
  BY DEF Values, Line
<1>2. /\ Line[1] = "EresetInterval" /\ Line[2] = "Edevelopment"
      /\ Line[3] = "ESSID" /\ Line[4] = "Epass"
  BY DEF Line
<1>3. \A i \in 1 .. 4 : i = 1 \/ i = 2 \/ i = 3 \/ i = 4
  OBVIOUS
<1>4. \A f, n : n \in 1 .. 4 /\ Line[n] = f /\ (\A i \in 1 .. 4 : Line[i] = f => i = n) => Place(f) = n
  BY <1>1 DEF Place
<1>5. Place("EresetInterval") = 1
  BY <1>2, <1>3, <1>4
<1>6. Place("Edevelopment") = 2
  BY <1>2, <1>3, <1>4
<1>7. Place("ESSID") = 3
  BY <1>2, <1>3, <1>4
<1>8. Place("Epass") = 4
  BY <1>2, <1>3, <1>4
<1>9. QED
  BY <1>1, <1>5, <1>6, <1>7, <1>8 DEF InLine, Field, Texts

(* Among the places that count there is an n-th for every n up to their
   number. *)
LEMMA Ranks ==
    ASSUME NEW m \in Nat, NEW F \in SUBSET (1 .. m)
    PROVE  /\ IsFiniteSet(F) /\ Cardinality(F) \in Nat /\ Cardinality(F) <= m
           /\ \A n \in 1 .. Cardinality(F) : \E i \in F : Cardinality({j \in F : j <= i}) = n
<1> DEFINE Up(i) == {j \in F : j <= i}
           R == 1 .. Cardinality(F)
           rank == [i \in F |-> Cardinality(Up(i))]
<1>1. IsFiniteSet(1 .. m) /\ Cardinality(1 .. m) = m
  BY FS_Interval
<1>2. IsFiniteSet(F) /\ Cardinality(F) \in Nat /\ Cardinality(F) <= m
  BY <1>1, FS_Subset, FS_CardinalityType
<1>3. \A i \in F : /\ Up(i) \in SUBSET F /\ i \in Up(i)
                   /\ IsFiniteSet(Up(i)) /\ Cardinality(Up(i)) \in R
  <2> SUFFICES ASSUME NEW i \in F
               PROVE  /\ Up(i) \in SUBSET F /\ i \in Up(i)
                      /\ IsFiniteSet(Up(i)) /\ Cardinality(Up(i)) \in R
    OBVIOUS
  <2>1. Up(i) \in SUBSET F /\ i \in Up(i)
    OBVIOUS
  <2>2. IsFiniteSet(Up(i)) /\ Cardinality(Up(i)) <= Cardinality(F)
    BY <1>2, <2>1, FS_Subset
  <2>3. Cardinality(Up(i)) \in Nat
    BY <2>2, FS_CardinalityType
  <2>4. Cardinality(Up(i)) # 0
    BY <2>1, <2>2, FS_EmptySet
  <2>5. QED
    BY <1>2, <2>1, <2>2, <2>3, <2>4
<1>4. \A i, k \in F : i < k => Cardinality(Up(i)) # Cardinality(Up(k))
  <2> SUFFICES ASSUME NEW i \in F, NEW k \in F, i < k
               PROVE  Cardinality(Up(i)) # Cardinality(Up(k))
    OBVIOUS
  <2>1. \A j \in F : j \in Int /\ (j <= i => j <= k)
    OBVIOUS
  <2>2. k <= k /\ ~(k <= i)
    BY <2>1
  <2>3. Up(i) \in SUBSET Up(k) /\ k \in Up(k) /\ k \notin Up(i)
    BY <2>1, <2>2
  <2> HIDE DEF Up
  <2>4. QED
    BY <1>3, <2>3, FS_Subset
<1>5. rank \in Injection(F, R)
  <2>1. rank \in [F -> R]
    BY <1>3
  <2>2. \A i, k \in F : rank[i] = rank[k] => i = k
    BY <1>4
  <2>3. QED
    BY <2>1, <2>2 DEF Injection, IsInjective
<1>6. IsFiniteSet(R) /\ Cardinality(R) = Cardinality(F)
  BY <1>2, FS_Interval
<1> HIDE DEF R, rank
<1>7. rank \in Surjection(F, R)
  BY <1>5, <1>6, FS_Injection
<1>8. QED
  BY <1>2, <1>7 DEF Surjection, rank, R

(* The values that are taken are values of the line. *)
LEMMA TakenType ==
    ASSUME NEW T, NEW d \in Seq(T)
    PROVE  /\ Full(d) \in SUBSET (1 .. Len(d)) /\ IsFiniteSet(Full(d))
           /\ Cardinality(Full(d)) \in Nat /\ Cardinality(Full(d)) <= Len(d)
           /\ Taken(d) \in Seq(T) /\ Len(Taken(d)) = Cardinality(Full(d))
<1>1. Len(d) \in Nat /\ Full(d) \in SUBSET (1 .. Len(d))
  BY DEF Full
<1>2. /\ IsFiniteSet(Full(d)) /\ Cardinality(Full(d)) \in Nat /\ Cardinality(Full(d)) <= Len(d)
      /\ \A n \in 1 .. Cardinality(Full(d)) :
            \E i \in Full(d) : Cardinality({j \in Full(d) : j <= i}) = n
  BY <1>1, Ranks
<1>3. ASSUME NEW n \in 1 .. Cardinality(Full(d))
      PROVE  d[CHOOSE i \in Full(d) : Cardinality({j \in Full(d) : j <= i}) = n] \in T
  <2> DEFINE Nth(i) == Cardinality({j \in Full(d) : j <= i}) = n
  <2>1. \E i \in Full(d) : Nth(i)
    BY <1>2
  <2> HIDE DEF Nth
  <2>2. (CHOOSE i \in Full(d) : Nth(i)) \in Full(d)
    BY <2>1
  <2>3. \A i \in Full(d) : d[i] \in T
    BY <1>1
  <2>4. d[CHOOSE i \in Full(d) : Nth(i)] \in T
    BY <2>2, <2>3
  <2>5. QED
    BY <2>4 DEF Nth
<1>4. Taken(d) \in [1 .. Cardinality(Full(d)) -> T]
  BY <1>3 DEF Taken
<1>5. QED
  BY <1>1, <1>2, <1>4

(* A line without an empty value is taken as it is. *)
LEMMA TakenWhole ==
    ASSUME NEW T, NEW d \in Seq(T), Full(d) = DOMAIN d
    PROVE  Taken(d) = d
<1>1. Len(d) \in Nat /\ Full(d) = 1 .. Len(d) /\ Cardinality(Full(d)) = Len(d)
  <2>1. Len(d) \in Nat /\ Full(d) = 1 .. Len(d)
    OBVIOUS
  <2>2. Cardinality(1 .. Len(d)) = Len(d)
    BY <2>1, FS_Interval
  <2>3. QED
    BY <2>1, <2>2
<1>2. \A i \in 1 .. Len(d) : Cardinality({j \in 1 .. Len(d) : j <= i}) = i
  <2> SUFFICES ASSUME NEW i \in 1 .. Len(d)
               PROVE  Cardinality({j \in 1 .. Len(d) : j <= i}) = i
    OBVIOUS
  <2>1. {j \in 1 .. Len(d) : j <= i} = 1 .. i
    BY <1>1
  <2>2. Cardinality(1 .. i) = i
    BY <1>1, FS_Interval
  <2>3. QED
    BY <2>1, <2>2
<1>3. ASSUME NEW n \in 1 .. Len(d)
      PROVE  d[CHOOSE i \in Full(d) : Cardinality({j \in Full(d) : j <= i}) = n] = d[n]
  <2> DEFINE Nth(i) == Cardinality({j \in Full(d) : j <= i}) = n
  <2>1. n \in Full(d) /\ \A i \in Full(d) : Nth(i) <=> i = n
    BY <1>1, <1>2
  <2> HIDE DEF Nth
  <2>2. (CHOOSE i \in Full(d) : Nth(i)) = n
    BY <2>1
  <2>3. QED
    BY <2>2 DEF Nth
<1>4. Taken(d) = [n \in 1 .. Len(d) |-> d[n]]
  BY <1>1, <1>3 DEF Taken
<1>5. QED
  BY <1>4
(* The lines that come in are sequences of texts. *)
LEMMA LineType ==
    ASSUME NEW d \in Lines
    PROVE  d \in Seq(Seq(Char)) /\ Len(d) \in Nat /\ 2 <= Len(d) /\ Len(d) <= 5
<1>1. PICK n \in 2 .. 5 : d \in [1 .. n -> Text]
  BY Places DEF Lines
<1>2. d \in [1 .. n -> Seq(Char)]
  BY <1>1, TextType
<1>3. n \in Nat
  BY <1>1
<1>4. d \in Seq(Seq(Char)) /\ Len(d) = n
  BY <1>2, <1>3
<1>5. QED
  BY <1>1, <1>4

-----------------------------------------------------------------------------
(* Conversions. *)

(* A field takes as much of a text as fits. *)
LEMMA CopyFits ==
    ASSUME NEW v \in Seq(Char)
    PROVE  chcopyt(v) \in Seq(Char) /\ Len(chcopyt(v)) <= Size
<1>1. Size \in Nat /\ Len(v) \in Nat
  BY Constants, TextType
<1>2. CASE Len(v) > Size
  <2>1. SubSeq(v, 1, Size) \in Seq(Char) /\ Len(SubSeq(v, 1, Size)) = Size
    BY <1>1, <1>2
  <2>2. QED
    BY <1>1, <1>2, <2>1 DEF chcopyt
<1>3. CASE ~(Len(v) > Size)
  BY <1>1, <1>3 DEF chcopyt
<1>4. QED
  BY <1>2, <1>3

(* A value that is of the type of its field. *)
Fits(f, x) ==
    IF f \in Texts THEN x \in Seq(Char) /\ Len(x) <= Size ELSE x \in {0, 1}

(* Every value is converted to the type of the field it is for. *)
LEMMA ConvertFits ==
    ASSUME NEW f \in InLine, NEW v \in Seq(Char)
    PROVE  Fits(f, Convert(f, v))
BY CopyFits DEF Fits, Convert, intv

(* A field that is given a value of its type. *)
LEMMA Given ==
    ASSUME NEW s, Struct(s), NEW f \in Field, NEW x, Fits(f, x),
           NEW t, t = [g \in Field |-> t[g]], \A g \in Field : t[g] = IF g = f THEN x ELSE s[g]
    PROVE  Struct(t)
<1>1. Texts \subseteq Field
  BY DEF Texts, Field
<1>2. QED
  BY <1>1 DEF Struct, Fits

(* The values the device is delivered with. *)
LEMMA DefaultType == Struct(Default)
<1>1. One \in Seq(Char) /\ Len(One) <= Size
  BY Constants, TextType
<1>2. Texts \subseteq Field
  BY DEF Texts, Field
<1>3. QED
  BY <1>1, <1>2 DEF Default, Struct

(* A line leaves a struct behind whether it is refused or not. *)
LEMMA StoredType ==
    ASSUME Struct(data), NEW d \in Seq(Seq(Char))
    PROVE  Struct(Stored(d))
<1>1. Taken(d) \in Seq(Seq(Char))
  BY TakenType
<1>2. \A f \in Arrives(d) : f \in InLine /\ Taken(d)[Place(f)] \in Seq(Char)
  <2> SUFFICES ASSUME NEW f \in Arrives(d)
               PROVE  f \in InLine /\ Taken(d)[Place(f)] \in Seq(Char)
    OBVIOUS
  <2>1. f \in InLine /\ Place(f) <= Len(Taken(d)) /\ Len(Taken(d)) \in Nat
    BY <1>1 DEF Arrives
  <2>2. Place(f) \in Nat /\ Place(f) > 0
    BY <2>1, Places
  <2>3. QED
    BY <1>1, <2>1, <2>2
<1>3. \A f \in Field : Fits(f, Stored(d)[f])
  <2> SUFFICES ASSUME NEW f \in Field
               PROVE  Fits(f, Stored(d)[f])
    OBVIOUS
  <2>1. CASE f \in Arrives(d)
    <3>1. Stored(d)[f] = Convert(f, Taken(d)[Place(f)])
      BY <2>1 DEF Stored
    <3>2. QED
      BY <1>2, <2>1, <3>1, ConvertFits
  <2>2. CASE f \notin Arrives(d)
    <3>1. Stored(d)[f] = data[f]
      BY <2>2 DEF Stored
    <3>2. QED
      BY <3>1 DEF Struct, Fits
  <2>3. QED
    BY <2>1, <2>2
<1>4. Stored(d) = [f \in Field |-> Stored(d)[f]] /\ Texts \subseteq Field
  BY DEF Stored, Texts, Field
<1>5. QED
  BY <1>3, <1>4 DEF Struct, Fits
-----------------------------------------------------------------------------
(* The invariant. *)

(* A command that saves leaves RAM and flash alike. *)
LEMMA Saved ==
    ASSUME Struct(data'), refused' \subseteq InLine, saveAllToEEPROM
    PROVE  SettingsInv'
BY DEF saveAllToEEPROM, SettingsInv, Struct, Field, Texts, InLine

(* Single fields are changed. *)
LEMMA CommandInv ==
    ASSUME SettingsInv, (\E f \in InLine : set(f)) \/ flags \/ remote
    PROVE  SettingsInv'
<1>1. PICK f, x :
        /\ f \in Field /\ Give(f, x) /\ Fits(f, x)
        /\ saveAllToEEPROM \/ (f = "Eflag" /\ UNCHANGED <<flash, kept>>)
  <2>1. ASSUME NEW g \in InLine, set(g)
        PROVE  \E f, x : f \in Field /\ Give(f, x) /\ Fits(f, x) /\ saveAllToEEPROM
    <3>1. PICK v \in Text : Give(g, Convert(g, v)) /\ saveAllToEEPROM
      BY <2>1 DEF set
    <3>2. v \in Seq(Char) /\ g \in Field
      BY TextType DEF InLine
    <3>3. QED
      BY <3>1, <3>2, ConvertFits
  <2>2. ASSUME flags \/ remote
        PROVE  \E x : Give("Eflag", x) /\ Fits("Eflag", x) /\ (saveAllToEEPROM \/ UNCHANGED <<flash, kept>>)
    BY <2>2 DEF flags, remote, Fits, Texts
  <2>3. "Eflag" \in Field
    BY DEF Field
  <2>4. QED
    BY <2>1, <2>2, <2>3
<1>2. /\ Struct(data') /\ refused' = refused \ {f}
      /\ \A g \in Field : data'[g] = IF g = f THEN x ELSE data[g]
  <2>1. Struct(data) /\ data' = [data EXCEPT ![f] = x] /\ refused' = refused \ {f}
    BY <1>1 DEF SettingsInv, Give
  <2>2. DOMAIN data = Field
    BY <2>1 DEF Struct
  <2>3. /\ data' = [g \in Field |-> data'[g]]
        /\ \A g \in Field : data'[g] = IF g = f THEN x ELSE data[g]
    BY <2>1, <2>2
  <2>4. Struct(data')
    BY <1>1, <2>1, <2>3, Given
  <2>5. QED
    BY <2>1, <2>3, <2>4
<1>3. refused' \subseteq InLine
  BY <1>2 DEF SettingsInv
<1>4. CASE saveAllToEEPROM
  BY <1>2, <1>3, <1>4, Saved
<1>5. CASE f = "Eflag" /\ UNCHANGED <<flash, kept>>
  <2>1. \A g \in Field : data'[g] # flash'[g] => g \in refused' \cup {"Eflag"}
    BY <1>2, <1>5 DEF SettingsInv
  <2>2. QED
    BY <1>2, <1>3, <1>5, <2>1 DEF SettingsInv, Struct, Field, Texts, InLine
<1>6. QED
  BY <1>1, <1>4, <1>5

(* A line of values: taken, refused half way, or refused for its version. *)
LEMMA LoadInv ==
    ASSUME SettingsInv, NEW d \in Lines, loadStringMasterdata(d)
    PROVE  SettingsInv'
<1>1. Struct(Stored(d))
  BY LineType, StoredType DEF SettingsInv
<1>2. CASE data' = Stored(d) /\ refused' = refused \ Arrives(d) /\ saveAllToEEPROM
  BY <1>1, <1>2, Saved DEF SettingsInv
<1>3. CASE /\ data' = Stored(d) /\ refused' = refused \cup Changed(d)
           /\ UNCHANGED <<flash, kept>>
  <2>1. refused' \subseteq InLine /\ kept' \subseteq InLine
    BY <1>3 DEF SettingsInv, Changed
  <2>2. \A g \in Field : data'[g] # flash'[g] => g \in refused' \cup {"Eflag"}
    <3> SUFFICES ASSUME NEW g \in Field, data'[g] # flash'[g], g # "Eflag"
                 PROVE  g \in refused'
      OBVIOUS
    <3>1. g \in InLine
      BY DEF InLine
    <3>2. CASE Stored(d)[g] = data[g]
      BY <1>3, <3>2 DEF SettingsInv
    <3>3. CASE Stored(d)[g] # data[g]
      BY <1>3, <3>1, <3>3 DEF Changed
    <3>4. QED
      BY <3>2, <3>3
  <2>3. Struct(data') /\ Struct(flash')
    BY <1>1, <1>3 DEF SettingsInv
  <2>4. QED
    BY <2>1, <2>2, <2>3 DEF SettingsInv, Struct, Field, Texts, InLine
<1>4. CASE loadAllFromEEPROM /\ UNCHANGED <<flash, kept>>
  BY <1>4 DEF SettingsInv, loadAllFromEEPROM, Struct, Field, Texts, InLine
<1>5. QED
  BY <1>2, <1>3, <1>4 DEF loadStringMasterdata

(* Every command keeps the invariant. *)
LEMMA SettingsNextInv ==
    ASSUME SettingsInv, [SettingsNext]_settingsVars
    PROVE  SettingsInv'
<1>1. CASE (\E f \in InLine : set(f)) \/ flags \/ remote
  BY <1>1, CommandInv
<1>2. CASE \E d \in Lines : loadStringMasterdata(d)
  BY <1>2, LoadInv
<1>3. CASE save
  BY <1>3, Saved DEF save, SettingsInv
<1>4. CASE load
  BY <1>4 DEF load, loadAllFromEEPROM, SettingsInv, Struct, Field, Texts, InLine
<1>5. CASE init
  BY <1>5, DefaultType, Saved DEF init
<1>6. CASE UNCHANGED settingsVars
  BY <1>6 DEF settingsVars, SettingsInv, Struct, Field, Texts, InLine
<1>7. QED
  BY <1>1, <1>2, <1>3, <1>4, <1>5, <1>6 DEF SettingsNext

(* The struct in RAM and the one on the flash stay well formed, whatever texts
   set_masterdata and the set commands are given, and they differ only where a
   refused line or enable_remote left something in RAM. *)
THEOREM SettingsInvariant == SettingsSpec => []SettingsInv
<1>1. SettingsInit => SettingsInv
  BY DefaultType DEF SettingsInit, SettingsInv
<1>2. SettingsInv /\ [SettingsNext]_settingsVars => SettingsInv'
  BY SettingsNextInv
<1>3. QED
  BY <1>1, <1>2, PTL DEF SettingsSpec

(* A restart (loadAllFromEEPROM) loses only what a refused line or an unsaved
   setting put into RAM: all commands that report success have saved. *)
THEOREM RestartLosesNothing == SettingsSpec => []OnlyKnownLoss
<1>1. SettingsInv => OnlyKnownLoss
  <2> SUFFICES ASSUME SettingsInv
               PROVE  OnlyKnownLoss
    OBVIOUS
  <2>1. ASSUME NEW s, Struct(s)
        PROVE  /\ DOMAIN s = Field
               /\ s.EresetInterval \in {0, 1} /\ s.Eflag \in {0, 1}
               /\ \A f \in Texts : Len(s[f]) <= Size
    BY <2>1 DEF Struct, Field, Texts
  <2>2. SettingsTypeOK
    BY <2>1 DEF SettingsInv, SettingsTypeOK
  <2>3. QED
    BY <2>2 DEF SettingsInv, OnlyKnownLoss
<1>2. QED
  BY <1>1, SettingsInvariant, PTL
-----------------------------------------------------------------------------
(* What comes of a line. *)

(* A line without an empty value, long enough to be taken, fills its fields. *)
LEMMA WholeStored ==
    ASSUME NEW d \in Seq(Seq(Char)), Full(d) = DOMAIN d, Len(d) >= Values
    PROVE  \A f \in Field : Stored(d)[f] = IF f \in InLine THEN Convert(f, d[Place(f)]) ELSE data[f]
<1>1. Taken(d) = d
  BY TakenWhole
<1>2. Arrives(d) = InLine
  BY <1>1, Places DEF Arrives
<1>3. QED
  BY <1>1, <1>2 DEF Stored

(* set_masterdata: a line that is taken fills every field with its own value
   and names this version, unless one of its values is empty. *)
THEOREM TakenInPlace == SettingsSpec => []InPlace
<1>1. ASSUME NEW d \in Lines, Result(d) = "ok", NEW gaps, gaps = {i \in DOMAIN d : d[i] = <<>>}
      PROVE  \/ /\ gaps = {} /\ Len(d) >= Values
                /\ \A f \in InLine : Stored(d)[f] = Convert(f, d[Place(f)])
                /\ Len(d) > Values => d[Values + 1] = VERSION
             \/ Cardinality(gaps) = 1 /\ Len(d) = Values + 1
  <2>1. /\ d \in Seq(Seq(Char)) /\ DOMAIN d = 1 .. Len(d)
        /\ Len(d) \in Nat /\ 2 <= Len(d) /\ Len(d) <= 5
    BY LineType
  <2>2. /\ Full(d) \in SUBSET (1 .. Len(d)) /\ IsFiniteSet(Full(d))
        /\ Cardinality(Full(d)) \in Nat /\ Len(Taken(d)) = Cardinality(Full(d))
    BY <2>1, TakenType
  <2>3. ~TooShort(Taken(d)) /\ ~WrongVersion(Taken(d))
    BY <1>1 DEF Result
  <2>4. Cardinality(Full(d)) >= 4
    BY <2>2, <2>3, Places DEF TooShort
  <2>5. /\ IsFiniteSet(1 .. Len(d)) /\ Cardinality(1 .. Len(d)) = Len(d)
    BY <2>1, FS_Interval, SMTT(30)
  <2>6. gaps = (1 .. Len(d)) \ Full(d) /\ gaps \in SUBSET (1 .. Len(d))
    BY <1>1, <2>1 DEF Full
  <2>7. IsFiniteSet(gaps) /\ Cardinality(gaps) \in Nat
    BY <2>5, <2>6, FS_Subset, FS_CardinalityType
  <2>8. Cardinality(gaps) = Len(d) - Cardinality(Full(d))
    <3>1. (1 .. Len(d)) \cap Full(d) = Full(d)
      BY <2>2
    <3>2. Cardinality((1 .. Len(d)) \ Full(d))
            = Cardinality(1 .. Len(d)) - Cardinality((1 .. Len(d)) \cap Full(d))
      BY <2>5, FS_Difference
    <3>3. QED
      BY <2>5, <2>6, <3>1, <3>2
  <2>9. CASE gaps = {}
    <3>1. Full(d) = DOMAIN d /\ Cardinality(gaps) = 0
      BY <2>1, <2>2, <2>6, <2>7, <2>9, FS_EmptySet
    <3>2. Len(d) >= Values
      BY <2>1, <2>2, <2>4, <2>8, <3>1, Places
    <3>3. Taken(d) = d
      BY <2>1, <3>1, TakenWhole
    <3>4. Len(d) > Values => d[Values + 1] = VERSION
      BY <2>3, <3>3 DEF WrongVersion
    <3>5. \A f \in InLine : Stored(d)[f] = Convert(f, d[Place(f)])
      BY <2>1, <3>1, <3>2, WholeStored DEF InLine
    <3>6. QED
      BY <2>9, <3>2, <3>4, <3>5
  <2>10. CASE gaps # {}
    <3>1. Cardinality(gaps) # 0
      BY <2>7, <2>10, FS_EmptySet
    <3>2. PICK g, l, c \in Nat : g = Cardinality(gaps) /\ l = Len(d) /\ c = Cardinality(Full(d))
      BY <2>1, <2>2, <2>7
    <3>3. g = 1 /\ l = 5
      <4>1. l <= 5 /\ c >= 4 /\ g # 0 /\ g = l - c
        BY <2>1, <2>4, <2>8, <3>1, <3>2
      <4>2. QED
        BY <4>1
    <3>4. QED
      BY <3>2, <3>3, Places
  <2>11. QED
    BY <2>9, <2>10
<1>2. InPlace
  BY <1>1 DEF InPlace
<1>3. QED
  BY <1>2, PTL

(* A text that is read as char* and runs on into the next field is cut back to
   what it was when it is stored. *)
LEMMA ReadOn ==
    ASSUME NEW s \in Seq(Char), Len(s) <= Size, NEW more \in Seq(Char), more # <<>>,
           NEW r, r = IF Len(s) = Size THEN s \o more ELSE s
    PROVE  r \in Seq(Char) /\ chcopyt(r) = s /\ (s # <<>> => r # <<>>)
<1>1. Size \in Nat /\ Size > 0 /\ Len(s) \in Nat /\ Len(more) \in Nat /\ Len(more) > 0
  BY Constants, TextType, SMTT(30)
<1>2. CASE Len(s) = Size
  <2>1. /\ r \in Seq(Char) /\ Len(r) = Len(s) + Len(more)
        /\ \A i \in 1 .. Len(s) : r[i] = s[i]
    <3>1. r = s \o more
      BY <1>2
    <3>2. /\ s \o more \in Seq(Char) /\ Len(s \o more) = Len(s) + Len(more)
          /\ \A i \in 1 .. Len(s) + Len(more) : (s \o more)[i] =
                IF i <= Len(s) THEN s[i] ELSE more[i - Len(s)]
      BY ConcatProperties
    <3>3. QED
      BY <1>1, <3>1, <3>2
  <2>2. Len(r) > Size /\ r # <<>>
    BY <1>1, <1>2, <2>1
  <2>3. SubSeq(r, 1, Size) = s
    <3>1. SubSeq(r, 1, Size) = [i \in 1 .. Size |-> r[i]]
      BY <1>1, <2>1, <2>2
    <3>2. s = [i \in 1 .. Size |-> s[i]]
      BY <1>2
    <3>3. QED
      BY <1>2, <2>1, <3>1, <3>2
  <2>4. QED
    BY <2>1, <2>2, <2>3 DEF chcopyt
<1>3. CASE Len(s) # Size
  BY <1>1, <1>3 DEF chcopyt
<1>4. QED
  BY <1>2, <1>3

(* get_masterdata and set_masterdata: the line that is shown can be sent back
   and changes nothing, also where a text fills its field to the last byte. *)
THEOREM LineComesBack == SettingsSpec => []RoundTrip
<1>1. ASSUME SettingsInv, \A f \in Texts : data[f] # <<>>
      PROVE  Result(sendStringMasterdata) = "ok" /\ Stored(sendStringMasterdata) = data
  <2> DEFINE d == sendStringMasterdata
  <2>1. /\ Struct(data) /\ data.ESSID \in Seq(Char) /\ data.Epass \in Seq(Char)
        /\ Len(data.ESSID) <= Size /\ Len(data.Epass) <= Size
        /\ data.ESSID # <<>> /\ data.Epass # <<>> /\ data.EresetInterval \in {0, 1}
    BY <1>1 DEF SettingsInv, Struct, Texts, Field
  <2>2. Epass \in Seq(Char) /\ chcopyt(Epass) = data.Epass /\ Epass # <<>>
    <3>1. "?" \in Char
      BY DEF Char
    <3>2. PICK more : more = <<"?">>
      OBVIOUS
    <3>3. more \in Seq(Char) /\ more # <<>>
      BY <3>1, <3>2
    <3>4. Append(data.Epass, "?") = data.Epass \o more
      BY <2>1, <3>1, <3>2, AppendIsConcat
    <3>5. Epass = IF Len(data.Epass) = Size THEN data.Epass \o more ELSE data.Epass
      BY <3>4 DEF Epass
    <3>6. QED
      BY <2>1, <3>3, <3>5, ReadOn
  <2>3. ESSID \in Seq(Char) /\ chcopyt(ESSID) = data.ESSID /\ ESSID # <<>>
    BY <2>1, <2>2, ReadOn DEF ESSID
  <2>4. PICK n : n = Decimal(data.EresetInterval)
    OBVIOUS
  <2>5. n \in Seq(Char) /\ n # <<>> /\ intv(n) = data.EresetInterval
    <3>1. "0" \in Char
      BY DEF Char
    <3>2. <<"0">> \in Seq(Char) /\ <<"0">> # <<>>
      BY <3>1
    <3>3. One \in Seq(Char) /\ One # <<>> /\ One # <<"0">>
      BY Constants, TextType
    <3>4. CASE data.EresetInterval = 1
      BY <2>4, <3>3, <3>4 DEF Decimal, intv
    <3>5. CASE data.EresetInterval = 0
      BY <2>4, <3>2, <3>3, <3>5 DEF Decimal, intv
    <3>6. QED
      BY <2>1, <3>4, <3>5
  <2>6. Edevelopment \in Seq(Char) /\ VERSION \in Seq(Char) /\ Edevelopment # <<>> /\ VERSION # <<>>
    BY Constants, TextType
  <2>7. /\ d \in Seq(Seq(Char)) /\ Len(d) = 5 /\ DOMAIN d = 1 .. 5
        /\ d[1] = n /\ d[2] = Edevelopment /\ d[3] = ESSID /\ d[4] = Epass /\ d[5] = VERSION
    BY <2>2, <2>3, <2>4, <2>5, <2>6 DEF sendStringMasterdata
  <2> HIDE DEF d
  <2>8. Full(d) = DOMAIN d
    BY <2>2, <2>3, <2>5, <2>6, <2>7 DEF Full
  <2>9. Taken(d) = d
    BY <2>7, <2>8, TakenWhole
  <2>10. Result(d) = "ok"
    <3>1. ~WrongVersion(d) /\ ~TooShort(d)
      BY <2>7, Places DEF WrongVersion, TooShort
    <3>2. ~WrongKey(d)
      BY <2>7, Places DEF WrongKey
    <3>3. QED
      BY <2>9, <3>1, <3>2 DEF Result
  <2>11. \A f \in Field : Stored(d)[f] = IF f \in InLine THEN Convert(f, d[Place(f)]) ELSE data[f]
    <3>1. Len(d) >= Values
      BY <2>7, Places
    <3>2. QED
      BY <2>7, <2>8, <3>1, WholeStored
  <2>12. \A f \in Field : Stored(d)[f] = data[f]
    BY <2>2, <2>3, <2>5, <2>7, <2>11, Places DEF Convert, Texts
  <2>13. Stored(d) = [f \in Field |-> Stored(d)[f]] /\ data = [f \in Field |-> data[f]]
    BY <2>1 DEF Stored, Struct
  <2>14. Stored(d) = data
    BY <2>12, <2>13
  <2>15. QED
    BY <2>10, <2>14 DEF d
<1>2. SettingsInv => RoundTrip
  BY <1>1 DEF RoundTrip
<1>3. QED
  BY <1>2, SettingsInvariant, PTL
=============================================================================
