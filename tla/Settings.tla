------------------------------ MODULE Settings ------------------------------
(***************************************************************************)
(* The settings: the struct SWdata in RAM and its copy on the flash.       *)
(* Commands change single fields; set_masterdata takes all of them from a  *)
(* line of values, field by field, and get_masterdata gives such a line.   *)
(* A command runs to its end before the next one is read, and a commit     *)
(* writes the whole struct at once.                                        *)
(*                                                                         *)
(* The 21 values of the line stand as four: a number (the intervals, ports *)
(* and bytes of an address), the developer's key, which is compared and    *)
(* not stored, and two texts that follow each other in the struct (as      *)
(* ESSID and Epass do); after them comes the version.  Texts are sequences *)
(* of characters without quotes and commas; Size characters fill a field   *)
(* and leave no room for the terminator.                                   *)
(***************************************************************************)
EXTENDS Integers, Sequences, FiniteSets

CONSTANTS
    Text,            \* texts that are sent, the empty one too
    Size,            \* sizeof a text field
    VERSION,         \* the version of the firmware, a text
    Edevelopment,    \* the developer's key, a text
    One              \* the text of the number 1; all others give 0

ASSUME Constants ==
    /\ Size \in Nat \ {0}
    /\ Text \subseteq Seq(STRING)
    /\ {VERSION, Edevelopment, One, <<>>} \subseteq Text
    /\ <<>> \notin {VERSION, Edevelopment, One}
    /\ Len(One) <= Size /\ One # <<"0">>

VARIABLES
    data,            \* SWdata in RAM
    flash,           \* SWdata on the flash
    refused,         \* history: fields of data that came in a refused line
    kept             \* history: fields of flash that came in a refused line

settingsVars == <<data, flash, refused, kept>>

Line == <<"EresetInterval", "Edevelopment", "ESSID", "Epass">>   \* case 0 .. 20
Values == Len(Line)                                              \* 21
Place(f) == CHOOSE i \in 1 .. Values : Line[i] = f
Texts == {"ESSID", "Epass"}
Field == {"EresetInterval", "Eflag"} \cup Texts
InLine == Field \ {"Eflag"}
Default == [f \in Field |-> IF f \in Texts THEN One ELSE 1]

-----------------------------------------------------------------------------
(* Conversions *)

intv(v) == IF v = One THEN 1 ELSE 0

(* chcopyt, store_String: as much as the field holds. *)
chcopyt(v) == IF Len(v) > Size THEN SubSeq(v, 1, Size) ELSE v

Convert(f, v) == IF f \in Texts THEN chcopyt(v) ELSE intv(v)

(* A number as get_masterdata writes it. *)
Decimal(n) == IF n = 1 THEN One ELSE <<"0">>

(* A text read as char*: one that fills its field is read on into the next;
   after Epass come the bytes of the address. *)
Epass == IF Len(data.Epass) = Size THEN Append(data.Epass, "?") ELSE data.Epass
ESSID == IF Len(data.ESSID) = Size THEN data.ESSID \o Epass ELSE data.ESSID

(* A plausible slip: the name and the password of the network change places. *)
sendSwapped == <<Decimal(data.EresetInterval), Edevelopment, Epass, ESSID, VERSION>>

(* The number of keys, which set_masterdata does not take back, is left out. *)
sendStringMasterdata ==
    <<Decimal(data.EresetInterval), Edevelopment, ESSID, Epass, VERSION>>

-----------------------------------------------------------------------------
(* set_masterdata.  The line begins and ends with a value; a value that is
   empty is passed over, and the next one takes its place. *)

Lines == {d \in UNION {[1 .. n -> Text] : n \in 2 .. Values + 1} :
             d[1] # <<>> /\ d[Len(d)] # <<>>}

(* The places of the values that count; the n-th of them has n up to it. *)
Full(d) == {i \in DOMAIN d : d[i] # <<>>}

Taken(d) ==
    LET full == Full(d)
    IN  [n \in 1 .. Cardinality(full) |->
            d[CHOOSE i \in full : Cardinality({j \in full : j <= i}) = n]]

WrongKey(w) == Len(w) >= Place("Edevelopment") /\ w[Place("Edevelopment")] # Edevelopment
WrongVersion(w) == Len(w) > Values /\ w[Values + 1] # VERSION

(* A plausible slip: a line that is short by one value is taken. *)
TooShortBy(w) == Len(w) < Values - 1

TooShort(w) == Len(w) < Values

Result(d) ==
    LET w == Taken(d)
    IN  IF WrongVersion(w) THEN "version"
        ELSE IF TooShort(w) \/ WrongKey(w) THEN "error" ELSE "ok"

Arrives(d) == {f \in InLine : Place(f) <= Len(Taken(d))}

Stored(d) ==
    [f \in Field |-> IF f \in Arrives(d) THEN Convert(f, Taken(d)[Place(f)]) ELSE data[f]]

Changed(d) == {f \in InLine : Stored(d)[f] # data[f]}

-----------------------------------------------------------------------------
(* Commands *)

saveAllToEEPROM == flash' = data' /\ kept' = refused'
loadAllFromEEPROM == data' = flash /\ refused' = kept

Give(f, x) == data' = [data EXCEPT ![f] = x] /\ refused' = refused \ {f}

(* A plausible slip: the command does not save. *)
setUnsaved(f) ==
    /\ \E v \in Text : Give(f, Convert(f, v))
    /\ UNCHANGED <<flash, kept>>

(* set_resetinterval, set_ssid, set_pass and the like. *)
set(f) ==
    /\ \E v \in Text : Give(f, Convert(f, v))
    /\ saveAllToEEPROM

(* set_flags saves, and so does the question for them (the value stays). *)
flags ==
    /\ \E x \in {0, 1} : Give("Eflag", x)
    /\ saveAllToEEPROM

(* enable_remote and disable_remote, as keyshostip and keyshostport, stay in
   RAM. *)
remote ==
    /\ \E x \in {0, 1} : Give("Eflag", x)
    /\ UNCHANGED <<flash, kept>>

loadStringMasterdata(d) ==
    \/ /\ Result(d) = "ok"
       /\ data' = Stored(d) /\ refused' = refused \ Arrives(d)
       /\ saveAllToEEPROM
    \/ /\ Result(d) = "error"
       /\ data' = Stored(d) /\ refused' = refused \cup Changed(d)
       /\ UNCHANGED <<flash, kept>>
    \/ /\ Result(d) = "version"
       /\ loadAllFromEEPROM
       /\ UNCHANGED <<flash, kept>>

save == UNCHANGED <<data, refused>> /\ saveAllToEEPROM

(* The command, and what init() does when the device starts again at any
   time. *)
load == loadAllFromEEPROM /\ UNCHANGED <<flash, kept>>

(* init(true): the command rsttodef, the hard reset and the first start. *)
init ==
    /\ data' = Default /\ refused' = {}
    /\ saveAllToEEPROM

SettingsInit == data = Default /\ flash = Default /\ refused = {} /\ kept = {}

SettingsNext ==
    \/ \E f \in InLine : set(f)
    \/ flags \/ remote
    \/ \E d \in Lines : loadStringMasterdata(d)
    \/ save \/ load \/ init

SettingsSpec == SettingsInit /\ [][SettingsNext]_settingsVars

-----------------------------------------------------------------------------
SettingsTypeOK ==
    /\ \A s \in {data, flash} :
         /\ DOMAIN s = Field
         /\ s.EresetInterval \in {0, 1} /\ s.Eflag \in {0, 1}
         /\ \A f \in Texts : Len(s[f]) <= Size
    /\ refused \subseteq InLine /\ kept \subseteq InLine

(* A restart loses nothing that a command reported as saved: RAM and flash
   differ only in the fields of a refused line and in the settings that are
   never saved by themselves (SWparser.cpp:291, 352). *)
OnlyKnownLoss ==
    /\ SettingsTypeOK
    /\ \A f \in Field : data[f] # flash[f] => f \in refused \cup {"Eflag"}

(* A line that is taken puts every value in its own field and, if it names a
   version, names this one.  The one exception is a line with one empty value:
   the values behind it move up by a field, the version takes the place of the
   last value and is not looked at (SWparser.cpp:707, 759). *)
InPlace ==
    \A d \in Lines : Result(d) = "ok" =>
        LET gaps == {i \in DOMAIN d : d[i] = <<>>}
        IN  \/ /\ gaps = {} /\ Len(d) >= Values
               /\ \A f \in InLine : Stored(d)[f] = Convert(f, d[Place(f)])
               /\ Len(d) > Values => d[Values + 1] = VERSION
            \/ Cardinality(gaps) = 1 /\ Len(d) = Values + 1

(* What get_masterdata shows can be sent back: it is taken and changes
   nothing, also where a text fills its field and is read on into the next.
   The one exception is a text that is empty. *)
RoundTrip ==
    (\A f \in Texts : data[f] # <<>>) =>
        /\ Result(sendStringMasterdata) = "ok"
        /\ Stored(sendStringMasterdata) = data

(* What the device refused is not on the flash: the answer to a refused line
   asks to repeat it, and after a wrong version the old settings are loaded
   again ("load previous", SWparser.cpp:740).  It does not hold: the next
   command that saves stores the refused values too. *)
RefusedNotSaved == kept = {}

=============================================================================
