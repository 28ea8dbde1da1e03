------------------------------ MODULE KeyStore ------------------------------
(***************************************************************************)
(* The key store of SWparser: the slot array data.Ekey with its counter    *)
(* data.Ekeys in RAM, their copy in the emulated EEPROM, and every         *)
(* operation that changes them: the commands of SWparser::process, the     *)
(* upload of a key file (handlehttp.cpp) and the download of one           *)
(* (loadKeysFromRemoteStorage).                                            *)
(*                                                                         *)
(* All of it runs on the loop task, so a command is one step.  The bulk    *)
(* operations are a step per token, because a restart (antilock interrupt, *)
(* power loss) can fall between two tokens.                                *)
(***************************************************************************)
EXTENDS Integers, Sequences, FiniteSets

CONSTANTS
    Keys,        \* the strings of at most 7 characters
    Names,       \* the non-empty strings callers and files use as a key
    Trunc,       \* the first 7 characters of a name
    NoKey,       \* content of an erased slot
    MasterKeys,  \* Emasterkey and Edevelopment
    MAX_KEYS,    \* slots of Ekey
    Garbage,     \* slot contents an uninitialised Ekey may start with
    MaxTokens    \* bound: tokens in one upload buffer or downloaded line

Slot == [key : Keys \cup {NoKey}, black : BOOLEAN]
Index == 0 .. MAX_KEYS - 1
SWdata == [Ekeys : 0 .. MAX_KEYS, Ekey : [Index -> Slot]]

ASSUME NamesAssumption ==
    /\ Keys \subseteq Names
    /\ Trunc \in [Names -> Keys]
    /\ \A k \in Keys : Trunc[k] = k
    /\ NoKey \notin Names
    /\ MasterKeys \subseteq Keys

ASSUME BoundsAssumption ==
    /\ MAX_KEYS \in Nat \ {0}
    /\ Garbage \subseteq Slot
    /\ Garbage # {}
    /\ MaxTokens \in Nat

VARIABLES
    data,        \* the key part of parser->data
    flash,       \* the same part of the EEPROM
    upload,      \* parser->upload: a key file may be uploaded
    startKeys,   \* _starting_w_keys
    inkeys,      \* local of loadKeysFromRemoteStorage, 0 outside of it
    pc,          \* what the loop task is doing
    toks         \* separator-terminated tokens left in the current buffer

vars == <<data, flash, upload, startKeys, inkeys, pc, toks>>

(* "form": in WebServer::_parseForm between two upload callbacks, "status":
   the form is read and its request handler is next, "fetch": between two
   lines of the download, "chunk" and "line": in scanForKeys for the one or
   the other. *)
PC == {"idle", "form", "chunk", "status", "fetch", "line"}

Buffer == UNION {[1 .. n -> Names] : n \in 0 .. MaxTokens}

-----------------------------------------------------------------------------
Active(d) == 0 .. d.Ekeys - 1

Stored(d) == {d.Ekey[i].key : i \in Active(d)}

IsFull(d) == d.Ekeys >= MAX_KEYS

(* The first active slot that holds the whole name, -1 if none does.  A name
   of more than 7 characters equals no stored key. *)
searchKey(d, name) ==
    IF name \in Stored(d)
    THEN CHOOSE i \in Active(d) :
            /\ d.Ekey[i].key = name
            /\ \A j \in 0 .. i - 1 : d.Ekey[j].key # name
    ELSE -1

checkKey(d, name) ==
    IF name \in MasterKeys THEN "ISMASTER"
    ELSE IF searchKey(d, name) = -1 THEN "NOTFOUND"
    ELSE IF d.Ekey[searchKey(d, name)].black THEN "INBLACK"
    ELSE "FOUND"

(* process(): with no keys in the store everybody is the master. *)
IsMaster(name) == data.Ekeys = 0 \/ checkKey(data, name) = "ISMASTER"

-----------------------------------------------------------------------------
(* Plausible slips, used to see that the properties notice them: the search
   before the cut to 7 characters, no test for a full store, a flag byte
   that is not reset, and a move that forgets it. *)
RefusedBeforeCut(d, name) == name \in Stored(d) \/ IsFull(d)
RefusedUnbounded(d, name) == Trunc[name] \in Stored(d)
addKeyStaleFlag(d, name) ==
    [Ekeys |-> d.Ekeys + 1,
     Ekey  |-> [d.Ekey EXCEPT ![d.Ekeys].key = Trunc[name]]]
deleteKeyMovesName(d, name) ==
    LET i    == searchKey(d, name)
        last == d.Ekeys - 1
    IN  [Ekeys |-> last,
         Ekey  |-> IF i < last
                   THEN [d.Ekey EXCEPT ![i].key = d.Ekey[last].key]
                   ELSE [d.Ekey EXCEPT ![last] = [key |-> NoKey, black |-> FALSE]]]

(* The functions of SWparser on the data it works on. *)

Refused(d, name) == Trunc[name] \in Stored(d) \/ IsFull(d)

addKey(d, name) ==
    [Ekeys |-> d.Ekeys + 1,
     Ekey  |-> [d.Ekey EXCEPT ![d.Ekeys] = [key |-> Trunc[name], black |-> FALSE]]]

(* The last slot moves into the hole and stays behind as a stale copy; only
   when the hole is the last slot is it erased. *)
deleteKey(d, name) ==
    LET i    == searchKey(d, name)
        last == d.Ekeys - 1
    IN  [Ekeys |-> last,
         Ekey  |-> IF i < last
                   THEN [d.Ekey EXCEPT ![i] = d.Ekey[last]]
                   ELSE [d.Ekey EXCEPT ![last] = [key |-> NoKey, black |-> FALSE]]]

toBlackList(d, name) ==
    LET i == searchKey(d, name)
    IN  [d EXCEPT !.Ekey = [@ EXCEPT ![i] = [key |-> d.Ekey[i].key, black |-> TRUE]]]

Erased == [Ekeys |-> 0, Ekey |-> [i \in Index |-> [key |-> NoKey, black |-> FALSE]]]

(* SWdata's initialisers set Ekeys and leave Ekey as the heap had it. *)
Defaults == {[Ekeys |-> 0, Ekey |-> e] : e \in [Index -> Garbage]}

saveAllToEEPROM == flash' = data'

-----------------------------------------------------------------------------
(* A device with no valid flash: SWparser::init stores the defaults. *)
Init ==
    /\ data \in Defaults
    /\ flash = data
    /\ upload = FALSE
    /\ startKeys = 0
    /\ inkeys = 0
    /\ pc = "idle"
    /\ toks = <<>>

Command(caller) ==
    /\ pc = "idle"
    /\ IsMaster(caller)
    /\ UNCHANGED <<startKeys, inkeys, pc, toks>>

AddKey(caller, name) ==
    /\ Command(caller)
    /\ ~Refused(data, name)
    /\ data' = addKey(data, name)
    /\ saveAllToEEPROM
    /\ UNCHANGED upload

DeleteKeyUnsaved(caller, name) ==
    /\ Command(caller)
    /\ searchKey(data, name) # -1
    /\ data' = deleteKey(data, name)
    /\ UNCHANGED <<flash, upload>>

DeleteKey(caller, name) ==
    /\ Command(caller)
    /\ searchKey(data, name) # -1
    /\ data' = deleteKey(data, name)
    /\ saveAllToEEPROM
    /\ UNCHANGED upload

ToBlackList(caller, name) ==
    /\ Command(caller)
    /\ searchKey(data, name) # -1
    /\ data' = toBlackList(data, name)
    /\ saveAllToEEPROM
    /\ UNCHANGED upload

ClearKeys(caller) ==
    /\ Command(caller)
    /\ data' = Erased
    /\ saveAllToEEPROM
    /\ UNCHANGED upload

(* "save", and every command that changes a setting and saves all of data. *)
Save(caller) ==
    /\ Command(caller)
    /\ UNCHANGED <<data, upload>>
    /\ saveAllToEEPROM

(* "load", and set_masterdata with a foreign version. *)
Load(caller) ==
    /\ Command(caller)
    /\ data' = flash
    /\ UNCHANGED <<flash, upload>>

EnableUpload(caller) ==
    /\ Command(caller)
    /\ upload' = TRUE
    /\ UNCHANGED <<data, flash>>

-----------------------------------------------------------------------------
(* POST /upload.  handleUploadFile goes on after its ACCESS_DENIED answer,
   so the keys are read whatever the value of upload. *)

UploadStart ==
    /\ pc \in {"idle", "status"}
    /\ pc' = "form"
    /\ startKeys' = data.Ekeys
    /\ UNCHANGED <<data, flash, upload, inkeys, toks>>

(* A plausible slip: the counter is taken with every buffer. *)
UploadWriteCounts(buf) ==
    /\ pc = "form"
    /\ pc' = "chunk"
    /\ toks' = buf
    /\ startKeys' = data.Ekeys
    /\ UNCHANGED <<data, flash, upload, inkeys>>

UploadWrite(buf) ==
    /\ pc = "form"
    /\ pc' = "chunk"
    /\ toks' = buf
    /\ UNCHANGED <<data, flash, upload, startKeys, inkeys>>

UploadEnd ==
    /\ pc = "form"
    /\ pc' = "status"
    /\ UNCHANGED <<data, flash, upload, startKeys, inkeys, toks>>

(* _parseFormUploadAborted: _parseRequest fails, so the request handler and
   with it the ABORTED case of handleUploadFileStatus never runs. *)
UploadAbort ==
    /\ pc = "form"
    /\ pc' = "idle"
    /\ UNCHANGED <<data, flash, upload, startKeys, inkeys, toks>>

handleUploadFileStatus ==
    /\ pc = "status"
    /\ pc' = "idle"
    /\ upload' = FALSE
    /\ flash' = IF upload /\ startKeys # data.Ekeys THEN data ELSE flash
    /\ UNCHANGED <<data, startKeys, inkeys, toks>>

-----------------------------------------------------------------------------
(* loadKeysFromRemoteStorage, from the request to the last line. *)

FetchBegin(caller) ==
    /\ pc = "idle"
    /\ IsMaster(caller)
    /\ ~IsFull(data)
    /\ pc' = "fetch"
    /\ inkeys' = data.Ekeys
    /\ UNCHANGED <<data, flash, upload, startKeys, toks>>

FetchLine(buf) ==
    /\ pc = "fetch"
    /\ ~IsFull(data)
    /\ pc' = "line"
    /\ toks' = buf
    /\ UNCHANGED <<data, flash, upload, startKeys, inkeys>>

(* A line after the store is full, a 404 or 400, a connection that fails. *)
FetchFail ==
    /\ pc = "fetch"
    /\ pc' = "idle"
    /\ inkeys' = 0
    /\ UNCHANGED <<data, flash, upload, startKeys, toks>>

FetchEnd ==
    /\ pc = "fetch"
    /\ pc' = "idle"
    /\ flash' = IF inkeys # data.Ekeys THEN data ELSE flash
    /\ inkeys' = 0
    /\ UNCHANGED <<data, upload, startKeys, toks>>

-----------------------------------------------------------------------------
(* scanForKeys, one token at a time.  After the last separator, or when the
   store is full, the rest of the buffer is dropped. *)

AfterScan == IF pc = "chunk" THEN "form" ELSE "fetch"

(* The upload ignores an error; the download leaves without saving. *)
AfterError == IF pc = "chunk" THEN "form" ELSE "idle"

ScanAdd ==
    /\ pc \in {"chunk", "line"}
    /\ toks # <<>>
    /\ ~Refused(data, Head(toks))
    /\ data' = addKey(data, Head(toks))
    /\ toks' = Tail(toks)
    /\ UNCHANGED <<flash, upload, startKeys, inkeys, pc>>

ScanRepeat ==
    /\ pc \in {"chunk", "line"}
    /\ toks # <<>>
    /\ ~IsFull(data)
    /\ Trunc[Head(toks)] \in Stored(data)
    /\ toks' = <<>>
    /\ pc' = AfterError
    /\ inkeys' = IF pc = "line" THEN 0 ELSE inkeys
    /\ UNCHANGED <<data, flash, upload, startKeys>>

ScanEnd ==
    /\ pc \in {"chunk", "line"}
    /\ toks = <<>> \/ IsFull(data)
    /\ toks' = <<>>
    /\ pc' = AfterScan
    /\ UNCHANGED <<data, flash, upload, startKeys, inkeys>>

-----------------------------------------------------------------------------
(* A restart at any moment: init loads the flash, statics start at zero. *)
Boot ==
    /\ upload' = FALSE
    /\ startKeys' = 0
    /\ inkeys' = 0
    /\ pc' = "idle"
    /\ toks' = <<>>

Restart ==
    /\ Boot
    /\ data' = flash
    /\ UNCHANGED flash

(* "rsttodef", or the hard button at start: new SWparser(true). *)
RestoreDefault ==
    /\ Boot
    /\ data' \in Defaults
    /\ saveAllToEEPROM

Next ==
    \/ \E caller \in Names :
        \/ \E name \in Names :
            \/ AddKey(caller, name)
            \/ DeleteKey(caller, name)
            \/ ToBlackList(caller, name)
        \/ ClearKeys(caller)
        \/ Save(caller)
        \/ Load(caller)
        \/ EnableUpload(caller)
        \/ FetchBegin(caller)
    \/ UploadStart
    \/ \E buf \in Buffer : UploadWrite(buf) \/ FetchLine(buf)
    \/ UploadEnd
    \/ UploadAbort
    \/ handleUploadFileStatus
    \/ FetchFail
    \/ FetchEnd
    \/ ScanAdd
    \/ ScanRepeat
    \/ ScanEnd
    \/ Restart
    \/ RestoreDefault

Spec == Init /\ [][Next]_vars

-----------------------------------------------------------------------------
(* Every field stays in its range; in particular addKey never counts past
   the MAX_KEYS slots of Ekey. *)
TypeOK ==
    /\ data \in SWdata
    /\ flash \in SWdata
    /\ upload \in BOOLEAN
    /\ startKeys \in 0 .. MAX_KEYS
    /\ inkeys \in 0 .. MAX_KEYS
    /\ pc \in PC
    /\ toks \in Seq(Names)

Distinct(d) ==
    /\ \A i, j \in Active(d) : d.Ekey[i].key = d.Ekey[j].key => i = j
    /\ NoKey \notin Stored(d)

(* No key is stored twice, in RAM or on the flash: toBlackList marks and
   deleteKey removes the first match only, so a second copy of a key would
   keep opening the lock. *)
DistinctKeys == Distinct(data) /\ Distinct(flash)

PrefixOf(f, d) ==
    /\ f.Ekeys <= d.Ekeys
    /\ \A i \in Active(f) : d.Ekey[i] = f.Ekey[i]
    /\ \A i \in Active(d) \ Active(f) : ~d.Ekey[i].black

(* The keys in RAM are those on the flash, slot by slot, followed by white
   keys of a bulk load that was not saved.  So a restart, or "load", can
   lose such keys and nothing else: it never brings back a deleted key and
   never takes a key off the black list. *)
FlashIsPrefix == PrefixOf(flash, data)

InBlack(d, k) == \E i \in Active(d) : d.Ekey[i] = [key |-> k, black |-> TRUE]

(* No step, a restart included, turns a blacklisted key into a white one:
   it stays black or leaves the store. *)
BlackSticky ==
    [][\A k \in Keys : InBlack(data, k) => InBlack(data', k) \/ k \notin Stored(data')]_vars

StatusOf(d) ==
    [k \in Keys |-> IF k \notin Stored(d) THEN "absent"
                    ELSE IF InBlack(d, k) THEN "black" ELSE "white"]

Promise == INSTANCE KeySet WITH ram <- StatusOf(data), disk <- StatusOf(flash)

(* The slot array with its moves, stale copies, bulk loads and partial saves
   implements the key set of module KeySet. *)
ImplementsKeySet == Promise!Spec
=============================================================================
