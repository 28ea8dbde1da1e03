----------------------------- MODULE UnsavedKeys -----------------------------
(***************************************************************************)
(* When the key store in RAM may hold keys that the flash does not: module *)
(* KeyStore with a record of the bulk loads that ended without their save. *)
(***************************************************************************)
EXTENDS KeyStore

VARIABLE givenUp    \* history: a bulk load was given up, and nobody has saved since

unsavedVars == <<vars, givenUp>>

(* The ways in which an upload or a download ends before the comparison of the
   counters that decides about the save, or in spite of it: the connection
   breaks, a second file begins and takes the counter again, nobody had allowed
   the upload, the download fails or meets a key that is there already. *)
GiveUp ==
    \/ UploadAbort
    \/ pc = "status" /\ UploadStart
    \/ ~upload /\ handleUploadFileStatus
    \/ FetchFail
    \/ pc = "line" /\ ScanRepeat

UnsavedInit == Init /\ givenUp = FALSE

UnsavedNext ==
    /\ Next
    /\ givenUp' = (data' # flash' /\ (givenUp \/ GiveUp))

UnsavedSpec == UnsavedInit /\ [][UnsavedNext]_unsavedVars

(* Between two requests every key the device accepts is on the flash, black or
   white as in RAM, and survives a restart, unless a bulk load was given up:
   that handleUploadFileStatus and loadKeysFromRemoteStorage compare counters
   to see whether there is something to save misses nothing else. *)
UnsavedOnlyGivenUp == pc = "idle" /\ ~givenUp => StatusOf(data) = StatusOf(flash)
=============================================================================
