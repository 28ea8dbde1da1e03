----------------------------- MODULE MCUploadAck ----------------------------
(***************************************************************************)
(* The key store with a record of the keys named in the file that is being *)
(* uploaded, to compare the answer of handleUploadFileStatus with what the *)
(* flash holds.                                                            *)
(***************************************************************************)
EXTENDS MCKeyStore

VARIABLE fileKeys    \* keys of the file, in the buffers received so far

AckInit == Init /\ fileKeys = {}

AckNext ==
    /\ Next
    /\ fileKeys' =
        CASE pc' = "chunk" /\ pc = "form"  -> fileKeys \cup {Trunc[toks'[i]] : i \in DOMAIN toks'}
          [] pc' = "form"  /\ pc # "chunk" -> {}
          [] pc' = "idle"                  -> {}
          [] OTHER                         -> fileKeys

AckSpec == AckInit /\ [][AckNext]_<<vars, fileKeys>>

(* When handleUploadFileStatus answers "File was successfully uploaded",
   every key of the file that the running device accepts is on the flash
   too, so that it still works after a restart. *)
AcknowledgedKeysAreSaved ==
    [][upload /\ handleUploadFileStatus
        => fileKeys \cap Stored(data') \subseteq Stored(flash')]_<<vars, fileKeys>>
=============================================================================
