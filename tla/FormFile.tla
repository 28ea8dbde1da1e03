------------------------------ MODULE FormFile ------------------------------
(***************************************************************************)
(* A key file on its way from the browser's form into the key store: the   *)
(* parser of multipart forms (WebServer::_parseForm), which looks for the  *)
(* delimiter byte by byte and hands the file over in buffers, and          *)
(* scanForKeys, which cuts each buffer into keys.                          *)
(*                                                                         *)
(* Every file over a small alphabet is sent.  The browser chooses a        *)
(* boundary that the file does not contain; any read may time out.         *)
(***************************************************************************)
EXTENDS Integers, Sequences, SequencesExt

CONSTANTS
    CR, LF, DASH,    \* the bytes the parser knows
    Boundary,        \* what the browser has chosen, a sequence of bytes
    Alphabet,        \* bytes of files
    MaxFile,         \* bound: bytes in a file
    Forms,           \* the kinds of parts of a form, in order: "arg", "file"
    BUFLEN,          \* HTTP_UPLOAD_BUFLEN
    KeyLen,          \* characters of a key (7 in the code)
    MAX_KEYS

ASSUME BytesAssumption ==
    /\ {CR, LF, DASH} \subseteq Alphabet
    /\ CR # LF /\ CR # DASH /\ LF # DASH
    /\ Boundary \in Seq(Alphabet)

ASSUME FormsAssumption == Forms \subseteq Seq({"arg", "file"}) \ {<<>>}

ASSUME SizesAssumption == MaxFile \in Nat /\ BUFLEN \in Nat \ {0} /\ KeyLen \in Nat /\ MAX_KEYS \in Nat

VARIABLES
    form,            \* the request: its parts ...
    file,            \* ... and the bytes of its file
    part,            \* the part that is being parsed
    pc,              \* where _parseForm is
    pos,             \* bytes of the file part before argByte
    up,              \* _currentUpload->buf, the key store, and the history of both
    garbled          \* history: a timeout has cut a line or the delimiter short

formVars == <<form, file, part, pc, pos, up, garbled>>

(* buf: _currentUpload->buf; keys: data.Ekey; before: what keys was when the
   file began; handed: all that scanForKeys was given since; refused: addKey
   has returned an error. *)
NoUpload(keys) ==
    [buf |-> <<>>, keys |-> keys, before |-> keys, handed |-> <<>>, refused |-> FALSE]

Separators == {LF}   \* one for the six of the code

Delimiter == <<CR, LF, DASH, DASH>> \o Boundary

stream == file \o Delimiter

IsAt(s, t, i) == i + Len(t) <= Len(s) /\ SubSeq(s, i + 1, i + Len(t)) = t

Files ==
    {f \in UNION {[1 .. n -> Alphabet] : n \in 0 .. MaxFile} :
        \A i \in 0 .. Len(f) - 1 : ~IsAt(f \o Delimiter, Delimiter, i)}

Ended == {"done", "refused", "aborted"}

-----------------------------------------------------------------------------
(* scanForKeys and addKey *)

Cut(word) == SubSeq(word, 1, IF Len(word) < KeyLen THEN Len(word) ELSE KeyLen)

addKey(st, word) ==
    IF Contains(st.keys, Cut(word)) \/ Len(st.keys) >= MAX_KEYS
    THEN [st EXCEPT !.error = TRUE]
    ELSE [st EXCEPT !.keys = Append(@, Cut(word))]

(* A plausible slip: an empty word is a key, too. *)
ScanCharEmpty(st, c) ==
    IF st.error \/ Len(st.keys) >= MAX_KEYS THEN st
    ELSE IF c \notin Separators THEN [st EXCEPT !.word = Append(@, c)]
    ELSE [addKey(st, st.word) EXCEPT !.word = <<>>]

ScanChar(st, c) ==
    IF st.error \/ Len(st.keys) >= MAX_KEYS THEN st
    ELSE IF c \notin Separators THEN [st EXCEPT !.word = Append(@, c)]
    ELSE [(IF st.word = <<>> THEN st ELSE addKey(st, st.word)) EXCEPT !.word = <<>>]

(* The words of s that a separator ends, up to the first that addKey does
   not take or until the store is full. *)
scanForKeys(keys, s) ==
    LET st[i \in 0 .. Len(s)] ==
            IF i = 0 THEN [keys |-> keys, word |-> <<>>, error |-> FALSE]
            ELSE ScanChar(st[i - 1], s[i])
    IN  st[Len(s)]

(* handleUploadFile with UPLOAD_FILE_WRITE: the answer of scanForKeys does not
   stop the upload. *)
handleUploadFile(u) ==
    LET end == scanForKeys(u.keys, u.buf)
    IN  [u EXCEPT !.keys = end.keys,
                  !.handed = @ \o u.buf,
                  !.refused = @ \/ end.error]

-----------------------------------------------------------------------------
(* A plausible slip: the byte that finds the buffer full is not put in the
   emptied one. *)
WriteByteDrops(u, b) ==
    IF Len(u.buf) = BUFLEN
    THEN [handleUploadFile(u) EXCEPT !.buf = <<>>]
    ELSE [u EXCEPT !.buf = Append(@, b)]

(* A full buffer is handed over when the byte after it comes. *)
_uploadWriteByte(u, b) ==
    IF Len(u.buf) = BUFLEN
    THEN [handleUploadFile(u) EXCEPT !.buf = <<b>>]
    ELSE [u EXCEPT !.buf = Append(@, b)]

Written(u, bytes) ==
    LET w[i \in 0 .. Len(bytes)] ==
            IF i = 0 THEN u ELSE _uploadWriteByte(w[i - 1], bytes[i])
    IN  w[Len(bytes)]

WriteBytes(bytes) == up' = Written(up, bytes)

(* k bytes of the stream are read from argByte on. *)
Arrived(k) == pos + k <= Len(stream)

ReadFile(k) ==
    /\ pos' = pos + k
    /\ UNCHANGED <<form, file, part, pc, garbled>>

-----------------------------------------------------------------------------
(* The lines of a form *)

(* Its first line is the boundary, within three attempts. *)
FirstLine ==
    /\ pc = "start"
    /\ pc' = "part"
    /\ UNCHANGED <<form, file, part, pos, up, garbled>>

NoFirstLine ==
    /\ pc = "start"
    /\ pc' = "refused"
    /\ UNCHANGED <<form, file, part, pos, up, garbled>>

ArgPart ==
    /\ pc = "part"
    /\ part <= Len(form)
    /\ form[part] = "arg"
    /\ part' = part + 1
    /\ pc' = IF part = Len(form) THEN "done" ELSE "part"
    /\ UNCHANGED <<form, file, pos, up, garbled>>

FilePart ==
    /\ pc = "part"
    /\ part <= Len(form)
    /\ form[part] = "file"
    /\ pc' = "file"
    /\ pos' = 0
    /\ up' = NoUpload(up.keys)
    /\ UNCHANGED <<form, file, part, garbled>>

(* A line times out in its middle: the rest of it counts as another line.
   What it announced is skipped, up to a later part or for ever. *)
LineCut ==
    /\ pc = "part"
    /\ part <= Len(form)
    /\ part' \in part + 1 .. Len(form) + 1
    /\ garbled' = TRUE
    /\ UNCHANGED <<form, file, pc, pos, up>>

(* The end of the form was missed: nothing that the loop reads ends it, and
   only the watchdog gets the device out of it. *)
Watchdog ==
    /\ pc = "part"
    /\ part > Len(form)
    /\ part' = 1
    /\ pc' = "start"
    /\ up' = NoUpload(<<>>)
    /\ pos' = 0
    /\ garbled' = FALSE
    /\ UNCHANGED <<form, file>>

-----------------------------------------------------------------------------
(* The bytes of a file: readfile *)

Byte ==
    /\ pc = "file"
    /\ Arrived(1)
    /\ stream[pos + 1] # CR
    /\ WriteBytes(<<stream[pos + 1]>>)
    /\ ReadFile(1)

(* A plausible slip: the byte after CR is not looked at again. *)
LoneCRTakes ==
    /\ pc = "file"
    /\ Arrived(2)
    /\ stream[pos + 1] = CR
    /\ stream[pos + 2] # LF
    /\ WriteBytes(<<CR, stream[pos + 2]>>)
    /\ ReadFile(2)

(* CR and something else, which is looked at again *)
LoneCR ==
    /\ pc = "file"
    /\ Arrived(2)
    /\ stream[pos + 1] = CR
    /\ stream[pos + 2] # LF
    /\ WriteBytes(<<CR>>)
    /\ ReadFile(1)

NewLine ==
    /\ pc = "file"
    /\ Arrived(3)
    /\ IsAt(stream, <<CR, LF>>, pos)
    /\ stream[pos + 3] # DASH
    /\ WriteBytes(<<CR, LF>>)
    /\ ReadFile(2)

NewLineDash ==
    /\ pc = "file"
    /\ Arrived(4)
    /\ IsAt(stream, <<CR, LF, DASH>>, pos)
    /\ stream[pos + 4] # DASH
    /\ WriteBytes(<<CR, LF, DASH>>)
    /\ ReadFile(3)

Dashes(k) ==
    /\ pc = "file"
    /\ Arrived(k)
    /\ IsAt(stream, <<CR, LF, DASH, DASH>>, pos)

(* It looked like the delimiter: all of it belongs to the file, and what
   comes after endBuf is read next, even if the delimiter began in endBuf. *)
NotTheBoundary ==
    /\ Dashes(Len(Delimiter))
    /\ ~IsAt(stream, Delimiter, pos)
    /\ WriteBytes(SubSeq(stream, pos + 1, pos + Len(Delimiter)))
    /\ ReadFile(Len(Delimiter))

(* A plausible slip: the line after the boundary is not looked at. *)
EndOfFileGoesOn ==
    /\ up' = handleUploadFile(up)
    /\ part' = part + 1
    /\ pc' = "part"
    /\ UNCHANGED <<form, file>>

(* The end of the file: the line after the boundary says whether another
   part comes. *)
EndOfFile ==
    /\ up' = handleUploadFile(up)
    /\ part' = part + 1
    /\ pc' = IF part = Len(form) THEN "done" ELSE "part"
    /\ UNCHANGED <<form, file>>

TheBoundary ==
    /\ Dashes(Len(Delimiter))
    /\ IsAt(stream, Delimiter, pos)
    /\ EndOfFile
    /\ UNCHANGED <<pos, garbled>>

(* readBytes brings only m bytes of endBuf in time; the rest is what was on
   the stack, the boundary of an earlier turn possibly. *)
EndBufShort ==
    \E m \in 0 .. Len(Boundary) - 1 :
        /\ Dashes(4 + m)
        /\ garbled' = TRUE
        /\ pos' = pos + 4 + m
        /\ \/ SubSeq(stream, pos + 5, pos + 4 + m) = SubSeq(Boundary, 1, m) /\ EndOfFile
           \/ \E rest \in {SubSeq(Boundary, m + 1, Len(Boundary)), [i \in 1 .. Len(Boundary) - m |-> DASH]} :
                /\ SubSeq(stream, pos + 5, pos + 4 + m) \o rest # Boundary
                /\ WriteBytes(SubSeq(stream, pos + 1, pos + 4 + m) \o rest)
                /\ UNCHANGED <<form, file, part, pc>>

(* _uploadReadByte returns -1: the connection is gone or nothing came for a
   second.  What is in buf is given up, and there is no answer. *)
_parseFormUploadAborted ==
    /\ pc = "file"
    /\ pc' = "aborted"
    /\ UNCHANGED <<form, file, part, pos, up, garbled>>

-----------------------------------------------------------------------------
(* The form is sent again, to the store as it is now. *)
Again ==
    /\ pc \in Ended
    /\ pc' = "start"
    /\ part' = 1
    /\ pos' = 0
    /\ up' = NoUpload(up.keys)
    /\ garbled' = FALSE
    /\ UNCHANGED <<form, file>>

FormInit ==
    /\ form \in Forms
    /\ file \in Files
    /\ part = 1
    /\ pc = "start"
    /\ pos = 0
    /\ up = NoUpload(<<>>)
    /\ garbled = FALSE

Lines == FirstLine \/ NoFirstLine \/ ArgPart \/ FilePart \/ LineCut

Bytes ==
    \/ Byte
    \/ LoneCR
    \/ NewLine
    \/ NewLineDash
    \/ NotTheBoundary
    \/ TheBoundary
    \/ EndBufShort

_parseForm == Lines \/ Bytes \/ _parseFormUploadAborted

FormNext == _parseForm \/ Watchdog \/ Again

FormSpec == FormInit /\ [][FormNext]_formVars

-----------------------------------------------------------------------------
(* The buffer is never overrun by the several bytes that are written back
   after a false delimiter, and the store not by the keys. *)
FormTypeOK ==
    /\ pc \in {"start", "part", "file"} \cup Ended
    /\ part \in 1 .. Len(form) + 1
    /\ pos \in 0 .. Len(stream)
    /\ Len(up.buf) <= BUFLEN
    /\ Len(up.keys) <= MAX_KEYS
    /\ garbled \in BOOLEAN

(* Nothing that is read is lost, doubled or moved, whatever the parser took
   for the beginning of a delimiter: what was handed over and what is in the
   buffer, which never overflows, are the bytes of the stream before argByte;
   and when the request is answered, the whole file and nothing of the
   delimiter has been handed over. *)
NothingLost ==
    /\ FormTypeOK
    /\ pc = "file" /\ ~garbled => up.handed \o up.buf = SubSeq(stream, 1, pos)
    /\ pc = "done" /\ ~garbled /\ Contains(form, "file") => up.handed = file

(* The parser does not run past the end of the file, unless the file has
   something like a delimiter close to its end: bytes taken for the boundary
   are not looked at again, and the true delimiter may begin among them. *)
DelimiterSeen ==
    pc = "file" /\ ~garbled /\ pos > Len(file) =>
        \E i \in Len(file) - Len(Delimiter) .. Len(file) :
            i >= 0 /\ IsAt(file, <<CR, LF, DASH, DASH>>, i)

(* The place of a byte in its buffer. *)
Place(i) == i % BUFLEN

(* The words of a sequence of bytes, by their place: i bytes before, e bytes up
   to the end.  Only a word at the boundary of two buffers is cut: its head is
   dropped, and its tail is a word. *)
IsWord(s, i, e) ==
    /\ i < e
    /\ Place(i) = 0 \/ s[i] \in Separators
    /\ s[e + 1] \in Separators
    /\ \A j \in i + 1 .. e : Place(j) # 0 /\ s[j] \notin Separators

Words(s) ==
    {Cut(SubSeq(s, w[1] + 1, w[2])) :
        w \in {v \in (0 .. Len(s) - 1) \X (0 .. Len(s) - 1) : IsWord(s, v[1], v[2])}}

(* What an upload adds to the store are words of the file and nothing else;
   all of them, unless one is there twice or the store is full. *)
KeysAreWords ==
    ~garbled /\ pc = "done" /\ Contains(form, "file") =>
        /\ ToSet(up.keys) \subseteq ToSet(up.before) \cup Words(file)
        /\ ~up.refused /\ Len(up.keys) < MAX_KEYS => ToSet(up.keys) = ToSet(up.before) \cup Words(file)

(* The loop over the parts goes on after the last one, where only the watchdog
   ends it, for one reason alone: a line that came too late. *)
EndMissed ==
    pc = "part" /\ part > Len(form) => garbled
=============================================================================
