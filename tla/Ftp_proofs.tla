----------------------------- MODULE Ftp_proofs ------------------------------
(***************************************************************************)
(* Proofs about module Ftp, for any set of host names and any number of    *)
(* lookups whose answer is still to come.                                  *)
(***************************************************************************)
EXTENDS Ftp, TLAPS

Piece == [step : Steps, code : {"good", "bad"}, part : {"whole", "head", "rest"}]

(* What a step may rely on besides TypeOK.  A step without a command has
   nothing to wait for. *)
Types ==
    /\ TypeOK
    /\ phase \in {"send", "wait"}
    /\ pc = "upload" /\ phase = "wait" => Script[step] \notin {"data", "Write"}
    /\ queries \subseteq [of : Names, runs : BOOLEAN]
    /\ done \in BOOLEAN /\ spoilt \in BOOLEAN /\ clean \in BOOLEAN
    /\ open \in BOOLEAN /\ isConnected \in BOOLEAN
    /\ stor \in BOOLEAN /\ split \in BOOLEAN /\ late \in BOOLEAN

(* The lookup.  WIFI_DNS_DONE_BIT is set by an answer, which belongs to the
   lookup that runs or spoils a later one. *)
Lookup ==
    /\ \A q \in queries : q.runs => pc = "lookup"
    /\ pc # "lookup" /\ ~spoilt => ~done
    /\ pc = "lookup" /\ clean =>
        /\ ~spoilt /\ \A q \in queries : q.runs
        /\ IF done THEN addr = said ELSE addr = None
    /\ NameFound

(* The one answer a command has, which tells whether STOR opened the file. *)
OwnPiece(p) ==
    /\ p.step = step
    /\ p.part = "whole"
    /\ p.code \in {"good", "bad"}
    /\ In("STOR") => (p.code = "good") = stor

NothingPending == owed = <<>> /\ flying = <<>> /\ arrived = <<>>

(* The answer is owed, under way, there, or lost. *)
OneAnswer ==
    \/ NothingPending
    \/ owed = <<step>> /\ flying = <<>> /\ arrived = <<>> /\ (In("STOR") => ~stor)
    \/ owed = <<>> /\ arrived = <<>> /\ \E p \in Piece : flying = <<p>> /\ OwnPiece(p)
    \/ owed = <<>> /\ flying = <<>> /\ \E p \in Piece : arrived = <<p>> /\ OwnPiece(p)

(* While an upload runs and answers arrive whole, nothing is left of earlier
   commands, except for STOR when its answer was not waited for: then Write
   ends the upload.  Write and CloseFile know of the file what the server
   knows. *)
Upload ==
    /\ phase = "wait" => OneAnswer
    /\ phase = "send" => NothingPending \/ (In("Write") /\ ~isConnected /\ late)
    /\ stor => step >= 11 /\ ~(In("STOR") /\ phase = "send")
    /\ In("Write") => IF isConnected THEN stor ELSE stor => late
    /\ In("CloseFile") => stor

(* The last answer that was read. *)
Took == took.step # 0 => Len(took.text) = 1 /\ took.text[1].step = took.step

(* The inductive invariant. *)
IInv ==
    /\ Types
    /\ Lookup
    /\ ~split => (pc = "upload" => Upload) /\ Took
    /\ ResultHonest
    /\ pc \in {"lookup", "resolved"} => ~stor /\ ~split /\ ~late /\ took.step = 0 /\ result = "none"
-----------------------------------------------------------------------------
(* Where the commands with a meaning of their own stand in the script. *)
LEMMA ScriptPlaces ==
    /\ Steps = 1 .. 13
    /\ \A i \in Steps : /\ Script[i] = "STOR" <=> i = 11
                        /\ Script[i] = "Write" <=> i = 12
                        /\ Script[i] = "CloseFile" <=> i = 13
                        /\ Script[i] = "data" <=> i \in {7, 10}
<1>1. Steps = 1 .. 13
  BY DEF Steps, Script
<1>2. \A i \in 1 .. 13 : i \in {1, 2, 3, 4, 5, 6, 7, 8, 9, 10, 11, 12, 13}
  OBVIOUS
<1>3. QED
  BY <1>1, <1>2 DEF Script

(* At rest, before the first lookup. *)
LEMMA InitInv == Init => IInv
<1> SUFFICES ASSUME Init PROVE IInv
  OBVIOUS
<1>1. TypeOK
  BY DEF Init, TypeOK
<1>2. Types
  BY <1>1 DEF Init, Types
<1>3. Lookup /\ Took /\ ResultHonest
  BY DEF Init, Lookup, NameFound, Took, ResultHonest
<1>4. QED
  BY <1>2, <1>3 DEF Init, IInv

(* hostByName begins when nothing of an upload is left. *)
LEMMA HostByNameInv ==
    ASSUME IInv, NEW n \in Names, hostByName(n)
    PROVE  IInv'
<1>1. /\ pc = "rest" /\ name' = n /\ pc' \in {"lookup", "resolved"}
      /\ clean' = (~spoilt /\ queries = {})
      /\ antilock' = (n # "ftp")
      /\ took' = [step |-> 0, text |-> <<>>]
      /\ stor' = FALSE /\ split' = FALSE /\ late' = FALSE /\ result' = "none"
      /\ UNCHANGED <<step, phase, done, spoilt, net, isConnected>>
  BY DEF hostByName
<1>2. \/ addr' = n /\ said' = n /\ pc' = "resolved" /\ queries' = queries
      \/ /\ addr' = None /\ said' = "silence" /\ pc' = "lookup"
         /\ queries' = queries \cup {[of |-> n, runs |-> TRUE]}
      \/ addr' = None /\ said' = None /\ pc' = "resolved" /\ queries' = queries
  BY DEF hostByName
<1>3. Types'
  <2>1. clean' \in BOOLEAN
    BY <1>1
  <2>2. TypeOK'
    BY <1>1, <1>2 DEF IInv, Types, TypeOK, net
  <2>3. queries' \subseteq [of : Names, runs : BOOLEAN]
    <3>1. [of |-> n, runs |-> TRUE] \in [of : Names, runs : BOOLEAN]
      OBVIOUS
    <3>2. queries \subseteq [of : Names, runs : BOOLEAN]
      BY DEF IInv, Types
    <3>3. QED
      BY <1>2, <3>1, <3>2
  <2>4. QED
    BY <1>1, <2>1, <2>2, <2>3 DEF IInv, Types, net
<1>4. Lookup'
  <2>1. \A q \in queries : ~q.runs
    BY <1>1 DEF IInv, Lookup, Types
  <2>2. clean' => ~spoilt /\ queries = {} /\ ~done
    BY <1>1 DEF IInv, Lookup
  <2>3. QED
    BY <1>1, <1>2, <2>1, <2>2 DEF IInv, Lookup, NameFound
<1>5. QED
  BY <1>1, <1>3, <1>4 DEF IInv, Took, ResultHonest

(* An answer of the name server, also a late one. *)
LEMMA CallbackInv ==
    ASSUME IInv, NEW q \in queries, NEW a \in {q.of, None}, wifi_dns_found_callback(q, a)
    PROVE  IInv'
<1>1. /\ queries' = queries \ {q} /\ done' = TRUE
      /\ said' = IF q.runs THEN a ELSE said
      /\ spoilt' = (spoilt \/ ~q.runs)
      /\ UNCHANGED <<at, name, clean, session, result, antilock>>
      /\ q.runs => addr' = a
      /\ addr' \in {addr, a}
      /\ pc # "lookup" /\ ~q.runs => addr' = addr
  BY DEF wifi_dns_found_callback
<1>2. /\ pc' = pc /\ step' = step /\ phase' = phase /\ name' = name /\ clean' = clean
      /\ open' = open /\ owed' = owed /\ flying' = flying /\ arrived' = arrived
      /\ isConnected' = isConnected /\ took' = took /\ stor' = stor /\ split' = split /\ late' = late
      /\ result' = result /\ antilock' = antilock
  BY <1>1 DEF at, session, net
<1>3. Types'
  <2>1. spoilt' \in BOOLEAN
    BY <1>1
  <2>2. a \in Names \cup {None}
    BY DEF IInv, Types
  <2>3. TypeOK'
    BY <1>1, <1>2, <2>2 DEF IInv, Types, TypeOK
  <2>4. QED
    BY <1>1, <1>2, <2>1, <2>3 DEF IInv, Types
<1>4. Lookup'
  <2>1. pc # "lookup" => spoilt'
    BY <1>1 DEF IInv, Lookup, Types
  <2>2. pc = "lookup" /\ clean => ~spoilt' /\ addr' = said'
    BY <1>1 DEF IInv, Lookup, Types
  <2>3. pc = "resolved" => ~q.runs
    BY DEF IInv, Lookup, Types
  <2>4. QED
    BY <1>1, <1>2, <2>1, <2>2, <2>3 DEF IInv, Lookup, NameFound
<1>5. QED
  BY <1>2, <1>3, <1>4 DEF IInv, Took, ResultHonest, Upload, OneAnswer, NothingPending, OwnPiece, In
(* The lookup ends with its answer or without one. *)
LEMMA LookupEndsInv ==
    ASSUME IInv, LookupEnds
    PROVE  IInv'
<1>1. /\ pc = "lookup" /\ pc' = "resolved"
      /\ said' = IF done THEN said ELSE None
      /\ done' = FALSE /\ spoilt' = FALSE
      /\ queries' = {[q EXCEPT !.runs = FALSE] : q \in queries}
      /\ UNCHANGED <<step, phase, name, addr, clean, session, result, antilock>>
  BY DEF LookupEnds
<1>2. /\ open' = open /\ owed' = owed /\ flying' = flying /\ arrived' = arrived
      /\ isConnected' = isConnected /\ took' = took /\ stor' = stor /\ split' = split /\ late' = late
  BY <1>1 DEF session, net
<1>3. queries' \subseteq [of : Names, runs : BOOLEAN] /\ \A q \in queries' : ~q.runs
  <2>1. \A q \in queries : q \in [of : Names, runs : BOOLEAN]
    BY DEF IInv, Types
  <2>2. \A q \in [of : Names, runs : BOOLEAN] :
            LET r == [q EXCEPT !.runs = FALSE] IN r \in [of : Names, runs : BOOLEAN] /\ ~r.runs
    OBVIOUS
  <2>3. QED
    BY <1>1, <2>1, <2>2
<1>4. TypeOK'
  BY <1>1, <1>2 DEF IInv, Types, TypeOK
<1>5. Types'
  BY <1>1, <1>2, <1>3, <1>4 DEF IInv, Types
<1>6. Lookup'
  BY <1>1, <1>3 DEF IInv, Lookup, NameFound
<1>7. QED
  BY <1>1, <1>2, <1>5, <1>6 DEF IInv, Took, ResultHonest

(* The steps of an upload leave the lookup alone. *)
LEMMA LookupKept ==
    ASSUME IInv, UNCHANGED lookups,
           pc' = pc \/ (pc # "lookup" /\ pc' \in {"rest", "upload"})
    PROVE  Lookup' /\ queries' = queries /\ done' = done /\ spoilt' = spoilt /\ clean' = clean
                   /\ name' = name /\ addr' = addr
<1>1. /\ queries' = queries /\ done' = done /\ spoilt' = spoilt /\ clean' = clean
      /\ name' = name /\ addr' = addr /\ said' = said
  BY DEF lookups
<1>2. Lookup'
  BY <1>1 DEF IInv, Lookup, NameFound
<1>3. QED
  BY <1>1, <1>2

(* An upload ends: its result is that of the server. *)
LEMMA Returned ==
    ASSUME IInv, pc \in {"upload", "resolved"}, NEW r \in {"ok", "error"}, Return(r),
           UNCHANGED <<lookups, stor, split>>, isConnected' \in BOOLEAN, late' \in BOOLEAN,
           ~split => /\ Took'
                     /\ r = "ok" => stor
                     /\ r = "error" /\ stor => late'
    PROVE  IInv'
<1>1. /\ pc' = "rest" /\ step' = 0 /\ phase' = "send" /\ open' = FALSE
      /\ owed' = <<>> /\ flying' = <<>> /\ arrived' = <<>>
      /\ result' = r /\ antilock' = TRUE
      /\ stor' = stor /\ split' = split
  BY DEF Return
<1>2. Lookup' /\ queries' = queries /\ done' = done /\ spoilt' = spoilt /\ clean' = clean
              /\ name' = name /\ addr' = addr
  BY <1>1, LookupKept
<1>3. TypeOK'
  BY <1>1, <1>2 DEF IInv, Types, TypeOK
<1>4. Types'
  BY <1>1, <1>2, <1>3 DEF IInv, Types
<1>5. ResultHonest'
  BY <1>1 DEF ResultHonest
<1>6. QED
  BY <1>1, <1>2, <1>4, <1>5 DEF IInv

(* An upload goes on with the next command. *)
LEMMA WentOn ==
    ASSUME IInv, pc = "upload", step # 13, NextStep,
           UNCHANGED <<lookups, stor, split>>,
           open' \in BOOLEAN, isConnected' \in BOOLEAN, late' \in BOOLEAN,
           ~split => /\ Took'
                     /\ NothingPending' \/ (step = 11 /\ ~isConnected' /\ late')
                     /\ step = 11 => IF isConnected' THEN stor ELSE stor => late'
                     /\ step = 12 => stor
    PROVE  IInv'
<1>1. /\ step' = step + 1 /\ phase' = "send" /\ pc' = pc /\ result' = result /\ antilock' = antilock
      /\ stor' = stor /\ split' = split
  BY DEF NextStep
<1>2. Lookup' /\ queries' = queries /\ done' = done /\ spoilt' = spoilt /\ clean' = clean
              /\ name' = name /\ addr' = addr
  BY <1>1, LookupKept
<1>3. step \in 1 .. 12 /\ step' \in Steps
  BY <1>1, ScriptPlaces DEF IInv, Types, TypeOK
<1>4. TypeOK'
  BY <1>1, <1>2, <1>3 DEF IInv, Types, TypeOK
<1>5. Types'
  BY <1>1, <1>2, <1>4 DEF IInv, Types
<1>6. ASSUME ~split PROVE Upload'
  <2>1. /\ In("Write")' <=> step = 11
        /\ In("CloseFile")' <=> step = 12
    BY <1>1, <1>3, ScriptPlaces DEF In
  <2>2. stor => step' >= 11 /\ ~In("STOR")'
    BY <1>1, <1>3, <1>6, ScriptPlaces DEF IInv, Upload, In
  <2>3. QED
    BY <1>1, <1>6, <2>1, <2>2 DEF Upload
<1>7. QED
  BY <1>1, <1>2, <1>5, <1>6 DEF IInv, ResultHonest

(* A step that stays at its command. *)
LEMMA Stayed ==
    ASSUME IInv, pc = "upload",
           UNCHANGED <<pc, step, lookups, isConnected, took, late, result, antilock>>,
           phase' \in {"send", "wait"}, phase' = "wait" => Script[step] \notin {"data", "Write"},
           open' \in BOOLEAN, stor' \in BOOLEAN, split' \in BOOLEAN, ~split' => ~split /\ Upload'
    PROVE  IInv'
<1>1. Lookup' /\ queries' = queries /\ done' = done /\ spoilt' = spoilt /\ clean' = clean
              /\ name' = name /\ addr' = addr
  BY LookupKept
<1>2. TypeOK'
  BY <1>1 DEF IInv, Types, TypeOK
<1>3. Types'
  BY <1>1, <1>2 DEF IInv, Types
<1>4. QED
  BY <1>1, <1>3 DEF IInv, Took, ResultHonest
(* While an upload runs, the step is one of the script. *)
LEMMA StepPlace ==
    ASSUME IInv, pc = "upload"
    PROVE  /\ step \in Steps /\ step \in 1 .. 13 /\ phase \in {"send", "wait"}
           /\ In("STOR") <=> step = 11
           /\ In("Write") <=> step = 12
           /\ In("CloseFile") <=> step = 13
           /\ In("data") <=> step \in {7, 10}
           /\ phase = "wait" => step \notin {7, 10, 12}
<1>1. step \in Steps /\ phase \in {"send", "wait"}
  BY DEF IInv, Types, TypeOK
<1>2. phase = "wait" => Script[step] \notin {"data", "Write"}
  BY DEF IInv, Types
<1>3. QED
  BY <1>1, <1>2, ScriptPlaces DEF In

(* Sequences of one element. *)
LEMMA Single ==
    ASSUME NEW x
    PROVE  /\ <<x>> # <<>> /\ Head(<<x>>) = x /\ Tail(<<x>>) = <<>>
           /\ Append(<<>>, x) = <<x>> /\ Len(<<x>>) = 1 /\ <<x>>[1] = x
OBVIOUS

(* The server answers, whole or in pieces. *)
LEMMA ServerAnswersInv ==
    ASSUME IInv, NEW code \in {"good", "bad"}, NEW pieces \in 1 .. 2, ServerAnswers(code, pieces)
    PROVE  IInv'
<1> DEFINE s == Head(owed)
           piece(i) == [step |-> s, code |-> code,
                        part |-> IF pieces = 1 THEN "whole" ELSE IF i = 1 THEN "head" ELSE "rest"]
<1>1. /\ open /\ owed # <<>>
      /\ flying' = flying \o [i \in 1 .. pieces |-> piece(i)]
      /\ stor' = (stor \/ (Script[s] = "STOR" /\ code = "good"))
      /\ owed' = Tail(owed)
      /\ split' = (split \/ pieces > 1)
      /\ UNCHANGED <<at, lookups, open, arrived, isConnected, took, late, result, antilock>>
  BY DEF ServerAnswers
<1>2. /\ pc = "upload" /\ pc' = pc /\ step' = step /\ phase' = phase
      /\ phase \in {"send", "wait"} /\ (phase = "wait" => Script[step] \notin {"data", "Write"})
  BY <1>1 DEF IInv, Types, TypeOK, at
<1>3. stor' \in BOOLEAN /\ split' \in BOOLEAN /\ open' \in BOOLEAN
  BY <1>1 DEF IInv, Types
<1>4. ASSUME ~split' PROVE ~split /\ Upload'
  <2>1. ~split /\ pieces = 1
    <3>1. ~(split \/ pieces > 1)
      BY <1>1, <1>4
    <3>2. QED
      BY <3>1
  <2>2. Upload
    BY <1>2, <2>1 DEF IInv
  <2>3. /\ In("STOR")' <=> step = 11
        /\ In("Write")' <=> step = 12
        /\ In("CloseFile")' <=> step = 13
    BY <1>2, StepPlace DEF In
  <2>4. CASE phase = "send"
    <3>1. step = 12 /\ ~isConnected /\ late
      BY <1>1, <1>2, <2>2, <2>4, StepPlace DEF Upload, NothingPending
    <3>2. QED
      BY <1>1, <1>2, <2>1, <2>3, <2>4, <3>1 DEF Upload
  <2>5. CASE phase = "wait"
    <3>1. owed = <<step>> /\ flying = <<>> /\ arrived = <<>> /\ (In("STOR") => ~stor)
      BY <1>1, <2>2, <2>5 DEF Upload, OneAnswer, NothingPending
    <3>2. s = step /\ owed' = <<>> /\ arrived' = <<>>
      BY <1>1, <3>1
    <3>3. PICK p : p = [step |-> step, code |-> code, part |-> "whole"] /\ flying' = <<p>>
      BY <1>1, <2>1, <3>1, <3>2
    <3>4. stor' = (stor \/ (step = 11 /\ code = "good"))
      BY <1>1, <1>2, <3>2, StepPlace DEF In
    <3>5. p \in Piece /\ p.step = step /\ p.part = "whole" /\ p.code = code
      BY <1>2, <3>3, StepPlace DEF Piece
    <3>6. step = 11 => (code = "good") = stor'
      BY <1>2, <3>1, <3>4, StepPlace DEF IInv, Types
    <3>7. OwnPiece(p)'
      BY <1>2, <2>3, <3>5, <3>6 DEF OwnPiece
    <3>8. OneAnswer'
      BY <3>2, <3>3, <3>5, <3>7 DEF OneAnswer
    <3>9. stor' => step >= 11
      BY <1>2, <2>2, <3>4, StepPlace DEF Upload, IInv, Types
    <3>10. step # 12 /\ (step = 13 => stor')
      BY <1>2, <2>2, <2>5, <3>4, StepPlace DEF Upload
    <3>11. QED
      BY <1>2, <2>1, <2>3, <2>5, <3>8, <3>9, <3>10 DEF Upload
  <2>6. QED
    BY <1>2, <2>4, <2>5
<1>5. QED
  BY <1>1, <1>2, <1>3, <1>4, Stayed

(* A piece of an answer arrives. *)
LEMMA ArrivesInv ==
    ASSUME IInv, Arrives
    PROVE  IInv'
<1>1. /\ open /\ flying # <<>>
      /\ arrived' = Append(arrived, Head(flying)) /\ flying' = Tail(flying)
      /\ UNCHANGED <<at, lookups, open, owed, isConnected, took, stor, split, late, result, antilock>>
  BY DEF Arrives
<1>2. /\ pc = "upload" /\ pc' = pc /\ step' = step /\ phase' = phase
      /\ phase \in {"send", "wait"} /\ (phase = "wait" => Script[step] \notin {"data", "Write"})
  BY <1>1 DEF IInv, Types, TypeOK, at
<1>3. stor' \in BOOLEAN /\ split' \in BOOLEAN /\ open' \in BOOLEAN
  BY <1>1 DEF IInv, Types
<1>4. ASSUME ~split' PROVE ~split /\ Upload'
  <2>1. ~split /\ Upload
    BY <1>1, <1>2, <1>4 DEF IInv
  <2>2. /\ In("STOR")' <=> In("STOR")
        /\ In("Write")' <=> In("Write")
        /\ In("CloseFile")' <=> In("CloseFile")
    BY <1>2 DEF In
  <2>3. CASE phase = "send"
    BY <1>1, <1>2, <2>1, <2>2, <2>3 DEF Upload, NothingPending
  <2>4. CASE phase = "wait"
    <3>1. PICK p \in Piece : owed = <<>> /\ arrived = <<>> /\ flying = <<p>> /\ OwnPiece(p)
      BY <1>1, <2>1, <2>4 DEF Upload, OneAnswer, NothingPending
    <3>2. owed' = <<>> /\ flying' = <<>> /\ arrived' = <<p>>
      BY <1>1, <3>1, Single
    <3>3. OwnPiece(p)'
      BY <1>1, <1>2, <2>2, <3>1 DEF OwnPiece
    <3>4. OneAnswer'
      BY <3>2, <3>3 DEF OneAnswer
    <3>5. QED
      BY <1>1, <1>2, <2>1, <2>2, <2>4, <3>4 DEF Upload
  <2>5. QED
    BY <1>2, <2>3, <2>4
<1>5. QED
  BY <1>1, <1>2, <1>3, <1>4, Stayed

(* What the connection still held is lost with it. *)
LEMMA ServerClosesInv ==
    ASSUME IInv, ServerCloses
    PROVE  IInv'
<1>1. /\ open' = FALSE /\ owed' = <<>> /\ flying' = <<>>
      /\ UNCHANGED <<at, lookups, arrived, isConnected, took, stor, split, late, result, antilock>>
  BY DEF ServerCloses
<1>2. pc' = pc /\ step' = step /\ phase' = phase
  BY <1>1 DEF at
<1>3. /\ In("STOR")' <=> In("STOR")
      /\ In("Write")' <=> In("Write")
      /\ In("CloseFile")' <=> In("CloseFile")
  BY <1>2 DEF In
<1>4. ASSUME ~split, pc = "upload" PROVE Upload'
  <2>1. Upload
    BY <1>4 DEF IInv
  <2>2. OneAnswer => OneAnswer'
    <3>1. \A p : OwnPiece(p) => OwnPiece(p)'
      BY <1>1, <1>2, <1>3 DEF OwnPiece
    <3>2. QED
      BY <1>1, <3>1 DEF OneAnswer, NothingPending
  <2>3. NothingPending => NothingPending'
    BY <1>1 DEF NothingPending
  <2>4. QED
    BY <1>1, <1>2, <1>3, <2>1, <2>2, <2>3 DEF Upload
<1>5. Lookup' /\ queries' = queries /\ done' = done /\ spoilt' = spoilt /\ clean' = clean
              /\ name' = name /\ addr' = addr
  BY <1>1, <1>2, LookupKept
<1>6. TypeOK'
  BY <1>1, <1>2, <1>5 DEF IInv, Types, TypeOK
<1>7. Types'
  BY <1>1, <1>2, <1>5, <1>6 DEF IInv, Types
<1>8. QED
  BY <1>1, <1>2, <1>4, <1>5, <1>7 DEF IInv, Took, ResultHonest
(* client.connect: a session begins with the greeting the server owes. *)
LEMMA ConnectInv ==
    ASSUME IInv, Connect
    PROVE  IInv'
<1>1. pc = "resolved" /\ UNCHANGED <<lookups, isConnected, took, stor, split, late>>
  BY DEF Connect
<1>2. /\ ~stor /\ ~split /\ ~late /\ took.step = 0 /\ step = 0
      /\ owed = <<>> /\ flying = <<>> /\ arrived = <<>> /\ phase \in {"send", "wait"}
  BY <1>1 DEF IInv, Types, TypeOK
<1>3. CASE name = "ftp" /\ Return("error")
  <2>1. Took'
    BY <1>1, <1>2 DEF Took
  <2>2. QED
    BY <1>1, <1>2, <1>3, <2>1, Returned DEF IInv, Types
<1>4. CASE /\ name = "ftp" /\ addr # None
           /\ pc' = "upload" /\ step' = 1 /\ phase' = "wait" /\ open' = TRUE /\ owed' = <<1>>
           /\ UNCHANGED <<flying, arrived, result, antilock>>
  <2>1. Lookup' /\ queries' = queries /\ done' = done /\ spoilt' = spoilt /\ clean' = clean
                /\ name' = name /\ addr' = addr
    BY <1>1, <1>4, LookupKept
  <2>2. 1 \in Steps /\ Script[1] \notin {"STOR", "Write", "CloseFile", "data"}
    BY ScriptPlaces
  <2>3. TypeOK'
    BY <1>1, <1>4, <2>1, <2>2 DEF IInv, Types, TypeOK
  <2>4. Types'
    BY <1>1, <1>4, <2>1, <2>2, <2>3 DEF IInv, Types
  <2>5. OneAnswer'
    BY <1>2, <1>4, <2>2 DEF OneAnswer, In
  <2>6. Upload' /\ Took'
    BY <1>1, <1>2, <1>4, <2>2, <2>5 DEF Upload, In, Took
  <2>7. QED
    BY <1>4, <2>1, <2>4, <2>6 DEF IInv, ResultHonest
<1>5. CASE name # "ftp" /\ pc' = "rest" /\ UNCHANGED <<step, phase, net, result, antilock>>
  <2>1. Lookup' /\ queries' = queries /\ done' = done /\ spoilt' = spoilt /\ clean' = clean
                /\ name' = name /\ addr' = addr
    BY <1>1, <1>5, LookupKept
  <2>2. open' = open /\ owed' = owed /\ flying' = flying /\ arrived' = arrived
    BY <1>5 DEF net
  <2>3. TypeOK'
    BY <1>1, <1>5, <2>1, <2>2 DEF IInv, Types, TypeOK
  <2>4. Types'
    BY <1>1, <1>5, <2>1, <2>2, <2>3 DEF IInv, Types
  <2>5. result' = "none"
    BY <1>1, <1>5 DEF IInv
  <2>6. Took' /\ ResultHonest'
    BY <1>1, <1>2, <2>5 DEF Took, ResultHonest
  <2>7. QED
    BY <1>5, <2>1, <2>4, <2>6 DEF IInv
<1>6. QED
  BY <1>3, <1>4, <1>5 DEF Connect

(* A command is sent; before it, nothing is pending. *)
LEMMA SendInv ==
    ASSUME IInv, Send \/ CloseFile
    PROVE  IInv'
<1>1. /\ pc = "upload" /\ phase = "send" /\ phase' = "wait"
      /\ Script[step] \notin {"data", "Write"}
      /\ owed' = owed \/ owed' = Append(owed, step)
      /\ UNCHANGED <<pc, step, lookups, open, flying, arrived, isConnected, took, stor, split, late,
                     result, antilock>>
  BY DEF Send, CloseFile, In
<1>2. ASSUME ~split' PROVE ~split /\ Upload'
  <2>1. ~split /\ Upload
    BY <1>1, <1>2 DEF IInv
  <2>2. NothingPending
    BY <1>1, <2>1 DEF Upload, In
  <2>3. In("STOR") => ~stor
    BY <1>1, <2>1, StepPlace DEF Upload, In
  <2>4. owed' = <<>> \/ owed' = <<step>>
    BY <1>1, <2>2, Single DEF NothingPending
  <2>5. /\ In("STOR")' <=> In("STOR")
        /\ In("Write")' <=> In("Write")
        /\ In("CloseFile")' <=> In("CloseFile")
    BY <1>1 DEF In
  <2>6. OneAnswer'
    BY <1>1, <2>2, <2>3, <2>4, <2>5 DEF OneAnswer, NothingPending
  <2>7. QED
    BY <1>1, <2>1, <2>5, <2>6 DEF Upload
<1>3. QED
  BY <1>1, <1>2, Stayed DEF IInv, Types
(* GetFTPAnswer reads the answer of its command and of no other. *)
LEMMA GetFTPAnswerInv ==
    ASSUME IInv, GetFTPAnswer
    PROVE  IInv'
<1>1. PICK code \in Judged(arrived) : \E w \in Verdicts(code, arrived) :
        /\ pc = "upload" /\ phase = "wait" /\ arrived # <<>>
        /\ took' = [step |-> step, text |-> arrived]
        /\ isConnected' = (code = "good")
        /\ Follow(w)
        /\ UNCHANGED <<lookups, stor, split, late>>
  BY DEF GetFTPAnswer
<1>0. PICK v \in Verdicts(code, arrived) : Follow(v)
  BY <1>1
<1>2. isConnected' \in BOOLEAN /\ late' \in BOOLEAN
  BY <1>1 DEF IInv, Types
<1>3. step \in 1 .. 13 /\ step # 12
  BY <1>1, StepPlace
<1>4. ASSUME ~split
      PROVE  /\ owed = <<>> /\ flying = <<>>
             /\ Took'
             /\ step = 11 => (code = "good") = stor
             /\ step = 13 => stor
             /\ step # 13 /\ step # 11 => ~stor
  <2>1. Upload
    BY <1>1, <1>4 DEF IInv
  <2>2. PICK p \in Piece : owed = <<>> /\ flying = <<>> /\ arrived = <<p>> /\ OwnPiece(p)
    BY <1>1, <2>1 DEF Upload, OneAnswer, NothingPending
  <2>3. took'.step = step /\ Len(took'.text) = 1 /\ took'.text[1].step = step
    BY <1>1, <2>2, Single DEF OwnPiece
  <2>4. code = p.code
    BY <2>2, Single DEF Judged, OwnPiece
  <2>5. QED
    BY <1>1, <1>3, <2>1, <2>2, <2>3, <2>4, StepPlace DEF Took, OwnPiece, Upload
<1>5. /\ v \in {"next", "end", "fail"}
      /\ step = 13 <=> v = "end"
      /\ step = 11 => v = "next"
  BY <1>0, <1>1, StepPlace DEF Verdicts
<1>6. CASE v = "next"
  <2>1. NextStep /\ arrived' = <<>> /\ UNCHANGED <<open, owed, flying>>
    BY <1>0, <1>6 DEF Follow
  <2>2. ~split => NothingPending'
    BY <1>4, <2>1 DEF NothingPending
  <2>3. ~split => (step = 11 => IF isConnected' THEN stor ELSE stor => late')
    BY <1>1, <1>4
  <2>4. open' \in BOOLEAN
    BY <2>1 DEF IInv, Types
  <2>5. QED
    BY <1>1, <1>2, <1>3, <1>4, <1>5, <1>6, <2>1, <2>2, <2>3, <2>4, WentOn
<1>7. CASE v = "end"
  BY <1>0, <1>1, <1>2, <1>4, <1>5, <1>7, Returned DEF Follow
<1>8. CASE v = "fail"
  BY <1>0, <1>1, <1>2, <1>4, <1>5, <1>8, Returned DEF Follow
<1>9. QED
  BY <1>5, <1>6, <1>7, <1>8

(* A command whose answer does not come. *)
LEMMA TimeoutInv ==
    ASSUME IInv, Timeout
    PROVE  IInv'
<1>1. PICK v \in Verdicts("bad", <<>>) :
        /\ pc = "upload" /\ phase = "wait" /\ arrived = <<>>
        /\ isConnected' = FALSE
        /\ late' = (late \/ In("STOR"))
        /\ Follow(v)
        /\ UNCHANGED <<lookups, took, stor, split>>
  BY DEF Timeout
<1>2. isConnected' \in BOOLEAN /\ late' \in BOOLEAN
  BY <1>1
<1>3. step \in 1 .. 13 /\ step # 12 /\ (In("STOR") <=> step = 11)
  BY <1>1, StepPlace
<1>4. ~split => /\ Took'
                /\ step = 13 => stor
                /\ step # 13 /\ step # 11 => ~stor
  BY <1>1, <1>3, StepPlace DEF IInv, Upload, Took
<1>5. /\ step = 13 => v = "end"
      /\ step = 11 => v = "next" /\ late'
      /\ step # 13 /\ step # 11 => v = "fail"
  <2>1. In("STOR") => late'
    BY <1>1
  <2>2. /\ step = 13 => v = "end"
        /\ step = 11 => v = "next"
        /\ step # 13 /\ step # 11 => v = "fail"
    BY <1>1, StepPlace DEF Verdicts
  <2>3. QED
    BY <1>3, <2>1, <2>2
<1>6. CASE step = 11
  <2>1. NextStep /\ UNCHANGED <<open, owed, flying>>
    BY <1>1, <1>5, <1>6 DEF Follow
  <2>2. open' \in BOOLEAN
    BY <2>1 DEF IInv, Types
  <2>3. QED
    BY <1>1, <1>2, <1>4, <1>5, <1>6, <2>1, <2>2, WentOn
<1>7. CASE step = 13
  BY <1>1, <1>2, <1>4, <1>5, <1>7, Returned DEF Follow
<1>8. CASE step # 11 /\ step # 13
  BY <1>1, <1>2, <1>4, <1>5, <1>8, Returned DEF Follow
<1>9. QED
  BY <1>6, <1>7, <1>8

(* The steps of the data connection. *)
LEMMA DataInv ==
    ASSUME IInv, ConnectData \/ Write
    PROVE  IInv'
<1>1. /\ pc = "upload" /\ step \in {7, 10, 12}
      /\ UNCHANGED <<lookups, isConnected, took, stor, split, late>>
      /\ \/ NextStep /\ UNCHANGED net /\ (step = 12 => isConnected)
         \/ Return("error") /\ (step = 12 => ~isConnected)
  <2>1. pc = "upload"
    BY DEF ConnectData, Write, In
  <2>2. (ConnectData => step \in {7, 10}) /\ (Write => step = 12)
    BY <2>1, StepPlace DEF ConnectData, Write
  <2>3. QED
    BY <2>1, <2>2 DEF ConnectData, Write
<1>2. isConnected' \in BOOLEAN /\ late' \in BOOLEAN
  BY <1>1 DEF IInv, Types
<1>3. ASSUME ~split
      PROVE  /\ Took' /\ phase = "send"
             /\ NothingPending \/ (step = 12 /\ ~isConnected)
             /\ step = 12 => IF isConnected THEN stor ELSE stor => late
             /\ step # 12 => ~stor
  BY <1>1, <1>3, StepPlace DEF IInv, Upload, Took
<1>4. CASE NextStep /\ UNCHANGED net /\ (step = 12 => isConnected)
  <2>1. open' \in BOOLEAN /\ UNCHANGED <<owed, flying, arrived>>
    BY <1>4 DEF IInv, Types, net
  <2>2. ~split => NothingPending' /\ (step = 12 => stor)
    BY <1>3, <1>4, <2>1 DEF NothingPending
  <2>3. QED
    BY <1>1, <1>2, <1>3, <1>4, <2>1, <2>2, WentOn
<1>5. CASE Return("error") /\ (step = 12 => ~isConnected)
  BY <1>1, <1>2, <1>3, <1>5, Returned
<1>6. QED
  BY <1>1, <1>4, <1>5

(* Every step keeps the inductive invariant. *)
LEMMA NextInv == IInv /\ [Next]_vars => IInv'
<1> SUFFICES ASSUME IInv, [Next]_vars PROVE IInv'
  OBVIOUS
<1>1. CASE Client
  BY <1>1, LookupEndsInv, ConnectInv, SendInv, GetFTPAnswerInv, TimeoutInv, DataInv DEF Client
<1>2. CASE UNCHANGED vars
  <2>1. UNCHANGED <<pc, step, phase, lookups, session, net, result, antilock>>
    BY <1>2 DEF vars, at, session
  <2>2. /\ open' = open /\ owed' = owed /\ flying' = flying /\ arrived' = arrived
        /\ isConnected' = isConnected /\ took' = took /\ stor' = stor /\ split' = split /\ late' = late
    BY <2>1 DEF session, net
  <2>3. Lookup' /\ queries' = queries /\ done' = done /\ spoilt' = spoilt /\ clean' = clean
                /\ name' = name /\ addr' = addr
    BY <2>1, LookupKept
  <2>4. TypeOK'
    BY <2>1, <2>2, <2>3 DEF IInv, Types, TypeOK
  <2>5. Types'
    BY <2>1, <2>2, <2>3, <2>4 DEF IInv, Types
  <2>6. QED
    BY <2>1, <2>2, <2>3, <2>5
       DEF IInv, Took, ResultHonest, Upload, OneAnswer, NothingPending, OwnPiece, In
<1>3. CASE Arrives \/ ServerCloses
  BY <1>3, ArrivesInv, ServerClosesInv
<1>4. QED
  BY <1>1, <1>2, <1>3, HostByNameInv, CallbackInv, ServerAnswersInv DEF Next

-----------------------------------------------------------------------------
(* The inductive invariant holds in every reachable state. *)
THEOREM FtpInvariant == Spec => []IInv
<1>1. QED
  BY InitInv, NextInv, PTL DEF Spec

(* A lookup that began with nothing of earlier ones left ends with its own
   answer, or without one after all its time. *)
THEOREM LookupFindsName == Spec => []NameFound
<1>1. IInv => NameFound
  BY DEF IInv, Lookup
<1>2. QED
  BY <1>1, FtpInvariant, PTL

(* As long as answers arrive whole, each command is judged by its own answer;
   no answer outlives its session, and the watchdog counts again after it. *)
THEOREM CommandsGetTheirAnswers == Spec => []AnswerOfCommand
<1>1. IInv => AnswerOfCommand
  BY DEF IInv, Types, Took, AnswerOfCommand
<1>2. QED
  BY <1>1, FtpInvariant, PTL

(* ... and what upload_transponder returns is what became of the file. *)
THEOREM UploadResultIsHonest == Spec => []ResultHonest
<1>1. IInv => ResultHonest
  BY DEF IInv
<1>2. QED
  BY <1>1, FtpInvariant, PTL
=============================================================================
