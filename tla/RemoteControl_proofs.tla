------------------------ MODULE RemoteControl_proofs -------------------------
(***************************************************************************)
(* Proofs about modules Transponder and RemoteControl, for any number of   *)
(* guests, calls, keys and seconds, and for log files of any length.       *)
(***************************************************************************)
EXTENDS RemoteControl, FunctionTheorems, FiniteSetTheorems, SequenceTheorems,
        NaturalsInduction, WellFoundedInduction, TLAPS

(* A line that has its key is one of the requests as, and one that has its
   time and an answer has one of the answers an. *)
Good(l, as, an) ==
    /\ l \in Line
    /\ l.key # NoKey => [key |-> l.key, time |-> l.time, resp |-> NoResp] \in as
    /\ l.time # NoTime /\ l.resp # NoResp => [time |-> l.time, resp |-> l.resp] \in an

(* The log file, and what a process is going to write into it. *)
Text(s, as, an) ==
    /\ s \in Seq(Entry)
    /\ \A i \in 1 .. Len(s) : Good(s[i], as, an) \/ (i = 1 /\ s[i] \in {Header, Broken})

(* The file is missing or a text. *)
FileOK == file = NoFile \/ Text(file, asked, answers)

(* What holds of every process, ... *)
Fit(r, as, an) ==
    /\ r \in Process
    /\ Good(r.line, as, an) /\ (r.reply \in Line => Good(r.reply, as, an))
    /\ Text(r.lines, as, an)
    /\ r.pos > 1 /\ r.lines # <<>> => Good(r.lines[1], as, an)
    /\ r.next \in {"idle", "save", "replace", "check", "wait", "done"}
    /\ r.pc # "write" => r.pos <= 1
    /\ r.pc = "lock" => r.pos = 1
    /\ r.pc = "write" => r.lines # <<>>
    /\ "replace" \in {r.pc, r.next} => r.ix >= 2

(* ... of that of a guest and of that of a call of the device. *)
OfGuest(r) ==
    /\ r.op = "transfer"
    /\ {r.pc, r.next} \cap {"sent", "receive", "find", "replace"} = {}
    /\ r.pc \notin {"idle", "done"} => r.line.time # NoTime
    /\ r.reply # NoReply => r.reply \in Line /\ r.reply.time # NoTime /\ r.reply.resp # NoResp

OfCall(r) ==
    /\ r.pc \notin {"idle", "done"} => r.op # "transfer"
    /\ {r.pc, r.next} \cap {"save", "wait"} = {}
    /\ r.reply \in Line => r.reply.resp = NoResp

ProcOK(p, r, as, an) == Fit(r, as, an) /\ (p \in Guests => OfGuest(r)) /\ (p \in Calls => OfCall(r))

(* Every process is what it may be. *)
ProcsOK ==
    /\ php = [p \in Procs |-> php[p]]
    /\ \A p \in Procs : ProcOK(p, php[p], asked, answers)

(* A process that has the file f open stands in it or right behind it, and
   one at a time writes into the file that everybody sees. *)
Placed(r, f) ==
    r.pc \in {"lock", "write"} /\ ~r.lost =>
        f # NoFile /\ (r.pc = "write" => r.pos <= Len(f) + 1)

Writes(r) == r.pc = "write" /\ ~r.lost

WritersOK ==
    /\ \A p \in Procs : Placed(php[p], file)
    /\ \A p, q \in Procs : Writes(php[p]) /\ Writes(php[q]) => p = q

(* The clock of the device is never ahead of the server's. *)
ClockOK ==
    /\ now \in Time
    /\ localUnixtime \in Nat /\ unx_ms \in Nat
    /\ localUnixtime <= unx_ms /\ unx_ms <= now

(* The call for the time is on its way or has the time of a moment up to n. *)
TimeCall(r, n) ==
    /\ r.pc \in {"sent", "done"}
    /\ r.pc = "sent" => r.op = "get_unixtime" /\ r.heard /\ r.reply = NoReply
    /\ r.reply # NoReply => r.reply \in Line /\ r.reply.time \in Time /\ r.reply.time <= n

(* Only the call for the time matters while it is under way. *)
CallOK ==
    /\ dpc \in DPC
    /\ call \in Calls \cup {NoCall}
    /\ dpc = "refresh" => call \in Calls /\ TimeCall(php[call], now)

(* The histories; a refusal was due when it was given. *)
HistoryOK ==
    /\ asked \subseteq Line
    /\ answers \subseteq [time : Time, resp : Resps]
    /\ RefusedOnlyWhenOld

(* The inductive invariant: of the server and of the device. *)
ServerOK == FileOK /\ ProcsOK /\ WritersOK
DeviceOK == ClockOK /\ CallOK /\ HistoryOK

IInv == ServerOK /\ DeviceOK
-----------------------------------------------------------------------------
(* Lines and texts. *)

(* What the assumptions say of the values that stand for something missing. *)
LEMMA Values ==
    /\ Blank \in Line /\ Line \subseteq Entry /\ Header \in Entry /\ Broken \in Entry
    /\ NoReply \notin Line /\ Empty \notin Line /\ Header \notin Line /\ Broken \notin Line
    /\ NoFile \notin Seq(Entry) /\ NoFile # <<>>
    /\ NoTime \notin Time /\ Time \subseteq Nat
<1>1. Blank \in Line
  BY DEF Blank, Line
<1>2. Line \subseteq Entry /\ Header \in Entry /\ Broken \in Entry
  BY DEF Entry
<1>3. NoFile \notin Seq(Entry) /\ <<>> \in Seq(Entry)
  BY FieldAssumption
<1>4. NoReply \notin Line /\ Empty \notin Line /\ Header \notin Line /\ Broken \notin Line
  BY FieldAssumption
<1>5. Time \subseteq Nat
  BY FileAssumption DEF Time
<1>6. NoTime \notin Time
  BY <1>5, FileAssumption
<1>7. QED
  BY <1>1, <1>2, <1>3, <1>4, <1>5, <1>6

(* A line without a key and without an answer is always good. *)
LEMMA BlankGood ==
    ASSUME NEW as, NEW an
    PROVE  /\ Good(Blank, as, an)
           /\ \A t \in Time : [Blank EXCEPT !.time = t] \in Line
           /\ \A t \in Time : Good([Blank EXCEPT !.time = t], as, an)
BY DEF Good, Blank, Line

(* The histories grow. *)
LEMMA GoodGrows ==
    ASSUME NEW as, NEW an, NEW as2, NEW an2, as \subseteq as2, an \subseteq an2,
           NEW l, Good(l, as, an)
    PROVE  Good(l, as2, an2)
BY DEF Good

(* What was a text stays one. *)
LEMMA TextGrows ==
    ASSUME NEW as, NEW an, NEW as2, NEW an2, as \subseteq as2, an \subseteq an2,
           NEW s, Text(s, as, an)
    PROVE  Text(s, as2, an2)
BY GoodGrows DEF Text

(* So does what holds of a process. *)
LEMMA ProcGrows ==
    ASSUME NEW as, NEW an, NEW as2, NEW an2, as \subseteq as2, an \subseteq an2,
           NEW p, NEW r, ProcOK(p, r, as, an)
    PROVE  ProcOK(p, r, as2, an2)
<1>1. \A l : Good(l, as, an) => Good(l, as2, an2)
  BY GoodGrows
<1>2. Text(r.lines, as2, an2)
  BY TextGrows DEF ProcOK, Fit
<1>3. QED
  BY <1>1, <1>2 DEF ProcOK, Fit

(* What is left of a line is good when the line was. *)
LEMMA TornGood ==
    ASSUME NEW as, NEW an, NEW l, Good(l, as, an) \/ l \in {Header, Broken}, NEW t \in Torn(l)
    PROVE  Good(t, as, an)
<1>1. CASE l \in {Header, Broken}
  BY <1>1, Values, BlankGood DEF Torn
<1>2. CASE Good(l, as, an)
  <2>1. l \in Line
    BY <1>2 DEF Good
  <2>2. \/ t = [l EXCEPT !.key = NoKey]
        \/ t = [l EXCEPT !.key = NoKey, !.time = NoTime]
        \/ t = Blank
    BY <2>1 DEF Torn
  <2>3. CASE t = [l EXCEPT !.key = NoKey]
    BY <1>2, <2>1, <2>3 DEF Good, Line
  <2>4. CASE t = [l EXCEPT !.key = NoKey, !.time = NoTime]
    BY <1>2, <2>1, <2>4 DEF Good, Line
  <2>5. QED
    BY <2>2, <2>3, <2>4, BlankGood
<1>3. QED
  BY <1>1, <1>2

(* A line is added. *)
LEMMA AppendText ==
    ASSUME NEW as, NEW an, NEW s, Text(s, as, an), NEW l, Good(l, as, an)
    PROVE  Text(Append(s, l), as, an)
<1>1. s \in Seq(Entry) /\ Len(s) \in Nat /\ l \in Entry
  BY Values DEF Text, Good
<1>2. PICK u : u = Append(s, l)
  OBVIOUS
<1>3. /\ u \in Seq(Entry) /\ Len(u) = Len(s) + 1 /\ u[Len(s) + 1] = l
      /\ \A i \in 1 .. Len(s) : u[i] = s[i]
  BY <1>1, <1>2
<1>4. \A i \in 1 .. Len(u) : i = Len(s) + 1 \/ i \in 1 .. Len(s)
  BY <1>1, <1>3
<1>5. Text(u, as, an)
  BY <1>3, <1>4 DEF Text
<1>6. QED
  BY <1>2, <1>5

(* A text is cut: the first line stays, lines in between go. *)
LEMMA CutText ==
    ASSUME NEW as, NEW an, NEW s, Text(s, as, an)
    PROVE  Text(Cut(s), as, an)
<1>1. s \in Seq(Entry) /\ Len(s) \in Nat /\ maxlogs \in Nat
  BY FileAssumption DEF Text
<1>2. PICK k : k = IF Len(s) - maxlogs <= 0 THEN 0
                   ELSE IF 2 * (Len(s) - maxlogs) <= Len(s) THEN Len(s) - maxlogs ELSE Len(s) \div 2
  OBVIOUS
<1>3. k \in Nat /\ 2 * k <= Len(s)
  BY <1>1, <1>2
<1>4. PICK u : u = [n \in 1 .. Len(s) - k |-> IF n <= k THEN s[2 * n - 1] ELSE s[n + k]]
  OBVIOUS
<1>5. Cut(s) = u
  BY <1>2, <1>4 DEF Cut
<1>6. \A n \in 1 .. Len(s) - k :
        \E i \in 1 .. Len(s) : u[n] = s[i] /\ (i = 1 => n = 1)
  <2> SUFFICES ASSUME NEW n \in 1 .. Len(s) - k
               PROVE  \E i \in 1 .. Len(s) : u[n] = s[i] /\ (i = 1 => n = 1)
    OBVIOUS
  <2>1. CASE n <= k
    <3>1. 2 * n - 1 \in 1 .. Len(s) /\ (2 * n - 1 = 1 => n = 1)
      BY <1>1, <1>3, <2>1
    <3>2. u[n] = s[2 * n - 1]
      BY <1>4, <2>1
    <3>3. QED
      BY <3>1, <3>2
  <2>2. CASE ~(n <= k)
    <3>1. n + k \in 1 .. Len(s) /\ (n + k = 1 => n = 1)
      BY <1>1, <1>3, <2>2
    <3>2. u[n] = s[n + k]
      BY <1>4, <2>2
    <3>3. QED
      BY <3>1, <3>2
  <2>3. QED
    BY <2>1, <2>2
<1>7. \A i \in 1 .. Len(s) : s[i] \in Entry
  BY <1>1
<1>8. u \in Seq(Entry) /\ Len(u) = Len(s) - k
  <2>1. Len(s) - k \in Nat
    BY <1>1, <1>3
  <2>2. \A n \in 1 .. Len(s) - k : u[n] \in Entry
    BY <1>6, <1>7
  <2>3. u \in [1 .. Len(s) - k -> Entry]
    BY <1>4, <2>2
  <2>4. QED
    BY <2>1, <2>3
<1>9. Text(u, as, an)
  BY <1>6, <1>8 DEF Text
<1>10. QED
  BY <1>5, <1>9

(* A line of a text is replaced, behind the first one. *)
LEMMA ReplacedText ==
    ASSUME NEW as, NEW an, NEW s, Text(s, as, an), NEW l, Good(l, as, an),
           NEW i \in 2 .. Len(s)
    PROVE  Text([s EXCEPT ![i] = l], as, an)
<1>1. s \in Seq(Entry) /\ l \in Entry /\ i \in 1 .. Len(s) /\ i # 1
  BY Values DEF Text, Good
<1>2. PICK u : u = [s EXCEPT ![i] = l]
  OBVIOUS
<1>3. /\ u \in Seq(Entry) /\ Len(u) = Len(s)
      /\ \A j \in 1 .. Len(s) : u[j] = IF j = i THEN l ELSE s[j]
  BY <1>1, <1>2, ExceptSeq
<1>4. Text(u, as, an)
  BY <1>1, <1>3 DEF Text
<1>5. QED
  BY <1>2, <1>4

(* Lines that are all good. *)
AllGood(t, as, an) == t \in Seq(Entry) /\ \A i \in 1 .. Len(t) : Good(t[i], as, an)

(* The end of a text from its second line on. *)
LEMMA RestGood ==
    ASSUME NEW as, NEW an, NEW s, Text(s, as, an), NEW j \in Nat, j >= 2
    PROVE  AllGood(SubSeq(s, j, Len(s)), as, an)
<1>1. s \in Seq(Entry) /\ Len(s) \in Nat
  BY DEF Text
<1>2. PICK u : u = SubSeq(s, j, Len(s))
  OBVIOUS
<1>3. CASE j > Len(s)
  <2>1. u = <<>>
    BY <1>1, <1>2, <1>3
  <2>2. AllGood(u, as, an)
    BY <2>1 DEF AllGood
  <2>3. QED
    BY <1>2, <2>2
<1>4. CASE j <= Len(s)
  <2>1. /\ u \in Seq(Entry) /\ Len(u) = Len(s) - j + 1
        /\ \A i \in 1 .. Len(s) - j + 1 : u[i] = s[i + j - 1]
    BY <1>1, <1>2, <1>4
  <2>2. \A i \in 1 .. Len(s) - j + 1 : i + j - 1 \in 1 .. Len(s) /\ i + j - 1 # 1
    BY <1>1, <1>4
  <2>3. AllGood(u, as, an)
    BY <2>1, <2>2 DEF AllGood, Text
  <2>4. QED
    BY <1>2, <2>3
<1>5. j > Len(s) \/ j <= Len(s)
  BY <1>1
<1>6. QED
  BY <1>3, <1>4, <1>5

(* What remains to be written when one line is written. *)
LEMMA TailGood ==
    ASSUME NEW as, NEW an, NEW s, Text(s, as, an), s # <<>>
    PROVE  AllGood(Tail(s), as, an) /\ Text(Tail(s), as, an) /\ Len(Tail(s)) = Len(s) - 1
<1>1. s \in Seq(Entry) /\ Len(s) \in Nat /\ Len(s) > 0
  BY DEF Text
<1>2. PICK u : u = Tail(s)
  OBVIOUS
<1>3. u \in Seq(Entry) /\ Len(u) = Len(s) - 1 /\ \A i \in 1 .. Len(u) : u[i] = s[i + 1]
  BY <1>1, <1>2
<1>4. \A i \in 1 .. Len(u) : i + 1 \in 1 .. Len(s) /\ i + 1 # 1
  BY <1>1, <1>3
<1>5. AllGood(u, as, an)
  BY <1>3, <1>4 DEF AllGood, Text
<1>6. Text(u, as, an)
  BY <1>5 DEF AllGood, Text
<1>7. QED
  BY <1>2, <1>3, <1>5, <1>6

(* An older text that shows behind what is written into it is good. *)
LEMMA TailsGood ==
    ASSUME NEW as, NEW an, Text(file, as, an), NEW n \in Nat, n >= 1, NEW l, NEW t \in Tails(n, l)
    PROVE  AllGood(t, as, an)
<1>1. file \in Seq(Entry) /\ Len(file) \in Nat
  BY DEF Text
<1>2. \/ \E j \in n + 1 .. Len(file) + 1 : t = SubSeq(file, j, Len(file))
      \/ t = <<>>
      \/ \E j \in n .. Len(file) : \E v \in Torn(file[j]) : t = <<v>> \o SubSeq(file, j + 1, Len(file))
  <2>1. CASE n <= Len(file) /\ file[n] = l /\ (l = Header \/ (l \in Line /\ Whole(l)))
    <3>1. t = SubSeq(file, n + 1, Len(file))
      BY <2>1 DEF Tails
    <3>2. n + 1 \in n + 1 .. Len(file) + 1
      BY <1>1, <2>1
    <3>3. QED
      BY <3>1, <3>2
  <2>2. CASE ~(n <= Len(file) /\ file[n] = l /\ (l = Header \/ (l \in Line /\ Whole(l))))
    <3>1. t \in {<<>>} \cup {SubSeq(file, j, Len(file)) : j \in n + 1 .. Len(file)}
                \cup UNION {{<<v>> \o SubSeq(file, j + 1, Len(file)) : v \in Torn(file[j])} :
                            j \in n .. Len(file)}
      BY <2>2, Zenon DEF Tails
    <3>2. n + 1 .. Len(file) \subseteq n + 1 .. Len(file) + 1
      BY <1>1
    <3>3. QED
      BY <3>1, <3>2, Zenon
  <2>3. QED
    BY <2>1, <2>2
<1>3. CASE \E j \in n + 1 .. Len(file) + 1 : t = SubSeq(file, j, Len(file))
  <2>1. PICK j \in n + 1 .. Len(file) + 1 : t = SubSeq(file, j, Len(file))
    BY <1>3
  <2>2. j \in Nat /\ j >= 2
    BY <1>1
  <2>3. QED
    BY <2>1, <2>2, RestGood
<1>4. CASE t = <<>>
  BY <1>4 DEF AllGood
<1>5. CASE \E j \in n .. Len(file) : \E v \in Torn(file[j]) : t = <<v>> \o SubSeq(file, j + 1, Len(file))
  <2>0. PICK j \in n .. Len(file) : \E v \in Torn(file[j]) : t = <<v>> \o SubSeq(file, j + 1, Len(file))
    BY <1>5
  <2>1. PICK v \in Torn(file[j]) : t = <<v>> \o SubSeq(file, j + 1, Len(file))
    BY <2>0
  <2>2. j \in 1 .. Len(file) /\ j + 1 \in Nat /\ j + 1 >= 2
    BY <1>1
  <2>3. Good(v, as, an)
    BY <2>2, TornGood DEF Text
  <2>4. PICK u : u = SubSeq(file, j + 1, Len(file))
    OBVIOUS
  <2>5. AllGood(u, as, an)
    BY <2>2, <2>4, RestGood
  <2>6. v \in Entry
    BY <2>3, Values DEF Good
  <2>7. /\ t \in Seq(Entry) /\ Len(t) = Len(u) + 1 /\ t[1] = v
        /\ \A i \in 1 .. Len(t) : i # 1 => i - 1 \in 1 .. Len(u) /\ t[i] = u[i - 1]
    BY <2>1, <2>4, <2>5, <2>6 DEF AllGood
  <2>8. QED
    BY <2>3, <2>5, <2>7 DEF AllGood
<1>6. QED
  BY <1>2, <1>3, <1>4, <1>5
-----------------------------------------------------------------------------
(* Indices of a file. *)

(* A set of natural numbers that is not empty has a least element. *)
LEMMA Least ==
    ASSUME NEW S, S \subseteq Nat, S # {}
    PROVE  \E i \in S : \A j \in S : i <= j
<1> DEFINE R == OpToRel(<, Nat)
<1>1. IsWellFoundedOn(R, Nat)
  BY NatLessThanWellFounded
<1>2. \A x, y \in Nat : x < y => <<x, y>> \in R
  BY DEF OpToRel
<1> HIDE DEF R
<1>3. PICK x \in S : \A y \in S : ~(<<y, x>> \in R)
  BY <1>1, WFMin
<1>4. \A y \in S : ~(y < x)
  BY <1>2, <1>3
<1>5. \A y \in S : x <= y
  BY <1>4
<1>6. QED
  BY <1>5

(* The search loops of the script stop at a line they look for. *)
LEMMA LowestIn ==
    ASSUME NEW S, S \subseteq Nat, S # {}
    PROVE  Lowest(S) \in S
<1>1. \E i \in S : \A j \in S : i <= j
  BY Least
<1>2. QED
  BY <1>1 DEF Lowest

(* Among the places that count there is an n-th for every n up to their
   number. *)
LEMMA Ranks ==
    ASSUME NEW m \in Nat, NEW F \in SUBSET (1 .. m)
    PROVE  /\ IsFiniteSet(F) /\ Cardinality(F) \in Nat /\ Cardinality(F) <= m
           /\ \A n \in 1 .. Cardinality(F) : \E i \in F : Cardinality({j \in F : j <= i}) = n
<1> DEFINE Up(i) == {j \in F : j <= i}
           R == 1 .. Cardinality(F)
           rank == [i \in F |-> Cardinality(Up(i))]
<1>1. IsFiniteSet(1 .. m) /\ Cardinality(1 .. m) = m
  BY FS_Interval
<1>2. IsFiniteSet(F) /\ Cardinality(F) \in Nat /\ Cardinality(F) <= m
  BY <1>1, FS_Subset, FS_CardinalityType
<1>3. \A i \in F : /\ Up(i) \in SUBSET F /\ i \in Up(i)
                   /\ IsFiniteSet(Up(i)) /\ Cardinality(Up(i)) \in R
  <2> SUFFICES ASSUME NEW i \in F
               PROVE  /\ Up(i) \in SUBSET F /\ i \in Up(i)
                      /\ IsFiniteSet(Up(i)) /\ Cardinality(Up(i)) \in R
    OBVIOUS
  <2>1. Up(i) \in SUBSET F /\ i \in Up(i)
    OBVIOUS
  <2>2. IsFiniteSet(Up(i)) /\ Cardinality(Up(i)) <= Cardinality(F)
    BY <1>2, <2>1, FS_Subset
  <2>3. Cardinality(Up(i)) \in Nat
    BY <2>2, FS_CardinalityType
  <2>4. Cardinality(Up(i)) # 0
    BY <2>1, <2>2, FS_EmptySet
  <2>5. QED
    BY <1>2, <2>1, <2>2, <2>3, <2>4
<1>4. \A i, k \in F : i < k => Cardinality(Up(i)) # Cardinality(Up(k))
  <2> SUFFICES ASSUME NEW i \in F, NEW k \in F, i < k
               PROVE  Cardinality(Up(i)) # Cardinality(Up(k))
    OBVIOUS
  <2>1. \A j \in F : j \in Int /\ (j <= i => j <= k)
    OBVIOUS
  <2>2. k <= k /\ ~(k <= i)
    BY <2>1
  <2>3. Up(i) \in SUBSET Up(k) /\ k \in Up(k) /\ k \notin Up(i)
    BY <2>1, <2>2
  <2> HIDE DEF Up
  <2>4. QED
    BY <1>3, <2>3, FS_Subset
<1>5. rank \in Injection(F, R)
  <2>1. rank \in [F -> R]
    BY <1>3
  <2>2. \A i, k \in F : rank[i] = rank[k] => i = k
    BY <1>4
  <2>3. QED
    BY <2>1, <2>2 DEF Injection, IsInjective
<1>6. IsFiniteSet(R) /\ Cardinality(R) = Cardinality(F)
  BY <1>2, FS_Interval
<1> HIDE DEF R, rank
<1>7. rank \in Surjection(F, R)
  BY <1>5, <1>6, FS_Injection
<1>8. QED
  BY <1>2, <1>7 DEF Surjection, rank, R

(* The lines that are whole make a text again. *)
LEMMA KeptText ==
    ASSUME NEW as, NEW an, Text(file, as, an), file # <<>>
    PROVE  Text(Kept, as, an)
<1> DEFINE W == {i \in Requests : Whole(file[i])}
           At(n) == CHOOSE i \in W : Cardinality({j \in W : j <= i}) = n
           rest == [n \in 1 .. Cardinality(W) |-> file[At(n)]]
<1>1. file \in Seq(Entry) /\ Len(file) \in Nat /\ Len(file) > 0
  BY DEF Text
<1>2. Kept = <<file[1]>> \o rest
  BY DEF Kept
<1>3. W \in SUBSET (1 .. Len(file)) /\ \A i \in W : i # 1
  BY <1>1 DEF Requests
<1> HIDE DEF W
<1>4. /\ Cardinality(W) \in Nat
      /\ \A n \in 1 .. Cardinality(W) : \E i \in W : Cardinality({j \in W : j <= i}) = n
  BY <1>1, <1>3, Ranks
<1>5. \A n \in 1 .. Cardinality(W) : At(n) \in W
  BY <1>4
<1> HIDE DEF At
<1>6. \A n \in 1 .. Cardinality(W) : Good(file[At(n)], as, an)
  BY <1>1, <1>3, <1>5 DEF Text
<1>7. \A n \in 1 .. Cardinality(W) : file[At(n)] \in Entry
  <2>1. \A n \in 1 .. Cardinality(W) : At(n) \in 1 .. Len(file)
    BY <1>3, <1>5
  <2>2. QED
    BY <1>1, <2>1, ElementOfSeq
<1>8. rest \in [1 .. Cardinality(W) -> Entry]
  BY <1>7
<1>9. rest \in Seq(Entry) /\ Len(rest) = Cardinality(W)
  BY <1>4, <1>8
<1>10. \A n \in 1 .. Cardinality(W) : Good(rest[n], as, an)
  BY <1>6
<1> HIDE DEF rest
<1>11. PICK h : h = <<file[1]>>
  OBVIOUS
<1>12. h \in Seq(Entry) /\ Len(h) = 1 /\ h[1] = file[1] /\ Len(rest) \in Nat
  BY <1>1, <1>4, <1>9, <1>11
<1>13. PICK u : u = h \o rest
  OBVIOUS
<1>14. /\ u \in Seq(Entry) /\ Len(u) = Len(h) + Len(rest)
       /\ \A i \in 1 .. Len(h) + Len(rest) : u[i] = IF i <= Len(h) THEN h[i] ELSE rest[i - Len(h)]
  BY <1>9, <1>12, <1>13, ConcatProperties
<1>15. u \in Seq(Entry) /\ Len(u) = 1 + Len(rest) /\ u[1] = file[1]
  BY <1>12, <1>14
<1>16. \A i \in 1 .. Len(u) : i # 1 => i - 1 \in 1 .. Len(rest) /\ u[i] = rest[i - 1]
  BY <1>12, <1>14, <1>15
<1>17. 1 \in 1 .. Len(file)
  BY <1>1
<1>18. Good(file[1], as, an) \/ file[1] \in {Header, Broken}
  BY <1>17 DEF Text
<1>19. Text(u, as, an)
  BY <1>9, <1>10, <1>15, <1>16, <1>18 DEF Text
<1>20. QED
  BY <1>2, <1>11, <1>13, <1>19

(* A line is written into a text, or right behind it. *)
LEMMA WrittenText ==
    ASSUME NEW as, NEW an, Text(file, as, an), NEW n \in Nat, n >= 1, n <= Len(file) + 1,
           NEW l, Good(l, as, an) \/ (n = 1 /\ l \in {Header, Broken}),
           NEW t, AllGood(t, as, an)
    PROVE  /\ Text(SubSeq(file, 1, n - 1) \o <<l>> \o t, as, an)
           /\ Len(SubSeq(file, 1, n - 1) \o <<l>> \o t) >= n
<1>1. /\ file \in Seq(Entry) /\ Len(file) \in Nat /\ t \in Seq(Entry) /\ Len(t) \in Nat
      /\ l \in Entry
  <2>1. file \in Seq(Entry) /\ t \in Seq(Entry)
    BY DEF Text, AllGood
  <2>2. l \in Entry
    BY Values DEF Good
  <2>3. QED
    BY <2>1, <2>2
<1>2. PICK h : h = SubSeq(file, 1, n - 1)
  OBVIOUS
<1>3. h \in Seq(Entry) /\ Len(h) = n - 1 /\ \A i \in 1 .. n - 1 : h[i] = file[i]
  BY <1>1, <1>2, SubSeqProperties
<1>4. PICK u : u = h \o <<l>>
  OBVIOUS
<1>5. /\ u \in Seq(Entry) /\ Len(u) = n /\ u[n] = l /\ \A i \in 1 .. n - 1 : u[i] = file[i]
  BY <1>1, <1>3, <1>4
<1>6. PICK w : w = u \o t
  OBVIOUS
<1>7. /\ w \in Seq(Entry) /\ Len(w) = n + Len(t)
      /\ \A i \in 1 .. n + Len(t) : w[i] = IF i <= n THEN u[i] ELSE t[i - n]
  BY <1>1, <1>5, <1>6, ConcatProperties
<1>8. ASSUME NEW i \in 1 .. Len(w)
      PROVE  Good(w[i], as, an) \/ (i = 1 /\ w[i] \in {Header, Broken})
  <2>1. CASE i < n
    <3>1. i \in 1 .. Len(file) /\ w[i] = file[i]
      BY <1>1, <1>5, <1>7, <2>1
    <3>2. QED
      BY <3>1 DEF Text
  <2>2. CASE i = n
    <3>1. w[i] = l
      BY <1>1, <1>5, <1>7, <2>2
    <3>2. QED
      BY <2>2, <3>1
  <2>3. CASE i > n
    <3>1. i - n \in 1 .. Len(t) /\ w[i] = t[i - n]
      BY <1>1, <1>7, <2>3
    <3>2. QED
      BY <3>1 DEF AllGood
  <2>4. i < n \/ i = n \/ i > n
    BY <1>1, <1>7
  <2>5. QED
    BY <2>1, <2>2, <2>3, <2>4
<1>9. Len(w) >= n
  BY <1>1, <1>7
<1>10. Text(w, as, an)
  BY <1>7, <1>8 DEF Text
<1>11. QED
  BY <1>2, <1>4, <1>6, <1>9, <1>10
-----------------------------------------------------------------------------
(* Processes. *)

(* What a process may have for its caller. *)
ReplyOK(p, x, as, an) ==
    /\ x \in Line \cup {Empty, NoReply}
    /\ x \in Line => Good(x, as, an)
    /\ p \in Guests /\ x # NoReply => x \in Line /\ x.time # NoTime /\ x.resp # NoResp
    /\ p \in Calls /\ x \in Line => x.resp = NoResp

(* What a process has for its caller is fit for it. *)
LEMMA OfReply ==
    ASSUME NEW p \in Procs, NEW r, NEW as, NEW an, ProcOK(p, r, as, an)
    PROVE  ReplyOK(p, r.reply, as, an)
BY DEF ProcOK, ReplyOK, Fit, Process, OfGuest, OfCall

(* Having nothing is always fit. *)
LEMMA NoReplyOK ==
    ASSUME NEW p, NEW as, NEW an
    PROVE  ReplyOK(p, NoReply, as, an)
BY Values DEF ReplyOK

(* No line is a text of none. *)
LEMMA EmptyText ==
    ASSUME NEW as, NEW an
    PROVE  Text(<<>>, as, an)
BY DEF Text

(* A process that waits for work, or has done it. *)
LEMMA RestingOK ==
    ASSUME NEW p \in Procs, NEW as, NEW an, NEW x, ReplyOK(p, x, as, an),
           NEW r, NEW c \in {"idle", "done"}, NEW h \in BOOLEAN,
           r = [pc |-> c, op |-> "transfer", line |-> Blank, ix |-> 0, lines |-> <<>>, pos |-> 0,
                lost |-> FALSE, next |-> "idle", heard |-> h, reply |-> x]
    PROVE  ProcOK(p, r, as, an)
<1>1. Blank \in Line /\ Good(Blank, as, an) /\ <<>> \in Seq(Entry) /\ Text(<<>>, as, an)
  <2>1. Blank \in Line
    BY Values
  <2>2. Good(Blank, as, an)
    BY BlankGood
  <2>3. Text(<<>>, as, an)
    BY EmptyText
  <2>4. <<>> \in Seq(Entry)
    OBVIOUS
  <2>5. QED
    BY <2>1, <2>2, <2>3, <2>4, Zenon
<1>2. r \in Process
  BY <1>1 DEF Process, PC, Op, ReplyOK
<1>3. Fit(r, as, an)
  <2>1. /\ r.pc = c /\ r.line = Blank /\ r.reply = x /\ r.lines = <<>> /\ r.pos = 0 /\ r.next = "idle"
    OBVIOUS
  <2>2. Text(r.lines, as, an) /\ Good(r.line, as, an) /\ (r.reply \in Line => Good(r.reply, as, an))
    BY <1>1, <2>1, Zenon DEF ReplyOK
  <2>3. ~(r.pos > 1) /\ r.pos <= 1 /\ r.pc \notin {"write", "lock", "replace"} /\ r.next = "idle"
    BY <2>1
  <2>4. QED
    BY <1>2, <2>2, <2>3, Zenon DEF Fit
<1>4. p \in Guests => OfGuest(r)
  BY DEF OfGuest, ReplyOK
<1>5. p \in Calls => OfCall(r)
  BY DEF OfCall, ReplyOK
<1>6. QED
  BY <1>3, <1>4, <1>5 DEF ProcOK

(* A process that has not begun. *)
LEMMA IdleOK ==
    ASSUME NEW p \in Procs, NEW as, NEW an
    PROVE  ProcOK(p, Idle, as, an) /\ Idle.pc = "idle"
<1>1. ReplyOK(p, NoReply, as, an)
  BY NoReplyOK
<1>2. QED
  BY <1>1, RestingOK DEF Idle

(* A process that ends with something fit for its caller. *)
LEMMA EndedOK ==
    ASSUME NEW p \in Procs, NEW as, NEW an, NEW r, ReplyOK(p, r.reply, as, an)
    PROVE  ProcOK(p, Ended(r), as, an) /\ Ended(r).pc \in {"idle", "done"}
<1>1. CASE r.heard
  <2>1. PICK e : e = Ended(r)
    OBVIOUS
  <2>2. e = [pc |-> "done", op |-> "transfer", line |-> Blank, ix |-> 0, lines |-> <<>>, pos |-> 0,
             lost |-> FALSE, next |-> "idle", heard |-> TRUE, reply |-> r.reply]
    BY <1>1, <2>1 DEF Ended, Idle
  <2>3. ProcOK(p, e, as, an)
    BY <2>2, RestingOK
  <2>4. QED
    BY <2>1, <2>2, <2>3
<1>2. CASE ~r.heard
  <2>1. Ended(r) = Idle
    BY <1>2 DEF Ended
  <2>2. QED
    BY <2>1, IdleOK
<1>3. QED
  BY <1>1, <1>2

(* Processes whose call is on its way or has its answer are left alone. *)
Steady == \A q \in Procs : php[q].pc \in {"sent", "done"} => php'[q] = php[q]

(* A step of one process that does not touch the file. *)
LEMMA OneProc ==
    ASSUME ServerOK, UNCHANGED <<file, asked, answers>>,
           NEW p \in Procs, NEW r, php' = [php EXCEPT ![p] = r],
           ProcOK(p, r, asked, answers), r.pc \notin {"lock", "write"}
    PROVE  /\ ServerOK'
           /\ \A q \in Procs : php'[q] = IF q = p THEN r ELSE php[q]
<1>1. php' = [q \in Procs |-> IF q = p THEN r ELSE php[q]]
  BY DEF ServerOK, ProcsOK
<1>2. \A q \in Procs : php'[q] = IF q = p THEN r ELSE php[q]
  BY <1>1
<1>3. php' = [q \in Procs |-> php'[q]]
  BY <1>1
<1>4. \A q \in Procs : ProcOK(q, php'[q], asked, answers)
  BY <1>2 DEF ServerOK, ProcsOK
<1>5. ProcsOK'
  BY <1>3, <1>4 DEF ProcsOK
<1>6. FileOK'
  BY DEF ServerOK, FileOK
<1>7. ~Writes(r) /\ Placed(r, file)
  BY DEF Writes, Placed
<1>8. WritersOK'
  BY <1>2, <1>7 DEF ServerOK, WritersOK
<1>9. QED
  BY <1>2, <1>5, <1>6, <1>8 DEF ServerOK

(* A process ends. *)
LEMMA EndStep ==
    ASSUME ServerOK, UNCHANGED <<file, asked, answers>>,
           NEW p \in Procs, End(p), php[p].pc \notin {"sent", "done"}
    PROVE  ServerOK' /\ Steady
<1>1. ProcOK(p, php[p], asked, answers)
  BY DEF ServerOK, ProcsOK
<1>2. PICK r : r = Ended(php[p])
  OBVIOUS
<1>3. php' = [php EXCEPT ![p] = r]
  BY <1>2 DEF End
<1>4. ProcOK(p, r, asked, answers) /\ r.pc \notin {"lock", "write"}
  BY <1>1, <1>2, EndedOK, OfReply
<1>5. QED
  BY <1>3, <1>4, OneProc DEF Steady

(* A process that is not writing is going to write a text. *)
LEMMA RewriteStep ==
    ASSUME ServerOK, UNCHANGED <<file, asked, answers>>,
           NEW p \in Procs, NEW ls, Text(ls, asked, answers), NEW nx, Rewrite(p, ls, nx),
           php[p].pc \in {"save", "check", "replace"},
           nx \in {"save", "replace", "check", "wait", "done"},
           nx = "replace" => php[p].pc = "replace",
           nx = "save" => php[p].pc = "save",
           p \in Calls => nx # "wait"
    PROVE  ServerOK' /\ Steady
<1>1. ProcOK(p, php[p], asked, answers)
  BY DEF ServerOK, ProcsOK
<1>2. PICK o : o = php[p]
  OBVIOUS
<1>3. o \in Process
  BY <1>1, <1>2 DEF ProcOK, Fit
<1>4. PICK r : r = [o EXCEPT !.pc = "open", !.lines = ls, !.next = nx]
  OBVIOUS
<1>5. php' = [php EXCEPT ![p] = r]
  BY <1>2, <1>4 DEF Rewrite, ServerOK, ProcsOK
<1>6. /\ r.pc = "open" /\ r.lines = ls /\ r.next = nx /\ r.op = o.op /\ r.line = o.line
      /\ r.ix = o.ix /\ r.pos = o.pos /\ r.lost = o.lost /\ r.heard = o.heard /\ r.reply = o.reply
  BY <1>3, <1>4 DEF Process
<1>7. r \in Process
  BY <1>3, <1>4 DEF Process, PC, Text
<1>8. Fit(r, asked, answers)
  BY <1>1, <1>2, <1>6, <1>7 DEF ProcOK, Fit, Process
<1>9. p \in Guests => OfGuest(r)
  BY <1>1, <1>2, <1>6 DEF ProcOK, OfGuest
<1>10. p \in Calls => OfCall(r)
  BY <1>1, <1>2, <1>6 DEF ProcOK, OfCall
<1>11. ProcOK(p, r, asked, answers) /\ r.pc \notin {"lock", "write"}
  BY <1>6, <1>8, <1>9, <1>10 DEF ProcOK
<1>12. QED
  BY <1>5, <1>11, OneProc DEF Steady
-----------------------------------------------------------------------------
(* The steps of the script that leave the file alone. *)

(* Which part of the script a process is in tells whose it is. *)
LEMMA Owners ==
    ASSUME ProcsOK, NEW p \in Procs
    PROVE  /\ php[p].pc \in {"save", "wait"} => p \in Guests /\ p \notin Calls
           /\ php[p].pc \in {"receive", "find", "replace"} => p \in Calls /\ p \notin Guests
           /\ php[p].pc = "check" /\ php[p].op = "transfer" => p \notin Calls
<1>1. ProcOK(p, php[p], asked, answers)
  BY DEF ProcsOK
<1>2. (p \in Guests \/ p \in Calls) /\ ~(p \in Guests /\ p \in Calls)
  BY FileAssumption DEF Procs
<1>3. QED
  BY <1>1, <1>2 DEF ProcOK, OfGuest, OfCall

(* A line behind the first one. *)
LEMMA RequestGood ==
    ASSUME FileOK, file # NoFile, NEW i \in Requests
    PROVE  Good(file[i], asked, answers) /\ file[i] \in Line /\ i \in Nat /\ i >= 2 /\ i <= Len(file)
<1>1. Text(file, asked, answers) /\ Len(file) \in Nat
  BY DEF FileOK, Text
<1>2. i \in 1 .. Len(file) /\ i # 1 /\ i \in Nat /\ i >= 2 /\ i <= Len(file)
  BY <1>1 DEF Requests
<1>3. Good(file[i], asked, answers)
  BY <1>1, <1>2 DEF Text
<1>4. QED
  BY <1>2, <1>3 DEF Good

(* The first line of a new file. *)
LEMMA HeaderText ==
    ASSUME NEW as, NEW an
    PROVE  Text(<<Header>>, as, an) /\ Text(<<Broken>>, as, an)
<1>1. Header \in Entry /\ Broken \in Entry
  BY Values
<1>2. \A i \in 1 .. 1 : i = 1
  OBVIOUS
<1>3. PICK h : h = <<Header>>
  OBVIOUS
<1>4. h \in Seq(Entry) /\ Len(h) = 1 /\ h[1] = Header
  BY <1>1, <1>3
<1>5. Text(h, as, an)
  BY <1>2, <1>4 DEF Text
<1>6. PICK b : b = <<Broken>>
  OBVIOUS
<1>7. b \in Seq(Entry) /\ Len(b) = 1 /\ b[1] = Broken
  BY <1>1, <1>6
<1>8. Text(b, as, an)
  BY <1>2, <1>7 DEF Text
<1>9. QED
  BY <1>3, <1>5, <1>6, <1>8, Zenon

(* put_line_to_file adds a line to a text that was read, and cuts it. *)
LEMMA PutStep ==
    ASSUME ServerOK, NEW p \in Procs, put_line_to_file(p), UNCHANGED answers
    PROVE  ServerOK' /\ Steady
<1>1. UNCHANGED <<file, asked, answers>> /\ php[p].pc = "save"
  BY DEF put_line_to_file
<1>2. p \notin Calls
  BY <1>1, Owners DEF ServerOK
<1>3. CASE create_file(p)
  <2>1. Rewrite(p, <<Header>>, "save")
    BY <1>1, <1>3 DEF create_file
  <2>2. Text(<<Header>>, asked, answers)
    BY HeaderText
  <2>3. PICK ls : ls = <<Header>>
    OBVIOUS
  <2>4. Rewrite(p, ls, "save") /\ Text(ls, asked, answers)
    BY <2>1, <2>2, <2>3, Zenon
  <2>5. QED
    BY <1>1, <1>2, <2>4, RewriteStep
<1>4. CASE End(p)
  BY <1>1, <1>4, EndStep
<1>5. CASE file # NoFile /\ Rewrite(p, Cut(Append(file, php[p].line)), "check")
  <2>1. Text(file, asked, answers) /\ Good(php[p].line, asked, answers)
    BY <1>5 DEF ServerOK, FileOK, ProcsOK, ProcOK, Fit
  <2>2. Text(Cut(Append(file, php[p].line)), asked, answers)
    BY <2>1, AppendText, CutText
  <2>3. QED
    BY <1>1, <1>2, <1>5, <2>2, RewriteStep
<1>6. QED
  BY <1>3, <1>4, <1>5 DEF put_line_to_file

(* check_if_file_correct leaves lines out of the text that was read. *)
LEMMA CheckStep ==
    ASSUME ServerOK, NEW p \in Procs, check_if_file_correct(p), UNCHANGED answers
    PROVE  ServerOK' /\ Steady
<1>1. UNCHANGED <<file, asked, answers>> /\ php[p].pc = "check"
  BY DEF check_if_file_correct
<1>2. PICK nx : nx = IF php[p].op = "transfer" THEN "wait" ELSE "done"
  OBVIOUS
<1>3. nx \in {"wait", "done"} /\ (p \in Calls => nx # "wait")
  BY <1>1, <1>2, Owners DEF ServerOK
<1>4. \/ file # NoFile /\ file # <<>> /\ Rewrite(p, Kept, nx)
      \/ End(p)
      \/ nx = "wait" /\ php' = [php EXCEPT ![p].pc = nx]
  BY <1>2 DEF check_if_file_correct
<1>5. CASE file # NoFile /\ file # <<>> /\ Rewrite(p, Kept, nx)
  <2>1. Text(Kept, asked, answers)
    BY <1>5, KeptText DEF ServerOK, FileOK
  <2>2. QED
    BY <1>1, <1>3, <1>5, <2>1, RewriteStep
<1>6. CASE End(p)
  BY <1>1, <1>6, EndStep
<1>7. CASE nx = "wait" /\ php' = [php EXCEPT ![p].pc = nx]
  <2>1. ProcOK(p, php[p], asked, answers)
    BY DEF ServerOK, ProcsOK
  <2>2. PICK o : o = php[p]
    OBVIOUS
  <2>3. o \in Process
    BY <2>1, <2>2 DEF ProcOK, Fit
  <2>4. PICK r : r = [o EXCEPT !.pc = "wait"]
    OBVIOUS
  <2>5. php' = [php EXCEPT ![p] = r]
    BY <1>7, <2>2, <2>4 DEF ServerOK, ProcsOK
  <2>6. /\ r.pc = "wait" /\ r.lines = o.lines /\ r.next = o.next /\ r.op = o.op /\ r.line = o.line
        /\ r.ix = o.ix /\ r.pos = o.pos /\ r.reply = o.reply
    BY <2>3, <2>4 DEF Process
  <2>7. r \in Process
    BY <2>3, <2>4 DEF Process, PC
  <2>8. Fit(r, asked, answers)
    BY <1>1, <2>1, <2>2, <2>6, <2>7 DEF ProcOK, Fit
  <2>9. p \in Guests => OfGuest(r)
    BY <1>1, <2>1, <2>2, <2>6 DEF ProcOK, OfGuest
  <2>10. p \notin Calls
    BY <1>3, <1>7
  <2>11. ProcOK(p, r, asked, answers) /\ r.pc \notin {"lock", "write"}
    BY <2>6, <2>8, <2>9, <2>10 DEF ProcOK
  <2>12. QED
    BY <1>1, <2>5, <2>11, OneProc DEF Steady
<1>8. QED
  BY <1>4, <1>5, <1>6, <1>7
(* get_request_from_file hands out a line without an answer. *)
LEMMA ReceiveStep ==
    ASSUME ServerOK, NEW p \in Procs, get_request_from_file(p), UNCHANGED answers
    PROVE  ServerOK' /\ Steady
<1>1. UNCHANGED <<file, asked, answers>> /\ php[p].pc = "receive"
  BY DEF get_request_from_file
<1>2. p \in Calls /\ p \notin Guests
  BY <1>1, Owners DEF ServerOK
<1>3. PICK x : x = IF ~php[p].heard THEN NoReply
                   ELSE IF file = NoFile THEN Empty
                   ELSE IF Unanswered = {} THEN Empty
                   ELSE FirstRequest
  OBVIOUS
<1>4. php' = [php EXCEPT ![p].pc = "check", ![p].reply = x]
  BY <1>3 DEF get_request_from_file
<1>5. ReplyOK(p, x, asked, answers)
  <2>1. CASE x \in {NoReply, Empty}
    BY <1>2, <2>1, Values DEF ReplyOK
  <2>2. CASE file # NoFile /\ Unanswered # {} /\ x = FirstRequest
    <3>1. \A i \in Unanswered : i \in Nat
      BY <2>2, RequestGood DEF ServerOK, Unanswered
    <3>2. Lowest(Unanswered) \in Unanswered
      BY <2>2, <3>1, LowestIn
    <3>3. Good(x, asked, answers) /\ x \in Line /\ x.resp = NoResp
      BY <2>2, <3>2, RequestGood DEF ServerOK, Unanswered, FirstRequest
    <3>4. QED
      BY <1>2, <3>3 DEF ReplyOK
  <2>3. QED
    BY <1>3, <2>1, <2>2
<1>6. ProcOK(p, php[p], asked, answers)
  BY DEF ServerOK, ProcsOK
<1>7. PICK o : o = php[p]
  OBVIOUS
<1>8. o \in Process
  BY <1>6, <1>7 DEF ProcOK, Fit
<1>9. PICK r : r = [o EXCEPT !.pc = "check", !.reply = x]
  OBVIOUS
<1>10. php' = [php EXCEPT ![p] = r]
  BY <1>4, <1>7, <1>9 DEF ServerOK, ProcsOK
<1>11. /\ r.pc = "check" /\ r.lines = o.lines /\ r.next = o.next /\ r.op = o.op /\ r.line = o.line
       /\ r.ix = o.ix /\ r.pos = o.pos /\ r.reply = x
  BY <1>8, <1>9 DEF Process
<1>12. r \in Process
  BY <1>5, <1>8, <1>9 DEF Process, PC, ReplyOK
<1>13. Fit(r, asked, answers)
  BY <1>1, <1>5, <1>6, <1>7, <1>11, <1>12 DEF ProcOK, Fit, ReplyOK
<1>14. OfCall(r)
  BY <1>1, <1>2, <1>5, <1>6, <1>7, <1>11 DEF ProcOK, OfCall, ReplyOK
<1>15. ProcOK(p, r, asked, answers) /\ r.pc \notin {"lock", "write"}
  BY <1>2, <1>11, <1>13, <1>14 DEF ProcOK
<1>16. QED
  BY <1>1, <1>10, <1>15, OneProc DEF Steady

(* set_response_in_file joins an answer with a request of its own second. *)
LEMMA FindStep ==
    ASSUME ServerOK, NEW p \in Procs, set_response_in_file(p), UNCHANGED answers
    PROVE  ServerOK' /\ Steady
<1>1. UNCHANGED <<file, asked, answers>> /\ php[p].pc = "find"
  BY DEF set_response_in_file
<1>2. p \in Calls /\ p \notin Guests
  BY <1>1, Owners DEF ServerOK
<1>3. CASE End(p)
  BY <1>1, <1>3, EndStep
<1>4. CASE ~End(p)
  <2>1. PICK i : i = Lowest(Addressed(p))
    OBVIOUS
  <2>2. /\ file # NoFile /\ Addressed(p) # {}
        /\ php' = [php EXCEPT ![p].pc = "replace", ![p].ix = i,
                              ![p].line = [file[i] EXCEPT !.resp = php[p].line.resp]]
    BY <1>4, <2>1 DEF set_response_in_file
  <2>3. \A j \in Addressed(p) : j \in Nat
    BY <2>2, RequestGood DEF ServerOK, Addressed, Unanswered
  <2>4. i \in Addressed(p)
    BY <2>1, <2>2, <2>3, LowestIn
  <2>5. /\ Good(file[i], asked, answers) /\ file[i] \in Line /\ i \in Nat /\ i >= 2
        /\ file[i].key # NoKey /\ file[i].time = php[p].line.time
    BY <2>2, <2>4, RequestGood DEF ServerOK, Addressed, Unanswered
  <2>6. ProcOK(p, php[p], asked, answers)
    BY DEF ServerOK, ProcsOK
  <2>7. PICK o : o = php[p]
    OBVIOUS
  <2>8. o \in Process /\ Good(o.line, asked, answers) /\ o.line \in Line
    BY <2>6, <2>7 DEF ProcOK, Fit, Good
  <2>9. PICK l : l = [file[i] EXCEPT !.resp = o.line.resp]
    OBVIOUS
  <2>10. l \in Line /\ l.key = file[i].key /\ l.time = file[i].time /\ l.resp = o.line.resp
    BY <2>5, <2>8, <2>9 DEF Line
  <2>11. Good(l, asked, answers)
    BY <2>5, <2>7, <2>8, <2>10 DEF Good
  <2>12. PICK r : r = [o EXCEPT !.pc = "replace", !.ix = i, !.line = l]
    OBVIOUS
  <2>13. php' = [php EXCEPT ![p] = r]
    BY <2>2, <2>7, <2>9, <2>12 DEF ServerOK, ProcsOK
  <2>14. /\ r.pc = "replace" /\ r.lines = o.lines /\ r.next = o.next /\ r.op = o.op /\ r.line = l
         /\ r.ix = i /\ r.pos = o.pos /\ r.reply = o.reply
    BY <2>8, <2>12 DEF Process
  <2>15. r \in Process
    BY <2>5, <2>8, <2>10, <2>12 DEF Process, PC
  <2>16. Fit(r, asked, answers)
    BY <1>1, <2>5, <2>6, <2>7, <2>11, <2>14, <2>15 DEF ProcOK, Fit
  <2>17. OfCall(r)
    BY <1>1, <1>2, <2>6, <2>7, <2>14 DEF ProcOK, OfCall
  <2>18. ProcOK(p, r, asked, answers) /\ r.pc \notin {"lock", "write"}
    BY <1>2, <2>14, <2>16, <2>17 DEF ProcOK
  <2>19. QED
    BY <1>1, <2>13, <2>18, OneProc, ZenonT(60) DEF Steady
<1>5. QED
  BY <1>3, <1>4

(* replace_line_in_file puts the line at an index that may be stale, but
   never at that of the first line. *)
LEMMA ReplaceStep ==
    ASSUME ServerOK, NEW p \in Procs, replace_line_in_file(p), UNCHANGED answers
    PROVE  ServerOK' /\ Steady
<1>1. UNCHANGED <<file, asked, answers>> /\ php[p].pc = "replace"
  BY DEF replace_line_in_file
<1>2. CASE create_file(p)
  <2>1. Rewrite(p, <<Header>>, "replace")
    BY <1>1, <1>2 DEF create_file
  <2>2. Text(<<Header>>, asked, answers)
    BY HeaderText
  <2>3. PICK ls : ls = <<Header>>
    OBVIOUS
  <2>4. Rewrite(p, ls, "replace") /\ Text(ls, asked, answers)
    BY <2>1, <2>2, <2>3, Zenon
  <2>5. QED
    BY <1>1, <2>4, RewriteStep
<1>3. CASE End(p)
  BY <1>1, <1>3, EndStep
<1>4. CASE /\ file # NoFile /\ ~(php[p].ix > Len(file))
           /\ Rewrite(p, [file EXCEPT ![php[p].ix] = php[p].line], "done")
  <2>1. Text(file, asked, answers) /\ Len(file) \in Nat
    BY <1>4 DEF ServerOK, FileOK, Text
  <2>2. Good(php[p].line, asked, answers) /\ php[p].ix \in Nat /\ php[p].ix >= 2
    BY <1>1 DEF ServerOK, ProcsOK, ProcOK, Fit, Process
  <2>3. php[p].ix \in 2 .. Len(file)
    BY <1>4, <2>1, <2>2
  <2>4. Text([file EXCEPT ![php[p].ix] = php[p].line], asked, answers)
    BY <2>1, <2>2, <2>3, ReplacedText
  <2>5. QED
    BY <1>1, <1>4, <2>4, RewriteStep
<1>5. QED
  BY <1>2, <1>3, <1>4 DEF replace_line_in_file

(* get_response_from_file shows a line of the second of the request. *)
LEMMA WaitStep ==
    ASSUME ServerOK, NEW p \in Procs, get_response_from_file(p), UNCHANGED answers
    PROVE  ServerOK' /\ Steady
<1>1. UNCHANGED <<file, asked, answers>> /\ php[p].pc = "wait"
  BY DEF get_response_from_file
<1>2. p \in Guests /\ p \notin Calls
  BY <1>1, Owners DEF ServerOK
<1>3. CASE End(p)
  BY <1>1, <1>3, EndStep
<1>4. CASE ~End(p)
  <2>1. PICK l : l = file[Lowest(Shown(p))]
    OBVIOUS
  <2>2. /\ file # NoFile /\ Shown(p) # {} /\ l.resp # NoResp
        /\ php' = [php EXCEPT ![p] = Ended([php[p] EXCEPT !.reply = l])]
    BY <1>4, <2>1 DEF get_response_from_file
  <2>3. \A j \in Shown(p) : j \in Nat
    BY <2>2, RequestGood DEF ServerOK, Shown
  <2>4. Lowest(Shown(p)) \in Shown(p)
    BY <2>2, <2>3, LowestIn
  <2>5. Good(l, asked, answers) /\ l \in Line /\ l.time = php[p].line.time
    BY <2>1, <2>2, <2>4, RequestGood DEF ServerOK, Shown
  <2>6. ProcOK(p, php[p], asked, answers)
    BY DEF ServerOK, ProcsOK
  <2>7. php[p].line.time # NoTime /\ php[p] \in Process
    BY <1>1, <1>2, <2>6 DEF ProcOK, OfGuest, Fit
  <2>8. PICK o : o = [php[p] EXCEPT !.reply = l]
    OBVIOUS
  <2>9. o.reply = l
    BY <2>7, <2>8 DEF Process
  <2>10. ReplyOK(p, o.reply, asked, answers)
    BY <1>2, <2>2, <2>5, <2>7, <2>9 DEF ReplyOK
  <2>11. PICK r : r = Ended(o)
    OBVIOUS
  <2>12. ProcOK(p, r, asked, answers) /\ r.pc \notin {"lock", "write"}
    BY <2>10, <2>11, EndedOK
  <2>13. php' = [php EXCEPT ![p] = r]
    BY <2>2, <2>8, <2>11
  <2>14. QED
    BY <1>1, <2>12, <2>13, OneProc DEF Steady
<1>5. QED
  BY <1>3, <1>4
-----------------------------------------------------------------------------
(* The steps that change the file. *)

(* Whoever opens the file empties it; those who write go on behind a hole. *)
LEMMA OpenStep ==
    ASSUME ServerOK, NEW p \in Procs, Open(p), UNCHANGED answers
    PROVE  ServerOK' /\ Steady
<1>1. php[p].pc = "open" /\ file' = <<>> /\ UNCHANGED <<asked, answers>>
  BY DEF Open
<1>2. php' = [q \in Procs |-> IF q = p THEN [php[p] EXCEPT !.pc = "lock", !.pos = 1, !.lost = FALSE]
                              ELSE IF php[q].pc = "write" THEN [php[q] EXCEPT !.pos = 0]
                              ELSE php[q]]
  BY DEF Open
<1>3. php' = [q \in Procs |-> php'[q]]
  BY <1>2
<1>4. \A q \in Procs : php[q] \in Process /\ ProcOK(q, php[q], asked, answers)
  BY DEF ServerOK, ProcsOK, ProcOK, Fit
<1>5. ASSUME NEW q \in Procs
      PROVE  /\ ProcOK(q, php'[q], asked, answers)
             /\ q # p => (Writes(php'[q]) <=> Writes(php[q]))
             /\ q = p => ~Writes(php'[q])
             /\ php'[q].pc = "write" => php'[q].pos = 0
             /\ php[q].pc \in {"sent", "done"} => php'[q] = php[q]
  <2>1. CASE q = p
    <3>1. PICK o, r : o = php[p] /\ r = php'[p]
      OBVIOUS
    <3>2. r = [o EXCEPT !.pc = "lock", !.pos = 1, !.lost = FALSE] /\ o \in Process
      BY <1>2, <1>4, <3>1
    <3>3. /\ r.pc = "lock" /\ r.pos = 1 /\ r.lines = o.lines /\ r.next = o.next /\ r.op = o.op
          /\ r.line = o.line /\ r.ix = o.ix /\ r.reply = o.reply
      BY <3>2 DEF Process
    <3>4. r \in Process
      BY <3>2 DEF Process, PC
    <3>5. Fit(r, asked, answers)
      BY <1>1, <1>4, <3>1, <3>3, <3>4 DEF ProcOK, Fit
    <3>6. (p \in Guests => OfGuest(r)) /\ (p \in Calls => OfCall(r))
      BY <1>1, <1>4, <3>1, <3>3 DEF ProcOK, OfGuest, OfCall
    <3>7. QED
      BY <1>1, <2>1, <3>1, <3>3, <3>5, <3>6 DEF ProcOK, Writes
  <2>2. CASE q # p /\ php[q].pc = "write"
    <3>1. PICK o, r : o = php[q] /\ r = php'[q]
      OBVIOUS
    <3>2. r = [o EXCEPT !.pos = 0] /\ o \in Process
      BY <1>2, <1>4, <2>2, <3>1
    <3>3. /\ r.pc = o.pc /\ r.pos = 0 /\ r.lines = o.lines /\ r.next = o.next /\ r.op = o.op
          /\ r.line = o.line /\ r.ix = o.ix /\ r.reply = o.reply /\ r.lost = o.lost
      BY <3>2 DEF Process
    <3>4. r \in Process
      BY <3>2 DEF Process
    <3>5. Fit(r, asked, answers)
      BY <1>4, <2>2, <3>1, <3>3, <3>4 DEF ProcOK, Fit
    <3>6. (q \in Guests => OfGuest(r)) /\ (q \in Calls => OfCall(r))
      BY <1>4, <3>1, <3>3 DEF ProcOK, OfGuest, OfCall
    <3>7. QED
      BY <2>2, <3>1, <3>3, <3>5, <3>6 DEF ProcOK, Writes
  <2>3. CASE q # p /\ php[q].pc # "write"
    BY <1>2, <1>4, <2>3
  <2>4. QED
    BY <2>1, <2>2, <2>3
<1>6. Steady
  BY <1>5 DEF Steady
<1>7. ProcsOK'
  BY <1>1, <1>3, <1>5 DEF ProcsOK
<1>8. Text(file', asked, answers) /\ file' # NoFile /\ Len(file') = 0
  <2>1. Text(<<>>, asked, answers)
    BY EmptyText
  <2>2. NoFile # <<>>
    BY Values
  <2>3. Len(<<>>) = 0
    OBVIOUS
  <2>4. QED
    BY <1>1, <2>1, <2>2, <2>3, Zenon
<1>9. FileOK'
  BY <1>1, <1>8 DEF FileOK
<1>10. \A q \in Procs : Placed(php'[q], file')
  BY <1>5, <1>8 DEF Placed
<1>11. \A q, s \in Procs : Writes(php'[q]) /\ Writes(php'[s]) => q = s
  BY <1>5 DEF ServerOK, WritersOK
<1>12. QED
  BY <1>6, <1>7, <1>9, <1>10, <1>11 DEF ServerOK, WritersOK

(* A step of one process that may write. *)
LEMMA WriterStep ==
    ASSUME ServerOK, UNCHANGED <<asked, answers>>, FileOK',
           NEW p \in Procs, NEW r, php' = [php EXCEPT ![p] = r], ProcOK(p, r, asked, answers),
           Placed(r, file'), r.pc # "lock",
           file' = file \/ (file' # NoFile /\ \A q \in Procs : q # p => ~Writes(php[q])),
           Writes(r) => \A q \in Procs : q # p => ~Writes(php[q])
    PROVE  /\ ServerOK'
           /\ \A q \in Procs : php'[q] = IF q = p THEN r ELSE php[q]
<1>1. php' = [q \in Procs |-> IF q = p THEN r ELSE php[q]]
  BY DEF ServerOK, ProcsOK
<1>2. \A q \in Procs : php'[q] = IF q = p THEN r ELSE php[q]
  BY <1>1
<1>3. php' = [q \in Procs |-> php'[q]]
  BY <1>1
<1>4. \A q \in Procs : ProcOK(q, php'[q], asked, answers)
  BY <1>2 DEF ServerOK, ProcsOK
<1>5. ProcsOK'
  BY <1>3, <1>4 DEF ProcsOK
<1>6. ASSUME NEW q \in Procs
      PROVE  Placed(php'[q], file')
  <2>1. CASE q = p
    BY <1>2, <2>1
  <2>2. CASE q # p /\ file' = file
    BY <1>2, <2>2 DEF ServerOK, WritersOK
  <2>3. CASE q # p /\ file' # NoFile /\ ~Writes(php[q])
    BY <1>2, <2>3 DEF Placed, Writes
  <2>4. QED
    BY <2>1, <2>2, <2>3
<1>7. \A q, s \in Procs : Writes(php'[q]) /\ Writes(php'[s]) => q = s
  BY <1>2 DEF ServerOK, WritersOK
<1>8. WritersOK'
  BY <1>6, <1>7 DEF WritersOK
<1>9. QED
  BY <1>2, <1>5, <1>8 DEF ServerOK
(* What a process that writes a line leaves in the file. *)
LEMMA WrittenFile ==
    ASSUME ServerOK, NEW p \in Procs, Write(p)
    PROVE  /\ file' = NoFile \/ Text(file', asked, answers)
           /\ file' = file \/ (~php[p].lost /\ file' # NoFile)
           /\ ~php[p].lost => file' # NoFile
           /\ ~php[p].lost /\ php[p].lines # <<>> =>
                Len(file') \in Nat /\ Len(file') >= 1 /\ Len(file') >= php[p].pos
<1>1. ProcOK(p, php[p], asked, answers)
  BY DEF ServerOK, ProcsOK
<1>2. PICK o : o = php[p]
  OBVIOUS
<1>3. o \in Process /\ Fit(o, asked, answers) /\ Placed(o, file) /\ o.pc \in {"lock", "write"}
  BY <1>1, <1>2 DEF ProcOK, Fit, ServerOK, WritersOK, Write
<1>4. CASE (o.lost \/ o.lines = <<>>) /\ UNCHANGED file
  BY <1>2, <1>3, <1>4 DEF Placed, ServerOK, FileOK
<1>5. CASE ~o.lost /\ o.lines # <<>> /\ o.pos = 0 /\ file' = <<Broken>>
  <2>1. Text(file', asked, answers)
    BY <1>5, HeaderText, Zenon
  <2>2. file' # NoFile
    BY <2>1, Values DEF Text
  <2>3. Len(file') = 1
    BY <1>5
  <2>4. QED
    BY <1>2, <1>5, <2>1, <2>2, <2>3
<1>6. CASE /\ ~o.lost /\ o.lines # <<>> /\ o.pos # 0
           /\ \E t \in Tails(o.pos, Head(o.lines)) :
                file' = SubSeq(file, 1, o.pos - 1) \o <<Head(o.lines)>> \o t
  <2>1. PICK t \in Tails(o.pos, Head(o.lines)) :
            file' = SubSeq(file, 1, o.pos - 1) \o <<Head(o.lines)>> \o t
    BY <1>6
  <2>2. file # NoFile /\ Text(file, asked, answers) /\ Len(file) \in Nat
    BY <1>3, <1>6 DEF Placed, ServerOK, FileOK, Text
  <2>3. o.pos \in Nat /\ o.pos >= 1 /\ o.pos <= Len(file) + 1
    BY <1>3, <1>6, <2>2 DEF Placed, Fit, Process
  <2>4. PICK l : l = Head(o.lines)
    OBVIOUS
  <2>5. Text(o.lines, asked, answers) /\ o.lines \in Seq(Entry) /\ 1 \in 1 .. Len(o.lines) /\ l = o.lines[1]
    BY <1>3, <1>6, <2>4 DEF Fit, Text
  <2>6. Good(l, asked, answers) \/ l \in {Header, Broken}
    BY <2>5 DEF Text
  <2>7. o.pos > 1 => Good(l, asked, answers)
    BY <1>3, <1>6, <2>5 DEF Fit
  <2>8. Good(l, asked, answers) \/ (o.pos = 1 /\ l \in {Header, Broken})
    BY <2>3, <2>6, <2>7
  <2>9. AllGood(t, asked, answers)
    BY <2>1, <2>2, <2>3, TailsGood
  <2>10. file' = SubSeq(file, 1, o.pos - 1) \o <<l>> \o t
    BY <2>1, <2>4
  <2>11. Text(file', asked, answers) /\ Len(file') >= o.pos
    BY <2>2, <2>3, <2>8, <2>9, <2>10, WrittenText
  <2>12. file' # NoFile /\ Len(file') \in Nat
    BY <2>11, Values DEF Text
  <2>13. Len(file') >= 1
    BY <2>3, <2>11, <2>12
  <2>14. QED
    BY <1>2, <1>6, <2>11, <2>12, <2>13
<1>7. QED
  BY <1>2, <1>4, <1>5, <1>6 DEF Write

(* A process writes one line, in turn with those who have the lock. *)
LEMMA WriteStep ==
    ASSUME ServerOK, NEW p \in Procs, Write(p), UNCHANGED answers
    PROVE  ServerOK' /\ Steady
<1>1. UNCHANGED <<asked, answers>>
  BY DEF Write
<1>2. FileOK'
  BY <1>1, WrittenFile DEF FileOK
<1>3. ProcOK(p, php[p], asked, answers)
  BY DEF ServerOK, ProcsOK
<1>4. PICK o : o = php[p]
  OBVIOUS
<1>5. o \in Process /\ Fit(o, asked, answers) /\ o.pc \in {"lock", "write"}
  BY <1>3, <1>4 DEF ProcOK, Fit, Write
<1>6. ~o.lost => \A q \in Procs : q # p => ~Writes(php[q])
  <2>1. CASE o.pc = "write"
    BY <1>4, <2>1 DEF ServerOK, WritersOK, Writes
  <2>2. CASE o.pc = "lock"
    BY <1>4, <2>2 DEF Write, Locked, Writes
  <2>3. QED
    BY <1>5, <2>1, <2>2
<1>7. file' = file \/ (file' # NoFile /\ \A q \in Procs : q # p => ~Writes(php[q]))
  BY <1>4, <1>6, WrittenFile
<1>8. Text(o.lines, asked, answers) /\ o.lines \in Seq(Entry) /\ o.pos \in Nat /\ o.lost \in BOOLEAN
  BY <1>5 DEF Fit, Text, Process
<1>9. CASE Len(o.lines) > 1
  <2>1. PICK n : n = IF o.pos = 0 THEN 2 ELSE o.pos + 1
    OBVIOUS
  <2>2. PICK ls : ls = Tail(o.lines)
    OBVIOUS
  <2>3. php' = [php EXCEPT ![p].pc = "write", ![p].lines = Tail(@),
                           ![p].pos = IF o.pos = 0 THEN 2 ELSE o.pos + 1]
    BY <1>4, <1>9 DEF Write
  <2>4. PICK r : r = [o EXCEPT !.pc = "write", !.lines = ls, !.pos = n]
    OBVIOUS
  <2>5. php' = [php EXCEPT ![p] = r]
    BY <1>4, <1>5, <2>1, <2>2, <2>3, <2>4 DEF ServerOK, ProcsOK, Process
  <2>6. o.lines # <<>>
    BY <1>8, <1>9
  <2>7. AllGood(ls, asked, answers) /\ Text(ls, asked, answers) /\ Len(ls) = Len(o.lines) - 1
    BY <1>8, <2>2, <2>6, TailGood
  <2>8. ls \in Seq(Entry) /\ ls # <<>> /\ 1 \in 1 .. Len(ls) /\ n \in Nat /\ n > 1
    <3>1. ls \in Seq(Entry)
      BY <2>7 DEF Text
    <3>2. 1 \in 1 .. Len(ls)
      BY <1>8, <1>9, <2>7
    <3>3. ls # <<>>
      BY <3>1, <3>2
    <3>4. n \in Nat /\ n > 1
      BY <1>8, <2>1
    <3>5. QED
      BY <3>1, <3>2, <3>3, <3>4
  <2>9. Good(ls[1], asked, answers)
    BY <2>7, <2>8 DEF AllGood
  <2>10. /\ r.pc = "write" /\ r.lines = ls /\ r.pos = n /\ r.next = o.next /\ r.op = o.op
         /\ r.line = o.line /\ r.ix = o.ix /\ r.reply = o.reply /\ r.lost = o.lost
    BY <1>5, <2>4 DEF Process
  <2>11. r \in Process
    BY <1>5, <2>4, <2>8 DEF Process, PC
  <2>12. Fit(r, asked, answers)
    BY <1>5, <2>7, <2>8, <2>9, <2>10, <2>11 DEF Fit
  <2>13. (p \in Guests => OfGuest(r)) /\ (p \in Calls => OfCall(r))
    BY <1>3, <1>4, <1>5, <2>10 DEF ProcOK, OfGuest, OfCall
  <2>14. ProcOK(p, r, asked, answers)
    BY <2>12, <2>13 DEF ProcOK
  <2>15. Placed(r, file')
    <3>1. CASE ~o.lost
      <4>1. file' # NoFile /\ Len(file') \in Nat /\ Len(file') >= 1 /\ Len(file') >= o.pos
        BY <1>4, <2>6, <3>1, WrittenFile
      <4>2. n <= Len(file') + 1
        BY <1>8, <2>1, <4>1
      <4>3. QED
        BY <2>10, <4>1, <4>2 DEF Placed
    <3>2. CASE o.lost
      BY <2>10, <3>2 DEF Placed
    <3>3. QED
      BY <3>1, <3>2
  <2>16. Writes(r) => \A q \in Procs : q # p => ~Writes(php[q])
    BY <1>6, <2>10 DEF Writes
  <2>17. ServerOK' /\ \A q \in Procs : php'[q] = IF q = p THEN r ELSE php[q]
    BY <1>1, <1>2, <1>7, <2>5, <2>10, <2>14, <2>15, <2>16, WriterStep
  <2>18. QED
    BY <1>4, <1>5, <2>17 DEF Steady
<1>10. CASE ~(Len(o.lines) > 1)
  <2>1. \/ End(p)
        \/ /\ o.next # "done"
           /\ php' = [php EXCEPT ![p].pc = o.next, ![p].lines = <<>>, ![p].pos = 0,
                                 ![p].lost = FALSE, ![p].next = "idle"]
    BY <1>4, <1>10 DEF Write
  <2>2. CASE End(p)
    <3>1. PICK r : r = Ended(o)
      OBVIOUS
    <3>2. php' = [php EXCEPT ![p] = r]
      BY <1>4, <2>2, <3>1 DEF End
    <3>3. ProcOK(p, r, asked, answers) /\ r.pc \notin {"lock", "write"}
      BY <1>3, <1>4, <3>1, EndedOK, OfReply
    <3>4. Placed(r, file') /\ ~Writes(r)
      BY <3>3 DEF Placed, Writes
    <3>5. ServerOK' /\ \A q \in Procs : php'[q] = IF q = p THEN r ELSE php[q]
      BY <1>1, <1>2, <1>7, <3>2, <3>3, <3>4, WriterStep
    <3>6. QED
      BY <1>4, <1>5, <3>5 DEF Steady
  <2>3. CASE /\ o.next # "done"
             /\ php' = [php EXCEPT ![p].pc = o.next, ![p].lines = <<>>, ![p].pos = 0,
                                   ![p].lost = FALSE, ![p].next = "idle"]
    <3>1. PICK e : e = <<>>
      OBVIOUS
    <3>2. Text(e, asked, answers) /\ e \in Seq(Entry)
      <4>1. Text(e, asked, answers)
        BY <3>1, EmptyText
      <4>2. QED
        BY <4>1 DEF Text
    <3>3. PICK r : r = [o EXCEPT !.pc = o.next, !.lines = e, !.pos = 0, !.lost = FALSE, !.next = "idle"]
      OBVIOUS
    <3>4. php' = [php EXCEPT ![p] = r]
      BY <1>4, <2>3, <3>1, <3>3 DEF ServerOK, ProcsOK
    <3>5. /\ r.pc = o.next /\ r.lines = e /\ r.pos = 0 /\ r.next = "idle" /\ r.op = o.op
          /\ r.line = o.line /\ r.ix = o.ix /\ r.reply = o.reply /\ r.lost = FALSE
      BY <1>5, <3>3 DEF Process
    <3>6. r \in Process
      BY <1>5, <3>2, <3>3 DEF Process, PC
    <3>7. Fit(r, asked, answers)
      BY <1>5, <3>2, <3>5, <3>6 DEF Fit
    <3>8. (p \in Guests => OfGuest(r)) /\ (p \in Calls => OfCall(r))
      BY <1>3, <1>4, <1>5, <3>5 DEF ProcOK, OfGuest, OfCall
    <3>9. ProcOK(p, r, asked, answers) /\ r.pc \notin {"lock", "write"}
      BY <1>5, <3>5, <3>7, <3>8 DEF ProcOK, Fit
    <3>10. Placed(r, file') /\ ~Writes(r)
      BY <3>9 DEF Placed, Writes
    <3>11. ServerOK' /\ \A q \in Procs : php'[q] = IF q = p THEN r ELSE php[q]
      BY <1>1, <1>2, <1>7, <3>4, <3>9, <3>10, WriterStep
    <3>12. QED
      BY <1>4, <1>5, <3>11 DEF Steady
  <2>4. QED
    BY <2>1, <2>2, <2>3
<1>11. QED
  BY <1>9, <1>10
(* The top of the script: it may unlink the file under those who have it
   open. *)
LEMMA RunStep ==
    ASSUME ServerOK, NEW p \in Procs, NEW req, Run(p, req), asked \subseteq asked',
           UNCHANGED answers,
           ProcOK(p, Begun(req), asked', answers), Begun(req).pc \notin {"lock", "write"}
    PROVE  /\ ServerOK'
           /\ php'[p] = Begun(req)
           /\ \A q \in Procs : q # p /\ php[q].pc \in {"sent", "done"} => php'[q] = php[q]
<1>1. PICK b : b = Begun(req)
  OBVIOUS
<1>2. /\ file' = IF Readable THEN file ELSE NoFile
      /\ php' = [q \in Procs |-> IF q = p THEN b
                                 ELSE IF ~Readable /\ php[q].pc \in {"lock", "write"}
                                 THEN [php[q] EXCEPT !.lost = TRUE]
                                 ELSE php[q]]
  BY <1>1 DEF Run
<1>3. php' = [q \in Procs |-> php'[q]] /\ php'[p] = b
  BY <1>2
<1>4. \A q \in Procs : php[q] \in Process /\ ProcOK(q, php[q], asked', answers)
  <2>1. \A q \in Procs : ProcOK(q, php[q], asked, answers)
    BY DEF ServerOK, ProcsOK
  <2>2. \A q \in Procs : ProcOK(q, php[q], asked', answers)
    BY <2>1, ProcGrows
  <2>3. QED
    BY <2>2 DEF ProcOK, Fit
<1>5. ASSUME NEW q \in Procs, q # p
      PROVE  /\ ProcOK(q, php'[q], asked', answers)
             /\ Placed(php'[q], file')
             /\ Writes(php'[q]) => Writes(php[q])
             /\ php[q].pc \in {"sent", "done"} => php'[q] = php[q]
  <2>1. CASE ~Readable /\ php[q].pc \in {"lock", "write"}
    <3>1. PICK o, r : o = php[q] /\ r = php'[q]
      OBVIOUS
    <3>2. r = [o EXCEPT !.lost = TRUE] /\ o \in Process
      BY <1>2, <1>4, <1>5, <2>1, <3>1
    <3>3. /\ r.pc = o.pc /\ r.pos = o.pos /\ r.lines = o.lines /\ r.next = o.next /\ r.op = o.op
          /\ r.line = o.line /\ r.ix = o.ix /\ r.reply = o.reply /\ r.lost = TRUE
      BY <3>2 DEF Process
    <3>4. r \in Process
      BY <3>2 DEF Process
    <3>5. Fit(r, asked', answers)
      BY <1>4, <3>1, <3>3, <3>4 DEF ProcOK, Fit
    <3>6. (q \in Guests => OfGuest(r)) /\ (q \in Calls => OfCall(r))
      BY <1>4, <3>1, <3>3 DEF ProcOK, OfGuest, OfCall
    <3>7. QED
      BY <2>1, <3>1, <3>3, <3>5, <3>6 DEF ProcOK, Placed, Writes
  <2>2. CASE Readable
    BY <1>2, <1>4, <1>5, <2>2 DEF ServerOK, WritersOK
  <2>3. CASE php[q].pc \notin {"lock", "write"}
    BY <1>2, <1>4, <1>5, <2>3 DEF Placed
  <2>4. QED
    BY <2>1, <2>2, <2>3
<1>6. Placed(b, file') /\ ~Writes(b)
  BY <1>1 DEF Placed, Writes
<1>7. ProcsOK'
  BY <1>1, <1>3, <1>5 DEF ProcsOK
<1>8. \A q \in Procs : Placed(php'[q], file')
  BY <1>3, <1>5, <1>6
<1>9. \A q, s \in Procs : Writes(php'[q]) /\ Writes(php'[s]) => q = s
  BY <1>3, <1>5, <1>6 DEF ServerOK, WritersOK
<1>10. FileOK'
  <2>1. CASE Readable
    BY <1>2, <2>1, TextGrows DEF ServerOK, FileOK
  <2>2. CASE ~Readable
    BY <1>2, <2>2 DEF FileOK
  <2>3. QED
    BY <2>1, <2>2
<1>11. QED
  BY <1>1, <1>3, <1>5, <1>7, <1>8, <1>9, <1>10 DEF ServerOK, WritersOK

(* A call of the device arrives; one for the time gets that of this moment. *)
LEMMA BegunCall ==
    ASSUME now \in Time, NEW p \in Calls, NEW o, NEW as, NEW an, ProcOK(p, o, as, an), o.pc = "sent"
    PROVE  /\ ProcOK(p, Begun(o), as, an)
           /\ Begun(o).pc \notin {"lock", "write"}
           /\ TimeCall(o, now) => TimeCall(Begun(o), now)
<1>1. p \in Procs /\ p \notin Guests
  BY FileAssumption DEF Procs
<1>2. o \in Process /\ Fit(o, as, an) /\ OfCall(o)
  BY DEF ProcOK, Fit
<1>3. o.op \in {"receive", "set_response", "get_unixtime"}
  BY <1>2 DEF OfCall, Process, Op
<1>4. ASSUME NEW c \in {"receive", "find"}, Begun(o) = [o EXCEPT !.pc = c], o.op # "get_unixtime"
      PROVE  /\ ProcOK(p, Begun(o), as, an)
             /\ Begun(o).pc \notin {"lock", "write"}
             /\ TimeCall(o, now) => TimeCall(Begun(o), now)
  <2>1. PICK r : r = Begun(o)
    OBVIOUS
  <2>2. /\ r.pc = c /\ r.pos = o.pos /\ r.lines = o.lines /\ r.next = o.next /\ r.op = o.op
        /\ r.line = o.line /\ r.ix = o.ix /\ r.reply = o.reply /\ r.lost = o.lost
    BY <1>2, <1>4, <2>1 DEF Process
  <2>3. r \in Process
    BY <1>2, <1>4, <2>1 DEF Process, PC
  <2>4. Fit(r, as, an)
    BY <1>2, <2>2, <2>3 DEF Fit
  <2>5. OfCall(r)
    BY <1>2, <2>2 DEF OfCall
  <2>6. ~TimeCall(o, now)
    BY <1>4 DEF TimeCall
  <2>7. QED
    BY <1>1, <2>1, <2>2, <2>4, <2>5, <2>6 DEF ProcOK
<1>5. ASSUME NEW x, ReplyOK(p, x, as, an), Begun(o) = Ended([o EXCEPT !.reply = x])
      PROVE  /\ ProcOK(p, Begun(o), as, an)
             /\ Begun(o).pc \notin {"lock", "write"}
             /\ o.heard => Begun(o).pc = "done" /\ Begun(o).reply = x
  <2>1. PICK e : e = [o EXCEPT !.reply = x]
    OBVIOUS
  <2>2. e.reply = x /\ e.heard = o.heard
    BY <1>2, <2>1 DEF Process
  <2>3. Begun(o) = Ended(e)
    BY <1>5, <2>1
  <2>4. ProcOK(p, Begun(o), as, an) /\ Begun(o).pc \in {"idle", "done"}
    BY <1>1, <1>5, <2>2, <2>3, EndedOK
  <2>5. o.heard => Begun(o).pc = "done" /\ Begun(o).reply = x
    BY <2>2, <2>3 DEF Ended, Idle
  <2>6. QED
    BY <2>4, <2>5
<1>6. CASE o.op = "receive" /\ Settings
  BY <1>4, <1>6 DEF Begun
<1>7. CASE o.op = "set_response" /\ Settings
  BY <1>4, <1>7 DEF Begun
<1>8. CASE o.op = "receive" /\ ~Settings
  <2>1. ReplyOK(p, Empty, as, an)
    BY <1>1, Values DEF ReplyOK
  <2>2. Begun(o) = Ended([o EXCEPT !.reply = Empty])
    BY <1>8 DEF Begun
  <2>3. ~TimeCall(o, now)
    BY <1>8 DEF TimeCall
  <2>4. QED
    BY <1>5, <2>1, <2>2, <2>3
<1>9. CASE o.op = "set_response" /\ ~Settings
  <2>1. Begun(o) = Ended(o)
    BY <1>9 DEF Begun
  <2>2. ~TimeCall(o, now)
    BY <1>9 DEF TimeCall
  <2>3. ReplyOK(p, o.reply, as, an)
    BY <1>1, OfReply
  <2>4. QED
    BY <1>1, <2>1, <2>2, <2>3, EndedOK
<1>10. CASE o.op = "get_unixtime"
  <2>1. PICK x : x = [Blank EXCEPT !.time = now]
    OBVIOUS
  <2>2. x \in Line /\ x.time = now /\ x.resp = NoResp
    BY <2>1 DEF Blank, Line
  <2>3. Good(x, as, an)
    BY <2>1, BlankGood
  <2>4. ReplyOK(p, x, as, an)
    BY <1>1, <2>2, <2>3 DEF ReplyOK
  <2>5. Begun(o) = Ended([o EXCEPT !.reply = x])
    BY <1>10, <2>1 DEF Begun
  <2>6. now \in Nat /\ now <= now
    BY Values
  <2>7. TimeCall(o, now) => TimeCall(Begun(o), now)
    BY <1>5, <2>2, <2>4, <2>5, <2>6 DEF TimeCall
  <2>8. QED
    BY <1>5, <2>4, <2>5, <2>7
<1>11. QED
  BY <1>3, <1>6, <1>7, <1>8, <1>9, <1>10
(* The calls for the time are left alone, or get it. *)
TimeKept == \A c \in Calls : TimeCall(php[c], now) => TimeCall(php'[c], now')

(* A step of the script does not touch the calls for the time. *)
LEMMA SteadyTime ==
    ASSUME Steady, now' = now
    PROVE  TimeKept
BY DEF Steady, TimeKept, TimeCall, Procs

(* A call of the device reaches the script. *)
LEMMA StartStep ==
    ASSUME ServerOK, now \in Time, NEW c \in Calls, Start(c), UNCHANGED answers
    PROVE  ServerOK' /\ TimeKept
<1>1. c \in Procs /\ php[c].pc = "sent" /\ Run(c, php[c]) /\ asked' = asked /\ now' = now
  BY DEF Start, Run, Procs
<1>2. ProcOK(c, php[c], asked, answers)
  BY <1>1 DEF ServerOK, ProcsOK
<1>3. /\ ProcOK(c, Begun(php[c]), asked', answers)
      /\ Begun(php[c]).pc \notin {"lock", "write"}
      /\ TimeCall(php[c], now) => TimeCall(Begun(php[c]), now)
  BY <1>1, <1>2, BegunCall
<1>4. /\ ServerOK'
      /\ php'[c] = Begun(php[c])
      /\ \A q \in Procs : q # c /\ php[q].pc \in {"sent", "done"} => php'[q] = php[q]
  BY <1>1, <1>3, RunStep
<1>5. TimeKept
  BY <1>1, <1>3, <1>4 DEF TimeKept, TimeCall, Procs
<1>6. QED
  BY <1>4, <1>5

(* A guest makes a request, with its key and the second. *)
LEMMA SubmitStep ==
    ASSUME ServerOK, now \in Time, NEW g \in Guests, NEW k \in Keys, Submit(g, k), UNCHANGED answers
    PROVE  ServerOK' /\ TimeKept /\ asked' = asked \cup {[key |-> k, time |-> now, resp |-> NoResp]}
<1>1. g \in Procs /\ g \notin Calls /\ now' = now
  BY FileAssumption DEF Submit, Run, Procs
<1>2. PICK l : l = [key |-> k, time |-> NoTime, resp |-> NoResp]
  OBVIOUS
<1>3. PICK m : m = [key |-> k, time |-> now, resp |-> NoResp]
  OBVIOUS
<1>4. m \in Line /\ k # NoKey
  BY <1>3, FileAssumption DEF Line
<1>5. asked' = asked \cup {m}
  <2>1. [Blank EXCEPT !.key = k, !.time = now] = m
    <3>1. PICK x : x = [Blank EXCEPT !.key = k]
      OBVIOUS
    <3>2. x = l
      BY <1>2, <3>1 DEF Blank
    <3>3. [x EXCEPT !.time = now] = m
      BY <1>2, <1>3, <3>2
    <3>4. QED
      BY <3>1, <3>3
  <2>2. asked' = asked \cup {[Blank EXCEPT !.key = k, !.time = now]}
    BY DEF Submit
  <2>3. QED
    BY <2>1, <2>2
<1>6. PICK b : b = Begun(Send("transfer", l))
  OBVIOUS
<1>7. Run(g, Send("transfer", l))
  BY <1>2 DEF Submit, Blank
<1>8. PICK e : e = <<>>
  OBVIOUS
<1>9. Text(e, asked', answers) /\ e \in Seq(Entry)
  <2>1. Text(e, asked', answers)
    BY <1>8, EmptyText
  <2>2. QED
    BY <2>1 DEF Text
<1>10. \E c \in {"save", "open"}, n \in {"idle", "done"} :
         b = [pc |-> c, op |-> "transfer", line |-> m, ix |-> 0, lines |-> e, pos |-> 0,
              lost |-> FALSE, next |-> n, heard |-> TRUE, reply |-> NoReply]
  <2>1. PICK s : s = Send("transfer", l)
    OBVIOUS
  <2>2. s = [pc |-> "sent", op |-> "transfer", line |-> l, ix |-> 0, lines |-> e, pos |-> 0,
             lost |-> FALSE, next |-> "idle", heard |-> TRUE, reply |-> NoReply]
    BY <1>8, <2>1 DEF Send, Idle
  <2>3. CASE Settings
    <3>1. b = [s EXCEPT !.pc = "save", !.line.time = now]
      BY <1>6, <2>1, <2>2, <2>3 DEF Begun
    <3>2. b = [pc |-> "save", op |-> "transfer", line |-> m, ix |-> 0, lines |-> e, pos |-> 0,
               lost |-> FALSE, next |-> "idle", heard |-> TRUE, reply |-> NoReply]
      BY <1>2, <1>3, <2>2, <3>1
    <3>3. QED
      BY <3>2
  <2>4. CASE ~Settings
    <3>1. b = [s EXCEPT !.pc = "open", !.line.time = now, !.next = "done"]
      BY <1>6, <2>1, <2>2, <2>4 DEF Begun
    <3>2. b = [pc |-> "open", op |-> "transfer", line |-> m, ix |-> 0, lines |-> e, pos |-> 0,
               lost |-> FALSE, next |-> "done", heard |-> TRUE, reply |-> NoReply]
      BY <1>2, <1>3, <2>2, <3>1
    <3>3. QED
      BY <3>2
  <2>5. QED
    BY <2>3, <2>4
<1>11. PICK c \in {"save", "open"}, n \in {"idle", "done"} :
         b = [pc |-> c, op |-> "transfer", line |-> m, ix |-> 0, lines |-> e, pos |-> 0,
              lost |-> FALSE, next |-> n, heard |-> TRUE, reply |-> NoReply]
  BY <1>10
<1>12. /\ b.pc = c /\ b.op = "transfer" /\ b.line = m /\ b.lines = e /\ b.pos = 0 /\ b.next = n
       /\ b.reply = NoReply
  BY <1>11
<1>13. b \in Process
  BY <1>4, <1>9, <1>11 DEF Process, PC, Op
<1>14. Good(m, asked', answers) /\ m.time # NoTime
  <2>1. m.key = k /\ m.time = now /\ m.resp = NoResp /\ m \in asked'
    BY <1>3, <1>5
  <2>2. m.time # NoTime
    BY <2>1, Values
  <2>3. QED
    BY <1>3, <1>4, <2>1, <2>2 DEF Good
<1>15. Fit(b, asked', answers)
  <2>1. ~(b.pos > 1) /\ b.pos <= 1 /\ b.pc \notin {"write", "lock", "replace"} /\ b.next \in {"idle", "done"}
    BY <1>12
  <2>2. b.reply \notin Line
    BY <1>12, Values
  <2>3. QED
    BY <1>9, <1>12, <1>13, <1>14, <2>1, <2>2, Zenon DEF Fit
<1>16. OfGuest(b)
  BY <1>12, <1>14 DEF OfGuest
<1>17. ProcOK(g, b, asked', answers) /\ b.pc \notin {"lock", "write"}
  BY <1>1, <1>12, <1>15, <1>16 DEF ProcOK
<1>18. /\ ServerOK'
       /\ \A q \in Procs : q # g /\ php[q].pc \in {"sent", "done"} => php'[q] = php[q]
  BY <1>1, <1>5, <1>6, <1>7, <1>17, RunStep
<1>19. TimeKept
  BY <1>1, <1>18 DEF TimeKept, TimeCall, Procs
<1>20. QED
  BY <1>3, <1>5, <1>18, <1>19

(* A call that is lost ends without an answer. *)
LEMMA LostStep ==
    ASSUME ServerOK, NEW c \in Calls, Lost(c), UNCHANGED answers
    PROVE  ServerOK' /\ TimeKept
<1>1. /\ c \in Procs /\ php[c].pc = "sent" /\ End(c) /\ UNCHANGED <<file, asked, answers>>
      /\ now' = now
  BY DEF Lost, Procs
<1>2. ProcOK(c, php[c], asked, answers)
  BY <1>1 DEF ServerOK, ProcsOK
<1>3. PICK r : r = Ended(php[c])
  OBVIOUS
<1>4. php' = [php EXCEPT ![c] = r]
  BY <1>1, <1>3 DEF End
<1>5. ProcOK(c, r, asked, answers) /\ r.pc \notin {"lock", "write"}
  BY <1>1, <1>2, <1>3, EndedOK, OfReply
<1>6. ServerOK' /\ \A q \in Procs : php'[q] = IF q = c THEN r ELSE php[q]
  BY <1>1, <1>4, <1>5, OneProc
<1>7. TimeCall(php[c], now) => TimeCall(r, now)
  <2>1. SUFFICES ASSUME TimeCall(php[c], now)
                 PROVE  TimeCall(r, now)
    OBVIOUS
  <2>2. php[c].heard /\ php[c].reply = NoReply
    BY <1>1, <2>1 DEF TimeCall
  <2>3. r.pc = "done" /\ r.reply = NoReply
    BY <1>3, <2>2 DEF Ended, Idle
  <2>4. QED
    BY <2>3 DEF TimeCall
<1>8. TimeKept
  BY <1>1, <1>6, <1>7 DEF TimeKept, Procs
<1>9. QED
  BY <1>6, <1>8

(* A step of the server, the clock apart. *)
LEMMA ScriptStep ==
    ASSUME ServerOK, NEW p \in Procs, Script(p), UNCHANGED answers
    PROVE  ServerOK' /\ TimeKept /\ UNCHANGED <<now, asked>>
<1>1. UNCHANGED <<now, asked>>
  BY DEF Script, put_line_to_file, check_if_file_correct, get_request_from_file,
         set_response_in_file, replace_line_in_file, get_response_from_file, Open, Write
<1>2. ServerOK' /\ Steady
  BY PutStep, CheckStep, ReceiveStep, FindStep, ReplaceStep, WaitStep, OpenStep, WriteStep DEF Script
<1>3. QED
  BY <1>1, <1>2, SteadyTime

(* What the server does, the device's side of the invariant outlives. *)
LEMMA ServerStep ==
    ASSUME IInv, ServerNext, UNCHANGED device
    PROVE  IInv'
<1>1. UNCHANGED <<localUnixtime, unx_ms, dpc, call, answers>>
  BY DEF device
<1>2. now \in Time /\ now \in Nat
  BY Values DEF IInv, DeviceOK, ClockOK
<1>3. CASE Tick
  <2>1. now < MaxTime /\ now' = now + 1 /\ UNCHANGED <<file, php, asked>>
    BY <1>3 DEF Tick
  <2>2. ServerOK'
    BY <1>1, <2>1 DEF IInv, ServerOK, FileOK, ProcsOK, WritersOK
  <2>3. ClockOK'
    BY <1>1, <1>2, <2>1, FileAssumption DEF IInv, DeviceOK, ClockOK, Time
  <2>4. CallOK'
    <3>1. \A r : TimeCall(r, now) => TimeCall(r, now')
      <4>1. \A t \in Time : t <= now => t <= now'
        BY <1>2, <2>1, Values
      <4>2. QED
        BY <4>1 DEF TimeCall
    <3>2. QED
      BY <1>1, <2>1, <3>1 DEF IInv, DeviceOK, CallOK
  <2>5. \A l \in answers : l.time \in Nat
    BY Values DEF IInv, DeviceOK, HistoryOK
  <2>6. HistoryOK'
    BY <1>1, <1>2, <2>1, <2>5, DeviceAssumption DEF IInv, DeviceOK, HistoryOK, RefusedOnlyWhenOld
  <2>7. QED
    BY <2>2, <2>3, <2>4, <2>6 DEF IInv, DeviceOK
<1>4. CASE ~Tick
  <2>1. ServerOK' /\ TimeKept /\ now' = now /\ asked' \subseteq Line
    <3>1. asked \subseteq Line /\ ServerOK
      BY DEF IInv, DeviceOK, HistoryOK
    <3>2. CASE \E c \in Calls : Start(c)
      BY <1>1, <1>2, <3>1, <3>2, StartStep DEF Start, Run
    <3>3. CASE \E c \in Calls : Lost(c)
      BY <1>1, <3>1, <3>3, LostStep DEF Lost
    <3>4. CASE \E p \in Procs : Script(p)
      BY <1>1, <3>1, <3>4, ScriptStep
    <3>5. CASE \E g \in Guests, k \in Keys : Submit(g, k)
      <4>1. PICK g \in Guests, k \in Keys : Submit(g, k)
        BY <3>5
      <4>2. now' = now
        BY <4>1 DEF Submit, Run
      <4>3. [key |-> k, time |-> now, resp |-> NoResp] \in Line
        BY <1>2 DEF Line
      <4>4. QED
        BY <1>1, <1>2, <3>1, <4>1, <4>2, <4>3, SubmitStep
    <3>6. QED
      BY <1>4, <3>2, <3>3, <3>4, <3>5 DEF ServerNext
  <2>2. ClockOK' /\ HistoryOK'
    BY <1>1, <2>1 DEF IInv, DeviceOK, ClockOK, HistoryOK, RefusedOnlyWhenOld
  <2>3. CallOK'
    BY <1>1, <2>1 DEF IInv, DeviceOK, CallOK, TimeKept
  <2>4. QED
    BY <2>1, <2>2, <2>3 DEF IInv, DeviceOK
<1>5. QED
  BY <1>3, <1>4
-----------------------------------------------------------------------------
(* The steps of the device. *)

(* A call is closed. *)
LEMMA ClosedOK ==
    ASSUME ServerOK, call \in Calls \cup {NoCall}
    PROVE  /\ Closed = [q \in Procs |-> Closed[q]]
           /\ \A q \in Procs : /\ ProcOK(q, Closed[q], asked, answers)
                               /\ Placed(Closed[q], file)
                               /\ Writes(Closed[q]) => Writes(php[q])
<1>1. /\ php = [q \in Procs |-> php[q]]
      /\ \A q \in Procs : /\ ProcOK(q, php[q], asked, answers) /\ php[q] \in Process
                          /\ Placed(php[q], file)
  BY DEF ServerOK, ProcsOK, WritersOK, ProcOK, Fit
<1>2. CASE call = NoCall
  BY <1>1, <1>2 DEF Closed
<1>3. CASE call # NoCall
  <2>1. PICK c : c = call
    OBVIOUS
  <2>2. c \in Calls /\ c \in Procs /\ c \notin Guests
    BY <1>3, <2>1, FileAssumption DEF Procs
  <2>3. PICK r : r = Close(c)
    OBVIOUS
  <2>4. Closed = [php EXCEPT ![c] = r]
    BY <1>3, <2>1, <2>3 DEF Closed
  <2>5. Closed = [q \in Procs |-> IF q = c THEN r ELSE php[q]]
    BY <1>1, <2>4
  <2>6. ProcOK(c, r, asked, answers) /\ Placed(r, file) /\ (Writes(r) => Writes(php[c]))
    <3>1. CASE php[c].pc = "done"
      <4>1. r = Idle
        BY <2>3, <3>1 DEF Close
      <4>2. ProcOK(c, r, asked, answers) /\ r.pc = "idle"
        BY <2>2, <4>1, IdleOK
      <4>3. QED
        BY <4>2 DEF Placed, Writes
    <3>2. CASE php[c].pc # "done"
      <4>1. PICK o : o = php[c]
        OBVIOUS
      <4>2. o \in Process /\ r = [o EXCEPT !.heard = FALSE, !.reply = NoReply]
        BY <1>1, <2>2, <2>3, <3>2, <4>1 DEF Close
      <4>3. /\ r.pc = o.pc /\ r.pos = o.pos /\ r.lines = o.lines /\ r.next = o.next /\ r.op = o.op
            /\ r.line = o.line /\ r.ix = o.ix /\ r.reply = NoReply /\ r.lost = o.lost
        BY <4>2 DEF Process
      <4>4. r \in Process
        BY <4>2 DEF Process
      <4>5. r.reply \notin Line
        BY <4>3, Values
      <4>6. Fit(r, asked, answers)
        BY <1>1, <2>2, <4>1, <4>3, <4>4, <4>5 DEF ProcOK, Fit
      <4>7. OfCall(r)
        BY <1>1, <2>2, <4>1, <4>3, <4>5 DEF ProcOK, OfCall
      <4>8. Placed(o, file)
        BY <1>1, <2>2, <4>1
      <4>9. QED
        BY <2>2, <4>1, <4>3, <4>6, <4>7, <4>8 DEF ProcOK, Placed, Writes
    <3>3. QED
      BY <3>1, <3>2
  <2>7. \A q \in Procs : Closed[q] = IF q = c THEN r ELSE php[q]
    BY <2>5
  <2>8. Closed = [q \in Procs |-> Closed[q]]
    BY <2>5
  <2>9. QED
    BY <1>1, <2>6, <2>7, <2>8
<1>4. QED
  BY <1>2, <1>3

(* RequestTransponder closes its call and returns. *)
LEMMA ReturnStep ==
    ASSUME ServerOK, call \in Calls \cup {NoCall}, Return, UNCHANGED <<file, asked, answers>>
    PROVE  ServerOK' /\ CallOK'
<1>1. php' = Closed /\ call' = NoCall /\ dpc' = "idle"
  BY DEF Return
<1>2. /\ php' = [q \in Procs |-> php'[q]]
      /\ \A q \in Procs : /\ ProcOK(q, php'[q], asked, answers)
                          /\ Placed(php'[q], file)
                          /\ Writes(php'[q]) => Writes(php[q])
  BY <1>1, ClosedOK
<1>3. ProcsOK'
  BY <1>2 DEF ProcsOK
<1>4. WritersOK'
  BY <1>2 DEF ServerOK, WritersOK
<1>5. FileOK'
  BY DEF ServerOK, FileOK
<1>6. CallOK'
  BY <1>1 DEF CallOK, DPC
<1>7. QED
  BY <1>3, <1>4, <1>5, <1>6 DEF ServerOK

(* The device calls; its call takes the line with it. *)
LEMMA RequestStep ==
    ASSUME ServerOK, call \in Calls \cup {NoCall}, UNCHANGED <<file, asked>>,
           answers \subseteq answers',
           NEW op \in Op \ {"transfer"}, NEW line, Good(line, asked, answers'),
           NEW d \in DPC, d = "refresh" => op = "get_unixtime", Request(op, line, d)
    PROVE  ServerOK' /\ CallOK'
<1>1. PICK c \in Free : php' = [Closed EXCEPT ![c] = Send(op, line)] /\ call' = c /\ dpc' = d
  BY DEF Request
<1>2. c \in Calls /\ c \in Procs /\ c \notin Guests
  BY FileAssumption DEF Free, Procs
<1>3. PICK s : s = Send(op, line)
  OBVIOUS
<1>4. PICK e : e = <<>>
  OBVIOUS
<1>5. s = [pc |-> "sent", op |-> op, line |-> line, ix |-> 0, lines |-> e, pos |-> 0,
           lost |-> FALSE, next |-> "idle", heard |-> TRUE, reply |-> NoReply]
  BY <1>3, <1>4 DEF Send, Idle
<1>6. /\ s.pc = "sent" /\ s.op = op /\ s.line = line /\ s.lines = e /\ s.pos = 0 /\ s.next = "idle"
      /\ s.heard = TRUE /\ s.reply = NoReply
  BY <1>5
<1>7. Text(e, asked, answers') /\ e \in Seq(Entry)
  <2>1. Text(e, asked, answers')
    BY <1>4, EmptyText
  <2>2. QED
    BY <2>1 DEF Text
<1>8. s \in Process
  BY <1>5, <1>7 DEF Process, PC, Good
<1>9. Fit(s, asked, answers')
  <2>1. ~(s.pos > 1) /\ s.pos <= 1 /\ s.pc \notin {"write", "lock", "replace"} /\ s.next = "idle"
    BY <1>6
  <2>2. s.reply \notin Line
    BY <1>6, Values
  <2>3. QED
    BY <1>6, <1>7, <1>8, <2>1, <2>2, Zenon DEF Fit
<1>10. OfCall(s)
  BY <1>6, Values DEF OfCall
<1>11. ProcOK(c, s, asked, answers') /\ Placed(s, file) /\ ~Writes(s)
  BY <1>2, <1>6, <1>9, <1>10 DEF ProcOK, Placed, Writes
<1>12. /\ Closed = [q \in Procs |-> Closed[q]]
       /\ \A q \in Procs : /\ ProcOK(q, Closed[q], asked, answers)
                           /\ Placed(Closed[q], file)
                           /\ Writes(Closed[q]) => Writes(php[q])
  BY ClosedOK
<1>13. \A q \in Procs : ProcOK(q, Closed[q], asked, answers')
  BY <1>12, ProcGrows
<1>14. PICK f : f = Closed
  OBVIOUS
<1>15. php' = [f EXCEPT ![c] = s] /\ f = [q \in Procs |-> f[q]]
  BY <1>1, <1>3, <1>12, <1>14
<1>16. php' = [q \in Procs |-> IF q = c THEN s ELSE f[q]]
  BY <1>15
<1>17. /\ php' = [q \in Procs |-> php'[q]]
       /\ \A q \in Procs : php'[q] = IF q = c THEN s ELSE Closed[q]
  BY <1>14, <1>16
<1>18. \A q \in Procs : ProcOK(q, php'[q], asked, answers')
  BY <1>11, <1>13, <1>17
<1>19. ProcsOK'
  BY <1>17, <1>18 DEF ProcsOK
<1>20. \A q \in Procs : Placed(php'[q], file) /\ (Writes(php'[q]) => Writes(php[q]))
  BY <1>11, <1>12, <1>17
<1>21. WritersOK'
  BY <1>20 DEF ServerOK, WritersOK
<1>22. FileOK'
  BY TextGrows DEF ServerOK, FileOK
<1>23. d = "refresh" => TimeCall(php'[c], now')
  BY <1>2, <1>6, <1>17 DEF TimeCall
<1>24. CallOK'
  BY <1>1, <1>2, <1>23 DEF CallOK
<1>25. QED
  BY <1>19, <1>21, <1>22, <1>24 DEF ServerOK

(* A request the device has received: no line is made up. *)
LEMMA ReceivedGood ==
    ASSUME IInv, Received
    PROVE  Good(Reply, asked, answers) /\ Reply \in Line /\ Reply.resp = NoResp
<1>1. Reply \in Line /\ NoReply \notin Line
  BY Values DEF Received
<1>2. call \in Calls /\ Reply = php[call].reply
  BY <1>1 DEF Reply, IInv, DeviceOK, CallOK
<1>3. call \in Procs
  BY <1>2 DEF Procs
<1>4. ProcOK(call, php[call], asked, answers)
  BY <1>3 DEF IInv, ServerOK, ProcsOK
<1>5. QED
  BY <1>1, <1>2, <1>4 DEF ProcOK, Fit, OfCall
(* The device answers with a word that is not "too old", or the request is. *)
LEMMA RespondStep ==
    ASSUME IInv, Received, Reply.time # NoTime, NEW resp \in Resps, Respond(resp),
           resp = TooOld => OutOfDate
    PROVE  IInv'
<1>1. /\ ServerOK /\ ClockOK /\ HistoryOK /\ call \in Calls \cup {NoCall}
  BY DEF IInv, DeviceOK, CallOK
<1>2. PICK x : x = Reply
  OBVIOUS
<1>3. Good(x, asked, answers) /\ x \in Line /\ x.resp = NoResp /\ x.time # NoTime
  BY <1>2, ReceivedGood
<1>4. x.time \in Time /\ x.time \in Nat /\ now \in Nat
  BY <1>1, <1>3, Values DEF Line, ClockOK
<1>5. PICK a : a = [time |-> x.time, resp |-> resp]
  OBVIOUS
<1>6. PICK l : l = [x EXCEPT !.resp = resp]
  OBVIOUS
<1>7. /\ Request("set_response", l, "answer") /\ answers' = answers \cup {a}
      /\ UNCHANGED <<now, file, asked, localUnixtime, unx_ms>>
  BY <1>2, <1>5, <1>6 DEF Respond
<1>8. l \in Line /\ l.key = x.key /\ l.time = x.time /\ l.resp = resp
  BY <1>3, <1>6 DEF Line
<1>9. Good(l, asked, answers')
  <2>1. a \in answers'
    BY <1>7
  <2>2. QED
    BY <1>3, <1>5, <1>8, <2>1 DEF Good
<1>10. ServerOK' /\ CallOK'
  <2>1. "set_response" \in Op \ {"transfer"} /\ "answer" \in DPC /\ answers \subseteq answers'
    BY <1>7 DEF Op, DPC
  <2>2. QED
    BY <1>1, <1>7, <1>9, <2>1, RequestStep
<1>11. ClockOK'
  BY <1>1, <1>7 DEF ClockOK
<1>12. a \in [time : Time, resp : Resps] /\ a.time = x.time /\ a.resp = resp
  BY <1>4, <1>5
<1>13. resp = TooOld => now - x.time > ErequestActualSec
  BY <1>1, <1>2, <1>4, DeviceAssumption DEF OutOfDate, ClockOK
<1>14. RefusedOnlyWhenOld'
  BY <1>1, <1>7, <1>12, <1>13 DEF HistoryOK, RefusedOnlyWhenOld
<1>15. HistoryOK'
  BY <1>1, <1>7, <1>12, <1>14 DEF HistoryOK
<1>16. QED
  BY <1>10, <1>11, <1>15 DEF IInv, DeviceOK

(* A step of the device that asks for the next request or for the time. *)
LEMMA AskStep ==
    ASSUME IInv, NEW op \in {"receive", "get_unixtime"}, NEW d \in {"receive", "refresh"},
           d = "refresh" => op = "get_unixtime", Request(op, Blank, d),
           UNCHANGED <<now, file, asked, localUnixtime, unx_ms, answers>>
    PROVE  IInv'
<1>1. ServerOK /\ ClockOK /\ HistoryOK /\ call \in Calls \cup {NoCall}
  BY DEF IInv, DeviceOK, CallOK
<1>2. op \in Op \ {"transfer"} /\ d \in DPC /\ Good(Blank, asked, answers')
  BY BlankGood DEF Op, DPC
<1>3. ServerOK' /\ CallOK'
  BY <1>1, <1>2, RequestStep
<1>4. ClockOK' /\ HistoryOK'
  BY <1>1 DEF ClockOK, HistoryOK, RefusedOnlyWhenOld
<1>5. QED
  BY <1>3, <1>4 DEF IInv, DeviceOK

(* A step of the device that ends its turn, the clock set or not. *)
LEMMA TurnEnds ==
    ASSUME IInv, Return, UNCHANGED <<now, file, asked, answers>>,
           localUnixtime' \in Nat, unx_ms' \in Nat, localUnixtime' <= unx_ms', unx_ms' <= now
    PROVE  IInv'
<1>1. ServerOK /\ ClockOK /\ HistoryOK /\ call \in Calls \cup {NoCall}
  BY DEF IInv, DeviceOK, CallOK
<1>2. ServerOK' /\ CallOK'
  BY <1>1, ReturnStep
<1>3. ClockOK' /\ HistoryOK'
  BY <1>1 DEF ClockOK, HistoryOK, RefusedOnlyWhenOld
<1>4. QED
  BY <1>2, <1>3 DEF IInv, DeviceOK

-----------------------------------------------------------------------------
(* The invariant. *)

(* IInv holds when server and device start. *)
LEMMA InitInv == Init => IInv
<1> SUFFICES ASSUME Init
             PROVE  IInv
  OBVIOUS
<1>1. /\ now = 1 /\ file = NoFile /\ php = [p \in Procs |-> Idle] /\ asked = {}
      /\ localUnixtime = 0 /\ unx_ms = 0 /\ dpc = "idle" /\ call = NoCall /\ answers = {}
  BY DEF Init, ServerInit
<1>2. \A p \in Procs : php[p] = Idle
  BY <1>1
<1>3. \A p \in Procs : ProcOK(p, Idle, asked, answers) /\ Idle.pc = "idle"
  BY IdleOK
<1>4. php = [p \in Procs |-> php[p]]
  BY <1>1
<1>5. ProcsOK
  BY <1>2, <1>3, <1>4 DEF ProcsOK
<1>6. WritersOK
  BY <1>2, <1>3 DEF WritersOK, Placed, Writes
<1>7. FileOK
  BY <1>1 DEF FileOK
<1>8. ClockOK
  BY <1>1, FileAssumption DEF ClockOK, Time
<1>9. CallOK /\ HistoryOK
  BY <1>1 DEF CallOK, DPC, HistoryOK, RefusedOnlyWhenOld
<1>10. QED
  BY <1>5, <1>6, <1>7, <1>8, <1>9 DEF IInv, ServerOK, DeviceOK

(* Every step keeps IInv. *)
LEMMA NextInv == IInv /\ [Next]_vars => IInv'
<1> SUFFICES ASSUME IInv, [Next]_vars
             PROVE  IInv'
  OBVIOUS
<1>1. /\ now \in Nat /\ localUnixtime \in Nat /\ unx_ms \in Nat
      /\ localUnixtime <= unx_ms /\ unx_ms <= now
  BY Values DEF IInv, DeviceOK, ClockOK
<1>2. CASE ServerNext /\ UNCHANGED device
  BY <1>2, ServerStep
<1>3. CASE Poll
  BY <1>3, AskStep DEF Poll
<1>4. CASE Timeout
  <2>1. /\ localUnixtime' \in {0, localUnixtime} /\ Return
        /\ UNCHANGED <<now, file, asked, unx_ms, answers>>
    BY <1>4 DEF Timeout
  <2>2. QED
    BY <1>1, <2>1, TurnEnds
<1>5. CASE AskTime
  BY <1>5, AskStep DEF AskTime
<1>6. CASE SetTime
  <2>1. /\ dpc = "refresh" /\ Reply # NoReply /\ Return /\ localUnixtime' = Reply.time
        /\ unx_ms' = now /\ UNCHANGED <<now, file, asked, answers>>
    BY <1>6 DEF SetTime
  <2>2. call \in Calls /\ TimeCall(php[call], now)
    BY <2>1 DEF IInv, DeviceOK, CallOK
  <2>3. Reply = php[call].reply
    BY <2>1 DEF Reply
  <2>4. Reply.time \in Time /\ Reply.time <= now
    BY <2>1, <2>2, <2>3 DEF TimeCall
  <2>5. localUnixtime' \in Nat /\ localUnixtime' <= unx_ms' /\ unx_ms' \in Nat /\ unx_ms' <= now
    <3>1. Reply.time \in Nat
      BY <2>4, Values
    <3>2. now <= now
      BY <1>1
    <3>3. QED
      BY <1>1, <2>1, <2>4, <3>1, <3>2
  <2>6. QED
    BY <2>1, <2>5, TurnEnds
<1>7. CASE MoveTime
  <2>1. /\ Return /\ localUnixtime' = localUnixtime + now - unx_ms /\ unx_ms' = now
        /\ UNCHANGED <<now, file, asked, answers>>
    BY <1>7 DEF MoveTime
  <2>2. localUnixtime' \in Nat /\ localUnixtime' <= unx_ms' /\ unx_ms' \in Nat /\ unx_ms' <= now
    BY <1>1, <2>1
  <2>3. QED
    BY <2>1, <2>2, TurnEnds
<1>8. CASE Ignore
  BY <1>1, <1>8, TurnEnds DEF Ignore
<1>9. CASE Refuse
  <2>1. TooOld \in Resps
    BY DeviceAssumption
  <2>2. QED
    BY <1>9, <2>1, RespondStep DEF Refuse
<1>10. CASE Execute
  <2>1. PICK resp \in Resps \ {TooOld} : Respond(resp)
    BY <1>10 DEF Execute
  <2>2. Received /\ Reply.time # NoTime
    BY <1>10 DEF Execute, Carried
  <2>3. QED
    BY <2>1, <2>2, RespondStep
<1>11. CASE Answered
  BY <1>1, <1>11, TurnEnds DEF Answered
<1>12. CASE Restart
  <2>1. /\ Return /\ localUnixtime' = 0 /\ unx_ms' = 0 /\ UNCHANGED <<now, file, asked, answers>>
    BY <1>12 DEF Restart
  <2>2. QED
    BY <1>1, <2>1, TurnEnds
<1>13. CASE UNCHANGED vars
  BY <1>13 DEF vars, device, IInv, ServerOK, DeviceOK, FileOK, ProcsOK, WritersOK, ClockOK, CallOK,
               HistoryOK, RefusedOnlyWhenOld
<1>14. QED
  BY <1>2, <1>3, <1>4, <1>5, <1>6, <1>7, <1>8, <1>9, <1>10, <1>11, <1>12, <1>13 DEF Next

(* Whatever order the processes of guests and device run in, whatever of
   them is lost, cut off or restarted, IInv holds. *)
THEOREM RemoteInvariant == Spec => []IInv
<1>1. Init => IInv
  BY InitInv
<1>2. IInv /\ [Next]_vars => IInv'
  BY NextInv
<1>3. QED
  BY <1>1, <1>2, PTL DEF Spec

(* TypeOK is an invariant: in lock.php no process ever writes past the end of
   the file it sees, and the device's clock never leaves the seconds of the
   server. *)
THEOREM RemoteTypeOK == Spec => []TypeOK
<1>1. IInv => TypeOK
  <2> SUFFICES ASSUME IInv
               PROVE  TypeOK
    OBVIOUS
  <2>1. \A p \in Procs : php[p] \in Process
    BY DEF IInv, ServerOK, ProcsOK, ProcOK, Fit
  <2>2. php \in [Procs -> Process]
    <3>1. php = [p \in Procs |-> php[p]]
      BY DEF IInv, ServerOK, ProcsOK
    <3>2. QED
      BY <2>1, <3>1
  <2>3. file = NoFile \/ file \in Seq(Entry)
    BY DEF IInv, ServerOK, FileOK, Text
  <2>4. unx_ms \in 0 .. MaxTime /\ localUnixtime \in Nat /\ now \in Time
    BY FileAssumption DEF IInv, DeviceOK, ClockOK, Time
  <2>5. dpc \in DPC /\ call \in Calls \cup {NoCall}
    BY DEF IInv, DeviceOK, CallOK
  <2>6. asked \subseteq Line /\ answers \subseteq [time : Time, resp : Resps]
    BY DEF IInv, DeviceOK, HistoryOK
  <2>7. \A p \in Procs : php[p].pc = "write" => php[p].lines # <<>>
    BY DEF IInv, ServerOK, ProcsOK, ProcOK, Fit
  <2>8. \A p \in Procs : php[p].pc = "write" /\ ~php[p].lost
                            => file # NoFile /\ php[p].pos <= Len(file) + 1
    BY DEF IInv, ServerOK, WritersOK, Placed
  <2>9. QED
    BY <2>2, <2>3, <2>4, <2>5, <2>6, <2>7, <2>8 DEF TypeOK
<1>2. QED
  BY <1>1, RemoteInvariant, PTL

(* NothingInvented: a request that reaches RequestTransponder with a key is
   one that a guest made, however many processes of lock.php rewrite the file
   at once. *)
THEOREM RequestsAreMade == Spec => []NothingInvented
<1>1. IInv => NothingInvented
  <2> SUFFICES ASSUME IInv, Received, Reply.key # NoKey
               PROVE  Reply \in asked
    BY DEF NothingInvented
  <2>1. PICK x : x = Reply
    OBVIOUS
  <2>2. Good(x, asked, answers) /\ x \in Line /\ x.resp = NoResp /\ x.key # NoKey
    BY <2>1, ReceivedGood
  <2>3. [key |-> x.key, time |-> x.time, resp |-> NoResp] \in asked
    BY <2>2 DEF Good
  <2>4. x = [key |-> x.key, time |-> x.time, resp |-> NoResp]
    BY <2>2 DEF Line
  <2>5. QED
    BY <2>1, <2>3, <2>4
<1>2. QED
  BY <1>1, RemoteInvariant, PTL

(* AnswerOfTheSecond: what the form shows a guest is an answer the device gave
   to a request of the same second. *)
THEOREM AnswersAreGiven == Spec => []AnswerOfTheSecond
<1>1. IInv => AnswerOfTheSecond
  <2> SUFFICES ASSUME IInv, NEW g \in Guests, php[g].reply # NoReply
               PROVE  [time |-> php[g].reply.time, resp |-> php[g].reply.resp] \in answers
    BY DEF AnswerOfTheSecond
  <2>1. g \in Procs
    BY DEF Procs
  <2>2. ProcOK(g, php[g], asked, answers)
    BY <2>1 DEF IInv, ServerOK, ProcsOK
  <2>3. QED
    BY <2>2 DEF ProcOK, Fit, OfGuest, Good
<1>2. QED
  BY <1>1, RemoteInvariant, PTL

(* RefusedOnlyWhenOld: RequestTransponder answers "too old" only
   to a request older than ErequestActualSec by the server's clock: the
   device's own is never ahead of it. *)
THEOREM RefusalsAreDue == Spec => []RefusedOnlyWhenOld
<1>1. IInv => RefusedOnlyWhenOld
  BY DEF IInv, DeviceOK, HistoryOK
<1>2. QED
  BY <1>1, RemoteInvariant, PTL
=============================================================================
