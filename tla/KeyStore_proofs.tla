--------------------------- MODULE KeyStore_proofs ---------------------------
(***************************************************************************)
(* Proofs about KeyStore and UnsavedKeys, for any keys, any capacity and   *)
(* any length of the uploaded and downloaded files.                        *)
(***************************************************************************)
EXTENDS UnsavedKeys, FiniteSetTheorems, TLAPS

(* The inductive invariant.  DistinctKeys and FlashIsPrefix need each other
   only through TypeOK; BlackSticky needs all of it. *)
IInv == TypeOK /\ DistinctKeys /\ FlashIsPrefix

-----------------------------------------------------------------------------
(* What the operations on the slot array do. *)

(* With distinct keys, searchKey returns the slot that holds the key. *)
LEMMA SearchFound ==
    ASSUME NEW d \in SWdata, Distinct(d), NEW name, searchKey(d, name) # -1
    PROVE  /\ searchKey(d, name) \in Active(d)
           /\ d.Ekey[searchKey(d, name)].key = name
<1> DEFINE First(i) == /\ d.Ekey[i].key = name
                       /\ \A j \in 0 .. i - 1 : d.Ekey[j].key # name
<1>1. name \in Stored(d)
  BY DEF searchKey
<1>2. PICK i \in Active(d) : d.Ekey[i].key = name
  BY <1>1 DEF Stored
<1>3. \A j \in 0 .. i - 1 : j \in Active(d) /\ j # i
  BY <1>2 DEF Active, SWdata
<1>4. First(i)
  BY <1>2, <1>3 DEF Distinct
<1>5. searchKey(d, name) = CHOOSE n \in Active(d) : First(n)
  BY <1>1 DEF searchKey
<1>6. QED
  BY <1>4, <1>5

(* addKey of a key that is not refused keeps type and distinctness and only
   writes the slot behind the active ones. *)
LEMMA AddKeyLemma ==
    ASSUME NEW d \in SWdata, Distinct(d), NEW name \in Names, ~Refused(d, name)
    PROVE  /\ addKey(d, name) \in SWdata
           /\ Distinct(addKey(d, name))
           /\ addKey(d, name).Ekeys = d.Ekeys + 1
           /\ \A i \in Active(d) : addKey(d, name).Ekey[i] = d.Ekey[i]
           /\ addKey(d, name).Ekey[d.Ekeys] = [key |-> Trunc[name], black |-> FALSE]
<1> DEFINE e == addKey(d, name)
           new == [key |-> Trunc[name], black |-> FALSE]
<1>1. d.Ekeys \in Nat /\ d.Ekeys \in Index /\ d.Ekeys + 1 \in 0 .. MAX_KEYS /\ d.Ekey \in [Index -> Slot]
  BY BoundsAssumption DEF SWdata, Refused, IsFull, Index
<1>2. new \in Slot /\ new.key \in Names
  BY NamesAssumption DEF Slot
<1>3. e = [Ekeys |-> d.Ekeys + 1, Ekey |-> [d.Ekey EXCEPT ![d.Ekeys] = new]]
  BY DEF addKey
<1> HIDE DEF e, new
<1>4. e \in SWdata
  BY <1>1, <1>2, <1>3 DEF SWdata
<1>5. e.Ekeys = d.Ekeys + 1 /\ e.Ekey[d.Ekeys] = new
  BY <1>1, <1>3
<1>6. \A i \in Active(d) : i \in Index /\ i # d.Ekeys /\ e.Ekey[i] = d.Ekey[i]
  BY <1>1, <1>3, BoundsAssumption DEF Active, Index, SWdata
<1>7. \A i \in Active(e) : i \in Active(d) \/ i = d.Ekeys
  BY <1>1, <1>5 DEF Active
<1>8. \A i \in Active(d) : e.Ekey[i].key # new.key
  BY <1>6 DEF Refused, Stored, new
<1>9. Distinct(e)
  <2>1. \A i, j \in Active(e) : e.Ekey[i].key = e.Ekey[j].key => i = j
    BY <1>5, <1>6, <1>7, <1>8 DEF Distinct
  <2>2. NoKey \notin Stored(e)
    BY <1>2, <1>5, <1>6, <1>7, NamesAssumption DEF Distinct, Stored
  <2>3. QED
    BY <2>1, <2>2 DEF Distinct
<1>10. QED
  BY <1>4, <1>5, <1>6, <1>9 DEF e, new

(* deleteKey keeps type and distinctness; every remaining slot holds what
   some slot, other than the deleted one, held before. *)
LEMMA DeleteKeyLemma ==
    ASSUME NEW d \in SWdata, Distinct(d), NEW name, searchKey(d, name) # -1
    PROVE  /\ deleteKey(d, name) \in SWdata
           /\ Distinct(deleteKey(d, name))
           /\ \A i \in Active(deleteKey(d, name)) :
                \E j \in Active(d) \ {searchKey(d, name)} :
                    deleteKey(d, name).Ekey[i] = d.Ekey[j]
           /\ \A j \in Active(d) \ {searchKey(d, name)} :
                \E i \in Active(deleteKey(d, name)) :
                    deleteKey(d, name).Ekey[i] = d.Ekey[j]
<1> DEFINE e == deleteKey(d, name)
           n == searchKey(d, name)
           last == d.Ekeys - 1
           erased == [key |-> NoKey, black |-> FALSE]
           From(i) == IF i = n THEN last ELSE i
<1> n \in Active(d) /\ d.Ekey[n].key = name
  BY SearchFound
<1>1. d.Ekeys \in Nat /\ last \in 0 .. MAX_KEYS - 1 /\ n \in 0 .. last /\ d.Ekey \in [Index -> Slot]
  BY BoundsAssumption DEF SWdata, Active
<1>2. erased \in Slot
  BY DEF Slot
<1>3. e = [Ekeys |-> last,
           Ekey |-> IF n < last THEN [d.Ekey EXCEPT ![n] = d.Ekey[last]]
                                ELSE [d.Ekey EXCEPT ![last] = erased]]
  BY DEF deleteKey
<1>4. e.Ekeys = last /\ Active(e) = 0 .. last - 1
  BY <1>3 DEF Active
<1> HIDE DEF e, n, erased
<1>5. e \in SWdata
  <2>1. CASE n < last
    BY <1>1, <1>3, <2>1, BoundsAssumption DEF SWdata, Index
  <2>2. CASE ~(n < last)
    BY <1>1, <1>2, <1>3, <2>2, BoundsAssumption DEF SWdata, Index
  <2>3. QED
    BY <2>1, <2>2
<1>6. \A i \in Active(e) : From(i) \in Active(d) \ {n} /\ e.Ekey[i] = d.Ekey[From(i)]
  <2> SUFFICES ASSUME NEW i \in Active(e)
               PROVE  From(i) \in Active(d) \ {n} /\ e.Ekey[i] = d.Ekey[From(i)]
    OBVIOUS
  <2>1. i \in 0 .. last - 1 /\ i \in Index
    BY <1>1, <1>4, BoundsAssumption DEF Index
  <2>2. CASE i = n
    BY <1>1, <1>3, <2>1, <2>2 DEF Active
  <2>3. CASE i # n
    BY <1>1, <1>3, <2>1, <2>3 DEF Active
  <2>4. QED
    BY <2>2, <2>3
<1>7. \A i, j \in Active(e) : From(i) = From(j) => i = j
  BY <1>1, <1>4
<1>8. Distinct(e)
  <2>1. \A i, j \in Active(e) : e.Ekey[i].key = e.Ekey[j].key => i = j
    BY <1>6, <1>7 DEF Distinct
  <2>2. NoKey \notin Stored(e)
    BY <1>6 DEF Distinct, Stored
  <2>3. QED
    BY <2>1, <2>2 DEF Distinct
<1>9. \A j \in Active(d) \ {n} : \E i \in Active(e) : e.Ekey[i] = d.Ekey[j]
  <2> SUFFICES ASSUME NEW j \in Active(d) \ {n}
               PROVE  \E i \in Active(e) : From(i) = j
    BY <1>6
  <2>1. j \in 0 .. last /\ j # n
    BY <1>1 DEF Active
  <2>2. CASE j = last
    <3>1. n \in Active(e) /\ From(n) = j
      BY <1>1, <1>4, <2>1, <2>2
    <3>2. QED
      BY <3>1
  <2>3. CASE j # last
    <3>1. j \in Active(e) /\ From(j) = j
      BY <1>1, <1>4, <2>1, <2>3
    <3>2. QED
      BY <3>1
  <2>4. QED
    BY <2>2, <2>3
<1>10. QED
  BY <1>5, <1>6, <1>8, <1>9 DEF e, n

(* toBlackList changes the flag of one active slot and nothing else. *)
LEMMA ToBlackListLemma ==
    ASSUME NEW d \in SWdata, Distinct(d), NEW name, searchKey(d, name) # -1
    PROVE  /\ toBlackList(d, name) \in SWdata
           /\ Distinct(toBlackList(d, name))
           /\ toBlackList(d, name).Ekeys = d.Ekeys
           /\ \A i \in Active(d) :
                toBlackList(d, name).Ekey[i] =
                    IF i = searchKey(d, name) THEN [key |-> name, black |-> TRUE]
                                              ELSE d.Ekey[i]
<1> DEFINE e == toBlackList(d, name)
           n == searchKey(d, name)
<1> n \in Active(d) /\ d.Ekey[n].key = name
  BY SearchFound
<1>1. n \in Index /\ Active(d) \subseteq Index /\ d.Ekey \in [Index -> Slot]
  BY BoundsAssumption DEF SWdata, Active, Index
<1>2. e = [d EXCEPT !.Ekey = [d.Ekey EXCEPT ![n] = [key |-> name, black |-> TRUE]]]
  BY DEF toBlackList
<1> HIDE DEF e, n
<1>3. [key |-> name, black |-> TRUE] \in Slot
  BY <1>1 DEF Slot, n
<1>4. e \in SWdata /\ e.Ekeys = d.Ekeys
  BY <1>1, <1>2, <1>3 DEF SWdata
<1>5. \A i \in Active(d) : e.Ekey[i] = IF i = n THEN [key |-> name, black |-> TRUE] ELSE d.Ekey[i]
  BY <1>1, <1>2 DEF SWdata
<1>6. Active(e) = Active(d) /\ \A i \in Active(d) : e.Ekey[i].key = d.Ekey[i].key
  BY <1>4, <1>5 DEF Active
<1>7. Distinct(e)
  BY <1>6 DEF Distinct, Stored
<1>8. QED
  BY <1>4, <1>5, <1>7 DEF e, n

(* The values everything is reset to are in range. *)
LEMMA ZeroAndEmpty == 0 \in 0 .. MAX_KEYS /\ <<>> \in Seq(Names)
<1>1. 0 \in 0 .. MAX_KEYS
  BY BoundsAssumption
<1>2. <<>> \in Seq(Names)
  OBVIOUS
<1>3. QED
  BY <1>1, <1>2

(* Data that was just saved is a prefix of itself. *)
LEMMA SavedIsPrefix ==
    ASSUME NEW d \in SWdata
    PROVE  PrefixOf(d, d)
BY DEF PrefixOf, SWdata, Active

(* A key added in RAM only leaves the flash a prefix. *)
LEMMA AddKeepsPrefix ==
    ASSUME NEW d \in SWdata, NEW f \in SWdata, PrefixOf(f, d), Distinct(d),
           NEW name \in Names, ~Refused(d, name)
    PROVE  PrefixOf(f, addKey(d, name))
<1> DEFINE e == addKey(d, name)
<1>1. /\ e.Ekeys = d.Ekeys + 1
      /\ \A i \in Active(d) : e.Ekey[i] = d.Ekey[i]
      /\ e.Ekey[d.Ekeys] = [key |-> Trunc[name], black |-> FALSE]
  BY AddKeyLemma
<1> HIDE DEF e
<1>2. d.Ekeys \in Nat /\ f.Ekeys \in Nat /\ f.Ekeys <= d.Ekeys
  BY DEF SWdata, PrefixOf
<1>3. Active(f) \subseteq Active(d)
  BY <1>2 DEF Active
<1>4. \A i \in Active(e) : i \in Active(d) \/ i = d.Ekeys
  BY <1>1, <1>2 DEF Active
<1>5. f.Ekeys <= e.Ekeys
  BY <1>1, <1>2
<1>6. \A i \in Active(f) : e.Ekey[i] = f.Ekey[i]
  BY <1>1, <1>3 DEF PrefixOf
<1>7. \A i \in Active(e) \ Active(f) : ~e.Ekey[i].black
  BY <1>1, <1>4 DEF PrefixOf
<1>8. QED
  BY <1>5, <1>6, <1>7 DEF PrefixOf, e

(* The defaults and the erased store are well-formed and empty. *)
LEMMA EmptyStore ==
    ASSUME NEW d \in Defaults \cup {Erased}
    PROVE  d \in SWdata /\ Distinct(d) /\ d.Ekeys = 0
<1>1. d \in SWdata /\ d.Ekeys = 0
  <2>1. CASE d \in Defaults
    <3>1. PICK e \in [Index -> Garbage] : d = [Ekeys |-> 0, Ekey |-> e]
      BY <2>1 DEF Defaults
    <3>2. e \in [Index -> Slot]
      BY <3>1, BoundsAssumption
    <3>3. QED
      BY <3>1, <3>2, ZeroAndEmpty DEF SWdata
  <2>2. CASE d = Erased
    <3>1. [key |-> NoKey, black |-> FALSE] \in Slot
      BY DEF Slot
    <3>2. QED
      BY <2>2, <3>1, ZeroAndEmpty DEF Erased, SWdata
  <2>3. QED
    BY <2>1, <2>2
<1>2. Active(d) = {}
  BY <1>1 DEF Active
<1>3. QED
  BY <1>1, <1>2 DEF Distinct, Stored

-----------------------------------------------------------------------------
(* A step that leaves the store valid and either saves it or leaves the
   flash alone and a prefix preserves the part of IInv about the store. *)
LEMMA StoreStep ==
    ASSUME TypeOK, DistinctKeys,
           data' \in SWdata, Distinct(data'),
           \/ flash' = data'
           \/ flash' = flash /\ PrefixOf(flash, data')
    PROVE  flash' \in SWdata /\ DistinctKeys' /\ FlashIsPrefix'
BY SavedIsPrefix DEF TypeOK, DistinctKeys, FlashIsPrefix

(* A store of defaults satisfies the invariant. *)
LEMMA InitInv == Init => IInv
<1> SUFFICES ASSUME Init PROVE IInv
  OBVIOUS
<1>1. data \in SWdata /\ Distinct(data) /\ flash = data
  BY EmptyStore DEF Init
<1>2. TypeOK
  BY <1>1, ZeroAndEmpty DEF Init, TypeOK, PC
<1>3. QED
  BY <1>1, <1>2, SavedIsPrefix DEF IInv, DistinctKeys, FlashIsPrefix

(* One step per action.  The store part follows from the lemmas above; the
   rest of TypeOK is checked action by action. *)
LEMMA NextInv == IInv /\ [Next]_vars => IInv'
<1> SUFFICES ASSUME IInv, [Next]_vars PROVE IInv'
  OBVIOUS
<1> USE DEF IInv
<1>0. /\ data \in SWdata /\ flash \in SWdata /\ Distinct(data) /\ Distinct(flash)
      /\ PrefixOf(flash, data) /\ toks \in Seq(Names)
      /\ data.Ekeys \in 0 .. MAX_KEYS
  BY DEF TypeOK, DistinctKeys, FlashIsPrefix, SWdata
<1> DEFINE Rest == /\ upload' \in BOOLEAN
                   /\ startKeys' \in 0 .. MAX_KEYS
                   /\ inkeys' \in 0 .. MAX_KEYS
                   /\ pc' \in PC
                   /\ toks' \in Seq(Names)
<1>00. ASSUME Rest, data' \in SWdata, Distinct(data'),
              flash' = data' \/ (flash' = flash /\ PrefixOf(flash, data'))
       PROVE  IInv'
  BY <1>00, StoreStep DEF TypeOK
<1> HIDE DEF Rest
<1>1. ASSUME NEW caller \in Names, NEW name \in Names, AddKey(caller, name)
      PROVE  IInv'
  <2>1. data' \in SWdata /\ Distinct(data') /\ flash' = data'
    BY <1>0, <1>1, AddKeyLemma DEF AddKey, saveAllToEEPROM
  <2>2. Rest
    BY <1>1 DEF AddKey, Command, TypeOK, Rest
  <2>3. QED
    BY <2>1, <2>2, <1>00
<1>2. ASSUME NEW caller \in Names, NEW name \in Names, DeleteKey(caller, name)
      PROVE  IInv'
  <2>1. data' \in SWdata /\ Distinct(data') /\ flash' = data'
    BY <1>0, <1>2, DeleteKeyLemma DEF DeleteKey, saveAllToEEPROM
  <2>2. Rest
    BY <1>2 DEF DeleteKey, Command, TypeOK, Rest
  <2>3. QED
    BY <2>1, <2>2, <1>00
<1>3. ASSUME NEW caller \in Names, NEW name \in Names, ToBlackList(caller, name)
      PROVE  IInv'
  <2>1. data' \in SWdata /\ Distinct(data') /\ flash' = data'
    BY <1>0, <1>3, ToBlackListLemma DEF ToBlackList, saveAllToEEPROM
  <2>2. Rest
    BY <1>3 DEF ToBlackList, Command, TypeOK, Rest
  <2>3. QED
    BY <2>1, <2>2, <1>00
<1>4. ASSUME NEW caller \in Names, ClearKeys(caller)
      PROVE  IInv'
  <2>1. data' \in SWdata /\ Distinct(data') /\ flash' = data'
    BY <1>4, EmptyStore DEF ClearKeys, saveAllToEEPROM
  <2>2. Rest
    BY <1>4 DEF ClearKeys, Command, TypeOK, Rest
  <2>3. QED
    BY <2>1, <2>2, <1>00
<1>5. ASSUME NEW caller \in Names, Save(caller)
      PROVE  IInv'
  <2>1. data' \in SWdata /\ Distinct(data') /\ flash' = data'
    BY <1>0, <1>5 DEF Save, saveAllToEEPROM
  <2>2. Rest
    BY <1>5 DEF Save, Command, TypeOK, Rest
  <2>3. QED
    BY <2>1, <2>2, <1>00
<1>6. ASSUME NEW caller \in Names, Load(caller)
      PROVE  IInv'
  <2>1. data' \in SWdata /\ Distinct(data') /\ flash' = data'
    BY <1>0, <1>6 DEF Load
  <2>2. Rest
    BY <1>6 DEF Load, Command, TypeOK, Rest
  <2>3. QED
    BY <2>1, <2>2, <1>00
<1>7. ASSUME NEW caller \in Names, EnableUpload(caller) \/ FetchBegin(caller)
      PROVE  IInv'
  <2>1. UNCHANGED <<data, flash>>
    BY <1>7 DEF EnableUpload, FetchBegin
  <2>2. Rest
    BY <1>0, <1>7 DEF EnableUpload, FetchBegin, Command, TypeOK, Rest, PC
  <2>3. QED
    BY <1>0, <2>1, <2>2, <1>00
<1>8. ASSUME UploadStart \/ UploadEnd \/ UploadAbort
      PROVE  IInv'
  <2>1. UNCHANGED <<data, flash>>
    BY <1>8 DEF UploadStart, UploadEnd, UploadAbort
  <2>2. Rest
    BY <1>0, <1>8 DEF UploadStart, UploadEnd, UploadAbort, TypeOK, Rest, PC
  <2>3. QED
    BY <1>0, <2>1, <2>2, <1>00
<1>9. ASSUME NEW buf \in Buffer, UploadWrite(buf) \/ FetchLine(buf)
      PROVE  IInv'
  <2>1. UNCHANGED <<data, flash>>
    BY <1>9 DEF UploadWrite, FetchLine
  <2>2. buf \in Seq(Names)
    <3>1. PICK n \in 0 .. MaxTokens : buf \in [1 .. n -> Names]
      BY DEF Buffer
    <3>2. n \in Nat
      BY <3>1, BoundsAssumption
    <3>3. QED
      BY <3>1, <3>2
  <2>3. Rest
    BY <1>9, <2>2 DEF UploadWrite, FetchLine, TypeOK, Rest, PC
  <2>4. QED
    BY <1>0, <2>1, <2>3, <1>00
<1>10. ASSUME handleUploadFileStatus \/ FetchEnd
       PROVE  IInv'
  <2>1. data' = data /\ (flash' = flash \/ flash' = data)
    BY <1>10 DEF handleUploadFileStatus, FetchEnd
  <2>2. Rest
    BY <1>10, ZeroAndEmpty DEF handleUploadFileStatus, FetchEnd, TypeOK, Rest, PC
  <2>3. QED
    BY <1>0, <2>1, <2>2, <1>00
<1>11. ASSUME FetchFail \/ ScanRepeat \/ ScanEnd
       PROVE  IInv'
  <2>1. UNCHANGED <<data, flash>>
    BY <1>11 DEF FetchFail, ScanRepeat, ScanEnd
  <2>2. Rest
    BY <1>11, ZeroAndEmpty DEF FetchFail, ScanRepeat, ScanEnd, AfterError, AfterScan, TypeOK, Rest, PC
  <2>3. QED
    BY <1>0, <2>1, <2>2, <1>00
<1>12. ASSUME ScanAdd
       PROVE  IInv'
  <2>1. Head(toks) \in Names /\ Tail(toks) \in Seq(Names)
    BY <1>0, <1>12 DEF ScanAdd
  <2>2. /\ data' \in SWdata /\ Distinct(data')
        /\ flash' = flash /\ PrefixOf(flash, data')
    BY <1>0, <1>12, <2>1, AddKeyLemma, AddKeepsPrefix DEF ScanAdd
  <2>3. Rest
    BY <1>12, <2>1 DEF ScanAdd, TypeOK, Rest
  <2>4. QED
    BY <2>2, <2>3, <1>00
<1>13. ASSUME Restart
       PROVE  IInv'
  <2>1. data' \in SWdata /\ Distinct(data') /\ flash' = data'
    BY <1>0, <1>13 DEF Restart
  <2>2. Rest
    BY <1>13, ZeroAndEmpty DEF Restart, Boot, Rest, PC
  <2>3. QED
    BY <2>1, <2>2, <1>00
<1>14. ASSUME RestoreDefault
       PROVE  IInv'
  <2>1. data' \in SWdata /\ Distinct(data') /\ flash' = data'
    BY <1>14, EmptyStore DEF RestoreDefault, saveAllToEEPROM
  <2>2. Rest
    BY <1>14, ZeroAndEmpty DEF RestoreDefault, Boot, Rest, PC
  <2>3. QED
    BY <2>1, <2>2, <1>00
<1>15. CASE UNCHANGED vars
  BY <1>15 DEF vars, TypeOK, DistinctKeys, FlashIsPrefix
<1>16. QED
  BY <1>1, <1>2, <1>3, <1>4, <1>5, <1>6, <1>7, <1>8, <1>9, <1>10, <1>11,
     <1>12, <1>13, <1>14, <1>15 DEF Next

(* TypeOK, DistinctKeys and FlashIsPrefix hold in every reachable state. *)
THEOREM StoreInvariant == Spec => []IInv
<1>1. QED
  BY InitInv, NextInv, PTL DEF Spec

(* The fields keep their range, whatever the files and commands hold: the
   slot array of SWdata is never written past its end. *)
THEOREM TypeCorrect == Spec => []TypeOK
<1>1. IInv => TypeOK
  BY DEF IInv
<1>2. QED
  BY <1>1, StoreInvariant, PTL

(* No key is ever stored twice. *)
THEOREM NoDuplicates == Spec => []DistinctKeys
<1>1. IInv => DistinctKeys
  BY DEF IInv
<1>2. QED
  BY <1>1, StoreInvariant, PTL

(* The flash never holds anything but a prefix of the keys in RAM. *)
THEOREM FlashBehindRam == Spec => []FlashIsPrefix
<1>1. IInv => FlashIsPrefix
  BY DEF IInv
<1>2. QED
  BY <1>1, StoreInvariant, PTL

-----------------------------------------------------------------------------
StaysBlack(d, e) ==
    \A k \in Keys : InBlack(d, k) => InBlack(e, k) \/ k \notin Stored(e)

(* A store that keeps the active slots of another keeps its black keys. *)
LEMMA KeptSlots ==
    ASSUME NEW d, NEW e, Active(d) \subseteq Active(e),
           \A i \in Active(d) : e.Ekey[i] = d.Ekey[i]
    PROVE  StaysBlack(d, e)
BY DEF StaysBlack, InBlack

(* deleteKey moves a black key with its flag, or removes it. *)
LEMMA DeleteStaysBlack ==
    ASSUME NEW d \in SWdata, Distinct(d), NEW name, searchKey(d, name) # -1
    PROVE  StaysBlack(d, deleteKey(d, name))
<1> DEFINE e == deleteKey(d, name)
           n == searchKey(d, name)
<1>1. /\ \A i \in Active(e) : \E j \in Active(d) \ {n} : e.Ekey[i] = d.Ekey[j]
      /\ \A j \in Active(d) \ {n} : \E i \in Active(e) : e.Ekey[i] = d.Ekey[j]
  BY DeleteKeyLemma
<1>2. n \in Active(d)
  BY SearchFound
<1> HIDE DEF e, n
<1> SUFFICES ASSUME NEW k \in Keys, InBlack(d, k) PROVE InBlack(e, k) \/ k \notin Stored(e)
  BY DEF StaysBlack, e
<1>3. PICK j \in Active(d) : d.Ekey[j] = [key |-> k, black |-> TRUE]
  BY DEF InBlack
<1>4. CASE j = n
  BY <1>1, <1>2, <1>3, <1>4 DEF Distinct, Stored
<1>5. CASE j # n
  BY <1>1, <1>3, <1>5 DEF InBlack
<1>6. QED
  BY <1>4, <1>5

(* The keys that are black in RAM are black on the flash. *)
LEMMA PrefixStaysBlack ==
    ASSUME NEW d, NEW f, PrefixOf(f, d)
    PROVE  StaysBlack(d, f)
BY DEF StaysBlack, PrefixOf, InBlack

(* A step of the store leaves every key of the black list there. *)
LEMMA BlackStep == IInv /\ [Next]_vars => StaysBlack(data, data')
<1> SUFFICES ASSUME IInv, [Next]_vars PROVE StaysBlack(data, data')
  OBVIOUS
<1>0. /\ data \in SWdata /\ Distinct(data) /\ PrefixOf(flash, data)
      /\ toks \in Seq(Names)
  BY DEF IInv, TypeOK, DistinctKeys, FlashIsPrefix
<1>1. ASSUME NEW name \in Names, ~Refused(data, name), data' = addKey(data, name)
      PROVE  StaysBlack(data, data')
  <2>1. data'.Ekeys = data.Ekeys + 1 /\ \A i \in Active(data) : data'.Ekey[i] = data.Ekey[i]
    BY <1>0, <1>1, AddKeyLemma
  <2>2. Active(data) \subseteq Active(data')
    BY <1>0, <2>1 DEF Active, SWdata
  <2>3. QED
    BY <2>1, <2>2, KeptSlots
<1>2. ASSUME NEW name, searchKey(data, name) # -1, data' = toBlackList(data, name)
      PROVE  StaysBlack(data, data')
  <2>1. /\ Active(data') = Active(data)
        /\ \A i \in Active(data) : data'.Ekey[i] =
              IF i = searchKey(data, name) THEN [key |-> name, black |-> TRUE] ELSE data.Ekey[i]
    BY <1>0, <1>2, ToBlackListLemma DEF Active
  <2>2. data.Ekey[searchKey(data, name)].key = name
    BY <1>0, <1>2, SearchFound
  <2>3. ASSUME NEW k \in Keys, NEW i \in Active(data), data.Ekey[i] = [key |-> k, black |-> TRUE]
        PROVE  InBlack(data', k)
    <3>1. CASE i = searchKey(data, name)
      <4>1. k = name
        BY <2>2, <2>3, <3>1
      <4>2. QED
        BY <2>1, <3>1, <4>1 DEF InBlack
    <3>2. CASE i # searchKey(data, name)
      BY <2>1, <2>3, <3>2 DEF InBlack
    <3>3. QED
      BY <3>1, <3>2
  <2>4. QED
    BY <2>3 DEF StaysBlack, InBlack
<1>3. ASSUME data' \in Defaults \cup {Erased}
      PROVE  StaysBlack(data, data')
  <2>1. Active(data') = {}
    BY <1>3, EmptyStore DEF Active
  <2>2. QED
    BY <2>1 DEF StaysBlack, Stored
<1>4. ASSUME data' = data
      PROVE  StaysBlack(data, data')
  BY <1>4, KeptSlots
<1>5. ASSUME data' = flash
      PROVE  StaysBlack(data, data')
  BY <1>0, <1>5, PrefixStaysBlack
<1>6. ASSUME NEW caller \in Names, NEW name \in Names,
             AddKey(caller, name) \/ DeleteKey(caller, name) \/ ToBlackList(caller, name)
      PROVE  StaysBlack(data, data')
  BY <1>0, <1>1, <1>2, <1>6, DeleteStaysBlack DEF AddKey, DeleteKey, ToBlackList
<1>7. ASSUME NEW caller \in Names,
             \/ ClearKeys(caller) \/ Save(caller) \/ Load(caller)
             \/ EnableUpload(caller) \/ FetchBegin(caller)
      PROVE  StaysBlack(data, data')
  BY <1>3, <1>4, <1>5, <1>7 DEF ClearKeys, Save, Load, EnableUpload, FetchBegin
<1>8. CASE ScanAdd
  <2>1. Head(toks) \in Names
    BY <1>0, <1>8 DEF ScanAdd
  <2>2. QED
    BY <1>1, <1>8, <2>1 DEF ScanAdd
<1>9. CASE Restart \/ RestoreDefault
  BY <1>3, <1>5, <1>9 DEF Restart, RestoreDefault
<1>10. CASE \/ UploadStart \/ (\E buf \in Buffer : UploadWrite(buf) \/ FetchLine(buf))
            \/ UploadEnd \/ UploadAbort \/ handleUploadFileStatus
            \/ FetchFail \/ FetchEnd \/ ScanRepeat \/ ScanEnd \/ UNCHANGED vars
  BY <1>4, <1>10 DEF UploadStart, UploadWrite, FetchLine, UploadEnd, UploadAbort,
     handleUploadFileStatus, FetchFail, FetchEnd, ScanRepeat, ScanEnd, vars
<1>11. QED
  BY <1>6, <1>7, <1>8, <1>9, <1>10 DEF Next

(* A blacklisted key never becomes a white one, over any sequence of
   commands, uploads, downloads and restarts. *)
THEOREM BlackKeysStayBlack == Spec => BlackSticky
<1>1. IInv /\ [Next]_vars
        => [\A k \in Keys : InBlack(data, k) => InBlack(data', k) \/ k \notin Stored(data')]_vars
  BY BlackStep DEF StaysBlack
<1>2. QED
  BY <1>1, StoreInvariant, PTL DEF Spec, BlackSticky
-----------------------------------------------------------------------------
(* The refinement: what the operations on the slots do to the set of keys. *)

(* An active slot holds a key, never the content of an erased one. *)
LEMMA StoredKeys ==
    ASSUME NEW d \in SWdata, Distinct(d)
    PROVE  /\ Active(d) \subseteq Index
           /\ \A i \in Active(d) : d.Ekey[i] \in Slot /\ d.Ekey[i].key \in Keys
           /\ Stored(d) \subseteq Keys
<1>1. Active(d) \subseteq Index /\ d.Ekey \in [Index -> Slot]
  BY BoundsAssumption DEF SWdata, Active, Index
<1>2. \A i \in Active(d) : d.Ekey[i] \in Slot /\ d.Ekey[i].key \in Stored(d)
  BY <1>1 DEF Stored
<1>3. \A i \in Active(d) : d.Ekey[i].key \in Keys
  BY <1>2 DEF Slot, Distinct
<1>4. QED
  BY <1>1, <1>2, <1>3 DEF Stored

(* The counter data.Ekeys is the number of keys that are known. *)
LEMMA StoreCount ==
    ASSUME NEW d \in SWdata, Distinct(d)
    PROVE  Cardinality(Promise!Known(StatusOf(d))) = d.Ekeys
<1> DEFINE f == [i \in Active(d) |-> d.Ekey[i].key]
<1>1. Promise!Known(StatusOf(d)) = Stored(d)
  <2>1. \A k \in Keys : StatusOf(d)[k] # "absent" <=> k \in Stored(d)
    BY DEF StatusOf
  <2>2. QED
    BY <2>1, StoredKeys DEF Promise!Known
<1>2. f \in Bijection(Active(d), Stored(d))
  <2>1. f \in [Active(d) -> Stored(d)]
    BY DEF Stored
  <2>2. \A i, j \in Active(d) : f[i] = f[j] => i = j
    BY DEF Distinct
  <2>3. \A k \in Stored(d) : \E i \in Active(d) : f[i] = k
    BY DEF Stored
  <2>4. QED
    BY <2>1, <2>2, <2>3 DEF Bijection, Injection, IsInjective, Surjection
<1>3. d.Ekeys \in Nat
  BY BoundsAssumption DEF SWdata
<1>4. IsFiniteSet(Active(d)) /\ Cardinality(Active(d)) = d.Ekeys
  <2>1. 0 \in Int /\ d.Ekeys - 1 \in Int
    BY <1>3
  <2>2. IsFiniteSet(Active(d)) /\ Cardinality(Active(d)) = IF 0 > d.Ekeys - 1 THEN 0 ELSE d.Ekeys - 1 - 0 + 1
    BY <2>1, FS_Interval DEF Active
  <2>3. QED
    BY <1>3, <2>2
<1>5. ExistsBijection(Active(d), Stored(d))
  BY <1>2 DEF ExistsBijection
<1>6. QED
  BY <1>1, <1>4, <1>5, FS_Bijection

(* KeySet's own instance of Cardinality is the Cardinality of this module. *)
LEMMA SameCardinality ==
    ASSUME NEW S
    PROVE  Promise!Cardinality(S) = Cardinality(S)
BY DEF Cardinality, Promise!Cardinality

(* addKey makes one absent key white. *)
LEMMA StatusAdd ==
    ASSUME NEW d \in SWdata, Distinct(d), NEW name \in Names, ~Refused(d, name)
    PROVE  /\ Trunc[name] \in Keys
           /\ StatusOf(d)[Trunc[name]] = "absent"
           /\ StatusOf(addKey(d, name)) = [StatusOf(d) EXCEPT ![Trunc[name]] = "white"]
           /\ Cardinality(Promise!Known(StatusOf(d))) < MAX_KEYS
<1> DEFINE e == addKey(d, name)
           new == Trunc[name]
<1>1. /\ e.Ekeys = d.Ekeys + 1
      /\ \A i \in Active(d) : e.Ekey[i] = d.Ekey[i]
      /\ e.Ekey[d.Ekeys] = [key |-> new, black |-> FALSE]
  BY AddKeyLemma
<1>2. new \in Keys /\ new \notin Stored(d)
  BY NamesAssumption DEF Refused
<1> HIDE DEF e, new
<1>3. Active(e) = Active(d) \cup {d.Ekeys}
  BY <1>1 DEF Active, SWdata
<1>4. Stored(e) = Stored(d) \cup {new}
  BY <1>1, <1>3 DEF Stored
<1>5. \A k \in Keys : InBlack(e, k) <=> InBlack(d, k)
  <2>1. ~e.Ekey[d.Ekeys].black
    BY <1>1
  <2>2. ASSUME NEW k \in Keys, NEW i \in Active(e), e.Ekey[i] = [key |-> k, black |-> TRUE]
        PROVE  i \in Active(d)
    BY <1>3, <2>1, <2>2
  <2>3. QED
    BY <1>1, <1>3, <2>2 DEF InBlack
<1>6. ~InBlack(d, new)
  BY <1>2 DEF InBlack, Stored
<1>7. StatusOf(e) = [StatusOf(d) EXCEPT ![new] = "white"]
  BY <1>2, <1>4, <1>5, <1>6 DEF StatusOf
<1>8. StatusOf(d)[new] = "absent"
  BY <1>2 DEF StatusOf
<1>9. d.Ekeys < MAX_KEYS
  BY BoundsAssumption DEF Refused, IsFull, SWdata
<1>10. QED
  BY <1>2, <1>7, <1>8, <1>9, StoreCount DEF e, new

(* deleteKey makes one known key absent and moves the others unchanged. *)
LEMMA StatusDelete ==
    ASSUME NEW d \in SWdata, Distinct(d), NEW name, searchKey(d, name) # -1
    PROVE  /\ name \in Keys
           /\ StatusOf(d)[name] # "absent"
           /\ StatusOf(deleteKey(d, name)) = [StatusOf(d) EXCEPT ![name] = "absent"]
<1> DEFINE e == deleteKey(d, name)
           n == searchKey(d, name)
<1>1. /\ \A i \in Active(e) : \E j \in Active(d) \ {n} : e.Ekey[i] = d.Ekey[j]
      /\ \A j \in Active(d) \ {n} : \E i \in Active(e) : e.Ekey[i] = d.Ekey[j]
  BY DeleteKeyLemma
<1>2. n \in Active(d) /\ d.Ekey[n].key = name
  BY SearchFound
<1> HIDE DEF e, n
<1>3. name \in Keys /\ name \in Stored(d)
  BY <1>2, StoredKeys DEF Stored
<1>4. \A j \in Active(d) : d.Ekey[j].key = name => j = n
  BY <1>2 DEF Distinct
<1>5. name \notin Stored(e)
  BY <1>1, <1>4 DEF Stored
<1>6. \A k \in Keys \ {name} : k \in Stored(e) <=> k \in Stored(d)
  <2> SUFFICES ASSUME NEW k \in Keys \ {name}
               PROVE  k \in Stored(e) <=> k \in Stored(d)
    OBVIOUS
  <2>1. ASSUME k \in Stored(e) PROVE k \in Stored(d)
    BY <1>1, <2>1 DEF Stored
  <2>2. ASSUME k \in Stored(d) PROVE k \in Stored(e)
    <3>1. PICK j \in Active(d) : d.Ekey[j].key = k
      BY <2>2 DEF Stored
    <3>2. j # n
      BY <1>2, <3>1
    <3>3. QED
      BY <1>1, <3>1, <3>2 DEF Stored
  <2>3. QED
    BY <2>1, <2>2
<1>7. \A k \in Keys \ {name} : InBlack(e, k) <=> InBlack(d, k)
  <2> SUFFICES ASSUME NEW k \in Keys \ {name}
               PROVE  InBlack(e, k) <=> InBlack(d, k)
    OBVIOUS
  <2>1. ASSUME InBlack(e, k) PROVE InBlack(d, k)
    BY <1>1, <2>1 DEF InBlack
  <2>2. ASSUME InBlack(d, k) PROVE InBlack(e, k)
    <3>1. PICK j \in Active(d) : d.Ekey[j] = [key |-> k, black |-> TRUE]
      BY <2>2 DEF InBlack
    <3>2. j # n
      BY <1>2, <3>1
    <3>3. QED
      BY <1>1, <3>1, <3>2 DEF InBlack
  <2>3. QED
    BY <2>1, <2>2
<1>8. StatusOf(e) = [StatusOf(d) EXCEPT ![name] = "absent"]
  BY <1>3, <1>5, <1>6, <1>7 DEF StatusOf
<1>9. StatusOf(d)[name] # "absent"
  BY <1>3 DEF StatusOf
<1>10. QED
  BY <1>3, <1>8, <1>9 DEF e

(* toBlackList makes one known key black. *)
LEMMA StatusBlack ==
    ASSUME NEW d \in SWdata, Distinct(d), NEW name, searchKey(d, name) # -1
    PROVE  /\ name \in Keys
           /\ StatusOf(d)[name] # "absent"
           /\ StatusOf(toBlackList(d, name)) = [StatusOf(d) EXCEPT ![name] = "black"]
<1> DEFINE e == toBlackList(d, name)
           n == searchKey(d, name)
<1>1. /\ e.Ekeys = d.Ekeys
      /\ \A i \in Active(d) : e.Ekey[i] = IF i = n THEN [key |-> name, black |-> TRUE] ELSE d.Ekey[i]
  BY ToBlackListLemma
<1>2. n \in Active(d) /\ d.Ekey[n].key = name
  BY SearchFound
<1> HIDE DEF e, n
<1>3. name \in Keys /\ name \in Stored(d)
  BY <1>2, StoredKeys DEF Stored
<1>4. Active(e) = Active(d)
  BY <1>1 DEF Active
<1>5. \A i \in Active(d) : e.Ekey[i].key = d.Ekey[i].key
  BY <1>1, <1>2
<1>6. Stored(e) = Stored(d)
  BY <1>4, <1>5 DEF Stored
<1>7. InBlack(e, name)
  BY <1>1, <1>2, <1>4 DEF InBlack
<1>8. \A k \in Keys \ {name} : InBlack(e, k) <=> InBlack(d, k)
  <2> SUFFICES ASSUME NEW k \in Keys \ {name}
               PROVE  \A i \in Active(d) : e.Ekey[i] = [key |-> k, black |-> TRUE]
                                         <=> d.Ekey[i] = [key |-> k, black |-> TRUE]
    BY <1>4 DEF InBlack
  <2> TAKE i \in Active(d)
  <2>1. CASE i = n
    <3>1. e.Ekey[i].key # k /\ d.Ekey[i].key # k
      BY <1>2, <1>5, <2>1
    <3>2. QED
      BY <3>1
  <2>2. CASE i # n
    BY <1>1, <2>2
  <2>3. QED
    BY <2>1, <2>2
<1>9. StatusOf(e) = [StatusOf(d) EXCEPT ![name] = "black"]
  BY <1>3, <1>6, <1>7, <1>8 DEF StatusOf
<1>10. StatusOf(d)[name] # "absent"
  BY <1>3 DEF StatusOf
<1>11. QED
  BY <1>3, <1>9, <1>10 DEF e

(* The defaults and the erased store hold no key, whatever the slots of a
   fresh heap block look like. *)
LEMMA StatusEmpty ==
    ASSUME NEW d \in Defaults \cup {Erased}
    PROVE  StatusOf(d) = Promise!Nothing
<1>1. Active(d) = {}
  BY EmptyStore DEF Active
<1>2. Stored(d) = {}
  BY <1>1 DEF Stored
<1>3. QED
  BY <1>2 DEF StatusOf, Promise!Nothing

(* Every step of the slot array is a step of the key set, or none: a token
   of a bulk load adds a key in RAM alone, the end of a bulk load commits
   or does nothing, and a restart reloads. *)
LEMMA RefinementStep == IInv /\ [Next]_vars => [Promise!Next]_(Promise!vars)
<1> SUFFICES ASSUME IInv, [Next]_vars PROVE [Promise!Next]_(Promise!vars)
  OBVIOUS
<1>0. /\ data \in SWdata /\ flash \in SWdata /\ Distinct(data) /\ Distinct(flash)
      /\ toks \in Seq(Names)
  BY DEF IInv, TypeOK, DistinctKeys
<1>1. ASSUME NEW name \in Names, ~Refused(data, name), data' = addKey(data, name),
             flash' = flash \/ flash' = data'
      PROVE  Promise!Next
  <2>1. /\ Trunc[name] \in Keys
        /\ StatusOf(data)[Trunc[name]] = "absent"
        /\ StatusOf(data') = [StatusOf(data) EXCEPT ![Trunc[name]] = "white"]
        /\ Cardinality(Promise!Known(StatusOf(data))) < MAX_KEYS
    BY <1>0, <1>1, StatusAdd
  <2>2. StatusOf(flash') = StatusOf(flash) \/ StatusOf(flash') = StatusOf(data')
    BY <1>1
  <2>3. Promise!Add(Trunc[name])
    BY <2>1, <2>2, SameCardinality DEF Promise!Add
  <2>4. QED
    BY <2>1, <2>3 DEF Promise!Next
<1>2. ASSUME NEW name, searchKey(data, name) # -1, data' = deleteKey(data, name), flash' = data'
      PROVE  Promise!Next
  <2>1. /\ name \in Keys
        /\ StatusOf(data)[name] # "absent"
        /\ StatusOf(data') = [StatusOf(data) EXCEPT ![name] = "absent"]
        /\ StatusOf(flash') = StatusOf(data')
    BY <1>0, <1>2, StatusDelete
  <2>2. Promise!Remove(name)
    BY <2>1 DEF Promise!Remove
  <2>3. QED
    BY <2>1, <2>2 DEF Promise!Next
<1>3. ASSUME NEW name, searchKey(data, name) # -1, data' = toBlackList(data, name), flash' = data'
      PROVE  Promise!Next
  <2>1. /\ name \in Keys
        /\ StatusOf(data)[name] # "absent"
        /\ StatusOf(data') = [StatusOf(data) EXCEPT ![name] = "black"]
        /\ StatusOf(flash') = StatusOf(data')
    BY <1>0, <1>3, StatusBlack
  <2>2. Promise!Blacklist(name)
    BY <2>1 DEF Promise!Blacklist
  <2>3. QED
    BY <2>1, <2>2 DEF Promise!Next
<1>4. ASSUME data' \in Defaults \cup {Erased}, flash' = data'
      PROVE  Promise!Next
  <2>1. StatusOf(data') = Promise!Nothing /\ StatusOf(flash') = Promise!Nothing
    BY <1>4, StatusEmpty
  <2>2. Promise!Clear
    BY <2>1 DEF Promise!Clear
  <2>3. QED
    BY <2>2 DEF Promise!Next
<1>5. ASSUME data' = data, flash' = data
      PROVE  Promise!Next
  <2>1. StatusOf(data') = StatusOf(data) /\ StatusOf(flash') = StatusOf(data)
    BY <1>5
  <2>2. Promise!Commit
    BY <2>1 DEF Promise!Commit
  <2>3. QED
    BY <2>2 DEF Promise!Next
<1>6. ASSUME data' = flash, flash' = flash
      PROVE  Promise!Next
  <2>1. StatusOf(data') = StatusOf(flash) /\ StatusOf(flash') = StatusOf(flash)
    BY <1>6
  <2>2. Promise!Reload
    BY <2>1 DEF Promise!Reload
  <2>3. QED
    BY <2>2 DEF Promise!Next
<1>7. ASSUME data' = data, flash' = flash
      PROVE  UNCHANGED Promise!vars
  BY <1>7 DEF Promise!vars
<1>8. ASSUME NEW caller \in Names, NEW name \in Names,
             AddKey(caller, name) \/ DeleteKey(caller, name) \/ ToBlackList(caller, name)
      PROVE  Promise!Next
  BY <1>1, <1>2, <1>3, <1>8 DEF AddKey, DeleteKey, ToBlackList, saveAllToEEPROM
<1>9. ASSUME NEW caller \in Names, ClearKeys(caller) \/ Save(caller) \/ Load(caller)
      PROVE  Promise!Next
  BY <1>4, <1>5, <1>6, <1>9 DEF ClearKeys, Save, Load, saveAllToEEPROM
<1>10. CASE ScanAdd
  <2>1. Head(toks) \in Names
    BY <1>0, <1>10 DEF ScanAdd
  <2>2. QED
    BY <1>1, <1>10, <2>1 DEF ScanAdd
<1>11. CASE Restart \/ RestoreDefault
  BY <1>4, <1>6, <1>11 DEF Restart, RestoreDefault, saveAllToEEPROM
<1>12. CASE handleUploadFileStatus \/ FetchEnd
  BY <1>5, <1>7, <1>12 DEF handleUploadFileStatus, FetchEnd
<1>13. CASE \/ UploadStart \/ UploadEnd \/ UploadAbort
            \/ (\E buf \in Buffer : UploadWrite(buf) \/ FetchLine(buf))
            \/ (\E caller \in Names : EnableUpload(caller) \/ FetchBegin(caller))
            \/ FetchFail \/ ScanRepeat \/ ScanEnd \/ UNCHANGED vars
  BY <1>7, <1>13 DEF UploadStart, UploadEnd, UploadAbort, UploadWrite, FetchLine,
     EnableUpload, FetchBegin, FetchFail, ScanRepeat, ScanEnd, vars
<1>14. QED
  BY <1>8, <1>9, <1>10, <1>11, <1>12, <1>13 DEF Next

(* The key store of SWparser implements the key set of module KeySet: for
   any number of keys and slots, over any sequence of commands, partial
   uploads, broken downloads and restarts. *)
THEOREM StoreImplementsKeySet == Spec => ImplementsKeySet
<1>1. Init => Promise!Init
  BY StatusEmpty DEF Init, Promise!Init
<1>2. QED
  BY <1>1, RefinementStep, StoreInvariant, PTL DEF Spec, ImplementsKeySet, Promise!Spec

-----------------------------------------------------------------------------
(* Keys that are not saved: module UnsavedKeys. *)

(* The counter that a bulk load compares with at its end is the flash's. *)
CountsFlash ==
    /\ pc = "idle" => data.Ekeys = flash.Ekeys
    /\ pc \in {"form", "chunk", "status"} => startKeys = flash.Ekeys
    /\ pc \in {"fetch", "line"} => inkeys = flash.Ekeys

Counted ==
    /\ givenUp => data # flash
    /\ ~givenUp => CountsFlash

NewGivenUp == givenUp' = (data' # flash' /\ (givenUp \/ GiveUp))

(* A save outside of the bulk loads leaves nothing to count. *)
LEMMA SavedCount ==
    ASSUME NewGivenUp, flash' = data', pc' = "idle"
    PROVE  Counted'
BY DEF NewGivenUp, Counted, CountsFlash

(* Where a step changes neither RAM nor flash, the counter it finds is right,
   and if it gives up there was nothing to save. *)
LEMMA SameStore ==
    ASSUME Counted, NewGivenUp, data' = data, flash' = flash,
           CountsFlash /\ (data = flash \/ ~GiveUp) => CountsFlash'
    PROVE  Counted'
BY DEF NewGivenUp, Counted

(* addKey leaves more keys in RAM than the flash holds. *)
LEMMA AddedIsUnsaved ==
    ASSUME IInv, NEW name \in Names, ~Refused(data, name)
    PROVE  addKey(data, name) # flash
<1>1. data \in SWdata /\ flash \in SWdata /\ Distinct(data) /\ flash.Ekeys <= data.Ekeys
  BY DEF IInv, TypeOK, DistinctKeys, FlashIsPrefix, PrefixOf
<1>2. addKey(data, name).Ekeys = data.Ekeys + 1
  BY <1>1, AddKeyLemma
<1>3. data.Ekeys \in Int /\ flash.Ekeys \in Int
  BY <1>1, BoundsAssumption DEF SWdata
<1>4. QED
  BY <1>1, <1>2, <1>3

(* One step per action: the commands save or change no key, the bulk loads
   take the counter when they begin and compare it when they end. *)
LEMMA CountStep ==
    ASSUME IInv, Counted, Next, NewGivenUp
    PROVE  Counted'
<1>1. ASSUME NEW caller \in Names, NEW name \in Names,
             AddKey(caller, name) \/ DeleteKey(caller, name) \/ ToBlackList(caller, name)
      PROVE  Counted'
  BY <1>1, SavedCount DEF AddKey, DeleteKey, ToBlackList, Command, saveAllToEEPROM
<1>2. ASSUME NEW caller \in Names, ClearKeys(caller) \/ Save(caller) \/ Load(caller)
      PROVE  Counted'
  BY <1>2, SavedCount DEF ClearKeys, Save, Load, Command, saveAllToEEPROM
<1>3. ASSUME NEW caller \in Names, EnableUpload(caller)
      PROVE  Counted'
  BY <1>3, SameStore DEF EnableUpload, Command, CountsFlash
<1>4. ASSUME NEW caller \in Names, FetchBegin(caller)
      PROVE  Counted'
  BY <1>4, SameStore DEF FetchBegin, CountsFlash
<1>5. CASE UploadStart
  BY <1>5, SameStore DEF UploadStart, CountsFlash, GiveUp
<1>6. ASSUME NEW buf \in Buffer, UploadWrite(buf) \/ FetchLine(buf)
      PROVE  Counted'
  BY <1>6, SameStore DEF UploadWrite, FetchLine, CountsFlash
<1>7. CASE UploadEnd
  BY <1>7, SameStore DEF UploadEnd, CountsFlash
<1>8. CASE UploadAbort
  BY <1>8, SameStore DEF UploadAbort, CountsFlash, GiveUp
<1>9. CASE handleUploadFileStatus
  <2>1. CASE upload /\ startKeys # data.Ekeys
    BY <1>9, <2>1, SavedCount DEF handleUploadFileStatus
  <2>2. CASE ~(upload /\ startKeys # data.Ekeys)
    BY <1>9, <2>2, SameStore DEF handleUploadFileStatus, CountsFlash, GiveUp
  <2>3. QED
    BY <2>1, <2>2
<1>10. CASE FetchFail
  BY <1>10, SameStore DEF FetchFail, CountsFlash, GiveUp
<1>11. CASE FetchEnd
  <2>1. CASE inkeys # data.Ekeys
    BY <1>11, <2>1, SavedCount DEF FetchEnd
  <2>2. CASE inkeys = data.Ekeys
    BY <1>11, <2>2, SameStore DEF FetchEnd, CountsFlash
  <2>3. QED
    BY <2>1, <2>2
<1>12. CASE ScanAdd
  <2>1. Head(toks) \in Names
    BY <1>12 DEF ScanAdd, IInv, TypeOK
  <2>2. data' # flash'
    BY <1>12, <2>1, AddedIsUnsaved DEF ScanAdd
  <2>3. QED
    BY <1>12, <2>2 DEF ScanAdd, Counted, CountsFlash, NewGivenUp
<1>13. CASE ScanRepeat
  BY <1>13, SameStore DEF ScanRepeat, AfterError, CountsFlash, GiveUp
<1>14. CASE ScanEnd
  BY <1>14, SameStore DEF ScanEnd, AfterScan, CountsFlash
<1>15. CASE Restart \/ RestoreDefault
  BY <1>15, SavedCount DEF Restart, RestoreDefault, Boot, saveAllToEEPROM
<1>16. QED
  BY <1>1, <1>2, <1>3, <1>4, <1>5, <1>6, <1>7, <1>8, <1>9, <1>10, <1>11,
     <1>12, <1>13, <1>14, <1>15 DEF Next

(* The counters are right as long as no bulk load was given up. *)
THEOREM CountersAreRight == UnsavedSpec => [](IInv /\ Counted)
<1>1. UnsavedInit => IInv /\ Counted
  BY InitInv DEF UnsavedInit, Init, Counted, CountsFlash
<1>2. ASSUME IInv, Counted, [UnsavedNext]_unsavedVars
      PROVE  IInv' /\ Counted'
  <2>1. IInv'
    BY <1>2, NextInv DEF UnsavedNext, unsavedVars
  <2>2. CASE UnsavedNext
    BY <1>2, <2>1, <2>2, CountStep DEF UnsavedNext, NewGivenUp
  <2>3. CASE UNCHANGED unsavedVars
    BY <1>2, <2>1, <2>3 DEF unsavedVars, vars, Counted, CountsFlash
  <2>4. QED
    BY <1>2, <2>1, <2>2, <2>3
<1>3. QED
  BY <1>1, <1>2, PTL DEF UnsavedSpec

(* Stores of the same length, one a prefix of the other, hold the same keys. *)
LEMMA SameKeys ==
    ASSUME NEW d \in SWdata, NEW f \in SWdata, PrefixOf(f, d), d.Ekeys = f.Ekeys
    PROVE  StatusOf(d) = StatusOf(f)
<1>1. Active(d) = Active(f) /\ \A i \in Active(f) : d.Ekey[i] = f.Ekey[i]
  BY DEF PrefixOf, Active
<1>2. Stored(d) = Stored(f)
  BY <1>1 DEF Stored
<1>3. \A k : InBlack(d, k) <=> InBlack(f, k)
  BY <1>1 DEF InBlack
<1>4. QED
  BY <1>2, <1>3 DEF StatusOf

(* Keys that the device accepts and would lose by a restart are there only
   because a bulk load was given up. *)
THEOREM OnlyGivenUpIsLost == UnsavedSpec => []UnsavedOnlyGivenUp
<1>1. ASSUME IInv, Counted
      PROVE  UnsavedOnlyGivenUp
  <2>1. SUFFICES ASSUME pc = "idle", ~givenUp
                 PROVE  StatusOf(data) = StatusOf(flash)
    BY DEF UnsavedOnlyGivenUp
  <2>2. data.Ekeys = flash.Ekeys
    BY <1>1, <2>1 DEF Counted, CountsFlash
  <2>3. QED
    BY <1>1, <2>2, SameKeys DEF IInv, TypeOK, FlashIsPrefix
<1>2. QED
  BY <1>1, CountersAreRight, PTL
=============================================================================
