--------------------------- MODULE ClipsterProofs ---------------------------
(* Proofs about the numbers clipster gives to clips, for every number of    *)
(* programs, files, hashes and starts.                                      *)
EXTENDS Clipster, FiniteSetTheorems, TLAPS

Behind(p) == IF InFile(p) /\ ~gained[p] THEN 1 ELSE 0

(* A program's last number is covered by the entries and the wasted files,  *)
(* but for the file that has added nothing yet.                             *)
Covered ==
    \A p \in Programs :
        /\ pc[p] # "off" => nbentries[p] <= GetCount + wasted + Behind(p)
        /\ gained[p] => InFile(p)

Alone ==
    ~overlapped =>
        \A p, q \in Programs : pc[p] # "off" /\ pc[q] # "off" => p = q

(* While nothing was wasted and no programs overlapped, the running         *)
(* program's number is the largest, and its present file's own.             *)
Latest(p) ==
    \A h \in Stored :
        /\ index[h].idnum <= nbentries[p]
        /\ InFile(p) /\ index[h].idnum = nbentries[p] => index[h].id = file[p]

Orderly ==
    wasted = 0 /\ ~overlapped =>
        NumbersApart /\ \A p \in Programs : pc[p] # "off" => Latest(p)

IInv == TypeOK /\ NumbersBounded /\ Covered /\ Alone /\ Orderly

-----------------------------------------------------------------------------
LEMMA Carry ==
  \A n, w, g, k, g1, k1 \in Nat :
      n <= g + w + k /\ g + k <= g1 + k1 => n <= g1 + w + k1
  OBVIOUS

LEMMA CountNat == IsFiniteSet(Stored) /\ GetCount \in Nat
<1>1. IsFiniteSet(Hashes) /\ Stored \subseteq Hashes
  BY ClipsterAssumption DEF Stored
<1> QED
  BY <1>1, FS_Subset, FS_CardinalityType DEF GetCount

LEMMA StoredEntry ==
  ASSUME TypeOK, NEW h \in Stored
  PROVE  h \in Hashes /\ index[h] \in Entry /\ index[h].idnum \in Nat
  BY DEF TypeOK, Stored, Entry

LEMMA FrameHash ==
  ASSUME TypeOK, NEW p \in Programs, pc[p] \in {"exists", "store"}
  PROVE  Frame(p) \in Hashes
<1>1. file[p] \in Files /\ count[p] < Len(Content[file[p]]) /\ count[p] \in Nat
  BY DEF TypeOK, InFile
<1>2. Content[file[p]] \in Seq(Hashes)
  BY <1>1, ClipsterAssumption
<1>3. count[p] + 1 \in 1..Len(Content[file[p]])
  BY <1>1, <1>2
<1> QED
  BY <1>2, <1>3 DEF Frame

LEMMA Initial == Init => IInv
<1> SUFFICES ASSUME Init PROVE IInv
  OBVIOUS
<1>1. Stored = {}
  BY DEF Init, Stored
<1>2. TypeOK
  <2>1. \A p \in Programs : ~InFile(p)
    BY DEF Init, InFile
  <2>2. MaxStarts \in Nat
    BY ClipsterAssumption
  <2>3. /\ overwrite \in [Programs -> BOOLEAN]
        /\ gained \in [Programs -> BOOLEAN]
    BY DEF Init
  <2>4. todo \in [Programs -> SUBSET Files]
    BY DEF Init
  <2>5. /\ index \in [Hashes -> Entry \cup {None}]
        /\ file \in [Programs -> Files \cup {None}]
    BY DEF Init
  <2>6. /\ pc \in [Programs -> {"off", "files", "pull", "exists", "store"}]
        /\ nbentries \in [Programs -> Nat]
        /\ count \in [Programs -> Nat]
    BY DEF Init
  <2>7. starts \in 0..MaxStarts /\ wasted \in Nat
    BY <2>2 DEF Init
  <2>8. overlapped \in BOOLEAN
    BY DEF Init
  <2> QED
    BY <2>1, <2>3, <2>4, <2>5, <2>6, <2>7, <2>8 DEF TypeOK
<1>3. NumbersBounded /\ Covered /\ Alone /\ Orderly
  BY <1>1 DEF Init, NumbersBounded, Covered, Alone, Orderly, NumbersApart, InFile
<1> QED
  BY <1>2, <1>3 DEF IInv

(* What Store does to the index and the count.                              *)
LEMMA StoreCounts ==
  ASSUME TypeOK, NEW p \in Programs, Store(p)
  PROVE  /\ Stored' = Stored \cup {Frame(p)}
         /\ index' = [index EXCEPT ![Frame(p)] =
                [id |-> file[p], idnum |-> nbentries[p], seqnum |-> count[p]]]
         /\ Frame(p) \in Hashes
         /\ Frame(p) \in Stored => GetCount' = GetCount
         /\ Frame(p) \notin Stored => GetCount' = GetCount + 1
<1> DEFINE e == [id |-> file[p], idnum |-> nbentries[p], seqnum |-> count[p]]
<1>1. Frame(p) \in Hashes
  BY FrameHash DEF Store
<1>2. e \in Entry /\ e # None
  BY ClipsterAssumption DEF TypeOK, Store, InFile, Entry
<1>3. Stored' = Stored \cup {Frame(p)}
  <2> HIDE DEF e
  <2>1. index' = [index EXCEPT ![Frame(p)] = e]
    BY DEF Store, e
  <2> QED
    BY <1>1, <1>2, <2>1 DEF TypeOK, Stored
<1>4. GetCount' = Cardinality(Stored \cup {Frame(p)})
  BY <1>3 DEF GetCount
<1>5. Frame(p) \in Stored => GetCount' = GetCount
  <2>1. Frame(p) \in Stored => Stored \cup {Frame(p)} = Stored
    OBVIOUS
  <2> QED
    BY <1>4, <2>1 DEF GetCount
<1>6. Frame(p) \notin Stored => GetCount' = GetCount + 1
  BY <1>4, CountNat, FS_AddElement DEF GetCount
<1> QED
  BY <1>1, <1>3, <1>5, <1>6 DEF Store

-----------------------------------------------------------------------------
(* Type correctness, one step per action. *)
LEMMA TypesStep ==
  ASSUME TypeOK, [Next]_vars
  PROVE  TypeOK'
<1>0. count \in [Programs -> Nat]
  BY DEF TypeOK
<1>1. ASSUME NEW p \in Programs, Start(p) PROVE TypeOK'
  <2>1. starts' \in 0..MaxStarts /\ GetCount \in Nat
    BY <1>1, CountNat, ClipsterAssumption DEF Start, TypeOK
  <2>2. overlapped' \in BOOLEAN /\ overwrite' \in [Programs -> BOOLEAN]
    BY <1>1 DEF Start, TypeOK
  <2>3. todo' \in [Programs -> SUBSET Files]
    BY <1>1 DEF Start, TypeOK
  <2> QED
    BY <1>1, <2>1, <2>2, <2>3 DEF Start, InFile, TypeOK
<1>2. ASSUME NEW p \in Programs, FileUnopened(p) PROVE TypeOK'
  <2>1. todo' \in [Programs -> SUBSET Files]
    BY <1>2 DEF FileUnopened, TypeOK
  <2> QED
    BY <1>2, <2>1 DEF FileUnopened, InFile, TypeOK
<1>3. ASSUME NEW p \in Programs, AddFile(p) PROVE TypeOK'
  <2>1. PICK f \in todo[p] : /\ todo' = [todo EXCEPT ![p] = @ \ {f}]
                             /\ file' = [file EXCEPT ![p] = f]
    BY <1>3 DEF AddFile, TypeOK
  <2>2. f \in Files /\ todo' \in [Programs -> SUBSET Files]
    BY <2>1 DEF TypeOK
  <2>3. Len(Content[f]) \in Nat
    BY <2>2, ClipsterAssumption DEF TypeOK
  <2>4. \A q \in Programs :
          InFile(q)' => /\ file'[q] \in Files
                        /\ count'[q] <= Len(Content[file'[q]])
                        /\ pc'[q] # "pull" => count'[q] < Len(Content[file'[q]])
    BY <1>3, <2>1, <2>2, <2>3 DEF AddFile, InFile, TypeOK
  <2> QED
    BY <1>3, <2>1, <2>2, <2>4 DEF AddFile, TypeOK
<1>4. ASSUME NEW p \in Programs, PullFrame(p) PROVE TypeOK'
  BY <1>4 DEF PullFrame, InFile, TypeOK
<1>5. ASSUME NEW p \in Programs, Exists(p) PROVE TypeOK'
  <2>1. file[p] \in Files /\ count[p] < Len(Content[file[p]]) /\ count[p] \in Nat
    BY <1>5 DEF Exists, InFile, TypeOK
  <2>2. Len(Content[file[p]]) \in Nat
    BY <2>1, ClipsterAssumption DEF TypeOK
  <2>3. \/ pc' = [pc EXCEPT ![p] = "pull"] /\ count' = [count EXCEPT ![p] = @ + 1]
        \/ pc' = [pc EXCEPT ![p] = "store"] /\ count' = count
    BY <1>5, Zenon DEF Exists
  <2>4. pc' \in [Programs -> {"off", "files", "pull", "exists", "store"}]
    BY <2>3 DEF TypeOK
  <2>5. count' \in [Programs -> Nat]
    BY <1>0, <2>3
  <2>6. \A q \in Programs :
          InFile(q)' => /\ file'[q] \in Files
                        /\ count'[q] <= Len(Content[file'[q]])
                        /\ pc'[q] # "pull" => count'[q] < Len(Content[file'[q]])
    BY <1>5, <2>1, <2>2, <2>3 DEF Exists, InFile, TypeOK
  <2> QED
    BY <1>5, <2>4, <2>5, <2>6 DEF Exists, TypeOK
<1>6. ASSUME NEW p \in Programs, Store(p) PROVE TypeOK'
  <2>1. file[p] \in Files /\ count[p] < Len(Content[file[p]]) /\ count[p] \in Nat
    BY <1>6 DEF Store, InFile, TypeOK
  <2>2. Len(Content[file[p]]) \in Nat
    BY <2>1, ClipsterAssumption DEF TypeOK
  <2>3. index' \in [Hashes -> Entry \cup {None}]
    BY <1>6, <2>1 DEF Store, Entry, TypeOK
  <2>4. gained' \in [Programs -> BOOLEAN]
    BY <1>6 DEF Store, TypeOK
  <2>5. \A q \in Programs :
          InFile(q)' => /\ file'[q] \in Files
                        /\ count'[q] <= Len(Content[file'[q]])
                        /\ pc'[q] # "pull" => count'[q] < Len(Content[file'[q]])
    BY <1>6, <2>1, <2>2 DEF Store, InFile, TypeOK
  <2>6. pc' \in [Programs -> {"off", "files", "pull", "exists", "store"}]
        /\ count' \in [Programs -> Nat]
    BY <1>6 DEF Store, TypeOK
  <2> QED
    BY <1>6, <2>3, <2>4, <2>5, <2>6 DEF Store, TypeOK
<1>7. ASSUME NEW p \in Programs, EndFile(p) PROVE TypeOK'
  BY <1>7 DEF EndFile, InFile, TypeOK
<1>8. ASSUME NEW p \in Programs, Finish(p) PROVE TypeOK'
  BY <1>8 DEF Finish, InFile, TypeOK
<1>9. CASE UNCHANGED vars
  BY <1>9 DEF vars, program, InFile, TypeOK
<1> QED
  BY <1>1, <1>2, <1>3, <1>4, <1>5, <1>6, <1>7, <1>8, <1>9 DEF Next, TypeOK

-----------------------------------------------------------------------------
(* The numbers, one lemma per action. *)
Numbers == NumbersBounded /\ Covered /\ Alone /\ Orderly

LEMMA SameIndex ==
  ASSUME index' = index
  PROVE  Stored' = Stored /\ GetCount' = GetCount
  BY DEF Stored, GetCount

(* Steps that stay in a file and outside the index. *)
LEMMA QuietStep ==
  ASSUME IInv,
         UNCHANGED <<index, wasted, gained, nbentries, file, overlapped>>,
         \A q \in Programs : /\ InFile(q)' <=> InFile(q)
                             /\ pc'[q] # "off" <=> pc[q] # "off"
  PROVE  Numbers'
<1>1. Stored' = Stored /\ GetCount' = GetCount
  BY SameIndex
<1>2. Pending' = Pending /\ \A q \in Programs : Behind(q)' = Behind(q)
  BY DEF Pending, Behind
<1>3. NumbersBounded' /\ Covered'
  BY <1>1, <1>2 DEF IInv, NumbersBounded, Covered
<1>4. Alone'
  BY DEF IInv, Alone
<1>5. Orderly'
  BY <1>1 DEF IInv, Orderly, NumbersApart, Latest
<1> QED
  BY <1>3, <1>4, <1>5 DEF Numbers

LEMMA StartStep ==
  ASSUME IInv, NEW p \in Programs, Start(p)
  PROVE  Numbers'
<1> USE DEF IInv
<1>1. Stored' = Stored /\ GetCount' = GetCount /\ GetCount \in Nat
  BY SameIndex, CountNat DEF Start
<1>2. /\ wasted' = wasted /\ gained' = gained /\ file' = file /\ index' = index
      /\ nbentries' = [nbentries EXCEPT ![p] = GetCount]
      /\ pc' = [pc EXCEPT ![p] = "files"] /\ pc[p] = "off"
      /\ overlapped' = (overlapped \/ \E q \in Programs : pc[q] # "off")
  BY DEF Start
<1>3. /\ pc'[p] = "files" /\ nbentries'[p] = GetCount
      /\ \A q \in Programs : q # p => pc'[q] = pc[q] /\ nbentries'[q] = nbentries[q]
  BY <1>2 DEF TypeOK
<1>4. \A q \in Programs : InFile(q)' <=> InFile(q)
  BY <1>2, <1>3 DEF InFile
<1>5. Pending' = Pending /\ \A q \in Programs : Behind(q)' = Behind(q)
  BY <1>2, <1>4 DEF Pending, Behind
<1>6. NumbersBounded'
  BY <1>1, <1>2, <1>5 DEF NumbersBounded
<1>7. Covered'
  <2>1. GetCount <= GetCount + wasted + Behind(p)
    BY <1>1 DEF TypeOK, Behind
  <2> QED
    BY <1>1, <1>2, <1>3, <1>4, <1>5, <2>1 DEF Covered
<1>8. Alone'
  BY <1>2, <1>3 DEF Alone
<1>9. Orderly'
  <2> SUFFICES ASSUME wasted' = 0, ~overlapped'
               PROVE  /\ NumbersApart'
                      /\ \A q \in Programs : pc'[q] # "off" => Latest(q)'
    BY DEF Orderly
  <2>1. wasted = 0 /\ ~overlapped /\ \A q \in Programs : pc[q] = "off"
    BY <1>2
  <2>2. NumbersApart'
    BY <1>1, <1>2, <2>1 DEF Orderly, NumbersApart
  <2>3. Pending = 0
    BY <2>1 DEF Pending, InFile
  <2>4. \A h \in Stored : index[h].idnum <= GetCount
    BY <1>1, <2>1, <2>3 DEF NumbersBounded
  <2>5. Latest(p)'
    BY <1>1, <1>2, <1>3, <2>4 DEF Latest, InFile
  <2>6. \A q \in Programs : pc'[q] # "off" => q = p
    BY <1>3, <2>1
  <2> QED
    BY <2>2, <2>5, <2>6
<1> QED
  BY <1>6, <1>7, <1>8, <1>9 DEF Numbers

LEMMA FileUnopenedStep ==
  ASSUME IInv, NEW p \in Programs, FileUnopened(p)
  PROVE  Numbers'
<1> USE DEF IInv
<1>1. Stored' = Stored /\ GetCount' = GetCount /\ GetCount \in Nat
  BY SameIndex, CountNat DEF FileUnopened
<1>2. /\ wasted' = wasted + 1 /\ gained' = gained /\ index' = index /\ pc' = pc
      /\ pc[p] = "files"
      /\ nbentries' = [nbentries EXCEPT ![p] = @ + 1]
      /\ overlapped' = overlapped
  BY DEF FileUnopened
<1>3. /\ nbentries'[p] = nbentries[p] + 1
      /\ \A q \in Programs : q # p => nbentries'[q] = nbentries[q]
  BY <1>2 DEF TypeOK
<1>4. Pending' = Pending /\ \A q \in Programs : Behind(q)' = Behind(q)
  BY <1>2 DEF Pending, Behind, InFile
<1>5. wasted \in Nat /\ Pending \in Nat /\ \A q \in Programs : nbentries[q] \in Nat
  BY DEF TypeOK, Pending
<1>6. NumbersBounded'
  <2> SUFFICES ASSUME NEW h \in Stored
               PROVE  index[h].idnum <= GetCount + (wasted + 1) + Pending
    BY <1>1, <1>2, <1>4 DEF NumbersBounded
  <2>1. index[h].idnum \in Nat /\ index[h].idnum <= GetCount + wasted + Pending
    BY StoredEntry DEF NumbersBounded
  <2> QED
    BY <1>1, <1>5, <2>1
<1>7. Covered'
  <2> SUFFICES ASSUME NEW q \in Programs
               PROVE  /\ pc[q] # "off" => nbentries'[q] <= GetCount + (wasted + 1) + Behind(q)
                      /\ gained[q] => InFile(q)
    BY <1>1, <1>2, <1>4 DEF Covered, InFile
  <2>1. Behind(q) \in Nat
    BY DEF Behind
  <2> QED
    BY <1>1, <1>3, <1>5, <2>1 DEF Covered
<1>8. Alone'
  BY <1>2 DEF Alone
<1>9. Orderly'
  BY <1>2, <1>5 DEF Orderly
<1> QED
  BY <1>6, <1>7, <1>8, <1>9 DEF Numbers

LEMMA AddFileStep ==
  ASSUME IInv, NEW p \in Programs, AddFile(p)
  PROVE  Numbers'
<1> USE DEF IInv
<1>1. Stored' = Stored /\ GetCount' = GetCount /\ GetCount \in Nat
  BY SameIndex, CountNat DEF AddFile
<1>2. /\ wasted' = wasted /\ gained' = gained /\ index' = index
      /\ pc[p] = "files" /\ pc' = [pc EXCEPT ![p] = "pull"]
      /\ nbentries' = [nbentries EXCEPT ![p] = @ + 1]
      /\ overlapped' = overlapped
      /\ \E f \in todo[p] : file' = [file EXCEPT ![p] = f]
  BY DEF AddFile
<1>3. /\ nbentries'[p] = nbentries[p] + 1 /\ pc'[p] = "pull"
      /\ \A q \in Programs : q # p => /\ nbentries'[q] = nbentries[q]
                                      /\ pc'[q] = pc[q] /\ file'[q] = file[q]
  BY <1>2 DEF TypeOK
<1>4. wasted \in Nat /\ \A q \in Programs : nbentries[q] \in Nat
  BY DEF TypeOK
<1>5. ~gained[p] /\ InFile(p)' /\ ~InFile(p)
  BY <1>2, <1>3 DEF Covered, InFile
<1>6. /\ Pending' = 1 /\ Pending \in {0, 1}
      /\ Behind(p)' = 1 /\ Behind(p) = 0
      /\ \A q \in Programs : q # p => Behind(q)' = Behind(q)
  BY <1>2, <1>3, <1>5 DEF Pending, Behind, InFile
<1>7. NumbersBounded'
  <2> SUFFICES ASSUME NEW h \in Stored
               PROVE  index[h].idnum <= GetCount + wasted + 1
    BY <1>1, <1>2, <1>6 DEF NumbersBounded
  <2>1. index[h].idnum \in Nat /\ index[h].idnum <= GetCount + wasted + Pending
    BY StoredEntry DEF NumbersBounded
  <2> QED
    BY <1>1, <1>4, <1>6, <2>1
<1>8. Covered'
  <2> SUFFICES ASSUME NEW q \in Programs
               PROVE  /\ pc'[q] # "off" => nbentries'[q] <= GetCount + wasted + Behind(q)'
                      /\ gained[q] => InFile(q)'
    BY <1>1, <1>2 DEF Covered
  <2>1. CASE q = p
    BY <1>1, <1>2, <1>3, <1>4, <1>5, <1>6, <2>1 DEF Covered
  <2>2. CASE q # p
    BY <1>3, <1>6, <2>2 DEF Covered, InFile
  <2> QED
    BY <2>1, <2>2
<1>9. Alone'
  BY <1>2, <1>3 DEF Alone
<1>10. Orderly'
  <2> SUFFICES ASSUME wasted = 0, ~overlapped
               PROVE  /\ NumbersApart'
                      /\ \A q \in Programs : pc'[q] # "off" => Latest(q)'
    BY <1>2 DEF Orderly
  <2>1. NumbersApart'
    BY <1>1, <1>2 DEF Orderly, NumbersApart
  <2>2. \A h \in Stored : index[h].idnum \in Nat /\ index[h].idnum <= nbentries[p]
    BY <1>2, StoredEntry DEF Orderly, Latest
  <2>3. Latest(p)'
    BY <1>1, <1>2, <1>3, <1>4, <2>2 DEF Latest
  <2>4. \A q \in Programs : pc'[q] # "off" => q = p
    BY <1>2, <1>3 DEF Alone
  <2> QED
    BY <2>1, <2>3, <2>4
<1> QED
  BY <1>7, <1>8, <1>9, <1>10 DEF Numbers

LEMMA StoreStep ==
  ASSUME IInv, NEW p \in Programs, Store(p)
  PROVE  Numbers'
<1> USE DEF IInv
<1> DEFINE h0 == Frame(p)
<1>1. /\ Stored' = Stored \cup {h0} /\ h0 \in Hashes
      /\ h0 \in Stored => GetCount' = GetCount
      /\ h0 \notin Stored => GetCount' = GetCount + 1
      /\ GetCount \in Nat
  BY StoreCounts, CountNat
<1>2. /\ index'[h0] = [id |-> file[p], idnum |-> nbentries[p], seqnum |-> count[p]]
      /\ \A h \in Hashes : h # h0 => index'[h] = index[h]
  BY <1>1, StoreCounts DEF TypeOK
<1>3. /\ wasted' = wasted /\ overlapped' = overlapped /\ file' = file
      /\ nbentries' = nbentries
      /\ pc[p] = "store" /\ pc' = [pc EXCEPT ![p] = "pull"]
      /\ gained' = [gained EXCEPT ![p] = @ \/ index[h0] = None]
  BY DEF Store
<1>4. /\ InFile(p) /\ InFile(p)'
      /\ \A q \in Programs : q # p => /\ InFile(q)' <=> InFile(q)
                                      /\ gained'[q] <=> gained[q]
      /\ \A q \in Programs : pc'[q] # "off" <=> pc[q] # "off"
  BY <1>3 DEF InFile, TypeOK
<1>5. gained'[p] <=> gained[p] \/ h0 \notin Stored
  BY <1>1, <1>3 DEF TypeOK, Stored
<1>6. wasted \in Nat /\ \A q \in Programs : nbentries[q] \in Nat
  BY DEF TypeOK
<1>7. \A q \in Programs : /\ Behind(q) \in {0, 1} /\ Behind(q)' \in {0, 1}
                          /\ GetCount + Behind(q) <= GetCount' + Behind(q)'
  BY <1>1, <1>4, <1>5 DEF Behind
<1>8. Pending \in {0, 1} /\ Pending' \in {0, 1} /\ Behind(p)' <= Pending'
      /\ GetCount + Pending <= GetCount' + Pending'
  <2>1. CASE h0 \in Stored
    <3>1. gained'[p] <=> gained[p]
      BY <1>5, <2>1
    <3>2. Pending' = Pending
      BY <1>4, <3>1 DEF Pending
    <3> QED
      BY <1>1, <1>4, <2>1, <3>2 DEF Pending, Behind
  <2>2. CASE h0 \notin Stored
    BY <1>1, <1>4, <1>5, <2>2 DEF Pending, Behind
  <2> QED
    BY <2>1, <2>2
<1>9. GetCount' \in Nat
  BY <1>1
<1>10. NumbersBounded'
  <2> SUFFICES ASSUME NEW h \in Stored'
               PROVE  index'[h].idnum <= GetCount' + wasted + Pending'
    BY <1>3 DEF NumbersBounded
  <2>1. CASE h = h0
    <3>1. index'[h].idnum = nbentries[p]
      BY <1>2, <2>1
    <3>2. nbentries[p] <= GetCount + wasted + Behind(p)
      BY <1>3 DEF Covered
    <3> QED
      BY <1>1, <1>6, <1>7, <1>8, <1>9, <3>1, <3>2
  <2>2. CASE h # h0
    <3>1. h \in Stored /\ index'[h] = index[h]
      BY <1>1, <1>2, <2>2 DEF Stored
    <3>2. index[h].idnum \in Nat /\ index[h].idnum <= GetCount + wasted + Pending
      BY <3>1, StoredEntry DEF NumbersBounded
    <3>3. /\ GetCount \in Nat /\ Pending \in Nat /\ Pending' \in Nat
          /\ GetCount + Pending <= GetCount' + Pending'
      BY <1>1, <1>8
    <3>4. wasted \in Nat /\ GetCount' \in Nat
      BY <1>6, <1>9
    <3>5. index[h].idnum <= GetCount' + wasted + Pending'
      BY <3>2, <3>3, <3>4, Carry
    <3> QED
      BY <3>1, <3>5
  <2> QED
    BY <2>1, <2>2
<1>11. Covered'
  <2> SUFFICES ASSUME NEW q \in Programs
               PROVE  /\ pc[q] # "off" => nbentries[q] <= GetCount' + wasted + Behind(q)'
                      /\ gained'[q] => InFile(q)'
    BY <1>3, <1>4 DEF Covered
  <2>1. gained'[q] => InFile(q)'
    BY <1>4 DEF Covered
  <2>2. pc[q] # "off" => nbentries[q] <= GetCount + wasted + Behind(q)
    BY DEF Covered
  <2> QED
    BY <1>1, <1>6, <1>7, <1>9, <2>1, <2>2
<1>12. Alone'
  BY <1>3, <1>4 DEF Alone
<1>13. Orderly'
  <2> SUFFICES ASSUME wasted = 0, ~overlapped
               PROVE  /\ NumbersApart'
                      /\ \A q \in Programs : pc'[q] # "off" => Latest(q)'
    BY <1>3 DEF Orderly
  <2>1. NumbersApart /\ Latest(p)
    BY <1>3 DEF Orderly
  <2>2. \A h \in Stored' : h # h0 => h \in Stored /\ index'[h] = index[h]
    BY <1>1, <1>2 DEF Stored
  <2>3. index'[h0].idnum = nbentries[p] /\ index'[h0].id = file[p]
    BY <1>2
  <2>4. NumbersApart'
    BY <1>4, <2>1, <2>2, <2>3 DEF NumbersApart, Latest
  <2>5. Latest(p)'
    BY <1>3, <1>4, <1>6, <2>1, <2>2, <2>3 DEF Latest
  <2>6. \A q \in Programs : pc'[q] # "off" => q = p
    BY <1>3, <1>4 DEF Alone
  <2> QED
    BY <2>4, <2>5, <2>6
<1> QED
  BY <1>10, <1>11, <1>12, <1>13 DEF Numbers

LEMMA EndFileStep ==
  ASSUME IInv, NEW p \in Programs, EndFile(p)
  PROVE  Numbers'
<1> USE DEF IInv
<1>1. Stored' = Stored /\ GetCount' = GetCount /\ GetCount \in Nat
  BY SameIndex, CountNat DEF EndFile
<1>2. /\ index' = index /\ nbentries' = nbentries /\ overlapped' = overlapped
      /\ InFile(p) /\ pc' = [pc EXCEPT ![p] = "files"]
      /\ file' = [file EXCEPT ![p] = None]
      /\ gained' = [gained EXCEPT ![p] = FALSE]
      /\ wasted' = IF gained[p] THEN wasted ELSE wasted + 1
  BY DEF EndFile
<1>3. /\ pc'[p] = "files" /\ ~gained'[p] /\ pc[p] # "off" /\ ~InFile(p)'
      /\ \A q \in Programs : q # p => /\ pc'[q] = pc[q] /\ file'[q] = file[q]
                                      /\ gained'[q] <=> gained[q]
  BY <1>2 DEF TypeOK, InFile
<1>4. wasted \in Nat /\ \A q \in Programs : nbentries[q] \in Nat
  BY DEF TypeOK
<1>5. /\ Behind(p)' = 0
      /\ \A q \in Programs : /\ Behind(q) \in {0, 1}
                             /\ q # p => Behind(q)' = Behind(q)
  BY <1>3 DEF Behind, InFile
<1>6. wasted' = wasted + Behind(p) /\ wasted' \in Nat
  BY <1>2, <1>4 DEF Behind
<1>7. /\ Pending \in Nat /\ Pending' \in Nat
      /\ wasted + Pending <= wasted' + Pending'
  <2>1. CASE Behind(p) = 1
    BY <1>4, <1>6, <2>1 DEF Pending
  <2>2. CASE Behind(p) = 0
    <3>1. \A q \in Programs : InFile(q) /\ ~gained[q] => InFile(q)' /\ ~gained'[q]
      BY <1>3, <2>2 DEF Behind, InFile
    <3> QED
      BY <1>4, <1>6, <2>2, <3>1 DEF Pending
  <2> QED
    BY <1>5, <2>1, <2>2
<1>8. NumbersBounded'
  <2> SUFFICES ASSUME NEW h \in Stored
               PROVE  index[h].idnum <= GetCount + wasted' + Pending'
    BY <1>1, <1>2 DEF NumbersBounded
  <2>1. index[h].idnum \in Nat /\ index[h].idnum <= GetCount + wasted + Pending
    BY StoredEntry DEF NumbersBounded
  <2> QED
    BY <1>1, <1>4, <1>6, <1>7, <2>1
<1>9. Covered'
  <2> SUFFICES ASSUME NEW q \in Programs
               PROVE  /\ pc'[q] # "off" => nbentries[q] <= GetCount + wasted' + Behind(q)'
                      /\ gained'[q] => InFile(q)'
    BY <1>1, <1>2 DEF Covered
  <2>1. CASE q = p
    BY <1>1, <1>3, <1>4, <1>5, <1>6, <2>1 DEF Covered
  <2>2. CASE q # p
    <3>1. gained'[q] => InFile(q)'
      BY <1>3, <2>2 DEF Covered, InFile
    <3>2. pc'[q] # "off" => nbentries[q] <= GetCount + wasted + Behind(q)
      BY <1>3, <2>2 DEF Covered
    <3>3. Behind(q) \in Nat /\ Behind(q)' = Behind(q) /\ Behind(p) \in Nat
      BY <1>5, <2>2
    <3> QED
      BY <1>1, <1>4, <1>6, <3>1, <3>2, <3>3
  <2> QED
    BY <2>1, <2>2
<1>10. Alone'
  BY <1>2, <1>3 DEF Alone
<1>11. Orderly'
  <2> SUFFICES ASSUME wasted' = 0, ~overlapped
               PROVE  /\ NumbersApart'
                      /\ \A q \in Programs : pc'[q] # "off" => Latest(q)'
    BY <1>2 DEF Orderly
  <2>1. wasted = 0
    BY <1>4, <1>5, <1>6
  <2>2. NumbersApart'
    BY <1>1, <1>2, <2>1 DEF Orderly, NumbersApart
  <2>3. Latest(p)'
    BY <1>1, <1>2, <1>3, <2>1 DEF Orderly, Latest
  <2>4. \A q \in Programs : pc'[q] # "off" => q = p
    BY <1>3 DEF Alone
  <2> QED
    BY <2>2, <2>3, <2>4
<1> QED
  BY <1>8, <1>9, <1>10, <1>11 DEF Numbers

LEMMA FinishStep ==
  ASSUME IInv, NEW p \in Programs, Finish(p)
  PROVE  Numbers'
<1> USE DEF IInv
<1>1. Stored' = Stored /\ GetCount' = GetCount
  BY SameIndex DEF Finish
<1>2. /\ index' = index /\ overlapped' = overlapped /\ wasted' = wasted
      /\ pc[p] = "files" /\ pc' = [pc EXCEPT ![p] = "off"]
      /\ file' = file /\ gained' = gained
      /\ nbentries' = [nbentries EXCEPT ![p] = 0]
  BY DEF Finish
<1>3. /\ pc'[p] = "off"
      /\ \A q \in Programs : q # p => pc'[q] = pc[q] /\ nbentries'[q] = nbentries[q]
  BY <1>2 DEF TypeOK
<1>4. \A q \in Programs : InFile(q)' <=> InFile(q)
  BY <1>2, <1>3 DEF InFile
<1>5. Pending' = Pending /\ \A q \in Programs : Behind(q)' = Behind(q)
  BY <1>2, <1>4 DEF Pending, Behind
<1>6. NumbersBounded' /\ Covered' /\ Alone'
  BY <1>1, <1>2, <1>3, <1>4, <1>5 DEF NumbersBounded, Covered, Alone
<1>7. Orderly'
  <2>1. NumbersApart' <=> NumbersApart
    BY <1>1, <1>2 DEF NumbersApart
  <2>2. \A q \in Programs : pc'[q] # "off" => pc[q] # "off" /\ (Latest(q)' <=> Latest(q))
    BY <1>1, <1>2, <1>3, <1>4 DEF Latest
  <2> QED
    BY <1>2, <2>1, <2>2 DEF Orderly
<1> QED
  BY <1>6, <1>7 DEF Numbers

LEMMA Inductive == IInv /\ [Next]_vars => IInv'
<1> SUFFICES ASSUME IInv, [Next]_vars PROVE IInv'
  OBVIOUS
<1>1. TypeOK'
  BY TypesStep DEF IInv
<1>2. ASSUME NEW p \in Programs, PullFrame(p) \/ Exists(p)
      PROVE  Numbers'
  <2>1. UNCHANGED <<index, wasted, gained, nbentries, file, overlapped>>
    BY <1>2 DEF PullFrame, Exists
  <2>2. /\ InFile(p)' /\ InFile(p)
        /\ \A q \in Programs : q # p => pc'[q] = pc[q]
    BY <1>2 DEF PullFrame, Exists, InFile, IInv, TypeOK
  <2> QED
    BY <2>1, <2>2, QuietStep DEF InFile
<1>3. ASSUME UNCHANGED vars
      PROVE  Numbers'
  <2>1. UNCHANGED <<index, wasted, gained, nbentries, file, overlapped, pc>>
    BY <1>3 DEF vars, program
  <2> QED
    BY <2>1, QuietStep DEF InFile
<1>4. Numbers'
  BY <1>2, <1>3, StartStep, FileUnopenedStep, AddFileStep, StoreStep, EndFileStep,
     FinishStep
  DEF Next
<1> QED
  BY <1>1, <1>4 DEF IInv, Numbers

THEOREM Invariance == Spec => []IInv
  BY Initial, Inductive, PTL DEF Spec

-----------------------------------------------------------------------------
(* Every variable keeps its type: a program that is in a file has a file,   *)
(* and a frame number within it.                                            *)
THEOREM ClipsterTypes == Spec => []TypeOK
<1>1. IInv => TypeOK
  BY DEF IInv
<1> QED
  BY <1>1, Invariance, PTL

(* No number is ahead of the count of entries by more than the wasted       *)
(* files, and the one in progress.                                          *)
THEOREM ClipsterNumbersBounded == Spec => []NumbersBounded
<1>1. IInv => NumbersBounded
  BY DEF IInv
<1> QED
  BY <1>1, Invariance, PTL

(* Two clips share a number only after a wasted file or an overlap.         *)
THEOREM ClipsterSharingExplained == Spec => []SharingExplained
<1>1. IInv => SharingExplained
  BY DEF IInv, TypeOK, Orderly, SharingExplained
<1> QED
  BY <1>1, Invariance, PTL
=============================================================================
