---------------------------- MODULE AsyncProofs ----------------------------
(* Invariants of the asynchronous context for every set of channels, every  *)
(* hash function, any scripts and any number of messages; first, of the     *)
(* hash table in which it keeps its subscriptions; last, that callbacks are *)
(* called once, with their own replies.                                     *)
EXTENDS AsyncProperties, FiniteSetTheorems, FunctionTheorems, SequenceTheorems, TLAPS

-----------------------------------------------------------------------------
(* The hash table is a map, whatever the keys, their hashes and the initial *)
(* size: adding, replacing and deleting keep every entry in the one bucket  *)
(* where dictFind looks for it, and touch no other key.                     *)
Buckets(ht) == 0 .. ht.size - 1

(* What dict.c keeps true of a table between two calls. *)
Sound(ht) ==
    /\ ht = [size |-> ht.size, used |-> ht.used, table |-> ht.table]
    /\ ht.size \in Nat
    /\ ht.used = Cardinality(Entries(ht))
    /\ DOMAIN ht.table = Buckets(ht)
    /\ IsFiniteSet(Entries(ht))
    /\ \A e \in Entries(ht) : e = [key |-> e.key, val |-> e.val] /\ e.key \in Keys
    /\ \A i \in Buckets(ht) : \A e \in ht.table[i] : Slot(e.key, ht.size) = i
    /\ \A e, f \in Entries(ht) : e.key = f.key => e = f

(* The slot of a key is a bucket of the table. *)
LEMMA Remainder ==
    ASSUME NEW h \in Nat, NEW size \in Nat, size > 0
    PROVE  h % size \in 0 .. size - 1
OBVIOUS

LEMMA SlotInTable ==
    ASSUME NEW key \in Keys, NEW size \in Nat \ {0}
    PROVE  Slot(key, size) \in 0 .. size - 1
<1>1. HashOf[key] \in Nat /\ size \in Nat /\ size > 0
  BY DictAssumption DEF DictAssumption
<1>2. QED  BY <1>1, Remainder DEF Slot

LEMMA InEntries ==
    ASSUME NEW ht, NEW e
    PROVE  e \in Entries(ht) <=> \E i \in Buckets(ht) : e \in ht.table[i]
BY DEF Entries, Buckets

LEMMA SoundEmpty == Sound(EmptyDict)
<1>1. /\ EmptyDict.size = 0 /\ EmptyDict.used = 0 /\ DOMAIN EmptyDict.table = {}
      /\ EmptyDict = [size |-> 0, used |-> 0, table |-> EmptyDict.table]
  BY DEF EmptyDict
<1>2. Buckets(EmptyDict) = {}
  BY <1>1 DEF Buckets
<1>3. Entries(EmptyDict) = {}
  BY <1>2, InEntries
<1>4. Cardinality({}) = 0 /\ IsFiniteSet({})
  BY FS_EmptySet
<1>5. QED  BY <1>1, <1>2, <1>3, <1>4 DEF Sound

(* dictFind finds exactly the entries with the key. *)
LEMMA MatchesAll ==
    ASSUME NEW ht, Sound(ht), NEW key \in Keys
    PROVE  Matches(ht, key) = {e \in Entries(ht) : e.key = key}
<1>1. CASE ht.size = 0
  BY <1>1 DEF Matches, Entries, Sound
<1>2. CASE ht.size # 0
  <2>1. Slot(key, ht.size) \in Buckets(ht)
    BY <1>2, SlotInTable DEF Sound, Buckets
  <2>2. \A e \in Entries(ht) : e.key = key => e \in ht.table[Slot(key, ht.size)]
    BY DEF Entries, Sound, Buckets
  <2>3. \A e \in ht.table[Slot(key, ht.size)] : e \in Entries(ht)
    BY <2>1 DEF Entries, Buckets
  <2>4. QED  BY <1>2, <2>2, <2>3 DEF Matches
<1>3. QED  BY <1>1, <1>2

(* dictExpand moves every entry and loses none. *)
LEMMA SoundExpand ==
    ASSUME NEW ht, Sound(ht), NEW size \in Nat \ {0}
    PROVE  /\ Sound(Expand(ht, size))
           /\ Entries(Expand(ht, size)) = Entries(ht)
           /\ Expand(ht, size).size = size
<1> DEFINE n == Expand(ht, size)
           table == [i \in 0 .. size - 1 |-> {e \in Entries(ht) : Slot(e.key, size) = i}]
<1>1. n = [size |-> size, used |-> ht.used, table |-> table]
  <2>1. ht = [size |-> ht.size, used |-> ht.used, table |-> ht.table]
    BY DEF Sound
  <2>2. n = [ht EXCEPT !.size = size, !.table = table]
    BY DEF Expand
  <2>3. QED
    <3> HIDE DEF n, table
    <3> QED  BY <2>1, <2>2
<1>2. \A e \in Entries(ht) : Slot(e.key, size) \in 0 .. size - 1
  BY SlotInTable DEF Sound
<1>3. Entries(n) = Entries(ht)
  <2>1. \A e : e \in Entries(n) <=> \E i \in 0 .. size - 1 : e \in table[i]
    BY <1>1, InEntries DEF Buckets
  <2>2. \A e \in Entries(ht) : e \in table[Slot(e.key, size)]
    BY <1>2
  <2>3. \A i \in 0 .. size - 1 : table[i] \subseteq Entries(ht)
    OBVIOUS
  <2>4. QED  BY <1>2, <2>1, <2>2, <2>3
<1>4. Sound(n)
  <2>1. \A i \in 0 .. size - 1 : \A e \in table[i] : Slot(e.key, size) = i
    OBVIOUS
  <2>2. /\ n.size = size /\ n.used = ht.used /\ n.table = table
        /\ Buckets(n) = 0 .. size - 1 /\ DOMAIN table = 0 .. size - 1
    BY <1>1 DEF Buckets
  <2>3. QED  BY <1>1, <1>3, <2>1, <2>2 DEF Sound
<1>5. QED  BY <1>1, <1>3, <1>4

LEMMA SoundExpandIfNeeded ==
    ASSUME NEW ht, Sound(ht)
    PROVE  /\ Sound(ExpandIfNeeded(ht))
           /\ Entries(ExpandIfNeeded(ht)) = Entries(ht)
           /\ ExpandIfNeeded(ht).size \in Nat \ {0}
<1>1. CASE ht.size = 0
  BY <1>1, SoundExpand, DictAssumption DEF DictAssumption, ExpandIfNeeded
<1>2. CASE ht.size # 0 /\ ht.used = ht.size
  <2>1. 2 * ht.size \in Nat \ {0}
    BY <1>2 DEF Sound
  <2>2. QED  BY <1>2, <2>1, SoundExpand DEF ExpandIfNeeded
<1>3. CASE ht.size # 0 /\ ht.used # ht.size
  BY <1>3 DEF ExpandIfNeeded, Sound
<1>4. QED  BY <1>1, <1>2, <1>3

(* A bucket that gets other entries of its own leaves the table sound.      *)
WithBucket(ht, i, bucket, used) == [ht EXCEPT !.table[i] = bucket, !.used = used]

LEMMA OneBucket ==
    ASSUME NEW ht, Sound(ht), NEW i \in Buckets(ht), NEW bucket, NEW used,
           \A e \in bucket : /\ e = [key |-> e.key, val |-> e.val]
                             /\ e.key \in Keys /\ Slot(e.key, ht.size) = i,
           \A e, f \in bucket : e.key = f.key => e = f,
           IsFiniteSet(bucket),
           used = Cardinality((Entries(ht) \ ht.table[i]) \cup bucket)
    PROVE  /\ Sound(WithBucket(ht, i, bucket, used))
           /\ Entries(WithBucket(ht, i, bucket, used)) = (Entries(ht) \ ht.table[i]) \cup bucket
<1> DEFINE n == WithBucket(ht, i, bucket, used)
<1>1. /\ n = [size |-> ht.size, used |-> used, table |-> [ht.table EXCEPT ![i] = bucket]]
      /\ Buckets(n) = Buckets(ht)
  <2>1. ht = [size |-> ht.size, used |-> ht.used, table |-> ht.table]
    BY DEF Sound
  <2>2. n = [ht EXCEPT !.table[i] = bucket, !.used = used]
    BY DEF WithBucket
  <2> HIDE DEF n
  <2>3. n = [size |-> ht.size, used |-> used, table |-> [ht.table EXCEPT ![i] = bucket]]
    BY <2>1, <2>2
  <2>4. QED  BY <2>3 DEF Buckets
<1> HIDE DEF n
<1>2. \A j \in Buckets(ht) : n.table[j] = IF j = i THEN bucket ELSE ht.table[j]
  BY <1>1 DEF Sound
<1>3. \A j \in Buckets(ht) : j # i => ht.table[j] \cap ht.table[i] = {}
  BY DEF Sound
<1>4. \A e : /\ e \in Entries(ht) <=> \E j \in Buckets(ht) : e \in ht.table[j]
             /\ e \in Entries(n) <=> \E j \in Buckets(ht) : e \in n.table[j]
  BY <1>1, InEntries
<1>5. Entries(n) = (Entries(ht) \ ht.table[i]) \cup bucket
  BY <1>2, <1>3, <1>4
<1>6. IsFiniteSet(Entries(n))
  BY <1>5, FS_Union, FS_Subset DEF Sound
<1>7. \A e \in Entries(n) : e = [key |-> e.key, val |-> e.val] /\ e.key \in Keys
  BY <1>5 DEF Sound
<1>8. \A j \in Buckets(n) : \A e \in n.table[j] : Slot(e.key, n.size) = j
  BY <1>1, <1>2 DEF Sound
<1>9. \A e, f \in Entries(n) : e.key = f.key => e = f
  <2>1. \A e \in Entries(ht) \ ht.table[i] : Slot(e.key, ht.size) # i
    BY <1>4 DEF Sound
  <2>2. \A e \in bucket : Slot(e.key, ht.size) = i
    OBVIOUS
  <2>3. \A e, f \in Entries(ht) : e.key = f.key => e = f
    BY DEF Sound
  <2>4. QED  BY <1>5, <2>1, <2>2, <2>3
<1>10. /\ n = [size |-> n.size, used |-> n.used, table |-> n.table]
       /\ n.size \in Nat /\ DOMAIN n.table = Buckets(n)
       /\ n.used = Cardinality(Entries(n))
  BY <1>1, <1>5 DEF Sound
<1>11. Sound(n)
  BY <1>6, <1>7, <1>8, <1>9, <1>10 DEF Sound
<1>12. QED
  BY <1>5, <1>11 DEF n

(* dictReplace, as a map: the key gets the value, the others keep theirs. *)
THEOREM ReplaceInMap ==
    ASSUME NEW ht, Sound(ht), NEW key \in Keys, NEW val
    PROVE  /\ Sound(Replace(ht, key, val))
           /\ Entries(Replace(ht, key, val)) =
                {e \in Entries(ht) : e.key # key} \cup {[key |-> key, val |-> val]}
<1> DEFINE n == ExpandIfNeeded(ht)
           i == Slot(key, n.size)
           entry == [key |-> key, val |-> val]
           old == Matches(n, key)
           bucket == (n.table[i] \ old) \cup {entry}
           m == Replace(ht, key, val)
<1>1. Sound(n) /\ Entries(n) = Entries(ht) /\ n.size \in Nat \ {0}
  BY SoundExpandIfNeeded
<1>2. i \in Buckets(n)
  BY <1>1, SlotInTable DEF Buckets
<1>3. old = {e \in Entries(n) : e.key = key} /\ old \subseteq n.table[i]
  BY <1>1, MatchesAll DEF Matches
<1>4. Found(n, key) <=> old # {}
  BY DEF Found
<1>5. m = [n EXCEPT !.table[i] = bucket, !.used = IF old # {} THEN n.used ELSE n.used + 1]
  <2>1. CASE old # {}
    BY <1>1, <1>4, <2>1 DEF Replace, Sound
  <2>2. CASE old = {}
    BY <1>1, <1>4, <2>2 DEF Replace, Sound
  <2>3. QED  BY <2>1, <2>2
<1>6. (Entries(n) \ n.table[i]) \cup bucket = (Entries(n) \ old) \cup {entry}
  BY <1>2, <1>3, InEntries
<1>7. /\ Cardinality((Entries(n) \ old) \cup {entry}) = IF old # {} THEN n.used ELSE n.used + 1
      /\ IsFiniteSet(bucket)
  <2>1. IsFiniteSet(Entries(n)) /\ n.used = Cardinality(Entries(n)) /\ n.used \in Nat
    BY <1>1, FS_CardinalityType DEF Sound
  <2>2. IsFiniteSet(n.table[i])
    BY <1>2, <2>1, InEntries, FS_Subset
  <2>3. IsFiniteSet(n.table[i] \ old)
    BY <2>2, FS_Subset
  <2>4. IsFiniteSet(bucket)
    BY <2>3, FS_AddElement
  <2>5. CASE old = {}
    <3>1. entry \notin Entries(n)
      BY <1>3, <2>5
    <3>2. Cardinality(Entries(n) \cup {entry}) = n.used + 1
      BY <2>1, <3>1, FS_AddElement
    <3>3. QED  BY <2>4, <2>5, <3>2
  <2>6. CASE old # {}
    <3>1. PICK e \in old : old = {e}
      BY <1>1, <1>3, <2>6 DEF Sound
    <3>2. IsFiniteSet(Entries(n) \ {e}) /\ Cardinality(Entries(n) \ {e}) = n.used - 1
      BY <1>3, <2>1, <3>1, FS_RemoveElement
    <3>3. entry \notin Entries(n) \ {e}
      BY <1>3, <3>1
    <3>4. Cardinality((Entries(n) \ {e}) \cup {entry}) = n.used
      <4> DEFINE rest == Entries(n) \ {e}
      <4> HIDE DEF rest, n, entry
      <4>1. Cardinality(rest \cup {entry}) = Cardinality(rest) + 1
        BY <3>2, <3>3, FS_AddElement DEF rest
      <4>2. QED  BY <2>1, <3>2, <4>1 DEF rest
    <3>5. QED  BY <2>4, <2>6, <3>1, <3>4
  <2>7. QED  BY <2>5, <2>6
<1>8. \A e \in bucket : /\ e = [key |-> e.key, val |-> e.val]
                        /\ e.key \in Keys /\ Slot(e.key, n.size) = i
  BY <1>1, <1>2, InEntries DEF Sound
<1>9. \A e, f \in bucket : e.key = f.key => e = f
  <2>1. \A e \in n.table[i] \ old : e.key # key /\ e \in Entries(n)
    BY <1>2, <1>3, InEntries
  <2>2. QED  BY <1>1, <2>1 DEF Sound
<1>10. /\ Sound(m)
       /\ Entries(m) = (Entries(n) \ n.table[i]) \cup bucket
  <2> DEFINE used == IF old # {} THEN n.used ELSE n.used + 1
  <2> HIDE DEF n, i, entry, old, bucket, m
  <2>1. used = Cardinality((Entries(n) \ n.table[i]) \cup bucket)
    BY <1>6, <1>7
  <2>2. m = WithBucket(n, i, bucket, used)
    BY <1>5 DEF WithBucket
  <2> HIDE DEF used
  <2>3. QED  BY <1>1, <1>2, <1>7, <1>8, <1>9, <2>1, <2>2, OneBucket
<1>11. QED
  BY <1>1, <1>3, <1>6, <1>10

(* dictDelete, as a map: the key goes, the others stay. *)
THEOREM DeleteFromMap ==
    ASSUME NEW ht, Sound(ht), NEW key \in Keys
    PROVE  /\ Sound(Delete(ht, key))
           /\ Entries(Delete(ht, key)) = {e \in Entries(ht) : e.key # key}
<1> DEFINE i == Slot(key, ht.size)
           old == Matches(ht, key)
           bucket == ht.table[i] \ old
           m == Delete(ht, key)
<1>1. old = {e \in Entries(ht) : e.key = key}
  BY MatchesAll
<1>2. CASE old = {}
  BY <1>1, <1>2 DEF Delete, Found
<1>3. CASE old # {}
  <2>1. ht.size \in Nat \ {0} /\ old \subseteq ht.table[i]
    BY <1>3 DEF Matches, Sound
  <2>2. i \in Buckets(ht)
    BY <2>1, SlotInTable DEF Buckets
  <2>3. m = [ht EXCEPT !.table[i] = bucket, !.used = ht.used - 1]
    BY <1>3 DEF Delete, Found, Sound
  <2>4. PICK e \in old : old = {e}
    BY <1>1, <1>3 DEF Sound
  <2>5. (Entries(ht) \ ht.table[i]) \cup bucket = Entries(ht) \ {e}
    BY <1>1, <2>1, <2>2, <2>4, InEntries
  <2>6. Cardinality(Entries(ht) \ {e}) = ht.used - 1
    BY <1>1, <2>4, FS_RemoveElement DEF Sound
  <2>7. IsFiniteSet(bucket)
    <3>1. ht.table[i] \subseteq Entries(ht)
      BY <2>2, InEntries
    <3>2. bucket \subseteq Entries(ht) /\ IsFiniteSet(Entries(ht))
      BY <3>1 DEF Sound
    <3>3. QED
      <4> HIDE DEF bucket
      <4> QED  BY <3>2, FS_Subset
  <2>8. \A f \in bucket : /\ f = [key |-> f.key, val |-> f.val]
                          /\ f.key \in Keys /\ Slot(f.key, ht.size) = i
    BY <2>2, InEntries DEF Sound
  <2>9. \A f, g \in bucket : f.key = g.key => f = g
    BY <2>2, InEntries DEF Sound
  <2>10. Sound(m) /\ Entries(m) = (Entries(ht) \ ht.table[i]) \cup bucket
    <3> DEFINE used == ht.used - 1
    <3> HIDE DEF i, old, bucket, m
    <3>1. used = Cardinality((Entries(ht) \ ht.table[i]) \cup bucket)
      BY <2>5, <2>6
    <3>2. m = WithBucket(ht, i, bucket, used)
      BY <2>3 DEF WithBucket
    <3> HIDE DEF used
    <3>3. QED  BY <2>2, <2>7, <2>8, <2>9, <3>1, <3>2, OneBucket
  <2>11. QED
    BY <1>1, <2>4, <2>5, <2>10
<1>4. QED  BY <1>2, <1>3

(* What dictFind finds in a sound table: the one entry of the key. *)
LEMMA SoundFind ==
    ASSUME NEW ht, Sound(ht)
    PROVE  /\ ht.used = Cardinality(Entries(ht))
           /\ \A e \in Entries(ht) : Matches(ht, e.key) = {e}
<1>1. ASSUME NEW e \in Entries(ht) PROVE Matches(ht, e.key) = {e}
  <2>1. e.key \in Keys /\ \A f \in Entries(ht) : f.key = e.key => f = e
    BY DEF Sound
  <2>2. QED  BY <2>1, MatchesAll
<1>2. QED  BY <1>1 DEF Sound

-----------------------------------------------------------------------------
(* The context. *)
Verbs == {"", "subscribe", "unsubscribe", "message"}

Replies ==
    [type : {"array", "status", "error"}, verb : Verbs, pv : BOOLEAN,
     name : Keys \cup {None}, count : Int, to : Nat]

Running == mode \in {"loop", "process", "callback"}

(* What is on the wire names channels that there are. *)
Wired ==
    /\ sock \in Seq(Replies) /\ rdr \in Seq(Replies)
    /\ ssub \subseteq BOOLEAN \X Keys /\ IsFiniteSet(ssub)

Heard == got \in Seq(Seq(Int)) /\ Len(got) = Len(cmds)

Tables ==
    /\ DOMAIN subs = BOOLEAN /\ subs = [pv \in BOOLEAN |-> subs[pv]]
    /\ \A pv \in BOOLEAN : Sound(subs[pv]) /\ \A e \in Entries(subs[pv]) : e.val \in Numbers

(* The watchers are started also while callbacks run. *)
Watched ==
    Running => /\ obuf # <<>> => writing
               /\ Flag("connected") => reading

IInv == TypeOK /\ Wired /\ Heard /\ Tables /\ Watched

LEMMA SeqWider ==
    ASSUME NEW S, NEW T, S \subseteq T, NEW s \in Seq(S)
    PROVE  s \in Seq(T)
<1>1. \A i \in 1 .. Len(s) : s[i] \in T
  OBVIOUS
<1>2. s = [i \in 1 .. Len(s) |-> s[i]] /\ Len(s) \in Nat
  OBVIOUS
<1>3. QED  BY <1>1, <1>2

LEMMA CallTypes ==
    ASSUME NEW c \in Call
    PROVE  /\ c.kind \in {"command", "monitor", "subscribe", "unsubscribe"}
           /\ c.pv \in BOOLEAN /\ c.name \in Keys \cup {None}
           /\ c.kind = "subscribe" => c.name \in Keys
BY DEF Call

LEMMA ReplyTypes ==
    /\ \A n \in Nat : \A type \in {"status", "error"} : Reply(type, n) \in Replies
    /\ \A verb \in Verbs, pv \in BOOLEAN, name \in Keys \cup {None}, count \in Int, n \in Nat :
         Array(verb, pv, name, count, n) \in Replies
<1>1. ASSUME NEW n \in Nat, NEW type \in {"status", "error"} PROVE Reply(type, n) \in Replies
  BY DEF Reply, Replies, Verbs
<1>2. ASSUME NEW verb \in Verbs, NEW pv \in BOOLEAN, NEW name \in Keys \cup {None},
             NEW count \in Int, NEW n \in Nat
      PROVE  Array(verb, pv, name, count, n) \in Replies
  BY DEF Array, Replies
<1>3. QED  BY <1>1, <1>2

LEMMA Initial == Init => IInv
<1> SUFFICES ASSUME Init PROVE IInv
  OBVIOUS
<1>1. TypeOK
  <2>1. DOMAIN got = Numbers
    BY DEF Init, Numbers
  <2>2. /\ replies \in Seq(Numbers \cup {Wild}) /\ invalid \in Seq(Numbers)
        /\ obuf \in Seq(Numbers) /\ cmds \in Seq(Call)
    BY DEF Init
  <2>3. QED  BY <2>1, <2>2 DEF Init, TypeOK, Flag
<1>2. Wired
  BY FS_EmptySet DEF Init, Wired
<1>3. Heard
  BY DEF Init, Heard
<1>4. Tables
  <2>1. Entries(EmptyDict) = {}
    BY DEF Entries, EmptyDict
  <2>2. QED  BY <2>1, SoundEmpty DEF Init, Tables
<1>5. Watched
  BY DEF Init, Watched, Flag
<1>6. QED  BY <1>1, <1>2, <1>3, <1>4, <1>5 DEF IInv

-----------------------------------------------------------------------------
(* The server. *)
SocketTyped == sock' \in Seq(Replies) /\ ssub' \subseteq BOOLEAN \X Keys /\ IsFiniteSet(ssub')

LEMMA SendsTyped ==
    ASSUME IInv, NEW r \in Replies, Sends(<<r>>) PROVE sock' \in Seq(Replies)
BY DEF IInv, Wired, Sends

LEMMA UnsubscribesTyped ==
    ASSUME IInv, NEW n \in Numbers, NEW gone \in SUBSET ssub, Unsubscribes(n, gone)
    PROVE  SocketTyped
<1> DEFINE m == cmds[n]
           total == Cardinality(ssub)
<1>1. m.pv \in BOOLEAN /\ m.name \in Keys \cup {None} /\ n \in Nat
  BY CallTypes DEF IInv, TypeOK, Numbers
<1>2. total \in Nat /\ Cardinality(gone) \in Nat
  <2>1. IsFiniteSet(ssub)
    BY DEF IInv, Wired
  <2>2. IsFiniteSet(gone)
    BY <2>1, FS_Subset
  <2>3. QED  BY <2>1, <2>2, FS_CardinalityType
<1>3. ssub' \subseteq BOOLEAN \X Keys /\ IsFiniteSet(ssub')
  BY FS_Subset DEF IInv, Wired, Unsubscribes
<1>4. CASE gone = {}
  <2>1. Array("unsubscribe", m.pv, m.name, total, n) \in Replies
    <3>1. "unsubscribe" \in Verbs /\ total \in Int
      BY <1>2 DEF Verbs
    <3> HIDE DEF m, total
    <3>2. QED  BY <1>1, <3>1, ReplyTypes
  <2>2. Sends(<<Array("unsubscribe", m.pv, m.name, total, n)>>)
    BY <1>4 DEF Unsubscribes
  <2>3. QED  BY <1>3, <2>1, <2>2, SendsTyped DEF SocketTyped
<1>5. CASE gone # {}
  <2>1. PICK f \in [1 .. Cardinality(gone) -> gone] :
          Sends([i \in DOMAIN f |-> Array("unsubscribe", m.pv, f[i][2], total - i, n)])
    BY <1>5 DEF Unsubscribes
  <2> DEFINE s == [i \in DOMAIN f |-> Array("unsubscribe", m.pv, f[i][2], total - i, n)]
  <2>2. ASSUME NEW i \in DOMAIN f PROVE s[i] \in Replies
    <3>1. f[i] \in BOOLEAN \X Keys /\ total - i \in Int
      BY <1>2 DEF IInv, Wired
    <3>2. f[i][2] \in Keys \cup {None}
      BY <3>1
    <3>3. QED  BY <1>1, <3>1, <3>2, ReplyTypes DEF Verbs
  <2>3. s \in Seq(Replies)
    <3>1. DOMAIN s = 1 .. Cardinality(gone)
      OBVIOUS
    <3> HIDE DEF s
    <3>2. s = [i \in 1 .. Cardinality(gone) |-> s[i]]
      BY <3>1 DEF s
    <3>3. QED  BY <1>2, <2>2, <3>1, <3>2
  <2>4. sock' \in Seq(Replies)
    <3> HIDE DEF s
    <3>1. Sends(s)
      BY <2>1 DEF s
    <3>2. QED  BY <2>3, <3>1 DEF Sends, IInv, Wired
  <2>5. QED  BY <1>3, <2>4 DEF SocketTyped
<1>6. QED  BY <1>4, <1>5

LEMMA ExecutesTyped ==
    ASSUME IInv, NEW n \in Numbers, Executes(n)
    PROVE  SocketTyped
<1> DEFINE m == cmds[n]
           key == <<m.pv, m.name>>
<1>1. /\ m.kind \in {"command", "monitor", "subscribe", "unsubscribe"}
      /\ m.pv \in BOOLEAN /\ m.name \in Keys \cup {None} /\ n \in Nat
      /\ m.kind = "subscribe" => m.name \in Keys
  BY CallTypes DEF IInv, TypeOK, Numbers
<1>2. ssub \subseteq BOOLEAN \X Keys /\ IsFiniteSet(ssub)
  BY DEF IInv, Wired
<1>3. CASE m.kind = "subscribe"
  <2>1. /\ ssub' = ssub \cup {key}
        /\ Sends(<<Array("subscribe", m.pv, m.name, Cardinality(ssub'), n)>>)
    BY <1>3 DEF Executes
  <2>2. ssub' \subseteq BOOLEAN \X Keys
    BY <1>1, <1>2, <1>3, <2>1
  <2>3. IsFiniteSet(ssub')
    BY <1>2, <2>1, FS_AddElement
  <2>4. Cardinality(ssub') \in Int
    BY <2>3, FS_CardinalityType
  <2>5. Array("subscribe", m.pv, m.name, Cardinality(ssub'), n) \in Replies
    BY <1>1, <2>4, ReplyTypes DEF Verbs
  <2>6. QED  BY <2>1, <2>2, <2>3, <2>5, SendsTyped DEF SocketTyped
<1>4. CASE m.kind = "unsubscribe"
  <2>1. Unsubscribes(n, {k \in ssub : k = key \/ (m.name = None /\ k[1] = m.pv)})
    BY <1>4 DEF Executes
  <2>2. QED  BY <2>1, UnsubscribesTyped
<1>5. CASE m.kind \in {"command", "monitor"}
  <2>1. /\ UNCHANGED ssub
        /\ \E type \in {"status", "error"} : Sends(<<Reply(type, n)>>)
    BY <1>5 DEF Executes
  <2>2. QED  BY <1>1, <1>2, <2>1, ReplyTypes, SendsTyped DEF SocketTyped
<1>6. QED  BY <1>1, <1>3, <1>4, <1>5

LEMMA EnvironmentIInv == IInv /\ Environment => IInv'
<1> SUFFICES ASSUME IInv, Environment PROVE IInv'
  OBVIOUS
<1>1. sock' \in Seq(Replies)
  <2>1. CASE Publish
    <3>1. PICK k \in ssub : Pushes(Array("message", k[1], k[2], 0, 0))
      BY <2>1 DEF Publish
    <3>2. k[1] \in BOOLEAN /\ k[2] \in Keys \cup {None}
      BY DEF IInv, Wired
    <3>3. Array("message", k[1], k[2], 0, 0) \in Replies
      <4>1. "message" \in Verbs /\ 0 \in Int /\ 0 \in Nat
        BY DEF Verbs
      <4>2. QED  BY <3>2, <4>1, ReplyTypes
    <3>4. QED  BY <3>1, <3>3, SendsTyped DEF Pushes
  <2>2. CASE MonitorLine
    BY <2>2, ReplyTypes, SendsTyped DEF MonitorLine, Pushes
  <2>3. CASE Rejects
    BY <2>3, ReplyTypes, SendsTyped DEF Rejects
  <2>4. CASE LoseConnection
    BY <2>4 DEF LoseConnection, IInv, Wired
  <2>5. QED  BY <2>1, <2>2, <2>3, <2>4 DEF Environment
<1>2. UNCHANGED <<mode, context, obuf, rdr, events, ssub, history>>
  BY DEF Environment, Publish, MonitorLine, Pushes, Rejects, LoseConnection
<1>3. TypeOK' /\ Heard'
  BY <1>2 DEF IInv, TypeOK, Heard, Numbers, Flag, context, events, history
<1>4. Wired'
  BY <1>1, <1>2 DEF IInv, Wired
<1>5. Tables' /\ Watched'
  BY <1>2 DEF IInv, Tables, Watched, Running, Numbers, Flag, context, events, history
<1>6. QED  BY <1>3, <1>4, <1>5 DEF IInv

-----------------------------------------------------------------------------
(* The program.  A command that is accepted has a number of its own, and    *)
(* the write watcher is started.                                            *)
LEMMA Accepted ==
    ASSUME IInv, NEW c \in Call, Accept(c)
    PROVE  /\ Numbers' = Numbers \cup {Len(cmds')} /\ Len(cmds') \in Numbers'
           /\ Heard'
           /\ cmds' \in Seq(Call) /\ DOMAIN got' = Numbers'
           /\ obuf' \in Seq(Numbers')
<1>1. /\ cmds \in Seq(Call) /\ got \in Seq(Seq(Int)) /\ Len(got) = Len(cmds)
      /\ obuf \in Seq(Numbers)
  BY DEF IInv, TypeOK, Heard
<1>2. /\ cmds' = Append(cmds, c) /\ got' = Append(got, <<>>)
      /\ obuf' = Append(obuf, Len(cmds'))
  BY DEF Accept
<1>3. /\ cmds' \in Seq(Call) /\ Len(cmds') = Len(cmds) + 1
  BY <1>1, <1>2
<1>4. got' \in Seq(Seq(Int)) /\ Len(got') = Len(got) + 1 /\ Len(got) \in Nat
  BY <1>1, <1>2
<1>5. DOMAIN got' = 1 .. Len(got')
  BY <1>4
<1>6. Numbers' = Numbers \cup {Len(cmds')} /\ Len(cmds') \in Numbers'
  BY <1>1, <1>3 DEF Numbers
<1>7. obuf \in Seq(Numbers')
  BY <1>1, <1>6, SeqWider
<1>8. obuf' \in Seq(Numbers')
  BY <1>2, <1>6, <1>7
<1>9. QED
  BY <1>1, <1>3, <1>4, <1>5, <1>6, <1>8 DEF Heard, Numbers

(* The lists of callbacks are those they were, or one longer. *)
LEMMA PushTyped ==
    ASSUME IInv, NEW c \in Call, Accept(c)
    PROVE  /\ replies \in Seq(Numbers' \cup {Wild}) /\ Push(replies) \in Seq(Numbers' \cup {Wild})
           /\ invalid \in Seq(Numbers') /\ Push(invalid) \in Seq(Numbers')
           /\ cb \in Numbers' \cup {Wild}
<1>1. Numbers \subseteq Numbers' /\ Len(cmds') \in Numbers'
  BY Accepted
<1>2. replies \in Seq(Numbers' \cup {Wild})
  <2>1. Numbers \cup {Wild} \subseteq Numbers' \cup {Wild} /\ replies \in Seq(Numbers \cup {Wild})
    BY <1>1 DEF IInv, TypeOK
  <2>2. QED  BY <2>1, SeqWider
<1>3. invalid \in Seq(Numbers')
  BY <1>1, SeqWider DEF IInv, TypeOK
<1>4. QED  BY <1>1, <1>2, <1>3 DEF Push, IInv, TypeOK

LEMMA IssueIInv == IInv /\ Issue => IInv'
<1> SUFFICES ASSUME IInv, Issue PROVE IInv'
  OBVIOUS
<1>1. PICK s \in Scripts : LET c == s[Len(cmds) + 1]
                           IN /\ Len(cmds) < Len(s)
                              /\ Command(c) \/ Subscribe(c) \/ Unsubscribe(c) \/ Monitor(c)
  BY DEF Issue
<1> DEFINE c == s[Len(cmds) + 1]
<1>2. c \in Call
  BY <1>1, AsyncAssumption DEF AsyncAssumption, IInv, TypeOK
<1>3. Accept(c)
  BY <1>1 DEF Command, Subscribe, Unsubscribe, Monitor
<1>4. Command(c) \/ Subscribe(c) \/ Unsubscribe(c) \/ Monitor(c)
  BY <1>1
<1> HIDE DEF c
<1>5. /\ replies' \in Seq(Numbers' \cup {Wild}) /\ invalid' \in Seq(Numbers')
      /\ flags' \in {flags, flags \cup {"subscribed"}, flags \cup {"monitoring"}}
  BY <1>2, <1>3, <1>4, PushTyped DEF Command, Subscribe, Unsubscribe, Monitor
<1>6. /\ UNCHANGED <<mode, err, cb, rdr, reading, server>>
      /\ writing' = TRUE
  BY <1>3 DEF Accept
<1>7. TypeOK'
  BY <1>2, <1>3, <1>5, <1>6, Accepted, PushTyped DEF IInv, TypeOK, Flag
<1>8. Wired'
  BY <1>6 DEF IInv, Wired, server
<1>9. Heard'
  BY <1>2, <1>3, Accepted
<1>10. Tables'
  <2>1. Numbers \subseteq Numbers' /\ Len(cmds') \in Numbers'
    BY <1>2, <1>3, Accepted
  <2>2. CASE UNCHANGED subs
    BY <2>1, <2>2 DEF IInv, Tables
  <2>3. CASE Subscribe(c)
    <3>1. c.pv \in BOOLEAN /\ c.name \in Keys
      BY <1>2, <2>3, CallTypes DEF Subscribe
    <3> DEFINE new == Replace(subs[c.pv], c.name, Len(cmds'))
    <3>2. subs' = [subs EXCEPT ![c.pv] = new]
      BY <2>3 DEF Subscribe
    <3>3. /\ Sound(new)
          /\ Entries(new) = {e \in Entries(subs[c.pv]) : e.key # c.name}
                              \cup {[key |-> c.name, val |-> Len(cmds')]}
      BY <3>1, ReplaceInMap DEF IInv, Tables
    <3>4. \A e \in Entries(new) : e.val \in Numbers'
      BY <2>1, <3>1, <3>3 DEF IInv, Tables
    <3> HIDE DEF new
    <3>5. QED  BY <2>1, <3>1, <3>2, <3>3, <3>4 DEF IInv, Tables
  <2>4. QED  BY <1>4, <2>2, <2>3 DEF Command, Unsubscribe, Monitor
<1>11. Watched'
  BY <1>5, <1>6 DEF IInv, Watched, Running, Flag
<1>12. QED  BY <1>7, <1>8, <1>9, <1>10, <1>11 DEF IInv

LEMMA LeaveIInv == IInv /\ (Disconnect \/ Free) => IInv'
<1> SUFFICES ASSUME IInv, Disconnect \/ Free PROVE IInv'
  OBVIOUS
<1>1. /\ UNCHANGED <<err, replies, invalid, subs, cb, obuf, rdr, events, server, cmds, got>>
      /\ flags' \in {flags \cup {"disconnecting"}, flags \cup {"freeing"}}
      /\ mode' = mode \/ (mode = "loop" /\ mode' \in {"teardown", "aborted"})
  BY DEF Disconnect, Free, CleanDisconnect
<1>2. TypeOK'
  BY <1>1 DEF IInv, TypeOK, Numbers, Flag, events
<1>3. Wired' /\ Heard' /\ Tables'
  BY <1>1 DEF IInv, Wired, Heard, Tables, Numbers, server
<1>4. Watched'
  BY <1>1 DEF IInv, Watched, Running, Flag, events
<1>5. QED  BY <1>2, <1>3, <1>4 DEF IInv

-----------------------------------------------------------------------------
(* The events.  What ends the connection on an error needs no watcher. *)
LEMMA ErrorIInv ==
    ASSUME IInv, mode \in {"loop", "process"}, mode' = "teardown", err' = TRUE,
           flags' \in {flags \cup {"disconnecting"}, flags \cup {"connected", "disconnecting"}},
           UNCHANGED <<replies, invalid, subs, cb, obuf, rdr, events, server, history>>
    PROVE  IInv'
<1>1. TypeOK'
  BY DEF IInv, TypeOK, Numbers, Flag, events, history
<1>2. Wired' /\ Heard' /\ Tables' /\ Watched'
  BY DEF IInv, Wired, Heard, Tables, Watched, Running, Numbers, server, history
<1>3. QED  BY <1>1, <1>2 DEF IInv

LEMMA WriteIInv == IInv /\ Write => IInv'
<1> SUFFICES ASSUME IInv, Write PROVE IInv'
  OBVIOUS
<1>1. CASE ConnectFails \/ WriteFails
  <2>1. /\ mode \in {"loop", "process"} /\ mode' = "teardown" /\ err' = TRUE
        /\ flags' \in {flags \cup {"disconnecting"}, flags \cup {"connected", "disconnecting"}}
        /\ UNCHANGED <<replies, invalid, subs, cb, obuf, rdr, events, server, history>>
    BY <1>1 DEF ConnectFails, WriteFails, DisconnectOnError, events
  <2>2. QED  BY <2>1, ErrorIInv
<1>2. CASE HandleWrite \/ HandleWriteNone
  <2>1. /\ mode = "loop" /\ flags' = flags \cup {"connected"}
        /\ writing' = (obuf' # <<>>) /\ reading' = TRUE
        /\ UNCHANGED <<mode, err, replies, invalid, subs, cb, rdr, history>>
    BY <1>2 DEF HandleWrite, HandleWriteNone, WriteEvent, Rescheduled
  <2>2. obuf' \in Seq(Numbers)
    <3>1. obuf \in Seq(Numbers) /\ (obuf # <<>> => Tail(obuf) \in Seq(Numbers))
      BY DEF IInv, TypeOK
    <3>2. obuf' = obuf \/ (obuf # <<>> /\ obuf' = Tail(obuf))
      BY <1>2 DEF HandleWrite, HandleWriteNone
    <3>3. QED  BY <3>1, <3>2
  <2>3. writing' \in BOOLEAN
    <3>1. CASE obuf' = <<>>
      BY <2>1, <3>1
    <3>2. CASE obuf' # <<>>
      BY <2>1, <3>2
    <3>3. QED  BY <3>1, <3>2
  <2>4. TypeOK'
    BY <2>1, <2>2, <2>3 DEF IInv, TypeOK, Numbers, Flag, history
  <2>5. SocketTyped
    <3>1. CASE UNCHANGED <<sock, ssub>>
      BY <3>1 DEF IInv, Wired, SocketTyped
    <3>2. CASE HandleWrite /\ Executes(Head(obuf))
      <4>1. Head(obuf) \in Numbers
        BY <3>2 DEF HandleWrite, IInv, TypeOK
      <4>2. QED  BY <3>2, <4>1, ExecutesTyped
    <3>3. QED  BY <1>2, <3>1, <3>2 DEF HandleWrite, HandleWriteNone, server
  <2>6. Wired' /\ Heard' /\ Tables'
    BY <2>1, <2>5 DEF IInv, Wired, Heard, Tables, Numbers, SocketTyped, history
  <2>7. Watched'
    BY <2>1 DEF Watched
  <2>8. QED  BY <2>4, <2>6, <2>7 DEF IInv
<1>3. QED  BY <1>1, <1>2 DEF Write

LEMMA ReadIInv == IInv /\ (HandleRead \/ ReadFails) => IInv'
<1> SUFFICES ASSUME IInv, HandleRead \/ ReadFails PROVE IInv'
  OBVIOUS
<1>1. CASE ReadFails
  BY <1>1, ErrorIInv DEF ReadFails, ReadEvent, DisconnectOnError
<1>2. CASE HandleRead
  <2>1. PICK n \in 0 .. Len(sock) :
          rdr' = SubSeq(sock, 1, n) /\ sock' = SubSeq(sock, n + 1, Len(sock))
    BY <1>2 DEF HandleRead
  <2>2. sock' \in Seq(Replies) /\ rdr' \in Seq(Replies)
    <3>1. sock \in Seq(Replies) /\ n \in Nat /\ n <= Len(sock) /\ Len(sock) \in Nat
      BY <2>1 DEF IInv, Wired
    <3>2. \A i \in 1 .. n : sock[i] \in Replies
      BY <3>1
    <3>3. \A i \in n + 1 .. Len(sock) : sock[i] \in Replies
      BY <3>1
    <3>4. SubSeq(sock, 1, n) \in Seq(Replies)
      BY <3>1, <3>2, SubSeqProperties
    <3>5. SubSeq(sock, n + 1, Len(sock)) \in Seq(Replies)
      BY <3>1, <3>3, SubSeqProperties
    <3>6. QED  BY <2>1, <3>4, <3>5
  <2>3. /\ mode = "loop" /\ mode' = "process" /\ cb' = Wild /\ reading' = TRUE
        /\ UNCHANGED <<flags, err, replies, invalid, subs, obuf, writing, ssub, history>>
    BY <1>2 DEF HandleRead, ReadEvent
  <2>4. TypeOK'
    BY <2>3 DEF IInv, TypeOK, Numbers, Flag, history
  <2>5. Wired' /\ Heard' /\ Tables'
    BY <2>2, <2>3 DEF IInv, Wired, Heard, Tables, Numbers, history
  <2>6. Watched'
    BY <2>3 DEF IInv, Watched, Running, Flag
  <2>7. QED  BY <2>4, <2>5, <2>6 DEF IInv
<1>3. QED  BY <1>1, <1>2

-----------------------------------------------------------------------------
(* redisProcessCallbacks. *)
LEMMA GivenHeard ==
    ASSUME IInv, NEW n \in Numbers, NEW what \in Int, Given(n, what)
    PROVE  got' \in Seq(Seq(Int)) /\ Len(got') = Len(got) /\ DOMAIN got' = DOMAIN got
<1>1. got \in Seq(Seq(Int)) /\ DOMAIN got = Numbers
  BY DEF IInv, TypeOK, Heard
<1>2. Append(got[n], what) \in Seq(Int)
  BY <1>1
<1>3. QED  BY <1>1, <1>2 DEF Given

(* A callback that is called, or is NULL, leaves everything but the lists   *)
(* and the tables as it has to be.                                          *)
LEMMA RunTyped ==
    ASSUME IInv, Processing, NEW n \in Numbers, NEW fl \in SUBSET flags, Run(n, fl)
    PROVE  /\ mode \in {"loop", "process"} /\ mode' \in {"process", "callback"}
           /\ flags' \subseteq flags \cup {"in_callback"}
           /\ mode' = "callback" <=> "in_callback" \in flags'
           /\ cb' \in Numbers
           /\ got' \in Seq(Seq(Int)) /\ Len(got') = Len(got) /\ DOMAIN got' = DOMAIN got
           /\ rdr' \in Seq(Replies)
           /\ UNCHANGED <<err, obuf, events, server, cmds>>
<1>1. /\ mode = "process" /\ "in_callback" \notin flags
      /\ rdr \in Seq(Replies) /\ rdr # <<>>
  BY DEF Processing, IInv, TypeOK, Wired, Flag
<1>2. Head(rdr).to \in Int /\ Tail(rdr) \in Seq(Replies)
  <2>1. Head(rdr) \in Replies
    BY <1>1
  <2>2. QED  BY <1>1, <2>1 DEF Replies
<1>3. CASE cmds[n].fn
  <2>1. Given(n, Head(rdr).to)
    BY <1>3 DEF Run
  <2>2. got' \in Seq(Seq(Int)) /\ Len(got') = Len(got) /\ DOMAIN got' = DOMAIN got
    BY <1>2, <2>1, GivenHeard
  <2>3. QED  BY <1>1, <1>2, <1>3, <2>2 DEF Run
<1>4. CASE ~cmds[n].fn
  BY <1>1, <1>2, <1>4 DEF Run, IInv, Heard
<1>5. QED  BY <1>3, <1>4

LEMMA RunIInv ==
    ASSUME IInv, Processing, NEW n \in Numbers, NEW fl \in SUBSET flags, Run(n, fl),
           replies' \in Seq(Numbers \cup {Wild}), invalid' \in Seq(Numbers), Tables'
    PROVE  IInv'
<1>1. Numbers' = Numbers
  BY RunTyped DEF Numbers
<1>2. TypeOK'
  BY <1>1, RunTyped DEF IInv, TypeOK, Flag, events
<1>3. Wired' /\ Heard'
  BY RunTyped DEF IInv, Wired, Heard, server
<1>4. Watched'
  BY RunTyped DEF IInv, Watched, Running, Flag, Processing, events
<1>5. QED  BY <1>2, <1>3, <1>4 DEF IInv

(* The callback that a reply is to comes from a list or a table. *)
LEMMA ReplyIInv ==
    ASSUME IInv, ReplyToCommand \/ ReplyToSubscription \/ ReplyToInvalid \/ ReplyToNobody
    PROVE  IInv'
<1>1. /\ replies \in Seq(Numbers \cup {Wild}) /\ invalid \in Seq(Numbers)
      /\ cb \in Numbers \cup {Wild} /\ flags \in SUBSET flags
  BY DEF IInv, TypeOK
<1>2. CASE ReplyToCommand
  <2>1. /\ Processing /\ Run(Head(replies), flags) /\ Head(replies) # Wild
        /\ replies # <<>> /\ replies' = Tail(replies) /\ UNCHANGED <<invalid, subs>>
    BY <1>2 DEF ReplyToCommand
  <2>2. Head(replies) \in Numbers /\ replies' \in Seq(Numbers \cup {Wild})
    BY <1>1, <2>1
  <2>3. UNCHANGED cmds
    BY <1>1, <2>1, <2>2, RunTyped
  <2>4. Tables'
    BY <2>1, <2>3 DEF IInv, Tables, Numbers
  <2>5. QED  BY <1>1, <2>1, <2>2, <2>4, RunIInv
<1>3. CASE ReplyToSubscription
  <2> DEFINE r == Head(rdr)
             n == Find(subs[r.pv], r.name)
             fl == IF r.verb = "unsubscribe" /\ r.count = 0 THEN flags \ {"subscribed"} ELSE flags
  <2>1. /\ Processing /\ Run(n, fl) /\ Found(subs[r.pv], r.name) /\ r.name # None
        /\ UNCHANGED <<replies, invalid>>
        /\ subs' = IF r.verb = "unsubscribe"
                   THEN [subs EXCEPT ![r.pv] = Delete(@, r.name)]
                   ELSE subs
    BY <1>3 DEF ReplyToSubscription, Spontaneous, Unasked, Expected
  <2>2. r.pv \in BOOLEAN /\ r.name \in Keys
    <3>1. r \in Replies
      BY <2>1 DEF Processing, IInv, Wired
    <3>2. QED  BY <2>1, <3>1 DEF Replies
  <2> DEFINE ht == subs[r.pv]
  <2>3. Sound(ht) /\ \A e \in Entries(ht) : e.val \in Numbers
    BY <2>2 DEF IInv, Tables
  <2>4. n \in Numbers
    <3>1. Matches(ht, r.name) # {} /\ Matches(ht, r.name) \subseteq Entries(ht)
      BY <2>1, <2>2, <2>3, MatchesAll DEF Found
    <3>2. (CHOOSE e \in Matches(ht, r.name) : TRUE) \in Matches(ht, r.name)
      BY <3>1
    <3>3. QED  BY <2>3, <3>1, <3>2 DEF Find
  <2>5. fl \in SUBSET flags
    OBVIOUS
  <2> HIDE DEF n, fl
  <2>6. UNCHANGED cmds
    BY <2>1, <2>4, <2>5, RunTyped
  <2>7. Tables'
    <3>1. CASE UNCHANGED subs
      BY <2>6, <3>1 DEF IInv, Tables, Numbers
    <3>2. CASE subs' = [subs EXCEPT ![r.pv] = Delete(ht, r.name)]
      <4> DEFINE new == Delete(ht, r.name)
      <4>1. Sound(new) /\ Entries(new) \subseteq Entries(ht)
        BY <2>2, <2>3, DeleteFromMap
      <4>2. subs' = [subs EXCEPT ![r.pv] = new]
        BY <3>2
      <4> HIDE DEF new, r
      <4>3. QED  BY <2>2, <2>3, <2>6, <4>1, <4>2 DEF IInv, Tables, Numbers
    <3>3. QED  BY <2>1, <3>1, <3>2
  <2>8. QED  BY <1>1, <2>1, <2>4, <2>5, <2>7, RunIInv
<1>4. CASE ReplyToInvalid
  <2>1. /\ Processing /\ Run(Head(invalid), flags)
        /\ invalid # <<>> /\ invalid' = Tail(invalid) /\ UNCHANGED <<replies, subs>>
    BY <1>4 DEF ReplyToInvalid, Spontaneous, Unasked
  <2>2. Head(invalid) \in Numbers /\ invalid' \in Seq(Numbers)
    BY <1>1, <2>1
  <2>3. UNCHANGED cmds
    BY <1>1, <2>1, <2>2, RunTyped
  <2>4. Tables'
    BY <2>1, <2>3 DEF IInv, Tables, Numbers
  <2>5. QED  BY <1>1, <2>1, <2>2, <2>4, RunIInv
<1>5. CASE ReplyToNobody
  <2>1. /\ Processing /\ Run(cb, flags) /\ cb \in Numbers
        /\ UNCHANGED <<replies, invalid, subs>>
    BY <1>1, <1>5 DEF ReplyToNobody, Spontaneous, Unasked
  <2>2. UNCHANGED cmds
    BY <1>1, <2>1, RunTyped
  <2>3. Tables'
    BY <2>1, <2>2 DEF IInv, Tables, Numbers
  <2>4. QED  BY <1>1, <2>1, <2>3, RunIInv
<1>6. QED  BY <1>2, <1>3, <1>4, <1>5

LEMMA ProcessIInv == IInv /\ (Process \/ GetReplyFails) => IInv'
<1> SUFFICES ASSUME IInv, Process \/ GetReplyFails PROVE IInv'
  OBVIOUS
<1>1. CASE GetReplyFails \/ SpontaneousError
  <2>1. /\ mode = "process" /\ mode' = "teardown" /\ err' = TRUE
        /\ flags' = flags \cup {"connected", "disconnecting"}
        /\ UNCHANGED <<replies, invalid, subs, cb, obuf, rdr, events, server, history>>
    BY <1>1 DEF GetReplyFails, SpontaneousError, Processing, DisconnectOnError
  <2>2. QED  BY <2>1, ErrorIInv
<1>2. CASE Unexpected \/ RunWild
  <2>1. /\ mode \in {"process", "teardown"} /\ mode' \in {"aborted", "undefined"}
        /\ UNCHANGED <<context, obuf, rdr, events, server, history>>
    BY <1>2 DEF Unexpected, RunWild, Spontaneous, Unasked, Processing
  <2>2. TypeOK'
    BY <2>1 DEF IInv, TypeOK, Numbers, Flag, context, events, history
  <2>3. Wired' /\ Heard' /\ Tables' /\ Watched'
    BY <2>1 DEF IInv, Wired, Heard, Tables, Watched, Running, Numbers, context, server, history
  <2>4. QED  BY <2>2, <2>3 DEF IInv
<1>3. CASE NoMoreReplies \/ Return
  <2>1. /\ \/ mode = "process" /\ mode' \in {"teardown", "aborted", "loop"} /\ flags' = flags
           \/ mode = "callback" /\ mode' \in {"teardown", "process"} /\ flags' = flags \ {"in_callback"}
        /\ mode' = "loop" => rdr = <<>>
        /\ replies' \in {replies, Append(replies, cb)}
        /\ UNCHANGED <<err, invalid, subs, cb, obuf, rdr, events, server, history>>
    BY <1>3 DEF NoMoreReplies, Return, CleanDisconnect
  <2>2. replies' \in Seq(Numbers \cup {Wild})
    <3>1. replies \in Seq(Numbers \cup {Wild}) /\ cb \in Numbers \cup {Wild}
      BY DEF IInv, TypeOK
    <3>2. Append(replies, cb) \in Seq(Numbers \cup {Wild})
      BY <3>1
    <3>3. QED  BY <2>1, <3>1, <3>2
  <2>3. TypeOK'
    BY <2>1, <2>2 DEF IInv, TypeOK, Numbers, Flag, events, history
  <2>4. Wired' /\ Heard' /\ Tables'
    BY <2>1 DEF IInv, Wired, Heard, Tables, Numbers, server, history
  <2>5. Watched'
    BY <2>1 DEF IInv, Watched, Running, Flag, events
  <2>6. QED  BY <2>3, <2>4, <2>5 DEF IInv
<1>4. QED  BY <1>1, <1>2, <1>3, ReplyIInv DEF Process

-----------------------------------------------------------------------------
(* The end of the context. *)
LEMMA TearDownIInv == IInv /\ TearDown => IInv'
<1> SUFFICES ASSUME IInv, TearDown PROVE IInv'
  OBVIOUS
<1>1. /\ mode = "teardown" /\ mode' \in {"teardown", "freed"}
      /\ UNCHANGED <<err, cb, obuf, rdr, server, cmds>>
      /\ flags' \in {flags, flags \cup {"freeing"}}
      /\ reading' \in BOOLEAN /\ writing' \in BOOLEAN
  BY DEF TearDown, FreeReply, FreeInvalid, FreeSubscriptions, Finish, Bereave, Gone, context,
     events, IInv, TypeOK
<1>2. replies' \in Seq(Numbers \cup {Wild}) /\ invalid' \in Seq(Numbers)
  <2>1. /\ replies \in Seq(Numbers \cup {Wild}) /\ invalid \in Seq(Numbers)
        /\ replies # <<>> => Tail(replies) \in Seq(Numbers \cup {Wild})
        /\ invalid # <<>> => Tail(invalid) \in Seq(Numbers)
    BY DEF IInv, TypeOK
  <2>2. /\ replies' = replies \/ (replies # <<>> /\ replies' = Tail(replies))
        /\ invalid' = invalid \/ (invalid # <<>> /\ invalid' = Tail(invalid))
    BY DEF TearDown, FreeReply, FreeInvalid, FreeSubscriptions, Finish, context
  <2>3. QED  BY <2>1, <2>2
<1>3. got' \in Seq(Seq(Int)) /\ Len(got') = Len(got) /\ DOMAIN got' = DOMAIN got
  <2>1. ASSUME NEW n \in Numbers, Bereave(n)
        PROVE  got' \in Seq(Seq(Int)) /\ Len(got') = Len(got) /\ DOMAIN got' = DOMAIN got
    BY <2>1, GivenHeard DEF Bereave, NULL, IInv, Heard
  <2>2. CASE FreeReply
    BY <2>1, <2>2 DEF FreeReply, IInv, TypeOK
  <2>3. CASE FreeInvalid
    BY <2>1, <2>3 DEF FreeInvalid, IInv, TypeOK
  <2>4. CASE FreeSubscriptions
    <3>1. /\ got \in Seq(Seq(Int))
          /\ got' = [n \in DOMAIN got |-> IF n \in Subscribed /\ cmds[n].fn
                                           THEN Append(got[n], NULL) ELSE got[n]]
      BY <2>4 DEF FreeSubscriptions, IInv, Heard
    <3>2. \A n \in DOMAIN got : got'[n] \in Seq(Int)
      BY <3>1 DEF NULL
    <3>3. DOMAIN got' = 1 .. Len(got) /\ Len(got) \in Nat
      BY <3>1
    <3>4. QED  BY <3>1, <3>2, <3>3
  <2>5. CASE Finish
    BY <2>5 DEF Finish, IInv, Heard
  <2>6. QED  BY <2>2, <2>3, <2>4, <2>5 DEF TearDown
<1>4. Tables'
  <2>1. CASE UNCHANGED subs
    BY <1>1, <2>1 DEF IInv, Tables, Numbers
  <2>2. CASE subs' = [pv \in BOOLEAN |-> EmptyDict]
    <3>1. Entries(EmptyDict) = {}
      BY DEF Entries, EmptyDict
    <3>2. QED  BY <2>2, <3>1, SoundEmpty DEF Tables
  <2>3. QED
    BY <2>1, <2>2 DEF TearDown, FreeReply, FreeInvalid, FreeSubscriptions, Finish, context
<1>5. TypeOK'
  BY <1>1, <1>2, <1>3 DEF IInv, TypeOK, Numbers, Flag
<1>6. Wired' /\ Heard' /\ Watched'
  BY <1>1, <1>3 DEF IInv, Wired, Heard, Watched, Running, server
<1>7. QED  BY <1>4, <1>5, <1>6 DEF IInv

LEMMA NextIInv == IInv /\ [Next]_vars => IInv'
<1>1. IInv /\ UNCHANGED vars => IInv'
  BY DEF vars, context, events, server, history, IInv, TypeOK, Wired, Heard, Tables, Watched,
     Running, Numbers, Flag
<1>2. QED
  BY <1>1, EnvironmentIInv, IssueIInv, LeaveIInv, WriteIInv, ReadIInv, ProcessIInv, TearDownIInv
  DEF Next, Program

LEMMA Invariant == Spec => []IInv
BY Initial, NextIInv, PTL DEF Spec

(* The lists and tables of callbacks hold numbers of commands that were     *)
(* accepted, the thread is in a callback exactly when the context says so,  *)
(* and between two events no reply is left in the reader (async.c:246-253,  *)
(* 398-463).                                                                *)
THEOREM AsyncTypeOK == Spec => []TypeOK
<1>1. IInv => TypeOK
  BY DEF IInv
<1>2. QED  BY <1>1, Invariant, PTL

(* Whatever the program, the server and the connection do, no command waits *)
(* with the write watcher stopped and no reply with the read watcher        *)
(* stopped (async.c:510-511, 531-539, 620-621).                             *)
THEOREM WatchersAreStarted == Spec => []WatchersStarted
<1>1. IInv => WatchersStarted
  BY DEF IInv, Watched, Running, WatchersStarted
<1>2. QED  BY <1>1, Invariant, PTL

(* For every hash function and initial size, dictFind finds in the tables   *)
(* of subscriptions exactly what is there (dict.c:88-132, 243-256).         *)
THEOREM SubscriptionsAreFound == Spec => []TablesFind
<1>1. IInv => TablesFind
  BY SoundFind DEF IInv, Tables, TablesFind
<1>2. QED  BY <1>1, Invariant, PTL

-----------------------------------------------------------------------------
(* Which callback gets which reply (hiredis/async.c:398-463): the proof     *)
(* that an orderly program's callbacks are called once, with their own      *)
(* replies, whatever the connection does, for every script, channel and     *)
(* number of messages.                                                      *)

(* What the server sent and the context has not processed. *)
W == rdr \o sock

Elems(s) == {s[i] : i \in DOMAIN s}
Increasing(s) == \A i, j \in DOMAIN s : i < j => s[i] < s[j]

(* Commands whose callbacks are in a list, and how many were written. *)
Pending == Elems(replies) \cup Elems(invalid)
Written == Len(cmds) - Len(obuf)

(* The positions of the answers to plain commands, of arrays, and of the    *)
(* messages that a subscription is gone.                                    *)
Answers == {i \in DOMAIN W : W[i].type # "array" /\ W[i].to # 0}
Arrays == {i \in DOMAIN W : W[i].type = "array"}
Leaves == {i \in Arrays : W[i].verb = "unsubscribe"}

AnsweredBefore(n, i) == \E j \in Answers : j < i /\ W[j].to = n
IsAnswered(n) == \E j \in Answers : W[j].to = n

Subscriptions == BOOLEAN \X Keys
KeyOf(r) == <<r.pv, r.name>>
InTable(k) == \E e \in Entries(subs[k[1]]) : e.key = k[2]

(* The subscriptions that an UNSUBSCRIBE is about, at the server. *)
EndedBy(c) == {k \in ssub : k = KeyOf(c) \/ (c.name = None /\ k[1] = c.pv)}

(* The lists hold plain commands in the order in which they were accepted,  *)
(* those issued while subscribed after the others; obuf holds the commands  *)
(* accepted last.                                                           *)
Listed ==
    /\ \A i \in DOMAIN obuf : obuf[i] = Written + i
    /\ Increasing(replies) /\ Increasing(invalid)
    /\ \A n \in Elems(replies), m \in Elems(invalid) : n < m
    /\ \A n \in Pending : n \in Numbers /\ cmds[n].kind = "command"
    /\ \A n \in Numbers : cmds[n].kind # "monitor"
    /\ ~smon

(* The answers on their way are to the oldest pending commands, in order;   *)
(* while there is a connection, to all that were written.  An answer to no  *)
(* command is the error by which the server refuses a connection.           *)
Matching ==
    /\ \A i \in Answers : W[i].to \in Pending /\ W[i].to <= Written
    /\ \A i, j \in Answers : W[i].to = W[j].to => i = j
    /\ \A i \in Answers, n \in Pending : n < W[i].to => AnsweredBefore(n, i)
    /\ ~down => /\ \A n \in Pending : n <= Written => IsAnswered(n)
                /\ \A n \in Elems(obuf) : cmds[n].kind = "command" => n \in Pending
    /\ \A i \in DOMAIN W : W[i].type # "array" /\ W[i].to = 0 =>
                               Len(W) = 1 /\ down /\ W[i].type = "error"
    /\ ~reading /\ ~down => W = <<>> /\ ssub = {}

(* An array comes to a subscribed context whose table has its channel, when *)
(* no command issued before subscribing is unanswered.                      *)
ArraysDue ==
    \A i \in Arrays :
        /\ Flag("subscribed")
        /\ W[i].name # None /\ InTable(KeyOf(W[i]))
        /\ \A j \in Leaves : j < i => KeyOf(W[j]) # KeyOf(W[i])
        /\ \A n \in Elems(replies) : AnsweredBefore(n, i)

(* After an UNSUBSCRIBE nothing was issued, and the message that ends the   *)
(* subscribed state is the last one.                                        *)
LeavesLast ==
    \A i \in Leaves :
        /\ W[i].to \in Numbers /\ cmds[W[i].to].kind = "unsubscribe"
        /\ obuf = <<>>
        /\ \A n \in Pending : IsAnswered(n)
        /\ W[i].count = 0 => i = Len(W) /\ ssub = {}

(* What is still to be written. *)
Unwritten ==
    \A n \in Elems(obuf) :
        /\ cmds[n].kind # "command" => /\ Flag("subscribed")
                                       /\ \A m \in Elems(replies) : m < n
        /\ cmds[n].kind = "subscribe" => InTable(KeyOf(cmds[n]))
        /\ cmds[n].kind = "unsubscribe" =>
             /\ n = Len(cmds) /\ Leaves = {}
             /\ \E k \in Subscriptions : /\ InTable(k) /\ k[1] = cmds[n].pv
                                         /\ cmds[n].name \in {None, k[2]}

(* The server's subscriptions are those of the table, but for those it has  *)
(* still to learn of and those whose end the context has still to hear of.  *)
ServerAgrees ==
    ~down =>
      /\ \A k \in ssub : InTable(k) /\ \A i \in Leaves : KeyOf(W[i]) # k
      /\ \A k \in Subscriptions :
           InTable(k) => \/ k \in ssub
                         \/ \E n \in Elems(obuf) : cmds[n].kind = "subscribe" /\ KeyOf(cmds[n]) = k
                         \/ \E i \in Leaves : KeyOf(W[i]) = k
      /\ ssub # {} => Flag("subscribed") /\ \A n \in Elems(replies) : IsAnswered(n)

Queue == Matching /\ ArraysDue /\ LeavesLast /\ Unwritten /\ ServerAgrees

(* The entry of a subscription is the latest SUBSCRIBE to it. *)
Newest ==
    \A pv \in BOOLEAN : \A e \in Entries(subs[pv]) :
        /\ e.val \in Numbers /\ cmds[e.val].kind = "subscribe"
        /\ cmds[e.val].pv = pv /\ cmds[e.val].name = e.key
        /\ \A n \in Numbers : cmds[n].kind = "subscribe" /\ cmds[n].pv = pv
                              /\ cmds[n].name = e.key => n <= e.val

(* A command is pending, or its callback has been called once. *)
Accounted ==
    \A n \in Plain :
        /\ n \in Pending => got[n] = <<>>
        /\ n \notin Pending => Len(got[n]) = 1 /\ got[n][1] \in {n, NULL, 0}

(* Commands in sub.invalid were issued after a SUBSCRIBE. *)
Invalid ==
    /\ invalid # <<>> /\ Running => Flag("subscribed")
    /\ Flag("subscribed") => \E m \in Numbers : cmds[m].kind = "subscribe"
    /\ \A n \in Elems(invalid) : \E m \in 1 .. n : cmds[m].kind = "subscribe"

(* A context that goes without an error and without redisAsyncFree was not  *)
(* waiting for a reply; one that was ends in the assertion.                 *)
Clean ==
    /\ mode # "undefined"
    /\ mode = "aborted" => asked /\ replies # <<>>
    /\ Running /\ Flag("disconnecting") => asked
    /\ mode = "freed" => Pending = {}
    /\ status = "ok" => mode = "freed" /\ (Flag("freeing") \/ ~err)
    /\ ~err /\ ~Flag("freeing") =>
         /\ mode \in {"teardown", "freed"} => replies = <<>>
         /\ \A n \in BeforeSubscribing : n \in Pending \/ got[n] \in {<<n>>, <<0>>}

Order ==
    /\ Listed /\ Accounted /\ Invalid /\ Clean
    /\ Running => Queue
Ordered == IInv /\ Newest /\ (Orderly => Order)

-----------------------------------------------------------------------------
(* Sequences. *)
LEMMA ElemsType ==
    ASSUME NEW S, NEW s \in Seq(S)
    PROVE  Elems(s) \subseteq S /\ (s = <<>> <=> Elems(s) = {})
BY DEF Elems

LEMMA ElemsAppend ==
    ASSUME NEW s \in Seq(Int), NEW x \in Int
    PROVE  /\ Elems(Append(s, x)) = Elems(s) \cup {x}
           /\ Increasing(s) /\ (\A y \in Elems(s) : y < x) => Increasing(Append(s, x))
<1>1. Append(s, x) \in Seq(Int) /\ Len(Append(s, x)) = Len(s) + 1 /\ Len(s) \in Nat
  OBVIOUS
<1>2. \A i \in 1 .. Len(s) + 1 : Append(s, x)[i] = IF i = Len(s) + 1 THEN x ELSE s[i]
  OBVIOUS
<1>3. DOMAIN Append(s, x) = 1 .. Len(s) + 1 /\ DOMAIN s = 1 .. Len(s)
  BY <1>1
<1> DEFINE t == Append(s, x)
<1> HIDE DEF t
<1>4. Elems(t) = Elems(s) \cup {x}
  <2>1. ASSUME NEW y \in Elems(t) PROVE y \in Elems(s) \cup {x}
    BY <1>2, <1>3 DEF Elems, t
  <2>2. ASSUME NEW y \in Elems(s) PROVE y \in Elems(t)
    <3>1. PICK i \in 1 .. Len(s) : y = s[i]
      BY <1>3 DEF Elems
    <3>2. i \in 1 .. Len(s) + 1 /\ i # Len(s) + 1
      BY <1>1, <3>1
    <3>3. t[i] = y /\ i \in DOMAIN t
      BY <1>2, <1>3, <3>1, <3>2 DEF t
    <3>4. QED  BY <3>3 DEF Elems
  <2>3. x \in Elems(t)
    <3>1. Len(s) + 1 \in DOMAIN t /\ t[Len(s) + 1] = x
      BY <1>1, <1>2, <1>3 DEF t
    <3>2. QED  BY <3>1 DEF Elems
  <2>4. QED  BY <2>1, <2>2, <2>3
<1>5. ASSUME Increasing(s), \A y \in Elems(s) : y < x PROVE Increasing(t)
  <2>1. ASSUME NEW i \in DOMAIN t, NEW j \in DOMAIN t, i < j PROVE t[i] < t[j]
    <3>1. i \in 1 .. Len(s) /\ t[i] = s[i] /\ s[i] \in Elems(s)
      BY <1>1, <1>2, <1>3, <2>1 DEF t, Elems
    <3>2. CASE j = Len(s) + 1
      BY <1>2, <1>3, <1>5, <3>1, <3>2 DEF t
    <3>3. CASE j # Len(s) + 1
      <4>1. j \in 1 .. Len(s) /\ t[j] = s[j]
        BY <1>1, <1>2, <1>3, <3>3 DEF t
      <4>2. QED  BY <1>3, <1>5, <2>1, <3>1, <4>1 DEF Increasing
    <3>4. QED  BY <3>2, <3>3
  <2>2. QED  BY <2>1 DEF Increasing
<1>6. QED  BY <1>4, <1>5 DEF t

(* The head of an increasing sequence is its least element. *)
LEMMA ElemsTail ==
    ASSUME NEW s \in Seq(Int), s # <<>>, Increasing(s)
    PROVE  /\ Head(s) \in Elems(s) /\ \A x \in Elems(s) : Head(s) <= x
           /\ Tail(s) \in Seq(Int)
           /\ Elems(Tail(s)) = Elems(s) \ {Head(s)} /\ Increasing(Tail(s))
<1>1. Len(s) \in Nat \ {0} /\ DOMAIN s = 1 .. Len(s) /\ Head(s) = s[1] /\ 1 \in DOMAIN s
  OBVIOUS
<1> DEFINE t == Tail(s)
<1>2. t \in Seq(Int) /\ DOMAIN t = 1 .. Len(s) - 1 /\ \A i \in DOMAIN t : t[i] = s[i + 1]
  <2>1. t \in Seq(Int)
    BY <1>1
  <2>2. Len(t) = Len(s) - 1 /\ DOMAIN t = 1 .. Len(s) - 1
    BY <1>1
  <2>3. \A i \in 1 .. Len(s) - 1 : t[i] = s[i + 1]
    BY <1>1
  <2>4. QED  BY <2>1, <2>2, <2>3
<1> HIDE DEF t
<1>3. ASSUME NEW i \in DOMAIN t PROVE i + 1 \in DOMAIN s /\ 1 < i + 1
  <2>1. i \in 1 .. Len(s) - 1
    BY <1>2
  <2>2. i + 1 \in 1 .. Len(s) /\ 1 < i + 1
    BY <1>1, <2>1
  <2>3. QED  BY <1>1, <2>2
<1>4. ASSUME NEW i \in DOMAIN s, i # 1 PROVE 1 < i /\ i - 1 \in DOMAIN t /\ t[i - 1] = s[i]
  <2>1. i - 1 \in 1 .. Len(s) - 1 /\ (i - 1) + 1 = i /\ 1 < i
    BY <1>1, <1>4
  <2>2. i - 1 \in DOMAIN t
    BY <1>2, <2>1
  <2>3. t[i - 1] = s[(i - 1) + 1]
    BY <1>2, <2>2
  <2>4. QED  BY <2>1, <2>2, <2>3
<1>5. \A x \in Elems(s) : s[1] <= x
  <2>1. ASSUME NEW i \in DOMAIN s PROVE s[1] <= s[i]
    <3>1. s[1] \in Int /\ s[i] \in Int
      BY <1>1
    <3>2. CASE i = 1
      BY <3>1, <3>2
    <3>3. CASE i # 1
      BY <1>1, <1>4, <3>1, <3>3 DEF Increasing
    <3>4. QED  BY <3>2, <3>3
  <2>2. QED  BY <2>1 DEF Elems
<1>6. Elems(t) = Elems(s) \ {s[1]}
  <2>1. ASSUME NEW x \in Elems(t) PROVE x \in Elems(s) /\ x # s[1]
    <3>1. PICK i \in DOMAIN t : x = t[i]
      BY DEF Elems
    <3>2. x = s[i + 1] /\ i + 1 \in DOMAIN s /\ s[1] < s[i + 1]
      BY <1>1, <1>2, <1>3, <3>1 DEF Increasing
    <3>3. s[1] \in Int /\ s[i + 1] \in Int
      BY <1>1, <3>2
    <3>4. QED  BY <3>2, <3>3 DEF Elems
  <2>2. ASSUME NEW x \in Elems(s), x # s[1] PROVE x \in Elems(t)
    <3>1. PICK i \in DOMAIN s : x = s[i]
      BY DEF Elems
    <3>2. QED  BY <1>4, <2>2, <3>1 DEF Elems
  <2>3. QED  BY <2>1, <2>2
<1>7. Increasing(t)
  <2>1. ASSUME NEW i \in DOMAIN t, NEW j \in DOMAIN t, i < j PROVE t[i] < t[j]
    <3>1. i + 1 \in DOMAIN s /\ j + 1 \in DOMAIN s /\ i + 1 < j + 1
      BY <1>2, <1>3, <2>1
    <3>2. QED  BY <1>2, <3>1 DEF Increasing
  <2>2. QED  BY <2>1 DEF Increasing
<1>8. QED  BY <1>1, <1>2, <1>5, <1>6, <1>7 DEF t, Elems

-----------------------------------------------------------------------------
(* What is known of the lists, the buffer and the replies. *)
LEMMA Basics ==
    ASSUME IInv
    PROVE  /\ W \in Seq(Replies) /\ Len(W) \in Nat /\ DOMAIN W = 1 .. Len(W)
           /\ replies \in Seq(Int) /\ invalid \in Seq(Int) /\ obuf \in Seq(Int)
           /\ Elems(obuf) \subseteq Numbers
           /\ Len(cmds) \in Nat /\ Len(obuf) \in Nat /\ Written \in Int
           /\ Numbers \subseteq Nat \ {0} /\ DOMAIN cmds = Numbers
           /\ \A n \in Numbers : cmds[n] \in Call
<1>1. rdr \in Seq(Replies) /\ sock \in Seq(Replies)
  BY DEF IInv, Wired
<1>2. W \in Seq(Replies)
  BY <1>1, ConcatProperties DEF W
<1>3. Numbers \subseteq Nat \ {0} /\ Numbers \subseteq Int /\ Numbers \cup {Wild} \subseteq Int
  BY DEF Numbers, Wild
<1>4. /\ replies \in Seq(Numbers \cup {Wild}) /\ invalid \in Seq(Numbers) /\ obuf \in Seq(Numbers)
      /\ cmds \in Seq(Call)
  BY DEF IInv, TypeOK
<1>5. replies \in Seq(Int) /\ invalid \in Seq(Int) /\ obuf \in Seq(Int)
  BY <1>3, <1>4, SeqWider
<1>6. Elems(obuf) \subseteq Numbers
  BY <1>4, ElemsType
<1>7. Len(cmds) \in Nat /\ Len(obuf) \in Nat /\ DOMAIN cmds = Numbers /\ \A n \in Numbers : cmds[n] \in Call
  BY <1>4 DEF Numbers
<1>8. QED  BY <1>2, <1>3, <1>5, <1>6, <1>7 DEF Written

(* A reply that waits can be looked at. *)
LEMMA ReplyFields ==
    ASSUME IInv, NEW i \in DOMAIN W
    PROVE  /\ W[i] \in Replies /\ W[i].to \in Nat /\ W[i].pv \in BOOLEAN
           /\ W[i].name \in Keys \cup {None} /\ W[i].count \in Int
           /\ W[i].type \in {"array", "status", "error"}
<1>1. W[i] \in Replies
  BY Basics
<1>2. QED  BY <1>1 DEF Replies

(* The commands in the buffer are those accepted last. *)
LEMMA Unsent ==
    ASSUME IInv, Listed
    PROVE  /\ Elems(obuf) = {n \in Numbers : Written < n} /\ Written >= 0
           /\ obuf # <<>> => /\ Head(obuf) = Written + 1
                             /\ Head(obuf) \in Elems(obuf)
                             /\ Elems(Tail(obuf)) = {n \in Numbers : Written + 1 < n}
                             /\ Len(Tail(obuf)) = Len(obuf) - 1
                             /\ \A i \in DOMAIN Tail(obuf) : Tail(obuf)[i] = Written + 1 + i
<1>1. /\ obuf \in Seq(Int) /\ Len(obuf) \in Nat /\ Len(cmds) \in Nat /\ Written = Len(cmds) - Len(obuf)
      /\ DOMAIN obuf = 1 .. Len(obuf)
  BY Basics DEF Written
<1>2. \A i \in 1 .. Len(obuf) : obuf[i] = Written + i /\ obuf[i] \in 1 .. Len(cmds)
  BY <1>1, Basics DEF Listed, Elems, Numbers
<1>3. Elems(obuf) = {n \in Numbers : Written < n}
  <2>1. ASSUME NEW n \in Elems(obuf) PROVE n \in Numbers /\ Written < n
    BY <1>1, <1>2 DEF Elems, Numbers
  <2>2. ASSUME NEW n \in Numbers, Written < n PROVE n \in Elems(obuf)
    <3>1. n - Written \in 1 .. Len(obuf) /\ obuf[n - Written] = n
      BY <1>1, <1>2, <2>2 DEF Numbers
    <3>2. QED  BY <1>1, <3>1 DEF Elems
  <2>3. QED  BY <2>1, <2>2
<1>4. Written >= 0
  <2>1. CASE Len(obuf) = 0
    BY <1>1, <2>1
  <2>2. CASE Len(obuf) # 0
    <3>1. 1 \in 1 .. Len(obuf) /\ obuf[1] >= 1
      BY <1>1, <1>2, <2>2
    <3>2. QED  BY <1>1, <1>2, <3>1
  <2>3. QED  BY <1>1, <2>1, <2>2
<1>5. ASSUME obuf # <<>>
      PROVE  /\ Head(obuf) = Written + 1 /\ Head(obuf) \in Elems(obuf)
             /\ Elems(Tail(obuf)) = {n \in Numbers : Written + 1 < n}
             /\ Len(Tail(obuf)) = Len(obuf) - 1
             /\ \A i \in DOMAIN Tail(obuf) : Tail(obuf)[i] = Written + 1 + i
  <2>1. Len(obuf) >= 1 /\ Head(obuf) = obuf[1] /\ 1 \in DOMAIN obuf
    BY <1>1, <1>5
  <2>2. Head(obuf) = Written + 1 /\ Head(obuf) \in Elems(obuf)
    BY <1>1, <1>2, <2>1 DEF Elems
  <2> DEFINE t == Tail(obuf)
  <2>3. Len(t) = Len(obuf) - 1 /\ DOMAIN t = 1 .. Len(obuf) - 1 /\ \A i \in DOMAIN t : t[i] = obuf[i + 1]
    BY <1>1, <1>5
  <2> HIDE DEF t
  <2>4. ASSUME NEW i \in DOMAIN t PROVE t[i] = Written + 1 + i /\ t[i] \in Numbers
    <3>1. i + 1 \in 1 .. Len(obuf) /\ i \in Int
      BY <1>1, <2>3
    <3>2. t[i] = Written + (i + 1) /\ t[i] \in Numbers
      BY <1>2, <2>3, <3>1 DEF Numbers
    <3>3. QED  BY <1>1, <3>1, <3>2
  <2>5. ASSUME NEW n \in Elems(t) PROVE n \in Numbers /\ Written + 1 < n
    BY <1>1, <2>3, <2>4 DEF Elems
  <2>6. ASSUME NEW n \in Numbers, Written + 1 < n PROVE n \in Elems(t)
    <3>1. n \in Int /\ n <= Len(cmds) /\ Written \in Int
      BY <1>1 DEF Numbers
    <3>2. n - Written - 1 \in 1 .. Len(obuf) - 1 /\ Written + 1 + (n - Written - 1) = n
      BY <1>1, <2>6, <3>1
    <3>3. n - Written - 1 \in DOMAIN t
      BY <2>3, <3>2
    <3>4. t[n - Written - 1] = n
      BY <2>4, <3>2, <3>3
    <3>5. QED  BY <3>3, <3>4 DEF Elems
  <2>7. Elems(t) = {n \in Numbers : Written + 1 < n}
    BY <2>5, <2>6
  <2>8. QED  BY <2>2, <2>3, <2>4, <2>7 DEF t
<1>6. QED  BY <1>3, <1>4, <1>5

-----------------------------------------------------------------------------
(* The server sends one reply. *)
LEMMA Grows ==
    ASSUME IInv, NEW r \in Replies, W' = W \o <<r>>, NEW L, L = Len(W')
    PROVE  /\ L = Len(W) + 1 /\ DOMAIN W' = DOMAIN W \cup {L} /\ L \notin DOMAIN W
           /\ W'[L] = r /\ \A i \in DOMAIN W : W'[i] = W[i] /\ i < L
           /\ \A i : /\ i \in Answers' <=> i \in Answers \/ (i = L /\ r.type # "array" /\ r.to # 0)
                     /\ i \in Arrays' <=> i \in Arrays \/ (i = L /\ r.type = "array")
                     /\ i \in Leaves' <=> i \in Leaves \/ (i = L /\ r.type = "array" /\ r.verb = "unsubscribe")
           /\ \A n, i : AnsweredBefore(n, i) => AnsweredBefore(n, i)'
           /\ \A n : IsAnswered(n) => IsAnswered(n)' /\ AnsweredBefore(n, L)'
<1>1. W \in Seq(Replies) /\ Len(W) \in Nat /\ DOMAIN W = 1 .. Len(W)
  BY Basics
<1>2. /\ L = Len(W) + 1 /\ DOMAIN W' = 1 .. Len(W) + 1
      /\ W'[Len(W) + 1] = r /\ \A i \in 1 .. Len(W) : W'[i] = W[i]
  BY <1>1
<1>3. /\ DOMAIN W' = DOMAIN W \cup {L} /\ L \notin DOMAIN W
      /\ W'[L] = r /\ \A i \in DOMAIN W : W'[i] = W[i] /\ i < L
  BY <1>1, <1>2
<1>4. \A i : /\ i \in Answers' <=> i \in Answers \/ (i = L /\ r.type # "array" /\ r.to # 0)
             /\ i \in Arrays' <=> i \in Arrays \/ (i = L /\ r.type = "array")
  BY <1>3 DEF Answers, Arrays
<1>5. \A i : i \in Leaves' <=> i \in Leaves \/ (i = L /\ r.type = "array" /\ r.verb = "unsubscribe")
  BY <1>3, <1>4 DEF Leaves, Arrays
<1>6. \A i \in Answers : i \in Answers' /\ W'[i].to = W[i].to /\ i < L
  BY <1>3, <1>4 DEF Answers
<1>7. \A n, i : AnsweredBefore(n, i) => AnsweredBefore(n, i)'
  BY <1>6 DEF AnsweredBefore
<1>8. \A n : IsAnswered(n) => IsAnswered(n)' /\ AnsweredBefore(n, L)'
  BY <1>6 DEF AnsweredBefore, IsAnswered
<1>9. QED  BY <1>2, <1>3, <1>4, <1>5, <1>7, <1>8

(* The context processes one reply. *)
LEMMA Drops ==
    ASSUME IInv, W # <<>>, W' = Tail(W)
    PROVE  /\ Len(W) \in Nat \ {0} /\ Len(W') = Len(W) - 1 /\ 1 \in DOMAIN W
           /\ \A i \in DOMAIN W' : i + 1 \in DOMAIN W /\ 1 < i + 1 /\ W'[i] = W[i + 1]
           /\ \A i \in Answers' : i \in DOMAIN W' /\ i + 1 \in Answers
           /\ \A i \in Arrays' : i \in DOMAIN W' /\ i + 1 \in Arrays
           /\ \A i \in Leaves' : i \in DOMAIN W' /\ i + 1 \in Leaves
           /\ \A i \in Leaves : i = 1 \/ (i - 1 \in Leaves' /\ W'[i - 1] = W[i])
           /\ \A n, i : i \in DOMAIN W' /\ AnsweredBefore(n, i + 1) /\ ~(1 \in Answers /\ W[1].to = n)
                          => AnsweredBefore(n, i)'
           /\ \A n : IsAnswered(n) /\ ~(1 \in Answers /\ W[1].to = n) => IsAnswered(n)'
<1>1. W \in Seq(Replies) /\ Len(W) \in Nat \ {0} /\ DOMAIN W = 1 .. Len(W) /\ 1 \in DOMAIN W
  BY Basics
<1>2. Len(W') = Len(W) - 1 /\ DOMAIN W' = 1 .. Len(W) - 1 /\ \A i \in DOMAIN W' : W'[i] = W[i + 1]
  BY <1>1
<1>3. \A i \in DOMAIN W' : i + 1 \in DOMAIN W /\ 1 < i + 1 /\ W'[i] = W[i + 1] /\ i \in Int
  BY <1>1, <1>2
<1>4. ASSUME NEW i \in DOMAIN W, i # 1 PROVE i - 1 \in DOMAIN W' /\ W'[i - 1] = W[i] /\ i \in Int
  <2>1. i - 1 \in 1 .. Len(W) - 1 /\ (i - 1) + 1 = i
    BY <1>1, <1>4
  <2>2. W'[i - 1] = W[(i - 1) + 1]
    BY <1>2, <2>1
  <2>3. QED  BY <1>1, <1>2, <2>1, <2>2
<1>5. /\ \A i \in Answers' : i \in DOMAIN W' /\ i + 1 \in Answers
      /\ \A i \in Arrays' : i \in DOMAIN W' /\ i + 1 \in Arrays
  BY <1>3 DEF Answers, Arrays
<1>6. \A i \in Leaves' : i \in DOMAIN W' /\ i + 1 \in Leaves
  BY <1>3, <1>5 DEF Leaves, Arrays
<1>7. \A i \in Leaves : i = 1 \/ (i - 1 \in Leaves' /\ W'[i - 1] = W[i])
  BY <1>4 DEF Leaves, Arrays
<1>8. ASSUME NEW j \in Answers, j # 1
      PROVE  j - 1 \in Answers' /\ W'[j - 1] = W[j] /\ \A i \in Int : j < i + 1 => j - 1 < i
  BY <1>4, <1>8 DEF Answers
<1>9. ASSUME NEW n, NEW i \in DOMAIN W', AnsweredBefore(n, i + 1), ~(1 \in Answers /\ W[1].to = n)
      PROVE  AnsweredBefore(n, i)'
  <2>1. PICK j \in Answers : j < i + 1 /\ W[j].to = n
    BY <1>9 DEF AnsweredBefore
  <2>2. j # 1
    BY <1>9, <2>1
  <2>3. QED  BY <1>3, <1>8, <2>1, <2>2 DEF AnsweredBefore
<1>10. ASSUME NEW n, IsAnswered(n), ~(1 \in Answers /\ W[1].to = n) PROVE IsAnswered(n)'
  BY <1>8, <1>10 DEF IsAnswered
<1>11. QED  BY <1>1, <1>2, <1>3, <1>5, <1>6, <1>7, <1>9, <1>10

(* A step that changes neither the replies under way nor what they are for. *)
LEMMA SameQueue ==
    ASSUME IInv, Queue, W' = W, UNCHANGED <<replies, invalid, subs, obuf, cmds, ssub>>,
           down => down', Flag("subscribed")' = Flag("subscribed"), reading => reading'
    PROVE  Queue'
<1>1. /\ Answers' = Answers /\ Arrays' = Arrays /\ Leaves' = Leaves
      /\ Pending' = Pending /\ Written' = Written /\ Numbers' = Numbers
      /\ \A n, i : AnsweredBefore(n, i)' = AnsweredBefore(n, i)
      /\ \A n : IsAnswered(n)' = IsAnswered(n) /\ InTable(n)' = InTable(n)
  BY DEF Answers, Arrays, Leaves, Pending, Written, Numbers, AnsweredBefore, IsAnswered, InTable
<1>2. Matching'
  BY <1>1 DEF Queue, Matching
<1>3. ArraysDue' /\ LeavesLast'
  BY <1>1 DEF Queue, ArraysDue, LeavesLast
<1>4. Unwritten' /\ ServerAgrees'
  BY <1>1 DEF Queue, Unwritten, ServerAgrees
<1>5. QED  BY <1>2, <1>3, <1>4 DEF Queue

-----------------------------------------------------------------------------
(* No step makes a program orderly. *)
LEMMA OrderlyBefore ==
    ASSUME IInv, [Next]_vars, Orderly'
    PROVE  Orderly /\ misuse' = {} /\ "monitoring" \notin flags /\ "monitoring" \notin flags'
<1>1. misuse \subseteq misuse' /\ ("monitoring" \in flags => "monitoring" \in flags')
  <2>1. CASE UNCHANGED vars
    BY <2>1 DEF vars, context, history
  <2>2. CASE Environment
    BY <2>2 DEF Environment, Publish, MonitorLine, Pushes, Rejects, LoseConnection, context, history
  <2>3. CASE Issue
    BY <2>3 DEF Issue, Command, Subscribe, Unsubscribe, Monitor, Accept
  <2>4. CASE Disconnect \/ Free
    BY <2>4 DEF Disconnect, Free
  <2>5. CASE Write
    BY <2>5 DEF Write, HandleWrite, HandleWriteNone, WriteFails, ConnectFails, WriteEvent,
       DisconnectOnError, history
  <2>6. CASE HandleRead \/ ReadFails \/ GetReplyFails
    BY <2>6 DEF HandleRead, ReadFails, GetReplyFails, DisconnectOnError, history
  <2>7. CASE ReplyToCommand \/ ReplyToSubscription \/ ReplyToInvalid \/ ReplyToNobody
    <3>1. PICK n, fl : Run(n, fl) /\ ("monitoring" \in flags => "monitoring" \in fl)
      BY <2>7 DEF ReplyToCommand, ReplyToSubscription, ReplyToInvalid, ReplyToNobody
    <3>2. QED  BY <3>1 DEF Run
  <2>8. CASE SpontaneousError \/ Unexpected \/ RunWild \/ NoMoreReplies \/ Return
    BY <2>8 DEF SpontaneousError, Unexpected, RunWild, NoMoreReplies, Return, DisconnectOnError,
       context, history
  <2>9. CASE TearDown
    BY <2>9 DEF TearDown, FreeReply, FreeInvalid, FreeSubscriptions, Finish, Bereave, Gone,
       context
  <2>10. QED
    BY <2>1, <2>2, <2>3, <2>4, <2>5, <2>6, <2>7, <2>8, <2>9 DEF Next, Program, Process
<1>2. QED  BY <1>1 DEF Orderly, Flag

(* The parts of the invariant that a step leaves as they are. *)
LEMMA SameLists ==
    ASSUME Listed, Accounted, Invalid, UNCHANGED <<replies, invalid, obuf, cmds, smon, got>>,
           Running' => Running, Flag("subscribed")' = Flag("subscribed")
    PROVE  Listed' /\ Accounted' /\ Invalid'
<1>1. Pending' = Pending /\ Written' = Written /\ Numbers' = Numbers /\ Plain' = Plain
  BY DEF Pending, Written, Numbers, Plain
<1>2. QED  BY <1>1 DEF Listed, Accounted, Invalid

(* A step that leaves the lists, the tables and the buffer as they are. *)
LEMMA Quiet ==
    ASSUME IInv, Order, W' = W,
           UNCHANGED <<replies, invalid, subs, obuf, cmds, got, ssub, smon>>,
           down => down', reading => reading',
           Flag("subscribed")' = Flag("subscribed"), Running' => Running, Clean'
    PROVE  Order'
<1>1. Listed' /\ Accounted' /\ Invalid'
  BY SameLists DEF Order
<1>2. Running' => Queue'
  BY SameQueue DEF Order
<1>3. QED  BY <1>1, <1>2 DEF Order

(* The end of the connection on an error. *)
LEMMA ErrorOrder ==
    ASSUME IInv, Order, Running, mode' = "teardown", err' = TRUE,
           flags' \in {flags \cup {"disconnecting"}, flags \cup {"connected", "disconnecting"}},
           UNCHANGED <<replies, invalid, subs, cb, obuf, rdr, events, server, history>>
    PROVE  Order'
<1>1. W' = W /\ Flag("subscribed")' = Flag("subscribed") /\ ~Running'
  BY DEF W, Flag, Running, server
<1>2. Clean'
  BY DEF Order, Clean, Running, history
<1>3. QED  BY <1>1, <1>2, Quiet DEF server, events, history

-----------------------------------------------------------------------------
(* The server and the connection. *)
LEMMA SendsQueue ==
    ASSUME IInv, NEW s \in Seq(Replies), Sends(s), rdr' = rdr
    PROVE  W' = W \o s
<1>1. rdr \in Seq(Replies) /\ sock \in Seq(Replies)
  BY DEF IInv, Wired
<1>2. rdr \o (sock \o s) = (rdr \o sock) \o s
  BY <1>1, ConcatAssociative
<1>3. QED  BY <1>2 DEF W, Sends

(* Arrays that are sent answer no command of the lists. *)
LEMMA MatchingGrows ==
    ASSUME Matching, ~down, ~down', reading', Pending' = Pending, cmds' = cmds,
           Elems(obuf)' \subseteq Elems(obuf), Written \in Int, Written' \in Int,
           Written <= Written', \A n \in Pending : n \in Int /\ (n <= Written' => n <= Written),
           \A i \in DOMAIN W : W'[i] = W[i],
           \A i \in DOMAIN W' : i \in DOMAIN W \/ W'[i].type = "array",
           \A n, i : AnsweredBefore(n, i) => AnsweredBefore(n, i)',
           \A n : IsAnswered(n) => IsAnswered(n)'
    PROVE  Matching'
<1>1. \A i \in Answers' : i \in Answers /\ W'[i].to = W[i].to
  BY DEF Answers
<1>2. \A i \in Answers' : W'[i].to \in Pending' /\ W'[i].to <= Written'
  BY <1>1 DEF Matching
<1>3. \A i, j \in Answers' : W'[i].to = W'[j].to => i = j
  BY <1>1 DEF Matching
<1>4. \A i \in Answers', n \in Pending' : n < W'[i].to => AnsweredBefore(n, i)'
  BY <1>1 DEF Matching
<1>5. /\ \A n \in Pending' : n <= Written' => IsAnswered(n)'
      /\ \A n \in Elems(obuf)' : cmds'[n].kind = "command" => n \in Pending'
  BY DEF Matching
<1>6. \A i \in DOMAIN W' : ~(W'[i].type # "array" /\ W'[i].to = 0)
  BY DEF Matching
<1>7. QED  BY <1>2, <1>3, <1>4, <1>5, <1>6 DEF Matching

LEMMA PublishOrder ==
    ASSUME IInv, Order, Publish
    PROVE  Order'
<1>1. PICK k \in ssub : Pushes(Array("message", k[1], k[2], 0, 0))
  BY DEF Publish
<1> DEFINE r == Array("message", k[1], k[2], 0, 0)
<1>2. /\ Running /\ ~down /\ sock' = sock \o <<r>>
      /\ UNCHANGED <<mode, context, obuf, rdr, events, ssub, smon, down, history>>
  BY <1>1 DEF Pushes, Live, Running, Sends
<1>3. k \in Subscriptions /\ k = <<k[1], k[2]>> /\ k[1] \in BOOLEAN /\ k[2] \in Keys
  BY DEF IInv, Wired, Subscriptions
<1>4. r \in Replies
  <2>1. "message" \in Verbs /\ 0 \in Int /\ 0 \in Nat
    BY DEF Verbs
  <2>2. QED  BY <1>3, <2>1, ReplyTypes
<1>5. /\ r.type = "array" /\ r.verb = "message" /\ KeyOf(r) = k /\ r.name = k[2]
      /\ r.count = 0
  BY <1>3 DEF Array, KeyOf
<1> HIDE DEF r
<1>6. W' = W \o <<r>>
  <2>1. <<r>> \in Seq(Replies) /\ Sends(<<r>>) /\ rdr' = rdr
    BY <1>2, <1>4 DEF Sends
  <2>2. QED  BY <2>1, SendsQueue
<1>7. Queue
  BY <1>2 DEF Order
<1>8. /\ Pending' = Pending /\ Written' = Written /\ Numbers' = Numbers
      /\ Flag("subscribed")' = Flag("subscribed") /\ \A j : InTable(j)' = InTable(j)
  BY <1>2 DEF Pending, Written, Numbers, Flag, InTable, context, history
<1> PICK L : L = Len(W')
  OBVIOUS
<1>9. /\ DOMAIN W' = DOMAIN W \cup {L} /\ L \notin DOMAIN W /\ W'[L] = r
      /\ \A i \in DOMAIN W : W'[i] = W[i] /\ i < L
      /\ \A i : /\ i \in Answers' <=> i \in Answers
                /\ i \in Arrays' <=> i \in Arrays \/ i = L
                /\ i \in Leaves' <=> i \in Leaves
      /\ \A n, i : AnsweredBefore(n, i) => AnsweredBefore(n, i)'
      /\ \A n : IsAnswered(n) => IsAnswered(n)' /\ AnsweredBefore(n, L)'
  BY <1>4, <1>5, <1>6, Grows
<1>10. Matching'
  <2>1. Matching /\ reading
    BY <1>2, <1>7 DEF Matching, Queue
  <2>2. UNCHANGED <<down, cmds, reading>> /\ Elems(obuf)' = Elems(obuf)
    BY <1>2 DEF Elems, events, history
  <2>3. Written \in Int /\ \A n \in Pending : n \in Int
    BY Basics DEF Order, Listed
  <2>4. QED  BY <1>2, <1>5, <1>8, <1>9, <2>1, <2>2, <2>3, MatchingGrows
<1>11. ArraysDue'
  <2>1. ArraysDue /\ ServerAgrees
    BY <1>7 DEF Queue
  <2>2. Elems(replies)' = Elems(replies)
    BY <1>2 DEF context, Elems
  <2>3. /\ Flag("subscribed") /\ InTable(k) /\ \A j \in Leaves : KeyOf(W[j]) # k
        /\ \A n \in Elems(replies) : AnsweredBefore(n, L)'
    BY <1>2, <1>3, <1>9, <2>1 DEF ServerAgrees
  <2>4. \A j \in Leaves' : j \in Leaves /\ W'[j] = W[j]
    BY <1>9 DEF Leaves, Arrays
  <2>5. W'[L].name # None /\ KeyOf(W'[L]) = k
    BY <1>3, <1>5, <1>9, AsyncAssumption DEF AsyncAssumption
  <2>6. ASSUME NEW i \in Arrays
        PROVE  /\ W'[i] = W[i] /\ W[i].name # None /\ InTable(KeyOf(W[i]))
               /\ \A j \in Leaves : j < i => KeyOf(W[j]) # KeyOf(W[i])
               /\ \A n \in Elems(replies) : AnsweredBefore(n, i)'
    BY <1>9, <2>1 DEF ArraysDue, Arrays
  <2>7. QED  BY <1>8, <1>9, <2>2, <2>3, <2>4, <2>5, <2>6 DEF ArraysDue
<1>12. LeavesLast'
  BY <1>2, <1>7, <1>8, <1>9 DEF LeavesLast, Queue, Arrays, Leaves, history
<1>13. Unwritten' /\ ServerAgrees'
  BY <1>2, <1>7, <1>8, <1>9 DEF Unwritten, ServerAgrees, Queue, Arrays, Leaves, context, history
<1>14. Listed' /\ Accounted' /\ Invalid'
  BY <1>2, SameLists DEF Order, Running, Flag, context, history
<1>15. Clean'
  BY <1>2 DEF Order, Clean, Running, Flag, Pending, BeforeSubscribing, Plain, Numbers, context, history
<1>16. QED  BY <1>10, <1>11, <1>12, <1>13, <1>14, <1>15 DEF Order, Queue

LEMMA EnvironmentOrder ==
    ASSUME IInv, Order, Environment
    PROVE  Order'
<1>1. CASE MonitorLine
  BY <1>1 DEF MonitorLine, Order, Listed
<1>2. CASE Rejects
  <2> DEFINE r == Reply("error", 0)
  <2>1. /\ Running /\ ~down /\ ~reading /\ down' /\ sock' = sock \o <<r>>
        /\ UNCHANGED <<mode, context, obuf, rdr, events, ssub, smon, pushes, history>>
    BY <1>2 DEF Rejects, Live, Running, Sends
  <2>2. W = <<>> /\ Queue
    BY <2>1 DEF Order, Queue, Matching
  <2>3. W' = <<r>>
    <3>1. r \in Replies
      BY ReplyTypes
    <3>2. rdr \in Seq(Replies) /\ sock \in Seq(Replies)
      BY DEF IInv, Wired
    <3>3. rdr = <<>> /\ sock = <<>>
      BY <2>2, <3>2, ConcatEqualIffEmpty DEF W
    <3>4. QED  BY <2>1, <3>3 DEF W
  <2>4. /\ DOMAIN W' = {1} /\ W'[1] = r /\ Len(W') = 1
        /\ r.type = "error" /\ r.to = 0
    <3>1. r.type = "error" /\ r.to = 0
      BY DEF Reply
    <3> HIDE DEF r
    <3>2. QED  BY <2>3, <3>1
  <2>5. Answers' = {} /\ Arrays' = {} /\ Leaves' = {}
    BY <2>4 DEF Answers, Arrays, Leaves
  <2>6. Matching' /\ ArraysDue' /\ LeavesLast' /\ ServerAgrees'
    BY <2>1, <2>4, <2>5 DEF Matching, ArraysDue, LeavesLast, ServerAgrees
  <2>7. Unwritten'
    BY <2>1, <2>2, <2>5 DEF Unwritten, Queue, Flag, Elems, InTable, context, history
  <2>8. Listed' /\ Accounted' /\ Invalid'
    BY <2>1, SameLists DEF Order, Running, Flag, context, history
  <2>9. Clean'
    BY <2>1 DEF Order, Clean, Running, Flag, Pending, BeforeSubscribing, Plain, Numbers, context,
       history
  <2>10. QED  BY <2>6, <2>7, <2>8, <2>9 DEF Order, Queue
<1>3. CASE LoseConnection
  <2>1. Clean'
    BY <1>3 DEF LoseConnection, Order, Clean, Running, Flag, Pending, BeforeSubscribing, Plain,
       Numbers, context, history
  <2>2. QED
    BY <1>3, <2>1, Quiet DEF LoseConnection, W, Running, Flag, context, events, history
<1>4. QED  BY <1>1, <1>2, <1>3, PublishOrder DEF Environment

-----------------------------------------------------------------------------
(* The program.  An orderly one issues nothing while an UNSUBSCRIBE waits. *)
LEMMA NotOvertaken ==
    ASSUME IInv, Queue, ~Overtakes
    PROVE  Leaves = {} /\ \A n \in Elems(obuf) : cmds[n].kind # "unsubscribe"
<1>1. ASSUME NEW i \in Leaves PROVE FALSE
  <2>1. i \in DOMAIN W /\ W[i].to \in Numbers /\ cmds[W[i].to].kind = "unsubscribe"
    BY DEF Queue, LeavesLast, Leaves, Arrays
  <2>2. W[i].to \in DOMAIN cmds
    BY <2>1, Basics
  <2>3. Awaited(W[i].to)
    <3>1. /\ rdr \in Seq(Replies) /\ sock \in Seq(Replies) /\ i \in 1 .. Len(rdr) + Len(sock)
          /\ W[i] = IF i <= Len(rdr) THEN rdr[i] ELSE sock[i - Len(rdr)]
      BY <2>1, ConcatProperties, Basics DEF IInv, Wired, W
    <3>2. CASE i <= Len(rdr)
      BY <3>1, <3>2 DEF Awaited
    <3>3. CASE ~(i <= Len(rdr))
      <4>1. i - Len(rdr) \in DOMAIN sock /\ W[i] = sock[i - Len(rdr)]
        BY <3>1, <3>3
      <4>2. QED  BY <4>1 DEF Awaited
    <3>4. QED  BY <3>2, <3>3
  <2>4. QED  BY <2>1, <2>2, <2>3 DEF Overtakes
<1>2. ASSUME NEW n \in Elems(obuf) PROVE cmds[n].kind # "unsubscribe"
  <2>1. n \in DOMAIN cmds /\ Awaited(n)
    BY Basics DEF Elems, Awaited
  <2>2. QED  BY <2>1 DEF Overtakes
<1>3. QED  BY <1>1, <1>2

(* A command that is accepted is the newest, and the last to be written. *)
LEMMA Numbered ==
    ASSUME IInv, Listed, NEW c \in Call, Accept(c), NEW N, N = Len(cmds')
    PROVE  /\ N \in Nat \ {0} /\ N \notin Numbers /\ Numbers' = Numbers \cup {N}
           /\ \A n \in Numbers : n < N /\ cmds'[n] = cmds[n] /\ got'[n] = got[n]
           /\ cmds'[N] = c /\ got'[N] = <<>>
           /\ Elems(obuf)' = Elems(obuf) \cup {N} /\ Written' = Written /\ Written < N
           /\ \A i \in DOMAIN obuf' : obuf'[i] = Written' + i
<1>1. /\ cmds \in Seq(Call) /\ got \in Seq(Seq(Int)) /\ Len(got) = Len(cmds)
      /\ obuf \in Seq(Int) /\ Len(obuf) \in Nat /\ Len(cmds) \in Nat
      /\ Written = Len(cmds) - Len(obuf)
  BY Basics DEF IInv, TypeOK, Heard, Written
<1>2. cmds' = Append(cmds, c) /\ got' = Append(got, <<>>) /\ obuf' = Append(obuf, N)
  BY DEF Accept
<1>3. N = Len(cmds) + 1
  BY <1>1, <1>2
<1>4. N \in Nat \ {0} /\ N \notin Numbers /\ Numbers' = Numbers \cup {N}
  BY <1>1, <1>3 DEF Numbers
<1>5. /\ \A n \in Numbers : n < N /\ cmds'[n] = cmds[n] /\ got'[n] = got[n]
      /\ cmds'[N] = c /\ got'[N] = <<>>
  BY <1>1, <1>2, <1>3 DEF Numbers
<1>6. Elems(obuf') = Elems(obuf) \cup {N}
  BY <1>1, <1>2, <1>4, ElemsAppend
<1>7. Elems(obuf)' = Elems(obuf')
  BY DEF Elems
<1>8. Len(obuf') = Len(obuf) + 1 /\ Written' = Written /\ Written < N
  BY <1>1, <1>2, <1>3 DEF Written
<1>9. ASSUME NEW i \in DOMAIN obuf' PROVE obuf'[i] = Written' + i
  <2>1. DOMAIN obuf' = 1 .. Len(obuf) + 1 /\ i \in Int
    BY <1>1, <1>2
  <2>2. CASE i = Len(obuf) + 1
    BY <1>1, <1>2, <1>3, <1>8, <2>2
  <2>3. CASE i # Len(obuf) + 1
    <3>1. i \in DOMAIN obuf /\ obuf'[i] = obuf[i]
      <4>1. i \in 1 .. Len(obuf)
        BY <1>1, <2>1, <2>3
      <4>2. QED  BY <1>1, <1>2, <4>1
    <3>2. QED  BY <1>8, <3>1 DEF Listed
  <2>4. QED  BY <2>2, <2>3
<1>10. QED  BY <1>4, <1>5, <1>6, <1>7, <1>8, <1>9

(* What a new command is put into: one list, for a command that has one     *)
(* reply.                                                                   *)
LEMMA IssueListed ==
    ASSUME IInv, Order, Running, NEW c \in Call, c.kind # "monitor", Accept(c),
           Command(c) \/ Subscribe(c) \/ Unsubscribe(c), NEW N, N = Len(cmds')
    PROVE  /\ Listed' /\ Accounted' /\ Invalid'
           /\ Pending' = IF c.kind = "command" THEN Pending \cup {N} ELSE Pending
           /\ Elems(replies)' = IF c.kind = "command" /\ ~Flag("subscribed")
                                THEN Elems(replies) \cup {N} ELSE Elems(replies)
<1>1. /\ N \in Nat \ {0} /\ N \notin Numbers /\ Numbers' = Numbers \cup {N}
      /\ \A n \in Numbers : n < N /\ cmds'[n] = cmds[n] /\ got'[n] = got[n]
      /\ cmds'[N] = c /\ got'[N] = <<>>
      /\ \A i \in DOMAIN obuf' : obuf'[i] = Written' + i
  BY Numbered DEF Order
<1>2. /\ replies \in Seq(Int) /\ invalid \in Seq(Int) /\ N \in Int /\ Numbers \subseteq Int
      /\ Pending \subseteq Numbers
  BY <1>1, Basics DEF Order, Listed
<1>3. /\ Elems(replies) \subseteq Pending /\ Elems(invalid) \subseteq Pending
      /\ \A n \in Pending : n < N
  BY <1>1, <1>2 DEF Pending
<1>4. /\ Elems(Append(replies, N)) = Elems(replies) \cup {N}
      /\ Elems(Append(invalid, N)) = Elems(invalid) \cup {N}
      /\ Increasing(Append(replies, N)) /\ Increasing(Append(invalid, N))
  BY <1>2, <1>3, ElemsAppend DEF Order, Listed
<1>5. /\ Elems(replies)' = Elems(replies') /\ Elems(invalid)' = Elems(invalid')
      /\ Increasing(replies)' = Increasing(replies') /\ Increasing(invalid)' = Increasing(invalid')
  BY DEF Elems, Increasing
<1>6. \/ /\ c.kind = "command" /\ ~Flag("subscribed") /\ flags' = flags
         /\ replies' = Append(replies, N) /\ invalid' = invalid
      \/ /\ c.kind = "command" /\ Flag("subscribed") /\ flags' = flags
         /\ replies' = replies /\ invalid' = Append(invalid, N)
      \/ /\ c.kind = "subscribe" /\ flags' = flags \cup {"subscribed"}
         /\ replies' = replies /\ invalid' = invalid
      \/ /\ c.kind = "unsubscribe" /\ flags' = flags
         /\ replies' = replies /\ invalid' = invalid
  BY DEF Command, Subscribe, Unsubscribe, Push
<1>7. invalid # <<>> => Flag("subscribed")
  BY DEF Order, Invalid
<1>8. /\ Increasing(replies)' /\ Increasing(invalid)'
      /\ Elems(replies)' = IF c.kind = "command" /\ ~Flag("subscribed")
                           THEN Elems(replies) \cup {N} ELSE Elems(replies)
      /\ Elems(invalid)' = IF c.kind = "command" /\ Flag("subscribed")
                           THEN Elems(invalid) \cup {N} ELSE Elems(invalid)
  BY <1>4, <1>5, <1>6 DEF Order, Listed
<1>9. Pending' = IF c.kind = "command" THEN Pending \cup {N} ELSE Pending
  BY <1>8 DEF Pending
<1>10. Listed'
  <2>1. ASSUME NEW n \in Elems(replies)', NEW m \in Elems(invalid)' PROVE n < m
    <3>1. CASE c.kind = "command" /\ ~Flag("subscribed")
      <4>1. Elems(invalid)' = {}
        BY <1>2, <1>7, <1>8, <3>1, ElemsType
      <4>2. QED  BY <4>1
    <3>2. CASE ~(c.kind = "command" /\ ~Flag("subscribed"))
      BY <1>2, <1>3, <1>8, <3>2 DEF Order, Listed
    <3>3. QED  BY <3>1, <3>2
  <2>2. \A n \in Pending' : n \in Numbers' /\ cmds'[n].kind = "command"
    BY <1>1, <1>2, <1>9 DEF Order, Listed
  <2>3. \A n \in Numbers' : cmds'[n].kind # "monitor"
    BY <1>1 DEF Order, Listed
  <2>4. smon' = smon
    BY DEF Accept, server
  <2>5. QED  BY <1>1, <1>8, <2>1, <2>2, <2>3, <2>4 DEF Order, Listed
<1>11. Accounted'
  <2>1. ASSUME NEW n \in Plain'
        PROVE  /\ n \in Pending' => got'[n] = <<>>
               /\ n \notin Pending' => Len(got'[n]) = 1 /\ got'[n][1] \in {n, NULL, 0}
    <3>1. n \in Numbers' /\ cmds'[n].kind = "command" /\ cmds'[n].fn
      BY DEF Plain
    <3>2. CASE n = N
      BY <1>1, <1>9, <3>1, <3>2
    <3>3. CASE n # N
      <4>1. n \in Plain /\ got'[n] = got[n] /\ (n \in Pending' <=> n \in Pending)
        BY <1>1, <1>9, <3>1, <3>3 DEF Plain
      <4>2. QED  BY <4>1 DEF Order, Accounted
    <3>4. QED  BY <3>2, <3>3
  <2>2. QED  BY <2>1 DEF Accounted
<1>12. Invalid'
  <2>1. Flag("subscribed")' <=> Flag("subscribed") \/ c.kind = "subscribe"
    BY <1>6 DEF Flag
  <2>2. invalid' # <<>> => Flag("subscribed")'
    BY <1>6, <1>7, <2>1
  <2>3. Flag("subscribed")' => \E m \in Numbers' : cmds'[m].kind = "subscribe"
    BY <1>1, <2>1 DEF Order, Invalid
  <2>4. ASSUME NEW n \in Elems(invalid)' PROVE \E m \in 1 .. n : cmds'[m].kind = "subscribe"
    <3>1. CASE n \in Elems(invalid)
      <4>1. n \in Numbers /\ \E m \in 1 .. n : cmds[m].kind = "subscribe"
        BY <1>2, <1>3, <3>1 DEF Order, Invalid
      <4>2. \A m \in 1 .. n : m \in Numbers
        BY <4>1, Basics DEF Numbers
      <4>3. QED  BY <1>1, <4>1, <4>2
    <3>2. CASE n = N /\ c.kind = "command" /\ Flag("subscribed")
      <4>1. PICK m \in Numbers : cmds[m].kind = "subscribe"
        BY <3>2 DEF Order, Invalid
      <4>2. m \in 1 .. N /\ cmds'[m].kind = "subscribe"
        BY <1>1, <4>1, Basics
      <4>3. QED  BY <3>2, <4>2
    <3>3. QED  BY <1>8, <3>1, <3>2
  <2>5. QED  BY <2>2, <2>3, <2>4 DEF Invalid
<1>13. QED  BY <1>8, <1>9, <1>10, <1>11, <1>12

LEMMA IssueQueue ==
    ASSUME IInv, Order, Running, ~Overtakes, NEW c \in Call, c.kind # "monitor", Accept(c),
           Command(c) \/ Subscribe(c) \/ Unsubscribe(c),
           c.kind = "unsubscribe" => Names(c) # {}
    PROVE  Queue'
<1> PICK N : N = Len(cmds')
  OBVIOUS
<1>1. /\ N \in Nat \ {0} /\ N \notin Numbers /\ Numbers' = Numbers \cup {N}
      /\ \A n \in Numbers : n < N /\ cmds'[n] = cmds[n]
      /\ cmds'[N] = c
      /\ Elems(obuf)' = Elems(obuf) \cup {N} /\ Written' = Written /\ Written < N
  BY Numbered DEF Order
<1>2. /\ Pending' = IF c.kind = "command" THEN Pending \cup {N} ELSE Pending
      /\ Elems(replies)' = IF c.kind = "command" /\ ~Flag("subscribed")
                           THEN Elems(replies) \cup {N} ELSE Elems(replies)
  BY IssueListed
<1>3. /\ Queue /\ Leaves = {} /\ \A n \in Elems(obuf) : cmds[n].kind # "unsubscribe"
      /\ Elems(obuf) \subseteq Numbers /\ Pending \subseteq Numbers /\ Numbers \subseteq Int
      /\ Elems(replies) \subseteq Pending
  BY NotOvertaken, Basics DEF Order, Listed, Pending
<1>4. /\ UNCHANGED <<rdr, sock, ssub, down, reading>> /\ W' = W
      /\ Flag("subscribed")' <=> Flag("subscribed") \/ c.kind = "subscribe"
  BY DEF Accept, server, W, Command, Subscribe, Unsubscribe, Flag
<1>5. /\ Answers' = Answers /\ Arrays' = Arrays /\ Leaves' = {}
      /\ \A n, i : AnsweredBefore(n, i)' = AnsweredBefore(n, i)
      /\ \A n : IsAnswered(n)' = IsAnswered(n)
  BY <1>3, <1>4 DEF Answers, Arrays, Leaves, AnsweredBefore, IsAnswered
<1>6. /\ c.kind \in {"command", "subscribe", "unsubscribe"} /\ c.pv \in BOOLEAN
      /\ c.kind = "subscribe" => c.name \in Keys
  BY CallTypes
<1>7. /\ c.kind # "subscribe" => UNCHANGED subs
      /\ \A k \in Subscriptions :
           InTable(k)' <=> InTable(k) \/ (c.kind = "subscribe" /\ k = KeyOf(c))
  <2>1. CASE c.kind # "subscribe"
    BY <2>1 DEF Command, Subscribe, Unsubscribe, InTable
  <2>2. CASE c.kind = "subscribe"
    <3> DEFINE new == Replace(subs[c.pv], c.name, N)
    <3>1. subs' = [subs EXCEPT ![c.pv] = new] /\ DOMAIN subs = BOOLEAN
      BY <2>2 DEF Command, Subscribe, Unsubscribe, IInv, Tables
    <3>2. Entries(new) = {e \in Entries(subs[c.pv]) : e.key # c.name}
                            \cup {[key |-> c.name, val |-> N]}
      BY <1>6, <2>2, ReplaceInMap DEF IInv, Tables
    <3> HIDE DEF new
    <3>3. ASSUME NEW k \in Subscriptions
          PROVE  InTable(k)' <=> InTable(k) \/ k = KeyOf(c)
      <4>1. k = <<k[1], k[2]>> /\ k[1] \in BOOLEAN
        BY DEF Subscriptions
      <4>2. CASE k[1] # c.pv
        <5>1. subs'[k[1]] = subs[k[1]] /\ k # KeyOf(c)
          BY <1>6, <3>1, <4>1, <4>2 DEF KeyOf
        <5>2. QED  BY <5>1 DEF InTable
      <4>3. CASE k[1] = c.pv
        <5>1. subs'[k[1]] = new /\ (k = KeyOf(c) <=> k[2] = c.name)
          BY <1>6, <3>1, <4>1, <4>3 DEF KeyOf
        <5>2. InTable(k)' <=> \E e \in Entries(new) : e.key = k[2]
          BY <5>1 DEF InTable
        <5>3. InTable(k) <=> \E e \in Entries(subs[c.pv]) : e.key = k[2]
          BY <4>3 DEF InTable
        <5>4. (\E e \in Entries(new) : e.key = k[2])
                <=> (\E e \in Entries(subs[c.pv]) : e.key = k[2]) \/ k[2] = c.name
          <6>1. ASSUME NEW e \in Entries(new), e.key = k[2]
                PROVE  e \in Entries(subs[c.pv]) \/ k[2] = c.name
            BY <3>2, <6>1
          <6>2. ASSUME NEW e \in Entries(subs[c.pv]), e.key = k[2], k[2] # c.name
                PROVE  e \in Entries(new)
            BY <3>2, <6>2
          <6>3. [key |-> c.name, val |-> N] \in Entries(new)
            BY <3>2
          <6>4. QED  BY <6>1, <6>2, <6>3
        <5>5. QED  BY <5>1, <5>2, <5>3, <5>4
      <4>4. QED  BY <4>2, <4>3
    <3>4. QED  BY <2>2, <3>3
  <2>3. QED  BY <2>1, <2>2
<1>8. Matching'
  <2>1. \A i \in Answers : W[i].to \in Pending' /\ W[i].to <= Written /\ W[i].to # N
    BY <1>1, <1>2, <1>3 DEF Queue, Matching
  <2>2. ASSUME NEW i \in Answers, NEW n \in Pending', n < W[i].to PROVE AnsweredBefore(n, i)
    <3>1. n # N
      <4>1. W[i].to \in Pending /\ W[i].to <= Written
        BY <1>3 DEF Queue, Matching
      <4>2. W[i].to \in Int /\ Written \in Int /\ N \in Int
        BY <1>1, ReplyFields, Basics DEF Answers
      <4>3. QED  BY <1>1, <2>2, <4>1, <4>2
    <3>2. QED  BY <1>2, <1>3, <2>2, <3>1 DEF Queue, Matching
  <2>3. ASSUME ~down
        PROVE  /\ \A n \in Pending' : n <= Written => IsAnswered(n)
               /\ \A n \in Elems(obuf)' : cmds'[n].kind = "command" => n \in Pending'
    <3>1. \A n \in Pending' : n <= Written => n \in Pending
      BY <1>1, <1>2, Basics
    <3>2. ASSUME NEW n \in Elems(obuf)', cmds'[n].kind = "command" PROVE n \in Pending'
      BY <1>1, <1>2, <1>3, <2>3, <3>2 DEF Queue, Matching
    <3>3. QED  BY <1>3, <2>3, <3>1, <3>2 DEF Queue, Matching
  <2>4. QED  BY <1>1, <1>3, <1>4, <1>5, <2>1, <2>2, <2>3 DEF Queue, Matching
<1>9. \A i \in Arrays : KeyOf(W[i]) \in Subscriptions
  <2>1. ASSUME NEW i \in Arrays PROVE W[i].pv \in BOOLEAN /\ W[i].name \in Keys
    BY <1>3, ReplyFields DEF Queue, ArraysDue, Arrays
  <2>2. QED  BY <2>1 DEF KeyOf, Subscriptions
<1>10. ArraysDue'
  <2>1. ASSUME NEW i \in Arrays
        PROVE  /\ Flag("subscribed")' /\ W[i].name # None /\ InTable(KeyOf(W[i]))'
               /\ \A n \in Elems(replies)' : AnsweredBefore(n, i)
    BY <1>2, <1>3, <1>4, <1>7, <1>9 DEF Queue, ArraysDue
  <2>2. QED  BY <1>4, <1>5, <2>1 DEF ArraysDue
<1>11. LeavesLast'
  BY <1>5 DEF LeavesLast
<1>12. Unwritten'
  <2>1. ASSUME NEW n \in Elems(obuf)', cmds'[n].kind # "command"
        PROVE  Flag("subscribed")' /\ \A m \in Elems(replies)' : m < n
    <3>1. CASE n = N
      <4>1. c.kind # "command"
        BY <1>1, <2>1, <3>1
      <4>2. Flag("subscribed")' /\ Elems(replies)' = Elems(replies)
        BY <1>2, <1>4, <1>6, <4>1 DEF Command, Subscribe, Unsubscribe
      <4>3. QED  BY <1>1, <1>3, <3>1, <4>2
    <3>2. CASE n # N
      <4>1. n \in Elems(obuf) /\ cmds[n].kind # "command"
        BY <1>1, <1>3, <2>1, <3>2
      <4>2. Flag("subscribed") /\ \A m \in Elems(replies) : m < n
        BY <1>3, <4>1 DEF Queue, Unwritten
      <4>3. QED  BY <1>2, <1>4, <4>2
    <3>3. QED  BY <3>1, <3>2
  <2>2. ASSUME NEW n \in Elems(obuf)', cmds'[n].kind = "subscribe"
        PROVE  InTable(KeyOf(cmds[n]))'
    <3>1. CASE n = N
      <4>1. c.kind = "subscribe" /\ KeyOf(c) \in Subscriptions
        BY <1>1, <1>6, <2>2, <3>1 DEF KeyOf, Subscriptions
      <4>2. InTable(KeyOf(c))'
        BY <1>7, <4>1
      <4>3. KeyOf(cmds[n])' = KeyOf(c)
        BY <1>1, <3>1 DEF KeyOf
      <4>4. QED  BY <4>2, <4>3 DEF InTable
    <3>2. CASE n # N
      <4>1. n \in Elems(obuf) /\ n \in Numbers /\ cmds'[n] = cmds[n] /\ cmds[n].kind = "subscribe"
        BY <1>1, <1>3, <2>2, <3>2
      <4>2. KeyOf(cmds[n]) \in Subscriptions /\ InTable(KeyOf(cmds[n]))
        BY <1>3, <4>1, CallTypes, Basics DEF Queue, Unwritten, KeyOf, Subscriptions
      <4>3. PICK k \in Subscriptions : k = KeyOf(cmds[n])
        BY <4>2
      <4>4. InTable(k)'
        BY <1>7, <4>2, <4>3
      <4>5. KeyOf(cmds[n])' = k
        BY <4>1, <4>3 DEF KeyOf
      <4>6. QED  BY <4>4, <4>5 DEF InTable
    <3>3. QED  BY <3>1, <3>2
  <2>3. ASSUME NEW n \in Elems(obuf)', cmds'[n].kind = "unsubscribe"
        PROVE  /\ n = Len(cmds')
               /\ \E k \in Subscriptions : /\ InTable(k)' /\ k[1] = cmds'[n].pv
                                           /\ cmds'[n].name \in {None, k[2]}
    <3>1. n = N /\ c.kind = "unsubscribe"
      BY <1>1, <1>3, <2>3
    <3>2. PICK key \in Names(c) : TRUE
      BY <3>1
    <3>3. PICK e \in Entries(subs[c.pv]) : e.key = key
      BY <3>2 DEF Names
    <3>4. key \in Keys /\ c.name \in {None, key}
      <4>1. c.name \in Keys \cup {None}
        BY CallTypes
      <4>2. CASE c.name = None
        BY <3>2, <4>2 DEF Names
      <4>3. CASE c.name # None
        BY <3>2, <4>1, <4>3 DEF Names
      <4>4. QED  BY <4>2, <4>3
    <3>5. <<c.pv, key>> \in Subscriptions /\ InTable(<<c.pv, key>>)
      BY <1>6, <3>3, <3>4 DEF Subscriptions, InTable
    <3>6. InTable(<<c.pv, key>>)'
      BY <1>7, <3>1, <3>5 DEF InTable
    <3>7. QED  BY <1>1, <3>1, <3>3, <3>4, <3>5, <3>6
  <2>4. QED  BY <1>5, <2>1, <2>2, <2>3 DEF Unwritten
<1>13. ServerAgrees'
  <2>1. SUFFICES ASSUME ~down PROVE ServerAgrees'
    BY <1>4 DEF ServerAgrees
  <2>2. \A k \in ssub' : InTable(k)'
    BY <1>3, <1>4, <1>7, <2>1 DEF Queue, ServerAgrees, IInv, Wired, Subscriptions
  <2>3. ASSUME NEW k \in Subscriptions, InTable(k)'
        PROVE  \/ k \in ssub
               \/ \E n \in Elems(obuf)' : cmds'[n].kind = "subscribe" /\ KeyOf(cmds[n])' = k
    <3>1. CASE c.kind = "subscribe" /\ k = KeyOf(c)
      BY <1>1, <3>1 DEF KeyOf
    <3>2. CASE ~(c.kind = "subscribe" /\ k = KeyOf(c))
      <4>1. \/ k \in ssub
            \/ \E n \in Elems(obuf) : cmds[n].kind = "subscribe" /\ KeyOf(cmds[n]) = k
        BY <1>3, <1>7, <2>1, <2>3, <3>2 DEF Queue, ServerAgrees
      <4>2. QED  BY <1>1, <1>3, <4>1 DEF KeyOf
    <3>3. QED  BY <3>1, <3>2
  <2>4. ASSUME ssub # {} PROVE Flag("subscribed")' /\ \A n \in Elems(replies)' : IsAnswered(n)'
    BY <1>2, <1>3, <1>4, <1>5, <2>1, <2>4 DEF Queue, ServerAgrees
  <2>5. QED  BY <1>4, <1>5, <2>2, <2>3, <2>4 DEF ServerAgrees
<1>14. QED  BY <1>8, <1>10, <1>11, <1>12, <1>13 DEF Queue

LEMMA IssueOrder ==
    ASSUME IInv, Order, Issue, misuse' = {}, "monitoring" \notin flags'
    PROVE  Order'
<1>1. PICK s \in Scripts : LET c == s[Len(cmds) + 1]
                           IN /\ Len(cmds) < Len(s)
                              /\ Command(c) \/ Subscribe(c) \/ Unsubscribe(c) \/ Monitor(c)
  BY DEF Issue
<1> DEFINE c == s[Len(cmds) + 1]
<1>2. c \in Call
  BY <1>1, AsyncAssumption DEF AsyncAssumption, IInv, TypeOK
<1>3. Command(c) \/ Subscribe(c) \/ Unsubscribe(c) \/ Monitor(c)
  BY <1>1
<1> HIDE DEF c
<1>4. Command(c) \/ Subscribe(c) \/ Unsubscribe(c)
  BY <1>3 DEF Monitor
<1>5. Accept(c) /\ c.kind # "monitor"
  BY <1>4 DEF Command, Subscribe, Unsubscribe
<1>6. Running /\ UNCHANGED mode /\ MisuseOf(c) = {}
  BY <1>5 DEF Accept, MayCall, Running
<1>7. ~Overtakes /\ (c.kind = "unsubscribe" => Names(c) # {})
  <2>1. "overtaking" \notin MisuseOf(c) /\ "unknown" \notin MisuseOf(c)
    BY <1>6
  <2>2. QED  BY <2>1 DEF MisuseOf
<1>8. Queue'
  BY <1>2, <1>4, <1>5, <1>6, <1>7, IssueQueue
<1> PICK N : N = Len(cmds')
  OBVIOUS
<1>9. /\ Listed' /\ Accounted' /\ Invalid'
      /\ Pending' = IF c.kind = "command" THEN Pending \cup {N} ELSE Pending
  BY <1>2, <1>4, <1>5, <1>6, IssueListed
<1>10. Clean'
  <2>1. /\ mode \in {"loop", "process", "callback"} /\ mode' = mode
        /\ "disconnecting" \notin flags' /\ UNCHANGED status
    BY <1>4, <1>5, <1>6 DEF Running, Accept, Command, Subscribe, Unsubscribe
  <2>2. ASSUME ~err', ~Flag("freeing")', NEW n \in BeforeSubscribing'
        PROVE  n \in Pending' \/ got'[n] \in {<<n>>, <<0>>}
    <3>1. /\ Numbers' = Numbers \cup {N} /\ cmds'[N] = c /\ N \notin Numbers
          /\ \A m \in Numbers : cmds'[m] = cmds[m] /\ got'[m] = got[m]
      BY <1>2, <1>5, Numbered DEF Order
    <3>2. /\ n \in Numbers' /\ cmds'[n].kind = "command" /\ cmds'[n].fn
          /\ \A m \in 1 .. n : cmds'[m].kind = "command"
      BY <2>2 DEF BeforeSubscribing, Plain
    <3>3. CASE n = N
      BY <1>9, <3>1, <3>2, <3>3
    <3>4. CASE n # N
      <4>1. n \in Numbers /\ \A m \in 1 .. n : m \in Numbers
        <5>1. n \in Numbers
          BY <3>1, <3>2, <3>4
        <5>2. n \in 1 .. Len(cmds) /\ Len(cmds) \in Nat
          BY <5>1, Basics DEF Numbers
        <5>3. \A m \in 1 .. n : m \in 1 .. Len(cmds)
          BY <5>2
        <5>4. QED  BY <5>1, <5>3 DEF Numbers
      <4>2. n \in BeforeSubscribing
        BY <3>1, <3>2, <4>1 DEF BeforeSubscribing, Plain
      <4>3. ~err /\ ~Flag("freeing")
        <5>1. err' = err /\ flags \subseteq flags'
          BY <1>4, <1>5 DEF Accept, Command, Subscribe, Unsubscribe
        <5>2. QED  BY <2>2, <5>1 DEF Flag
      <4>4. n \in Pending \/ got[n] \in {<<n>>, <<0>>}
        BY <4>2, <4>3 DEF Order, Clean
      <4>5. QED  BY <1>9, <3>1, <4>1, <4>4
    <3>5. QED  BY <3>3, <3>4
  <2>3. status' # "ok"
    BY <2>1 DEF Order, Clean
  <2>4. QED  BY <2>1, <2>2, <2>3 DEF Clean, Running, Flag
<1>11. QED  BY <1>8, <1>9, <1>10 DEF Order

LEMMA LeaveOrder ==
    ASSUME IInv, Order, Disconnect \/ Free
    PROVE  Order'
<1>1. /\ mode \in {"loop", "callback"} /\ asked'
      /\ UNCHANGED <<err, replies, invalid, subs, cb, obuf, rdr, events, server, cmds, got, status>>
      /\ \/ flags' = flags \cup {"disconnecting"} /\ mode' \in {mode, "teardown"}
            /\ (mode' = "teardown" => replies = <<>>)
         \/ flags' = flags \cup {"freeing"} /\ mode' \in {mode, "teardown"}
  BY DEF Disconnect, Free, CleanDisconnect, MayCall
<1>2. Pending' = Pending /\ BeforeSubscribing' = BeforeSubscribing
  BY <1>1 DEF Pending, BeforeSubscribing, Plain, Numbers
<1>3. Clean'
  BY <1>1, <1>2 DEF Order, Clean, Running, Flag
<1>4. QED
  BY <1>1, <1>3, Quiet DEF W, Running, Flag, events, server

-----------------------------------------------------------------------------
(* The write event: the first command of the buffer leaves it. *)
LEMMA WriteOne ==
    ASSUME IInv, Order, HandleWrite, NEW n, n = Head(obuf)
    PROVE  /\ Running /\ Queue /\ Matching /\ reading'
           /\ UNCHANGED <<mode, err, replies, invalid, subs, rdr, down, cmds, history>>
           /\ Elems(replies)' = Elems(replies)
           /\ Flag("subscribed")' = Flag("subscribed") /\ Flag("freeing")' = Flag("freeing")
           /\ Flag("disconnecting")' = Flag("disconnecting")
           /\ n \in Numbers /\ n \in Elems(obuf) /\ n = Written + 1 /\ Written' = n
           /\ n \in Nat \ {0} /\ Written \in Int
           /\ Elems(obuf)' = {m \in Numbers : n < m} /\ Elems(obuf)' \subseteq Elems(obuf)
           /\ \A m \in Elems(obuf) : m = n \/ m \in Elems(obuf)'
           /\ Leaves = {}
           /\ Pending \subseteq Numbers /\ Elems(replies) \subseteq Pending
           /\ Pending' = Pending /\ Numbers' = Numbers
           /\ \A m \in Pending : m \in Int /\ (m <= n => m <= Written \/ m = n)
           /\ \A k : InTable(k)' = InTable(k)
           /\ \A i \in DOMAIN obuf' : obuf'[i] = Written' + i
<1>1. /\ mode = "loop" /\ flags' = flags \cup {"connected"} /\ obuf # <<>> /\ obuf' = Tail(obuf)
      /\ reading' = TRUE
      /\ UNCHANGED <<mode, err, replies, invalid, subs, cb, rdr, down, pushes, history>>
  BY DEF HandleWrite, WriteEvent, Rescheduled
<1>2. Running /\ Queue /\ Matching /\ Listed
  BY <1>1 DEF Running, Order, Queue
<1>3. /\ cmds' = cmds /\ Elems(replies)' = Elems(replies)
      /\ Flag("subscribed")' = Flag("subscribed") /\ Flag("freeing")' = Flag("freeing")
      /\ Flag("disconnecting")' = Flag("disconnecting") /\ \A k : InTable(k)' = InTable(k)
      /\ Numbers' = Numbers /\ Pending' = Pending
  BY <1>1 DEF Flag, InTable, Numbers, Pending, Elems, history
<1>4. /\ Elems(obuf) = {m \in Numbers : Written < m}
      /\ n = Written + 1 /\ n \in Elems(obuf)
      /\ Elems(Tail(obuf)) = {m \in Numbers : Written + 1 < m}
      /\ Len(Tail(obuf)) = Len(obuf) - 1
      /\ \A i \in DOMAIN Tail(obuf) : Tail(obuf)[i] = Written + 1 + i
  BY <1>1, <1>2, Unsent
<1>5. /\ Written \in Int /\ Len(obuf) \in Nat /\ Len(cmds) \in Nat /\ Numbers \subseteq Nat \ {0}
      /\ n \in Numbers
  BY <1>4, Basics
<1>6. Written' = n
  BY <1>1, <1>4, <1>5 DEF Written, history
<1>7. Elems(obuf)' = {m \in Numbers : n < m}
  <2>1. Elems(obuf)' = Elems(obuf')
    BY DEF Elems
  <2>2. QED  BY <1>1, <1>4, <2>1
<1>8. /\ Elems(obuf)' \subseteq Elems(obuf)
      /\ \A m \in Elems(obuf) : m = n \/ m \in Elems(obuf)'
  <2>1. ASSUME NEW m \in Numbers PROVE (Written < m <=> m = n \/ n < m)
    <3>1. m \in Int
      BY <1>5
    <3>2. QED  BY <1>4, <1>5, <3>1
  <2>2. QED  BY <1>4, <1>7, <2>1
<1>9. Leaves = {}
  BY <1>1, <1>2 DEF Queue, LeavesLast
<1>10. /\ Pending \subseteq Numbers /\ Elems(replies) \subseteq Pending
       /\ \A m \in Pending : m \in Int /\ (m <= n => m <= Written \/ m = n)
  <2>1. Pending \subseteq Numbers /\ Elems(replies) \subseteq Pending
    BY <1>2 DEF Listed, Pending
  <2>2. ASSUME NEW m \in Pending PROVE m \in Int /\ (m <= n => m <= Written \/ m = n)
    <3>1. m \in Int
      BY <1>5, <2>1
    <3>2. QED  BY <1>4, <1>5, <3>1
  <2>3. QED  BY <2>1, <2>2
<1>11. \A i \in DOMAIN obuf' : obuf'[i] = Written' + i
  BY <1>1, <1>4, <1>6
<1>12. QED
  BY <1>1, <1>2, <1>3, <1>4, <1>5, <1>6, <1>7, <1>8, <1>9, <1>10, <1>11

(* A command that needs no answer, or is written to a lost connection. *)
LEMMA WriteLost ==
    ASSUME IInv, Order, HandleWrite, down
    PROVE  Queue'
<1> PICK n : n = Head(obuf)
  OBVIOUS
<1>1. UNCHANGED <<sock, ssub, smon, rdr, down, cmds, replies>>
  BY DEF HandleWrite, history
<1>2. W' = W /\ down' /\ cmds' = cmds /\ Elems(replies)' = Elems(replies)
  BY <1>1 DEF W, Elems
<1>3. /\ Answers' = Answers /\ Arrays' = Arrays /\ Leaves' = {}
      /\ \A m, i : AnsweredBefore(m, i)' = AnsweredBefore(m, i)
  BY <1>2, WriteOne DEF Answers, Arrays, Leaves, AnsweredBefore
<1>4. Matching'
  <2>1. \A i \in Answers : W[i].to \in Pending /\ W[i].to <= Written'
    <3>1. \A i \in Answers : W[i].to \in Pending /\ W[i].to <= Written
      BY WriteOne DEF Queue, Matching
    <3>2. ASSUME NEW i \in Answers PROVE W[i].to <= Written'
      <4>1. W[i].to \in Int /\ W[i].to <= Written
        BY <3>1, ReplyFields DEF Answers
      <4>2. Written \in Int /\ Written' = n /\ n = Written + 1
        BY WriteOne
      <4>3. QED  BY <4>1, <4>2
    <3>3. QED  BY <3>1, <3>2
  <2>2. Matching
    BY WriteOne DEF Queue
  <2>3. Pending' = Pending
    BY WriteOne
  <2>4. QED  BY <1>2, <1>3, <2>1, <2>2, <2>3 DEF Matching
<1>5. ArraysDue'
  BY <1>2, <1>3, WriteOne DEF Queue, ArraysDue
<1>6. Unwritten'
  BY <1>2, <1>3, WriteOne DEF Queue, Unwritten
<1>7. QED  BY <1>2, <1>3, <1>4, <1>5, <1>6 DEF Queue, LeavesLast, ServerAgrees

(* A command that has one reply: it is answered after all that were written *)
(* before it.                                                               *)
LEMMA WriteCommand ==
    ASSUME IInv, Order, HandleWrite, ~down, NEW n, n = Head(obuf), cmds[n].kind = "command"
    PROVE  Queue' /\ smon' = smon
<1>1. PICK type \in {"status", "error"} :
        sock' = sock \o <<Reply(type, n)>> /\ ssub' = ssub /\ smon' = smon
  <2>1. Executes(n)
    BY DEF HandleWrite
  <2>2. QED  BY <2>1 DEF Executes, Sends
<1> DEFINE r == Reply(type, n)
<1>2. /\ Queue /\ Matching /\ reading' /\ n \in Elems(obuf) /\ n \in Nat \ {0} /\ n = Written + 1
      /\ Written' = n /\ Written \in Int /\ Leaves = {} /\ Pending' = Pending
      /\ Elems(obuf)' \subseteq Elems(obuf) /\ UNCHANGED <<down, rdr, replies, cmds>>
      /\ Elems(replies) \subseteq Pending /\ Elems(replies)' = Elems(replies)
      /\ Flag("subscribed")' = Flag("subscribed")
      /\ \A m \in Pending : m \in Int /\ (m <= n => m <= Written \/ m = n)
      /\ \A k : InTable(k)' = InTable(k)
      /\ \A m \in Elems(obuf) : m = n \/ m \in Elems(obuf)'
  BY WriteOne
<1>3. r \in Replies /\ r.type # "array" /\ r.to = n
  BY <1>2, ReplyTypes DEF Reply
<1> HIDE DEF r
<1>4. W' = W \o <<r>>
  <2>1. <<r>> \in Seq(Replies) /\ Sends(<<r>>)
    BY <1>1, <1>3 DEF Sends, r
  <2>2. QED  BY <1>2, <2>1, SendsQueue
<1> PICK L : L = Len(W')
  OBVIOUS
<1>5. /\ DOMAIN W' = DOMAIN W \cup {L} /\ L \notin DOMAIN W /\ W'[L] = r
      /\ \A i \in DOMAIN W : W'[i] = W[i] /\ i < L
      /\ \A i : /\ i \in Answers' <=> i \in Answers \/ i = L
                /\ i \in Arrays' <=> i \in Arrays
                /\ i \in Leaves' <=> i \in Leaves
      /\ \A m, i : AnsweredBefore(m, i) => AnsweredBefore(m, i)'
      /\ \A m : IsAnswered(m) => IsAnswered(m)' /\ AnsweredBefore(m, L)'
  BY <1>2, <1>3, <1>4, Grows
<1>6. n \in Pending /\ IsAnswered(n)' /\ \A m \in Pending : m <= Written => IsAnswered(m)
  BY <1>2, <1>3, <1>5 DEF Matching, IsAnswered
<1>7. ASSUME NEW i \in Answers
      PROVE  /\ W'[i] = W[i] /\ W[i].to \in Pending /\ W[i].to <= Written
             /\ W[i].to \in Int /\ W[i].to < n
  <2>1. W[i].to \in Pending /\ W[i].to <= Written /\ W'[i] = W[i]
    BY <1>2, <1>5 DEF Matching, Answers
  <2>2. W[i].to \in Int
    BY <1>2, <2>1
  <2>3. QED  BY <1>2, <2>1, <2>2
<1>8. Matching'
  <2>1. \A i \in Answers' : W'[i].to \in Pending' /\ W'[i].to <= Written'
    BY <1>2, <1>3, <1>5, <1>6, <1>7
  <2>2. ASSUME NEW i \in Answers', NEW j \in Answers', W'[i].to = W'[j].to PROVE i = j
    <3>1. /\ i \in Answers => W'[i].to = W[i].to /\ W[i].to < n /\ W[i].to \in Int
          /\ j \in Answers => W'[j].to = W[j].to /\ W[j].to < n /\ W[j].to \in Int
      BY <1>7
    <3>2. n \in Int
      BY <1>2
    <3>3. CASE i \in Answers /\ j \in Answers
      BY <1>2, <1>5, <2>2, <3>1, <3>3 DEF Matching
    <3>4. CASE ~(i \in Answers /\ j \in Answers)
      BY <1>2, <1>3, <1>5, <2>2, <3>1, <3>2, <3>4
    <3>5. QED  BY <3>3, <3>4
  <2>3. ASSUME NEW i \in Answers', NEW m \in Pending, m < W'[i].to PROVE AnsweredBefore(m, i)'
    <3>1. CASE i = L
      <4>1. m < n
        BY <1>3, <1>5, <2>3, <3>1
      <4>2. m <= Written
        BY <1>2, <4>1
      <4>3. QED  BY <1>5, <1>6, <3>1, <4>2
    <3>2. CASE i \in Answers
      BY <1>2, <1>5, <1>7, <2>3, <3>2 DEF Matching
    <3>3. QED  BY <1>5, <3>1, <3>2
  <2>4. \A m \in Pending : m <= Written' => IsAnswered(m)'
    BY <1>2, <1>5, <1>6
  <2>5. \A m \in Elems(obuf)' : cmds'[m].kind = "command" => m \in Pending
    BY <1>2 DEF Matching
  <2>6. \A i \in DOMAIN W' : ~(W'[i].type # "array" /\ W'[i].to = 0)
    BY <1>2, <1>3, <1>5 DEF Matching
  <2>7. QED  BY <1>2, <2>1, <2>2, <2>3, <2>4, <2>5, <2>6 DEF Matching
<1>9. ArraysDue'
  <2>1. ASSUME NEW i \in Arrays PROVE W'[i] = W[i] /\ i \in Arrays'
    BY <1>5 DEF Arrays
  <2>2. \A j : j \notin Leaves'
    BY <1>2, <1>5
  <2>3. ArraysDue
    BY <1>2 DEF Queue
  <2>4. QED  BY <1>2, <1>5, <2>1, <2>2, <2>3 DEF ArraysDue
<1>10. LeavesLast'
  BY <1>2, <1>5 DEF LeavesLast
<1>11. Unwritten'
  BY <1>2, <1>5 DEF Queue, Unwritten
<1>12. ServerAgrees'
  <2>1. ServerAgrees /\ \A j : j \notin Leaves'
    BY <1>2, <1>5 DEF Queue
  <2>2. \A k \in ssub' : InTable(k)'
    BY <1>1, <1>2, <2>1 DEF ServerAgrees
  <2>3. ASSUME NEW k \in Subscriptions, InTable(k)'
        PROVE  \/ k \in ssub'
               \/ \E m \in Elems(obuf)' : cmds'[m].kind = "subscribe" /\ KeyOf(cmds[m])' = k
    <3>1. \/ k \in ssub
          \/ \E m \in Elems(obuf) : cmds[m].kind = "subscribe" /\ KeyOf(cmds[m]) = k
      BY <1>2, <2>1, <2>3 DEF ServerAgrees
    <3>2. QED  BY <1>1, <1>2, <3>1 DEF KeyOf
  <2>4. ssub' # {} => Flag("subscribed")' /\ \A m \in Elems(replies)' : IsAnswered(m)'
    BY <1>1, <1>2, <1>5, <2>1 DEF ServerAgrees
  <2>5. QED  BY <2>1, <2>2, <2>3, <2>4 DEF ServerAgrees
<1>13. QED  BY <1>1, <1>8, <1>9, <1>10, <1>11, <1>12 DEF Queue

(* A SUBSCRIBE is answered by an array, after the replies to all commands   *)
(* that were issued before it.                                              *)
LEMMA WriteSubscribe ==
    ASSUME IInv, Order, HandleWrite, ~down, NEW n, n = Head(obuf), cmds[n].kind = "subscribe"
    PROVE  Queue' /\ smon' = smon
<1> DEFINE c == cmds[n]
           key == <<c.pv, c.name>>
<1>1. /\ Queue /\ Matching /\ reading' /\ n \in Elems(obuf) /\ n \in Nat \ {0} /\ n = Written + 1
      /\ Written' = n /\ Written \in Int /\ Leaves = {} /\ Pending' = Pending /\ n \in Numbers
      /\ Elems(obuf)' \subseteq Elems(obuf) /\ UNCHANGED <<down, rdr, replies, cmds>>
      /\ Elems(replies) \subseteq Pending /\ Elems(replies)' = Elems(replies)
      /\ Flag("subscribed")' = Flag("subscribed")
      /\ \A m \in Pending : m \in Int /\ (m <= n => m <= Written \/ m = n)
      /\ \A k : InTable(k)' = InTable(k)
      /\ \A m \in Elems(obuf) : m = n \/ m \in Elems(obuf)'
  BY WriteOne
<1>2. PICK count \in Int : /\ sock' = sock \o <<Array("subscribe", c.pv, c.name, count, n)>>
                           /\ ssub' = ssub \cup {key} /\ smon' = smon
  <2>1. Executes(n)
    BY DEF HandleWrite
  <2>2. /\ ssub' = ssub \cup {key} /\ smon' = smon
        /\ sock' = sock \o <<Array("subscribe", c.pv, c.name, Cardinality(ssub'), n)>>
    BY <2>1 DEF Executes, Sends
  <2>3. IsFiniteSet(ssub')
    BY <2>2, FS_AddElement DEF IInv, Wired
  <2>4. Cardinality(ssub') \in Int
    BY <2>3, FS_CardinalityType
  <2>5. QED  BY <2>2, <2>4
<1>3. c.pv \in BOOLEAN /\ c.name \in Keys /\ key \in Subscriptions
  BY <1>1, CallTypes, Basics DEF Subscriptions
<1> DEFINE r == Array("subscribe", c.pv, c.name, count, n)
<1>4. /\ r \in Replies /\ r.type = "array" /\ r.verb = "subscribe" /\ r.name = c.name
      /\ KeyOf(r) = key
  <2>1. "subscribe" \in Verbs
    BY DEF Verbs
  <2>2. r \in Replies
    BY <1>1, <1>3, <2>1, ReplyTypes
  <2>3. QED  BY <2>2 DEF Array, KeyOf
<1> HIDE DEF r
<1>5. W' = W \o <<r>>
  <2>1. <<r>> \in Seq(Replies) /\ Sends(<<r>>)
    BY <1>2, <1>4 DEF Sends, r
  <2>2. QED  BY <1>1, <2>1, SendsQueue
<1> PICK L : L = Len(W')
  OBVIOUS
<1>6. /\ DOMAIN W' = DOMAIN W \cup {L} /\ L \notin DOMAIN W /\ W'[L] = r
      /\ \A i \in DOMAIN W : W'[i] = W[i] /\ i < L
      /\ \A i : /\ i \in Arrays' <=> i \in Arrays \/ i = L
                /\ i \notin Leaves'
      /\ \A m, i : AnsweredBefore(m, i) => AnsweredBefore(m, i)'
      /\ \A m : IsAnswered(m) => IsAnswered(m)' /\ AnsweredBefore(m, L)'
  BY <1>1, <1>4, <1>5, Grows
<1>7. /\ Flag("subscribed") /\ InTable(key) /\ \A m \in Elems(replies) : m < n
      /\ \A m \in Pending : m <= n => m <= Written
  <2>1. Flag("subscribed") /\ \A m \in Elems(replies) : m < n
    BY <1>1 DEF Queue, Unwritten
  <2>2. InTable(key)
    BY <1>1 DEF Queue, Unwritten, KeyOf
  <2>3. n \notin Pending
    BY DEF Order, Listed
  <2>4. QED  BY <1>1, <2>1, <2>2, <2>3
<1>8. Matching'
  <2>1. Written <= Written' /\ Written' \in Int /\ \A m \in Pending : m <= Written' => m <= Written
    BY <1>1, <1>7
  <2>2. \A i \in DOMAIN W' : i \in DOMAIN W \/ W'[i].type = "array"
    BY <1>4, <1>6
  <2>3. QED  BY <1>1, <1>6, <2>1, <2>2, MatchingGrows
<1>9. ArraysDue'
  <2>1. ArraysDue
    BY <1>1 DEF Queue
  <2>2. \A m \in Elems(replies) : AnsweredBefore(m, L)'
    BY <1>1, <1>6, <1>7 DEF Matching
  <2>3. W'[L].name # None /\ KeyOf(W'[L]) = key
    BY <1>3, <1>4, <1>6, AsyncAssumption DEF AsyncAssumption
  <2>4. ASSUME NEW i \in Arrays
        PROVE  /\ W'[i] = W[i] /\ W[i].name # None /\ InTable(KeyOf(W[i]))
               /\ \A m \in Elems(replies) : AnsweredBefore(m, i)'
    BY <1>6, <2>1 DEF ArraysDue, Arrays
  <2>5. QED  BY <1>1, <1>6, <1>7, <2>2, <2>3, <2>4 DEF ArraysDue
<1>10. LeavesLast'
  BY <1>6 DEF LeavesLast
<1>11. Unwritten'
  BY <1>1, <1>6 DEF Queue, Unwritten
<1>12. ServerAgrees'
  <2>1. ServerAgrees
    BY <1>1 DEF Queue
  <2>2. \A k \in ssub' : InTable(k)'
    BY <1>1, <1>2, <1>7, <2>1 DEF ServerAgrees
  <2>3. ASSUME NEW k \in Subscriptions, InTable(k)'
        PROVE  \/ k \in ssub'
               \/ \E m \in Elems(obuf)' : cmds'[m].kind = "subscribe" /\ KeyOf(cmds[m])' = k
    <3>1. \/ k \in ssub
          \/ \E m \in Elems(obuf) : cmds[m].kind = "subscribe" /\ KeyOf(cmds[m]) = k
      BY <1>1, <2>1, <2>3 DEF ServerAgrees
    <3>2. QED  BY <1>1, <1>2, <3>1 DEF KeyOf
  <2>4. \A m \in Elems(replies)' : IsAnswered(m)'
    BY <1>1, <1>6, <1>7 DEF Matching
  <2>5. QED  BY <1>1, <1>6, <1>7, <2>2, <2>3, <2>4 DEF ServerAgrees
<1>13. QED  BY <1>2, <1>8, <1>9, <1>10, <1>11, <1>12 DEF Queue

(* The messages by which the server ends subscriptions: one for each, and   *)
(* the one that says that none is left is the last.                         *)
Farewells(s, n, gone) ==
    /\ \A i \in DOMAIN s : /\ s[i].type = "array" /\ s[i].verb = "unsubscribe"
                           /\ s[i].to = n /\ s[i].name # None
                           /\ KeyOf(s[i]) \in gone
                           /\ s[i].count = 0 => i = Len(s) /\ gone = ssub
    /\ \A i, j \in DOMAIN s : KeyOf(s[i]) = KeyOf(s[j]) => i = j
    /\ \A k \in gone : \E i \in DOMAIN s : KeyOf(s[i]) = k

LEMMA Leaving ==
    ASSUME IInv, NEW n \in Numbers, Executes(n), cmds[n].kind = "unsubscribe",
           NEW gone, gone # {}, gone = EndedBy(cmds[n])
    PROVE  /\ ssub' = ssub \ gone /\ smon' = smon
           /\ \E s \in Seq(Replies) : Sends(s) /\ Farewells(s, n, gone)
<1> DEFINE m == cmds[n]
           total == Cardinality(ssub)
           g == Cardinality(gone)
<1>1. m.pv \in BOOLEAN /\ m.name \in Keys \cup {None} /\ n \in Nat
  BY CallTypes, Basics
<1>2. /\ ssub \subseteq BOOLEAN \X Keys /\ IsFiniteSet(ssub) /\ gone \subseteq ssub
      /\ IsFiniteSet(gone) /\ total \in Nat /\ g \in Nat /\ g <= total
      /\ g = total => gone = ssub
  <2>1. ssub \subseteq BOOLEAN \X Keys /\ IsFiniteSet(ssub) /\ gone \in SUBSET ssub
    BY DEF IInv, Wired, EndedBy
  <2>2. IsFiniteSet(gone) /\ g <= total /\ (g = total => gone = ssub)
    BY <2>1, FS_Subset
  <2>3. QED  BY <2>1, <2>2, FS_CardinalityType
<1>3. \A k \in gone : k = <<m.pv, k[2]>> /\ k[2] \in Keys
  <2>1. ASSUME NEW k \in gone PROVE k = <<m.pv, k[2]>> /\ k[2] \in Keys
    <3>1. k \in BOOLEAN \X Keys /\ k[1] = m.pv
      BY <1>2 DEF EndedBy, KeyOf
    <3>2. QED  BY <3>1
  <2>2. QED  BY <2>1
<1>4. Unsubscribes(n, gone) /\ smon' = smon
  BY DEF Executes, EndedBy, KeyOf
<1>5. PICK f \in [1 .. g -> gone] :
        /\ \A k \in gone : \E i \in DOMAIN f : f[i] = k
        /\ Sends([i \in DOMAIN f |-> Array("unsubscribe", m.pv, f[i][2], total - i, n)])
  BY <1>4 DEF Unsubscribes
<1> DEFINE s == [i \in DOMAIN f |-> Array("unsubscribe", m.pv, f[i][2], total - i, n)]
<1>6. DOMAIN s = 1 .. g /\ DOMAIN f = 1 .. g
  OBVIOUS
<1>7. ASSUME NEW i \in 1 .. g
      PROVE  /\ s[i] \in Replies /\ s[i].type = "array" /\ s[i].verb = "unsubscribe"
             /\ s[i].to = n /\ s[i].name # None /\ KeyOf(s[i]) = f[i] /\ f[i] \in gone
             /\ s[i].count = total - i
  <2>1. f[i] \in gone /\ f[i] = <<m.pv, f[i][2]>> /\ f[i][2] \in Keys /\ total - i \in Int
    BY <1>2, <1>3
  <2>2. s[i] = Array("unsubscribe", m.pv, f[i][2], total - i, n)
    BY <1>6
  <2> HIDE DEF s
  <2>3. "unsubscribe" \in Verbs /\ f[i][2] \in Keys \cup {None} /\ f[i][2] # None
    BY <2>1, AsyncAssumption DEF Verbs, AsyncAssumption
  <2>4. s[i] \in Replies
    BY <1>1, <2>1, <2>2, <2>3, ReplyTypes
  <2>5. QED  BY <2>1, <2>2, <2>3, <2>4 DEF Array, KeyOf
<1>8. s \in Seq(Replies) /\ Len(s) = g
  <2>1. s = [i \in 1 .. g |-> s[i]]
    BY <1>6
  <2>2. g \in Nat /\ \A i \in 1 .. g : s[i] \in Replies
    BY <1>2, <1>7
  <2> HIDE DEF s, g
  <2>3. s \in [1 .. g -> Replies]
    BY <2>1, <2>2
  <2>4. QED  BY <2>2, <2>3
<1>9. ASSUME NEW i \in 1 .. g, NEW j \in 1 .. g, f[i] = f[j] PROVE i = j
  <2>1. IsFiniteSet(1 .. g) /\ Cardinality(1 .. g) = g
    BY <1>2, FS_Interval
  <2>2. f \in Surjection(1 .. g, gone)
    BY <1>5, <1>6, Fun_IsSurj
  <2>3. f \in Injection(1 .. g, gone)
    BY <2>1, <2>2, FS_SurjSameCardinalityImpliesInj
  <2>4. \A a, b \in 1 .. g : f[a] = f[b] => a = b
    BY <2>3 DEF Injection, IsInjective
  <2>5. QED  BY <1>9, <2>4
<1>10. ASSUME NEW i \in 1 .. g, s[i].count = 0 PROVE i = Len(s) /\ gone = ssub
  <2>1. total - i = 0
    BY <1>7, <1>10
  <2>2. QED  BY <1>2, <1>8, <2>1
<1>11. Sends(s)
  BY <1>5
<1>12. ssub' = ssub \ gone
  BY <1>4 DEF Unsubscribes
<1>13. Farewells(s, n, gone)
  <2> HIDE DEF s, g, total
  <2>1. DOMAIN s = 1 .. g /\ DOMAIN f = 1 .. g /\ \A i \in 1 .. g : KeyOf(s[i]) = f[i]
    BY <1>6, <1>7
  <2>2. \A i \in DOMAIN s : /\ s[i].type = "array" /\ s[i].verb = "unsubscribe"
                           /\ s[i].to = n /\ s[i].name # None /\ KeyOf(s[i]) \in gone
    BY <1>6, <1>7
  <2>3. \A i \in DOMAIN s : s[i].count = 0 => i = Len(s) /\ gone = ssub
    BY <1>10, <2>1
  <2>4. \A i, j \in DOMAIN s : KeyOf(s[i]) = KeyOf(s[j]) => i = j
    BY <1>9, <2>1
  <2>5. \A k \in gone : \E i \in DOMAIN s : KeyOf(s[i]) = k
    BY <1>5, <2>1
  <2>6. QED  BY <2>2, <2>3, <2>4, <2>5 DEF Farewells
<1> HIDE DEF s
<1>14. QED  BY <1>4, <1>8, <1>11, <1>12, <1>13

(* The server sends several replies. *)
LEMMA GrowsBy ==
    ASSUME IInv, NEW s \in Seq(Replies), W' = W \o s
    PROVE  /\ Len(W') = Len(W) + Len(s) /\ Len(W) \in Nat /\ Len(s) \in Nat
           /\ \A i \in DOMAIN W : i \in DOMAIN W' /\ W'[i] = W[i] /\ i \in Int
           /\ \A i \in DOMAIN W' :
                \/ i \in DOMAIN W
                \/ /\ i \in Int /\ i - Len(W) \in DOMAIN s /\ W'[i] = s[i - Len(W)]
                   /\ \A j \in DOMAIN W : j < i
           /\ \A j \in DOMAIN s : Len(W) + j \in DOMAIN W' /\ W'[Len(W) + j] = s[j]
           /\ \A m, i : AnsweredBefore(m, i) => AnsweredBefore(m, i)'
           /\ \A m : IsAnswered(m) => /\ IsAnswered(m)'
                                      /\ \A i \in DOMAIN W' : i \in DOMAIN W \/ AnsweredBefore(m, i)'
<1>1. W \in Seq(Replies) /\ Len(W) \in Nat /\ DOMAIN W = 1 .. Len(W)
      /\ Len(s) \in Nat /\ DOMAIN s = 1 .. Len(s)
  BY Basics
<1>2. /\ W' \in Seq(Replies) /\ Len(W') = Len(W) + Len(s) /\ DOMAIN W' = 1 .. Len(W) + Len(s)
      /\ \A i \in 1 .. Len(W) + Len(s) : W'[i] = IF i <= Len(W) THEN W[i] ELSE s[i - Len(W)]
  BY <1>1, ConcatProperties
<1>3. \A i \in DOMAIN W : i \in DOMAIN W' /\ W'[i] = W[i] /\ i \in Int
  BY <1>1, <1>2
<1>4. ASSUME NEW i \in DOMAIN W', i \notin DOMAIN W
      PROVE  /\ i \in Int /\ i - Len(W) \in DOMAIN s /\ W'[i] = s[i - Len(W)]
             /\ \A j \in DOMAIN W : j < i
  <2>1. i \in 1 .. Len(W) + Len(s) /\ ~(i <= Len(W))
    BY <1>1, <1>2, <1>4
  <2>2. i - Len(W) \in 1 .. Len(s)
    BY <1>1, <2>1
  <2>3. QED  BY <1>1, <1>2, <2>1, <2>2
<1>5. ASSUME NEW j \in DOMAIN s PROVE Len(W) + j \in DOMAIN W' /\ W'[Len(W) + j] = s[j]
  <2>1. Len(W) + j \in 1 .. Len(W) + Len(s) /\ ~(Len(W) + j <= Len(W)) /\ (Len(W) + j) - Len(W) = j
    BY <1>1
  <2>2. W'[Len(W) + j] = s[(Len(W) + j) - Len(W)]
    BY <1>2, <2>1
  <2>3. QED  BY <1>2, <2>1, <2>2
<1>6. \A i \in Answers : i \in Answers' /\ W'[i].to = W[i].to /\ i \in DOMAIN W
  BY <1>3 DEF Answers
<1>7. \A m, i : AnsweredBefore(m, i) => AnsweredBefore(m, i)'
  BY <1>6 DEF AnsweredBefore
<1>8. ASSUME NEW m, IsAnswered(m)
      PROVE  /\ IsAnswered(m)'
             /\ \A i \in DOMAIN W' : i \in DOMAIN W \/ AnsweredBefore(m, i)'
  BY <1>4, <1>6, <1>8 DEF AnsweredBefore, IsAnswered
<1>9. QED  BY <1>1, <1>2, <1>3, <1>4, <1>5, <1>7, <1>8

(* An UNSUBSCRIBE is the last command there is; the subscriptions it ends   *)
(* are told apart by their messages.                                        *)
LEMMA WriteUnsubscribe ==
    ASSUME IInv, Order, HandleWrite, ~down, NEW n, n = Head(obuf), cmds[n].kind = "unsubscribe"
    PROVE  Queue' /\ smon' = smon
<1> DEFINE c == cmds[n]
<1>1. /\ Queue /\ Matching /\ reading' /\ n \in Elems(obuf) /\ n \in Nat \ {0} /\ n = Written + 1
      /\ Written' = n /\ Written \in Int /\ Leaves = {} /\ Pending' = Pending /\ n \in Numbers
      /\ Elems(obuf)' \subseteq Elems(obuf) /\ UNCHANGED <<down, rdr, replies, cmds>>
      /\ Elems(replies) \subseteq Pending /\ Elems(replies)' = Elems(replies)
      /\ Flag("subscribed")' = Flag("subscribed")
      /\ Elems(obuf)' = {m \in Numbers : n < m} /\ Pending \subseteq Numbers /\ Numbers' = Numbers
      /\ \A m \in Pending : m \in Int /\ (m <= n => m <= Written \/ m = n)
      /\ \A k : InTable(k)' = InTable(k)
      /\ \A m \in Elems(obuf) : m = n \/ m \in Elems(obuf)'
  BY WriteOne
<1>2. /\ n = Len(cmds) /\ Flag("subscribed")
      /\ \E k \in Subscriptions : /\ InTable(k) /\ k[1] = c.pv /\ c.name \in {None, k[2]}
  BY <1>1 DEF Queue, Unwritten
<1>3. Elems(obuf)' = {} /\ Elems(obuf) = {n} /\ \A m \in Pending : m <= Written
  <2>1. \A m \in Numbers : ~(n < m)
    BY <1>1, <1>2 DEF Numbers
  <2>2. Elems(obuf)' = {}
    BY <1>1, <2>1
  <2>3. n \notin Pending
    BY DEF Order, Listed
  <2>4. \A m \in Pending : m <= Written
    <3>1. ASSUME NEW m \in Pending PROVE m <= n
      BY <1>1, <2>1
    <3>2. QED  BY <1>1, <2>3, <3>1
  <2>5. Elems(obuf) = {n}
    BY <1>1, <2>2
  <2>6. QED  BY <2>2, <2>4, <2>5
<1>4. obuf' = <<>>
  <2>1. obuf \in Seq(Int) /\ obuf # <<>> /\ obuf' = Tail(obuf)
    BY Basics DEF HandleWrite
  <2>2. Elems(obuf') = {}
    BY <1>3 DEF Elems
  <2>3. obuf' \in Seq(Int)
    BY <2>1
  <2>4. QED  BY <2>2, <2>3, ElemsType
<1> PICK gone : gone = EndedBy(c)
  OBVIOUS
<1>5. gone # {} /\ gone \subseteq ssub /\ ssub \subseteq Subscriptions
  <2>1. PICK k \in Subscriptions : /\ InTable(k) /\ k[1] = c.pv /\ c.name \in {None, k[2]}
    BY <1>2
  <2>2. ~(\E m \in Elems(obuf) : cmds[m].kind = "subscribe")
    BY <1>3
  <2>3. k \in ssub
    BY <1>1, <2>1, <2>2 DEF Queue, ServerAgrees
  <2>4. k = <<k[1], k[2]>>
    BY DEF Subscriptions
  <2>5. k \in gone
    BY <2>1, <2>3, <2>4 DEF EndedBy, KeyOf
  <2>6. QED  BY <2>5 DEF IInv, Wired, Subscriptions, EndedBy
<1>6. Executes(n)
  BY DEF HandleWrite
<1>7. ssub' = ssub \ gone /\ smon' = smon
  BY <1>1, <1>5, <1>6, Leaving
<1>8. PICK s \in Seq(Replies) : Sends(s) /\ Farewells(s, n, gone)
  BY <1>1, <1>5, <1>6, Leaving
<1>9. W' = W \o s
  BY <1>1, <1>8, SendsQueue
<1>10. /\ \A i \in DOMAIN W : i \in DOMAIN W' /\ W'[i] = W[i] /\ i \in Int
       /\ \A m, i : AnsweredBefore(m, i) => AnsweredBefore(m, i)'
       /\ \A m : IsAnswered(m) => /\ IsAnswered(m)'
                                  /\ \A i \in DOMAIN W' : i \in DOMAIN W \/ AnsweredBefore(m, i)'
  BY <1>9, GrowsBy
<1>11. /\ \A i \in DOMAIN W' :
            \/ i \in DOMAIN W
            \/ /\ i \in Int /\ i - Len(W) \in DOMAIN s /\ W'[i] = s[i - Len(W)]
               /\ \A j \in DOMAIN W : j < i
       /\ \A j \in DOMAIN s : Len(W) + j \in DOMAIN W' /\ W'[Len(W) + j] = s[j]
       /\ Len(W') = Len(W) + Len(s) /\ Len(W) \in Nat /\ Len(s) \in Nat
  BY <1>9, GrowsBy
<1>12. ASSUME NEW i \in DOMAIN W', i \notin DOMAIN W
       PROVE  /\ W'[i].type = "array" /\ W'[i].verb = "unsubscribe" /\ W'[i].to = n
              /\ W'[i].name # None /\ KeyOf(W'[i]) \in gone
              /\ W'[i].count = 0 => i = Len(W') /\ ssub' = {}
              /\ \A j \in DOMAIN W' : j \notin DOMAIN W /\ KeyOf(W'[j]) = KeyOf(W'[i]) => j = i
  <2>1. /\ i \in Int /\ i - Len(W) \in DOMAIN s /\ W'[i] = s[i - Len(W)]
    BY <1>11, <1>12
  <2>2. ASSUME W'[i].count = 0 PROVE i = Len(W') /\ ssub' = {}
    <3>1. i - Len(W) = Len(s) /\ gone = ssub
      BY <1>8, <2>1, <2>2 DEF Farewells
    <3>2. QED  BY <1>7, <1>11, <2>1, <3>1
  <2>3. ASSUME NEW j \in DOMAIN W', j \notin DOMAIN W, KeyOf(W'[j]) = KeyOf(W'[i]) PROVE j = i
    <3>1. j \in Int /\ j - Len(W) \in DOMAIN s /\ W'[j] = s[j - Len(W)]
      BY <1>11, <2>3
    <3>2. j - Len(W) = i - Len(W)
      BY <1>8, <2>1, <2>3, <3>1 DEF Farewells
    <3>3. QED  BY <1>11, <2>1, <3>1, <3>2
  <2>4. QED  BY <1>8, <2>1, <2>2, <2>3 DEF Farewells
<1>13. /\ \A j \in Leaves' : j \in DOMAIN W' /\ j \notin DOMAIN W
       /\ \A j \in DOMAIN W' : j \notin DOMAIN W => j \in Leaves' /\ j \in Arrays'
       /\ \A j \in Arrays' : j \in DOMAIN W' /\ (j \in DOMAIN W => j \in Arrays)
  <2>1. ASSUME NEW j \in Leaves' PROVE j \in DOMAIN W' /\ j \notin DOMAIN W
    BY <1>1, <1>10, <2>1 DEF Leaves, Arrays
  <2>2. \A j \in DOMAIN W' : j \notin DOMAIN W => j \in Leaves' /\ j \in Arrays'
    BY <1>12 DEF Leaves, Arrays
  <2>3. \A j \in Arrays' : j \in DOMAIN W' /\ (j \in DOMAIN W => j \in Arrays)
    BY <1>10 DEF Arrays
  <2>4. QED  BY <2>1, <2>2, <2>3
<1>14. Matching'
  <2>1. Written <= Written' /\ Written' \in Int /\ \A m \in Pending : m <= Written' => m <= Written
    BY <1>1, <1>3
  <2>2. \A i \in DOMAIN W' : i \in DOMAIN W \/ W'[i].type = "array"
    BY <1>12
  <2>3. QED  BY <1>1, <1>10, <2>1, <2>2, MatchingGrows
<1>15. \A m \in Pending : IsAnswered(m)
  BY <1>1, <1>3 DEF Matching
<1>16. ArraysDue'
  <2>1. ASSUME NEW i \in Arrays'
        PROVE  /\ W'[i].name # None /\ InTable(KeyOf(W'[i]))
               /\ \A j \in Leaves' : j < i => KeyOf(W'[j]) # KeyOf(W'[i])
               /\ \A m \in Elems(replies) : AnsweredBefore(m, i)'
    <3>1. CASE i \in DOMAIN W
      <4>1. /\ i \in Arrays /\ W'[i] = W[i] /\ i \in Int
            /\ \A j \in Leaves' : j \in Int /\ i < j
        BY <1>10, <1>11, <1>13, <3>1
      <4>2. \A j \in Leaves' : ~(j < i)
        BY <4>1
      <4>3. QED  BY <1>1, <1>10, <4>1, <4>2 DEF Queue, ArraysDue
    <3>2. CASE i \notin DOMAIN W
      <4>1. W'[i].name # None /\ KeyOf(W'[i]) \in ssub /\ i \in DOMAIN W'
        BY <1>5, <1>12, <1>13, <3>2
      <4>2. InTable(KeyOf(W'[i]))
        BY <1>1, <4>1 DEF Queue, ServerAgrees
      <4>3. ASSUME NEW j \in Leaves', j < i PROVE KeyOf(W'[j]) # KeyOf(W'[i])
        <5>1. j # i
          BY <1>11, <3>2, <4>1, <4>3
        <5>2. QED  BY <1>12, <1>13, <3>2, <4>1, <5>1
      <4>4. \A m \in Elems(replies) : AnsweredBefore(m, i)'
        BY <1>1, <1>10, <1>15, <3>2, <4>1
      <4>5. QED  BY <4>1, <4>2, <4>3, <4>4
    <3>3. QED  BY <3>1, <3>2
  <2>2. QED  BY <1>1, <1>2, <2>1 DEF ArraysDue
<1>17. LeavesLast'
  <2>1. \A i \in Leaves' : /\ W'[i].to \in Numbers' /\ cmds'[W'[i].to].kind = "unsubscribe"
                           /\ W'[i].count = 0 => i = Len(W') /\ ssub' = {}
    BY <1>1, <1>12, <1>13
  <2>2. \A m \in Pending' : IsAnswered(m)'
    BY <1>1, <1>10, <1>15
  <2>3. QED  BY <1>4, <2>1, <2>2 DEF LeavesLast
<1>18. Unwritten'
  BY <1>3 DEF Unwritten
<1>19. ServerAgrees'
  <2>1. ServerAgrees
    BY <1>1 DEF Queue
  <2>2. ASSUME NEW k \in ssub' PROVE InTable(k)' /\ \A i \in Leaves' : KeyOf(W'[i]) # k
    <3>1. k \in ssub /\ k \notin gone
      BY <1>7
    <3>2. QED  BY <1>1, <1>12, <1>13, <2>1, <3>1 DEF ServerAgrees
  <2>3. ASSUME NEW k \in Subscriptions, InTable(k)'
        PROVE  k \in ssub' \/ \E i \in Leaves' : KeyOf(W'[i]) = k
    <3>1. k \in ssub
      <4>1. ~(\E m \in Elems(obuf) : cmds[m].kind = "subscribe")
        BY <1>3
      <4>2. QED  BY <1>1, <2>1, <2>3, <4>1 DEF ServerAgrees
    <3>2. CASE k \in gone
      <4>1. PICK j \in DOMAIN s : KeyOf(s[j]) = k
        BY <1>8, <3>2 DEF Farewells
      <4>2. Len(W) + j \in DOMAIN W' /\ KeyOf(W'[Len(W) + j]) = k
        BY <1>11, <4>1
      <4>3. Len(W) + j \notin DOMAIN W
        <5>1. Len(W) \in Nat /\ DOMAIN W = 1 .. Len(W)
          BY Basics
        <5>2. j \in 1 .. Len(s) /\ Len(s) \in Nat
          BY <1>11
        <5>3. QED  BY <5>1, <5>2
      <4>4. QED  BY <1>13, <4>2, <4>3
    <3>3. CASE k \notin gone
      BY <1>7, <3>1, <3>3
    <3>4. QED  BY <3>2, <3>3
  <2>4. \A m \in Elems(replies)' : IsAnswered(m)'
    BY <1>1, <1>10, <1>15
  <2>5. QED  BY <1>1, <1>2, <2>2, <2>3, <2>4 DEF ServerAgrees, KeyOf
<1>20. QED  BY <1>7, <1>14, <1>16, <1>17, <1>18, <1>19 DEF Queue

LEMMA HandleWriteOrder ==
    ASSUME IInv, Order, HandleWrite
    PROVE  Order'
<1> PICK n : n = Head(obuf)
  OBVIOUS
<1>1. /\ UNCHANGED <<mode, err, replies, invalid, subs, history>> /\ cmds' = cmds
      /\ Running /\ n \in Numbers /\ Pending' = Pending /\ Numbers' = Numbers
      /\ \A i \in DOMAIN obuf' : obuf'[i] = Written' + i
      /\ Flag("subscribed")' = Flag("subscribed") /\ Flag("freeing")' = Flag("freeing")
      /\ Flag("disconnecting")' = Flag("disconnecting")
  BY WriteOne
<1>2. Queue' /\ smon' = smon
  <2>1. CASE down
    <3>1. smon' = smon
      BY <2>1 DEF HandleWrite
    <3>2. QED  BY <2>1, <3>1, WriteLost
  <2>2. CASE ~down
    <3>1. cmds[n].kind \in {"command", "subscribe", "unsubscribe"}
      BY <1>1, CallTypes, Basics DEF Order, Listed
    <3>2. QED  BY <2>2, <3>1, WriteCommand, WriteSubscribe, WriteUnsubscribe
  <2>3. QED  BY <2>1, <2>2
<1>3. Listed'
  <2>1. /\ Elems(replies)' = Elems(replies) /\ Elems(invalid)' = Elems(invalid)
        /\ Increasing(replies)' = Increasing(replies) /\ Increasing(invalid)' = Increasing(invalid)
    BY <1>1 DEF Elems, Increasing
  <2>2. QED  BY <1>1, <1>2, <2>1 DEF Order, Listed
<1>4. Accounted'
  BY <1>1 DEF Order, Accounted, Plain, history
<1>5. Invalid'
  <2>1. Elems(invalid)' = Elems(invalid) /\ Running'
    BY <1>1 DEF Elems, Running
  <2>2. QED  BY <1>1, <2>1 DEF Order, Invalid
<1>6. Clean'
  <2>1. BeforeSubscribing' = BeforeSubscribing
    BY <1>1 DEF BeforeSubscribing, Plain
  <2>2. mode \notin {"teardown", "freed", "aborted", "undefined"}
    BY <1>1 DEF Running
  <2>3. QED  BY <1>1, <2>1, <2>2 DEF Order, Clean, Running, history
<1>7. QED  BY <1>2, <1>3, <1>4, <1>5, <1>6 DEF Order

LEMMA WriteOrder ==
    ASSUME IInv, Order, Write
    PROVE  Order'
<1>1. CASE ConnectFails \/ WriteFails
  BY <1>1, ErrorOrder DEF ConnectFails, WriteFails, DisconnectOnError, Running, events
<1>2. CASE HandleWriteNone
  <2>1. /\ mode = "loop" /\ flags' = flags \cup {"connected"} /\ reading'
        /\ UNCHANGED <<mode, err, replies, invalid, subs, cb, rdr, obuf, server, history>>
    BY <1>2 DEF HandleWriteNone, WriteEvent, Rescheduled
  <2>2. Pending' = Pending /\ BeforeSubscribing' = BeforeSubscribing
    BY <2>1 DEF Pending, BeforeSubscribing, Plain, Numbers, history
  <2>3. Clean'
    BY <2>1, <2>2 DEF Order, Clean, Running, Flag, history
  <2>4. QED  BY <2>1, <2>3, Quiet DEF W, Running, Flag, server, history
<1>3. QED  BY <1>1, <1>2, HandleWriteOrder DEF Write

-----------------------------------------------------------------------------
(* The read event moves replies from the socket to the reader. *)
LEMMA ReadOrder ==
    ASSUME IInv, Order, HandleRead \/ ReadFails
    PROVE  Order'
<1>1. CASE ReadFails
  BY <1>1, ErrorOrder DEF ReadFails, ReadEvent, DisconnectOnError, Running, events
<1>2. CASE HandleRead
  <2>1. PICK n \in 0 .. Len(sock) :
          rdr' = SubSeq(sock, 1, n) /\ sock' = SubSeq(sock, n + 1, Len(sock))
    BY <1>2 DEF HandleRead
  <2>2. /\ mode = "loop" /\ mode' = "process" /\ reading'
        /\ UNCHANGED <<flags, err, replies, invalid, subs, obuf, ssub, smon, down, history>>
    BY <1>2 DEF HandleRead, ReadEvent
  <2>3. W' = W
    <3>1. rdr = <<>> /\ sock \in Seq(Replies) /\ Len(sock) \in Nat
      BY <2>2 DEF IInv, TypeOK, Wired
    <3>2. W = sock
      BY <3>1, ConcatEmptySeq DEF W
    <3>3. SubSeq(sock, 1, n) \o SubSeq(sock, n + 1, Len(sock)) = SubSeq(sock, 1, Len(sock))
      <4>1. 1 \in 1 .. Len(sock) + 1 /\ n \in 1 - 1 .. Len(sock) /\ Len(sock) \in n .. Len(sock)
        BY <2>1, <3>1
      <4>2. QED  BY <3>1, <4>1, ConcatAdjacentSubSeq
    <3>4. SubSeq(sock, 1, Len(sock)) = sock
      BY <3>1, SubSeqFull
    <3>5. QED  BY <2>1, <3>2, <3>3, <3>4 DEF W
  <2>4. Pending' = Pending /\ BeforeSubscribing' = BeforeSubscribing
    BY <2>2 DEF Pending, BeforeSubscribing, Plain, Numbers, history
  <2>5. Clean'
    BY <2>2, <2>4 DEF Order, Clean, Running, Flag, history
  <2>6. QED  BY <2>2, <2>3, <2>5, Quiet DEF Running, Flag, history
<1>3. QED  BY <1>1, <1>2

-----------------------------------------------------------------------------
(* redisProcessCallbacks takes the first reply. *)
LEMMA Front ==
    ASSUME IInv, Order, Processing
    PROVE  /\ Running /\ Queue /\ W # <<>> /\ 1 \in DOMAIN W /\ W[1] = Head(rdr)
           /\ Tail(rdr) \o sock = Tail(W)
           /\ Head(rdr) \in Replies /\ Head(rdr).to \in Nat
<1>1. mode = "process" /\ rdr # <<>> /\ rdr \in Seq(Replies) /\ sock \in Seq(Replies)
  BY DEF Processing, IInv, Wired
<1>2. Running /\ Queue
  BY <1>1 DEF Running, Order
<1>3. /\ Len(rdr) \in Nat \ {0} /\ Len(sock) \in Nat /\ Head(rdr) = rdr[1] /\ Head(rdr) \in Replies
      /\ Tail(rdr) \in Seq(Replies) /\ Len(Tail(rdr)) = Len(rdr) - 1
      /\ \A i \in 1 .. Len(rdr) - 1 : Tail(rdr)[i] = rdr[i + 1]
  BY <1>1
<1>4. /\ W \in Seq(Replies) /\ Len(W) = Len(rdr) + Len(sock)
      /\ \A i \in 1 .. Len(rdr) + Len(sock) : W[i] = IF i <= Len(rdr) THEN rdr[i] ELSE sock[i - Len(rdr)]
  BY <1>1, ConcatProperties DEF W
<1>5. W # <<>> /\ 1 \in DOMAIN W /\ W[1] = Head(rdr)
  <2>1. 1 \in 1 .. Len(rdr) + Len(sock) /\ 1 <= Len(rdr)
    BY <1>3
  <2>2. W[1] = rdr[1] /\ 1 \in DOMAIN W
    BY <1>4, <2>1
  <2>3. QED  BY <1>3, <2>2
<1>6. Tail(rdr) \o sock = Tail(W)
  <2> DEFINE s == Tail(rdr) \o sock
             t == Tail(W)
             k == Len(rdr) - 1
  <2>1. /\ s \in Seq(Replies) /\ Len(s) = k + Len(sock)
        /\ \A i \in 1 .. k + Len(sock) : s[i] = IF i <= k THEN Tail(rdr)[i] ELSE sock[i - k]
    BY <1>1, <1>3, ConcatProperties
  <2>2. /\ t \in Seq(Replies) /\ Len(t) = Len(W) - 1 /\ \A i \in 1 .. Len(W) - 1 : t[i] = W[i + 1]
    BY <1>4, <1>5
  <2> HIDE DEF s, t
  <2>3. ASSUME NEW i \in 1 .. k + Len(sock) PROVE s[i] = t[i]
    <3>1. i \in 1 .. Len(W) - 1 /\ t[i] = W[i + 1] /\ i + 1 \in 1 .. Len(rdr) + Len(sock)
      BY <1>3, <1>4, <2>2
    <3>2. CASE i <= k
      <4>1. i + 1 <= Len(rdr) /\ i \in 1 .. Len(rdr) - 1
        BY <1>3, <3>2
      <4>2. s[i] = rdr[i + 1] /\ W[i + 1] = rdr[i + 1]
        BY <1>3, <1>4, <2>1, <3>1, <3>2, <4>1
      <4>3. QED  BY <3>1, <4>2
    <3>3. CASE ~(i <= k)
      <4>1. ~(i + 1 <= Len(rdr)) /\ (i + 1) - Len(rdr) = i - k
        BY <1>3, <3>3
      <4>2. s[i] = sock[i - k]
        BY <2>1, <3>3
      <4>3. W[i + 1] = sock[(i + 1) - Len(rdr)]
        BY <1>4, <3>1, <4>1
      <4>4. QED  BY <3>1, <4>1, <4>2, <4>3
    <3>4. QED  BY <3>2, <3>3
  <2>4. Len(s) = Len(t)
    BY <1>3, <1>4, <2>1, <2>2
  <2>5. s = t
    BY <2>1, <2>2, <2>3, <2>4, SeqEqual
  <2>6. QED  BY <2>5 DEF s, t
<1>7. Head(rdr).to \in Nat
  BY <1>3 DEF Replies
<1>8. QED  BY <1>2, <1>3, <1>5, <1>6, <1>7

(* The answer to the oldest command is processed, or an array. *)
LEMMA DropMatching ==
    ASSUME IInv, Listed, Matching, W # <<>>, W' = Tail(W),
           UNCHANGED <<obuf, cmds, down, reading>>, W[1].type = "array" \/ W[1].to # 0,
           \A m : m \in Pending' <=> m \in Pending /\ ~(1 \in Answers /\ W[1].to = m)
    PROVE  Matching'
<1>1. /\ 1 \in DOMAIN W
      /\ \A i \in DOMAIN W' : i + 1 \in DOMAIN W /\ 1 < i + 1 /\ W'[i] = W[i + 1]
      /\ \A i \in Answers' : i \in DOMAIN W' /\ i + 1 \in Answers
  BY Drops
<1>2. /\ \A m, i : i \in DOMAIN W' /\ AnsweredBefore(m, i + 1) /\ ~(1 \in Answers /\ W[1].to = m)
                     => AnsweredBefore(m, i)'
      /\ \A m : IsAnswered(m) /\ ~(1 \in Answers /\ W[1].to = m) => IsAnswered(m)'
  BY Drops
<1>3. Written' = Written /\ Elems(obuf)' = Elems(obuf)
  BY DEF Written, Elems
<1>4. ASSUME NEW i \in Answers'
      PROVE  /\ i \in DOMAIN W' /\ i \in Int /\ i + 1 \in Answers /\ W'[i] = W[i + 1]
             /\ W[i + 1].to \in Pending /\ W[i + 1].to <= Written
             /\ ~(1 \in Answers /\ W[1].to = W[i + 1].to)
  <2>1. i \in DOMAIN W' /\ i + 1 \in Answers /\ W'[i] = W[i + 1] /\ 1 < i + 1
    BY <1>1
  <2>2. i \in Int
    <3>1. W \in Seq(Replies) /\ W # <<>>
      BY Basics
    <3>2. DOMAIN W' = 1 .. Len(W) - 1 /\ Len(W) \in Nat
      BY <3>1
    <3>3. QED  BY <2>1, <3>2
  <2>3. i + 1 # 1
    BY <2>1, <2>2
  <2>4. QED  BY <2>1, <2>2, <2>3 DEF Matching
<1>5. \A i \in Answers' : W'[i].to \in Pending' /\ W'[i].to <= Written'
  BY <1>3, <1>4
<1>6. ASSUME NEW i \in Answers', NEW j \in Answers', W'[i].to = W'[j].to PROVE i = j
  <2>1. i + 1 = j + 1
    BY <1>4, <1>6 DEF Matching
  <2>2. QED  BY <1>4, <2>1
<1>7. ASSUME NEW i \in Answers', NEW m \in Pending', m < W'[i].to PROVE AnsweredBefore(m, i)'
  <2>1. m \in Pending /\ ~(1 \in Answers /\ W[1].to = m) /\ AnsweredBefore(m, i + 1)
    BY <1>4, <1>7 DEF Matching
  <2>2. QED  BY <1>2, <1>4, <2>1
<1>8. ASSUME ~down, NEW m \in Pending', m <= Written' PROVE IsAnswered(m)'
  BY <1>2, <1>3, <1>8 DEF Matching
<1>9. ASSUME ~down, NEW m \in Elems(obuf)', cmds'[m].kind = "command" PROVE m \in Pending'
  <2>1. m \in Elems(obuf) /\ m \in Pending
    BY <1>3, <1>9 DEF Matching
  <2>2. m \in Numbers /\ Written < m /\ Written \in Int /\ m \in Int
    BY <2>1, Unsent, Basics
  <2>3. 1 \in Answers => W[1].to <= Written /\ W[1].to \in Int
    BY <1>1, ReplyFields DEF Matching
  <2>4. ~(1 \in Answers /\ W[1].to = m)
    BY <2>2, <2>3
  <2>5. QED  BY <2>1, <2>4
<1>10. ASSUME NEW i \in DOMAIN W' PROVE ~(W'[i].type # "array" /\ W'[i].to = 0)
  <2>1. SUFFICES ASSUME W'[i].type # "array", W'[i].to = 0 PROVE FALSE
    OBVIOUS
  <2>2. i + 1 \in DOMAIN W /\ 1 < i + 1 /\ W[i + 1].type # "array" /\ W[i + 1].to = 0
    BY <1>1, <2>1
  <2>3. Len(W) = 1
    BY <2>2 DEF Matching
  <2>4. DOMAIN W = 1 .. Len(W)
    BY Basics
  <2>5. QED  BY <2>2, <2>3, <2>4
<1>11. ~reading' /\ ~down' => FALSE
  BY DEF Matching
<1>12. QED  BY <1>3, <1>5, <1>6, <1>7, <1>8, <1>9, <1>10, <1>11 DEF Matching

(* What else is known of the queue when its head is processed: the message  *)
(* that a subscription is gone takes it from the table, and the last such   *)
(* message ends the subscribed state.                                       *)
LEMMA DropQueue ==
    ASSUME IInv, Queue, Matching', W # <<>>, W' = Tail(W),
           UNCHANGED <<obuf, cmds, ssub, down>>,
           \A m \in Pending' : m \in Pending /\ ~(1 \in Answers /\ W[1].to = m),
           Elems(replies)' \subseteq Elems(replies),
           \A k \in Subscriptions :
               InTable(k)' <=> InTable(k) /\ ~(1 \in Leaves /\ k = KeyOf(W[1])),
           Flag("subscribed")' <=> Flag("subscribed") /\ ~(1 \in Leaves /\ W[1].count = 0)
    PROVE  Queue'
<1>1. /\ Len(W) \in Nat \ {0} /\ Len(W') = Len(W) - 1 /\ 1 \in DOMAIN W
      /\ \A i \in DOMAIN W' : i + 1 \in DOMAIN W /\ 1 < i + 1 /\ W'[i] = W[i + 1]
      /\ \A i \in Arrays' : i \in DOMAIN W' /\ i + 1 \in Arrays
      /\ \A i \in Leaves' : i \in DOMAIN W' /\ i + 1 \in Leaves
      /\ \A i \in Leaves : i = 1 \/ (i - 1 \in Leaves' /\ W'[i - 1] = W[i])
  BY Drops
<1>2. /\ \A n, i : i \in DOMAIN W' /\ AnsweredBefore(n, i + 1) /\ ~(1 \in Answers /\ W[1].to = n)
                     => AnsweredBefore(n, i)'
      /\ \A n : IsAnswered(n) /\ ~(1 \in Answers /\ W[1].to = n) => IsAnswered(n)'
  BY Drops
<1>3. /\ Matching /\ ArraysDue /\ LeavesLast /\ Unwritten /\ ServerAgrees
  BY DEF Queue
<1>4. /\ Numbers' = Numbers /\ Written' = Written /\ Elems(obuf)' = Elems(obuf)
      /\ Elems(replies)' \subseteq Pending' /\ DOMAIN W = 1 .. Len(W) /\ DOMAIN W' \subseteq Int
  <2>1. W \in Seq(Replies)
    BY Basics
  <2>2. DOMAIN W = 1 .. Len(W) /\ DOMAIN W' = 1 .. Len(W) - 1
    BY <1>1, <2>1
  <2>3. QED  BY <1>1, <2>2 DEF Numbers, Written, Elems, Pending
<1>5. \A i \in Arrays : KeyOf(W[i]) \in Subscriptions
  <2>1. ASSUME NEW i \in Arrays PROVE W[i].pv \in BOOLEAN /\ W[i].name \in Keys
    BY <1>3, <2>1, ReplyFields DEF ArraysDue, Arrays
  <2>2. QED  BY <2>1 DEF KeyOf, Subscriptions
<1>6. 1 \in Leaves => obuf = <<>> /\ (W[1].count = 0 => DOMAIN W' = {} /\ ssub = {})
  <2>1. 1 \in Leaves /\ W[1].count = 0 => Len(W) = 1 /\ ssub = {}
    BY <1>3 DEF LeavesLast
  <2>2. Len(W) = 1 => DOMAIN W' = {}
    <3>1. ASSUME Len(W) = 1, NEW i \in DOMAIN W' PROVE FALSE
      <4>1. i + 1 \in 1 .. 1 /\ 1 < i + 1
        BY <1>1, <1>4, <3>1
      <4>2. QED  BY <4>1
    <3>2. QED  BY <3>1
  <2>3. QED  BY <1>3, <2>1, <2>2 DEF LeavesLast
<1>7. ArraysDue'
  <2>1. ASSUME NEW i \in Arrays'
        PROVE  /\ Flag("subscribed")' /\ W'[i].name # None /\ InTable(KeyOf(W[i]))'
               /\ \A j \in Leaves' : j < i => KeyOf(W'[j]) # KeyOf(W'[i])
               /\ \A n \in Elems(replies)' : AnsweredBefore(n, i)'
    <3>1. i \in DOMAIN W' /\ i + 1 \in Arrays /\ W'[i] = W[i + 1] /\ 1 < i + 1 /\ i \in Int
      BY <1>1, <1>4
    <3>2. Flag("subscribed")'
      BY <1>3, <1>6, <3>1 DEF ArraysDue
    <3>3. W'[i].name # None /\ KeyOf(W'[i]) = KeyOf(W[i + 1])
      BY <1>3, <3>1 DEF ArraysDue
    <3>4. InTable(KeyOf(W[i + 1])) /\ KeyOf(W[i + 1]) \in Subscriptions
      BY <1>3, <1>5, <3>1 DEF ArraysDue
    <3>5. 1 \in Leaves => KeyOf(W[1]) # KeyOf(W[i + 1])
      BY <1>3, <3>1 DEF ArraysDue
    <3>6. \A k \in Subscriptions : InTable(k) /\ ~(1 \in Leaves /\ k = KeyOf(W[1])) => InTable(k)'
      OBVIOUS
    <3>7. PICK k : k = KeyOf(W[i + 1])
      OBVIOUS
    <3>8. InTable(k)'
      BY <3>4, <3>5, <3>6, <3>7
    <3>9. ASSUME NEW j \in Leaves', j < i PROVE KeyOf(W'[j]) # KeyOf(W'[i])
      <4>1. j + 1 \in Leaves /\ W'[j] = W[j + 1] /\ j \in Int
        BY <1>1, <1>4
      <4>2. j + 1 < i + 1
        BY <3>1, <3>9, <4>1
      <4>3. QED  BY <1>3, <3>1, <4>1, <4>2 DEF ArraysDue
    <3>10. ASSUME NEW n \in Elems(replies)' PROVE AnsweredBefore(n, i)'
      <4>1. AnsweredBefore(n, i + 1)
        BY <1>3, <3>1 DEF ArraysDue
      <4>2. QED  BY <1>2, <1>4, <3>1, <4>1
    <3>11. InTable(KeyOf(W[i]))'
      <4>1. KeyOf(W[i])' = k
        BY <3>1, <3>7 DEF KeyOf
      <4>2. QED  BY <3>8, <4>1 DEF InTable
    <3>12. QED  BY <3>2, <3>3, <3>9, <3>10, <3>11
  <2>2. QED  BY <2>1 DEF ArraysDue
<1>8. LeavesLast'
  <2>1. ASSUME NEW i \in Leaves'
        PROVE  /\ W'[i].to \in Numbers' /\ cmds'[W'[i].to].kind = "unsubscribe"
               /\ obuf' = <<>>
               /\ \A n \in Pending' : IsAnswered(n)'
               /\ W'[i].count = 0 => i = Len(W') /\ ssub' = {}
    <3>1. i \in DOMAIN W' /\ i + 1 \in Leaves /\ W'[i] = W[i + 1] /\ i \in Int
      BY <1>1, <1>4
    <3>2. W[i + 1].count = 0 => i + 1 = Len(W) /\ ssub = {}
      BY <1>3, <3>1 DEF LeavesLast
    <3>3. i + 1 = Len(W) => i = Len(W')
      BY <1>1, <3>1
    <3>4. W[i + 1].to \in Numbers /\ cmds[W[i + 1].to].kind = "unsubscribe" /\ obuf = <<>>
      BY <1>3, <3>1 DEF LeavesLast
    <3>5. \A n \in Pending' : IsAnswered(n)'
      BY <1>2, <1>3, <3>1 DEF LeavesLast
    <3>6. QED  BY <1>4, <3>1, <3>2, <3>3, <3>4, <3>5
  <2>2. QED  BY <2>1 DEF LeavesLast
<1>9. Unwritten'
  <2>1. CASE 1 \in Leaves
    <3>1. Elems(obuf)' = {}
      BY <1>6, <2>1 DEF Elems
    <3>2. QED  BY <3>1 DEF Unwritten
  <2>2. CASE 1 \notin Leaves
    <3>1. ASSUME NEW n \in Elems(obuf)
          PROVE  /\ cmds[n].kind # "command" => Flag("subscribed")' /\ \A m \in Elems(replies)' : m < n
                 /\ cmds[n].kind = "subscribe" => InTable(KeyOf(cmds[n]))'
                 /\ cmds[n].kind = "unsubscribe" =>
                      /\ n = Len(cmds) /\ Leaves' = {}
                      /\ \E k \in Subscriptions : /\ InTable(k)' /\ k[1] = cmds[n].pv
                                                  /\ cmds[n].name \in {None, k[2]}
      <4>1. cmds[n].kind # "command" => Flag("subscribed")' /\ \A m \in Elems(replies)' : m < n
        BY <1>3, <2>2 DEF Unwritten
      <4>2. ASSUME cmds[n].kind = "subscribe" PROVE InTable(KeyOf(cmds[n]))'
        <5>1. cmds[n] \in Call
          BY Basics
        <5>2. PICK k : k = KeyOf(cmds[n])
          OBVIOUS
        <5>3. k \in Subscriptions /\ InTable(k)
          BY <1>3, <4>2, <5>1, <5>2, CallTypes DEF Unwritten, KeyOf, Subscriptions
        <5>4. InTable(k)'
          BY <2>2, <5>3
        <5>5. KeyOf(cmds[n])' = k
          BY <5>2 DEF KeyOf
        <5>6. QED  BY <5>4, <5>5 DEF InTable
      <4>3. ASSUME cmds[n].kind = "unsubscribe"
            PROVE  /\ n = Len(cmds) /\ Leaves' = {}
                   /\ \E k \in Subscriptions : /\ InTable(k)' /\ k[1] = cmds[n].pv
                                               /\ cmds[n].name \in {None, k[2]}
        <5>1. n = Len(cmds) /\ Leaves = {}
          BY <1>3, <4>3 DEF Unwritten
        <5>2. PICK k \in Subscriptions : InTable(k) /\ k[1] = cmds[n].pv /\ cmds[n].name \in {None, k[2]}
          BY <1>3, <4>3 DEF Unwritten
        <5>3. InTable(k)'
          BY <2>2, <5>2
        <5>4. QED  BY <1>1, <5>1, <5>2, <5>3
      <4>4. QED  BY <4>1, <4>2, <4>3
    <3>2. QED  BY <1>4, <3>1 DEF Unwritten
  <2>3. QED  BY <2>1, <2>2
<1>10. ServerAgrees'
  <2> SUFFICES ASSUME ~down PROVE ServerAgrees'
    BY DEF ServerAgrees
  <2>1. ASSUME NEW k \in ssub PROVE InTable(k)' /\ \A i \in Leaves' : KeyOf(W'[i]) # k
    <3>1. k \in Subscriptions /\ InTable(k) /\ \A i \in Leaves : KeyOf(W[i]) # k
      BY <1>3 DEF ServerAgrees, IInv, Wired, Subscriptions
    <3>2. InTable(k)'
      BY <3>1
    <3>3. QED  BY <1>1, <3>1, <3>2
  <2>2. ASSUME NEW k \in Subscriptions, InTable(k)'
        PROVE  \/ k \in ssub
               \/ \E n \in Elems(obuf) : cmds[n].kind = "subscribe" /\ KeyOf(cmds[n]) = k
               \/ \E i \in Leaves' : KeyOf(W'[i]) = k
    <3>1. InTable(k) /\ ~(1 \in Leaves /\ k = KeyOf(W[1]))
      BY <2>2
    <3>2. ASSUME NEW i \in Leaves, KeyOf(W[i]) = k PROVE \E j \in Leaves' : KeyOf(W'[j]) = k
      <4>1. i - 1 \in Leaves' /\ W'[i - 1] = W[i]
        BY <1>1, <3>1, <3>2
      <4>2. QED  BY <3>2, <4>1
    <3>3. QED  BY <1>3, <3>1, <3>2 DEF ServerAgrees
  <2>3. ssub # {} => Flag("subscribed")' /\ \A n \in Elems(replies)' : IsAnswered(n)'
    BY <1>2, <1>3, <1>4, <1>6 DEF ServerAgrees
  <2>4. QED  BY <1>4, <2>1, <2>2, <2>3 DEF ServerAgrees, KeyOf
<1>11. QED  BY <1>7, <1>8, <1>9, <1>10 DEF Queue

-----------------------------------------------------------------------------
(* A reply is processed. *)
LEMMA RunFacts ==
    ASSUME IInv, Order, Processing, NEW n \in Numbers, NEW fl, Run(n, fl)
    PROVE  /\ W # <<>> /\ W' = Tail(W) /\ W[1] = Head(rdr) /\ 1 \in DOMAIN W
           /\ Running /\ mode = "process" /\ mode' \in {"process", "callback"} /\ Running'
           /\ \A m \in Numbers : got'[m] = IF m = n /\ cmds[n].fn THEN Append(got[m], W[1].to) ELSE got[m]
           /\ \A f : f # "in_callback" => (f \in flags' <=> f \in fl)
           /\ UNCHANGED <<err, obuf, events, server, cmds, asked, misuse, status>>
<1>1. /\ mode = "process" /\ rdr # <<>> /\ rdr' = Tail(rdr)
      /\ UNCHANGED <<err, obuf, events, server, cmds, asked, misuse, status>>
  BY DEF Processing, Run
<1>2. W # <<>> /\ W[1] = Head(rdr) /\ 1 \in DOMAIN W
  BY <1>1, Front
<1>3. W' = Tail(W)
  BY <1>1, Front DEF W, server
<1>4. mode' \in {"process", "callback"} /\ Running /\ Running'
  BY <1>1 DEF Run, Running
<1>5. \A f : f # "in_callback" => (f \in flags' <=> f \in fl)
  BY DEF Run
<1>6. DOMAIN got = Numbers
  BY DEF IInv, TypeOK
<1>7. \A m \in Numbers : got'[m] = IF m = n /\ cmds[n].fn THEN Append(got[m], W[1].to) ELSE got[m]
  BY <1>2, <1>6 DEF Run, Given
<1>8. QED  BY <1>1, <1>2, <1>3, <1>4, <1>5, <1>7

(* It is taken from where it was waited for, and a command that is not      *)
(* pending any more has had its callback called.                            *)
LEMMA ReplyOrder ==
    ASSUME IInv, Order, Processing, NEW n \in Numbers, NEW fl, Run(n, fl),
           \A f : f \notin {"subscribed", "in_callback"} => (f \in fl <=> f \in flags),
           "subscribed" \in fl => "subscribed" \in flags,
           Increasing(replies)', Increasing(invalid)',
           Elems(replies)' \subseteq Elems(replies), Elems(invalid)' \subseteq Elems(invalid),
           invalid' # <<>> => "subscribed" \in fl,
           \A m \in Plain : \/ (m \in Pending' <=> m \in Pending) /\ got'[m] = got[m]
                            \/ m \notin Pending' /\ got'[m] \in {<<m>>, << 0 >>},
           Queue'
    PROVE  Order'
<1>1. /\ mode = "process" /\ Running /\ Running' /\ mode' \in {"process", "callback"}
      /\ \A f : f # "in_callback" => (f \in flags' <=> f \in fl)
      /\ UNCHANGED <<err, obuf, events, server, cmds, asked, misuse, status>>
  BY RunFacts
<1>2. /\ Numbers' = Numbers /\ Plain' = Plain /\ Written' = Written /\ BeforeSubscribing' = BeforeSubscribing
      /\ Pending' \subseteq Pending /\ smon' = smon
  BY <1>1 DEF Numbers, Plain, Written, Pending, server, BeforeSubscribing
<1>3. Listed'
  BY <1>1, <1>2 DEF Order, Listed
<1>4. Accounted'
  <2>1. ASSUME NEW m \in Plain
        PROVE  /\ m \in Pending' => got'[m] = <<>>
               /\ m \notin Pending' => Len(got'[m]) = 1 /\ got'[m][1] \in {m, NULL, 0}
    <3>1. CASE (m \in Pending' <=> m \in Pending) /\ got'[m] = got[m]
      BY <3>1 DEF Order, Accounted
    <3>2. CASE m \notin Pending' /\ got'[m] \in {<<m>>, <<0>>}
      BY <3>2
    <3>3. QED  BY <3>1, <3>2
  <2>2. QED  BY <1>2, <2>1 DEF Accounted
<1>5. Invalid'
  <2>1. Flag("subscribed")' => Flag("subscribed")
    BY <1>1 DEF Flag
  <2>2. invalid' # <<>> => Flag("subscribed")'
    BY <1>1 DEF Flag
  <2>3. QED  BY <1>1, <1>2, <2>1, <2>2 DEF Order, Invalid
<1>6. Clean'
  <2>1. /\ Flag("disconnecting")' = Flag("disconnecting") /\ Flag("freeing")' = Flag("freeing")
    BY <1>1 DEF Flag
  <2>2. ASSUME ~err, ~Flag("freeing"), NEW m \in BeforeSubscribing
        PROVE  m \in Pending' \/ got'[m] \in {<<m>>, <<0>>}
    BY <2>2 DEF Order, Clean, BeforeSubscribing
  <2>3. status # "ok"
    BY <1>1 DEF Order, Clean
  <2>4. QED  BY <1>1, <1>2, <2>1, <2>2, <2>3 DEF Order, Clean
<1>7. QED  BY <1>3, <1>4, <1>5, <1>6 DEF Order

(* No array comes to a context that waits for the reply to a command that   *)
(* was issued before it subscribed.                                         *)
LEMMA HeadOfList ==
    ASSUME IInv, Order, Processing, replies # <<>>
    PROVE  W[1].type # "array"
<1>1. Queue /\ W # <<>> /\ 1 \in DOMAIN W
  BY Front DEF Order, Running, Processing
<1>2. replies \in Seq(Int)
  BY Basics
<1>3. Head(replies) \in Elems(replies)
  BY <1>2, ElemsTail DEF Order, Listed
<1>4. SUFFICES ASSUME 1 \in Arrays PROVE FALSE
  BY <1>1 DEF Arrays
<1>5. AnsweredBefore(Head(replies), 1)
  BY <1>1, <1>3, <1>4 DEF Queue, ArraysDue
<1>6. PICK j \in Answers : j < 1
  BY <1>5 DEF AnsweredBefore
<1>7. j \in 1 .. Len(W)
  BY <1>6, Basics DEF Answers
<1>8. QED  BY <1>6, <1>7

(* The answer that comes first is to the command that waits longest. *)
LEMMA Oldest ==
    ASSUME IInv, Matching, 1 \in Answers, NEW h \in Pending, Pending \subseteq Int,
           \A m \in Pending : h <= m
    PROVE  W[1].to = h
<1>1. W[1].to \in Pending /\ h <= W[1].to /\ W[1].to \in Int
  BY DEF Matching
<1>2. ASSUME h < W[1].to PROVE FALSE
  <2>1. AnsweredBefore(h, 1)
    BY <1>2 DEF Matching
  <2>2. PICK j \in Answers : j < 1
    BY <2>1 DEF AnsweredBefore
  <2>3. j \in 1 .. Len(W)
    BY <2>2, Basics DEF Answers
  <2>4. QED  BY <2>2, <2>3
<1>3. QED  BY <1>1, <1>2

(* The answer to a command, or the error that refuses the connection, is    *)
(* processed.                                                               *)
LEMMA AnswerOrder ==
    ASSUME IInv, Order, Processing, NEW h \in Numbers, Run(h, flags),
           W[1].type # "array", cmds[h].kind = "command",
           h \in Pending, \A m \in Pending : h <= m,
           \A m : m \in Pending' <=> m \in Pending /\ m # h,
           Increasing(replies)', Increasing(invalid)',
           Elems(replies)' \subseteq Elems(replies), Elems(invalid)' \subseteq Elems(invalid),
           invalid' # <<>> => Flag("subscribed"), UNCHANGED subs
    PROVE  Order'
<1>1. /\ W # <<>> /\ W' = Tail(W) /\ 1 \in DOMAIN W /\ mode = "process"
      /\ \A m \in Numbers : got'[m] = IF m = h /\ cmds[h].fn THEN Append(got[m], W[1].to) ELSE got[m]
      /\ \A f : f # "in_callback" => (f \in flags' <=> f \in flags)
      /\ UNCHANGED <<err, obuf, events, server, cmds, asked, misuse, status>>
  BY RunFacts
<1>2. Queue /\ Listed /\ Accounted
  BY <1>1 DEF Order, Running
<1>3. Pending \subseteq Int /\ Numbers \subseteq Int
  BY <1>2, Basics DEF Listed
<1>4. /\ UNCHANGED <<obuf, cmds, ssub, down, reading>> /\ Flag("subscribed")' = Flag("subscribed")
      /\ 1 \notin Leaves /\ \A k : InTable(k)' = InTable(k)
  BY <1>1 DEF events, server, Flag, Leaves, Arrays, InTable
<1>5. (1 \in Answers => W[1].to = h) /\ W[1].to \in {h, 0}
  <2>1. 1 \in Answers => W[1].to = h
    BY <1>2, <1>3, Oldest DEF Queue
  <2>2. QED  BY <1>1, <2>1 DEF Answers
<1>6. Matching'
  <2>1. CASE W[1].to # 0
    <3>1. 1 \in Answers
      BY <1>1, <2>1 DEF Answers
    <3>2. \A m : m \in Pending' <=> m \in Pending /\ ~(1 \in Answers /\ W[1].to = m)
      BY <1>5, <3>1
    <3>3. Matching
      BY <1>2 DEF Queue
    <3>4. QED  BY <1>1, <1>2, <1>4, <2>1, <3>2, <3>3, DropMatching
  <2>2. CASE W[1].to = 0
    <3>1. Len(W) = 1 /\ down
      BY <1>1, <1>2, <2>2 DEF Queue, Matching
    <3>2. Len(W') = 0 /\ DOMAIN W' = 1 .. Len(W')
      BY <1>1, <3>1, Basics
    <3>3. DOMAIN W' = {}
      BY <3>2
    <3>4. Answers' = {}
      BY <3>3 DEF Answers
    <3>5. QED  BY <1>4, <3>1, <3>3, <3>4 DEF Matching
  <2>3. QED  BY <2>1, <2>2
<1>7. Queue'
  <2>1. \A m \in Pending' : m \in Pending /\ ~(1 \in Answers /\ W[1].to = m)
    BY <1>5
  <2>2. QED  BY <1>1, <1>2, <1>4, <1>6, <2>1, DropQueue
<1>8. ASSUME NEW m \in Plain
      PROVE  \/ (m \in Pending' <=> m \in Pending) /\ got'[m] = got[m]
             \/ m \notin Pending' /\ got'[m] \in {<<m>>, <<0>>}
  <2>1. m \in Numbers /\ cmds[m].fn
    BY DEF Plain
  <2>2. CASE m # h
    BY <1>1, <2>1, <2>2
  <2>3. CASE m = h
    <3>1. got[m] = <<>> /\ got'[m] = Append(got[m], W[1].to)
      BY <1>1, <1>2, <2>1, <2>3 DEF Accounted
    <3>2. got'[m] = <<W[1].to>>
      BY <3>1
    <3>3. QED  BY <1>5, <2>3, <3>2
  <2>4. QED  BY <2>2, <2>3
<1>9. invalid' # <<>> => "subscribed" \in flags
  BY DEF Flag
<1>10. QED  BY <1>7, <1>8, <1>9, ReplyOrder

LEMMA CommandOrder ==
    ASSUME IInv, Order, ReplyToCommand
    PROVE  Order'
<1>1. /\ Processing /\ replies # <<>> /\ Run(Head(replies), flags)
      /\ replies' = Tail(replies) /\ UNCHANGED <<invalid, subs>>
  BY DEF ReplyToCommand
<1>2. Listed /\ Invalid /\ Running
  BY <1>1 DEF Order, Processing, Running
<1>3. replies \in Seq(Int)
  BY Basics
<1> DEFINE h == Head(replies)
<1>4. /\ h \in Elems(replies) /\ \A x \in Elems(replies) : h <= x
      /\ Elems(Tail(replies)) = Elems(replies) \ {h} /\ Increasing(Tail(replies))
  BY <1>1, <1>2, <1>3, ElemsTail DEF Listed
<1>5. Elems(replies)' = Elems(replies) \ {h} /\ Elems(invalid)' = Elems(invalid)
  BY <1>1, <1>4 DEF Elems
<1>6. Increasing(replies)' /\ Increasing(invalid)'
  BY <1>1, <1>2, <1>4 DEF Listed, Increasing
<1>7. h \in Pending /\ h \in Numbers /\ cmds[h].kind = "command"
  BY <1>2, <1>4 DEF Pending, Listed
<1>8. \A m \in Elems(invalid) : h < m
  BY <1>2, <1>4 DEF Listed
<1>9. h \in Int /\ Elems(invalid) \subseteq Int
  BY <1>2, <1>7, Basics DEF Listed, Pending
<1>10. \A m \in Pending : h <= m
  BY <1>4, <1>8, <1>9 DEF Pending
<1>11. h \notin Elems(invalid)
  BY <1>8, <1>9
<1>12. \A m : m \in Pending' <=> m \in Pending /\ m # h
  BY <1>5, <1>11 DEF Pending
<1>13. invalid' # <<>> => Flag("subscribed")
  BY <1>1, <1>2 DEF Invalid
<1>14. W[1].type # "array"
  BY <1>1, HeadOfList
<1> HIDE DEF h
<1>15. Run(h, flags) /\ UNCHANGED subs
  BY <1>1 DEF h
<1>16. QED  BY <1>1, <1>5, <1>6, <1>7, <1>10, <1>12, <1>13, <1>14, <1>15, AnswerOrder

LEMMA InvalidOrder ==
    ASSUME IInv, Order, ReplyToInvalid
    PROVE  Order'
<1>1. /\ Processing /\ replies = <<>> /\ invalid # <<>> /\ Run(Head(invalid), flags)
      /\ Flag("subscribed") /\ Head(rdr).type = "status"
      /\ invalid' = Tail(invalid) /\ UNCHANGED <<replies, subs>>
  BY DEF ReplyToInvalid, Spontaneous, Unasked
<1>2. Listed /\ W[1].type # "array"
  BY <1>1, Front DEF Order
<1>3. invalid \in Seq(Int)
  BY Basics
<1> DEFINE h == Head(invalid)
<1>4. /\ h \in Elems(invalid) /\ \A x \in Elems(invalid) : h <= x
      /\ Elems(Tail(invalid)) = Elems(invalid) \ {h} /\ Increasing(Tail(invalid))
  BY <1>1, <1>2, <1>3, ElemsTail DEF Listed
<1>5. Elems(invalid)' = Elems(invalid) \ {h} /\ Elems(replies)' = {} /\ Elems(replies) = {}
  <2>1. Elems(<<>>) = {}
    BY DEF Elems
  <2>2. Elems(replies)' = Elems(replies) /\ Elems(replies) = {}
    BY <1>1, <2>1 DEF Elems
  <2>3. Elems(invalid)' = Elems(Tail(invalid))
    BY <1>1 DEF Elems
  <2>4. QED  BY <1>4, <2>2, <2>3
<1>6. Increasing(replies)' /\ Increasing(invalid)'
  BY <1>1, <1>2, <1>4 DEF Listed, Increasing
<1>7. h \in Pending /\ h \in Numbers /\ cmds[h].kind = "command"
  BY <1>2, <1>4 DEF Pending, Listed
<1>8. (\A m \in Pending : h <= m) /\ \A m : m \in Pending' <=> m \in Pending /\ m # h
  BY <1>4, <1>5 DEF Pending
<1> HIDE DEF h
<1>9. Run(h, flags) /\ UNCHANGED subs
  BY <1>1 DEF h
<1>10. QED  BY <1>1, <1>2, <1>5, <1>6, <1>7, <1>8, <1>9, AnswerOrder

(* What comes for a subscription goes to the callback of the latest         *)
(* SUBSCRIBE to it.                                                         *)
LEMMA SubscriptionFacts ==
    ASSUME IInv, Newest, ReplyToSubscription, NEW r, r = Head(rdr)
    PROVE  \E n \in Numbers :
             /\ cmds[n].kind = "subscribe" /\ cmds[n].pv = r.pv /\ cmds[n].name = r.name
             /\ \A m \in Numbers : cmds[m].kind = "subscribe" /\ cmds[m].pv = r.pv
                                   /\ cmds[m].name = r.name => m <= n
             /\ Run(n, IF r.verb = "unsubscribe" /\ r.count = 0 THEN flags \ {"subscribed"} ELSE flags)
             /\ Processing /\ r.type = "array" /\ r.pv \in BOOLEAN /\ r.name \in Keys
             /\ replies = <<>> /\ UNCHANGED <<replies, invalid>>
             /\ \A pv \in BOOLEAN : Entries(subs[pv])' \subseteq Entries(subs[pv])
             /\ \A k \in Subscriptions :
                  InTable(k)' <=> InTable(k) /\ ~(r.verb = "unsubscribe" /\ k = KeyOf(r))
<1> DEFINE ht == subs[r.pv]
           n == Find(ht, r.name)
<1>1. /\ Run(n, IF r.verb = "unsubscribe" /\ r.count = 0 THEN flags \ {"subscribed"} ELSE flags)
      /\ Processing /\ r.type = "array" /\ Found(ht, r.name) /\ r.name # None
      /\ replies = <<>> /\ UNCHANGED <<replies, invalid>>
      /\ subs' = IF r.verb = "unsubscribe"
                 THEN [subs EXCEPT ![r.pv] = Delete(ht, r.name)]
                 ELSE subs
  BY DEF ReplyToSubscription, Spontaneous, Unasked, Expected
<1>2. r.pv \in BOOLEAN /\ r.name \in Keys
  <2>1. r \in Replies
    BY <1>1 DEF Processing, IInv, Wired
  <2>2. QED  BY <1>1, <2>1 DEF Replies
<1>3. Sound(ht) /\ DOMAIN subs = BOOLEAN /\ subs = [pv \in BOOLEAN |-> subs[pv]]
  BY <1>2 DEF IInv, Tables
<1>4. PICK e \in Entries(ht) : e.key = r.name /\ n = e.val
  <2>1. Matches(ht, r.name) = {e \in Entries(ht) : e.key = r.name} /\ Matches(ht, r.name) # {}
    BY <1>1, <1>2, <1>3, MatchesAll DEF Found
  <2>2. (CHOOSE e \in Matches(ht, r.name) : TRUE) \in Matches(ht, r.name)
    BY <2>1
  <2>3. QED  BY <2>1, <2>2 DEF Find
<1>5. /\ n \in Numbers /\ cmds[n].kind = "subscribe" /\ cmds[n].pv = r.pv /\ cmds[n].name = r.name
      /\ \A m \in Numbers : cmds[m].kind = "subscribe" /\ cmds[m].pv = r.pv
                            /\ cmds[m].name = r.name => m <= n
  BY <1>2, <1>4 DEF Newest
<1>6. /\ \A pv \in BOOLEAN : Entries(subs'[pv]) \subseteq Entries(subs[pv])
      /\ \A k \in Subscriptions :
           InTable(k)' <=> InTable(k) /\ ~(r.verb = "unsubscribe" /\ k = KeyOf(r))
  <2>1. CASE r.verb # "unsubscribe"
    BY <1>1, <2>1 DEF InTable
  <2>2. CASE r.verb = "unsubscribe"
    <3> DEFINE new == Delete(ht, r.name)
    <3>1. Entries(new) = {f \in Entries(ht) : f.key # r.name}
      BY <1>2, <1>3, DeleteFromMap
    <3>2. subs' = [subs EXCEPT ![r.pv] = new]
      BY <1>1, <2>2
    <3> HIDE DEF new
    <3>3. subs'[r.pv] = new /\ \A pv \in BOOLEAN : pv # r.pv => subs'[pv] = subs[pv]
      BY <1>2, <1>3, <3>2
    <3>4. \A pv \in BOOLEAN : Entries(subs'[pv]) \subseteq Entries(subs[pv])
      BY <3>1, <3>3
    <3>5. ASSUME NEW k \in Subscriptions
          PROVE  InTable(k)' <=> InTable(k) /\ k # KeyOf(r)
      <4>1. k = <<k[1], k[2]>> /\ k[1] \in BOOLEAN
        BY DEF Subscriptions
      <4>2. CASE k[1] # r.pv
        <5>1. subs'[k[1]] = subs[k[1]] /\ k # KeyOf(r)
          BY <3>3, <4>1, <4>2 DEF KeyOf
        <5>2. QED  BY <5>1 DEF InTable
      <4>3. CASE k[1] = r.pv
        <5>1. subs'[k[1]] = new /\ subs[k[1]] = ht /\ (k = KeyOf(r) <=> k[2] = r.name)
          BY <3>3, <4>1, <4>3 DEF KeyOf
        <5>2. InTable(k)' <=> \E f \in Entries(new) : f.key = k[2]
          BY <5>1 DEF InTable
        <5>3. InTable(k) <=> \E f \in Entries(ht) : f.key = k[2]
          BY <5>1 DEF InTable
        <5>4. QED  BY <3>1, <5>1, <5>2, <5>3
      <4>4. QED  BY <4>2, <4>3
    <3>6. QED  BY <2>2, <3>4, <3>5
  <2>3. QED  BY <2>1, <2>2
<1> HIDE DEF n
<1>7. QED  BY <1>1, <1>2, <1>5, <1>6

LEMMA SubscriptionOrder ==
    ASSUME IInv, Newest, Order, ReplyToSubscription
    PROVE  Order'
<1>1. PICK r : r = Head(rdr)
  OBVIOUS
<1> DEFINE fl == IF r.verb = "unsubscribe" /\ r.count = 0 THEN flags \ {"subscribed"} ELSE flags
<1>2. PICK n \in Numbers :
        /\ cmds[n].kind = "subscribe"
        /\ Run(n, fl)
        /\ Processing /\ r.type = "array"
        /\ replies = <<>> /\ UNCHANGED <<replies, invalid>>
        /\ \A k \in Subscriptions :
             InTable(k)' <=> InTable(k) /\ ~(r.verb = "unsubscribe" /\ k = KeyOf(r))
  BY <1>1, SubscriptionFacts
<1>3. /\ W # <<>> /\ W' = Tail(W) /\ W[1] = r /\ 1 \in DOMAIN W /\ mode = "process" /\ Running
      /\ \A m \in Numbers : got'[m] = IF m = n /\ cmds[n].fn THEN Append(got[m], W[1].to) ELSE got[m]
      /\ \A f : f # "in_callback" => (f \in flags' <=> f \in fl)
      /\ UNCHANGED <<err, obuf, events, server, cmds, asked, misuse, status>>
  <2>1. PICK f : f = fl
    OBVIOUS
  <2>2. Run(n, f)
    BY <1>2, <2>1
  <2>3. QED  BY <1>1, <1>2, <2>1, <2>2, RunFacts
<1>4. Queue /\ Listed /\ Invalid
  BY <1>3 DEF Order
<1>5. 1 \in Arrays /\ 1 \notin Answers /\ (1 \in Leaves <=> r.verb = "unsubscribe")
  BY <1>2, <1>3 DEF Arrays, Answers, Leaves
<1>6. /\ Pending' = Pending /\ Elems(replies)' = Elems(replies) /\ Elems(invalid)' = Elems(invalid)
      /\ Increasing(replies)' /\ Increasing(invalid)'
  BY <1>2, <1>4 DEF Pending, Elems, Listed, Increasing
<1>7. UNCHANGED <<obuf, cmds, ssub, down, reading>>
  BY <1>3 DEF events, server
<1>8. Matching'
  <2>1. Matching /\ \A m : m \in Pending' <=> m \in Pending /\ ~(1 \in Answers /\ W[1].to = m)
    BY <1>4, <1>5, <1>6 DEF Queue
  <2>2. W[1].type = "array"
    BY <1>2, <1>3
  <2>3. QED  BY <1>3, <1>4, <1>7, <2>1, <2>2, DropMatching
<1>9. Flag("subscribed")' <=> Flag("subscribed") /\ ~(1 \in Leaves /\ W[1].count = 0)
  BY <1>3, <1>5 DEF Flag
<1>10. Queue'
  <2>1. \A m \in Pending' : m \in Pending /\ ~(1 \in Answers /\ W[1].to = m)
    BY <1>5, <1>6
  <2>2. \A k \in Subscriptions : InTable(k)' <=> InTable(k) /\ ~(1 \in Leaves /\ k = KeyOf(W[1]))
    BY <1>2, <1>3, <1>5
  <2>3. QED  BY <1>3, <1>4, <1>6, <1>7, <1>8, <1>9, <2>1, <2>2, DropQueue
<1>11. invalid' # <<>> => "subscribed" \in fl
  <2>1. CASE r.verb = "unsubscribe" /\ r.count = 0
    <3>1. 1 = Len(W) /\ \A m \in Pending : IsAnswered(m)
      BY <1>3, <1>4, <1>5, <2>1 DEF Queue, LeavesLast
    <3>2. Answers = {}
      <4>1. DOMAIN W = {1}
        BY <3>1, Basics
      <4>2. QED  BY <1>5, <4>1 DEF Answers
    <3>3. Pending = {}
      BY <3>1, <3>2 DEF IsAnswered
    <3>4. invalid = <<>>
      BY <3>3, Basics, ElemsType DEF Pending
    <3>5. QED  BY <1>2, <3>4
  <2>2. CASE ~(r.verb = "unsubscribe" /\ r.count = 0)
    BY <1>2, <1>3, <1>4, <2>2 DEF Invalid, Flag
  <2>3. QED  BY <2>1, <2>2
<1>12. ASSUME NEW m \in Plain PROVE (m \in Pending' <=> m \in Pending) /\ got'[m] = got[m]
  <2>1. m \in Numbers /\ m # n
    BY <1>2 DEF Plain
  <2>2. QED  BY <1>3, <1>6, <2>1
<1>13. /\ \A f : f \notin {"subscribed", "in_callback"} => (f \in fl <=> f \in flags)
       /\ "subscribed" \in fl => "subscribed" \in flags
  OBVIOUS
<1> HIDE DEF fl
<1>14. QED  BY <1>2, <1>6, <1>10, <1>11, <1>12, <1>13, ReplyOrder

(* What a program cannot follow does not happen to an orderly one: nothing  *)
(* comes to nobody.                                                         *)
LEMMA Followed ==
    ASSUME IInv, Order, "monitoring" \notin flags, Spontaneous \/ Unexpected
    PROVE  ~Unexpected /\ ~Stale
<1>1. Processing /\ replies = <<>> /\ Head(rdr).type # "error"
  BY DEF Spontaneous, Unexpected, Unasked
<1> DEFINE r == Head(rdr)
<1>2. /\ Running /\ Queue /\ W # <<>> /\ 1 \in DOMAIN W /\ W[1] = r /\ r \in Replies
  BY <1>1, Front
<1>3. CASE r.type = "array"
  <2>1. 1 \in Arrays
    BY <1>2, <1>3 DEF Arrays
  <2>2. Flag("subscribed") /\ r.name # None /\ InTable(KeyOf(r))
    BY <1>2, <2>1 DEF Queue, ArraysDue
  <2>3. r.pv \in BOOLEAN /\ r.name \in Keys
    BY <1>2, <2>2 DEF Replies
  <2>4. Found(subs[r.pv], r.name)
    <3>1. Sound(subs[r.pv])
      BY <2>3 DEF IInv, Tables
    <3>2. \E e \in Entries(subs[r.pv]) : e.key = r.name
      BY <2>2 DEF InTable, KeyOf
    <3>3. QED  BY <2>3, <3>1, <3>2, MatchesAll DEF Found
  <2>5. QED  BY <1>3, <2>2, <2>4 DEF Unexpected, Expected, Stale
<1>4. CASE r.type # "array"
  <2>1. r.to # 0
    BY <1>1, <1>2, <1>4 DEF Queue, Matching
  <2>2. 1 \in Answers
    BY <1>2, <1>4, <2>1 DEF Answers
  <2>3. W[1].to \in Pending
    BY <1>2, <2>2 DEF Queue, Matching
  <2>4. invalid # <<>>
    BY <1>1, <2>3 DEF Pending, Elems
  <2>5. Flag("subscribed")
    BY <1>2, <2>4 DEF Order, Invalid
  <2>6. QED  BY <1>4, <2>4, <2>5 DEF Unexpected, Expected, Stale
<1>5. QED  BY <1>3, <1>4

(* The turns of the loop that process no reply. *)
LEMMA ReturnOrder ==
    ASSUME IInv, Order, "monitoring" \notin flags, NoMoreReplies \/ Return
    PROVE  Order'
<1>1. /\ mode \in {"process", "callback"} /\ Running
      /\ UNCHANGED <<err, replies, invalid, subs, cb, obuf, rdr, events, server, history>>
      /\ mode' \in {"loop", "process", "teardown", "aborted"}
      /\ \A f : f # "in_callback" => (f \in flags' <=> f \in flags)
      /\ mode' = "aborted" => Flag("disconnecting") /\ replies # <<>>
      /\ mode' = "teardown" => Flag("freeing") \/ replies = <<>>
  BY DEF NoMoreReplies, Return, CleanDisconnect, Running, Flag
<1>2. /\ \A f \in {"subscribed", "disconnecting", "freeing"} : Flag(f)' = Flag(f)
      /\ Numbers' = Numbers /\ Pending' = Pending /\ Plain' = Plain
      /\ BeforeSubscribing' = BeforeSubscribing
      /\ asked' = asked /\ status' = status /\ err' = err /\ got' = got /\ replies' = replies
  <2>1. /\ Numbers' = Numbers /\ Pending' = Pending /\ Plain' = Plain /\ cmds' = cmds
        /\ asked' = asked /\ status' = status /\ err' = err /\ got' = got /\ replies' = replies
    BY <1>1 DEF history, Numbers, Pending, Plain
  <2>2. BeforeSubscribing' = BeforeSubscribing
    BY <2>1 DEF BeforeSubscribing
  <2>3. QED  BY <1>1, <2>1, <2>2 DEF Flag
<1>3. Clean /\ status # "ok" /\ (Flag("disconnecting") => asked)
  BY <1>1 DEF Order, Clean
<1>4. Clean'
  BY <1>1, <1>2, <1>3 DEF Clean
<1>5. W' = W
  BY <1>1 DEF W, server
<1>6. QED  BY <1>1, <1>2, <1>4, <1>5, Quiet DEF server, events, history

LEMMA ProcessOrder ==
    ASSUME IInv, Newest, Order, "monitoring" \notin flags, Process \/ GetReplyFails
    PROVE  Order'
<1>1. CASE ReplyToCommand
  BY <1>1, CommandOrder
<1>2. CASE ReplyToInvalid
  BY <1>2, InvalidOrder
<1>3. CASE ReplyToSubscription
  BY <1>3, SubscriptionOrder
<1>4. CASE SpontaneousError \/ GetReplyFails
  <2>1. /\ Running /\ mode' = "teardown" /\ err' = TRUE
        /\ flags' = flags \cup {"connected", "disconnecting"}
        /\ UNCHANGED <<replies, invalid, subs, cb, obuf, rdr, events, server, history>>
    BY <1>4 DEF SpontaneousError, GetReplyFails, Processing, Running, DisconnectOnError
  <2>2. QED  BY <2>1, ErrorOrder
<1>5. CASE NoMoreReplies \/ Return
  BY <1>5, ReturnOrder
<1>6. CASE Unexpected \/ ReplyToNobody
  BY <1>6, Followed DEF ReplyToNobody
<1>7. CASE RunWild
  <2>1. ~(Spontaneous /\ Stale)
    BY Followed
  <2>2. replies # <<>> /\ Head(replies) = Wild
    BY <1>7, <2>1 DEF RunWild
  <2>3. Head(replies) \in Elems(replies)
    BY <2>2, Basics, ElemsTail DEF Order, Listed
  <2>4. Head(replies) \in Numbers
    BY <2>3 DEF Order, Listed, Pending
  <2>5. QED  BY <2>2, <2>4, Basics DEF Wild
<1>8. QED  BY <1>1, <1>2, <1>3, <1>4, <1>5, <1>6, <1>7 DEF Process

-----------------------------------------------------------------------------
(* The end of the context. *)
LEMMA BereaveOrder ==
    ASSUME IInv, Order, mode = "teardown", NEW h \in Pending, Bereave(h),
           \A m : m \in Pending' <=> m \in Pending /\ m # h,
           Increasing(replies)', Increasing(invalid)',
           Elems(replies)' \subseteq Elems(replies), Elems(invalid)' \subseteq Elems(invalid),
           err \/ Flag("freeing") \/ (replies' = <<>> /\ h \notin BeforeSubscribing)
    PROVE  Order'
<1>1. h \in Numbers
  BY DEF Order, Listed
<1>2. /\ mode' = mode /\ ~Running' /\ \A f : f # "freeing" => (f \in flags' <=> f \in flags)
      /\ flags \subseteq flags'
      /\ UNCHANGED <<err, cb, obuf, rdr, events, server, cmds, misuse, status>>
  BY DEF Bereave, Gone, Running
<1>3. \A m \in Numbers : got'[m] = IF m = h /\ cmds[h].fn THEN Append(got[m], NULL) ELSE got[m]
  <2>1. DOMAIN got = Numbers
    BY DEF IInv, TypeOK
  <2>2. QED  BY <1>1, <2>1 DEF Bereave, Given
<1>4. /\ Numbers' = Numbers /\ Plain' = Plain /\ Written' = Written /\ BeforeSubscribing' = BeforeSubscribing
      /\ Flag("subscribed")' = Flag("subscribed") /\ smon' = smon
  <2>1. Numbers' = Numbers /\ Plain' = Plain /\ Written' = Written /\ cmds' = cmds
    BY <1>2 DEF Numbers, Plain, Written
  <2>2. BeforeSubscribing' = BeforeSubscribing
    BY <2>1 DEF BeforeSubscribing
  <2>3. QED  BY <1>2, <2>1, <2>2 DEF Flag, server
<1>5. Listed'
  BY <1>2, <1>4 DEF Order, Listed
<1>6. Accounted'
  <2>1. ASSUME NEW m \in Plain
        PROVE  /\ m \in Pending' => got'[m] = <<>>
               /\ m \notin Pending' => Len(got'[m]) = 1 /\ got'[m][1] \in {m, NULL, 0}
    <3>1. m \in Numbers /\ cmds[m].fn
      BY DEF Plain
    <3>2. CASE m # h
      BY <1>3, <3>1, <3>2 DEF Order, Accounted
    <3>3. CASE m = h
      <4>1. got[m] = <<>> /\ got'[m] = Append(got[m], NULL)
        BY <1>3, <3>1, <3>3 DEF Order, Accounted
      <4>2. got'[m] = <<NULL>>
        BY <4>1
      <4>3. QED  BY <3>3, <4>2
    <3>4. QED  BY <3>2, <3>3
  <2>2. QED  BY <1>4, <2>1 DEF Accounted
<1>7. Invalid'
  BY <1>2, <1>4 DEF Order, Invalid
<1>8. Clean'
  <2>1. Flag("freeing") => Flag("freeing")'
    BY <1>2 DEF Flag
  <2>2. ASSUME ~err, ~Flag("freeing")', NEW m \in BeforeSubscribing
        PROVE  replies' = <<>> /\ (m \in Pending' \/ got'[m] \in {<<m>>, <<0>>})
    <3>1. replies' = <<>> /\ m # h
      BY <2>1, <2>2
    <3>2. m \in Pending \/ got[m] \in {<<m>>, <<0>>}
      BY <2>1, <2>2 DEF Order, Clean
    <3>3. got'[m] = got[m]
      BY <1>3, <3>1 DEF BeforeSubscribing, Plain
    <3>4. QED  BY <3>1, <3>2, <3>3
  <2>3. ~err /\ ~Flag("freeing")' => replies' = <<>>
    BY <2>1
  <2>4. status' # "ok" /\ mode' = "teardown" /\ err' = err
    BY <1>2 DEF Order, Clean
  <2>5. QED  BY <1>2, <1>4, <2>2, <2>3, <2>4 DEF Clean
<1>9. QED  BY <1>2, <1>5, <1>6, <1>7, <1>8 DEF Order

LEMMA TearDownOrder ==
    ASSUME IInv, Newest, Order, TearDown
    PROVE  Order'
<1>1. mode = "teardown" /\ Listed /\ Accounted /\ Invalid /\ Clean
  BY DEF TearDown, FreeReply, FreeInvalid, FreeSubscriptions, Finish, Order
<1>2. replies \in Seq(Int) /\ invalid \in Seq(Int)
  BY Basics
<1>3. CASE FreeReply
  <2> DEFINE h == Head(replies)
  <2>1. replies # <<>> /\ Bereave(h) /\ replies' = Tail(replies) /\ UNCHANGED <<invalid, subs>>
    BY <1>3 DEF FreeReply
  <2>2. /\ h \in Elems(replies) /\ Elems(Tail(replies)) = Elems(replies) \ {h}
        /\ Increasing(Tail(replies))
    BY <1>1, <1>2, <2>1, ElemsTail DEF Listed
  <2>3. h \in Pending /\ h \notin Elems(invalid)
    <3>1. h \in Pending
      BY <2>2 DEF Pending
    <3>2. h \in Int /\ \A m \in Elems(invalid) : h < m
      BY <1>1, <2>2, <3>1, Basics DEF Listed
    <3>3. QED  BY <3>1, <3>2
  <2>4. Elems(replies)' = Elems(replies) \ {h} /\ Elems(invalid)' = Elems(invalid)
    BY <2>1, <2>2 DEF Elems
  <2>5. \A m : m \in Pending' <=> m \in Pending /\ m # h
    BY <2>3, <2>4 DEF Pending
  <2>6. Increasing(replies)' /\ Increasing(invalid)'
    BY <1>1, <2>1, <2>2 DEF Listed, Increasing
  <2>7. err \/ Flag("freeing")
    BY <1>1, <2>1 DEF Clean
  <2> HIDE DEF h
  <2>8. QED  BY <1>1, <2>1, <2>3, <2>4, <2>5, <2>6, <2>7, BereaveOrder
<1>4. CASE FreeInvalid
  <2> DEFINE h == Head(invalid)
  <2>1. /\ replies = <<>> /\ invalid # <<>> /\ Bereave(h) /\ invalid' = Tail(invalid)
        /\ UNCHANGED <<replies, subs>>
    BY <1>4 DEF FreeInvalid
  <2>2. /\ h \in Elems(invalid) /\ Elems(Tail(invalid)) = Elems(invalid) \ {h}
        /\ Increasing(Tail(invalid))
    BY <1>1, <1>2, <2>1, ElemsTail DEF Listed
  <2>3. h \in Pending /\ h \notin Elems(replies)
    BY <2>1, <2>2 DEF Pending, Elems
  <2>4. Elems(invalid)' = Elems(invalid) \ {h} /\ Elems(replies)' = Elems(replies)
    BY <2>1, <2>2 DEF Elems
  <2>5. \A m : m \in Pending' <=> m \in Pending /\ m # h
    BY <2>3, <2>4 DEF Pending
  <2>6. Increasing(replies)' /\ Increasing(invalid)'
    BY <1>1, <2>1, <2>2 DEF Listed, Increasing
  <2>7. h \notin BeforeSubscribing
    <3>1. \E m \in 1 .. h : cmds[m].kind = "subscribe"
      BY <1>1, <2>2 DEF Invalid
    <3>2. QED  BY <3>1 DEF BeforeSubscribing
  <2> HIDE DEF h
  <2>8. QED  BY <1>1, <2>1, <2>3, <2>4, <2>5, <2>6, <2>7, BereaveOrder
<1>5. CASE FreeSubscriptions
  <2>1. /\ replies = <<>> /\ invalid = <<>>
        /\ UNCHANGED <<mode, replies, invalid, err, obuf, server, cmds, misuse, status>>
        /\ got' = [n \in DOMAIN got |-> IF n \in Subscribed /\ cmds[n].fn
                                         THEN Append(got[n], NULL) ELSE got[n]]
        /\ flags \subseteq flags' /\ \A f : f # "freeing" => (f \in flags' <=> f \in flags)
    BY <1>5 DEF FreeSubscriptions, Gone
  <2>2. \A n \in Plain : got'[n] = got[n]
    <3>1. DOMAIN got = Numbers
      BY DEF IInv, TypeOK
    <3>2. \A n \in Subscribed : cmds[n].kind = "subscribe"
      BY DEF Subscribed, Newest
    <3>3. QED  BY <2>1, <3>1, <3>2 DEF Plain
  <2>3. /\ Numbers' = Numbers /\ Plain' = Plain /\ Written' = Written /\ Pending' = Pending
        /\ BeforeSubscribing' = BeforeSubscribing /\ ~Running'
        /\ Flag("subscribed")' = Flag("subscribed") /\ smon' = smon
    <3>1. Numbers' = Numbers /\ Plain' = Plain /\ Written' = Written /\ cmds' = cmds /\ Pending' = Pending
      BY <2>1 DEF Numbers, Plain, Written, Pending
    <3>2. BeforeSubscribing' = BeforeSubscribing
      BY <3>1 DEF BeforeSubscribing
    <3>3. QED  BY <1>1, <2>1, <3>1, <3>2 DEF Flag, server, Running
  <2>4. Listed' /\ Accounted' /\ Invalid'
    <3>1. Listed'
      BY <1>1, <2>1, <2>3 DEF Listed
    <3>2. Accounted'
      BY <1>1, <2>2, <2>3 DEF Accounted
    <3>3. Invalid'
      BY <1>1, <2>1, <2>3 DEF Invalid
    <3>4. QED  BY <3>1, <3>2, <3>3
  <2>5. Clean'
    <3>1. Flag("freeing") => Flag("freeing")'
      BY <2>1 DEF Flag
    <3>2. \A m \in BeforeSubscribing : got'[m] = got[m]
      BY <2>2 DEF BeforeSubscribing
    <3>3. status' # "ok" /\ mode' = "teardown"
      BY <1>1, <2>1 DEF Clean
    <3>4. QED  BY <1>1, <2>1, <2>3, <3>1, <3>2, <3>3 DEF Clean
  <2>6. QED  BY <2>3, <2>4, <2>5 DEF Order
<1>6. CASE Finish
  <2>1. /\ replies = <<>> /\ invalid = <<>> /\ mode' = "freed"
        /\ status' = IF ~Flag("connected") THEN "none"
                     ELSE IF Flag("freeing") \/ ~err THEN "ok" ELSE "error"
        /\ UNCHANGED <<context, obuf, server, cmds, got, asked>>
    BY <1>6 DEF Finish
  <2>2. /\ ~Running' /\ Flag("subscribed")' = Flag("subscribed")
        /\ UNCHANGED <<replies, invalid, obuf, cmds, smon, got>>
    BY <2>1 DEF Running, Flag, context, server
  <2>3. Listed' /\ Accounted' /\ Invalid'
    BY <1>1, <2>2, SameLists
  <2>4. Pending' = {} /\ Pending = {}
    BY <2>1, <2>2 DEF Pending, Elems
  <2>5. Clean'
    <3>1. /\ Plain' = Plain /\ BeforeSubscribing' = BeforeSubscribing
          /\ Flag("freeing")' = Flag("freeing") /\ err' = err
      <4>1. Plain' = Plain /\ cmds' = cmds
        BY <2>1 DEF Plain, Numbers
      <4>2. BeforeSubscribing' = BeforeSubscribing
        BY <4>1 DEF BeforeSubscribing
      <4>3. QED  BY <2>1, <4>1, <4>2 DEF Flag, context
    <3>2. status' = "ok" => Flag("freeing") \/ ~err
      BY <2>1
    <3>3. QED  BY <1>1, <2>1, <2>2, <2>4, <3>1, <3>2 DEF Clean
  <2>6. QED  BY <2>2, <2>3, <2>5 DEF Order
<1>7. QED  BY <1>3, <1>4, <1>5, <1>6 DEF TearDown

-----------------------------------------------------------------------------
(* The tables hold the latest callbacks, for every program. *)
LEMMA SameEntries ==
    ASSUME Newest, UNCHANGED cmds,
           \A pv \in BOOLEAN : Entries(subs[pv])' \subseteq Entries(subs[pv])
    PROVE  Newest'
<1>1. Numbers' = Numbers
  BY DEF Numbers
<1>2. QED  BY <1>1 DEF Newest

LEMMA IssueNewest ==
    ASSUME IInv, Newest, Issue
    PROVE  Newest'
<1>1. PICK s \in Scripts : LET c == s[Len(cmds) + 1]
                           IN /\ Len(cmds) < Len(s)
                              /\ Command(c) \/ Subscribe(c) \/ Unsubscribe(c) \/ Monitor(c)
  BY DEF Issue
<1> DEFINE c == s[Len(cmds) + 1]
<1>2. c \in Call
  BY <1>1, AsyncAssumption DEF AsyncAssumption, IInv, TypeOK
<1>3. Command(c) \/ Subscribe(c) \/ Unsubscribe(c) \/ Monitor(c)
  BY <1>1
<1> HIDE DEF c
<1>4. Accept(c) /\ cmds' = Append(cmds, c)
  BY <1>3 DEF Command, Subscribe, Unsubscribe, Monitor, Accept
<1> PICK N : N = Len(cmds')
  OBVIOUS
<1>5. /\ N \in Nat /\ N \notin Numbers /\ Numbers' = Numbers \cup {N} /\ cmds'[N] = c
      /\ \A n \in Numbers : n < N /\ cmds'[n] = cmds[n]
  <2>1. cmds \in Seq(Call) /\ Len(cmds) \in Nat /\ N = Len(cmds) + 1
    BY <1>2, <1>4 DEF IInv, TypeOK
  <2>2. cmds'[N] = c /\ \A n \in 1 .. Len(cmds) : cmds'[n] = cmds[n]
    BY <1>4, <2>1
  <2>3. QED  BY <2>1, <2>2 DEF Numbers
<1>6. CASE ~Subscribe(c)
  <2>1. UNCHANGED subs /\ c.kind # "subscribe"
    BY <1>3, <1>6 DEF Command, Unsubscribe, Monitor
  <2>2. QED  BY <1>5, <2>1 DEF Newest
<1>7. CASE Subscribe(c)
  <2>1. c.kind = "subscribe" /\ c.pv \in BOOLEAN /\ c.name \in Keys
    BY <1>2, <1>7, CallTypes DEF Subscribe
  <2> DEFINE new == Replace(subs[c.pv], c.name, N)
  <2>2. subs' = [subs EXCEPT ![c.pv] = new] /\ DOMAIN subs = BOOLEAN
    BY <1>7 DEF Subscribe, IInv, Tables
  <2>3. Entries(new) = {e \in Entries(subs[c.pv]) : e.key # c.name}
                          \cup {[key |-> c.name, val |-> N]}
    BY <2>1, ReplaceInMap DEF IInv, Tables
  <2> HIDE DEF new
  <2>4. subs'[c.pv] = new /\ \A pv \in BOOLEAN : pv # c.pv => subs'[pv] = subs[pv]
    BY <2>1, <2>2
  <2>5. ASSUME NEW pv \in BOOLEAN, NEW e \in Entries(subs'[pv])
        PROVE  /\ e.val \in Numbers' /\ cmds'[e.val].kind = "subscribe"
               /\ cmds'[e.val].pv = pv /\ cmds'[e.val].name = e.key
               /\ \A n \in Numbers' : cmds'[n].kind = "subscribe" /\ cmds'[n].pv = pv
                                      /\ cmds'[n].name = e.key => n <= e.val
    <3>1. CASE pv = c.pv /\ e = [key |-> c.name, val |-> N]
      <4>1. e.val = N /\ e.key = c.name
        BY <3>1
      <4>2. \A n \in Numbers' : n <= N
        <5>1. Numbers \subseteq Int /\ N \in Int
          BY <1>5, Basics
        <5>2. ASSUME NEW n \in Numbers' PROVE n <= N
          <6>1. CASE n = N
            BY <5>1, <6>1
          <6>2. CASE n # N
            <7>1. n \in Numbers /\ n < N
              BY <1>5, <5>2, <6>2
            <7>2. n \in Int
              BY <5>1, <7>1
            <7>3. QED  BY <5>1, <7>1, <7>2
          <6>3. QED  BY <6>1, <6>2
        <5>3. QED  BY <5>2
      <4>3. QED  BY <1>5, <2>1, <3>1, <4>1, <4>2
    <3>2. CASE ~(pv = c.pv /\ e = [key |-> c.name, val |-> N])
      <4>1. e \in Entries(subs[pv]) /\ ~(pv = c.pv /\ e.key = c.name)
        <5>1. CASE pv = c.pv
          BY <2>3, <2>4, <2>5, <3>2, <5>1
        <5>2. CASE pv # c.pv
          BY <2>4, <2>5, <5>2
        <5>3. QED  BY <5>1, <5>2
      <4>2. /\ e.val \in Numbers /\ cmds[e.val].kind = "subscribe"
            /\ cmds[e.val].pv = pv /\ cmds[e.val].name = e.key
            /\ \A n \in Numbers : cmds[n].kind = "subscribe" /\ cmds[n].pv = pv
                                  /\ cmds[n].name = e.key => n <= e.val
        BY <4>1 DEF Newest
      <4>3. QED  BY <1>5, <4>1, <4>2
    <3>3. QED  BY <3>1, <3>2
  <2>6. QED  BY <2>5 DEF Newest
<1>8. QED  BY <1>6, <1>7

LEMMA NextNewest ==
    ASSUME IInv, Newest, [Next]_vars
    PROVE  Newest'
<1>1. CASE Issue
  BY <1>1, IssueNewest
<1>2. CASE ReplyToSubscription
  <2>1. PICK r : r = Head(rdr)
    OBVIOUS
  <2>2. \A pv \in BOOLEAN : Entries(subs[pv])' \subseteq Entries(subs[pv])
    BY <1>2, <2>1, SubscriptionFacts
  <2>3. UNCHANGED cmds
    BY <1>2 DEF ReplyToSubscription, Run
  <2>4. QED  BY <2>2, <2>3, SameEntries
<1>3. CASE FreeSubscriptions
  <2>1. Entries(EmptyDict) = {}
    BY DEF Entries, EmptyDict
  <2>2. \A pv \in BOOLEAN : Entries(subs'[pv]) = {}
    BY <1>3, <2>1 DEF FreeSubscriptions
  <2>3. QED  BY <2>2 DEF Newest
<1>4. CASE UNCHANGED <<subs, cmds>>
  BY <1>4, SameEntries
<1>5. UNCHANGED vars \/ Environment \/ Disconnect \/ Free \/ Write \/ HandleRead \/ ReadFails \/ GetReplyFails
        => UNCHANGED <<subs, cmds>>
  BY DEF vars, context, history, Environment, Publish, MonitorLine, Pushes, Rejects, LoseConnection,
     Disconnect, Free, Write, HandleWrite, HandleWriteNone, WriteFails, ConnectFails, HandleRead,
     ReadFails, GetReplyFails
<1>6. ASSUME \/ ReplyToCommand \/ SpontaneousError \/ Unexpected \/ ReplyToInvalid \/ ReplyToNobody
             \/ RunWild \/ NoMoreReplies \/ Return
      PROVE  UNCHANGED <<subs, cmds>>
  BY <1>6 DEF ReplyToCommand, SpontaneousError, Unexpected, ReplyToInvalid, ReplyToNobody, RunWild,
     NoMoreReplies, Return, Run, context, history
<1>7. FreeReply \/ FreeInvalid \/ Finish => UNCHANGED <<subs, cmds>>
  BY DEF FreeReply, FreeInvalid, Finish, Bereave, Gone, context
<1>8. QED
  BY <1>1, <1>2, <1>3, <1>4, <1>5, <1>6, <1>7 DEF Next, Program, Process, TearDown

LEMMA InitialOrdered == Init => Ordered
<1> SUFFICES ASSUME Init PROVE Ordered
  OBVIOUS
<1>1. /\ mode = "loop" /\ flags = {} /\ err = FALSE /\ replies = <<>> /\ invalid = <<>>
      /\ subs = [pv \in BOOLEAN |-> EmptyDict] /\ obuf = <<>> /\ rdr = <<>> /\ sock = <<>>
      /\ ssub = {} /\ smon = FALSE /\ cmds = <<>> /\ got = <<>> /\ status = "none"
  BY DEF Init
<1>2. IInv
  BY Initial
<1>3. /\ W = <<>> /\ Elems(replies) = {} /\ Elems(invalid) = {} /\ Elems(obuf) = {} /\ Pending = {}
      /\ Numbers = {} /\ DOMAIN W = {}
  BY <1>1 DEF W, Elems, Pending, Numbers
<1>4. Answers = {} /\ Arrays = {} /\ Leaves = {} /\ Plain = {} /\ BeforeSubscribing = {}
  BY <1>3 DEF Answers, Arrays, Leaves, Plain, BeforeSubscribing
<1>5. \A pv \in BOOLEAN : Entries(subs[pv]) = {}
  BY <1>1 DEF Entries, EmptyDict
<1>6. Newest
  BY <1>5 DEF Newest
<1>7. \A k \in Subscriptions : ~InTable(k)
  BY <1>5 DEF InTable, Subscriptions
<1>8. Listed /\ Accounted /\ Invalid /\ Clean
  <2>1. Listed
    BY <1>1, <1>3 DEF Listed, Increasing
  <2>2. Accounted /\ Invalid /\ Clean
    BY <1>1, <1>3, <1>4 DEF Accounted, Invalid, Clean, Flag
  <2>3. QED  BY <2>1, <2>2
<1>9. Queue
  <2>1. Matching
    BY <1>1, <1>3, <1>4 DEF Matching
  <2>2. ArraysDue /\ LeavesLast /\ Unwritten
    BY <1>1, <1>3, <1>4 DEF ArraysDue, LeavesLast, Unwritten
  <2>3. ServerAgrees
    BY <1>1, <1>7 DEF ServerAgrees
  <2>4. QED  BY <2>1, <2>2, <2>3 DEF Queue
<1>10. QED  BY <1>2, <1>6, <1>8, <1>9 DEF Ordered, Order

LEMMA NextOrdered == Ordered /\ [Next]_vars => Ordered'
<1> SUFFICES ASSUME Ordered, [Next]_vars PROVE Ordered'
  OBVIOUS
<1>1. IInv /\ Newest /\ IInv' /\ Newest'
  BY NextIInv, NextNewest DEF Ordered
<1>2. ASSUME Orderly' PROVE Order'
  <2>1. Order /\ misuse' = {} /\ "monitoring" \notin flags /\ "monitoring" \notin flags'
    BY <1>1, <1>2, OrderlyBefore DEF Ordered
  <2>2. CASE UNCHANGED vars
    <3>1. Clean'
      BY <2>1, <2>2 DEF Order, Clean, vars, context, history, Running, Flag, BeforeSubscribing, Plain,
         Pending, Numbers
    <3>2. /\ W' = W /\ Flag("subscribed")' = Flag("subscribed") /\ Running' = Running
          /\ UNCHANGED <<replies, invalid, subs, obuf, cmds, got, ssub, smon, down, reading>>
      BY <2>2 DEF vars, context, server, events, history, W, Flag, Running
    <3>3. QED  BY <1>1, <2>1, <3>1, <3>2, Quiet
  <2>3. CASE Environment
    BY <1>1, <2>1, <2>3, EnvironmentOrder
  <2>4. CASE Program
    BY <1>1, <2>1, <2>4, IssueOrder, LeaveOrder DEF Program
  <2>5. CASE Write \/ HandleRead \/ ReadFails
    BY <1>1, <2>1, <2>5, WriteOrder, ReadOrder
  <2>6. CASE Process \/ GetReplyFails
    BY <1>1, <2>1, <2>6, ProcessOrder
  <2>7. CASE TearDown
    BY <1>1, <2>1, <2>7, TearDownOrder
  <2>8. QED  BY <2>2, <2>3, <2>4, <2>5, <2>6, <2>7 DEF Next
<1>3. QED  BY <1>1, <1>2 DEF Ordered

(* The replies under way are to the callbacks that wait, in their order.    *)
LEMMA OrderInvariant == Spec => []Ordered
BY InitialOrdered, NextOrdered, PTL DEF Spec

-----------------------------------------------------------------------------
(* Whatever the connection and the server do, and wherever the context is   *)
(* freed: the callback of a command of an orderly program is called once    *)
(* (async.c:207-253, 262-281).                                              *)
THEOREM CallbacksAreCalledOnce == Spec => []CalledOnce
<1>1. Ordered => CalledOnce
  <2> SUFFICES ASSUME Ordered, Orderly PROVE /\ \A n \in Plain : Len(got[n]) <= 1
                                             /\ mode = "freed" => \A n \in Plain : Len(got[n]) = 1
    BY DEF CalledOnce
  <2>1. Accounted /\ Clean
    BY DEF Ordered, Order
  <2>2. ASSUME NEW n \in Plain PROVE Len(got[n]) <= 1
    <3>1. CASE n \in Pending
      <4>1. got[n] = <<>>
        BY <2>1, <3>1 DEF Accounted
      <4>2. Len(got[n]) = 0
        BY <4>1
      <4>3. QED  BY <4>2
    <3>2. CASE n \notin Pending
      <4>1. Len(got[n]) = 1
        BY <2>1, <3>2 DEF Accounted
      <4>2. QED  BY <4>1
    <3>3. QED  BY <3>1, <3>2
  <2>3. mode = "freed" => \A n \in Plain : Len(got[n]) = 1
    BY <2>1 DEF Accounted, Clean
  <2>4. QED  BY <2>2, <2>3
<1>2. QED  BY <1>1, OrderInvariant, PTL

(* It is called with the reply to its own command, with NULL when the       *)
(* context goes, or with the refusal of the connection, although replies    *)
(* are matched by their order alone (async.c:417-450).                      *)
THEOREM RepliesAreOwn == Spec => []OwnReply
<1>1. Ordered => OwnReply
  <2> SUFFICES ASSUME Ordered, Orderly, NEW n \in Plain, got[n] # <<>>
               PROVE  Head(got[n]) \in {n, NULL, 0}
    BY DEF OwnReply
  <2>1. Accounted /\ got[n] \in Seq(Int)
    BY DEF Ordered, Order, IInv, Heard, Plain, TypeOK
  <2>2. n \notin Pending
    BY <2>1 DEF Accounted
  <2>3. got[n][1] \in {n, NULL, 0} /\ Head(got[n]) = got[n][1]
    BY <2>1, <2>2 DEF Accounted
  <2>4. QED  BY <2>3
<1>2. QED  BY <1>1, OrderInvariant, PTL

(* A context that goes without an error and without redisAsyncFree has      *)
(* answered every command that was issued before it subscribed              *)
(* (hiredis/README.md:301-306).                                             *)
THEOREM CleanHasAnswered == Spec => []CleanIsAnswered
<1>1. Ordered => CleanIsAnswered
  <2> SUFFICES ASSUME Ordered, Orderly, status = "ok", ~Flag("freeing"), NEW n \in BeforeSubscribing
               PROVE  got[n] \in {<<n>>, <<0>>}
    BY DEF CleanIsAnswered
  <2>1. Clean
    BY DEF Ordered, Order
  <2>2. Pending = {} /\ ~err
    BY <2>1 DEF Clean
  <2>3. QED  BY <2>1, <2>2 DEF Clean
<1>2. QED  BY <1>1, OrderInvariant, PTL

(* No orderly program reaches a callback structure that nothing was written *)
(* to, and none an assertion but redisAsyncDisconnect's, with replies       *)
(* outstanding (async.c:320, 367, 442, 447).                                *)
THEOREM UseIsSafe == Spec => []SafeUse
<1>1. Ordered => SafeUse
  BY DEF Ordered, Order, Clean, SafeUse
<1>2. QED  BY <1>1, OrderInvariant, PTL

(* What comes for a subscription goes to the callback of the latest         *)
(* SUBSCRIBE to it, and to no other (async.c:369-371, 590-596).             *)
THEOREM TheLatestHears == Spec => LatestHears
<1> DEFINE r == Head(rdr)
           n == Latest(r)
           Hears == \/ rdr' = rdr
                    \/ r.type = "array" =>
                         got' = IF cmds[n].fn THEN [got EXCEPT ![n] = Append(@, r.to)] ELSE got
<1>1. ASSUME Ordered, [Next]_vars, Orderly, mode = "process", rdr # <<>> PROVE Hears
  <2> SUFFICES ASSUME rdr' # rdr, r.type = "array"
               PROVE  got' = IF cmds[n].fn THEN [got EXCEPT ![n] = Append(@, r.to)] ELSE got
    OBVIOUS
  <2>1. IInv /\ Newest /\ Order /\ Processing /\ "monitoring" \notin flags
    BY <1>1 DEF Ordered, Processing, Orderly, Flag
  <2>2. ReplyToCommand \/ ReplyToSubscription \/ ReplyToInvalid \/ ReplyToNobody
    BY <1>1 DEF vars, Next, Environment, Publish, MonitorLine, Pushes, Rejects, LoseConnection, Program,
       Issue, Command, Subscribe, Unsubscribe, Monitor, Accept, Disconnect, Free, Write, HandleWrite,
       HandleWriteNone, WriteEvent, WriteFails, ConnectFails, HandleRead, ReadEvent, ReadFails,
       GetReplyFails, Process, SpontaneousError, Unexpected, RunWild, NoMoreReplies, Return,
       TearDown, FreeReply, FreeInvalid, FreeSubscriptions, Finish
  <2>3. replies = <<>>
    BY <2>1, HeadOfList, Front
  <2>4. ReplyToSubscription
    BY <2>1, <2>2, <2>3, Followed DEF ReplyToCommand, ReplyToInvalid, ReplyToNobody
  <2>5. PICK s : s = r
    OBVIOUS
  <2>6. PICK m \in Numbers :
          /\ cmds[m].kind = "subscribe" /\ cmds[m].pv = s.pv /\ cmds[m].name = s.name
          /\ \A k \in Numbers : cmds[k].kind = "subscribe" /\ cmds[k].pv = s.pv
                                /\ cmds[k].name = s.name => k <= m
          /\ Run(m, IF s.verb = "unsubscribe" /\ s.count = 0 THEN flags \ {"subscribed"} ELSE flags)
    BY <2>1, <2>4, <2>5, SubscriptionFacts
  <2>7. n = m
    <3> DEFINE of == {k \in Numbers : /\ cmds[k].kind = "subscribe"
                                      /\ cmds[k].pv = r.pv /\ cmds[k].name = r.name}
    <3>1. m \in of /\ \A k \in of : k <= m
      BY <2>5, <2>6
    <3>2. of \subseteq Int
      BY <2>1, Basics
    <3>3. \A k \in of : (\A j \in of : j <= k) => k = m
      BY <3>1, <3>2
    <3>4. n = CHOOSE k \in of : \A j \in of : j <= k
      BY DEF Latest
    <3> HIDE DEF of, n
    <3>5. QED  BY <3>1, <3>3, <3>4
  <2> HIDE DEF n
  <2>8. QED  BY <2>6, <2>7 DEF Run, Given
<1>2. Ordered /\ [Next]_vars => [Orderly /\ mode = "process" /\ rdr # <<>> => Hears]_<<mode, rdr>>
  BY <1>1
<1>3. QED  BY <1>2, OrderInvariant, PTL DEF Spec, LatestHears
=============================================================================
