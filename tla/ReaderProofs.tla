---------------------------- MODULE ReaderProofs ----------------------------
(* Proofs about hiredis' reader, for all replies, ways to cut the input and *)
(* depths of the stack.                                                     *)
EXTENDS ReaderProperties, WellFoundedInduction, TLAPS

-----------------------------------------------------------------------------
(* The order of the items of a reply.                                       *)
LEMMA Smallest ==
  ASSUME NEW S \in SUBSET Nat, S # {}
  PROVE  \E m \in S : \A k \in S : m <= k
<1> DEFINE R == OpToRel(<, Nat)
<1>1. IsWellFoundedOn(R, Nat)
  BY NatLessThanWellFounded
<1>2. \A k, m \in Nat : k < m => <<k, m>> \in R
  BY DEF OpToRel
<1> HIDE DEF R
<1>3. S \subseteq Nat /\ S # {}
  OBVIOUS
<1>4. \E m \in S : \A k \in S : ~(<<k, m>> \in R)
  BY ONLY <1>1, <1>3, WFMin, Zenon
<1> PICK m \in S : \A k \in S : ~(<<k, m>> \in R)
  BY <1>4
<1>5. ASSUME NEW k \in S PROVE m <= k
  <2>1. k \in Nat /\ m \in Nat
    BY <1>3
  <2>2. ~(k < m)
    BY <1>2, <2>1, Zenon
  <2> QED
    BY <2>1, <2>2
<1> QED
  BY <1>5

LEMMA Between ==
  \A a, b, c \in Nat : (a < b /\ b < c => a < c) /\ (a < b => ~(b <= a))
  OBVIOUS

LEMMA SeqItem ==
  ASSUME NEW T, NEW s \in Seq(T), NEW i \in 1..Len(s)
  PROVE  s[i] \in T
  OBVIOUS

LEMMA AppendIs ==
  ASSUME NEW T, NEW s \in Seq(T), NEW x \in T, NEW l \in Nat, l = Len(s)
  PROVE  /\ Append(s, x) \in Seq(T) /\ Len(Append(s, x)) = l + 1
         /\ Append(s, x)[l + 1] = x
         /\ \A i \in 1..l : Append(s, x)[i] = s[i]
  OBVIOUS

LEMMA PrefixIs ==
  ASSUME NEW T, NEW s \in Seq(T), NEW l \in 0..Len(s)
  PROVE  /\ SubSeq(s, 1, l) \in Seq(T) /\ Len(SubSeq(s, 1, l)) = l
         /\ \A i \in 1..l : SubSeq(s, 1, l)[i] = s[i]
  OBVIOUS

(* Two paths differ at a first place, unless they agree as far as both go.  *)
LEMMA FirstDifference ==
  ASSUME NEW p \in Seq(Nat), NEW q \in Seq(Nat),
         NEW i \in 1..Len(p), i <= Len(q), p[i] # q[i]
  PROVE  \E k \in 1..Len(p) :
            /\ k <= Len(q) /\ p[k] # q[k]
            /\ \A j \in 1..k - 1 : p[j] = q[j]
<1> DEFINE S == {k \in 1..Len(p) : k <= Len(q) /\ p[k] # q[k]}
<1>1. S \in SUBSET Nat /\ i \in S
  OBVIOUS
<1>2. PICK k \in S : \A j \in S : k <= j
  BY <1>1, Smallest
<1>4. k \in 1..Len(p) /\ k <= Len(q) /\ p[k] # q[k] /\ Len(p) \in Nat /\ Len(q) \in Nat
  BY <1>2
<1>3. \A j \in 1..k - 1 : p[j] = q[j]
  <2> TAKE j \in 1..k - 1
  <2>1. j \in 1..Len(p) /\ j <= Len(q) /\ ~(k <= j)
    BY ONLY <1>4, j \in 1..k - 1
  <2>2. j \notin S
    BY ONLY <1>2, <2>1, Zenon
  <2> QED
    BY ONLY <2>1, <2>2, Zenon
<1> QED
  BY <1>4, <1>3

LEMMA SamePath ==
  ASSUME NEW p \in Seq(Nat), NEW q \in Seq(Nat), Len(p) = Len(q),
         \A j \in 1..Len(p) : p[j] = q[j]
  PROVE  p = q
  OBVIOUS

LEMMA SamePrefix ==
  ASSUME NEW p \in Seq(Nat), NEW q \in Seq(Nat), NEW k \in 1..Len(p), k <= Len(q),
         \A j \in 1..k - 1 : p[j] = q[j]
  PROVE  SubSeq(p, 1, k - 1) = SubSeq(q, 1, k - 1)
<1>1. SubSeq(p, 1, k - 1) = [j \in 1..k - 1 |-> p[j]]
  OBVIOUS
<1>2. SubSeq(q, 1, k - 1) = [j \in 1..k - 1 |-> q[j]]
  OBVIOUS
<1> QED
  BY <1>1, <1>2, Zenon

LEMMA WholePrefix ==
  ASSUME NEW p \in Seq(Nat), NEW q \in Seq(Nat), NEW k \in 1..Len(q), k = Len(p) + 1,
         \A j \in 1..Len(p) : p[j] = q[j]
  PROVE  SubSeq(q, 1, k - 1) = p
  OBVIOUS

LEMMA PrecedesTotal ==
  ASSUME NEW p \in Seq(Nat), NEW q \in Seq(Nat), p # q
  PROVE  Precedes(p, q) \/ Precedes(q, p)
<1>1. CASE \E i \in 1..Len(p) : i <= Len(q) /\ p[i] # q[i]
  <2>1. PICK k \in 1..Len(p) :
          /\ k <= Len(q) /\ p[k] # q[k]
          /\ \A j \in 1..k - 1 : p[j] = q[j]
    BY <1>1, FirstDifference
  <2>2. p[k] \in Nat /\ q[k] \in Nat
    BY <2>1
  <2>3. CASE p[k] < q[k]
    <3>1. k \in 1..Len(q) /\ k - 1 <= Len(p)
      <4>1. Len(p) \in Nat /\ Len(q) \in Nat
        OBVIOUS
      <4> QED
        BY ONLY <2>1, <4>1, k \in 1..Len(p)
    <3> QED
      BY <2>1, <2>3, <3>1 DEF Precedes
  <2>4. CASE q[k] < p[k]
    <3>1. k - 1 <= Len(q) /\ \A j \in 1..k - 1 : q[j] = p[j]
      BY <2>1
    <3> QED
      BY <2>4, <3>1 DEF Precedes
  <2> QED
    BY <2>1, <2>2, <2>3, <2>4
<1>2. CASE ~ \E i \in 1..Len(p) : i <= Len(q) /\ p[i] # q[i]
  <2>1. CASE Len(p) < Len(q)
    <3>1. PICK k \in 1..Len(q) : k = Len(p) + 1
      BY <2>1
    <3>2. k - 1 <= Len(p) /\ ~(k <= Len(p)) /\ \A j \in 1..k - 1 : p[j] = q[j]
      BY <1>2, <2>1, <3>1
    <3> QED
      BY <3>2 DEF Precedes
  <2>2. CASE Len(q) < Len(p)
    <3>1. PICK k \in 1..Len(p) : k = Len(q) + 1
      BY <2>2
    <3>2. k - 1 <= Len(q) /\ ~(k <= Len(q)) /\ \A j \in 1..k - 1 : q[j] = p[j]
      BY <1>2, <2>2, <3>1
    <3> QED
      BY <3>2 DEF Precedes
  <2>3. CASE Len(p) = Len(q)
    <3>1. \A j \in 1..Len(p) : p[j] = q[j]
      BY <1>2, <2>3
    <3> QED
      BY <2>3, <3>1, SamePath
  <2> QED
    BY <2>1, <2>2, <2>3
<1> QED
  BY <1>1, <1>2

LEMMA PrecedesTransitive ==
  ASSUME NEW x \in Seq(Nat), NEW p \in Seq(Nat), NEW q \in Seq(Nat),
         Precedes(x, p), Precedes(p, q)
  PROVE  Precedes(x, q)
<1>1. PICK k \in 1..Len(p) :
        /\ k - 1 <= Len(x)
        /\ \A j \in 1..k - 1 : x[j] = p[j]
        /\ k <= Len(x) => x[k] < p[k]
  BY DEF Precedes
<1>2. PICK l \in 1..Len(q) :
        /\ l - 1 <= Len(p)
        /\ \A j \in 1..l - 1 : p[j] = q[j]
        /\ l <= Len(p) => p[l] < q[l]
  BY DEF Precedes
<1>3. CASE k < l
  <2>1. k \in 1..Len(q) /\ p[k] = q[k]
    BY <1>1, <1>2, <1>3
  <2>2. \A j \in 1..k - 1 : x[j] = q[j]
    BY <1>1, <1>2, <1>3
  <2> QED
    BY <1>1, <2>1, <2>2 DEF Precedes
<1>4. CASE l <= k
  <2>1. l - 1 <= Len(x) /\ p[l] < q[l]
    BY <1>1, <1>2, <1>4
  <2>2. \A j \in 1..l - 1 : x[j] = q[j]
    BY <1>1, <1>2, <1>4
  <2>3. ASSUME l <= Len(x)
        PROVE  x[l] < q[l]
    <3>1. x[l] \in Nat /\ p[l] \in Nat /\ q[l] \in Nat
      <4>a. Len(p) \in Nat /\ Len(x) \in Nat /\ Len(q) \in Nat
        OBVIOUS
      <4>b. l \in 1..Len(q) /\ k \in 1..Len(p)
        OBVIOUS
      <4>0. l \in Nat /\ 1 <= l /\ k \in 1..Len(p) /\ Len(p) \in Nat /\ Len(x) \in Nat
        BY ONLY <4>a, <4>b
      <4>1. l \in 1..Len(x) /\ l \in 1..Len(p)
        BY ONLY <4>0, <1>4, <2>3
      <4>2. x[l] \in Nat /\ p[l] \in Nat
        BY <4>1, SeqItem, Zenon
      <4>3. q[l] \in Nat
        BY <4>b, SeqItem, Zenon
      <4> QED
        BY <4>2, <4>3
    <3>2. CASE l < k
      <4>1. x[l] = p[l]
        BY <1>1, <3>2
      <4> QED
        BY <2>1, <4>1
    <3>3. CASE l = k
      <4>1. x[k] < p[k]
        BY ONLY <1>1, <2>3, <3>3
      <4>2. x[l] < p[l]
        BY ONLY <4>1, <3>3, Zenon
      <4> QED
        BY ONLY <2>1, <3>1, <4>2, Between, Zenon
    <3> QED
      BY <1>1, <1>2, <1>4, <3>2, <3>3
  <2> QED
    BY <2>1, <2>2, <2>3 DEF Precedes
<1> QED
  BY <1>3, <1>4

(* Where the elements end: an item of r that has none, or none that are     *)
(* left, and the items on the path p below the first j.                     *)
NoItems(r, p) == r[p].type = "array" => r[p].num = 0
Above(p, k) == SubSeq(p, 1, k - 1)
LastOf(r, p, k) == p[k] + 1 = r[Above(p, k)].num

LEMMA AboveIs ==
  ASSUME NEW p \in Seq(Nat), NEW k \in 1..Len(p)
  PROVE  /\ Above(p, k) \in Seq(Nat) /\ Len(Above(p, k)) = k - 1
         /\ \A i \in 1..k - 1 : Above(p, k)[i] = p[i]
<1>1. k - 1 \in 0..Len(p)
  OBVIOUS
<1> QED
  BY <1>1, PrefixIs DEF Above


(* y is the item of r that comes right after x; x is r's last item.         *)
IsNext(r, x, y) ==
    /\ y \in DOMAIN r /\ Precedes(x, y)
    /\ \A z \in DOMAIN r : Precedes(z, y) => z = x \/ Precedes(z, x)
IsLast(r, x) == \A z \in DOMAIN r : z = x \/ Precedes(z, x)

LEMMA ItemsOf ==
  ASSUME NEW r, IsReply(r), NEW p \in DOMAIN r
  PROVE  /\ p \in Seq(Nat)
         /\ \A k \in 1..Len(p) :
              /\ Above(p, k) \in DOMAIN r /\ r[Above(p, k)].type = "array"
              /\ r[Above(p, k)].num \in Nat /\ p[k] < r[Above(p, k)].num
  BY DEF IsReply, Above

(* An item that agrees with p as long as items may follow on p's path is    *)
(* not behind p.                                                            *)
LEMMA NothingBehind ==
  ASSUME NEW r, IsReply(r), NEW p \in DOMAIN r, NEW x \in DOMAIN r, NoItems(r, p),
         NEW j \in 0..Len(p), j <= Len(x), \A i \in 1..j : x[i] = p[i],
         \A i \in j + 1..Len(p) : LastOf(r, p, i)
  PROVE  x = p \/ Precedes(x, p)
<1>1. p \in Seq(Nat) /\ x \in Seq(Nat)
  BY ItemsOf
<1>2. CASE \E i \in 1..Len(x) : i <= Len(p) /\ x[i] # p[i]
  <2>1. PICK k \in 1..Len(x) :
          /\ k <= Len(p) /\ x[k] # p[k]
          /\ \A i \in 1..k - 1 : x[i] = p[i]
    BY <1>1, <1>2, FirstDifference
  <2>2. k \in j + 1..Len(p) /\ k \in 1..Len(p)
    BY <1>1, <2>1
  <2>3. Above(x, k) = Above(p, k)
    BY <1>1, <2>1, <2>2, SamePrefix DEF Above
  <2>4. x[k] < r[Above(p, k)].num /\ r[Above(p, k)].num = p[k] + 1
    BY <2>1, <2>2, <2>3, ItemsOf DEF LastOf
  <2>5. x[k] \in Nat /\ p[k] \in Nat
    BY <1>1, <2>1, <2>2
  <2>6. x[k] < p[k]
    BY <2>1, <2>4, <2>5
  <2>7. k - 1 <= Len(x)
    BY <1>1
  <2> QED
    BY <2>1, <2>2, <2>6, <2>7 DEF Precedes
<1>3. CASE ~ \E i \in 1..Len(x) : i <= Len(p) /\ x[i] # p[i]
  <2>1. CASE Len(x) < Len(p)
    <3>1. PICK k \in 1..Len(p) : k = Len(x) + 1
      BY <1>1, <2>1
    <3>2. k - 1 <= Len(x) /\ ~(k <= Len(x)) /\ \A i \in 1..k - 1 : x[i] = p[i]
      BY <1>1, <1>3, <2>1, <3>1
    <3> QED
      BY <3>2 DEF Precedes
  <2>2. CASE Len(x) = Len(p)
    BY <1>1, <1>3, <2>2, SamePath
  <2>3. CASE Len(x) > Len(p)
    <3>1. PICK k \in 1..Len(x) : k = Len(p) + 1
      BY <1>1, <2>3
    <3>2. Above(x, k) = p
      BY <1>1, <1>3, <2>3, <3>1, WholePrefix DEF Above
    <3>3. r[p].type = "array" /\ r[p].num \in Nat /\ x[k] < r[p].num /\ x[k] \in Nat
      BY <1>1, <3>2, ItemsOf
    <3> QED
      BY <3>3 DEF NoItems
  <2> QED
    BY <1>1, <2>1, <2>2, <2>3
<1> QED
  BY <1>2, <1>3

(* The item after p when p's array, or one above it, goes on at level j:    *)
(* there, one index further.                                                *)
LEMMA NextAlong ==
  ASSUME NEW r, IsReply(r), NEW p \in DOMAIN r, NoItems(r, p),
         NEW j \in 1..Len(p), ~LastOf(r, p, j),
         \A i \in j + 1..Len(p) : LastOf(r, p, i)
  PROVE  IsNext(r, p, Append(Above(p, j), p[j] + 1))
<1> DEFINE q == Append(Above(p, j), p[j] + 1)
<1>1. p \in Seq(Nat) /\ p[j] \in Nat /\ Len(p) \in Nat
  BY ItemsOf
<1>2. Above(p, j) \in Seq(Nat) /\ Len(Above(p, j)) = j - 1
  BY <1>1, AboveIs
<1>3. /\ q \in Seq(Nat) /\ Len(q) = j /\ q[j] = p[j] + 1
      /\ \A i \in 1..j - 1 : q[i] = Above(p, j)[i]
  <2>1. PICK l \in Nat : l = j - 1 /\ l + 1 = j
    BY <1>1
  <2>2. p[j] + 1 \in Nat
    BY <1>1
  <2> QED
    BY ONLY <1>2, <2>1, <2>2, AppendIs
<1>4. \A i \in 1..j - 1 : q[i] = p[i]
  BY <1>1, <1>3, AboveIs, Zenon
<1>5. q \in DOMAIN r
  <2>1. /\ Above(p, j) \in DOMAIN r /\ r[Above(p, j)].type = "array"
        /\ r[Above(p, j)].num \in Nat /\ p[j] < r[Above(p, j)].num
    BY ItemsOf
  <2>2. p[j] + 1 \in 0..r[Above(p, j)].num - 1
    BY <1>1, <2>1 DEF LastOf
  <2> QED
    BY <2>1, <2>2 DEF IsReply
<1>6. Precedes(p, q)
  <2>1. j \in 1..Len(q) /\ j - 1 <= Len(p) /\ p[j] < q[j] /\ \A i \in 1..j - 1 : p[i] = q[i]
    BY <1>1, <1>3, <1>4
  <2> QED
    BY <2>1 DEF Precedes
<1> HIDE DEF q
<1>7. ASSUME NEW x \in DOMAIN r, Precedes(x, q)
      PROVE  x = p \/ Precedes(x, p)
  <2>1. x \in Seq(Nat)
    BY ItemsOf
  <2>2. PICK k \in 1..j :
          /\ k - 1 <= Len(x)
          /\ \A i \in 1..k - 1 : x[i] = q[i]
          /\ k <= Len(x) => x[k] < q[k]
    BY <1>3, <1>7 DEF Precedes
  <2>3. \A i \in 1..k - 1 : x[i] = p[i]
    BY <1>4, <2>2
  <2>4. k \in 1..Len(p)
    BY ONLY <1>1, j \in 1..Len(p), k \in 1..j
  <2>5. CASE k <= Len(x) => x[k] < p[k]
    BY <2>2, <2>3, <2>4, <2>5 DEF Precedes
  <2>6. CASE k <= Len(x) /\ ~(x[k] < p[k])
    <3>1. x[k] \in Nat /\ p[k] \in Nat
      <4>1. \A s \in Seq(Nat) : \A i \in 1..Len(s) : s[i] \in Nat
        OBVIOUS
      <4>2. p \in Seq(Nat) /\ k \in 1..Len(x)
        BY <1>1, <2>1, <2>4, <2>6
      <4>3. QED  BY <4>1, <4>2, <2>1, <2>4
    <3>2. k = j /\ x[k] = p[k]
      <4>1. x[k] < q[k]
        BY ONLY <2>2, <2>6
      <4>2. CASE k = j
        <5>1. q[k] = p[k] + 1
          BY ONLY <1>3, <4>2, Zenon
        <5> QED
          BY ONLY <2>6, <3>1, <4>1, <4>2, <5>1
      <4>3. CASE k # j
        <5>1. k \in 1..j - 1
          BY ONLY <1>1, <2>2, <4>3, j \in 1..Len(p)
        <5>2. q[k] = p[k]
          BY ONLY <1>4, <5>1, Zenon
        <5> QED
          BY ONLY <2>6, <4>1, <5>2, Zenon
      <4> QED
        BY <4>2, <4>3
    <3>3. j \in 0..Len(p) /\ j <= Len(x)
      BY <1>1, <2>6, <3>2
    <3>4. ASSUME NEW i \in 1..j PROVE x[i] = p[i]
      <4>1. i \in 1..k - 1 \/ i = k
        BY <3>2
      <4> QED
        BY <2>3, <3>2, <4>1
    <3> QED
      BY <3>3, <3>4, NothingBehind
  <2> QED
    BY <2>5, <2>6
<1> QED
  BY <1>5, <1>6, <1>7 DEF IsNext, q

LEMMA NextBelow ==
  ASSUME NEW r, IsReply(r), NEW p \in DOMAIN r, r[p].type = "array", r[p].num > 0
  PROVE  IsNext(r, p, Append(p, 0))
<1> DEFINE q == Append(p, 0)
<1>1. p \in Seq(Nat) /\ Len(p) \in Nat /\ r[p].num \in Nat
  BY ItemsOf DEF IsReply
<1>2. PICK l \in Nat : l = Len(p) + 1
  BY <1>1
<1>3. q \in Seq(Nat) /\ Len(q) = l /\ q[l] = 0 /\ \A i \in 1..l - 1 : q[i] = p[i]
  BY <1>1, <1>2
<1>4. q \in DOMAIN r
  <2>1. 0 \in 0..r[p].num - 1
    BY <1>1
  <2> QED
    BY <2>1 DEF IsReply
<1> HIDE DEF q
<1>5. Precedes(p, q)
  <2>1. /\ l \in 1..Len(q) /\ l - 1 <= Len(p) /\ ~(l <= Len(p))
        /\ \A i \in 1..l - 1 : p[i] = q[i]
    BY <1>1, <1>2, <1>3
  <2> QED
    BY <2>1 DEF Precedes
<1>6. ASSUME NEW x \in DOMAIN r, Precedes(x, q)
      PROVE  x = p \/ Precedes(x, p)
  <2>1. x \in Seq(Nat)
    BY ItemsOf
  <2>2. PICK k \in 1..l :
          /\ k - 1 <= Len(x)
          /\ \A i \in 1..k - 1 : x[i] = q[i]
          /\ k <= Len(x) => x[k] < q[k]
    BY <1>3, <1>6 DEF Precedes
  <2>3. \A i \in 1..k - 1 : x[i] = p[i]
    BY <1>3, <2>2
  <2>4. CASE k < l
    <3>1. k \in 1..Len(p) /\ (k <= Len(x) => x[k] < p[k])
      BY <1>1, <1>2, <1>3, <2>2, <2>4
    <3> QED
      BY <2>2, <2>3, <3>1 DEF Precedes
  <2>5. CASE k = l
    <3>1. ~(k <= Len(x))
      <4> SUFFICES ASSUME k <= Len(x) PROVE FALSE
        OBVIOUS
      <4>1. k \in 1..Len(x)
        BY <2>1, <2>2
      <4>2. x[k] \in Nat
        BY <2>1, <4>1
      <4>3. q[k] = 0
        BY <1>3, <2>5
      <4>4. x[k] < q[k]
        BY <2>2
      <4> QED
        BY <4>2, <4>3, <4>4
    <3>2. Len(x) = Len(p) /\ \A i \in 1..Len(p) : x[i] = p[i]
      BY <1>1, <1>2, <2>1, <2>2, <2>3, <2>5, <3>1
    <3> QED
      BY <1>1, <2>1, <3>2, SamePath
  <2> QED
    BY <2>4, <2>5
<1> QED
  BY <1>4, <1>5, <1>6 DEF IsNext, q

LEMMA NoneNext ==
  ASSUME NEW r, IsReply(r), NEW p \in DOMAIN r, NoItems(r, p),
         \A i \in 1..Len(p) : LastOf(r, p, i)
  PROVE  IsLast(r, p)
<1> SUFFICES ASSUME NEW x \in DOMAIN r
             PROVE  x = p \/ Precedes(x, p)
  BY DEF IsLast
<1>1. p \in Seq(Nat) /\ x \in Seq(Nat)
  BY ItemsOf
<1>2. PICK j \in 0..Len(p) : j = 0
  BY <1>1
<1>3. j <= Len(x) /\ j + 1 = 1 /\ \A i \in 1..j : x[i] = p[i]
  BY <1>1, <1>2
<1> QED
  BY <1>3, NothingBehind

(* The items up to x are those before y.                                    *)
LEMMA UpToNext ==
  ASSUME NEW r, IsReply(r), NEW x \in DOMAIN r, NEW y, IsNext(r, x, y)
  PROVE  {z \in DOMAIN r : Precedes(z, y)} = {z \in DOMAIN r : Precedes(z, x)} \cup {x}
<1>1. y \in DOMAIN r
  BY DEF IsNext
<1>2. ASSUME NEW z \in DOMAIN r, Precedes(z, x)
      PROVE  Precedes(z, y)
  <2>1. x \in Seq(Nat) /\ y \in Seq(Nat) /\ z \in Seq(Nat)
    BY <1>1, ItemsOf
  <2> QED
    BY <1>2, <2>1, PrecedesTransitive DEF IsNext
<1> QED
  BY <1>2 DEF IsNext

(* The stream: an item ends where the next one starts.                      *)
LEMMA Stream ==
  ASSUME NEW s \in Sent
  PROVE  /\ Len(s) \in Nat /\ DOMAIN s = 1..Len(s)
         /\ \A i \in 1..Len(s) : IsReply(s[i])
         /\ IsStream(s)
         /\ WireOf[s] \in Seq(Units)
         /\ Len(WireOf[s]) \in Nat
  BY ProtocolAssumption DEF IsStream

LEMMA InStream ==
  ASSUME NEW s \in Sent, NEW x \in Items(s)
  PROVE  /\ x[1] \in 1..Len(s) /\ x[2] \in DOMAIN s[x[1]] /\ x[2] \in Seq(Nat)
         /\ x = <<x[1], x[2]>>
         /\ IsReply(s[x[1]])
<1>1. PICK i \in 1..Len(s) : x \in {i} \X DOMAIN s[i]
  BY DEF Items
<1>2. x[1] = i /\ x[2] \in DOMAIN s[i] /\ x = <<x[1], x[2]>>
  BY <1>1
<1>3. IsReply(s[i])
  BY Stream
<1> QED
  BY <1>2, <1>3, ItemsOf

LEMMA UnitHas ==
  ASSUME NEW t, NEW n
  PROVE  Type(t).type = t /\ Num(n).num = n
  BY DEF Type, Num

LEMMA Pair ==
  ASSUME NEW a, NEW b
  PROVE  Len(<<a, b>>) = 2 /\ <<a, b>>[1] = a /\ <<a, b>>[2] = b
  OBVIOUS

LEMMA Triple ==
  ASSUME NEW a, NEW b, NEW c
  PROVE  /\ Len(<<a, b, c>>) = 3
         /\ <<a, b, c>>[1] = a /\ <<a, b, c>>[2] = b /\ <<a, b, c>>[3] = c
  OBVIOUS

LEMMA UnitsAre ==
  ASSUME NEW node \in [type : NodeTypes, num : Int]
  PROVE  /\ Len(ItemUnits(node)) \in {2, 3}
         /\ ItemUnits(node)[1].type \in LineTypes \cup {"string", "array", "bad"}
         /\ node.type # "string" => Len(ItemUnits(node)) = 2
         /\ node.type \in LineTypes =>
              ItemUnits(node)[1].type = node.type /\ ItemUnits(node)[2].num = node.num
         /\ node.type = "string" =>
              /\ Len(ItemUnits(node)) = 3
              /\ ItemUnits(node)[1].type = "string"
              /\ ItemUnits(node)[2].num = 1 /\ ItemUnits(node)[3].num = node.num
         /\ node.type = "nil" =>
              ItemUnits(node)[1].type = "string" /\ ItemUnits(node)[2].num = -1
         /\ node.type = "no array" =>
              ItemUnits(node)[1].type = "array" /\ ItemUnits(node)[2].num = -1
         /\ node.type = "array" =>
              ItemUnits(node)[1].type = "array" /\ ItemUnits(node)[2].num = node.num
         /\ node.type = "bad" => ItemUnits(node)[1].type = "bad"
<1> DEFINE u == ItemUnits(node)
<1>1. CASE node.type \in LineTypes
  <2>1. node.type \notin {"string", "nil", "no array", "array", "bad"}
    BY <1>1 DEF LineTypes
  <2>2. u = <<Type(node.type), Num(node.num)>>
    BY <1>1, <2>1 DEF ItemUnits, LineTypes
  <2> HIDE DEF u
  <2>3. Len(u) = 2 /\ u[1].type = node.type /\ u[2].num = node.num
    BY <2>2, Pair, UnitHas
  <2> QED
    BY <1>1, <2>1, <2>3 DEF u
<1>2. CASE node.type = "string"
  <2>1. u = <<Type("string"), Num(1), Num(node.num)>>
    BY <1>2 DEF ItemUnits, LineTypes
  <2> HIDE DEF u
  <2>2. Len(u) = 3 /\ u[1].type = "string" /\ u[2].num = 1 /\ u[3].num = node.num
    BY <2>1, Triple, UnitHas
  <2> QED
    BY <1>2, <2>2 DEF u, LineTypes
<1>3. CASE node.type = "nil"
  <2>1. u = <<Type("string"), Num(-1)>>
    BY <1>3 DEF ItemUnits, LineTypes
  <2> HIDE DEF u
  <2>2. Len(u) = 2 /\ u[1].type = "string" /\ u[2].num = -1
    BY <2>1, Pair, UnitHas
  <2> QED
    BY <1>3, <2>2 DEF u, LineTypes
<1>4. CASE node.type = "no array"
  <2>1. u = <<Type("array"), Num(-1)>>
    BY <1>4 DEF ItemUnits, LineTypes
  <2> HIDE DEF u
  <2>2. Len(u) = 2 /\ u[1].type = "array" /\ u[2].num = -1
    BY <2>1, Pair, UnitHas
  <2> QED
    BY <1>4, <2>2 DEF u, LineTypes
<1>5. CASE node.type = "array"
  <2>1. u = <<Type("array"), Num(node.num)>>
    BY <1>5 DEF ItemUnits, LineTypes
  <2> HIDE DEF u
  <2>2. Len(u) = 2 /\ u[1].type = "array" /\ u[2].num = node.num
    BY <2>1, Pair, UnitHas
  <2> QED
    BY <1>5, <2>2 DEF u, LineTypes
<1>6. CASE node.type = "bad"
  <2>1. u = <<Type("bad"), Num(0)>>
    BY <1>6 DEF ItemUnits, LineTypes
  <2> HIDE DEF u
  <2>2. Len(u) = 2 /\ u[1].type = "bad" /\ u[2].num = 0
    BY <2>1, Pair, UnitHas
  <2> QED
    BY <1>6, <2>2 DEF u, LineTypes
<1> QED
  BY <1>1, <1>2, <1>3, <1>4, <1>5, <1>6 DEF NodeTypes

LEMMA UnitsLen ==
  ASSUME NEW s \in Sent, NEW x \in Items(s)
  PROVE  /\ PlaceOf[s][x] \in Nat /\ EndOf(s, x) \in Nat
         /\ PlaceOf[s][x] + 2 <= EndOf(s, x)
         /\ EndOf(s, x) <= Len(WireOf[s])
<1>1. s[x[1]][x[2]] \in [type : NodeTypes, num : Int]
  BY InStream DEF IsReply
<1>2. Len(UnitsOf(s, x)) \in {2, 3}
  BY <1>1, UnitsAre DEF UnitsOf
<1>3. PlaceOf[s][x] \in Nat /\ EndOf(s, x) <= Len(WireOf[s])
  BY Stream DEF IsStream
<1>4. PICK l \in {2, 3} : EndOf(s, x) = PlaceOf[s][x] + l
  BY <1>2 DEF EndOf
<1>5. EndOf(s, x) \in Nat /\ PlaceOf[s][x] + 2 <= EndOf(s, x)
  BY <1>3, <1>4
<1> QED
  BY <1>3, <1>5

LEMMA BeforeTotal ==
  ASSUME NEW s \in Sent, NEW x \in Items(s), NEW y \in Items(s)
  PROVE  x = y \/ Before(x, y) \/ Before(y, x)
<1>1. CASE x[1] = y[1] /\ x[2] = y[2]
  <2>1. x = <<x[1], x[2]>> /\ y = <<y[1], y[2]>>
    BY InStream
  <2> QED
    BY ONLY <1>1, <2>1
<1>2. CASE x[1] = y[1] /\ x[2] # y[2]
  <2>1. Precedes(x[2], y[2]) \/ Precedes(y[2], x[2])
    BY <1>2, InStream, PrecedesTotal
  <2> QED
    BY <1>2, <2>1 DEF Before
<1>3. CASE x[1] # y[1]
  <2>1. x[1] \in Nat /\ y[1] \in Nat
    BY InStream, Stream
  <2> QED
    BY <1>3, <2>1 DEF Before
<1> QED
  BY <1>1, <1>2, <1>3

LEMMA EndsBeforeNext ==
  ASSUME NEW s \in Sent, NEW x \in Items(s), NEW y \in Items(s), Before(x, y)
  PROVE  EndOf(s, x) <= PlaceOf[s][y]
  BY Stream DEF IsStream

LEMMA EndIsAPlace ==
  ASSUME NEW s \in Sent, NEW x \in Items(s)
  PROVE  EndOf(s, x) = Len(WireOf[s]) \/ \E y \in Items(s) : EndOf(s, x) = PlaceOf[s][y]
  BY Stream DEF IsStream

(* What starts where x ends comes after x.                                  *)
LEMMA StartsBehind ==
  ASSUME NEW s \in Sent, NEW x \in Items(s), NEW y \in Items(s), EndOf(s, x) = PlaceOf[s][y]
  PROVE  Before(x, y) /\ y # x /\ ~Before(y, x)
<1>1. y # x
  BY UnitsLen
<1>2. ~Before(y, x)
  <2> SUFFICES ASSUME Before(y, x) PROVE FALSE
    OBVIOUS
  <2>1. EndOf(s, y) <= PlaceOf[s][x]
    BY EndsBeforeNext
  <2> QED
    BY <2>1, UnitsLen
<1> QED
  BY <1>1, <1>2, BeforeTotal

LEMMA NextPlace ==
  ASSUME NEW s \in Sent, NEW x \in Items(s), NEW z \in Items(s), Before(x, z),
         \A y \in Items(s) : Before(y, z) => y = x \/ Before(y, x)
  PROVE  EndOf(s, x) = PlaceOf[s][z]
<1>1. EndOf(s, x) <= PlaceOf[s][z]
  BY EndsBeforeNext
<1>2. EndOf(s, x) # Len(WireOf[s])
  BY <1>1, UnitsLen
<1>3. PICK y \in Items(s) : EndOf(s, x) = PlaceOf[s][y]
  BY <1>2, EndIsAPlace
<1>4. ~Before(y, z)
  BY <1>3, StartsBehind
<1>5. ~Before(z, y)
  <2> SUFFICES ASSUME Before(z, y) PROVE FALSE
    OBVIOUS
  <2>1. EndOf(s, z) <= PlaceOf[s][y]
    BY EndsBeforeNext
  <2> QED
    BY <1>1, <1>3, <2>1, UnitsLen
<1>6. y = z
  BY <1>4, <1>5, BeforeTotal
<1> QED
  BY <1>3, <1>6

LEMMA LastPlace ==
  ASSUME NEW s \in Sent, NEW x \in Items(s), \A y \in Items(s) : y = x \/ Before(y, x)
  PROVE  EndOf(s, x) = Len(WireOf[s])
  BY EndIsAPlace, StartsBehind

(* Within a reply, and from one to the next.                                *)
LEMMA NextItem ==
  ASSUME NEW s \in Sent, NEW n \in 1..Len(s), NEW p \in DOMAIN s[n], NEW q, IsNext(s[n], p, q)
  PROVE  <<n, q>> \in Items(s) /\ EndOf(s, <<n, p>>) = PlaceOf[s][<<n, q>>]
<1>1. <<n, p>> \in Items(s) /\ <<n, q>> \in Items(s)
  BY DEF Items, IsNext
<1>2. Before(<<n, p>>, <<n, q>>)
  BY DEF Before, IsNext
<1>3. ASSUME NEW y \in Items(s), Before(y, <<n, q>>)
      PROVE  y = <<n, p>> \/ Before(y, <<n, p>>)
  <2>1. CASE y[1] < n
    BY <2>1 DEF Before
  <2>2. CASE y[1] = n /\ Precedes(y[2], q)
    <3>1. y[2] = p \/ Precedes(y[2], p)
      BY <2>2, InStream DEF IsNext
    <3> QED
      BY <2>2, <3>1, InStream, Zenon DEF Before
  <2> QED
    BY <1>3, <2>1, <2>2 DEF Before
<1> QED
  BY <1>1, <1>2, <1>3, NextPlace

LEMMA NextReply ==
  ASSUME NEW s \in Sent, NEW n \in 1..Len(s), NEW p \in DOMAIN s[n], IsLast(s[n], p)
  PROVE  EndOf(s, <<n, p>>) = StartOf(s, n + 1)
<1>1. <<n, p>> \in Items(s) /\ Len(s) \in Nat
  BY Stream DEF Items
<1>2. ASSUME NEW y \in Items(s), y[1] <= n
      PROVE  y = <<n, p>> \/ Before(y, <<n, p>>)
  <2>1. CASE y[1] < n
    BY <2>1 DEF Before
  <2>2. CASE y[1] = n
    <3>1. y[2] = p \/ Precedes(y[2], p)
      BY <2>2, InStream DEF IsLast
    <3> QED
      BY <2>2, <3>1, InStream, Zenon DEF Before
  <2>3. y[1] \in Nat
    BY <1>1, InStream
  <2> QED
    BY <1>2, <2>1, <2>2, <2>3
<1>3. CASE n = Len(s)
  <2>1. \A y \in Items(s) : y[1] <= n
    BY <1>1, <1>3, InStream
  <2>2. EndOf(s, <<n, p>>) = Len(WireOf[s])
    BY <1>1, <1>2, <2>1, LastPlace
  <2> QED
    BY <1>1, <1>3, <2>2 DEF StartOf
<1>4. CASE n < Len(s)
  <2> DEFINE z == <<n + 1, << >> >>
  <2>1. n + 1 \in 1..Len(s)
    BY <1>1, <1>4
  <2>2. z \in Items(s)
    BY <2>1, Stream DEF Items, IsReply
  <2>3. Before(<<n, p>>, z)
    BY DEF Before
  <2>4. \A y \in Items(s) : Before(y, z) => y[1] <= n
    <3> TAKE y \in Items(s)
    <3>1. ~Precedes(y[2], << >>) /\ y[1] \in Nat
      BY <1>1, InStream DEF Precedes
    <3> QED
      BY <3>1 DEF Before
  <2>5. EndOf(s, <<n, p>>) = PlaceOf[s][z]
    BY <1>1, <1>2, <2>2, <2>3, <2>4, NextPlace
  <2> QED
    BY <2>1, <2>5 DEF StartOf
<1> QED
  BY <1>1, <1>3, <1>4

(* No item of a reply ends behind it.                                       *)
LEMMA EndsWithin ==
  ASSUME NEW s \in Sent, NEW n \in 1..Len(s), NEW p \in DOMAIN s[n]
  PROVE  <<n, p>> \in Items(s) /\ EndOf(s, <<n, p>>) <= StartOf(s, n + 1)
<1>1. <<n, p>> \in Items(s) /\ Len(s) \in Nat
  BY Stream DEF Items
<1>2. CASE n = Len(s)
  BY <1>1, <1>2, UnitsLen DEF StartOf
<1>3. CASE n < Len(s)
  <2> DEFINE z == <<n + 1, << >> >>
  <2>1. n + 1 \in 1..Len(s)
    BY <1>1, <1>3
  <2>2. z \in Items(s)
    BY <2>1, Stream DEF Items, IsReply
  <2>3. Before(<<n, p>>, z)
    BY DEF Before
  <2>4. EndOf(s, <<n, p>>) <= PlaceOf[s][z]
    BY <1>1, <2>2, <2>3, EndsBeforeNext
  <2> QED
    BY <1>1, <2>1, <2>4 DEF StartOf
<1> QED
  BY <1>1, <1>2, <1>3

-----------------------------------------------------------------------------
(* The inductive invariant.  What is parsed of the stream, counted from its *)
(* start, stays the same when the buffer is cut.                            *)
Parsed == Fed - Len(buf) + pos

BufferOK ==
    /\ sent \in Sent /\ wire \in Seq(Units) /\ buf \in Seq(Units)
    /\ Fed \in 0..Len(WireOf[sent]) /\ Len(buf) <= Fed /\ pos \in 0..Len(buf)
    /\ \A k \in 1..Len(wire) : wire[k] = WireOf[sent][Fed + k]
    /\ \A k \in 1..Len(buf) : buf[k] = WireOf[sent][Fed - Len(buf) + k]

TakenOK ==
    /\ taken \in Seq({Seen(sent[i]) : i \in 1..Len(sent)})
    /\ RepliesInOrder

(* The tasks are the item at the path p of r, and the arrays above it.      *)
PathOf(st) == [k \in 1..Len(st) - 1 |-> st[k + 1].idx]

Task == [type : {"none", "error", "status", "integer", "string", "array"},
         elements : Int, idx : Int]

Stack(r, st) ==
    /\ st \in Seq(Task)
    /\ Len(st) \in 1..MaxTasks
    /\ PathOf(st) \in DOMAIN r
    /\ \A k \in 1..Len(st) - 1 :
         st[k].type = "array" /\ st[k].elements = r[Above(PathOf(st), k)].num

(* The reply in hand, and where the item in hand starts.                    *)
Hand == sent[Len(taken) + 1]
Here == PlaceOf[sent][<<Len(taken) + 1, Path>>]
There == EndOf(sent, <<Len(taken) + 1, Path>>)

Idle ==
    /\ rstack = <<>> /\ ~calling
    /\ reply = <<>>
    /\ Parsed = StartOf(sent, Len(taken) + 1)

Over ==
    /\ rstack = <<Untyped(-1)>>
    /\ reply = <<>>
    /\ Len(taken) = Len(sent)
    /\ Parsed = Len(WireOf[sent])

ItemOK ==
    \/ Cur.type = "none" /\ Parsed = Here
    \/ /\ Cur.type = ItemUnits(Hand[Path])[1].type /\ Cur.type # "bad"
       /\ Parsed = Here + 1

Within ==
    /\ Len(taken) < Len(sent)
    /\ Stack(Hand, rstack)
    /\ ItemOK
    /\ reply = [p \in {p \in DOMAIN Hand : Precedes(p, Path)} |-> SeenNode(Hand[p])]
    /\ \A p \in DOMAIN Hand : Precedes(p, Path) => ~BadItem(Hand, p)

Ready ==
    /\ rstack = <<>> /\ calling
    /\ Len(taken) < Len(sent)
    /\ reply = Seen(Hand) /\ ~Unreadable(Hand)
    /\ Parsed = StartOf(sent, Len(taken) + 2)

Failed ==
    /\ err # "none" /\ ErrorIsDue
    /\ rstack = <<>> /\ ~calling

IInv ==
    /\ BufferOK /\ TakenOK
    /\ calling \in BOOLEAN
    /\ err \in {"none", "protocol", "oom"}
    /\ Failed \/ (err = "none" /\ (Idle \/ Over \/ Within \/ Ready))

-----------------------------------------------------------------------------
(* The buffer.                                                              *)
LEMMA Sees ==
  ASSUME BufferOK, NEW i \in {1, 2}, Has(i)
  PROVE  /\ Parsed \in Nat /\ Parsed + i <= Fed /\ Parsed + i <= Len(WireOf[sent])
         /\ Unit(i) = WireOf[sent][Parsed + i]
<1>1. /\ Len(buf) \in Nat /\ Fed \in Nat /\ Fed <= Len(WireOf[sent]) /\ Len(buf) <= Fed
      /\ pos \in Nat /\ pos <= Len(buf) /\ Len(WireOf[sent]) \in Nat
  BY Stream DEF BufferOK
<1>2. pos + i \in 1..Len(buf)
  BY <1>1 DEF Has
<1>3. buf[pos + i] = WireOf[sent][Fed - Len(buf) + (pos + i)]
  BY <1>2 DEF BufferOK
<1>4. Fed - Len(buf) + (pos + i) = Parsed + i /\ Parsed \in Nat
  BY <1>1 DEF Parsed
<1>5. Parsed + i <= Fed
  BY <1>1, <1>2 DEF Parsed
<1> QED
  BY <1>1, <1>3, <1>4, <1>5 DEF Unit

LEMMA FeedBuffer ==
  ASSUME BufferOK, Feed
  PROVE  BufferOK' /\ Parsed' = Parsed
<1>1. PICK n \in 1..Len(wire) :
        /\ buf' = buf \o SubSeq(wire, 1, n)
        /\ wire' = SubSeq(wire, n + 1, Len(wire))
  BY DEF Feed
<1>2. sent' = sent /\ pos' = pos
  BY DEF Feed
<1>3. /\ sent \in Sent /\ Len(WireOf[sent]) \in Nat
      /\ wire \in Seq(Units) /\ buf \in Seq(Units)
      /\ Len(wire) \in Nat /\ Len(buf) \in Nat
  BY Stream DEF BufferOK
<1>4. PICK f \in 0..Len(WireOf[sent]) : f = Fed
  BY DEF BufferOK
<1>5. f = Len(WireOf[sent]) - Len(wire) /\ Len(buf) <= f /\ f \in Int
  BY <1>3, <1>4 DEF BufferOK, Fed
<1>6. /\ SubSeq(wire, 1, n) \in Seq(Units) /\ Len(SubSeq(wire, 1, n)) = n
      /\ \A k \in 1..n : SubSeq(wire, 1, n)[k] = wire[k]
  BY <1>3
<1>7. /\ wire' \in Seq(Units) /\ Len(wire') = Len(wire) - n
      /\ \A k \in 1..Len(wire) - n : wire'[k] = wire[n + k]
  BY <1>1, <1>3
<1>8. /\ buf' \in Seq(Units) /\ Len(buf') = Len(buf) + n
      /\ \A k \in 1..Len(buf) : buf'[k] = buf[k]
      /\ \A k \in 1..n : buf'[Len(buf) + k] = wire[k]
  BY <1>1, <1>3, <1>6
<1>9. Fed' = f + n
  BY <1>2, <1>3, <1>5, <1>7 DEF Fed
<1>10. \A k \in 1..Len(wire') : wire'[k] = WireOf[sent][Fed' + k]
  <2> TAKE k \in 1..Len(wire')
  <2>1. k \in 1..Len(wire) - n /\ n + k \in 1..Len(wire)
    BY <1>3, <1>7
  <2>2. wire[n + k] = WireOf[sent][Fed + (n + k)]
    BY <2>1 DEF BufferOK
  <2>3. Fed + (n + k) = Fed' + k
    BY <1>4, <1>9
  <2> QED
    BY <1>7, <2>1, <2>2, <2>3
<1>11. \A k \in 1..Len(buf') : buf'[k] = WireOf[sent][Fed' - Len(buf') + k]
  <2> TAKE k \in 1..Len(buf')
  <2>1. Fed' - Len(buf') + k = f - Len(buf) + k
    BY <1>3, <1>5, <1>8, <1>9
  <2>2. CASE k <= Len(buf)
    <3>1. k \in 1..Len(buf) /\ buf[k] = WireOf[sent][Fed - Len(buf) + k]
      BY <2>2 DEF BufferOK
    <3> QED
      BY <1>4, <1>8, <2>1, <3>1
  <2>3. CASE k > Len(buf)
    <3>1. PICK i \in 1..n : k = Len(buf) + i
      <4>1. k - Len(buf) \in 1..n /\ k = Len(buf) + (k - Len(buf))
        BY <1>3, <1>8, <2>3
      <4> QED
        BY <4>1
    <3>2. i \in 1..Len(wire)
      BY <1>3
    <3>3. wire[i] = WireOf[sent][Fed + i]
      BY <3>2 DEF BufferOK
    <3>4. Fed + i = f - Len(buf) + k
      BY <1>3, <1>4, <3>1
    <3> QED
      BY <1>8, <2>1, <3>1, <3>3, <3>4
  <2> QED
    BY <1>3, <2>2, <2>3
<1>12. Fed' \in 0..Len(WireOf[sent]) /\ Len(buf') <= Fed' /\ pos' \in 0..Len(buf')
  <2>1. pos \in 0..Len(buf)
    BY DEF BufferOK
  <2>2. PICK b \in Nat, w \in Nat, all \in Nat :
          b = Len(buf) /\ w = Len(wire) /\ all = Len(WireOf[sent])
    BY <1>3
  <2>3. f + n \in 0..all /\ b + n <= f + n /\ pos \in 0..b + n
    BY ONLY <1>5, <2>1, <2>2, n \in 1..Len(wire)
  <2>4. Len(buf') = b + n /\ Len(WireOf[sent']) = all
    BY ONLY <1>2, <1>8, <2>2
  <2> QED
    BY ONLY <1>2, <1>9, <2>2, <2>3, <2>4
<1>13. Parsed' = Parsed
  <2>1. pos \in Int
    BY DEF BufferOK
  <2> QED
    BY <1>2, <1>3, <1>4, <1>8, <1>9, <2>1 DEF Parsed
<1> QED
  BY <1>2, <1>3, <1>7, <1>8, <1>10, <1>11, <1>12, <1>13 DEF BufferOK

LEMMA DiscardBuffer ==
  ASSUME BufferOK, Discard, UNCHANGED input
  PROVE  BufferOK' /\ Parsed' = Parsed
<1>1. sent' = sent /\ wire' = wire /\ Fed' = Fed
  BY DEF input, Fed
<1>2. CASE UNCHANGED <<buf, pos>>
  BY <1>1, <1>2 DEF BufferOK, Parsed
<1>3. CASE buf' = SubSeq(buf, pos + 1, Len(buf)) /\ pos' = 0
  <2>1. buf \in Seq(Units) /\ Len(buf) \in Nat /\ pos \in 0..Len(buf) /\ Fed \in Nat
    BY DEF BufferOK
  <2>2. /\ buf' \in Seq(Units) /\ Len(buf') = Len(buf) - pos
        /\ \A k \in 1..Len(buf) - pos : buf'[k] = buf[pos + k]
    BY <1>3, <2>1
  <2>3. \A k \in 1..Len(buf') : buf'[k] = WireOf[sent][Fed - Len(buf') + k]
    <3> TAKE k \in 1..Len(buf')
    <3>1. pos + k \in 1..Len(buf) /\ k \in 1..Len(buf) - pos
      BY <2>1, <2>2
    <3>2. buf[pos + k] = WireOf[sent][Fed - Len(buf) + (pos + k)]
      BY <3>1 DEF BufferOK
    <3>3. Fed - Len(buf) + (pos + k) = Fed - Len(buf') + k
      BY <2>1, <2>2
    <3> QED
      BY <2>2, <3>1, <3>2, <3>3
  <2>4. Len(buf') <= Fed /\ pos' \in 0..Len(buf') /\ Len(buf) <= Fed
    BY <1>3, <2>1, <2>2 DEF BufferOK
  <2>5. Parsed' = Parsed
    BY <1>1, <1>3, <2>1, <2>2 DEF Parsed
  <2> QED
    BY <1>1, <2>2, <2>3, <2>4, <2>5 DEF BufferOK
<1> QED
  BY <1>2, <1>3 DEF Discard

LEMMA AdvanceBuffer ==
  ASSUME BufferOK, NEW n \in {1, 2}, Has(n), pos' = pos + n, UNCHANGED <<input, buf>>
  PROVE  BufferOK' /\ Parsed' = Parsed + n
<1>1. sent' = sent /\ wire' = wire /\ buf' = buf /\ Fed' = Fed
  BY DEF input, Fed
<1>2. Len(buf) \in Nat /\ pos \in Nat /\ Fed \in Nat
  BY DEF BufferOK
<1>3. pos' \in 0..Len(buf)
  BY <1>2 DEF Has
<1>4. Parsed' = Parsed + n
  BY <1>1, <1>2 DEF Parsed
<1> QED
  BY <1>1, <1>3, <1>4 DEF BufferOK

LEMMA ClearBuffer ==
  ASSUME BufferOK, buf' = <<>>, pos' = 0, UNCHANGED input
  PROVE  BufferOK'
<1>1. sent' = sent /\ wire' = wire /\ Fed' = Fed
  BY DEF input, Fed
<1>2. buf' \in Seq(Units) /\ Len(buf') = 0 /\ Fed \in Nat
  BY DEF BufferOK
<1>3. Len(buf') <= Fed /\ pos' \in 0..Len(buf')
  BY <1>2
<1> QED
  BY <1>1, <1>2, <1>3 DEF BufferOK

-----------------------------------------------------------------------------
(* The stack.                                                               *)
LEMMA PathIs ==
  ASSUME NEW r, IsReply(r), Stack(r, rstack)
  PROVE  /\ Path = PathOf(rstack)
         /\ Path \in DOMAIN r /\ Path \in Seq(Nat) /\ Len(Path) = Len(rstack) - 1
         /\ Len(rstack) \in Nat \ {0} /\ Len(rstack) <= MaxTasks
         /\ \A k \in 1..Len(Path) : Path[k] = rstack[k + 1].idx
<1>1. Path = PathOf(rstack)
  BY DEF Path, PathOf
<1>2. Path \in DOMAIN r /\ Path \in Seq(Nat)
  BY <1>1, ItemsOf DEF Stack
<1>3. Len(rstack) \in Nat \ {0} /\ Len(rstack) <= MaxTasks
  BY RedisReaderAssumption DEF Stack
<1>4. DOMAIN Path = 1..Len(rstack) - 1
  BY DEF Path
<1>5. Len(Path) = Len(rstack) - 1
  BY <1>2, <1>3, <1>4
<1>6. \A k \in 1..Len(Path) : Path[k] = rstack[k + 1].idx
  BY <1>5 DEF Path
<1> QED
  BY <1>1, <1>2, <1>3, <1>5, <1>6

LEMMA UntypedIs ==
  ASSUME NEW i \in Int
  PROVE  Untyped(i) \in Task /\ Untyped(i).type = "none" /\ Untyped(i).idx = i
  BY DEF Untyped, Task

LEMMA AppendOne ==
  ASSUME NEW T, NEW s \in Seq(T), NEW x \in T
  PROVE  s \o <<x>> = Append(s, x)
  OBVIOUS

(* A task is not the last of its array just when the item is not.           *)
LEMMA UnfinishedAre ==
  ASSUME NEW r, IsReply(r), Stack(r, rstack), NEW k \in 1..Len(Path)
  PROVE  /\ k + 1 \in 2..Len(rstack)
         /\ (k + 1 \in Unfinished) <=> ~LastOf(r, Path, k)
<1>1. /\ k + 1 \in 2..Len(rstack) /\ k \in 1..Len(rstack) - 1
      /\ Path[k] = rstack[k + 1].idx /\ Path[k] \in Nat
  BY PathIs
<1>2. rstack[k].elements = r[Above(Path, k)].num
  BY <1>1, PathIs DEF Stack
<1>3. r[Above(Path, k)].num \in Nat
  BY PathIs, ItemsOf
<1>4. rstack[k + 1].idx # rstack[k].elements - 1 <=> ~LastOf(r, Path, k)
  BY <1>1, <1>2, <1>3 DEF LastOf
<1>5. (k + 1) - 1 = k
  BY PathIs
<1> QED
  BY ONLY <1>1, <1>4, <1>5 DEF Unfinished

LEMMA Deepest ==
  ASSUME NEW S, NEW n \in Nat, S \subseteq 1..n, S # {}
  PROVE  \E k \in S : \A j \in S : j <= k
<1> DEFINE T == {n - k : k \in S}
<1>1. T \in SUBSET Nat /\ T # {}
  <2>1. \A k \in S : n - k \in Nat
    OBVIOUS
  <2> QED
    BY <2>1
<1>2. PICK m \in T : \A i \in T : m <= i
  BY <1>1, Smallest
<1>3. PICK k \in S : m = n - k
  BY <1>2
<1>4. ASSUME NEW j \in S PROVE j <= k
  <2>1. n - j \in T /\ j \in Int /\ k \in Int
    OBVIOUS
  <2>2. m <= n - j
    BY <1>2, <2>1
  <2> QED
    BY <1>3, <2>1, <2>2
<1> QED
  BY <1>4

LEMMA MoveTo ==
  ASSUME NEW r, IsReply(r), Stack(r, rstack), NoItems(r, Path), MoveToNextTask
  PROVE  \/ rstack' = <<>> /\ IsLast(r, Path)
         \/ /\ Stack(r, rstack') /\ IsNext(r, Path, PathOf(rstack'))
            /\ rstack'[Len(rstack')].type = "none"
<1>1. /\ Path \in DOMAIN r /\ Path \in Seq(Nat) /\ Len(Path) = Len(rstack) - 1
      /\ Len(rstack) \in Nat \ {0} /\ Len(rstack) <= MaxTasks
      /\ \A k \in 1..Len(Path) : Path[k] = rstack[k + 1].idx
  BY PathIs
<1>2. CASE Unfinished = {}
  <2>1. \A i \in 1..Len(Path) : LastOf(r, Path, i)
    BY <1>2, UnfinishedAre
  <2>2. IsLast(r, Path)
    BY <1>1, <2>1, NoneNext
  <2> QED
    BY <1>2, <2>2 DEF MoveToNextTask
<1>3. CASE Unfinished # {}
  <2> DEFINE k == CHOOSE k \in Unfinished : \A j \in Unfinished : j <= k
  <2>1. k \in Unfinished /\ \A j \in Unfinished : j <= k
    <3>1. Unfinished \subseteq 1..Len(rstack)
      BY <1>1 DEF Unfinished
    <3>2. \E i \in Unfinished : \A j \in Unfinished : j <= i
      BY <1>1, <1>3, <3>1, Deepest
    <3> QED
      BY <3>2
  <2>2. rstack' = SubSeq(rstack, 1, k - 1) \o <<Untyped(rstack[k].idx + 1)>>
    BY <1>3 DEF MoveToNextTask
  <2> HIDE DEF k
  <2>3. k \in 2..Len(rstack)
    BY <2>1 DEF Unfinished
  <2>4. PICK j \in 1..Len(Path) : k = j + 1
    <3>1. k - 1 \in 1..Len(Path) /\ k = (k - 1) + 1
      BY <1>1, <2>3
    <3> QED
      BY <3>1
  <2>5. ~LastOf(r, Path, j)
    BY <2>1, <2>4, UnfinishedAre
  <2>6. \A i \in j + 1..Len(Path) : LastOf(r, Path, i)
    <3> TAKE i \in j + 1..Len(Path)
    <3>1. i \in 1..Len(Path) /\ ~(i + 1 <= k)
      BY <1>1, <2>4
    <3>2. i + 1 \notin Unfinished
      BY <2>1, <3>1
    <3> QED
      BY <3>1, <3>2, UnfinishedAre
  <2> DEFINE q == Append(Above(Path, j), Path[j] + 1)
  <2>7. IsNext(r, Path, q)
    BY <1>1, <2>5, <2>6, NextAlong
  <2>8. /\ q \in Seq(Nat) /\ Len(q) = j /\ q[j] = Path[j] + 1
        /\ \A i \in 1..j - 1 : q[i] = Path[i]
    <3>1. Path \in Seq(Nat) /\ Path[j] + 1 \in Nat /\ j \in Nat /\ (j - 1) + 1 = j
      BY <1>1, <2>4
    <3>2. /\ Above(Path, j) \in Seq(Nat) /\ Len(Above(Path, j)) = j - 1
          /\ \A i \in 1..j - 1 : Above(Path, j)[i] = Path[i]
      BY ONLY <2>4, <3>1, AboveIs, Zenon
    <3>3. PICK l \in Nat : l = j - 1 /\ l + 1 = j
      BY ONLY <2>4, <3>1
    <3>4. /\ q \in Seq(Nat) /\ Len(q) = l + 1 /\ q[l + 1] = Path[j] + 1
          /\ \A i \in 1..l : q[i] = Above(Path, j)[i]
      BY ONLY <3>1, <3>2, <3>3, AppendIs
    <3> QED
      BY ONLY <3>2, <3>3, <3>4, Zenon
  <2> HIDE DEF q
  <2>9. rstack \in Seq(Task)
    BY DEF Stack
  <2>10. Path[j] + 1 \in Int /\ k - 1 = j /\ j \in 0..Len(rstack) /\ j \in Nat
    BY <1>1, <2>4
  <2> DEFINE new == Untyped(Path[j] + 1)
             kept == SubSeq(rstack, 1, j)
  <2>11. /\ new \in Task /\ new.type = "none" /\ new.idx = Path[j] + 1
         /\ kept \in Seq(Task) /\ Len(kept) = j /\ \A i \in 1..j : kept[i] = rstack[i]
    BY <2>9, <2>10, UntypedIs, PrefixIs
  <2>18. rstack[k].idx = Path[j]
    BY <1>1, <2>4
  <2>19. rstack' = Append(kept, new)
    BY <2>2, <2>10, <2>11, <2>18, AppendOne
  <2> HIDE DEF new, kept
  <2>12. /\ rstack' \in Seq(Task)
         /\ Len(rstack') = j + 1
         /\ rstack'[j + 1] = new
         /\ \A i \in 1..j : rstack'[i] = rstack[i]
    BY <2>10, <2>11, <2>19, AppendIs
  <2>13. PathOf(rstack') = q
    <3>1. PathOf(rstack') = [i \in 1..j |-> rstack'[i + 1].idx]
      BY <1>1, <2>4, <2>12 DEF PathOf
    <3>2. ASSUME NEW i \in 1..j PROVE rstack'[i + 1].idx = q[i]
      <4>1. CASE i = j
        BY <2>8, <2>11, <2>12, <4>1
      <4>2. CASE i # j
        <5>1. i + 1 \in 1..j /\ i \in 1..j - 1 /\ i \in 1..Len(Path)
          BY <1>1, <2>4, <4>2
        <5>2. rstack'[i + 1] = rstack[i + 1] /\ q[i] = Path[i]
          BY <2>8, <2>12, <5>1
        <5>3. Path[i] = rstack[i + 1].idx
          BY <1>1, <5>1
        <5> QED
          BY <5>2, <5>3
      <4> QED
        BY <4>1, <4>2
    <3>3. q = [i \in 1..j |-> q[i]]
      BY <2>8
    <3> QED
      BY <3>1, <3>2, <3>3
  <2>14. ASSUME NEW i \in 1..Len(rstack') - 1
         PROVE  rstack'[i].type = "array" /\ rstack'[i].elements = r[Above(q, i)].num
    <3>1. i \in 1..j /\ i \in 1..Len(rstack) - 1
      BY <1>1, <2>4, <2>12
    <3>2. rstack[i].type = "array" /\ rstack[i].elements = r[Above(Path, i)].num
      BY <3>1, PathIs DEF Stack
    <3>3. i \in 1..Len(q) /\ i <= Len(Path) /\ \A m \in 1..i - 1 : q[m] = Path[m]
      BY <1>1, <2>8, <3>1
    <3>4. Above(q, i) = Above(Path, i)
      BY <1>1, <2>8, <3>3, SamePrefix DEF Above
    <3> QED
      BY <2>12, <3>1, <3>2, <3>4
  <2>15. Len(rstack') \in 1..MaxTasks
    BY <1>1, <2>12, RedisReaderAssumption
  <2>16. q \in DOMAIN r
    BY <2>7 DEF IsNext
  <2>17. Stack(r, rstack')
    BY <2>12, <2>13, <2>14, <2>15, <2>16 DEF Stack
  <2> QED
    BY <2>7, <2>11, <2>12, <2>13, <2>17
<1> QED
  BY <1>2, <1>3

LEMMA MoveInto ==
  ASSUME NEW r, IsReply(r), Stack(r, rstack), Len(rstack) < MaxTasks, Cur.type = "array",
         r[Path].type = "array", r[Path].num > 0,
         rstack' = Append([rstack EXCEPT ![Len(rstack)].elements = r[Path].num], Untyped(0))
  PROVE  /\ Stack(r, rstack') /\ IsNext(r, Path, PathOf(rstack'))
         /\ rstack'[Len(rstack')].type = "none"
<1> DEFINE q == Append(Path, 0)
<1>1. PICK l \in Nat \ {0} : l = Len(rstack)
  BY PathIs
<1>2. /\ Path \in DOMAIN r /\ Path \in Seq(Nat) /\ Len(Path) = l - 1 /\ l < MaxTasks
      /\ \A k \in 1..Len(Path) : Path[k] = rstack[k + 1].idx
  BY <1>1, PathIs
<1>3. rstack \in Seq(Task) /\ rstack[l].type = "array" /\ r[Path].num \in Nat
  BY <1>1, <1>2 DEF Stack, Cur, IsReply
<1>4. IsNext(r, Path, q)
  BY <1>2, NextBelow
<1>5. /\ q \in Seq(Nat) /\ Len(q) = l /\ q[l] = 0
      /\ \A i \in 1..l - 1 : q[i] = Path[i]
  BY <1>2
<1> HIDE DEF q
<1> DEFINE top == [rstack[l] EXCEPT !.elements = r[Path].num]
           old == [rstack EXCEPT ![l] = top]
<1>6. /\ top \in Task /\ top.type = "array" /\ top.elements = r[Path].num
      /\ top.idx = rstack[l].idx
  <2>1. rstack[l] \in Task
    BY <1>1, <1>3
  <2>2. r[Path].num \in Int
    BY <1>3
  <2>3. \A t \in Task, n \in Int :
          /\ [t EXCEPT !.elements = n] \in Task
          /\ [t EXCEPT !.elements = n].type = t.type
          /\ [t EXCEPT !.elements = n].elements = n
          /\ [t EXCEPT !.elements = n].idx = t.idx
    BY DEF Task
  <2> QED
    BY <1>3, <2>1, <2>2, <2>3
<1>7. rstack' = Append(old, Untyped(0))
  BY <1>1
<1> HIDE DEF top
<1>8. /\ old \in Seq(Task) /\ Len(old) = l /\ old[l] = top
      /\ \A i \in 1..l - 1 : old[i] = rstack[i]
  BY <1>1, <1>3, <1>6
<1>9. Untyped(0) \in Task /\ Untyped(0).type = "none" /\ Untyped(0).idx = 0
  <2>1. 0 \in Int
    OBVIOUS
  <2> QED
    BY <2>1, UntypedIs
<1> HIDE DEF old
<1>10. /\ rstack' \in Seq(Task) /\ Len(rstack') = l + 1 /\ rstack'[l + 1] = Untyped(0)
       /\ \A i \in 1..l : rstack'[i] = old[i]
  <2>1. l \in Nat /\ l = Len(old)
    BY <1>8
  <2> DEFINE new == Append(old, Untyped(0))
  <2>2. /\ new \in Seq(Task) /\ Len(new) = l + 1 /\ new[l + 1] = Untyped(0)
        /\ \A i \in 1..l : new[i] = old[i]
    BY ONLY <1>8, <1>9, <2>1, AppendIs
  <2> QED
    BY <1>7, <2>2
<1>11. \A i \in 1..l : rstack'[i].idx = rstack[i].idx
  <2> TAKE i \in 1..l
  <2>1. i = l \/ i \in 1..l - 1
    BY <1>1
  <2>2. rstack'[i] = old[i]
    BY ONLY <1>10, i \in 1..l, Zenon
  <2>3. CASE i = l
    <3>1. rstack'[i] = top
      BY ONLY <1>8, <2>2, <2>3, Zenon
    <3> QED
      BY ONLY <1>6, <2>3, <3>1, Zenon
  <2>4. CASE i \in 1..l - 1
    <3>1. rstack'[i] = rstack[i]
      BY ONLY <1>8, <2>2, <2>4, Zenon
    <3> QED
      BY ONLY <3>1, Zenon
  <2> QED
    BY ONLY <2>1, <2>3, <2>4, Zenon
<1>12. PathOf(rstack') = q
  <2>1. PathOf(rstack') = [i \in 1..l |-> rstack'[i + 1].idx]
    BY <1>10 DEF PathOf
  <2>2. ASSUME NEW i \in 1..l PROVE rstack'[i + 1].idx = q[i]
    <3>1. CASE i = l
      BY <1>5, <1>9, <1>10, <3>1
    <3>2. CASE i # l
      <4>1. i + 1 \in 1..l /\ i \in 1..l - 1 /\ i \in 1..Len(Path)
        BY <1>2, <3>2
      <4>2. rstack'[i + 1].idx = rstack[i + 1].idx
        BY ONLY <1>11, <4>1, Zenon
      <4>3. Path[i] = rstack[i + 1].idx
        BY ONLY <1>2, <4>1, Zenon
      <4>4. q[i] = Path[i]
        BY ONLY <1>5, <4>1, Zenon
      <4> QED
        BY ONLY <4>2, <4>3, <4>4, Zenon
    <3> QED
      BY <3>1, <3>2
  <2>3. q = [i \in 1..l |-> q[i]]
    BY <1>5
  <2> QED
    BY <2>1, <2>2, <2>3
<1>13. ASSUME NEW i \in 1..l
       PROVE  rstack'[i].type = "array" /\ rstack'[i].elements = r[Above(q, i)].num
  <2>1. CASE i = l
    <3>1. l = Len(Path) + 1 /\ \A j \in 1..Len(Path) : Path[j] = q[j]
      BY <1>2, <1>5
    <3>2. Above(q, l) = Path
      BY <1>2, <1>5, <3>1, WholePrefix DEF Above
    <3> QED
      BY <1>6, <1>8, <1>10, <2>1, <3>2
  <2>2. CASE i # l
    <3>1. i \in 1..l - 1 /\ i \in 1..Len(q) /\ i \in 1..Len(rstack) - 1
      BY <1>1, <1>5, <2>2
    <3>4. i <= Len(Path) /\ \A m \in 1..i - 1 : q[m] = Path[m]
      <4>1. i <= Len(Path) /\ \A m \in 1..i - 1 : m \in 1..l - 1
        BY ONLY <1>2, <3>1, l \in Nat \ {0}
      <4> QED
        BY ONLY <1>5, <4>1, Zenon
    <3>2. Above(q, i) = Above(Path, i)
      BY <1>2, <1>5, <3>1, <3>4, SamePrefix DEF Above
    <3>3. rstack[i].type = "array" /\ rstack[i].elements = r[Above(Path, i)].num
      BY <1>1, <3>1, PathIs DEF Stack
    <3> QED
      BY <1>8, <1>10, <3>1, <3>2, <3>3
  <2> QED
    BY <2>1, <2>2
<1>14. Len(rstack') \in 1..MaxTasks /\ Len(rstack') - 1 = l
  BY <1>2, <1>10, RedisReaderAssumption
<1>15. q \in DOMAIN r
  BY <1>4 DEF IsNext
<1>16. Stack(r, rstack')
  BY <1>10, <1>12, <1>13, <1>14, <1>15 DEF Stack
<1> QED
  BY <1>4, <1>9, <1>10, <1>12, <1>16

-----------------------------------------------------------------------------
(* The item in hand, in the stream.                                         *)
LEMMA HandIs ==
  ASSUME BufferOK, TakenOK, Len(taken) < Len(sent)
  PROVE  /\ Len(taken) \in Nat /\ Len(sent) \in Nat
         /\ Len(taken) + 1 \in 1..Len(sent)
         /\ sent \in Sent /\ IsReply(Hand)
         /\ WireOf[sent] \in Seq(Units) /\ Len(WireOf[sent]) \in Nat
<1>1. sent \in Sent /\ Len(taken) \in Nat
  BY DEF BufferOK, TakenOK
<1>2. Len(sent) \in Nat /\ \A i \in 1..Len(sent) : IsReply(sent[i])
  BY <1>1, Stream
<1>3. Len(taken) + 1 \in 1..Len(sent)
  BY <1>1, <1>2
<1> QED
  BY <1>1, <1>2, <1>3, Stream DEF Hand

LEMMA ItemIs ==
  ASSUME BufferOK, TakenOK, Within
  PROVE  /\ Path \in DOMAIN Hand
         /\ Hand[Path] \in [type : NodeTypes, num : Int]
         /\ Here \in Nat
         /\ There = Here + Len(ItemUnits(Hand[Path]))
         /\ \A k \in 1..Len(ItemUnits(Hand[Path])) :
              WireOf[sent][Here + k] = ItemUnits(Hand[Path])[k]
         /\ There <= StartOf(sent, Len(taken) + 2)
<1>1. /\ Len(taken) + 1 \in 1..Len(sent) /\ Len(taken) \in Nat /\ sent \in Sent
      /\ IsReply(Hand)
  BY HandIs DEF Within
<1>2. Path \in DOMAIN Hand
  BY <1>1, PathIs DEF Within
<1>3. Hand[Path] \in [type : NodeTypes, num : Int]
  BY <1>1, <1>2 DEF IsReply
<1> DEFINE x == <<Len(taken) + 1, Path>>
<1>4. x \in Items(sent)
  BY <1>1, <1>2, EndsWithin DEF Hand
<1>5. UnitsOf(sent, x) = ItemUnits(Hand[Path])
  BY DEF UnitsOf, Hand
<1>6. Here \in Nat
  BY <1>1, <1>4, UnitsLen DEF Here
<1>7. There = Here + Len(ItemUnits(Hand[Path]))
  BY <1>5 DEF There, Here, EndOf
<1>8. \A k \in 1..Len(UnitsOf(sent, x)) : WireOf[sent][PlaceOf[sent][x] + k] = UnitsOf(sent, x)[k]
  BY <1>1, <1>4, Stream DEF IsStream
<1>9. There <= StartOf(sent, (Len(taken) + 1) + 1)
  BY <1>1, <1>2, EndsWithin DEF Hand, There
<1>10. (Len(taken) + 1) + 1 = Len(taken) + 2
  BY <1>1
<1> QED
  BY <1>2, <1>3, <1>5, <1>6, <1>7, <1>8, <1>9, <1>10 DEF Here

LEMMA StartIs ==
  ASSUME BufferOK, TakenOK, Within
  PROVE  StartOf(sent, Len(taken) + 2) \in Nat
<1>1. /\ Len(taken) \in Nat /\ Len(sent) \in Nat /\ Len(taken) < Len(sent) /\ sent \in Sent
      /\ Len(WireOf[sent]) \in Nat
  BY HandIs DEF Within
<1>2. CASE Len(taken) + 2 <= Len(sent)
  <2>1. Len(taken) + 2 \in 1..Len(sent)
    BY <1>1, <1>2
  <2>2. <<Len(taken) + 2, << >> >> \in Items(sent)
    BY <1>1, <2>1, Stream DEF Items, IsReply
  <2> QED
    BY <1>1, <1>2, <2>2, UnitsLen DEF StartOf
<1>3. CASE ~(Len(taken) + 2 <= Len(sent))
  BY <1>1, <1>3 DEF StartOf
<1> QED
  BY <1>2, <1>3

(* The units behind the type byte, when the item's type is read.            *)
LEMMA ItemSees ==
  ASSUME BufferOK, TakenOK, Within, Cur.type # "none", NEW i \in {1, 2}, Has(i),
         i + 1 <= Len(ItemUnits(Hand[Path]))
  PROVE  /\ Unit(i) = ItemUnits(Hand[Path])[i + 1]
         /\ Parsed = Here + 1
         /\ Cur.type = ItemUnits(Hand[Path])[1].type
<1>1. Parsed = Here + 1 /\ Cur.type = ItemUnits(Hand[Path])[1].type
  BY DEF Within, ItemOK
<1>2. Unit(i) = WireOf[sent][Parsed + i] /\ Here \in Nat
  BY Sees, ItemIs
<1>3. Len(ItemUnits(Hand[Path])) \in {2, 3}
  BY ItemIs, UnitsAre
<1>4. i + 1 \in 1..Len(ItemUnits(Hand[Path])) /\ Parsed + i = Here + (i + 1)
  BY <1>1, <1>2, <1>3
<1> QED
  BY <1>1, <1>2, <1>4, ItemIs

(* The node made of the item in hand, and what comes after it.              *)
Made == Creates(SeenNode(Hand[Path]).type, SeenNode(Hand[Path]).num)

LEMMA MadeUpTo ==
  ASSUME BufferOK, TakenOK, Within, Made, NEW S, S = {p \in DOMAIN Hand : Precedes(p, Path)}
  PROVE  reply' = [p \in S \cup {Path} |-> SeenNode(Hand[p])]
<1>1. reply = [p \in S |-> SeenNode(Hand[p])]
  BY DEF Within
<1>2. /\ Hand[Path] \in [type : NodeTypes, num : Int]
      /\ SeenNode(Hand[Path]) = [type |-> SeenNode(Hand[Path]).type,
                                 num |-> SeenNode(Hand[Path]).num]
  BY ItemIs DEF SeenNode
<1>3. reply' = [p \in DOMAIN reply \cup {Path} |->
                  IF p = Path THEN SeenNode(Hand[Path]) ELSE reply[p]]
  BY <1>2 DEF Made, Creates
<1> QED
  BY <1>1, <1>3

LEMMA GoesOn ==
  ASSUME BufferOK, TakenOK, Within, Made, ~BadItem(Hand, Path),
         Stack(Hand, rstack'), IsNext(Hand, Path, PathOf(rstack')),
         rstack'[Len(rstack')].type = "none",
         Parsed' = There, sent' = sent, taken' = taken
  PROVE  Within'
<1> DEFINE q == PathOf(rstack')
<1>1. /\ Len(taken) + 1 \in 1..Len(sent) /\ sent \in Sent /\ IsReply(Hand)
      /\ Path \in DOMAIN Hand
  BY HandIs, ItemIs DEF Within
<1>2. Hand' = Hand
  BY DEF Hand
<1>3. Path' = q
  BY DEF Path, PathOf
<1>4. {p \in DOMAIN Hand : Precedes(p, q)} = {p \in DOMAIN Hand : Precedes(p, Path)} \cup {Path}
  BY <1>1, UpToNext
<1>5. reply' = [p \in {p \in DOMAIN Hand : Precedes(p, q)} |-> SeenNode(Hand[p])]
  BY <1>4, MadeUpTo
<1>6. \A p \in DOMAIN Hand : Precedes(p, q) => ~BadItem(Hand, p)
  BY DEF IsNext, Within
<1>7. There = PlaceOf[sent][<<Len(taken) + 1, q>>]
  BY <1>1, NextItem DEF There, Hand
<1>8. Here' = PlaceOf[sent][<<Len(taken) + 1, q>>]
  BY <1>3 DEF Here
<1>9. ItemOK'
  BY <1>7, <1>8 DEF ItemOK, Cur
<1>10. (Len(taken) < Len(sent))'
  BY DEF Within
<1>11. (reply = [p \in {p \in DOMAIN Hand : Precedes(p, Path)} |-> SeenNode(Hand[p])])'
  BY <1>2, <1>3, <1>5
<1>12. (\A p \in DOMAIN Hand : Precedes(p, Path) => ~BadItem(Hand, p))'
  BY <1>2, <1>3, <1>6 DEF BadItem
<1>13. Stack(Hand, rstack)'
  BY <1>2 DEF Stack, PathOf, Above
<1> QED
  BY <1>9, <1>10, <1>11, <1>12, <1>13 DEF Within

LEMMA IsWhole ==
  ASSUME BufferOK, TakenOK, Within, Made, ~BadItem(Hand, Path), IsLast(Hand, Path),
         rstack' = <<>>, calling', Parsed' = There, sent' = sent, taken' = taken
  PROVE  Ready'
<1>1. /\ Len(taken) + 1 \in 1..Len(sent) /\ sent \in Sent /\ IsReply(Hand)
      /\ Path \in DOMAIN Hand /\ Len(taken) \in Nat
  BY HandIs, ItemIs DEF Within
<1>2. Hand' = Hand
  BY DEF Hand
<1>3. {p \in DOMAIN Hand : Precedes(p, Path)} \cup {Path} = DOMAIN Hand
  BY <1>1 DEF IsLast
<1>4. reply' = Seen(Hand)
  BY <1>3, MadeUpTo DEF Seen
<1>5. ~Unreadable(Hand)
  BY DEF Unreadable, IsLast, Within
<1>6. There = StartOf(sent, (Len(taken) + 1) + 1)
  BY <1>1, NextReply DEF There, Hand
<1>7. (Len(taken) + 1) + 1 = Len(taken) + 2
  BY <1>1
<1>8. Len(taken) < Len(sent)
  BY DEF Within
<1>9. (Parsed = StartOf(sent, Len(taken) + 2))'
  BY <1>6, <1>7 DEF StartOf
<1>10. (reply = Seen(Hand) /\ ~Unreadable(Hand))'
  BY <1>2, <1>4, <1>5 DEF Seen, Unreadable, BadItem
<1> QED
  BY <1>8, <1>9, <1>10 DEF Ready

-----------------------------------------------------------------------------
(* What an action leaves alone.                                             *)
LEMMA TakenKept ==
  ASSUME TakenOK, sent' = sent, taken' = taken
  PROVE  TakenOK'
<1>1. RepliesInOrder'
  BY DEF TakenOK, RepliesInOrder
<1>2. (taken \in Seq({Seen(sent[i]) : i \in 1..Len(sent)}))'
  BY DEF TakenOK
<1> QED
  BY <1>1, <1>2 DEF TakenOK

LEMMA WithinKept ==
  ASSUME Within, Parsed' = Parsed, sent' = sent, taken' = taken, rstack' = rstack, reply' = reply
  PROVE  Within'
<1>1. Hand' = Hand /\ Path' = Path /\ Cur' = Cur /\ Here' = Here
  BY DEF Hand, Path, Cur, Here
<1>2. ItemOK'
  BY <1>1 DEF Within, ItemOK
<1>3. Stack(Hand, rstack)'
  BY <1>1 DEF Within, Stack, PathOf, Above
<1>4. (reply = [p \in {p \in DOMAIN Hand : Precedes(p, Path)} |-> SeenNode(Hand[p])])'
  BY <1>1 DEF Within
<1>5. (\A p \in DOMAIN Hand : Precedes(p, Path) => ~BadItem(Hand, p))'
  BY <1>1 DEF Within, BadItem
<1> QED
  BY <1>2, <1>3, <1>4, <1>5 DEF Within

LEMMA OverKept ==
  ASSUME Over, Parsed' = Parsed, sent' = sent, taken' = taken, rstack' = rstack, reply' = reply
  PROVE  Over'
  BY DEF Over, Untyped

(* There is a task in Over and Within, and none in Idle, Ready and Failed.  *)
LEMMA HasTask ==
  ASSUME IInv
  PROVE  /\ rstack = <<>> => Idle \/ Ready \/ Failed
         /\ rstack # <<>> => err = "none" /\ (Over \/ Within)
<1>1. Over => rstack # <<>>
  BY DEF Over
<1>2. Within => rstack # <<>>
  <2>1. Within => Len(rstack) >= 1
    BY RedisReaderAssumption DEF Within, Stack
  <2> QED
    BY <2>1
<1> QED
  BY <1>1, <1>2 DEF IInv, Idle, Ready, Failed

(* At the end of the stream nothing more is read.                           *)
LEMMA NothingOver ==
  ASSUME BufferOK, Over
  PROVE  ~Has(1) /\ Cur.type = "none"
<1>1. ~Has(1)
  <2> SUFFICES ASSUME Has(1) PROVE FALSE
    OBVIOUS
  <2>1. Parsed + 1 <= Len(WireOf[sent]) /\ Parsed \in Nat
    BY Sees
  <2> QED
    BY <2>1 DEF Over
<1>2. Cur = Untyped(-1)
  BY DEF Over, Cur
<1> QED
  BY <1>1, <1>2 DEF Untyped

LEMMA InitInv == Init => IInv
<1> SUFFICES ASSUME Init PROVE IInv
  OBVIOUS
<1>1. /\ sent \in Sent /\ wire = WireOf[sent] /\ buf = <<>> /\ pos = 0
      /\ rstack = <<>> /\ reply = <<>> /\ err = "none" /\ calling = FALSE /\ taken = <<>>
  BY DEF Init
<1>2. /\ Len(sent) \in Nat /\ IsStream(sent) /\ WireOf[sent] \in Seq(Units)
      /\ Len(WireOf[sent]) \in Nat
  BY <1>1, Stream
<1>3. Fed = 0 /\ Len(buf) = 0 /\ buf \in Seq(Units) /\ Parsed = 0
  <2>1. Fed = 0
    BY <1>1, <1>2 DEF Fed
  <2>2. Len(buf) = 0 /\ buf \in Seq(Units)
    BY <1>1
  <2>3. Parsed = Fed - Len(buf) + pos
    BY DEF Parsed
  <2>4. Parsed = 0
    BY ONLY <1>1, <2>1, <2>2, <2>3
  <2> QED
    BY <2>1, <2>2, <2>4
<1>4. BufferOK
  BY <1>1, <1>2, <1>3 DEF BufferOK
<1>5. /\ taken \in Seq({Seen(sent[i]) : i \in 1..Len(sent)})
      /\ Len(taken) = 0
  BY <1>1
<1>6. TakenOK
  BY <1>2, <1>5 DEF TakenOK, RepliesInOrder
<1>7. StartOf(sent, 1) = 0
  <2>1. CASE Len(sent) = 0
    <3>1. WireOf[sent] = <<>> /\ Len(WireOf[sent]) = 0
      BY <1>2, <2>1 DEF IsStream
    <3> QED
      BY <2>1, <3>1 DEF StartOf
  <2>2. CASE Len(sent) # 0
    BY <1>2, <2>2 DEF IsStream, StartOf
  <2> QED
    BY <2>1, <2>2
<1>8. Idle
  BY <1>1, <1>3, <1>5, <1>7 DEF Idle
<1> QED
  BY <1>1, <1>4, <1>6, <1>8 DEF IInv

LEMMA FeedStep ==
  ASSUME IInv, Feed
  PROVE  IInv'
<1>1. BufferOK' /\ Parsed' = Parsed
  BY FeedBuffer DEF IInv
<1>2. /\ sent' = sent /\ rstack' = rstack /\ reply' = reply /\ err' = "none" /\ err = "none"
      /\ calling' = FALSE /\ calling = FALSE /\ taken' = taken
  BY DEF Feed, IInv
<1>3. TakenOK'
  BY <1>2, TakenKept DEF IInv
<1>4. Idle' \/ Over' \/ Within'
  <2>1. Idle \/ Over \/ Within
    BY <1>2 DEF IInv, Ready, Failed
  <2>2. Idle => Idle'
    BY <1>1, <1>2 DEF Idle, StartOf
  <2> QED
    BY <1>1, <1>2, <2>1, <2>2, OverKept, WithinKept
<1> QED
  BY <1>1, <1>2, <1>3, <1>4 DEF IInv

(* A call begins the next reply, when there is one.                         *)
LEMMA Begins ==
  ASSUME BufferOK, TakenOK, Idle, rstack' = <<Untyped(-1)>>, Parsed' = Parsed,
         sent' = sent, taken' = taken, reply' = reply
  PROVE  Over' \/ Within'
<1>1. /\ sent \in Sent /\ Len(sent) \in Nat /\ Len(taken) \in Nat /\ Len(taken) <= Len(sent)
      /\ Len(WireOf[sent]) \in Nat
  BY Stream DEF BufferOK, TakenOK, RepliesInOrder
<1>2. reply = <<>> /\ Parsed = StartOf(sent, Len(taken) + 1)
  BY DEF Idle
<1>3. CASE Len(taken) = Len(sent)
  <2>1. Parsed = Len(WireOf[sent])
    BY <1>1, <1>2, <1>3 DEF StartOf
  <2> QED
    BY <1>2, <1>3, <2>1 DEF Over, Untyped
<1>4. CASE Len(taken) < Len(sent)
  <2>1. /\ IsReply(Hand) /\ << >> \in DOMAIN Hand /\ Hand' = Hand
        /\ Len(taken) + 1 \in 1..Len(sent)
    BY <1>4, HandIs DEF IsReply, Hand
  <2>2. -1 \in Int
    OBVIOUS
  <2> DEFINE root == Untyped(-1)
  <2>3. root \in Task /\ root.type = "none"
    BY <2>2, UntypedIs
  <2> HIDE DEF root
  <2>4. rstack' = <<root>>
    BY DEF root
  <2>5. /\ rstack' \in Seq(Task) /\ Len(rstack') = 1 /\ Len(rstack') - 1 = 0
        /\ rstack'[1] = root
    BY <2>3, <2>4
  <2>6. PathOf(rstack') = << >> /\ Path' = << >>
    BY <2>5 DEF PathOf, Path
  <2>7. Cur'.type = "none"
    BY <2>3, <2>5 DEF Cur
  <2>8. Stack(Hand, rstack')
    BY <2>1, <2>5, <2>6, RedisReaderAssumption DEF Stack
  <2>9. Stack(Hand, rstack)'
    BY <2>1, <2>8 DEF Stack, PathOf, Above
  <2>10. Here' = Parsed'
    BY <1>1, <1>2, <2>1, <2>6 DEF Here, StartOf
  <2>11. ItemOK'
    BY <2>7, <2>10 DEF ItemOK
  <2>12. \A p : ~Precedes(p, << >>)
    BY DEF Precedes
  <2>13. {p \in DOMAIN Hand : Precedes(p, << >>)} = {}
    BY <2>12
  <2>14. [p \in {} |-> SeenNode(Hand[p])] = << >>
    OBVIOUS
  <2>15. (reply = [p \in {p \in DOMAIN Hand : Precedes(p, Path)} |-> SeenNode(Hand[p])])'
    BY <1>2, <2>1, <2>6, <2>13, <2>14
  <2>16. (\A p \in DOMAIN Hand : Precedes(p, Path) => ~BadItem(Hand, p))'
    BY <2>6, <2>12
  <2> QED
    BY <1>4, <2>9, <2>11, <2>15, <2>16 DEF Within
<1> QED
  BY <1>1, <1>3, <1>4

LEMMA CallStep ==
  ASSUME IInv, Call
  PROVE  IInv'
<1>1. /\ sent' = sent /\ wire' = wire /\ buf' = buf /\ pos' = pos /\ reply' = reply
      /\ err' = "none" /\ err = "none" /\ taken' = taken /\ calling' = TRUE /\ ~calling
      /\ rstack' = IF rstack = <<>> THEN <<Untyped(-1)>> ELSE rstack
  BY DEF Call, input
<1>2. BufferOK' /\ Parsed' = Parsed
  BY <1>1 DEF IInv, BufferOK, Parsed, Fed
<1>3. TakenOK'
  BY <1>1, TakenKept DEF IInv
<1>4. Over' \/ Within'
  <2>1. CASE rstack = <<>>
    <3>1. Idle
      BY <1>1, <2>1, HasTask DEF Ready, Failed
    <3> QED
      BY <1>1, <1>2, <2>1, <3>1, Begins DEF IInv
  <2>2. CASE rstack # <<>>
    BY <1>1, <1>2, <2>2, HasTask, OverKept, WithinKept
  <2> QED
    BY <2>1, <2>2
<1> QED
  BY <1>1, <1>2, <1>3, <1>4 DEF IInv

LEMMA EmitStep ==
  ASSUME IInv, Emit
  PROVE  IInv'
<1>1. /\ UNCHANGED input /\ sent' = sent /\ rstack' = <<>> /\ err' = err /\ calling
      /\ taken' = Append(taken, reply) /\ reply' = <<>> /\ calling' = FALSE /\ Discard
  BY DEF Emit, input
<1>2. Ready /\ err = "none"
  BY <1>1, HasTask DEF Emit, Idle, Failed, IInv
<1>3. BufferOK' /\ Parsed' = Parsed
  BY <1>1, DiscardBuffer DEF IInv
<1> DEFINE S == {Seen(sent[i]) : i \in 1..Len(sent)}
<1>4. PICK n \in Nat : n = Len(taken)
  BY DEF IInv, TakenOK
<1>5. taken \in Seq(S) /\ n + 1 \in 1..Len(sent) /\ reply = Seen(sent[n + 1])
  BY <1>2, <1>4, HandIs DEF IInv, TakenOK, Ready, Hand
<1>6. reply \in S
  BY <1>5
<1> HIDE DEF S
<1>7. /\ taken' \in Seq(S) /\ Len(taken') = n + 1 /\ taken'[n + 1] = reply
      /\ \A i \in 1..n : taken'[i] = taken[i]
  BY <1>1, <1>4, <1>5, <1>6, AppendIs
<1>8. ASSUME NEW i \in 1..n + 1
      PROVE  taken'[i] = Seen(sent[i]) /\ ~Unreadable(sent[i])
  <2>1. CASE i = n + 1
    BY <1>2, <1>4, <1>5, <1>7, <2>1 DEF Ready, Hand
  <2>2. CASE i \in 1..n
    BY <1>4, <1>7, <2>2 DEF IInv, TakenOK, RepliesInOrder
  <2> QED
    BY <1>4, <2>1, <2>2
<1>9. TakenOK'
  <2>1. (taken \in Seq({Seen(sent[i]) : i \in 1..Len(sent)}))'
    BY <1>1, <1>7 DEF S, Seen
  <2>2. Len(taken') <= Len(sent')
    BY <1>1, <1>5, <1>7
  <2>3. RepliesInOrder'
    BY <1>1, <1>7, <1>8, <2>2 DEF RepliesInOrder
  <2> QED
    BY <2>1, <2>3 DEF TakenOK
<1>10. Idle'
  <2>1. Parsed' = StartOf(sent, n + 2)
    BY <1>2, <1>3, <1>4 DEF Ready
  <2>2. Len(taken') + 1 = n + 2
    BY <1>7
  <2> QED
    BY <1>1, <2>1, <2>2 DEF Idle, StartOf
<1> QED
  BY <1>1, <1>2, <1>3, <1>9, <1>10 DEF IInv

LEMMA RunOutStep ==
  ASSUME IInv, RunOut
  PROVE  IInv'
<1>1. /\ UNCHANGED input /\ sent' = sent /\ rstack' = rstack /\ rstack # <<>> /\ reply' = reply
      /\ err' = err /\ taken' = taken /\ calling' = FALSE /\ Discard
  BY DEF RunOut, input
<1>2. err = "none" /\ (Over \/ Within)
  BY <1>1, HasTask
<1>3. BufferOK' /\ Parsed' = Parsed
  BY <1>1, DiscardBuffer DEF IInv
<1>4. TakenOK'
  BY <1>1, TakenKept DEF IInv
<1>5. Over' \/ Within'
  BY <1>1, <1>2, <1>3, OverKept, WithinKept
<1> QED
  BY <1>1, <1>2, <1>3, <1>4, <1>5 DEF IInv

(* Only an unreadable reply is a protocol error.                            *)
LEMMA ErrorStep ==
  ASSUME IInv, NEW type \in {"protocol", "oom"}, SetError(type),
         type = "protocol" => Len(taken) < Len(sent) /\ Unreadable(Hand)
  PROVE  IInv'
<1>1. /\ UNCHANGED input /\ sent' = sent /\ rstack' = <<>> /\ buf' = <<>> /\ pos' = 0
      /\ err' = type /\ calling' = FALSE /\ taken' = taken
  BY DEF SetError, input
<1>2. BufferOK'
  BY <1>1, ClearBuffer DEF IInv
<1>3. TakenOK'
  BY <1>1, TakenKept DEF IInv
<1>4. ErrorIsDue'
  BY <1>1 DEF ErrorIsDue, Hand
<1> QED
  BY <1>1, <1>2, <1>3, <1>4 DEF IInv, Failed

LEMMA OutOfMemoryStep ==
  ASSUME IInv, OutOfMemory
  PROVE  IInv'
  BY ErrorStep DEF OutOfMemory

(* The item in hand when there is more to read than its type.               *)
LEMMA Reads ==
  ASSUME IInv, NEW type, Reading(type), Has(1) \/ type # "none"
  PROVE  /\ BufferOK /\ TakenOK /\ Within /\ err = "none" /\ calling
         /\ Cur.type = type /\ Len(taken) < Len(sent)
<1>1. rstack # <<>> /\ calling /\ Cur.type = type
  BY DEF Reading
<1>2. Within
  BY <1>1, HasTask, NothingOver DEF IInv
<1> QED
  BY <1>1, <1>2, HasTask DEF IInv, Within

LEMMA UnitsCount ==
  ASSUME BufferOK, TakenOK, Within
  PROVE  1 \in 1..Len(ItemUnits(Hand[Path])) /\ 1 + 1 <= Len(ItemUnits(Hand[Path]))
<1>1. PICK l \in {2, 3} : l = Len(ItemUnits(Hand[Path]))
  BY ItemIs, UnitsAre
<1> QED
  BY <1>1

LEMMA TypeUnit ==
  ASSUME IInv, Reading("none"), Has(1)
  PROVE  Unit(1) = ItemUnits(Hand[Path])[1] /\ Parsed = Here
<1>1. BufferOK /\ TakenOK /\ Within /\ Cur.type = "none"
  BY Reads
<1>2. Cur.type # ItemUnits(Hand[Path])[1].type
  <2>1. ItemUnits(Hand[Path])[1].type \in LineTypes \cup {"string", "array", "bad"}
    BY <1>1, ItemIs, UnitsAre
  <2> QED
    BY <1>1, <2>1 DEF LineTypes
<1>3. Parsed = Here
  BY <1>1, <1>2 DEF Within, ItemOK
<1>4. Unit(1) = WireOf[sent][Parsed + 1]
  BY <1>1, Sees
<1>5. 1 \in 1..Len(ItemUnits(Hand[Path]))
  BY <1>1, UnitsCount
<1> QED
  BY <1>1, <1>3, <1>4, <1>5, ItemIs

LEMMA BadTypeStep ==
  ASSUME IInv, BadType
  PROVE  IInv'
<1>1. Reading("none") /\ Has(1) /\ Unit(1).type = "bad" /\ SetError("protocol")
  BY DEF BadType
<1>2. BufferOK /\ TakenOK /\ Within /\ Len(taken) < Len(sent)
  BY <1>1, Reads
<1>3. ItemUnits(Hand[Path])[1].type = "bad"
  BY <1>1, TypeUnit
<1>4. Hand[Path].type = "bad" /\ Path \in DOMAIN Hand
  BY <1>2, <1>3, ItemIs, UnitsAre DEF NodeTypes, LineTypes
<1>5. Unreadable(Hand)
  BY <1>4 DEF Unreadable, BadItem
<1> QED
  BY <1>1, <1>2, <1>5, ErrorStep

LEMMA TooDeepStep ==
  ASSUME IInv, TooDeep
  PROVE  IInv'
<1>1. Reading("array") /\ Len(rstack) = MaxTasks /\ SetError("protocol")
  BY DEF TooDeep
<1>2. BufferOK /\ TakenOK /\ Within /\ Len(taken) < Len(sent) /\ Cur.type = "array"
  BY <1>1, Reads
<1>3. ItemUnits(Hand[Path])[1].type = "array"
  BY <1>2 DEF Within, ItemOK
<1>4. Hand[Path].type \in {"array", "no array"} /\ Path \in DOMAIN Hand
  BY <1>2, <1>3, ItemIs, UnitsAre DEF NodeTypes, LineTypes
<1>5. Len(Path) >= MaxTasks - 1
  <2>1. Len(Path) = MaxTasks - 1
    BY <1>1, <1>2, HandIs, PathIs DEF Within
  <2> QED
    BY <2>1, RedisReaderAssumption
<1>6. Unreadable(Hand)
  BY <1>4, <1>5 DEF Unreadable, BadItem
<1> QED
  BY <1>1, <1>2, <1>6, ErrorStep

(* Reading an item's type leaves it where it is.                            *)
LEMMA ReadTypeStep ==
  ASSUME IInv, ReadType
  PROVE  IInv'
<1>1. /\ Reading("none") /\ Has(1) /\ Unit(1).type # "bad"
      /\ rstack' = [rstack EXCEPT ![Len(rstack)].type = Unit(1).type]
      /\ pos' = pos + 1 /\ UNCHANGED <<input, buf>> /\ sent' = sent
      /\ reply' = reply /\ err' = err /\ calling' = calling /\ taken' = taken
  BY DEF ReadType, input
<1>2. BufferOK /\ TakenOK /\ Within /\ err = "none" /\ Len(taken) < Len(sent)
  BY <1>1, Reads
<1>3. BufferOK' /\ Parsed' = Parsed + 1
  BY <1>1, <1>2, AdvanceBuffer
<1>4. TakenOK'
  BY <1>1, <1>2, TakenKept
<1>5. Unit(1) = ItemUnits(Hand[Path])[1] /\ Parsed = Here /\ Here \in Nat
  BY <1>1, <1>2, TypeUnit, ItemIs
<1>6. Unit(1).type \in LineTypes \cup {"string", "array"}
  BY <1>1, <1>2, <1>5, ItemIs, UnitsAre
<1>7. PICK l \in Nat \ {0} : l = Len(rstack)
  BY <1>2, HandIs, PathIs DEF Within
<1>8. rstack \in Seq(Task) /\ IsReply(Hand) /\ Hand' = Hand
  BY <1>1, <1>2, HandIs DEF Within, Stack, Hand
<1> DEFINE type == Unit(1).type
           top == [rstack[l] EXCEPT !.type = type]
<1>9. top \in Task /\ top.type = type /\ top.idx = rstack[l].idx
  <2>1. rstack[l] \in Task
    BY <1>7, <1>8
  <2>2. \A t \in Task, y \in LineTypes \cup {"string", "array"} :
          /\ [t EXCEPT !.type = y] \in Task /\ [t EXCEPT !.type = y].type = y
          /\ [t EXCEPT !.type = y].idx = t.idx
    BY DEF Task, LineTypes
  <2> QED
    BY <1>6, <2>1, <2>2
<1>10. rstack' = [rstack EXCEPT ![l] = top]
  BY <1>1, <1>7
<1> HIDE DEF top
<1>11. /\ rstack' \in Seq(Task) /\ Len(rstack') = l /\ rstack'[l] = top
       /\ \A i \in 1..l - 1 : rstack'[i] = rstack[i]
  BY <1>7, <1>8, <1>9, <1>10
<1>12. \A i \in 1..l : rstack'[i].idx = rstack[i].idx
  <2> TAKE i \in 1..l
  <2>1. i = l \/ i \in 1..l - 1
    BY <1>7
  <2> QED
    BY <1>9, <1>11, <2>1
<1>13. PathOf(rstack') = PathOf(rstack)
  BY <1>7, <1>11, <1>12 DEF PathOf
<1>14. Path' = Path
  BY <1>7, <1>11, <1>12 DEF Path
<1>15. Stack(Hand, rstack')
  BY <1>2, <1>7, <1>11, <1>13 DEF Within, Stack
<1>16. Stack(Hand, rstack)'
  BY <1>8, <1>15 DEF Stack, PathOf, Above
<1>17. Cur'.type = type /\ Here' = Here
  BY <1>1, <1>9, <1>11, <1>14 DEF Cur, Here
<1>18. ItemOK'
  BY <1>1, <1>3, <1>5, <1>8, <1>14, <1>17 DEF ItemOK
<1>19. (reply = [p \in {p \in DOMAIN Hand : Precedes(p, Path)} |-> SeenNode(Hand[p])])'
  BY <1>1, <1>2, <1>8, <1>14 DEF Within
<1>20. (\A p \in DOMAIN Hand : Precedes(p, Path) => ~BadItem(Hand, p))'
  BY <1>2, <1>8, <1>14 DEF Within, BadItem
<1>21. Within'
  BY <1>1, <1>2, <1>16, <1>18, <1>19, <1>20 DEF Within
<1> QED
  BY <1>1, <1>2, <1>3, <1>4, <1>21 DEF IInv

(* An item is complete, and has no elements.                                *)
LEMMA ItemStep ==
  ASSUME IInv, Within, err = "none", calling,
         NEW n \in {1, 2}, Has(n), There = Parsed + n,
         NoItems(Hand, Path), ~BadItem(Hand, Path),
         Item(SeenNode(Hand[Path]).type, SeenNode(Hand[Path]).num, n)
  PROVE  IInv'
<1>1. /\ Made /\ MoveToNextTask /\ pos' = pos + n /\ UNCHANGED <<input, buf>> /\ sent' = sent
      /\ err' = "none" /\ calling' = TRUE /\ taken' = taken
  BY DEF Item, Made, input, IInv
<1>2. BufferOK /\ TakenOK /\ IsReply(Hand) /\ Stack(Hand, rstack)
  BY HandIs DEF IInv, Within
<1>3. BufferOK' /\ Parsed' = There
  BY <1>1, <1>2, AdvanceBuffer
<1>4. TakenOK'
  BY <1>1, <1>2, TakenKept
<1>5. CASE rstack' = <<>> /\ IsLast(Hand, Path)
  <2>1. Ready'
    BY <1>1, <1>2, <1>3, <1>5, IsWhole
  <2> QED
    BY <1>1, <1>3, <1>4, <2>1 DEF IInv
<1>6. CASE /\ Stack(Hand, rstack') /\ IsNext(Hand, Path, PathOf(rstack'))
           /\ rstack'[Len(rstack')].type = "none"
  <2>1. Within'
    BY <1>1, <1>2, <1>3, <1>6, GoesOn
  <2> QED
    BY <1>1, <1>3, <1>4, <2>1 DEF IInv
<1> QED
  BY <1>1, <1>2, <1>5, <1>6, MoveTo

LEMMA LineItemStep ==
  ASSUME IInv, ProcessLineItem
  PROVE  IInv'
<1>1. PICK type \in LineTypes : Reading(type)
  BY DEF ProcessLineItem
<1>2. Has(1) /\ Item(Cur.type, Unit(1).num, 1) /\ type # "none" /\ type # "bad"
  BY <1>1 DEF ProcessLineItem, LineTypes
<1>3. BufferOK /\ TakenOK /\ Within /\ err = "none" /\ calling /\ Cur.type = type
  BY <1>1, <1>2, Reads
<1>4. Cur.type = ItemUnits(Hand[Path])[1].type /\ Parsed = Here + 1
  BY <1>2, <1>3 DEF Within, ItemOK
<1>5. Hand[Path].type = type
  BY <1>1, <1>3, <1>4, ItemIs, UnitsAre DEF NodeTypes, LineTypes
<1>6. Len(ItemUnits(Hand[Path])) = 2 /\ ItemUnits(Hand[Path])[2].num = Hand[Path].num
  BY <1>1, <1>3, <1>5, ItemIs, UnitsAre DEF LineTypes
<1>7. Unit(1).num = Hand[Path].num
  BY <1>2, <1>3, <1>6, ItemSees
<1>8. There = Parsed + 1
  BY <1>3, <1>4, <1>6, ItemIs
<1>9. SeenNode(Hand[Path]) = Hand[Path] /\ NoItems(Hand, Path) /\ ~BadItem(Hand, Path)
  BY <1>1, <1>5 DEF SeenNode, NoItems, BadItem, LineTypes
<1>10. Item(SeenNode(Hand[Path]).type, SeenNode(Hand[Path]).num, 1)
  BY <1>2, <1>3, <1>5, <1>7, <1>9
<1> QED
  BY <1>2, <1>3, <1>8, <1>9, <1>10, ItemStep

LEMMA BulkItemStep ==
  ASSUME IInv, ProcessBulkItem
  PROVE  IInv'
<1>1. /\ Reading("string") /\ Has(1)
      /\ \/ Unit(1).num < 0 /\ Item("nil", 0, 1)
         \/ Unit(1).num >= 0 /\ Has(2) /\ Item("string", Unit(2).num, 2)
  BY DEF ProcessBulkItem
<1>2. BufferOK /\ TakenOK /\ Within /\ err = "none" /\ calling /\ Cur.type = "string"
  BY <1>1, Reads
<1>3. Cur.type = ItemUnits(Hand[Path])[1].type /\ Parsed = Here + 1
  BY <1>2 DEF Within, ItemOK
<1>4. Hand[Path].type \in {"string", "nil"}
  BY <1>2, <1>3, ItemIs, UnitsAre DEF NodeTypes, LineTypes
<1>5. NoItems(Hand, Path) /\ ~BadItem(Hand, Path) /\ SeenNode(Hand[Path]) = Hand[Path]
  BY <1>4 DEF SeenNode, NoItems, BadItem
<1>6. 1 + 1 <= Len(ItemUnits(Hand[Path])) /\ Unit(1) = ItemUnits(Hand[Path])[2]
  <2>1. 1 + 1 <= Len(ItemUnits(Hand[Path]))
    BY <1>2, UnitsCount
  <2> QED
    BY <1>1, <1>2, <2>1, ItemSees
<1>7. CASE Hand[Path].type = "nil"
  <2>1. Unit(1).num = -1 /\ Len(ItemUnits(Hand[Path])) = 2
    BY <1>2, <1>6, <1>7, ItemIs, UnitsAre
  <2>2. Item("nil", 0, 1)
    <3>1. ~(-1 >= 0)
      OBVIOUS
    <3> QED
      BY <1>1, <2>1, <3>1
  <2>3. Hand[Path].num = 0
    <3>1. IsReply(Hand) /\ Path \in DOMAIN Hand
      BY <1>2, HandIs, ItemIs DEF Within
    <3> QED
      BY <1>7, <3>1 DEF IsReply
  <2>4. Item(SeenNode(Hand[Path]).type, SeenNode(Hand[Path]).num, 1)
    BY <1>5, <1>7, <2>2, <2>3
  <2>5. There = Parsed + 1
    BY <1>2, <1>3, <2>1, ItemIs
  <2> QED
    BY <1>1, <1>2, <1>5, <2>4, <2>5, ItemStep
<1>8. CASE Hand[Path].type = "string"
  <2>1. /\ Len(ItemUnits(Hand[Path])) = 3 /\ Unit(1).num = 1
        /\ ItemUnits(Hand[Path])[3].num = Hand[Path].num
    BY <1>2, <1>6, <1>8, ItemIs, UnitsAre
  <2>2. Has(2) /\ Item("string", Unit(2).num, 2)
    BY <1>1, <2>1
  <2>3. 2 + 1 <= Len(ItemUnits(Hand[Path]))
    BY <2>1
  <2>4. Unit(2) = ItemUnits(Hand[Path])[2 + 1]
    BY <1>2, <2>2, <2>3, ItemSees
  <2>5. Unit(2).num = Hand[Path].num
    BY <2>1, <2>4
  <2>6. Item(SeenNode(Hand[Path]).type, SeenNode(Hand[Path]).num, 2)
    BY <1>5, <1>8, <2>2, <2>5
  <2>7. There = Parsed + 2
    BY <1>2, <1>3, <2>1, ItemIs
  <2> QED
    BY <1>1, <1>2, <1>5, <2>2, <2>6, <2>7, ItemStep
<1> QED
  BY <1>4, <1>7, <1>8

LEMMA MultiBulkItemStep ==
  ASSUME IInv, ProcessMultiBulkItem
  PROVE  IInv'
<1>1. Reading("array") /\ Len(rstack) < MaxTasks /\ Has(1)
  BY DEF ProcessMultiBulkItem
<1>2. BufferOK /\ TakenOK /\ Within /\ err = "none" /\ calling /\ Cur.type = "array"
  BY <1>1, Reads
<1>3. Cur.type = ItemUnits(Hand[Path])[1].type /\ Parsed = Here + 1 /\ Here \in Nat
  BY <1>2, ItemIs DEF Within, ItemOK
<1>4. Hand[Path].type \in {"array", "no array"}
  BY <1>2, <1>3, ItemIs, UnitsAre DEF NodeTypes, LineTypes
<1>5. /\ Path \in DOMAIN Hand /\ IsReply(Hand) /\ Stack(Hand, rstack)
      /\ Len(Path) = Len(rstack) - 1 /\ Len(rstack) \in Nat
  BY <1>2, HandIs, PathIs DEF Within
<1>6. ~BadItem(Hand, Path)
  <2>1. ~(Len(Path) >= MaxTasks - 1)
    BY <1>1, <1>5, RedisReaderAssumption
  <2> QED
    BY <1>4, <2>1 DEF BadItem
<1>7. Len(ItemUnits(Hand[Path])) = 2 /\ There = Parsed + 1
  <2>1. Len(ItemUnits(Hand[Path])) = 2
    BY <1>2, <1>4, ItemIs, UnitsAre
  <2>2. There = Here + 2
    BY <1>2, <2>1, ItemIs
  <2> QED
    BY <1>3, <2>1, <2>2
<1>8. Unit(1) = ItemUnits(Hand[Path])[2]
  <2>1. 1 + 1 <= Len(ItemUnits(Hand[Path]))
    BY <1>7
  <2> QED
    BY <1>1, <1>2, <2>1, ItemSees
<1>9. CASE Hand[Path].type = "no array"
  <2>1. Unit(1).num = -1
    BY <1>2, <1>8, <1>9, ItemIs, UnitsAre
  <2>2. Item("nil", 0, 1)
    BY <2>1 DEF ProcessMultiBulkItem
  <2>3. SeenNode(Hand[Path]).type = "nil" /\ SeenNode(Hand[Path]).num = 0 /\ NoItems(Hand, Path)
    BY <1>9 DEF SeenNode, NoItems
  <2>4. Item(SeenNode(Hand[Path]).type, SeenNode(Hand[Path]).num, 1)
    BY <2>2, <2>3
  <2> QED
    BY <1>1, <1>2, <1>6, <1>7, <2>3, <2>4, ItemStep
<1>10. CASE Hand[Path].type = "array"
  <2>1. Unit(1).num = Hand[Path].num /\ Hand[Path].num \in Nat
    BY <1>2, <1>5, <1>8, <1>10, ItemIs, UnitsAre DEF IsReply
  <2>2. SeenNode(Hand[Path]) = Hand[Path]
    BY <1>10 DEF SeenNode
  <2>3. CASE Hand[Path].num = 0
    <3>1. Item("array", 0, 1)
      BY <2>1, <2>3 DEF ProcessMultiBulkItem
    <3>2. Item(SeenNode(Hand[Path]).type, SeenNode(Hand[Path]).num, 1) /\ NoItems(Hand, Path)
      BY <1>10, <2>2, <2>3, <3>1 DEF NoItems
    <3> QED
      BY <1>1, <1>2, <1>6, <1>7, <3>2, ItemStep
  <2>4. CASE Hand[Path].num > 0
    <3>1. /\ Creates("array", Unit(1).num) /\ pos' = pos + 1
          /\ rstack' = Append([rstack EXCEPT ![Len(rstack)].elements = Unit(1).num], Untyped(0))
          /\ UNCHANGED <<input, buf>> /\ sent' = sent
          /\ err' = "none" /\ calling' = TRUE /\ taken' = taken
      <4>1. Unit(1).num # -1 /\ Unit(1).num # 0
        BY <2>1, <2>4
      <4> QED
        BY <1>2, <4>1 DEF ProcessMultiBulkItem, Item, input
    <3>2. Made
      BY <1>10, <2>1, <2>2, <3>1 DEF Made
    <3>3. /\ Stack(Hand, rstack') /\ IsNext(Hand, Path, PathOf(rstack'))
          /\ rstack'[Len(rstack')].type = "none"
      BY <1>1, <1>2, <1>5, <1>10, <2>1, <2>4, <3>1, MoveInto
    <3>4. BufferOK' /\ Parsed' = There
      BY <1>1, <1>2, <1>7, <3>1, AdvanceBuffer
    <3>5. TakenOK'
      BY <1>2, <3>1, TakenKept
    <3>6. Within'
      BY <1>2, <1>6, <3>1, <3>2, <3>3, <3>4, GoesOn
    <3> QED
      BY <3>1, <3>4, <3>5, <3>6 DEF IInv
  <2> QED
    BY <2>1, <2>3, <2>4
<1> QED
  BY <1>4, <1>9, <1>10

(* No step leaves the invariant.                                            *)
LEMMA Inductive == IInv /\ [Next]_vars => IInv'
<1> SUFFICES ASSUME IInv, [Next]_vars PROVE IInv'
  OBVIOUS
<1>1. CASE UNCHANGED vars
  <2>1. /\ sent' = sent /\ wire' = wire /\ buf' = buf /\ pos' = pos /\ rstack' = rstack
        /\ reply' = reply /\ err' = err /\ calling' = calling /\ taken' = taken
    BY <1>1 DEF vars
  <2>2. BufferOK' /\ Parsed' = Parsed
    BY <2>1 DEF IInv, BufferOK, Parsed, Fed
  <2>3. TakenOK'
    BY <2>1, TakenKept DEF IInv
  <2>4. Idle => Idle'
    BY <2>1, <2>2 DEF Idle, StartOf
  <2>5. Over => Over'
    BY <2>1, <2>2, OverKept
  <2>6. Within => Within'
    BY <2>1, <2>2, WithinKept
  <2>7. Ready => Ready'
    <3> SUFFICES ASSUME Ready PROVE Ready'
      OBVIOUS
    <3>1. Hand' = Hand
      BY <2>1 DEF Hand
    <3>2. (reply = Seen(Hand) /\ ~Unreadable(Hand))'
      BY <2>1, <3>1 DEF Ready, Seen, Unreadable, BadItem
    <3>3. (Parsed = StartOf(sent, Len(taken) + 2))'
      BY <2>1, <2>2 DEF Ready, StartOf
    <3> QED
      BY <2>1, <3>2, <3>3 DEF Ready
  <2>8. Failed => Failed'
    <3>1. ErrorIsDue => ErrorIsDue'
      BY <2>1 DEF ErrorIsDue
    <3> QED
      BY <2>1, <3>1 DEF Failed
  <2> QED
    BY <2>1, <2>2, <2>3, <2>4, <2>5, <2>6, <2>7, <2>8 DEF IInv
<1>2. CASE Feed
  BY <1>2, FeedStep
<1>3. CASE Call
  BY <1>3, CallStep
<1>4. CASE Emit
  BY <1>4, EmitStep
<1>5. CASE RunOut
  BY <1>5, RunOutStep
<1>6. CASE ReadType
  BY <1>6, ReadTypeStep
<1>7. CASE BadType
  BY <1>7, BadTypeStep
<1>8. CASE ProcessLineItem
  BY <1>8, LineItemStep
<1>9. CASE ProcessBulkItem
  BY <1>9, BulkItemStep
<1>10. CASE ProcessMultiBulkItem
  BY <1>10, MultiBulkItemStep
<1>11. CASE TooDeep
  BY <1>11, TooDeepStep
<1>12. CASE OutOfMemory
  BY <1>12, OutOfMemoryStep
<1> QED
  BY <1>1, <1>2, <1>3, <1>4, <1>5, <1>6, <1>7, <1>8, <1>9, <1>10, <1>11, <1>12 DEF Next

THEOREM Invariance == Spec => []IInv
<1> QED
  BY InitInv, Inductive, PTL DEF Spec

-----------------------------------------------------------------------------
(* The stack never has more than MaxTasks tasks, and each is an item of the *)
(* array below it (hiredis.c:443-520).                                      *)
THEOREM ReaderStack == Spec => []TypeOK
<1>1. IInv => TypeOK
  <2> SUFFICES ASSUME IInv PROVE TypeOK
    OBVIOUS
  <2>1. sent \in Sent /\ pos \in 0..Len(buf)
    BY DEF IInv, BufferOK
  <2>2. err \in {"none", "protocol", "oom"} /\ calling \in BOOLEAN
    BY DEF IInv
  <2>3. /\ Len(rstack) <= MaxTasks
        /\ \A k \in 2..Len(rstack) :
             /\ rstack[k - 1].type = "array"
             /\ rstack[k].idx \in 0..rstack[k - 1].elements - 1
    <3>1. CASE rstack = <<>>
      BY <3>1, RedisReaderAssumption
    <3>2. CASE Over
      <4>1. Len(rstack) = 1
        BY <3>2 DEF Over
      <4> QED
        BY <4>1, RedisReaderAssumption
    <3>3. CASE Within
      <4>1. /\ IsReply(Hand) /\ Stack(Hand, rstack) /\ Path \in DOMAIN Hand
            /\ Len(rstack) \in Nat /\ Len(rstack) <= MaxTasks /\ Len(Path) = Len(rstack) - 1
        BY <3>3, HandIs, PathIs DEF IInv, Within
      <4>2. ASSUME NEW k \in 2..Len(rstack)
            PROVE  /\ rstack[k - 1].type = "array"
                   /\ rstack[k].idx \in 0..rstack[k - 1].elements - 1
        <5>1. PICK j \in 1..Len(Path) : k = j + 1 /\ k - 1 = j
          <6>1. k - 1 \in 1..Len(Path) /\ k = (k - 1) + 1
            BY <4>1
          <6> QED
            BY <6>1
        <5>2. Path[j] = rstack[k].idx /\ j \in 1..Len(rstack) - 1
          BY <4>1, <5>1, PathIs
        <5>3. rstack[j].type = "array" /\ rstack[j].elements = Hand[Above(Path, j)].num
          BY <4>1, <5>2, PathIs DEF Stack
        <5>4. /\ Hand[Above(Path, j)].num \in Nat /\ Path[j] < Hand[Above(Path, j)].num
              /\ Path[j] \in Nat
          BY <4>1, ItemsOf
        <5> QED
          BY <5>1, <5>2, <5>3, <5>4
      <4> QED
        BY <4>1, <4>2
    <3> QED
      BY <3>1, <3>2, <3>3, HasTask
  <2> QED
    BY <2>1, <2>2, <2>3 DEF TypeOK
<1> QED
  BY <1>1, Invariance, PTL

(* The caller gets the replies that were sent, whole and in order, however  *)
(* the input was cut and whenever the buffer was (hiredis.c:617-665).       *)
THEOREM ReaderReplies == Spec => []RepliesInOrder
<1>1. IInv => RepliesInOrder
  BY DEF IInv, TakenOK
<1> QED
  BY <1>1, Invariance, PTL

(* A protocol error is raised only at a reply that has an item the reader   *)
(* cannot read (hiredis.c:447-451, 530).                                    *)
THEOREM ReaderErrors == Spec => []ErrorIsDue
<1>1. IInv => ErrorIsDue
  BY DEF IInv, Failed, ErrorIsDue
<1> QED
  BY <1>1, Invariance, PTL

(* A call that returns nothing leaves no complete reply in the buffer       *)
(* (hiredis.c:626-665).                                                     *)
THEOREM ReaderReturns == Spec => NoReplyHeldBack
<1> DEFINE Held == Len(taken) = Len(sent) \/ Fed < StartOf(sent, Len(taken) + 2)
<1>1. ASSUME IInv, [Next]_vars, calling, ~calling', taken' = taken, err' = "none"
      PROVE  Held
  <2>1. RunOut
    <3>1. ~Emit
      <4> SUFFICES ASSUME Emit PROVE FALSE
        OBVIOUS
      <4>1. taken' = Append(taken, reply) /\ Len(taken) \in Nat
        BY DEF Emit, IInv, TakenOK
      <4>2. Len(Append(taken, reply)) = Len(taken) + 1
        BY DEF IInv, TakenOK
      <4> QED
        BY <1>1, <4>1, <4>2
    <3> QED
      BY <1>1, <3>1 DEF Next, vars, Feed, Call, ReadType, BadType, ProcessLineItem,
                        ProcessBulkItem, ProcessMultiBulkItem, TooDeep, OutOfMemory,
                        SetError, Item
  <2>2. rstack # <<>> /\ Incomplete
    BY <2>1 DEF RunOut
  <2>3. CASE Over
    BY <2>3 DEF Over
  <2>4. CASE Within
    <3>1. BufferOK /\ TakenOK /\ Here \in Nat /\ There <= StartOf(sent, Len(taken) + 2)
      BY <1>1, <2>4, ItemIs DEF IInv
    <3>2. PICK l \in {2, 3} : l = Len(ItemUnits(Hand[Path])) /\ There = Here + l
      BY <2>4, <3>1, ItemIs, UnitsAre
    <3>3. PICK h \in {0, 1} : Parsed = Here + h
      <4>1. Parsed = Here \/ Parsed = Here + 1
        BY <2>4 DEF Within, ItemOK
      <4>2. Here = Here + 0
        BY <3>1
      <4> QED
        BY <4>1, <4>2
    <3>4. \A i \in {1, 2} : ~Has(i) => Fed < Parsed + i
      BY <3>1 DEF BufferOK, Has, Parsed
    <3>5. Fed < There
      <4>1. CASE ~Has(1)
        <5>1. Fed < Parsed + 1
          BY <3>4, <4>1
        <5>2. Fed \in Int
          BY <3>1 DEF BufferOK
        <5>3. Parsed + 1 <= There
          <6>1. h \in Nat /\ l \in Nat /\ h + 1 <= l
            OBVIOUS
          <6> QED
            BY <3>1, <3>2, <3>3, <6>1
        <5>4. Parsed \in Int /\ There \in Int
          BY <3>1, <3>2, <3>3
        <5> QED
          BY <5>1, <5>2, <5>3, <5>4
      <4>2. CASE Reading("string") /\ Has(1) /\ ~Has(2) /\ Unit(1).num >= 0
        <5>1. Cur.type = "string" /\ Unit(1) = ItemUnits(Hand[Path])[2] /\ Parsed = Here + 1
          <6>1. Cur.type = "string" /\ 1 + 1 <= Len(ItemUnits(Hand[Path]))
            BY <2>4, <3>1, <4>2, UnitsCount DEF Reading
          <6> QED
            BY <2>4, <3>1, <4>2, <6>1, ItemSees
        <5>2. ItemUnits(Hand[Path])[1].type = "string"
          BY <2>4, <5>1 DEF Within, ItemOK
        <5>3. Hand[Path].type \in {"string", "nil"}
          BY <2>4, <3>1, <5>2, ItemIs, UnitsAre DEF NodeTypes, LineTypes
        <5>4. Hand[Path].type # "nil"
          <6> SUFFICES ASSUME Hand[Path].type = "nil" PROVE FALSE
            OBVIOUS
          <6>1. Unit(1).num = -1
            BY <2>4, <3>1, <5>1, ItemIs, UnitsAre
          <6> QED
            BY <4>2, <6>1
        <5>5. l = 3
          BY <2>4, <3>1, <3>2, <5>3, <5>4, ItemIs, UnitsAre
        <5>6. Fed < Parsed + 2
          BY <3>4, <4>2
        <5> QED
          BY <3>1, <3>2, <5>1, <5>5, <5>6 DEF BufferOK
      <4> QED
        BY <2>2, <4>1, <4>2 DEF Incomplete
    <3>6. StartOf(sent, Len(taken) + 2) \in Nat
      BY <2>4, <3>1, StartIs
    <3> QED
      BY <3>1, <3>2, <3>5, <3>6 DEF BufferOK
  <2> QED
    BY <1>1, <2>2, <2>3, <2>4, HasTask
<1>2. IInv /\ [Next]_vars => [calling /\ ~calling' /\ taken' = taken /\ err' = "none" => Held]_vars
  BY <1>1
<1> QED
  BY <1>2, Invariance, PTL DEF Spec, NoReplyHeldBack

=============================================================================
