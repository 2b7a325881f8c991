-------------------------- MODULE ReaderProperties --------------------------
(* What redisReaderGetReply promises to redisGetReply: the replies the      *)
(* server sent, whole and in order, however the input is cut; each as soon  *)
(* as it is there; an error only for a reply the reader cannot read.        *)
EXTENDS RedisReader

CONSTANT PlaceOf  \* PlaceOf[s][x]: the units of the stream s before its item x

-----------------------------------------------------------------------------
(* The protocol.  A reply is a tree: its root is the path <<>>, and an      *)
(* array of num elements has the items 0 .. num - 1 below it.               *)
NodeTypes == LineTypes \cup {"string", "nil", "no array", "array", "bad"}

IsReply(r) ==
    /\ <<>> \in DOMAIN r
    /\ \A p \in DOMAIN r :
         /\ p \in Seq(Nat)
         /\ r[p] \in [type : NodeTypes, num : Int]
         /\ r[p].type = "nil" => r[p].num = 0
         /\ r[p].type = "array" => r[p].num \in Nat
         /\ r[p].type = "array" => \A i \in 0..r[p].num - 1 : Append(p, i) \in DOMAIN r
         /\ \A k \in 1..Len(p) :
              LET above == SubSeq(p, 1, k - 1)
              IN /\ above \in DOMAIN r /\ r[above].type = "array"
                 /\ p[k] < r[above].num

Units == [type : LineTypes \cup {"string", "array", "bad", ""}, num : Int]

(* The units of one item, without those of its elements. *)
Type(t) == [type |-> t, num |-> 0]
Num(n) == [type |-> "", num |-> n]

ItemUnits(node) ==
    CASE node.type \in LineTypes -> <<Type(node.type), Num(node.num)>>
      [] node.type = "string"    -> <<Type("string"), Num(1), Num(node.num)>>
      [] node.type = "nil"       -> <<Type("string"), Num(-1)>>
      [] node.type = "no array"  -> <<Type("array"), Num(-1)>>
      [] node.type = "array"     -> <<Type("array"), Num(node.num)>>
      [] node.type = "bad"       -> <<Type("bad"), Num(0)>>

(* An array comes before its elements, and each of them before the next. *)
Precedes(p, q) ==
    \E k \in 1..Len(q) :
        /\ k - 1 <= Len(p)
        /\ \A j \in 1..k - 1 : p[j] = q[j]
        /\ k <= Len(p) => p[k] < q[k]

(* The stream of a sequence of replies: their items one after the other in  *)
(* that order, without a gap.                                               *)
Items(s) == UNION {{i} \X DOMAIN s[i] : i \in 1..Len(s)}
Before(x, y) == x[1] < y[1] \/ (x[1] = y[1] /\ Precedes(x[2], y[2]))
UnitsOf(s, x) == ItemUnits(s[x[1]][x[2]])
EndOf(s, x) == PlaceOf[s][x] + Len(UnitsOf(s, x))

IsStream(s) ==
    /\ WireOf[s] \in Seq(Units)
    /\ \A x \in Items(s) :
         /\ PlaceOf[s][x] \in Nat
         /\ EndOf(s, x) <= Len(WireOf[s])
         /\ \A k \in 1..Len(UnitsOf(s, x)) : WireOf[s][PlaceOf[s][x] + k] = UnitsOf(s, x)[k]
         /\ \A y \in Items(s) : Before(x, y) => EndOf(s, x) <= PlaceOf[s][y]
         /\ EndOf(s, x) = Len(WireOf[s]) \/ \E y \in Items(s) : EndOf(s, x) = PlaceOf[s][y]
    /\ IF Len(s) = 0 THEN WireOf[s] = <<>> ELSE PlaceOf[s][<<1, << >> >>] = 0

ASSUME ProtocolAssumption ==
    \A s \in Sent :
        /\ Len(s) \in Nat /\ DOMAIN s = 1..Len(s)
        /\ \A i \in 1..Len(s) : IsReply(s[i])
        /\ IsStream(s)

(* The caller sees both kinds of nil alike. *)
SeenNode(node) == IF node.type = "no array" THEN [type |-> "nil", num |-> 0] ELSE node
Seen(r) == [p \in DOMAIN r |-> SeenNode(r[p])]

(* Items the reader cannot read: it meets an unknown type, or an array      *)
(* under MaxTasks - 1 others.                                               *)
BadItem(r, p) ==
    \/ r[p].type = "bad"
    \/ r[p].type \in {"array", "no array"} /\ Len(p) >= MaxTasks - 1
Unreadable(r) == \E p \in DOMAIN r : BadItem(r, p)

-----------------------------------------------------------------------------
TypeOK ==
    /\ sent \in Sent
    /\ pos \in 0..Len(buf)
    /\ err \in {"none", "protocol", "oom"}
    /\ calling \in BOOLEAN
    /\ Len(rstack) <= MaxTasks
    /\ \A k \in 2..Len(rstack) :
         /\ rstack[k - 1].type = "array"
         /\ rstack[k].idx \in 0..rstack[k - 1].elements - 1

(* The replies returned are those sent, in order and whole, whatever pieces *)
(* the input came in, wherever one ended, and whenever the buffer was cut   *)
(* (hiredis.c:617-665).                                                     *)
RepliesInOrder ==
    /\ Len(taken) <= Len(sent)
    /\ \A i \in 1..Len(taken) : taken[i] = Seen(sent[i]) /\ ~Unreadable(sent[i])

(* A call that returns neither a reply nor an error leaves no complete      *)
(* reply in the buffer: redisGetReply would block on the socket for what it *)
(* has (hiredis.c:1183-1211).                                               *)
Fed == Len(WireOf[sent]) - Len(wire)

(* Where the stream's n-th reply starts; behind the last one, where the     *)
(* stream ends.                                                             *)
StartOf(s, n) == IF n <= Len(s) THEN PlaceOf[s][<<n, << >> >>] ELSE Len(WireOf[s])

NoReplyHeldBack ==
    [][calling /\ ~calling' /\ taken' = taken /\ err' = "none" =>
         Len(taken) = Len(sent) \/ Fed < StartOf(sent, Len(taken) + 2)]_vars

(* The reader gives up only on a reply that it cannot read, never on what a *)
(* piece of input or an earlier reply left behind (hiredis.c:447-451, 530). *)
ErrorIsDue ==
    err = "protocol" => Len(taken) < Len(sent) /\ Unreadable(sent[Len(taken) + 1])
=============================================================================
