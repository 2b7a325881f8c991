--------------------------- MODULE MCRedisReader ---------------------------
(* Two replies in a row of all kinds, nested as deep as the stack allows    *)
(* and one deeper, with unknown types at the root and below it.             *)
EXTENDS ReaderProperties, SequencesExt

Leaf(type, num) == [p \in {<<>>} |-> [type |-> type, num |-> num]]

Array(items) ==
    LET at(i) == {<<i - 1>> \o p : p \in DOMAIN items[i]}
    IN [p \in {<<>>} \cup UNION {at(i) : i \in 1..Len(items)} |->
          IF p = <<>> THEN [type |-> "array", num |-> Len(items)]
          ELSE items[p[1] + 1][Tail(p)]]

Integer == Leaf("integer", 3)
String == Leaf("string", 5)
Nil == Leaf("nil", 0)
NoArray == Leaf("no array", 0)
Bad == Leaf("bad", 0)
Pair == Array(<<String, Integer>>)

Replies ==
    {Leaf("status", 1), Leaf("error", 2), Integer, String, Nil, NoArray, Bad,
     Array(<<>>), Pair, Array(<<Nil, Bad>>), Array(<<NoArray, Array(<<>>), String>>),
     Array(<<Pair, Integer>>), Array(<<Integer, Pair>>),
     Array(<<Array(<<Pair>>)>>), Array(<<Integer, Array(<<NoArray>>)>>),
     Array(<<Array(<<Array(<<>>)>>)>>)}

TwoReplies == {<<r, s>> : r, s \in Replies}

(* What a server writes, by recursion over the items of a reply, and where  *)
(* each item starts.                                                        *)
RECURSIVE UnitsFrom(_, _)
UnitsFrom(r, p) ==
    ItemUnits(r[p])
    \o (IF r[p].type = "array"
        THEN FlattenSeq([i \in 1..r[p].num |-> UnitsFrom(r, Append(p, i - 1))])
        ELSE <<>>)

AllUnits(s) == FlattenSeq([i \in 1..Len(s) |-> UnitsFrom(s[i], <<>>)])
Wire == [s \in TwoReplies |-> AllUnits(s)]

Place ==
    [s \in TwoReplies |-> [x \in Items(s) |->
        MapThenSumSet(LAMBDA y : Len(UnitsOf(s, y)), {y \in Items(s) : Before(y, x)})]]
=============================================================================
