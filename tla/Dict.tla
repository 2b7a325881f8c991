-------------------------------- MODULE Dict --------------------------------
(* The hash table in which the asynchronous context keeps the callbacks of  *)
(* its subscriptions (hiredis/dict.c), as operators on a value: a table of  *)
(* a power of two of buckets that doubles when it is full.                  *)
(*                                                                          *)
(* A bucket is the set of its entries.  The order of its linked list only   *)
(* decides the order in which dictNext gives them, which nothing in async.c *)
(* depends on.                                                              *)
EXTENDS Integers, FiniteSets

CONSTANTS Keys,         \* names of channels and patterns
          HashOf,       \* HashOf[key]: its hash, an unsigned int
          InitialSize   \* 4

ASSUME DictAssumption ==
    /\ HashOf \in [Keys -> Nat]
    /\ InitialSize \in Nat \ {0}

EmptyDict == [size |-> 0, used |-> 0, table |-> [i \in {} |-> {}]]

(* h & sizemask, for a size that is a power of two. *)
Slot(key, size) == HashOf[key] % size

(* What dictNext gives, in all. *)
Entries(ht) == UNION {ht.table[i] : i \in 0 .. ht.size - 1}

(* dictFind looks in one bucket only. *)
Matches(ht, key) ==
    IF ht.size = 0 THEN {} ELSE {e \in ht.table[Slot(key, ht.size)] : e.key = key}

Found(ht, key) == Matches(ht, key) # {}
Find(ht, key) == (CHOOSE e \in Matches(ht, key) : TRUE).val

(* Mutant: the entries stay in the buckets they were in. *)
ExpandUnmoved(ht, size) ==
    [ht EXCEPT !.size = size,
               !.table = [i \in 0 .. size - 1 |-> IF i < ht.size THEN ht.table[i] ELSE {}]]

(* dictExpand moves every entry to its bucket of the new table.  Both       *)
(* callers pass a power of two that _dictNextPower returns as it is.        *)
Expand(ht, size) ==
    [ht EXCEPT !.size = size,
               !.table = [i \in 0 .. size - 1 |-> {e \in Entries(ht) : Slot(e.key, size) = i}]]

ExpandIfNeeded(ht) ==
    CASE ht.size = 0 -> Expand(ht, InitialSize)
      [] ht.size # 0 /\ ht.used = ht.size -> Expand(ht, 2 * ht.size)
      [] OTHER -> ht

(* Mutant: dictAdd alone, which leaves the value of a key it finds. *)
AddOnly(ht, key, val) ==
    LET n == ExpandIfNeeded(ht)
        i == Slot(key, n.size)
    IN IF Found(n, key)
       THEN n
       ELSE [n EXCEPT !.table[i] = @ \cup {[key |-> key, val |-> val]}, !.used = @ + 1]

(* dictAdd, and when it finds the key, a new value for its entry. *)
Replace(ht, key, val) ==
    LET n == ExpandIfNeeded(ht)
        i == Slot(key, n.size)
        entry == [key |-> key, val |-> val]
    IN IF Found(n, key)
       THEN [n EXCEPT !.table[i] = (@ \ Matches(n, key)) \cup {entry}]
       ELSE [n EXCEPT !.table[i] = @ \cup {entry}, !.used = @ + 1]

Delete(ht, key) ==
    IF Found(ht, key)
    THEN [ht EXCEPT !.table[Slot(key, ht.size)] = @ \ Matches(ht, key), !.used = @ - 1]
    ELSE ht
=============================================================================
