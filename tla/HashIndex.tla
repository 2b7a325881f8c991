----------------------------- MODULE HashIndex -----------------------------
(* What HashStore.hpp's interface promises, with every method atomic: an    *)
(* index of frame hashes, each owned by a clip, and for each clip the list  *)
(* of the hashes put under its id.  RedisHashStore implements it with two   *)
(* Redis databases, several commands per method.                            *)
EXTENDS Integers, FiniteSets, Functions

CONSTANTS Hashes, Ids, SeqNums, None, Overwrites, MaxCopies

VARIABLES entries,  \* entries[h]: the frame hash h stands for, or None
          listed,   \* listed[i][h]: how often h was put under id i
          answer    \* what the last query answered

vars == <<entries, listed, answer>>

Entry == [id : Ids, seqnum : SeqNums]
NoHashes == [h \in Hashes |-> 0]
NoAnswer == [is |-> "none", entry |-> None, count |-> 0, names |-> {}]

Init ==
    /\ entries = [h \in Hashes |-> None]
    /\ listed = [i \in Ids |-> NoHashes]
    /\ answer = NoAnswer

(* A Put that may not overwrite keeps the entry of an earlier Put. *)
Put(h, e, overwrite) ==
    /\ overwrite \/ entries[h] = None
    /\ listed[e.id][h] < MaxCopies
    /\ entries' = [entries EXCEPT ![h] = e]
    /\ listed' = [listed EXCEPT ![e.id][h] = @ + 1]
    /\ UNCHANGED answer

DeleteHash(h) ==
    /\ entries[h] # None
    /\ entries' = [entries EXCEPT ![h] = None]
    /\ listed' = [listed EXCEPT ![entries[h].id][h] = 0]
    /\ UNCHANGED answer

DeleteId(i) ==
    /\ entries' = [h \in Hashes |-> IF listed[i][h] > 0 THEN None ELSE entries[h]]
    /\ listed' = [listed EXCEPT ![i] = NoHashes]
    /\ UNCHANGED answer

Respond(a) == answer' = a /\ UNCHANGED <<entries, listed>>

Get(h) == Respond([NoAnswer EXCEPT !.is = "entry", !.entry = entries[h]])
Count == Respond([NoAnswer EXCEPT !.is = "count",
                                  !.count = Cardinality({h \in Hashes : entries[h] # None})])
CountId(i) == Respond([NoAnswer EXCEPT !.is = "count", !.count = SumFunction(listed[i])])
Entries == Respond([NoAnswer EXCEPT !.is = "names",
                                    !.names = {i \in Ids : listed[i] # NoHashes}])

Next ==
    \/ \E h \in Hashes, e \in Entry, ow \in Overwrites : Put(h, e, ow)
    \/ \E h \in Hashes : DeleteHash(h) \/ Get(h)
    \/ \E i \in Ids : DeleteId(i) \/ CountId(i)
    \/ Count \/ Entries

Spec == Init /\ [][Next]_vars

-----------------------------------------------------------------------------
TypeOK ==
    /\ entries \in [Hashes -> Entry \cup {None}]
    /\ listed \in [Ids -> [Hashes -> Nat]]

(* Every entry is listed under the id it names, so that DeleteEntry(id)     *)
(* finds it.  Put (RedisHashStore.cpp:69-87) writes both, the two           *)
(* DeleteEntry (RedisHashStore.cpp:131-210) must take both away.            *)
OwnerListed ==
    \A h \in Hashes : entries[h] # None => listed[entries[h].id][h] > 0

(* DeleteEntry(id) leaves no frame of the clip behind, whichever Puts       *)
(* overwrote each other before (RedisHashStore.cpp:164-210).                *)
ClipForgotten ==
    [][\A i \in Ids : DeleteId(i) =>
          \A h \in Hashes : entries'[h] # None => entries'[h].id # i]_vars
=============================================================================
