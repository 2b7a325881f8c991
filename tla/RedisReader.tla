---------------------------- MODULE RedisReader ----------------------------
(* The reader of hiredis (hiredis.c:183-670), by which HiredisContext gets  *)
(* whole replies in order: it parses what redisReaderFeed was given so far, *)
(* one item of a reply at a time, on a stack of tasks that it keeps when    *)
(* the input runs out.                                                      *)
(*                                                                          *)
(* The input comes in units: the type byte of an item, the line after it,   *)
(* the body of a bulk string; a unit of which only a part has come is one   *)
(* that has not.  A reply is the function from the paths of its items (the  *)
(* indices from the root down) to their nodes.                              *)
EXTENDS Integers, Sequences

CONSTANTS
    Sent,      \* sequences of replies a server may send
    WireOf,    \* WireOf[s]: the units of such a sequence
    MaxTasks,  \* 9: tasks on the stack
    DiscardAt  \* 1024, in units: input parsed before the buffer is cut

ASSUME RedisReaderAssumption == MaxTasks \in Nat \ {0} /\ DiscardAt \in Nat \ {0}

VARIABLES
    sent,     \* what the server sends, in all
    wire,     \* units not fed yet
    buf, pos, \* the read buffer, and how much of it is parsed
    rstack,   \* tasks; empty for ridx = -1
    reply,    \* the nodes made of the reply being read
    err,      \* "none", "protocol" or "oom"
    calling,  \* redisReaderGetReply is running
    taken     \* the replies it has returned

input == <<sent, wire>>
vars == <<sent, wire, buf, pos, rstack, reply, err, calling, taken>>

Untyped(idx) == [type |-> "none", elements |-> -1, idx |-> idx]

Init ==
    /\ sent \in Sent
    /\ wire = WireOf[sent]
    /\ buf = <<>> /\ pos = 0
    /\ rstack = <<>>
    /\ reply = <<>>
    /\ err = "none"
    /\ calling = FALSE
    /\ taken = <<>>

Cur == rstack[Len(rstack)]
Reading(type) == calling /\ rstack # <<>> /\ Cur.type = type

(* n more units are in the buffer; the i-th of them. *)
Has(n) == Len(buf) - pos >= n
Unit(i) == buf[pos + i]

-----------------------------------------------------------------------------
(* redisReaderFeed.  In an erroneous state it takes nothing. *)
Feed ==
    /\ ~calling
    /\ err = "none"
    /\ \E n \in 1..Len(wire) :
         /\ buf' = buf \o SubSeq(wire, 1, n)
         /\ wire' = SubSeq(wire, n + 1, Len(wire))
    /\ UNCHANGED <<sent, pos, rstack, reply, err, calling, taken>>

(* redisReaderGetReply, unless there is an error or the buffer is empty. *)
Call ==
    /\ ~calling
    /\ err = "none"
    /\ Len(buf) > 0
    /\ calling' = TRUE
    /\ rstack' = IF rstack = <<>> THEN <<Untyped(-1)>> ELSE rstack
    /\ UNCHANGED <<input, buf, pos, reply, err, taken>>

(* Mutant: the cursor stays where it was. *)
DiscardKeepsPos ==
    IF pos >= DiscardAt
    THEN buf' = SubSeq(buf, pos + 1, Len(buf)) /\ UNCHANGED pos
    ELSE UNCHANGED <<buf, pos>>

(* The buffer is cut when enough of it has been parsed. *)
Discard ==
    IF pos >= DiscardAt
    THEN buf' = SubSeq(buf, pos + 1, Len(buf)) /\ pos' = 0
    ELSE UNCHANGED <<buf, pos>>

(* The stack is empty: the reply is returned. *)
Emit ==
    /\ calling
    /\ rstack = <<>>
    /\ Discard
    /\ taken' = Append(taken, reply)
    /\ reply' = <<>>
    /\ calling' = FALSE
    /\ UNCHANGED <<input, rstack, err>>

(* __redisReaderSetError; the call returns REDIS_ERR. *)
SetError(type) ==
    /\ err' = type
    /\ reply' = <<>>
    /\ buf' = <<>> /\ pos' = 0
    /\ rstack' = <<>>
    /\ calling' = FALSE
    /\ UNCHANGED <<input, taken>>

-----------------------------------------------------------------------------
(* The path of the item in hand, where create*Object puts its node. *)
Path == [k \in 1..Len(rstack) - 1 |-> rstack[k + 1].idx]

Creates(type, num) ==
    reply' = [q \in DOMAIN reply \cup {Path} |->
                IF q = Path THEN [type |-> type, num |-> num] ELSE reply[q]]

(* moveToNextTask: tasks that were the last of their array are done; the    *)
(* deepest other goes on to its array's next item.                          *)
Unfinished == {k \in 2..Len(rstack) : rstack[k].idx # rstack[k - 1].elements - 1}

(* Mutant: the end of an array is taken for the end of the reply. *)
MoveToNextShallow ==
    rstack' = IF Len(rstack) \notin Unfinished THEN <<>>
              ELSE [rstack EXCEPT ![Len(rstack)] = Untyped(@.idx + 1)]

MoveToNextTask ==
    rstack' = IF Unfinished = {} THEN <<>>
              ELSE LET k == CHOOSE k \in Unfinished : \A j \in Unfinished : j <= k
                   IN SubSeq(rstack, 1, k - 1) \o <<Untyped(rstack[k].idx + 1)>>

(* A node is made of the next n units, and parsing goes on. *)
Item(type, num, n) ==
    /\ Creates(type, num)
    /\ pos' = pos + n
    /\ MoveToNextTask
    /\ UNCHANGED <<input, buf, err, calling, taken>>

ReadType ==
    /\ Reading("none")
    /\ Has(1) /\ Unit(1).type # "bad"
    /\ rstack' = [rstack EXCEPT ![Len(rstack)].type = Unit(1).type]
    /\ pos' = pos + 1
    /\ UNCHANGED <<input, buf, reply, err, calling, taken>>

BadType ==
    /\ Reading("none")
    /\ Has(1) /\ Unit(1).type = "bad"
    /\ SetError("protocol")

LineTypes == {"error", "status", "integer"}

ProcessLineItem ==
    /\ \E type \in LineTypes : Reading(type)
    /\ Has(1)
    /\ Item(Cur.type, Unit(1).num, 1)

(* A bulk item is taken only when its body is there. *)
ProcessBulkItem ==
    /\ Reading("string")
    /\ Has(1)
    /\ \/ Unit(1).num < 0 /\ Item("nil", 0, 1)
       \/ Unit(1).num >= 0 /\ Has(2) /\ Item("string", Unit(2).num, 2)

(* Mutant: the last task is not used. *)
TooDeepEarly ==
    /\ Reading("array")
    /\ Len(rstack) = MaxTasks - 1
    /\ SetError("protocol")

TooDeep ==
    /\ Reading("array")
    /\ Len(rstack) = MaxTasks
    /\ SetError("protocol")

ProcessMultiBulkItem ==
    /\ Reading("array")
    /\ Len(rstack) < MaxTasks
    /\ Has(1)
    /\ \/ Unit(1).num = -1 /\ Item("nil", 0, 1)
       \/ Unit(1).num = 0 /\ Item("array", 0, 1)
       \/ /\ Unit(1).num > 0
          /\ Creates("array", Unit(1).num)
          /\ pos' = pos + 1
          /\ rstack' = Append([rstack EXCEPT ![Len(rstack)].elements = Unit(1).num], Untyped(0))
          /\ UNCHANGED <<input, buf, err, calling, taken>>

(* A node cannot be allocated. *)
OutOfMemory ==
    /\ \/ \E type \in LineTypes : Reading(type) /\ Has(1)
       \/ Reading("string") /\ Has(1) /\ (Unit(1).num < 0 \/ Has(2))
       \/ Reading("array") /\ Has(1) /\ Len(rstack) < MaxTasks
    /\ SetError("oom")

(* Mutant: a bulk item's body waits for a unit after it. *)
IncompleteLate ==
    \/ ~Has(1) /\ ~(Reading("array") /\ Len(rstack) = MaxTasks)
    \/ Reading("string") /\ Has(1) /\ ~Has(3) /\ Unit(1).num >= 0

(* The item in hand is not complete: the call returns no reply. *)
Incomplete ==
    \/ ~Has(1) /\ ~(Reading("array") /\ Len(rstack) = MaxTasks)
    \/ Reading("string") /\ Has(1) /\ ~Has(2) /\ Unit(1).num >= 0

RunOut ==
    /\ calling
    /\ rstack # <<>>
    /\ Incomplete
    /\ Discard
    /\ calling' = FALSE
    /\ UNCHANGED <<input, rstack, reply, err, taken>>

Next ==
    \/ Feed \/ Call \/ Emit \/ RunOut
    \/ ReadType \/ BadType
    \/ ProcessLineItem \/ ProcessBulkItem \/ ProcessMultiBulkItem \/ TooDeep
    \/ OutOfMemory

Spec == Init /\ [][Next]_vars
=============================================================================
