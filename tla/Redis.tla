------------------------------- MODULE Redis -------------------------------
(* The Redis server as ClipSeekr uses it.  The server is not part of the    *)
(* repository: what is modelled here is what the commands that              *)
(* RedisHashStore.cpp issues do and answer, one command at a time, on the   *)
(* database the connection has selected.                                    *)
(*                                                                          *)
(* Database 0 is meant to hold one Redis hash per frame hash, database 1    *)
(* one Redis list of frame hashes per clip id.  A Redis hash is abstracted  *)
(* to the record of its fields that the properties tell apart, a list to    *)
(* the number of times each frame hash occurs in it: no code of the         *)
(* repository reads the order of a list.                                    *)
EXTENDS Integers, Sequences, FiniteSets, Functions

CONSTANTS Clients,    \* connections: one RedisHashStore object each
          Hashes,     \* frame hashes (uint64_t hashc)
          Ids,        \* clip ids (file names)
          SeqNums,    \* frame numbers inside a clip
          None,       \* no entry
          Refusable,  \* commands the server may answer with an error
          MaxFaults   \* bound: refusals plus lost connections

ASSUME RedisAssumption ==
    /\ SeqNums \subseteq Nat
    /\ Hashes \cap Ids = {}
    /\ None \notin Hashes \cup Ids
    /\ Refusable \subseteq STRING
    /\ MaxFaults \in Nat

VARIABLES ent,      \* ent[d][h]: the Redis hash at key h of database d
          lst,      \* lst[d][i]: the Redis list at key i of database d
          sel,      \* sel[c]: the database connection c has selected
          faults    \* refusals and lost connections so far

server == <<ent, lst, sel, faults>>

Keys == Hashes \cup Ids
Entry == [id : Ids, seqnum : SeqNums]
Bag == [Hashes -> Nat]
NoHashes == [h \in Hashes |-> 0]

ServerInit ==
    /\ ent = [d \in {0, 1} |-> [h \in Hashes |-> None]]
    /\ lst = [d \in {0, 1} |-> [i \in Ids |-> NoHashes]]
    /\ sel = [c \in Clients |-> 0]
    /\ faults = 0

-----------------------------------------------------------------------------
(* Commands.  That an HMSET comes of a Put that overwrites is history: the  *)
(* server does not see it.                                                  *)
Select(d)   == [name |-> "SELECT", db |-> d]
Exists(h)   == [name |-> "EXISTS", key |-> h]
Hmset(h, e, over) == [name |-> "HMSET", key |-> h, entry |-> e, over |-> over]
Hgetall(h)  == [name |-> "HGETALL", key |-> h]
Del(k)      == [name |-> "DEL", key |-> k]
Lpush(i, h) == [name |-> "LPUSH", key |-> i, hash |-> h]
Lrem(i, h)  == [name |-> "LREM", key |-> i, hash |-> h]
Lrange(i)   == [name |-> "LRANGE", key |-> i]
Llen(i)     == [name |-> "LLEN", key |-> i]
Dbsize      == [name |-> "DBSIZE"]
AllKeys     == [name |-> "KEYS"]

(* The keys that exist in database d: Redis drops a list when its last     *)
(* element goes.                                                           *)
KeysOf(d) == {h \in Hashes : ent[d][h] # None} \cup {i \in Ids : lst[d][i] # NoHashes}

-----------------------------------------------------------------------------
(* What connection c is answered when the server executes command m.  Every *)
(* reply carries the command it answers: the code cannot see it, the        *)
(* properties can.                                                          *)
EmptyReply == [type |-> "integer", to |-> "none", integer |-> 0, fields |-> None,
               list |-> NoHashes, keys |-> {}]

Answer(c, m) ==
    LET d == sel[c]
        r == [EmptyReply EXCEPT !.to = m.name]
        array == [r EXCEPT !.type = "array"]
    IN CASE m.name \in {"SELECT", "HMSET"} -> [r EXCEPT !.type = "status"]
         [] m.name = "EXISTS"  -> [r EXCEPT !.integer = IF ent[d][m.key] = None THEN 0 ELSE 1]
         [] m.name = "LLEN"    -> [r EXCEPT !.integer = SumFunction(lst[d][m.key])]
         [] m.name = "DBSIZE"  -> [r EXCEPT !.integer = Cardinality(KeysOf(d))]
         [] m.name = "HGETALL" -> [array EXCEPT !.fields = ent[d][m.key]]
         [] m.name = "LRANGE"  -> [array EXCEPT !.list = lst[d][m.key]]
         [] m.name = "KEYS"    -> [array EXCEPT !.keys = KeysOf(d)]
         [] OTHER              -> r   \* counts nothing reads

Refusal(m) == [EmptyReply EXCEPT !.to = m.name, !.type = "error"]

(* The effect of executing m. *)
Execute(c, m) ==
    LET d == sel[c]
    IN /\ sel' = IF m.name = "SELECT" THEN [sel EXCEPT ![c] = m.db] ELSE sel
       /\ ent' = CASE m.name = "HMSET" -> [ent EXCEPT ![d][m.key] = m.entry]
                   [] m.name = "DEL" /\ m.key \in Hashes -> [ent EXCEPT ![d][m.key] = None]
                   [] OTHER -> ent
       /\ lst' = CASE m.name = "LPUSH" -> [lst EXCEPT ![d][m.key][m.hash] = @ + 1]
                   [] m.name = "LREM" /\ m.key \in Ids -> [lst EXCEPT ![d][m.key][m.hash] = 0]
                   [] m.name = "DEL" /\ m.key \in Ids -> [lst EXCEPT ![d][m.key] = NoHashes]
                   [] OTHER -> lst
       /\ UNCHANGED faults

(* Any command may be refused for reasons the client does not control: no   *)
(* memory left, a read-only or loading server, a database number beyond the *)
(* configured ones.  A refused command changes nothing.                     *)
MayRefuse(m) == m.name \in Refusable /\ faults < MaxFaults
Fault == faults' = faults + 1 /\ UNCHANGED <<ent, lst, sel>>
=============================================================================
