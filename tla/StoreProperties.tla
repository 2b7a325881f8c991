-------------------------- MODULE StoreProperties --------------------------
(* What RedisHashStore must guarantee, over the states of the server, the   *)
(* context and the methods in progress.                                     *)
EXTENDS RedisHashStore

Labels == {"idle", "crashed", "put_select", "put_exists", "put_hmset", "put_select1",
           "put_lpush", "get_select", "get_all", "look_select", "look_all",
           "del_select", "del_del", "del_select1", "del_lrem",
           "id_select", "id_lrange", "id_select0", "id_skip", "id_del", "id_select1",
           "id_delkey", "count_select", "count_size", "countid_select", "countid_len",
           "keys_select", "keys_all"}

Command ==
    [name : {"SELECT"}, db : {0, 1}]
    \cup [name : {"EXISTS", "HGETALL"}, key : Hashes]
    \cup [name : {"HMSET"}, key : Hashes, entry : Entry, over : BOOLEAN]
    \cup [name : {"DEL"}, key : Keys]
    \cup [name : {"LPUSH"}, key : Ids, hash : Hashes]
    \cup [name : {"LREM"}, key : Ids \cup {None}, hash : Hashes]
    \cup [name : {"LRANGE", "LLEN"}, key : Ids]
    \cup [name : {"DBSIZE", "KEYS"}]

(* The values every variable may hold. *)
TypeOK ==
    /\ ent \in [{0, 1} -> [Hashes -> Entry \cup {None}]]
    /\ lst \in [{0, 1} -> [Ids -> Bag]]
    /\ sel \in [Clients -> {0, 1}]
    /\ faults \in 0..MaxFaults
    /\ obuf \in [Clients -> Seq(Command)]
    /\ wire \in [Clients -> Seq(Command)]
    /\ err \in [Clients -> BOOLEAN]
    /\ at \in [Clients -> Labels]
    /\ arg \in [Clients -> [hash : Hashes \cup {None}, id : Ids \cup {None},
                            entry : Entry \cup {None, Blank}, overwrite : BOOLEAN]]
    /\ todo \in [Clients -> [Keys -> Nat]]
    /\ newer \in [Clients -> SUBSET Hashes]

-----------------------------------------------------------------------------
(* The commands whose replies a method has still to receive when it waits   *)
(* at a label, the awaited one first.                                       *)
Awaited(label) ==
    CASE label \in {"idle", "crashed"} -> <<>>
      [] label \in {"put_select", "put_select1", "get_select", "look_select", "id_select0",
                    "id_skip"} -> <<"SELECT">>
      [] label = "put_exists" -> <<"EXISTS">>
      [] label = "put_hmset" -> <<"HMSET">>
      [] label = "put_lpush" -> <<"LPUSH">>
      [] label \in {"get_all", "look_all"} -> <<"HGETALL">>
      [] label \in {"del_select", "id_select1"} -> <<"SELECT", "DEL">>
      [] label \in {"del_del", "id_del", "id_delkey"} -> <<"DEL">>
      [] label = "del_select1" -> <<"SELECT", "LREM">>
      [] label = "del_lrem" -> <<"LREM">>
      [] label = "id_select" -> <<"SELECT", "LRANGE", "SELECT">>
      [] label = "id_lrange" -> <<"LRANGE", "SELECT">>
      [] label = "count_select" -> <<"SELECT", "DBSIZE">>
      [] label = "count_size" -> <<"DBSIZE">>
      [] label = "countid_select" -> <<"SELECT", "LLEN">>
      [] label = "countid_len" -> <<"LLEN">>
      [] label = "keys_select" -> <<"SELECT", "KEYS">>
      [] label = "keys_all" -> <<"KEYS">>

(* The commands between the program and its replies: answered, on the wire, *)
(* or still in obuf.                                                        *)
Outstanding(c) ==
    LET answered == rdr[c] \o sock[c]
        unanswered == wire[c] \o obuf[c]
    IN [n \in 1..Len(answered) |-> answered[n].to]
       \o [n \in 1..Len(unanswered) |-> unanswered[n].name]

(* The replies under way are exactly the ones the running method has still  *)
(* to receive, in order: none is left over from an earlier method (a        *)
(* RedisStoreException thrown between two pipelined redisGetReply) and no   *)
(* method returns with a command unsent in obuf.                            *)
Aligned == \A c \in Clients : ~err[c] => Outstanding(c) = Awaited(at[c])

(* The comments of DeleteEntry(id), "receive SELECT 1", "receive LRANGE",   *)
(* "receive SELECT 0" (RedisHashStore.cpp:170-179): the reply a method      *)
(* receives is the one of the command it says it receives.                  *)
ReceivesItsOwnReply ==
    \A c \in Clients : at[c] # "idle" /\ HasReply(c) => Reply(c).to = Head(Awaited(at[c]))

-----------------------------------------------------------------------------
(* Frame hashes live in database 0 and lists in database 1 only, whatever   *)
(* connection was lost and whoever else writes, also by commands that a     *)
(* lost connection leaves.  A Put checks the reply of each SELECT before it *)
(* writes (RedisHashStore.cpp:50-87): programs that put and look up keep    *)
(* this whatever is refused.  The two DeleteEntry do not: DEL and LREM are  *)
(* sent behind a SELECT whose reply is still to come (138-139, 148-149,     *)
(* 196-197), and the replies that two refused SELECTs leave unread can let  *)
(* a later Put write to the wrong database.  With them it holds unless a    *)
(* SELECT or an LRANGE is refused.                                          *)
DatabasesSeparate ==
    /\ \A h \in Hashes : ent[1][h] = None
    /\ \A i \in Ids : lst[0][i] = NoHashes

(* Frames whose entry names a clip that does not list them: DeleteEntry(id) *)
(* cannot find them.                                                        *)
Orphans == {h \in Hashes : ent[0][h] # None /\ lst[1][ent[0][h].id][h] = 0}

PutsInFlight == {c \in Clients : at[c] \in {"put_hmset", "put_select1", "put_lpush"}}

(* The HMSET and the LPUSH of a Put (RedisHashStore.cpp:69, 84) are two     *)
(* commands: the second may be refused, lost, or overtaken by another       *)
(* client.  Every orphan is paid for by a fault or by a Put still under     *)
(* way: interleaved Puts of any number of clients make none of their own.   *)
OrphansAccounted == Cardinality(Orphans) <= faults + Cardinality(PutsInFlight)

(* The frame stored under a hash stays until it is deleted, or until a Put  *)
(* with the overwrite flag replaces it (RedisHashStore.cpp:55-69), also     *)
(* when calls were refused or cut off and their commands arrive late, after *)
(* those of other connections.  EXISTS and HMSET are two commands: what a   *)
(* Put without the flag may replace is a frame stored after it was called,  *)
(* never one that was there before.                                         *)
FirstPutStays ==
    [][\A h \in Hashes :
         \/ ent[0][h] = None
         \/ ent'[0][h] \in {ent[0][h], None}
         \/ \E c \in Clients :
              /\ wire'[c] # wire[c]
              /\ Head(wire[c]).name = "HMSET"
              /\ Head(wire[c]).over \/ h \in newer[c]]_ent

(* "Test Overwrite" (TestRedisHashStore.cpp:199-213): once every key put    *)
(* has been deleted, no entry and no id is left.                            *)
NoEntriesNoIds ==
    (\A c \in Clients : at[c] = "idle") /\ (\A h \in Hashes : ent[0][h] = None)
        => \A i \in Ids : lst[1][i] = NoHashes

(* A method that was called returns or throws, or its program dies of the   *)
(* element it reads past the end of another command's reply                 *)
(* (RedisHashStore.cpp:107-109), whatever replies are left over from        *)
(* methods that threw: redisGetReply never waits for a reply that nothing   *)
(* was sent for (hiredis.c:1183-1211).                                      *)
Over(c) == at[c] \in {"idle", "crashed"}
MethodsReturn == \A c \in Clients : ~Over(c) ~> Over(c)

-----------------------------------------------------------------------------
(* One client, until the first fault: every method takes effect at one      *)
(* instant, as in HashIndex.  A Put takes effect when HMSET is executed:    *)
(* until LPUSH is, the abstract list is one ahead.  DeleteEntry(hash) takes *)
(* effect with its first DEL, DeleteEntry(id) with LRANGE: the lists and    *)
(* entries they are still to delete are gone in the abstract index.         *)
Me == CHOOSE c \in Clients : TRUE
Answers == Len(rdr[Me]) + Len(sock[Me])

PutHalfDone ==
    \/ at[Me] = "put_hmset" /\ Answers = 1
    \/ at[Me] = "put_select1"
    \/ at[Me] = "put_lpush" /\ Answers = 0

HashHalfDeleted ==
    \/ at[Me] = "del_select" /\ Answers = 2
    \/ at[Me] = "del_del" /\ Answers = 1
    \/ at[Me] = "del_select1" /\ Answers < 2
    \/ at[Me] = "del_lrem" /\ Answers = 0

IdHalfDeleted ==
    \/ at[Me] = "id_select" /\ Answers >= 2
    \/ at[Me] = "id_lrange" /\ Answers >= 1
    \/ at[Me] \in {"id_select0", "id_del"}
    \/ at[Me] = "id_select1" /\ Answers < 2
    \/ at[Me] = "id_delkey" /\ Answers = 0

IndexEntries ==
    [h \in Hashes |->
        IF IdHalfDeleted /\ lst[1][arg[Me].id][h] > 0 THEN None ELSE ent[0][h]]

IndexListed ==
    [i \in Ids |-> [h \in Hashes |->
        CASE PutHalfDone /\ i = arg[Me].entry.id /\ h = arg[Me].hash -> lst[1][i][h] + 1
          [] HashHalfDeleted /\ i = arg[Me].entry.id /\ h = arg[Me].hash -> 0
          [] IdHalfDeleted /\ i = arg[Me].id -> 0
          [] OTHER -> lst[1][i][h]]]

Index == INSTANCE HashIndex WITH
    entries <- IndexEntries, listed <- IndexListed, answer <- out[Me]

(* RedisHashStore implements the atomic index of HashStore.hpp as long as   *)
(* no command is refused and no connection lost: the methods of             *)
(* RedisHashStore.cpp:47-274, each several commands, act as one step.       *)
AtomicIndex == Index!Init /\ [][faults' = 0 => [Index!Next]_(Index!vars)]_vars

(* HashIndex's invariant, in the states of the store: every entry is listed *)
(* under its id, whichever commands of PutHashKeyValue and DeleteEntry      *)
(* (RedisHashStore.cpp:69-88, 139-153) have been executed.                  *)
OwnerListed == faults = 0 => Index!OwnerListed
=============================================================================
