-------------------------- MODULE RedisHashStore --------------------------
(* RedisHashStore (RedisHashStore.cpp): the index of frame hashes that      *)
(* clipster fills and clipseekr looks up, over Redis through a blocking     *)
(* hiredis context.  Each method is a sequence of steps: append commands,   *)
(* wait for a reply, look at it, go on.  at[c] names the reply object c     *)
(* waits for; "idle" when no method of c is running.  An object has one     *)
(* connection from its constructor to its destructor (redisFree, which      *)
(* sends nothing): a program that opens a store again has another object,   *)
(* another element of Clients.                                              *)
(*                                                                          *)
(* A connection is used by one thread at a time (clipster and clipseekr     *)
(* each call their store from one thread).  A call on a context that has    *)
(* seen an error throws before it sends anything and changes nothing: such  *)
(* calls are left out.                                                      *)
EXTENDS HiredisContext

CONSTANTS Ops,        \* methods the clients call
          Overwrites, \* values of the overwrite flag they pass
          IntMax,     \* the largest number stoi reads
          MaxCopies   \* bound: a Put starts only below this many copies in a list

ASSUME StoreAssumption ==
    IntMax \in Nat /\ MaxCopies \in Nat /\ Overwrites \subseteq BOOLEAN

VARIABLES at,    \* the reply the running method waits for
          arg,   \* its arguments and what it has looked up
          todo,  \* DeleteEntry(id): elements of the LRANGE reply not yet deleted
          out,   \* what the last method that answers something answered
          newer  \* history: the hashes stored since the method was called

call == <<at, arg, todo, out>>
vars == <<ent, lst, sel, faults, obuf, wire, sock, rdr, err, at, arg, todo, out, newer>>

(* The entry GetHashValue returns for a reply that has elements but none of *)
(* the four fields: ClipTBLEntry's default constructor.                     *)
Blank == [id |-> None, seqnum |-> 0]

NoArg == [hash |-> None, id |-> None, entry |-> None, overwrite |-> FALSE]
NoAnswer == [is |-> "none", entry |-> None, count |-> 0, names |-> {}]
Nothing == [k \in Keys |-> 0]

Init ==
    /\ ServerInit
    /\ ContextInit
    /\ at = [c \in Clients |-> "idle"]
    /\ arg = [c \in Clients |-> NoArg]
    /\ todo = [c \in Clients |-> Nothing]
    /\ out = [c \in Clients |-> NoAnswer]
    /\ newer = [c \in Clients |-> {}]

-----------------------------------------------------------------------------
(* Steps. *)

(* The method appends cmds and waits at label to. *)
Begin(c, op, a, to, cmds) ==
    /\ op \in Ops
    /\ at[c] = "idle"
    /\ ~err[c]
    /\ arg' = [arg EXCEPT ![c] = a]
    /\ at' = [at EXCEPT ![c] = to]
    /\ AppendCommands(c, cmds)
    /\ UNCHANGED <<todo, out, newer, wire, sock, rdr, err>>
    /\ UNCHANGED server

(* check_redis_reply lets the reply through. *)
Received(c, here) ==
    /\ at[c] = here
    /\ HasReply(c)
    /\ Reply(c).type # "error"
    /\ UNCHANGED server

Goto(c, to, cmds) ==
    /\ at' = [at EXCEPT ![c] = to]
    /\ TakeReply(c, cmds)
    /\ UNCHANGED <<out, newer>>

Finish(c) ==
    /\ at' = [at EXCEPT ![c] = "idle"]
    /\ arg' = [arg EXCEPT ![c] = NoArg]
    /\ todo' = [todo EXCEPT ![c] = Nothing]

Forget(c) == newer' = [newer EXCEPT ![c] = {}]

Return(c) == TakeReply(c, <<>>) /\ Finish(c) /\ Forget(c) /\ UNCHANGED out
ReturnValue(c, answer) ==
    /\ TakeReply(c, <<>>)
    /\ Finish(c)
    /\ Forget(c)
    /\ out' = [out EXCEPT ![c] = answer]

(* check_redis_reply throws RedisStoreException: the method ends where it   *)
(* is, whatever replies it has not received.                                *)
Throw(c) ==
    /\ at[c] # "idle"
    /\ HasReply(c)
    /\ Reply(c).type = "error"
    /\ TakeReply(c, <<>>)
    /\ Finish(c)
    /\ Forget(c)
    /\ UNCHANGED <<out, ent, lst, sel, faults>>

-----------------------------------------------------------------------------
(* PutHashKeyValue(hash, entry, overwrite). *)
CallPut(c) ==
    \E h \in Hashes, e \in Entry, ow \in Overwrites :
        /\ lst[1][e.id][h] < MaxCopies
        /\ Begin(c, "Put", [NoArg EXCEPT !.hash = h, !.entry = e, !.overwrite = ow],
                 "put_select", <<Select(0)>>)

StoreFrame(c) == Goto(c, "put_hmset", <<Hmset(arg[c].hash, arg[c].entry, arg[c].overwrite)>>)

(* Mutant: the overwrite flag is ignored. *)
PutSelectedAlways(c) ==
    /\ Received(c, "put_select")
    /\ StoreFrame(c)
    /\ UNCHANGED <<arg, todo>>

PutSelected(c) ==
    /\ Received(c, "put_select")
    /\ IF arg[c].overwrite
       THEN StoreFrame(c)
       ELSE Goto(c, "put_exists", <<Exists(arg[c].hash)>>)
    /\ UNCHANGED <<arg, todo>>

SaysExists(m) == m.type = "integer" /\ m.integer = 1

PutKeeps(c) ==
    /\ Received(c, "put_exists")
    /\ SaysExists(Reply(c))
    /\ Return(c)

PutProceeds(c) ==
    /\ Received(c, "put_exists")
    /\ ~SaysExists(Reply(c))
    /\ StoreFrame(c)
    /\ UNCHANGED <<arg, todo>>

(* Mutants: the hash is not listed; it is listed in database 0. *)
PutStoredUnlisted(c) == Received(c, "put_hmset") /\ Return(c)
PutStoredUnselected(c) ==
    /\ Received(c, "put_hmset")
    /\ Goto(c, "put_lpush", <<Lpush(arg[c].entry.id, arg[c].hash)>>)
    /\ UNCHANGED <<arg, todo>>

PutStored(c) ==
    /\ Received(c, "put_hmset")
    /\ Goto(c, "put_select1", <<Select(1)>>)
    /\ UNCHANGED <<arg, todo>>

(* Mutant: key and element swapped. *)
PutListingSwapped(c) ==
    /\ Received(c, "put_select1")
    /\ Goto(c, "put_lpush", <<Lpush(arg[c].hash, arg[c].entry.id)>>)
    /\ UNCHANGED <<arg, todo>>

PutListing(c) ==
    /\ Received(c, "put_select1")
    /\ Goto(c, "put_lpush", <<Lpush(arg[c].entry.id, arg[c].hash)>>)
    /\ UNCHANGED <<arg, todo>>

PutListed(c) == Received(c, "put_lpush") /\ Return(c)

-----------------------------------------------------------------------------
(* GetHashValue(hash), called by a program or by DeleteEntry(hash). *)
CallGet(c) ==
    \E h \in Hashes :
        Begin(c, "Get", [NoArg EXCEPT !.hash = h], "get_select", <<Select(0)>>)

CallDeleteHash(c) ==
    \E h \in Hashes :
        Begin(c, "DeleteHash", [NoArg EXCEPT !.hash = h], "look_select", <<Select(0)>>)

Selected(c) ==
    \E step \in {<<"get_select", "get_all">>, <<"look_select", "look_all">>} :
        /\ Received(c, step[1])
        /\ Goto(c, step[2], <<Hgetall(arg[c].hash)>>)
        /\ UNCHANGED <<arg, todo>>

(* The strings of an array reply that may be keys, with their numbers.  Of  *)
(* the fields of a Redis hash only ID's value can be one.                   *)
Strings(m) ==
    [k \in Keys |-> (IF k \in Hashes THEN m.list[k] ELSE 0)
                    + (IF k \in m.keys THEN 1 ELSE 0)
                    + (IF m.fields # None /\ k = m.fields.id THEN 1 ELSE 0)]

(* What GetHashValue makes of a reply: the code trusts the order of the     *)
(* replies, an array that answers another command leaves the fields at      *)
(* their defaults.                                                          *)
FoundEntry(m) ==
    IF m.type = "array" /\ Strings(m) # Nothing
    THEN IF m.fields # None THEN m.fields ELSE Blank
    ELSE None

(* stoi throws out_of_range: the method ends there, after its last reply.   *)
(* The sequence number stands for the three numbers of an entry.            *)
Unparsable(m) == m.type = "array" /\ m.fields # None /\ m.fields.seqnum > IntMax
FoundUnparsable(c) ==
    \E here \in {"get_all", "look_all"} :
        /\ Received(c, here)
        /\ Unparsable(Reply(c))
        /\ Return(c)

(* Of an array of odd length, which answers another command, the element    *)
(* after the last is read: the program dies of it, or goes on without.      *)
HasOddLength(m) ==
    /\ m.type = "array" /\ Strings(m) # Nothing
    /\ m.fields = None
    /\ (SumFunction(m.list) + Cardinality(m.keys)) % 2 = 1
ReadPastEnd(c) ==
    /\ \E here \in {"get_all", "look_all"} : Received(c, here)
    /\ HasOddLength(Reply(c))
    /\ Drop(c)
    /\ at' = [at EXCEPT ![c] = "crashed"]
    /\ arg' = [arg EXCEPT ![c] = NoArg]
    /\ UNCHANGED <<todo, out, newer>>

GetDone(c) ==
    /\ Received(c, "get_all")
    /\ ~Unparsable(Reply(c))
    /\ ReturnValue(c, [NoAnswer EXCEPT !.is = "entry", !.entry = FoundEntry(Reply(c))])

-----------------------------------------------------------------------------
(* DeleteEntry(hash), after its GetHashValue. *)
DeleteAbsent(c) ==
    /\ Received(c, "look_all")
    /\ FoundEntry(Reply(c)) = None
    /\ Return(c)

(* Mutant: the hash is only unlisted. *)
DeleteFoundKept(c) ==
    /\ Received(c, "look_all")
    /\ ~Unparsable(Reply(c))
    /\ FoundEntry(Reply(c)) # None
    /\ arg' = [arg EXCEPT ![c].entry = FoundEntry(Reply(c))]
    /\ Goto(c, "del_select1", <<Select(1), Lrem(FoundEntry(Reply(c)).id, arg[c].hash)>>)
    /\ UNCHANGED todo

DeleteFound(c) ==
    /\ Received(c, "look_all")
    /\ ~Unparsable(Reply(c))
    /\ FoundEntry(Reply(c)) # None
    /\ arg' = [arg EXCEPT ![c].entry = FoundEntry(Reply(c))]
    /\ Goto(c, "del_select", <<Select(0), Del(arg[c].hash)>>)
    /\ UNCHANGED todo

DeleteSelected(c) ==
    /\ Received(c, "del_select")
    /\ Goto(c, "del_del", <<>>)
    /\ UNCHANGED <<arg, todo>>

DeleteErased(c) ==
    /\ Received(c, "del_del")
    /\ Goto(c, "del_select1", <<Select(1), Lrem(arg[c].entry.id, arg[c].hash)>>)
    /\ UNCHANGED <<arg, todo>>

(* Mutant: the reply to LREM is not received. *)
DeleteUnlistingEarly(c) == Received(c, "del_select1") /\ Return(c)

DeleteUnlisting(c) ==
    /\ Received(c, "del_select1")
    /\ Goto(c, "del_lrem", <<>>)
    /\ UNCHANGED <<arg, todo>>

DeleteUnlisted(c) == Received(c, "del_lrem") /\ Return(c)

-----------------------------------------------------------------------------
(* DeleteEntry(id).  The list's elements are deleted one DEL at a time, in  *)
(* some order.                                                              *)
CallDeleteId(c) ==
    \E i \in Ids :
        Begin(c, "DeleteId", [NoArg EXCEPT !.id = i], "id_select",
              <<Select(1), Lrange(i), Select(0)>>)

IdSelected(c) ==
    /\ Received(c, "id_select")
    /\ Goto(c, "id_lrange", <<>>)
    /\ UNCHANGED <<arg, todo>>

IdRanged(c) ==
    /\ Received(c, "id_lrange")
    /\ IF Reply(c).type = "array"
       THEN Goto(c, "id_select0", <<>>) /\ todo' = [todo EXCEPT ![c] = Strings(Reply(c))]
       ELSE Goto(c, "id_skip", <<>>) /\ UNCHANGED todo
    /\ UNCHANGED arg

IdSkipped(c) == Received(c, "id_skip") /\ Return(c)

Deleting(c) == \E here \in {"id_select0", "id_del"} : Received(c, here)

IdDeleteNext(c) ==
    /\ Deleting(c)
    /\ \E k \in Keys :
         /\ todo[c][k] > 0
         /\ todo' = [todo EXCEPT ![c][k] = @ - 1]
         /\ Goto(c, "id_del", <<Del(k)>>)
    /\ UNCHANGED arg

(* Mutants: the loop stops early; the list's DEL is not sent. *)
IdEmptiedEarly(c) ==
    /\ Deleting(c)
    /\ Goto(c, "id_select1", <<Select(1), Del(arg[c].id)>>)
    /\ UNCHANGED <<arg, todo>>
IdEmptiedUnsent(c) ==
    /\ Deleting(c)
    /\ todo[c] = Nothing
    /\ Goto(c, "id_select1", <<Select(1)>>)
    /\ UNCHANGED <<arg, todo>>

IdEmptied(c) ==
    /\ Deleting(c)
    /\ todo[c] = Nothing
    /\ Goto(c, "id_select1", <<Select(1), Del(arg[c].id)>>)
    /\ UNCHANGED <<arg, todo>>

IdSelected1(c) ==
    /\ Received(c, "id_select1")
    /\ Goto(c, "id_delkey", <<>>)
    /\ UNCHANGED <<arg, todo>>

IdDeleted(c) == Received(c, "id_delkey") /\ Return(c)

-----------------------------------------------------------------------------
(* GetCount(), GetCount(id), GetEntries(). *)
CallCount(c) == Begin(c, "Count", NoArg, "count_select", <<Select(0), Dbsize>>)

CallCountId(c) ==
    \E i \in Ids :
        Begin(c, "CountId", [NoArg EXCEPT !.id = i], "countid_select", <<Select(1), Llen(i)>>)

CallEntries(c) == Begin(c, "Entries", NoArg, "keys_select", <<Select(1), AllKeys>>)

QuerySelected(c) ==
    \E step \in {<<"count_select", "count_size">>, <<"countid_select", "countid_len">>,
                 <<"keys_select", "keys_all">>} :
        /\ Received(c, step[1])
        /\ Goto(c, step[2], <<>>)
        /\ UNCHANGED <<arg, todo>>

IntegerOr(m, default) == IF m.type = "integer" THEN m.integer ELSE default

CountDone(c) ==
    /\ Received(c, "count_size")
    /\ ReturnValue(c, [NoAnswer EXCEPT !.is = "count", !.count = IntegerOr(Reply(c), 0)])

CountIdDone(c) ==
    /\ Received(c, "countid_len")
    /\ ReturnValue(c, [NoAnswer EXCEPT !.is = "count", !.count = IntegerOr(Reply(c), -1)])

EntriesDone(c) ==
    /\ Received(c, "keys_all")
    /\ ReturnValue(c, [NoAnswer EXCEPT !.is = "names", !.names =
                           IF Reply(c).type = "array"
                           THEN {k \in Keys : Strings(Reply(c))[k] > 0} ELSE {}])

-----------------------------------------------------------------------------
(* The connection is lost while a method waits: it throws. *)
LoseConnection(c) ==
    /\ at[c] # "idle"
    /\ ~err[c]
    /\ Lose(c)
    /\ Finish(c)
    /\ UNCHANGED <<out, newer>>

Call(c) ==
    \/ CallPut(c) \/ CallGet(c) \/ CallDeleteHash(c) \/ CallDeleteId(c)
    \/ CallCount(c) \/ CallCountId(c) \/ CallEntries(c)

Continue(c) ==
    \/ PutSelected(c) \/ PutKeeps(c) \/ PutProceeds(c) \/ PutStored(c)
    \/ PutListing(c) \/ PutListed(c)
    \/ Selected(c) \/ GetDone(c) \/ FoundUnparsable(c)
    \/ DeleteAbsent(c) \/ DeleteFound(c) \/ DeleteSelected(c) \/ DeleteErased(c)
    \/ DeleteUnlisting(c) \/ DeleteUnlisted(c)
    \/ IdSelected(c) \/ IdRanged(c) \/ IdSkipped(c) \/ IdDeleteNext(c)
    \/ IdEmptied(c) \/ IdSelected1(c) \/ IdDeleted(c)
    \/ QuerySelected(c) \/ CountDone(c) \/ CountIdDone(c) \/ EntriesDone(c)
    \/ Throw(c)

(* redisGetReply's turns to the socket happen while a method waits. *)
Transfer(c) ==
    /\ at[c] # "idle"
    /\ BufferWrite(c) \/ BufferRead(c)
    /\ UNCHANGED <<server, call, newer>>

Stored(c) == IF Head(wire[c]).name = "HMSET" THEN {Head(wire[c]).key} ELSE {}

Served(c) ==
    /\ Perform(c)
    /\ newer' = [d \in Clients |->
         IF at[d] # "idle" \/ wire[d] # <<>> THEN newer[d] \cup Stored(c) ELSE newer[d]]
    /\ UNCHANGED call

Refused(c) == Refuse(c) /\ UNCHANGED <<call, newer>>

Next == \E c \in Clients :
    \/ Call(c) \/ Continue(c) \/ Transfer(c)
    \/ Served(c) \/ Refused(c)
    \/ ReadPastEnd(c) \/ LoseConnection(c)

Spec == Init /\ [][Next]_vars

(* The thread in a method runs, and the server answers what it is sent.     *)
(* Nothing makes a program call a method, or a fault happen.                *)
FairSpec ==
    /\ Spec
    /\ \A c \in Clients : WF_vars(Continue(c)) /\ WF_vars(Transfer(c)) /\ WF_vars(Served(c))
=============================================================================
