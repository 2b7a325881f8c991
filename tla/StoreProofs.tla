---------------------------- MODULE StoreProofs ----------------------------
(* Invariants of RedisHashStore for any number of clients, frame hashes and *)
(* clips, and any number of refused commands and lost connections.          *)
EXTENDS StoreProperties, SequenceTheorems, FiniteSetTheorems, TLAPS

(* Replies, with what Redis counts for them; only commands it may refuse    *)
(* are answered with an error.                                              *)
Counts == {0, 1} \cup {SumFunction(b) : b \in Bag} \cup {Cardinality(K) : K \in SUBSET Keys}

CommandNames == {"SELECT", "EXISTS", "HGETALL", "HMSET", "DEL", "LPUSH", "LREM", "LRANGE",
                 "LLEN", "DBSIZE", "KEYS"}

Replies ==
    {r \in [type : {"integer", "array", "status", "error"}, to : CommandNames,
            integer : Counts, fields : Entry \cup {None}, list : Bag, keys : SUBSET Keys] :
       r.type = "error" => r.to \in Refusable}

ServerTyped ==
    /\ ent \in [{0, 1} -> [Hashes -> Entry \cup {None}]]
    /\ lst \in [{0, 1} -> [Ids -> Bag]]
    /\ sel \in [Clients -> {0, 1}]
    /\ faults \in 0 .. MaxFaults

ChannelTyped ==
    /\ obuf \in [Clients -> Seq(Command)]
    /\ wire \in [Clients -> Seq(Command)]
    /\ sock \in [Clients -> Seq(Replies)]
    /\ rdr \in [Clients -> Seq(Replies)]
    /\ err \in [Clients -> BOOLEAN]

Arguments ==
    [hash : Hashes \cup {None}, id : Ids \cup {None},
     entry : Entry \cup {None, Blank}, overwrite : BOOLEAN]

CallTyped ==
    /\ at \in [Clients -> Labels]
    /\ arg \in [Clients -> Arguments]
    /\ todo \in [Clients -> [Keys -> Nat]]
    /\ newer \in [Clients -> SUBSET Hashes]

(* A method has the arguments that the commands it awaits, or has still to  *)
(* append, need.                                                            *)
Putting == {"put_select", "put_exists", "put_hmset", "put_select1", "put_lpush"}
OnHash == Putting \cup {"get_select", "get_all", "look_select", "look_all",
                        "del_select", "del_del", "del_select1", "del_lrem"}
OnEntry == {"del_select", "del_del", "del_select1", "del_lrem"}
OnId == {"id_select", "id_lrange", "id_select0", "id_skip", "id_del", "id_select1", "id_delkey",
         "countid_select", "countid_len"}

FitsLabel(label, a) ==
    /\ label \in Putting => a.entry \in Entry
    /\ label \in OnHash => a.hash \in Hashes
    /\ label \in OnEntry => a.entry \in Entry \cup {Blank}
    /\ label \in OnId => a.id \in Ids

Fits == \A c \in Clients : FitsLabel(at[c], arg[c])

Typed == ServerTyped /\ ChannelTyped /\ CallTyped /\ Fits

-----------------------------------------------------------------------------
LEMMA CommandTypes ==
    /\ \A d \in {0, 1} : Select(d) \in Command
    /\ \A h \in Hashes : /\ Exists(h) \in Command /\ Hgetall(h) \in Command
                         /\ \A e \in Entry, over \in BOOLEAN : Hmset(h, e, over) \in Command
                         /\ \A i \in Ids : Lpush(i, h) \in Command
                         /\ \A i \in Ids \cup {None} : Lrem(i, h) \in Command
    /\ \A k \in Keys : Del(k) \in Command
    /\ \A i \in Ids : Lrange(i) \in Command /\ Llen(i) \in Command
    /\ Dbsize \in Command /\ AllKeys \in Command
<1>1. \A d \in {0, 1} : Select(d) \in Command
  BY DEF Select, Command
<1>2. \A h \in Hashes : Exists(h) \in Command /\ Hgetall(h) \in Command
  BY DEF Exists, Hgetall, Command
<1>3. \A h \in Hashes : \A e \in Entry, over \in BOOLEAN : Hmset(h, e, over) \in Command
  BY DEF Hmset, Command
<1>4. \A h \in Hashes : \A i \in Ids : Lpush(i, h) \in Command
  BY DEF Lpush, Command
<1>5. \A h \in Hashes : \A i \in Ids \cup {None} : Lrem(i, h) \in Command
  BY DEF Lrem, Command
<1>6. \A k \in Keys : Del(k) \in Command
  BY DEF Del, Command
<1>7. \A i \in Ids : Lrange(i) \in Command /\ Llen(i) \in Command
  BY DEF Lrange, Llen, Command
<1>8. Dbsize \in Command /\ AllKeys \in Command
  BY DEF Dbsize, AllKeys, Command
<1>9. QED  BY <1>1, <1>2, <1>3, <1>4, <1>5, <1>6, <1>7, <1>8

(* What the fields of a command may hold. *)
LEMMA CommandFields ==
    ASSUME NEW m \in Command
    PROVE  /\ m.name \in CommandNames
           /\ m.name = "SELECT" => m.db \in {0, 1}
           /\ m.name \in {"EXISTS", "HGETALL", "HMSET"} => m.key \in Hashes
           /\ m.name = "HMSET" => m.entry \in Entry
           /\ m.name = "DEL" => m.key \in Keys
           /\ m.name \in {"LPUSH", "LRANGE", "LLEN"} => m.key \in Ids
           /\ m.name \in {"LPUSH", "LREM"} => m.hash \in Hashes
BY DEF Command, CommandNames

LEMMA NoHashesType == NoHashes \in Bag
BY DEF NoHashes, Bag

(* The server executes a command of the right type. *)
LEMMA ExecuteTyped ==
    ASSUME ServerTyped, NEW c \in Clients, NEW m \in Command, Execute(c, m)
    PROVE  ServerTyped'
<1> DEFINE d == sel[c]
<1>1. d \in {0, 1} /\ faults' = faults
  BY DEF ServerTyped, Execute
<1>2. sel' \in [Clients -> {0, 1}]
  BY CommandFields DEF ServerTyped, Execute
<1>3. ent' \in [{0, 1} -> [Hashes -> Entry \cup {None}]]
  <2>1. CASE m.name = "HMSET"
    <3>1. ent' = [ent EXCEPT ![d][m.key] = m.entry] /\ m.key \in Hashes /\ m.entry \in Entry
      BY <2>1, CommandFields DEF Execute
    <3>2. QED  BY <1>1, <3>1 DEF ServerTyped
  <2>2. CASE m.name = "DEL" /\ m.key \in Hashes
    <3>1. ent' = [ent EXCEPT ![d][m.key] = None]
      BY <2>2 DEF Execute
    <3>2. QED  BY <1>1, <2>2, <3>1 DEF ServerTyped
  <2>3. CASE ~(m.name = "HMSET") /\ ~(m.name = "DEL" /\ m.key \in Hashes)
    BY <2>3 DEF ServerTyped, Execute
  <2>4. QED  BY <2>1, <2>2, <2>3
<1>4. lst' \in [{0, 1} -> [Ids -> Bag]]
  <2>1. \A i \in Ids : \A h \in Hashes : lst[d][i][h] \in Nat
    BY <1>1 DEF ServerTyped, Bag
  <2>2. CASE m.name = "LPUSH"
    <3>1. lst' = [lst EXCEPT ![d][m.key][m.hash] = @ + 1] /\ m.key \in Ids /\ m.hash \in Hashes
      BY <2>2, CommandFields DEF Execute
    <3>2. QED  BY <1>1, <2>1, <3>1 DEF ServerTyped, Bag
  <2>3. CASE m.name = "LREM" /\ m.key \in Ids
    <3>1. lst' = [lst EXCEPT ![d][m.key][m.hash] = 0] /\ m.hash \in Hashes
      BY <2>3, CommandFields DEF Execute
    <3>2. QED  BY <1>1, <2>3, <3>1 DEF ServerTyped, Bag
  <2>4. CASE m.name = "DEL" /\ m.key \in Ids
    <3>1. lst' = [lst EXCEPT ![d][m.key] = NoHashes]
      BY <2>4 DEF Execute
    <3>2. QED  BY <1>1, <2>4, <3>1, NoHashesType DEF ServerTyped
  <2>5. CASE /\ ~(m.name = "LPUSH") /\ ~(m.name = "LREM" /\ m.key \in Ids)
             /\ ~(m.name = "DEL" /\ m.key \in Ids)
    BY <2>5 DEF ServerTyped, Execute
  <2>6. QED  BY <2>2, <2>3, <2>4, <2>5
<1>5. QED  BY <1>1, <1>2, <1>3, <1>4 DEF ServerTyped

Record(type, to, integer, fields, list, keys) ==
    [type |-> type, to |-> to, integer |-> integer, fields |-> fields, list |-> list,
     keys |-> keys]

LEMMA RecordType ==
    ASSUME NEW type \in {"integer", "array", "status", "error"}, NEW to \in CommandNames,
           NEW integer \in Counts, NEW fields \in Entry \cup {None}, NEW list \in Bag,
           NEW keys \in SUBSET Keys, type = "error" => to \in Refusable
    PROVE  Record(type, to, integer, fields, list, keys) \in Replies
BY DEF Record, Replies

LEMMA ReplyTypes ==
    ASSUME ServerTyped, NEW c \in Clients, NEW m \in Command
    PROVE  /\ Answer(c, m) \in Replies
           /\ m.name \in Refusable => Refusal(m) \in Replies
<1> DEFINE d == sel[c]
           R(type, integer, fields, list, keys) ==
             Record(type, m.name, integer, fields, list, keys)
<1>1. m.name \in CommandNames /\ d \in {0, 1}
  BY CommandFields DEF ServerTyped
<1>2. /\ 0 \in Counts /\ 1 \in Counts /\ None \in Entry \cup {None} /\ {} \in SUBSET Keys
      /\ NoHashes \in Bag /\ KeysOf(d) \in SUBSET Keys /\ Cardinality(KeysOf(d)) \in Counts
  BY NoHashesType DEF Counts, KeysOf, Keys
<1>3. Refusal(m) = R("error", 0, None, NoHashes, {})
  <2>1. [EmptyReply EXCEPT !.to = m.name] = R("integer", 0, None, NoHashes, {})
    BY DEF EmptyReply, Record
  <2>2. Refusal(m) = [[EmptyReply EXCEPT !.to = m.name] EXCEPT !.type = "error"]
    BY DEF Refusal
  <2>3. QED  BY <2>1, <2>2, ZenonT(60) DEF Record
<1>4. ASSUME m.name \in Refusable PROVE Refusal(m) \in Replies
  <2>1. R("error", 0, None, NoHashes, {}) \in Replies
    BY <1>1, <1>2, <1>4, RecordType, ZenonT(60)
  <2>2. QED  BY <1>3, <2>1, ZenonT(60)
<1>r. \A type \in {"integer", "array", "status"}, integer \in Counts,
         fields \in Entry \cup {None}, list \in Bag, keys \in SUBSET Keys :
        R(type, integer, fields, list, keys) \in Replies
  BY <1>1, RecordType
<1> HIDE DEF R
<1>5. CASE m.name \in {"SELECT", "HMSET"}
  <2>1. Answer(c, m) = R("status", 0, None, NoHashes, {})
    BY <1>5 DEF Answer, EmptyReply, R, Record
  <2>2. QED  BY <1>2, <1>4, <1>r, <2>1
<1>6. CASE m.name = "EXISTS"
  <2> DEFINE n == IF ent[d][m.key] = None THEN 0 ELSE 1
  <2>1. Answer(c, m) = R("integer", n, None, NoHashes, {})
    BY <1>6 DEF Answer, EmptyReply, R, Record
  <2>2. n \in Counts
    BY <1>2
  <2> HIDE DEF n
  <2>3. QED  BY <1>2, <1>4, <1>r, <2>1, <2>2
<1>7. CASE m.name = "LLEN"
  <2>1. Answer(c, m) = R("integer", SumFunction(lst[d][m.key]), None, NoHashes, {})
    BY <1>7 DEF Answer, EmptyReply, R, Record
  <2>2. lst[d][m.key] \in Bag
    BY <1>1, <1>7, CommandFields DEF ServerTyped
  <2>3. SumFunction(lst[d][m.key]) \in Counts
    BY <2>2 DEF Counts
  <2>4. QED  BY <1>2, <1>4, <1>r, <2>1, <2>3
<1>8. CASE m.name = "DBSIZE"
  <2>1. Answer(c, m) = R("integer", Cardinality(KeysOf(d)), None, NoHashes, {})
    BY <1>8 DEF Answer, EmptyReply, R, Record
  <2>2. QED  BY <1>2, <1>4, <1>r, <2>1
<1>9. CASE m.name = "HGETALL"
  <2>1. Answer(c, m) = R("array", 0, ent[d][m.key], NoHashes, {})
    BY <1>9 DEF Answer, EmptyReply, R, Record
  <2>2. ent[d][m.key] \in Entry \cup {None}
    BY <1>1, <1>9, CommandFields DEF ServerTyped
  <2>3. QED  BY <1>2, <1>4, <1>r, <2>1, <2>2
<1>10. CASE m.name = "LRANGE"
  <2>1. Answer(c, m) = R("array", 0, None, lst[d][m.key], {})
    BY <1>10 DEF Answer, EmptyReply, R, Record
  <2>2. lst[d][m.key] \in Bag
    BY <1>1, <1>10, CommandFields DEF ServerTyped
  <2>3. QED  BY <1>2, <1>4, <1>r, <2>1, <2>2
<1>11. CASE m.name = "KEYS"
  <2>1. Answer(c, m) = R("array", 0, None, NoHashes, KeysOf(d))
    BY <1>11 DEF Answer, EmptyReply, R, Record
  <2>2. QED  BY <1>2, <1>4, <1>r, <2>1
<1>12. CASE m.name \in {"DEL", "LPUSH", "LREM"}
  <2>1. Answer(c, m) = R("integer", 0, None, NoHashes, {})
    BY <1>12 DEF Answer, EmptyReply, R, Record
  <2>2. QED  BY <1>2, <1>4, <1>r, <2>1
<1>13. QED
  BY <1>1, <1>4, <1>5, <1>6, <1>7, <1>8, <1>9, <1>10, <1>11, <1>12 DEF CommandNames

LEMMA ReplyFields ==
    ASSUME NEW c \in Clients, NEW m \in Command
    PROVE  /\ Answer(c, m).to = m.name /\ Answer(c, m).type # "error"
           /\ Refusal(m).to = m.name /\ Refusal(m).type = "error"
<1>1. Refusal(m).to = m.name /\ Refusal(m).type = "error"
  BY DEF Refusal, EmptyReply
<1>2. Answer(c, m).to = m.name
  BY DEF Answer, EmptyReply
<1>3. Answer(c, m).type # "error"
  BY DEF Answer, EmptyReply
<1>4. QED  BY <1>1, <1>2, <1>3

-----------------------------------------------------------------------------
LEMMA TakeTyped ==
    ASSUME ChannelTyped, NEW c \in Clients, HasReply(c), NEW cmds \in Seq(Command),
           TakeReply(c, cmds)
    PROVE  ChannelTyped'
<1>1. Tail(rdr[c]) \in Seq(Replies) /\ obuf[c] \o cmds \in Seq(Command)
  BY DEF ChannelTyped, HasReply
<1>2. QED  BY <1>1 DEF ChannelTyped, TakeReply, AppendCommands

LEMMA ReplyTyped ==
    ASSUME ChannelTyped, NEW c \in Clients, HasReply(c)
    PROVE  Reply(c) \in Replies
BY DEF ChannelTyped, HasReply, Reply

(* A method waits at one more label. *)
LEMMA Moves ==
    ASSUME Typed, NEW c \in Clients, NEW here, Received(c, here), NEW to \in Labels,
           NEW cmds \in Seq(Command), Goto(c, to, cmds),
           arg' \in [Clients -> Arguments], \A b \in Clients \ {c} : arg'[b] = arg[b],
           FitsLabel(to, arg'[c]), todo' \in [Clients -> [Keys -> Nat]]
    PROVE  Typed'
<1>1. ServerTyped'
  BY DEF Typed, ServerTyped, Received, server
<1>2. ChannelTyped'
  BY TakeTyped DEF Typed, Received, Goto
<1>3. CallTyped'
  BY DEF Typed, CallTyped, Goto
<1>4. Fits'
  <2>1. ASSUME NEW b \in Clients PROVE FitsLabel(at'[b], arg'[b])
    BY DEF Typed, CallTyped, Fits, Goto
  <2>2. QED  BY <2>1 DEF Fits, FitsLabel
<1>5. QED  BY <1>1, <1>2, <1>3, <1>4 DEF Typed

LEMMA Stays ==
    ASSUME Typed, NEW c \in Clients, NEW here, Received(c, here), NEW to \in Labels,
           NEW cmds \in Seq(Command), Goto(c, to, cmds), UNCHANGED <<arg, todo>>,
           FitsLabel(to, arg[c])
    PROVE  Typed'
<1>1. arg' \in [Clients -> Arguments] /\ todo' \in [Clients -> [Keys -> Nat]]
  BY DEF Typed, CallTyped
<1>2. QED  BY <1>1, Moves

(* A method ends. *)
LEMMA FinishTyped ==
    ASSUME CallTyped, Fits, NEW c \in Clients, Finish(c), Forget(c) \/ UNCHANGED newer
    PROVE  CallTyped' /\ Fits'
<1>1. NoArg \in Arguments /\ Nothing \in [Keys -> Nat] /\ "idle" \in Labels
  BY DEF NoArg, Arguments, Nothing, Labels
<1>2. CallTyped'
  BY <1>1 DEF CallTyped, Finish, Forget
<1>3. ASSUME NEW b \in Clients PROVE FitsLabel(at'[b], arg'[b])
  <2>1. CASE b = c
    BY <2>1 DEF FitsLabel, CallTyped, Finish, Putting, OnHash, OnEntry, OnId
  <2>2. CASE b # c
    BY <2>2 DEF CallTyped, Fits, Finish
  <2>3. QED  BY <2>1, <2>2
<1>4. QED  BY <1>2, <1>3 DEF Fits, FitsLabel

LEMMA Ends ==
    ASSUME Typed, NEW c \in Clients, HasReply(c), UNCHANGED server, TakeReply(c, <<>>),
           Finish(c), Forget(c)
    PROVE  Typed'
<1>1. ServerTyped'
  BY DEF Typed, ServerTyped, server
<1>2. <<>> \in Seq(Command)
  OBVIOUS
<1>3. ChannelTyped'
  BY <1>2, TakeTyped DEF Typed
<1>4. QED  BY <1>1, <1>3, FinishTyped DEF Typed

LEMMA Begins ==
    ASSUME Typed, NEW c \in Clients, NEW op, NEW a \in Arguments, NEW to \in Labels,
           NEW cmds \in Seq(Command), FitsLabel(to, a), Begin(c, op, a, to, cmds)
    PROVE  Typed'
<1>1. ServerTyped'
  BY DEF Typed, ServerTyped, server, Begin
<1>2. ChannelTyped'
  <2>1. obuf[c] \o cmds \in Seq(Command)
    BY DEF Typed, ChannelTyped
  <2>2. QED  BY <2>1 DEF Typed, ChannelTyped, Begin, AppendCommands
<1>3. CallTyped'
  BY DEF Typed, CallTyped, Begin
<1>4. Fits'
  <2>1. ASSUME NEW b \in Clients PROVE FitsLabel(at'[b], arg'[b])
    BY DEF Typed, CallTyped, Fits, Begin
  <2>2. QED  BY <2>1 DEF Fits, FitsLabel
<1>5. QED  BY <1>1, <1>2, <1>3, <1>4 DEF Typed

-----------------------------------------------------------------------------
LEMMA InitTyped == Init => Typed
<1> SUFFICES ASSUME Init PROVE Typed
  OBVIOUS
<1>1. NoArg \in Arguments /\ Nothing \in [Keys -> Nat] /\ "idle" \in Labels
  BY DEF NoArg, Arguments, Nothing, Labels
<1>2. ServerTyped
  BY NoHashesType, RedisAssumption DEF RedisAssumption, Init, ServerInit, ServerTyped
<1>3. ChannelTyped
  BY DEF Init, ContextInit, ChannelTyped
<1>4. CallTyped
  BY <1>1 DEF Init, CallTyped
<1>5. Fits
  BY DEF Init, Fits, FitsLabel, Putting, OnHash, OnEntry, OnId
<1>6. QED  BY <1>2, <1>3, <1>4, <1>5 DEF Typed

LEMMA LabelTypes ==
    /\ Putting \subseteq Labels /\ OnHash \subseteq Labels /\ OnEntry \subseteq Labels
    /\ OnId \subseteq Labels
    /\ {"idle", "crashed", "get_all", "id_skip", "id_select1", "id_delkey", "count_select",
        "count_size", "countid_select", "countid_len", "keys_select", "keys_all"} \subseteq Labels
BY DEF Labels, Putting, OnHash, OnEntry, OnId

LEMMA FitsAtOnce ==
    ASSUME Typed, NEW c \in Clients
    PROVE  /\ arg[c] \in Arguments /\ arg[c].overwrite \in BOOLEAN
           /\ FitsLabel(at[c], arg[c])
BY DEF Typed, CallTyped, Fits, Arguments

LEMMA CallTypedStep ==
    ASSUME Typed, NEW c \in Clients, Call(c)
    PROVE  Typed'
<1>0. NoArg = [hash |-> None, id |-> None, entry |-> None, overwrite |-> FALSE]
  BY DEF NoArg
<1> USE DEF FitsLabel, Putting, OnHash, OnEntry, OnId
<1>1. CASE CallPut(c)
  <2>1. PICK h \in Hashes, e \in Entry, ow \in Overwrites :
          Begin(c, "Put", [NoArg EXCEPT !.hash = h, !.entry = e, !.overwrite = ow],
                "put_select", <<Select(0)>>)
    BY <1>1 DEF CallPut
  <2> DEFINE a == [NoArg EXCEPT !.hash = h, !.entry = e, !.overwrite = ow]
  <2>2. a \in Arguments /\ a.entry = e /\ a.hash = h
    BY <1>0, StoreAssumption DEF StoreAssumption, Arguments
  <2>3. <<Select(0)>> \in Seq(Command)
    BY CommandTypes
  <2> HIDE DEF a
  <2>4. QED  BY <2>1, <2>2, <2>3, LabelTypes, Begins DEF a
<1>2. CASE CallGet(c) \/ CallDeleteHash(c)
  <2>1. PICK h \in Hashes, op \in {"Get", "DeleteHash"},
             to \in {"get_select", "look_select"} :
          Begin(c, op, [NoArg EXCEPT !.hash = h], to, <<Select(0)>>)
    BY <1>2 DEF CallGet, CallDeleteHash
  <2> DEFINE a == [NoArg EXCEPT !.hash = h]
  <2>2. a \in Arguments /\ a.hash = h
    BY <1>0 DEF Arguments
  <2>3. <<Select(0)>> \in Seq(Command)
    BY CommandTypes
  <2> HIDE DEF a
  <2>4. QED  BY <2>1, <2>2, <2>3, LabelTypes, Begins DEF a
<1>3. CASE CallDeleteId(c)
  <2>1. PICK i \in Ids :
             Begin(c, "DeleteId", [NoArg EXCEPT !.id = i], "id_select",
                   <<Select(1), Lrange(i), Select(0)>>)
    BY <1>3 DEF CallDeleteId
  <2> DEFINE a == [NoArg EXCEPT !.id = i]
  <2>2. a \in Arguments /\ a.id = i
    BY <1>0 DEF Arguments
  <2>3. <<Select(1), Lrange(i), Select(0)>> \in Seq(Command)
    BY CommandTypes
  <2> HIDE DEF a
  <2>4. QED  BY <2>1, <2>2, <2>3, LabelTypes, Begins DEF a
<1>4. CASE CallCountId(c)
  <2>1. PICK i \in Ids :
             Begin(c, "CountId", [NoArg EXCEPT !.id = i], "countid_select", <<Select(1), Llen(i)>>)
    BY <1>4 DEF CallCountId
  <2> DEFINE a == [NoArg EXCEPT !.id = i]
  <2>2. a \in Arguments /\ a.id = i
    BY <1>0 DEF Arguments
  <2>3. <<Select(1), Llen(i)>> \in Seq(Command)
    BY CommandTypes
  <2> HIDE DEF a
  <2>4. QED  BY <2>1, <2>2, <2>3, LabelTypes, Begins DEF a
<1>5. CASE CallCount(c) \/ CallEntries(c)
  <2>1. PICK op \in {"Count", "Entries"}, to \in {"count_select", "keys_select"},
             cmds \in {<<Select(0), Dbsize>>, <<Select(1), AllKeys>>} :
          Begin(c, op, NoArg, to, cmds)
    BY <1>5 DEF CallCount, CallEntries
  <2>2. NoArg \in Arguments
    BY <1>0 DEF Arguments
  <2>3. <<Select(0), Dbsize>> \in Seq(Command) /\ <<Select(1), AllKeys>> \in Seq(Command)
    BY CommandTypes
  <2>4. cmds \in Seq(Command)
    BY <2>3
  <2>5. QED  BY <2>1, <2>2, <2>4, LabelTypes, Begins
<1>6. QED  BY <1>1, <1>2, <1>3, <1>4, <1>5 DEF Call

LEMMA ReturnTyped ==
    ASSUME Typed, NEW c \in Clients, NEW here, Received(c, here), Return(c)
    PROVE  Typed'
BY Ends DEF Return, Received

LEMMA ReturnValueTyped ==
    ASSUME Typed, NEW c \in Clients, NEW here, Received(c, here), NEW answer,
           ReturnValue(c, answer)
    PROVE  Typed'
BY Ends DEF ReturnValue, Received

LEMMA PutTyped ==
    ASSUME Typed, NEW c \in Clients,
           PutSelected(c) \/ PutKeeps(c) \/ PutProceeds(c) \/ PutStored(c)
             \/ PutListing(c) \/ PutListed(c)
    PROVE  Typed'
<1> DEFINE h == arg[c].hash
           e == arg[c].entry
           hmset == <<Hmset(h, e, arg[c].overwrite)>>
<1>1. at[c] \in Putting => h \in Hashes /\ e \in Entry /\ e.id \in Ids
  BY FitsAtOnce DEF FitsLabel, OnHash, Entry
<1>2. at[c] \in Putting => /\ hmset \in Seq(Command) /\ <<Exists(h)>> \in Seq(Command)
                           /\ <<Lpush(e.id, h)>> \in Seq(Command)
  BY <1>1, FitsAtOnce, CommandTypes
<1>3. \A to \in Putting : at[c] \in Putting => FitsLabel(to, arg[c])
  BY <1>1 DEF FitsLabel, OnHash, OnEntry, OnId, Putting
<1>4. CASE PutKeeps(c) \/ PutListed(c)
  BY <1>4, ReturnTyped DEF PutKeeps, PutListed
<1>5. CASE PutSelected(c)
  <2>1. at[c] \in Putting
    BY <1>5 DEF PutSelected, Received, Putting
  <2>2. PICK to \in {"put_hmset", "put_exists"}, cmds \in {hmset, <<Exists(h)>>} : Goto(c, to, cmds)
    BY <1>5 DEF PutSelected, StoreFrame
  <2>3. to \in Putting /\ to \in Labels
    BY LabelTypes DEF Putting
  <2>4. QED  BY <1>2, <1>3, <1>5, <2>1, <2>2, <2>3, Stays DEF PutSelected
<1>6. CASE PutProceeds(c)
  <2>1. at[c] \in Putting /\ "put_hmset" \in Putting /\ "put_hmset" \in Labels
    BY <1>6, LabelTypes DEF PutProceeds, Received, Putting
  <2>2. QED  BY <1>2, <1>3, <1>6, <2>1, Stays DEF PutProceeds, StoreFrame
<1>7. CASE PutStored(c)
  <2>1. at[c] \in Putting /\ "put_select1" \in Putting /\ "put_select1" \in Labels
    BY <1>7, LabelTypes DEF PutStored, Received, Putting
  <2>2. <<Select(1)>> \in Seq(Command)
    BY CommandTypes
  <2>3. QED  BY <1>3, <1>7, <2>1, <2>2, Stays DEF PutStored
<1>8. CASE PutListing(c)
  <2>1. at[c] \in Putting /\ "put_lpush" \in Putting /\ "put_lpush" \in Labels
    BY <1>8, LabelTypes DEF PutListing, Received, Putting
  <2>2. QED  BY <1>2, <1>3, <1>8, <2>1, Stays DEF PutListing
<1>9. QED  BY <1>4, <1>5, <1>6, <1>7, <1>8

LEMMA StringsType ==
    ASSUME NEW m \in Replies
    PROVE  Strings(m) \in [Keys -> Nat]
<1>1. \A k \in Hashes : m.list[k] \in Nat
  BY DEF Replies, Bag
<1>2. ASSUME NEW k \in Keys
      PROVE  (IF k \in Hashes THEN m.list[k] ELSE 0) + (IF k \in m.keys THEN 1 ELSE 0)
               + (IF m.fields # None /\ k = m.fields.id THEN 1 ELSE 0) \in Nat
  BY <1>1
<1>3. QED  BY <1>2 DEF Strings

LEMMA FoundType ==
    ASSUME NEW m \in Replies
    PROVE  FoundEntry(m) \in Entry \cup {None, Blank}
BY DEF FoundEntry, Replies

LEMMA GetTyped ==
    ASSUME Typed, NEW c \in Clients,
           Selected(c) \/ GetDone(c) \/ FoundUnparsable(c) \/ QuerySelected(c)
             \/ CountDone(c) \/ CountIdDone(c) \/ EntriesDone(c)
    PROVE  Typed'
<1>1. CASE Selected(c)
  <2>1. PICK step \in {<<"get_select", "get_all">>, <<"look_select", "look_all">>} :
          /\ Received(c, step[1])
          /\ Goto(c, step[2], <<Hgetall(arg[c].hash)>>)
          /\ UNCHANGED <<arg, todo>>
    BY <1>1 DEF Selected
  <2>2. step[1] \in {"get_select", "look_select"} /\ step[2] \in {"get_all", "look_all"}
    OBVIOUS
  <2>3. arg[c].hash \in Hashes
    BY <2>1, <2>2, FitsAtOnce DEF FitsLabel, OnHash, Received
  <2>4. <<Hgetall(arg[c].hash)>> \in Seq(Command)
    BY <2>3, CommandTypes
  <2>5. step[2] \in Labels /\ FitsLabel(step[2], arg[c])
    BY <2>2, <2>3, LabelTypes DEF FitsLabel, Putting, OnHash, OnEntry, OnId
  <2>6. QED  BY <2>1, <2>4, <2>5, Stays
<1>2. CASE QuerySelected(c)
  <2>1. PICK step \in {<<"count_select", "count_size">>, <<"countid_select", "countid_len">>,
                       <<"keys_select", "keys_all">>} :
          /\ Received(c, step[1])
          /\ Goto(c, step[2], <<>>)
          /\ UNCHANGED <<arg, todo>>
    BY <1>2 DEF QuerySelected
  <2>2. step[2] \in {"count_size", "countid_len", "keys_all"}
    OBVIOUS
  <2>3. step[2] \in Labels /\ FitsLabel(step[2], arg[c])
    <3>1. at[c] = step[1] /\ FitsLabel(at[c], arg[c])
      BY <2>1, FitsAtOnce DEF Received
    <3>2. step[2] = "countid_len" => step[1] = "countid_select"
      OBVIOUS
    <3>3. QED
      BY <2>2, <3>1, <3>2, LabelTypes DEF FitsLabel, Putting, OnHash, OnEntry, OnId
  <2>4. <<>> \in Seq(Command)
    OBVIOUS
  <2>5. QED  BY <2>1, <2>3, <2>4, Stays
<1>3. CASE GetDone(c) \/ CountDone(c) \/ CountIdDone(c) \/ EntriesDone(c)
  BY <1>3, ReturnValueTyped DEF GetDone, CountDone, CountIdDone, EntriesDone
<1>4. CASE FoundUnparsable(c)
  BY <1>4, ReturnTyped DEF FoundUnparsable
<1>5. QED  BY <1>1, <1>2, <1>3, <1>4

LEMMA DeleteHashTyped ==
    ASSUME Typed, NEW c \in Clients,
           DeleteAbsent(c) \/ DeleteFound(c) \/ DeleteSelected(c) \/ DeleteErased(c)
             \/ DeleteUnlisting(c) \/ DeleteUnlisted(c)
    PROVE  Typed'
<1>1. CASE DeleteAbsent(c) \/ DeleteUnlisted(c)
  BY <1>1, ReturnTyped DEF DeleteAbsent, DeleteUnlisted
<1>2. CASE DeleteFound(c)
  <2>1. Received(c, "look_all") /\ Reply(c) \in Replies
    BY <1>2, ReplyTyped DEF DeleteFound, Received, Typed
  <2>2. FoundEntry(Reply(c)) \in Entry \cup {Blank}
    BY <1>2, <2>1, FoundType DEF DeleteFound
  <2>3. arg[c].hash \in Hashes /\ arg[c] \in Arguments
    BY <2>1, FitsAtOnce DEF FitsLabel, OnHash, Received
  <2>4. <<Select(0), Del(arg[c].hash)>> \in Seq(Command)
    BY <2>3, CommandTypes DEF Keys
  <2>5. /\ arg'[c].entry = FoundEntry(Reply(c)) /\ arg'[c].hash = arg[c].hash
        /\ arg'[c] \in Arguments
    BY <1>2, <2>2, <2>3 DEF DeleteFound, Arguments, Typed, CallTyped
  <2>6. arg' \in [Clients -> Arguments] /\ \A b \in Clients \ {c} : arg'[b] = arg[b]
    BY <1>2, <2>5 DEF DeleteFound, Typed, CallTyped
  <2>7. "del_select" \in Labels /\ FitsLabel("del_select", arg'[c])
    BY <2>2, <2>3, <2>5, LabelTypes DEF FitsLabel, Putting, OnHash, OnEntry, OnId
  <2>8. todo' \in [Clients -> [Keys -> Nat]]
    BY <1>2 DEF DeleteFound, Typed, CallTyped
  <2>9. QED  BY <1>2, <2>1, <2>4, <2>6, <2>7, <2>8, Moves DEF DeleteFound
<1>3. CASE DeleteSelected(c) \/ DeleteUnlisting(c)
  <2>1. PICK here \in {"del_select", "del_select1"}, to \in {"del_del", "del_lrem"} :
          /\ Received(c, here) /\ Goto(c, to, <<>>) /\ UNCHANGED <<arg, todo>>
          /\ to = "del_del" => here = "del_select"
    BY <1>3 DEF DeleteSelected, DeleteUnlisting
  <2>2. to \in Labels /\ FitsLabel(to, arg[c])
    BY <2>1, LabelTypes, FitsAtOnce
       DEF FitsLabel, Putting, OnHash, OnEntry, OnId, Received
  <2>3. <<>> \in Seq(Command)
    OBVIOUS
  <2>4. QED  BY <2>1, <2>2, <2>3, Stays
<1>4. CASE DeleteErased(c)
  <2>1. arg[c].hash \in Hashes /\ arg[c].entry \in Entry \cup {Blank}
    BY <1>4, FitsAtOnce DEF DeleteErased, Received, FitsLabel, OnHash, OnEntry
  <2>2. arg[c].entry.id \in Ids \cup {None}
    BY <2>1 DEF Entry, Blank
  <2>3. <<Select(1), Lrem(arg[c].entry.id, arg[c].hash)>> \in Seq(Command)
    BY <2>1, <2>2, CommandTypes
  <2>4. "del_select1" \in Labels /\ FitsLabel("del_select1", arg[c])
    BY <2>1, LabelTypes DEF FitsLabel, Putting, OnHash, OnEntry, OnId
  <2>5. QED  BY <1>4, <2>3, <2>4, Stays DEF DeleteErased
<1>5. QED  BY <1>1, <1>2, <1>3, <1>4

LEMMA DeleteIdTyped ==
    ASSUME Typed, NEW c \in Clients,
           IdSelected(c) \/ IdRanged(c) \/ IdSkipped(c) \/ IdDeleteNext(c) \/ IdEmptied(c)
             \/ IdSelected1(c) \/ IdDeleted(c)
    PROVE  Typed'
<1>1. <<>> \in Seq(Command) /\ arg[c] \in Arguments /\ todo \in [Clients -> [Keys -> Nat]]
  BY FitsAtOnce DEF Typed, CallTyped
<1>2. at[c] \in OnId => arg[c].id \in Ids
  BY FitsAtOnce DEF FitsLabel
<1>3. CASE IdSkipped(c) \/ IdDeleted(c)
  BY <1>3, ReturnTyped DEF IdSkipped, IdDeleted
<1>4. CASE IdSelected(c)
  <2>1. "id_lrange" \in Labels /\ FitsLabel("id_lrange", arg[c])
    BY <1>2, <1>4, LabelTypes
       DEF IdSelected, Received, FitsLabel, Putting, OnHash, OnEntry, OnId
  <2>2. QED  BY <1>1, <1>4, <2>1, Stays DEF IdSelected
<1>5. CASE IdRanged(c)
  <2>1. Received(c, "id_lrange") /\ UNCHANGED arg /\ Reply(c) \in Replies
    BY <1>5, ReplyTyped DEF IdRanged, Received, Typed
  <2>2. arg[c].id \in Ids
    BY <1>2, <2>1 DEF Received, OnId
  <2>3. \A to \in {"id_select0", "id_skip"} : to \in Labels /\ FitsLabel(to, arg[c])
    BY <2>2, LabelTypes DEF FitsLabel, Putting, OnHash, OnEntry, OnId
  <2>4. CASE Reply(c).type = "array"
    <3>1. Goto(c, "id_select0", <<>>) /\ todo' = [todo EXCEPT ![c] = Strings(Reply(c))]
      BY <1>5, <2>4 DEF IdRanged
    <3>2. todo' \in [Clients -> [Keys -> Nat]]
      BY <1>1, <2>1, <3>1, StringsType
    <3>3. arg' \in [Clients -> Arguments] /\ arg' = arg
      BY <2>1 DEF Typed, CallTyped
    <3>4. QED  BY <1>1, <2>1, <2>3, <3>1, <3>2, <3>3, Moves
  <2>5. CASE Reply(c).type # "array"
    <3>1. Goto(c, "id_skip", <<>>) /\ UNCHANGED <<arg, todo>>
      BY <1>5, <2>1, <2>5 DEF IdRanged
    <3>2. QED  BY <1>1, <2>1, <2>3, <3>1, Stays
  <2>6. QED  BY <2>4, <2>5
<1>6. CASE IdDeleteNext(c)
  <2>1. PICK here \in {"id_select0", "id_del"} : Received(c, here)
    BY <1>6 DEF IdDeleteNext, Deleting
  <2>2. PICK k \in Keys : /\ todo[c][k] > 0
                          /\ todo' = [todo EXCEPT ![c][k] = @ - 1]
                          /\ Goto(c, "id_del", <<Del(k)>>)
    BY <1>6 DEF IdDeleteNext
  <2>3. todo' \in [Clients -> [Keys -> Nat]]
    <3>1. todo[c] \in [Keys -> Nat] /\ todo[c][k] \in Nat /\ todo[c][k] - 1 \in Nat
      BY <1>1, <2>2
    <3>2. QED  BY <1>1, <2>2, <3>1
  <2>4. <<Del(k)>> \in Seq(Command)
    BY CommandTypes
  <2>5. "id_del" \in Labels /\ FitsLabel("id_del", arg[c])
    BY <1>2, <2>1, LabelTypes DEF Received, FitsLabel, Putting, OnHash, OnEntry, OnId
  <2>6. arg' \in [Clients -> Arguments] /\ arg' = arg
    BY <1>6 DEF IdDeleteNext, Typed, CallTyped
  <2>7. QED  BY <2>1, <2>2, <2>3, <2>4, <2>5, <2>6, Moves
<1>7. CASE IdEmptied(c)
  <2>1. PICK here \in {"id_select0", "id_del"} : Received(c, here)
    BY <1>7 DEF IdEmptied, Deleting
  <2>2. <<Select(1), Del(arg[c].id)>> \in Seq(Command)
    BY <1>2, <2>1, CommandTypes DEF Received, OnId, Keys
  <2>3. "id_select1" \in Labels /\ FitsLabel("id_select1", arg[c])
    BY <1>2, <2>1, LabelTypes DEF Received, FitsLabel, Putting, OnHash, OnEntry, OnId
  <2>4. QED  BY <1>7, <2>1, <2>2, <2>3, Stays DEF IdEmptied
<1>8. CASE IdSelected1(c)
  <2>1. "id_delkey" \in Labels /\ FitsLabel("id_delkey", arg[c])
    BY <1>2, <1>8, LabelTypes
       DEF IdSelected1, Received, FitsLabel, Putting, OnHash, OnEntry, OnId
  <2>2. QED  BY <1>1, <1>8, <2>1, Stays DEF IdSelected1
<1>9. QED  BY <1>3, <1>4, <1>5, <1>6, <1>7, <1>8

LEMMA ContinueTyped ==
    ASSUME Typed, NEW c \in Clients, Continue(c)
    PROVE  Typed'
<1>1. CASE Throw(c)
  BY <1>1, Ends DEF Throw, server
<1>2. QED
  BY <1>1, PutTyped, GetTyped, DeleteHashTyped, DeleteIdTyped DEF Continue

-----------------------------------------------------------------------------
(* The buffers and the server. *)
LEMMA CallKept ==
    ASSUME CallTyped, Fits, UNCHANGED <<at, arg, todo>>,
           newer' \in [Clients -> SUBSET Hashes]
    PROVE  CallTyped' /\ Fits'
BY DEF CallTyped, Fits, FitsLabel

LEMMA TransferTyped ==
    ASSUME Typed, NEW c \in Clients, Transfer(c)
    PROVE  Typed'
<1>1. ServerTyped' /\ CallTyped' /\ Fits'
  BY CallKept DEF Typed, ServerTyped, CallTyped, Transfer, server, call
<1>2. CASE BufferWrite(c)
  <2>1. wire[c] \o obuf[c] \in Seq(Command)
    BY DEF Typed, ChannelTyped
  <2>2. ChannelTyped'
    BY <1>2, <2>1 DEF BufferWrite, Typed, ChannelTyped
  <2>3. QED  BY <1>1, <2>2 DEF Typed
<1>3. CASE BufferRead(c)
  <2>1. PICK n \in 1 .. Len(sock[c]) :
          /\ rdr' = [rdr EXCEPT ![c] = SubSeq(sock[c], 1, n)]
          /\ sock' = [sock EXCEPT ![c] = SubSeq(@, n + 1, Len(@))]
    BY <1>3 DEF BufferRead
  <2>2. /\ SubSeq(sock[c], 1, n) \in Seq(Replies)
        /\ SubSeq(sock[c], n + 1, Len(sock[c])) \in Seq(Replies)
    BY DEF Typed, ChannelTyped
  <2>3. ChannelTyped'
    BY <1>3, <2>1, <2>2 DEF BufferRead, Typed, ChannelTyped
  <2>4. QED  BY <1>1, <2>3 DEF Typed
<1>4. QED  BY <1>2, <1>3 DEF Transfer

LEMMA ServeTyped ==
    ASSUME ChannelTyped, NEW c \in Clients, wire[c] # <<>>, NEW r \in Replies, Serve(c, r)
    PROVE  ChannelTyped'
<1>1. Tail(wire[c]) \in Seq(Command) /\ Append(sock[c], r) \in Seq(Replies)
  BY DEF ChannelTyped
<1>2. QED  BY <1>1 DEF ChannelTyped, Serve

LEMMA ServedTyped ==
    ASSUME Typed, NEW c \in Clients, Served(c) \/ Refused(c)
    PROVE  Typed'
<1> DEFINE m == Head(wire[c])
<1>2. wire[c] # <<>>
  BY DEF Served, Refused, Perform, Refuse
<1>0. Stored(c) \subseteq Hashes
  <2>1. Head(wire[c]) \in Command
    BY <1>2 DEF Typed, ChannelTyped
  <2>2. QED  BY <2>1, CommandFields DEF Stored
<1>1. CallTyped' /\ Fits'
  <2>1. newer \in [Clients -> SUBSET Hashes]
    BY DEF Typed, CallTyped
  <2>2. newer' \in [Clients -> SUBSET Hashes]
    BY <1>0, <2>1 DEF Served, Refused
  <2>3. QED  BY <2>2, CallKept DEF Typed, Served, Refused, call
<1>3. /\ m \in Command /\ Answer(c, m) \in Replies
      /\ m.name \in Refusable => Refusal(m) \in Replies
  BY <1>2, ReplyTypes DEF Typed, ChannelTyped
<1>4. ChannelTyped'
  BY <1>2, <1>3, ServeTyped DEF Typed, Served, Refused, Perform, Refuse, MayRefuse
<1>5. ServerTyped'
  <2>1. CASE Served(c)
    <3> HIDE DEF m
    <3>1. Execute(c, m)
      BY <2>1 DEF Served, Perform, m
    <3>2. QED  BY <1>3, <3>1, ExecuteTyped DEF Typed
  <2>2. CASE Refused(c)
    BY <2>2, RedisAssumption
       DEF RedisAssumption, Refused, Refuse, MayRefuse, Fault, Typed, ServerTyped
  <2>3. QED  BY <2>1, <2>2
<1>6. QED  BY <1>1, <1>4, <1>5 DEF Typed

LEMMA DropTyped ==
    ASSUME ChannelTyped, NEW c \in Clients, Drop(c)
    PROVE  ChannelTyped'
<1>1. PICK n \in 0 .. Len(wire[c]) : wire' = [wire EXCEPT ![c] = SubSeq(@, 1, n)]
  BY DEF Drop
<1>2. SubSeq(wire[c], 1, n) \in Seq(Command)
  BY DEF ChannelTyped
<1>3. QED  BY <1>1, <1>2 DEF Drop, ChannelTyped

LEMMA LoseTyped ==
    ASSUME Typed, NEW c \in Clients, LoseConnection(c) \/ ReadPastEnd(c)
    PROVE  Typed'
<1>1. ChannelTyped'
  BY DropTyped DEF Typed, LoseConnection, Lose, ReadPastEnd
<1>2. CASE LoseConnection(c)
  <2>1. CallTyped' /\ Fits'
    BY <1>2, FinishTyped DEF Typed, LoseConnection
  <2>2. ServerTyped'
    BY <1>2, RedisAssumption
       DEF RedisAssumption, LoseConnection, Lose, Fault, Typed, ServerTyped
  <2>3. QED  BY <1>1, <2>1, <2>2 DEF Typed
<1>3. CASE ReadPastEnd(c)
  <2>1. NoArg \in Arguments /\ "crashed" \in Labels
    BY LabelTypes DEF NoArg, Arguments
  <2>2. CallTyped'
    BY <1>3, <2>1 DEF Typed, CallTyped, ReadPastEnd
  <2>3. ASSUME NEW b \in Clients PROVE FitsLabel(at'[b], arg'[b])
    <3>1. CASE b = c
      BY <1>3, <3>1 DEF FitsLabel, Typed, CallTyped, ReadPastEnd, Putting, OnHash, OnEntry, OnId
    <3>2. CASE b # c
      BY <1>3, <3>2 DEF Typed, CallTyped, Fits, ReadPastEnd
    <3>3. QED  BY <3>1, <3>2
  <2>4. Fits'
    BY <2>3 DEF Fits, FitsLabel
  <2>5. ServerTyped'
    BY <1>3 DEF ReadPastEnd, Received, server, Typed, ServerTyped
  <2>6. QED  BY <1>1, <2>2, <2>4, <2>5 DEF Typed
<1>4. QED  BY <1>2, <1>3

LEMMA NextTyped == Typed /\ [Next]_vars => Typed'
<1> SUFFICES ASSUME Typed, [Next]_vars PROVE Typed'
  OBVIOUS
<1>1. CASE Next
  BY <1>1, CallTypedStep, ContinueTyped, TransferTyped, ServedTyped, LoseTyped DEF Next
<1>2. CASE UNCHANGED vars
  BY <1>2, CallKept DEF vars, Typed, ServerTyped, ChannelTyped, CallTyped
<1>3. QED  BY <1>1, <1>2

(* Every variable keeps its type: also when replies are taken for those of  *)
(* other commands (RedisHashStore.cpp:47-274), an array of odd length for   *)
(* the entry of a hash among them (102-125), a method never appends a       *)
(* command without the arguments it needs.                                  *)
THEOREM StoreTypeOK == Spec => []TypeOK
<1>1. Typed => TypeOK
  BY DEF Typed, ServerTyped, ChannelTyped, CallTyped, Arguments, TypeOK
<1>2. QED  BY <1>1, InitTyped, NextTyped, PTL DEF Spec

-----------------------------------------------------------------------------
(* What the commands and replies of a connection are to, in order: answered *)
(* (r and s), on the wire (w), appended (o).                                *)
Map(F, s) == [n \in 1 .. Len(s) |-> F[s[n]]]
To == [r \in Replies |-> r.to]
Name == [m \in Command |-> m.name]
Names(r, s, w, o) == Map(To, r \o s) \o Map(Name, w \o o)

LEMMA MapType ==
    ASSUME NEW S, NEW F, \A x \in S : F[x] \in CommandNames,
           NEW s \in Seq(S)
    PROVE  /\ Map(F, s) \in Seq(CommandNames) /\ Len(Map(F, s)) = Len(s)
           /\ \A n \in 1 .. Len(s) : Map(F, s)[n] = F[s[n]]
BY DEF Map

LEMMA MapTail ==
    ASSUME NEW S, NEW F, \A x \in S : F[x] \in CommandNames,
           NEW s \in Seq(S), s # <<>>
    PROVE  /\ Map(F, s) # <<>> /\ Map(F, Tail(s)) = Tail(Map(F, s))
           /\ Head(Map(F, s)) = F[Head(s)]
<1> DEFINE t == Tail(s)
           ms == Map(F, s)
           mt == Map(F, t)
<1>1. /\ t \in Seq(S) /\ Len(t) = Len(s) - 1 /\ Len(s) - 1 \in Nat
      /\ \A n \in 1 .. Len(s) - 1 : t[n] = s[n + 1] /\ n + 1 \in 1 .. Len(s)
      /\ Head(s) = s[1] /\ 1 \in 1 .. Len(s)
  BY HeadTailProperties
<1> HIDE DEF t
<1>2. ms \in Seq(CommandNames) /\ Len(ms) = Len(s) /\ \A n \in 1 .. Len(s) : ms[n] = F[s[n]]
  BY MapType
<1>3. mt \in Seq(CommandNames) /\ Len(mt) = Len(t) /\ \A n \in 1 .. Len(t) : mt[n] = F[t[n]]
  BY <1>1, MapType
<1> HIDE DEF ms, mt
<1>4. ms # <<>>
  BY <1>1, <1>2
<1>5. /\ Tail(ms) \in Seq(CommandNames) /\ Len(Tail(ms)) = Len(s) - 1
      /\ \A n \in 1 .. Len(s) - 1 : Tail(ms)[n] = ms[n + 1]
      /\ Head(ms) = ms[1]
  BY <1>2, <1>4, HeadTailProperties
<1>6. \A n \in 1 .. Len(s) - 1 : mt[n] = Tail(ms)[n]
  BY <1>1, <1>2, <1>3, <1>5
<1>7. mt = Tail(ms)
  BY <1>1, <1>3, <1>5, <1>6, SeqEqual
<1>8. QED  BY <1>1, <1>2, <1>4, <1>5, <1>7 DEF ms, mt, t

LEMMA MapConcat ==
    ASSUME NEW S, NEW F, \A x \in S : F[x] \in CommandNames,
           NEW s \in Seq(S), NEW t \in Seq(S)
    PROVE  Map(F, s \o t) = Map(F, s) \o Map(F, t)
<1> DEFINE u == s \o t
           a == Map(F, s)
           b == Map(F, t)
           ab == a \o b
<1>0. /\ u \in Seq(S) /\ Len(u) = Len(s) + Len(t)
      /\ \A n \in 1 .. Len(s) + Len(t) : u[n] = IF n <= Len(s) THEN s[n] ELSE t[n - Len(s)]
  BY ConcatProperties
<1> HIDE DEF u
<1>1. /\ u \in Seq(S) /\ Len(u) = Len(s) + Len(t) /\ Len(s) \in Nat /\ Len(t) \in Nat
      /\ \A n \in 1 .. Len(s) + Len(t) : u[n] = IF n <= Len(s) THEN s[n] ELSE t[n - Len(s)]
  BY <1>0, LenProperties
<1>2. a \in Seq(CommandNames) /\ Len(a) = Len(s) /\ \A n \in 1 .. Len(s) : a[n] = F[s[n]]
  BY MapType
<1>3. b \in Seq(CommandNames) /\ Len(b) = Len(t) /\ \A n \in 1 .. Len(t) : b[n] = F[t[n]]
  BY MapType
<1>u. u \in Seq(S)
  BY <1>1
<1>v. ASSUME NEW v \in Seq(S)
      PROVE  /\ Map(F, v) \in Seq(CommandNames) /\ Len(Map(F, v)) = Len(v)
             /\ \A n \in 1 .. Len(v) : Map(F, v)[n] = F[v[n]]
  BY DEF Map
<1>m. /\ Map(F, u) \in Seq(CommandNames) /\ Len(Map(F, u)) = Len(u)
      /\ \A n \in 1 .. Len(u) : Map(F, u)[n] = F[u[n]]
  BY <1>u, <1>v
<1> DEFINE c == Map(F, u)
<1>4. c \in Seq(CommandNames) /\ Len(c) = Len(u) /\ \A n \in 1 .. Len(u) : c[n] = F[u[n]]
  BY <1>m
<1> HIDE DEF a, b, c
<1>5. /\ ab \in Seq(CommandNames) /\ Len(ab) = Len(a) + Len(b)
      /\ \A n \in 1 .. Len(a) + Len(b) : ab[n] = IF n <= Len(a) THEN a[n] ELSE b[n - Len(a)]
  BY <1>2, <1>3, ConcatProperties, ZenonT(60)
<1> HIDE DEF ab
<1>6. ASSUME NEW n \in 1 .. Len(c) PROVE c[n] = ab[n]
  <2>1. n \in 1 .. Len(s) + Len(t) /\ n \in 1 .. Len(a) + Len(b) /\ n \in 1 .. Len(u)
    BY <1>1, <1>2, <1>3, <1>4
  <2>2. CASE n <= Len(s)
    <3>1. n \in 1 .. Len(s) /\ u[n] = s[n] /\ ab[n] = a[n]
      BY <1>1, <1>2, <1>5, <2>1, <2>2
    <3>2. QED  BY <1>2, <1>4, <2>1, <3>1
  <2>3. CASE ~(n <= Len(s))
    <3>1. n - Len(s) \in 1 .. Len(t) /\ u[n] = t[n - Len(s)] /\ ab[n] = b[n - Len(s)]
      BY <1>1, <1>2, <1>5, <2>1, <2>3
    <3>2. QED  BY <1>3, <1>4, <2>1, <3>1
  <2>4. QED  BY <2>2, <2>3
<1>7. Len(c) = Len(ab)
  BY <1>1, <1>2, <1>3, <1>4, <1>5
<1>8. c = ab
  BY <1>4, <1>5, <1>6, <1>7, SeqEqual
<1>9. QED  BY <1>8 DEF ab, a, b, c, u

LEMMA ToName ==
    /\ \A r \in Replies : To[r] = r.to /\ To[r] \in CommandNames
    /\ \A m \in Command : Name[m] = m.name /\ Name[m] \in CommandNames
<1>1. \A r \in Replies : r.to \in CommandNames
  BY DEF Replies
<1>2. \A m \in Command : m.name \in CommandNames
  BY CommandFields
<1>3. QED  BY <1>1, <1>2 DEF To, Name

LEMMA OutstandingNames ==
    ASSUME ChannelTyped, NEW c \in Clients
    PROVE  Outstanding(c) = Names(rdr[c], sock[c], wire[c], obuf[c])
<1> DEFINE r == rdr[c] \o sock[c]
           u == wire[c] \o obuf[c]
<1>1. r \in Seq(Replies) /\ u \in Seq(Command)
  BY DEF ChannelTyped
<1> HIDE DEF r, u
<1>2. [n \in 1 .. Len(r) |-> r[n].to] = Map(To, r)
  BY <1>1 DEF Map, To
<1>3. [n \in 1 .. Len(u) |-> u[n].name] = Map(Name, u)
  BY <1>1 DEF Map, Name
<1>4. QED  BY <1>2, <1>3 DEF Outstanding, Names, r, u

LEMMA TailConcat ==
    ASSUME NEW S, NEW s \in Seq(S), NEW t \in Seq(S), s # <<>>
    PROVE  Tail(s \o t) = Tail(s) \o t /\ Head(s \o t) = Head(s) /\ s \o t # <<>>
<1> DEFINE u == s \o t
           v == Tail(s) \o t
<1>1. /\ u \in Seq(S) /\ Len(u) = Len(s) + Len(t)
      /\ \A n \in 1 .. Len(s) + Len(t) : u[n] = IF n <= Len(s) THEN s[n] ELSE t[n - Len(s)]
  BY ConcatProperties
<1>2. /\ Tail(s) \in Seq(S) /\ Len(Tail(s)) = Len(s) - 1 /\ Head(s) = s[1]
      /\ \A n \in 1 .. Len(s) - 1 : Tail(s)[n] = s[n + 1]
  BY HeadTailProperties
<1>3. /\ v \in Seq(S) /\ Len(v) = Len(Tail(s)) + Len(t)
      /\ \A n \in 1 .. Len(Tail(s)) + Len(t) :
           v[n] = IF n <= Len(Tail(s)) THEN Tail(s)[n] ELSE t[n - Len(Tail(s))]
  BY <1>2, ConcatProperties
<1>4. Len(s) \in Nat \ {0} /\ Len(t) \in Nat
  BY LenProperties, EmptySeq
<1> HIDE DEF u, v
<1>5. u # <<>> /\ Head(u) = s[1]
  BY <1>1, <1>4
<1>6. Tail(u) \in Seq(S) /\ Len(Tail(u)) = Len(u) - 1
      /\ \A n \in 1 .. Len(u) - 1 : Tail(u)[n] = u[n + 1]
  BY <1>1, <1>5, HeadTailProperties
<1>7. ASSUME NEW n \in 1 .. Len(v) PROVE Tail(u)[n] = v[n]
  <2>1. /\ n \in Int /\ n \in 1 .. Len(u) - 1 /\ n + 1 \in 1 .. Len(s) + Len(t)
        /\ n \in 1 .. Len(Tail(s)) + Len(t)
    BY <1>1, <1>2, <1>3, <1>4
  <2>2. Tail(u)[n] = IF n + 1 <= Len(s) THEN s[n + 1] ELSE t[n + 1 - Len(s)]
    BY <1>1, <1>6, <2>1
  <2>3. v[n] = IF n <= Len(s) - 1 THEN Tail(s)[n] ELSE t[n - (Len(s) - 1)]
    BY <1>2, <1>3, <2>1
  <2>4. n - (Len(s) - 1) = n + 1 - Len(s) /\ (n <= Len(s) - 1 <=> n + 1 <= Len(s))
    BY <1>4, <2>1
  <2>5. n <= Len(s) - 1 => Tail(s)[n] = s[n + 1]
    BY <1>2, <1>4, <2>1
  <2>6. QED  BY <2>2, <2>3, <2>4, <2>5
<1>8. Len(v) = Len(Tail(u))
  BY <1>1, <1>2, <1>3, <1>4, <1>6
<1>9. Tail(u) = v
  BY <1>3, <1>6, <1>7, <1>8, SeqEqual
<1>10. QED  BY <1>2, <1>5, <1>9 DEF u, v

LEMMA Associative ==
    \A a, b, c \in Seq(CommandNames) : (a \o b) \o c = a \o (b \o c)
<1>1. ASSUME NEW S, NEW a \in Seq(S), NEW b \in Seq(S), NEW c \in Seq(S)
      PROVE  (a \o b) \o c = a \o (b \o c)
  BY ConcatAssociative
<1>2. QED  BY <1>1

LEMMA NameMaps ==
    ASSUME NEW s \in Seq(Command), NEW t \in Seq(Command)
    PROVE  /\ Map(Name, s) \in Seq(CommandNames) /\ Len(Map(Name, s)) = Len(s)
           /\ Map(Name, s \o t) = Map(Name, s) \o Map(Name, t)
           /\ s # <<>> => /\ Map(Name, s) # <<>> /\ Map(Name, Tail(s)) = Tail(Map(Name, s))
                          /\ Head(Map(Name, s)) = Head(s).name
<1>1. \A x \in Command : Name[x] \in CommandNames
  BY ToName
<1>2. Map(Name, s) \in Seq(CommandNames) /\ Len(Map(Name, s)) = Len(s)
  BY <1>1, MapType
<1>3. Map(Name, s \o t) = Map(Name, s) \o Map(Name, t)
  BY <1>1, MapConcat
<1>4. ASSUME s # <<>>
      PROVE  /\ Map(Name, s) # <<>> /\ Map(Name, Tail(s)) = Tail(Map(Name, s))
             /\ Head(Map(Name, s)) = Name[Head(s)]
  BY <1>1, <1>4, MapTail
<1>5. s # <<>> => Head(s) \in Command
  BY HeadTailProperties
<1>6. QED  BY <1>2, <1>3, <1>4, <1>5, ToName

LEMMA ToMaps ==
    ASSUME NEW s \in Seq(Replies), NEW t \in Seq(Replies)
    PROVE  /\ Map(To, s) \in Seq(CommandNames) /\ Len(Map(To, s)) = Len(s)
           /\ Map(To, s \o t) = Map(To, s) \o Map(To, t)
           /\ s # <<>> => /\ Map(To, s) # <<>> /\ Map(To, Tail(s)) = Tail(Map(To, s))
                          /\ Head(Map(To, s)) = Head(s).to
<1>1. \A x \in Replies : To[x] \in CommandNames
  BY ToName
<1>2. Map(To, s) \in Seq(CommandNames) /\ Len(Map(To, s)) = Len(s)
  BY <1>1, MapType
<1>3. Map(To, s \o t) = Map(To, s) \o Map(To, t)
  BY <1>1, MapConcat
<1>4. ASSUME s # <<>>
      PROVE  /\ Map(To, s) # <<>> /\ Map(To, Tail(s)) = Tail(Map(To, s))
             /\ Head(Map(To, s)) = To[Head(s)]
  BY <1>1, <1>4, MapTail
<1>5. s # <<>> => Head(s) \in Replies
  BY HeadTailProperties
<1>6. QED  BY <1>2, <1>3, <1>4, <1>5, ToName

LEMMA NamesType ==
    ASSUME NEW r \in Seq(Replies), NEW s \in Seq(Replies),
           NEW w \in Seq(Command), NEW o \in Seq(Command)
    PROVE  /\ r \o s \in Seq(Replies) /\ w \o o \in Seq(Command)
           /\ Map(To, r \o s) \in Seq(CommandNames) /\ Map(Name, w \o o) \in Seq(CommandNames)
           /\ Names(r, s, w, o) \in Seq(CommandNames)
<1>1. r \o s \in Seq(Replies) /\ w \o o \in Seq(Command)
  OBVIOUS
<1>2. Map(To, r \o s) \in Seq(CommandNames)
  BY <1>1, ToMaps
<1>3. Map(Name, w \o o) \in Seq(CommandNames)
  BY <1>1, NameMaps
<1>4. Map(To, r \o s) \o Map(Name, w \o o) \in Seq(CommandNames)
  BY <1>2, <1>3, ConcatProperties, Zenon
<1>5. QED  BY <1>1, <1>2, <1>3, <1>4 DEF Names

LEMMA NamesAppend ==
    ASSUME NEW r \in Seq(Replies), NEW s \in Seq(Replies),
           NEW w \in Seq(Command), NEW o \in Seq(Command), NEW cmds \in Seq(Command)
    PROVE  Names(r, s, w, o \o cmds) = Names(r, s, w, o) \o Map(Name, cmds)
<1>1. w \o (o \o cmds) = (w \o o) \o cmds
  BY ConcatAssociative, SMTT(30)
<1>2. Map(Name, (w \o o) \o cmds) = Map(Name, w \o o) \o Map(Name, cmds)
  BY NamesType, NameMaps, Zenon
<1> DEFINE x == Map(To, r \o s)
           y == Map(Name, w \o o)
           z == Map(Name, cmds)
<1>3. x \in Seq(CommandNames) /\ y \in Seq(CommandNames) /\ z \in Seq(CommandNames)
  BY NamesType, NameMaps, Zenon
<1> HIDE DEF x, y, z
<1>4. (x \o y) \o z = x \o (y \o z)
  BY <1>3, Associative, Zenon
<1>5. QED  BY <1>1, <1>2, <1>4, Zenon DEF Names, x, y, z

LEMMA NamesGrow ==
    ASSUME NEW cmds \in Seq(Command)
    PROVE  \A r \in Seq(Replies), s \in Seq(Replies), w \in Seq(Command), o \in Seq(Command) :
             Names(r, s, w, o \o cmds) = Names(r, s, w, o) \o Map(Name, cmds)
BY NamesAppend, ZenonT(60)

LEMMA NamesWrite ==
    ASSUME NEW r \in Seq(Replies), NEW s \in Seq(Replies),
           NEW w \in Seq(Command), NEW o \in Seq(Command)
    PROVE  Names(r, s, w \o o, <<>>) = Names(r, s, w, o)
<1>1. (w \o o) \o <<>> = w \o o
  BY ConcatEmptySeq
<1>2. QED  BY <1>1 DEF Names

LEMMA SplitSeq ==
    ASSUME NEW s \in Seq(Replies), NEW n \in 1 .. Len(s)
    PROVE  SubSeq(s, 1, n) \o SubSeq(s, n + 1, Len(s)) = s
<1>1. SubSeq(s, 1, n) \o SubSeq(s, n + 1, Len(s)) = SubSeq(s, 1, Len(s))
  <2>1. 1 \in 1 .. Len(s) + 1 /\ n \in 1 - 1 .. Len(s) /\ Len(s) \in n .. Len(s)
    OBVIOUS
  <2>2. QED  BY <2>1, ConcatAdjacentSubSeq
<1>2. SubSeq(s, 1, Len(s)) = s
  BY SubSeqFull
<1>3. QED  BY <1>1, <1>2

LEMMA NamesRead ==
    ASSUME NEW s \in Seq(Replies), NEW w \in Seq(Command), NEW o \in Seq(Command),
           NEW n \in 1 .. Len(s)
    PROVE  Names(SubSeq(s, 1, n), SubSeq(s, n + 1, Len(s)), w, o) = Names(<<>>, s, w, o)
<1>1. SubSeq(s, 1, n) \o SubSeq(s, n + 1, Len(s)) = s
  BY SplitSeq
<1>2. <<>> \o s = s
  BY ConcatEmptySeq
<1>3. QED  BY <1>1, <1>2 DEF Names

LEMMA NamesTake ==
    ASSUME NEW r \in Seq(Replies), NEW s \in Seq(Replies),
           NEW w \in Seq(Command), NEW o \in Seq(Command), r # <<>>
    PROVE  /\ Names(Tail(r), s, w, o) = Tail(Names(r, s, w, o))
           /\ Head(Names(r, s, w, o)) = Head(r).to
<1> DEFINE u == r \o s
           x == Map(To, u)
           y == Map(Name, w \o o)
<1>1. Tail(r) \o s = Tail(u) /\ Head(u) = Head(r) /\ u # <<>>
  BY TailConcat
<1>2. u \in Seq(Replies) /\ x \in Seq(CommandNames) /\ y \in Seq(CommandNames)
  BY NamesType, Zenon
<1> HIDE DEF u
<1>3. x # <<>> /\ Map(To, Tail(u)) = Tail(x) /\ Head(x) = Head(u).to
  BY <1>1, <1>2, ToMaps, Zenon
<1> HIDE DEF x, y
<1>4. Tail(x \o y) = Tail(x) \o y /\ Head(x \o y) = Head(x)
  BY <1>2, <1>3, TailConcat, Zenon
<1>5. QED  BY <1>1, <1>3, <1>4, Zenon DEF Names, x, y, u

LEMMA NamesSome ==
    ASSUME NEW r \in Seq(Replies), NEW s \in Seq(Replies),
           NEW w \in Seq(Command), NEW o \in Seq(Command), r # <<>>
    PROVE  Names(r, s, w, o) # <<>>
<1> DEFINE u == r \o s
           x == Map(To, u)
           y == Map(Name, w \o o)
<1>1. u # <<>>
  BY TailConcat
<1>2. u \in Seq(Replies) /\ x \in Seq(CommandNames) /\ y \in Seq(CommandNames)
  BY NamesType, Zenon
<1> HIDE DEF u
<1>3. x # <<>>
  BY <1>1, <1>2, ToMaps, Zenon
<1> HIDE DEF x, y
<1>4. x \o y # <<>>
  BY <1>2, <1>3, TailConcat, Zenon
<1>5. QED  BY <1>4, Zenon DEF Names, x, y, u

LEMMA HeadFirst ==
    ASSUME NEW S, NEW x \in Seq(S), NEW y \in Seq(S), y # <<>>
    PROVE  (x \o <<Head(y)>>) \o Tail(y) = x \o y
<1>1. Head(y) \in S /\ Tail(y) \in Seq(S) /\ <<Head(y)>> \in Seq(S)
  BY HeadTailProperties
<1>2. y = <<Head(y)>> \o Tail(y)
  OBVIOUS
<1> DEFINE h == <<Head(y)>>
           t == Tail(y)
<1>3. h \in Seq(S) /\ t \in Seq(S) /\ y = h \o t
  BY <1>1, <1>2, Zenon
<1> HIDE DEF h, t
<1>4. (x \o h) \o t = x \o (h \o t)
  BY <1>3, ConcatAssociative
<1>5. (x \o h) \o t = x \o y
  BY <1>3, <1>4, Zenon
<1>6. QED  BY <1>5, Zenon DEF h, t

LEMMA NamesServe ==
    ASSUME NEW r \in Seq(Replies), NEW s \in Seq(Replies),
           NEW w \in Seq(Command), NEW o \in Seq(Command), w # <<>>,
           NEW q \in Replies, q.to = Head(w).name
    PROVE  Names(r, Append(s, q), Tail(w), o) = Names(r, s, w, o)
<1> DEFINE u == w \o o
           p == r \o s
           l == <<q>>
           x == Map(To, p)
           y == Map(Name, u)
<1>1. l \in Seq(Replies) /\ Append(s, q) = s \o l
  BY AppendIsConcat
<1>2. Tail(w) \o o = Tail(u) /\ Head(u) = Head(w) /\ u # <<>>
  BY TailConcat
<1>3. /\ p \in Seq(Replies) /\ u \in Seq(Command)
      /\ x \in Seq(CommandNames) /\ y \in Seq(CommandNames)
  BY NamesType, Zenon
<1>4. Map(To, l) = <<To[q]>>
  BY DEF Map
<1>5. To[q] = q.to
  BY ToName
<1> HIDE DEF l
<1>a. (r \o s) \o l = r \o (s \o l)
  BY <1>1, ConcatAssociative
<1>6. r \o Append(s, q) = p \o l
  BY <1>1, <1>a, Zenon
<1> HIDE DEF u, p
<1>7. Map(To, p \o l) = x \o Map(To, l)
  BY <1>1, <1>3, ToMaps, Zenon
<1>8. y # <<>> /\ Map(Name, Tail(u)) = Tail(y) /\ Head(y) = Head(u).name
  BY <1>2, <1>3, NameMaps, Zenon
<1> HIDE DEF x, y
<1>9. (x \o <<Head(y)>>) \o Tail(y) = x \o y
  BY <1>3, <1>8, HeadFirst, Zenon
<1>10. Map(To, l) = <<Head(y)>>
  BY <1>2, <1>4, <1>5, <1>8
<1>11. Names(r, Append(s, q), Tail(w), o) = (x \o Map(To, l)) \o Map(Name, Tail(u))
  BY <1>2, <1>6, <1>7, Zenon DEF Names, x
<1>12. Names(r, s, w, o) = x \o y
  BY Zenon DEF Names, x, y, p, u
<1>13. QED  BY <1>8, <1>9, <1>10, <1>11, <1>12, Zenon

-----------------------------------------------------------------------------
(* Replies stay in order. *)
LEMMA Listing ==
    ASSUME NEW r \in Seq(Replies), NEW s \in Seq(Replies),
           NEW w \in Seq(Command), NEW o \in Seq(Command)
    PROVE  [n \in 1 .. Len(r \o s) |-> (r \o s)[n].to]
             \o [n \in 1 .. Len(w \o o) |-> (w \o o)[n].name] = Names(r, s, w, o)
<1> DEFINE p == r \o s
           u == w \o o
<1>1. p \in Seq(Replies) /\ u \in Seq(Command)
  OBVIOUS
<1> HIDE DEF p, u
<1>2. [n \in 1 .. Len(p) |-> p[n].to] = Map(To, p)
  BY <1>1 DEF Map, To
<1>3. [n \in 1 .. Len(u) |-> u[n].name] = Map(Name, u)
  BY <1>1 DEF Map, Name
<1>4. QED  BY <1>2, <1>3, Zenon DEF Names, p, u

LEMMA SingleName ==
    ASSUME NEW m \in Command
    PROVE  <<m>> \in Seq(Command) /\ Map(Name, <<m>>) = <<m.name>>
<1>1. Map(Name, <<m>>) = <<Name[m]>>
  BY DEF Map
<1>2. QED  BY <1>1, ToName

LEMMA TwoNames ==
    ASSUME NEW m \in Command, NEW n \in Command
    PROVE  <<m, n>> \in Seq(Command) /\ Map(Name, <<m, n>>) = <<m.name, n.name>>
<1>1. Map(Name, <<m, n>>) = <<Name[m], Name[n]>>
  BY DEF Map
<1>2. QED  BY <1>1, ToName

LEMMA ThreeNames ==
    ASSUME NEW m \in Command, NEW n \in Command, NEW p \in Command
    PROVE  <<m, n, p>> \in Seq(Command) /\ Map(Name, <<m, n, p>>) = <<m.name, n.name, p.name>>
<1>1. Map(Name, <<m, n, p>>) = <<Name[m], Name[n], Name[p]>>
  BY DEF Map
<1>2. QED  BY <1>1, ToName

LEMMA NoName == <<>> \in Seq(Command) /\ Map(Name, <<>>) = <<>>
BY DEF Map

(* The methods that await one reply at a time. *)
Narrow == {"idle", "crashed", "put_select", "put_exists", "put_hmset", "put_select1", "put_lpush",
           "get_select", "get_all"}

(* No command that another one follows in the same pipeline is refused, or  *)
(* no method that pipelines commands is called.                             *)
PipelinesHold == ({"SELECT", "LRANGE"} \cap Refusable = {}) \/ (Ops \subseteq {"Put", "Get"})

LEMMA AwaitedValues ==
    /\ Awaited("idle") = <<>> /\ Awaited("crashed") = <<>>
    /\ Awaited("put_select") = <<"SELECT">> /\ Awaited("put_exists") = <<"EXISTS">>
    /\ Awaited("put_hmset") = <<"HMSET">> /\ Awaited("put_select1") = <<"SELECT">>
    /\ Awaited("put_lpush") = <<"LPUSH">>
    /\ Awaited("get_select") = <<"SELECT">> /\ Awaited("get_all") = <<"HGETALL">>
    /\ Awaited("look_select") = <<"SELECT">> /\ Awaited("look_all") = <<"HGETALL">>
    /\ Awaited("del_select") = <<"SELECT", "DEL">> /\ Awaited("del_del") = <<"DEL">>
    /\ Awaited("del_select1") = <<"SELECT", "LREM">> /\ Awaited("del_lrem") = <<"LREM">>
    /\ Awaited("id_select") = <<"SELECT", "LRANGE", "SELECT">>
    /\ Awaited("id_lrange") = <<"LRANGE", "SELECT">>
    /\ Awaited("id_select0") = <<"SELECT">> /\ Awaited("id_skip") = <<"SELECT">>
    /\ Awaited("id_del") = <<"DEL">> /\ Awaited("id_select1") = <<"SELECT", "DEL">>
    /\ Awaited("id_delkey") = <<"DEL">>
    /\ Awaited("count_select") = <<"SELECT", "DBSIZE">> /\ Awaited("count_size") = <<"DBSIZE">>
    /\ Awaited("countid_select") = <<"SELECT", "LLEN">> /\ Awaited("countid_len") = <<"LLEN">>
    /\ Awaited("keys_select") = <<"SELECT", "KEYS">> /\ Awaited("keys_all") = <<"KEYS">>
BY DEF Awaited

(* What is still awaited when a reply has been received, and more commands  *)
(* have been appended.                                                      *)
Follows(here, cmds, to) == Awaited(to) = Tail(Awaited(here)) \o Map(Name, cmds)

LEMMA LastOnes ==
    ASSUME NEW l \in Labels, l \notin {"idle", "crashed"},
           l \in Narrow \/ Head(Awaited(l)) \notin {"SELECT", "LRANGE"}
    PROVE  Tail(Awaited(l)) = <<>>
<1> DEFINE Long == {"del_select", "del_select1", "id_select", "id_lrange", "id_select1",
                    "count_select", "countid_select", "keys_select"}
<1>1. /\ \A x : Tail(<<x>>) = <<>>
      /\ \A x, y : Head(<<x, y>>) = x
      /\ \A x, y, z : Head(<<x, y, z>>) = x
  OBVIOUS
<1>2. \A k \in Long : Head(Awaited(k)) \in {"SELECT", "LRANGE"} /\ k \notin Narrow
  BY <1>1, AwaitedValues DEF Narrow
<1>3. l \notin Long
  BY <1>2
<1>4. \E x : Awaited(l) = <<x>>
  BY <1>3, AwaitedValues DEF Labels
<1>5. QED  BY <1>1, <1>4

(* Aligned, with the names of what is outstanding as Names writes them.     *)
Lined(c) == Names(rdr[c], sock[c], wire[c], obuf[c])
InOrder == \A c \in Clients : ~err[c] => Lined(c) = Awaited(at[c])
StaysNarrow == Ops \subseteq {"Put", "Get"} => \A c \in Clients : at[c] \in Narrow

LEMMA InOrderIsAligned == Typed => (Aligned <=> InOrder)
<1> SUFFICES ASSUME Typed PROVE Aligned <=> InOrder
  OBVIOUS
<1>1. ASSUME NEW c \in Clients PROVE Outstanding(c) = Lined(c)
  <2>1. /\ rdr[c] \in Seq(Replies) /\ sock[c] \in Seq(Replies)
        /\ wire[c] \in Seq(Command) /\ obuf[c] \in Seq(Command)
    BY DEF Typed, ChannelTyped
  <2>2. QED  BY <2>1, Listing DEF Outstanding, Lined
<1>2. QED  BY <1>1 DEF Aligned, InOrder

LEMMA OneConnection ==
    ASSUME InOrder, NEW c \in Clients,
           \A b \in Clients \ {c} :
               /\ rdr'[b] = rdr[b] /\ sock'[b] = sock[b] /\ wire'[b] = wire[b]
               /\ obuf'[b] = obuf[b] /\ err'[b] = err[b] /\ at'[b] = at[b],
           err'[c] \/ Lined(c)' = Awaited(at'[c])
    PROVE  InOrder'
<1>1. ASSUME NEW b \in Clients, ~err'[b] PROVE Lined(b)' = Awaited(at'[b])
  <2>1. CASE b = c
    BY <1>1, <2>1
  <2>2. CASE b # c
    BY <1>1, <2>2 DEF InOrder, Lined
  <2>3. QED  BY <2>1, <2>2
<1>2. QED  BY <1>1 DEF InOrder

LEMMA BuffersOf ==
    ASSUME Typed, NEW c \in Clients
    PROVE  /\ rdr[c] \in Seq(Replies) /\ sock[c] \in Seq(Replies)
           /\ wire[c] \in Seq(Command) /\ obuf[c] \in Seq(Command)
BY DEF Typed, ChannelTyped

(* A reply is received, commands are appended, the method goes on or ends. *)
LEMMA TakeInOrder ==
    ASSUME Typed, InOrder, NEW c \in Clients, HasReply(c), NEW cmds \in Seq(Command),
           TakeReply(c, cmds), NEW to \in Labels, at' = [at EXCEPT ![c] = to],
           Follows(at[c], cmds, to)
    PROVE  InOrder'
<1>1. rdr[c] # <<>> /\ ~err[c] /\ Lined(c) = Awaited(at[c])
  BY DEF HasReply, InOrder
<1>2. /\ rdr'[c] = Tail(rdr[c]) /\ obuf'[c] = obuf[c] \o cmds
      /\ sock'[c] = sock[c] /\ wire'[c] = wire[c] /\ at'[c] = to
  BY DEF Typed, ChannelTyped, CallTyped, TakeReply, AppendCommands
<1>3. Names(Tail(rdr[c]), sock[c], wire[c], obuf[c]) = Tail(Awaited(at[c]))
  BY <1>1, BuffersOf, NamesTake DEF Lined
<1>4. Tail(rdr[c]) \in Seq(Replies)
  BY <1>1, BuffersOf
<1>5. Names(Tail(rdr[c]), sock[c], wire[c], obuf[c] \o cmds)
        = Names(Tail(rdr[c]), sock[c], wire[c], obuf[c]) \o Map(Name, cmds)
  <2>1. sock[c] \in Seq(Replies) /\ wire[c] \in Seq(Command) /\ obuf[c] \in Seq(Command)
    BY BuffersOf
  <2>2. \A r \in Seq(Replies), s \in Seq(Replies), w \in Seq(Command), o \in Seq(Command) :
          Names(r, s, w, o \o cmds) = Names(r, s, w, o) \o Map(Name, cmds)
    BY NamesGrow, ZenonT(60)
  <2>3. QED  BY <1>4, <2>1, <2>2, ZenonT(60)
<1>6. Lined(c)' = Awaited(at'[c])
  BY <1>2, <1>3, <1>5 DEF Lined, Follows
<1>7. \A b \in Clients \ {c} :
          /\ rdr'[b] = rdr[b] /\ sock'[b] = sock[b] /\ wire'[b] = wire[b]
          /\ obuf'[b] = obuf[b] /\ err'[b] = err[b] /\ at'[b] = at[b]
  BY DEF Typed, ChannelTyped, CallTyped, TakeReply, AppendCommands
<1>8. QED  BY <1>6, <1>7, OneConnection

LEMMA GotoInOrder ==
    ASSUME Typed, InOrder, NEW c \in Clients, NEW here, Received(c, here),
           NEW cmds \in Seq(Command), NEW to \in Labels, Goto(c, to, cmds),
           Follows(here, cmds, to)
    PROVE  InOrder'
BY TakeInOrder DEF Received, Goto

LEMMA ReturnInOrder ==
    ASSUME Typed, InOrder, NEW c \in Clients, HasReply(c), TakeReply(c, <<>>), Finish(c),
           Tail(Awaited(at[c])) = <<>>
    PROVE  InOrder'
<1>1. "idle" \in Labels /\ <<>> \in Seq(Command)
  BY DEF Labels
<1>2. Follows(at[c], <<>>, "idle")
  <2>1. <<>> \o <<>> = <<>>
    OBVIOUS
  <2>2. QED  BY <2>1, NoName, AwaitedValues DEF Follows
<1>3. QED  BY <1>1, <1>2, TakeInOrder DEF Finish

LEMMA LinedGrows ==
    ASSUME Typed, NEW c \in Clients, NEW cmds \in Seq(Command)
    PROVE  Names(rdr[c], sock[c], wire[c], obuf[c] \o cmds) = Lined(c) \o Map(Name, cmds)
<1>1. rdr[c] \in Seq(Replies)
  BY BuffersOf
<1>2. sock[c] \in Seq(Replies) /\ wire[c] \in Seq(Command) /\ obuf[c] \in Seq(Command)
  BY BuffersOf
<1> DEFINE r == rdr[c]
           k == sock[c]
           w == wire[c]
           o == obuf[c]
<1> HIDE DEF r, k, w, o
<1>a. r \in Seq(Replies) /\ k \in Seq(Replies) /\ w \in Seq(Command) /\ o \in Seq(Command)
  BY <1>1, <1>2, Zenon DEF r, k, w, o
<1>b. Names(r, k, w, o \o cmds) = Names(r, k, w, o) \o Map(Name, cmds)
  <2>1. \A rr \in Seq(Replies), ss \in Seq(Replies), ww \in Seq(Command), oo \in Seq(Command) :
          Names(rr, ss, ww, oo \o cmds) = Names(rr, ss, ww, oo) \o Map(Name, cmds)
    BY NamesGrow, ZenonT(60)
  <2>2. QED  BY <1>a, <2>1, ZenonT(60)
<1>c. QED  BY <1>b, Zenon DEF Lined, r, k, w, o

LEMMA BeginInOrder ==
    ASSUME Typed, InOrder, NEW c \in Clients, NEW op, NEW a, NEW to \in Labels,
           NEW cmds \in Seq(Command), Begin(c, op, a, to, cmds),
           Awaited(to) = Map(Name, cmds), Map(Name, cmds) \in Seq(CommandNames)
    PROVE  InOrder'
<1>1. Lined(c) = <<>>
  BY AwaitedValues DEF InOrder, Begin
<1>2. Names(rdr[c], sock[c], wire[c], obuf[c] \o cmds) = Lined(c) \o Map(Name, cmds)
  BY LinedGrows
<1>3. <<>> \o Map(Name, cmds) = Map(Name, cmds)
  BY ConcatEmptySeq
<1>4. /\ rdr'[c] = rdr[c] /\ obuf'[c] = obuf[c] \o cmds
      /\ sock'[c] = sock[c] /\ wire'[c] = wire[c] /\ at'[c] = to
  BY DEF Typed, ChannelTyped, CallTyped, Begin, AppendCommands
<1>5. Lined(c)' = Awaited(at'[c])
  BY <1>1, <1>2, <1>3, <1>4 DEF Lined
<1>6. \A b \in Clients \ {c} :
          /\ rdr'[b] = rdr[b] /\ sock'[b] = sock[b] /\ wire'[b] = wire[b]
          /\ obuf'[b] = obuf[b] /\ err'[b] = err[b] /\ at'[b] = at[b]
  BY DEF Typed, ChannelTyped, CallTyped, Begin, AppendCommands
<1>7. QED  BY <1>5, <1>6, OneConnection

LEMMA TransferInOrder ==
    ASSUME Typed, InOrder, NEW c \in Clients, Transfer(c)
    PROVE  InOrder'
<1>1. ~err[c] /\ rdr[c] = <<>> /\ at' = at
  BY DEF Transfer, BufferWrite, BufferRead, Waiting, call
<1>2. Lined(c) = Awaited(at[c])
  BY <1>1 DEF InOrder
<1>3. CASE BufferWrite(c)
  <2>1. /\ rdr'[c] = rdr[c] /\ sock'[c] = sock[c] /\ wire'[c] = wire[c] \o obuf[c]
        /\ obuf'[c] = <<>>
    BY <1>3 DEF BufferWrite, Typed, ChannelTyped
  <2>2. Names(rdr[c], sock[c], wire[c] \o obuf[c], <<>>) = Lined(c)
    BY BuffersOf, NamesWrite DEF Lined
  <2>3. Lined(c)' = Awaited(at'[c])
    BY <1>1, <1>2, <2>1, <2>2 DEF Lined
  <2>4. \A b \in Clients \ {c} :
            /\ rdr'[b] = rdr[b] /\ sock'[b] = sock[b] /\ wire'[b] = wire[b]
            /\ obuf'[b] = obuf[b] /\ err'[b] = err[b] /\ at'[b] = at[b]
    BY <1>1, <1>3 DEF BufferWrite, Typed, ChannelTyped
  <2>5. QED  BY <2>3, <2>4, OneConnection
<1>4. CASE BufferRead(c)
  <2>1. PICK n \in 1 .. Len(sock[c]) :
          /\ rdr' = [rdr EXCEPT ![c] = SubSeq(sock[c], 1, n)]
          /\ sock' = [sock EXCEPT ![c] = SubSeq(@, n + 1, Len(@))]
    BY <1>4 DEF BufferRead
  <2>2. /\ rdr'[c] = SubSeq(sock[c], 1, n) /\ sock'[c] = SubSeq(sock[c], n + 1, Len(sock[c]))
        /\ wire'[c] = wire[c] /\ obuf'[c] = obuf[c]
    BY <1>4, <2>1 DEF BufferRead, Typed, ChannelTyped
  <2>3. Names(SubSeq(sock[c], 1, n), SubSeq(sock[c], n + 1, Len(sock[c])), wire[c], obuf[c])
          = Lined(c)
    BY <1>1, BuffersOf, NamesRead DEF Lined
  <2>4. Lined(c)' = Awaited(at'[c])
    BY <1>1, <1>2, <2>2, <2>3 DEF Lined
  <2>5. \A b \in Clients \ {c} :
            /\ rdr'[b] = rdr[b] /\ sock'[b] = sock[b] /\ wire'[b] = wire[b]
            /\ obuf'[b] = obuf[b] /\ err'[b] = err[b] /\ at'[b] = at[b]
    BY <1>1, <1>4, <2>1 DEF BufferRead, Typed, ChannelTyped
  <2>6. QED  BY <2>4, <2>5, OneConnection
<1>5. QED  BY <1>3, <1>4 DEF Transfer

LEMMA ServedInOrder ==
    ASSUME Typed, InOrder, NEW c \in Clients, Served(c) \/ Refused(c)
    PROVE  InOrder'
<1> DEFINE m == Head(wire[c])
<1>1. wire[c] # <<>> /\ at' = at
  BY DEF Served, Refused, Perform, Refuse, call
<1>2. m \in Command
  BY <1>1, BuffersOf
<1>3. PICK q \in Replies : q.to = m.name /\ Serve(c, q)
  <2>1. CASE Served(c)
    BY <1>2, <2>1, ReplyTypes, ReplyFields DEF Served, Perform, Typed
  <2>2. CASE Refused(c)
    BY <1>2, <2>2, ReplyTypes, ReplyFields DEF Refused, Refuse, MayRefuse, Typed
  <2>3. QED  BY <2>1, <2>2
<1>4. \A b \in Clients \ {c} :
          /\ rdr'[b] = rdr[b] /\ sock'[b] = sock[b] /\ wire'[b] = wire[b]
          /\ obuf'[b] = obuf[b] /\ err'[b] = err[b] /\ at'[b] = at[b]
  BY <1>1, <1>3 DEF Serve, Typed, ChannelTyped
<1>5. CASE err[c]
  BY <1>3, <1>4, <1>5, OneConnection DEF Serve
<1>6. CASE ~err[c]
  <2>1. /\ rdr'[c] = rdr[c] /\ sock'[c] = Append(sock[c], q) /\ wire'[c] = Tail(wire[c])
        /\ obuf'[c] = obuf[c]
    BY <1>3, <1>6 DEF Serve, Typed, ChannelTyped
  <2>2. Names(rdr[c], Append(sock[c], q), Tail(wire[c]), obuf[c]) = Lined(c)
    BY <1>1, <1>3, BuffersOf, NamesServe DEF Lined
  <2>3. Lined(c)' = Awaited(at'[c])
    BY <1>1, <1>6, <2>1, <2>2 DEF Lined, InOrder
  <2>4. QED  BY <1>4, <2>3, OneConnection
<1>7. QED  BY <1>5, <1>6

LEMMA LoseInOrder ==
    ASSUME Typed, InOrder, NEW c \in Clients, LoseConnection(c) \/ ReadPastEnd(c)
    PROVE  InOrder'
<1>1. Drop(c)
  BY DEF LoseConnection, Lose, ReadPastEnd
<1>2. err'[c]
  BY <1>1 DEF Drop, Typed, ChannelTyped
<1>3. \A b \in Clients \ {c} : at'[b] = at[b]
  BY DEF LoseConnection, ReadPastEnd, Finish, Typed, CallTyped
<1>4. \A b \in Clients \ {c} :
          /\ rdr'[b] = rdr[b] /\ sock'[b] = sock[b] /\ wire'[b] = wire[b]
          /\ obuf'[b] = obuf[b] /\ err'[b] = err[b]
  BY <1>1 DEF Drop, Typed, ChannelTyped
<1>5. QED  BY <1>2, <1>3, <1>4, OneConnection

LEMMA CommandNamed ==
    /\ \A d \in {0, 1} : Select(d) \in Command /\ Select(d).name = "SELECT"
    /\ \A h \in Hashes : Exists(h) \in Command /\ Exists(h).name = "EXISTS"
    /\ \A h \in Hashes, e \in Entry, v \in BOOLEAN :
         Hmset(h, e, v) \in Command /\ Hmset(h, e, v).name = "HMSET"
    /\ \A h \in Hashes : Hgetall(h) \in Command /\ Hgetall(h).name = "HGETALL"
    /\ \A k \in Keys : Del(k) \in Command /\ Del(k).name = "DEL"
    /\ \A i \in Ids, h \in Hashes : Lpush(i, h) \in Command /\ Lpush(i, h).name = "LPUSH"
    /\ \A i \in Ids \cup {None}, h \in Hashes :
         Lrem(i, h) \in Command /\ Lrem(i, h).name = "LREM"
    /\ \A i \in Ids : Lrange(i) \in Command /\ Lrange(i).name = "LRANGE"
    /\ \A i \in Ids : Llen(i) \in Command /\ Llen(i).name = "LLEN"
    /\ Dbsize \in Command /\ Dbsize.name = "DBSIZE"
    /\ AllKeys \in Command /\ AllKeys.name = "KEYS"
<1>1. \A d \in {0, 1} : Select(d) \in Command /\ Select(d).name = "SELECT"
  BY CommandTypes DEF Select
<1>2. \A h \in Hashes : Exists(h) \in Command /\ Exists(h).name = "EXISTS"
  BY CommandTypes DEF Exists
<1>3. \A h \in Hashes, e \in Entry, v \in BOOLEAN :
        Hmset(h, e, v) \in Command /\ Hmset(h, e, v).name = "HMSET"
  BY CommandTypes DEF Hmset
<1>4. \A h \in Hashes : Hgetall(h) \in Command /\ Hgetall(h).name = "HGETALL"
  BY CommandTypes DEF Hgetall
<1>5. \A k \in Keys : Del(k) \in Command /\ Del(k).name = "DEL"
  BY CommandTypes DEF Del
<1>6. \A i \in Ids, h \in Hashes : Lpush(i, h) \in Command /\ Lpush(i, h).name = "LPUSH"
  BY CommandTypes DEF Lpush
<1>7. \A i \in Ids \cup {None}, h \in Hashes :
        Lrem(i, h) \in Command /\ Lrem(i, h).name = "LREM"
  BY CommandTypes DEF Lrem
<1>8. \A i \in Ids : Lrange(i) \in Command /\ Lrange(i).name = "LRANGE"
  BY CommandTypes DEF Lrange
<1>9. \A i \in Ids : Llen(i) \in Command /\ Llen(i).name = "LLEN"
  BY CommandTypes DEF Llen
<1>10. Dbsize \in Command /\ Dbsize.name = "DBSIZE"
  BY CommandTypes DEF Dbsize
<1>11. AllKeys \in Command /\ AllKeys.name = "KEYS"
  BY CommandTypes DEF AllKeys
<1>12. QED  BY <1>1, <1>2, <1>3, <1>4, <1>5, <1>6, <1>7, <1>8, <1>9, <1>10, <1>11

LEMMA CallInOrder ==
    ASSUME Typed, InOrder, NEW c \in Clients, Call(c)
    PROVE  InOrder'
<1> DEFINE Begun(to, cmds) ==
             /\ cmds \in Seq(Command) /\ to \in Labels
             /\ \E op, a : Begin(c, op, a, to, cmds)
<1>1. ASSUME NEW to \in Labels, NEW cmds \in Seq(Command), Begun(to, cmds),
             Awaited(to) = Map(Name, cmds)
      PROVE  InOrder'
  <2>1. Map(Name, cmds) \in Seq(CommandNames)
    BY NameMaps
  <2>2. QED  BY <1>1, <2>1, BeginInOrder
<1>2. Select(0) \in Command /\ Select(1) \in Command
      /\ Select(0).name = "SELECT" /\ Select(1).name = "SELECT"
  BY CommandNamed
<1>3. {"put_select", "get_select", "look_select", "id_select", "count_select",
       "countid_select", "keys_select"} \subseteq Labels
  BY DEF Labels
<1>4. CASE CallPut(c) \/ CallGet(c) \/ CallDeleteHash(c)
  <2>1. PICK to \in {"put_select", "get_select", "look_select"} :
             \E op, a : Begin(c, op, a, to, <<Select(0)>>)
    BY <1>4 DEF CallPut, CallGet, CallDeleteHash
  <2>2. <<Select(0)>> \in Seq(Command) /\ Map(Name, <<Select(0)>>) = <<"SELECT">>
    BY <1>2, SingleName
  <2>3. Awaited(to) = <<"SELECT">>
    BY AwaitedValues
  <2>4. QED  BY <1>1, <1>3, <2>1, <2>2, <2>3
<1>5. CASE CallDeleteId(c)
  <2>1. PICK i \in Ids : \E op, a :
          Begin(c, op, a, "id_select", <<Select(1), Lrange(i), Select(0)>>)
    BY <1>5 DEF CallDeleteId
  <2>2. Lrange(i) \in Command /\ Lrange(i).name = "LRANGE"
    BY CommandNamed
  <2>3. /\ <<Select(1), Lrange(i), Select(0)>> \in Seq(Command)
        /\ Map(Name, <<Select(1), Lrange(i), Select(0)>>) = <<"SELECT", "LRANGE", "SELECT">>
    BY <1>2, <2>2, ThreeNames
  <2>4. QED  BY <1>1, <1>3, <2>1, <2>3, AwaitedValues
<1>6. CASE CallCount(c)
  <2>1. \E op, a : Begin(c, op, a, "count_select", <<Select(0), Dbsize>>)
    BY <1>6 DEF CallCount
  <2>2. Dbsize \in Command /\ Dbsize.name = "DBSIZE"
    BY CommandNamed
  <2>3. /\ <<Select(0), Dbsize>> \in Seq(Command)
        /\ Map(Name, <<Select(0), Dbsize>>) = <<"SELECT", "DBSIZE">>
    BY <1>2, <2>2, TwoNames
  <2>4. QED  BY <1>1, <1>3, <2>1, <2>3, AwaitedValues
<1>7. CASE CallCountId(c)
  <2>1. PICK i \in Ids : \E op, a : Begin(c, op, a, "countid_select", <<Select(1), Llen(i)>>)
    BY <1>7 DEF CallCountId
  <2>2. Llen(i) \in Command /\ Llen(i).name = "LLEN"
    BY CommandNamed
  <2>3. /\ <<Select(1), Llen(i)>> \in Seq(Command)
        /\ Map(Name, <<Select(1), Llen(i)>>) = <<"SELECT", "LLEN">>
    BY <1>2, <2>2, TwoNames
  <2>4. QED  BY <1>1, <1>3, <2>1, <2>3, AwaitedValues
<1>8. CASE CallEntries(c)
  <2>1. \E op, a : Begin(c, op, a, "keys_select", <<Select(1), AllKeys>>)
    BY <1>8 DEF CallEntries
  <2>2. AllKeys \in Command /\ AllKeys.name = "KEYS"
    BY CommandNamed
  <2>3. /\ <<Select(1), AllKeys>> \in Seq(Command)
        /\ Map(Name, <<Select(1), AllKeys>>) = <<"SELECT", "KEYS">>
    BY <1>2, <2>2, TwoNames
  <2>4. QED  BY <1>1, <1>3, <2>1, <2>3, AwaitedValues
<1>9. QED  BY <1>4, <1>5, <1>6, <1>7, <1>8 DEF Call

LEMMA NoneFollows ==
    ASSUME NEW here, NEW to \in Labels, Tail(Awaited(here)) \in Seq(CommandNames),
           Awaited(to) = Tail(Awaited(here))
    PROVE  Follows(here, <<>>, to)
<1>1. Awaited(to) \o <<>> = Awaited(to)
  BY ConcatEmptySeq
<1>2. QED  BY <1>1, NoName DEF Follows

LEMMA OneFollows ==
    ASSUME NEW here, NEW to, NEW m \in Command, Tail(Awaited(here)) = <<>>,
           Awaited(to) = <<m.name>>
    PROVE  Follows(here, <<m>>, to)
<1>1. <<>> \o <<m.name>> = <<m.name>>
  OBVIOUS
<1>2. QED  BY <1>1, SingleName DEF Follows

LEMMA TwoFollow ==
    ASSUME NEW here, NEW to, NEW m \in Command, NEW n \in Command,
           Tail(Awaited(here)) = <<>>, Awaited(to) = <<m.name, n.name>>
    PROVE  Follows(here, <<m, n>>, to)
<1>1. <<>> \o <<m.name, n.name>> = <<m.name, n.name>>
  OBVIOUS
<1>2. QED  BY <1>1, TwoNames DEF Follows

(* The labels at which one reply is left to receive. *)
Lasts == {"put_select", "put_exists", "put_hmset", "put_select1", "put_lpush", "get_select",
          "get_all", "look_select", "look_all", "del_del", "del_lrem", "id_select0", "id_skip",
          "id_del", "id_delkey", "count_size", "countid_len", "keys_all"}

LEMMA AwaitedTails ==
    /\ \A l \in Lasts : Tail(Awaited(l)) = <<>>
    /\ Tail(Awaited("del_select")) = <<"DEL">> /\ Tail(Awaited("del_select1")) = <<"LREM">>
    /\ Tail(Awaited("id_select")) = <<"LRANGE", "SELECT">>
    /\ Tail(Awaited("id_lrange")) = <<"SELECT">> /\ Tail(Awaited("id_select1")) = <<"DEL">>
    /\ Tail(Awaited("count_select")) = <<"DBSIZE">>
    /\ Tail(Awaited("countid_select")) = <<"LLEN">> /\ Tail(Awaited("keys_select")) = <<"KEYS">>
<1>1. \A x : Tail(<<x>>) = <<>>
  OBVIOUS
<1>2. \A x, y : Tail(<<x, y>>) = <<y>>
  OBVIOUS
<1>3. \A x, y, z : Tail(<<x, y, z>>) = <<y, z>>
  OBVIOUS
<1>4. \A l \in Lasts : \E x : Awaited(l) = <<x>>
  BY AwaitedValues DEF Lasts
<1>5. \A l \in Lasts : Tail(Awaited(l)) = <<>>
  BY <1>1, <1>4
<1>6. /\ Tail(Awaited("del_select")) = <<"DEL">> /\ Tail(Awaited("del_select1")) = <<"LREM">>
      /\ Tail(Awaited("id_lrange")) = <<"SELECT">> /\ Tail(Awaited("id_select1")) = <<"DEL">>
      /\ Tail(Awaited("count_select")) = <<"DBSIZE">>
      /\ Tail(Awaited("countid_select")) = <<"LLEN">>
      /\ Tail(Awaited("keys_select")) = <<"KEYS">>
  <2>1. Tail(Awaited("del_select")) = <<"DEL">>
    BY <1>2, AwaitedValues
  <2>2. Tail(Awaited("del_select1")) = <<"LREM">>
    BY <1>2, AwaitedValues
  <2>3. Tail(Awaited("id_lrange")) = <<"SELECT">>
    BY <1>2, AwaitedValues
  <2>4. Tail(Awaited("id_select1")) = <<"DEL">>
    BY <1>2, AwaitedValues
  <2>5. Tail(Awaited("count_select")) = <<"DBSIZE">>
    BY <1>2, AwaitedValues
  <2>6. Tail(Awaited("countid_select")) = <<"LLEN">>
    BY <1>2, AwaitedValues
  <2>7. Tail(Awaited("keys_select")) = <<"KEYS">>
    BY <1>2, AwaitedValues
  <2>8. QED  BY <2>1, <2>2, <2>3, <2>4, <2>5, <2>6, <2>7
<1>7. Tail(Awaited("id_select")) = <<"LRANGE", "SELECT">>
  <2>1. Awaited("id_select") = <<"SELECT", "LRANGE", "SELECT">>
    BY AwaitedValues
  <2>2. Tail(<<"SELECT", "LRANGE", "SELECT">>) = <<"LRANGE", "SELECT">>
    OBVIOUS
  <2>3. QED  BY <2>1, <2>2
<1>8. QED  BY <1>5, <1>6, <1>7

LEMMA EndInOrder ==
    ASSUME Typed, InOrder, NEW c \in Clients, NEW here \in Lasts, Received(c, here),
           Return(c) \/ \E answer : ReturnValue(c, answer)
    PROVE  InOrder'
<1>1. HasReply(c) /\ TakeReply(c, <<>>) /\ Finish(c) /\ at[c] = here
  BY DEF Received, Return, ReturnValue
<1>2. QED  BY <1>1, AwaitedTails, ReturnInOrder

(* The next reply of the same pipeline is awaited. *)
LEMMA NextInOrder ==
    ASSUME Typed, InOrder, NEW c \in Clients, NEW here \in Labels, NEW to \in Labels,
           Received(c, here), Goto(c, to, <<>>), Awaited(to) = Tail(Awaited(here)),
           Awaited(to) \in Seq(CommandNames)
    PROVE  InOrder'
BY NoName, NoneFollows, GotoInOrder

LEMMA OneInOrder ==
    ASSUME Typed, InOrder, NEW c \in Clients, NEW here \in Lasts, NEW to \in Labels,
           NEW m \in Command, Received(c, here), Goto(c, to, <<m>>), Awaited(to) = <<m.name>>
    PROVE  InOrder'
BY AwaitedTails, SingleName, OneFollows, GotoInOrder

LEMMA TwoInOrder ==
    ASSUME Typed, InOrder, NEW c \in Clients, NEW here \in Lasts, NEW to \in Labels,
           NEW m \in Command, NEW n \in Command, Received(c, here), Goto(c, to, <<m, n>>),
           Awaited(to) = <<m.name, n.name>>
    PROVE  InOrder'
BY AwaitedTails, TwoNames, TwoFollow, GotoInOrder

LEMMA PutInOrder ==
    ASSUME Typed, InOrder, NEW c \in Clients,
           PutSelected(c) \/ PutKeeps(c) \/ PutProceeds(c) \/ PutStored(c)
             \/ PutListing(c) \/ PutListed(c)
    PROVE  InOrder'
<1> DEFINE h == arg[c].hash
           e == arg[c].entry
           hmset == Hmset(h, e, arg[c].overwrite)
<1>1. at[c] \in Putting => h \in Hashes /\ e \in Entry /\ e.id \in Ids
  BY FitsAtOnce DEF FitsLabel, OnHash, Entry
<1>2. at[c] \in Putting => /\ hmset \in Command /\ hmset.name = "HMSET"
                           /\ Exists(h) \in Command /\ Exists(h).name = "EXISTS"
                           /\ Lpush(e.id, h) \in Command /\ Lpush(e.id, h).name = "LPUSH"
  BY <1>1, FitsAtOnce, CommandNamed
<1>3. Putting \subseteq Lasts /\ Putting \subseteq Labels
  BY LabelTypes DEF Putting, Lasts
<1> HIDE DEF hmset
<1>4. CASE PutKeeps(c) \/ PutListed(c)
  BY <1>3, <1>4, EndInOrder DEF PutKeeps, PutListed, Putting
<1>5. ASSUME NEW here \in Putting, Received(c, here), Goto(c, "put_hmset", <<hmset>>)
      PROVE  InOrder'
  <2>1. at[c] = here /\ here \in Lasts /\ "put_hmset" \in Labels
    BY <1>3, <1>5 DEF Received, Putting
  <2>2. QED  BY <1>2, <1>5, <2>1, AwaitedValues, OneInOrder
<1>6. CASE PutSelected(c)
  <2>1. Received(c, "put_select") /\ "put_select" \in Putting /\ at[c] = "put_select"
    BY <1>6 DEF PutSelected, Received, Putting
  <2>2. CASE arg[c].overwrite
    BY <1>5, <1>6, <2>1, <2>2 DEF PutSelected, StoreFrame, hmset
  <2>3. CASE ~arg[c].overwrite
    <3>1. Goto(c, "put_exists", <<Exists(h)>>)
      BY <1>6, <2>3 DEF PutSelected
    <3>2. "put_exists" \in Labels /\ "put_select" \in Lasts
      BY <1>3 DEF Putting
    <3>3. QED  BY <1>2, <2>1, <3>1, <3>2, AwaitedValues, OneInOrder
  <2>4. QED  BY <2>2, <2>3
<1>7. CASE PutProceeds(c)
  BY <1>5, <1>7 DEF PutProceeds, StoreFrame, hmset, Putting
<1>8. CASE PutStored(c)
  <2>1. "put_hmset" \in Lasts /\ "put_select1" \in Labels
    BY <1>3 DEF Putting
  <2>2. Select(1) \in Command /\ Select(1).name = "SELECT"
    BY CommandNamed
  <2>3. QED  BY <1>8, <2>1, <2>2, AwaitedValues, OneInOrder DEF PutStored
<1>9. CASE PutListing(c)
  <2>1. "put_select1" \in Lasts /\ "put_lpush" \in Labels /\ at[c] \in Putting
    BY <1>3, <1>9 DEF Putting, PutListing, Received
  <2>2. QED  BY <1>2, <1>9, <2>1, AwaitedValues, OneInOrder DEF PutListing
<1>10. QED  BY <1>4, <1>6, <1>7, <1>8, <1>9

LEMMA LookInOrder ==
    ASSUME Typed, InOrder, NEW c \in Clients,
           Selected(c) \/ GetDone(c) \/ FoundUnparsable(c) \/ QuerySelected(c)
             \/ CountDone(c) \/ CountIdDone(c) \/ EntriesDone(c)
    PROVE  InOrder'
<1>1. {"count_size", "countid_len", "keys_all", "get_all", "look_all",
       "count_select", "countid_select", "keys_select"} \subseteq Labels
  BY DEF Labels
<1>2. {"count_size", "countid_len", "keys_all", "get_all", "look_all", "get_select",
       "look_select"} \subseteq Lasts
  BY DEF Lasts
<1>3. CASE Selected(c)
  <2>1. PICK here \in {"get_select", "look_select"}, to \in {"get_all", "look_all"} :
          Received(c, here) /\ Goto(c, to, <<Hgetall(arg[c].hash)>>)
    BY <1>3 DEF Selected
  <2>2. arg[c].hash \in Hashes
    BY <2>1, FitsAtOnce DEF FitsLabel, OnHash, Received
  <2>3. Hgetall(arg[c].hash) \in Command /\ Hgetall(arg[c].hash).name = "HGETALL"
    BY <2>2, CommandNamed
  <2>4. here \in Lasts /\ to \in Labels /\ Awaited(to) = <<"HGETALL">>
    BY <1>1, <1>2, AwaitedValues
  <2>5. QED  BY <2>1, <2>3, <2>4, OneInOrder
<1>4. CASE QuerySelected(c)
  <2>1. \/ Received(c, "count_select") /\ Goto(c, "count_size", <<>>)
        \/ Received(c, "countid_select") /\ Goto(c, "countid_len", <<>>)
        \/ Received(c, "keys_select") /\ Goto(c, "keys_all", <<>>)
    BY <1>4 DEF QuerySelected
  <2>2. <<"DBSIZE">> \in Seq(CommandNames) /\ <<"LLEN">> \in Seq(CommandNames)
        /\ <<"KEYS">> \in Seq(CommandNames)
    BY DEF CommandNames
  <2>3. QED  BY <1>1, <2>1, <2>2, AwaitedValues, AwaitedTails, NextInOrder
<1>5. CASE GetDone(c) \/ CountDone(c) \/ CountIdDone(c) \/ EntriesDone(c)
  BY <1>2, <1>5, EndInOrder DEF GetDone, CountDone, CountIdDone, EntriesDone
<1>6. CASE FoundUnparsable(c)
  BY <1>2, <1>6, EndInOrder DEF FoundUnparsable
<1>7. QED  BY <1>3, <1>4, <1>5, <1>6

LEMMA DeleteHashInOrder ==
    ASSUME Typed, InOrder, NEW c \in Clients,
           DeleteAbsent(c) \/ DeleteFound(c) \/ DeleteSelected(c) \/ DeleteErased(c)
             \/ DeleteUnlisting(c) \/ DeleteUnlisted(c)
    PROVE  InOrder'
<1>1. {"look_all", "del_select", "del_del", "del_select1", "del_lrem"} \subseteq Labels
  BY DEF Labels
<1>2. {"look_all", "del_del", "del_lrem"} \subseteq Lasts
  BY DEF Lasts
<1>3. Select(0) \in Command /\ Select(1) \in Command
      /\ Select(0).name = "SELECT" /\ Select(1).name = "SELECT"
  BY CommandNamed
<1>4. CASE DeleteAbsent(c) \/ DeleteUnlisted(c)
  BY <1>2, <1>4, EndInOrder DEF DeleteAbsent, DeleteUnlisted
<1>5. CASE DeleteFound(c)
  <2>1. arg[c].hash \in Hashes
    BY <1>5, FitsAtOnce DEF DeleteFound, FitsLabel, OnHash, Received
  <2>2. Del(arg[c].hash) \in Command /\ Del(arg[c].hash).name = "DEL"
    BY <2>1, CommandNamed DEF Keys
  <2>3. Received(c, "look_all") /\ Goto(c, "del_select", <<Select(0), Del(arg[c].hash)>>)
    BY <1>5 DEF DeleteFound
  <2>4. "look_all" \in Lasts /\ "del_select" \in Labels
        /\ Awaited("del_select") = <<"SELECT", "DEL">>
    BY <1>1, <1>2, AwaitedValues
  <2>5. QED  BY <1>3, <2>2, <2>3, <2>4, TwoInOrder
<1>6. CASE DeleteSelected(c)
  <2>1. <<"DEL">> \in Seq(CommandNames)
    BY DEF CommandNames
  <2>2. Awaited("del_del") = Tail(Awaited("del_select")) /\ Awaited("del_del") = <<"DEL">>
    BY AwaitedValues, AwaitedTails
  <2>3. QED  BY <1>1, <1>6, <2>1, <2>2, NextInOrder DEF DeleteSelected
<1>7. CASE DeleteErased(c)
  <2>1. arg[c].hash \in Hashes /\ arg[c].entry \in Entry \cup {Blank}
    BY <1>7, FitsAtOnce DEF DeleteErased, Received, FitsLabel, OnHash, OnEntry
  <2>2. arg[c].entry.id \in Ids \cup {None}
    BY <2>1 DEF Entry, Blank
  <2> DEFINE lrem == Lrem(arg[c].entry.id, arg[c].hash)
  <2>3. lrem \in Command /\ lrem.name = "LREM"
    BY <2>1, <2>2, CommandNamed
  <2>4. Received(c, "del_del") /\ Goto(c, "del_select1", <<Select(1), lrem>>)
    BY <1>7 DEF DeleteErased
  <2> HIDE DEF lrem
  <2>5. "del_del" \in Lasts /\ "del_select1" \in Labels
        /\ Awaited("del_select1") = <<"SELECT", "LREM">>
    BY <1>1, <1>2, AwaitedValues
  <2>6. QED  BY <1>3, <2>3, <2>4, <2>5, TwoInOrder
<1>8. CASE DeleteUnlisting(c)
  <2>1. <<"LREM">> \in Seq(CommandNames)
    BY DEF CommandNames
  <2>2. Awaited("del_lrem") = Tail(Awaited("del_select1")) /\ Awaited("del_lrem") = <<"LREM">>
    BY AwaitedValues, AwaitedTails
  <2>3. QED  BY <1>1, <1>8, <2>1, <2>2, NextInOrder DEF DeleteUnlisting
<1>9. QED  BY <1>4, <1>5, <1>6, <1>7, <1>8

LEMMA DeleteIdInOrder ==
    ASSUME Typed, InOrder, NEW c \in Clients,
           IdSelected(c) \/ IdRanged(c) \/ IdSkipped(c) \/ IdDeleteNext(c) \/ IdEmptied(c)
             \/ IdSelected1(c) \/ IdDeleted(c)
    PROVE  InOrder'
<1>1. {"id_select", "id_lrange", "id_select0", "id_skip", "id_del", "id_select1",
       "id_delkey"} \subseteq Labels
  BY DEF Labels
<1>2. {"id_select0", "id_skip", "id_del", "id_delkey"} \subseteq Lasts
  BY DEF Lasts
<1>3. /\ <<"DEL">> \in Seq(CommandNames) /\ <<"SELECT">> \in Seq(CommandNames)
      /\ <<"LRANGE", "SELECT">> \in Seq(CommandNames)
  BY DEF CommandNames
<1>4. CASE IdSkipped(c) \/ IdDeleted(c)
  BY <1>2, <1>4, EndInOrder DEF IdSkipped, IdDeleted
<1>5. CASE IdSelected(c)
  <2>1. /\ Awaited("id_lrange") = Tail(Awaited("id_select"))
        /\ Awaited("id_lrange") = <<"LRANGE", "SELECT">>
    BY AwaitedValues, AwaitedTails
  <2>2. QED  BY <1>1, <1>3, <1>5, <2>1, NextInOrder DEF IdSelected
<1>6. CASE IdRanged(c)
  <2>1. PICK to \in {"id_select0", "id_skip"} :
          Received(c, "id_lrange") /\ Goto(c, to, <<>>)
    BY <1>6 DEF IdRanged
  <2>2. Awaited(to) = Tail(Awaited("id_lrange")) /\ Awaited(to) = <<"SELECT">>
    BY AwaitedValues, AwaitedTails
  <2>3. QED  BY <1>1, <1>3, <2>1, <2>2, NextInOrder
<1>7. CASE IdDeleteNext(c)
  <2>1. PICK here \in {"id_select0", "id_del"} : Received(c, here)
    BY <1>7 DEF IdDeleteNext, Deleting
  <2>2. PICK k \in Keys : Goto(c, "id_del", <<Del(k)>>)
    BY <1>7 DEF IdDeleteNext
  <2>3. Del(k) \in Command /\ Del(k).name = "DEL" /\ Awaited("id_del") = <<"DEL">>
    BY CommandNamed, AwaitedValues
  <2>4. QED  BY <1>1, <1>2, <2>1, <2>2, <2>3, OneInOrder
<1>8. CASE IdEmptied(c)
  <2>1. PICK here \in {"id_select0", "id_del"} : Received(c, here)
    BY <1>8 DEF IdEmptied, Deleting
  <2>2. arg[c].id \in Keys
    BY <2>1, FitsAtOnce DEF FitsLabel, OnId, Received, Keys
  <2> DEFINE del == Del(arg[c].id)
  <2>3. del \in Command /\ del.name = "DEL" /\ Awaited("id_select1") = <<"SELECT", "DEL">>
    BY <2>2, CommandNamed, AwaitedValues
  <2>4. Goto(c, "id_select1", <<Select(1), del>>)
    BY <1>8 DEF IdEmptied
  <2>5. Select(1) \in Command /\ Select(1).name = "SELECT"
    BY CommandNamed
  <2> HIDE DEF del
  <2>6. QED  BY <1>1, <1>2, <2>1, <2>3, <2>4, <2>5, TwoInOrder
<1>9. CASE IdSelected1(c)
  <2>1. Awaited("id_delkey") = Tail(Awaited("id_select1")) /\ Awaited("id_delkey") = <<"DEL">>
    BY AwaitedValues, AwaitedTails
  <2>2. QED  BY <1>1, <1>3, <1>9, <2>1, NextInOrder DEF IdSelected1
<1>10. QED  BY <1>4, <1>5, <1>6, <1>7, <1>8, <1>9

(* What is received is the reply to the command awaited. *)
LEMMA HeadIsAwaited ==
    ASSUME Typed, InOrder, NEW c \in Clients, HasReply(c)
    PROVE  Reply(c).to = Head(Awaited(at[c]))
<1>1. rdr[c] # <<>> /\ Lined(c) = Awaited(at[c])
  BY DEF HasReply, InOrder
<1>2. Head(Lined(c)) = Head(rdr[c]).to
  BY <1>1, BuffersOf, NamesTake DEF Lined
<1>3. QED  BY <1>1, <1>2 DEF Reply

LEMMA HasAwaited ==
    ASSUME Typed, InOrder, NEW c \in Clients, HasReply(c)
    PROVE  at[c] \notin {"idle", "crashed"}
<1>1. rdr[c] # <<>> /\ Lined(c) = Awaited(at[c])
  BY DEF HasReply, InOrder
<1>2. Lined(c) # <<>>
  BY <1>1, BuffersOf, NamesSome DEF Lined
<1>3. QED  BY <1>1, <1>2, AwaitedValues

LEMMA ThrowInOrder ==
    ASSUME Typed, InOrder, StaysNarrow, PipelinesHold, NEW c \in Clients, Throw(c)
    PROVE  InOrder'
<1>1. HasReply(c) /\ at[c] \notin {"idle", "crashed"} /\ at[c] \in Labels
  BY HasAwaited DEF Throw, Typed, CallTyped
<1>2. Reply(c) \in Replies /\ Reply(c).type = "error"
  BY <1>1, ReplyTyped DEF Throw, Typed
<1>3. Head(Awaited(at[c])) \in Refusable
  BY <1>1, <1>2, HeadIsAwaited DEF Replies
<1>4. at[c] \in Narrow \/ Head(Awaited(at[c])) \notin {"SELECT", "LRANGE"}
  BY <1>3 DEF PipelinesHold, StaysNarrow
<1>5. Tail(Awaited(at[c])) = <<>>
  BY <1>1, <1>4, LastOnes
<1>6. QED  BY <1>1, <1>5, ReturnInOrder DEF Throw

LEMMA NarrowStep ==
    ASSUME Typed, StaysNarrow, Next
    PROVE  StaysNarrow'
<1> SUFFICES ASSUME Ops \subseteq {"Put", "Get"}, \A b \in Clients : at[b] \in Narrow
             PROVE  \A b \in Clients : at'[b] \in Narrow
  BY DEF StaysNarrow
<1>1. PICK c \in Clients :
        \/ Call(c) \/ Continue(c) \/ Transfer(c) \/ Served(c) \/ Refused(c)
        \/ LoseConnection(c) \/ ReadPastEnd(c)
  BY DEF Next
<1>2. \/ at' = at
      \/ \E to \in Narrow : at' = [at EXCEPT ![c] = to]
  <2>1. CASE Call(c)
    BY <2>1 DEF Call, CallPut, CallGet, CallDeleteHash, CallDeleteId, CallCount, CallCountId,
                CallEntries, Begin, Narrow
  <2>2. CASE Continue(c)
    <3>1. CASE PutSelected(c) \/ PutKeeps(c) \/ PutProceeds(c) \/ PutStored(c)
                 \/ PutListing(c) \/ PutListed(c)
      BY <3>1 DEF PutSelected, PutKeeps, PutProceeds, PutStored, PutListing, PutListed,
                  StoreFrame, Return, Finish, Goto, Narrow
    <3>2. CASE Selected(c)
      <4>1. \/ at[c] = "get_select" /\ at' = [at EXCEPT ![c] = "get_all"]
            \/ at[c] = "look_select"
        <5>1. PICK step \in {<<"get_select", "get_all">>, <<"look_select", "look_all">>} :
                at[c] = step[1] /\ at' = [at EXCEPT ![c] = step[2]]
          BY <3>2 DEF Selected, Received, Goto
        <5>2. \/ step[1] = "get_select" /\ step[2] = "get_all"
              \/ step[1] = "look_select"
          OBVIOUS
        <5>3. QED  BY <5>1, <5>2
      <4>2. "get_all" \in Narrow /\ "look_select" \notin Narrow
        BY DEF Narrow
      <4>3. QED  BY <4>1, <4>2
    <3>3. CASE GetDone(c) \/ FoundUnparsable(c) \/ Throw(c)
      BY <3>3 DEF GetDone, FoundUnparsable, Throw, Return, ReturnValue, Finish, Narrow
    <3>4. CASE DeleteAbsent(c) \/ DeleteFound(c) \/ DeleteSelected(c) \/ DeleteErased(c)
                 \/ DeleteUnlisting(c) \/ DeleteUnlisted(c)
      BY <3>4 DEF DeleteAbsent, DeleteFound, DeleteSelected, DeleteErased, DeleteUnlisting,
                  DeleteUnlisted, Received, Narrow
    <3>5. CASE IdSelected(c) \/ IdRanged(c) \/ IdSkipped(c) \/ IdDeleteNext(c)
                 \/ IdEmptied(c) \/ IdSelected1(c) \/ IdDeleted(c)
      BY <3>5 DEF IdSelected, IdRanged, IdSkipped, IdDeleteNext, IdEmptied, IdSelected1,
                  IdDeleted, Deleting, Received, Narrow
    <3>6. CASE QuerySelected(c) \/ CountDone(c) \/ CountIdDone(c) \/ EntriesDone(c)
      BY <3>6 DEF QuerySelected, CountDone, CountIdDone, EntriesDone, Received, Narrow
    <3>7. QED  BY <2>2, <3>1, <3>2, <3>3, <3>4, <3>5, <3>6 DEF Continue
  <2>3. CASE Transfer(c) \/ Served(c) \/ Refused(c)
    BY <2>3 DEF Transfer, Served, Refused, call
  <2>4. CASE LoseConnection(c) \/ ReadPastEnd(c)
    BY <2>4 DEF LoseConnection, ReadPastEnd, Finish, Narrow
  <2>5. QED  BY <1>1, <2>1, <2>2, <2>3, <2>4
<1>3. QED  BY <1>2 DEF Typed, CallTyped

LEMMA NextInOrderStep ==
    ASSUME Typed, InOrder, StaysNarrow, PipelinesHold, [Next]_vars
    PROVE  InOrder' /\ StaysNarrow'
<1>1. CASE Next
  <2>1. PICK c \in Clients :
          \/ Call(c) \/ Continue(c) \/ Transfer(c) \/ Served(c) \/ Refused(c)
          \/ LoseConnection(c) \/ ReadPastEnd(c)
    BY <1>1 DEF Next
  <2>2. ASSUME Continue(c) PROVE InOrder'
    <3>1. CASE Throw(c)
      BY <3>1, ThrowInOrder
    <3>2. QED
      BY <2>2, <3>1, PutInOrder, LookInOrder, DeleteHashInOrder, DeleteIdInOrder DEF Continue
  <2>3. InOrder'
    BY <2>1, <2>2, CallInOrder, TransferInOrder, ServedInOrder, LoseInOrder
  <2>4. QED  BY <1>1, <2>3, NarrowStep
<1>2. CASE UNCHANGED vars
  BY <1>2 DEF vars, InOrder, Lined, StaysNarrow
<1>3. QED  BY <1>1, <1>2

LEMMA InitInOrder == Init => InOrder /\ StaysNarrow
<1>1. Names(<<>>, <<>>, <<>>, <<>>) = <<>>
  BY DEF Names, Map
<1>2. QED
  BY <1>1, AwaitedValues DEF Init, ContextInit, InOrder, Lined, StaysNarrow, Narrow

(* As long as no command in the middle of a pipeline is refused, or only    *)
(* Put and Get are called, which await one reply at a time, no reply is     *)
(* left behind or missing, with whatever other refusals, lost connections   *)
(* and interleavings (RedisHashStore.cpp:47-274).                           *)
THEOREM StoreAligned == Spec /\ PipelinesHold => []Aligned
<1> DEFINE IInv == Typed /\ InOrder /\ StaysNarrow /\ PipelinesHold
<1>1. Init /\ PipelinesHold => IInv
  BY InitTyped, InitInOrder
<1>2. IInv /\ [Next]_vars => IInv'
  <2>1. PipelinesHold' <=> PipelinesHold
    BY DEF PipelinesHold
  <2>2. QED  BY <2>1, NextTyped, NextInOrderStep
<1>3. IInv => Aligned
  BY InOrderIsAligned
<1>4. QED  BY <1>1, <1>2, <1>3, PTL DEF Spec

(* Then every method receives the reply to the command its comments name    *)
(* (RedisHashStore.cpp:170-179).                                            *)
THEOREM StoreReceivesItsOwn == Spec /\ PipelinesHold => []ReceivesItsOwnReply
<1>1. Typed /\ Aligned => ReceivesItsOwnReply
  BY InOrderIsAligned, HeadIsAwaited DEF ReceivesItsOwnReply
<1>2. Spec => []Typed
  BY InitTyped, NextTyped, PTL DEF Spec
<1>3. QED  BY <1>1, <1>2, StoreAligned, PTL

-----------------------------------------------------------------------------
(* The databases stay separate.  HMSET and LPUSH are sent alone, and only   *)
(* once the reply to the SELECT before them has been seen: the database     *)
(* they need is selected when they are executed.                            *)
Queue(c) == wire[c] \o obuf[c]
Answered(c) == rdr[c] \o sock[c]

Plain(u) == \A n \in 1 .. Len(u) : u[n].name \notin {"HMSET", "LPUSH"}
Lone(u, d) == \E m \in Command : /\ u = <<m>>
                                 /\ m.name = "HMSET" => d = 0
                                 /\ m.name = "LPUSH" => d = 1
Writes(c) == Plain(Queue(c)) \/ Lone(Queue(c), sel[c])

Chosen(c, d) ==
    \/ Queue(c) = <<Select(d)>>
    \/ /\ Queue(c) = <<>>
       /\ sel[c] = d \/ \A n \in 1 .. Len(Answered(c)) : Answered(c)[n].type = "error"

Chooses(c) ==
    ~err[c] => /\ at[c] = "put_select" => Chosen(c, 0)
               /\ at[c] = "put_exists" => sel[c] = 0
               /\ at[c] = "put_select1" => Chosen(c, 1)

Selects == \A c \in Clients : Writes(c) /\ Chooses(c)

LEMMA Lengths ==
    ASSUME NEW r \in Seq(Replies), NEW s \in Seq(Replies),
           NEW w \in Seq(Command), NEW o \in Seq(Command)
    PROVE  Len(Names(r, s, w, o)) = Len(r) + Len(s) + Len(w) + Len(o)
<1>1. Len(r \o s) = Len(r) + Len(s) /\ Len(w \o o) = Len(w) + Len(o)
  BY ConcatProperties
<1>2. r \o s \in Seq(Replies) /\ w \o o \in Seq(Command)
  BY NamesType
<1> DEFINE x == Map(To, r \o s)
           y == Map(Name, w \o o)
<1>3. x \in Seq(CommandNames) /\ Len(x) = Len(r) + Len(s)
  BY <1>1, <1>2, ToMaps
<1>4. y \in Seq(CommandNames) /\ Len(y) = Len(w) + Len(o)
  BY <1>1, <1>2, NameMaps
<1> HIDE DEF x, y
<1>5. Len(x \o y) = Len(x) + Len(y)
  BY <1>3, <1>4, ConcatProperties
<1>6. Len(r) \in Nat /\ Len(s) \in Nat /\ Len(w) \in Nat /\ Len(o) \in Nat
  BY LenProperties
<1>7. QED  BY <1>3, <1>4, <1>5, <1>6 DEF Names, x, y

LEMMA LengthsOf ==
    ASSUME Typed, NEW c \in Clients
    PROVE  \E a \in Nat, b \in Nat, m \in Nat, n \in Nat :
             /\ Len(rdr[c]) = a /\ Len(sock[c]) = b /\ Len(wire[c]) = m /\ Len(obuf[c]) = n
             /\ Len(Lined(c)) = a + b + m + n
<1>1. Len(Lined(c)) = Len(rdr[c]) + Len(sock[c]) + Len(wire[c]) + Len(obuf[c])
  BY BuffersOf, Lengths DEF Lined
<1>2. /\ Len(rdr[c]) \in Nat /\ Len(sock[c]) \in Nat /\ Len(wire[c]) \in Nat
      /\ Len(obuf[c]) \in Nat
  BY BuffersOf, LenProperties
<1>3. QED  BY <1>1, <1>2, Zenon

LEMMA NoElements ==
    /\ \A s \in Seq(Command) : Len(s) = 0 => s = <<>>
    /\ \A s \in Seq(Replies) : Len(s) = 0 => s = <<>>
<1>1. ASSUME NEW S, NEW s \in Seq(S), Len(s) = 0 PROVE s = <<>>
  BY <1>1, EmptySeq
<1>2. QED  BY <1>1

LEMMA OneAwaited == \A l \in Lasts : Len(Awaited(l)) = 1
<1>1. \A x : Len(<<x>>) = 1
  OBVIOUS
<1>2. \A l \in Lasts : \E x : Awaited(l) = <<x>>
  BY AwaitedValues DEF Lasts
<1>3. QED  BY <1>1, <1>2

(* When the only reply awaited has come, nothing else is under way.         *)
LEMMA NothingElse ==
    ASSUME Typed, InOrder, NEW c \in Clients, HasReply(c), at[c] \in Lasts
    PROVE  /\ wire[c] = <<>> /\ obuf[c] = <<>> /\ sock[c] = <<>> /\ Len(rdr[c]) = 1
<1>1. Len(Lined(c)) = 1 /\ rdr[c] # <<>>
  BY OneAwaited DEF HasReply, InOrder
<1>2. PICK a \in Nat, b \in Nat, m \in Nat, n \in Nat :
        /\ Len(rdr[c]) = a /\ Len(sock[c]) = b /\ Len(wire[c]) = m /\ Len(obuf[c]) = n
        /\ Len(Lined(c)) = a + b + m + n
  BY LengthsOf
<1>3. a # 0
  BY <1>1, <1>2, BuffersOf, NoElements, Zenon
<1>s. a + b + m + n = 1
  BY <1>1, <1>2, Zenon
<1>4. a = 1 /\ b = 0 /\ m = 0 /\ n = 0
  BY <1>3, <1>s
<1>5. QED  BY <1>2, <1>4, BuffersOf, NoElements, Zenon

(* When no method runs, nothing is queued.  When the one command awaited is *)
(* on the wire, nothing is answered.                                        *)
LEMMA NothingQueued ==
    ASSUME Typed, InOrder, NEW c \in Clients, ~err[c], at[c] = "idle"
    PROVE  wire[c] = <<>> /\ obuf[c] = <<>>
<1>1. Len(Lined(c)) = 0
  BY AwaitedValues DEF InOrder
<1>2. PICK a \in Nat, b \in Nat, m \in Nat, n \in Nat :
        /\ Len(rdr[c]) = a /\ Len(sock[c]) = b /\ Len(wire[c]) = m /\ Len(obuf[c]) = n
        /\ Len(Lined(c)) = a + b + m + n
  BY LengthsOf
<1>3. m = 0 /\ n = 0
  BY <1>1, <1>2
<1>4. QED  BY <1>2, <1>3, BuffersOf, NoElements, Zenon

LEMMA NothingAnswered ==
    ASSUME Typed, InOrder, NEW c \in Clients, ~err[c], at[c] \in Lasts, wire[c] # <<>>
    PROVE  rdr[c] = <<>> /\ sock[c] = <<>> /\ obuf[c] = <<>> /\ Len(wire[c]) = 1
<1>1. Len(Lined(c)) = 1
  BY OneAwaited DEF InOrder
<1>2. PICK a \in Nat, b \in Nat, m \in Nat, n \in Nat :
        /\ Len(rdr[c]) = a /\ Len(sock[c]) = b /\ Len(wire[c]) = m /\ Len(obuf[c]) = n
        /\ Len(Lined(c)) = a + b + m + n
  BY LengthsOf
<1>3. m # 0
  BY <1>2, BuffersOf, NoElements, Zenon
<1>s. a + b + m + n = 1
  BY <1>1, <1>2, Zenon
<1>4. a = 0 /\ b = 0 /\ m = 1 /\ n = 0
  BY <1>3, <1>s
<1>5. QED  BY <1>2, <1>4, BuffersOf, NoElements, Zenon

LEMMA OneSelects ==
    ASSUME Selects, NEW c \in Clients,
           \A b \in Clients \ {c} :
               /\ rdr'[b] = rdr[b] /\ sock'[b] = sock[b] /\ wire'[b] = wire[b]
               /\ obuf'[b] = obuf[b] /\ err'[b] = err[b] /\ at'[b] = at[b] /\ sel'[b] = sel[b],
           Writes(c)' /\ Chooses(c)'
    PROVE  Selects'
<1>1. ASSUME NEW b \in Clients PROVE Writes(b)' /\ Chooses(b)'
  <2>1. CASE b = c
    BY <2>1
  <2>2. CASE b # c
    <3>1. /\ Queue(b)' = Queue(b) /\ Answered(b)' = Answered(b) /\ sel'[b] = sel[b]
          /\ err'[b] = err[b] /\ at'[b] = at[b]
      BY <2>2 DEF Queue, Answered
    <3>2. Writes(b) /\ Chooses(b)
      BY DEF Selects
    <3>3. Writes(b)'
      BY <3>1, <3>2 DEF Writes, Plain, Lone
    <3>4. Chooses(b)'
      BY <3>1, <3>2 DEF Chooses, Chosen
    <3>5. QED  BY <3>3, <3>4
  <2>3. QED  BY <2>1, <2>2
<1>2. QED  BY <1>1 DEF Selects

(* A reply is received and nothing is appended. *)
LEMMA TakeSelects ==
    ASSUME Typed, Selects, NEW c \in Clients, HasReply(c), TakeReply(c, <<>>), NEW to \in Labels,
           at' = [at EXCEPT ![c] = to], to \notin {"put_select", "put_exists", "put_select1"},
           sel' = sel
    PROVE  Selects'
<1>1. obuf[c] \o <<>> = obuf[c]
  BY BuffersOf, ConcatEmptySeq
<1>2. /\ Queue(c)' = Queue(c) /\ sel'[c] = sel[c] /\ at'[c] = to
  BY <1>1 DEF TakeReply, AppendCommands, Queue, Typed, ChannelTyped, CallTyped
<1>3. Writes(c)
  BY DEF Selects
<1>4. Writes(c)'
  BY <1>2, <1>3 DEF Writes, Plain, Lone
<1>5. Chooses(c)'
  BY <1>2 DEF Chooses
<1>6. \A b \in Clients \ {c} :
          /\ rdr'[b] = rdr[b] /\ sock'[b] = sock[b] /\ wire'[b] = wire[b]
          /\ obuf'[b] = obuf[b] /\ err'[b] = err[b] /\ at'[b] = at[b] /\ sel'[b] = sel[b]
  BY DEF TakeReply, AppendCommands, Typed, ChannelTyped, CallTyped
<1>7. QED  BY <1>4, <1>5, <1>6, OneSelects

(* What is appended is all that is queued. *)
LEMMA QueueIs ==
    ASSUME NEW cmds \in Seq(Command)
    PROVE  <<>> \o (<<>> \o cmds) = cmds
BY ConcatEmptySeq

Suits(c, to, cmds) ==
    /\ Plain(cmds) \/ Lone(cmds, sel[c])
    /\ to = "put_select" => cmds = <<Select(0)>>
    /\ to = "put_exists" => sel[c] = 0
    /\ to = "put_select1" => cmds = <<Select(1)>>

LEMMA AppendSelects ==
    ASSUME Typed, Selects, NEW c \in Clients, NEW cmds \in Seq(Command), NEW to \in Labels,
           wire[c] = <<>>, obuf[c] = <<>>, wire' = wire, AppendCommands(c, cmds),
           at' = [at EXCEPT ![c] = to], sel' = sel, sock' = sock, err' = err,
           \A b \in Clients \ {c} : rdr'[b] = rdr[b], Suits(c, to, cmds)
    PROVE  Selects'
<1>1. Queue(c)' = cmds /\ sel'[c] = sel[c] /\ at'[c] = to
  BY QueueIs DEF AppendCommands, Queue, Typed, ChannelTyped, CallTyped
<1>2. Writes(c)'
  BY <1>1 DEF Suits, Writes, Plain, Lone
<1>3. Chooses(c)'
  BY <1>1 DEF Suits, Chooses, Chosen
<1>4. \A b \in Clients \ {c} :
          /\ rdr'[b] = rdr[b] /\ sock'[b] = sock[b] /\ wire'[b] = wire[b]
          /\ obuf'[b] = obuf[b] /\ err'[b] = err[b] /\ at'[b] = at[b] /\ sel'[b] = sel[b]
  BY DEF AppendCommands, Typed, ChannelTyped, CallTyped
<1>5. QED  BY <1>2, <1>3, <1>4, OneSelects

LEMMA GotoSelects ==
    ASSUME Typed, InOrder, Selects, NEW c \in Clients, NEW here \in Lasts, Received(c, here),
           NEW cmds \in Seq(Command), NEW to \in Labels, Goto(c, to, cmds), Suits(c, to, cmds)
    PROVE  Selects'
<1>1. wire[c] = <<>> /\ obuf[c] = <<>>
  BY NothingElse DEF Received
<1>2. /\ wire' = wire /\ AppendCommands(c, cmds) /\ at' = [at EXCEPT ![c] = to] /\ sel' = sel
      /\ sock' = sock /\ err' = err
  BY DEF Goto, TakeReply, Received, server
<1>3. \A b \in Clients \ {c} : rdr'[b] = rdr[b]
  BY DEF Goto, TakeReply, Typed, ChannelTyped
<1>4. QED  BY <1>1, <1>2, <1>3, AppendSelects

LEMMA BeginSelects ==
    ASSUME Typed, InOrder, Selects, NEW c \in Clients, NEW op, NEW a, NEW to \in Labels,
           NEW cmds \in Seq(Command), Begin(c, op, a, to, cmds), Suits(c, to, cmds)
    PROVE  Selects'
<1>1. wire[c] = <<>> /\ obuf[c] = <<>>
  BY NothingQueued DEF Begin
<1>2. /\ wire' = wire /\ AppendCommands(c, cmds) /\ at' = [at EXCEPT ![c] = to] /\ sel' = sel
      /\ sock' = sock /\ err' = err /\ rdr' = rdr
  BY DEF Begin, server
<1>3. QED  BY <1>1, <1>2, AppendSelects

LEMMA TransferSelects ==
    ASSUME Typed, Selects, NEW c \in Clients, Transfer(c)
    PROVE  Selects'
<1>1. at' = at /\ sel' = sel /\ rdr[c] = <<>> /\ err' = err
  BY DEF Transfer, BufferWrite, BufferRead, Waiting, call, server
<1>2. Queue(c)' = Queue(c) /\ Answered(c)' = Answered(c)
  <2>1. CASE BufferWrite(c)
    <3>1. wire[c] \o obuf[c] \in Seq(Command)
      BY BuffersOf, ConcatProperties
    <3>2. (wire[c] \o obuf[c]) \o <<>> = wire[c] \o obuf[c]
      BY <3>1, ConcatEmptySeq
    <3>3. /\ wire'[c] = wire[c] \o obuf[c] /\ obuf'[c] = <<>> /\ rdr' = rdr /\ sock' = sock
      BY <2>1 DEF BufferWrite, Typed, ChannelTyped
    <3>4. QED  BY <3>2, <3>3 DEF Queue, Answered
  <2>2. CASE BufferRead(c)
    <3>1. PICK n \in 1 .. Len(sock[c]) :
            /\ rdr' = [rdr EXCEPT ![c] = SubSeq(sock[c], 1, n)]
            /\ sock' = [sock EXCEPT ![c] = SubSeq(@, n + 1, Len(@))]
      BY <2>2 DEF BufferRead
    <3>2. /\ rdr'[c] = SubSeq(sock[c], 1, n) /\ sock'[c] = SubSeq(sock[c], n + 1, Len(sock[c]))
          /\ wire' = wire /\ obuf' = obuf
      BY <2>2, <3>1 DEF BufferRead, Typed, ChannelTyped
    <3>3. SubSeq(sock[c], 1, n) \o SubSeq(sock[c], n + 1, Len(sock[c])) = sock[c]
      BY BuffersOf, SplitSeq
    <3>4. <<>> \o sock[c] = sock[c]
      BY BuffersOf, ConcatEmptySeq
    <3>5. QED  BY <1>1, <3>2, <3>3, <3>4 DEF Queue, Answered
  <2>3. QED  BY <2>1, <2>2 DEF Transfer
<1>3. Writes(c) /\ Chooses(c)
  BY DEF Selects
<1>4. Writes(c)'
  BY <1>1, <1>2, <1>3 DEF Writes, Plain, Lone
<1>5. Chooses(c)'
  BY <1>1, <1>2, <1>3 DEF Chooses, Chosen
<1>6. \A b \in Clients \ {c} :
          /\ rdr'[b] = rdr[b] /\ sock'[b] = sock[b] /\ wire'[b] = wire[b]
          /\ obuf'[b] = obuf[b] /\ err'[b] = err[b] /\ at'[b] = at[b] /\ sel'[b] = sel[b]
  BY <1>1 DEF Transfer, BufferWrite, BufferRead, Typed, ChannelTyped
<1>7. QED  BY <1>4, <1>5, <1>6, OneSelects

LEMMA HeadOfWire ==
    ASSUME NEW w \in Seq(Command), NEW o \in Seq(Command), w # <<>>
    PROVE  Head(Names(<<>>, <<>>, w, o)) = Head(w).name
<1> DEFINE u == w \o o
           y == Map(Name, u)
<1>1. u \in Seq(Command) /\ Head(u) = Head(w) /\ u # <<>>
  BY TailConcat, ConcatProperties
<1> HIDE DEF u
<1>2. y \in Seq(CommandNames) /\ Head(y) = Head(u).name
  BY <1>1, NameMaps
<1>3. Map(To, <<>> \o <<>>) = <<>>
  BY DEF Map
<1> HIDE DEF y
<1>4. <<>> \o y = y
  BY <1>2, ConcatEmptySeq
<1>5. QED  BY <1>1, <1>2, <1>3, <1>4 DEF Names, y, u

(* The server executes or refuses the one command queued. *)
LEMMA ServedChoice ==
    ASSUME Typed, InOrder, NEW c \in Clients, Served(c) \/ Refused(c), ~err[c],
           at[c] \in Lasts, NEW d \in {0, 1}, Chosen(c, d)
    PROVE  Chosen(c, d)'
<1> DEFINE m == Head(wire[c])
<1>1. wire[c] # <<>>
  BY DEF Served, Refused, Perform, Refuse
<1>2. rdr[c] = <<>> /\ sock[c] = <<>> /\ obuf[c] = <<>> /\ wire[c] \in Seq(Command)
  BY <1>1, NothingAnswered, BuffersOf
<1>3. Queue(c) = wire[c]
  BY <1>2, ConcatEmptySeq DEF Queue
<1>4. wire[c] = <<Select(d)>>
  BY <1>1, <1>3 DEF Chosen
<1>5. m = Select(d) /\ m.name = "SELECT" /\ m.db = d /\ m \in Command
  BY <1>4, CommandTypes DEF Select
<1>6. PICK q \in Replies : /\ Serve(c, q)
                           /\ \/ Execute(c, m)
                              \/ q.type = "error" /\ sel' = sel
  <2>1. CASE Served(c)
    BY <1>5, <2>1, ReplyTypes DEF Served, Perform, Typed
  <2>2. CASE Refused(c)
    BY <1>5, <2>2, ReplyTypes, ReplyFields
       DEF Refused, Refuse, MayRefuse, Fault, Typed
  <2>3. QED  BY <2>1, <2>2
<1>7. wire'[c] = <<>> /\ obuf'[c] = <<>> /\ rdr'[c] = <<>> /\ sock'[c] = <<q>>
  <2>1. Tail(<<Select(d)>>) = <<>> /\ Append(<<>>, q) = <<q>>
    OBVIOUS
  <2>2. QED  BY <1>2, <1>4, <1>6, <2>1 DEF Serve, Typed, ChannelTyped
<1>8. Queue(c)' = <<>> /\ Answered(c)' = <<q>>
  <2>1. <<>> \o <<>> = <<>> /\ <<>> \o <<q>> = <<q>>
    OBVIOUS
  <2>2. QED  BY <1>7, <2>1 DEF Queue, Answered
<1>9. CASE Execute(c, m)
  <2>1. sel'[c] = d
    BY <1>5, <1>9 DEF Execute, Typed, ServerTyped
  <2>2. QED  BY <1>8, <2>1 DEF Chosen
<1>10. CASE q.type = "error"
  <2>1. \A n \in 1 .. Len(<<q>>) : <<q>>[n].type = "error"
    BY <1>10
  <2>2. QED  BY <1>8, <2>1 DEF Chosen
<1>11. QED  BY <1>6, <1>9, <1>10

LEMMA TailSuits ==
    ASSUME NEW u \in Seq(Command), u # <<>>, NEW d, Plain(u) \/ Lone(u, d)
    PROVE  Plain(Tail(u))
<1>1. CASE Plain(u)
  BY <1>1, HeadTailProperties DEF Plain
<1>2. CASE Lone(u, d)
  <2>1. PICK m \in Command : u = <<m>>
    BY <1>2 DEF Lone
  <2>2. Tail(u) = <<>>
    BY <2>1
  <2>3. Plain(<<>>)
    BY DEF Plain
  <2>4. QED  BY <2>2, <2>3
<1>3. QED  BY <1>1, <1>2

LEMMA ServedSelects ==
    ASSUME Typed, InOrder, Selects, NEW c \in Clients, Served(c) \/ Refused(c)
    PROVE  Selects'
<1> DEFINE m == Head(wire[c])
<1>1. wire[c] # <<>> /\ wire[c] \in Seq(Command) /\ obuf[c] \in Seq(Command) /\ at' = at
  BY BuffersOf DEF Served, Refused, Perform, Refuse, call
<1>2. ASSUME NEW q, Serve(c, q)
      PROVE  wire'[c] = Tail(wire[c]) /\ obuf' = obuf /\ err' = err
  <2>1. wire' = [wire EXCEPT ![c] = Tail(@)] /\ obuf' = obuf /\ err' = err
    BY <1>2, SMTT(30) DEF Serve
  <2>2. QED  BY <2>1, SMTT(30) DEF Typed, ChannelTyped
<1>3. wire'[c] = Tail(wire[c]) /\ obuf' = obuf /\ err' = err
  BY <1>2 DEF Served, Refused, Perform, Refuse
<1>4. Queue(c)' = Tail(Queue(c)) /\ Queue(c) # <<>> /\ Queue(c) \in Seq(Command)
  BY <1>1, <1>3, TailConcat, ConcatProperties, ZenonT(60) DEF Queue
<1>5. Writes(c) /\ Chooses(c)
  BY DEF Selects
<1>6. Writes(c)'
  <2>1. Plain(Tail(Queue(c)))
    BY <1>4, <1>5, TailSuits DEF Writes
  <2>2. QED  BY <1>4, <2>1 DEF Writes, Plain
<1>7. {"put_select", "put_exists", "put_select1"} \subseteq Lasts
  BY DEF Lasts
<1>8. ASSUME ~err[c], at[c] = "put_exists" PROVE sel'[c] = sel[c]
  <2>1. rdr[c] = <<>> /\ sock[c] = <<>> /\ Lined(c) = <<"EXISTS">>
    BY <1>1, <1>7, <1>8, NothingAnswered, AwaitedValues DEF InOrder
  <2>2. m.name = "EXISTS"
    BY <1>1, <2>1, HeadOfWire DEF Lined
  <2>3. QED  BY <2>2 DEF Served, Refused, Perform, Refuse, Execute, Fault
<1>9. Chooses(c)'
  <2>1. SUFFICES ASSUME ~err[c]
                 PROVE  /\ at[c] = "put_select" => Chosen(c, 0)'
                        /\ at[c] = "put_exists" => sel'[c] = 0
                        /\ at[c] = "put_select1" => Chosen(c, 1)'
    BY <1>1, <1>3 DEF Chooses
  <2>2. QED  BY <1>5, <1>7, <1>8, <2>1, ServedChoice DEF Chooses
<1>10. \A b \in Clients \ {c} :
          /\ rdr'[b] = rdr[b] /\ sock'[b] = sock[b] /\ wire'[b] = wire[b]
          /\ obuf'[b] = obuf[b] /\ err'[b] = err[b] /\ at'[b] = at[b] /\ sel'[b] = sel[b]
  <2>1. \A q : Serve(c, q) => \A b \in Clients \ {c} :
          /\ rdr'[b] = rdr[b] /\ sock'[b] = sock[b] /\ wire'[b] = wire[b]
          /\ obuf'[b] = obuf[b] /\ err'[b] = err[b]
    BY DEF Serve, Typed, ChannelTyped
  <2>2. \A b \in Clients \ {c} : sel'[b] = sel[b]
    BY DEF Served, Refused, Perform, Refuse, Execute, Fault, Typed, ServerTyped
  <2>3. QED  BY <1>1, <2>1, <2>2 DEF Served, Refused, Perform, Refuse
<1>11. QED  BY <1>6, <1>9, <1>10, OneSelects

LEMMA PrefixOf ==
    ASSUME NEW w \in Seq(Command), NEW o \in Seq(Command), NEW n \in 0 .. Len(w)
    PROVE  /\ SubSeq(w, 1, n) \o <<>> \in Seq(Command)
           /\ Len(SubSeq(w, 1, n) \o <<>>) = n /\ n \in Nat /\ n <= Len(w \o o)
           /\ \A k \in 1 .. n : (SubSeq(w, 1, n) \o <<>>)[k] = (w \o o)[k]
<1> DEFINE v == SubSeq(w, 1, n)
<1>1. v \in Seq(Command) /\ Len(v) = n /\ \A k \in 1 .. n : v[k] = w[k]
  OBVIOUS
<1>2. v \o <<>> = v
  BY <1>1, ConcatEmptySeq
<1>3. /\ Len(w \o o) = Len(w) + Len(o) /\ Len(w) \in Nat /\ Len(o) \in Nat
      /\ \A k \in 1 .. Len(w) + Len(o) : (w \o o)[k] = IF k <= Len(w) THEN w[k] ELSE o[k - Len(w)]
  BY ConcatProperties, LenProperties
<1> HIDE DEF v
<1>4. ASSUME NEW k \in 1 .. n PROVE v[k] = (w \o o)[k]
  BY <1>1, <1>3
<1>5. n \in Nat /\ n <= Len(w \o o)
  BY <1>3
<1>6. QED  BY <1>1, <1>2, <1>4, <1>5 DEF v

LEMMA LoseSelects ==
    ASSUME Typed, Selects, NEW c \in Clients, LoseConnection(c) \/ ReadPastEnd(c)
    PROVE  Selects'
<1>1. Drop(c) /\ sel' = sel
  BY DEF LoseConnection, Lose, Fault, ReadPastEnd, Received, server
<1>2. \A b \in Clients \ {c} : at'[b] = at[b]
  BY DEF LoseConnection, ReadPastEnd, Finish, Typed, CallTyped
<1>3. PICK n \in 0 .. Len(wire[c]) : wire' = [wire EXCEPT ![c] = SubSeq(@, 1, n)]
  BY <1>1 DEF Drop
<1> DEFINE v == SubSeq(wire[c], 1, n) \o <<>>
           u == wire[c] \o obuf[c]
<1>4. Queue(c)' = v /\ err'[c] /\ sel' = sel
  BY <1>1, <1>3 DEF Drop, Queue, Typed, ChannelTyped
<1>5. /\ v \in Seq(Command) /\ Len(v) = n /\ n \in Nat /\ n <= Len(u)
      /\ \A k \in 1 .. n : v[k] = u[k]
  BY BuffersOf, PrefixOf
<1>6. Plain(u) \/ Lone(u, sel[c])
  BY DEF Selects, Writes, Queue
<1>u. u \in Seq(Command)
  BY BuffersOf, ConcatProperties
<1> HIDE DEF v, u
<1>7. Plain(v) \/ Lone(v, sel[c])
  <2>1. CASE Plain(u)
    <3>1. Len(u) \in Nat
      BY <1>u, LenProperties
    <3>2. QED  BY <1>5, <2>1, <3>1 DEF Plain
  <2>2. CASE Lone(u, sel[c])
    <3>1. PICK x \in Command : /\ u = <<x>>
                               /\ x.name = "HMSET" => sel[c] = 0
                               /\ x.name = "LPUSH" => sel[c] = 1
      BY <2>2 DEF Lone
    <3>2. Len(u) = 1 /\ u[1] = x
      BY <3>1
    <3>3. n = 0 \/ n = 1
      BY <1>5, <3>2
    <3>4. CASE n = 0
      BY <1>5, <3>4 DEF Plain
    <3>5. CASE n = 1
      <4>1. Len(v) = 1 /\ v[1] = x
        BY <1>5, <3>2, <3>5
      <4>2. v = <<x>>
        BY <1>5, <4>1
      <4>3. QED  BY <3>1, <4>2 DEF Lone
    <3>6. QED  BY <3>3, <3>4, <3>5
  <2>3. QED  BY <1>6, <2>1, <2>2
<1>8. Writes(c)' /\ Chooses(c)'
  BY <1>4, <1>7 DEF Writes, Plain, Lone, Chooses
<1>9. \A b \in Clients \ {c} :
          /\ rdr'[b] = rdr[b] /\ sock'[b] = sock[b] /\ wire'[b] = wire[b]
          /\ obuf'[b] = obuf[b] /\ err'[b] = err[b] /\ at'[b] = at[b] /\ sel'[b] = sel[b]
  BY <1>1, <1>2, <1>3 DEF Drop, Typed, ChannelTyped
<1>10. QED  BY <1>8, <1>9, OneSelects

LEMMA PlainOne ==
    ASSUME NEW m \in Command, m.name \notin {"HMSET", "LPUSH"}
    PROVE  <<m>> \in Seq(Command) /\ Plain(<<m>>)
BY DEF Plain

LEMMA PlainTwo ==
    ASSUME NEW m \in Command, m.name \notin {"HMSET", "LPUSH"},
           NEW n \in Command, n.name \notin {"HMSET", "LPUSH"}
    PROVE  <<m, n>> \in Seq(Command) /\ Plain(<<m, n>>)
BY DEF Plain

LEMMA PlainThree ==
    ASSUME NEW m \in Command, m.name \notin {"HMSET", "LPUSH"},
           NEW n \in Command, n.name \notin {"HMSET", "LPUSH"},
           NEW p \in Command, p.name \notin {"HMSET", "LPUSH"}
    PROVE  <<m, n, p>> \in Seq(Command) /\ Plain(<<m, n, p>>)
BY DEF Plain

LEMMA CallSelects ==
    ASSUME Typed, InOrder, Selects, NEW c \in Clients, Call(c)
    PROVE  Selects'
<1>1. ASSUME NEW to \in Labels \ {"put_select", "put_exists", "put_select1"},
             NEW cmds \in Seq(Command), Plain(cmds), \E op, a : Begin(c, op, a, to, cmds)
      PROVE  Selects'
  <2>1. Suits(c, to, cmds)
    BY <1>1 DEF Suits
  <2>2. QED  BY <1>1, <2>1, BeginSelects
<1>2. Select(0) \in Command /\ Select(1) \in Command
      /\ Select(0).name = "SELECT" /\ Select(1).name = "SELECT"
  BY CommandNamed
<1>3. {"get_select", "look_select", "id_select", "count_select", "countid_select", "keys_select"}
        \subseteq Labels \ {"put_select", "put_exists", "put_select1"}
  BY DEF Labels
<1>4. CASE CallPut(c)
  <2>1. \E op, a : Begin(c, op, a, "put_select", <<Select(0)>>)
    BY <1>4 DEF CallPut
  <2>2. <<Select(0)>> \in Seq(Command) /\ Plain(<<Select(0)>>)
    BY <1>2, PlainOne
  <2>3. Suits(c, "put_select", <<Select(0)>>) /\ "put_select" \in Labels
    BY <2>2 DEF Suits, Labels
  <2>4. QED  BY <2>1, <2>2, <2>3, BeginSelects
<1>5. CASE CallGet(c) \/ CallDeleteHash(c)
  <2>1. PICK to \in {"get_select", "look_select"} : \E op, a : Begin(c, op, a, to, <<Select(0)>>)
    BY <1>5 DEF CallGet, CallDeleteHash
  <2>2. <<Select(0)>> \in Seq(Command) /\ Plain(<<Select(0)>>)
    BY <1>2, PlainOne
  <2>3. QED  BY <1>1, <1>3, <2>1, <2>2
<1>6. CASE CallDeleteId(c)
  <2>1. PICK i \in Ids : \E op, a :
          Begin(c, op, a, "id_select", <<Select(1), Lrange(i), Select(0)>>)
    BY <1>6 DEF CallDeleteId
  <2>2. Lrange(i) \in Command /\ Lrange(i).name = "LRANGE"
    BY CommandNamed
  <2>3. /\ <<Select(1), Lrange(i), Select(0)>> \in Seq(Command)
        /\ Plain(<<Select(1), Lrange(i), Select(0)>>)
    BY <1>2, <2>2, PlainThree
  <2>4. QED  BY <1>1, <1>3, <2>1, <2>3
<1>7. CASE CallCount(c)
  <2>1. \E op, a : Begin(c, op, a, "count_select", <<Select(0), Dbsize>>)
    BY <1>7 DEF CallCount
  <2>2. Dbsize \in Command /\ Dbsize.name = "DBSIZE"
    BY CommandNamed
  <2>3. <<Select(0), Dbsize>> \in Seq(Command) /\ Plain(<<Select(0), Dbsize>>)
    BY <1>2, <2>2, PlainTwo
  <2>4. QED  BY <1>1, <1>3, <2>1, <2>3
<1>8. CASE CallCountId(c)
  <2>1. PICK i \in Ids : \E op, a : Begin(c, op, a, "countid_select", <<Select(1), Llen(i)>>)
    BY <1>8 DEF CallCountId
  <2>2. Llen(i) \in Command /\ Llen(i).name = "LLEN"
    BY CommandNamed
  <2>3. <<Select(1), Llen(i)>> \in Seq(Command) /\ Plain(<<Select(1), Llen(i)>>)
    BY <1>2, <2>2, PlainTwo
  <2>4. QED  BY <1>1, <1>3, <2>1, <2>3
<1>9. CASE CallEntries(c)
  <2>1. \E op, a : Begin(c, op, a, "keys_select", <<Select(1), AllKeys>>)
    BY <1>9 DEF CallEntries
  <2>2. AllKeys \in Command /\ AllKeys.name = "KEYS"
    BY CommandNamed
  <2>3. <<Select(1), AllKeys>> \in Seq(Command) /\ Plain(<<Select(1), AllKeys>>)
    BY <1>2, <2>2, PlainTwo
  <2>4. QED  BY <1>1, <1>3, <2>1, <2>3
<1>10. QED  BY <1>4, <1>5, <1>6, <1>7, <1>8, <1>9 DEF Call

(* The reply to SELECT d has been received and is not an error. *)
LEMMA HasSelected ==
    ASSUME Typed, InOrder, NEW c \in Clients, NEW here \in Lasts, Received(c, here),
           NEW d \in {0, 1}, Chosen(c, d)
    PROVE  sel[c] = d
<1>1. /\ wire[c] = <<>> /\ obuf[c] = <<>> /\ sock[c] = <<>> /\ Len(rdr[c]) = 1
      /\ rdr[c] \in Seq(Replies)
  BY NothingElse, BuffersOf DEF Received
<1>2. <<>> \o <<>> = <<>> /\ rdr[c] \o <<>> = rdr[c]
  BY <1>1, ConcatEmptySeq
<1>3. Queue(c) = <<>> /\ Answered(c) = rdr[c]
  BY <1>1, <1>2 DEF Queue, Answered
<1>4. Head(rdr[c]) = rdr[c][1] /\ rdr[c][1].type # "error"
  BY <1>1 DEF Received, Reply
<1>5. ~ \A n \in 1 .. Len(Answered(c)) : Answered(c)[n].type = "error"
  BY <1>1, <1>3, <1>4
<1>6. Queue(c) # <<Select(d)>>
  BY <1>3
<1>7. QED  BY <1>5, <1>6 DEF Chosen

LEMMA PutSelects ==
    ASSUME Typed, InOrder, Selects, NEW c \in Clients,
           PutSelected(c) \/ PutKeeps(c) \/ PutProceeds(c) \/ PutStored(c)
             \/ PutListing(c) \/ PutListed(c)
    PROVE  Selects'
<1> DEFINE h == arg[c].hash
           e == arg[c].entry
           hmset == Hmset(h, e, arg[c].overwrite)
           lpush == Lpush(e.id, h)
<1>1. at[c] \in Putting => h \in Hashes /\ e \in Entry /\ e.id \in Ids
  BY FitsAtOnce DEF FitsLabel, OnHash, Entry
<1>2. at[c] \in Putting => /\ hmset \in Command /\ hmset.name = "HMSET"
                           /\ Exists(h) \in Command /\ Exists(h).name = "EXISTS"
                           /\ lpush \in Command /\ lpush.name = "LPUSH"
  BY <1>1, FitsAtOnce, CommandNamed
<1>3. Putting \subseteq Lasts /\ Putting \subseteq Labels
  BY LabelTypes DEF Putting, Lasts
<1>4. Chooses(c)
  BY DEF Selects
<1> HIDE DEF hmset, lpush
<1>5. CASE PutKeeps(c) \/ PutListed(c)
  <2>1. /\ HasReply(c) /\ TakeReply(c, <<>>) /\ at' = [at EXCEPT ![c] = "idle"] /\ sel' = sel
    BY <1>5 DEF PutKeeps, PutListed, Received, Return, Finish, server
  <2>2. "idle" \in Labels
    BY DEF Labels
  <2>3. QED  BY <2>1, <2>2, TakeSelects
<1>6. ASSUME NEW here \in Putting, Received(c, here), Goto(c, "put_hmset", <<hmset>>),
             sel[c] = 0
      PROVE  Selects'
  <2>1. at[c] = here /\ here \in Lasts /\ "put_hmset" \in Labels
    BY <1>3, <1>6 DEF Received, Putting
  <2>2. <<hmset>> \in Seq(Command) /\ Lone(<<hmset>>, sel[c])
    BY <1>2, <1>6, <2>1 DEF Lone
  <2>3. Suits(c, "put_hmset", <<hmset>>)
    BY <2>2 DEF Suits
  <2>4. QED  BY <1>6, <2>1, <2>2, <2>3, GotoSelects
<1>7. CASE PutSelected(c)
  <2>1. Received(c, "put_select") /\ "put_select" \in Putting /\ at[c] = "put_select" /\ ~err[c]
    BY <1>7 DEF PutSelected, Received, HasReply, Putting
  <2>2. sel[c] = 0
    BY <1>3, <1>4, <2>1, HasSelected DEF Chooses
  <2>3. CASE arg[c].overwrite
    BY <1>6, <1>7, <2>1, <2>2, <2>3 DEF PutSelected, StoreFrame, hmset
  <2>4. CASE ~arg[c].overwrite
    <3>1. Goto(c, "put_exists", <<Exists(h)>>)
      BY <1>7, <2>4 DEF PutSelected
    <3>2. "put_exists" \in Labels /\ "put_select" \in Lasts
      BY <1>3 DEF Putting
    <3>3. <<Exists(h)>> \in Seq(Command) /\ Plain(<<Exists(h)>>)
      BY <1>2, <2>1, PlainOne
    <3>4. Suits(c, "put_exists", <<Exists(h)>>)
      BY <2>2, <3>3 DEF Suits
    <3>5. QED  BY <2>1, <3>1, <3>2, <3>3, <3>4, GotoSelects
  <2>5. QED  BY <2>3, <2>4
<1>8. CASE PutProceeds(c)
  <2>1. Received(c, "put_exists") /\ "put_exists" \in Putting /\ at[c] = "put_exists" /\ ~err[c]
    BY <1>8 DEF PutProceeds, Received, HasReply, Putting
  <2>2. sel[c] = 0
    BY <1>4, <2>1 DEF Chooses
  <2>3. QED  BY <1>6, <1>8, <2>1, <2>2 DEF PutProceeds, StoreFrame, hmset
<1>9. CASE PutStored(c)
  <2>1. "put_hmset" \in Lasts /\ "put_select1" \in Labels
    BY <1>3 DEF Putting
  <2>2. Select(1) \in Command /\ Select(1).name = "SELECT"
    BY CommandNamed
  <2>3. <<Select(1)>> \in Seq(Command) /\ Plain(<<Select(1)>>)
    BY <2>2, PlainOne
  <2>4. Suits(c, "put_select1", <<Select(1)>>)
    BY <2>3 DEF Suits
  <2>5. QED  BY <1>9, <2>1, <2>3, <2>4, GotoSelects DEF PutStored
<1>10. CASE PutListing(c)
  <2>1. /\ Received(c, "put_select1") /\ "put_select1" \in Lasts /\ "put_lpush" \in Labels
        /\ at[c] = "put_select1" /\ at[c] \in Putting /\ ~err[c]
    BY <1>3, <1>10 DEF Putting, PutListing, Received, HasReply
  <2>2. sel[c] = 1
    BY <1>4, <2>1, HasSelected DEF Chooses
  <2>3. <<lpush>> \in Seq(Command) /\ Lone(<<lpush>>, sel[c])
    BY <1>2, <2>1, <2>2 DEF Lone
  <2>4. Suits(c, "put_lpush", <<lpush>>)
    BY <2>3 DEF Suits
  <2>5. Goto(c, "put_lpush", <<lpush>>)
    BY <1>10 DEF PutListing, lpush
  <2>6. QED  BY <2>1, <2>3, <2>4, <2>5, GotoSelects
<1>11. QED  BY <1>5, <1>7, <1>8, <1>9, <1>10

Choosing == {"put_select", "put_exists", "put_select1"}

LEMMA EndSelects ==
    ASSUME Typed, Selects, NEW c \in Clients, HasReply(c), TakeReply(c, <<>>), Finish(c),
           sel' = sel
    PROVE  Selects'
<1>1. "idle" \in Labels \ Choosing /\ at' = [at EXCEPT ![c] = "idle"]
  BY DEF Labels, Choosing, Finish
<1>2. QED  BY <1>1, TakeSelects DEF Choosing

LEMMA WaitSelects ==
    ASSUME Typed, Selects, NEW c \in Clients, NEW here, Received(c, here),
           NEW to \in Labels \ Choosing, Goto(c, to, <<>>)
    PROVE  Selects'
BY TakeSelects DEF Received, Goto, server, Choosing

LEMMA SendSelects ==
    ASSUME Typed, InOrder, Selects, NEW c \in Clients, NEW here \in Lasts, Received(c, here),
           NEW to \in Labels \ Choosing, NEW cmds \in Seq(Command), Plain(cmds),
           Goto(c, to, cmds)
    PROVE  Selects'
<1>1. Suits(c, to, cmds)
  BY DEF Suits, Choosing
<1>2. QED  BY <1>1, GotoSelects

LEMMA LookSelects ==
    ASSUME Typed, InOrder, Selects, NEW c \in Clients,
           Selected(c) \/ GetDone(c) \/ FoundUnparsable(c) \/ QuerySelected(c)
             \/ CountDone(c) \/ CountIdDone(c) \/ EntriesDone(c)
    PROVE  Selects'
<1>1. {"count_size", "countid_len", "keys_all", "get_all", "look_all"} \subseteq Labels \ Choosing
  BY DEF Labels, Choosing
<1>2. CASE Selected(c)
  <2>1. PICK here \in {"get_select", "look_select"}, to \in {"get_all", "look_all"} :
          Received(c, here) /\ Goto(c, to, <<Hgetall(arg[c].hash)>>)
    BY <1>2 DEF Selected
  <2>2. arg[c].hash \in Hashes
    BY <2>1, FitsAtOnce DEF FitsLabel, OnHash, Received
  <2> DEFINE m == Hgetall(arg[c].hash)
  <2>3. m \in Command /\ m.name = "HGETALL"
    BY <2>2, CommandNamed
  <2> HIDE DEF m
  <2>4. <<m>> \in Seq(Command) /\ Plain(<<m>>)
    BY <2>3, PlainOne
  <2>5. here \in Lasts /\ to \in Labels \ Choosing /\ Goto(c, to, <<m>>)
    BY <1>1, <2>1 DEF Lasts, m
  <2>6. QED  BY <2>1, <2>4, <2>5, SendSelects
<1>3. CASE QuerySelected(c)
  <2>1. \/ Received(c, "count_select") /\ Goto(c, "count_size", <<>>)
        \/ Received(c, "countid_select") /\ Goto(c, "countid_len", <<>>)
        \/ Received(c, "keys_select") /\ Goto(c, "keys_all", <<>>)
    BY <1>3 DEF QuerySelected
  <2>2. QED  BY <1>1, <2>1, WaitSelects
<1>4. CASE GetDone(c) \/ CountDone(c) \/ CountIdDone(c) \/ EntriesDone(c)
  BY <1>4, EndSelects
     DEF GetDone, CountDone, CountIdDone, EntriesDone, Received, ReturnValue, server
<1>5. CASE FoundUnparsable(c)
  BY <1>5, EndSelects DEF FoundUnparsable, Received, Return, server
<1>6. QED  BY <1>2, <1>3, <1>4, <1>5

LEMMA DeleteSelects ==
    ASSUME Typed, InOrder, Selects, NEW c \in Clients,
           \/ DeleteAbsent(c) \/ DeleteFound(c) \/ DeleteSelected(c) \/ DeleteErased(c)
           \/ DeleteUnlisting(c) \/ DeleteUnlisted(c)
           \/ IdSelected(c) \/ IdRanged(c) \/ IdSkipped(c) \/ IdDeleteNext(c) \/ IdEmptied(c)
           \/ IdSelected1(c) \/ IdDeleted(c)
    PROVE  Selects'
<1>1. {"del_select", "del_del", "del_select1", "del_lrem", "id_lrange", "id_select0", "id_skip",
       "id_del", "id_select1", "id_delkey"} \subseteq Labels \ Choosing
  BY DEF Labels, Choosing
<1>2. {"look_all", "del_del", "id_select0", "id_del"} \subseteq Lasts
  BY DEF Lasts
<1>3. Select(0) \in Command /\ Select(1) \in Command
      /\ Select(0).name = "SELECT" /\ Select(1).name = "SELECT"
  BY CommandNamed
<1>4. CASE DeleteAbsent(c) \/ DeleteUnlisted(c) \/ IdSkipped(c) \/ IdDeleted(c)
  BY <1>4, EndSelects DEF DeleteAbsent, DeleteUnlisted, IdSkipped, IdDeleted, Received, Return,
                          server
<1>5. CASE DeleteSelected(c) \/ DeleteUnlisting(c) \/ IdSelected(c) \/ IdSelected1(c)
  BY <1>1, <1>5, WaitSelects DEF DeleteSelected, DeleteUnlisting, IdSelected, IdSelected1
<1>6. CASE IdRanged(c)
  <2>1. PICK to \in {"id_select0", "id_skip"} : Received(c, "id_lrange") /\ Goto(c, to, <<>>)
    BY <1>6 DEF IdRanged
  <2>2. QED  BY <1>1, <2>1, WaitSelects
<1>7. ASSUME NEW here \in {"look_all", "del_del", "id_select0", "id_del"}, Received(c, here),
             NEW to \in {"del_select", "del_select1", "id_select1"}, NEW d \in {0, 1},
             NEW m \in Command, m.name \in {"DEL", "LREM"}, Goto(c, to, <<Select(d), m>>)
      PROVE  Selects'
  <2>1. <<Select(d), m>> \in Seq(Command) /\ Plain(<<Select(d), m>>)
    BY <1>3, <1>7, PlainTwo
  <2>2. QED  BY <1>1, <1>2, <1>7, <2>1, SendSelects
<1>8. CASE DeleteFound(c)
  <2>1. arg[c].hash \in Hashes
    BY <1>8, FitsAtOnce DEF DeleteFound, FitsLabel, OnHash, Received
  <2>2. Del(arg[c].hash) \in Command /\ Del(arg[c].hash).name = "DEL"
    BY <2>1, CommandNamed DEF Keys
  <2>3. Received(c, "look_all") /\ Goto(c, "del_select", <<Select(0), Del(arg[c].hash)>>)
    BY <1>8 DEF DeleteFound
  <2>4. QED  BY <1>7, <2>2, <2>3
<1>9. CASE DeleteErased(c)
  <2>1. arg[c].hash \in Hashes /\ arg[c].entry \in Entry \cup {Blank}
    BY <1>9, FitsAtOnce DEF DeleteErased, Received, FitsLabel, OnHash, OnEntry
  <2>2. arg[c].entry.id \in Ids \cup {None}
    BY <2>1 DEF Entry, Blank
  <2> DEFINE lrem == Lrem(arg[c].entry.id, arg[c].hash)
  <2>3. lrem \in Command /\ lrem.name = "LREM"
    BY <2>1, <2>2, CommandNamed
  <2>4. Received(c, "del_del") /\ Goto(c, "del_select1", <<Select(1), lrem>>)
    BY <1>9 DEF DeleteErased
  <2> HIDE DEF lrem
  <2>5. QED  BY <1>7, <2>3, <2>4
<1>10. CASE IdDeleteNext(c)
  <2>1. PICK here \in {"id_select0", "id_del"} : Received(c, here)
    BY <1>10 DEF IdDeleteNext, Deleting
  <2>2. PICK k \in Keys : Goto(c, "id_del", <<Del(k)>>)
    BY <1>10 DEF IdDeleteNext
  <2>3. Del(k) \in Command /\ Del(k).name = "DEL"
    BY CommandNamed
  <2>4. <<Del(k)>> \in Seq(Command) /\ Plain(<<Del(k)>>)
    BY <2>3, PlainOne
  <2>5. QED  BY <1>1, <1>2, <2>1, <2>2, <2>4, SendSelects
<1>11. CASE IdEmptied(c)
  <2>1. PICK here \in {"id_select0", "id_del"} : Received(c, here)
    BY <1>11 DEF IdEmptied, Deleting
  <2>2. arg[c].id \in Keys
    BY <2>1, FitsAtOnce DEF FitsLabel, OnId, Received, Keys
  <2>3. Del(arg[c].id) \in Command /\ Del(arg[c].id).name = "DEL"
    BY <2>2, CommandNamed
  <2>4. Goto(c, "id_select1", <<Select(1), Del(arg[c].id)>>)
    BY <1>11 DEF IdEmptied
  <2>5. QED  BY <1>7, <2>1, <2>3, <2>4
<1>12. CASE IdSelected1(c)
  BY <1>1, <1>12, WaitSelects DEF IdSelected1
<1>13. QED  BY <1>4, <1>5, <1>6, <1>8, <1>9, <1>10, <1>11

LEMMA SelectsStep ==
    ASSUME Typed, InOrder, Selects, [Next]_vars
    PROVE  Selects'
<1>1. CASE Next
  <2>1. PICK c \in Clients :
          \/ Call(c) \/ Continue(c) \/ Transfer(c) \/ Served(c) \/ Refused(c)
          \/ LoseConnection(c) \/ ReadPastEnd(c)
    BY <1>1 DEF Next
  <2>2. CASE Throw(c)
    BY <2>2, EndSelects DEF Throw
  <2>3. CASE Continue(c)
    BY <2>2, <2>3, PutSelects, LookSelects, DeleteSelects DEF Continue
  <2>4. QED  BY <2>1, <2>3, CallSelects, TransferSelects, ServedSelects, LoseSelects
<1>2. CASE UNCHANGED vars
  <2>1. ASSUME NEW c \in Clients PROVE Writes(c)' /\ Chooses(c)'
    <3>1. /\ Queue(c)' = Queue(c) /\ Answered(c)' = Answered(c) /\ sel' = sel /\ err' = err
          /\ at' = at
      BY <1>2 DEF vars, Queue, Answered
    <3>2. Writes(c) /\ Chooses(c)
      BY DEF Selects
    <3>3. Writes(c)'
      BY <3>1, <3>2 DEF Writes, Plain, Lone
    <3>4. Chooses(c)'
      BY <3>1, <3>2 DEF Chooses, Chosen
    <3>5. QED  BY <3>3, <3>4
  <2>2. QED  BY <2>1 DEF Selects
<1>3. QED  BY <1>1, <1>2

LEMMA InitSelects == Init => Selects
<1> SUFFICES ASSUME Init, NEW c \in Clients PROVE Writes(c) /\ Chooses(c)
  BY DEF Selects
<1>1. <<>> \o <<>> = <<>>
  OBVIOUS
<1>2. Queue(c) = <<>> /\ at[c] = "idle"
  BY <1>1 DEF Init, ContextInit, Queue
<1>3. QED  BY <1>2 DEF Writes, Plain, Chooses

LEMMA SeparateStep ==
    ASSUME Typed, Selects, DatabasesSeparate, [Next]_vars
    PROVE  DatabasesSeparate'
<1>1. CASE \E c \in Clients : Served(c)
  <2>1. PICK c \in Clients : Served(c)
    BY <1>1
  <2> DEFINE m == Head(wire[c])
             u == wire[c] \o obuf[c]
  <2>2. wire[c] # <<>> /\ wire[c] \in Seq(Command) /\ obuf[c] \in Seq(Command) /\ m \in Command
    BY <2>1, BuffersOf DEF Served, Perform
  <2>3. u \in Seq(Command) /\ Head(u) = m /\ u # <<>>
    BY <2>2, TailConcat, ConcatProperties
  <2>4. Plain(u) \/ Lone(u, sel[c])
    BY DEF Selects, Writes, Queue
  <2>5. Execute(c, m)
    BY <2>1 DEF Served, Perform
  <2> HIDE DEF m, u
  <2>6. /\ m.name = "HMSET" => sel[c] = 0
        /\ m.name = "LPUSH" => sel[c] = 1
    <3>1. CASE Plain(u)
      <4>1. 1 \in 1 .. Len(u) /\ Head(u) = u[1]
        BY <2>3
      <4>2. QED  BY <2>3, <3>1, <4>1 DEF Plain
    <3>2. CASE Lone(u, sel[c])
      BY <2>3, <3>2 DEF Lone
    <3>3. QED  BY <2>4, <3>1, <3>2
  <2>7. /\ sel[c] \in {0, 1}
        /\ ent \in [{0, 1} -> [Hashes -> Entry \cup {None}]]
        /\ lst \in [{0, 1} -> [Ids -> Bag]]
    BY DEF Typed, ServerTyped
  <2>8. ASSUME NEW h \in Hashes PROVE ent'[1][h] = None
    <3>1. ent[1][h] = None
      BY DEF DatabasesSeparate
    <3>2. CASE m.name = "HMSET"
      BY <2>5, <2>6, <2>7, <3>1, <3>2 DEF Execute
    <3>3. CASE m.name = "DEL" /\ m.key \in Hashes
      BY <2>5, <2>7, <3>1, <3>3 DEF Execute
    <3>4. CASE m.name # "HMSET" /\ ~(m.name = "DEL" /\ m.key \in Hashes)
      BY <2>5, <3>1, <3>4 DEF Execute
    <3>5. QED  BY <3>2, <3>3, <3>4
  <2>9. ASSUME NEW i \in Ids PROVE lst'[0][i] = NoHashes
    <3>1. lst[0][i] = NoHashes
      BY DEF DatabasesSeparate
    <3>2. CASE m.name = "LPUSH"
      BY <2>5, <2>6, <2>7, <3>1, <3>2 DEF Execute
    <3>3. CASE m.name = "LREM" /\ m.key \in Ids
      <4>1. [lst[0][i] EXCEPT ![m.hash] = 0] = NoHashes
        BY <3>1 DEF NoHashes
      <4>2. lst' = [lst EXCEPT ![sel[c]][m.key][m.hash] = 0]
        BY <2>5, <3>3 DEF Execute
      <4>3. lst'[0][i] = lst[0][i] \/ lst'[0][i] = [lst[0][i] EXCEPT ![m.hash] = 0]
        BY <2>7, <4>2
      <4>4. QED  BY <3>1, <4>1, <4>3
    <3>4. CASE m.name = "DEL" /\ m.key \in Ids
      BY <2>5, <2>7, <3>1, <3>4 DEF Execute
    <3>5. CASE /\ m.name # "LPUSH" /\ ~(m.name = "LREM" /\ m.key \in Ids)
               /\ ~(m.name = "DEL" /\ m.key \in Ids)
      BY <2>5, <3>1, <3>5 DEF Execute
    <3>6. QED  BY <3>2, <3>3, <3>4, <3>5
  <2>10. QED  BY <2>8, <2>9 DEF DatabasesSeparate
<1>2. CASE ~ \E c \in Clients : Served(c)
  <2>1. UNCHANGED <<ent, lst>>
    <3>1. CASE Next
      <4>1. PICK c \in Clients :
              \/ Call(c) \/ Continue(c) \/ Transfer(c) \/ Refused(c)
              \/ LoseConnection(c) \/ ReadPastEnd(c)
        BY <1>2, <3>1 DEF Next
      <4>2. CASE Call(c)
        BY <4>2 DEF Call, CallPut, CallGet, CallDeleteHash, CallDeleteId, CallCount, CallCountId,
                    CallEntries, Begin, server
      <4>3. CASE Continue(c)
        BY <4>3 DEF Continue, PutSelected, PutKeeps, PutProceeds, PutStored, PutListing,
                    PutListed, Selected, GetDone, FoundUnparsable, DeleteAbsent, DeleteFound,
                    DeleteSelected,
                    DeleteErased, DeleteUnlisting, DeleteUnlisted, IdSelected, IdRanged,
                    IdSkipped, IdDeleteNext, IdEmptied, IdSelected1, IdDeleted, Deleting,
                    QuerySelected, CountDone, CountIdDone, EntriesDone, Throw, Received, server
      <4>4. CASE Transfer(c) \/ Refused(c) \/ LoseConnection(c) \/ ReadPastEnd(c)
        BY <4>4 DEF Transfer, Refused, Refuse, Fault, LoseConnection, Lose, ReadPastEnd,
                    Received, server
      <4>5. QED  BY <4>1, <4>2, <4>3, <4>4
    <3>2. CASE UNCHANGED vars
      BY <3>2 DEF vars
    <3>3. QED  BY <3>1, <3>2
  <2>2. QED  BY <2>1 DEF DatabasesSeparate
<1>3. QED  BY <1>1, <1>2

LEMMA InitSeparate == Init => DatabasesSeparate
BY DEF Init, ServerInit, DatabasesSeparate

(* Under the same condition frame hashes are stored in database 0 and lists *)
(* in database 1 only, for any number of clients, with refused commands and *)
(* commands of lost connections that arrive late                            *)
(* (RedisHashStore.cpp:50-87).                                              *)
THEOREM StoreDatabasesSeparate == Spec /\ PipelinesHold => []DatabasesSeparate
<1> DEFINE IInv == /\ Typed /\ InOrder /\ StaysNarrow /\ PipelinesHold
                   /\ Selects /\ DatabasesSeparate
<1>1. Init /\ PipelinesHold => IInv
  BY InitTyped, InitInOrder, InitSelects, InitSeparate
<1>2. IInv /\ [Next]_vars => IInv'
  <2>1. PipelinesHold' <=> PipelinesHold
    BY DEF PipelinesHold
  <2>2. QED  BY <2>1, NextTyped, NextInOrderStep, SelectsStep, SeparateStep
<1>3. QED  BY <1>1, <1>2, PTL DEF Spec

-----------------------------------------------------------------------------
(* What a sequence of commands has left after its first n.                  *)
Rest(s, n) == SubSeq(s, n + 1, Len(s))

(* The commands a method awaits the replies to at a label, with their       *)
(* arguments.                                                               *)
Scripts(l, a) ==
    CASE l \in {"idle", "crashed"} -> {<<>>}
      [] l \in {"put_select", "get_select", "look_select", "id_select0", "id_skip"} ->
           {<<Select(0)>>}
      [] l = "put_select1" -> {<<Select(1)>>}
      [] l = "put_exists" -> {<<Exists(a.hash)>>}
      [] l = "put_hmset" -> {<<Hmset(a.hash, a.entry, a.overwrite)>>}
      [] l = "put_lpush" -> {<<Lpush(a.entry.id, a.hash)>>}
      [] l \in {"get_all", "look_all"} -> {<<Hgetall(a.hash)>>}
      [] l = "del_select" -> {<<Select(0), Del(a.hash)>>}
      [] l = "del_del" -> {<<Del(a.hash)>>}
      [] l = "del_select1" -> {<<Select(1), Lrem(a.entry.id, a.hash)>>}
      [] l = "del_lrem" -> {<<Lrem(a.entry.id, a.hash)>>}
      [] l = "id_select" -> {<<Select(1), Lrange(a.id), Select(0)>>}
      [] l = "id_lrange" -> {<<Lrange(a.id), Select(0)>>}
      [] l = "id_del" -> {<<Del(k)>> : k \in Keys}
      [] l = "id_select1" -> {<<Select(1), Del(a.id)>>}
      [] l = "id_delkey" -> {<<Del(a.id)>>}
      [] l = "count_select" -> {<<Select(0), Dbsize>>}
      [] l = "count_size" -> {<<Dbsize>>}
      [] l = "countid_select" -> {<<Select(1), Llen(a.id)>>}
      [] l = "countid_len" -> {<<Llen(a.id)>>}
      [] l = "keys_select" -> {<<Select(1), AllKeys>>}
      [] l = "keys_all" -> {<<AllKeys>>}

(* What is queued is what the script has left after the replies that came.  *)
Waits(c) ==
    \E s \in Scripts(at[c], arg[c]) :
        Len(Answered(c)) <= Len(s) /\ Queue(c) = Rest(s, Len(Answered(c)))
Commanded == \A c \in Clients : ~err[c] => Waits(c)


-----------------------------------------------------------------------------

(* Commands and replies under way are commands and replies.                 *)
LEMMA QueueTypes ==
    ASSUME Typed, NEW c \in Clients
    PROVE  /\ Queue(c) \in Seq(Command) /\ Answered(c) \in Seq(Replies)
           /\ Len(Queue(c)) \in Nat /\ Len(Answered(c)) \in Nat
<1>1. Queue(c) \in Seq(Command) /\ Answered(c) \in Seq(Replies)
  BY BuffersOf, ConcatProperties DEF Queue, Answered
<1>2. QED  BY <1>1, LenProperties

(* The reply received is the first one answered. *)
LEMMA NextTaken ==
    ASSUME Typed, NEW c \in Clients, HasReply(c), TakeReply(c, <<>>)
    PROVE  /\ Answered(c) # <<>> /\ Reply(c) = Head(Answered(c))
           /\ Answered(c)' = Tail(Answered(c)) /\ Queue(c)' = Queue(c)
<1>1. rdr[c] # <<>> /\ rdr[c] \in Seq(Replies) /\ sock[c] \in Seq(Replies)
  BY BuffersOf DEF HasReply
<1>2. /\ Tail(rdr[c] \o sock[c]) = Tail(rdr[c]) \o sock[c]
      /\ Head(rdr[c] \o sock[c]) = Head(rdr[c]) /\ rdr[c] \o sock[c] # <<>>
  BY <1>1, TailConcat
<1>3. obuf[c] \o <<>> = obuf[c]
  BY BuffersOf, ConcatEmptySeq
<1>4. /\ rdr'[c] = Tail(rdr[c]) /\ sock' = sock /\ wire' = wire /\ obuf'[c] = obuf[c]
  BY <1>3 DEF TakeReply, AppendCommands, Typed, ChannelTyped
<1>5. QED  BY <1>2, <1>4 DEF Answered, Queue, Reply

(* The last reply awaited: nothing else is under way, and what is appended  *)
(* is all that is queued.                                                   *)
LEMMA LastTaken ==
    ASSUME Typed, InOrder, NEW c \in Clients, HasReply(c), at[c] \in Lasts,
           NEW cmds \in Seq(Command), TakeReply(c, cmds)
    PROVE  /\ Queue(c) = <<>> /\ Answered(c) = <<Reply(c)>>
           /\ Queue(c)' = cmds /\ Answered(c)' = <<>>
<1>1. /\ wire[c] = <<>> /\ obuf[c] = <<>> /\ sock[c] = <<>> /\ Len(rdr[c]) = 1
      /\ rdr[c] \in Seq(Replies)
  BY NothingElse, BuffersOf
<1>2. rdr[c] = <<Head(rdr[c])>>
  BY <1>1
<1>3. \A x : Tail(<<x>>) = <<>>
  OBVIOUS
<1>4. Tail(rdr[c]) = <<>>
  BY <1>2, <1>3
<1>5. /\ rdr'[c] = <<>> /\ sock' = sock /\ wire' = wire /\ obuf'[c] = obuf[c] \o cmds
  BY <1>4 DEF TakeReply, AppendCommands, Typed, ChannelTyped
<1>6. <<>> \o (<<>> \o cmds) = cmds /\ <<>> \o <<>> = <<>>
  BY QueueIs
<1>7. rdr[c] \o <<>> = rdr[c]
  BY <1>1, ConcatEmptySeq
<1>8. QED  BY <1>1, <1>2, <1>5, <1>6, <1>7 DEF Queue, Answered, Reply

(* A call finds nothing under way and queues its first commands.            *)
LEMMA Begun ==
    ASSUME Typed, InOrder, NEW c \in Clients, NEW op, NEW a, NEW to, NEW cmds \in Seq(Command),
           Begin(c, op, a, to, cmds)
    PROVE  /\ Queue(c) = <<>> /\ Answered(c) = <<>>
           /\ Queue(c)' = cmds /\ Answered(c)' = <<>>
           /\ at'[c] = to /\ arg'[c] = a
<1>1. Len(Lined(c)) = 0
  BY AwaitedValues DEF InOrder, Begin
<1>2. PICK k \in Nat, l \in Nat, m \in Nat, n \in Nat :
        /\ Len(rdr[c]) = k /\ Len(sock[c]) = l /\ Len(wire[c]) = m /\ Len(obuf[c]) = n
        /\ Len(Lined(c)) = k + l + m + n
  BY LengthsOf
<1>3. k = 0 /\ l = 0 /\ m = 0 /\ n = 0
  <2>1. k + l + m + n = 0
    BY <1>1, <1>2
  <2>2. QED  BY ONLY <2>1, k \in Nat, l \in Nat, m \in Nat, n \in Nat
<1>4. rdr[c] = <<>> /\ sock[c] = <<>> /\ wire[c] = <<>> /\ obuf[c] = <<>>
  BY <1>2, <1>3, BuffersOf, NoElements, Zenon
<1>5. /\ rdr' = rdr /\ sock' = sock /\ wire' = wire /\ obuf'[c] = obuf[c] \o cmds
      /\ at'[c] = to /\ arg'[c] = a
  BY DEF Begin, AppendCommands, Typed, ChannelTyped, CallTyped
<1>6. <<>> \o (<<>> \o cmds) = cmds /\ <<>> \o <<>> = <<>>
  BY QueueIs
<1>7. QED  BY <1>4, <1>5, <1>6 DEF Queue, Answered

(* Writing and reading the socket change nothing of either sequence.        *)
LEMMA Transferred ==
    ASSUME Typed, NEW c \in Clients, Transfer(c)
    PROVE  /\ Queue(c)' = Queue(c) /\ Answered(c)' = Answered(c)
           /\ UNCHANGED <<err, ent, lst, sel, faults, at, arg, todo, out>>
<1>1. rdr[c] = <<>> /\ UNCHANGED <<err, ent, lst, sel, faults, at, arg, todo, out>>
  BY DEF Transfer, BufferWrite, BufferRead, Waiting, call, server
<1>2. CASE BufferWrite(c)
  <2>1. wire[c] \o obuf[c] \in Seq(Command)
    BY BuffersOf, ConcatProperties
  <2>2. (wire[c] \o obuf[c]) \o <<>> = wire[c] \o obuf[c]
    BY <2>1, ConcatEmptySeq
  <2>3. /\ wire'[c] = wire[c] \o obuf[c] /\ obuf'[c] = <<>> /\ rdr' = rdr /\ sock' = sock
    BY <1>2 DEF BufferWrite, Typed, ChannelTyped
  <2>4. QED  BY <1>1, <2>2, <2>3 DEF Queue, Answered
<1>3. CASE BufferRead(c)
  <2>1. PICK n \in 1 .. Len(sock[c]) :
          /\ rdr' = [rdr EXCEPT ![c] = SubSeq(sock[c], 1, n)]
          /\ sock' = [sock EXCEPT ![c] = SubSeq(@, n + 1, Len(@))]
    BY <1>3 DEF BufferRead
  <2>2. /\ rdr'[c] = SubSeq(sock[c], 1, n) /\ sock'[c] = SubSeq(sock[c], n + 1, Len(sock[c]))
        /\ wire' = wire /\ obuf' = obuf
    BY <1>3, <2>1 DEF BufferRead, Typed, ChannelTyped
  <2>3. SubSeq(sock[c], 1, n) \o SubSeq(sock[c], n + 1, Len(sock[c])) = sock[c]
    BY BuffersOf, SplitSeq
  <2>4. <<>> \o sock[c] = sock[c]
    BY BuffersOf, ConcatEmptySeq
  <2>5. QED  BY <1>1, <2>2, <2>3, <2>4 DEF Queue, Answered
<1>4. QED  BY <1>2, <1>3 DEF Transfer

(* The server answers the first command queued. *)
LEMMA Answers1 ==
    ASSUME Typed, NEW c \in Clients, wire[c] # <<>>, NEW q \in Replies, Serve(c, q)
    PROVE  /\ Queue(c) # <<>> /\ Head(wire[c]) = Head(Queue(c)) /\ Head(wire[c]) \in Command
           /\ Queue(c)' = Tail(Queue(c))
           /\ Answered(c)' = IF err[c] THEN Answered(c) ELSE Append(Answered(c), q)
<1>1. /\ wire[c] \in Seq(Command) /\ obuf[c] \in Seq(Command)
      /\ rdr[c] \in Seq(Replies) /\ sock[c] \in Seq(Replies)
  BY BuffersOf
<1>2. /\ Tail(wire[c] \o obuf[c]) = Tail(wire[c]) \o obuf[c]
      /\ Head(wire[c] \o obuf[c]) = Head(wire[c]) /\ wire[c] \o obuf[c] # <<>>
  BY <1>1, TailConcat
<1>3. wire'[c] = Tail(wire[c]) /\ obuf' = obuf /\ rdr' = rdr
  <2>1. wire' = [wire EXCEPT ![c] = Tail(@)] /\ obuf' = obuf /\ rdr' = rdr
    BY SMTT(30) DEF Serve
  <2>2. QED  BY <2>1, SMTT(30) DEF Typed, ChannelTyped
<1>4. sock'[c] = IF err[c] THEN sock[c] ELSE Append(sock[c], q)
  <2>1. sock' = IF err[c] THEN sock ELSE [sock EXCEPT ![c] = Append(@, q)]
    BY SMTT(30) DEF Serve
  <2>2. c \in DOMAIN sock
    BY SMTT(30) DEF Typed, ChannelTyped
  <2>3. QED  BY <2>1, <2>2, Zenon
<1>5. rdr[c] \o Append(sock[c], q) = Append(rdr[c] \o sock[c], q)
  <2>1. ASSUME NEW r \in Seq(Replies), NEW s \in Seq(Replies), NEW x \in Replies
        PROVE  r \o Append(s, x) = Append(r \o s, x)
    OBVIOUS
  <2>2. QED  BY <1>1, <2>1, ZenonT(60)
<1>6. Head(wire[c]) \in Command
  BY <1>1
<1>7. QED  BY <1>2, <1>3, <1>4, <1>5, <1>6 DEF Queue, Answered

(* A step of the server for a client takes the first command queued; a      *)
(* client that lost its connection hears nothing.                           *)
LEMMA ServedAnswers ==
    ASSUME Typed, NEW c \in Clients, Served(c) \/ Refused(c)
    PROVE  LET m == Head(Queue(c))
           IN /\ Queue(c) # <<>> /\ m \in Command /\ Queue(c)' = Tail(Queue(c))
              /\ UNCHANGED <<err, at, arg, todo, out>>
              /\ \E q \in Replies :
                   /\ Answered(c)' = IF err[c] THEN Answered(c) ELSE Append(Answered(c), q)
                   /\ \/ Execute(c, m) /\ q = Answer(c, m) /\ q.type # "error"
                      \/ /\ m.name \in Refusable /\ Fault /\ q = Refusal(m) /\ q.type = "error"
                         /\ faults < MaxFaults
<1> DEFINE m == Head(wire[c])
<1>1. wire[c] # <<>> /\ wire[c] \in Seq(Command) /\ m \in Command
  BY BuffersOf DEF Served, Refused, Perform, Refuse
<1>2. UNCHANGED <<at, arg, todo, out>>
  BY DEF Served, Refused, call
<1>3. PICK q \in Replies :
        /\ Serve(c, q)
        /\ \/ Execute(c, m) /\ q = Answer(c, m) /\ q.type # "error"
           \/ /\ m.name \in Refusable /\ Fault /\ q = Refusal(m) /\ q.type = "error"
              /\ faults < MaxFaults
  <2>1. CASE Served(c)
    BY <1>1, <2>1, ReplyTypes, ReplyFields DEF Served, Perform, Typed
  <2>2. CASE Refused(c)
    BY <1>1, <2>2, ReplyTypes, ReplyFields DEF Refused, Refuse, MayRefuse, Typed
  <2>3. QED  BY <2>1, <2>2
<1>4. err' = err
  BY <1>3, SMTT(30) DEF Serve
<1>5. QED  BY <1>1, <1>2, <1>3, <1>4, Answers1

(* The rest of a sequence, element by element.                              *)
LEMMA RestIs ==
    ASSUME NEW s \in Seq(Command), NEW n \in 0 .. Len(s)
    PROVE  /\ Rest(s, n) \in Seq(Command) /\ Len(Rest(s, n)) = Len(s) - n
           /\ \A k \in 1 .. Len(s) - n : Rest(s, n)[k] = s[n + k]
           /\ Rest(s, n) # <<>> <=> n < Len(s)
<1>1. Len(s) \in Nat /\ n \in Nat
  BY LenProperties
<1>2. /\ Rest(s, n) \in Seq(Command) /\ Len(Rest(s, n)) = Len(s) - n
      /\ \A k \in 1 .. Len(s) - n : Rest(s, n)[k] = s[n + k]
  <2>1. n + 1 \in 1 .. Len(s) + 1 /\ Len(s) \in (n + 1) - 1 .. Len(s)
    BY <1>1
  <2>2. n + 1 \in 1 .. Len(s) + 1 => \A k \in 1 .. Len(s) - n : (n + 1) + k - 1 = n + k
    BY <1>1
  <2>3. QED  BY <1>1, <2>1, <2>2, SubSeqProperties DEF Rest
<1>3. Rest(s, n) # <<>> <=> n < Len(s)
  <2>1. \A t \in Seq(Command) : t # <<>> <=> Len(t) # 0
    BY EmptySeq
  <2>2. QED  BY <1>1, <1>2, <2>1
<1>4. QED  BY <1>2, <1>3

(* The rest after nothing is all of it.                                     *)
LEMMA RestAll == ASSUME NEW s \in Seq(Command) PROVE Rest(s, 0) = s
<1>1. 0 \in 0 .. Len(s) /\ Len(s) \in Nat
  BY LenProperties
<1>2. Rest(s, 0) \in Seq(Command) /\ Len(Rest(s, 0)) = Len(s)
      /\ \A k \in 1 .. Len(s) : Rest(s, 0)[k] = s[k]
  BY <1>1, RestIs
<1>3. QED  BY <1>2, SeqEqual

(* One reply received: the rest of the tail is the rest.                    *)
LEMMA RestTail ==
    ASSUME NEW s \in Seq(Command), NEW n \in 0 .. Len(s), Rest(s, n) # <<>>
    PROVE  n + 1 \in 0 .. Len(s) /\ Tail(Rest(s, n)) = Rest(s, n + 1) /\ Head(Rest(s, n)) = s[n + 1]
<1> DEFINE t == Rest(s, n)
           u == Rest(s, n + 1)
<1>1. Len(s) \in Nat /\ n \in Nat /\ n < Len(s) /\ n + 1 \in 0 .. Len(s)
  BY RestIs, LenProperties
<1>2. /\ t \in Seq(Command) /\ Len(t) = Len(s) - n
      /\ \A k \in 1 .. Len(s) - n : t[k] = s[n + k]
  BY RestIs
<1>3. /\ u \in Seq(Command) /\ Len(u) = Len(s) - (n + 1)
      /\ \A k \in 1 .. Len(s) - (n + 1) : u[k] = s[(n + 1) + k]
  BY <1>1, RestIs
<1>4. t # <<>>
  OBVIOUS
<1> HIDE DEF t, u
<1>5. /\ Tail(t) \in Seq(Command) /\ Len(Tail(t)) = Len(t) - 1 /\ Head(t) = t[1]
      /\ \A k \in 1 .. Len(t) - 1 : Tail(t)[k] = t[k + 1]
  BY <1>2, <1>4, HeadTailProperties
<1>6. ASSUME NEW k \in 1 .. Len(u) PROVE Tail(t)[k] = u[k]
  <2>1. k \in 1 .. Len(s) - (n + 1) /\ k \in 1 .. Len(t) - 1 /\ k + 1 \in 1 .. Len(s) - n
        /\ n + (k + 1) = (n + 1) + k
    BY <1>1, <1>2, <1>3
  <2>2. QED  BY <1>2, <1>3, <1>5, <2>1
<1>7. Len(Tail(t)) = Len(u)
  BY <1>1, <1>2, <1>3, <1>5
<1>8. Tail(t) = u
  BY <1>3, <1>5, <1>6, <1>7, SeqEqual
<1>9. Head(t) = s[n + 1]
  BY <1>1, <1>2, <1>5
<1>10. QED  BY <1>1, <1>8, <1>9 DEF t, u

(* One command executed: the rest loses its head.                           *)
LEMMA RestOfTail ==
    ASSUME NEW s \in Seq(Command), NEW n \in 1 .. Len(s)
    PROVE  /\ Tail(s) \in Seq(Command) /\ n - 1 \in 0 .. Len(Tail(s))
           /\ Rest(Tail(s), n - 1) = Rest(s, n)
<1> DEFINE t == Rest(s, n)
           v == Tail(s)
           u == Rest(v, n - 1)
<1>1. Len(s) \in Nat /\ n \in Nat /\ 1 <= n /\ n <= Len(s) /\ s # <<>>
  BY LenProperties
<1>2. /\ v \in Seq(Command) /\ Len(v) = Len(s) - 1
      /\ \A k \in 1 .. Len(s) - 1 : v[k] = s[k + 1]
  BY <1>1, HeadTailProperties
<1>3. n - 1 \in 0 .. Len(v) /\ n \in 0 .. Len(s)
  BY <1>1, <1>2
<1>4. /\ t \in Seq(Command) /\ Len(t) = Len(s) - n
      /\ \A k \in 1 .. Len(s) - n : t[k] = s[n + k]
  BY <1>3, RestIs
<1> HIDE DEF v
<1>5. /\ u \in Seq(Command) /\ Len(u) = Len(v) - (n - 1)
      /\ \A k \in 1 .. Len(v) - (n - 1) : u[k] = v[(n - 1) + k]
  BY <1>2, <1>3, RestIs
<1> HIDE DEF t, u
<1>6. ASSUME NEW k \in 1 .. Len(t) PROVE u[k] = t[k]
  <2>1. k \in 1 .. Len(s) - n /\ k \in 1 .. Len(v) - (n - 1) /\ (n - 1) + k \in 1 .. Len(s) - 1
        /\ (n - 1) + k + 1 = n + k
    BY <1>1, <1>2, <1>4
  <2>2. QED  BY <1>2, <1>4, <1>5, <2>1
<1>7. Len(t) = Len(u)
  BY <1>1, <1>2, <1>4, <1>5
<1>8. u = t
  BY <1>4, <1>5, <1>6, <1>7, SeqEqual
<1>9. QED  BY <1>2, <1>3, <1>8 DEF t, u, v

-----------------------------------------------------------------------------
(* The commands of the scripts are commands. *)
LEMMA ScriptTypes ==
    ASSUME NEW l \in Labels, NEW a \in Arguments, FitsLabel(l, a), NEW s \in Scripts(l, a)
    PROVE  s \in Seq(Command)
<1>1. Select(0) \in Command /\ Select(1) \in Command
  BY CommandNamed
<1>2. /\ a.overwrite \in BOOLEAN
      /\ l \in Putting => a.entry \in Entry /\ a.entry.id \in Ids
      /\ l \in OnHash => a.hash \in Hashes /\ a.hash \in Keys
      /\ l \in OnEntry => a.entry.id \in Ids \cup {None}
      /\ l \in OnId => a.id \in Ids /\ a.id \in Keys
  BY DEF FitsLabel, Arguments, Keys, Entry, Blank
<1>3. \A m \in Command : <<m>> \in Seq(Command)
  OBVIOUS
<1>4. \A m, n \in Command : <<m, n>> \in Seq(Command)
  OBVIOUS
<1>5. \A m, n, o \in Command : <<m, n, o>> \in Seq(Command)
  OBVIOUS
<1>6. CASE l \in {"idle", "crashed", "put_select", "get_select", "look_select", "id_select0",
                  "id_skip", "put_select1"}
  <2>1. s = <<>> \/ s = <<Select(0)>> \/ s = <<Select(1)>>
    BY <1>6 DEF Scripts
  <2>2. <<>> \in Seq(Command)
    OBVIOUS
  <2>3. QED  BY <1>1, <1>3, <2>1, <2>2
<1>7. CASE l \in {"put_exists", "put_hmset", "put_lpush"}
  <2>1. /\ Exists(a.hash) \in Command /\ Hmset(a.hash, a.entry, a.overwrite) \in Command
        /\ Lpush(a.entry.id, a.hash) \in Command
    BY <1>2, <1>7, CommandNamed DEF Putting, OnHash
  <2>2. QED  BY <1>3, <1>7, <2>1 DEF Scripts
<1>8. CASE l \in {"get_all", "look_all"}
  <2>1. Hgetall(a.hash) \in Command
    BY <1>2, <1>8, CommandNamed DEF OnHash
  <2>2. QED  BY <1>3, <1>8, <2>1 DEF Scripts
<1>9. CASE l \in {"del_select", "del_del", "del_select1", "del_lrem"}
  <2>1. Del(a.hash) \in Command /\ Lrem(a.entry.id, a.hash) \in Command
    BY <1>2, <1>9, CommandNamed DEF OnHash, OnEntry
  <2>2. QED  BY <1>1, <1>3, <1>4, <1>9, <2>1 DEF Scripts
<1>10. CASE l \in {"id_select", "id_lrange"}
  <2>1. Lrange(a.id) \in Command
    BY <1>2, <1>10, CommandNamed DEF OnId
  <2>2. QED  BY <1>1, <1>4, <1>5, <1>10, <2>1 DEF Scripts
<1>11. CASE l = "id_del"
  <2>1. PICK k \in Keys : s = <<Del(k)>>
    BY <1>11 DEF Scripts
  <2>2. QED  BY <1>3, <2>1, CommandNamed
<1>12. CASE l \in {"id_select1", "id_delkey"}
  <2>1. Del(a.id) \in Command
    BY <1>2, <1>12, CommandNamed DEF OnId
  <2>2. QED  BY <1>1, <1>3, <1>4, <1>12, <2>1 DEF Scripts
<1>13. CASE l \in {"countid_select", "countid_len"}
  <2>1. Llen(a.id) \in Command
    BY <1>2, <1>13, CommandNamed DEF OnId
  <2>2. QED  BY <1>1, <1>3, <1>4, <1>13, <2>1 DEF Scripts
<1>14. CASE l \in {"count_select", "count_size", "keys_select", "keys_all"}
  <2>1. Dbsize \in Command /\ AllKeys \in Command
    BY CommandNamed
  <2>2. QED  BY <1>1, <1>3, <1>4, <1>14, <2>1 DEF Scripts
<1>15. QED
  BY <1>6, <1>7, <1>8, <1>9, <1>10, <1>11, <1>12, <1>13, <1>14 DEF Labels

(* Every script is a sequence of commands.                                  *)
LEMMA ScriptOf ==
    ASSUME Typed, NEW c \in Clients, NEW s \in Scripts(at[c], arg[c])
    PROVE  s \in Seq(Command) /\ Len(s) \in Nat
<1>1. at[c] \in Labels /\ arg[c] \in Arguments /\ FitsLabel(at[c], arg[c])
  BY FitsAtOnce DEF Typed, CallTyped
<1>2. s \in Seq(Command)
  BY <1>1, ScriptTypes
<1>3. QED  BY <1>2, LenProperties

(* Nothing is answered yet. *)
LEMMA FreshWaits ==
    ASSUME NEW c \in Clients, NEW cmds \in Seq(Command), Queue(c)' = cmds, Answered(c)' = <<>>,
           cmds \in Scripts(at'[c], arg'[c])
    PROVE  Waits(c)'
<1>1. Len(cmds) \in Nat /\ Len(Answered(c)') = 0 /\ Rest(cmds, 0) = cmds
  BY RestAll, LenProperties
<1>2. Len(Answered(c)') <= Len(cmds) /\ Queue(c)' = Rest(cmds, Len(Answered(c)'))
  BY <1>1
<1>3. QED  BY <1>2 DEF Waits

(* The last reply is received and the next commands are sent.               *)
LEMMA SendWaits ==
    ASSUME Typed, InOrder, NEW c \in Clients, HasReply(c), at[c] \in Lasts,
           NEW cmds \in Seq(Command), TakeReply(c, cmds), cmds \in Scripts(at'[c], arg'[c])
    PROVE  Waits(c)'
BY LastTaken, FreshWaits

(* A reply is received that is not the last.                                *)
LEMMA NextWaits ==
    ASSUME Typed, NEW c \in Clients, Waits(c), HasReply(c), TakeReply(c, <<>>),
           \A s \in Scripts(at[c], arg[c]) : Tail(s) \in Scripts(at'[c], arg'[c])
    PROVE  Waits(c)'
<1>1. PICK s \in Scripts(at[c], arg[c]) :
        Len(Answered(c)) <= Len(s) /\ Queue(c) = Rest(s, Len(Answered(c)))
  BY DEF Waits
<1> DEFINE n == Len(Answered(c))
<1>2. /\ Answered(c) # <<>> /\ Answered(c)' = Tail(Answered(c)) /\ Queue(c)' = Queue(c)
  BY NextTaken
<1>3. n \in Nat /\ n # 0 /\ Len(Answered(c)') = n - 1
  BY <1>2, QueueTypes, EmptySeq, HeadTailProperties
<1>4. s \in Seq(Command) /\ Len(s) \in Nat
  BY ScriptOf
<1>5. n \in 1 .. Len(s)
  BY <1>1, <1>3, <1>4
<1> HIDE DEF n
<1>6. /\ Tail(s) \in Seq(Command) /\ n - 1 \in 0 .. Len(Tail(s))
      /\ Rest(Tail(s), n - 1) = Rest(s, n)
  BY <1>4, <1>5, RestOfTail
<1>7. Tail(s) \in Scripts(at'[c], arg'[c])
  OBVIOUS
<1>8. Queue(c)' = Rest(Tail(s), Len(Answered(c)')) /\ Len(Answered(c)') <= Len(Tail(s))
  BY <1>1, <1>2, <1>3, <1>6 DEF n
<1>9. QED  BY <1>7, <1>8 DEF Waits

(* A command is executed and answered.                                      *)
LEMMA ServeWaits ==
    ASSUME Typed, NEW c \in Clients, ~err[c], Waits(c), Served(c) \/ Refused(c)
    PROVE  Waits(c)'
<1>1. PICK s \in Scripts(at[c], arg[c]) :
        Len(Answered(c)) <= Len(s) /\ Queue(c) = Rest(s, Len(Answered(c)))
  BY DEF Waits
<1> DEFINE n == Len(Answered(c))
<1>2. PICK q \in Replies : /\ Queue(c) # <<>> /\ Queue(c)' = Tail(Queue(c))
                           /\ at' = at /\ arg' = arg
                           /\ Answered(c)' = Append(Answered(c), q)
  BY ServedAnswers
<1>3. n \in Nat /\ Len(Answered(c)') = n + 1
  BY <1>2, QueueTypes, AppendProperties
<1>4. s \in Seq(Command) /\ Len(s) \in Nat
  BY ScriptOf
<1>5. n \in 0 .. Len(s)
  BY <1>1, <1>3, <1>4
<1> HIDE DEF n
<1>6. n + 1 \in 0 .. Len(s) /\ Tail(Rest(s, n)) = Rest(s, n + 1)
  BY <1>1, <1>2, <1>4, <1>5, RestTail DEF n
<1>7. Queue(c)' = Rest(s, Len(Answered(c)')) /\ Len(Answered(c)') <= Len(s)
  BY <1>1, <1>2, <1>3, <1>4, <1>6 DEF n
<1>8. QED  BY <1>2, <1>7 DEF Waits

(* The transport leaves what is awaited as it is.                           *)
LEMMA TransferWaits ==
    ASSUME Typed, NEW c \in Clients, Waits(c), Transfer(c)
    PROVE  Waits(c)'
BY Transferred DEF Waits

(* The scripts of the labels, one by one.                                   *)
LEMMA ScriptValues ==
    ASSUME NEW a
    PROVE  /\ Scripts("idle", a) = {<<>>}
           /\ Scripts("crashed", a) = {<<>>}
           /\ Scripts("put_select", a) = {<<Select(0)>>}
           /\ Scripts("get_select", a) = {<<Select(0)>>}
           /\ Scripts("look_select", a) = {<<Select(0)>>}
           /\ Scripts("id_select0", a) = {<<Select(0)>>}
           /\ Scripts("id_skip", a) = {<<Select(0)>>}
           /\ Scripts("put_select1", a) = {<<Select(1)>>}
           /\ Scripts("put_exists", a) = {<<Exists(a.hash)>>}
           /\ Scripts("put_hmset", a) = {<<Hmset(a.hash, a.entry, a.overwrite)>>}
           /\ Scripts("put_lpush", a) = {<<Lpush(a.entry.id, a.hash)>>}
           /\ Scripts("get_all", a) = {<<Hgetall(a.hash)>>}
           /\ Scripts("look_all", a) = {<<Hgetall(a.hash)>>}
           /\ Scripts("del_select", a) = {<<Select(0), Del(a.hash)>>}
           /\ Scripts("del_del", a) = {<<Del(a.hash)>>}
           /\ Scripts("del_select1", a) = {<<Select(1), Lrem(a.entry.id, a.hash)>>}
           /\ Scripts("del_lrem", a) = {<<Lrem(a.entry.id, a.hash)>>}
           /\ Scripts("id_select", a) = {<<Select(1), Lrange(a.id), Select(0)>>}
           /\ Scripts("id_lrange", a) = {<<Lrange(a.id), Select(0)>>}
           /\ Scripts("id_del", a) = {<<Del(k)>> : k \in Keys}
           /\ Scripts("id_select1", a) = {<<Select(1), Del(a.id)>>}
           /\ Scripts("id_delkey", a) = {<<Del(a.id)>>}
           /\ Scripts("count_select", a) = {<<Select(0), Dbsize>>}
           /\ Scripts("count_size", a) = {<<Dbsize>>}
           /\ Scripts("countid_select", a) = {<<Select(1), Llen(a.id)>>}
           /\ Scripts("countid_len", a) = {<<Llen(a.id)>>}
           /\ Scripts("keys_select", a) = {<<Select(1), AllKeys>>}
           /\ Scripts("keys_all", a) = {<<AllKeys>>}
BY Zenon DEF Scripts

(* The label after a reply that is not the last awaits the tail.            *)
LEMMA ScriptTails ==
    ASSUME NEW a
    PROVE  /\ \A s \in Scripts("del_select", a) : Tail(s) \in Scripts("del_del", a)
           /\ \A s \in Scripts("del_select1", a) : Tail(s) \in Scripts("del_lrem", a)
           /\ \A s \in Scripts("id_select", a) : Tail(s) \in Scripts("id_lrange", a)
           /\ \A s \in Scripts("id_lrange", a) : Tail(s) \in Scripts("id_select0", a)
           /\ \A s \in Scripts("id_lrange", a) : Tail(s) \in Scripts("id_skip", a)
           /\ \A s \in Scripts("id_select1", a) : Tail(s) \in Scripts("id_delkey", a)
           /\ \A s \in Scripts("count_select", a) : Tail(s) \in Scripts("count_size", a)
           /\ \A s \in Scripts("countid_select", a) : Tail(s) \in Scripts("countid_len", a)
           /\ \A s \in Scripts("keys_select", a) : Tail(s) \in Scripts("keys_all", a)
<1>1. ASSUME NEW x, NEW y PROVE Tail(<<x, y>>) = <<y>>
  OBVIOUS
<1>2. ASSUME NEW x, NEW y, NEW z PROVE Tail(<<x, y, z>>) = <<y, z>>
  OBVIOUS
<1>3. ASSUME NEW l, NEW m, NEW x, NEW y,
             Scripts(l, a) = {<<x, y>>}, Scripts(m, a) = {<<y>>}
      PROVE  \A s \in Scripts(l, a) : Tail(s) \in Scripts(m, a)
  BY <1>1, <1>3, Zenon
<1>4. ASSUME NEW l, NEW m, NEW x, NEW y, NEW z,
             Scripts(l, a) = {<<x, y, z>>}, Scripts(m, a) = {<<y, z>>}
      PROVE  \A s \in Scripts(l, a) : Tail(s) \in Scripts(m, a)
  BY <1>2, <1>4, Zenon
<1>5. \A s \in Scripts("del_select", a) : Tail(s) \in Scripts("del_del", a)
  <2>1. Scripts("del_select", a) = {<<Select(0), Del(a.hash)>>}
     /\ Scripts("del_del", a) = {<<Del(a.hash)>>}
    BY ScriptValues, Zenon
  <2>2. QED  BY <1>3, <2>1, Zenon
<1>6. \A s \in Scripts("del_select1", a) : Tail(s) \in Scripts("del_lrem", a)
  <2>1. Scripts("del_select1", a) = {<<Select(1), Lrem(a.entry.id, a.hash)>>}
     /\ Scripts("del_lrem", a) = {<<Lrem(a.entry.id, a.hash)>>}
    BY ScriptValues, Zenon
  <2> DEFINE x == Select(1)
             y == Lrem(a.entry.id, a.hash)
  <2>2. Scripts("del_select1", a) = {<<x, y>>} /\ Scripts("del_lrem", a) = {<<y>>}
    BY <2>1
  <2> HIDE DEF x, y
  <2>3. QED  BY <1>3, <2>2, Zenon
<1>7. \A s \in Scripts("id_select", a) : Tail(s) \in Scripts("id_lrange", a)
  <2>1. Scripts("id_select", a) = {<<Select(1), Lrange(a.id), Select(0)>>}
     /\ Scripts("id_lrange", a) = {<<Lrange(a.id), Select(0)>>}
    BY ScriptValues, Zenon
  <2>2. QED  BY <1>4, <2>1, Zenon
<1>8. \A s \in Scripts("id_lrange", a) : Tail(s) \in Scripts("id_select0", a)
  <2>1. Scripts("id_lrange", a) = {<<Lrange(a.id), Select(0)>>}
     /\ Scripts("id_select0", a) = {<<Select(0)>>}
    BY ScriptValues, Zenon
  <2>2. QED  BY <1>3, <2>1, Zenon
<1>9. \A s \in Scripts("id_lrange", a) : Tail(s) \in Scripts("id_skip", a)
  <2>1. Scripts("id_lrange", a) = {<<Lrange(a.id), Select(0)>>}
     /\ Scripts("id_skip", a) = {<<Select(0)>>}
    BY ScriptValues, Zenon
  <2>2. QED  BY <1>3, <2>1, Zenon
<1>10. \A s \in Scripts("id_select1", a) : Tail(s) \in Scripts("id_delkey", a)
  <2>1. Scripts("id_select1", a) = {<<Select(1), Del(a.id)>>}
     /\ Scripts("id_delkey", a) = {<<Del(a.id)>>}
    BY ScriptValues, Zenon
  <2>2. QED  BY <1>3, <2>1, Zenon
<1>11. \A s \in Scripts("count_select", a) : Tail(s) \in Scripts("count_size", a)
  <2>1. Scripts("count_select", a) = {<<Select(0), Dbsize>>}
     /\ Scripts("count_size", a) = {<<Dbsize>>}
    BY ScriptValues, Zenon
  <2>2. QED  BY <1>3, <2>1, Zenon
<1>12. \A s \in Scripts("countid_select", a) : Tail(s) \in Scripts("countid_len", a)
  <2>1. Scripts("countid_select", a) = {<<Select(1), Llen(a.id)>>}
     /\ Scripts("countid_len", a) = {<<Llen(a.id)>>}
    BY ScriptValues, Zenon
  <2>2. QED  BY <1>3, <2>1, Zenon
<1>13. \A s \in Scripts("keys_select", a) : Tail(s) \in Scripts("keys_all", a)
  <2>1. Scripts("keys_select", a) = {<<Select(1), AllKeys>>}
     /\ Scripts("keys_all", a) = {<<AllKeys>>}
    BY ScriptValues, Zenon
  <2>2. QED  BY <1>3, <2>1, Zenon
<1> QED  BY <1>5, <1>6, <1>7, <1>8, <1>9, <1>10, <1>11, <1>12, <1>13

(* The actions of a method that goes on: the last reply of a label is       *)
(* received and the commands of the next are sent, or the next reply of the *)
(* same pipeline is awaited, or the method ends.                            *)
Sends(c) ==
    /\ HasReply(c) /\ at[c] \in Lasts
    /\ \E cmds \in Scripts(at'[c], arg'[c]) : TakeReply(c, cmds)
Goes(c) ==
    /\ HasReply(c) /\ TakeReply(c, <<>>)
    /\ \A s \in Scripts(at[c], arg[c]) : Tail(s) \in Scripts(at'[c], arg'[c])

(* What Goto leaves behind.                                                 *)
LEMMA GoneTo ==
    ASSUME Typed, NEW c \in Clients, NEW here, Received(c, here), NEW to, NEW cmds,
           Goto(c, to, cmds)
    PROVE  /\ HasReply(c) /\ at[c] = here /\ at'[c] = to /\ TakeReply(c, cmds)
           /\ arg' = arg => arg'[c] = arg[c]
           /\ UNCHANGED <<ent, lst, sel, faults, err>>
BY DEF Typed, CallTyped, Received, Goto, server, TakeReply

(* A step that receives the last reply and sends the commands of the next   *)
(* label.                                                                   *)
LEMMA SendsTo ==
    ASSUME Typed, NEW c \in Clients, NEW here \in Lasts, Received(c, here), NEW to, NEW cmds,
           Goto(c, to, cmds), cmds \in Scripts(to, arg'[c])
    PROVE  Sends(c)
BY GoneTo DEF Sends

(* A method that returns sends nothing.                                     *)
LEMMA EndSends ==
    ASSUME Typed, NEW c \in Clients, HasReply(c), at[c] \in Lasts, TakeReply(c, <<>>), Finish(c)
    PROVE  Sends(c)
<1>1. at'[c] = "idle"
  BY DEF Finish, Typed, CallTyped
<1>2. <<>> \in Scripts("idle", arg'[c])
  BY ScriptValues
<1>3. QED  BY <1>1, <1>2 DEF Sends

(* A step that receives a reply and sends nothing.                          *)
LEMMA GoesTo ==
    ASSUME Typed, NEW c \in Clients, NEW here, Received(c, here), NEW to, Goto(c, to, <<>>),
           arg' = arg,
           \A s \in Scripts(here, arg[c]) : Tail(s) \in Scripts(to, arg[c])
    PROVE  Goes(c)
<1>1. HasReply(c) /\ at[c] = here /\ at'[c] = to /\ TakeReply(c, <<>>) /\ arg'[c] = arg[c]
  BY GoneTo
<1>2. QED  BY <1>1 DEF Goes

(* The steps of Put either send the next script or move along it.           *)
LEMMA PutKinds ==
    ASSUME Typed, NEW c \in Clients,
           PutSelected(c) \/ PutKeeps(c) \/ PutProceeds(c) \/ PutStored(c)
             \/ PutListing(c) \/ PutListed(c)
    PROVE  Sends(c)
<1>1. Putting \subseteq Lasts
  BY DEF Putting, Lasts
<1>2. CASE PutKeeps(c) \/ PutListed(c)
  <2>1. /\ HasReply(c) /\ at[c] \in Putting /\ TakeReply(c, <<>>) /\ Finish(c)
    BY <1>2 DEF PutKeeps, PutListed, Received, Return, Putting
  <2>2. QED  BY <1>1, <2>1, EndSends
<1>3. PICK here \in Putting : Received(c, here) /\ (~(PutKeeps(c) \/ PutListed(c)) => arg' = arg)
  BY DEF PutSelected, PutKeeps, PutProceeds, PutStored, PutListing, PutListed, Putting
<1>4. CASE PutSelected(c)
  <2>1. \/ Goto(c, "put_hmset", <<Hmset(arg[c].hash, arg[c].entry, arg[c].overwrite)>>)
        \/ Goto(c, "put_exists", <<Exists(arg[c].hash)>>)
    BY <1>4 DEF PutSelected, StoreFrame
  <2>2. Received(c, "put_select") /\ arg' = arg /\ "put_select" \in Lasts
    BY <1>4 DEF PutSelected, Lasts
  <2>3. QED  BY <2>1, <2>2, ScriptValues, SendsTo
<1>5. CASE PutProceeds(c)
  <2>1. Goto(c, "put_hmset", <<Hmset(arg[c].hash, arg[c].entry, arg[c].overwrite)>>)
    BY <1>5 DEF PutProceeds, StoreFrame
  <2>2. Received(c, "put_exists") /\ arg' = arg /\ "put_exists" \in Lasts
    BY <1>5 DEF PutProceeds, Lasts
  <2>3. QED  BY <2>1, <2>2, ScriptValues, SendsTo
<1>6. CASE PutStored(c)
  <2>1. Received(c, "put_hmset") /\ arg' = arg /\ "put_hmset" \in Lasts
        /\ Goto(c, "put_select1", <<Select(1)>>)
    BY <1>6 DEF PutStored, Lasts
  <2>2. QED  BY <2>1, ScriptValues, SendsTo
<1>7. CASE PutListing(c)
  <2>1. Received(c, "put_select1") /\ arg' = arg /\ "put_select1" \in Lasts
        /\ Goto(c, "put_lpush", <<Lpush(arg[c].entry.id, arg[c].hash)>>)
    BY <1>7 DEF PutListing, Lasts
  <2>2. QED  BY <2>1, ScriptValues, SendsTo
<1>8. QED  BY <1>2, <1>4, <1>5, <1>6, <1>7

(* The steps of Get and Lookup.                                             *)
LEMMA LookKinds ==
    ASSUME Typed, NEW c \in Clients,
           Selected(c) \/ GetDone(c) \/ FoundUnparsable(c) \/ QuerySelected(c)
             \/ CountDone(c) \/ CountIdDone(c) \/ EntriesDone(c)
    PROVE  Sends(c) \/ Goes(c)
<1>1. CASE Selected(c)
  <2>1. \/ Received(c, "get_select") /\ Goto(c, "get_all", <<Hgetall(arg[c].hash)>>)
        \/ Received(c, "look_select") /\ Goto(c, "look_all", <<Hgetall(arg[c].hash)>>)
    BY <1>1 DEF Selected
  <2>2. arg' = arg /\ {"get_select", "look_select"} \subseteq Lasts
    BY <1>1 DEF Selected, Lasts
  <2>3. QED  BY <2>1, <2>2, ScriptValues, SendsTo
<1>2. CASE QuerySelected(c)
  <2>1. \/ Received(c, "count_select") /\ Goto(c, "count_size", <<>>)
        \/ Received(c, "countid_select") /\ Goto(c, "countid_len", <<>>)
        \/ Received(c, "keys_select") /\ Goto(c, "keys_all", <<>>)
    BY <1>2 DEF QuerySelected
  <2>2. arg' = arg
    BY <1>2 DEF QuerySelected
  <2>3. /\ \A s \in Scripts("count_select", arg[c]) : Tail(s) \in Scripts("count_size", arg[c])
        /\ \A s \in Scripts("countid_select", arg[c]) : Tail(s) \in Scripts("countid_len", arg[c])
        /\ \A s \in Scripts("keys_select", arg[c]) : Tail(s) \in Scripts("keys_all", arg[c])
    BY ScriptTails
  <2>4. QED  BY <2>1, <2>2, <2>3, GoesTo
<1>3. CASE GetDone(c) \/ CountDone(c) \/ CountIdDone(c) \/ EntriesDone(c)
  <2>1. HasReply(c) /\ at[c] \in {"get_all", "count_size", "countid_len", "keys_all"}
        /\ TakeReply(c, <<>>) /\ Finish(c)
    BY <1>3 DEF GetDone, CountDone, CountIdDone, EntriesDone, Received, ReturnValue
  <2>2. QED  BY <2>1, EndSends DEF Lasts
<1>4. CASE FoundUnparsable(c)
  <2>1. HasReply(c) /\ at[c] \in {"get_all", "look_all"} /\ TakeReply(c, <<>>) /\ Finish(c)
    BY <1>4 DEF FoundUnparsable, Received, Return
  <2>2. QED  BY <2>1, EndSends DEF Lasts
<1>5. QED  BY <1>1, <1>2, <1>3, <1>4

(* The steps of DeleteHash.                                                 *)
LEMMA DeleteHashKinds ==
    ASSUME Typed, NEW c \in Clients,
           DeleteAbsent(c) \/ DeleteFound(c) \/ DeleteSelected(c) \/ DeleteErased(c)
             \/ DeleteUnlisting(c) \/ DeleteUnlisted(c)
    PROVE  Sends(c) \/ Goes(c)
<1>1. {"look_all", "del_del", "del_lrem"} \subseteq Lasts
  BY DEF Lasts
<1>2. CASE DeleteAbsent(c) \/ DeleteUnlisted(c)
  <2>1. HasReply(c) /\ at[c] \in {"look_all", "del_lrem"} /\ TakeReply(c, <<>>) /\ Finish(c)
    BY <1>2 DEF DeleteAbsent, DeleteUnlisted, Received, Return
  <2>2. QED  BY <1>1, <2>1, EndSends
<1>3. CASE DeleteFound(c)
  <2>1. Received(c, "look_all") /\ Goto(c, "del_select", <<Select(0), Del(arg[c].hash)>>)
        /\ arg'[c].hash = arg[c].hash
    BY <1>3 DEF DeleteFound, Typed, CallTyped, Arguments
  <2>2. QED  BY <1>1, <2>1, ScriptValues, SendsTo
<1>4. CASE DeleteSelected(c)
  <2>1. Received(c, "del_select") /\ Goto(c, "del_del", <<>>) /\ arg' = arg
    BY <1>4 DEF DeleteSelected
  <2>2. \A s \in Scripts("del_select", arg[c]) : Tail(s) \in Scripts("del_del", arg[c])
    BY ScriptTails
  <2>3. QED  BY <2>1, <2>2, GoesTo
<1>5. CASE DeleteErased(c)
  <2>1. Received(c, "del_del") /\ arg' = arg
        /\ Goto(c, "del_select1", <<Select(1), Lrem(arg[c].entry.id, arg[c].hash)>>)
    BY <1>5 DEF DeleteErased
  <2>2. QED  BY <1>1, <2>1, ScriptValues, SendsTo
<1>6. CASE DeleteUnlisting(c)
  <2>1. Received(c, "del_select1") /\ Goto(c, "del_lrem", <<>>) /\ arg' = arg
    BY <1>6 DEF DeleteUnlisting
  <2>2. \A s \in Scripts("del_select1", arg[c]) : Tail(s) \in Scripts("del_lrem", arg[c])
    BY ScriptTails
  <2>3. QED  BY <2>1, <2>2, GoesTo
<1>7. QED  BY <1>2, <1>3, <1>4, <1>5, <1>6

(* The steps of DeleteEntry(id).                                            *)
LEMMA DeleteIdKinds ==
    ASSUME Typed, NEW c \in Clients,
           IdSelected(c) \/ IdRanged(c) \/ IdSkipped(c) \/ IdDeleteNext(c) \/ IdEmptied(c)
             \/ IdSelected1(c) \/ IdDeleted(c)
    PROVE  Sends(c) \/ Goes(c)
<1>1. {"id_skip", "id_delkey", "id_select0", "id_del"} \subseteq Lasts
  BY DEF Lasts
<1>2. CASE IdSkipped(c) \/ IdDeleted(c)
  <2>1. HasReply(c) /\ at[c] \in {"id_skip", "id_delkey"} /\ TakeReply(c, <<>>) /\ Finish(c)
    BY <1>2 DEF IdSkipped, IdDeleted, Received, Return
  <2>2. QED  BY <1>1, <2>1, EndSends
<1>3. CASE IdSelected(c)
  <2>1. Received(c, "id_select") /\ Goto(c, "id_lrange", <<>>) /\ arg' = arg
    BY <1>3 DEF IdSelected
  <2>2. \A s \in Scripts("id_select", arg[c]) : Tail(s) \in Scripts("id_lrange", arg[c])
    BY ScriptTails
  <2>3. QED  BY <2>1, <2>2, GoesTo
<1>4. CASE IdRanged(c)
  <2>1. PICK to \in {"id_select0", "id_skip"} :
          Received(c, "id_lrange") /\ Goto(c, to, <<>>) /\ arg' = arg
    BY <1>4 DEF IdRanged
  <2>2. \A s \in Scripts("id_lrange", arg[c]) : Tail(s) \in Scripts(to, arg[c])
    BY ScriptTails
  <2>3. QED  BY <2>1, <2>2, GoesTo
<1>5. CASE IdDeleteNext(c)
  <2>1. PICK here \in {"id_select0", "id_del"}, k \in Keys :
          Received(c, here) /\ Goto(c, "id_del", <<Del(k)>>)
    BY <1>5 DEF IdDeleteNext, Deleting
  <2>2. <<Del(k)>> \in Scripts("id_del", arg'[c])
    BY ScriptValues
  <2>3. QED  BY <1>1, <2>1, <2>2, SendsTo
<1>6. CASE IdEmptied(c)
  <2>1. PICK here \in {"id_select0", "id_del"} :
          Received(c, here) /\ Goto(c, "id_select1", <<Select(1), Del(arg[c].id)>>) /\ arg' = arg
    BY <1>6 DEF IdEmptied, Deleting
  <2>2. QED  BY <1>1, <2>1, ScriptValues, SendsTo
<1>7. CASE IdSelected1(c)
  <2>1. Received(c, "id_select1") /\ Goto(c, "id_delkey", <<>>) /\ arg' = arg
    BY <1>7 DEF IdSelected1
  <2>2. \A s \in Scripts("id_select1", arg[c]) : Tail(s) \in Scripts("id_delkey", arg[c])
    BY ScriptTails
  <2>3. QED  BY <2>1, <2>2, GoesTo
<1>8. QED  BY <1>2, <1>3, <1>4, <1>5, <1>6, <1>7

(* A method that goes on without an error awaits what its label says.       *)
LEMMA ContinueWaits ==
    ASSUME Typed, Typed', InOrder, NEW c \in Clients, Waits(c), Continue(c),
           Throw(c) => at[c] \in Lasts
    PROVE  Waits(c)'
<1>1. Sends(c) \/ Goes(c)
  <2>1. CASE Throw(c)
    BY <2>1, EndSends DEF Throw
  <2>2. QED  BY <2>1, PutKinds, LookKinds, DeleteHashKinds, DeleteIdKinds DEF Continue
<1>2. CASE Sends(c)
  <2>1. PICK cmds \in Scripts(at'[c], arg'[c]) : TakeReply(c, cmds)
    BY <1>2 DEF Sends
  <2>2. at'[c] \in Labels /\ arg'[c] \in Arguments /\ FitsLabel(at'[c], arg'[c])
    BY DEF Typed, CallTyped, Fits, FitsLabel
  <2>3. cmds \in Seq(Command)
    BY <2>2, ScriptTypes
  <2>4. QED  BY <1>2, <2>1, <2>3, SendWaits DEF Sends
<1>3. CASE Goes(c)
  BY <1>3, NextWaits DEF Goes
<1>4. QED  BY <1>1, <1>2, <1>3

(* A call sends the script of a first label: no EXISTS and no HMSET.        *)
LEMMA CallBegins ==
    ASSUME NEW c \in Clients, Call(c)
    PROVE  \E op, a, to, cmds :
             /\ Begin(c, op, a, to, cmds) /\ cmds \in Scripts(to, a)
             /\ to \notin {"put_exists", "put_hmset"}
<1>1. CASE CallPut(c)
  BY <1>1, ScriptValues DEF CallPut
<1>2. CASE CallGet(c)
  BY <1>2, ScriptValues DEF CallGet
<1>3. CASE CallDeleteHash(c)
  BY <1>3, ScriptValues DEF CallDeleteHash
<1>4. CASE CallDeleteId(c)
  <2>1. PICK i \in Ids : Begin(c, "DeleteId", [NoArg EXCEPT !.id = i], "id_select",
                               <<Select(1), Lrange(i), Select(0)>>)
    BY <1>4 DEF CallDeleteId
  <2> DEFINE new == [NoArg EXCEPT !.id = i]
             them == <<Select(1), Lrange(i), Select(0)>>
  <2>2. new.id = i
    BY DEF NoArg
  <2>3. them \in Scripts("id_select", new)
    BY <2>2, ScriptValues, Zenon
  <2>4. Begin(c, "DeleteId", new, "id_select", them)
    BY <2>1
  <2> HIDE DEF new, them
  <2>5. QED  BY <2>3, <2>4
<1>5. CASE CallCount(c)
  BY <1>5, ScriptValues DEF CallCount
<1>6. CASE CallCountId(c)
  <2>1. PICK i \in Ids : Begin(c, "CountId", [NoArg EXCEPT !.id = i], "countid_select",
                               <<Select(1), Llen(i)>>)
    BY <1>6 DEF CallCountId
  <2> DEFINE new == [NoArg EXCEPT !.id = i]
             them == <<Select(1), Llen(i)>>
  <2>2. new.id = i
    BY DEF NoArg
  <2>3. them \in Scripts("countid_select", new)
    BY <2>2, ScriptValues, Zenon
  <2>4. Begin(c, "CountId", new, "countid_select", them)
    BY <2>1
  <2> HIDE DEF new, them
  <2>5. QED  BY <2>3, <2>4
<1>7. CASE CallEntries(c)
  BY <1>7, ScriptValues DEF CallEntries
<1>8. QED  BY <1>1, <1>2, <1>3, <1>4, <1>5, <1>6, <1>7 DEF Call

(* A method that is called awaits what its first label says.                *)
LEMMA CallWaits ==
    ASSUME Typed, Typed', InOrder, NEW c \in Clients, Call(c)
    PROVE  Waits(c)'
<1>1. PICK op, a, to, cmds : Begin(c, op, a, to, cmds) /\ cmds \in Scripts(to, a)
  BY CallBegins
<1>2. at'[c] = to /\ arg'[c] = a
  BY <1>1 DEF Begin, Typed, CallTyped
<1>3. at'[c] \in Labels /\ arg'[c] \in Arguments /\ FitsLabel(at'[c], arg'[c])
  BY DEF Typed, CallTyped, Fits, FitsLabel
<1>4. cmds \in Seq(Command)
  BY <1>1, <1>2, <1>3, ScriptTypes
<1>5. Queue(c)' = cmds /\ Answered(c)' = <<>>
  BY <1>1, <1>4, Begun
<1>6. QED  BY <1>1, <1>2, <1>4, <1>5, FreshWaits

-----------------------------------------------------------------------------
(* A step of one client leaves the others' connections and calls alone.     *)
Step(c) == \/ Call(c) \/ Continue(c) \/ Transfer(c) \/ Served(c) \/ Refused(c)
           \/ LoseConnection(c) \/ ReadPastEnd(c)

(* A step of the program is a step of one client.                           *)
LEMMA NextIsStep == Next <=> \E c \in Clients : Step(c)
BY DEF Next, Step

Spares(c) ==
    \A b \in Clients \ {c} :
        /\ Queue(b)' = Queue(b) /\ Answered(b)' = Answered(b) /\ err'[b] = err[b]
        /\ at'[b] = at[b] /\ arg'[b] = arg[b] /\ todo'[b] = todo[b] /\ sel'[b] = sel[b]
        /\ wire'[b] = wire[b] /\ obuf'[b] = obuf[b] /\ rdr'[b] = rdr[b] /\ sock'[b] = sock[b]

(* Enough for a step to spare the other clients.                            *)
LEMMA Sparing ==
    ASSUME NEW c \in Clients,
           \A b \in Clients \ {c} :
               /\ rdr'[b] = rdr[b] /\ sock'[b] = sock[b] /\ wire'[b] = wire[b]
               /\ obuf'[b] = obuf[b] /\ err'[b] = err[b] /\ sel'[b] = sel[b],
           \A b \in Clients \ {c} : at'[b] = at[b] /\ arg'[b] = arg[b] /\ todo'[b] = todo[b]
    PROVE  Spares(c)
BY DEF Spares, Queue, Answered

(* A method that goes on changes nothing of the server.                     *)
LEMMA ContinueChanges ==
    ASSUME Typed, NEW c \in Clients, Continue(c)
    PROVE  /\ HasReply(c) /\ UNCHANGED server
           /\ \E cmds : TakeReply(c, cmds)
           /\ \A b \in Clients \ {c} : at'[b] = at[b] /\ arg'[b] = arg[b] /\ todo'[b] = todo[b]
<1>1. CASE \/ PutSelected(c) \/ PutKeeps(c) \/ PutProceeds(c) \/ PutStored(c)
           \/ PutListing(c) \/ PutListed(c)
  BY <1>1 DEF Typed, CallTyped, PutSelected, PutKeeps, PutProceeds, PutStored, PutListing,
              PutListed, StoreFrame, Received, Goto, Return, Finish
<1>2. CASE \/ Selected(c) \/ GetDone(c) \/ FoundUnparsable(c) \/ QuerySelected(c)
           \/ CountDone(c) \/ CountIdDone(c) \/ EntriesDone(c) \/ Throw(c)
  BY <1>2 DEF Typed, CallTyped, Selected, GetDone, FoundUnparsable, QuerySelected, CountDone,
              CountIdDone, EntriesDone, Throw, Received, Goto, Return, ReturnValue, Finish, server
<1>3. CASE \/ DeleteAbsent(c) \/ DeleteFound(c) \/ DeleteSelected(c) \/ DeleteErased(c)
           \/ DeleteUnlisting(c) \/ DeleteUnlisted(c)
  BY <1>3 DEF Typed, CallTyped, DeleteAbsent, DeleteFound, DeleteSelected, DeleteErased,
              DeleteUnlisting, DeleteUnlisted, Received, Goto, Return, Finish
<1>4. CASE \/ IdSelected(c) \/ IdRanged(c) \/ IdSkipped(c) \/ IdDeleteNext(c)
           \/ IdEmptied(c) \/ IdSelected1(c) \/ IdDeleted(c)
  BY <1>4 DEF Typed, CallTyped, IdSelected, IdRanged, IdSkipped, IdDeleteNext, IdEmptied,
              IdSelected1, IdDeleted, Deleting, Received, Goto, Return, Finish
<1>5. QED  BY <1>1, <1>2, <1>3, <1>4 DEF Continue

(* A step of one client changes nothing of another.                         *)
LEMMA StepSpares ==
    ASSUME Typed, NEW c \in Clients, Step(c)
    PROVE  Spares(c)
<1>1. CASE Call(c)
  <2>1. PICK op, a, to, cmds : Begin(c, op, a, to, cmds)
    BY <1>1 DEF Call, CallPut, CallGet, CallDeleteHash, CallDeleteId, CallCount, CallCountId,
                CallEntries
  <2>2. QED
    BY <2>1, Sparing DEF Begin, AppendCommands, server, Typed, ChannelTyped, CallTyped
<1>2. CASE Continue(c)
  <2>1. /\ UNCHANGED server
        /\ \A b \in Clients \ {c} : at'[b] = at[b] /\ arg'[b] = arg[b] /\ todo'[b] = todo[b]
    BY <1>2, ContinueChanges
  <2>2. PICK cmds : TakeReply(c, cmds)
    BY <1>2, ContinueChanges
  <2>3. \A b \in Clients \ {c} :
            /\ rdr'[b] = rdr[b] /\ sock'[b] = sock[b] /\ wire'[b] = wire[b]
            /\ obuf'[b] = obuf[b] /\ err'[b] = err[b] /\ sel'[b] = sel[b]
    BY <2>1, <2>2 DEF TakeReply, AppendCommands, server, Typed, ChannelTyped
  <2>4. QED  BY <2>1, <2>3, Sparing
<1>3. CASE Transfer(c)
  BY <1>3, Transferred, Sparing
     DEF Transfer, BufferWrite, BufferRead, Typed, ChannelTyped
<1>4. CASE Served(c) \/ Refused(c)
  <2>1. \A q : Serve(c, q) => \A b \in Clients \ {c} :
          /\ rdr'[b] = rdr[b] /\ sock'[b] = sock[b] /\ wire'[b] = wire[b]
          /\ obuf'[b] = obuf[b] /\ err'[b] = err[b]
    BY DEF Serve, Typed, ChannelTyped
  <2>2. \A b \in Clients \ {c} : sel'[b] = sel[b]
    BY <1>4 DEF Served, Refused, Perform, Refuse, Execute, Fault, Typed, ServerTyped
  <2>3. QED  BY <1>4, <2>1, <2>2, Sparing DEF Served, Refused, Perform, Refuse, call
<1>5. CASE LoseConnection(c) \/ ReadPastEnd(c)
  <2>1. Drop(c) /\ sel' = sel
    BY <1>5 DEF LoseConnection, Lose, Fault, ReadPastEnd, Received, server
  <2>2. \A b \in Clients \ {c} : at'[b] = at[b] /\ arg'[b] = arg[b] /\ todo'[b] = todo[b]
    BY <1>5 DEF LoseConnection, ReadPastEnd, Finish, Typed, CallTyped
  <2>3. \A b \in Clients \ {c} :
            /\ rdr'[b] = rdr[b] /\ sock'[b] = sock[b] /\ wire'[b] = wire[b]
            /\ obuf'[b] = obuf[b] /\ err'[b] = err[b]
    BY <2>1 DEF Drop, Typed, ChannelTyped
  <2>4. QED  BY <2>1, <2>2, <2>3, Sparing
<1>6. QED  BY <1>1, <1>2, <1>3, <1>4, <1>5 DEF Step

(* The client of a step has what its method awaits queued. *)
LEMMA StepWaits ==
    ASSUME Typed, Typed', InOrder, NEW c \in Clients, ~err[c] => Waits(c), Step(c),
           Throw(c) => at[c] \in Lasts
    PROVE  ~err'[c] => Waits(c)'
<1>1. CASE Call(c)
  BY <1>1, CallWaits
<1>2. CASE Continue(c)
  BY <1>2, ContinueChanges, ContinueWaits DEF HasReply
<1>3. CASE Transfer(c)
  BY <1>3, Transferred, TransferWaits DEF Transfer, BufferWrite, BufferRead, Waiting
<1>4. CASE Served(c) \/ Refused(c)
  <2>1. err' = err
    BY <1>4, ServedAnswers
  <2>2. QED  BY <1>4, <2>1, ServeWaits
<1>5. CASE LoseConnection(c) \/ ReadPastEnd(c)
  BY <1>5 DEF LoseConnection, Lose, ReadPastEnd, Drop, Typed, ChannelTyped
<1>6. QED  BY <1>1, <1>2, <1>3, <1>4, <1>5 DEF Step

(* Every client without an error has queued what its method awaits.         *)
LEMMA CommandedStep ==
    ASSUME Typed, Typed', InOrder, Commanded, [Next]_vars,
           \A c \in Clients : Throw(c) => at[c] \in Lasts
    PROVE  Commanded'
<1>1. CASE Next
  <2>1. PICK c \in Clients : Step(c)
    BY <1>1, NextIsStep
  <2>2. ~err'[c] => Waits(c)'
    BY <2>1, StepWaits DEF Commanded
  <2>3. ASSUME NEW b \in Clients \ {c}, ~err'[b] PROVE Waits(b)'
    <3>1. /\ Queue(b)' = Queue(b) /\ Answered(b)' = Answered(b) /\ err'[b] = err[b]
          /\ at'[b] = at[b] /\ arg'[b] = arg[b]
      BY <2>1, StepSpares DEF Spares
    <3>2. Waits(b)
      BY <2>3, <3>1 DEF Commanded
    <3>3. QED  BY <3>1, <3>2 DEF Waits
  <2>4. QED  BY <2>2, <2>3 DEF Commanded
<1>2. CASE UNCHANGED vars
  <2>1. ASSUME NEW b \in Clients, ~err'[b] PROVE Waits(b)'
    <3>1. /\ Queue(b)' = Queue(b) /\ Answered(b)' = Answered(b) /\ err'[b] = err[b]
          /\ at'[b] = at[b] /\ arg'[b] = arg[b]
      BY <1>2 DEF vars, Queue, Answered
    <3>2. Waits(b)
      BY <2>1, <3>1 DEF Commanded
    <3>3. QED  BY <3>1, <3>2 DEF Waits
  <2>2. QED  BY <2>1 DEF Commanded
<1>3. QED  BY <1>1, <1>2

(* A method throws on the last reply it awaits.                             *)
LEMMA ThrowsLast ==
    ASSUME Typed, InOrder, StaysNarrow, PipelinesHold, NEW c \in Clients, Throw(c)
    PROVE  at[c] \in Lasts
<1>1. HasReply(c) /\ at[c] \notin {"idle", "crashed"} /\ at[c] \in Labels
  BY HasAwaited DEF Throw, Typed, CallTyped
<1>2. Reply(c) \in Replies /\ Reply(c).type = "error"
  BY <1>1, ReplyTyped DEF Throw, Typed
<1>3. Head(Awaited(at[c])) \in Refusable
  BY <1>1, <1>2, HeadIsAwaited DEF Replies
<1>4. at[c] \in Narrow \/ Head(Awaited(at[c])) \notin {"SELECT", "LRANGE"}
  BY <1>3 DEF PipelinesHold, StaysNarrow
<1>5. ASSUME NEW l \in Labels \ (Lasts \cup {"idle", "crashed"})
      PROVE  Head(Awaited(l)) \in {"SELECT", "LRANGE"} /\ l \notin Narrow
  <2>1. \A x, y : Head(<<x, y>>) = x
    OBVIOUS
  <2>2. \A x, y, z : Head(<<x, y, z>>) = x
    OBVIOUS
  <2>3. QED  BY <2>1, <2>2, AwaitedValues DEF Labels, Lasts, Narrow
<1>6. QED  BY <1>1, <1>4, <1>5

(* Nothing is awaited at the start.                                         *)
LEMMA InitCommanded == Init => Commanded
<1> SUFFICES ASSUME Init, NEW c \in Clients PROVE Waits(c)
  BY DEF Commanded
<1>1. <<>> \o <<>> = <<>>
  OBVIOUS
<1>2. Queue(c) = <<>> /\ Answered(c) = <<>> /\ at[c] = "idle"
  BY <1>1 DEF Init, ContextInit, Queue, Answered
<1>3. <<>> \in Scripts(at[c], arg[c]) /\ <<>> \in Seq(Command)
  BY <1>2, ScriptValues
<1>4. Len(<<>>) = 0 /\ Rest(<<>>, 0) = <<>>
  BY <1>3, RestAll
<1>5. QED  BY <1>2, <1>3, <1>4 DEF Waits

-----------------------------------------------------------------------------
(* Puts and Gets of any number of clients.  The orphans are charged to the  *)
(* faults, each to one of its own, or covered by a Put whose HMSET has been *)
(* executed and whose LPUSH has not.  The HMSET of a lost connection that   *)
(* may still be executed is charged too.                                    *)
Covers(c, h) ==
    /\ ~err[c] /\ at[c] \in {"put_hmset", "put_select1", "put_lpush"}
    /\ at[c] = "put_hmset" => Answered(c) # <<>>
    /\ at[c] = "put_lpush" => Answered(c) = <<>>
    /\ arg[c].hash = h
    /\ ent[0][h] # None /\ arg[c].entry.id = ent[0][h].id
    /\ \A n \in 1 .. Len(Answered(c)) : Answered(c)[n].type # "error"

Late == {c \in Clients : err[c] /\ \E n \in 1 .. Len(Queue(c)) : Queue(c)[n].name = "HMSET"}

Charged(L) ==
    /\ L \in SUBSET Hashes /\ IsFiniteSet(L)
    /\ Cardinality(L) + Cardinality(Late) <= faults
    /\ \A h \in Orphans : h \in L \/ \E c \in Clients : Covers(c, h)
Paid == \E L \in SUBSET Hashes : Charged(L)

(* The clients that lost a connection with an HMSET under way are finitely  *)
(* many.                                                                    *)
LEMMA LateIs ==
    ASSUME IsFiniteSet(Clients)
    PROVE  Late \subseteq Clients /\ IsFiniteSet(Late) /\ Cardinality(Late) \in Nat
<1>1. Late \in SUBSET Clients
  BY DEF Late
<1>2. IsFiniteSet(Late)
  BY <1>1, FS_Subset
<1>3. QED  BY <1>1, <1>2, FS_CardinalityType

(* A step of a client adds no other to them.                                *)
LEMMA LateNext ==
    ASSUME NEW c \in Clients, Spares(c), c \in Late' => c \in Late
    PROVE  Late' \subseteq Late
BY DEF Late, Spares

(* Fewer of them count less.                                                *)
LEMMA LessLate ==
    ASSUME IsFiniteSet(Clients), Late' \subseteq Late
    PROVE  Cardinality(Late') <= Cardinality(Late) /\ Cardinality(Late') \in Nat
<1>1. IsFiniteSet(Late) /\ Late' \in SUBSET Late
  BY LateIs
<1>2. IsFiniteSet(Late') /\ Cardinality(Late') <= Cardinality(Late)
  BY <1>1, FS_Subset
<1>3. QED  BY <1>2, FS_CardinalityType

(* Three ways the account is kept: nothing is charged, a fault pays for a   *)
(* hash or for a lost connection, a lost HMSET that is executed for the     *)
(* hash it stores.                                                          *)
LEMMA Keeps ==
    ASSUME IsFiniteSet(Clients), NEW L, Charged(L), Typed, faults' \in Nat, faults' >= faults,
           Late' \subseteq Late, \A h \in Orphans' : h \in L \/ \E b \in Clients : Covers(b, h)'
    PROVE  Charged(L)'
<1>1. Cardinality(Late') <= Cardinality(Late) /\ Cardinality(Late') \in Nat
  BY LessLate
<1>2. Cardinality(L) \in Nat /\ Cardinality(Late) \in Nat /\ faults \in Nat
      /\ Cardinality(L) + Cardinality(Late) <= faults
  BY LateIs, FS_CardinalityType, RedisAssumption DEF RedisAssumption, Charged, Typed, ServerTyped
<1>3. Cardinality(L) + Cardinality(Late') <= faults'
  BY <1>1, <1>2
<1>4. QED  BY <1>3 DEF Charged

(* One more element counts for one at most.                                 *)
LEMMA AtMostOneMore ==
    ASSUME NEW S, NEW x, IsFiniteSet(S)
    PROVE  /\ IsFiniteSet(S \cup {x}) /\ Cardinality(S \cup {x}) <= Cardinality(S) + 1
           /\ Cardinality(S \cup {x}) \in Nat
<1>1. /\ IsFiniteSet(S \cup {x})
      /\ Cardinality(S \cup {x}) = IF x \in S THEN Cardinality(S) ELSE Cardinality(S) + 1
  BY FS_AddElement
<1>2. Cardinality(S) \in Nat
  BY FS_CardinalityType
<1>3. QED  BY <1>1, <1>2

(* A fault, or an HMSET that was late and is executed, pays for one hash.   *)
LEMMA PaysHash ==
    ASSUME IsFiniteSet(Clients), NEW L, Charged(L), Typed, NEW x \in Hashes, NEW c \in Clients,
           \/ faults' = faults + 1 /\ Late' \subseteq Late
           \/ faults' = faults /\ c \in Late /\ Late' \subseteq Late \ {c},
           \A h \in Orphans' : h \in L \cup {x} \/ \E b \in Clients : Covers(b, h)'
    PROVE  Charged(L \cup {x})'
<1>1. Cardinality(L) \in Nat /\ Cardinality(Late) \in Nat /\ faults \in Nat
      /\ Cardinality(L) + Cardinality(Late) <= faults /\ IsFiniteSet(L) /\ L \in SUBSET Hashes
  BY LateIs, FS_CardinalityType, RedisAssumption DEF RedisAssumption, Charged, Typed, ServerTyped
<1>2. /\ IsFiniteSet(L \cup {x}) /\ Cardinality(L \cup {x}) <= Cardinality(L) + 1
      /\ Cardinality(L \cup {x}) \in Nat
  BY <1>1, AtMostOneMore
<1>3. Cardinality(L \cup {x}) + Cardinality(Late') <= faults'
  <2>1. CASE faults' = faults + 1 /\ Late' \subseteq Late
    <3>1. Cardinality(Late') <= Cardinality(Late) /\ Cardinality(Late') \in Nat
      BY <2>1, LessLate
    <3>2. QED  BY <1>1, <1>2, <2>1, <3>1
  <2>2. CASE faults' = faults /\ c \in Late /\ Late' \subseteq Late \ {c}
    <3>1. IsFiniteSet(Late) /\ IsFiniteSet(Late \ {c})
          /\ Cardinality(Late \ {c}) = Cardinality(Late) - 1
      BY <2>2, LateIs, FS_RemoveElement
    <3>2. Late' \in SUBSET (Late \ {c})
      BY <2>2
    <3>3. IsFiniteSet(Late') /\ Cardinality(Late') <= Cardinality(Late \ {c})
      BY <3>1, <3>2, FS_Subset
    <3>4. Cardinality(Late') \in Nat
      BY <3>3, FS_CardinalityType
    <3>5. QED  BY <1>1, <1>2, <2>2, <3>1, <3>3, <3>4
  <2>3. QED  BY <2>1, <2>2
<1>4. QED  BY <1>1, <1>2, <1>3 DEF Charged

(* A fault pays for an HMSET left under way by a lost connection.           *)
LEMMA PaysLate ==
    ASSUME IsFiniteSet(Clients), NEW L, Charged(L), Typed, NEW c \in Clients,
           faults' = faults + 1, Late' \subseteq Late \cup {c},
           \A h \in Orphans' : h \in L \/ \E b \in Clients : Covers(b, h)'
    PROVE  Charged(L)'
<1>1. Cardinality(L) \in Nat /\ Cardinality(Late) \in Nat /\ faults \in Nat
      /\ Cardinality(L) + Cardinality(Late) <= faults /\ IsFiniteSet(Late)
  BY LateIs, FS_CardinalityType, RedisAssumption DEF RedisAssumption, Charged, Typed, ServerTyped
<1>2. IsFiniteSet(Late \cup {c}) /\ Cardinality(Late \cup {c}) <= Cardinality(Late) + 1
      /\ Cardinality(Late \cup {c}) \in Nat
  BY <1>1, AtMostOneMore
<1>3. Late' \in SUBSET (Late \cup {c})
  OBVIOUS
<1>4. IsFiniteSet(Late') /\ Cardinality(Late') <= Cardinality(Late \cup {c})
  BY <1>2, <1>3, FS_Subset
<1>5. Cardinality(Late') \in Nat
  BY <1>4, FS_CardinalityType
<1>6. Cardinality(L) + Cardinality(Late') <= faults'
  BY <1>1, <1>2, <1>4, <1>5
<1>7. QED  BY <1>6 DEF Charged

(* A Put covers an orphan while it stands still and the hash keeps its      *)
(* entry.                                                                   *)
LEMMA CoversOn ==
    ASSUME NEW b, NEW h, Covers(b, h), err'[b] = err[b], at'[b] = at[b], arg'[b] = arg[b],
           Answered(b)' = Answered(b), ent'[0][h] = ent[0][h]
    PROVE  Covers(b, h)'
BY DEF Covers

(* A step that neither changes the server nor lets a Put out of its cover.  *)
LEMMA QuietStep ==
    ASSUME IsFiniteSet(Clients), NEW L, Charged(L), Typed, NEW c \in Clients, Spares(c),
           UNCHANGED <<ent, lst, faults>>, c \in Late' => c \in Late,
           \A h \in Hashes : Covers(c, h) => Covers(c, h)'
    PROVE  Charged(L)'
<1>1. Late' \subseteq Late
  BY LateNext
<1>2. faults' \in Nat /\ faults' >= faults
  BY RedisAssumption DEF RedisAssumption, Typed, ServerTyped
<1>3. ASSUME NEW h \in Orphans' PROVE h \in L \/ \E b \in Clients : Covers(b, h)'
  <2>1. h \in Orphans /\ h \in Hashes
    BY DEF Orphans
  <2>2. h \in L \/ \E b \in Clients : Covers(b, h)
    BY <2>1 DEF Charged
  <2>3. ASSUME NEW b \in Clients, Covers(b, h) PROVE Covers(b, h)'
    <3>1. CASE b = c
      BY <2>1, <2>3, <3>1
    <3>2. CASE b # c
      BY <2>3, <3>2, CoversOn DEF Spares
    <3>3. QED  BY <3>1, <3>2
  <2>4. QED  BY <2>2, <2>3
<1>4. QED  BY <1>1, <1>2, <1>3, Keeps

(* Put and Get have one command under way at a time.                        *)
LEMMA NarrowQueue ==
    ASSUME Typed, NEW c \in Clients, Waits(c), at[c] \in Narrow
    PROVE  \/ Queue(c) = <<>>
           \/ /\ Answered(c) = <<>> /\ Queue(c) \in Scripts(at[c], arg[c])
              /\ at[c] \notin {"idle", "crashed"}
<1>1. PICK s \in Scripts(at[c], arg[c]) :
        Len(Answered(c)) <= Len(s) /\ Queue(c) = Rest(s, Len(Answered(c)))
  BY DEF Waits
<1>2. s \in Seq(Command) /\ Len(s) \in Nat
  BY ScriptOf
<1>3. Len(s) <= 1 /\ (at[c] \in {"idle", "crashed"} => s = <<>>)
  <2>1. ASSUME NEW m, s = <<m>> PROVE Len(s) <= 1
    BY <2>1
  <2>2. CASE at[c] \in {"idle", "crashed"}
    BY <2>2, ScriptValues
  <2>3. CASE at[c] \in Narrow \ {"idle", "crashed"}
    <3>1. \E m : s = <<m>>
      BY <2>3, ScriptValues DEF Narrow
    <3>2. QED  BY <2>1, <2>3, <3>1
  <2>4. QED  BY <2>2, <2>3
<1>4. Len(Answered(c)) \in Nat /\ Answered(c) \in Seq(Replies)
  BY QueueTypes
<1>5. CASE Len(Answered(c)) = 0
  <2>1. Answered(c) = <<>> /\ Queue(c) = s
    BY <1>1, <1>2, <1>4, <1>5, RestAll, NoElements
  <2>2. QED  BY <1>3, <2>1
<1>6. CASE Len(Answered(c)) # 0
  <2>1. Len(Answered(c)) \in 0 .. Len(s) /\ ~(Len(Answered(c)) < Len(s))
    BY <1>1, <1>2, <1>3, <1>4, <1>6
  <2>2. QED  BY <1>1, <1>2, <2>1, RestIs
<1>7. QED  BY <1>5, <1>6

(* The commands Puts and Gets send neither erase nor unlist. *)
Mild(c) == \A n \in 1 .. Len(Queue(c)) : Queue(c)[n].name \notin {"DEL", "LREM"}
LostMild == \A c \in Clients : err[c] => Mild(c)

(* The command that Put and Get have under way.                             *)
LEMMA NarrowSends ==
    ASSUME Typed, NEW c \in Clients, Waits(c), at[c] \in Narrow, Queue(c) # <<>>
    PROVE  /\ Answered(c) = <<>> /\ Queue(c) = <<Head(Queue(c))>>
           /\ Head(Queue(c)).name \notin {"DEL", "LREM"}
           /\ Head(Queue(c)).name = "HMSET" =>
                /\ at[c] = "put_hmset"
                /\ Head(Queue(c)) = Hmset(arg[c].hash, arg[c].entry, arg[c].overwrite)
           /\ Head(Queue(c)).name = "LPUSH" =>
                /\ at[c] = "put_lpush"
                /\ Head(Queue(c)) = Lpush(arg[c].entry.id, arg[c].hash)
           /\ at[c] = "put_lpush" => Head(Queue(c)).name = "LPUSH"
<1> DEFINE m == Head(Queue(c))
<1>1. /\ Answered(c) = <<>> /\ Queue(c) \in Scripts(at[c], arg[c])
      /\ at[c] \notin {"idle", "crashed"}
  BY NarrowQueue
<1>2. \A x : Head(<<x>>) = x
  OBVIOUS
<1>3. CASE at[c] \in {"put_select", "get_select", "put_select1"}
  <2>1. PICK d \in {0, 1} : Queue(c) = <<Select(d)>>
    BY <1>1, <1>3, ScriptValues
  <2>2. m = Select(d) /\ m.name = "SELECT"
    BY <1>2, <2>1, CommandNamed
  <2>3. QED  BY <1>1, <1>3, <2>1, <2>2
<1>4. CASE at[c] \in {"put_exists", "get_all"}
  <2>1. Queue(c) = <<Exists(arg[c].hash)>> \/ Queue(c) = <<Hgetall(arg[c].hash)>>
    BY <1>1, <1>4, ScriptValues
  <2>2. (m = Exists(arg[c].hash) \/ m = Hgetall(arg[c].hash)) /\ Queue(c) = <<m>>
    BY <1>2, <2>1
  <2>3. m.name \in {"EXISTS", "HGETALL"}
    BY <2>2 DEF Exists, Hgetall
  <2>4. QED  BY <1>1, <1>4, <2>2, <2>3
<1>5. CASE at[c] = "put_hmset"
  <2>1. Queue(c) = <<Hmset(arg[c].hash, arg[c].entry, arg[c].overwrite)>>
    BY <1>1, <1>5, ScriptValues
  <2>2. m = Hmset(arg[c].hash, arg[c].entry, arg[c].overwrite) /\ Queue(c) = <<m>>
    BY <1>2, <2>1
  <2>3. m.name = "HMSET"
    BY <2>2 DEF Hmset
  <2>4. QED  BY <1>1, <1>5, <2>2, <2>3
<1>6. CASE at[c] = "put_lpush"
  <2>1. Queue(c) = <<Lpush(arg[c].entry.id, arg[c].hash)>>
    BY <1>1, <1>6, ScriptValues
  <2>2. m = Lpush(arg[c].entry.id, arg[c].hash) /\ Queue(c) = <<m>>
    BY <1>2, <2>1
  <2>3. m.name = "LPUSH"
    BY <2>2 DEF Lpush
  <2>4. QED  BY <1>1, <1>6, <2>2, <2>3
<1>7. QED  BY <1>1, <1>3, <1>4, <1>5, <1>6 DEF Narrow

(* Put and Get never queue DEL or LREM.                                     *)
LEMMA LiveMild ==
    ASSUME Typed, NEW c \in Clients, Waits(c), at[c] \in Narrow
    PROVE  Mild(c)
<1>1. CASE Queue(c) = <<>>
  BY <1>1 DEF Mild
<1>2. CASE Queue(c) # <<>>
  <2>1. Queue(c) = <<Head(Queue(c))>> /\ Head(Queue(c)).name \notin {"DEL", "LREM"}
    BY <1>2, NarrowSends
  <2>2. ASSUME NEW m, m.name \notin {"DEL", "LREM"}
        PROVE  \A n \in 1 .. Len(<<m>>) : <<m>>[n].name \notin {"DEL", "LREM"}
    BY <2>2
  <2>3. QED  BY <2>1, <2>2, Zenon DEF Mild
<1>3. QED  BY <1>1, <1>2

(* What is left of one client whose connection is gone.                     *)
LEMMA Dropped ==
    ASSUME Typed, NEW c \in Clients, Drop(c)
    PROVE  /\ err'[c] /\ Len(Queue(c)') \in Nat /\ Len(Queue(c)') <= Len(Queue(c))
           /\ \A k \in 1 .. Len(Queue(c)') : Queue(c)'[k] = Queue(c)[k]
<1>1. PICK n \in 0 .. Len(wire[c]) : wire' = [wire EXCEPT ![c] = SubSeq(@, 1, n)]
  BY DEF Drop
<1> DEFINE v == SubSeq(wire[c], 1, n) \o <<>>
           u == wire[c] \o obuf[c]
<1>2. Queue(c)' = v
  BY <1>1 DEF Drop, Queue, Typed, ChannelTyped
<1>3. /\ Len(v) = n /\ n \in Nat /\ n <= Len(u)
      /\ \A k \in 1 .. n : v[k] = u[k]
  BY BuffersOf, PrefixOf
<1>4. err'[c]
  BY DEF Drop, Typed, ChannelTyped
<1> HIDE DEF u, v
<1>5. Queue(c) = u
  BY DEF u, Queue
<1>6. QED  BY <1>2, <1>3, <1>4, <1>5

(* A method that loses its connection ends.                                 *)
LEMMA Lost ==
    ASSUME Typed, NEW c \in Clients, LoseConnection(c)
    PROVE  /\ ~err[c] /\ err'[c] /\ at[c] # "idle" /\ at'[c] = "idle"
           /\ faults' = faults + 1 /\ ent' = ent /\ lst' = lst
           /\ Len(Queue(c)') \in Nat /\ Len(Queue(c)') <= Len(Queue(c))
           /\ \A k \in 1 .. Len(Queue(c)') : Queue(c)'[k] = Queue(c)[k]
<1>1. Drop(c)
  BY DEF LoseConnection, Lose
<1>2. /\ ~err[c] /\ at[c] # "idle" /\ at'[c] = "idle"
      /\ faults' = faults + 1 /\ ent' = ent /\ lst' = lst
  BY DEF LoseConnection, Lose, Fault, Finish, Typed, CallTyped
<1>3. QED  BY <1>1, <1>2, Dropped

(* A program that dies had nothing but a HGETALL under way, answered.       *)
LEMMA Crash ==
    ASSUME Typed, InOrder, NEW c \in Clients, ReadPastEnd(c)
    PROVE  /\ ~err[c] /\ err'[c] /\ at[c] \in {"get_all", "look_all"} /\ at'[c] = "crashed"
           /\ UNCHANGED <<ent, lst, sel, faults>> /\ Queue(c)' = <<>> /\ obuf'[c] = <<>>
<1>1. at[c] \in {"get_all", "look_all"} /\ HasReply(c) /\ Drop(c)
      /\ UNCHANGED <<ent, lst, sel, faults>>
  BY DEF ReadPastEnd, Received, server
<1>2. at[c] \in Lasts
  BY <1>1 DEF Lasts
<1>3. wire[c] = <<>> /\ obuf[c] = <<>>
  BY <1>1, <1>2, NothingElse
<1>4. Queue(c) = <<>>
  <2>1. <<>> \o <<>> = <<>>
    OBVIOUS
  <2>2. QED  BY <1>3, <2>1 DEF Queue
<1>5. Len(Queue(c)) = 0
  <2>1. Len(<<>>) = 0
    OBVIOUS
  <2>2. QED  BY <1>4, <2>1
<1>6. Queue(c)' = <<>>
  <2>1. obuf'[c] = <<>> /\ \E n \in 0 .. Len(wire[c]) : wire'[c] = SubSeq(wire[c], 1, n)
    BY <1>1 DEF Drop, Typed, ChannelTyped
  <2>2. \A n : SubSeq(<<>>, 1, 0) = <<>>
    OBVIOUS
  <2>3. Len(<<>>) = 0 /\ \A n \in 0 .. 0 : n = 0
    OBVIOUS
  <2>4. wire'[c] = <<>>
    BY <1>3, <2>1, <2>2, <2>3
  <2>5. <<>> \o <<>> = <<>>
    OBVIOUS
  <2>6. QED  BY <2>1, <2>4, <2>5 DEF Queue
<1>7. err'[c] /\ at'[c] = "crashed" /\ ~err[c] /\ obuf'[c] = <<>>
  BY <1>1 DEF ReadPastEnd, HasReply, Drop, Typed, ChannelTyped, CallTyped
<1>8. QED  BY <1>1, <1>6, <1>7

(* No lost connection has a DEL or an LREM under way.                       *)
LEMMA LostMildStep ==
    ASSUME Typed, InOrder, Commanded, StaysNarrow, Ops \subseteq {"Put", "Get"}, LostMild,
           NEW c \in Clients, Step(c)
    PROVE  LostMild'
<1>1. ASSUME NEW b \in Clients \ {c}, err'[b] PROVE Mild(b)'
  BY <1>1, StepSpares DEF LostMild, Mild, Spares
<1>2. ASSUME err'[c] PROVE Mild(c)'
  <2>1. CASE Call(c)
    BY <1>2, <2>1 DEF Call, CallPut, CallGet, CallDeleteHash, CallDeleteId, CallCount,
                      CallCountId, CallEntries, Begin
  <2>2. CASE Continue(c)
    <3>1. HasReply(c) /\ \E cmds : TakeReply(c, cmds)
      BY <2>2, ContinueChanges
    <3>2. QED  BY <1>2, <3>1 DEF HasReply, TakeReply
  <2>3. CASE Transfer(c)
    BY <1>2, <2>3 DEF Transfer, BufferWrite, BufferRead, Waiting
  <2>4. CASE Served(c) \/ Refused(c)
    <3>1. Queue(c) # <<>> /\ Queue(c)' = Tail(Queue(c)) /\ err' = err
      BY <2>4, ServedAnswers
    <3>2. Mild(c)
      BY <1>2, <3>1 DEF LostMild
    <3>3. /\ Len(Tail(Queue(c))) = Len(Queue(c)) - 1 /\ Len(Queue(c)) \in Nat
          /\ \A n \in 1 .. Len(Queue(c)) - 1 : Tail(Queue(c))[n] = Queue(c)[n + 1]
      BY <3>1, QueueTypes, HeadTailProperties
    <3>4. QED  BY <3>1, <3>2, <3>3 DEF Mild
  <2>5. CASE LoseConnection(c)
    <3>1. Mild(c)
      BY <2>5, Lost, LiveMild DEF Commanded, StaysNarrow
    <3>2. Len(Queue(c)) \in Nat
      BY QueueTypes
    <3>3. QED  BY <2>5, <3>1, <3>2, Lost DEF Mild
  <2>6. CASE ReadPastEnd(c)
    <3>1. Queue(c)' = <<>>
      BY <2>6, Crash
    <3>2. Len(<<>>) = 0 /\ 1 .. 0 = {}
      OBVIOUS
    <3>3. QED  BY <3>1, <3>2 DEF Mild
  <2>7. QED  BY <2>1, <2>2, <2>3, <2>4, <2>5, <2>6 DEF Step
<1>3. QED  BY <1>1, <1>2 DEF LostMild

(* The steps of a method. *)
LEMMA MethodPaid ==
    ASSUME IsFiniteSet(Clients), NEW L, Charged(L), Typed, InOrder, NEW c \in Clients,
           Call(c) \/ Continue(c) \/ Transfer(c) \/ ReadPastEnd(c)
    PROVE  Charged(L)'
<1>1. Spares(c)
  BY StepSpares DEF Step
<1>2. CASE Call(c)
  <2>1. at[c] = "idle" /\ ~err[c] /\ err' = err /\ UNCHANGED <<ent, lst, faults>>
    BY <1>2 DEF Call, CallPut, CallGet, CallDeleteHash, CallDeleteId, CallCount, CallCountId,
                CallEntries, Begin, server
  <2>2. QED  BY <1>1, <2>1, QuietStep DEF Covers, Late
<1>3. CASE Transfer(c)
  <2>1. err' = err /\ ~err[c] /\ UNCHANGED <<ent, lst, faults, at, arg>>
        /\ Answered(c)' = Answered(c)
    BY <1>3, Transferred DEF Transfer, BufferWrite, BufferRead, Waiting
  <2>2. \A h \in Hashes : Covers(c, h) => Covers(c, h)'
    BY <2>1, CoversOn
  <2>3. c \notin Late'
    BY <2>1 DEF Late
  <2>4. QED  BY <1>1, <2>1, <2>2, <2>3, QuietStep
<1>4. CASE ReadPastEnd(c)
  <2>1. /\ at[c] \in {"get_all", "look_all"} /\ Queue(c)' = <<>>
        /\ UNCHANGED <<ent, lst, faults>>
    BY <1>4, Crash
  <2>2. \A h \in Hashes : ~Covers(c, h)
    BY <2>1 DEF Covers
  <2>3. Len(<<>>) = 0 /\ 1 .. 0 = {}
    OBVIOUS
  <2>4. c \notin Late'
    BY <2>1, <2>3 DEF Late
  <2>5. QED  BY <1>1, <2>1, <2>2, <2>4, QuietStep
<1>5. CASE Continue(c)
  <2>1. HasReply(c) /\ UNCHANGED <<ent, lst, faults>>
    BY <1>5, ContinueChanges DEF server
  <2>2. err' = err /\ ~err[c]
    BY <1>5, ContinueChanges DEF TakeReply, HasReply
  <2>3. ASSUME NEW h \in Hashes, Covers(c, h) PROVE Covers(c, h)'
    <3>1. {"put_hmset", "put_select1", "put_lpush"} \subseteq Lasts
      BY DEF Lasts
    <3>2. PICK cmds : TakeReply(c, cmds)
      BY <1>5, ContinueChanges
    <3>3. Answered(c) = <<Reply(c)>>
      <4>1. at[c] \in Lasts
        BY <2>3, <3>1 DEF Covers
      <4>2. /\ wire[c] = <<>> /\ obuf[c] = <<>> /\ sock[c] = <<>> /\ Len(rdr[c]) = 1
            /\ rdr[c] \in Seq(Replies)
        BY <2>1, <4>1, NothingElse, BuffersOf
      <4>3. rdr[c] = <<Head(rdr[c])>> /\ rdr[c] \o <<>> = rdr[c]
        BY <4>2, ConcatEmptySeq
      <4>4. QED  BY <4>2, <4>3 DEF Answered, Reply
    <3>4. Reply(c).type # "error"
      <4>1. 1 \in 1 .. Len(Answered(c)) /\ Answered(c)[1] = Reply(c)
        BY <3>3
      <4>2. QED  BY <2>3, <4>1 DEF Covers
    <3>5. at[c] # "put_lpush"
      BY <2>3, <3>3 DEF Covers
    <3>6. PutStored(c) \/ PutListing(c)
      BY <1>5, <2>3, <3>4, <3>5 DEF Covers, Continue, Throw, PutSelected, PutKeeps, PutProceeds,
         PutListed, Selected, GetDone, FoundUnparsable, DeleteAbsent, DeleteFound, DeleteSelected,
         DeleteErased, DeleteUnlisting, DeleteUnlisted, IdSelected, IdRanged, IdSkipped,
         IdDeleteNext,
         IdEmptied, IdSelected1, IdDeleted, Deleting, QuerySelected, CountDone, CountIdDone,
         EntriesDone, Received
    <3>7. arg' = arg /\ at'[c] \in {"put_select1", "put_lpush"}
      BY <3>6 DEF PutStored, PutListing, Goto, Typed, CallTyped
    <3>8. Answered(c)' = <<>>
      <4>1. CASE PutStored(c)
        <5>1. TakeReply(c, <<Select(1)>>) /\ <<Select(1)>> \in Seq(Command)
          BY <4>1, CommandNamed DEF PutStored, Goto
        <5>2. QED  BY <2>1, <2>3, <3>1, <5>1, LastTaken DEF Covers
      <4>2. CASE PutListing(c)
        <5>1. Lpush(arg[c].entry.id, arg[c].hash) \in Command
          <6>1. arg[c].hash \in Hashes /\ arg[c].entry \in Entry /\ arg[c].entry.id \in Ids
            BY <4>2, FitsAtOnce DEF PutListing, Received, FitsLabel, OnHash, Putting, Entry
          <6>2. QED  BY <6>1, CommandNamed
        <5>2. TakeReply(c, <<Lpush(arg[c].entry.id, arg[c].hash)>>)
          BY <4>2 DEF PutListing, Goto
        <5>3. <<Lpush(arg[c].entry.id, arg[c].hash)>> \in Seq(Command)
          BY <5>1
        <5>4. QED  BY <2>1, <2>3, <3>1, <5>2, <5>3, LastTaken DEF Covers
      <4>3. QED  BY <3>6, <4>1, <4>2
    <3>9. QED  BY <2>1, <2>2, <2>3, <3>7, <3>8 DEF Covers
  <2>4. c \notin Late'
    BY <2>2 DEF Late
  <2>5. QED  BY <1>1, <2>1, <2>3, <2>4, QuietStep
<1>6. QED  BY <1>2, <1>3, <1>4, <1>5

(* A lost connection pays for what its Put covered, or for the HMSET it     *)
(* leaves under way.                                                        *)
LEMMA LosePaid ==
    ASSUME IsFiniteSet(Clients), NEW L, Charged(L), Typed, NEW c \in Clients, Waits(c),
           at[c] \in Narrow, LoseConnection(c)
    PROVE  \E M \in SUBSET Hashes : Charged(M)'
<1>1. /\ Spares(c) /\ ~err[c] /\ err'[c] /\ faults' = faults + 1 /\ ent' = ent /\ lst' = lst
      /\ L \in SUBSET Hashes
  BY StepSpares, Lost DEF Step, Charged
<1>2. ASSUME NEW h \in Orphans'
      PROVE  h \in L \/ Covers(c, h) \/ \E b \in Clients : Covers(b, h)'
  <2>1. h \in Orphans
    BY <1>1 DEF Orphans
  <2>2. h \in L \/ \E b \in Clients : Covers(b, h)
    BY <2>1 DEF Charged
  <2>3. ASSUME NEW b \in Clients \ {c}, Covers(b, h) PROVE Covers(b, h)'
    BY <1>1, <2>3, CoversOn DEF Spares
  <2>4. QED  BY <2>2, <2>3
<1>3. CASE c \in Late'
  <2>1. PICK n \in 1 .. Len(Queue(c)') : Queue(c)'[n].name = "HMSET"
    BY <1>3 DEF Late
  <2>2. n \in 1 .. Len(Queue(c)) /\ Queue(c)[n].name = "HMSET"
    BY <2>1, Lost, QueueTypes
  <2>3. Queue(c) # <<>>
    BY <2>2
  <2>4. Answered(c) = <<>> /\ Queue(c) = <<Head(Queue(c))>>
    BY <2>3, NarrowSends
  <2>5. Head(Queue(c)).name = "HMSET"
    <3>1. \A x : \A k \in 1 .. Len(<<x>>) : <<x>>[k] = x
      OBVIOUS
    <3>2. QED  BY <2>2, <2>4, <3>1, Zenon
  <2>6. at[c] = "put_hmset"
    BY <2>3, <2>5, NarrowSends
  <2>7. \A h : ~Covers(c, h)
    BY <2>4, <2>6 DEF Covers
  <2>8. \A h \in Orphans' : h \in L \/ \E b \in Clients : Covers(b, h)'
    BY <1>2, <2>7
  <2>9. Late' \subseteq Late \cup {c}
    BY <1>1 DEF Late, Spares
  <2>10. QED  BY <1>1, <2>8, <2>9, PaysLate
<1>4. CASE c \notin Late'
  <2>1. Late' \subseteq Late
    BY <1>1, <1>4, LateNext
  <2>2. CASE arg[c].hash \in Hashes
    <3>1. PICK x \in Hashes : x = arg[c].hash
      BY <2>2
    <3>2. \A h \in Orphans' : h \in L \cup {x} \/ \E b \in Clients : Covers(b, h)'
      BY <1>2, <3>1 DEF Covers
    <3>3. Charged(L \cup {x})'
      BY <1>1, <2>1, <3>2, PaysHash
    <3>4. QED  BY <1>1, <3>3
  <2>3. CASE arg[c].hash \notin Hashes
    <3>1. \A h \in Orphans' : h \in L \/ \E b \in Clients : Covers(b, h)'
      BY <1>2, <2>3 DEF Covers, Orphans
    <3>2. faults' \in Nat /\ faults' >= faults
      BY <1>1, RedisAssumption DEF RedisAssumption, Typed, ServerTyped
    <3>3. Charged(L)'
      BY <2>1, <3>1, <3>2, Keeps
    <3>4. QED  BY <1>1, <3>3
  <2>4. QED  BY <2>2, <2>3
<1>5. QED  BY <1>3, <1>4

(* What the server does when it executes HMSET and LPUSH. *)
LEMMA Executes ==
    ASSUME Typed, Selects, NEW c \in Clients, Queue(c) # <<>>, NEW m \in Command,
           m = Head(Queue(c)), Execute(c, m)
    PROVE  /\ m.name = "HMSET" =>
                /\ Queue(c) = <<m>> /\ lst' = lst /\ m.key \in Hashes /\ m.entry \in Entry
                /\ ent'[0] = [ent[0] EXCEPT ![m.key] = m.entry]
           /\ m.name = "LPUSH" =>
                /\ Queue(c) = <<m>> /\ ent' = ent /\ m.key \in Ids /\ m.hash \in Hashes
                /\ lst'[1] = [lst[1] EXCEPT ![m.key][m.hash] = @ + 1]
           /\ m.name \notin {"HMSET", "LPUSH", "DEL", "LREM"} => UNCHANGED <<ent, lst>>
           /\ faults' = faults
<1>1. /\ sel[c] \in {0, 1}
      /\ ent \in [{0, 1} -> [Hashes -> Entry \cup {None}]]
      /\ lst \in [{0, 1} -> [Ids -> Bag]]
  BY DEF Typed, ServerTyped
<1>2. 1 \in 1 .. Len(Queue(c)) /\ Queue(c)[1] = m
  BY QueueTypes
<1>3. m.name \in {"HMSET", "LPUSH"} => /\ Queue(c) = <<m>>
                                       /\ m.name = "HMSET" => sel[c] = 0
                                       /\ m.name = "LPUSH" => sel[c] = 1
  <2>1. CASE Plain(Queue(c))
    BY <1>2, <2>1 DEF Plain
  <2>2. CASE Lone(Queue(c), sel[c])
    <3>1. PICK x \in Command : /\ Queue(c) = <<x>>
                               /\ x.name = "HMSET" => sel[c] = 0
                               /\ x.name = "LPUSH" => sel[c] = 1
      BY <2>2 DEF Lone
    <3>2. x = m
      BY <1>2, <3>1
    <3>3. QED  BY <3>1, <3>2
  <2>3. QED  BY <2>1, <2>2 DEF Selects, Writes
<1>4. CASE m.name = "HMSET"
  <2>1. m.key \in Hashes /\ m.entry \in Entry
    BY <1>4, CommandFields
  <2>2. ent' = [ent EXCEPT ![0][m.key] = m.entry] /\ lst' = lst /\ faults' = faults
    BY <1>3, <1>4 DEF Execute
  <2>3. ent'[0] = [ent[0] EXCEPT ![m.key] = m.entry]
    BY <1>1, <2>2
  <2>4. QED  BY <1>3, <1>4, <2>1, <2>2, <2>3
<1>5. CASE m.name = "LPUSH"
  <2>1. m.key \in Ids /\ m.hash \in Hashes
    BY <1>5, CommandFields
  <2>2. lst' = [lst EXCEPT ![1][m.key][m.hash] = @ + 1] /\ ent' = ent /\ faults' = faults
    BY <1>3, <1>5 DEF Execute
  <2>3. lst'[1] = [lst[1] EXCEPT ![m.key][m.hash] = @ + 1]
    BY <1>1, <2>2
  <2>4. QED  BY <1>3, <1>5, <2>1, <2>2, <2>3
<1>6. CASE m.name \notin {"HMSET", "LPUSH"}
  BY <1>6 DEF Execute
<1>7. QED  BY <1>4, <1>5, <1>6

(* The server executes or refuses a command: an HMSET makes an orphan that  *)
(* its Put covers, an LPUSH lists it, a refusal pays for one.               *)
LEMMA ServedPaid ==
    ASSUME IsFiniteSet(Clients), NEW L, Charged(L), Typed, Selects, NEW c \in Clients,
           ~err[c] => Waits(c) /\ at[c] \in Narrow, err[c] => Mild(c),
           Served(c) \/ Refused(c)
    PROVE  \E M \in SUBSET Hashes : Charged(M)'
<1> DEFINE m == Head(Queue(c))
<1>1. /\ Queue(c) # <<>> /\ m \in Command /\ Queue(c)' = Tail(Queue(c))
      /\ UNCHANGED <<err, at, arg>> /\ Spares(c) /\ L \in SUBSET Hashes
  BY ServedAnswers, StepSpares DEF Step, Charged
<1>2. PICK q \in Replies :
        /\ Answered(c)' = IF err[c] THEN Answered(c) ELSE Append(Answered(c), q)
        /\ \/ Execute(c, m) /\ q.type # "error"
           \/ Fault /\ q.type = "error"
  BY ServedAnswers
<1> HIDE DEF m
<1>3. c \in Late' => c \in Late
  <2>1. /\ Len(Tail(Queue(c))) = Len(Queue(c)) - 1 /\ Len(Queue(c)) \in Nat
        /\ \A n \in 1 .. Len(Queue(c)) - 1 : Tail(Queue(c))[n] = Queue(c)[n + 1]
    BY <1>1, QueueTypes, HeadTailProperties
  <2>2. QED  BY <1>1, <2>1 DEF Late
<1>4. Late' \subseteq Late
  BY <1>1, <1>3, LateNext
<1>5. ASSUME NEW b \in Clients \ {c}, NEW h, Covers(b, h), ent'[0][h] = ent[0][h]
      PROVE  Covers(b, h)'
  BY <1>1, <1>5, CoversOn DEF Spares
<1>6. faults \in Nat
  BY RedisAssumption DEF RedisAssumption, Typed, ServerTyped
<1>7. CASE Fault
  <2>1. faults' = faults + 1 /\ ent' = ent /\ lst' = lst
    BY <1>7 DEF Fault
  <2>2. ASSUME NEW h \in Orphans'
        PROVE  h \in L \/ Covers(c, h) \/ \E b \in Clients : Covers(b, h)'
    <3>1. h \in L \/ \E b \in Clients : Covers(b, h)
      BY <2>1 DEF Charged, Orphans
    <3>2. QED  BY <1>5, <2>1, <3>1
  <2>3. CASE arg[c].hash \in Hashes
    <3>1. PICK x \in Hashes : x = arg[c].hash
      BY <2>3
    <3>2. \A h \in Orphans' : h \in L \cup {x} \/ \E b \in Clients : Covers(b, h)'
      BY <2>2, <3>1 DEF Covers
    <3>3. Charged(L \cup {x})'
      BY <1>4, <2>1, <3>2, PaysHash
    <3>4. QED  BY <1>1, <3>3
  <2>4. CASE arg[c].hash \notin Hashes
    <3>1. \A h \in Orphans' : h \in L \/ \E b \in Clients : Covers(b, h)'
      BY <2>2, <2>4 DEF Covers, Orphans
    <3>2. Charged(L)'
      BY <1>4, <1>6, <2>1, <3>1, Keeps
    <3>3. QED  BY <1>1, <3>2
  <2>5. QED  BY <2>3, <2>4
<1>8. CASE Execute(c, m) /\ q.type # "error"
  <2>1. /\ m.name = "HMSET" =>
             /\ Queue(c) = <<m>> /\ lst' = lst /\ m.key \in Hashes /\ m.entry \in Entry
             /\ ent'[0] = [ent[0] EXCEPT ![m.key] = m.entry]
        /\ m.name = "LPUSH" =>
             /\ Queue(c) = <<m>> /\ ent' = ent /\ m.key \in Ids /\ m.hash \in Hashes
             /\ lst'[1] = [lst[1] EXCEPT ![m.key][m.hash] = @ + 1]
        /\ m.name \notin {"HMSET", "LPUSH", "DEL", "LREM"} => UNCHANGED <<ent, lst>>
        /\ faults' = faults
    BY <1>1, <1>8, Executes DEF m
  <2>2. m.name \notin {"DEL", "LREM"}
    <3>1. CASE err[c]
      <4>1. 1 \in 1 .. Len(Queue(c)) /\ Queue(c)[1] = m
        BY <1>1, QueueTypes DEF m
      <4>2. QED  BY <3>1, <4>1 DEF Mild
    <3>2. CASE ~err[c]
      BY <1>1, <3>2, NarrowSends DEF m
    <3>3. QED  BY <3>1, <3>2
  <2>3. ent[0] \in [Hashes -> Entry \cup {None}] /\ lst[1] \in [Ids -> Bag]
    BY DEF Typed, ServerTyped
  <2>4. CASE m.name = "HMSET"
    <3>0. PICK x \in Hashes : x = m.key
      BY <2>1, <2>4
    <3>1. ent'[0][x] = m.entry /\ \A g \in Hashes \ {x} : ent'[0][g] = ent[0][g]
      BY <2>1, <2>3, <2>4, <3>0
    <3>2. ASSUME NEW g \in Orphans', g # x
          PROVE  g \in L \/ Covers(c, g) \/ \E b \in Clients : Covers(b, g)'
      <4>1. g \in Hashes /\ ent'[0][g] = ent[0][g] /\ lst' = lst
        BY <2>1, <2>4, <3>1, <3>2 DEF Orphans
      <4>2. g \in Orphans
        BY <4>1 DEF Orphans
      <4>3. g \in L \/ \E b \in Clients : Covers(b, g)
        BY <4>2 DEF Charged
      <4>4. QED  BY <1>5, <4>1, <4>3
    <3>3. CASE err[c]
      <4>1. \A g : ~Covers(c, g)
        BY <3>3 DEF Covers
      <4>2. \A g \in Orphans' : g \in L \cup {x} \/ \E b \in Clients : Covers(b, g)'
        BY <3>2, <4>1
      <4>3. c \in Late
        <5>1. 1 \in 1 .. Len(Queue(c)) /\ Queue(c)[1].name = "HMSET"
          BY <1>1, <2>4, QueueTypes DEF m
        <5>2. QED  BY <3>3, <5>1 DEF Late
      <4>4. c \notin Late'
        <5>1. Queue(c)' = <<>>
          <6>1. \A y : Tail(<<y>>) = <<>>
            OBVIOUS
          <6>2. QED  BY <1>1, <2>1, <2>4, <6>1
        <5>2. QED  BY <5>1 DEF Late
      <4>5. Charged(L \cup {x})'
        BY <1>4, <2>1, <3>1, <4>2, <4>3, <4>4, PaysHash
      <4>6. QED  BY <1>1, <4>5
    <3>4. CASE ~err[c]
      <4>1. /\ Answered(c) = <<>> /\ at[c] = "put_hmset"
            /\ m = Hmset(arg[c].hash, arg[c].entry, arg[c].overwrite)
        BY <1>1, <2>4, <3>4, NarrowSends DEF m
      <4>2. x = arg[c].hash /\ m.entry = arg[c].entry
        BY <3>0, <4>1 DEF Hmset
      <4>3. Answered(c)' = <<q>>
        <5>1. Append(<<>>, q) = <<q>>
          OBVIOUS
        <5>2. QED  BY <1>2, <3>4, <4>1, <5>1
      <4>4. \A n \in 1 .. Len(Answered(c)') : Answered(c)'[n].type # "error"
        <5>1. \A n \in 1 .. Len(<<q>>) : <<q>>[n].type # "error"
          BY <1>8
        <5>2. QED  BY <4>3, <5>1
      <4>5. ASSUME x \in Orphans' PROVE Covers(c, x)'
        <5>1. ent'[0][x] # None
          BY <4>5 DEF Orphans
        <5>2. Answered(c)' # <<>>
          BY <4>3
        <5>3. QED  BY <1>1, <3>1, <3>4, <4>1, <4>2, <4>4, <5>1, <5>2 DEF Covers
      <4>6. \A g : Covers(c, g) => g = x
        BY <4>2 DEF Covers
      <4>7. \A g \in Orphans' : g \in L \/ \E b \in Clients : Covers(b, g)'
        BY <3>2, <4>5, <4>6
      <4>8. Charged(L)'
        BY <1>4, <1>6, <2>1, <4>7, Keeps
      <4>9. QED  BY <1>1, <4>8
    <3>5. QED  BY <3>3, <3>4
  <2>5. CASE m.name = "LPUSH"
    <3>1. /\ ent' = ent /\ m.key \in Ids /\ m.hash \in Hashes
          /\ \A i \in Ids, h \in Hashes : lst'[1][i][h] >= lst[1][i][h] /\ lst[1][i][h] \in Nat
          /\ lst'[1][m.key][m.hash] > 0
      BY <2>1, <2>3, <2>5 DEF Bag
    <3>2. ASSUME NEW h \in Orphans' PROVE h \in L \/ \E b \in Clients : Covers(b, h)'
      <4>1. h \in Hashes /\ ent[0][h] # None /\ lst'[1][ent[0][h].id][h] = 0
        BY <3>1 DEF Orphans
      <4>2. ent[0][h].id \in Ids
        BY <2>3, <4>1 DEF Entry
      <4>3. lst[1][ent[0][h].id][h] = 0
        BY <3>1, <4>1, <4>2
      <4>4. h \in L \/ \E b \in Clients : Covers(b, h)
        BY <4>1, <4>3 DEF Charged, Orphans
      <4>5. ~Covers(c, h)
        <5>1. SUFFICES ASSUME Covers(c, h) PROVE FALSE
          OBVIOUS
        <5>2. ~err[c] /\ arg[c].hash = h /\ arg[c].entry.id = ent[0][h].id
          BY <5>1 DEF Covers
        <5>3. m = Lpush(arg[c].entry.id, arg[c].hash)
          BY <1>1, <2>5, <5>2, NarrowSends DEF m
        <5>4. m.key = ent[0][h].id /\ m.hash = h
          BY <5>2, <5>3 DEF Lpush
        <5>5. QED  BY <3>1, <4>1, <5>4
      <4>6. QED  BY <1>5, <3>1, <4>4, <4>5
    <3>3. Charged(L)'
      BY <1>4, <1>6, <2>1, <3>2, Keeps
    <3>4. QED  BY <1>1, <3>3
  <2>6. CASE m.name \notin {"HMSET", "LPUSH"}
    <3>1. UNCHANGED <<ent, lst, faults>>
      BY <2>1, <2>2, <2>6
    <3>2. ASSUME NEW h \in Hashes, Covers(c, h) PROVE Covers(c, h)'
      <4>1. ~err[c] /\ at[c] \in {"put_hmset", "put_select1", "put_lpush"}
        BY <3>2 DEF Covers
      <4>2. Answered(c) = <<>> /\ at[c] # "put_lpush"
        BY <1>1, <2>6, <4>1, NarrowSends DEF m
      <4>3. at[c] = "put_select1"
        BY <3>2, <4>1, <4>2 DEF Covers
      <4>4. Answered(c)' = <<q>>
        <5>1. Append(<<>>, q) = <<q>>
          OBVIOUS
        <5>2. QED  BY <1>2, <4>1, <4>2, <5>1
      <4>5. \A n \in 1 .. Len(Answered(c)') : Answered(c)'[n].type # "error"
        <5>1. \A n \in 1 .. Len(<<q>>) : <<q>>[n].type # "error"
          BY <1>8
        <5>2. QED  BY <4>4, <5>1
      <4>6. QED  BY <1>1, <3>1, <3>2, <4>1, <4>3, <4>5 DEF Covers
    <3>3. Charged(L)'
      BY <1>1, <1>3, <3>1, <3>2, QuietStep
    <3>4. QED  BY <1>1, <3>3
  <2>7. QED  BY <2>4, <2>5, <2>6
<1>9. QED  BY <1>2, <1>7, <1>8

(* The account is kept by every step.                                       *)
LEMMA PaidStep ==
    ASSUME IsFiniteSet(Clients), Typed, InOrder, StaysNarrow, Ops \subseteq {"Put", "Get"},
           Selects, Commanded, LostMild, Paid, [Next]_vars
    PROVE  Paid' /\ LostMild'
<1>1. PICK L \in SUBSET Hashes : Charged(L)
  BY DEF Paid
<1>2. CASE Next
  <2>1. PICK c \in Clients : Step(c)
    BY <1>2, NextIsStep
  <2>2. (~err[c] => Waits(c)) /\ (err[c] => Mild(c)) /\ at[c] \in Narrow
    BY DEF Commanded, LostMild, StaysNarrow
  <2>3. \E M \in SUBSET Hashes : Charged(M)'
    <3>1. CASE Call(c) \/ Continue(c) \/ Transfer(c) \/ ReadPastEnd(c)
      BY <1>1, <3>1, MethodPaid
    <3>2. CASE Served(c) \/ Refused(c)
      BY <1>1, <2>2, <3>2, ServedPaid
    <3>3. CASE LoseConnection(c)
      BY <1>1, <2>2, <3>3, Lost, LosePaid
    <3>4. QED  BY <2>1, <3>1, <3>2, <3>3 DEF Step
  <2>4. QED  BY <2>1, <2>3, LostMildStep DEF Paid
<1>3. CASE UNCHANGED vars
  <2>1. \A b : /\ Queue(b)' = Queue(b) /\ Answered(b)' = Answered(b)
    BY <1>3 DEF vars, Queue, Answered
  <2>2. LostMild'
    BY <1>3, <2>1 DEF vars, LostMild, Mild
  <2>3. Late' = Late /\ Orphans' = Orphans
    BY <1>3, <2>1 DEF vars, Late, Orphans
  <2>4. \A b, h : Covers(b, h) => Covers(b, h)'
    BY <1>3, <2>1 DEF vars, Covers
  <2>5. Charged(L)'
    BY <1>1, <1>3, <2>3, <2>4 DEF vars, Charged
  <2>6. QED  BY <2>2, <2>5 DEF Paid
<1>4. QED  BY <1>2, <1>3

(* Nothing is owed at the start.                                            *)
LEMMA InitPaid == Init => Paid /\ LostMild
<1> SUFFICES ASSUME Init PROVE Paid /\ LostMild
  OBVIOUS
<1>1. \A c \in Clients : ~err[c]
  BY DEF Init, ContextInit
<1>2. Late = {} /\ LostMild
  BY <1>1 DEF Late, LostMild
<1>3. Orphans = {} /\ faults = 0
  BY DEF Init, ServerInit, Orphans
<1>4. Charged({})
  BY <1>2, <1>3, FS_EmptySet DEF Charged
<1>5. QED  BY <1>2, <1>4 DEF Paid

(* A Put covers one hash, so the account bounds the orphans.                *)
LEMMA PaidAccounts ==
    ASSUME IsFiniteSet(Clients), Typed, Paid
    PROVE  OrphansAccounted
<1>1. PICK L \in SUBSET Hashes : Charged(L)
  BY DEF Paid
<1> DEFINE P == PutsInFlight
           H == {arg[c].hash : c \in P}
           f == [c \in P |-> arg[c].hash]
<1>2. IsFiniteSet(P) /\ P \in SUBSET Clients
  BY FS_Subset DEF PutsInFlight
<1>3. f \in Surjection(P, H)
  BY DEF Surjection
<1>4. IsFiniteSet(H) /\ Cardinality(H) <= Cardinality(P)
  <2> HIDE DEF f, H, P
  <2>1. QED  BY <1>2, <1>3, FS_Surjection
<1>5. Orphans \in SUBSET (L \cup H)
  BY <1>1 DEF Charged, Covers, PutsInFlight
<1> HIDE DEF H, P
<1>6. /\ IsFiniteSet(L \cup H)
      /\ Cardinality(L \cup H) = Cardinality(L) + Cardinality(H) - Cardinality(L \cap H)
  BY <1>1, <1>4, FS_Union DEF Charged
<1>7. IsFiniteSet(L \cap H)
  <2>1. L \cap H \in SUBSET H
    OBVIOUS
  <2>2. QED  BY <1>4, <2>1, FS_Subset
<1>8. /\ Cardinality(L) \in Nat /\ Cardinality(H) \in Nat /\ Cardinality(P) \in Nat
      /\ Cardinality(L \cap H) \in Nat /\ Cardinality(Late) \in Nat
  BY <1>1, <1>2, <1>4, <1>7, LateIs, FS_CardinalityType DEF Charged
<1>9. IsFiniteSet(Orphans) /\ Cardinality(Orphans) <= Cardinality(L \cup H)
  BY <1>5, <1>6, FS_Subset
<1>10. Cardinality(Orphans) \in Nat
  BY <1>9, FS_CardinalityType
<1>11. Cardinality(L) + Cardinality(Late) <= faults /\ faults \in Nat
  BY <1>1, RedisAssumption DEF RedisAssumption, Charged, Typed, ServerTyped
<1>12. Cardinality(Orphans) <= faults + Cardinality(P)
  BY <1>4, <1>6, <1>8, <1>9, <1>10, <1>11
<1>13. QED  BY <1>12 DEF OrphansAccounted, P

(* Any number of clients that put and look up frames: every orphan is paid  *)
(* for by a fault or by a Put still under way, whichever commands are       *)
(* refused, connections lost and Puts interleaved                           *)
(* (RedisHashStore.cpp:47-88).                                              *)
THEOREM StoreOrphansAccounted ==
    Spec /\ Ops \subseteq {"Put", "Get"} /\ IsFiniteSet(Clients) => []OrphansAccounted
<1> DEFINE Given == Ops \subseteq {"Put", "Get"} /\ IsFiniteSet(Clients)
           IInv == /\ Given /\ Typed /\ InOrder /\ StaysNarrow /\ Selects /\ Commanded
                   /\ LostMild /\ Paid
<1>1. Init /\ Given => IInv
  BY InitTyped, InitInOrder, InitSelects, InitCommanded, InitPaid
<1>2. IInv /\ [Next]_vars => IInv'
  <2> SUFFICES ASSUME IInv, [Next]_vars PROVE IInv'
    OBVIOUS
  <2>1. PipelinesHold
    BY DEF PipelinesHold
  <2>2. Typed' /\ InOrder' /\ StaysNarrow' /\ Selects' /\ Given'
    BY <2>1, NextTyped, NextInOrderStep, SelectsStep
  <2>3. Commanded'
    BY <2>1, <2>2, ThrowsLast, CommandedStep
  <2>4. QED  BY <2>2, <2>3, PaidStep
<1>3. IInv => OrphansAccounted
  BY PaidAccounts
<1>4. QED  BY <1>1, <1>2, <1>3, PTL DEF Spec

-----------------------------------------------------------------------------
(* Any number of clients: a frame once stored stays.                        *)

(* A client that looked for the entry of a hash may have found none: it is  *)
(* free, or has been stored since.                                          *)
FreeFor(h, c) == ent[0][h] = None \/ h \in newer[c]

(* An HMSET under way, also one that a lost connection left, overwrites or  *)
(* has its hash free; an EXISTS that answers that there is no entry was     *)
(* right when it did.                                                       *)
MayStore(m, c) == m.name = "HMSET" => m.over \/ FreeFor(m.key, c)
Vacant(c) == \A n \in 1 .. Len(Queue(c)) : MayStore(Queue(c)[n], c)
Honest(r, h, c) == r.type # "error" /\ ~SaysExists(r) => FreeFor(h, c)
SawNone(c) == ~err[c] /\ at[c] = "put_exists" =>
                 \A n \in 1 .. Len(Answered(c)) : Honest(Answered(c)[n], arg[c].hash, c)
Unsent(c) == err[c] => obuf[c] = <<>>
Unstored == \A c \in Clients : Vacant(c) /\ SawNone(c) /\ Unsent(c)

(* Only the label put_hmset has an HMSET in its script.                     *)
LEMMA ScriptWrites ==
    ASSUME NEW l \in Labels, l # "put_hmset", NEW a, NEW s \in Scripts(l, a)
    PROVE  \A n \in 1 .. Len(s) : s[n].name # "HMSET"
<1>1. /\ Select(0).name # "HMSET" /\ Select(1).name # "HMSET" /\ Dbsize.name # "HMSET"
      /\ AllKeys.name # "HMSET"
      /\ \A k : /\ Exists(k).name # "HMSET" /\ Hgetall(k).name # "HMSET"
                /\ Del(k).name # "HMSET" /\ Lrange(k).name # "HMSET" /\ Llen(k).name # "HMSET"
      /\ \A k, h : Lpush(k, h).name # "HMSET" /\ Lrem(k, h).name # "HMSET"
  BY DEF Select, Dbsize, AllKeys, Exists, Hgetall, Del, Lrange, Llen, Lpush, Lrem
<1>2. ASSUME NEW m, m.name # "HMSET" PROVE \A n \in 1 .. Len(<<m>>) : <<m>>[n].name # "HMSET"
  BY <1>2
<1>3. ASSUME NEW m, NEW o, m.name # "HMSET", o.name # "HMSET"
      PROVE  \A n \in 1 .. Len(<<m, o>>) : <<m, o>>[n].name # "HMSET"
  BY <1>3
<1>4. ASSUME NEW m, NEW o, NEW p, m.name # "HMSET", o.name # "HMSET", p.name # "HMSET"
      PROVE  \A n \in 1 .. Len(<<m, o, p>>) : <<m, o, p>>[n].name # "HMSET"
  BY <1>4
<1>5. CASE l \in {"idle", "crashed"}
  <2>1. s = <<>>
    BY <1>5, ScriptValues
  <2>2. QED  BY <2>1
<1>6. CASE l \in Lasts \ {"put_hmset"}
  <2>1. \E m : s = <<m>> /\ m.name # "HMSET"
    BY <1>1, <1>6, ScriptValues DEF Lasts
  <2>2. QED  BY <1>2, <2>1
<1>7. CASE l \in {"del_select", "del_select1", "id_lrange", "id_select1", "count_select",
                  "countid_select", "keys_select"}
  <2>1. \E m, o : s = <<m, o>> /\ m.name # "HMSET" /\ o.name # "HMSET"
    BY <1>1, <1>7, ScriptValues
  <2>2. QED  BY <1>3, <2>1
<1>8. CASE l = "id_select"
  <2>1. s = <<Select(1), Lrange(a.id), Select(0)>>
    BY <1>8, ScriptValues
  <2>2. QED  BY <1>1, <1>4, <2>1
<1>9. QED  BY <1>5, <1>6, <1>7, <1>8 DEF Labels, Lasts

(* Two steps lead to where a Put looks for the entry or stores the frame.   *)
LEMMA PutOnlyGoes ==
    ASSUME Typed, NEW c \in Clients, Continue(c), at'[c] \in {"put_exists", "put_hmset"}
    PROVE  PutSelected(c) \/ PutProceeds(c)
<1>1. ASSUME NEW to, NEW cmds, Goto(c, to, cmds) PROVE at'[c] = to
  BY <1>1 DEF Goto, Typed, CallTyped
<1>2. ~Finish(c)
  BY DEF Finish, Typed, CallTyped
<1>3. ~(PutKeeps(c) \/ PutListed(c) \/ DeleteAbsent(c) \/ DeleteUnlisted(c) \/ IdSkipped(c)
          \/ IdDeleted(c) \/ GetDone(c) \/ FoundUnparsable(c) \/ CountDone(c) \/ CountIdDone(c)
          \/ EntriesDone(c) \/ Throw(c))
  BY <1>2 DEF PutKeeps, PutListed, DeleteAbsent, DeleteUnlisted, IdSkipped, IdDeleted, GetDone,
              FoundUnparsable, CountDone, CountIdDone, EntriesDone, Throw, Return, ReturnValue
<1>4. ~(PutStored(c) \/ PutListing(c))
  BY <1>1 DEF PutStored, PutListing
<1>8. ~(Selected(c) \/ QuerySelected(c))
  <2>1. ASSUME Selected(c) \/ QuerySelected(c)
        PROVE  \E to \in {"get_all", "look_all", "count_size", "countid_len", "keys_all"} :
                 at'[c] = to
    BY <1>1, <2>1 DEF Selected, QuerySelected
  <2>2. QED  BY <2>1
<1>5. ~(DeleteFound(c) \/ DeleteSelected(c) \/ DeleteErased(c) \/ DeleteUnlisting(c))
  BY <1>1 DEF DeleteFound, DeleteSelected, DeleteErased, DeleteUnlisting
<1>6. ~(IdSelected(c) \/ IdRanged(c) \/ IdDeleteNext(c) \/ IdEmptied(c) \/ IdSelected1(c))
  BY <1>1 DEF IdSelected, IdRanged, IdDeleteNext, IdEmptied, IdSelected1
<1>7. QED  BY <1>3, <1>4, <1>5, <1>6, <1>8 DEF Continue

(* What was stored since a method was called is forgotten when it ends,     *)
(* with the last reply it awaits.                                           *)
LEMMA ContinueForgets ==
    ASSUME Typed, NEW c \in Clients, Continue(c), Throw(c) => at[c] \in Lasts
    PROVE  \/ newer' = newer
           \/ /\ HasReply(c) /\ at[c] \in Lasts /\ TakeReply(c, <<>>) /\ at'[c] = "idle"
              /\ \A b \in Clients \ {c} : newer'[b] = newer[b]
<1>1. CASE \/ PutKeeps(c) \/ PutListed(c) \/ DeleteAbsent(c) \/ DeleteUnlisted(c)
           \/ IdSkipped(c) \/ IdDeleted(c) \/ GetDone(c) \/ FoundUnparsable(c)
           \/ CountDone(c) \/ CountIdDone(c) \/ EntriesDone(c) \/ Throw(c)
  <2>1. HasReply(c) /\ at[c] \in Lasts
    BY <1>1 DEF PutKeeps, PutListed, DeleteAbsent, DeleteUnlisted, IdSkipped, IdDeleted,
                GetDone, FoundUnparsable, CountDone, CountIdDone, EntriesDone, Throw, Received,
                Lasts
  <2>2. TakeReply(c, <<>>) /\ Finish(c) /\ Forget(c)
    BY <1>1 DEF PutKeeps, PutListed, DeleteAbsent, DeleteUnlisted, IdSkipped, IdDeleted,
                GetDone, FoundUnparsable, CountDone, CountIdDone, EntriesDone, Throw, Return,
                ReturnValue
  <2>3. QED  BY <2>1, <2>2 DEF Finish, Forget, Typed, CallTyped
<1>2. ASSUME NEW to, NEW cmds, Goto(c, to, cmds) PROVE newer' = newer
  BY <1>2 DEF Goto
<1>3. CASE \/ PutSelected(c) \/ PutProceeds(c) \/ PutStored(c) \/ PutListing(c)
  BY <1>2, <1>3 DEF PutSelected, PutProceeds, PutStored, PutListing, StoreFrame
<1>4. CASE \/ Selected(c) \/ QuerySelected(c)
  BY <1>2, <1>4 DEF Selected, QuerySelected
<1>5. CASE DeleteFound(c) \/ DeleteSelected(c) \/ DeleteErased(c) \/ DeleteUnlisting(c)
  BY <1>2, <1>5 DEF DeleteFound, DeleteSelected, DeleteErased, DeleteUnlisting
<1>6. CASE IdSelected(c) \/ IdRanged(c) \/ IdDeleteNext(c) \/ IdEmptied(c) \/ IdSelected1(c)
  BY <1>2, <1>6 DEF IdSelected, IdRanged, IdDeleteNext, IdEmptied, IdSelected1
<1>7. QED  BY <1>1, <1>3, <1>4, <1>5, <1>6 DEF Continue

(* A call queues no HMSET and waits for no EXISTS.                          *)
LEMMA CallUnstored ==
    ASSUME Typed, Typed', InOrder, NEW c \in Clients, Call(c)
    PROVE  Vacant(c)' /\ SawNone(c)'
<1>1. PICK op, a, to, cmds :
        /\ Begin(c, op, a, to, cmds) /\ cmds \in Scripts(to, a)
        /\ to \notin {"put_exists", "put_hmset"}
  BY CallBegins
<1>2. at'[c] = to /\ arg'[c] = a
  BY <1>1 DEF Begin, Typed, CallTyped
<1>3. to \in Labels /\ a \in Arguments /\ FitsLabel(to, a)
  BY <1>2 DEF Typed, CallTyped, Fits, FitsLabel
<1>4. cmds \in Seq(Command) /\ \A n \in 1 .. Len(cmds) : cmds[n].name # "HMSET"
  BY <1>1, <1>3, ScriptTypes, ScriptWrites
<1>5. Queue(c)' = cmds
  BY <1>1, <1>4, Begun
<1>6. QED  BY <1>1, <1>2, <1>4, <1>5 DEF Vacant, MayStore, SawNone

(* One command queued, nothing answered. *)
LEMMA OneUnstored ==
    ASSUME NEW c, NEW x \in Command, Queue(c)' = <<x>>, Answered(c)' = <<>>,
           x.name = "HMSET" => x.over \/ FreeFor(x.key, c)'
    PROVE  Vacant(c)' /\ SawNone(c)'
<1>1. \A n \in 1 .. Len(<<x>>) : <<x>>[n] = x
  OBVIOUS
<1>2. QED  BY <1>1 DEF Vacant, SawNone, MayStore

(* A method sends an HMSET when it overwrites or EXISTS found no entry.     *)
LEMMA ContinueUnstored ==
    ASSUME Typed, Typed', InOrder, NEW c \in Clients, Vacant(c), SawNone(c), Continue(c),
           Throw(c) => at[c] \in Lasts
    PROVE  Vacant(c)' /\ SawNone(c)'
<1>1. Sends(c) \/ Goes(c)
  <2>1. CASE Throw(c)
    BY <2>1, EndSends DEF Throw
  <2>2. QED  BY <2>1, PutKinds, LookKinds, DeleteHashKinds, DeleteIdKinds DEF Continue
<1>2. HasReply(c) /\ ent' = ent
  BY ContinueChanges DEF server
<1>3. CASE at'[c] \notin {"put_exists", "put_hmset"}
  <2>1. CASE Sends(c)
    <3>1. PICK cmds \in Scripts(at'[c], arg'[c]) : TakeReply(c, cmds)
      BY <2>1 DEF Sends
    <3>2. at'[c] \in Labels /\ arg'[c] \in Arguments /\ FitsLabel(at'[c], arg'[c])
      BY DEF Typed, CallTyped, Fits, FitsLabel
    <3>3. cmds \in Seq(Command) /\ \A n \in 1 .. Len(cmds) : cmds[n].name # "HMSET"
      <4>1. PICK l \in Labels, a \in Arguments : l = at'[c] /\ a = arg'[c]
        BY <3>2
      <4>2. QED  BY <1>3, <3>1, <3>2, <4>1, ScriptTypes, ScriptWrites
    <3>4. Queue(c)' = cmds
      BY <2>1, <3>1, <3>3, LastTaken DEF Sends
    <3>5. QED  BY <1>3, <3>3, <3>4 DEF Vacant, MayStore, SawNone
  <2>2. CASE Goes(c) /\ newer' = newer
    <3>1. Queue(c)' = Queue(c)
      BY <2>2, NextTaken DEF Goes
    <3>2. QED  BY <1>2, <1>3, <2>2, <3>1 DEF Vacant, MayStore, SawNone, FreeFor
  <2>4. CASE newer' # newer
    <3>1. HasReply(c) /\ at[c] \in Lasts /\ TakeReply(c, <<>>)
      BY <2>4, ContinueForgets
    <3>2. Queue(c)' = <<>>
      <4>1. <<>> \in Seq(Command)
        OBVIOUS
      <4>2. QED  BY <3>1, <4>1, LastTaken
    <3>3. \A n \in 1 .. Len(<<>>) : FALSE
      OBVIOUS
    <3>4. QED  BY <1>3, <3>2, <3>3 DEF Vacant, SawNone
  <2>3. QED  BY <1>1, <2>1, <2>2, <2>4
<1>4. CASE at'[c] \in {"put_exists", "put_hmset"}
  <2>1. at[c] \in {"put_select", "put_exists"} /\ {"put_select", "put_exists"} \subseteq Lasts
    BY <1>4, PutOnlyGoes DEF PutSelected, PutProceeds, Received, Lasts
  <2>2. /\ arg[c].hash \in Hashes /\ arg[c].entry \in Entry /\ arg[c].overwrite \in BOOLEAN
        /\ Putting \subseteq OnHash
    BY <2>1 DEF Typed, CallTyped, Fits, FitsLabel, Arguments, OnHash, Putting
  <2>3. PICK m \in Command : /\ m = Hmset(arg[c].hash, arg[c].entry, arg[c].overwrite)
                             /\ m.over = arg[c].overwrite /\ m.key = arg[c].hash
    BY <2>2, CommandNamed DEF Hmset
  <2>e. PICK x \in Command : x = Exists(arg[c].hash) /\ x.name = "EXISTS"
    BY <2>2, CommandNamed
  <2>q. at[c] \in Lasts /\ <<m>> \in Seq(Command) /\ <<x>> \in Seq(Command)
    BY <2>1
  <2>n. newer' = newer
    BY <1>4, ContinueForgets
  <2>4. CASE TakeReply(c, <<m>>) /\ (arg[c].overwrite \/ FreeFor(arg[c].hash, c))
    <3>1. Queue(c)' = <<m>> /\ Answered(c)' = <<>>
      BY <1>2, <2>q, <2>4, LastTaken
    <3>2. m.over \/ FreeFor(m.key, c)'
      BY <1>2, <2>3, <2>4, <2>n DEF FreeFor
    <3>3. QED  BY <3>1, <3>2, OneUnstored
  <2>5. CASE TakeReply(c, <<x>>)
    <3>1. Queue(c)' = <<x>> /\ Answered(c)' = <<>>
      BY <1>2, <2>q, <2>5, LastTaken
    <3>2. QED  BY <2>e, <3>1, OneUnstored
  <2>6. CASE PutSelected(c)
    BY <2>3, <2>4, <2>e, <2>5, <2>6 DEF PutSelected, StoreFrame, Goto
  <2>7. CASE PutProceeds(c)
    <3>1. /\ at[c] = "put_exists" /\ ~err[c] /\ TakeReply(c, <<m>>)
          /\ Reply(c).type # "error" /\ ~SaysExists(Reply(c))
      BY <2>3, <2>7 DEF PutProceeds, Received, HasReply, StoreFrame, Goto
    <3>2. Answered(c) = <<Reply(c)>>
      BY <1>2, <2>q, <3>1, LastTaken
    <3>3. 1 \in 1 .. Len(Answered(c)) /\ Answered(c)[1] = Reply(c)
      BY <3>2
    <3>4. FreeFor(arg[c].hash, c)
      BY <3>1, <3>3 DEF SawNone, Honest
    <3>5. QED  BY <2>4, <3>1, <3>4
  <2>8. QED  BY <1>4, <2>6, <2>7, PutOnlyGoes
<1>5. QED  BY <1>3, <1>4

(* A client with a command under way, or waiting for a reply, takes note of *)
(* what is stored.                                                          *)
Notes(b) == at[b] # "idle" \/ wire[b] # <<>>

LEMMA QueuedNotes ==
    ASSUME Typed, InOrder, NEW b \in Clients, Unsent(b), Queue(b) # <<>>
    PROVE  Notes(b)
<1>1. SUFFICES ASSUME at[b] = "idle", wire[b] = <<>> PROVE FALSE
  BY DEF Notes
<1>2. obuf[b] = <<>>
  BY <1>1, NothingQueued DEF Unsent
<1>3. <<>> \o <<>> = <<>>
  OBVIOUS
<1>4. QED  BY <1>1, <1>2, <1>3 DEF Queue

(* The server executes or refuses a command: a hash that was free for a     *)
(* client stays so, for only an HMSET takes that away, and it is noted.     *)
LEMMA StaysFree ==
    ASSUME Typed, NEW c \in Clients, Served(c) \/ Refused(c), NEW b \in Clients, Notes(b),
           NEW h \in Hashes, FreeFor(h, b)
    PROVE  FreeFor(h, b)'
<1>1. CASE Refused(c)
  BY <1>1 DEF Refused, Refuse, Fault, FreeFor
<1>2. CASE Served(c)
  <2>1. newer'[b] = newer[b] \cup Stored(c) /\ Execute(c, Head(wire[c]))
    BY <1>2 DEF Served, Perform, Notes
  <2>2. CASE Head(wire[c]).name = "HMSET"
    <3>1. Stored(c) = {Head(wire[c]).key}
      BY <2>2 DEF Stored
    <3>2. ent' = [ent EXCEPT ![sel[c]][Head(wire[c]).key] = Head(wire[c]).entry]
      BY <2>1, <2>2 DEF Execute
    <3>3. CASE h = Head(wire[c]).key
      BY <2>1, <3>1, <3>3 DEF FreeFor
    <3>4. CASE h # Head(wire[c]).key
      <4>1. ent'[0][h] = ent[0][h]
        BY <3>2, <3>4 DEF Typed, ServerTyped
      <4>2. QED  BY <2>1, <4>1 DEF FreeFor
    <3>5. QED  BY <3>3, <3>4
  <2>3. CASE Head(wire[c]).name # "HMSET"
    <3>1. ent[0][h] = None => ent'[0][h] = None
      BY <2>1, <2>3 DEF Execute, Typed, ServerTyped
    <3>2. QED  BY <2>1, <3>1 DEF FreeFor
  <2>4. QED  BY <2>2, <2>3
<1>3. QED  BY <1>1, <1>2

(* A command may still store its frame, a reply still says what is so.      *)
LEMMA StaysTrue ==
    ASSUME Typed, NEW c \in Clients, Served(c) \/ Refused(c), NEW b \in Clients, Notes(b)
    PROVE  /\ \A m \in Command : MayStore(m, b) => MayStore(m, b)'
           /\ \A h \in Hashes : \A r : Honest(r, h, b) => Honest(r, h, b)'
<1>1. \A h \in Hashes : FreeFor(h, b) => FreeFor(h, b)'
  BY StaysFree
<1>2. ASSUME NEW m \in Command, MayStore(m, b) PROVE MayStore(m, b)'
  <2>1. m.name = "HMSET" => m.key \in Hashes
    BY CommandFields
  <2>2. QED  BY <1>1, <1>2, <2>1 DEF MayStore
<1>3. ASSUME NEW h \in Hashes, NEW r, Honest(r, h, b) PROVE Honest(r, h, b)'
  BY <1>1, <1>3 DEF Honest
<1>4. QED  BY <1>2, <1>3

(* The hash a Put looks for. *)
LEMMA LooksFor ==
    ASSUME Typed, NEW c \in Clients, at[c] = "put_exists"
    PROVE  arg[c].hash \in Hashes
BY DEF Typed, CallTyped, Fits, FitsLabel, OnHash, Putting

(* What the server does for a client leaves the HMSETs and the EXISTS of    *)
(* the others in order.                                                     *)
LEMMA OthersServed ==
    ASSUME Typed, InOrder, Unstored, NEW c \in Clients, Served(c) \/ Refused(c),
           NEW b \in Clients \ {c}
    PROVE  Vacant(b)' /\ SawNone(b)'
<1>1. /\ Queue(b)' = Queue(b) /\ Answered(b)' = Answered(b) /\ err'[b] = err[b]
      /\ at'[b] = at[b] /\ arg'[b] = arg[b]
  BY StepSpares DEF Step, Spares
<1>2. Vacant(b) /\ SawNone(b) /\ Unsent(b)
  BY DEF Unstored
<1>3. ASSUME NEW n \in 1 .. Len(Queue(b)) PROVE MayStore(Queue(b)[n], b)'
  <2>1. Queue(b) # <<>> /\ Queue(b)[n] \in Command
    BY <1>3, QueueTypes
  <2>2. PICK m \in Command : m = Queue(b)[n]
    BY <2>1
  <2>3. MayStore(m, b)'
    BY <1>2, <2>1, <2>2, QueuedNotes, StaysTrue DEF Vacant
  <2>4. QED  BY <1>1, <2>2, <2>3 DEF MayStore
<1>4. Vacant(b)'
  <2>1. ASSUME NEW n \in 1 .. Len(Queue(b)') PROVE MayStore(Queue(b)[n], b)'
    BY <1>1, <1>3, <2>1
  <2>2. QED  BY <2>1 DEF Vacant
<1>5. ASSUME ~err'[b], at'[b] = "put_exists" PROVE SawNone(b)'
  <2>1. Notes(b) /\ ~err[b] /\ at[b] = "put_exists"
    BY <1>1, <1>5 DEF Notes
  <2>2. PICK h \in Hashes : h = arg[b].hash
    BY <2>1, LooksFor
  <2>3. \A r : Honest(r, h, b) => Honest(r, h, b)'
    BY <2>1, StaysTrue
  <2>4. QED  BY <1>1, <1>2, <2>1, <2>2, <2>3 DEF SawNone
<1>6. QED  BY <1>4, <1>5 DEF SawNone

(* The server executes or refuses the first command of a client.            *)
LEMMA ServedUnstored ==
    ASSUME Typed, Selects, NEW c \in Clients, ~err[c] => Waits(c), Vacant(c), SawNone(c),
           Served(c) \/ Refused(c)
    PROVE  Vacant(c)' /\ SawNone(c)'
<1>1. PICK m \in Command, q \in Replies :
        /\ m = Head(Queue(c)) /\ Queue(c) # <<>> /\ Queue(c)' = Tail(Queue(c))
        /\ UNCHANGED <<err, at, arg>>
        /\ Answered(c)' = IF err[c] THEN Answered(c) ELSE Append(Answered(c), q)
        /\ \/ Execute(c, m) /\ q = Answer(c, m)
           \/ Fault /\ q.type = "error"
  BY ServedAnswers
<1>2. /\ Queue(c) \in Seq(Command) /\ Answered(c) \in Seq(Replies)
      /\ Len(Queue(c)) \in Nat /\ Len(Answered(c)) \in Nat
  BY QueueTypes
<1>3. /\ Len(Tail(Queue(c))) = Len(Queue(c)) - 1
      /\ \A n \in 1 .. Len(Queue(c)) - 1 : Tail(Queue(c))[n] = Queue(c)[n + 1]
  BY <1>1, <1>2, HeadTailProperties
<1>4. /\ Len(Append(Answered(c), q)) = Len(Answered(c)) + 1
      /\ Append(Answered(c), q)[Len(Answered(c)) + 1] = q
      /\ \A n \in 1 .. Len(Answered(c)) : Append(Answered(c), q)[n] = Answered(c)[n]
  BY <1>2, AppendProperties
<1>5. Notes(c)
  BY DEF Notes, Served, Refused, Perform, Refuse
<1>6. Vacant(c)'
  <2>1. ASSUME NEW n \in 1 .. Len(Queue(c)) - 1
        PROVE  MayStore(Queue(c)[n], c)'
    <3>1. PICK x \in Command : x = Queue(c)[n + 1] /\ n + 1 \in 1 .. Len(Queue(c))
      BY <1>2, <2>1
    <3>2. MayStore(x, c)'
      BY <1>5, <3>1, StaysTrue DEF Vacant
    <3>3. Queue(c)'[n] = x
      BY <1>1, <1>3, <3>1
    <3>4. QED  BY <3>2, <3>3 DEF MayStore
  <2>2. QED  BY <1>1, <1>3, <2>1 DEF Vacant
<1>7. ASSUME ~err'[c], at'[c] = "put_exists" PROVE SawNone(c)'
  <2>1. ~err[c] /\ at[c] = "put_exists" /\ arg'[c] = arg[c]
    BY <1>1, <1>7
  <2>2. PICK h \in Hashes : h = arg[c].hash
    BY <2>1, LooksFor
  <2>3. \A r : Honest(r, h, c) => Honest(r, h, c)'
    BY <1>5, StaysTrue
  <2>4. Honest(q, h, c)'
    <3>1. CASE Fault /\ q.type = "error"
      BY <3>1 DEF Honest
    <3>2. CASE Execute(c, m) /\ q = Answer(c, m)
      <4>1. Queue(c) \in Scripts("put_exists", arg[c]) /\ sel[c] = 0
        BY <1>1, <2>1, NarrowQueue DEF Narrow, Selects, Chooses
      <4>2. Queue(c) = <<Exists(h)>>
        BY <2>2, <4>1, ScriptValues
      <4>3. m.name = "EXISTS" /\ m.key = h
        BY <1>1, <4>2 DEF Exists
      <4>4. /\ q.type = "integer" /\ q.integer = (IF ent[0][h] = None THEN 0 ELSE 1)
            /\ ent' = ent
        BY <3>2, <4>1, <4>3 DEF Answer, EmptyReply, Execute
      <4>5. QED  BY <4>4 DEF Honest, SaysExists, FreeFor
    <3>3. QED  BY <1>1, <3>1, <3>2
  <2>5. QED  BY <1>1, <1>2, <1>4, <2>1, <2>2, <2>3, <2>4 DEF SawNone
<1>8. QED  BY <1>6, <1>7 DEF SawNone

(* A step of a client other than the server's for it changes no entry, and  *)
(* nothing that other clients have noted.                                   *)
LEMMA OnlyServed ==
    ASSUME Typed, InOrder, NEW c \in Clients, Step(c), ~Served(c),
           Throw(c) => at[c] \in Lasts
    PROVE  ent' = ent /\ \A b \in Clients \ {c} : newer'[b] = newer[b]
<1>1. CASE Call(c)
  BY <1>1, CallBegins DEF Begin, server
<1>2. CASE Continue(c)
  BY <1>2, ContinueChanges, ContinueForgets DEF server
<1>3. CASE Transfer(c) \/ LoseConnection(c) \/ ReadPastEnd(c)
  BY <1>3, Transferred, Lost, Crash DEF Transfer, LoseConnection, ReadPastEnd
<1>4. CASE Refused(c)
  BY <1>4 DEF Refused, Refuse, Fault
<1>5. QED  BY <1>1, <1>2, <1>3, <1>4 DEF Step

(* A context that is dead has nothing left to send.                         *)
LEMMA UnsentStep ==
    ASSUME Typed, InOrder, \A c \in Clients : Unsent(c), NEW c \in Clients, Step(c),
           NEW b \in Clients
    PROVE  Unsent(b)'
<1>1. CASE b # c
  BY <1>1, StepSpares DEF Spares, Unsent
<1>2. CASE Call(c)
  BY <1>1, <1>2, CallBegins DEF Begin, Unsent
<1>3. CASE Continue(c)
  BY <1>1, <1>3, ContinueChanges DEF TakeReply, HasReply, Unsent
<1>4. CASE Transfer(c)
  <2>1. ~err[c] /\ err' = err
    BY <1>4 DEF Transfer, BufferWrite, BufferRead, Waiting
  <2>2. QED  BY <1>1, <2>1 DEF Unsent
<1>5. CASE Served(c) \/ Refused(c)
  BY <1>5 DEF Served, Refused, Perform, Refuse, Serve, Unsent
<1>6. CASE LoseConnection(c) \/ ReadPastEnd(c)
  <2>1. obuf'[c] = <<>>
    BY <1>6 DEF LoseConnection, Lose, ReadPastEnd, Drop, Typed, ChannelTyped
  <2>2. QED  BY <1>1, <2>1 DEF Unsent
<1>7. QED  BY <1>1, <1>2, <1>3, <1>4, <1>5, <1>6 DEF Step

(* Every step leaves the HMSETs and the EXISTS of every client in order.    *)
LEMMA UnstoredStep ==
    ASSUME Typed, Typed', InOrder, Selects, Commanded, Unstored, [Next]_vars,
           \A c \in Clients : Throw(c) => at[c] \in Lasts
    PROVE  Unstored'
<1>1. CASE Next
  <2>1. PICK c \in Clients : Step(c)
    BY <1>1, NextIsStep
  <2>2. Vacant(c) /\ SawNone(c) /\ (~err[c] => Waits(c))
    BY DEF Unstored, Commanded
  <2>3. Vacant(c)' /\ SawNone(c)'
    <3>1. CASE Call(c)
      BY <3>1, CallUnstored
    <3>2. CASE Continue(c)
      BY <2>2, <3>2, ContinueUnstored
    <3>3. CASE Transfer(c)
      <4>1. newer' = newer
        BY <3>3 DEF Transfer
      <4>2. QED
        BY <2>2, <3>3, <4>1, Transferred DEF Vacant, SawNone, MayStore, Honest, FreeFor
    <3>4. CASE Served(c) \/ Refused(c)
      BY <2>2, <3>4, ServedUnstored
    <3>5. CASE LoseConnection(c)
      <4>1. Len(Queue(c)) \in Nat
        BY QueueTypes
      <4>2. newer' = newer
        BY <3>5 DEF LoseConnection
      <4>3. QED  BY <2>2, <3>5, <4>1, <4>2, Lost DEF Vacant, SawNone, MayStore, FreeFor
    <3>6. CASE ReadPastEnd(c)
      <4>1. Queue(c)' = <<>> /\ at'[c] = "crashed"
        BY <3>6, Crash
      <4>2. \A n \in 1 .. Len(<<>>) : FALSE
        OBVIOUS
      <4>3. QED  BY <4>1, <4>2 DEF Vacant, SawNone
    <3>7. QED  BY <2>1, <3>1, <3>2, <3>3, <3>4, <3>5, <3>6 DEF Step
  <2>4. ASSUME NEW b \in Clients \ {c} PROVE Vacant(b)' /\ SawNone(b)'
    <3>1. CASE Served(c)
      BY <3>1, OthersServed
    <3>2. CASE ~Served(c)
      <4>1. ent' = ent /\ newer'[b] = newer[b]
        BY <2>1, <3>2, OnlyServed
      <4>2. /\ Queue(b)' = Queue(b) /\ Answered(b)' = Answered(b) /\ err'[b] = err[b]
            /\ at'[b] = at[b] /\ arg'[b] = arg[b]
        BY <2>1, StepSpares DEF Spares
      <4>3. Vacant(b) /\ SawNone(b)
        BY DEF Unstored
      <4>4. QED  BY <4>1, <4>2, <4>3 DEF Vacant, SawNone, MayStore, Honest, FreeFor
    <3>3. QED  BY <3>1, <3>2
  <2>5. \A b \in Clients : Unsent(b)'
    BY <2>1, UnsentStep DEF Unstored
  <2>6. QED  BY <2>3, <2>4, <2>5 DEF Unstored
<1>2. CASE UNCHANGED vars
  BY <1>2 DEF vars, Unstored, Vacant, SawNone, Unsent, MayStore, Honest, FreeFor, Queue, Answered
<1>3. QED  BY <1>1, <1>2

(* Nothing is under way at the start.                                       *)
LEMMA InitUnstored == Init => Unstored
<1> SUFFICES ASSUME Init, NEW c \in Clients PROVE Vacant(c) /\ SawNone(c) /\ Unsent(c)
  BY DEF Unstored
<1>1. <<>> \o <<>> = <<>>
  OBVIOUS
<1>2. Queue(c) = <<>> /\ at[c] = "idle" /\ obuf[c] = <<>>
  BY <1>1 DEF Queue, Init, ContextInit
<1>3. QED  BY <1>2 DEF Vacant, SawNone, Unsent

(* A step that changes an entry executes an HMSET or a DEL.                 *)
LEMMA FirstStays ==
    ASSUME Typed, InOrder, Unstored, Next, \A c \in Clients : Throw(c) => at[c] \in Lasts,
           NEW h \in Hashes
    PROVE  \/ ent[0][h] = None
           \/ ent'[0][h] \in {ent[0][h], None}
           \/ \E c \in Clients :
                /\ wire'[c] # wire[c]
                /\ Head(wire[c]).name = "HMSET"
                /\ Head(wire[c]).over \/ h \in newer[c]
<1>1. PICK c \in Clients : Step(c)
  BY NextIsStep
<1>2. CASE Served(c)
  <2>1. PICK m \in Command :
          /\ m = Head(wire[c]) /\ wire[c] # <<>> /\ Execute(c, m) /\ m = Head(Queue(c))
          /\ Queue(c) # <<>> /\ wire' = [wire EXCEPT ![c] = Tail(@)]
    <3>1. wire[c] # <<>> /\ Head(wire[c]) \in Command /\ Execute(c, Head(wire[c]))
      BY <1>2, BuffersOf DEF Served, Perform
    <3>2. Serve(c, Answer(c, Head(wire[c]))) /\ Answer(c, Head(wire[c])) \in Replies
      BY <1>2, <3>1, ReplyTypes DEF Served, Perform, Typed
    <3>3. Queue(c) # <<>> /\ Head(wire[c]) = Head(Queue(c))
      BY <3>1, <3>2, Answers1
    <3>4. wire' = [wire EXCEPT ![c] = Tail(@)]
      BY <3>2, SMTT(30) DEF Serve
    <3>5. QED  BY <3>1, <3>3, <3>4
  <2>2. CASE m.name = "HMSET"
    <3>1. ent' = [ent EXCEPT ![sel[c]][m.key] = m.entry]
      BY <2>1, <2>2 DEF Execute
    <3>2. h # m.key => ent'[0][h] = ent[0][h]
      BY <3>1 DEF Typed, ServerTyped
    <3>3. m.over \/ ent[0][m.key] = None \/ m.key \in newer[c]
      <4>1. 1 \in 1 .. Len(Queue(c)) /\ Queue(c)[1] = m
        BY <2>1, QueueTypes
      <4>2. QED  BY <2>2, <4>1 DEF Unstored, Vacant, MayStore, FreeFor
    <3>4. wire'[c] # wire[c]
      <4>1. wire[c] \in Seq(Command) /\ wire'[c] = Tail(wire[c])
        BY <2>1, BuffersOf DEF Typed, ChannelTyped
      <4>2. PICK k \in Nat : Len(wire[c]) = k /\ Len(Tail(wire[c])) = k - 1
        BY <2>1, <4>1, HeadTailProperties, LenProperties
      <4>3. k # k - 1
        OBVIOUS
      <4>4. QED  BY <4>1, <4>2, <4>3, Zenon
    <3>5. QED  BY <2>1, <2>2, <3>2, <3>3, <3>4
  <2>3. CASE m.name # "HMSET"
    BY <2>1, <2>3 DEF Execute, Typed, ServerTyped
  <2>4. QED  BY <2>2, <2>3
<1>3. CASE ~Served(c)
  BY <1>1, <1>3, OnlyServed
<1>4. QED  BY <1>2, <1>3

(* Any number of clients: the frame stored under a hash stays until a DEL,  *)
(* the HMSET of a Put that overwrites, or that of a Put called before it    *)
(* was stored, whichever commands are refused and whenever what lost        *)
(* connections had under way is executed (RedisHashStore.cpp:55-72).        *)
THEOREM StoreFirstPutStays == Spec /\ PipelinesHold => FirstPutStays
<1> DEFINE IInv == /\ PipelinesHold /\ Typed /\ InOrder /\ StaysNarrow /\ Selects
                   /\ Commanded /\ Unstored
           Remains == \A h \in Hashes :
                      \/ ent[0][h] = None
                      \/ ent'[0][h] \in {ent[0][h], None}
                      \/ \E c \in Clients :
                           /\ wire'[c] # wire[c]
                           /\ Head(wire[c]).name = "HMSET"
                           /\ Head(wire[c]).over \/ h \in newer[c]
<1>1. Init /\ PipelinesHold => IInv
  BY InitTyped, InitInOrder, InitSelects, InitCommanded, InitUnstored
<1>2. IInv /\ [Next]_vars => IInv'
  <2> SUFFICES ASSUME IInv, [Next]_vars PROVE IInv'
    OBVIOUS
  <2>1. PipelinesHold' <=> PipelinesHold
    BY DEF PipelinesHold
  <2>2. Typed' /\ InOrder' /\ StaysNarrow' /\ Selects'
    BY NextTyped, NextInOrderStep, SelectsStep
  <2>3. \A c \in Clients : Throw(c) => at[c] \in Lasts
    BY ThrowsLast
  <2>4. Commanded' /\ Unstored'
    BY <2>2, <2>3, CommandedStep, UnstoredStep
  <2>5. QED  BY <2>1, <2>2, <2>4
<1>3. IInv /\ [Next]_vars => [Remains]_ent
  <2> SUFFICES ASSUME IInv, [Next]_vars PROVE [Remains]_ent
    OBVIOUS
  <2>1. CASE Next
    BY <2>1, ThrowsLast, FirstStays
  <2>2. CASE UNCHANGED vars
    BY <2>2 DEF vars
  <2>3. QED  BY <2>1, <2>2
<1>4. Spec /\ PipelinesHold => [][Remains]_ent
  <2> HIDE DEF IInv, Remains
  <2>1. PipelinesHold <=> PipelinesHold'
    BY DEF PipelinesHold
  <2>2. QED  BY <1>1, <1>2, <1>3, PTL DEF Spec
<1>5. QED  BY <1>4, PTL DEF FirstPutStays
=============================================================================
