-------------------------- MODULE StoreIndexProofs --------------------------
(* RedisHashStore implements HashIndex: as long as no command is refused    *)
(* and no connection lost, the several commands of a method of one client   *)
(* have the effect of one atomic step, for every set of hashes, clips and   *)
(* frame numbers.                                                           *)
EXTENDS StoreProofs

-----------------------------------------------------------------------------
(* One client, until the first fault.  The database the connection is on,   *)
(* by the label of the method and the replies answered.                     *)
InDb(c) ==
    /\ at[c] \in {"put_exists", "put_hmset", "get_all", "look_all", "del_del", "id_del",
                  "count_size"} => sel[c] = 0
    /\ at[c] \in {"put_lpush", "del_lrem", "id_delkey", "countid_len", "keys_all"} => sel[c] = 1
    /\ Answered(c) # <<>> /\ at[c] \in {"put_select", "get_select", "look_select", "del_select",
                                        "count_select", "id_select0", "id_skip"} => sel[c] = 0
    /\ Answered(c) # <<>> /\ at[c] \in {"put_select1", "del_select1", "id_select1",
                                        "countid_select", "keys_select"} => sel[c] = 1
    /\ at[c] = "id_select" => /\ Len(Answered(c)) \in {1, 2} => sel[c] = 1
                              /\ Len(Answered(c)) = 3 => sel[c] = 0
    /\ at[c] = "id_lrange" => /\ Len(Answered(c)) < 2 => sel[c] = 1
                              /\ Len(Answered(c)) = 2 => sel[c] = 0

(* What a reply that is on its way says is still so.                        *)
Tells(r, a) ==
    /\ r.type # "error"
    /\ r.to = "EXISTS" =>
         r.type = "integer" /\ r.integer = (IF ent[0][a.hash] = None THEN 0 ELSE 1)
    /\ r.to = "HGETALL" =>
         r.type = "array" /\ r.fields = ent[0][a.hash] /\ r.list = NoHashes /\ r.keys = {}
    /\ r.to = "LRANGE" =>
         r.type = "array" /\ r.fields = None /\ r.list = lst[1][a.id] /\ r.keys = {}
    /\ r.to = "LLEN" => r.type = "integer" /\ r.integer = SumFunction(lst[1][a.id])
    /\ r.to = "DBSIZE" => r.type = "integer" /\ r.integer = Cardinality(KeysOf(0))
    /\ r.to = "KEYS" =>
         r.type = "array" /\ r.fields = None /\ r.list = NoHashes /\ r.keys = KeysOf(1)

Truth(c) == \A n \in 1 .. Len(Answered(c)) : Tells(Answered(c)[n], arg[c])

(* A Put stores a frame that may be stored: it overwrites, or EXISTS found  *)
(* none.                                                                    *)
Unwritten(c) ==
    \/ at[c] \in {"put_select", "put_exists"}
    \/ at[c] = "put_hmset" /\ Answered(c) = <<>>
PutPlan(c) ==
    /\ at[c] \in Putting => arg[c].overwrite \in Overwrites
    /\ Unwritten(c) => lst[1][arg[c].entry.id][arg[c].hash] < MaxCopies
    /\ at[c] = "put_hmset" /\ Answered(c) = <<>> =>
         arg[c].overwrite \/ ent[0][arg[c].hash] = None

(* DeleteEntry(hash) has looked up the entry it is about to delete.         *)
Undeleted(c) ==
    \/ at[c] = "del_select" /\ Len(Answered(c)) < 2
    \/ at[c] = "del_del" /\ Answered(c) = <<>>
HashPlan(c) ==
    /\ at[c] \in OnEntry => arg[c].entry \in Entry
    /\ Undeleted(c) => ent[0][arg[c].hash] # None /\ ent[0][arg[c].hash] = arg[c].entry

(* DeleteEntry(id) still has to delete, or has deleted, the entry of every  *)
(* hash the list holds, and of no other.                                    *)
Doomed(c, h) == lst[1][arg[c].id][h] > 0
IdPlan(c) ==
    /\ at[c] \in {"id_select0", "id_del"} =>
         /\ \A k \in Keys : todo[c][k] > 0 => k \in Hashes /\ Doomed(c, k)
         /\ \A h \in Hashes : Doomed(c, h) =>
              todo[c][h] > 0 \/ ent[0][h] = None \/ (at[c] = "id_del" /\ Queue(c) = <<Del(h)>>)
    /\ at[c] = "id_del" =>
         \A k \in Keys : Queue(c) = <<Del(k)>> => k \in Hashes /\ Doomed(c, k)
    /\ at[c] \in {"id_select1", "id_delkey"} =>
         \A h \in Hashes : Doomed(c, h) => ent[0][h] = None

Calm(c) ==
    /\ ~err[c] /\ Waits(c) /\ InDb(c) /\ Truth(c)
    /\ PutPlan(c) /\ HashPlan(c) /\ IdPlan(c)
Undisturbed == faults = 0 => InOrder /\ DatabasesSeparate /\ Calm(Me)

-----------------------------------------------------------------------------
(* The server executes the next command of the method's script.             *)
Executed(c, s) ==
    /\ s \in Scripts(at[c], arg[c]) /\ s \in Seq(Command) /\ Len(s) \in Nat
    /\ Len(Answered(c)) \in Nat /\ Len(Answered(c)) < Len(s)
    /\ s[Len(Answered(c)) + 1] \in Command
    /\ Execute(c, s[Len(Answered(c)) + 1])
    /\ Queue(c) = Rest(s, Len(Answered(c))) /\ Queue(c)' = Rest(s, Len(Answered(c)) + 1)
    /\ Answered(c)' = Append(Answered(c), Answer(c, s[Len(Answered(c)) + 1]))
    /\ Len(Answered(c)') = Len(Answered(c)) + 1
    /\ Answered(c)'[Len(Answered(c)) + 1] = Answer(c, s[Len(Answered(c)) + 1])
    /\ \A n \in 1 .. Len(Answered(c)) : Answered(c)'[n] = Answered(c)[n]
    /\ UNCHANGED <<err, at, arg, todo, out, faults>>

(* Without a fault the server executes what the script says is next.        *)
LEMMA ServedExecutes ==
    ASSUME Typed, NEW c \in Clients, ~err[c], Waits(c), Served(c)
    PROVE  \E s : Executed(c, s)
<1> DEFINE m == Head(Queue(c))
<1>1. PICK s \in Scripts(at[c], arg[c]) :
        Len(Answered(c)) <= Len(s) /\ Queue(c) = Rest(s, Len(Answered(c)))
  BY DEF Waits
<1>2. s \in Seq(Command) /\ Len(s) \in Nat /\ Len(Answered(c)) \in Nat
      /\ Answered(c) \in Seq(Replies)
  BY ScriptOf, QueueTypes
<1>3. /\ Queue(c) # <<>> /\ m \in Command /\ Queue(c)' = Tail(Queue(c))
      /\ UNCHANGED <<err, at, arg, todo, out>>
  BY ServedAnswers
<1>4. faults' = faults /\ faults \in Nat
  <2>1. faults' = faults
    BY DEF Served, Perform, Execute
  <2>2. faults \in Nat
    BY RedisAssumption DEF RedisAssumption, Typed, ServerTyped
  <2>3. QED  BY <2>1, <2>2
<1>5. PICK q \in Replies :
        /\ Answered(c)' = IF err[c] THEN Answered(c) ELSE Append(Answered(c), q)
        /\ \/ Execute(c, m) /\ q = Answer(c, m) /\ q.type # "error"
           \/ /\ m.name \in Refusable /\ Fault /\ q = Refusal(m) /\ q.type = "error"
              /\ faults < MaxFaults
  BY ServedAnswers
<1>6. Execute(c, m) /\ q = Answer(c, m)
  BY <1>4, <1>5 DEF Fault
<1> HIDE DEF m
<1>7. Len(Answered(c)) \in 0 .. Len(s)
  BY <1>1, <1>2
<1>8. /\ Len(Answered(c)) < Len(s)
      /\ Tail(Rest(s, Len(Answered(c)))) = Rest(s, Len(Answered(c)) + 1)
      /\ Head(Rest(s, Len(Answered(c)))) = s[Len(Answered(c)) + 1]
  BY <1>1, <1>2, <1>3, <1>7, RestTail, RestIs
<1>9. m = s[Len(Answered(c)) + 1]
  BY <1>1, <1>8 DEF m
<1>10. /\ Len(Append(Answered(c), q)) = Len(Answered(c)) + 1
       /\ Append(Answered(c), q)[Len(Answered(c)) + 1] = q
       /\ \A n \in 1 .. Len(Answered(c)) : Append(Answered(c), q)[n] = Answered(c)[n]
  BY <1>2, AppendProperties
<1>11. Answered(c)' = Append(Answered(c), q)
  BY <1>5
<1>12. QED
  BY <1>1, <1>2, <1>3, <1>4, <1>6, <1>8, <1>9, <1>10, <1>11 DEF Executed

(* Where a method stands when the server executes m as the (k+1)-th command *)
(* of its script: the label, with the replies answered.                     *)
Selects0 == {"put_select", "get_select", "look_select", "del_select", "count_select",
             "id_select0", "id_skip"}
Selects1 == {"put_select1", "del_select1", "id_select1", "countid_select", "keys_select"}

Turn(l, a, k, m) ==
    \/ l \in Selects0 /\ k = 0 /\ m = Select(0)
    \/ l \in Selects1 /\ k = 0 /\ m = Select(1)
    \/ l = "id_select" /\ k = 0 /\ m = Select(1)
    \/ ((l = "id_select" /\ k = 2) \/ (l = "id_lrange" /\ k = 1)) /\ m = Select(0)
    \/ l = "put_exists" /\ k = 0 /\ m = Exists(a.hash)
    \/ l = "put_hmset" /\ k = 0 /\ m = Hmset(a.hash, a.entry, a.overwrite)
    \/ l = "put_lpush" /\ k = 0 /\ m = Lpush(a.entry.id, a.hash)
    \/ l \in {"get_all", "look_all"} /\ k = 0 /\ m = Hgetall(a.hash)
    \/ ((l = "del_select" /\ k = 1) \/ (l = "del_del" /\ k = 0)) /\ m = Del(a.hash)
    \/ ((l = "del_select1" /\ k = 1) \/ (l = "del_lrem" /\ k = 0)) /\ m = Lrem(a.entry.id, a.hash)
    \/ ((l = "id_select" /\ k = 1) \/ (l = "id_lrange" /\ k = 0)) /\ m = Lrange(a.id)
    \/ l = "id_del" /\ k = 0 /\ \E x \in Keys : m = Del(x)
    \/ ((l = "id_select1" /\ k = 1) \/ (l = "id_delkey" /\ k = 0)) /\ m = Del(a.id)
    \/ ((l = "count_select" /\ k = 1) \/ (l = "count_size" /\ k = 0)) /\ m = Dbsize
    \/ ((l = "countid_select" /\ k = 1) \/ (l = "countid_len" /\ k = 0)) /\ m = Llen(a.id)
    \/ ((l = "keys_select" /\ k = 1) \/ (l = "keys_all" /\ k = 0)) /\ m = AllKeys

(* Which command of a script of one, two or three is the next.              *)
LEMMA OneTurn ==
    ASSUME NEW x, NEW s, s = <<x>>, NEW k \in Nat, k < Len(s)
    PROVE  k = 0 /\ s[k + 1] = x
OBVIOUS

LEMMA TwoTurns ==
    ASSUME NEW x, NEW y, NEW s, s = <<x, y>>, NEW k \in Nat, k < Len(s)
    PROVE  \/ k = 0 /\ s[k + 1] = x
           \/ k = 1 /\ s[k + 1] = y
OBVIOUS

LEMMA ThreeTurns ==
    ASSUME NEW x, NEW y, NEW z, NEW s, s = <<x, y, z>>, NEW k \in Nat, k < Len(s)
    PROVE  \/ k = 0 /\ s[k + 1] = x
           \/ k = 1 /\ s[k + 1] = y
           \/ k = 2 /\ s[k + 1] = z
OBVIOUS

(* By the label and the number of replies there is one turn.                *)
LEMMA Turns ==
    ASSUME NEW l \in Labels, NEW a, NEW s \in Scripts(l, a), NEW k \in Nat, k < Len(s)
    PROVE  Turn(l, a, k, s[k + 1])
<1>1. CASE l \in {"idle", "crashed"}
  <2>1. s = <<>>
    BY <1>1, ScriptValues
  <2>2. QED  BY <2>1
<1>2. CASE l \in Selects0 \ {"del_select", "count_select"}
  <2>1. s = <<Select(0)>>
    BY <1>2, ScriptValues DEF Selects0
  <2>2. k = 0 /\ s[k + 1] = Select(0)
    BY <2>1, OneTurn
  <2>3. QED  BY <1>2, <2>2 DEF Turn
<1>3. CASE l = "put_select1"
  <2>1. s = <<Select(1)>>
    BY <1>3, ScriptValues
  <2>2. k = 0 /\ s[k + 1] = Select(1)
    BY <2>1, OneTurn
  <2>3. QED  BY <1>3, <2>2 DEF Turn, Selects1
<1>4. CASE l = "put_exists"
  <2>1. s = <<Exists(a.hash)>>
    BY <1>4, ScriptValues
  <2>2. k = 0 /\ s[k + 1] = Exists(a.hash)
    BY <2>1, OneTurn
  <2>3. QED  BY <1>4, <2>2 DEF Turn
<1>5. CASE l = "put_hmset"
  <2>1. s = <<Hmset(a.hash, a.entry, a.overwrite)>>
    BY <1>5, ScriptValues
  <2>2. k = 0 /\ s[k + 1] = Hmset(a.hash, a.entry, a.overwrite)
    BY <2>1, OneTurn
  <2>3. QED  BY <1>5, <2>2 DEF Turn
<1>6. CASE l = "put_lpush"
  <2>1. s = <<Lpush(a.entry.id, a.hash)>>
    BY <1>6, ScriptValues
  <2>2. k = 0 /\ s[k + 1] = Lpush(a.entry.id, a.hash)
    BY <2>1, OneTurn
  <2>3. QED  BY <1>6, <2>2 DEF Turn
<1>7. CASE l \in {"get_all", "look_all"}
  <2>1. s = <<Hgetall(a.hash)>>
    BY <1>7, ScriptValues
  <2>2. k = 0 /\ s[k + 1] = Hgetall(a.hash)
    BY <2>1, OneTurn
  <2>3. QED  BY <1>7, <2>2 DEF Turn
<1>8. CASE l \in {"del_select", "del_del"}
  <2>1. l = "del_del" => k = 0 /\ s[k + 1] = Del(a.hash)
    <3>1. l = "del_del" => s = <<Del(a.hash)>>
      BY ScriptValues
    <3>2. QED  BY <3>1, OneTurn
  <2>2. l = "del_select" => \/ k = 0 /\ s[k + 1] = Select(0)
                            \/ k = 1 /\ s[k + 1] = Del(a.hash)
    <3>1. l = "del_select" => s = <<Select(0), Del(a.hash)>>
      BY ScriptValues
    <3>2. QED  BY <3>1, TwoTurns
  <2>3. QED  BY <1>8, <2>1, <2>2 DEF Turn, Selects0
<1>9. CASE l \in {"del_select1", "del_lrem"}
  <2>1. l = "del_lrem" => k = 0 /\ s[k + 1] = Lrem(a.entry.id, a.hash)
    <3>1. l = "del_lrem" => s = <<Lrem(a.entry.id, a.hash)>>
      BY ScriptValues
    <3>2. QED  BY <3>1, OneTurn
  <2>2. l = "del_select1" => \/ k = 0 /\ s[k + 1] = Select(1)
                             \/ k = 1 /\ s[k + 1] = Lrem(a.entry.id, a.hash)
    <3>1. l = "del_select1" => s = <<Select(1), Lrem(a.entry.id, a.hash)>>
      BY ScriptValues
    <3>2. QED  BY <3>1, TwoTurns
  <2>3. QED  BY <1>9, <2>1, <2>2 DEF Turn, Selects1
<1>10. CASE l = "id_select"
  <2>1. s = <<Select(1), Lrange(a.id), Select(0)>>
    BY <1>10, ScriptValues
  <2>2. \/ k = 0 /\ s[k + 1] = Select(1)
        \/ k = 1 /\ s[k + 1] = Lrange(a.id)
        \/ k = 2 /\ s[k + 1] = Select(0)
    BY <2>1, ThreeTurns
  <2>3. QED  BY <1>10, <2>2 DEF Turn
<1>11. CASE l = "id_lrange"
  <2>1. s = <<Lrange(a.id), Select(0)>>
    BY <1>11, ScriptValues
  <2>2. \/ k = 0 /\ s[k + 1] = Lrange(a.id)
        \/ k = 1 /\ s[k + 1] = Select(0)
    BY <2>1, TwoTurns
  <2>3. QED  BY <1>11, <2>2 DEF Turn
<1>12. CASE l = "id_del"
  <2>1. PICK x \in Keys : s = <<Del(x)>>
    BY <1>12, ScriptValues
  <2>2. k = 0 /\ s[k + 1] = Del(x)
    BY <2>1, OneTurn
  <2>3. QED  BY <1>12, <2>2 DEF Turn
<1>13. CASE l \in {"id_select1", "id_delkey"}
  <2>1. l = "id_delkey" => k = 0 /\ s[k + 1] = Del(a.id)
    <3>1. l = "id_delkey" => s = <<Del(a.id)>>
      BY ScriptValues
    <3>2. QED  BY <3>1, OneTurn
  <2>2. l = "id_select1" => \/ k = 0 /\ s[k + 1] = Select(1)
                            \/ k = 1 /\ s[k + 1] = Del(a.id)
    <3>1. l = "id_select1" => s = <<Select(1), Del(a.id)>>
      BY ScriptValues
    <3>2. QED  BY <3>1, TwoTurns
  <2>3. QED  BY <1>13, <2>1, <2>2 DEF Turn, Selects1
<1>14. CASE l \in {"count_select", "count_size"}
  <2>1. l = "count_size" => k = 0 /\ s[k + 1] = Dbsize
    <3>1. l = "count_size" => s = <<Dbsize>>
      BY ScriptValues
    <3>2. QED  BY <3>1, OneTurn
  <2>2. l = "count_select" => \/ k = 0 /\ s[k + 1] = Select(0)
                              \/ k = 1 /\ s[k + 1] = Dbsize
    <3>1. l = "count_select" => s = <<Select(0), Dbsize>>
      BY ScriptValues
    <3>2. QED  BY <3>1, TwoTurns
  <2>3. QED  BY <1>14, <2>1, <2>2 DEF Turn, Selects0
<1>15. CASE l \in {"countid_select", "countid_len"}
  <2>1. l = "countid_len" => k = 0 /\ s[k + 1] = Llen(a.id)
    <3>1. l = "countid_len" => s = <<Llen(a.id)>>
      BY ScriptValues
    <3>2. QED  BY <3>1, OneTurn
  <2>2. l = "countid_select" => \/ k = 0 /\ s[k + 1] = Select(1)
                                \/ k = 1 /\ s[k + 1] = Llen(a.id)
    <3>1. l = "countid_select" => s = <<Select(1), Llen(a.id)>>
      BY ScriptValues
    <3>2. QED  BY <3>1, TwoTurns
  <2>3. QED  BY <1>15, <2>1, <2>2 DEF Turn, Selects1
<1>16. CASE l \in {"keys_select", "keys_all"}
  <2>1. l = "keys_all" => k = 0 /\ s[k + 1] = AllKeys
    <3>1. l = "keys_all" => s = <<AllKeys>>
      BY ScriptValues
    <3>2. QED  BY <3>1, OneTurn
  <2>2. l = "keys_select" => \/ k = 0 /\ s[k + 1] = Select(1)
                             \/ k = 1 /\ s[k + 1] = AllKeys
    <3>1. l = "keys_select" => s = <<Select(1), AllKeys>>
      BY ScriptValues
    <3>2. QED  BY <3>1, TwoTurns
  <2>3. QED  BY <1>16, <2>1, <2>2 DEF Turn, Selects1
<1>17. QED
  BY <1>1, <1>2, <1>3, <1>4, <1>5, <1>6, <1>7, <1>8, <1>9, <1>10, <1>11, <1>12, <1>13,
     <1>14, <1>15, <1>16 DEF Labels, Selects0

(* The command that is executed, and the turn it is.                        *)
Now(c) == Head(Queue(c))
LEMMA ExecutedTurn ==
    ASSUME Typed, NEW c \in Clients, NEW s, Executed(c, s)
    PROVE  /\ s[Len(Answered(c)) + 1] = Now(c)
           /\ Turn(at[c], arg[c], Len(Answered(c)), Now(c))
           /\ Now(c) \in Command /\ Execute(c, Now(c))
           /\ Answered(c)' = Append(Answered(c), Answer(c, Now(c)))
           /\ Queue(c) # <<>>
           /\ at[c] = "id_del" =>
                /\ Queue(c)' = <<>>
                /\ \E x \in Keys : Now(c) = Del(x) /\ Queue(c) = <<Del(x)>>
<1>1. Len(Answered(c)) \in 0 .. Len(s) /\ Len(Answered(c)) \in Nat
  BY DEF Executed
<1>2. Rest(s, Len(Answered(c))) # <<>>
      /\ Head(Rest(s, Len(Answered(c)))) = s[Len(Answered(c)) + 1]
  BY <1>1, RestIs, RestTail DEF Executed
<1>3. s[Len(Answered(c)) + 1] = Now(c) /\ Queue(c) # <<>>
  BY <1>2 DEF Executed, Now
<1>4. at[c] \in Labels
  BY DEF Typed, CallTyped
<1>5. Turn(at[c], arg[c], Len(Answered(c)), Now(c))
  BY <1>1, <1>3, <1>4, Turns DEF Executed
<1>6. ASSUME at[c] = "id_del"
      PROVE  /\ Queue(c)' = <<>>
             /\ \E x \in Keys : Now(c) = Del(x) /\ Queue(c) = <<Del(x)>>
  <2>1. PICK x \in Keys : s = <<Del(x)>>
    BY <1>6, ScriptValues DEF Executed
  <2>2. Len(Answered(c)) = 0 /\ s[Len(Answered(c)) + 1] = Del(x)
    BY <1>1, <2>1, OneTurn DEF Executed
  <2>3. Len(s) = 1
    BY <2>1
  <2>4. Queue(c) = s
    BY <2>2, RestAll DEF Executed
  <2>5. Queue(c)' = <<>>
    <3>1. Queue(c)' = Rest(s, 1)
      BY <2>2 DEF Executed
    <3>2. 1 \in 0 .. Len(s) /\ s \in Seq(Command)
      BY <2>3 DEF Executed
    <3>3. Rest(s, 1) \in Seq(Command) /\ Len(Rest(s, 1)) = Len(s) - 1
      BY <3>2, RestIs
    <3>4. Rest(s, 1) = <<>>
      BY <2>3, <3>3, NoElements
    <3>5. QED  BY <3>1, <3>4
  <2>6. QED  BY <1>3, <2>1, <2>2, <2>4, <2>5
<1>7. QED  BY <1>3, <1>5, <1>6 DEF Executed

(* What the commands hold.                                                  *)
LEMMA CommandParts ==
    /\ \A d : Select(d).name = "SELECT" /\ Select(d).db = d
    /\ \A h : Exists(h).name = "EXISTS" /\ Exists(h).key = h
    /\ \A h : Hgetall(h).name = "HGETALL" /\ Hgetall(h).key = h
    /\ \A h, e, v : /\ Hmset(h, e, v).name = "HMSET" /\ Hmset(h, e, v).key = h
                    /\ Hmset(h, e, v).entry = e
    /\ \A k : Del(k).name = "DEL" /\ Del(k).key = k
    /\ \A i, h : /\ Lpush(i, h).name = "LPUSH" /\ Lpush(i, h).key = i
                 /\ Lpush(i, h).hash = h
    /\ \A i, h : /\ Lrem(i, h).name = "LREM" /\ Lrem(i, h).key = i
                 /\ Lrem(i, h).hash = h
    /\ \A i : Lrange(i).name = "LRANGE" /\ Lrange(i).key = i
    /\ \A i : Llen(i).name = "LLEN" /\ Llen(i).key = i
    /\ Dbsize.name = "DBSIZE" /\ AllKeys.name = "KEYS"
BY DEF Select, Exists, Hgetall, Hmset, Del, Lpush, Lrem, Lrange, Llen, Dbsize, AllKeys

(* A command is executed in the database it is meant for.                   *)
AtHome(c, m) ==
    /\ m.name \in {"EXISTS", "HGETALL", "HMSET", "DBSIZE"} => sel[c] = 0
    /\ m.name \in {"LPUSH", "LREM", "LRANGE", "LLEN", "KEYS"} => sel[c] = 1
    /\ m.name = "DEL" => IF m.key \in Hashes THEN sel[c] = 0 ELSE sel[c] = 1

(* Every command finds its own database selected.                           *)
LEMMA ComesHome ==
    ASSUME Typed, NEW c \in Clients, NEW s, Executed(c, s), InDb(c), IdPlan(c)
    PROVE  AtHome(c, Now(c))
<1> DEFINE m == Now(c)
           k == Len(Answered(c))
<1>1. Turn(at[c], arg[c], k, m) /\ k \in Nat /\ (k # 0 => Answered(c) # <<>>)
  BY ExecutedTurn DEF Executed
<1>2. FitsLabel(at[c], arg[c])
  BY FitsAtOnce
<1>3. at[c] = "id_del" => m.key \in Hashes
  BY ExecutedTurn, CommandParts DEF IdPlan
<1>4. Hashes \cap Ids = {}
  BY RedisAssumption DEF RedisAssumption
<1> HIDE DEF m, k
<1>5. k = Len(Answered(c)) /\ m = Now(c)
  BY DEF k, m
<1>6. QED
  BY <1>1, <1>2, <1>3, <1>4, <1>5, CommandParts
  DEF Turn, InDb, AtHome, FitsLabel, Selects0, Selects1, OnHash, OnId, Putting

(* The database stays the one the label needs.                              *)
LEMMA InDbServed ==
    ASSUME Typed, NEW c \in Clients, NEW s, Executed(c, s), InDb(c)
    PROVE  InDb(c)'
<1> DEFINE m == Now(c)
           k == Len(Answered(c))
<1>1. Turn(at[c], arg[c], k, m) /\ k \in Nat /\ (k # 0 => Answered(c) # <<>>)
  BY ExecutedTurn DEF Executed
<1>2. at'[c] = at[c] /\ Len(Answered(c)') = k + 1
  BY DEF Executed
<1>3. sel'[c] = IF m.name = "SELECT" THEN m.db ELSE sel[c]
  BY ExecutedTurn DEF Execute, Typed, ServerTyped
<1>4. k = Len(Answered(c)) /\ m = Now(c)
  OBVIOUS
<1> HIDE DEF m, k
<1>5. at[c] \in {"put_exists", "put_hmset", "get_all", "look_all", "del_del", "id_del",
                "count_size"} => sel'[c] = 0
  BY <1>1, <1>3, CommandParts DEF Turn, InDb, Selects0, Selects1
<1>6. at[c] \in {"put_lpush", "del_lrem", "id_delkey", "countid_len", "keys_all"} => sel'[c] = 1
  BY <1>1, <1>3, CommandParts DEF Turn, InDb, Selects0, Selects1
<1>7. at[c] \in {"put_select", "get_select", "look_select", "del_select", "count_select",
                "id_select0", "id_skip"} => sel'[c] = 0
  BY <1>1, <1>3, CommandParts DEF Turn, InDb, Selects0, Selects1
<1>8. at[c] \in {"put_select1", "del_select1", "id_select1", "countid_select", "keys_select"}
        => sel'[c] = 1
  BY <1>1, <1>3, CommandParts DEF Turn, InDb, Selects0, Selects1
<1>9. at[c] = "id_select" => /\ k + 1 \in {1, 2} => sel'[c] = 1
                             /\ k + 1 = 3 => sel'[c] = 0
  <2>1. at[c] = "id_select" => \/ k = 0 /\ m = Select(1)
                               \/ k = 1 /\ m.name = "LRANGE"
                               \/ k = 2 /\ m = Select(0)
    BY <1>1, CommandParts DEF Turn, Selects0, Selects1
  <2>2. at[c] = "id_select" /\ k = 1 => sel[c] = 1
    BY <1>4 DEF InDb
  <2>3. at[c] = "id_select" => \/ k + 1 = 1 /\ sel'[c] = 1
                               \/ k + 1 = 2 /\ sel'[c] = 1
                               \/ k + 1 = 3 /\ sel'[c] = 0
    BY <1>3, <2>1, <2>2, CommandParts
  <2>4. QED  BY <2>3
<1>10. at[c] = "id_lrange" => /\ k + 1 < 2 => sel'[c] = 1
                              /\ k + 1 = 2 => sel'[c] = 0
  BY <1>1, <1>3, <1>4, CommandParts DEF Turn, InDb, Selects0, Selects1
<1>11. QED
  BY <1>2, <1>5, <1>6, <1>7, <1>8, <1>9, <1>10 DEF InDb

-----------------------------------------------------------------------------
(* What a command executed in its own database changes.                     *)
Does(m) ==
    /\ \A h \in Hashes :
         /\ ent'[0][h] = CASE m.name = "HMSET" /\ h = m.key -> m.entry
                           [] m.name = "DEL" /\ h = m.key -> None
                           [] OTHER -> ent[0][h]
         /\ ent'[1][h] = ent[1][h]
    /\ \A i \in Ids :
         /\ \A h \in Hashes :
              lst'[1][i][h] = CASE m.name = "LPUSH" /\ i = m.key /\ h = m.hash -> lst[1][i][h] + 1
                                [] m.name = "LREM" /\ i = m.key /\ h = m.hash -> 0
                                [] m.name = "DEL" /\ i = m.key -> 0
                                [] OTHER -> lst[1][i][h]
         /\ lst'[0][i] = lst[0][i]

(* A command in its own database changes what it is meant to.               *)
LEMMA DoesWhat ==
    ASSUME Typed, NEW c \in Clients, NEW m \in Command, Execute(c, m), AtHome(c, m)
    PROVE  /\ Does(m) /\ faults' = faults
           /\ m.name \notin {"HMSET", "LPUSH", "LREM", "DEL"} => UNCHANGED <<ent, lst>>
<1>1. /\ ent \in [{0, 1} -> [Hashes -> Entry \cup {None}]]
      /\ lst \in [{0, 1} -> [Ids -> Bag]]
      /\ Hashes \cap Ids = {} /\ None \notin Ids
  BY RedisAssumption DEF RedisAssumption, Typed, ServerTyped
<1>2. CASE m.name = "HMSET"
  <2>1. ent' = [ent EXCEPT ![0][m.key] = m.entry] /\ lst' = lst /\ faults' = faults
    BY <1>2 DEF Execute, AtHome
  <2>2. m.key \in Hashes
    BY <1>2, CommandFields
  <2>3. QED  BY <1>1, <1>2, <2>1, <2>2 DEF Does
<1>3. CASE m.name = "LPUSH"
  <2>1. lst' = [lst EXCEPT ![1][m.key][m.hash] = @ + 1] /\ ent' = ent /\ faults' = faults
    BY <1>3 DEF Execute, AtHome
  <2>2. m.key \in Ids /\ m.hash \in Hashes
    BY <1>3, CommandFields
  <2>3. QED  BY <1>1, <1>3, <2>1, <2>2 DEF Does, Bag
<1>4. CASE m.name = "LREM"
  <2>1. /\ lst' = IF m.key \in Ids THEN [lst EXCEPT ![1][m.key][m.hash] = 0] ELSE lst
        /\ ent' = ent /\ faults' = faults
    BY <1>4 DEF Execute, AtHome
  <2>2. m.hash \in Hashes
    BY <1>4, CommandFields
  <2>3. QED  BY <1>1, <1>4, <2>1, <2>2 DEF Does, Bag
<1>5. CASE m.name = "DEL" /\ m.key \in Hashes
  <2>1. ent' = [ent EXCEPT ![0][m.key] = None] /\ lst' = lst /\ faults' = faults
    BY <1>1, <1>5 DEF Execute, AtHome
  <2>2. QED  BY <1>1, <1>5, <2>1 DEF Does
<1>6. CASE m.name = "DEL" /\ m.key \notin Hashes
  <2>1. m.key \in Ids
    BY <1>6, CommandFields DEF Keys
  <2>2. lst' = [lst EXCEPT ![1][m.key] = NoHashes] /\ ent' = ent /\ faults' = faults
    BY <1>6, <2>1 DEF Execute, AtHome
  <2>3. NoHashes \in Bag /\ \A h \in Hashes : NoHashes[h] = 0
    BY DEF NoHashes, Bag
  <2>4. QED  BY <1>1, <1>6, <2>1, <2>2, <2>3 DEF Does, Bag
<1>7. CASE m.name \notin {"HMSET", "LPUSH", "LREM", "DEL"}
  <2>1. ent' = ent /\ lst' = lst /\ faults' = faults
    BY <1>7 DEF Execute
  <2>2. QED  BY <1>1, <1>7, <2>1 DEF Does
<1>8. QED  BY <1>2, <1>3, <1>4, <1>5, <1>6, <1>7

LEMMA SeparateServed ==
    ASSUME Typed, DatabasesSeparate, NEW m, Does(m)
    PROVE  DatabasesSeparate'
BY DEF Does, DatabasesSeparate

(* What is answered.                                                        *)
LEMMA AnswerTells ==
    ASSUME Typed, NEW c \in Clients, NEW m \in Command, AtHome(c, m), NEW a,
           m.name \in {"EXISTS", "HGETALL"} => m.key = a.hash,
           m.name \in {"LRANGE", "LLEN"} => m.key = a.id
    PROVE  Tells(Answer(c, m), a)
<1>1. CASE m.name \in {"SELECT", "HMSET"}
  BY <1>1 DEF Answer, EmptyReply, Tells
<1>2. CASE m.name = "EXISTS"
  BY <1>2 DEF Answer, EmptyReply, Tells, AtHome
<1>3. CASE m.name = "LLEN"
  BY <1>3 DEF Answer, EmptyReply, Tells, AtHome
<1>4. CASE m.name = "DBSIZE"
  BY <1>4 DEF Answer, EmptyReply, Tells, AtHome
<1>5. CASE m.name = "HGETALL"
  BY <1>5 DEF Answer, EmptyReply, Tells, AtHome
<1>6. CASE m.name = "LRANGE"
  BY <1>6 DEF Answer, EmptyReply, Tells, AtHome
<1>7. CASE m.name = "KEYS"
  BY <1>7 DEF Answer, EmptyReply, Tells, AtHome
<1>8. CASE m.name \notin {"SELECT", "HMSET", "EXISTS", "LLEN", "DBSIZE", "HGETALL", "LRANGE",
                         "KEYS"}
  BY <1>8 DEF Answer, EmptyReply, Tells
<1>9. QED  BY <1>1, <1>2, <1>3, <1>4, <1>5, <1>6, <1>7, <1>8

(* The first reply answered is to the command the method waits for.         *)
LEMMA FirstAnswered ==
    ASSUME Typed, InOrder, NEW c \in Clients, ~err[c], Answered(c) # <<>>
    PROVE  Answered(c)[1].to = Head(Awaited(at[c]))
<1> DEFINE A == Map(To, Answered(c))
           Q == Map(Name, Queue(c))
<1>1. Answered(c) \in Seq(Replies) /\ Queue(c) \in Seq(Command)
  BY QueueTypes
<1>2. \A r \in Replies : To[r] \in CommandNames
  BY ToName
<1>3. A \in Seq(CommandNames) /\ A # <<>> /\ Head(A) = To[Head(Answered(c))]
  BY <1>1, <1>2, MapType, MapTail
<1>4. Q \in Seq(CommandNames)
  BY <1>1, NameMaps
<1>5. A \o Q = Awaited(at[c])
  BY DEF InOrder, Lined, Names, Answered, Queue
<1> HIDE DEF A, Q
<1>6. Head(A \o Q) = Head(A)
  BY <1>3, <1>4, TailConcat
<1>7. Head(Answered(c)) = Answered(c)[1] /\ Head(Answered(c)) \in Replies
  BY <1>1
<1>8. QED  BY <1>3, <1>5, <1>6, <1>7, ToName

(* A reply goes on telling the truth while nothing is written, or if it has *)
(* nothing to tell.                                                         *)
Telling == {"EXISTS", "HGETALL", "LRANGE", "LLEN", "DBSIZE", "KEYS"}
LEMMA TellsOn ==
    ASSUME NEW r, NEW a, Tells(r, a), UNCHANGED <<ent, lst>> \/ r.to \notin Telling
    PROVE  Tells(r, a)'
<1>1. CASE UNCHANGED <<ent, lst>>
  <2>1. KeysOf(0)' = KeysOf(0) /\ KeysOf(1)' = KeysOf(1)
    BY <1>1 DEF KeysOf
  <2>2. QED  BY <1>1, <2>1 DEF Tells
<1>2. CASE r.to \notin Telling
  BY <1>2 DEF Tells, Telling
<1>3. QED  BY <1>1, <1>2

Writing == {"HMSET", "LPUSH", "LREM", "DEL"}

(* A reply stays true while it waits: nothing behind it writes.             *)
LEMMA TruthServed ==
    ASSUME Typed, InOrder, NEW c \in Clients, ~err[c], NEW s, Executed(c, s), InDb(c),
           IdPlan(c), Truth(c)
    PROVE  Truth(c)'
<1> DEFINE m == Now(c)
           k == Len(Answered(c))
<1>1. PICK a : a = arg[c] /\ a = arg'[c]
  BY DEF Executed
<1>2. /\ m \in Command /\ Execute(c, m) /\ Turn(at[c], arg[c], k, m)
      /\ Answered(c)' = Append(Answered(c), Answer(c, m))
  BY ExecutedTurn
<1>3. /\ k \in Nat /\ Len(Answered(c)') = k + 1
      /\ \A n \in 1 .. k : Answered(c)'[n] = Answered(c)[n]
  BY DEF Executed
<1>4. Answered(c)'[k + 1] = Answer(c, m)
  BY ExecutedTurn DEF Executed
<1>5. AtHome(c, m)
  BY ComesHome
<1>6. m.name \notin Writing => UNCHANGED <<ent, lst>>
  BY <1>2, <1>5, DoesWhat DEF Writing
<1>7. /\ m.name \in {"EXISTS", "HGETALL"} => m.key = a.hash
      /\ m.name \in {"LRANGE", "LLEN"} => m.key = a.id
      /\ m.name \in Writing => 
           \/ k = 0
           \/ k = 1 /\ at[c] \in {"del_select", "del_select1", "id_select1"}
  <2> HIDE DEF m, k
  <2>1. QED  BY <1>1, <1>2, CommandParts DEF Turn, Writing
<1>8. PICK q : q = Answer(c, m)
  OBVIOUS
<1>9. Tells(q, a)'
  <2>1. Tells(q, a)
    BY <1>2, <1>5, <1>7, <1>8, AnswerTells
  <2>2. q.to = m.name
    BY <1>2, <1>8, ReplyFields
  <2>3. m.name \notin Telling \/ m.name \notin Writing
    BY DEF Telling, Writing
  <2>4. QED  BY <1>6, <2>1, <2>2, <2>3, TellsOn
<1>10. ASSUME NEW n \in 1 .. k
       PROVE  Tells(Answered(c)[n], arg[c])'
  <2>1. PICK r : r = Answered(c)[n]
    OBVIOUS
  <2>2. Tells(r, a)
    BY <1>1, <2>1 DEF Truth
  <2>3. m.name \in Writing => r.to \notin Telling
    <3>1. SUFFICES ASSUME m.name \in Writing PROVE r.to \notin Telling
      OBVIOUS
    <3>2. n = 1 /\ at[c] \in {"del_select", "del_select1", "id_select1"}
      BY <1>3, <1>7, <3>1
    <3>3. Answered(c) # <<>>
      BY <3>2
    <3>4. r.to = Head(Awaited(at[c]))
      BY <2>1, <3>2, <3>3, FirstAnswered
    <3>5. r.to = "SELECT"
      BY <3>2, <3>4, AwaitedValues
    <3>6. QED  BY <3>5 DEF Telling
  <2>4. Tells(r, a)'
    BY <1>6, <2>2, <2>3, TellsOn
  <2>5. r = Answered(c)'[n]
    BY <1>3, <2>1
  <2>6. QED  BY <1>1, <2>4, <2>5
<1>11. ASSUME NEW n \in 1 .. Len(Answered(c)')
       PROVE  Tells(Answered(c)[n], arg[c])'
  <2>1. CASE n \in 1 .. k
    BY <1>10, <2>1
  <2>2. CASE n = k + 1
    <3>1. q = Answered(c)'[n]
      BY <1>4, <1>8, <2>2
    <3>2. QED  BY <1>1, <1>9, <3>1
  <2>3. QED  BY <1>3, <2>1, <2>2
<1>12. QED  BY <1>11 DEF Truth

(* The plans, when the server executes a command.                           *)
LEMMA PutPlanServed ==
    ASSUME Typed, NEW c \in Clients, NEW s, Executed(c, s), Does(Now(c)), PutPlan(c),
           Now(c).name \notin Writing => UNCHANGED <<ent, lst>>
    PROVE  PutPlan(c)'
<1>1. Turn(at[c], arg[c], Len(Answered(c)), Now(c))
  BY ExecutedTurn
<1>2. /\ at'[c] = at[c] /\ arg'[c] = arg[c] /\ Len(Answered(c)) \in Nat
      /\ Len(Answered(c)') = Len(Answered(c)) + 1
  BY DEF Executed
<1>3. Answered(c)' # <<>>
  BY <1>2
<1>4. at[c] \in {"put_select", "put_exists"} => Now(c).name \notin Writing
  BY <1>1, CommandParts DEF Turn, Writing, Selects0, Selects1
<1>5. CASE at[c] \in {"put_select", "put_exists"}
  BY <1>2, <1>4, <1>5 DEF PutPlan, Unwritten
<1>6. CASE at[c] \notin {"put_select", "put_exists"}
  BY <1>2, <1>3, <1>6 DEF PutPlan, Unwritten
<1>7. QED  BY <1>5, <1>6

LEMMA HashPlanServed ==
    ASSUME Typed, NEW c \in Clients, NEW s, Executed(c, s), HashPlan(c),
           Now(c).name \notin Writing => UNCHANGED <<ent, lst>>
    PROVE  HashPlan(c)'
<1>1. Turn(at[c], arg[c], Len(Answered(c)), Now(c))
  BY ExecutedTurn
<1>2. /\ at'[c] = at[c] /\ arg'[c] = arg[c] /\ Len(Answered(c)) \in Nat
      /\ Len(Answered(c)') = Len(Answered(c)) + 1
  BY DEF Executed
<1>3. Answered(c)' # <<>>
  BY <1>2
<1>4. Undeleted(c)' => at[c] = "del_select" /\ Len(Answered(c)) = 0
  BY <1>2, <1>3 DEF Undeleted
<1>5. at[c] = "del_select" /\ Len(Answered(c)) = 0 => Now(c).name \notin Writing /\ Undeleted(c)
  BY <1>1, CommandParts DEF Turn, Writing, Selects0, Selects1, Undeleted
<1>6. (at[c] \in OnEntry => arg[c].entry \in Entry)'
  BY <1>2 DEF HashPlan
<1>7. ASSUME Undeleted(c)'
      PROVE  (ent[0][arg[c].hash] # None /\ ent[0][arg[c].hash] = arg[c].entry)'
  BY <1>2, <1>4, <1>5, <1>7 DEF HashPlan
<1>8. QED  BY <1>6, <1>7 DEF HashPlan

(* The loop of DeleteEntry(id) deletes one hash of the list.                *)
LEMMA IdPlanServed ==
    ASSUME Typed, NEW c \in Clients, NEW s, Executed(c, s), Does(Now(c)), IdPlan(c),
           Now(c).name \notin Writing => UNCHANGED <<ent, lst>>
    PROVE  IdPlan(c)'
<1>1. Turn(at[c], arg[c], Len(Answered(c)), Now(c))
  BY ExecutedTurn
<1>2. at'[c] = at[c] /\ arg'[c] = arg[c] /\ todo'[c] = todo[c]
  BY DEF Executed
<1>3. FitsLabel(at[c], arg[c]) /\ Hashes \cap Ids = {}
  BY FitsAtOnce, RedisAssumption DEF RedisAssumption
<1>4. CASE at[c] = "id_select0"
  <2>1. UNCHANGED <<ent, lst>>
    BY <1>1, <1>4, CommandParts DEF Turn, Writing, Selects0, Selects1
  <2>2. QED  BY <1>2, <1>4, <2>1 DEF IdPlan, Doomed
<1>5. CASE at[c] = "id_del"
  <2>1. PICK x \in Keys : Now(c) = Del(x) /\ Queue(c) = <<Del(x)>>
    BY <1>5, ExecutedTurn
  <2>2. x \in Hashes /\ Doomed(c, x) /\ Queue(c)' = <<>>
    BY <1>5, <2>1, ExecutedTurn DEF IdPlan
  <2>3. arg[c].id \in Ids
    BY <1>3, <1>5 DEF FitsLabel, OnId
  <2>4. /\ \A h \in Hashes : ent'[0][h] = IF h = x THEN None ELSE ent[0][h]
        /\ \A h \in Hashes : lst'[1][arg[c].id][h] = lst[1][arg[c].id][h]
    BY <1>3, <2>1, <2>2, <2>3, CommandParts DEF Does
  <2>5. \A h \in Keys : Queue(c) = <<Del(h)>> => h = x
    <3>1. \A y, z : <<y>> = <<z>> => y = z
      OBVIOUS
    <3>2. \A h \in Keys : Queue(c) = <<Del(h)>> => Del(h) = Del(x)
      BY <2>1, <3>1
    <3>3. QED  BY <3>2, CommandParts
  <2>6. \A k \in Keys : Queue(c)' # <<Del(k)>>
    BY <2>2
  <2>7. (\A k \in Keys : todo[c][k] > 0 => k \in Hashes /\ Doomed(c, k))'
    BY <1>2, <1>5, <2>4 DEF IdPlan, Doomed
  <2>8. (\A h \in Hashes : Doomed(c, h) => todo[c][h] > 0 \/ ent[0][h] = None)'
    <3>1. SUFFICES ASSUME NEW h \in Hashes, Doomed(c, h)'
                   PROVE  (todo[c][h] > 0 \/ ent[0][h] = None)'
      OBVIOUS
    <3>2. Doomed(c, h)
      BY <1>2, <2>4, <3>1 DEF Doomed
    <3>3. todo[c][h] > 0 \/ ent[0][h] = None \/ Queue(c) = <<Del(h)>>
      BY <1>5, <3>2 DEF IdPlan
    <3>4. h \in Keys
      BY DEF Keys
    <3>5. QED  BY <1>2, <2>4, <2>5, <3>3, <3>4
  <2>9. QED  BY <1>2, <1>5, <2>6, <2>7, <2>8 DEF IdPlan
<1>6. CASE at[c] \in {"id_select1", "id_delkey"}
  <2>1. arg[c].id \in Ids
    BY <1>3, <1>6 DEF FitsLabel, OnId
  <2>2. Now(c).name = "SELECT" \/ Now(c) = Del(arg[c].id)
    BY <1>1, <1>6, CommandParts DEF Turn, Selects0, Selects1
  <2>3. CASE Now(c).name = "SELECT"
    <3>1. UNCHANGED <<ent, lst>>
      BY <2>3 DEF Writing
    <3>2. QED  BY <1>2, <1>6, <3>1 DEF IdPlan, Doomed
  <2>4. CASE Now(c) = Del(arg[c].id)
    <3>1. \A h \in Hashes : lst'[1][arg[c].id][h] = 0
      BY <2>1, <2>4, CommandParts DEF Does
    <3>2. QED  BY <1>2, <1>6, <3>1 DEF IdPlan, Doomed
  <2>5. QED  BY <2>2, <2>3, <2>4
<1>7. CASE at[c] \notin {"id_select0", "id_del", "id_select1", "id_delkey"}
  BY <1>2, <1>7 DEF IdPlan
<1>8. QED  BY <1>4, <1>5, <1>6, <1>7

(* One command executed.                                                    *)
LEMMA CalmServed ==
    ASSUME Typed, InOrder, DatabasesSeparate, NEW c \in Clients, Calm(c), Served(c)
    PROVE  Calm(c)' /\ DatabasesSeparate'
<1>1. PICK s : Executed(c, s)
  BY ServedExecutes DEF Calm
<1>2. Now(c) \in Command /\ Execute(c, Now(c))
  BY <1>1, ExecutedTurn
<1>3. AtHome(c, Now(c))
  BY <1>1, ComesHome DEF Calm
<1>4. Does(Now(c)) /\ (Now(c).name \notin Writing => UNCHANGED <<ent, lst>>)
  BY <1>2, <1>3, DoesWhat DEF Writing
<1>5. ~err'[c] /\ Waits(c)'
  BY <1>1, ServeWaits DEF Calm, Executed
<1>6. InDb(c)' /\ Truth(c)'
  BY <1>1, InDbServed, TruthServed DEF Calm
<1>7. PutPlan(c)' /\ HashPlan(c)' /\ IdPlan(c)'
  BY <1>1, <1>4, PutPlanServed, HashPlanServed, IdPlanServed DEF Calm
<1>8. QED  BY <1>4, <1>5, <1>6, <1>7, SeparateServed DEF Calm

-----------------------------------------------------------------------------
(* The steps of the method.                                                 *)
LEMMA TruthStays ==
    ASSUME Typed, NEW c \in Clients, Truth(c), UNCHANGED <<ent, lst>>, arg'[c] = arg[c],
           Answered(c)' = Answered(c)
    PROVE  Truth(c)'
<1>1. ASSUME NEW n \in 1 .. Len(Answered(c)')
      PROVE  Tells(Answered(c)[n], arg[c])'
  <2>1. PICK r : r = Answered(c)[n]
    OBVIOUS
  <2>2. PICK a : a = arg[c]
    OBVIOUS
  <2>3. Tells(r, a)
    BY <1>1, <2>1, <2>2 DEF Truth
  <2>4. Tells(r, a)'
    BY <2>3, TellsOn
  <2>5. QED  BY <2>1, <2>2, <2>4
<1>2. QED  BY <1>1 DEF Truth

(* What the plans speak of has not changed.                                 *)
LEMMA CalmStays ==
    ASSUME Typed, NEW c \in Clients, Calm(c), UNCHANGED <<ent, lst>>, at'[c] = at[c],
           arg'[c] = arg[c], todo'[c] = todo[c], err'[c] = err[c], sel'[c] = sel[c],
           Queue(c)' = Queue(c), Answered(c)' = Answered(c)
    PROVE  Calm(c)'
<1>1. ~err'[c] /\ Waits(c)'
  BY DEF Calm, Waits
<1>2. InDb(c)'
  BY DEF Calm, InDb
<1>3. Truth(c)'
  BY TruthStays DEF Calm
<1>4. PutPlan(c)' /\ HashPlan(c)' /\ IdPlan(c)'
  BY DEF Calm, PutPlan, Unwritten, HashPlan, Undeleted, IdPlan, Doomed
<1>5. QED  BY <1>1, <1>2, <1>3, <1>4 DEF Calm

LEMMA CalmTransferred ==
    ASSUME Typed, NEW c \in Clients, Calm(c), Transfer(c)
    PROVE  Calm(c)'
BY Transferred, CalmStays

(* Nothing is answered yet: there is nothing to tell.                       *)
LEMMA NothingTold ==
    ASSUME NEW c, Answered(c)' = <<>>
    PROVE  Truth(c)'
<1>1. Len(Answered(c)') = 0
  OBVIOUS
<1>2. QED  BY <1>1 DEF Truth

(* A label that says nothing of the database, nor of a plan.                *)
Free == {"idle", "get_select", "look_select", "id_select", "count_select", "countid_select",
         "keys_select"}
LEMMA FreeStep ==
    ASSUME NEW c, Answered(c)' = <<>>, at'[c] \in Free
    PROVE  InDb(c)' /\ Truth(c)' /\ PutPlan(c)' /\ HashPlan(c)' /\ IdPlan(c)'
<1>1. Len(Answered(c)') = 0
  OBVIOUS
<1>2. InDb(c)'
  BY <1>1 DEF InDb, Free
<1>3. PutPlan(c)' /\ HashPlan(c)' /\ IdPlan(c)'
  BY DEF Free, PutPlan, Unwritten, HashPlan, Undeleted, IdPlan, Putting, OnEntry
<1>4. QED  BY <1>2, <1>3, NothingTold

(* A method is called: its script is queued, its plan begins.               *)
LEMMA CalmCalled ==
    ASSUME Typed, Typed', InOrder, NEW c \in Clients, Calm(c), Call(c)
    PROVE  Calm(c)'
<1>1. Waits(c)' /\ ~err'[c]
  BY CallWaits DEF Calm, Call, CallPut, CallGet, CallDeleteHash, CallDeleteId, CallCount,
                   CallCountId, CallEntries, Begin
<1>2. CASE CallPut(c)
  <2>1. PICK h \in Hashes, e \in Entry, ow \in Overwrites :
          /\ lst[1][e.id][h] < MaxCopies
          /\ Begin(c, "Put", [NoArg EXCEPT !.hash = h, !.entry = e, !.overwrite = ow],
                   "put_select", <<Select(0)>>)
    BY <1>2 DEF CallPut
  <2>2. <<Select(0)>> \in Seq(Command)
    BY CommandTypes
  <2>3. /\ Answered(c)' = <<>> /\ at'[c] = "put_select"
        /\ arg'[c] = [NoArg EXCEPT !.hash = h, !.entry = e, !.overwrite = ow]
    <3> DEFINE a == [NoArg EXCEPT !.hash = h, !.entry = e, !.overwrite = ow]
    <3>1. Begin(c, "Put", a, "put_select", <<Select(0)>>)
      BY <2>1
    <3> HIDE DEF a
    <3>2. Answered(c)' = <<>> /\ at'[c] = "put_select" /\ arg'[c] = a
      BY ONLY Typed, InOrder, c \in Clients, <2>2, <3>1, Begun
    <3>3. QED  BY <3>2 DEF a
  <2>4. arg'[c].hash = h /\ arg'[c].entry = e /\ arg'[c].overwrite = ow
    BY <2>3 DEF NoArg
  <2>5. lst' = lst
    BY <2>1 DEF Begin, server
  <2>6. PutPlan(c)'
    BY <2>1, <2>3, <2>4, <2>5 DEF PutPlan
  <2>7. InDb(c)' /\ HashPlan(c)' /\ IdPlan(c)'
    BY <2>3 DEF InDb, HashPlan, Undeleted, IdPlan, OnEntry
  <2>8. QED  BY <1>1, <2>3, <2>6, <2>7, NothingTold DEF Calm
<1>3. CASE ~CallPut(c)
  <2>1. PICK op, a, to, cmds : to \in Free /\ Begin(c, op, a, to, cmds)
    <3>1. CASE CallGet(c)
      BY <3>1 DEF CallGet, Free
    <3>2. CASE CallDeleteHash(c)
      BY <3>2 DEF CallDeleteHash, Free
    <3>3. CASE CallDeleteId(c)
      BY <3>3 DEF CallDeleteId, Free
    <3>4. CASE CallCount(c)
      BY <3>4 DEF CallCount, Free
    <3>5. CASE CallCountId(c)
      BY <3>5 DEF CallCountId, Free
    <3>6. CASE CallEntries(c)
      BY <3>6 DEF CallEntries, Free
    <3>7. QED  BY <1>3, <3>1, <3>2, <3>3, <3>4, <3>5, <3>6 DEF Call
  <2>2. at'[c] = to
    BY <2>1 DEF Begin, Typed, CallTyped
  <2>3. Answered(c)' = Answered(c) /\ Answered(c) = <<>>
    <3>1. Answered(c)' = Answered(c)
      BY <2>1 DEF Begin, Answered
    <3>2. Len(Answered(c)) = 0
      <4>1. Waits(c) /\ at[c] = "idle"
        BY <2>1 DEF Begin, Calm
      <4>2. PICK s \in Scripts("idle", arg[c]) : Len(Answered(c)) <= Len(s)
        BY <4>1 DEF Waits
      <4>3. s = <<>>
        BY <4>2, ScriptValues
      <4>4. QED  BY <4>2, <4>3, QueueTypes
    <3>3. QED  BY <3>1, <3>2, QueueTypes, NoElements
  <2>4. QED  BY <1>1, <2>1, <2>2, <2>3, FreeStep DEF Calm
<1>4. QED  BY <1>2, <1>3

-----------------------------------------------------------------------------
(* The last reply of a label is received, and it tells the truth; then      *)
(* nothing is under way but what is sent next.                              *)
LEMMA Sent ==
    ASSUME Typed, Typed', InOrder, NEW c \in Clients, Calm(c), NEW here \in Lasts,
           Received(c, here), NEW to, NEW cmds, Goto(c, to, cmds),
           cmds \in Scripts(to, arg'[c])
    PROVE  /\ at[c] = here /\ at'[c] = to
           /\ Queue(c) = <<>> /\ Answered(c) # <<>> /\ Len(Answered(c)) = 1
           /\ Queue(c)' = cmds /\ Answered(c)' = <<>>
           /\ Reply(c) \in Replies /\ Reply(c).to = Head(Awaited(here))
           /\ Tells(Reply(c), arg[c]) /\ Truth(c)'
           /\ UNCHANGED <<ent, lst, sel, faults, err>>
<1>1. /\ HasReply(c) /\ at[c] = here /\ at'[c] = to /\ TakeReply(c, cmds)
      /\ UNCHANGED <<ent, lst, sel, faults, err>>
  BY GoneTo
<1>2. at'[c] \in Labels /\ arg'[c] \in Arguments /\ FitsLabel(at'[c], arg'[c])
  BY DEF Typed, CallTyped, Fits, FitsLabel
<1>3. cmds \in Seq(Command)
  BY <1>1, <1>2, ScriptTypes
<1>4. /\ Queue(c) = <<>> /\ Answered(c) = <<Reply(c)>>
      /\ Queue(c)' = cmds /\ Answered(c)' = <<>>
  BY <1>1, <1>3, LastTaken
<1>5. Len(Answered(c)) = 1 /\ Answered(c)[1] = Reply(c) /\ Answered(c) # <<>>
  BY <1>4
<1>6. Tells(Reply(c), arg[c])
  BY <1>5 DEF Calm, Truth
<1>7. Reply(c) \in Replies /\ Reply(c).to = Head(Awaited(here))
  BY <1>1, ReplyTyped, HeadIsAwaited DEF Typed
<1>8. QED  BY <1>1, <1>4, <1>5, <1>6, <1>7, NothingTold

(* A reply is received that is not the last.                                *)
LEMMA Took ==
    ASSUME Typed, InOrder, NEW c \in Clients, Calm(c), NEW here, Received(c, here), NEW to,
           Goto(c, to, <<>>), arg' = arg
    PROVE  /\ at[c] = here /\ at'[c] = to /\ arg'[c] = arg[c]
           /\ Queue(c)' = Queue(c) /\ Answered(c) # <<>> /\ Len(Answered(c)) \in Nat
           /\ Len(Answered(c)) > 0 /\ Len(Answered(c)') = Len(Answered(c)) - 1
           /\ (Answered(c)' = <<>> => Len(Answered(c)) = 1)
           /\ (Len(Answered(c)) = 1 => Answered(c)' = <<>>)
           /\ Reply(c) \in Replies /\ Reply(c).to = Head(Awaited(here))
           /\ Tells(Reply(c), arg[c]) /\ Truth(c)'
           /\ UNCHANGED <<ent, lst, sel, faults, err>>
<1>1. /\ HasReply(c) /\ at[c] = here /\ at'[c] = to /\ TakeReply(c, <<>>)
      /\ arg'[c] = arg[c] /\ UNCHANGED <<ent, lst, sel, faults, err>>
  BY GoneTo
<1>2. /\ Answered(c) # <<>> /\ Reply(c) = Head(Answered(c))
      /\ Answered(c)' = Tail(Answered(c)) /\ Queue(c)' = Queue(c)
  BY <1>1, NextTaken
<1>3. Answered(c) \in Seq(Replies) /\ Len(Answered(c)) \in Nat
  BY QueueTypes
<1> DEFINE A == Answered(c)
<1>4. /\ Len(A) > 0 /\ Head(A) = A[1] /\ Tail(A) \in Seq(Replies) /\ Len(Tail(A)) = Len(A) - 1
      /\ \A n \in 1 .. Len(A) - 1 : Tail(A)[n] = A[n + 1]
  <2> HIDE DEF A
  <2>1. A \in Seq(Replies) /\ A # <<>>
    BY <1>2, <1>3 DEF A
  <2>2. QED  BY <2>1
<1>5. Len(Tail(A)) = 0 <=> Tail(A) = <<>>
  BY <1>4, NoElements
<1>6. \A n \in 1 .. Len(A) : Tells(A[n], arg[c])
  BY DEF Calm, Truth
<1>7. Tells(Reply(c), arg[c])
  BY <1>2, <1>3, <1>4, <1>6
<1>8. ASSUME NEW n \in 1 .. Len(Answered(c)')
      PROVE  Tells(Answered(c)[n], arg[c])'
  <2>1. n \in 1 .. Len(A) - 1
    BY <1>2, <1>4
  <2>2. n + 1 \in 1 .. Len(A)
    BY <1>3, <2>1
  <2>3. PICK r : r = A[n + 1]
    OBVIOUS
  <2>4. r = Answered(c)'[n]
    BY <1>2, <1>4, <2>1, <2>3
  <2>5. PICK a : a = arg[c]
    OBVIOUS
  <2>6. Tells(r, a)
    BY <1>6, <2>2, <2>3, <2>5
  <2>7. Tells(r, a)'
    BY <1>1, <2>6, TellsOn
  <2>8. QED  BY <1>1, <2>4, <2>5, <2>7
<1>9. Truth(c)'
  BY <1>8 DEF Truth
<1>10. Reply(c) \in Replies /\ Reply(c).to = Head(Awaited(here))
  BY <1>1, ReplyTyped, HeadIsAwaited DEF Typed
<1>11. QED  BY <1>1, <1>2, <1>3, <1>4, <1>5, <1>7, <1>9, <1>10

(* A method that ends.                                                      *)
LEMMA Ended ==
    ASSUME Typed, InOrder, NEW c \in Clients, Calm(c), NEW here \in Lasts, Received(c, here),
           TakeReply(c, <<>>), Finish(c)
    PROVE  /\ at[c] = here /\ at'[c] = "idle" /\ Len(Answered(c)) = 1 /\ Answered(c)' = <<>>
           /\ Reply(c) \in Replies /\ Reply(c).to = Head(Awaited(here))
           /\ Tells(Reply(c), arg[c])
           /\ ~err'[c] /\ UNCHANGED <<ent, lst, sel, faults>>
           /\ InDb(c)' /\ Truth(c)' /\ PutPlan(c)' /\ HashPlan(c)' /\ IdPlan(c)'
<1>1. HasReply(c) /\ at[c] = here /\ UNCHANGED <<ent, lst, sel, faults>>
  BY DEF Received, server
<1>2. <<>> \in Seq(Command)
  OBVIOUS
<1>3. Answered(c) = <<Reply(c)>> /\ Answered(c)' = <<>>
  BY <1>1, <1>2, LastTaken
<1>4. Len(Answered(c)) = 1 /\ Answered(c)[1] = Reply(c)
  BY <1>3
<1>5. Tells(Reply(c), arg[c])
  BY <1>4 DEF Calm, Truth
<1>6. at'[c] = "idle"
  BY DEF Finish, Typed, CallTyped
<1>7. ~err'[c]
  BY DEF TakeReply, Calm
<1>8. Reply(c) \in Replies /\ Reply(c).to = Head(Awaited(here))
  BY <1>1, ReplyTyped, HeadIsAwaited DEF Typed
<1>9. "idle" \in Free
  BY DEF Free
<1>10. QED  BY <1>1, <1>3, <1>4, <1>5, <1>6, <1>7, <1>8, <1>9, FreeStep

(* What Put does on a reply. *)
LEMMA CalmPut ==
    ASSUME Typed, Typed', InOrder, NEW c \in Clients, Calm(c),
           PutSelected(c) \/ PutKeeps(c) \/ PutProceeds(c) \/ PutStored(c)
             \/ PutListing(c) \/ PutListed(c)
    PROVE  /\ ~err'[c] /\ InDb(c)' /\ Truth(c)' /\ PutPlan(c)' /\ HashPlan(c)' /\ IdPlan(c)'
           /\ UNCHANGED <<ent, lst, sel, faults>>
<1>1. ~err[c] /\ InDb(c) /\ PutPlan(c) /\ HashPlan(c) /\ IdPlan(c)
  BY DEF Calm
<1>2. Putting \subseteq Lasts
  BY DEF Putting, Lasts
<1>3. CASE PutKeeps(c) \/ PutListed(c)
  <2>1. PICK here \in {"put_exists", "put_lpush"} :
          Received(c, here) /\ TakeReply(c, <<>>) /\ Finish(c)
    BY <1>3 DEF PutKeeps, PutListed, Return
  <2>2. here \in Lasts
    BY <1>2 DEF Putting
  <2>3. QED  BY <2>1, <2>2, Ended
<1>4. ASSUME NEW to \in {"put_hmset", "put_exists", "put_select1", "put_lpush"},
             NEW here \in {"put_select", "put_exists", "put_hmset", "put_select1"},
             NEW cmds, arg' = arg,
             Received(c, here), Goto(c, to, cmds), cmds \in Scripts(to, arg'[c]),
             to \in {"put_exists", "put_hmset"} => here \in {"put_select", "put_exists"},
             to = "put_lpush" => here = "put_select1",
             to = "put_hmset" => arg[c].overwrite \/ ent[0][arg[c].hash] = None
      PROVE  /\ ~err'[c] /\ InDb(c)' /\ Truth(c)' /\ PutPlan(c)' /\ HashPlan(c)' /\ IdPlan(c)'
             /\ UNCHANGED <<ent, lst, sel, faults>>
  <2>1. here \in Lasts
    BY <1>2 DEF Putting
  <2>2. /\ at[c] = here /\ at'[c] = to /\ arg'[c] = arg[c]
        /\ Answered(c) # <<>> /\ Answered(c)' = <<>> /\ Truth(c)'
        /\ UNCHANGED <<ent, lst, sel, faults, err>>
    BY <1>4, <2>1, Sent
  <2>3. sel[c] = IF to \in {"put_exists", "put_hmset"} THEN 0 ELSE sel[c]
    BY <1>1, <1>4, <2>2 DEF InDb
  <2>4. to = "put_lpush" => sel[c] = 1
    BY <1>1, <1>4, <2>2 DEF InDb
  <2>5. InDb(c)'
    BY <2>2, <2>3, <2>4 DEF InDb
  <2>6. PutPlan(c)'
    BY <1>1, <1>4, <2>2 DEF PutPlan, Unwritten, Putting
  <2>7. HashPlan(c)' /\ IdPlan(c)'
    BY <2>2 DEF HashPlan, Undeleted, IdPlan, OnEntry
  <2>8. QED  BY <1>1, <2>2, <2>5, <2>6, <2>7
<1>5. CASE PutSelected(c)
  <2>1. Received(c, "put_select") /\ arg' = arg
    BY <1>5 DEF PutSelected
  <2>2. CASE arg[c].overwrite
    <3>1. Goto(c, "put_hmset", <<Hmset(arg[c].hash, arg[c].entry, arg[c].overwrite)>>)
      BY <1>5, <2>2 DEF PutSelected, StoreFrame
    <3>2. <<Hmset(arg[c].hash, arg[c].entry, arg[c].overwrite)>> \in Scripts("put_hmset", arg'[c])
      BY <2>1, ScriptValues
    <3>3. QED  BY <1>4, <2>1, <2>2, <3>1, <3>2
  <2>3. CASE ~arg[c].overwrite
    <3>1. Goto(c, "put_exists", <<Exists(arg[c].hash)>>)
      BY <1>5, <2>3 DEF PutSelected
    <3>2. <<Exists(arg[c].hash)>> \in Scripts("put_exists", arg'[c])
      BY <2>1, ScriptValues
    <3>3. QED  BY <1>4, <2>1, <3>1, <3>2
  <2>4. QED  BY <2>2, <2>3
<1>6. CASE PutProceeds(c)
  <2>1. /\ Received(c, "put_exists") /\ arg' = arg /\ ~SaysExists(Reply(c))
        /\ Goto(c, "put_hmset", <<Hmset(arg[c].hash, arg[c].entry, arg[c].overwrite)>>)
    BY <1>6 DEF PutProceeds, StoreFrame
  <2>2. <<Hmset(arg[c].hash, arg[c].entry, arg[c].overwrite)>> \in Scripts("put_hmset", arg'[c])
    BY <2>1, ScriptValues
  <2>3. Reply(c).to = "EXISTS" /\ Tells(Reply(c), arg[c])
    <3>1. Head(Awaited("put_exists")) = "EXISTS"
      BY AwaitedValues
    <3>2. "put_exists" \in Lasts
      BY DEF Lasts
    <3>3. QED  BY <2>1, <2>2, <3>1, <3>2, Sent
  <2>4. ent[0][arg[c].hash] = None
    BY <2>1, <2>3 DEF Tells, SaysExists
  <2>5. QED  BY <1>4, <2>1, <2>2, <2>4
<1>7. CASE PutStored(c)
  <2>1. Received(c, "put_hmset") /\ arg' = arg /\ Goto(c, "put_select1", <<Select(1)>>)
    BY <1>7 DEF PutStored
  <2>2. <<Select(1)>> \in Scripts("put_select1", arg'[c])
    BY ScriptValues
  <2>3. QED  BY <1>4, <2>1, <2>2
<1>8. CASE PutListing(c)
  <2>1. Received(c, "put_select1") /\ arg' = arg
        /\ Goto(c, "put_lpush", <<Lpush(arg[c].entry.id, arg[c].hash)>>)
    BY <1>8 DEF PutListing
  <2>2. <<Lpush(arg[c].entry.id, arg[c].hash)>> \in Scripts("put_lpush", arg'[c])
    BY <2>1, ScriptValues
  <2>3. QED  BY <1>4, <2>1, <2>2
<1>9. QED  BY <1>3, <1>5, <1>6, <1>7, <1>8

(* A label that the plans say nothing of, after a reply received.           *)
Planless == {"get_all", "look_all", "count_size", "countid_len", "keys_all", "del_select1",
             "del_lrem", "id_lrange", "id_skip"}
LEMMA NoPlan ==
    ASSUME NEW c, at'[c] \in Planless
    PROVE  /\ PutPlan(c)'
           /\ (at'[c] \notin OnEntry => HashPlan(c)')
           /\ IdPlan(c)'
BY DEF Planless, PutPlan, Unwritten, HashPlan, Undeleted, IdPlan, Putting, OnEntry

(* The queries. *)
LEMMA CalmLook ==
    ASSUME Typed, Typed', InOrder, NEW c \in Clients, Calm(c),
           Selected(c) \/ GetDone(c) \/ FoundUnparsable(c) \/ QuerySelected(c)
             \/ CountDone(c) \/ CountIdDone(c) \/ EntriesDone(c)
    PROVE  /\ ~err'[c] /\ InDb(c)' /\ Truth(c)' /\ PutPlan(c)' /\ HashPlan(c)' /\ IdPlan(c)'
           /\ UNCHANGED <<ent, lst, sel, faults>>
<1>1. ~err[c] /\ InDb(c)
  BY DEF Calm
<1>2. CASE GetDone(c) \/ FoundUnparsable(c) \/ CountDone(c) \/ CountIdDone(c) \/ EntriesDone(c)
  <2>1. PICK here \in {"get_all", "look_all", "count_size", "countid_len", "keys_all"} :
          Received(c, here) /\ TakeReply(c, <<>>) /\ Finish(c)
    BY <1>2 DEF GetDone, FoundUnparsable, CountDone, CountIdDone, EntriesDone, Return,
                ReturnValue
  <2>2. here \in Lasts
    BY DEF Lasts
  <2>3. QED  BY <2>1, <2>2, Ended
<1>3. CASE Selected(c)
  <2>1. PICK here \in {"get_select", "look_select"}, to \in {"get_all", "look_all"} :
          Received(c, here) /\ Goto(c, to, <<Hgetall(arg[c].hash)>>)
    BY <1>3 DEF Selected
  <2>2. arg' = arg /\ here \in Lasts /\ <<Hgetall(arg[c].hash)>> \in Scripts(to, arg'[c])
    BY <1>3, ScriptValues DEF Selected, Lasts
  <2>3. /\ at[c] = here /\ at'[c] = to /\ Answered(c) # <<>> /\ Answered(c)' = <<>> /\ Truth(c)'
        /\ UNCHANGED <<ent, lst, sel, faults, err>>
    BY <2>1, <2>2, Sent
  <2>4. sel'[c] = 0
    BY <1>1, <2>3 DEF InDb
  <2>5. InDb(c)'
    BY <2>3, <2>4 DEF InDb
  <2>6. QED  BY <1>1, <2>3, <2>5, NoPlan DEF Planless, OnEntry
<1>4. CASE QuerySelected(c)
  <2>1. PICK here, to :
          /\ Received(c, here) /\ Goto(c, to, <<>>)
          /\ \/ here = "count_select" /\ to = "count_size"
             \/ here = "countid_select" /\ to = "countid_len"
             \/ here = "keys_select" /\ to = "keys_all"
    BY <1>4 DEF QuerySelected
  <2>2. arg' = arg
    BY <1>4 DEF QuerySelected
  <2>3. /\ at[c] = here /\ at'[c] = to /\ Answered(c) # <<>> /\ Truth(c)'
        /\ UNCHANGED <<ent, lst, sel, faults, err>>
    BY <2>1, <2>2, Took
  <2>4. sel'[c] = IF to = "count_size" THEN 0 ELSE 1
    BY <1>1, <2>1, <2>3 DEF InDb
  <2>5. InDb(c)'
    BY <2>1, <2>3, <2>4 DEF InDb
  <2>6. to \in Planless /\ to \notin OnEntry
    BY <2>1 DEF Planless, OnEntry
  <2>7. QED  BY <1>1, <2>3, <2>5, <2>6, NoPlan
<1>5. QED  BY <1>2, <1>3, <1>4

(* The reply to HGETALL for a hash that is free has no elements.            *)
LEMMA NoStrings ==
    ASSUME NEW m, m.list = NoHashes, m.keys = {}, m.fields = None
    PROVE  Strings(m) = Nothing
<1>1. \A k \in Keys : Strings(m)[k] = 0
  BY DEF Strings, NoHashes
<1>2. QED  BY <1>1 DEF Nothing, Strings

(* What a lookup makes of a reply that tells the truth is the entry stored. *)
LEMMA Found ==
    ASSUME Typed, NEW m \in Replies, NEW a, a.hash \in Hashes, m.to = "HGETALL", Tells(m, a)
    PROVE  FoundEntry(m) = ent[0][a.hash]
<1>1. m.type = "array" /\ m.fields = ent[0][a.hash] /\ m.list = NoHashes /\ m.keys = {}
  BY DEF Tells
<1>2. ent[0][a.hash] \in Entry \cup {None}
  BY DEF Typed, ServerTyped
<1>3. CASE m.fields = None
  <2>1. Strings(m) = Nothing
    BY <1>1, <1>3, NoStrings
  <2>2. QED  BY <1>1, <1>3, <2>1 DEF FoundEntry
<1>4. CASE m.fields # None
  <2>1. m.fields \in Entry /\ m.fields.id \in Keys
    BY <1>1, <1>2, <1>4 DEF Entry, Keys
  <2>2. m.fields.id \notin Hashes
    BY <1>1, <1>2, <1>4, RedisAssumption DEF RedisAssumption, Entry
  <2>3. Strings(m)[m.fields.id] = 1
    BY <1>1, <1>4, <2>1, <2>2, SMTT(20) DEF Strings, NoHashes
  <2>4. Nothing[m.fields.id] = 0
    BY <2>1 DEF Nothing
  <2>5. Strings(m) # Nothing
    BY <2>3, <2>4
  <2>6. QED  BY <1>1, <1>4, <2>5 DEF FoundEntry
<1>5. QED  BY <1>3, <1>4

(* The array a lookup receives is HGETALL's own: its length is even.        *)
LEMMA NeverPastEnd ==
    ASSUME Typed, InOrder, NEW c \in Clients, Calm(c)
    PROVE  ~ReadPastEnd(c)
<1> SUFFICES ASSUME ReadPastEnd(c) PROVE FALSE
  OBVIOUS
<1>1. PICK here \in {"get_all", "look_all"} : Received(c, here)
  BY DEF ReadPastEnd
<1>2. HasReply(c) /\ at[c] = here /\ here \in Lasts /\ Head(Awaited(here)) = "HGETALL"
  <2>1. Head(<<"HGETALL">>) = "HGETALL"
    OBVIOUS
  <2>2. QED  BY <1>1, <2>1, AwaitedValues DEF Received, Lasts
<1>3. Reply(c).to = "HGETALL"
  BY <1>2, HeadIsAwaited
<1>4. Tells(Reply(c), arg[c])
  <2>1. sock[c] = <<>> /\ Len(rdr[c]) = 1 /\ rdr[c] \in Seq(Replies)
    BY <1>2, NothingElse, BuffersOf
  <2>2. Answered(c) = rdr[c]
    BY <2>1, ConcatEmptySeq DEF Answered
  <2>3. 1 \in 1 .. Len(Answered(c)) /\ Answered(c)[1] = Reply(c)
    <3>1. \A r \in Seq(Replies) : Len(r) = 1 => 1 \in 1 .. Len(r) /\ r[1] = Head(r)
      OBVIOUS
    <3>2. QED  BY <2>1, <2>2, <3>1 DEF Reply
  <2>4. QED  BY <2>3 DEF Calm, Truth
<1>5. HasOddLength(Reply(c))
  BY DEF ReadPastEnd
<1>6. QED  BY <1>3, <1>4, <1>5, NoStrings DEF Tells, HasOddLength

(* DeleteEntry(hash). *)
LEMMA CalmDeleteHash ==
    ASSUME Typed, Typed', InOrder, NEW c \in Clients, Calm(c),
           DeleteAbsent(c) \/ DeleteFound(c) \/ DeleteSelected(c) \/ DeleteErased(c)
             \/ DeleteUnlisting(c) \/ DeleteUnlisted(c)
    PROVE  /\ ~err'[c] /\ InDb(c)' /\ Truth(c)' /\ PutPlan(c)' /\ HashPlan(c)' /\ IdPlan(c)'
           /\ UNCHANGED <<ent, lst, sel, faults>>
<1>1. ~err[c] /\ InDb(c) /\ HashPlan(c)
  BY DEF Calm
<1>2. CASE DeleteAbsent(c) \/ DeleteUnlisted(c)
  <2>1. PICK here \in {"look_all", "del_lrem"} :
          Received(c, here) /\ TakeReply(c, <<>>) /\ Finish(c)
    BY <1>2 DEF DeleteAbsent, DeleteUnlisted, Return
  <2>2. here \in Lasts
    BY DEF Lasts
  <2>3. QED  BY <2>1, <2>2, Ended
<1>3. CASE DeleteFound(c)
  <2>1. /\ Received(c, "look_all") /\ Goto(c, "del_select", <<Select(0), Del(arg[c].hash)>>)
        /\ FoundEntry(Reply(c)) # None
        /\ arg'[c].hash = arg[c].hash /\ arg'[c].entry = FoundEntry(Reply(c))
    BY <1>3 DEF DeleteFound, Typed, CallTyped, Arguments
  <2>2. <<Select(0), Del(arg[c].hash)>> \in Scripts("del_select", arg'[c])
    BY <2>1, ScriptValues
  <2>3. "look_all" \in Lasts /\ Head(Awaited("look_all")) = "HGETALL"
    BY AwaitedValues DEF Lasts
  <2>4. /\ at[c] = "look_all" /\ at'[c] = "del_select" /\ Answered(c)' = <<>> /\ Truth(c)'
        /\ Reply(c) \in Replies /\ Reply(c).to = "HGETALL" /\ Tells(Reply(c), arg[c])
        /\ UNCHANGED <<ent, lst, sel, faults, err>>
    BY <2>1, <2>2, <2>3, Sent
  <2>5. arg[c].hash \in Hashes
    BY <2>4, FitsAtOnce DEF FitsLabel, OnHash
  <2>6. PICK a : a = arg[c]
    OBVIOUS
  <2>7. FoundEntry(Reply(c)) = ent[0][arg[c].hash]
    BY <2>4, <2>5, <2>6, Found
  <2>8. ent[0][arg[c].hash] \in Entry
    BY <2>1, <2>5, <2>7 DEF Typed, ServerTyped
  <2>9. InDb(c)'
    BY <2>4 DEF InDb
  <2>10. HashPlan(c)'
    <3>1. /\ ent'[0][arg'[c].hash] = arg'[c].entry /\ arg'[c].entry \in Entry
          /\ arg'[c].entry # None
      BY <2>1, <2>4, <2>7, <2>8
    <3>2. QED  BY <3>1 DEF HashPlan
  <2>11. PutPlan(c)' /\ IdPlan(c)'
    BY <2>4 DEF PutPlan, Unwritten, IdPlan, Putting
  <2>12. QED  BY <1>1, <2>4, <2>9, <2>10, <2>11
<1>4. CASE DeleteSelected(c)
  <2>1. Received(c, "del_select") /\ Goto(c, "del_del", <<>>) /\ arg' = arg
    BY <1>4 DEF DeleteSelected
  <2>2. /\ at[c] = "del_select" /\ at'[c] = "del_del" /\ arg'[c] = arg[c]
        /\ Answered(c) # <<>> /\ Truth(c)'
        /\ (Answered(c)' = <<>> => Len(Answered(c)) = 1)
        /\ UNCHANGED <<ent, lst, sel, faults, err>>
    BY <2>1, Took
  <2>3. InDb(c)'
    BY <1>1, <2>2 DEF InDb
  <2>4. HashPlan(c)'
    <3>1. Undeleted(c)' => Undeleted(c)
      <4>1. Undeleted(c)' => Answered(c)' = <<>>
        BY <2>2 DEF Undeleted
      <4>2. 1 < 2
        OBVIOUS
      <4>3. Undeleted(c)' => Len(Answered(c)) < 2
        BY <2>2, <4>1, <4>2, Zenon
      <4>4. QED  BY <2>2, <4>3 DEF Undeleted
    <3>2. arg[c].entry \in Entry
      BY <1>1, <2>2 DEF HashPlan, OnEntry
    <3>3. Undeleted(c) => ent[0][arg[c].hash] # None /\ ent[0][arg[c].hash] = arg[c].entry
      BY <1>1 DEF HashPlan
    <3>4. ASSUME Undeleted(c)'
          PROVE  (ent[0][arg[c].hash] # None /\ ent[0][arg[c].hash] = arg[c].entry)'
      BY <2>2, <3>1, <3>3, <3>4
    <3>5. (arg[c].entry \in Entry)'
      BY <2>2, <3>2
    <3>6. QED  BY <3>4, <3>5 DEF HashPlan
  <2>5. PutPlan(c)' /\ IdPlan(c)'
    BY <2>2 DEF PutPlan, Unwritten, IdPlan, Putting
  <2>6. QED  BY <1>1, <2>2, <2>3, <2>4, <2>5
<1>5. CASE DeleteErased(c)
  <2>1. Received(c, "del_del") /\ arg' = arg
        /\ Goto(c, "del_select1", <<Select(1), Lrem(arg[c].entry.id, arg[c].hash)>>)
    BY <1>5 DEF DeleteErased
  <2>2. <<Select(1), Lrem(arg[c].entry.id, arg[c].hash)>> \in Scripts("del_select1", arg'[c])
        /\ arg'[c] = arg[c] /\ "del_del" \in Lasts
    BY <2>1, ScriptValues DEF Lasts
  <2>3. /\ at[c] = "del_del" /\ at'[c] = "del_select1" /\ Answered(c)' = <<>> /\ Truth(c)'
        /\ UNCHANGED <<ent, lst, sel, faults, err>>
    BY <2>1, <2>2, Sent
  <2>4. InDb(c)'
    BY <2>3 DEF InDb
  <2>5. HashPlan(c)'
    BY <1>1, <2>2, <2>3 DEF HashPlan, Undeleted, OnEntry
  <2>6. QED  BY <1>1, <2>3, <2>4, <2>5, NoPlan DEF Planless
<1>6. CASE DeleteUnlisting(c)
  <2>1. Received(c, "del_select1") /\ Goto(c, "del_lrem", <<>>) /\ arg' = arg
    BY <1>6 DEF DeleteUnlisting
  <2>2. /\ at[c] = "del_select1" /\ at'[c] = "del_lrem" /\ arg'[c] = arg[c]
        /\ Answered(c) # <<>> /\ Truth(c)' /\ UNCHANGED <<ent, lst, sel, faults, err>>
    BY <2>1, Took
  <2>3. InDb(c)'
    BY <1>1, <2>2 DEF InDb
  <2>4. HashPlan(c)'
    BY <1>1, <2>2 DEF HashPlan, Undeleted, OnEntry
  <2>5. QED  BY <1>1, <2>2, <2>3, <2>4, NoPlan DEF Planless
<1>7. QED  BY <1>2, <1>3, <1>4, <1>5, <1>6

(* The elements of the list, as the loop of DeleteEntry(id) reads them.     *)
LEMMA Elements ==
    ASSUME Typed, NEW m \in Replies, NEW a, a.id \in Ids, m.to = "LRANGE", Tells(m, a)
    PROVE  /\ m.type = "array"
           /\ \A k \in Keys : Strings(m)[k] = IF k \in Hashes THEN lst[1][a.id][k] ELSE 0
<1>1. m.type = "array" /\ m.fields = None /\ m.list = lst[1][a.id] /\ m.keys = {}
  BY DEF Tells
<1>2. lst[1][a.id] \in Bag
  BY DEF Typed, ServerTyped
<1>3. QED  BY <1>1, <1>2 DEF Strings, Bag

(* DeleteEntry(id). *)
LEMMA CalmIdTaken ==
    ASSUME Typed, Typed', InOrder, NEW c \in Clients, Calm(c),
           IdSelected(c) \/ IdRanged(c) \/ IdSelected1(c)
    PROVE  /\ ~err'[c] /\ InDb(c)' /\ Truth(c)' /\ PutPlan(c)' /\ HashPlan(c)' /\ IdPlan(c)'
           /\ UNCHANGED <<ent, lst, sel, faults>>
<1>1. ~err[c] /\ InDb(c) /\ IdPlan(c) /\ Waits(c)
  BY DEF Calm
<1>2. CASE IdSelected(c)
  <2>1. Received(c, "id_select") /\ Goto(c, "id_lrange", <<>>) /\ arg' = arg
    BY <1>2 DEF IdSelected
  <2>2. /\ at[c] = "id_select" /\ at'[c] = "id_lrange"
        /\ Answered(c) # <<>> /\ Truth(c)' /\ UNCHANGED <<ent, lst, sel, faults, err>>
        /\ Len(Answered(c)) \in Nat /\ Len(Answered(c)) > 0
        /\ Len(Answered(c)') = Len(Answered(c)) - 1
    BY <2>1, Took
  <2>3. PICK n \in Nat : n = Len(Answered(c))
    BY <2>2
  <2>4. n > 0 /\ Len(Answered(c)') = n - 1
    BY <2>2, <2>3
  <2>5. (n \in {1, 2} => sel[c] = 1) /\ (n = 3 => sel[c] = 0)
    BY <1>1, <2>2, <2>3 DEF InDb
  <2>6. Len(Answered(c)') < 2 => sel'[c] = 1
    <3>1. n - 1 < 2 => n \in {1, 2}
      BY <2>4
    <3>2. QED  BY <2>2, <2>4, <2>5, <3>1
  <2>7. Len(Answered(c)') = 2 => sel'[c] = 0
    <3>1. n - 1 = 2 => n = 3
      OBVIOUS
    <3>2. QED  BY <2>2, <2>4, <2>5, <3>1
  <2>8. InDb(c)'
    BY <2>2, <2>6, <2>7 DEF InDb
  <2>9. QED  BY <1>1, <2>2, <2>8, NoPlan DEF Planless, OnEntry
<1>3. CASE IdRanged(c)
  <2>1. PICK to \in {"id_select0", "id_skip"} :
          /\ Received(c, "id_lrange") /\ Goto(c, to, <<>>) /\ arg' = arg
          /\ to = "id_select0" => todo' = [todo EXCEPT ![c] = Strings(Reply(c))]
    BY <1>3 DEF IdRanged
  <2>2. /\ at[c] = "id_lrange" /\ at'[c] = to /\ arg'[c] = arg[c]
        /\ Truth(c)' /\ UNCHANGED <<ent, lst, sel, faults, err>>
        /\ Len(Answered(c)) \in Nat /\ Len(Answered(c)) > 0
        /\ (Len(Answered(c)) = 1 => Answered(c)' = <<>>)
        /\ Reply(c) \in Replies /\ Reply(c).to = Head(Awaited("id_lrange"))
        /\ Tells(Reply(c), arg[c])
    BY <2>1, Took
  <2>3. Len(Answered(c)) \in {1, 2}
    <3>1. PICK s \in Scripts("id_lrange", arg[c]) : Len(Answered(c)) <= Len(s)
      BY <1>1, <2>2 DEF Waits
    <3>2. s = <<Lrange(arg[c].id), Select(0)>>
      BY <3>1, ScriptValues
    <3>3. Len(s) = 2
      BY <3>2
    <3>4. PICK n \in Nat : n = Len(Answered(c))
      BY <2>2
    <3>5. n > 0 /\ n <= 2
      BY <2>2, <3>1, <3>3, <3>4
    <3>6. n \in {1, 2}
      BY <3>5
    <3>7. QED  BY <3>4, <3>6
  <2>4. Answered(c)' # <<>> => sel'[c] = 0
    BY <1>1, <2>2, <2>3 DEF InDb
  <2>5. InDb(c)'
    BY <2>2, <2>4 DEF InDb
  <2>6. PutPlan(c)' /\ HashPlan(c)'
    BY <2>2 DEF PutPlan, Unwritten, HashPlan, Undeleted, Putting, OnEntry
  <2>7. IdPlan(c)'
    <3>1. CASE to = "id_skip"
      BY <2>2, <3>1, NoPlan DEF Planless
    <3>2. CASE to = "id_select0"
      <4>1. Reply(c).to = "LRANGE"
        <5>1. \A x, y : Head(<<x, y>>) = x
          OBVIOUS
        <5>2. QED  BY <2>2, <5>1, AwaitedValues
      <4>2. arg[c].id \in Ids
        BY <2>2, FitsAtOnce DEF FitsLabel, OnId
      <4>3. PICK a : a = arg[c]
        OBVIOUS
      <4>4. \A k \in Keys : Strings(Reply(c))[k] = IF k \in Hashes THEN lst[1][a.id][k] ELSE 0
        BY <2>2, <4>1, <4>2, <4>3, Elements
      <4>5. todo'[c] = Strings(Reply(c))
        BY <2>1, <3>2 DEF Typed, CallTyped
      <4>6. arg'[c] = a /\ lst' = lst
        BY <2>2, <4>3
      <4>7. (\A k \in Keys : todo[c][k] > 0 => k \in Hashes /\ Doomed(c, k))'
        BY <4>4, <4>5, <4>6 DEF Doomed
      <4>8. (\A h \in Hashes : Doomed(c, h) => todo[c][h] > 0)'
        BY <4>4, <4>5, <4>6 DEF Doomed, Keys
      <4>9. QED  BY <2>2, <3>2, <4>7, <4>8 DEF IdPlan
    <3>3. QED  BY <3>1, <3>2
  <2>8. QED  BY <1>1, <2>2, <2>5, <2>6, <2>7
<1>4. CASE IdSelected1(c)
  <2>1. Received(c, "id_select1") /\ Goto(c, "id_delkey", <<>>) /\ arg' = arg
    BY <1>4 DEF IdSelected1
  <2>2. /\ at[c] = "id_select1" /\ at'[c] = "id_delkey" /\ arg'[c] = arg[c]
        /\ Answered(c) # <<>> /\ Truth(c)' /\ UNCHANGED <<ent, lst, sel, faults, err>>
    BY <2>1, Took
  <2>3. InDb(c)'
    BY <1>1, <2>2 DEF InDb
  <2>4. IdPlan(c)'
    BY <1>1, <2>2 DEF IdPlan, Doomed
  <2>5. PutPlan(c)' /\ HashPlan(c)'
    BY <2>2 DEF PutPlan, Unwritten, HashPlan, Undeleted, Putting, OnEntry
  <2>6. QED  BY <1>1, <2>2, <2>3, <2>4, <2>5
<1>5. QED  BY <1>2, <1>3, <1>4

(* The loop of DeleteEntry(id) and its end.                                 *)
LEMMA CalmIdSent ==
    ASSUME Typed, Typed', InOrder, NEW c \in Clients, Calm(c),
           IdSkipped(c) \/ IdDeleteNext(c) \/ IdEmptied(c) \/ IdDeleted(c)
    PROVE  /\ ~err'[c] /\ InDb(c)' /\ Truth(c)' /\ PutPlan(c)' /\ HashPlan(c)' /\ IdPlan(c)'
           /\ UNCHANGED <<ent, lst, sel, faults>>
<1>1. ~err[c] /\ InDb(c) /\ IdPlan(c)
  BY DEF Calm
<1>2. CASE IdSkipped(c) \/ IdDeleted(c)
  <2>1. PICK here \in {"id_skip", "id_delkey"} :
          Received(c, here) /\ TakeReply(c, <<>>) /\ Finish(c)
    BY <1>2 DEF IdSkipped, IdDeleted, Return
  <2>2. here \in Lasts
    BY DEF Lasts
  <2>3. QED  BY <2>1, <2>2, Ended
<1>3. CASE IdDeleteNext(c)
  <2>1. PICK here \in {"id_select0", "id_del"} : Received(c, here)
    BY <1>3 DEF IdDeleteNext, Deleting
  <2>2. PICK k \in Keys : /\ todo[c][k] > 0 /\ todo' = [todo EXCEPT ![c][k] = @ - 1]
                          /\ Goto(c, "id_del", <<Del(k)>>)
    BY <1>3 DEF IdDeleteNext
  <2>3. arg' = arg /\ here \in Lasts /\ <<Del(k)>> \in Scripts("id_del", arg'[c])
    BY <1>3, ScriptValues DEF IdDeleteNext, Lasts
  <2>4. /\ at[c] = here /\ at'[c] = "id_del" /\ arg'[c] = arg[c]
        /\ Queue(c) = <<>> /\ Answered(c) # <<>>
        /\ Queue(c)' = <<Del(k)>> /\ Answered(c)' = <<>> /\ Truth(c)'
        /\ UNCHANGED <<ent, lst, sel, faults, err>>
    BY <2>1, <2>2, <2>3, Sent
  <2>5. sel'[c] = 0
    BY <1>1, <2>4 DEF InDb
  <2>6. InDb(c)'
    BY <2>4, <2>5 DEF InDb
  <2>7. PutPlan(c)' /\ HashPlan(c)'
    BY <2>4 DEF PutPlan, Unwritten, HashPlan, Undeleted, Putting, OnEntry
  <2>8. /\ \A j \in Keys : todo'[c][j] = IF j = k THEN todo[c][j] - 1 ELSE todo[c][j]
        /\ \A j \in Keys : todo[c][j] \in Nat
    BY <2>2 DEF Typed, CallTyped
  <2>9. /\ \A j \in Keys : todo[c][j] > 0 => j \in Hashes /\ Doomed(c, j)
        /\ \A h \in Hashes : Doomed(c, h) => todo[c][h] > 0 \/ ent[0][h] = None
    <3>1. \A x : <<>> # <<x>>
      OBVIOUS
    <3>2. \A h \in Hashes : Queue(c) # <<Del(h)>>
      BY <2>4, <3>1
    <3>3. QED  BY <1>1, <2>4, <3>2 DEF IdPlan
  <2>10. \A j : Doomed(c, j)' <=> Doomed(c, j)
    BY <2>4 DEF Doomed
  <2>11. (\A j \in Keys : todo[c][j] > 0 => j \in Hashes /\ Doomed(c, j))'
    BY <2>8, <2>9, <2>10
  <2>12. ASSUME NEW h \in Hashes, Doomed(c, h)'
         PROVE  (todo[c][h] > 0 \/ ent[0][h] = None \/ (at[c] = "id_del" /\ Queue(c) = <<Del(h)>>))'
    <3>1. h \in Keys
      BY DEF Keys
    <3>2. CASE h = k
      BY <2>4, <3>2
    <3>3. CASE h # k
      BY <2>4, <2>8, <2>9, <2>10, <2>12, <3>1, <3>3
    <3>4. QED  BY <3>2, <3>3
  <2>13. ASSUME NEW j \in Keys, Queue(c)' = <<Del(j)>>
         PROVE  j \in Hashes /\ Doomed(c, j)'
    <3>1. \A x, y : <<x>> = <<y>> => x = y
      OBVIOUS
    <3>2. Del(j) = Del(k)
      BY <2>4, <2>13, <3>1
    <3>3. j = k
      BY <3>2, CommandParts
    <3>4. QED  BY <2>2, <2>9, <2>10, <3>3
  <2>14. IdPlan(c)'
    BY <2>4, <2>11, <2>12, <2>13 DEF IdPlan
  <2>15. QED  BY <1>1, <2>4, <2>6, <2>7, <2>14
<1>4. CASE IdEmptied(c)
  <2>1. PICK here \in {"id_select0", "id_del"} :
          Received(c, here) /\ Goto(c, "id_select1", <<Select(1), Del(arg[c].id)>>)
    BY <1>4 DEF IdEmptied, Deleting
  <2>2. /\ arg' = arg /\ todo[c] = Nothing /\ here \in Lasts
        /\ <<Select(1), Del(arg[c].id)>> \in Scripts("id_select1", arg'[c])
    BY <1>4, ScriptValues DEF IdEmptied, Lasts
  <2>3. /\ at[c] = here /\ at'[c] = "id_select1" /\ arg'[c] = arg[c]
        /\ Queue(c) = <<>> /\ Answered(c)' = <<>> /\ Truth(c)'
        /\ UNCHANGED <<ent, lst, sel, faults, err>>
    BY <2>1, <2>2, Sent
  <2>4. InDb(c)'
    BY <2>3 DEF InDb
  <2>5. PutPlan(c)' /\ HashPlan(c)'
    BY <2>3 DEF PutPlan, Unwritten, HashPlan, Undeleted, Putting, OnEntry
  <2>6. \A h \in Hashes : Doomed(c, h) => ent[0][h] = None
    <3>1. \A x : <<>> # <<x>>
      OBVIOUS
    <3>2. \A h \in Hashes : Queue(c) # <<Del(h)>>
      BY <2>3, <3>1
    <3>3. \A h \in Hashes : ~(todo[c][h] > 0)
      BY <2>2 DEF Nothing, Keys
    <3>4. QED  BY <1>1, <2>3, <3>2, <3>3 DEF IdPlan
  <2>7. (\A h \in Hashes : Doomed(c, h) => ent[0][h] = None)'
    BY <2>3, <2>6 DEF Doomed
  <2>8. IdPlan(c)'
    BY <2>3, <2>7 DEF IdPlan
  <2>9. QED  BY <1>1, <2>3, <2>4, <2>5, <2>8
<1>5. QED  BY <1>2, <1>3, <1>4

(* A method that goes on stays calm: no reply is an error, so none throws.  *)
LEMMA CalmContinues ==
    ASSUME Typed, Typed', InOrder, NEW c \in Clients, Calm(c), Continue(c)
    PROVE  Calm(c)' /\ InOrder' /\ UNCHANGED <<ent, lst, sel, faults>> /\ ~Throw(c)
<1>1. ~Throw(c)
  <2>1. SUFFICES ASSUME Throw(c) PROVE FALSE
    OBVIOUS
  <2>2. HasReply(c) /\ Reply(c).type = "error" /\ TakeReply(c, <<>>)
    BY <2>1 DEF Throw
  <2>3. Answered(c) # <<>> /\ Reply(c) = Head(Answered(c)) /\ Answered(c) \in Seq(Replies)
    BY <2>2, NextTaken, QueueTypes
  <2>4. 1 \in 1 .. Len(Answered(c)) /\ Reply(c) = Answered(c)[1]
    BY <2>3
  <2>5. Tells(Reply(c), arg[c])
    BY <2>4 DEF Calm, Truth
  <2>6. QED  BY <2>2, <2>5 DEF Tells
<1>2. Waits(c)'
  BY <1>1, ContinueWaits DEF Calm
<1>3. /\ ~err'[c] /\ InDb(c)' /\ Truth(c)' /\ PutPlan(c)' /\ HashPlan(c)' /\ IdPlan(c)'
      /\ UNCHANGED <<ent, lst, sel, faults>>
  BY <1>1, CalmPut, CalmLook, CalmDeleteHash, CalmIdTaken, CalmIdSent DEF Continue
<1>4. InOrder'
  BY <1>1, PutInOrder, LookInOrder, DeleteHashInOrder, DeleteIdInOrder DEF Continue
<1>5. QED  BY <1>1, <1>2, <1>3, <1>4 DEF Calm

-----------------------------------------------------------------------------
(* One client: it is the one the abstract index speaks of.                  *)
OneClient == \E c : Clients = {c}

LEMMA IsMe == OneClient => Me \in Clients /\ Clients = {Me}
BY DEF OneClient, Me

(* A step that is no fault: what the client has disturbed so far.           *)
CalmStep == \/ Call(Me) \/ Continue(Me) \/ Transfer(Me) \/ Served(Me)

(* Without a fault no command is refused and no connection lost.            *)
LEMMA NoFault ==
    ASSUME Typed, OneClient, Undisturbed, Next, faults' = 0
    PROVE  CalmStep /\ faults = 0
<1>1. faults \in Nat
  BY RedisAssumption DEF RedisAssumption, Typed, ServerTyped
<1>2. \/ Call(Me) \/ Continue(Me) \/ Transfer(Me) \/ Served(Me) \/ Refused(Me)
      \/ LoseConnection(Me) \/ ReadPastEnd(Me)
  BY IsMe DEF Next
<1>3. faults' # faults + 1
  BY <1>1
<1>4. ~Refused(Me) /\ ~LoseConnection(Me)
  BY <1>3 DEF Refused, Refuse, LoseConnection, Lose, Fault
<1>5. faults' = faults
  <2>1. CASE Call(Me)
    <3>1. PICK op, a, to, cmds : Begin(Me, op, a, to, cmds)
      BY <2>1 DEF Call, CallPut, CallGet, CallDeleteHash, CallDeleteId, CallCount, CallCountId,
                  CallEntries
    <3>2. QED  BY <3>1 DEF Begin, server
  <2>2. CASE Continue(Me)
    BY <2>2, IsMe, ContinueChanges DEF server
  <2>3. CASE Transfer(Me) \/ ReadPastEnd(Me)
    BY <2>3, IsMe, Transferred DEF ReadPastEnd, Received, server
  <2>4. CASE Served(Me)
    BY <2>4 DEF Served, Perform, Execute
  <2>5. QED  BY <1>2, <1>4, <2>1, <2>2, <2>3, <2>4
<1>6. ~ReadPastEnd(Me)
  BY <1>5, IsMe, NeverPastEnd DEF Undisturbed
<1>7. QED  BY <1>2, <1>4, <1>5, <1>6 DEF CalmStep

(* Until the first fault the client stays calm.                             *)
LEMMA UndisturbedStep ==
    ASSUME Typed, Typed', OneClient, Undisturbed, [Next]_vars
    PROVE  Undisturbed'
<1> SUFFICES ASSUME faults' = 0
             PROVE  InOrder' /\ DatabasesSeparate' /\ Calm(Me)'
  BY DEF Undisturbed
<1>1. PICK c \in Clients : c = Me
  BY IsMe
<1>2. CASE Next
  <2>1. CalmStep /\ InOrder /\ DatabasesSeparate /\ Calm(c)
    BY <1>1, <1>2, NoFault DEF Undisturbed
  <2>2. CASE Call(c)
    <3>1. Calm(c)' /\ InOrder'
      BY <2>1, <2>2, CalmCalled, CallInOrder
    <3>2. PICK op, a, to, cmds : Begin(c, op, a, to, cmds)
      BY <2>2 DEF Call, CallPut, CallGet, CallDeleteHash, CallDeleteId, CallCount, CallCountId,
                  CallEntries
    <3>3. UNCHANGED <<ent, lst>>
      BY <3>2 DEF Begin, server
    <3>4. QED  BY <1>1, <2>1, <3>1, <3>3 DEF DatabasesSeparate
  <2>3. CASE Continue(c)
    <3>1. Calm(c)' /\ InOrder' /\ UNCHANGED <<ent, lst>>
      BY <2>1, <2>3, CalmContinues
    <3>2. QED  BY <1>1, <2>1, <3>1 DEF DatabasesSeparate
  <2>4. CASE Transfer(c)
    <3>1. Calm(c)' /\ InOrder' /\ UNCHANGED <<ent, lst>>
      BY <2>1, <2>4, CalmTransferred, TransferInOrder, Transferred
    <3>2. QED  BY <1>1, <2>1, <3>1 DEF DatabasesSeparate
  <2>5. CASE Served(c)
    BY <1>1, <2>1, <2>5, CalmServed, ServedInOrder
  <2>6. QED  BY <1>1, <2>1, <2>2, <2>3, <2>4, <2>5 DEF CalmStep
<1>3. CASE UNCHANGED vars
  <2>1. /\ UNCHANGED <<ent, lst, sel, faults, at, arg, todo, err, wire, obuf, rdr, sock>>
    BY <1>3 DEF vars
  <2>2. InOrder /\ DatabasesSeparate /\ Calm(c)
    BY <1>1, <2>1 DEF Undisturbed
  <2>3. Queue(c)' = Queue(c) /\ Answered(c)' = Answered(c)
    BY <2>1 DEF Queue, Answered
  <2>4. Calm(c)'
    BY <2>1, <2>2, <2>3, CalmStays
  <2>5. InOrder' /\ DatabasesSeparate'
    BY <2>1, <2>2 DEF InOrder, Lined, DatabasesSeparate
  <2>6. QED  BY <1>1, <2>4, <2>5
<1>4. QED  BY <1>2, <1>3

LEMMA InitUndisturbed == Init /\ OneClient => Undisturbed
<1> SUFFICES ASSUME Init, OneClient PROVE Undisturbed
  OBVIOUS
<1>1. PICK c \in Clients : c = Me
  BY IsMe
<1>2. Typed /\ InOrder /\ DatabasesSeparate /\ Waits(c) /\ ~err[c]
  BY <1>1, InitTyped, InitInOrder, InitSeparate, InitCommanded DEF Commanded, Init, ContextInit
<1>3. <<>> \o <<>> = <<>>
  OBVIOUS
<1>4. Answered(c) = <<>> /\ at[c] = "idle"
  BY <1>3 DEF Answered, Init, ContextInit
<1>5. Len(Answered(c)) = 0
  BY <1>4
<1>6. Truth(c)
  BY <1>5 DEF Truth
<1>7. InDb(c) /\ PutPlan(c) /\ HashPlan(c) /\ IdPlan(c)
  BY <1>4 DEF InDb, PutPlan, Unwritten, HashPlan, Undeleted, IdPlan, Putting, OnEntry
<1>8. QED  BY <1>1, <1>2, <1>6, <1>7 DEF Undisturbed, Calm

-----------------------------------------------------------------------------
(* What is half done, by the label and the number of replies answered.      *)
PutHalf(l, n) == \/ l = "put_hmset" /\ n = 1
                 \/ l = "put_select1"
                 \/ l = "put_lpush" /\ n = 0
HashHalf(l, n) == \/ l = "del_select" /\ n = 2
                  \/ l = "del_del" /\ n = 1
                  \/ l = "del_select1" /\ n < 2
                  \/ l = "del_lrem" /\ n = 0
IdHalf(l, n) == \/ l = "id_select" /\ n >= 2
                \/ l = "id_lrange" /\ n >= 1
                \/ l \in {"id_select0", "id_del"}
                \/ l = "id_select1" /\ n < 2
                \/ l = "id_delkey" /\ n = 0
Half(l, n) == PutHalf(l, n) \/ HashHalf(l, n) \/ IdHalf(l, n)

(* The abstract entries and lists, element by element.                      *)
EntryOf(l, n, a, e, b, h) == IF IdHalf(l, n) /\ b[a.id][h] > 0 THEN None ELSE e[h]
CopiesOf(l, n, a, b, i, h) ==
    CASE PutHalf(l, n) /\ i = a.entry.id /\ h = a.hash -> b[i][h] + 1
      [] HashHalf(l, n) /\ i = a.entry.id /\ h = a.hash -> 0
      [] IdHalf(l, n) /\ i = a.id -> 0
      [] OTHER -> b[i][h]

LEMMA AnsweredLength ==
    ASSUME NEW r \in Seq(Replies), NEW s \in Seq(Replies)
    PROVE  Len(r \o s) = Len(r) + Len(s)
BY ConcatProperties

(* The refinement mapping, element by element.                              *)
LEMMA ImageIs ==
    ASSUME Typed, NEW c \in Clients, c = Me
    PROVE  /\ IndexEntries = [h \in Hashes |->
                 EntryOf(at[c], Len(Answered(c)), arg[c], ent[0], lst[1], h)]
           /\ IndexListed = [i \in Ids |-> [h \in Hashes |->
                 CopiesOf(at[c], Len(Answered(c)), arg[c], lst[1], i, h)]]
<1>1. Answers = Len(Answered(c))
  BY AnsweredLength, BuffersOf DEF Answers, Answered
<1>2. /\ PutHalfDone <=> PutHalf(at[c], Len(Answered(c)))
      /\ HashHalfDeleted <=> HashHalf(at[c], Len(Answered(c)))
      /\ IdHalfDeleted <=> IdHalf(at[c], Len(Answered(c)))
  BY <1>1 DEF PutHalfDone, PutHalf, HashHalfDeleted, HashHalf, IdHalfDeleted, IdHalf
<1>3. QED  BY <1>2 DEF IndexEntries, IndexListed, EntryOf, CopiesOf

LEMMA ImageIsNext ==
    ASSUME Typed', NEW c \in Clients, c = Me
    PROVE  /\ IndexEntries' = [h \in Hashes |->
                 EntryOf(at'[c], Len(Answered(c)'), arg'[c], ent'[0], lst'[1], h)]
           /\ IndexListed' = [i \in Ids |-> [h \in Hashes |->
                 CopiesOf(at'[c], Len(Answered(c)'), arg'[c], lst'[1], i, h)]]
<1>1. rdr'[c] \in Seq(Replies) /\ sock'[c] \in Seq(Replies)
  BY DEF Typed, ChannelTyped
<1>2. Answers' = Len(Answered(c)')
  BY <1>1, AnsweredLength DEF Answers, Answered
<1>3. /\ PutHalfDone' <=> PutHalf(at'[c], Len(Answered(c)'))
      /\ HashHalfDeleted' <=> HashHalf(at'[c], Len(Answered(c)'))
      /\ IdHalfDeleted' <=> IdHalf(at'[c], Len(Answered(c)'))
  BY <1>2 DEF PutHalfDone, PutHalf, HashHalfDeleted, HashHalf, IdHalfDeleted, IdHalf
<1>4. QED  BY <1>3 DEF IndexEntries, IndexListed, EntryOf, CopiesOf

(* Nothing is done of the index when the element by element image stays.    *)
LEMMA SameImage ==
    ASSUME Typed, Typed', NEW c \in Clients, c = Me, out'[c] = out[c],
           \A h \in Hashes : EntryOf(at'[c], Len(Answered(c)'), arg'[c], ent'[0], lst'[1], h)
                               = EntryOf(at[c], Len(Answered(c)), arg[c], ent[0], lst[1], h),
           \A i \in Ids, h \in Hashes :
               CopiesOf(at'[c], Len(Answered(c)'), arg'[c], lst'[1], i, h)
                 = CopiesOf(at[c], Len(Answered(c)), arg[c], lst[1], i, h)
    PROVE  IndexEntries' = IndexEntries /\ IndexListed' = IndexListed /\ UNCHANGED Index!vars
<1>1. IndexEntries' = IndexEntries
  BY ImageIs, ImageIsNext
<1>2. IndexListed' = IndexListed
  BY ImageIs, ImageIsNext
<1>3. QED  BY <1>1, <1>2 DEF Index!vars

(* The same is half done, with the same arguments.                          *)
SameHalf(c) ==
    LET l == at[c]
        n == Len(Answered(c))
        k == at'[c]
        m == Len(Answered(c)')
    IN /\ PutHalf(k, m) <=> PutHalf(l, n)
       /\ HashHalf(k, m) <=> HashHalf(l, n)
       /\ IdHalf(k, m) <=> IdHalf(l, n)
       /\ Half(l, n) => arg'[c] = arg[c]

(* The index is the same when the same is half done, nothing written.       *)
LEMMA HalfSame ==
    ASSUME Typed, Typed', NEW c \in Clients, c = Me, SameHalf(c), UNCHANGED <<ent, lst>>
    PROVE  /\ IndexEntries' = IndexEntries /\ IndexListed' = IndexListed
           /\ out'[c] = out[c] => UNCHANGED Index!vars
<1>1. PICK l, k, n, m, a, b : /\ l = at[c] /\ k = at'[c]
                              /\ n = Len(Answered(c)) /\ m = Len(Answered(c)')
                              /\ a = arg[c] /\ b = arg'[c]
  OBVIOUS
<1>2. /\ PutHalf(k, m) <=> PutHalf(l, n)
      /\ HashHalf(k, m) <=> HashHalf(l, n)
      /\ IdHalf(k, m) <=> IdHalf(l, n)
      /\ Half(l, n) => a = b
  BY <1>1 DEF SameHalf
<1>3. \A h \in Hashes : EntryOf(k, m, b, ent[0], lst[1], h) = EntryOf(l, n, a, ent[0], lst[1], h)
  BY <1>2 DEF EntryOf, Half
<1>4. \A i \in Ids, h \in Hashes : CopiesOf(k, m, b, lst[1], i, h) = CopiesOf(l, n, a, lst[1], i, h)
  BY <1>2 DEF CopiesOf, Half
<1>5. IndexEntries' = IndexEntries
  BY <1>1, <1>3, ImageIs, ImageIsNext
<1>6. IndexListed' = IndexListed
  BY <1>1, <1>4, ImageIs, ImageIsNext
<1>7. QED  BY <1>5, <1>6 DEF Index!vars

(* Nothing is half done where no method runs.                               *)
LEMMA HalfCalled ==
    ASSUME Typed, Typed', InOrder, NEW c \in Clients, Calm(c), Call(c)
    PROVE  SameHalf(c) /\ UNCHANGED <<ent, lst, out>>
<1>1. PICK op, a, to, cmds :
        /\ Begin(c, op, a, to, cmds)
        /\ to \in {"put_select", "get_select", "look_select", "id_select", "count_select",
                   "countid_select", "keys_select"}
  <2>1. CASE CallPut(c)
    BY <2>1 DEF CallPut
  <2>2. CASE CallGet(c)
    BY <2>2 DEF CallGet
  <2>3. CASE CallDeleteHash(c)
    BY <2>3 DEF CallDeleteHash
  <2>4. CASE CallDeleteId(c)
    BY <2>4 DEF CallDeleteId
  <2>5. CASE CallCount(c)
    BY <2>5 DEF CallCount
  <2>6. CASE CallCountId(c)
    BY <2>6 DEF CallCountId
  <2>7. CASE CallEntries(c)
    BY <2>7 DEF CallEntries
  <2>8. QED  BY <2>1, <2>2, <2>3, <2>4, <2>5, <2>6, <2>7 DEF Call
<1>2. at[c] = "idle" /\ at'[c] = to /\ UNCHANGED <<ent, lst, out, rdr, sock>>
  BY <1>1 DEF Begin, server, Typed, CallTyped
<1>3. Len(Answered(c)) = 0 /\ Len(Answered(c)') = Len(Answered(c))
  <2>1. Waits(c) /\ at[c] = "idle"
    BY <1>2 DEF Calm
  <2>2. PICK s \in Scripts("idle", arg[c]) : Len(Answered(c)) <= Len(s)
    BY <2>1 DEF Waits
  <2>3. Len(s) = 0
    BY <2>2, ScriptValues
  <2>4. Answered(c)' = Answered(c)
    BY <1>2 DEF Answered
  <2>5. Len(Answered(c)) \in Nat /\ Len(Answered(c)) <= 0
    BY <2>2, <2>3, QueueTypes
  <2>6. QED  BY <2>4, <2>5
<1>4. QED  BY <1>1, <1>2, <1>3 DEF SameHalf, PutHalf, HashHalf, IdHalf, Half

(* A reply received: one less is answered.                                  *)
LEMMA OneLess ==
    ASSUME Typed, InOrder, NEW c \in Clients, Continue(c)
    PROVE  /\ Len(Answered(c)) \in Nat /\ Len(Answered(c)) > 0
           /\ Len(Answered(c)') = Len(Answered(c)) - 1
           /\ at[c] \in Lasts => Len(Answered(c)) = 1
<1>1. PICK cmds : HasReply(c) /\ TakeReply(c, cmds)
  BY ContinueChanges
<1>2. rdr[c] \in Seq(Replies) /\ sock[c] \in Seq(Replies) /\ rdr[c] # <<>>
  BY <1>1, BuffersOf DEF HasReply
<1>3. rdr'[c] = Tail(rdr[c]) /\ sock' = sock
  BY <1>1 DEF TakeReply, Typed, ChannelTyped
<1>4. /\ Len(rdr[c]) \in Nat /\ Len(rdr[c]) > 0 /\ Tail(rdr[c]) \in Seq(Replies)
      /\ Len(Tail(rdr[c])) = Len(rdr[c]) - 1 /\ Len(sock[c]) \in Nat
  <2>1. ASSUME NEW r \in Seq(Replies), r # <<>>
        PROVE  Len(r) \in Nat /\ Len(r) > 0 /\ Tail(r) \in Seq(Replies) /\ Len(Tail(r)) = Len(r) - 1
    BY <2>1
  <2>2. QED  BY <1>2, <2>1, LenProperties
<1>5. /\ Len(Answered(c)) = Len(rdr[c]) + Len(sock[c])
      /\ Len(Answered(c)') = Len(Tail(rdr[c])) + Len(sock[c])
  BY <1>2, <1>3, <1>4, AnsweredLength DEF Answered
<1>6. at[c] \in Lasts => Len(rdr[c]) = 1 /\ Len(sock[c]) = 0
  BY <1>1, NothingElse
<1>7. PICK x \in Nat, y \in Nat :
        /\ x = Len(rdr[c]) /\ y = Len(sock[c]) /\ x > 0
        /\ Len(Answered(c)) = x + y /\ Len(Answered(c)') = (x - 1) + y
        /\ at[c] \in Lasts => x = 1 /\ y = 0
  BY <1>4, <1>5, <1>6
<1>8. x + y \in Nat /\ x + y > 0 /\ (x - 1) + y = (x + y) - 1
  <2>1. ASSUME NEW u \in Nat, NEW v \in Nat, u > 0
        PROVE  u + v \in Nat /\ u + v > 0 /\ (u - 1) + v = (u + v) - 1
    BY <2>1
  <2>2. QED  BY <1>7, <2>1
<1>9. at[c] \in Lasts => x + y = 1
  <2>1. 1 + 0 = 1
    OBVIOUS
  <2>2. QED  BY <1>7, <2>1, Zenon
<1>10. QED  BY <1>7, <1>8, <1>9

(* Where a method goes from a label.                                        *)
LastMoves ==
    {<<"put_select", "put_hmset">>, <<"put_select", "put_exists">>,
     <<"put_exists", "put_hmset">>, <<"put_exists", "idle">>,
     <<"put_hmset", "put_select1">>, <<"put_select1", "put_lpush">>,
     <<"put_lpush", "idle">>, <<"get_select", "get_all">>, <<"look_select", "look_all">>,
     <<"get_all", "idle">>, <<"look_all", "idle">>, <<"look_all", "del_select">>,
     <<"del_del", "del_select1">>, <<"del_lrem", "idle">>,
     <<"id_select0", "id_del">>, <<"id_del", "id_del">>,
     <<"id_select0", "id_select1">>, <<"id_del", "id_select1">>,
     <<"id_skip", "idle">>, <<"id_delkey", "idle">>,
     <<"count_size", "idle">>, <<"countid_len", "idle">>, <<"keys_all", "idle">>}
PipelineMoves ==
    {<<"del_select", "del_del">>, <<"del_select1", "del_lrem">>,
     <<"id_select", "id_lrange">>, <<"id_lrange", "id_select0">>,
     <<"id_select1", "id_delkey">>, <<"count_select", "count_size">>,
     <<"countid_select", "countid_len">>, <<"keys_select", "keys_all">>}

LEMMA LastMoveKeeps ==
    ASSUME NEW l, NEW k, <<l, k>> \in LastMoves
    PROVE  /\ l \in Lasts
           /\ PutHalf(l, 1) <=> PutHalf(k, 0)
           /\ HashHalf(l, 1) <=> HashHalf(k, 0)
           /\ IdHalf(l, 1) <=> IdHalf(k, 0)
           /\ k \in {"idle", "del_select"} => ~Half(l, 1)
BY DEF LastMoves, Lasts, PutHalf, HashHalf, IdHalf, Half

LEMMA PipelineMoveKeeps ==
    ASSUME NEW l, NEW k, <<l, k>> \in PipelineMoves, NEW n \in Nat, n > 0
    PROVE  /\ PutHalf(l, n) <=> PutHalf(k, n - 1)
           /\ HashHalf(l, n) <=> HashHalf(k, n - 1)
           /\ IdHalf(l, n) <=> IdHalf(k, n - 1)
           /\ k \notin {"idle", "del_select"}
BY DEF PipelineMoves, PutHalf, HashHalf, IdHalf

(* LRANGE is answered with an array.                                        *)
LEMMA AlwaysRanged ==
    ASSUME Typed, InOrder, NEW c \in Clients, Calm(c), IdRanged(c)
    PROVE  at'[c] = "id_select0"
<1>1. Received(c, "id_lrange") /\ arg' = arg
  BY DEF IdRanged
<1>2. \E to : Goto(c, to, <<>>)
  BY DEF IdRanged
<1>3. Reply(c) \in Replies /\ Reply(c).to = Head(Awaited("id_lrange")) /\ Tells(Reply(c), arg[c])
  BY <1>1, <1>2, Took
<1>4. Reply(c).to = "LRANGE"
  <2>1. \A x, y : Head(<<x, y>>) = x
    OBVIOUS
  <2>2. QED  BY <1>3, <2>1, AwaitedValues
<1>5. Goto(c, "id_select0", <<>>)
  BY <1>3, <1>4 DEF Tells, IdRanged
<1>6. QED  BY <1>5 DEF Goto, Typed, CallTyped

(* A method goes from label to label by these moves only.                   *)
LEMMA ContinueGoes ==
    ASSUME Typed, InOrder, NEW c \in Clients, Calm(c), Continue(c), ~Throw(c)
    PROVE  /\ <<at[c], at'[c]>> \in LastMoves \cup PipelineMoves
           /\ arg'[c] = arg[c] \/ at'[c] \in {"idle", "del_select"}
<1>1. CASE \/ PutSelected(c) \/ PutKeeps(c) \/ PutProceeds(c) \/ PutStored(c)
           \/ PutListing(c) \/ PutListed(c)
  BY <1>1 DEF Typed, CallTyped, PutSelected, PutKeeps, PutProceeds, PutStored, PutListing,
              PutListed, StoreFrame, Received, Goto, Return, Finish, LastMoves
<1>2. CASE Selected(c)
  <2>1. \/ /\ Received(c, "get_select") /\ arg' = arg
           /\ Goto(c, "get_all", <<Hgetall(arg[c].hash)>>)
        \/ /\ Received(c, "look_select") /\ arg' = arg
           /\ Goto(c, "look_all", <<Hgetall(arg[c].hash)>>)
    BY <1>2 DEF Selected
  <2>2. QED  BY <2>1 DEF Typed, CallTyped, Received, Goto, LastMoves
<1>3. CASE QuerySelected(c)
  <2>1. /\ \/ Received(c, "count_select") /\ Goto(c, "count_size", <<>>)
           \/ Received(c, "countid_select") /\ Goto(c, "countid_len", <<>>)
           \/ Received(c, "keys_select") /\ Goto(c, "keys_all", <<>>)
        /\ arg' = arg
    BY <1>3 DEF QuerySelected
  <2>2. QED  BY <2>1 DEF Typed, CallTyped, Received, Goto, PipelineMoves
<1>4. CASE GetDone(c) \/ FoundUnparsable(c) \/ CountDone(c) \/ CountIdDone(c) \/ EntriesDone(c)
  BY <1>4 DEF Typed, CallTyped, GetDone, FoundUnparsable, CountDone, CountIdDone, EntriesDone,
              Received, Return, ReturnValue, Finish, LastMoves
<1>5. CASE \/ DeleteAbsent(c) \/ DeleteFound(c) \/ DeleteSelected(c) \/ DeleteErased(c)
           \/ DeleteUnlisting(c) \/ DeleteUnlisted(c)
  BY <1>5 DEF Typed, CallTyped, DeleteAbsent, DeleteFound, DeleteSelected, DeleteErased,
              DeleteUnlisting, DeleteUnlisted, Received, Goto, Return, Finish, LastMoves,
              PipelineMoves
<1>6. CASE IdRanged(c)
  <2>1. at[c] = "id_lrange" /\ arg' = arg
    BY <1>6 DEF IdRanged, Received
  <2>2. QED  BY <1>6, <2>1, AlwaysRanged DEF PipelineMoves
<1>7. CASE IdSelected(c) \/ IdSkipped(c) \/ IdSelected1(c) \/ IdDeleted(c)
  BY <1>7 DEF Typed, CallTyped, IdSelected, IdSkipped, IdSelected1, IdDeleted,
              Received, Goto, Return, Finish, LastMoves,
              PipelineMoves
<1>8. CASE IdDeleteNext(c) \/ IdEmptied(c)
  <2>1. /\ at[c] \in {"id_select0", "id_del"} /\ arg' = arg
        /\ \E to \in {"id_del", "id_select1"} : at' = [at EXCEPT ![c] = to]
    BY <1>8 DEF IdDeleteNext, IdEmptied, Deleting, Received, Goto
  <2>2. QED  BY <2>1 DEF Typed, CallTyped, LastMoves
<1>9. QED  BY <1>1, <1>2, <1>3, <1>4, <1>5, <1>6, <1>7, <1>8 DEF Continue

(* What is half done stays so when a method goes on.                        *)
LEMMA HalfContinues ==
    ASSUME Typed, InOrder, NEW c \in Clients, Calm(c), Continue(c), ~Throw(c)
    PROVE  SameHalf(c)
<1>1. /\ <<at[c], at'[c]>> \in LastMoves \cup PipelineMoves
      /\ arg'[c] = arg[c] \/ at'[c] \in {"idle", "del_select"}
  BY ContinueGoes
<1>2. PICK n, m, l, k : /\ n = Len(Answered(c)) /\ m = Len(Answered(c)')
                        /\ l = at[c] /\ k = at'[c]
  OBVIOUS
<1>3. n \in Nat /\ n > 0 /\ m = n - 1 /\ (l \in Lasts => n = 1)
  BY <1>2, OneLess
<1>4. CASE <<l, k>> \in LastMoves
  <2>1. n = 1 /\ m = 0
    BY <1>3, <1>4, LastMoveKeeps
  <2>2. QED  BY <1>1, <1>2, <1>4, <2>1, LastMoveKeeps DEF SameHalf
<1>5. CASE <<l, k>> \in PipelineMoves
  BY <1>1, <1>2, <1>3, <1>5, PipelineMoveKeeps DEF SameHalf
<1>6. QED  BY <1>1, <1>2, <1>4, <1>5

(* Where nothing is half done the index is what the server stores.          *)
LEMMA WholeImage ==
    ASSUME Typed, NEW c \in Clients, c = Me, ~Half(at[c], Len(Answered(c)))
    PROVE  /\ IndexEntries \in [Hashes -> Entry \cup {None}] /\ DOMAIN IndexListed = Ids
           /\ \A h \in Hashes : IndexEntries[h] = ent[0][h]
           /\ \A i \in Ids : IndexListed[i] = lst[1][i]
<1>1. PICK l, n, a : l = at[c] /\ n = Len(Answered(c)) /\ a = arg[c]
  OBVIOUS
<1>2. ~Half(l, n)
  BY <1>1
<1>3. IndexEntries = [h \in Hashes |-> ent[0][h]]
  <2>1. \A h \in Hashes : EntryOf(l, n, a, ent[0], lst[1], h) = ent[0][h]
    BY <1>2 DEF EntryOf, Half
  <2>2. IndexEntries = [h \in Hashes |-> EntryOf(l, n, a, ent[0], lst[1], h)]
    BY <1>1, ImageIs
  <2>3. QED  BY <2>1, <2>2
<1>4. ASSUME NEW i \in Ids
      PROVE  IndexListed[i] = lst[1][i]
  <2>1. \A h \in Hashes : CopiesOf(l, n, a, lst[1], i, h) = lst[1][i][h]
    BY <1>2 DEF CopiesOf, Half
  <2>2. IndexListed = [j \in Ids |-> [h \in Hashes |-> CopiesOf(l, n, a, lst[1], j, h)]]
    BY <1>1, ImageIs
  <2>3. IndexListed[i] = [h \in Hashes |-> CopiesOf(l, n, a, lst[1], i, h)]
    BY <2>2
  <2>4. lst[1][i] \in [Hashes -> Nat]
    BY DEF Typed, ServerTyped, Bag
  <2>5. lst[1][i] = [h \in Hashes |-> lst[1][i][h]]
    BY <2>4
  <2>6. QED  BY <2>1, <2>3, <2>5
<1>5. DOMAIN IndexListed = Ids
  BY DEF IndexListed
<1>6. QED  BY <1>3, <1>4, <1>5 DEF Typed, ServerTyped

(* The keys of the databases are the hashes with an entry and the ids with  *)
(* a list.                                                                  *)
LEMMA KeysAre ==
    ASSUME Typed, DatabasesSeparate
    PROVE  /\ KeysOf(0) = {h \in Hashes : ent[0][h] # None}
           /\ KeysOf(1) = {i \in Ids : lst[1][i] # NoHashes}
BY DEF KeysOf, DatabasesSeparate

(* A query answers by what the index holds.                                 *)
LEMMA Responds ==
    ASSUME Typed, Typed', InOrder, DOMAIN out = Clients, NEW c \in Clients, c = Me, Calm(c),
           Continue(c), UNCHANGED <<ent, lst>>, NEW here \in Lasts, Received(c, here), NEW v,
           ReturnValue(c, v)
    PROVE  Index!Respond(v)
<1>1. ~Throw(c)
  BY DEF Throw, Received
<1>2. SameHalf(c)
  BY <1>1, HalfContinues
<1>3. IndexEntries' = IndexEntries /\ IndexListed' = IndexListed
  BY <1>2, HalfSame
<1>4. out'[c] = v
  BY DEF ReturnValue
<1>5. QED  BY <1>3, <1>4 DEF Index!Respond

(* The index and the store count alike.                                     *)
LEMMA CountAlike ==
    ASSUME NEW S
    PROVE  Index!Cardinality(S) = Cardinality(S) /\ Index!SumFunction(S) = SumFunction(S)
<1>1. Index!Cardinality(S) = Cardinality(S)
  BY DEF Index!Cardinality, Cardinality
<1>2. Index!SumFunction(S) = SumFunction(S)
  BY DEF Index!SumFunction, Index!SumFunctionOnSet, Index!FoldFunctionOnSet,
         Index!MapThenFoldSet, SumFunction, SumFunctionOnSet, FoldFunctionOnSet, MapThenFoldSet
<1>3. QED  BY <1>1, <1>2

(* What GetHashValue, GetCount and GetEntries return is the index's.        *)
LEMMA QueryAnswers ==
    ASSUME Typed, Typed', InOrder, DatabasesSeparate, DOMAIN out = Clients,
           NEW c \in Clients, c = Me, Calm(c),
           GetDone(c) \/ CountDone(c) \/ CountIdDone(c) \/ EntriesDone(c)
    PROVE  Index!Next
<1>1. PICK here \in {"get_all", "count_size", "countid_len", "keys_all"} :
        Received(c, here) /\ TakeReply(c, <<>>) /\ Finish(c)
        /\ (GetDone(c) => here = "get_all") /\ (CountDone(c) => here = "count_size")
        /\ (CountIdDone(c) => here = "countid_len") /\ (EntriesDone(c) => here = "keys_all")
  <2>1. /\ ~(GetDone(c) /\ CountDone(c)) /\ ~(GetDone(c) /\ CountIdDone(c))
        /\ ~(GetDone(c) /\ EntriesDone(c)) /\ ~(CountDone(c) /\ CountIdDone(c))
        /\ ~(CountDone(c) /\ EntriesDone(c)) /\ ~(CountIdDone(c) /\ EntriesDone(c))
    BY DEF GetDone, CountDone, CountIdDone, EntriesDone, Received
  <2>2. CASE GetDone(c)
    BY <2>1, <2>2 DEF GetDone, ReturnValue
  <2>3. CASE CountDone(c)
    BY <2>1, <2>3 DEF CountDone, ReturnValue
  <2>4. CASE CountIdDone(c)
    BY <2>1, <2>4 DEF CountIdDone, ReturnValue
  <2>5. CASE EntriesDone(c)
    BY <2>1, <2>5 DEF EntriesDone, ReturnValue
  <2>6. QED  BY <2>2, <2>3, <2>4, <2>5
<1>2. here \in Lasts /\ Continue(c)
  BY DEF Lasts, Continue
<1>3. /\ at[c] = here /\ Reply(c) \in Replies /\ Reply(c).to = Head(Awaited(here))
      /\ Tells(Reply(c), arg[c]) /\ UNCHANGED <<ent, lst>>
  BY <1>1, <1>2, Ended
<1>4. /\ IndexEntries \in [Hashes -> Entry \cup {None}] /\ DOMAIN IndexListed = Ids
      /\ \A h \in Hashes : IndexEntries[h] = ent[0][h]
      /\ \A i \in Ids : IndexListed[i] = lst[1][i]
  <2>1. ~Half(at[c], Len(Answered(c)))
    BY <1>1, <1>3 DEF Half, PutHalf, HashHalf, IdHalf
  <2>2. QED  BY <2>1, WholeImage
<1>5. FitsLabel(at[c], arg[c])
  BY FitsAtOnce
<1>6. PICK m \in Replies : m = Reply(c)
  BY <1>3
<1>7. PICK a : a = arg[c]
  OBVIOUS
<1>8. m.to = Head(Awaited(here)) /\ Tells(m, a)
  BY <1>3, <1>6, <1>7
<1>9. CASE GetDone(c)
  <2>1. a.hash \in Hashes /\ m.to = "HGETALL"
    BY <1>1, <1>3, <1>5, <1>7, <1>8, <1>9, AwaitedValues DEF FitsLabel, OnHash
  <2>2. FoundEntry(m) = IndexEntries[a.hash]
    BY <1>4, <1>8, <2>1, Found
  <2>3. PICK v : v = [NoAnswer EXCEPT !.is = "entry", !.entry = FoundEntry(m)]
    OBVIOUS
  <2>4. ReturnValue(c, v)
    BY <1>6, <1>9, <2>3 DEF GetDone
  <2>5. Index!Respond(v)
    BY <1>1, <1>2, <1>3, <2>4, Responds
  <2>6. v = [Index!NoAnswer EXCEPT !.is = "entry", !.entry = IndexEntries[a.hash]]
    BY <2>2, <2>3 DEF NoAnswer, Index!NoAnswer
  <2>7. Index!Get(a.hash)
    BY <2>5, <2>6 DEF Index!Get
  <2>8. QED  BY <2>1, <2>7 DEF Index!Next
<1>10. CASE CountDone(c)
  <2>1. m.to = "DBSIZE"
    BY <1>1, <1>8, <1>10, AwaitedValues
  <2>2. m.type = "integer" /\ m.integer = Cardinality(KeysOf(0))
    BY <1>8, <2>1 DEF Tells
  <2>3. KeysOf(0) = {h \in Hashes : IndexEntries[h] # None}
    BY <1>4, KeysAre
  <2>4. PICK v : v = [NoAnswer EXCEPT !.is = "count", !.count = IntegerOr(m, 0)]
    OBVIOUS
  <2>5. ReturnValue(c, v)
    BY <1>6, <1>10, <2>4 DEF CountDone
  <2>6. Index!Respond(v)
    BY <1>1, <1>2, <1>3, <2>5, Responds
  <2>7. IntegerOr(m, 0) = Cardinality({h \in Hashes : IndexEntries[h] # None})
    BY <2>2, <2>3 DEF IntegerOr
  <2>8. v = [Index!NoAnswer EXCEPT !.is = "count",
                 !.count = Cardinality({h \in Hashes : IndexEntries[h] # None})]
    BY <2>4, <2>7 DEF NoAnswer, Index!NoAnswer
  <2>9. Index!Count
    BY <2>6, <2>8, CountAlike DEF Index!Count
  <2>10. QED  BY <2>9 DEF Index!Next
<1>11. CASE CountIdDone(c)
  <2>1. a.id \in Ids /\ m.to = "LLEN"
    BY <1>1, <1>3, <1>5, <1>7, <1>8, <1>11, AwaitedValues DEF FitsLabel, OnId
  <2>2. IntegerOr(m, -1) = SumFunction(IndexListed[a.id])
    BY <1>4, <1>8, <2>1 DEF Tells, IntegerOr
  <2>3. PICK v : v = [NoAnswer EXCEPT !.is = "count", !.count = IntegerOr(m, -1)]
    OBVIOUS
  <2>4. ReturnValue(c, v)
    BY <1>6, <1>11, <2>3 DEF CountIdDone
  <2>5. Index!Respond(v)
    BY <1>1, <1>2, <1>3, <2>4, Responds
  <2>6. v = [Index!NoAnswer EXCEPT !.is = "count", !.count = SumFunction(IndexListed[a.id])]
    BY <2>2, <2>3 DEF NoAnswer, Index!NoAnswer
  <2>7. Index!CountId(a.id)
    BY <2>5, <2>6, CountAlike DEF Index!CountId
  <2>8. QED  BY <2>1, <2>7 DEF Index!Next
<1>12. CASE EntriesDone(c)
  <2>1. m.to = "KEYS"
    BY <1>1, <1>8, <1>12, AwaitedValues
  <2>2. m.type = "array" /\ m.fields = None /\ m.list = NoHashes /\ m.keys = KeysOf(1)
    BY <1>8, <2>1 DEF Tells
  <2>3. KeysOf(1) = {i \in Ids : IndexListed[i] # NoHashes}
    BY <1>4, KeysAre
  <2>4. \A k \in Keys : Strings(m)[k] = IF k \in m.keys THEN 1 ELSE 0
    BY <2>2 DEF Strings, NoHashes
  <2>5. {k \in Keys : Strings(m)[k] > 0} = m.keys
    <3>1. m.keys \subseteq Keys
      BY DEF Replies
    <3>2. \A k \in Keys : Strings(m)[k] > 0 <=> k \in m.keys
      BY <2>4
    <3>3. QED  BY <3>1, <3>2
  <2>6. PICK v : v = [NoAnswer EXCEPT !.is = "names", !.names = m.keys]
    OBVIOUS
  <2>7. ReturnValue(c, v)
    BY <1>6, <1>12, <2>2, <2>5, <2>6 DEF EntriesDone
  <2>8. Index!Respond(v)
    BY <1>1, <1>2, <1>3, <2>7, Responds
  <2>9. v = [Index!NoAnswer EXCEPT !.is = "names",
                 !.names = {i \in Ids : IndexListed[i] # Index!NoHashes}]
    BY <2>2, <2>3, <2>6 DEF NoAnswer, Index!NoAnswer, NoHashes, Index!NoHashes
  <2>10. Index!Entries
    BY <2>8, <2>9 DEF Index!Entries
  <2>11. QED  BY <2>10 DEF Index!Next
<1>13. QED  BY <1>9, <1>10, <1>11, <1>12

(* The abstract index has the values its interface declares.                *)
LEMMA CopiesTyped ==
    ASSUME NEW l, NEW n, NEW a, NEW b \in [Ids -> Bag], NEW i \in Ids, NEW h \in Hashes
    PROVE  CopiesOf(l, n, a, b, i, h) \in Nat
<1>1. b[i][h] \in Nat
  BY DEF Bag
<1>2. QED  BY <1>1 DEF CopiesOf

LEMMA ImageTyped ==
    ASSUME Typed, OneClient
    PROVE  Index!TypeOK
<1>1. PICK c \in Clients : c = Me
  BY IsMe
<1>2. ent[0] \in [Hashes -> Entry \cup {None}] /\ lst[1] \in [Ids -> Bag]
  BY DEF Typed, ServerTyped
<1>3. PICK l, n, a : l = at[c] /\ n = Len(Answered(c)) /\ a = arg[c]
  OBVIOUS
<1>4. \A h \in Hashes : EntryOf(l, n, a, ent[0], lst[1], h) \in Entry \cup {None}
  BY <1>2 DEF EntryOf
<1>5. \A i \in Ids, h \in Hashes : CopiesOf(l, n, a, lst[1], i, h) \in Nat
  BY <1>2, CopiesTyped
<1>6. IndexEntries \in [Hashes -> Entry \cup {None}]
  BY <1>1, <1>3, <1>4, ImageIs
<1>7. IndexListed \in [Ids -> [Hashes -> Nat]]
  BY <1>1, <1>3, <1>5, ImageIs
<1>8. QED  BY <1>6, <1>7 DEF Index!TypeOK, Index!Entry, Entry

(* The image before and after the server executed a command.                *)
LEMMA ImageServed ==
    ASSUME Typed, Typed', NEW c \in Clients, c = Me, NEW s, Executed(c, s)
    PROVE  /\ \A h \in Hashes :
                /\ IndexEntries[h] = EntryOf(at[c], Len(Answered(c)), arg[c], ent[0], lst[1], h)
                /\ IndexEntries'[h]
                     = EntryOf(at[c], Len(Answered(c)) + 1, arg[c], ent'[0], lst'[1], h)
           /\ \A i \in Ids, h \in Hashes :
                /\ IndexListed[i][h] = CopiesOf(at[c], Len(Answered(c)), arg[c], lst[1], i, h)
                /\ IndexListed'[i][h]
                     = CopiesOf(at[c], Len(Answered(c)) + 1, arg[c], lst'[1], i, h)
           /\ IndexEntries \in [Hashes -> Entry \cup {None}]
           /\ IndexEntries' \in [Hashes -> Entry \cup {None}]
           /\ IndexListed \in [Ids -> [Hashes -> Nat]]
           /\ IndexListed' \in [Ids -> [Hashes -> Nat]]
<1>1. PICK l, n, a : l = at[c] /\ n = Len(Answered(c)) /\ a = arg[c]
  OBVIOUS
<1>2. at'[c] = l /\ arg'[c] = a /\ Len(Answered(c)') = n + 1
  BY <1>1 DEF Executed
<1>3. /\ ent[0] \in [Hashes -> Entry \cup {None}] /\ lst[1] \in [Ids -> Bag]
      /\ ent'[0] \in [Hashes -> Entry \cup {None}] /\ lst'[1] \in [Ids -> Bag]
  BY DEF Typed, ServerTyped
<1>4. PICK e, b, f, d : e = ent[0] /\ b = lst[1] /\ f = ent'[0] /\ d = lst'[1]
  OBVIOUS
<1>5. /\ \A h \in Hashes : EntryOf(l, n, a, e, b, h) \in Entry \cup {None}
      /\ \A h \in Hashes : EntryOf(l, n + 1, a, f, d, h) \in Entry \cup {None}
  BY <1>3, <1>4 DEF EntryOf
<1>6. /\ \A i \in Ids, h \in Hashes : CopiesOf(l, n, a, b, i, h) \in Nat
      /\ \A i \in Ids, h \in Hashes : CopiesOf(l, n + 1, a, d, i, h) \in Nat
  BY <1>3, <1>4, CopiesTyped
<1>7. /\ IndexEntries = [h \in Hashes |-> EntryOf(l, n, a, e, b, h)]
      /\ IndexListed = [i \in Ids |-> [h \in Hashes |-> CopiesOf(l, n, a, b, i, h)]]
  BY <1>1, <1>4, ImageIs
<1>8. /\ IndexEntries' = [h \in Hashes |-> EntryOf(l, n + 1, a, f, d, h)]
      /\ IndexListed' = [i \in Ids |-> [h \in Hashes |-> CopiesOf(l, n + 1, a, d, i, h)]]
  BY <1>1, <1>2, <1>4, ImageIsNext
<1>9. /\ IndexEntries \in [Hashes -> Entry \cup {None}]
      /\ IndexListed \in [Ids -> [Hashes -> Nat]]
  BY <1>5, <1>6, <1>7
<1>10. /\ IndexEntries' \in [Hashes -> Entry \cup {None}]
       /\ IndexListed' \in [Ids -> [Hashes -> Nat]]
  BY <1>5, <1>6, <1>8
<1>11. \A h \in Hashes : IndexEntries[h] = EntryOf(l, n, a, e, b, h)
  BY <1>7
<1>12. \A h \in Hashes : IndexEntries'[h] = EntryOf(l, n + 1, a, f, d, h)
  BY <1>8
<1>13. \A i \in Ids, h \in Hashes : IndexListed[i][h] = CopiesOf(l, n, a, b, i, h)
  BY <1>7
<1>14. \A i \in Ids, h \in Hashes : IndexListed'[i][h] = CopiesOf(l, n + 1, a, d, i, h)
  BY <1>8
<1>15. QED  BY <1>1, <1>4, <1>9, <1>10, <1>11, <1>12, <1>13, <1>14

(* Two indices that hold the same are the same. *)
LEMMA SameEntries ==
    ASSUME NEW X \in [Hashes -> Entry \cup {None}], NEW Y \in [Hashes -> Entry \cup {None}],
           \A h \in Hashes : X[h] = Y[h]
    PROVE  X = Y
OBVIOUS

LEMMA SameLists ==
    ASSUME NEW X \in [Ids -> [Hashes -> Nat]], NEW Y \in [Ids -> [Hashes -> Nat]],
           \A i \in Ids, h \in Hashes : X[i][h] = Y[i][h]
    PROVE  X = Y
<1>1. ASSUME NEW i \in Ids PROVE X[i] = Y[i]
  <2>1. X[i] \in [Hashes -> Nat] /\ Y[i] \in [Hashes -> Nat]
    OBVIOUS
  <2>2. QED  BY <2>1
<1>2. QED  BY <1>1

(* One command m executed for a method at label l with the arguments a,     *)
(* after k replies, and what it changes of the abstract index.              *)
Effect(c, l, k, a, m) ==
    /\ l = at[c] /\ k = Len(Answered(c)) /\ k \in Nat /\ a = arg[c] /\ m = Now(c)
    /\ m \in Command /\ Turn(l, a, k, m) /\ FitsLabel(l, a) /\ Does(m)
    /\ \A h \in Hashes : /\ IndexEntries[h] = EntryOf(l, k, a, ent[0], lst[1], h)
                         /\ IndexEntries'[h] = EntryOf(l, k + 1, a, ent'[0], lst'[1], h)
    /\ \A i \in Ids, h \in Hashes :
         /\ IndexListed[i][h] = CopiesOf(l, k, a, lst[1], i, h)
         /\ IndexListed'[i][h] = CopiesOf(l, k + 1, a, lst'[1], i, h)
    /\ IndexEntries \in [Hashes -> Entry \cup {None}]
    /\ IndexEntries' \in [Hashes -> Entry \cup {None}]
    /\ IndexListed \in [Ids -> [Hashes -> Nat]]
    /\ IndexListed' \in [Ids -> [Hashes -> Nat]]
    /\ lst[1] \in [Ids -> Bag]

LEMMA ServedEffect ==
    ASSUME Typed, Typed', NEW c \in Clients, c = Me, NEW s, Executed(c, s), Does(Now(c))
    PROVE  \E l, k, a, m : Effect(c, l, k, a, m)
<1>1. PICK l, k, a, m : l = at[c] /\ k = Len(Answered(c)) /\ a = arg[c] /\ m = Now(c)
  OBVIOUS
<1>2. m \in Command /\ Turn(l, a, k, m)
  BY <1>1, ExecutedTurn
<1>3. FitsLabel(l, a) /\ k \in Nat /\ lst[1] \in [Ids -> Bag]
  BY <1>1, FitsAtOnce DEF Executed, Typed, ServerTyped
<1>4. /\ \A h \in Hashes : /\ IndexEntries[h] = EntryOf(l, k, a, ent[0], lst[1], h)
                           /\ IndexEntries'[h] = EntryOf(l, k + 1, a, ent'[0], lst'[1], h)
      /\ \A i \in Ids, h \in Hashes :
           /\ IndexListed[i][h] = CopiesOf(l, k, a, lst[1], i, h)
           /\ IndexListed'[i][h] = CopiesOf(l, k + 1, a, lst'[1], i, h)
      /\ IndexEntries \in [Hashes -> Entry \cup {None}]
      /\ IndexEntries' \in [Hashes -> Entry \cup {None}]
      /\ IndexListed \in [Ids -> [Hashes -> Nat]]
      /\ IndexListed' \in [Ids -> [Hashes -> Nat]]
  BY <1>1, ImageServed
<1>5. Does(m)
  BY <1>1
<1>6. Effect(c, l, k, a, m)
  BY <1>1, <1>2, <1>3, <1>4, <1>5 DEF Effect
<1>7. QED  BY <1>6

(* The elements of the index keep their values: the step is none of its.    *)
LEMMA Stutters ==
    ASSUME NEW c, c = Me, NEW l, NEW k, NEW a, NEW m, Effect(c, l, k, a, m), out'[c] = out[c],
           \A h \in Hashes : EntryOf(l, k + 1, a, ent'[0], lst'[1], h)
                               = EntryOf(l, k, a, ent[0], lst[1], h),
           \A i \in Ids, h \in Hashes : CopiesOf(l, k + 1, a, lst'[1], i, h)
                                          = CopiesOf(l, k, a, lst[1], i, h)
    PROVE  UNCHANGED Index!vars
<1>1. /\ IndexEntries \in [Hashes -> Entry \cup {None}]
      /\ IndexEntries' \in [Hashes -> Entry \cup {None}]
      /\ IndexListed \in [Ids -> [Hashes -> Nat]]
      /\ IndexListed' \in [Ids -> [Hashes -> Nat]]
  BY DEF Effect
<1>2. \A h \in Hashes : IndexEntries'[h] = IndexEntries[h]
  BY DEF Effect
<1>3. \A i \in Ids, h \in Hashes : IndexListed'[i][h] = IndexListed[i][h]
  BY DEF Effect
<1>4. IndexEntries' = IndexEntries
  BY <1>1, <1>2
<1>5. IndexListed' = IndexListed
  BY <1>1, <1>3, SameLists
<1>6. QED  BY <1>4, <1>5 DEF Index!vars

(* LPUSH: the hash that HMSET has put is listed. *)
LEMMA LpushStutters ==
    ASSUME NEW c, c = Me, NEW l, NEW k, NEW a, NEW m, Effect(c, l, k, a, m), out'[c] = out[c],
           m.name = "LPUSH"
    PROVE  UNCHANGED Index!vars
<1>1. l = "put_lpush" /\ k = 0 /\ m.key = a.entry.id /\ m.hash = a.hash
  BY CommandParts DEF Effect, Turn
<1>2. /\ \A h \in Hashes : ent'[0][h] = ent[0][h]
      /\ \A i \in Ids, h \in Hashes :
           lst'[1][i][h] = IF i = m.key /\ h = m.hash THEN lst[1][i][h] + 1 ELSE lst[1][i][h]
  BY DEF Effect, Does
<1>3. \A h \in Hashes : EntryOf(l, k + 1, a, ent'[0], lst'[1], h)
                          = EntryOf(l, k, a, ent[0], lst[1], h)
  BY <1>1, <1>2 DEF EntryOf, IdHalf
<1>4. \A i \in Ids, h \in Hashes : CopiesOf(l, k + 1, a, lst'[1], i, h)
                                     = CopiesOf(l, k, a, lst[1], i, h)
  BY <1>1, <1>2 DEF CopiesOf, IdHalf, PutHalf, HashHalf
<1>5. QED  BY <1>3, <1>4, Stutters

(* LREM: the hash that DEL has deleted is unlisted. *)
LEMMA LremStutters ==
    ASSUME NEW c, c = Me, NEW l, NEW k, NEW a, NEW m, Effect(c, l, k, a, m), out'[c] = out[c],
           m.name = "LREM"
    PROVE  UNCHANGED Index!vars
<1>1. /\ (l = "del_select1" /\ k = 1) \/ (l = "del_lrem" /\ k = 0)
      /\ m.key = a.entry.id /\ m.hash = a.hash
  BY CommandParts DEF Effect, Turn
<1>2. /\ \A h \in Hashes : ent'[0][h] = ent[0][h]
      /\ \A i \in Ids, h \in Hashes :
           lst'[1][i][h] = IF i = m.key /\ h = m.hash THEN 0 ELSE lst[1][i][h]
  BY DEF Effect, Does
<1>3. \A h \in Hashes : EntryOf(l, k + 1, a, ent'[0], lst'[1], h)
                          = EntryOf(l, k, a, ent[0], lst[1], h)
  BY <1>1, <1>2 DEF EntryOf, IdHalf
<1>4. /\ ~PutHalf(l, k) /\ ~PutHalf(l, k + 1) /\ ~IdHalf(l, k) /\ ~IdHalf(l, k + 1)
      /\ HashHalf(l, k) /\ ~HashHalf(l, k + 1)
  BY <1>1 DEF PutHalf, IdHalf, HashHalf
<1>5. \A i \in Ids, h \in Hashes : CopiesOf(l, k + 1, a, lst'[1], i, h)
                                     = CopiesOf(l, k, a, lst[1], i, h)
  BY <1>1, <1>2, <1>4 DEF CopiesOf
<1>6. QED  BY <1>3, <1>5, Stutters

(* DEL in the loop of DeleteEntry(id): the entry is gone already.           *)
LEMMA DelStutters ==
    ASSUME NEW c, c = Me, NEW l, NEW k, NEW a, NEW m, Effect(c, l, k, a, m), out'[c] = out[c],
           l = "id_del", m.key \in Hashes, lst[1][a.id][m.key] > 0
    PROVE  UNCHANGED Index!vars
<1>1. k = 0 /\ m.name = "DEL" /\ a.id \in Ids /\ m.key \notin Ids
  BY CommandParts, RedisAssumption DEF RedisAssumption, Effect, Turn, FitsLabel, OnId,
                                       Selects0, Selects1
<1>2. /\ \A h \in Hashes : ent'[0][h] = IF h = m.key THEN None ELSE ent[0][h]
      /\ \A i \in Ids, h \in Hashes : lst'[1][i][h] = lst[1][i][h]
  BY <1>1 DEF Effect, Does
<1>3. IdHalf(l, k) /\ IdHalf(l, k + 1) /\ ~PutHalf(l, k) /\ ~PutHalf(l, k + 1)
      /\ ~HashHalf(l, k) /\ ~HashHalf(l, k + 1)
  BY DEF IdHalf, PutHalf, HashHalf
<1>4. \A h \in Hashes : EntryOf(l, k + 1, a, ent'[0], lst'[1], h)
                          = EntryOf(l, k, a, ent[0], lst[1], h)
  BY <1>1, <1>2, <1>3 DEF EntryOf
<1>5. \A i \in Ids, h \in Hashes : CopiesOf(l, k + 1, a, lst'[1], i, h)
                                     = CopiesOf(l, k, a, lst[1], i, h)
  BY <1>2, <1>3 DEF CopiesOf
<1>6. QED  BY <1>4, <1>5, Stutters

(* DEL of the list, once every entry it held is deleted.                    *)
LEMMA DelListStutters ==
    ASSUME NEW c, c = Me, NEW l, NEW k, NEW a, NEW m, Effect(c, l, k, a, m), out'[c] = out[c],
           l \in {"id_select1", "id_delkey"}, m.name = "DEL",
           \A h \in Hashes : lst[1][a.id][h] > 0 => ent[0][h] = None
    PROVE  UNCHANGED Index!vars
<1>1. /\ (l = "id_select1" /\ k = 1) \/ (l = "id_delkey" /\ k = 0)
      /\ m.key = a.id /\ a.id \in Ids /\ a.id \notin Hashes
  BY CommandParts, RedisAssumption DEF RedisAssumption, Effect, Turn, FitsLabel, OnId
<1>2. /\ \A h \in Hashes : ent'[0][h] = ent[0][h]
      /\ \A i \in Ids, h \in Hashes : lst'[1][i][h] = IF i = a.id THEN 0 ELSE lst[1][i][h]
  BY <1>1 DEF Effect, Does
<1>3. IdHalf(l, k) /\ ~IdHalf(l, k + 1) /\ ~PutHalf(l, k) /\ ~PutHalf(l, k + 1)
      /\ ~HashHalf(l, k) /\ ~HashHalf(l, k + 1)
  BY <1>1 DEF IdHalf, PutHalf, HashHalf
<1>4. \A h \in Hashes : EntryOf(l, k + 1, a, ent'[0], lst'[1], h)
                          = EntryOf(l, k, a, ent[0], lst[1], h)
  BY <1>1, <1>2, <1>3 DEF EntryOf
<1>5. \A i \in Ids, h \in Hashes : CopiesOf(l, k + 1, a, lst'[1], i, h)
                                     = CopiesOf(l, k, a, lst[1], i, h)
  BY <1>1, <1>2, <1>3 DEF CopiesOf
<1>6. QED  BY <1>4, <1>5, Stutters

(* HMSET is where a Put takes effect.                                       *)
LEMMA HmsetPuts ==
    ASSUME NEW c, c = Me, NEW l, NEW k, NEW a, NEW m, Effect(c, l, k, a, m), out'[c] = out[c],
           m.name = "HMSET", a.overwrite \in Overwrites,
           a.overwrite \/ ent[0][a.hash] = None, lst[1][a.entry.id][a.hash] < MaxCopies
    PROVE  Index!Next
<1>1. l = "put_hmset" /\ k = 0 /\ m.key = a.hash /\ m.entry = a.entry
  BY CommandParts DEF Effect, Turn
<1>2. PICK h \in Hashes, e \in Entry, i \in Ids : h = a.hash /\ e = a.entry /\ i = a.entry.id
  BY <1>1 DEF Effect, FitsLabel, OnHash, Putting, Entry
<1>3. /\ \A g \in Hashes : ent'[0][g] = IF g = h THEN e ELSE ent[0][g]
      /\ \A j \in Ids, g \in Hashes : lst'[1][j][g] = lst[1][j][g]
  BY <1>1, <1>2 DEF Effect, Does
<1>4. /\ ~IdHalf(l, k) /\ ~IdHalf(l, k + 1) /\ ~HashHalf(l, k) /\ ~HashHalf(l, k + 1)
      /\ ~PutHalf(l, k) /\ PutHalf(l, k + 1)
  BY <1>1 DEF IdHalf, PutHalf, HashHalf
<1>5. \A g \in Hashes : /\ IndexEntries[g] = ent[0][g]
                        /\ IndexEntries'[g] = IF g = h THEN e ELSE ent[0][g]
  <2>1. \A g \in Hashes : /\ IndexEntries[g] = EntryOf(l, k, a, ent[0], lst[1], g)
                          /\ IndexEntries'[g] = EntryOf(l, k + 1, a, ent'[0], lst'[1], g)
    BY DEF Effect
  <2>2. \A g \in Hashes : EntryOf(l, k, a, ent[0], lst[1], g) = ent[0][g]
    BY <1>4 DEF EntryOf
  <2>3. \A g \in Hashes : EntryOf(l, k + 1, a, ent'[0], lst'[1], g)
                            = IF g = h THEN e ELSE ent[0][g]
    BY <1>3, <1>4 DEF EntryOf
  <2>4. QED  BY <2>1, <2>2, <2>3
<1>6. \A j \in Ids, g \in Hashes :
        /\ IndexListed[j][g] = lst[1][j][g]
        /\ IndexListed'[j][g] = IF j = i /\ g = h THEN lst[1][j][g] + 1 ELSE lst[1][j][g]
  <2>1. \A j \in Ids, g \in Hashes :
          /\ IndexListed[j][g] = CopiesOf(l, k, a, lst[1], j, g)
          /\ IndexListed'[j][g] = CopiesOf(l, k + 1, a, lst'[1], j, g)
    BY DEF Effect
  <2>2. \A j \in Ids, g \in Hashes : CopiesOf(l, k, a, lst[1], j, g) = lst[1][j][g]
    BY <1>4 DEF CopiesOf
  <2>3. \A j \in Ids, g \in Hashes : CopiesOf(l, k + 1, a, lst'[1], j, g)
                                         = IF j = i /\ g = h THEN lst[1][j][g] + 1 ELSE lst[1][j][g]
    BY <1>2, <1>3, <1>4 DEF CopiesOf
  <2>4. QED  BY <2>1, <2>2, <2>3
<1>7. /\ IndexEntries \in [Hashes -> Entry \cup {None}]
      /\ IndexEntries' \in [Hashes -> Entry \cup {None}]
      /\ IndexListed \in [Ids -> [Hashes -> Nat]]
      /\ IndexListed' \in [Ids -> [Hashes -> Nat]]
  BY DEF Effect
<1>8. IndexEntries' = [IndexEntries EXCEPT ![h] = e]
  <2>1. [IndexEntries EXCEPT ![h] = e] \in [Hashes -> Entry \cup {None}]
    BY <1>7
  <2>2. \A g \in Hashes : [IndexEntries EXCEPT ![h] = e][g] = IF g = h THEN e ELSE IndexEntries[g]
    BY <1>7
  <2>3. QED  BY <1>5, <1>7, <2>1, <2>2, SameEntries
<1>9. IndexListed' = [IndexListed EXCEPT ![i][h] = @ + 1]
  <2>1. [IndexListed EXCEPT ![i][h] = @ + 1] \in [Ids -> [Hashes -> Nat]]
    BY <1>7
  <2>2. \A j \in Ids, g \in Hashes :
          [IndexListed EXCEPT ![i][h] = @ + 1][j][g]
            = IF j = i /\ g = h THEN IndexListed[j][g] + 1 ELSE IndexListed[j][g]
    BY <1>7
  <2>3. QED  BY <1>6, <1>7, <2>1, <2>2, SameLists
<1>10. /\ a.overwrite \/ IndexEntries[h] = None
       /\ IndexListed[i][h] < MaxCopies
  BY <1>2, <1>5, <1>6
<1>11. e.id = i /\ e \in Index!Entry /\ out'[Me] = out[Me]
  BY <1>2 DEF Index!Entry, Entry
<1>12. Index!Put(h, e, a.overwrite)
  BY <1>8, <1>9, <1>10, <1>11 DEF Index!Put
<1>13. QED  BY <1>11, <1>12 DEF Index!Next

(* The first DEL is where DeleteEntry(hash) does. *)
LEMMA DelDeletes ==
    ASSUME NEW c, c = Me, NEW l, NEW k, NEW a, NEW m, Effect(c, l, k, a, m), out'[c] = out[c],
           l \in {"del_select", "del_del"}, m.name = "DEL",
           a.entry \in Entry, ent[0][a.hash] # None, ent[0][a.hash] = a.entry
    PROVE  Index!Next
<1>1. /\ (l = "del_select" /\ k = 1) \/ (l = "del_del" /\ k = 0)
      /\ m.key = a.hash
  BY CommandParts DEF Effect, Turn
<1>2. PICK h \in Hashes, i \in Ids : h = a.hash /\ i = a.entry.id /\ h \notin Ids
  BY <1>1, RedisAssumption DEF RedisAssumption, Effect, FitsLabel, OnHash, Entry
<1>3. /\ \A g \in Hashes : ent'[0][g] = IF g = h THEN None ELSE ent[0][g]
      /\ \A j \in Ids, g \in Hashes : lst'[1][j][g] = lst[1][j][g]
  BY <1>1, <1>2 DEF Effect, Does
<1>4. /\ ~IdHalf(l, k) /\ ~IdHalf(l, k + 1) /\ ~PutHalf(l, k) /\ ~PutHalf(l, k + 1)
      /\ ~HashHalf(l, k) /\ HashHalf(l, k + 1)
  BY <1>1 DEF IdHalf, PutHalf, HashHalf
<1>5. \A g \in Hashes : /\ IndexEntries[g] = ent[0][g]
                        /\ IndexEntries'[g] = IF g = h THEN None ELSE ent[0][g]
  <2>1. \A g \in Hashes : /\ IndexEntries[g] = EntryOf(l, k, a, ent[0], lst[1], g)
                          /\ IndexEntries'[g] = EntryOf(l, k + 1, a, ent'[0], lst'[1], g)
    BY DEF Effect
  <2>2. \A g \in Hashes : EntryOf(l, k, a, ent[0], lst[1], g) = ent[0][g]
    BY <1>4 DEF EntryOf
  <2>3. \A g \in Hashes : EntryOf(l, k + 1, a, ent'[0], lst'[1], g)
                            = IF g = h THEN None ELSE ent[0][g]
    BY <1>3, <1>4 DEF EntryOf
  <2>4. QED  BY <2>1, <2>2, <2>3
<1>6. \A j \in Ids, g \in Hashes :
        /\ IndexListed[j][g] = lst[1][j][g]
        /\ IndexListed'[j][g] = IF j = i /\ g = h THEN 0 ELSE lst[1][j][g]
  <2>1. \A j \in Ids, g \in Hashes :
          /\ IndexListed[j][g] = CopiesOf(l, k, a, lst[1], j, g)
          /\ IndexListed'[j][g] = CopiesOf(l, k + 1, a, lst'[1], j, g)
    BY DEF Effect
  <2>2. \A j \in Ids, g \in Hashes : CopiesOf(l, k, a, lst[1], j, g) = lst[1][j][g]
    BY <1>4 DEF CopiesOf
  <2>3. \A j \in Ids, g \in Hashes : CopiesOf(l, k + 1, a, lst'[1], j, g)
                                         = IF j = i /\ g = h THEN 0 ELSE lst[1][j][g]
    BY <1>2, <1>3, <1>4 DEF CopiesOf
  <2>4. QED  BY <2>1, <2>2, <2>3
<1>7. /\ IndexEntries \in [Hashes -> Entry \cup {None}]
      /\ IndexEntries' \in [Hashes -> Entry \cup {None}]
      /\ IndexListed \in [Ids -> [Hashes -> Nat]]
      /\ IndexListed' \in [Ids -> [Hashes -> Nat]]
  BY DEF Effect
<1>8. IndexEntries' = [IndexEntries EXCEPT ![h] = None]
  <2>1. [IndexEntries EXCEPT ![h] = None] \in [Hashes -> Entry \cup {None}]
    BY <1>7
  <2>2. \A g \in Hashes :
          [IndexEntries EXCEPT ![h] = None][g] = IF g = h THEN None ELSE IndexEntries[g]
    BY <1>7
  <2>3. QED  BY <1>5, <1>7, <2>1, <2>2, SameEntries
<1>9. IndexListed' = [IndexListed EXCEPT ![i][h] = 0]
  <2>1. [IndexListed EXCEPT ![i][h] = 0] \in [Ids -> [Hashes -> Nat]]
    BY <1>7
  <2>2. \A j \in Ids, g \in Hashes :
          [IndexListed EXCEPT ![i][h] = 0][j][g]
            = IF j = i /\ g = h THEN 0 ELSE IndexListed[j][g]
    BY <1>7
  <2>3. QED  BY <1>6, <1>7, <2>1, <2>2, SameLists
<1>10. IndexEntries[h] # None /\ IndexEntries[h].id = i /\ out'[Me] = out[Me]
  BY <1>2, <1>5
<1>11. Index!DeleteHash(h)
  BY <1>8, <1>9, <1>10 DEF Index!DeleteHash
<1>12. QED  BY <1>11 DEF Index!Next

(* LRANGE is where DeleteEntry(id) does. *)
LEMMA LrangeDeletes ==
    ASSUME NEW c, c = Me, NEW l, NEW k, NEW a, NEW m, Effect(c, l, k, a, m), out'[c] = out[c],
           m.name = "LRANGE"
    PROVE  Index!Next
<1>1. (l = "id_select" /\ k = 1) \/ (l = "id_lrange" /\ k = 0)
  BY CommandParts DEF Effect, Turn
<1>2. PICK i \in Ids : i = a.id
  BY <1>1 DEF Effect, FitsLabel, OnId
<1>3. /\ \A g \in Hashes : ent'[0][g] = ent[0][g]
      /\ \A j \in Ids, g \in Hashes : lst'[1][j][g] = lst[1][j][g]
  BY DEF Effect, Does
<1>4. /\ ~IdHalf(l, k) /\ IdHalf(l, k + 1) /\ ~PutHalf(l, k) /\ ~PutHalf(l, k + 1)
      /\ ~HashHalf(l, k) /\ ~HashHalf(l, k + 1)
  BY <1>1 DEF IdHalf, PutHalf, HashHalf
<1>5. \A g \in Hashes : /\ IndexEntries[g] = ent[0][g]
                        /\ IndexEntries'[g] = IF lst[1][i][g] > 0 THEN None ELSE ent[0][g]
  <2>1. \A g \in Hashes : /\ IndexEntries[g] = EntryOf(l, k, a, ent[0], lst[1], g)
                          /\ IndexEntries'[g] = EntryOf(l, k + 1, a, ent'[0], lst'[1], g)
    BY DEF Effect
  <2>2. \A g \in Hashes : EntryOf(l, k, a, ent[0], lst[1], g) = ent[0][g]
    BY <1>4 DEF EntryOf
  <2>3. \A g \in Hashes : EntryOf(l, k + 1, a, ent'[0], lst'[1], g)
                            = IF lst[1][i][g] > 0 THEN None ELSE ent[0][g]
    BY <1>2, <1>3, <1>4 DEF EntryOf
  <2>4. QED  BY <2>1, <2>2, <2>3
<1>6. \A j \in Ids, g \in Hashes :
        /\ IndexListed[j][g] = lst[1][j][g]
        /\ IndexListed'[j][g] = IF j = i THEN 0 ELSE lst[1][j][g]
  <2>1. \A j \in Ids, g \in Hashes :
          /\ IndexListed[j][g] = CopiesOf(l, k, a, lst[1], j, g)
          /\ IndexListed'[j][g] = CopiesOf(l, k + 1, a, lst'[1], j, g)
    BY DEF Effect
  <2>2. \A j \in Ids, g \in Hashes : CopiesOf(l, k, a, lst[1], j, g) = lst[1][j][g]
    BY <1>4 DEF CopiesOf
  <2>3. \A j \in Ids, g \in Hashes : CopiesOf(l, k + 1, a, lst'[1], j, g)
                                         = IF j = i THEN 0 ELSE lst[1][j][g]
    BY <1>2, <1>3, <1>4 DEF CopiesOf
  <2>4. QED  BY <2>1, <2>2, <2>3
<1>7. /\ IndexEntries \in [Hashes -> Entry \cup {None}]
      /\ IndexEntries' \in [Hashes -> Entry \cup {None}]
      /\ IndexListed \in [Ids -> [Hashes -> Nat]]
      /\ IndexListed' \in [Ids -> [Hashes -> Nat]]
  BY DEF Effect
<1>8. IndexEntries' = [g \in Hashes |-> IF IndexListed[i][g] > 0 THEN None ELSE IndexEntries[g]]
  <2>1. \A g \in Hashes :
          IndexEntries'[g] = IF IndexListed[i][g] > 0 THEN None ELSE IndexEntries[g]
    BY <1>5, <1>6
  <2>2. IndexEntries' = [g \in Hashes |-> IndexEntries'[g]]
    BY <1>7
  <2>3. QED  BY <2>1, <2>2
<1>9. IndexListed' = [IndexListed EXCEPT ![i] = NoHashes]
  <2>1. NoHashes \in [Hashes -> Nat] /\ \A g \in Hashes : NoHashes[g] = 0
    BY DEF NoHashes
  <2>2. [IndexListed EXCEPT ![i] = NoHashes] \in [Ids -> [Hashes -> Nat]]
    BY <1>7, <2>1
  <2>3. \A j \in Ids, g \in Hashes :
          [IndexListed EXCEPT ![i] = NoHashes][j][g] = IF j = i THEN 0 ELSE IndexListed[j][g]
    BY <1>7, <2>1
  <2>4. QED  BY <1>6, <1>7, <2>2, <2>3, SameLists
<1>10. Index!NoHashes = NoHashes
  BY DEF Index!NoHashes, NoHashes
<1>11. Index!DeleteId(i)
  BY <1>8, <1>9, <1>10 DEF Index!DeleteId
<1>12. QED  BY <1>11 DEF Index!Next

(* A command that writes nothing, and is not the LRANGE of DeleteEntry(id). *)
Marking == {"HMSET", "LPUSH", "LREM", "DEL", "LRANGE"}
LEMMA QuietHalf ==
    ASSUME NEW l, NEW a, NEW k, NEW m, Turn(l, a, k, m), m.name \notin Marking
    PROVE  /\ PutHalf(l, k + 1) <=> PutHalf(l, k)
           /\ HashHalf(l, k + 1) <=> HashHalf(l, k)
           /\ IdHalf(l, k + 1) <=> IdHalf(l, k)
<1>1. \/ l \in Selects0 /\ k = 0
      \/ l \in Selects1 /\ k = 0
      \/ l = "id_select" /\ k \in {0, 2}
      \/ l = "id_lrange" /\ k = 1
      \/ l \in {"put_exists", "get_all", "look_all"}
      \/ l \in {"count_select", "count_size", "countid_select", "countid_len", "keys_select",
                "keys_all"}
  BY CommandParts DEF Turn, Marking
<1>2. QED  BY <1>1 DEF Selects0, Selects1, PutHalf, HashHalf, IdHalf

(* The index does not see such a command.                                   *)
LEMMA QuietStutters ==
    ASSUME NEW c, c = Me, NEW l, NEW k, NEW a, NEW m, Effect(c, l, k, a, m), out'[c] = out[c],
           m.name \notin Marking
    PROVE  UNCHANGED Index!vars
<1>1. /\ PutHalf(l, k + 1) <=> PutHalf(l, k)
      /\ HashHalf(l, k + 1) <=> HashHalf(l, k)
      /\ IdHalf(l, k + 1) <=> IdHalf(l, k)
  BY QuietHalf DEF Effect
<1>2. /\ \A h \in Hashes : ent'[0][h] = ent[0][h]
      /\ \A i \in Ids, h \in Hashes : lst'[1][i][h] = lst[1][i][h]
  BY DEF Effect, Does, Marking
<1>3. IdHalf(l, k) => a.id \in Ids
  BY DEF Effect, FitsLabel, IdHalf, OnId
<1>4. \A h \in Hashes : EntryOf(l, k + 1, a, ent'[0], lst'[1], h)
                          = EntryOf(l, k, a, ent[0], lst[1], h)
  BY <1>1, <1>2, <1>3 DEF EntryOf
<1>5. \A i \in Ids, h \in Hashes : CopiesOf(l, k + 1, a, lst'[1], i, h)
                                     = CopiesOf(l, k, a, lst[1], i, h)
  BY <1>1, <1>2 DEF CopiesOf
<1>6. QED  BY <1>4, <1>5, Stutters

(* A command served is a step of the index, or none of its.                 *)
LEMMA ServedIsStep ==
    ASSUME Typed, Typed', OneClient, DatabasesSeparate, NEW c \in Clients, c = Me, Calm(c),
           Served(c)
    PROVE  Index!Next \/ UNCHANGED Index!vars
<1>1. PICK s : Executed(c, s)
  BY ServedExecutes DEF Calm
<1>2. Now(c) \in Command /\ Execute(c, Now(c))
  BY <1>1, ExecutedTurn
<1>3. AtHome(c, Now(c))
  BY <1>1, ComesHome DEF Calm
<1>4. Does(Now(c))
  BY <1>2, <1>3, DoesWhat
<1>5. PICK l, k, a, m : Effect(c, l, k, a, m)
  BY <1>1, <1>4, ServedEffect
<1>6. out'[c] = out[c]
  BY <1>1 DEF Executed
<1>7. /\ l = at[c] /\ k = Len(Answered(c)) /\ a = arg[c] /\ m = Now(c) /\ m \in Command
      /\ Turn(l, a, k, m) /\ k \in Nat
  BY <1>5 DEF Effect
<1>8. PutPlan(c) /\ HashPlan(c) /\ IdPlan(c)
  BY DEF Calm
<1>9. k = 0 => Answered(c) = <<>>
  BY <1>7, QueueTypes, NoElements
<1>10. CASE m.name = "HMSET"
  <2>1. l = "put_hmset" /\ k = 0
    BY <1>7, <1>10, CommandParts DEF Turn
  <2>2. /\ a.overwrite \in Overwrites /\ (a.overwrite \/ ent[0][a.hash] = None)
        /\ lst[1][a.entry.id][a.hash] < MaxCopies
    BY <1>7, <1>8, <1>9, <2>1 DEF PutPlan, Unwritten, Putting
  <2>3. QED  BY <1>5, <1>6, <1>10, <2>2, HmsetPuts
<1>11. CASE m.name = "LPUSH"
  BY <1>5, <1>6, <1>11, LpushStutters
<1>12. CASE m.name = "LREM"
  BY <1>5, <1>6, <1>12, LremStutters
<1>13. CASE m.name = "LRANGE"
  BY <1>5, <1>6, <1>13, LrangeDeletes
<1>14. CASE m.name = "DEL"
  <2>1. \/ (l = "del_select" /\ k = 1) \/ (l = "del_del" /\ k = 0)
        \/ l = "id_del"
        \/ l \in {"id_select1", "id_delkey"}
    BY <1>7, <1>14, CommandParts DEF Turn
  <2>2. CASE (l = "del_select" /\ k = 1) \/ (l = "del_del" /\ k = 0)
    <3>1. a.entry \in Entry /\ ent[0][a.hash] # None /\ ent[0][a.hash] = a.entry
      BY <1>7, <1>8, <1>9, <2>2, SMTT(20) DEF HashPlan, Undeleted, OnEntry
    <3>2. QED  BY <1>5, <1>6, <1>14, <2>2, <3>1, DelDeletes
  <2>3. CASE l = "id_del"
    <3>1. PICK x \in Keys : Now(c) = Del(x) /\ Queue(c) = <<Del(x)>>
      BY <1>1, <1>7, <2>3, ExecutedTurn
    <3>2. x \in Hashes /\ Doomed(c, x)
      BY <1>7, <1>8, <2>3, <3>1 DEF IdPlan
    <3>3. m.key \in Hashes /\ lst[1][a.id][m.key] > 0
      BY <1>7, <3>1, <3>2, CommandParts DEF Doomed
    <3>4. QED  BY <1>5, <1>6, <2>3, <3>3, DelStutters
  <2>4. CASE l \in {"id_select1", "id_delkey"}
    <3>1. \A h \in Hashes : lst[1][a.id][h] > 0 => ent[0][h] = None
      BY <1>7, <1>8, <2>4 DEF IdPlan, Doomed
    <3>2. QED  BY <1>5, <1>6, <1>14, <2>4, <3>1, DelListStutters
  <2>5. QED  BY <2>1, <2>2, <2>3, <2>4
<1>15. CASE m.name \notin Marking
  BY <1>5, <1>6, <1>15, QuietStutters
<1>16. QED  BY <1>10, <1>11, <1>12, <1>13, <1>14, <1>15 DEF Marking

-----------------------------------------------------------------------------
(* Every step is a step of the index, or none of its.                       *)
Answering(c) == GetDone(c) \/ CountDone(c) \/ CountIdDone(c) \/ EntriesDone(c)

(* Only the four queries answer anything.                                   *)
LEMMA OnlyQueriesAnswer ==
    ASSUME NEW c, Continue(c), ~Answering(c)
    PROVE  out' = out
<1>1. CASE \/ PutSelected(c) \/ PutKeeps(c) \/ PutProceeds(c) \/ PutStored(c)
           \/ PutListing(c) \/ PutListed(c)
  BY <1>1 DEF PutSelected, PutKeeps, PutProceeds, PutStored, PutListing, PutListed,
              StoreFrame, Goto, Return
<1>2. CASE Selected(c) \/ QuerySelected(c) \/ FoundUnparsable(c) \/ Throw(c)
  BY <1>2 DEF Selected, QuerySelected, FoundUnparsable, Throw, Goto, Return
<1>3. CASE \/ DeleteAbsent(c) \/ DeleteFound(c) \/ DeleteSelected(c) \/ DeleteErased(c)
           \/ DeleteUnlisting(c) \/ DeleteUnlisted(c)
  BY <1>3 DEF DeleteAbsent, DeleteFound, DeleteSelected, DeleteErased, DeleteUnlisting,
              DeleteUnlisted, Goto, Return
<1>4. CASE \/ IdSelected(c) \/ IdRanged(c) \/ IdSkipped(c) \/ IdDeleteNext(c)
           \/ IdEmptied(c) \/ IdSelected1(c) \/ IdDeleted(c)
  BY <1>4 DEF IdSelected, IdRanged, IdSkipped, IdDeleteNext, IdEmptied, IdSelected1,
              IdDeleted, Goto, Return
<1>5. QED  BY <1>1, <1>2, <1>3, <1>4 DEF Continue, Answering

(* A step without a fault is a step of the index, or none of its.           *)
LEMMA IndexStep ==
    ASSUME Typed, Typed', OneClient, Undisturbed, DOMAIN out = Clients, Next, faults' = 0
    PROVE  Index!Next \/ UNCHANGED Index!vars
<1>1. PICK c \in Clients : c = Me
  BY IsMe
<1>2. CalmStep /\ InOrder /\ DatabasesSeparate /\ Calm(c)
  BY <1>1, NoFault DEF Undisturbed
<1>3. CASE Call(c)
  <2>1. SameHalf(c) /\ UNCHANGED <<ent, lst, out>>
    BY <1>2, <1>3, HalfCalled
  <2>2. QED  BY <1>1, <2>1, HalfSame
<1>4. CASE Continue(c)
  <2>1. UNCHANGED <<ent, lst>> /\ ~Throw(c)
    BY <1>2, <1>4, CalmContinues
  <2>2. CASE Answering(c)
    BY <1>1, <1>2, <2>2, QueryAnswers DEF Answering
  <2>3. CASE ~Answering(c)
    <3>1. out' = out
      BY <1>4, <2>3, OnlyQueriesAnswer
    <3>2. SameHalf(c)
      BY <1>2, <1>4, <2>1, HalfContinues
    <3>3. QED  BY <1>1, <2>1, <3>1, <3>2, HalfSame
  <2>4. QED  BY <2>2, <2>3
<1>5. CASE Transfer(c)
  <2>1. /\ Answered(c)' = Answered(c)
        /\ UNCHANGED <<ent, lst, at, arg, out>>
    BY <1>5, Transferred
  <2>2. SameHalf(c)
    BY <2>1 DEF SameHalf
  <2>3. QED  BY <1>1, <2>1, <2>2, HalfSame
<1>6. CASE Served(c)
  BY <1>1, <1>2, <1>6, ServedIsStep
<1>7. QED  BY <1>1, <1>2, <1>3, <1>4, <1>5, <1>6 DEF CalmStep

(* What a client was answered is kept for every client.                     *)
LEMMA AnswersKept ==
    ASSUME Typed, DOMAIN out = Clients, [Next]_vars
    PROVE  DOMAIN out' = Clients
<1>1. CASE UNCHANGED vars
  BY <1>1 DEF vars
<1>2. ASSUME NEW c \in Clients, Continue(c)
      PROVE  DOMAIN out' = Clients
  <2>1. CASE Answering(c)
    BY <2>1 DEF Answering, GetDone, CountDone, CountIdDone, EntriesDone, ReturnValue
  <2>2. QED  BY <1>2, <2>1, OnlyQueriesAnswer
<1>3. ASSUME NEW c \in Clients, Call(c)
      PROVE  out' = out
  BY <1>3 DEF Call, CallPut, CallGet, CallDeleteHash, CallDeleteId, CallCount, CallCountId,
              CallEntries, Begin
<1>4. ASSUME NEW c \in Clients, \/ Transfer(c) \/ Served(c) \/ Refused(c) \/ LoseConnection(c)
                                \/ ReadPastEnd(c)
      PROVE  out' = out
  BY <1>4 DEF Transfer, Served, Refused, LoseConnection, ReadPastEnd, call
<1>5. QED  BY <1>1, <1>2, <1>3, <1>4 DEF Next

(* The store starts as the index does: empty.                               *)
LEMMA InitIndex ==
    ASSUME Init, OneClient
    PROVE  Index!Init
<1>1. PICK c \in Clients : c = Me
  BY IsMe
<1>2. Typed /\ at[c] = "idle" /\ out[c] = NoAnswer
  BY <1>1, InitTyped DEF Init
<1>3. PICK n, a : n = Len(Answered(c)) /\ a = arg[c]
  OBVIOUS
<1>4. /\ \A h \in Hashes : EntryOf("idle", n, a, ent[0], lst[1], h) = None
      /\ \A i \in Ids, h \in Hashes : CopiesOf("idle", n, a, lst[1], i, h) = 0
  BY DEF EntryOf, CopiesOf, PutHalf, HashHalf, IdHalf, Init, ServerInit, NoHashes
<1>5. /\ IndexEntries = [h \in Hashes |-> EntryOf("idle", n, a, ent[0], lst[1], h)]
      /\ IndexListed = [i \in Ids |-> [h \in Hashes |->
                          CopiesOf("idle", n, a, lst[1], i, h)]]
  BY <1>1, <1>2, <1>3, ImageIs
<1>6. IndexEntries = [h \in Hashes |-> None]
  BY <1>4, <1>5
<1>7. IndexListed = [i \in Ids |-> [h \in Hashes |-> 0]]
  BY <1>4, <1>5
<1>8. out[Me] = Index!NoAnswer
  BY <1>1, <1>2 DEF NoAnswer, Index!NoAnswer
<1>9. QED  BY <1>6, <1>7, <1>8 DEF Index!Init, Index!NoHashes

(* One client, as long as no command is refused and no connection lost:     *)
(* the methods of RedisHashStore.cpp:47-274, each several commands, take    *)
(* effect at one instant each, as HashStore.hpp promises.                   *)
THEOREM StoreActsAtomically == Spec /\ OneClient => AtomicIndex
<1> DEFINE IInv == OneClient /\ Typed /\ Undisturbed /\ DOMAIN out = Clients
<1>1. Init /\ OneClient => IInv /\ Index!Init
  <2>1. Init => DOMAIN out = Clients
    BY DEF Init
  <2>2. QED  BY <2>1, InitTyped, InitUndisturbed, InitIndex
<1>2. IInv /\ [Next]_vars => IInv'
  <2> SUFFICES ASSUME IInv, [Next]_vars PROVE IInv'
    OBVIOUS
  <2>1. Typed' /\ (OneClient' <=> OneClient)
    BY NextTyped DEF OneClient
  <2>2. QED  BY <2>1, UndisturbedStep, AnswersKept
<1>3. IInv /\ IInv' /\ [Next]_vars => [faults' = 0 => [Index!Next]_(Index!vars)]_vars
  <2> SUFFICES ASSUME IInv, IInv', Next, faults' = 0
               PROVE  Index!Next \/ UNCHANGED Index!vars
    OBVIOUS
  <2>1. QED  BY IndexStep
<1>4. QED  BY <1>1, <1>2, <1>3, PTL DEF Spec, AtomicIndex

-----------------------------------------------------------------------------
(* The atomic index that the store implements (HashIndex), in its image of  *)
(* the store's state.                                                       *)
IndexInv == Index!TypeOK /\ Index!OwnerListed

LEMMA IndexInit == Index!Init => IndexInv
  BY DEF Index!Init, IndexInv, Index!TypeOK, Index!OwnerListed, Index!NoHashes

LEMMA IndexPut ==
  ASSUME IndexInv, NEW h \in Hashes, NEW e \in Index!Entry, NEW ow \in Overwrites,
         Index!Put(h, e, ow)
  PROVE  IndexInv'
<1>1. e.id \in Ids
  BY DEF Index!Entry
<1>2. Index!TypeOK'
  BY <1>1 DEF IndexInv, Index!TypeOK, Index!Put
<1>3. ASSUME NEW g \in Hashes, IndexEntries'[g] # None
      PROVE  IndexListed'[IndexEntries'[g].id][g] > 0
  <2>1. CASE g = h
    BY <1>1, <2>1 DEF IndexInv, Index!TypeOK, Index!Put
  <2>2. CASE g # h
    <3>1. IndexEntries'[g] = IndexEntries[g] /\ IndexEntries[g] \in Index!Entry
      BY <1>3, <2>2 DEF IndexInv, Index!TypeOK, Index!Put
    <3>2. IndexEntries[g].id \in Ids /\ IndexListed[IndexEntries[g].id][g] > 0
      BY <1>3, <3>1 DEF IndexInv, Index!OwnerListed, Index!Entry
    <3>3. IndexListed'[IndexEntries[g].id][g] = IndexListed[IndexEntries[g].id][g]
      BY <1>1, <2>2, <3>2 DEF IndexInv, Index!TypeOK, Index!Put
    <3> QED
      BY <3>1, <3>2, <3>3
  <2> QED
    BY <2>1, <2>2
<1> QED
  BY <1>2, <1>3 DEF IndexInv, Index!OwnerListed

LEMMA IndexDeleteHash ==
  ASSUME IndexInv, NEW h \in Hashes, Index!DeleteHash(h)
  PROVE  IndexInv'
<1>1. IndexEntries[h] \in Index!Entry /\ IndexEntries[h].id \in Ids
  BY DEF IndexInv, Index!TypeOK, Index!DeleteHash, Index!Entry
<1>2. Index!TypeOK'
  BY <1>1 DEF IndexInv, Index!TypeOK, Index!DeleteHash
<1>3. ASSUME NEW g \in Hashes, IndexEntries'[g] # None
      PROVE  IndexListed'[IndexEntries'[g].id][g] > 0
  <2>1. g # h /\ IndexEntries'[g] = IndexEntries[g]
    BY <1>3 DEF IndexInv, Index!TypeOK, Index!DeleteHash
  <2>2. IndexEntries[g].id \in Ids /\ IndexListed[IndexEntries[g].id][g] > 0
    BY <1>3, <2>1 DEF IndexInv, Index!TypeOK, Index!OwnerListed, Index!Entry
  <2>3. IndexListed'[IndexEntries[g].id][g] = IndexListed[IndexEntries[g].id][g]
    BY <1>1, <2>1, <2>2 DEF IndexInv, Index!TypeOK, Index!DeleteHash
  <2> QED
    BY <2>1, <2>2, <2>3
<1> QED
  BY <1>2, <1>3 DEF IndexInv, Index!OwnerListed

(* An entry that DeleteId(i) leaves is not one of clip i.                   *)
LEMMA LeftByDeleteId ==
  ASSUME IndexInv, NEW i \in Ids, Index!DeleteId(i), NEW g \in Hashes, IndexEntries'[g] # None
  PROVE  /\ IndexEntries'[g] = IndexEntries[g]
         /\ IndexEntries[g].id \in Ids /\ IndexEntries[g].id # i
         /\ IndexListed[IndexEntries[g].id][g] > 0
<1>1. IndexEntries'[g] = IndexEntries[g] /\ ~(IndexListed[i][g] > 0)
  BY DEF Index!DeleteId
<1> QED
  BY <1>1 DEF IndexInv, Index!TypeOK, Index!OwnerListed, Index!Entry

LEMMA IndexDeleteId ==
  ASSUME IndexInv, NEW i \in Ids, Index!DeleteId(i)
  PROVE  IndexInv'
<1>1. Index!TypeOK'
  BY DEF IndexInv, Index!TypeOK, Index!DeleteId, Index!NoHashes
<1>2. ASSUME NEW g \in Hashes, IndexEntries'[g] # None
      PROVE  IndexListed'[IndexEntries'[g].id][g] > 0
  BY <1>2, LeftByDeleteId DEF IndexInv, Index!TypeOK, Index!DeleteId
<1> QED
  BY <1>1, <1>2 DEF IndexInv, Index!OwnerListed

LEMMA IndexInductive == IndexInv /\ [Index!Next]_(Index!vars) => IndexInv'
<1> SUFFICES ASSUME IndexInv, [Index!Next]_(Index!vars) PROVE IndexInv'
  OBVIOUS
<1>1. ASSUME NEW h \in Hashes, NEW e \in Index!Entry, NEW ow \in Overwrites, Index!Put(h, e, ow)
      PROVE  IndexInv'
  BY <1>1, IndexPut
<1>2. ASSUME NEW h \in Hashes, Index!DeleteHash(h)
      PROVE  IndexInv'
  BY <1>2, IndexDeleteHash
<1>3. ASSUME NEW i \in Ids, Index!DeleteId(i)
      PROVE  IndexInv'
  BY <1>3, IndexDeleteId
<1>4. CASE UNCHANGED <<IndexEntries, IndexListed>>
  BY <1>4 DEF IndexInv, Index!TypeOK, Index!OwnerListed
<1> QED
  BY <1>1, <1>2, <1>3, <1>4
  DEF Index!Next, Index!Get, Index!Count, Index!CountId, Index!Entries, Index!Respond,
      Index!vars

THEOREM IndexInvariance == Index!Spec => []IndexInv
  BY IndexInit, IndexInductive, PTL DEF Index!Spec

(* Every entry of the atomic index is listed under its clip's id.           *)
THEOREM IndexOwnerListed == Index!Spec => []Index!OwnerListed
<1>1. IndexInv => Index!OwnerListed
  BY DEF IndexInv
<1> QED
  BY <1>1, IndexInvariance, PTL

(* DeleteEntry(id) leaves no frame of the clip behind.                      *)
THEOREM IndexForgets == Index!Spec => Index!ClipForgotten
<1>1. ASSUME IndexInv
      PROVE  [\A i \in Ids : Index!DeleteId(i) =>
                 \A h \in Hashes : IndexEntries'[h] # None => IndexEntries'[h].id # i]_(Index!vars)
  BY <1>1, LeftByDeleteId
<1> QED
  BY <1>1, IndexInvariance, PTL DEF Index!Spec, Index!ClipForgotten

-----------------------------------------------------------------------------
(* One client: until the first fault every entry is listed under its clip's *)
(* id, whichever commands of PutHashKeyValue and DeleteEntry have been      *)
(* executed (RedisHashStore.cpp:69-88, 131-210).                            *)
THEOREM StoreOwnerListed == Spec /\ OneClient => []OwnerListed
<1> DEFINE IInv == /\ OneClient /\ Typed /\ Undisturbed /\ DOMAIN out = Clients
                   /\ faults = 0 => IndexInv
<1>1. Init /\ OneClient => IInv
  <2> SUFFICES ASSUME Init, OneClient PROVE IInv
    OBVIOUS
  <2>1. DOMAIN out = Clients
    BY DEF Init
  <2>2. Typed /\ Index!Init
    BY InitTyped, InitIndex
  <2>3. Index!OwnerListed
    BY <2>2 DEF Index!Init, Index!OwnerListed
  <2>4. IndexInv
    BY <2>2, <2>3, ImageTyped DEF IndexInv
  <2>5. QED  BY <2>1, <2>2, <2>4, InitUndisturbed
<1>2. IInv /\ [Next]_vars => IInv'
  <2> SUFFICES ASSUME IInv, [Next]_vars PROVE IInv'
    OBVIOUS
  <2>1. Typed' /\ (OneClient' <=> OneClient)
    BY NextTyped DEF OneClient
  <2>2. Undisturbed' /\ DOMAIN out' = Clients
    BY <2>1, UndisturbedStep, AnswersKept
  <2>3. ASSUME Next, faults' = 0
        PROVE  IndexInv'
    <3>1. IndexInv
      BY <2>3, NoFault
    <3>2. Index!Next \/ UNCHANGED Index!vars
      BY <2>1, <2>3, IndexStep
    <3>3. QED  BY <3>1, <3>2, IndexInductive
  <2>4. ASSUME UNCHANGED vars, faults' = 0
        PROVE  IndexInv'
    <3>1. IndexInv /\ UNCHANGED <<ent, lst, at, arg, rdr, sock, out>>
      BY <2>4 DEF vars
    <3>2. IndexEntries' = IndexEntries /\ IndexListed' = IndexListed
      BY <3>1 DEF IndexEntries, IndexListed, PutHalfDone, HashHalfDeleted, IdHalfDeleted, Answers
    <3>3. UNCHANGED Index!vars
      BY <3>1, <3>2 DEF Index!vars
    <3>4. QED  BY <3>1, <3>3, IndexInductive
  <2>5. QED  BY <2>1, <2>2, <2>3, <2>4
<1>3. IInv => OwnerListed
  BY DEF OwnerListed, IndexInv
<1>4. QED  BY <1>1, <1>2, <1>3, PTL DEF Spec
=============================================================================
