---------------------------- MODULE AsyncContext ----------------------------
(* The asynchronous side of hiredis (hiredis/async.c) under the libev loop  *)
(* of adapters/libev.h: one thread, in which the loop calls the handlers    *)
(* for a readable and a writable socket, these call the callbacks of the    *)
(* replies that came, and a callback may call the context again.            *)
(*                                                                          *)
(* A command is known by its number, the order in which it was accepted;    *)
(* so is its callback.  Wild stands for a callback structure nothing was    *)
(* written to.  Bytes are whole commands and replies: of a reply of which   *)
(* only a part has come, none has.                                          *)
EXTENDS Dict, Sequences

CONSTANTS
    Scripts,      \* sequences of commands a program may issue
    None,         \* no name: UNSUBSCRIBE of all
    MaxPushes,    \* bound: messages and monitor lines
    MaxPending    \* bound: list of callbacks while monitoring

(* kind tells what __redisAsyncCommand tells apart; pv is pvariant; fn says  *)
(* whether there is a callback.                                             *)
Call ==
    [kind : {"command", "monitor"}, pv : {FALSE}, name : {None}, fn : BOOLEAN]
    \cup [kind : {"subscribe"}, pv : BOOLEAN, name : Keys, fn : BOOLEAN]
    \cup [kind : {"unsubscribe"}, pv : BOOLEAN, name : Keys \cup {None}, fn : BOOLEAN]

ASSUME AsyncAssumption ==
    /\ None \notin Keys
    /\ Scripts \subseteq Seq(Call)
    /\ MaxPushes \in Nat /\ MaxPending \in Nat

VARIABLES
    mode,      \* where the thread is
    flags,     \* of c->flags
    err,       \* c->err is set
    replies,   \* callbacks of commands not answered
    invalid,   \* sub.invalid
    subs,      \* sub.patterns (TRUE) and sub.channels (FALSE)
    cb,        \* the local of redisProcessCallbacks
    obuf,      \* commands not written
    rdr,       \* replies read and not processed
    reading, writing,  \* the watchers of libev that are started
    sock,      \* replies the server sent and nobody read
    ssub,      \* subscriptions at the server
    smon,      \* the server sends monitor lines
    down,      \* the server closed, or the connection is lost
    pushes,    \* messages and lines sent so far
    cmds,      \* the commands accepted
    got,       \* got[n]: what the callback of command n was called with
    asked,     \* the program called redisAsyncDisconnect or redisAsyncFree
    misuse,    \* commands issued that the context cannot follow
    status     \* what onDisconnect was called with

context == <<flags, err, replies, invalid, subs, cb>>
events == <<reading, writing>>
server == <<sock, ssub, smon, down, pushes>>
history == <<cmds, got, asked, misuse, status>>
vars == <<mode, context, obuf, rdr, events, server, history>>

Wild == 0
NULL == -1

Flag(f) == f \in flags

(* redisAsyncConnect returned a context without an error; a connect         *)
(* callback may have been set, which asks for a write event.                *)
Init ==
    /\ mode = "loop"
    /\ flags = {} /\ err = FALSE
    /\ replies = <<>> /\ invalid = <<>>
    /\ subs = [pv \in BOOLEAN |-> EmptyDict]
    /\ cb = Wild
    /\ obuf = <<>> /\ rdr = <<>>
    /\ reading = FALSE /\ writing \in BOOLEAN
    /\ sock = <<>> /\ ssub = {} /\ smon = FALSE /\ down = FALSE /\ pushes = 0
    /\ cmds = <<>> /\ got = <<>>
    /\ asked = FALSE /\ misuse = {} /\ status = "none"

-----------------------------------------------------------------------------
(* The server, as the comments of async.c and the published protocol        *)
(* describe it.  Every reply carries the command it answers, which the code *)
(* does not see.                                                            *)
Reply(type, n) == [type |-> type, verb |-> "", pv |-> FALSE, name |-> None, count |-> 0, to |-> n]

Array(verb, pv, name, count, n) ==
    [type |-> "array", verb |-> verb, pv |-> pv, name |-> name, count |-> count, to |-> n]

Sends(s) == sock' = sock \o s

(* One message for each subscription that goes, in some order. *)
Unsubscribes(n, gone) ==
    LET m == cmds[n]
        total == Cardinality(ssub)
    IN /\ ssub' = ssub \ gone
       /\ IF gone = {}
          THEN Sends(<<Array("unsubscribe", m.pv, m.name, total, n)>>)
          ELSE \E f \in [1 .. Cardinality(gone) -> gone] :
                 /\ \A k \in gone : \E i \in DOMAIN f : f[i] = k
                 /\ Sends([i \in DOMAIN f |-> Array("unsubscribe", m.pv, f[i][2], total - i, n)])

(* A server that is subscribed to refuses all but (P)(UN)SUBSCRIBE. *)
Executes(n) ==
    LET m == cmds[n]
        key == <<m.pv, m.name>>
    IN CASE m.kind = "subscribe" ->
              /\ ssub' = ssub \cup {key}
              /\ Sends(<<Array("subscribe", m.pv, m.name, Cardinality(ssub'), n)>>)
              /\ UNCHANGED smon
         [] m.kind = "unsubscribe" ->
              /\ Unsubscribes(n, {k \in ssub : k = key \/ (m.name = None /\ k[1] = m.pv)})
              /\ UNCHANGED smon
         [] m.kind \in {"command", "monitor"} /\ ssub # {} ->
              /\ Sends(<<Reply("error", n)>>)
              /\ UNCHANGED <<ssub, smon>>
         [] m.kind = "monitor" /\ ssub = {} ->
              /\ smon' = TRUE
              /\ Sends(<<Reply("status", n)>>)
              /\ UNCHANGED ssub
         [] m.kind = "command" /\ ssub = {} ->
              /\ \E type \in {"status", "error"} : Sends(<<Reply(type, n)>>)
              /\ UNCHANGED <<ssub, smon>>

(* What the server sends of itself, while there is a context to read it. *)
Live == mode \in {"loop", "process", "callback"} /\ ~down

Pushes(reply) ==
    /\ Live
    /\ pushes < MaxPushes
    /\ Sends(<<reply>>)
    /\ pushes' = pushes + 1
    /\ UNCHANGED <<mode, context, obuf, rdr, events, ssub, smon, down, history>>

Publish == \E k \in ssub : Pushes(Array("message", k[1], k[2], 0, 0))
MonitorLine == smon /\ Pushes(Reply("status", 0))

(* Too many connections: an error, and the end of the connection. *)
Rejects ==
    /\ Live
    /\ ~reading   \* nothing has been written yet
    /\ Sends(<<Reply("error", 0)>>)
    /\ down' = TRUE
    /\ UNCHANGED <<mode, context, obuf, rdr, events, ssub, smon, pushes, history>>

(* The connection is closed or lost.  What was sent is still read: had it   *)
(* been lost too, it would be as if the connection had gone before.         *)
LoseConnection ==
    /\ Live
    /\ down' = TRUE
    /\ UNCHANGED <<mode, context, obuf, rdr, events, sock, ssub, smon, pushes, history>>

-----------------------------------------------------------------------------
(* The program calls the context from the loop or from a callback.          *)
MayCall == mode \in {"loop", "callback"}

(* An answer to command n is still to come, or to be processed. *)
Awaited(n) ==
    \/ \E i \in DOMAIN obuf : obuf[i] = n
    \/ \E i \in DOMAIN rdr : rdr[i].to = n
    \/ \E i \in DOMAIN sock : sock[i].to = n

(* Subscriptions an UNSUBSCRIBE is about, in the table of the context. *)
Names(c) == {e.key : e \in Entries(subs[c.pv])} \cap (IF c.name = None THEN Keys ELSE {c.name})

Overtakes == \E n \in DOMAIN cmds : cmds[n].kind = "unsubscribe" /\ Awaited(n)

MisuseOf(c) ==
    {m \in {"overtaking", "unknown"} :
        IF m = "overtaking" THEN Overtakes ELSE c.kind = "unsubscribe" /\ Names(c) = {}}

(* __redisAsyncCommand, but for what each kind of command does. *)
Accept(c) ==
    /\ MayCall
    /\ flags \cap {"disconnecting", "freeing"} = {}
    /\ cmds' = Append(cmds, c)
    /\ got' = Append(got, <<>>)
    /\ misuse' = misuse \cup MisuseOf(c)
    /\ obuf' = Append(obuf, Len(cmds'))
    /\ writing' = TRUE
    /\ UNCHANGED <<mode, err, cb, rdr, reading, server, asked, status>>

(* Mutant: the new callback goes to the head of the list. *)
PushFirst(list) == <<Len(cmds')>> \o list

Push(list) == Append(list, Len(cmds'))

Command(c) ==
    /\ c.kind = "command"
    /\ Accept(c)
    /\ IF Flag("subscribed")
       THEN invalid' = Push(invalid) /\ UNCHANGED replies
       ELSE replies' = Push(replies) /\ UNCHANGED invalid
    /\ UNCHANGED <<flags, subs>>

(* Several names in one SUBSCRIBE are as many turns of the loop of          *)
(* async.c:590-596, as if each had come in a command of its own.            *)
Subscribe(c) ==
    /\ c.kind = "subscribe"
    /\ Accept(c)
    /\ flags' = flags \cup {"subscribed"}
    /\ subs' = [subs EXCEPT ![c.pv] = Replace(@, c.name, Len(cmds'))]
    /\ UNCHANGED <<replies, invalid>>

Unsubscribe(c) ==
    /\ c.kind = "unsubscribe"
    /\ Flag("subscribed")
    /\ Accept(c)
    /\ UNCHANGED <<flags, replies, invalid, subs>>

Monitor(c) ==
    /\ c.kind = "monitor"
    /\ Accept(c)
    /\ flags' = flags \cup {"monitoring"}
    /\ replies' = Push(replies)
    /\ UNCHANGED <<invalid, subs>>

Issue ==
    \E s \in Scripts :
        LET n == Len(cmds)
            c == s[n + 1]
        IN /\ n < Len(s) /\ SubSeq(s, 1, n) = cmds
           /\ Command(c) \/ Subscribe(c) \/ Unsubscribe(c) \/ Monitor(c)

(* __redisAsyncDisconnect with and without an error.  The assertion of      *)
(* async.c:320 ends the program.                                            *)
(* Mutant: without the assertion. *)
CleanUnchecked == mode' = "teardown"

CleanDisconnect == mode' = IF replies = <<>> THEN "teardown" ELSE "aborted"

DisconnectOnError ==   \* in an event handler, connected by then
    /\ mode' = "teardown"
    /\ err' = TRUE
    /\ flags' = flags \cup {"connected", "disconnecting"}

Disconnect ==
    /\ MayCall
    /\ asked' = TRUE
    /\ flags' = flags \cup {"disconnecting"}
    /\ UNCHANGED replies
    /\ IF mode = "loop" /\ replies = <<>> THEN CleanDisconnect ELSE UNCHANGED mode
    /\ UNCHANGED <<err, invalid, subs, cb, obuf, rdr, events, server, cmds, got, misuse, status>>

(* In a callback the flag is for redisProcessCallbacks to see. *)
Free ==
    /\ MayCall
    /\ asked' = TRUE
    /\ flags' = flags \cup {"freeing"}
    /\ IF mode = "loop" THEN mode' = "teardown" ELSE UNCHANGED mode
    /\ UNCHANGED <<err, replies, invalid, subs, cb, obuf, rdr, events, server,
                   cmds, got, misuse, status>>

-----------------------------------------------------------------------------
(* The write event.  The first one finds out whether connect(2) succeeded.  *)
ConnectFails ==
    /\ mode = "loop" /\ writing /\ ~Flag("connected")
    /\ mode' = "teardown"
    /\ err' = TRUE
    /\ flags' = flags \cup {"disconnecting"}
    /\ UNCHANGED <<replies, invalid, subs, cb, obuf, rdr, reading, writing, server, history>>

(* One event may write nothing or several commands; several are as many     *)
(* events, since a partial write leaves the watcher started.  The server    *)
(* executes a command when it is written: what it sends in answer is read   *)
(* at any later time.                                                       *)
WriteEvent == mode = "loop" /\ writing /\ flags' = flags \cup {"connected"}

(* Mutant: stop writing whatever is left. *)
NotRescheduled ==
    /\ writing' = FALSE
    /\ reading' = TRUE

Rescheduled ==
    /\ writing' = (obuf' # <<>>)
    /\ reading' = TRUE

HandleWrite ==
    /\ WriteEvent
    /\ obuf # <<>>
    /\ obuf' = Tail(obuf)
    /\ IF down THEN UNCHANGED <<sock, ssub, smon>> ELSE Executes(Head(obuf))
    /\ Rescheduled
    /\ UNCHANGED <<mode, err, replies, invalid, subs, cb, rdr, down, pushes, history>>

HandleWriteNone ==
    /\ WriteEvent
    /\ UNCHANGED obuf
    /\ Rescheduled
    /\ UNCHANGED <<mode, err, replies, invalid, subs, cb, rdr, server, history>>

WriteFails ==
    /\ mode = "loop" /\ writing
    /\ down /\ obuf # <<>>
    /\ DisconnectOnError
    /\ UNCHANGED <<replies, invalid, subs, cb, obuf, rdr, events, server, history>>

(* The read event feeds the reader n whole replies, none when only a part   *)
(* of one has come.  Reads are scheduled by a write event, after which the  *)
(* context is connected.                                                    *)
ReadEvent == mode = "loop" /\ reading

HandleRead ==
    /\ ReadEvent
    /\ sock # <<>>
    /\ Flag("monitoring") => Len(replies) < MaxPending
    /\ \E n \in 0 .. Len(sock) :
         /\ rdr' = SubSeq(sock, 1, n)
         /\ sock' = SubSeq(sock, n + 1, Len(sock))
    /\ reading' = TRUE
    /\ cb' = Wild
    /\ mode' = "process"
    /\ UNCHANGED <<flags, err, replies, invalid, subs, obuf, writing,
                   ssub, smon, down, pushes, history>>

(* Mutant: the end of the stream is taken for nothing to read. *)
ReadGivesUp ==
    /\ ReadEvent
    /\ down /\ sock = <<>>
    /\ UNCHANGED vars

ReadFails ==
    /\ ReadEvent
    /\ down /\ sock = <<>>
    /\ DisconnectOnError
    /\ UNCHANGED <<replies, invalid, subs, cb, obuf, rdr, events, server, history>>

-----------------------------------------------------------------------------
(* redisProcessCallbacks, one turn of its loop for each action.             *)
Processing == mode = "process" /\ rdr # <<>>

(* redisGetReply finds the reader in error, or out of memory. *)
GetReplyFails ==
    /\ mode = "process"
    /\ DisconnectOnError
    /\ UNCHANGED <<replies, invalid, subs, cb, obuf, rdr, events, server, history>>

(* Mutant: nothing makes the deferred disconnect happen. *)
NoCue ==
    /\ mode = "process" /\ rdr = <<>>
    /\ mode' = "loop"
    /\ replies' = IF Flag("monitoring") THEN Append(replies, cb) ELSE replies
    /\ UNCHANGED <<flags, err, invalid, subs, cb, obuf, rdr, events, server, history>>

(* It finds no more replies. *)
NoMoreReplies ==
    /\ mode = "process" /\ rdr = <<>>
    /\ IF Flag("disconnecting") /\ obuf = <<>>
       THEN CleanDisconnect /\ UNCHANGED replies
       ELSE /\ mode' = "loop"
            /\ replies' = IF Flag("monitoring") THEN Append(replies, cb) ELSE replies
    /\ UNCHANGED <<flags, err, invalid, subs, cb, obuf, rdr, events, server, history>>

(* __redisRunCallback with the reply in hand: a callback is called with     *)
(* what the reply is to, a command or (0) a subscription.                   *)
Given(n, what) == got' = [got EXCEPT ![n] = Append(@, what)]

Run(n, fl) ==
    /\ cb' = n
    /\ rdr' = Tail(rdr)
    /\ IF cmds[n].fn
       THEN /\ Given(n, Head(rdr).to)
            /\ mode' = "callback"
            /\ flags' = fl \cup {"in_callback"}
       ELSE /\ flags' = fl
            /\ UNCHANGED <<mode, got>>
    /\ UNCHANGED <<err, obuf, events, server, cmds, asked, misuse, status>>

(* Mutant: the callback stays in the list. *)
ReplyToFirst ==
    /\ Processing
    /\ replies # <<>> /\ Head(replies) # Wild
    /\ Run(Head(replies), flags)
    /\ UNCHANGED <<replies, invalid, subs>>

(* The callback at the head of the list is the reply's. *)
ReplyToCommand ==
    /\ Processing
    /\ replies # <<>> /\ Head(replies) # Wild
    /\ Run(Head(replies), flags)
    /\ replies' = Tail(replies)
    /\ UNCHANGED <<invalid, subs>>

(* Nobody waits for it: an error is the server's last word. *)
SpontaneousError ==
    /\ Processing
    /\ replies = <<>>
    /\ Head(rdr).type = "error"
    /\ DisconnectOnError
    /\ UNCHANGED <<replies, invalid, subs, cb, obuf, rdr, events, server, history>>

Unasked == Processing /\ replies = <<>> /\ Head(rdr).type # "error"

(* The assertions of async.c:442 and 367 hold. *)
Expected ==
    \/ Flag("subscribed") /\ (Head(rdr).type = "array" => Head(rdr).name # None)
    \/ ~Flag("subscribed") /\ Flag("monitoring")

Spontaneous == Unasked /\ Expected

Unexpected ==
    /\ Unasked
    /\ ~Expected
    /\ mode' = "aborted"
    /\ UNCHANGED <<context, obuf, rdr, events, server, history>>

(* Mutant: the subscribed state ends with any unsubscribe message. *)
AnyIsLast ==
    LET r == Head(rdr)
        gone == r.verb = "unsubscribe"
    IN /\ Spontaneous
       /\ Flag("subscribed") /\ r.type = "array"
       /\ Found(subs[r.pv], r.name)
       /\ Run(Find(subs[r.pv], r.name), IF gone THEN flags \ {"subscribed"} ELSE flags)
       /\ subs' = IF gone THEN [subs EXCEPT ![r.pv] = Delete(@, r.name)] ELSE subs
       /\ UNCHANGED <<replies, invalid>>

(* __redisGetSubscribeCallback: the callback of the channel.  The message   *)
(* that it is unsubscribed takes it from the table, and the last such       *)
(* message ends the subscribed state.                                       *)
ReplyToSubscription ==
    LET r == Head(rdr)
        last == r.verb = "unsubscribe" /\ r.count = 0
    IN /\ Spontaneous
       /\ Flag("subscribed") /\ r.type = "array"
       /\ Found(subs[r.pv], r.name)
       /\ Run(Find(subs[r.pv], r.name), IF last THEN flags \ {"subscribed"} ELSE flags)
       /\ subs' = IF r.verb = "unsubscribe"
                  THEN [subs EXCEPT ![r.pv] = Delete(@, r.name)]
                  ELSE subs
       /\ UNCHANGED <<replies, invalid>>

(* A channel that has no callback, a reply while monitoring, or one to an   *)
(* invalid command of which no callback is left: cb is what the turn before *)
(* left in it.                                                              *)
Stale ==
    LET r == Head(rdr)
    IN IF Flag("subscribed")
       THEN IF r.type = "array" THEN ~Found(subs[r.pv], r.name) ELSE invalid = <<>>
       ELSE Flag("monitoring")

ReplyToNobody ==
    /\ Spontaneous
    /\ Stale /\ cb # Wild
    /\ Run(cb, flags)
    /\ UNCHANGED <<replies, invalid, subs>>

(* A callback structure that nothing was written to: it may do anything.    *)
RunWild ==
    /\ \/ Processing /\ replies # <<>> /\ Head(replies) = Wild
       \/ Spontaneous /\ Stale /\ cb = Wild
       \/ mode = "teardown" /\ replies # <<>> /\ Head(replies) = Wild
    /\ mode' = "undefined"
    /\ UNCHANGED <<context, obuf, rdr, events, server, history>>

ReplyToInvalid ==
    /\ Spontaneous
    /\ Flag("subscribed") /\ Head(rdr).type = "status"
    /\ invalid # <<>>
    /\ Run(Head(invalid), flags)
    /\ invalid' = Tail(invalid)
    /\ UNCHANGED <<replies, subs>>

(* Mutant: the context stays in its callback. *)
ReturnInside ==
    /\ mode = "callback"
    /\ mode' = IF Flag("freeing") THEN "teardown" ELSE "process"
    /\ UNCHANGED <<context, obuf, rdr, events, server, history>>

(* The callback returns. *)
Return ==
    /\ mode = "callback"
    /\ flags' = flags \ {"in_callback"}
    /\ mode' = IF Flag("freeing") THEN "teardown" ELSE "process"
    /\ UNCHANGED <<err, replies, invalid, subs, cb, obuf, rdr, events, server, history>>

-----------------------------------------------------------------------------
(* __redisAsyncFree calls what is left with a NULL reply.  No command is    *)
(* accepted any more, but a callback may still call redisAsyncFree.         *)
Gone(fl) ==
    /\ flags' = flags \cup fl
    /\ asked' = (asked \/ fl # {})
    /\ UNCHANGED <<err, cb, obuf, rdr, events, server, cmds, misuse, status>>

Bereave(n) ==
    /\ UNCHANGED mode
    /\ IF cmds[n].fn
       THEN Given(n, NULL) /\ \E fl \in {{}, {"freeing"}} : Gone(fl)
       ELSE UNCHANGED got /\ Gone({})

FreeReply ==
    /\ mode = "teardown"
    /\ replies # <<>> /\ Head(replies) # Wild
    /\ Bereave(Head(replies))
    /\ replies' = Tail(replies)
    /\ UNCHANGED <<invalid, subs>>

FreeInvalid ==
    /\ mode = "teardown"
    /\ replies = <<>> /\ invalid # <<>>
    /\ Bereave(Head(invalid))
    /\ invalid' = Tail(invalid)
    /\ UNCHANGED <<replies, subs>>

(* The iterators over the two tables, which are then released. *)
Subscribed == {e.val : e \in Entries(subs[TRUE]) \cup Entries(subs[FALSE])}

FreeSubscriptions ==
    /\ mode = "teardown"
    /\ replies = <<>> /\ invalid = <<>> /\ Subscribed # {}
    /\ got' = [n \in DOMAIN got |-> IF n \in Subscribed /\ cmds[n].fn
                                     THEN Append(got[n], NULL) ELSE got[n]]
    /\ subs' = [pv \in BOOLEAN |-> EmptyDict]
    /\ \E fl \in {{}, {"freeing"}} : Gone(fl)
    /\ UNCHANGED <<mode, replies, invalid>>

(* The event library lets go, the disconnect callback is called if there    *)
(* was a connection, and redisFree closes the descriptor.                   *)
Finish ==
    /\ mode = "teardown"
    /\ replies = <<>> /\ invalid = <<>> /\ Subscribed = {}
    /\ mode' = "freed"
    /\ reading' = FALSE /\ writing' = FALSE
    /\ status' = IF ~Flag("connected") THEN "none"
                 ELSE IF Flag("freeing") \/ ~err THEN "ok" ELSE "error"
    /\ UNCHANGED <<context, obuf, rdr, server, cmds, got, asked, misuse>>

Environment == Publish \/ MonitorLine \/ Rejects \/ LoseConnection

Program == Issue \/ Disconnect \/ Free

Write == HandleWrite \/ HandleWriteNone \/ WriteFails \/ ConnectFails

Process ==
    \/ ReplyToCommand \/ SpontaneousError \/ Unexpected
    \/ ReplyToSubscription \/ ReplyToInvalid \/ ReplyToNobody \/ RunWild
    \/ NoMoreReplies \/ Return

TearDown == FreeReply \/ FreeInvalid \/ FreeSubscriptions \/ Finish

Next ==
    \/ Environment \/ Program
    \/ Write \/ HandleRead \/ ReadFails
    \/ Process \/ GetReplyFails
    \/ TearDown

Spec == Init /\ [][Next]_vars

(* The loop polls both watchers, replies come whole in the end, the thread  *)
(* runs on and callbacks return.  Nothing makes the program call, the       *)
(* server push, or the connection fail.                                     *)
FairSpec ==
    /\ Spec
    /\ WF_vars(Process) /\ WF_vars(TearDown)
    /\ SF_vars(HandleWrite) /\ SF_vars(HandleRead /\ rdr' # <<>>)
    /\ WF_vars(ReadFails)
=============================================================================
