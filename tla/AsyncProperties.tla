-------------------------- MODULE AsyncProperties --------------------------
(* What the asynchronous context promises a program (hiredis/README.md,     *)
(* "Asynchronous API"), and to which programs.                              *)
EXTENDS AsyncContext

Numbers == 1 .. Len(cmds)

TypeOK ==
    /\ mode \in {"loop", "process", "callback", "teardown", "freed", "aborted", "undefined"}
    /\ flags \subseteq {"connected", "disconnecting", "freeing", "in_callback",
                        "subscribed", "monitoring"}
    /\ err \in BOOLEAN
    /\ replies \in Seq(Numbers \cup {Wild})
    /\ invalid \in Seq(Numbers)
    /\ cb \in Numbers \cup {Wild}
    /\ obuf \in Seq(Numbers)
    /\ reading \in BOOLEAN /\ writing \in BOOLEAN
    /\ cmds \in Seq(Call)
    /\ DOMAIN got = Numbers
    /\ mode = "callback" <=> Flag("in_callback")
    /\ mode = "loop" => rdr = <<>>

(* The programs the context can follow: they do not monitor, issue nothing  *)
(* while an UNSUBSCRIBE is unanswered, and unsubscribe what they subscribed *)
(* to.                                                                      *)
Orderly == misuse = {} /\ ~Flag("monitoring")

(* The end of the program, in an assertion or on a wild callback. *)
Crashed == mode \in {"aborted", "undefined"}

(* The callbacks of commands that have one reply. *)
Plain == {n \in Numbers : cmds[n].kind = "command" /\ cmds[n].fn}

(* Whatever the connection, the server and the program do, and wherever in  *)
(* the loop the context is freed: the callback of a command is called once, *)
(* never before that and never again (async.c:207-253, 262-281).            *)
CalledOnce ==
    Orderly => /\ \A n \in Plain : Len(got[n]) <= 1
               /\ mode = "freed" => \A n \in Plain : Len(got[n]) = 1

(* It is called with the reply to its own command, with NULL when the       *)
(* context goes, or with the error by which the server refuses the          *)
(* connection (0): replies are matched by their order alone, over two lists *)
(* and two tables (async.c:417-450).                                        *)
OwnReply ==
    Orderly => \A n \in Plain : got[n] # <<>> => Head(got[n]) \in {n, NULL, 0}

(* A clean disconnect has waited for every reply (README.md:301-306), to    *)
(* commands that were not issued to a subscribed server.                    *)
BeforeSubscribing == {n \in Plain : \A m \in 1 .. n : cmds[m].kind = "command"}

CleanIsAnswered ==
    Orderly /\ status = "ok" /\ ~Flag("freeing") =>
        \A n \in BeforeSubscribing : got[n] \in {<<n>>, <<0>>}

(* The assertions hold and no callback structure is used that nothing was   *)
(* written to (async.c:320, 367, 442, 447), but for programs that are not   *)
(* orderly, and for redisAsyncDisconnect with replies outstanding: the      *)
(* first read that does not bring them all fails the assertion of line 320. *)
SafeUse ==
    /\ mode = "aborted" => ~Orderly \/ (asked /\ replies # <<>>)
    /\ mode = "undefined" => ~Orderly

(* Between two events the watchers are started for whatever there is to do: *)
(* a command written, or a reply read, waits for nothing but the loop       *)
(* (async.c:193, 510-511, 531-539, 620-621).                                *)
WatchersStarted ==
    mode = "loop" => /\ obuf # <<>> => writing
                     /\ Flag("connected") => reading

(* After any sequence of additions, expansions and deletions dictFind finds *)
(* exactly the entries that are there, and used counts them: dictExpand     *)
(* copies until used is 0 (dict.c:88-132, 243-256).                         *)
TablesFind ==
    \A pv \in BOOLEAN :
        /\ subs[pv].used = Cardinality(Entries(subs[pv]))
        /\ \A e \in Entries(subs[pv]) : Matches(subs[pv], e.key) = {e}

(* What comes for a channel or pattern goes to the callback of the latest   *)
(* SUBSCRIBE to it, also while that one is still unanswered                 *)
(* (async.c:590-596, 369-371).                                              *)
Latest(r) ==
    LET of == {n \in Numbers : /\ cmds[n].kind = "subscribe"
                               /\ cmds[n].pv = r.pv /\ cmds[n].name = r.name}
    IN CHOOSE n \in of : \A m \in of : m <= n

LatestHears ==
    [][Orderly /\ mode = "process" /\ rdr # <<>> =>
         LET n == Latest(Head(rdr))
         IN \/ rdr' = rdr
            \/ Head(rdr).type = "array" =>
                 got' = IF cmds[n].fn
                        THEN [got EXCEPT ![n] = Append(@, Head(rdr).to)]
                        ELSE got]_<<mode, rdr>>

(* However often the program calls, a moment comes again when every command *)
(* has been answered, with its reply or with NULL: nothing stays in a       *)
(* buffer or a list with no event to come (async.c:510-511, 531-539).  Two  *)
(* cases are excused: a program that has ended in an assertion, which also  *)
(* an orderly one does that disconnects with replies outstanding (line      *)
(* 320), or on a wild callback; and while monitoring, when the bound on the *)
(* list of callbacks stops the reading.                                     *)
Answered ==
    []<>(Crashed \/ Flag("monitoring") \/ \A n \in Plain : got[n] # <<>>)

(* A disconnect that was asked for ends the context, also when it is        *)
(* deferred by a callback or by pending replies (async.c:332-343, 399-405): *)
(* none is forgotten.  Two ends are not the one README.md:301-306 promises: *)
(* that of a program that is not orderly, and the assertion of line 320,    *)
(* which fails at the first read that does not bring all replies            *)
(* outstanding.                                                             *)
DisconnectEnds ==
    asked /\ ~Flag("monitoring") ~>
        \/ mode = "freed"
        \/ Crashed /\ ~Orderly
        \/ mode = "aborted" /\ replies # <<>>
=============================================================================
