------------------------------ MODULE Connect ------------------------------
(* How hiredis gets and gives back the socket of a context (net.c, and the  *)
(* redisConnect* and redisFree of hiredis.c): one context, from its         *)
(* creation to redisFree, over every way a system call can fail.            *)
(*                                                                          *)
(* The system gives a new socket the lowest free number, so that every      *)
(* attempt gets the same one: 0 in a process that closed its standard input *)
(* or, for any other, 3.                                                    *)
EXTENDS Integers

CONSTANT MaxAddresses   \* bound: addresses a name resolves to

ASSUME ConnectAssumption == MaxAddresses \in Nat

VARIABLES
    unix, blocking,   \* redisConnectUnix*, REDIS_BLOCK
    timeout,          \* "none", "valid" or "invalid"
    number,           \* the number the system gives
    at,               \* the call in hand
    addresses,        \* addresses not tried
    inprogress,       \* errno of connect(2) is EINPROGRESS
    nonblock,         \* O_NONBLOCK of the socket
    opened, closed,   \* sockets obtained, close(2) calls
    cfd, connected,   \* c->fd, REDIS_CONNECTED
    err               \* c->err is set

config == <<unix, blocking, timeout, number>>
socket == <<opened, closed>>
context == <<cfd, connected, err>>
vars == <<config, at, addresses, inprogress, nonblock, socket, context>>

(* redisConnect, redisConnectWithTimeout, redisConnectNonBlock, and the     *)
(* same three for a path: redisContextInit and the flags.                   *)
Init ==
    /\ unix \in BOOLEAN /\ blocking \in BOOLEAN
    /\ timeout \in IF blocking THEN {"none", "valid", "invalid"} ELSE {"none"}
    /\ number \in {0, 3}
    /\ at = IF unix THEN "socket" ELSE "getaddrinfo"
    /\ addresses = 0
    /\ inprogress = FALSE /\ nonblock = FALSE
    /\ opened = 0 /\ closed = 0
    /\ cfd = 0 /\ connected = FALSE /\ err = FALSE

Goto(label) == at' = label

(* __redisSetError, and the end of the attempts: with or without closing    *)
(* the socket in hand.                                                      *)
Fails(close) ==
    /\ Goto("failed")
    /\ err' = TRUE
    /\ closed' = closed + close
    /\ UNCHANGED <<config, addresses, inprogress, nonblock, opened, cfd, connected>>

Goes(label) ==
    /\ Goto(label)
    /\ UNCHANGED <<config, addresses, inprogress, socket, context>>

-----------------------------------------------------------------------------
(* getaddrinfo for IPv4, then for IPv6. *)
Resolve ==
    /\ at = "getaddrinfo"
    /\ \/ Fails(0)
       \/ /\ Goto("socket")
          /\ addresses' \in 1 .. MaxAddresses
          /\ UNCHANGED <<config, inprogress, nonblock, socket, context>>

(* Mutant: redisCreateSocket for every address, which sets the error. *)
NoSocketError ==
    /\ at = "socket"
    /\ IF unix
       THEN Fails(0)
       ELSE /\ addresses > 0
            /\ addresses' = addresses - 1
            /\ err' = TRUE
            /\ UNCHANGED <<config, at, inprogress, nonblock, socket, cfd, connected>>

(* The next address: those without a socket, or that cannot be reached, are *)
(* passed over.                                                             *)
OpenSocket ==
    /\ at = "socket"
    /\ unix \/ addresses > 0
    /\ Goto("nonblock")
    /\ opened' = opened + 1
    /\ nonblock' = FALSE
    /\ addresses' = IF unix THEN 0 ELSE addresses - 1
    /\ UNCHANGED <<config, inprogress, closed, context>>

NoSocket ==
    /\ at = "socket"
    /\ IF unix
       THEN Fails(0)
       ELSE /\ addresses > 0
            /\ addresses' = addresses - 1
            /\ UNCHANGED <<config, at, inprogress, nonblock, socket, context>>

OutOfAddresses ==
    /\ at = "socket" /\ ~unix /\ addresses = 0
    /\ Fails(0)

(* redisSetBlocking closes the socket when fcntl fails. *)
SetNonBlocking ==
    /\ at = "nonblock"
    /\ \/ Goes("connect") /\ nonblock' = TRUE
       \/ Fails(1)

(* Mutant: the socket that reached nobody is left open. *)
UnreachableOpen ==
    /\ at = "connect" /\ ~unix
    /\ Goto("socket")
    /\ UNCHANGED <<config, addresses, inprogress, nonblock, socket, context>>

Unreachable ==
    /\ at = "connect" /\ ~unix
    /\ Goto("socket")
    /\ closed' = closed + 1
    /\ UNCHANGED <<config, addresses, inprogress, nonblock, opened, context>>

(* connect(2) succeeds, goes on in the background, or fails otherwise. *)
ConnectSocket ==
    /\ at = "connect"
    /\ \/ Goes("restore") /\ UNCHANGED nonblock
       \/ \E ip \in BOOLEAN :
            /\ inprogress' = ip
            /\ Goto(IF ip /\ ~blocking THEN "restore" ELSE "wait")
            /\ UNCHANGED <<config, addresses, nonblock, socket, context>>

(* redisContextWaitReady. *)
Pollable == at = "wait" /\ timeout # "invalid" /\ inprogress

RefusesToWait ==
    /\ at = "wait" /\ ~Pollable
    /\ Fails(1)

PollEnds ==
    /\ Pollable
    /\ Goes("check") /\ UNCHANGED nonblock

(* Mutant: poll(2) is not given the timeout. *)
PollForEver ==
    /\ Pollable /\ timeout = "none"
    /\ Fails(1)

PollFails ==
    /\ Pollable
    /\ Fails(1)

(* redisCheckSocketError. *)
CheckSocketError ==
    /\ at = "check"
    /\ \/ Goes("restore") /\ UNCHANGED nonblock
       \/ Fails(1)

(* Mutant: the socket is left non-blocking. *)
NotRestored ==
    /\ at = "restore"
    /\ Goes("nodelay")
    /\ UNCHANGED nonblock

Restore ==
    /\ at = "restore"
    /\ \/ Goes("nodelay") /\ nonblock' = ~blocking
       \/ blocking /\ Fails(1)

(* TCP_NODELAY, and the context has its socket. *)
SetTcpNoDelay ==
    /\ at = "nodelay"
    /\ \/ /\ Goto("done")
          /\ cfd' = number
          /\ connected' = TRUE
          /\ UNCHANGED <<config, addresses, inprogress, nonblock, socket, err>>
       \/ ~unix /\ Fails(1)

-----------------------------------------------------------------------------
(* redisSetTimeout and redisEnableKeepAlive on a connected context: an      *)
(* option that cannot be set is an error that leaves the socket open.       *)
SetOption ==
    /\ at = "done"
    /\ err' = TRUE
    /\ UNCHANGED <<config, at, addresses, inprogress, nonblock, socket, cfd, connected>>

(* __redisAsyncHandleConnect on a non-blocking context, in its first event: *)
(* redisCheckSocketError(c, c->fd) fails and the context is freed.          *)
ConnectionFailed ==
    /\ at = "done" /\ ~blocking
    /\ Goto("failed")
    /\ err' = TRUE
    /\ closed' = closed + 1
    /\ UNCHANGED <<config, addresses, inprogress, nonblock, opened, cfd, connected>>

(* Mutant: redisFree closes only what is connected without an error. *)
FreeUnlessError ==
    /\ at \in {"done", "failed"}
    /\ Goto("freed")
    /\ closed' = IF cfd > 0 /\ ~err THEN closed + 1 ELSE closed
    /\ UNCHANGED <<config, addresses, inprogress, nonblock, opened, context>>

(* redisFree closes c->fd if it is greater than 0. *)
Free ==
    /\ at \in {"done", "failed"}
    /\ Goto("freed")
    /\ closed' = IF cfd > 0 THEN closed + 1 ELSE closed
    /\ UNCHANGED <<config, addresses, inprogress, nonblock, opened, context>>

Step ==
    \/ Resolve \/ OpenSocket \/ NoSocket \/ OutOfAddresses \/ SetNonBlocking
    \/ Unreachable \/ ConnectSocket \/ RefusesToWait \/ PollFails
    \/ CheckSocketError \/ Restore \/ SetTcpNoDelay

Next == Step \/ PollEnds \/ SetOption \/ ConnectionFailed \/ Free

Spec == Init /\ [][Next]_vars

(* A poll with a timeout ends; without one it may wait for ever. *)
FairSpec == Spec /\ WF_vars(Step /\ (timeout = "none" => ~Pollable))
-----------------------------------------------------------------------------
TypeOK ==
    /\ at \in {"getaddrinfo", "socket", "nonblock", "connect", "wait", "check", "restore",
               "nodelay", "done", "failed", "freed"}
    /\ addresses \in 0 .. MaxAddresses
    /\ nonblock \in BOOLEAN
    /\ at = "wait" => nonblock
    /\ at = "nodelay" => nonblock = ~blocking

(* Over all the attempts and every error path a socket is closed once, and  *)
(* before the next one is opened (net.c:67-114, 270-309): one is open       *)
(* exactly while it is being connected, or when c->fd is it.                *)
NoSocketLeft ==
    at # "freed" =>
      opened - closed = IF at \in {"nonblock", "connect", "wait", "check", "restore",
                                   "nodelay", "done"} THEN 1 ELSE 0

(* An error is reported exactly when there is no connection: no attempt     *)
(* that was passed over leaves its error in a context that is connected     *)
(* (net.c:270-302, 336-338).                                                *)
ErrorIsTold ==
    [][at' \in {"done", "failed"} /\ at' # at => (err' <=> at' = "failed")]_vars

(* After redisFree every socket was closed once (hiredis.c:1003-1005), but  *)
(* for the number 0, which is never closed, and for an asynchronous         *)
(* connection that failed, which __redisAsyncHandleConnect closed without   *)
(* resetting c->fd (async.c:476, net.c:220-230).                            *)
ClosedOnce ==
    at = "freed" =>
      \/ closed = opened
      \/ closed = opened - 1 /\ number = 0
      \/ closed = opened + 1 /\ ~blocking /\ err

(* redisConnect* return, given a timeout or a non-blocking context          *)
(* (net.c:167-213).                                                         *)
ConnectReturns == timeout # "none" \/ ~blocking ~> at \in {"done", "failed", "freed"}
=============================================================================
