--------------------------- MODULE ConnectProofs ---------------------------
(* What the run of Connect checks for names of two addresses, for a name of *)
(* any number of addresses.                                                 *)
EXTENDS Connect, TLAPS

Before == {"getaddrinfo", "socket", "nonblock", "connect", "wait", "check", "restore", "nodelay"}

Holding == {"nonblock", "connect", "wait", "check", "restore", "nodelay", "done"}

Typed ==
    /\ unix \in BOOLEAN /\ blocking \in BOOLEAN
    /\ number \in {0, 3}
    /\ at \in Before \cup {"done", "failed", "freed"}
    /\ addresses \in 0 .. MaxAddresses
    /\ nonblock \in BOOLEAN
    /\ opened \in Nat /\ closed \in Nat
    /\ cfd \in {0, number}
    /\ err \in BOOLEAN

(* The mode of the socket in hand. *)
SocketMode ==
    /\ at \in {"connect", "wait", "check"} => nonblock
    /\ at = "restore" => nonblock
    /\ at = "nodelay" => nonblock = ~blocking

(* A context gets its socket when there is one without an error. *)
Told ==
    /\ at \in Before => cfd = 0 /\ ~err
    /\ at = "done" => cfd = number
    /\ at = "failed" => err /\ (cfd = 0 \/ ~blocking)

Balance == at # "freed" => opened = IF at \in Holding THEN closed + 1 ELSE closed

IInv == Typed /\ SocketMode /\ Told /\ Balance /\ ClosedOnce

LEMMA InitIInv == Init => IInv
<1> SUFFICES ASSUME Init PROVE IInv
  OBVIOUS
<1>1. at \in {"socket", "getaddrinfo"} /\ 0 \in 0 .. MaxAddresses
  BY ConnectAssumption DEF ConnectAssumption, Init
<1>2. Typed
  BY <1>1 DEF Init, Typed, Before
<1>3. SocketMode /\ Told /\ Balance /\ ClosedOnce
  BY <1>1 DEF Init, SocketMode, Told, Balance, ClosedOnce, Holding
<1>4. QED  BY <1>2, <1>3 DEF IInv

LEMMA IInvTypeOK == IInv => TypeOK /\ NoSocketLeft /\ ClosedOnce
<1> SUFFICES ASSUME IInv PROVE TypeOK /\ NoSocketLeft /\ ClosedOnce
  OBVIOUS
<1>1. TypeOK
  BY DEF IInv, Typed, SocketMode, TypeOK, Before
<1>2. NoSocketLeft
  BY DEF IInv, Typed, Balance, NoSocketLeft, Before, Holding
<1>3. QED  BY <1>1, <1>2 DEF IInv

(* A step that fails, with a socket to close exactly when there is one. *)
LEMMA FailsIInv ==
    ASSUME IInv, at \in Before, NEW close \in {0, 1}, Fails(close),
           close = (IF at \in Holding THEN 1 ELSE 0)
    PROVE  IInv'
BY DEF IInv, Typed, SocketMode, Told, Balance, ClosedOnce, Before, Holding, Fails, Goto, config

LEMMA NextAddress ==
    /\ 0 \in 0 .. MaxAddresses
    /\ \A a \in 0 .. MaxAddresses : a > 0 => a - 1 \in 0 .. MaxAddresses
BY ConnectAssumption DEF ConnectAssumption

LEMMA NextIInv == IInv /\ [Next]_vars => IInv'
<1> SUFFICES ASSUME IInv, [Next]_vars PROVE IInv'
  OBVIOUS
<1> USE DEF Goto, Goes, config, socket, context
<1>1. CASE Resolve
  <2>1. CASE Fails(0)
    BY <1>1, <2>1, FailsIInv DEF Resolve, Before, Holding
  <2>2. CASE at' = "socket"
    BY <1>1, <2>2, ConnectAssumption DEF ConnectAssumption, Resolve, Fails, IInv, Typed,
       SocketMode, Told, Balance, ClosedOnce, Before, Holding
  <2>3. QED  BY <1>1, <2>1, <2>2 DEF Resolve
<1>2. CASE OpenSocket
  <2>1. addresses' \in 0 .. MaxAddresses
    BY <1>2, NextAddress DEF OpenSocket, IInv, Typed
  <2>2. opened = closed /\ opened' = closed + 1
    BY <1>2 DEF OpenSocket, IInv, Balance, Holding
  <2>3. opened' \in Nat /\ closed' = closed
    BY <1>2 DEF OpenSocket, IInv, Typed
  <2>4. /\ at' = "nonblock" /\ nonblock' \in BOOLEAN
        /\ UNCHANGED <<unix, blocking, number, cfd, err>>
    BY <1>2 DEF OpenSocket
  <2>5. cfd = 0 /\ ~err
    BY <1>2 DEF OpenSocket, IInv, Told, Before
  <2>6. Typed'
    BY <2>1, <2>3, <2>4 DEF IInv, Typed, Before
  <2>7. QED
    BY <2>2, <2>3, <2>4, <2>5, <2>6 DEF IInv, SocketMode, Told, Balance, ClosedOnce, Before, Holding
<1>3. CASE NoSocket
  <2>1. CASE unix
    BY <1>3, <2>1, FailsIInv DEF NoSocket, Before, Holding
  <2>2. CASE ~unix
    <3>1. addresses' \in 0 .. MaxAddresses
      BY <1>3, <2>2, NextAddress DEF NoSocket, IInv, Typed
    <3>2. QED
      BY <1>3, <2>2, <3>1 DEF NoSocket, IInv, Typed, SocketMode, Told, Balance, ClosedOnce,
         Before, Holding
  <2>3. QED  BY <2>1, <2>2
<1>4. CASE OutOfAddresses
  BY <1>4, FailsIInv DEF OutOfAddresses, Before, Holding
<1>5. CASE SetNonBlocking
  <2>1. CASE Fails(1)
    BY <1>5, <2>1, FailsIInv DEF SetNonBlocking, Before, Holding
  <2>2. CASE Goes("connect") /\ nonblock' = TRUE
    BY <1>5, <2>2 DEF SetNonBlocking, IInv, Typed, SocketMode, Told, Balance, ClosedOnce,
       Before, Holding
  <2>3. QED  BY <1>5, <2>1, <2>2 DEF SetNonBlocking
<1>6. CASE Unreachable
  BY <1>6 DEF Unreachable, IInv, Typed, SocketMode, Told, Balance, ClosedOnce, Before, Holding
<1>7. CASE ConnectSocket
  <2>1. at = "connect" /\ at' \in {"restore", "wait"}
        /\ UNCHANGED <<config, addresses, nonblock, socket, context>>
    BY <1>7 DEF ConnectSocket
  <2>2. QED
    BY <2>1 DEF IInv, Typed, SocketMode, Told, Balance, ClosedOnce, Before, Holding
<1>8. CASE RefusesToWait
  BY <1>8, FailsIInv DEF RefusesToWait, Before, Holding
<1>9. CASE PollEnds
  BY <1>9 DEF PollEnds, Pollable, IInv, Typed, SocketMode, Told, Balance, ClosedOnce,
     Before, Holding
<1>10. CASE PollFails
  BY <1>10, FailsIInv DEF PollFails, Pollable, Before, Holding
<1>11. CASE CheckSocketError
  <2>1. CASE Fails(1)
    BY <1>11, <2>1, FailsIInv DEF CheckSocketError, Before, Holding
  <2>2. CASE Goes("restore") /\ UNCHANGED nonblock
    BY <1>11, <2>2 DEF CheckSocketError, IInv, Typed, SocketMode, Told, Balance, ClosedOnce,
       Before, Holding
  <2>3. QED  BY <1>11, <2>1, <2>2 DEF CheckSocketError
<1>12. CASE Restore
  <2>1. CASE Fails(1)
    BY <1>12, <2>1, FailsIInv DEF Restore, Before, Holding
  <2>2. CASE Goes("nodelay") /\ nonblock' = ~blocking
    BY <1>12, <2>2 DEF Restore, IInv, Typed, SocketMode, Told, Balance, ClosedOnce,
       Before, Holding
  <2>3. QED  BY <1>12, <2>1, <2>2 DEF Restore
<1>13. CASE SetTcpNoDelay
  <2>1. CASE Fails(1)
    BY <1>13, <2>1, FailsIInv DEF SetTcpNoDelay, Before, Holding
  <2>2. CASE at' = "done"
    BY <1>13, <2>2 DEF SetTcpNoDelay, Fails, IInv, Typed, SocketMode, Told, Balance,
       ClosedOnce, Before, Holding
  <2>3. QED  BY <1>13, <2>1, <2>2 DEF SetTcpNoDelay
<1>14. CASE SetOption
  BY <1>14 DEF SetOption, IInv, Typed, SocketMode, Told, Balance, ClosedOnce, Before, Holding
<1>15. CASE ConnectionFailed
  BY <1>15 DEF ConnectionFailed, IInv, Typed, SocketMode, Told, Balance, ClosedOnce,
     Before, Holding
<1>16. CASE Free
  BY <1>16 DEF Free, IInv, Typed, SocketMode, Told, Balance, ClosedOnce, Before, Holding
<1>17. CASE UNCHANGED vars
  BY <1>17 DEF vars, IInv, Typed, SocketMode, Told, Balance, ClosedOnce, Before, Holding
<1>18. QED
  BY <1>1, <1>2, <1>3, <1>4, <1>5, <1>6, <1>7, <1>8, <1>9, <1>10, <1>11, <1>12, <1>13, <1>14,
     <1>15, <1>16, <1>17 DEF Next, Step

LEMMA Invariant == Spec => []IInv
BY InitIInv, NextIInv, PTL DEF Spec

(* The variables of a connect have their types and O_NONBLOCK is on while   *)
(* connecting and as was asked for after that (net.c:91-114, 274-288).      *)
THEOREM ConnectTypeOK == Spec => []TypeOK
BY Invariant, IInvTypeOK, PTL

(* Over any number of addresses no attempt leaves a socket open or closes   *)
(* it twice (net.c:270-309).                                                *)
THEOREM AttemptsLeaveNoSocket == Spec => []NoSocketLeft
BY Invariant, IInvTypeOK, PTL

(* After redisFree a socket was closed once, with the exceptions ClosedOnce *)
(* names (hiredis.c:1003-1005, async.c:476).                                *)
THEOREM SocketsClosedOnce == Spec => []ClosedOnce
BY Invariant, IInvTypeOK, PTL

LEMMA StepErrorIsTold ==
    IInv /\ [Next]_vars =>
        [at' \in {"done", "failed"} /\ at' # at => (err' <=> at' = "failed")]_vars
<1> SUFFICES ASSUME IInv, Next, at' \in {"done", "failed"}, at' # at
             PROVE  err' <=> at' = "failed"
  BY DEF vars
<1>1. IInv'
  BY NextIInv
<1>2. CASE at' = "failed"
  BY <1>1, <1>2 DEF IInv, Told
<1>3. CASE at' = "done"
  <2>1. SetTcpNoDelay /\ UNCHANGED err
    BY <1>3 DEF Next, Step, Resolve, OpenSocket, NoSocket, OutOfAddresses, SetNonBlocking,
       Unreachable, ConnectSocket, RefusesToWait, PollFails, CheckSocketError, Restore,
       SetTcpNoDelay, PollEnds, SetOption, ConnectionFailed, Free, Fails, Goto, Goes
  <2>2. QED
    BY <1>3, <2>1 DEF IInv, Told, SetTcpNoDelay, Before
<1>4. QED  BY <1>2, <1>3

(* No address that was passed over leaves its error in a context that is    *)
(* connected, and no attempt ends without a connection or an error          *)
(* (net.c:270-302, 336-338).                                                *)
THEOREM ErrorsAreTold == Spec => ErrorIsTold
BY Invariant, StepErrorIsTold, PTL DEF Spec, ErrorIsTold
=============================================================================
