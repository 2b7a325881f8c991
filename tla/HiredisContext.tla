-------------------------- MODULE HiredisContext --------------------------
(* The blocking side of hiredis (hiredis.c): the buffers a redisContext     *)
(* puts between a program and the server, per connection.                   *)
(*                                                                          *)
(*    program --obuf--> wire --> server --> sock --rdr--> program           *)
(*                                                                          *)
(* redisAppendCommand only adds to obuf.  redisGetReply takes a reply the   *)
(* reader already holds; only when there is none does it write obuf out     *)
(* and read the socket.  Bytes are abstracted to whole commands and         *)
(* replies.                                                                 *)
EXTENDS Redis

VARIABLES obuf,   \* commands appended and not written
          wire,   \* commands written and not yet executed by the server
          sock,   \* replies sent and not yet read by the program
          rdr,    \* replies fed to the reader and not yet returned
          err     \* the context has seen an error: it is dead

buffers == <<obuf, sock, rdr>>
channel == <<obuf, wire, sock, rdr, err>>

ContextInit ==
    /\ obuf = [c \in Clients |-> <<>>]
    /\ wire = [c \in Clients |-> <<>>]
    /\ sock = [c \in Clients |-> <<>>]
    /\ rdr  = [c \in Clients |-> <<>>]
    /\ err  = [c \in Clients |-> FALSE]

(* redisAppendCommand, once per command of cmds. *)
AppendCommands(c, cmds) == obuf' = [obuf EXCEPT ![c] = @ \o cmds]

(* The reader holds no whole reply: redisGetReply turns to the socket. *)
Waiting(c) == rdr[c] = <<>> /\ ~err[c]

(* redisBufferWrite, repeated until done.  A write cut short by a lost      *)
(* connection is Lose below.                                                *)
BufferWrite(c) ==
    /\ Waiting(c)
    /\ obuf[c] # <<>>
    /\ wire' = [wire EXCEPT ![c] = @ \o obuf[c]]
    /\ obuf' = [obuf EXCEPT ![c] = <<>>]
    /\ UNCHANGED <<sock, rdr, err>>

(* redisBufferRead feeds the reader what one read returns: any non-empty    *)
(* part of what has arrived.                                                *)
BufferRead(c) ==
    /\ Waiting(c)
    /\ obuf[c] = <<>>
    /\ \E n \in 1..Len(sock[c]) :
         /\ rdr'  = [rdr EXCEPT ![c] = SubSeq(sock[c], 1, n)]
         /\ sock' = [sock EXCEPT ![c] = SubSeq(@, n + 1, Len(@))]
    /\ UNCHANGED <<obuf, wire, err>>

(* redisGetReply returns the first reply of the reader, and the program     *)
(* appends its next commands.                                               *)
HasReply(c) == rdr[c] # <<>> /\ ~err[c]
Reply(c) == Head(rdr[c])
TakeReply(c, cmds) ==
    /\ rdr' = [rdr EXCEPT ![c] = Tail(@)]
    /\ AppendCommands(c, cmds)
    /\ UNCHANGED <<wire, sock, err>>

(* The server answers the commands of a connection in order.  What it       *)
(* answers to a connection that is gone is dropped.                         *)
Serve(c, reply) ==
    /\ wire' = [wire EXCEPT ![c] = Tail(@)]
    /\ sock' = IF err[c] THEN sock ELSE [sock EXCEPT ![c] = Append(@, reply)]
    /\ UNCHANGED <<obuf, rdr, err>>

Perform(c) ==
    /\ wire[c] # <<>>
    /\ Execute(c, Head(wire[c]))
    /\ Serve(c, Answer(c, Head(wire[c])))

Refuse(c) ==
    /\ wire[c] # <<>>
    /\ MayRefuse(Head(wire[c]))
    /\ Fault
    /\ Serve(c, Refusal(Head(wire[c])))
-----------------------------------------------------------------------------
(* The connection is gone: any part of what was written may still reach the *)
(* server, which executes it at any later time, before or after what other  *)
(* connections send.  The context stays dead and every later call on it     *)
(* fails; a program that goes on does so with another context.              *)
Drop(c) ==
    /\ err'  = [err EXCEPT ![c] = TRUE]
    /\ \E n \in 0..Len(wire[c]) : wire' = [wire EXCEPT ![c] = SubSeq(@, 1, n)]
    /\ obuf' = [obuf EXCEPT ![c] = <<>>]
    /\ sock' = [sock EXCEPT ![c] = <<>>]
    /\ rdr'  = [rdr EXCEPT ![c] = <<>>]

(* The connection fails, or the process that holds it is killed. *)
Lose(c) ==
    /\ faults < MaxFaults
    /\ Fault
    /\ Drop(c)
=============================================================================
