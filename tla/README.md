# ClipSeekr: models, checks and proofs

ClipSeekr recognises known video clips in a stream. `clipster` indexes a
directory of clips: it hashes every frame and stores the hash in a Redis server.
`clipseekr` monitors a stream: it hashes each frame, looks the hash up, and
reports a clip when enough of its frames have been seen. This directory holds
TLA+ models of that code, TLC configurations that check them on small
instances, and TLAPS proofs of what matters for every instance.

Run, in this directory:

    tlc -workers 2 -config Monitor.cfg MCMonitor      # any run of PROJECT.json
    tlapm MonitorProofs.tla                            # any *Proofs module

`PROJECT.json` lists the runs, the mutants each property must reject, the source
lines of every definition, the hazards and the findings.

## 1. The system

| Component | State | Operations | Hard behaviour |
|---|---|---|---|
| `RedisHashStore` (`RedisHashStore.cpp`) | a hiredis context; in Redis, database 0 maps a frame hash to (id, idnum, seqnum, total), database 1 maps an id to the list of its hashes | `PutHashKeyValue`, `GetHashValue`, `DeleteEntry` (by hash, by id), `GetCount` (all, by id), `GetEntries`, `Shutdown` | every method is several commands; some are pipelined; any reply may be an error that throws midway, or another command's; the connection may be lost, and what it had under way be executed at any later time; several programs use one server |
| hiredis blocking context (`hiredis/hiredis.c`) | output buffer, socket, reader, `err` | `redisAppendCommand`, `redisGetReply`, `redisBufferWrite`, `redisBufferRead`, `redisFree` | replies are matched to commands by their order alone |
| hiredis reply reader (`hiredis/hiredis.c:183-670`) | read buffer and cursor, a stack of at most nine tasks, the reply being built, `err` | `redisReaderFeed`, `redisReaderGetReply` | a reply comes in pieces; parsing stops and resumes anywhere; the buffer is cut between calls |
| Redis server (external) | databases, the selected database of each connection | the commands the store issues | executes commands one at a time, interleaved between connections |
| monitor (`clipseekr_main.cpp`, `pull_video_packets`) | hits and last sequence number per clip number, `found`, `pause_until`, black-frame count | one turn of the frame loop | counts that outlive the moment they were made; unsigned arithmetic; a pause measured in stream time |
| indexer (`clipster_main.cpp`) | number of the last file, files left, the frame count; a capture and an indexing thread per file | start, add a file, store a frame, end a file on any of four exceptions | number allocation over several programs; failure in the middle of a file |
| `framehash`, `isblackframe` (`clipseekrutils.cpp`) | none | pixels to hash | bit packing |
| `ClipReader`, `FrameReader`, `FrameWriter` | current frame, marks, step, what the screen says; frames the decoder still holds | browse, mark start and end, save | boundary arithmetic over long key sequences; a save that fails midway; a decoder that is late and never flushed; packets that give no picture |
| connection set-up (`hiredis/net.c`, `redisConnect*`, `redisFree`) | descriptor, flags, `err` | connect to a name or a path, with or without a timeout, blocking or not; set an option; free | any system call may fail at any address, on paths that close the socket or leave it to `redisFree` |
| hiredis asynchronous context (`hiredis/async.c`, `adapters/libev.h`) | callbacks of commands, of invalid commands, and by channel and pattern; flags; output buffer; the watchers of the loop | `redisAsyncCommand`, `redisAsyncDisconnect`, `redisAsyncFree`; the read and write handlers | callbacks call the context back, also to free it; replies are told apart by order, two tables and flags; a disconnect is deferred |
| `dict` (`hiredis/dict.c`) | buckets, `used` | find, add, replace, delete, expand, iterate, clear | the table grows under an operation |
| `sds`, `adapters/{ae,libevent,libuv}.h`, `TableHashStore` | - | - | strings; alternatives to `libev.h`; in no program's build |

How they interact: `clipster` and `clipseekr` are separate processes that share
nothing but the Redis server. In each, one thread calls the store. A capture
thread (library `phvideocapture`, not in the repository) feeds frames to that
thread. `clipster` chooses a clip's number (`idnum`) from `GetCount()`; the
monitor tells clips apart by that number only. Neither program uses the asynchronous
half of hiredis, which the repository carries: there one thread runs an event loop,
the loop calls the two handlers, these call the program's callbacks, and the callbacks
call the context.

What makes each correct:

* store: each method has the effect of one atomic operation; the reply taken is
  the reply of the command sent; the two databases do not mix; an entry is found
  by deleting its clip; a stored frame stays until it is deleted or overwritten,
  whatever arrives late; methods end;
* monitor: a report rests on enough fresh hits; a clip that plays straight is
  not missed; nothing is reported while a reported clip plays;
* indexer: different clips have different numbers;
* reader: the replies sent, whole and in order, as soon as they are there;
* connection: a socket is closed once; there is an error if and only if there is no
  connection; a connect with a timeout returns;
* asynchronous context: a callback is called once, with its own reply, whatever
  fails and whoever frees the context where; messages reach the latest subscriber; no
  command waits with nothing to come; a disconnect comes about;
* dict: what was added and not deleted is found, once;
* ClipReader: marks that are a range of the video, a saved file that is that
  range but for frames that do not decode, a screen that tells the truth.

## 2. Modules

    Redis <- HiredisContext <- RedisHashStore <- StoreProperties <- MCStore
                                                  | INSTANCE    ^
                                                  v             |
                                              HashIndex     StoreProofs <- StoreIndexProofs
    Monitor     <- MonitorProofs, MCMonitor
    Clipster    <- ClipsterProofs, MCClipster
    ClipReader  <- ClipReaderProofs
    RedisReader <- ReaderProperties <- ReaderProofs, MCRedisReader
    Dict <- AsyncContext <- AsyncProperties <- AsyncProofs, MCAsync
    Connect     <- ConnectProofs

**`Redis`** (external): `ent[db][hash]` and `lst[db][id]` are the keys of a
database, `sel[c]` the database connection `c` has selected. `Execute` gives the
effect of a command, `Answer` its reply. A list is a bag: the store never looks at
the order of a list. `MayRefuse` lets the server answer a command of the set
`Refusable` with an error instead (out of memory, read-only, wrong type), at most
`MaxFaults` times.

**`HiredisContext`**: a command travels `obuf` (`redisAppendCommand`) -> `wire`
(`redisBufferWrite`) -> executed (`Perform`, `Refuse`) -> its reply on `sock` ->
`rdr` (`redisBufferRead`) -> taken (`redisGetReply`). Bytes are abstracted to
whole commands and replies: a partial one changes nothing a method can see, which
`RedisReader` shows of the replies.
`Drop` ends a connection: the replies are gone, and any prefix of what was written may
still be executed, at any later time, between any commands of other connections. `Lose` is
a connection that fails; its context has `err` and stays dead. A store that a program opens after
that is another client: `redisFree` sends nothing and waits for nothing, so that the old
connection and the new one are two connections to the server.

**`RedisHashStore`**: `at[c]` names the reply client `c` waits for; between two
replies a method appends its next commands. Each action is one such stretch:

| Method | Actions |
|---|---|
| `PutHashKeyValue` | `CallPut`, `PutSelected`, `PutKeeps` / `PutProceeds`, `PutStored`, `PutListing`, `PutListed` |
| `GetHashValue` | `CallGet`, `Selected`, `GetDone` / `FoundUnparsable` / `ReadPastEnd` |
| `DeleteEntry(hash)` | `CallDeleteHash`, `Selected`, `DeleteAbsent` / `DeleteFound` / `FoundUnparsable` / `ReadPastEnd`, `DeleteSelected`, `DeleteErased`, `DeleteUnlisting`, `DeleteUnlisted` |
| `DeleteEntry(id)` | `CallDeleteId`, `IdSelected`, `IdRanged`, `IdSkipped` / `IdDeleteNext`..., `IdEmptied`, `IdSelected1`, `IdDeleted` |
| `GetCount`, `GetCount(id)`, `GetEntries` | `CallCount`, `CallCountId`, `CallEntries`, `QuerySelected`, `CountDone`, `CountIdDone`, `EntriesDone` |
| `check_redis_reply` | `Throw`, `LoseConnection` |

A reply that belongs to another command is interpreted as the code interprets
it: its type decides. `GetHashValue` scans any non-empty array for the names of
its fields, two elements at a time, so a foreign array gives a default entry (`Blank`);
of one with an odd number of elements it reads one past the end (`HasOddLength`), after which
the program is dead (`ReadPastEnd`, label `crashed`) or goes on. A number above
`IntMax` makes `stoi` throw, and the method ends (`FoundUnparsable`). `newer[c]` is history: the hashes
stored since the method of `c` was called.

**`HashIndex`** is the interface of `HashStore.hpp` with atomic methods.
**`StoreProperties`** holds the store's invariants and the refinement mapping to
`HashIndex`: a Put takes effect when HMSET is executed (the abstract list is then one
ahead until LPUSH is), a deletion by hash with its DEL, a deletion by id with
its LRANGE.

**`Monitor`**: one action is one turn of the loop, from a frame in hand to the
next `PullVideoFrame`. `BlackFrame`, `PausedFrame`, `UnknownFrame`, `FirstHit`,
`NextHit`, `HitOutOfWindow` and `Found` are its branches; `UnhashableFrame`,
`LookupFails`, `UnparsableFrame` (an uncaught `out_of_range` of `stoi`) and
`FoundAtZeroRate` (division by a frame rate rounded to 0) are its ways to end. `counts` and
`prev` are `ids_counts` and `ids_prev`; `said` is what the turn printed. Unsigned
arithmetic is modulo `2*(IntMax+1)`. `hist` is history only: no action reads it.

**`Clipster`**: a set of programs on one server. `Start` is `main` up to the file
loop, `FileUnopened` and `AddFile` are the two outcomes of `add_file`'s
constructor, `PullFrame`, `Exists`, `Store` and `EndFile` are `process_video`. A
Put is seen in database 0 only: EXISTS and HMSET, with other programs between
them. The capture thread is a stream of frames that may end or fail at any
frame. `gained`, `wasted` and `overlapped` are history.

**`ClipReader`**: one action is one key of `MainLoop`, and a save one action
per frame of `WriteFrames`. A picture is the number of its frame.
`Open`, `OpenFails` and `FirstFrameFails` are `MainLoop` up to its key loop;
`KeyUp`, `KeyDown`, `KeyLeft`, `KeyRight`, `MarkStart`, `MarkEnd` and `Quit` are its
keys; `Save` or `SaveThrows`, `WriteFrame`, and `WriteNull`, `WriteThrows` or
`WriteEnds` are a save. `GetFrame` is `FrameReader`'s: it feeds packets from the frame sought
on to the decoder until a picture comes out, whatever the decoder says of each packet. Any
packet may give no picture, so that the frames decoded on the way (`Feeds`) are any of those
at or after the one sought. The decoder gives pictures `delay` packets late and keeps (`held`) what has
not come out, because a seek does not flush it. `unseen` and `unsaved` are history: the
frames that gave no picture when the window's picture, or a save's, were fetched.
`info` is what `WriteInfo` last put on the screen, `shown` the picture in the window, `report` the line under the name.
The module states its own properties and needs no MC module.

**`RedisReader`**: the input is a sequence of units: the type byte of an item, the line
after it, the body of a bulk string. A reply is a function from paths (the indices of an
item from the root down) to nodes, as `create*Object` links them. `Feed` is
`redisReaderFeed` with any number of units; `Call` starts `redisReaderGetReply`, whose
loop is one action per item (`ReadType`, `ProcessLineItem`, `ProcessBulkItem`,
`ProcessMultiBulkItem`, with `MoveToNextTask` after each) until `Emit` returns the reply,
`RunOut` returns nothing, or `BadType`, `TooDeep` or `OutOfMemory` sets an error.
`ReaderProperties` gives the protocol as a layout: a reply is a tree of items (`IsReply`), an
item is written as its `ItemUnits`, and a stream is the items of its replies one after the other without
a gap (`IsStream`), arrays before their elements (`Precedes`); `PlaceOf` is where each item starts. What a
server writes by recursion over a reply (`AllUnits`) is in `MCRedisReader`; TLC checks
that it has that layout (`ProtocolAssumption`), feeds it to the reader and compares what comes out
with what was sent.

**`Connect`**: one context from its creation to `redisFree`. `at` is the call in hand:
`Resolve` (`getaddrinfo`), `OpenSocket` / `NoSocket` / `OutOfAddresses`, `SetNonBlocking`,
`ConnectSocket` / `Unreachable`, `RefusesToWait`, `PollEnds` / `PollFails`
(`redisContextWaitReady`), `CheckSocketError`, `Restore`, `SetTcpNoDelay`, then the
options, the failure an asynchronous context finds in its first event, and `Free`. Each
may fail. The system gives the lowest free number, so every attempt gets the same one;
what counts is how many sockets were opened and how many `close` calls were made.

**`Dict`**: a dictionary is `[size, used, table]`, where `table[i]` is the set of
entries of bucket `i`: the order of its list decides nothing in `async.c`. `Find` looks
in the one bucket of the key's hash, `Expand` moves every entry to its bucket of the new table, and
`Replace` (`dictReplace`), `Delete` and `Entries` (`dictNext`, in all) follow. The hash
function is a constant: any function from keys to numbers.

**`AsyncContext`**: `mode` says where the thread is: in the loop, in
`redisProcessCallbacks`, in a callback, in `__redisAsyncFree`, or at the end of the
program (`freed`, `aborted` by an assertion, `undefined` after a callback structure
nothing was written to). A command and its callback are the number of the command.

| Code | Actions |
|---|---|
| `redisAsyncCommand` | `Command`, `Subscribe`, `Unsubscribe`, `Monitor`, from the loop or from a callback |
| `redisAsyncDisconnect`, `redisAsyncFree` | `Disconnect`, `Free`, from the loop or from a callback |
| `redisAsyncHandleWrite` | `ConnectFails`, `HandleWrite`, `HandleWriteNone`, `WriteFails` |
| `redisAsyncHandleRead` | `HandleRead`, `ReadFails`, then the turns of `redisProcessCallbacks`: `ReplyToCommand`, `ReplyToSubscription`, `ReplyToInvalid`, `ReplyToNobody`, `RunWild`, `SpontaneousError`, `Unexpected`, `GetReplyFails`, and `NoMoreReplies`; `Return` is the return of a callback |
| `__redisAsyncFree` | `FreeReply`, `FreeInvalid`, `FreeSubscriptions`, `Finish` |
| `libev.h` | `reading` and `writing`, set in the handlers and in `Accept` |
| server and network (external) | `Executes`, `Publish`, `MonitorLine`, `Rejects`, `LoseConnection` |

`cb` is the local of `redisProcessCallbacks` that survives from turn to turn. `cmds`,
`got`, `asked`, `misuse` and `status` are history. Several commands written by one event
are as many write events, and several names in one SUBSCRIBE as many commands: in both
nothing can happen between them in the code that could not happen in the model. Replies
that are lost with the connection are as if the connection had gone before they were
sent.

**`AsyncProperties`** states what a program is promised, and which programs: an
`Orderly` one does not monitor, issues nothing while an UNSUBSCRIBE is unanswered, and
unsubscribes what it subscribed to. Others reach the cases of section 5.

## 3. Runs

| Run | Checks | Shows |
|---|---|---|
| `store_sequential` | `TypeOK`, `Aligned`, `OwnerListed`, `DatabasesSeparate`, `AtomicIndex` | one client, every method, two faults (refusals of any command but SELECT and LRANGE, lost connections): until the first fault the store implements `HashIndex` and every entry is listed under its id; whatever the faults, the outstanding replies are exactly the ones awaited, and the databases never mix |
| `store_writers` | `OrphansAccounted`, `DatabasesSeparate`, `FirstPutStays` | two clients putting, one fault of any kind: entries no list names are paid for by faults or Puts under way; databases never mix, also when a SELECT is refused; a Put without the flag replaces no frame that was there before it was called, also when it was cut off and its commands are executed after the other client's (the theorem has the deletions too) |
| `store_returns` | `MethodsReturn` | every method ends, also with replies of a failed method left over, unless the program dies of the element it reads past the end of one |
| `store_desync` (violation) | `ReceivesItsOwnReply` | finding 1 |
| `store_overwrite` (violation) | `NoEntriesNoIds` | finding 2 |
| `monitor` | `TypeOK`, `StraightPlayIsFound`, `FoundAfterThreshold`, `NoReportWhilePlaying` | detection is sound, complete for straight play, and silent while a reported clip plays |
| `monitor_sequential` (violation) | `SequentialBeforeFound` | finding 3 |
| `clipster` | `TypeOK`, `NumbersBounded`, `SharingExplained` | numbers run ahead of the count only by wasted files; sharing has only the two causes |
| `clip_reader` | `TypeOK`, `RangeInClip`, `SaveIsExact`, `ShownIsCurrent`, `ScreenShowsMarks` | whatever keys: the marks are a range, a save holds what the screen says of it, window and screen are right but for two stale cases and frames that do not decode |
| `redis_reader` | `TypeOK`, `RepliesInOrder`, `ErrorIsDue`, `NoReplyHeldBack` | however the input is cut: replies are whole, in order and never held back; an error only for an unreadable reply |
| `async` | `TypeOK`, `CalledOnce`, `OwnReply`, `CleanIsAnswered`, `SafeUse`, `WatchersStarted`, `TablesFind`, `LatestHears`, `Answered`, `DisconnectEnds` | programs of up to four commands that disconnect or free the context anywhere, a connection that may fail anywhere: each callback is called once and with its own reply, messages go to the latest subscription, nothing waits for ever, and only the programs the properties name fail an assertion |
| `connect` | `TypeOK`, `NoSocketLeft`, `ClosedOnce`, `ErrorIsTold`, `ConnectReturns` | over every failure of every call: no socket is left open or closed twice but in two named cases, errors are told, a connect with a timeout returns |

### Bounds

* Store: two hashes and two ids are enough for a hash to move between clips, for a
  list to hold several, and for a deletion to hit one clip and miss the other.
  One sequence number, except in `store_returns`, where there are two and one is above
  `IntMax`, so that `stoi` throws; frames that replace each other differ in their id.
  `MaxCopies` = 2 (1 with several clients) bounds how often one hash is in one list when a Put starts; LREM with count 0
  and DEL treat all copies alike, so two differ from one and three do not differ
  from two. `MaxFaults` = 2 lets a second fault hit what the first left.
  `store_sequential` leaves out refusals of SELECT and LRANGE because after those the
  code does lose alignment: that is finding 1, which `store_desync` shows.
* Monitor: two clips, one of which has an entry whose `total` does not fit an int
  and one whose `total` is smaller than its sequence number; `IntMax` = 7 and
  `Window` = 2 stand for 2^31-1 and 50, small enough for the wrap of
  `total - seqnum` to occur; gaps of one and of two frames, and
  a jump beyond the window, all occur. `MaxTime`, `MaxStep` bound the clock,
  `MaxBlack` the black frames in a row (5, so that the threshold 2 x 2 is passed).
  Timestamps are whole seconds and never go back.
* Clipster: two programs, three starts, a clip of one frame and a clip of three
  that repeats a frame and ends on the first clip's: files that add everything,
  something or nothing all occur, in every order and overlap.
* ClipReader: videos of 0 to 3 frames, so that the marks have room for every order
  and a step over several frames; the first step (4 for 15) is past the end of
  every video, as 15 is past the end of a short one. A decoder on time or one packet late, and at
  every request any of the packets without a picture.
* Reader: two replies in a row, each of 16 kinds: all leaves, both nils, empty
  and nested arrays that end in an array or continue after one, arrays as deep as the stack
  allows and one deeper, an unknown type at the root and inside. Three tasks stand for the
  nine of the stack, four units for the 1024 bytes after which the
  buffer is cut, so that it is cut inside a reply as well as between two.
* Async: every sequence of three among a command, SUBSCRIBE x and UNSUBSCRIBE x, and
  chosen ones with a second channel, a pattern of the same name, MONITOR (also with subscriptions
  ended while monitoring), commands without a callback, UNSUBSCRIBE of all; one message or monitor line from the server (`MaxPushes`), at
  any time; at most three callbacks in the list while monitoring (`MaxPending`: the code adds
  one at each read). The table starts with one bucket instead of four and the two
  keys hash to 1 and 3: they share its bucket, force an expansion, and then share a bucket
  again, so that collisions, moves and growth all occur with two keys.
* Connect: names of up to two addresses (`MaxAddresses`), so that a failure can precede a
  success; the descriptor is 0 or another number.

Symmetry is used for safety runs only, on clients, hashes, ids and programs, which
the definitions do not tell apart. Deadlock is not checked for the monitor (the
stream ends), clipster (the bound on starts is reached), ClipReader (the user quits),
the reader (all is read, or an error is final), the asynchronous context (it is freed) and the
connection (it is freed). Of the store it is checked in `store_overwrite`; in the other runs
its clients come to an end, by a lost connection or a program that died.

### Fairness

* `store_returns`: weak fairness of `Continue` (the thread in a method is
  scheduled), `Transfer` (`redisGetReply` writes and reads while a method waits) and
  `Served` (the server executes what it was sent).
* `async`: weak fairness of `Process` and `TearDown` (the thread runs on, and callbacks
  return) and of the read that finds the end of the stream; strong fairness of
  `HandleWrite` and of a read that brings a reply, since the loop polls both watchers in turn and a
  reply of which a part has come is completed by the server, while other events come
  between.
* `connect`: weak fairness of the steps of the thread, `PollFails` among them when there
  is a timeout: a poll with a timeout ends. Without one it may wait for ever, and
  `ConnectReturns` claims nothing.

Nothing forces a program to call a method, to ask for a disconnect, or a
fault to happen.

## 4. Proofs

All are checked by `tlapm` for every value of the constants, from the named
ASSUME of the module.

* `MonitorProofs` (`MonitorAssumption`: the window fits an int, entries are unsigned
  numbers, rates are naturals). The inductive invariant `IInv` is `TypeOK`, `PauseOver`
  (when nothing is playing, the last pause has passed) and, for each clip, `Agree`: the
  two maps have the same keys, the last hit of the map is that of the history, the
  count is between 1 and max(1, threshold), at least the length of the present run
  of sequential hits, and at most the hits since the last report. The last two bounds are what makes
  it inductive: the first gives `MonitorCompleteness` (a run longer
  than the threshold would need a count past the threshold), the second
  `MonitorSoundness`. `MonitorPause` follows from `PauseOver`, `MonitorTypes` from
  `TypeOK`; that no parsed sequence number wraps in the window test is a lemma of its own.
* `ClipsterProofs` (`ClipsterAssumption`: finitely many hashes, clips are sequences of
  them). `IInv` adds to `NumbersBounded` that a running program's number is
  covered by the count of entries, the wasted files and the file it is in
  (`Covered`), that programs that never overlapped are alone, and that while
  nothing was wasted the running program's number is the largest and its
  file's own (`Latest`). From these, `ClipsterNumbersBounded`, `ClipsterSharingExplained`
  and `ClipsterTypes`. The step that stores a frame uses the cardinality of a
  set with one element more.
* `StoreProofs` (`RedisAssumption`, `StoreAssumption`), for any number of clients, hashes,
  ids, refusals and lost connections. `StoreTypeOK` holds of `Spec`; what makes it
  inductive is `Fits`: a method has, at each label, the arguments of the commands it has
  still to append, also when it took another command's reply for its own and went on after
  reading past its end. The others hold under
  `PipelinesHold`: no SELECT or LRANGE is refused, or the clients call only Put and Get, which
  await one reply at a time (`Narrow`). It is the weakest condition on the commands: the
  run `store_desync` shows what one refusal in a pipeline does. `StoreAligned` is inductive
  with it (`InOrder` is `Aligned` over the sequence `Names` of what is outstanding; `NamesTake`,
  `NamesServe` and the like say that a step of the buffers or the server drops its head, appends to it
  or leaves it), and gives `StoreReceivesItsOwn`. `StoreDatabasesSeparate` adds `Selects`: an HMSET or
  LPUSH is alone in its queue and its database is selected (`Writes`, also of a connection
  that is lost, whose commands arrive late), because a method that waits for the reply to a SELECT either
  has it unexecuted in the queue, or has the database selected, or has an error to receive
  (`Chosen`). `StoreOrphansAccounted` is for finitely many clients that put and look up. It needs to know
  what each method has under way with its arguments, not only by name: `Commanded` says that what is queued
  is the rest of the label's script (`Scripts`) after as many replies as came. The account itself is
  `Paid`: the orphans that no Put under way `Covers` (its HMSET executed, its LPUSH not, no error
  received) are charged to the faults, each to one of its own, and so is every lost connection with an
  HMSET still under way (`Late`), which may store its hash at any later time: that is the hash it is
  then charged for. `StoreFirstPutStays` is for any
  number of clients and any methods, under `PipelinesHold`. Over `InOrder`, `Selects` and `Commanded` it
  needs `Unstored`: an HMSET under way, also one that a lost connection left and nobody
  awaits, overwrites or has its hash free (`Vacant`), and an EXISTS that answered "no" is still
  right when its Put reads it (`SawNone`), where free (`FreeFor`) means that the hash has no entry or one
  that is newer than the call. It is inductive because only an HMSET takes an entry's place, which makes
  the hash newer for every call under way, and because a connection that is lost has nothing left to
  append (`Unsent`).
* `StoreIndexProofs`, for one client (`OneClient`), any hashes, ids, lists and methods: until the first
  fault the store implements `HashIndex`, step by step (`StoreActsAtomically`). The mapping is that of
  `StoreProperties`; the proof writes it element by element (`EntryOf`, `CopiesOf`) over what is
  half done (`PutHalf`, `HashHalf`, `IdHalf`) by the label and the number of replies that came. The
  invariant is `Undisturbed`: as long as there was no fault, `InOrder`, `DatabasesSeparate` and
  `Calm`, which says of the running method that its script is the one of its label (`Waits`), that
  the database its next command needs is selected (`InDb`), that each reply under way still says what
  is stored (`Truth`: nothing behind a reply writes), and what it relies on at its next write:
  a Put that does not overwrite found no entry (`PutPlan`), a deletion by hash has looked up the very
  entry it deletes (`HashPlan`), and the loop of a deletion by id has still to delete, or has
  deleted, each entry its list names and no other (`IdPlan`). The lookup of a deletion then
  reads the reply to its own HGETALL, so that until the first fault nothing reads past the end of a reply (`NeverPastEnd`). With that, each command the server executes
  is the one step of the index it stands for (`HmsetPuts`, `DelDeletes`, `LrangeDeletes`) or none
  (`LpushStutters`, `LremStutters`, `DelStutters`, `DelListStutters`, `QuietStutters`), a reply
  received changes nothing (`HalfContinues`) or is the answer of a query (`QueryAnswers`).
  `StoreOwnerListed` is then the index's own invariant (`IndexInductive`: an entry is listed under its
  id), carried over. Of the index itself, over any state it is mapped to: `IndexOwnerListed`, and hence
  a deletion by id leaves no entry of that id (`IndexForgets`).
* `ClipReaderProofs` (`ClipReaderAssumption`: the bounds are naturals). `IInv` is the
  properties and what they need: before the video is open nothing has moved
  (`Unopened`); the decoder then holds exactly its delay (`Filled`); a save under way has
  written or dropped every frame before its index, which is in its range
  (`Under`); and each picture the decoder holds, or gave, for a frame of the save is one that a request for
  that frame reaches past frames without a picture (`Reached`, `Late`), so that the next one out is
  right too. From it, `ClipReaderRange`,
  `ClipReaderSave`, `ClipReaderPicture`, `ClipReaderScreen` and `ClipReaderTypes`, for every
  length of video and every delay.
* `ReaderProofs` (`RedisReaderAssumption`; `ProtocolAssumption`: the replies are trees, their streams have
  the layout above), for any replies, any number and depth of them, any size of the stack and any point at
  which the buffer is cut. What the reader knows is stated over its place in the stream: `Parsed`, the units
  fed that are before the cursor, which neither a cut of the buffer nor a new piece of input
  changes (`FeedBuffer`, `DiscardBuffer`); so an item reads its own units wherever a piece ended (`ItemSees`). The
  stack is the path to the item in hand, each task with the type and the size of an array that was sent.
  The first part is about the order of the items of a tree. `MoveToNextTask` goes to the
  immediate successor of the item in hand: its next sibling, or that of the
  deepest array that is not finished (`NextAlong`), or the first element of an array (`NextBelow`), or
  nowhere, when nothing follows (`NoneNext`, `NothingBehind`). Since the stream has no gap, the
  successor starts where the item ends (`NextPlace`), and the last item of a reply ends where the next
  reply starts (`LastPlace`). The invariant `IInv` is `BufferOK` (buffer and input are the stream),
  `TakenOK` (what was returned is what was sent), and one of `Failed`, `Idle` (between two replies),
  `Over` (a reply begun at the end of the stream), `Ready` (a reply complete and not returned) and `Within`: the
  reply built is exactly the items that precede the one in hand, none of which is unreadable. TLC was run on `IInv` too, on the instance of
  `redis_reader`, before it was proved. From it `ReaderStack`, `ReaderReplies` and `ReaderErrors`; the action
  property `ReaderReturns` also uses that a call returns empty-handed only when the units of the item in hand
  are not all there.
* `ConnectProofs` (`ConnectAssumption`). `IInv` is the types, the mode of the socket at each
  call (`SocketMode`), what is known of `err` and `c->fd` there (`Told`), and `Balance`: one socket more was
  opened than closed exactly at the calls that hold one. From it `ConnectTypeOK`,
  `AttemptsLeaveNoSocket`, `SocketsClosedOnce` (with its two exceptions) and `ErrorsAreTold`, for
  a name of any number of addresses.
* `AsyncProofs` (`AsyncAssumption`; `DictAssumption`: the hash is any function to the naturals, a
  table has a bucket to start with). Its first part is about `Dict`. `Sound` says that every entry is
  in the bucket of its hash, that a key has one entry, and that `used` counts them. `Expand`, `Replace`
  and `Delete` keep it; in a sound table one bucket holds all that matches (`MatchesAll`,
  `SoundFind`); and `ReplaceInMap` and `DeleteFromMap` say what the operations do to the entries as a
  map: they touch no other key. For the context, `IInv` is `TypeOK`, `Wired` (every
  callback in a list, in a table or in a reply is of an accepted command), `Heard`
  (`got` is a sequence per command), `Tables` (both tables are `Sound`) and `Watched` (what
  the watchers are while there is something to do, also inside the handlers).
  From it `AsyncTypeOK`, `WatchersAreStarted` and `SubscriptionsAreFound` (`TablesFind`), for any
  scripts, channels, hash function and number of messages.

  Its last part is about which callback gets which reply. A reply names nothing: `ProcessCallbacks` takes
  the first callback of `replies`, or looks in a table, or takes the first of `sub.invalid`, by the
  flags and the type of the reply. That this gives each command its own reply rests on an account of
  everything under way, over `W` = `rdr \o sock`, what the server has sent and the context has not
  processed:
  * `Listed`: the two lists hold commands in the order of their acceptance, those of `replies` before those
    of `invalid`, and `obuf` the last ones accepted;
  * `Matching`: the answers in `W` are to the oldest pending commands, in order, each once, and while there is a
    connection to every pending command that was written;
  * `ArraysDue`: a message finds the context subscribed, its channel in a table, and
    `replies` empty by the time it is processed, since a non-empty list would take it;
  * `LeavesLast`: behind the message that ends a subscription nothing was issued, and the one with count 0,
    which ends the subscribed state, is the last of `W`;
  * `Unwritten`, `ServerAgrees`: what is still in `obuf` will find the state it relies on, and the
    server's subscriptions are those of the tables but for what is on its way in either direction;
  * `Newest`: the entry of a channel is the latest SUBSCRIBE to it;
  * `Accounted`: a command is pending and its callback was not called, or it is not and was called once, with its
    reply, NULL or the refusal;
  * `Invalid`, `Clean`: what `sub.invalid` holds, and what is true at the end of the context.

  None of these is inductive without the others: `Matching` needs `ArraysDue`, or a message would
  take a callback of the list; `ArraysDue` needs `LeavesLast`, or the subscribed state could
  end before its message; `LeavesLast` needs `Orderly`. `Orderly` can only be lost, so the invariant is
  `Ordered` = `IInv /\ Newest /\ (Orderly => Order)`. From it `CallbacksAreCalledOnce`,
  `RepliesAreOwn`, `CleanHasAnswered`, `UseIsSafe` and the action property `TheLatestHears`.

Model-checked only:

* liveness, which needs fairness and ENABLED: `MethodsReturn`, `Answered`, `DisconnectEnds`,
  `ConnectReturns`;
* that the recursive writer of `MCRedisReader` has the layout `ReaderProperties` asks for: an induction
  over replies, checked for the replies of the run;
* the three violations.

## 5. Findings

1. `RedisHashStore.cpp:172`: an error reply in the middle of a pipeline throws with
   replies unread; the next method takes them for its own, so a lookup can return
   nothing, or an entry of default values, or read past the end of an array of odd
  length (lines 107-109).
2. `RedisHashStore.cpp:77`: overwriting a hash with a frame of another clip leaves
   it in the first clip's list; "Test Overwrite" (`TestRedisHashStore.cpp:199-213`)
   holds only because both entries have one id. Deleting the first clip then deletes
   the second clip's frame.
3. `clipseekr_main.cpp:361`: hits below the threshold count in any order, while line 55
   calls them sequential frames.

`SharingExplained` shows one more: clip numbers continue from the count of hashes
(`clipster_main.cpp:181-182`); a file that adds none makes a later clipster give its number to another
clip, and the monitor adds up the hits of the two. Of the asynchronous context,
`SafeUse`, `ClosedOnce` and the definition of `Orderly` name exactly these cases:

* `redisAsyncDisconnect` with replies outstanding: the first read that does not bring
  them all fails the assertion of `async.c:320`, while `hiredis/README.md:301-306` promises that the
  connection ends when all replies have been read; it does so only when all of
  them come in one read. `SafeUse` and `DisconnectEnds` admit this end of an orderly program and no
  other; `Answered` counts it as an end. With no reply outstanding but
  commands without one (SUBSCRIBE) not yet written, a disconnect from the loop ends at once.
* A command or SUBSCRIBE issued while an UNSUBSCRIBE is unanswered can meet the assertion
  of line 442, because the answer clears the subscribed state they rely on.
* UNSUBSCRIBE of a channel that is not subscribed: line 369 finds no callback, and
  line 452 reads a structure nothing was written to. So does MONITOR, whose callback
  line 409 pushes again after every read, whatever reply came last, or none. A program that
  monitors, unsubscribes what it subscribed to and then unsubscribes all can meet the assertion of line 367:
  the callback of MONITOR took the message that would have ended the subscribed state.
* An error in reply to a command issued while subscribed is taken for one the server sends
  of itself, and ends the connection (line 430), although such commands have a
  list of callbacks of their own (lines 611-612).
* A connect that fails in the background closes the descriptor in
  `redisCheckSocketError` (`net.c:220-230`) and again in `redisFree`; descriptor 0 is never closed
  (`hiredis.c:1004`).

Seen in the code and not checked by a run: `clipster --delete` is parsed and never
acted on; a connect callback of the asynchronous context is called without the flag that
defers a free; `framehash` ignores its block argument and `_framehash` shifts the first of
its 64 bits out. In ClipReader: the `s` key can set the end mark one past the last
frame (`ClipReader.cpp:250`), and a save then writes every frame to the last and says
"not saved"; marking one frame as start and end saves everything up to it, or the
whole video (258-260); a backspace in the name moves the cursor and leaves the
character in the name (136-141); frames the encoder refuses are missing without a word;
the decoder is not flushed at a seek, so a late one shows and saves pictures of the last
position first; a frame that does not decode is replaced by the next one that does, in the window
and in a file (`FrameReader.cpp:74-82`); `FrameReader.cpp:76` adds an int to a string literal. `SaveIsExact` and
`RangeInClip` state exactly what holds despite the first two.

## 6. Abstractions and what is not modelled

* A call on a context that has seen an error throws before it sends anything: such
  calls are left out. A store is used by one thread, as in both programs.
* Shot cuts (`calc_histdiff`, `calc_ecr`) are only printed and decide nothing.
* Pixels, the DCT, decoding and encoding are numeric library code: a frame is black,
  unhashable, or stands for an entry.
* ClipReader: the decoder and the encoder are external; `FrameReader`'s `currentframe`
  only chooses whether a seek goes backwards, and a seek to a frame of the video is taken to
  find it; the name typed, and what is drawn, are left out but for the marks.
* Reader: part of a unit counts as nothing, as `readBytes` and `readLine` treat it; the
  server sends well-formed lengths (no array of fewer than -1 elements). The formatting
  of commands (`redisvFormatCommand`) is not modelled.
* The capture library's queue is external: whether a capture thread can block
  because its reader has stopped (`clipster_main.cpp:157`) cannot be told from `src/`.
* `framehash` is floating-point arithmetic of the image library up to a loop that packs
  64 comparisons; nothing says which bits it should give.
* Connect: what `getaddrinfo`, the socket options and the network do is any outcome;
  `errno` is the two values the code tells apart.
* Async: the text of a reply, of which the code looks at its type, its first letters and the
  count; readers and allocation functions a program replaces; several contexts in one
  loop, which share nothing; a connect callback that calls the context, for which it would have to
  cast away const. Of the adapters only `libev.h`; `ae.h`, `libevent.h` and `libuv.h`
  do the same with the calls of their libraries.
* `sds` is a string library: lengths and memory, no state of its own.
* `TableHashStore` is built into no program and does not match its own header.
* Monitor: `pause_until` starts as the raw timestamp of the first frame and holds seconds after the
  first report; it is read only while `found` is set, and set with it: it starts at 0 here.
* Store: that a Put of one client during `DeleteEntry(id)` of another can strand an entry
  (LPUSH between LRANGE and DEL) is in the model and in no run: no program calls
  `DeleteEntry(id)`.

## 7. State of the plan

Done: the store over Redis and hiredis, the atomic index and the refinement, the
reply reader, the asynchronous context with its dictionary, the set-up of connections,
the monitor, clipster, ClipReader, and the proofs above. What would come next:

1. Two writers with a deleting client.
2. `clipseekr` monitoring while a `clipster` indexes.
