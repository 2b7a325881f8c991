------------------------------ MODULE Clipster ------------------------------
(* clipster (clipster_main.cpp): programs that index directories of clips,  *)
(* one file at a time, each file under a number that continues from the     *)
(* number of hashes found in the database at the start.  The monitor tells  *)
(* clips apart by that number alone (Monitor).                              *)
(*                                                                          *)
(* The two threads of a file are one process here: the capture library      *)
(* (external) hands process_video the frames of the file in order, and may  *)
(* end the stream early or throw at any frame.  The index is database 0;    *)
(* what a Put does to it is EXISTS, unless it overwrites, and HMSET         *)
(* (RedisHashStore), between which other programs take steps.               *)
EXTENDS Integers, FiniteSets, Sequences

CONSTANTS
    Programs,  \* clipster processes on one server
    Files,     \* file names: the ids of the clips
    Hashes,
    Content,   \* Content[f]: the hashes of the frames of file f, in order
    None,      \* no entry, no file
    MaxStarts  \* bound: programs started

Entry == [id : Files, idnum : Nat, seqnum : Nat]

ASSUME ClipsterAssumption ==
    /\ IsFiniteSet(Hashes)
    /\ Content \in [Files -> Seq(Hashes)]
    /\ None \notin Files /\ None \notin Entry
    /\ MaxStarts \in Nat

VARIABLES
    index,      \* database 0: the entry of a hash, or None
    pc,         \* "off", "files", or where process_video is: "pull", "exists", "store"
    overwrite,  \* the -o flag
    todo,       \* files still to add
    file,       \* the file being added, or None
    nbentries,  \* number of the last file
    count,      \* frames pulled of the file and put
    starts,     \* programs started
    gained,     \* history: the file has added a hash that was not in the index
    wasted,     \* history: files given a number that added none
    overlapped  \* history: two programs have run at the same time

program == <<pc, overwrite, todo, file, nbentries, count, gained>>
vars == <<index, program, starts, wasted, overlapped>>

Stored == {h \in Hashes : index[h] # None}
GetCount == Cardinality(Stored)

Init ==
    /\ index = [h \in Hashes |-> None]
    /\ pc = [p \in Programs |-> "off"]
    /\ overwrite = [p \in Programs |-> FALSE]
    /\ todo = [p \in Programs |-> {}]
    /\ file = [p \in Programs |-> None]
    /\ nbentries = [p \in Programs |-> 0]
    /\ count = [p \in Programs |-> 0]
    /\ starts = 0
    /\ gained = [p \in Programs |-> FALSE]
    /\ wasted = 0
    /\ overlapped = FALSE

(* Mutant: numbers start from 0 in every program. *)
StartFromZero(p) ==
    /\ pc[p] = "off"
    /\ starts < MaxStarts
    /\ starts' = starts + 1
    /\ \E fs \in SUBSET Files \ {{}} : todo' = [todo EXCEPT ![p] = fs]
    /\ \E ow \in BOOLEAN : overwrite' = [overwrite EXCEPT ![p] = ow]
    /\ nbentries' = [nbentries EXCEPT ![p] = 0]
    /\ pc' = [pc EXCEPT ![p] = "files"]
    /\ overlapped' = (overlapped \/ \E q \in Programs : pc[q] # "off")
    /\ UNCHANGED <<index, file, count, gained, wasted>>

(* The program connects, counts the entries and reads the directory.  When  *)
(* one of the three fails it ends and has changed nothing.                  *)
Start(p) ==
    /\ pc[p] = "off"
    /\ starts < MaxStarts
    /\ starts' = starts + 1
    /\ \E fs \in SUBSET Files \ {{}} : todo' = [todo EXCEPT ![p] = fs]
    /\ \E ow \in BOOLEAN : overwrite' = [overwrite EXCEPT ![p] = ow]
    /\ nbentries' = [nbentries EXCEPT ![p] = GetCount]
    /\ pc' = [pc EXCEPT ![p] = "files"]
    /\ overlapped' = (overlapped \/ \E q \in Programs : pc[q] # "off")
    /\ UNCHANGED <<index, file, count, gained, wasted>>

(* VideoCapture's constructor or CountVideoPackets throws: add_file catches *)
(* it, and the number is used up.                                           *)
FileUnopened(p) ==
    /\ pc[p] = "files"
    /\ \E f \in todo[p] : todo' = [todo EXCEPT ![p] = @ \ {f}]
    /\ nbentries' = [nbentries EXCEPT ![p] = @ + 1]
    /\ wasted' = wasted + 1
    /\ UNCHANGED <<index, pc, overwrite, file, count, starts, gained, overlapped>>

(* Mutant: the frame count goes on from the file before. *)
AddFileCountingOn(p) ==
    /\ pc[p] = "files"
    /\ \E f \in todo[p] :
         /\ todo' = [todo EXCEPT ![p] = @ \ {f}]
         /\ file' = [file EXCEPT ![p] = f]
    /\ nbentries' = [nbentries EXCEPT ![p] = @ + 1]
    /\ pc' = [pc EXCEPT ![p] = "pull"]
    /\ UNCHANGED <<index, overwrite, count, starts, gained, wasted, overlapped>>

(* add_file(f, ++nbentries, ...). *)
AddFile(p) ==
    /\ pc[p] = "files"
    /\ \E f \in todo[p] :
         /\ todo' = [todo EXCEPT ![p] = @ \ {f}]
         /\ file' = [file EXCEPT ![p] = f]
    /\ nbentries' = [nbentries EXCEPT ![p] = @ + 1]
    /\ count' = [count EXCEPT ![p] = 0]
    /\ pc' = [pc EXCEPT ![p] = "pull"]
    /\ UNCHANGED <<index, overwrite, starts, gained, wasted, overlapped>>

(* A frame is pulled and hashed. *)
Frame(p) == Content[file[p]][count[p] + 1]

PullFrame(p) ==
    /\ pc[p] = "pull"
    /\ count[p] < Len(Content[file[p]])
    /\ pc' = [pc EXCEPT ![p] = IF overwrite[p] THEN "store" ELSE "exists"]
    /\ UNCHANGED <<index, overwrite, todo, file, nbentries, count, starts,
                   gained, wasted, overlapped>>

(* EXISTS: a hash that is stored keeps its entry. *)
Exists(p) ==
    /\ pc[p] = "exists"
    /\ IF index[Frame(p)] # None
       THEN /\ pc' = [pc EXCEPT ![p] = "pull"]
            /\ count' = [count EXCEPT ![p] = @ + 1]
       ELSE pc' = [pc EXCEPT ![p] = "store"] /\ UNCHANGED count
    /\ UNCHANGED <<index, overwrite, todo, file, nbentries, starts,
                   gained, wasted, overlapped>>

(* Mutant: every frame takes a number of its own. *)
StoreNumbering(p) ==
    /\ pc[p] = "store"
    /\ index' = [index EXCEPT ![Frame(p)] =
                    [id |-> file[p], idnum |-> nbentries[p], seqnum |-> count[p]]]
    /\ gained' = [gained EXCEPT ![p] = @ \/ index[Frame(p)] = None]
    /\ nbentries' = [nbentries EXCEPT ![p] = @ + 1]
    /\ count' = [count EXCEPT ![p] = @ + 1]
    /\ pc' = [pc EXCEPT ![p] = "pull"]
    /\ UNCHANGED <<overwrite, todo, file, starts, wasted, overlapped>>

(* HMSET. *)
Store(p) ==
    /\ pc[p] = "store"
    /\ index' = [index EXCEPT ![Frame(p)] =
                    [id |-> file[p], idnum |-> nbentries[p], seqnum |-> count[p]]]
    /\ gained' = [gained EXCEPT ![p] = @ \/ index[Frame(p)] = None]
    /\ count' = [count EXCEPT ![p] = @ + 1]
    /\ pc' = [pc EXCEPT ![p] = "pull"]
    /\ UNCHANGED <<overwrite, todo, file, nbentries, starts, wasted, overlapped>>

InFile(p) == pc[p] \in {"pull", "exists", "store"}

(* process_video ends: the stream is over, or an exception (capture, store, *)
(* a frame that cannot be hashed) is caught around the frame loop.  The     *)
(* program goes on with the next file.                                      *)
EndFile(p) ==
    /\ InFile(p)
    /\ pc' = [pc EXCEPT ![p] = "files"]
    /\ file' = [file EXCEPT ![p] = None]
    /\ wasted' = IF gained[p] THEN wasted ELSE wasted + 1
    /\ gained' = [gained EXCEPT ![p] = FALSE]
    /\ UNCHANGED <<index, overwrite, todo, nbentries, count, starts, overlapped>>

(* The program ends, and its variables with it. *)
Finish(p) ==
    /\ pc[p] = "files"
    /\ todo[p] = {}
    /\ pc' = [pc EXCEPT ![p] = "off"]
    /\ overwrite' = [overwrite EXCEPT ![p] = FALSE]
    /\ nbentries' = [nbentries EXCEPT ![p] = 0]
    /\ count' = [count EXCEPT ![p] = 0]
    /\ UNCHANGED <<index, todo, file, starts, gained, wasted, overlapped>>

Next == \E p \in Programs :
    \/ Start(p) \/ FileUnopened(p) \/ AddFile(p)
    \/ PullFrame(p) \/ Exists(p) \/ Store(p)
    \/ EndFile(p) \/ Finish(p)

Spec == Init /\ [][Next]_vars

-----------------------------------------------------------------------------
TypeOK ==
    /\ index \in [Hashes -> Entry \cup {None}]
    /\ pc \in [Programs -> {"off", "files", "pull", "exists", "store"}]
    /\ overwrite \in [Programs -> BOOLEAN]
    /\ todo \in [Programs -> SUBSET Files]
    /\ file \in [Programs -> Files \cup {None}]
    /\ nbentries \in [Programs -> Nat]
    /\ count \in [Programs -> Nat]
    /\ starts \in 0..MaxStarts
    /\ gained \in [Programs -> BOOLEAN]
    /\ wasted \in Nat
    /\ overlapped \in BOOLEAN
    /\ \A p \in Programs :
         InFile(p) => /\ file[p] \in Files
                      /\ count[p] <= Len(Content[file[p]])
                      /\ pc[p] # "pull" => count[p] < Len(Content[file[p]])

(* A file that has used up its number and has added nothing yet. *)
Pending == IF \E p \in Programs : InFile(p) /\ ~gained[p] THEN 1 ELSE 0

(* Numbers run ahead of the count of entries, from which the next program   *)
(* numbers its files (clipster_main.cpp:181-182, 222), only by the files    *)
(* that added nothing: files that could not be read, whose first frame      *)
(* failed, or all of whose frames the index had before; whatever programs   *)
(* run at the same time, overwrite each other or stop on an exception.      *)
NumbersBounded ==
    \A h \in Stored : index[h].idnum <= GetCount + wasted + Pending

(* No two clips have the same number.                                       *)
NumbersApart ==
    \A g, h \in Stored : index[g].idnum = index[h].idnum => index[g].id = index[h].id

(* Two clips share a number only if a file was given a number and added     *)
(* nothing, or two programs ran at the same time                            *)
(* (clipster_main.cpp:181-182, 222).                                            *)
SharingExplained == NumbersApart \/ wasted > 0 \/ overlapped
=============================================================================
