------------------------------ MODULE Monitor ------------------------------
(* The monitor of clipseekr (pull_video_packets in clipseekr_main.cpp): it  *)
(* pulls the frames of a stream, hashes each, looks the hash up in the      *)
(* index and decides when enough frames of a clip have been seen.  One      *)
(* action stands for one turn of the frame loop, from a frame in hand to    *)
(* the next PullVideoFrame.                                                 *)
(*                                                                          *)
(* The pixels are abstracted to what the loop learns from them: whether the *)
(* frame is black, whether it can be hashed, and the entry its hash stands  *)
(* for.  Shot cuts (HARDCUT) are only printed and are left out.             *)
EXTENDS Integers

CONSTANTS
    Stored,              \* entries lookups may return: [idnum, seqnum, total]
    None,                \* no entry; no element of a map
    DetectionThreshold,  \* args.detection_threshold, any int
    BlackThreshold,      \* args.blackframe_threshold, any int
    FrameRates,          \* frames per second, rounded, of the streams it is given
    Window,              \* 50 in the code
    IntMax,              \* the largest int; unsigned arithmetic is modulo 2*(IntMax+1)
    MaxTime,             \* bound: the last timestamp, in seconds
    MaxStep,             \* bound: seconds between two frames
    MaxBlack             \* bound: black frames in succession

UInt == 0..(2 * IntMax + 1)
Modulus == 2 * (IntMax + 1)
IdNums == {e.idnum : e \in Stored}

ASSUME MonitorAssumption ==
    /\ IntMax \in Nat
    /\ Stored \subseteq [idnum : UInt, seqnum : UInt, total : UInt]
    /\ None \notin Int
    /\ None \notin Stored
    /\ DetectionThreshold \in Int
    /\ Window \in Nat /\ Window <= IntMax
    /\ FrameRates \subseteq Nat /\ BlackThreshold \in Int
    /\ MaxTime \in Nat /\ MaxStep \in Nat /\ MaxBlack \in Nat

VARIABLES
    status,      \* of the thread: "running", "done", "failed" (caught), "killed"
    fps,         \* frames per second of the stream
    now,         \* timestamp of the frame in hand, in whole seconds
    counts,      \* ids_counts: hits counted for an id number, or None
    prev,        \* ids_prev: sequence number of its last hit, or None
    found,       \* a clip was found and is presumably still playing
    pauseUntil,  \* pause_until
    previousBlack,
    nBlack,      \* nblackframes
    said,        \* what the last turn printed
    hist         \* history, per id number, since it was last found: hits (up to the
                 \* threshold), frames of the present run of sequential hits, last hit

vars == <<status, fps, now, counts, prev, found, pauseUntil, previousBlack, nBlack, said,
          hist>>

Silence == [is |-> "nothing", entry |-> None]
Untouched == [hits |-> 0, run |-> 0, last |-> None]

Init ==
    /\ status = "running"
    /\ fps \in FrameRates
    /\ now \in 0..MaxTime
    /\ counts = [i \in IdNums |-> None]
    /\ prev = [i \in IdNums |-> None]
    /\ found = FALSE
    /\ pauseUntil = now
    /\ previousBlack = FALSE
    /\ nBlack = 0
    /\ said = Silence
    /\ hist = [i \in IdNums |-> Untouched]

-----------------------------------------------------------------------------
(* PullVideoFrame: the next frame, whose timestamp is not an earlier one;   *)
(* NULL at the end of the stream; or VideoCaptureException, caught around   *)
(* the whole loop.                                                          *)
Pull ==
    \/ /\ now' \in now..(now + MaxStep)
       /\ now' <= MaxTime
       /\ UNCHANGED status
    \/ /\ status' \in {"done", "failed"}
       /\ UNCHANGED now

(* The thread ends inside a turn. *)
End(how) ==
    /\ status = "running"
    /\ status' = how
    /\ said' = Silence
    /\ UNCHANGED <<fps, now, counts, prev, found, pauseUntil, previousBlack, nBlack, hist>>

(* DEADSIGNAL is printed after the next frame was pulled. *)
BlackFrame ==
    /\ status = "running"
    /\ nBlack < MaxBlack
    /\ Pull
    /\ previousBlack' = TRUE
    /\ nBlack' = nBlack + 1
    /\ said' = [is |-> IF nBlack' = BlackThreshold * fps /\ status' # "failed"
                       THEN "DEADSIGNAL"
                       ELSE IF previousBlack THEN "nothing" ELSE "BLACKFRAME",
                entry |-> None]
    /\ UNCHANGED <<fps, counts, prev, found, pauseUntil, hist>>

(* A frame that is not black. *)
Picture ==
    /\ status = "running"
    /\ Pull
    /\ previousBlack' = FALSE
    /\ nBlack' = 0
    /\ UNCHANGED fps

(* framehash fails (err = 3), whether or not a clip is playing. *)
UnhashableFrame == End("failed")

(* Mutant: the pause ends a second early. *)
PausedFrameShort ==
    /\ found
    /\ Picture
    /\ IF now + 1 >= pauseUntil THEN found' = FALSE ELSE UNCHANGED found
    /\ said' = Silence
    /\ UNCHANGED <<counts, prev, pauseUntil, hist>>

(* While a clip is playing frames are not looked up; the frame that ends    *)
(* the pause is not looked up either.                                       *)
PausedFrame ==
    /\ found
    /\ Picture
    /\ IF now >= pauseUntil THEN found' = FALSE ELSE UNCHANGED found
    /\ said' = Silence
    /\ UNCHANGED <<counts, prev, pauseUntil, hist>>

(* RedisStoreException. *)
LookupFails == ~found /\ End("failed")

UnknownFrame ==
    /\ ~found
    /\ Picture
    /\ said' = Silence
    /\ UNCHANGED <<counts, prev, found, pauseUntil, hist>>

(* A lookup returned entry e.  GetHashValue reads its numbers with stoi     *)
(* (RedisHashStore.cpp:117-121), whose out_of_range nobody catches.         *)
Parses(e) == e.idnum <= IntMax /\ e.seqnum <= IntMax /\ e.total <= IntMax

UnparsableFrame ==
    /\ ~found
    /\ \E e \in Stored : ~Parses(e)
    /\ End("killed")

(* Mutant: the last frame of the window is outside. *)
InWindowStrict(e) ==
    /\ e.seqnum > prev[e.idnum]
    /\ e.seqnum < (prev[e.idnum] + Window) % Modulus

(* seqnum follows the last hit of its clip, at most Window frames later, in *)
(* unsigned arithmetic.                                                     *)
InWindow(e) ==
    /\ e.seqnum > prev[e.idnum]
    /\ e.seqnum <= (prev[e.idnum] + Window) % Modulus

(* History: the hit e continues the run of the hit before it. *)
Follows(e, last) == last # None /\ last < e.seqnum /\ e.seqnum <= last + Window

Record(e) ==
    hist' = [hist EXCEPT ![e.idnum] =
                [hits |-> IF @.hits < DetectionThreshold THEN @.hits + 1 ELSE @.hits,
                 run |-> IF Follows(e, @.last) THEN @.run + 1 ELSE 1,
                 last |-> e.seqnum]]

(* The lookup counts as hit number n of its clip. *)
Count(e, n) ==
    /\ ~found
    /\ Parses(e)
    /\ Picture
    /\ counts' = [counts EXCEPT ![e.idnum] = n]
    /\ prev' = [prev EXCEPT ![e.idnum] = e.seqnum]
    /\ said' = Silence
    /\ Record(e)
    /\ UNCHANGED <<found, pauseUntil>>

FirstHit(e) == counts[e.idnum] = None /\ Count(e, 1)

(* Below the threshold every hit counts, whatever its sequence number. *)
NextHit(e) ==
    /\ counts[e.idnum] # None
    /\ counts[e.idnum] < DetectionThreshold
    /\ Count(e, counts[e.idnum] + 1)

Enough(e) == counts[e.idnum] # None /\ counts[e.idnum] >= DetectionThreshold

HitOutOfWindow(e) == Enough(e) /\ ~InWindow(e) /\ Count(e, 1)

(* Mutant: signed subtraction. *)
RemainingSigned(e) == (e.total - e.seqnum) \div fps

(* What is left of the clip, in seconds: unsigned subtraction. *)
Remaining(e) == ((e.total - e.seqnum) % Modulus) \div fps

(* Mutant: the maps keep what they counted for the clip. *)
FoundKeepsCount(e) ==
    /\ ~found
    /\ Parses(e)
    /\ Enough(e) /\ InWindow(e)
    /\ fps > 0
    /\ Picture
    /\ UNCHANGED <<counts, prev>>
    /\ found' = TRUE
    /\ pauseUntil' = now + Remaining(e)
    /\ said' = [is |-> "FOUND", entry |-> e]
    /\ hist' = [hist EXCEPT ![e.idnum] = Untouched]

Found(e) ==
    /\ ~found
    /\ Parses(e)
    /\ Enough(e) /\ InWindow(e)
    /\ fps > 0
    /\ Picture
    /\ counts' = [counts EXCEPT ![e.idnum] = None]
    /\ prev' = [prev EXCEPT ![e.idnum] = None]
    /\ found' = TRUE
    /\ pauseUntil' = now + Remaining(e)
    /\ said' = [is |-> "FOUND", entry |-> e]
    /\ hist' = [hist EXCEPT ![e.idnum] = Untouched]

(* Division by a frame rate that was rounded to zero. *)
FoundAtZeroRate(e) ==
    /\ ~found
    /\ Parses(e)
    /\ Enough(e) /\ InWindow(e)
    /\ fps = 0
    /\ End("killed")

HitFrame(e) ==
    \/ FirstHit(e) \/ NextHit(e) \/ HitOutOfWindow(e) \/ Found(e) \/ FoundAtZeroRate(e)

Next ==
    \/ BlackFrame \/ UnhashableFrame \/ PausedFrame
    \/ LookupFails \/ UnknownFrame \/ UnparsableFrame
    \/ \E e \in Stored : HitFrame(e)

Spec == Init /\ [][Next]_vars

-----------------------------------------------------------------------------
Max1(n) == IF n > 1 THEN n ELSE 1

TypeOK ==
    /\ status \in {"running", "done", "failed", "killed"}
    /\ fps \in FrameRates
    /\ now \in Nat
    /\ counts \in [IdNums -> Nat \cup {None}]
    /\ prev \in [IdNums -> 0..IntMax \cup {None}]
    /\ found \in BOOLEAN
    /\ pauseUntil \in Nat
    /\ previousBlack \in BOOLEAN
    /\ nBlack \in Nat
    /\ said \in [is : {"nothing", "BLACKFRAME", "DEADSIGNAL", "FOUND"},
                 entry : Stored \cup {None}]
    /\ hist \in [IdNums -> [hits : Nat, run : Nat, last : 0..IntMax \cup {None}]]

FoundNow(i) == said.is = "FOUND" /\ said.entry.idnum = i

(* A clip is reported only after as many earlier hits of it, since it was   *)
(* last reported, as the detection threshold asks                           *)
(* (clipseekr_main.cpp:348-373): whatever clips, black frames and pauses    *)
(* came between, no count is left over from an earlier report or from       *)
(* another clip.                                                            *)
FoundAfterThreshold ==
    [][\A i \in IdNums : FoundNow(i)' => hist[i].hits >= DetectionThreshold]_vars

(* A clip that plays straight is not missed: no clip shows more sequential  *)
(* hits in a row, each at most Window frames after the one before, than the *)
(* threshold without being reported at the next.  The resets of lines       *)
(* 357-360 and the erasing of lines 351-352 lose no hit of a run.           *)
StraightPlayIsFound == \A i \in IdNums : hist[i].run <= Max1(DetectionThreshold)

(* No clip is reported while one that was reported is still playing.        *)
NoReportWhilePlaying ==
    [][\A i \in IdNums : FoundNow(i)' => now >= pauseUntil]_vars

(* Comment of detection_threshold (clipseekr_main.cpp:55): "no. sequential  *)
(* frames found before considered found".                                   *)
SequentialBeforeFound ==
    [][\A i \in IdNums : FoundNow(i)' => hist[i].run >= DetectionThreshold]_vars
=============================================================================
