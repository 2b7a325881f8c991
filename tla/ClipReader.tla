----------------------------- MODULE ClipReader -----------------------------
(* ClipReader (ClipReader.cpp): a user browses a video by keys, marks the   *)
(* start and the end of a clip and saves it; FrameReader fetches frames by  *)
(* number and FrameWriter writes them.  A picture is the number of its      *)
(* frame.  One action is one key, and a save one action per frame.          *)
(*                                                                          *)
(* The decoder (external) gives a picture delay packets late, and a seek    *)
(* does not empty it: FrameReader never flushes it.  Any packet may give    *)
(* none at all (a decoding error, a frame sought that is no key frame).  A  *)
(* seek to a frame of the video finds it.  Opening, seeking, reading may    *)
(* fail at any call.                                                        *)
EXTENDS Integers, Sequences, Functions

CONSTANTS
    FirstStep,  \* 15
    MaxTotal,   \* bound: frames of the video
    MaxDelay    \* bound: the delay of its decoder

ASSUME ClipReaderAssumption == FirstStep \in Nat /\ MaxTotal \in Nat /\ MaxDelay \in Nat

VARIABLES
    mode,        \* "open", "keys", "save", "over", or "aborted" by a signal or uncaught exception
    total,       \* frames of the video
    delay,
    current, start, step, end,
    held,        \* the decoder's frames that have not come out
    shown,       \* the picture in the window
    unseen,      \* history: the frames that gave no picture when shown was fetched
    info,        \* what WriteInfo last put on the screen
    first, last, \* WriteFrames' start and end, of the last save
    index,       \* WriteFrames' loop counter
    out,         \* the frames in the file of the last save
    dropped,     \* frames of that save that the encoder did not encode
    unsaved,     \* history: the frames that gave no picture when that save read them
    report       \* "none", or what the screen says of the last save

video == <<total, delay>>
marks == <<current, start, step, end>>
window == <<shown, unseen>>
save == <<first, last, index, out, dropped, unsaved, report>>
vars == <<mode, video, marks, held, window, info, save>>

Init ==
    /\ mode = "open"
    /\ total \in 0..MaxTotal /\ delay \in 0..MaxDelay
    /\ current = 0 /\ start = 0 /\ step = FirstStep /\ end = 0
    /\ held = <<>>
    /\ shown = 0 /\ unseen = {}
    /\ info = <<0, 0, 1, 0, 0>>
    /\ first = 0 /\ last = 0 /\ index = 0
    /\ out = <<>> /\ dropped = 0 /\ unsaved = {}
    /\ report = "none"

-----------------------------------------------------------------------------
(* FrameReader::GetFrame: seek to frame i, then read packets until a        *)
(* picture comes out, whatever avcodec_decode_video2 returns for each.  It  *)
(* returns NULL outside the video, and throws when the video ends before a  *)
(* picture has come.                                                        *)
IsNull(i) == i < 0 \/ i > total - 1

(* The frames decoded on the way, in order: as many as fill the decoder and *)
(* push one picture out.  Those between them gave none.                     *)
Lacking == delay + 1 - Len(held)
Feeds(i) ==
    {f \in [1..Lacking -> i..total - 1] : \A j, k \in 1..Lacking : j < k => f[j] < f[k]}
Missed(i, f) == (i..f[Lacking]) \ Range(f)

GetFrame(i, f) ==
    /\ ~IsNull(i)
    /\ f \in Feeds(i)
    /\ held' = Tail(held \o f)

Picture(f) == Head(held \o f)

(* Nothing catches what GetFrame throws. *)
Abort == mode' = "aborted"

Shows(c, s, t, e) == info' = <<c, s, t, e, total>>

-----------------------------------------------------------------------------
(* FrameReader has counted the frames, and MainLoop shows the first.       *)
Open ==
    /\ mode = "open"
    /\ \E f \in Feeds(0) :
         GetFrame(0, f) /\ shown' = Picture(f) /\ unseen' = Missed(0, f)
    /\ end' = total - 1
    /\ mode' = "keys"
    /\ UNCHANGED <<video, current, start, step, info, save>>

(* The constructor throws, which MainLoop catches. *)
OpenFails ==
    /\ mode = "open"
    /\ mode' = "over"
    /\ UNCHANGED <<video, marks, held, window, info, save>>

(* GetFrame(0) throws; or the video has no frames, GetFrame(0) is NULL and  *)
(* its data is read.                                                        *)
FirstFrameFails ==
    /\ mode = "open"
    /\ Abort
    /\ UNCHANGED <<video, marks, held, window, info, save>>

-----------------------------------------------------------------------------
KeyUp ==
    /\ mode = "keys"
    /\ step' = IF step + 1 < total THEN step + 1 ELSE step
    /\ Shows(current, start, step', end)
    /\ UNCHANGED <<mode, video, current, start, end, held, window, save>>

(* Mutant: the step has no lower bound. *)
KeyDownUnbounded ==
    /\ mode = "keys"
    /\ step' = step - 1
    /\ Shows(current, start, step', end)
    /\ UNCHANGED <<mode, video, current, start, end, held, window, save>>

KeyDown ==
    /\ mode = "keys"
    /\ step' = IF step - 1 > 1 THEN step - 1 ELSE 0
    /\ Shows(current, start, step', end)
    /\ UNCHANGED <<mode, video, current, start, end, held, window, save>>

(* Mutant: the frame is fetched before the position changes. *)
BrowseLate(c) ==
    /\ mode = "keys"
    /\ current' = c
    /\ Shows(c, start, step, end)
    /\ \/ /\ \E f \in Feeds(current) :
              GetFrame(current, f) /\ shown' = Picture(f) /\ unseen' = Missed(current, f)
          /\ UNCHANGED mode
       \/ Abort /\ UNCHANGED <<held, window>>
    /\ UNCHANGED <<video, start, step, end, save>>

(* Go to frame c and show it.  Keys only name frames of the video           *)
(* (RangeInClip): the frame is never NULL here.                             *)
Browse(c) ==
    /\ mode = "keys"
    /\ current' = c
    /\ Shows(c, start, step, end)
    /\ \/ /\ \E f \in Feeds(c) :
              GetFrame(c, f) /\ shown' = Picture(f) /\ unseen' = Missed(c, f)
          /\ UNCHANGED mode
       \/ Abort /\ UNCHANGED <<held, window>>
    /\ UNCHANGED <<video, start, step, end, save>>

KeyLeft == Browse(IF current - step > 0 THEN current - step ELSE 0)

KeyRight == Browse(IF current + step < total THEN current + step ELSE current)

(* Mutant: the screen is written before the end mark moves. *)
MarkStartUnseen ==
    /\ mode = "keys"
    /\ start' = current
    /\ end' = IF end <= current THEN total ELSE end
    /\ Shows(current, start', step, end)
    /\ UNCHANGED <<mode, video, current, step, held, window, save>>

(* The key s.  An end mark at or before the new start goes to total, one    *)
(* past the last frame.                                                     *)
MarkStart ==
    /\ mode = "keys"
    /\ start' = current
    /\ end' = IF end <= current THEN total ELSE end
    /\ Shows(current, start', step, end')
    /\ UNCHANGED <<mode, video, current, step, held, window, save>>

(* Mutant: the start mark stays behind. *)
MarkEndOnly ==
    /\ mode = "keys"
    /\ end' = current
    /\ Shows(current, start, step, end')
    /\ UNCHANGED <<mode, video, current, start, step, held, window, save>>

(* The key e. *)
MarkEnd ==
    /\ mode = "keys"
    /\ end' = current
    /\ start' = IF start >= current THEN 0 ELSE start
    /\ Shows(current, start', step, end')
    /\ UNCHANGED <<mode, video, current, step, held, window, save>>

(* F2: the marks are put in order, a name is read, and WriteFrames opens    *)
(* the file.                                                                *)
Save ==
    /\ mode = "keys"
    /\ start' = IF start >= end THEN 0 ELSE start
    /\ end' = IF end <= start' THEN total - 1 ELSE end
    /\ first' = start' /\ last' = end' /\ index' = start'
    /\ out' = <<>> /\ dropped' = 0 /\ unsaved' = {}
    /\ report' = "none"
    /\ mode' = "save"
    /\ UNCHANGED <<video, current, step, held, window, info>>

(* FrameWriter's constructor throws: the file was not opened. *)
SaveThrows ==
    /\ mode = "keys"
    /\ start' = IF start >= end THEN 0 ELSE start
    /\ end' = IF end <= start' THEN total - 1 ELSE end
    /\ Abort
    /\ UNCHANGED <<video, current, step, held, window, info, save>>

(* One frame of WriteFrames.  WriteVideoFrame says nothing of a frame that  *)
(* the encoder refuses, or that does not fit its buffer.                    *)
WriteFrame ==
    /\ mode = "save"
    /\ index <= last
    /\ index' = index + 1
    /\ \E f \in Feeds(index) :
         /\ GetFrame(index, f)
         /\ unsaved' = unsaved \cup Missed(index, f)
         /\ \/ out' = Append(out, Picture(f)) /\ UNCHANGED dropped
            \/ dropped' = dropped + 1 /\ UNCHANGED out
    /\ UNCHANGED <<mode, video, marks, window, info, first, last, report>>

(* Mutant: a frame that cannot be had does not end the loop. *)
WriteNullGoesOn ==
    /\ mode = "save"
    /\ index <= last
    /\ IsNull(index)
    /\ index' = index + 1
    /\ UNCHANGED <<mode, video, marks, held, window, info, first, last>>
    /\ UNCHANGED <<out, dropped, unsaved, report>>

(* GetFrame returns NULL: the file is finished, and said not to be saved.   *)
WriteNull ==
    /\ mode = "save"
    /\ index <= last
    /\ IsNull(index)
    /\ report' = "not saved"
    /\ mode' = "keys"
    /\ UNCHANGED <<video, marks, held, window, info, first, last, index, out, dropped, unsaved>>

WriteThrows ==
    /\ mode = "save"
    /\ index <= last
    /\ ~IsNull(index)
    /\ Abort
    /\ UNCHANGED <<video, marks, held, window, info, save>>

WriteEnds ==
    /\ mode = "save"
    /\ index > last
    /\ report' = "saved"
    /\ mode' = "keys"
    /\ UNCHANGED <<video, marks, held, window, info, first, last, index, out, dropped, unsaved>>

Quit ==
    /\ mode = "keys"
    /\ mode' = "over"
    /\ UNCHANGED <<video, marks, held, window, info, save>>

Next ==
    \/ Open \/ OpenFails \/ FirstFrameFails
    \/ KeyUp \/ KeyDown \/ KeyLeft \/ KeyRight
    \/ MarkStart \/ MarkEnd \/ Save \/ SaveThrows
    \/ WriteFrame \/ WriteNull \/ WriteThrows \/ WriteEnds
    \/ Quit

Spec == Init /\ [][Next]_vars

-----------------------------------------------------------------------------
TypeOK ==
    /\ mode \in {"open", "keys", "save", "over", "aborted"}
    /\ total \in 0..MaxTotal /\ delay \in 0..MaxDelay
    /\ current \in Nat /\ start \in Nat /\ step \in Nat /\ end \in Nat
    /\ held \in Seq(Nat)
    /\ shown \in Nat /\ unseen \subseteq Nat /\ unsaved \subseteq Nat
    /\ info \in Nat \X Nat \X Nat \X Nat \X Nat
    /\ first \in Nat /\ last \in Nat /\ index \in Nat
    /\ out \in Seq(Nat) /\ dropped \in Nat
    /\ report \in {"none", "saved", "not saved"}

Running == mode \in {"keys", "save"}

(* Whatever keys are pressed, the position is a frame of the video, and the *)
(* start mark is before the end mark, which is a frame or one past the      *)
(* last, or both are at 0 (ClipReader.cpp:234-256).  A save has a range in  *)
(* order, which holds one frame only in a video of one frame: to mark frame *)
(* n as start and as end saves 0 to n, or everything (258-260).             *)
RangeInClip ==
    /\ Running => /\ current < total
                  /\ end <= total
                  /\ start < end \/ (start = 0 /\ end = 0)
    /\ mode = "save" => /\ first = start /\ last = end
                        /\ first < last \/ (first = last /\ total = 1)

(* Picture p is what a request for frame i may give when those of missing   *)
(* gave none: frame i, or the first one after it that is decoded.           *)
Reached(i, p, missing) == i <= p /\ i..p - 1 \subseteq missing

(* What the screen says of a save (ClipReader.cpp:262-266).  A file said to *)
(* be saved holds a picture for each frame of its range in order, and one   *)
(* said not to be saved for each frame from its start to the last: its end  *)
(* mark was one past that, and it lacks nothing.  Frames the encoder gives  *)
(* up are missing without a word; a frame that does not decode is replaced  *)
(* by the next one that does (FrameReader.cpp:74-82); and a decoder that is *)
(* late puts its own delay of frames from before the save at the head, for  *)
(* the last ones of the range.                                              *)
SaveIsExact ==
    /\ report = "saved" => Len(out) + dropped = last + 1 - first
    /\ report = "not saved" => last = total /\ Len(out) + dropped = total - first
    /\ report # "none" /\ dropped = 0 =>
         \A k \in 1..Len(out) : k > delay => Reached(first + k - 1 - delay, out[k], unsaved)

(* The window shows the frame that the screen calls current, or the first   *)
(* decoded one after it, before and after a save, which uses the same       *)
(* reader and its frame (ClipReader.cpp:176, 237-245); for a decoder that   *)
(* is not late.                                                             *)
ShownIsCurrent == Running /\ delay = 0 => Reached(current, shown, unseen)

(* The marks on the screen are the marks, but for two stale cases: before   *)
(* the first key they are those of main (ClipReader.cpp:287), and a save    *)
(* that finds both marks at 0 moves the end to the last frame unseen        *)
(* (259-260).                                                               *)
ScreenShowsMarks ==
    Running =>
      \/ info = <<current, start, step, end, total>>
      \/ info = <<0, 0, 1, 0, 0>> /\ start = 0 /\ end = total - 1
      \/ info = <<current, 0, step, 0, total>> /\ start = 0 /\ end = total - 1
=============================================================================
