-------------------------- MODULE ClipReaderProofs --------------------------
(* For videos of any length and decoders of any delay: the marks of         *)
(* ClipReader are a range of the video, a save holds what the screen says   *)
(* of it, and the window shows the current frame.                           *)
EXTENDS ClipReader, SequenceTheorems, TLAPS

(* The decoder never holds more frames than its delay, and that many once a *)
(* picture has come out of it.                                              *)
Filled ==
    /\ Len(held) <= delay
    /\ Running => Len(held) = delay

(* A save under way has written, or dropped, the frames from its start to   *)
(* the loop counter.                                                        *)
Under ==
    mode = "save" =>
      /\ report = "none"
      /\ index \in first..total
      /\ index <= last + 1
      /\ Len(out) + dropped = index - first

(* The decoder then holds what came of the frames just before the loop      *)
(* counter, where those belong to the save, and what came out of it before  *)
(* them is out.                                                             *)
Late ==
    mode = "save" =>
      /\ \A j \in 1..delay :
           index - delay + j > first => Reached(index - delay + j - 1, held[j], unsaved)
      /\ dropped = 0 =>
           \A k \in 1..Len(out) :
             k > delay => Reached(first + k - 1 - delay, out[k], unsaved)

Unopened == mode = "open" => current = 0 /\ start = 0 /\ info = <<0, 0, 1, 0, 0>>

IInv ==
    /\ TypeOK /\ Unopened /\ Filled /\ Under /\ Late
    /\ RangeInClip /\ SaveIsExact /\ ShownIsCurrent /\ ScreenShowsMarks

-----------------------------------------------------------------------------
LEMMA Types ==
    ASSUME TypeOK
    PROVE  /\ total \in Nat /\ delay \in Nat
           /\ current \in Nat /\ start \in Nat /\ step \in Nat /\ end \in Nat
           /\ first \in Nat /\ last \in Nat /\ index \in Nat /\ dropped \in Nat
           /\ held \in Seq(Nat) /\ Len(held) \in Nat
           /\ out \in Seq(Nat) /\ Len(out) \in Nat
           /\ unseen \subseteq Nat /\ unsaved \subseteq Nat
<1>1. total \in 0..MaxTotal /\ delay \in 0..MaxDelay
  BY DEF TypeOK
<1>2. held \in Seq(Nat) /\ out \in Seq(Nat)
  BY DEF TypeOK
<1>3. /\ current \in Nat /\ start \in Nat /\ step \in Nat /\ end \in Nat
      /\ first \in Nat /\ last \in Nat /\ index \in Nat /\ dropped \in Nat
  BY DEF TypeOK
<1>4. total \in Nat /\ delay \in Nat
  BY <1>1, ClipReaderAssumption
<1>5. unseen \subseteq Nat /\ unsaved \subseteq Nat
  BY DEF TypeOK
<1> QED
  BY <1>2, <1>4, <1>3, <1>5

(* What the decoder holds and is fed when a frame is fetched.               *)
LEMMA Fed ==
    ASSUME TypeOK, Len(held) <= delay, NEW i \in Nat, NEW f \in Feeds(i)
    PROVE  /\ Lacking \in Nat /\ Lacking >= 1 /\ Len(held) + Lacking = delay + 1
           /\ f \in Seq(Nat) /\ Len(f) = Lacking
           /\ \A j \in 1..Lacking : f[j] \in i..total - 1
           /\ held \o f \in Seq(Nat) /\ Len(held \o f) = delay + 1
           /\ \A j \in 1..delay + 1 : (held \o f)[j] =
                IF j <= Len(held) THEN held[j] ELSE f[j - Len(held)]
           /\ Missed(i, f) \subseteq Nat
<1>1. delay \in Nat /\ held \in Seq(Nat) /\ Len(held) \in Nat /\ total \in Nat
  BY Types
<1>2. Lacking \in Nat /\ Lacking >= 1 /\ Len(held) + Lacking = delay + 1
  BY <1>1 DEF Lacking
<1>3. f \in [1..Lacking -> i..total - 1]
  BY DEF Feeds
<1>4. i..total - 1 \subseteq Nat
  BY <1>1
<1>5. f \in [1..Lacking -> Nat]
  BY <1>3, <1>4
<1>6. f \in Seq(Nat) /\ Len(f) = Lacking
  BY <1>2, <1>5
<1>7. \A j \in 1..Lacking : f[j] \in i..total - 1
  BY <1>3
<1>8. Missed(i, f) \subseteq Nat
  <2>1. f[Lacking] \in Nat
    BY <1>2, <1>5
  <2> QED
    BY <2>1 DEF Missed
<1> HIDE DEF Lacking
<1>9. /\ held \o f \in Seq(Nat)
      /\ Len(held \o f) = Len(held) + Len(f)
      /\ \A j \in 1..Len(held) + Len(f) : (held \o f)[j] =
            IF j <= Len(held) THEN held[j] ELSE f[j - Len(held)]
  BY <1>1, <1>6, ConcatProperties
<1> QED
  BY <1>2, <1>6, <1>7, <1>8, <1>9

(* Fetching a frame leaves the decoder full.                                *)
LEMMA Fetched ==
    ASSUME TypeOK, Len(held) <= delay, NEW i \in Nat, NEW f \in Feeds(i), GetFrame(i, f)
    PROVE  /\ Picture(f) \in Nat /\ Picture(f) = (held \o f)[1]
           /\ held' \in Seq(Nat) /\ Len(held') = delay
           /\ \A j \in 1..delay : held'[j] = (held \o f)[j + 1]
<1>1. delay \in Nat
  BY Types
<1> DEFINE h == held \o f
<1>2. h \in Seq(Nat) /\ Len(h) = delay + 1
  BY Fed
<1>3. held' = Tail(h) /\ Picture(f) = Head(h)
  BY DEF GetFrame, Picture
<1> HIDE DEF h
<1>4. held' \in Seq(Nat) /\ Len(held') = delay /\ \A j \in 1..delay : held'[j] = h[j + 1]
  BY <1>1, <1>2, <1>3
<1>5. Picture(f) = h[1] /\ h[1] \in Nat
  BY <1>1, <1>2, <1>3
<1> QED
  BY <1>4, <1>5 DEF h

(* When the decoder is full one frame goes in and one comes out: the frames *)
(* from the one sought up to the one that went in gave no picture.          *)
LEMMA OneInOneOut ==
    ASSUME TypeOK, Len(held) = delay, NEW i \in Nat, NEW f \in Feeds(i), GetFrame(i, f)
    PROVE  \E p \in Nat :
             /\ Reached(i, p, Missed(i, f))
             /\ Picture(f) = IF delay = 0 THEN p ELSE held[1]
             /\ \A j \in 1..delay : held'[j] = IF j < delay THEN held[j + 1] ELSE p
<1>1. delay \in Nat /\ total \in Nat /\ Len(held) <= delay
  BY Types
<1>2. Lacking = 1
  BY <1>1 DEF Lacking
<1>3. /\ f \in Seq(Nat) /\ Len(f) = 1 /\ f[1] \in i..total - 1
      /\ \A j \in 1..delay + 1 : (held \o f)[j] = IF j <= delay THEN held[j] ELSE f[j - delay]
  BY <1>1, <1>2, Fed
<1> DEFINE h == held \o f
<1> DEFINE p == f[1]
<1>4. p \in Nat /\ i <= p
  BY <1>1, <1>3
<1>5. Reached(i, p, Missed(i, f))
  <2>1. Range(f) = {p}
    BY <1>3 DEF Range
  <2>2. Missed(i, f) = (i..p) \ {p}
    BY <1>2, <2>1 DEF Missed
  <2>3. i..p - 1 \subseteq (i..p) \ {p}
    BY <1>4
  <2> QED
    BY <1>4, <2>2, <2>3 DEF Reached
<1>6. Picture(f) = (held \o f)[1] /\ \A j \in 1..delay : held'[j] = (held \o f)[j + 1]
  BY <1>1, Fetched
<1>7. Picture(f) = IF delay = 0 THEN p ELSE held[1]
  <2>1. 1 \in 1..delay + 1
    BY <1>1
  <2>2. Picture(f) = IF 1 <= delay THEN held[1] ELSE f[1 - delay]
    BY <1>3, <1>6, <2>1
  <2> QED
    BY <1>1, <2>2
<1>8. ASSUME NEW j \in 1..delay
      PROVE  held'[j] = IF j < delay THEN held[j + 1] ELSE p
  <2> HIDE DEF h, p
  <2>1. j + 1 \in 1..delay + 1
    BY <1>1
  <2>5. held'[j] = h[j + 1]
    BY <1>6 DEF h
  <2>6. \A k \in 1..delay + 1 : h[k] = IF k <= delay THEN held[k] ELSE f[k - delay]
    BY <1>3 DEF h
  <2>2. held'[j] = IF j + 1 <= delay THEN held[j + 1] ELSE f[(j + 1) - delay]
    BY <2>1, <2>5, <2>6
  <2>3. ~(j + 1 <= delay) => f[(j + 1) - delay] = p
    <3>1. ~(j + 1 <= delay) => (j + 1) - delay = 1
      BY <1>1
    <3> QED
      BY <3>1 DEF p
  <2>4. j + 1 <= delay <=> j < delay
    BY <1>1
  <2> QED
    BY <2>2, <2>3, <2>4
<1> QED
  BY <1>4, <1>5, <1>7, <1>8

(* More frames without a picture excuse more.                               *)
LEMMA ReachedGrows ==
    ASSUME NEW i, NEW p, NEW some, NEW more, Reached(i, p, some), some \subseteq more
    PROVE  Reached(i, p, more)
BY DEF Reached

-----------------------------------------------------------------------------
LEMMA InitOK == Init => IInv
BY ClipReaderAssumption
   DEF Init, IInv, TypeOK, Filled, Running, RangeInClip, Under, Late, SaveIsExact,
       ShownIsCurrent, Unopened, ScreenShowsMarks

(* A step that leaves save, decoder, and window alone.                      *)
LEMMA Untouched ==
    ASSUME IInv, TypeOK', mode' = mode, mode = "keys",
           UNCHANGED <<video, current, held, window, save>>
    PROVE  Unopened' /\ Filled' /\ Under' /\ Late' /\ SaveIsExact' /\ ShownIsCurrent'
BY DEF IInv, Unopened, Filled, Running, Under, Late, SaveIsExact, ShownIsCurrent, video,
       window, save

(* The program ends.                                                        *)
LEMMA Ends ==
    ASSUME IInv, TypeOK', mode' \in {"over", "aborted"},
           UNCHANGED <<video, held>>, UNCHANGED save
    PROVE  IInv'
BY DEF IInv, Filled, Running, RangeInClip, Under, Late, SaveIsExact, ShownIsCurrent,
       Unopened, ScreenShowsMarks, video, save

LEMMA OpenStep == IInv /\ Open => IInv'
<1> SUFFICES ASSUME IInv, Open PROVE IInv'
  OBVIOUS
<1>1. TypeOK /\ Len(held) <= delay
  BY DEF IInv, Filled
<1>2. total \in Nat /\ delay \in Nat
  BY <1>1, Types
<1>3. total >= 1
  BY <1>2 DEF Open, GetFrame, IsNull
<1>12. PICK f \in Feeds(0) :
         GetFrame(0, f) /\ shown' = Picture(f) /\ unseen' = Missed(0, f)
  BY DEF Open
<1>4. /\ Picture(f) \in Nat /\ held' \in Seq(Nat) /\ Len(held') = delay
      /\ Missed(0, f) \subseteq Nat
  BY <1>1, <1>12, Fetched, Fed
<1>5. delay = 0 => Reached(0, shown', unseen')
  <2>1. Len(held) \in Nat
    BY <1>1, Types
  <2>2. delay = 0 => Len(held) = delay
    BY <1>1, <1>2, <2>1
  <2>3. Len(held) = delay => \E p \in Nat :
           Reached(0, p, Missed(0, f)) /\ Picture(f) = IF delay = 0 THEN p ELSE held[1]
    BY <1>1, <1>12, OneInOneOut
  <2> QED
    BY <1>12, <2>2, <2>3
<1>6. end' \in Nat
  BY <1>2, <1>3 DEF Open
<1>7. TypeOK'
  BY <1>1, <1>4, <1>6, <1>12 DEF TypeOK, Open, video, save
<1>8. mode = "open" /\ mode' = "keys" /\ end' = total - 1
      /\ UNCHANGED <<total, delay, current, start, step, info>> /\ UNCHANGED save
  BY DEF Open, video
<1>9. Unopened' /\ Filled' /\ Under' /\ Late' /\ ShownIsCurrent'
  BY <1>1, <1>4, <1>5, <1>8
     DEF IInv, Unopened, Filled, Running, Under, Late, ShownIsCurrent
<1>10. RangeInClip' /\ ScreenShowsMarks'
  BY <1>2, <1>3, <1>8 DEF IInv, Unopened, RangeInClip, ScreenShowsMarks, Running
<1>11. SaveIsExact'
  BY <1>8 DEF IInv, SaveIsExact, save
<1> QED
  BY <1>7, <1>9, <1>10, <1>11 DEF IInv

(* A key that changes the step or the marks and shows them.                 *)
LEMMA Marked ==
    ASSUME IInv, mode = "keys", mode' = mode,
           UNCHANGED <<video, current, held, window, save>>,
           step' \in Nat, start' \in Nat, end' \in Nat, end' <= total,
           start' < end' \/ (start' = 0 /\ end' = 0),
           info' = <<current, start', step', end', total>>
    PROVE  IInv'
<1>1. TypeOK
  BY DEF IInv
<1>2. total \in Nat /\ current \in Nat
  BY <1>1, Types DEF TypeOK
<1>3. info' \in Nat \X Nat \X Nat \X Nat \X Nat
  BY <1>2
<1>4. TypeOK'
  BY <1>1, <1>3 DEF TypeOK, video, window, save
<1>5. RangeInClip' /\ ScreenShowsMarks'
  BY DEF IInv, RangeInClip, ScreenShowsMarks, Running, video
<1> QED
  BY <1>4, <1>5, Untouched DEF IInv

LEMMA KeyUpStep == IInv /\ KeyUp => IInv'
<1> SUFFICES ASSUME IInv, KeyUp PROVE IInv'
  OBVIOUS
<1>1. /\ step \in Nat /\ total \in Nat
      /\ start \in Nat /\ end \in Nat
      /\ end <= total
      /\ start < end \/ (start = 0 /\ end = 0)
  BY Types DEF IInv, RangeInClip, Running, KeyUp
<1>2. step' \in Nat
  BY <1>1 DEF KeyUp
<1> QED
  BY <1>1, <1>2, Marked DEF KeyUp, Shows

LEMMA KeyDownStep == IInv /\ KeyDown => IInv'
<1> SUFFICES ASSUME IInv, KeyDown PROVE IInv'
  OBVIOUS
<1>1. /\ step \in Nat /\ total \in Nat
      /\ start \in Nat /\ end \in Nat
      /\ end <= total
      /\ start < end \/ (start = 0 /\ end = 0)
  BY Types DEF IInv, RangeInClip, Running, KeyDown
<1>2. step' \in Nat
  BY <1>1 DEF KeyDown
<1> QED
  BY <1>1, <1>2, Marked DEF KeyDown, Shows

LEMMA MarkStartStep == IInv /\ MarkStart => IInv'
<1> SUFFICES ASSUME IInv, MarkStart PROVE IInv'
  OBVIOUS
<1>1. /\ total \in Nat /\ current \in Nat /\ current < total
      /\ start \in Nat /\ end \in Nat /\ step \in Nat
      /\ end <= total
  BY Types DEF IInv, RangeInClip, Running, MarkStart
<1>2. /\ start' \in Nat /\ end' \in Nat /\ step' \in Nat
      /\ end' <= total /\ start' < end'
  BY <1>1 DEF MarkStart
<1> QED
  BY <1>2, Marked DEF MarkStart, Shows

LEMMA MarkEndStep == IInv /\ MarkEnd => IInv'
<1> SUFFICES ASSUME IInv, MarkEnd PROVE IInv'
  OBVIOUS
<1>1. /\ total \in Nat /\ current \in Nat /\ current < total
      /\ start \in Nat /\ end \in Nat /\ step \in Nat
      /\ end <= total
  BY Types DEF IInv, RangeInClip, Running, MarkEnd
<1>2. /\ start' \in Nat /\ end' \in Nat /\ step' \in Nat
      /\ end' <= total
      /\ start' < end' \/ (start' = 0 /\ end' = 0)
  BY <1>1 DEF MarkEnd
<1> QED
  BY <1>2, Marked DEF MarkEnd, Shows

(* The program ends in over or aborted, whatever the marks and the screen.  *)
LEMMA EndSteps ==
    IInv /\ (OpenFails \/ FirstFrameFails \/ Quit \/ WriteThrows \/ SaveThrows) => IInv'
<1> SUFFICES ASSUME IInv, OpenFails \/ FirstFrameFails \/ Quit \/ WriteThrows \/ SaveThrows
             PROVE  IInv'
  OBVIOUS
<1>1. mode' \in {"over", "aborted"}
  BY DEF OpenFails, FirstFrameFails, Quit, WriteThrows, SaveThrows, Abort
<1>2. UNCHANGED <<video, held, current, step, window, info>> /\ UNCHANGED save
  BY DEF OpenFails, FirstFrameFails, Quit, WriteThrows, SaveThrows, marks
<1>3. /\ total \in Nat /\ start \in Nat /\ end \in Nat
      /\ mode = "keys" => total >= 1
  BY Types DEF IInv, RangeInClip, Running
<1>4. start' \in Nat /\ end' \in Nat
  BY <1>3 DEF OpenFails, FirstFrameFails, Quit, WriteThrows, SaveThrows, marks
<1>5. TypeOK'
  BY <1>1, <1>2, <1>4 DEF IInv, TypeOK, video, window, save
<1> QED
  BY <1>1, <1>2, <1>5, Ends

LEMMA BrowseStep ==
    ASSUME IInv, NEW c \in Nat, c < total, Browse(c)
    PROVE  IInv'
<1>1. /\ TypeOK /\ mode = "keys" /\ Len(held) = delay
      /\ total \in Nat /\ delay \in Nat /\ Len(held) <= delay
      /\ start \in Nat /\ step \in Nat /\ end \in Nat
  BY Types DEF IInv, Filled, Running, Browse
<1>2. info' \in Nat \X Nat \X Nat \X Nat \X Nat
  BY <1>1 DEF Browse, Shows
<1>3. current' = c /\ info' = <<c, start, step, end, total>>
      /\ UNCHANGED <<video, start, step, end>> /\ UNCHANGED save
  BY DEF Browse, Shows
<1>4. ASSUME NEW f \in Feeds(c), GetFrame(c, f), shown' = Picture(f),
             unseen' = Missed(c, f), UNCHANGED mode
      PROVE  IInv'
  <2>1. /\ Picture(f) \in Nat /\ held' \in Seq(Nat) /\ Len(held') = delay
        /\ Missed(c, f) \subseteq Nat
    BY <1>1, <1>4, Fetched, Fed
  <2>6. PICK p \in Nat :
           Reached(c, p, Missed(c, f)) /\ Picture(f) = IF delay = 0 THEN p ELSE held[1]
    BY <1>1, <1>4, OneInOneOut
  <2>2. TypeOK'
    BY <1>1, <1>2, <1>3, <1>4, <2>1 DEF TypeOK, video, save
  <2>3. Unopened' /\ Filled' /\ Under' /\ Late' /\ ShownIsCurrent'
    BY <1>1, <1>3, <1>4, <2>1, <2>6
       DEF Unopened, Filled, Running, Under, Late, ShownIsCurrent, video
  <2>4. RangeInClip' /\ ScreenShowsMarks'
    BY <1>1, <1>3, <1>4 DEF IInv, RangeInClip, ScreenShowsMarks, Running, video
  <2>5. SaveIsExact'
    BY <1>3 DEF IInv, SaveIsExact, save, video
  <2> QED
    BY <2>2, <2>3, <2>4, <2>5 DEF IInv
<1>5. CASE Abort /\ UNCHANGED <<held, window>>
  <2>1. TypeOK'
    BY <1>1, <1>2, <1>3, <1>5 DEF TypeOK, Abort, video, window, save
  <2> QED
    BY <1>3, <1>5, <2>1, Ends DEF Abort
<1> QED
  BY <1>4, <1>5 DEF Browse

LEMMA KeyLeftStep == IInv /\ KeyLeft => IInv'
<1> SUFFICES ASSUME IInv, KeyLeft PROVE IInv'
  OBVIOUS
<1> DEFINE c == IF current - step > 0 THEN current - step ELSE 0
<1>1. current \in Nat /\ step \in Nat /\ total \in Nat /\ current < total
  BY Types DEF IInv, RangeInClip, Running, KeyLeft, Browse
<1>2. c \in Nat /\ c < total
  BY <1>1
<1> QED
  BY <1>2, BrowseStep DEF KeyLeft

LEMMA KeyRightStep == IInv /\ KeyRight => IInv'
<1> SUFFICES ASSUME IInv, KeyRight PROVE IInv'
  OBVIOUS
<1> DEFINE c == IF current + step < total THEN current + step ELSE current
<1>1. current \in Nat /\ step \in Nat /\ total \in Nat /\ current < total
  BY Types DEF IInv, RangeInClip, Running, KeyRight, Browse
<1>2. c \in Nat /\ c < total
  BY <1>1
<1> QED
  BY <1>2, BrowseStep DEF KeyRight

LEMMA SaveStep == IInv /\ Save => IInv'
<1> SUFFICES ASSUME IInv, Save PROVE IInv'
  OBVIOUS
<1>1. /\ TypeOK /\ mode = "keys" /\ Len(held) = delay
      /\ total \in Nat /\ delay \in Nat /\ current \in Nat /\ current < total
      /\ start \in Nat /\ end \in Nat /\ end <= total
      /\ start < end \/ (start = 0 /\ end = 0)
  BY Types DEF IInv, RangeInClip, Filled, Running, Save
<1>2. /\ mode' = "save" /\ report' = "none" /\ out' = <<>> /\ dropped' = 0
      /\ first' = start' /\ last' = end' /\ index' = start'
      /\ unsaved' = {}
      /\ UNCHANGED <<total, delay, current, step, held, shown, unseen, info>>
  BY DEF Save, video, window
<1>3. \/ start' = start /\ end' = end /\ start < end
      \/ start = 0 /\ end = 0 /\ start' = 0 /\ end' = total - 1
  BY <1>1 DEF Save
<1>4. /\ start' \in Nat /\ end' \in Nat /\ end' <= total
      /\ start' < end' \/ (start' = 0 /\ end' = 0 /\ total = 1)
  BY <1>1, <1>3
<1>5. /\ first' \in Nat /\ last' \in Nat /\ index' \in Nat /\ dropped' \in Nat
      /\ out' \in Seq(Nat) /\ Len(out') = 0
  BY <1>2, <1>4
<1>6. TypeOK'
  BY <1>1, <1>2, <1>4, <1>5 DEF TypeOK
<1>7. RangeInClip'
  BY <1>1, <1>2, <1>4 DEF RangeInClip, Running
<1>8. Unopened' /\ Filled' /\ SaveIsExact' /\ ShownIsCurrent'
  BY <1>1, <1>2 DEF IInv, Unopened, Filled, SaveIsExact, ShownIsCurrent, Running
<1>9. Under' /\ Late'
  <2>1. index' \in first'..total
    BY <1>1, <1>2, <1>4
  <2>2. index' = start' /\ first' = start' /\ last' = end' /\ dropped' = 0 /\ Len(out') = 0
    BY <1>2, <1>5
  <2>3. \A s, e \in Nat : s <= e => s <= e + 1 /\ 0 + 0 = s - s
    OBVIOUS
  <2>4. PICK s \in Nat, e \in Nat : start' = s /\ end' = e /\ s <= e
    BY <1>4
  <2>5. index' <= last' + 1 /\ Len(out') + dropped' = index' - first'
    BY <2>2, <2>3, <2>4, Zenon
  <2>6. Under'
    BY <1>2, <2>1, <2>5 DEF Under
  <2>7. \A j \in 1..delay : ~(index' - delay + j > first')
    <3>1. ASSUME NEW j \in 1..delay PROVE ~(s - delay + j > s)
      BY <1>1
    <3> QED
      BY <2>2, <2>4, <3>1
  <2>8. Late'
    BY <1>2, <1>5, <2>7 DEF Late
  <2> QED
    BY <2>6, <2>8
<1>10. ScreenShowsMarks'
  BY <1>1, <1>2, <1>3 DEF IInv, ScreenShowsMarks, Running
<1> QED
  BY <1>6, <1>7, <1>8, <1>9, <1>10 DEF IInv

LEMMA WriteFrameStep == IInv /\ WriteFrame => IInv'
<1> SUFFICES ASSUME IInv, WriteFrame PROVE IInv'
  OBVIOUS
<1>1. /\ TypeOK /\ mode = "save" /\ Len(held) = delay /\ Len(held) <= delay
      /\ total \in Nat /\ delay \in Nat /\ dropped \in Nat
      /\ first \in Nat /\ last \in Nat /\ index \in Nat
      /\ out \in Seq(Nat) /\ Len(out) \in Nat
      /\ index <= last /\ index < total /\ first <= index
      /\ Len(out) + dropped = index - first
      /\ report = "none"
  BY Types DEF IInv, Filled, Running, Under, WriteFrame, GetFrame, IsNull
<1>2. /\ mode' = mode /\ index' = index + 1
      /\ UNCHANGED <<total, delay, current, start, step, end, shown, unseen, info>>
      /\ UNCHANGED <<first, last, report>>
  BY DEF WriteFrame, video, marks, window
<1>13. PICK f \in Feeds(index) :
         /\ GetFrame(index, f)
         /\ unsaved' = unsaved \cup Missed(index, f)
         /\ \/ out' = Append(out, Picture(f)) /\ dropped' = dropped
            \/ out' = out /\ dropped' = dropped + 1
  BY DEF WriteFrame
<1>3. /\ Picture(f) \in Nat /\ held' \in Seq(Nat) /\ Len(held') = delay
      /\ unsaved' \subseteq Nat
  BY <1>1, <1>13, Fetched, Fed, Types
<1>14. PICK p \in Nat :
         /\ Reached(index, p, Missed(index, f))
         /\ Picture(f) = IF delay = 0 THEN p ELSE held[1]
         /\ \A j \in 1..delay : held'[j] = IF j < delay THEN held[j + 1] ELSE p
  BY <1>1, <1>13, OneInOneOut
<1>15. Reached(index, p, unsaved')
  BY <1>13, <1>14, ReachedGrows
<1>16. ASSUME NEW i, NEW q, Reached(i, q, unsaved) PROVE Reached(i, q, unsaved')
  BY <1>13, <1>16, ReachedGrows
<1> DEFINE new == Picture(f)
<1>4. \/ out' = Append(out, new) /\ dropped' = dropped
      \/ out' = out /\ dropped' = dropped + 1
  BY <1>13
<1>17. new \in Nat /\ new = IF delay = 0 THEN p ELSE held[1]
  BY <1>3, <1>14
<1> HIDE DEF new
<1>5. out' \in Seq(Nat) /\ dropped' \in Nat /\ Len(out') + dropped' = index' - first'
  <2>1. index' = index + 1 /\ first' = first /\ new \in Nat
    BY <1>2, <1>17
  <2>2. CASE out' = Append(out, new) /\ dropped' = dropped
    <3>1. out' \in Seq(Nat) /\ Len(out') = Len(out) + 1
      BY <1>1, <2>1, <2>2
    <3> QED
      BY <1>1, <2>1, <2>2, <3>1
  <2>3. CASE out' = out /\ dropped' = dropped + 1
    BY <1>1, <2>1, <2>3
  <2> QED
    BY <1>4, <2>2, <2>3
<1>6. TypeOK'
  <2>1. index' \in Nat
    BY <1>1, <1>2
  <2>2. /\ UNCHANGED <<mode, total, delay, current, start, step, end, shown, unseen, info>>
        /\ UNCHANGED <<first, last, report>>
    BY <1>2
  <2>3. held' \in Seq(Nat) /\ unsaved' \subseteq Nat /\ out' \in Seq(Nat) /\ dropped' \in Nat
    BY <1>3, <1>5
  <2>4. TypeOK
    BY <1>1
  <2> QED
    BY <2>1, <2>2, <2>3, <2>4 DEF TypeOK
<1>7. Under'
  <2>1. index' \in first'..total' /\ index' <= last' + 1
    BY <1>1, <1>2
  <2> QED
    BY <1>1, <1>2, <1>5, <2>1 DEF Under
<1>8. ASSUME NEW j \in 1..delay, index' - delay + j > first
      PROVE  Reached(index' - delay + j - 1, held'[j], unsaved')
  <2>1. CASE j = delay
    <3>1. index' - delay + j - 1 = index /\ held'[j] = p
      BY <1>1, <1>2, <1>14, <2>1
    <3> QED
      BY <1>15, <3>1
  <2>2. CASE j < delay
    <3>1. /\ j + 1 \in 1..delay /\ index - delay + (j + 1) > first
          /\ index - delay + (j + 1) - 1 = index' - delay + j - 1
      BY <1>1, <1>2, <1>8, <2>2
    <3>2. Reached(index - delay + (j + 1) - 1, held[j + 1], unsaved)
      BY <1>1, <3>1 DEF IInv, Late
    <3>3. held'[j] = held[j + 1]
      BY <1>14, <2>2
    <3> QED
      BY <1>16, <3>1, <3>2, <3>3
  <2> QED
    BY <1>1, <2>1, <2>2
<1>9. ASSUME dropped' = 0, NEW k \in 1..Len(out'), k > delay
      PROVE  Reached(first + k - 1 - delay, out'[k], unsaved')
  <2>5. out' = Append(out, new) /\ dropped' = dropped
    <3>1. dropped' # dropped + 1
      BY <1>1, <1>9
    <3> QED
      BY <1>4, <3>1
  <2>6. Len(out) + 0 = index - first
    BY <1>1, <1>9, <2>5
  <2>1. dropped = 0 /\ out' = Append(out, new) /\ Len(out) = index - first
    BY <1>1, <1>9, <2>5, <2>6
  <2>2. CASE k <= Len(out)
    <3>1. k \in 1..Len(out) /\ out'[k] = out[k]
      BY <1>1, <1>17, <2>1, <2>2
    <3>2. Reached(first + k - 1 - delay, out[k], unsaved)
      BY <1>1, <1>9, <2>1, <3>1 DEF IInv, Late
    <3> QED
      BY <1>16, <3>1, <3>2
  <2>3. CASE k = Len(out) + 1
    <3>1. out'[k] = new
      BY <1>1, <1>17, <2>1, <2>3
    <3>2. CASE delay = 0
      <4>1. first + k - 1 - delay = index /\ out'[k] = p
        BY <1>1, <1>17, <2>1, <2>3, <3>1, <3>2
      <4> QED
        BY <1>15, <4>1
    <3>3. CASE delay > 0
      <4>1. /\ 1 \in 1..delay /\ index - delay + 1 > first
            /\ index - delay + 1 - 1 = first + k - 1 - delay
        BY <1>1, <1>9, <2>1, <2>3, <3>3
      <4>2. Reached(index - delay + 1 - 1, held[1], unsaved)
        BY <1>1, <4>1 DEF IInv, Late
      <4>3. out'[k] = held[1]
        BY <1>1, <1>17, <3>1, <3>3
      <4> QED
        BY <1>16, <4>1, <4>2, <4>3
    <3> QED
      BY <1>1, <3>2, <3>3
  <2>4. k <= Len(out) \/ k = Len(out) + 1
    BY <1>1, <1>17, <2>1
  <2> QED
    BY <2>2, <2>3, <2>4
<1>10. Late'
  BY <1>2, <1>8, <1>9 DEF Late
<1>11. RangeInClip' /\ ScreenShowsMarks'
  BY <1>1, <1>2 DEF IInv, RangeInClip, ScreenShowsMarks, Running
<1>12. Unopened' /\ Filled' /\ SaveIsExact' /\ ShownIsCurrent'
  BY <1>1, <1>2, <1>3 DEF IInv, Unopened, Filled, SaveIsExact, ShownIsCurrent, Running
<1> QED
  BY <1>6, <1>7, <1>10, <1>11, <1>12 DEF IInv

(* The two ends of WriteFrames: the loop is done, or a frame is outside.    *)
LEMMA WriteEndsStep == IInv /\ (WriteEnds \/ WriteNull) => IInv'
<1> SUFFICES ASSUME IInv, WriteEnds \/ WriteNull PROVE IInv'
  OBVIOUS
<1>1. TypeOK /\ mode = "save"
  BY DEF IInv, WriteEnds, WriteNull
<1>2. /\ total \in Nat /\ delay \in Nat /\ dropped \in Nat /\ Len(out) \in Nat
      /\ first \in Nat /\ last \in Nat /\ index \in Nat
  BY <1>1, Types
<1>3. /\ index <= last + 1 /\ index <= total /\ first <= index /\ last <= total
      /\ Len(out) + dropped = index - first
  BY <1>1, <1>2 DEF IInv, RangeInClip, Running, Under
<1>4. /\ mode' = "keys" /\ report' \in {"saved", "not saved"}
      /\ UNCHANGED <<total, delay, current, start, step, end, held, shown, unseen, info>>
      /\ UNCHANGED <<first, last, index, out, dropped, unsaved>>
  BY DEF WriteEnds, WriteNull, video, marks, window
<1>5. TypeOK'
  BY <1>1, <1>4 DEF TypeOK
<1>6. report' = "saved" => index = last + 1
  BY <1>3, <1>2 DEF WriteEnds, WriteNull
<1>7. report' = "not saved" => index = total /\ last = total
  <2>1. index <= last /\ IsNull(index) => index = total /\ last = total
    BY <1>3, <1>2 DEF IsNull
  <2>2. report' = "not saved" => index <= last /\ IsNull(index)
    BY DEF WriteEnds, WriteNull
  <2> QED
    BY <2>1, <2>2
<1>8. /\ report' = "saved" => Len(out) + dropped = last + 1 - first
      /\ report' = "not saved" => last = total /\ Len(out) + dropped = total - first
  <2>1. report' = "saved" => Len(out) + dropped = last + 1 - first
    <3>1. index = last + 1 => Len(out) + dropped = last + 1 - first
      BY <1>3, <1>2
    <3> QED
      BY <1>6, <3>1
  <2>2. report' = "not saved" => last = total /\ Len(out) + dropped = total - first
    <3>1. index = total => Len(out) + dropped = total - first
      BY <1>3, <1>2
    <3> QED
      BY <1>7, <3>1
  <2> QED
    BY <2>1, <2>2
<1>9. dropped = 0 => \A k \in 1..Len(out) :
        k > delay => Reached(first + k - 1 - delay, out[k], unsaved)
  BY <1>1 DEF IInv, Late
<1>10. SaveIsExact'
  BY <1>4, <1>8, <1>9 DEF SaveIsExact
<1>11. RangeInClip' /\ ScreenShowsMarks'
  BY <1>1, <1>4 DEF IInv, RangeInClip, ScreenShowsMarks, Running
<1>12. Unopened' /\ Filled' /\ Under' /\ Late' /\ ShownIsCurrent'
  BY <1>1, <1>4 DEF IInv, Unopened, Filled, Under, Late, ShownIsCurrent, Running
<1> QED
  BY <1>5, <1>10, <1>11, <1>12 DEF IInv

LEMMA Stutters == IInv /\ UNCHANGED vars => IInv'
BY DEF IInv, TypeOK, Unopened, Filled, Running, Under, Late, RangeInClip, SaveIsExact,
       ShownIsCurrent, ScreenShowsMarks, vars, video, marks, window, save

LEMMA Inductive == IInv /\ [Next]_vars => IInv'
BY OpenStep, EndSteps, KeyUpStep, KeyDownStep, KeyLeftStep, KeyRightStep, MarkStartStep,
   MarkEndStep, SaveStep, WriteFrameStep, WriteEndsStep, Stutters
   DEF Next

LEMMA Invariance == Spec => []IInv
BY InitOK, Inductive, PTL DEF Spec

-----------------------------------------------------------------------------
(* Positions, marks and counters are natural numbers in every reachable     *)
(* state, for every video, delay and first step.                            *)
THEOREM ClipReaderTypes == Spec => []TypeOK
<1>1. IInv => TypeOK
  BY DEF IInv
<1> QED
  BY Invariance, <1>1, PTL

(* The marks are always a range of the video in order, and a save never     *)
(* writes a single frame of a longer video (ClipReader.cpp:234-260).        *)
THEOREM ClipReaderRange == Spec => []RangeInClip
<1>1. IInv => RangeInClip
  BY DEF IInv
<1> QED
  BY Invariance, <1>1, PTL

(* A save holds what the screen says of it, but for the frames the encoder  *)
(* gave up and for those a late decoder put at its head; each picture is    *)
(* the frame of its place or, when that gave none, the next one that did    *)
(* (ClipReader.cpp:169-186, 262-266, FrameReader.cpp:74-82).                *)
THEOREM ClipReaderSave == Spec => []SaveIsExact
<1>1. IInv => SaveIsExact
  BY DEF IInv
<1> QED
  BY Invariance, <1>1, PTL

(* The window shows the current frame, or the first one after it that gave  *)
(* a picture, when the decoder is not late, also while a save moves the     *)
(* decoder and after it (ClipReader.cpp:158-186, FrameReader.cpp:74-82).    *)
THEOREM ClipReaderPicture == Spec => []ShownIsCurrent
<1>1. IInv => ShownIsCurrent
  BY DEF IInv
<1> QED
  BY Invariance, <1>1, PTL

(* The screen shows the marks but in the two stale cases                    *)
(* (ClipReader.cpp:237, 259).                                               *)
THEOREM ClipReaderScreen == Spec => []ScreenShowsMarks
<1>1. IInv => ScreenShowsMarks
  BY DEF IInv
<1> QED
  BY Invariance, <1>1, PTL
=============================================================================
