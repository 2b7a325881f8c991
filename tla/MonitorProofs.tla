--------------------------- MODULE MonitorProofs ---------------------------
(* Proofs about the monitor, for every set of stored entries, threshold,    *)
(* window, frame rate and width of int.                                     *)
EXTENDS Monitor, TLAPS

(* The inductive invariant: the two maps and the history of a clip agree.   *)
Agree(i) ==
    /\ counts[i] = None <=> prev[i] = None
    /\ prev[i] = hist[i].last
    /\ counts[i] = None => hist[i] = Untouched
    /\ counts[i] # None =>
         /\ 1 <= counts[i] /\ counts[i] <= Max1(DetectionThreshold)
         /\ hist[i].run <= counts[i]
         /\ counts[i] <= hist[i].hits \/ DetectionThreshold <= hist[i].hits

PauseOver == ~found => pauseUntil <= now

IInv == TypeOK /\ (\A i \in IdNums : Agree(i)) /\ PauseOver

-----------------------------------------------------------------------------
(* Remainders and quotients of naturals by a positive number are naturals.  *)
LEMMA RemainderNat == \A a \in Int, n \in Nat : n > 0 => a % n \in 0..(n - 1)
  OBVIOUS

LEMMA QuotientNat == \A a \in Nat, n \in Nat : n > 0 => a \div n \in Nat
  OBVIOUS

(* A stored entry that parses has numbers that fit an int, and the          *)
(* unsigned sum of the window test does not wrap on such numbers.           *)
LEMMA ParsedEntry ==
  ASSUME NEW e \in Stored, Parses(e)
  PROVE  /\ e.idnum \in IdNums
         /\ e.seqnum \in 0..IntMax
         /\ e.total \in 0..IntMax
  BY MonitorAssumption DEF Parses, IdNums, UInt

LEMMA NoWrap ==
  ASSUME NEW n \in 0..IntMax
  PROVE  (n + Window) % Modulus = n + Window
<1>1. IntMax \in Nat /\ Window \in 0..IntMax
  BY MonitorAssumption
<1>2. n + Window \in 0..(Modulus - 1) /\ Modulus \in Nat \ {0}
  BY <1>1 DEF Modulus
<1>3. \A a, m \in Nat : a < m => a % m = a
  OBVIOUS
<1> QED
  BY <1>2, <1>3

LEMMA RemainingNat ==
  ASSUME NEW e \in Stored, Parses(e), fps \in Nat, fps > 0
  PROVE  Remaining(e) \in Nat
<1>1. e.total - e.seqnum \in Int /\ Modulus \in Nat /\ Modulus > 0
  BY ParsedEntry, MonitorAssumption DEF Modulus
<1>2. (e.total - e.seqnum) % Modulus \in Nat
  BY <1>1, RemainderNat
<1> QED
  BY <1>2, QuotientNat DEF Remaining

LEMMA InWindowFollows ==
  ASSUME TypeOK, NEW e \in Stored, Parses(e), prev[e.idnum] # None
  PROVE  InWindow(e) <=> Follows(e, prev[e.idnum])
<1>1. prev[e.idnum] \in 0..IntMax
  BY ParsedEntry DEF TypeOK
<1> QED
  BY <1>1, NoWrap DEF InWindow, Follows

(* The next frame's timestamp is not an earlier one.                        *)
LEMMA PullOK ==
  ASSUME TypeOK, status = "running", Pull
  PROVE  /\ now' \in Nat /\ now <= now'
         /\ status' \in {"running", "done", "failed", "killed"}
  BY MonitorAssumption DEF TypeOK, Pull

LEMMA EndStep ==
  ASSUME IInv, NEW how \in {"failed", "killed"}, End(how)
  PROVE  IInv'
  BY DEF IInv, TypeOK, Agree, PauseOver, End, Silence

(* A counted lookup preserves the invariant when the new count covers the   *)
(* clip's new run and is covered by its new hits.                           *)
LEMMA CountStep ==
  ASSUME IInv, NEW e \in Stored, NEW n \in Nat,
         Count(e, n), 1 <= n, n <= Max1(DetectionThreshold),
         hist'[e.idnum].run <= n,
         n <= hist'[e.idnum].hits \/ DetectionThreshold <= hist'[e.idnum].hits
  PROVE  IInv'
<1> DEFINE i == e.idnum
<1>1. i \in IdNums /\ e.seqnum \in 0..IntMax
  BY ParsedEntry DEF Count
<1>2. /\ counts' = [counts EXCEPT ![i] = n]
      /\ prev' = [prev EXCEPT ![i] = e.seqnum]
      /\ Record(e)
      /\ said' = Silence
      /\ UNCHANGED <<fps, found, pauseUntil>>
      /\ ~found
      /\ previousBlack' = FALSE /\ nBlack' = 0
  BY DEF Count, Picture
<1>3. /\ now' \in Nat /\ now <= now'
      /\ status' \in {"running", "done", "failed", "killed"}
  BY PullOK DEF IInv, Count, Picture
<1>4. counts \in [IdNums -> Nat \cup {None}] /\ prev \in [IdNums -> 0..IntMax \cup {None}]
      /\ hist \in [IdNums -> [hits : Nat, run : Nat, last : 0..IntMax \cup {None}]]
  BY DEF IInv, TypeOK
<1>5. hist' \in [IdNums -> [hits : Nat, run : Nat, last : 0..IntMax \cup {None}]]
      /\ hist'[i].last = e.seqnum
      /\ \A j \in IdNums : j # i => hist'[j] = hist[j]
  BY <1>1, <1>2, <1>4 DEF Record
<1>6. TypeOK'
  BY <1>1, <1>2, <1>3, <1>4, <1>5 DEF IInv, TypeOK, Silence
<1>7. Agree(i)'
  BY <1>1, <1>2, <1>4, <1>5, MonitorAssumption DEF Agree
<1>8. ASSUME NEW j \in IdNums, j # i
      PROVE  Agree(j)'
  BY <1>1, <1>2, <1>4, <1>5, <1>8 DEF IInv, Agree
<1>9. PauseOver'
  BY <1>2, <1>3 DEF IInv, PauseOver, TypeOK
<1> QED
  BY <1>6, <1>7, <1>8, <1>9 DEF IInv

(* What a lookup does to the history of its clip.                           *)
LEMMA RecordedHist ==
  ASSUME TypeOK, NEW e \in Stored, Parses(e), Record(e)
  PROVE  LET h == hist[e.idnum]
             g == hist'[e.idnum]
         IN  /\ h.hits \in Nat /\ h.run \in Nat
             /\ g.hits = IF h.hits < DetectionThreshold THEN h.hits + 1 ELSE h.hits
             /\ g.run = IF Follows(e, h.last) THEN h.run + 1 ELSE 1
  BY ParsedEntry DEF TypeOK, Record

LEMMA FirstHitStep ==
  ASSUME IInv, NEW e \in Stored, FirstHit(e)
  PROVE  IInv'
<1>1. Count(e, 1) /\ Parses(e) /\ Record(e) /\ TypeOK
  BY DEF FirstHit, Count, IInv
<1>2. hist[e.idnum] = Untouched
  BY <1>1, ParsedEntry DEF FirstHit, IInv, Agree
<1>3. /\ hist'[e.idnum].run = 1
      /\ 1 <= hist'[e.idnum].hits \/ DetectionThreshold <= hist'[e.idnum].hits
  BY <1>1, <1>2, RecordedHist, MonitorAssumption DEF Untouched, Follows
<1> QED
  BY <1>1, <1>3, CountStep, MonitorAssumption DEF Max1

LEMMA NextHitStep ==
  ASSUME IInv, NEW e \in Stored, NextHit(e)
  PROVE  IInv'
<1> DEFINE n == counts[e.idnum]
<1>1. Count(e, n + 1) /\ Parses(e) /\ Record(e) /\ TypeOK
  BY DEF NextHit, Count, IInv
<1>2. /\ n \in Nat /\ n < DetectionThreshold
      /\ hist[e.idnum].run <= n
      /\ n <= hist[e.idnum].hits \/ DetectionThreshold <= hist[e.idnum].hits
  BY <1>1, ParsedEntry DEF NextHit, IInv, Agree, TypeOK
<1>3. /\ hist'[e.idnum].run <= n + 1
      /\ n + 1 <= hist'[e.idnum].hits \/ DetectionThreshold <= hist'[e.idnum].hits
  BY <1>1, <1>2, RecordedHist, MonitorAssumption
<1>4. n + 1 <= Max1(DetectionThreshold)
  BY <1>2, MonitorAssumption DEF Max1
<1> QED
  BY <1>1, <1>2, <1>3, <1>4, CountStep

LEMMA HitOutOfWindowStep ==
  ASSUME IInv, NEW e \in Stored, HitOutOfWindow(e)
  PROVE  IInv'
<1>1. Count(e, 1) /\ Parses(e) /\ Record(e) /\ TypeOK /\ ~InWindow(e)
  BY DEF HitOutOfWindow, Count, IInv
<1>2. /\ counts[e.idnum] \in Nat /\ counts[e.idnum] >= DetectionThreshold
      /\ counts[e.idnum] # None
      /\ Agree(e.idnum)
  BY <1>1, ParsedEntry DEF HitOutOfWindow, Enough, IInv, TypeOK
<1>3. prev[e.idnum] # None /\ prev[e.idnum] = hist[e.idnum].last
  BY <1>2 DEF Agree
<1>4. ~Follows(e, hist[e.idnum].last)
  BY <1>1, <1>3, InWindowFollows
<1>5. hist[e.idnum].hits >= DetectionThreshold
  BY <1>1, <1>2, RecordedHist, MonitorAssumption DEF Agree
<1>6. hist'[e.idnum].run = 1 /\ DetectionThreshold <= hist'[e.idnum].hits
  BY <1>1, <1>4, <1>5, RecordedHist, MonitorAssumption
<1> QED
  BY <1>1, <1>6, CountStep, MonitorAssumption DEF Max1

LEMMA FoundStep ==
  ASSUME IInv, NEW e \in Stored, Found(e)
  PROVE  IInv'
<1> DEFINE i == e.idnum
<1>1. /\ i \in IdNums /\ fps \in Nat
      /\ counts' = [counts EXCEPT ![i] = None]
      /\ prev' = [prev EXCEPT ![i] = None]
      /\ hist' = [hist EXCEPT ![i] = Untouched]
      /\ found' = TRUE /\ said' = [is |-> "FOUND", entry |-> e]
      /\ previousBlack' = FALSE /\ nBlack' = 0 /\ fps' = fps
  BY ParsedEntry, MonitorAssumption DEF Found, Picture, IInv, TypeOK
<1>2. /\ now' \in Nat /\ now <= now'
      /\ status' \in {"running", "done", "failed", "killed"}
  BY PullOK DEF IInv, Found, Picture
<1>3. pauseUntil' \in Nat
  BY <1>1, RemainingNat DEF Found, IInv, TypeOK
<1>4. TypeOK'
  BY <1>1, <1>2, <1>3 DEF IInv, TypeOK, Untouched
<1>5. Agree(i)'
  BY <1>1 DEF IInv, TypeOK, Agree, Untouched
<1>6. ASSUME NEW j \in IdNums, j # i
      PROVE  Agree(j)'
  BY <1>1, <1>6 DEF IInv, TypeOK, Agree
<1> QED
  BY <1>1, <1>4, <1>5, <1>6 DEF IInv, PauseOver

(* Turns that leave the maps alone.                                         *)
LEMMA QuietStep ==
  ASSUME IInv, status = "running", Pull,
         UNCHANGED <<fps, counts, prev, hist, pauseUntil>>,
         previousBlack' \in BOOLEAN, nBlack' \in Nat,
         found' \in BOOLEAN, found' => found,
         ~found' => ~found \/ pauseUntil <= now,
         said' \in [is : {"nothing", "BLACKFRAME", "DEADSIGNAL", "FOUND"},
                    entry : Stored \cup {None}]
  PROVE  IInv'
<1>1. /\ now' \in Nat /\ now <= now' /\ now \in Nat
      /\ status' \in {"running", "done", "failed", "killed"}
  BY PullOK DEF IInv, TypeOK
<1>2. TypeOK'
  BY <1>1 DEF IInv, TypeOK
<1>3. ASSUME NEW i \in IdNums
      PROVE  Agree(i)'
  BY DEF IInv, Agree
<1>4. PauseOver'
  BY <1>1 DEF IInv, PauseOver, TypeOK
<1> QED
  BY <1>2, <1>3, <1>4 DEF IInv

LEMMA Initial == Init => IInv
<1> SUFFICES ASSUME Init PROVE IInv
  OBVIOUS
<1>1. TypeOK
  <2>1. now \in Nat /\ pauseUntil \in Nat /\ nBlack \in Nat /\ fps \in FrameRates
    BY MonitorAssumption DEF Init
  <2>2. /\ counts \in [IdNums -> Nat \cup {None}]
        /\ prev \in [IdNums -> 0..IntMax \cup {None}]
    BY DEF Init
  <2>3. hist \in [IdNums -> [hits : Nat, run : Nat, last : 0..IntMax \cup {None}]]
    BY DEF Init, Untouched
  <2>4. /\ status \in {"running", "done", "failed", "killed"}
        /\ found \in BOOLEAN /\ previousBlack \in BOOLEAN
        /\ said \in [is : {"nothing", "BLACKFRAME", "DEADSIGNAL", "FOUND"},
                     entry : Stored \cup {None}]
    BY DEF Init, Silence
  <2> QED
    BY <2>1, <2>2, <2>3, <2>4 DEF TypeOK
<1>2. \A i \in IdNums : Agree(i)
  BY DEF Init, Agree, Untouched
<1>3. PauseOver
  BY <1>1 DEF Init, PauseOver, TypeOK
<1> QED
  BY <1>1, <1>2, <1>3 DEF IInv

LEMMA Inductive == IInv /\ [Next]_vars => IInv'
<1> SUFFICES ASSUME IInv, [Next]_vars PROVE IInv'
  OBVIOUS
<1>1. CASE BlackFrame
  <2>1. /\ said' \in [is : {"nothing", "BLACKFRAME", "DEADSIGNAL", "FOUND"},
                      entry : Stored \cup {None}]
        /\ nBlack' \in Nat
    BY <1>1 DEF BlackFrame, IInv, TypeOK
  <2>2. /\ status = "running" /\ Pull /\ previousBlack' \in BOOLEAN
        /\ UNCHANGED <<fps, counts, prev, found, pauseUntil, hist>>
        /\ found \in BOOLEAN
    BY <1>1 DEF BlackFrame, IInv, TypeOK
  <2> QED
    BY <2>1, <2>2, QuietStep
<1>2. CASE UnhashableFrame
  BY <1>2, EndStep DEF UnhashableFrame
<1>3. CASE PausedFrame
  <2>1. /\ found' \in BOOLEAN /\ found
        /\ ~found' => pauseUntil <= now
    BY <1>3 DEF PausedFrame, IInv, TypeOK
  <2>2. /\ status = "running" /\ Pull /\ previousBlack' \in BOOLEAN /\ nBlack' \in Nat
        /\ UNCHANGED <<fps, counts, prev, pauseUntil, hist>>
        /\ said' \in [is : {"nothing", "BLACKFRAME", "DEADSIGNAL", "FOUND"},
                      entry : Stored \cup {None}]
    BY <1>3 DEF PausedFrame, Picture, Silence
  <2> QED
    BY <2>1, <2>2, QuietStep
<1>4. CASE LookupFails
  BY <1>4, EndStep DEF LookupFails
<1>5. CASE UnknownFrame
  <2>1. /\ status = "running" /\ Pull /\ previousBlack' \in BOOLEAN /\ nBlack' \in Nat
        /\ UNCHANGED <<fps, counts, prev, found, pauseUntil, hist>>
        /\ ~found /\ found \in BOOLEAN
        /\ said' \in [is : {"nothing", "BLACKFRAME", "DEADSIGNAL", "FOUND"},
                      entry : Stored \cup {None}]
    BY <1>5 DEF UnknownFrame, Picture, Silence, IInv, TypeOK
  <2> QED
    BY <2>1, QuietStep
<1>6. CASE UnparsableFrame
  BY <1>6, EndStep DEF UnparsableFrame
<1>7. ASSUME NEW e \in Stored, HitFrame(e)
      PROVE  IInv'
  <2>1. CASE FoundAtZeroRate(e)
    BY <2>1, EndStep DEF FoundAtZeroRate
  <2> QED
    BY <1>7, <2>1, FirstHitStep, NextHitStep, HitOutOfWindowStep, FoundStep DEF HitFrame
<1>8. CASE UNCHANGED vars
  BY <1>8 DEF vars, IInv, TypeOK, Agree, PauseOver
<1> QED
  BY <1>1, <1>2, <1>3, <1>4, <1>5, <1>6, <1>7, <1>8 DEF Next

THEOREM Invariance == Spec => []IInv
  BY Initial, Inductive, PTL DEF Spec

-----------------------------------------------------------------------------
(* Every variable of the monitor stays in its range: the counters and maps  *)
(* of pull_video_packets (clipseekr_main.cpp:268-276), unsigned arithmetic  *)
(* included.                                                                *)
THEOREM MonitorTypes == Spec => []TypeOK
<1>1. IInv => TypeOK
  BY DEF IInv
<1> QED
  BY <1>1, Invariance, PTL

(* A clip that plays straight is reported at the hit after the threshold at *)
(* the latest (clipseekr_main.cpp:348-369).                                 *)
THEOREM MonitorCompleteness == Spec => []StraightPlayIsFound
<1>1. IInv => StraightPlayIsFound
  BY MonitorAssumption DEF IInv, TypeOK, Agree, StraightPlayIsFound, Untouched, Max1
<1> QED
  BY <1>1, Invariance, PTL

(* Only a report says FOUND.                                                *)
LEMMA OnlyFoundReports ==
  ASSUME IInv, Next, NEW i \in IdNums, FoundNow(i)'
  PROVE  \E e \in Stored : Found(e) /\ e.idnum = i
<1>1. said'.is = "FOUND" /\ said'.entry.idnum = i
  BY DEF FoundNow
<1>2. PICK e \in Stored : Found(e)
  BY <1>1 DEF Next, BlackFrame, UnhashableFrame, PausedFrame, LookupFails, UnknownFrame,
              UnparsableFrame, HitFrame, FirstHit, NextHit, HitOutOfWindow, FoundAtZeroRate,
              Count, End, Silence
<1> QED
  BY <1>1, <1>2 DEF Found

(* A clip is reported only after as many hits as the threshold asks         *)
(* (clipseekr_main.cpp:348-356).                                            *)
THEOREM MonitorSoundness == Spec => FoundAfterThreshold
<1>1. ASSUME IInv, [Next]_vars
      PROVE  [\A i \in IdNums : FoundNow(i)' => hist[i].hits >= DetectionThreshold]_vars
  <2> SUFFICES ASSUME Next, NEW i \in IdNums, FoundNow(i)'
               PROVE  hist[i].hits >= DetectionThreshold
    BY <1>1
  <2>1. PICK e \in Stored : Found(e) /\ e.idnum = i
    BY <1>1, OnlyFoundReports
  <2>2. counts[i] # None /\ counts[i] >= DetectionThreshold /\ Agree(i)
    BY <1>1, <2>1 DEF Found, Enough, IInv
  <2> QED
    BY <1>1, <2>2, MonitorAssumption DEF IInv, TypeOK, Agree
<1> QED
  BY <1>1, Invariance, PTL DEF Spec, FoundAfterThreshold

(* No report interrupts a clip that is still playing                        *)
(* (clipseekr_main.cpp:331-339, 353-354).                                   *)
THEOREM MonitorPause == Spec => NoReportWhilePlaying
<1>1. ASSUME IInv, [Next]_vars
      PROVE  [\A i \in IdNums : FoundNow(i)' => now >= pauseUntil]_vars
  <2> SUFFICES ASSUME Next, NEW i \in IdNums, FoundNow(i)'
               PROVE  now >= pauseUntil
    BY <1>1
  <2>1. PICK e \in Stored : Found(e)
    BY <1>1, OnlyFoundReports
  <2> QED
    BY <1>1, <2>1 DEF Found, IInv, TypeOK, PauseOver
<1> QED
  BY <1>1, Invariance, PTL DEF Spec, NoReportWhilePlaying
=============================================================================
