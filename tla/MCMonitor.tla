----------------------------- MODULE MCMonitor -----------------------------
(* The monitor on a stream that may show any frame of two clips, one entry  *)
(* of which is too large for an int and one of which is wrong about its     *)
(* clip's length.                                                           *)
EXTENDS Monitor, TLC

OneClip == [idnum : {1}, seqnum : {0, 1, 2, 4}, total : {4}]
TwoClips ==
    OneClip
    \cup [idnum : {2}, seqnum : {3, 6}, total : {7}]
    \cup {[idnum |-> 2, seqnum |-> 7, total |-> 2], [idnum |-> 2, seqnum |-> 5, total |-> 9]}

Rates == {0, 1, 2}
=============================================================================
