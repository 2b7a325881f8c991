---------------------------- MODULE MCClipster -----------------------------
(* clipster on two clips that share a frame; one of them repeats a frame.   *)
EXTENDS Clipster, TLC

CONSTANTS a, b, h1, h2

Symmetry == Permutations(Programs)

Clips == (a :> <<h1>>) @@ (b :> <<h2, h2, h1>>)
=============================================================================
