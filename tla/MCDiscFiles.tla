---------------------------- MODULE MCDiscFiles ----------------------------
(* Instances of DiscLayout for TLC: a disc of one image file per track.    *)
EXTENDS DiscLayout

TwoFiles == <<4, 4>>
NoPatches == {<<>>}
=============================================================================
