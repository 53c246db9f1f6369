----------------------------- MODULE MCObjectIO -----------------------------
(* Blocks of two bytes and windows of two blocks, so a value of 5 bytes     *)
(* takes a full window and a partial one and 3 bytes a single window; 1     *)
(* byte is inline.  Eight blocks leave a free 3-block extent wherever the   *)
(* old value lies, since cvt_get allocates before it frees.  Two replaces  *)
(* and two gets give every order of a get against a replace and its        *)
(* frames; frames of up to 3 bytes end inside a window and across one.     *)
EXTENDS ObjectIO

MCBlk == 2
MCWindow == 2
MCInline == 1
MCLengths == {1, 3, 5}
\* values of one window at most: the write windows never overlap
MCLengthsOneWindow == {1, 3}
MCFrameMax == 3
MCNBlocks == 8
MCMaxPuts == 2
\* a value, a replace that frees its extent and one that takes it again
MCMaxPutsThree == 3
MCMaxGets == 2

=============================================================================
