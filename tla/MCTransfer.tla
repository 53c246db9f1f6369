----------------------------- MODULE MCTransfer -----------------------------
(* A walk of two nodes of two entries each, with three free blocks on the  *)
(* destination set: the initial placements range from every block already  *)
(* in place to all four to move, so both completion and "no space" occur.  *)
EXTENDS Transfer

MCNodeCount == 2
MCNodeSize == 2
MCFreeDest == 3

=============================================================================
