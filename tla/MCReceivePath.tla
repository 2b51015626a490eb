----------------------------- MODULE MCReceivePath -----------------------------
(***************************************************************************)
(* Frames for the model checker: one with a body of one byte, and one with *)
(* three and both addresses zero, so that it starts with a sync byte.  The *)
(* bytes of the bodies can be taken for lengths, so that a reader out of   *)
(* step finds frames in them.  Behind the end of a frame there may be      *)
(* another whole frame, or one that is given up.                           *)
(***************************************************************************)
EXTENDS ReceivePath

TwoFrames == {<<33, 1, 1>>, <<0, 3, 1, 2, 1>>}

WholeOrCut == {<<>>, <<33, 1, 1>>, <<33, 2, 1, SYNC>>}

===============================================================================
