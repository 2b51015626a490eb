----------------------------- MODULE MCFramedLink -----------------------------
(***************************************************************************)
(* Frames for the model checker.  The address bytes and the body bytes do  *)
(* not matter to the reader except for being sync bytes or not; the length *)
(* byte does.                                                              *)
(***************************************************************************)
EXTENDS FramedLink

\* One and two body bytes; the first has both addresses zero, so that its
\* first byte is the sync byte.
ShortFrames == {<<0, 1, 7>>, <<33, 2, 7, 8>>}

\* A frame with five body bytes to cut off, and one that is shorter than the
\* bytes a resynchronisation can leave in the buffer.
CutFrames == {<<18, 5, 7, 7, 7, 7, 7>>, <<33, 1, 8>>}

\* A frame without a body.
EmptyFrame == {<<18, 0>>}

===============================================================================
