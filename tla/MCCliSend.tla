------------------------------- MODULE MCCliSend -------------------------------
(***************************************************************************)
(* Data for the model checker: none, short, zero bytes, the longest that   *)
(* fits the length field, and one byte more.                               *)
(***************************************************************************)
EXTENDS CliSend

Bytes(n) == [k \in 1..n |-> k]

SomeData == {<<>>, <<7>>, <<7, 0, 8>>, Bytes(63), Bytes(64)}

===============================================================================
