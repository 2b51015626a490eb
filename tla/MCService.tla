------------------------------- MODULE MCService -------------------------------
(***************************************************************************)
(* Packets for the model checker: a short one behind a long one, so that a *)
(* stale offset would run past its end.                                    *)
(***************************************************************************)
EXTENDS Service

FourPackets == <<3, 2, 3, 2>>

===============================================================================
