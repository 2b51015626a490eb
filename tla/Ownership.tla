------------------------------ MODULE Ownership ------------------------------
(***************************************************************************)
(* What a pool of buffers promises its users: a buffer has at most one     *)
(* owner, an owner gets a buffer only when nobody owns it, and only the    *)
(* owner can give it back.                                                 *)
(***************************************************************************)
CONSTANTS Owner, Buffer, Nobody

VARIABLE owner

Init == owner = [b \in Buffer |-> Nobody]

Acquire(o, b) == owner[b] = Nobody /\ owner' = [owner EXCEPT ![b] = o]

Release(o, b) == owner[b] = o /\ owner' = [owner EXCEPT ![b] = Nobody]

Next == \E o \in Owner, b \in Buffer : Acquire(o, b) \/ Release(o, b)

Spec == Init /\ [][Next]_owner

===============================================================================
