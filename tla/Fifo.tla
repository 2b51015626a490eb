--------------------------------- MODULE Fifo ---------------------------------
(***************************************************************************)
(* What the channels of this system promise: an item put in comes out      *)
(* exactly once, in the order of the puts, and nothing else comes out.     *)
(***************************************************************************)
EXTENDS Sequences

CONSTANTS Item, None

VARIABLES
  queue,   \* The items put in and not yet taken out, oldest first.
  last     \* The item taken out last.

vars == <<queue, last>>

Init == queue = <<>> /\ last = None

Put(x) == queue' = Append(queue, x) /\ UNCHANGED last

Take == queue # <<>> /\ last' = Head(queue) /\ queue' = Tail(queue)

Next == Take \/ \E x \in Item : Put(x)

\* The same without the promise that items do come out.
SafeSpec == Init /\ [][Next]_vars

Spec == SafeSpec /\ WF_vars(Take)

===============================================================================
