---------------------------- MODULE BufferManager ----------------------------
(***************************************************************************)
(* BufferManager (msmp/src/service.rs): the send queue of a Service, a     *)
(* ring of as many places as the pool has buffers.  A place holds the      *)
(* BufferRef of a packet to send; a BufferRef is named here by its index   *)
(* in the pool, which is all that tells two of them apart.                 *)
(*                                                                         *)
(* get_buffer and drop are one step each: BufferPool shows that claiming a *)
(* buffer and giving it back are atomic, and that other users of the       *)
(* static pool only ever take buffers nobody owns.                         *)
(***************************************************************************)
EXTENDS Naturals

CONSTANTS
  BUFFER_COUNT,  \* The const generic of the same name.
  None

\* With no place at all, send_buffers[send_buffer_index] is out of bounds.
ASSUME BufferCountAssumption == BUFFER_COUNT \in Nat \ {0}

Slot == 0..(BUFFER_COUNT - 1)

ASSUME NoneAssumption == None \notin Slot

VARIABLES
  send_buffers,        \* The ring: the buffer in each place, or None.
  send_buffer_index,   \* The place of the next buffer to send.
  inHand,              \* Buffers owned by the reader or a handler.
  elsewhere,           \* Buffers owned by other users of the pool.
  sentLast             \* History: the buffer sent last.

vars == <<send_buffers, send_buffer_index, inHand, elsewhere, sentLast>>

Init ==
  /\ send_buffers = [k \in Slot |-> None]
  /\ send_buffer_index = 0
  /\ inHand = {}
  /\ elsewhere = {}
  /\ sentLast = None

InRing(b) == \E k \in Slot : send_buffers[k] = b

Free == {b \in Slot : b \notin inHand \cup elsewhere /\ ~InRing(b)}

\* send_buffer_index + n modulo BUFFER_COUNT, by comparison and subtraction.
Place(n) ==
  IF send_buffer_index + n >= BUFFER_COUNT
  THEN send_buffer_index + n - BUFFER_COUNT
  ELSE send_buffer_index + n

has_data_to_send == send_buffers[send_buffer_index] # None

-------------------------------------------------------------------------------

\* allocate_send_buffer, when get_buffer finds a buffer.
Allocate(b) ==
  /\ b \in Free
  /\ inHand' = inHand \cup {b}
  /\ UNCHANGED <<send_buffers, send_buffer_index, elsewhere, sentLast>>

\* The owner drops a BufferRef without registering it.
Discard(b) ==
  /\ b \in inHand
  /\ inHand' = inHand \ {b}
  /\ UNCHANGED <<send_buffers, send_buffer_index, elsewhere, sentLast>>

\* Mistake: the search takes the place before send_buffer_index if it can.
LastPlaces(n) == {m \in Slot : m > n}

\* The places searched before Place(n).
EarlierPlaces(n) == {m \in Slot : m < n}

\* find_next_send_buffer_index returns Some(Place(n)).
FirstEmpty(n) ==
  /\ send_buffers[Place(n)] = None
  /\ \A m \in EarlierPlaces(n) : send_buffers[Place(m)] # None

\* Mistake: the search stops one place short.
SearchedButLast == 0..(BUFFER_COUNT - 2)

\* How far from send_buffer_index the search goes.
Searched == Slot

HasRoom == \E n \in Searched : FirstEmpty(n)

\* register_buffer_to_send: without room it gives the buffer back as Err, and
\* the caller still has it.
Register(b) ==
  /\ b \in inHand
  /\ IF HasRoom
     THEN \E n \in Searched :
            /\ FirstEmpty(n)
            /\ send_buffers' = [send_buffers EXCEPT ![Place(n)] = b]
            /\ inHand' = inHand \ {b}
     ELSE UNCHANGED <<send_buffers, inHand>>
  /\ UNCHANGED <<send_buffer_index, elsewhere, sentLast>>

\* Mistake: the index wraps one place too late.
FollowingLate == IF send_buffer_index >= BUFFER_COUNT THEN 0 ELSE send_buffer_index + 1

\* Mistake: the index stays at the place just emptied.
FollowingStays == send_buffer_index

Following ==
  IF send_buffer_index + 1 >= BUFFER_COUNT THEN 0 ELSE send_buffer_index + 1

\* next_buffer, which process calls once get_send_buffer's packet is written:
\* assigning None drops the BufferRef.
NextBuffer ==
  /\ has_data_to_send
  /\ sentLast' = send_buffers[send_buffer_index]
  /\ send_buffers' = [send_buffers EXCEPT ![send_buffer_index] = None]
  /\ send_buffer_index' = Following
  /\ UNCHANGED <<inHand, elsewhere>>

\* Other users of the pool.
TakeElsewhere(b) ==
  /\ b \in Free
  /\ elsewhere' = elsewhere \cup {b}
  /\ UNCHANGED <<send_buffers, send_buffer_index, inHand, sentLast>>

ReturnElsewhere(b) ==
  /\ b \in elsewhere
  /\ elsewhere' = elsewhere \ {b}
  /\ UNCHANGED <<send_buffers, send_buffer_index, inHand, sentLast>>

Next ==
  \/ NextBuffer
  \/ \E b \in Slot :
       \/ Allocate(b) \/ Discard(b) \/ Register(b)
       \/ TakeElsewhere(b) \/ ReturnElsewhere(b)

Spec == Init /\ [][Next]_vars

-------------------------------------------------------------------------------

TypeOK ==
  /\ send_buffers \in [Slot -> Slot \cup {None}]
  /\ send_buffer_index \in Slot
  /\ inHand \subseteq Slot
  /\ elsewhere \subseteq Slot
  /\ sentLast \in Slot \cup {None}

\* The taken places next in line: their number, up to the first empty place.
Leading(n) ==
  /\ \A m \in Slot : m < n => send_buffers[Place(m)] # None
  /\ n \in Slot => send_buffers[Place(n)] = None

QueueLength == CHOOSE n \in 0..BUFFER_COUNT : Leading(n)

\* The packets to send, oldest first.
Queued == [m \in 1..QueueLength |-> send_buffers[Place(m - 1)]]

Queue == INSTANCE Fifo WITH
  Item <- Slot, queue <- Queued, last <- sentLast

\* The ring is a queue: buffers are sent in the order they were registered,
\* each once, wherever the ring wraps and whatever happens in between.
RingIsQueue == Queue!SafeSpec

\* No buffer waits behind a gap: if any place of the ring is taken, the place
\* process looks at is.  (has_data_to_send and get_send_buffer look at one
\* place; a gap would hide what lies behind it until later traffic.)
NothingStranded == (\E k \in Slot : send_buffers[k] # None) => has_data_to_send

\* Registering never fails: process ignores the Err of a forwarded packet,
\* which would drop the packet without a word.  It holds because a buffer that
\* can be registered is one that is not in the ring.
RegisterNeverFails == inHand # {} => HasRoom

===============================================================================
