---------------------------- MODULE ServiceProofs ----------------------------
(***************************************************************************)
(* First the send ring, for any number of buffers: it is a queue, it has   *)
(* no gaps, no buffer is in two hands, and registering a buffer never      *)
(* fails.  Then what a Service promises about handling and sending, for    *)
(* any number of buffers and any packets.  The invariant of the Service    *)
(* adds to that of the ring what ties the two: the reader's buffer is in   *)
(* hand, a buffer in the ring holds a packet, and bytes_sent and the end   *)
(* of the wire belong to the packet at the head of the ring.               *)
(***************************************************************************)
EXTENDS Service, FiniteSetTheorems, SequenceTheorems, TLAPS

-------------------------------------------------------------------------------
\* The ring.

\* No buffer is in two hands, or twice in the ring.
OneOwner ==
  /\ inHand \cap elsewhere = {}
  /\ \A k \in Slot : send_buffers[k] \notin inHand \cup elsewhere
  /\ \A k, l \in Slot :
       send_buffers[k] = send_buffers[l] /\ send_buffers[k] # None => k = l

\* The first n places from send_buffer_index on are taken, the others empty.
Packed(n) == \A m \in Slot : m < n <=> send_buffers[Place(m)] # None

Contiguous == \E n \in 0..BUFFER_COUNT : Packed(n)

IInv ==
  /\ TypeOK
  /\ OneOwner
  /\ Contiguous

-------------------------------------------------------------------------------

\* Place stays in the ring.
LEMMA PlaceType == TypeOK => \A m \in Slot : Place(m) \in Slot
  BY BufferCountAssumption DEF TypeOK, Place, Slot

\* No slot is counted twice,
LEMMA PlaceInjective ==
  TypeOK => \A m, l \in Slot : Place(m) = Place(l) => m = l
  BY BufferCountAssumption DEF TypeOK, Place, Slot

\* and none is left out.
LEMMA PlaceOnto == TypeOK => \A k \in Slot : \E m \in Slot : Place(m) = k
  <1> SUFFICES ASSUME TypeOK, NEW k \in Slot PROVE \E m \in Slot : Place(m) = k
    OBVIOUS
  <1>1. CASE k >= send_buffer_index
    <2>1. k - send_buffer_index \in Slot /\ Place(k - send_buffer_index) = k
      BY <1>1, BufferCountAssumption DEF TypeOK, Place, Slot
    <2>2. QED
      BY <2>1
  <1>2. CASE k < send_buffer_index
    <2> DEFINE m == k + BUFFER_COUNT - send_buffer_index
    <2>1. m \in Slot /\ Place(m) = k
      BY <1>2, BufferCountAssumption DEF TypeOK, Place, Slot
    <2>2. QED
      BY <2>1
  <1>3. QED
    BY <1>1, <1>2 DEF TypeOK, Slot

\* The ring starts at the head.
LEMMA PlaceZero == TypeOK => Place(0) = send_buffer_index /\ 0 \in Slot
  BY BufferCountAssumption DEF TypeOK, Place, Slot

\* There is one way to be packed, and the queue is that long.
LEMMA LengthIs ==
  ASSUME NEW n \in 0..BUFFER_COUNT, Packed(n)
  PROVE  QueueLength = n
  <1>1. \A p \in 0..BUFFER_COUNT : Leading(p) => p = n
    <2> SUFFICES ASSUME NEW p \in 0..BUFFER_COUNT, Leading(p), p # n PROVE FALSE
      OBVIOUS
    <2>1. CASE p < n
      BY <2>1, BufferCountAssumption DEF Leading, Packed, Slot
    <2>2. CASE n < p
      BY <2>2, BufferCountAssumption DEF Leading, Packed, Slot
    <2>3. QED
      BY <2>1, <2>2, BufferCountAssumption
  <1>2. Leading(n)
    BY BufferCountAssumption DEF Leading, Packed, Slot
  <1>3. QED
    BY <1>1, <1>2 DEF QueueLength

\* A function from Slot that repeats no value and misses one value of Slot
\* must have a value outside of Slot: more pigeons than holes.
LEMMA RingHasRoom ==
  ASSUME TypeOK, OneOwner, NEW b \in inHand
  PROVE  \E k \in Slot : send_buffers[k] = None
  <1> SUFFICES ASSUME \A k \in Slot : send_buffers[k] # None PROVE FALSE
    OBVIOUS
  <1>1. send_buffers \in [Slot -> Slot \ {b}]
    BY DEF TypeOK, OneOwner
  <1>2. IsFiniteSet(Slot) /\ b \in Slot
    BY BufferCountAssumption, FS_Interval DEF Slot, TypeOK
  <1>3. /\ IsFiniteSet(Slot \ {b})
        /\ Cardinality(Slot \ {b}) = Cardinality(Slot) - 1
    BY <1>2, FS_RemoveElement
  <1>4. Cardinality(Slot) \in Nat
    BY <1>2, FS_CardinalityType
  <1>5. \E k, l \in Slot : k # l /\ send_buffers[k] = send_buffers[l]
    BY <1>1, <1>2, <1>3, <1>4, FS_PigeonHole
  <1>6. QED
    BY <1>5 DEF OneOwner

-------------------------------------------------------------------------------

\* So a buffer outside of the ring finds the first empty place.
LEMMA RoomForAll ==
  ASSUME IInv, NEW b \in inHand
  PROVE  HasRoom
  <1>1. PICK n \in 0..BUFFER_COUNT : Packed(n)
    BY DEF IInv, Contiguous
  <1>2. PICK k \in Slot : send_buffers[k] = None
    BY RingHasRoom DEF IInv
  <1>3. PICK m \in Slot : Place(m) = k
    BY PlaceOnto DEF IInv
  <1>4. n \in Slot
    BY <1>1, <1>2, <1>3, BufferCountAssumption DEF Packed, Slot
  <1>5. FirstEmpty(n)
    BY <1>1, <1>4 DEF Packed, FirstEmpty, EarlierPlaces, Slot
  <1>6. QED
    BY <1>4, <1>5 DEF HasRoom, Searched

\* An empty ring.
LEMMA InitIInv == Init => IInv /\ Packed(0)
  <1> SUFFICES ASSUME Init PROVE IInv /\ Packed(0)
    OBVIOUS
  <1>1. TypeOK /\ OneOwner
    BY BufferCountAssumption, NoneAssumption DEF Init, TypeOK, OneOwner, Slot
  <1>2. Packed(0)
    BY <1>1, PlaceType DEF Init, Packed, Slot
  <1>3. QED
    BY <1>1, <1>2, BufferCountAssumption DEF IInv, Contiguous

\* The actions that leave the ring alone.
LEMMA RingUntouched ==
  ASSUME IInv, UNCHANGED <<send_buffers, send_buffer_index>>
  PROVE  /\ Contiguous'
         /\ QueueLength' = QueueLength
         /\ Queued' = Queued
  <1>1. \A m : Place(m)' = Place(m)
    BY DEF Place
  <1>2. \A n : (Packed(n)' <=> Packed(n)) /\ (Leading(n)' <=> Leading(n))
    BY <1>1 DEF Packed, Leading
  <1>3. QueueLength' = QueueLength
    BY <1>2 DEF QueueLength
  <1>4. QED
    BY <1>1, <1>2, <1>3 DEF IInv, Contiguous, Queued

\* A registered buffer goes to the end of the queue.
LEMMA RegisterAppends ==
  ASSUME IInv, NEW b \in Slot, Register(b)
  PROVE  /\ TypeOK' /\ OneOwner' /\ Contiguous'
         /\ Queued' = Append(Queued, b) /\ QueueLength' = QueueLength + 1
         /\ UNCHANGED sentLast
  <1> USE DEF IInv
  <1>1. HasRoom
    BY RoomForAll DEF Register
  <1>2. PICK n \in Slot :
          /\ FirstEmpty(n)
          /\ send_buffers' = [send_buffers EXCEPT ![Place(n)] = b]
          /\ inHand' = inHand \ {b}
    BY <1>1 DEF Register, Searched
  <1>3. /\ UNCHANGED <<send_buffer_index, elsewhere, sentLast>>
        /\ b \in inHand
    BY DEF Register
  <1>4. Place(n) \in Slot /\ \A m : Place(m)' = Place(m)
    BY <1>2, <1>3, PlaceType DEF Place
  <1>5. TypeOK'
    BY <1>2, <1>3, <1>4 DEF TypeOK
  <1>6. OneOwner'
    BY <1>2, <1>3, <1>4, NoneAssumption DEF OneOwner, TypeOK
  <1>7. Packed(n)
    <2>1. PICK p \in 0..BUFFER_COUNT : Packed(p)
      BY DEF Contiguous
    <2>2. p = n
      BY <1>2, <2>1, BufferCountAssumption DEF Packed, FirstEmpty, EarlierPlaces, Slot
    <2>3. QED
      BY <2>1, <2>2
  <1>8. \A m \in Slot : send_buffers'[Place(m)] = IF m = n THEN b ELSE send_buffers[Place(m)]
    BY <1>2, <1>4, PlaceType, PlaceInjective DEF TypeOK
  <1>9. Packed(n + 1)'
    BY <1>2, <1>4, <1>7, <1>8, NoneAssumption, BufferCountAssumption DEF Packed, Slot
  <1>10. n \in 0..BUFFER_COUNT /\ n + 1 \in 0..BUFFER_COUNT
    BY BufferCountAssumption DEF Slot
  <1>11. QueueLength = n /\ QueueLength' = n + 1
    <2>1. QueueLength = n
      BY <1>7, <1>10, LengthIs
    <2>2. \A p \in 0..BUFFER_COUNT : Leading(p)' => p = n + 1
      BY <1>9, <1>10, BufferCountAssumption DEF Leading, Packed, Slot
    <2>3. Leading(n + 1)'
      BY <1>9, <1>10, BufferCountAssumption DEF Leading, Packed, Slot
    <2>4. QED
      BY <1>9, <1>10, <2>1, <2>2, <2>3 DEF QueueLength
  <1>12. Queued' = Append(Queued, b)
    <2>1. Queued' = [m \in 1..(n + 1) |-> send_buffers'[Place(m - 1)]]
      BY <1>4, <1>11 DEF Queued
    <2>2. Queued = [m \in 1..n |-> send_buffers[Place(m - 1)]]
      BY <1>11 DEF Queued
    <2>3. Append(Queued, b) = [m \in 1..(n + 1) |-> IF m = n + 1 THEN b ELSE Queued[m]]
      BY <2>2, <1>10
    <2>4. ASSUME NEW m \in 1..(n + 1)
          PROVE  send_buffers'[Place(m - 1)] = IF m = n + 1 THEN b ELSE Queued[m]
      <3>1. m - 1 \in Slot
        BY <1>10, BufferCountAssumption DEF Slot
      <3>2. QED
        BY <1>8, <2>2, <3>1, <1>10
    <2>5. QED
      BY <2>1, <2>3, <2>4
  <1>13. QED
    BY <1>3, <1>5, <1>6, <1>9, <1>10, <1>11, <1>12 DEF Contiguous

\* next_buffer takes the head of the queue.
LEMMA NextBufferTakes ==
  ASSUME IInv, NextBuffer
  PROVE  /\ TypeOK' /\ OneOwner' /\ Contiguous'
         /\ Queued # <<>>
         /\ sentLast' = Head(Queued)
         /\ Queued' = Tail(Queued) /\ QueueLength' = QueueLength - 1
  <1> USE DEF IInv
  <1>1. PICK n \in 0..BUFFER_COUNT : Packed(n)
    BY DEF Contiguous
  <1>2. n \in Nat /\ n >= 1
    <2>1. send_buffers[Place(0)] # None /\ 0 \in Slot
      BY PlaceZero DEF NextBuffer, has_data_to_send
    <2>2. 0 < n
      BY <1>1, <2>1 DEF Packed
    <2>3. QED
      BY <2>2, BufferCountAssumption
  <1>3. /\ send_buffers' = [send_buffers EXCEPT ![Place(0)] = None]
        /\ sentLast' = send_buffers[Place(0)]
        /\ UNCHANGED <<inHand, elsewhere>>
        /\ 0 \in Slot
    BY PlaceZero DEF NextBuffer
  <1>4. ASSUME NEW m \in Slot
        PROVE  Place(m)' = IF m + 1 \in Slot THEN Place(m + 1) ELSE Place(0)
    BY BufferCountAssumption DEF NextBuffer, Following, Place, Slot, TypeOK
  <1>5. TypeOK' /\ OneOwner'
    <2>1. /\ send_buffer_index' \in Slot
          /\ send_buffers' = [send_buffers EXCEPT ![send_buffer_index] = None]
          /\ sentLast' = send_buffers[send_buffer_index]
      BY BufferCountAssumption DEF NextBuffer, Following, TypeOK, Slot
    <2>2. TypeOK'
      BY <1>3, <2>1 DEF TypeOK
    <2>3. OneOwner'
      BY <1>3, <2>1, NoneAssumption DEF TypeOK, OneOwner
    <2>4. QED
      BY <2>2, <2>3
  <1>6. \A m \in Slot :
          send_buffers'[Place(m)] = IF m = 0 THEN None ELSE send_buffers[Place(m)]
    BY <1>3, PlaceType, PlaceInjective DEF TypeOK
  <1>7. \A m \in Slot :
          send_buffers'[Place(m)'] =
            IF m + 1 \in Slot THEN send_buffers[Place(m + 1)] ELSE None
    BY <1>3, <1>4, <1>6 DEF Slot
  <1>8. Packed(n - 1)'
    <2>1. ASSUME NEW m \in Slot
          PROVE  m < n - 1 <=> send_buffers'[Place(m)'] # None
      <3>1. CASE m + 1 \in Slot
        BY <1>1, <1>2, <1>7, <3>1 DEF Packed, Slot
      <3>2. CASE m + 1 \notin Slot
        BY <1>2, <1>7, <3>2, BufferCountAssumption DEF Slot
      <3>3. QED
        BY <3>1, <3>2
    <2>2. QED
      BY <2>1 DEF Packed
  <1>9. n - 1 \in 0..BUFFER_COUNT
    BY <1>2, BufferCountAssumption
  <1>10. QueueLength = n /\ QueueLength' = n - 1
    <2>1. QueueLength = n
      BY <1>1, LengthIs
    <2>2. \A p \in 0..BUFFER_COUNT : Leading(p)' => p = n - 1
      BY <1>8, <1>9, <1>2, BufferCountAssumption DEF Leading, Packed, Slot
    <2>3. Leading(n - 1)'
      BY <1>8, <1>9, <1>2, BufferCountAssumption DEF Leading, Packed, Slot
    <2>4. QED
      BY <1>8, <1>9, <2>1, <2>2, <2>3 DEF QueueLength
  <1>11. Queued = [m \in 1..n |-> send_buffers[Place(m - 1)]]
    BY <1>10 DEF Queued
  <1>12. Queued' = [m \in 1..(n - 1) |-> send_buffers'[Place(m - 1)']]
    BY <1>10 DEF Queued
  <1>13. Queued' = Tail(Queued)
    <2>1. Tail(Queued) = [m \in 1..(n - 1) |-> Queued[m + 1]]
      BY <1>2, <1>11
    <2>2. ASSUME NEW m \in 1..(n - 1)
          PROVE  send_buffers'[Place(m - 1)'] = Queued[m + 1]
      <3>1. m - 1 \in Slot /\ (m - 1) + 1 \in Slot /\ (m - 1) + 1 = (m + 1) - 1
        BY <1>2, BufferCountAssumption DEF Slot
      <3>2. QED
        BY <1>2, <1>7, <1>11, <3>1
    <2>3. QED
      BY <1>12, <2>1, <2>2
  <1>14. Queued # <<>> /\ sentLast' = Head(Queued)
    BY <1>2, <1>3, <1>11
  <1>15. QED
    BY <1>5, <1>8, <1>9, <1>10, <1>13, <1>14 DEF Contiguous

-------------------------------------------------------------------------------

\* The actions that move buffers outside of the ring.
OutsideRing ==
  \E b \in Slot :
    Allocate(b) \/ Discard(b) \/ TakeElsewhere(b) \/ ReturnElsewhere(b)

\* They keep the invariant.
LEMMA OutsideRingIInv ==
  ASSUME IInv, OutsideRing \/ UNCHANGED vars
  PROVE  IInv' /\ UNCHANGED <<send_buffers, send_buffer_index, sentLast>>
  <1>1. UNCHANGED <<send_buffers, send_buffer_index, sentLast>>
    BY DEF OutsideRing, Allocate, Discard, TakeElsewhere, ReturnElsewhere, vars
  <1>2. TypeOK' /\ OneOwner'
    BY DEF OutsideRing, Allocate, Discard, TakeElsewhere, ReturnElsewhere, vars,
           IInv, TypeOK, OneOwner, Free, InRing
  <1>3. QED
    BY <1>1, <1>2, RingUntouched DEF IInv

\* The invariant is inductive.
LEMMA NextIInv == IInv /\ [Next]_vars => IInv'
  <1> SUFFICES ASSUME IInv, [Next]_vars PROVE IInv'
    OBVIOUS
  <1>1. ASSUME NEW b \in Slot, Register(b) PROVE IInv'
    BY <1>1, RegisterAppends DEF IInv
  <1>2. CASE NextBuffer
    BY <1>2, NextBufferTakes DEF IInv
  <1>3. CASE OutsideRing \/ UNCHANGED vars
    BY <1>3, OutsideRingIInv
  <1>4. QED
    BY <1>1, <1>2, <1>3 DEF Next, OutsideRing

\* The invariant holds in every behaviour.
LEMMA Invariance == Spec => []IInv
  BY InitIInv, NextIInv, PTL DEF Spec

\* The ring has no gaps: has_data_to_send sees every buffer that waits.
THEOREM NoGaps == Spec => []NothingStranded
  <1>1. IInv => NothingStranded
    <2> SUFFICES ASSUME IInv, NEW k \in Slot, send_buffers[k] # None
                 PROVE  has_data_to_send
      BY DEF NothingStranded
    <2>1. PICK n \in 0..BUFFER_COUNT : Packed(n)
      BY DEF IInv, Contiguous
    <2>2. PICK m \in Slot : Place(m) = k
      BY PlaceOnto DEF IInv
    <2>3. 0 < n
      BY <2>1, <2>2, BufferCountAssumption DEF Packed, Slot
    <2>4. QED
      BY <2>1, <2>3, PlaceZero DEF IInv, Packed, has_data_to_send
  <1>2. QED
    BY <1>1, Invariance, PTL

\* The types are right.
THEOREM TypeCorrect == Spec => []TypeOK
  BY Invariance, PTL DEF IInv

\* The Err of register_buffer_to_send, which process ignores, never happens.
THEOREM AlwaysRoom == Spec => []RegisterNeverFails
  <1>1. IInv => RegisterNeverFails
    BY RoomForAll DEF RegisterNeverFails
  <1>2. QED
    BY <1>1, Invariance, PTL

\* The ring implements a queue.
THEOREM Implements == Spec => RingIsQueue
  <1>1. Init => Queue!Init
    <2> SUFFICES ASSUME Init PROVE Queue!Init
      OBVIOUS
    <2>1. QueueLength = 0
      BY InitIInv, LengthIs, BufferCountAssumption
    <2>2. Queued = <<>>
      BY <2>1 DEF Queued
    <2>3. QED
      BY <2>2 DEF Init, Queue!Init
  <1>2. IInv /\ [Next]_vars => [Queue!Next]_(Queue!vars)
    <2> SUFFICES ASSUME IInv, [Next]_vars PROVE [Queue!Next]_(Queue!vars)
      OBVIOUS
    <2>1. ASSUME NEW b \in Slot, Register(b) PROVE Queue!Put(b)
      BY <2>1, RegisterAppends DEF Queue!Put
    <2>2. CASE NextBuffer
      BY <2>2, NextBufferTakes DEF Queue!Take, Queue!Next
    <2>3. CASE OutsideRing \/ UNCHANGED vars
      BY <2>3, OutsideRingIInv, RingUntouched DEF Queue!vars
    <2>4. QED
      BY <2>1, <2>2, <2>3 DEF Next, OutsideRing, Queue!Next
  <1>3. QED
    BY <1>1, <1>2, Invariance, PTL DEF Spec, RingIsQueue, Queue!SafeSpec

-------------------------------------------------------------------------------
\* The Service.

ServiceTypes ==
  /\ reader \in Slot \cup {None}
  /\ complete \in BOOLEAN
  /\ phase \in {"idle", "handling", "writing"}
  /\ bytes_sent \in Nat
  /\ contents \in [Slot -> Nat]
  /\ made \in Nat
  /\ received \in Seq(Nat) /\ handled \in Seq(Nat)
  /\ wire \in Seq(Nat \X Nat)

\* The reader owns its buffer; process is in the handler with a packet, in
\* write without one.
ReaderOwns ==
  /\ reader # None => reader \in inHand
  /\ complete => reader # None
  /\ phase = "handling" => complete
  /\ phase = "writing" => ~complete /\ has_data_to_send

\* What waits to be sent or handled is a packet.
HoldsPackets ==
  /\ \A k \in Slot : send_buffers[k] # None => contents[send_buffers[k]] \in Packet
  /\ complete => contents[reader] \in Packet

\* bytes_sent belongs to the packet at the head of the ring,
OffsetOfHead == IF has_data_to_send THEN bytes_sent < bytes_to_send ELSE bytes_sent = 0

\* and so does the end of the wire.
WireEnds ==
  IF bytes_sent > 0
  THEN wire # <<>> /\ wire[Len(wire)] = <<Sending, bytes_sent>>
  ELSE wire # <<>> => IsLast(wire[Len(wire)])

ServiceIInv ==
  /\ IInv
  /\ ServiceTypes /\ ReaderOwns /\ HoldsPackets
  /\ OffsetOfHead /\ WireEnds
  /\ HandledOnce /\ WireIsWhole

LEMMA ServiceInitially == ServiceInit => ServiceIInv
<1> SUFFICES ASSUME ServiceInit PROVE ServiceIInv
  OBVIOUS
<1>1. IInv
  BY InitIInv DEF ServiceInit
<1>2. ~has_data_to_send
  BY <1>1 DEF ServiceInit, Init, has_data_to_send, IInv, TypeOK
<1>3. ServiceTypes /\ ReaderOwns /\ HoldsPackets
  <2>1. ServiceTypes
    <3>1. \A S : <<>> \in Seq(S)
      OBVIOUS
    <3> QED BY <3>1 DEF ServiceInit, ServiceTypes
  <2>2. ReaderOwns
    BY DEF ServiceInit, ReaderOwns
  <2>3. HoldsPackets
    BY DEF ServiceInit, Init, HoldsPackets
  <2> QED BY <2>1, <2>2, <2>3
<1>4. OffsetOfHead /\ WireEnds /\ HandledOnce /\ WireIsWhole
  BY <1>2 DEF ServiceInit, OffsetOfHead, WireEnds, HandledOnce, WireIsWhole
<1> QED BY <1>1, <1>3, <1>4 DEF ServiceIInv

-------------------------------------------------------------------------------

\* A packet has at least one byte.
LEMMA LengthIsPositive == \A p \in Packet : PacketLength[p] \in Nat /\ PacketLength[p] > 0
  BY PacketLengthAssumption DEF Packet

\* Registering puts b in an empty place; the others stay as they are.
LEMMA RegisterFills ==
  ASSUME IInv, NEW b \in Slot, Register(b)
  PROVE  /\ send_buffer_index' = send_buffer_index
         /\ b \in inHand /\ inHand' = inHand \ {b}
         /\ \E k \in Slot : /\ send_buffers[k] = None
                            /\ send_buffers' = [send_buffers EXCEPT ![k] = b]
<1>1. HasRoom /\ b \in inHand
  BY RoomForAll DEF Register
<1>2. PICK n \in Slot : /\ FirstEmpty(n)
                        /\ send_buffers' = [send_buffers EXCEPT ![Place(n)] = b]
                        /\ inHand' = inHand \ {b}
  BY <1>1 DEF Register, Searched
<1>3. Place(n) \in Slot
  BY PlaceType DEF IInv
<1> QED BY <1>1, <1>2, <1>3 DEF Register, FirstEmpty

\* Every call of the manager is a step of the manager.
LEMMA ManagerKeepsIInv ==
  ASSUME IInv, UNCHANGED vars \/ NextBuffer \/ \E b \in Slot :
           \/ Allocate(b) \/ Discard(b) \/ Register(b)
           \/ TakeElsewhere(b) \/ ReturnElsewhere(b)
  PROVE  IInv'
  BY NextIInv DEF Next

\* What sending depends on: the ring gains buffers at most, and buffers in the
\* ring keep their contents.
RingGrows ==
  /\ send_buffer_index' = send_buffer_index
  /\ \A k \in Slot : send_buffers[k] # None =>
       send_buffers'[k] = send_buffers[k] /\ contents'[send_buffers[k]] = contents[send_buffers[k]]

\* Then the packet being sent is still being sent.
LEMMA HeadStays ==
  ASSUME ServiceIInv, RingGrows, IInv', HoldsPackets', UNCHANGED sendVars
  PROVE  /\ OffsetOfHead' /\ WireEnds' /\ WireIsWhole'
         /\ has_data_to_send => has_data_to_send'
<1>1. send_buffer_index \in Slot
  BY DEF ServiceIInv, IInv, TypeOK
<1>2. CASE has_data_to_send
  <2>1. has_data_to_send' /\ Sending' = Sending
    BY <1>1, <1>2 DEF RingGrows, has_data_to_send, Sending
  <2> QED
    BY <1>2, <2>1 DEF ServiceIInv, OffsetOfHead, bytes_to_send, WireEnds, WireIsWhole, IsLast, sendVars
<1>3. CASE ~has_data_to_send
  <2>1. bytes_sent = 0 /\ bytes_sent' = 0 /\ wire' = wire
    BY <1>3 DEF ServiceIInv, OffsetOfHead, sendVars
  <2>2. WireEnds' /\ WireIsWhole'
    BY <2>1 DEF ServiceIInv, WireEnds, WireIsWhole, IsLast
  <2>3. has_data_to_send' => bytes_to_send' > 0
    <3>1. send_buffer_index' \in Slot
      BY <1>1 DEF RingGrows
    <3>2. has_data_to_send' => Sending' \in Packet
      BY <3>1 DEF HoldsPackets, has_data_to_send, Sending, Packet
    <3> QED BY <3>2, LengthIsPositive DEF bytes_to_send
  <2>4. OffsetOfHead'
    BY <2>1, <2>3 DEF OffsetOfHead
  <2> QED BY <1>3, <2>2, <2>4
<1> QED BY <1>2, <1>3

-------------------------------------------------------------------------------

\* Reception does not touch the ring, and handles nothing.
LEMMA PutReceivedDataKeeps ==
  ASSUME ServiceIInv, NEW b \in Slot, NEW c \in BOOLEAN, PutReceivedData(b, c)
  PROVE  ServiceIInv'
<1> USE DEF ServiceIInv
<1>1. /\ phase = "idle" /\ phase' = "idle" /\ ~complete /\ complete' = c /\ reader' = b
      /\ UNCHANGED <<send_buffers, send_buffer_index>> /\ UNCHANGED sendVars
      /\ handled' = handled
  BY DEF PutReceivedData, Allocate, managerVars, vars
<1>2. b # None /\ b \in inHand' /\ \A k \in Slot : send_buffers[k] # b
  <2>1. CASE reader = None
    BY <2>1, NoneAssumption DEF PutReceivedData, Allocate, Free, InRing
  <2>2. CASE reader # None
    BY <2>2 DEF PutReceivedData, managerVars, vars, ReaderOwns, IInv, OneOwner
  <2> QED BY <2>1, <2>2
<1>3. IInv'
  BY ManagerKeepsIInv DEF PutReceivedData, managerVars
<1>4. CASE c
  <2>1. /\ made + 1 \in Packet /\ made' = made + 1
        /\ contents' = [contents EXCEPT ![b] = made + 1]
        /\ received' = Append(received, made + 1)
    BY <1>4 DEF PutReceivedData, Fill, Packet, ServiceTypes
  <2>2. ServiceTypes'
    BY <1>1, <2>1 DEF ServiceTypes, sendVars
  <2>3. HoldsPackets'
    BY <1>1, <1>2, <2>1 DEF HoldsPackets, ServiceTypes
  <2>4. ReaderOwns'
    BY <1>1, <1>2 DEF ReaderOwns
  <2>5. HandledOnce'
    <3>1. contents'[b] = made + 1
      BY <2>1 DEF ServiceTypes
    <3>2. handled = received
      BY <1>1 DEF HandledOnce, ServiceTypes
    <3> QED BY <1>1, <1>4, <2>1, <3>1, <3>2 DEF HandledOnce, ServiceTypes
  <2>6. RingGrows
    BY <1>1, <1>2, <2>1 DEF RingGrows, ServiceTypes
  <2> QED BY <1>1, <1>3, <2>2, <2>3, <2>4, <2>5, <2>6, HeadStays
<1>5. CASE ~c
  <2>1. UNCHANGED <<packetVars, received>>
    BY <1>5 DEF PutReceivedData
  <2>2. ServiceTypes'
    BY <1>1, <2>1 DEF ServiceTypes, sendVars, packetVars
  <2>3. HoldsPackets'
    BY <1>1, <1>5, <2>1 DEF HoldsPackets, packetVars
  <2>4. ReaderOwns'
    BY <1>1, <1>2 DEF ReaderOwns
  <2>5. HandledOnce'
    BY <1>1, <1>5, <2>1 DEF HandledOnce
  <2>6. RingGrows
    BY <1>1, <2>1 DEF RingGrows, packetVars
  <2> QED BY <1>1, <1>3, <2>2, <2>3, <2>4, <2>5, <2>6, HeadStays
<1> QED BY <1>4, <1>5

\* process moves the packet from complete to handled.
LEMMA ProcessKeeps == ASSUME ServiceIInv, Process PROVE ServiceIInv'
<1> USE DEF ServiceIInv
<1>1. /\ phase = "idle"
      /\ UNCHANGED <<managerVars, readerVars, packetVars, sendVars>>
  BY DEF Process
<1>2. IInv'
  BY <1>1, ManagerKeepsIInv DEF managerVars
<1>3. HoldsPackets' /\ RingGrows
  BY <1>1 DEF HoldsPackets, RingGrows, managerVars, vars, readerVars, packetVars
<1>4. CASE complete
  <2>1. phase' = "handling" /\ handled' = Append(handled, contents[reader])
    BY <1>4 DEF Process, Handles
  <2>2. contents[reader] \in Nat
    BY <1>4 DEF HoldsPackets, Packet
  <2>3. ServiceTypes'
    BY <1>1, <2>1, <2>2 DEF ServiceTypes, readerVars, packetVars, sendVars
  <2>4. ReaderOwns'
    BY <1>1, <1>4, <2>1 DEF ReaderOwns, managerVars, vars, readerVars
  <2>5. HandledOnce'
    BY <1>1, <1>4, <2>1, <2>2 DEF HandledOnce, ServiceTypes, readerVars
  <2> QED BY <1>1, <1>2, <1>3, <2>3, <2>4, <2>5, HeadStays
<1>5. CASE ~complete
  <2>1. phase' = "writing" /\ handled' = handled /\ has_data_to_send
    BY <1>5 DEF Process, Handles, SendsOnly
  <2>2. ServiceTypes'
    BY <1>1, <2>1 DEF ServiceTypes, readerVars, packetVars, sendVars
  <2>3. ReaderOwns'
    BY <1>1, <1>5, <2>1 DEF ReaderOwns, managerVars, vars, readerVars, has_data_to_send
  <2>4. HandledOnce'
    BY <1>1, <1>5, <2>1 DEF HandledOnce, readerVars
  <2> QED BY <1>1, <1>2, <1>3, <2>2, <2>3, <2>4, HeadStays
<1> QED BY <1>4, <1>5

\* The handler fills no buffer but its own, and queues it behind the head.
LEMMA HandlerRegistersKeeps ==
  ASSUME ServiceIInv, NEW b \in Slot, HandlerRegisters(b)
  PROVE  ServiceIInv'
<1> USE DEF ServiceIInv
<1>1. /\ phase = "handling" /\ complete /\ reader # None /\ b # reader
      /\ UNCHANGED <<readerVars, sendVars, phase, handled>>
  BY DEF HandlerRegisters, ReaderOwns
<1>2. /\ made + 1 \in Packet /\ made' = made + 1
      /\ contents' = [contents EXCEPT ![b] = made + 1]
  BY DEF HandlerRegisters, Fill, Packet, ServiceTypes
<1>3. Register(b)
  BY DEF HandlerRegisters
<1>4. PICK k \in Slot : /\ send_buffers[k] = None
                       /\ send_buffers' = [send_buffers EXCEPT ![k] = b]
  BY <1>3, RegisterFills
<1>5. /\ send_buffer_index' = send_buffer_index
      /\ b \in inHand /\ inHand' = inHand \ {b}
  BY <1>3, RegisterFills
<1>6. IInv'
  BY <1>3, ManagerKeepsIInv
<1>7. \A l \in Slot : send_buffers[l] # b
  BY <1>5 DEF IInv, OneOwner
<1>8. HoldsPackets'
  BY <1>1, <1>2, <1>4, <1>7 DEF HoldsPackets, ServiceTypes, IInv, TypeOK, readerVars
<1>9. RingGrows
  BY <1>2, <1>4, <1>5, <1>7 DEF RingGrows, ServiceTypes, IInv, TypeOK
<1>10. ServiceTypes'
  BY <1>1, <1>2 DEF ServiceTypes, readerVars, sendVars
<1>11. ReaderOwns'
  BY <1>1, <1>5 DEF ReaderOwns, readerVars
<1>12. HandledOnce'
  BY <1>1 DEF HandledOnce, readerVars
<1> QED BY <1>1, <1>6, <1>8, <1>9, <1>10, <1>11, <1>12, HeadStays

\* Taking a buffer, or dropping one, touches neither reader nor ring.
LEMMA BuffersKeep ==
  ASSUME ServiceIInv, NEW b \in Slot,
         HandlerAllocates(b) \/ HandlerDiscards(b) \/ Elsewhere(b)
  PROVE  ServiceIInv'
<1> USE DEF ServiceIInv
<1>1. UNCHANGED <<send_buffers, send_buffer_index, readerVars, packetVars, sendVars, phase, handled>>
  BY DEF HandlerAllocates, HandlerDiscards, Elsewhere, Allocate, Discard,
         TakeElsewhere, ReturnElsewhere
<1>2. IInv'
  BY ManagerKeepsIInv DEF HandlerAllocates, HandlerDiscards, Elsewhere
<1>3. reader # None => reader \in inHand'
  BY DEF HandlerAllocates, HandlerDiscards, Elsewhere, Allocate, Discard,
         TakeElsewhere, ReturnElsewhere, ReaderOwns
<1>4. HoldsPackets' /\ RingGrows
  BY <1>1 DEF HoldsPackets, RingGrows, readerVars, packetVars
<1>5. ServiceTypes'
  BY <1>1 DEF ServiceTypes, readerVars, packetVars, sendVars
<1>6. ReaderOwns'
  BY <1>1, <1>3 DEF ReaderOwns, readerVars, has_data_to_send
<1>7. HandledOnce'
  BY <1>1 DEF HandledOnce, readerVars, packetVars
<1> QED BY <1>1, <1>2, <1>4, <1>5, <1>6, <1>7, HeadStays

\* The reader's buffer goes to the end of the ring or back to the pool.
LEMMA HandlerReturnsKeeps ==
  ASSUME ServiceIInv, NEW forward \in BOOLEAN, HandlerReturns(forward)
  PROVE  ServiceIInv'
<1> USE DEF ServiceIInv
<1>1. /\ phase = "handling" /\ complete /\ reader \in Slot /\ reader # None
      /\ reader' = None /\ complete' = FALSE
      /\ UNCHANGED <<received, packetVars, sendVars, handled>>
  BY DEF HandlerReturns, ReaderOwns, ServiceTypes
<1>2. phase' = IF has_data_to_send' THEN "writing" ELSE "idle"
  BY DEF HandlerReturns
<1>3. Register(reader) \/ Discard(reader)
  BY DEF HandlerReturns
<1>4. IInv'
  BY <1>1, <1>3, ManagerKeepsIInv
<1>5. HoldsPackets' /\ RingGrows
  <2>1. CASE Discard(reader)
    BY <1>1, <2>1 DEF Discard, HoldsPackets, RingGrows, packetVars
  <2>2. CASE Register(reader)
    <3>1. PICK k \in Slot : /\ send_buffers[k] = None
                           /\ send_buffers' = [send_buffers EXCEPT ![k] = reader]
      BY <1>1, <2>2, RegisterFills
    <3>2. send_buffer_index' = send_buffer_index
      BY <1>1, <2>2, RegisterFills
    <3> QED BY <1>1, <3>1, <3>2 DEF HoldsPackets, RingGrows, packetVars, IInv, TypeOK
  <2> QED BY <1>3, <2>1, <2>2
<1>6. ServiceTypes'
  BY <1>1, <1>2 DEF ServiceTypes, packetVars, sendVars
<1>7. ReaderOwns'
  BY <1>1, <1>2 DEF ReaderOwns
<1>8. HandledOnce'
  BY <1>1 DEF HandledOnce
<1> QED BY <1>1, <1>4, <1>5, <1>6, <1>7, <1>8, HeadStays

\* A write puts n bytes of the packet at the head behind the wire.
LEMMA WireGrows ==
  ASSUME ServiceIInv, NEW n \in Nat, Written(n)
  PROVE  /\ wire \in Seq(Nat \X Nat) /\ Len(wire) \in Nat
         /\ bytes_sent \in Nat /\ Sending \in Packet
         /\ wire' \in Seq(Nat \X Nat) /\ Len(wire') = Len(wire) + n
         /\ \A k \in 1..Len(wire) : wire'[k] = wire[k]
         /\ \A k \in 1..n : wire'[Len(wire) + k] = <<Sending, bytes_sent + k>>
         /\ n = 0 => wire' = wire
<1> USE DEF ServiceIInv
<1> DEFINE new == [k \in 1..n |-> <<Sending, bytes_sent + k>>]
<1>1. wire \in Seq(Nat \X Nat) /\ bytes_sent \in Nat
  BY DEF ServiceTypes
<1>2. Sending \in Packet /\ Sending \in Nat
  <2>1. has_data_to_send
    BY DEF Written, ReaderOwns
  <2> QED BY <2>1 DEF HoldsPackets, IInv, TypeOK, has_data_to_send, Sending, Packet
<1>3. new \in Seq(Nat \X Nat) /\ Len(new) = n /\ \A k \in 1..n : new[k] = <<Sending, bytes_sent + k>>
  BY <1>1, <1>2
<1>4. wire' = wire \o new
  BY DEF Written
<1> HIDE DEF new
<1>5. /\ wire' \in Seq(Nat \X Nat) /\ Len(wire') = Len(wire) + n
      /\ \A k \in 1..Len(wire) : wire'[k] = wire[k]
      /\ \A k \in 1..n : wire'[Len(wire) + k] = <<Sending, bytes_sent + k>>
  BY <1>1, <1>3, <1>4
<1>6. Len(wire) \in Nat /\ (n = 0 => wire' = wire)
  BY <1>1, <1>3, <1>4
<1> QED BY <1>1, <1>2, <1>5, <1>6

\* The wire goes on where bytes_sent says, in the packet at the head.
LEMMA WriteContinues ==
  ASSUME ServiceIInv, NEW n \in Nat, Written(n)
  PROVE  /\ WireIsWhole' /\ wire' \in Seq(Nat \X Nat)
         /\ bytes_sent + n > 0 =>
              wire' # <<>> /\ wire'[Len(wire')] = <<Sending, bytes_sent + n>>
         /\ bytes_sent + n = 0 => wire' = wire
<1> USE DEF ServiceIInv
<1>1. wire \in Seq(Nat \X Nat) /\ bytes_sent \in Nat
  BY WireGrows
<1>5. /\ wire' \in Seq(Nat \X Nat) /\ Len(wire') = Len(wire) + n
      /\ \A k \in 1..Len(wire) : wire'[k] = wire[k]
      /\ \A k \in 1..n : wire'[Len(wire) + k] = <<Sending, bytes_sent + k>>
  BY WireGrows
<1>6. Len(wire) \in Nat /\ (n = 0 => wire' = wire)
  BY WireGrows
<1>7. WireIsWhole'
  <2> SUFFICES ASSUME NEW k \in 1..Len(wire')
               PROVE  \/ k > 1 /\ wire'[k] = <<wire'[k - 1][1], wire'[k - 1][2] + 1>>
                      \/ wire'[k][2] = 1 /\ (k > 1 => IsLast(wire'[k - 1]))
    BY DEF WireIsWhole, IsLast
  <2>0. k \in Nat /\ k >= 1 /\ k <= Len(wire) + n
    BY <1>5, <1>6
  <2> HIDE DEF ServiceIInv
  <2>1. CASE k <= Len(wire)
    <3>0. k \in 1..Len(wire) /\ (k > 1 => k - 1 \in 1..Len(wire))
      BY <1>6, <2>0, <2>1
    <3>1. wire'[k] = wire[k] /\ (k > 1 => wire'[k - 1] = wire[k - 1])
      BY <1>5, <3>0
    <3> QED BY <3>0, <3>1 DEF WireIsWhole, ServiceIInv
  <2>2. CASE k > Len(wire) + 1
    <3>1. /\ k - Len(wire) \in 1..n /\ k - 1 - Len(wire) \in 1..n
          /\ k = Len(wire) + (k - Len(wire)) /\ k - 1 = Len(wire) + (k - 1 - Len(wire))
      BY <1>6, <2>0, <2>2
    <3>2. wire'[k] = <<Sending, bytes_sent + (k - Len(wire))>>
      BY <1>5, <3>1
    <3>3. wire'[k - 1] = <<Sending, bytes_sent + (k - 1 - Len(wire))>>
      BY <1>5, <3>1
    <3> QED BY <1>1, <1>6, <2>2, <3>2, <3>3
  <2>3. CASE k = Len(wire) + 1
    <3>1. wire'[k] = <<Sending, bytes_sent + 1>>
      BY <1>5, <1>6, <2>0, <2>3
    <3>2. k > 1 => wire'[k - 1] = wire[Len(wire)] /\ wire # <<>>
      <4>1. k > 1 => k - 1 = Len(wire) /\ Len(wire) \in 1..Len(wire)
        BY <1>6, <2>0, <2>3
      <4>2. wire = <<>> => Len(wire) = 0
        OBVIOUS
      <4> QED BY <1>5, <4>1, <4>2
    <3>3. CASE bytes_sent > 0
      <4>1. wire # <<>> /\ wire[Len(wire)] = <<Sending, bytes_sent>>
        BY <3>3 DEF WireEnds, ServiceIInv
      <4>2. k > 1
        BY <1>1, <2>3, <4>1
      <4> QED BY <3>1, <3>2, <4>1, <4>2
    <3>4. CASE bytes_sent = 0
      <4>1. k > 1 => IsLast(wire'[k - 1])
        BY <3>2, <3>4 DEF WireEnds, ServiceIInv
      <4> QED BY <3>1, <3>4, <4>1
    <3> QED BY <1>1, <3>3, <3>4
  <2> QED BY <1>6, <2>0, <2>1, <2>2, <2>3
<1>8. bytes_sent + n > 0 => wire' # <<>> /\ wire'[Len(wire')] = <<Sending, bytes_sent + n>>
  <2>1. CASE n = 0
    <3>1. wire' = wire
      BY <1>6, <2>1
    <3> QED BY <1>1, <2>1, <3>1 DEF WireEnds
  <2>2. CASE n > 0
    <3>1. n \in 1..n /\ Len(wire') > 0
      BY <1>5, <1>6, <2>2
    <3> QED BY <1>5, <3>1
  <2> QED BY <2>1, <2>2
<1>9. bytes_sent + n = 0 => wire' = wire
  BY <1>1, <1>6
<1> QED BY <1>5, <1>7, <1>8, <1>9

\* A write goes on with the packet, or completes it and moves to the next.
LEMMA WrittenKeeps ==
  ASSUME ServiceIInv, NEW n \in Nat, Written(n)
  PROVE  ServiceIInv'
<1> USE DEF ServiceIInv
<1>1. /\ phase = "writing" /\ phase' = "idle" /\ ~complete /\ has_data_to_send
      /\ UNCHANGED <<readerVars, packetVars, handled>>
  BY DEF Written, ReaderOwns
<1>2. /\ bytes_sent \in Nat /\ bytes_sent < bytes_to_send
      /\ bytes_sent + n <= bytes_to_send /\ bytes_to_send \in Nat
  <2>1. Sending \in Packet
    BY <1>1 DEF HoldsPackets, IInv, TypeOK, has_data_to_send, Sending
  <2> QED BY <1>1, <2>1, LengthIsPositive DEF Written, OffsetOfHead, ServiceTypes, bytes_to_send
<1>3. HandledOnce'
  BY <1>1 DEF HandledOnce, readerVars
<1>4. WireIsWhole' /\ wire' \in Seq(Nat \X Nat)
  BY WriteContinues
<1>5. CASE CompletesPacket(n)
  <2>1. NextBuffer /\ bytes_sent' = 0 /\ bytes_sent + n = bytes_to_send
    BY <1>5 DEF Written, CompletesPacket
  <2>2. IInv'
    BY <2>1, ManagerKeepsIInv
  <2>3. /\ send_buffers' = [send_buffers EXCEPT ![send_buffer_index] = None]
        /\ inHand' = inHand
    BY <2>1 DEF NextBuffer
  <2>4. ServiceTypes'
    BY <1>1, <1>4, <2>1 DEF ServiceTypes, readerVars, packetVars
  <2>5. ReaderOwns'
    BY <1>1, <2>3 DEF ReaderOwns, readerVars
  <2>6. HoldsPackets'
    BY <1>1, <2>3 DEF HoldsPackets, IInv, TypeOK, readerVars, packetVars
  <2>7. OffsetOfHead'
    <3>1. has_data_to_send' => Sending' \in Packet
      BY <2>2, <2>6 DEF HoldsPackets, IInv, TypeOK, has_data_to_send, Sending, Packet
    <3> QED BY <2>1, <3>1, LengthIsPositive DEF OffsetOfHead, bytes_to_send
  <2>8. WireEnds'
    <3>1. wire'[Len(wire')] = <<Sending, bytes_to_send>>
      BY <1>2, <2>1, WriteContinues
    <3> QED BY <2>1, <3>1 DEF WireEnds, IsLast, bytes_to_send
  <2> QED BY <1>3, <1>4, <2>2, <2>4, <2>5, <2>6, <2>7, <2>8
<1>6. CASE ~CompletesPacket(n)
  <2>1. /\ UNCHANGED managerVars
        /\ bytes_sent' = bytes_sent + n /\ bytes_sent + n # bytes_to_send
    BY <1>6 DEF Written, CompletesPacket
  <2>2. IInv'
    BY <2>1, ManagerKeepsIInv DEF managerVars
  <2>3. ServiceTypes'
    BY <1>1, <1>2, <1>4, <2>1 DEF ServiceTypes, readerVars, packetVars
  <2>4. ReaderOwns'
    BY <1>1, <2>1 DEF ReaderOwns, readerVars, managerVars, vars
  <2>5. HoldsPackets'
    BY <1>1, <2>1 DEF HoldsPackets, readerVars, packetVars, managerVars, vars
  <2>6. /\ Sending' = Sending /\ bytes_to_send' = bytes_to_send
        /\ has_data_to_send' = has_data_to_send
    BY <1>1, <2>1 DEF Sending, bytes_to_send, has_data_to_send, managerVars, vars, packetVars
  <2>7. OffsetOfHead'
    BY <1>1, <1>2, <2>1, <2>6 DEF OffsetOfHead
  <2>8. WireEnds'
    <3>1. CASE bytes_sent + n > 0
      BY <2>1, <2>6, <3>1, WriteContinues DEF WireEnds
    <3>2. CASE bytes_sent + n = 0
      <4>1. wire' = wire /\ bytes_sent = 0
        BY <1>2, <3>2, WriteContinues
      <4> QED BY <2>1, <3>2, <4>1 DEF WireEnds, IsLast
    <3> QED BY <1>2, <3>1, <3>2
  <2> QED BY <1>3, <1>4, <2>2, <2>3, <2>4, <2>5, <2>7, <2>8
<1> QED BY <1>5, <1>6

\* A failed write leaves all but the phase.
LEMMA WriteFailsKeeps == ASSUME ServiceIInv, WriteFails PROVE ServiceIInv'
<1> USE DEF ServiceIInv
<1>1. /\ phase = "writing" /\ phase' = "idle" /\ ~complete
      /\ UNCHANGED <<managerVars, readerVars, packetVars, sendVars, handled>>
  BY DEF WriteFails, AfterError, ReaderOwns, sendVars
<1>2. IInv'
  BY <1>1, ManagerKeepsIInv DEF managerVars
<1>3. HoldsPackets' /\ RingGrows
  BY <1>1 DEF HoldsPackets, RingGrows, managerVars, vars, readerVars, packetVars
<1>4. ServiceTypes'
  BY <1>1 DEF ServiceTypes, readerVars, packetVars, sendVars
<1>5. ReaderOwns' /\ HandledOnce'
  BY <1>1 DEF ReaderOwns, HandledOnce, managerVars, vars, readerVars
<1> QED BY <1>1, <1>2, <1>3, <1>4, <1>5, HeadStays

-------------------------------------------------------------------------------

LEMMA ServiceStepwise == ServiceIInv /\ [ServiceNext]_serviceVars => ServiceIInv'
<1> SUFFICES ASSUME ServiceIInv, [ServiceNext]_serviceVars PROVE ServiceIInv'
  OBVIOUS
<1>1. ASSUME NEW n \in WriteSize, Written(n) PROVE ServiceIInv'
  <2>1. n \in Nat
    BY LengthIsPositive DEF WriteSize
  <2> QED BY <1>1, <2>1, WrittenKeeps
<1>2. CASE UNCHANGED serviceVars
  <2> USE DEF ServiceIInv, serviceVars
  <2>1. IInv'
    BY <1>2, ManagerKeepsIInv DEF managerVars
  <2>2. HoldsPackets' /\ RingGrows
    BY <1>2 DEF HoldsPackets, RingGrows, managerVars, vars, readerVars, packetVars
  <2>3. ServiceTypes'
    BY <1>2 DEF ServiceTypes, readerVars, packetVars, sendVars
  <2>4. ReaderOwns'
    BY <1>2 DEF ReaderOwns, managerVars, vars, readerVars, has_data_to_send
  <2>5. HandledOnce'
    BY <1>2 DEF HandledOnce, readerVars, packetVars
  <2> QED BY <1>2, <2>1, <2>2, <2>3, <2>4, <2>5, HeadStays
<1>3. CASE Handler
  BY <1>3, HandlerRegistersKeeps, BuffersKeep, HandlerReturnsKeeps DEF Handler
<1> QED
  BY <1>1, <1>2, <1>3, PutReceivedDataKeeps, ProcessKeeps, WriteFailsKeeps, BuffersKeep
  DEF ServiceNext

LEMMA ServiceInvariance == ServiceSpec => []ServiceIInv
  BY ServiceInitially, ServiceStepwise, PTL DEF ServiceSpec

\* No byte of a packet is skipped, repeated or mixed with another packet on the
\* wire, whatever writes take and wherever they fail (process, write).
THEOREM NeverTorn == ServiceSpec => []WireIsWhole
  BY ServiceInvariance, PTL DEF ServiceIInv

\* The slice process gives to write begins inside of the packet it sends.
THEOREM InRange == ServiceSpec => []SliceInRange
<1>1. ServiceIInv => SliceInRange
  BY DEF ServiceIInv, ReaderOwns, OffsetOfHead, SliceInRange
<1> QED BY <1>1, ServiceInvariance, PTL

\* Every packet the reader completes is given to the handler once, in order.
THEOREM ExactlyOnce == ServiceSpec => []HandledOnce
  BY ServiceInvariance, PTL DEF ServiceIInv

-------------------------------------------------------------------------------
\* The Service uses the manager as BufferManager describes.

\* Every step of the Service is a step of the manager, or none.
LEMMA StepsOfManager ==
  ASSUME ServiceIInv, [ServiceNext]_serviceVars
  PROVE  [Next]_vars
<1>1. ASSUME NEW b \in Slot, NEW c \in BOOLEAN, PutReceivedData(b, c) PROVE [Next]_vars
  BY <1>1 DEF PutReceivedData, Next, managerVars
<1>2. ASSUME NEW b \in Slot, HandlerAllocates(b) \/ HandlerRegisters(b) \/ HandlerDiscards(b)
      PROVE  [Next]_vars
  BY <1>2 DEF HandlerAllocates, HandlerRegisters, HandlerDiscards, Next
<1>3. ASSUME NEW forward \in BOOLEAN, HandlerReturns(forward) PROVE [Next]_vars
  <2>1. reader \in Slot
    BY <1>3 DEF HandlerReturns, ServiceIInv, ReaderOwns, ServiceTypes
  <2> QED BY <1>3, <2>1 DEF HandlerReturns, Next
<1>4. ASSUME NEW n, Written(n) PROVE [Next]_vars
  BY <1>4 DEF Written, Next, managerVars
<1>5. ASSUME NEW b \in Slot, Elsewhere(b) PROVE [Next]_vars
  BY <1>5 DEF Elsewhere, Next
<1>6. CASE Process \/ WriteFails \/ UNCHANGED serviceVars
  BY <1>6 DEF Process, WriteFails, serviceVars, managerVars
<1> QED BY <1>1, <1>2, <1>3, <1>4, <1>5, <1>6 DEF ServiceNext, Handler

\* A Service never asks of the manager what BufferManager does not allow, so
\* all that is proved of the ring holds inside of a Service.
THEOREM UsesManager == ServiceSpec => Spec
<1>1. ServiceInit => Init
  BY DEF ServiceInit
<1> QED BY <1>1, StepsOfManager, ServiceInvariance, PTL DEF ServiceSpec, Spec

\* The Err that process ignores when it forwards a packet never happens.
THEOREM ForwardNeverFails == ServiceSpec => []RegisterNeverFails
  BY UsesManager, AlwaysRoom

-------------------------------------------------------------------------------
\* The line is a queue of packets.

\* The packets in the ring, and those registered that have not gone out.
InLine == [m \in 1..QueueLength |-> contents[Queued[m]]]
Pending == SubSeq(registered, Cardinality(Ends) + 1, Len(registered))

\* They are the same: what links the history of the wire to the ring.
LineIInv ==
  /\ registered \in Seq(Packet)
  /\ Cardinality(Ends) \in 0..Len(registered)
  /\ Ends = {} \/ LastEnd \in Ends
  /\ Pending = InLine

\* The queue holds the taken places of the ring.
LEMMA QueuedIs ==
  ASSUME IInv
  PROVE  /\ QueueLength \in Nat
         /\ Queued \in Seq(Slot) /\ Len(Queued) = QueueLength
         /\ \A m \in 1..QueueLength :
              /\ Place(m - 1) \in Slot /\ send_buffers[Place(m - 1)] # None
              /\ Queued[m] = send_buffers[Place(m - 1)]
<1>1. PICK n \in 0..BUFFER_COUNT : Packed(n)
  BY DEF IInv, Contiguous
<1>2. QueueLength = n /\ n \in Nat /\ n <= BUFFER_COUNT
  BY <1>1, LengthIs, BufferCountAssumption
<1>3. ASSUME NEW m \in 1..n
      PROVE  Place(m - 1) \in Slot /\ send_buffers[Place(m - 1)] # None
  <2>1. m - 1 \in Slot /\ m - 1 < n
    BY <1>2, BufferCountAssumption DEF Slot
  <2> QED BY <1>1, <2>1, PlaceType DEF IInv, Packed
<1>4. \A m \in 1..n : send_buffers[Place(m - 1)] \in Slot
  BY <1>3 DEF IInv, TypeOK
<1>5. Queued = [m \in 1..n |-> send_buffers[Place(m - 1)]]
  BY <1>2 DEF Queued
<1>6. Queued \in Seq(Slot) /\ Len(Queued) = n
  BY <1>2, <1>4, <1>5
<1> QED BY <1>2, <1>3, <1>5, <1>6

LEMMA QueueLengthType == IInv => QueueLength \in Nat
BY QueuedIs

\* The elements of a sequence behind its first n.
LEMMA TailIs ==
  ASSUME NEW S, NEW s \in Seq(S), NEW n \in 0..Len(s)
  PROVE  /\ SubSeq(s, n + 1, Len(s)) \in Seq(S)
         /\ Len(SubSeq(s, n + 1, Len(s))) = Len(s) - n
         /\ \A k \in 1..(Len(s) - n) : SubSeq(s, n + 1, Len(s))[k] = s[n + k]
<1>1. \A k \in (n + 1)..Len(s) : s[k] \in S
  OBVIOUS
<1>2. n + 1 \in Int /\ Len(s) \in Int /\ n <= Len(s)
  OBVIOUS
<1> DEFINE t == SubSeq(s, n + 1, Len(s))
<1>3. /\ t \in Seq(S)
      /\ Len(t) = IF n + 1 <= Len(s) THEN Len(s) - (n + 1) + 1 ELSE 0
      /\ \A k \in 1..(Len(s) - (n + 1) + 1) : t[k] = s[(n + 1) + k - 1]
  BY <1>1, <1>2, SubSeqProperties
<1> HIDE DEF t
<1>4. Len(t) = Len(s) - n
  BY <1>2, <1>3
<1>5. ASSUME NEW k \in 1..(Len(s) - n) PROVE t[k] = s[n + k]
  <2>1. k \in 1..(Len(s) - (n + 1) + 1) /\ (n + 1) + k - 1 = n + k
    BY <1>2
  <2> QED BY <1>3, <2>1
<1> QED BY <1>3, <1>4, <1>5 DEF t

\* How the end of a sequence behind its first k elements grows and shrinks.
LEMMA RestGrows ==
  ASSUME NEW S, NEW s \in Seq(S), NEW k \in 0..Len(s), NEW x \in S
  PROVE  SubSeq(Append(s, x), k + 1, Len(Append(s, x))) = Append(SubSeq(s, k + 1, Len(s)), x)
<1> DEFINE t == Append(s, x)
<1>1. /\ t \in Seq(S) /\ Len(t) = Len(s) + 1 /\ Len(s) \in Nat /\ t[Len(t)] = x
      /\ t = s \o <<x>> /\ <<x>> \in Seq(S)
      /\ SubSeq(s, k + 1, Len(s)) \in Seq(S)
  BY AppendProperties, AppendIsConcat
<1> HIDE DEF t
<1>2. SubSeq(t, k + 1, Len(t)) = SubSeq(t, k + 1, Len(s)) \o <<x>>
  <2>1. k + 1 \in 1..Len(t) /\ Len(t) \in (k + 1)..Len(t) /\ Len(t) - 1 = Len(s)
    BY <1>1
  <2>2. SubSeq(t, k + 1, Len(t)) = SubSeq(t, k + 1, Len(t) - 1) \o <<t[Len(t)]>>
    BY <1>1, <2>1, SubSeqRecursiveSecond
  <2> QED BY <1>1, <2>1, <2>2
<1>3. SubSeq(t, k + 1, Len(s)) = SubSeq(s, k + 1, Len(s))
  BY <1>1, SubSeqOfConcat1, SubSeqEmpty
<1>4. Append(SubSeq(s, k + 1, Len(s)), x) = SubSeq(s, k + 1, Len(s)) \o <<x>>
  BY <1>1, AppendIsConcat
<1> QED BY <1>2, <1>3, <1>4 DEF t

LEMMA RestShrinks ==
  ASSUME NEW S, NEW s \in Seq(S), NEW k \in 0..Len(s), SubSeq(s, k + 1, Len(s)) # <<>>
  PROVE  /\ k + 1 \in 1..Len(s)
         /\ Head(SubSeq(s, k + 1, Len(s))) = s[k + 1]
         /\ Tail(SubSeq(s, k + 1, Len(s))) = SubSeq(s, (k + 1) + 1, Len(s))
<1>1. k + 1 \in 1..Len(s)
  <2>1. Len(s) \in Nat
    OBVIOUS
  <2>2. Len(s) < k + 1 => SubSeq(s, k + 1, Len(s)) = <<>>
    BY <2>1, SubSeqEmpty
  <2> QED BY <2>1, <2>2
<1>2. Len(s) \in (k + 1)..Len(s)
  BY <1>1
<1> QED BY <1>1, <1>2, HeadTailOfSubSeq

\* Ends is a finite set.
LEMMA EndsType ==
  ASSUME wire \in Seq(Nat \X Nat)
  PROVE  IsFiniteSet(Ends) /\ Cardinality(Ends) \in Nat
<1>1. Len(wire) \in Nat /\ Ends \subseteq 1..Len(wire)
  BY DEF Ends
<1>2. IsFiniteSet(1..Len(wire))
  BY <1>1, FS_Interval
<1> QED BY <1>1, <1>2, FS_Subset, FS_CardinalityType

\* A write that completes a packet adds an end, at the end of the wire; no
\* other write does.
LEMMA EndsAfterWrite ==
  ASSUME ServiceIInv, NEW n \in Nat, Written(n)
  PROVE  IF CompletesPacket(n)
         THEN Ends' = Ends \cup {Len(wire')} /\ Len(wire') \notin Ends /\ Len(wire') > 0
              /\ Cardinality(Ends') = Cardinality(Ends) + 1
              /\ LastEnd' \in Ends' /\ wire'[LastEnd'][1] = Sending
         ELSE Ends' = Ends /\ \A k \in Ends : wire'[k] = wire[k]
<1>1. /\ wire \in Seq(Nat \X Nat) /\ Len(wire) \in Nat
      /\ bytes_sent \in Nat /\ Sending \in Packet
      /\ wire' \in Seq(Nat \X Nat) /\ Len(wire') = Len(wire) + n
      /\ \A k \in 1..Len(wire) : wire'[k] = wire[k]
      /\ \A k \in 1..n : wire'[Len(wire) + k] = <<Sending, bytes_sent + k>>
  BY WireGrows
<1>2. /\ bytes_to_send \in Nat /\ bytes_sent + n <= bytes_to_send /\ bytes_sent < bytes_to_send
      /\ bytes_to_send = PacketLength[Sending]
  <2>1. has_data_to_send
    BY DEF ServiceIInv, Written, ReaderOwns
  <2> QED BY <1>1, <2>1, LengthIsPositive DEF ServiceIInv, Written, OffsetOfHead, bytes_to_send
<1>3. CompletesPacket(n) <=> bytes_sent + n = bytes_to_send
  BY DEF CompletesPacket
<1>4. ASSUME NEW k \in 1..n
      PROVE  IsLast(wire'[Len(wire) + k]) <=> CompletesPacket(n) /\ k = n
  <2>1. wire'[Len(wire) + k] = <<Sending, bytes_sent + k>>
    BY <1>1
  <2> QED BY <1>1, <1>2, <1>3, <2>1 DEF IsLast
<1>5. ASSUME NEW k \in 1..Len(wire) PROVE k \in Ends' <=> k \in Ends
  <2>1. k \in 1..Len(wire') /\ wire'[k] = wire[k]
    BY <1>1
  <2> QED BY <2>1 DEF Ends, IsLast
<1>6. ASSUME NEW k \in Nat, k > Len(wire)
      PROVE  k \in Ends' <=> CompletesPacket(n) /\ k = Len(wire) + n
  <2>1. CASE k > Len(wire) + n
    BY <1>1, <2>1 DEF Ends
  <2>2. CASE k <= Len(wire) + n
    <3>1. k - Len(wire) \in 1..n /\ k = Len(wire) + (k - Len(wire)) /\ k \in 1..Len(wire')
      BY <1>1, <1>6, <2>2
    <3>2. IsLast(wire'[k]) <=> CompletesPacket(n) /\ k - Len(wire) = n
      BY <1>4, <3>1
    <3> QED BY <1>1, <3>1, <3>2 DEF Ends, IsLast
  <2> QED BY <1>1, <1>6, <2>1, <2>2
<1>7. Ends \subseteq 1..Len(wire) /\ Ends' \subseteq 1..Len(wire')
  BY DEF Ends
<1>8. CASE CompletesPacket(n)
  <2>1. n > 0 /\ Len(wire') > Len(wire) /\ Len(wire') \in Nat
    BY <1>1, <1>2, <1>3, <1>8
  <2>2. Len(wire') \notin Ends
    BY <1>1, <1>7, <2>1
  <2>3. Ends' = Ends \cup {Len(wire')}
    <3>1. ASSUME NEW k \in Nat, k >= 1 PROVE k \in Ends' <=> k \in Ends \/ k = Len(wire')
      <4>1. CASE k <= Len(wire)
        <5>1. k \in 1..Len(wire) /\ k # Len(wire')
          BY <1>1, <2>1, <3>1, <4>1
        <5> QED BY <1>5, <5>1
      <4>2. CASE k > Len(wire)
        <5>1. k \notin Ends
          BY <1>1, <1>7, <4>2
        <5> QED BY <1>1, <1>6, <1>8, <4>2, <5>1
      <4> QED BY <1>1, <3>1, <4>1, <4>2
    <3>2. \A k \in Ends \cup Ends' \cup {Len(wire')} : k \in Nat /\ k >= 1
      BY <1>1, <1>7, <2>1
    <3> QED BY <3>1, <3>2
  <2>4. Cardinality(Ends') = Cardinality(Ends) + 1
    BY <1>1, <2>2, <2>3, EndsType, FS_AddElement
  <2>5. LastEnd' = Len(wire')
    <3>1. Len(wire') \in Ends' /\ \A l \in Ends' : l <= Len(wire')
      BY <1>1, <1>7, <2>3
    <3>2. \A m \in Ends' : (\A l \in Ends' : l <= m) => m = Len(wire')
      <4> SUFFICES ASSUME NEW m \in Ends', \A l \in Ends' : l <= m PROVE m = Len(wire')
        OBVIOUS
      <4>1. m \in Nat /\ m <= Len(wire') /\ Len(wire') <= m
        BY <1>7, <3>1
      <4> QED BY <2>1, <4>1
    <3> QED BY <3>1, <3>2 DEF LastEnd
  <2>6. wire'[LastEnd'][1] = Sending
    <3>1. n \in 1..n /\ Len(wire') = Len(wire) + n
      BY <1>1, <2>1
    <3> QED BY <1>1, <2>5, <3>1
  <2> QED BY <1>8, <2>1, <2>2, <2>3, <2>4, <2>5, <2>6
<1>9. CASE ~CompletesPacket(n)
  <2>1. Ends' = Ends
    <3>1. ASSUME NEW k \in Ends' PROVE k \in Ends
      <4>1. k \in Nat /\ k >= 1
        BY <1>1, <1>7
      <4> QED BY <1>1, <1>5, <1>6, <1>9, <3>1, <4>1
    <3>2. Ends \subseteq Ends'
      BY <1>5, <1>7
    <3> QED BY <3>1, <3>2
  <2> QED BY <1>1, <1>7, <1>9, <2>1
<1> QED BY <1>8, <1>9

\* Steps that leave the ring and the packets in it alone, and end no packet.
LEMMA LineKept ==
  ASSUME ServiceIInv, LineIInv,
         UNCHANGED <<send_buffers, send_buffer_index, registered>>,
         Ends' = Ends, \A k \in Ends : wire'[k] = wire[k],
         \A k \in Slot : send_buffers[k] # None =>
           contents'[send_buffers[k]] = contents[send_buffers[k]]
  PROVE  LineIInv' /\ UNCHANGED Line!vars
<1>1. Queued' = Queued /\ QueueLength' = QueueLength
  BY RingUntouched DEF ServiceIInv
<1>2. \A m \in 1..QueueLength : contents'[Queued[m]] = contents[Queued[m]]
  BY QueuedIs DEF ServiceIInv
<1>3. InLine' = InLine
  BY <1>1, <1>2 DEF InLine
<1>4. Pending' = Pending
  BY DEF Pending
<1>5. LastEnd' = LastEnd
  BY DEF LastEnd
<1>6. Ends # {} => wire'[LastEnd'] = wire[LastEnd]
  BY <1>5 DEF LineIInv
<1> QED BY <1>3, <1>4, <1>5, <1>6 DEF LineIInv, Line!vars, Pending

\* A packet registered joins the queue.
LEMMA LineGrows ==
  ASSUME ServiceIInv, LineIInv, NEW b \in Slot, Register(b),
         wire' = wire, contents'[b] \in Packet,
         registered' = Append(registered, contents'[b]),
         \A k \in Slot : send_buffers[k] # None =>
           contents'[send_buffers[k]] = contents[send_buffers[k]]
  PROVE  LineIInv' /\ Line!Put(contents'[b])
<1> DEFINE p == contents'[b]
<1>1. Queued' = Append(Queued, b)
  BY RegisterAppends DEF ServiceIInv
<1>2. /\ QueueLength \in Nat /\ Queued \in Seq(Slot) /\ Len(Queued) = QueueLength
      /\ \A m \in 1..QueueLength : contents'[Queued[m]] = contents[Queued[m]]
  BY QueuedIs DEF ServiceIInv
<1>3. QueueLength' = QueueLength + 1
  BY RegisterAppends DEF ServiceIInv
<1>4. InLine' = Append(InLine, p)
  <2>1. InLine' = [m \in 1..(QueueLength + 1) |-> contents'[Queued'[m]]]
    BY <1>3 DEF InLine
  <2>2. InLine = [m \in 1..QueueLength |-> contents[Queued[m]]]
    BY DEF InLine
  <2>3. Append(InLine, p) = [m \in 1..(QueueLength + 1) |-> IF m = QueueLength + 1 THEN p ELSE InLine[m]]
    BY <1>2, <2>2
  <2>4. ASSUME NEW m \in 1..(QueueLength + 1)
        PROVE  contents'[Queued'[m]] = IF m = QueueLength + 1 THEN p ELSE InLine[m]
    BY <1>1, <1>2, <2>2
  <2> QED BY <2>1, <2>3, <2>4
<1>5. Ends' = Ends /\ LastEnd' = LastEnd
  BY DEF Ends, LastEnd, IsLast
<1>6. Pending' = Append(Pending, p)
  <2> HIDE DEF p
  <2>1. registered' = Append(registered, p)
    BY DEF p
  <2>2. p \in Packet
    BY DEF p
  <2> QED BY <1>5, <2>1, <2>2, RestGrows DEF LineIInv, Pending
<1>7. registered' \in Seq(Packet) /\ Len(registered') = Len(registered) + 1 /\ Len(registered) \in Nat
  BY DEF LineIInv
<1>8. LineIInv'
  BY <1>4, <1>5, <1>6, <1>7 DEF LineIInv
<1> QED BY <1>5, <1>6, <1>8 DEF Line!Put, Pending

\* A packet written to its end leaves the queue, at the front.
LEMMA LineShrinks ==
  ASSUME ServiceIInv, LineIInv, NEW n \in Nat, Written(n), CompletesPacket(n)
  PROVE  LineIInv' /\ Line!Take
<1>1. NextBuffer /\ UNCHANGED <<contents, made, registered>>
  BY DEF Written, packetVars
<1>2. /\ Queued # <<>> /\ sentLast' = Head(Queued) /\ Queued' = Tail(Queued)
      /\ sentLast' = send_buffers[send_buffer_index]
  BY <1>1, NextBufferTakes DEF ServiceIInv, NextBuffer
<1>3. QueueLength \in Nat /\ Queued \in Seq(Slot) /\ Len(Queued) = QueueLength
  BY QueuedIs DEF ServiceIInv
<1>4. QueueLength >= 1 /\ contents[Queued[1]] = Sending
  <2>1. QueueLength >= 1 /\ Head(Queued) = Queued[1]
    BY <1>2, <1>3
  <2> QED BY <1>2, <2>1 DEF Sending
<1>5. QueueLength' = QueueLength - 1
  BY <1>1, NextBufferTakes DEF ServiceIInv
<1>6. InLine # <<>> /\ Head(InLine) = Sending /\ InLine' = Tail(InLine)
  <2>1. InLine' = [m \in 1..(QueueLength - 1) |-> contents[Queued'[m]]]
    BY <1>1, <1>5 DEF InLine
  <2>2. InLine = [m \in 1..QueueLength |-> contents[Queued[m]]]
    BY DEF InLine
  <2>3. Tail(InLine) = [m \in 1..(QueueLength - 1) |-> InLine[m + 1]]
    BY <1>3, <1>4, <2>2
  <2>4. ASSUME NEW m \in 1..(QueueLength - 1) PROVE contents[Queued'[m]] = InLine[m + 1]
    <3>1. Queued'[m] = Queued[m + 1] /\ m + 1 \in 1..QueueLength
      BY <1>2, <1>3
    <3> QED BY <2>2, <3>1
  <2>5. InLine # <<>> /\ Head(InLine) = Sending
    BY <1>3, <1>4, <2>2
  <2> QED BY <2>1, <2>3, <2>4, <2>5
<1>7. /\ Cardinality(Ends') = Cardinality(Ends) + 1
      /\ LastEnd' \in Ends' /\ Ends' # {} /\ wire'[LastEnd'][1] = Sending
  BY EndsAfterWrite
<1>8. /\ Pending # <<>> /\ Head(Pending) = Sending
      /\ Cardinality(Ends) + 1 \in 1..Len(registered)
      /\ Pending' = Tail(Pending)
  <2>1. Pending # <<>>
    BY <1>6 DEF LineIInv
  <2>2. /\ Cardinality(Ends) + 1 \in 1..Len(registered)
        /\ Tail(Pending) = SubSeq(registered, (Cardinality(Ends) + 1) + 1, Len(registered))
    BY <2>1, RestShrinks DEF Pending, LineIInv
  <2>3. Pending' = SubSeq(registered, (Cardinality(Ends) + 1) + 1, Len(registered))
    BY <1>1, <1>7 DEF Pending
  <2> QED BY <1>6, <2>1, <2>2, <2>3 DEF LineIInv
<1>9. LineIInv'
  <2>1. Cardinality(Ends)' \in 0..Len(registered')
    BY <1>1, <1>7, <1>8
  <2> QED BY <1>1, <1>6, <1>7, <1>8, <2>1 DEF LineIInv
<1> QED BY <1>7, <1>8, <1>9 DEF Line!Take, Pending

LEMMA LineInitially == ASSUME ServiceInit PROVE LineIInv /\ Line!Init
<1>1. wire = <<>> /\ registered = <<>> /\ IInv /\ Packed(0)
  BY InitIInv DEF ServiceInit
<1>2. Ends = {}
  BY <1>1 DEF Ends
<1>3. Cardinality(Ends) = 0
  BY <1>2, FS_EmptySet
<1>4. Pending = <<>>
  <2>1. registered \in Seq(Packet) /\ Len(registered) = 0
    BY <1>1
  <2> QED BY <1>3, <2>1, SubSeqEmpty DEF Pending
<1>5. QueueLength = 0
  BY <1>1, LengthIs, BufferCountAssumption
<1>6. InLine = <<>>
  BY <1>5 DEF InLine
<1>7. registered \in Seq(Packet) /\ Len(registered) = 0
  BY <1>1
<1> QED BY <1>2, <1>3, <1>4, <1>6, <1>7 DEF LineIInv, Line!Init, Pending

\* A write is of no consequence for the line, or takes its head.
LEMMA LineWritten ==
  ASSUME ServiceIInv, LineIInv, NEW n \in Nat, Written(n)
  PROVE  LineIInv' /\ [Line!Next]_(Line!vars)
<1>1. CASE CompletesPacket(n)
  BY <1>1, LineShrinks DEF Line!Next
<1>2. CASE ~CompletesPacket(n)
  <2>1. UNCHANGED <<send_buffers, send_buffer_index, registered, contents>>
    BY <1>2 DEF Written, managerVars, vars, packetVars
  <2>2. Ends' = Ends /\ \A k \in Ends : wire'[k] = wire[k]
    BY <1>2, EndsAfterWrite
  <2> QED BY <2>1, <2>2, LineKept
<1> QED BY <1>1, <1>2

\* Steps that do not touch the wire.
LEMMA LineUntouched ==
  ASSUME ServiceIInv, LineIInv,
         UNCHANGED <<send_buffers, send_buffer_index, registered, wire>>,
         \A k \in Slot : send_buffers[k] # None =>
           contents'[send_buffers[k]] = contents[send_buffers[k]]
  PROVE  LineIInv' /\ [Line!Next]_(Line!vars)
<1>1. Ends' = Ends /\ \A k \in Ends : wire'[k] = wire[k]
  BY DEF Ends, IsLast
<1> QED BY <1>1, LineKept

\* The reader's buffer is not in the ring while it is filled.
LEMMA LineReceived ==
  ASSUME ServiceIInv, LineIInv, NEW b \in Slot, NEW c \in BOOLEAN, PutReceivedData(b, c)
  PROVE  LineIInv' /\ [Line!Next]_(Line!vars)
<1>1. UNCHANGED <<send_buffers, send_buffer_index, registered, wire>>
  BY DEF PutReceivedData, Allocate, managerVars, vars, sendVars
<1>2. \A k \in Slot : send_buffers[k] # b
  <2>1. CASE reader = None
    BY <2>1 DEF PutReceivedData, Allocate, Free, InRing
  <2>2. CASE reader # None
    BY <2>2 DEF PutReceivedData, ServiceIInv, ReaderOwns, IInv, OneOwner
  <2> QED BY <2>1, <2>2
<1>3. contents' = contents \/ contents' = [contents EXCEPT ![b] = made + 1]
  BY DEF PutReceivedData, Fill, packetVars
<1>4. \A k \in Slot : send_buffers[k] # None =>
        contents'[send_buffers[k]] = contents[send_buffers[k]]
  BY <1>2, <1>3 DEF ServiceIInv, ServiceTypes, IInv, TypeOK
<1> QED BY <1>1, <1>4, LineUntouched

\* Nor is the handler's, before it is registered with a new packet in it.
LEMMA LineRegistered ==
  ASSUME ServiceIInv, LineIInv, NEW b \in Slot, HandlerRegisters(b)
  PROVE  LineIInv' /\ [Line!Next]_(Line!vars)
<1>1. Register(b) /\ wire' = wire
  BY DEF HandlerRegisters, sendVars
<1>2. b \in inHand /\ HasRoom
  BY <1>1, RoomForAll DEF Register, ServiceIInv, IInv
<1>3. /\ made + 1 \in Packet /\ contents' = [contents EXCEPT ![b] = made + 1]
      /\ registered' = Append(registered, made + 1)
  BY <1>2 DEF HandlerRegisters, Fill, Packet, ServiceIInv, ServiceTypes
<1>4. contents'[b] = made + 1
  BY <1>3 DEF ServiceIInv, ServiceTypes
<1>5. \A k \in Slot : send_buffers[k] # None =>
        contents'[send_buffers[k]] = contents[send_buffers[k]]
  BY <1>2, <1>3 DEF ServiceIInv, ServiceTypes, IInv, TypeOK, OneOwner
<1> QED BY <1>1, <1>3, <1>4, <1>5, LineGrows DEF Line!Next

\* A forwarded packet joins the queue, a dropped one does not.
LEMMA LineForwarded ==
  ASSUME ServiceIInv, LineIInv, NEW forward \in BOOLEAN, HandlerReturns(forward)
  PROVE  LineIInv' /\ [Line!Next]_(Line!vars)
<1>1. wire' = wire /\ contents' = contents /\ reader \in Slot /\ complete
  BY DEF HandlerReturns, sendVars, packetVars, ServiceIInv, ReaderOwns, ServiceTypes
<1>2. CASE forward /\ HasRoom
  <2>1. Register(reader) /\ registered' = Append(registered, contents'[reader])
    BY <1>1, <1>2 DEF HandlerReturns
  <2>2. contents'[reader] \in Packet
    BY <1>1 DEF ServiceIInv, HoldsPackets
  <2> QED BY <1>1, <2>1, <2>2, LineGrows DEF Line!Next
<1>3. CASE ~(forward /\ HasRoom)
  <2>1. UNCHANGED <<send_buffers, send_buffer_index, registered>>
    BY <1>3 DEF HandlerReturns, Discard
  <2> QED BY <1>1, <2>1, LineUntouched
<1> QED BY <1>2, <1>3

LEMMA LineStepwise ==
  ASSUME ServiceIInv, LineIInv, [ServiceNext]_serviceVars
  PROVE  LineIInv' /\ [Line!Next]_(Line!vars)
<1>1. ASSUME NEW n \in WriteSize, Written(n) PROVE LineIInv' /\ [Line!Next]_(Line!vars)
  <2>1. n \in Nat
    BY LengthIsPositive DEF WriteSize
  <2> QED BY <1>1, <2>1, LineWritten
<1>2. ASSUME NEW b \in Slot, HandlerAllocates(b) \/ HandlerDiscards(b) \/ Elsewhere(b)
      PROVE  LineIInv' /\ [Line!Next]_(Line!vars)
  <2>1. UNCHANGED <<send_buffers, send_buffer_index, registered, wire, contents>>
    BY <1>2 DEF HandlerAllocates, HandlerDiscards, Elsewhere, Allocate, Discard,
                TakeElsewhere, ReturnElsewhere, packetVars, sendVars
  <2> QED BY <2>1, LineUntouched
<1>3. CASE Process \/ WriteFails \/ UNCHANGED serviceVars
  <2>1. UNCHANGED <<send_buffers, send_buffer_index, registered, wire, contents>>
    BY <1>3 DEF Process, WriteFails, serviceVars, managerVars, vars, packetVars, sendVars
  <2> QED BY <2>1, LineUntouched
<1> QED
  BY <1>1, <1>2, <1>3, LineReceived, LineRegistered, LineForwarded DEF ServiceNext, Handler

\* Whatever fails and whoever else takes buffers, the packets that end on the
\* line are the registered ones, each once and in the order of registration
\* (register_buffer, process).
THEOREM LineNeverGarbled == ServiceSpec => LineNeverGarbles
<1>1. ServiceIInv /\ LineIInv /\ [ServiceNext]_serviceVars
        => LineIInv' /\ [Line!Next]_(Line!vars)
  BY LineStepwise
<1>2. ServiceInit => LineIInv /\ Line!Init
  BY LineInitially
<1> QED
  BY <1>1, <1>2, ServiceInvariance, PTL DEF ServiceSpec, LineNeverGarbles, Line!SafeSpec

===============================================================================
