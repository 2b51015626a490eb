-------------------------------- MODULE Service --------------------------------
(***************************************************************************)
(* Service (msmp/src/service.rs): put_received_data feeds a ProtocolReader *)
(* that lives in a pool buffer; process hands a completed packet to the    *)
(* handler, forwards its buffer if the handler says so, and writes (a part *)
(* of) the packet at the head of the send ring.                            *)
(*                                                                         *)
(* The reader is a buffer that may become complete with any call; how it   *)
(* gets there is ProtocolReader's business.  A packet is a number, in the  *)
(* order the packets come into being, and PacketLength says how many bytes *)
(* of it go out.  The handler runs synchronously inside process: its calls *)
(* of the BufferManager are steps of their own only because other users of *)
(* the pool may run between them.                                          *)
(***************************************************************************)
EXTENDS BufferManager, FiniteSets, Sequences

CONSTANT PacketLength  \* The bytes of packet 1, 2, ...; bounds the packets.

ASSUME PacketLengthAssumption == PacketLength \in Seq(Nat \ {0})

Packet == 1..Len(PacketLength)

VARIABLES
  reader,      \* The buffer of the ProtocolReader, or None.
  complete,    \* Whether that reader holds a complete packet.
  bytes_sent,  \* How much of the packet being sent has been written.
  phase,       \* Where process is: not called, in the handler, in write.
  contents,    \* The packet in each buffer, stale ones included; 0 at first.
  made,        \* How many packets have come into being.
  received,    \* History: packets the reader completed.
  handled,     \* History: packets given to the handler.
  registered,  \* History: packets put into the send ring.
  wire         \* History: the bytes written, as packet and index.

managerVars == vars
readerVars == <<reader, complete, received>>
packetVars == <<contents, made>>
sendVars == <<bytes_sent, wire>>
serviceVars ==
  <<managerVars, readerVars, packetVars, sendVars, phase, handled, registered>>

ServiceInit ==
  /\ Init
  /\ reader = None /\ complete = FALSE
  /\ bytes_sent = 0
  /\ phase = "idle"
  /\ contents = [b \in Slot |-> 0]
  /\ made = 0
  /\ received = <<>> /\ handled = <<>> /\ registered = <<>> /\ wire = <<>>

-------------------------------------------------------------------------------

\* A new packet is written into buffer b.
Fill(b) ==
  /\ made < Len(PacketLength)
  /\ made' = made + 1
  /\ contents' = [contents EXCEPT ![b] = made + 1]

\* put_received_data: ensure_reader, then read.  Without a free buffer it
\* returns NoBuffer and changes nothing.  A complete packet is first handed to
\* process: the caller calls process after every put_received_data.
PutReceivedData(b, completes) ==
  /\ phase = "idle" /\ ~complete
  /\ IF reader = None THEN Allocate(b) ELSE b = reader /\ UNCHANGED managerVars
  /\ reader' = b
  /\ complete' = completes
  /\ IF completes
     THEN Fill(b) /\ received' = Append(received, made + 1)
     ELSE UNCHANGED <<packetVars, received>>
  /\ UNCHANGED <<sendVars, phase, handled, registered>>

\* Mistake: what waits to be sent goes first.
HandlesLater == complete /\ ~has_data_to_send

Handles == complete

\* Mistake: process returns at once if there is no packet to handle.
NeverSendsOnly == FALSE

SendsOnly == has_data_to_send

\* process, up to the call of the handler; or, without a packet, to the write.
Process ==
  /\ phase = "idle"
  /\ IF Handles
     THEN phase' = "handling" /\ handled' = Append(handled, contents[reader])
     ELSE SendsOnly /\ phase' = "writing" /\ UNCHANGED handled
  /\ UNCHANGED <<managerVars, readerVars, packetVars, sendVars, registered>>

\* The handler allocates a buffer, and registers it with a new packet in it or
\* drops it.
HandlerAllocates(b) ==
  /\ phase = "handling"
  /\ Allocate(b)
  /\ UNCHANGED <<readerVars, packetVars, sendVars, phase, handled, registered>>

HandlerRegisters(b) ==
  /\ phase = "handling" /\ b # reader
  /\ Register(b)
  /\ Fill(b)
  /\ registered' = IF HasRoom THEN Append(registered, made + 1) ELSE registered
  /\ UNCHANGED <<readerVars, sendVars, phase, handled>>

HandlerDiscards(b) ==
  /\ phase = "handling" /\ b # reader
  /\ Discard(b)
  /\ UNCHANGED <<readerVars, packetVars, sendVars, phase, handled, registered>>

\* The handler returns: the reader gives up its buffer, which is registered
\* (an Err is ignored, so the buffer is dropped) or dropped; then the head of
\* the ring, if any, is written.
HandlerReturns(forward) ==
  /\ phase = "handling" /\ inHand = {reader}
  /\ IF forward /\ HasRoom
     THEN Register(reader) /\ registered' = Append(registered, contents[reader])
     ELSE Discard(reader) /\ UNCHANGED registered
  /\ reader' = None /\ complete' = FALSE
  /\ phase' = IF has_data_to_send' THEN "writing" ELSE "idle"
  /\ UNCHANGED <<received, packetVars, sendVars, handled>>

Sending == contents[send_buffers[send_buffer_index]]
bytes_to_send == PacketLength[Sending]

\* Mistake: a short write counts as a whole one.
CompletesAlways(n) == TRUE

\* Mistake: the packet is complete one byte after its end.
CompletesBeyond(n) == bytes_sent + n > bytes_to_send

CompletesPacket(n) == bytes_sent + n = bytes_to_send

\* writer.write returns Ok(n).  process returns to its caller.
Written(n) ==
  /\ phase = "writing"
  /\ bytes_sent + n <= bytes_to_send
  /\ wire' = wire \o [k \in 1..n |-> <<Sending, bytes_sent + k>>]
  /\ IF CompletesPacket(n)
     THEN NextBuffer /\ bytes_sent' = 0
     ELSE bytes_sent' = bytes_sent + n /\ UNCHANGED managerVars
  /\ phase' = "idle"
  /\ UNCHANGED <<readerVars, packetVars, handled, registered>>

\* Mistake: the packet starts over when a write fails.
StartsOver == 0

\* bytes_sent after an error: the ? leaves it alone.
AfterError == bytes_sent

\* writer.write returns an error, having written nothing.
WriteFails ==
  /\ phase = "writing"
  /\ bytes_sent' = AfterError
  /\ phase' = "idle"
  /\ UNCHANGED <<managerVars, readerVars, packetVars, wire, handled, registered>>

\* Other users of the pool.
Elsewhere(b) ==
  /\ TakeElsewhere(b) \/ ReturnElsewhere(b)
  /\ UNCHANGED <<readerVars, packetVars, sendVars, phase, handled, registered>>

-------------------------------------------------------------------------------

Handler ==
  \/ \E b \in Slot : HandlerAllocates(b) \/ HandlerRegisters(b) \/ HandlerDiscards(b)
  \/ \E forward \in BOOLEAN : HandlerReturns(forward)

\* The longest packet bounds what one write can take.
WriteSize == UNION {0..PacketLength[p] : p \in Packet}

ServiceNext ==
  \/ \E b \in Slot, completes \in BOOLEAN : PutReceivedData(b, completes)
  \/ Process
  \/ Handler
  \/ \E n \in WriteSize : Written(n)
  \/ WriteFails
  \/ \E b \in Slot : Elsewhere(b)

\* process is called again and again (run_service's loop) and the handler
\* returns.  A write ends, and though it may fail or accept nothing, it does
\* not do so forever.  Other users of the pool give their buffers back.
Fairness ==
  /\ WF_serviceVars(Process)
  /\ []<>(phase # "handling")
  /\ WF_serviceVars(WriteFails \/ \E n \in WriteSize : Written(n))
  /\ SF_serviceVars(\E n \in WriteSize \ {0} : Written(n))
  /\ \A b \in Slot : WF_serviceVars(Elsewhere(b) /\ b \in elsewhere)

ServiceSpec == ServiceInit /\ [][ServiceNext]_serviceVars /\ Fairness

-------------------------------------------------------------------------------

IsLast(byte) == byte[2] = PacketLength[byte[1]]

\* Where packets end on the wire, which tells how many have gone out, and
\* which of them was the last.
Ends == {k \in 1..Len(wire) : IsLast(wire[k])}

LastEnd == CHOOSE k \in Ends : \A l \in Ends : l <= k

Line == INSTANCE Fifo WITH
  Item <- Packet,
  queue <- SubSeq(registered, Cardinality(Ends) + 1, Len(registered)),
  last <- IF Ends = {} THEN None ELSE wire[LastEnd][1]

\* Every packet registered goes out, once, in the order of registration: a
\* short write is continued, a failed one repeated, and neither a new packet
\* nor a reception in between disturbs the packet on its way.
LineIsChannel == Line!Spec

\* The same without the promise that every packet goes out in the end.
LineNeverGarbles == Line!SafeSpec

\* Packets are never mixed or torn on the wire: a byte is the successor of the
\* byte before it, or the first of its packet and the one before it the last
\* of its own.
WireIsWhole ==
  \A k \in 1..Len(wire) :
    \/ k > 1 /\ wire[k] = <<wire[k - 1][1], wire[k - 1][2] + 1>>
    \/ wire[k][2] = 1 /\ (k > 1 => IsLast(wire[k - 1]))

\* Whenever process slices the buffer it sends, bytes_sent is an offset into
\* that packet: it belongs to the buffer at the head of the ring and was reset
\* when the head changed.
SliceInRange == phase = "writing" => has_data_to_send /\ bytes_sent < bytes_to_send

\* A packet completed by the reader is handled in the call of process that finds
\* it, before anything is written, and never again: in order, and also if the
\* write that follows in the same call fails.
HandledOnce ==
  handled \o (IF complete /\ phase = "idle" THEN <<contents[reader]>> ELSE <<>>) = received

\* NoBuffer is not for ever: when ensure_reader finds the pool exhausted,
\* sending frees a buffer for it.
ReaderRecovers == (reader = None /\ Free = {}) ~> (reader # None \/ Free # {})

===============================================================================
