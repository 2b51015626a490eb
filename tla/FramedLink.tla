------------------------------ MODULE FramedLink ------------------------------
(***************************************************************************)
(* A sender, a byte channel and a ProtocolReader.  The sender writes whole *)
(* frames byte by byte (StreamWriter for mpsc::Sender); the caller of the  *)
(* reader calls read until it returns Ok(true), takes packet() and starts  *)
(* over with the released buffer, as Service::process does.                *)
(*                                                                         *)
(* A sender may also be cut off in the body of a frame and come back with  *)
(* a sync byte: the streams of the resync tests in protocol.rs.            *)
(***************************************************************************)
EXTENDS ProtocolReader

CONSTANTS
  Frame,       \* The frames the sender may send.
  Blocking,    \* Whether a read waits until there is a byte to return.
  MaxFrames,   \* Bound on the frames sent in full.
  MaxCuts,     \* Bound on how often the sender is cut off.
  None

\* A frame as a sender must build it: the header says how long it is, it fits
\* the receiver, and its body is free of sync bytes.
ASSUME FrameAssumption ==
  \A f \in Frame :
    /\ f \in Seq(Byte)
    /\ Len(f) \in 2..BUFFER_SIZE
    /\ message_length(f[2]) + 2 = Len(f)
    /\ \A i \in 3..Len(f) : f[i] # SYNC

ASSUME LinkBoundAssumption == {MaxFrames, MaxCuts} \subseteq Nat

VARIABLES
  frame,       \* The frame being written, and
  written,     \*   how many of its bytes are in the channel.
  wire,        \* The bytes in the channel.
  cuts,        \* How often the sender has been cut off.
  sent,        \* History: the frames written in full.
  delivered    \* History: the packets the caller has taken.

readerVars == vars
senderVars == <<frame, written, cuts, sent>>
linkVars == <<readerVars, senderVars, wire, delivered>>

LinkInit ==
  /\ Init
  /\ frame = <<>> /\ written = 0
  /\ wire = <<>>
  /\ cuts = 0
  /\ sent = <<>>
  /\ delivered = <<>>

-------------------------------------------------------------------------------

Begin(f) ==
  /\ written = Len(frame)
  /\ Len(sent) < MaxFrames
  /\ frame' = f /\ written' = 0
  /\ UNCHANGED <<readerVars, wire, cuts, sent, delivered>>

Write ==
  /\ written < Len(frame)
  /\ wire' = Append(wire, frame[written + 1])
  /\ written' = written + 1
  /\ sent' = IF written + 1 = Len(frame) THEN Append(sent, frame) ELSE sent
  /\ UNCHANGED <<readerVars, frame, cuts, delivered>>

Cut ==
  /\ cuts < MaxCuts
  /\ written \in 2..(Len(frame) - 1)
  /\ frame' = <<>> /\ written' = 0
  /\ wire' = Append(wire, SYNC)
  /\ cuts' = cuts + 1
  /\ UNCHANGED <<readerVars, sent, delivered>>

-------------------------------------------------------------------------------

\* How many bytes a request for Wanted bytes may be answered with: a blocking
\* stream (StreamWrapper over std::io::Read) waits for one byte and may give
\* fewer than there are; the others (mpsc::Receiver, a slice) give what they
\* have, and nothing (WouldBlock, which read_inner takes for 0) if they are
\* empty.
Answers ==
  LET most == CHOOSE m \in {Wanted, Len(wire), MaxRead} :
                \A k \in {Wanted, Len(wire), MaxRead} : m <= k
  IN  IF Blocking /\ Wanted > 0 THEN 1..most ELSE {most}

Read ==
  /\ \E n \in Answers :
       /\ Store(SubSeq(wire, 1, n))
       /\ wire' = SubSeq(wire, n + 1, Len(wire))
  /\ UNCHANGED <<senderVars, delivered>>

Stop == Refuse /\ UNCHANGED <<senderVars, wire, delivered>>

\* Mistake: the caller goes on reading instead of taking the packet.
NeverTaken == TRUE

NoPacketLeft == call # "Ok(true)"

\* The caller calls read, again if no packet is complete.
CallRead ==
  /\ NoPacketLeft
  /\ Call
  /\ UNCHANGED <<senderVars, wire, delivered>>

\* The caller takes the packet and recycles the buffer.
Deliver ==
  /\ call = "Ok(true)"
  /\ ~PacketPanics
  /\ delivered' = Append(delivered, packet)
  /\ Recycle
  /\ UNCHANGED <<senderVars, wire>>

Receive == Read \/ Stop \/ CallRead \/ Deliver

LinkNext == Write \/ Cut \/ Receive \/ \E f \in Frame : Begin(f)

\* The receiving loop runs as long as the program; a sender that has begun a
\* frame writes it to the end unless it is cut off.
LinkSpec ==
  /\ LinkInit /\ [][LinkNext]_linkVars
  /\ WF_linkVars(Receive) /\ WF_linkVars(Write)

-------------------------------------------------------------------------------

\* The link is a channel of frames: the frames sent in full and not delivered.
Channel == INSTANCE Fifo WITH
  Item <- Frame,
  queue <- SubSeq(sent, Len(delivered) + 1, Len(sent)),
  last <- IF delivered = <<>> THEN None ELSE delivered[Len(delivered)]

\* Every frame sent in full is delivered, once, in the order sent, and nothing
\* else is delivered: no matter how the reads cut the stream, where the sender
\* was cut off, or how reads and writes interleave.  (read_inner's state
\* machine, driven as Service drives it.)
LinkIsChannel == Channel!Spec

\* The same without the promise that every frame arrives: up to the moment
\* the reader stops for good, if it does, no frame is lost between two others,
\* repeated, or made up from the pieces of a cut.
LinkNeverGarbles == Channel!SafeSpec

\* The promise left out, but for a reader that a cut has stopped for good: as
\* many frames arrive as were sent in full.
FramesArrive ==
  \A n \in 1..MaxFrames :
    (Len(sent) >= n) ~> (Len(delivered) >= n \/ call = "LengthUnderflow")

\* The reader does not panic.
ReaderNeverPanics == call \notin Panicked

\* A sender that is never cut off cannot make the reader panic, and a cut only
\* by what it leaves in the buffer.
PanicsOnlyByCut == call \in Panicked => call = "LengthUnderflow" /\ cuts > 0

\* Once read has returned Ok(true), packet() returns the packet.
PacketAfterRead == call = "Ok(true)" => ~PacketPanics

===============================================================================
