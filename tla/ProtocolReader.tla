---------------------------- MODULE ProtocolReader ----------------------------
(***************************************************************************)
(* ProtocolReader (msmp/src/protocol.rs) cuts a byte stream into packets.  *)
(* It owns one buffer, the number of bytes held in it, and the state of    *)
(* the frame being received.  A call of read is a loop over read_inner;    *)
(* every iteration asks the stream for bytes once, so one iteration is one *)
(* step here and the stream may grow between two of them.                  *)
(*                                                                         *)
(* The stream is left open: a request for n bytes is answered with any     *)
(* number of bytes from 0 to n, of any value.  FramedLink closes it with a *)
(* sender and a channel.                                                   *)
(***************************************************************************)
EXTENDS Packet, Sequences

CONSTANTS
  BUFFER_SIZE,   \* The const generic of the same name.
  Byte,          \* The byte values the stream may carry.
  MaxRead,       \* The most bytes the stream hands over in one call.
  MaxScratch,    \* The most bytes a failing stream leaves in the buffer.
  MaxConsumed    \* Bound on the bytes consumed in a behaviour.

\* PacketReader::new panics on a buffer of fewer than three bytes, so a
\* smaller BUFFER_SIZE cannot receive anything.
ASSUME BufferSizeAssumption == BUFFER_SIZE \in Nat /\ BUFFER_SIZE >= MinRaw
ASSUME ByteAssumption == Byte \subseteq U8 /\ SYNC \in Byte
ASSUME BoundAssumption == {MaxRead, MaxScratch, MaxConsumed} \subseteq Nat

VARIABLES
  buffer,     \* The bytes of the buffer, stale ones included.
  position,   \* How many of them belong to the frame being received.
  state,      \* ReaderState
  call,       \* The call of read: running, or how the last one ended.
  consumed    \* History: every byte taken from the stream so far.

vars == <<buffer, position, state, call, consumed>>

Index == 0..(BUFFER_SIZE - 1)
ReaderState == {"Header", "Data", "Completed"}

\* A call that returned, with the value it returned ("none": no call yet).
Returned == {"none", "Ok(true)", "Ok(false)", "InsufficientBuffer", "ReaderError"}

\* The two places where a call panics instead of returning.
Panicked == {"SliceReversed", "LengthUnderflow"}

-------------------------------------------------------------------------------

Init ==
  /\ buffer = [i \in Index |-> 0]
  /\ position = 0
  /\ state = "Header"
  /\ call = "none"
  /\ consumed = <<>>

\* A caller calls read, whatever the last call returned.
Call ==
  /\ call \in Returned
  /\ call' = "reading"
  /\ UNCHANGED <<buffer, position, state, consumed>>

\* release followed by new_with_buffer: the buffer keeps its stale bytes.
Recycle ==
  /\ call \in Returned
  /\ position' = 0
  /\ state' = "Header"
  /\ call' = "none"
  /\ UNCHANGED <<buffer, consumed>>

-------------------------------------------------------------------------------

\* The end of the frame whose header is in the buffer.
End == message_length(buffer[1]) + 2

\* The length of the slice an iteration hands to the stream.
Wanted == IF state = "Data" THEN End - position ELSE 2 - position

\* buffer[position..] after the stream has written data into it.
Fill(data) ==
  [i \in Index |-> IF i \in position..(position + Len(data) - 1)
                   THEN data[i - position + 1]
                   ELSE buffer[i]]

\* The stream may answer this iteration with n bytes.
MayGive(n) == n <= Wanted /\ Len(consumed) + n <= MaxConsumed

Take(data) == consumed' = consumed \o data

AwaitingHeader == call = "reading" /\ state \in {"Header", "Completed"}
AwaitingData == call = "reading" /\ state = "Data"

\* Mistake: the loop goes on until the header is there.
VerdictSpins(fully_read) == "reading"

\* read goes on after an iteration that got all it asked for.
Verdict(fully_read) == IF fully_read THEN "reading" ELSE "Ok(false)"

\* The end of read_inner, and what read makes of its result.
Outcome(new_state, new_position, fully_read) ==
  /\ state' = new_state
  /\ position' = new_position
  /\ call' = IF new_state = "Completed" THEN "Ok(true)" ELSE Verdict(fully_read)

\* Mistake: a header byte that comes alone is not kept.
HeaderLost(data) == 0

\* The new position with half a header: the bytes of this read alone.
HeaderHeld(data) == Len(data)

\* Header bytes; with the second one the loop goes on to the body.
ReadHeader(data) ==
  /\ AwaitingHeader
  /\ position <= 2
  /\ Take(data)
  /\ buffer' = Fill(data)
  /\ IF position + Len(data) < 2
     THEN Outcome("Header", HeaderHeld(data), FALSE)
     ELSE Outcome("Data", 2, TRUE)

\* Mistake: the length of the frame is not compared with the buffer.
FitsAlways == TRUE

Fits == End <= BUFFER_SIZE

\* The frame does not fit: its header is dropped, its body stays unread.
InsufficientBuffer ==
  /\ AwaitingData
  /\ ~Fits
  /\ position' = 0
  /\ state' = "Header"
  /\ call' = "InsufficientBuffer"
  /\ UNCHANGED <<buffer, consumed>>

\* The two panics.  A completed reader that is called again slices
\* buffer[position..2] with more than two bytes held; and end - position, on
\* usize, underflows if more bytes are held than the frame has (without
\* overflow checks the slice position..end panics instead).
Panic ==
  /\ \/ AwaitingHeader /\ position > 2 /\ call' = "SliceReversed"
     \/ AwaitingData /\ Fits /\ position > End /\ call' = "LengthUnderflow"
  /\ UNCHANGED <<buffer, position, state, consumed>>

BodyExpected == AwaitingData /\ Fits /\ position <= End

\* Mistake: the search leaves out the last byte read.
NoSyncButLast(data) == \A k \in 1..(Len(data) - 1) : data[k] # SYNC

NoSync(data) == \A k \in 1..Len(data) : data[k] # SYNC

\* Body bytes without a sync byte among them.
BodyBytes(data) ==
  /\ BodyExpected
  /\ Take(data)
  /\ NoSync(data)
  /\ buffer' = Fill(data)
  /\ Outcome(IF position + Len(data) = End THEN "Completed" ELSE "Data",
             position + Len(data), Len(data) = Wanted)

\* Mistake: the sync byte is moved along.
CopyFromSync(j) == j

\* Where copy_within starts, if data[j] is the last sync byte.
CopyFrom(j) == j + 1

\* data[j] is the last sync byte of data: what follows it moves to the
\* front of the buffer as the start of a new frame.
Resync(data, j) ==
  /\ BodyExpected
  /\ Take(data)
  /\ data[j] = SYNC
  /\ \A k \in (j + 1)..Len(data) : data[k] # SYNC
  /\ LET rest == Len(data) - j
     IN  /\ buffer' = [i \in Index |-> IF i < rest THEN data[CopyFrom(j) + i]
                                                   ELSE Fill(data)[i]]
         /\ Outcome(IF rest < 2 THEN "Header" ELSE "Data", rest, FALSE)

\* The stream fails.  Bytes it stored before failing lie past position and
\* count for nothing.
StreamFails(data) ==
  /\ \/ AwaitingHeader /\ position <= 2
     \/ BodyExpected /\ position < End
  /\ buffer' = Fill(data)
  /\ call' = "ReaderError"
  /\ UNCHANGED <<position, state, consumed>>

\* One iteration of read's loop that ends by storing what it read.
Store(data) ==
  \/ ReadHeader(data)
  \/ BodyBytes(data)
  \/ \E j \in 1..Len(data) : Resync(data, j)

\* One iteration that stops before it reads.
Refuse == Panic \/ InsufficientBuffer

Iterate ==
  \/ Refuse
  \/ \E n \in 0..MaxRead : MayGive(n) /\ \E data \in [1..n -> Byte] : Store(data)

Fail ==
  \E n \in 0..MaxScratch :
    n <= Wanted /\ \E data \in [1..n -> Byte] : StreamFails(data)

Next == Call \/ Recycle \/ Iterate \/ Fail

\* read is a plain loop: once called it keeps iterating.
Spec == Init /\ [][Next]_vars /\ WF_vars(Iterate)

-------------------------------------------------------------------------------

\* packet(): PacketReader::new unwraps try_new, which wants three bytes.
PacketPanics == state = "Completed" /\ position < MinRaw

\* The bytes packet() shows of a completed frame.
packet == [i \in 1..position |-> buffer[i - 1]]

-------------------------------------------------------------------------------

\* Type invariant.  A header is never held beyond its two bytes and no frame
\* beyond the buffer, so no index of read_inner leaves the buffer.
TypeOK ==
  /\ buffer \in [Index -> Byte]
  /\ position \in 0..BUFFER_SIZE
  /\ state \in ReaderState
  /\ call \in Returned \cup Panicked \cup {"reading"}
  /\ consumed \in Seq(Byte)
  /\ state = "Header" => position < 2
  /\ state = "Data" => position >= 2

\* The bytes held are the last bytes taken from the stream, in order: however
\* the stream was chunked, however often the reader resynchronised, ran out of
\* buffer or saw the stream fail, a frame is never glued together from two
\* places of the stream.  (The copy_within of the resynchronisation, and the
\* position each arm of read_inner stores.)
HeldIsStreamSuffix ==
  /\ position <= Len(consumed)
  /\ \A i \in 0..(position - 1) :
       buffer[i] = consumed[Len(consumed) - position + 1 + i]

\* A completed reader holds one frame: exactly as many bytes as its header
\* says, and no sync byte in the body.  (rposition must find the last sync
\* byte, and the header of a frame that is being filled must stay put.)
DeliveredIsFrame ==
  state = "Completed" =>
    /\ position = End
    /\ \A i \in 2..(position - 1) : buffer[i] # SYNC

\* A call of read returns or panics: the loop never spins on a stream that
\* has nothing to give.
ReadReturns == (call = "reading") ~> (call # "reading")

===============================================================================
