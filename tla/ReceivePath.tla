------------------------------ MODULE ReceivePath ------------------------------
(***************************************************************************)
(* What arrives at a Service as chunks of bytes, and what its handler gets *)
(* (msmp/src/service.rs).  put_received_data makes one call of read on a   *)
(* slice that holds the chunk, and drops what read leaves of it; process   *)
(* hands a completed packet to the handler and gives the reader up.        *)
(*                                                                         *)
(* The sender on the other end of the port sends frames, and may give one  *)
(* up and say so with a sync byte.  Chunks cut its bytes anywhere: a chunk *)
(* may be empty (a timeout of run_service), end one frame and begin the    *)
(* next, and be lost for want of a buffer.  Nothing tells either side what *)
(* was lost, so the reader may come to take the middle of a frame for its  *)
(* header.  inStep keeps account of that, by what was lost and where the   *)
(* sender stood: it becomes FALSE when a loss can be the reason, and TRUE  *)
(* when the reader is empty between two frames.                            *)
(***************************************************************************)
EXTENDS ProtocolReader

CONSTANTS
  Frame,       \* The frames sent.
  Behind,      \* What a chunk may hold between the frame, or the sync byte, it
               \* goes on with and the frame it ends in: whole frames, cut ones.
  MaxFrames,   \* Bound on the frames begun.
  None

\* As in FramedLink, and with a body, or packet() panics.
ASSUME FrameAssumption ==
  \A f \in Frame :
    /\ f \in Seq(Byte)
    /\ Len(f) \in MinRaw..BUFFER_SIZE
    /\ message_length(f[2]) + 2 = Len(f)
    /\ \A k \in 3..Len(f) : f[k] # SYNC

ASSUME BehindAssumption == Behind \subseteq Seq(Byte)

VARIABLES
  frame,      \* The frame that is arriving, or will be next,
  given,      \*   and how many of its bytes the sender has got rid of.
  begun,      \* How many frames came before it.
  data,       \* The slice read takes its bytes from.
  hasReader,  \* Whether the service has a reader, and so a buffer.
  inStep,     \* History: nothing that matters was lost.
  due,        \* History: the frames that came in full and in step, of those
              \*   that end in the same chunk the first one only.
  handled     \* History: the packets given to the handler while in step.

readerVars == vars
senderVars == <<frame, given, begun>>
pathVars == <<readerVars, senderVars, data, hasReader, inStep, due, handled>>

PathInit ==
  /\ Init
  /\ frame \in Frame /\ given = 0 /\ begun = 0
  /\ data = <<>>
  /\ hasReader = FALSE
  /\ inStep = TRUE
  /\ due = <<>> /\ handled = <<>>

-------------------------------------------------------------------------------

BetweenFrames == given = 0

\* The caller calls process after every put_received_data.
Idle == call \in Returned /\ state # "Completed"

\* put_received_data, up to the loop of read.  The reader made by ensure_reader
\* is as Recycle left it.
PutReceivedData(chunk) ==
  /\ Idle
  /\ Call
  /\ data' = chunk
  /\ hasReader' = TRUE
  /\ UNCHANGED handled

\* ensure_reader finds no buffer: put_received_data returns, the chunk is lost.
NoBuffer ==
  /\ Idle /\ ~hasReader
  /\ UNCHANGED <<readerVars, data, hasReader, handled>>

\* A chunk comes in.  It ends the frames in ended, and with a reader in step it
\* must be harmless to leave it so; without a reader it is lost.
Arrives(chunk, ended, harmless) ==
  \/ /\ PutReceivedData(chunk)
     /\ inStep' = (inStep /\ harmless)
     /\ due' = IF inStep THEN due \o ended ELSE due
  \/ /\ NoBuffer
     /\ inStep' = BetweenFrames'
     /\ UNCHANGED due

\* n more bytes of the frame.
Piece(n) ==
  /\ given + n < Len(frame)
  /\ given' = given + n
  /\ UNCHANGED <<frame, begun>>
  /\ Arrives(SubSeq(frame, given + 1, given + n), <<>>, TRUE)

\* The sender comes to its next frame; k bytes of it are in this chunk.
NextFrame(f, k) ==
  /\ begun < MaxFrames /\ begun' = begun + 1
  /\ frame' = f /\ given' = k

\* The rest of the frame, and what is in the same chunk behind it.
LastPiece(behind, f, k) ==
  /\ NextFrame(f, k)
  /\ Arrives(SubSeq(frame, given + 1, Len(frame)) \o behind \o SubSeq(f, 1, k),
             <<frame>>, TRUE)

\* n more bytes of the frame, and then the sender gives it up.  The sync byte
\* has to come in the body, and to be the last in its chunk: read_inner looks
\* for the last zero byte, and takes what follows for the next frame whole.
Cut(n, behind, f, k) ==
  /\ given + n < Len(frame)
  /\ NextFrame(f, k)
  /\ Arrives(SubSeq(frame, given + 1, given + n) \o <<SYNC>> \o behind \o SubSeq(f, 1, k),
             <<>>,
             given + n >= 2 /\ behind = <<>> /\ (k > 0 => f[1] # SYNC))

\* An empty chunk.  It makes read_inner forget a header byte held alone.
Timeout ==
  /\ UNCHANGED senderVars
  /\ Arrives(<<>>, <<>>, given # 1)

\* What read leaves of the slice is lost when it returns.
Leaves(rest) ==
  /\ data' = IF call' = "reading" THEN rest ELSE <<>>
  /\ inStep' = IF call' \in {"reading", "Ok(true)"} THEN inStep
               ELSE \/ inStep /\ rest = <<>>
                    \/ BetweenFrames /\ position' = 0

\* read takes what it wants from the slice, or what there is.
Read ==
  /\ LET n == IF Wanted < Len(data) THEN Wanted ELSE Len(data)
     IN  \/ Store(SubSeq(data, 1, n)) /\ Leaves(SubSeq(data, n + 1, Len(data)))
         \/ Refuse /\ Leaves(data)
  /\ UNCHANGED <<senderVars, hasReader, due, handled>>

\* packet() is Some.
HasPacket == state = "Completed"

\* process: the handler gets the packet, the reader gives up its buffer.  What
\* was behind the packet in its chunk has been lost.
Process ==
  /\ call \in Returned
  /\ HasPacket /\ ~PacketPanics
  /\ handled' = IF inStep THEN Append(handled, packet) ELSE handled
  /\ Recycle
  /\ hasReader' = FALSE
  /\ inStep' = BetweenFrames
  /\ UNCHANGED <<senderVars, data, due>>

Send ==
  \/ \E n \in 1..BUFFER_SIZE : Piece(n)
  \/ \E f \in Frame : \E k \in 0..(Len(f) - 1), behind \in Behind :
       LastPiece(behind, f, k) \/ \E n \in 0..BUFFER_SIZE : Cut(n, behind, f, k)

PathNext == Send \/ Timeout \/ Read \/ Process

\* run_service's loop: read runs to its end, and process is called after it.
PathSpec ==
  /\ PathInit /\ [][PathNext]_pathVars
  /\ WF_pathVars(Read) /\ WF_pathVars(Process)

-------------------------------------------------------------------------------

\* Between two chunks a reader in step holds exactly the bytes given of the
\* frame that is arriving.  So the only things that put it out of step are
\* those that inStep names: a chunk lost, or the rest of one dropped, that ends
\* inside a frame; a timeout behind one header byte; a sync byte in a header or
\* before another zero byte or a whole frame.  (read_inner over the chunks of
\* put_received_data, lost ones included.)
InStep ==
  inStep /\ Idle =>
    /\ position = given
    /\ \A k \in 1..given : buffer[k - 1] = frame[k]

\* The frames due and not yet handled.
Path == INSTANCE Fifo WITH
  Item <- Frame,
  queue <- SubSeq(due, Len(handled) + 1, Len(due)),
  last <- IF handled = <<>> THEN None ELSE handled[Len(handled)]

\* Whenever the reader is in step, also after it had fallen out of it, the
\* first frame that ends in a chunk is handled, once and in order, and nothing
\* else is: whatever pieces it came in, whatever was behind it, and wherever
\* other frames were given up or lost.  (put_received_data and process.)
PathIsChannel == Path!Spec

\* The same without the promise that every frame is handled in the end.
PathNeverGarbles == Path!SafeSpec

\* A panic in read, or in packet() of an empty frame.
Stopped == call \in Panicked \/ PacketPanics

\* Only a reader that is out of step panics.  (Every stage of read, and packet(),
\* with whatever chunks put_received_data is given.)
StopsOnlyOutOfStep == Stopped => ~inStep

\* The reader comes upon the end of a chunk that ends in a sync byte, while it
\* waits for what it takes for the body of a frame.
SyncInBody ==
  /\ AwaitingData /\ BetweenFrames
  /\ data # <<>> /\ data[Len(data)] = SYNC /\ NoSync(SubSeq(data, 1, Len(data) - 1))

\* Then it is in step again, whatever was lost before and whatever it holds,
\* without any help from the frames to come: the sync byte empties it, or ends
\* up behind a packet.
SyncRestores == SyncInBody ~> (inStep /\ BetweenFrames) \/ Stopped

===============================================================================
