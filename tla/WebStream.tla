------------------------------- MODULE WebStream -------------------------------
(***************************************************************************)
(* ReadableStreamWrapper (msmp-web/src/lib.rs): makes a reader of bytes of *)
(* the serial port's stream of chunks.  Bytes that a read did not take     *)
(* stay in a Vec, with the position of the first of them.  A read that     *)
(* finds too few waits for one chunk, or for a delay of 10 ms: select!     *)
(* takes whichever is there, and either one if both are.                   *)
(*                                                                         *)
(* The bytes are numbered in the order they arrive at the port.  The       *)
(* stream itself belongs to the browser: a chunk whose read was given up   *)
(* before it was there stays in the stream, one that was there is gone.    *)
(***************************************************************************)
EXTENDS Naturals, FiniteSets, SequencesExt

CONSTANTS
  Want,       \* The length of the slice read is to fill, 64 in run_service.
  MaxChunk,   \* Bound on the length of a chunk,
  MaxBytes    \*   and on the bytes that arrive.

ASSUME WantAssumption == Want \in Nat \ {0}
ASSUME BoundAssumption == {MaxChunk, MaxBytes} \subseteq Nat

VARIABLES
  stream,    \* The chunks in the stream, oldest first.
  closed,    \* Whether the port has closed the stream.
  buffer,    \* The Vec of the same name,
  position,  \*   and where its unread bytes begin.
  pc,        \* Whether read is not called, in select!, or has failed.
  out,       \* History: the bytes read has returned.
  arrived,   \* History: how many bytes have arrived,
  lost,      \*   the bytes of chunks that were dropped with their read,
  longest    \*   and the length of the longest chunk so far.

readVars == <<buffer, position, pc, out>>
portVars == <<closed, arrived, longest>>
vars == <<readVars, portVars, stream, lost>>

Init ==
  /\ stream = <<>> /\ closed = FALSE
  /\ buffer = <<>> /\ position = 0
  /\ pc = "idle"
  /\ out = <<>>
  /\ arrived = 0 /\ lost = {} /\ longest = 0

-------------------------------------------------------------------------------

\* The port: a chunk arrives, or the stream ends.
Arrive(n) ==
  /\ ~closed
  /\ arrived + n <= MaxBytes
  /\ stream' = Append(stream, [k \in 1..n |-> arrived + k])
  /\ arrived' = arrived + n
  /\ longest' = IF n > longest THEN n ELSE longest
  /\ UNCHANGED <<readVars, closed, lost>>

Close == closed' = TRUE /\ UNCHANGED <<readVars, stream, arrived, lost, longest>>

\* Mistake: the position is kept when the Vec is cleared.
KeptPosition == position

\* The position when the Vec has been cleared.
FreshPosition == 0

\* Mistake: the slice is never filled to its last byte.
ServedButOne(left) == IF left < Want THEN left ELSE Want - 1

\* How many of the bytes left are returned.
Served(left) == IF left < Want THEN left ELSE Want

\* The end of read: as many bytes of vec as fit the slice.  The Vec is cleared
\* only if there are some, and too few to fill it.
Serve(vec) ==
  LET left == Len(vec) - position
  IN  /\ out' = out \o SubSeq(vec, position + 1, position + Served(left))
      /\ IF left \in 1..(Want - 1)
         THEN buffer' = <<>> /\ position' = FreshPosition
         ELSE buffer' = vec /\ position' = position + Served(left)
      /\ pc' = "idle"

\* Mistake: read waits for a chunk whatever is buffered.
ShortAlways == TRUE

\* Too few bytes are buffered.
Short == Len(buffer) - position < Want

Read ==
  /\ pc = "idle"
  /\ IF Short THEN pc' = "select" /\ UNCHANGED <<buffer, position, out>> ELSE Serve(buffer)
  /\ UNCHANGED <<portVars, stream, lost>>

\* A chunk comes first.
ChunkWins ==
  /\ pc = "select" /\ stream # <<>>
  /\ Serve(buffer \o Head(stream))
  /\ stream' = Tail(stream)
  /\ UNCHANGED <<portVars, lost>>

\* The stream has ended: there is no chunk, and the read is not timed out.
EndWins ==
  /\ pc = "select" /\ stream = <<>> /\ closed
  /\ Serve(buffer)
  /\ UNCHANGED <<portVars, stream, lost>>

\* The delay comes first: read returns 0, whatever is buffered.
DelayWins ==
  /\ pc = "select"
  /\ pc' = "idle"
  /\ UNCHANGED <<buffer, position, out, portVars, stream, lost>>

\* Both are there and select! takes the delay: the chunk is dropped.
DelayBeatsChunk ==
  /\ pc = "select" /\ stream # <<>>
  /\ pc' = "idle"
  /\ stream' = Tail(stream)
  /\ lost' = lost \cup Range(Head(stream))
  /\ UNCHANGED <<buffer, position, out, portVars>>

\* The port fails: so does read, and run_service ends.
PortFails ==
  /\ pc = "select"
  /\ pc' = "failed"
  /\ UNCHANGED <<buffer, position, out, portVars, stream, lost>>

Return == ChunkWins \/ EndWins \/ DelayWins \/ DelayBeatsChunk

Next == (\E n \in 1..MaxChunk : Arrive(n)) \/ Close \/ Read \/ Return \/ PortFails

\* run_service reads again and again, and the delay does not beat a chunk that
\* is there for ever.
Spec == Init /\ [][Next]_vars /\ WF_vars(Read) /\ WF_vars(Return) /\ SF_vars(ChunkWins)

-------------------------------------------------------------------------------

Unread == SubSeq(buffer, position + 1, Len(buffer))

\* Len(buffer) - position does not underflow on usize.
TypeOK ==
  /\ stream \in Seq(Seq(1..MaxBytes)) /\ closed \in BOOLEAN
  /\ buffer \in Seq(1..MaxBytes)
  /\ position \in 0..Len(buffer)
  /\ pc \in {"idle", "select", "failed"}
  /\ out \in Seq(1..MaxBytes)
  /\ arrived \in 0..MaxBytes /\ lost \subseteq 1..MaxBytes /\ longest \in 0..MaxChunk

\* The bytes taken from the stream and not dropped: returned, or in the Vec.
Taken == out \o Unread

Rising(s) == IsSorted(s, <)
Older(s, t) == \A x \in Range(s), y \in Range(t) : x < y

\* The bytes read returns, those in the Vec and those in the stream are the
\* bytes that arrived, in order and each once, but for chunks dropped with
\* their read: moving bytes from chunks to slices of another length tears,
\* skips and repeats nothing.
BytesInOrder ==
  /\ Rising(Taken)
  /\ \A k \in 1..Len(stream) : Rising(stream[k]) /\ Older(Taken, stream[k])
  /\ \A k, l \in 1..Len(stream) : k < l => Older(stream[k], stream[l])
  /\ Range(Taken) \cup UNION {Range(stream[k]) : k \in 1..Len(stream)} = (1..arrived) \ lost

\* Bytes are left over by a read only behind a chunk longer than its slice.
\* (A tail shorter than the slice waits for the next chunk; of a sender whose
\* chunks fit the slice nothing is ever left waiting.)
TailOnlyOfLongChunk == Unread # <<>> => longest > Want

\* All bytes that arrive are returned, unless dropped or followed by a failure;
\* but behind a chunk longer than the slice, fewer than Want of them may wait.
AllButATail ==
  \A k \in 1..MaxBytes :
    (arrived >= k) ~>
      \/ pc = "failed"
      \/ Len(out) + Cardinality(lost) >= IF longest <= Want THEN k ELSE k - Want + 1

===============================================================================
