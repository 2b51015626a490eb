------------------------------ MODULE RunService ------------------------------
(***************************************************************************)
(* run_service (msmp-web/src/lib.rs): the loop that reads from a serial    *)
(* port, gives what came to its Service and sends what the Service has to  *)
(* forward.  A page may run it for several ports, one after the other or   *)
(* at once: every call makes a Service of its own, and all of them use one *)
(* static pool of buffers.                                                 *)
(*                                                                         *)
(* The calls share a thread.  They take turns where they wait, that is at  *)
(* the read and at the write, so what happens between two waits is one     *)
(* step.  A packet is its buffer; the handler only says whether to forward *)
(* it.  A failed read or write ends the call and drops its Service.        *)
(***************************************************************************)
EXTENDS Naturals, FiniteSets

CONSTANTS
  Port,          \* The ports run_service is called for.
  BUFFER_COUNT,  \* 256 in the code.
  None

Slot == 0..(BUFFER_COUNT - 1)

ASSUME PortAssumption == IsFiniteSet(Port)
ASSUME BufferCountAssumption == BUFFER_COUNT \in Nat
ASSUME NoneAssumption == None \notin Slot

VARIABLES
  pc,             \* What each port's call waits for.
  reader,         \* The buffer of its ProtocolReader, or None.
  sending,        \* The buffer at the head of its send ring, or None.
  buffer_in_use   \* The slots of the pool whose flag is set.

vars == <<pc, reader, sending, buffer_in_use>>

\* "trapped": the call panicked, and wasm does not unwind.
Wait == {"stopped", "read", "write", "trapped"}

Init ==
  /\ pc = [p \in Port |-> "stopped"]
  /\ reader = [p \in Port |-> None]
  /\ sending = [p \in Port |-> None]
  /\ buffer_in_use = {}

-------------------------------------------------------------------------------

Free == Slot \ buffer_in_use

Held(p) == {reader[p], sending[p]} \ {None}

\* ensure_reader will ask the pool for a buffer.
Wants(p) == pc[p] = "read" /\ reader[p] = None

Goto(p, wait) == pc' = [pc EXCEPT ![p] = wait]

\* Service::new has no reader and an empty ring.
Start(p) ==
  /\ pc[p] = "stopped"
  /\ Goto(p, "read")
  /\ UNCHANGED <<reader, sending, buffer_in_use>>

\* Mistake: every chunk gets a new reader.
TakesAny(p, b) == b \in Free

\* ensure_reader: the buffer b is there already, or is taken from the pool.
EnsuresReader(p, b) == IF reader[p] = None THEN b \in Free ELSE b = reader[p]

\* Mistake: the packet is handled, but its reader stays.
Peeks(b) == b

\* What process leaves of the reader that received the packet b.
Takes(b) == None

\* put_received_data does not complete a packet.
ReceivePart(p, b) ==
  /\ pc[p] = "read"
  /\ EnsuresReader(p, b)
  /\ reader' = [reader EXCEPT ![p] = b]
  /\ buffer_in_use' = buffer_in_use \cup {b}
  /\ UNCHANGED <<pc, sending>>

\* It completes one that is forwarded: process waits for the write.
ReceiveForwarded(p, b) ==
  /\ pc[p] = "read"
  /\ EnsuresReader(p, b)
  /\ reader' = [reader EXCEPT ![p] = Takes(b)]
  /\ sending' = [sending EXCEPT ![p] = b]
  /\ buffer_in_use' = buffer_in_use \cup {b}
  /\ Goto(p, "write")

\* It completes one for 0xe, which is not forwarded: the buffer is dropped.
ReceiveConsumed(p, b) ==
  /\ pc[p] = "read"
  /\ EnsuresReader(p, b)
  /\ reader' = [reader EXCEPT ![p] = Takes(b)]
  /\ buffer_in_use' = buffer_in_use \ {b}
  /\ UNCHANGED <<pc, sending>>

\* It, or packet() behind it, panics, as with a frame without a body: the
\* Service stays as it is and is never dropped.
ReceiveTraps(p, b) ==
  /\ pc[p] = "read"
  /\ EnsuresReader(p, b)
  /\ reader' = [reader EXCEPT ![p] = b]
  /\ buffer_in_use' = buffer_in_use \cup {b}
  /\ Goto(p, "trapped")
  /\ UNCHANGED sending

\* There is no buffer: the result is ignored and the chunk gone.
NoBuffer(p) ==
  /\ Wants(p) /\ Free = {}
  /\ UNCHANGED vars

\* WritableStreamWrapper writes all or fails.  next_buffer drops the buffer.
Written(p) ==
  /\ pc[p] = "write"
  /\ sending' = [sending EXCEPT ![p] = None]
  /\ buffer_in_use' = buffer_in_use \ {sending[p]}
  /\ Goto(p, "read")
  /\ UNCHANGED reader

\* Mistake: the Service drops its reader but not its ring.
DropsReader(p) == {reader[p]}

\* The buffers a Service drops.
Dropped(p) == {reader[p], sending[p]}

\* The ? behind the read or the write: run_service ends, the Service is
\* dropped, whatever it was doing.
Fails(p) ==
  /\ pc[p] \in {"read", "write"}
  /\ reader' = [reader EXCEPT ![p] = None]
  /\ sending' = [sending EXCEPT ![p] = None]
  /\ buffer_in_use' = buffer_in_use \ Dropped(p)
  /\ Goto(p, "stopped")

Receive(p) ==
  \/ \E b \in Slot : \/ ReceivePart(p, b) \/ ReceiveForwarded(p, b)
                     \/ ReceiveConsumed(p, b) \/ ReceiveTraps(p, b)
  \/ NoBuffer(p)

Next == \E p \in Port : Start(p) \/ Receive(p) \/ Written(p) \/ Fails(p)

Spec == Init /\ [][Next]_vars

-------------------------------------------------------------------------------

\* Types; and a buffer waits to be sent exactly while the call waits for the
\* write: process is called until the ring is empty, then the port is read.
\* A call that waits for the write has no reader.
TypeOK ==
  /\ pc \in [Port -> Wait]
  /\ reader \in [Port -> Slot \cup {None}]
  /\ sending \in [Port -> Slot \cup {None}]
  /\ buffer_in_use \subseteq Slot
  /\ \A p \in Port : /\ sending[p] # None <=> pc[p] = "write"
                     /\ reader[p] # None => pc[p] \in {"read", "trapped"}

\* The flags of the pool are set for the buffers that some call holds, for
\* good if it has panicked, and no two calls hold the same: a call that ends
\* in the middle of a packet gives back what it had, whatever the others do.
InUseIsHeld ==
  /\ buffer_in_use = UNION {Held(p) : p \in Port}
  /\ \A p, q \in Port : p # q => Held(p) \cap Held(q) = {}

\* No call ever needs two buffers, so one that finds no buffer for its reader
\* (NoBuffer of put_received_data, which run_service ignores) shares the pool
\* with as many other calls, running or panicked, as the pool has buffers.
NoBufferOnlyIfCrowded ==
  \A p \in Port :
    Wants(p) /\ Free = {} =>
      Cardinality({q \in Port \ {p} : pc[q] # "stopped"}) >= BUFFER_COUNT

===============================================================================
