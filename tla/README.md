# MSMP in TLA+

MSMP is a small packet protocol for byte links between microcontrollers (and a
browser or a PC at the end of a serial line).  The repository holds the library
`msmp`, a browser adapter `msmp-web` and a command line sender `msmp-cli`.  This
directory models the library, the adapter and the sender, model-checks them with
TLC and proves their invariants with TLAPS.

Contents: 1 the system, 2 modules and code, 3 abstractions, 4 runs, 5 fairness,
6 proofs, 7 disagreements found, 8 not modelled, 9 what is left, 10 how to run.

## 1. The system

A packet is two header bytes and a body of 0 to 63 bytes.  Byte 0 holds the
destination (high nibble) and the source address; byte 1 the message type (two
bits) and the body length (six bits).  The byte 0x00 in a body is a sync byte:
whatever follows it is the start of a new frame.

| Component | State | Operations | Talks to |
|---|---|---|---|
| packet codec (`packet.rs`) | the two header bytes, in a borrowed buffer | getters of `PacketReader`, setters of `PacketWriter` | everything that builds or looks at a packet |
| `ProtocolReader` (`protocol.rs`) | buffer, `position`, `state` | `read` (a loop over `read_inner`), `read_async`, `packet`, `release` | calls a `StreamReader` |
| byte streams (`protocol.rs`) | bytes under way | `read`, `write` of slices, mpsc channels, std and tokio streams | called by reader and senders |
| `BufferPool` (`service.rs`) | one `AtomicBool` and one `RefCell` per buffer | `get_buffer`, drop of a `BufferRef` | static, shared by tasks |
| `BufferManager` (`service.rs`) | ring `send_buffers`, `send_buffer_index` | `allocate_send_buffer`, `register_buffer_to_send`, `next_buffer`, `has_data_to_send` | takes from the pool; called by `Service` and the packet handler |
| `Service` (`service.rs`) | reader or none, `bytes_sent` | `put_received_data`, `process` | owns a reader and a manager; calls back the handler, awaits the writer |
| web streams (`msmp-web`) | internal `Vec`, position | `read` with a 10 ms timeout, `write` | JavaScript streams |
| `run_service` (`msmp-web`) | static pool, one service per call | endless loop, left by `?` | streams and service |
| sender (`msmp-cli`) | bytes written | check arguments, build a packet, write it | serial port |

How a packet passes a node: bytes come from the stream in chunks;
`put_received_data` takes a pool buffer for a reader if there is none and feeds
the chunk to it; `process` shows a completed packet to the handler, which may
allocate and register packets of its own; if the handler says so, the received
buffer itself goes into the ring; then a part of the packet at the head of the
ring is written, `bytes_sent` remembering how far it got.

What is hard, and what makes each part correct:

* **Reader.**  Chunk boundaries fall anywhere: inside the header, inside the
  body, behind a sync byte.  Every arm of `read_inner` computes a new `position`
  and `state`, one moves bytes with `copy_within`.  Correct means: the bytes held
  are consecutive bytes of the stream, a completed frame is as long as its header
  says and free of sync bytes, no index leaves the buffer, a call returns, and
  over a link every frame sent arrives once and in order.
* **Pool.**  `unsafe impl Sync` over plain memory.  Correct means: one owner per
  buffer, no `RefCell` panic, and every access ordered after the previous owner's
  (the Acquire and Release orderings).  `None` should mean full.
* **Ring.**  A hand-written modulo and a search for an empty place.  Correct
  means: a queue, without gaps (only one place is looked at when sending), and
  never full (the error of registering is thrown away).
* **Service.**  Reception, handler, forwarding, and short or failed writes
  interleave over many calls, with one offset.  Correct means: packets leave
  whole, once and in order, each received packet is handled once, the offset
  stays inside the packet it belongs to, and an exhausted pool recovers.
* **Codec.**  Two fields share a byte that a recycled buffer has filled with
  anything.
* **Web stream.**  A chunk races a timer, chunks and slices have different
  lengths, and the position outlives the `Vec` it points into.  Correct means: no
  byte is skipped, repeated or reordered, and one knows which bytes may be left
  waiting.
* **`run_service`.**  Calls for several ports share one static pool on one thread
  and end, at any wait, by dropping a `Service` in the middle of a packet.
  Correct means: every buffer comes back.
* **Sender.**  Short writes, and a panic for every error.  Correct means: the
  line never sees anything but the beginning of the packet asked for.

PROJECT.json lists these hazards at their source lines, with the properties
that would show them going wrong, and those no property covers yet.

## 2. Modules and code

```
  Packet ── PacketWriter ── CliSend ── MCCliSend, CliSendProofs
     └───── ProtocolReader ── ProtocolReaderProofs
                  ├────────── FramedLink ── MCFramedLink, FramedLinkProofs
                  └────────── ReceivePath ── MCReceivePath, ReceivePathProofs
  BufferManager ── Service ── MCService, ServiceProofs
  BufferPool ── BufferPoolProofs
  WebStream ── WebStreamProofs
  RunService ── RunServiceProofs

  BufferPool implements Ownership; FramedLink, ReceivePath, BufferManager and
  Service implement Fifo.
```

A line is EXTENDS.  `FramedLinkProofs` and `ReceivePathProofs` also extend
`ProtocolReaderProofs`, whose invariant they build on.  The theorems about
`PacketWriter` are in `CliSendProofs`, those about `BufferManager` in
`ServiceProofs`: what each pair of modules proves is one argument.

**Packet, PacketWriter.**  Getters and setters of `packet.rs` as arithmetic on
bytes: a mask is a remainder, a shift of a `u8` keeps eight bits.  One action per
setter, in any order, from any old header bytes.  `expected` remembers what each
field was last set to.

**CliSend.**  The `send` command: `Check` is the two `Address::try_from` and
`hex::decode`, `Build` the four setters in the order of `main`, `CopyBody` the
`copy_from_slice` into `body_mut`, `Write` one turn of the write loop.  `TooLong`
and `WriteFails` are the `expect`s that end the program half way.

**ProtocolReader.**  `buffer`, `position` and `state` are the struct's fields,
`call` is where the current call of `read` is and how the last one ended, and
`consumed` is the history of bytes taken from the stream.  One step is one
iteration of the loop in `read`, that is one call of `read_inner`; its arms are
actions: `ReadHeader` (one byte, or both), `InsufficientBuffer`, `BodyBytes`
(which may complete the frame), `Resync`, `StreamFails`.  `Panic` is the two arms
that panic: `SliceReversed`, slicing `position..2` with more than two bytes held,
and `LengthUnderflow`, `end - position` below zero.  `WouldBlock` is an answer of
zero bytes, as in the code.  `Recycle` is `release` followed by
`new_with_buffer`, which keeps stale bytes.  The asynchronous twins have the same
text and share the model.

**FramedLink.**  A sender, a channel of bytes and the reader, driven as `Service`
drives it.  `Blocking` tells a stream that waits for a byte (`StreamWrapper` over
`std::io::Read`) from one that answers nothing when empty (mpsc, a slice).  A
sender may be cut off in a body and come back with a sync byte.

**ReceivePath.**  The same reader behind `put_received_data`, which makes one
call of `read` on a slice that holds one chunk and forgets what is left of it,
and `process`, which hands the packet over and gives the reader up.  On the other
side a sender has got rid of the first `given` bytes of `frame`.  A chunk holds
any piece of its bytes: `Piece` ends inside the frame, `LastPiece` goes on behind
its end, `Cut` gives it up with a sync byte and goes on; behind either there may
be more frames (`Behind`) and the beginning of the next one.  `Timeout` is the
empty chunk of `run_service`.  Any chunk may meet `NoBuffer` and be lost, and
`Leaves` drops what a call of `read` did not take.

Losses go unnoticed on both sides, and the reader may take the middle of a frame
for a header.  `inStep`, a history variable, keeps account of this by what was
lost and where the sender stood; no action of the code is guarded by it.  It
becomes FALSE

* when a chunk that ends inside a frame meets `NoBuffer`, or when read drops the
  rest of such a chunk;
* at an empty chunk while one header byte is held (disagreement 1 of section 7);
* at a sync byte in the header of the frame given up, where it is a header byte
  like any other;
* at a sync byte with another zero byte, or more than the beginning of one frame,
  behind it in its chunk: `read_inner` looks for the last zero byte and keeps
  what follows (the exception at the end of section 7);

and TRUE whenever the reader is empty, or is given up, between two frames.  `due`
and `handled` record the frames and packets of the time in step.

**BufferPool.**  Every access to memory that other tasks see is a step:
the `compare_exchange` of each loop iteration (`SlotTaken`, `Claim`),
`borrow_mut`, the return that drops the `RefMut`, each use of the bytes, the
`store` of the drop.  `seen[s]` is the set of tasks that have synchronised with
all accesses to slot `s`; a plain access by `t` resets it to `{t}`, a Release
store publishes it, an Acquire that reads that store joins it.  `Ownership` is
what the pool promises: atomic acquire and release of whole buffers.

**BufferManager.**  `send_buffers` and `send_buffer_index` are the fields;
`Place` is the hand-written wrap, `FirstEmpty` the search.  A `BufferRef` is its
index in the pool.  Claiming and returning are one step each, which
`BufferPool`'s refinement of `Ownership` justifies.  `Fifo` is the abstract queue.

**Service.**  Extends the manager with the reader's buffer, `bytes_sent` and
`phase`, which is where `process` is: not called, in the handler, in `write`.
`process` is cut at the handler's calls and at the `await` of the write, for
there other users of the pool may run (`Elsewhere`).  `HandlerReturns` is
everything from the handler's return to the write: release the reader, register
or drop its buffer, look at the head of the ring.

**WebStream.**  `ReadableStreamWrapper`: `buffer` and `position` are its fields,
`stream` the browser's queue of chunks.  `Read` runs to the `select!` or, with
enough bytes in the `Vec`, to the end; `ChunkWins`, `EndWins`, `DelayWins` and
`DelayBeatsChunk` are the ways the race can go, `Serve` the code behind it.

**RunService.**  Any number of calls of `run_service` over the static pool.  A
step is what a call does between two waits: a read came back and
`put_received_data` and `process` have run up to the write (`ReceivePart`,
`ReceiveForwarded`, `ReceiveConsumed`, `NoBuffer`), the write is done
(`Written`), the `?` behind either ends the call and drops its `Service`
(`Fails`), or it panicked (`ReceiveTraps`), after which nothing is dropped.

Definitions introduced by a comment `Mistake:` are not used by any
specification.  Each is a plausible slip in the definition after it (a dropped
guard, a missing reset, an off-by-one), and PROJECT.json names the property that
TLC finds violated once the slip is put in.  They show that no property is empty.

## 3. Abstractions

* Bytes of a frame matter to the reader only as "sync or not" and through the
  length field, so runs use few byte values.
* The flags of the pool are single atomics and behave sequentially consistently
  each; a failed `compare_exchange` reads the current value.  A Relaxed stale
  failure could only skip a slot, that is one more `None`.
* Several `BufferRef`s of one task are a set; nothing orders their drops.
* `Service` reduces the reader to a buffer that any call may complete; that
  chunks of bytes do become packets is `ReceivePath`'s subject.  Packets are
  numbered as they come into being, `PacketLength` gives their wire length.
* The caller of `Service` calls `process` between two completed receptions, as
  `run_service` does, and never abandons it in the middle of a write.  A failed
  write has written nothing.  `put_received_data` without a free buffer changes
  nothing and is not a step of `Service`; what it costs is in `ReceivePath` and
  `RunService`.
* The handler registers only well-formed packets.
* The types promise that addresses are below 16 and message types below 4.
  `MessageType::Reserved(v)` with `v > 3` can be written down, and its bits 2 and
  up would be shifted out; such values are left out.
* `ReceivePath` lets a chunk end at most one frame that a reader in step can
  deliver: what else ends in it is in `Behind`, is dropped or lost by the code in
  any case, and is not counted as due.  A sender that gives a frame up says so
  with a sync byte.  Bytes the line itself damages are not modelled.
* `WebStream` numbers the bytes as they arrive at the port; what they mean is of
  no matter to it.  A chunk whose read was given up before it arrived stays in
  the stream; one that was there already is dropped with its read.  Both are
  properties of the browser's streams, outside `src/`.  An empty slice is never
  asked for.
* `RunService` reduces a packet to its buffer and the handler to its answer.  The
  ring holds at most one buffer, as that handler registers nothing of its own and
  `process` is repeated until the ring is empty; a write takes all or fails
  (`WritableStreamWrapper`).
* `CliSend`'s port takes any part of a write or fails; a failed write has taken
  nothing.

## 4. Runs

| Run | Question | Bounds, and why they are enough |
|---|---|---|
| `cli_send` | Is the line always a prefix of the packet asked for? | arguments 0, 9, 15 and the refused 16; data of 0, 1, 3, 63 and the refused 64 bytes, and data that is no hex; every length of every write: the shortest, the longest and one more |
| `reader` | Is what the reader holds, and delivers, a piece of the stream? Does `read` return? | all streams of up to 6 bytes over {sync, length 3, length 4}, buffer 5, chunks up to 2: a frame that fits exactly, one that does not, resynchronisations that leave 0 and 1 bytes, a failure anywhere |
| `link_cut` | Does a blocking link deliver whole frames in order, across cuts, and stop only where section 7 says? | two frames and two cuts, all chunk sizes; bodies of five and one bytes, so that a resynchronisation may leave more than the shorter frame has |
| `link_polling` | Does a link that runs dry deliver every frame? (violated) | two frames, no cuts |
| `link_cut_bulk` | Does the reader of `link_cut` never panic? (violated) | two frames, one cut |
| `link_empty` | Is there a packet after `Ok(true)`? (violated) | one frame with an empty body |
| `receive_path` | What puts a service out of step with the sender, is the first frame to end in a chunk handled whenever it is in step, and what brings it back? | two frames behind the first, of three and five bytes, the longer as long as the buffer and with a zero first byte; all cuts into chunks, with nothing, a whole frame or a cut one behind the end of a frame; body bytes that a reader out of step takes for lengths, fitting or not; about 780 000 states |
| `pool` | Ownership, panics, races, honest `None` | two tasks and three buffers: `None` needs a full scan against a second task's claims and drops; the proofs cover any number |
| `manager` | Is the ring a queue with room? | four places, so that the head, the end and the wrap are all different; no bound on time: the state is finite |
| `service` | Is sending whole, in order, once, and live? | four packets of lengths 3, 2, 3, 2 over three buffers: the ring wraps, and a stale offset would leave the shorter packet |
| `web_stream` | Do bytes stay in order, and which may be left waiting? | slices of 2, chunks of 1 to 4, seven bytes: a chunk that fills a slice, one that overfills it once and one that fills it twice, and another chunk behind |
| `run_service` | Does every buffer come back, and who can be without? | four calls, three buffers: one call more than the pool can serve |

What the properties say, in short:

* `FieldsReadBack`: a reader of the header sees what was last set.  `cli_send`
  checks it in the order of `main`, the theorem for every order.
* `WireIsPrefix`, `DoneIsWhole`, `SendEnds`: wherever the sender stops, the line
  has the beginning of the packet, built without the masks of `packet.rs`; a
  normal end has sent all of it; there is an end.
* `HeldIsStreamSuffix`: the first `position` bytes of the buffer are the last
  `position` bytes taken from the stream.  It holds through chunking, failures,
  `copy_within` and even the forgotten header byte of section 7.
* `DeliveredIsFrame`: a completed reader holds exactly one frame, no sync byte
  in its body.
* `ReadReturns`: the loop of `read` ends whatever the stream answers.
* `LinkNeverGarbles`, `FramesArrive`, `PanicsOnlyByCut`: frames sent in full are
  delivered once and in order; they do arrive unless the reader has panicked; it
  panics only by the underflow of section 7, never without a cut.
  `LinkIsChannel`, the whole promise, is what `link_polling` refutes.
* `ReaderNeverPanics`, `PacketAfterRead`: the two panics of section 7.
* `InStep`: between two chunks a reader in step holds exactly the bytes given of
  the frame that is arriving.  This is what makes the list of section 2 complete:
  nothing else that happens to chunks can put the reader out of step.  Taking any
  condition off that list makes the run fail, but for one: that a cut has at most
  the beginning of one frame behind it matters with frames of six or more bytes
  only, which are too many states for the run; the theorem covers them.
* `PathIsChannel`: the first frame to end in a chunk that comes to a reader in
  step is handled, once and in order, and a reader in step hands over nothing
  else, also after it had been out of step.  What ends behind it in the same
  chunk is lost: `put_received_data` drops it.
* `StopsOnlyOutOfStep`: neither `read` nor `packet()` panics but out of step.
  Out of step the run does reach the panic of `packet()` on an empty frame.
* `SyncRestores`: a reader that waits for a body, of whatever it takes for a
  frame, is back in step after a chunk that ends in the sync byte of a frame given
  up, or has panicked.  Without a sync byte nothing brings it back for certain.
* `InUseMeansOwned`, `BorrowNeverPanics`, `NoDataRace`, `PoolIsExclusive`: the
  pool's lock is its flag, and it is enough for the plain memory behind it.
* `NoneMeansFull`: with two tasks `None` means that all buffers were in use at
  one moment of the call.  With three tasks it is false: two of them can pass a
  free slot back and forth ahead of the scan of the third.  `None` and
  `NoBuffer` are then advice to try again, not evidence of exhaustion.
* `RingIsQueue`, `NothingStranded`, `RegisterNeverFails`: order, no gaps, room.
* `WireIsWhole`, `SliceInRange`, `HandledOnce`, `LineIsChannel`,
  `ReaderRecovers`: see section 1.
* `BytesInOrder`: what reads returned, what is in the `Vec` and what is in the
  stream are the bytes that arrived, in order, but for chunks dropped with their
  read.  `TailOnlyOfLongChunk`, `AllButATail`: bytes wait only behind a chunk
  longer than the slice, and then fewer than a slice of them, until another chunk
  comes.  With the slice of 64 bytes and a browser that hands over long chunks,
  the end of a packet may wait like this.
* `InUseIsHeld`: flags of the pool are set exactly for buffers some call holds,
  no two calls the same one, however calls end.  `NoBufferOnlyIfCrowded`: a call
  meets `NoBuffer` only beside as many other calls, running or panicked, as the
  pool has buffers.  A panicked call may thus hold one buffer for good, no more.

Deadlock is not an error in `cli_send` (the program ends), in `reader`, `link_*`,
`receive_path` and `web_stream` (there a bound on the stream, the end of what is
to be sent, or a panic or failure stops the system), and in `run_service` (all
calls may have panicked).

## 5. Fairness

* `ProtocolReader`: weak fairness of `Iterate`.  `read` is a plain loop; once
  called it runs on.  Calls themselves are not forced.
* `FramedLink`: weak fairness of the receiving loop and of `Write`.  A sender may
  never begin a frame, but once begun it is written on.
* `ReceivePath`: weak fairness of `Read` and `Process`: a call of
  `put_received_data` runs to its end and `process` is called behind it, as in
  the loop of `run_service`.  Nothing obliges chunks to arrive: `SyncRestores`
  holds without any further chunk.
* `Service`: `process` is called again and again (the loop of `run_service`), the
  handler returns, a write ends.  A write may fail or accept nothing any number
  of times, but not for ever (strong fairness of a write that accepts a byte).
  Other users of the pool return their buffers, as dropping a `BufferRef` does.
  Nothing obliges bytes to arrive.
* `WebStream`: weak fairness of `Read` (the loop of `run_service`) and of the
  returns from `select!` (the delay ends it, if nothing else does), and strong
  fairness of `ChunkWins`: with chunks in the stream again and again, the delay is
  not always the first.  That is what `select!` choosing among ready futures
  gives.
* `CliSend`: weak fairness of `Proceed`: the program runs on, and a port that
  does not fail takes bytes now and then.  Against a port that accepts zero bytes
  for ever the loop of `main` spins; it has no bound of its own.
* `BufferPool`, `BufferManager`, `RunService`: safety only, no fairness.

## 6. Proofs

Assumptions are those declared with the constants: `BUFFER_SIZE >= 3` (below
that `PacketReader::new` panics at once), `BUFFER_COUNT > 0` for the ring,
bytes in 0..255 with the sync byte among them, the ranges of header fields,
packets and slices of at least one byte, finitely many ports, and that `Nobody`
and `None` are not real values.

* **CliSendProofs.**  `ReadBack` proves `FieldsReadBack`, `TypeCorrect` that no
  setter leaves its byte.  The lemmas `Split` and `Join` state what dividing a
  byte at bit 4 or 6 gives back; the rest is one case per setter.  `Prefix` and
  `Whole` are about the sender.  Their invariant says, for each
  statement of `main`, how much of the header is built and that nothing is on the
  line before the loop; in the loop the line holds the first `bytes_written`
  bytes of the packet requested, which is where the arithmetic of the masks is
  seen to give the packet format.
* **ProtocolReaderProofs.**  `TypeCorrect` and `StreamSuffix` are inductive
  together (the suffix needs `position <= BUFFER_SIZE`; `Resync` moves bytes
  inside the part just filled).  `FrameDelivered` needs a strengthening,
  `BodyIsClean`: while the body is being received, no byte behind the header is a
  sync byte.  That is not true of every state with `state = "Data"`
  taken alone; it is what the arms of `read_inner` maintain because a sync byte
  in new data always leads to `Resync`.
* **FramedLinkProofs.**  `PanicsOnlyAfterCut` and `NeverGarbles`, over a stream
  that waits for a byte.  The proofs keep a log of the attempts to send a frame,
  each written in full or cut off, with the place of the stream where it ends and
  the number of frames sent by then (`Log`).  The invariant says that the reader
  is at one of the attempts (`At`): what it holds begins where that attempt
  begins, no more of it is held than was written, and all frames sent in full
  before it are delivered.  A body byte can then only complete the attempt's own
  frame (`PacketIsNext`), and a resynchronisation only move to the attempt behind
  the cut whose sync byte it found (`SyncEndsCut`), or beyond it, which is the
  underflow of section 7 (`Overrun`).  Where there may be cuts `NeverGarbles` has
  premises: no sync byte in a header, and, with several cuts, no frame six or more
  bytes longer than another (`Distinct`).  Both are needed.  The first is the
  exception at the end of section 7.  Without the second, the bytes of one read
  can hold a cut, a whole frame and the next cut, and the reader keeps only what
  is behind the last sync byte: TLC finds the frame lost with frames of nine and
  three bytes and a buffer of nine.  `link_cut` is inside of the bound.  Without
  cuts there is no premise on the frames but that they are well-formed.
* **ReceivePathProofs.**  `Synchronised`, `NoPanicInStep` and `NeverGarbles`, for
  any frames, buffer, `Behind` and number of frames.  The invariant has one
  disjunct for each stage of a call of `put_received_data` in step (`Waiting`,
  `Arriving`, `Ending`, `Cutting`, `Done`), and each says how the bytes held, the
  rest of the slice and the frames of the sender fit together; of a reader out of
  step it says that nothing is due (and what `ProtocolReaderProofs` says of any
  reader).  `InStep` is the first of them alone, and not inductive.  Only frames
  that are well-formed and have a body are assumed.  What takes work is `CutComes`:
  the last zero byte of what is read is the sync byte, because a frame has none
  behind its first byte, and `copy_within` then leaves the beginning of the next
  frame at the front, even where it holds more bytes than that frame's header.
* **BufferPoolProofs.**  `Exclusive`, `NoPanic`, `RaceFree`, `Implements` and
  `HonestNone`.
  `InUseMeansOwned` alone is not inductive.  The strengthening says that a
  task past its `compare_exchange` has `i` in range, that a `RefCell` is borrowed
  only by the task in state "borrowed", and that the last store to a clear flag
  has published all accesses.  For the refinement, `owner` maps a slot to the
  unique task owning it: `Claim` is `Acquire`, `Drop` is `Release`, all other
  steps leave `owner` as it is.  `HonestNone` is for at most two tasks and any
  number of buffers: a scan that has not seen the pool full has a free buffer
  before it, because no free buffer is behind two scans at once
  (`NoneBehindBoth`).  With a third task that strengthening fails, and so does
  the property.
* **ServiceProofs, the manager.**  `NoGaps`, `AlwaysRoom` and `Implements`.  The
  inductive invariant says that for some length `n` exactly the first `n` places
  from `send_buffer_index` on are taken (`Packed`), and that the buffers of the
  ring are distinct and in no hand.  `AlwaysRoom` is the pigeonhole principle:
  a full ring would be an injection of all places into the buffers without the
  one in hand.
* **ServiceProofs, the service.**  `NeverTorn`, `InRange`, `ExactlyOnce`, on top of the
  manager's invariant, which every step of the service keeps.  The strengthening
  ties the parts together: the reader's buffer is in hand and so in no place of
  the ring (`ReaderOwns`), a buffer in the ring holds a packet (`HoldsPackets`),
  `bytes_sent` is an offset into the packet at the head, 0 if there is none
  (`OffsetOfHead`), and the line ends where that offset says (`WireEnds`).  Only
  the last two together make a continued write continue the right packet.
  `UsesManager` shows that every step of a service is a step of the manager's
  specification or leaves the manager alone, so that what is proved of the ring
  holds in it; `ForwardNeverFails` is one use of that.  `LineNeverGarbled` is the
  order of packets on the line: the packets registered and not yet ended on the
  line are the contents of the ring, read from its head (`LineIInv`).
* **WebStreamProofs.**  `TypeCorrect`, whose point is that `position` stays inside
  of the `Vec` across `clear`; `NoTail`, which needs that chunks in the stream are
  no longer than the longest that arrived; and `InOrder`, whose two lemmas say
  that the end of `read` moves the border between returned and unread bytes
  (`ServeTakes`) and that a chunk taken goes behind the unread ones
  (`UnreadGrows`).
* **RunServiceProofs.**  `TypeCorrect`, `NothingLeaks` and `CrowdedOnly`.  Every
  step moves one call from holding at most one buffer to holding at most one;
  `CrowdedOnly` then is the pigeonhole principle again.

Every invariant and every action property of the passing runs is stated by a
theorem; of `PathIsChannel` and `LineIsChannel` the safety parts are
(`PathNeverGarbles`, `LineNeverGarbles`), which no run checks a second time.
Only model-checked is what needs liveness under fairness, which the
prover does not reach: `ReadReturns`, `FramesArrive`, `ReaderRecovers`,
`AllButATail`, `SendEnds`, `SyncRestores`, and the promise in `PathIsChannel` and
`LineIsChannel` that an item does come out.  Not proved either is
what lies outside a premise: links with cuts and frames outside of `Distinct`,
and `NoneMeansFull` for three tasks; both are false there.

## 7. Disagreements found

Three runs are expected to end in a violation.

1. `link_polling`.  If the stream is dry while one header byte is held,
   `read_inner` stores `position = bytes_read`, that is 0, instead of adding to
   it; the byte is forgotten (`protocol.rs:163`, and the asynchronous twin).
   The tests named "two_phase" say that a frame may arrive in two parts; they
   cut it elsewhere.  In the web loop a 10 ms timeout produces such an empty read.
2. `link_cut_bulk`.  After a resynchronisation more bytes may be held than the
   frame now at the front has.  `end - self.position` underflows
   (`protocol.rs:177`): a panic in a debug build, a slice panic otherwise.
3. `link_empty`.  A frame without a body completes with two bytes, and `packet()`
   unwraps `PacketReader::try_new`, which wants three.

The passing run `link_cut` stays clear of 1 and 3 (a blocking stream, bodies of at
least one byte) and allows for 2 by name.  In `receive_path` 1 is one of the
things that put the reader out of step, and 3 happens to a reader out of step.

A sync byte cannot be told from a zero first byte of a frame, from address 0 to
address 0, that follows it in the same chunk: the last zero byte counts, and the
frame is received without its first byte.  The frames of `link_cut` begin with
another byte; `receive_path` counts this as a loss of step.

## 8. Not modelled, and why

* `body`, `Display`, error types, logging: no state.
* `BufferStreamWriter` (used by a test only) and errors of closed channels:
  covered only as an arbitrary stream of the reader, and as `WriteFails` in the
  service.
* What the handler of `run_service` shows on the page, and a handler that
  registers packets there: none does.  `Service` has such a handler.
* A `process` whose future is dropped in the middle of a write, and a handler
  that registers a packet longer than its buffer: nothing in the repository does
  either.
* Parsing of the command line, opening the serial port, generated JavaScript, the
  HTML page: input and output, or generated code.

## 9. What is left

1. `Service` over the reader of `ReceivePath` in place of its `complete` flag, so
   that one specification goes from the bytes received to the bytes sent.
2. The bound that `AllButATail` puts on the bytes left waiting, as an invariant
   that can be proved.
3. What a panic by `LengthUnderflow` costs in frames, once a service whose reader
   has panicked is started again.

## 10. How to run

`tlc -config <run>.cfg <module>.tla` for a run of PROJECT.json, and
`tlapm <module>Proofs.tla` for the proofs.  With two workers `receive_path` takes
about two minutes and no other run more than one; the proofs of a module take
no longer either.
