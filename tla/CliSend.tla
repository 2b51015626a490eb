-------------------------------- MODULE CliSend --------------------------------
(***************************************************************************)
(* The send command of msmp-cli (main.rs): checks its arguments, builds    *)
(* one packet with a PacketWriter in a zeroed buffer, and writes it to the *)
(* serial port in a loop that goes on where a short write stopped.         *)
(*                                                                         *)
(* Every error ends in an expect, that is in a panic; what matters is how  *)
(* much of the packet is on the wire by then.                              *)
(***************************************************************************)
EXTENDS PacketWriter, Sequences

CONSTANTS
  Argument,  \* Values of --source-address and --destination-address, u8.
  Data,      \* What --data decodes to.
  BadHex     \* Data that hex::decode refuses.

ASSUME ArgumentAssumption == Argument \subseteq U8
ASSUME DataAssumption == Data \subseteq Seq(U8)

VARIABLES
  source, destination, data,   \* The arguments.
  pc,                          \* The statement of main that comes next.
  body,                        \* The packet buffer behind the header.
  bytes_written,
  wire                         \* The bytes the port has taken.

argumentVars == <<source, destination, data>>
cliVars == <<vars, argumentVars, pc, body, bytes_written, wire>>

Statement == {"check", "source", "destination", "length", "type", "body",
              "write", "done", "panicked"}

packet_buffer == <<b0, b1>> \o body

CliInit ==
  /\ source \in Argument /\ destination \in Argument /\ data \in Data \cup {BadHex}
  /\ b0 = 0 /\ b1 = 0 /\ expected = Decoded
  /\ pc = "check"
  /\ body = <<>>
  /\ bytes_written = 0
  /\ wire = <<>>

-------------------------------------------------------------------------------

\* Address::try_from, twice, and hex::decode; then the buffer is allocated.
ArgumentsValid == source <= 15 /\ destination <= 15 /\ data # BadHex

Check ==
  /\ pc = "check"
  /\ IF ArgumentsValid
     THEN pc' = "source" /\ body' = [k \in DOMAIN data |-> 0]
     ELSE pc' = "panicked" /\ UNCHANGED body
  /\ UNCHANGED <<vars, argumentVars, bytes_written, wire>>

\* A setter, and the statement that follows it.
Set(from, setter, to) ==
  /\ pc = from
  /\ setter
  /\ pc' = to
  /\ UNCHANGED <<argumentVars, body, bytes_written, wire>>

Build ==
  \/ Set("source", set_source_address(source), "destination")
  \/ Set("destination", set_destination_address(destination), "length")
  \/ Set("length", set_message_length(Len(data)), "type")
  \/ Set("type", set_message_type(0), "body")

\* set_message_length refuses the data.
TooLong ==
  /\ pc = "length"
  /\ ~LengthFits(Len(data))
  /\ pc' = "panicked"
  /\ UNCHANGED <<vars, argumentVars, body, bytes_written, wire>>

\* body_mut().copy_from_slice: panics unless the lengths are the same.
CopyBody ==
  /\ pc = "body"
  /\ IF message_length(b1) = Len(data)
     THEN pc' = "write" /\ body' = data
     ELSE pc' = "panicked" /\ UNCHANGED body
  /\ UNCHANGED <<vars, argumentVars, bytes_written, wire>>

\* Mistake: what earlier writes took is forgotten.
NowOnly(n) == n

\* bytes_written after a write that took n bytes.
Advanced(n) == bytes_written + n

\* Mistake: the loop goes round once more.
OnceMore == bytes_written <= Len(packet_buffer)

\* Mistake: the loop leaves out the last byte.
ButLast == bytes_written + 1 < Len(packet_buffer)

\* The condition of the loop.
Unwritten == bytes_written < Len(packet_buffer)

\* The port takes n bytes.  A write that takes none changes nothing: the loop
\* spins.
Write(n) ==
  /\ pc = "write" /\ Unwritten
  /\ bytes_written + n <= Len(packet_buffer)
  /\ wire' = wire \o SubSeq(packet_buffer, bytes_written + 1, bytes_written + n)
  /\ bytes_written' = Advanced(n)
  /\ UNCHANGED <<vars, argumentVars, pc, body>>

\* The port fails, or takes longer than its timeout.
WriteFails ==
  /\ pc = "write" /\ Unwritten
  /\ pc' = "panicked"
  /\ UNCHANGED <<vars, argumentVars, body, bytes_written, wire>>

Finish ==
  /\ pc = "write" /\ ~Unwritten
  /\ pc' = "done"
  /\ UNCHANGED <<vars, argumentVars, body, bytes_written, wire>>

Proceed ==
  \/ Check \/ Build \/ TooLong \/ CopyBody
  \/ \E n \in 1..Len(packet_buffer) : Write(n)
  \/ Finish

CliNext == Proceed \/ WriteFails

\* The program runs, and a port that does not fail takes bytes now and then.
CliSpec == CliInit /\ [][CliNext]_cliVars /\ WF_cliVars(Proceed)

-------------------------------------------------------------------------------

\* The packet the arguments ask for, by the packet format and without masks.
Requested == <<16 * destination + source, Len(data)>> \o data

\* Whatever the port takes of each write, and wherever the program gives up,
\* the wire holds the beginning of the packet asked for: nothing is skipped or
\* repeated by a short write, no half-built header leaves, and wrong arguments
\* leave nothing at all on the line.
WireIsPrefix ==
  wire # <<>> =>
    /\ ArgumentsValid /\ LengthFits(Len(data))
    /\ Len(wire) <= Len(Requested)
    /\ wire = SubSeq(Requested, 1, Len(wire))

\* A program that ends without a panic has sent all of it.
DoneIsWhole == pc = "done" => wire = Requested

\* The loop ends: the program exits or panics.
SendEnds == <>(pc \in {"done", "panicked"})

===============================================================================
