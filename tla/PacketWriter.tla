----------------------------- MODULE PacketWriter -----------------------------
(***************************************************************************)
(* PacketWriter (msmp/src/packet.rs) sets the fields of a packet header in *)
(* place, in any order, in a buffer that may hold anything before (a pool  *)
(* buffer keeps the bytes of its last packet).  Two fields share a byte.   *)
(*                                                                         *)
(* A mask keeps a remainder or takes one away; an OR of disjoint bits is a *)
(* sum; a left shift of a u8 loses the bits it pushes out.                 *)
(***************************************************************************)
EXTENDS Packet

CONSTANTS
  Address,       \* Values of type Address.
  MessageType,   \* Values of type MessageType, as Into<u8> gives them.
  Length,        \* Lengths tried.
  OldByte        \* What a header byte may be at first.

\* Address::new and try_from refuse more than 0x0f, MessageType::try_from more
\* than 3.  (Reserved(4) can still be written down in Rust, and is set as
\* Normal.)
ASSUME FieldAssumption ==
  /\ Address \subseteq 0..15
  /\ MessageType \subseteq 0..3
  /\ Length \subseteq Nat
  /\ OldByte \subseteq U8

VARIABLES
  b0, b1,   \* The two header bytes.
  expected  \* History: what each field was last set to, or was at first.

vars == <<b0, b1, expected>>

Header == [destination : 0..15, source : 0..15, length : 0..63, type : 0..3]

\* What a PacketReader on the same buffer sees.
Decoded ==
  [destination |-> destination_address(b0), source |-> source_address(b0),
   length |-> message_length(b1), type |-> message_type(b1)]

Init == b0 \in OldByte /\ b1 \in OldByte /\ expected = Decoded

ShiftLeft(value, bits) == (value * 2^bits) % 256

\* Mistake: the low nibble is not kept.
NoNibble(byte) == 0

\* byte & 0x0f, the nibble that set_destination_address leaves alone.
LowNibble(byte) == byte % 16

set_destination_address(address) ==
  /\ b0' = ShiftLeft(address, 4) + LowNibble(b0)
  /\ expected' = [expected EXCEPT !.destination = address]
  /\ UNCHANGED b1

set_source_address(address) ==
  /\ b0' = address + (b0 - LowNibble(b0))
  /\ expected' = [expected EXCEPT !.source = address]
  /\ UNCHANGED b1

\* Mistake: the length is not checked.
AnyLength(length) == TRUE

LengthFits(length) == length <= 63

\* A length that does not fit the six bits is an error and sets nothing.
set_message_length(length) ==
  /\ LengthFits(length)
  /\ b1' = (b1 - (b1 % 64)) + length
  /\ expected' = [expected EXCEPT !.length = length]
  /\ UNCHANGED b0

set_message_type(type) ==
  /\ b1' = (b1 % 64) + ShiftLeft(type, 6)
  /\ expected' = [expected EXCEPT !.type = type]
  /\ UNCHANGED b0

Next ==
  \/ \E address \in Address :
       set_destination_address(address) \/ set_source_address(address)
  \/ \E length \in Length : set_message_length(length)
  \/ \E type \in MessageType : set_message_type(type)

Spec == Init /\ [][Next]_vars

\* A reader of the buffer gets back what was last written to each field, in
\* whatever order the fields were set: setting one never disturbs the other
\* that shares its byte, and what the buffer held before leaves no trace.
FieldsReadBack == Decoded = expected

-------------------------------------------------------------------------------

\* The header bytes are bytes: no field spills into a ninth bit.
TypeOK == b0 \in U8 /\ b1 \in U8 /\ expected \in Header

===============================================================================
