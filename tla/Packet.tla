-------------------------------- MODULE Packet --------------------------------
(***************************************************************************)
(* The two header bytes of an MSMP packet (msmp/src/packet.rs):            *)
(*                                                                         *)
(*   byte 0 : destination address (high nibble), source address (low)      *)
(*   byte 1 : message type (top two bits), message length (low six bits)   *)
(*                                                                         *)
(* The Rust code reads and writes the fields with masks and shifts on u8.  *)
(* Here a mask is a remainder, a right shift a quotient, and a left shift  *)
(* a product that keeps its low eight bits.                                *)
(***************************************************************************)
EXTENDS Naturals

U8 == 0..255

\* The byte ProtocolReader looks for in a body to find the next frame.
SYNC == 0

(***************************************************************************)
(* PacketReader                                                            *)
(***************************************************************************)

destination_address(b0) == b0 \div 16
source_address(b0) == b0 % 16
message_length(b1) == b1 % 64
message_type(b1) == b1 \div 64

\* PacketReader::try_new refuses fewer bytes than this.
MinRaw == 3

===============================================================================
