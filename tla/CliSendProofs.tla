---------------------------- MODULE CliSendProofs ----------------------------
(***************************************************************************)
(* The header codec PacketWriter for all values of all fields, and what    *)
(* msmp-cli puts on the wire for all arguments and all data.  The          *)
(* invariant of the second says how far the packet has been built at each  *)
(* statement of main, and that bytes_written counts what is on the wire.   *)
(***************************************************************************)
EXTENDS CliSend, SequenceTheorems, TLAPS

-------------------------------------------------------------------------------
\* The setters of PacketWriter.

IInv == TypeOK /\ FieldsReadBack

\* Reading a byte gives fields in range.
LEMMA FieldRanges ==
  ASSUME NEW b \in U8
  PROVE  /\ destination_address(b) \in 0..15 /\ source_address(b) \in 0..15
         /\ message_length(b) \in 0..63 /\ message_type(b) \in 0..3
  BY DEF U8, destination_address, source_address, message_length, message_type

\* The address byte as a sum of its nibbles, and the length byte of its parts.
LEMMA Split ==
  ASSUME NEW b \in U8
  PROVE  /\ b = 16 * destination_address(b) + source_address(b)
         /\ b = 64 * message_type(b) + message_length(b)
  BY DEF U8, destination_address, source_address, message_length, message_type

\* And back.
LEMMA Join ==
  /\ \A d, s \in 0..15 : /\ 16 * d + s \in U8
                         /\ destination_address(16 * d + s) = d
                         /\ source_address(16 * d + s) = s
  /\ \A t \in 0..3, l \in 0..63 : /\ 64 * t + l \in U8
                                  /\ message_type(64 * t + l) = t
                                  /\ message_length(64 * t + l) = l
  BY DEF U8, destination_address, source_address, message_length, message_type

\* No bit of a field in range is pushed out.
LEMMA Shifts ==
  /\ \A v \in 0..15 : ShiftLeft(v, 4) = 16 * v
  /\ \A v \in 0..3 : ShiftLeft(v, 6) = 64 * v
  <1>1. 2^4 = 16 /\ 2^6 = 64
    OBVIOUS
  <1>2. QED
    BY <1>1 DEF ShiftLeft

-------------------------------------------------------------------------------

\* Whatever the buffer held, its fields are what they are.
LEMMA InitIInv == Init => IInv
  <1> SUFFICES ASSUME Init PROVE IInv
    OBVIOUS
  <1>1. b0 \in U8 /\ b1 \in U8
    BY FieldAssumption DEF Init
  <1>2. expected \in Header
    BY <1>1, FieldRanges DEF Init, Header, Decoded
  <1>3. QED
    BY <1>1, <1>2 DEF Init, IInv, TypeOK, FieldsReadBack

\* Each setter replaces one summand of its byte.
LEMMA NextIInv == IInv /\ [Next]_vars => IInv'
  <1> SUFFICES ASSUME IInv, [Next]_vars PROVE IInv'
    OBVIOUS
  <1> DEFINE d == destination_address(b0)
             s == source_address(b0)
             t == message_type(b1)
             l == message_length(b1)
  <1>0. /\ d \in 0..15 /\ s \in 0..15 /\ t \in 0..3 /\ l \in 0..63
        /\ b0 = 16 * d + s /\ b1 = 64 * t + l
    BY FieldRanges, Split DEF IInv, TypeOK
  <1>00. /\ b0 % 16 = s /\ b1 % 64 = l
         /\ expected = [destination |-> d, source |-> s, length |-> l, type |-> t]
    BY DEF IInv, FieldsReadBack, Decoded, source_address, message_length
  <1> HIDE DEF d, s, t, l
  <1>1. ASSUME NEW a \in Address, set_destination_address(a) PROVE IInv'
    <2>1. a \in 0..15
      BY FieldAssumption
    <2>2. b0' = 16 * a + s /\ b1' = 64 * t + l
      BY <1>0, <1>00, <1>1, <2>1, Shifts DEF set_destination_address, LowNibble
    <2>3. expected' = [destination |-> a, source |-> s, length |-> l, type |-> t]
      BY <1>1, <1>00 DEF set_destination_address
    <2>4. QED
      BY <1>0, <2>1, <2>2, <2>3, Join DEF IInv, TypeOK, FieldsReadBack, Decoded, Header
  <1>2. ASSUME NEW a \in Address, set_source_address(a) PROVE IInv'
    <2>1. a \in 0..15
      BY FieldAssumption
    <2>2. b0' = 16 * d + a /\ b1' = 64 * t + l
      BY <1>0, <1>00, <1>2, <2>1 DEF set_source_address, LowNibble
    <2>3. expected' = [destination |-> d, source |-> a, length |-> l, type |-> t]
      BY <1>2, <1>00 DEF set_source_address
    <2>4. QED
      BY <1>0, <2>1, <2>2, <2>3, Join DEF IInv, TypeOK, FieldsReadBack, Decoded, Header
  <1>3. ASSUME NEW n \in Length, set_message_length(n) PROVE IInv'
    <2>1. n \in 0..63
      BY <1>3, FieldAssumption DEF set_message_length, LengthFits
    <2>2. b0' = 16 * d + s /\ b1' = 64 * t + n
      BY <1>0, <1>00, <1>3, <2>1 DEF set_message_length
    <2>3. expected' = [destination |-> d, source |-> s, length |-> n, type |-> t]
      BY <1>3, <1>00 DEF set_message_length
    <2>4. QED
      BY <1>0, <2>1, <2>2, <2>3, Join DEF IInv, TypeOK, FieldsReadBack, Decoded, Header
  <1>4. ASSUME NEW v \in MessageType, set_message_type(v) PROVE IInv'
    <2>1. v \in 0..3
      BY FieldAssumption
    <2>2. b0' = 16 * d + s /\ b1' = 64 * v + l
      BY <1>0, <1>00, <1>4, <2>1, Shifts DEF set_message_type
    <2>3. expected' = [destination |-> d, source |-> s, length |-> l, type |-> v]
      BY <1>4, <1>00 DEF set_message_type
    <2>4. QED
      BY <1>0, <2>1, <2>2, <2>3, Join DEF IInv, TypeOK, FieldsReadBack, Decoded, Header
  <1>5. CASE UNCHANGED vars
    BY <1>5 DEF vars, IInv, TypeOK, FieldsReadBack, Decoded
  <1>6. QED
    BY <1>1, <1>2, <1>3, <1>4, <1>5 DEF Next

LEMMA WriterInvariance == Spec => []IInv
  BY InitIInv, NextIInv, PTL DEF Spec

\* Both header bytes stay bytes: no setter pushes a field into a ninth bit or
\* out of its own, whatever the order.
THEOREM TypeCorrect == Spec => []TypeOK
  <1>1. IInv => TypeOK
    BY DEF IInv
  <1>2. QED
    BY <1>1, WriterInvariance, PTL

\* Every field reads back as it was last written, for every buffer content,
\* every value and every order of the setters.
THEOREM ReadBack == Spec => []FieldsReadBack
  <1>1. IInv => FieldsReadBack
    BY DEF IInv
  <1>2. QED
    BY <1>1, WriterInvariance, PTL

-------------------------------------------------------------------------------
\* The send command.

\* Nothing has been written.
Silent == wire = <<>> /\ bytes_written = 0

\* The arguments are in range, and the body has the length of the data.
Checked == ArgumentsValid /\ body = [k \in DOMAIN data |-> 0]

\* The packet is the one asked for, and the wire holds its beginning.
Sent ==
  /\ ArgumentsValid /\ LengthFits(Len(data))
  /\ packet_buffer = Requested
  /\ bytes_written \in 0..Len(Requested)
  /\ wire = SubSeq(Requested, 1, bytes_written)

CliIInv ==
  /\ source \in U8 /\ destination \in U8 /\ data \in Seq(U8) \cup {BadHex}
  /\ pc \in Statement
  /\ pc = "check" => Silent /\ b0 = 0 /\ b1 = 0
  /\ pc = "source" => Silent /\ Checked /\ b0 = 0 /\ b1 = 0
  /\ pc = "destination" => Silent /\ Checked /\ b0 = source /\ b1 = 0
  /\ pc = "length" => Silent /\ Checked /\ b0 = 16 * destination + source /\ b1 = 0
  /\ pc \in {"type", "body"} =>
       /\ Silent /\ Checked /\ LengthFits(Len(data))
       /\ b0 = 16 * destination + source /\ b1 = Len(data)
  /\ pc = "write" => Sent
  /\ pc = "done" => Sent /\ bytes_written = Len(Requested)
  /\ pc = "panicked" => Silent \/ Sent

LEMMA CliInitially == CliInit => CliIInv
  BY ArgumentAssumption, DataAssumption DEF CliInit, CliIInv, Silent, Statement

\* With arguments that passed the checks, the data is bytes.
LEMMA ValidTypes ==
  ASSUME CliIInv, ArgumentsValid
  PROVE  /\ source \in 0..15 /\ destination \in 0..15
         /\ data \in Seq(U8) /\ Len(data) \in Nat
<1>1. data \in Seq(U8)
  BY DEF CliIInv, ArgumentsValid
<1>2. Len(data) \in Nat
  BY <1>1
<1> QED BY <1>1, <1>2 DEF CliIInv, ArgumentsValid, U8

\* The packet asked for has its length.
LEMMA RequestedType ==
  ASSUME CliIInv, ArgumentsValid
  PROVE  Requested \in Seq(Nat) /\ Len(Requested) = Len(data) + 2
<1>1. data \in Seq(Nat)
  <2>1. data \in Seq(U8) /\ U8 \subseteq Nat
    BY ValidTypes DEF U8
  <2> QED BY <2>1, SeqMonotonic
<1>2. <<16 * destination + source, Len(data)>> \in Seq(Nat)
  <2>1. source \in 0..15 /\ destination \in 0..15 /\ Len(data) \in Nat
    BY ValidTypes
  <2>2. 16 * destination + source \in Nat
    BY <2>1
  <2> QED BY <2>1, <2>2
<1>3. Len(<<16 * destination + source, Len(data)>>) = 2
  OBVIOUS
<1> QED BY <1>1, <1>2, <1>3 DEF Requested

\* A piece of a sequence and the piece behind it make one piece.
LEMMA Pieces ==
  ASSUME NEW S, NEW s \in Seq(S), NEW k \in 0..Len(s), NEW n \in Nat, k + n <= Len(s)
  PROVE  SubSeq(s, 1, k) \o SubSeq(s, k + 1, k + n) = SubSeq(s, 1, k + n)
  OBVIOUS

LEMMA BuildKeeps == ASSUME CliIInv, Build PROVE CliIInv'
<1> USE DEF Set, argumentVars
<1>0. UNCHANGED <<source, destination, data, body, bytes_written, wire>>
  BY DEF Build
<1>1. (Silent' <=> Silent) /\ (Checked' <=> Checked) /\ (ArgumentsValid' <=> ArgumentsValid)
  BY <1>0 DEF Silent, Checked, ArgumentsValid
<1>2. CASE Set("source", set_source_address(source), "destination")
  <2>1. source \in 0..15
    BY <1>2, ValidTypes DEF CliIInv, Checked
  <2>2. b0' = source /\ b1' = 0
    BY <1>2, <2>1 DEF CliIInv, set_source_address, LowNibble
  <2> QED BY <1>0, <1>1, <1>2, <2>2 DEF CliIInv, Statement
<1>3. CASE Set("destination", set_destination_address(destination), "length")
  <2>1. source \in 0..15 /\ destination \in 0..15 /\ b0 = source /\ b1 = 0
    BY <1>3, ValidTypes DEF CliIInv, Checked
  <2>2. b0' = ShiftLeft(destination, 4) + (b0 % 16) /\ b1' = b1
    BY <1>3 DEF set_destination_address, LowNibble
  <2>3. ShiftLeft(destination, 4) = 16 * destination /\ b0 % 16 = source
    BY <2>1, Shifts
  <2>4. b0' = 16 * destination + source /\ b1' = 0
    BY <2>1, <2>2, <2>3
  <2> QED BY <1>0, <1>1, <1>3, <2>4 DEF CliIInv, Statement
<1>4. CASE Set("length", set_message_length(Len(data)), "type")
  <2>1. Len(data) \in Nat
    BY <1>4, ValidTypes DEF CliIInv, Checked
  <2>2. b0' = b0 /\ b1' = Len(data) /\ LengthFits(Len(data))
    BY <1>4, <2>1 DEF CliIInv, set_message_length
  <2> QED BY <1>0, <1>1, <1>4, <2>2 DEF CliIInv, Statement, LengthFits
<1>5. CASE Set("type", set_message_type(0), "body")
  <2>1. ArgumentsValid /\ LengthFits(Len(data)) /\ b1 = Len(data)
    BY <1>5 DEF CliIInv, Checked
  <2>2. Len(data) \in Nat /\ Len(data) <= 63
    BY <2>1, ValidTypes DEF LengthFits
  <2>3. b0' = b0 /\ b1' = (b1 % 64) + ShiftLeft(0, 6)
    BY <1>5 DEF set_message_type
  <2>4. Len(data) % 64 = Len(data) /\ ShiftLeft(0, 6) = 0
    <3>1. \A n \in Nat : n <= 63 => n % 64 = n
      OBVIOUS
    <3>2. 0 \in 0..3 /\ 64 * 0 = 0
      OBVIOUS
    <3> QED BY <2>2, <3>1, <3>2, Shifts
  <2>5. b0' = b0 /\ b1' = Len(data)
    BY <2>1, <2>2, <2>3, <2>4
  <2> QED BY <1>0, <1>1, <1>5, <2>5 DEF CliIInv, Statement, LengthFits
<1> QED BY <1>2, <1>3, <1>4, <1>5 DEF Build

\* With the data in place, the buffer is the packet asked for.
LEMMA CopyBodyKeeps == ASSUME CliIInv, CopyBody PROVE CliIInv'
<1>0. UNCHANGED <<b0, b1, source, destination, data, bytes_written, wire>>
  BY DEF CopyBody, argumentVars, vars
<1>1. /\ Silent /\ ArgumentsValid /\ LengthFits(Len(data))
      /\ b0 = 16 * destination + source /\ b1 = Len(data)
  BY DEF CopyBody, CliIInv, Checked
<1>2. CASE message_length(b1) = Len(data)
  <2>1. pc' = "write" /\ body' = data
    BY <1>2 DEF CopyBody
  <2>2. packet_buffer' = Requested' /\ Requested' = Requested
    BY <1>0, <1>1, <2>1 DEF packet_buffer, Requested
  <2>3. Len(Requested) \in Nat /\ SubSeq(Requested, 1, 0) = <<>>
    BY <1>1, ValidTypes, RequestedType
  <2>4. Sent'
    BY <1>0, <1>1, <2>2, <2>3 DEF Sent, Silent, ArgumentsValid, LengthFits
  <2> QED BY <1>0, <2>1, <2>4 DEF CliIInv, Statement
<1>3. CASE message_length(b1) # Len(data)
  <2>1. pc' = "panicked" /\ Silent'
    BY <1>0, <1>1, <1>3 DEF CopyBody, Silent
  <2> QED BY <1>0, <2>1 DEF CliIInv, Statement
<1> QED BY <1>2, <1>3

\* A short write moves bytes_written by what the port took.
LEMMA WriteKeeps == ASSUME CliIInv, NEW n \in Nat, Write(n) PROVE CliIInv'
<1>0. UNCHANGED <<b0, b1, source, destination, data, body, pc>> /\ pc = "write"
  BY DEF Write, argumentVars, vars
<1>1. Sent
  BY <1>0 DEF CliIInv
<1>2. /\ bytes_written + n <= Len(Requested)
      /\ wire' = wire \o SubSeq(Requested, bytes_written + 1, bytes_written + n)
      /\ bytes_written' = bytes_written + n
  BY <1>1 DEF Write, Advanced, Sent
<1>3. Requested \in Seq(Nat) /\ Len(Requested) \in Nat
  BY <1>1, ValidTypes, RequestedType DEF Sent
<1>4. wire' = SubSeq(Requested, 1, bytes_written + n)
  BY <1>1, <1>2, <1>3, Pieces DEF Sent
<1>5. /\ packet_buffer' = packet_buffer /\ Requested' = Requested
      /\ ArgumentsValid' = ArgumentsValid
  BY <1>0 DEF packet_buffer, Requested, ArgumentsValid
<1>6. bytes_written + n \in 0..Len(Requested)
  BY <1>1, <1>2, <1>3 DEF Sent
<1>7. Sent'
  BY <1>0, <1>1, <1>2, <1>4, <1>5, <1>6 DEF Sent, LengthFits
<1> QED BY <1>0, <1>7 DEF CliIInv

LEMMA CliStepwise == CliIInv /\ [CliNext]_cliVars => CliIInv'
<1> SUFFICES ASSUME CliIInv, [CliNext]_cliVars PROVE CliIInv'
  OBVIOUS
\* The other steps change nothing but pc, and body in Check.
<1> DEFINE Same == UNCHANGED <<b0, b1, source, destination, data, bytes_written, wire>>
<1>1. ASSUME Same PROVE /\ Silent' <=> Silent
                        /\ ArgumentsValid' <=> ArgumentsValid
                        /\ Requested' = Requested
  BY <1>1 DEF Silent, ArgumentsValid, Requested
<1>2. ASSUME Same, UNCHANGED body
      PROVE  (Sent' <=> Sent) /\ (Checked' <=> Checked)
  BY <1>1, <1>2 DEF Sent, Checked, packet_buffer, LengthFits
<1>3. CASE Check
  <2>1. Same /\ pc = "check" /\ pc' \in {"source", "panicked"}
    BY <1>3 DEF Check, argumentVars, vars
  <2>2. pc' = "source" => Checked'
    BY <1>1, <1>3, <2>1 DEF Check, Checked
  <2> QED BY <1>1, <2>1, <2>2 DEF CliIInv, Statement
<1>4. CASE TooLong
  <2>1. Same /\ pc = "length" /\ pc' = "panicked"
    BY <1>4 DEF TooLong, argumentVars, vars
  <2> QED BY <1>1, <2>1 DEF CliIInv, Statement
<1>5. CASE WriteFails
  <2>1. Same /\ UNCHANGED body /\ pc = "write" /\ pc' = "panicked"
    BY <1>5 DEF WriteFails, argumentVars, vars
  <2> QED BY <1>1, <1>2, <2>1 DEF CliIInv, Statement
<1>6. CASE Finish
  <2>1. Same /\ UNCHANGED body /\ pc = "write" /\ pc' = "done" /\ ~Unwritten
    BY <1>6 DEF Finish, argumentVars, vars
  <2>2. Sent
    BY <2>1 DEF CliIInv
  <2>3. bytes_written = Len(Requested)
    <3>1. Len(Requested) \in Nat
      BY <2>2, ValidTypes, RequestedType DEF Sent
    <3> QED BY <2>1, <2>2, <3>1 DEF Unwritten, Sent
  <2> QED BY <1>1, <1>2, <2>1, <2>2, <2>3 DEF CliIInv, Statement
<1>7. CASE UNCHANGED cliVars
  <2>1. Same /\ UNCHANGED <<body, pc>>
    BY <1>7 DEF cliVars, argumentVars, vars
  <2> QED BY <1>1, <1>2, <2>1 DEF CliIInv
<1>8. ASSUME NEW n \in 1..Len(packet_buffer), Write(n) PROVE CliIInv'
  <2>1. n \in Nat
    OBVIOUS
  <2> QED BY <1>8, <2>1, WriteKeeps
<1> QED
  BY <1>3, <1>4, <1>5, <1>6, <1>7, <1>8, BuildKeeps, CopyBodyKeeps
  DEF CliNext, Proceed

LEMMA CliInvariance == CliSpec => []CliIInv
  BY CliInitially, CliStepwise, PTL DEF CliSpec

\* Wherever msmp-cli gives up, the wire holds the beginning of the packet asked
\* for, whatever the arguments, the data and the port's short writes.
THEOREM Prefix == CliSpec => []WireIsPrefix
<1>1. CliIInv => WireIsPrefix
  <2> SUFFICES ASSUME CliIInv, wire # <<>>
               PROVE  /\ ArgumentsValid /\ LengthFits(Len(data))
                      /\ Len(wire) <= Len(Requested)
                      /\ wire = SubSeq(Requested, 1, Len(wire))
    BY DEF WireIsPrefix
  <2>1. Sent
    BY DEF CliIInv, Silent, Statement
  <2>2. Requested \in Seq(Nat) /\ Len(Requested) \in Nat
    BY <2>1, ValidTypes, RequestedType DEF Sent
  <2>3. Len(wire) = bytes_written
    BY <2>1, <2>2 DEF Sent
  <2> QED BY <2>1, <2>2, <2>3 DEF Sent
<1> QED BY <1>1, CliInvariance, PTL

\* msmp-cli that ends without a panic has sent the whole packet.
THEOREM Whole == CliSpec => []DoneIsWhole
<1>1. CliIInv => DoneIsWhole
  <2> SUFFICES ASSUME CliIInv, pc = "done" PROVE wire = Requested
    BY DEF DoneIsWhole
  <2>1. Sent /\ bytes_written = Len(Requested)
    BY DEF CliIInv
  <2>2. Requested \in Seq(Nat) /\ Len(Requested) \in Nat
    BY <2>1, ValidTypes, RequestedType DEF Sent
  <2> QED BY <2>1, <2>2 DEF Sent
<1> QED BY <1>1, CliInvariance, PTL

===============================================================================
