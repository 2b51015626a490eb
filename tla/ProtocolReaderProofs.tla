------------------------- MODULE ProtocolReaderProofs -------------------------
(***************************************************************************)
(* Safety of ProtocolReader for every buffer size, every stream and every  *)
(* way of chunking it: no index leaves the buffer, the bytes held are the  *)
(* last bytes of the stream, and a completed reader holds one frame.       *)
(***************************************************************************)
EXTENDS ProtocolReader, SequenceTheorems, TLAPS

\* The body bytes received so far are free of sync bytes: what makes a frame
\* complete is then only its length.
BodyIsClean ==
  state \in {"Data", "Completed"} =>
    \A i \in 2..(position - 1) : buffer[i] # SYNC

IInv ==
  /\ TypeOK
  /\ HeldIsStreamSuffix
  /\ DeliveredIsFrame
  /\ BodyIsClean

-------------------------------------------------------------------------------

\* The length field has six bits.
LEMMA LengthIsShort == \A b \in Byte : message_length(b) \in 0..63
  BY ByteAssumption DEF message_length, U8

\* A frame has at least its header.
LEMMA EndType == TypeOK => End \in Nat /\ End >= 2
  <1> SUFFICES ASSUME TypeOK PROVE End \in Nat /\ End >= 2
    OBVIOUS
  <1>1. buffer[1] \in Byte
    BY BufferSizeAssumption DEF TypeOK, Index, MinRaw
  <1>2. message_length(buffer[1]) \in 0..63
    BY <1>1, LengthIsShort
  <1>3. QED
    BY <1>2 DEF End

\* Both reads of read_inner stay inside the buffer.
LEMMA ReadsFit ==
  ASSUME TypeOK, \/ AwaitingHeader /\ position <= 2
                 \/ BodyExpected
  PROVE  /\ Wanted \in Nat
         /\ position + Wanted <= BUFFER_SIZE
         /\ position + Wanted = IF state = "Data" THEN End ELSE 2
  BY EndType, BufferSizeAssumption
     DEF TypeOK, Wanted, AwaitingHeader, BodyExpected, Fits, AwaitingData, MinRaw

\* What a read leaves in the buffer.
LEMMA FillIs ==
  ASSUME TypeOK, NEW data \in Seq(Byte), position + Len(data) <= BUFFER_SIZE
  PROVE  /\ Fill(data) \in [Index -> Byte]
         /\ \A k \in 0..(position - 1) : Fill(data)[k] = buffer[k]
         /\ \A k \in position..(position + Len(data) - 1) :
              Fill(data)[k] = data[k - position + 1]
  BY BufferSizeAssumption DEF TypeOK, Fill, Index

\* Reading data behind the bytes held keeps them the end of the stream.
LEMMA SuffixGrows ==
  ASSUME TypeOK, HeldIsStreamSuffix, NEW data \in Seq(Byte),
         position + Len(data) <= BUFFER_SIZE,
         Take(data), buffer' = Fill(data), position' = position + Len(data)
  PROVE  HeldIsStreamSuffix'
  <1>1. /\ Len(consumed') = Len(consumed) + Len(data)
        /\ \A k \in 1..Len(consumed) : consumed'[k] = consumed[k]
        /\ \A k \in 1..Len(data) : consumed'[Len(consumed) + k] = data[k]
    BY DEF Take, TypeOK
  <1>2. ASSUME NEW k \in 0..(position' - 1)
        PROVE  buffer'[k] = consumed'[Len(consumed') - position' + 1 + k]
    <2>1. CASE k < position
      BY <1>1, <2>1, FillIs DEF HeldIsStreamSuffix, TypeOK
    <2>2. CASE k >= position
      <3>1. k - position + 1 \in 1..Len(data)
        BY <2>2 DEF TypeOK
      <3>2. buffer'[k] = data[k - position + 1]
        BY <2>2, FillIs DEF TypeOK
      <3>3. Len(consumed') - position' + 1 + k = Len(consumed) + (k - position + 1)
        BY <1>1 DEF TypeOK
      <3>4. QED
        BY <1>1, <3>1, <3>2, <3>3
    <2>3. QED
      BY <2>1, <2>2 DEF TypeOK
  <1>3. QED
    BY <1>1, <1>2 DEF HeldIsStreamSuffix, TypeOK

\* What is left of a sequence.
LEMMA RestIs ==
  ASSUME NEW S, NEW s \in Seq(S), NEW n \in 0..Len(s)
  PROVE  /\ SubSeq(s, n + 1, Len(s)) \in Seq(S)
         /\ Len(SubSeq(s, n + 1, Len(s))) = Len(s) - n
         /\ \A k \in 1..(Len(s) - n) : SubSeq(s, n + 1, Len(s))[k] = s[n + k]
<1>1. \A k \in (n + 1)..Len(s) : s[k] \in S
  OBVIOUS
<1>2. n + 1 \in Int /\ Len(s) \in Int /\ n <= Len(s)
  OBVIOUS
<1> DEFINE t == SubSeq(s, n + 1, Len(s))
<1>3. /\ t \in Seq(S)
      /\ Len(t) = IF n + 1 <= Len(s) THEN Len(s) - (n + 1) + 1 ELSE 0
      /\ \A k \in 1..(Len(s) - (n + 1) + 1) : t[k] = s[(n + 1) + k - 1]
  BY <1>1, <1>2, SubSeqProperties
<1> HIDE DEF t
<1>4. Len(t) = Len(s) - n
  BY <1>2, <1>3
<1>5. ASSUME NEW k \in 1..(Len(s) - n) PROVE t[k] = s[n + k]
  <2>1. k \in 1..(Len(s) - (n + 1) + 1) /\ (n + 1) + k - 1 = n + k
    BY <1>2
  <2> QED BY <1>3, <2>1
<1> QED BY <1>3, <1>4, <1>5 DEF t

\* An answer to MayGive is a short enough sequence.
LEMMA AnswerType ==
  ASSUME NEW n \in Nat, NEW data \in [1..n -> Byte]
  PROVE  data \in Seq(Byte) /\ Len(data) = n
  OBVIOUS

-------------------------------------------------------------------------------

\* A new reader.
LEMMA InitIInv == Init => IInv
  <1> SUFFICES ASSUME Init PROVE IInv
    OBVIOUS
  <1>1. TypeOK
    BY ByteAssumption, BufferSizeAssumption
       DEF Init, TypeOK, SYNC, MinRaw, ReaderState, Returned
  <1>2. HeldIsStreamSuffix
    BY DEF Init, HeldIsStreamSuffix
  <1>3. QED
    BY <1>1, <1>2 DEF Init, IInv, DeliveredIsFrame, BodyIsClean

\* Calling read, or recycling the buffer, touches no byte.
LEMMA CallIInv == IInv /\ (Call \/ Recycle \/ UNCHANGED vars) => IInv'
  <1> SUFFICES ASSUME IInv, Call \/ Recycle \/ UNCHANGED vars PROVE IInv'
    OBVIOUS
  <1> USE DEF IInv, TypeOK, HeldIsStreamSuffix, DeliveredIsFrame, BodyIsClean, End
  <1>1. CASE Call
    BY <1>1 DEF Call
  <1>2. CASE Recycle
    BY <1>2, BufferSizeAssumption DEF Recycle, ReaderState, Returned, MinRaw
  <1>3. CASE UNCHANGED vars
    BY <1>3 DEF vars
  <1>4. QED
    BY <1>1, <1>2, <1>3

\* The iterations that stop before they read.
LEMMA RefuseIInv == IInv /\ Refuse => IInv'
  <1> SUFFICES ASSUME IInv, Refuse PROVE IInv'
    OBVIOUS
  <1> USE DEF IInv, TypeOK, HeldIsStreamSuffix, DeliveredIsFrame, BodyIsClean, End
  <1>1. CASE Panic
    BY <1>1 DEF Panic, Panicked
  <1>2. CASE InsufficientBuffer
    BY <1>2, BufferSizeAssumption DEF InsufficientBuffer, ReaderState, Returned, MinRaw
  <1>3. QED
    BY <1>1, <1>2 DEF Refuse

-------------------------------------------------------------------------------

\* The iterations that store what they read.
LEMMA StoreIInv ==
  ASSUME IInv, NEW data \in Seq(Byte), Len(data) <= Wanted, Store(data)
  PROVE  IInv'
  <1> USE DEF IInv
  <1>1. ASSUME ReadHeader(data), position + Len(data) < 2 PROVE IInv'
    <2>1. /\ position' = Len(data) /\ state' = "Header" /\ call' = "Ok(false)"
          /\ Take(data) /\ buffer' = Fill(data)
      BY <1>1 DEF ReadHeader, HeaderHeld, Outcome, Verdict
    <2>2. position + Len(data) <= BUFFER_SIZE
      BY <1>1, BufferSizeAssumption DEF MinRaw, TypeOK
    <2>3. Fill(data) \in [Index -> Byte]
      BY <2>2, FillIs
    <2>4. consumed' \in Seq(Byte)
      BY <2>1 DEF Take, TypeOK
    <2>5. TypeOK'
      BY <1>1, <2>1, <2>2, <2>3, <2>4, BufferSizeAssumption
         DEF TypeOK, ReaderState, Returned, MinRaw
    <2>6. HeldIsStreamSuffix'
      <3>1. CASE position' = position + Len(data)
        BY <2>1, <2>2, <3>1, SuffixGrows
      <3>2. CASE position' # position + Len(data)
        BY <1>1, <2>1, <2>4, <3>2 DEF TypeOK, HeldIsStreamSuffix
      <3>3. QED
        BY <3>1, <3>2
    <2>7. QED
      BY <2>1, <2>5, <2>6 DEF DeliveredIsFrame, BodyIsClean
  <1>2. ASSUME ReadHeader(data), ~(position + Len(data) < 2) PROVE IInv'
    <2>1. position + Len(data) = 2 /\ position + Len(data) <= BUFFER_SIZE
      BY <1>2, ReadsFit, BufferSizeAssumption
         DEF ReadHeader, AwaitingHeader, Wanted, MinRaw, TypeOK
    <2>2. /\ position' = 2 /\ state' = "Data" /\ call' = "reading"
          /\ Take(data) /\ buffer' = Fill(data)
      BY <1>2 DEF ReadHeader, Outcome, Verdict
    <2>3. Fill(data) \in [Index -> Byte]
      BY <2>1, FillIs
    <2>4. TypeOK'
      BY <2>1, <2>2, <2>3 DEF Take, TypeOK, ReaderState
    <2>5. HeldIsStreamSuffix'
      BY <2>1, <2>2, SuffixGrows
    <2>6. QED
      BY <2>2, <2>4, <2>5 DEF DeliveredIsFrame, BodyIsClean
  <1>3. CASE BodyBytes(data)
    <2>1. position + Len(data) <= End /\ position + Len(data) <= BUFFER_SIZE
      <3>1. BodyExpected
        BY <1>3 DEF BodyBytes
      <3>2. Wanted \in Nat /\ position + Wanted = End /\ End <= BUFFER_SIZE
        BY <3>1, ReadsFit DEF BodyExpected, Fits, AwaitingData
      <3>3. QED
        BY <3>2, EndType, BufferSizeAssumption DEF TypeOK
    <2>2. Fill(data) \in [Index -> Byte]
      BY <2>1, FillIs
    <2>3. state = "Data" /\ position >= 2 /\ Index' = Index
      BY <1>3 DEF BodyBytes, BodyExpected, AwaitingData, TypeOK
    <2>0. /\ position' = position + Len(data) /\ buffer' = Fill(data) /\ Take(data)
          /\ state' = IF position + Len(data) = End THEN "Completed" ELSE "Data"
          /\ call' \in {"Ok(true)", "Ok(false)", "reading"}
      BY <1>3 DEF BodyBytes, Outcome, Verdict
    <2>4. TypeOK'
      BY <2>0, <2>1, <2>2, <2>3 DEF Take, TypeOK, ReaderState, Returned
    <2>5. HeldIsStreamSuffix'
      BY <2>0, <2>1, SuffixGrows
    <2>6. BodyIsClean'
      <3>1. ASSUME NEW k \in 2..(position' - 1) PROVE buffer'[k] # SYNC
        <4>1. CASE k < position
          BY <2>0, <2>1, <2>3, <4>1, FillIs DEF BodyIsClean, TypeOK
        <4>2. CASE k >= position
          <5>1. k - position + 1 \in 1..Len(data)
            BY <2>0, <4>2 DEF TypeOK
          <5>2. buffer'[k] = data[k - position + 1]
            BY <2>0, <2>1, <4>2, FillIs DEF TypeOK
          <5>3. QED
            BY <1>3, <5>1, <5>2 DEF BodyBytes, NoSync
        <4>3. QED
          BY <4>1, <4>2 DEF TypeOK
      <3>2. QED
        BY <3>1 DEF BodyIsClean
    <2>7. End' = End
      <3>1. buffer'[1] = buffer[1]
        BY <2>0, <2>1, <2>3, FillIs DEF TypeOK
      <3>2. QED
        BY <3>1 DEF End
    <2>8. DeliveredIsFrame'
      BY <2>0, <2>3, <2>6, <2>7 DEF DeliveredIsFrame, BodyIsClean
    <2>9. QED
      BY <2>4, <2>5, <2>6, <2>8
  <1>4. ASSUME NEW j \in 1..Len(data), Resync(data, j) PROVE IInv'
    <2> DEFINE rest == Len(data) - j
    <2>1. Len(data) <= BUFFER_SIZE /\ position + Len(data) <= BUFFER_SIZE
      <3>1. BodyExpected
        BY <1>4 DEF Resync
      <3>2. Wanted \in Nat /\ position + Wanted <= BUFFER_SIZE
        BY <3>1, ReadsFit
      <3>3. QED
        BY <3>2, BufferSizeAssumption DEF TypeOK
    <2>2. rest \in Nat /\ rest < Len(data) /\ position' = rest
      BY <1>4 DEF Resync, Outcome
    <2>3. buffer' = [k \in Index |-> IF k < rest THEN data[j + 1 + k] ELSE Fill(data)[k]]
      BY <1>4 DEF Resync, CopyFrom
    <2>4. buffer' \in [Index -> Byte]
      <3>1. ASSUME NEW k \in Index, k < rest PROVE data[j + 1 + k] \in Byte
        <4>1. j + 1 + k \in 1..Len(data)
          BY <2>2, <3>1, BufferSizeAssumption DEF Index
        <4>2. QED
          BY <4>1
      <3>2. QED
        BY <2>1, <2>3, <3>1, FillIs
    <2>5. \A k \in 0..(rest - 1) : buffer'[k] = data[j + 1 + k]
      BY <2>1, <2>2, <2>3, BufferSizeAssumption DEF Index
    <2>6. TypeOK'
      <3>1. position' \in 0..BUFFER_SIZE
        BY <2>1, <2>2, BufferSizeAssumption
      <3>2. consumed' \in Seq(Byte)
        BY <1>4 DEF Resync, Take, TypeOK
      <3>3. /\ state' = IF rest < 2 THEN "Header" ELSE "Data"
            /\ call' = "Ok(false)"
        BY <1>4 DEF Resync, Outcome, Verdict
      <3>4. QED
        BY <2>2, <2>4, <3>1, <3>2, <3>3 DEF TypeOK, ReaderState, Returned
    <2>7. HeldIsStreamSuffix'
      <3>1. /\ Len(consumed') = Len(consumed) + Len(data)
            /\ \A k \in 1..Len(data) : consumed'[Len(consumed) + k] = data[k]
        BY <1>4 DEF Resync, Take, TypeOK
      <3>2. ASSUME NEW k \in 0..(position' - 1)
            PROVE  buffer'[k] = consumed'[Len(consumed') - position' + 1 + k]
        <4>1. Len(consumed') - position' + 1 + k = Len(consumed) + (j + 1 + k)
          BY <2>2, <3>1 DEF TypeOK
        <4>2. j + 1 + k \in 1..Len(data)
          BY <2>2
        <4>3. QED
          BY <2>2, <2>5, <3>1, <4>1, <4>2
      <3>3. QED
        BY <2>2, <3>1, <3>2 DEF HeldIsStreamSuffix, TypeOK
    <2>8. BodyIsClean'
      <3>1. ASSUME NEW k \in 2..(position' - 1) PROVE buffer'[k] # SYNC
        <4>1. j + 1 + k \in (j + 1)..Len(data) /\ k \in 0..(rest - 1)
          BY <2>2
        <4>2. QED
          BY <1>4, <2>5, <4>1 DEF Resync
      <3>2. QED
        BY <3>1 DEF BodyIsClean
    <2>9. QED
      BY <1>4, <2>6, <2>7, <2>8 DEF Resync, Outcome, DeliveredIsFrame
  <1>5. QED
    BY <1>1, <1>2, <1>3, <1>4 DEF Store

\* A failing stream writes only behind the bytes held.
LEMMA FailIInv ==
  ASSUME IInv, NEW data \in Seq(Byte), Len(data) <= Wanted, StreamFails(data)
  PROVE  IInv'
  <1> USE DEF IInv
  <1>1. position + Len(data) <= BUFFER_SIZE
    <2>1. Wanted \in Nat /\ position + Wanted <= BUFFER_SIZE
      BY ReadsFit DEF StreamFails
    <2>2. QED
      BY <2>1, BufferSizeAssumption DEF TypeOK
  <1>2. /\ buffer' \in [Index -> Byte]
        /\ \A k \in 0..(position - 1) : buffer'[k] = buffer[k]
    BY <1>1, FillIs DEF StreamFails
  <1>3. UNCHANGED <<position, state, consumed>> /\ call' = "ReaderError"
    BY DEF StreamFails
  <1>4. TypeOK'
    BY <1>2, <1>3 DEF TypeOK, Returned
  <1>5. HeldIsStreamSuffix'
    BY <1>2, <1>3 DEF HeldIsStreamSuffix
  <1>6. BodyIsClean'
    BY <1>2, <1>3 DEF BodyIsClean, TypeOK
  <1>7. DeliveredIsFrame'
    <2>1. ASSUME state = "Completed" PROVE End' = End
      <3>1. position >= 2
        BY <2>1, EndType DEF DeliveredIsFrame
      <3>2. buffer'[1] = buffer[1]
        BY <1>2, <3>1 DEF TypeOK
      <3>3. QED
        BY <3>2 DEF End
    <2>2. QED
      BY <1>3, <1>6, <2>1 DEF DeliveredIsFrame, BodyIsClean
  <1>8. QED
    BY <1>4, <1>5, <1>6, <1>7

\* The invariant is inductive.
LEMMA NextIInv == IInv /\ [Next]_vars => IInv'
  <1> SUFFICES ASSUME IInv, [Next]_vars PROVE IInv'
    OBVIOUS
  <1>1. CASE Call \/ Recycle \/ UNCHANGED vars
    BY <1>1, CallIInv
  <1>2. CASE Refuse
    BY <1>2, RefuseIInv
  <1>3. CASE \E n \in 0..MaxRead :
               MayGive(n) /\ \E data \in [1..n -> Byte] : Store(data)
    <2>1. PICK n \in 0..MaxRead : MayGive(n) /\ \E data \in [1..n -> Byte] : Store(data)
      BY <1>3
    <2>2. PICK data \in [1..n -> Byte] : Store(data)
      BY <2>1
    <2>3. data \in Seq(Byte) /\ Len(data) <= Wanted
      BY <2>1, BoundAssumption, AnswerType DEF MayGive
    <2>4. QED
      BY <2>2, <2>3, StoreIInv
  <1>4. CASE Fail
    <2>1. PICK n \in 0..MaxScratch :
                 n <= Wanted /\ \E data \in [1..n -> Byte] : StreamFails(data)
      BY <1>4 DEF Fail
    <2>2. PICK data \in [1..n -> Byte] : StreamFails(data)
      BY <2>1
    <2>3. data \in Seq(Byte) /\ Len(data) <= Wanted
      BY <2>1, BoundAssumption, AnswerType
    <2>4. QED
      BY <2>2, <2>3, FailIInv
  <1>5. QED
    BY <1>1, <1>2, <1>3, <1>4 DEF Next, Iterate

\* The invariant holds in every behaviour.
LEMMA Invariance == Spec => []IInv
  BY InitIInv, NextIInv, PTL DEF Spec

\* Types, and with them the bounds of the buffer.
THEOREM TypeCorrect == Spec => []TypeOK
  BY Invariance, PTL DEF IInv

\* The reader holds the last bytes of the stream, whatever the stream, its
\* chunking, its failures and the resynchronisations.
THEOREM StreamSuffix == Spec => []HeldIsStreamSuffix
  BY Invariance, PTL DEF IInv

\* A completed reader holds one well-formed frame.
THEOREM FrameDelivered == Spec => []DeliveredIsFrame
  BY Invariance, PTL DEF IInv

===============================================================================
