--------------------------- MODULE FramedLinkProofs ---------------------------
(***************************************************************************)
(* The link of a sender and a ProtocolReader, for every set of frames, any *)
(* number of frames and cuts, and every way reads cut the stream.  The     *)
(* proofs tell the whole stream (what was read and what is in the channel) *)
(* as a log of attempts to send a frame, each written in full or cut off,  *)
(* and say at which attempt the reader is.                                 *)
(***************************************************************************)
EXTENDS FramedLink, ProtocolReaderProofs

\* The whole stream; the bytes at its end that belong to a frame not yet
\* written in full; and where that frame starts.
Stream == consumed \o wire
Unfinished == IF written < Len(frame) THEN written ELSE 0
Start == Len(Stream) - Unfinished

\* An attempt ends at a place of the stream; so many frames were sent in full
\* up to there.
Attempt == [frame : Frame, end : Nat, through : Nat, cut : BOOLEAN]

Mark(log, k) == IF k = 0 THEN 0 ELSE log[k].end
Through(log, k) == IF k = 0 THEN 0 ELSE log[k].through

\* What an attempt has put into the stream, apart from its frame's bytes.
Ends(log) ==
  \A k \in 1..Len(log) :
    IF log[k].cut
    THEN /\ cuts > 0
         /\ Stream[log[k].end] = SYNC
         /\ log[k].end >= Mark(log, k - 1) + 3
         /\ log[k].end <= Mark(log, k - 1) + Len(log[k].frame)
         /\ log[k].through = Through(log, k - 1)
    ELSE /\ log[k].end = Mark(log, k - 1) + Len(log[k].frame)
         /\ log[k].through = Through(log, k - 1) + 1
         /\ sent[log[k].through] = log[k].frame

\* The frame that comes after attempt k, and how much of it.
Coming(log, k) == IF k = Len(log) THEN frame ELSE log[k + 1].frame

Fragment(log, k) ==
  IF k = Len(log) THEN Unfinished
  ELSE IF log[k + 1].cut THEN log[k + 1].end - Mark(log, k) - 1
  ELSE Len(log[k + 1].frame)

FrameBytes(log) ==
  \A k \in 0..Len(log) : \A i \in 1..Fragment(log, k) :
    Stream[Mark(log, k) + i] = Coming(log, k)[i]

\* Attempts follow each other, and between two that differ in the number of
\* frames sent in full there is such a frame.
Ordered(log) ==
  \A i, j \in 0..Len(log) : i < j =>
    /\ Mark(log, i) + 2 <= Mark(log, j)
    /\ Through(log, i) <= Through(log, j)
    /\ Through(log, i) # Through(log, j) => \E k \in (i + 1)..j : ~log[k].cut

CutsCounted(log) ==
  \A k, l \in 1..Len(log) : log[k].cut /\ log[l].cut /\ k # l => cuts > 1

\* Frames without a sync byte in their header.
NoFrameHasSync == \A f \in Frame : NoSync(f)

SyncsAreCuts(log) ==
  NoFrameHasSync =>
    \A p \in 1..Start : Stream[p] = SYNC =>
      \E k \in 1..Len(log) : log[k].cut /\ log[k].end = p

Log(log) ==
  /\ log \in Seq(Attempt)
  /\ Mark(log, Len(log)) = Start
  /\ Through(log, Len(log)) = Len(sent)
  /\ Ends(log) /\ FrameBytes(log) /\ Ordered(log) /\ CutsCounted(log) /\ SyncsAreCuts(log)

\* The reader holds the start of an attempt, having delivered every frame that
\* was sent in full before it.
At(log, k) ==
  /\ Mark(log, k) = Len(consumed) - position
  /\ Through(log, k) = Len(delivered)
  /\ position <= Fragment(log, k)

\* A resynchronisation left more than one frame in the buffer: the next
\* iteration panics.  (Until then no more was delivered than sent.)
Overrun ==
  /\ state = "Data" /\ position > End /\ Fits
  /\ cuts > 0
  /\ Len(delivered) <= Len(sent)

\* What a reader can tell a sync byte that ends a cut from others by.  With
\* several cuts, a frame sent in full between two of them must not fit into
\* the chunk in which the reader looks for the last sync byte.
Distinct ==
  /\ NoFrameHasSync
  /\ MaxCuts <= 1 \/ \A f, g \in Frame : Len(f) < Len(g) + 6

Tellable == cuts = 0 \/ Distinct

LinkTypes ==
  /\ frame \in Frame \cup {<<>>} /\ written \in 0..Len(frame)
  /\ wire \in Seq(Byte)
  /\ cuts \in Nat /\ cuts <= MaxCuts
  /\ sent \in Seq(Frame)
  /\ delivered \in Seq(Seq(Byte))

LinkIInv ==
  /\ IInv /\ LinkTypes /\ PanicsOnlyByCut
  /\ state = "Completed" <=> call = "Ok(true)"
  /\ \E log \in Seq(Attempt) :
       Log(log) /\ (Tellable => Overrun \/ \E k \in 0..Len(log) : At(log, k))

-------------------------------------------------------------------------------

LEMMA FrameIs ==
  ASSUME NEW f \in Frame
  PROVE  /\ f \in Seq(Byte) /\ f # <<>>
         /\ Len(f) \in Nat /\ Len(f) >= 2 /\ Len(f) <= BUFFER_SIZE
         /\ message_length(f[2]) + 2 = Len(f)
         /\ \A i \in 3..Len(f) : f[i] # SYNC
<1>1. Len(f) \in 2..BUFFER_SIZE /\ f \in Seq(Byte)
  BY FrameAssumption
<1> QED BY <1>1, FrameAssumption, BufferSizeAssumption

LEMMA Regrouped ==
  ASSUME NEW s \in Seq(Byte), NEW t \in Seq(Byte), NEW u \in Seq(Byte)
  PROVE  (s \o t) \o u = s \o (t \o u)
<1>1. /\ Len(s) \in Nat /\ Len(t) \in Nat /\ Len(u) \in Nat
      /\ s \o t \in Seq(Byte) /\ t \o u \in Seq(Byte)
      /\ Len(s \o t) = Len(s) + Len(t) /\ Len(t \o u) = Len(t) + Len(u)
  BY ConcatProperties
<1> DEFINE v == (s \o t) \o u
           w == s \o (t \o u)
<1>2. v \in Seq(Byte) /\ w \in Seq(Byte) /\ Len(v) = Len(s) + Len(t) + Len(u) /\ Len(w) = Len(v)
  BY <1>1, ConcatProperties
<1>3. ASSUME NEW i \in 1..Len(v) PROVE v[i] = w[i]
  BY <1>1, <1>2, ConcatProperties
<1> HIDE DEF v, w
<1>4. v = w
  BY <1>2, <1>3, SeqEqual
<1> QED BY <1>4 DEF v, w

\* What the reader takes from the channel is what comes next in the stream.
LEMMA ReadsStream ==
  ASSUME consumed \in Seq(Byte), wire \in Seq(Byte), NEW n \in 0..Len(wire),
         consumed' = consumed \o SubSeq(wire, 1, n), wire' = SubSeq(wire, n + 1, Len(wire))
  PROVE  /\ Stream' = Stream /\ wire' \in Seq(Byte)
         /\ SubSeq(wire, 1, n) \in Seq(Byte) /\ Len(SubSeq(wire, 1, n)) = n
         /\ \A i \in 1..n : SubSeq(wire, 1, n)[i] = Stream[Len(consumed) + i]
         /\ Len(consumed) + n <= Len(Stream)
<1> DEFINE d == SubSeq(wire, 1, n)
           r == SubSeq(wire, n + 1, Len(wire))
<1>1. r \in Seq(Byte) /\ Len(wire) \in Nat /\ Len(consumed) \in Nat
  BY RestIs
<1>2. d \in Seq(Byte) /\ Len(d) = n /\ \A i \in 1..n : d[i] = wire[i]
  <2>1. \A i \in 1..n : wire[i] \in Byte
    OBVIOUS
  <2> QED BY <2>1, SubSeqProperties
<1>3. d \o r = wire
  <2>1. 1 \in 1..(Len(wire) + 1) /\ n \in (1 - 1)..Len(wire) /\ Len(wire) \in n..Len(wire)
    BY <1>1
  <2>2. d \o r = SubSeq(wire, 1, Len(wire))
    BY <2>1, ConcatAdjacentSubSeq
  <2> QED BY <2>2, SubSeqFull
<1> HIDE DEF d, r
<1>4. (consumed \o d) \o r = consumed \o wire
  <2>1. r \in Seq(Byte)
    BY <1>1 DEF r
  <2> QED BY <1>2, <1>3, <2>1, Regrouped
<1>5. /\ Len(Stream) = Len(consumed) + Len(wire)
      /\ \A i \in 1..Len(wire) : Stream[Len(consumed) + i] = wire[i]
  BY DEF Stream
<1>6. \A i \in 1..n : d[i] = Stream[Len(consumed) + i]
  <2>1. \A i \in 1..n : i \in 1..Len(wire)
    BY <1>1
  <2> QED BY <1>2, <1>5, <2>1
<1>7. Stream' = Stream
  BY <1>4 DEF Stream, d, r
<1> QED BY <1>1, <1>2, <1>5, <1>6, <1>7 DEF d, r

\* Where the bytes held are in the stream.
LEMMA HeldInStream ==
  ASSUME IInv, LinkTypes
  PROVE  /\ Stream \in Seq(Byte) /\ Len(Stream) \in Nat
         /\ Len(Stream) = Len(consumed) + Len(wire)
         /\ Len(consumed) \in Nat /\ Len(wire) \in Nat
         /\ position \in Nat /\ position <= Len(consumed)
         /\ \A i \in 1..position :
              buffer[i - 1] = Stream[Len(consumed) - position + i]
<1>1. /\ consumed \in Seq(Byte) /\ wire \in Seq(Byte) /\ position \in Nat
      /\ position <= Len(consumed)
  BY BufferSizeAssumption DEF IInv, TypeOK, LinkTypes, HeldIsStreamSuffix
<1>2. /\ Stream \in Seq(Byte) /\ Len(Stream) = Len(consumed) + Len(wire)
      /\ Len(consumed) \in Nat /\ Len(wire) \in Nat
      /\ \A i \in 1..Len(consumed) : Stream[i] = consumed[i]
  BY <1>1 DEF Stream
<1>3. ASSUME NEW i \in 1..position PROVE buffer[i - 1] = Stream[Len(consumed) - position + i]
  <2>1. i - 1 \in 0..(position - 1) /\ Len(consumed) - position + i \in 1..Len(consumed)
    BY <1>1, <1>2
  <2>2. buffer[i - 1] = consumed[Len(consumed) - position + 1 + (i - 1)]
    BY <2>1 DEF IInv, HeldIsStreamSuffix
  <2>3. Len(consumed) - position + 1 + (i - 1) = Len(consumed) - position + i
    BY <1>1, <1>2
  <2> QED BY <1>2, <2>1, <2>2, <2>3
<1> QED BY <1>1, <1>2, <1>3

\* The part of a frame that is in the stream.
LEMMA FragmentIs ==
  ASSUME IInv, LinkTypes, NEW log, Log(log), NEW k \in 0..Len(log)
  PROVE  /\ Len(log) \in Nat /\ Mark(log, k) \in Nat /\ Through(log, k) \in Nat
         /\ Fragment(log, k) \in Nat
         /\ Len(Coming(log, k)) \in Nat /\ Fragment(log, k) <= Len(Coming(log, k))
         /\ Fragment(log, k) > 0 => Coming(log, k) \in Frame
         /\ k < Len(log) => Fragment(log, k) >= 2
         /\ k = Len(log) => Mark(log, k) + Fragment(log, k) = Len(Stream)
         /\ Fragment(log, k) > 0 /\ Fragment(log, k) = Len(Coming(log, k)) =>
              /\ k < Len(log) /\ ~log[k + 1].cut
              /\ Mark(log, k + 1) = Mark(log, k) + Fragment(log, k)
         /\ k < Len(log) /\ Fragment(log, k) # Len(Coming(log, k)) =>
              /\ log[k + 1].cut /\ Mark(log, k + 1) = Mark(log, k) + Fragment(log, k) + 1
              /\ Stream[Mark(log, k + 1)] = SYNC
         /\ k < Len(log) => Through(log, k + 1) = Through(log, k) + IF log[k + 1].cut THEN 0 ELSE 1
<1>1. log \in Seq(Attempt) /\ Len(log) \in Nat
  BY DEF Log
<1>2. /\ \A m \in 1..Len(log) : log[m] \in Attempt
      /\ Mark(log, k) \in Nat /\ Through(log, k) \in Nat
  <2>1. \A m \in 1..Len(log) :
          log[m] \in Attempt /\ log[m].end \in Nat /\ log[m].through \in Nat
    <3>1. \A a \in Attempt : a.end \in Nat /\ a.through \in Nat
      BY DEF Attempt
    <3>2. \A m \in 1..Len(log) : log[m] \in Attempt
      BY <1>1
    <3> QED BY <3>1, <3>2
  <2>2. k # 0 => k \in 1..Len(log)
    BY <1>1
  <2> QED BY <2>1, <2>2 DEF Mark, Through
<1>3. CASE k = Len(log)
  <2>1. Coming(log, k) = frame /\ Fragment(log, k) = Unfinished /\ Mark(log, k) = Start
    BY <1>3 DEF Coming, Fragment, Log
  <2>2. frame = <<>> \/ frame \in Frame
    BY DEF LinkTypes
  <2>3. Len(frame) \in Nat /\ written \in 0..Len(frame)
    BY <2>2, FrameIs DEF LinkTypes
  <2>4. Unfinished \in Nat /\ Unfinished <= Len(frame) /\ (Unfinished > 0 => Unfinished < Len(frame))
    BY <2>3 DEF Unfinished
  <2>5. Unfinished > 0 => frame \in Frame
    <3>1. frame = <<>> => Len(frame) = 0
      OBVIOUS
    <3> QED BY <2>2, <2>4, <3>1
  <2>6. Start + Unfinished = Len(Stream)
    BY <2>4, HeldInStream DEF Start
  <2> QED BY <1>1, <1>2, <1>3, <2>1, <2>3, <2>4, <2>5, <2>6
<1>4. CASE k # Len(log)
  <2>1. k + 1 \in 1..Len(log) /\ (k + 1) - 1 = k /\ k < Len(log) /\ k \in Nat
    BY <1>1, <1>4
  <2> DEFINE a == log[k + 1]
  <2>2. /\ a.frame \in Frame /\ a.end \in Nat /\ a.through \in Nat /\ a.cut \in BOOLEAN
        /\ Mark(log, k + 1) = a.end /\ Through(log, k + 1) = a.through
        /\ Coming(log, k) = a.frame
    BY <1>2, <1>4, <2>1 DEF Attempt, Mark, Through, Coming
  <2>3. Len(a.frame) \in Nat /\ Len(a.frame) >= 2
    BY <2>2, FrameIs
  <2>4. CASE a.cut
    <3>1. /\ Stream[a.end] = SYNC /\ a.end >= Mark(log, k) + 3
          /\ a.end <= Mark(log, k) + Len(a.frame) /\ a.through = Through(log, k)
      BY <2>1, <2>4 DEF Log, Ends
    <3>2. Fragment(log, k) = a.end - Mark(log, k) - 1
      BY <1>4, <2>4 DEF Fragment
    <3> HIDE DEF a
    <3>3. /\ Fragment(log, k) \in Nat /\ Fragment(log, k) >= 2
          /\ Fragment(log, k) < Len(a.frame)
          /\ a.end = Mark(log, k) + Fragment(log, k) + 1
      <4>1. Mark(log, k) \in Nat /\ a.end \in Nat
        BY <1>2, <2>2
      <4>2. a.end >= Mark(log, k) + 3 /\ a.end <= Mark(log, k) + Len(a.frame)
        BY <3>1
      <4>3. a.end = Mark(log, k) + Fragment(log, k) + 1
        BY <3>2, <4>1
      <4>4. Fragment(log, k) \in Nat
        BY <3>2, <4>1, <4>2
      <4>5. Fragment(log, k) >= 2
        BY <3>2, <4>1, <4>2
      <4>6. Fragment(log, k) < Len(a.frame)
        BY <2>3, <3>2, <4>1, <4>2
      <4> QED BY <4>3, <4>4, <4>5, <4>6
    <3> QED BY <1>1, <1>2, <1>4, <2>1, <2>2, <2>3, <2>4, <3>1, <3>3 DEF a
  <2>5. CASE ~a.cut
    <3>1. a.end = Mark(log, k) + Len(a.frame) /\ a.through = Through(log, k) + 1
      BY <2>1, <2>5 DEF Log, Ends
    <3>2. Fragment(log, k) = Len(a.frame)
      BY <1>4, <2>5 DEF Fragment
    <3> QED BY <1>1, <1>2, <1>4, <2>1, <2>2, <2>3, <2>5, <3>1, <3>2
  <2> QED BY <2>4, <2>5
<1> QED BY <1>3, <1>4

-------------------------------------------------------------------------------
\* The steps of the reader.

\* A log tells the same as long as the stream and the sender stay as they are.
LEMMA LogKept ==
  ASSUME NEW log, Log(log), UNCHANGED <<frame, written, cuts, sent, Stream>>
  PROVE  Log(log)' /\ \A k \in 0..Len(log) : Fragment(log, k)' = Fragment(log, k)
<1>1. Unfinished' = Unfinished /\ Start' = Start
  BY DEF Unfinished, Start
<1>2. \A k \in 0..Len(log) : Fragment(log, k)' = Fragment(log, k) /\ Coming(log, k)' = Coming(log, k)
  BY <1>1 DEF Fragment, Coming
<1>3. Ends(log)' /\ CutsCounted(log)' /\ Ordered(log)'
  BY DEF Log, Ends, CutsCounted, Ordered
<1>4. FrameBytes(log)'
  BY <1>2 DEF Log, FrameBytes
<1>5. SyncsAreCuts(log)'
  BY <1>1 DEF Log, SyncsAreCuts
<1> QED BY <1>1, <1>2, <1>3, <1>4, <1>5 DEF Log

\* Once the header is held, the reader knows the length of the frame.
LEMMA EndIs ==
  ASSUME IInv, LinkTypes, NEW log, Log(log), NEW k \in 0..Len(log), At(log, k), position >= 2
  PROVE  /\ Coming(log, k) \in Frame
         /\ End = Len(Coming(log, k)) /\ Fits /\ position <= End
<1>1. /\ Fragment(log, k) \in Nat /\ position \in Nat /\ position <= Fragment(log, k)
      /\ Fragment(log, k) <= Len(Coming(log, k))
  BY FragmentIs, HeldInStream DEF At
<1>2. Coming(log, k) \in Frame
  BY <1>1, FragmentIs
<1>3. /\ message_length(Coming(log, k)[2]) + 2 = Len(Coming(log, k))
      /\ Len(Coming(log, k)) <= BUFFER_SIZE /\ Len(Coming(log, k)) \in Nat
  BY <1>2, FrameIs
<1>4. buffer[1] = Coming(log, k)[2]
  <2>1. 2 \in 1..position /\ 2 \in 1..Fragment(log, k)
    BY <1>1
  <2>2. buffer[2 - 1] = Stream[Len(consumed) - position + 2]
    BY <2>1, HeldInStream
  <2>3. Stream[Mark(log, k) + 2] = Coming(log, k)[2]
    BY <2>1 DEF Log, FrameBytes
  <2> QED BY <2>2, <2>3 DEF At
<1>5. End = Len(Coming(log, k))
  BY <1>3, <1>4 DEF End
<1> QED BY <1>1, <1>2, <1>3, <1>5 DEF Fits

\* What a read amounts to.
Takes(d) ==
  /\ d \in Seq(Byte) /\ Store(d)
  /\ Len(d) <= Wanted /\ (Wanted > 0 => Len(d) > 0)
  /\ Stream' = Stream /\ wire' \in Seq(Byte)
  /\ UNCHANGED <<frame, written, cuts, sent, delivered>>
  /\ Len(consumed') = Len(consumed) + Len(d)
  /\ Len(consumed') <= Len(Stream)
  /\ \A i \in 1..Len(d) : d[i] = Stream[Len(consumed) + i]

\* A stream that waits gives a byte, if one is wanted, and no more than there
\* are.
LEMMA AnswersAre ==
  ASSUME Blocking, Wanted \in Nat, Len(wire) \in Nat, NEW n \in Answers
  PROVE  n \in 0..Len(wire) /\ n <= Wanted /\ (Wanted > 0 => n > 0)
<1> DEFINE S == {Wanted, Len(wire), MaxRead}
           most == CHOOSE m \in S : \A k \in S : m <= k
<1>1. MaxRead \in Nat
  BY BoundAssumption
<1>2. \E m \in S : \A k \in S : m <= k
  <2>1. CASE Wanted <= Len(wire) /\ Wanted <= MaxRead
    BY <1>1, <2>1
  <2>2. CASE Len(wire) <= Wanted /\ Len(wire) <= MaxRead
    BY <1>1, <2>2
  <2>3. CASE MaxRead <= Wanted /\ MaxRead <= Len(wire)
    BY <1>1, <2>3
  <2> QED BY <1>1, <2>1, <2>2, <2>3
<1>3. most \in S /\ \A k \in S : most <= k
  BY <1>2
<1>4. n \in IF Wanted > 0 THEN 1..most ELSE {most}
  BY DEF Answers
<1> HIDE DEF most
<1>5. most \in Nat /\ most <= Wanted /\ most <= Len(wire)
  BY <1>1, <1>3
<1> QED BY <1>4, <1>5

LEMMA ReadIs == ASSUME IInv, LinkTypes, Blocking, Read PROVE \E d : Takes(d)
<1>1. PICK n \in Answers : /\ Store(SubSeq(wire, 1, n))
                          /\ wire' = SubSeq(wire, n + 1, Len(wire))
  BY DEF Read
<1> DEFINE d == SubSeq(wire, 1, n)
<1>2. Wanted \in Nat
  BY <1>1, ReadsFit, EndType DEF IInv, Store, ReadHeader, BodyBytes, Resync
<1>3. n \in 0..Len(wire) /\ n <= Wanted /\ (Wanted > 0 => n > 0)
  BY <1>2, HeldInStream, AnswersAre
<1>4. consumed' = consumed \o d
  BY <1>1 DEF Store, ReadHeader, BodyBytes, Resync, Take
<1>5. consumed \in Seq(Byte) /\ wire \in Seq(Byte)
  BY DEF IInv, TypeOK, LinkTypes
<1>6. /\ Stream' = Stream /\ wire' \in Seq(Byte)
      /\ d \in Seq(Byte) /\ Len(d) = n
      /\ \A i \in 1..n : d[i] = Stream[Len(consumed) + i]
      /\ Len(consumed) + n <= Len(Stream)
  BY <1>1, <1>3, <1>4, <1>5, ReadsStream
<1>7. UNCHANGED <<frame, written, cuts, sent, delivered>>
  BY DEF Read, senderVars
<1> HIDE DEF d
<1>8. Len(consumed') = Len(consumed) + n
  <2>1. d \in Seq(Byte) /\ Len(d) = n
    BY <1>6
  <2> QED BY <1>4, <1>5, <2>1, ConcatProperties
<1>9. Takes(d)
  BY <1>1, <1>3, <1>6, <1>7, <1>8 DEF Takes, d
<1> QED BY <1>9

\* Header bytes.
LEMMA HeaderArrives ==
  ASSUME IInv, LinkTypes, state # "Completed", NEW log, Log(log), NEW k \in 0..Len(log),
         At(log, k), NEW d, Takes(d), ReadHeader(d)
  PROVE  At(log, k)'
<1>1. /\ position \in 0..1 /\ Wanted = 2 - position /\ Len(d) \in Nat
      /\ Len(d) <= Wanted /\ Len(d) > 0
  BY DEF IInv, TypeOK, ReadHeader, AwaitingHeader, Wanted, ReaderState, Takes
<1>2. position' = position + Len(d)
  <2>1. CASE position + Len(d) < 2
    BY <1>1, <2>1 DEF ReadHeader, Outcome, HeaderHeld
  <2>2. CASE ~(position + Len(d) < 2)
    BY <1>1, <2>2 DEF ReadHeader, Outcome
  <2> QED BY <2>1, <2>2
<1>3. /\ Len(consumed') = Len(consumed) + Len(d) /\ Len(consumed) \in Nat
      /\ Len(consumed') <= Len(Stream)
  BY HeldInStream DEF Takes
<1>4. Fragment(log, k)' = Fragment(log, k) /\ UNCHANGED delivered
  BY LogKept DEF Takes
<1>5. position' <= Fragment(log, k)
  <2>1. CASE k = Len(log)
    <3>1. /\ Fragment(log, k) \in Nat /\ Len(Stream) \in Nat
          /\ Len(consumed) - position + Fragment(log, k) = Len(Stream)
      BY <2>1, FragmentIs, HeldInStream DEF At
    <3> QED BY <1>1, <1>2, <1>3, <3>1
  <2>2. CASE k # Len(log)
    <3>1. k < Len(log)
      BY <2>2, FragmentIs
    <3> QED BY <1>1, <1>2, <3>1, FragmentIs
  <2> QED BY <2>1, <2>2
<1> QED BY <1>1, <1>2, <1>3, <1>4, <1>5 DEF At

\* Body bytes: if the attempt was cut off, the sync byte was not among them.
LEMMA BodyArrives ==
  ASSUME IInv, LinkTypes, NEW log, Log(log), NEW k \in 0..Len(log),
         At(log, k), NEW d, Takes(d), BodyBytes(d)
  PROVE  At(log, k)'
<1> DEFINE F == Fragment(log, k)
           R == Mark(log, k)
<1>1. /\ position \in Nat /\ position >= 2 /\ Wanted = End - position /\ Len(d) \in Nat
      /\ Len(d) <= Wanted /\ position' = position + Len(d)
  BY HeldInStream DEF IInv, TypeOK, BodyBytes, BodyExpected, AwaitingData, Wanted, Takes, Outcome
<1>2. /\ Len(consumed') = Len(consumed) + Len(d) /\ Len(consumed) \in Nat
      /\ Len(consumed') <= Len(Stream)
  BY HeldInStream DEF Takes
<1>3. F' = F /\ UNCHANGED delivered
  BY LogKept DEF Takes
<1>4. /\ F \in Nat /\ R \in Nat /\ R = Len(consumed) - position /\ position <= F
      /\ End = Len(Coming(log, k)) /\ End \in Nat
  BY <1>1, FragmentIs, EndIs DEF At
<1>5. position' <= F
  <2>1. CASE k = Len(log)
    <3>1. R + F = Len(Stream)
      BY <2>1, FragmentIs
    <3> HIDE DEF F, R
    <3> QED BY <1>1, <1>2, <1>4, <3>1
  <2>2. CASE k < Len(log) /\ F = Len(Coming(log, k))
    BY <1>1, <1>4, <2>2
  <2>3. CASE k < Len(log) /\ F # Len(Coming(log, k))
    <3>1. Mark(log, k + 1) = R + F + 1 /\ Stream[Mark(log, k + 1)] = SYNC
      BY <2>3, FragmentIs
    <3> HIDE DEF F, R
    <3>2. SUFFICES ASSUME position' > F PROVE FALSE
      BY <1>1, <1>4
    <3> DEFINE i == F + 1 - position
    <3>3. i \in 1..Len(d) /\ Len(consumed) + i = R + F + 1
      BY <1>1, <1>2, <1>4, <3>2
    <3>4. d[i] = SYNC
      BY <3>1, <3>3 DEF Takes
    <3> QED BY <3>3, <3>4 DEF BodyBytes, NoSync
  <2>4. k <= Len(log)
    BY FragmentIs
  <2> QED BY <2>1, <2>2, <2>3, <2>4
<1> QED BY <1>1, <1>2, <1>3, <1>4, <1>5 DEF At

\* A sync byte in the body: the attempt was cut off, there or before.
LEMMA ResyncInCut ==
  ASSUME IInv, LinkTypes, NEW log, Log(log), NEW k \in 0..Len(log), At(log, k),
         NEW d, Takes(d), NEW j \in 1..Len(d), Resync(d, j)
  PROVE  /\ k < Len(log) /\ k + 1 \in 1..Len(log) /\ log[k + 1].cut /\ cuts > 0
         /\ Through(log, k + 1) = Through(log, k)
         /\ Mark(log, k + 1) <= Len(consumed) + j
         /\ Mark(log, k) + 3 <= Mark(log, k + 1)
         /\ Len(consumed) + j <= Mark(log, k) + Len(Coming(log, k))
         /\ Coming(log, k) \in Frame
<1> DEFINE F == Fragment(log, k)
           R == Mark(log, k)
           g == Coming(log, k)
<1>1. /\ position \in Nat /\ position >= 2 /\ Wanted = End - position /\ Len(d) \in Nat
      /\ Len(d) <= Wanted /\ d[j] = SYNC
  BY HeldInStream DEF IInv, TypeOK, Resync, BodyExpected, AwaitingData, Wanted, Takes
<1>2. /\ Len(consumed) \in Nat /\ Len(consumed) + Len(d) <= Len(Stream)
      /\ Stream[Len(consumed) + j] = SYNC
  BY <1>1, HeldInStream DEF Takes
<1>3. /\ F \in Nat /\ R \in Nat /\ R = Len(consumed) - position /\ position <= F
      /\ End = Len(g) /\ End \in Nat /\ g \in Frame
  BY <1>1, FragmentIs, EndIs DEF At
<1>4. Len(consumed) + j = R + (position + j) /\ position + j <= Len(g)
  <2> HIDE DEF F, R, g
  <2> QED BY <1>1, <1>2, <1>3
<1>5. position + j > F
  <2>1. SUFFICES ASSUME position + j <= F PROVE FALSE
    BY <1>1, <1>3
  <2>2. position + j \in 1..F /\ position + j \in 3..Len(g)
    BY <1>1, <1>3, <1>4, <2>1
  <2>3. Stream[R + (position + j)] = g[position + j]
    BY <2>2 DEF Log, FrameBytes
  <2>4. g[position + j] # SYNC
    BY <1>3, <2>2, FrameIs
  <2> QED BY <1>2, <1>4, <2>3, <2>4
<1>6. k < Len(log)
  <2>1. k = Len(log) => R + F = Len(Stream)
    BY FragmentIs
  <2>2. k <= Len(log) /\ Len(log) \in Nat /\ k \in Nat
    BY FragmentIs
  <2>3. R + F # Len(Stream)
    <3> HIDE DEF F, R, g
    <3> QED BY <1>1, <1>2, <1>3, <1>4, <1>5, HeldInStream
  <2> QED BY <2>1, <2>2, <2>3
<1>7. F # Len(g)
  <2> HIDE DEF F, R, g
  <2> QED BY <1>1, <1>3, <1>4, <1>5
<1>8. /\ log[k + 1].cut /\ Mark(log, k + 1) = R + F + 1 /\ F >= 2
      /\ Through(log, k + 1) = Through(log, k)
  BY <1>3, <1>6, <1>7, FragmentIs
<1>9. k + 1 \in 1..Len(log)
  BY <1>6, FragmentIs
<1>10. cuts > 0
  BY <1>8, <1>9 DEF Log, Ends
<1>11. /\ Mark(log, k + 1) <= Len(consumed) + j /\ R + 3 <= Mark(log, k + 1)
       /\ Len(consumed) + j <= R + Len(g)
  <2> HIDE DEF F, R, g
  <2> QED BY <1>1, <1>3, <1>4, <1>5, <1>8
<1> QED BY <1>3, <1>6, <1>8, <1>9, <1>10, <1>11

\* What lies between two places of the log.
LEMMA OrderIs ==
  ASSUME IInv, LinkTypes, NEW log, Log(log), NEW a \in 0..Len(log), NEW b \in 0..Len(log)
  PROVE  /\ a <= b => Mark(log, a) <= Mark(log, b)
         /\ a < b => Mark(log, a) + 2 <= Mark(log, b)
<1>1. Mark(log, a) \in Nat /\ Mark(log, b) \in Nat /\ a \in Nat /\ b \in Nat
  BY FragmentIs
<1>2. a < b => Mark(log, a) + 2 <= Mark(log, b)
  BY DEF Log, Ordered
<1>3. a = b => Mark(log, a) <= Mark(log, b)
  BY <1>1
<1> QED BY <1>1, <1>2, <1>3

\* What the log speaks of lies in the stream as it is.
LEMMA InOldStream ==
  ASSUME IInv, LinkTypes, NEW log, Log(log), NEW k \in 0..Len(log)
  PROVE  /\ \A i \in 1..Fragment(log, k) : Mark(log, k) + i \in 1..Len(Stream)
         /\ k # 0 => Mark(log, k) \in 1..Len(Stream)
         /\ Mark(log, k) <= Start /\ Start \in Nat /\ Start + Unfinished = Len(Stream)
         /\ Unfinished \in Nat
         /\ Through(log, k) <= Len(sent)
<1>1. /\ 0 \in 0..Len(log) /\ Len(log) \in 0..Len(log) /\ Len(log) \in Nat /\ k \in Nat
      /\ k <= Len(log)
  BY FragmentIs
<1>2. /\ Mark(log, Len(log)) = Start /\ Through(log, Len(log)) = Len(sent)
      /\ Fragment(log, Len(log)) = Unfinished /\ Mark(log, 0) = 0
  BY <1>1 DEF Log, Fragment, Mark
<1>3. /\ Start \in Nat /\ Unfinished \in Nat /\ Start + Unfinished = Len(Stream)
  BY <1>1, <1>2, FragmentIs
<1>4. Mark(log, k) <= Start /\ (k # 0 => Mark(log, k) >= 2)
  BY <1>1, <1>2, OrderIs
<1>5. Through(log, k) <= Len(sent)
  <2>1. k < Len(log) => Through(log, k) <= Through(log, Len(log))
    BY <1>1 DEF Log, Ordered
  <2>2. k = Len(log) => Through(log, k) <= Through(log, Len(log))
    BY <1>1, FragmentIs
  <2> QED BY <1>1, <1>2, <2>1, <2>2
<1>6. /\ Mark(log, k) \in Nat /\ Fragment(log, k) \in Nat
      /\ Mark(log, k) + Fragment(log, k) <= Len(Stream)
  <2>1. Mark(log, k) \in Nat /\ Fragment(log, k) \in Nat
    BY FragmentIs
  <2>2. CASE k = Len(log)
    BY <1>2, <1>3, <2>2
  <2>3. CASE k < Len(log)
    <3>1. Mark(log, k + 1) <= Start /\ k + 1 \in 0..Len(log)
      <4>1. k + 1 \in 0..Len(log)
        BY <1>1, <2>3
      <4> QED BY <1>1, <1>2, <4>1, OrderIs
    <3>2. Mark(log, k) + Fragment(log, k) <= Mark(log, k + 1)
      <4>1. Fragment(log, k) >= 2
        BY <2>3, FragmentIs
      <4>2. CASE Fragment(log, k) = Len(Coming(log, k))
        BY <2>1, <4>1, <4>2, FragmentIs
      <4>3. CASE Fragment(log, k) # Len(Coming(log, k))
        BY <2>1, <2>3, <4>3, FragmentIs
      <4> QED BY <4>2, <4>3
    <3>3. Mark(log, k + 1) \in Nat
      BY <3>1, FragmentIs
    <3> QED BY <1>3, <2>1, <3>1, <3>2, <3>3
  <2> QED BY <1>1, <2>1, <2>2, <2>3
<1>7. Len(Stream) \in Nat
  BY HeldInStream
<1> QED BY <1>1, <1>3, <1>4, <1>5, <1>6, <1>7

\* The last sync byte of the chunk ends a cut, and no frame sent in full lies
\* between the attempt the reader was at and that place.
LEMMA SyncEndsCut ==
  ASSUME IInv, LinkTypes, Distinct, NEW log, Log(log), NEW k \in 0..Len(log), At(log, k),
         NEW d, Takes(d), NEW j \in 1..Len(d), Resync(d, j)
  PROVE  \E c \in 1..Len(log) :
           Mark(log, c) = Len(consumed) + j /\ Through(log, c) = Through(log, k)
<1> DEFINE p == Len(consumed) + j
           g == Coming(log, k)
<1>1. /\ k < Len(log) /\ k + 1 \in 1..Len(log) /\ log[k + 1].cut
      /\ Through(log, k + 1) = Through(log, k)
      /\ Mark(log, k + 1) <= p /\ Mark(log, k) + 3 <= Mark(log, k + 1)
      /\ p <= Mark(log, k) + Len(g) /\ g \in Frame
  BY ResyncInCut
<1>2. p \in Nat /\ p <= Len(Stream) /\ p >= 1 /\ Stream[p] = SYNC
  <2>1. Len(d) \in Nat /\ Len(consumed) \in Nat /\ Len(Stream) \in Nat
    BY HeldInStream DEF Takes
  <2> QED BY <2>1 DEF Takes, Resync
<1> HIDE DEF p, g
<1>3. p <= Start
  <2>2. /\ Len(log) \in 0..Len(log) /\ Mark(log, Len(log)) = Start
        /\ Start \in Nat
    <3>1. Len(log) \in 0..Len(log)
      BY FragmentIs
    <3> QED BY <3>1, FragmentIs DEF Log
  <2>1. SUFFICES ASSUME p > Start PROVE FALSE
    BY <1>2, <2>2
  <2> DEFINE U == Fragment(log, Len(log))
             h == Coming(log, Len(log))
  <2>3. U \in Nat /\ Start + U = Len(Stream) /\ U <= Len(h) /\ Len(h) \in Nat /\ (U > 0 => h \in Frame)
    BY <2>2, FragmentIs
  <2>4. \A i \in 1..U : Stream[Start + i] = h[i]
    BY <2>2 DEF Log, FrameBytes
  <2> HIDE DEF U, h
  <2>5. p - Start \in 1..U /\ p = Start + (p - Start) /\ U > 0 /\ p - Start \in 1..Len(h)
    BY <1>2, <2>1, <2>2, <2>3
  <2>6. h[p - Start] = SYNC
    BY <1>2, <2>4, <2>5
  <2>7. NoSync(h)
    BY <2>3, <2>5 DEF Distinct, NoFrameHasSync
  <2> QED BY <2>5, <2>6, <2>7 DEF NoSync
<1>4. PICK c \in 1..Len(log) : log[c].cut /\ log[c].end = p
  <2>1. p \in 1..Start
    BY <1>2, <1>3, FragmentIs DEF Log
  <2> QED BY <1>2, <2>1 DEF Log, SyncsAreCuts, Distinct
<1>5. /\ Mark(log, c) = p /\ c \in 0..Len(log) /\ c \in Nat /\ k \in Nat /\ Len(log) \in Nat
      /\ Mark(log, k + 1) \in Nat /\ Mark(log, k) \in Nat
  <2>1. Len(log) \in Nat
    BY FragmentIs
  <2>2. c \in 0..Len(log) /\ k + 1 \in 0..Len(log) /\ c # 0 /\ c \in Nat /\ k \in Nat
    BY <1>1, <2>1
  <2> QED BY <1>4, <2>1, <2>2, FragmentIs DEF Mark
<1>6. k + 1 <= c
  <2>1. SUFFICES ASSUME c < k + 1 PROVE FALSE
    BY <1>5
  <2>2. Mark(log, c) + 2 <= Mark(log, k + 1)
    BY <1>1, <1>5, <2>1, OrderIs
  <2> QED BY <1>1, <1>2, <1>5, <2>2
<1>7. CASE c = k + 1
  BY <1>1, <1>5, <1>7 DEF p
<1>8. CASE c # k + 1
  <2>1. cuts > 1
    BY <1>1, <1>4, <1>8 DEF Log, CutsCounted
  <2>2. \A e, f \in Frame : Len(e) < Len(f) + 6
    <3>1. ~(MaxCuts <= 1)
      <4>1. cuts \in Nat /\ cuts <= MaxCuts
        BY DEF LinkTypes
      <4> QED BY <2>1, <4>1, LinkBoundAssumption
    <3> QED BY <3>1 DEF Distinct
  <2>3. Through(log, c) = Through(log, k + 1)
    <3>1. SUFFICES ASSUME Through(log, c) # Through(log, k + 1) PROVE FALSE
      OBVIOUS
    <3>2. PICK w \in ((k + 1) + 1)..c : ~log[w].cut
      <4>1. k + 1 \in 0..Len(log) /\ c \in 0..Len(log) /\ k + 1 < c
        BY <1>5, <1>6, <1>8, <1>1
      <4> QED BY <3>1, <4>1 DEF Log, Ordered
    <3>3. /\ w \in Nat /\ w < c /\ w \in 1..Len(log) /\ w \in 0..Len(log)
          /\ w - 1 \in 0..Len(log) /\ k + 1 <= w - 1 /\ w <= c - 1
          /\ c - 1 \in 0..Len(log) /\ k + 1 \in 0..Len(log)
      <4>1. w # c
        BY <1>4, <3>2
      <4> QED BY <1>5, <1>6, <3>2, <4>1
    <3>4. /\ log[w].frame \in Frame /\ Mark(log, w) = Mark(log, w - 1) + Len(log[w].frame)
      <4>1. log[w].frame \in Frame
        <5>1. log[w] \in Attempt
          BY <3>3 DEF Log
        <5> QED BY <5>1 DEF Attempt
      <4>2. log[w].end = Mark(log, w - 1) + Len(log[w].frame)
        BY <3>2, <3>3 DEF Log, Ends
      <4>3. Mark(log, w) = log[w].end
        BY <3>3 DEF Mark
      <4> QED BY <4>1, <4>2, <4>3
    <3>5. p >= Mark(log, c - 1) + 3
      <4>1. log[c].end >= Mark(log, c - 1) + 3
        BY <1>4 DEF Log, Ends
      <4> QED BY <1>4, <4>1
    <3>6. Mark(log, k + 1) <= Mark(log, w - 1) /\ Mark(log, w) <= Mark(log, c - 1)
      BY <3>3, OrderIs
    <3>7. Len(g) < Len(log[w].frame) + 6 /\ Len(g) \in Nat /\ Len(log[w].frame) \in Nat
      BY <1>1, <2>2, <3>4, FrameIs
    <3>8. /\ Mark(log, w - 1) \in Nat /\ Mark(log, w) \in Nat /\ Mark(log, c - 1) \in Nat
      BY <3>3, FragmentIs
    <3>9. p >= Mark(log, w - 1) + Len(log[w].frame) + 3
      BY <1>2, <3>4, <3>5, <3>6, <3>7, <3>8
    <3>10. Mark(log, k) + 3 <= Mark(log, w - 1)
      BY <1>1, <1>5, <3>6, <3>8
    <3>11. p <= Mark(log, k) + Len(g)
      BY <1>1
    <3> DEFINE m == Mark(log, k)
               l == Len(log[w].frame)
               n == Mark(log, w - 1)
               q == Len(g)
    <3>12. /\ p \in Nat /\ m \in Nat /\ n \in Nat /\ l \in Nat /\ q \in Nat
           /\ p >= n + l + 3 /\ m + 3 <= n /\ p <= m + q /\ q < l + 6
      BY <1>2, <1>5, <3>7, <3>8, <3>9, <3>10, <3>11
    <3> HIDE DEF m, l, n, q
    <3> QED BY <3>12
  <2> QED BY <1>1, <1>5, <2>3 DEF p
<1> QED BY <1>7, <1>8

\* After it the reader is at the next attempt, or has read beyond it.
LEMMA Resyncs ==
  ASSUME IInv, LinkTypes, IInv', Tellable, NEW log, Log(log), NEW k \in 0..Len(log),
         At(log, k), NEW d, Takes(d), NEW j \in 1..Len(d), Resync(d, j)
  PROVE  Overrun' \/ \E c \in 0..Len(log) : At(log, c)'
<1>1. cuts > 0 /\ cuts \in Nat /\ Distinct
  BY ResyncInCut DEF Tellable, LinkTypes
<1>2. PICK c \in 1..Len(log) :
        Mark(log, c) = Len(consumed) + j /\ Through(log, c) = Through(log, k)
  BY <1>1, SyncEndsCut
<1> DEFINE rest == Len(d) - j
           F == Fragment(log, c)
           p == Mark(log, c)
<1>3. /\ Len(d) \in Nat /\ j \in Nat /\ j <= Len(d) /\ Len(consumed) \in Nat
      /\ Len(consumed') = Len(consumed) + Len(d) /\ Len(consumed') <= Len(Stream)
      /\ Len(Stream) \in Nat
  BY HeldInStream DEF Takes
<1>4. rest \in Nat /\ position' = rest /\ state' = IF rest < 2 THEN "Header" ELSE "Data"
  BY <1>3 DEF Resync, Outcome
<1>5. UNCHANGED delivered /\ F' = F /\ UNCHANGED cuts /\ Stream' = Stream
  BY <1>2, LogKept DEF Takes
<1>6. c \in 0..Len(log) /\ c <= Len(log) /\ c \in Nat
  BY FragmentIs
<1>7. p = Len(consumed') - position' /\ p \in Nat
  BY <1>2, <1>3, <1>4
<1>8. CASE rest <= F
  BY <1>2, <1>4, <1>5, <1>6, <1>7, <1>8 DEF At
<1>9. CASE ~(rest <= F)
  <2>1. F \in Nat /\ c < Len(log) /\ F >= 2
    <3>1. F \in Nat /\ (c = Len(log) => p + F = Len(Stream)) /\ (c < Len(log) => F >= 2)
      BY <1>6, FragmentIs
    <3>2. c # Len(log)
      <4> HIDE DEF F, p
      <4> QED BY <1>3, <1>4, <1>7, <1>9, <3>1
    <3> QED BY <1>6, <3>1, <3>2
  <2>2. F = Len(Coming(log, c)) /\ Coming(log, c) \in Frame
    <3>1. Coming(log, c) \in Frame
      BY <1>6, <2>1, FragmentIs
    <3>2. SUFFICES ASSUME F # Len(Coming(log, c)) PROVE FALSE
      BY <3>1
    <3>3. Mark(log, c + 1) = p + F + 1 /\ Stream[Mark(log, c + 1)] = SYNC
      BY <1>6, <2>1, <3>2, FragmentIs
    <3> HIDE DEF F, p
    <3> DEFINE i == j + F + 1
    <3>4. i \in (j + 1)..Len(d) /\ i \in 1..Len(d) /\ Len(consumed) + i = p + F + 1
      BY <1>2, <1>3, <1>4, <1>9, <2>1 DEF p
    <3>5. d[i] = SYNC
      BY <3>3, <3>4 DEF Takes
    <3> QED BY <3>4, <3>5 DEF Resync
  <2>3. /\ state' = "Data" /\ position' > F
    BY <1>4, <1>9, <2>1
  <2>4. buffer'[1] = Coming(log, c)[2]
    <3>1. wire' \in Seq(Byte) /\ LinkTypes'
      BY DEF Takes, LinkTypes
    <3>2. \A i \in 1..position' : buffer'[i - 1] = Stream'[Len(consumed') - position' + i]
      <4>1. /\ consumed' \in Seq(Byte) /\ position' \in Nat /\ position' <= Len(consumed')
            /\ \A i \in 0..(position' - 1) :
                 buffer'[i] = consumed'[Len(consumed') - position' + 1 + i]
        BY <1>4 DEF IInv, TypeOK, HeldIsStreamSuffix
      <4>2. \A i \in 1..Len(consumed') : Stream'[i] = consumed'[i]
        BY <3>1, <4>1 DEF Stream
      <4>3. ASSUME NEW i \in 1..position'
            PROVE  buffer'[i - 1] = Stream'[Len(consumed') - position' + i]
        <5>1. /\ i - 1 \in 0..(position' - 1) /\ Len(consumed') - position' + i \in 1..Len(consumed')
              /\ Len(consumed') - position' + 1 + (i - 1) = Len(consumed') - position' + i
          <6>1. /\ i \in Nat /\ i >= 1 /\ i <= position' /\ position' \in Nat
                /\ Len(consumed') \in Nat /\ position' <= Len(consumed')
            BY <1>3, <4>1
          <6> DEFINE l == Len(consumed')
                     q == position'
          <6> HIDE DEF l, q
          <6>2. i \in Nat /\ i >= 1 /\ i <= q /\ q \in Nat /\ l \in Nat /\ q <= l
            BY <6>1 DEF l, q
          <6>3. i - 1 \in 0..(q - 1) /\ l - q + i \in 1..l /\ l - q + 1 + (i - 1) = l - q + i
            BY <6>2
          <6> QED BY <6>3 DEF l, q
        <5>2. buffer'[i - 1] = consumed'[Len(consumed') - position' + 1 + (i - 1)]
          BY <4>1, <5>1
        <5> QED BY <4>2, <5>1, <5>2
      <4> QED BY <4>3
    <3>3. 2 \in 1..position' /\ 2 \in 1..F
      BY <1>4, <2>1, <2>3
    <3>4. buffer'[2 - 1] = Stream'[Len(consumed') - position' + 2]
      BY <3>2, <3>3
    <3>5. Stream[p + 2] = Coming(log, c)[2]
      BY <1>6, <3>3 DEF Log, FrameBytes
    <3> QED BY <1>5, <1>7, <3>4, <3>5
  <2>5. End' = F /\ F <= BUFFER_SIZE
    <3>1. message_length(Coming(log, c)[2]) + 2 = Len(Coming(log, c))
      BY <2>2, FrameIs
    <3>2. Len(Coming(log, c)) <= BUFFER_SIZE
      BY <2>2, FrameIs
    <3> QED BY <2>2, <2>4, <3>1, <3>2 DEF End
  <2>6. Len(delivered') <= Len(sent')
    BY <1>2, <1>5, <1>6, InOldStream DEF At, Takes
  <2> QED BY <1>1, <1>5, <2>3, <2>5, <2>6 DEF Overrun, Fits
<1> QED BY <1>8, <1>9

\* Where the reader is, as far as it can be told.
Placed(log) == Tellable => Overrun \/ \E k \in 0..Len(log) : At(log, k)

LEMMA ReadKeeps ==
  ASSUME LinkIInv, Blocking, Read
  PROVE  LinkIInv'
<1> USE DEF LinkIInv
<1>1. PICK d : Takes(d)
  BY ReadIs
<1>2. PICK log \in Seq(Attempt) : Log(log) /\ Placed(log)
  BY DEF Placed
<1>3. IInv'
  BY <1>1, StoreIInv DEF Takes
<1>4. LinkTypes'
  BY <1>1 DEF Takes, LinkTypes
<1>5. Log(log)' /\ (Tellable' <=> Tellable)
  BY <1>1, <1>2, LogKept DEF Takes, Tellable, Distinct
<1>6. call = "reading" /\ state # "Completed" /\ call' \notin Panicked
      /\ (state' = "Completed" <=> call' = "Ok(true)")
  BY <1>1 DEF Takes, Store, ReadHeader, BodyBytes, Resync, BodyExpected, AwaitingHeader,
              AwaitingData, Outcome, Verdict, Panicked
<1>7. Placed(log)'
  <2>1. SUFFICES ASSUME Tellable PROVE Overrun' \/ \E k \in 0..Len(log) : At(log, k)'
    BY <1>5 DEF Placed
  <2>2. ~Overrun
    <3>1. state = "Data" => BodyExpected
      BY <1>1 DEF Takes, Store, ReadHeader, BodyBytes, Resync, AwaitingHeader
    <3>2. position \in Nat /\ End \in Nat
      BY HeldInStream, EndType DEF IInv
    <3> QED BY <3>1, <3>2 DEF Overrun, BodyExpected
  <2>3. PICK k \in 0..Len(log) : At(log, k)
    BY <1>2, <2>1, <2>2 DEF Placed
  <2>4. CASE ReadHeader(d)
    BY <1>1, <1>2, <1>6, <2>3, <2>4, HeaderArrives
  <2>5. CASE BodyBytes(d)
    BY <1>1, <1>2, <2>3, <2>5, BodyArrives
  <2>6. ASSUME NEW j \in 1..Len(d), Resync(d, j)
        PROVE  Overrun' \/ \E c \in 0..Len(log) : At(log, c)'
    BY <1>1, <1>2, <1>3, <2>1, <2>3, <2>6, Resyncs
  <2> QED BY <1>1, <2>4, <2>5, <2>6 DEF Takes, Store
<1>8. PanicsOnlyByCut'
  BY <1>6 DEF PanicsOnlyByCut
<1> QED BY <1>2, <1>3, <1>4, <1>5, <1>6, <1>7, <1>8 DEF Placed

\* A completed reader holds a frame that was sent in full, the next one.
LEMMA PacketIsNext ==
  ASSUME IInv, LinkTypes, state = "Completed", NEW log, Log(log), NEW k \in 0..Len(log),
         At(log, k)
  PROVE  /\ k + 1 \in 1..Len(log)
         /\ Mark(log, k + 1) = Len(consumed) /\ Through(log, k + 1) = Len(delivered) + 1
         /\ Len(delivered) + 1 \in 1..Len(sent)
         /\ packet = sent[Len(delivered) + 1] /\ packet \in Frame
<1> DEFINE F == Fragment(log, k)
           g == Coming(log, k)
<1>1. /\ position \in Nat /\ position >= 2 /\ position = End /\ Len(consumed) \in Nat
      /\ position <= Len(consumed)
  BY HeldInStream, EndType DEF IInv, DeliveredIsFrame
<1>2. /\ F \in Nat /\ position <= F /\ F <= Len(g) /\ End = Len(g) /\ g \in Frame
      /\ Mark(log, k) = Len(consumed) - position /\ Through(log, k) = Len(delivered)
  BY <1>1, FragmentIs, EndIs DEF At
<1>3. F = Len(g) /\ F = position /\ F > 0
  <2>1. Len(g) \in Nat
    BY <1>2, FrameIs
  <2> HIDE DEF F, g
  <2> QED BY <1>1, <1>2, <2>1
<1>4. /\ k < Len(log) /\ ~log[k + 1].cut
      /\ Mark(log, k + 1) = Mark(log, k) + F /\ Through(log, k + 1) = Through(log, k) + 1
  BY <1>3, FragmentIs
<1>5. k + 1 \in 1..Len(log) /\ k + 1 # 0 /\ (k + 1) - 1 = k /\ k # Len(log)
  BY <1>4, FragmentIs
<1>6. Mark(log, k + 1) = Len(consumed)
  <2> HIDE DEF F, g
  <2> QED BY <1>1, <1>2, <1>3, <1>4
<1>7. sent[Len(delivered) + 1] = g
  <2>1. sent[log[k + 1].through] = log[k + 1].frame
    BY <1>4, <1>5 DEF Log, Ends
  <2>2. log[k + 1].through = Through(log, k + 1) /\ g = log[k + 1].frame
    BY <1>5 DEF Through, Coming
  <2> QED BY <1>2, <1>4, <2>1, <2>2
<1>8. packet = g
  <2>1. g \in Seq(Byte) /\ Len(g) = position
    BY <1>2, <1>3, FrameIs
  <2>2. \A i \in 1..position : buffer[i - 1] = g[i]
    <3>1. \A i \in 1..position : buffer[i - 1] = Stream[Mark(log, k) + i]
      BY <1>2, HeldInStream
    <3>2. \A i \in 1..F : Stream[Mark(log, k) + i] = g[i]
      BY DEF Log, FrameBytes
    <3> QED BY <1>3, <3>1, <3>2
  <2> HIDE DEF F, g
  <2>3. g = [i \in 1..position |-> g[i]]
    BY <2>1
  <2> QED BY <2>2, <2>3 DEF packet
<1>9. Len(delivered) + 1 \in 1..Len(sent)
  <2>1. Through(log, k + 1) <= Through(log, Len(log))
    <3>1. /\ k + 1 \in 0..Len(log) /\ Len(log) \in 0..Len(log) /\ k + 1 <= Len(log)
          /\ k + 1 \in Nat /\ Len(log) \in Nat
      BY <1>4, FragmentIs
    <3>2. k + 1 < Len(log) => Through(log, k + 1) <= Through(log, Len(log))
      BY <3>1 DEF Log, Ordered
    <3>3. k + 1 = Len(log) => Through(log, k + 1) <= Through(log, Len(log))
      BY <3>1, FragmentIs
    <3> QED BY <3>1, <3>2, <3>3
  <2>2. Through(log, Len(log)) = Len(sent) /\ Len(sent) \in Nat
    BY DEF Log, LinkTypes
  <2>3. Len(delivered) \in Nat
    BY DEF LinkTypes
  <2> QED BY <1>2, <1>4, <2>1, <2>2, <2>3
<1> QED BY <1>2, <1>4, <1>5, <1>6, <1>7, <1>8, <1>9

\* The caller calls read: nothing moves.
LEMMA CallKeeps == ASSUME LinkIInv, CallRead PROVE LinkIInv'
<1> USE DEF LinkIInv
<1>1. /\ UNCHANGED <<buffer, position, state, consumed>> /\ call' = "reading"
      /\ UNCHANGED <<frame, written, cuts, sent, wire, delivered>> /\ state # "Completed"
  BY DEF CallRead, Call, senderVars, NoPacketLeft
<1>2. IInv'
  BY CallIInv DEF CallRead
<1>3. PICK log \in Seq(Attempt) : Log(log) /\ Placed(log)
  BY DEF Placed
<1>4. /\ Log(log)' /\ (Tellable' <=> Tellable) /\ (Overrun' <=> Overrun)
      /\ \A k \in 0..Len(log) : At(log, k)' <=> At(log, k)
  <2>1. Stream' = Stream
    BY <1>1 DEF Stream
  <2> QED BY <1>1, <1>3, <2>1, LogKept DEF Tellable, Distinct, Overrun, End, Fits, At
<1>5. LinkTypes' /\ PanicsOnlyByCut'
  BY <1>1 DEF LinkTypes, PanicsOnlyByCut, Panicked
<1> QED BY <1>1, <1>2, <1>3, <1>4, <1>5 DEF Placed

\* A reader that can be told where it is stops only if it has read beyond an
\* attempt.
LEMMA StopKeeps == ASSUME LinkIInv, Stop PROVE LinkIInv'
<1> USE DEF LinkIInv
<1>1. /\ UNCHANGED <<buffer, consumed>> /\ call = "reading"
      /\ UNCHANGED <<frame, written, cuts, sent, wire, delivered>>
  BY DEF Stop, Refuse, Panic, InsufficientBuffer, AwaitingHeader, AwaitingData, senderVars
<1>2. IInv'
  BY RefuseIInv DEF Stop
<1>3. PICK log \in Seq(Attempt) : Log(log) /\ Placed(log)
  BY DEF Placed
<1>4. Log(log)' /\ (Tellable' <=> Tellable)
  <2>1. Stream' = Stream
    BY <1>1 DEF Stream
  <2> QED BY <1>1, <1>3, <2>1, LogKept DEF Tellable, Distinct
<1>5. LinkTypes'
  BY <1>1 DEF LinkTypes
<1>6. ASSUME NEW k \in 0..Len(log), At(log, k), state = "Data"
      PROVE  Fits /\ ~(position > End)
  <2>1. position >= 2 /\ position \in Nat /\ End \in Nat
    BY <1>6, HeldInStream, EndType DEF IInv, TypeOK
  <2> QED BY <1>3, <1>6, <2>1, EndIs
<1>7. CASE InsufficientBuffer
  <2>1. state = "Data" /\ ~Fits /\ state' = "Header" /\ call' = "InsufficientBuffer"
    BY <1>7 DEF InsufficientBuffer, AwaitingData
  <2>2. ~Tellable
    BY <1>3, <1>6, <2>1 DEF Placed, Overrun
  <2>3. PanicsOnlyByCut'
    BY <2>1 DEF PanicsOnlyByCut, Panicked
  <2> QED BY <1>1, <1>2, <1>3, <1>4, <1>5, <2>1, <2>2, <2>3
<1>8. CASE Panic
  <2>1. UNCHANGED <<position, state>> /\ call' \in Panicked /\ call' # "Ok(true)"
    BY <1>8 DEF Panic, Panicked
  <2>2. state # "Completed"
    BY <1>1
  <2>3. ~(AwaitingHeader /\ position > 2)
    BY <2>2, HeldInStream DEF AwaitingHeader, IInv, TypeOK
  <2>4. call' = "LengthUnderflow" /\ state = "Data" /\ position > End
    BY <1>8, <2>3 DEF Panic, AwaitingData
  <2>5. cuts > 0
    <3>1. SUFFICES ASSUME cuts = 0 PROVE FALSE
      BY DEF LinkTypes
    <3> QED BY <1>3, <1>6, <2>4, <3>1 DEF Placed, Tellable, Overrun
  <2>6. PanicsOnlyByCut'
    BY <1>1, <2>4, <2>5 DEF PanicsOnlyByCut
  <2>7. (Overrun' <=> Overrun) /\ \A k \in 0..Len(log) : At(log, k)' <=> At(log, k)
    <3>1. Stream' = Stream
      BY <1>1 DEF Stream
    <3> QED BY <1>1, <1>3, <2>1, <3>1, LogKept DEF Overrun, End, Fits, At
  <2> QED BY <1>1, <1>2, <1>3, <1>4, <1>5, <2>1, <2>2, <2>6, <2>7 DEF Placed
<1> QED BY <1>7, <1>8 DEF Stop, Refuse

\* The caller takes a packet: the reader is at the next attempt.
LEMMA DeliverKeeps == ASSUME LinkIInv, Deliver PROVE LinkIInv'
<1> USE DEF LinkIInv
<1>1. /\ state = "Completed" /\ position' = 0 /\ state' = "Header" /\ call' = "none"
      /\ UNCHANGED <<buffer, consumed, frame, written, cuts, sent, wire>>
      /\ delivered' = Append(delivered, packet)
  BY DEF Deliver, Recycle, senderVars
<1>2. IInv'
  BY CallIInv DEF Deliver
<1>3. PICK log \in Seq(Attempt) : Log(log) /\ Placed(log)
  BY DEF Placed
<1>4. /\ Log(log)' /\ (Tellable' <=> Tellable)
      /\ \A k \in 0..Len(log) : Fragment(log, k)' = Fragment(log, k)
  <2>1. Stream' = Stream
    BY <1>1 DEF Stream
  <2> QED BY <1>1, <1>3, <2>1, LogKept DEF Tellable, Distinct
<1>5. packet \in Seq(Byte)
  <2>1. \A i \in 1..position : buffer[i - 1] \in Byte
    <3>1. /\ \A i \in 1..position : buffer[i - 1] = Stream[Len(consumed) - position + i]
          /\ Stream \in Seq(Byte) /\ Len(Stream) = Len(consumed) + Len(wire)
          /\ Len(consumed) \in Nat /\ Len(wire) \in Nat
          /\ position \in Nat /\ position <= Len(consumed)
      BY HeldInStream
    <3>2. \A i \in 1..position : Len(consumed) - position + i \in 1..Len(Stream)
      BY <3>1
    <3> QED BY <3>1, <3>2
  <2>2. position \in Nat
    BY HeldInStream
  <2> QED BY <2>1, <2>2 DEF packet
<1>6. LinkTypes' /\ Len(delivered') = Len(delivered) + 1 /\ Len(delivered) \in Nat
  BY <1>1, <1>5 DEF LinkTypes
<1>7. PanicsOnlyByCut'
  BY <1>1 DEF PanicsOnlyByCut, Panicked
<1>8. Placed(log)'
  <2>1. SUFFICES ASSUME Tellable PROVE \E k \in 0..Len(log) : At(log, k)'
    BY <1>4 DEF Placed
  <2>2. PICK k \in 0..Len(log) : At(log, k)
    BY <1>1, <1>3, <2>1 DEF Placed, Overrun
  <2>3. /\ k + 1 \in 1..Len(log)
        /\ Mark(log, k + 1) = Len(consumed) /\ Through(log, k + 1) = Len(delivered) + 1
    BY <1>1, <1>3, <2>2, PacketIsNext
  <2>4. k + 1 \in 0..Len(log) /\ Fragment(log, k + 1) \in Nat
    BY <1>3, <2>3, FragmentIs
  <2>5. Len(consumed) \in Nat
    BY HeldInStream
  <2> QED BY <1>1, <1>4, <1>6, <2>3, <2>4, <2>5 DEF At
<1> QED BY <1>1, <1>2, <1>3, <1>4, <1>6, <1>7, <1>8 DEF Placed

-------------------------------------------------------------------------------
\* The steps of the sender.

\* Steps of the sender leave the reader where it is.
LEMMA ReaderStays ==
  ASSUME IInv, LinkTypes, NEW log, Log(log), NEW new, UNCHANGED vars, UNCHANGED delivered,
         Len(new) \in Nat, Len(log) <= Len(new),
         \A k \in 0..Len(log) :
           /\ Mark(new, k) = Mark(log, k) /\ Through(new, k) = Through(log, k)
           /\ Fragment(new, k)' \in Nat /\ Fragment(log, k) <= Fragment(new, k)'
  PROVE  \A k \in 0..Len(log) : At(log, k) => k \in 0..Len(new) /\ At(new, k)'
<1> SUFFICES ASSUME NEW k \in 0..Len(log), At(log, k) PROVE k \in 0..Len(new) /\ At(new, k)'
  OBVIOUS
<1>1. Len(log) \in Nat /\ Fragment(log, k) \in Nat /\ position \in Nat
  BY FragmentIs, HeldInStream
<1>2. position <= Fragment(new, k)'
  BY <1>1 DEF At
<1> QED BY <1>1, <1>2 DEF At, vars

\* The sender begins a frame: nothing of it is in the stream yet.
LEMMA BeginKeeps == ASSUME LinkIInv, NEW f \in Frame, Begin(f) PROVE LinkIInv'
<1> USE DEF LinkIInv
<1>1. /\ UNCHANGED vars /\ UNCHANGED <<wire, cuts, sent, delivered>>
      /\ written = Len(frame) /\ frame' = f /\ written' = 0
  BY DEF Begin, readerVars
<1>2. IInv' /\ LinkTypes' /\ PanicsOnlyByCut'
  <2>1. IInv'
    BY <1>1, CallIInv
  <2>2. LinkTypes'
    BY <1>1, FrameIs DEF LinkTypes
  <2> QED BY <1>1, <2>1, <2>2 DEF PanicsOnlyByCut, vars
<1>3. PICK log \in Seq(Attempt) : Log(log) /\ Placed(log)
  BY DEF Placed
<1>4. Len(frame) \in Nat
  BY FrameIs DEF LinkTypes
<1>5. Stream' = Stream /\ Unfinished = 0 /\ Unfinished' = 0 /\ Start' = Start
  <2>1. Stream' = Stream
    BY <1>1 DEF Stream, vars
  <2>2. Unfinished = 0 /\ Unfinished' = 0
    BY <1>1, <1>4 DEF Unfinished
  <2> QED BY <2>1, <2>2 DEF Start
<1>6. \A k \in 0..Len(log) : Fragment(log, k)' = Fragment(log, k)
  BY <1>5 DEF Fragment
<1>7. Log(log)'
  <2>1. Ends(log)' /\ CutsCounted(log)' /\ Ordered(log)' /\ SyncsAreCuts(log)'
    BY <1>1, <1>3, <1>5 DEF Log, Ends, CutsCounted, Ordered, SyncsAreCuts
  <2>2. FrameBytes(log)'
    <3>1. ASSUME NEW k \in 0..Len(log), NEW i \in 1..Fragment(log, k)
          PROVE  Stream[Mark(log, k) + i] = Coming(log, k)'[i]
      <4>1. k # Len(log)
        BY <1>5, <3>1 DEF Fragment
      <4>2. Coming(log, k)' = Coming(log, k)
        BY <4>1 DEF Coming
      <4> QED BY <1>3, <3>1, <4>2 DEF Log, FrameBytes
    <3> QED BY <1>5, <1>6, <3>1 DEF FrameBytes
  <2> QED BY <1>1, <1>3, <1>5, <2>1, <2>2 DEF Log
<1>8. Placed(log)'
  <2>1. /\ Tellable' <=> Tellable
        /\ Overrun' <=> Overrun
    BY <1>1 DEF Tellable, Distinct, Overrun, Fits, End, vars
  <2>2. ASSUME NEW k \in 0..Len(log), At(log, k) PROVE At(log, k)'
    BY <1>1, <1>6, <2>2 DEF At, vars
  <2> QED BY <1>3, <2>1, <2>2 DEF Placed
<1> QED BY <1>1, <1>2, <1>3, <1>7, <1>8 DEF Placed, vars

\* A byte is put behind the stream.
LEMMA StreamGrows ==
  ASSUME IInv, LinkTypes, NEW b \in Byte, wire' = Append(wire, b), consumed' = consumed
  PROVE  /\ Len(Stream') = Len(Stream) + 1 /\ wire' \in Seq(Byte)
         /\ Stream'[Len(Stream) + 1] = b
         /\ \A i \in 1..Len(Stream) : Stream'[i] = Stream[i]
<1>1. /\ consumed \in Seq(Byte) /\ wire \in Seq(Byte)
      /\ Len(consumed) \in Nat /\ Len(wire) \in Nat /\ Len(Stream) = Len(consumed) + Len(wire)
  BY HeldInStream DEF IInv, TypeOK, LinkTypes
<1> DEFINE w == Append(wire, b)
<1>2. /\ w \in Seq(Byte) /\ Len(w) = Len(wire) + 1 /\ w[Len(wire) + 1] = b
      /\ \A i \in 1..Len(wire) : w[i] = wire[i]
  BY <1>1, AppendProperties
<1> HIDE DEF w
<1>3. Stream' = consumed \o w /\ Stream = consumed \o wire
  BY DEF Stream, w
<1>4. /\ Len(consumed \o w) = Len(consumed) + Len(w)
      /\ \A i \in 1..(Len(consumed) + Len(w)) :
           (consumed \o w)[i] = IF i <= Len(consumed) THEN consumed[i] ELSE w[i - Len(consumed)]
      /\ \A i \in 1..(Len(consumed) + Len(wire)) :
           (consumed \o wire)[i] = IF i <= Len(consumed) THEN consumed[i] ELSE wire[i - Len(consumed)]
  <2>1. w \in Seq(Byte)
    BY <1>2
  <2>2. /\ Len(consumed \o w) = Len(consumed) + Len(w)
        /\ \A i \in 1..(Len(consumed) + Len(w)) :
             (consumed \o w)[i] = IF i <= Len(consumed) THEN consumed[i] ELSE w[i - Len(consumed)]
    BY <1>1, <2>1, ConcatProperties
  <2>3. \A i \in 1..(Len(consumed) + Len(wire)) :
          (consumed \o wire)[i] = IF i <= Len(consumed) THEN consumed[i] ELSE wire[i - Len(consumed)]
    BY <1>1, ConcatProperties
  <2> QED BY <2>2, <2>3
<1>5. Len(Stream') = Len(Stream) + 1
  BY <1>1, <1>2, <1>3, <1>4
<1>6. Stream'[Len(Stream) + 1] = b
  <2>1. /\ Len(Stream) + 1 \in 1..(Len(consumed) + Len(w)) /\ ~(Len(Stream) + 1 <= Len(consumed))
        /\ Len(Stream) + 1 - Len(consumed) = Len(wire) + 1
    BY <1>1, <1>2
  <2> QED BY <1>2, <1>3, <1>4, <2>1
<1>7. ASSUME NEW i \in 1..Len(Stream) PROVE Stream'[i] = Stream[i]
  <2>1. i \in 1..(Len(consumed) + Len(w)) /\ i \in 1..(Len(consumed) + Len(wire))
    BY <1>1, <1>2
  <2>2. ~(i <= Len(consumed)) => w[i - Len(consumed)] = wire[i - Len(consumed)]
    <3>1. ~(i <= Len(consumed)) => i - Len(consumed) \in 1..Len(wire)
      BY <1>1
    <3> QED BY <1>2, <3>1
  <2> QED BY <1>3, <1>4, <2>1, <2>2
<1> QED BY <1>2, <1>5, <1>6, <1>7 DEF w

\* A byte of a frame, not the last one.
LEMMA WriteOnKeeps ==
  ASSUME LinkIInv, Write, written + 1 # Len(frame)
  PROVE  LinkIInv'
<1> USE DEF LinkIInv
<1> DEFINE b == frame[written + 1]
<1>1. /\ UNCHANGED vars /\ UNCHANGED <<frame, cuts, sent, delivered>>
      /\ wire' = Append(wire, b) /\ written' = written + 1 /\ written < Len(frame)
  BY DEF Write, readerVars
<1>2. /\ frame \in Frame /\ Len(frame) \in Nat /\ written \in Nat
      /\ written + 1 \in 1..Len(frame) /\ written + 1 < Len(frame) /\ b \in Byte
  <2>1. frame \in Frame
    <3>1. frame = <<>> => Len(frame) = 0
      OBVIOUS
    <3> QED BY <1>1, <3>1 DEF LinkTypes
  <2>2. frame \in Seq(Byte) /\ Len(frame) \in Nat /\ written \in Nat
    BY <2>1, FrameIs DEF LinkTypes
  <2> QED BY <1>1, <2>1, <2>2
<1>3. PICK log \in Seq(Attempt) : Log(log) /\ Placed(log)
  BY DEF Placed
<1>4. /\ Len(Stream') = Len(Stream) + 1 /\ wire' \in Seq(Byte)
      /\ Stream'[Len(Stream) + 1] = b
      /\ \A i \in 1..Len(Stream) : Stream'[i] = Stream[i]
      /\ Len(Stream) \in Nat
  BY <1>1, <1>2, StreamGrows, HeldInStream DEF vars
<1>5. Unfinished = written /\ Unfinished' = written + 1 /\ Start' = Start
  <2>1. Unfinished = written /\ Unfinished' = written + 1
    BY <1>1, <1>2 DEF Unfinished
  <2> QED BY <1>2, <1>4, <2>1 DEF Start
<1>6. ASSUME NEW k \in 0..Len(log)
      PROVE  /\ Coming(log, k)' = Coming(log, k)
             /\ Fragment(log, k) \in Nat
             /\ Fragment(log, k)' = Fragment(log, k) + IF k = Len(log) THEN 1 ELSE 0
  <2>1. Fragment(log, k) \in Nat
    BY <1>3, FragmentIs
  <2> QED BY <1>1, <1>5, <2>1 DEF Coming, Fragment
<1>7. Log(log)'
  <2>1. Ends(log)'
    <3>1. \A k \in 1..Len(log) : log[k].end \in 1..Len(Stream)
      <4>1. \A k \in 1..Len(log) : k \in 0..Len(log) /\ k # 0
        OBVIOUS
      <4> QED BY <1>3, <4>1, InOldStream DEF Mark
    <3> QED BY <1>1, <1>3, <1>4, <3>1 DEF Log, Ends
  <2>2. FrameBytes(log)'
    <3>1. ASSUME NEW k \in 0..Len(log), NEW i \in 1..Fragment(log, k)'
          PROVE  Stream'[Mark(log, k) + i] = Coming(log, k)[i]
      <4>1. CASE i \in 1..Fragment(log, k)
        <5>1. Mark(log, k) + i \in 1..Len(Stream)
          BY <1>3, <4>1, InOldStream
        <5> QED BY <1>3, <1>4, <4>1, <5>1 DEF Log, FrameBytes
      <4>2. CASE i \notin 1..Fragment(log, k)
        <5>1. k = Len(log) /\ i = Fragment(log, k) + 1
          BY <1>6, <3>1, <4>2
        <5>2. Fragment(log, k) = written /\ Mark(log, k) = Start /\ Coming(log, k) = frame
          BY <1>3, <1>5, <5>1 DEF Fragment, Log, Coming
        <5>3. Mark(log, k) + i = Len(Stream) + 1
          BY <1>2, <1>3, <1>5, <5>1, <5>2, InOldStream
        <5> QED BY <1>4, <5>1, <5>2, <5>3
      <4> QED BY <4>1, <4>2
    <3> QED BY <1>6, <3>1 DEF FrameBytes
  <2>3. CutsCounted(log)' /\ Ordered(log)'
    BY <1>1, <1>3 DEF Log, CutsCounted, Ordered
  <2>4. SyncsAreCuts(log)'
    <3>1. \A p \in 1..Start : p \in 1..Len(Stream)
      <4>1. Len(log) \in 0..Len(log)
        BY <1>3, FragmentIs
      <4> QED BY <1>3, <1>4, <4>1, InOldStream
    <3> QED BY <1>3, <1>4, <1>5, <3>1 DEF Log, SyncsAreCuts
  <2> QED BY <1>1, <1>3, <1>5, <2>1, <2>2, <2>3, <2>4 DEF Log
<1>8. Placed(log)'
  <2>1. /\ Tellable' <=> Tellable
        /\ Overrun' <=> Overrun
    BY <1>1 DEF Tellable, Distinct, Overrun, Fits, End, vars
  <2>2. \A k \in 0..Len(log) : At(log, k) => At(log, k)'
    <3>1. \A k \in 0..Len(log) : Fragment(log, k)' \in Nat /\ Fragment(log, k) <= Fragment(log, k)'
      BY <1>6
    <3>2. position \in Nat
      BY HeldInStream
    <3> QED BY <1>1, <1>6, <3>1, <3>2 DEF At, vars
  <2> QED BY <1>3, <2>1, <2>2 DEF Placed
<1>9. IInv' /\ LinkTypes' /\ PanicsOnlyByCut'
  <2>1. IInv'
    BY <1>1, CallIInv
  <2>2. LinkTypes'
    <3>1. written' \in 0..Len(frame')
      BY <1>1, <1>2
    <3> QED BY <1>1, <1>2, <1>4, <3>1 DEF LinkTypes
  <2> QED BY <1>1, <2>1, <2>2 DEF PanicsOnlyByCut, vars
<1> QED BY <1>1, <1>3, <1>7, <1>8, <1>9 DEF Placed, vars

\* The byte that ends an attempt: the last one of a frame, or the sync byte
\* after a cut.
EndsAttempt(b, a) ==
  /\ UNCHANGED vars /\ UNCHANGED delivered
  /\ frame \in Frame /\ written \in Nat /\ written < Len(frame)
  /\ b \in Byte /\ wire' = Append(wire, b) /\ Unfinished' = 0
  /\ a \in Attempt /\ a.frame = frame /\ a.end = Len(Stream) + 1
  /\ IF a.cut
     THEN /\ b = SYNC /\ written >= 2
          /\ cuts' = cuts + 1 /\ sent' = sent /\ a.through = Len(sent)
     ELSE /\ b = frame[written + 1] /\ written + 1 = Len(frame)
          /\ cuts' = cuts /\ sent' = Append(sent, frame) /\ a.through = Len(sent) + 1

\* It adds an attempt to the log.
LEMMA LogGrows ==
  ASSUME IInv, LinkTypes, NEW log, Log(log), NEW b, NEW a, EndsAttempt(b, a)
  PROVE  /\ Log(Append(log, a))' /\ Len(Append(log, a)) = Len(log) + 1
         /\ \A k \in 0..Len(log) :
              /\ Mark(Append(log, a), k) = Mark(log, k)
              /\ Through(Append(log, a), k) = Through(log, k)
              /\ Fragment(Append(log, a), k)' \in Nat
              /\ Fragment(log, k) <= Fragment(Append(log, a), k)'
<1> DEFINE new == Append(log, a)
           n == Len(log)
<1>1. log \in Seq(Attempt) /\ n \in Nat /\ a \in Attempt
  BY DEF Log, EndsAttempt
<1>2. /\ new \in Seq(Attempt) /\ Len(new) = n + 1 /\ new[n + 1] = a
      /\ \A k \in 1..n : new[k] = log[k]
  BY <1>1, AppendProperties
<1> HIDE DEF new
<1>3. /\ \A k \in 0..n : Mark(new, k) = Mark(log, k) /\ Through(new, k) = Through(log, k)
      /\ Mark(new, n + 1) = a.end /\ Through(new, n + 1) = a.through
  <2>1. \A k \in 0..n : k # 0 => k \in 1..n
    BY <1>1
  <2> QED BY <1>1, <1>2, <2>1 DEF Mark, Through
<1>4. /\ Len(Stream') = Len(Stream) + 1
      /\ Stream'[Len(Stream) + 1] = b
      /\ \A i \in 1..Len(Stream) : Stream'[i] = Stream[i]
      /\ Len(Stream) \in Nat
  BY StreamGrows, HeldInStream DEF EndsAttempt, vars
<1>5. /\ Unfinished = written /\ Start \in Nat /\ Start + written = Len(Stream)
      /\ Start' = Len(Stream) + 1 /\ written \in Nat /\ a.end = Start + written + 1
      /\ Mark(log, n) = Start /\ Through(log, n) = Len(sent) /\ Len(sent) \in Nat
      /\ n \in 0..n
  <2>1. Unfinished = written
    BY DEF EndsAttempt, Unfinished
  <2>2. n \in 0..n
    BY <1>1
  <2>3. Start \in Nat /\ Start + Unfinished = Len(Stream)
    BY <2>2, InOldStream
  <2>4. Start' = Len(Stream) + 1
    BY <1>4 DEF Start, EndsAttempt
  <2>5. Mark(log, n) = Start /\ Through(log, n) = Len(sent) /\ Len(sent) \in Nat
    BY DEF Log, LinkTypes
  <2>6. written \in Nat /\ a.end = Len(Stream) + 1
    BY DEF EndsAttempt
  <2> QED BY <2>1, <2>2, <2>3, <2>4, <2>5, <2>6
<1>6. /\ frame \in Frame /\ Len(frame) \in Nat /\ Len(frame) >= 2 /\ a.frame = frame
      /\ written + 1 <= Len(frame) /\ written + 1 >= 2 /\ a.cut \in BOOLEAN
  <2>1. frame \in Frame /\ Len(frame) \in Nat /\ Len(frame) >= 2
    BY FrameIs DEF EndsAttempt
  <2>2. a.cut \in BOOLEAN
    BY DEF EndsAttempt, Attempt
  <2> QED BY <1>5, <2>1, <2>2 DEF EndsAttempt
<1>7. ASSUME NEW k \in 0..n
      PROVE  /\ Fragment(log, k) \in Nat /\ Fragment(new, k)' \in Nat
             /\ Fragment(log, k) <= Fragment(new, k)'
             /\ Coming(new, k)' = Coming(log, k)
             /\ k # n => Fragment(new, k)' = Fragment(log, k)
             /\ k = n => /\ Fragment(log, k) = written
                         /\ Fragment(new, k)' = IF a.cut THEN written ELSE written + 1
  <2>1. Fragment(log, k) \in Nat
    BY FragmentIs
  <2>2. k # Len(new) /\ Len(new)' = Len(new)
    BY <1>1, <1>2
  <2>3. CASE k = n
    <3>1. Fragment(log, k) = written /\ Coming(log, k) = frame
      BY <1>5, <2>3 DEF Fragment, Coming
    <3>2. new[k + 1] = a
      BY <1>2, <2>3
    <3>3. Fragment(new, k)' = IF a.cut THEN a.end - Mark(new, k) - 1 ELSE Len(a.frame)
      BY <2>2, <3>2 DEF Fragment
    <3>4. Coming(new, k)' = frame
      BY <1>6, <2>2, <3>2 DEF Coming
    <3>5. a.cut => a.end - Mark(new, k) - 1 = written
      BY <1>3, <1>5, <2>3
    <3>6. ~a.cut => Len(a.frame) = written + 1
      BY <1>6 DEF EndsAttempt
    <3>7. Fragment(new, k)' = IF a.cut THEN written ELSE written + 1
      BY <3>3, <3>5, <3>6
    <3> QED BY <1>5, <2>1, <2>3, <3>1, <3>4, <3>7
  <2>4. CASE k # n
    <3>1. k + 1 \in 1..n
      BY <1>1, <2>4
    <3>2. new[k + 1] = log[k + 1]
      BY <1>2, <3>1
    <3>3. Fragment(new, k)' = Fragment(log, k) /\ Coming(new, k)' = Coming(log, k)
      BY <1>3, <2>2, <2>4, <3>2 DEF Fragment, Coming
    <3> QED BY <2>1, <2>4, <3>3
  <2> QED BY <2>3, <2>4
<1>8. Fragment(new, n + 1)' = 0
  BY <1>2 DEF Fragment, EndsAttempt
<1>9. Ends(new)'
  <2>1. ASSUME NEW k \in 1..n
        PROVE  /\ log[k].end \in 1..Len(Stream)
               /\ k - 1 \in 0..n /\ k \in 0..n
               /\ ~log[k].cut => log[k].through \in 1..Len(sent)
    <3>1. k \in 0..n /\ k # 0 /\ k - 1 \in 0..n
      BY <1>1
    <3>2. /\ Mark(log, k) = log[k].end /\ Through(log, k) = log[k].through
      BY <3>1 DEF Mark, Through
    <3>3. log[k].through <= Len(sent) /\ log[k].end \in 1..Len(Stream)
      BY <3>1, <3>2, InOldStream
    <3>4. ~log[k].cut => log[k].through = Through(log, k - 1) + 1
      BY DEF Log, Ends
    <3>5. Through(log, k - 1) \in Nat
      BY <3>1, FragmentIs
    <3> QED BY <1>5, <3>1, <3>3, <3>4, <3>5
  <2>2. cuts \in Nat /\ cuts' \in Nat /\ cuts <= cuts' /\ (a.cut => cuts' > 0)
    BY <1>6 DEF EndsAttempt, LinkTypes
  <2>3. \A m \in 1..Len(sent) : sent'[m] = sent[m]
    <3>1. sent \in Seq(Frame)
      BY DEF LinkTypes
    <3>2. sent' = sent \/ sent' = Append(sent, frame)
      BY DEF EndsAttempt
    <3>3. \A m \in 1..Len(sent) : Append(sent, frame)[m] = sent[m]
      BY <1>6, <3>1, AppendProperties
    <3> QED BY <3>2, <3>3
  <2>4. ASSUME NEW k \in 1..n
        PROVE  IF new[k].cut
               THEN /\ cuts' > 0
                    /\ Stream'[new[k].end] = SYNC
                    /\ new[k].end >= Mark(new, k - 1) + 3
                    /\ new[k].end <= Mark(new, k - 1) + Len(new[k].frame)
                    /\ new[k].through = Through(new, k - 1)
               ELSE /\ new[k].end = Mark(new, k - 1) + Len(new[k].frame)
                    /\ new[k].through = Through(new, k - 1) + 1
                    /\ sent'[new[k].through] = new[k].frame
    <3>1. new[k] = log[k] /\ Mark(new, k - 1) = Mark(log, k - 1) /\ Through(new, k - 1) = Through(log, k - 1)
      BY <1>2, <1>3, <2>1
    <3>2. CASE log[k].cut
      <4>1. /\ cuts > 0 /\ Stream[log[k].end] = SYNC
            /\ log[k].end >= Mark(log, k - 1) + 3
            /\ log[k].end <= Mark(log, k - 1) + Len(log[k].frame)
            /\ log[k].through = Through(log, k - 1)
        BY <3>2 DEF Log, Ends
      <4>2. cuts' > 0
        BY <2>2, <4>1
      <4>3. Stream'[log[k].end] = SYNC
        BY <1>4, <2>1, <4>1
      <4> QED BY <3>1, <3>2, <4>1, <4>2, <4>3
    <3>3. CASE ~log[k].cut
      <4>1. /\ log[k].end = Mark(log, k - 1) + Len(log[k].frame)
            /\ log[k].through = Through(log, k - 1) + 1
            /\ sent[log[k].through] = log[k].frame
        BY <3>3 DEF Log, Ends
      <4>2. sent'[log[k].through] = log[k].frame
        BY <2>1, <2>3, <3>3, <4>1
      <4> QED BY <3>1, <3>3, <4>1, <4>2
    <3> QED BY <3>2, <3>3
  <2>5. /\ (n + 1) - 1 = n /\ n \in 0..n /\ Mark(new, n) = Start /\ Through(new, n) = Len(sent)
    BY <1>1, <1>3, <1>5
  <2>6. CASE a.cut
    <3>1. b = SYNC /\ written >= 2 /\ a.through = Len(sent)
      BY <2>6 DEF EndsAttempt
    <3>2. Stream'[a.end] = SYNC
      BY <1>4, <3>1 DEF EndsAttempt
    <3>3. a.end >= Start + 3 /\ a.end <= Start + Len(a.frame)
      BY <1>5, <1>6, <3>1
    <3> QED
      <4>1. \A k \in 1..Len(new) : k \in 1..n \/ k = n + 1
        BY <1>1, <1>2
      <4> QED BY <1>2, <2>2, <2>4, <2>5, <2>6, <3>1, <3>2, <3>3, <4>1 DEF Ends
  <2>7. CASE ~a.cut
    <3>1. /\ written + 1 = Len(frame) /\ a.through = Len(sent) + 1
          /\ sent' = Append(sent, frame)
      BY <2>7 DEF EndsAttempt
    <3>2. sent'[a.through] = a.frame
      BY <1>6, <3>1 DEF LinkTypes
    <3>3. a.end = Start + Len(a.frame)
      <4>1. Len(a.frame) = written + 1 /\ a.end = Start + written + 1
        BY <1>5, <1>6, <3>1
      <4> QED BY <1>5, <4>1
    <3> QED
      <4>1. \A k \in 1..Len(new) : k \in 1..n \/ k = n + 1
        BY <1>1, <1>2
      <4> QED BY <1>2, <2>4, <2>5, <2>7, <3>1, <3>2, <3>3, <4>1 DEF Ends
  <2> QED BY <2>6, <2>7
<1>10. FrameBytes(new)'
  <2>1. ASSUME NEW k \in 0..n, NEW i \in 1..Fragment(new, k)'
        PROVE  Stream'[Mark(log, k) + i] = Coming(log, k)[i]
    <3>1. CASE i \in 1..Fragment(log, k)
      <4>1. Mark(log, k) + i \in 1..Len(Stream)
        BY <3>1, InOldStream
      <4>2. Stream[Mark(log, k) + i] = Coming(log, k)[i]
        BY <3>1 DEF Log, FrameBytes
      <4> QED BY <1>4, <4>1, <4>2
    <3>2. CASE i \notin 1..Fragment(log, k)
      <4>1. k = n /\ ~a.cut /\ i = written + 1
        BY <1>5, <1>6, <1>7, <2>1, <3>2
      <4>2. b = frame[written + 1] /\ Coming(log, k) = frame
        BY <4>1 DEF EndsAttempt, Coming
      <4>3. Mark(log, k) + i = Len(Stream) + 1
        BY <1>5, <4>1
      <4> QED BY <1>4, <4>1, <4>2, <4>3
    <3> QED BY <3>1, <3>2
  <2>2. \A k \in 0..Len(new) : k \in 0..n \/ k = n + 1
    BY <1>1, <1>2
  <2>3. Len(new)' = Len(new)
    OBVIOUS
  <2>4. \A k \in 0..n : Mark(new, k) = Mark(log, k) /\ Coming(new, k)' = Coming(log, k)
    BY <1>3, <1>7
  <2>5. \A i \in 1..Fragment(new, n + 1)' : FALSE
    BY <1>8
  <2> QED BY <2>1, <2>2, <2>4, <2>5 DEF FrameBytes
<1>11. Ordered(new)'
  <2>1. ASSUME NEW i \in 0..n
        PROVE  /\ Mark(log, i) + 2 <= a.end /\ Through(log, i) <= a.through
               /\ Through(log, i) # a.through => \E k \in (i + 1)..(n + 1) : ~new[k].cut
    <3>1. /\ Mark(log, i) <= Start /\ Through(log, i) <= Len(sent)
          /\ Mark(log, i) \in Nat /\ Through(log, i) \in Nat /\ i \in Nat /\ i <= n
      BY FragmentIs, InOldStream
    <3>2. Mark(log, i) + 2 <= a.end
      BY <1>5, <1>6, <3>1
    <3>3. CASE ~a.cut
      <4>1. a.through = Len(sent) + 1
        BY <3>3 DEF EndsAttempt
      <4>2. n + 1 \in (i + 1)..(n + 1) /\ ~new[n + 1].cut
        BY <1>1, <1>2, <3>1, <3>3
      <4> QED BY <1>5, <3>1, <3>2, <4>1, <4>2
    <3>4. CASE a.cut
      <4>1. a.through = Len(sent)
        BY <3>4 DEF EndsAttempt
      <4>2. ASSUME Through(log, i) # Len(sent)
            PROVE  \E k \in (i + 1)..(n + 1) : ~new[k].cut
        <5>1. i < n
          BY <1>1, <1>5, <3>1, <4>2
        <5>2. PICK k \in (i + 1)..n : ~log[k].cut
          BY <1>5, <4>2, <5>1 DEF Log, Ordered
        <5>3. k \in 1..n /\ k \in (i + 1)..(n + 1)
          BY <1>1, <3>1, <5>2
        <5> QED BY <1>2, <5>2, <5>3
      <4> QED BY <3>1, <3>2, <4>1, <4>2
    <3> QED BY <1>6, <3>3, <3>4
  <2>2. ASSUME NEW i \in 0..n, NEW j \in 0..n, i < j
        PROVE  /\ Mark(new, i) + 2 <= Mark(new, j) /\ Through(new, i) <= Through(new, j)
               /\ Through(new, i) # Through(new, j) => \E k \in (i + 1)..j : ~new[k].cut
    <3>1. /\ Mark(log, i) + 2 <= Mark(log, j) /\ Through(log, i) <= Through(log, j)
          /\ Through(log, i) # Through(log, j) => \E k \in (i + 1)..j : ~log[k].cut
      BY <2>2 DEF Log, Ordered
    <3>2. \A k \in (i + 1)..j : k \in 1..n
      BY <1>1
    <3> QED BY <1>2, <1>3, <3>1, <3>2
  <2>3. \A k \in 0..Len(new) : k \in 0..n \/ k = n + 1
    BY <1>1, <1>2
  <2>4. \A i, j \in 0..Len(new) : i < j => i \in 0..n /\ (j \in 0..n \/ j = n + 1)
    BY <1>1, <1>2
  <2>5. ASSUME NEW i \in 0..n
        PROVE  /\ Mark(new, i) + 2 <= Mark(new, n + 1) /\ Through(new, i) <= Through(new, n + 1)
               /\ Through(new, i) # Through(new, n + 1) => \E k \in (i + 1)..(n + 1) : ~new[k].cut
    BY <1>3, <2>1
  <2> QED BY <2>2, <2>4, <2>5 DEF Ordered
<1>12. CutsCounted(new)'
  <2>1. cuts \in Nat /\ cuts' \in Nat /\ cuts <= cuts' /\ (a.cut => cuts' = cuts + 1)
    BY <1>6 DEF EndsAttempt, LinkTypes
  <2>2. \A k, l \in 1..n : log[k].cut /\ log[l].cut /\ k # l => cuts' > 1
    BY <2>1 DEF Log, CutsCounted
  <2>3. \A k \in 1..n : log[k].cut /\ a.cut => cuts' > 1
    BY <2>1 DEF Log, Ends
  <2>4. \A k \in 1..Len(new) : (k \in 1..n /\ new[k] = log[k]) \/ (k = n + 1 /\ new[k] = a)
    BY <1>1, <1>2
  <2> QED BY <2>2, <2>3, <2>4 DEF CutsCounted
<1>13. SyncsAreCuts(new)'
  <2> SUFFICES ASSUME NoFrameHasSync, NEW p \in 1..Start', Stream'[p] = SYNC
               PROVE  \E k \in 1..Len(new) : new[k].cut /\ new[k].end = p
    BY DEF SyncsAreCuts
  <2>1. NoSync(frame)
    BY <1>6 DEF NoFrameHasSync
  <2>2. CASE p \in 1..Start
    <3>1. p \in 1..Len(Stream)
      BY <1>4, <1>5, <2>2
    <3>2. PICK k \in 1..n : log[k].cut /\ log[k].end = p
      BY <1>4, <2>2, <3>1 DEF Log, SyncsAreCuts
    <3> QED BY <1>1, <1>2, <3>2
  <2>3. CASE p \in (Start + 1)..Len(Stream)
    <3>1. p - Start \in 1..written /\ p = Start + (p - Start) /\ p \in 1..Len(Stream)
      BY <1>4, <1>5, <2>3
    <3>2. Stream[p] = frame[p - Start]
      <4>1. Fragment(log, n) = written /\ Coming(log, n) = frame
        BY <1>5 DEF Fragment, Coming
      <4> QED BY <1>5, <3>1, <4>1 DEF Log, FrameBytes
    <3>3. p - Start \in 1..Len(frame)
      BY <1>5, <1>6, <3>1
    <3> QED BY <1>4, <2>1, <3>1, <3>2, <3>3 DEF NoSync
  <2>4. CASE p = Len(Stream) + 1
    <3>1. CASE a.cut
      <4>1. n + 1 \in 1..Len(new)
        BY <1>1, <1>2
      <4> QED BY <1>2, <2>4, <3>1, <4>1 DEF EndsAttempt
    <3>2. CASE ~a.cut
      <4>1. b = frame[written + 1] /\ written + 1 \in 1..Len(frame)
        BY <1>5, <1>6, <3>2 DEF EndsAttempt
      <4> QED BY <1>4, <2>1, <2>4, <4>1 DEF NoSync
    <3> QED BY <1>6, <3>1, <3>2
  <2> QED BY <1>4, <1>5, <2>2, <2>3, <2>4
<1>14. Mark(new, Len(new)) = Start' /\ Through(new, Len(new)) = Len(sent')
  <2>1. Mark(new, Len(new)) = Start'
    BY <1>2, <1>3, <1>5 DEF EndsAttempt
  <2>2. Len(sent') = a.through
    <3>1. Len(Append(sent, frame)) = Len(sent) + 1
      BY <1>6 DEF LinkTypes
    <3> QED BY <3>1 DEF EndsAttempt
  <2> QED BY <1>2, <1>3, <2>1, <2>2
<1>15. Log(new)'
  BY <1>2, <1>9, <1>10, <1>11, <1>12, <1>13, <1>14 DEF Log
<1> QED BY <1>2, <1>3, <1>7, <1>15 DEF new

\* The end of an attempt leaves the reader where it is.
LEMMA AttemptKeeps ==
  ASSUME LinkIInv, NEW b, NEW a, EndsAttempt(b, a),
         frame' \in Frame \cup {<<>>}, written' \in 0..Len(frame'), cuts' <= MaxCuts
  PROVE  LinkIInv'
<1> USE DEF LinkIInv
<1>1. UNCHANGED vars /\ UNCHANGED delivered
  BY DEF EndsAttempt
<1>2. PICK log \in Seq(Attempt) : Log(log) /\ Placed(log)
  BY DEF Placed
<1> DEFINE new == Append(log, a)
<1>3. /\ Log(new)' /\ Len(new) = Len(log) + 1
      /\ \A k \in 0..Len(log) :
           /\ Mark(new, k) = Mark(log, k) /\ Through(new, k) = Through(log, k)
           /\ Fragment(new, k)' \in Nat /\ Fragment(log, k) <= Fragment(new, k)'
  BY <1>2, LogGrows
<1>4. new \in Seq(Attempt)
  BY <1>2, AppendProperties DEF EndsAttempt
<1> HIDE DEF new
<1>5. /\ cuts \in Nat /\ cuts' \in Nat /\ cuts <= cuts'
      /\ Len(sent) \in Nat /\ Len(sent') \in Nat /\ Len(sent) <= Len(sent') /\ sent' \in Seq(Frame)
  <2>1. cuts \in Nat /\ sent \in Seq(Frame) /\ Len(sent) \in Nat /\ frame \in Frame
    BY DEF EndsAttempt, LinkTypes
  <2>2. cuts' \in Nat /\ cuts <= cuts'
    BY <2>1 DEF EndsAttempt
  <2>3. sent' = sent \/ sent' = Append(sent, frame)
    BY DEF EndsAttempt
  <2>4. Append(sent, frame) \in Seq(Frame) /\ Len(Append(sent, frame)) = Len(sent) + 1
    BY <2>1, AppendProperties
  <2>5. Len(sent') \in Nat /\ Len(sent) <= Len(sent') /\ sent' \in Seq(Frame)
    <3>1. CASE sent' = sent
      BY <2>1, <3>1
    <3>2. CASE sent' = Append(sent, frame)
      BY <2>1, <2>4, <3>2
    <3> QED BY <2>3, <3>1, <3>2
  <2> QED BY <2>1, <2>2, <2>5
<1>6. IInv' /\ LinkTypes' /\ PanicsOnlyByCut'
  <2>1. IInv'
    BY <1>1, CallIInv
  <2>2. wire' \in Seq(Byte)
    BY StreamGrows DEF EndsAttempt, vars
  <2>3. LinkTypes'
    BY <1>1, <1>5, <2>2 DEF LinkTypes
  <2>4. PanicsOnlyByCut'
    BY <1>1, <1>5 DEF PanicsOnlyByCut, vars
  <2> QED BY <2>1, <2>3, <2>4
<1>7. Placed(new)'
  <2>1. SUFFICES ASSUME Tellable' PROVE Overrun' \/ \E k \in 0..Len(new) : At(new, k)'
    BY DEF Placed
  <2>2. Tellable
    BY <1>5, <2>1 DEF Tellable, Distinct
  <2>3. CASE Overrun
    <3>1. Len(delivered) \in Nat
      BY DEF LinkTypes
    <3>2. Len(delivered') <= Len(sent') /\ cuts' > 0
      BY <1>1, <1>5, <2>3, <3>1 DEF Overrun
    <3> QED BY <1>1, <2>3, <3>2 DEF Overrun, End, Fits, vars
  <2>4. ASSUME NEW k \in 0..Len(log), At(log, k) PROVE \E c \in 0..Len(new) : At(new, c)'
    <3>1. Len(log) \in Nat /\ Len(new) \in Nat /\ Len(log) <= Len(new)
      BY <1>2, <1>3
    <3> QED BY <1>1, <1>2, <1>3, <2>4, <3>1, ReaderStays
  <2> QED BY <1>2, <2>2, <2>3, <2>4 DEF Placed
<1> QED BY <1>1, <1>3, <1>4, <1>6, <1>7 DEF Placed, vars

\* The last byte of a frame.
LEMMA WriteEndKeeps ==
  ASSUME LinkIInv, Write, written + 1 = Len(frame)
  PROVE  LinkIInv'
<1> DEFINE b == frame[written + 1]
           a == [frame |-> frame, end |-> Len(Stream) + 1, through |-> Len(sent) + 1, cut |-> FALSE]
<1>1. /\ UNCHANGED vars /\ UNCHANGED <<frame, cuts, delivered>>
      /\ wire' = Append(wire, b) /\ written' = written + 1 /\ written < Len(frame)
      /\ sent' = Append(sent, frame)
  BY DEF Write, readerVars
<1>2. /\ frame \in Frame /\ Len(frame) \in Nat /\ written \in Nat /\ b \in Byte
  <2>1. frame \in Frame
    <3>1. frame = <<>> => Len(frame) = 0
      OBVIOUS
    <3> QED BY <1>1, <3>1 DEF LinkIInv, LinkTypes
  <2>2. frame \in Seq(Byte) /\ Len(frame) \in Nat /\ written \in Nat
    BY <2>1, FrameIs DEF LinkIInv, LinkTypes
  <2> QED BY <1>1, <2>1, <2>2
<1>3. Unfinished' = 0
  BY <1>1, <1>2 DEF Unfinished
<1>4. a \in Attempt
  BY <1>2, HeldInStream DEF Attempt, LinkIInv, LinkTypes
<1>5. EndsAttempt(b, a)
  BY <1>1, <1>2, <1>3, <1>4 DEF EndsAttempt
<1>6. frame' \in Frame \cup {<<>>} /\ written' \in 0..Len(frame') /\ cuts' <= MaxCuts
  BY <1>1, <1>2 DEF LinkIInv, LinkTypes
<1> QED BY <1>5, <1>6, AttemptKeeps

\* The sync byte after a cut.
LEMMA CutKeeps == ASSUME LinkIInv, Cut PROVE LinkIInv'
<1> DEFINE a == [frame |-> frame, end |-> Len(Stream) + 1, through |-> Len(sent), cut |-> TRUE]
<1>1. /\ UNCHANGED vars /\ UNCHANGED <<sent, delivered>>
      /\ wire' = Append(wire, SYNC) /\ frame' = <<>> /\ written' = 0 /\ cuts' = cuts + 1
      /\ cuts < MaxCuts /\ written \in 2..(Len(frame) - 1)
  BY DEF Cut, readerVars
<1>2. /\ frame \in Frame /\ Len(frame) \in Nat /\ written \in Nat /\ SYNC \in Byte
      /\ written >= 2 /\ written < Len(frame)
  <2>1. frame \in Frame
    <3>1. frame = <<>> => Len(frame) = 0
      OBVIOUS
    <3> QED BY <1>1, <3>1 DEF LinkIInv, LinkTypes
  <2> QED BY <1>1, <2>1, FrameIs, ByteAssumption
<1>3. Unfinished' = 0
  BY <1>1 DEF Unfinished
<1>4. a \in Attempt
  BY <1>2, HeldInStream DEF Attempt, LinkIInv, LinkTypes
<1>5. EndsAttempt(SYNC, a)
  BY <1>1, <1>2, <1>3, <1>4 DEF EndsAttempt
<1>6. frame' \in Frame \cup {<<>>} /\ written' \in 0..Len(frame') /\ cuts' <= MaxCuts
  BY <1>1, LinkBoundAssumption DEF LinkIInv, LinkTypes
<1> QED BY <1>5, <1>6, AttemptKeeps

-------------------------------------------------------------------------------

LEMMA LinkInitially == LinkInit => LinkIInv
<1> SUFFICES ASSUME LinkInit PROVE LinkIInv
  OBVIOUS
<1>1. /\ consumed = <<>> /\ position = 0 /\ call = "none" /\ state = "Header"
      /\ frame = <<>> /\ written = 0 /\ wire = <<>> /\ cuts = 0 /\ sent = <<>> /\ delivered = <<>>
  BY DEF LinkInit, Init
<1>2. IInv
  BY InitIInv DEF LinkInit
<1>3. LinkTypes
  BY <1>1, LinkBoundAssumption DEF LinkTypes
<1> DEFINE log == SubSeq(<<>>, 1, 0)
<1>4. log = <<>> /\ log \in Seq(Attempt) /\ Len(log) = 0
  BY SubSeqEmpty
<1> HIDE DEF log
<1>5. Stream = <<>> /\ Len(Stream) = 0 /\ Unfinished = 0 /\ Start = 0
  <2>1. Stream = <<>> /\ Unfinished = 0
    BY <1>1, ConcatEmptySeq DEF Stream, Unfinished
  <2> QED BY <2>1 DEF Start
<1>6. Mark(log, 0) = 0 /\ Through(log, 0) = 0 /\ Fragment(log, 0) = 0
  BY <1>4, <1>5 DEF Mark, Through, Fragment
<1>7. Log(log)
  BY <1>1, <1>4, <1>5, <1>6 DEF Log, Ends, FrameBytes, Ordered, CutsCounted, SyncsAreCuts
<1>8. 0 \in 0..Len(log) /\ At(log, 0)
  BY <1>1, <1>4, <1>6 DEF At
<1> QED BY <1>1, <1>2, <1>3, <1>4, <1>7, <1>8 DEF LinkIInv, PanicsOnlyByCut, Panicked

LEMMA LinkStepwise == ASSUME Blocking PROVE LinkIInv /\ [LinkNext]_linkVars => LinkIInv'
<1> SUFFICES ASSUME LinkIInv, [LinkNext]_linkVars PROVE LinkIInv'
  OBVIOUS
<1>1. CASE Write
  BY <1>1, WriteOnKeeps, WriteEndKeeps
<1>2. CASE Cut
  BY <1>2, CutKeeps
<1>3. CASE Read
  BY <1>3, ReadKeeps
<1>4. CASE Stop
  BY <1>4, StopKeeps
<1>5. CASE CallRead
  BY <1>5, CallKeeps
<1>6. CASE Deliver
  BY <1>6, DeliverKeeps
<1>7. ASSUME NEW f \in Frame, Begin(f) PROVE LinkIInv'
  BY <1>7, BeginKeeps
<1>8. CASE UNCHANGED linkVars
  <2>1. UNCHANGED vars /\ UNCHANGED <<frame, written, cuts, sent, wire, delivered>>
    BY <1>8 DEF linkVars, readerVars, senderVars
  <2>2. IInv'
    BY <2>1, CallIInv DEF LinkIInv
  <2>3. PICK log \in Seq(Attempt) : Log(log) /\ Placed(log)
    BY DEF LinkIInv, Placed
  <2>4. /\ Log(log)' /\ (Tellable' <=> Tellable) /\ (Overrun' <=> Overrun)
        /\ \A k \in 0..Len(log) : At(log, k)' <=> At(log, k)
    <3>1. Stream' = Stream
      BY <2>1 DEF Stream, vars
    <3> QED BY <2>1, <2>3, <3>1, LogKept DEF Tellable, Distinct, Overrun, End, Fits, At, vars
  <2>5. LinkTypes' /\ PanicsOnlyByCut'
    BY <2>1 DEF LinkIInv, LinkTypes, PanicsOnlyByCut, vars
  <2> QED BY <2>1, <2>2, <2>3, <2>4, <2>5 DEF LinkIInv, Placed, vars
<1> QED BY <1>1, <1>2, <1>3, <1>4, <1>5, <1>6, <1>7, <1>8 DEF LinkNext, Receive

\* A sender that is never cut off cannot make the reader panic, and one that
\* is cut off only by what the cut leaves in the buffer: end - position is the
\* one place (read_inner), whatever the frames and the order of the calls, on
\* a stream that answers a read with at least one byte.
THEOREM PanicsOnlyAfterCut == ASSUME Blocking PROVE LinkSpec => []PanicsOnlyByCut
<1>1. LinkIInv /\ [LinkNext]_linkVars => LinkIInv'
  BY LinkStepwise
<1>2. LinkIInv => PanicsOnlyByCut
  BY DEF LinkIInv
<1> QED BY <1>1, <1>2, LinkInitially, PTL DEF LinkSpec

-------------------------------------------------------------------------------
\* What is sent and delivered, as a channel.

LEMMA RestGrows ==
  ASSUME NEW s \in Seq(Frame), NEW k \in 0..Len(s), NEW x \in Frame
  PROVE  SubSeq(Append(s, x), k + 1, Len(Append(s, x))) = Append(SubSeq(s, k + 1, Len(s)), x)
<1> DEFINE t == Append(s, x)
<1>1. /\ t \in Seq(Frame) /\ Len(t) = Len(s) + 1 /\ Len(s) \in Nat /\ t[Len(t)] = x
      /\ t = s \o <<x>> /\ <<x>> \in Seq(Frame)
      /\ SubSeq(s, k + 1, Len(s)) \in Seq(Frame)
  BY AppendProperties, AppendIsConcat
<1> HIDE DEF t
<1>2. SubSeq(t, k + 1, Len(t)) = SubSeq(t, k + 1, Len(s)) \o <<x>>
  <2>1. k + 1 \in 1..Len(t) /\ Len(t) \in (k + 1)..Len(t) /\ Len(t) - 1 = Len(s)
    BY <1>1
  <2>2. SubSeq(t, k + 1, Len(t)) = SubSeq(t, k + 1, Len(t) - 1) \o <<t[Len(t)]>>
    BY <1>1, <2>1, SubSeqRecursiveSecond
  <2> QED BY <1>1, <2>1, <2>2
<1>3. SubSeq(t, k + 1, Len(s)) = SubSeq(s, k + 1, Len(s))
  BY <1>1, SubSeqOfConcat1, SubSeqEmpty
<1>4. Append(SubSeq(s, k + 1, Len(s)), x) = SubSeq(s, k + 1, Len(s)) \o <<x>>
  BY <1>1, AppendIsConcat
<1> QED BY <1>2, <1>3, <1>4 DEF t

\* No more frames are delivered than were sent.
LEMMA DeliveredWereSent ==
  ASSUME LinkIInv, Tellable
  PROVE  Len(delivered) \in 0..Len(sent) /\ Len(sent) \in Nat /\ sent \in Seq(Frame)
<1>1. Len(delivered) \in Nat /\ Len(sent) \in Nat /\ sent \in Seq(Frame)
  BY DEF LinkIInv, LinkTypes
<1>2. PICK log \in Seq(Attempt) : Log(log) /\ Placed(log)
  BY DEF LinkIInv, Placed
<1>3. ASSUME NEW k \in 0..Len(log), At(log, k) PROVE Len(delivered) <= Len(sent)
  BY <1>2, <1>3, InOldStream DEF LinkIInv, At
<1> QED BY <1>1, <1>2, <1>3 DEF Placed, Overrun

\* The last byte of a frame puts the frame into the channel.
LEMMA SendsIt ==
  ASSUME LinkIInv, Tellable, Write
  PROVE  [Channel!Next]_(Channel!vars)
<1>1. CASE written + 1 # Len(frame)
  <2>1. UNCHANGED <<sent, delivered>>
    BY <1>1 DEF Write
  <2> QED BY <2>1 DEF Channel!vars
<1>2. CASE written + 1 = Len(frame)
  <2>1. sent' = Append(sent, frame) /\ UNCHANGED delivered /\ written < Len(frame)
    BY <1>2 DEF Write
  <2>2. frame \in Frame
    <3>1. frame = <<>> => Len(frame) = 0
      OBVIOUS
    <3>2. written \in Nat
      BY FrameIs DEF LinkIInv, LinkTypes
    <3> QED BY <2>1, <3>1, <3>2 DEF LinkIInv, LinkTypes
  <2>3. SubSeq(sent', Len(delivered') + 1, Len(sent'))
          = Append(SubSeq(sent, Len(delivered) + 1, Len(sent)), frame)
    BY <2>1, <2>2, DeliveredWereSent, RestGrows
  <2>4. Channel!Put(frame)
    BY <2>1, <2>3 DEF Channel!Put
  <2> QED BY <2>2, <2>4 DEF Channel!Next
<1> QED BY <1>1, <1>2

\* The packet taken is the oldest frame of the channel.
LEMMA DeliversIt ==
  ASSUME LinkIInv, Tellable, Deliver
  PROVE  Channel!Take
<1>1. /\ state = "Completed" /\ delivered' = Append(delivered, packet) /\ UNCHANGED sent
  BY DEF Deliver, LinkIInv, senderVars
<1>2. PICK log \in Seq(Attempt) : Log(log) /\ Placed(log)
  BY DEF LinkIInv, Placed
<1>3. PICK k \in 0..Len(log) : At(log, k)
  BY <1>1, <1>2 DEF Placed, Overrun
<1>4. /\ Len(delivered) + 1 \in 1..Len(sent) /\ packet = sent[Len(delivered) + 1]
      /\ packet \in Frame
  BY <1>1, <1>2, <1>3, PacketIsNext DEF LinkIInv
<1>5. sent \in Seq(Frame) /\ Len(sent) \in Nat /\ Len(delivered) \in Nat /\ delivered \in Seq(Seq(Byte))
  BY DEF LinkIInv, LinkTypes
<1> DEFINE q == SubSeq(sent, Len(delivered) + 1, Len(sent))
<1>6. /\ Head(q) = sent[Len(delivered) + 1]
      /\ Tail(q) = SubSeq(sent, (Len(delivered) + 1) + 1, Len(sent))
  <2>1. Len(sent) \in (Len(delivered) + 1)..Len(sent)
    BY <1>4, <1>5
  <2> QED BY <1>4, <1>5, <2>1, HeadTailOfSubSeq
<1>7. q # <<>>
  <2>1. Len(q) = Len(sent) - (Len(delivered) + 1) + 1 /\ Len(q) > 0
    BY <1>4, <1>5, SubSeqProperties
  <2>2. Len(<<>>) = 0
    OBVIOUS
  <2> HIDE DEF q
  <2>3. q = <<>> => Len(q) = 0
    BY <2>2
  <2> QED BY <2>1, <2>3
<1>8. /\ packet \in Seq(Byte)
  BY <1>4, FrameIs
<1>9. /\ Len(delivered') = Len(delivered) + 1 /\ delivered' # <<>>
      /\ delivered'[Len(delivered')] = packet
  <2>1. /\ Len(delivered') = Len(delivered) + 1 /\ delivered'[Len(delivered) + 1] = packet
    BY <1>1, <1>5, <1>8, AppendProperties
  <2>2. delivered' = <<>> => Len(delivered') = 0
    OBVIOUS
  <2> QED BY <1>5, <2>1, <2>2
<1> HIDE DEF q
<1>10. SubSeq(sent', Len(delivered') + 1, Len(sent')) = Tail(q)
  BY <1>1, <1>6, <1>9
<1> QED BY <1>4, <1>6, <1>7, <1>9, <1>10 DEF Channel!Take, q

\* Frames are not lost, repeated, reordered or made up, as far as the reader
\* gets: on a stream that waits, for every set of frames if the sender is never
\* cut off, and else for frames without a sync byte in the header, of lengths
\* that keep a frame sent between two cuts from being hidden behind the last
\* sync byte of a read.  (read_inner: copy_within, position, rposition.)
THEOREM NeverGarbles ==
  ASSUME Blocking, MaxCuts = 0 \/ Distinct PROVE LinkSpec => LinkNeverGarbles
<1>1. LinkIInv /\ [LinkNext]_linkVars => LinkIInv'
  BY LinkStepwise
<1>2. LinkInit => Channel!Init
  <2> SUFFICES ASSUME LinkInit PROVE Channel!Init
    OBVIOUS
  <2>1. sent = <<>> /\ delivered = <<>>
    BY DEF LinkInit
  <2>2. SubSeq(sent, Len(delivered) + 1, Len(sent)) = <<>>
    BY <2>1, SubSeqEmpty
  <2> QED BY <2>1, <2>2 DEF Channel!Init
<1>3. LinkIInv /\ [LinkNext]_linkVars => [Channel!Next]_(Channel!vars)
  <2> SUFFICES ASSUME LinkIInv, [LinkNext]_linkVars PROVE [Channel!Next]_(Channel!vars)
    OBVIOUS
  <2>1. Tellable
    BY DEF Tellable, LinkIInv, LinkTypes
  <2>2. CASE Write
    BY <2>1, <2>2, SendsIt
  <2>3. CASE Deliver
    BY <2>1, <2>3, DeliversIt DEF Channel!Next
  <2>4. CASE UNCHANGED <<sent, delivered>>
    BY <2>4 DEF Channel!vars
  <2>5. ASSUME NEW f \in Frame, Begin(f) PROVE UNCHANGED <<sent, delivered>>
    BY <2>5 DEF Begin
  <2>6. Cut \/ Read \/ Stop \/ CallRead \/ UNCHANGED linkVars => UNCHANGED <<sent, delivered>>
    BY DEF Cut, Read, Stop, CallRead, linkVars, senderVars
  <2> QED BY <2>2, <2>3, <2>4, <2>5, <2>6 DEF LinkNext, Receive
<1> QED
  BY <1>1, <1>2, <1>3, LinkInitially, PTL DEF LinkSpec, LinkNeverGarbles, Channel!SafeSpec

===============================================================================
