--------------------------- MODULE WebStreamProofs ---------------------------
(***************************************************************************)
(* ReadableStreamWrapper, for slices, chunks and streams of every length:  *)
(* its position stays in its Vec, and bytes are left over only behind a    *)
(* chunk longer than the slice.                                            *)
(***************************************************************************)
EXTENDS WebStream, SequenceTheorems, TLAPS

Byte == 1..MaxBytes

\* No chunk in the stream is longer than the longest that arrived.
LongestIsBound == \A k \in 1..Len(stream) : Len(stream[k]) <= longest

IInv == TypeOK /\ LongestIsBound /\ TailOnlyOfLongChunk

\* There is a tail exactly if the position is not at the end.
LEMMA UnreadEmpty ==
  ASSUME NEW vec \in Seq(Byte), NEW from \in 0..Len(vec)
  PROVE  SubSeq(vec, from + 1, Len(vec)) # <<>> <=> from < Len(vec)
<1>1. Len(vec) \in Nat /\ from + 1 \in Nat /\ from \in Nat
  OBVIOUS
<1>2. CASE from < Len(vec)
  <2>1. Len(SubSeq(vec, from + 1, Len(vec))) = Len(vec) - from
    BY <1>1, <1>2
  <2>2. Len(<<>>) = 0 /\ Len(vec) - from # 0
    BY <1>1, <1>2, EmptySeq
  <2> QED BY <1>2, <2>1, <2>2
<1>3. CASE from = Len(vec)
  BY <1>1, <1>3, SubSeqEmpty
<1> QED BY <1>1, <1>2, <1>3

LEMMA Initially == Init => IInv
<1> SUFFICES ASSUME Init PROVE IInv
  OBVIOUS
<1>1. \A S : <<>> \in Seq(S) /\ Len(<<>>) = 0
  BY EmptySeq
<1>2. TypeOK
  <2>1. 0 \in 0..MaxBytes /\ 0 \in 0..MaxChunk
    BY BoundAssumption
  <2>2. stream \in Seq(Seq(1..MaxBytes)) /\ buffer \in Seq(1..MaxBytes) /\ out \in Seq(1..MaxBytes)
    BY <1>1 DEF Init
  <2>3. position \in 0..Len(buffer)
    BY <1>1 DEF Init
  <2> QED BY <2>1, <2>2, <2>3 DEF Init, TypeOK
<1>3. LongestIsBound
  BY <1>1 DEF Init, LongestIsBound
<1>4. TailOnlyOfLongChunk
  BY <1>1, UnreadEmpty DEF Init, TailOnlyOfLongChunk, Unread
<1> QED BY <1>2, <1>3, <1>4 DEF IInv

\* What the end of read does with the bytes of vec: the new position is in the
\* new Vec, and a tail is left only of more bytes than the slice holds.
LEMMA ServeKeeps ==
  ASSUME IInv, NEW vec \in Seq(Byte), Len(vec) >= Len(buffer), Serve(vec)
  PROVE  /\ buffer' \in Seq(Byte) /\ position' \in 0..Len(buffer')
         /\ out' \in Seq(Byte) /\ pc' = "idle"
         /\ Unread' # <<>> => Len(vec) - position > Want
<1> DEFINE left == Len(vec) - position
<1>0. /\ Len(vec) \in Nat /\ position \in Nat /\ position <= Len(vec)
      /\ left \in Nat /\ Want \in Nat /\ Want > 0
  BY WantAssumption DEF IInv, TypeOK
<1>1. Served(left) \in 0..left
  BY <1>0 DEF Served
<1>2. out' \in Seq(Byte)
  <2>1. out \in Seq(Byte)
    BY DEF IInv, TypeOK, Byte
  <2>2. SubSeq(vec, position + 1, position + Served(left)) \in Seq(Byte)
    <3>1. \A k \in (position + 1)..(position + Served(left)) : vec[k] \in Byte
      BY <1>0, <1>1, ElementOfSeq
    <3> QED BY <1>0, <1>1, <3>1, SubSeqProperties
  <2> QED BY <2>1, <2>2, ConcatProperties DEF Serve
<1>3. CASE left \in 1..(Want - 1)
  <2>1. buffer' = <<>> /\ position' = 0 /\ pc' = "idle"
    BY <1>3 DEF Serve, FreshPosition
  <2>2. <<>> \in Seq(Byte) /\ Len(<<>>) = 0
    BY EmptySeq
  <2>3. Unread' = <<>>
    BY <2>1, <2>2, UnreadEmpty DEF Unread
  <2> QED BY <1>2, <2>1, <2>2, <2>3
<1>4. CASE left \notin 1..(Want - 1)
  <2>1. buffer' = vec /\ position' = position + Served(left) /\ pc' = "idle"
    BY <1>4 DEF Serve
  <2>2. position' \in 0..Len(vec)
    BY <1>0, <1>1, <2>1
  <2>3. Unread' # <<>> => position + Served(left) < Len(vec)
    BY <2>1, <2>2, UnreadEmpty DEF Unread
  <2>4. position + Served(left) < Len(vec) => left > Want
    BY <1>0, <1>4 DEF Served
  <2> QED BY <1>2, <2>1, <2>2, <2>3, <2>4
<1> QED BY <1>3, <1>4

\* A chunk leaves the stream: what stays is still bounded.
LEMMA TakeChunk ==
  ASSUME IInv, stream # <<>>
  PROVE  /\ Head(stream) \in Seq(Byte) /\ Len(Head(stream)) <= longest
         /\ Tail(stream) \in Seq(Seq(Byte))
         /\ \A k \in 1..Len(Tail(stream)) : Len(Tail(stream)[k]) <= longest
<1>1. stream \in Seq(Seq(Byte)) /\ \A k \in 1..Len(stream) : Len(stream[k]) <= longest
  BY DEF IInv, TypeOK, LongestIsBound, Byte
<1>2. Len(stream) \in Nat \ {0} /\ Head(stream) = stream[1]
  BY <1>1, EmptySeq
<1>3. stream[1] \in Seq(Byte) /\ Len(stream[1]) <= longest
  BY <1>1, <1>2, ElementOfSeq
<1>4. /\ Tail(stream) \in Seq(Seq(Byte)) /\ Len(Tail(stream)) = Len(stream) - 1
      /\ \A k \in 1..Len(Tail(stream)) : Tail(stream)[k] = stream[k + 1]
  BY <1>1, <1>2, HeadTailProperties
<1>5. \A k \in 1..(Len(stream) - 1) : Len(stream[k + 1]) <= longest
  BY <1>1, <1>2
<1> QED BY <1>2, <1>3, <1>4, <1>5

\* The end of read on a Vec to which at most one chunk was added.
LEMMA ServeIInv ==
  ASSUME IInv, NEW vec \in Seq(Byte), Len(vec) >= Len(buffer), Serve(vec),
         Len(vec) <= Len(buffer) + longest,
         stream' \in Seq(Seq(Byte)), LongestIsBound', UNCHANGED <<portVars, lost>>
  PROVE  IInv'
<1>1. TypeOK'
  BY ServeKeeps DEF IInv, TypeOK, portVars, Byte
<1>2. TailOnlyOfLongChunk'
  <2>1. longest' = longest /\ longest \in Nat /\ Want \in Nat
    BY WantAssumption DEF portVars, IInv, TypeOK
  <2>2. buffer \in Seq(Byte) /\ position \in 0..Len(buffer) /\ Len(buffer) \in Nat /\ Len(vec) \in Nat
    BY DEF IInv, TypeOK, Byte
  <2>3. CASE position < Len(buffer)
    <3>1. Unread # <<>>
      BY <2>2, <2>3, UnreadEmpty DEF Unread
    <3> QED BY <2>1, <3>1 DEF IInv, TailOnlyOfLongChunk
  <2>4. CASE position = Len(buffer)
    <3>1. Len(vec) - position > Want => longest > Want
      BY <2>1, <2>2, <2>4
    <3> QED BY <2>1, <3>1, ServeKeeps DEF TailOnlyOfLongChunk
  <2> QED BY <2>2, <2>3, <2>4
<1> QED BY <1>1, <1>2 DEF IInv

LEMMA Stepwise == IInv /\ [Next]_vars => IInv'
<1> SUFFICES ASSUME IInv, [Next]_vars PROVE IInv'
  OBVIOUS
<1>0. /\ buffer \in Seq(Byte) /\ Len(buffer) \in Nat /\ longest \in Nat
      /\ stream \in Seq(Seq(Byte))
  BY DEF IInv, TypeOK, Byte
\* What does not touch the Vec keeps its tail.
<1>1. ASSUME UNCHANGED <<buffer, position>>, longest' >= longest, longest' \in Nat
      PROVE  TailOnlyOfLongChunk'
  <2>1. Unread' = Unread
    BY <1>1 DEF Unread
  <2>2. Want \in Nat
    BY WantAssumption
  <2> QED BY <1>0, <1>1, <2>1, <2>2 DEF IInv, TailOnlyOfLongChunk
<1>2. ASSUME NEW n \in 1..MaxChunk, Arrive(n) PROVE IInv'
  <2> DEFINE chunk == [k \in 1..n |-> arrived + k]
  <2>1. /\ n \in Nat /\ arrived \in Nat /\ arrived + n <= MaxBytes /\ MaxBytes \in Nat
        /\ MaxChunk \in Nat /\ longest \in 0..MaxChunk /\ arrived \in 0..MaxBytes
    BY <1>2, BoundAssumption DEF Arrive, IInv, TypeOK
  <2>2. \A k \in 1..n : arrived + k \in Byte
    BY <2>1 DEF Byte
  <2>3. chunk \in Seq(Byte) /\ Len(chunk) = n
    BY <2>1, <2>2
  <2> HIDE DEF chunk
  <2>4. /\ stream' = Append(stream, chunk) /\ arrived' = arrived + n
        /\ longest' = IF n > longest THEN n ELSE longest
        /\ UNCHANGED <<readVars, closed, lost>>
    BY <1>2 DEF Arrive, chunk
  <2>5. longest' \in 0..MaxChunk /\ longest' >= longest /\ n <= longest' /\ longest' \in Nat
    BY <2>1, <2>4
  <2>6. /\ stream' \in Seq(Seq(Byte)) /\ Len(stream') = Len(stream) + 1
        /\ \A k \in 1..Len(stream) : stream'[k] = stream[k]
        /\ stream'[Len(stream) + 1] = chunk
    BY <1>0, <2>3, <2>4, AppendProperties
  <2>7. LongestIsBound'
    <3>1. Len(stream) \in Nat
      BY <1>0
    <3>2. ASSUME NEW k \in 1..Len(stream) PROVE Len(stream'[k]) <= longest'
      <4>1. Len(stream[k]) <= longest /\ Len(stream[k]) \in Nat
        BY <1>0, ElementOfSeq, LenProperties DEF IInv, LongestIsBound
      <4> QED BY <1>0, <2>5, <2>6, <4>1
    <3>3. Len(stream'[Len(stream) + 1]) <= longest'
      BY <2>3, <2>5, <2>6
    <3> QED BY <2>6, <3>1, <3>2, <3>3 DEF LongestIsBound
  <2>8. TypeOK'
    <3>1. arrived' \in 0..MaxBytes
      BY <2>1, <2>4
    <3> QED BY <2>4, <2>5, <2>6, <3>1 DEF IInv, TypeOK, readVars, Byte
  <2> QED BY <1>1, <2>4, <2>5, <2>7, <2>8 DEF IInv, readVars
<1>3. ASSUME UNCHANGED <<buffer, position, out, arrived, longest, stream>>,
             closed' \in BOOLEAN, pc' \in {"idle", "select", "failed"}, lost' = lost
      PROVE  IInv'
  BY <1>0, <1>1, <1>3 DEF IInv, TypeOK, LongestIsBound
<1>4. CASE Close
  BY <1>3, <1>4 DEF Close, readVars, IInv, TypeOK
<1>5. CASE Read
  <2>1. CASE Short
    BY <1>3, <1>5, <2>1 DEF Read, portVars, IInv, TypeOK
  <2>2. CASE ~Short
    <3>1. Serve(buffer) /\ UNCHANGED <<portVars, stream, lost>>
      BY <1>5, <2>2 DEF Read
    <3>2. LongestIsBound'
      BY <3>1 DEF portVars, IInv, LongestIsBound
    <3> QED BY <1>0, <3>1, <3>2, ServeIInv
  <2> QED BY <2>1, <2>2
<1>6. CASE ChunkWins
  <2>1. /\ stream # <<>> /\ Serve(buffer \o Head(stream)) /\ stream' = Tail(stream)
        /\ UNCHANGED <<portVars, lost>>
    BY <1>6 DEF ChunkWins
  <2>2. Head(stream) \in Seq(Byte) /\ Len(Head(stream)) <= longest /\ Len(Head(stream)) \in Nat
    BY <2>1, TakeChunk
  <2>3. /\ buffer \o Head(stream) \in Seq(Byte)
        /\ Len(buffer \o Head(stream)) = Len(buffer) + Len(Head(stream))
    BY <1>0, <2>2, ConcatProperties
  <2>4. stream' \in Seq(Seq(Byte)) /\ LongestIsBound'
    BY <2>1, TakeChunk DEF LongestIsBound, portVars
  <2> DEFINE vec == buffer \o Head(stream)
  <2>5. Len(vec) >= Len(buffer) /\ Len(vec) <= Len(buffer) + longest
    BY <1>0, <2>2, <2>3
  <2>6. vec \in Seq(Byte) /\ Serve(vec)
    BY <2>1, <2>3
  <2> HIDE DEF vec
  <2> QED
    BY <2>1, <2>4, <2>5, <2>6, ServeIInv
<1>7. CASE EndWins
  <2>1. Serve(buffer) /\ UNCHANGED <<portVars, stream, lost>>
    BY <1>7 DEF EndWins
  <2>2. LongestIsBound'
    BY <2>1 DEF portVars, IInv, LongestIsBound
  <2> QED BY <1>0, <2>1, <2>2, ServeIInv
<1>8. CASE DelayWins
  BY <1>3, <1>8 DEF DelayWins, portVars, IInv, TypeOK
<1>9. CASE DelayBeatsChunk
  <2>1. /\ stream # <<>> /\ stream' = Tail(stream) /\ lost' = lost \cup Range(Head(stream))
        /\ pc' = "idle" /\ UNCHANGED <<buffer, position, out, portVars>>
    BY <1>9 DEF DelayBeatsChunk
  <2>2. Range(Head(stream)) \subseteq Byte
    BY <2>1, TakeChunk, ElementOfSeq, LenProperties DEF Range
  <2>3. stream' \in Seq(Seq(Byte)) /\ LongestIsBound'
    BY <2>1, TakeChunk DEF LongestIsBound, portVars
  <2>4. TypeOK'
    BY <2>1, <2>2, <2>3 DEF IInv, TypeOK, portVars, Byte
  <2> QED BY <1>0, <1>1, <2>1, <2>3, <2>4 DEF IInv, portVars
<1>10. CASE PortFails
  BY <1>3, <1>10 DEF PortFails, portVars, IInv, TypeOK
<1>11. CASE UNCHANGED vars
  BY <1>3, <1>11 DEF vars, readVars, portVars, IInv, TypeOK
<1> QED
  BY <1>2, <1>4, <1>5, <1>6, <1>7, <1>8, <1>9, <1>10, <1>11 DEF Next, Return

LEMMA Inductive == Spec => []IInv
  BY Initially, Stepwise, PTL DEF Spec

-------------------------------------------------------------------------------
\* The order of the bytes.

\* What was dropped had arrived.
OrderIInv == BytesInOrder /\ lost \subseteq 1..arrived

LEMMA Regrouped ==
  ASSUME NEW s \in Seq(Byte), NEW t \in Seq(Byte), NEW u \in Seq(Byte)
  PROVE  (s \o t) \o u = s \o (t \o u)
<1>1. /\ Len(s) \in Nat /\ Len(t) \in Nat /\ Len(u) \in Nat
      /\ s \o t \in Seq(Byte) /\ t \o u \in Seq(Byte)
      /\ Len(s \o t) = Len(s) + Len(t) /\ Len(t \o u) = Len(t) + Len(u)
  BY ConcatProperties
<1> DEFINE v == (s \o t) \o u
           w == s \o (t \o u)
<1>2. v \in Seq(Byte) /\ w \in Seq(Byte) /\ Len(v) = Len(s) + Len(t) + Len(u) /\ Len(w) = Len(v)
  BY <1>1, ConcatProperties
<1>3. ASSUME NEW i \in 1..Len(v) PROVE v[i] = w[i]
  BY <1>1, <1>2, ConcatProperties
<1> HIDE DEF v, w
<1>4. v = w
  BY <1>2, <1>3, SeqEqual
<1> QED BY <1>4 DEF v, w

LEMMA SortedConcat ==
  ASSUME NEW s \in Seq(Byte), NEW t \in Seq(Byte), Rising(s), Rising(t), Older(s, t)
  PROVE  Rising(s \o t)
<1>1. /\ Len(s) \in Nat /\ Len(t) \in Nat /\ Len(s \o t) = Len(s) + Len(t)
      /\ \A i \in 1..(Len(s) + Len(t)) :
           (s \o t)[i] = IF i <= Len(s) THEN s[i] ELSE t[i - Len(s)]
  BY ConcatProperties
<1>2. ASSUME NEW i \in 1..Len(s \o t), NEW j \in 1..Len(s \o t), i < j
      PROVE  (s \o t)[i] < (s \o t)[j]
  <2>1. CASE j <= Len(s)
    BY <1>1, <1>2, <2>1 DEF Rising, IsSorted
  <2>2. CASE i <= Len(s) /\ ~(j <= Len(s))
    <3>1. i \in 1..Len(s) /\ j - Len(s) \in 1..Len(t)
      BY <1>1, <1>2, <2>2
    <3>2. s[i] \in Range(s) /\ t[j - Len(s)] \in Range(t)
      BY <3>1 DEF Range
    <3> QED BY <1>1, <2>2, <3>2 DEF Older
  <2>3. CASE ~(i <= Len(s))
    <3>1. i - Len(s) \in 1..Len(t) /\ j - Len(s) \in 1..Len(t) /\ i - Len(s) < j - Len(s)
      BY <1>1, <1>2, <2>3
    <3>2. ~(j <= Len(s))
      BY <1>1, <1>2, <2>3
    <3> QED BY <1>1, <2>3, <3>1, <3>2 DEF Rising, IsSorted
  <2> QED BY <2>1, <2>2, <2>3
<1> QED BY <1>2 DEF Rising, IsSorted

LEMMA TypesOfBytes ==
  ASSUME IInv
  PROVE  /\ out \in Seq(Byte) /\ Unread \in Seq(Byte) /\ Taken \in Seq(Byte)
         /\ stream \in Seq(Seq(Byte)) /\ Len(stream) \in Nat
         /\ \A k \in 1..Len(stream) : stream[k] \in Seq(Byte)
<1>1. /\ out \in Seq(Byte) /\ buffer \in Seq(Byte) /\ position \in 0..Len(buffer)
      /\ stream \in Seq(Seq(Byte)) /\ Len(buffer) \in Nat
  BY DEF IInv, TypeOK, Byte
<1>2. Unread \in Seq(Byte)
  <2>1. \A k \in (position + 1)..Len(buffer) : buffer[k] \in Byte
    BY <1>1, ElementOfSeq
  <2> QED BY <1>1, <2>1, SubSeqProperties DEF Unread
<1> QED BY <1>1, <1>2, ConcatProperties, ElementOfSeq DEF Taken

\* The end of read neither loses nor moves a byte of vec.
LEMMA ServeTakes ==
  ASSUME IInv, NEW vec \in Seq(Byte), Len(vec) >= Len(buffer), Serve(vec)
  PROVE  Taken' = out \o SubSeq(vec, position + 1, Len(vec))
<1> DEFINE left == Len(vec) - position
           m == position + Served(left)
<1>0. /\ Len(vec) \in Nat /\ position \in Nat /\ position <= Len(vec)
      /\ left \in Nat /\ Want \in Nat /\ Want > 0 /\ out \in Seq(Byte)
  BY WantAssumption, TypesOfBytes DEF IInv, TypeOK
<1>1. m \in position..Len(vec)
  BY <1>0 DEF Served
<1>2. out' = out \o SubSeq(vec, position + 1, m)
  BY DEF Serve
<1>3. \A j \in (position + 1)..m : vec[j] \in Byte
  BY <1>0, <1>1, ElementOfSeq
<1>4. \A j \in (m + 1)..Len(vec) : vec[j] \in Byte
  BY <1>0, <1>1, ElementOfSeq
<1>5. SubSeq(vec, position + 1, m) \in Seq(Byte) /\ SubSeq(vec, m + 1, Len(vec)) \in Seq(Byte)
  BY <1>0, <1>1, <1>3, <1>4, SubSeqProperties
<1>6. CASE left \in 1..(Want - 1)
  <2>1. buffer' = <<>> /\ position' = 0 /\ m = Len(vec)
    BY <1>0, <1>6 DEF Serve, FreshPosition, Served
  <2>2. Unread' = <<>>
    BY <2>1, SubSeqEmpty DEF Unread
  <2>3. out' \in Seq(Byte)
    BY <1>0, <1>2, <1>5, ConcatProperties
  <2>4. out' \o <<>> = out'
    BY <2>3, ConcatEmptySeq
  <2>5. Taken' = out'
    BY <2>2, <2>4 DEF Taken
  <2> HIDE DEF m
  <2> QED BY <1>2, <2>1, <2>5
<1>7. CASE left \notin 1..(Want - 1)
  <2>1. buffer' = vec /\ position' = m
    BY <1>7 DEF Serve
  <2> HIDE DEF m
  <2>2. Unread' = SubSeq(vec, m + 1, Len(vec))
    BY <2>1 DEF Unread
  <2>3. SubSeq(vec, position + 1, m) \o SubSeq(vec, m + 1, Len(vec))
          = SubSeq(vec, position + 1, Len(vec))
    <3>1. /\ position + 1 \in 1..(Len(vec) + 1) /\ m \in ((position + 1) - 1)..Len(vec)
          /\ Len(vec) \in m..Len(vec)
      BY <1>0, <1>1
    <3> QED BY <3>1, ConcatAdjacentSubSeq
  <2>4. Taken' = (out \o SubSeq(vec, position + 1, m)) \o SubSeq(vec, m + 1, Len(vec))
    BY <1>2, <2>2 DEF Taken
  <2> DEFINE returned == SubSeq(vec, position + 1, m)
             kept == SubSeq(vec, m + 1, Len(vec))
  <2>5. returned \in Seq(Byte) /\ kept \in Seq(Byte)
    BY <1>5
  <2> HIDE DEF returned, kept
  <2>6. (out \o returned) \o kept = out \o (returned \o kept)
    BY <1>0, <2>5, Regrouped
  <2> QED BY <2>3, <2>4, <2>6 DEF returned, kept
<1> QED BY <1>6, <1>7

\* A chunk behind the Vec is behind what is unread.
LEMMA UnreadGrows ==
  ASSUME IInv, NEW chunk \in Seq(Byte)
  PROVE  SubSeq(buffer \o chunk, position + 1, Len(buffer \o chunk)) = Unread \o chunk
<1>1. /\ buffer \in Seq(Byte) /\ position \in Nat /\ position <= Len(buffer) /\ Len(buffer) \in Nat
      /\ Len(chunk) \in Nat /\ Unread \in Seq(Byte)
  BY TypesOfBytes DEF IInv, TypeOK, Byte
<1> DEFINE vec == buffer \o chunk
           v == SubSeq(vec, position + 1, Len(vec))
           w == Unread \o chunk
<1>2. /\ vec \in Seq(Byte) /\ Len(vec) = Len(buffer) + Len(chunk)
      /\ \A i \in 1..(Len(buffer) + Len(chunk)) :
           vec[i] = IF i <= Len(buffer) THEN buffer[i] ELSE chunk[i - Len(buffer)]
  BY <1>1, ConcatProperties
<1>3. /\ Len(Unread) = Len(buffer) - position
      /\ \A i \in 1..(Len(buffer) - position) : Unread[i] = buffer[position + i]
  BY <1>1 DEF Unread
<1>4. /\ w \in Seq(Byte) /\ Len(w) = Len(buffer) - position + Len(chunk)
      /\ \A i \in 1..(Len(buffer) - position + Len(chunk)) :
           w[i] = IF i <= Len(buffer) - position THEN Unread[i]
                  ELSE chunk[i - (Len(buffer) - position)]
  <2>1. /\ w \in Seq(Byte) /\ Len(w) = Len(Unread) + Len(chunk)
        /\ \A i \in 1..(Len(Unread) + Len(chunk)) :
             w[i] = IF i <= Len(Unread) THEN Unread[i] ELSE chunk[i - Len(Unread)]
    BY <1>1, ConcatProperties
  <2> HIDE DEF w
  <2> QED BY <1>3, <2>1
<1> HIDE DEF vec, w
<1>5. /\ v \in Seq(Byte) /\ Len(v) = Len(buffer) - position + Len(chunk)
      /\ \A i \in 1..(Len(buffer) - position + Len(chunk)) : v[i] = vec[position + i]
  <2>1. \A j \in (position + 1)..Len(vec) : vec[j] \in Byte
    BY <1>1, <1>2, ElementOfSeq
  <2>2. v \in Seq(Byte)
    BY <1>1, <1>2, <2>1, SubSeqProperties
  <2> QED BY <1>1, <1>2, <2>2
<1>6. ASSUME NEW i \in 1..Len(v) PROVE v[i] = w[i]
  <2>1. CASE i <= Len(buffer) - position
    <3>1. /\ position + i \in 1..(Len(buffer) + Len(chunk)) /\ position + i <= Len(buffer)
          /\ i \in 1..(Len(buffer) - position) /\ i \in 1..(Len(buffer) - position + Len(chunk))
      BY <1>1, <1>5, <2>1
    <3> QED BY <1>2, <1>3, <1>4, <1>5, <2>1, <3>1
  <2>2. CASE ~(i <= Len(buffer) - position)
    <3> DEFINE l == Len(buffer)
               c == Len(chunk)
    <3>0. i \in Nat /\ i >= 1 /\ i <= l - position + c /\ ~(i <= l - position)
      BY <1>5, <2>2
    <3>9. l \in Nat /\ c \in Nat /\ position \in Nat /\ position <= l
      BY <1>1
    <3> HIDE DEF l, c
    <3>8. /\ position + i \in 1..(l + c) /\ ~(position + i <= l)
           /\ i \in 1..(l - position + c) /\ (position + i) - l = i - (l - position)
      BY <3>0, <3>9
    <3>1. /\ position + i \in 1..(Len(buffer) + Len(chunk)) /\ ~(position + i <= Len(buffer))
          /\ i \in 1..(Len(buffer) - position + Len(chunk))
          /\ (position + i) - Len(buffer) = i - (Len(buffer) - position)
      BY <3>8 DEF l, c
    <3> QED BY <1>2, <1>4, <1>5, <2>2, <3>1
  <2> QED BY <2>1, <2>2
<1> HIDE DEF v
<1>7. v = w
  BY <1>4, <1>5, <1>6, SeqEqual
<1> QED BY <1>7 DEF v, w, vec

-------------------------------------------------------------------------------

LEMMA OrderInitially == Init => OrderIInv
<1> SUFFICES ASSUME Init PROVE OrderIInv
  OBVIOUS
<1>1. /\ out = <<>> /\ buffer = <<>> /\ position = 0 /\ stream = <<>> /\ arrived = 0 /\ lost = {}
  BY DEF Init
<1>2. Unread = <<>>
  BY <1>1, SubSeqEmpty DEF Unread
<1>3. Taken = <<>>
  BY <1>1, <1>2, ConcatEmptySeq DEF Taken
<1>4. Len(<<>>) = 0 /\ Range(<<>>) = {}
  BY DEF Range
<1> QED BY <1>1, <1>3, <1>4 DEF OrderIInv, BytesInOrder, Rising, IsSorted

\* A chunk arrives with bytes newer than all others.
LEMMA ArriveInOrder ==
  ASSUME IInv, OrderIInv, NEW n \in 1..MaxChunk, Arrive(n)
  PROVE  OrderIInv'
<1> DEFINE chunk == [k \in 1..n |-> arrived + k]
<1>1. /\ n \in Nat /\ arrived \in Nat /\ arrived + n <= MaxBytes /\ MaxBytes \in Nat
  BY BoundAssumption DEF Arrive, IInv, TypeOK
<1>2. \A k \in 1..n : arrived + k \in Byte
  BY <1>1 DEF Byte
<1>3. /\ chunk \in Seq(Byte) /\ Len(chunk) = n /\ Rising(chunk)
      /\ Range(chunk) = (arrived + 1)..(arrived + n)
  <2>1. chunk \in Seq(Byte) /\ Len(chunk) = n /\ \A k \in 1..n : chunk[k] = arrived + k
    BY <1>1, <1>2
  <2>2. Rising(chunk)
    BY <1>1, <2>1 DEF Rising, IsSorted
  <2>3. ASSUME NEW x \in (arrived + 1)..(arrived + n) PROVE x \in Range(chunk)
    <3>1. x - arrived \in 1..n /\ chunk[x - arrived] = x
      BY <1>1
    <3> QED BY <3>1 DEF Range
  <2>4. ASSUME NEW x \in Range(chunk) PROVE x \in (arrived + 1)..(arrived + n)
    <3>1. PICK k \in 1..n : x = chunk[k]
      BY DEF Range
    <3> QED BY <1>1, <3>1
  <2> QED BY <2>1, <2>2, <2>3, <2>4
<1> HIDE DEF chunk
<1>4. /\ stream' = Append(stream, chunk) /\ arrived' = arrived + n /\ UNCHANGED <<readVars, lost>>
  BY DEF Arrive, chunk
<1>5. /\ Len(stream') = Len(stream) + 1 /\ Len(stream) \in Nat
      /\ \A k \in 1..Len(stream) : stream'[k] = stream[k]
      /\ stream'[Len(stream) + 1] = chunk
  BY <1>3, <1>4, TypesOfBytes, AppendProperties
<1>6. Taken' = Taken
  BY <1>4 DEF Taken, Unread, readVars
<1>7. /\ Range(Taken) \subseteq 1..arrived
      /\ \A k \in 1..Len(stream) : Range(stream[k]) \subseteq 1..arrived
  BY DEF OrderIInv, BytesInOrder
<1>8. \A s : Range(s) \subseteq 1..arrived => Older(s, chunk)
  <2> SUFFICES ASSUME NEW s, Range(s) \subseteq 1..arrived, NEW x \in Range(s), NEW y \in Range(chunk)
               PROVE  x < y
    BY DEF Older
  <2>1. x \in 1..arrived /\ y \in (arrived + 1)..(arrived + n)
    BY <1>3
  <2> QED BY <1>1, <2>1
<1>9. \A k \in 1..Len(stream') : k \in 1..Len(stream) \/ k = Len(stream) + 1
  BY <1>5
<1>10. \A k \in 1..Len(stream') : Rising(stream'[k]) /\ Older(Taken', stream'[k])
  <2>1. \A k \in 1..Len(stream) : Rising(stream[k]) /\ Older(Taken, stream[k])
    BY DEF OrderIInv, BytesInOrder
  <2>2. Rising(chunk) /\ Older(Taken, chunk)
    BY <1>3, <1>7, <1>8
  <2> QED BY <1>5, <1>6, <1>9, <2>1, <2>2
<1>11. \A k, l \in 1..Len(stream') : k < l => Older(stream'[k], stream'[l])
  <2> SUFFICES ASSUME NEW k \in 1..Len(stream'), NEW l \in 1..Len(stream'), k < l
               PROVE  Older(stream'[k], stream'[l])
    OBVIOUS
  <2>1. k \in 1..Len(stream)
    BY <1>5
  <2>2. CASE l \in 1..Len(stream)
    BY <1>5, <2>1, <2>2 DEF OrderIInv, BytesInOrder
  <2>3. CASE l = Len(stream) + 1
    BY <1>5, <1>7, <1>8, <2>1, <2>3
  <2> QED BY <1>9, <2>2, <2>3
<1>12. Range(Taken') \cup UNION {Range(stream'[k]) : k \in 1..Len(stream')} = (1..arrived') \ lost'
  <2>1. UNION {Range(stream'[k]) : k \in 1..Len(stream')}
          = Range(chunk) \cup UNION {Range(stream[k]) : k \in 1..Len(stream)}
    <3>1. Len(stream) + 1 \in 1..Len(stream') /\ \A k \in 1..Len(stream) : k \in 1..Len(stream')
      BY <1>5
    <3> QED BY <1>5, <1>9, <3>1
  <2>2. 1..arrived' = (1..arrived) \cup ((arrived + 1)..(arrived + n))
    BY <1>1, <1>4
  <2>3. lost \cap ((arrived + 1)..(arrived + n)) = {}
    BY <1>1 DEF OrderIInv
  <2>4. lost' = lost
    BY <1>4
  <2> QED BY <1>3, <1>6, <2>1, <2>2, <2>3, <2>4 DEF OrderIInv, BytesInOrder
<1>13. lost' \subseteq 1..arrived'
  BY <1>1, <1>4 DEF OrderIInv
<1> QED BY <1>6, <1>10, <1>11, <1>12, <1>13 DEF OrderIInv, BytesInOrder

\* A chunk leaves the stream, for the Vec or dropped.
LEMMA HeadInOrder ==
  ASSUME IInv, OrderIInv, stream # <<>>, stream' = Tail(stream), arrived' = arrived,
         \/ Taken' = Taken \o Head(stream) /\ lost' = lost
         \/ Taken' = Taken /\ lost' = lost \cup Range(Head(stream))
  PROVE  OrderIInv'
<1> DEFINE chunk == Head(stream)
<1>1. /\ Len(stream) \in Nat \ {0} /\ chunk = stream[1] /\ chunk \in Seq(Byte)
      /\ Len(stream') = Len(stream) - 1
      /\ \A k \in 1..Len(stream') : stream'[k] = stream[k + 1]
      /\ Taken \in Seq(Byte)
  <2>1. stream \in Seq(Seq(Byte)) /\ Len(stream) \in Nat
    BY TypesOfBytes
  <2> QED BY <2>1, TakeChunk, TypesOfBytes, HeadTailProperties, EmptySeq
<1> HIDE DEF chunk
<1>2. 1 \in 1..Len(stream) /\ \A k \in 1..Len(stream') : k + 1 \in 1..Len(stream) /\ 1 < k + 1
  BY <1>1
<1>3. /\ Rising(Taken) /\ Rising(chunk) /\ Older(Taken, chunk)
      /\ \A k \in 1..Len(stream') :
           Rising(stream'[k]) /\ Older(Taken, stream'[k]) /\ Older(chunk, stream'[k])
  BY <1>1, <1>2 DEF OrderIInv, BytesInOrder
<1>4. \A k, l \in 1..Len(stream') : k < l => Older(stream'[k], stream'[l])
  <2> SUFFICES ASSUME NEW k \in 1..Len(stream'), NEW l \in 1..Len(stream'), k < l
               PROVE  Older(stream'[k], stream'[l])
    OBVIOUS
  <2>1. k + 1 < l + 1
    OBVIOUS
  <2> QED BY <1>1, <1>2, <2>1 DEF OrderIInv, BytesInOrder
<1> DEFINE rest == UNION {Range(stream'[k]) : k \in 1..Len(stream')}
<1>5. UNION {Range(stream[k]) : k \in 1..Len(stream)} = Range(chunk) \cup rest
  <2>1. ASSUME NEW k \in 1..Len(stream) PROVE k = 1 \/ \E l \in 1..Len(stream') : k = l + 1
    <3>1. k # 1 => k - 1 \in 1..Len(stream') /\ k = (k - 1) + 1
      BY <1>1
    <3> QED BY <3>1
  <2> QED BY <1>1, <1>2, <2>1
<1>6. Range(Taken) \cup Range(chunk) \cup rest = (1..arrived) \ lost
  BY <1>5 DEF OrderIInv, BytesInOrder
<1>7. CASE Taken' = Taken \o chunk /\ lost' = lost
  <2>1. Rising(Taken')
    BY <1>1, <1>3, <1>7, SortedConcat
  <2>2. Range(Taken') = Range(Taken) \cup Range(chunk)
    BY <1>1, <1>7, RangeConcatenation
  <2>3. \A k \in 1..Len(stream') : Older(Taken', stream'[k])
    BY <1>3, <2>2 DEF Older
  <2> QED BY <1>3, <1>4, <1>6, <1>7, <2>1, <2>2, <2>3 DEF OrderIInv, BytesInOrder
<1>8. CASE Taken' = Taken /\ lost' = lost \cup Range(chunk)
  <2>1. Range(chunk) \cap Range(Taken) = {} /\ Range(chunk) \cap rest = {}
    <3>1. \A s, t : Older(s, t) /\ Range(s) \subseteq Nat /\ Range(t) \subseteq Nat
                      => Range(s) \cap Range(t) = {}
      BY DEF Older
    <3> HIDE DEF rest
    <3>2. Range(chunk) \subseteq Nat /\ Range(Taken) \subseteq Nat /\ rest \subseteq Nat
      <4>1. \A x : x \in Range(chunk) \/ x \in Range(Taken) \/ x \in rest => x \in 1..arrived
        BY <1>6
      <4>2. 1..arrived \subseteq Nat
        BY DEF IInv, TypeOK
      <4> QED BY <4>1, <4>2
    <3>3. \A k \in 1..Len(stream') : Range(stream'[k]) \subseteq Nat
      BY <3>2 DEF rest
    <3>4. Range(chunk) \cap Range(Taken) = {}
      BY <1>3, <3>1, <3>2
    <3>5. \A k \in 1..Len(stream') : Range(chunk) \cap Range(stream'[k]) = {}
      BY <1>3, <3>1, <3>2, <3>3
    <3> QED BY <3>4, <3>5 DEF rest
  <2>2. Range(Taken) \cup rest = (1..arrived) \ lost'
    BY <1>6, <1>8, <2>1
  <2>3. lost' \subseteq 1..arrived
    BY <1>6, <1>8 DEF OrderIInv
  <2> QED BY <1>3, <1>4, <1>8, <2>2, <2>3 DEF OrderIInv, BytesInOrder
<1> QED BY <1>7, <1>8 DEF chunk

LEMMA OrderStepwise == IInv /\ OrderIInv /\ [Next]_vars => OrderIInv'
<1> SUFFICES ASSUME IInv, OrderIInv, [Next]_vars PROVE OrderIInv'
  OBVIOUS
<1>0. buffer \in Seq(Byte) /\ Len(buffer) \in Nat
  BY DEF IInv, TypeOK, Byte
\* Nothing arrives, is taken or dropped.
<1>1. ASSUME Taken' = Taken, UNCHANGED <<stream, arrived, lost>> PROVE OrderIInv'
  BY <1>1 DEF OrderIInv, BytesInOrder
<1>2. ASSUME NEW n \in 1..MaxChunk, Arrive(n) PROVE OrderIInv'
  BY <1>2, ArriveInOrder
<1>3. ASSUME Serve(buffer) PROVE Taken' = Taken
  <2>1. Len(buffer) >= Len(buffer)
    BY <1>0
  <2>2. Taken' = out \o SubSeq(buffer, position + 1, Len(buffer))
    BY <1>0, <1>3, <2>1, ServeTakes
  <2> QED BY <2>2 DEF Taken, Unread
<1>4. CASE ChunkWins
  <2>1. /\ stream # <<>> /\ Serve(buffer \o Head(stream)) /\ stream' = Tail(stream)
        /\ arrived' = arrived /\ lost' = lost
    BY <1>4 DEF ChunkWins, portVars
  <2>2. Head(stream) \in Seq(Byte)
    BY <2>1, TakeChunk
  <2> DEFINE vec == buffer \o Head(stream)
  <2>3. vec \in Seq(Byte) /\ Len(vec) >= Len(buffer) /\ Serve(vec)
    BY <1>0, <2>1, <2>2, ConcatProperties
  <2>4. SubSeq(vec, position + 1, Len(vec)) = Unread \o Head(stream)
    BY <2>2, UnreadGrows
  <2> HIDE DEF vec
  <2>5. Taken' = out \o (Unread \o Head(stream))
    BY <2>3, <2>4, ServeTakes
  <2>6. Taken' = Taken \o Head(stream)
    BY <2>2, <2>5, TypesOfBytes, Regrouped DEF Taken
  <2> QED BY <2>1, <2>6, HeadInOrder
<1>5. CASE DelayBeatsChunk
  <2>1. /\ stream # <<>> /\ stream' = Tail(stream) /\ lost' = lost \cup Range(Head(stream))
        /\ arrived' = arrived /\ Taken' = Taken
    BY <1>5 DEF DelayBeatsChunk, portVars, Taken, Unread
  <2> QED BY <2>1, HeadInOrder
<1>6. CASE Read
  <2>1. UNCHANGED <<stream, arrived, lost>>
    BY <1>6 DEF Read, portVars
  <2>2. Short => Taken' = Taken
    BY <1>6 DEF Read, Taken, Unread
  <2> QED BY <1>1, <1>3, <1>6, <2>1, <2>2 DEF Read
<1>7. CASE EndWins
  BY <1>1, <1>3, <1>7 DEF EndWins, portVars
<1>8. Close \/ DelayWins \/ PortFails \/ UNCHANGED vars
        => Taken' = Taken /\ UNCHANGED <<stream, arrived, lost>>
  BY DEF Close, DelayWins, PortFails, vars, readVars, portVars, Taken, Unread
<1> QED BY <1>1, <1>2, <1>4, <1>5, <1>6, <1>7, <1>8 DEF Next, Return

-------------------------------------------------------------------------------

\* The subtraction of the position from the length of the Vec never underflows,
\* for slices and chunks of any length and with any delays.
THEOREM TypeCorrect == Spec => []TypeOK
  BY Inductive, PTL DEF IInv

\* While no chunk is longer than the slice, a read never leaves a byte behind.
THEOREM NoTail == Spec => []TailOnlyOfLongChunk
  BY Inductive, PTL DEF IInv

\* Cutting chunks into slices of another length (the Vec, its position and its
\* clearing in read) loses no byte but the dropped ones, repeats none and moves
\* none, for slices and chunks of any length.
THEOREM InOrder == Spec => []BytesInOrder
<1>1. OrderIInv => BytesInOrder
  BY DEF OrderIInv
<1> QED BY <1>1, Inductive, OrderInitially, OrderStepwise, PTL DEF Spec

===============================================================================
