--------------------------- MODULE ReceivePathProofs ---------------------------
(***************************************************************************)
(* What a Service makes of a stream that comes in chunks, for any buffer   *)
(* size, any frames, any chunks and any losses.  The invariant says of a   *)
(* reader in step, for each stage of a call of put_received_data, how the  *)
(* bytes it holds, the slice it still has to read and the frames of the    *)
(* sender fit together; of a reader out of step nearly nothing.            *)
(***************************************************************************)
EXTENDS ReceivePath, ProtocolReaderProofs

PathTypes ==
  /\ frame \in Frame /\ given \in 0..(Len(frame) - 1)
  /\ data \in Seq(Byte)
  /\ inStep \in BOOLEAN
  /\ due \in Seq(Frame) /\ handled \in Seq(Frame)

\* The bytes held are the first of frame g.
Holds(g) == \A k \in 0..(position - 1) : buffer[k] = g[k + 1]

\* Between two calls of put_received_data.
Waiting ==
  /\ call \in {"none", "Ok(false)", "InsufficientBuffer"} /\ state # "Completed"
  /\ position = given /\ Holds(frame)
  /\ due = handled

\* While read runs: the slice holds the bytes given of the frame that are not
\* held yet.
Arriving ==
  /\ call = "reading" /\ state # "Completed"
  /\ position <= given /\ Holds(frame)
  /\ Len(data) = given - position
  /\ \A k \in 1..Len(data) : data[k] = frame[position + k]
  /\ position = 1 => data # <<>>
  /\ due = handled

\* The slice holds the rest of frame g, and perhaps more.
Ending(g) ==
  /\ call = "reading" /\ state # "Completed"
  /\ position < Len(g) /\ Holds(g)
  /\ Len(data) >= Len(g) - position
  /\ \A k \in 1..(Len(g) - position) : data[k] = g[position + k]
  /\ due = Append(handled, g)

\* Frame g is given up behind its first m bytes; the slice holds what is left of
\* them, the sync byte, and the bytes given of the next frame.
Cutting(g, m) ==
  /\ call = "reading" /\ state # "Completed"
  /\ 2 <= m /\ m < Len(g) /\ position <= m /\ Holds(g)
  /\ Len(data) = (m - position) + 1 + given
  /\ \A k \in 1..(m - position) : data[k] = g[position + k]
  /\ data[m - position + 1] = SYNC
  /\ \A k \in 1..given : data[(m - position) + 1 + k] = frame[k]
  /\ given > 0 => frame[1] # SYNC
  /\ due = handled

\* Frame g is complete.
Done(g) ==
  /\ call = "Ok(true)" /\ state = "Completed"
  /\ position = Len(g) /\ Holds(g)
  /\ due = Append(handled, g)

Stage ==
  \/ Waiting \/ Arriving
  \/ \E g \in Frame : Ending(g) \/ Done(g)
  \/ \E g \in Frame, m \in Nat : Cutting(g, m)

PathIInv ==
  /\ IInv
  /\ PathTypes
  /\ ~hasReader => call = "none" /\ state = "Header" /\ position = 0
  /\ inStep => Stage
  /\ ~inStep => due = handled

-------------------------------------------------------------------------------

\* What FrameAssumption says of one frame.
LEMMA FrameIs ==
  ASSUME NEW f \in Frame
  PROVE  /\ f \in Seq(Byte) /\ f # <<>>
         /\ Len(f) \in Nat /\ Len(f) >= 3 /\ Len(f) <= BUFFER_SIZE
         /\ message_length(f[2]) + 2 = Len(f)
         /\ f[2] # SYNC /\ \A k \in 3..Len(f) : f[k] # SYNC
<1>1. f \in Seq(Byte) /\ Len(f) \in MinRaw..BUFFER_SIZE
  BY FrameAssumption
<1>2. Len(f) \in Nat /\ Len(f) >= 3 /\ Len(f) <= BUFFER_SIZE
  BY <1>1, BufferSizeAssumption DEF MinRaw
<1>3. f # <<>>
  BY <1>2
<1>4. message_length(SYNC) = 0
  BY DEF message_length, SYNC
<1>5. message_length(f[2]) + 2 = Len(f)
  BY FrameAssumption
<1>6. f[2] # SYNC
  BY <1>2, <1>4, <1>5
<1> QED BY <1>1, <1>2, <1>3, <1>5, <1>6, FrameAssumption

\* What putting a sequence behind another leaves where.
LEMMA ConcatIs ==
  ASSUME NEW S, NEW s \in Seq(S), NEW t \in Seq(S)
  PROVE  /\ s \o t \in Seq(S) /\ Len(s \o t) = Len(s) + Len(t)
         /\ Len(s) \in Nat /\ Len(t) \in Nat
         /\ \A k \in 1..Len(s) : (s \o t)[k] = s[k]
         /\ \A k \in 1..Len(t) : (s \o t)[Len(s) + k] = t[k]
<1>1. ASSUME NEW k \in 1..Len(t) PROVE (s \o t)[Len(s) + k] = t[k]
  OBVIOUS
<1> QED BY <1>1

\* A piece of a sequence.
LEMMA PieceIs ==
  ASSUME NEW S, NEW s \in Seq(S), NEW i \in Nat, NEW n \in Nat, i + n <= Len(s)
  PROVE  /\ SubSeq(s, i + 1, i + n) \in Seq(S)
         /\ Len(SubSeq(s, i + 1, i + n)) = n
         /\ \A k \in 1..n : SubSeq(s, i + 1, i + n)[k] = s[i + k]
<1> DEFINE t == SubSeq(s, i + 1, i + n)
<1>1. \A k \in (i + 1)..(i + n) : s[k] \in S
  OBVIOUS
<1>2. /\ t \in Seq(S)
      /\ Len(t) = IF i + 1 <= i + n THEN (i + n) - (i + 1) + 1 ELSE 0
      /\ \A k \in 1..((i + n) - (i + 1) + 1) : t[k] = s[(i + 1) + k - 1]
  BY <1>1, SubSeqProperties
<1> HIDE DEF t
<1>3. Len(t) = n
  BY <1>2
<1>4. ASSUME NEW k \in 1..n PROVE t[k] = s[i + k]
  <2>1. k \in 1..((i + n) - (i + 1) + 1) /\ (i + 1) + k - 1 = i + k
    OBVIOUS
  <2> QED BY <1>2, <2>1
<1> QED BY <1>2, <1>3, <1>4 DEF t

\* The last element of a sequence, as the queue of Path sees it.
LEMMA LastOfAppend ==
  ASSUME NEW S, NEW s \in Seq(S), NEW x \in S
  PROVE  /\ SubSeq(s, Len(s) + 1, Len(s)) = <<>>
         /\ SubSeq(Append(s, x), Len(s) + 1, Len(Append(s, x))) = <<x>>
         /\ Append(s, x) # <<>> /\ Append(s, x)[Len(Append(s, x))] = x
         /\ Append(<<>>, x) = <<x>>
         /\ Head(<<x>>) = x /\ Tail(<<x>>) = <<>> /\ <<x>> # <<>>
<1> DEFINE t == Append(s, x)
           u == SubSeq(t, Len(s) + 1, Len(t))
<1>1. t \in Seq(S) /\ Len(t) = Len(s) + 1 /\ t[Len(s) + 1] = x /\ Len(s) \in Nat
  OBVIOUS
<1>2. t # <<>>
  <2>1. Len(<<>>) = 0 /\ Len(t) # 0
    BY <1>1
  <2> QED BY <2>1
<1>3. SubSeq(s, Len(s) + 1, Len(s)) = <<>>
  <2>1. Len(s) + 1 \in Int /\ Len(s) \in Int /\ Len(s) < Len(s) + 1
    BY <1>1
  <2> QED BY <2>1, SubSeqEmpty
<1>4. u = <<x>>
  <2> HIDE DEF t
  <2>1. Len(s) \in 0..Len(t)
    BY <1>1
  <2>2. /\ u \in Seq(S) /\ Len(u) = Len(t) - Len(s)
        /\ \A k \in 1..(Len(t) - Len(s)) : u[k] = t[Len(s) + k]
    BY <1>1, <2>1, RestIs
  <2> HIDE DEF u
  <2>3. Len(u) = 1 /\ u[1] = x
    BY <1>1, <2>2
  <2> QED BY <2>2, <2>3
<1>5. /\ Append(<<>>, x) = <<x>>
      /\ Head(<<x>>) = x /\ Tail(<<x>>) = <<>> /\ <<x>> # <<>>
  OBVIOUS
<1> QED BY <1>1, <1>2, <1>3, <1>4, <1>5

LEMMA AppendIs ==
  ASSUME NEW S, NEW s \in Seq(S), NEW x \in S
  PROVE  s \o <<>> = s /\ s \o <<x>> = Append(s, x)
OBVIOUS

LEMMA PathInitially == PathInit => PathIInv
<1> SUFFICES ASSUME PathInit PROVE PathIInv
  OBVIOUS
<1>1. IInv
  BY InitIInv DEF PathInit
<1>2. PathTypes
  <2>1. \A S : <<>> \in Seq(S)
    OBVIOUS
  <2>2. 0 \in 0..(Len(frame) - 1)
    BY FrameIs DEF PathInit
  <2> QED BY <2>1, <2>2 DEF PathInit, PathTypes
<1>3. Waiting /\ call = "none" /\ state = "Header" /\ position = 0 /\ inStep
  BY DEF PathInit, Init, Waiting, Holds
<1> QED BY <1>1, <1>2, <1>3 DEF PathIInv, Stage

-------------------------------------------------------------------------------

\* An idle service in step waits.
LEMMA IdleWaits == ASSUME PathIInv, Idle, inStep PROVE Waiting
BY DEF PathIInv, Idle, Returned, Stage, Arriving, Ending, Cutting, Done

\* A chunk that a reader gets.
LEMMA Taken ==
  ASSUME PathIInv, NEW chunk \in Seq(Byte), PutReceivedData(chunk)
  PROVE  /\ IInv' /\ call' = "reading" /\ data' = chunk /\ hasReader'
         /\ UNCHANGED <<buffer, position, state, handled>>
         /\ state' # "Completed"
         /\ due = handled
         /\ inStep => Waiting
<1>1. Call /\ (inStep => Waiting)
  BY IdleWaits DEF PutReceivedData
<1> QED BY <1>1, CallIInv DEF PutReceivedData, PathIInv, Call, Waiting, Idle

\* A chunk that is lost.
LEMMA Lost ==
  ASSUME PathIInv, NoBuffer, UNCHANGED due, inStep' = BetweenFrames',
         NEW f \in Frame, NEW k \in 0..(Len(f) - 1), frame' = f, given' = k
  PROVE  PathIInv'
<1>1. /\ call = "none" /\ state = "Header" /\ position = 0 /\ due = handled
      /\ UNCHANGED vars /\ UNCHANGED <<data, hasReader, handled, due>>
  BY IdleWaits DEF NoBuffer, readerVars, PathIInv, Waiting
<1>2. IInv'
  BY <1>1, CallIInv DEF PathIInv
<1>3. PathTypes'
  BY <1>1 DEF PathIInv, PathTypes, BetweenFrames
<1>4. call' = "none" /\ state' = "Header" /\ position' = 0 /\ due' = handled'
  BY <1>1 DEF vars
<1>5. ASSUME inStep' PROVE Waiting'
  <2>1. given' = 0
    BY <1>5 DEF BetweenFrames
  <2>2. state' # "Completed" /\ \A k1 \in 0..(position' - 1) : FALSE
    BY <1>4
  <2> QED BY <1>4, <2>1, <2>2 DEF Waiting, Holds
<1> QED BY <1>2, <1>3, <1>4, <1>5 DEF PathIInv, Stage

\* What is true after any chunk that a reader gets: what is left to show is the
\* stage.
LEMMA TakenIs ==
  ASSUME PathIInv, NEW chunk \in Seq(Byte), PutReceivedData(chunk),
         NEW f \in Frame, NEW k \in 0..(Len(f) - 1), frame' = f, given' = k,
         inStep' \in BOOLEAN, due' \in Seq(Frame),
         inStep' => Stage', ~inStep' => due' = due
  PROVE  PathIInv'
BY Taken DEF PathIInv, PathTypes

LEMMA PieceArrives ==
  ASSUME PathIInv, NEW n \in Nat, n >= 1, Piece(n)
  PROVE  PathIInv'
<1> DEFINE chunk == SubSeq(frame, given + 1, given + n)
<1>1. /\ given + n < Len(frame) /\ given' = given + n /\ frame' = frame
      /\ Arrives(chunk, <<>>, TRUE)
  BY DEF Piece
<1>2. /\ frame \in Frame /\ frame \in Seq(Byte)
      /\ given \in Nat /\ Len(frame) \in Nat /\ given + n \in 0..(Len(frame) - 1)
  BY <1>1, FrameIs DEF PathIInv, PathTypes
<1>3. /\ chunk \in Seq(Byte) /\ Len(chunk) = n
      /\ \A k \in 1..n : chunk[k] = frame[given + k]
  BY <1>1, <1>2, PieceIs
<1> HIDE DEF chunk
<1>4. CASE NoBuffer /\ inStep' = BetweenFrames' /\ UNCHANGED due
  BY <1>1, <1>2, <1>4, Lost
<1>5. CASE PutReceivedData(chunk) /\ ~inStep /\ inStep' = (inStep /\ TRUE) /\ due' = due
  BY <1>1, <1>2, <1>3, <1>5, TakenIs DEF PathIInv, PathTypes
<1>6. CASE PutReceivedData(chunk) /\ inStep /\ inStep' = (inStep /\ TRUE) /\ due' = due
  <2>1. /\ call' = "reading" /\ data' = chunk /\ UNCHANGED <<buffer, position, state, handled>>
        /\ state' # "Completed" /\ due = handled /\ Waiting
    BY <1>3, <1>6, Taken
  <2>2. Arriving'
    <3>1. position = given /\ Holds(frame)
      BY <2>1 DEF Waiting
    <3>2. chunk # <<>>
      BY <1>3
    <3>3. Holds(frame)'
      BY <1>1, <2>1, <3>1 DEF Holds
    <3> QED BY <1>1, <1>2, <1>3, <1>6, <2>1, <3>1, <3>2, <3>3 DEF Arriving
  <2> QED BY <1>1, <1>2, <1>3, <1>6, <2>2, TakenIs DEF PathIInv, PathTypes, Stage
<1>7. due \o <<>> = due
  BY AppendIs DEF PathIInv, PathTypes
<1> QED BY <1>1, <1>4, <1>5, <1>6, <1>7 DEF Arrives

LEMMA TimeoutArrives == ASSUME PathIInv, Timeout PROVE PathIInv'
<1>1. /\ given' = given /\ frame' = frame /\ Arrives(<<>>, <<>>, given # 1)
  BY DEF Timeout, senderVars
<1>2. /\ frame \in Frame /\ given \in 0..(Len(frame) - 1) /\ Len(frame) \in Nat
      /\ <<>> \in Seq(Byte) /\ Len(<<>>) = 0 /\ given \in Nat
  BY FrameIs DEF PathIInv, PathTypes
<1>3. CASE NoBuffer /\ inStep' = BetweenFrames' /\ UNCHANGED due
  BY <1>1, <1>2, <1>3, Lost
<1>4. CASE PutReceivedData(<<>>) /\ ~inStep' /\ inStep' \in BOOLEAN /\ due' = due
  BY <1>1, <1>2, <1>4, TakenIs DEF PathIInv, PathTypes
<1>5. CASE PutReceivedData(<<>>) /\ inStep /\ given # 1 /\ inStep' /\ inStep' \in BOOLEAN /\ due' = due
  <2>1. /\ call' = "reading" /\ data' = <<>> /\ UNCHANGED <<buffer, position, state, handled>>
        /\ state' # "Completed" /\ due = handled /\ Waiting
    BY <1>2, <1>5, Taken
  <2>2. Arriving'
    <3>1. position = given /\ Holds(frame)
      BY <2>1 DEF Waiting
    <3>2. Holds(frame)'
      BY <1>1, <2>1, <3>1 DEF Holds
    <3> QED BY <1>1, <1>2, <1>5, <2>1, <3>1, <3>2 DEF Arriving
  <2> QED BY <1>1, <1>2, <1>5, <2>2, TakenIs DEF PathIInv, PathTypes, Stage
<1>6. due \o <<>> = due
  BY AppendIs DEF PathIInv, PathTypes
<1> QED BY <1>1, <1>3, <1>4, <1>5, <1>6 DEF Arrives

LEMMA LastPieceArrives ==
  ASSUME PathIInv, NEW f \in Frame, NEW k \in 0..(Len(f) - 1), NEW behind \in Behind,
         LastPiece(behind, f, k)
  PROVE  PathIInv'
<1> DEFINE rest == SubSeq(frame, given + 1, Len(frame))
           start == SubSeq(f, 1, k)
           chunk == rest \o behind \o start
<1>1. frame' = f /\ given' = k /\ Arrives(chunk, <<frame>>, TRUE)
  BY DEF LastPiece, NextFrame
<1>2. /\ frame \in Frame /\ frame \in Seq(Byte)
      /\ given \in Nat /\ Len(frame) \in Nat /\ given < Len(frame)
      /\ f \in Seq(Byte) /\ Len(f) \in Nat /\ k \in Nat
      /\ behind \in Seq(Byte)
  BY FrameIs, BehindAssumption DEF PathIInv, PathTypes
<1>3. /\ rest \in Seq(Byte) /\ Len(rest) = Len(frame) - given
      /\ \A i \in 1..(Len(frame) - given) : rest[i] = frame[given + i]
  BY <1>2, RestIs
<1>4. start \in Seq(Byte)
  BY <1>2
<1> HIDE DEF rest, start
<1>5. /\ chunk \in Seq(Byte) /\ Len(chunk) >= Len(frame) - given
      /\ \A i \in 1..(Len(frame) - given) : chunk[i] = frame[given + i]
  <2>1. /\ rest \o behind \in Seq(Byte) /\ Len(rest \o behind) >= Len(rest)
        /\ Len(rest \o behind) \in Nat
        /\ \A i \in 1..Len(rest) : (rest \o behind)[i] = rest[i]
    BY <1>2, <1>3, ConcatIs
  <2>2. /\ chunk \in Seq(Byte) /\ Len(chunk) >= Len(rest \o behind)
        /\ \A i \in 1..Len(rest \o behind) : chunk[i] = (rest \o behind)[i]
    BY <1>4, <2>1, ConcatIs
  <2> QED BY <1>2, <1>3, <2>1, <2>2
<1> HIDE DEF chunk
<1>6. CASE NoBuffer /\ inStep' = BetweenFrames' /\ UNCHANGED due
  BY <1>1, <1>6, Lost
<1>7. CASE PutReceivedData(chunk) /\ ~inStep /\ inStep' = (inStep /\ TRUE) /\ due' = due
  BY <1>1, <1>5, <1>7, TakenIs DEF PathIInv, PathTypes
<1>8. CASE PutReceivedData(chunk) /\ inStep /\ inStep' = (inStep /\ TRUE)
           /\ due' = Append(due, frame)
  <2>1. /\ call' = "reading" /\ data' = chunk /\ UNCHANGED <<buffer, position, state, handled>>
        /\ state' # "Completed" /\ due = handled /\ Waiting
    BY <1>5, <1>8, Taken
  <2>2. PICK g \in Frame : g = frame
    BY <1>2
  <2>3. position = given /\ Holds(g)
    BY <2>1, <2>2 DEF Waiting
  <2>4. Ending(g)'
    <3>1. Holds(g)'
      BY <2>1, <2>3 DEF Holds
    <3> QED BY <1>2, <1>5, <1>8, <2>1, <2>2, <2>3, <3>1 DEF Ending
  <2>5. due' \in Seq(Frame)
    BY <1>2, <1>8 DEF PathIInv, PathTypes
  <2> QED BY <1>1, <1>5, <1>8, <2>4, <2>5, TakenIs DEF Stage
<1>9. due \o <<frame>> = Append(due, frame)
  BY <1>2, AppendIs DEF PathIInv, PathTypes
<1> QED BY <1>1, <1>6, <1>7, <1>8, <1>9 DEF Arrives

LEMMA CutArrives ==
  ASSUME PathIInv, NEW n \in Nat, NEW f \in Frame, NEW k \in 0..(Len(f) - 1),
         NEW behind \in Behind, Cut(n, behind, f, k)
  PROVE  PathIInv'
<1> DEFINE piece == SubSeq(frame, given + 1, given + n)
           start == SubSeq(f, 1, k)
           chunk == piece \o <<SYNC>> \o behind \o start
           harmless == given + n >= 2 /\ behind = <<>> /\ (k > 0 => f[1] # SYNC)
<1>1. /\ given + n < Len(frame) /\ frame' = f /\ given' = k
      /\ Arrives(chunk, <<>>, harmless)
  BY DEF Cut, NextFrame
<1>2. /\ frame \in Frame /\ frame \in Seq(Byte)
      /\ given \in Nat /\ Len(frame) \in Nat
      /\ f \in Seq(Byte) /\ Len(f) \in Nat /\ k \in Nat /\ k <= Len(f)
      /\ behind \in Seq(Byte)
      /\ <<SYNC>> \in Seq(Byte) /\ Len(<<SYNC>>) = 1 /\ <<SYNC>>[1] = SYNC
  BY FrameIs, BehindAssumption, ByteAssumption DEF PathIInv, PathTypes
<1>3. /\ piece \in Seq(Byte) /\ Len(piece) = n
      /\ \A i \in 1..n : piece[i] = frame[given + i]
  BY <1>1, <1>2, PieceIs
<1>4. /\ start \in Seq(Byte) /\ Len(start) = k
      /\ \A i \in 1..k : start[i] = f[i]
  <2>1. start = SubSeq(f, 0 + 1, 0 + k)
    BY <1>2
  <2> QED BY <1>2, <2>1, PieceIs
<1> HIDE DEF piece, start
<1>5. /\ piece \o <<SYNC>> \in Seq(Byte) /\ Len(piece \o <<SYNC>>) = n + 1
      /\ \A i \in 1..n : (piece \o <<SYNC>>)[i] = frame[given + i]
      /\ (piece \o <<SYNC>>)[n + 1] = SYNC
  BY <1>2, <1>3, ConcatIs
<1>6. piece \o <<SYNC>> \o behind \in Seq(Byte)
  BY <1>2, <1>5, ConcatIs
<1>7. chunk \in Seq(Byte)
  BY <1>4, <1>6, ConcatIs
<1>8. ASSUME behind = <<>>
      PROVE  /\ Len(chunk) = n + 1 + k
             /\ \A i \in 1..n : chunk[i] = frame[given + i]
             /\ chunk[n + 1] = SYNC
             /\ \A i \in 1..k : chunk[n + 1 + i] = f[i]
  <2>1. piece \o <<SYNC>> \o behind = piece \o <<SYNC>>
    BY <1>2, <1>5, <1>8, AppendIs
  <2> DEFINE head == piece \o <<SYNC>>
  <2>2. chunk = head \o start
    BY <2>1
  <2> HIDE DEF head, chunk
  <2>3. head \in Seq(Byte) /\ Len(head) = n + 1
    BY <1>5 DEF head
  <2>4. /\ Len(head \o start) = (n + 1) + k
        /\ \A i \in 1..(n + 1) : (head \o start)[i] = head[i]
        /\ \A i \in 1..k : (head \o start)[(n + 1) + i] = start[i]
    <3>1. head \in Seq(Byte) /\ start \in Seq(Byte)
      BY <1>4, <2>3
    <3> HIDE DEF start
    <3>2. /\ Len(head \o start) = Len(head) + Len(start)
          /\ \A i \in 1..Len(head) : (head \o start)[i] = head[i]
          /\ \A i \in 1..Len(start) : (head \o start)[Len(head) + i] = start[i]
      BY <3>1, ConcatIs
    <3> QED BY <1>4, <2>3, <3>2
  <2> QED BY <1>4, <1>5, <2>2, <2>4 DEF head
<1> HIDE DEF chunk
<1>9. CASE NoBuffer /\ inStep' = BetweenFrames' /\ UNCHANGED due
  BY <1>1, <1>9, Lost
<1>10. CASE PutReceivedData(chunk) /\ ~inStep' /\ inStep' \in BOOLEAN /\ due' = due
  BY <1>1, <1>7, <1>10, TakenIs DEF PathIInv, PathTypes
<1>11. CASE PutReceivedData(chunk) /\ inStep /\ harmless /\ inStep' /\ inStep' \in BOOLEAN /\ due' = due
  <2>1. /\ call' = "reading" /\ data' = chunk /\ UNCHANGED <<buffer, position, state, handled>>
        /\ state' # "Completed" /\ due = handled /\ Waiting
    BY <1>7, <1>11, Taken
  <2>2. PICK g \in Frame : g = frame
    BY <1>2
  <2>3. position = given /\ Holds(g)
    BY <2>1, <2>2 DEF Waiting
  <2>4. PICK m \in Nat : m = given + n
    BY <1>2
  <2>5. Cutting(g, m)'
    <3>1. Holds(g)'
      BY <2>1, <2>3 DEF Holds
    <3>2. /\ 2 <= m /\ m < Len(g) /\ position <= m
          /\ m - position = n /\ (m - position) + 1 = n + 1
      BY <1>1, <1>2, <1>11, <2>2, <2>3, <2>4
    <3>3. /\ Len(data') = (m - position) + 1 + given'
          /\ \A i \in 1..(m - position) : data'[i] = g[position + i]
          /\ data'[m - position + 1] = SYNC
          /\ \A i \in 1..given' : data'[(m - position) + 1 + i] = frame'[i]
      BY <1>1, <1>8, <1>11, <2>1, <2>2, <2>3, <3>2
    <3>4. given' > 0 => frame'[1] # SYNC
      BY <1>1, <1>11
    <3> QED BY <1>11, <2>1, <3>1, <3>2, <3>3, <3>4 DEF Cutting
  <2> QED BY <1>1, <1>7, <1>11, <2>5, TakenIs DEF PathIInv, PathTypes, Stage
<1>12. due \o <<>> = due
  BY AppendIs DEF PathIInv, PathTypes
<1> QED BY <1>1, <1>9, <1>10, <1>11, <1>12 DEF Arrives

-------------------------------------------------------------------------------

\* packet() shows the frame.
LEMMA PacketIsFrame ==
  ASSUME NEW g \in Frame, Holds(g), position = Len(g)
  PROVE  packet = g
<1>1. g \in Seq(Byte) /\ Len(g) \in Nat
  BY FrameIs
<1>2. g = [k \in 1..Len(g) |-> g[k]]
  BY <1>1
<1>3. ASSUME NEW k \in 1..Len(g) PROVE buffer[k - 1] = g[k]
  BY <1>1 DEF Holds
<1> QED BY <1>2, <1>3 DEF packet

\* What a packet that is being handled is.
LEMMA Handling ==
  ASSUME PathIInv, Process, inStep
  PROVE  packet \in Frame /\ due = Append(handled, packet)
<1>1. PICK g \in Frame : Done(g)
  BY DEF Process, HasPacket, PathIInv, Returned, Stage, Waiting, Arriving, Ending, Cutting
<1> QED BY <1>1, PacketIsFrame DEF Done

LEMMA ProcessKeeps == ASSUME PathIInv, Process PROVE PathIInv'
<1>1. /\ position' = 0 /\ state' = "Header" /\ call' = "none"
      /\ UNCHANGED <<frame, given, due, data, buffer>>
      /\ inStep' = BetweenFrames
      /\ handled' = IF inStep THEN Append(handled, packet) ELSE handled
  BY DEF Process, Recycle, senderVars
<1>2. IInv'
  BY CallIInv DEF Process, PathIInv
<1>3. due' = handled' /\ handled' \in Seq(Frame)
  BY <1>1, Handling DEF PathIInv, PathTypes
<1>4. PathTypes'
  BY <1>1, <1>3 DEF PathIInv, PathTypes, BetweenFrames
<1>5. ASSUME inStep' PROVE Waiting'
  <2>1. given' = 0
    BY <1>1, <1>5 DEF BetweenFrames
  <2>2. state' # "Completed" /\ \A k \in 0..(position' - 1) : FALSE
    BY <1>1
  <2> QED BY <1>1, <1>3, <2>1, <2>2 DEF Waiting, Holds
<1> QED BY <1>1, <1>2, <1>3, <1>4, <1>5 DEF PathIInv, Stage

LEMMA StutterKeeps == ASSUME PathIInv, UNCHANGED pathVars PROVE PathIInv'
<1>1. /\ UNCHANGED vars
      /\ UNCHANGED <<frame, given, data, hasReader, inStep, due, handled>>
  BY DEF pathVars, readerVars, senderVars
<1>2. IInv'
  BY <1>1, CallIInv DEF PathIInv
<1>3. PathTypes'
  BY <1>1 DEF PathIInv, PathTypes
<1>4. Stage => Stage'
  BY <1>1 DEF Stage, Waiting, Arriving, Ending, Cutting, Done, Holds, vars
<1> QED BY <1>1, <1>2, <1>3, <1>4 DEF PathIInv, vars

-------------------------------------------------------------------------------

\* An iteration of read.
LEMMA ReadIs ==
  ASSUME PathIInv, Read
  PROVE  /\ call = "reading" /\ hasReader /\ hasReader'
         /\ UNCHANGED <<frame, given, due, handled>>
         /\ \/ Refuse /\ Leaves(data)
            \/ /\ Wanted \in Nat /\ position + Wanted <= BUFFER_SIZE
               /\ \E n \in 0..Len(data) :
                    /\ n = IF Wanted < Len(data) THEN Wanted ELSE Len(data)
                    /\ Store(SubSeq(data, 1, n))
                    /\ Leaves(SubSeq(data, n + 1, Len(data)))
<1>1. \A d : Store(d) => call = "reading" /\ ((AwaitingHeader /\ position <= 2) \/ BodyExpected)
  BY DEF Store, ReadHeader, BodyBytes, Resync, BodyExpected, AwaitingHeader, AwaitingData
<1>2. Refuse => call = "reading"
  BY DEF Refuse, Panic, InsufficientBuffer, AwaitingHeader, AwaitingData
<1>3. call = "reading" /\ UNCHANGED <<frame, given, due, handled>> /\ hasReader' = hasReader
  BY <1>1, <1>2 DEF Read, senderVars
<1>4. hasReader
  BY <1>3 DEF PathIInv
<1>5. CASE Refuse /\ Leaves(data)
  BY <1>3, <1>4, <1>5
<1>6. ASSUME NEW n, n = (IF Wanted < Len(data) THEN Wanted ELSE Len(data)),
             Store(SubSeq(data, 1, n)), Leaves(SubSeq(data, n + 1, Len(data)))
      PROVE  /\ Wanted \in Nat /\ position + Wanted <= BUFFER_SIZE
             /\ n \in 0..Len(data)
  <2>1. (AwaitingHeader /\ position <= 2) \/ BodyExpected
    BY <1>1, <1>6
  <2>2. Wanted \in Nat /\ position + Wanted <= BUFFER_SIZE
    BY <2>1, ReadsFit DEF PathIInv, IInv
  <2>3. Len(data) \in Nat
    BY DEF PathIInv, PathTypes
  <2> QED BY <1>6, <2>2, <2>3
<1> QED BY <1>3, <1>4, <1>5, <1>6 DEF Read

\* What an iteration leaves, in step or not.
LEMMA ReadTypes ==
  ASSUME PathIInv, Read
  PROVE  IInv' /\ PathTypes'
<1>1. /\ UNCHANGED <<frame, given, due, handled>>
      /\ data \in Seq(Byte) /\ inStep \in BOOLEAN
  BY ReadIs DEF PathIInv, PathTypes
<1>2. <<>> \in Seq(Byte)
  OBVIOUS
<1>3. ASSUME NEW rest \in Seq(Byte), Leaves(rest) PROVE PathTypes'
  <2>1. inStep' \in BOOLEAN
    BY <1>1, <1>3 DEF Leaves
  <2>2. data' \in Seq(Byte)
    BY <1>2, <1>3 DEF Leaves
  <2> QED BY <1>1, <2>1, <2>2 DEF PathIInv, PathTypes
<1>4. CASE Refuse /\ Leaves(data)
  BY <1>1, <1>3, <1>4, RefuseIInv DEF PathIInv
<1>5. ASSUME NEW n \in 0..Len(data),
             n = (IF Wanted < Len(data) THEN Wanted ELSE Len(data)), Wanted \in Nat,
             Store(SubSeq(data, 1, n)), Leaves(SubSeq(data, n + 1, Len(data)))
      PROVE  IInv' /\ PathTypes'
  <2>1. Len(data) \in Nat /\ n <= Wanted
    BY <1>1, <1>5
  <2>2. SubSeq(data, 1, n) \in Seq(Byte) /\ Len(SubSeq(data, 1, n)) = n
    BY <1>1, <1>5, <2>1
  <2>3. SubSeq(data, n + 1, Len(data)) \in Seq(Byte)
    BY <1>1, <1>5, RestIs
  <2>4. IInv'
    BY <1>5, <2>1, <2>2, StoreIInv DEF PathIInv
  <2> QED BY <1>3, <1>5, <2>3, <2>4
<1> QED BY <1>4, <1>5, ReadIs

\* A reader that is out of step can be in step again only when it is empty
\* between two frames.
LEMMA ReadOutOfStep == ASSUME PathIInv, Read, ~inStep PROVE PathIInv'
<1>1. /\ IInv' /\ PathTypes' /\ hasReader' /\ due = handled /\ due' = handled'
      /\ UNCHANGED <<frame, given>>
  BY ReadIs, ReadTypes DEF PathIInv
<1>2. ASSUME inStep' PROVE given = 0 /\ position' = 0 /\ call' \notin {"reading", "Ok(true)"}
  BY <1>2, ReadIs DEF Leaves, BetweenFrames
<1>3. \A d : Store(d) =>
        /\ call' \in {"reading", "Ok(true)", "Ok(false)"}
        /\ state' = "Completed" => call' = "Ok(true)"
  BY DEF Store, ReadHeader, BodyBytes, Resync, Outcome, Verdict
<1>4. ASSUME Refuse, position' = 0
      PROVE  call' = "InsufficientBuffer" /\ state' = "Header"
  <2>1. Panic => position' # 0
    <3>1. Panic => position' = position /\ (position > 2 \/ position > End)
      BY DEF Panic
    <3> QED BY <3>1, EndType DEF PathIInv, IInv
  <2> QED BY <1>4, <2>1 DEF Refuse, InsufficientBuffer
<1>5. ASSUME inStep' PROVE Waiting'
  <2>1. call' \in {"none", "Ok(false)", "InsufficientBuffer"}
    BY <1>2, <1>3, <1>4, <1>5, ReadIs
  <2>2. state' # "Completed"
    BY <1>2, <1>3, <1>4, <1>5, ReadIs
  <2>3. given' = 0 /\ position' = 0 /\ \A k \in 0..(position' - 1) : FALSE
    BY <1>1, <1>2, <1>5
  <2> QED BY <1>1, <2>1, <2>2, <2>3 DEF Waiting, Holds
<1> QED BY <1>1, <1>5 DEF PathIInv, Stage

-------------------------------------------------------------------------------

\* A reader that holds the beginning of a frame, and not all of it, is refused
\* nothing and asks for no more than the frame has.
LEMMA InFrame ==
  ASSUME PathIInv, Read, NEW g \in Frame, Holds(g), position < Len(g), state # "Completed"
  PROVE  /\ position \in Nat /\ state \in {"Header", "Data"}
         /\ state = "Data" <=> position >= 2
         /\ state = "Data" => End = Len(g)
         /\ Wanted = IF state = "Data" THEN Len(g) - position ELSE 2 - position
         /\ Wanted \in Nat /\ position + Wanted <= BUFFER_SIZE
         /\ \E n \in 0..Len(data) :
              /\ n = IF Wanted < Len(data) THEN Wanted ELSE Len(data)
              /\ Store(SubSeq(data, 1, n))
              /\ Leaves(SubSeq(data, n + 1, Len(data)))
<1>1. position \in Nat /\ state \in {"Header", "Data"} /\ (state = "Data" <=> position >= 2)
  BY BufferSizeAssumption DEF PathIInv, IInv, TypeOK, ReaderState
<1>2. state = "Data" => End = Len(g)
  <2>1. position >= 2 => buffer[1] = g[2]
    BY <1>1 DEF Holds
  <2> QED BY <1>1, <2>1, FrameIs DEF End
<1>3. ~Refuse
  BY <1>1, <1>2, FrameIs
  DEF Refuse, Panic, InsufficientBuffer, AwaitingHeader, AwaitingData, Fits
<1>4. Wanted = IF state = "Data" THEN Len(g) - position ELSE 2 - position
  BY <1>2 DEF Wanted
<1> QED BY <1>1, <1>2, <1>3, <1>4, ReadIs

\* What is taken of a slice, and what is left.
LEMMA Split2 ==
  ASSUME NEW s \in Seq(Byte), NEW n \in 0..Len(s)
  PROVE  /\ SubSeq(s, 1, n) \in Seq(Byte) /\ Len(SubSeq(s, 1, n)) = n
         /\ \A k \in 1..n : SubSeq(s, 1, n)[k] = s[k]
         /\ SubSeq(s, n + 1, Len(s)) \in Seq(Byte)
         /\ Len(SubSeq(s, n + 1, Len(s))) = Len(s) - n
         /\ \A k \in 1..(Len(s) - n) : SubSeq(s, n + 1, Len(s))[k] = s[n + k]
<1>1. /\ SubSeq(s, 1, n) \in Seq(Byte) /\ Len(SubSeq(s, 1, n)) = n
      /\ \A k \in 1..n : SubSeq(s, 1, n)[k] = s[k]
  OBVIOUS
<1> QED BY <1>1, RestIs

\* The bytes held, and those read behind them, are the first of the frame.
LEMMA HeldGrows ==
  ASSUME IInv, NEW g, Holds(g), NEW d \in Seq(Byte), position + Len(d) <= BUFFER_SIZE,
         \A k \in 1..Len(d) : d[k] = g[position + k],
         buffer' = Fill(d), position' = position + Len(d)
  PROVE  Holds(g)'
<1>0. position \in Nat /\ Len(d) \in Nat
  BY BufferSizeAssumption DEF IInv, TypeOK
<1>1. ASSUME NEW k \in 0..(position + Len(d) - 1) PROVE Fill(d)[k] = g[k + 1]
  <2>1. CASE k < position
    BY <1>0, <2>1, FillIs DEF Holds, IInv
  <2>2. CASE k >= position
    <3>1. k - position + 1 \in 1..Len(d) /\ position + (k - position + 1) = k + 1
      BY <1>0, <2>2
    <3>2. Fill(d)[k] = d[k - position + 1]
      BY <1>0, <2>2, FillIs DEF IInv
    <3> QED BY <3>1, <3>2
  <2> QED BY <1>0, <2>1, <2>2
<1>2. ASSUME NEW k \in 0..(position' - 1) PROVE buffer'[k] = g[k + 1]
  <2>1. k \in 0..(position + Len(d) - 1) /\ buffer'[k] = Fill(d)[k]
    BY <1>0
  <2> QED BY <1>1, <2>1
<1> QED BY <1>2 DEF Holds

\* The header of a frame is read as a whole: read goes on to the body.
LEMMA HeaderComes ==
  ASSUME PathIInv, Read, NEW g \in Frame, Holds(g), position < Len(g), state = "Header",
         Len(data) >= 2 - position, \A k \in 1..(2 - position) : data[k] = g[position + k]
  PROVE  /\ position' = 2 /\ state' = "Data" /\ call' = "reading" /\ Holds(g)'
         /\ Len(data') = Len(data) - (2 - position)
         /\ \A k \in 1..Len(data') : data'[k] = data[(2 - position) + k]
         /\ inStep' = inStep
<1>1. PICK n \in 0..Len(data) :
        /\ n = IF Wanted < Len(data) THEN Wanted ELSE Len(data)
        /\ Store(SubSeq(data, 1, n))
        /\ Leaves(SubSeq(data, n + 1, Len(data)))
  BY InFrame
<1>2. /\ position \in Nat /\ position < 2 /\ Wanted = 2 - position
      /\ Len(data) \in Nat /\ data \in Seq(Byte) /\ Len(g) \in Nat /\ Len(g) <= BUFFER_SIZE
      /\ 2 <= BUFFER_SIZE
  BY InFrame, FrameIs, BufferSizeAssumption DEF PathIInv, PathTypes, MinRaw
<1>3. n = 2 - position
  BY <1>1, <1>2
<1> DEFINE d == SubSeq(data, 1, n)
           rest == SubSeq(data, n + 1, Len(data))
<1>4. /\ d \in Seq(Byte) /\ Len(d) = n /\ \A k \in 1..n : d[k] = data[k]
      /\ Len(rest) = Len(data) - n /\ \A k \in 1..(Len(data) - n) : rest[k] = data[n + k]
  BY <1>1, <1>2, Split2
<1>5. Store(d) /\ Leaves(rest)
  BY <1>1
<1> HIDE DEF d, rest
<1>6. ReadHeader(d)
  BY <1>5 DEF Store, BodyBytes, Resync, BodyExpected, AwaitingData
<1>7. position + Len(d) = 2
  BY <1>2, <1>3, <1>4
<1>8. position' = 2 /\ state' = "Data" /\ call' = "reading" /\ buffer' = Fill(d)
  BY <1>6, <1>7 DEF ReadHeader, Outcome, Verdict
<1>9. Holds(g)'
  <2>1. \A k \in 1..Len(d) : d[k] = g[position + k]
    BY <1>3, <1>4
  <2> QED BY <1>2, <1>4, <1>7, <1>8, <2>1, HeldGrows DEF PathIInv
<1>10. data' = rest /\ inStep' = inStep
  BY <1>5, <1>8 DEF Leaves
<1> QED BY <1>2, <1>3, <1>4, <1>8, <1>9, <1>10

\* Bytes of the body of a frame: it is complete, or read returns and nothing of
\* the chunk is lost.
LEMMA BodyComes ==
  ASSUME PathIInv, Read, NEW g \in Frame, Holds(g), position < Len(g), state = "Data",
         NEW n \in Nat, n = IF Wanted < Len(data) THEN Wanted ELSE Len(data),
         \A k \in 1..n : data[k] = g[position + k]
  PROVE  /\ position' = position + n /\ Holds(g)'
         /\ IF position + n = Len(g)
            THEN state' = "Completed" /\ call' = "Ok(true)" /\ inStep' = inStep
            ELSE state' = "Data" /\ call' = "Ok(false)" /\ (inStep => inStep')
         /\ n = Len(g) - position \/ n = Len(data)
<1>1. /\ n \in 0..Len(data)
      /\ Store(SubSeq(data, 1, n))
      /\ Leaves(SubSeq(data, n + 1, Len(data)))
  BY InFrame
<1>2. /\ position \in Nat /\ position >= 2 /\ Wanted = Len(g) - position /\ End = Len(g)
      /\ Len(data) \in Nat /\ data \in Seq(Byte) /\ Len(g) \in Nat /\ Len(g) <= BUFFER_SIZE
      /\ n <= Wanted /\ (n = Wanted \/ n = Len(data))
  BY InFrame, FrameIs DEF PathIInv, PathTypes
<1> DEFINE d == SubSeq(data, 1, n)
           rest == SubSeq(data, n + 1, Len(data))
<1>3. /\ d \in Seq(Byte) /\ Len(d) = n /\ \A k \in 1..n : d[k] = data[k]
      /\ rest \in Seq(Byte) /\ Len(rest) = Len(data) - n
  BY <1>1, <1>2, Split2
<1>4. Store(d) /\ Leaves(rest)
  BY <1>1
<1> HIDE DEF d, rest
<1>5. \A k \in 1..Len(d) : d[k] = g[position + k] /\ d[k] # SYNC
  <2>1. \A k \in 1..n : position + k \in 3..Len(g)
    BY <1>2
  <2> QED BY <1>3, <2>1, FrameIs
<1>6. BodyBytes(d)
  <2>1. ~\E j \in 1..Len(d) : Resync(d, j)
    BY <1>5 DEF Resync
  <2> QED BY <1>4, <2>1 DEF Store, ReadHeader, AwaitingHeader
<1>7. /\ position' = position + n /\ buffer' = Fill(d)
      /\ state' = IF position + n = Len(g) THEN "Completed" ELSE "Data"
      /\ call' = IF position + n = Len(g) THEN "Ok(true)" ELSE Verdict(n = Wanted)
  BY <1>2, <1>3, <1>6 DEF BodyBytes, Outcome
<1>8. Holds(g)'
  <2>1. position + Len(d) <= BUFFER_SIZE /\ position' = position + Len(d)
    BY <1>2, <1>3, <1>7, BufferSizeAssumption
  <2> QED BY <1>3, <1>5, <1>7, <2>1, HeldGrows DEF PathIInv
<1>9. CASE position + n = Len(g)
  BY <1>2, <1>4, <1>7, <1>8, <1>9 DEF Leaves
<1>10. CASE position + n # Len(g)
  <2>1. n # Wanted /\ n = Len(data)
    BY <1>2, <1>10
  <2>2. call' = "Ok(false)" /\ state' = "Data"
    BY <1>7, <1>10, <2>1 DEF Verdict
  <2>3. rest = <<>>
    BY <1>2, <1>3, <2>1
  <2>4. inStep => inStep'
    BY <1>4, <2>2, <2>3 DEF Leaves
  <2> QED BY <1>7, <1>8, <1>10, <2>1, <2>2, <2>4
<1> QED BY <1>9, <1>10

-------------------------------------------------------------------------------

\* A frame that is arriving goes on, or waits for more.
LEMMA ReadArriving == ASSUME PathIInv, Arriving, inStep, Read PROVE PathIInv'
<1>1. /\ hasReader' /\ UNCHANGED <<frame, given, due, handled>>
      /\ IInv' /\ PathTypes'
  BY ReadIs, ReadTypes
<1>2. PICK g \in Frame : g = frame
  BY DEF PathIInv, PathTypes
<1>3. /\ given \in Nat /\ given < Len(g) /\ data \in Seq(Byte) /\ Len(data) \in Nat
      /\ Holds(g) /\ position <= given /\ Len(data) = given - position
      /\ \A k \in 1..Len(data) : data[k] = g[position + k]
      /\ state # "Completed" /\ due = handled /\ inStep \in BOOLEAN
      /\ Len(g) \in Nat
  BY <1>2, FrameIs DEF PathIInv, PathTypes, Arriving
<1>4. /\ position \in Nat /\ position < Len(g) /\ state \in {"Header", "Data"}
      /\ state = "Data" <=> position >= 2
      /\ Wanted = IF state = "Data" THEN Len(g) - position ELSE 2 - position
  <2>1. position \in Nat
    BY BufferSizeAssumption DEF PathIInv, IInv, TypeOK
  <2>2. position < Len(g)
    BY <1>3, <2>1
  <2> QED BY <1>3, <2>2, InFrame
<1>5. CASE state = "Header" /\ given >= 2
  <2>0. position \in 0..1 /\ Len(data) >= 2 - position
    BY <1>3, <1>4, <1>5
  <2>1. /\ position' = 2 /\ state' = "Data" /\ call' = "reading" /\ Holds(g)'
        /\ Len(data') = Len(data) - (2 - position)
        /\ \A k \in 1..Len(data') : data'[k] = data[(2 - position) + k]
        /\ inStep' = inStep
    <3>1. \A k \in 1..(2 - position) : k \in 1..Len(data)
      BY <1>3, <2>0
    <3>2. \A k \in 1..(2 - position) : data[k] = g[position + k]
      BY <1>3, <3>1
    <3> QED BY <1>3, <1>4, <1>5, <2>0, <3>2, HeaderComes
  <2>2. Len(data') = given - 2
    BY <1>3, <2>0, <2>1
  <2>3. ASSUME NEW k \in 1..(given - 2) PROVE data'[k] = g[2 + k]
    <3>1. (2 - position) + k \in 1..Len(data) /\ position + ((2 - position) + k) = 2 + k
      BY <1>3, <2>0
    <3>2. k \in 1..Len(data')
      BY <2>2
    <3>3. data'[k] = data[(2 - position) + k]
      BY <2>1, <3>2
    <3>4. data[(2 - position) + k] = g[position + ((2 - position) + k)]
      BY <1>3, <3>1
    <3> QED BY <3>1, <3>3, <3>4
  <2>4. Holds(frame)'
    BY <1>1, <1>2, <2>1 DEF Holds
  <2>5. \A k \in 1..Len(data') : data'[k] = frame'[position' + k]
    BY <1>1, <1>2, <2>1, <2>2, <2>3
  <2>6. position' <= given' /\ Len(data') = given' - position' /\ position' # 1
    BY <1>1, <1>5, <2>1, <2>2
  <2>7. Arriving'
    BY <1>1, <1>3, <2>1, <2>4, <2>5, <2>6 DEF Arriving
  <2> QED BY <1>1, <2>1, <2>7 DEF PathIInv, Stage
<1>6. CASE state = "Header" /\ ~(given >= 2)
  <2>1. PICK n \in 0..Len(data) :
          /\ n = IF Wanted < Len(data) THEN Wanted ELSE Len(data)
          /\ Store(SubSeq(data, 1, n))
          /\ Leaves(SubSeq(data, n + 1, Len(data)))
    BY <1>3, <1>4, InFrame
  <2>2. n = Len(data)
    BY <1>3, <1>4, <1>6, <2>1
  <2>3. position = 0 /\ given = n
    <3>1. position = 1 => Len(data) # 0
      BY <1>3 DEF Arriving
    <3> QED BY <1>3, <1>4, <1>6, <2>2, <3>1
  <2> DEFINE d == SubSeq(data, 1, n)
             rest == SubSeq(data, n + 1, Len(data))
  <2>4. /\ d \in Seq(Byte) /\ Len(d) = n /\ \A k \in 1..n : d[k] = data[k]
        /\ rest \in Seq(Byte) /\ Len(rest) = Len(data) - n
    BY <1>3, <2>1, Split2
  <2>5. Store(d) /\ Leaves(rest)
    BY <2>1
  <2> HIDE DEF d, rest
  <2>6. ReadHeader(d)
    BY <1>6, <2>5 DEF Store, BodyBytes, Resync, BodyExpected, AwaitingData
  <2>7. position' = n /\ state' = "Header" /\ call' = "Ok(false)" /\ buffer' = Fill(d)
    <3>1. position + Len(d) < 2
      BY <1>3, <1>6, <2>3, <2>4
    <3> QED BY <2>4, <2>6, <3>1 DEF ReadHeader, Outcome, Verdict, HeaderHeld
  <2>8. Holds(g)'
    <3>1. /\ position + Len(d) <= BUFFER_SIZE /\ position' = position + Len(d)
          /\ \A k \in 1..Len(d) : d[k] = g[position + k]
      BY <1>3, <1>6, <2>2, <2>3, <2>4, <2>7, BufferSizeAssumption DEF MinRaw
    <3> QED BY <1>3, <2>4, <2>7, <3>1, HeldGrows DEF PathIInv
  <2>9. Holds(frame)'
    BY <1>1, <1>2, <2>8 DEF Holds
  <2>10. Waiting'
    BY <1>1, <1>3, <2>3, <2>7, <2>9 DEF Waiting
  <2> QED BY <1>1, <1>3, <2>10 DEF PathIInv, Stage
<1>7. CASE state = "Data"
  <2>0. Wanted \in Nat /\ Wanted = Len(g) - position /\ Len(data) < Wanted
    BY <1>3, <1>4, <1>7
  <2>1. PICK n \in Nat : n = IF Wanted < Len(data) THEN Wanted ELSE Len(data)
    BY <1>3, <2>0
  <2>2. n = Len(data) /\ position + n = given /\ position + n # Len(g)
    BY <1>3, <1>4, <2>0, <2>1
  <2>3. /\ position' = position + n /\ Holds(g)'
        /\ state' = "Data" /\ call' = "Ok(false)" /\ inStep'
    <3>1. \A k \in 1..n : data[k] = g[position + k]
      BY <1>3, <2>2
    <3>2. /\ position' = position + n /\ Holds(g)'
          /\ IF position + n = Len(g)
             THEN state' = "Completed" /\ call' = "Ok(true)" /\ inStep' = inStep
             ELSE state' = "Data" /\ call' = "Ok(false)" /\ (inStep => inStep')
      BY <1>3, <1>4, <1>7, <2>1, <3>1, BodyComes
    <3> QED BY <2>2, <3>2
  <2>4. Holds(frame)'
    BY <1>1, <1>2, <2>3 DEF Holds
  <2>5. Waiting'
    BY <1>1, <1>3, <2>2, <2>3, <2>4 DEF Waiting
  <2> QED BY <1>1, <2>3, <2>5 DEF PathIInv, Stage
<1> QED BY <1>4, <1>5, <1>6, <1>7

\* The frame that ends in the chunk becomes complete.
LEMMA ReadEnding ==
  ASSUME PathIInv, NEW g \in Frame, Ending(g), inStep, Read
  PROVE  PathIInv'
<1>1. /\ hasReader' /\ UNCHANGED <<frame, given, due, handled>>
      /\ IInv' /\ PathTypes'
  BY ReadIs, ReadTypes
<1>2. /\ Holds(g) /\ position < Len(g) /\ Len(data) >= Len(g) - position
      /\ \A k \in 1..(Len(g) - position) : data[k] = g[position + k]
      /\ state # "Completed" /\ due = Append(handled, g)
      /\ Len(data) \in Nat /\ Len(g) \in Nat /\ Len(g) >= 3 /\ inStep \in BOOLEAN
  BY FrameIs DEF PathIInv, PathTypes, Ending
<1>3. /\ position \in Nat /\ state \in {"Header", "Data"}
      /\ state = "Data" <=> position >= 2
      /\ Wanted = IF state = "Data" THEN Len(g) - position ELSE 2 - position
  BY <1>2, InFrame
<1>4. CASE state = "Header"
  <2>1. /\ position' = 2 /\ state' = "Data" /\ call' = "reading" /\ Holds(g)'
        /\ Len(data') = Len(data) - (2 - position)
        /\ \A k \in 1..Len(data') : data'[k] = data[(2 - position) + k]
        /\ inStep' = inStep
    <3>1. /\ Len(data) >= 2 - position
          /\ \A k \in 1..(2 - position) : data[k] = g[position + k]
      BY <1>2, <1>3, <1>4
    <3> QED BY <1>2, <1>4, <3>1, HeaderComes
  <2>2. Len(data') >= Len(g) - 2
    BY <1>2, <1>3, <2>1
  <2>3. ASSUME NEW k \in 1..(Len(g) - 2) PROVE data'[k] = g[2 + k]
    <3>1. /\ (2 - position) + k \in 1..(Len(g) - position)
          /\ position + ((2 - position) + k) = 2 + k
          /\ k \in 1..Len(data')
      BY <1>2, <1>3, <1>4, <2>1, <2>2
    <3> QED BY <1>2, <2>1, <3>1
  <2>4. Ending(g)'
    BY <1>1, <1>2, <2>1, <2>2, <2>3 DEF Ending
  <2> QED BY <1>1, <2>1, <2>4 DEF PathIInv, Stage
<1>5. CASE state = "Data"
  <2>0. Wanted \in Nat /\ Wanted = Len(g) - position /\ Wanted <= Len(data)
    BY <1>2, <1>3, <1>5
  <2>1. PICK n \in Nat : n = IF Wanted < Len(data) THEN Wanted ELSE Len(data)
    BY <1>2, <2>0
  <2>2. position + n = Len(g) /\ n = Len(g) - position
    BY <1>2, <1>3, <2>0, <2>1
  <2>3. /\ position' = position + n /\ Holds(g)'
        /\ state' = "Completed" /\ call' = "Ok(true)" /\ inStep' = inStep
    <3>1. \A k \in 1..n : data[k] = g[position + k]
      BY <1>2, <2>2
    <3>2. /\ position' = position + n /\ Holds(g)'
          /\ IF position + n = Len(g)
             THEN state' = "Completed" /\ call' = "Ok(true)" /\ inStep' = inStep
             ELSE state' = "Data" /\ call' = "Ok(false)" /\ (inStep => inStep')
      BY <1>2, <1>5, <2>1, <3>1, BodyComes
    <3> QED BY <2>2, <3>2
  <2>4. Done(g)'
    BY <1>1, <1>2, <2>2, <2>3 DEF Done
  <2> QED BY <1>1, <2>3, <2>4 DEF PathIInv, Stage
<1> QED BY <1>3, <1>4, <1>5

\* The sync byte empties the reader, and what follows it in the same read is the
\* beginning of the next frame.
LEMMA CutComes ==
  ASSUME PathIInv, NEW g \in Frame, NEW m \in Nat, Cutting(g, m), Read, state = "Data",
         NEW j \in Nat, j = m - position + 1
  PROVE  \E n \in Nat :
           /\ j <= n /\ n <= Len(data) /\ position' = n - j
           /\ state' # "Completed" /\ call' = "Ok(false)"
           /\ \A i \in 0..(n - j - 1) : buffer'[i] = frame[i + 1]
           /\ Leaves(SubSeq(data, n + 1, Len(data)))
<1>1. /\ Holds(g) /\ position <= m /\ m < Len(g) /\ state # "Completed"
      /\ Len(data) = j + given /\ data[j] = SYNC
      /\ \A i \in 1..given : data[j + i] = frame[i]
      /\ given > 0 => frame[1] # SYNC
  BY DEF Cutting
<1>2. /\ data \in Seq(Byte) /\ Len(data) \in Nat /\ given \in Nat
      /\ frame \in Frame /\ given < Len(frame) /\ Len(frame) \in Nat
      /\ Len(g) \in Nat /\ Len(g) <= BUFFER_SIZE
      /\ position \in Nat /\ BUFFER_SIZE \in Nat /\ j >= 1
  BY <1>1, FrameIs, BufferSizeAssumption DEF PathIInv, PathTypes, IInv, TypeOK
<1>3. PICK n \in 0..Len(data) :
        /\ n = IF Wanted < Len(data) THEN Wanted ELSE Len(data)
        /\ Store(SubSeq(data, 1, n))
        /\ Leaves(SubSeq(data, n + 1, Len(data)))
  BY <1>1, <1>2, InFrame
<1>4. Wanted = Len(g) - position
  BY <1>1, <1>2, InFrame
<1>5. j <= n /\ position + n <= BUFFER_SIZE
  BY <1>1, <1>2, <1>3, <1>4
<1>0. n \in Nat /\ given \in Nat /\ n <= j + given
  BY <1>1, <1>2
<1> DEFINE d == SubSeq(data, 1, n)
<1>6. d \in Seq(Byte) /\ Len(d) = n /\ \A k \in 1..n : d[k] = data[k]
  BY <1>2, Split2
<1>7. Store(d)
  BY <1>3
<1> HIDE DEF d
<1>8. PICK i \in 1..n : Resync(d, i)
  <2>1. ~BodyBytes(d)
    BY <1>1, <1>2, <1>5, <1>6 DEF BodyBytes, NoSync
  <2>2. ~ReadHeader(d)
    BY DEF ReadHeader, AwaitingHeader
  <2> QED BY <1>6, <1>7, <2>1, <2>2 DEF Store
<1>9. i = j
  <2>1. i >= j
    BY <1>1, <1>2, <1>5, <1>6, <1>8 DEF Resync
  <2>2. ASSUME i > j PROVE FALSE
    <3>1. i - j \in 1..given /\ j + (i - j) = i
      BY <1>0, <2>2
    <3>2. d[i] = frame[i - j]
      BY <1>1, <1>6, <3>1
    <3>3. frame[i - j] # SYNC
      <4>1. i - j = 1 \/ i - j = 2 \/ i - j \in 3..Len(frame)
        BY <1>2, <3>1
      <4> QED BY <1>1, <1>2, <3>1, <4>1, FrameIs
    <3> QED BY <1>8, <3>2, <3>3 DEF Resync
  <2> QED BY <1>2, <2>1, <2>2
<1>10. /\ position' = n - j /\ call' = "Ok(false)" /\ state' # "Completed"
       /\ buffer' = [k \in Index |-> IF k < n - j THEN d[j + 1 + k] ELSE Fill(d)[k]]
  BY <1>6, <1>8, <1>9 DEF Resync, Outcome, Verdict, CopyFrom
<1>11. ASSUME NEW k \in 0..(n - j - 1) PROVE buffer'[k] = frame[k + 1]
  <2>1. k \in Index /\ k < n - j
    BY <1>2, <1>5 DEF Index
  <2>2. j + 1 + k \in 1..n /\ k + 1 \in 1..given /\ j + 1 + k = j + (k + 1)
    BY <1>0, <1>5
  <2>3. buffer'[k] = d[j + 1 + k]
    BY <1>10, <2>1
  <2> QED BY <1>1, <1>6, <2>2, <2>3
<1>12. n <= Len(data)
  BY <1>0, <1>1
<1>13. Leaves(SubSeq(data, n + 1, Len(data)))
  BY <1>3
<1> QED BY <1>0, <1>5, <1>10, <1>11, <1>12, <1>13

\* A frame given up leaves the reader with the beginning of the next, unless its
\* header came too short to take all of that.
LEMMA ReadCutting ==
  ASSUME PathIInv, NEW g \in Frame, NEW m \in Nat, Cutting(g, m), inStep, Read
  PROVE  PathIInv'
<1>1. /\ hasReader' /\ UNCHANGED <<frame, given, due, handled>>
      /\ IInv' /\ PathTypes'
  BY ReadIs, ReadTypes
<1>2. /\ Holds(g) /\ 2 <= m /\ m < Len(g) /\ position <= m
      /\ Len(data) = (m - position) + 1 + given
      /\ \A k \in 1..(m - position) : data[k] = g[position + k]
      /\ data[m - position + 1] = SYNC
      /\ \A k \in 1..given : data[(m - position) + 1 + k] = frame[k]
      /\ given > 0 => frame[1] # SYNC
      /\ state # "Completed" /\ due = handled
  BY DEF Cutting
<1>3. /\ Len(data) \in Nat /\ Len(g) \in Nat /\ given \in Nat /\ position \in Nat
      /\ data \in Seq(Byte) /\ inStep \in BOOLEAN
  BY FrameIs, BufferSizeAssumption DEF PathIInv, PathTypes, IInv, TypeOK
<1>4. position < Len(g)
  BY <1>2, <1>3
<1>5. state \in {"Header", "Data"} /\ (state = "Data" <=> position >= 2)
  BY <1>2, <1>4, InFrame
<1>6. CASE state = "Header"
  <2>1. position < 2
    BY <1>3, <1>5, <1>6
  <2>2. /\ Len(data) >= 2 - position
        /\ \A k \in 1..(2 - position) : data[k] = g[position + k]
    <3>1. \A k \in 1..(2 - position) : k \in 1..(m - position)
      BY <1>2, <1>3, <2>1
    <3> QED BY <1>2, <1>3, <2>1, <3>1
  <2>3. /\ position' = 2 /\ state' = "Data" /\ call' = "reading" /\ Holds(g)'
        /\ Len(data') = Len(data) - (2 - position)
        /\ \A k \in 1..Len(data') : data'[k] = data[(2 - position) + k]
        /\ inStep' = inStep
    BY <1>2, <1>4, <1>6, <2>2, HeaderComes
  <2>4. Len(data') = (m - 2) + 1 + given
    BY <1>2, <1>3, <2>1, <2>3
  <2>5. ASSUME NEW k \in 1..(m - 2) PROVE data'[k] = g[2 + k]
    <3>1. /\ (2 - position) + k \in 1..(m - position)
          /\ position + ((2 - position) + k) = 2 + k
          /\ k \in 1..Len(data')
      BY <1>2, <1>3, <2>1, <2>4
    <3> QED BY <1>2, <2>3, <3>1
  <2>6. data'[m - 2 + 1] = SYNC
    <3>1. /\ (2 - position) + (m - 2 + 1) = m - position + 1
          /\ m - 2 + 1 \in 1..Len(data')
      BY <1>2, <1>3, <2>1, <2>4
    <3> QED BY <1>2, <2>3, <3>1
  <2>7. ASSUME NEW k \in 1..given PROVE data'[(m - 2) + 1 + k] = frame[k]
    <3>1. /\ (2 - position) + ((m - 2) + 1 + k) = (m - position) + 1 + k
          /\ (m - 2) + 1 + k \in 1..Len(data')
      BY <1>2, <1>3, <2>1, <2>4
    <3> QED BY <1>2, <2>3, <3>1
  <2>8. Cutting(g, m)'
    BY <1>1, <1>2, <2>3, <2>4, <2>5, <2>6, <2>7 DEF Cutting
  <2> QED BY <1>1, <2>3, <2>8 DEF PathIInv, Stage
<1>7. CASE state = "Data"
  <2>1. PICK j \in Nat : j = m - position + 1
    BY <1>2, <1>3
  <2>2. PICK n \in Nat :
          /\ j <= n /\ n <= Len(data) /\ position' = n - j
          /\ state' # "Completed" /\ call' = "Ok(false)"
          /\ \A i \in 0..(n - j - 1) : buffer'[i] = frame[i + 1]
          /\ Leaves(SubSeq(data, n + 1, Len(data)))
    BY <1>7, <2>1, CutComes
  <2>3. Holds(frame)'
    BY <1>1, <2>2 DEF Holds
  <2>4. CASE n = Len(data)
    <3>1. position' = given
      BY <1>2, <1>3, <2>1, <2>2, <2>4
    <3>2. Waiting'
      BY <1>1, <1>2, <2>2, <2>3, <3>1 DEF Waiting
    <3> QED BY <1>1, <1>2, <2>2, <3>2 DEF PathIInv, Stage
  <2>5. CASE n < Len(data)
    <3>1. given > 0
      BY <1>2, <1>3, <2>1, <2>2, <2>5
    <3>2. SubSeq(data, n + 1, Len(data)) # <<>>
      <4>1. Len(SubSeq(data, n + 1, Len(data))) = Len(data) - n
        BY <1>3, <2>2, Split2
      <4>2. Len(SubSeq(data, n + 1, Len(data))) # 0 /\ Len(<<>>) = 0
        BY <1>3, <2>2, <2>5, <4>1
      <4> QED BY <4>2
    <3>3. ~inStep'
      BY <2>2, <3>1, <3>2 DEF Leaves, BetweenFrames
    <3> QED BY <1>1, <1>2, <3>3 DEF PathIInv
  <2> QED BY <1>3, <2>2, <2>4, <2>5
<1> QED BY <1>5, <1>6, <1>7

-------------------------------------------------------------------------------

LEMMA ReadKeeps == ASSUME PathIInv, Read PROVE PathIInv'
<1>1. CASE ~inStep
  BY <1>1, ReadOutOfStep
<1>2. CASE inStep
  <2>1. call = "reading" /\ Stage
    BY <1>2, ReadIs DEF PathIInv
  <2>2. Arriving \/ (\E g \in Frame : Ending(g)) \/ \E g \in Frame, m \in Nat : Cutting(g, m)
    BY <2>1 DEF Stage, Waiting, Done
  <2> QED BY <1>2, <2>2, ReadArriving, ReadEnding, ReadCutting
<1> QED BY <1>1, <1>2

LEMMA PathStepwise == PathIInv /\ [PathNext]_pathVars => PathIInv'
<1> SUFFICES ASSUME PathIInv, [PathNext]_pathVars PROVE PathIInv'
  OBVIOUS
<1>1. ASSUME NEW n \in 1..BUFFER_SIZE, Piece(n) PROVE PathIInv'
  BY <1>1, PieceArrives
<1>2. ASSUME NEW f \in Frame, NEW k \in 0..(Len(f) - 1), NEW behind \in Behind,
             LastPiece(behind, f, k)
      PROVE  PathIInv'
  BY <1>2, LastPieceArrives
<1>3. ASSUME NEW f \in Frame, NEW k \in 0..(Len(f) - 1), NEW behind \in Behind,
             NEW n \in 0..BUFFER_SIZE, Cut(n, behind, f, k)
      PROVE  PathIInv'
  BY <1>3, CutArrives
<1>4. Send => PathIInv'
  BY <1>1, <1>2, <1>3 DEF Send
<1> QED BY <1>4, TimeoutArrives, ReadKeeps, ProcessKeeps, StutterKeeps DEF PathNext

LEMMA PathInvariance == PathSpec => []PathIInv
BY PathInitially, PathStepwise, PTL DEF PathSpec

-------------------------------------------------------------------------------

\* Between two chunks a reader in step holds exactly what was given of the frame
\* that is arriving, whatever chunks, cuts, timeouts, lost chunks and dropped
\* rests came before.  (read_inner, put_received_data and process.)
THEOREM Synchronised == PathSpec => []InStep
<1>1. PathIInv => InStep
  <2> SUFFICES ASSUME PathIInv, inStep, Idle
               PROVE  position = given /\ \A k \in 1..given : buffer[k - 1] = frame[k]
    BY DEF InStep
  <2>1. position = given /\ Holds(frame) /\ given \in Nat
    BY IdleWaits DEF Waiting, PathIInv, PathTypes
  <2>2. ASSUME NEW k \in 1..given PROVE buffer[k - 1] = frame[k]
    <3>1. k - 1 \in 0..(position - 1) /\ (k - 1) + 1 = k
      BY <2>1
    <3>2. buffer[k - 1] = frame[(k - 1) + 1]
      BY <2>1, <3>1 DEF Holds
    <3> QED BY <3>1, <3>2
  <2> QED BY <2>1, <2>2
<1> QED BY <1>1, PathInvariance, PTL

\* A reader in step panics neither in read nor in packet().  (The two panics of
\* read_inner, and the unwrap of PacketReader::new.)
THEOREM NoPanicInStep == PathSpec => []StopsOnlyOutOfStep
<1>1. PathIInv => StopsOnlyOutOfStep
  <2> SUFFICES ASSUME PathIInv, inStep PROVE ~Stopped
    BY DEF StopsOnlyOutOfStep
  <2>1. call \notin Panicked
    BY DEF PathIInv, Panicked, Stage, Waiting, Arriving, Ending, Cutting, Done
  <2>2. ~PacketPanics
    <3> SUFFICES ASSUME state = "Completed" PROVE ~(position < MinRaw)
      BY DEF PacketPanics
    <3>1. PICK g \in Frame : Done(g)
      BY DEF PathIInv, Stage, Waiting, Arriving, Ending, Cutting
    <3> QED BY <3>1, FrameIs DEF Done, MinRaw
  <2> QED BY <2>1, <2>2 DEF Stopped
<1> QED BY <1>1, PathInvariance, PTL

\* What happens to the frames that are due.
LEMMA DueIs ==
  ASSUME PathIInv, [PathNext]_pathVars, ~UNCHANGED <<due, handled>>
  PROVE  \/ /\ due = handled /\ due' = Append(handled, frame) /\ handled' = handled
            /\ frame \in Frame
         \/ /\ packet \in Frame /\ due = Append(handled, packet)
            /\ due' = due /\ handled' = due
<1>1. ASSUME NEW chunk, NEW harmless, Arrives(chunk, <<>>, harmless) PROVE FALSE
  <2>1. due \o <<>> = due
    BY AppendIs DEF PathIInv, PathTypes
  <2> QED BY <1>1, <2>1 DEF Arrives, PutReceivedData, NoBuffer
<1>2. ASSUME NEW n \in 1..BUFFER_SIZE, Piece(n) PROVE FALSE
  BY <1>1, <1>2 DEF Piece
<1>3. ASSUME NEW f \in Frame, NEW k \in 0..(Len(f) - 1), NEW behind \in Behind,
             NEW n \in 0..BUFFER_SIZE, Cut(n, behind, f, k)
      PROVE  FALSE
  BY <1>1, <1>3 DEF Cut
<1>4. CASE Timeout
  BY <1>1, <1>4 DEF Timeout
<1>5. ASSUME NEW f \in Frame, NEW k \in 0..(Len(f) - 1), NEW behind \in Behind,
             LastPiece(behind, f, k)
      PROVE  /\ due = handled /\ due' = Append(handled, frame) /\ handled' = handled
             /\ frame \in Frame
  <2>1. \E chunk : Arrives(chunk, <<frame>>, TRUE)
    BY <1>5 DEF LastPiece
  <2>2. /\ inStep /\ Idle /\ due' = due \o <<frame>> /\ handled' = handled
    BY <2>1 DEF Arrives, PutReceivedData, NoBuffer
  <2>3. due = handled /\ frame \in Frame
    BY <2>2, IdleWaits DEF Waiting, PathIInv, PathTypes
  <2> QED BY <2>2, <2>3, AppendIs DEF PathIInv, PathTypes
<1>6. CASE Read
  BY <1>6 DEF Read
<1>7. CASE Process
  BY <1>7, Handling DEF Process
<1>8. CASE UNCHANGED pathVars
  BY <1>8 DEF pathVars
<1> QED BY <1>2, <1>3, <1>4, <1>5, <1>6, <1>7, <1>8 DEF PathNext, Send

\* The first frame that ends in a chunk that comes to a reader in step is handled
\* once and in order, before any other, and a reader in step hands over nothing
\* else.  (put_received_data and process.)
THEOREM NeverGarbles == PathSpec => PathNeverGarbles
<1>1. PathInit => Path!Init
  <2>1. SubSeq(<<>>, Len(<<>>) + 1, Len(<<>>)) = <<>>
    OBVIOUS
  <2> QED BY <2>1 DEF PathInit, Path!Init
<1>2. ASSUME PathIInv, PathIInv', [PathNext]_pathVars PROVE [Path!Next]_(Path!vars)
  <2>0. handled \in Seq(Frame)
    BY <1>2 DEF PathIInv, PathTypes
  <2>1. ASSUME due = handled, due' = Append(handled, frame), handled' = handled,
               frame \in Frame
        PROVE  Path!Next
    <3>1. /\ SubSeq(handled, Len(handled) + 1, Len(handled)) = <<>>
          /\ SubSeq(Append(handled, frame), Len(handled) + 1, Len(Append(handled, frame))) = <<frame>>
          /\ Append(<<>>, frame) = <<frame>>
      BY <2>0, <2>1, LastOfAppend
    <3>2. Path!Put(frame)
      BY <2>1, <3>1 DEF Path!Put
    <3> QED BY <2>1, <3>2 DEF Path!Next
  <2>2. ASSUME packet \in Frame, due = Append(handled, packet), due' = due, handled' = due
        PROVE  Path!Next
    <3>1. /\ SubSeq(due, Len(handled) + 1, Len(due)) = <<packet>>
          /\ due # <<>> /\ due[Len(due)] = packet
          /\ Head(<<packet>>) = packet /\ Tail(<<packet>>) = <<>> /\ <<packet>> # <<>>
      BY <2>0, <2>2, LastOfAppend
    <3>2. SubSeq(due, Len(due) + 1, Len(due)) = <<>>
      BY <2>0, <2>2, LastOfAppend
    <3> QED BY <2>2, <3>1, <3>2 DEF Path!Take, Path!Next
  <2>3. ASSUME UNCHANGED <<due, handled>> PROVE UNCHANGED Path!vars
    BY <2>3 DEF Path!vars
  <2> QED BY <1>2, <2>1, <2>2, <2>3, DueIs
<1> QED BY <1>1, <1>2, PathInvariance, PTL DEF PathSpec, PathNeverGarbles, Path!SafeSpec

===============================================================================
