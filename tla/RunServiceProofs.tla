--------------------------- MODULE RunServiceProofs ---------------------------
(***************************************************************************)
(* What RunService promises holds for every number of ports and buffers.   *)
(* TypeOK and InUseIsHeld together are inductive.  From them follows       *)
(* NoBufferOnlyIfCrowded, by the pigeonhole principle: when the pool is    *)
(* empty every slot is held, every slot by a call of its own.              *)
(***************************************************************************)
EXTENDS RunService, FiniteSetTheorems, TLAPS

IInv == TypeOK /\ InUseIsHeld

LEMMA Initially == Init => IInv
  BY NoneAssumption DEF Init, IInv, TypeOK, InUseIsHeld, Held, Wait

\* What a step of one call does: it moves p alone, from holding one buffer at
\* most to holding one at most, and takes none that another call holds.
Moves(p, w, r, s) ==
  /\ pc' = [pc EXCEPT ![p] = w]
  /\ reader' = [reader EXCEPT ![p] = r]
  /\ sending' = [sending EXCEPT ![p] = s]
  /\ s # None <=> w = "write"
  /\ r # None => w \in {"read", "trapped"}
  /\ {r, s} \ {None} \subseteq Held(p) \cup Free
  /\ buffer_in_use' = (buffer_in_use \ Held(p)) \cup ({r, s} \ {None})

LEMMA OneCallMoves ==
  ASSUME IInv, NEW p \in Port, NEW w \in Wait,
         NEW r \in Slot \cup {None}, NEW s \in Slot \cup {None}, Moves(p, w, r, s)
  PROVE  IInv'
<1> USE DEF Moves
<1> DEFINE New == {r, s} \ {None}
<1>1. Held(p)' = New
  BY DEF IInv, TypeOK, Held
<1>2. \A q \in Port \ {p} : Held(q)' = Held(q)
  BY DEF IInv, TypeOK, Held
<1>3. \A q \in Port \ {p} : Held(q) \cap New = {}
  BY DEF IInv, InUseIsHeld, Free
<1>4. TypeOK'
  BY DEF IInv, TypeOK
<1>5. InUseIsHeld'
  <2>1. buffer_in_use' = UNION {Held(q)' : q \in Port}
    BY <1>1, <1>2 DEF IInv, InUseIsHeld
  <2>2. \A q1, q2 \in Port : q1 # q2 => Held(q1)' \cap Held(q2)' = {}
    BY <1>1, <1>2, <1>3 DEF IInv, InUseIsHeld
  <2> QED BY <2>1, <2>2 DEF InUseIsHeld
<1> QED BY <1>4, <1>5 DEF IInv

\* The buffer that ensure_reader settles on is free, or is the reader's own;
\* in either case the call then holds it alone.
LEMMA EnsuredBuffer ==
  ASSUME IInv, NEW p \in Port, NEW b \in Slot,
         pc[p] = "read", EnsuresReader(p, b)
  PROVE  /\ b # None
         /\ b \in Held(p) \cup Free
         /\ sending[p] = None
         /\ buffer_in_use \cup {b} = (buffer_in_use \ Held(p)) \cup {b}
         /\ buffer_in_use \ {b} = buffer_in_use \ Held(p)
<1>1. b # None /\ sending[p] = None
  BY NoneAssumption DEF IInv, TypeOK
<1>2. CASE reader[p] = None
  <2>1. Held(p) = {} /\ b \in Slot \ buffer_in_use
    BY <1>1, <1>2 DEF EnsuresReader, Held, Free
  <2> QED BY <1>1, <2>1 DEF Free
<1>3. CASE reader[p] # None
  <2>1. Held(p) = {b}
    BY <1>1, <1>3 DEF EnsuresReader, Held
  <2> QED BY <1>1, <2>1
<1> QED BY <1>2, <1>3

LEMMA Stepwise == IInv /\ [Next]_vars => IInv'
<1> SUFFICES ASSUME IInv, [Next]_vars PROVE IInv'
  OBVIOUS
<1> USE DEF Goto, Wait
<1>1. ASSUME NEW p \in Port, Start(p) PROVE IInv'
  <2>1. reader[p] = None /\ sending[p] = None
    BY <1>1 DEF Start, IInv, TypeOK
  <2>2. reader' = [reader EXCEPT ![p] = None] /\ sending' = [sending EXCEPT ![p] = None]
    BY <1>1, <2>1 DEF Start, IInv, TypeOK
  <2>3. buffer_in_use' = (buffer_in_use \ Held(p)) \cup ({None, None} \ {None})
    BY <1>1, <2>1 DEF Start, Held
  <2>9. Moves(p, "read", None, None)
    BY <1>1, <2>2, <2>3 DEF Moves, Start
  <2> QED BY <2>9, OneCallMoves
<1>2. ASSUME NEW p \in Port, NEW b \in Slot, ReceivePart(p, b) PROVE IInv'
  <2>1. /\ b # None /\ sending[p] = None /\ b \in Held(p) \cup Free
        /\ buffer_in_use \cup {b} = (buffer_in_use \ Held(p)) \cup {b}
    BY <1>2, EnsuredBuffer DEF ReceivePart
  <2>2. pc' = [pc EXCEPT ![p] = "read"] /\ sending' = [sending EXCEPT ![p] = None]
    BY <1>2, <2>1 DEF ReceivePart, IInv, TypeOK
  <2>3. {b, None} \ {None} = {b}
    BY <2>1
  <2>9. Moves(p, "read", b, None)
    BY <1>2, <2>1, <2>2, <2>3 DEF Moves, ReceivePart
  <2> QED BY <2>9, OneCallMoves
<1>3. ASSUME NEW p \in Port, NEW b \in Slot, ReceiveForwarded(p, b) PROVE IInv'
  <2>1. /\ b # None /\ b \in Held(p) \cup Free
        /\ buffer_in_use \cup {b} = (buffer_in_use \ Held(p)) \cup {b}
    BY <1>3, EnsuredBuffer DEF ReceiveForwarded
  <2>2. {None, b} \ {None} = {b}
    BY <2>1
  <2>9. Moves(p, "write", None, b)
    BY <1>3, <2>1, <2>2 DEF Moves, ReceiveForwarded, Takes
  <2> QED BY <2>9, OneCallMoves
<1>4. ASSUME NEW p \in Port, NEW b \in Slot, ReceiveConsumed(p, b) PROVE IInv'
  <2>1. /\ sending[p] = None
        /\ buffer_in_use \ {b} = buffer_in_use \ Held(p)
    BY <1>4, EnsuredBuffer DEF ReceiveConsumed
  <2>2. pc' = [pc EXCEPT ![p] = "read"] /\ sending' = [sending EXCEPT ![p] = None]
    BY <1>4, <2>1 DEF ReceiveConsumed, IInv, TypeOK
  <2>3. {None, None} \ {None} = {}
    OBVIOUS
  <2>9. Moves(p, "read", None, None)
    BY <1>4, <2>1, <2>2, <2>3 DEF Moves, ReceiveConsumed, Takes
  <2> QED BY <2>9, OneCallMoves
<1>5. ASSUME NEW p \in Port, NEW b \in Slot, ReceiveTraps(p, b) PROVE IInv'
  <2>1. /\ b # None /\ sending[p] = None /\ b \in Held(p) \cup Free
        /\ buffer_in_use \cup {b} = (buffer_in_use \ Held(p)) \cup {b}
    BY <1>5, EnsuredBuffer DEF ReceiveTraps
  <2>2. sending' = [sending EXCEPT ![p] = None]
    BY <1>5, <2>1 DEF ReceiveTraps, IInv, TypeOK
  <2>3. {b, None} \ {None} = {b}
    BY <2>1
  <2>9. Moves(p, "trapped", b, None)
    BY <1>5, <2>1, <2>2, <2>3 DEF Moves, ReceiveTraps
  <2> QED BY <2>9, OneCallMoves
<1>6. ASSUME NEW p \in Port, Written(p) PROVE IInv'
  <2>1. reader[p] = None /\ Held(p) = {sending[p]}
    BY <1>6 DEF Written, IInv, TypeOK, Held
  <2>2. reader' = [reader EXCEPT ![p] = None]
    BY <1>6, <2>1 DEF Written, IInv, TypeOK
  <2>3. buffer_in_use' = (buffer_in_use \ Held(p)) \cup ({None, None} \ {None})
    BY <1>6, <2>1 DEF Written
  <2>9. Moves(p, "read", None, None)
    BY <1>6, <2>2, <2>3 DEF Moves, Written
  <2> QED BY <2>9, OneCallMoves
<1>7. ASSUME NEW p \in Port, Fails(p) PROVE IInv'
  <2>1. buffer_in_use \subseteq Slot /\ None \notin buffer_in_use
    BY NoneAssumption DEF IInv, TypeOK
  <2>2. buffer_in_use' = (buffer_in_use \ Held(p)) \cup ({None, None} \ {None})
    BY <1>7, <2>1 DEF Fails, Dropped, Held
  <2>9. Moves(p, "stopped", None, None)
    BY <1>7, <2>2 DEF Moves, Fails
  <2> QED BY <2>9, OneCallMoves
<1>8. CASE UNCHANGED vars
  <2>1. \A p \in Port : Held(p)' = Held(p)
    BY <1>8 DEF vars, Held
  <2>2. InUseIsHeld'
    BY <1>8, <2>1 DEF vars, IInv, InUseIsHeld
  <2>3. TypeOK'
    BY <1>8 DEF vars, IInv, TypeOK
  <2> QED BY <2>2, <2>3 DEF IInv
<1> QED
  BY <1>1, <1>2, <1>3, <1>4, <1>5, <1>6, <1>7, <1>8
  DEF Next, Receive, NoBuffer

LEMMA Inductive == Spec => []IInv
<1>1. Init => IInv
  BY Initially
<1>2. IInv /\ [Next]_vars => IInv'
  BY Stepwise
<1> QED BY <1>1, <1>2, PTL DEF Spec

\* A call of run_service waits for the write exactly while a packet waits in
\* its ring, and then has no reader, for any ports and any pool.
THEOREM TypeCorrect == Spec => []TypeOK
<1>1. IInv => TypeOK
  BY DEF IInv
<1> QED BY <1>1, Inductive, PTL

\* The flags of the static pool are set exactly for the buffers that the calls
\* of run_service hold, no two the same: none is leaked when a call fails.
THEOREM NothingLeaks == Spec => []InUseIsHeld
<1>1. IInv => InUseIsHeld
  BY DEF IInv
<1> QED BY <1>1, Inductive, PTL

\* With the pool empty, a call that wants a buffer faces BUFFER_COUNT others,
\* each with one buffer.
LEMMA Crowded == IInv => NoBufferOnlyIfCrowded
<1> SUFFICES ASSUME IInv, NEW p \in Port, Wants(p), Free = {}
             PROVE  Cardinality({q \in Port \ {p} : pc[q] # "stopped"}) >= BUFFER_COUNT
  BY DEF NoBufferOnlyIfCrowded
<1> DEFINE Others == {q \in Port \ {p} : pc[q] # "stopped"}
           holder == [b \in Slot |-> CHOOSE q \in Port : b \in Held(q)]
<1>1. \A b \in Slot : holder[b] \in Port /\ b \in Held(holder[b])
  BY DEF IInv, InUseIsHeld, Free
<1>2. Held(p) = {}
  BY DEF Wants, IInv, TypeOK, Held
<1>3. \A q \in Port : pc[q] = "stopped" => Held(q) = {}
  BY DEF IInv, TypeOK, Held
<1>4. \A b \in Slot : holder[b] \in Others
  BY <1>1, <1>2, <1>3
<1>5. \A q \in Port, a, b \in Slot : a \in Held(q) /\ b \in Held(q) => a = b
  BY DEF IInv, TypeOK, Held
<1>6. \A a, b \in Slot : holder[a] = holder[b] => a = b
  BY <1>1, <1>5
<1>7. IsFiniteSet(Others)
  BY PortAssumption, FS_Subset
<1>8. IsFiniteSet(Slot) /\ Cardinality(Slot) = BUFFER_COUNT
  BY BufferCountAssumption, FS_Interval DEF Slot
<1>9. holder \in [Slot -> Others]
  BY <1>4
<1>10. Cardinality(Others) \in Nat
  BY <1>7, FS_CardinalityType
<1>11. ~(Cardinality(Others) < BUFFER_COUNT)
  <2> SUFFICES ASSUME Cardinality(Others) < BUFFER_COUNT PROVE FALSE
    OBVIOUS
  <2> HIDE DEF holder, Others
  <2>1. \E a, b \in Slot : a # b /\ holder[a] = holder[b]
    BY <1>7, <1>8, <1>9, FS_PigeonHole
  <2> QED BY <2>1, <1>6
<1> QED BY <1>10, <1>11, BufferCountAssumption

\* A call of run_service meets NoBuffer only if BUFFER_COUNT other calls share
\* the pool, running or panicked, for any ports and any pool.
THEOREM CrowdedOnly == Spec => []NoBufferOnlyIfCrowded
  BY Inductive, Crowded, PTL

===============================================================================
