--------------------------- MODULE BufferPoolProofs ---------------------------
(***************************************************************************)
(* Safety of BufferPool for any set of tasks and any number of buffers:    *)
(* exclusive ownership, no panic, no data race, and the pool implements    *)
(* Ownership.                                                              *)
(***************************************************************************)
EXTENDS BufferPool, TLAPS

\* A RefCell is borrowed only while a task is inside get_buffer with it.
BorrowIsBrief ==
  \A s \in Slot : borrowed[s] => \E t \in Task : pc[t] = "borrowed" /\ i[t] = s

\* A claim is of a slot, and a free slot has been released.
ClaimInRange == \A t \in Task : pc[t] \in {"claimed", "borrowed"} => i[t] \in Slot
FreeIsPublished == \A s \in Slot : ~buffer_in_use[s] => published[s]

IInv ==
  /\ TypeOK
  /\ InUseMeansOwned
  /\ BorrowIsBrief
  /\ ClaimInRange
  /\ FreeIsPublished
  /\ NoDataRace
  /\ BorrowNeverPanics

-------------------------------------------------------------------------------

\* An untouched pool satisfies the invariant.
LEMMA InitIInv == Init => IInv
  <1> SUFFICES ASSUME Init PROVE IInv
    OBVIOUS
  <1>1. TypeOK
    BY BufferCountAssumption DEF Init, TypeOK, Step, Slot
  <1>2. InUseMeansOwned
    BY DEF Init, InUseMeansOwned, Owns, Claiming
  <1>3. QED
    BY <1>1, <1>2 DEF Init, IInv, BorrowIsBrief, ClaimInRange, FreeIsPublished,
                      NoDataRace, Owns, Claiming, BorrowNeverPanics

\* Every step keeps the types.
LEMMA StepTypeOK == IInv /\ [Next]_vars => TypeOK'
  <1> SUFFICES ASSUME IInv, [Next]_vars PROVE TypeOK'
    OBVIOUS
  <1> USE BufferCountAssumption DEF IInv, TypeOK, Slot, Step
  <1>1. ASSUME NEW t \in Task, GetBuffer(t) PROVE TypeOK'
    BY <1>1 DEF GetBuffer, Full
  <1>2. ASSUME NEW t \in Task, SlotTaken(t) PROVE TypeOK'
    BY <1>2 DEF SlotTaken, MoreSlots, NextSlot
  <1>3. ASSUME NEW t \in Task, Claim(t) PROVE TypeOK'
    BY <1>3 DEF Claim, MoreSlots, Wins, Full
  <1>4. ASSUME NEW t \in Task, Exhausted(t) PROVE TypeOK'
    BY <1>4 DEF Exhausted, MoreSlots
  <1>5. ASSUME NEW t \in Task, BorrowMut(t) PROVE TypeOK'
    BY <1>5 DEF BorrowMut, Access
  <1>6. ASSUME NEW t \in Task, ReturnSome(t) PROVE TypeOK'
    BY <1>6 DEF ReturnSome, BorrowEnds, Access, ClaimInRange
  <1>7. ASSUME NEW t \in Task, NEW s \in Slot, UseBuffer(t, s) PROVE TypeOK'
    BY <1>7 DEF UseBuffer, Access
  <1>8. ASSUME NEW t \in Task, NEW s \in Slot, Drop(t, s) PROVE TypeOK'
    BY <1>8 DEF Drop, Publishes
  <1>9. CASE UNCHANGED vars
    BY <1>9 DEF vars
  <1>10. QED
    BY <1>1, <1>2, <1>3, <1>4, <1>5, <1>6, <1>7, <1>8, <1>9 DEF Next, Scan, Hold

-------------------------------------------------------------------------------

\* What each action does to the owners of the slots: only Claim and Drop
\* change them.
LEMMA OwnersKept ==
  ASSUME IInv, NEW t \in Task,
         \/ GetBuffer(t) \/ SlotTaken(t) \/ Exhausted(t)
         \/ BorrowMut(t) \/ ReturnSome(t)
         \/ \E s \in Slot : UseBuffer(t, s)
         \/ UNCHANGED vars,
         NEW u \in Task, NEW r \in Slot
  PROVE  Owns(u, r)' <=> Owns(u, r)
  <1> USE DEF IInv, TypeOK, Owns, Claiming
  <1>1. CASE GetBuffer(t)
    BY <1>1 DEF GetBuffer, Ready
  <1>2. CASE SlotTaken(t)
    BY <1>2 DEF SlotTaken, MoreSlots, NextSlot
  <1>3. CASE Exhausted(t)
    BY <1>3 DEF Exhausted, MoreSlots
  <1>4. CASE BorrowMut(t)
    <2>1. pc'[t] = "borrowed"
      BY <1>4 DEF BorrowMut, BorrowIsBrief, InUseMeansOwned, ClaimInRange
    <2>2. QED
      BY <1>4, <2>1 DEF BorrowMut
  <1>5. CASE ReturnSome(t)
    BY <1>5 DEF ReturnSome, BorrowEnds
  <1>6. CASE \E s \in Slot : UseBuffer(t, s)
    BY <1>6 DEF UseBuffer
  <1>7. CASE UNCHANGED vars
    BY <1>7 DEF vars
  <1>8. QED
    BY <1>1, <1>2, <1>3, <1>4, <1>5, <1>6, <1>7

\* The compare_exchange gives slot i[t] to t.
LEMMA OwnersAfterClaim ==
  ASSUME IInv, NEW t \in Task, Claim(t), NEW u \in Task, NEW r \in Slot
  PROVE  Owns(u, r)' <=> Owns(u, r) \/ (u = t /\ r = i[t])
  BY BufferCountAssumption DEF IInv, TypeOK, Owns, Claiming, Claim, MoreSlots, Wins, Slot

\* The store in drop takes slot s from t.
LEMMA OwnersAfterDrop ==
  ASSUME IInv, NEW t \in Task, NEW s \in Slot, Drop(t, s),
         NEW u \in Task, NEW r \in Slot
  PROVE  Owns(u, r)' <=> Owns(u, r) /\ ~(u = t /\ r = s)
  BY DEF IInv, TypeOK, Owns, Claiming, Drop, Publishes, Ready, InUseMeansOwned

-------------------------------------------------------------------------------

\* The invariant is inductive.
LEMMA NextIInv == IInv /\ [Next]_vars => IInv'
  <1> SUFFICES ASSUME IInv, [Next]_vars PROVE IInv'
    OBVIOUS
  <1>0. TypeOK'
    BY StepTypeOK
  <1> USE DEF IInv, TypeOK
  <1>1. ASSUME NEW t \in Task, GetBuffer(t) PROVE IInv'
    <2>1. \A u \in Task, r \in Slot : Owns(u, r)' <=> Owns(u, r)
      BY <1>1, OwnersKept
    <2>2. InUseMeansOwned' /\ NoDataRace'
      BY <1>1, <2>1 DEF GetBuffer, InUseMeansOwned, NoDataRace
    <2>3. BorrowIsBrief' /\ ClaimInRange' /\ BorrowNeverPanics'
      BY <1>1 DEF GetBuffer, Ready, BorrowIsBrief, ClaimInRange, BorrowNeverPanics
    <2>4. QED
      BY <1>0, <1>1, <2>2, <2>3 DEF GetBuffer, FreeIsPublished
  <1>2. ASSUME NEW t \in Task, SlotTaken(t) PROVE IInv'
    <2>1. \A u \in Task, r \in Slot : Owns(u, r)' <=> Owns(u, r)
      BY <1>2, OwnersKept
    <2>2. InUseMeansOwned' /\ NoDataRace'
      BY <1>2, <2>1 DEF SlotTaken, MoreSlots, NextSlot, InUseMeansOwned, NoDataRace
    <2>3. BorrowIsBrief' /\ ClaimInRange' /\ BorrowNeverPanics'
      BY <1>2 DEF SlotTaken, MoreSlots, NextSlot, BorrowIsBrief, ClaimInRange, BorrowNeverPanics
    <2>4. QED
      BY <1>0, <1>2, <2>2, <2>3 DEF SlotTaken, MoreSlots, NextSlot, FreeIsPublished
  <1>3. ASSUME NEW t \in Task, Claim(t) PROVE IInv'
    <2>1. i[t] \in Slot
      BY <1>3, BufferCountAssumption DEF Claim, MoreSlots, Wins, Slot
    <2>2. \A u \in Task, r \in Slot :
            Owns(u, r)' <=> Owns(u, r) \/ (u = t /\ r = i[t])
      BY <1>3, OwnersAfterClaim
    <2>3. InUseMeansOwned'
      BY <1>3, <2>1, <2>2 DEF Claim, MoreSlots, Wins, InUseMeansOwned
    <2>4. NoDataRace'
      BY <1>3, <2>1, <2>2 DEF Claim, MoreSlots, Wins, NoDataRace, FreeIsPublished
    <2>5. BorrowIsBrief' /\ ClaimInRange' /\ BorrowNeverPanics'
      BY <1>3, <2>1 DEF Claim, MoreSlots, Wins, BorrowIsBrief, ClaimInRange, BorrowNeverPanics
    <2>6. FreeIsPublished'
      BY <1>3, <2>1 DEF Claim, MoreSlots, Wins, FreeIsPublished
    <2>7. QED
      BY <1>0, <2>3, <2>4, <2>5, <2>6
  <1>4. ASSUME NEW t \in Task, Exhausted(t) PROVE IInv'
    <2>1. \A u \in Task, r \in Slot : Owns(u, r)' <=> Owns(u, r)
      BY <1>4, OwnersKept
    <2>2. InUseMeansOwned' /\ NoDataRace'
      BY <1>4, <2>1 DEF Exhausted, MoreSlots, InUseMeansOwned, NoDataRace
    <2>3. BorrowIsBrief' /\ ClaimInRange' /\ BorrowNeverPanics'
      BY <1>4 DEF Exhausted, MoreSlots, BorrowIsBrief, ClaimInRange, BorrowNeverPanics
    <2>4. QED
      BY <1>0, <1>4, <2>2, <2>3 DEF Exhausted, MoreSlots, FreeIsPublished
  <1>5. ASSUME NEW t \in Task, BorrowMut(t) PROVE IInv'
    <2>1. /\ i[t] \in Slot
          /\ Owns(t, i[t])
          /\ \A u \in Task : Owns(u, i[t]) => u = t
      BY <1>5 DEF BorrowMut, ClaimInRange, Owns, Claiming, InUseMeansOwned
    <2>2. ~borrowed[i[t]]
      BY <1>5, <2>1 DEF BorrowMut, BorrowIsBrief, Owns, Claiming
    <2>3. \A u \in Task, r \in Slot : Owns(u, r)' <=> Owns(u, r)
      BY <1>5, OwnersKept
    <2>4. InUseMeansOwned' /\ NoDataRace'
      BY <1>5, <2>1, <2>3 DEF BorrowMut, Access, InUseMeansOwned, NoDataRace
    <2>5. BorrowIsBrief' /\ ClaimInRange' /\ BorrowNeverPanics'
      BY <1>5, <2>1, <2>2 DEF BorrowMut, BorrowIsBrief, ClaimInRange, BorrowNeverPanics
    <2>6. QED
      BY <1>0, <1>5, <2>4, <2>5 DEF BorrowMut, FreeIsPublished
  <1>6. ASSUME NEW t \in Task, ReturnSome(t) PROVE IInv'
    <2>1. /\ i[t] \in Slot
          /\ \A u \in Task : Owns(u, i[t]) => u = t
      BY <1>6 DEF ReturnSome, BorrowEnds, ClaimInRange, Owns, Claiming, InUseMeansOwned
    <2>2. \A u \in Task, r \in Slot : Owns(u, r)' <=> Owns(u, r)
      BY <1>6, OwnersKept
    <2>3. InUseMeansOwned' /\ NoDataRace'
      BY <1>6, <2>1, <2>2 DEF ReturnSome, BorrowEnds, Access, InUseMeansOwned, NoDataRace
    <2>4. BorrowIsBrief' /\ ClaimInRange' /\ BorrowNeverPanics'
      BY <1>6, <2>1 DEF ReturnSome, BorrowEnds, BorrowIsBrief, ClaimInRange, BorrowNeverPanics
    <2>5. QED
      BY <1>0, <1>6, <2>3, <2>4 DEF ReturnSome, BorrowEnds, FreeIsPublished
  <1>7. ASSUME NEW t \in Task, NEW s \in Slot, UseBuffer(t, s) PROVE IInv'
    <2>1. \A u \in Task : Owns(u, s) => u = t
      BY <1>7 DEF UseBuffer, Owns, InUseMeansOwned
    <2>2. \A u \in Task, r \in Slot : Owns(u, r)' <=> Owns(u, r)
      BY <1>7, OwnersKept
    <2>3. InUseMeansOwned' /\ NoDataRace'
      BY <1>7, <2>1, <2>2 DEF UseBuffer, Access, InUseMeansOwned, NoDataRace
    <2>4. BorrowIsBrief' /\ ClaimInRange' /\ BorrowNeverPanics'
      BY <1>7 DEF UseBuffer, BorrowIsBrief, ClaimInRange, BorrowNeverPanics
    <2>5. QED
      BY <1>0, <1>7, <2>3, <2>4 DEF UseBuffer, FreeIsPublished
  <1>8. ASSUME NEW t \in Task, NEW s \in Slot, Drop(t, s) PROVE IInv'
    <2>1. Owns(t, s) /\ \A u \in Task : Owns(u, s) => u = t
      BY <1>8 DEF Drop, Publishes, Owns, InUseMeansOwned
    <2>2. \A u \in Task, r \in Slot :
            Owns(u, r)' <=> Owns(u, r) /\ ~(u = t /\ r = s)
      BY <1>8, OwnersAfterDrop
    <2>3. InUseMeansOwned'
      BY <1>8, <2>1, <2>2 DEF Drop, Publishes, InUseMeansOwned
    <2>4. NoDataRace' /\ FreeIsPublished'
      BY <1>8, <2>1, <2>2 DEF Drop, Publishes, NoDataRace, FreeIsPublished
    <2>5. BorrowIsBrief' /\ ClaimInRange' /\ BorrowNeverPanics'
      BY <1>8 DEF Drop, Publishes, BorrowIsBrief, ClaimInRange, BorrowNeverPanics
    <2>6. QED
      BY <1>0, <2>3, <2>4, <2>5
  <1>9. CASE UNCHANGED vars
    BY <1>9 DEF vars, InUseMeansOwned, BorrowIsBrief, ClaimInRange, FreeIsPublished,
                NoDataRace, BorrowNeverPanics, Owns, Claiming
  <1>10. QED
    BY <1>1, <1>2, <1>3, <1>4, <1>5, <1>6, <1>7, <1>8, <1>9 DEF Next, Scan, Hold

\* The invariant holds in every behaviour.
LEMMA Invariance == Spec => []IInv
  BY InitIInv, NextIInv, PTL DEF Spec

\* The types are right.
THEOREM TypeCorrect == Spec => []TypeOK
  BY Invariance, PTL DEF IInv

\* No buffer leaks and none is in two hands, whatever the interleaving of any
\* number of tasks.
THEOREM Exclusive == Spec => []InUseMeansOwned
  BY Invariance, PTL DEF IInv

\* get_buffer never finds the RefCell borrowed.
THEOREM NoPanic == Spec => []BorrowNeverPanics
  BY Invariance, PTL DEF IInv

\* Acquire and Release order all accesses to a buffer.
THEOREM RaceFree == Spec => []NoDataRace
  BY Invariance, PTL DEF IInv

-------------------------------------------------------------------------------

\* The refinement mapping reads the owner of a slot off the state.
LEMMA OwnerIs ==
  ASSUME InUseMeansOwned, NEW s \in Slot
  PROVE  /\ owner[s] = Nobody <=> ~buffer_in_use[s]
         /\ \A t \in Task : owner[s] = t <=> Owns(t, s)
  BY TaskAssumption DEF owner, InUseMeansOwned

\* Where a step keeps the owners, the abstract pool stutters.
LEMMA OwnerStutters ==
  ASSUME IInv, IInv',
         \A u \in Task, r \in Slot : Owns(u, r)' <=> Owns(u, r)
  PROVE  owner' = owner
  <1>1. ASSUME NEW s \in Slot PROVE owner'[s] = owner[s]
    <2>1. CASE \E t \in Task : Owns(t, s)
      <3>1. PICK t \in Task : Owns(t, s)
        BY <2>1
      <3>2. owner[s] = t
        BY <3>1, OwnerIs DEF IInv
      <3>3. owner'[s] = t
        BY <3>1 DEF owner, IInv, InUseMeansOwned
      <3>4. QED
        BY <3>2, <3>3
    <2>2. CASE ~ \E t \in Task : Owns(t, s)
      BY <2>2 DEF owner
    <2>3. QED
      BY <2>1, <2>2
  <1>2. QED
    BY <1>1 DEF owner

\* The pool implements exclusive ownership.
THEOREM Implements == Spec => PoolIsExclusive
  <1>1. Init => Abstract!Init
    BY DEF Init, Abstract!Init, owner, Owns, Claiming
  <1>2. ASSUME IInv, IInv', [Next]_vars PROVE [Abstract!Next]_owner
    <2>1. ASSUME NEW t \in Task, Claim(t) PROVE Abstract!Acquire(t, i[t]) /\ i[t] \in Slot
      <3>1. i[t] \in Slot /\ ~buffer_in_use[i[t]]
        BY <2>1, <1>2, BufferCountAssumption DEF Claim, MoreSlots, Wins, Slot, IInv, TypeOK
      <3>2. owner[i[t]] = Nobody
        BY <1>2, <3>1, OwnerIs DEF IInv
      <3>3. \A u \in Task, r \in Slot :
              Owns(u, r)' <=> Owns(u, r) \/ (u = t /\ r = i[t])
        BY <1>2, <2>1, OwnersAfterClaim
      <3>4. ASSUME NEW r \in Slot, r # i[t] PROVE owner'[r] = owner[r]
        <4>1. \A u \in Task : Owns(u, r)' <=> Owns(u, r)
          BY <3>3, <3>4
        <4>2. QED
          BY <1>2, <4>1 DEF owner, IInv, InUseMeansOwned
      <3>5. owner'[i[t]] = t
        BY <1>2, <3>1, <3>3 DEF owner, IInv, InUseMeansOwned
      <3>6. owner' = [owner EXCEPT ![i[t]] = t]
        BY <3>4, <3>5 DEF owner
      <3>7. QED
        BY <3>1, <3>2, <3>6 DEF Abstract!Acquire
    <2>2. ASSUME NEW t \in Task, NEW s \in Slot, Drop(t, s) PROVE Abstract!Release(t, s)
      <3>1. owner[s] = t
        BY <1>2, <2>2, OwnerIs DEF Drop, Publishes, Owns, IInv
      <3>2. \A u \in Task, r \in Slot :
              Owns(u, r)' <=> Owns(u, r) /\ ~(u = t /\ r = s)
        BY <1>2, <2>2, OwnersAfterDrop
      <3>3. ASSUME NEW r \in Slot, r # s PROVE owner'[r] = owner[r]
        <4>1. \A u \in Task : Owns(u, r)' <=> Owns(u, r)
          BY <3>2, <3>3
        <4>2. QED
          BY <1>2, <4>1 DEF owner, IInv, InUseMeansOwned
      <3>4. owner'[s] = Nobody
        BY <1>2, <2>2, <3>2 DEF owner, IInv, InUseMeansOwned, Drop, Publishes, Owns
      <3>5. owner' = [owner EXCEPT ![s] = Nobody]
        BY <3>3, <3>4 DEF owner
      <3>6. QED
        BY <3>1, <3>5 DEF Abstract!Release
    <2>3. ASSUME NEW t \in Task,
                 \/ GetBuffer(t) \/ SlotTaken(t) \/ Exhausted(t)
                 \/ BorrowMut(t) \/ ReturnSome(t)
                 \/ \E s \in Slot : UseBuffer(t, s)
          PROVE  owner' = owner
      BY <1>2, <2>3, OwnersKept, OwnerStutters
    <2>4. CASE UNCHANGED vars
      BY <2>4 DEF vars, owner, Owns, Claiming
    <2>5. QED
      BY <1>2, <2>1, <2>2, <2>3, <2>4 DEF Next, Scan, Hold, Abstract!Next
  <1>3. QED
    BY <1>1, <1>2, Invariance, PTL DEF Spec, PoolIsExclusive, Abstract!Spec

-------------------------------------------------------------------------------
\* What a call that returns None has seen.

\* Two tasks at most.
Few == \A t, u, v \in Task : t = u \/ t = v \/ u = v

\* A scan that has not seen the pool full has a free buffer before it,
SomeAhead ==
  \A t \in Task : pc[t] = "scan" /\ ~sawFull[t] =>
    \E s \in Slot : s >= i[t] /\ ~buffer_in_use[s]

\* because no free buffer is behind two scans at once: buffers are not given
\* back while both tasks scan.
NoneBehindBoth ==
  \A t, u \in Task, s \in Slot :
    t # u /\ pc[t] = "scan" /\ pc[u] = "scan" /\ ~buffer_in_use[s] =>
      s >= i[t] \/ s >= i[u]

ScanIInv == IInv /\ SomeAhead /\ NoneBehindBoth /\ NoneMeansFull

\* Nobody scans at first.
LEMMA ScanInitially == Init => ScanIInv
  <1>1. Init => SomeAhead /\ NoneBehindBoth /\ NoneMeansFull
    BY DEF Init, SomeAhead, NoneBehindBoth, NoneMeansFull
  <1>2. QED
    BY <1>1, InitIInv DEF ScanIInv

\* A claim takes the last free buffer before the other scan only if it takes
\* the last free buffer of all.
LEMMA ClaimKeepsScans ==
  ASSUME ScanIInv, NEW u \in Task, Claim(u)
  PROVE  SomeAhead' /\ NoneBehindBoth' /\ NoneMeansFull'
  <1> USE DEF ScanIInv, IInv, TypeOK
  <1>1. i[u] \in Slot /\ i[u] \in Nat
    BY BufferCountAssumption DEF Claim, MoreSlots, Slot
  <1>2. /\ pc[u] = "scan" /\ ~buffer_in_use[i[u]]
        /\ buffer_in_use' = [buffer_in_use EXCEPT ![i[u]] = TRUE]
        /\ pc' = [pc EXCEPT ![u] = "claimed"]
        /\ sawFull' = [t \in Task |-> sawFull[t] \/ Full(buffer_in_use')]
        /\ i' = i
    BY DEF Claim, Wins
  <1>3. ASSUME NEW t \in Task, pc'[t] = "scan", ~sawFull'[t]
        PROVE  \E s \in Slot : s >= i[t] /\ ~buffer_in_use'[s]
    <2>1. t # u /\ pc[t] = "scan" /\ ~sawFull[t] /\ ~Full(buffer_in_use')
      BY <1>2, <1>3
    <2>2. PICK s \in Slot : s >= i[t] /\ ~buffer_in_use[s]
      BY <2>1 DEF SomeAhead
    <2>3. PICK r \in Slot : ~buffer_in_use'[r]
      BY <2>1 DEF Full
    <2>4. r # i[u] /\ ~buffer_in_use[r]
      BY <1>1, <1>2, <2>3
    <2>5. r >= i[t] \/ r >= i[u]
      BY <1>2, <2>1, <2>4 DEF NoneBehindBoth
    <2>6. s = i[u] => r >= i[t]
      BY <2>2, <2>5, BufferCountAssumption DEF Slot
    <2>7. s # i[u] => ~buffer_in_use'[s]
      BY <1>2, <2>2
    <2>8. QED
      BY <2>2, <2>3, <2>6, <2>7
  <1>4. SomeAhead'
    BY <1>2, <1>3 DEF SomeAhead
  <1>5. NoneBehindBoth' /\ NoneMeansFull'
    BY <1>1, <1>2 DEF NoneBehindBoth, NoneMeansFull
  <1>6. QED
    BY <1>4, <1>5

\* The other steps.
LEMMA ScanStepwise == Few /\ ScanIInv /\ [Next]_vars => ScanIInv'
  <1> SUFFICES ASSUME Few, ScanIInv, [Next]_vars PROVE ScanIInv'
    OBVIOUS
  <1> DEFINE Goal == SomeAhead' /\ NoneBehindBoth' /\ NoneMeansFull'
  <1>0. IInv'
    BY NextIInv DEF ScanIInv
  <1> USE DEF ScanIInv, IInv, TypeOK
  <1>1. ASSUME NEW t \in Task, GetBuffer(t) PROVE Goal
    <2>1. /\ pc' = [pc EXCEPT ![t] = "scan"]
          /\ i' = [i EXCEPT ![t] = 0]
          /\ sawFull' = [sawFull EXCEPT ![t] = Full(buffer_in_use)]
          /\ buffer_in_use' = buffer_in_use
      BY <1>1 DEF GetBuffer
    <2>2. \A s \in Slot : s >= 0
      BY BufferCountAssumption DEF Slot
    <2>3. SomeAhead'
      BY <2>1, <2>2 DEF SomeAhead, Full
    <2>4. NoneBehindBoth' /\ NoneMeansFull'
      BY <2>1, <2>2 DEF NoneBehindBoth, NoneMeansFull
    <2>5. QED
      BY <2>3, <2>4
  <1>2. ASSUME NEW t \in Task, SlotTaken(t) PROVE Goal
    <2>1. /\ i' = [i EXCEPT ![t] = i[t] + 1]
          /\ pc[t] = "scan" /\ buffer_in_use[i[t]]
          /\ UNCHANGED <<buffer_in_use, pc, sawFull>>
      BY <1>2 DEF SlotTaken, NextSlot
    <2>2. \A s \in Slot : s >= i[t] /\ ~buffer_in_use[s] => s >= i[t] + 1
      BY <2>1, BufferCountAssumption DEF Slot
    <2>3. SomeAhead'
      BY <2>1, <2>2 DEF SomeAhead
    <2>4. NoneBehindBoth' /\ NoneMeansFull'
      BY <2>1, <2>2 DEF NoneBehindBoth, NoneMeansFull
    <2>5. QED
      BY <2>3, <2>4
  <1>3. ASSUME NEW t \in Task, Exhausted(t) PROVE Goal
    <2>1. /\ pc' = [pc EXCEPT ![t] = "none"]
          /\ pc[t] = "scan" /\ ~(i[t] < BUFFER_COUNT)
          /\ UNCHANGED <<buffer_in_use, i, sawFull>>
      BY <1>3 DEF Exhausted, MoreSlots
    <2>2. sawFull[t]
      BY <2>1, BufferCountAssumption DEF SomeAhead, Slot
    <2>3. QED
      BY <2>1, <2>2 DEF SomeAhead, NoneBehindBoth, NoneMeansFull
  <1>4. ASSUME NEW t \in Task, BorrowMut(t) \/ ReturnSome(t) PROVE Goal
    <2>1. /\ UNCHANGED <<buffer_in_use, i, sawFull>>
          /\ \A u \in Task : pc'[u] \in {"scan", "none"} => pc'[u] = pc[u]
      BY <1>4 DEF BorrowMut, ReturnSome
    <2>2. QED
      BY <2>1 DEF SomeAhead, NoneBehindBoth, NoneMeansFull
  <1>5. ASSUME NEW t \in Task, NEW r \in Slot, Drop(t, r) PROVE Goal
    <2>1. /\ buffer_in_use' = [buffer_in_use EXCEPT ![r] = FALSE]
          /\ pc[t] # "scan"
          /\ UNCHANGED <<pc, i, sawFull>>
      BY <1>5 DEF Drop, Ready
    <2>2. SomeAhead' /\ NoneMeansFull'
      BY <2>1 DEF SomeAhead, NoneMeansFull
    <2>3. NoneBehindBoth'
      BY <2>1 DEF NoneBehindBoth, Few
    <2>4. QED
      BY <2>2, <2>3
  <1>6. ASSUME UNCHANGED <<buffer_in_use, pc, i, sawFull>> PROVE Goal
    BY <1>6 DEF SomeAhead, NoneBehindBoth, NoneMeansFull
  <1>7. QED
    BY <1>0, <1>1, <1>2, <1>3, <1>4, <1>5, <1>6, ClaimKeepsScans
    DEF Next, Scan, Hold, UseBuffer, vars

\* With two tasks and any number of buffers, get_buffer returns None only if
\* all buffers were in use at one moment of the call.
THEOREM HonestNone == ASSUME Few PROVE Spec => []NoneMeansFull
  <1>1. ScanIInv /\ [Next]_vars => ScanIInv'
    BY ScanStepwise
  <1>2. ScanIInv => NoneMeansFull
    BY DEF ScanIInv
  <1>3. QED
    BY <1>1, <1>2, ScanInitially, PTL DEF Spec

===============================================================================
