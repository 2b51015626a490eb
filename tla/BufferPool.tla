------------------------------ MODULE BufferPool ------------------------------
(***************************************************************************)
(* BufferPool (msmp/src/service.rs): a static array of buffers, each with  *)
(* an atomic flag buffer_in_use, shared by tasks (the pool is declared     *)
(* Sync).  get_buffer scans the flags with one compare_exchange per        *)
(* iteration, borrows the RefCell of the buffer it has claimed just long   *)
(* enough to take a raw pointer out of it, and returns a BufferRef.        *)
(* Dropping the BufferRef clears the flag.                                 *)
(*                                                                         *)
(* Every access to memory that other tasks can see is a step.  The flags   *)
(* themselves are atomic; the RefCell's borrow flag and the bytes of the   *)
(* buffer are not, and are safe only through the Acquire of the            *)
(* compare_exchange and the Release of the store.  For that, seen and      *)
(* published record who has synchronised with the accesses to a slot.      *)
(***************************************************************************)
EXTENDS Naturals, FiniteSets

CONSTANTS
  Task,          \* The threads or asynchronous tasks sharing the pool.
  BUFFER_COUNT,  \* The const generic of the same name.
  Nobody         \* Not a task.

ASSUME BufferCountAssumption == BUFFER_COUNT \in Nat
ASSUME TaskAssumption == Nobody \notin Task

Slot == 0..(BUFFER_COUNT - 1)

VARIABLES
  buffer_in_use,  \* The atomic flag of each slot.
  borrowed,       \* Whether each slot's RefCell is mutably borrowed.
  pc,             \* Where each task is in get_buffer.
  i,              \* Its loop variable.
  held,           \* The BufferRefs each task owns, as slots.
  seen,           \* The tasks that have seen every access to a slot.
  published,      \* Whether the last store to a slot's flag released them.
  sawFull         \* History: was the pool full during the current call?

vars == <<buffer_in_use, borrowed, pc, i, held, seen, published, sawFull>>

\* "idle" between calls (the last one, if any, returned Some), "none" after a
\* call that returned None.
Step == {"idle", "none", "scan", "claimed", "borrowed", "panicked"}

Full(flags) == \A s \in Slot : flags[s]

Init ==
  /\ buffer_in_use = [s \in Slot |-> FALSE]
  /\ borrowed = [s \in Slot |-> FALSE]
  /\ pc = [t \in Task |-> "idle"]
  /\ i = [t \in Task |-> 0]
  /\ held = [t \in Task |-> {}]
  /\ seen = [s \in Slot |-> Task]
  /\ published = [s \in Slot |-> TRUE]
  /\ sawFull = [t \in Task |-> FALSE]

Ready(t) == pc[t] \in {"idle", "none"}

\* A plain access to the memory of slot s: other tasks have yet to see it.
Access(t, s) == seen' = [seen EXCEPT ![s] = {t}]

-------------------------------------------------------------------------------

GetBuffer(t) ==
  /\ Ready(t)
  /\ pc' = [pc EXCEPT ![t] = "scan"]
  /\ i' = [i EXCEPT ![t] = 0]
  /\ sawFull' = [sawFull EXCEPT ![t] = Full(buffer_in_use)]
  /\ UNCHANGED <<buffer_in_use, borrowed, held, seen, published>>

\* Mistake: the loop leaves out the last slot.
MoreSlotsButLast(t) == i[t] < BUFFER_COUNT - 1

MoreSlots(t) == i[t] < BUFFER_COUNT

\* Mistake: the loop skips every other slot.
EveryOther(t) == i[t] + 2

NextSlot(t) == i[t] + 1

\* compare_exchange(false, true, Acquire, Relaxed) fails: the next slot.
SlotTaken(t) ==
  /\ pc[t] = "scan"
  /\ MoreSlots(t)
  /\ buffer_in_use[i[t]]
  /\ i' = [i EXCEPT ![t] = NextSlot(t)]
  /\ UNCHANGED <<buffer_in_use, borrowed, pc, held, seen, published, sawFull>>

\* Mistake: the flag is stored without looking at its old value.
WinsAlways(t) == TRUE

Wins(t) == ~buffer_in_use[i[t]]

\* It succeeds: the Acquire sees what the last store to the flag released.
Claim(t) ==
  /\ pc[t] = "scan"
  /\ MoreSlots(t)
  /\ Wins(t)
  /\ buffer_in_use' = [buffer_in_use EXCEPT ![i[t]] = TRUE]
  /\ pc' = [pc EXCEPT ![t] = "claimed"]
  /\ seen' = IF published[i[t]] THEN [seen EXCEPT ![i[t]] = @ \cup {t}] ELSE seen
  /\ sawFull' = [u \in Task |-> sawFull[u] \/ Full(buffer_in_use')]
  /\ UNCHANGED <<borrowed, i, held, published>>

\* The loop is over: None.
Exhausted(t) ==
  /\ pc[t] = "scan"
  /\ ~MoreSlots(t)
  /\ pc' = [pc EXCEPT ![t] = "none"]
  /\ UNCHANGED <<buffer_in_use, borrowed, i, held, seen, published, sawFull>>

\* RefCell::borrow_mut, which panics on a cell that is borrowed.
BorrowMut(t) ==
  /\ pc[t] = "claimed"
  /\ pc' = [pc EXCEPT ![t] = IF borrowed[i[t]] THEN "panicked" ELSE "borrowed"]
  /\ borrowed' = [borrowed EXCEPT ![i[t]] = TRUE]
  /\ Access(t, i[t])
  /\ UNCHANGED <<buffer_in_use, i, held, published, sawFull>>

\* Mistake: the RefMut lives on in the BufferRef, to be dropped after its flag
\* is cleared.
BorrowLivesOn(s) == borrowed

BorrowEnds(s) == [borrowed EXCEPT ![s] = FALSE]

\* get_buffer returns: the RefMut is dropped, the reference it gave lives on
\* in the BufferRef.
ReturnSome(t) ==
  /\ pc[t] = "borrowed"
  /\ pc' = [pc EXCEPT ![t] = "idle"]
  /\ borrowed' = BorrowEnds(i[t])
  /\ held' = [held EXCEPT ![t] = @ \cup {i[t]}]
  /\ Access(t, i[t])
  /\ UNCHANGED <<buffer_in_use, i, published, sawFull>>

\* The task reads or writes the bytes of a buffer it holds.
UseBuffer(t, s) ==
  /\ Ready(t)
  /\ s \in held[t]
  /\ Access(t, s)
  /\ UNCHANGED <<buffer_in_use, borrowed, pc, i, held, published, sawFull>>

\* Mistake: a Relaxed store.
PublishesNothing(t, s) == FALSE

Publishes(t, s) == t \in seen[s]

\* BufferRef::drop: return_buffer's Release store publishes what t has seen.
Drop(t, s) ==
  /\ Ready(t)
  /\ s \in held[t]
  /\ held' = [held EXCEPT ![t] = @ \ {s}]
  /\ buffer_in_use' = [buffer_in_use EXCEPT ![s] = FALSE]
  /\ published' = [published EXCEPT ![s] = Publishes(t, s)]
  /\ UNCHANGED <<borrowed, pc, i, seen, sawFull>>

Scan(t) == GetBuffer(t) \/ SlotTaken(t) \/ Claim(t) \/ Exhausted(t)

Hold(t) == BorrowMut(t) \/ ReturnSome(t) \/ \E s \in Slot : UseBuffer(t, s) \/ Drop(t, s)

Next == \E t \in Task : Scan(t) \/ Hold(t)

Spec == Init /\ [][Next]_vars

-------------------------------------------------------------------------------

TypeOK ==
  /\ buffer_in_use \in [Slot -> BOOLEAN]
  /\ borrowed \in [Slot -> BOOLEAN]
  /\ pc \in [Task -> Step]
  /\ i \in [Task -> 0..BUFFER_COUNT]
  /\ held \in [Task -> SUBSET Slot]
  /\ seen \in [Slot -> SUBSET Task]
  /\ published \in [Slot -> BOOLEAN]
  /\ sawFull \in [Task -> BOOLEAN]

\* Task t is the one that has set the flag of slot s and not yet cleared it.
Claiming(t, s) == pc[t] \in {"claimed", "borrowed"} /\ i[t] = s
Owns(t, s) == s \in held[t] \/ Claiming(t, s)

\* The owner of each slot, for the abstract specification.
owner == [s \in Slot |->
            IF \E t \in Task : Owns(t, s) THEN CHOOSE t \in Task : Owns(t, s)
                                          ELSE Nobody]

Abstract == INSTANCE Ownership WITH Owner <- Task, Buffer <- Slot

\* The pool hands a buffer to one task at a time, however the scans, claims
\* and drops of the tasks interleave: the compare_exchange is the moment a
\* free buffer gets its owner, the store in drop the moment it loses it.
PoolIsExclusive == Abstract!Spec

\* A flag is set exactly when some task owns the slot, and then only one: no
\* buffer is lost to the pool, none is in two hands.
InUseMeansOwned ==
  \A s \in Slot :
    /\ buffer_in_use[s] <=> \E t \in Task : Owns(t, s)
    /\ \A t, u \in Task : Owns(t, s) /\ Owns(u, s) => t = u

\* borrow_mut never panics, although the reference taken from the RefCell
\* outlives the borrow: the flag, not the RefCell, is the lock.
BorrowNeverPanics == \A t \in Task : pc[t] # "panicked"

\* Whoever may touch the RefCell or the bytes of a slot has seen every earlier
\* access to them: the claim says `unsafe impl Sync` is justified, by the
\* Acquire in get_buffer and the Release in return_buffer together.
NoDataRace == \A t \in Task, s \in Slot : Owns(t, s) => t \in seen[s]

\* get_buffer returns None only if all buffers were in use at one moment of
\* the call.  True of two tasks; with three, two of them can pass a free slot
\* back and forth ahead of the scan of the third.
NoneMeansFull == \A t \in Task : pc[t] = "none" => sawFull[t]

===============================================================================
