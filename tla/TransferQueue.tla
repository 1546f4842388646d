--------------------------- MODULE TransferQueue ---------------------------
(***************************************************************************)
(* The hand-off between the fetch thread and the writer thread of an       *)
(* install (install/transfer_queue.cpp): a ring of block-sized buffers     *)
(* behind one mutex, with two condition variables.                         *)
(*                                                                         *)
(* This module holds the queue's state and one operator per member         *)
(* function; each is one critical section of m_mutex.  FetchPipe runs two  *)
(* threads over it, GameTransfer runs the installer's own two threads.     *)
(***************************************************************************)
EXTENDS Naturals, Sequences

CONSTANT NumSlots      \* buffers in the ring (kQueueSlots = 3 in the installer)

(* The constructor turns a request for no slot into one slot. *)
ASSUME NumSlotsAssumption == NumSlots \in Nat \ {0}

VARIABLES
  slots,       \* m_slots: what each buffer holds
  items,       \* m_items: published pieces, oldest first
  freeSlots,   \* m_free_slots: a stack, taken and returned at its end
  producing,   \* m_producing while m_producing_valid, NoSlot otherwise
  consuming,   \* m_consuming while m_consuming_valid, NoSlot otherwise
  finished,    \* m_finished
  stopped,     \* m_stopped
  failed       \* m_failed (m_error is the same fact with its wording)

queueVars == <<slots, items, freeSlots, producing, consuming,
               finished, stopped, failed>>

Slot == 1 .. NumSlots
NoSlot == 0

Entry(s, r) == [slot |-> s, range |-> r]

QueueInit(empty) ==
  /\ slots = [s \in Slot |-> empty]
  /\ items = <<>>
  /\ freeSlots = [i \in Slot |-> i]
  /\ producing = NoSlot
  /\ consuming = NoSlot
  /\ finished = FALSE
  /\ stopped = FALSE
  /\ failed = FALSE

(* The queue is taken apart with its run, and the next run makes a new one. *)
QueueReset(empty) ==
  /\ slots' = [s \in Slot |-> empty]
  /\ items' = <<>>
  /\ freeSlots' = [i \in Slot |-> i]
  /\ producing' = NoSlot
  /\ consuming' = NoSlot
  /\ finished' = FALSE
  /\ stopped' = FALSE
  /\ failed' = FALSE

-----------------------------------------------------------------------------
(* The producer's side. *)

(* The predicate m_free is waited on with; its negation is the state in     *)
(* which AcquireSlot sleeps.                                                *)
CanReturnFromAcquire == freeSlots # <<>> \/ stopped \/ failed

(* Mutant: the slot handed out stays on the free stack. *)
AcquireSlotKept(torn) ==
  /\ CanReturnFromAcquire
  /\ ~stopped /\ ~failed
  /\ LET s == freeSlots[Len(freeSlots)]
     IN /\ producing' = s
        /\ slots' = [slots EXCEPT ![s] = torn]
  /\ UNCHANGED <<items, freeSlots, consuming, finished, stopped, failed>>

(* AcquireSlot hands out a buffer.  From here until Publish its bytes are   *)
(* the producer's to overwrite, so they are "torn" at once.                 *)
AcquireSlot(torn) ==
  /\ CanReturnFromAcquire
  /\ ~stopped /\ ~failed
  /\ LET s == freeSlots[Len(freeSlots)]
     IN /\ producing' = s
        /\ slots' = [slots EXCEPT ![s] = torn]
  /\ freeSlots' = SubSeq(freeSlots, 1, Len(freeSlots) - 1)
  /\ UNCHANGED <<items, consuming, finished, stopped, failed>>

(* AcquireSlot returns nullptr: everybody out, whatever is free. *)
AcquireRefused == stopped \/ failed

(* Filling the buffer AcquireSlot returned happens outside the mutex. *)
FillSlot(data) ==
  /\ slots' = [slots EXCEPT ![producing] = data]
  /\ UNCHANGED <<items, freeSlots, producing, consuming, finished, stopped, failed>>

(* A Publish without an acquired slot is dropped. *)
Publish(range) ==
  /\ IF producing = NoSlot
       THEN UNCHANGED <<items, producing>>
       ELSE /\ items' = Append(items, Entry(producing, range))
            /\ producing' = NoSlot
  /\ UNCHANGED <<slots, freeSlots, consuming, finished, stopped, failed>>

Fail ==
  /\ failed' = TRUE
  /\ UNCHANGED <<slots, items, freeSlots, producing, consuming, finished, stopped>>

Finish ==
  /\ finished' = TRUE
  /\ UNCHANGED <<slots, items, freeSlots, producing, consuming, stopped, failed>>

-----------------------------------------------------------------------------
(* The consumer's side.  Next waits with a deadline, so a state in which it *)
(* has nothing to say is Take::Empty: the caller draws and asks again.      *)

(* Mutant: a verdict that does not wait for the pieces before it. *)
NextIsFinishedAtOnce == ~stopped /\ ~failed /\ finished

NextIsStopped == stopped
NextIsGot == ~stopped /\ items # <<>>
NextIsFailed == ~stopped /\ items = <<>> /\ failed
NextIsFinished == ~stopped /\ items = <<>> /\ ~failed /\ finished

(* Take::Got: the oldest entry leaves the deque and its slot is the        *)
(* consumer's until Release.                                               *)
TakeItem ==
  /\ NextIsGot
  /\ items' = Tail(items)
  /\ consuming' = Head(items).slot
  /\ UNCHANGED <<slots, freeSlots, producing, finished, stopped, failed>>

Release ==
  /\ IF consuming = NoSlot
       THEN UNCHANGED <<freeSlots, consuming>>
       ELSE /\ freeSlots' = Append(freeSlots, consuming)
            /\ consuming' = NoSlot
  /\ UNCHANGED <<slots, items, producing, finished, stopped, failed>>

RequestStop ==
  /\ stopped' = TRUE
  /\ UNCHANGED <<slots, items, freeSlots, producing, consuming, finished, failed>>
=============================================================================
