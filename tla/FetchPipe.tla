----------------------------- MODULE FetchPipe -----------------------------
(***************************************************************************)
(* The two threads of an install around the transfer queue: the fetch      *)
(* thread (GameInstall::ReadLoop) reads pieces of the package into the     *)
(* queue's buffers, the writer (GameInstall::Step, on the UI thread) takes *)
(* them out.  Which bytes a piece stands for is left to GameTransfer; here *)
(* the package is the sequence of pieces 1 .. NumPieces.                   *)
(*                                                                         *)
(* A condition variable is modelled by its sleeper: a reader that found    *)
(* AcquireSlot's predicate false is "asleep" until an operation that       *)
(* notifies m_free runs.  The writer's wait on m_ready has a deadline, so  *)
(* it never sleeps for good.                                               *)
(***************************************************************************)
EXTENDS TransferQueue

CONSTANT NumPieces     \* pieces the source holds

ASSUME NumPiecesAssumption == NumPieces \in Nat

VARIABLES
  reader,    \* where the fetch thread is
  writer,    \* where the writer is, or the verdict it was given
  sent,      \* pieces published so far
  wrote      \* what the writer found in each piece it is done with

vars == <<queueVars, reader, writer, sent, wrote>>

Torn == 0              \* a buffer whose bytes are not a whole piece
Piece == 1 .. NumPieces

Verdicts == {"finished", "failed", "stopped"}
ReaderStates == {"idle", "asleep", "filling", "filled", "done"}
WriterStates == {"polling", "holding", "left"} \cup Verdicts

Init ==
  /\ QueueInit(Torn)
  /\ reader = "idle"
  /\ writer = "polling"
  /\ sent = 0
  /\ wrote = <<>>

(* m_free.notify_all(): a sleeping reader re-evaluates its predicate. *)
NotifyFree == reader' = IF reader = "asleep" THEN "idle" ELSE reader

-----------------------------------------------------------------------------
(* The fetch thread. *)

ReaderAcquires ==
  /\ reader = "idle" /\ sent < NumPieces
  /\ AcquireSlot(Torn)
  /\ reader' = "filling"
  /\ UNCHANGED <<writer, sent, wrote>>

ReaderSleeps ==
  /\ reader = "idle" /\ sent < NumPieces
  /\ ~CanReturnFromAcquire
  /\ reader' = "asleep"
  /\ UNCHANGED <<queueVars, writer, sent, wrote>>

(* AcquireSlotOrFinish: no slot, so the queue is finished and the loop ends. *)
ReaderRefused ==
  /\ reader = "idle" /\ sent < NumPieces
  /\ AcquireRefused
  /\ Finish
  /\ reader' = "done"
  /\ UNCHANGED <<writer, sent, wrote>>

(* The source read into the slot, outside the lock. *)
ReaderFills ==
  /\ reader = "filling"
  /\ FillSlot(sent + 1)
  /\ reader' = "filled"
  /\ UNCHANGED <<writer, sent, wrote>>

(* The source stopped early: the slot stays with the producer.  The reader *)
(* itself is awake, so its notify of m_free has nobody to wake.            *)
ReaderFails ==
  /\ reader = "filling"
  /\ Fail
  /\ reader' = "done"
  /\ UNCHANGED <<writer, sent, wrote>>

ReaderPublishes ==
  /\ reader = "filled"
  /\ Publish(sent + 1)
  /\ sent' = sent + 1
  /\ reader' = "idle"
  /\ UNCHANGED <<writer, wrote>>

ReaderFinishes ==
  /\ reader = "idle" /\ sent = NumPieces
  /\ Finish
  /\ reader' = "done"
  /\ UNCHANGED <<writer, sent, wrote>>

-----------------------------------------------------------------------------
(* The writer. *)

WriterTakes ==
  /\ writer = "polling"
  /\ TakeItem
  /\ writer' = "holding"
  /\ UNCHANGED <<reader, sent, wrote>>

(* The writer is done with the bytes and gives the slot back. *)
WriterReleases ==
  /\ writer = "holding"
  /\ wrote' = Append(wrote, slots[consuming])
  /\ Release
  /\ NotifyFree
  /\ writer' = "polling"
  /\ UNCHANGED sent

(* Any other answer than Got or Empty ends the writer's loop. *)
WriterHearsStopped ==
  /\ writer = "polling" /\ NextIsStopped
  /\ writer' = "stopped"
  /\ UNCHANGED <<queueVars, reader, sent, wrote>>

WriterHearsFailed ==
  /\ writer = "polling" /\ NextIsFailed
  /\ writer' = "failed"
  /\ UNCHANGED <<queueVars, reader, sent, wrote>>

WriterHearsFinished ==
  /\ writer = "polling" /\ NextIsFinished
  /\ writer' = "finished"
  /\ UNCHANGED <<queueVars, reader, sent, wrote>>

(* A write failed: Step returned false after its Release and is not called *)
(* again, while the reader keeps going until the queue is stopped.         *)
WriterLeaves ==
  /\ writer = "polling"
  /\ writer' = "left"
  /\ UNCHANGED <<queueVars, reader, sent, wrote>>

(* Mutant: the stop is set and nobody is woken. *)
WriterStopsQuietly ==
  /\ writer # "holding" /\ ~stopped
  /\ RequestStop
  /\ UNCHANGED <<reader, writer, sent, wrote>>

(* ~GameInstall, on the writer's thread: stop, then join the reader. *)
WriterStops ==
  /\ writer # "holding" /\ ~stopped
  /\ RequestStop
  /\ NotifyFree
  /\ UNCHANGED <<writer, sent, wrote>>

-----------------------------------------------------------------------------
ReaderNext ==
  \/ ReaderAcquires \/ ReaderSleeps \/ ReaderRefused
  \/ ReaderFills \/ ReaderFails \/ ReaderPublishes \/ ReaderFinishes

WriterPolls ==
  \/ WriterTakes \/ WriterReleases
  \/ WriterHearsStopped \/ WriterHearsFailed \/ WriterHearsFinished

(* The run is over: both loops have ended. *)
Over ==
  /\ reader = "done" /\ writer \in Verdicts \cup {"left"} /\ stopped
  /\ UNCHANGED vars

Next == ReaderNext \/ WriterPolls \/ WriterLeaves \/ WriterStops \/ Over

(* Everything the fetch thread does but coming back from a Read. *)
ReaderMoves ==
  \/ ReaderAcquires \/ ReaderSleeps \/ ReaderRefused
  \/ ReaderPublishes \/ ReaderFinishes

(* The operating system keeps scheduling both threads.  Nothing obliges a   *)
(* Read to return, the app to stop a run or a write to fail.                *)
Spec ==
  /\ Init /\ [][Next]_vars
  /\ WF_vars(ReaderMoves)
  /\ WF_vars(WriterPolls)

-----------------------------------------------------------------------------
(* Properties. *)

QueueEntry == [slot : Slot, range : Piece]

(* Every variable of the queue and of its two threads stays in its range. *)
TypeOK ==
  /\ slots \in [Slot -> Piece \cup {Torn}]
  /\ items \in Seq(QueueEntry)
  /\ freeSlots \in Seq(Slot)
  /\ producing \in Slot \cup {NoSlot}
  /\ consuming \in Slot \cup {NoSlot}
  /\ finished \in BOOLEAN /\ stopped \in BOOLEAN /\ failed \in BOOLEAN
  /\ reader \in ReaderStates
  /\ writer \in WriterStates
  /\ sent \in 0 .. NumPieces
  /\ wrote \in Seq(Piece \cup {Torn})

(* A buffer has one owner: the free stack, the deque, the producer and the  *)
(* consumer never name the same slot, and neither the stack nor the deque   *)
(* names one twice -- so the fetch thread never writes into a buffer the    *)
(* writer is reading, although both use it without the mutex.               *)
OneOwner ==
  /\ \A i, j \in 1 .. Len(freeSlots) : freeSlots[i] = freeSlots[j] => i = j
  /\ \A i, j \in 1 .. Len(items) : items[i].slot = items[j].slot => i = j
  /\ \A i \in 1 .. Len(freeSlots), j \in 1 .. Len(items) : freeSlots[i] # items[j].slot
  /\ \A i \in 1 .. Len(freeSlots) : freeSlots[i] \notin {producing, consuming}
  /\ \A i \in 1 .. Len(items) : items[i].slot \notin {producing, consuming}
  /\ producing # NoSlot => producing # consuming

(* No buffer is ever lost: each is free, queued, being filled or being     *)
(* read, so a slow writer can delay the reader but never starve it.        *)
NoSlotLost ==
  Len(freeSlots) + Len(items)
    + (IF producing = NoSlot THEN 0 ELSE 1)
    + (IF consuming = NoSlot THEN 0 ELSE 1) = NumSlots

(* The writer finds the published pieces in the order they were published, *)
(* each whole: the placeholder offsets are the writer's own running count, *)
(* so a swapped, repeated or half-filled piece would be written where its  *)
(* neighbour belongs.                                                      *)
InOrder == \A k \in 1 .. Len(wrote) : wrote[k] = k

(* A verdict never overtakes a piece: "finished" means the whole package    *)
(* was consumed, "failed" means all that arrived before the failure was.    *)
VerdictAfterPieces ==
  /\ writer = "finished" => Len(wrote) = NumPieces
  /\ writer = "failed" => Len(wrote) = sent

(* What Publish's comment claims: once the consumer asked to stop, a piece *)
(* that was being filled is dropped, not queued.                           *)
StopDropsTheSlotInFlight == [][stopped => Len(items') <= Len(items)]_vars

(* The destructor's join ends: a stopped queue lets the reader out, whether  *)
(* it was asleep for a slot, between two pieces or inside a Read -- provided *)
(* that no Read of the source hangs for ever (UploadSource::Read waits for   *)
(* its peer without a clock; what the other sources read comes back).        *)
ReadsReturn == []<>(reader # "filling")
StopReleasesReader == ReadsReturn => (stopped ~> reader = "done")

-----------------------------------------------------------------------------
(* The pipe implements the piece channel. *)

Channel == INSTANCE PieceChannel WITH
  Capacity <- NumSlots,
  taken <- Len(wrote) + (IF consuming = NoSlot THEN 0 ELSE 1),
  seen <- wrote,
  close <- IF failed THEN "failed" ELSE IF finished THEN "finished" ELSE "open",
  halt <- stopped,
  verdict <- IF writer \in Verdicts THEN writer ELSE "none"

(* Every step of the two threads is a step of the bounded in-order channel  *)
(* or invisible to it.                                                      *)
ImplementsChannel == Channel!Spec
=============================================================================
