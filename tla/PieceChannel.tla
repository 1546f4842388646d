---------------------------- MODULE PieceChannel ----------------------------
(***************************************************************************)
(* What the hand-off promises, without slots, locks or condition           *)
(* variables: a bounded first-in first-out channel of the pieces 1, 2, ... *)
(* NumPieces.  The writer gets every piece once, whole and in order; a     *)
(* verdict about the stream (finished, failed) reaches it only after every *)
(* piece that was sent; a stop overtakes everything.                       *)
(***************************************************************************)
EXTENDS Naturals, Sequences

CONSTANTS
  NumPieces,   \* pieces the source holds
  Capacity     \* pieces that may be between the two threads at once

VARIABLES
  sent,        \* pieces the reader has put in
  taken,       \* pieces the writer has taken out
  seen,        \* what the writer found in the pieces it is done with
  close,       \* what the reader last said: "open", "finished" or "failed"
  halt,        \* someone asked everybody out
  verdict      \* what the writer was told at the end, "none" until then

chanVars == <<sent, taken, seen, close, halt, verdict>>

Init ==
  /\ sent = 0
  /\ taken = 0
  /\ seen = <<>>
  /\ close = "open"
  /\ halt = FALSE
  /\ verdict = "none"

(* The reader sends the next piece; the channel never holds more than      *)
(* Capacity pieces, the one in the writer's hands included.                *)
Send ==
  /\ close = "open"
  /\ sent < NumPieces
  /\ sent - Len(seen) < Capacity
  /\ sent' = sent + 1
  /\ UNCHANGED <<taken, seen, close, halt, verdict>>

(* The stream ends: all of it was sent, or a stop cut it short. *)
CloseFinished ==
  /\ close = "open"
  /\ sent = NumPieces \/ halt
  /\ close' = "finished"
  /\ UNCHANGED <<sent, taken, seen, halt, verdict>>

CloseFailed ==
  /\ close = "open"
  /\ close' = "failed"
  /\ UNCHANGED <<sent, taken, seen, halt, verdict>>

(* The writer takes one piece at a time and sees exactly that piece. *)
Take ==
  /\ verdict = "none"
  /\ ~halt
  /\ taken = Len(seen)
  /\ taken < sent
  /\ taken' = taken + 1
  /\ UNCHANGED <<sent, seen, close, halt, verdict>>

Consume ==
  /\ taken = Len(seen) + 1
  /\ seen' = Append(seen, taken)
  /\ UNCHANGED <<sent, taken, close, halt, verdict>>

(* "finished" means the whole stream was consumed. *)
HearFinished ==
  /\ verdict = "none"
  /\ ~halt
  /\ close = "finished"
  /\ Len(seen) = NumPieces
  /\ verdict' = "finished"
  /\ UNCHANGED <<sent, taken, seen, close, halt>>

(* "failed" comes after everything that was sent before the failure. *)
HearFailed ==
  /\ verdict = "none"
  /\ ~halt
  /\ close = "failed"
  /\ Len(seen) = sent
  /\ verdict' = "failed"
  /\ UNCHANGED <<sent, taken, seen, close, halt>>

HearStopped ==
  /\ verdict = "none"
  /\ halt
  /\ verdict' = "stopped"
  /\ UNCHANGED <<sent, taken, seen, close, halt>>

Stop ==
  /\ halt' = TRUE
  /\ UNCHANGED <<sent, taken, seen, close, verdict>>

Next ==
  \/ Send \/ CloseFinished \/ CloseFailed
  \/ Take \/ Consume \/ HearFinished \/ HearFailed \/ HearStopped
  \/ Stop

Spec == Init /\ [][Next]_chanVars
=============================================================================
