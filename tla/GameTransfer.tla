--------------------------- MODULE GameTransfer ---------------------------
(***************************************************************************)
(* One package on its way into the console's content storage: the life of  *)
(* install::GameInstall objects (install/game_install.cpp) over a console  *)
(* that outlives them.  The console keeps placeholders, registered         *)
(* contents, the title's record and the app's task file; the process keeps *)
(* the run: the task, the fetch thread, the queue and the writer.  A crash *)
(* takes the process and leaves the console.                               *)
(*                                                                         *)
(* Bytes are counted in cells, one cell to a transfer block: cell k of a   *)
(* content is right when it holds the value k.  A compressed content is    *)
(* its header cell followed by payload pieces; Reach says how far each of  *)
(* them takes its decoder.  Only the package's own source is modelled (local file, download, *)
(* upload); the built-in forwarder package keeps no task file.             *)
(***************************************************************************)
EXTENDS TransferQueue, FiniteSetsExt

CONSTANTS
  NumContents,   \* contents the task lists, in container order
  Size,          \* cells of each content
  Reach,         \* cells there are after each payload piece; <<>> for a plain content
  Control,       \* the content Prepare reads the NACP from (0: none)
  Gamecard,      \* contents whose header carries the gamecard bit
  MaxPlaceholders,  \* bound: placeholders the storage has room for
  FlushCells     \* cells of progress that make a task flush due

Content == 1 .. NumContents
Meta == 0                      \* the meta content, which the task does not list
PlaceholderId == 1 .. MaxPlaceholders
NoPlaceholder == 0

ASSUME ContentsAssumption ==
  /\ NumContents \in Nat \ {0}
  /\ Size \in [Content -> Nat \ {0}]
  /\ Reach \in [Content -> Seq(Nat \ {0})]
  /\ \A c \in Content : \A i, j \in DOMAIN Reach[c] : i <= j => Reach[c][i] <= Reach[c][j]
  /\ Control \in Content \cup {0}
  /\ Gamecard \subseteq Content
  /\ MaxPlaceholders \in Nat
  /\ FlushCells \in Nat \ {0}

VARIABLES
  console,     \* placeholder id -> [content, cells], for the ids that exist
  registered,  \* content -> cells, for the contents in the storage
  recorded,    \* the title's meta record and application record are in place
  taskFile,    \* install-task.json: content -> [written, ph], or NoFile
  run,         \* where the GameInstall object is, "none" without one
  task,        \* m_task.contents: [written, ph, skipped]
  mine,        \* m_placeholders: what Begin created or adopted
  readPh,      \* m_read_placeholders: meta and control
  metaPh,      \* the meta content's placeholder
  kept,        \* m_task_kept
  modified,    \* m_status.modified: a gamecard header was rewritten
  flushed,     \* m_task_flushed_bytes, m_task_flushed_contents
  reader,      \* where the fetch thread is
  at,          \* the content it is at
  fetch,       \* m_fetch: [headerSent, streamRead]
  hand,        \* the range the writer took out of the queue
  fed,         \* payload pieces each decoder was fed
  toRegister   \* contents Register has still to visit

consoleVars == <<console, registered, recorded, taskFile>>
writerVars == <<run, task, mine, readPh, metaPh, kept, modified, flushed,
                hand, fed, toRegister>>
readerVars == <<reader, at, fetch>>
vars == <<queueVars, consoleVars, writerVars, readerVars>>

NoFile == <<>>
Piece(c, part, k) == [content |-> c, part |-> part, at |-> k]
Torn == Piece(Meta, "torn", 0)

Compressed == {c \in Content : Reach[c] # <<>>}

(* Register's order: the meta contents first. *)
Order == <<Meta>> \o [i \in Content |-> i]

Whole(c) == [k \in 1 .. Size[c] |-> k]
WholeMeta == <<1>>
Unwritten(c) == [k \in 1 .. Size[c] |-> 0]

Smaller(a, b) == IF a <= b THEN a ELSE b

(* Ids are generated uuids: a new one is never one that anybody still names. *)
Named(t) == {t[c].ph : c \in DOMAIN t}
FreshIds ==
  PlaceholderId \ (DOMAIN console \cup mine \cup readPh
                     \cup Named(task) \cup Named(taskFile))
Without(f, S) == Restrict(f, DOMAIN f \ S)
With(f, x, v) == [y \in DOMAIN f \cup {x} |-> IF y = x THEN v ELSE f[y]]

-----------------------------------------------------------------------------
(* The task (install/install_task.cpp). *)

NewContent == [written |-> 0, ph |-> NoPlaceholder, skipped |-> FALSE]
NoTask == [c \in Content |-> NewContent]

DoneContents(t) ==
  Cardinality({c \in Content : t[c].skipped \/ t[c].written >= Size[c]})

DoneBytes(t) ==
  MapThenSumSet(LAMBDA c : IF t[c].skipped THEN 0 ELSE Smaller(t[c].written, Size[c]),
                Content)

TransferComplete(t) ==
  \A c \in Content : t[c].skipped \/ t[c].written >= Size[c]

(* Mutant: every stream is read from its beginning. *)
InitialStreamReadZero(t, c) == 0

(* Where a content's source stream starts: a zstd stream at its beginning, *)
(* a plain content where its placeholder ends.                             *)
InitialStreamRead(t, c) ==
  IF c \in Compressed THEN 0 ELSE Smaller(t[c].written, Size[c])

(* PlanResume: may the fresh content c continue from what was recorded? *)
PlanResume(was, c, present) ==
  IF present /\ was.ph # NoPlaceholder /\ c \notin Compressed
    THEN [restart |-> FALSE, written |-> Smaller(was.written, Size[c]), ph |-> was.ph]
    ELSE [restart |-> TRUE, written |-> 0, ph |-> NoPlaceholder]

(* Mutant: the file is a piece ahead of the placeholder. *)
DumpTaskAhead(t) ==
  [c \in Content |-> [written |-> Smaller(t[c].written + 1, Size[c]), ph |-> t[c].ph]]

DumpTask(t) == [c \in Content |-> [written |-> t[c].written, ph |-> t[c].ph]]

(* FlushTaskIfDue: a content finished, or enough cells went by. *)
FlushDue(t) ==
  \/ DoneContents(t) # flushed.contents
  \/ DoneBytes(t) >= flushed.bytes + FlushCells

Flushed(t) == [bytes |-> DoneBytes(t), contents |-> DoneContents(t)]

-----------------------------------------------------------------------------
(* The run's beginning and end. *)

Init ==
  /\ QueueInit(Torn)
  /\ console = <<>>
  /\ \E S \in SUBSET (Content \ {Control}) : registered = [c \in S |-> Whole(c)]
  /\ recorded = FALSE
  /\ taskFile = NoFile
  /\ run = "none"
  /\ task = NoTask
  /\ mine = {} /\ readPh = {} /\ metaPh = NoPlaceholder
  /\ kept = FALSE /\ modified = FALSE
  /\ flushed = [bytes |-> 0, contents |-> 0]
  /\ reader = "off" /\ at = 1
  /\ fetch = [c \in Content |-> [headerSent |-> FALSE, streamRead |-> 0]]
  /\ hand = Torn
  /\ fed = [c \in Content |-> 0]
  /\ toRegister = <<>>

(* ~GameInstall: RequestStop, join, and everything in memory is gone.  The  *)
(* reader's last moments change nothing that outlives it.                   *)
Destroy ==
  /\ QueueReset(Torn)
  /\ run' = "none"
  /\ task' = NoTask
  /\ mine' = {} /\ readPh' = {} /\ metaPh' = NoPlaceholder
  /\ kept' = FALSE /\ modified' = FALSE
  /\ flushed' = [bytes |-> 0, contents |-> 0]
  /\ reader' = "off" /\ at' = 1
  /\ fetch' = [c \in Content |-> [headerSent |-> FALSE, streamRead |-> 0]]
  /\ hand' = Torn
  /\ fed' = [c \in Content |-> 0]
  /\ toRegister' = <<>>

CleanupAfterFailure == console' = Without(console, readPh)

(* GameInstall::RemoveTask: a file that cannot be removed is only logged.   *)
RemoveTask == taskFile' \in {taskFile, NoFile}

(* Abandon: drop what the run created, roll back what it registered when a *)
(* header was rewritten, remove the task file.                              *)
Abandon ==
  /\ console' = Without(console, mine \cup readPh)
  /\ IF modified
       THEN /\ registered' = Without(registered, Content)
            /\ recorded' = FALSE
       ELSE UNCHANGED <<registered, recorded>>
  /\ RemoveTask

(* Prepare: the meta content, and the control content when it can be read, *)
(* go into placeholders of their own; what the storage already has is      *)
(* skipped.  Then, for a resume, AdoptResume takes over what the task file *)
(* says and the console still holds.                                       *)
(* Mutant: the control content is marked complete though nothing was read. *)
PreparedRegardless(control) ==
  [c \in Content |->
     IF c = Control
       THEN [NewContent EXCEPT !.written = Size[c], !.ph = control]
     ELSE IF c \in DOMAIN registered
       THEN [NewContent EXCEPT !.written = Size[c], !.skipped = TRUE]
     ELSE NewContent]

Prepared(control) ==
  [c \in Content |->
     IF c = Control /\ control # NoPlaceholder
       THEN [NewContent EXCEPT !.written = Size[c], !.ph = control]
     ELSE IF c \in DOMAIN registered
       THEN [NewContent EXCEPT !.written = Size[c], !.skipped = TRUE]
     ELSE NewContent]

AdoptResume(t) ==
  [c \in Content |->
     IF t[c].skipped \/ t[c].written >= Size[c]
       THEN t[c]
       ELSE LET plan == PlanResume(taskFile[c], c, taskFile[c].ph \in DOMAIN console)
            IN [t[c] EXCEPT !.written = plan.written, !.ph = plan.ph]]

(* The meta content's placeholder and, when the control content can be read, *)
(* the control's; a placeholder the console would not mount is registered    *)
(* as a content at once and read from there.                                 *)
ReadOut(meta, control, registering) ==
  LET read == {meta, control} \ {NoPlaceholder}
  IN /\ console' = [p \in DOMAIN console \cup (IF registering THEN read \ {meta} ELSE read) |->
                      IF p = meta THEN [content |-> Meta, cells |-> WholeMeta]
                      ELSE IF p = control THEN [content |-> Control, cells |-> Whole(Control)]
                      ELSE console[p]]
     /\ registered' = IF registering THEN With(registered, Meta, WholeMeta) ELSE registered

Readable == IF Control = 0 THEN {FALSE} ELSE BOOLEAN
MayResume == IF taskFile = NoFile THEN {FALSE} ELSE BOOLEAN
MetaId == CHOOSE p \in FreshIds : TRUE
ControlId(readable) ==
  IF readable THEN CHOOSE p \in FreshIds \ {MetaId} : TRUE ELSE NoPlaceholder
HasIds(readable) == FreshIds # {} /\ (readable => FreshIds \ {MetaId} # {})

PrepareRun ==
  /\ run = "none" /\ ~recorded
  /\ \E readable \in Readable, resume \in MayResume, registering \in BOOLEAN :
       LET fresh == Prepared(ControlId(readable))
       IN /\ HasIds(readable)
          /\ ReadOut(MetaId, ControlId(readable), registering)
          /\ task' = IF resume THEN AdoptResume(fresh) ELSE fresh
          /\ readPh' = {MetaId, ControlId(readable)} \ {NoPlaceholder}
          /\ metaPh' = MetaId
  /\ run' = "confirm"
  /\ UNCHANGED <<queueVars, recorded, taskFile, mine, kept, modified, flushed, hand,
                 fed, toRegister, readerVars>>

(* Prepare fails: after ReadMetaContent could not read the CNMT either way, *)
(* or the CNMT does not parse, its placeholder is in no list yet.           *)
PrepareFails ==
  /\ run = "none" /\ FreshIds # {}
  /\ \E registering \in BOOLEAN : ReadOut(MetaId, NoPlaceholder, registering)
  /\ UNCHANGED <<queueVars, recorded, taskFile, writerVars, readerVars>>

(* The console has this very version: the run is Skipped, and leaving the   *)
(* screen drops nothing for it.  A resume that finds it so also gives the    *)
(* pending install up.                                                       *)
PrepareSkips ==
  /\ run = "none" /\ recorded
  /\ \E readable \in Readable, resume \in MayResume :
       /\ HasIds(readable)
       /\ LET left == IF resume THEN Without(console, Named(taskFile)) ELSE console
              meta == With(left, MetaId, [content |-> Meta, cells |-> WholeMeta])
          IN console' = IF readable
                          THEN With(meta, ControlId(TRUE),
                                    [content |-> Control, cells |-> Whole(Control)])
                          ELSE meta
       /\ IF resume THEN RemoveTask ELSE UNCHANGED taskFile
  /\ UNCHANGED <<queueVars, registered, recorded, writerVars, readerVars>>

(* The player gives the pending install up (App::AbandonPendingInstall): the *)
(* placeholders go first, and then removing the task file may fail.          *)
GiveUp ==
  /\ run = "none" /\ taskFile # NoFile
  /\ console' = Without(console, Named(taskFile))
  /\ RemoveTask
  /\ UNCHANGED <<queueVars, registered, recorded, writerVars, readerVars>>

(* The confirm page is left: nothing is kept yet, so the run is abandoned. *)
Cancel ==
  /\ run = "confirm"
  /\ Abandon /\ Destroy

(* A reboot or another tool's cleanup takes a placeholder away. *)
PlaceholderVanishes ==
  /\ run = "none"
  /\ \E p \in DOMAIN console : console' = Without(console, {p})
  /\ UNCHANGED <<queueVars, registered, recorded, taskFile, writerVars, readerVars>>

-----------------------------------------------------------------------------
(* Begin: every content that still needs bytes gets a placeholder, its own *)
(* old one when the task names one that exists, a new one otherwise.       *)

Needing == {c \in Content : ~task[c].skipped /\ task[c].written < Size[c]}
Adopted == {c \in Needing : task[c].ph \in DOMAIN console}
Missing == Needing \ Adopted

(* Every new placeholder has an id of its own. *)
NewIds == Injection(Missing, FreshIds)
NewId == CHOOSE f \in NewIds : TRUE

BeginCreates ==
  /\ run = "confirm"
  /\ NewIds # {}
  /\ LET created == [p \in {NewId[c] : c \in Missing} |->
                       CHOOSE c \in Missing : NewId[c] = p]
     IN /\ console' = [p \in DOMAIN console \cup DOMAIN created |->
                         IF p \in DOMAIN created
                           THEN [content |-> created[p], cells |-> Unwritten(created[p])]
                           ELSE console[p]]
        /\ mine' = {task[c].ph : c \in Adopted} \cup DOMAIN created
  /\ task' = [c \in Content |->
                IF c \in Missing THEN [task[c] EXCEPT !.written = 0, !.ph = NewId[c]]
                                 ELSE task[c]]
  /\ run' = "begun"
  /\ UNCHANGED <<queueVars, registered, recorded, taskFile, readPh, metaPh, kept,
                 modified, flushed, hand, fed, toRegister, readerVars>>

(* A placeholder could not be created: what the loop had created before is  *)
(* gone again, and so are the placeholders it had adopted before.           *)
BeginFails ==
  /\ run = "confirm"
  /\ \E c \in Missing :
       console' = Without(console, readPh \cup {task[b].ph : b \in {d \in Adopted : d < c}})
  /\ RemoveTask
  /\ UNCHANGED <<registered, recorded>>
  /\ Destroy

(* The task file goes out before the first byte; a store that cannot be    *)
(* written only costs the resume.  Then the fetch thread starts.           *)
BeginStarts ==
  /\ run = "begun"
  /\ \E saved \in BOOLEAN :
       /\ taskFile' = IF saved THEN DumpTask(task) ELSE taskFile
       /\ kept' = saved
  /\ flushed' = Flushed(task)
  /\ fetch' = [c \in Content |-> [headerSent |-> FALSE,
                                  streamRead |-> InitialStreamRead(task, c)]]
  /\ reader' = "choosing" /\ at' = 1
  /\ run' = "transfer"
  /\ UNCHANGED <<queueVars, console, registered, recorded, task, mine, readPh, metaPh,
                 modified, hand, fed, toRegister>>

-----------------------------------------------------------------------------
(* The fetch thread: ReadLoop. *)

StreamSize(c) == IF c \in Compressed THEN Len(Reach[c]) ELSE Size[c]

HeaderDue == at \in Compressed /\ ~fetch[at].headerSent
PieceDue == HeaderDue \/ fetch[at].streamRead < StreamSize(at)

NextPiece ==
  IF HeaderDue THEN Piece(at, "header", 0)
  ELSE Piece(at, IF at \in Compressed THEN "payload" ELSE "plain", fetch[at].streamRead)

(* Mutant: a content that was begun counts as fetched. *)
ReaderSkipsBegun ==
  /\ reader = "choosing" /\ at <= NumContents
  /\ task[at].skipped \/ task[at].written > 0
  /\ at' = at + 1
  /\ UNCHANGED <<queueVars, consoleVars, writerVars, reader, fetch>>

(* The loop's head: nothing to fetch for a content this run has already.   *)
(* It looks at the writer's own counter, without a lock.                   *)
ReaderSkips ==
  /\ reader = "choosing" /\ at <= NumContents
  /\ task[at].skipped \/ task[at].written >= Size[at]
  /\ at' = at + 1
  /\ UNCHANGED <<queueVars, consoleVars, writerVars, reader, fetch>>

ReaderEnters ==
  /\ reader = "choosing" /\ at <= NumContents
  /\ ~task[at].skipped /\ task[at].written < Size[at]
  /\ reader' = "reading"
  /\ UNCHANGED <<queueVars, consoleVars, writerVars, at, fetch>>

(* AcquireSlotOrFinish, and into the read: nobody else sees the slot before   *)
(* it is published (FetchPipe takes the two apart).                          *)
ReaderReads ==
  /\ reader = "reading" /\ PieceDue
  /\ AcquireSlot(NextPiece)
  /\ reader' = "filling"
  /\ UNCHANGED <<consoleVars, writerVars, at, fetch>>

(* The read comes back without the bytes: the source stopped early. *)
ReaderFails ==
  /\ reader = "filling"
  /\ Fail
  /\ reader' = "done"
  /\ UNCHANGED <<consoleVars, writerVars, at, fetch>>

ReaderPublishes ==
  /\ reader = "filling"
  /\ Publish(NextPiece)
  /\ fetch' = IF HeaderDue THEN [fetch EXCEPT ![at].headerSent = TRUE]
                           ELSE [fetch EXCEPT ![at].streamRead = @ + 1]
  /\ reader' = "reading"
  /\ UNCHANGED <<consoleVars, writerVars, at>>

ReaderLeaves ==
  /\ reader = "reading" /\ ~PieceDue
  /\ at' = at + 1 /\ reader' = "choosing"
  /\ UNCHANGED <<queueVars, consoleVars, writerVars, fetch>>

(* Mutant: the loop ends without telling the queue. *)
ReaderEndsSilently ==
  /\ reader = "choosing" /\ at > NumContents
  /\ reader' = "done"
  /\ UNCHANGED <<queueVars, consoleVars, writerVars, at, fetch>>

ReaderFinishes ==
  /\ reader = "choosing" /\ at > NumContents
  /\ Finish
  /\ reader' = "done"
  /\ UNCHANGED <<consoleVars, writerVars, at, fetch>>

ReaderNext ==
  \/ ReaderSkips \/ ReaderEnters \/ ReaderReads
  \/ ReaderFails \/ ReaderPublishes \/ ReaderLeaves \/ ReaderFinishes

-----------------------------------------------------------------------------
(* The writer: Step. *)

(* The cells there are of c after n payload pieces: the header cell, which  *)
(* the decoder never sees, is the first.                                     *)
DecodedTo(c, n) == IF n = 0 THEN 1 ELSE Reach[c][n]

(* The cells a decoder hands out for one payload piece.  It decodes          *)
(* strictly forward: a piece out of its turn gives rubbish.                  *)
Decoded(c, piece) ==
  [j \in 1 .. DecodedTo(c, piece.at + 1) - DecodedTo(c, piece.at) |->
     IF piece.content = c /\ piece.at = fed[c] THEN DecodedTo(c, piece.at) + j ELSE 0]

(* What Step asks the placeholder to take for the piece in hand: the decoded *)
(* cells up to the content's own end, or the piece as it stands.             *)
CellsInHand ==
  LET c == hand.content
      data == slots[consuming]
      cells == IF hand.part = "payload" THEN Decoded(c, data)
               ELSE <<IF data.content = c THEN data.at + 1 ELSE 0>>
  IN IF hand.part = "payload"
       THEN SubSeq(cells, 1, Smaller(Len(cells), Size[c] - task[c].written))
       ELSE cells

(* NczDecoder::Feed refuses a payload that decodes past the content's end.  *)
FeedAccepted ==
  LET c == hand.content
  IN hand.part = "payload" => DecodedTo(c, fed[c] + 1) <= Size[c]

(* ContentInstaller::Write takes content-relative offsets and refuses a     *)
(* write past the content's end.                                            *)
WriteAccepted ==
  /\ FeedAccepted
  /\ task[hand.content].ph \in DOMAIN console
  /\ task[hand.content].written + Len(CellsInHand) <= Size[hand.content]

WrittenTask ==
  [task EXCEPT ![hand.content].written = @ + Len(CellsInHand)]

WrittenConsole ==
  LET c == hand.content
      w == task[c].written
      n == Len(CellsInHand)
  IN [console EXCEPT ![task[c].ph].cells =
        [k \in DOMAIN @ |-> IF k \in w + 1 .. w + n THEN CellsInHand[k - w] ELSE @[k]]]

WriterTakes ==
  /\ run = "transfer" /\ hand = Torn
  /\ TakeItem
  /\ hand' = Head(items).range
  /\ UNCHANGED <<consoleVars, run, task, mine, readPh, metaPh, kept, modified, flushed,
                 fed, toRegister, readerVars>>

WriterWrites ==
  /\ run = "transfer" /\ hand # Torn
  /\ WriteAccepted
  /\ console' = WrittenConsole
  /\ task' = WrittenTask
  /\ fed' = IF hand.part = "payload" THEN [fed EXCEPT ![hand.content] = @ + 1] ELSE fed
  /\ modified' = (modified \/ (/\ hand.part # "payload" /\ slots[consuming].at = 0
                               /\ hand.content \in Gamecard))
  /\ \E saved \in IF FlushDue(WrittenTask) THEN BOOLEAN ELSE {FALSE} :
       /\ taskFile' = IF saved THEN DumpTask(WrittenTask) ELSE taskFile
       /\ flushed' = IF saved THEN Flushed(WrittenTask) ELSE flushed
  /\ Release
  /\ hand' = Torn
  /\ UNCHANGED <<registered, recorded, run, mine, readPh, metaPh, kept, toRegister,
                 readerVars>>

(* The decoder or the storage refuses: RunGameInstall takes the read-out    *)
(* placeholders away and shows the result; the rest waits for the player.   *)
WriterFails ==
  /\ run = "transfer" /\ hand # Torn
  /\ Release
  /\ hand' = Torn
  /\ CleanupAfterFailure /\ readPh' = {}
  /\ run' = "failed"
  /\ UNCHANGED <<registered, recorded, taskFile, task, mine, metaPh, kept, modified,
                 flushed, fed, toRegister, readerVars>>

WriterHearsFailed ==
  /\ run = "transfer" /\ hand = Torn /\ NextIsFailed
  /\ CleanupAfterFailure /\ readPh' = {}
  /\ run' = "failed"
  /\ UNCHANGED <<queueVars, registered, recorded, taskFile, task, mine, metaPh, kept,
                 modified, flushed, hand, fed, toRegister, readerVars>>

(* Finish counts what arrived before it registers anything; a transfer with  *)
(* a hole in it is refused, and RunGameInstall abandons it.                  *)
WriterHearsFinished ==
  /\ run = "transfer" /\ hand = Torn /\ NextIsFinished
  /\ IF TransferComplete(task)
       THEN /\ run' = "register"
            /\ toRegister' = Order
            /\ UNCHANGED <<queueVars, consoleVars, task, mine, readPh, metaPh, kept,
                           modified, flushed, hand, fed, readerVars>>
       ELSE Abandon /\ Destroy

WriterNext ==
  WriterTakes \/ WriterWrites \/ WriterFails \/ WriterHearsFailed
    \/ WriterHearsFinished

(* App::LeaveInstallScreen after a failed transfer. *)
LeaveFailed ==
  /\ run = "failed"
  /\ IF kept THEN CleanupAfterFailure /\ UNCHANGED <<registered, recorded, taskFile>>
             ELSE Abandon
  /\ Destroy

-----------------------------------------------------------------------------
(* Finish: register the contents, file the record, remove the task file. *)

PlaceholderOf(c) == IF c = Meta THEN metaPh ELSE task[c].ph

RegisterNext ==
  /\ run = "register" /\ toRegister # <<>>
  /\ LET c == Head(toRegister)
         p == PlaceholderOf(c)
     IN IF p \notin DOMAIN console \/ (c \in Content /\ task[c].skipped)
          THEN UNCHANGED <<console, registered>>
          ELSE /\ registered' = IF c \in DOMAIN registered THEN registered
                                ELSE With(registered, c, console[p].cells)
               /\ console' = Without(console, {p})
  /\ toRegister' = Tail(toRegister)
  /\ UNCHANGED <<queueVars, recorded, taskFile, run, task, mine, readPh, metaPh, kept,
                 modified, flushed, hand, fed, readerVars>>

(* ContentInstaller::Finish, all of it (ContentFinish takes it apart). *)
FinishRecords ==
  /\ run = "register" /\ toRegister = <<>>
  /\ recorded' = TRUE
  /\ run' = "closing"
  /\ UNCHANGED <<queueVars, console, registered, taskFile, task, mine, readPh, metaPh,
                 kept, modified, flushed, hand, fed, toRegister, readerVars>>

(* A service refuses while registering or filing: the run is abandoned. *)
FinishFails ==
  /\ run = "register"
  /\ Abandon /\ Destroy

FinishCloses ==
  /\ run = "closing"
  /\ RemoveTask
  /\ UNCHANGED <<console, registered, recorded>>
  /\ Destroy

-----------------------------------------------------------------------------
Crash ==
  /\ run # "none"
  /\ Destroy
  /\ UNCHANGED consoleVars

(* The task file is replaced by two renames; between them there is none, and *)
(* nothing ever looks at the name the old one was moved to.                  *)
CrashWhileSaving ==
  /\ \/ run = "begun"
     \/ run = "transfer" /\ hand # Torn /\ WriteAccepted /\ FlushDue(WrittenTask)
  /\ taskFile' = NoFile
  /\ UNCHANGED <<console, registered, recorded>>
  /\ Destroy

(* No package is open and the player does nothing. *)
Idle == run = "none" /\ UNCHANGED vars

PlayerNext ==
  PrepareRun \/ PrepareFails \/ PrepareSkips \/ GiveUp \/ Cancel \/ BeginCreates \/ BeginFails \/ BeginStarts
    \/ LeaveFailed

FinishNext == RegisterNext \/ FinishRecords \/ FinishFails \/ FinishCloses

Next ==
  \/ PlayerNext \/ ReaderNext \/ WriterNext \/ FinishNext
  \/ PlaceholderVanishes \/ Crash \/ CrashWhileSaving \/ Idle

(* Everything the fetch thread does but coming back from a Read. *)
ReaderMoves ==
  \/ ReaderSkips \/ ReaderEnters \/ ReaderReads \/ ReaderLeaves \/ ReaderFinishes

(* Both threads keep being scheduled.  That a Read comes back is not asked:  *)
(* an upload's may hang.  The player, the storage's refusals and the crashes *)
(* are under no obligation either.                                           *)
Spec ==
  /\ Init /\ [][Next]_vars
  /\ WF_vars(ReaderMoves)
  /\ WF_vars(WriterNext)

-----------------------------------------------------------------------------
(* Properties. *)

(* Every variable of the run and of the console stays in its range. *)
TypeOK ==
  /\ DOMAIN console \subseteq PlaceholderId
  /\ \A p \in DOMAIN console :
       /\ console[p].content \in Content \cup {Meta}
       /\ console[p].content \in Content =>
            console[p].cells \in [1 .. Size[console[p].content] -> Nat]
  /\ DOMAIN registered \subseteq Content \cup {Meta}
  /\ recorded \in BOOLEAN /\ kept \in BOOLEAN /\ modified \in BOOLEAN
  /\ taskFile # NoFile =>
       taskFile \in [Content -> [written : Nat, ph : PlaceholderId \cup {NoPlaceholder}]]
  /\ run \in {"none", "confirm", "begun", "transfer", "failed", "register", "closing"}
  /\ task \in [Content -> [written : Nat, ph : PlaceholderId \cup {NoPlaceholder},
                           skipped : BOOLEAN]]
  /\ mine \subseteq PlaceholderId /\ readPh \subseteq PlaceholderId
  /\ reader \in {"off", "choosing", "reading", "filling", "done"}
  /\ at \in 1 .. NumContents + 1

(* The first n cells of content c are in placeholder p, each in its place. *)
HoldsPrefix(p, c, n) ==
  /\ console[p].content = c
  /\ n <= Size[c]
  /\ \A k \in 1 .. n : console[p].cells[k] = k

(* The fetch thread's cursor and the writer's offset count two different    *)
(* things -- stream pieces sent, cells written -- in two threads, from a    *)
(* start that a resume moves.  They never drift: whatever a run counts as   *)
(* written is in the placeholder at its own offset.                         *)
WrittenIsInPlace ==
  run \in {"begun", "transfer", "failed"} =>
    \A c \in Content :
      task[c].ph \in DOMAIN console => HoldsPrefix(task[c].ph, c, task[c].written)

(* What the task file says survives whatever ends the run: the progress it  *)
(* records for a placeholder that is still there is really in it, so a      *)
(* resume that starts at that offset leaves no hole.                        *)
TaskFileIsHonest ==
  \A c \in DOMAIN taskFile :
    taskFile[c].ph \in DOMAIN console => HoldsPrefix(taskFile[c].ph, c, taskFile[c].written)

(* A content in the storage is the content it is named for, from end to end, *)
(* over any number of interrupted and resumed runs; and the console is told  *)
(* about a title only when every content its record names is there.          *)
RegisteredIsWhole ==
  /\ \A c \in DOMAIN registered : registered[c] = IF c = Meta THEN WholeMeta ELSE Whole(c)
  /\ recorded => DOMAIN registered = Content \cup {Meta}

(* The reader decides what to leave out by looking at the counters the      *)
(* writer moves, without a lock; when the writer is told that everything    *)
(* arrived, everything its streams hold did, and Finish has no reason to     *)
(* throw a complete download away.                                          *)
FallsShort(c) == c \in Compressed /\ DecodedTo(c, Len(Reach[c])) < Size[c]
DrainedIsComplete ==
  run = "transfer" /\ hand = Torn /\ NextIsFinished =>
    \A c \in Content : task[c].skipped \/ task[c].written >= Size[c] \/ FallsShort(c)

(* A transfer ends: with everything in, or with an error -- provided that no  *)
(* Read of the source hangs for ever (UploadSource::Read waits for its peer   *)
(* without a clock; what the other sources read comes back or fails).        *)
InRead == run = "transfer" /\ reader = "filling"
ReadsReturn == []<>~InRead
TransferEnds == ReadsReturn => (run = "transfer" ~> run # "transfer")

-----------------------------------------------------------------------------
(* What comments in the code say, and the code does not do. *)

(* GameInstall::WriteDecoded: "A block may decode past the NCA the stream   *)
(* declares ... so the write stops at the content's own end and the surplus *)
(* is dropped" -- a decoder takes every piece of its own stream, the last    *)
(* one too.                                                                 *)
SurplusIsDropped == run = "transfer" /\ hand # Torn => FeedAccepted

(* GameInstall::Abandon: "the placeholders are gone, so a task file that     *)
(* points at them would only offer a resume into nothing" -- when a run that *)
(* is cancelled on the confirm page takes the task file with it, none of the *)
(* placeholders the file names is left on the console.                       *)
CancelLeavesNothing ==
  [][run = "confirm" /\ run' = "none" /\ taskFile # NoFile /\ taskFile' = NoFile
       => Named(taskFile) \cap DOMAIN console' = {}]_vars

(* GameInstall::Abandon: "Only discard registered content when this run     *)
(* registered it ... deleting a title the console already had is not ours   *)
(* to do" -- a content that was there when the run was confirmed is still   *)
(* there when it is abandoned.                                              *)
AbandonSparesTheConsole ==
  [][run # "none" /\ run' = "none"
       => \A c \in Content : task[c].skipped => c \in DOMAIN registered']_vars

(* ContentInstaller::Begin: "creating a second one for the same content is  *)
(* refused by the system anyway" -- so Begin never creates a placeholder    *)
(* for a content that still has one from the task it resumes.               *)
OnePlaceholderPerContent ==
  [][run = "confirm" /\ run' = "begun"
       => \A p \in DOMAIN console' \ DOMAIN console, q \in Named(taskFile) \cap DOMAIN console :
            console'[p].content # console[q].content]_vars
=============================================================================
