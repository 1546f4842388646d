------------------------ MODULE GameTransfer_proofs ------------------------
(***************************************************************************)
(* Proofs about a package on its way into the console's storage, for every *)
(* package, every number of buffers and placeholders, any number of        *)
(* crashes, failures and resumes.  The argument follows the pieces from    *)
(* the reader's cursor through the queue into the writer's hand: the       *)
(* writer always holds the very piece its content's placeholder is due.    *)
(***************************************************************************)
EXTENDS GameTransfer, SequenceTheorems, TLAPS

Parts == {"header", "payload", "plain"}
AnyPiece == [content : Content, part : Parts, at : Nat]
QueueEntry == [slot : Slot, range : AnyPiece]
AnyPlaceholder == [content : Content \cup {Meta}, cells : Seq(Nat)]
AnyId == PlaceholderId \cup {NoPlaceholder}

(* The type invariant with the types of what it leaves out. *)
Typed ==
  /\ TypeOK
  /\ console \in [DOMAIN console -> AnyPlaceholder]
  /\ metaPh \in AnyId
  /\ fetch \in [Content -> [headerSent : BOOLEAN, streamRead : Nat]]
  /\ hand \in AnyPiece \cup {Torn}
  /\ fed \in [Content -> Nat]
  /\ toRegister \in Seq(Content \cup {Meta})
  /\ slots \in [Slot -> AnyPiece \cup {Torn}]
  /\ items \in Seq(QueueEntry)
  /\ freeSlots \in Seq(Slot)
  /\ producing \in Slot \cup {NoSlot} /\ consuming \in Slot \cup {NoSlot}
  /\ finished \in BOOLEAN
  /\ reader \in {"reading", "filling"} => at \in Content

(* What a task says of a placeholder is in it, in every state of a run. *)
InPlace ==
  /\ \A c \in Content :
       task[c].ph \in DOMAIN console => HoldsPrefix(task[c].ph, c, task[c].written)
  /\ metaPh \in DOMAIN console => console[metaPh] = [content |-> Meta, cells |-> WholeMeta]

(* Nothing flies before the transfer. *)
Grounded ==
  /\ run \in {"none", "confirm", "begun"} =>
       /\ items = <<>> /\ hand = Torn /\ reader = "off" /\ ~finished
       /\ fed = [c \in Content |-> 0]
  /\ run \in {"none", "confirm"} => mine = {}
  /\ run = "none" => task = NoTask /\ metaPh = NoPlaceholder

(* What Prepare and Begin have arranged for the contents of the task. *)
Planned ==
  /\ run \in {"confirm", "begun", "transfer", "register"} =>
       /\ metaPh \in DOMAIN console \/ Meta \in DOMAIN registered
       /\ \A c \in Content :
            task[c].skipped => c \in DOMAIN registered /\ task[c].ph = NoPlaceholder
  /\ run = "confirm" =>
       /\ metaPh \in readPh
       /\ \A c \in Content :
            /\ ~task[c].skipped /\ task[c].written >= Size[c] => task[c].ph \in DOMAIN console
            /\ c \in Needing /\ c \in Compressed => task[c].written = 0
  /\ run \in {"begun", "transfer"} =>
       \A c \in Content :
         /\ ~task[c].skipped => task[c].ph \in DOMAIN console
         /\ c \in Needing => task[c].ph \in mine
  /\ run = "begun" =>
       \A c \in Compressed : task[c].ph \in mine => task[c].written = 0

(* A buffer has one owner: it is free, queued, the reader's or the writer's. *)
OneOwner ==
  /\ \A i, j \in 1 .. Len(freeSlots) : freeSlots[i] = freeSlots[j] => i = j
  /\ \A i, j \in 1 .. Len(items) : items[i].slot = items[j].slot => i = j
  /\ \A i \in 1 .. Len(freeSlots), j \in 1 .. Len(items) : freeSlots[i] # items[j].slot
  /\ \A i \in 1 .. Len(freeSlots) : freeSlots[i] \notin {producing, consuming}
  /\ \A i \in 1 .. Len(items) : items[i].slot \notin {producing, consuming}
  /\ producing # NoSlot => producing # consuming

(* Each owner's buffer holds what its owner believes it holds. *)
Buffers ==
  /\ reader \in {"off", "choosing", "reading"} => producing = NoSlot
  /\ reader = "filling" => producing # NoSlot /\ PieceDue /\ slots[producing] = NextPiece
  /\ hand # Torn <=> consuming # NoSlot
  /\ consuming # NoSlot => slots[consuming] = hand
  /\ \A i \in 1 .. Len(items) : slots[items[i].slot] = items[i].range

(* Pieces of a content are counted from its stream's beginning, the header *)
(* of a compressed one included.                                           *)
Unit(p) == IF p.part = "payload" THEN p.at + 1 ELSE p.at
Units(c) == IF c \in Compressed THEN 1 + Len(Reach[c]) ELSE Size[c]

(* Pieces of c the reader has sent, or needed not send. *)
Sent(c) ==
  IF c \notin Compressed THEN fetch[c].streamRead
  ELSE IF fetch[c].headerSent THEN 1 + fetch[c].streamRead ELSE 0

(* Pieces of c the writer is through with. *)
Arrived(c) ==
  IF task[c].ph \notin mine THEN Sent(c)
  ELSE IF c \notin Compressed THEN task[c].written
  ELSE IF task[c].written = 0 THEN 0 ELSE 1 + fed[c]

Queued == {items[i].range : i \in 1 .. Len(items)}
InFlight == Queued \cup (IF hand = Torn THEN {} ELSE {hand})

Fits(p) ==
  /\ p.part = "plain" <=> p.content \notin Compressed
  /\ p.part = "header" => p.at = 0

Before(p, q) ==
  p.content < q.content \/ (p.content = q.content /\ Unit(p) < Unit(q))

(* Between the two cursors of a content its pieces are all on their way, *)
(* each once and in their order.                                         *)
Flight ==
  run = "transfer" =>
    /\ \A p \in InFlight :
         Fits(p) /\ Arrived(p.content) <= Unit(p) /\ Unit(p) < Sent(p.content)
    /\ \A c \in Content : \A u \in Arrived(c) .. Sent(c) - 1 :
         \E p \in InFlight : p.content = c /\ Unit(p) = u
    /\ \A i, j \in 1 .. Len(items) : i < j => Before(items[i].range, items[j].range)
    /\ hand # Torn => \A i \in 1 .. Len(items) : Before(hand, items[i].range)

(* How far the two cursors are. *)
Cursors ==
  run = "transfer" =>
    /\ \A c \in Content :
         /\ Arrived(c) <= Sent(c) /\ Sent(c) <= Units(c)
         /\ c \in Compressed /\ ~fetch[c].headerSent => fetch[c].streamRead = 0
         /\ c > at \/ (c = at /\ reader = "choosing") => Sent(c) = Arrived(c)
         /\ c < at => task[c].skipped \/ task[c].written >= Size[c] \/ Sent(c) = Units(c)
         /\ c \in Compressed /\ task[c].ph \in mine =>
              /\ task[c].written = 0 => fed[c] = 0
              /\ task[c].written # 0 => task[c].written = DecodedTo(c, fed[c])
    /\ reader \in {"reading", "filling"} => task[at].ph \in mine
    /\ finished => at > NumContents

(* What Finish has still to register is whole in its placeholder. *)
Registering ==
  run = "register" =>
    /\ TransferComplete(task)
    /\ \A c \in Content \cup {Meta} :
         \/ c \in DOMAIN registered
         \/ /\ \E i \in 1 .. Len(toRegister) : toRegister[i] = c
            /\ PlaceholderOf(c) \in DOMAIN console
            /\ c \in Content => ~task[c].skipped

IInv ==
  /\ Typed /\ RegisteredIsWhole /\ TaskFileIsHonest /\ InPlace /\ Grounded /\ Planned
  /\ OneOwner /\ Buffers /\ Flight /\ Cursors /\ Registering

-----------------------------------------------------------------------------
(* Helpers. *)

(* What the sequences of the queue hold. *)
LEMMA Elements ==
  ASSUME Typed
  PROVE  /\ Len(items) \in Nat /\ Len(freeSlots) \in Nat
         /\ \A i \in 1 .. Len(freeSlots) : freeSlots[i] \in Slot
         /\ \A i \in 1 .. Len(items) :
              items[i].slot \in Slot /\ items[i].range \in AnyPiece
<1>1. \A i \in 1 .. Len(items) : items[i] \in QueueEntry
  BY ElementOfSeq DEF Typed
<1>2. \A i \in 1 .. Len(freeSlots) : freeSlots[i] \in Slot
  BY ElementOfSeq DEF Typed
<1>3. Len(items) \in Nat /\ Len(freeSlots) \in Nat
  BY LenProperties DEF Typed
<1> QED
  BY <1>1, <1>2, <1>3 DEF QueueEntry

(* Popping a stack that is kept as a sequence. *)
LEMMA StackPop ==
  ASSUME NEW S, NEW q \in Seq(S), Len(q) # 0
  PROVE  LET m == Len(q) - 1
             p == SubSeq(q, 1, m)
         IN  /\ p \in Seq(S)
             /\ Len(p) = m
             /\ \A i \in 1 .. m : p[i] = q[i]
<1> DEFINE m == Len(q) - 1
           p == SubSeq(q, 1, m)
<1>1. m \in Nat /\ \A i \in 1 .. m : q[i] \in S
  BY LenProperties, ElementOfSeq
<1> HIDE DEF m
<1>2. /\ p \in Seq(S)
      /\ Len(p) = IF 1 <= m THEN m - 1 + 1 ELSE 0
      /\ \A i \in 1 .. m - 1 + 1 : p[i] = q[1 + i - 1]
  BY <1>1, SubSeqProperties, 1 \in Int, m \in Int
<1>3. Len(p) = m /\ m - 1 + 1 = m /\ \A i \in 1 .. m : 1 + i - 1 = i
  BY <1>1, <1>2
<1> QED
  BY <1>2, <1>3 DEF m

(* An absent placeholder id names nothing, and a torn buffer holds no piece. *)
LEMMA Nobody ==
  /\ NoPlaceholder \notin PlaceholderId
  /\ NoSlot \notin Slot
  /\ Meta \notin Content
  /\ Torn \notin AnyPiece
BY DEF NoPlaceholder, PlaceholderId, NoSlot, Slot, Meta, Content, Torn, Piece, AnyPiece, Parts

(* The contents' sizes, and the cells a decoder has reached. *)
LEMMA Sizes ==
  ASSUME NEW c \in Content
  PROVE  /\ Size[c] \in Nat /\ Size[c] > 0
         /\ Len(Reach[c]) \in Nat
         /\ \A n \in 0 .. Len(Reach[c]) :
              DecodedTo(c, n) \in Nat /\ DecodedTo(c, n) > 0
         /\ \A n \in 0 .. Len(Reach[c]) - 1 : DecodedTo(c, n) <= DecodedTo(c, n + 1)
         /\ Units(c) \in Nat
         /\ Units(c) = IF c \in Compressed THEN 1 + StreamSize(c) ELSE StreamSize(c)
<1>1. Size[c] \in Nat /\ Size[c] > 0
  BY ContentsAssumption
<1>2. Reach[c] \in Seq(Nat \ {0})
  BY ContentsAssumption
<1>3. /\ Len(Reach[c]) \in Nat /\ DOMAIN Reach[c] = 1 .. Len(Reach[c])
      /\ \A i \in 1 .. Len(Reach[c]) : Reach[c][i] \in Nat \ {0}
  BY <1>2, LenProperties, ElementOfSeq
<1>4. \A i, j \in 1 .. Len(Reach[c]) : i <= j => Reach[c][i] <= Reach[c][j]
  BY <1>3, ContentsAssumption
<1>5. \A n \in 0 .. Len(Reach[c]) : DecodedTo(c, n) \in Nat /\ DecodedTo(c, n) > 0
  BY <1>3 DEF DecodedTo
<1>6. \A n \in 0 .. Len(Reach[c]) - 1 : DecodedTo(c, n) <= DecodedTo(c, n + 1)
  BY <1>3, <1>4 DEF DecodedTo
<1>7. /\ Units(c) \in Nat
      /\ Units(c) = IF c \in Compressed THEN 1 + StreamSize(c) ELSE StreamSize(c)
  BY <1>1, <1>3 DEF Units, StreamSize
<1> QED
  BY <1>1, <1>3, <1>5, <1>6, <1>7

(* Taking ids away from the console leaves the others as they were. *)
LEMMA WithoutProperties ==
  ASSUME NEW f, NEW S
  PROVE  /\ DOMAIN Without(f, S) = DOMAIN f \ S
         /\ \A x \in DOMAIN f \ S : Without(f, S)[x] = f[x]
         /\ Without(f, S) = [x \in DOMAIN f \ S |-> f[x]]
BY DEF Without, Restrict

LEMMA WholeIsTyped ==
  /\ WholeMeta \in Seq(Nat)
  /\ \A c \in Content :
       /\ Whole(c) \in Seq(Nat) /\ Whole(c) \in [1 .. Size[c] -> Nat]
       /\ Unwritten(c) \in Seq(Nat) /\ Unwritten(c) \in [1 .. Size[c] -> Nat]
<1>1. WholeMeta \in Seq(Nat)
  BY DEF WholeMeta
<1>2. \A c \in Content : Whole(c) \in Seq(Nat) /\ Whole(c) \in [1 .. Size[c] -> Nat]
  BY Sizes DEF Whole, SeqDef
<1>3. \A c \in Content : Unwritten(c) \in Seq(Nat) /\ Unwritten(c) \in [1 .. Size[c] -> Nat]
  BY Sizes DEF Unwritten, SeqDef
<1> QED
  BY <1>1, <1>2, <1>3

-----------------------------------------------------------------------------
(* Beginnings and ends. *)

LEMMA InitEstablishes == Init => IInv
<1> SUFFICES ASSUME Init PROVE IInv
  OBVIOUS
<1>0. /\ QueueInit(Torn)
      /\ console = <<>> /\ recorded = FALSE /\ taskFile = NoFile
      /\ run = "none" /\ task = NoTask
      /\ mine = {} /\ readPh = {} /\ metaPh = NoPlaceholder
      /\ kept = FALSE /\ modified = FALSE
      /\ reader = "off" /\ at = 1
      /\ fetch = [c \in Content |-> [headerSent |-> FALSE, streamRead |-> 0]]
      /\ hand = Torn /\ fed = [c \in Content |-> 0] /\ toRegister = <<>>
  BY DEF Init
<1>1. PICK S \in SUBSET (Content \ {Control}) : registered = [c \in S |-> Whole(c)]
  BY DEF Init
<1>2. DOMAIN console = {} /\ DOMAIN taskFile = {}
  BY <1>0 DEF NoFile
<1>3. /\ slots = [s \in Slot |-> Torn] /\ items = <<>> /\ freeSlots = [i \in Slot |-> i]
      /\ producing = NoSlot /\ consuming = NoSlot /\ finished = FALSE
  BY <1>0 DEF QueueInit
<1>4. freeSlots \in Seq(Slot) /\ Len(freeSlots) = NumSlots
  BY <1>3, NumSlotsAssumption, SeqDef DEF Slot
<1>5. TypeOK
  <2>1. task \in [Content -> [written : Nat, ph : AnyId, skipped : BOOLEAN]]
    BY <1>0 DEF NoTask, NewContent, AnyId
  <2>2. 1 \in 1 .. NumContents + 1
    BY ContentsAssumption
  <2>3. DOMAIN registered \subseteq Content \cup {Meta}
    BY <1>1
  <2> QED
    BY <1>0, <1>2, <2>1, <2>2, <2>3 DEF TypeOK, AnyId
<1>6. Typed
  <2>1. console \in [DOMAIN console -> AnyPlaceholder]
    BY <1>2, <1>0
  <2>2. items \in Seq(QueueEntry) /\ toRegister \in Seq(Content \cup {Meta})
    BY <1>0, <1>3, EmptySeq
  <2> QED
    BY <1>0, <1>3, <1>4, <1>5, <2>1, <2>2 DEF Typed, AnyId
<1>7. RegisteredIsWhole
  BY <1>0, <1>1, Nobody DEF RegisteredIsWhole
<1>8. TaskFileIsHonest /\ InPlace /\ Planned /\ Grounded /\ Flight /\ Cursors /\ Registering
  BY <1>0, <1>2, <1>3
     DEF TaskFileIsHonest, InPlace, Planned, Grounded, Flight, Cursors, Registering
<1>9. OneOwner
  <2>1. \A i \in 1 .. Len(freeSlots) : freeSlots[i] = i /\ i # NoSlot
    BY <1>3, <1>4, NumSlotsAssumption DEF Slot, NoSlot
  <2> QED
    BY <1>3, <2>1 DEF OneOwner, NoSlot
<1>10. Buffers
  BY <1>0, <1>3 DEF Buffers
<1> QED
  BY <1>6, <1>7, <1>8, <1>9, <1>10 DEF IInv

(* Whatever ends a run takes everything in memory with it; what stays is *)
(* what the console and the card say.                                    *)
LEMMA EndPreserves ==
  ASSUME IInv, Destroy,
         DOMAIN console' \subseteq DOMAIN console,
         console' = [p \in DOMAIN console' |-> console[p]],
         DOMAIN registered' \subseteq Content \cup {Meta}, recorded' \in BOOLEAN,
         RegisteredIsWhole',
         taskFile' \in {taskFile, NoFile}
  PROVE  IInv'
<1>0. /\ QueueReset(Torn)
      /\ run' = "none" /\ task' = NoTask
      /\ mine' = {} /\ readPh' = {} /\ metaPh' = NoPlaceholder
      /\ kept' = FALSE /\ modified' = FALSE
      /\ reader' = "off" /\ at' = 1
      /\ fetch' = [c \in Content |-> [headerSent |-> FALSE, streamRead |-> 0]]
      /\ hand' = Torn /\ fed' = [c \in Content |-> 0] /\ toRegister' = <<>>
  BY DEF Destroy
<1>t. Typed /\ TypeOK
  BY DEF IInv, Typed
<1>2. \A p \in DOMAIN console' : p \in DOMAIN console /\ console'[p] = console[p]
  OBVIOUS
<1>3. /\ slots' = [s \in Slot |-> Torn] /\ items' = <<>> /\ freeSlots' = [i \in Slot |-> i]
      /\ producing' = NoSlot /\ consuming' = NoSlot /\ finished' = FALSE
  BY <1>0 DEF QueueReset
<1>4. freeSlots' \in Seq(Slot) /\ Len(freeSlots') = NumSlots
  BY <1>3, NumSlotsAssumption, SeqDef DEF Slot
<1>5. TypeOK'
  <2>1. task' \in [Content -> [written : Nat, ph : AnyId, skipped : BOOLEAN]]
    BY <1>0 DEF NoTask, NewContent, AnyId
  <2>2. 1 \in 1 .. NumContents + 1
    BY ContentsAssumption
  <2>3. taskFile' # NoFile =>
          taskFile' \in [Content -> [written : Nat, ph : PlaceholderId \cup {NoPlaceholder}]]
    BY <1>t DEF TypeOK
  <2>4. /\ DOMAIN console' \subseteq PlaceholderId
        /\ \A p \in DOMAIN console' :
             /\ console'[p].content \in Content \cup {Meta}
             /\ console'[p].content \in Content =>
                  console'[p].cells \in [1 .. Size[console'[p].content] -> Nat]
    BY <1>t, <1>2 DEF TypeOK
  <2> QED
    BY <1>0, <2>1, <2>2, <2>3, <2>4 DEF TypeOK, AnyId
<1>6. Typed'
  <2>1. console' \in [DOMAIN console' -> AnyPlaceholder]
    BY <1>2, <1>t DEF Typed
  <2>2. items' \in Seq(QueueEntry) /\ toRegister' \in Seq(Content \cup {Meta})
    BY <1>0, <1>3, EmptySeq
  <2> QED
    BY <1>0, <1>3, <1>4, <1>5, <2>1, <2>2 DEF Typed, AnyId
<1>7. TaskFileIsHonest'
  <2> SUFFICES ASSUME NEW c \in DOMAIN taskFile', taskFile'[c].ph \in DOMAIN console'
               PROVE  HoldsPrefix(taskFile[c].ph, c, taskFile[c].written)'
    BY DEF TaskFileIsHonest
  <2>1. taskFile' = taskFile
    <3>1. DOMAIN NoFile = {}
      BY DEF NoFile
    <3> QED
      BY <3>1
  <2>2. HoldsPrefix(taskFile[c].ph, c, taskFile[c].written)
    BY <2>1, <1>2 DEF IInv, TaskFileIsHonest
  <2> QED
    BY <2>1, <2>2, <1>2 DEF HoldsPrefix
<1>8. InPlace'
  <2>1. \A c \in Content : task'[c].ph = NoPlaceholder
    BY <1>0 DEF NoTask, NewContent
  <2>2. NoPlaceholder \notin DOMAIN console'
    BY <1>5, Nobody DEF TypeOK
  <2> QED
    BY <1>0, <2>1, <2>2 DEF InPlace
<1>9. Planned' /\ Grounded' /\ Flight' /\ Cursors' /\ Registering'
  BY <1>0, <1>3 DEF Planned, Grounded, Flight, Cursors, Registering
<1>10. OneOwner'
  <2>1. \A i \in 1 .. Len(freeSlots') : freeSlots'[i] = i /\ i # NoSlot
    BY <1>3, <1>4, NumSlotsAssumption DEF Slot, NoSlot
  <2> QED
    BY <1>3, <2>1 DEF OneOwner, NoSlot
<1>11. Buffers'
  BY <1>0, <1>3 DEF Buffers
<1> QED
  BY <1>6, <1>7, <1>8, <1>9, <1>10, <1>11 DEF IInv

(* Taking placeholders away and ending the run. *)
LEMMA DropAndEnd ==
  ASSUME IInv, Destroy, NEW S, console' = Without(console, S),
         UNCHANGED <<registered, recorded>>, taskFile' \in {taskFile, NoFile}
  PROVE  IInv'
<1>1. DOMAIN console' = DOMAIN console \ S /\ console' = [p \in DOMAIN console \ S |-> console[p]]
  BY WithoutProperties
<1>2. RegisteredIsWhole' /\ DOMAIN registered' \subseteq Content \cup {Meta} /\ recorded' \in BOOLEAN
  BY DEF IInv, RegisteredIsWhole, Typed, TypeOK
<1> QED
  BY <1>1, <1>2, EndPreserves

LEMMA AbandonAndEnd ==
  ASSUME IInv, Abandon, Destroy
  PROVE  IInv'
<1> DEFINE S == mine \cup readPh
<1>1. console' = Without(console, S) /\ taskFile' \in {taskFile, NoFile}
  BY DEF Abandon, RemoveTask
<1> HIDE DEF S
<1>2. CASE ~modified
  BY <1>1, <1>2, DropAndEnd DEF Abandon
<1>3. CASE modified
  <2>1. DOMAIN console' = DOMAIN console \ S /\ console' = [p \in DOMAIN console \ S |-> console[p]]
    BY <1>1, WithoutProperties
  <2>r. registered' = Without(registered, Content) /\ recorded' = FALSE
    BY <1>3 DEF Abandon
  <2>2. /\ DOMAIN registered' = DOMAIN registered \ Content
        /\ \A c \in DOMAIN registered' : registered'[c] = registered[c]
        /\ recorded' = FALSE
    <3>1. registered' = [c \in DOMAIN registered \ Content |-> registered[c]]
      BY <2>r, WithoutProperties
    <3> QED
      BY <2>r, <3>1
  <2>3. RegisteredIsWhole'
    BY <2>2 DEF IInv, RegisteredIsWhole
  <2>4. DOMAIN registered' \subseteq Content \cup {Meta}
    BY <2>2 DEF IInv, Typed, TypeOK
  <2> QED
    BY <1>1, <2>1, <2>2, <2>3, <2>4, EndPreserves
<1> QED
  BY <1>2, <1>3

(* The card's console is left alone and the run is over. *)
LEMMA LeaveAndEnd ==
  ASSUME IInv, Destroy, UNCHANGED <<console, registered, recorded>>,
         taskFile' \in {taskFile, NoFile}
  PROVE  IInv'
<1>1. console' = [p \in DOMAIN console' |-> console[p]]
  BY DEF IInv, Typed
<1>2. RegisteredIsWhole' /\ DOMAIN registered' \subseteq Content \cup {Meta} /\ recorded' \in BOOLEAN
  BY DEF IInv, RegisteredIsWhole, Typed, TypeOK
<1> QED
  BY <1>1, <1>2, EndPreserves

LEMMA EndingsPreserve ==
  ASSUME IInv,
         Cancel \/ BeginFails \/ LeaveFailed \/ FinishFails \/ FinishCloses
           \/ Crash \/ CrashWhileSaving
  PROVE  IInv'
<1>1. CASE Cancel
  BY <1>1, AbandonAndEnd DEF Cancel
<1>2. CASE BeginFails
  <2>1. PICK c \in Missing :
          console' = Without(console, readPh \cup {task[b].ph : b \in {d \in Adopted : d < c}})
    BY <1>2 DEF BeginFails
  <2> QED
    BY <1>2, <2>1, DropAndEnd DEF BeginFails, RemoveTask
<1>3. CASE LeaveFailed
  <2>1. CASE kept
    BY <1>3, <2>1, DropAndEnd DEF LeaveFailed, CleanupAfterFailure
  <2>2. CASE ~kept
    BY <1>3, <2>2, AbandonAndEnd DEF LeaveFailed
  <2> QED
    BY <2>1, <2>2
<1>4. CASE FinishFails
  BY <1>4, AbandonAndEnd DEF FinishFails
<1>5. CASE FinishCloses
  BY <1>5, LeaveAndEnd DEF FinishCloses, RemoveTask
<1>6. CASE Crash
  BY <1>6, LeaveAndEnd DEF Crash, consoleVars
<1>7. CASE CrashWhileSaving
  BY <1>7, LeaveAndEnd DEF CrashWhileSaving
<1> QED
  BY <1>1, <1>2, <1>3, <1>4, <1>5, <1>6, <1>7

-----------------------------------------------------------------------------
(* Without a run: what changes on the console and the card. *)

LEMMA OutsidePreserves ==
  ASSUME IInv, run = "none", UNCHANGED <<queueVars, writerVars, readerVars>>,
         DOMAIN console' \subseteq PlaceholderId,
         console' \in [DOMAIN console' -> AnyPlaceholder],
         \A p \in DOMAIN console' :
           console'[p].content \in Content =>
             console'[p].cells \in [1 .. Size[console'[p].content] -> Nat],
         DOMAIN registered' \subseteq Content \cup {Meta}, recorded' \in BOOLEAN,
         RegisteredIsWhole',
         taskFile' \in {taskFile, NoFile},
         \A c \in DOMAIN taskFile' :
           taskFile'[c].ph \in DOMAIN console' =>
             /\ taskFile'[c].ph \in DOMAIN console
             /\ console'[taskFile'[c].ph] = console[taskFile'[c].ph]
  PROVE  IInv'
<1>u. /\ UNCHANGED queueVars
      /\ UNCHANGED <<run, task, mine, readPh, metaPh, kept, modified, flushed, hand, fed,
                     toRegister, reader, at, fetch>>
  BY DEF writerVars, readerVars
<1>q. UNCHANGED <<slots, items, freeSlots, producing, consuming, finished, stopped, failed>>
  BY <1>u DEF queueVars
<1>t. Typed /\ TypeOK
  BY DEF IInv, Typed
<1>1. \A p \in DOMAIN console' : console'[p].content \in Content \cup {Meta}
  BY DEF AnyPlaceholder
<1>2. TypeOK'
  BY <1>u, <1>t, <1>1 DEF TypeOK
<1>3. Typed'
  BY <1>u, <1>q, <1>t, <1>2 DEF Typed
<1>4. TaskFileIsHonest'
  <2> SUFFICES ASSUME NEW c \in DOMAIN taskFile', taskFile'[c].ph \in DOMAIN console'
               PROVE  HoldsPrefix(taskFile[c].ph, c, taskFile[c].written)'
    BY DEF TaskFileIsHonest
  <2>1. taskFile' = taskFile
    <3>1. DOMAIN NoFile = {}
      BY DEF NoFile
    <3> QED
      BY <3>1
  <2>2. HoldsPrefix(taskFile[c].ph, c, taskFile[c].written)
    BY <2>1 DEF IInv, TaskFileIsHonest
  <2> QED
    BY <2>1, <2>2 DEF HoldsPrefix
<1>5. InPlace'
  <2>1. task = NoTask /\ metaPh = NoPlaceholder
    BY DEF IInv, Grounded
  <2>2. \A c \in Content : task'[c].ph = NoPlaceholder
    BY <1>u, <2>1 DEF NoTask, NewContent
  <2>3. NoPlaceholder \notin DOMAIN console'
    BY Nobody
  <2> QED
    BY <1>u, <2>1, <2>2, <2>3 DEF InPlace
<1>6. Planned' /\ Flight' /\ Cursors' /\ Registering'
  BY <1>u DEF Planned, Flight, Cursors, Registering
<1>7. Grounded'
  BY <1>u, <1>q DEF IInv, Grounded
<1>8. OneOwner' /\ Buffers'
  <2>1. OneOwner'
    BY <1>q DEF IInv, OneOwner
  <2>2. Buffers'
    BY <1>u, <1>q DEF IInv, Buffers, PieceDue, NextPiece, HeaderDue
  <2> QED
    BY <2>1, <2>2
<1> QED
  BY <1>3, <1>4, <1>5, <1>6, <1>7, <1>8 DEF IInv

(* A new id is nobody's: not the console's, the run's or the task file's. *)
LEMMA FreshIsNobodys ==
  ASSUME Typed, NEW p \in FreshIds
  PROVE  /\ p \in PlaceholderId /\ p # NoPlaceholder
         /\ p \notin DOMAIN console /\ p \notin mine /\ p \notin readPh
         /\ \A c \in Content : task[c].ph # p
         /\ \A c \in DOMAIN taskFile : taskFile[c].ph # p
<1>1. DOMAIN task = Content
  BY DEF Typed, TypeOK
<1> QED
  BY <1>1, Nobody DEF FreshIds, Named

LEMMA IdsOfPrepare ==
  ASSUME NEW readable \in Readable, HasIds(readable)
  PROVE  /\ MetaId \in FreshIds
         /\ ControlId(readable) # NoPlaceholder <=> readable
         /\ readable => ControlId(readable) \in FreshIds \ {MetaId} /\ Control \in Content
<1>1. MetaId \in FreshIds
  BY DEF HasIds, MetaId
<1>2. readable => ControlId(readable) \in FreshIds \ {MetaId}
  BY DEF HasIds, ControlId
<1>3. FreshIds \subseteq PlaceholderId
  BY DEF FreshIds
<1>4. readable => Control \in Content
  BY ContentsAssumption DEF Readable
<1>5. ~readable => ControlId(readable) = NoPlaceholder
  BY DEF ControlId
<1>6. readable \in BOOLEAN
  BY DEF Readable
<1> QED
  BY <1>1, <1>2, <1>3, <1>4, <1>5, <1>6, Nobody

(* What ReadMetaContent and the control's reading leave behind. *)
LEMMA ReadOutProperties ==
  ASSUME Typed, RegisteredIsWhole, recorded' = recorded,
         NEW m \in FreshIds, NEW k \in (FreshIds \ {m}) \cup {NoPlaceholder},
         k # NoPlaceholder => Control \in Content,
         NEW registering \in BOOLEAN, ReadOut(m, k, registering)
  PROVE  /\ DOMAIN console \subseteq DOMAIN console'
         /\ DOMAIN console' \subseteq PlaceholderId
         /\ \A p \in DOMAIN console : console'[p] = console[p]
         /\ \A p \in DOMAIN console' : p \in DOMAIN console \/ p = m \/ p = k
         /\ console' \in [DOMAIN console' -> AnyPlaceholder]
         /\ \A p \in DOMAIN console' :
              console'[p].content \in Content =>
                console'[p].cells \in [1 .. Size[console'[p].content] -> Nat]
         /\ m \in DOMAIN console' => console'[m] = [content |-> Meta, cells |-> WholeMeta]
         /\ m \in DOMAIN console' \/ Meta \in DOMAIN registered'
         /\ k # NoPlaceholder =>
              k \in DOMAIN console' /\ console'[k] = [content |-> Control, cells |-> Whole(Control)]
         /\ DOMAIN registered \subseteq DOMAIN registered'
         /\ DOMAIN registered' \subseteq Content \cup {Meta}
         /\ RegisteredIsWhole'
<1> DEFINE read == {m, k} \ {NoPlaceholder}
           dom == DOMAIN console \cup (IF registering THEN read \ {m} ELSE read)
<1>0. TypeOK
  BY DEF Typed
<1>1. /\ m \in PlaceholderId /\ m # NoPlaceholder /\ m \notin DOMAIN console
      /\ k # NoPlaceholder => k \in PlaceholderId /\ k \notin DOMAIN console /\ k # m
      /\ k \notin DOMAIN console
  BY <1>0, FreshIsNobodys, Nobody DEF TypeOK
<1>2. console' = [p \in dom |->
                    IF p = m THEN [content |-> Meta, cells |-> WholeMeta]
                    ELSE IF p = k THEN [content |-> Control, cells |-> Whole(Control)]
                    ELSE console[p]]
  BY DEF ReadOut
<1>3. registered' = IF registering THEN With(registered, Meta, WholeMeta) ELSE registered
  BY DEF ReadOut
<1>4. \A p \in dom : p \in DOMAIN console \/ p = m \/ (p = k /\ k # NoPlaceholder)
  OBVIOUS
<1>5. /\ DOMAIN console' = dom /\ DOMAIN console \subseteq dom
      /\ k # NoPlaceholder => k \in dom
      /\ ~registering => m \in dom
  BY <1>1, <1>2
<1>6. dom \subseteq PlaceholderId
  BY <1>0, <1>1, <1>4 DEF TypeOK
<1> HIDE DEF dom
<1>7. /\ \A p \in DOMAIN console : console'[p] = console[p]
      /\ m \in dom => console'[m] = [content |-> Meta, cells |-> WholeMeta]
      /\ k # NoPlaceholder =>
           k \in DOMAIN console' /\ console'[k] = [content |-> Control, cells |-> Whole(Control)]
  BY <1>1, <1>2, <1>5
<1>8. \A p \in dom :
        /\ console'[p] \in AnyPlaceholder
        /\ console'[p].content \in Content =>
             console'[p].cells \in [1 .. Size[console'[p].content] -> Nat]
  <2> SUFFICES ASSUME NEW p \in dom
               PROVE  /\ console'[p] \in AnyPlaceholder
                      /\ console'[p].content \in Content =>
                           console'[p].cells \in [1 .. Size[console'[p].content] -> Nat]
    OBVIOUS
  <2>1. CASE p \in DOMAIN console
    BY <2>1, <1>0, <1>7 DEF Typed, TypeOK
  <2>2. CASE p = m
    BY <2>2, <1>7, WholeIsTyped, Nobody DEF AnyPlaceholder
  <2>3. CASE p = k /\ k # NoPlaceholder
    BY <2>3, <1>7, WholeIsTyped DEF AnyPlaceholder
  <2> QED
    BY <2>1, <2>2, <2>3, <1>4
<1>9. console' \in [DOMAIN console' -> AnyPlaceholder]
  BY <1>2, <1>5, <1>8
<1>10. /\ DOMAIN registered' = DOMAIN registered \cup (IF registering THEN {Meta} ELSE {})
       /\ \A c \in DOMAIN registered' :
            registered'[c] = IF c = Meta /\ registering THEN WholeMeta ELSE registered[c]
  BY <1>3 DEF With
<1>11. RegisteredIsWhole' /\ DOMAIN registered' \subseteq Content \cup {Meta}
  <2>1. DOMAIN registered' \subseteq Content \cup {Meta}
    BY <1>0, <1>10 DEF TypeOK
  <2>2. \A c \in DOMAIN registered' : registered'[c] = IF c = Meta THEN WholeMeta ELSE Whole(c)
    BY <1>10 DEF RegisteredIsWhole
  <2>3. recorded' => DOMAIN registered' = Content \cup {Meta}
    BY <1>10 DEF RegisteredIsWhole
  <2> QED
    BY <2>1, <2>2, <2>3 DEF RegisteredIsWhole
<1>12. m \in DOMAIN console' \/ Meta \in DOMAIN registered'
  BY <1>5, <1>10
<1>13. \A p \in DOMAIN console' : p \in DOMAIN console \/ p = m \/ p = k
  BY <1>4, <1>5
<1> QED
  BY <1>5, <1>6, <1>7, <1>8, <1>9, <1>10, <1>11, <1>12, <1>13

LEMMA PrepareFailsPreserves == IInv /\ PrepareFails => IInv'
<1> SUFFICES ASSUME IInv, PrepareFails PROVE IInv'
  OBVIOUS
<1>1. /\ run = "none" /\ FreshIds # {}
      /\ UNCHANGED <<queueVars, recorded, taskFile, writerVars, readerVars>>
  BY DEF PrepareFails
<1>2. PICK registering \in BOOLEAN : ReadOut(MetaId, NoPlaceholder, registering)
  BY DEF PrepareFails
<1>3. MetaId \in FreshIds /\ NoPlaceholder \in (FreshIds \ {MetaId}) \cup {NoPlaceholder}
  BY <1>1 DEF MetaId
<1>4. Typed /\ RegisteredIsWhole /\ TypeOK /\ recorded' = recorded
  BY <1>1 DEF IInv, Typed
<1>5. /\ DOMAIN console \subseteq DOMAIN console'
      /\ DOMAIN console' \subseteq PlaceholderId
      /\ \A p \in DOMAIN console : console'[p] = console[p]
      /\ \A p \in DOMAIN console' : p \in DOMAIN console \/ p = MetaId \/ p = NoPlaceholder
      /\ console' \in [DOMAIN console' -> AnyPlaceholder]
      /\ \A p \in DOMAIN console' :
           console'[p].content \in Content =>
             console'[p].cells \in [1 .. Size[console'[p].content] -> Nat]
      /\ DOMAIN registered' \subseteq Content \cup {Meta}
      /\ RegisteredIsWhole'
  BY <1>2, <1>3, <1>4, ReadOutProperties
<1>6. \A c \in DOMAIN taskFile' :
        taskFile'[c].ph \in DOMAIN console' =>
          /\ taskFile'[c].ph \in DOMAIN console
          /\ console'[taskFile'[c].ph] = console[taskFile'[c].ph]
  BY <1>1, <1>3, <1>4, <1>5, FreshIsNobodys, Nobody
<1>7. recorded' \in BOOLEAN /\ taskFile' \in {taskFile, NoFile}
  BY <1>1, <1>4 DEF TypeOK
<1> QED
  BY <1>1, <1>5, <1>6, <1>7, OutsidePreserves

(* The player gives up, or placeholders go away by themselves. *)
LEMMA OutsideDropPreserves ==
  ASSUME IInv, run = "none", UNCHANGED <<queueVars, registered, recorded, writerVars, readerVars>>,
         NEW S, console' = Without(console, S), taskFile' \in {taskFile, NoFile}
  PROVE  IInv'
<1>0. DOMAIN console' = DOMAIN console \ S /\ console' = [p \in DOMAIN console \ S |-> console[p]]
  BY WithoutProperties
<1>1. /\ DOMAIN console' = DOMAIN console \ S
      /\ console' = [p \in DOMAIN console \ S |-> console[p]]
      /\ \A p \in DOMAIN console' : console'[p] = console[p]
  BY <1>0
<1>2. Typed /\ TypeOK
  BY DEF IInv, Typed
<1>3. /\ DOMAIN console' \subseteq PlaceholderId
      /\ console' \in [DOMAIN console' -> AnyPlaceholder]
      /\ \A p \in DOMAIN console' :
           console'[p].content \in Content =>
             console'[p].cells \in [1 .. Size[console'[p].content] -> Nat]
      /\ DOMAIN registered' \subseteq Content \cup {Meta} /\ recorded' \in BOOLEAN
  BY <1>1, <1>2 DEF Typed, TypeOK
<1>4. RegisteredIsWhole'
  BY DEF IInv, RegisteredIsWhole
<1> QED
  BY <1>1, <1>3, <1>4, OutsidePreserves

LEMMA PrepareSkipsPreserves == IInv /\ PrepareSkips => IInv'
<1> SUFFICES ASSUME IInv, PrepareSkips PROVE IInv'
  OBVIOUS
<1>1. /\ run = "none" /\ UNCHANGED <<queueVars, registered, recorded, writerVars, readerVars>>
  BY DEF PrepareSkips
<1> DEFINE left(resume) == IF resume THEN Without(console, Named(taskFile)) ELSE console
           withMeta(resume) == With(left(resume), MetaId, [content |-> Meta, cells |-> WholeMeta])
<1>2. PICK readable \in Readable, resume \in MayResume :
        /\ HasIds(readable)
        /\ console' = IF readable
                        THEN With(withMeta(resume), ControlId(TRUE),
                                  [content |-> Control, cells |-> Whole(Control)])
                        ELSE withMeta(resume)
        /\ taskFile' \in {taskFile, NoFile}
  BY DEF PrepareSkips, RemoveTask
<1> DEFINE was == left(resume)
           k == ControlId(readable)
<1>3. Typed /\ TypeOK
  BY DEF IInv, Typed
<1>4. /\ MetaId \in PlaceholderId /\ MetaId \notin DOMAIN console
      /\ readable => k \in PlaceholderId /\ k \notin DOMAIN console /\ Control \in Content
      /\ \A c \in DOMAIN taskFile : taskFile[c].ph # MetaId
      /\ readable => \A c \in DOMAIN taskFile : taskFile[c].ph # k
  BY <1>2, <1>3, IdsOfPrepare, FreshIsNobodys
<1>5. DOMAIN was \subseteq DOMAIN console /\ \A p \in DOMAIN was : was[p] = console[p]
  <2> DEFINE N == Named(taskFile)
  <2>1. /\ DOMAIN Without(console, N) = DOMAIN console \ N
        /\ \A p \in DOMAIN console \ N : Without(console, N)[p] = console[p]
    BY WithoutProperties
  <2>2. was = IF resume THEN Without(console, N) ELSE console
    OBVIOUS
  <2> HIDE DEF was, N
  <2> QED
    BY <2>1, <2>2
<1>6. /\ DOMAIN console' = DOMAIN was \cup {MetaId} \cup (IF readable THEN {k} ELSE {})
      /\ console' = [p \in DOMAIN console' |->
                       IF readable /\ p = k THEN [content |-> Control, cells |-> Whole(Control)]
                       ELSE IF p = MetaId THEN [content |-> Meta, cells |-> WholeMeta]
                       ELSE was[p]]
  <2> DEFINE wm == withMeta(resume)
  <2>1. /\ DOMAIN wm = DOMAIN was \cup {MetaId}
        /\ wm = [p \in DOMAIN was \cup {MetaId} |->
                   IF p = MetaId THEN [content |-> Meta, cells |-> WholeMeta] ELSE was[p]]
    BY DEF With
  <2> HIDE DEF wm, was
  <2>2. CASE ~readable
    BY <1>2, <2>1, <2>2 DEF wm
  <2>3. CASE readable
    <3>1. console' = With(wm, k, [content |-> Control, cells |-> Whole(Control)])
      BY <1>2, <2>3 DEF wm, ControlId
    <3> QED
      BY <2>1, <2>3, <3>1 DEF With
  <2> QED
    BY <2>2, <2>3
<1> HIDE DEF was, k
<1>7. DOMAIN console' \subseteq PlaceholderId
  BY <1>3, <1>4, <1>5, <1>6 DEF TypeOK
<1>8. \A p \in DOMAIN console' :
        /\ console'[p] \in AnyPlaceholder
        /\ console'[p].content \in Content =>
             console'[p].cells \in [1 .. Size[console'[p].content] -> Nat]
  <2> SUFFICES ASSUME NEW p \in DOMAIN console'
               PROVE  /\ console'[p] \in AnyPlaceholder
                      /\ console'[p].content \in Content =>
                           console'[p].cells \in [1 .. Size[console'[p].content] -> Nat]
    OBVIOUS
  <2>1. CASE readable /\ p = k
    BY <2>1, <1>4, <1>6, WholeIsTyped DEF AnyPlaceholder
  <2>2. CASE ~(readable /\ p = k) /\ p = MetaId
    <3>1. console'[p] = [content |-> Meta, cells |-> WholeMeta]
      BY <2>2, <1>6
    <3> QED
      BY <3>1, WholeIsTyped, Nobody DEF AnyPlaceholder
  <2>3. CASE ~(readable /\ p = k) /\ p # MetaId
    <3>1. p \in DOMAIN console /\ console'[p] = console[p]
      BY <2>3, <1>5, <1>6
    <3> QED
      BY <3>1, <1>3 DEF Typed, TypeOK
  <2> QED
    BY <2>1, <2>2, <2>3
<1>9. console' \in [DOMAIN console' -> AnyPlaceholder]
  BY <1>6, <1>8
<1>10. \A c \in DOMAIN taskFile' :
         taskFile'[c].ph \in DOMAIN console' =>
           /\ taskFile'[c].ph \in DOMAIN console
           /\ console'[taskFile'[c].ph] = console[taskFile'[c].ph]
  <2> SUFFICES ASSUME NEW c \in DOMAIN taskFile', taskFile'[c].ph \in DOMAIN console'
               PROVE  /\ taskFile[c].ph \in DOMAIN console
                      /\ console'[taskFile[c].ph] = console[taskFile[c].ph]
                      /\ taskFile' = taskFile
    OBVIOUS
  <2>1. taskFile' = taskFile
    <3>1. DOMAIN NoFile = {}
      BY DEF NoFile
    <3> QED
      BY <3>1, <1>2
  <2>2. taskFile[c].ph # MetaId /\ (readable => taskFile[c].ph # k)
    BY <1>4, <2>1
  <2>3. taskFile[c].ph \in DOMAIN was
    BY <1>6, <2>1, <2>2
  <2> QED
    BY <1>5, <1>6, <2>1, <2>2, <2>3
<1>11. /\ DOMAIN registered' \subseteq Content \cup {Meta} /\ recorded' \in BOOLEAN
       /\ RegisteredIsWhole' /\ taskFile' \in {taskFile, NoFile}
  BY <1>1, <1>2, <1>3 DEF IInv, TypeOK, RegisteredIsWhole
<1> QED
  BY <1>1, <1>7, <1>8, <1>9, <1>10, <1>11, OutsidePreserves

LEMMA OutsidesPreserve ==
  ASSUME IInv, PrepareFails \/ PrepareSkips \/ GiveUp \/ PlaceholderVanishes
  PROVE  IInv'
<1>1. CASE PrepareFails
  BY <1>1, PrepareFailsPreserves
<1>2. CASE PrepareSkips
  BY <1>2, PrepareSkipsPreserves
<1>3. CASE GiveUp
  <2>1. console' = Without(console, Named(taskFile))
    BY <1>3 DEF GiveUp
  <2> QED
    BY <1>3, <2>1, OutsideDropPreserves DEF GiveUp, RemoveTask
<1>4. CASE PlaceholderVanishes
  <2>1. PICK p \in DOMAIN console : console' = Without(console, {p})
    BY <1>4 DEF PlaceholderVanishes
  <2> QED
    BY <1>4, <2>1, OutsideDropPreserves DEF PlaceholderVanishes
<1> QED
  BY <1>1, <1>2, <1>3, <1>4

-----------------------------------------------------------------------------
(* Prepare and Begin: how a task comes to be. *)

(* A content of a new task: read already, in the storage already, to be   *)
(* fetched from its beginning, or from where its old placeholder ends.     *)
LEMMA PreparedContents ==
  ASSUME IInv, NEW readable \in Readable, HasIds(readable), NEW resume \in MayResume,
         NEW t, t = IF resume THEN AdoptResume(Prepared(ControlId(readable)))
                              ELSE Prepared(ControlId(readable)),
         NEW c \in Content
  PROVE  \/ /\ c = Control /\ readable /\ ~t[c].skipped
            /\ t[c].written = Size[c] /\ t[c].ph = ControlId(readable)
         \/ t[c].skipped /\ c \in DOMAIN registered /\ t[c].written = Size[c] /\ t[c].ph = NoPlaceholder
         \/ ~t[c].skipped /\ t[c].written = 0 /\ t[c].ph = NoPlaceholder
         \/ /\ ~t[c].skipped /\ c \notin Compressed
            /\ c \in DOMAIN taskFile /\ t[c].ph = taskFile[c].ph /\ t[c].ph \in DOMAIN console
            /\ t[c].written = taskFile[c].written
<1> DEFINE k == ControlId(readable)
           f == Prepared(k)
<1>1. k # NoPlaceholder <=> readable
  BY IdsOfPrepare
<1> HIDE DEF k
<1>2. f[c] = IF c = Control /\ k # NoPlaceholder
               THEN [NewContent EXCEPT !.written = Size[c], !.ph = k]
               ELSE IF c \in DOMAIN registered
                 THEN [NewContent EXCEPT !.written = Size[c], !.skipped = TRUE]
                 ELSE NewContent
  BY DEF Prepared
<1>3. \/ c = Control /\ readable /\ f[c] = [written |-> Size[c], ph |-> k, skipped |-> FALSE]
      \/ /\ c \in DOMAIN registered
         /\ f[c] = [written |-> Size[c], ph |-> NoPlaceholder, skipped |-> TRUE]
      \/ f[c] = [written |-> 0, ph |-> NoPlaceholder, skipped |-> FALSE]
  BY <1>1, <1>2 DEF NewContent
<1>4. CASE ~resume
  BY <1>3, <1>4 DEF k
<1>5. CASE resume
  <2> HIDE DEF f
  <2>1. t = AdoptResume(f)
    BY <1>5 DEF f, k
  <2>2. t[c] = IF f[c].skipped \/ f[c].written >= Size[c] THEN f[c]
               ELSE LET plan == PlanResume(taskFile[c], c, taskFile[c].ph \in DOMAIN console)
                    IN [f[c] EXCEPT !.written = plan.written, !.ph = plan.ph]
    BY <2>1 DEF AdoptResume
  <2>3. CASE f[c].skipped \/ f[c].written >= Size[c]
    BY <1>3, <2>2, <2>3, Sizes DEF k
  <2>4. CASE ~(f[c].skipped \/ f[c].written >= Size[c])
    <3>1. f[c] = [written |-> 0, ph |-> NoPlaceholder, skipped |-> FALSE]
      BY <1>3, <2>4, Sizes
    <3> DEFINE plan == PlanResume(taskFile[c], c, taskFile[c].ph \in DOMAIN console)
    <3>2. t[c] = [written |-> plan.written, ph |-> plan.ph, skipped |-> FALSE]
      <4>1. t[c] = [f[c] EXCEPT !.written = plan.written, !.ph = plan.ph]
        BY <2>2, <2>4
      <4> DEFINE w == plan.written
                 p == plan.ph
      <4>2. t[c] = [f[c] EXCEPT !.written = w, !.ph = p]
        BY <4>1
      <4> HIDE DEF w, p
      <4>3. t[c] = [[written |-> 0, ph |-> NoPlaceholder, skipped |-> FALSE]
                      EXCEPT !.written = w, !.ph = p]
        BY <4>2, <3>1
      <4>4. t[c] = [written |-> w, ph |-> p, skipped |-> FALSE]
        BY <4>3
      <4> QED
        BY <4>4 DEF w, p
    <3>3. CASE /\ taskFile[c].ph \in DOMAIN console
               /\ taskFile[c].ph # NoPlaceholder /\ c \notin Compressed
      <4>1. plan.written = Smaller(taskFile[c].written, Size[c]) /\ plan.ph = taskFile[c].ph
        BY <3>3 DEF PlanResume
      <4>2. taskFile # NoFile
        BY <1>5 DEF MayResume
      <4>3. taskFile \in [Content -> [written : Nat, ph : PlaceholderId \cup {NoPlaceholder}]]
        BY <4>2 DEF IInv, Typed, TypeOK
      <4>4. c \in DOMAIN taskFile /\ taskFile[c].written \in Nat
        BY <4>3
      <4>5. taskFile[c].written <= Size[c]
        BY <3>3, <4>4 DEF IInv, TaskFileIsHonest, HoldsPrefix
      <4>6. plan.written = taskFile[c].written
        BY <4>1, <4>4, <4>5, Sizes DEF Smaller
      <4> HIDE DEF plan
      <4> QED
        BY <3>2, <3>3, <4>1, <4>4, <4>6
    <3>4. CASE ~ /\ taskFile[c].ph \in DOMAIN console
                 /\ taskFile[c].ph # NoPlaceholder /\ c \notin Compressed
      <4>1. plan.written = 0 /\ plan.ph = NoPlaceholder
        BY <3>4 DEF PlanResume
      <4> HIDE DEF plan
      <4> QED
        BY <3>2, <4>1
    <3> QED
      BY <3>3, <3>4
  <2> QED
    BY <2>3, <2>4
<1>6. resume \in BOOLEAN
  BY DEF MayResume
<1> QED
  BY <1>4, <1>5, <1>6

LEMMA PrepareRunPreserves == IInv /\ PrepareRun => IInv'
<1> SUFFICES ASSUME IInv, PrepareRun PROVE IInv'
  OBVIOUS
<1>1. /\ run = "none" /\ run' = "confirm"
      /\ UNCHANGED <<recorded, taskFile, mine, kept, modified, flushed, hand, fed, toRegister>>
      /\ UNCHANGED <<reader, at, fetch>>
      /\ UNCHANGED <<slots, items, freeSlots, producing, consuming, finished, stopped, failed>>
  BY DEF PrepareRun, queueVars, readerVars
<1>2. PICK readable \in Readable, resume \in MayResume, registering \in BOOLEAN :
        /\ HasIds(readable)
        /\ ReadOut(MetaId, ControlId(readable), registering)
        /\ task' = IF resume THEN AdoptResume(Prepared(ControlId(readable)))
                             ELSE Prepared(ControlId(readable))
        /\ readPh' = {MetaId, ControlId(readable)} \ {NoPlaceholder}
        /\ metaPh' = MetaId
  BY DEF PrepareRun
<1> DEFINE k == ControlId(readable)
<1>3. /\ MetaId \in FreshIds
      /\ k # NoPlaceholder <=> readable
      /\ readable => k \in FreshIds \ {MetaId} /\ Control \in Content
  BY <1>2, IdsOfPrepare
<1>t. Typed /\ TypeOK /\ RegisteredIsWhole
  BY DEF IInv, Typed
<1>4. /\ MetaId \in PlaceholderId /\ MetaId # NoPlaceholder
      /\ \A c \in DOMAIN taskFile : taskFile[c].ph # MetaId
      /\ k \in AnyId
      /\ readable => \A c \in DOMAIN taskFile : taskFile[c].ph # k
  BY <1>3, <1>t, FreshIsNobodys DEF AnyId
<1>5. /\ DOMAIN console \subseteq DOMAIN console'
      /\ DOMAIN console' \subseteq PlaceholderId
      /\ \A p \in DOMAIN console : console'[p] = console[p]
      /\ \A p \in DOMAIN console' : p \in DOMAIN console \/ p = MetaId \/ p = k
      /\ console' \in [DOMAIN console' -> AnyPlaceholder]
      /\ \A p \in DOMAIN console' :
           console'[p].content \in Content =>
             console'[p].cells \in [1 .. Size[console'[p].content] -> Nat]
      /\ MetaId \in DOMAIN console' =>
           console'[MetaId] = [content |-> Meta, cells |-> WholeMeta]
      /\ MetaId \in DOMAIN console' \/ Meta \in DOMAIN registered'
      /\ k # NoPlaceholder =>
           k \in DOMAIN console' /\ console'[k] = [content |-> Control, cells |-> Whole(Control)]
      /\ DOMAIN registered \subseteq DOMAIN registered'
      /\ DOMAIN registered' \subseteq Content \cup {Meta}
      /\ RegisteredIsWhole'
  <2>1. k \in (FreshIds \ {MetaId}) \cup {NoPlaceholder}
    BY <1>3
  <2> HIDE DEF k
  <2>2. ReadOut(MetaId, k, registering) /\ recorded' = recorded
    BY <1>1, <1>2 DEF k
  <2> QED
    BY <1>3, <1>t, <2>1, <2>2, ReadOutProperties
<1> HIDE DEF k
(* Every content of the task is in one of four states. *)
<1>6. \A c \in Content :
         \/ /\ c = Control /\ readable /\ ~task'[c].skipped
            /\ task'[c].written = Size[c] /\ task'[c].ph = k
         \/ /\ task'[c].skipped /\ c \in DOMAIN registered
            /\ task'[c].written = Size[c] /\ task'[c].ph = NoPlaceholder
         \/ ~task'[c].skipped /\ task'[c].written = 0 /\ task'[c].ph = NoPlaceholder
         \/ /\ ~task'[c].skipped /\ c \notin Compressed
            /\ c \in DOMAIN taskFile /\ task'[c].ph = taskFile[c].ph
            /\ task'[c].ph \in DOMAIN console /\ task'[c].written = taskFile[c].written
  BY <1>2, PreparedContents DEF k
<1>7. task' \in [Content -> [written : Nat, ph : AnyId, skipped : BOOLEAN]]
  <2> DEFINE f == Prepared(k)
  <2>1. f \in [Content -> [written : Nat, ph : AnyId, skipped : BOOLEAN]]
    BY <1>4, Sizes DEF Prepared, NewContent, AnyId
  <2>2. CASE ~resume
    BY <1>2, <2>1, <2>2 DEF k
  <2>3. CASE resume
    <3> HIDE DEF f
    <3>1. task' = AdoptResume(f)
      BY <1>2, <2>3 DEF f, k
    <3>2. taskFile \in [Content -> [written : Nat, ph : AnyId]]
      BY <1>t, <2>3 DEF MayResume, TypeOK, AnyId
    <3>3. \A c \in Content :
            LET plan == PlanResume(taskFile[c], c, taskFile[c].ph \in DOMAIN console)
            IN plan.written \in Nat /\ plan.ph \in AnyId
      BY <3>2, Sizes DEF PlanResume, Smaller, AnyId
    <3> QED
      BY <2>1, <3>1, <3>3 DEF AdoptResume
  <2>4. resume \in BOOLEAN
    BY DEF MayResume
  <2> QED
    BY <2>2, <2>3, <2>4
<1>8. TypeOK'
  <2>1. readPh' \subseteq PlaceholderId
    BY <1>2, <1>4 DEF AnyId, k
  <2>2. \A p \in DOMAIN console' : console'[p].content \in Content \cup {Meta}
    BY <1>5 DEF AnyPlaceholder
  <2> QED
    BY <1>1, <1>5, <1>7, <1>t, <2>1, <2>2 DEF TypeOK, AnyId
<1>9. Typed'
  BY <1>1, <1>2, <1>4, <1>5, <1>8, <1>t DEF Typed, AnyId
<1>10. TaskFileIsHonest'
  <2> SUFFICES ASSUME NEW c \in DOMAIN taskFile, taskFile[c].ph \in DOMAIN console'
               PROVE  HoldsPrefix(taskFile[c].ph, c, taskFile[c].written)'
    BY <1>1 DEF TaskFileIsHonest
  <2>1. taskFile[c].ph \in DOMAIN console
    BY <1>3, <1>4, <1>5, <1>t, Nobody DEF TypeOK
  <2>2. HoldsPrefix(taskFile[c].ph, c, taskFile[c].written)
    BY <2>1 DEF IInv, TaskFileIsHonest
  <2> QED
    BY <1>1, <1>5, <2>1, <2>2 DEF HoldsPrefix
<1>11. InPlace'
  <2> SUFFICES ASSUME NEW c \in Content, task'[c].ph \in DOMAIN console'
               PROVE  HoldsPrefix(task[c].ph, c, task[c].written)'
    BY <1>2, <1>5 DEF InPlace
  <2>1. task'[c].ph # NoPlaceholder
    BY <1>5, Nobody
  <2>2. CASE c = Control /\ readable /\ task'[c].written = Size[c] /\ task'[c].ph = k
    <3>1. console'[k] = [content |-> c, cells |-> Whole(c)]
      BY <1>3, <1>5, <2>2
    <3>2. \A i \in 1 .. Size[c] : Whole(c)[i] = i
      BY DEF Whole
    <3> QED
      BY <2>2, <3>1, <3>2, Sizes DEF HoldsPrefix
  <2>3. CASE /\ c \in DOMAIN taskFile /\ task'[c].ph = taskFile[c].ph
             /\ task'[c].ph \in DOMAIN console /\ task'[c].written = taskFile[c].written
    <3>1. HoldsPrefix(taskFile[c].ph, c, taskFile[c].written)
      BY <2>3 DEF IInv, TaskFileIsHonest
    <3> QED
      BY <1>5, <2>3, <3>1 DEF HoldsPrefix
  <2> QED
    BY <1>6, <2>1, <2>2, <2>3
<1>12. Grounded'
  BY <1>1 DEF IInv, Grounded
<1>13. Planned'
  <2>1. \A c \in Content :
          task'[c].skipped => c \in DOMAIN registered' /\ task'[c].ph = NoPlaceholder
    BY <1>5, <1>6
  <2>2. \A c \in Content :
          ~task'[c].skipped /\ task'[c].written >= Size[c] => task'[c].ph \in DOMAIN console'
    BY <1>3, <1>5, <1>6, Sizes
  <2>3. \A c \in Content :
          ~task'[c].skipped /\ task'[c].written < Size[c] /\ c \in Compressed
            => task'[c].written = 0
    BY <1>6, Sizes
  <2>4. metaPh' \in DOMAIN console' \/ Meta \in DOMAIN registered'
    BY <1>2, <1>5
  <2>5. metaPh' \in readPh'
    BY <1>2, <1>4
  <2> QED
    BY <1>1, <2>1, <2>2, <2>3, <2>4, <2>5 DEF Planned, Needing
<1>14. OneOwner' /\ Buffers'
  <2>1. OneOwner'
    BY <1>1 DEF IInv, OneOwner
  <2>2. Buffers'
    BY <1>1 DEF IInv, Buffers, PieceDue, NextPiece, HeaderDue
  <2> QED
    BY <2>1, <2>2
<1>15. Flight' /\ Cursors' /\ Registering'
  BY <1>1 DEF Flight, Cursors, Registering
<1> QED
  BY <1>5, <1>9, <1>10, <1>11, <1>12, <1>13, <1>14, <1>15 DEF IInv

LEMMA BeginCreatesPreserves == IInv /\ BeginCreates => IInv'
<1> SUFFICES ASSUME IInv, BeginCreates PROVE IInv'
  OBVIOUS
<1> DEFINE n == NewId
           ids == {n[c] : c \in Missing}
           created == [p \in ids |-> CHOOSE c \in Missing : n[c] = p]
<1>1. /\ run = "confirm" /\ run' = "begun" /\ NewIds # {}
      /\ UNCHANGED <<registered, recorded, taskFile, readPh, metaPh, kept, modified, flushed,
                     hand, fed, toRegister>>
      /\ UNCHANGED <<reader, at, fetch>>
      /\ UNCHANGED <<slots, items, freeSlots, producing, consuming, finished, stopped, failed>>
  BY DEF BeginCreates, queueVars, readerVars
<1>2. /\ console' = [p \in DOMAIN console \cup ids |->
                       IF p \in ids
                         THEN [content |-> created[p], cells |-> Unwritten(created[p])]
                         ELSE console[p]]
      /\ mine' = {task[c].ph : c \in Adopted} \cup ids
      /\ task' = [c \in Content |->
                    IF c \in Missing THEN [task[c] EXCEPT !.written = 0, !.ph = n[c]]
                                     ELSE task[c]]
  BY DEF BeginCreates
<1>t. Typed /\ TypeOK
  BY DEF IInv, Typed
<1>3. /\ n \in [Missing -> FreshIds]
      /\ \A a, b \in Missing : n[a] = n[b] => a = b
  <2>1. n \in NewIds
    BY <1>1 DEF NewId
  <2> QED
    BY <2>1 DEF NewIds, Injection, IsInjective
<1> HIDE DEF n
<1>4. /\ \A c \in Missing : c \in Content /\ n[c] \in ids
      /\ \A c \in Missing : created[n[c]] = c
      /\ \A p \in ids : \E c \in Missing : p = n[c]
  <2>1. \A c \in Missing : (CHOOSE d \in Missing : n[d] = n[c]) = c
    BY <1>3
  <2> QED
    BY <2>1 DEF Missing, Needing
<1> HIDE DEF created, ids
<1>5. \A p \in ids :
        /\ p \in PlaceholderId /\ p \notin DOMAIN console /\ p \notin readPh
        /\ \A c \in Content : task[c].ph # p
        /\ \A c \in DOMAIN taskFile : taskFile[c].ph # p
  BY <1>3, <1>4, <1>t, FreshIsNobodys
<1>6. \A c \in Missing :
        /\ n[c] \in DOMAIN console'
        /\ console'[n[c]] = [content |-> c, cells |-> Unwritten(c)]
        /\ task'[c] \in [written : Nat, ph : AnyId, skipped : BOOLEAN]
        /\ ~task'[c].skipped /\ task'[c].written = 0 /\ task'[c].ph = n[c]
  <2> SUFFICES ASSUME NEW c \in Missing
               PROVE  /\ n[c] \in DOMAIN console'
                      /\ console'[n[c]] = [content |-> c, cells |-> Unwritten(c)]
                      /\ task'[c] \in [written : Nat, ph : AnyId, skipped : BOOLEAN]
                      /\ ~task'[c].skipped /\ task'[c].written = 0 /\ task'[c].ph = n[c]
    OBVIOUS
  <2>1. n[c] \in DOMAIN console' /\ console'[n[c]] = [content |-> c, cells |-> Unwritten(c)]
    BY <1>2, <1>4
  <2>2. task[c] \in [written : Nat, ph : AnyId, skipped : BOOLEAN] /\ ~task[c].skipped
    BY <1>4, <1>t DEF TypeOK, AnyId, Missing, Needing
  <2>3. task'[c] = [task[c] EXCEPT !.written = 0, !.ph = n[c]]
    BY <1>2, <1>4
  <2>4. n[c] \in AnyId
    BY <1>4, <1>5 DEF AnyId
  <2>5. /\ task'[c] \in [written : Nat, ph : AnyId, skipped : BOOLEAN]
        /\ ~task'[c].skipped /\ task'[c].written = 0 /\ task'[c].ph = n[c]
    <3>1. task'[c] = [written |-> 0, ph |-> n[c], skipped |-> FALSE]
      BY <2>2, <2>3
    <3> QED
      BY <3>1, <2>4
  <2> QED
    BY <2>1, <2>5
<1>7. \A c \in Content \ Missing : task'[c] = task[c]
  BY <1>2
<1>8. /\ DOMAIN console' = DOMAIN console \cup ids
      /\ \A p \in DOMAIN console : console'[p] = console[p]
  BY <1>2, <1>5
<1>9. \A p \in DOMAIN console' :
        /\ p \in PlaceholderId
        /\ console'[p] \in AnyPlaceholder
        /\ console'[p].content \in Content =>
             console'[p].cells \in [1 .. Size[console'[p].content] -> Nat]
  <2> SUFFICES ASSUME NEW p \in DOMAIN console'
               PROVE  /\ p \in PlaceholderId
                      /\ console'[p] \in AnyPlaceholder
                      /\ console'[p].content \in Content =>
                           console'[p].cells \in [1 .. Size[console'[p].content] -> Nat]
    OBVIOUS
  <2>1. CASE p \in DOMAIN console
    BY <2>1, <1>8, <1>t DEF Typed, TypeOK
  <2>2. CASE p \in ids
    <3>1. PICK c \in Missing : p = n[c]
      BY <2>2, <1>4
    <3>2. console'[p] = [content |-> c, cells |-> Unwritten(c)] /\ c \in Content
      BY <3>1, <1>4, <1>6
    <3> QED
      BY <2>2, <3>2, <1>5, WholeIsTyped DEF AnyPlaceholder
  <2> QED
    BY <2>1, <2>2, <1>8
<1>10. Typed'
  <2>1. console' \in [DOMAIN console' -> AnyPlaceholder]
    BY <1>2, <1>8, <1>9
  <2>2. task' \in [Content -> [written : Nat, ph : AnyId, skipped : BOOLEAN]]
    <3>1. \A c \in Content : task'[c] \in [written : Nat, ph : AnyId, skipped : BOOLEAN]
      <4>1. \A c \in Content : task[c] \in [written : Nat, ph : AnyId, skipped : BOOLEAN]
        BY <1>t DEF TypeOK, AnyId
      <4> QED
        BY <4>1, <1>6, <1>7
    <3> QED
      BY <3>1, <1>2
  <2>3. mine' \subseteq PlaceholderId
    <3>1. \A c \in Adopted : task[c].ph \in PlaceholderId
      BY <1>t DEF Adopted, TypeOK
    <3> QED
      BY <1>2, <1>5, <3>1
  <2>4. TypeOK'
    <3>1. /\ DOMAIN console' \subseteq PlaceholderId
          /\ \A p \in DOMAIN console' :
               /\ console'[p].content \in Content \cup {Meta}
               /\ console'[p].content \in Content =>
                    console'[p].cells \in [1 .. Size[console'[p].content] -> Nat]
      BY <1>9 DEF AnyPlaceholder
    <3> QED
      BY <1>1, <1>t, <2>2, <2>3, <3>1 DEF TypeOK, AnyId
  <2> QED
    BY <1>1, <1>t, <2>1, <2>4 DEF Typed
<1>11. RegisteredIsWhole'
  BY <1>1 DEF IInv, RegisteredIsWhole
<1>12. TaskFileIsHonest'
  <2> SUFFICES ASSUME NEW c \in DOMAIN taskFile, taskFile[c].ph \in DOMAIN console'
               PROVE  HoldsPrefix(taskFile[c].ph, c, taskFile[c].written)'
    BY <1>1 DEF TaskFileIsHonest
  <2>1. taskFile[c].ph \in DOMAIN console
    BY <1>5, <1>8
  <2>2. HoldsPrefix(taskFile[c].ph, c, taskFile[c].written)
    BY <2>1 DEF IInv, TaskFileIsHonest
  <2> QED
    BY <1>1, <1>8, <2>1, <2>2 DEF HoldsPrefix
<1>13. InPlace'
  <2>1. metaPh' \in DOMAIN console' =>
          console'[metaPh'] = [content |-> Meta, cells |-> WholeMeta]
    <3>1. metaPh \in readPh
      BY <1>1 DEF IInv, Planned
    <3>2. metaPh \notin ids
      BY <3>1, <1>5
    <3> QED
      BY <1>1, <1>8, <3>2 DEF IInv, InPlace
  <2>2. ASSUME NEW c \in Content, task'[c].ph \in DOMAIN console'
        PROVE  HoldsPrefix(task[c].ph, c, task[c].written)'
    <3>1. CASE c \in Missing
      <4>1. task'[c].written = 0 /\ task'[c].ph = n[c]
        BY <3>1, <1>6
      <4>2. console'[n[c]] = [content |-> c, cells |-> Unwritten(c)]
        BY <3>1, <1>6
      <4>3. console'[n[c]].content = c
        BY <4>2
      <4> QED
        BY <4>1, <4>3, Sizes DEF HoldsPrefix
    <3>2. CASE c \notin Missing
      <4>1. task'[c] = task[c]
        BY <3>2, <1>7
      <4>2. task[c].ph \in DOMAIN console
        BY <2>2, <4>1, <1>5, <1>8
      <4>3. HoldsPrefix(task[c].ph, c, task[c].written)
        BY <4>2 DEF IInv, InPlace
      <4> QED
        BY <1>8, <4>1, <4>2, <4>3 DEF HoldsPrefix
    <3> QED
      BY <3>1, <3>2
  <2> QED
    BY <2>1, <2>2 DEF InPlace
<1>14. Grounded'
  BY <1>1 DEF IInv, Grounded
<1>15. Planned'
  <2>a. \A c \in Missing : ~task[c].skipped /\ task[c].written < Size[c]
    BY DEF Missing, Needing
  <2>1. \A c \in Content :
          task'[c].skipped => c \in DOMAIN registered' /\ task'[c].ph = NoPlaceholder
    BY <1>1, <1>6, <1>7 DEF IInv, Planned
  <2>2. metaPh' \in DOMAIN console' \/ Meta \in DOMAIN registered'
    BY <1>1, <1>8 DEF IInv, Planned
  <2>3. \A c \in Content : ~task'[c].skipped => task'[c].ph \in DOMAIN console'
    <3> SUFFICES ASSUME NEW c \in Content, ~task'[c].skipped, c \notin Missing
                 PROVE  task[c].ph \in DOMAIN console
      BY <1>6, <1>7, <1>8
    <3>1. CASE task[c].written >= Size[c]
      BY <3>1, <1>1, <1>7 DEF IInv, Planned
    <3>2. CASE ~(task[c].written >= Size[c])
      <4>1. task[c].written < Size[c]
        BY <3>2, <1>t, Sizes DEF TypeOK
      <4>2. c \in Needing
        BY <4>1, <1>7 DEF Needing
      <4> QED
        BY <4>2 DEF Missing, Adopted
    <3> QED
      BY <3>1, <3>2
  <2>4. \A c \in Content :
          ~task'[c].skipped /\ task'[c].written < Size[c] => task'[c].ph \in mine'
    <3> SUFFICES ASSUME NEW c \in Content, ~task'[c].skipped, task'[c].written < Size[c]
                 PROVE  task'[c].ph \in mine'
      OBVIOUS
    <3>1. CASE c \in Missing
      <4>1. task'[c].ph = n[c]
        BY <3>1, <1>6
      <4>2. n[c] \in mine'
        BY <3>1, <1>2, <1>4
      <4> QED
        BY <4>1, <4>2
    <3>2. CASE c \notin Missing
      <4>1. c \in Adopted
        BY <3>2, <1>7 DEF Missing, Needing
      <4> QED
        BY <3>2, <4>1, <1>2, <1>7
    <3> QED
      BY <3>1, <3>2
  <2>5. \A c \in Compressed : task'[c].ph \in mine' => task'[c].written = 0
    <3> SUFFICES ASSUME NEW c \in Compressed, task'[c].ph \in mine', c \notin Missing
                 PROVE  task[c].written = 0
      BY <1>6, <1>7 DEF Compressed
    <3>0. c \in Content /\ task'[c] = task[c]
      BY <1>7 DEF Compressed
    <3>1. PICK b \in Adopted : task[c].ph = task[b].ph
      BY <3>0, <1>2, <1>5
    <3>2. b \in Content /\ task[b].ph \in DOMAIN console
      BY DEF Adopted, Needing
    <3>3. console[task[b].ph].content = b /\ console[task[c].ph].content = c
      BY <3>0, <3>1, <3>2 DEF IInv, InPlace, HoldsPrefix
    <3>4. c \in Needing
      BY <3>1, <3>3 DEF Adopted
    <3> QED
      BY <3>0, <3>4, <1>1 DEF IInv, Planned
  <2> QED
    BY <1>1, <2>1, <2>2, <2>3, <2>4, <2>5 DEF Planned, Needing
<1>16. OneOwner' /\ Buffers'
  <2>1. OneOwner'
    BY <1>1 DEF IInv, OneOwner
  <2>2. Buffers'
    BY <1>1 DEF IInv, Buffers, PieceDue, NextPiece, HeaderDue
  <2> QED
    BY <2>1, <2>2
<1>17. Flight' /\ Cursors' /\ Registering'
  BY <1>1 DEF Flight, Cursors, Registering
<1> QED
  BY <1>10, <1>11, <1>12, <1>13, <1>14, <1>15, <1>16, <1>17 DEF IInv

(* The transfer starts with the two cursors of every content together. *)
LEMMA BeginStartsPreserves == IInv /\ BeginStarts => IInv'
<1> SUFFICES ASSUME IInv, BeginStarts PROVE IInv'
  OBVIOUS
<1>1. /\ run = "begun" /\ run' = "transfer" /\ reader' = "choosing" /\ at' = 1
      /\ fetch' = [c \in Content |-> [headerSent |-> FALSE,
                                      streamRead |-> InitialStreamRead(task, c)]]
      /\ UNCHANGED <<console, registered, recorded, task, mine, readPh, metaPh, modified,
                     hand, fed, toRegister>>
      /\ UNCHANGED <<slots, items, freeSlots, producing, consuming, finished, stopped, failed>>
  BY DEF BeginStarts, queueVars
<1>2. PICK saved \in BOOLEAN :
        taskFile' = (IF saved THEN DumpTask(task) ELSE taskFile) /\ kept' = saved
  BY DEF BeginStarts
<1>t. Typed /\ TypeOK
  BY DEF IInv, Typed
<1>3. /\ items = <<>> /\ hand = Torn /\ ~finished /\ \A c \in Content : fed[c] = 0
  BY <1>1 DEF IInv, Grounded
<1>4. \A c \in Content :
        /\ task[c].written \in Nat /\ task[c].ph \in AnyId /\ task[c].skipped \in BOOLEAN
        /\ task[c].ph \in mine =>
             task[c].written <= Size[c] /\ (c \in Compressed => task[c].written = 0)
  <2> SUFFICES ASSUME NEW c \in Content
               PROVE  /\ task[c].written \in Nat /\ task[c].ph \in AnyId
                      /\ task[c].skipped \in BOOLEAN
                      /\ task[c].ph \in mine =>
                           task[c].written <= Size[c] /\ (c \in Compressed => task[c].written = 0)
    OBVIOUS
  <2>1. /\ task[c].written \in Nat /\ task[c].ph \in AnyId /\ task[c].skipped \in BOOLEAN
        /\ NoPlaceholder \notin mine
    BY <1>t, Nobody DEF TypeOK, AnyId
  <2>2. ASSUME task[c].ph \in mine
        PROVE  task[c].written <= Size[c]
    <3>1. ~task[c].skipped
      BY <1>1, <2>1, <2>2 DEF IInv, Planned
    <3>2. task[c].ph \in DOMAIN console
      BY <1>1, <3>1 DEF IInv, Planned
    <3> QED
      BY <3>2 DEF IInv, InPlace, HoldsPrefix
  <2>3. c \in Compressed /\ task[c].ph \in mine => task[c].written = 0
    BY <1>1 DEF IInv, Planned
  <2> QED
    BY <2>1, <2>2, <2>3
<1>5. \A c \in Content :
        /\ fetch'[c] = [headerSent |-> FALSE, streamRead |-> InitialStreamRead(task, c)]
        /\ fetch'[c].headerSent = FALSE
        /\ fetch'[c].streamRead = InitialStreamRead(task, c)
        /\ InitialStreamRead(task, c) \in Nat /\ InitialStreamRead(task, c) <= Size[c]
        /\ c \in Compressed => InitialStreamRead(task, c) = 0
        /\ c \notin Compressed /\ task[c].ph \in mine =>
             InitialStreamRead(task, c) = task[c].written
  BY <1>1, <1>4, Sizes DEF InitialStreamRead, Smaller
<1>6. TypeOK'
  <2>1. DumpTask(task) \in [Content -> [written : Nat, ph : PlaceholderId \cup {NoPlaceholder}]]
    BY <1>4 DEF DumpTask, AnyId
  <2>2. 1 \in 1 .. NumContents + 1
    BY ContentsAssumption
  <2> QED
    BY <1>1, <1>2, <1>t, <2>1, <2>2 DEF TypeOK
<1>7. Typed'
  <2>1. fetch' \in [Content -> [headerSent : BOOLEAN, streamRead : Nat]]
    BY <1>1, <1>5
  <2> QED
    BY <1>1, <1>6, <1>t, <2>1 DEF Typed
<1>8. RegisteredIsWhole'
  BY <1>1 DEF IInv, RegisteredIsWhole
<1>9. TaskFileIsHonest'
  <2> SUFFICES ASSUME NEW c \in DOMAIN taskFile', taskFile'[c].ph \in DOMAIN console
               PROVE  HoldsPrefix(taskFile'[c].ph, c, taskFile'[c].written)
    BY <1>1 DEF TaskFileIsHonest, HoldsPrefix
  <2>1. CASE saved
    BY <1>2, <2>1 DEF IInv, InPlace, DumpTask
  <2>2. CASE ~saved
    BY <1>2, <2>2 DEF IInv, TaskFileIsHonest
  <2> QED
    BY <2>1, <2>2
<1>10. InPlace'
  BY <1>1 DEF IInv, InPlace, HoldsPrefix
<1>11. Grounded' /\ Registering'
  BY <1>1 DEF Grounded, Registering
<1>12. Planned'
  BY <1>1 DEF IInv, Planned, Needing
<1>13. OneOwner' /\ Buffers'
  <2>1. OneOwner'
    BY <1>1 DEF IInv, OneOwner
  <2>2. Buffers'
    BY <1>1, <1>3 DEF IInv, Buffers, Grounded
  <2> QED
    BY <2>1, <2>2
<1>14. \A c \in Content :
         /\ Sent(c)' = Arrived(c)' /\ Sent(c)' \in Nat /\ Sent(c)' <= Units(c)
  <2> SUFFICES ASSUME NEW c \in Content
               PROVE  Sent(c)' = Arrived(c)' /\ Sent(c)' \in Nat /\ Sent(c)' <= Units(c)
    OBVIOUS
  <2>1. CASE c \in Compressed
    BY <1>1, <1>4, <1>5, <2>1, Sizes DEF Sent, Arrived
  <2>2. CASE c \notin Compressed
    BY <1>1, <1>4, <1>5, <2>2, Sizes DEF Sent, Arrived, Units
  <2> QED
    BY <2>1, <2>2
<1>15. Flight'
  <2>1. Len(items') = 0 /\ InFlight' = {}
    BY <1>1, <1>3 DEF InFlight, Queued
  <2>2. \A c \in Content : \A u \in Arrived(c)' .. Sent(c)' - 1 : FALSE
    BY <1>14
  <2> QED
    BY <1>1, <1>3, <2>1, <2>2 DEF Flight
<1>16. Cursors'
  <2>1. \A c \in Content :
          /\ (Arrived(c) <= Sent(c) /\ Sent(c) <= Units(c))'
          /\ c \in Compressed => fetch'[c].streamRead = 0
          /\ ~(c < at')
          /\ c \in Compressed /\ task'[c].ph \in mine' => task'[c].written = 0 /\ fed'[c] = 0
    BY <1>1, <1>3, <1>4, <1>5, <1>14 DEF Content, Units
  <2> QED
    BY <1>1, <1>3, <1>14, <2>1 DEF Cursors
<1> QED
  BY <1>7, <1>8, <1>9, <1>10, <1>11, <1>12, <1>13, <1>15, <1>16 DEF IInv

-----------------------------------------------------------------------------
(* The fetch thread. *)

(* It touches neither the console nor anything of the writer's. *)
LEMMA ReaderKeeps ==
  ASSUME IInv, UNCHANGED <<consoleVars, writerVars>>, reader # "off"
  PROVE  /\ UNCHANGED <<console, registered, recorded, taskFile>>
         /\ UNCHANGED <<run, task, mine, readPh, metaPh, kept, modified, flushed, hand, fed,
                        toRegister>>
         /\ RegisteredIsWhole' /\ TaskFileIsHonest' /\ InPlace' /\ Grounded' /\ Planned'
         /\ Registering'
<1>1. /\ UNCHANGED <<console, registered, recorded, taskFile>>
      /\ UNCHANGED <<run, task, mine, readPh, metaPh, kept, modified, flushed, hand, fed,
                     toRegister>>
  BY DEF consoleVars, writerVars
<1>2. RegisteredIsWhole' /\ TaskFileIsHonest' /\ InPlace'
  BY <1>1 DEF IInv, RegisteredIsWhole, TaskFileIsHonest, InPlace, HoldsPrefix
<1>3. Grounded'
  BY <1>1 DEF IInv, Grounded
<1>4. Planned'
  BY <1>1 DEF IInv, Planned, Needing
<1>5. Registering'
  BY <1>1 DEF IInv, Registering, TransferComplete, PlaceholderOf
<1> QED
  BY <1>1, <1>2, <1>3, <1>4, <1>5

(* The two cursors of a content, read off the state. *)
LEMMA CursorTypes ==
  ASSUME Typed, NEW c \in Content
  PROVE  /\ Sent(c) \in Nat /\ Arrived(c) \in Nat
         /\ task[c].written \in Nat /\ task[c].ph \in AnyId /\ task[c].skipped \in BOOLEAN
         /\ fetch[c].streamRead \in Nat /\ fetch[c].headerSent \in BOOLEAN /\ fed[c] \in Nat
<1>1. /\ task[c].written \in Nat /\ task[c].ph \in AnyId /\ task[c].skipped \in BOOLEAN
      /\ fetch[c].streamRead \in Nat /\ fetch[c].headerSent \in BOOLEAN /\ fed[c] \in Nat
  BY DEF Typed, TypeOK, AnyId
<1> QED
  BY <1>1 DEF Sent, Arrived

(* Where neither a piece nor a cursor moves, the flight is as it was. *)
LEMMA FlightStays ==
  ASSUME IInv, UNCHANGED <<run, task, mine, hand, fed, fetch, items>>
  PROVE  /\ Flight'
         /\ \A c \in Content : Sent(c)' = Sent(c) /\ Arrived(c)' = Arrived(c)
         /\ run = "transfer" =>
              \A c \in Content :
                /\ (Arrived(c) <= Sent(c) /\ Sent(c) <= Units(c))'
                /\ c \in Compressed /\ ~fetch'[c].headerSent => fetch'[c].streamRead = 0
                /\ c \in Compressed /\ task'[c].ph \in mine' =>
                     /\ task'[c].written = 0 => fed'[c] = 0
                     /\ task'[c].written # 0 => task'[c].written = DecodedTo(c, fed'[c])
<1>1. Flight'
  BY DEF IInv, Flight, InFlight, Queued, Sent, Arrived
<1>2. \A c \in Content : Sent(c)' = Sent(c) /\ Arrived(c)' = Arrived(c)
  BY DEF Sent, Arrived
<1>3. run = "transfer" =>
        \A c \in Content :
          /\ (Arrived(c) <= Sent(c) /\ Sent(c) <= Units(c))'
          /\ c \in Compressed /\ ~fetch'[c].headerSent => fetch'[c].streamRead = 0
          /\ c \in Compressed /\ task'[c].ph \in mine' =>
               /\ task'[c].written = 0 => fed'[c] = 0
               /\ task'[c].written # 0 => task'[c].written = DecodedTo(c, fed'[c])
  BY <1>2 DEF IInv, Cursors, Units
<1> QED
  BY <1>1, <1>2, <1>3

LEMMA ReaderSkipsPreserves == IInv /\ ReaderSkips => IInv'
<1> SUFFICES ASSUME IInv, ReaderSkips PROVE IInv'
  OBVIOUS
<1>1. /\ reader = "choosing" /\ at <= NumContents /\ at' = at + 1
      /\ task[at].skipped \/ task[at].written >= Size[at]
      /\ UNCHANGED <<reader, fetch>>
      /\ UNCHANGED <<slots, items, freeSlots, producing, consuming, finished, stopped, failed>>
      /\ UNCHANGED <<consoleVars, writerVars>> /\ reader # "off"
  BY DEF ReaderSkips, queueVars
<1>2. /\ UNCHANGED <<console, registered, recorded, taskFile>>
      /\ UNCHANGED <<run, task, mine, readPh, metaPh, kept, modified, flushed, hand, fed,
                     toRegister>>
      /\ RegisteredIsWhole' /\ TaskFileIsHonest' /\ InPlace' /\ Grounded' /\ Planned'
      /\ Registering'
  BY <1>1, ReaderKeeps
<1>t. Typed /\ TypeOK
  BY DEF IInv, Typed
<1>3. at \in Nat /\ at' \in 1 .. NumContents + 1 /\ NumContents \in Nat
  BY <1>1, <1>t, ContentsAssumption DEF TypeOK
<1>4. Typed'
  <2>1. TypeOK'
    BY <1>1, <1>2, <1>3, <1>t DEF TypeOK
  <2> QED
    BY <1>1, <1>2, <1>t, <2>1 DEF Typed
<1>5. OneOwner' /\ Buffers'
  <2>1. OneOwner'
    BY <1>1 DEF IInv, OneOwner
  <2>2. Buffers'
    BY <1>1, <1>2 DEF IInv, Buffers
  <2> QED
    BY <2>1, <2>2
<1>6. Flight'
  BY <1>1, <1>2, FlightStays
<1>7. \A c \in Content : Sent(c)' = Sent(c) /\ Arrived(c)' = Arrived(c)
  BY <1>1, <1>2, FlightStays
<1>8. Cursors'
  <2> SUFFICES ASSUME run = "transfer" PROVE Cursors'
    BY <1>2 DEF Cursors
  <2>1. \A c \in Content :
          /\ c > at' \/ (c = at' /\ reader' = "choosing") => c > at
          /\ c < at' => c < at \/ c = at
    BY <1>1, <1>3 DEF Content
  <2>2. \A c \in Content :
          /\ c > at' \/ (c = at' /\ reader' = "choosing") => Sent(c)' = Arrived(c)'
          /\ c < at' => (task[c].skipped \/ task[c].written >= Size[c] \/ Sent(c) = Units(c))'
    BY <1>1, <1>2, <1>7, <2>1 DEF IInv, Cursors
  <2>3. \A c \in Content :
         /\ (Arrived(c) <= Sent(c) /\ Sent(c) <= Units(c))'
         /\ c \in Compressed /\ ~fetch'[c].headerSent => fetch'[c].streamRead = 0
         /\ c \in Compressed /\ task'[c].ph \in mine' =>
              /\ task'[c].written = 0 => fed'[c] = 0
              /\ task'[c].written # 0 => task'[c].written = DecodedTo(c, fed'[c])
    BY <1>1, <1>2, FlightStays
  <2>4. finished' => at' > NumContents
    BY <1>1, <1>3 DEF IInv, Cursors
  <2> QED
    BY <1>1, <2>2, <2>3, <2>4 DEF Cursors
<1> QED
  BY <1>2, <1>4, <1>5, <1>6, <1>8 DEF IInv

LEMMA ReaderEntersPreserves == IInv /\ ReaderEnters => IInv'
<1> SUFFICES ASSUME IInv, ReaderEnters PROVE IInv'
  OBVIOUS
<1>1. /\ reader = "choosing" /\ at <= NumContents /\ reader' = "reading"
      /\ ~task[at].skipped /\ task[at].written < Size[at]
      /\ UNCHANGED <<at, fetch>>
      /\ UNCHANGED <<slots, items, freeSlots, producing, consuming, finished, stopped, failed>>
      /\ UNCHANGED <<consoleVars, writerVars>> /\ reader # "off"
  BY DEF ReaderEnters, queueVars
<1>2. /\ UNCHANGED <<console, registered, recorded, taskFile>>
      /\ UNCHANGED <<run, task, mine, readPh, metaPh, kept, modified, flushed, hand, fed,
                     toRegister>>
      /\ RegisteredIsWhole' /\ TaskFileIsHonest' /\ InPlace' /\ Grounded' /\ Planned'
      /\ Registering'
  BY <1>1, ReaderKeeps
<1>t. Typed /\ TypeOK
  BY DEF IInv, Typed
<1>3. at \in Content
  BY <1>1, <1>t, ContentsAssumption DEF TypeOK, Content
<1>4. Typed'
  <2>1. TypeOK'
    BY <1>1, <1>2, <1>t DEF TypeOK
  <2> QED
    BY <1>1, <1>2, <1>3, <1>t, <2>1 DEF Typed
<1>5. OneOwner' /\ Buffers'
  <2>1. OneOwner'
    BY <1>1 DEF IInv, OneOwner
  <2>2. Buffers'
    BY <1>1, <1>2 DEF IInv, Buffers
  <2> QED
    BY <2>1, <2>2
<1>6. Flight' /\ \A c \in Content : Sent(c)' = Sent(c) /\ Arrived(c)' = Arrived(c)
  BY <1>1, <1>2, FlightStays
<1>7. Cursors'
  <2> SUFFICES ASSUME run = "transfer" PROVE Cursors'
    BY <1>2 DEF Cursors
  <2>1. \A c \in Content :
          /\ c > at' \/ (c = at' /\ reader' = "choosing") => Sent(c)' = Arrived(c)'
          /\ c < at' => (task[c].skipped \/ task[c].written >= Size[c] \/ Sent(c) = Units(c))'
    BY <1>1, <1>2, <1>6 DEF IInv, Cursors
  <2>2. task'[at'].ph \in mine'
    BY <1>1, <1>2, <1>3 DEF IInv, Planned, Needing
  <2>3. finished' => at' > NumContents
    BY <1>1 DEF IInv, Cursors
  <2>4. \A c \in Content :
         /\ (Arrived(c) <= Sent(c) /\ Sent(c) <= Units(c))'
         /\ c \in Compressed /\ ~fetch'[c].headerSent => fetch'[c].streamRead = 0
         /\ c \in Compressed /\ task'[c].ph \in mine' =>
              /\ task'[c].written = 0 => fed'[c] = 0
              /\ task'[c].written # 0 => task'[c].written = DecodedTo(c, fed'[c])
    BY <1>1, <1>2, FlightStays
  <2> QED
    BY <2>1, <2>2, <2>3, <2>4 DEF Cursors
<1> QED
  BY <1>2, <1>4, <1>5, <1>6, <1>7 DEF IInv

(* A content is left when its stream is at its end: every piece is sent. *)
LEMMA ReaderLeavesPreserves == IInv /\ ReaderLeaves => IInv'
<1> SUFFICES ASSUME IInv, ReaderLeaves PROVE IInv'
  OBVIOUS
<1>1. /\ reader = "reading" /\ ~PieceDue /\ at' = at + 1 /\ reader' = "choosing"
      /\ UNCHANGED fetch
      /\ UNCHANGED <<slots, items, freeSlots, producing, consuming, finished, stopped, failed>>
      /\ UNCHANGED <<consoleVars, writerVars>> /\ reader # "off"
  BY DEF ReaderLeaves, queueVars
<1>2. /\ UNCHANGED <<console, registered, recorded, taskFile>>
      /\ UNCHANGED <<run, task, mine, readPh, metaPh, kept, modified, flushed, hand, fed,
                     toRegister>>
      /\ RegisteredIsWhole' /\ TaskFileIsHonest' /\ InPlace' /\ Grounded' /\ Planned'
      /\ Registering'
  BY <1>1, ReaderKeeps
<1>t. Typed /\ TypeOK
  BY DEF IInv, Typed
<1>3. at \in Content /\ at \in Nat /\ at' \in 1 .. NumContents + 1
  <2>1. at \in Content
    BY <1>1, <1>t DEF Typed
  <2> QED
    BY <1>1, <2>1, ContentsAssumption DEF Content
<1>4. Typed'
  <2>1. TypeOK'
    BY <1>1, <1>2, <1>3, <1>t DEF TypeOK
  <2> QED
    BY <1>1, <1>2, <1>t, <2>1 DEF Typed
<1>5. OneOwner' /\ Buffers'
  <2>1. OneOwner'
    BY <1>1 DEF IInv, OneOwner
  <2>2. Buffers'
    BY <1>1, <1>2 DEF IInv, Buffers
  <2> QED
    BY <2>1, <2>2
<1>6. Flight' /\ \A c \in Content : Sent(c)' = Sent(c) /\ Arrived(c)' = Arrived(c)
  BY <1>1, <1>2, FlightStays
<1>7. Cursors'
  <2> SUFFICES ASSUME run = "transfer" PROVE Cursors'
    BY <1>2 DEF Cursors
  <2>1. Sent(at) = Units(at)
    <3>1. /\ at \in Compressed => fetch[at].headerSent
          /\ fetch[at].streamRead >= StreamSize(at)
      <4>1. StreamSize(at) \in Nat /\ fetch[at].streamRead \in Nat
        BY <1>3, <1>t, CursorTypes, Sizes DEF StreamSize
      <4> QED
        BY <1>1, <4>1 DEF PieceDue, HeaderDue
    <3>2. Sent(at) <= Units(at) /\ Units(at) \in Nat /\ Sent(at) \in Nat
      BY <1>3, <1>t, CursorTypes, Sizes DEF IInv, Cursors
    <3>3. Units(at) = IF at \in Compressed THEN 1 + StreamSize(at) ELSE StreamSize(at)
      BY <1>3, Sizes
    <3>4. fetch[at].streamRead \in Nat /\ StreamSize(at) \in Nat
      BY <1>3, <1>t, CursorTypes, Sizes DEF StreamSize
    <3>5. CASE at \in Compressed
      BY <3>1, <3>2, <3>3, <3>4, <3>5 DEF Sent
    <3>6. CASE at \notin Compressed
      BY <3>1, <3>2, <3>3, <3>4, <3>6 DEF Sent
    <3> QED
      BY <3>5, <3>6
  <2>2. \A c \in Content :
          /\ c > at' \/ (c = at' /\ reader' = "choosing") => c > at
          /\ c < at' => c < at \/ c = at
    BY <1>1, <1>3 DEF Content
  <2>3. \A c \in Content :
          /\ c > at' \/ (c = at' /\ reader' = "choosing") => Sent(c)' = Arrived(c)'
          /\ c < at' => (task[c].skipped \/ task[c].written >= Size[c] \/ Sent(c) = Units(c))'
    <3> SUFFICES ASSUME NEW c \in Content
                 PROVE
                   /\ c > at' \/ (c = at' /\ reader' = "choosing") => Sent(c)' = Arrived(c)'
                   /\ c < at' =>
                        (task[c].skipped \/ task[c].written >= Size[c] \/ Sent(c) = Units(c))'
      OBVIOUS
    <3>1. c > at => Sent(c) = Arrived(c)
      BY DEF IInv, Cursors
    <3>2. c < at => task[c].skipped \/ task[c].written >= Size[c] \/ Sent(c) = Units(c)
      BY DEF IInv, Cursors
    <3>3. Sent(c)' = Sent(c) /\ Arrived(c)' = Arrived(c) /\ Units(c)' = Units(c)
      BY <1>6 DEF Units
    <3> QED
      BY <1>2, <2>1, <2>2, <3>1, <3>2, <3>3
  <2>4. finished' => at' > NumContents
    BY <1>1, <1>3, ContentsAssumption DEF IInv, Cursors
  <2>5. \A c \in Content :
         /\ (Arrived(c) <= Sent(c) /\ Sent(c) <= Units(c))'
         /\ c \in Compressed /\ ~fetch'[c].headerSent => fetch'[c].streamRead = 0
         /\ c \in Compressed /\ task'[c].ph \in mine' =>
              /\ task'[c].written = 0 => fed'[c] = 0
              /\ task'[c].written # 0 => task'[c].written = DecodedTo(c, fed'[c])
    BY <1>1, <1>2, FlightStays
  <2> QED
    BY <1>1, <2>3, <2>4, <2>5 DEF Cursors
<1> QED
  BY <1>2, <1>4, <1>5, <1>6, <1>7 DEF IInv

LEMMA ReaderFinishesPreserves == IInv /\ (ReaderFinishes \/ ReaderFails) => IInv'
<1> SUFFICES ASSUME IInv, ReaderFinishes \/ ReaderFails PROVE IInv'
  OBVIOUS
<1>t. Typed /\ TypeOK
  BY DEF IInv, Typed
<1>1. /\ reader \in {"choosing", "filling"} /\ reader' = "done"
      /\ finished' \in BOOLEAN
      /\ finished' => finished \/ at > NumContents
      /\ UNCHANGED <<at, fetch>>
      /\ UNCHANGED <<slots, items, freeSlots, producing, consuming>>
      /\ UNCHANGED <<consoleVars, writerVars>> /\ reader # "off"
  <2>1. CASE ReaderFinishes
    BY <2>1, <1>t DEF ReaderFinishes, Finish, Typed, TypeOK
  <2>2. CASE ReaderFails
    BY <2>2, <1>t DEF ReaderFails, Fail, Typed, TypeOK
  <2> QED
    BY <2>1, <2>2
<1>2. /\ UNCHANGED <<console, registered, recorded, taskFile>>
      /\ UNCHANGED <<run, task, mine, readPh, metaPh, kept, modified, flushed, hand, fed,
                     toRegister>>
      /\ RegisteredIsWhole' /\ TaskFileIsHonest' /\ InPlace' /\ Grounded' /\ Planned'
      /\ Registering'
  BY <1>1, ReaderKeeps
<1>4. Typed'
  <2>1. TypeOK'
    BY <1>1, <1>2, <1>t DEF TypeOK
  <2> QED
    BY <1>1, <1>2, <1>t, <2>1 DEF Typed
<1>5. OneOwner' /\ Buffers'
  <2>1. OneOwner'
    BY <1>1 DEF IInv, OneOwner
  <2>2. Buffers'
    BY <1>1, <1>2 DEF IInv, Buffers
  <2> QED
    BY <2>1, <2>2
<1>6. Flight' /\ \A c \in Content : Sent(c)' = Sent(c) /\ Arrived(c)' = Arrived(c)
  BY <1>1, <1>2, FlightStays
<1>7. Cursors'
  <2> SUFFICES ASSUME run = "transfer" PROVE Cursors'
    BY <1>2 DEF Cursors
  <2>1. \A c \in Content :
          /\ c > at' \/ (c = at' /\ reader' = "choosing") => Sent(c)' = Arrived(c)'
          /\ c < at' => (task[c].skipped \/ task[c].written >= Size[c] \/ Sent(c) = Units(c))'
    BY <1>1, <1>2, <1>6 DEF IInv, Cursors
  <2>2. finished' => at' > NumContents
    BY <1>1 DEF IInv, Cursors
  <2>3. \A c \in Content :
         /\ (Arrived(c) <= Sent(c) /\ Sent(c) <= Units(c))'
         /\ c \in Compressed /\ ~fetch'[c].headerSent => fetch'[c].streamRead = 0
         /\ c \in Compressed /\ task'[c].ph \in mine' =>
              /\ task'[c].written = 0 => fed'[c] = 0
              /\ task'[c].written # 0 => task'[c].written = DecodedTo(c, fed'[c])
    BY <1>1, <1>2, FlightStays
  <2> QED
    BY <1>1, <2>1, <2>2, <2>3 DEF Cursors
<1> QED
  BY <1>2, <1>4, <1>5, <1>6, <1>7 DEF IInv

(* The piece the reader is at is the next of its content's stream. *)
LEMMA NextPieceProperties ==
  ASSUME Typed, at \in Content, PieceDue
  PROVE  /\ NextPiece \in AnyPiece /\ NextPiece.content = at /\ Fits(NextPiece)
         /\ (at \in Compressed /\ ~fetch[at].headerSent => fetch[at].streamRead = 0)
              => Unit(NextPiece) = Sent(at) /\ Sent(at) < Units(at)
<1>1. fetch[at].streamRead \in Nat /\ fetch[at].headerSent \in BOOLEAN
  BY CursorTypes
<1>2. /\ Units(at) = IF at \in Compressed THEN 1 + StreamSize(at) ELSE StreamSize(at)
      /\ StreamSize(at) \in Nat /\ Units(at) \in Nat
  BY Sizes DEF StreamSize
<1>3. CASE HeaderDue
  <2>1. NextPiece = [content |-> at, part |-> "header", at |-> 0]
    BY <1>3 DEF NextPiece, Piece
  <2> QED
    BY <1>1, <1>2, <1>3, <2>1 DEF HeaderDue, AnyPiece, Parts, Fits, Unit, Sent
<1>4. CASE ~HeaderDue /\ at \in Compressed
  <2>1. NextPiece = [content |-> at, part |-> "payload", at |-> fetch[at].streamRead]
    BY <1>4 DEF NextPiece, Piece
  <2>2. fetch[at].headerSent /\ fetch[at].streamRead < StreamSize(at)
    BY <1>1, <1>4 DEF HeaderDue, PieceDue
  <2> QED
    BY <1>1, <1>2, <1>4, <2>1, <2>2 DEF AnyPiece, Parts, Fits, Unit, Sent
<1>5. CASE ~HeaderDue /\ at \notin Compressed
  <2>1. NextPiece = [content |-> at, part |-> "plain", at |-> fetch[at].streamRead]
    BY <1>5 DEF NextPiece, Piece
  <2>2. fetch[at].streamRead < StreamSize(at)
    BY <1>5 DEF PieceDue
  <2> QED
    BY <1>1, <1>2, <1>5, <2>1, <2>2 DEF AnyPiece, Parts, Fits, Unit, Sent
<1> QED
  BY <1>3, <1>4, <1>5

(* Taking a buffer and reading into it: the top of the free stack is the *)
(* reader's.                                                             *)
LEMMA ReaderReadsPreserves == IInv /\ ReaderReads => IInv'
<1> SUFFICES ASSUME IInv, ReaderReads PROVE IInv'
  OBVIOUS
<1> DEFINE n == Len(freeSlots)
           s == freeSlots[n]
<1>t. Typed /\ TypeOK
  BY DEF IInv, Typed
<1>1. /\ reader = "reading" /\ PieceDue /\ reader' = "filling"
      /\ freeSlots # <<>> /\ producing' = s
      /\ slots' = [slots EXCEPT ![s] = NextPiece]
      /\ freeSlots' = SubSeq(freeSlots, 1, n - 1)
      /\ UNCHANGED <<at, fetch>>
      /\ UNCHANGED <<items, consuming, finished, stopped, failed>>
      /\ UNCHANGED <<consoleVars, writerVars>> /\ reader # "off"
  BY DEF ReaderReads, AcquireSlot, CanReturnFromAcquire
<1>2. /\ UNCHANGED <<console, registered, recorded, taskFile>>
      /\ UNCHANGED <<run, task, mine, readPh, metaPh, kept, modified, flushed, hand, fed,
                     toRegister>>
      /\ RegisteredIsWhole' /\ TaskFileIsHonest' /\ InPlace' /\ Grounded' /\ Planned'
      /\ Registering'
  BY <1>1, ReaderKeeps
<1>3. at \in Content /\ producing = NoSlot
  BY <1>1, <1>t DEF Typed, IInv, Buffers
<1>4. freeSlots \in Seq(Slot) /\ n \in Nat \ {0}
  BY <1>1, <1>t, EmptySeq DEF Typed
<1>5. s \in Slot /\ s # NoSlot
  BY <1>4, <1>t, Elements, Nobody
<1>6. /\ freeSlots' \in Seq(Slot) /\ Len(freeSlots') = n - 1
      /\ \A i \in 1 .. n - 1 : freeSlots'[i] = freeSlots[i]
  BY <1>1, <1>4, StackPop
<1>7. /\ \A i \in 1 .. n - 1 : freeSlots[i] # s
      /\ \A i \in 1 .. Len(items) : items[i].slot # s
      /\ consuming # s
  BY <1>4 DEF IInv, OneOwner
<1>8. NextPiece \in AnyPiece
  BY <1>1, <1>3, <1>t, NextPieceProperties
<1>9. Typed'
  <2>1. TypeOK'
    BY <1>1, <1>2, <1>t DEF TypeOK
  <2>2. slots' \in [Slot -> AnyPiece \cup {Torn}]
    BY <1>1, <1>5, <1>8, <1>t DEF Typed
  <2> HIDE DEF s, n
  <2> QED
    BY <1>1, <1>2, <1>3, <1>5, <1>6, <1>t, <2>1, <2>2 DEF Typed
<1> HIDE DEF s, n
<1>10. OneOwner'
  <2>0. \A i \in 1 .. n - 1 : i \in 1 .. Len(freeSlots)
    BY <1>4 DEF n
  <2>1. \A i, j \in 1 .. Len(freeSlots') : freeSlots'[i] = freeSlots'[j] => i = j
    <3> SUFFICES ASSUME NEW i \in 1 .. n - 1, NEW j \in 1 .. n - 1,
                        freeSlots[i] = freeSlots[j]
                 PROVE  i = j
      BY <1>6
    <3> QED
      BY <2>0 DEF IInv, OneOwner
  <2>2. \A i \in 1 .. Len(freeSlots') : freeSlots'[i] \notin {producing', consuming}
    <3> SUFFICES ASSUME NEW i \in 1 .. n - 1
                 PROVE  freeSlots[i] # s /\ freeSlots[i] # consuming
      BY <1>1, <1>6
    <3> QED
      BY <1>7, <2>0 DEF IInv, OneOwner
  <2>3. \A i \in 1 .. Len(items) : items[i].slot \notin {producing', consuming}
    BY <1>1, <1>7 DEF IInv, OneOwner
  <2>4. \A i \in 1 .. Len(freeSlots'), j \in 1 .. Len(items) : freeSlots'[i] # items[j].slot
    <3> SUFFICES ASSUME NEW i \in 1 .. n - 1, NEW j \in 1 .. Len(items)
                 PROVE  freeSlots[i] # items[j].slot
      BY <1>6
    <3> QED
      BY <2>0 DEF IInv, OneOwner
  <2>5. \A i, j \in 1 .. Len(items) : items[i].slot = items[j].slot => i = j
    BY DEF IInv, OneOwner
  <2> QED
    BY <1>1, <1>7, <2>1, <2>2, <2>3, <2>4, <2>5 DEF OneOwner
<1>11. Buffers'
  <2>1. /\ slots'[s] = NextPiece
        /\ \A i \in 1 .. Len(items) : slots'[items[i].slot] = slots[items[i].slot]
        /\ consuming # NoSlot => slots'[consuming] = slots[consuming]
    <3>1. \A x \in Slot : x # s => slots'[x] = slots[x]
      BY <1>1, <1>t DEF Typed
    <3>2. slots'[s] = NextPiece
      BY <1>1, <1>5, <1>t DEF Typed
    <3>3. \A i \in 1 .. Len(items) : items[i].slot \in Slot
      BY <1>t, Elements
    <3>4. consuming # NoSlot => consuming \in Slot
      BY <1>t DEF Typed
    <3> QED
      BY <1>7, <3>1, <3>2, <3>3, <3>4
  <2>2. NextPiece' = NextPiece /\ PieceDue'
    BY <1>1 DEF NextPiece, PieceDue, HeaderDue
  <2>3. hand' # Torn <=> consuming' # NoSlot
    BY <1>1, <1>2 DEF IInv, Buffers
  <2>4. consuming' # NoSlot => slots'[consuming'] = hand'
    BY <1>1, <1>2, <2>1 DEF IInv, Buffers
  <2>5. \A i \in 1 .. Len(items') : slots'[items'[i].slot] = items'[i].range
    BY <1>1, <2>1 DEF IInv, Buffers
  <2>6. reader' = "filling" /\ producing' # NoSlot /\ slots'[producing'] = NextPiece'
    BY <1>1, <1>5, <2>1, <2>2
  <2> QED
    BY <2>2, <2>3, <2>4, <2>5, <2>6 DEF Buffers
<1>12. Flight' /\ \A c \in Content : Sent(c)' = Sent(c) /\ Arrived(c)' = Arrived(c)
  BY <1>1, <1>2, FlightStays
<1>13. Cursors'
  <2> SUFFICES ASSUME run = "transfer" PROVE Cursors'
    BY <1>2 DEF Cursors
  <2>1. \A c \in Content :
          /\ c > at' \/ (c = at' /\ reader' = "choosing") => Sent(c)' = Arrived(c)'
          /\ c < at' => (task[c].skipped \/ task[c].written >= Size[c] \/ Sent(c) = Units(c))'
    BY <1>1, <1>2, <1>12 DEF IInv, Cursors
  <2>2. finished' => at' > NumContents
    BY <1>1 DEF IInv, Cursors
  <2>3. task'[at'].ph \in mine'
    BY <1>1, <1>2 DEF IInv, Cursors
  <2>4. \A c \in Content :
         /\ (Arrived(c) <= Sent(c) /\ Sent(c) <= Units(c))'
         /\ c \in Compressed /\ ~fetch'[c].headerSent => fetch'[c].streamRead = 0
         /\ c \in Compressed /\ task'[c].ph \in mine' =>
              /\ task'[c].written = 0 => fed'[c] = 0
              /\ task'[c].written # 0 => task'[c].written = DecodedTo(c, fed'[c])
    BY <1>1, <1>2, FlightStays
  <2> QED
    BY <1>1, <2>1, <2>2, <2>3, <2>4 DEF Cursors
<1> QED
  BY <1>2, <1>9, <1>10, <1>11, <1>12, <1>13 DEF IInv

(* Publishing moves the reader's cursor by one and puts the piece between *)
(* the cursors into the queue, behind all the others.                      *)
LEMMA ReaderPublishesPreserves == IInv /\ ReaderPublishes => IInv'
<1> SUFFICES ASSUME IInv, ReaderPublishes PROVE IInv'
  OBVIOUS
<1> DEFINE n == Len(items)
           p == NextPiece
           e == Entry(producing, p)
<1>t. Typed /\ TypeOK
  BY DEF IInv, Typed
<1>0. reader = "filling" /\ producing # NoSlot /\ PieceDue /\ slots[producing] = p
  BY DEF IInv, Buffers, ReaderPublishes
<1>1. /\ reader' = "reading" /\ producing' = NoSlot /\ items' = Append(items, e)
      /\ fetch' = IF HeaderDue THEN [fetch EXCEPT ![at].headerSent = TRUE]
                               ELSE [fetch EXCEPT ![at].streamRead = @ + 1]
      /\ UNCHANGED at
      /\ UNCHANGED <<slots, freeSlots, consuming, finished, stopped, failed>>
      /\ UNCHANGED <<consoleVars, writerVars>> /\ reader # "off"
  BY <1>0 DEF ReaderPublishes, Publish
<1>2. /\ UNCHANGED <<console, registered, recorded, taskFile>>
      /\ UNCHANGED <<run, task, mine, readPh, metaPh, kept, modified, flushed, hand, fed,
                     toRegister>>
      /\ RegisteredIsWhole' /\ TaskFileIsHonest' /\ InPlace' /\ Grounded' /\ Planned'
      /\ Registering'
  BY <1>1, ReaderKeeps
<1>3. at \in Content /\ producing \in Slot
  BY <1>0, <1>t DEF Typed
<1>4. /\ p \in AnyPiece /\ p.content = at /\ Fits(p)
      /\ (at \in Compressed /\ ~fetch[at].headerSent => fetch[at].streamRead = 0)
            => Unit(p) = Sent(at) /\ Sent(at) < Units(at)
  BY <1>0, <1>3, <1>t, NextPieceProperties
<1> HIDE DEF p
<1>5. e \in QueueEntry /\ e.slot = producing /\ e.range = p
  BY <1>3, <1>4 DEF Entry, QueueEntry
<1> HIDE DEF e
<1>6. /\ n \in Nat /\ items' \in Seq(QueueEntry) /\ Len(items') = n + 1
      /\ \A i \in 1 .. n : items'[i] = items[i]
      /\ items'[n + 1] = e
  BY <1>1, <1>5, <1>t, AppendProperties, LenProperties DEF Typed
<1> HIDE DEF n
<1>7. /\ \A i \in 1 .. n : i \in 1 .. Len(items)
      /\ \A i \in 1 .. n + 1 : i \in 1 .. n \/ i = n + 1
      /\ n + 1 \in 1 .. Len(items')
  BY <1>6 DEF n
<1>8. Typed'
  <2>1. TypeOK'
    BY <1>1, <1>2, <1>t DEF TypeOK
  <2>2. fetch' \in [Content -> [headerSent : BOOLEAN, streamRead : Nat]]
    <3>1. CASE HeaderDue
      BY <1>1, <1>3, <1>t, <3>1 DEF Typed
    <3>2. CASE ~HeaderDue
      <4>1. fetch' = [fetch EXCEPT ![at].streamRead = @ + 1] /\ fetch[at].streamRead \in Nat
        BY <1>1, <1>3, <1>t, <3>2, CursorTypes
      <4>2. fetch \in [Content -> [headerSent : BOOLEAN, streamRead : Nat]] /\ at \in Content
        BY <1>3, <1>t DEF Typed
      <4> QED
        BY <4>1, <4>2
    <3> QED
      BY <3>1, <3>2
  <2> QED
    BY <1>1, <1>2, <1>3, <1>6, <1>t, <2>1, <2>2 DEF Typed
<1>9. \A i \in 1 .. n : items[i].slot # producing
  BY <1>7 DEF IInv, OneOwner
<1>10. OneOwner'
  <2>1. \A i, j \in 1 .. Len(items') : items'[i].slot = items'[j].slot => i = j
    <3> SUFFICES ASSUME NEW i \in 1 .. n + 1, NEW j \in 1 .. n + 1,
                        items'[i].slot = items'[j].slot
                 PROVE  i = j
      BY <1>6
    <3>1. CASE i \in 1 .. n /\ j \in 1 .. n
      BY <3>1, <1>6, <1>7 DEF IInv, OneOwner
    <3>2. CASE i = n + 1 \/ j = n + 1
      BY <3>2, <1>5, <1>6, <1>7, <1>9
    <3> QED
      BY <3>1, <3>2, <1>7
  <2>2. \A i \in 1 .. Len(items') : items'[i].slot \notin {producing', consuming'}
    <3> SUFFICES ASSUME NEW i \in 1 .. n + 1
                 PROVE  items'[i].slot # NoSlot /\ items'[i].slot # consuming
      BY <1>1, <1>6
    <3>1. CASE i \in 1 .. n
      BY <3>1, <1>6, <1>7, <1>t, Elements, Nobody DEF IInv, OneOwner
    <3>2. CASE i = n + 1
      BY <3>2, <1>0, <1>5, <1>6 DEF IInv, OneOwner
    <3> QED
      BY <3>1, <3>2, <1>7
  <2>3. \A i \in 1 .. Len(freeSlots), j \in 1 .. Len(items') : freeSlots[i] # items'[j].slot
    <3> SUFFICES ASSUME NEW i \in 1 .. Len(freeSlots), NEW j \in 1 .. n + 1
                 PROVE  freeSlots[i] # items'[j].slot
      BY <1>6
    <3>1. CASE j \in 1 .. n
      BY <3>1, <1>6, <1>7 DEF IInv, OneOwner
    <3>2. CASE j = n + 1
      BY <3>2, <1>5, <1>6 DEF IInv, OneOwner
    <3> QED
      BY <3>1, <3>2, <1>7
  <2>4. \A i \in 1 .. Len(freeSlots) : freeSlots[i] \notin {producing', consuming'}
    BY <1>1, <1>t, Elements, Nobody DEF IInv, OneOwner
  <2>5. \A i, j \in 1 .. Len(freeSlots) : freeSlots[i] = freeSlots[j] => i = j
    BY DEF IInv, OneOwner
  <2> QED
    BY <1>1, <2>1, <2>2, <2>3, <2>4, <2>5 DEF OneOwner
<1>11. Buffers'
  <2>1. \A i \in 1 .. Len(items') : slots[items'[i].slot] = items'[i].range
    <3> SUFFICES ASSUME NEW i \in 1 .. n + 1
                 PROVE  slots[items'[i].slot] = items'[i].range
      BY <1>6
    <3>1. CASE i \in 1 .. n
      BY <3>1, <1>6, <1>7 DEF IInv, Buffers
    <3>2. CASE i = n + 1
      BY <3>2, <1>0, <1>5, <1>6
    <3> QED
      BY <3>1, <3>2, <1>7
  <2>2. /\ hand' # Torn <=> consuming' # NoSlot
        /\ consuming' # NoSlot => slots'[consuming'] = hand'
    BY <1>1, <1>2 DEF IInv, Buffers
  <2> QED
    BY <1>1, <2>1, <2>2 DEF Buffers
<1>12. CASE run # "transfer"
  <2>1. Flight' /\ Cursors'
    BY <1>2, <1>12 DEF Flight, Cursors
  <2> QED
    BY <1>2, <1>8, <1>10, <1>11, <2>1 DEF IInv
<1>a. PICK a \in Content : a = at
  BY <1>3
<1>13. CASE run = "transfer"
  <2>1. /\ Unit(p) = Sent(a) /\ Sent(a) < Units(a) /\ task[a].ph \in mine
        /\ Arrived(a) <= Sent(a)
    BY <1>a, <1>0, <1>3, <1>4, <1>13 DEF IInv, Cursors
  <2>2. \A c \in Content : c # a => fetch'[c] = fetch[c]
    BY <1>a, <1>1, <1>3, <1>t DEF Typed
  <2>3. /\ HeaderDue => /\ fetch'[a].headerSent
                        /\ fetch'[a].streamRead = fetch[a].streamRead
        /\ ~HeaderDue => /\ fetch'[a].headerSent = fetch[a].headerSent
                         /\ fetch'[a].streamRead = fetch[a].streamRead + 1
    <3>1. CASE HeaderDue
      BY <1>a, <1>1, <1>3, <1>t, <3>1 DEF Typed
    <3>2. CASE ~HeaderDue
      BY <1>a, <1>1, <1>3, <1>t, <3>2 DEF Typed
    <3> QED
      BY <1>a, <3>1, <3>2
  <2>4. /\ Sent(a)' = Sent(a) + 1 /\ Arrived(a)' = Arrived(a)
        /\ a \in Compressed => fetch'[a].headerSent
    <3>1. a \in Compressed /\ HeaderDue => fetch[a].streamRead = 0
      BY <1>a, <1>3, <1>13 DEF IInv, Cursors, HeaderDue
    <3>2. fetch[a].streamRead \in Nat
      BY <1>a, <1>3, <1>t, CursorTypes
    <3>3. Sent(a)' = Sent(a) + 1 /\ (a \in Compressed => fetch'[a].headerSent)
      <4>1. CASE HeaderDue
        BY <1>a, <2>3, <3>1, <3>2, <4>1 DEF Sent, HeaderDue
      <4>2. CASE ~HeaderDue
        BY <1>a, <2>3, <3>2, <4>2 DEF Sent, HeaderDue
      <4> QED
        BY <4>1, <4>2
    <3>4. Arrived(a)' = Arrived(a)
      BY <1>a, <1>1, <1>2, <2>1 DEF Arrived
    <3> QED
      BY <1>a, <3>3, <3>4
  <2>5. \A c \in Content : c # a => Sent(c)' = Sent(c) /\ Arrived(c)' = Arrived(c)
    BY <1>a, <1>2, <2>2 DEF Sent, Arrived
  <2>6. \A c \in Content : Sent(c) \in Nat /\ Arrived(c) \in Nat
    BY <1>a, <1>t, CursorTypes
  <2>7. InFlight' = InFlight \cup {p}
    <3>1. Queued' = Queued \cup {p}
      <4>1. \A i \in 1 .. Len(items') :
              items'[i].range = p \/ \E j \in 1 .. Len(items) : items'[i].range = items[j].range
        BY <1>a, <1>5, <1>6, <1>7
      <4>2. \A j \in 1 .. Len(items) :
              \E i \in 1 .. Len(items') : items[j].range = items'[i].range
        BY <1>a, <1>6 DEF n
      <4>3. \E i \in 1 .. Len(items') : p = items'[i].range
        BY <1>a, <1>5, <1>6, <1>7
      <4>4. Queued = {items[i].range : i \in 1 .. Len(items)}
        BY DEF Queued
      <4>5. Queued' = {items'[i].range : i \in 1 .. Len(items')}
        BY DEF Queued
      <4> QED
        BY <4>1, <4>2, <4>3, <4>4, <4>5
    <3> QED
      BY <1>a, <1>2, <3>1 DEF InFlight
  <2>8. \A q \in InFlight :
          /\ Fits(q) /\ Arrived(q.content) <= Unit(q) /\ Unit(q) < Sent(q.content)
          /\ q.content \in Content /\ Unit(q) \in Nat
    <3>1. \A q \in InFlight : q \in AnyPiece
      BY <1>a, <1>t, Elements DEF InFlight, Queued, Typed
    <3>2. \A q \in InFlight : q.content \in Content /\ Unit(q) \in Nat
      BY <1>a, <3>1 DEF AnyPiece, Unit
    <3> QED
      BY <1>a, <1>13, <3>2 DEF IInv, Flight
  <2>9. \A q \in InFlight : Before(q, p)
    <3> SUFFICES ASSUME NEW q \in InFlight PROVE Before(q, p)
      OBVIOUS
    <3>1. q.content \in Content /\ Arrived(q.content) < Sent(q.content)
      BY <1>a, <2>6, <2>8
    <3>2. ~(q.content > a)
      BY <1>a, <1>13, <2>6, <3>1 DEF IInv, Cursors
    <3>3. q.content \in Nat /\ a \in Nat
      BY <1>a, <1>3, <3>1 DEF Content
    <3>4. q.content = a => Unit(q) < Unit(p)
      BY <1>a, <2>1, <2>8
    <3> QED
      BY <1>a, <1>4, <3>2, <3>3, <3>4 DEF Before
  <2>10. Flight'
    <3>1. \A q \in InFlight' :
            Fits(q) /\ Arrived(q.content)' <= Unit(q) /\ Unit(q) < Sent(q.content)'
      <4> SUFFICES ASSUME NEW q \in InFlight'
                   PROVE  Fits(q) /\ Arrived(q.content)' <= Unit(q) /\ Unit(q) < Sent(q.content)'
        OBVIOUS
      <4>1. CASE q = p
        BY <1>a, <4>1, <1>4, <2>1, <2>4, <2>6, <1>3
      <4>2. CASE q \in InFlight
        BY <1>a, <4>2, <2>4, <2>5, <2>6, <2>8
      <4> QED
        BY <1>a, <4>1, <4>2, <2>7
    <3>2. \A c \in Content : \A u \in Arrived(c)' .. Sent(c)' - 1 :
            \E q \in InFlight' : q.content = c /\ Unit(q) = u
      <4> SUFFICES ASSUME NEW c \in Content, NEW u \in Arrived(c)' .. Sent(c)' - 1
                   PROVE  \E q \in InFlight' : q.content = c /\ Unit(q) = u
        OBVIOUS
      <4>1. CASE c = a /\ u = Sent(a)
        BY <1>a, <4>1, <1>4, <2>1, <2>7
      <4>2. CASE ~(c = a /\ u = Sent(a))
        <5>1. u \in Arrived(c) .. Sent(c) - 1
          BY <1>a, <4>2, <2>4, <2>5, <2>6
        <5>2. \E q \in InFlight : q.content = c /\ Unit(q) = u
          BY <1>a, <1>13, <5>1 DEF IInv, Flight
        <5> QED
          BY <1>a, <5>2, <2>7
      <4> QED
        BY <1>a, <4>1, <4>2
    <3>3. \A i, j \in 1 .. Len(items') : i < j => Before(items'[i].range, items'[j].range)
      <4> SUFFICES ASSUME NEW i \in 1 .. n + 1, NEW j \in 1 .. n + 1, i < j
                   PROVE  Before(items'[i].range, items'[j].range)
        BY <1>a, <1>6
      <4>1. CASE j \in 1 .. n
        BY <1>a, <4>1, <1>6, <1>7, <1>13 DEF IInv, Flight
      <4>2. CASE j = n + 1
        <5>1. i \in 1 .. n /\ items[i].range \in InFlight
          BY <1>a, <4>2, <1>6, <1>7 DEF InFlight, Queued
        <5>2. items'[i].range = items[i].range /\ items'[j].range = p
          BY <1>a, <4>2, <5>1, <1>5, <1>6
        <5> QED
          BY <1>a, <5>1, <5>2, <2>9
      <4> QED
        BY <1>a, <4>1, <4>2, <1>7
    <3>4. hand # Torn => \A i \in 1 .. Len(items') : Before(hand, items'[i].range)
      <4> SUFFICES ASSUME hand # Torn, NEW i \in 1 .. n + 1
                   PROVE  Before(hand, items'[i].range)
        BY <1>a, <1>6
      <4>1. CASE i \in 1 .. n
        BY <1>a, <4>1, <1>6, <1>7, <1>13 DEF IInv, Flight
      <4>2. CASE i = n + 1
        BY <1>a, <4>2, <1>5, <1>6, <2>9 DEF InFlight
      <4> QED
        BY <1>a, <4>1, <4>2, <1>7
    <3> QED
      BY <1>a, <1>2, <3>1, <3>2, <3>3, <3>4 DEF Flight
  <2>11. Cursors'
    <3>1. \A c \in Content :
            /\ (Arrived(c) <= Sent(c) /\ Sent(c) <= Units(c))'
            /\ c \in Compressed /\ ~fetch'[c].headerSent => fetch'[c].streamRead = 0
      <4> SUFFICES ASSUME NEW c \in Content
                   PROVE  /\ Arrived(c)' <= Sent(c)' /\ Sent(c)' <= Units(c)
                          /\ c \in Compressed /\ ~fetch'[c].headerSent => fetch'[c].streamRead = 0
        BY DEF Units
      <4>1. CASE c = a
        BY <1>a, <4>1, <1>3, <2>1, <2>4, <2>6, Sizes
      <4>2. CASE c # a
        BY <1>a, <4>2, <1>13, <2>2, <2>5 DEF IInv, Cursors
      <4> QED
        BY <1>a, <4>1, <4>2
    <3>2. \A c \in Content :
            /\ c > at' \/ (c = at' /\ reader' = "choosing") => Sent(c)' = Arrived(c)'
            /\ c < at' => (task[c].skipped \/ task[c].written >= Size[c] \/ Sent(c) = Units(c))'
      <4> SUFFICES ASSUME NEW c \in Content, c # a
                   PROVE  /\ c > a => Sent(c) = Arrived(c)
                          /\ c < a =>
                               task[c].skipped \/ task[c].written >= Size[c] \/ Sent(c) = Units(c)
        BY <1>a, <1>1, <1>2, <1>3, <2>5 DEF Content, Units
      <4> QED
        BY <1>a, <1>13 DEF IInv, Cursors
    <3>3. \A c \in Content : c \in Compressed /\ task'[c].ph \in mine' =>
            /\ task'[c].written = 0 => fed'[c] = 0
            /\ task'[c].written # 0 => task'[c].written = DecodedTo(c, fed'[c])
      BY <1>a, <1>2, <1>13 DEF IInv, Cursors
    <3>4. finished' => at' > NumContents
      BY <1>a, <1>1, <1>13 DEF IInv, Cursors
    <3> QED
      BY <1>a, <1>1, <1>2, <2>1, <3>1, <3>2, <3>3, <3>4 DEF Cursors
  <2> QED
    BY <1>a, <1>2, <1>8, <1>10, <1>11, <2>10, <2>11 DEF IInv
<1> QED
  BY <1>12, <1>13

-----------------------------------------------------------------------------
(* The writer. *)

(* Taking moves the oldest piece into the writer's hand. *)
LEMMA WriterTakesPreserves == IInv /\ WriterTakes => IInv'
<1> SUFFICES ASSUME IInv, WriterTakes PROVE IInv'
  OBVIOUS
<1> DEFINE n == Len(items)
           s == items[1].slot
           p == items[1].range
<1>t. Typed /\ TypeOK
  BY DEF IInv, Typed
<1>1. /\ run = "transfer" /\ hand = Torn /\ items # <<>>
      /\ items' = Tail(items) /\ consuming' = s /\ hand' = p
      /\ UNCHANGED <<slots, freeSlots, producing, finished, stopped, failed>>
      /\ UNCHANGED <<console, registered, recorded, taskFile>>
      /\ UNCHANGED <<run, task, mine, readPh, metaPh, kept, modified, flushed, fed, toRegister>>
      /\ UNCHANGED <<reader, at, fetch>>
  BY DEF WriterTakes, TakeItem, NextIsGot, consoleVars, readerVars
<1>2. consuming = NoSlot
  BY <1>1 DEF IInv, Buffers
<1>3. /\ n \in Nat \ {0} /\ s \in Slot /\ p \in AnyPiece
      /\ 1 \in 1 .. Len(items)
  <2>1. n \in Nat \ {0}
    BY <1>1, <1>t, EmptySeq DEF Typed
  <2>2. 1 \in 1 .. Len(items)
    BY <2>1
  <2> QED
    BY <1>t, <2>1, <2>2, Elements
<1>4. /\ items' \in Seq(QueueEntry) /\ Len(items') = n - 1
      /\ \A i \in 1 .. n - 1 : items'[i] = items[i + 1]
  BY <1>1, <1>t, HeadTailProperties DEF Typed
<1>5. \A i \in 1 .. n - 1 : i + 1 \in 1 .. Len(items) /\ i + 1 # 1
  BY <1>3
<1>6. s # NoSlot /\ p # Torn
  BY <1>3, Nobody
<1> HIDE DEF n, s, p
<1>7. Typed'
  <2>1. TypeOK'
    BY <1>1, <1>t DEF TypeOK
  <2> QED
    BY <1>1, <1>3, <1>4, <1>t, <2>1 DEF Typed
<1>8. OneOwner'
  <2>1. \A i, j \in 1 .. Len(items') : items'[i].slot = items'[j].slot => i = j
    <3> SUFFICES ASSUME NEW i \in 1 .. n - 1, NEW j \in 1 .. n - 1,
                        items[i + 1].slot = items[j + 1].slot
                 PROVE  i = j
      BY <1>4
    <3>1. i + 1 = j + 1
      BY <1>5 DEF IInv, OneOwner
    <3> QED
      BY <3>1, <1>3
  <2>2. \A i \in 1 .. Len(items') : items'[i].slot \notin {producing, consuming'}
    <3> SUFFICES ASSUME NEW i \in 1 .. n - 1
                 PROVE  items[i + 1].slot # producing /\ items[i + 1].slot # s
      BY <1>1, <1>4
    <3>1. items[i + 1].slot = items[1].slot => i + 1 = 1
      BY <1>3, <1>5 DEF IInv, OneOwner
    <3> QED
      BY <1>5, <3>1 DEF IInv, OneOwner, s
  <2>3. \A i \in 1 .. Len(freeSlots), j \in 1 .. Len(items') : freeSlots[i] # items'[j].slot
    <3> SUFFICES ASSUME NEW i \in 1 .. Len(freeSlots), NEW j \in 1 .. n - 1
                 PROVE  freeSlots[i] # items[j + 1].slot
      BY <1>4
    <3> QED
      BY <1>5 DEF IInv, OneOwner
  <2>4. \A i \in 1 .. Len(freeSlots) : freeSlots[i] \notin {producing, consuming'}
    BY <1>1, <1>3 DEF IInv, OneOwner, s
  <2>5. producing # NoSlot => producing # consuming'
    BY <1>1, <1>3 DEF IInv, OneOwner, s
  <2>6. \A i, j \in 1 .. Len(freeSlots) : freeSlots[i] = freeSlots[j] => i = j
    BY DEF IInv, OneOwner
  <2> QED
    BY <1>1, <2>1, <2>2, <2>3, <2>4, <2>5, <2>6 DEF OneOwner
<1>9. Buffers'
  <2>1. \A i \in 1 .. Len(items') : slots[items'[i].slot] = items'[i].range
    <3> SUFFICES ASSUME NEW i \in 1 .. n - 1
                 PROVE  slots[items[i + 1].slot] = items[i + 1].range
      BY <1>4
    <3> QED
      BY <1>5 DEF IInv, Buffers
  <2>2. slots[s] = p
    BY <1>3 DEF IInv, Buffers, s, p
  <2>3. /\ reader \in {"off", "choosing", "reading"} => producing = NoSlot
        /\ reader = "filling" => producing # NoSlot /\ PieceDue /\ slots[producing] = NextPiece
    BY DEF IInv, Buffers
  <2>4. NextPiece' = NextPiece /\ PieceDue' = PieceDue
    BY <1>1 DEF NextPiece, PieceDue, HeaderDue
  <2> QED
    BY <1>1, <1>6, <2>1, <2>2, <2>3, <2>4 DEF Buffers
<1>10. \A c \in Content : Sent(c)' = Sent(c) /\ Arrived(c)' = Arrived(c)
  BY <1>1 DEF Sent, Arrived
<1>11. InFlight' = InFlight
  <2>1. Queued = {p} \cup Queued'
    <3>1. \A i \in 1 .. Len(items) :
            items[i].range = p \/ \E j \in 1 .. Len(items') : items[i].range = items'[j].range
      <4> SUFFICES ASSUME NEW i \in 1 .. Len(items), i # 1
                   PROVE  \E j \in 1 .. Len(items') : items[i].range = items'[j].range
        BY DEF p
      <4>1. i - 1 \in 1 .. n - 1 /\ (i - 1) + 1 = i
        BY <1>3 DEF n
      <4>2. items'[i - 1] = items[(i - 1) + 1]
        BY <1>4, <4>1
      <4> QED
        BY <1>4, <4>1, <4>2
    <3>2. \A j \in 1 .. Len(items') : \E i \in 1 .. Len(items) : items'[j].range = items[i].range
      BY <1>4, <1>5
    <3>3. \E i \in 1 .. Len(items) : p = items[i].range
      BY <1>3 DEF p
    <3>4. Queued = {items[i].range : i \in 1 .. Len(items)}
      BY DEF Queued
    <3>5. Queued' = {items'[i].range : i \in 1 .. Len(items')}
      BY DEF Queued
    <3>6. \A q \in Queued : q \in {p} \cup Queued'
      BY <3>1, <3>4, <3>5
    <3>7. \A q \in {p} \cup Queued' : q \in Queued
      BY <3>2, <3>3, <3>4, <3>5
    <3> QED
      BY <3>6, <3>7
  <2> QED
    BY <1>1, <1>6, <2>1 DEF InFlight
<1>12. Flight'
  <2>1. \A q \in InFlight' :
          Fits(q) /\ Arrived(q.content)' <= Unit(q) /\ Unit(q) < Sent(q.content)'
    <3> SUFFICES ASSUME NEW q \in InFlight
                 PROVE  Fits(q) /\ Arrived(q.content)' <= Unit(q) /\ Unit(q) < Sent(q.content)'
      BY <1>11
    <3>1. q.content \in Content
      BY <1>t, Elements DEF InFlight, Queued, Typed, AnyPiece
    <3> QED
      BY <1>1, <1>10, <3>1 DEF IInv, Flight
  <2>2. \A c \in Content : \A u \in Arrived(c)' .. Sent(c)' - 1 :
          \E q \in InFlight' : q.content = c /\ Unit(q) = u
    BY <1>1, <1>10, <1>11 DEF IInv, Flight
  <2>3. \A i, j \in 1 .. Len(items') : i < j => Before(items'[i].range, items'[j].range)
    <3> SUFFICES ASSUME NEW i \in 1 .. n - 1, NEW j \in 1 .. n - 1, i < j
                 PROVE  Before(items[i + 1].range, items[j + 1].range)
      BY <1>4
    <3>1. i + 1 \in 1 .. Len(items) /\ j + 1 \in 1 .. Len(items) /\ i + 1 < j + 1
      BY <1>3, <1>5
    <3> QED
      BY <1>1, <3>1 DEF IInv, Flight
  <2>4. \A i \in 1 .. Len(items') : Before(hand', items'[i].range)
    <3> SUFFICES ASSUME NEW i \in 1 .. n - 1
                 PROVE  Before(p, items[i + 1].range)
      BY <1>1, <1>4
    <3>1. i + 1 \in 1 .. Len(items) /\ 1 < i + 1
      BY <1>3, <1>5
    <3> QED
      BY <1>1, <1>3, <3>1 DEF IInv, Flight, p
  <2> QED
    BY <2>1, <2>2, <2>3, <2>4 DEF Flight
<1>13. Cursors'
  BY <1>1, <1>10 DEF IInv, Cursors, Units
<1>14. RegisteredIsWhole' /\ TaskFileIsHonest' /\ InPlace'
  BY <1>1 DEF IInv, RegisteredIsWhole, TaskFileIsHonest, InPlace, HoldsPrefix
<1>15. Grounded' /\ Registering'
  BY <1>1 DEF Grounded, Registering
<1>16. Planned'
  BY <1>1 DEF IInv, Planned, Needing
<1> QED
  BY <1>7, <1>8, <1>9, <1>12, <1>13, <1>14, <1>15, <1>16 DEF IInv

(* The writer's piece is the very next one its content's placeholder is *)
(* due: the two cursors never drift.                                     *)
LEMMA HandIsDue ==
  ASSUME IInv, run = "transfer", hand # Torn
  PROVE  /\ hand \in AnyPiece /\ hand.content \in Content /\ Fits(hand)
         /\ consuming \in Slot /\ slots[consuming] = hand
         /\ task[hand.content].ph \in mine
         /\ Unit(hand) = Arrived(hand.content)
         /\ Arrived(hand.content) < Sent(hand.content)
         /\ Sent(hand.content) <= Units(hand.content)
<1> DEFINE c == hand.content
<1>t. Typed /\ TypeOK
  BY DEF IInv, Typed
<1>1. hand \in AnyPiece /\ c \in Content /\ Unit(hand) \in Nat
  BY <1>t DEF Typed, AnyPiece, Unit
<1>2. consuming \in Slot /\ slots[consuming] = hand
  BY <1>t DEF Typed, IInv, Buffers
<1>3. hand \in InFlight
  BY DEF InFlight
<1>4. Fits(hand) /\ Arrived(c) <= Unit(hand) /\ Unit(hand) < Sent(c)
  BY <1>3 DEF IInv, Flight
<1>5. Arrived(c) \in Nat /\ Sent(c) \in Nat
  BY <1>1, <1>t, CursorTypes
<1>6. Arrived(c) \in Arrived(c) .. Sent(c) - 1
  BY <1>1, <1>4, <1>5
<1>7. PICK q \in InFlight : q.content = c /\ Unit(q) = Arrived(c)
  BY <1>1, <1>6 DEF IInv, Flight
<1>8. q = hand
  <2> SUFFICES ASSUME q # hand PROVE FALSE
    OBVIOUS
  <2>1. PICK i \in 1 .. Len(items) : q = items[i].range
    BY DEF InFlight, Queued
  <2>2. Before(hand, q)
    BY <2>1 DEF IInv, Flight
  <2>3. Unit(hand) < Unit(q)
    BY <1>1, <1>7, <2>2 DEF Before, Content
  <2> QED
    BY <1>1, <1>4, <1>5, <1>7, <2>3
<1>9. task[c].ph \in mine
  BY <1>1, <1>4, <1>5 DEF Arrived
<1>10. Sent(c) <= Units(c)
  BY <1>1 DEF IInv, Cursors
<1> QED
  BY <1>1, <1>2, <1>4, <1>5, <1>7, <1>8, <1>9, <1>10

(* What the writer has in hand for the storage continues what is there: *)
(* its first cell is the one after the last written.                     *)
LEMMA CellsAreDue ==
  ASSUME IInv, run = "transfer", hand # Torn, FeedAccepted
  PROVE  LET c == hand.content
         IN  /\ Len(CellsInHand) \in Nat
             /\ \A k \in 1 .. Len(CellsInHand) : CellsInHand[k] = task[c].written + k
             /\ hand.part # "payload" => Len(CellsInHand) = 1
             /\ hand.part = "header" => c \in Compressed /\ task[c].written = 0 /\ fed[c] = 0
             /\ hand.part = "plain" => c \notin Compressed
             /\ hand.part = "payload" =>
                  /\ c \in Compressed
                  /\ task[c].written + Len(CellsInHand) = DecodedTo(c, fed[c] + 1)
                  /\ fed[c] + 1 \in 0 .. Len(Reach[c])
<1> DEFINE c == hand.content
           w == task[c].written
<1>t. Typed /\ TypeOK
  BY DEF IInv, Typed
<1>1. /\ hand \in AnyPiece /\ c \in Content /\ Fits(hand) /\ slots[consuming] = hand
      /\ task[c].ph \in mine /\ Unit(hand) = Arrived(c) /\ Arrived(c) < Sent(c)
      /\ Sent(c) <= Units(c)
  BY HandIsDue
<1>2. w \in Nat /\ fed[c] \in Nat /\ hand.at \in Nat /\ hand.part \in Parts
  BY <1>1, <1>t, CursorTypes DEF AnyPiece
<1>3. Sent(c) \in Nat /\ Arrived(c) \in Nat
  BY <1>1, <1>t, CursorTypes
<1>4. c \in Compressed =>
        (w = 0 => fed[c] = 0) /\ (w # 0 => w = DecodedTo(c, fed[c]))
  BY <1>1 DEF IInv, Cursors
<1> HIDE DEF w
<1>5. CASE hand.part = "payload"
  <2>1. c \in Compressed /\ hand.at + 1 = Arrived(c)
    BY <1>1, <1>5 DEF Fits, Unit
  <2>2. Arrived(c) = IF w = 0 THEN 0 ELSE 1 + fed[c]
    BY <1>1, <2>1 DEF Arrived, w
  <2>3. hand.at = fed[c] /\ w = DecodedTo(c, fed[c])
    BY <1>2, <1>4, <2>1, <2>2
  <2>4. Units(c) = 1 + Len(Reach[c]) /\ Len(Reach[c]) \in Nat
    BY <1>1, <2>1, Sizes DEF Units
  <2>5. fed[c] + 1 <= Len(Reach[c])
    BY <1>1, <1>2, <1>3, <2>1, <2>3, <2>4
  <2>6. fed[c] + 1 \in 0 .. Len(Reach[c]) /\ fed[c] \in 0 .. Len(Reach[c]) - 1
        /\ fed[c] \in 0 .. Len(Reach[c])
    BY <1>2, <2>4, <2>5
  <2> DEFINE d == DecodedTo(c, fed[c] + 1)
             m == d - w
             cells == Decoded(c, hand)
  <2>7. d \in Nat /\ w <= d /\ m \in Nat
    BY <1>1, <1>2, <2>3, <2>6, Sizes
  <2>8. d <= Size[c] /\ Size[c] \in Nat
    BY <1>1, <1>5, Sizes DEF FeedAccepted
  <2>9. cells = [j \in 1 .. m |-> w + j]
    BY <1>1, <2>3 DEF Decoded
  <2> HIDE DEF d, m, cells
  <2>10. cells \in Seq(Nat) /\ Len(cells) = m
    BY <1>2, <2>7, <2>9, SeqDef
  <2>11. CellsInHand = SubSeq(cells, 1, m)
    <3>1. CellsInHand = SubSeq(cells, 1, Smaller(Len(cells), Size[c] - w))
      BY <1>1, <1>5 DEF CellsInHand, cells, w
    <3>2. m <= Size[c] - w
      BY <1>2, <2>7, <2>8 DEF m
    <3> QED
      BY <2>10, <3>1, <3>2 DEF Smaller
  <2>12. CellsInHand = cells
    BY <2>10, <2>11, SubSeqFull
  <2>13. \A k \in 1 .. m : CellsInHand[k] = w + k
    BY <2>9, <2>12
  <2>14. w + m = d
    BY <1>2, <2>7 DEF m
  <2> QED
    BY <1>5, <2>1, <2>6, <2>7, <2>10, <2>12, <2>13, <2>14 DEF d, w
<1>6. CASE hand.part # "payload"
  <2>1. CellsInHand = <<hand.at + 1>>
    BY <1>1, <1>6 DEF CellsInHand
  <2>2. Len(CellsInHand) = 1 /\ CellsInHand[1] = hand.at + 1
    BY <2>1
  <2>3. hand.at = w
    <3>1. Arrived(c) = IF c \notin Compressed THEN w ELSE IF w = 0 THEN 0 ELSE 1 + fed[c]
      BY <1>1 DEF Arrived, w
    <3>2. Unit(hand) = hand.at
      BY <1>6 DEF Unit
    <3>3. CASE hand.part = "plain"
      BY <1>1, <3>1, <3>2, <3>3 DEF Fits
    <3>4. CASE hand.part = "header"
      BY <1>1, <1>2, <3>1, <3>2, <3>4 DEF Fits
    <3> QED
      BY <1>2, <1>6, <3>3, <3>4 DEF Parts
  <2>4. hand.part = "header" => c \in Compressed /\ w = 0 /\ fed[c] = 0
    BY <1>1, <1>4, <2>3 DEF Fits
  <2>5. hand.part = "plain" => c \notin Compressed
    BY <1>1 DEF Fits
  <2>6. \A k \in 1 .. 1 : CellsInHand[k] = w + k
    BY <1>2, <2>2, <2>3
  <2> QED
    BY <1>6, <2>2, <2>4, <2>5, <2>6 DEF w
<1> QED
  BY <1>5, <1>6

(* Writing right cells keeps every prefix there is, and lengthens one. *)
LEMMA WriteKeepsPrefixes ==
  ASSUME IInv, run = "transfer", hand # Torn, WriteAccepted, console' = WrittenConsole
  PROVE  LET c == hand.content
             q == task[c].ph
             w == task[c].written
         IN  /\ DOMAIN console' = DOMAIN console
             /\ \A p \in DOMAIN console : p # q => console'[p] = console[p]
             /\ console'[q] \in AnyPlaceholder /\ console'[q].content = c
             /\ console'[q].cells \in [1 .. Size[c] -> Nat]
             /\ console' \in [DOMAIN console -> AnyPlaceholder]
             /\ \A p \in DOMAIN console, d \in Content, m \in Nat :
                  HoldsPrefix(p, d, m) => HoldsPrefix(p, d, m)'
             /\ w + Len(CellsInHand) \in Nat /\ w + Len(CellsInHand) <= Size[c]
             /\ \A k \in 1 .. w + Len(CellsInHand) : console'[q].cells[k] = k
<1> DEFINE c == hand.content
           q == task[c].ph
           w == task[c].written
           n == Len(CellsInHand)
<1>t. Typed /\ TypeOK
  BY DEF IInv, Typed
<1>1. c \in Content
  BY HandIsDue
<1>2. /\ q \in DOMAIN console /\ w + n <= Size[c]
      /\ n \in Nat /\ \A k \in 1 .. n : CellsInHand[k] = w + k
  BY CellsAreDue DEF WriteAccepted
<1>3. w \in Nat /\ Size[c] \in Nat
  BY <1>1, <1>t, CursorTypes, Sizes
<1>4. HoldsPrefix(q, c, w)
  BY <1>1, <1>2 DEF IInv, InPlace
<1>5. /\ console[q] \in AnyPlaceholder /\ console[q].content = c
      /\ console[q].cells \in [1 .. Size[c] -> Nat]
      /\ \A k \in 1 .. w : console[q].cells[k] = k
  BY <1>1, <1>2, <1>4, <1>t DEF Typed, TypeOK, HoldsPrefix
<1> DEFINE new == [k \in 1 .. Size[c] |-> IF k \in w + 1 .. w + n THEN CellsInHand[k - w]
                                          ELSE console[q].cells[k]]
<1>6. console' = [console EXCEPT ![q] = [console[q] EXCEPT !.cells =
                    [k \in DOMAIN console[q].cells |->
                       IF k \in w + 1 .. w + n THEN CellsInHand[k - w]
                       ELSE console[q].cells[k]]]]
  BY Zenon DEF WrittenConsole
<1> HIDE DEF n, q, w
<1>7. \A k \in 1 .. Size[c] : k \in w + 1 .. w + n => CellsInHand[k - w] = k
  <2> SUFFICES ASSUME NEW k \in 1 .. Size[c], k \in w + 1 .. w + n
               PROVE  CellsInHand[k - w] = k
    OBVIOUS
  <2>1. k - w \in 1 .. n /\ w + (k - w) = k
    BY <1>2, <1>3
  <2> QED
    BY <1>2, <2>1
<1>8. \A k \in 1 .. Size[c] :
        new[k] = IF k \in w + 1 .. w + n THEN k ELSE console[q].cells[k]
  BY <1>7
<1>9. new \in [1 .. Size[c] -> Nat] /\ new \in Seq(Nat)
  <2>1. \A k \in 1 .. Size[c] : new[k] \in Nat
    <3> SUFFICES ASSUME NEW k \in 1 .. Size[c] PROVE new[k] \in Nat
      OBVIOUS
    <3>1. k \in Nat /\ console[q].cells[k] \in Nat
      BY <1>3, <1>5
    <3> QED
      BY <1>8, <3>1
  <2>2. new \in [1 .. Size[c] -> Nat]
    BY <2>1
  <2> QED
    BY <1>3, <2>2, SeqDef
<1>10. console' = [console EXCEPT ![q] = [console[q] EXCEPT !.cells = new]]
  <2>1. DOMAIN console[q].cells = 1 .. Size[c]
    BY <1>5
  <2> QED
    BY <1>6, <2>1
<1> HIDE DEF new
<1>11. /\ DOMAIN console' = DOMAIN console
       /\ \A p \in DOMAIN console : p # q => console'[p] = console[p]
       /\ console'[q] = [content |-> c, cells |-> new]
  <2>1. [console[q] EXCEPT !.cells = new] = [content |-> c, cells |-> new]
    BY <1>5 DEF AnyPlaceholder
  <2> QED
    BY <1>2, <1>10, <2>1
<1>12. console'[q] \in AnyPlaceholder /\ console'[q].content = c /\ console'[q].cells = new
  BY <1>1, <1>9, <1>11 DEF AnyPlaceholder
<1>13. console' \in [DOMAIN console -> AnyPlaceholder]
  BY <1>2, <1>10, <1>11, <1>12, <1>t DEF Typed
<1>14. ASSUME NEW p \in DOMAIN console, NEW d \in Content, NEW m \in Nat, HoldsPrefix(p, d, m)
       PROVE  HoldsPrefix(p, d, m)'
  <2>1. CASE p # q
    BY <1>11, <1>14, <2>1 DEF HoldsPrefix
  <2>2. CASE p = q
    <3>1. d = c /\ m <= Size[c] /\ \A k \in 1 .. m : console[q].cells[k] = k
      BY <1>5, <1>14, <2>2 DEF HoldsPrefix
    <3>2. \A k \in 1 .. m : k \in 1 .. Size[c]
      BY <1>3, <3>1
    <3>3. \A k \in 1 .. m : new[k] = k
      BY <1>8, <3>1, <3>2
    <3> QED
      BY <1>12, <2>2, <3>1, <3>3 DEF HoldsPrefix
  <2> QED
    BY <2>1, <2>2
<1>15. w + n \in Nat /\ w + n <= Size[c] /\ \A k \in 1 .. w + n : console'[q].cells[k] = k
  <2>1. \A k \in 1 .. w + n : k \in 1 .. Size[c] /\ (k \in 1 .. w \/ k \in w + 1 .. w + n)
    BY <1>2, <1>3
  <2>2. \A k \in 1 .. w + n : new[k] = k
    BY <1>5, <1>8, <2>1
  <2> QED
    BY <1>2, <1>3, <1>12, <2>2
<1> QED
  BY <1>9, <1>11, <1>12, <1>13, <1>14, <1>15 DEF q, w, n

(* The buffer the writer gives back is free, and nobody else's. *)
LEMMA ReleasePreserves ==
  ASSUME IInv, Release, hand # Torn
  PROVE  /\ freeSlots' \in Seq(Slot) /\ consuming' = NoSlot
         /\ UNCHANGED <<slots, items, producing, finished, stopped, failed>>
         /\ OneOwner'
<1>t. Typed
  BY DEF IInv
<1>2. consuming \in Slot /\ consuming # NoSlot
  BY <1>t, Nobody DEF IInv, Buffers, Typed
<1>3. /\ freeSlots' = Append(freeSlots, consuming) /\ consuming' = NoSlot
      /\ UNCHANGED <<slots, items, producing, finished, stopped, failed>>
  BY <1>2 DEF Release
<1>4. /\ Len(freeSlots') = Len(freeSlots) + 1 /\ freeSlots' \in Seq(Slot)
      /\ Len(freeSlots) \in Nat
      /\ \A i \in 1 .. Len(freeSlots) : freeSlots'[i] = freeSlots[i]
      /\ freeSlots'[Len(freeSlots) + 1] = consuming
  <2>1. freeSlots \in Seq(Slot)
    BY <1>t DEF Typed
  <2> QED
    BY <1>2, <1>3, <2>1, AppendProperties, LenProperties
<1>5. OneOwner'
  <2> DEFINE l == Len(freeSlots)
  <2>0. \A i \in 1 .. l + 1 : i \in 1 .. l \/ i = l + 1
    BY <1>4
  <2>f. \A i \in 1 .. l : freeSlots[i] # consuming /\ freeSlots[i] # producing
    BY DEF IInv, OneOwner
  <2>i. \A j \in 1 .. Len(items) : items[j].slot # consuming
    BY DEF IInv, OneOwner
  <2>p. producing # consuming
    BY <1>2 DEF IInv, OneOwner
  <2>e. freeSlots'[l + 1] = consuming
    BY <1>4
  <2> HIDE DEF l
  <2>1. \A i, j \in 1 .. Len(freeSlots') : freeSlots'[i] = freeSlots'[j] => i = j
    <3> SUFFICES ASSUME NEW i \in 1 .. l + 1, NEW j \in 1 .. l + 1, freeSlots'[i] = freeSlots'[j]
                 PROVE  i = j
      BY <1>4 DEF l
    <3>1. CASE i \in 1 .. l /\ j \in 1 .. l
      BY <3>1, <1>4 DEF IInv, OneOwner, l
    <3>2. CASE i = l + 1 \/ j = l + 1
      BY <3>2, <1>4, <2>0, <2>f DEF l
    <3> QED
      BY <3>1, <3>2, <2>0
  <2>2. \A i \in 1 .. Len(freeSlots'), j \in 1 .. Len(items) : freeSlots'[i] # items[j].slot
    <3> SUFFICES ASSUME NEW i \in 1 .. l + 1, NEW j \in 1 .. Len(items)
                 PROVE  freeSlots'[i] # items[j].slot
      BY <1>4 DEF l
    <3>1. CASE i \in 1 .. l
      BY <3>1, <1>4 DEF IInv, OneOwner, l
    <3>2. CASE i = l + 1
      BY <3>2, <2>e, <2>i
    <3> QED
      BY <3>1, <3>2, <2>0
  <2>3. \A i \in 1 .. Len(freeSlots') : freeSlots'[i] \notin {producing, NoSlot}
    <3> SUFFICES ASSUME NEW i \in 1 .. l + 1
                 PROVE  freeSlots'[i] # producing /\ freeSlots'[i] # NoSlot
      BY <1>4 DEF l
    <3>1. CASE i \in 1 .. l
      BY <3>1, <1>4, <1>t, <2>f, Elements, Nobody DEF l
    <3>2. CASE i = l + 1
      BY <3>2, <1>2, <2>e, <2>p
    <3> QED
      BY <3>1, <3>2, <2>0
  <2>4. \A i \in 1 .. Len(items) : items[i].slot \notin {producing, NoSlot}
    BY <1>t, Elements, Nobody DEF IInv, OneOwner
  <2>5. \A i, j \in 1 .. Len(items) : items[i].slot = items[j].slot => i = j
    BY DEF IInv, OneOwner
  <2> QED
    BY <1>3, <2>1, <2>2, <2>3, <2>4, <2>5 DEF OneOwner
<1> QED
  BY <1>3, <1>4, <1>5

(* Writing moves the writer's cursor of one content by one piece. *)
LEMMA WriterWritesPreserves == IInv /\ WriterWrites => IInv'
<1> SUFFICES ASSUME IInv, WriterWrites PROVE IInv'
  OBVIOUS
<1>t. Typed /\ TypeOK
  BY DEF IInv, Typed
<1>1. /\ run = "transfer" /\ hand # Torn /\ WriteAccepted /\ FeedAccepted
      /\ console' = WrittenConsole /\ task' = WrittenTask
      /\ fed' = IF hand.part = "payload" THEN [fed EXCEPT ![hand.content] = @ + 1] ELSE fed
      /\ Release /\ hand' = Torn
      /\ UNCHANGED <<registered, recorded, run, mine, readPh, metaPh, kept, toRegister>>
      /\ UNCHANGED <<reader, at, fetch>>
  BY DEF WriterWrites, WriteAccepted, readerVars
<1>2. /\ modified' \in BOOLEAN
      /\ taskFile' = taskFile \/ taskFile' = DumpTask(task')
  <2>1. modified' = (modified \/ (/\ hand.part # "payload" /\ slots[consuming].at = 0
                                  /\ hand.content \in Gamecard))
    BY DEF WriterWrites
  <2>2. PICK saved \in IF FlushDue(WrittenTask) THEN BOOLEAN ELSE {FALSE} :
          taskFile' = IF saved THEN DumpTask(WrittenTask) ELSE taskFile
    BY DEF WriterWrites
  <2>3. modified \in BOOLEAN
    BY <1>t DEF TypeOK
  <2>4. modified' \in BOOLEAN
    BY <2>1, <2>3
  <2>5. taskFile' = taskFile \/ taskFile' = DumpTask(task')
    BY <1>1, <2>2
  <2> QED
    BY <2>4, <2>5
<1>3. /\ hand \in AnyPiece /\ hand.content \in Content /\ Fits(hand)
      /\ consuming \in Slot /\ slots[consuming] = hand
      /\ task[hand.content].ph \in mine
      /\ Unit(hand) = Arrived(hand.content)
      /\ Arrived(hand.content) < Sent(hand.content)
      /\ Sent(hand.content) <= Units(hand.content)
  BY <1>1, HandIsDue
<1>4. PICK a, q, w, n, p :
        /\ a \in Content /\ a = hand.content /\ q = task[a].ph /\ w = task[a].written
        /\ n = Len(CellsInHand) /\ p = hand
  BY <1>3
<1>5. /\ q \in DOMAIN console /\ q \in mine /\ w \in Nat
      /\ Size[a] \in Nat /\ consuming # NoSlot
  BY <1>1, <1>3, <1>4, <1>t, CursorTypes, Sizes, Nobody DEF WriteAccepted
<1>6. /\ n \in Nat
      /\ p.part # "payload" => n = 1
      /\ p.part = "header" => a \in Compressed /\ w = 0 /\ fed[a] = 0
      /\ p.part = "plain" => a \notin Compressed
      /\ p.part = "payload" =>
           a \in Compressed /\ w + n = DecodedTo(a, fed[a] + 1) /\ fed[a] + 1 \in 0 .. Len(Reach[a])
  BY <1>1, <1>4, CellsAreDue
<1>7. /\ DOMAIN console' = DOMAIN console
      /\ \A x \in DOMAIN console : x # q => console'[x] = console[x]
      /\ console'[q] \in AnyPlaceholder /\ console'[q].content = a
      /\ console'[q].cells \in [1 .. Size[a] -> Nat]
      /\ console' \in [DOMAIN console -> AnyPlaceholder]
      /\ \A x \in DOMAIN console, d \in Content, m \in Nat :
           HoldsPrefix(x, d, m) => HoldsPrefix(x, d, m)'
      /\ w + n \in Nat /\ w + n <= Size[a]
      /\ \A k \in 1 .. w + n : console'[q].cells[k] = k
  BY <1>1, <1>4, WriteKeepsPrefixes
<1>8. /\ task' = [task EXCEPT ![a].written = @ + n]
      /\ task'[a].written = w + n /\ task'[a].ph = q /\ task'[a].skipped = task[a].skipped
      /\ \A c \in Content : c # a => task'[c] = task[c]
      /\ \A c \in Content : task'[c].ph = task[c].ph /\ task'[c].skipped = task[c].skipped
      /\ task' \in [Content -> [written : Nat, ph : AnyId, skipped : BOOLEAN]]
  <2>0. task \in [Content -> [written : Nat, ph : AnyId, skipped : BOOLEAN]]
    BY <1>t DEF TypeOK, AnyId
  <2>1. task' = [task EXCEPT ![a].written = @ + n]
    BY <1>1, <1>4 DEF WrittenTask
  <2>2. /\ task'[a].written = w + n /\ task'[a].ph = q /\ task'[a].skipped = task[a].skipped
        /\ \A c \in Content : c # a => task'[c] = task[c]
    BY <1>4, <2>0, <2>1
  <2>3. task' \in [Content -> [written : Nat, ph : AnyId, skipped : BOOLEAN]]
    BY <1>4, <1>5, <1>6, <2>0, <2>1
  <2>4. \A c \in Content : task'[c].ph = task[c].ph /\ task'[c].skipped = task[c].skipped
    BY <1>4, <2>2
  <2> QED
    BY <2>1, <2>2, <2>3, <2>4
<1>9. /\ freeSlots' \in Seq(Slot) /\ consuming' = NoSlot /\ OneOwner'
      /\ UNCHANGED <<slots, items, producing, finished, stopped, failed>>
  BY <1>1, ReleasePreserves
<1>10. /\ fed' \in [Content -> Nat]
       /\ \A c \in Content : c # a => fed'[c] = fed[c]
       /\ fed'[a] = IF p.part = "payload" THEN fed[a] + 1 ELSE fed[a]
  BY <1>1, <1>4, <1>t DEF Typed
<1>11. InPlace'
  <2>1. ASSUME NEW c \in Content, task'[c].ph \in DOMAIN console'
        PROVE  HoldsPrefix(task[c].ph, c, task[c].written)'
    <3>1. CASE c = a
      BY <3>1, <1>7, <1>8 DEF HoldsPrefix
    <3>2. CASE c # a
      <4>1. task[c].ph \in DOMAIN console /\ task'[c] = task[c] /\ task[c].written \in Nat
        BY <2>1, <3>2, <1>7, <1>8, <1>t, CursorTypes
      <4>2. HoldsPrefix(task[c].ph, c, task[c].written)
        BY <4>1 DEF IInv, InPlace
      <4>3. PICK x \in DOMAIN console, m \in Nat : x = task[c].ph /\ m = task[c].written
        BY <4>1
      <4>4. HoldsPrefix(x, c, m)'
        BY <1>7, <4>2, <4>3
      <4> QED
        BY <4>1, <4>3, <4>4 DEF HoldsPrefix
    <3> QED
      BY <3>1, <3>2
  <2>2. metaPh' \in DOMAIN console' =>
          console'[metaPh'] = [content |-> Meta, cells |-> WholeMeta]
    <3>1. metaPh \in DOMAIN console => console[metaPh] = [content |-> Meta, cells |-> WholeMeta]
      BY DEF IInv, InPlace
    <3>2. console[q].content = a
      BY <1>4, <1>5 DEF IInv, InPlace, HoldsPrefix
    <3>3. metaPh \in DOMAIN console => metaPh # q
      BY <1>4, <3>1, <3>2, Nobody
    <3> QED
      BY <1>1, <1>7, <3>1, <3>3
  <2> QED
    BY <2>1, <2>2 DEF InPlace
<1>12. TaskFileIsHonest'
  <2> SUFFICES ASSUME NEW c \in DOMAIN taskFile', taskFile'[c].ph \in DOMAIN console'
               PROVE  HoldsPrefix(taskFile[c].ph, c, taskFile[c].written)'
    BY DEF TaskFileIsHonest
  <2>1. CASE taskFile' = DumpTask(task')
    <3>1. /\ c \in Content /\ taskFile'[c].ph = task'[c].ph
          /\ taskFile'[c].written = task'[c].written
      BY <2>1 DEF DumpTask
    <3>2. HoldsPrefix(task[c].ph, c, task[c].written)'
      BY <1>11, <3>1 DEF InPlace
    <3> QED
      BY <3>1, <3>2 DEF HoldsPrefix
  <2>2. CASE taskFile' = taskFile
    <3>1. taskFile # NoFile
      <4>1. DOMAIN NoFile = {}
        BY DEF NoFile
      <4> QED
        BY <4>1, <2>2
    <3>2. c \in Content /\ taskFile[c].written \in Nat /\ taskFile[c].ph \in DOMAIN console
      BY <1>7, <1>t, <2>2, <3>1 DEF TypeOK
    <3>3. HoldsPrefix(taskFile[c].ph, c, taskFile[c].written)
      BY <2>2, <3>2 DEF IInv, TaskFileIsHonest
    <3>4. PICK x \in DOMAIN console, m \in Nat : x = taskFile[c].ph /\ m = taskFile[c].written
      BY <3>2
    <3>5. HoldsPrefix(x, c, m)'
      BY <1>7, <3>2, <3>3, <3>4
    <3> QED
      BY <2>2, <3>4, <3>5 DEF HoldsPrefix
  <2> QED
    BY <1>2, <2>1, <2>2
<1>13. TypeOK'
  <2>1. \A x \in DOMAIN console' :
          /\ console'[x].content \in Content \cup {Meta}
          /\ console'[x].content \in Content =>
               console'[x].cells \in [1 .. Size[console'[x].content] -> Nat]
    <3> SUFFICES ASSUME NEW x \in DOMAIN console
                 PROVE  /\ console'[x].content \in Content \cup {Meta}
                        /\ console'[x].content \in Content =>
                             console'[x].cells \in [1 .. Size[console'[x].content] -> Nat]
      BY <1>7
    <3>1. CASE x = q
      BY <1>4, <1>7, <3>1
    <3>2. CASE x # q
      BY <1>7, <1>t, <3>2 DEF TypeOK
    <3> QED
      BY <3>1, <3>2
  <2>2. taskFile' # NoFile =>
          taskFile' \in [Content -> [written : Nat, ph : PlaceholderId \cup {NoPlaceholder}]]
    BY <1>2, <1>8, <1>t DEF TypeOK, DumpTask, AnyId
  <2> QED
    BY <1>1, <1>2, <1>7, <1>8, <1>t, <2>1, <2>2 DEF TypeOK, AnyId
<1>15. Typed'
  BY <1>1, <1>7, <1>9, <1>10, <1>13, <1>t DEF Typed
<1>17. Buffers'
  BY <1>1, <1>9 DEF IInv, Buffers, NextPiece, PieceDue, HeaderDue
<1>18. \A c \in Content : Sent(c)' = Sent(c) /\ (c # a => Arrived(c)' = Arrived(c))
  BY <1>1, <1>8, <1>10 DEF Sent, Arrived
<1>19. /\ Arrived(a)' = Arrived(a) + 1 /\ Arrived(a) = Unit(p) /\ Arrived(a) < Sent(a)
       /\ Sent(a) <= Units(a) /\ Arrived(a) \in Nat /\ Sent(a) \in Nat
  <2>1. /\ Arrived(a) = Unit(p) /\ Arrived(a) < Sent(a) /\ Sent(a) <= Units(a)
        /\ Arrived(a) \in Nat /\ Sent(a) \in Nat
    BY <1>3, <1>4, <1>t, CursorTypes
  <2>2. /\ Arrived(a) = IF a \notin Compressed THEN w ELSE IF w = 0 THEN 0 ELSE 1 + fed[a]
        /\ Arrived(a)' = IF a \notin Compressed THEN w + n
                         ELSE IF w + n = 0 THEN 0 ELSE 1 + fed'[a]
    BY <1>1, <1>4, <1>5, <1>8 DEF Arrived
  <2>3. p.part \in Parts /\ fed[a] \in Nat
    BY <1>3, <1>4, <1>t, CursorTypes DEF AnyPiece
  <2>n. w \in Nat /\ n \in Nat
    BY <1>5, <1>6
  <2>4. CASE p.part = "plain"
    <3>1. n = 1 /\ a \notin Compressed
      BY <1>6, <2>4
    <3> QED
      BY <2>1, <2>2, <2>n, <3>1
  <2>5. CASE p.part = "header"
    <3>1. n = 1 /\ a \in Compressed /\ w = 0 /\ fed[a] = 0
      BY <1>6, <2>5
    <3>2. fed'[a] = fed[a]
      BY <1>10, <2>5
    <3> QED
      BY <2>1, <2>2, <2>n, <3>1, <3>2
  <2>6. CASE p.part = "payload"
    <3>1. /\ a \in Compressed /\ fed[a] + 1 \in 0 .. Len(Reach[a])
          /\ w + n = DecodedTo(a, fed[a] + 1)
      BY <1>6, <2>6
    <3>2. w + n > 0
      BY <1>4, <3>1, Sizes
    <3>3. Unit(p) > 0
      BY <1>3, <1>4, <2>6 DEF Unit, AnyPiece
    <3>4. Arrived(a) = 1 + fed[a]
      BY <2>1, <2>2, <3>1, <3>3
    <3>5. Arrived(a)' = 1 + fed'[a] /\ fed'[a] = fed[a] + 1
      BY <1>10, <2>2, <2>6, <3>1, <3>2
    <3> QED
      BY <2>1, <2>3, <3>4, <3>5
  <2> QED
    BY <2>1, <2>3, <2>4, <2>5, <2>6 DEF Parts
<1>20. /\ InFlight' = Queued /\ Queued \subseteq InFlight
       /\ \A x \in InFlight : x \in Queued \/ x = p
       /\ \A x \in Queued : x.content \in Content /\ Unit(x) \in Nat /\ Before(p, x)
  <2>1. InFlight' = Queued /\ Queued \subseteq InFlight
    BY <1>1, <1>9 DEF InFlight, Queued
  <2>2. \A x \in InFlight : x \in Queued \/ x = p
    BY <1>4 DEF InFlight
  <2>3. \A x \in Queued : x \in AnyPiece /\ Before(p, x)
    BY <1>1, <1>4, <1>t, Elements DEF IInv, Flight, Queued
  <2>4. \A x \in Queued : x.content \in Content /\ Unit(x) \in Nat
    BY <2>3 DEF AnyPiece, Unit
  <2> QED
    BY <2>1, <2>2, <2>3, <2>4
<1>21. Flight'
  <2>1. \A x \in InFlight' :
          Fits(x) /\ Arrived(x.content)' <= Unit(x) /\ Unit(x) < Sent(x.content)'
    <3> SUFFICES ASSUME NEW x \in Queued
                 PROVE  Fits(x) /\ Arrived(x.content)' <= Unit(x) /\ Unit(x) < Sent(x.content)'
      BY <1>20
    <3>1. Fits(x) /\ Arrived(x.content) <= Unit(x) /\ Unit(x) < Sent(x.content)
      BY <1>1, <1>20 DEF IInv, Flight
    <3>2. x.content \in Content /\ Unit(x) \in Nat /\ Before(p, x)
      BY <1>20
    <3>3. CASE x.content # a
      BY <1>18, <3>1, <3>2, <3>3
    <3>4. CASE x.content = a
      <4>1. Unit(p) < Unit(x)
        BY <1>4, <3>2, <3>4 DEF Before, Content
      <4> QED
        BY <1>18, <1>19, <3>1, <3>2, <3>4, <4>1
    <3> QED
      BY <3>3, <3>4
  <2>2. \A c \in Content : \A u \in Arrived(c)' .. Sent(c)' - 1 :
          \E x \in InFlight' : x.content = c /\ Unit(x) = u
    <3> SUFFICES ASSUME NEW c \in Content, NEW u \in Arrived(c)' .. Sent(c)' - 1
                 PROVE  \E x \in Queued : x.content = c /\ Unit(x) = u
      BY <1>20
    <3>1. Arrived(c) \in Nat /\ Sent(c) \in Nat
      BY <1>t, CursorTypes
    <3>2. u \in Arrived(c) .. Sent(c) - 1 /\ (c = a => u # Arrived(a))
      BY <1>18, <1>19, <3>1
    <3>3. PICK x \in InFlight : x.content = c /\ Unit(x) = u
      BY <1>1, <3>2 DEF IInv, Flight
    <3>4. x # p
      BY <1>4, <1>19, <3>2, <3>3
    <3> QED
      BY <1>20, <3>3, <3>4
  <2>3. \A i, j \in 1 .. Len(items') : i < j => Before(items'[i].range, items'[j].range)
    BY <1>1, <1>9 DEF IInv, Flight
  <2> QED
    BY <1>1, <2>1, <2>2, <2>3 DEF Flight
<1>22. Cursors'
  <2>1. \A c \in Content :
          /\ Arrived(c)' <= Sent(c)' /\ Sent(c)' <= Units(c)
          /\ c \in Compressed /\ ~fetch[c].headerSent => fetch[c].streamRead = 0
          /\ c > at \/ (c = at /\ reader = "choosing") => Sent(c)' = Arrived(c)'
    <3> SUFFICES ASSUME NEW c \in Content
                 PROVE  /\ Arrived(c)' <= Sent(c)' /\ Sent(c)' <= Units(c)
                        /\ c \in Compressed /\ ~fetch[c].headerSent => fetch[c].streamRead = 0
                        /\ c > at \/ (c = at /\ reader = "choosing") => Sent(c)' = Arrived(c)'
      OBVIOUS
    <3>1. /\ Arrived(c) <= Sent(c) /\ Sent(c) <= Units(c)
          /\ c \in Compressed /\ ~fetch[c].headerSent => fetch[c].streamRead = 0
          /\ c > at \/ (c = at /\ reader = "choosing") => Sent(c) = Arrived(c)
      BY <1>1 DEF IInv, Cursors
    <3>2. CASE c = a
      BY <1>18, <1>19, <3>1, <3>2
    <3>3. CASE c # a
      BY <1>18, <3>1, <3>3
    <3> QED
      BY <3>2, <3>3
  <2>2. \A c \in Content : c < at =>
          task'[c].skipped \/ task'[c].written >= Size[c] \/ Sent(c)' = Units(c)
    <3> SUFFICES ASSUME NEW c \in Content, c < at
                 PROVE  task'[c].skipped \/ task'[c].written >= Size[c] \/ Sent(c)' = Units(c)
      OBVIOUS
    <3>1. task[c].skipped \/ task[c].written >= Size[c] \/ Sent(c) = Units(c)
      BY <1>1 DEF IInv, Cursors
    <3>2. CASE c = a
      BY <1>4, <1>5, <1>6, <1>8, <1>18, <3>1, <3>2
    <3>3. CASE c # a
      BY <1>8, <1>18, <3>1, <3>3
    <3> QED
      BY <3>2, <3>3
  <2>3. \A c \in Content : c \in Compressed /\ task'[c].ph \in mine =>
          /\ task'[c].written = 0 => fed'[c] = 0
          /\ task'[c].written # 0 => task'[c].written = DecodedTo(c, fed'[c])
    <3> SUFFICES ASSUME NEW c \in Content, c \in Compressed, task'[c].ph \in mine
                 PROVE  /\ task'[c].written = 0 => fed'[c] = 0
                        /\ task'[c].written # 0 => task'[c].written = DecodedTo(c, fed'[c])
      OBVIOUS
    <3>1. CASE c # a
      BY <1>1, <1>8, <1>10, <3>1 DEF IInv, Cursors
    <3>2. CASE c = a
      <4>1. p.part \in Parts
        BY <1>3, <1>4 DEF AnyPiece
      <4>2. CASE p.part = "header"
        BY <1>5, <1>6, <1>8, <1>10, <3>2, <4>2 DEF DecodedTo
      <4>3. CASE p.part = "payload"
        <5>1. task'[c].written = DecodedTo(a, fed[a] + 1) /\ fed'[c] = fed[a] + 1
          BY <1>6, <1>8, <1>10, <3>2, <4>3
        <5>2. task'[c].written > 0
          BY <1>6, <3>2, <4>3, <5>1, Sizes
        <5> QED
          BY <3>2, <5>1, <5>2
      <4>4. p.part # "plain"
        BY <1>6, <3>2
      <4> QED
        BY <4>1, <4>2, <4>3, <4>4 DEF Parts
    <3> QED
      BY <3>1, <3>2
  <2>4. /\ reader \in {"reading", "filling"} => task[at].ph \in mine
        /\ finished => at > NumContents
    BY <1>1 DEF IInv, Cursors
  <2>5. reader \in {"reading", "filling"} => task'[at].ph \in mine
    <3>1. reader \in {"reading", "filling"} => at \in Content
      BY <1>t DEF Typed
    <3> QED
      BY <1>8, <2>4, <3>1
  <2>6. \A c \in Content : Units(c)' = Units(c)
    BY DEF Units
  <2> QED
    BY <1>1, <1>9, <2>1, <2>2, <2>3, <2>4, <2>5, <2>6 DEF Cursors
<1>23. RegisteredIsWhole' /\ Grounded' /\ Registering'
  BY <1>1 DEF IInv, RegisteredIsWhole, Grounded, Registering
<1>24. Planned'
  <2>1. \A c \in Content :
          /\ task'[c].skipped => c \in DOMAIN registered' /\ task'[c].ph = NoPlaceholder
          /\ ~task'[c].skipped => task'[c].ph \in DOMAIN console'
    BY <1>1, <1>7, <1>8 DEF IInv, Planned
  <2>2. \A c \in Content : ~task'[c].skipped /\ task'[c].written < Size[c] => task'[c].ph \in mine
    <3> SUFFICES ASSUME NEW c \in Content, ~task'[c].skipped, task'[c].written < Size[c], c # a
                 PROVE  task[c].ph \in mine
      BY <1>5, <1>8
    <3> QED
      BY <1>1, <1>8 DEF IInv, Planned, Needing
  <2>3. metaPh' \in DOMAIN console' \/ Meta \in DOMAIN registered'
    BY <1>1, <1>7 DEF IInv, Planned
  <2> QED
    BY <1>1, <2>1, <2>2, <2>3 DEF Planned, Needing
<1> QED
  BY <1>9, <1>11, <1>12, <1>15, <1>17, <1>21, <1>22, <1>23, <1>24 DEF IInv

(* When the transfer breaks, what Prepare read out goes and the rest stays *)
(* as it was: nothing flies in a run that failed.                          *)
LEMMA TransferStopsPreserves ==
  ASSUME IInv, run = "transfer", run' = "failed", hand' = Torn,
         CleanupAfterFailure, readPh' = {},
         freeSlots' \in Seq(Slot), consuming' = NoSlot, OneOwner',
         UNCHANGED <<slots, items, producing, finished, stopped, failed>>,
         UNCHANGED <<registered, recorded, taskFile, task, mine, metaPh, kept, modified,
                     flushed, fed, toRegister, reader, at, fetch>>
  PROVE  IInv'
<1>t. Typed /\ TypeOK
  BY DEF IInv, Typed
<1>1. /\ DOMAIN console' \subseteq DOMAIN console
      /\ \A p \in DOMAIN console' : console'[p] = console[p]
      /\ console' = [p \in DOMAIN console' |-> console[p]]
  <2>1. console' = Without(console, readPh)
    BY DEF CleanupAfterFailure
  <2>2. /\ DOMAIN console' = DOMAIN console \ readPh
        /\ console' = [p \in DOMAIN console \ readPh |-> console[p]]
    BY <2>1, WithoutProperties
  <2> QED
    BY <2>2
<1>2. TypeOK'
  BY <1>1, <1>t DEF TypeOK
<1>3. console' \in [DOMAIN console' -> AnyPlaceholder]
  BY <1>1, <1>t DEF Typed
<1>4. Typed'
  BY <1>2, <1>3, <1>t DEF Typed
<1>5. TaskFileIsHonest'
  <2> SUFFICES ASSUME NEW c \in DOMAIN taskFile, taskFile[c].ph \in DOMAIN console'
               PROVE  HoldsPrefix(taskFile[c].ph, c, taskFile[c].written)'
    BY DEF TaskFileIsHonest
  <2>1. HoldsPrefix(taskFile[c].ph, c, taskFile[c].written)
    BY <1>1 DEF IInv, TaskFileIsHonest
  <2> QED
    BY <1>1, <2>1 DEF HoldsPrefix
<1>6. InPlace'
  <2>1. ASSUME NEW c \in Content, task[c].ph \in DOMAIN console'
        PROVE  HoldsPrefix(task[c].ph, c, task[c].written)'
    <3>1. HoldsPrefix(task[c].ph, c, task[c].written)
      BY <1>1, <2>1 DEF IInv, InPlace
    <3> QED
      BY <1>1, <2>1, <3>1 DEF HoldsPrefix
  <2>2. metaPh \in DOMAIN console' =>
          console'[metaPh] = [content |-> Meta, cells |-> WholeMeta]
    BY <1>1 DEF IInv, InPlace
  <2> QED
    BY <2>1, <2>2 DEF InPlace
<1>7. Grounded' /\ Planned' /\ Flight' /\ Cursors' /\ Registering'
  BY DEF Grounded, Planned, Flight, Cursors, Registering
<1>8. RegisteredIsWhole'
  BY DEF IInv, RegisteredIsWhole
<1>9. Buffers'
  BY DEF IInv, Buffers, NextPiece, PieceDue, HeaderDue
<1> QED
  BY <1>4, <1>5, <1>6, <1>7, <1>8, <1>9 DEF IInv

LEMMA WriterFailsPreserves == IInv /\ (WriterFails \/ WriterHearsFailed) => IInv'
<1> SUFFICES ASSUME IInv, WriterFails \/ WriterHearsFailed PROVE IInv'
  OBVIOUS
<1>t. Typed
  BY DEF IInv
<1>1. /\ run = "transfer" /\ run' = "failed" /\ hand' = Torn
      /\ CleanupAfterFailure /\ readPh' = {}
      /\ UNCHANGED <<registered, recorded, taskFile, task, mine, metaPh, kept, modified,
                     flushed, fed, toRegister, reader, at, fetch>>
  BY DEF WriterFails, WriterHearsFailed, readerVars
<1>2. /\ freeSlots' \in Seq(Slot) /\ consuming' = NoSlot /\ OneOwner'
      /\ UNCHANGED <<slots, items, producing, finished, stopped, failed>>
  <2>1. CASE WriterFails
    BY <2>1, ReleasePreserves DEF WriterFails
  <2>2. CASE WriterHearsFailed
    <3>1. /\ UNCHANGED <<slots, items, freeSlots, producing, consuming, finished, stopped, failed>>
          /\ hand = Torn
      BY <2>2 DEF WriterHearsFailed, queueVars
    <3>2. OneOwner'
      BY <3>1 DEF IInv, OneOwner
    <3> QED
      BY <1>t, <3>1, <3>2 DEF IInv, Buffers, Typed
  <2> QED
    BY <2>1, <2>2
<1> QED
  BY <1>1, <1>2, TransferStopsPreserves

-----------------------------------------------------------------------------
(* Finish. *)

(* Register visits the meta content and every content of the task. *)
LEMMA OrderVisitsAll ==
  /\ Order \in Seq(Content \cup {Meta})
  /\ \A c \in Content \cup {Meta} : \E i \in 1 .. Len(Order) : Order[i] = c
<1> DEFINE one == <<Meta>>
           rest == [i \in Content |-> i]
<1>1. one \in Seq(Content \cup {Meta}) /\ Len(one) = 1 /\ one[1] = Meta
  OBVIOUS
<1>2. rest \in Seq(Content \cup {Meta}) /\ Len(rest) = NumContents
  BY ContentsAssumption, SeqDef DEF Content
<1>3. Order = one \o rest
  BY DEF Order
<1>c. \A c \in Content : rest[c] = c
  OBVIOUS
<1> HIDE DEF one, rest
<1>4. /\ Order \in Seq(Content \cup {Meta}) /\ Len(Order) = Len(one) + Len(rest)
      /\ \A i \in 1 .. Len(one) + Len(rest) :
           Order[i] = IF i <= Len(one) THEN one[i] ELSE rest[i - Len(one)]
  BY <1>1, <1>2, <1>3, ConcatProperties
<1>5. Order[1] = Meta /\ 1 \in 1 .. Len(Order)
  BY <1>1, <1>2, <1>4, ContentsAssumption
<1>6. ASSUME NEW c \in Content PROVE c + 1 \in 1 .. Len(Order) /\ Order[c + 1] = c
  <2>1. c \in Nat /\ c >= 1 /\ c <= NumContents /\ NumContents \in Nat
    BY ContentsAssumption DEF Content
  <2>2. PICK i \in 1 .. Len(one) + Len(rest) : i = c + 1
    BY <1>1, <1>2, <2>1
  <2>3. ~(i <= Len(one)) /\ i - Len(one) = c
    BY <1>1, <2>1, <2>2
  <2>4. Order[i] = IF i <= Len(one) THEN one[i] ELSE rest[i - Len(one)]
    BY <1>4
  <2>5. Order[i] = rest[c]
    BY <2>3, <2>4
  <2> QED
    BY <1>4, <1>c, <2>2, <2>5
<1>7. \A c \in Content : \E i \in 1 .. Len(Order) : Order[i] = c
  BY <1>6
<1> QED
  BY <1>4, <1>5, <1>7

LEMMA WriterHearsFinishedPreserves == IInv /\ WriterHearsFinished => IInv'
<1> SUFFICES ASSUME IInv, WriterHearsFinished PROVE IInv'
  OBVIOUS
<1>r. CASE ~TransferComplete(task)
  BY <1>r, AbandonAndEnd DEF WriterHearsFinished
<1>a. SUFFICES ASSUME TransferComplete(task) PROVE IInv'
  BY <1>r
<1>t. Typed /\ TypeOK
  BY DEF IInv, Typed
<1>1. /\ run = "transfer" /\ run' = "register" /\ toRegister' = Order
      /\ TransferComplete(task)
      /\ UNCHANGED <<slots, items, freeSlots, producing, consuming, finished, stopped, failed>>
      /\ UNCHANGED <<console, registered, recorded, taskFile, task, mine, readPh, metaPh, kept,
                     modified, flushed, hand, fed, reader, at, fetch>>
  BY <1>a DEF WriterHearsFinished, queueVars, consoleVars, readerVars
<1>2. TypeOK'
  BY <1>1, <1>t DEF TypeOK
<1>3. Typed'
  BY <1>1, <1>2, <1>t, OrderVisitsAll DEF Typed
<1>4. RegisteredIsWhole' /\ TaskFileIsHonest' /\ InPlace'
  BY <1>1 DEF IInv, RegisteredIsWhole, TaskFileIsHonest, InPlace, HoldsPrefix
<1>5. Grounded' /\ Flight' /\ Cursors'
  BY <1>1 DEF Grounded, Flight, Cursors
<1>6. OneOwner'
  BY <1>1 DEF IInv, OneOwner
<1>7. Buffers'
  BY <1>1 DEF IInv, Buffers, NextPiece, PieceDue, HeaderDue
<1>8. Planned'
  BY <1>1 DEF IInv, Planned
<1>9. Registering'
  <2>1. TransferComplete(task)'
    BY <1>1 DEF TransferComplete
  <2>2. ASSUME NEW c \in Content \cup {Meta}, c \notin DOMAIN registered
        PROVE  PlaceholderOf(c)' \in DOMAIN console' /\ (c \in Content => ~task'[c].skipped)
    <3>1. CASE c = Meta
      BY <1>1, <2>2, <3>1, Nobody DEF IInv, Planned, PlaceholderOf
    <3>2. CASE c \in Content
      BY <1>1, <2>2, <3>2, Nobody DEF IInv, Planned, PlaceholderOf
    <3> QED
      BY <3>1, <3>2
  <2> QED
    BY <1>1, <2>1, <2>2, OrderVisitsAll DEF Registering
<1> QED
  BY <1>3, <1>4, <1>5, <1>6, <1>7, <1>8, <1>9 DEF IInv

LEMMA FinishRecordsPreserves == IInv /\ FinishRecords => IInv'
<1> SUFFICES ASSUME IInv, FinishRecords PROVE IInv'
  OBVIOUS
<1>t. Typed /\ TypeOK
  BY DEF IInv, Typed
<1>1. /\ run = "register" /\ toRegister = <<>> /\ recorded' = TRUE /\ run' = "closing"
      /\ UNCHANGED <<slots, items, freeSlots, producing, consuming, finished, stopped, failed>>
      /\ UNCHANGED <<console, registered, taskFile, task, mine, readPh, metaPh, kept,
                     modified, flushed, hand, fed, toRegister, reader, at, fetch>>
  BY DEF FinishRecords, queueVars, readerVars
<1>2. TypeOK'
  BY <1>1, <1>t DEF TypeOK
<1>3. Typed'
  BY <1>1, <1>2, <1>t DEF Typed
<1>4. RegisteredIsWhole'
  <2>0. 1 .. Len(toRegister) = {}
    BY <1>1
  <2>n. \A c \in Content \cup {Meta} : c \in DOMAIN registered
    BY <1>1, <2>0 DEF IInv, Registering
  <2>1. DOMAIN registered = Content \cup {Meta}
    BY <1>t, <2>n DEF TypeOK
  <2> QED
    BY <1>1, <2>1 DEF IInv, RegisteredIsWhole
<1>5. TaskFileIsHonest' /\ InPlace'
  BY <1>1 DEF IInv, TaskFileIsHonest, InPlace, HoldsPrefix
<1>6. Grounded' /\ Planned' /\ Flight' /\ Cursors' /\ Registering'
  BY <1>1 DEF Grounded, Planned, Flight, Cursors, Registering
<1>7. OneOwner'
  BY <1>1 DEF IInv, OneOwner
<1>8. Buffers'
  BY <1>1 DEF IInv, Buffers, NextPiece, PieceDue, HeaderDue
<1> QED
  BY <1>3, <1>4, <1>5, <1>6, <1>7, <1>8 DEF IInv

(* What Register finds in the placeholder of a content it has to register. *)
LEMMA PlaceholderIsWhole ==
  ASSUME IInv, run = "register", NEW c \in Content \cup {Meta},
         PlaceholderOf(c) \in DOMAIN console, c \in Content => ~task[c].skipped
  PROVE  /\ console[PlaceholderOf(c)].content = c
         /\ console[PlaceholderOf(c)].cells = IF c = Meta THEN WholeMeta ELSE Whole(c)
<1>t. Typed /\ TypeOK
  BY DEF IInv, Typed
<1>1. CASE c = Meta
  BY <1>1, Nobody DEF IInv, InPlace, PlaceholderOf
<1>2. CASE c \in Content
  <2> DEFINE p == task[c].ph
             cells == console[p].cells
  <2>1. PlaceholderOf(c) = p /\ p \in DOMAIN console
    BY <1>2, Nobody DEF PlaceholderOf
  <2>2. HoldsPrefix(p, c, task[c].written)
    BY <1>2, <2>1 DEF IInv, InPlace
  <2>3. task[c].written >= Size[c] /\ task[c].written \in Nat /\ Size[c] \in Nat
    BY <1>2, <1>t, CursorTypes, Sizes DEF IInv, Registering, TransferComplete
  <2>4. console[p].content = c /\ \A k \in 1 .. Size[c] : cells[k] = k
    BY <2>2, <2>3 DEF HoldsPrefix
  <2>5. cells \in [1 .. Size[c] -> Nat]
    BY <1>2, <1>t, <2>1, <2>4 DEF TypeOK
  <2>6. cells = [k \in 1 .. Size[c] |-> k]
    BY <2>4, <2>5
  <2> QED
    BY <1>2, <2>1, <2>4, <2>6, Nobody DEF Whole
<1> QED
  BY <1>1, <1>2

(* One content goes into the storage, or turns out to be there already. *)
LEMMA RegisterNextPreserves == IInv /\ RegisterNext => IInv'
<1> SUFFICES ASSUME IInv, RegisterNext PROVE IInv'
  OBVIOUS
<1>t. Typed /\ TypeOK
  BY DEF IInv, Typed
<1>1. /\ run = "register" /\ toRegister # <<>> /\ toRegister' = Tail(toRegister)
      /\ UNCHANGED <<slots, items, freeSlots, producing, consuming, finished, stopped, failed>>
      /\ UNCHANGED <<recorded, taskFile, run, task, mine, readPh, metaPh, kept, modified,
                     flushed, hand, fed, reader, at, fetch>>
  BY DEF RegisterNext, queueVars, readerVars
<1>2. PICK h, p : h = Head(toRegister) /\ p = PlaceholderOf(h)
  OBVIOUS
<1>3. /\ h \in Content \cup {Meta} /\ toRegister' \in Seq(Content \cup {Meta})
      /\ \A c : (\E i \in 1 .. Len(toRegister) : toRegister[i] = c)
                  => c = h \/ \E i \in 1 .. Len(toRegister') : toRegister'[i] = c
  <2>1. toRegister \in Seq(Content \cup {Meta})
    BY <1>t DEF Typed
  <2>2. /\ h \in Content \cup {Meta} /\ toRegister' \in Seq(Content \cup {Meta})
        /\ Len(toRegister') = Len(toRegister) - 1
        /\ \A i \in 1 .. Len(toRegister') : toRegister'[i] = toRegister[i + 1]
    BY <1>1, <1>2, <2>1, HeadTailProperties
  <2>3. h = toRegister[1] /\ Len(toRegister) \in Nat
    BY <1>1, <1>2, <2>1, LenProperties
  <2>4. ASSUME NEW i \in 1 .. Len(toRegister), i # 1
        PROVE  i - 1 \in 1 .. Len(toRegister') /\ toRegister'[i - 1] = toRegister[i]
    <3>1. i - 1 \in 1 .. Len(toRegister') /\ (i - 1) + 1 = i
      BY <2>2, <2>3, <2>4
    <3> QED
      BY <2>2, <3>1
  <2> QED
    BY <2>2, <2>3, <2>4
<1>4. \/ /\ p \notin DOMAIN console \/ (h \in Content /\ task[h].skipped)
         /\ UNCHANGED <<console, registered>>
      \/ /\ p \in DOMAIN console /\ (h \in Content => ~task[h].skipped)
         /\ registered' = IF h \in DOMAIN registered THEN registered
                          ELSE With(registered, h, console[p].cells)
         /\ console' = Without(console, {p})
  BY <1>2 DEF RegisterNext
<1>5. /\ DOMAIN console' \subseteq DOMAIN console
      /\ \A x \in DOMAIN console' : console'[x] = console[x]
      /\ console' = [x \in DOMAIN console' |-> console[x]]
      /\ \A x \in DOMAIN console \ DOMAIN console' : x = p
  <2>1. CASE console' = console
    BY <1>t, <2>1 DEF Typed
  <2>2. CASE console' = Without(console, {p})
    <3>1. /\ DOMAIN console' = DOMAIN console \ {p}
          /\ console' = [x \in DOMAIN console \ {p} |-> console[x]]
      BY <2>2, WithoutProperties
    <3> QED
      BY <3>1
  <2> QED
    BY <1>4, <2>1, <2>2
<1>6. /\ DOMAIN registered \subseteq DOMAIN registered'
      /\ DOMAIN registered' \subseteq DOMAIN registered \cup {h}
      /\ \A c \in DOMAIN registered : registered'[c] = registered[c]
      /\ h \in DOMAIN registered' \ DOMAIN registered =>
           registered'[h] = IF h = Meta THEN WholeMeta ELSE Whole(h)
  <2>1. CASE registered' = registered
    BY <2>1
  <2>2. CASE /\ p \in DOMAIN console /\ (h \in Content => ~task[h].skipped)
             /\ h \notin DOMAIN registered
             /\ registered' = With(registered, h, console[p].cells)
    <3>1. registered' = [y \in DOMAIN registered \cup {h} |->
                           IF y = h THEN console[p].cells ELSE registered[y]]
      BY <2>2 DEF With
    <3>2. console[p].cells = IF h = Meta THEN WholeMeta ELSE Whole(h)
      BY <1>1, <1>2, <1>3, <2>2, PlaceholderIsWhole
    <3> QED
      BY <2>2, <3>1, <3>2
  <2> QED
    BY <1>4, <2>1, <2>2
<1>8. h \in DOMAIN registered'
  <2>1. CASE h \in DOMAIN registered
    BY <1>6, <2>1
  <2>2. CASE h \notin DOMAIN registered
    <3>1. p \in DOMAIN console /\ (h \in Content => ~task[h].skipped)
      BY <1>1, <1>2, <1>3, <2>2 DEF IInv, Registering
    <3>2. registered' = With(registered, h, console[p].cells)
      BY <1>4, <2>2, <3>1
    <3> QED
      BY <3>2 DEF With
  <2> QED
    BY <2>1, <2>2
<1>9. ASSUME NEW c \in Content \cup {Meta}, c # h, PlaceholderOf(c) \in DOMAIN console,
             c \in Content => ~task[c].skipped
      PROVE  PlaceholderOf(c)' \in DOMAIN console'
  <2>1. PlaceholderOf(c)' = PlaceholderOf(c)
    BY <1>1 DEF PlaceholderOf
  <2>2. console[PlaceholderOf(c)].content = c
    BY <1>1, <1>9, PlaceholderIsWhole
  <2>3. CASE console' = console
    BY <1>9, <2>1, <2>3
  <2>4. CASE p \in DOMAIN console /\ (h \in Content => ~task[h].skipped)
    <3>1. console[p].content = h
      BY <1>1, <1>2, <1>3, <2>4, PlaceholderIsWhole
    <3> QED
      BY <1>5, <1>9, <2>1, <2>2, <3>1
  <2> QED
    BY <1>4, <2>3, <2>4
<1>10. TypeOK'
  <2>1. DOMAIN registered' \subseteq Content \cup {Meta}
    BY <1>3, <1>6, <1>t DEF TypeOK
  <2> QED
    BY <1>1, <1>5, <1>t, <2>1 DEF TypeOK
<1>11. Typed'
  <2>1. console' \in [DOMAIN console' -> AnyPlaceholder]
    BY <1>5, <1>t DEF Typed
  <2> QED
    BY <1>1, <1>3, <1>10, <1>t, <2>1 DEF Typed
<1>12. RegisteredIsWhole'
  <2>1. \A c \in DOMAIN registered : registered[c] = IF c = Meta THEN WholeMeta ELSE Whole(c)
    BY DEF IInv, RegisteredIsWhole
  <2>2. \A c \in DOMAIN registered' : registered'[c] = IF c = Meta THEN WholeMeta ELSE Whole(c)
    BY <1>6, <2>1
  <2>3. recorded' => DOMAIN registered' = Content \cup {Meta}
    BY <1>1, <1>3, <1>6 DEF IInv, RegisteredIsWhole
  <2> QED
    BY <2>2, <2>3 DEF RegisteredIsWhole
<1>13. TaskFileIsHonest'
  <2> SUFFICES ASSUME NEW c \in DOMAIN taskFile, taskFile[c].ph \in DOMAIN console'
               PROVE  HoldsPrefix(taskFile[c].ph, c, taskFile[c].written)'
    BY <1>1 DEF TaskFileIsHonest
  <2>1. HoldsPrefix(taskFile[c].ph, c, taskFile[c].written)
    BY <1>5 DEF IInv, TaskFileIsHonest
  <2> QED
    BY <1>1, <1>5, <2>1 DEF HoldsPrefix
<1>14. InPlace'
  <2>1. ASSUME NEW c \in Content, task[c].ph \in DOMAIN console'
        PROVE  HoldsPrefix(task[c].ph, c, task[c].written)'
    <3>1. HoldsPrefix(task[c].ph, c, task[c].written)
      BY <1>5, <2>1 DEF IInv, InPlace
    <3> QED
      BY <1>1, <1>5, <2>1, <3>1 DEF HoldsPrefix
  <2>2. metaPh' \in DOMAIN console' =>
          console'[metaPh'] = [content |-> Meta, cells |-> WholeMeta]
    BY <1>1, <1>5 DEF IInv, InPlace
  <2> QED
    BY <1>1, <2>1, <2>2 DEF InPlace
<1>15. Grounded' /\ Flight' /\ Cursors'
  BY <1>1 DEF Grounded, Flight, Cursors
<1>16. OneOwner'
  BY <1>1 DEF IInv, OneOwner
<1>17. Buffers'
  BY <1>1 DEF IInv, Buffers, NextPiece, PieceDue, HeaderDue
<1>18. Registering'
  <2>1. TransferComplete(task)'
    BY <1>1 DEF IInv, Registering, TransferComplete
  <2>2. ASSUME NEW c \in Content \cup {Meta}, c \notin DOMAIN registered'
        PROVE  /\ \E i \in 1 .. Len(toRegister') : toRegister'[i] = c
               /\ PlaceholderOf(c)' \in DOMAIN console'
               /\ c \in Content => ~task'[c].skipped
    <3>1. c # h /\ c \notin DOMAIN registered
      BY <1>6, <1>8, <2>2
    <3>2. /\ \E i \in 1 .. Len(toRegister) : toRegister[i] = c
          /\ PlaceholderOf(c) \in DOMAIN console
          /\ c \in Content => ~task[c].skipped
      BY <1>1, <3>1 DEF IInv, Registering
    <3> QED
      BY <1>1, <1>3, <1>9, <3>1, <3>2
  <2> QED
    BY <2>1, <2>2 DEF Registering
<1>19. Planned'
  <2>1. metaPh' \in DOMAIN console' \/ Meta \in DOMAIN registered'
    <3>1. CASE Meta \in DOMAIN registered \/ h = Meta
      BY <1>6, <1>8, <3>1
    <3>2. CASE Meta \notin DOMAIN registered /\ h # Meta
      <4>1. PlaceholderOf(Meta) = metaPh /\ PlaceholderOf(Meta)' = metaPh'
        BY DEF PlaceholderOf
      <4>2. metaPh \in DOMAIN console
        BY <1>1, <3>2 DEF IInv, Planned
      <4> QED
        BY <1>9, <3>2, <4>1, <4>2, Nobody
    <3> QED
      BY <3>1, <3>2
  <2>2. \A c \in Content :
          task'[c].skipped => c \in DOMAIN registered' /\ task'[c].ph = NoPlaceholder
    BY <1>1, <1>6 DEF IInv, Planned
  <2> QED
    BY <1>1, <2>1, <2>2 DEF Planned
<1> QED
  BY <1>11, <1>12, <1>13, <1>14, <1>15, <1>16, <1>17, <1>18, <1>19 DEF IInv

-----------------------------------------------------------------------------
LEMMA StutterPreserves == IInv /\ UNCHANGED vars => IInv'
<1> SUFFICES ASSUME IInv, UNCHANGED vars PROVE IInv'
  OBVIOUS
<1>1. /\ UNCHANGED <<slots, items, freeSlots, producing, consuming, finished, stopped, failed>>
      /\ UNCHANGED <<console, registered, recorded, taskFile>>
      /\ UNCHANGED <<run, task, mine, readPh, metaPh, kept, modified, flushed, hand, fed,
                     toRegister, reader, at, fetch>>
  BY DEF vars, queueVars, consoleVars, writerVars, readerVars
<1>2. Typed'
  BY <1>1 DEF IInv, Typed, TypeOK
<1>3. RegisteredIsWhole' /\ TaskFileIsHonest' /\ InPlace' /\ Grounded'
  BY <1>1 DEF IInv, RegisteredIsWhole, TaskFileIsHonest, InPlace, HoldsPrefix, Grounded
<1>4. Planned' /\ Registering'
  BY <1>1 DEF IInv, Planned, Needing, Registering, TransferComplete, PlaceholderOf
<1>5. OneOwner'
  BY <1>1 DEF IInv, OneOwner
<1>6. Buffers'
  BY <1>1 DEF IInv, Buffers, NextPiece, PieceDue, HeaderDue
<1>7. Flight'
  BY <1>1 DEF IInv, Flight, InFlight, Queued, Sent, Arrived
<1>8. Cursors'
  BY <1>1 DEF IInv, Cursors, Sent, Arrived
<1> QED
  BY <1>2, <1>3, <1>4, <1>5, <1>6, <1>7, <1>8 DEF IInv

LEMMA NextPreserves == IInv /\ [Next]_vars => IInv'
<1> SUFFICES ASSUME IInv, [Next]_vars PROVE IInv'
  OBVIOUS
<1>1. CASE PlayerNext
  BY <1>1, OutsidesPreserve, PrepareRunPreserves, PrepareSkipsPreserves, EndingsPreserve,
     BeginCreatesPreserves, BeginStartsPreserves DEF PlayerNext
<1>2. CASE ReaderNext
  BY <1>2, ReaderSkipsPreserves, ReaderEntersPreserves, ReaderReadsPreserves,
     ReaderPublishesPreserves, ReaderLeavesPreserves, ReaderFinishesPreserves DEF ReaderNext
<1>3. CASE WriterNext
  BY <1>3, WriterTakesPreserves, WriterWritesPreserves, WriterFailsPreserves,
     WriterHearsFinishedPreserves DEF WriterNext
<1>4. CASE FinishNext
  BY <1>4, RegisterNextPreserves, FinishRecordsPreserves, EndingsPreserve DEF FinishNext
<1>5. CASE PlaceholderVanishes \/ Crash \/ CrashWhileSaving
  BY <1>5, OutsidesPreserve, EndingsPreserve
<1>6. CASE Idle \/ UNCHANGED vars
  BY <1>6, StutterPreserves DEF Idle
<1> QED
  BY <1>1, <1>2, <1>3, <1>4, <1>5, <1>6 DEF Next

LEMMA InductiveInvariant == Spec => []IInv
<1>1. Init => IInv
  BY InitEstablishes
<1>2. IInv /\ [Next]_vars => IInv'
  BY NextPreserves
<1> QED
  BY <1>1, <1>2, PTL DEF Spec

-----------------------------------------------------------------------------
(* What it says of every package, on every run. *)

(* Every variable of GameInstall, of its queue's user and of the console     *)
(* keeps its range: an offset never leaves its content, a placeholder has    *)
(* its content's size to the last byte.                                     *)
THEOREM TransferIsTyped == Spec => []TypeOK
<1>1. IInv => TypeOK
  BY DEF IInv, Typed
<1> QED
  BY <1>1, InductiveInvariant, PTL

(* A content ContentInstaller::Register put into the storage is the content  *)
(* from end to end, over any number of crashes, failures and resumes, and    *)
(* the title's record never names a content that is not there.               *)
THEOREM RegisteredContentsAreWhole == Spec => []RegisteredIsWhole
<1>1. IInv => RegisteredIsWhole
  BY DEF IInv
<1> QED
  BY <1>1, InductiveInvariant, PTL

(* The progress install-task.json records for a placeholder that still       *)
(* exists is in it, whatever ended the run that wrote the file: a resume     *)
(* leaves no hole.                                                           *)
THEOREM TaskFileTellsTheTruth == Spec => []TaskFileIsHonest
<1>1. IInv => TaskFileIsHonest
  BY DEF IInv
<1> QED
  BY <1>1, InductiveInvariant, PTL

(* The fetch thread counts stream pieces and GameInstall::Step counts bytes  *)
(* written, from a start a resume moves: what Step has counted is in the     *)
(* placeholder at its own offset, in every state of a transfer.              *)
THEOREM ProgressIsInPlace == Spec => []WrittenIsInPlace
<1>1. IInv => WrittenIsInPlace
  BY DEF IInv, InPlace, WrittenIsInPlace
<1> QED
  BY <1>1, InductiveInvariant, PTL

(* ReadLoop leaves a content out by a counter of the other thread's that it  *)
(* reads without a lock; still, when the queue tells Step that the stream is *)
(* at its end, every content is complete that its stream can complete.       *)
THEOREM FinishedMeansComplete == Spec => []DrainedIsComplete
<1>1. IInv => DrainedIsComplete
  <2> SUFFICES ASSUME IInv, run = "transfer", hand = Torn, NextIsFinished,
                      NEW c \in Content, ~task[c].skipped, ~(task[c].written >= Size[c])
               PROVE  FallsShort(c)
    BY DEF DrainedIsComplete
  <2>t. Typed /\ TypeOK
    BY DEF IInv, Typed
  <2>n. /\ task[c].written \in Nat /\ Size[c] \in Nat /\ Sent(c) \in Nat /\ Arrived(c) \in Nat
        /\ fed[c] \in Nat /\ Len(Reach[c]) \in Nat
    BY <2>t, CursorTypes, Sizes
  <2>w. task[c].written < Size[c]
    BY <2>n
  <2>1. items = <<>> /\ finished /\ at > NumContents /\ c < at
    <3>1. items = <<>> /\ finished
      BY DEF NextIsFinished
    <3>2. at > NumContents
      BY <3>1 DEF IInv, Cursors
    <3> QED
      BY <2>t, <3>1, <3>2, ContentsAssumption DEF Content, TypeOK
  <2>2. task[c].ph \in mine /\ Sent(c) = Units(c)
    BY <2>1, <2>n, <2>w DEF IInv, Planned, Needing, Cursors
  <2>3. InFlight = {}
    <3>1. 1 .. Len(items) = {}
      BY <2>1
    <3> QED
      BY <3>1 DEF InFlight, Queued
  <2>4. Arrived(c) = Sent(c)
    <3>1. Arrived(c) <= Sent(c) /\ ~(Arrived(c) \in Arrived(c) .. Sent(c) - 1)
      BY <2>3 DEF IInv, Flight, Cursors
    <3> QED
      BY <2>n, <3>1
  <2>5. c \in Compressed
    BY <2>2, <2>4, <2>n, <2>w DEF Arrived, Units
  <2>6. task[c].written # 0 /\ fed[c] = Len(Reach[c])
    <3>1. Arrived(c) = 1 + Len(Reach[c])
      BY <2>2, <2>4, <2>5 DEF Units
    <3>2. Arrived(c) = IF task[c].written = 0 THEN 0 ELSE 1 + fed[c]
      BY <2>2, <2>5 DEF Arrived
    <3> QED
      BY <2>n, <3>1, <3>2
  <2>7. task[c].written = DecodedTo(c, fed[c])
    BY <2>2, <2>5, <2>6 DEF IInv, Cursors
  <2> QED
    BY <2>5, <2>6, <2>7, <2>w DEF FallsShort
<1> QED
  BY <1>1, InductiveInvariant, PTL
=============================================================================
