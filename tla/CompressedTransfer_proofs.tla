---------------------- MODULE CompressedTransfer_proofs ----------------------
(***************************************************************************)
(* Proofs about the fetch pipe, for every number of slots and pieces, and    *)
(* about the transfer composed of it and the decoders: read-out and refused  *)
(* files included, every step of the composition is a step of the two        *)
(* threads or leaves them alone.  Then, in the second half, what the         *)
(* placeholders hold: from one call of zstd over a step of the decoder to    *)
(* the read-out and the two entries of a transfer.  For every package, every *)
(* file, and every header and chunk size.                                    *)
(***************************************************************************)
EXTENDS CompressedTransfer, SequenceTheorems, WellFoundedInduction, TLAPS

(* How many pieces the writer has taken out of the deque. *)
Taken == Len(wrote) + (IF consuming = NoSlot THEN 0 ELSE 1)

(* Who owns a slot follows from where the two threads are. *)
Owners ==
  /\ reader \in {"idle", "asleep"} => producing = NoSlot
  /\ reader \in {"filling", "filled"} => producing # NoSlot
  /\ writer = "holding" <=> consuming # NoSlot

(* The deque holds the pieces right after the taken ones, each in a buffer *)
(* that holds its bytes.                                                   *)
Stream ==
  /\ sent = Taken + Len(items)
  /\ \A i \in 1 .. Len(items) :
       /\ items[i].range = Taken + i
       /\ slots[items[i].slot] = items[i].range
  /\ consuming # NoSlot => slots[consuming] = Taken
  /\ reader \in {"filling", "filled"} => sent < NumPieces
  /\ reader = "filled" => slots[producing] = sent + 1

(* The reader closes the stream once, and what the writer was told is true. *)
Closing ==
  /\ finished \/ failed => reader = "done"
  /\ finished => ~failed
  /\ finished => sent = NumPieces \/ stopped
  /\ writer = "finished" => finished /\ items = <<>> /\ sent = NumPieces
  /\ writer = "failed" => failed /\ items = <<>>
  /\ writer = "stopped" => stopped

IInv == TypeOK /\ OneOwner /\ NoSlotLost /\ InOrder /\ Owners /\ Stream /\ Closing

-----------------------------------------------------------------------------
(* What the type invariant says of one entry of the deque and of the stack. *)
LEMMA Elements ==
  ASSUME TypeOK
  PROVE  /\ Len(items) \in Nat /\ Len(freeSlots) \in Nat /\ Len(wrote) \in Nat
         /\ \A i \in 1 .. Len(freeSlots) : freeSlots[i] \in Slot
         /\ \A i \in 1 .. Len(items) : items[i].slot \in Slot /\ items[i].range \in Piece
<1>1. \A i \in 1 .. Len(items) : items[i] \in QueueEntry
  BY ElementOfSeq DEF TypeOK
<1>2. \A i \in 1 .. Len(freeSlots) : freeSlots[i] \in Slot
  BY ElementOfSeq DEF TypeOK
<1>3. Len(items) \in Nat /\ Len(freeSlots) \in Nat /\ Len(wrote) \in Nat
  BY LenProperties DEF TypeOK
<1> QED
  BY <1>1, <1>2, <1>3 DEF QueueEntry

(* Popping a stack that is kept as a sequence. *)
LEMMA StackPop ==
  ASSUME NEW S, NEW q \in Seq(S), Len(q) # 0
  PROVE  LET m == Len(q) - 1
             p == SubSeq(q, 1, m)
         IN  /\ p \in Seq(S)
             /\ Len(p) = m
             /\ \A i \in 1 .. m : p[i] = q[i]
<1> DEFINE m == Len(q) - 1
           p == SubSeq(q, 1, m)
<1>1. m \in Nat /\ \A i \in 1 .. m : q[i] \in S
  BY LenProperties, ElementOfSeq
<1> HIDE DEF m
<1>2. /\ p \in Seq(S)
      /\ Len(p) = IF 1 <= m THEN m - 1 + 1 ELSE 0
      /\ \A i \in 1 .. m - 1 + 1 : p[i] = q[1 + i - 1]
  BY <1>1, SubSeqProperties, 1 \in Int, m \in Int
<1>3. Len(p) = m /\ m - 1 + 1 = m /\ \A i \in 1 .. m : 1 + i - 1 = i
  BY <1>1, <1>2
<1> QED
  BY <1>2, <1>3 DEF m

(* The constructor leaves a pipe in which all of it holds. *)
LEMMA InitEstablishes == Init => IInv
<1> SUFFICES ASSUME Init PROVE IInv
  OBVIOUS
<1> USE NumSlotsAssumption, NumPiecesAssumption
    DEF Init, QueueInit, NoSlot, Slot, Torn, Piece
<1>1. freeSlots \in Seq(Slot) /\ Len(freeSlots) = NumSlots
  BY SeqDef
<1>2. items \in Seq(QueueEntry) /\ wrote \in Seq(Piece \cup {Torn})
  BY EmptySeq
<1>3. TypeOK
  <2>1. slots \in [Slot -> Piece \cup {Torn}]
    OBVIOUS
  <2>2. sent \in 0 .. NumPieces
    OBVIOUS
  <2> QED
    BY <1>1, <1>2, <2>1, <2>2 DEF TypeOK, ReaderStates, WriterStates, Verdicts
<1>4. OneOwner /\ NoSlotLost
  BY <1>1 DEF OneOwner, NoSlotLost
<1>5. InOrder /\ Owners /\ Stream /\ Closing
  BY DEF InOrder, Owners, Stream, Closing, Taken
<1> QED
  BY <1>3, <1>4, <1>5 DEF IInv

(* Taking a slot: the top of the free stack moves to the producer. *)
LEMMA AcquirePreserves == IInv /\ ReaderAcquires => IInv'
<1> SUFFICES ASSUME IInv, ReaderAcquires PROVE IInv'
  OBVIOUS
<1> USE NumSlotsAssumption, NumPiecesAssumption DEF NoSlot, Slot
<1> DEFINE n == Len(freeSlots)
           s == freeSlots[n]
<1>1. /\ n \in Nat \ {0}
      /\ freeSlots \in Seq(Slot)
      /\ freeSlots' = SubSeq(freeSlots, 1, n - 1)
      /\ producing = NoSlot /\ producing' = s
      /\ slots' = [slots EXCEPT ![s] = Torn]
      /\ UNCHANGED <<items, consuming, finished, stopped, failed, writer, sent, wrote>>
      /\ reader' = "filling" /\ sent < NumPieces /\ ~stopped /\ ~failed
  BY EmptySeq, LenProperties
     DEF IInv, TypeOK, Owners, ReaderAcquires, AcquireSlot, CanReturnFromAcquire
<1>e. TypeOK
  BY DEF IInv
<1>2. s \in Slot /\ \A i \in 1 .. n - 1 : freeSlots[i] \in Slot
  BY <1>1, <1>e, Elements
<1>3. /\ freeSlots' \in Seq(Slot)
      /\ Len(freeSlots') = n - 1
      /\ \A i \in 1 .. n - 1 : freeSlots'[i] = freeSlots[i]
  BY <1>1, StackPop
<1>4. \A i \in 1 .. n - 1 : freeSlots[i] # s
  BY <1>1 DEF IInv, OneOwner
<1>5. \A i \in 1 .. Len(items) : items[i].slot # s
  BY <1>1 DEF IInv, OneOwner
<1>6. consuming # s
  BY <1>1 DEF IInv, OneOwner
<1>7. TypeOK'
  <2>1. slots' \in [Slot -> Piece \cup {Torn}]
    BY <1>1, <1>2, <1>e DEF TypeOK
  <2> QED
    BY <1>1, <1>2, <1>3, <1>e, <2>1 DEF TypeOK, ReaderStates
<1>l. \A i \in 1 .. n - 1 : i \in 1 .. Len(freeSlots)
  <2>1. n = Len(freeSlots)
    OBVIOUS
  <2> HIDE DEF n
  <2> QED
    BY <1>1, <2>1
<1> HIDE DEF n, s
<1>8. OneOwner'
  <2>1. \A i, j \in 1 .. Len(freeSlots') : freeSlots'[i] = freeSlots'[j] => i = j
    <3> SUFFICES ASSUME NEW i \in 1 .. n - 1, NEW j \in 1 .. n - 1,
                        freeSlots[i] = freeSlots[j]
                 PROVE  i = j
      BY <1>3
    <3>1. i \in 1 .. Len(freeSlots) /\ j \in 1 .. Len(freeSlots)
      BY <1>l
    <3> QED
      BY <3>1 DEF IInv, OneOwner
  <2>2. \A i \in 1 .. Len(freeSlots') : freeSlots'[i] \notin {producing', consuming}
    BY <1>1, <1>l, <1>3, <1>4 DEF IInv, OneOwner, n
  <2>3. \A i \in 1 .. Len(items) : items[i].slot \notin {producing', consuming}
    BY <1>1, <1>5 DEF IInv, OneOwner
  <2>4. \A i \in 1 .. Len(freeSlots'), j \in 1 .. Len(items) : freeSlots'[i] # items[j].slot
    <3> SUFFICES ASSUME NEW i \in 1 .. n - 1, NEW j \in 1 .. Len(items)
                 PROVE  freeSlots[i] # items[j].slot
      BY <1>3
    <3>1. i \in 1 .. Len(freeSlots)
      BY <1>l
    <3> QED
      BY <3>1 DEF IInv, OneOwner
  <2> QED
    BY <1>1, <1>6, <2>1, <2>2, <2>3, <2>4 DEF IInv, OneOwner
<1>9. NoSlotLost'
  <2>1. n \in Nat /\ Len(items) \in Nat /\ s # 0
    BY <1>1, <1>2, <1>e, Elements
  <2>2. n + Len(items) + 0 + (IF consuming = NoSlot THEN 0 ELSE 1) = NumSlots
    BY <1>1 DEF IInv, NoSlotLost, n
  <2>3. Len(freeSlots') = n - 1 /\ items' = items /\ consuming' = consuming /\ producing' # 0
    BY <1>1, <1>3, <2>1
  <2> QED
    BY <2>1, <2>2, <2>3 DEF NoSlotLost
<1>10. InOrder' /\ Owners' /\ Closing'
  BY <1>1, <1>2 DEF IInv, TypeOK, InOrder, Owners, Closing
<1>11. Stream'
  <2>1. \A i \in 1 .. Len(items) : slots'[items[i].slot] = slots[items[i].slot]
    BY <1>1, <1>5, <1>e, Elements DEF TypeOK
  <2>2. consuming # NoSlot => slots'[consuming] = slots[consuming]
    BY <1>1, <1>6, <1>e DEF TypeOK
  <2> QED
    BY <1>1, <2>1, <2>2 DEF IInv, Stream, Taken
<1> QED
  BY <1>7, <1>8, <1>9, <1>10, <1>11 DEF IInv

(* Filling the acquired slot touches no other buffer. *)
LEMMA FillPreserves == IInv /\ ReaderFills => IInv'
<1> SUFFICES ASSUME IInv, ReaderFills PROVE IInv'
  OBVIOUS
<1> USE NumSlotsAssumption, NumPiecesAssumption DEF NoSlot, Slot
<1>e. TypeOK
  BY DEF IInv
<1>1. /\ reader = "filling" /\ reader' = "filled"
      /\ producing \in Slot /\ sent \in Nat /\ sent < NumPieces
      /\ slots' = [slots EXCEPT ![producing] = sent + 1]
      /\ UNCHANGED <<items, freeSlots, producing, consuming, finished, stopped, failed,
                     writer, sent, wrote>>
  BY DEF IInv, TypeOK, Owners, Stream, ReaderFills, FillSlot
<1>2. TypeOK'
  <2>1. slots' \in [Slot -> Piece \cup {Torn}]
    BY <1>1, <1>e DEF TypeOK, Piece
  <2> QED
    BY <1>1, <1>e, <2>1 DEF TypeOK, ReaderStates
<1>3. OneOwner' /\ NoSlotLost' /\ InOrder'
  BY <1>1 DEF IInv, OneOwner, NoSlotLost, InOrder
<1>4. Owners' /\ Closing'
  BY <1>1 DEF IInv, Owners, Closing
<1>5. Stream'
  <2>1. \A i \in 1 .. Len(items) : slots'[items[i].slot] = slots[items[i].slot]
    <3> SUFFICES ASSUME NEW i \in 1 .. Len(items)
                 PROVE  slots'[items[i].slot] = slots[items[i].slot]
      OBVIOUS
    <3>1. items[i].slot \in Slot /\ items[i].slot # producing
      BY <1>e, Elements DEF IInv, OneOwner
    <3> QED
      BY <1>1, <1>e, <3>1 DEF TypeOK
  <2>2. consuming # NoSlot => slots'[consuming] = slots[consuming]
    BY <1>1, <1>e DEF IInv, TypeOK, OneOwner
  <2>3. slots'[producing] = sent + 1
    BY <1>1, <1>e DEF TypeOK
  <2> QED
    BY <1>1, <2>1, <2>2, <2>3 DEF IInv, Stream, Taken
<1> QED
  BY <1>2, <1>3, <1>4, <1>5 DEF IInv

(* Publishing moves the producer's slot to the end of the deque. *)
LEMMA PublishPreserves == IInv /\ ReaderPublishes => IInv'
<1> SUFFICES ASSUME IInv, ReaderPublishes PROVE IInv'
  OBVIOUS
<1> USE NumSlotsAssumption, NumPiecesAssumption DEF NoSlot, Slot
<1> DEFINE n == Len(items)
           e == Entry(producing, sent + 1)
<1>e. TypeOK
  BY DEF IInv
<1>1. /\ reader = "filled" /\ reader' = "idle"
      /\ producing \in Slot /\ sent \in Nat /\ sent < NumPieces
      /\ items' = Append(items, e)
      /\ producing' = NoSlot /\ sent' = sent + 1
      /\ UNCHANGED <<slots, freeSlots, consuming, finished, stopped, failed, writer, wrote>>
  BY DEF IInv, TypeOK, Owners, Stream, ReaderPublishes, Publish
<1>2. e \in QueueEntry /\ e.slot = producing /\ e.range = sent + 1
  BY <1>1 DEF Entry, QueueEntry, Piece
<1> HIDE DEF n, e
<1>3. /\ n \in Nat /\ items' \in Seq(QueueEntry) /\ Len(items') = n + 1
      /\ \A i \in 1 .. n : items'[i] = items[i]
      /\ items'[n + 1] = e
      /\ \A i \in 1 .. n : i \in 1 .. Len(items)
      /\ \A i \in 1 .. n + 1 : i \in 1 .. n \/ i = n + 1
  BY <1>1, <1>2, <1>e, AppendProperties, LenProperties DEF TypeOK, n
<1>4. TypeOK'
  BY <1>1, <1>3, <1>e DEF TypeOK, ReaderStates
<1>5. \A i \in 1 .. n : items[i].slot # producing
  BY <1>3 DEF IInv, OneOwner
<1>6. OneOwner'
  <2>1. \A i, j \in 1 .. Len(items') : items'[i].slot = items'[j].slot => i = j
    <3> SUFFICES ASSUME NEW i \in 1 .. n + 1, NEW j \in 1 .. n + 1,
                        items'[i].slot = items'[j].slot
                 PROVE  i = j
      BY <1>3
    <3>1. CASE i \in 1 .. n /\ j \in 1 .. n
      BY <3>1, <1>3 DEF IInv, OneOwner
    <3>2. CASE i = n + 1 \/ j = n + 1
      BY <3>2, <1>2, <1>3, <1>5
    <3> QED
      BY <3>1, <3>2, <1>3
  <2>2. \A i \in 1 .. Len(items') : items'[i].slot \notin {producing', consuming'}
    <3> SUFFICES ASSUME NEW i \in 1 .. n + 1
                 PROVE  items'[i].slot # NoSlot /\ items'[i].slot # consuming
      BY <1>1, <1>3
    <3>1. CASE i \in 1 .. n
      BY <3>1, <1>3, <1>e, Elements DEF IInv, OneOwner
    <3>2. CASE i = n + 1
      BY <3>2, <1>1, <1>2, <1>3 DEF IInv, OneOwner
    <3> QED
      BY <3>1, <3>2, <1>3
  <2>3. \A i \in 1 .. Len(freeSlots), j \in 1 .. Len(items') : freeSlots[i] # items'[j].slot
    <3> SUFFICES ASSUME NEW i \in 1 .. Len(freeSlots), NEW j \in 1 .. n + 1
                 PROVE  freeSlots[i] # items'[j].slot
      BY <1>3
    <3>1. CASE j \in 1 .. n
      BY <3>1, <1>3 DEF IInv, OneOwner
    <3>2. CASE j = n + 1
      BY <3>2, <1>2, <1>3 DEF IInv, OneOwner
    <3> QED
      BY <3>1, <3>2, <1>3
  <2>4. \A i \in 1 .. Len(freeSlots) : freeSlots[i] \notin {producing', consuming'}
    BY <1>1, <1>e, Elements DEF IInv, OneOwner
  <2> QED
    BY <1>1, <2>1, <2>2, <2>3, <2>4 DEF IInv, OneOwner
<1>7. NoSlotLost'
  <2>1. Len(freeSlots) \in Nat
    BY <1>e, Elements
  <2>2. Len(freeSlots) + n + 1 + (IF consuming = NoSlot THEN 0 ELSE 1) = NumSlots
    BY <1>1 DEF IInv, NoSlotLost, n
  <2>3. Len(items') = n + 1 /\ freeSlots' = freeSlots /\ producing' = 0 /\ consuming' = consuming
    BY <1>1, <1>3
  <2> QED
    BY <1>3, <2>1, <2>2, <2>3 DEF NoSlotLost
<1>8. InOrder' /\ Owners' /\ Closing'
  BY <1>1 DEF IInv, InOrder, Owners, Closing
<1>9. Stream'
  <2>1. Taken \in Nat /\ Taken' = Taken /\ sent = Taken + n
    BY <1>1, <1>e, Elements DEF IInv, Stream, Taken, n
  <2>2. \A i \in 1 .. Len(items') :
          items'[i].range = Taken + i /\ slots[items'[i].slot] = items'[i].range
    <3> SUFFICES ASSUME NEW i \in 1 .. n + 1
                 PROVE  items'[i].range = Taken + i /\ slots[items'[i].slot] = items'[i].range
      BY <1>3
    <3>1. CASE i \in 1 .. n
      BY <3>1, <1>3 DEF IInv, Stream
    <3>2. CASE i = n + 1
      <4>1. items'[i].range = sent + 1 /\ items'[i].slot = producing
        BY <3>2, <1>2, <1>3
      <4>2. slots[producing] = sent + 1
        BY <1>1 DEF IInv, Stream
      <4>3. Taken + i = sent + 1
        BY <2>1, <3>2, <1>3
      <4> QED
        BY <4>1, <4>2, <4>3
    <3> QED
      BY <3>1, <3>2, <1>3
  <2>3. sent' = Taken' + Len(items')
    BY <1>1, <1>3, <2>1
  <2> QED
    BY <1>1, <2>1, <2>2, <2>3 DEF IInv, Stream
<1> QED
  BY <1>4, <1>6, <1>7, <1>8, <1>9 DEF IInv

(* Taking moves the head of the deque into the writer's hands. *)
LEMMA TakePreserves == IInv /\ WriterTakes => IInv'
<1> SUFFICES ASSUME IInv, WriterTakes PROVE IInv'
  OBVIOUS
<1> USE NumSlotsAssumption, NumPiecesAssumption DEF NoSlot, Slot
<1> DEFINE n == Len(items)
           s == items[1].slot
<1>e. TypeOK
  BY DEF IInv
<1>1. /\ writer = "polling" /\ writer' = "holding"
      /\ items \in Seq(QueueEntry) /\ items # <<>> /\ items' = Tail(items)
      /\ consuming = NoSlot /\ consuming' = s
      /\ UNCHANGED <<slots, freeSlots, producing, finished, stopped, failed,
                     reader, sent, wrote>>
  BY DEF IInv, TypeOK, Owners, WriterTakes, TakeItem, NextIsGot
<1>2. /\ n \in Nat \ {0}
      /\ 1 \in 1 .. Len(items) /\ s \in Slot
      /\ items' \in Seq(QueueEntry) /\ Len(items') = n - 1
      /\ \A i \in 1 .. n - 1 : items'[i] = items[i + 1]
      /\ \A i \in 1 .. n - 1 : i + 1 \in 1 .. Len(items)
  <2>1. n \in Nat \ {0}
    BY <1>1, EmptySeq
  <2> QED
    BY <1>1, <1>e, <2>1, HeadTailProperties, Elements
<1> HIDE DEF n, s
<1>3. TypeOK'
  BY <1>1, <1>2, <1>e DEF TypeOK, WriterStates
<1>4. \A i \in 1 .. n - 1 : items'[i].slot # s
  <2> SUFFICES ASSUME NEW i \in 1 .. n - 1, items[i + 1].slot = s
               PROVE  FALSE
    BY <1>2
  <2>1. i + 1 = 1
    BY <1>2 DEF IInv, OneOwner, s
  <2> QED
    BY <2>1, <1>2
<1>5. OneOwner'
  <2>1. \A i, j \in 1 .. Len(items') : items'[i].slot = items'[j].slot => i = j
    <3> SUFFICES ASSUME NEW i \in 1 .. n - 1, NEW j \in 1 .. n - 1,
                        items[i + 1].slot = items[j + 1].slot
                 PROVE  i = j
      BY <1>2
    <3>1. i + 1 = j + 1
      BY <1>2 DEF IInv, OneOwner
    <3> QED
      BY <3>1, <1>2
  <2>2. \A i \in 1 .. Len(items') : items'[i].slot \notin {producing, consuming'}
    BY <1>1, <1>2, <1>4 DEF IInv, OneOwner
  <2>3. \A i \in 1 .. Len(freeSlots), j \in 1 .. Len(items') : freeSlots[i] # items'[j].slot
    <3> SUFFICES ASSUME NEW i \in 1 .. Len(freeSlots), NEW j \in 1 .. n - 1
                 PROVE  freeSlots[i] # items[j + 1].slot
      BY <1>2
    <3>1. j + 1 \in 1 .. Len(items)
      BY <1>2
    <3> QED
      BY <3>1 DEF IInv, OneOwner
  <2>4. \A i \in 1 .. Len(freeSlots) : freeSlots[i] \notin {producing, consuming'}
    BY <1>1, <1>2 DEF IInv, OneOwner, s
  <2>5. producing # NoSlot => producing # consuming'
    BY <1>1, <1>2 DEF IInv, OneOwner, s
  <2> QED
    BY <1>1, <2>1, <2>2, <2>3, <2>4, <2>5 DEF IInv, OneOwner
<1>6. NoSlotLost'
  <2>1. Len(freeSlots) \in Nat /\ s # 0
    BY <1>e, <1>2, Elements
  <2>2. Len(freeSlots) + n + (IF producing = NoSlot THEN 0 ELSE 1) + 0 = NumSlots
    BY <1>1 DEF IInv, NoSlotLost, n
  <2>3. Len(items') = n - 1 /\ freeSlots' = freeSlots /\ producing' = producing /\ consuming' # 0
    BY <1>1, <1>2, <2>1
  <2> QED
    BY <1>2, <2>1, <2>2, <2>3 DEF NoSlotLost
<1>7. InOrder' /\ Owners' /\ Closing'
  BY <1>1, <1>2 DEF IInv, InOrder, Owners, Closing
<1>8. Stream'
  <2>1. Taken \in Nat /\ Taken' = Taken + 1 /\ sent = Taken + n
    BY <1>1, <1>2, <1>e, Elements DEF IInv, Stream, Taken, n
  <2>2. \A i \in 1 .. Len(items') :
          items'[i].range = Taken' + i /\ slots[items'[i].slot] = items'[i].range
    <3> SUFFICES ASSUME NEW i \in 1 .. n - 1
                 PROVE  /\ items[i + 1].range = Taken' + i
                        /\ slots[items[i + 1].slot] = items[i + 1].range
      BY <1>2
    <3>1. /\ items[i + 1].range = Taken + (i + 1)
          /\ slots[items[i + 1].slot] = items[i + 1].range
      BY <1>2 DEF IInv, Stream
    <3> QED
      BY <3>1, <2>1
  <2>3. slots[s] = Taken + 1
    BY <1>2 DEF IInv, Stream, s
  <2>4. sent' = Taken' + Len(items')
    BY <1>1, <1>2, <2>1
  <2> QED
    BY <1>1, <2>1, <2>2, <2>3, <2>4 DEF IInv, Stream
<1> QED
  BY <1>3, <1>5, <1>6, <1>7, <1>8 DEF IInv

(* Releasing pushes the writer's slot back on the free stack. *)
LEMMA ReleasePreserves == IInv /\ WriterReleases => IInv'
<1> SUFFICES ASSUME IInv, WriterReleases PROVE IInv'
  OBVIOUS
<1> USE NumSlotsAssumption, NumPiecesAssumption DEF NoSlot, Slot
<1> DEFINE n == Len(freeSlots)
           w == Len(wrote)
<1>e. TypeOK
  BY DEF IInv
<1>1. /\ writer = "holding" /\ writer' = "polling"
      /\ consuming \in Slot /\ consuming' = NoSlot
      /\ freeSlots' = Append(freeSlots, consuming)
      /\ wrote' = Append(wrote, slots[consuming])
      /\ reader' = IF reader = "asleep" THEN "idle" ELSE reader
      /\ UNCHANGED <<slots, items, producing, finished, stopped, failed, sent>>
  BY DEF IInv, TypeOK, Owners, WriterReleases, Release, NotifyFree
<1>2. /\ n \in Nat /\ freeSlots' \in Seq(Slot) /\ Len(freeSlots') = n + 1
      /\ \A i \in 1 .. n : freeSlots'[i] = freeSlots[i]
      /\ freeSlots'[n + 1] = consuming
      /\ \A i \in 1 .. n : i \in 1 .. Len(freeSlots)
      /\ \A i \in 1 .. n + 1 : i \in 1 .. n \/ i = n + 1
  BY <1>1, <1>e, AppendProperties, LenProperties DEF TypeOK
<1>3. slots[consuming] = w + 1 /\ slots[consuming] \in Piece \cup {Torn}
  BY <1>1, <1>e DEF IInv, Stream, Taken, TypeOK
<1>4. /\ w \in Nat /\ wrote' \in Seq(Piece \cup {Torn}) /\ Len(wrote') = w + 1
      /\ \A k \in 1 .. w : wrote'[k] = wrote[k]
      /\ wrote'[w + 1] = w + 1
      /\ \A k \in 1 .. w + 1 : k \in 1 .. w \/ k = w + 1
  BY <1>1, <1>3, <1>e, AppendProperties, LenProperties DEF TypeOK
<1> HIDE DEF n, w
<1>5. TypeOK'
  <2>1. reader' \in ReaderStates
    BY <1>1, <1>e DEF TypeOK, ReaderStates
  <2> QED
    BY <1>1, <1>2, <1>4, <1>e, <2>1 DEF TypeOK, WriterStates
<1>6. OneOwner'
  <2>1. \A i, j \in 1 .. Len(freeSlots') : freeSlots'[i] = freeSlots'[j] => i = j
    <3> SUFFICES ASSUME NEW i \in 1 .. n + 1, NEW j \in 1 .. n + 1,
                        freeSlots'[i] = freeSlots'[j]
                 PROVE  i = j
      BY <1>2
    <3>1. \A k \in 1 .. n : freeSlots[k] # consuming
      BY <1>2 DEF IInv, OneOwner
    <3>2. CASE i \in 1 .. n /\ j \in 1 .. n
      BY <3>2, <1>2 DEF IInv, OneOwner
    <3>3. CASE i = n + 1 \/ j = n + 1
      BY <3>1, <3>3, <1>2
    <3> QED
      BY <3>2, <3>3, <1>2
  <2>2. \A i \in 1 .. Len(freeSlots') : freeSlots'[i] \notin {producing, NoSlot}
    <3> SUFFICES ASSUME NEW i \in 1 .. n + 1
                 PROVE  freeSlots'[i] # producing /\ freeSlots'[i] # NoSlot
      BY <1>2
    <3>1. CASE i \in 1 .. n
      BY <3>1, <1>2, <1>e, Elements DEF IInv, OneOwner
    <3>2. CASE i = n + 1
      BY <3>2, <1>1, <1>2 DEF IInv, OneOwner
    <3> QED
      BY <3>1, <3>2, <1>2
  <2>3. \A i \in 1 .. Len(freeSlots'), j \in 1 .. Len(items) : freeSlots'[i] # items[j].slot
    <3> SUFFICES ASSUME NEW i \in 1 .. n + 1, NEW j \in 1 .. Len(items)
                 PROVE  freeSlots'[i] # items[j].slot
      BY <1>2
    <3>1. CASE i \in 1 .. n
      BY <3>1, <1>2 DEF IInv, OneOwner
    <3>2. CASE i = n + 1
      BY <3>2, <1>2 DEF IInv, OneOwner
    <3> QED
      BY <3>1, <3>2, <1>2
  <2>4. \A i \in 1 .. Len(items) : items[i].slot \notin {producing, NoSlot}
    BY <1>e, Elements DEF IInv, OneOwner
  <2> QED
    BY <1>1, <2>1, <2>2, <2>3, <2>4 DEF IInv, OneOwner
<1>7. NoSlotLost'
  <2>1. Len(items) \in Nat /\ consuming # 0
    BY <1>e, <1>1, Elements
  <2>2. n + Len(items) + (IF producing = NoSlot THEN 0 ELSE 1) + 1 = NumSlots
    BY <1>1, <2>1 DEF IInv, NoSlotLost, n
  <2>3. Len(freeSlots') = n + 1 /\ items' = items /\ producing' = producing /\ consuming' = 0
    BY <1>1, <1>2
  <2> QED
    BY <1>2, <2>1, <2>2, <2>3 DEF NoSlotLost
<1>8. InOrder'
  <2> SUFFICES ASSUME NEW k \in 1 .. w + 1 PROVE wrote'[k] = k
    BY <1>4 DEF InOrder
  <2>1. CASE k \in 1 .. w
    BY <2>1, <1>4 DEF IInv, InOrder, w
  <2>2. CASE k = w + 1
    BY <2>2, <1>4
  <2> QED
    BY <2>1, <2>2, <1>4
<1>9. Owners' /\ Closing'
  BY <1>1 DEF IInv, Owners, Closing
<1>10. Stream'
  <2>1. Taken' = Taken /\ Taken \in Nat
    BY <1>1, <1>4 DEF Taken, w
  <2> QED
    BY <1>1, <2>1 DEF IInv, Stream
<1> QED
  BY <1>5, <1>6, <1>7, <1>8, <1>9, <1>10 DEF IInv

(* The steps that move no slot and no piece: a thread falls asleep, ends or *)
(* hears a verdict, or a flag is raised.                                    *)
LEMMA FlagsPreserve ==
  IInv /\ (\/ ReaderSleeps \/ ReaderRefused \/ ReaderFails \/ ReaderFinishes
          \/ WriterHearsStopped \/ WriterHearsFailed \/ WriterHearsFinished
          \/ WriterLeaves \/ WriterStops \/ UNCHANGED vars) => IInv'
<1> SUFFICES ASSUME IInv,
                    \/ ReaderSleeps \/ ReaderRefused \/ ReaderFails \/ ReaderFinishes
                    \/ WriterHearsStopped \/ WriterHearsFailed \/ WriterHearsFinished
                    \/ WriterLeaves \/ WriterStops \/ UNCHANGED vars
             PROVE  IInv'
  OBVIOUS
<1> USE DEF ReaderSleeps, ReaderRefused, ReaderFails, ReaderFinishes, WriterHearsStopped,
            WriterHearsFailed, WriterHearsFinished, WriterLeaves, WriterStops, vars,
            queueVars, Finish, Fail, RequestStop, NotifyFree, AcquireRefused
<1>1. UNCHANGED <<slots, items, freeSlots, producing, consuming, sent, wrote>>
  OBVIOUS
<1>2. TypeOK'
  <2>1. reader' \in ReaderStates /\ writer' \in WriterStates
    BY DEF IInv, TypeOK, ReaderStates, WriterStates, Verdicts
  <2>2. finished' \in BOOLEAN /\ stopped' \in BOOLEAN /\ failed' \in BOOLEAN
    BY DEF IInv, TypeOK
  <2> QED
    BY <1>1, <2>1, <2>2 DEF IInv, TypeOK
<1>3. OneOwner' /\ NoSlotLost' /\ InOrder'
  BY <1>1 DEF IInv, OneOwner, NoSlotLost, InOrder
<1>4. Owners'
  BY <1>1 DEF IInv, Owners
<1>5. Stream'
  BY <1>1 DEF IInv, Stream, Taken
<1>6. Closing'
  <2>1. sent = Taken + Len(items) /\ (reader = "filling" => sent < NumPieces)
    BY DEF IInv, Stream
  <2>2. reader = "idle" => ~finished /\ ~failed
    BY DEF IInv, Closing
  <2>3. reader = "filling" => ~finished /\ ~failed
    BY DEF IInv, Closing
  <2>4. writer = "polling" /\ finished /\ ~stopped => sent = NumPieces
    BY DEF IInv, Closing
  <2> QED
    BY <1>1, <2>1, <2>2, <2>3, <2>4
       DEF IInv, Closing, NextIsStopped, NextIsFailed, NextIsFinished
<1> QED
  BY <1>2, <1>3, <1>4, <1>5, <1>6 DEF IInv

(* The inductive invariant of the pipe. *)
THEOREM PipeInvariant == Spec => []IInv
<1>1. IInv /\ [Next]_vars => IInv'
  BY AcquirePreserves, FillPreserves, PublishPreserves, TakePreserves, ReleasePreserves,
     FlagsPreserve DEF Next, ReaderNext, WriterPolls, Over
<1> QED
  BY InitEstablishes, <1>1, PTL DEF Spec

(* The type invariant holds whatever the ring's size and the package's. *)
THEOREM PipeTypes == Spec => []TypeOK
<1>1. IInv => TypeOK
  BY DEF IInv
<1> QED
  BY <1>1, PipeInvariant, PTL

(* A buffer never has two owners, and none is lost: the two threads may use *)
(* the buffers outside the mutex, with any number of slots.                 *)
THEOREM SlotsHaveOneOwner == Spec => [](OneOwner /\ NoSlotLost)
<1>1. IInv => OneOwner /\ NoSlotLost
  BY DEF IInv
<1> QED
  BY <1>1, PipeInvariant, PTL

(* The writer finds every published piece whole and in order. *)
THEOREM PiecesInOrder == Spec => []InOrder
<1>1. IInv => InOrder
  BY DEF IInv
<1> QED
  BY <1>1, PipeInvariant, PTL

(* "finished" and "failed" never overtake a published piece. *)
THEOREM VerdictsAreTrue == Spec => []VerdictAfterPieces
<1>1. IInv => VerdictAfterPieces
  <2> SUFFICES ASSUME IInv PROVE VerdictAfterPieces
    OBVIOUS
  <2>1. writer \in {"finished", "failed"} => consuming = NoSlot /\ items = <<>>
    BY DEF IInv, Owners, Closing
  <2>2. writer \in {"finished", "failed"} => sent = Len(wrote)
    BY <2>1, Elements, EmptySeq DEF IInv, Stream, Taken
  <2> QED
    BY <2>2 DEF IInv, Closing, VerdictAfterPieces
<1> QED
  BY <1>1, PipeInvariant, PTL

-----------------------------------------------------------------------------
(* The pipe implements the piece channel: under the mapping of FetchPipe every *)
(* step of the two threads is one of the channel's or does not show in it.     *)
Closed == IF failed THEN "failed" ELSE IF finished THEN "finished" ELSE "open"
Verdict == IF writer \in Verdicts THEN writer ELSE "none"

(* What the channel would see change. *)
LEMMA ChannelStutters ==
  ASSUME UNCHANGED <<sent, wrote, stopped>>, Taken' = Taken, Closed' = Closed, Verdict' = Verdict
  PROVE  UNCHANGED Channel!chanVars
BY DEF Channel!chanVars, Taken, Closed, Verdict

LEMMA ChannelStarts == Init => Channel!Init
<1> SUFFICES ASSUME Init PROVE Channel!Init
  OBVIOUS
<1>1. /\ wrote = <<>> /\ sent = 0 /\ consuming = NoSlot /\ writer = "polling"
      /\ failed = FALSE /\ finished = FALSE /\ stopped = FALSE
  BY DEF Init, QueueInit
<1>2. Len(wrote) + (IF consuming = NoSlot THEN 0 ELSE 1) = 0
  BY <1>1, EmptySeq
<1> QED
  BY <1>1, <1>2 DEF Channel!Init, Verdicts

(* A piece that is published is sent: the ring has no more slots than the      *)
(* channel has room, and the producer holds one of them.                       *)
LEMMA PublishSends == IInv /\ ReaderPublishes => Channel!Send
<1> SUFFICES ASSUME IInv, ReaderPublishes PROVE Channel!Send
  OBVIOUS
<1>t. TypeOK
  BY DEF IInv
<1>1. /\ sent' = sent + 1 /\ reader = "filled"
      /\ UNCHANGED <<wrote, consuming, failed, finished, stopped, writer>>
  BY DEF ReaderPublishes, Publish
<1>2. sent < NumPieces /\ producing # NoSlot /\ ~finished /\ ~failed
  BY <1>1 DEF IInv, Stream, Owners, Closing
<1>3. Len(freeSlots) \in Nat /\ Len(items) \in Nat /\ Len(wrote) \in Nat
  BY <1>t, Elements
<1>4. sent - Len(wrote) < NumSlots
  <2> DEFINE f == Len(freeSlots)
             n == Len(items)
             w == Len(wrote)
             c == IF consuming = NoSlot THEN 0 ELSE 1
  <2>1. sent = w + c + n /\ f + n + 1 + c = NumSlots
    BY <1>2 DEF IInv, Stream, Taken, NoSlotLost
  <2>2. f \in Nat /\ n \in Nat /\ w \in Nat /\ c \in Nat
    BY <1>3
  <2> HIDE DEF f, n, w, c
  <2>3. sent - w < NumSlots
    BY <2>1, <2>2
  <2> QED
    BY <2>3 DEF w
<1> QED
  BY <1>1, <1>2, <1>4 DEF Channel!Send

(* The writer takes the next piece, and is done with it. *)
LEMMA WriterTakesOne == IInv /\ WriterTakes => Channel!Take
<1> SUFFICES ASSUME IInv, WriterTakes PROVE Channel!Take
  OBVIOUS
<1>t. TypeOK
  BY DEF IInv
<1>1. /\ writer = "polling" /\ writer' = "holding" /\ ~stopped /\ items # <<>>
      /\ consuming' = Head(items).slot
      /\ UNCHANGED <<sent, wrote, failed, finished, stopped>>
  BY DEF WriterTakes, TakeItem, NextIsGot
<1>2. consuming = NoSlot
  BY <1>1 DEF IInv, Owners
<1>3. consuming' # NoSlot
  <2>1. 1 \in 1 .. Len(items) /\ Head(items) = items[1]
    BY <1>1, <1>t, EmptySeq, LenProperties, HeadTailProperties DEF TypeOK
  <2> QED
    BY <1>1, <1>t, <2>1, Elements DEF Slot, NoSlot
<1>4. Len(items) \in Nat \ {0} /\ Len(wrote) \in Nat
  BY <1>1, <1>t, EmptySeq, LenProperties, Elements DEF TypeOK
<1>5. sent = Len(wrote) + Len(items)
  BY <1>2, <1>4 DEF IInv, Stream, Taken
<1>6. Len(wrote) < sent /\ Len(wrote) + 0 = Len(wrote)
  BY <1>4, <1>5
<1> QED
  BY <1>1, <1>2, <1>3, <1>6 DEF Channel!Take, Verdicts

LEMMA WriterConsumes == IInv /\ WriterReleases => Channel!Consume
<1> SUFFICES ASSUME IInv, WriterReleases PROVE Channel!Consume
  OBVIOUS
<1>t. TypeOK
  BY DEF IInv
<1>1. /\ writer = "holding" /\ writer' = "polling" /\ wrote' = Append(wrote, slots[consuming])
      /\ UNCHANGED <<sent, failed, finished, stopped>>
  BY DEF WriterReleases, Release
<1>2. consuming # NoSlot
  BY <1>1 DEF IInv, Owners
<1>3. consuming' = NoSlot
  BY <1>2 DEF WriterReleases, Release
<1>4. slots[consuming] = Len(wrote) + 1 /\ Len(wrote) \in Nat
  BY <1>2, <1>t, Elements DEF IInv, Stream, Taken
<1>5. Len(wrote') = Len(wrote) + 1
  <2>1. slots[consuming] \in Piece \cup {Torn}
    BY <1>2, <1>t DEF TypeOK
  <2> QED
    BY <1>1, <1>t, <2>1, AppendProperties DEF TypeOK
<1>6. Len(wrote') + 0 = Len(wrote) + 1
  BY <1>4, <1>5
<1> QED
  BY <1>1, <1>2, <1>3, <1>4, <1>6 DEF Channel!Consume, Verdicts

(* A verdict is given when the channel would give it. *)
LEMMA WriterHears ==
  IInv /\ (WriterHearsStopped \/ WriterHearsFailed \/ WriterHearsFinished) => Channel!Next
<1> SUFFICES ASSUME IInv, writer = "polling",
                    WriterHearsStopped \/ WriterHearsFailed \/ WriterHearsFinished
             PROVE  Channel!Next
  BY DEF WriterHearsStopped, WriterHearsFailed, WriterHearsFinished
<1>t. TypeOK
  BY DEF IInv
<1>1. UNCHANGED <<sent, wrote, consuming, items, failed, finished, stopped>>
  BY DEF WriterHearsStopped, WriterHearsFailed, WriterHearsFinished, queueVars
<1>2. consuming = NoSlot /\ Len(wrote) \in Nat
  BY <1>t, Elements DEF IInv, Owners
<1>3. items = <<>> => sent = Len(wrote)
  BY <1>2, EmptySeq DEF IInv, Stream, Taken
<1>4. CASE WriterHearsStopped
  <2>1. stopped /\ writer' = "stopped"
    BY <1>4 DEF WriterHearsStopped, NextIsStopped
  <2>2. Channel!HearStopped
    BY <1>1, <2>1 DEF Channel!HearStopped, Verdicts
  <2> QED
    BY <2>2 DEF Channel!Next
<1>5. CASE WriterHearsFailed
  <2>1. ~stopped /\ items = <<>> /\ failed /\ writer' = "failed"
    BY <1>5 DEF WriterHearsFailed, NextIsFailed
  <2>2. Channel!HearFailed
    BY <1>1, <1>3, <2>1 DEF Channel!HearFailed, Verdicts
  <2> QED
    BY <2>2 DEF Channel!Next
<1>6. CASE WriterHearsFinished
  <2>1. ~stopped /\ items = <<>> /\ ~failed /\ finished /\ writer' = "finished"
    BY <1>6 DEF WriterHearsFinished, NextIsFinished
  <2>2. sent = NumPieces
    BY <2>1 DEF IInv, Closing
  <2>3. Channel!HearFinished
    BY <1>1, <1>3, <2>1, <2>2 DEF Channel!HearFinished, Verdicts
  <2> QED
    BY <2>3 DEF Channel!Next
<1> QED
  BY <1>4, <1>5, <1>6

(* The fetch thread closes the stream once, when all was sent or a stop cut it short. *)
LEMMA ReaderCloses ==
  IInv /\ (ReaderRefused \/ ReaderFails \/ ReaderFinishes) => Channel!Next
<1> SUFFICES ASSUME IInv, ReaderRefused \/ ReaderFails \/ ReaderFinishes PROVE Channel!Next
  OBVIOUS
<1>1. ~finished /\ ~failed
  BY DEF IInv, Closing, ReaderRefused, ReaderFails, ReaderFinishes
<1>2. UNCHANGED <<sent, wrote, consuming, stopped, writer>>
  BY DEF ReaderRefused, ReaderFails, ReaderFinishes, Finish, Fail
<1>3. CASE ReaderFails
  <2>1. failed'
    BY <1>3 DEF ReaderFails, Fail
  <2>2. Channel!CloseFailed
    BY <1>1, <1>2, <2>1 DEF Channel!CloseFailed
  <2> QED
    BY <2>2 DEF Channel!Next
<1>4. CASE ReaderRefused \/ ReaderFinishes
  <2>1. finished' /\ ~failed'
    BY <1>1, <1>4 DEF ReaderRefused, ReaderFinishes, Finish
  <2>2. sent = NumPieces \/ stopped
    BY <1>1, <1>4 DEF ReaderRefused, ReaderFinishes, AcquireRefused
  <2>3. Channel!CloseFinished
    BY <1>1, <1>2, <2>1, <2>2 DEF Channel!CloseFinished
  <2> QED
    BY <2>3 DEF Channel!Next
<1> QED
  BY <1>3, <1>4

LEMMA StepIsTheChannels == IInv /\ [Next]_vars => [Channel!Next]_(Channel!chanVars)
<1> SUFFICES ASSUME IInv, [Next]_vars PROVE Channel!Next \/ UNCHANGED Channel!chanVars
  OBVIOUS
<1>1. CASE ReaderAcquires \/ ReaderSleeps \/ ReaderFills
  <2>1. UNCHANGED <<sent, wrote, stopped, consuming, failed, finished, writer>>
    BY <1>1 DEF ReaderAcquires, AcquireSlot, ReaderSleeps, ReaderFills, FillSlot, queueVars
  <2> QED
    BY <2>1, ChannelStutters DEF Taken, Closed, Verdict
<1>2. CASE ReaderPublishes
  BY <1>2, PublishSends DEF Channel!Next
<1>3. CASE ReaderRefused \/ ReaderFails \/ ReaderFinishes
  BY <1>3, ReaderCloses
<1>4. CASE WriterTakes
  BY <1>4, WriterTakesOne DEF Channel!Next
<1>5. CASE WriterReleases
  BY <1>5, WriterConsumes DEF Channel!Next
<1>6. CASE WriterHearsStopped \/ WriterHearsFailed \/ WriterHearsFinished
  BY <1>6, WriterHears
<1>7. CASE WriterLeaves
  <2>1. UNCHANGED <<sent, wrote, stopped, consuming, failed, finished>>
    BY <1>7 DEF WriterLeaves, queueVars
  <2>2. Verdict' = Verdict
    BY <1>7 DEF WriterLeaves, Verdict, Verdicts
  <2> QED
    BY <2>1, <2>2, ChannelStutters DEF Taken, Closed
<1>8. CASE WriterStops
  <2>1. stopped' = TRUE /\ UNCHANGED <<sent, wrote, consuming, failed, finished, writer>>
    BY <1>8 DEF WriterStops, RequestStop
  <2>2. Channel!Stop
    BY <2>1 DEF Channel!Stop
  <2> QED
    BY <2>2 DEF Channel!Next
<1>9. CASE Over \/ UNCHANGED vars
  <2>1. UNCHANGED <<sent, wrote, stopped, consuming, failed, finished, writer>>
    BY <1>9 DEF Over, vars, queueVars
  <2> QED
    BY <2>1, ChannelStutters DEF Taken, Closed, Verdict
<1> QED
  BY <1>1, <1>2, <1>3, <1>4, <1>5, <1>6, <1>7, <1>8, <1>9 DEF Next, ReaderNext, WriterPolls

-----------------------------------------------------------------------------
(* The composition with the decoders.                                      *)
(* The read-out and the beginning of the transfer do not touch the pipe. *)
LEMMA ReadOutLeavesPipe == ReadOut \/ TransferBegins => UNCHANGED vars
  BY DEF ReadOut, ReadOutBegins, DecodesUntil, PullsChunk, ReadOutFails, ReadOutEnds,
         TransferBegins

(* The writer's steps, with a decoder in their middle, are the pipe's. *)
LEMMA WriterIsThePipes == WriterThread \/ StreamStops => [Next]_vars
<1>1. ASSUME StreamTakes PROVE WriterTakes
  BY <1>1 DEF StreamTakes
<1>2. ASSUME StreamDecodes PROVE UNCHANGED vars
  BY <1>2 DEF StreamDecodes
<1>3. ASSUME StreamReleases PROVE WriterReleases
  BY <1>3 DEF StreamReleases
<1>4. ASSUME StreamHears PROVE WriterHearsStopped \/ WriterHearsFailed \/ WriterHearsFinished
  BY <1>4 DEF StreamHears
<1>5. ASSUME StreamStops PROVE WriterLeaves \/ WriterStops \/ UNCHANGED vars
  BY <1>5 DEF StreamStops, Joins
<1> QED
  BY <1>1, <1>2, <1>3, <1>4, <1>5 DEF WriterThread, Next, WriterPolls

(* A step of the composition is a step of the pipe or invisible to it. *)
LEMMA StreamStep == [StreamNext]_allVars => [Next]_vars
<1>1. ASSUME FetchThread PROVE Next
  BY <1>1 DEF FetchThread, Next
<1>2. ASSUME UNCHANGED allVars PROVE UNCHANGED vars
  BY <1>2 DEF allVars
<1> QED
  BY <1>1, <1>2, ReadOutLeavesPipe, WriterIsThePipes DEF StreamNext

(* The composed transfer behaves as the pipe does, whatever its contents are *)
(* and whatever their decoders make of them.                                 *)
THEOREM StreamIsAPipe == StreamSpec => Init /\ [][Next]_vars
<1>1. StreamInit => Init
  BY DEF StreamInit
<1> QED
  BY <1>1, StreamStep, PTL DEF StreamSpec

(* The invariant of the pipe, in the composition. *)
LEMMA StreamInvariant == StreamSpec => []IInv
<1>1. IInv /\ [Next]_vars => IInv'
  BY AcquirePreserves, FillPreserves, PublishPreserves, TakePreserves, ReleasePreserves,
     FlagsPreserve DEF Next, ReaderNext, WriterPolls, Over
<1> QED
  BY InitEstablishes, StreamIsAPipe, <1>1, PTL

(* While pieces are decoded from it, a buffer still has one owner. *)
THEOREM DecodedBuffersHaveOneOwner == StreamSpec => []OneOwner
<1>1. IInv => OneOwner
  BY DEF IInv
<1> QED
  BY <1>1, StreamInvariant, PTL

(* The decoders get every piece, whole and in order, between two of which the *)
(* other content's may lie.                                                  *)
THEOREM DecodersGetPiecesInOrder == StreamSpec => []InOrder
<1>1. IInv => InOrder
  BY DEF IInv
<1> QED
  BY <1>1, StreamInvariant, PTL

(* TransferQueue, between GameInstall's two threads and with the decoders at the *)
(* writer's end, is a bounded first-in first-out channel: what the writer gets,   *)
(* when it is told that the stream ended and how much may be under way is what    *)
(* PieceChannel says, for any number of slots and of pieces.                      *)
THEOREM PipeIsAChannel == StreamSpec => ImplementsChannel
<1>1. Init => Channel!Init
  BY ChannelStarts
<1>2. IInv /\ [Next]_vars => [Channel!Next]_(Channel!chanVars)
  BY StepIsTheChannels
<1> QED
  BY <1>1, <1>2, StreamInvariant, StreamIsAPipe, PTL DEF ImplementsChannel, Channel!Spec

-----------------------------------------------------------------------------
(* Runs of units, and induction over the naturals. *)
Place(s) == {s} \X Int

(* A run of units is a sequence, with its units in their places. *)
LEMMA UnitsAreASeq ==
  ASSUME NEW s, NEW i \in Int, NEW n \in Nat
  PROVE  /\ Units(s, i, n) \in Seq(Place(s))
         /\ Len(Units(s, i, n)) = n
         /\ \A k \in 1 .. n : Units(s, i, n)[k] = <<s, i + k - 1>>
<1>1. Units(s, i, n) \in [1 .. n -> Place(s)]
  BY DEF Units, Place
<1>2. Units(s, i, n) \in Seq(Place(s))
  BY <1>1, SeqDef
<1>3. Len(Units(s, i, n)) \in Nat /\ 1 .. Len(Units(s, i, n)) = 1 .. n
  BY <1>1, <1>2, LenProperties
<1>4. Len(Units(s, i, n)) = n
  BY <1>3
<1> QED
  BY <1>2, <1>4 DEF Units

(* A run of no units is empty. *)
LEMMA NoUnits == ASSUME NEW s, NEW i \in Int PROVE Units(s, i, 0) = <<>>
<1>1. Units(s, i, 0) \in Seq(Place(s)) /\ Len(Units(s, i, 0)) = 0
  BY UnitsAreASeq
<1> QED
  BY <1>1, EmptySeq

(* ... and no other one is. *)
LEMMA EmptyUnits ==
  ASSUME NEW s, NEW i \in Int, NEW n \in Nat
  PROVE  Units(s, i, n) = <<>> <=> n = 0
<1>1. Len(Units(s, i, n)) = n
  BY UnitsAreASeq
<1>2. Len(<<>>) = 0
  OBVIOUS
<1> QED
  BY <1>1, <1>2, NoUnits

(* Two runs, the second behind the first, are one. *)
LEMMA UnitsJoin ==
  ASSUME NEW s, NEW i \in Int, NEW n \in Nat, NEW m \in Nat
  PROVE  Units(s, i, n) \o Units(s, i + n, m) = Units(s, i, n + m)
<1> DEFINE a == Units(s, i, n)
           b == Units(s, i + n, m)
           c == Units(s, i, n + m)
<1>1. /\ a \in Seq(Place(s)) /\ Len(a) = n
      /\ \A k \in 1 .. n : a[k] = <<s, i + k - 1>>
  BY UnitsAreASeq
<1>2. /\ b \in Seq(Place(s)) /\ Len(b) = m
      /\ \A k \in 1 .. m : b[k] = <<s, i + n + k - 1>>
  BY UnitsAreASeq, i + n \in Int
<1>3. /\ c \in Seq(Place(s)) /\ Len(c) = n + m
      /\ \A k \in 1 .. n + m : c[k] = <<s, i + k - 1>>
  BY UnitsAreASeq, n + m \in Nat
<1> HIDE DEF a, b, c
<1>4. /\ a \o b \in Seq(Place(s)) /\ Len(a \o b) = n + m
      /\ \A k \in 1 .. n + m : (a \o b)[k] = IF k <= n THEN a[k] ELSE b[k - n]
  BY <1>1, <1>2, ConcatProperties
<1>5. ASSUME NEW k \in 1 .. n + m PROVE (a \o b)[k] = c[k]
  <2>1. CASE k <= n
    <3>1. k \in 1 .. n
      BY <2>1
    <3> QED
      BY <2>1, <3>1, <1>1, <1>3, <1>4
  <2>2. CASE ~(k <= n)
    <3>1. k - n \in 1 .. m /\ i + n + (k - n) - 1 = i + k - 1
      BY <2>2
    <3> QED
      BY <2>2, <3>1, <1>2, <1>3, <1>4
  <2> QED
    BY <2>1, <2>2
<1> QED
  BY <1>3, <1>4, <1>5, SeqEqual DEF a, b, c

(* SubSeq under a name the provers leave alone. *)
Part(u, from, to) == SubSeq(u, from, to)

(* A piece cut out of a run is a run. *)
LEMMA UnitsPart ==
  ASSUME NEW s, NEW i \in Int, NEW n \in Nat, NEW from \in Nat \ {0}, NEW to \in Nat,
         from <= to + 1, to <= n
  PROVE  Part(Units(s, i, n), from, to) = Units(s, i + from - 1, to - from + 1)
<1> DEFINE a == Units(s, i, n)
           b == Units(s, i + from - 1, to - from + 1)
           c == SubSeq(a, from, to)
           m == to - from + 1
<1>1. /\ a \in Seq(Place(s)) /\ Len(a) = n
      /\ \A k \in 1 .. n : a[k] = <<s, i + k - 1>>
  BY UnitsAreASeq
<1>2. /\ b \in Seq(Place(s)) /\ Len(b) = m
      /\ \A k \in 1 .. m : b[k] = <<s, i + from - 1 + k - 1>>
  BY UnitsAreASeq, i + from - 1 \in Int, m \in Nat
<1>3. \A k \in from .. to : a[k] \in Place(s)
  BY <1>1, ElementOfSeq
<1> HIDE DEF a, b
<1>4. /\ c \in Seq(Place(s))
      /\ Len(c) = IF from <= to THEN to - from + 1 ELSE 0
      /\ \A k \in 1 .. to - from + 1 : c[k] = a[from + k - 1]
  BY <1>1, <1>3, SubSeqProperties
<1>5. Len(c) = m /\ \A k \in 1 .. m : c[k] = a[from + k - 1]
  BY <1>4
<1>6. ASSUME NEW k \in 1 .. m PROVE c[k] = b[k]
  <2>1. from + k - 1 \in 1 .. n /\ i + (from + k - 1) - 1 = i + from - 1 + k - 1
    OBVIOUS
  <2> QED
    BY <1>1, <1>2, <1>5, <2>1
<1> HIDE DEF c, m
<1>7. c = b
  BY <1>2, <1>4, <1>5, <1>6, SeqEqual
<1> QED
  BY <1>7 DEF a, b, c, Part

(* Every set of naturals has a least element. *)
Less == {p \in Nat \X Nat : p[1] < p[2]}

(* The order of the naturals is well-founded. *)
LEMMA LessIsWellFounded == IsWellFoundedOn(Less, Nat)
<1>1. OpToRel(<, Nat) = Less
  BY DEF OpToRel, Less
<1> QED
  BY <1>1, NatLessThanWellFounded

(* A set of naturals has a least element ... *)
LEMMA LeastNatural ==
  ASSUME NEW S, S \subseteq Nat, S # {}
  PROVE  \E m \in S : \A n \in S : m <= n
<1>1. \E m \in S : \A n \in S : <<n, m>> \notin Less
  BY WFMin, LessIsWellFounded
<1>2. PICK m \in S : \A n \in S : <<n, m>> \notin Less
  BY <1>1
<1>3. \A n \in S : ~(n < m)
  BY <1>2 DEF Less
<1> QED
  BY <1>3

(* ... so what holds of 0 and passes on from n to n + 1 holds of every natural. *)
LEMMA Induction ==
  ASSUME NEW S, 0 \in S, \A n \in Nat : n \in S => n + 1 \in S
  PROVE  Nat \subseteq S
<1> SUFFICES ASSUME Nat \ S # {} PROVE FALSE
  OBVIOUS
<1>1. PICK m \in Nat \ S : \A n \in Nat \ S : m <= n
  BY LeastNatural
<1>2. m # 0
  OBVIOUS
<1>3. m - 1 \in Nat /\ m - 1 < m
  BY <1>2
<1>4. m - 1 \in S
  BY <1>1, <1>3
<1> QED
  BY <1>3, <1>4

(* A bounded set has a greatest element, and it is what Max picks. *)
LEMMA Greatest ==
  ASSUME NEW S, NEW n \in Nat, S \subseteq 0 .. n, S # {}
  PROVE  Max(S) \in S /\ \A x \in S : x <= Max(S)
<1>0. \A x \in S : x \in 0 .. n
  OBVIOUS
<1> DEFINE T == {m \in Nat : n - m \in S}
<1>1. T \subseteq Nat /\ T # {}
  <2>1. PICK x \in S : x \in 0 .. n
    BY <1>0
  <2>2. n - x \in Nat /\ n - (n - x) = x
    BY <2>1
  <2> QED
    BY <2>1, <2>2
<1>2. PICK m \in T : \A y \in T : m <= y
  BY <1>1, LeastNatural
<1>3. \A x \in S : n - m >= x
  <2> SUFFICES ASSUME NEW x \in S PROVE n - m >= x
    OBVIOUS
  <2>1. x \in 0 .. n
    BY <1>0
  <2>2. n - x \in Nat /\ n - (n - x) = x
    BY <2>1
  <2>3. m <= n - x
    BY <1>2, <2>2
  <2> QED
    BY <2>1, <2>3, m \in Nat
<1>4. n - m \in S
  OBVIOUS
<1> HIDE DEF T
<1>5. Max(S) \in S /\ \A x \in S : Max(S) >= x
  BY <1>3, <1>4 DEF Max
<1> QED
  BY <1>0, <1>5

-----------------------------------------------------------------------------
(* zstd: what one call does with a span. *)
(* Min, of two. *)
LEMMA MinOfTwo ==
  ASSUME NEW a \in Nat, NEW b \in Nat
  PROVE  Min({a, b}) = IF a <= b THEN a ELSE b
BY DEF Min

(* The units ahead of a decoder that has taken c of them. *)
LEMMA SpanHead ==
  ASSUME NEW s, NEW c \in Nat, NEW m \in Nat \ {0}
  PROVE  /\ Len(Units(s, c + 1, m)) = m
         /\ Units(s, c + 1, m)[1] = <<s, c + 1>>
         /\ \A k \in 1 .. m : Units(s, c + 1, m)[k] = <<s, c + 1 + k - 1>>
<1>1. c + 1 \in Int /\ m \in Nat /\ 1 \in 1 .. m
  OBVIOUS
<1>2. /\ Len(Units(s, c + 1, m)) = m
      /\ \A k \in 1 .. m : Units(s, c + 1, m)[k] = <<s, c + 1 + k - 1>>
  BY <1>1, UnitsAreASeq
<1>3. Units(s, c + 1, m)[1] = <<s, c + 1 + 1 - 1>> /\ c + 1 + 1 - 1 = c + 1
  BY <1>1, <1>2
<1> QED
  BY <1>2, <1>3

(* What a file's reach says of its units. *)
LEMMA ReachGrows ==
  ASSUME NEW info, IsFile(info)
  PROVE  /\ info.payload \in Nat \ {0}
         /\ \A i \in 0 .. info.payload : info.reach[i] \in Nat /\ info.reach[i] >= HeaderSize
         /\ \A i, j \in 0 .. info.payload : i <= j => info.reach[i] <= info.reach[j]
         /\ info.reach[0] = HeaderSize
         /\ info.bad \in 0 .. info.payload
         /\ info.size \in Nat /\ HeaderSize < info.size
<1>1. /\ info.payload \in Nat \ {0}
      /\ info.reach \in [0 .. info.payload -> Nat] /\ info.reach[0] = HeaderSize
      /\ \A i, j \in 0 .. info.payload : i <= j => info.reach[i] <= info.reach[j]
      /\ info.bad \in 0 .. info.payload /\ info.size \in Nat /\ HeaderSize < info.size
  BY DEF IsFile
<1>2. \A i \in 0 .. info.payload : info.reach[i] \in Nat
  BY <1>1
<1>3. \A i \in 0 .. info.payload : info.reach[i] >= HeaderSize
  <2> TAKE i \in 0 .. info.payload
  <2>1. 0 \in 0 .. info.payload /\ 0 <= i
    BY <1>1
  <2>2. info.reach[0] <= info.reach[i]
    BY <1>1, <2>1
  <2> QED
    BY <1>1, <1>2, <2>2, DecoderAssumption
<1> QED
  BY <1>1, <1>2, <1>3

(* zstd in a frame that ends with the unit l, of which c units are consumed:    *)
(* it holds h decoded units back, and the NCA is decoded up to `end`.          *)
InFrame(info, s, c, l, end, h, e) ==
  /\ c < l /\ c <= info.payload
  /\ e => c + 1 = l /\ h > 0 /\ c < info.payload
  /\ end + h = info.reach[IF e THEN c + 1 ELSE c]
FrameStream(s, c, l, end, h, e) ==
  [at |-> <<s, c + 1>>, last |-> l, held |-> Units(s, end, h), ended |-> e]

(* What zstd has decoded when it has taken n more units is what comes next. *)
HeldThen(info, z, s, c, m, end, h, e, n) ==
  LET made == HeldAfter(info, z, Units(s, c + 1, m))
      size == IF e THEN h ELSE info.reach[c + n] - end
  IN  /\ size \in Nat /\ made[n] = Units(s, end, size) /\ Len(made[n]) = size
      /\ n = 0 => size = h

(* ... from any place of a frame. *)
LEMMA HeldIsInPlace ==
  ASSUME NEW info, IsFile(info), NEW s, NEW c \in Nat, NEW m \in Nat \ {0}, c + m <= info.payload,
         NEW l \in Nat, NEW end \in Nat, NEW h \in Nat, NEW e \in BOOLEAN,
         InFrame(info, s, c, l, end, h, e),
         NEW z, z.held = Units(s, end, h), z.ended = e,
         NEW n \in 0 .. m
  PROVE  HeldThen(info, z, s, c, m, end, h, e, n)
<1> DEFINE span == Units(s, c + 1, m)
           size == IF e THEN h ELSE info.reach[c + n] - end
           made == HeldAfter(info, z, span)
<1>1. Len(span) = m /\ span[1] = <<s, c + 1>>
  BY SpanHead
<1>2. span[1][1] = s /\ span[1][2] = c + 1
  BY <1>1
<1> HIDE DEF span
<1>3. made[n] = Units(s, end, h) \o (IF e THEN <<>> ELSE Products(info, s, c + 1, n))
  BY <1>1, <1>2 DEF HeldAfter
<1>4. c + n \in 0 .. info.payload /\ c \in 0 .. info.payload /\ c <= c + n
  BY ReachGrows
<1>5. info.reach[c] \in Nat /\ info.reach[c + n] \in Nat /\ info.reach[c] <= info.reach[c + n]
  BY <1>4, ReachGrows
<1>6. CASE e
  <2>1. made[n] = Units(s, end, h) \o <<>>
    BY <1>3, <1>6
  <2>2. Units(s, end, h) \in Seq(Place(s)) /\ Len(Units(s, end, h)) = h
    BY UnitsAreASeq
  <2>3. made[n] = Units(s, end, h)
    BY <2>1, <2>2, ConcatEmptySeq
  <2> QED
    BY <2>2, <2>3, <1>6 DEF span, HeldThen
<1>7. CASE ~e
  <2>1. end + h = info.reach[c]
    BY <1>7 DEF InFrame
  <2>2. c + 1 - 1 = c /\ c + 1 + n - 1 = c + n
    OBVIOUS
  <2>3. Products(info, s, c + 1, n) = Units(s, end + h, info.reach[c + n] - info.reach[c])
    BY <2>1, <2>2 DEF Products
  <2> DEFINE g == info.reach[c + n] - info.reach[c]
  <2>4. g \in Nat /\ h + g = info.reach[c + n] - end
    BY <1>5, <2>1
  <2>5. made[n] = Units(s, end, h) \o Units(s, end + h, g)
    BY <1>3, <1>7, <2>3
  <2> HIDE DEF g
  <2>6. made[n] = Units(s, end, h + g)
    <3>1. g \in Nat /\ end \in Int
      BY <2>4
    <3>2. Units(s, end, h) \o Units(s, end + h, g) = Units(s, end, h + g)
      BY <3>1, UnitsJoin
    <3> QED
      BY <2>5, <3>2
  <2>7. h + g \in Nat /\ Len(Units(s, end, h + g)) = h + g
    BY <2>4, UnitsAreASeq
  <2>8. n = 0 => h + g = h
    BY <1>5, <2>1, <2>4
  <2> QED
    BY <1>7, <2>4, <2>6, <2>7, <2>8 DEF span, HeldThen
<1> QED
  BY <1>6, <1>7

(* What one call of zstd does, in a frame or at the beginning of one: it goes  *)
(* on in place, moves, and a file it takes for broken is broken.              *)
Decompressed(info, s, c, m, l, end, r) ==
  \/ r = ZstdError /\ info.bad # 0
  \/ \E k \in 0 .. m, o \in Nat :
       /\ r.error = FALSE /\ r.consumed = k /\ r.out = Units(s, end, o)
       /\ k + o > 0 /\ c + k <= l /\ info.bad \notin c + 1 .. c + k
       /\ \/ /\ c + k = l /\ r.stream = FreshStream
             /\ end + o = info.reach[c + k]
          \/ \E h \in Nat, e \in BOOLEAN :
               /\ InFrame(info, s, c + k, l, end + o, h, e)
               /\ r.stream = FrameStream(s, c + k, l, end + o, h, e)

(* A call that takes `taken` units, has decoded q and hands out o of them.     *)
Handing(info, s, c, m, l, end, h, e, room, taken, q, o, ended, k, r) ==
  /\ m \in Nat /\ m > 0 /\ info.payload \in Nat /\ c + m <= info.payload
  /\ InFrame(info, s, c, l, end, h, e)
  /\ room \in Nat /\ room > 0 /\ taken \in 0 .. m /\ q \in Nat /\ o \in Nat /\ o <= q
  /\ taken > 0 => c + taken <= l
  /\ taken = 0 => h > room /\ q = h
  /\ o <= room /\ (o = q \/ o = room)
  /\ end + q = info.reach[IF e THEN c + 1 ELSE c + taken]
  /\ info.bad \notin c + 1 .. c + taken
  /\ ended \in BOOLEAN /\ (ended <=> taken > 0 /\ c + taken = l /\ q - o > 0)
  /\ k = IF ended THEN taken - 1 ELSE taken
  /\ r.error = FALSE /\ r.consumed = k /\ r.out = Units(s, end, o)
  /\ r.stream = IF ~ended /\ c + taken = l THEN FreshStream
                ELSE [at |-> <<s, c + 1 + k>>, last |-> l,
                      held |-> Units(s, end + o, q - o), ended |-> ended \/ (e /\ taken = 0)]

(* The frame ends and is consumed, or zstd stays in it.                        *)
LEMMA FrameEndsOrStays ==
  ASSUME NEW info, NEW s, NEW c \in Nat, NEW m,
         NEW l \in Nat, NEW end \in Nat, NEW h \in Nat, NEW e \in BOOLEAN,
         NEW room, NEW taken, NEW q, NEW o, NEW ended, NEW k, NEW r,
         Handing(info, s, c, m, l, end, h, e, room, taken, q, o, ended, k, r)
  PROVE  Decompressed(info, s, c, m, l, end, r)
<1> USE DEF Handing
<1>1. c < l /\ (e => c + 1 = l /\ h > 0)
  BY DEF InFrame
<1>2. k \in 0 .. m /\ k <= taken /\ taken - 1 <= k /\ c + k <= l
  BY <1>1
<1>3. info.bad \notin c + 1 .. c + k
  BY <1>2
<1>4. k + o > 0
  <2>1. CASE taken = 0
    BY <2>1, <1>2
  <2>2. CASE taken > 0 /\ ended
    BY <2>2, <1>2
  <2>3. CASE taken > 0 /\ ~ended
    BY <2>3, <1>2
  <2> QED
    BY <2>1, <2>2, <2>3
<1>5. e /\ taken > 0 => taken = 1
  BY <1>1
<1>6. CASE ~ended /\ c + taken = l
  <2>1. k = taken /\ taken > 0 /\ q = o
    BY <1>6, <1>1
  <2>2. end + o = info.reach[c + k]
    <3>1. CASE e
      BY <3>1, <2>1, <1>5
    <3>2. CASE ~e
      BY <3>2, <2>1
    <3> QED
      BY <3>1, <3>2
  <2>3. r.stream = FreshStream /\ c + k = l
    BY <1>6, <2>1
  <2> QED
    BY <1>2, <1>3, <1>4, <2>2, <2>3 DEF Decompressed
<1>7. CASE ended \/ c + taken # l
  <2> DEFINE f == ended \/ (e /\ taken = 0)
             g == q - o
  <2>1. f \in BOOLEAN /\ g \in Nat
    OBVIOUS
  <2>2. r.stream = FrameStream(s, c + k, l, end + o, g, f)
    <3>1. c + 1 + k = c + k + 1
      BY <1>2
    <3> QED
      BY <1>7, <3>1 DEF FrameStream
  <2>3. ASSUME ended PROVE InFrame(info, s, c + k, l, end + o, g, f)
    <3>1. k = taken - 1 /\ c + taken = l /\ g > 0 /\ taken > 0 /\ f = TRUE
      BY <2>3
    <3>2. c + k + 1 = l /\ c + k < info.payload /\ c + k < l /\ c + k <= info.payload
      BY <3>1, <1>2
    <3>3. end + o + g = info.reach[c + k + 1]
      <4>1. end + o + g = end + q
        OBVIOUS
      <4>2. c + k + 1 = c + taken
        BY <3>1
      <4>3. CASE e
        BY <4>3, <4>1, <4>2, <3>1, <1>5
      <4>4. CASE ~e
        BY <4>4, <4>1, <4>2
      <4> QED
        BY <4>3, <4>4
    <3> HIDE DEF f, g
    <3> QED
      BY <3>1, <3>2, <3>3 DEF InFrame
  <2>4. ASSUME ~ended /\ taken = 0 PROVE InFrame(info, s, c + k, l, end + o, g, f)
    <3>0. f = e
      <4>1. CASE e
        BY <4>1, <2>4
      <4>2. CASE ~e
        BY <4>2, <2>4
      <4> QED
        BY <4>1, <4>2
    <3>1. k = 0 /\ end + o + g = end + h /\ g > 0 /\ c + k = c
      BY <2>4
    <3> HIDE DEF f, g
    <3> QED
      BY <3>0, <3>1 DEF InFrame
  <2>5. ASSUME ~ended /\ taken # 0 PROVE InFrame(info, s, c + k, l, end + o, g, f)
    <3>1. k = taken /\ f = FALSE /\ c + taken < l /\ taken > 0 /\ ~e
      BY <2>5, <1>7, <1>5, <1>1
    <3>2. end + o + g = info.reach[c + k] /\ c + k <= info.payload /\ c + k < l
      BY <3>1
    <3> HIDE DEF f, g
    <3> QED
      BY <3>1, <3>2 DEF InFrame
  <2>6. InFrame(info, s, c + k, l, end + o, g, f)
    <3>1. ended \/ (~ended /\ taken = 0) \/ (~ended /\ taken # 0)
      OBVIOUS
    <3> HIDE DEF f, g
    <3> QED
      BY <3>1, <2>3, <2>4, <2>5
  <2> HIDE DEF f, g
  <2>7. end + o \in Nat
    OBVIOUS
  <2>8. \E hh \in Nat, ee \in BOOLEAN :
          /\ InFrame(info, s, c + k, l, end + o, hh, ee)
          /\ r.stream = FrameStream(s, c + k, l, end + o, hh, ee)
    BY <2>1, <2>2, <2>6
  <2> QED
    BY <1>2, <1>3, <1>4, <2>8 DEF Decompressed
<1> QED
  BY <1>6, <1>7

(* ZSTD_decompressStream over a span, anywhere in a frame or at its beginning. *)
LEMMA DecompressGoesOn ==
  ASSUME NEW info, IsFile(info), NEW s \in Nat, NEW c \in Nat, NEW m \in Nat \ {0}, c + m <= info.payload,
         NEW l \in Nat, NEW end \in Nat, NEW h \in Nat, NEW e \in BOOLEAN,
         InFrame(info, s, c, l, end, h, e),
         NEW z, z.held = Units(s, end, h), z.ended = e,
         \/ z.at = <<s, c + 1>> /\ z.last = l
         \/ z.at = NoUnit /\ FrameFrom(info, c + 1) = l,
         NEW room \in Nat \ {0}
  PROVE  Decompressed(info, s, c, m, l, end, Decompress(info, z, Units(s, c + 1, m), room))
<1>1. PICK span : span = Units(s, c + 1, m)
  OBVIOUS
<1>2. /\ Len(span) = m /\ span[1] = <<s, c + 1>> /\ span[1][1] = s /\ span[1][2] = c + 1
      /\ \A k \in 1 .. m : span[k] = <<s, c + 1 + k - 1>>
  <2>1. /\ Len(span) = m /\ span[1] = <<s, c + 1>>
        /\ \A k \in 1 .. m : span[k] = <<s, c + 1 + k - 1>>
    BY <1>1, SpanHead
  <2> QED
    BY <2>1
<1>3. PICK last : last = IF z.at = NoUnit THEN FrameFrom(info, c + 1) ELSE z.last
  OBVIOUS
<1>4. NoUnit # <<s, c + 1>>
  BY DEF NoUnit
<1>5. last = l /\ ~(z.at = NoUnit /\ last = 0) /\ ~(z.at # NoUnit /\ z.at # <<s, c + 1>>)
  <2>1. c < l
    BY DEF InFrame
  <2> QED
    BY <1>3, <1>4, <2>1
<1>6. PICK made : made = HeldAfter(info, z, span)
  OBVIOUS
<1>7. PICK size : size = [n \in 0 .. m |-> IF e THEN h ELSE info.reach[c + n] - end]
  OBVIOUS
<1>8. \A n \in 0 .. m : size[n] \in Nat /\ made[n] = Units(s, end, size[n]) /\ Len(made[n]) = size[n]
  <2> SUFFICES ASSUME NEW n \in 0 .. m
               PROVE  size[n] \in Nat /\ made[n] = Units(s, end, size[n]) /\ Len(made[n]) = size[n]
    OBVIOUS
  <2>1. size[n] = IF e THEN h ELSE info.reach[c + n] - end
    BY <1>7
  <2>2. HeldThen(info, z, s, c, m, end, h, e, n)
    BY HeldIsInPlace
  <2>3. PICK held : held = HeldAfter(info, z, Units(s, c + 1, m))
    OBVIOUS
  <2>4. PICK length : length = IF e THEN h ELSE info.reach[c + n] - end
    OBVIOUS
  <2>5. length \in Nat /\ held[n] = Units(s, end, length) /\ Len(held[n]) = length
    BY <2>2, <2>3, <2>4 DEF HeldThen
  <2>6. made = held
    BY <1>1, <1>6, <2>3
  <2>7. size[n] = length
    BY <2>1, <2>4
  <2> QED
    BY <2>5, <2>6, <2>7
<1>9. size[0] = h
  <2>1. 0 \in 0 .. m
    OBVIOUS
  <2>2. size[0] = IF e THEN h ELSE info.reach[c + 0] - end
    BY <2>1, <1>7
  <2>3. HeldThen(info, z, s, c, m, end, h, e, 0)
    BY <2>1, HeldIsInPlace
  <2> QED
    BY <2>2, <2>3 DEF HeldThen
<1>10. PICK taken : taken = Max({0} \cup {n \in 1 .. m : c + 1 + n - 1 <= last /\ Len(made[n - 1]) <= room})
  OBVIOUS
<1>11. /\ taken \in 0 .. m
       /\ taken > 0 => c + taken <= l
       /\ taken = 0 => h > room
  <2>1. PICK able : able = {0} \cup {n \in 1 .. m : c + 1 + n - 1 <= last /\ Len(made[n - 1]) <= room}
    OBVIOUS
  <2>2. able \subseteq 0 .. m /\ able # {}
    BY <2>1
  <2>3. taken \in able /\ \A x \in able : x <= taken
    BY <1>10, <2>1, <2>2, Greatest
  <2>4. taken \in 0 .. m
    BY <2>2, <2>3
  <2>5. ASSUME taken > 0 PROVE c + taken <= l
    <3>1. c + 1 + taken - 1 <= last
      BY <2>1, <2>3, <2>5
    <3> QED
      BY <3>1, <1>5, <2>4
  <2>6. ASSUME taken = 0 PROVE h > room
    <3>1. 1 \notin able
      BY <2>3, <2>6
    <3>2. 1 \in 1 .. m /\ c + 1 + 1 - 1 <= last
      BY <1>5 DEF InFrame
    <3>3. ~(Len(made[1 - 1]) <= room)
      BY <3>1, <3>2, <2>1
    <3>4. 1 - 1 = 0 /\ 0 \in 0 .. m
      OBVIOUS
    <3>5. Len(made[1 - 1]) = h
      BY <3>4, <1>8, <1>9
    <3> QED
      BY <3>3, <3>5
  <2> QED
    BY <2>4, <2>5, <2>6
<1>12. PICK q \in Nat : q = size[taken] /\ made[taken] = Units(s, end, q) /\ Len(made[taken]) = q
  BY <1>8, <1>11
<1>13. PICK o \in Nat : o = (IF q <= room THEN q ELSE room)
  BY <1>12
<1>14. o <= q /\ o <= room /\ (o = q \/ o = room) /\ q - o \in Nat
  BY <1>13
<1>15. PICK out : out = SubSeq(made[taken], 1, Min({Len(made[taken]), room}))
  OBVIOUS
<1>16. out = Units(s, end, o) /\ Len(out) = o
  <2>1. Min({Len(made[taken]), room}) = o
    BY <1>12, <1>13, MinOfTwo
  <2>2. end \in Int
    OBVIOUS
  <2>3. Part(Units(s, end, q), 1, o) = Units(s, end, o)
    BY <1>14, UnitsPart
  <2>4. out = Units(s, end, o)
    BY <1>12, <1>15, <2>1, <2>3 DEF Part
  <2> QED
    BY <2>2, <2>4, UnitsAreASeq
<1>17. PICK held : held = SubSeq(made[taken], Len(out) + 1, Len(made[taken]))
  OBVIOUS
<1>18. held = Units(s, end + o, q - o) /\ (held # <<>> <=> q - o > 0)
  <2>1. end + o \in Int
    OBVIOUS
  <2>2. Part(Units(s, end, q), o + 1, q) = Units(s, end + o, q - o)
    <3>1. o <= q
      BY <1>14
    <3> QED
      BY <3>1, UnitsPart
  <2>3. held = Units(s, end + o, q - o)
    BY <1>12, <1>16, <1>17, <2>2 DEF Part
  <2>4. Units(s, end + o, q - o) = <<>> <=> q - o = 0
    BY <1>14, <2>1, EmptyUnits
  <2> QED
    BY <1>14, <2>3, <2>4
<1>19. PICK r : r = Decompress(info, z, span, room)
  OBVIOUS
<1>20. r = IF info.bad \in c + 1 .. c + 1 + taken - 1 THEN ZstdError
           ELSE Handed(info, z, span, last, taken, out, held)
  <2>1. ~ \E k \in 1 .. m : c + 1 + k - 1 <= last /\ span[k] # <<s, c + 1 + k - 1>>
    BY <1>2
  <2> QED
    BY <2>1, <1>2, <1>3, <1>5, <1>6, <1>10, <1>15, <1>17, <1>19 DEF Decompress
<1>21. c + 1 + taken - 1 = c + taken
  BY <1>11
<1>22. CASE info.bad \in c + 1 .. c + taken
  <2>1. info.bad # 0
    BY <1>11, <1>22
  <2> QED
    BY <1>1, <1>19, <1>20, <1>21, <1>22, <2>1 DEF Decompressed
<1>23. CASE info.bad \notin c + 1 .. c + taken
  <2>1. r = Handed(info, z, span, last, taken, out, held)
    BY <1>20, <1>21, <1>23
  <2>2. PICK ended \in BOOLEAN : ended <=> taken > 0 /\ c + taken = l /\ q - o > 0
    OBVIOUS
  <2>3. PICK k : k = IF ended THEN taken - 1 ELSE taken
    OBVIOUS
  <2>4. (taken > 0 /\ c + taken = last /\ held # <<>>) = ended
    BY <1>5, <1>18, <2>2
  <2>5. /\ r.error = FALSE /\ r.consumed = k /\ r.out = out
        /\ r.stream = IF ~ended /\ c + taken = last THEN FreshStream
                      ELSE [at |-> <<s, c + 1 + k>>, last |-> last,
                            held |-> held, ended |-> ended \/ (e /\ taken = 0)]
    BY <1>2, <1>21, <2>1, <2>3, <2>4 DEF Handed
  <2>6. end + q = info.reach[IF e THEN c + 1 ELSE c + taken]
    <3>1. info.reach[c + taken] \in Nat
      BY <1>11, ReachGrows
    <3>2. q = IF e THEN h ELSE info.reach[c + taken] - end
      BY <1>7, <1>11, <1>12
    <3> QED
      BY <3>1, <3>2 DEF InFrame
  <2>7. taken = 0 => q = h
    BY <1>9, <1>12
  <2>8. info.payload \in Nat
    BY ReachGrows
  <2>9. Decompressed(info, s, c, m, l, end, r)
    <3>1. /\ r.out = Units(s, end, o)
          /\ r.stream = IF ~ended /\ c + taken = l THEN FreshStream
                        ELSE [at |-> <<s, c + 1 + k>>, last |-> l,
                              held |-> Units(s, end + o, q - o), ended |-> ended \/ (e /\ taken = 0)]
      BY <1>5, <1>16, <1>18, <2>5
    <3>2. q \in Nat /\ o \in Nat /\ taken \in 0 .. m /\ (taken = 0 => h > room /\ q = h)
      BY <1>11, <1>12, <1>13, <2>7
    <3>3. m \in Nat /\ m > 0 /\ room \in Nat /\ room > 0
      OBVIOUS
    <3>4. Handing(info, s, c, m, l, end, h, e, room, taken, q, o, ended, k, r)
      BY <1>11, <1>14, <1>23, <2>2, <2>3, <2>5, <2>6, <2>8, <3>1, <3>2, <3>3 DEF Handing
    <3> QED
      BY <3>4, FrameEndsOrStays
  <2> QED
    BY <1>1, <1>19, <2>9
<1> QED
  BY <1>22, <1>23

-----------------------------------------------------------------------------
(* The block table. *)
(* Where block b's stored bytes begin, and where they end. *)
Off(info, b) == info.offsets[b + 1]
Past(info, b) == Off(info, b) + BlockSourceSize(info, b)

(* What ParseNczTables has seen to, block by block. *)
LEMMA TableFacts ==
  ASSUME NEW info, IsFile(info), info.table
  PROVE  /\ Len(info.offsets) \in Nat /\ Len(info.offsets) > 0
         /\ Blocks(info) = 0 .. Len(info.offsets) - 1
         /\ Off(info, 0) = 0
         /\ \A b \in Blocks(info) :
              /\ Off(info, b) \in Nat /\ Past(info, b) \in Nat
              /\ BlockSourceSize(info, b) = Past(info, b) - Off(info, b)
              /\ BlockDecodedSize(info, b) \in Nat
              /\ b + 1 < Len(info.offsets) => Past(info, b) = Off(info, b + 1)
              /\ b + 1 = Len(info.offsets) => Past(info, b) = info.payload
              /\ ~BlockCompressed(info, b) => b \in info.raw
         /\ \A a, b \in Blocks(info) : a < b => Off(info, a) < Off(info, b)
<1>1. /\ info.blockSize \in Nat \ {0} /\ info.decompressed \in Nat
      /\ info.offsets \in Seq(Nat) /\ info.offsets # <<>> /\ info.offsets[1] = 0
      /\ \A b, c \in 1 .. Len(info.offsets) : b < c => info.offsets[b] < info.offsets[c]
      /\ info.payload \in Nat
      /\ \A b \in Blocks(info) : BlockSourceSize(info, b) >= BlockDecodedSize(info, b) => b \in info.raw
  BY DEF IsFile
<1>2. PICK top : top = Len(info.offsets)
  OBVIOUS
<1>3. top \in Nat /\ top > 0 /\ \A b \in 1 .. top : info.offsets[b] \in Nat
  <2>1. top \in Nat /\ \A b \in 1 .. top : info.offsets[b] \in Nat
    BY <1>1, <1>2, ElementOfSeq, LenProperties
  <2>2. top # 0
    BY <1>1, <1>2, EmptySeq
  <2> QED
    BY <2>1, <2>2
<1>4. Blocks(info) = 0 .. top - 1 /\ Off(info, 0) = 0
  BY <1>1, <1>2 DEF Blocks, Off
<1>5. \A a, b \in Blocks(info) : a < b => Off(info, a) < Off(info, b)
  <2> SUFFICES ASSUME NEW a \in 0 .. top - 1, NEW b \in 0 .. top - 1, a < b
               PROVE  info.offsets[a + 1] < info.offsets[b + 1]
    BY <1>4 DEF Off
  <2>1. a + 1 \in 1 .. top /\ b + 1 \in 1 .. top /\ a + 1 < b + 1
    BY <1>3
  <2> QED
    BY <1>1, <1>2, <2>1
<1>6. ASSUME NEW b \in Blocks(info)
      PROVE  /\ Off(info, b) \in Nat /\ Past(info, b) \in Nat
             /\ BlockSourceSize(info, b) = Past(info, b) - Off(info, b)
             /\ BlockDecodedSize(info, b) \in Nat
             /\ b + 1 < top => Past(info, b) = Off(info, b + 1)
             /\ b + 1 = top => Past(info, b) = info.payload
             /\ ~BlockCompressed(info, b) => b \in info.raw
  <2>1. b \in 0 .. top - 1 /\ b + 1 \in 1 .. top
    BY <1>3, <1>4, <1>6
  <2>2. Off(info, b) = info.offsets[b + 1] /\ info.offsets[b + 1] \in Nat
    BY <2>1, <1>3 DEF Off
  <2>3. BlockDecodedSize(info, b) \in Nat
    <3>1. info.decompressed % info.blockSize \in Nat
      BY <1>1
    <3> QED
      BY <1>1, <3>1 DEF BlockDecodedSize
  <2>4. CASE b + 1 < top
    <3>1. b + 2 \in 1 .. top /\ b + 1 + 1 = b + 2
      BY <2>1, <2>4, <1>3
    <3>2. info.offsets[b + 2] \in Nat
      BY <3>1, <1>3
    <3>3. BlockSourceSize(info, b) = info.offsets[b + 2] - info.offsets[b + 1]
      BY <2>4, <1>2 DEF BlockSourceSize
    <3>4. Off(info, b + 1) = info.offsets[b + 2]
      BY <3>1 DEF Off
    <3>5. Past(info, b) = Off(info, b + 1) /\ Past(info, b) \in Nat
      BY <2>2, <3>2, <3>3, <3>4 DEF Past
    <3>6. BlockSourceSize(info, b) = Past(info, b) - Off(info, b) /\ BlockSourceSize(info, b) \in Int
      BY <2>2, <3>2, <3>3, <3>4, <3>5
    <3>7. ~BlockCompressed(info, b) => b \in info.raw
      BY <1>1, <1>6, <2>3, <3>6 DEF BlockCompressed
    <3> QED
      BY <2>1, <2>2, <2>3, <2>4, <3>5, <3>6, <3>7, <1>3
  <2>5. CASE b + 1 = top
    <3>1. BlockSourceSize(info, b) = info.payload - info.offsets[b + 1]
      BY <2>5, <1>2, <1>3 DEF BlockSourceSize, PayloadSize
    <3>2. Past(info, b) = info.payload
      BY <1>1, <2>2, <3>1 DEF Past
    <3>3. BlockSourceSize(info, b) = Past(info, b) - Off(info, b) /\ BlockSourceSize(info, b) \in Int
      BY <1>1, <2>2, <3>1, <3>2
    <3>4. ~BlockCompressed(info, b) => b \in info.raw
      BY <1>1, <1>6, <2>3, <3>3 DEF BlockCompressed
    <3> QED
      BY <2>1, <2>2, <2>3, <2>5, <1>1, <1>3, <3>2, <3>3, <3>4
  <2> QED
    BY <2>1, <2>4, <2>5, <1>3
<1> QED
  BY <1>2, <1>3, <1>4, <1>5, <1>6

(* A plain unit is the NCA's next one. *)
LEMMA RawIsOneToOne ==
  ASSUME NEW info, IsFile(info), info.table, NEW b \in Blocks(info), b \in info.raw,
         NEW i \in 1 .. info.payload, Off(info, b) < i, i <= Past(info, b)
  PROVE  /\ IsRaw(info, i)
         /\ info.reach[i] = info.reach[i - 1] + 1 /\ i # info.bad
<1>1. IsRaw(info, i)
  BY DEF IsRaw, Off, Past
<1>2. \A j \in 1 .. info.payload :
        IsRaw(info, j) => info.reach[j] = info.reach[j - 1] + 1 /\ j # info.bad
  BY DEF IsFile
<1> QED
  BY <1>1, <1>2

(* Within a plain block, k units of the payload are k of the NCA (by induction). *)
LEMMA RawRun ==
  ASSUME NEW info, IsFile(info), info.table, NEW b \in Blocks(info), b \in info.raw,
         NEW c \in Nat, Off(info, b) <= c, c <= info.payload
  PROVE  \A k \in Nat : c + k <= info.payload /\ c + k <= Past(info, b)
                          => info.reach[c + k] = info.reach[c] + k
<1> DEFINE S == {k \in Nat : c + k <= info.payload /\ c + k <= Past(info, b)
                               => info.reach[c + k] = info.reach[c] + k}
<1>1. info.payload \in Nat /\ \A i \in 0 .. info.payload : info.reach[i] \in Nat
  BY ReachGrows
<1>2. Off(info, b) \in Nat /\ Past(info, b) \in Nat
  BY TableFacts
<1>3. 0 \in S
  <2>1. info.reach[c] \in Nat /\ c + 0 = c
    BY <1>1
  <2> QED
    BY <2>1
<1>4. ASSUME NEW k \in Nat, k \in S PROVE k + 1 \in S
  <2> SUFFICES ASSUME c + (k + 1) <= info.payload, c + (k + 1) <= Past(info, b)
               PROVE  info.reach[c + (k + 1)] = info.reach[c] + (k + 1)
    BY DEF S
  <2>1. info.reach[c + k] = info.reach[c] + k
    BY <1>1, <1>2, <1>4
  <2> DEFINE i == c + (k + 1)
  <2>2. i \in 1 .. info.payload /\ Off(info, b) < i /\ i <= Past(info, b) /\ i - 1 = c + k
    BY <1>1, <1>2
  <2> HIDE DEF i, S
  <2>3. info.reach[i] = info.reach[i - 1] + 1
    BY <2>2, RawIsOneToOne
  <2>4. info.reach[c] \in Nat
    BY <1>1
  <2>5. info.reach[i] = info.reach[c] + (k + 1)
    BY <2>1, <2>2, <2>3, <2>4
  <2> QED
    BY <2>5 DEF i
<1> HIDE DEF S
<1>5. Nat \subseteq S
  BY <1>3, <1>4, Induction
<1> QED
  BY <1>5 DEF S

(* A frame begins where a block does that is not a plain one. *)
LEMMA FrameOfBlock ==
  ASSUME NEW info, IsFile(info), info.table, NEW b \in Blocks(info)
  PROVE  FrameFrom(info, Off(info, b) + 1) = IF b \in info.raw THEN 0 ELSE Past(info, b)
<1>1. /\ \A a \in Blocks(info) : Off(info, a) \in Nat /\ Past(info, a) \in Nat
      /\ \A a, d \in Blocks(info) : a < d => Off(info, a) < Off(info, d)
      /\ Blocks(info) \subseteq Int
  BY TableFacts
<1>2. PICK i : i = Off(info, b) + 1
  OBVIOUS
<1>3. PICK starts : starts = {a \in Blocks(info) \ info.raw : info.offsets[a + 1] = i - 1}
  OBVIOUS
<1>4. i - 1 = Off(info, b)
  BY <1>1, <1>2
<1>5. FrameFrom(info, i) = IF starts = {} THEN 0 ELSE i - 1 + BlockSourceSize(info, Min(starts))
  BY <1>3 DEF FrameFrom
<1>6. \A a \in Blocks(info) : Off(info, a) = Off(info, b) => a = b
  BY <1>1
<1>7. starts = IF b \in info.raw THEN {} ELSE {b}
  BY <1>3, <1>4, <1>6 DEF Off
<1>8. CASE b \in info.raw
  BY <1>2, <1>5, <1>7, <1>8
<1>9. CASE b \notin info.raw
  <2>1. Min(starts) = b /\ starts # {}
    <3>1. starts = {b} /\ b \in Int
      BY <1>1, <1>7, <1>9
    <3> QED
      BY <3>1 DEF Min
  <2> QED
    BY <1>2, <1>4, <1>5, <1>9, <2>1 DEF Past
<1> QED
  BY <1>8, <1>9

(* A block that lies in the file keeps to the table. *)
BlockKept(info, b) ==
  /\ Off(info, b) < info.payload /\ Past(info, b) <= info.payload
  /\ info.reach[Past(info, b)] - info.reach[Off(info, b)] = BlockDecodedSize(info, b)
  /\ b \in info.raw <=> ~BlockCompressed(info, b)

(* A sound file: every block of its table lies in the payload and keeps to it. *)
LEMMA SoundBlocks ==
  ASSUME NEW info, IsFile(info), IsSound(info)
  PROVE  /\ info.bad = 0 /\ info.reach[info.payload] = info.size
         /\ info.table => /\ Off(info, Len(info.offsets) - 1) < info.payload
                          /\ \A b \in Blocks(info) : BlockKept(info, b)
<1>1. /\ info.bad = 0 /\ info.reach[info.payload] = info.size
      /\ info.table => info.offsets[Len(info.offsets)] < info.payload
      /\ info.table =>
           \A b \in WholeBlocks(info) :
             /\ info.reach[info.offsets[b + 1] + BlockSourceSize(info, b)] - info.reach[info.offsets[b + 1]]
                  = BlockDecodedSize(info, b)
             /\ b \in info.raw <=> BlockSourceSize(info, b) >= BlockDecodedSize(info, b)
  BY DEF IsSound, KeepsItsTables, TableCovered, PayloadSize
<1>2. ASSUME info.table
      PROVE  /\ Off(info, Len(info.offsets) - 1) < info.payload
             /\ \A b \in Blocks(info) : BlockKept(info, b)
  <2>1. PICK top : top = Len(info.offsets)
    OBVIOUS
  <2>2. /\ top \in Nat /\ top > 0 /\ Blocks(info) = 0 .. top - 1
        /\ \A b \in Blocks(info) :
              /\ Off(info, b) \in Nat /\ Past(info, b) \in Nat
              /\ BlockSourceSize(info, b) = Past(info, b) - Off(info, b)
              /\ BlockDecodedSize(info, b) \in Nat
              /\ b + 1 < top => Past(info, b) = Off(info, b + 1)
              /\ b + 1 = top => Past(info, b) = info.payload
        /\ \A a, b \in Blocks(info) : a < b => Off(info, a) < Off(info, b)
    BY <1>2, <2>1, TableFacts
  <2>3. Off(info, top - 1) < info.payload
    <3>1. top - 1 + 1 = top
      BY <2>2
    <3> QED
      BY <1>1, <1>2, <2>1, <3>1 DEF Off
  <2>4. ASSUME NEW b \in Blocks(info) PROVE BlockKept(info, b)
    <3>1. b \in 0 .. top - 1
      BY <2>2
    <3>2. Off(info, b) <= Off(info, top - 1) /\ Off(info, b) < info.payload
      <4>1. top - 1 \in Blocks(info) /\ info.payload \in Nat
        BY <2>2, ReachGrows
      <4>2. b = top - 1 \/ b < top - 1
        BY <3>1, <2>2
      <4> QED
        BY <2>2, <2>3, <4>1, <4>2
    <3>3. Past(info, b) <= info.payload
      <4>1. CASE b + 1 = top
        BY <4>1, <2>2, <2>4, ReachGrows
      <4>2. CASE b + 1 < top
        <5>1. b + 1 \in Blocks(info) /\ top - 1 \in Blocks(info) /\ (b + 1 = top - 1 \/ b + 1 < top - 1)
          BY <4>2, <3>1, <2>2
        <5>2. Off(info, b + 1) <= Off(info, top - 1)
          BY <5>1, <2>2
        <5> QED
          BY <4>2, <5>1, <5>2, <2>2, <2>3, <2>4, ReachGrows
      <4> QED
        BY <4>1, <4>2, <3>1, <2>2
    <3>4. /\ info.offsets[b + 1] = Off(info, b)
          /\ Off(info, b) + BlockSourceSize(info, b) = Past(info, b)
      BY DEF Off, Past
    <3>5. b \in WholeBlocks(info)
      BY <3>2, <3>3, <3>4 DEF WholeBlocks, PayloadSize
    <3>6. /\ info.reach[Past(info, b)] - info.reach[Off(info, b)] = BlockDecodedSize(info, b)
          /\ b \in info.raw <=> BlockSourceSize(info, b) >= BlockDecodedSize(info, b)
      BY <1>1, <1>2, <3>4, <3>5
    <3>7. BlockSourceSize(info, b) \in Int /\ BlockDecodedSize(info, b) \in Int
      BY <2>2, <2>4
    <3>8. b \in info.raw <=> ~BlockCompressed(info, b)
      BY <3>6, <3>7 DEF BlockCompressed
    <3> QED
      BY <3>2, <3>3, <3>6, <3>8 DEF BlockKept
  <2> QED
    BY <2>1, <2>3, <2>4
<1> QED
  BY <1>1, <1>2

(* zstd is in the frame of the current block, or of the whole payload.         *)
InBlock(info, s, c, end, block, z) ==
  \E l, h \in Nat, e \in BOOLEAN :
    /\ z = FrameStream(s, c, l, end, h, e)
    /\ InFrame(info, s, c, l, end, h, e)
    /\ ~info.table => l = info.payload
    /\ info.table => /\ BlockCompressed(info, block) /\ block \notin info.raw
                     /\ l = Past(info, block)

(* ... or between two frames.                                                 *)
BetweenFrames(info, c, end, block, z) ==
  /\ z = FreshStream /\ end = info.reach[c]
  /\ ~info.table => c = 0
  /\ info.table => (BlockCompressed(info, block) => c = Off(info, block))

(* The data of a block, or of the payload, has been fed up to the unit c.       *)
WentOn(info, s, c, end, block, z) ==
  \/ /\ InBlock(info, s, c, end, block, z)
     /\ info.table => c < Past(info, block)
  \/ /\ z = FreshStream /\ end = info.reach[c]
     /\ ~info.table => c = info.payload
     /\ info.table => /\ block \in info.raw <=> ~BlockCompressed(info, block)
                      /\ BlockCompressed(info, block) => c = Past(info, block)

(* What comes of a span of a block: the file is broken, or some of it was       *)
(* taken, and the block is at its end or zstd is still in its frame.           *)
DecodedTo(info, s, c, m, end, block, r) ==
  \/ r.error = TRUE /\ ~IsSound(info)
  \/ \E k \in 0 .. m, o \in Nat :
       /\ r.error = FALSE /\ r.consumed = k /\ r.out = Units(s, end, o)
       /\ k + o > 0 /\ info.bad \notin c + 1 .. c + k
       /\ WentOn(info, s, c + k, end + o, block, r.stream)

(* A plain block is copied. *)
LEMMA Copied ==
  ASSUME NEW info, IsFile(info), info.table, NEW s, NEW b \in Blocks(info), ~BlockCompressed(info, b),
         NEW c \in Nat, NEW m \in Nat \ {0}, c + m <= info.payload,
         Off(info, b) <= c, c + m <= Past(info, b),
         NEW d, d.info = info, d.stream = s
  PROVE  DecodedTo(info, s, c, m, info.reach[c], b, Copy(d, FreshStream, Units(s, c + 1, m)))
<1>1. PICK k \in 1 .. m : k = IF m < ChunkSize THEN m ELSE ChunkSize
  BY DecoderAssumption
<1>2. PICK span : span = Units(s, c + 1, m)
  OBVIOUS
<1>3. Len(span) = m /\ \A j \in 1 .. m : span[j] = <<s, c + 1 + j - 1>>
  BY <1>2, SpanHead
<1>4. PICK r : r = Copy(d, FreshStream, span)
  OBVIOUS
<1>5. b \in info.raw /\ Off(info, b) \in Nat /\ Past(info, b) \in Nat
  BY TableFacts
<1>6. info.payload \in Nat /\ info.bad \in Nat /\ \A i \in 0 .. info.payload : info.reach[i] \in Nat
  BY ReachGrows
<1>7. \A j \in 1 .. k : /\ IsRaw(info, c + j) /\ c + j # info.bad
                        /\ info.reach[c + j - 1] = info.reach[c] + j - 1
  <2> TAKE j \in 1 .. k
  <2>1. j - 1 \in Nat /\ c + (j - 1) <= info.payload /\ c + (j - 1) <= Past(info, b)
    BY <1>1, <1>5, <1>6
  <2>2. info.reach[c + (j - 1)] = info.reach[c] + (j - 1)
    BY <1>5, <1>6, <2>1, RawRun
  <2>3. c + (j - 1) = c + j - 1 /\ info.reach[c] \in Nat
    BY <1>6, <2>1
  <2>4. c + j \in 1 .. info.payload /\ Off(info, b) < c + j /\ c + j <= Past(info, b)
    BY <1>1, <1>5, <1>6
  <2>5. IsRaw(info, c + j) /\ c + j # info.bad
    BY <1>5, <2>4, RawIsOneToOne
  <2>6. info.reach[c + j - 1] = info.reach[c] + j - 1
    BY <2>2, <2>3
  <2> QED
    BY <2>5, <2>6
<1>8. \A j \in 1 .. k : span[j][2] = c + j
  <2> TAKE j \in 1 .. k
  <2>1. span[j] = <<s, c + 1 + j - 1>>
    BY <1>1, <1>3
  <2> QED
    BY <2>1
<1>9. r.out = Units(s, info.reach[c], k)
  <2>1. r.out = [j \in 1 .. k |-> LET i == span[j][2]
                                IN IF IsRaw(info, i) THEN <<s, info.reach[i - 1]>> ELSE NoUnit]
    BY <1>1, <1>3, <1>4 DEF Copy
  <2>2. \A j \in 1 .. k : (LET i == span[j][2]
                            IN IF IsRaw(info, i) THEN <<s, info.reach[i - 1]>> ELSE NoUnit)
                          = <<s, info.reach[c] + j - 1>>
    BY <1>7, <1>8
  <2>3. Units(s, info.reach[c], k) = [j \in 1 .. k |-> <<s, info.reach[c] + j - 1>>]
    BY DEF Units
  <2> QED
    BY <2>1, <2>2, <2>3
<1>10. r.error = FALSE /\ r.consumed = k /\ r.stream = FreshStream
  BY <1>1, <1>3, <1>4 DEF Copy
<1>11. info.reach[c] + k = info.reach[c + k]
  <2>1. k \in Nat /\ c + k <= info.payload /\ c + k <= Past(info, b)
    BY <1>1, <1>5, <1>6
  <2> QED
    BY <1>5, <1>6, <2>1, RawRun
<1>12. info.bad \notin c + 1 .. c + k
  <2> SUFFICES ASSUME info.bad \in c + 1 .. c + k PROVE FALSE
    OBVIOUS
  <2>1. info.bad - c \in 1 .. k /\ c + (info.bad - c) = info.bad
    BY <1>1, <1>6
  <2> QED
    BY <1>7, <2>1
<1>13. k \in 0 .. m /\ k \in Nat /\ k + k > 0
  BY <1>1
<1>14. DecodedTo(info, s, c, m, info.reach[c], b, r)
  BY <1>5, <1>9, <1>10, <1>11, <1>12, <1>13 DEF DecodedTo, WentOn
<1> QED
  BY <1>2, <1>4, <1>14

-----------------------------------------------------------------------------
(* A span of a block, or of a payload without blocks. *)
(* A frame of the payload, or of a block, goes on.                             *)
LEMMA FrameDecodes ==
  ASSUME NEW info, IsFile(info), NEW s \in Nat, NEW c \in Nat, NEW m \in Nat \ {0}, c + m <= info.payload,
         NEW end \in Nat, NEW block, NEW l \in Nat, NEW r,
         ~info.table => l = info.payload,
         info.table => /\ BlockCompressed(info, block) /\ block \notin info.raw
                       /\ l = Past(info, block),
         Decompressed(info, s, c, m, l, end, r)
  PROVE  DecodedTo(info, s, c, m, end, block, r)
<1>1. CASE r = ZstdError /\ info.bad # 0
  <2>1. r.error = TRUE
    BY <1>1 DEF ZstdError
  <2>2. ~IsSound(info)
    BY <1>1, SoundBlocks
  <2> QED
    BY <2>1, <2>2 DEF DecodedTo
<1>2. ASSUME NEW k \in 0 .. m, NEW o \in Nat,
             /\ r.error = FALSE /\ r.consumed = k /\ r.out = Units(s, end, o)
             /\ k + o > 0 /\ c + k <= l /\ info.bad \notin c + 1 .. c + k,
             \/ /\ c + k = l /\ r.stream = FreshStream
                /\ end + o = info.reach[c + k]
             \/ \E h \in Nat, e \in BOOLEAN :
                  /\ InFrame(info, s, c + k, l, end + o, h, e)
                  /\ r.stream = FrameStream(s, c + k, l, end + o, h, e)
      PROVE  DecodedTo(info, s, c, m, end, block, r)
  <2>1. CASE c + k = l /\ r.stream = FreshStream /\ end + o = info.reach[c + k]
    <3>1. /\ ~info.table => c + k = info.payload
          /\ info.table => /\ block \in info.raw <=> ~BlockCompressed(info, block)
                           /\ BlockCompressed(info, block) => c + k = Past(info, block)
      BY <2>1
    <3> QED
      BY <1>2, <2>1, <3>1 DEF DecodedTo, WentOn
  <2>2. ASSUME NEW h \in Nat, NEW e \in BOOLEAN,
               InFrame(info, s, c + k, l, end + o, h, e),
               r.stream = FrameStream(s, c + k, l, end + o, h, e)
        PROVE  DecodedTo(info, s, c, m, end, block, r)
    <3>1. InBlock(info, s, c + k, end + o, block, r.stream)
      BY <2>2 DEF InBlock
    <3>2. c + k < l
      BY <2>2 DEF InFrame
    <3>3. info.table => c + k < Past(info, block)
      BY <3>2
    <3> QED
      BY <1>2, <3>1, <3>3 DEF DecodedTo, WentOn
  <2> QED
    BY <1>2, <2>1, <2>2
<1> QED
  BY <1>1, <1>2 DEF Decompressed

(* One step's call: it copies a plain block, or zstd goes on in the frame or    *)
(* begins one.                                                                *)
LEMMA SpanDecodes ==
  ASSUME NEW info, IsFile(info), NEW s \in Nat, NEW c \in Nat, NEW m \in Nat \ {0}, c + m <= info.payload,
         NEW end \in Nat, NEW block, NEW z,
         info.table => /\ block \in Blocks(info) /\ Off(info, block) <= c
                       /\ c + m <= Past(info, block),
         \/ InBlock(info, s, c, end, block, z)
         \/ BetweenFrames(info, c, end, block, z),
         NEW d, d.info = info, d.stream = s, d.block = block
  PROVE  DecodedTo(info, s, c, m, end, block, DecodeSpan(d, z, Units(s, c + 1, m)))
<1>1. PICK span : span = Units(s, c + 1, m)
  OBVIOUS
<1>2. ChunkSize \in Nat \ {0} /\ info.payload \in Nat /\ \A i \in 0 .. info.payload : info.reach[i] \in Nat
  BY DecoderAssumption, ReachGrows
<1>3. CASE InBlock(info, s, c, end, block, z)
  <2>1. PICK l \in Nat, h \in Nat, e \in BOOLEAN :
          /\ z = FrameStream(s, c, l, end, h, e)
          /\ InFrame(info, s, c, l, end, h, e)
          /\ ~info.table => l = info.payload
          /\ info.table => /\ BlockCompressed(info, block) /\ block \notin info.raw
                           /\ l = Past(info, block)
    BY <1>3 DEF InBlock
  <2>2. z.held = Units(s, end, h) /\ z.ended = e /\ z.at = <<s, c + 1>> /\ z.last = l
    BY <2>1 DEF FrameStream
  <2>3. Decompressed(info, s, c, m, l, end, Decompress(info, z, span, ChunkSize))
    <3>1. InFrame(info, s, c, l, end, h, e)
      BY <2>1
    <3>2. Decompressed(info, s, c, m, l, end, Decompress(info, z, Units(s, c + 1, m), ChunkSize))
      BY <1>2, <2>2, <3>1, DecompressGoesOn
    <3> QED
      BY <1>1, <3>2
  <2>4. DecodeSpan(d, z, span) = Decompress(info, z, span, ChunkSize)
    BY <2>1 DEF DecodeSpan
  <2>5. DecodedTo(info, s, c, m, end, block, Decompress(info, z, span, ChunkSize))
    BY <2>1, <2>3, FrameDecodes
  <2> QED
    BY <1>1, <2>4, <2>5
<1>4. CASE BetweenFrames(info, c, end, block, z)
  <2>1. /\ z = FreshStream /\ end = info.reach[c]
        /\ ~info.table => c = 0
        /\ info.table => (BlockCompressed(info, block) => c = Off(info, block))
    BY <1>4 DEF BetweenFrames
  <2>2. CASE info.table /\ ~BlockCompressed(info, block)
    <3>1. DecodeSpan(d, z, span) = Copy(d, FreshStream, span)
      BY <2>1, <2>2 DEF DecodeSpan
    <3>2. DecodedTo(info, s, c, m, info.reach[c], block, Copy(d, FreshStream, span))
      BY <1>1, <2>2, Copied
    <3> QED
      BY <1>1, <2>1, <3>1, <3>2
  <2>3. CASE info.table /\ BlockCompressed(info, block) /\ block \in info.raw
    <3>1. FrameFrom(info, c + 1) = 0
      BY <2>1, <2>3, FrameOfBlock
    <3>2. span[1][2] = c + 1 /\ z.at = NoUnit
      <4>1. span[1] = <<s, c + 1>>
        BY <1>1, SpanHead
      <4> QED
        BY <4>1, <2>1 DEF FreshStream
    <3>3. Decompress(info, z, span, ChunkSize) = ZstdError
      BY <3>1, <3>2 DEF Decompress
    <3>4. DecodeSpan(d, z, span) = ZstdError
      BY <2>3, <3>3 DEF DecodeSpan
    <3>5. ~IsSound(info)
      <4>1. ASSUME IsSound(info) PROVE BlockKept(info, block)
        BY <4>1, <2>3, SoundBlocks
      <4> QED
        BY <4>1, <2>3 DEF BlockKept
    <3> QED
      BY <1>1, <3>4, <3>5 DEF DecodedTo, ZstdError
  <2>4. CASE ~info.table \/ (BlockCompressed(info, block) /\ block \notin info.raw)
    <3>1. PICK l \in Nat : /\ FrameFrom(info, c + 1) = l /\ c + m <= l
                           /\ ~info.table => l = info.payload
                           /\ info.table => l = Past(info, block)
      <4>1. CASE ~info.table
        <5>1. FrameFrom(info, c + 1) = info.payload
          BY <4>1, <2>1 DEF FrameFrom, PayloadSize
        <5> QED
          BY <1>2, <4>1, <5>1
      <4>2. CASE info.table
        <5>1. FrameFrom(info, c + 1) = Past(info, block)
          BY <4>2, <2>1, <2>4, FrameOfBlock
        <5>2. Past(info, block) \in Nat
          BY <4>2, TableFacts
        <5> QED
          BY <4>2, <5>1, <5>2
      <4> QED
        BY <4>1, <4>2
    <3>2. z.held = Units(s, end, 0) /\ z.ended = FALSE /\ z.at = NoUnit
      <4>1. Units(s, end, 0) = <<>>
        BY NoUnits, end \in Int
      <4> QED
        BY <4>1, <2>1 DEF FreshStream
    <3>3. InFrame(info, s, c, l, end, 0, FALSE)
      BY <1>2, <2>1, <3>1 DEF InFrame
    <3>4. 0 \in Nat /\ FALSE \in BOOLEAN
      OBVIOUS
    <3>5. Decompressed(info, s, c, m, l, end, Decompress(info, z, Units(s, c + 1, m), ChunkSize))
      BY <1>2, <3>1, <3>2, <3>3, <3>4, DecompressGoesOn
    <3>6. DecodeSpan(d, z, Units(s, c + 1, m)) = Decompress(info, z, Units(s, c + 1, m), ChunkSize)
      BY <2>4 DEF DecodeSpan
    <3>7. info.table => BlockCompressed(info, block) /\ block \notin info.raw
      BY <2>4
    <3>8. DecodedTo(info, s, c, m, end, block, Decompress(info, z, Units(s, c + 1, m), ChunkSize))
      BY <3>1, <3>5, <3>7, FrameDecodes
    <3> QED
      BY <3>6, <3>8
  <2> QED
    BY <2>2, <2>3, <2>4
<1> QED
  BY <1>3, <1>4

-----------------------------------------------------------------------------
(* How far a decoder is in its file. *)
(* The blocks of a table that the payload covers. *)
LEMMA CoveredBlocks ==
  ASSUME NEW info, IsFile(info), info.table, TableCovered(info), NEW b \in Blocks(info)
  PROVE  Past(info, b) <= info.payload /\ Off(info, b) < info.payload
<1>1. PICK top : top = Len(info.offsets)
  OBVIOUS
<1>2. /\ top \in Nat /\ top > 0 /\ Blocks(info) = 0 .. top - 1 /\ info.payload \in Nat
      /\ \A a \in Blocks(info) :
            /\ Off(info, a) \in Nat /\ Past(info, a) \in Nat
            /\ a + 1 < top => Past(info, a) = Off(info, a + 1)
            /\ a + 1 = top => Past(info, a) = info.payload
      /\ \A a, d \in Blocks(info) : a < d => Off(info, a) < Off(info, d)
  BY <1>1, TableFacts, ReachGrows
<1>3. Off(info, top - 1) < info.payload
  <2>1. top - 1 + 1 = top
    BY <1>2
  <2> QED
    BY <1>1, <2>1 DEF TableCovered, PayloadSize, Off
<1>4. top - 1 \in Blocks(info) /\ b \in 0 .. top - 1
  BY <1>2
<1>5. b = top - 1 \/ b + 1 = top - 1 \/ b + 1 < top - 1
  BY <1>2, <1>4
<1>6. CASE b = top - 1
  BY <1>2, <1>3, <1>4, <1>6
<1>7. CASE b + 1 <= top - 1
  <2>1. b + 1 \in Blocks(info) /\ b < b + 1 /\ b + 1 < top
    BY <1>2, <1>4, <1>7
  <2>2. Off(info, b + 1) <= Off(info, top - 1)
    BY <1>2, <1>4, <1>5, <1>7, <2>1
  <2> QED
    BY <1>2, <1>3, <1>4, <2>1, <2>2
<1>8. b = top - 1 \/ b + 1 <= top - 1
  BY <1>2, <1>4
<1> QED
  BY <1>6, <1>7, <1>8

(* No unit is decoded that the payload does not hold, and at its end all are.   *)
LEMMA EndIsInReach ==
  ASSUME NEW info, IsFile(info), NEW s, NEW c \in Nat, c <= info.payload, NEW end \in Nat, NEW block, NEW z,
         info.table => block \in Blocks(info),
         WentOn(info, s, c, end, block, z)
  PROVE  /\ end <= info.reach[info.payload]
         /\ c = info.payload /\ TableCovered(info) => end = info.reach[info.payload]
<1>1. /\ info.payload \in Nat /\ \A i \in 0 .. info.payload : info.reach[i] \in Nat
      /\ \A i, j \in 0 .. info.payload : i <= j => info.reach[i] <= info.reach[j]
  BY ReachGrows
<1>2. info.reach[c] <= info.reach[info.payload] /\ info.reach[c] \in Nat /\ info.reach[info.payload] \in Nat
  BY <1>1
<1>3. CASE end = info.reach[c]
  BY <1>2, <1>3
<1>4. CASE InBlock(info, s, c, end, block, z)
  <2>1. PICK l \in Nat, h \in Nat, e \in BOOLEAN :
          /\ InFrame(info, s, c, l, end, h, e)
          /\ ~info.table => l = info.payload
          /\ info.table => l = Past(info, block)
    BY <1>4 DEF InBlock
  <2>2. c < l /\ (e => c < info.payload) /\ end + h = info.reach[IF e THEN c + 1 ELSE c]
    BY <2>1 DEF InFrame
  <2>3. end <= info.reach[info.payload]
    <3>1. CASE e
      <4>1. c + 1 \in 0 .. info.payload /\ info.payload \in 0 .. info.payload /\ c + 1 <= info.payload
        BY <1>1, <2>2, <3>1
      <4>2. info.reach[c + 1] <= info.reach[info.payload] /\ info.reach[c + 1] \in Nat
        BY <1>1, <4>1
      <4> QED
        BY <1>2, <2>2, <3>1, <4>2
    <3>2. CASE ~e
      BY <1>2, <2>2, <3>2
    <3> QED
      BY <3>1, <3>2
  <2>4. ~(c = info.payload /\ TableCovered(info))
    <3>1. CASE ~info.table
      BY <2>1, <2>2, <3>1
    <3>2. CASE info.table
      <4>1. ASSUME TableCovered(info) PROVE l <= info.payload
        BY <2>1, <3>2, <4>1, CoveredBlocks
      <4> QED
        BY <1>1, <2>2, <4>1
    <3> QED
      BY <3>1, <3>2
  <2> QED
    BY <2>3, <2>4
<1> QED
  BY <1>3, <1>4 DEF WentOn

(* How far a decoder is in the block table.                                    *)
TableKept(info, c, end, block, consumed, produced) ==
  /\ block \in 0 .. Len(info.offsets)
  /\ block < Len(info.offsets) =>
       /\ Off(info, block) <= c /\ consumed = c - Off(info, block)
       /\ produced = end - info.reach[Off(info, block)]
       /\ c < Past(info, block) \/ Off(info, block) = info.payload
  /\ block = Len(info.offsets) => c = info.payload
  /\ \A b \in 0 .. block - 1 : BlockKept(info, b)

(* c units of the payload are decoded, to the NCA's position `end`.             *)
Progress(info, c, end, block, consumed, produced) ==
  /\ info.bad \notin 1 .. c
  /\ end <= info.reach[info.payload]
  /\ c = info.payload /\ TableCovered(info) => end = info.reach[info.payload]
  /\ info.table => TableKept(info, c, end, block, consumed, produced)

(* Where zstd is while there is something left to decode.                      *)
StreamAt(info, s, c, end, block, z) ==
  c < info.payload => \/ InBlock(info, s, c, end, block, z)
                      \/ BetweenFrames(info, c, end, block, z)

(* The block a decoder is in when something is left.                           *)
LEMMA CurrentBlock ==
  ASSUME NEW info, IsFile(info), info.table, NEW c \in Nat, c < info.payload,
         NEW end, NEW block, NEW consumed, NEW produced,
         TableKept(info, c, end, block, consumed, produced)
  PROVE  /\ block \in Blocks(info) /\ ~(block >= Len(info.offsets))
         /\ Off(info, block) <= c /\ c < Past(info, block)
         /\ consumed = c - Off(info, block) /\ produced = end - info.reach[Off(info, block)]
         /\ BlockSourceSize(info, block) - consumed = Past(info, block) - c
<1>1. PICK top : top = Len(info.offsets)
  OBVIOUS
<1>2. top \in Nat /\ Blocks(info) = 0 .. top - 1 /\ info.payload \in Nat
  BY <1>1, TableFacts, ReachGrows
<1>3. block \in 0 .. top /\ block # top
  BY <1>1, <1>2 DEF TableKept
<1>4. block \in Blocks(info) /\ ~(block >= top) /\ block < top
  BY <1>2, <1>3
<1>5. /\ Off(info, block) \in Nat /\ Past(info, block) \in Nat
      /\ BlockSourceSize(info, block) = Past(info, block) - Off(info, block)
  BY <1>4, TableFacts
<1>6. /\ Off(info, block) <= c /\ consumed = c - Off(info, block)
      /\ produced = end - info.reach[Off(info, block)]
      /\ c < Past(info, block) \/ Off(info, block) = info.payload
  BY <1>1, <1>4 DEF TableKept
<1>7. c < Past(info, block)
  BY <1>2, <1>5, <1>6
<1>8. BlockSourceSize(info, block) - consumed = Past(info, block) - c
  BY <1>5, <1>6
<1> QED
  BY <1>1, <1>4, <1>6, <1>7, <1>8

(* The units of two spans in a row. *)
LEMMA BadGoesOn ==
  ASSUME NEW bad \in Nat, NEW c \in Nat, NEW k \in Nat, bad \notin 1 .. c, bad \notin c + 1 .. c + k
  PROVE  bad \notin 1 .. c + k
OBVIOUS

(* Without a table: to the payload's end, or zstd stays in the one frame.       *)
LEMMA PlainGoesOn ==
  ASSUME NEW info, IsFile(info), ~info.table, NEW s, NEW c \in Nat, c < info.payload,
         NEW end \in Nat, NEW block, NEW consumed, NEW produced, NEW k \in Nat, NEW o \in Nat, NEW z,
         c + k <= info.payload,
         Progress(info, c, end, block, consumed, produced),
         info.bad \notin c + 1 .. c + k,
         WentOn(info, s, c + k, end + o, block, z)
  PROVE  /\ Progress(info, c + k, end + o, block, consumed, produced)
         /\ StreamAt(info, s, c + k, end + o, block, z)
<1>1. info.bad \in Nat /\ info.payload \in Nat
  BY ReachGrows
<1>2. info.bad \notin 1 .. c + k
  BY <1>1, BadGoesOn DEF Progress
<1>3. PICK c2 \in Nat : c2 = c + k
  OBVIOUS
<1>4. PICK e2 \in Nat : e2 = end + o
  OBVIOUS
<1>5. WentOn(info, s, c2, e2, block, z) /\ c2 <= info.payload
  BY <1>3, <1>4
<1>6. /\ e2 <= info.reach[info.payload]
      /\ c2 = info.payload /\ TableCovered(info) => e2 = info.reach[info.payload]
  BY <1>5, EndIsInReach
<1>7. Progress(info, c + k, end + o, block, consumed, produced)
  BY <1>2, <1>3, <1>4, <1>6 DEF Progress
<1>8. StreamAt(info, s, c + k, end + o, block, z)
  BY DEF StreamAt, WentOn
<1> QED
  BY <1>7, <1>8

(* In a block that does not end with it.                                       *)
LEMMA BlockGoesOn ==
  ASSUME NEW info, IsFile(info), info.table, NEW s, NEW c \in Nat, c < info.payload,
         NEW end \in Nat, NEW block, NEW consumed, NEW produced, NEW k \in Nat, NEW o \in Nat, NEW z,
         c + k <= info.payload, c + k <= Past(info, block),
         Progress(info, c, end, block, consumed, produced),
         info.bad \notin c + 1 .. c + k,
         WentOn(info, s, c + k, end + o, block, z),
         consumed + k # BlockSourceSize(info, block)
  PROVE  /\ Progress(info, c + k, end + o, block, consumed + k, produced + o)
         /\ StreamAt(info, s, c + k, end + o, block, z)
<1>1. info.bad \in Nat /\ info.payload \in Nat /\ \A i \in 0 .. info.payload : info.reach[i] \in Nat
  BY ReachGrows
<1>2. info.bad \notin 1 .. c + k
  BY <1>1, BadGoesOn DEF Progress
<1>3. PICK c2 \in Nat : c2 = c + k
  OBVIOUS
<1>4. PICK e2 \in Nat : e2 = end + o
  OBVIOUS
<1>5. TableKept(info, c, end, block, consumed, produced)
  BY DEF Progress
<1>6. /\ block \in Blocks(info) /\ Off(info, block) <= c /\ c < Past(info, block)
      /\ consumed = c - Off(info, block) /\ produced = end - info.reach[Off(info, block)]
      /\ Off(info, block) \in Nat /\ Past(info, block) \in Nat
      /\ BlockSourceSize(info, block) = Past(info, block) - Off(info, block)
      /\ info.reach[Off(info, block)] \in Nat
  <2>1. /\ block \in Blocks(info) /\ Off(info, block) <= c /\ c < Past(info, block)
        /\ consumed = c - Off(info, block) /\ produced = end - info.reach[Off(info, block)]
    BY <1>5, CurrentBlock
  <2>2. /\ Off(info, block) \in Nat /\ Past(info, block) \in Nat
        /\ BlockSourceSize(info, block) = Past(info, block) - Off(info, block)
    BY <2>1, TableFacts
  <2>3. Off(info, block) \in 0 .. info.payload
    BY <1>1, <2>1, <2>2
  <2> QED
    BY <1>1, <2>1, <2>2, <2>3
<1>7. c + k < Past(info, block)
  BY <1>6
<1>8. /\ consumed + k = c2 - Off(info, block)
      /\ produced + o = e2 - info.reach[Off(info, block)]
      /\ Off(info, block) <= c2 /\ c2 < Past(info, block)
  BY <1>3, <1>4, <1>6, <1>7
<1>9. TableKept(info, c2, e2, block, consumed + k, produced + o)
  <2>0. Len(info.offsets) \in Nat /\ Blocks(info) = 0 .. Len(info.offsets) - 1
    BY TableFacts
  <2>1. Len(info.offsets) \in Nat /\ block < Len(info.offsets)
    BY <1>6, <2>0
  <2>2. block \in 0 .. Len(info.offsets) /\ \A b \in 0 .. block - 1 : BlockKept(info, b)
    BY <1>5 DEF TableKept
  <2>3. block # Len(info.offsets)
    BY <2>1, <2>2
  <2> QED
    BY <1>8, <2>1, <2>2, <2>3 DEF TableKept
<1>10. /\ e2 <= info.reach[info.payload]
       /\ c2 = info.payload /\ TableCovered(info) => e2 = info.reach[info.payload]
  BY <1>3, <1>4, <1>6, EndIsInReach
<1>11. Progress(info, c + k, end + o, block, consumed + k, produced + o)
  BY <1>2, <1>3, <1>4, <1>9, <1>10 DEF Progress
<1>12. StreamAt(info, s, c + k, end + o, block, z)
  <2>1. ASSUME z = FreshStream, end + o = info.reach[c + k],
               BlockCompressed(info, block) => c + k = Past(info, block)
        PROVE  BetweenFrames(info, c + k, end + o, block, z)
    <3>1. ~BlockCompressed(info, block)
      BY <1>6, <1>7, <2>1
    <3> QED
      BY <2>1, <3>1 DEF BetweenFrames
  <2> QED
    BY <2>1 DEF StreamAt, WentOn
<1> QED
  BY <1>11, <1>12

(* At a block's end it has made what the table declares, or the file is not      *)
(* sound; the next one begins there.                                          *)
LEMMA BlockIsIn ==
  ASSUME NEW info, IsFile(info), info.table, NEW s, NEW c \in Nat, c < info.payload,
         NEW end \in Nat, NEW block, NEW consumed, NEW produced, NEW k \in Nat, NEW o \in Nat, NEW z,
         c + k <= info.payload, c + k <= Past(info, block),
         Progress(info, c, end, block, consumed, produced),
         info.bad \notin c + 1 .. c + k,
         WentOn(info, s, c + k, end + o, block, z),
         consumed + k = BlockSourceSize(info, block)
  PROVE  IF produced + o # BlockDecodedSize(info, block) THEN ~IsSound(info)
         ELSE /\ Progress(info, c + k, end + o, block + 1, 0, 0)
              /\ StreamAt(info, s, c + k, end + o, block + 1, z)
<1>1. info.bad \in Nat /\ info.payload \in Nat /\ \A i \in 0 .. info.payload : info.reach[i] \in Nat
  BY ReachGrows
<1>2. info.bad \notin 1 .. c + k
  BY <1>1, BadGoesOn DEF Progress
<1>3. PICK c2 \in Nat : c2 = c + k
  OBVIOUS
<1>4. PICK e2 \in Nat : e2 = end + o
  OBVIOUS
<1>5. TableKept(info, c, end, block, consumed, produced)
  BY DEF Progress
<1>6. PICK top : top = Len(info.offsets)
  OBVIOUS
<1>7. /\ top \in Nat /\ Blocks(info) = 0 .. top - 1
      /\ \A b \in Blocks(info) :
           /\ Off(info, b) \in Nat /\ Past(info, b) \in Nat
           /\ BlockSourceSize(info, b) = Past(info, b) - Off(info, b)
           /\ b + 1 < top => Past(info, b) = Off(info, b + 1)
           /\ b + 1 = top => Past(info, b) = info.payload
      /\ \A a, b \in Blocks(info) : a < b => Off(info, a) < Off(info, b)
  BY <1>6, TableFacts
<1>8. /\ block \in Blocks(info) /\ Off(info, block) <= c /\ c < Past(info, block)
      /\ consumed = c - Off(info, block) /\ produced = end - info.reach[Off(info, block)]
      /\ Off(info, block) \in Nat /\ Past(info, block) \in Nat /\ block \in 0 .. top - 1
      /\ info.reach[Off(info, block)] \in Nat
  <2>1. /\ block \in Blocks(info) /\ Off(info, block) <= c /\ c < Past(info, block)
        /\ consumed = c - Off(info, block) /\ produced = end - info.reach[Off(info, block)]
    BY <1>5, CurrentBlock
  <2>2. Off(info, block) \in 0 .. info.payload
    BY <1>1, <1>7, <2>1
  <2> QED
    BY <1>1, <1>7, <2>1, <2>2
<1>81. /\ block \in Int /\ block + 1 <= top
       /\ block + 1 < top => Past(info, block) = Off(info, block + 1) /\ block + 1 \in Blocks(info)
       /\ block + 1 = top => Past(info, block) = info.payload
  <2>1. block \in Int /\ block + 1 <= top
    BY <1>7, <1>8
  <2>2. block + 1 < top => block + 1 \in 0 .. top - 1
    BY <1>7, <1>8
  <2> QED
    BY <1>7, <1>8, <2>1, <2>2
<1>9. c2 = Past(info, block)
  <2>1. BlockSourceSize(info, block) = Past(info, block) - Off(info, block)
    BY <1>7, <1>8
  <2>2. PICK from \in Nat : from = Off(info, block)
    BY <1>8
  <2>3. PICK past \in Nat : past = Past(info, block)
    BY <1>8
  <2>4. (c - from) + k = past - from
    BY <1>8, <2>1, <2>2, <2>3
  <2>5. c + k = past
    BY <2>4
  <2> QED
    BY <1>3, <2>3, <2>5
<1>10. /\ z = FreshStream /\ e2 = info.reach[c2]
       /\ block \in info.raw <=> ~BlockCompressed(info, block)
  BY <1>3, <1>4, <1>8, <1>9 DEF WentOn
<1>11. produced + o = info.reach[Past(info, block)] - info.reach[Off(info, block)]
  BY <1>1, <1>4, <1>8, <1>9, <1>10
<1>12. CASE produced + o # BlockDecodedSize(info, block)
  <2>1. ASSUME IsSound(info) PROVE BlockKept(info, block)
    BY <2>1, <1>8, SoundBlocks
  <2> QED
    BY <1>11, <1>12, <2>1 DEF BlockKept
<1>13. CASE produced + o = BlockDecodedSize(info, block)
  <2>1. BlockKept(info, block)
    BY <1>1, <1>3, <1>8, <1>9, <1>10, <1>11, <1>13 DEF BlockKept
  <2>2. TableKept(info, c2, e2, block + 1, 0, 0)
    <3>1. block + 1 \in 0 .. top
      BY <1>7, <1>8
    <3>2. ASSUME block + 1 < top
          PROVE  /\ Off(info, block + 1) = c2
                 /\ c2 < Past(info, block + 1) \/ Off(info, block + 1) = info.payload
      <4>1. block + 1 \in Blocks(info) /\ Off(info, block + 1) = c2
        BY <1>81, <1>9, <3>2
      <4>2. CASE block + 1 + 1 < top
        <5>1. block + 1 + 1 \in Blocks(info) /\ block + 1 < block + 1 + 1
          BY <4>1, <4>2, <1>7
        <5> QED
          BY <4>1, <4>2, <5>1, <1>7
      <4>3. CASE block + 1 + 1 = top
        BY <4>1, <4>3, <1>1, <1>3, <1>7
      <4> QED
        BY <3>2, <4>1, <4>2, <4>3, <1>7, <1>8
    <3>3. e2 - info.reach[c2] = 0 /\ c2 - c2 = 0
      <4>1. info.reach[c2] \in Nat
        BY <1>1, <1>3
      <4> QED
        BY <4>1, <1>10
    <3>4. block + 1 = top => c2 = info.payload
      BY <1>81, <1>9
    <3>41. block + 1 < top =>
             /\ Off(info, block + 1) <= c2 /\ 0 = c2 - Off(info, block + 1)
             /\ 0 = e2 - info.reach[Off(info, block + 1)]
             /\ c2 < Past(info, block + 1) \/ Off(info, block + 1) = info.payload
      BY <3>2, <3>3, c2 <= c2
    <3>5. \A b \in 0 .. block : BlockKept(info, b)
      <4>1. \A b \in 0 .. block - 1 : BlockKept(info, b)
        BY <1>5 DEF TableKept
      <4> QED
        BY <4>1, <2>1, <1>81
    <3>6. PICK next : next = block + 1
      OBVIOUS
    <3>7. /\ next \in 0 .. top
          /\ next < top =>
               /\ Off(info, next) <= c2 /\ 0 = c2 - Off(info, next)
               /\ 0 = e2 - info.reach[Off(info, next)]
               /\ c2 < Past(info, next) \/ Off(info, next) = info.payload
          /\ next = top => c2 = info.payload
          /\ \A b \in 0 .. next - 1 : BlockKept(info, b)
      <4>1. next \in 0 .. top
        BY <3>1, <3>6
      <4>2. next = top => c2 = info.payload
        BY <3>4, <3>6
      <4>3. \A b \in 0 .. next - 1 : BlockKept(info, b)
        <5>1. next - 1 = block
          BY <3>6, <1>81
        <5> QED
          BY <3>5, <5>1
      <4>4. next < top =>
              /\ Off(info, next) <= c2 /\ 0 = c2 - Off(info, next)
              /\ 0 = e2 - info.reach[Off(info, next)]
              /\ c2 < Past(info, next) \/ Off(info, next) = info.payload
        BY <3>41, <3>6
      <4> QED
        BY <4>1, <4>2, <4>3, <4>4
    <3>8. TableKept(info, c2, e2, next, 0, 0)
      BY <1>6, <3>7 DEF TableKept
    <3> QED
      BY <3>6, <3>8
  <2>3. /\ e2 <= info.reach[info.payload]
        /\ c2 = info.payload /\ TableCovered(info) => e2 = info.reach[info.payload]
    BY <1>3, <1>4, <1>8, EndIsInReach
  <2>4. Progress(info, c + k, end + o, block + 1, 0, 0)
    BY <1>2, <1>3, <1>4, <2>2, <2>3 DEF Progress
  <2>5. StreamAt(info, s, c + k, end + o, block + 1, z)
    <3>1. c2 < info.payload => block + 1 < top
      BY <1>1, <1>7, <1>81, <1>9
    <3>2. c2 < info.payload => BetweenFrames(info, c2, e2, block + 1, z)
      BY <3>1, <1>81, <1>9, <1>10 DEF BetweenFrames
    <3> QED
      BY <3>2, <1>3, <1>4 DEF StreamAt
  <2> QED
    BY <1>13, <2>4, <2>5
<1> QED
  BY <1>12, <1>13

-----------------------------------------------------------------------------
(* The decoder and its fields. *)
(* \o under a name the provers leave alone. *)
Behind(u, v) == u \o v

(* UnitsJoin, for Behind. *)
LEMMA UnitsBehind ==
  ASSUME NEW s, NEW i \in Int, NEW n \in Nat, NEW m \in Nat
  PROVE  Behind(Units(s, i, n), Units(s, i + n, m)) = Units(s, i, n + m)
BY UnitsJoin DEF Behind

(* A decoder's fields, and what an update makes of them. *)
Fields(s, info, next, read, exhausted, started, decoded, base, end, block, consumed, produced, refused) ==
  [stream |-> s, info |-> info, next |-> next, payloadRead |-> read,
   exhausted |-> exhausted, started |-> started, decoded |-> decoded,
   base |-> base, end |-> end, block |-> block, consumed |-> consumed, produced |-> produced,
   failed |-> refused]

(* The fields of a decoder that was put together. *)
LEMMA FieldValues ==
  ASSUME NEW s, NEW info, NEW next, NEW read, NEW exhausted, NEW started, NEW decoded, NEW base, NEW end,
         NEW block, NEW consumed, NEW produced, NEW refused, NEW d,
         d = Fields(s, info, next, read, exhausted, started, decoded, base, end, block, consumed, produced, refused)
  PROVE  /\ d.stream = s /\ d.info = info /\ d.next = next /\ d.payloadRead = read
         /\ d.exhausted = exhausted /\ d.started = started /\ d.decoded = decoded /\ d.base = base
         /\ d.end = end /\ d.block = block /\ d.consumed = consumed /\ d.produced = produced
         /\ d.failed = refused
BY DEF Fields

(* A decoder that has not refused its file, with c units of it behind it: what  *)
(* it has, and what it made, is in its place.                                 *)
Dec(s, info, c, read, exhausted, started, base, end, block, consumed, produced) ==
  Fields(s, info, Units(s, c + 1, read - c), read, exhausted, started,
         Units(s, base, end - base), base, end, block, consumed, produced, FALSE)

Kept(info, c, read, exhausted, started, base, end, block, consumed, produced) ==
  /\ read \in Nat /\ exhausted \in BOOLEAN /\ started \in BOOLEAN
  /\ base \in Nat /\ end \in Nat /\ block \in Nat /\ consumed \in Int /\ produced \in Int
  /\ c <= read /\ read <= info.payload
  /\ HeaderSize <= base /\ base <= end
  /\ Progress(info, c, end, block, consumed, produced)
  /\ ~started => c = 0 /\ end = HeaderSize

OnCourse(d, s, info, c) ==
  /\ d = Dec(s, info, c, d.payloadRead, d.exhausted, d.started, d.base, d.end, d.block,
             d.consumed, d.produced)
  /\ Kept(info, c, d.payloadRead, d.exhausted, d.started, d.base, d.end, d.block,
          d.consumed, d.produced)

(* ... and of one that is on course. *)
LEMMA DecFields ==
  ASSUME NEW s, NEW info, NEW c, NEW read, NEW exhausted, NEW started, NEW base, NEW end, NEW block,
         NEW consumed, NEW produced, NEW d,
         d = Dec(s, info, c, read, exhausted, started, base, end, block, consumed, produced)
  PROVE  /\ d.stream = s /\ d.info = info /\ d.next = Units(s, c + 1, read - c)
         /\ d.payloadRead = read /\ d.exhausted = exhausted /\ d.started = started
         /\ d.decoded = Units(s, base, end - base) /\ d.base = base /\ d.end = end
         /\ d.block = block /\ d.consumed = consumed /\ d.produced = produced /\ ~d.failed
BY DEF Dec, Fields

(* What a decoder that is on course has in hand and has decoded. *)
LEMMA OnCourseFields ==
  ASSUME NEW d, NEW s, NEW info, NEW c, OnCourse(d, s, info, c)
  PROVE  /\ d.stream = s /\ d.info = info /\ ~d.failed
         /\ d.next = Units(s, c + 1, d.payloadRead - c)
         /\ d.decoded = Units(s, d.base, d.end - d.base)
<1>1. d = Dec(s, info, c, d.payloadRead, d.exhausted, d.started, d.base, d.end, d.block,
              d.consumed, d.produced)
  BY DEF OnCourse
<1> QED
  BY <1>1 DEF Dec, Fields

(* A decoder is on course when its fields say so. *)
LEMMA OnCourseMade ==
  ASSUME NEW s, NEW info, NEW c, NEW read, NEW exhausted, NEW started,
         NEW base, NEW end, NEW block, NEW consumed, NEW produced, NEW d,
         Kept(info, c, read, exhausted, started, base, end, block, consumed, produced),
         d = Dec(s, info, c, read, exhausted, started, base, end, block, consumed, produced)
  PROVE  OnCourse(d, s, info, c)
<1>1. /\ d.payloadRead = read /\ d.exhausted = exhausted /\ d.started = started
      /\ d.base = base /\ d.end = end
      /\ d.block = block /\ d.consumed = consumed /\ d.produced = produced
  BY DEF Dec, Fields
<1>2. d = Dec(s, info, c, d.payloadRead, d.exhausted, d.started, d.base, d.end, d.block,
              d.consumed, d.produced)
  BY <1>1
<1>3. Kept(info, c, d.payloadRead, d.exhausted, d.started, d.base, d.end, d.block,
           d.consumed, d.produced)
  BY <1>1
<1> QED
  BY <1>2, <1>3 DEF OnCourse

(* A call takes k units of the payload and hands out o units.                  *)
Takes(info, c, read, started, base, end, consumed, produced, k, o, c2, e2, fed, given) ==
  /\ c2 = c + k /\ e2 = end + o
  /\ c \in Nat /\ read \in Nat /\ base \in Nat /\ end \in Nat /\ k \in Nat /\ o \in Nat
  /\ c + k <= read /\ base <= end /\ started = TRUE
  /\ fed = (IF info.table THEN consumed + k ELSE consumed)
  /\ given = (IF info.table THEN produced + o ELSE produced)

(* Advanced: the taken units leave `next`, what they made goes behind `decoded`. *)
LEMMA DecAdvances ==
  ASSUME NEW s, NEW info, NEW c, NEW read, NEW exhausted, NEW started, NEW base,
         NEW end, NEW block, NEW consumed, NEW produced, NEW d,
         d = Dec(s, info, c, read, exhausted, started, base, end, block, consumed, produced),
         NEW made, NEW k, NEW o, NEW yes, NEW c2, NEW e2, NEW fed, NEW given,
         Takes(info, c, read, yes, base, end, consumed, produced, k, o, c2, e2, fed, given),
         made.consumed = k /\ made.out = Units(s, end, o)
  PROVE  Advanced(d, made) = Dec(s, info, c2, read, exhausted, yes, base, e2, block, fed, given)
<1> USE DEF Takes
<1>1. /\ d.stream = s /\ d.info = info /\ d.next = Units(s, c + 1, read - c)
      /\ d.decoded = Units(s, base, end - base) /\ d.end = end
  BY DEF Dec, Fields
<1>2. PICK next : next = SubSeq(d.next, made.consumed + 1, Len(d.next))
  OBVIOUS
<1>3. next = Units(s, c + k + 1, read - (c + k))
  <2>1. PICK n \in Nat : n = read - c
    OBVIOUS
  <2>2. Len(d.next) = n
    <3>1. c + 1 \in Int /\ d.next = Units(s, c + 1, n)
      BY <1>1, <2>1
    <3> QED
      BY <3>1, UnitsAreASeq
  <2>3. next = Part(Units(s, c + 1, n), k + 1, n)
    BY <1>1, <1>2, <2>1, <2>2 DEF Part
  <2>4. Part(Units(s, c + 1, n), k + 1, n) = Units(s, c + 1 + (k + 1) - 1, n - (k + 1) + 1)
    <3>1. k + 1 <= n + 1 /\ k + 1 \in Nat \ {0} /\ c + 1 \in Int /\ n <= n
      BY <2>1
    <3> QED
      BY <3>1, UnitsPart
  <2>5. c + 1 + (k + 1) - 1 = c + k + 1 /\ n - (k + 1) + 1 = read - (c + k)
    BY <2>1
  <2> QED
    BY <2>3, <2>4, <2>5
<1>4. PICK decoded : decoded = d.decoded \o made.out
  OBVIOUS
<1>5. decoded = Units(s, base, end + o - base)
  <2>1. PICK n \in Nat : n = end - base
    OBVIOUS
  <2>2. base \in Int /\ end = base + n /\ n + o = end + o - base
    BY <2>1
  <2>3. Behind(Units(s, base, n), Units(s, base + n, o)) = Units(s, base, n + o)
    BY <2>2, UnitsBehind
  <2>4. decoded = Behind(Units(s, base, n), Units(s, end, o))
    BY <1>1, <1>4, <2>1 DEF Behind
  <2> QED
    BY <2>2, <2>3, <2>4
<1>6. Len(made.out) = o
  <2>1. end \in Int
    OBVIOUS
  <2>2. Len(Units(s, end, o)) = o
    BY <2>1, UnitsAreASeq
  <2> QED
    BY <2>2
<1>8. Advanced(d, made) =
        [d EXCEPT !.started = TRUE, !.next = next, !.decoded = decoded, !.end = end + o,
                  !.consumed = fed, !.produced = given]
  <2>1. d.consumed = consumed /\ d.produced = produced
    BY DEF Dec, Fields
  <2> QED
    BY <1>1, <1>2, <1>4, <1>6, <2>1 DEF Advanced
<1>90. PICK u0, v0 : u0 = Units(s, c + 1, read - c) /\ v0 = Units(s, base, end - base)
  OBVIOUS
<1>91. PICK d0 : d0 = d
  OBVIOUS
<1>9. PICK d1 : d1 = [d0 EXCEPT !.started = yes]
  OBVIOUS
<1>10. PICK d2 : d2 = [d1 EXCEPT !.next = next]
  OBVIOUS
<1>11. PICK d3 : d3 = [d2 EXCEPT !.decoded = decoded]
  OBVIOUS
<1>12. PICK d4 : d4 = [d3 EXCEPT !.end = e2]
  OBVIOUS
<1>13. PICK d5 : d5 = [d4 EXCEPT !.consumed = fed]
  OBVIOUS
<1>14. PICK d6 : d6 = [d5 EXCEPT !.produced = given]
  OBVIOUS
<1>15. Advanced(d, made) = d6
  BY <1>8, <1>91, <1>9, <1>10, <1>11, <1>12, <1>13, <1>14
<1>16. d0 = Fields(s, info, u0, read, exhausted, started,
                  v0, base, end, block, consumed, produced, FALSE)
  BY <1>90, <1>91 DEF Dec
<1>17. d1 = Fields(s, info, u0, read, exhausted, yes,
                   v0, base, end, block, consumed, produced, FALSE)
  BY <1>9, <1>16 DEF Fields
<1>18. d2 = Fields(s, info, next, read, exhausted, yes,
                   v0, base, end, block, consumed, produced, FALSE)
  BY <1>10, <1>17 DEF Fields
<1>19. d3 = Fields(s, info, next, read, exhausted, yes,
                   decoded, base, end, block, consumed, produced, FALSE)
  BY <1>11, <1>18 DEF Fields
<1>20. d4 = Fields(s, info, next, read, exhausted, yes,
                   decoded, base, e2, block, consumed, produced, FALSE)
  BY <1>12, <1>19 DEF Fields
<1>21. d5 = Fields(s, info, next, read, exhausted, yes,
                   decoded, base, e2, block, fed, produced, FALSE)
  BY <1>13, <1>20 DEF Fields
<1>22. d6 = Fields(s, info, next, read, exhausted, yes,
                   decoded, base, e2, block, fed, given, FALSE)
  BY <1>14, <1>21 DEF Fields
<1> QED
  <2>1. next = Units(s, c2 + 1, read - c2) /\ decoded = Units(s, base, e2 - base)
    BY <1>3, <1>5
  <2>2. d6 = Dec(s, info, c2, read, exhausted, yes, base, e2, block, fed, given)
    BY <1>22, <2>1 DEF Dec
  <2> QED
    BY <1>15, <2>2

NextBlock(d) == [d EXCEPT !.block = @ + 1, !.consumed = 0, !.produced = 0]
Opened(d) == [d EXCEPT !.started = TRUE]

(* The next block of the table. *)
LEMMA DecNextBlock ==
  ASSUME NEW s, NEW info, NEW c, NEW read, NEW exhausted, NEW started, NEW base,
         NEW end, NEW block, NEW consumed, NEW produced, NEW d,
         d = Dec(s, info, c, read, exhausted, started, base, end, block, consumed, produced),
         NEW next, next = block + 1
  PROVE  NextBlock(d) = Dec(s, info, c, read, exhausted, started, base, end, next, 0, 0)
<1>20. PICK u0, v0 : u0 = Units(s, c + 1, read - c) /\ v0 = Units(s, base, end - base)
  OBVIOUS
<1>21. PICK d0 : d0 = d
  OBVIOUS
<1>1. d0 = Fields(s, info, u0, read, exhausted, started,
                 v0, base, end, block, consumed, produced, FALSE)
  BY <1>20, <1>21 DEF Dec
<1>2. d0.block = block
  BY <1>1 DEF Fields
<1>3. PICK d1 : d1 = [d0 EXCEPT !.block = next]
  OBVIOUS
<1>4. PICK d2 : d2 = [d1 EXCEPT !.consumed = 0]
  OBVIOUS
<1>5. PICK d3 : d3 = [d2 EXCEPT !.produced = 0]
  OBVIOUS
<1>6. NextBlock(d) = d3
  BY <1>21, <1>2, <1>3, <1>4, <1>5 DEF NextBlock
<1>7. d1 = Fields(s, info, u0, read, exhausted, started,
                  v0, base, end, next, consumed, produced, FALSE)
  BY <1>1, <1>3 DEF Fields
<1>8. d2 = Fields(s, info, u0, read, exhausted, started,
                  v0, base, end, next, 0, produced, FALSE)
  BY <1>4, <1>7 DEF Fields
<1>9. d3 = Fields(s, info, u0, read, exhausted, started,
                  v0, base, end, next, 0, 0, FALSE)
  BY <1>5, <1>8 DEF Fields
<1> QED
  BY <1>20, <1>6, <1>9 DEF Dec

(* What a failing decoder keeps. *)
LEMMA FailingKeeps ==
  ASSUME NEW s, NEW info, NEW c, NEW read, NEW exhausted, NEW started, NEW base,
         NEW end, NEW block, NEW consumed, NEW produced, NEW d,
         d = Dec(s, info, c, read, exhausted, started, base, end, block, consumed, produced),
         NEW a, a = Failing(d) \/ a = Failing(Opened(d))
  PROVE  a.failed /\ a.info = info
<1>1. PICK u0, v0 : u0 = Units(s, c + 1, read - c) /\ v0 = Units(s, base, end - base)
  OBVIOUS
<1>2. PICK yes, no, d0 : yes = TRUE /\ no = FALSE /\ d0 = d
  OBVIOUS
<1>4. d0 = Fields(s, info, u0, read, exhausted, started, v0, base, end, block, consumed, produced, no)
  BY <1>1, <1>2 DEF Dec
<1>5. PICK d1 : d1 = [d0 EXCEPT !.started = yes]
  OBVIOUS
<1>51. PICK d2 : d2 = [d1 EXCEPT !.failed = yes]
  OBVIOUS
<1>52. PICK d3 : d3 = [d0 EXCEPT !.failed = yes]
  OBVIOUS
<1>6. d1 = Fields(s, info, u0, read, exhausted, yes, v0, base, end, block, consumed, produced, no)
  BY <1>4, <1>5 DEF Fields
<1>7. d2 = Fields(s, info, u0, read, exhausted, yes, v0, base, end, block, consumed, produced, yes)
  BY <1>51, <1>6 DEF Fields
<1>8. d3 = Fields(s, info, u0, read, exhausted, started, v0, base, end, block, consumed, produced, yes)
  BY <1>4, <1>52 DEF Fields
<1>9. Failing(d) = d3 /\ Failing(Opened(d)) = d2
  BY <1>2, <1>5, <1>51, <1>52 DEF Failing, Opened
<1>10. d3.failed = yes /\ d3.info = info /\ d2.failed = yes /\ d2.info = info
  BY <1>7, <1>8 DEF Fields
<1> QED
  BY <1>2, <1>9, <1>10

-----------------------------------------------------------------------------
(* NczDecoder::Step. *)
(* What of the payload in hand a step looks at.                                *)
LEMMA SpanIsAhead ==
  ASSUME NEW info, IsFile(info), NEW s \in Nat, NEW c \in Nat, NEW d, OnCourse(d, s, info, c),
         c < d.payloadRead
  PROVE  /\ ~PastTheTable(d)
         /\ info.table => d.block \in Blocks(info) /\ Off(info, d.block) <= c
         /\ \E m \in Nat \ {0} :
              /\ Span(d) = Units(s, c + 1, m) /\ c + m <= d.payloadRead /\ c + m <= info.payload
              /\ info.table => c + m <= Past(info, d.block)
<1>1. /\ d.payloadRead \in Nat /\ d.payloadRead <= info.payload /\ info.payload \in Nat
      /\ Progress(info, c, d.end, d.block, d.consumed, d.produced)
  BY ReachGrows DEF OnCourse, Kept
<1>2. d.info = info /\ d.next = Units(s, c + 1, d.payloadRead - c)
  BY OnCourseFields
<1>3. PICK n \in Nat \ {0} : n = d.payloadRead - c
  BY <1>1
<1>4. Len(Units(s, c + 1, n)) = n
  BY SpanHead
<1>5. PICK u : u = Units(s, c + 1, n)
  OBVIOUS
<1>6. c + n = d.payloadRead /\ c < info.payload /\ c + n <= info.payload
  BY <1>1, <1>3
<1>7. CASE ~info.table
  <2>1. Span(d) = u
    BY <1>2, <1>3, <1>5, <1>7 DEF Span
  <2> QED
    BY <1>2, <1>5, <1>6, <1>7, <2>1 DEF PastTheTable
<1>8. CASE info.table
  <2>1. TableKept(info, c, d.end, d.block, d.consumed, d.produced)
    BY <1>1, <1>8 DEF Progress
  <2>2. /\ d.block \in Blocks(info) /\ ~(d.block >= Len(info.offsets))
        /\ Off(info, d.block) <= c /\ c < Past(info, d.block)
        /\ BlockSourceSize(info, d.block) - d.consumed = Past(info, d.block) - c
    BY <1>6, <1>8, <2>1, CurrentBlock
  <2>3. Past(info, d.block) \in Nat
    BY <1>8, <2>2, TableFacts
  <2>4. PICK left \in Nat \ {0} : left = Past(info, d.block) - c
    BY <2>2, <2>3
  <2>5. Span(d) = IF left < n THEN Part(u, 1, left) ELSE u
    BY <1>2, <1>3, <1>4, <1>5, <1>8, <2>2, <2>4 DEF Span, Part
  <2>6. ~PastTheTable(d)
    BY <1>2, <2>2 DEF PastTheTable
  <2>7. CASE left < n
    <3>1. Part(u, 1, left) = Units(s, c + 1 + 1 - 1, left - 1 + 1)
      <4>1. c + 1 \in Int /\ 1 <= left + 1 /\ left <= n /\ 1 \in Nat \ {0} /\ left \in Nat /\ n \in Nat
        BY <2>7
      <4> QED
        BY <1>5, <4>1, UnitsPart
    <3>2. c + 1 + 1 - 1 = c + 1 /\ left - 1 + 1 = left
      OBVIOUS
    <3>3. Span(d) = Units(s, c + 1, left)
      BY <2>5, <2>7, <3>1, <3>2
    <3>4. c + left <= d.payloadRead /\ c + left <= info.payload /\ c + left <= Past(info, d.block)
      BY <1>1, <1>6, <2>3, <2>4, <2>7
    <3> QED
      BY <2>2, <2>6, <3>3, <3>4
  <2>8. CASE ~(left < n)
    <3>1. Span(d) = Units(s, c + 1, n)
      BY <1>5, <2>5, <2>8
    <3>2. c + n <= Past(info, d.block)
      BY <2>3, <2>4, <2>8
    <3>3. c + n <= d.payloadRead
      BY <1>1, <1>6
    <3> QED
      BY <1>6, <2>2, <2>6, <3>1, <3>2, <3>3
  <2> QED
    BY <2>7, <2>8
<1> QED
  BY <1>7, <1>8

(* What comes of a step: the file is not sound, or the decoder is on course.   *)
GoneOn(s, info, d, a) ==
  /\ a.decoder.info = info
  /\ \/ a.decoder.failed /\ ~IsSound(info)
     \/ \E c \in Nat :
          /\ OnCourse(a.decoder, s, info, c)
          /\ StreamAt(info, s, c, a.decoder.end, a.decoder.block, a.zstd)
          /\ a.decoder.started /\ a.decoder.payloadRead = d.payloadRead
          /\ a.decoder.base = d.base /\ a.decoder.exhausted = d.exhausted

(* A step whose decoder is put together field by field. *)
LEMMA GoneOnMade ==
  ASSUME NEW s, NEW info, NEW d, NEW a,
         NEW c \in Nat, NEW read, NEW exhausted, NEW yes, NEW base, NEW end, NEW block, NEW consumed, NEW produced,
         Kept(info, c, read, exhausted, yes, base, end, block, consumed, produced),
         a.decoder = Dec(s, info, c, read, exhausted, yes, base, end, block, consumed, produced),
         d.payloadRead = read, d.base = base, d.exhausted = exhausted, yes = TRUE,
         StreamAt(info, s, c, end, block, a.zstd)
  PROVE  GoneOn(s, info, d, a)
<1>1. OnCourse(a.decoder, s, info, c)
  BY OnCourseMade
<1>2. /\ a.decoder.info = info /\ a.decoder.payloadRead = read /\ a.decoder.exhausted = exhausted
      /\ a.decoder.started = yes /\ a.decoder.base = base
      /\ a.decoder.end = end /\ a.decoder.block = block
  BY DEF Dec, Fields
<1> QED
  BY <1>1, <1>2 DEF GoneOn

(* The decoder after a step's call that went well. *)
LEMMA AdvanceGoesOn ==
  ASSUME NEW info, IsFile(info), NEW s \in Nat, NEW c \in Nat, NEW d, OnCourse(d, s, info, c),
         c < d.payloadRead, NEW r,
         info.table => d.block \in Blocks(info) /\ Off(info, d.block) <= c,
         NEW k \in Nat, NEW o \in Nat,
         r.consumed = k, r.out = Units(s, d.end, o), k + o > 0,
         c + k <= d.payloadRead, info.table => c + k <= Past(info, d.block),
         info.bad \notin c + 1 .. c + k,
         WentOn(info, s, c + k, d.end + o, d.block, r.stream),
         NEW a, a.decoder = BlockEnds(Advanced(d, r)), a.zstd = r.stream
  PROVE  GoneOn(s, info, d, a)
<1>1. PICK read, exhausted, started, base, end, block, consumed, produced :
        /\ read = d.payloadRead /\ exhausted = d.exhausted /\ started = d.started /\ base = d.base
        /\ end = d.end /\ block = d.block /\ consumed = d.consumed /\ produced = d.produced
  OBVIOUS
<1>2. /\ d = Dec(s, info, c, read, exhausted, started, base, end, block, consumed, produced)
      /\ read \in Nat /\ exhausted \in BOOLEAN /\ base \in Nat /\ end \in Nat /\ block \in Nat
      /\ consumed \in Int /\ produced \in Int
      /\ c <= read /\ read <= info.payload /\ HeaderSize <= base /\ base <= end
      /\ Progress(info, c, end, block, consumed, produced)
  BY <1>1 DEF OnCourse, Kept
<1>3. info.payload \in Nat /\ HeaderSize \in Nat
  BY ReachGrows, DecoderAssumption
<1>4. c < info.payload /\ c + k <= read /\ c + k <= info.payload
  BY <1>1, <1>2, <1>3
<1>5. PICK c2 \in Nat : c2 = c + k
  OBVIOUS
<1>6. PICK e2 \in Nat : e2 = end + o
  BY <1>2
<1>7. c2 <= read /\ base <= e2
  BY <1>2, <1>4, <1>5, <1>6
<1>8. PICK d2 : d2 = Advanced(d, r)
  OBVIOUS
<1>80. PICK yes : yes = TRUE
  OBVIOUS
<1>81. PICK fed0, given0 : /\ fed0 = (IF info.table THEN consumed + k ELSE consumed)
                           /\ given0 = (IF info.table THEN produced + o ELSE produced)
  OBVIOUS
<1>9. d2 = Dec(s, info, c2, read, exhausted, yes, base, e2, block, fed0, given0)
  <2>1. r.out = Units(s, end, o)
    BY <1>1
  <2>2. c \in Nat /\ read \in Nat /\ base \in Nat /\ end \in Nat /\ c + k <= read /\ base <= end
    BY <1>2, <1>4
  <2>3. Takes(info, c, read, yes, base, end, consumed, produced, k, o, c2, e2, fed0, given0)
    BY <1>5, <1>6, <1>80, <1>81, <2>2 DEF Takes
  <2>4. d = Dec(s, info, c, read, exhausted, started, base, end, block, consumed, produced)
    BY <1>2
  <2>5. r.consumed = k /\ r.out = Units(s, end, o)
    BY <2>1
  <2>6. Advanced(d, r) = Dec(s, info, c2, read, exhausted, yes, base, e2, block, fed0, given0)
    BY <2>3, <2>4, <2>5, DecAdvances
  <2> QED
    BY <1>8, <2>6
<1>10. CASE ~info.table
  <2>1. d2 = Dec(s, info, c2, read, exhausted, yes, base, e2, block, consumed, produced)
    BY <1>9, <1>10, <1>81
  <2>2. d2.info = info
    BY <2>1, DecFields
  <2>3. a.decoder = d2
    BY <1>8, <1>10, <2>2 DEF BlockEnds
  <2>4. WentOn(info, s, c + k, end + o, block, r.stream)
    BY <1>1
  <2>5. /\ Progress(info, c + k, end + o, block, consumed, produced)
        /\ StreamAt(info, s, c + k, end + o, block, r.stream)
    BY <1>2, <1>4, <1>10, <2>4, PlainGoesOn
  <2>6. /\ Progress(info, c2, e2, block, consumed, produced)
        /\ StreamAt(info, s, c2, e2, block, a.zstd)
    BY <1>5, <1>6, <2>5
  <2> QED
    <3>1. Kept(info, c2, read, exhausted, yes, base, e2, block, consumed, produced)
      BY <1>2, <1>7, <1>80, <2>6 DEF Kept
    <3> QED
      BY <1>1, <1>80, <2>1, <2>3, <2>6, <3>1, GoneOnMade
<1>11. CASE info.table
  <2>1. PICK fed \in Int : fed = consumed + k
    BY <1>2
  <2>2. PICK given \in Int : given = produced + o
    BY <1>2
  <2>3. d2 = Dec(s, info, c2, read, exhausted, yes, base, e2, block, fed, given)
    BY <1>9, <1>11, <1>81, <2>1, <2>2
  <2>4. d2.info = info /\ d2.block = block /\ d2.consumed = fed /\ d2.produced = given
    BY <2>3, DecFields
  <2>5. WentOn(info, s, c + k, end + o, block, r.stream) /\ c + k <= Past(info, block)
    BY <1>1, <1>11
  <2>6. CASE fed # BlockSourceSize(info, block)
    <3>1. a.decoder = d2
      BY <1>8, <1>11, <2>4, <2>6 DEF BlockEnds
    <3>2. /\ Progress(info, c + k, end + o, block, consumed + k, produced + o)
          /\ StreamAt(info, s, c + k, end + o, block, r.stream)
      BY <1>2, <1>4, <1>11, <2>1, <2>5, <2>6, BlockGoesOn
    <3>3. /\ Progress(info, c2, e2, block, fed, given)
          /\ StreamAt(info, s, c2, e2, block, a.zstd)
      BY <1>5, <1>6, <2>1, <2>2, <3>2
    <3> QED
      <4>1. Kept(info, c2, read, exhausted, yes, base, e2, block, fed, given)
        BY <1>2, <1>7, <1>80, <3>3 DEF Kept
      <4> QED
        BY <1>1, <1>80, <2>3, <3>1, <3>3, <4>1, GoneOnMade
  <2>7. CASE fed = BlockSourceSize(info, block)
    <3>1. IF produced + o # BlockDecodedSize(info, block) THEN ~IsSound(info)
          ELSE /\ Progress(info, c + k, end + o, block + 1, 0, 0)
               /\ StreamAt(info, s, c + k, end + o, block + 1, r.stream)
      BY <1>2, <1>4, <1>11, <2>1, <2>5, <2>7, BlockIsIn
    <3>2. a.decoder = IF given # BlockDecodedSize(info, block) THEN Failing(d2)
                      ELSE [d2 EXCEPT !.block = @ + 1, !.consumed = 0, !.produced = 0]
      BY <1>8, <1>11, <2>4, <2>7 DEF BlockEnds
    <3>3. CASE given # BlockDecodedSize(info, block)
      <4>1. a.decoder.failed /\ a.decoder.info = info
        <5>1. a.decoder = Failing(d2)
          BY <3>2, <3>3
        <5> QED
          BY <2>3, <5>1, FailingKeeps
      <4> QED
        BY <2>2, <3>1, <3>3, <4>1 DEF GoneOn
    <3>4. CASE given = BlockDecodedSize(info, block)
      <4>1. PICK next \in Nat : next = block + 1
        BY <1>2
      <4>2. a.decoder = Dec(s, info, c2, read, exhausted, yes, base, e2, next, 0, 0)
        <5>1. a.decoder = NextBlock(d2)
          BY <3>2, <3>4 DEF NextBlock
        <5> QED
          BY <2>3, <4>1, <5>1, DecNextBlock
      <4>3. /\ Progress(info, c2, e2, next, 0, 0)
            /\ StreamAt(info, s, c2, e2, next, a.zstd)
        BY <1>5, <1>6, <2>2, <3>1, <3>4, <4>1
      <4> QED
        <5>1. Kept(info, c2, read, exhausted, yes, base, e2, next, 0, 0)
          BY <1>2, <1>7, <1>80, <4>3 DEF Kept
        <5> QED
          BY <1>1, <1>80, <4>2, <4>3, <5>1, GoneOnMade
    <3> QED
      BY <3>3, <3>4
  <2> QED
    BY <2>6, <2>7
<1> QED
  BY <1>10, <1>11

(* NczDecoder::Step, with something in hand: the decoder stays on course, or it refuses a
   file that is not sound. *)
LEMMA StepGoesOn ==
  ASSUME NEW info, IsFile(info), NEW s \in Nat, NEW c \in Nat, NEW d, OnCourse(d, s, info, c),
         c < d.payloadRead, NEW z, StreamAt(info, s, c, d.end, d.block, z)
  PROVE  GoneOn(s, info, d, Stepped(d, z))
<1>1. /\ d.info = info /\ d.stream = s
      /\ d.payloadRead \in Nat /\ d.payloadRead <= info.payload /\ info.payload \in Nat /\ d.end \in Nat
  <2>1. d.info = info /\ d.stream = s
    BY OnCourseFields
  <2>2. info.payload \in Nat
    BY ReachGrows
  <2> QED
    BY <2>1, <2>2 DEF OnCourse, Kept
<1>2. /\ ~PastTheTable(d)
      /\ info.table => d.block \in Blocks(info) /\ Off(info, d.block) <= c
  BY SpanIsAhead
<1>3. PICK m \in Nat \ {0} :
        /\ Span(d) = Units(s, c + 1, m) /\ c + m <= d.payloadRead /\ c + m <= info.payload
        /\ info.table => c + m <= Past(info, d.block)
  BY SpanIsAhead
<1>4. c < info.payload
  BY <1>1
<1>5. PICK r : r = DecodeSpan(d, z, Units(s, c + 1, m))
  OBVIOUS
<1>6. \/ InBlock(info, s, c, d.end, d.block, z)
      \/ BetweenFrames(info, c, d.end, d.block, z)
  BY <1>4 DEF StreamAt
<1>7. DecodedTo(info, s, c, m, d.end, d.block, r)
  BY <1>1, <1>2, <1>3, <1>5, <1>6, SpanDecodes
<1>8. PICK a : a = Stepped(d, z)
  OBVIOUS
<1>9. a = IF r.error
            THEN [decoder |-> Failing([d EXCEPT !.started = TRUE]), zstd |-> z]
            ELSE [decoder |-> Moved(BlockEnds(Advanced(d, r)), r), zstd |-> r.stream]
  BY <1>2, <1>3, <1>5, <1>8 DEF Stepped
<1>10. CASE r.error = TRUE /\ ~IsSound(info)
  <2>1. d = Dec(s, info, c, d.payloadRead, d.exhausted, d.started, d.base, d.end, d.block,
                d.consumed, d.produced)
    BY DEF OnCourse
  <2>2. a.decoder = Failing(Opened(d))
    BY <1>9, <1>10 DEF Opened
  <2>3. a.decoder.failed /\ a.decoder.info = info
    BY <2>1, <2>2, FailingKeeps
  <2> QED
    BY <1>8, <1>10, <2>3 DEF GoneOn
<1>11. ASSUME NEW k \in 0 .. m, NEW o \in Nat,
              r.error = FALSE, r.consumed = k, r.out = Units(s, d.end, o),
              k + o > 0, info.bad \notin c + 1 .. c + k,
              WentOn(info, s, c + k, d.end + o, d.block, r.stream)
       PROVE  GoneOn(s, info, d, a)
  <2>1. k \in Nat /\ c + k <= c + m
    BY <1>11
  <2>2. c + k <= d.payloadRead /\ (info.table => c + k <= Past(info, d.block))
    <3>1. c + k <= d.payloadRead
      BY <1>1, <1>3, <2>1
    <3>2. ASSUME info.table PROVE c + k <= Past(info, d.block)
      <4>1. Past(info, d.block) \in Nat
        BY <1>2, <3>2, TableFacts
      <4> QED
        BY <1>3, <2>1, <3>2, <4>1
    <3> QED
      BY <3>1, <3>2
  <2>3. ~(k = 0 /\ r.out = <<>>)
    <3>1. r.out = <<>> <=> o = 0
      BY <1>1, <1>11, EmptyUnits
    <3> QED
      BY <1>11, <3>1
  <2>4. a.decoder = BlockEnds(Advanced(d, r)) /\ a.zstd = r.stream
    BY <1>9, <1>11, <2>3 DEF Moved
  <2> QED
    BY <1>2, <1>11, <2>1, <2>2, <2>4, AdvanceGoesOn
<1>12. GoneOn(s, info, d, a)
  <2>1. \/ r.error = TRUE /\ ~IsSound(info)
        \/ \E k \in 0 .. m, o \in Nat :
             /\ r.error = FALSE /\ r.consumed = k /\ r.out = Units(s, d.end, o)
             /\ k + o > 0 /\ info.bad \notin c + 1 .. c + k
             /\ WentOn(info, s, c + k, d.end + o, d.block, r.stream)
    BY <1>7 DEF DecodedTo
  <2> QED
    BY <1>8, <1>10, <1>11, <2>1
<1> QED
  BY <1>8, <1>12

(* A new decoder is on course, whatever the context was left at. *)
LEMMA NewIsOnCourse ==
  ASSUME NEW info, IsFile(info), NEW s
  PROVE  /\ OnCourse(NewDecoder(s, info), s, info, 0)
         /\ StreamAt(info, s, 0, HeaderSize, 0, FreshStream)
         /\ LET d == NewDecoder(s, info)
            IN /\ d.info = info /\ ~d.failed /\ ~d.started /\ ~d.exhausted
               /\ d.payloadRead = 0 /\ d.base = HeaderSize /\ d.end = HeaderSize /\ d.block = 0
<1>1. PICK d : d = NewDecoder(s, info)
  OBVIOUS
<1>2. HeaderSize \in Nat /\ HeaderSize \in Int
  BY DecoderAssumption
<1>30. PICK no : no = FALSE
  OBVIOUS
<1>3. d = Dec(s, info, 0, 0, no, no, HeaderSize, HeaderSize, 0, 0, 0)
  <2>1. Units(s, 0 + 1, 0 - 0) = <<>> /\ Units(s, HeaderSize, HeaderSize - HeaderSize) = <<>>
    <3>1. 0 + 1 = 1 /\ 0 - 0 = 0 /\ HeaderSize - HeaderSize = 0 /\ 1 \in Int
      BY <1>2
    <3> QED
      BY <1>2, <3>1, NoUnits
  <2> QED
    BY <1>1, <1>30, <2>1 DEF NewDecoder, Dec, Fields
<1>4. /\ info.payload \in Nat \ {0} /\ info.reach[0] = HeaderSize
      /\ \A i, j \in 0 .. info.payload : i <= j => info.reach[i] <= info.reach[j]
  BY ReachGrows
<1>5. ~(0 = info.payload) /\ HeaderSize <= info.reach[info.payload] /\ info.bad \notin 1 .. 0
  <2>1. 0 \in 0 .. info.payload /\ info.payload \in 0 .. info.payload /\ 0 <= info.payload
    BY <1>4
  <2> QED
    BY <1>4, <2>1
<1>6. ASSUME info.table
      PROVE  TableKept(info, 0, HeaderSize, 0, 0, 0) /\ Off(info, 0) = 0
  <2>1. PICK top : top = Len(info.offsets)
    OBVIOUS
  <2>2. /\ top \in Nat /\ top > 0 /\ 0 \in Blocks(info) /\ Off(info, 0) = 0
        /\ Past(info, 0) \in Nat
        /\ Blocks(info) = 0 .. top - 1
        /\ \A b \in Blocks(info) :
             /\ b + 1 < top => Past(info, b) = Off(info, b + 1)
             /\ b + 1 = top => Past(info, b) = info.payload
        /\ \A a, b \in Blocks(info) : a < b => Off(info, a) < Off(info, b)
    BY <1>6, <2>1, TableFacts
  <2>3. 0 < Past(info, 0)
    <3>1. CASE top = 1
      <4>1. Past(info, 0) = info.payload
        BY <2>2, <3>1, 0 + 1 = 1
      <4> QED
        BY <4>1, <1>4
    <3>2. CASE top > 1
      <4>1. 0 \in Blocks(info) /\ 1 \in Blocks(info)
        BY <2>2, <3>2
      <4>2. Past(info, 0) = Off(info, 1)
        BY <2>2, <3>2, <4>1, 0 + 1 = 1
      <4>3. Off(info, 0) < Off(info, 1)
        BY <2>2, <4>1, 0 < 1
      <4> QED
        BY <4>2, <4>3, <2>2
    <3> QED
      BY <2>2, <3>1, <3>2
  <2>4. 0 = HeaderSize - info.reach[Off(info, 0)] /\ 0 = 0 - Off(info, 0) /\ Off(info, 0) <= 0
    BY <1>2, <1>4, <2>2
  <2>5. 0 \in 0 .. top /\ 0 < top /\ 0 # top /\ \A b \in 0 .. 0 - 1 : BlockKept(info, b)
    BY <2>2
  <2> QED
    BY <2>1, <2>2, <2>3, <2>4, <2>5 DEF TableKept
<1>7. Progress(info, 0, HeaderSize, 0, 0, 0)
  BY <1>5, <1>6 DEF Progress
<1>8. OnCourse(d, s, info, 0)
  <2>1. Kept(info, 0, 0, no, no, HeaderSize, HeaderSize, 0, 0, 0)
    <3>0. 0 <= info.payload /\ HeaderSize <= HeaderSize
      BY <1>2, <1>4
    <3>1. 0 <= info.payload /\ HeaderSize <= HeaderSize /\ no \in BOOLEAN
      BY <3>0, <1>30
    <3> QED
      BY <1>2, <1>7, <3>1 DEF Kept
  <2> QED
    BY <1>3, <2>1, OnCourseMade
<1>9. StreamAt(info, s, 0, HeaderSize, 0, FreshStream)
  BY <1>4, <1>6 DEF StreamAt, BetweenFrames
<1>10. /\ d.info = info /\ ~d.failed /\ ~d.started /\ ~d.exhausted
       /\ d.payloadRead = 0 /\ d.base = HeaderSize /\ d.end = HeaderSize /\ d.block = 0
  <2>1. /\ d.info = info /\ ~d.failed /\ d.started = no /\ d.exhausted = no
        /\ d.payloadRead = 0 /\ d.base = HeaderSize /\ d.end = HeaderSize /\ d.block = 0
    BY <1>3, DecFields
  <2> QED
    BY <1>30, <2>1
<1> QED
  BY <1>1, <1>8, <1>9, <1>10

-----------------------------------------------------------------------------
(* Re-encryption: the counters of a range are those of its positions. *)
(* The first w units of the NCA, as the placeholder is to hold them.           *)
Upto(info, s, w) == [i \in 1 .. w |-> Rebuilt(info, s)[i]]

(* The sections position p is stored under. *)
SectionsAt(info, p) == {t \in info.sections : t.encrypted /\ Covers(t, p)}

(* A unit under the keystream of a section at a position. *)
Sealed(unit, t, p) == [unit |-> unit, key |-> <<t.key, p \div 2, p % 2>>]

(* One unit of what the placeholder is to hold. *)
LEMMA RebuiltUnit ==
  ASSUME NEW info, IsFile(info), NEW s, NEW p \in Nat, p < info.size
  PROVE  Rebuilt(info, s)[p + 1] =
           IF p < HeaderSize \/ SectionsAt(info, p) = {} THEN Plain(<<s, p>>)
           ELSE Sealed(<<s, p>>, CHOOSE t \in SectionsAt(info, p) : TRUE, p)
<1>1. info.size \in Nat
  BY ReachGrows
<1>2. PICK i \in 1 .. info.size : i = p + 1
  BY <1>1
<1>3. i - 1 = p
  BY <1>2
<1>4. Rebuilt(info, s)[i] =
        IF i - 1 < HeaderSize \/ SectionsAt(info, i - 1) = {} THEN Plain(<<s, i - 1>>)
        ELSE Sealed(<<s, i - 1>>, CHOOSE t \in SectionsAt(info, i - 1) : TRUE, i - 1)
  BY DEF Rebuilt, SectionsAt, Sealed
<1> QED
  BY <1>2, <1>3, <1>4

(* The cipher block and the place in it, counted from a range that begins in a block. *)
LEMMA Counters ==
  ASSUME NEW lo \in Nat, NEW j \in Nat \ {0}
  PROVE  /\ lo \div 2 + ((lo % 2) + j - 1) \div 2 = (lo + j - 1) \div 2
         /\ ((lo % 2) + j - 1) % 2 = (lo + j - 1) % 2
OBVIOUS

(* The j-th unit from lo on is at p. *)
IsAt(p, lo, j) == lo \in Nat /\ j \in Nat /\ p = lo + j - 1

PlainAt(units, j, unit) == j \in 1 .. Len(units) /\ units[j] = Plain(unit)

(* A range's counters are those of its positions.                              *)
LEMMA ShareUnit ==
  ASSUME NEW section, NEW lo, NEW units, NEW j, NEW unit, NEW p,
         PlainAt(units, j, unit), IsAt(p, lo, j)
  PROVE  AesCtrRange(section, lo, units)[j] = Sealed(unit, section, p)
<1> USE DEF IsAt, PlainAt
<1>1. j \in 1 .. Len(units) /\ j \in Nat \ {0}
  OBVIOUS
<1>2. AesCtrRange(section, lo, units)[j] =
        [Plain(unit) EXCEPT !.key = <<section.key, lo \div 2 + ((lo % 2) + j - 1) \div 2, ((lo % 2) + j - 1) % 2>>]
  BY <1>1 DEF AesCtrRange
<1>3. /\ lo \div 2 + ((lo % 2) + j - 1) \div 2 = (lo + j - 1) \div 2
      /\ ((lo % 2) + j - 1) % 2 = (lo + j - 1) % 2
  BY <1>1, Counters
<1> QED
  BY <1>2, <1>3 DEF Plain, Sealed

(* The k-th unit of a range, from a section's share of it. *)
ShareAt(t, w, units, k) == Share(t, w, units)[k - (ShareFrom(t, w) - w)]

(* One unit of a range, re-encrypted. *)
LEMMA ReencryptedUnit ==
  ASSUME NEW info, NEW w, NEW units, NEW k \in 1 .. Len(units), NEW T, T = SectionsOver(info, w, Len(units), k)
  PROVE  Reencrypt(info, w, units)[k] =
           IF T = {} THEN Plain(units[k])
           ELSE LET t == CHOOSE t \in T : TRUE
                IN ShareAt(t, w, units, k)
BY DEF Reencrypt, ShareAt

(* The sections whose share a unit is in are those that cover its place. *)
LEMMA SectionsAgree ==
  ASSUME NEW info, IsFile(info), NEW w \in Nat, NEW n \in Nat, NEW k \in 1 .. n
  PROVE  SectionsOver(info, w, n, k) = SectionsAt(info, w + k - 1)
<1>1. \A t \in info.sections : t.offset \in Nat /\ t.size \in Nat
  BY DEF IsFile
<1>2. ASSUME NEW t \in info.sections
      PROVE  (ShareFrom(t, w) <= w + k - 1 /\ w + k - 1 < ShareTo(t, w, n))
               <=> Covers(t, w + k - 1)
  <2>1. t.offset \in Nat /\ t.size \in Nat
    BY <1>1, <1>2
  <2> QED
    BY <2>1 DEF ShareFrom, ShareTo, Covers
<1> QED
  BY <1>2 DEF SectionsOver, SectionsAt

(* A section's share is under the keystream of its own places, wherever it begins. *)
LEMMA ShareInPlace ==
  ASSUME NEW info, IsFile(info), NEW s, NEW w \in Nat, NEW n \in Nat, NEW k \in 1 .. n, NEW p, IsAt(p, w, k),
         NEW t \in SectionsAt(info, p)
  PROVE  ShareAt(t, w, Units(s, w, n), k) = Sealed(<<s, p>>, t, p)
<1>1. t.offset \in Nat /\ t.size \in Nat /\ Covers(t, p)
  BY DEF IsFile, SectionsAt
<1>2. PICK u : u = Units(s, w, n)
  OBVIOUS
<1>0. p = w + k - 1
  BY DEF IsAt
<1>3. /\ Len(u) = n /\ \A j \in 1 .. n : u[j] = <<s, w + j - 1>>
  BY <1>2, UnitsAreASeq, w \in Int
<1>4. PICK lo \in Nat : lo = ShareFrom(t, w)
  BY <1>1 DEF ShareFrom
<1>5. PICK hi \in Nat : hi = ShareTo(t, w, n)
  BY <1>1 DEF ShareTo
<1>6. lo <= p /\ p < hi /\ w <= lo /\ hi <= w + n
  BY <1>0, <1>1, <1>4, <1>5 DEF ShareFrom, ShareTo, Covers
<1>7. PICK m \in Nat : m = hi - lo
  BY <1>0, <1>6
<1>8. PICK j \in 1 .. m : j = k - (lo - w)
  BY <1>0, <1>6, <1>7
<1>9. PICK share : share = [i \in 1 .. m |-> Plain(u[lo - w + i])]
  OBVIOUS
<1>10. Len(share) = m
  BY <1>9
<1>11. lo - w + j = k /\ p = lo + j - 1 /\ j \in Nat
  BY <1>0, <1>6, <1>8
<1>12. share[j] = Plain(<<s, p>>)
  BY <1>0, <1>3, <1>9, <1>11
<1>13. Share(t, w, u) = AesCtrRange(t, lo, share)
  BY <1>3, <1>4, <1>5, <1>7, <1>9 DEF Share
<1>14. AesCtrRange(t, lo, share)[j] = Sealed(<<s, p>>, t, p)
  <2>1. IsAt(p, lo, j) /\ PlainAt(share, j, <<s, p>>)
    BY <1>10, <1>11, <1>12 DEF IsAt, PlainAt
  <2> QED
    BY <2>1, ShareUnit
<1> QED
  BY <1>2, <1>4, <1>8, <1>13, <1>14 DEF ShareAt

(* What is re-encrypted from a position on is what belongs there.               *)
LEMMA ReencryptsInPlace ==
  ASSUME NEW info, IsFile(info), NEW s, NEW w \in Nat, HeaderSize <= w, NEW n \in Nat, w + n <= info.size,
         NEW k \in 1 .. n
  PROVE  Reencrypt(info, w, Units(s, w, n))[k] = Rebuilt(info, s)[w + k]
<1>1. /\ Len(Units(s, w, n)) = n /\ Units(s, w, n)[k] = <<s, w + k - 1>>
  BY UnitsAreASeq, w \in Int
<1>2. PICK p \in Nat : p = w + k - 1
  OBVIOUS
<1>3. p + 1 = w + k /\ p < info.size /\ ~(p < HeaderSize)
  BY <1>2, ReachGrows, DecoderAssumption
<1>4. PICK T : T = SectionsAt(info, p)
  OBVIOUS
<1>5. T = SectionsOver(info, w, n, k)
  BY <1>2, <1>4, SectionsAgree
<1>6. Reencrypt(info, w, Units(s, w, n))[k] =
        IF T = {} THEN Plain(<<s, p>>)
        ELSE LET t == CHOOSE t \in T : TRUE
             IN ShareAt(t, w, Units(s, w, n), k)
  <2>1. PICK u : u = Units(s, w, n)
    OBVIOUS
  <2>2. k \in 1 .. Len(u) /\ T = SectionsOver(info, w, Len(u), k) /\ u[k] = <<s, p>>
    BY <1>1, <1>2, <1>5, <2>1
  <2>3. Reencrypt(info, w, u)[k] =
          IF T = {} THEN Plain(u[k])
          ELSE LET t == CHOOSE t \in T : TRUE
               IN ShareAt(t, w, u, k)
    BY <2>2, ReencryptedUnit
  <2> QED
    BY <2>1, <2>2, <2>3
<1>7. Rebuilt(info, s)[w + k] =
        IF T = {} THEN Plain(<<s, p>>)
        ELSE Sealed(<<s, p>>, CHOOSE t \in T : TRUE, p)
  BY <1>3, <1>4, RebuiltUnit
<1>8. CASE T = {}
  BY <1>6, <1>7, <1>8
<1>9. CASE T # {}
  <2>1. PICK t \in T : t = CHOOSE u \in T : TRUE
    BY <1>9
  <2>2. ShareAt(t, w, Units(s, w, n), k) = Sealed(<<s, p>>, t, p)
    <3>1. t \in SectionsAt(info, p) /\ IsAt(p, w, k)
      BY <1>2, <1>4 DEF IsAt
    <3> QED
      BY <3>1, ShareInPlace
  <2> QED
    BY <1>6, <1>7, <1>9, <2>1, <2>2
<1> QED
  BY <1>8, <1>9

-----------------------------------------------------------------------------
(* What is placed. *)
(* Stored units: what the placeholder's elements are taken from. *)
Stored(info, s) == {Rebuilt(info, s)[i] : i \in 1 .. info.size}

(* What is placed up to a position has that many units. *)
LEMMA UptoIsASeq ==
  ASSUME NEW info, IsFile(info), NEW s, NEW w \in Nat, w <= info.size
  PROVE  /\ Upto(info, s, w) \in Seq(Stored(info, s)) /\ Len(Upto(info, s, w)) = w
         /\ \A i \in 1 .. w : Upto(info, s, w)[i] = Rebuilt(info, s)[i]
         /\ Upto(info, s, w) = <<>> <=> w = 0
<1>1. info.size \in Nat /\ \A i \in 1 .. w : i \in 1 .. info.size
  BY ReachGrows
<1>2. Upto(info, s, w) \in [1 .. w -> Stored(info, s)]
  BY <1>1 DEF Upto, Stored
<1>3. Upto(info, s, w) \in Seq(Stored(info, s))
  BY <1>2, SeqDef
<1>4. Len(Upto(info, s, w)) \in Nat /\ 1 .. Len(Upto(info, s, w)) = 1 .. w
  BY <1>2, <1>3, LenProperties
<1>5. Len(Upto(info, s, w)) = w
  BY <1>4
<1>6. \A i \in 1 .. w : Upto(info, s, w)[i] = Rebuilt(info, s)[i]
  BY DEF Upto
<1>7. Upto(info, s, w) = <<>> <=> w = 0
  BY <1>3, <1>5, EmptySeq
<1> QED
  BY <1>3, <1>5, <1>6, <1>7

(* The whole of it. *)
LEMMA RebuiltIsASeq ==
  ASSUME NEW info, IsFile(info), NEW s
  PROVE  /\ Rebuilt(info, s) \in Seq(Stored(info, s)) /\ Len(Rebuilt(info, s)) = info.size
         /\ Rebuilt(info, s) = Upto(info, s, info.size)
<1>1. info.size \in Nat /\ info.size <= info.size
  BY ReachGrows
<1>2. Rebuilt(info, s) = Upto(info, s, info.size)
  BY DEF Rebuilt, Upto
<1> QED
  BY <1>1, <1>2, UptoIsASeq

(* What is placed up to a position is a prefix of what the file is meant to be. *)
LEMMA UptoIsPrefix ==
  ASSUME NEW info, IsFile(info), NEW s, NEW w \in Nat, w <= info.size
  PROVE  IsPrefix(Upto(info, s, w), Rebuilt(info, s))
<1>1. PICK a : a = Upto(info, s, w)
  OBVIOUS
<1>2. PICK b : b = Rebuilt(info, s)
  OBVIOUS
<1>3. PICK S : S = Stored(info, s)
  OBVIOUS
<1>4. a \in Seq(S) /\ Len(a) = w /\ \A i \in 1 .. w : a[i] = b[i]
  BY <1>1, <1>2, <1>3, UptoIsASeq
<1>5. b \in Seq(S) /\ Len(b) = info.size /\ info.size \in Nat
  BY <1>2, <1>3, RebuiltIsASeq, ReachGrows
<1>6. PICK c : c = SubSeq(a, 1, w)
  OBVIOUS
<1>7. PICK d : d = SubSeq(b, 1, w)
  OBVIOUS
<1>8. /\ c \in Seq(S) /\ Len(c) = w /\ \A i \in 1 .. w : c[i] = a[i]
  <2>1. \A i \in 1 .. w : a[i] \in S
    BY <1>4, ElementOfSeq
  <2>2. /\ c \in Seq(S) /\ Len(c) = (IF 1 <= w THEN w - 1 + 1 ELSE 0)
        /\ \A i \in 1 .. w - 1 + 1 : c[i] = a[1 + i - 1]
    BY <1>4, <1>6, <2>1, SubSeqProperties, 1 \in Int, w \in Int
  <2>3. w - 1 + 1 = w /\ \A i \in 1 .. w : 1 + i - 1 = i
    OBVIOUS
  <2> QED
    BY <2>2, <2>3
<1>9. /\ d \in Seq(S) /\ Len(d) = w /\ \A i \in 1 .. w : d[i] = b[i]
  <2>1. \A i \in 1 .. w : b[i] \in S
    BY <1>5, ElementOfSeq
  <2>2. /\ d \in Seq(S) /\ Len(d) = (IF 1 <= w THEN w - 1 + 1 ELSE 0)
        /\ \A i \in 1 .. w - 1 + 1 : d[i] = b[1 + i - 1]
    BY <1>5, <1>7, <2>1, SubSeqProperties, 1 \in Int, w \in Int
  <2>3. w - 1 + 1 = w /\ \A i \in 1 .. w : 1 + i - 1 = i
    OBVIOUS
  <2> QED
    BY <2>2, <2>3
<1>10. c = d
  BY <1>4, <1>8, <1>9, SeqEqual
<1> QED
  BY <1>1, <1>2, <1>4, <1>5, <1>6, <1>7, <1>10 DEF IsPrefix

(* The header goes in as it is.                                                *)
LEMMA HeaderPlaced ==
  ASSUME NEW info, IsFile(info), NEW s
  PROVE  [i \in 1 .. HeaderSize |-> Plain(HeaderUnits(s)[i])] = Upto(info, s, HeaderSize)
<1>1. HeaderSize \in Nat /\ info.size \in Nat /\ HeaderSize < info.size /\ 0 \in Int
  BY ReachGrows, DecoderAssumption
<1>2. ASSUME NEW i \in 1 .. HeaderSize PROVE Rebuilt(info, s)[i] = Plain(HeaderUnits(s)[i])
  <2>1. PICK p \in Nat : p = i - 1
    BY <1>1
  <2>2. p + 1 = i /\ p < HeaderSize /\ p < info.size /\ 0 + i - 1 = p
    BY <1>1, <2>1
  <2>3. HeaderUnits(s)[i] = <<s, 0 + i - 1>>
    BY <1>1, UnitsAreASeq DEF HeaderUnits
  <2>4. Rebuilt(info, s)[p + 1] = Plain(<<s, p>>)
    BY <2>2, RebuiltUnit
  <2> QED
    BY <2>2, <2>3, <2>4
<1> QED
  BY <1>2 DEF Upto

(* What is placed grows by what is decoded and encrypted.                      *)
LEMMA PlacesOn ==
  ASSUME NEW info, IsFile(info), NEW s, NEW w \in Nat, HeaderSize <= w, NEW n \in Nat, w + n <= info.size
  PROVE  Behind(Upto(info, s, w), Reencrypt(info, w, Units(s, w, n))) = Upto(info, s, w + n)
<1>1. PICK a : a = Upto(info, s, w)
  OBVIOUS
<1>2. PICK b : b = Reencrypt(info, w, Units(s, w, n))
  OBVIOUS
<1>3. PICK c : c = Upto(info, s, w + n)
  OBVIOUS
<1>4. PICK S : S = Stored(info, s)
  OBVIOUS
<1>5. PICK f : f = Rebuilt(info, s)
  OBVIOUS
<1>6. info.size \in Nat /\ w <= info.size /\ w + n \in Nat
  BY ReachGrows
<1>7. a \in Seq(S) /\ Len(a) = w /\ \A i \in 1 .. w : a[i] = f[i]
  BY <1>1, <1>4, <1>5, <1>6, UptoIsASeq
<1>8. c \in Seq(S) /\ Len(c) = w + n /\ \A i \in 1 .. w + n : c[i] = f[i]
  BY <1>3, <1>4, <1>5, <1>6, UptoIsASeq
<1>9. \A k \in 1 .. n : b[k] = f[w + k] /\ f[w + k] \in S
  <2> SUFFICES ASSUME NEW k \in 1 .. n PROVE b[k] = f[w + k] /\ f[w + k] \in S
    OBVIOUS
  <2>1. b[k] = f[w + k]
    BY <1>2, <1>5, ReencryptsInPlace
  <2>2. w + k \in 1 .. info.size
    BY <1>6
  <2>3. f[w + k] \in S
    BY <1>4, <1>5, <2>2 DEF Stored
  <2> QED
    BY <2>1, <2>3
<1>10. b \in Seq(S) /\ Len(b) = n
  <2>1. PICK u : u = Units(s, w, n)
    OBVIOUS
  <2>2. Len(u) = n
    BY <2>1, UnitsAreASeq, w \in Int
  <2>3. b = [k \in 1 .. n |-> b[k]]
    BY <1>2, <2>1, <2>2 DEF Reencrypt
  <2>4. b \in [1 .. n -> S]
    BY <1>9, <2>3
  <2>5. b \in Seq(S)
    BY <2>4, SeqDef
  <2>6. Len(b) \in Nat /\ 1 .. Len(b) = 1 .. n
    BY <2>4, <2>5, LenProperties
  <2> QED
    BY <2>5, <2>6
<1>11. PICK d : d = a \o b
  OBVIOUS
<1>12. /\ d \in Seq(S) /\ Len(d) = w + n
       /\ \A k \in 1 .. w + n : d[k] = IF k <= w THEN a[k] ELSE b[k - w]
  BY <1>7, <1>10, <1>11, ConcatProperties
<1>13. ASSUME NEW k \in 1 .. w + n PROVE d[k] = c[k]
  <2>1. CASE k <= w
    <3>1. k \in 1 .. w
      BY <2>1
    <3> QED
      BY <1>7, <1>8, <1>12, <2>1, <3>1
  <2>2. CASE ~(k <= w)
    <3>1. PICK j \in 1 .. n : j = k - w
      BY <2>2
    <3>2. w + j = k
      BY <3>1
    <3>3. d[k] = b[j] /\ b[j] = f[w + j]
      BY <1>9, <1>12, <2>2, <3>1
    <3> QED
      BY <1>8, <3>2, <3>3
  <2> QED
    BY <2>1, <2>2
<1>14. d = c
  BY <1>8, <1>12, <1>13, SeqEqual
<1> QED
  BY <1>1, <1>2, <1>3, <1>11, <1>14 DEF Behind

-----------------------------------------------------------------------------
(* What goes into a decoder and what comes out. *)
Rebased(d, u, b2) == [d EXCEPT !.decoded = u, !.base = b2]
RebaseOf(d, s, u, b2) ==
  /\ b2 \in Nat /\ d.base <= b2 /\ b2 <= d.end
  /\ u = Units(s, b2, d.end - b2)

Supplied(d, u, r2) == [d EXCEPT !.next = u, !.payloadRead = r2]
SupplyOf(d, s, info, c, u, r2) ==
  /\ r2 \in Nat /\ d.payloadRead <= r2 /\ r2 <= info.payload
  /\ u = Units(s, c + 1, r2 - c)

SameCourse(a, d) == a.started = d.started /\ a.end = d.end /\ a.block = d.block

(* Decoded units leave a decoder at the front. *)
LEMMA RebasedGoesOn ==
  ASSUME NEW d, NEW s, NEW info, NEW c, OnCourse(d, s, info, c), NEW u, NEW b2, RebaseOf(d, s, u, b2)
  PROVE  LET a == Rebased(d, u, b2)
         IN /\ OnCourse(a, s, info, c) /\ SameCourse(a, d)
            /\ a.base = b2 /\ a.payloadRead = d.payloadRead /\ a.exhausted = d.exhausted
<1>1. PICK read, exhausted, started, base, end, block, consumed, produced :
        /\ read = d.payloadRead /\ exhausted = d.exhausted /\ started = d.started /\ base = d.base
        /\ end = d.end /\ block = d.block /\ consumed = d.consumed /\ produced = d.produced
  OBVIOUS
<1>2. /\ d = Dec(s, info, c, read, exhausted, started, base, end, block, consumed, produced)
      /\ Kept(info, c, read, exhausted, started, base, end, block, consumed, produced)
  BY <1>1 DEF OnCourse
<1>3. PICK u0, v0, no, d0 : u0 = Units(s, c + 1, read - c) /\ v0 = Units(s, base, end - base)
                            /\ no = FALSE /\ d0 = d
  OBVIOUS
<1>4. d0 = Fields(s, info, u0, read, exhausted, started, v0, base, end, block, consumed, produced, no)
  BY <1>2, <1>3 DEF Dec
<1>5. PICK d1 : d1 = [d0 EXCEPT !.decoded = u]
  OBVIOUS
<1>6. PICK d2 : d2 = [d1 EXCEPT !.base = b2]
  OBVIOUS
<1>7. d1 = Fields(s, info, u0, read, exhausted, started, u, base, end, block, consumed, produced, no)
  BY <1>4, <1>5 DEF Fields
<1>8. d2 = Fields(s, info, u0, read, exhausted, started, u, b2, end, block, consumed, produced, no)
  BY <1>6, <1>7 DEF Fields
<1>9. Rebased(d, u, b2) = d2
  BY <1>3, <1>5, <1>6 DEF Rebased
<1>10. u = Units(s, b2, end - b2)
  BY <1>1 DEF RebaseOf
<1>11. d2 = Dec(s, info, c, read, exhausted, started, b2, end, block, consumed, produced)
  BY <1>3, <1>8, <1>10 DEF Dec
<1>12. Kept(info, c, read, exhausted, started, b2, end, block, consumed, produced)
  <2>1. b2 \in Nat /\ base <= b2 /\ b2 <= end
    BY <1>1 DEF RebaseOf
  <2> QED
    BY <1>2, <2>1, DecoderAssumption DEF Kept
<1>13. OnCourse(d2, s, info, c)
  BY <1>11, <1>12, OnCourseMade
<1>14. /\ d2.payloadRead = read /\ d2.exhausted = exhausted /\ d2.started = started
       /\ d2.base = b2 /\ d2.end = end /\ d2.block = block
  BY <1>8 DEF Fields
<1> QED
  BY <1>1, <1>9, <1>13, <1>14 DEF SameCourse

(* Payload comes to a decoder at the back. *)
LEMMA SuppliedGoesOn ==
  ASSUME NEW d, NEW s, NEW info, NEW c \in Nat, OnCourse(d, s, info, c), NEW u, NEW r2,
         SupplyOf(d, s, info, c, u, r2)
  PROVE  LET a == Supplied(d, u, r2)
         IN /\ OnCourse(a, s, info, c) /\ SameCourse(a, d)
            /\ a.base = d.base /\ a.payloadRead = r2 /\ a.exhausted = d.exhausted
<1>1. PICK read, exhausted, started, base, end, block, consumed, produced :
        /\ read = d.payloadRead /\ exhausted = d.exhausted /\ started = d.started /\ base = d.base
        /\ end = d.end /\ block = d.block /\ consumed = d.consumed /\ produced = d.produced
  OBVIOUS
<1>2. /\ d = Dec(s, info, c, read, exhausted, started, base, end, block, consumed, produced)
      /\ Kept(info, c, read, exhausted, started, base, end, block, consumed, produced)
  BY <1>1 DEF OnCourse
<1>3. PICK u0, v0, no, d0 : u0 = Units(s, c + 1, read - c) /\ v0 = Units(s, base, end - base)
                            /\ no = FALSE /\ d0 = d
  OBVIOUS
<1>4. d0 = Fields(s, info, u0, read, exhausted, started, v0, base, end, block, consumed, produced, no)
  BY <1>2, <1>3 DEF Dec
<1>5. PICK d1 : d1 = [d0 EXCEPT !.next = u]
  OBVIOUS
<1>6. PICK d2 : d2 = [d1 EXCEPT !.payloadRead = r2]
  OBVIOUS
<1>7. d1 = Fields(s, info, u, read, exhausted, started, v0, base, end, block, consumed, produced, no)
  BY <1>4, <1>5 DEF Fields
<1>8. d2 = Fields(s, info, u, r2, exhausted, started, v0, base, end, block, consumed, produced, no)
  BY <1>6, <1>7 DEF Fields
<1>9. Supplied(d, u, r2) = d2
  BY <1>3, <1>5, <1>6 DEF Supplied
<1>10. u = Units(s, c + 1, r2 - c)
  BY DEF SupplyOf
<1>11. d2 = Dec(s, info, c, r2, exhausted, started, base, end, block, consumed, produced)
  BY <1>3, <1>8, <1>10 DEF Dec
<1>12. Kept(info, c, r2, exhausted, started, base, end, block, consumed, produced)
  <2>1. r2 \in Nat /\ read <= r2 /\ r2 <= info.payload
    BY <1>1 DEF SupplyOf
  <2>2. read \in Nat /\ c <= read
    BY <1>2 DEF Kept
  <2>3. c <= r2
    BY <2>1, <2>2
  <2> QED
    BY <1>2, <2>1, <2>3 DEF Kept
<1>13. OnCourse(d2, s, info, c)
  BY <1>11, <1>12, OnCourseMade
<1>14. /\ d2.payloadRead = r2 /\ d2.exhausted = exhausted /\ d2.started = started
       /\ d2.base = base /\ d2.end = end /\ d2.block = block
  BY <1>8 DEF Fields
<1> QED
  BY <1>1, <1>9, <1>13, <1>14 DEF SameCourse

(* Nothing left of the payload in hand: all that was read is decoded.          *)
LEMMA NothingLeft ==
  ASSUME NEW d, NEW s, NEW info, NEW c \in Nat, OnCourse(d, s, info, c)
  PROVE  /\ d.next = <<>> <=> c = d.payloadRead
         /\ d.payloadRead \in Nat /\ c <= d.payloadRead
<1>1. d.payloadRead \in Nat /\ c <= d.payloadRead
  BY DEF OnCourse, Kept
<1>2. PICK n \in Nat : n = d.payloadRead - c
  BY <1>1
<1>3. d.next = Units(s, c + 1, n)
  BY <1>2, OnCourseFields
<1>4. Units(s, c + 1, n) = <<>> <=> n = 0
  <2>1. c + 1 \in Int
    OBVIOUS
  <2> QED
    BY <2>1, EmptyUnits
<1> QED
  BY <1>1, <1>2, <1>3, <1>4

(* What the writer takes of what is decoded. *)
LEMMA UnitsAreTaken ==
  ASSUME NEW d, NEW s, NEW info, NEW c, OnCourse(d, s, info, c),
         NEW size \in Nat, size > 0, d.base + size <= d.end
  PROVE  LET t == TakeUnits(d, d.base, size)
         IN /\ t.units = Units(s, d.base, size)
            /\ OnCourse(t.d, s, info, c) /\ SameCourse(t.d, d)
            /\ t.d.base = d.base + size
            /\ t.d.payloadRead = d.payloadRead /\ t.d.exhausted = d.exhausted
<1>1. PICK base \in Nat : base = d.base
  BY DEF OnCourse, Kept
<1>2. PICK end \in Nat : end = d.end
  BY DEF OnCourse, Kept
<1>3. base <= end
  BY <1>1, <1>2 DEF OnCourse, Kept
<1>4. PICK n \in Nat : n = end - base
  BY <1>3
<1>5. size <= n /\ end > base
  BY <1>1, <1>2, <1>3, <1>4
<1>6. PICK v : v = Units(s, base, n)
  OBVIOUS
<1>7. d.decoded = v /\ Len(v) = n
  BY <1>1, <1>2, <1>4, <1>6, OnCourseFields, UnitsAreASeq, base \in Int
<1>8. PICK t : t = TakeUnits(d, base, size)
  OBVIOUS
<1>9. PICK rest : rest = Part(v, size + 1, n)
  OBVIOUS
<1>10. t = [units |-> Part(v, 1, size), d |-> Rebased(d, rest, base + size)]
  <2>1. base - d.base = 0 /\ 0 + 1 = 1 /\ 0 + size = size /\ 0 + size + 1 = size + 1
    BY <1>1
  <2>2. PICK available \in Nat : available = IF end > base THEN end - base ELSE 0
    BY <1>4, <1>5
  <2>3. available = n /\ (IF size < available THEN size ELSE available) = size
    BY <1>4, <1>5, <2>2
  <2>4. PICK take \in Nat : take = IF size < available THEN size ELSE available
    BY <2>3
  <2>5. take = size /\ take # 0
    BY <2>3, <2>4
  <2>6. PICK start : start = base - d.base
    OBVIOUS
  <2>7. t = [units |-> Part(d.decoded, start + 1, start + take),
             d |-> IF take = 0 THEN d
                   ELSE Rebased(d, Part(d.decoded, start + take + 1, Len(d.decoded)), base + take)]
    BY <1>2, <1>8, <2>2, <2>4, <2>6 DEF TakeUnits, Part, Rebased
  <2>8. start = 0
    BY <2>1, <2>6
  <2>9. start + 1 = 1 /\ start + take = size /\ start + take + 1 = size + 1 /\ base + take = base + size
    BY <2>5, <2>8
  <2> QED
    BY <1>7, <1>9, <2>5, <2>7, <2>9
<1>11. Part(v, 1, size) = Units(s, base, size)
  <2>1. Part(Units(s, base, n), 1, size) = Units(s, base + 1 - 1, size - 1 + 1)
    <3>1. base \in Int /\ 1 \in Nat \ {0} /\ 1 <= size + 1 /\ size <= n
      BY <1>5
    <3> QED
      BY <3>1, UnitsPart
  <2>2. base + 1 - 1 = base /\ size - 1 + 1 = size
    OBVIOUS
  <2> QED
    BY <1>6, <2>1, <2>2
<1>12. RebaseOf(d, s, rest, base + size)
  <2>1. Part(Units(s, base, n), size + 1, n) = Units(s, base + (size + 1) - 1, n - (size + 1) + 1)
    <3>1. base \in Int /\ size + 1 \in Nat \ {0} /\ size + 1 <= n + 1 /\ n <= n
      BY <1>5
    <3> QED
      BY <3>1, UnitsPart
  <2>2. base + (size + 1) - 1 = base + size /\ n - (size + 1) + 1 = end - (base + size)
    BY <1>4
  <2>3. rest = Units(s, base + size, d.end - (base + size))
    BY <1>2, <1>6, <1>9, <2>1, <2>2
  <2>4. base + size \in Nat /\ d.base <= base + size /\ base + size <= d.end
    BY <1>1, <1>2, <1>4, <1>5
  <2> QED
    BY <2>3, <2>4 DEF RebaseOf
<1>13. PICK b2 : b2 = base + size
  OBVIOUS
<1>14. PICK a : a = Rebased(d, rest, b2)
  OBVIOUS
<1>15. /\ OnCourse(a, s, info, c) /\ SameCourse(a, d)
       /\ a.base = b2 /\ a.payloadRead = d.payloadRead /\ a.exhausted = d.exhausted
  <2>1. RebaseOf(d, s, rest, b2)
    BY <1>12, <1>13
  <2> QED
    BY <1>14, <2>1, RebasedGoesOn
<1>16. t.units = Units(s, base, size) /\ t.d = a
  BY <1>10, <1>11, <1>13, <1>14
<1> QED
  BY <1>1, <1>8, <1>13, <1>15, <1>16

(* The next chunk, behind nothing. *)
LEMMA RefillGoesOn ==
  ASSUME NEW info, IsFile(info), NEW d, NEW s, NEW c \in Nat, OnCourse(d, s, info, c),
         d.next = <<>>, d.payloadRead # info.payload
  PROVE  LET a == Refilled(d)
         IN /\ OnCourse(a, s, info, c) /\ SameCourse(a, d) /\ c < a.payloadRead
            /\ a.base = d.base /\ a.exhausted = d.exhausted
<1>1. /\ c = d.payloadRead /\ d.payloadRead \in Nat
  BY NothingLeft
<1>2. info.payload \in Nat /\ ChunkSize \in Nat /\ ChunkSize > 0
  BY ReachGrows, DecoderAssumption
<1>3. d.payloadRead <= info.payload /\ d.info = info /\ d.stream = s
  <2>1. d.info = info /\ d.stream = s
    BY OnCourseFields
  <2> QED
    BY <2>1 DEF OnCourse, Kept
<1>4. PICK left \in Nat : left = info.payload - d.payloadRead
  BY <1>1, <1>2, <1>3
<1>5. PICK chunk \in Nat : chunk = IF left < ChunkSize THEN left ELSE ChunkSize
  BY <1>2
<1>6. chunk > 0 /\ d.payloadRead + chunk <= info.payload
  BY <1>1, <1>2, <1>3, <1>4, <1>5
<1>7. PICK r2 \in Nat : r2 = d.payloadRead + chunk
  BY <1>1
<1>8. PICK u : u = Units(s, d.payloadRead + 1, chunk)
  OBVIOUS
<1>9. Refilled(d) = Supplied(d, u, r2)
  BY <1>3, <1>4, <1>5, <1>7, <1>8 DEF Refilled, Supplied, PayloadSize
<1>10. SupplyOf(d, s, info, c, u, r2)
  <2>1. r2 - c = chunk
    BY <1>1, <1>7
  <2>2. u = Units(s, c + 1, r2 - c)
    BY <1>1, <1>8, <2>1
  <2>3. d.payloadRead <= r2 /\ r2 <= info.payload
    BY <1>1, <1>6, <1>7
  <2> QED
    BY <2>2, <2>3 DEF SupplyOf
<1>11. c < r2
  BY <1>1, <1>6, <1>7
<1> QED
  BY <1>9, <1>10, <1>11, SuppliedGoesOn

(* A piece's units, behind nothing. *)
LEMMA FeedGoesOn ==
  ASSUME NEW info, IsFile(info), NEW d, NEW s, NEW c \in Nat, OnCourse(d, s, info, c), c = d.payloadRead,
         NEW n \in Nat, NEW r2, r2 = d.payloadRead + n, r2 <= info.payload,
         NEW u, u = Units(s, d.payloadRead + 1, n)
  PROVE  LET a == Fed(d, u)
         IN /\ OnCourse(a, s, info, c) /\ SameCourse(a, d) /\ a.payloadRead = r2
            /\ a.base = d.base /\ a.exhausted = d.exhausted
<1>1. d.next = <<>> /\ d.payloadRead \in Nat
  BY NothingLeft
<1>2. u \in Seq(Place(s)) /\ Len(u) = n
  BY <1>1, UnitsAreASeq, d.payloadRead + 1 \in Int
<1>3. <<>> \o u = u
  BY <1>2, ConcatEmptySeq
<1>4. Fed(d, u) = Supplied(d, u, r2)
  BY <1>1, <1>2, <1>3 DEF Fed, Supplied
<1>5. SupplyOf(d, s, info, c, u, r2)
  <2>1. r2 \in Nat /\ r2 - c = n /\ d.payloadRead <= r2
    BY <1>1
  <2>2. u = Units(s, c + 1, r2 - c)
    BY <2>1
  <2> QED
    BY <2>1, <2>2 DEF SupplyOf
<1> QED
  BY <1>4, <1>5, SuppliedGoesOn

(* What is decoded is written and forgotten. *)
LEMMA ConsumeGoesOn ==
  ASSUME NEW info, IsFile(info), NEW d, NEW s, NEW c \in Nat, OnCourse(d, s, info, c), d.end <= info.size
  PROVE  /\ WriteDecoded(d, d.base) = Reencrypt(info, d.base, Units(s, d.base, d.end - d.base))
         /\ LET a == Consumed(d)
            IN /\ OnCourse(a, s, info, c) /\ SameCourse(a, d) /\ a.payloadRead = d.payloadRead
               /\ a.base = d.end /\ a.exhausted = d.exhausted
<1>1. PICK base \in Nat : base = d.base
  BY DEF OnCourse, Kept
<1>2. PICK end \in Nat : end = d.end
  BY DEF OnCourse, Kept
<1>3. base <= end /\ info.size \in Nat /\ end <= info.size
  BY <1>1, <1>2, ReachGrows DEF OnCourse, Kept
<1>4. PICK n \in Nat : n = end - base
  BY <1>3
<1>5. PICK v : v = Units(s, base, n)
  OBVIOUS
<1>6. d.decoded = v /\ Len(v) = n /\ v \in Seq(Place(s)) /\ d.info = info
  BY <1>1, <1>2, <1>4, <1>5, OnCourseFields, UnitsAreASeq, base \in Int
<1>7. WriteDecoded(d, base) = Reencrypt(info, base, v)
  <2>1. PICK remaining \in Nat : remaining = IF info.size > base THEN info.size - base ELSE 0
    BY <1>3
  <2>2. n <= remaining
    BY <1>3, <1>4, <2>1
  <2>3. PICK take \in Nat : take = IF n < remaining THEN n ELSE remaining
    BY <2>2
  <2>4. take = n
    BY <2>2, <2>3
  <2>5. WriteDecoded(d, base) = Reencrypt(info, base, Part(v, 1, take))
    BY <1>6, <2>1, <2>3 DEF WriteDecoded, Part
  <2>6. Part(Units(s, base, n), 1, n) = Units(s, base + 1 - 1, n - 1 + 1)
    <3>1. base \in Int /\ 1 \in Nat \ {0} /\ 1 <= n + 1 /\ n <= n
      OBVIOUS
    <3> QED
      BY <3>1, UnitsPart
  <2>7. base + 1 - 1 = base /\ n - 1 + 1 = n
    OBVIOUS
  <2> QED
    BY <1>5, <2>4, <2>5, <2>6, <2>7
<1>8. Consumed(d) = Rebased(d, <<>>, end)
  <2>1. d.base + Len(d.decoded) = end
    BY <1>1, <1>4, <1>6
  <2> QED
    BY <2>1 DEF Consumed, Rebased
<1>9. RebaseOf(d, s, <<>>, end)
  <2>1. d.end - end = 0 /\ end \in Int
    BY <1>2
  <2>2. Units(s, end, 0) = <<>>
    BY <2>1, NoUnits
  <2>3. d.base <= end /\ end <= d.end
    BY <1>1, <1>2, <1>3
  <2> QED
    BY <2>1, <2>2, <2>3 DEF RebaseOf
<1> QED
  BY <1>1, <1>2, <1>4, <1>5, <1>7, <1>8, <1>9, RebasedGoesOn

-----------------------------------------------------------------------------
(* The pieces a package is read in. *)
(* What the first m chunks of a payload are in all. *)
ReadBy(info, m) == IF m * ChunkSize < info.payload THEN m * ChunkSize ELSE info.payload

(* The chunks of a payload cover it, and the last one is needed. *)
LEMMA ChunksCover ==
  ASSUME NEW info, IsFile(info)
  PROVE  /\ Chunks(info) \in Nat \ {0}
         /\ info.payload <= Chunks(info) * ChunkSize
         /\ (Chunks(info) - 1) * ChunkSize < info.payload
<1>1. info.payload \in Nat \ {0} /\ ChunkSize \in Nat \ {0} /\ info.payload \in Int
  BY DecoderAssumption DEF IsFile
<1>2. PICK size \in Nat \ {0} : size = ChunkSize
  BY <1>1
<1>3. PICK x \in Nat : x = info.payload + size - 1
  BY <1>1, <1>2
<1>4. PICK n : n = x \div size
  OBVIOUS
<1>5. n \in Int /\ size * n <= x /\ x < size * n + size
  <2>1. x \in Int /\ size \in Int /\ size > 0
    OBVIOUS
  <2> QED
    BY <1>4, <2>1
<1>6. Chunks(info) = n
  BY <1>2, <1>3, <1>4 DEF Chunks, PayloadSize
<1>7. PICK y \in Int : y = size * n
  BY <1>5
<1>8. n * size = y /\ (n - 1) * size = y - size
  BY <1>5, <1>7
<1>9. y >= info.payload /\ y - size < info.payload
  BY <1>1, <1>3, <1>5, <1>7
<1>10. n > 0
  <2> SUFFICES ASSUME n <= 0 PROVE FALSE
    BY <1>5
  <2>1. y <= 0
    BY <1>5, <1>7
  <2> QED
    BY <1>1, <1>9, <2>1
<1> QED
  BY <1>2, <1>5, <1>6, <1>8, <1>9, <1>10

(* The n-th chunk goes on where the last one ended. *)
LEMMA ChunkIsNext ==
  ASSUME NEW info, IsFile(info), NEW s, NEW n \in 1 .. Chunks(info)
  PROVE  /\ ReadBy(info, n - 1) \in Nat /\ ReadBy(info, n) \in Nat /\ ReadBy(info, n) <= info.payload
         /\ ReadBy(info, n - 1) < ReadBy(info, n)
         /\ PayloadUnits(s, info, n) = Units(s, ReadBy(info, n - 1) + 1, ReadBy(info, n) - ReadBy(info, n - 1))
<1>1. info.payload \in Nat \ {0} /\ ChunkSize \in Nat \ {0}
  BY DecoderAssumption DEF IsFile
<1>2. PICK size \in Nat \ {0} : size = ChunkSize
  BY <1>1
<1>3. PICK top \in Nat \ {0} : top = Chunks(info) /\ (top - 1) * size < info.payload
  BY <1>2, ChunksCover
<1>4. n \in Nat \ {0} /\ n <= top
  BY <1>3
<1>5. PICK x \in Nat : x = (n - 1) * size
  BY <1>4
<1>6. n * size = x + size
  BY <1>4, <1>5
<1>7. x < info.payload
  <2>1. n - 1 <= top - 1 /\ n - 1 \in Nat /\ top - 1 \in Nat
    BY <1>4
  <2>2. (n - 1) * size <= (top - 1) * size
    BY <2>1
  <2>3. (top - 1) * size \in Nat
    BY <2>1
  <2> QED
    BY <1>1, <1>3, <1>5, <2>2, <2>3
<1>8. PICK m \in Nat : m = (IF info.payload - x < size THEN info.payload - x ELSE size)
  BY <1>1, <1>7
<1>9. ReadBy(info, n - 1) = x /\ ReadBy(info, n) = x + m
  BY <1>1, <1>2, <1>5, <1>6, <1>7, <1>8 DEF ReadBy
<1>10. m > 0 /\ x + m <= info.payload /\ x + m - x = m
  BY <1>1, <1>7, <1>8
<1>11. PayloadUnits(s, info, n) = Units(s, x + 1, m)
  BY <1>2, <1>5, <1>8 DEF PayloadUnits, PayloadSize
<1> QED
  BY <1>9, <1>10, <1>11

(* All chunks are the payload. *)
LEMMA AllIsRead ==
  ASSUME NEW info, IsFile(info)
  PROVE  ReadBy(info, Chunks(info)) = info.payload /\ ReadBy(info, 0) = 0
<1>1. /\ info.payload \in Nat \ {0} /\ ChunkSize \in Nat \ {0}
      /\ Chunks(info) \in Nat /\ info.payload <= Chunks(info) * ChunkSize
  BY DecoderAssumption, ChunksCover DEF IsFile
<1>2. PICK y \in Nat : y = Chunks(info) * ChunkSize
  BY <1>1
<1>3. 0 * ChunkSize = 0
  BY <1>1
<1> QED
  BY <1>1, <1>2, <1>3 DEF ReadBy

HeaderPiece(s) == [stream |-> s, payload |-> FALSE, units |-> HeaderUnits(s)]
PayloadPiece(s, units) == [stream |-> s, payload |-> TRUE, units |-> units]

(* A concatenation's elements, where each lies. *)
LEMMA Joined ==
  ASSUME NEW A, NEW u \in Seq(A), NEW v \in Seq(A)
  PROVE  /\ u \o v \in Seq(A) /\ Len(u \o v) = Len(u) + Len(v)
         /\ Len(u) \in Nat /\ Len(v) \in Nat
         /\ \A i \in 1 .. Len(u) : (u \o v)[i] = u[i]
         /\ \A i \in 1 .. Len(v) : (u \o v)[Len(u) + i] = v[i]
<1>1. Len(u) \in Nat /\ Len(v) \in Nat
  BY LenProperties
<1>2. /\ u \o v \in Seq(A) /\ Len(u \o v) = Len(u) + Len(v)
      /\ \A k \in 1 .. Len(u) + Len(v) : (u \o v)[k] = IF k <= Len(u) THEN u[k] ELSE v[k - Len(u)]
  BY ConcatProperties
<1>a. PICK m \in Nat : m = Len(u)
  BY <1>1
<1>b. PICK n \in Nat : n = Len(v)
  BY <1>1
<1>3. PICK w : w = u \o v
  OBVIOUS
<1>4. \A k \in 1 .. m + n : w[k] = IF k <= m THEN u[k] ELSE v[k - m]
  BY <1>2, <1>3, <1>a, <1>b
<1>5. ASSUME NEW i \in 1 .. m PROVE w[i] = u[i]
  <2>1. i \in 1 .. m + n /\ i <= m
    OBVIOUS
  <2> QED
    BY <1>4, <2>1
<1>6. ASSUME NEW i \in 1 .. n PROVE w[m + i] = v[i]
  <2>1. m + i \in 1 .. m + n /\ ~(m + i <= m) /\ m + i - m = i
    OBVIOUS
  <2> QED
    BY <1>4, <2>1
<1> QED
  BY <1>1, <1>2, <1>3, <1>5, <1>6, <1>a, <1>b

(* The pieces of one entry: its header, and the chunks of its payload.          *)
LEMMA EntryPieces ==
  ASSUME NEW info, IsFile(info), NEW s
  PROVE  /\ \E A : RangesOf(s, info) \in Seq(A)
         /\ Len(RangesOf(s, info)) = 1 + Chunks(info)
         /\ RangesOf(s, info)[1] = HeaderPiece(s)
         /\ \A n \in 1 .. Chunks(info) : RangesOf(s, info)[1 + n] = PayloadPiece(s, PayloadUnits(s, info, n))
<1>1. PICK m \in Nat : m = Chunks(info)
  BY ChunksCover
<1>2. PICK v : v = [n \in 1 .. m |-> PayloadPiece(s, PayloadUnits(s, info, n))]
  OBVIOUS
<1>3. PICK A : A = {HeaderPiece(s)} \cup {v[n] : n \in 1 .. m}
  OBVIOUS
<1>4. PICK u : u = <<HeaderPiece(s)>>
  OBVIOUS
<1>5. u \in Seq(A) /\ Len(u) = 1 /\ u[1] = HeaderPiece(s)
  <2>1. HeaderPiece(s) \in A
    BY <1>3
  <2>2. PICK h : h = HeaderPiece(s)
    OBVIOUS
  <2> QED
    BY <1>4, <2>1, <2>2
<1>6. v \in Seq(A) /\ Len(v) = m /\ \A n \in 1 .. m : v[n] = PayloadPiece(s, PayloadUnits(s, info, n))
  <2>1. v \in [1 .. m -> A]
    BY <1>2, <1>3
  <2>2. v \in Seq(A)
    BY <2>1, SeqDef
  <2>3. Len(v) \in Nat /\ 1 .. Len(v) = 1 .. m
    BY <2>1, <2>2, LenProperties
  <2>4. Len(v) = m
    BY <2>3
  <2> QED
    BY <1>2, <2>2, <2>4
<1>7. RangesOf(s, info) = Behind(u, v)
  BY <1>1, <1>2, <1>4 DEF RangesOf, Behind, HeaderPiece, PayloadPiece
<1>8. /\ Behind(u, v) \in Seq(A) /\ Len(Behind(u, v)) = Len(u) + Len(v)
      /\ \A i \in 1 .. Len(u) : Behind(u, v)[i] = u[i]
      /\ \A i \in 1 .. Len(v) : Behind(u, v)[Len(u) + i] = v[i]
  <2>1. u \in Seq(A) /\ v \in Seq(A)
    BY <1>5, <1>6
  <2> QED
    BY <2>1, Joined DEF Behind
<1>9. 1 \in 1 .. 1
  OBVIOUS
<1>10. PICK w : w = Behind(u, v)
  OBVIOUS
<1>11. w \in Seq(A) /\ Len(w) = 1 + m
  BY <1>5, <1>6, <1>8, <1>10
<1>12. w[1] = u[1]
  BY <1>5, <1>8, <1>9, <1>10
<1>13. \A n \in 1 .. m : w[1 + n] = v[n]
  BY <1>5, <1>6, <1>8, <1>10
<1>14. RangesOf(s, info) = w
  BY <1>7, <1>10
<1> HIDE DEF HeaderPiece, PayloadPiece
<1>15. \A n \in 1 .. m : w[1 + n] = PayloadPiece(s, PayloadUnits(s, info, n))
  BY <1>6, <1>13
<1>16. w[1] = HeaderPiece(s)
  BY <1>5, <1>12
<1> QED
  BY <1>1, <1>11, <1>14, <1>15, <1>16

(* The whole package: one entry's pieces, then the other's.                    *)
First(p, s) == IF s = 1 THEN 0 ELSE 1 + Chunks(p[1])

(* Where each entry's pieces are. *)
LEMMA PackagePieces ==
  ASSUME NEW p \in Packages, NEW s \in 1 .. 2
  PROVE  /\ NumPieces = 2 + Chunks(p[1]) + Chunks(p[2])
         /\ Ranges(p)[First(p, s) + 1] = HeaderPiece(s)
         /\ \A n \in 1 .. Chunks(p[s]) :
              Ranges(p)[First(p, s) + 1 + n] = PayloadPiece(s, PayloadUnits(s, p[s], n))
<1>1. IsFile(p[1]) /\ IsFile(p[2]) /\ Len(Ranges(p)) = NumPieces
  BY FilesAssumption
<1>2. PICK m \in Nat, n \in Nat : m = Chunks(p[1]) /\ n = Chunks(p[2])
  BY <1>1, ChunksCover
<1>3. PICK u, v, w : u = RangesOf(1, p[1]) /\ v = RangesOf(2, p[2]) /\ w = Ranges(p)
  OBVIOUS
<1>4. PICK A : u \in Seq(A)
  BY <1>1, <1>3, EntryPieces
<1>5. PICK B : v \in Seq(B)
  BY <1>1, <1>3, EntryPieces
<1>6. u \in Seq(A \cup B) /\ v \in Seq(A \cup B)
  <2>1. \A x \in 1 .. Len(u) : u[x] \in A \cup B
    BY <1>4, ElementOfSeq
  <2>2. \A x \in 1 .. Len(v) : v[x] \in A \cup B
    BY <1>5, ElementOfSeq
  <2> QED
    BY <1>4, <1>5, <2>1, <2>2, SeqDef, LenProperties
<1>7. w = Behind(u, v)
  BY <1>3 DEF Ranges, Behind
<1>8. PICK C : C = A \cup B
  OBVIOUS
<1>9. /\ Len(w) = Len(u) + Len(v)
      /\ \A i \in 1 .. Len(u) : w[i] = u[i]
      /\ \A i \in 1 .. Len(v) : w[Len(u) + i] = v[i]
  <2>1. u \in Seq(C) /\ v \in Seq(C)
    BY <1>6, <1>8
  <2> QED
    BY <1>7, <2>1, Joined DEF Behind
<1>10. /\ Len(u) = 1 + m /\ u[1] = HeaderPiece(1)
       /\ \A k \in 1 .. m : u[1 + k] = PayloadPiece(1, PayloadUnits(1, p[1], k))
  BY <1>1, <1>2, <1>3, EntryPieces
<1>11. /\ Len(v) = 1 + n /\ v[1] = HeaderPiece(2)
       /\ \A k \in 1 .. n : v[1 + k] = PayloadPiece(2, PayloadUnits(2, p[2], k))
  BY <1>1, <1>2, <1>3, EntryPieces
<1>12. NumPieces = 2 + m + n
  <2>1. NumPieces = Len(w)
    BY <1>1, <1>3
  <2>2. Len(w) = 1 + m + (1 + n)
    BY <1>9, <1>10, <1>11
  <2> QED
    BY <2>1, <2>2
<1>13. CASE s = 1
  <2>1. First(p, s) + 1 = 1 /\ 1 \in 1 .. 1 + m
    BY <1>13 DEF First
  <2>2. w[1] = u[1]
    BY <1>9, <1>10, <2>1
  <2>3. ASSUME NEW k \in 1 .. m PROVE w[First(p, s) + 1 + k] = PayloadPiece(1, PayloadUnits(1, p[1], k))
    <3>1. First(p, s) + 1 + k = 1 + k /\ 1 + k \in 1 .. 1 + m
      BY <2>1
    <3>2. w[1 + k] = u[1 + k]
      BY <1>9, <1>10, <3>1
    <3>3. u[1 + k] = PayloadPiece(1, PayloadUnits(1, p[1], k))
      BY <1>10
    <3> QED
      BY <3>1, <3>2, <3>3
  <2>4. w[First(p, s) + 1] = HeaderPiece(s)
    BY <1>10, <1>13, <2>1, <2>2
  <2> QED
    BY <1>2, <1>3, <1>12, <1>13, <2>3, <2>4
<1>14. CASE s = 2
  <2>1. First(p, s) = 1 + m
    BY <1>2, <1>14 DEF First
  <2>2. \A i \in 1 .. 1 + n : w[1 + m + i] = v[i]
    BY <1>9, <1>10, <1>11
  <2>3. 1 \in 1 .. 1 + n
    OBVIOUS
  <2>4. w[First(p, s) + 1] = HeaderPiece(s)
    BY <1>11, <1>14, <2>1, <2>2, <2>3
  <2>5. ASSUME NEW k \in 1 .. n PROVE w[First(p, s) + 1 + k] = PayloadPiece(2, PayloadUnits(2, p[2], k))
    <3>1. First(p, s) + 1 + k = 1 + m + (1 + k) /\ 1 + k \in 1 .. 1 + n
      BY <2>1
    <3>2. w[1 + m + (1 + k)] = v[1 + k]
      BY <2>2, <3>1
    <3>3. v[1 + k] = PayloadPiece(2, PayloadUnits(2, p[2], k))
      BY <1>11
    <3> QED
      BY <3>1, <3>2, <3>3
  <2> QED
    BY <1>2, <1>3, <1>12, <1>14, <2>4, <2>5
<1> QED
  BY <1>13, <1>14

(* The T-th piece is one of stream s's payload. *)
InPayload(p, s, T) == First(p, s) + 1 < T /\ T <= First(p, s) + 1 + Chunks(p[s])

(* What of stream s's payload the first T pieces hold. *)
ReadAt(p, s, T) ==
  IF T <= First(p, s) + 1 THEN 0
  ELSE IF T >= First(p, s) + 1 + Chunks(p[s]) THEN p[s].payload
  ELSE ReadBy(p[s], T - (First(p, s) + 1))

(* An entry of a package, and how many pieces it has. *)
LEMMA EntryIsFile ==
  ASSUME NEW p \in Packages, NEW s \in 1 .. 2
  PROVE  /\ IsFile(p[s]) /\ First(p, s) \in Nat /\ Chunks(p[s]) \in Nat \ {0}
         /\ First(p, s) + 1 + Chunks(p[s]) <= NumPieces
         /\ p[s].payload \in Nat \ {0}
<1>1. IsFile(p[1]) /\ IsFile(p[2])
  BY FilesAssumption
<1>2. PICK m \in Nat \ {0}, n \in Nat \ {0} : m = Chunks(p[1]) /\ n = Chunks(p[2])
  BY <1>1, ChunksCover
<1>3. NumPieces = 2 + m + n
  BY <1>2, PackagePieces
<1>6. p[1].payload \in Nat \ {0} /\ p[2].payload \in Nat \ {0}
  BY <1>1 DEF IsFile
<1>4. CASE s = 1
  BY <1>1, <1>2, <1>3, <1>4, <1>6 DEF First
<1>5. CASE s = 2
  BY <1>1, <1>2, <1>3, <1>5, <1>6 DEF First
<1> QED
  BY <1>4, <1>5

(* A piece is a header or a chunk of one of the two. *)
LEMMA Kinds ==
  ASSUME NEW p \in Packages, NEW T \in 1 .. NumPieces
  PROVE  \E s \in 1 .. 2 : T = First(p, s) + 1 \/ InPayload(p, s, T)
<1>1. IsFile(p[1]) /\ IsFile(p[2])
  BY FilesAssumption
<1>2. PICK m \in Nat \ {0}, n \in Nat \ {0} : m = Chunks(p[1]) /\ n = Chunks(p[2])
  BY <1>1, ChunksCover
<1>3. NumPieces = 2 + m + n
  BY <1>2, PackagePieces
<1>4. First(p, 1) = 0 /\ First(p, 2) = 1 + m
  BY <1>2 DEF First
<1>5. CASE T <= 1 + m
  <2>1. T = First(p, 1) + 1 \/ InPayload(p, 1, T)
    BY <1>2, <1>4, <1>5 DEF InPayload
  <2> QED
    BY <2>1
<1>6. CASE T > 1 + m
  <2>1. T = First(p, 2) + 1 \/ InPayload(p, 2, T)
    BY <1>2, <1>3, <1>4, <1>6 DEF InPayload
  <2> QED
    BY <2>1
<1> QED
  BY <1>5, <1>6

(* ... and of one only; the first entry is read out before the second is begun. *)
LEMMA OnlyOne ==
  ASSUME NEW p \in Packages, NEW T \in 1 .. NumPieces, NEW s \in 1 .. 2, NEW t \in 1 .. 2, s # t,
         T = First(p, s) + 1 \/ InPayload(p, s, T)
  PROVE  /\ T # First(p, t) + 1 /\ ~InPayload(p, t, T)
         /\ s = 1 => ReadAt(p, t, T) = 0
         /\ s = 2 => ReadAt(p, t, T) = p[t].payload
<1>1. IsFile(p[1]) /\ IsFile(p[2])
  BY FilesAssumption
<1>2. PICK m \in Nat \ {0}, n \in Nat \ {0} : m = Chunks(p[1]) /\ n = Chunks(p[2])
  BY <1>1, ChunksCover
<1>3. NumPieces = 2 + m + n
  BY <1>2, PackagePieces
<1>4. First(p, 1) = 0 /\ First(p, 2) = 1 + m
  BY <1>2 DEF First
<1>5. CASE s = 1
  <2>1. t = 2 /\ T <= 1 + m
    BY <1>2, <1>4, <1>5 DEF InPayload
  <2> QED
    BY <1>2, <1>3, <1>4, <1>5, <2>1 DEF InPayload, ReadAt
<1>6. CASE s = 2
  <2>1. t = 1 /\ T > 1 + m
    BY <1>2, <1>4, <1>6 DEF InPayload
  <2> QED
    BY <1>2, <1>3, <1>4, <1>6, <2>1 DEF InPayload, ReadAt
<1> QED
  BY <1>5, <1>6

(* A piece that is not a chunk of it leaves an entry's payload where it is. *)
LEMMA ReadStays ==
  ASSUME NEW p \in Packages, NEW T \in 1 .. NumPieces, NEW s \in 1 .. 2, ~InPayload(p, s, T)
  PROVE  ReadAt(p, s, T) = ReadAt(p, s, T - 1)
<1>1. PICK f \in Nat, m \in Nat \ {0} : f = First(p, s) /\ m = Chunks(p[s])
  BY EntryIsFile
<1>2. T <= f + 1 \/ T > f + 1 + m
  BY <1>1 DEF InPayload
<1> QED
  BY <1>1, <1>2 DEF ReadAt

(* A chunk is what comes next of its payload. *)
LEMMA ChunkPiece ==
  ASSUME NEW p \in Packages, NEW T \in 1 .. NumPieces, NEW s \in 1 .. 2, InPayload(p, s, T)
  PROVE  /\ ReadAt(p, s, T - 1) \in Nat /\ ReadAt(p, s, T) \in Nat
         /\ ReadAt(p, s, T - 1) < ReadAt(p, s, T) /\ ReadAt(p, s, T) <= p[s].payload
         /\ Ranges(p)[T] =
              PayloadPiece(s, Units(s, ReadAt(p, s, T - 1) + 1, ReadAt(p, s, T) - ReadAt(p, s, T - 1)))
<1>1. IsFile(p[s])
  BY EntryIsFile
<1>a. PICK f \in Nat : f = First(p, s)
  BY EntryIsFile
<1>b. PICK info : info = p[s]
  OBVIOUS
<1>c. PICK m \in Nat \ {0} : m = Chunks(info)
  BY <1>b, EntryIsFile
<1>2. f = First(p, s) /\ info = p[s] /\ m = Chunks(info)
  BY <1>a, <1>b, <1>c
<1>3. PICK n \in 1 .. m : n = T - (f + 1)
  BY <1>2 DEF InPayload
<1>4. ReadBy(info, m) = info.payload /\ ReadBy(info, 0) = 0
  BY <1>1, <1>2, AllIsRead
<1>5. ReadAt(p, s, T) = ReadBy(info, n)
  BY <1>2, <1>3, <1>4 DEF ReadAt
<1>6. ReadAt(p, s, T - 1) = ReadBy(info, n - 1)
  BY <1>2, <1>3, <1>4 DEF ReadAt
<1>7. f + 1 + n = T
  BY <1>3
<1>8. Ranges(p)[f + 1 + n] = PayloadPiece(s, PayloadUnits(s, info, n))
  BY <1>2, PackagePieces
<1>9. /\ ReadBy(info, n - 1) \in Nat /\ ReadBy(info, n) \in Nat /\ ReadBy(info, n) <= info.payload
      /\ ReadBy(info, n - 1) < ReadBy(info, n)
      /\ PayloadUnits(s, info, n) = Units(s, ReadBy(info, n - 1) + 1, ReadBy(info, n) - ReadBy(info, n - 1))
  BY <1>1, <1>2, ChunkIsNext
<1> QED
  BY <1>2, <1>5, <1>6, <1>7, <1>8, <1>9

(* An entry's header is its first piece, and all is read with the last one. *)
LEMMA HeaderIsPiece ==
  ASSUME NEW p \in Packages, NEW s \in 1 .. 2
  PROVE  /\ Ranges(p)[First(p, s) + 1] = HeaderPiece(s)
         /\ ReadAt(p, s, First(p, s) + 1) = 0 /\ ReadAt(p, s, 0) = 0
         /\ ReadAt(p, s, NumPieces) = p[s].payload /\ NumPieces > First(p, s)
<1>1. PICK f \in Nat, m \in Nat \ {0} : f = First(p, s) /\ m = Chunks(p[s])
  BY EntryIsFile
<1>2. f + 1 + m <= NumPieces /\ NumPieces \in Nat
  BY <1>1, EntryIsFile, NumPiecesAssumption
<1> QED
  BY <1>1, <1>2, PackagePieces DEF ReadAt
(* Whose piece it is. *)
LEMMA ChunkOf ==
  ASSUME NEW p \in Packages, NEW T \in 1 .. NumPieces, NEW s \in 1 .. 2, InPayload(p, s, T)
  PROVE  Ranges(p)[T].payload /\ Ranges(p)[T].stream = s
<1>1. PICK u : Ranges(p)[T] = PayloadPiece(s, u)
  BY ChunkPiece
<1> QED
  BY <1>1 DEF PayloadPiece

(* ... and a header. *)
LEMMA HeaderOf ==
  ASSUME NEW p \in Packages, NEW T, NEW s \in 1 .. 2, T = First(p, s) + 1
  PROVE  ~Ranges(p)[T].payload /\ Ranges(p)[T].stream = s /\ Ranges(p)[T].units = HeaderUnits(s)
<1>1. Ranges(p)[T] = HeaderPiece(s)
  BY HeaderIsPiece
<1> QED
  BY <1>1 DEF HeaderPiece

-----------------------------------------------------------------------------
(* One entry of a transfer, event by event. *)
(* Stream s of a transfer of p, T of whose pieces are taken and W written: its  *)
(* decoder, what its placeholder holds, and zstd.  Either the file is refused,  *)
(* and for a reason, or everything is where it belongs; between two of its     *)
(* pieces a decoder has nothing left that it could decode or write.            *)
EntryGoes(p, s, T, W, d, pl, z, c) ==
  /\ OnCourse(d, s, p[s], c)
  /\ StreamAt(p[s], s, c, d.end, d.block, Context(d, z))
  /\ d.payloadRead = ReadAt(p, s, T) /\ d.base <= p[s].size
  /\ d.started => d.payloadRead > 0
  /\ pl = IF W > First(p, s) THEN Upto(p[s], s, d.base) ELSE <<>>
  /\ \/ T = W + 1 /\ InPayload(p, s, T)
     \/ c = d.payloadRead /\ d.base = d.end

Made(d) == "failed" \in DOMAIN d /\ "info" \in DOMAIN d

EntryRefused(p, s, T, d) ==
  Made(d) /\ d.failed /\ d.info = p[s] /\ ~IsSound(p[s]) /\ InPayload(p, s, T)

EntryKept(p, s, T, W, d, pl, z) ==
  EntryRefused(p, s, T, d) \/ \E c \in Nat : EntryGoes(p, s, T, W, d, pl, z, c)

(* Begin: nothing is taken yet. *)
LEMMA EntryStarts ==
  ASSUME NEW p \in Packages, NEW s \in 1 .. 2, NEW z, NEW d, d = NewDecoder(s, p[s])
  PROVE  EntryKept(p, s, 0, 0, d, <<>>, z)
<1>1. PICK info : info = p[s]
  OBVIOUS
<1>2. IsFile(info) /\ HeaderSize < info.size
  BY <1>1, EntryIsFile DEF IsFile
<1>3. /\ OnCourse(d, s, info, 0) /\ StreamAt(info, s, 0, HeaderSize, 0, FreshStream)
      /\ ~d.started /\ d.payloadRead = 0 /\ d.base = HeaderSize /\ d.end = HeaderSize /\ d.block = 0
  BY <1>1, <1>2, NewIsOnCourse
<1>4. Context(d, z) = FreshStream
  BY <1>3 DEF Context
<1>5. ReadAt(p, s, 0) = 0 /\ ~(0 > First(p, s))
  BY HeaderIsPiece, EntryIsFile
<1>6. HeaderSize <= info.size
  BY <1>2, DecoderAssumption DEF IsFile
<1>7. EntryGoes(p, s, 0, 0, d, <<>>, z, 0)
  BY <1>1, <1>3, <1>4, <1>5, <1>6 DEF EntryGoes
<1> QED
  BY <1>7 DEF EntryKept

(* A chunk of its payload is taken. *)
LEMMA EntryIsFed ==
  ASSUME NEW p \in Packages, NEW s \in 1 .. 2, NEW W \in Nat, NEW T \in 1 .. NumPieces, T = W + 1,
         NEW d, NEW pl, NEW z, NEW c \in Nat, EntryGoes(p, s, W, W, d, pl, z, c),
         InPayload(p, s, T), NEW u, u = Ranges(p)[T].units
  PROVE  EntryGoes(p, s, T, W, Fed(d, u), pl, z, c)
<1>1. PICK info : info = p[s]
  OBVIOUS
<1>2. IsFile(info)
  BY <1>1, EntryIsFile
<1>3. /\ OnCourse(d, s, info, c) /\ StreamAt(info, s, c, d.end, d.block, Context(d, z))
      /\ d.payloadRead = ReadAt(p, s, W) /\ d.base <= info.size
      /\ pl = (IF W > First(p, s) THEN Upto(info, s, d.base) ELSE <<>>)
      /\ c = d.payloadRead
  BY <1>1 DEF EntryGoes
<1>4. T - 1 = W
  OBVIOUS
<1>5. PICK n, r2 : n = ReadAt(p, s, T) - ReadAt(p, s, W) /\ r2 = ReadAt(p, s, T)
  OBVIOUS
<1>6. /\ d.payloadRead \in Nat /\ r2 \in Nat /\ r2 > 0 /\ n \in Nat /\ r2 = d.payloadRead + n /\ r2 <= info.payload
      /\ Ranges(p)[T] = PayloadPiece(s, Units(s, d.payloadRead + 1, n))
  BY <1>1, <1>3, <1>4, <1>5, ChunkPiece
<1>7. u = Units(s, d.payloadRead + 1, n)
  BY <1>6 DEF PayloadPiece
<1>8. PICK a : a = Fed(d, u)
  OBVIOUS
<1>9. OnCourse(a, s, info, c) /\ SameCourse(a, d) /\ a.payloadRead = r2 /\ a.base = d.base
  BY <1>2, <1>3, <1>6, <1>7, <1>8, FeedGoesOn
<1>10. Context(a, z) = Context(d, z) /\ a.end = d.end /\ a.block = d.block
  BY <1>9 DEF SameCourse, Context
<1>11. EntryGoes(p, s, T, W, a, pl, z, c)
  <2>1. StreamAt(info, s, c, a.end, a.block, Context(a, z))
    BY <1>3, <1>10
  <2>2. a.payloadRead = ReadAt(p, s, T) /\ a.base <= info.size /\ (a.started => a.payloadRead > 0)
    BY <1>3, <1>5, <1>6, <1>9
  <2>3. pl = (IF W > First(p, s) THEN Upto(info, s, a.base) ELSE <<>>)
    BY <1>3, <1>9
  <2> QED
    BY <1>1, <1>9, <2>1, <2>2, <2>3 DEF EntryGoes
<1> QED
  BY <1>8, <1>11

(* A piece is taken that is none of its chunks. *)
LEMMA EntryWaits ==
  ASSUME NEW p \in Packages, NEW s \in 1 .. 2, NEW W \in Nat, NEW T \in 1 .. NumPieces, T = W + 1,
         NEW d, NEW pl, NEW z, NEW c \in Nat, EntryGoes(p, s, W, W, d, pl, z, c),
         ~InPayload(p, s, T)
  PROVE  EntryGoes(p, s, T, W, d, pl, z, c)
<1>1. ReadAt(p, s, T) = ReadAt(p, s, W)
  <2>1. T - 1 = W
    OBVIOUS
  <2> QED
    BY <2>1, ReadStays
<1>2. c = d.payloadRead /\ d.base = d.end
  BY DEF EntryGoes
<1> QED
  BY <1>1, <1>2 DEF EntryGoes

(* One turn of Feed's loop. *)
LEMMA EntryDecodes ==
  ASSUME NEW p \in Packages, NEW s \in 1 .. 2, NEW W \in Nat, NEW T \in 1 .. NumPieces, T = W + 1,
         NEW d, NEW pl, NEW z, NEW c \in Nat, EntryGoes(p, s, T, W, d, pl, z, c),
         InPayload(p, s, T), d.next # <<>>, NEW a, a = Stepped(d, Context(d, z)), Made(a.decoder)
  PROVE  EntryKept(p, s, T, W, a.decoder, pl, a.zstd)
<1>1. PICK info : info = p[s]
  OBVIOUS
<1>2. IsFile(info)
  BY <1>1, EntryIsFile
<1>3. /\ OnCourse(d, s, info, c) /\ StreamAt(info, s, c, d.end, d.block, Context(d, z))
      /\ d.payloadRead = ReadAt(p, s, T) /\ d.base <= info.size
      /\ pl = (IF W > First(p, s) THEN Upto(info, s, d.base) ELSE <<>>)
  BY <1>1 DEF EntryGoes
<1>4. c < d.payloadRead /\ d.payloadRead \in Nat
  BY <1>3, NothingLeft
<1>5. GoneOn(s, info, d, a)
  BY <1>2, <1>3, <1>4, StepGoesOn
<1>6. CASE a.decoder.failed /\ ~IsSound(info)
  BY <1>1, <1>5, <1>6 DEF GoneOn, EntryKept, EntryRefused
<1>7. ASSUME NEW e \in Nat,
             OnCourse(a.decoder, s, info, e),
             StreamAt(info, s, e, a.decoder.end, a.decoder.block, a.zstd),
             a.decoder.started, a.decoder.payloadRead = d.payloadRead, a.decoder.base = d.base
      PROVE  EntryKept(p, s, T, W, a.decoder, pl, a.zstd)
  <2>1. PICK b, y : b = a.decoder /\ y = a.zstd
    OBVIOUS
  <2>2. Context(b, y) = y
    BY <1>7, <2>1 DEF Context
  <2>3. b.payloadRead > 0
    BY <1>4, <1>7, <2>1
  <2>4. EntryGoes(p, s, T, W, b, pl, y, e)
    BY <1>1, <1>3, <1>7, <2>1, <2>2, <2>3 DEF EntryGoes
  <2> QED
    BY <2>1, <2>4 DEF EntryKept
<1> QED
  BY <1>5, <1>6, <1>7 DEF GoneOn

(* The other entry's decoder uses the context: this one has nothing left to decode, or has
   not started and takes a new stream. *)
LEMMA EntryIsLeft ==
  ASSUME NEW p \in Packages, NEW s \in 1 .. 2, NEW t \in 1 .. 2, s # t, NEW W \in Nat, NEW T \in 1 .. NumPieces,
         T = W + 1, NEW d, NEW pl, NEW z, NEW y, NEW c \in Nat, EntryGoes(p, s, T, W, d, pl, z, c), InPayload(p, t, T)
  PROVE  EntryGoes(p, s, T, W, d, pl, y, c)
<1>1. /\ ~InPayload(p, s, T)
      /\ ReadAt(p, s, T) = p[s].payload \/ ReadAt(p, s, T) = 0
  BY OnlyOne
<1>2. c = d.payloadRead /\ d.payloadRead = ReadAt(p, s, T) /\ (d.started => d.payloadRead > 0)
  BY <1>1 DEF EntryGoes
<1>3. StreamAt(p[s], s, c, d.end, d.block, Context(d, y))
  <2>1. CASE ReadAt(p, s, T) = p[s].payload
    <3>1. ~(c < p[s].payload)
      BY <1>2, <2>1
    <3> QED
      BY <3>1 DEF StreamAt
  <2>2. CASE ReadAt(p, s, T) = 0
    <3>1. ~d.started
      BY <1>2, <2>2
    <3>2. Context(d, y) = Context(d, z)
      BY <3>1 DEF Context
    <3> QED
      BY <3>2 DEF EntryGoes
  <2> QED
    BY <1>1, <2>1, <2>2
<1> QED
  BY <1>3 DEF EntryGoes

(* Where a decoder that is on course is in the NCA. *)
LEMMA NewPlaceIsEmpty ==
  ASSUME NEW d, NEW s, NEW info, IsFile(info), NEW c, OnCourse(d, s, info, c)
  PROVE  /\ d.base \in Nat /\ d.end \in Nat /\ HeaderSize <= d.base /\ d.base <= d.end
         /\ d.payloadRead \in Nat
         /\ ~d.started => d.base = HeaderSize /\ d.end = HeaderSize
         /\ IsSound(info) => d.end <= info.size
<1>1. Kept(info, c, d.payloadRead, d.exhausted, d.started, d.base, d.end, d.block,
           d.consumed, d.produced)
  BY DEF OnCourse
<1>2. /\ d.base \in Nat /\ d.end \in Nat /\ HeaderSize <= d.base /\ d.base <= d.end /\ d.payloadRead \in Nat
      /\ ~d.started => d.end = HeaderSize
      /\ d.end <= info.reach[info.payload]
  BY <1>1 DEF Kept, Progress
<1>3. HeaderSize \in Nat
  BY DecoderAssumption
<1>4. IsSound(info) => info.reach[info.payload] = info.size
  BY SoundBlocks
<1> QED
  BY <1>2, <1>3, <1>4

(* The header is written. *)
LEMMA HeaderIsWritten ==
  ASSUME NEW p \in Packages, NEW s \in 1 .. 2, NEW W \in Nat, NEW T, T = W + 1, T = First(p, s) + 1,
         NEW d, NEW pl, NEW z, NEW c \in Nat, EntryGoes(p, s, T, W, d, pl, z, c),
         NEW pl2, pl2 = Upto(p[s], s, HeaderSize)
  PROVE  EntryGoes(p, s, T, T, d, pl2, z, c)
<1>1. PICK f, info : f \in Nat /\ f = First(p, s) /\ info = p[s]
  BY EntryIsFile
<1>2. IsFile(info)
  BY <1>1, EntryIsFile
<1>3. ~InPayload(p, s, T) /\ T > f
  BY <1>1 DEF InPayload
<1>4. c = d.payloadRead /\ d.base = d.end /\ d.payloadRead = ReadAt(p, s, T)
  BY <1>3 DEF EntryGoes
<1>5. ReadAt(p, s, T) = 0
  BY HeaderIsPiece
<1>6. ~d.started
  BY <1>4, <1>5 DEF EntryGoes
<1>7. d.base = HeaderSize
  <2>1. OnCourse(d, s, info, c)
    BY <1>1 DEF EntryGoes
  <2> QED
    BY <1>2, <1>6, <2>1, NewPlaceIsEmpty
<1>8. pl2 = (IF T > f THEN Upto(info, s, d.base) ELSE <<>>)
  BY <1>1, <1>3, <1>7
<1> QED
  BY <1>1, <1>4, <1>8 DEF EntryGoes

(* A piece is written that is not the entry's. *)
LEMMA EntryStays ==
  ASSUME NEW p \in Packages, NEW s \in 1 .. 2, NEW W \in Nat, NEW T \in 1 .. NumPieces, T = W + 1,
         NEW d, NEW pl, NEW z, NEW c \in Nat, EntryGoes(p, s, T, W, d, pl, z, c),
         T # First(p, s) + 1, ~InPayload(p, s, T)
  PROVE  EntryGoes(p, s, T, T, d, pl, z, c)
<1>1. PICK f \in Nat : f = First(p, s)
  BY EntryIsFile
<1>2. W > f <=> T > f
  BY <1>1
<1>3. c = d.payloadRead /\ d.base = d.end
  BY DEF EntryGoes
<1> QED
  BY <1>1, <1>2, <1>3 DEF EntryGoes

(* What is decoded of a chunk is encrypted and written, and nothing is left. *)
LEMMA EntryIsWritten ==
  ASSUME NEW p \in Packages, NEW s \in 1 .. 2, NEW W \in Nat, NEW T \in 1 .. NumPieces, T = W + 1,
         NEW d, NEW pl, NEW z, NEW c \in Nat, EntryGoes(p, s, T, W, d, pl, z, c),
         InPayload(p, s, T), d.next = <<>>, ~Overruns(d)
  PROVE  EntryGoes(p, s, T, T, Consumed(d), pl \o WriteDecoded(d, Len(pl)), z, c)
<1>1. PICK f, info : f \in Nat /\ f = First(p, s) /\ info = p[s]
  BY EntryIsFile
<1>2. IsFile(info)
  BY <1>1, EntryIsFile
<1>3. W > f /\ T > f
  BY <1>1 DEF InPayload
<1>4. /\ OnCourse(d, s, info, c) /\ StreamAt(info, s, c, d.end, d.block, Context(d, z))
      /\ d.payloadRead = ReadAt(p, s, T) /\ d.base <= info.size
      /\ (d.started => d.payloadRead > 0)
      /\ pl = Upto(info, s, d.base)
  BY <1>1, <1>3 DEF EntryGoes
<1>5. /\ d.base \in Nat /\ d.end \in Nat /\ HeaderSize <= d.base /\ d.base <= d.end
      /\ d.info = info /\ info.size \in Nat
  <2>1. info.size \in Nat
    BY <1>2 DEF IsFile
  <2>2. d.info = info
    BY <1>4, OnCourseFields
  <2> QED
    BY <1>2, <1>4, <2>1, <2>2, NewPlaceIsEmpty
<1>6. d.end <= info.size
  BY <1>5 DEF Overruns
<1>7. Len(pl) = d.base
  BY <1>2, <1>4, <1>5, UptoIsASeq
<1>8. c = d.payloadRead
  BY <1>4, NothingLeft
<1>9. PICK a : a = Consumed(d)
  OBVIOUS
<1>10. /\ WriteDecoded(d, d.base) = Reencrypt(info, d.base, Units(s, d.base, d.end - d.base))
       /\ OnCourse(a, s, info, c) /\ SameCourse(a, d) /\ a.payloadRead = d.payloadRead
       /\ a.base = d.end
  BY <1>2, <1>4, <1>6, <1>9, ConsumeGoesOn
<1>11. Context(a, z) = Context(d, z) /\ a.end = d.end /\ a.block = d.block /\ a.started = d.started
  BY <1>10 DEF SameCourse, Context
<1>12. PICK n \in Nat : n = d.end - d.base
  BY <1>5
<1>13. Behind(pl, WriteDecoded(d, Len(pl))) = Upto(info, s, d.end)
  <2>1. d.base + n = d.end
    BY <1>5, <1>12
  <2>2. Behind(Upto(info, s, d.base), Reencrypt(info, d.base, Units(s, d.base, n))) = Upto(info, s, d.base + n)
    BY <1>2, <1>5, <1>6, <2>1, PlacesOn
  <2> QED
    BY <1>4, <1>7, <1>10, <1>12, <2>1, <2>2
<1>14. PICK pl2 : pl2 = Behind(pl, WriteDecoded(d, Len(pl)))
  OBVIOUS
<1>15. EntryGoes(p, s, T, T, a, pl2, z, c)
  <2>1. StreamAt(info, s, c, a.end, a.block, Context(a, z))
    BY <1>4, <1>11
  <2>2. /\ a.payloadRead = ReadAt(p, s, T) /\ a.base <= info.size /\ (a.started => a.payloadRead > 0)
        /\ c = a.payloadRead /\ a.base = a.end
    BY <1>4, <1>6, <1>8, <1>10, <1>11
  <2>3. pl2 = (IF T > First(p, s) THEN Upto(info, s, a.base) ELSE <<>>)
    BY <1>1, <1>3, <1>10, <1>13, <1>14
  <2> QED
    BY <1>1, <1>10, <2>1, <2>2, <2>3 DEF EntryGoes
<1> QED
  BY <1>9, <1>14, <1>15 DEF Behind

(* A chunk that broke the decoder, or decoded past the NCA's end. *)
LEMMA EntryIsRefused ==
  ASSUME NEW p \in Packages, NEW s \in 1 .. 2, NEW W \in Nat, NEW T \in 1 .. NumPieces, T = W + 1,
         NEW d, NEW pl, NEW z, EntryKept(p, s, T, W, d, pl, z), d.failed \/ Overruns(d), InPayload(p, s, T)
  PROVE  EntryRefused(p, s, T, Failing(d))
<1>1. Made(d) => Made(Failing(d)) /\ Failing(d).failed /\ Failing(d).info = d.info
  BY DEF Made, Failing
<1>2. CASE EntryRefused(p, s, T, d)
  BY <1>1, <1>2 DEF EntryRefused
<1>3. ASSUME NEW c \in Nat, EntryGoes(p, s, T, W, d, pl, z, c) PROVE EntryRefused(p, s, T, Failing(d))
  <2>1. PICK info : info = p[s]
    OBVIOUS
  <2>2. IsFile(info) /\ OnCourse(d, s, info, c)
    BY <1>3, <2>1, EntryIsFile DEF EntryGoes
  <2>3. d.info = info /\ ~d.failed /\ d.end \in Nat
    BY <2>2, OnCourseFields, NewPlaceIsEmpty
  <2>4. Made(d)
    BY <2>2 DEF OnCourse, Dec, Fields, Made
  <2>5. ~IsSound(info)
    <3>1. d.end > info.size /\ info.size \in Nat
      BY <2>2, <2>3 DEF Overruns, IsFile
    <3> QED
      BY <2>2, <2>3, <3>1, NewPlaceIsEmpty
  <2> QED
    BY <1>1, <2>1, <2>3, <2>4, <2>5 DEF EntryRefused
<1> QED
  BY <1>2, <1>3 DEF EntryKept

(* What a finished transfer has. *)
LEMMA EntryEnds ==
  ASSUME NEW p \in Packages, NEW s \in 1 .. 2, NEW d, NEW pl, NEW z, NEW c \in Nat,
         EntryGoes(p, s, NumPieces, NumPieces, d, pl, z, c), Len(pl) >= p[s].size
  PROVE  /\ pl = Rebuilt(p[s], s) /\ KeepsItsTables(p[s])
         /\ TableCovered(p[s]) => IsSound(p[s])
<1>1. PICK f, info : f \in Nat /\ f = First(p, s) /\ info = p[s]
  BY EntryIsFile
<1>2. IsFile(info) /\ info.size \in Nat /\ info.payload \in Nat /\ info.bad \in 0 .. info.payload
  BY <1>1, EntryIsFile DEF IsFile
<1>3. NumPieces > f /\ NumPieces \in Nat
  BY <1>1, HeaderIsPiece, NumPiecesAssumption
<1>4. NumPieces # NumPieces + 1
  BY <1>3
<1>5. /\ OnCourse(d, s, info, c) /\ d.payloadRead = info.payload /\ d.base <= info.size
      /\ pl = Upto(info, s, d.base) /\ c = d.payloadRead /\ d.base = d.end
  BY <1>1, <1>3, <1>4, HeaderIsPiece DEF EntryGoes
<1>6. d.base \in Nat
  BY <1>2, <1>5, NewPlaceIsEmpty
<1>7. d.base = info.size
  <2>1. Len(pl) = d.base
    BY <1>2, <1>5, <1>6, UptoIsASeq
  <2> QED
    BY <1>1, <1>2, <1>5, <1>6, <2>1
<1>8. pl = Rebuilt(info, s)
  BY <1>2, <1>5, <1>7, RebuiltIsASeq
<1>9. Progress(info, info.payload, d.end, d.block, d.consumed, d.produced)
  BY <1>5 DEF OnCourse, Kept
<1>10. info.bad = 0
  BY <1>2, <1>9 DEF Progress
<1>11. TableCovered(info) => info.reach[info.payload] = info.size
  BY <1>5, <1>7, <1>9 DEF Progress
<1>12. ASSUME info.table, NEW b \in WholeBlocks(info)
       PROVE  BlockKept(info, b)
  <2>1. TableKept(info, info.payload, d.end, d.block, d.consumed, d.produced)
    BY <1>9, <1>12 DEF Progress
  <2>t. Len(info.offsets) \in Nat /\ Len(info.offsets) > 0
    BY <1>2, <1>12, TableFacts
  <2>b. d.block \in 0 .. Len(info.offsets)
    BY <2>1 DEF TableKept
  <2>2. PICK top \in Nat \ {0}, block \in Nat : top = Len(info.offsets) /\ block = d.block /\ block <= top
    BY <2>t, <2>b
  <2>3. /\ b \in Blocks(info) /\ Off(info, b) < info.payload /\ Past(info, b) <= info.payload
        /\ b \in 0 .. top - 1
    BY <1>12, <2>2 DEF WholeBlocks, Off, Past, Blocks, PayloadSize
  <2>4. \A x \in 0 .. block - 1 : BlockKept(info, x)
    BY <2>1, <2>2 DEF TableKept
  <2>5. ASSUME ~(b < block) PROVE FALSE
    <3>1. block < top /\ block \in Blocks(info) /\ (b = block \/ block < b)
      BY <2>2, <2>3, <2>5 DEF Blocks
    <3>2. info.payload < Past(info, block) \/ Off(info, block) = info.payload
      BY <2>1, <2>2, <3>1 DEF TableKept
    <3>3. /\ Off(info, block) \in Nat /\ Past(info, block) \in Nat
          /\ Off(info, b) \in Nat /\ Past(info, b) \in Nat
          /\ block < b => Off(info, block) < Off(info, b)
          /\ block + 1 < top => Past(info, block) = Off(info, block + 1)
      BY <1>2, <1>12, <2>2, <2>3, <3>1, TableFacts
    <3>4. CASE b = block
      BY <1>2, <2>3, <3>2, <3>3, <3>4
    <3>5. CASE block < b
      <4>1. block + 1 < top /\ (b = block + 1 \/ block + 1 < b) /\ block + 1 \in Blocks(info)
        BY <2>2, <2>3, <3>5 DEF Blocks
      <4>2. Off(info, block + 1) <= Off(info, b) /\ Off(info, block + 1) \in Nat
        BY <1>2, <1>12, <2>3, <4>1, <3>3, TableFacts
      <4> QED
        BY <1>2, <2>3, <3>2, <3>3, <3>5, <4>1, <4>2
    <3> QED
      BY <3>1, <3>4, <3>5
  <2>6. b \in 0 .. block - 1
    BY <2>2, <2>3, <2>5
  <2> QED
    BY <2>4, <2>6
<1>13. KeepsItsTables(info)
  <2>1. ASSUME info.table, NEW b \in WholeBlocks(info)
        PROVE  /\ info.reach[info.offsets[b + 1] + BlockSourceSize(info, b)] - info.reach[info.offsets[b + 1]]
                    = BlockDecodedSize(info, b)
               /\ b \in info.raw <=> BlockSourceSize(info, b) >= BlockDecodedSize(info, b)
    <3>1. BlockKept(info, b) /\ b \in Blocks(info)
      BY <1>12, <2>1 DEF WholeBlocks
    <3>2. BlockSourceSize(info, b) \in Int /\ BlockDecodedSize(info, b) \in Int
      BY <1>2, <2>1, <3>1, TableFacts
    <3> QED
      BY <3>1, <3>2 DEF BlockKept, Off, Past, BlockCompressed
  <2> QED
    BY <1>10, <2>1 DEF KeepsItsTables, PayloadSize
<1> QED
  BY <1>1, <1>8, <1>11, <1>13 DEF IsSound, PayloadSize

-----------------------------------------------------------------------------
(* The read-out, event by event. *)
(* What a read-out of info has: its decoder, its placeholder and zstd.          *)
ReadOutGoes(info, d, pl, z, c) ==
  /\ OnCourse(d, 0, info, c)
  /\ StreamAt(info, 0, c, d.end, d.block, Context(d, z))
  /\ d.base <= info.size /\ pl = Upto(info, 0, d.base)
  /\ d.exhausted => d.payloadRead = info.payload

ReadOutKept(info, d, pl, z) ==
  /\ d.info = info
  /\ \/ d.failed /\ ~IsSound(info)
     \/ \E c \in Nat : ReadOutGoes(info, d, pl, z, c)

(* A read-out that goes on. *)
LEMMA GoesIsKept ==
  ASSUME NEW info, NEW d, NEW pl, NEW z, NEW c \in Nat, ReadOutGoes(info, d, pl, z, c)
  PROVE  ReadOutKept(info, d, pl, z)
<1>1. d.info = info
  BY OnCourseFields DEF ReadOutGoes
<1> QED
  BY <1>1 DEF ReadOutKept

(* ReadOutBegins. *)
LEMMA ReadOutStarts ==
  ASSUME NEW info, IsFile(info), NEW z, NEW d, d = NewDecoder(0, info)
  PROVE  ReadOutKept(info, d, Upto(info, 0, HeaderSize), z)
<1>1. /\ OnCourse(d, 0, info, 0) /\ StreamAt(info, 0, 0, HeaderSize, 0, FreshStream)
      /\ ~d.started /\ ~d.exhausted
      /\ d.payloadRead = 0 /\ d.base = HeaderSize /\ d.end = HeaderSize /\ d.block = 0
  BY NewIsOnCourse
<1>2. Context(d, z) = FreshStream
  BY <1>1 DEF Context
<1>3. HeaderSize <= info.size
  BY DecoderAssumption DEF IsFile
<1>4. ReadOutGoes(info, d, Upto(info, 0, HeaderSize), z, 0)
  BY <1>1, <1>2, <1>3 DEF ReadOutGoes
<1> QED
  BY <1>4, GoesIsKept

(* A decoder that is refused keeps its file. *)
LEMMA RefusalKeeps ==
  ASSUME NEW info, NEW d, NEW s, NEW c, OnCourse(d, s, info, c), ~IsSound(info), NEW pl, NEW z
  PROVE  ReadOutKept(info, Failing(d), pl, z)
<1>1. PICK a : a = Failing(d)
  OBVIOUS
<1>2. PICK read, exhausted, started, base, end, block, consumed, produced :
        d = Dec(s, info, c, read, exhausted, started, base, end, block, consumed, produced)
  BY DEF OnCourse
<1>3. a.failed /\ a.info = info
  BY <1>1, <1>2, FailingKeeps
<1> QED
  BY <1>1, <1>3 DEF ReadOutKept

(* DecodeUntil finds the payload exhausted and what it wants not decoded. *)
LEMMA NothingMoreToRead ==
  ASSUME NEW info, IsFile(info), NEW d, NEW pl, NEW z, NEW c \in Nat, ReadOutGoes(info, d, pl, z, c),
         d.next = <<>>, d.exhausted, d.end < info.size
  PROVE  ReadOutKept(info, Failing(d), pl, z)
<1>1. OnCourse(d, 0, info, c) /\ d.payloadRead = info.payload
  BY DEF ReadOutGoes
<1>2. c = info.payload
  BY <1>1, NothingLeft
<1>3. Progress(info, c, d.end, d.block, d.consumed, d.produced)
  BY <1>1 DEF OnCourse, Kept
<1>4. ~IsSound(info)
  <2> SUFFICES ASSUME IsSound(info) PROVE FALSE
    OBVIOUS
  <2>1. TableCovered(info) /\ info.reach[info.payload] = info.size
    BY DEF IsSound, PayloadSize
  <2>2. d.end = info.size
    BY <1>2, <1>3, <2>1 DEF Progress
  <2>3. info.size \in Nat
    BY DEF IsFile
  <2> QED
    BY <2>2, <2>3
<1> QED
  BY <1>1, <1>4, RefusalKeeps

(* What is decoded is past the NCA's end. *)
LEMMA ReadOutOverruns ==
  ASSUME NEW info, IsFile(info), NEW d, NEW pl, NEW z, NEW c \in Nat, ReadOutGoes(info, d, pl, z, c),
         Overruns(d)
  PROVE  ReadOutKept(info, Failing(d), pl, z)
<1>1. OnCourse(d, 0, info, c)
  BY DEF ReadOutGoes
<1>2. d.info = info
  BY <1>1, OnCourseFields
<1>3. info.size \in Nat
  BY DEF IsFile
<1>4. ~IsSound(info)
  BY <1>1, <1>2, <1>3, NewPlaceIsEmpty DEF Overruns
<1> QED
  BY <1>1, <1>4, RefusalKeeps

Drained(d) == [d EXCEPT !.exhausted = TRUE]

(* DecodeUntil notes that the payload is exhausted. *)
LEMMA PayloadIsRead ==
  ASSUME NEW info, NEW d, NEW pl, NEW z, NEW c \in Nat, ReadOutGoes(info, d, pl, z, c),
         d.payloadRead = info.payload
  PROVE  ReadOutKept(info, Drained(d), pl, z)
<1>1. OnCourse(d, 0, info, c)
  BY DEF ReadOutGoes
<1>2. PICK read, exhausted, started, base, end, block, consumed, produced :
        /\ d = Dec(0, info, c, read, exhausted, started, base, end, block, consumed, produced)
        /\ Kept(info, c, read, exhausted, started, base, end, block, consumed, produced)
  BY <1>1 DEF OnCourse
<1>3. PICK u0, v0 : u0 = Units(0, c + 1, read - c) /\ v0 = Units(0, base, end - base)
  OBVIOUS
<1>4. PICK d0, yes, no : d0 = d /\ yes = TRUE /\ no = FALSE
  OBVIOUS
<1>5. d0 = Fields(0, info, u0, read, exhausted, started, v0, base, end, block, consumed, produced, no)
  BY <1>2, <1>3, <1>4 DEF Dec
<1>6. PICK a : a = [d0 EXCEPT !.exhausted = yes]
  OBVIOUS
<1>7. a = Fields(0, info, u0, read, yes, started, v0, base, end, block, consumed, produced, no)
  BY <1>5, <1>6 DEF Fields
<1>8. a = Dec(0, info, c, read, yes, started, base, end, block, consumed, produced)
  BY <1>3, <1>4, <1>7 DEF Dec
<1>9. Kept(info, c, read, yes, started, base, end, block, consumed, produced)
  BY <1>2, <1>4 DEF Kept
<1>10. OnCourse(a, 0, info, c)
  BY <1>8, <1>9, OnCourseMade
<1>11. /\ a.base = d.base /\ a.end = d.end /\ a.block = d.block /\ a.started = d.started
       /\ a.payloadRead = d.payloadRead
  BY <1>2, <1>8, DecFields
<1>12. Context(a, z) = Context(d, z)
  BY <1>11 DEF Context
<1>13. ReadOutGoes(info, a, pl, z, c)
  BY <1>10, <1>11, <1>12 DEF ReadOutGoes
<1>14. Drained(d) = a
  BY <1>4, <1>6 DEF Drained
<1> QED
  BY <1>13, <1>14, GoesIsKept

(* A step with something in hand. *)
LEMMA ReadOutDecodes ==
  ASSUME NEW info, IsFile(info), NEW d, NEW pl, NEW z, NEW c \in Nat, ReadOutGoes(info, d, pl, z, c),
         c < d.payloadRead, NEW a, a = Stepped(d, Context(d, z))
  PROVE  ReadOutKept(info, a.decoder, pl, a.zstd)
<1>1. /\ OnCourse(d, 0, info, c) /\ StreamAt(info, 0, c, d.end, d.block, Context(d, z))
      /\ d.base <= info.size /\ pl = Upto(info, 0, d.base)
      /\ (d.exhausted => d.payloadRead = info.payload)
  BY DEF ReadOutGoes
<1>2. GoneOn(0, info, d, a)
  BY <1>1, StepGoesOn, 0 \in Nat
<1>3. CASE a.decoder.failed /\ ~IsSound(info)
  BY <1>2, <1>3 DEF GoneOn, ReadOutKept
<1>4. ASSUME NEW e \in Nat,
             OnCourse(a.decoder, 0, info, e),
             StreamAt(info, 0, e, a.decoder.end, a.decoder.block, a.zstd),
             a.decoder.started, a.decoder.payloadRead = d.payloadRead, a.decoder.base = d.base,
             a.decoder.exhausted = d.exhausted
      PROVE  ReadOutKept(info, a.decoder, pl, a.zstd)
  <2>1. PICK b, y : b = a.decoder /\ y = a.zstd
    OBVIOUS
  <2>2. Context(b, y) = y
    BY <1>4, <2>1 DEF Context
  <2>3. ReadOutGoes(info, b, pl, y, e)
    BY <1>1, <1>4, <2>1, <2>2 DEF ReadOutGoes
  <2> QED
    BY <2>1, <2>3, GoesIsKept
<1> QED
  BY <1>2, <1>3, <1>4 DEF GoneOn

(* One turn of DecodeUntil that decodes. *)
LEMMA ReadOutTurns ==
  ASSUME NEW info, IsFile(info), NEW d, NEW pl, NEW z, NEW c \in Nat, ReadOutGoes(info, d, pl, z, c),
         d.next # <<>> \/ (~d.exhausted /\ d.payloadRead # info.payload),
         NEW fed, fed = (IF d.next = <<>> THEN Refilled(d) ELSE d),
         NEW a, a = Stepped(fed, Context(fed, z))
  PROVE  ReadOutKept(info, a.decoder, pl, a.zstd)
<1>1. OnCourse(d, 0, info, c)
  BY DEF ReadOutGoes
<1>2. CASE d.next # <<>>
  <2>1. c < d.payloadRead
    BY <1>1, <1>2, NothingLeft
  <2>2. fed = d
    BY <1>2
  <2> QED
    BY <2>1, <2>2, ReadOutDecodes
<1>3. CASE d.next = <<>>
  <2>1. ~d.exhausted /\ d.payloadRead # info.payload
    BY <1>3
  <2>2. PICK b : b = Refilled(d)
    OBVIOUS
  <2>3. OnCourse(b, 0, info, c) /\ SameCourse(b, d) /\ c < b.payloadRead
        /\ b.base = d.base /\ b.exhausted = d.exhausted
    BY <1>1, <1>3, <2>1, <2>2, RefillGoesOn
  <2>4. Context(b, z) = Context(d, z) /\ b.end = d.end /\ b.block = d.block
    BY <2>3 DEF SameCourse, Context
  <2>5. ReadOutGoes(info, b, pl, z, c)
    BY <2>1, <2>3, <2>4 DEF ReadOutGoes
  <2>6. fed = b
    BY <1>3, <2>2
  <2> QED
    BY <2>3, <2>5, <2>6, ReadOutDecodes
<1> QED
  BY <1>2, <1>3

(* What was wanted is written behind what is written. *)
LEMMA ReadOutPulls ==
  ASSUME NEW info, IsFile(info), NEW d, NEW pl, NEW z, NEW c \in Nat, ReadOutGoes(info, d, pl, z, c),
         NEW n \in Nat, n > 0, d.base + n <= d.end, d.base + n <= info.size,
         NEW t, t = TakeUnits(d, d.base, n)
  PROVE  /\ t.units # <<>>
         /\ ReadOutKept(info, t.d, pl \o Reencrypt(info, d.base, t.units), z)
<1>1. /\ OnCourse(d, 0, info, c) /\ StreamAt(info, 0, c, d.end, d.block, Context(d, z))
      /\ d.base <= info.size /\ pl = Upto(info, 0, d.base)
      /\ (d.exhausted => d.payloadRead = info.payload)
  BY DEF ReadOutGoes
<1>2. d.base \in Nat /\ HeaderSize <= d.base
  BY <1>1, NewPlaceIsEmpty
<1>3. /\ t.units = Units(0, d.base, n)
      /\ OnCourse(t.d, 0, info, c) /\ SameCourse(t.d, d)
      /\ t.d.base = d.base + n
      /\ t.d.payloadRead = d.payloadRead /\ t.d.exhausted = d.exhausted
  BY <1>1, UnitsAreTaken
<1>4. t.units # <<>>
  <2>1. d.base \in Int
    BY <1>2
  <2> QED
    BY <1>3, <2>1, EmptyUnits
<1>5. PICK pl2 : pl2 = Behind(pl, Reencrypt(info, d.base, t.units))
  OBVIOUS
<1>6. pl2 = Upto(info, 0, d.base + n)
  BY <1>1, <1>2, <1>3, <1>5, PlacesOn
<1>7. PICK a : a = t.d
  OBVIOUS
<1>8. Context(a, z) = Context(d, z) /\ a.end = d.end /\ a.block = d.block
  BY <1>3, <1>7 DEF SameCourse, Context
<1>9. ReadOutGoes(info, a, pl2, z, c)
  BY <1>1, <1>3, <1>6, <1>7, <1>8 DEF ReadOutGoes
<1>10. ReadOutKept(info, t.d, pl2, z)
  BY <1>7, <1>9, GoesIsKept
<1> QED
  BY <1>4, <1>5, <1>10 DEF Behind

(* What is placed when nothing is left to want. *)
LEMMA ReadOutIsWhole ==
  ASSUME NEW info, IsFile(info), NEW d, NEW pl, NEW z, NEW c \in Nat, ReadOutGoes(info, d, pl, z, c),
         d.base = info.size
  PROVE  pl = Rebuilt(info, 0)
BY RebuiltIsASeq DEF ReadOutGoes

(* A step makes a decoder of a decoder. *)
LEMMA SteppedIsMade ==
  ASSUME NEW d, Made(d), NEW z
  PROVE  Made(Stepped(d, z).decoder)
<1>1. ASSUME NEW x PROVE DOMAIN Failing(x) = DOMAIN x
  BY DEF Failing
<1>2. ASSUME NEW x PROVE DOMAIN Opened(x) = DOMAIN x
  BY DEF Opened
<1>3. ASSUME NEW x, NEW m PROVE DOMAIN Advanced(x, m) = DOMAIN x
  BY DEF Advanced
<1>4. ASSUME NEW x PROVE DOMAIN BlockEnds(x) = DOMAIN x
  BY <1>1 DEF BlockEnds
<1>5. ASSUME NEW x, NEW m PROVE DOMAIN Moved(x, m) = DOMAIN x
  BY <1>1 DEF Moved
<1>6. PICK made : made = (IF PastTheTable(d) THEN ZstdError ELSE DecodeSpan(d, z, Span(d)))
  OBVIOUS
<1>7. Stepped(d, z).decoder = IF made.error THEN Failing(Opened(d)) ELSE Moved(BlockEnds(Advanced(d, made)), made)
  BY <1>6 DEF Stepped, Opened
<1>8. DOMAIN Stepped(d, z).decoder = DOMAIN d
  <2>1. PICK x, y, w : x = Opened(d) /\ y = Advanced(d, made) /\ w = BlockEnds(y)
    OBVIOUS
  <2>2. DOMAIN Failing(x) = DOMAIN d
    BY <1>1, <1>2, <2>1
  <2>3. DOMAIN Moved(w, made) = DOMAIN d
    BY <1>3, <1>4, <1>5, <2>1
  <2> QED
    BY <1>7, <2>1, <2>2, <2>3
<1> QED
  BY <1>8 DEF Made

-----------------------------------------------------------------------------
(* The inductive invariant of the composition. *)
(* Before the transfer there is no piece, and no decoder but the read-out's.    *)
Before ==
  readout # "over" =>
    /\ entries = <<>> /\ wrote = <<>> /\ consuming = NoSlot /\ writer = "polling"
    /\ \A s \in 1 .. 2 : decoder[s] = NoDecoder /\ placed[s] = <<>>

ReadOutCourse ==
  /\ readout = "none" => decoder[0] = NoDecoder /\ placed[0] = <<>>
  /\ readout = "running" =>
       \E info \in ReadFiles : ReadOutKept(info, decoder[0], placed[0], zstd)
  /\ readout = "done" =>
       \E info \in ReadFiles :
         decoder[0].info = info /\ ~decoder[0].failed /\ placed[0] = Rebuilt(info, 0)
  /\ readout = "over" => decoder[0] = NoDecoder /\ placed[0] = <<>>

EntriesKept == \A s \in 1 .. 2 : EntryKept(entries, s, Taken, Len(wrote), decoder[s], placed[s], zstd)
NoneRefused == \A s \in 1 .. 2 : ~decoder[s].failed

TransferCourse ==
  readout = "over" =>
    /\ entries \in Packages /\ EntriesKept
    /\ writer = "finished" => NoneRefused

Shape ==
  /\ readout \in {"none", "running", "done", "over"}
  /\ DOMAIN decoder = Streams /\ DOMAIN placed = Streams

Course == Shape /\ Before /\ ReadOutCourse /\ TransferCourse

(* The streams by name. *)
LEMMA TheStreams == Streams = {0, 1, 2} /\ 0 \in Streams /\ 1 .. 2 = {1, 2} /\ 1 .. 2 \subseteq Streams
  BY DEF Streams

(* The initial states. *)
LEMMA CourseStarts == StreamInit => Course
<1> SUFFICES ASSUME StreamInit PROVE Course
  OBVIOUS
<1>1. /\ decoder = [s \in Streams |-> NoDecoder] /\ placed = [s \in Streams |-> <<>>]
      /\ readout = "none" /\ entries = <<>>
      /\ wrote = <<>> /\ consuming = NoSlot /\ writer = "polling"
  BY DEF StreamInit, Init, QueueInit
<1>2. \A s \in Streams : decoder[s] = NoDecoder /\ placed[s] = <<>>
  BY <1>1
<1> QED
  BY <1>1, <1>2, TheStreams DEF Course, Shape, Before, ReadOutCourse, TransferCourse

(* A step that does not begin the transfer, before it.                         *)
LEMMA ReadOutOnly ==
  ASSUME Course, readout # "over", readout' \in {"none", "running", "done"}, UNCHANGED <<vars, entries>>,
         NEW d, decoder' = [decoder EXCEPT ![0] = d] \/ (decoder' = decoder /\ d = decoder[0]),
         NEW pl, placed' = [placed EXCEPT ![0] = pl] \/ (placed' = placed /\ pl = placed[0]),
         readout' = "none" => d = NoDecoder /\ pl = <<>>,
         readout' = "running" => \E info \in ReadFiles : ReadOutKept(info, d, pl, zstd'),
         readout' = "done" =>
           \E info \in ReadFiles : d.info = info /\ ~d.failed /\ pl = Rebuilt(info, 0)
  PROVE  Course'
<1>1. DOMAIN decoder = Streams /\ DOMAIN placed = Streams
  BY DEF Course, Shape
<1>2. /\ DOMAIN decoder' = Streams /\ DOMAIN placed' = Streams
      /\ decoder'[0] = d /\ placed'[0] = pl
      /\ \A s \in 1 .. 2 : decoder'[s] = decoder[s] /\ placed'[s] = placed[s]
  BY <1>1, TheStreams
<1>3. /\ entries' = <<>> /\ wrote' = <<>> /\ consuming' = NoSlot /\ writer' = "polling"
      /\ \A s \in 1 .. 2 : decoder'[s] = NoDecoder /\ placed'[s] = <<>>
  BY <1>2 DEF Course, Before, vars, queueVars
<1>4. Shape'
  BY <1>2 DEF Shape, Streams
<1>5. Before' /\ TransferCourse'
  BY <1>3 DEF Before, TransferCourse
<1>6. ReadOutCourse'
  BY <1>2 DEF ReadOutCourse
<1> QED
  BY <1>4, <1>5, <1>6 DEF Course

(* A content is opened for reading. *)
LEMMA BeginsKeeps == Course /\ ReadOutBegins => Course'
<1> SUFFICES ASSUME Course, ReadOutBegins PROVE Course'
  OBVIOUS
<1>1. PICK info \in ReadFiles : decoder' = [decoder EXCEPT ![0] = NewDecoder(0, info)]
  BY DEF ReadOutBegins, Opens
<1>2. /\ readout = "none" /\ readout' = "running" /\ UNCHANGED <<vars, entries>>
      /\ placed' = [placed EXCEPT ![0] = [i \in 1 .. HeaderSize |-> Plain(HeaderUnits(0)[i])]]
  BY DEF ReadOutBegins
<1>3. IsFile(info)
  BY FilesAssumption
<1>4. PICK d, pl : d = NewDecoder(0, info) /\ pl = Upto(info, 0, HeaderSize)
  OBVIOUS
<1>5. [i \in 1 .. HeaderSize |-> Plain(HeaderUnits(0)[i])] = pl
  BY <1>3, <1>4, HeaderPlaced
<1>6. ReadOutKept(info, d, pl, zstd')
  BY <1>3, <1>4, ReadOutStarts
<1> QED
  BY <1>1, <1>2, <1>4, <1>5, <1>6, ReadOutOnly

(* What a read-out that goes on has. *)
LEMMA WhileReading ==
  ASSUME Course, Reading
  PROVE  \E info \in ReadFiles, c \in Nat :
           /\ IsFile(info) /\ decoder[0].info = info
           /\ ReadOutGoes(info, decoder[0], placed[0], zstd, c)
           /\ Written = decoder[0].base /\ decoder[0].base \in Nat /\ decoder[0].end \in Nat
           /\ decoder[0].base <= info.size /\ info.size \in Nat
           /\ Wanted \in Nat /\ Written + Wanted <= info.size
           /\ Wanted = 0 => decoder[0].base = info.size
<1>1. PICK info \in ReadFiles : ReadOutKept(info, decoder[0], placed[0], zstd) /\ ~decoder[0].failed
  BY DEF Course, ReadOutCourse, Reading
<1>2. PICK c \in Nat : decoder[0].info = info /\ ReadOutGoes(info, decoder[0], placed[0], zstd, c)
  BY <1>1 DEF ReadOutKept
<1>3. IsFile(info)
  BY FilesAssumption
<1>4. PICK d, pl : d = decoder[0] /\ pl = placed[0]
  OBVIOUS
<1>5. OnCourse(d, 0, info, c) /\ d.base <= info.size /\ pl = Upto(info, 0, d.base)
  BY <1>2, <1>4 DEF ReadOutGoes
<1>6. d.base \in Nat /\ d.end \in Nat /\ info.size \in Nat
  <2>1. info.size \in Nat
    BY <1>3 DEF IsFile
  <2> QED
    BY <1>3, <1>5, <2>1, NewPlaceIsEmpty
<1>7. Len(pl) = d.base
  BY <1>3, <1>5, <1>6, UptoIsASeq
<1>8. Written = d.base
  BY <1>4, <1>7 DEF Written
<1>9. Wanted = IF info.size - d.base < ChunkSize THEN info.size - d.base ELSE ChunkSize
  BY <1>2, <1>4, <1>8 DEF Wanted
<1>10. ChunkSize \in Nat /\ ChunkSize > 0
  BY DecoderAssumption
<1>11. Wanted \in Nat /\ d.base + Wanted <= info.size /\ (Wanted = 0 => d.base = info.size)
  BY <1>5, <1>6, <1>9, <1>10
<1> QED
  BY <1>2, <1>3, <1>4, <1>5, <1>6, <1>8, <1>11

(* DecodeUntil. *)
LEMMA DecodesKeeps == Course /\ DecodesUntil => Course'
<1> SUFFICES ASSUME Course, DecodesUntil PROVE Course'
  OBVIOUS
<1>1. /\ Reading /\ Needed /\ readout = "running" /\ readout' = "running"
      /\ UNCHANGED <<vars, entries>> /\ placed' = placed
  BY DEF DecodesUntil, Reading
<1>2. PICK info \in ReadFiles, c \in Nat :
        /\ IsFile(info) /\ decoder[0].info = info
        /\ ReadOutGoes(info, decoder[0], placed[0], zstd, c)
        /\ Written = decoder[0].base /\ decoder[0].base \in Nat /\ decoder[0].end \in Nat
        /\ info.size \in Nat /\ Wanted \in Nat /\ Written + Wanted <= info.size
  BY <1>1, WhileReading
<1>3. PICK d, pl : d = decoder[0] /\ pl = placed[0]
  OBVIOUS
<1>4. d.end < info.size
  BY <1>1, <1>2, <1>3 DEF Needed
<1>5. placed' = placed /\ pl = placed[0]
  BY <1>1, <1>3
<1>6. ASSUME NEW a, decoder' = [decoder EXCEPT ![0] = a], ReadOutKept(info, a, pl, zstd')
      PROVE  Course'
  BY <1>1, <1>5, <1>6, ReadOutOnly
<1>7. ReadOutGoes(info, d, pl, zstd, c)
  BY <1>2, <1>3
<1>8. CASE d.next = <<>> /\ d.exhausted /\ decoder' = [decoder EXCEPT ![0] = Failing(d)] /\ UNCHANGED zstd
  <2>1. ReadOutKept(info, Failing(d), pl, zstd')
    BY <1>2, <1>4, <1>7, <1>8, NothingMoreToRead
  <2> QED
    BY <1>6, <1>8, <2>1
<1>9. CASE /\ d.next = <<>> /\ ~d.exhausted /\ d.payloadRead = PayloadSize(d.info)
           /\ decoder' = [decoder EXCEPT ![0].exhausted = TRUE] /\ UNCHANGED zstd
  <2>1. decoder' = [decoder EXCEPT ![0] = Drained(d)]
    BY <1>3, <1>9 DEF Drained
  <2>2. d.payloadRead = info.payload
    BY <1>2, <1>3, <1>9 DEF PayloadSize
  <2>3. ReadOutKept(info, Drained(d), pl, zstd')
    BY <1>7, <1>9, <2>2, PayloadIsRead
  <2> QED
    BY <1>6, <2>1, <2>3
<1>10. CASE /\ d.next # <<>> \/ (~d.exhausted /\ d.payloadRead # PayloadSize(d.info))
            /\ Step(0, IF d.next = <<>> THEN Refilled(d) ELSE d)
  <2>1. PICK fed : fed = IF d.next = <<>> THEN Refilled(d) ELSE d
    OBVIOUS
  <2>2. PICK a : a = Stepped(fed, Context(fed, zstd))
    OBVIOUS
  <2>3. decoder' = [decoder EXCEPT ![0] = a.decoder] /\ zstd' = a.zstd
    BY <1>10, <2>1, <2>2 DEF Step
  <2>4. d.next # <<>> \/ (~d.exhausted /\ d.payloadRead # info.payload)
    BY <1>2, <1>3, <1>10 DEF PayloadSize
  <2>5. ReadOutKept(info, a.decoder, pl, a.zstd)
    BY <1>2, <1>7, <2>1, <2>2, <2>4, ReadOutTurns
  <2> QED
    BY <1>6, <2>3, <2>5
<1> QED
  BY <1>3, <1>8, <1>9, <1>10 DEF DecodesUntil

(* A chunk is pulled, encrypted and written. *)
LEMMA PullsKeeps == Course /\ PullsChunk => Course'
<1> SUFFICES ASSUME Course, PullsChunk PROVE Course'
  OBVIOUS
<1>1. /\ Reading /\ ~Needed /\ Wanted > 0 /\ readout = "running" /\ readout' = "running"
      /\ UNCHANGED <<vars, entries>> /\ zstd' = zstd
  BY DEF PullsChunk, Reading
<1>2. PICK info \in ReadFiles, c \in Nat :
        /\ IsFile(info) /\ decoder[0].info = info
        /\ ReadOutGoes(info, decoder[0], placed[0], zstd, c)
        /\ Written = decoder[0].base /\ decoder[0].base \in Nat /\ decoder[0].end \in Nat
        /\ info.size \in Nat /\ Wanted \in Nat /\ Written + Wanted <= info.size
  BY <1>1, WhileReading
<1>3. PICK d, pl, n : d = decoder[0] /\ pl = placed[0] /\ n = Wanted
  OBVIOUS
<1>4. n \in Nat /\ n > 0 /\ d.base + n <= d.end /\ d.base + n <= info.size
  BY <1>1, <1>2, <1>3 DEF Needed
<1>5. PICK t : t = TakeUnits(d, d.base, n)
  OBVIOUS
<1>6. ReadOutGoes(info, d, pl, zstd, c)
  BY <1>2, <1>3
<1>7. t.units # <<>> /\ ReadOutKept(info, t.d, pl \o Reencrypt(info, d.base, t.units), zstd)
  BY <1>2, <1>4, <1>5, <1>6, ReadOutPulls
<1>8. IF Overruns(d) \/ t.units = <<>>
        THEN decoder' = [decoder EXCEPT ![0] = Failing(@)] /\ UNCHANGED placed
        ELSE /\ decoder' = [decoder EXCEPT ![0] = t.d]
             /\ placed' = [placed EXCEPT ![0] = @ \o Reencrypt(info, d.base, t.units)]
  BY <1>2, <1>3, <1>5 DEF PullsChunk
<1>9. CASE Overruns(d)
  <2>1. decoder' = [decoder EXCEPT ![0] = Failing(d)] /\ placed' = placed /\ pl = placed[0]
    BY <1>3, <1>8, <1>9
  <2>2. ReadOutKept(info, Failing(d), pl, zstd')
    BY <1>1, <1>2, <1>6, <1>9, ReadOutOverruns
  <2> QED
    BY <1>1, <2>1, <2>2, ReadOutOnly
<1>10. CASE ~Overruns(d)
  <2>1. PICK pl2, a : pl2 = pl \o Reencrypt(info, d.base, t.units) /\ a = t.d
    OBVIOUS
  <2>2. decoder' = [decoder EXCEPT ![0] = a] /\ placed' = [placed EXCEPT ![0] = pl2]
    BY <1>3, <1>7, <1>8, <1>10, <2>1
  <2>3. ReadOutKept(info, a, pl2, zstd')
    BY <1>1, <1>7, <2>1
  <2> QED
    BY <1>1, <2>2, <2>3, ReadOutOnly
<1> QED
  BY <1>9, <1>10

(* The read-out ends, or is given up. *)
LEMMA ReadOutStops == Course /\ (ReadOutFails \/ ReadOutEnds) => Course'
<1> SUFFICES ASSUME Course, ReadOutFails \/ ReadOutEnds PROVE Course'
  OBVIOUS
<1>1. CASE ReadOutFails
  <2>1. /\ readout = "running" /\ readout' = "none" /\ UNCHANGED <<vars, entries>>
        /\ decoder' = [decoder EXCEPT ![0] = NoDecoder] /\ placed' = [placed EXCEPT ![0] = <<>>]
    BY <1>1 DEF ReadOutFails
  <2>2. PICK d, pl : d = NoDecoder /\ pl = <<>>
    OBVIOUS
  <2> QED
    BY <2>1, <2>2, ReadOutOnly
<1>2. CASE ReadOutEnds
  <2>1. /\ Reading /\ Wanted = 0 /\ readout = "running" /\ readout' = "done" /\ UNCHANGED <<vars, entries>>
        /\ decoder' = decoder /\ placed' = placed /\ ~decoder[0].failed
    BY <1>2 DEF ReadOutEnds, Reading
  <2>2. PICK info \in ReadFiles, c \in Nat :
          /\ IsFile(info) /\ decoder[0].info = info
          /\ ReadOutGoes(info, decoder[0], placed[0], zstd, c)
          /\ decoder[0].base = info.size
    BY <2>1, WhileReading
  <2>3. PICK d, pl : d = decoder[0] /\ pl = placed[0]
    OBVIOUS
  <2>4. pl = Rebuilt(info, 0)
    BY <2>2, <2>3, ReadOutIsWhole
  <2>5. decoder' = decoder /\ d = decoder[0] /\ placed' = placed /\ pl = placed[0]
    BY <2>1, <2>3
  <2> QED
    BY <2>1, <2>2, <2>3, <2>4, <2>5, ReadOutOnly
<1> QED
  BY <1>1, <1>2

TheEntry(s) == EntryKept(entries, s, Taken, Len(wrote), decoder[s], placed[s], zstd)

(* A step of the transfer. *)
LEMMA TransferOnly ==
  ASSUME Course, readout = "over", UNCHANGED <<readout, entries>>,
         DOMAIN decoder' = Streams, DOMAIN placed' = Streams,
         decoder'[0] = decoder[0], placed'[0] = placed[0],
         \A s \in 1 .. 2 : TheEntry(s)',
         writer' = "finished" => \A s \in 1 .. 2 : ~decoder'[s].failed
  PROVE  Course'
<1>1. Shape' /\ Before'
  BY DEF Course, Shape, Before
<1>2. ReadOutCourse'
  BY DEF Course, ReadOutCourse
<1>3. TransferCourse'
  BY DEF Course, TransferCourse, EntriesKept, NoneRefused, TheEntry
<1> QED
  BY <1>1, <1>2, <1>3 DEF Course

(* A step that leaves the decoders and the placeholders alone. *)
LEMMA EntriesStay ==
  ASSUME Course, Transferring, UNCHANGED <<streamVars, wrote, consuming>>,
         writer' = "finished" => writer = "finished" \/ ~Refused
  PROVE  Course'
<1>1. /\ readout = "over" /\ UNCHANGED <<readout, entries, decoder, placed, zstd, wrote, consuming>>
  BY DEF Transferring, streamVars, decoderVars
<1>2. entries \in Packages /\ \A s \in 1 .. 2 : TheEntry(s)
  BY <1>1 DEF Course, TransferCourse, EntriesKept, TheEntry
<1>3. \A s \in 1 .. 2 : TheEntry(s)'
  BY <1>1, <1>2 DEF TheEntry, Taken
<1>4. Len(entries) = 2
  <2>1. entries = <<entries[1], entries[2]>>
    BY <1>2, FilesAssumption
  <2> QED
    BY <2>1
<1>5. writer' = "finished" => \A s \in 1 .. 2 : ~decoder'[s].failed
  BY <1>1, <1>4 DEF Refused, Course, TransferCourse, NoneRefused
<1> QED
  BY <1>1, <1>3, <1>5, TransferOnly DEF Course, Shape

(* The fetch thread moves pieces, and nothing of the writer's. *)
LEMMA FetchKeeps == Course /\ FetchThread => Course'
<1> SUFFICES ASSUME Course, Transferring, ReaderNext, UNCHANGED streamVars PROVE Course'
  BY DEF FetchThread
<1>1. UNCHANGED <<wrote, consuming, writer>>
  BY DEF ReaderNext, ReaderAcquires, AcquireSlot, ReaderSleeps, ReaderRefused, ReaderFills, FillSlot,
         ReaderFails, ReaderPublishes, Publish, ReaderFinishes, Finish, Fail, queueVars
<1> QED
  BY <1>1, EntriesStay

(* The writer hears a verdict: "finished" only while no decoder refused. *)
LEMMA HearsKeeps == Course /\ StreamHears => Course'
<1> SUFFICES ASSUME Course, StreamHears PROVE Course'
  OBVIOUS
<1>1. Transferring /\ ~Refused /\ UNCHANGED streamVars
  BY DEF StreamHears
<1>2. UNCHANGED <<wrote, consuming>>
  BY DEF StreamHears, WriterHearsStopped, WriterHearsFailed, WriterHearsFinished, queueVars
<1> QED
  BY <1>1, <1>2, EntriesStay

(* The run is given up. *)
LEMMA StopsKeeps == Course /\ StreamStops => Course'
<1> SUFFICES ASSUME Course, StreamStops PROVE Course'
  OBVIOUS
<1>1. Transferring /\ UNCHANGED streamVars
  BY DEF StreamStops
<1>2. UNCHANGED <<wrote, consuming>> /\ (writer' = writer \/ writer' = "left")
  BY DEF StreamStops, WriterLeaves, WriterStops, Joins, RequestStop, queueVars, vars
<1> QED
  BY <1>1, <1>2, EntriesStay

(* The transfer begins, on whatever the read-out left. *)
LEMMA TransferBeginsKeeps == Course /\ TransferBegins => Course'
<1> SUFFICES ASSUME Course, TransferBegins PROVE Course'
  OBVIOUS
<1>1. PICK p \in Packages :
        /\ entries' = p
        /\ decoder' = [s \in Streams |-> IF s = 0 THEN NoDecoder ELSE NewDecoder(s, p[s])]
  BY DEF TransferBegins
<1>2. /\ readout # "over" /\ readout' = "over" /\ placed' = [s \in Streams |-> <<>>]
      /\ UNCHANGED <<wrote, consuming, writer, zstd>>
  BY DEF TransferBegins, vars, queueVars
<1>3. wrote' = <<>> /\ consuming' = NoSlot /\ writer' = "polling"
  BY <1>2 DEF Course, Before
<1>4. Len(wrote') = 0 /\ Taken' = 0
  BY <1>3, EmptySeq DEF Taken
<1>5. ASSUME NEW s \in 1 .. 2 PROVE EntryKept(entries', s, Taken', Len(wrote'), decoder'[s], placed'[s], zstd')
  <2>1. s \in Streams /\ s # 0
    BY TheStreams
  <2>2. PICK d : d = NewDecoder(s, p[s])
    OBVIOUS
  <2>3. decoder'[s] = d /\ placed'[s] = <<>>
    BY <1>1, <1>2, <2>1, <2>2
  <2>4. EntryKept(p, s, 0, 0, d, <<>>, zstd')
    BY <2>2, EntryStarts
  <2> QED
    BY <1>1, <1>4, <2>3, <2>4
<1>6. decoder'[0] = NoDecoder /\ placed'[0] = <<>>
  BY <1>1, <1>2, TheStreams
<1>7. Shape' /\ Before' /\ ReadOutCourse'
  BY <1>1, <1>2, <1>6 DEF Shape, Before, ReadOutCourse
<1>8. TransferCourse'
  BY <1>1, <1>3, <1>5 DEF TransferCourse, EntriesKept
<1> QED
  BY <1>7, <1>8 DEF Course

(* What the writer holds, and what each of the two entries has. *)
LEMMA HoldsNext ==
  ASSUME IInv, Course, Transferring, writer = "holding"
  PROVE  /\ Taken \in 1 .. NumPieces /\ Len(wrote) \in Nat /\ Taken = Len(wrote) + 1
         /\ slots[consuming] = Taken /\ Held = Ranges(entries)[Taken]
<1>1. TypeOK /\ Len(wrote) \in Nat /\ Len(items) \in Nat
  BY Elements DEF IInv
<1>2. consuming # NoSlot
  BY DEF IInv, Owners
<1>3. Taken = Len(wrote) + 1 /\ slots[consuming] = Taken
  BY <1>2 DEF IInv, Stream, Taken
<1>4. Taken <= NumPieces
  <2>1. sent = Taken + Len(items) /\ sent \in 0 .. NumPieces
    BY DEF IInv, Stream, TypeOK
  <2> QED
    BY <1>1, <1>3, <2>1, NumPiecesAssumption
<1> QED
  BY <1>1, <1>3, <1>4, NumPiecesAssumption DEF Held

(* What the invariant says during the transfer. *)
LEMMA InTransfer ==
  ASSUME Course, Transferring
  PROVE  /\ readout = "over" /\ entries \in Packages /\ Len(entries) = 2
         /\ DOMAIN decoder = Streams /\ DOMAIN placed = Streams
         /\ \A s \in 1 .. 2 : EntryKept(entries, s, Taken, Len(wrote), decoder[s], placed[s], zstd)
         /\ ~Refused => \A s \in 1 .. 2 : ~decoder[s].failed
<1>1. readout = "over" /\ entries \in Packages /\ EntriesKept
  BY DEF Course, TransferCourse, Transferring
<1>2. entries = <<entries[1], entries[2]>>
  BY <1>1, FilesAssumption
<1>3. Len(entries) = 2
  BY <1>2
<1> QED
  BY <1>1, <1>3 DEF Course, Shape, EntriesKept, Refused

(* An entry that is not refused goes on. *)
LEMMA KeptGoes ==
  ASSUME NEW p, NEW s, NEW T, NEW W, NEW d, NEW pl, NEW z, EntryKept(p, s, T, W, d, pl, z),
         ~d.failed \/ ~InPayload(p, s, T)
  PROVE  \E c \in Nat : EntryGoes(p, s, T, W, d, pl, z, c)
BY DEF EntryKept, EntryRefused

(* ... and one that goes on is not refused. *)
LEMMA GoesUnrefused ==
  ASSUME NEW p, NEW s, NEW T, NEW W, NEW d, NEW pl, NEW z, NEW c, EntryGoes(p, s, T, W, d, pl, z, c)
  PROVE  ~d.failed /\ Made(d)
<1>1. OnCourse(d, s, p[s], c)
  BY DEF EntryGoes
<1> QED
  BY <1>1, OnCourseFields DEF OnCourse, Dec, Fields, Made

(* A piece is taken, and fed when it is a chunk. *)
LEMMA TakesKeeps == IInv /\ IInv' /\ Course /\ StreamTakes => Course'
<1> SUFFICES ASSUME IInv, IInv', Course, StreamTakes PROVE Course'
  OBVIOUS
<1>1. /\ Transferring /\ ~Refused /\ WriterTakes
      /\ UNCHANGED <<zstd, readout, entries, placed>>
      /\ LET range == Ranges(entries)[slots[consuming']]
         IN decoder' = IF range.payload THEN [decoder EXCEPT ![range.stream] = Fed(@, range.units)]
                                        ELSE decoder
  BY DEF StreamTakes
<1>2. writer = "polling" /\ writer' = "holding" /\ wrote' = wrote /\ slots' = slots
  BY <1>1 DEF WriterTakes, TakeItem
<1>3. PICK W, T : W = Len(wrote) /\ T = Taken'
  OBVIOUS
<1>4. W \in Nat /\ Taken = W
  <2>1. consuming = NoSlot /\ TypeOK
    BY <1>2 DEF IInv, Owners
  <2> QED
    BY <1>3, <2>1, Elements DEF Taken
<1>5. consuming' # NoSlot
  BY <1>2 DEF IInv, Owners
<1>6. T = W + 1 /\ slots[consuming'] = T
  BY <1>2, <1>3, <1>5 DEF IInv, Stream, Taken
<1>7. T \in 1 .. NumPieces
  <2>1. sent' = Taken' + Len(items') /\ sent' \in 0 .. NumPieces /\ items' \in Seq(QueueEntry)
    BY DEF IInv, Stream, TypeOK
  <2>2. Len(items') \in Nat
    BY <2>1, LenProperties
  <2>3. PICK x, y, k : x = sent' /\ y = Len(items') /\ k = Taken'
    OBVIOUS
  <2>4. x = k + y /\ x \in 0 .. NumPieces /\ y \in Nat /\ NumPieces \in Nat
    BY <2>1, <2>2, <2>3, NumPiecesAssumption
  <2>5. k = W + 1
    BY <1>3, <1>6, <2>3
  <2>6. k \in 1 .. NumPieces
    BY <1>4, <2>4, <2>5
  <2> QED
    BY <1>6, <2>5, <2>6
<1>8. PICK p : p = entries
  OBVIOUS
<1>9. /\ readout = "over" /\ p \in Packages /\ DOMAIN decoder = Streams /\ DOMAIN placed = Streams
      /\ \A s \in 1 .. 2 : EntryKept(p, s, W, W, decoder[s], placed[s], zstd) /\ ~decoder[s].failed
  BY <1>1, <1>3, <1>4, <1>8, InTransfer
<1>10. PICK r : r = Ranges(p)[T]
  OBVIOUS
<1>11. decoder' = IF r.payload THEN [decoder EXCEPT ![r.stream] = Fed(@, r.units)] ELSE decoder
  BY <1>1, <1>6, <1>8, <1>10
<1>12. ASSUME NEW s \in 1 .. 2, InPayload(p, s, T) PROVE r.payload /\ r.stream = s
  BY <1>7, <1>9, <1>10, <1>12, ChunkOf
<1>13. ASSUME NEW s \in 1 .. 2, T = First(p, s) + 1 PROVE ~r.payload
  BY <1>9, <1>10, <1>13, HeaderOf
<1>14. PICK t \in 1 .. 2 : T = First(p, t) + 1 \/ InPayload(p, t, T)
  BY <1>7, <1>9, Kinds
<1>15. ASSUME NEW s \in 1 .. 2 PROVE TheEntry(s)'
  <2>1. PICK c \in Nat : EntryGoes(p, s, W, W, decoder[s], placed[s], zstd, c)
    BY <1>9, KeptGoes
  <2>2. CASE InPayload(p, s, T)
    <3>1. PICK a, u : a = Fed(decoder[s], u) /\ u = Ranges(p)[T].units
      OBVIOUS
    <3>2. decoder'[s] = a
      BY <1>9, <1>10, <1>11, <1>12, <2>2, <3>1, TheStreams
    <3>3. EntryGoes(p, s, T, W, a, placed[s], zstd, c)
      BY <1>4, <1>6, <1>7, <1>9, <2>1, <2>2, <3>1, EntryIsFed
    <3> QED
      BY <1>1, <1>2, <1>3, <1>8, <3>2, <3>3 DEF TheEntry, EntryKept
  <2>3. CASE ~InPayload(p, s, T)
    <3>1. decoder'[s] = decoder[s]
      <4>1. CASE T = First(p, t) + 1
        BY <1>11, <1>13, <4>1
      <4>2. CASE InPayload(p, t, T)
        BY <1>9, <1>11, <1>12, <2>3, <4>2, TheStreams
      <4> QED
        BY <1>14, <4>1, <4>2
    <3>2. EntryGoes(p, s, T, W, decoder[s], placed[s], zstd, c)
      BY <1>4, <1>6, <1>7, <1>9, <2>1, <2>3, EntryWaits
    <3> QED
      BY <1>1, <1>2, <1>3, <1>8, <3>1, <3>2 DEF TheEntry, EntryKept
  <2> QED
    BY <2>2, <2>3
<1>16. decoder'[0] = decoder[0] /\ DOMAIN decoder' = Streams
  <2>1. r.payload => r.stream # 0
    BY <1>12, <1>13, <1>14, TheStreams
  <2> QED
    BY <1>9, <1>11, <2>1, TheStreams
<1> QED
  BY <1>1, <1>2, <1>9, <1>15, <1>16, TransferOnly

(* One turn of Feed's loop: the decoder that owns the piece steps, the other is left. *)
LEMMA StepsKeeps == IInv /\ Course /\ StreamDecodes => Course'
<1> SUFFICES ASSUME IInv, Course, StreamDecodes PROVE Course'
  OBVIOUS
<1>1. /\ Transferring /\ InFeed /\ UNCHANGED <<vars, readout, entries, placed>>
      /\ Step(Held.stream, decoder[Held.stream])
  BY DEF StreamDecodes
<1>2. writer = "holding" /\ Held.payload /\ ~Refused /\ decoder[Held.stream].next # <<>>
  BY <1>1 DEF InFeed
<1>3. PICK W, T, p : W = Len(wrote) /\ T = Taken /\ p = entries
  OBVIOUS
<1>4. W \in Nat /\ T \in 1 .. NumPieces /\ T = W + 1 /\ Held = Ranges(p)[T]
  BY <1>1, <1>2, <1>3, HoldsNext
<1>5. /\ readout = "over" /\ p \in Packages /\ DOMAIN decoder = Streams /\ DOMAIN placed = Streams
      /\ \A s \in 1 .. 2 : EntryKept(p, s, T, W, decoder[s], placed[s], zstd) /\ ~decoder[s].failed
  BY <1>1, <1>2, <1>3, InTransfer
<1>6. PICK t \in 1 .. 2 : InPayload(p, t, T)
  <2>1. PICK t \in 1 .. 2 : T = First(p, t) + 1 \/ InPayload(p, t, T)
    BY <1>4, <1>5, Kinds
  <2>2. T # First(p, t) + 1
    BY <1>2, <1>4, <1>5, HeaderOf
  <2> QED
    BY <2>1, <2>2
<1>7. Held.stream = t
  BY <1>4, <1>5, <1>6, ChunkOf
<1>8. PICK d, a : d = decoder[t] /\ a = Stepped(d, Context(d, zstd))
  OBVIOUS
<1>9. decoder' = [decoder EXCEPT ![t] = a.decoder] /\ zstd' = a.zstd
  BY <1>1, <1>7, <1>8 DEF Step
<1>10. wrote' = wrote /\ consuming' = consuming /\ writer' = "holding" /\ Taken' = T
  BY <1>1, <1>2, <1>3 DEF vars, queueVars, Taken
<1>11. TheEntry(t)'
  <2>1. PICK c \in Nat : EntryGoes(p, t, T, W, d, placed[t], zstd, c)
    BY <1>5, <1>8, KeptGoes
  <2>2. d.next # <<>>
    BY <1>2, <1>7, <1>8
  <2>3. Made(a.decoder)
    BY <1>8, <2>1, GoesUnrefused, SteppedIsMade
  <2>4. EntryKept(p, t, T, W, a.decoder, placed[t], a.zstd)
    BY <1>4, <1>5, <1>6, <1>8, <2>1, <2>2, <2>3, EntryDecodes
  <2>5. decoder'[t] = a.decoder
    BY <1>5, <1>9, TheStreams
  <2> QED
    BY <1>1, <1>3, <1>9, <1>10, <2>4, <2>5 DEF TheEntry
<1>12. ASSUME NEW s \in 1 .. 2, s # t PROVE TheEntry(s)'
  <2>1. PICK c \in Nat : EntryGoes(p, s, T, W, decoder[s], placed[s], zstd, c)
    BY <1>5, KeptGoes
  <2>2. EntryGoes(p, s, T, W, decoder[s], placed[s], zstd', c)
    BY <1>4, <1>5, <1>6, <1>12, <2>1, EntryIsLeft
  <2>3. decoder'[s] = decoder[s]
    BY <1>5, <1>9, <1>12, TheStreams
  <2> QED
    BY <1>1, <1>3, <1>10, <2>2, <2>3 DEF TheEntry, EntryKept
<1>13. decoder'[0] = decoder[0] /\ DOMAIN decoder' = Streams
  BY <1>5, <1>9, TheStreams
<1> QED
  BY <1>1, <1>5, <1>10, <1>11, <1>12, <1>13, TransferOnly

-----------------------------------------------------------------------------
(* ... and the three properties it gives. *)
(* The piece is written, or refused, and its buffer goes back. *)
LEMMA ReleasesKeeps == IInv /\ Course /\ StreamReleases => Course'
<1> SUFFICES ASSUME IInv, Course, StreamReleases PROVE Course'
  OBVIOUS
<1>1. /\ Transferring /\ ~InFeed /\ WriterReleases /\ UNCHANGED <<zstd, readout, entries>>
  BY DEF StreamReleases
<1>2. /\ writer = "holding" /\ writer' = "polling" /\ wrote' = Append(wrote, slots[consuming])
      /\ consuming' = NoSlot
  BY <1>1 DEF WriterReleases, Release
<1>3. PICK W, T, p : W = Len(wrote) /\ T = Taken /\ p = entries
  OBVIOUS
<1>4. W \in Nat /\ T \in 1 .. NumPieces /\ T = W + 1 /\ Held = Ranges(p)[T] /\ slots[consuming] = T
  BY <1>1, <1>2, <1>3, HoldsNext
<1>5. /\ readout = "over" /\ p \in Packages /\ DOMAIN decoder = Streams /\ DOMAIN placed = Streams
      /\ \A s \in 1 .. 2 : EntryKept(p, s, T, W, decoder[s], placed[s], zstd)
  BY <1>1, <1>3, InTransfer
<1>6. Len(wrote') = T /\ Taken' = T
  <2>1. wrote \in Seq(Piece \cup {Torn}) /\ slots[consuming] \in Piece \cup {Torn}
    BY <1>4 DEF IInv, TypeOK, Piece
  <2>2. Len(wrote') = W + 1
    BY <1>2, <1>3, <2>1, AppendProperties
  <2>3. T \in Nat
    BY <1>4
  <2> QED
    BY <1>2, <1>4, <2>2, <2>3 DEF Taken
<1>7. PICK t \in 1 .. 2 : T = First(p, t) + 1 \/ InPayload(p, t, T)
  BY <1>4, <1>5, Kinds
<1>8. Held.stream = t /\ t \in Streams /\ t # 0
  BY <1>4, <1>5, <1>7, ChunkOf, HeaderOf, TheStreams
<1>9. ASSUME NEW s \in 1 .. 2, s # t, decoder'[s] = decoder[s], placed'[s] = placed[s] PROVE TheEntry(s)'
  <2>1. T # First(p, s) + 1 /\ ~InPayload(p, s, T)
    BY <1>4, <1>5, <1>7, <1>9, OnlyOne
  <2>2. PICK c \in Nat : EntryGoes(p, s, T, W, decoder[s], placed[s], zstd, c)
    BY <1>5, <2>1, KeptGoes
  <2>3. EntryGoes(p, s, T, T, decoder[s], placed[s], zstd, c)
    BY <1>4, <1>5, <2>1, <2>2, EntryStays
  <2> QED
    BY <1>1, <1>3, <1>6, <1>9, <2>3 DEF TheEntry, EntryKept
<1>10. ASSUME NEW d, NEW pl, EntryKept(p, t, T, T, d, pl, zstd),
              decoder' = [decoder EXCEPT ![t] = d] \/ (decoder' = decoder /\ d = decoder[t]),
              placed' = [placed EXCEPT ![t] = pl] \/ (placed' = placed /\ pl = placed[t])
       PROVE  Course'
  <2>1. /\ DOMAIN decoder' = Streams /\ DOMAIN placed' = Streams
        /\ decoder'[0] = decoder[0] /\ placed'[0] = placed[0] /\ decoder'[t] = d /\ placed'[t] = pl
        /\ \A s \in 1 .. 2 : s # t => decoder'[s] = decoder[s] /\ placed'[s] = placed[s]
    BY <1>5, <1>8, <1>10, TheStreams
  <2>2. TheEntry(t)'
    BY <1>1, <1>3, <1>6, <1>10, <2>1 DEF TheEntry
  <2>3. \A s \in 1 .. 2 : TheEntry(s)'
    BY <1>9, <2>1, <2>2
  <2>4. writer' # "finished"
    BY <1>2
  <2> QED
    BY <1>1, <1>5, <2>1, <2>3, <2>4, TransferOnly
<1>11. CASE ~Held.payload
  <2>1. T = First(p, t) + 1 /\ Held.units = HeaderUnits(t)
    BY <1>4, <1>5, <1>7, <1>11, ChunkOf, HeaderOf
  <2>2. /\ placed' = [placed EXCEPT ![t] = [i \in 1 .. HeaderSize |-> Plain(HeaderUnits(t)[i])]]
        /\ decoder' = decoder
    BY <1>8, <1>11, <2>1 DEF StreamReleases
  <2>3. PICK d, pl, info : d = decoder[t] /\ pl = Upto(info, t, HeaderSize) /\ info = p[t]
    OBVIOUS
  <2>4. IsFile(info) /\ ~InPayload(p, t, T)
    BY <1>5, <2>1, <2>3, EntryIsFile DEF InPayload
  <2>5. placed' = [placed EXCEPT ![t] = pl]
    BY <2>2, <2>3, <2>4, HeaderPlaced
  <2>6. PICK c \in Nat : EntryGoes(p, t, T, W, d, placed[t], zstd, c)
    BY <1>5, <2>3, <2>4, KeptGoes
  <2>7. EntryGoes(p, t, T, T, d, pl, zstd, c)
    BY <1>4, <1>5, <2>1, <2>3, <2>6, HeaderIsWritten
  <2>8. EntryKept(p, t, T, T, d, pl, zstd)
    BY <2>7 DEF EntryKept
  <2> QED
    BY <1>10, <2>2, <2>3, <2>5, <2>8
<1>12. CASE Held.payload
  <2>1. InPayload(p, t, T)
    BY <1>4, <1>5, <1>7, <1>12, HeaderOf
  <2>2. PICK d, pl : d = decoder[t] /\ pl = placed[t]
    OBVIOUS
  <2>3. CASE d.failed \/ Overruns(d)
    <3>1. decoder' = [decoder EXCEPT ![t] = Failing(d)] /\ placed' = placed
      BY <1>8, <1>12, <2>2, <2>3 DEF StreamReleases
    <3>2. PICK a : a = Failing(d)
      OBVIOUS
    <3>3. EntryKept(p, t, T, W, d, pl, zstd)
      BY <1>5, <2>2
    <3>4. EntryRefused(p, t, T, a)
      BY <1>4, <1>5, <2>1, <2>3, <3>2, <3>3, EntryIsRefused
    <3>5. EntryKept(p, t, T, T, a, pl, zstd)
      BY <3>4 DEF EntryKept
    <3> QED
      BY <1>10, <2>2, <3>1, <3>2, <3>5
  <2>4. CASE ~d.failed /\ ~Overruns(d)
    <3>1. PICK a, pl2 : a = Consumed(d) /\ pl2 = pl \o WriteDecoded(d, Len(pl))
      OBVIOUS
    <3>2. decoder' = [decoder EXCEPT ![t] = a] /\ placed' = [placed EXCEPT ![t] = pl2]
      BY <1>8, <1>12, <2>2, <2>4, <3>1 DEF StreamReleases
    <3>3. PICK c \in Nat : EntryGoes(p, t, T, W, d, pl, zstd, c)
      BY <1>5, <2>2, <2>4, KeptGoes
    <3>4. ~Refused
      <4>1. ASSUME NEW s \in 1 .. 2 PROVE ~decoder[s].failed
        <5>1. CASE s = t
          BY <2>2, <2>4, <5>1
        <5>2. CASE s # t
          <6>1. ~InPayload(p, s, T)
            BY <1>4, <1>5, <2>1, <5>2, OnlyOne
          <6>2. PICK e \in Nat : EntryGoes(p, s, T, W, decoder[s], placed[s], zstd, e)
            BY <1>5, <6>1, KeptGoes
          <6> QED
            BY <6>2, GoesUnrefused
        <5> QED
          BY <5>1, <5>2
      <4>2. Len(entries) = 2
        BY <1>1, InTransfer
      <4> QED
        BY <4>1, <4>2 DEF Refused
    <3>5. d.next = <<>>
      BY <1>1, <1>2, <1>8, <1>12, <2>2, <3>4 DEF InFeed
    <3>6. EntryGoes(p, t, T, T, a, pl2, zstd, c)
      BY <1>4, <1>5, <2>1, <2>4, <3>1, <3>3, <3>5, EntryIsWritten
    <3>7. EntryKept(p, t, T, T, a, pl2, zstd)
      BY <3>6 DEF EntryKept
    <3> QED
      BY <1>10, <3>2, <3>7
  <2> QED
    BY <2>3, <2>4
<1> QED
  BY <1>11, <1>12

(* A stuttering step. *)
LEMMA NothingMoves == Course /\ UNCHANGED allVars => Course'
<1> SUFFICES ASSUME Course, UNCHANGED allVars PROVE Course'
  OBVIOUS
<1>1. UNCHANGED <<decoder, zstd, readout, entries, placed, wrote, consuming, writer>>
  BY DEF allVars, vars, queueVars, streamVars, decoderVars
<1>2. Taken' = Taken
  BY <1>1 DEF Taken
<1>3. Shape' /\ Before'
  BY <1>1 DEF Course, Shape, Before
<1>4. ReadOutCourse'
  BY <1>1 DEF Course, ReadOutCourse
<1>5. TransferCourse'
  BY <1>1, <1>2 DEF Course, TransferCourse, EntriesKept, NoneRefused
<1> QED
  BY <1>3, <1>4, <1>5 DEF Course

(* Every step keeps the course. *)
LEMMA CourseKept == IInv /\ IInv' /\ Course /\ [StreamNext]_allVars => Course'
<1>1. Course /\ (ReadOut \/ TransferBegins) => Course'
  BY BeginsKeeps, DecodesKeeps, PullsKeeps, ReadOutStops, TransferBeginsKeeps DEF ReadOut
<1>2. IInv /\ IInv' /\ Course /\ (FetchThread \/ WriterThread \/ StreamStops) => Course'
  BY FetchKeeps, TakesKeeps, StepsKeeps, ReleasesKeeps, HearsKeeps, StopsKeeps DEF WriterThread
<1> QED
  BY <1>1, <1>2, NothingMoves DEF StreamNext

(* The inductive invariant of the read-out and of the transfer. *)
LEMMA CourseInvariant == StreamSpec => []Course
BY StreamInvariant, CourseStarts, CourseKept, PTL DEF StreamSpec

(* An entry of the transfer, as the properties name it. *)
LEMMA EntryOf ==
  ASSUME Course, NEW s \in 1 .. 2, readout = "over"
  PROVE  /\ entries \in Packages /\ IsFile(entries[s]) /\ s \in 1 .. 2
         /\ EntryKept(entries, s, Taken, Len(wrote), decoder[s], placed[s], zstd)
         /\ InfoOf(s) = entries[s]
<1>1. s # 0
  BY TheStreams
<1> QED
  BY <1>1, EntryIsFile DEF Course, TransferCourse, EntriesKept, InfoOf

(* Wherever reads, zstd's output, blocks and sections end, the placeholder of a  *)
(* sound file holds a prefix of what the file is meant to become, unit by unit   *)
(* and under the keystream of its place: for every file, chunk size and header   *)
(* size, pulled by Prepare or fed from the queue.                              *)
THEOREM DecodedIsInPlace == StreamSpec => []DecodedInPlace
<1>1. Course => DecodedInPlace
  <2> SUFFICES ASSUME Course, NEW s \in Streams, placed[s] # <<>>, IsSound(InfoOf(s))
               PROVE  IsPrefix(placed[s], Rebuilt(InfoOf(s), s))
    BY DEF DecodedInPlace
  <2>1. readout \in {"none", "running", "done", "over"}
    BY DEF Course, Shape
  <2>2. CASE s = 0
    <3>1. PICK info \in ReadFiles :
            /\ decoder[0].info = info
            /\ \/ readout = "running" /\ ReadOutKept(info, decoder[0], placed[0], zstd)
               \/ readout = "done" /\ placed[0] = Rebuilt(info, 0)
      BY <2>1, <2>2 DEF Course, ReadOutCourse, ReadOutKept
    <3>2. IsFile(info) /\ InfoOf(s) = info /\ IsSound(info)
      BY <2>2, <3>1, FilesAssumption DEF InfoOf
    <3>3. PICK w \in Nat : w <= info.size /\ placed[0] = Upto(info, 0, w)
      <4>1. CASE readout = "running" /\ ReadOutKept(info, decoder[0], placed[0], zstd)
        <5>1. PICK c \in Nat : ReadOutGoes(info, decoder[0], placed[0], zstd, c)
          BY <3>2, <4>1 DEF ReadOutKept
        <5>2. PICK d, pl : d = decoder[0] /\ pl = placed[0]
          OBVIOUS
        <5>3. OnCourse(d, 0, info, c) /\ d.base <= info.size /\ pl = Upto(info, 0, d.base)
          BY <5>1, <5>2 DEF ReadOutGoes
        <5>4. d.base \in Nat
          BY <3>2, <5>3, NewPlaceIsEmpty
        <5> QED
          BY <5>2, <5>3, <5>4
      <4>2. CASE placed[0] = Rebuilt(info, 0)
        <5>1. info.size \in Nat /\ info.size <= info.size
          BY <3>2 DEF IsFile
        <5> QED
          BY <3>2, <4>2, <5>1, RebuiltIsASeq
      <4> QED
        BY <3>1, <4>1, <4>2
    <3> QED
      BY <2>2, <3>2, <3>3, UptoIsPrefix
  <2>3. CASE s # 0
    <3>1. s \in 1 .. 2
      BY <2>3, TheStreams
    <3>2. readout = "over"
      BY <3>1 DEF Course, Before
    <3>3. PICK info, pl, d : info = entries[s] /\ pl = placed[s] /\ d = decoder[s]
      OBVIOUS
    <3>4. /\ IsFile(info) /\ InfoOf(s) = info /\ entries \in Packages
          /\ EntryKept(entries, s, Taken, Len(wrote), d, pl, zstd)
      BY <3>1, <3>2, <3>3, EntryOf
    <3>5. PICK c \in Nat : EntryGoes(entries, s, Taken, Len(wrote), d, pl, zstd, c)
      BY <3>3, <3>4 DEF EntryKept, EntryRefused
    <3>6. OnCourse(d, s, info, c) /\ d.base <= info.size /\ pl = Upto(info, s, d.base)
      BY <3>3, <3>5 DEF EntryGoes
    <3>7. d.base \in Nat
      BY <3>4, <3>6, NewPlaceIsEmpty
    <3> QED
      BY <3>3, <3>4, <3>6, <3>7, UptoIsPrefix
  <2> QED
    BY <2>2, <2>3
<1> QED
  BY <1>1, CourseInvariant, PTL

(* A content that counts as complete is what its file is meant to become, to its *)
(* end, and a transferred one came from a file that keeps to its own tables as   *)
(* far as its payload goes: NczDecoder::Feed and Step's size checks together     *)
(* leave no other way to "finished".                                           *)
THEOREM OnlyWholeIsComplete == StreamSpec => []WholeOrRefused
<1>1. IInv /\ Course => WholeOrRefused
  <2> SUFFICES ASSUME IInv, Course PROVE WholeOrRefused
    OBVIOUS
  <2>1. readout = "done" => placed[0] = Rebuilt(decoder[0].info, 0)
    BY DEF Course, ReadOutCourse
  <2>2. ASSUME Complete, NEW s \in 1 .. 2
        PROVE  /\ placed[s] = Rebuilt(entries[s], s)
               /\ KeepsItsTables(entries[s])
               /\ TableCovered(entries[s]) => IsSound(entries[s])
    <3>1. writer = "finished" /\ Len(placed[s]) >= entries[s].size
      BY <2>2 DEF Complete
    <3>2. readout = "over"
      BY <3>1 DEF Course, Before
    <3>3. PICK d, pl : d = decoder[s] /\ pl = placed[s]
      OBVIOUS
    <3>4. /\ entries \in Packages /\ EntryKept(entries, s, Taken, Len(wrote), d, pl, zstd) /\ ~d.failed
      BY <3>1, <3>2, <3>3, EntryOf DEF Course, TransferCourse, NoneRefused
    <3>5. PICK c \in Nat : EntryGoes(entries, s, Taken, Len(wrote), d, pl, zstd, c)
      BY <3>4, KeptGoes
    <3>6. Taken = NumPieces /\ Len(wrote) = NumPieces
      <4>1. consuming = NoSlot /\ items = <<>> /\ sent = NumPieces /\ sent = Taken + Len(items) /\ TypeOK
        BY <3>1 DEF IInv, Owners, Closing, Stream
      <4>2. Taken = Len(wrote) + 0 /\ Len(wrote) \in Nat /\ Len(items) = 0
        BY <4>1, Elements, EmptySeq DEF Taken
      <4> QED
        BY <4>1, <4>2
    <3>7. EntryGoes(entries, s, NumPieces, NumPieces, d, pl, zstd, c)
      BY <3>5, <3>6
    <3>8. Len(pl) >= entries[s].size
      BY <3>1, <3>3
    <3> QED
      BY <3>3, <3>4, <3>7, <3>8, EntryEnds
  <2> QED
    BY <2>1, <2>2 DEF WholeOrRefused
<1> QED
  BY <1>1, CourseInvariant, StreamInvariant, PTL

(* NczDecoder never refuses a sound file, wherever its pieces end and whatever    *)
(* an earlier stream left in the context that all decoders share.               *)
THEOREM SoundFilesAreTaken == StreamSpec => []SoundIsTaken
<1>1. Course => SoundIsTaken
  <2> SUFFICES ASSUME Course, NEW s \in Streams, decoder[s] # NoDecoder, decoder[s].failed
               PROVE  ~IsSound(decoder[s].info)
    BY DEF SoundIsTaken
  <2>1. readout \in {"none", "running", "done", "over"}
    BY DEF Course, Shape
  <2>2. CASE s = 0
    <3>1. readout = "running" /\ \E info \in ReadFiles : ReadOutKept(info, decoder[0], placed[0], zstd)
      BY <2>1, <2>2 DEF Course, ReadOutCourse
    <3>2. PICK info \in ReadFiles : ReadOutKept(info, decoder[0], placed[0], zstd)
      BY <3>1
    <3>3. PICK d, pl : d = decoder[0] /\ pl = placed[0]
      OBVIOUS
    <3>4. ASSUME NEW c \in Nat, ReadOutGoes(info, d, pl, zstd, c) PROVE FALSE
      <4>1. OnCourse(d, 0, info, c)
        BY <3>4 DEF ReadOutGoes
      <4> QED
        BY <2>2, <3>3, <4>1, OnCourseFields
    <3> QED
      BY <2>2, <3>2, <3>3, <3>4 DEF ReadOutKept
  <2>3. CASE s # 0
    <3>1. s \in 1 .. 2
      BY <2>3, TheStreams
    <3>2. readout = "over"
      BY <3>1 DEF Course, Before
    <3>3. EntryKept(entries, s, Taken, Len(wrote), decoder[s], placed[s], zstd)
      BY <3>1, <3>2, EntryOf
    <3>4. EntryRefused(entries, s, Taken, decoder[s])
      BY <3>3, GoesUnrefused DEF EntryKept
    <3> QED
      BY <3>4 DEF EntryRefused
  <2> QED
    BY <2>2, <2>3
<1> QED
  BY <1>1, CourseInvariant, PTL
=============================================================================
