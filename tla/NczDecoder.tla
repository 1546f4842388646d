------------------------------ MODULE NczDecoder ------------------------------
(***************************************************************************)
(* One .ncz entry on its way to the NCA it rebuilds: the decoder             *)
(* (install/ncz_decode.cpp), the block table's sizes (install/ncz.cpp) and   *)
(* the re-encryption of what the file stores decrypted                      *)
(* (install/nca_crypto.cpp).                                                *)
(*                                                                         *)
(* Positions are counted in units of half an AES block.  Unit i of a payload *)
(* is <<stream, i>>, and the NCA's unit at position p is <<stream, p>>: the    *)
(* payload's first i units decode to the NCA as far as info.reach[i].  zstd is *)
(* external: a stream of frames that is fed in order, keeps what did not fit  *)
(* into the output, and ends a frame when it has handed all of it out.        *)
(***************************************************************************)
EXTENDS Integers, SequencesExt

CONSTANTS
  HeaderSize,   \* kNczHeaderSize, in units
  ChunkSize     \* kChunk: a read from the source, and a decode step's output

ASSUME DecoderAssumption ==
  /\ HeaderSize \in Nat \ {0} /\ HeaderSize % 2 = 0
  /\ ChunkSize \in Nat \ {0}

VARIABLES
  decoder,   \* stream -> its NczDecoder, NoDecoder without one
  zstd       \* g_dstream, which every decoder of the process uses

decoderVars == <<decoder, zstd>>

NoDecoder == [stream |-> -1]
NoUnit == <<-1, 0>>

PayloadSize(info) == info.payload

(* n units in a row, from the i-th on. *)
Units(stream, i, n) == [k \in 1 .. n |-> <<stream, i + k - 1>>]

(* What n units of the payload, from the i-th on, decode to. *)
Products(info, stream, i, n) ==
  Units(stream, info.reach[i - 1], info.reach[i + n - 1] - info.reach[i - 1])

-----------------------------------------------------------------------------
(* The block table.  info.offsets counts from the payload's start; info.raw   *)
(* are the blocks that hold plain bytes, whatever the table makes one think.  *)

Blocks(info) == 0 .. Len(info.offsets) - 1

BlockSourceSize(info, b) ==
  IF b + 1 < Len(info.offsets)
    THEN info.offsets[b + 2] - info.offsets[b + 1]
    ELSE PayloadSize(info) - info.offsets[b + 1]

BlockDecodedSize(info, b) ==
  LET remainder == info.decompressed % info.blockSize
  IN IF b + 1 < Len(info.offsets) \/ remainder = 0 THEN info.blockSize ELSE remainder

BlockCompressed(info, b) == BlockSourceSize(info, b) < BlockDecodedSize(info, b)

IsRaw(info, i) ==
  \E b \in info.raw : info.offsets[b + 1] < i /\ i <= info.offsets[b + 1] + BlockSourceSize(info, b)

-----------------------------------------------------------------------------
(* zstd (external). *)

(* at: the payload unit it goes on with, NoUnit between frames; last: the    *)
(* frame's last unit; held: what it decoded and has not handed out; ended:   *)
(* the last unit is decoded, and is not consumed until all is handed out.     *)
FreshStream == [at |-> NoUnit, last |-> 0, held |-> <<>>, ended |-> FALSE]

(* The compressed frame that starts at payload unit i: where it ends, 0 if    *)
(* none starts there.                                                        *)
FrameFrom(info, i) ==
  IF ~info.table THEN IF i = 1 THEN PayloadSize(info) ELSE 0
  ELSE LET starts == {b \in Blocks(info) \ info.raw : info.offsets[b + 1] = i - 1}
       IN IF starts = {} THEN 0 ELSE i - 1 + BlockSourceSize(info, Min(starts))

(* A context in the middle of a frame that nobody goes on with. *)
StaleStream == [at |-> <<-1, 1>>, last |-> 1, held |-> <<NoUnit>>, ended |-> FALSE]
Abandoned(z) == IF z = FreshStream THEN z ELSE StaleStream

ZstdError == [error |-> TRUE]

(* What zstd holds when it has taken n units of `span`. *)
HeldAfter(info, z, span) ==
  [n \in 0 .. Len(span) |->
     z.held \o (IF z.ended THEN <<>> ELSE Products(info, span[1][1], span[1][2], n))]

(* Of `taken` units, the frame's last one is not consumed while some of what  *)
(* they made is held back.                                                   *)
Handed(info, z, span, last, taken, out, held) ==
  LET end == span[1][2] + taken - 1
      ended == taken > 0 /\ end = last /\ held # <<>>
      consumed == IF ended THEN taken - 1 ELSE taken
  IN [error |-> FALSE, consumed |-> consumed, out |-> out,
      stream |-> IF ~ended /\ end = last THEN FreshStream
                 ELSE [at |-> <<span[1][1], span[1][2] + consumed>>, last |-> last,
                       held |-> held, ended |-> ended \/ (z.ended /\ taken = 0)]]

(* ZSTD_decompressStream over `span`, into room for `room` units: it takes    *)
(* input as long as all it has decoded fits, and stops at a frame's end.      *)
Decompress(info, z, span, room) ==
  LET first == span[1][2]
      last == IF z.at = NoUnit THEN FrameFrom(info, first) ELSE z.last
      made == HeldAfter(info, z, span)
      taken == Max({0} \cup {n \in 1 .. Len(span) : first + n - 1 <= last /\ Len(made[n - 1]) <= room})
      out == SubSeq(made[taken], 1, Min({Len(made[taken]), room}))
  IN IF \/ z.at = NoUnit /\ last = 0
        \/ z.at # NoUnit /\ z.at # span[1]
        \/ \E k \in 1 .. Len(span) : first + k - 1 <= last /\ span[k] # <<span[1][1], first + k - 1>>
        \/ info.bad \in first .. first + taken - 1
       THEN ZstdError
       ELSE Handed(info, z, span, last, taken, out, SubSeq(made[taken], Len(out) + 1, Len(made[taken])))

-----------------------------------------------------------------------------
(* NczDecoder.  `next` is what is left of m_input. *)

NewDecoder(stream, info) ==
  [stream |-> stream, info |-> info, next |-> <<>>, payloadRead |-> 0, exhausted |-> FALSE,
   started |-> FALSE, decoded |-> <<>>, base |-> HeaderSize, end |-> HeaderSize,
   block |-> 0, consumed |-> 0, produced |-> 0, failed |-> FALSE]

Failing(d) == [d EXCEPT !.failed = TRUE]

(* What of the payload in hand belongs to this step: a step never reaches    *)
(* past the current block.                                                   *)
Span(d) ==
  LET left == BlockSourceSize(d.info, d.block) - d.consumed
  IN IF d.info.table /\ left < Len(d.next) THEN SubSeq(d.next, 1, left) ELSE d.next

(* An uncompressed block holds the decoded bytes themselves. *)
Copy(d, z, span) ==
  LET size == IF Len(span) < ChunkSize THEN Len(span) ELSE ChunkSize
  IN [error |-> FALSE, consumed |-> size, stream |-> z,
      out |-> [k \in 1 .. size |->
                 LET i == span[k][2]
                 IN IF IsRaw(d.info, i) THEN <<d.stream, d.info.reach[i - 1]>> ELSE NoUnit]]

DecodeSpan(d, z, span) ==
  IF d.info.table /\ ~BlockCompressed(d.info, d.block)
    THEN Copy(d, z, span)
    ELSE Decompress(d.info, z, span, ChunkSize)

(* Mutant: a block ends when all it holds has been fed, whatever it made. *)
BlockEndsUnchecked(d) ==
  IF ~d.info.table \/ d.consumed # BlockSourceSize(d.info, d.block) THEN d
  ELSE [d EXCEPT !.block = @ + 1, !.consumed = 0, !.produced = 0]

(* The block is in when all it holds in the file has been fed, and by then it *)
(* has to have made what the table declares.                                 *)
BlockEnds(d) ==
  IF ~d.info.table \/ d.consumed # BlockSourceSize(d.info, d.block) THEN d
  ELSE IF d.produced # BlockDecodedSize(d.info, d.block) THEN Failing(d)
  ELSE [d EXCEPT !.block = @ + 1, !.consumed = 0, !.produced = 0]

(* Mutant: the shared context is taken as it was left. *)
ContextAsLeft(d, z) == z

(* A new stream in the shared context. *)
Context(d, z) == IF d.started THEN z ELSE FreshStream

(* What a step took of the payload and made of it. *)
Advanced(d, made) ==
  [d EXCEPT !.started = TRUE,
            !.next = SubSeq(@, made.consumed + 1, Len(@)),
            !.decoded = @ \o made.out, !.end = @ + Len(made.out),
            !.consumed = IF d.info.table THEN @ + made.consumed ELSE @,
            !.produced = IF d.info.table THEN @ + Len(made.out) ELSE @]

Moved(d, made) == IF made.consumed = 0 /\ made.out = <<>> THEN Failing(d) ELSE d

(* NczDecoder::Step: the decoder and the shared context after it. *)
PastTheTable(d) == d.info.table /\ d.block >= Len(d.info.offsets)
Stepped(d, z) ==
  LET made == IF PastTheTable(d) THEN ZstdError ELSE DecodeSpan(d, z, Span(d))
  IN IF made.error
       THEN [decoder |-> Failing([d EXCEPT !.started = TRUE]), zstd |-> z]
       ELSE [decoder |-> Moved(BlockEnds(Advanced(d, made)), made), zstd |-> made.stream]

(* A step of decoder s, which is d. *)
Step(s, d) ==
  \E after \in {Stepped(d, Context(d, zstd))} :
    /\ decoder' = [decoder EXCEPT ![s] = after.decoder]
    /\ zstd' = after.zstd

(* The file decodes past the NCA it claims. *)
Overruns(d) == d.end > d.info.size

(* Feed's first lines: the new payload behind what is left of the last. *)
Fed(d, payload) ==
  [d EXCEPT !.next = @ \o payload, !.payloadRead = @ + Len(payload)]

(* Refill: the next chunk of the payload, from the entry's own place. *)
Refilled(d) ==
  LET left == PayloadSize(d.info) - d.payloadRead
      chunk == IF left < ChunkSize THEN left ELSE ChunkSize
  IN [d EXCEPT !.next = Units(d.stream, d.payloadRead + 1, chunk), !.payloadRead = @ + chunk]

(* Take: `size` decoded units from the content's position on, and the decoder *)
(* without them.                                                             *)
TakeUnits(d, position, size) ==
  LET available == IF d.end > position THEN d.end - position ELSE 0
      take == IF size < available THEN size ELSE available
      start == position - d.base
  IN [units |-> SubSeq(d.decoded, start + 1, start + take),
      d |-> IF take = 0 THEN d
            ELSE [d EXCEPT !.decoded = SubSeq(@, start + take + 1, Len(@)),
                           !.base = position + take]]

-----------------------------------------------------------------------------
(* What the placeholder holds: a unit, and the keystream it is under.        *)

Plain(unit) == [unit |-> unit, key |-> <<>>]
Covers(section, p) == section.offset <= p /\ p < section.offset + section.size

(* Mutant: a range starts at the beginning of its first block. *)
AesCtrRangeAligned(section, lo, units) ==
  [k \in 1 .. Len(units) |->
     [units[k] EXCEPT !.key = <<section.key, lo \div 2 + (k - 1) \div 2, (k - 1) % 2>>]]

(* AesCtrRange: the counter is that of the block the range starts in, whose   *)
(* keystream is used from the range's own place on.                          *)
AesCtrRange(section, lo, units) ==
  LET skip == lo % 2
  IN [k \in 1 .. Len(units) |->
        [units[k] EXCEPT !.key = <<section.key, lo \div 2 + (skip + k - 1) \div 2,
                                   (skip + k - 1) % 2>>]]

(* A section's share of the n units from `position` on. *)
ShareFrom(s, position) == IF s.offset > position THEN s.offset ELSE position
ShareTo(s, position, n) == IF s.offset + s.size < position + n THEN s.offset + s.size ELSE position + n
Share(s, position, units) ==
  LET lo == ShareFrom(s, position)
  IN AesCtrRange(s, lo, [k \in 1 .. ShareTo(s, position, Len(units)) - lo |->
                           Plain(units[lo - position + k])])

(* The sections whose share the k-th of them is in. *)
SectionsOver(info, position, n, k) ==
  {s \in info.sections : /\ s.encrypted
                         /\ ShareFrom(s, position) <= position + k - 1
                         /\ position + k - 1 < ShareTo(s, position, n)}

(* ReencryptNczRange, over the units that start at `position`: every section  *)
(* has its share.                                                            *)
Reencrypt(info, position, units) ==
  [k \in 1 .. Len(units) |->
     LET sections == SectionsOver(info, position, Len(units), k)
     IN IF sections = {} THEN Plain(units[k])
        ELSE LET s == CHOOSE s \in sections : TRUE
             IN Share(s, position, units)[k - (ShareFrom(s, position) - position)]]

-----------------------------------------------------------------------------
(* What a file is meant to become: every unit in its place, and under the     *)
(* keystream of that place where its section says so.                        *)
Rebuilt(info, stream) ==
  [i \in 1 .. info.size |->
     LET p == i - 1
         sections == {s \in info.sections : s.encrypted /\ Covers(s, p)}
     IN IF p < HeaderSize \/ sections = {} THEN Plain(<<stream, p>>)
        ELSE [unit |-> <<stream, p>>,
              key |-> <<(CHOOSE s \in sections : TRUE).key, p \div 2, p % 2>>]]

(* The blocks whose stored bytes are all in the file. *)
WholeBlocks(info) ==
  {b \in Blocks(info) : info.offsets[b + 1] < PayloadSize(info)
                           /\ info.offsets[b + 1] + BlockSourceSize(info, b) <= PayloadSize(info)}

(* As far as its payload goes the file keeps to its own tables: it can be      *)
(* decoded, every block makes what the table declares, and it is the plain    *)
(* blocks that did not get smaller.                                          *)
KeepsItsTables(info) ==
  /\ info.bad = 0
  /\ info.table =>
       \A b \in WholeBlocks(info) :
         LET from == info.offsets[b + 1]
             size == BlockSourceSize(info, b)
         IN /\ info.reach[from + size] - info.reach[from] = BlockDecodedSize(info, b)
            /\ b \in info.raw <=> size >= BlockDecodedSize(info, b)

(* Every block that the table lists begins before the payload's end. *)
TableCovered(info) == info.table => info.offsets[Len(info.offsets)] < PayloadSize(info)

(* ... and the payload decodes to the NCA the header claims. *)
IsSound(info) ==
  /\ KeepsItsTables(info) /\ TableCovered(info)
  /\ info.reach[PayloadSize(info)] = info.size

(* What ParseNczTables has seen to, and what a payload is: units that decode   *)
(* one after the other, one to one where they are plain; sections that do not *)
(* overlap; a block that is not smaller than what it makes is a plain one.     *)
IsFile(info) ==
  /\ info.table \in BOOLEAN /\ info.payload \in Nat \ {0}
  /\ info.size \in Nat /\ HeaderSize < info.size
  /\ info.bad \in 0 .. info.payload
  /\ info.reach \in [0 .. info.payload -> Nat] /\ info.reach[0] = HeaderSize
  /\ \A i, j \in 0 .. info.payload : i <= j => info.reach[i] <= info.reach[j]
  /\ \A s \in info.sections :
       /\ s.offset \in Nat /\ s.size \in Nat \ {0} /\ HeaderSize <= s.offset
       /\ s.encrypted \in BOOLEAN
       /\ \A t \in info.sections : s # t => s.offset + s.size <= t.offset \/ t.offset + t.size <= s.offset
  /\ info.table =>
       /\ info.blockSize \in Nat \ {0} /\ info.decompressed \in Nat
       /\ info.offsets \in Seq(Nat) /\ info.offsets # <<>> /\ info.offsets[1] = 0
       /\ \A b, c \in 1 .. Len(info.offsets) : b < c => info.offsets[b] < info.offsets[c]
       /\ info.raw \subseteq Blocks(info)
       /\ \A b \in Blocks(info) :
            BlockSourceSize(info, b) >= BlockDecodedSize(info, b) => b \in info.raw
       /\ \A i \in 1 .. info.payload :
            IsRaw(info, i) => info.reach[i] = info.reach[i - 1] + 1 /\ i # info.bad
=============================================================================
