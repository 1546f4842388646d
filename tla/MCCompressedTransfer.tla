------------------------- MODULE MCCompressedTransfer -------------------------
(***************************************************************************)
(* Small .ncz files for TLC: a header of one cipher block, pieces of one     *)
(* cipher block, payloads of up to four units, as one stream or in blocks.   *)
(***************************************************************************)
EXTENDS CompressedTransfer

Sections(size) ==
  {s \in {[offset |-> 2, size |-> 1, encrypted |-> FALSE, key |-> "none"],
          [offset |-> 3, size |-> 3, encrypted |-> TRUE, key |-> "program"],
          [offset |-> 6, size |-> 4, encrypted |-> TRUE, key |-> "data"]} : s.offset < size}

(* Where the first i units of a payload end, when unit i makes yield[i] units. *)
Reach(yield) ==
  LET reach[i \in 0 .. Len(yield)] == IF i = 0 THEN HeaderSize ELSE reach[i - 1] + yield[i]
  IN reach
Total(yield) == Reach(yield)[Len(yield)] - HeaderSize

Solid(yield, size, bad) ==
  [table |-> FALSE, offsets |-> <<>>, raw |-> {}, blockSize |-> 0, decompressed |-> 0,
   payload |-> Len(yield), reach |-> Reach(yield), size |-> size, bad |-> bad,
   sections |-> Sections(size)]

Blocked(offsets, raw, blockSize, yield, decompressed, size) ==
  [table |-> TRUE, offsets |-> offsets, raw |-> raw, blockSize |-> blockSize,
   decompressed |-> decompressed, payload |-> Len(yield), reach |-> Reach(yield),
   size |-> HeaderSize + size, bad |-> 0, sections |-> Sections(HeaderSize + size)]

Yields(n) == UNION {[1 .. k -> 0 .. 3] : k \in 1 .. n}

SolidFiles ==
  {Solid(y, HeaderSize + t, b) :
     y \in {z \in Yields(3) : Total(z) \in 1 .. 5}, t \in 2 .. 5, b \in 0 .. 1}

(* Two or three blocks of two or three units; the last block may begin at the *)
(* payload's end or past it, and the declared total may be a block off.       *)
BlockedFiles ==
  {f \in {Blocked(o, r, bs, y, d, t) :
            o \in {<<0, 1>>, <<0, 2>>, <<0, 4>>, <<0, 1, 3>>, <<0, 3, 5>>}, r \in SUBSET (0 .. 2),
            bs \in 2 .. 3, y \in {z \in [1 .. 4 -> 0 .. 3] : Total(z) \in 4 .. 6},
            d \in 4 .. 6, t \in 4 .. 6} :
     /\ f.raw = {b \in Blocks(f) : BlockSourceSize(f, b) >= BlockDecodedSize(f, b)}
     /\ \A i \in 1 .. 4 : IsRaw(f, i) => f.reach[i] = f.reach[i - 1] + 1}

MCReadFiles == SolidFiles \cup BlockedFiles

First ==
  {Solid(<<0, 3, 0, 2>>, 7, 0), Solid(<<1, 0, 2>>, 5, 0), Solid(<<0, 3, 0, 2>>, 6, 0),
   Blocked(<<0, 1>>, {1}, 3, <<3, 1, 1, 1>>, 6, 6), Blocked(<<0, 3>>, {0}, 3, <<1, 1, 1, 2>>, 5, 5),
   Blocked(<<0, 1>>, {1}, 3, <<2, 1, 1, 1>>, 5, 5),
   Blocked(<<0, 4>>, {}, 5, <<2, 1, 1, 1>>, 5, 5), Blocked(<<0, 5>>, {}, 6, <<2, 1, 0, 3>>, 6, 5)}
Second == {Solid(<<3>>, 5, 0), Solid(<<0, 1>>, 5, 0), Blocked(<<0, 1>>, {1}, 2, <<2, 1>>, 3, 3)}
MCPackages == First \X Second
=============================================================================
