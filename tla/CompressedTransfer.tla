-------------------------- MODULE CompressedTransfer --------------------------
(***************************************************************************)
(* Compressed contents between the file and the placeholder: the read-out    *)
(* that Prepare does by pulling (ContentInstaller::InstallContentForRead),   *)
(* and then a transfer of two contents, where the fetch thread's pieces go   *)
(* through the queue of FetchPipe and the writer decodes them                *)
(* (GameInstall::Step, WriteDecoded).  All decoders of the process share one *)
(* zstd context; a read-out or an earlier run may leave it anywhere.         *)
(***************************************************************************)
EXTENDS FetchPipe, NczDecoder

CONSTANTS
  ReadFiles,     \* what a content that Prepare reads may be
  Packages       \* the pairs of contents a transfer may have

VARIABLES
  readout,   \* "none", "running" or "done" while Prepare reads, then "over"
  entries,   \* the entries the transfer walks
  placed     \* stream -> what its placeholder holds; stream 0 is the read-out

streamVars == <<decoderVars, readout, entries, placed>>
allVars == <<vars, streamVars>>

Streams == 0 .. 2

(* What the fetch thread reads of an entry (GameInstall::NextRange): its      *)
(* header as it is, then the payload in chunks.                              *)
HeaderUnits(stream) == Units(stream, 0, HeaderSize)
Chunks(info) == (PayloadSize(info) + ChunkSize - 1) \div ChunkSize
PayloadUnits(stream, info, n) ==
  LET left == PayloadSize(info) - (n - 1) * ChunkSize
  IN Units(stream, (n - 1) * ChunkSize + 1, IF left < ChunkSize THEN left ELSE ChunkSize)
RangesOf(stream, info) ==
  <<[stream |-> stream, payload |-> FALSE, units |-> HeaderUnits(stream)]>>
    \o [n \in 1 .. Chunks(info) |->
          [stream |-> stream, payload |-> TRUE, units |-> PayloadUnits(stream, info, n)]]
Ranges(package) == RangesOf(1, package[1]) \o RangesOf(2, package[2])

ASSUME FilesAssumption ==
  /\ \A info \in ReadFiles : IsFile(info)
  /\ \A p \in Packages :
       /\ IsFile(p[1]) /\ IsFile(p[2]) /\ p = <<p[1], p[2]>>
       /\ Len(Ranges(p)) = NumPieces

StreamInit ==
  /\ Init
  /\ decoder = [s \in Streams |-> NoDecoder]
  /\ zstd = FreshStream
  /\ readout = "none"
  /\ entries = <<>>
  /\ placed = [s \in Streams |-> <<>>]

Opens(stream, info) == decoder' = [decoder EXCEPT ![stream] = NewDecoder(stream, info)]

-----------------------------------------------------------------------------
(* The read-out: one thread, before there is a transfer. *)

ReadOutBegins ==
  /\ readout = "none"
  /\ \E info \in ReadFiles : Opens(0, info)
  /\ readout' = "running"
  /\ placed' = [placed EXCEPT ![0] = [i \in 1 .. HeaderSize |-> Plain(HeaderUnits(0)[i])]]
  /\ UNCHANGED <<vars, zstd, entries>>

Reading == readout = "running" /\ ~decoder[0].failed
Written == Len(placed[0])
Wanted ==
  LET left == decoder[0].info.size - Written
  IN IF left < ChunkSize THEN left ELSE ChunkSize
Needed == decoder[0].end < Written + Wanted

(* One turn of DecodeUntil's loop. *)
DecodesUntil ==
  /\ Reading /\ Needed
  /\ LET d == decoder[0]
         empty == d.next = <<>>
         read == d.payloadRead = PayloadSize(d.info)
     IN \/ /\ empty /\ d.exhausted
           /\ decoder' = [decoder EXCEPT ![0] = Failing(d)]
           /\ UNCHANGED zstd
        \/ /\ empty /\ ~d.exhausted /\ read
           /\ decoder' = [decoder EXCEPT ![0].exhausted = TRUE]
           /\ UNCHANGED zstd
        \/ /\ ~empty \/ (~d.exhausted /\ ~read)
           /\ \E fed \in {IF empty THEN Refilled(d) ELSE d} : Step(0, fed)
  /\ UNCHANGED <<vars, readout, entries, placed>>

(* DecodeUntil is back: what was wanted is taken, encrypted and written. *)
PullsChunk ==
  /\ Reading /\ ~Needed /\ Wanted > 0
  /\ LET taken == TakeUnits(decoder[0], Written, Wanted)
     IN IF Overruns(decoder[0]) \/ taken.units = <<>>
          THEN /\ decoder' = [decoder EXCEPT ![0] = Failing(@)]
               /\ UNCHANGED placed
          ELSE /\ decoder' = [decoder EXCEPT ![0] = taken.d]
               /\ placed' = [placed EXCEPT ![0] =
                               @ \o Reencrypt(decoder[0].info, Written, taken.units)]
  /\ UNCHANGED <<vars, zstd, readout, entries>>

(* The decoder refused the file, the source stopped or the service refused a *)
(* write: the placeholder goes, and the package may be opened again.         *)
ReadOutFails ==
  /\ readout = "running" /\ Wanted > 0
  /\ decoder' = [decoder EXCEPT ![0] = NoDecoder]
  /\ placed' = [placed EXCEPT ![0] = <<>>]
  /\ readout' = "none"
  /\ zstd' = Abandoned(zstd)
  /\ UNCHANGED <<vars, entries>>

ReadOutEnds ==
  /\ Reading /\ Wanted = 0
  /\ readout' = "done"
  /\ zstd' = Abandoned(zstd)
  /\ UNCHANGED <<vars, decoder, entries, placed>>

-----------------------------------------------------------------------------
(* The transfer.  Begin: a decoder for each compressed content. *)
TransferBegins ==
  /\ readout \in {"none", "done"}
  /\ \E package \in Packages :
       /\ entries' = package
       /\ decoder' = [s \in Streams |-> IF s = 0 THEN NoDecoder ELSE NewDecoder(s, package[s])]
  /\ readout' = "over"
  /\ placed' = [s \in Streams |-> <<>>]
  /\ UNCHANGED <<vars, zstd>>

Transferring == readout = "over"
Refused == \E s \in 1 .. Len(entries) : decoder[s].failed
Held == Ranges(entries)[slots[consuming]]

FetchThread == Transferring /\ ReaderNext /\ UNCHANGED streamVars

(* Feed's beginning: the payload of the piece goes to its content's decoder. *)
StreamTakes ==
  /\ Transferring /\ ~Refused
  /\ WriterTakes
  /\ LET range == Ranges(entries)[slots[consuming']]
     IN decoder' = IF range.payload THEN [decoder EXCEPT ![range.stream] = Fed(@, range.units)]
                                    ELSE decoder
  /\ UNCHANGED <<zstd, readout, entries, placed>>

InFeed == writer = "holding" /\ Held.payload /\ ~Refused /\ decoder[Held.stream].next # <<>>

(* One turn of Feed's loop. *)
StreamDecodes ==
  /\ Transferring /\ InFeed
  /\ \E s \in {Held.stream} : Step(s, decoder[s])
  /\ UNCHANGED <<vars, readout, entries, placed>>

(* WriteDecoded: what is decoded goes behind what is written, up to the       *)
(* content's end.                                                            *)
WriteDecoded(d, written) ==
  LET remaining == IF d.info.size > written THEN d.info.size - written ELSE 0
      take == IF Len(d.decoded) < remaining THEN Len(d.decoded) ELSE remaining
  IN Reencrypt(d.info, written, SubSeq(d.decoded, 1, take))

Consumed(d) == [d EXCEPT !.decoded = <<>>, !.base = @ + Len(d.decoded)]

(* The end of Step: a header is written as it is; a payload is decoded, which *)
(* may be refused; the slot goes back in any case.                           *)
StreamReleases ==
  /\ Transferring /\ ~InFeed
  /\ WriterReleases
  /\ LET s == Held.stream
         d == decoder[s]
     IN \/ /\ ~Held.payload
           /\ placed' = [placed EXCEPT ![s] = [i \in 1 .. HeaderSize |-> Plain(Held.units[i])]]
           /\ UNCHANGED decoder
        \/ /\ Held.payload /\ ~d.failed /\ ~Overruns(d)
           /\ placed' = [placed EXCEPT ![s] = @ \o WriteDecoded(d, Len(placed[s]))]
           /\ decoder' = [decoder EXCEPT ![s] = Consumed(d)]
        \/ /\ Held.payload /\ (d.failed \/ Overruns(d))
           /\ decoder' = [decoder EXCEPT ![s] = Failing(d)]
           /\ UNCHANGED placed
  /\ UNCHANGED <<zstd, readout, entries>>

StreamHears ==
  /\ Transferring /\ ~Refused
  /\ WriterHearsStopped \/ WriterHearsFailed \/ WriterHearsFinished
  /\ UNCHANGED streamVars

(* ~GameInstall waits in join for the fetch thread, however long that takes. *)
Joins == stopped /\ writer \in Verdicts \cup {"left"} /\ UNCHANGED vars

StreamStops ==
  /\ Transferring
  /\ WriterLeaves \/ WriterStops \/ Joins
  /\ UNCHANGED streamVars

-----------------------------------------------------------------------------
ReadOut == ReadOutBegins \/ DecodesUntil \/ PullsChunk \/ ReadOutFails \/ ReadOutEnds
WriterThread == StreamTakes \/ StreamDecodes \/ StreamReleases \/ StreamHears

StreamNext == ReadOut \/ TransferBegins \/ FetchThread \/ WriterThread \/ StreamStops

(* The fetch thread is scheduled, and no Read is obliged to return; what is   *)
(* stopped does not need the writer for its end.                             *)
StreamSpec ==
  /\ StreamInit /\ [][StreamNext]_allVars
  /\ WF_allVars(Transferring /\ ReaderMoves /\ UNCHANGED streamVars)

-----------------------------------------------------------------------------
(* Properties. *)

(* The read-out's and the transfer's own variables. *)
StreamTypeOK ==
  /\ readout \in {"none", "running", "done", "over"}
  /\ entries \in Packages \cup {<<>>}
  /\ \A s \in Streams :
       decoder[s] # NoDecoder =>
         /\ decoder[s].end = decoder[s].base + Len(decoder[s].decoded)
         /\ decoder[s].payloadRead <= PayloadSize(decoder[s].info)

InfoOf(s) == IF s = 0 THEN decoder[0].info ELSE entries[s]

(* Wherever reads, zstd's output, blocks and sections happen to end -- in the *)
(* middle of a cipher block as well -- the placeholder of a sound file holds  *)
(* what the file is meant to become, unit by unit, pulled or fed.            *)
DecodedInPlace ==
  \A s \in Streams :
    placed[s] # <<>> /\ IsSound(InfoOf(s)) => IsPrefix(placed[s], Rebuilt(InfoOf(s), s))

(* A content that counts as complete -- the read-out is done, or Finish sees  *)
(* every size reached -- is what the file is meant to become, to its end; and *)
(* a transferred one came from a file that keeps to its own tables as far as  *)
(* its payload goes: one that is short, long, broken or contradicts itself is *)
(* refused, a table that lists blocks beyond the payload excepted.           *)
Complete == writer = "finished" /\ \A s \in 1 .. 2 : Len(placed[s]) >= entries[s].size
WholeOrRefused ==
  /\ readout = "done" => placed[0] = Rebuilt(decoder[0].info, 0)
  /\ Complete =>
       \A s \in 1 .. 2 :
         /\ placed[s] = Rebuilt(entries[s], s)
         /\ KeepsItsTables(entries[s])
         /\ TableCovered(entries[s]) => IsSound(entries[s])

(* A sound file is never refused: not for where its pieces end, and not for   *)
(* what an earlier stream left in the context all decoders share.            *)
SoundIsTaken ==
  \A s \in Streams : decoder[s] # NoDecoder /\ decoder[s].failed => ~IsSound(decoder[s].info)

-----------------------------------------------------------------------------
(* What the code says of itself, and does not do. *)

(* NczDecoder::DecodeUntil: "A stream that decodes past the NCA it claims is  *)
(* a broken file, not a bigger install" -- but a read-out stops pulling when  *)
(* it has the size it wants, and never sees what zstd still holds.            *)
ReadOutIsSound == readout = "done" => IsSound(decoder[0].info)
=============================================================================
