------------------------------ MODULE HttpUpload ------------------------------
(***************************************************************************)
(* The browser as a package source: the console's page server               *)
(* (net/http_server.cpp), the upload routes (ui/app.cpp) and the source that *)
(* reads the posted parts (install/source_http_upload.cpp).                  *)
(*                                                                         *)
(* Whoever reads the package -- the UI thread while the package is opened,   *)
(* the reader thread while it is transferred -- says which range it wants;   *)
(* the page asks for it, posts it, and the server hands the connection, the  *)
(* body still on it, to the reader.  A body is a number of units, a byte of  *)
(* a file is the task it was offered under and its place.  GET /upload/next  *)
(* is one step.                                                             *)
(***************************************************************************)
EXTENDS Integers, FiniteSets, Sequences

CONSTANTS
  Conns,           \* connections of the browsers
  NoConn,
  Slots,           \* kHttpMaxConnections
  SmallBodyLimit,  \* kHttpSmallBodyLimit
  RequestLimit,    \* what ReadFrom buffers of one request, its head (1) and its body
  PartMax,         \* kUploadPartBytes
  FileSize,        \* the size of a file the page offers
  MaxTasks,        \* bound: uploads
  MaxReads,        \* bound: reads of an upload
  Faults,          \* what a browser does besides following the page's script
  MaxFaults        \* bound: how often

ASSUME UploadAssumption ==
  /\ IsFiniteSet(Conns) /\ NoConn \notin Conns
  /\ Slots \in Nat \ {0}
  /\ SmallBodyLimit \in Nat \ {0} /\ RequestLimit \in Nat \ {0}
  /\ PartMax \in Nat \ {0} /\ FileSize \in Nat \ {0}
  /\ MaxTasks \in Nat /\ MaxReads \in Nat /\ MaxFaults \in Nat
  /\ Faults \subseteq {"stray", "visit", "aborted", "gone", "slow"}

VARIABLES
  net,      \* connection -> what the browser asked on it, sent, and was told
  conns,    \* m_connections: connection -> its place in the server's table
  handoff,  \* m_handoff, as TakeHandoff will find it
  source,   \* m_upload_source: its task, want, slot, part in hand, abort reason,
            \* and whether the transfer has begun
  reader,   \* the thread in HttpUploadSource::Read
  page,     \* the page: the range it was told to send, the connection it sends it on
  faults

vars == <<net, conns, handoff, source, reader, page, faults>>

Tasks == 1 .. MaxTasks
Zero == <<0, 0>>
Ranges == [offset : 0 .. FileSize, size : 1 .. PartMax]
NoRange == [offset |-> 0, size |-> 0]
NoSlot == [offset |-> 0, bytes |-> <<>>]
NoBytes == <<>>

(* A request for a part; for the page itself, task 0. *)
Requests == [task : 0 .. MaxTasks, offset : 0 .. FileSize, length : 0 .. PartMax]
NoRequest == [task |-> 0, offset |-> 0, length |-> 0]
Unused == [state |-> "unused", req |-> NoRequest, sent |-> 0, peer |-> "here", answer |-> "none"]
Free == [phase |-> "free", reply |-> "none"]

Init ==
  /\ net = [c \in Conns |-> Unused]
  /\ conns = [c \in Conns |-> Free]
  /\ handoff = NoConn
  /\ source = [open |-> FALSE, task |-> 0, transfer |-> FALSE, want |-> NoRange,
               slot |-> NoSlot, part |-> NoConn, abort |-> "none"]
  /\ reader = [pc |-> "idle", range |-> NoRange, conn |-> NoConn, reads |-> 0,
               fed |-> FALSE, result |-> "none", bytes |-> NoBytes]
  /\ page = [told |-> NoRange, conn |-> NoConn]
  /\ faults = 0

Fault(kind) == kind \in Faults /\ faults < MaxFaults /\ faults' = faults + 1

(* The connection is answered or closed: the browser will hear no more on it. *)
Over(n, c, answer) == [n EXCEPT ![c].state = "over", ![c].answer = answer]
Closed(n, c) == IF c = NoConn THEN n ELSE Over(n, c, "closed")

-----------------------------------------------------------------------------
(* When the page is served: while the package is opened, the one thread serves *)
(* where Read and Prepare call the pump; RunGameInstall takes the pump away    *)
(* and serves between its own steps.                                          *)

(* Mutant: the reader serves before it asks, and not while it waits. *)
ServesBeforeAsking == source.transfer \/ reader.pc \in {"idle", "begins"}

Serving == source.transfer \/ reader.pc \in {"idle", "begins", "asks"}

Held == {c \in Conns : conns[c].phase # "free"}

-----------------------------------------------------------------------------
(* The browser. *)

(* GET /upload/next, in one pass of the server: accepted where a place is    *)
(* free, closed unanswered where none is, and asked again.                   *)
PageAsks ==
  /\ Serving /\ Cardinality(Held) < Slots
  /\ page.conn = NoConn
  /\ source.open /\ source.want # NoRange
  /\ page' = [page EXCEPT !.told = source.want]
  /\ UNCHANGED <<net, conns, handoff, source, reader, faults>>

Connects(c, req) ==
  /\ net[c].state = "unused"
  /\ net' = [net EXCEPT ![c] = [Unused EXCEPT !.state = "queued", !.req = req]]

(* The page posts the range it was told, once an earlier part is answered. *)
PagePosts(c) ==
  /\ page.conn = NoConn /\ page.told # NoRange
  /\ Connects(c, [task |-> source.task, offset |-> page.told.offset, length |-> page.told.size])
  /\ page' = [told |-> NoRange, conn |-> c]
  /\ UNCHANGED <<conns, handoff, source, reader, faults>>

(* Another tab, of this upload or an earlier one, with a range of its own. *)
StrayPosts(c) ==
  /\ Fault("stray")
  /\ \E req \in Requests :
       /\ req.task \in 1 .. source.task /\ req.length > 0
       /\ req.offset + req.length <= FileSize
       /\ Connects(c, req)
  /\ UNCHANGED <<conns, handoff, source, reader, page>>

(* A browser opens the page, whose answer does not fit a socket's buffer. *)
Visits(c) ==
  /\ Fault("visit")
  /\ Connects(c, NoRequest)
  /\ UNCHANGED <<conns, handoff, source, reader, page>>

Sends(c) ==
  /\ net[c].state \in {"queued", "served"} /\ net[c].peer = "here"
  /\ net[c].sent < net[c].req.length
  /\ net' = [net EXCEPT ![c].sent = @ + 1]
  /\ UNCHANGED <<conns, handoff, source, reader, page, faults>>

Forgets(c) == page' = IF page.conn = c THEN [page EXCEPT !.conn = NoConn] ELSE page

Hears(c) ==
  /\ net[c].state = "over"
  /\ net' = [net EXCEPT ![c] = Unused]
  /\ Forgets(c)
  /\ UNCHANGED <<conns, handoff, source, reader, faults>>

(* fetchWithTimeout: forty-five seconds without an answer, and it asks again. *)
PageAborts(c) ==
  /\ page.conn = c /\ net[c].state # "over"
  /\ Fault("aborted")
  /\ net' = [net EXCEPT ![c].peer = "closed"]
  /\ Forgets(c)
  /\ UNCHANGED <<conns, handoff, source, reader>>

(* The phone walks out of range: nothing further arrives, not even an end. *)
PeerGoes(c) ==
  /\ net[c].state \in {"queued", "served"} /\ net[c].peer = "here"
  /\ Fault("gone")
  /\ net' = [net EXCEPT ![c].peer = "gone"]
  /\ Forgets(c)
  /\ UNCHANGED <<conns, handoff, source, reader>>

-----------------------------------------------------------------------------
(* The server: HttpServer::Poll, one connection at a time.                    *)

Accepts(c) ==
  /\ Serving /\ net[c].state = "queued"
  /\ IF Cardinality(Held) < Slots
       THEN /\ net' = [net EXCEPT ![c].state = "served"]
            /\ conns' = [conns EXCEPT ![c] = [Free EXCEPT !.phase = "in"]]
       ELSE net' = Closed(net, c) /\ UNCHANGED conns
  /\ UNCHANGED <<handoff, source, reader, page, faults>>

(* Mutant: any part of the range that is wanted, whichever task it is for. *)
PartOfAnyTask(req) ==
  /\ source.open /\ source.want # NoRange
  /\ req.offset = source.want.offset /\ req.length \in 1 .. source.want.size

(* POST /upload/part, and UploadPartMatches. *)
PartIsWanted(req) ==
  /\ source.open /\ req.task = source.task /\ source.want # NoRange
  /\ req.length \in 1 .. PartMax
  /\ req.offset = source.want.offset /\ req.length <= source.want.size

(* Mutant: the earlier hand-off is overwritten. *)
ReplacesEarlier(n) == n

(* Two hand-offs before the first was taken: the earlier one is closed. *)
ClosesEarlier(n) == Closed(n, handoff)

HandsOver(c) ==
  /\ net' = ClosesEarlier(net)
  /\ handoff' = c
  /\ conns' = [conns EXCEPT ![c] = Free]

(* Mutant: a refused body is left on the socket. *)
RefusesUnread(c, reply) ==
  conns' = [conns EXCEPT ![c] = [phase |-> "out", reply |-> reply]]

Refuses(c, reply) ==
  conns' = [conns EXCEPT ![c] =
              [phase |-> IF net[c].sent < net[c].req.length THEN "drain" ELSE "out",
               reply |-> reply]]

(* ReadFrom takes all that has arrived; TryRequest acts on it when the       *)
(* request is whole, or when its body is one not to be buffered.  Whatever   *)
(* the route refuses such a body with, the answer is 413.                    *)
Reads(c) ==
  /\ Serving /\ conns[c].phase = "in"
  /\ LET req == net[c].req
         large == req.length > SmallBodyLimit
         tooMuch == 1 + net[c].sent > RequestLimit
         whole == large \/ net[c].sent = req.length
     IN \/ /\ tooMuch \/ net[c].peer = "closed"
           /\ net' = Closed(net, c) /\ conns' = [conns EXCEPT ![c] = Free]
           /\ UNCHANGED handoff
        \/ /\ ~tooMuch /\ net[c].peer # "closed" /\ whole
           /\ PartIsWanted(req)
           /\ HandsOver(c)
        \/ /\ ~tooMuch /\ net[c].peer # "closed" /\ whole
           /\ ~PartIsWanted(req)
           /\ Refuses(c, IF req.task = 0 THEN "200" ELSE IF large THEN "413" ELSE "409")
           /\ UNCHANGED <<net, handoff>>
  /\ UNCHANGED <<source, reader, page, faults>>

(* DrainBody: the rest of a refused body, before its answer may go out. *)
Drains(c) ==
  /\ Serving /\ conns[c].phase = "drain"
  /\ net[c].sent = net[c].req.length \/ net[c].peer = "closed"
  /\ conns' = [conns EXCEPT ![c].phase = "out"]
  /\ UNCHANGED <<net, handoff, source, reader, page, faults>>

Answers(c) ==
  /\ Serving /\ conns[c].phase = "out"
  /\ net[c].req.task = 0 => net[c].peer # "gone"
  /\ net' = Over(net, c, conns[c].reply)
  /\ conns' = [conns EXCEPT ![c] = Free]
  /\ UNCHANGED <<handoff, source, reader, page, faults>>

(* Mutant: only a request that is not whole has a deadline. *)
ReadHasDeadline(c) == conns[c].phase = "in"

HasDeadline(c) == conns[c].phase \in {"in", "drain"}

(* Ten seconds, and the request or its refused body is not here. *)
Drops(c) ==
  /\ Serving /\ HasDeadline(c)
  /\ \/ net[c].peer = "gone" /\ UNCHANGED faults
     \/ net[c].peer = "here" /\ Fault("slow")
  /\ net' = Closed(net, c)
  /\ conns' = [conns EXCEPT ![c] = Free]
  /\ UNCHANGED <<handoff, source, reader, page>>

(* App::ServiceInstallerPage takes the hand-off to the source: AttachPart    *)
(* closes it when nothing is wanted any more, or a part is in hand already.  *)
Takes ==
  /\ Serving /\ handoff # NoConn
  /\ handoff' = NoConn
  /\ IF source.open /\ source.want # NoRange /\ source.part = NoConn
       THEN source' = [source EXCEPT !.part = handoff] /\ UNCHANGED net
       ELSE net' = Closed(net, handoff) /\ UNCHANGED source
  /\ UNCHANGED <<conns, reader, page, faults>>

-----------------------------------------------------------------------------
(* The source: HttpUploadSource. *)

(* POST /upload/begin, taken in the frame loop: a new source, a new task. *)
Begin ==
  /\ ~source.open /\ source.task < MaxTasks
  /\ source' = [source EXCEPT !.open = TRUE, !.task = @ + 1]
  /\ page' = [page EXCEPT !.told = NoRange]
  /\ reader' = [reader EXCEPT !.reads = 0, !.result = "none", !.bytes = NoBytes]
  /\ UNCHANGED <<net, conns, handoff, faults>>

(* The run lets go of its source, which nobody reads any more: the reader    *)
(* thread has ended, and the UI thread takes what its own pass handed over.   *)
(* ReleaseUploadSource under a reader that is still inside Read is InstallRun's. *)
Close ==
  /\ source.open /\ reader.pc = "idle" /\ reader.reads > 0 /\ handoff = NoConn
  /\ net' = Closed(net, source.part)
  /\ source' = [source EXCEPT !.open = FALSE, !.transfer = FALSE, !.want = NoRange,
                              !.slot = NoSlot, !.part = NoConn, !.abort = "none"]
  /\ UNCHANGED <<conns, handoff, reader, page, faults>>

(* The package is opened and confirmed: from here on a thread of its own reads, *)
(* and the UI thread, without the pump, serves between the writer's steps.     *)
StartsTransfer ==
  /\ source.open /\ ~source.transfer /\ source.abort = "none"
  /\ reader.pc = "idle" /\ reader.reads > 0 /\ handoff = NoConn
  /\ source' = [source EXCEPT !.transfer = TRUE]
  /\ UNCHANGED <<net, conns, handoff, reader, page, faults>>

(* The run failed at the writer's end, and ReleaseUploadSource wakes the reader. *)
Abort ==
  /\ source.transfer /\ source.open /\ source.abort = "none"
  /\ net' = Closed(net, source.part)
  /\ source' = [source EXCEPT !.abort = "released", !.part = NoConn]
  /\ UNCHANGED <<conns, handoff, reader, page, faults>>

(* A pass of the page's server ends with taking what it handed over. *)
PassIsOver == source.transfer \/ handoff = NoConn

Returns(result, bytes) ==
  reader' = [reader EXCEPT !.pc = "idle", !.result = result, !.bytes = bytes]

ReadBegins ==
  /\ source.open /\ reader.pc = "idle" /\ reader.reads < MaxReads /\ PassIsOver
  /\ \E range \in Ranges :
       LET begun == [reader EXCEPT !.reads = @ + 1, !.range = range, !.fed = FALSE, !.bytes = NoBytes]
       IN \/ /\ source.abort = "none" /\ range.offset + range.size <= FileSize
             /\ reader' = [begun EXCEPT !.pc = "begins", !.result = "none"]
             /\ UNCHANGED source
          \/ /\ source.abort = "none" /\ range.offset + range.size > FileSize
             /\ source' = [source EXCEPT !.abort = "short"]
             /\ reader' = [begun EXCEPT !.result = "failed"]
          \/ /\ source.abort # "none"
             /\ reader' = [begun EXCEPT !.result = "failed"]
             /\ UNCHANGED source
  /\ UNCHANGED <<net, conns, handoff, page, faults>>

(* The page has been served once; the source may have been aborted since. *)
ReadServes ==
  /\ reader.pc = "begins" /\ PassIsOver
  /\ IF source.abort = "none" THEN reader' = [reader EXCEPT !.pc = "looks"]
                              ELSE Returns("failed", NoBytes)
  /\ UNCHANGED <<net, conns, handoff, source, page, faults>>

Covers(slot, range) ==
  /\ slot.bytes # <<>>
  /\ slot.offset <= range.offset
  /\ range.offset + range.size <= slot.offset + Len(slot.bytes)

Copied(slot, range) ==
  [i \in 1 .. range.size |-> slot.bytes[range.offset - slot.offset + i]]

WantConsumed(s) == [s EXCEPT !.want = NoRange]

(* The loop of Read: what is in the slot, or a range to ask for. *)
ReadLooks ==
  /\ reader.pc = "looks"
  /\ \/ /\ Covers(source.slot, reader.range)
        /\ source' = WantConsumed(source)
        /\ Returns("read", Copied(source.slot, reader.range))
     \/ /\ ~Covers(source.slot, reader.range) /\ source.abort # "none"
        /\ Returns("failed", NoBytes)
        /\ UNCHANGED source
     \/ /\ ~Covers(source.slot, reader.range) /\ source.abort = "none"
        /\ source' = [source EXCEPT !.want = reader.range]
        /\ reader' = [reader EXCEPT !.pc = "asks"]
  /\ UNCHANGED <<net, conns, handoff, page, faults>>

(* ServiceAttachedPart takes the part in hand. *)
ReadTakesPart ==
  /\ reader.pc = "asks" /\ PassIsOver
  /\ IF source.part = NoConn
       THEN reader' = [reader EXCEPT !.pc = "waits"] /\ UNCHANGED source
       ELSE /\ reader' = [reader EXCEPT !.pc = "receives", !.conn = source.part]
            /\ source' = [source EXCEPT !.part = NoConn]
  /\ UNCHANGED <<net, conns, handoff, page, faults>>

(* How much of the body is in the vector when recv is not called again. *)
Received(c) == net[c].sent

Body(c) ==
  [i \in 1 .. net[c].req.length |->
     IF i <= net[c].sent THEN <<net[c].req.task, net[c].req.offset + i - 1>> ELSE Zero]

(* recv until the body is whole or its end has come, however long it takes;  *)
(* then the answer.                                                          *)
ReadReceives ==
  /\ reader.pc = "receives"
  /\ LET c == reader.conn
     IN \/ /\ Received(c) = net[c].req.length
           /\ source' = [source EXCEPT !.slot = [offset |-> net[c].req.offset, bytes |-> Body(c)]]
           /\ net' = Over(net, c, "200")
           /\ reader' = [reader EXCEPT !.pc = "looks", !.conn = NoConn,
                                       !.fed = @ \/ net[c].req.offset = reader.range.offset]
        \/ /\ Received(c) < net[c].req.length /\ net[c].peer = "closed"
           /\ net' = Over(net, c, "400")
           /\ reader' = [reader EXCEPT !.pc = "waits", !.conn = NoConn]
           /\ UNCHANGED source
  /\ UNCHANGED <<conns, handoff, page, faults>>

ReadWaits ==
  /\ reader.pc = "waits"
  /\ reader' = [reader EXCEPT !.pc = "looks"]
  /\ UNCHANGED <<net, conns, handoff, source, page, faults>>

(* Fifty seconds since this read began. *)
ReadGivesUp ==
  /\ reader.pc = "waits"
  /\ source' = [source EXCEPT !.abort = "upload-stopped"]
  /\ Returns("stopped", NoBytes)
  /\ UNCHANGED <<net, conns, handoff, page, faults>>

-----------------------------------------------------------------------------
Browser ==
  \/ PageAsks
  \/ \E c \in Conns :
       \/ PagePosts(c) \/ StrayPosts(c) \/ Visits(c) \/ Sends(c) \/ Hears(c)
       \/ PageAborts(c) \/ PeerGoes(c)

Server ==
  \/ Takes
  \/ \E c \in Conns : Accepts(c) \/ Reads(c) \/ Drains(c) \/ Answers(c) \/ Drops(c)

Source ==
  \/ Begin \/ StartsTransfer \/ Close \/ Abort
  \/ ReadBegins \/ ReadServes \/ ReadLooks \/ ReadTakesPart \/ ReadReceives \/ ReadWaits
  \/ ReadGivesUp

Next == Browser \/ Server \/ Source

Spec == Init /\ [][Next]_vars

(* A pass of the server serves every connection and comes to its end, and so   *)
(* do the reader's turns; but the passes are where the reader's thread calls   *)
(* the pump, which is why what is possible again and again must happen (strong *)
(* fairness); a request of the page's waits in the listen queue for a pass.  A  *)
(* browser that is there keeps to the page's script.  Nothing makes the reader *)
(* give up: what must happen must not need it.                                 *)
Posting == \E c \in Conns : PagePosts(c)
Moves(c) == Sends(c) \/ Hears(c)
Served(c) == Accepts(c) \/ Reads(c) \/ Drains(c) \/ Answers(c) \/ (Drops(c) /\ net[c].peer = "gone")
Turn == ReadServes \/ ReadLooks \/ ReadTakesPart \/ ReadReceives \/ ReadWaits

FairSpec ==
  /\ Spec
  /\ SF_vars(PageAsks) /\ WF_vars(Posting) /\ SF_vars(Takes) /\ SF_vars(Turn)
  /\ \A c \in Conns : WF_vars(Moves(c)) /\ SF_vars(Served(c))

-----------------------------------------------------------------------------
(* Properties. *)

(* What the variables hold. *)
TableFits == Cardinality(Held) <= Slots
Bytes == {Zero} \cup (Tasks \X (0 .. FileSize + PartMax))
Connection == [state : {"unused", "queued", "served", "over"}, req : Requests,
               sent : 0 .. PartMax, peer : {"here", "closed", "gone"},
               answer : {"none", "200", "400", "409", "413", "closed"}]
Place == [phase : {"free", "in", "drain", "out"}, reply : {"none", "200", "409", "413"}]
Offered == [open : BOOLEAN, task : {0} \cup Tasks, transfer : BOOLEAN,
            want : Ranges \cup {NoRange}, slot : [offset : 0 .. FileSize, bytes : Seq(Bytes)],
            part : Conns \cup {NoConn}, abort : {"none", "short", "released", "upload-stopped"}]
Reading == [pc : {"idle", "begins", "looks", "asks", "receives", "waits"},
            range : Ranges \cup {NoRange}, conn : Conns \cup {NoConn}, reads : 0 .. MaxReads,
            fed : BOOLEAN, result : {"none", "read", "failed", "stopped"}, bytes : Seq(Bytes)]
TypeOK ==
  /\ net \in [Conns -> Connection]
  /\ conns \in [Conns -> Place]
  /\ handoff \in Conns \cup {NoConn}
  /\ source \in Offered
  /\ reader \in Reading
  /\ page \in [told : Ranges \cup {NoRange}, conn : Conns \cup {NoConn}]
  /\ faults \in 0 .. MaxFaults
  /\ TableFits

(* Whatever other tabs post, late, twice, short or for an earlier upload, and *)
(* wherever a body breaks off: a read that succeeds returns the bytes of this *)
(* upload's file at the place it asked for.                                   *)
ReadsTheFile ==
  reader.result = "read" =>
    reader.bytes = [i \in 1 .. reader.range.size |-> <<source.task, reader.range.offset + i - 1>>]

(* A connection the server accepted and nobody has answered or closed is in   *)
(* exactly one place: the server's table, the hand-off, the source, or the    *)
(* reader's hands.  One that is in none sits in the browser's pool for ever.   *)
Holders(c) ==
  {h \in {"server", "handoff", "source", "reader"} :
     CASE h = "server" -> c \in Held
       [] h = "handoff" -> c = handoff
       [] h = "source" -> c = source.part
       [] h = "reader" -> c = reader.conn}
NoConnectionIsLost ==
  \A c \in Conns : Cardinality(Holders(c)) = IF net[c].state = "served" THEN 1 ELSE 0

(* A browser that is still sending is not refused before its body is read:    *)
(* closing earlier resets the connection, and the answer never gets there.    *)
RefusalIsHeard ==
  \A c \in Conns :
    /\ net[c].state = "over" /\ net[c].answer \in {"409", "413"}
    /\ net[c].peer = "here"
    => net[c].sent = net[c].req.length

(* The wait is also when the page is served: a read does not wait for a part  *)
(* that waits for the reader, as long as the browsers are there.              *)
SomeoneIsGone == \E c \in Conns : net[c].peer = "gone"
ReadReturns == reader.pc # "idle" ~> reader.pc = "idle" \/ SomeoneIsGone

(* A browser that is gone gives its place in the server's table back, except  *)
(* where the thread that serves is itself held by one: recv has no end then.  *)
HeldByTheGone ==
  ~source.transfer /\ reader.conn # NoConn /\ net[reader.conn].peer = "gone"
PlaceComesBack ==
  \A c \in Conns :
    conns[c].phase \in {"in", "drain"} ~>
      conns[c].phase \notin {"in", "drain"} \/ HeldByTheGone

-----------------------------------------------------------------------------
(* What the code says of itself, and does not do. *)

(* ServiceAttachedPart is "blocking (with a timeout)".                        *)
ReceivingEnds == reader.pc = "receives" ~> reader.pc # "receives"

(* Poll: a refused part is told "the 409 it is supposed to act on".           *)
RefusedIsTold409 == \A c \in Conns : net[c].answer # "413"

(* The reader is handed "a part under the small-body limit" whole: it is not  *)
(* closed for its size.                                                       *)
SmallPartArrives ==
  [][\A c \in Conns :
       /\ conns[c].phase = "in" /\ net[c].peer = "here"
       /\ net[c].req.length <= SmallBodyLimit
       /\ net'[c].answer = "closed"
       => faults' = faults + 1]_vars

(* A half-written answer is dropped after ten seconds.                        *)
AnswerEnds == \A c \in Conns : conns[c].phase = "out" ~> conns[c].phase # "out"

(* UploadPartMatches: "a part may be shorter than the range (... a slice it    *)
(* chose to split)".  A reader that took such a slice asks for what follows.   *)
SliceMovesTheWantOn ==
  reader.pc = "asks" /\ reader.fed => source.want.offset # reader.range.offset

(* AttachPart: a part is not attached with no reader to answer it.            *)
AttachedHasReader == source.part # NoConn => source.want # NoRange

=============================================================================
