------------------------- MODULE HttpUpload_proofs -------------------------
(***************************************************************************)
(* What TLAPS proves of HttpUpload, whatever the browsers do and however     *)
(* many there are: a read returns the bytes of this upload's file, every     *)
(* connection the server took is in exactly one pair of hands, and a refusal *)
(* is written only when the refused body has been read.                     *)
(***************************************************************************)
EXTENDS HttpUpload, FiniteSetTheorems, SequenceTheorems, TLAPS

(* The connections with a body the server has handed on.                      *)
InHand == {handoff, source.part, reader.conn} \ {NoConn}

(* A source that is not open has nobody reading and nothing in hand; it is the *)
(* open one that has a task.                                                  *)
ClosedIsQuiet ==
  IF source.open
    THEN source.task \in Tasks
    ELSE /\ handoff = NoConn /\ source.part = NoConn /\ reader.pc = "idle"
         /\ source.slot = NoSlot

(* Where a connection is, and that it is in one place.                       *)
Whereabouts ==
  /\ \A c \in Conns : net[c].state = "served" <=> c \in Held \cup InHand
  /\ \A c \in InHand : c \notin Held
  /\ handoff # NoConn => handoff # source.part /\ handoff # reader.conn
  /\ source.part # NoConn => source.part # reader.conn
  /\ reader.conn # NoConn <=> reader.pc = "receives"

(* A body that was handed on is one of this upload: the task is tested when it *)
(* is handed over, and a new one comes only when all of them are closed.      *)
OfThisUpload == \A c \in InHand : net[c].req.task = source.task

(* The bytes in the slot are the file's, from the slot's offset on.           *)
SlotIsTheFile ==
  \A i \in 1 .. Len(source.slot.bytes) :
    source.slot.bytes[i] = <<source.task, source.slot.offset + i - 1>>

(* No browser sends more than it announced, and an answer is only on its way   *)
(* when there is no more to read.                                            *)
AnsweredAfterTheBody ==
  \A c \in Conns :
    /\ net[c].sent <= net[c].req.length
    /\ conns[c].phase = "out" /\ net[c].peer = "here" => net[c].sent = net[c].req.length

IInv ==
  /\ TypeOK
  /\ ClosedIsQuiet
  /\ Whereabouts
  /\ OfThisUpload
  /\ SlotIsTheFile
  /\ ReadsTheFile
  /\ AnsweredAfterTheBody
  /\ RefusalIsHeard

(* The record a connection is, whoever writes it.                             *)
LEMMA ARequest ==
  ASSUME NEW n \in [Conns -> Connection], NEW c \in Conns
  PROVE  /\ n[c] \in Connection
         /\ n[c].req \in Requests
         /\ n[c].req.task \in 0 .. MaxTasks /\ n[c].req.offset \in 0 .. FileSize
         /\ n[c].req.length \in 0 .. PartMax /\ n[c].sent \in 0 .. PartMax
         /\ n[c].req.length \in Int /\ n[c].sent \in Int
BY UploadAssumption DEF Connection, Requests

(* A connection nobody uses.                                                 *)
LEMMA AnUnusedOne == Unused \in Connection /\ Unused.state = "unused" /\ Unused.sent = 0
<1>1. 0 \in 0 .. PartMax /\ 0 \in 0 .. MaxTasks /\ 0 \in 0 .. FileSize
  BY UploadAssumption
<1> QED
  BY <1>1 DEF Unused, NoRequest, Requests, Connection

(* A connection that is answered or closed keeps what was asked and sent on it. *)
LEMMA OverAnswers ==
  ASSUME NEW n \in [Conns -> Connection], NEW c \in Conns,
         NEW a \in {"none", "200", "400", "409", "413", "closed"}
  PROVE  LET m == Over(n, c, a)
         IN  /\ m \in [Conns -> Connection]
             /\ m[c].state = "over" /\ m[c].answer = a
             /\ \A d \in Conns : m[d].req = n[d].req /\ m[d].sent = n[d].sent /\ m[d].peer = n[d].peer
             /\ \A d \in Conns : d # c => m[d] = n[d]
<1> DEFINE r == [n[c] EXCEPT !.state = "over", !.answer = a]
<1>1. n[c] \in Connection
  OBVIOUS
<1>2. /\ r \in Connection /\ r.state = "over" /\ r.answer = a
      /\ r.req = n[c].req /\ r.sent = n[c].sent /\ r.peer = n[c].peer
  BY <1>1 DEF Connection
<1>3. Over(n, c, a) = [n EXCEPT ![c] = r]
  BY DEF Over
<1> HIDE DEF r
<1> QED
  BY <1>2, <1>3

(* Closing what may be no connection at all.                                 *)
LEMMA ClosedCloses ==
  ASSUME NEW n \in [Conns -> Connection], NEW c \in Conns \cup {NoConn}
  PROVE  LET m == Closed(n, c)
         IN  /\ m \in [Conns -> Connection]
             /\ c # NoConn => m[c].state = "over" /\ m[c].answer = "closed"
             /\ \A d \in Conns : m[d].req = n[d].req /\ m[d].sent = n[d].sent /\ m[d].peer = n[d].peer
             /\ \A d \in Conns : d # c => m[d] = n[d]
BY OverAnswers DEF Closed

(* Every step leaves connections behind.                                     *)
LEMMA NetNext == IInv /\ Next => net' \in [Conns -> Connection]
<1> SUFFICES ASSUME IInv, Next PROVE net' \in [Conns -> Connection]
  OBVIOUS
<1>t. /\ net \in [Conns -> Connection] /\ conns \in [Conns -> Place] /\ source \in Offered
      /\ page \in [told : Ranges \cup {NoRange}, conn : Conns \cup {NoConn}]
      /\ handoff \in Conns \cup {NoConn} /\ source.part \in Conns \cup {NoConn}
      /\ reader.pc = "receives" => reader.conn \in Conns
  BY DEF IInv, TypeOK, Offered, Whereabouts, Reading
<1>0. CASE UNCHANGED net
  BY <1>0, <1>t
<1>1. ASSUME NEW c \in Conns, NEW req \in Requests, Connects(c, req)
      PROVE  net' \in [Conns -> Connection]
  <2>1. [Unused EXCEPT !.state = "queued", !.req = req] \in Connection
    BY AnUnusedOne DEF Connection
  <2> QED
    BY <1>1, <1>t, <2>1 DEF Connects
<1>2. ASSUME NEW c \in Conns, PagePosts(c)
      PROVE  net' \in [Conns -> Connection]
  <2>1. [task |-> source.task, offset |-> page.told.offset, length |-> page.told.size] \in Requests
    BY <1>2, <1>t, UploadAssumption DEF PagePosts, Offered, Requests, Ranges, Tasks
  <2> QED
    BY <1>1, <1>2, <2>1 DEF PagePosts
<1>3. ASSUME NEW c \in Conns, StrayPosts(c) \/ Visits(c)
      PROVE  net' \in [Conns -> Connection]
  <2>1. NoRequest \in Requests
    BY UploadAssumption DEF NoRequest, Requests
  <2> QED
    BY <1>1, <1>3, <2>1 DEF StrayPosts, Visits
<1>4. ASSUME NEW c \in Conns, Sends(c)
      PROVE  net' \in [Conns -> Connection]
  <2>0. net[c].sent \in 0 .. PartMax /\ net[c].req.length \in 0 .. PartMax
    BY <1>t, ARequest
  <2>1. net[c].sent + 1 \in 0 .. PartMax
    BY <1>4, <2>0, UploadAssumption DEF Sends
  <2> QED
    BY <1>4, <1>t, <2>1 DEF Sends, Connection
<1>5. ASSUME NEW c \in Conns, Hears(c)
      PROVE  net' \in [Conns -> Connection]
  BY <1>5, <1>t, AnUnusedOne DEF Hears
<1>6. ASSUME NEW c \in Conns, PageAborts(c) \/ PeerGoes(c)
      PROVE  net' \in [Conns -> Connection]
  BY <1>6, <1>t DEF PageAborts, PeerGoes, Connection
<1>7. ASSUME NEW c \in Conns, Accepts(c)
      PROVE  net' \in [Conns -> Connection]
  <2>1. [net EXCEPT ![c].state = "served"] \in [Conns -> Connection]
    BY <1>t DEF Connection
  <2>2. Closed(net, c) \in [Conns -> Connection]
    BY <1>t, ClosedCloses
  <2> QED
    BY <1>7, <2>1, <2>2 DEF Accepts
<1>8. ASSUME NEW c \in Conns, Reads(c)
      PROVE  net' \in [Conns -> Connection]
  BY <1>8, <1>t, ClosedCloses DEF Reads, HandsOver, ClosesEarlier
<1>9. ASSUME NEW c \in Conns, Answers(c) \/ Drops(c)
      PROVE  net' \in [Conns -> Connection]
  <2>1. conns[c].reply \in {"none", "200", "400", "409", "413", "closed"}
    BY <1>t DEF Place
  <2>2. /\ Closed(net, c) \in [Conns -> Connection]
        /\ Over(net, c, conns[c].reply) \in [Conns -> Connection]
    BY <1>t, <2>1, ClosedCloses, OverAnswers
  <2> QED
    BY <1>9, <2>2 DEF Answers, Drops
<1>10. ASSUME Takes \/ Close \/ Abort
      PROVE  net' \in [Conns -> Connection]
  BY <1>10, <1>t, ClosedCloses DEF Takes, Close, Abort
<1>11. ASSUME ReadReceives
      PROVE  net' \in [Conns -> Connection]
  BY <1>11, <1>t, OverAnswers DEF ReadReceives
<1>12. ASSUME NEW c \in Conns, Drains(c)
      PROVE  net' \in [Conns -> Connection]
  BY <1>0, <1>12 DEF Drains
<1> QED
  BY <1>0, <1>2, <1>3, <1>4, <1>5, <1>6, <1>7, <1>8, <1>9, <1>10, <1>11, <1>12
     DEF Next, Browser, Server, Source, PageAsks, Begin, StartsTransfer, ReadBegins, ReadServes,
         ReadLooks, ReadTakesPart, ReadWaits, ReadGivesUp

(* A step of the browser's changes nobody's place.                            *)
LEMMA PlacesStay ==
  ASSUME IInv,
         \A c \in Conns : net'[c].state = "served" <=> net[c].state = "served",
         \A c \in Conns : conns'[c].phase = "free" <=> conns[c].phase = "free",
         UNCHANGED handoff, source'.part = source.part, reader'.conn = reader.conn,
         reader'.pc = "receives" <=> reader.pc = "receives"
  PROVE  Whereabouts'
BY DEF IInv, Whereabouts, InHand, Held

(* A step takes a connection from one place to the next, and never to two.   *)
LEMMA WhereaboutsNext == IInv /\ Next => Whereabouts'
<1> SUFFICES ASSUME IInv, Next PROVE Whereabouts'
  OBVIOUS
<1>t. /\ net \in [Conns -> Connection] /\ conns \in [Conns -> Place] /\ source \in Offered
      /\ handoff \in Conns \cup {NoConn} /\ source.part \in Conns \cup {NoConn}
      /\ reader \in Reading /\ reader.conn \in Conns \cup {NoConn}
      /\ NoConn \notin Conns
  BY UploadAssumption DEF IInv, TypeOK, Offered, Reading
<1>w. Whereabouts
  BY DEF IInv
<1>0. CASE UNCHANGED <<conns, handoff, source, reader>>
        /\ \A c \in Conns : net'[c].state = "served" <=> net[c].state = "served"
  BY <1>0, PlacesStay
<1>1. ASSUME Browser PROVE Whereabouts'
  <2>1. ASSUME NEW c \in Conns, NEW req, Connects(c, req)
        PROVE  \A d \in Conns : net'[d].state = "served" <=> net[d].state = "served"
    <3>1. [Unused EXCEPT !.state = "queued", !.req = req].state = "queued"
      BY DEF Unused
    <3> QED
      BY <2>1, <3>1, <1>t DEF Connects
  <2>2. ASSUME NEW c \in Conns, PagePosts(c) \/ StrayPosts(c) \/ Visits(c)
        PROVE  Whereabouts'
    BY <1>0, <2>1, <2>2 DEF PagePosts, StrayPosts, Visits
  <2>3. ASSUME NEW c \in Conns, Sends(c) \/ PageAborts(c) \/ PeerGoes(c)
        PROVE  Whereabouts'
    <3>1. \A d \in Conns : net'[d].state = net[d].state
      BY <1>t, <2>3 DEF Sends, PageAborts, PeerGoes, Connection
    <3> QED
      BY <1>0, <2>3, <3>1 DEF Sends, PageAborts, PeerGoes
  <2>4. ASSUME NEW c \in Conns, Hears(c)
        PROVE  Whereabouts'
    <3>1. \A d \in Conns : net'[d].state = "served" <=> net[d].state = "served"
      BY <1>t, <2>4, AnUnusedOne DEF Hears
    <3> QED
      BY <1>0, <2>4, <3>1 DEF Hears
  <2>5. CASE PageAsks
    BY <1>0, <2>5 DEF PageAsks
  <2> QED
    BY <1>1, <2>2, <2>3, <2>4, <2>5 DEF Browser
<1>2. ASSUME NEW c \in Conns, Accepts(c)
      PROVE  Whereabouts'
  <2>1. CASE Cardinality(Held) < Slots
    <3>1. /\ \A d \in Conns : d # c => net'[d] = net[d] /\ conns'[d] = conns[d]
          /\ net'[c].state = "served" /\ conns'[c].phase = "in"
      BY <1>2, <1>t, <2>1 DEF Accepts, Connection, Free
    <3>2. net[c].state = "queued" /\ UNCHANGED <<handoff, source, reader>>
      BY <1>2 DEF Accepts
    <3> QED
      BY <3>1, <3>2, <1>w DEF Whereabouts, InHand, Held
  <2>2. CASE ~(Cardinality(Held) < Slots)
    <3>1. net' = Closed(net, c) /\ net[c].state = "queued"
      BY <1>2, <2>2 DEF Accepts
    <3>2. net'[c].state = "over" /\ \A d \in Conns : d # c => net'[d] = net[d]
      BY <1>t, <3>1, ClosedCloses
    <3>3. \A d \in Conns : net'[d].state = "served" <=> net[d].state = "served"
      BY <3>1, <3>2
    <3> QED
      BY <1>0, <1>2, <2>2, <3>3 DEF Accepts
  <2> QED
    BY <2>1, <2>2
<1>3. ASSUME NEW c \in Conns, Reads(c)
      PROVE  Whereabouts'
  <2>0. /\ conns[c].phase = "in" /\ c \in Held /\ UNCHANGED <<source, reader>>
    BY <1>3 DEF Reads, Held
  <2>1. CASE HandsOver(c)
    <3>1. /\ \A d \in Conns : d # handoff => net'[d] = net[d]
          /\ handoff # NoConn => net'[handoff].state = "over"
          /\ \A d \in Conns : d # c => conns'[d] = conns[d]
          /\ conns'[c].phase = "free" /\ handoff' = c
      BY <1>t, <2>1, ClosedCloses DEF HandsOver, ClosesEarlier, Free
    <3> QED
      BY <1>t, <1>w, <2>0, <3>1 DEF Whereabouts, InHand, Held
  <2>2. CASE net' = Closed(net, c) /\ conns' = [conns EXCEPT ![c] = Free] /\ UNCHANGED handoff
    <3>1. /\ \A d \in Conns : d # c => net'[d] = net[d] /\ conns'[d] = conns[d]
          /\ net'[c].state = "over" /\ conns'[c].phase = "free"
      BY <1>t, <2>2, ClosedCloses DEF Free
    <3> QED
      BY <1>t, <1>w, <2>0, <2>2, <3>1 DEF Whereabouts, InHand, Held
  <2>3. ASSUME NEW reply, Refuses(c, reply), UNCHANGED <<net, handoff>>
        PROVE  Whereabouts'
    <3>1. \A d \in Conns : conns'[d].phase = "free" <=> conns[d].phase = "free"
      BY <1>t, <2>0, <2>3 DEF Refuses
    <3> QED
      BY <2>0, <2>3, <3>1, PlacesStay
  <2> QED
    BY <1>3, <2>1, <2>2, <2>3 DEF Reads
<1>4. ASSUME NEW c \in Conns, Drains(c)
      PROVE  Whereabouts'
  <2>1. \A d \in Conns : conns'[d].phase = "free" <=> conns[d].phase = "free"
    BY <1>4, <1>t DEF Drains, Place
  <2> QED
    BY <1>4, <2>1, PlacesStay DEF Drains
<1>5. ASSUME NEW c \in Conns, Answers(c) \/ Drops(c)
      PROVE  Whereabouts'
  <2>1. conns[c].reply \in {"none", "200", "400", "409", "413", "closed"}
    BY <1>t DEF Place
  <2>2. /\ \A d \in Conns : d # c => net'[d] = net[d] /\ conns'[d] = conns[d]
        /\ net'[c].state = "over" /\ conns'[c].phase = "free"
    <3>1. net' = Over(net, c, conns[c].reply) \/ net' = Closed(net, c)
      BY <1>5 DEF Answers, Drops
    <3>2. net'[c].state = "over" /\ \A d \in Conns : d # c => net'[d] = net[d]
      <4>1. CASE net' = Over(net, c, conns[c].reply)
        <5> DEFINE a == conns[c].reply
        <5>1. net \in [Conns -> Connection] /\ a \in {"none", "200", "400", "409", "413", "closed"}
          BY <1>t, <2>1
        <5>2. net' = Over(net, c, a)
          BY <4>1
        <5> HIDE DEF a
        <5> QED
          BY <5>1, <5>2, OverAnswers
      <4>2. CASE net' = Closed(net, c)
        BY <1>t, <4>2, ClosedCloses
      <4> QED
        BY <3>1, <4>1, <4>2
    <3>3. conns' = [conns EXCEPT ![c] = Free] /\ Free.phase = "free"
      BY <1>5 DEF Answers, Drops, Free
    <3> QED
      BY <1>t, <3>2, <3>3
  <2>3. c \in Held /\ UNCHANGED <<handoff, source, reader>>
    BY <1>5 DEF Answers, Drops, HasDeadline, Held
  <2> QED
    BY <1>t, <1>w, <2>2, <2>3 DEF Whereabouts, InHand, Held
<1>6. ASSUME Takes
      PROVE  Whereabouts'
  <2>1. handoff \in Conns /\ handoff' = NoConn /\ UNCHANGED <<conns, reader>>
    BY <1>6, <1>t DEF Takes
  <2>2. CASE source.part = NoConn /\ source'.part = handoff /\ UNCHANGED net
    BY <1>t, <1>w, <2>1, <2>2 DEF Whereabouts, InHand, Held
  <2>3. CASE UNCHANGED source /\ net' = Closed(net, handoff)
    <3>1. /\ \A d \in Conns : d # handoff => net'[d] = net[d]
          /\ net'[handoff].state = "over"
      BY <1>t, <2>1, <2>3, ClosedCloses
    <3> QED
      BY <1>t, <1>w, <2>1, <2>3, <3>1 DEF Whereabouts, InHand, Held
  <2> QED
    BY <1>6, <1>t, <2>2, <2>3 DEF Takes, Offered
<1>7. ASSUME Close \/ Abort
      PROVE  Whereabouts'
  <2>1. UNCHANGED <<conns, handoff, reader>> /\ net' = Closed(net, source.part)
    BY <1>7 DEF Close, Abort
  <2>2. source'.part = NoConn
    BY <1>7, <1>t DEF Close, Abort, Offered
  <2>3. /\ \A d \in Conns : d # source.part => net'[d] = net[d]
        /\ source.part # NoConn => net'[source.part].state = "over"
    BY <1>t, <2>1, ClosedCloses
  <2> QED
    BY <1>t, <1>w, <2>1, <2>2, <2>3 DEF Whereabouts, InHand, Held
<1>8. ASSUME Begin \/ StartsTransfer \/ ReadBegins \/ ReadServes \/ ReadLooks \/ ReadWaits \/ ReadGivesUp
      PROVE  Whereabouts'
  <2>1. /\ source'.part = source.part /\ reader'.conn = reader.conn
        /\ reader'.pc = "receives" <=> reader.pc = "receives"
    <3>1. ASSUME Begin \/ StartsTransfer
          PROVE  source'.part = source.part /\ reader'.conn = reader.conn /\ reader'.pc = reader.pc
      BY <1>t, <3>1 DEF Begin, StartsTransfer, Offered, Reading
    <3>2. ASSUME ReadServes \/ ReadLooks \/ ReadWaits \/ ReadGivesUp
          PROVE  /\ source'.part = source.part /\ reader'.conn = reader.conn
                 /\ reader.pc # "receives" /\ reader'.pc # "receives"
      <4>1. source'.part = source.part
        BY <1>t, <3>2 DEF ReadServes, ReadLooks, ReadWaits, ReadGivesUp, WantConsumed, Offered
      <4>2. /\ reader.pc # "receives"
            /\ \/ UNCHANGED reader
               \/ \E r, b : Returns(r, b)
               \/ \E pc \in {"looks", "asks"} : reader' = [reader EXCEPT !.pc = pc]
        BY <3>2 DEF ReadServes, ReadLooks, ReadWaits, ReadGivesUp
      <4>3. reader'.conn = reader.conn /\ reader'.pc # "receives"
        BY <1>t, <4>2 DEF Returns, Reading
      <4> QED
        BY <4>1, <4>2, <4>3
    <3>3. ASSUME ReadBegins
          PROVE  /\ source'.part = source.part /\ reader'.conn = reader.conn
                 /\ reader.pc # "receives" /\ reader'.pc # "receives"
      <4>1. source'.part = source.part /\ reader.pc = "idle"
        BY <1>t, <3>3 DEF ReadBegins, Offered
      <4>2. reader'.conn = reader.conn /\ reader'.pc \in {"idle", "begins"}
        BY <1>t, <3>3 DEF ReadBegins, Reading
      <4> QED
        BY <4>1, <4>2
    <3> QED
      BY <1>8, <3>1, <3>2, <3>3
  <2>2. UNCHANGED <<net, conns, handoff>>
    BY <1>8 DEF Begin, StartsTransfer, ReadBegins, ReadServes, ReadLooks, ReadWaits, ReadGivesUp
  <2> QED
    BY <2>1, <2>2, PlacesStay
<1>9. ASSUME ReadTakesPart
      PROVE  Whereabouts'
  <2>1. UNCHANGED <<net, conns, handoff>> /\ reader.pc = "asks"
    BY <1>9 DEF ReadTakesPart
  <2>2. CASE source.part = NoConn
    <3>1. source' = source /\ reader'.conn = reader.conn /\ reader'.pc = "waits"
      BY <1>9, <1>t, <2>2 DEF ReadTakesPart, Reading
    <3> QED
      BY <2>1, <3>1, PlacesStay
  <2>3. CASE source.part # NoConn
    <3>1. source'.part = NoConn /\ reader'.conn = source.part /\ reader'.pc = "receives"
      BY <1>9, <1>t, <2>3 DEF ReadTakesPart, Reading, Offered
    <3> QED
      BY <1>t, <1>w, <2>1, <2>3, <3>1 DEF Whereabouts, InHand, Held
  <2> QED
    BY <2>2, <2>3
<1>10. ASSUME ReadReceives
      PROVE  Whereabouts'
  <2>1. UNCHANGED <<conns, handoff>> /\ reader.pc = "receives" /\ reader.conn \in Conns
    BY <1>10, <1>t, <1>w DEF ReadReceives, Whereabouts
  <2>2. /\ \A d \in Conns : d # reader.conn => net'[d] = net[d]
        /\ net'[reader.conn].state = "over"
    BY <1>10, <1>t, <2>1, OverAnswers DEF ReadReceives
  <2>3. source'.part = source.part /\ reader'.conn = NoConn /\ reader'.pc # "receives"
    BY <1>10, <1>t DEF ReadReceives, Offered, Reading
  <2> QED
    BY <1>t, <1>w, <2>1, <2>2, <2>3 DEF Whereabouts, InHand, Held
<1> QED
  BY <1>1, <1>2, <1>3, <1>4, <1>5, <1>6, <1>7, <1>8, <1>9, <1>10 DEF Next, Server, Source

(* What a step makes of one connection: it is left alone, it is opened, it is  *)
(* forgotten, or it keeps what was asked on it and goes one step further.     *)
Opened(c) ==
  /\ net[c].state = "unused"
  /\ net'[c].state = "queued" /\ net'[c].sent = 0 /\ net'[c].answer = "none"
Forgotten(c) == net[c].state = "over" /\ net'[c] = Unused
Sent(c) ==
  /\ net[c].state \in {"queued", "served"} /\ net[c].sent < net[c].req.length
  /\ net'[c].state = net[c].state /\ net'[c].sent = net[c].sent + 1
  /\ net'[c].req = net[c].req /\ net'[c].peer = net[c].peer
Gone(c) ==
  /\ net'[c].peer # "here" /\ net'[c].state = net[c].state
  /\ net'[c].req = net[c].req /\ net'[c].sent = net[c].sent
Accepted(c) ==
  /\ net[c].state = "queued" /\ net'[c].state = "served"
  /\ net'[c].req = net[c].req /\ net'[c].sent = net[c].sent
Told(c) ==
  /\ net'[c].state = "over"
  /\ net'[c].req = net[c].req /\ net'[c].sent = net[c].sent /\ net'[c].peer = net[c].peer
  /\ net'[c].answer \in {"closed", "200", "400"} \/ conns[c].phase = "out"
Moved(c) ==
  \/ net'[c] = net[c]
  \/ Opened(c) \/ Forgotten(c) \/ Sent(c) \/ Gone(c) \/ Accepted(c) \/ Told(c)

(* A connection moves in one of these ways only.                             *)
LEMMA ConnectionsMove == IInv /\ Next => \A c \in Conns : Moved(c)
<1> SUFFICES ASSUME IInv, Next PROVE \A c \in Conns : Moved(c)
  OBVIOUS
<1>t. /\ net \in [Conns -> Connection] /\ conns \in [Conns -> Place]
      /\ handoff \in Conns \cup {NoConn} /\ source.part \in Conns \cup {NoConn}
      /\ reader.pc = "receives" => reader.conn \in Conns
      /\ NoConn \notin Conns
  BY UploadAssumption DEF IInv, TypeOK, Offered, Reading, Whereabouts
<1>0. CASE UNCHANGED net
  BY <1>0 DEF Moved
<1>1. ASSUME NEW d \in Conns, NEW m, m = net'[d],
             net' = [net EXCEPT ![d] = m],
             Moved(d)
      PROVE  \A c \in Conns : Moved(c)
  BY <1>1, <1>t DEF Moved
<1>2. ASSUME NEW d \in Conns, NEW req, Connects(d, req)
      PROVE  \A c \in Conns : Moved(c)
  <2>1. LET m == [Unused EXCEPT !.state = "queued", !.req = req]
        IN  m.state = "queued" /\ m.sent = 0 /\ m.answer = "none"
    BY DEF Unused
  <2>2. Opened(d)
    BY <1>2, <1>t, <2>1 DEF Connects, Opened
  <2> QED
    BY <1>1, <1>2, <1>t, <2>2 DEF Connects, Moved
<1>3. ASSUME NEW d \in Conns, Sends(d)
      PROVE  \A c \in Conns : Moved(c)
  <2>1. Sent(d)
    BY <1>3, <1>t DEF Sends, Sent, Connection
  <2>2. \A c \in Conns : c # d => net'[c] = net[c]
    BY <1>3, <1>t DEF Sends
  <2> QED
    BY <2>1, <2>2 DEF Moved
<1>4. ASSUME NEW d \in Conns, PageAborts(d) \/ PeerGoes(d)
      PROVE  \A c \in Conns : Moved(c)
  <2>1. Gone(d)
    BY <1>4, <1>t DEF PageAborts, PeerGoes, Gone, Connection
  <2>2. \A c \in Conns : c # d => net'[c] = net[c]
    BY <1>4, <1>t DEF PageAborts, PeerGoes
  <2> QED
    BY <2>1, <2>2 DEF Moved
<1>5. ASSUME NEW d \in Conns, Hears(d)
      PROVE  \A c \in Conns : Moved(c)
  BY <1>5, <1>t DEF Hears, Forgotten, Moved
<1>6. ASSUME NEW d \in Conns \cup {NoConn}, net' = Closed(net, d)
      PROVE  \A c \in Conns : Moved(c)
  <2>1. /\ d # NoConn => net'[d].state = "over" /\ net'[d].answer = "closed"
        /\ \A c \in Conns : net'[c].req = net[c].req /\ net'[c].sent = net[c].sent /\ net'[c].peer = net[c].peer
        /\ \A c \in Conns : c # d => net'[c] = net[c]
    BY <1>6, <1>t, ClosedCloses
  <2> QED
    BY <1>t, <2>1 DEF Moved, Told
<1>7. ASSUME NEW d \in Conns, Accepts(d)
      PROVE  \A c \in Conns : Moved(c)
  <2>1. CASE net' = [net EXCEPT ![d].state = "served"]
    <3>1. Accepted(d)
      BY <1>7, <1>t, <2>1 DEF Accepts, Accepted, Connection
    <3>2. \A c \in Conns : c # d => net'[c] = net[c]
      BY <1>t, <2>1
    <3> QED
      BY <3>1, <3>2 DEF Moved
  <2> QED
    BY <1>6, <1>7, <2>1 DEF Accepts
<1>8. ASSUME NEW d \in Conns, Reads(d) \/ Drains(d)
      PROVE  \A c \in Conns : Moved(c)
  BY <1>0, <1>6, <1>8, <1>t DEF Reads, HandsOver, ClosesEarlier, Drains
<1>9. ASSUME NEW d \in Conns, NEW a \in {"none", "200", "400", "409", "413", "closed"},
             a \in {"200", "400"} \/ conns[d].phase = "out",
             net' = Over(net, d, a)
      PROVE  \A c \in Conns : Moved(c)
  <2>1. /\ net'[d].state = "over" /\ net'[d].answer = a
        /\ \A c \in Conns : net'[c].req = net[c].req /\ net'[c].sent = net[c].sent /\ net'[c].peer = net[c].peer
        /\ \A c \in Conns : c # d => net'[c] = net[c]
    <3>1. net \in [Conns -> Connection]
      BY <1>t
    <3> HIDE DEF Connection
    <3> QED
      BY <1>9, <3>1, OverAnswers
  <2> QED
    BY <1>9, <2>1 DEF Moved, Told
<1>10. ASSUME NEW d \in Conns, Answers(d) \/ Drops(d)
       PROVE  \A c \in Conns : Moved(c)
  <2>1. conns[d].reply \in {"none", "200", "400", "409", "413", "closed"}
    BY <1>t DEF Place
  <2> QED
    BY <1>6, <1>9, <1>10, <2>1 DEF Answers, Drops
<1>11. ASSUME ReadReceives
       PROVE  \A c \in Conns : Moved(c)
  BY <1>9, <1>11, <1>t DEF ReadReceives
<1>12. ASSUME Takes \/ Close \/ Abort
       PROVE  \A c \in Conns : Moved(c)
  BY <1>0, <1>6, <1>12, <1>t DEF Takes, Close, Abort
<1> QED
  BY <1>0, <1>2, <1>3, <1>4, <1>5, <1>7, <1>8, <1>10, <1>11, <1>12
     DEF Next, Browser, Server, Source, PagePosts, StrayPosts, Visits, PageAsks, Begin, StartsTransfer,
         ReadBegins, ReadServes, ReadLooks, ReadTakesPart, ReadWaits, ReadGivesUp

(* An answer goes out after the body is read, and a refusal with it.         *)
LEMMA AnswersNext == IInv /\ Next => AnsweredAfterTheBody' /\ RefusalIsHeard'
<1> SUFFICES ASSUME IInv, Next, NEW c \in Conns
             PROVE  /\ net'[c].sent <= net'[c].req.length
                    /\ conns'[c].phase = "out" /\ net'[c].peer = "here" =>
                         net'[c].sent = net'[c].req.length
                    /\ net'[c].state = "over" /\ net'[c].answer \in {"409", "413"} /\ net'[c].peer = "here" =>
                         net'[c].sent = net'[c].req.length
  BY DEF AnsweredAfterTheBody, RefusalIsHeard
<1>t. /\ net \in [Conns -> Connection] /\ net' \in [Conns -> Connection]
      /\ conns \in [Conns -> Place]
      /\ net[c].sent \in Int /\ net[c].req.length \in Int
      /\ net'[c].sent \in Int /\ net'[c].req.length \in Nat
  <2>1. net \in [Conns -> Connection] /\ net' \in [Conns -> Connection] /\ conns \in [Conns -> Place]
    BY NetNext DEF IInv, TypeOK
  <2>2. net'[c].req.length \in 0 .. PartMax
    BY <2>1, ARequest
  <2> QED
    BY <2>1, <2>2, ARequest, UploadAssumption
<1>1. Moved(c)
  BY ConnectionsMove
<1>2. /\ net[c].sent <= net[c].req.length
      /\ conns[c].phase = "out" /\ net[c].peer = "here" => net[c].sent = net[c].req.length
      /\ net[c].state = "over" /\ net[c].answer \in {"409", "413"} /\ net[c].peer = "here" =>
           net[c].sent = net[c].req.length
      /\ conns[c].phase # "free" => net[c].state = "served"
  BY DEF IInv, AnsweredAfterTheBody, RefusalIsHeard, Whereabouts, Held
<1>3. \/ conns'[c] = conns[c]
      \/ conns'[c].phase # "out"
      \/ /\ UNCHANGED net
         /\ net[c].sent < net[c].req.length => net[c].peer # "here"
  <2>1. CASE UNCHANGED conns
    BY <2>1
  <2>2. ASSUME NEW d \in Conns, Reads(d)
        PROVE  \/ conns'[c] = conns[c] \/ conns'[c].phase # "out"
               \/ UNCHANGED net /\ (net[c].sent < net[c].req.length => net[c].peer # "here")
    BY <2>2, <1>t DEF Reads, HandsOver, Refuses, Free
  <2>3. ASSUME NEW d \in Conns, Drains(d)
        PROVE  \/ conns'[c] = conns[c]
               \/ UNCHANGED net /\ (net[c].sent < net[c].req.length => net[c].peer # "here")
    BY <2>3, <1>t DEF Drains
  <2>4. ASSUME NEW d \in Conns, Accepts(d) \/ Answers(d) \/ Drops(d)
        PROVE  conns'[c] = conns[c] \/ conns'[c].phase # "out"
    BY <2>4, <1>t DEF Accepts, Answers, Drops, Free
  <2> QED
    BY <2>1, <2>2, <2>3, <2>4
       DEF Next, Browser, Server, Source, PagePosts, StrayPosts, Visits, Sends, Hears, PageAborts, PeerGoes,
           PageAsks, Takes, Begin, StartsTransfer, Close, Abort, ReadBegins, ReadServes, ReadLooks,
           ReadTakesPart, ReadReceives, ReadWaits, ReadGivesUp
<1>4. net'[c].sent <= net'[c].req.length
  BY <1>t, <1>1, <1>2, AnUnusedOne DEF Moved, Opened, Forgotten, Sent, Gone, Accepted, Told
<1>5. ASSUME conns'[c].phase = "out", net'[c].peer = "here"
      PROVE  net'[c].sent = net'[c].req.length
  <2>1. CASE conns'[c] = conns[c]
    BY <1>t, <1>1, <1>2, <1>5, <2>1 DEF Moved, Opened, Forgotten, Sent, Gone, Accepted, Told
  <2>2. CASE UNCHANGED net /\ (net[c].sent < net[c].req.length => net[c].peer # "here")
    BY <1>t, <1>2, <1>5, <2>2
  <2> QED
    BY <1>3, <1>5, <2>1, <2>2
<1>6. ASSUME net'[c].state = "over", net'[c].answer \in {"409", "413"}, net'[c].peer = "here"
      PROVE  net'[c].sent = net'[c].req.length
  BY <1>t, <1>1, <1>2, <1>6, AnUnusedOne DEF Moved, Opened, Forgotten, Sent, Gone, Accepted, Told
<1> QED
  BY <1>4, <1>5, <1>6

(* What is closed stays quiet until it is opened with a task of its own.     *)
LEMMA QuietNext == IInv /\ Next => ClosedIsQuiet'
<1> SUFFICES ASSUME IInv, Next PROVE ClosedIsQuiet'
  OBVIOUS
<1>t. /\ source \in Offered /\ reader \in Reading /\ source.task \in Nat /\ MaxTasks \in Nat
  BY UploadAssumption DEF IInv, TypeOK, Offered, Reading, Tasks
<1>q. /\ source.open => source.task \in Tasks
      /\ ~source.open => /\ handoff = NoConn /\ source.part = NoConn /\ reader.pc = "idle"
                         /\ source.slot = NoSlot
  BY DEF IInv, ClosedIsQuiet
<1>0. CASE source.open /\ source'.open /\ source'.task = source.task
  BY <1>0, <1>q DEF ClosedIsQuiet
<1>1. CASE UNCHANGED <<source, reader, handoff>>
  BY <1>1, <1>q DEF ClosedIsQuiet
<1>2. ASSUME NEW c \in Conns, Reads(c)
      PROVE  ClosedIsQuiet'
  BY <1>0, <1>1, <1>2 DEF Reads, PartIsWanted
<1>3. CASE Takes
  BY <1>0, <1>q, <1>t, <1>3 DEF Takes, Offered
<1>4. CASE Begin
  <2>1. source'.open /\ source'.task = source.task + 1
    BY <1>4, <1>t DEF Begin, Offered
  <2> QED
    BY <1>4, <1>t, <2>1 DEF Begin, ClosedIsQuiet, Tasks
<1>5. CASE Close
  <2>1. ~source'.open /\ source'.part = NoConn /\ source'.slot = NoSlot
    BY <1>5, <1>t DEF Close, Offered
  <2> QED
    BY <1>5, <2>1 DEF Close, ClosedIsQuiet
<1>6. CASE StartsTransfer \/ Abort
  BY <1>0, <1>6, <1>t DEF StartsTransfer, Abort, Offered
<1>7. CASE ReadBegins
  BY <1>0, <1>7, <1>t DEF ReadBegins, Offered
<1>8. CASE ReadServes \/ ReadLooks \/ ReadTakesPart \/ ReadReceives \/ ReadWaits \/ ReadGivesUp
  <2>1. source.open
    BY <1>8, <1>q DEF ReadServes, ReadLooks, ReadTakesPart, ReadReceives, ReadWaits, ReadGivesUp
  <2>2. source'.open = source.open /\ source'.task = source.task
    BY <1>8, <1>t DEF ReadServes, ReadLooks, ReadTakesPart, ReadReceives, ReadWaits, ReadGivesUp,
                      WantConsumed, Offered
  <2> QED
    BY <1>0, <2>1, <2>2
<1> QED
  BY <1>1, <1>2, <1>3, <1>4, <1>5, <1>6, <1>7, <1>8
     DEF Next, Browser, Server, Source, PagePosts, StrayPosts, Visits, Sends, Hears, PageAborts, PeerGoes,
         PageAsks, Accepts, Drains, Answers, Drops

(* The task is only changed when nothing is in hand.                          *)
LEMMA TheTaskStays ==
  IInv /\ Next => source'.task = source.task \/ (Begin /\ InHand = {} /\ ~source.open)
<1> SUFFICES ASSUME IInv, Next
             PROVE  source'.task = source.task \/ (Begin /\ InHand = {} /\ ~source.open)
  OBVIOUS
<1>t. source \in Offered
  BY DEF IInv, TypeOK
<1>1. CASE UNCHANGED source
  BY <1>1
<1>2. CASE Begin
  BY <1>2 DEF Begin, IInv, ClosedIsQuiet, Whereabouts, InHand
<1>3. CASE \/ Takes \/ Close \/ StartsTransfer \/ Abort \/ ReadBegins \/ ReadServes \/ ReadLooks
           \/ ReadTakesPart \/ ReadReceives \/ ReadWaits \/ ReadGivesUp
  <2>1. CASE Takes \/ Close \/ StartsTransfer \/ Abort
    <3>1. CASE Takes \/ Abort
      BY <3>1, <1>t DEF Takes, Abort, Offered
    <3>2. CASE Close
      BY <3>2, <1>t DEF Close, Offered
    <3>3. CASE StartsTransfer
      BY <3>3, <1>t DEF StartsTransfer, Offered
    <3> QED
      BY <2>1, <3>1, <3>2, <3>3
  <2>2. CASE ReadBegins \/ ReadServes \/ ReadLooks
    BY <2>2, <1>t DEF ReadBegins, ReadServes, ReadLooks, WantConsumed, Offered
  <2>3. CASE ReadTakesPart \/ ReadReceives \/ ReadWaits \/ ReadGivesUp
    BY <2>3, <1>t DEF ReadTakesPart, ReadReceives, ReadWaits, ReadGivesUp, Offered
  <2> QED
    BY <1>3, <2>1, <2>2, <2>3
<1> QED
  BY <1>1, <1>2, <1>3
     DEF Next, Browser, Server, Source, PagePosts, StrayPosts, Visits, Sends, Hears, PageAborts, PeerGoes,
         PageAsks, Accepts, Reads, Drains, Answers, Drops

(* What comes into hand is of this upload, and what is in hand stays of it.  *)
LEMMA UploadNext == IInv /\ Next => OfThisUpload'
<1> SUFFICES ASSUME IInv, Next PROVE OfThisUpload'
  OBVIOUS
<1>t. /\ source \in Offered /\ reader \in Reading /\ NoConn \notin Conns
      /\ handoff \in Conns \cup {NoConn} /\ source.part \in Conns \cup {NoConn}
      /\ reader.conn \in Conns \cup {NoConn}
  BY UploadAssumption DEF IInv, TypeOK, Offered, Reading
<1>1. \A c \in Conns : net[c].state = "served" => net'[c].req = net[c].req
  BY ConnectionsMove DEF Moved, Opened, Forgotten, Sent, Gone, Accepted, Told
<1>2. \A c \in InHand : c \in Conns /\ net[c].state = "served" /\ net[c].req.task = source.task
  BY <1>t DEF IInv, Whereabouts, OfThisUpload, InHand
<1>3. \A c \in InHand' : \/ c \in InHand
                        \/ /\ c \in Conns /\ net[c].state = "served" /\ net[c].req.task = source.task
                           /\ UNCHANGED source
  <2>1. CASE UNCHANGED <<handoff, source, reader>>
    BY <2>1 DEF InHand
  <2>2. ASSUME NEW c \in Conns, Reads(c)
        PROVE  \A d \in InHand' : \/ d \in InHand
                        \/ /\ d \in Conns /\ net[d].state = "served" /\ net[d].req.task = source.task
                           /\ UNCHANGED source
    <3>1. net[c].state = "served"
      BY <2>2 DEF Reads, IInv, Whereabouts, Held
    <3>2. UNCHANGED <<source, reader>> /\ (UNCHANGED handoff \/ (handoff' = c /\ net[c].req.task = source.task))
      <4>1. UNCHANGED handoff \/ (HandsOver(c) /\ PartIsWanted(net[c].req))
        BY <2>2 DEF Reads
      <4>2. UNCHANGED <<source, reader>>
        BY <2>2 DEF Reads
      <4>3. PartIsWanted(net[c].req) => net[c].req.task = source.task
        BY DEF PartIsWanted
      <4>4. HandsOver(c) => handoff' = c
        BY DEF HandsOver
      <4>5. CASE HandsOver(c) /\ PartIsWanted(net[c].req)
        BY <4>2, <4>3, <4>4, <4>5
      <4>6. CASE UNCHANGED handoff
        BY <4>2, <4>6
      <4> QED
        BY <4>1, <4>5, <4>6
    <3> QED
      BY <3>1, <3>2 DEF InHand
  <2>3. CASE Takes
    BY <2>3, <1>t DEF Takes, InHand, Offered
  <2>4. CASE Begin \/ Close \/ StartsTransfer \/ Abort
    <3>1. /\ UNCHANGED handoff /\ source'.part \in {source.part, NoConn}
          /\ reader'.conn = reader.conn
      BY <2>4, <1>t DEF Begin, Close, StartsTransfer, Abort, Offered, Reading
    <3> QED
      BY <3>1 DEF InHand
  <2>5. CASE ReadBegins
    <3>1. UNCHANGED handoff /\ source'.part = source.part
      BY <2>5, <1>t DEF ReadBegins, Offered
    <3>2. reader'.conn = reader.conn
      BY <2>5, <1>t DEF ReadBegins, Reading
    <3> QED
      BY <3>1, <3>2 DEF InHand
  <2>6. CASE ReadServes \/ ReadLooks \/ ReadWaits \/ ReadGivesUp
    <3>1. UNCHANGED handoff /\ source'.part = source.part
      BY <2>6, <1>t DEF ReadServes, ReadLooks, ReadWaits, ReadGivesUp, WantConsumed, Offered
    <3>2. reader'.conn = reader.conn
      BY <2>6, <1>t DEF ReadServes, ReadLooks, ReadWaits, ReadGivesUp, Returns, Reading
    <3> QED
      BY <3>1, <3>2 DEF InHand
  <2>7. CASE ReadTakesPart \/ ReadReceives
    <3>1. /\ UNCHANGED handoff /\ source'.part \in {source.part, NoConn}
          /\ reader'.conn \in {reader.conn, source.part, NoConn}
      BY <2>7, <1>t DEF ReadTakesPart, ReadReceives, Offered, Reading
    <3> QED
      BY <3>1 DEF InHand
  <2> QED
    BY <2>1, <2>2, <2>3, <2>4, <2>5, <2>6, <2>7
       DEF Next, Browser, Server, Source, PagePosts, StrayPosts, Visits, Sends, Hears, PageAborts, PeerGoes,
           PageAsks, Accepts, Drains, Answers, Drops
<1>4. CASE source'.task = source.task
  BY <1>1, <1>2, <1>3, <1>4 DEF OfThisUpload
<1>5. CASE Begin /\ InHand = {}
  <2>1. InHand' = {}
    BY <1>t, <1>5 DEF Begin, InHand, Offered, Reading
  <2> QED
    BY <2>1 DEF OfThisUpload
<1> QED
  BY <1>4, <1>5, TheTaskStays

(* The slot is filled from a body that is whole and of this upload.          *)
LEMMA SlotNext == IInv /\ Next => SlotIsTheFile'
<1> SUFFICES ASSUME IInv, Next PROVE SlotIsTheFile'
  OBVIOUS
<1>t. /\ source \in Offered /\ source.task \in Nat /\ net \in [Conns -> Connection]
      /\ source.slot.bytes \in Seq(Bytes)
      /\ reader.pc = "receives" => reader.conn \in Conns
  BY UploadAssumption DEF IInv, TypeOK, Offered, Tasks, Whereabouts, Reading
<1>0. CASE source'.slot = source.slot /\ source'.task = source.task
  BY <1>0 DEF IInv, SlotIsTheFile
<1>e. CASE source'.slot.bytes = <<>>
  BY <1>e DEF SlotIsTheFile
<1>1. CASE ReadReceives
  <2>1. CASE source' = source
    BY <1>0, <2>1
  <2>2. CASE source' = [source EXCEPT !.slot = [offset |-> net[reader.conn].req.offset,
                                                bytes |-> Body(reader.conn)]]
             /\ Received(reader.conn) = net[reader.conn].req.length
    <3> DEFINE c == reader.conn
               n == net[c].req.length
    <3>1. c \in Conns /\ n \in Nat /\ net[c].sent = n /\ net[c].req.task = source.task
          /\ net[c].req.offset \in Nat
      <4>1. c \in Conns /\ net[c].req.task = source.task
        BY <1>1, <1>t, UploadAssumption DEF ReadReceives, IInv, OfThisUpload, InHand
      <4>2. n \in 0 .. PartMax /\ net[c].req.offset \in 0 .. FileSize
        BY <1>t, <4>1, ARequest
      <4> QED
        BY <2>2, <4>1, <4>2, UploadAssumption DEF Received
    <3>2. /\ source'.slot.bytes = Body(c) /\ source'.slot.offset = net[c].req.offset
          /\ source'.task = source.task
      BY <2>2, <1>t DEF Offered
    <3>3. /\ Len(Body(c)) = n
          /\ \A i \in 1 .. n : Body(c)[i] = <<source.task, net[c].req.offset + i - 1>>
      <4>1. Len([i \in 1 .. n |-> IF i <= net[c].sent
                                     THEN <<net[c].req.task, net[c].req.offset + i - 1>>
                                     ELSE Zero]) = n
        BY <3>1
      <4>2. ASSUME NEW i \in 1 .. n
            PROVE  Body(c)[i] = <<source.task, net[c].req.offset + i - 1>>
        BY <3>1 DEF Body
      <4> QED
        BY <4>1, <4>2 DEF Body
    <3> QED
      BY <3>2, <3>3 DEF SlotIsTheFile
  <2> QED
    BY <1>1, <2>1, <2>2 DEF ReadReceives
<1>2. CASE Begin
  <2>1. source'.slot.bytes = <<>>
    BY <1>2, <1>t DEF Begin, Offered, IInv, ClosedIsQuiet, NoSlot
  <2> QED
    BY <1>e, <2>1
<1>3. CASE Close
  BY <1>e, <1>3, <1>t DEF Close, Offered, NoSlot
<1>4. CASE UNCHANGED source
  BY <1>0, <1>4
<1>5. CASE Takes \/ StartsTransfer \/ Abort \/ ReadBegins \/ ReadServes \/ ReadLooks \/ ReadTakesPart
           \/ ReadWaits \/ ReadGivesUp
  BY <1>0, <1>5, <1>t DEF Takes, StartsTransfer, Abort, ReadBegins, ReadServes, ReadLooks, ReadTakesPart,
                          ReadWaits, ReadGivesUp, WantConsumed, Offered
<1> QED
  BY <1>1, <1>2, <1>3, <1>4, <1>5
     DEF Next, Browser, Server, Source, PagePosts, StrayPosts, Visits, Sends, Hears, PageAborts, PeerGoes,
         PageAsks, Accepts, Reads, Drains, Answers, Drops

(* What a covered range is copied to.                                         *)
LEMMA CopiedIsTheFile ==
  ASSUME IInv, NEW range \in Ranges \cup {NoRange}, Covers(source.slot, range)
  PROVE  /\ Copied(source.slot, range) =
              [i \in 1 .. range.size |-> <<source.task, range.offset + i - 1>>]
         /\ Copied(source.slot, range) \in Seq(Bytes)
<1> DEFINE s == source.slot
<1>1. /\ s.offset \in Nat /\ s.bytes \in Seq(Bytes) /\ range.offset \in Nat /\ range.size \in Nat
      /\ source.task \in Nat
  BY UploadAssumption DEF IInv, TypeOK, Offered, Ranges, NoRange, Tasks
<1>2. Len(s.bytes) \in Nat
  BY <1>1, LenProperties
<1>3. ASSUME NEW i \in 1 .. range.size
      PROVE  /\ range.offset - s.offset + i \in 1 .. Len(s.bytes)
             /\ s.bytes[range.offset - s.offset + i] = <<source.task, range.offset + i - 1>>
             /\ s.bytes[range.offset - s.offset + i] \in Bytes
  <2>1. range.offset - s.offset + i \in 1 .. Len(s.bytes)
    <3>1. s.offset <= range.offset /\ range.offset + range.size <= s.offset + Len(s.bytes)
      BY DEF Covers
    <3>2. i \in Int /\ 1 <= i /\ i <= range.size
      BY <1>1
    <3> HIDE DEF s
    <3> QED
      BY <1>1, <1>2, <3>1, <3>2
  <2>2. s.bytes[range.offset - s.offset + i] =
          <<source.task, s.offset + (range.offset - s.offset + i) - 1>>
    BY <2>1 DEF IInv, SlotIsTheFile
  <2>3. s.offset + (range.offset - s.offset + i) - 1 = range.offset + i - 1
    BY <1>1
  <2> QED
    BY <1>1, <2>1, <2>2, <2>3, ElementOfSeq
<1>4. Copied(s, range) = [i \in 1 .. range.size |-> <<source.task, range.offset + i - 1>>]
  BY <1>3 DEF Copied
<1>5. Copied(s, range) \in [1 .. range.size -> Bytes]
  BY <1>3 DEF Copied
<1>6. Copied(s, range) \in Seq(Bytes)
  BY <1>1, <1>5, SeqDef
<1> QED
  BY <1>4, <1>6

(* A read that succeeds is copied from the slot.                             *)
LEMMA ReadNext == IInv /\ Next => ReadsTheFile'
<1> SUFFICES ASSUME IInv, Next PROVE ReadsTheFile'
  OBVIOUS
<1>t. source \in Offered /\ reader \in Reading
  BY DEF IInv, TypeOK
<1>0. CASE reader'.result # "read"
  BY <1>0 DEF ReadsTheFile
<1>1. CASE source'.task = source.task /\ reader'.range = reader.range /\ reader'.result = reader.result
           /\ reader'.bytes = reader.bytes
  BY <1>1 DEF IInv, ReadsTheFile
<1>2. CASE UNCHANGED reader /\ source'.task = source.task
  BY <1>1, <1>2
<1>3. CASE Begin
  BY <1>0, <1>3, <1>t DEF Begin, Reading
<1>4. CASE source'.task = source.task
  <2>1. CASE ReadBegins
    BY <1>0, <1>t, <2>1 DEF ReadBegins, Reading
  <2>2. CASE ReadLooks
    <3>1. CASE Covers(source.slot, reader.range) /\ Returns("read", Copied(source.slot, reader.range))
      <4>1. reader'.range = reader.range /\ reader'.bytes = Copied(source.slot, reader.range)
        BY <1>t, <3>1 DEF Returns, Reading
      <4>2. reader.range \in Ranges \cup {NoRange}
        BY <1>t DEF Reading
      <4> QED
        BY <1>4, <3>1, <4>1, <4>2, CopiedIsTheFile DEF ReadsTheFile
    <3>2. CASE Returns("failed", NoBytes)
      BY <1>0, <1>t, <3>2 DEF Returns, Reading
    <3>3. CASE reader' = [reader EXCEPT !.pc = "asks"]
      BY <1>1, <1>4, <1>t, <3>3 DEF Reading
    <3> QED
      BY <2>2, <3>1, <3>2, <3>3 DEF ReadLooks
  <2>3. CASE ReadServes \/ ReadGivesUp
    BY <1>0, <1>1, <1>4, <1>t, <2>3 DEF ReadServes, ReadGivesUp, Returns, Reading
  <2>4. CASE ReadTakesPart \/ ReadReceives \/ ReadWaits
    BY <1>1, <1>4, <1>t, <2>4 DEF ReadTakesPart, ReadReceives, ReadWaits, Reading
  <2>5. CASE UNCHANGED reader
    BY <1>2, <1>4, <2>5
  <2> QED
    BY <1>3, <2>1, <2>2, <2>3, <2>4, <2>5
       DEF Next, Browser, Server, Source, PagePosts, StrayPosts, Visits, Sends, Hears, PageAborts, PeerGoes,
           PageAsks, Accepts, Reads, Drains, Answers, Drops, Takes, Close, StartsTransfer, Abort
<1> QED
  BY <1>3, <1>4, TheTaskStays

(* A new place is only given when there is one to give.                      *)
LEMMA TableNext == IInv /\ Next => TableFits'
<1> SUFFICES ASSUME IInv, Next PROVE TableFits'
  OBVIOUS
<1>t. /\ conns \in [Conns -> Place] /\ Slots \in Nat /\ IsFiniteSet(Held) /\ Cardinality(Held) \in Nat
      /\ Cardinality(Held) <= Slots
  <2>1. IsFiniteSet(Held)
    BY UploadAssumption, FS_Subset DEF Held
  <2> QED
    BY <2>1, FS_CardinalityType, UploadAssumption DEF IInv, TypeOK, TableFits
<1>1. ASSUME Held' \subseteq Held
      PROVE  TableFits'
  <2>1. Cardinality(Held') <= Cardinality(Held) /\ Cardinality(Held') \in Nat
    BY <1>1, <1>t, FS_Subset, FS_CardinalityType
  <2> QED
    BY <1>t, <2>1 DEF TableFits
<1>2. CASE UNCHANGED conns
  BY <1>1, <1>2 DEF Held
<1>3. ASSUME NEW c \in Conns, Accepts(c)
      PROVE  TableFits'
  <2>1. CASE Cardinality(Held) < Slots /\ conns' = [conns EXCEPT ![c] = [Free EXCEPT !.phase = "in"]]
    <3>1. Held' \subseteq Held \cup {c}
      BY <1>t, <2>1 DEF Held
    <3>2. /\ IsFiniteSet(Held \cup {c})
          /\ Cardinality(Held \cup {c}) <= Cardinality(Held) + 1
          /\ Cardinality(Held \cup {c}) \in Nat
      <4>1. /\ IsFiniteSet(Held \cup {c})
            /\ Cardinality(Held \cup {c}) = Cardinality(Held) \/ Cardinality(Held \cup {c}) = Cardinality(Held) + 1
        BY <1>t, FS_AddElement
      <4> QED
        BY <1>t, <4>1
    <3>3. Cardinality(Held') <= Cardinality(Held \cup {c}) /\ Cardinality(Held') \in Nat
      BY <3>1, <3>2, FS_Subset, FS_CardinalityType
    <3> QED
      BY <1>t, <2>1, <3>2, <3>3 DEF TableFits
  <2> QED
    BY <1>2, <1>3, <2>1 DEF Accepts
<1>4. ASSUME NEW c \in Conns, Reads(c) \/ Drains(c) \/ Answers(c) \/ Drops(c)
      PROVE  TableFits'
  <2>1. /\ conns[c].phase # "free"
        /\ UNCHANGED conns \/ \E p : conns' = [conns EXCEPT ![c] = p]
    <3>1. CASE Reads(c)
      BY <3>1 DEF Reads, HandsOver, Refuses
    <3>2. CASE Drains(c) \/ Answers(c) \/ Drops(c)
      BY <3>2 DEF Drains, Answers, Drops, HasDeadline
    <3> QED
      BY <1>4, <3>1, <3>2
  <2>2. \A d \in Conns : d # c => conns'[d] = conns[d]
    BY <1>t, <2>1
  <2> QED
    BY <1>1, <2>1, <2>2 DEF Held
<1> QED
  BY <1>2, <1>3, <1>4
     DEF Next, Browser, Server, Source, PagePosts, StrayPosts, Visits, Sends, Hears, PageAborts, PeerGoes,
         PageAsks, Takes, Begin, StartsTransfer, Close, Abort, ReadBegins, ReadServes, ReadLooks,
         ReadTakesPart, ReadReceives, ReadWaits, ReadGivesUp

(* The types, variable by variable: the server's,                            *)
LEMMA ServerTypes ==
  IInv /\ Next => conns' \in [Conns -> Place] /\ handoff' \in Conns \cup {NoConn} /\ faults' \in 0 .. MaxFaults
<1> SUFFICES ASSUME IInv, Next
             PROVE  /\ conns' \in [Conns -> Place] /\ handoff' \in Conns \cup {NoConn}
                    /\ faults' \in 0 .. MaxFaults
  OBVIOUS
<1>t. /\ conns \in [Conns -> Place] /\ handoff \in Conns \cup {NoConn}
      /\ faults \in 0 .. MaxFaults /\ MaxFaults \in Nat
      /\ Free \in Place
  BY UploadAssumption DEF IInv, TypeOK, Free, Place
<1>1. faults' \in 0 .. MaxFaults
  <2>1. CASE UNCHANGED faults
    BY <1>t, <2>1
  <2>2. ASSUME NEW kind, Fault(kind)
        PROVE  faults' \in 0 .. MaxFaults
    BY <1>t, <2>2 DEF Fault
  <2> QED
    BY <2>1, <2>2
       DEF Next, Browser, Server, Source, PagePosts, StrayPosts, Visits, Sends, Hears, PageAborts, PeerGoes,
           PageAsks, Accepts, Reads, Drains, Answers, Drops, Takes, Begin, StartsTransfer, Close, Abort,
           ReadBegins, ReadServes, ReadLooks, ReadTakesPart, ReadReceives, ReadWaits, ReadGivesUp
<1>2. handoff' \in Conns \cup {NoConn}
  <2>1. handoff' = handoff \/ handoff' = NoConn \/ \E c \in Conns : handoff' = c
    BY DEF Next, Browser, Server, Source, PagePosts, StrayPosts, Visits, Sends, Hears, PageAborts, PeerGoes,
           PageAsks, Accepts, Reads, HandsOver, Drains, Answers, Drops, Takes, Begin, StartsTransfer, Close,
           Abort, ReadBegins, ReadServes, ReadLooks, ReadTakesPart, ReadReceives, ReadWaits, ReadGivesUp
  <2> QED
    BY <1>t, <2>1
<1>3. conns' \in [Conns -> Place]
  <2>1. CASE UNCHANGED conns
    BY <1>t, <2>1
  <2>2. ASSUME NEW c \in Conns, NEW p \in Place, conns' = [conns EXCEPT ![c] = p]
        PROVE  conns' \in [Conns -> Place]
    BY <1>t, <2>2
  <2>3. ASSUME NEW c \in Conns, Reads(c)
        PROVE  conns' \in [Conns -> Place]
    <3>1. ASSUME NEW reply \in {"200", "409", "413"}, Refuses(c, reply)
          PROVE  conns' \in [Conns -> Place]
      BY <1>t, <3>1 DEF Refuses, Place
    <3> QED
      BY <1>t, <2>2, <2>3, <3>1 DEF Reads, HandsOver
  <2>4. ASSUME NEW c \in Conns, Drains(c)
        PROVE  conns' \in [Conns -> Place]
    BY <1>t, <2>4 DEF Drains, Place
  <2>5. ASSUME NEW c \in Conns, Accepts(c) \/ Answers(c) \/ Drops(c)
        PROVE  conns' \in [Conns -> Place]
    <3>1. [Free EXCEPT !.phase = "in"] \in Place
      BY <1>t DEF Place
    <3> QED
      BY <1>t, <2>1, <2>2, <2>5, <3>1 DEF Accepts, Answers, Drops
  <2> QED
    BY <2>1, <2>3, <2>4, <2>5
       DEF Next, Browser, Server, Source, PagePosts, StrayPosts, Visits, Sends, Hears, PageAborts, PeerGoes,
           PageAsks, Takes, Begin, StartsTransfer, Close, Abort, ReadBegins, ReadServes, ReadLooks,
           ReadTakesPart, ReadReceives, ReadWaits, ReadGivesUp
<1> QED
  BY <1>1, <1>2, <1>3

(* the page's,                                                               *)
LEMMA PageTypes == IInv /\ Next => page' \in [told : Ranges \cup {NoRange}, conn : Conns \cup {NoConn}]
<1> SUFFICES ASSUME IInv, Next
             PROVE  page' \in [told : Ranges \cup {NoRange}, conn : Conns \cup {NoConn}]
  OBVIOUS
<1>t. /\ page \in [told : Ranges \cup {NoRange}, conn : Conns \cup {NoConn}]
      /\ source.want \in Ranges \cup {NoRange}
  BY DEF IInv, TypeOK, Offered
<1>1. CASE UNCHANGED page
  BY <1>1, <1>t
<1>2. CASE PageAsks \/ Begin
  BY <1>2, <1>t DEF PageAsks, Begin
<1>3. ASSUME NEW c \in Conns, PagePosts(c)
      PROVE  page' \in [told : Ranges \cup {NoRange}, conn : Conns \cup {NoConn}]
  BY <1>3, <1>t DEF PagePosts
<1>4. ASSUME NEW c \in Conns, Forgets(c)
      PROVE  page' \in [told : Ranges \cup {NoRange}, conn : Conns \cup {NoConn}]
  BY <1>4, <1>t DEF Forgets
<1> QED
  BY <1>1, <1>2, <1>3, <1>4
     DEF Next, Browser, Server, Source, StrayPosts, Visits, Sends, Hears, PageAborts, PeerGoes,
         Accepts, Reads, Drains, Answers, Drops, Takes, StartsTransfer, Close, Abort, ReadBegins, ReadServes,
         ReadLooks, ReadTakesPart, ReadReceives, ReadWaits, ReadGivesUp

(* A body that was received is a sequence of bytes of a task's file.           *)
LEMMA BodyTypes ==
  ASSUME IInv, NEW c \in InHand
  PROVE  [offset |-> net[c].req.offset, bytes |-> Body(c)] \in [offset : 0 .. FileSize, bytes : Seq(Bytes)]
<1> DEFINE n == net[c].req.length
           o == net[c].req.offset
           k == net[c].req.task
<1>1. c \in Conns /\ k = source.task
  BY UploadAssumption DEF InHand, IInv, OfThisUpload, TypeOK, Offered, Reading
<1>2. source.task \in Tasks
  <2>1. source.open
    BY <1>1 DEF IInv, ClosedIsQuiet, Whereabouts, InHand
  <2> QED
    BY <2>1 DEF IInv, ClosedIsQuiet
<1>3. n \in 0 .. PartMax /\ o \in 0 .. FileSize /\ FileSize \in Nat /\ PartMax \in Nat
  BY <1>1, ARequest, UploadAssumption DEF IInv, TypeOK
<1>4. ASSUME NEW i \in 1 .. n
      PROVE  (IF i <= net[c].sent THEN <<k, o + i - 1>> ELSE Zero) \in Bytes
  <2>1. o + i - 1 \in 0 .. FileSize + PartMax
    BY <1>3
  <2> QED
    BY <1>1, <1>2, <2>1 DEF Bytes
<1>5. Body(c) \in [1 .. n -> Bytes]
  BY <1>4 DEF Body
<1>6. Body(c) \in Seq(Bytes)
  BY <1>3, <1>5, SeqDef
<1> QED
  BY <1>3, <1>6

(* the source's,                                                             *)
LEMMA SourceTypes == IInv /\ Next => source' \in Offered
<1> SUFFICES ASSUME IInv, Next PROVE source' \in Offered
  OBVIOUS
<1>t. /\ source \in Offered /\ reader \in Reading /\ handoff \in Conns \cup {NoConn}
      /\ source.task \in {0} \cup Tasks /\ source.task \in Nat /\ MaxTasks \in Nat
      /\ reader.range \in Ranges \cup {NoRange}
  BY UploadAssumption DEF IInv, TypeOK, Offered, Reading, Tasks
<1>1. CASE UNCHANGED source
  BY <1>1, <1>t
<1>2. CASE Takes
  BY <1>2, <1>t DEF Takes, Offered
<1>3. CASE Begin
  <2>1. source.task + 1 \in Tasks
    BY <1>3, <1>t DEF Begin, Tasks
  <2> QED
    BY <1>3, <1>t, <2>1 DEF Begin, Offered
<1>4. CASE Close
  <2>1. NoSlot \in [offset : 0 .. FileSize, bytes : Seq(Bytes)]
    BY UploadAssumption, EmptySeq DEF NoSlot
  <2> QED
    BY <1>4, <1>t, <2>1 DEF Close, Offered
<1>5. CASE StartsTransfer \/ Abort
  <2>1. CASE StartsTransfer
    BY <2>1, <1>t DEF StartsTransfer, Offered
  <2>2. CASE Abort
    BY <2>2, <1>t DEF Abort, Offered
  <2> QED
    BY <1>5, <2>1, <2>2
<1>6. CASE ReadBegins
  BY <1>6, <1>t DEF ReadBegins, Offered
<1>7. CASE ReadLooks
  <2>1. CASE source' = WantConsumed(source)
    BY <1>t, <2>1 DEF WantConsumed, Offered
  <2>2. CASE source' = [source EXCEPT !.want = reader.range]
    BY <1>t, <2>2 DEF Offered
  <2> QED
    BY <1>1, <1>7, <2>1, <2>2 DEF ReadLooks
<1>8. CASE ReadTakesPart \/ ReadGivesUp
  BY <1>8, <1>t DEF ReadTakesPart, ReadGivesUp, Offered
<1>9. CASE ReadReceives
  <2>1. reader.conn \in InHand
    BY <1>9 DEF ReadReceives, InHand, IInv, Whereabouts
  <2>2. [offset |-> net[reader.conn].req.offset, bytes |-> Body(reader.conn)]
          \in [offset : 0 .. FileSize, bytes : Seq(Bytes)]
    BY <2>1, BodyTypes
  <2>3. \/ UNCHANGED source
        \/ source' = [source EXCEPT !.slot = [offset |-> net[reader.conn].req.offset,
                                              bytes |-> Body(reader.conn)]]
    BY <1>9 DEF ReadReceives
  <2> QED
    BY <1>t, <2>2, <2>3 DEF Offered
<1> QED
  BY <1>1, <1>2, <1>3, <1>4, <1>5, <1>6, <1>7, <1>8, <1>9
     DEF Next, Browser, Server, Source, PagePosts, StrayPosts, Visits, Sends, Hears, PageAborts, PeerGoes,
         PageAsks, Accepts, Reads, Drains, Answers, Drops, ReadServes, ReadWaits

(* and the reader's.                                                         *)
LEMMA ReaderTypes == IInv /\ Next => reader' \in Reading
<1> SUFFICES ASSUME IInv, Next PROVE reader' \in Reading
  OBVIOUS
<1>t. /\ source \in Offered /\ reader \in Reading /\ source.part \in Conns \cup {NoConn}
      /\ reader.range \in Ranges \cup {NoRange}
      /\ NoBytes \in Seq(Bytes) /\ MaxReads \in Nat
  BY UploadAssumption, EmptySeq DEF IInv, TypeOK, Offered, Reading, NoBytes
<1>1. CASE UNCHANGED reader
  BY <1>1, <1>t
<1>2. ASSUME NEW result \in {"none", "read", "failed", "stopped"}, NEW bytes \in Seq(Bytes),
             Returns(result, bytes)
      PROVE  reader' \in Reading
  BY <1>2, <1>t DEF Returns, Reading
<1>3. CASE Begin
  <2>1. 0 \in 0 .. MaxReads
    BY <1>t
  <2> QED
    BY <1>3, <1>t, <2>1 DEF Begin, Reading
<1>4. CASE ReadBegins
  <2>1. PICK range \in Ranges :
          LET begun == [reader EXCEPT !.reads = @ + 1, !.range = range, !.fed = FALSE, !.bytes = NoBytes]
          IN  \/ reader' = [begun EXCEPT !.pc = "begins", !.result = "none"]
              \/ reader' = [begun EXCEPT !.result = "failed"]
    BY <1>4 DEF ReadBegins
  <2>2. reader.reads + 1 \in 0 .. MaxReads
    BY <1>4, <1>t DEF ReadBegins, Reading
  <2>3. [reader EXCEPT !.reads = @ + 1, !.range = range, !.fed = FALSE, !.bytes = NoBytes] \in Reading
    BY <1>t, <2>2 DEF Reading
  <2>4. ASSUME NEW b \in Reading
        PROVE  /\ [b EXCEPT !.pc = "begins", !.result = "none"] \in Reading
               /\ [b EXCEPT !.result = "failed"] \in Reading
    BY DEF Reading
  <2> QED
    BY <2>1, <2>3, <2>4
<1>5. CASE ReadServes \/ ReadGivesUp \/ ReadWaits
  BY <1>2, <1>5, <1>t DEF ReadServes, ReadGivesUp, ReadWaits, Reading
<1>6. CASE ReadLooks
  BY <1>2, <1>6, <1>t, CopiedIsTheFile DEF ReadLooks, Reading
<1>7. CASE ReadTakesPart
  <2>1. CASE reader' = [reader EXCEPT !.pc = "waits"]
    BY <1>t, <2>1 DEF Reading
  <2>2. CASE reader' = [reader EXCEPT !.pc = "receives", !.conn = source.part]
    BY <1>t, <2>2 DEF Reading
  <2> QED
    BY <1>7, <2>1, <2>2 DEF ReadTakesPart
<1>8. CASE ReadReceives
  <2> DEFINE fed == reader.fed \/ net[reader.conn].req.offset = reader.range.offset
  <2>1. CASE reader' = [reader EXCEPT !.pc = "looks", !.conn = NoConn, !.fed = fed]
    <3>1. fed \in BOOLEAN
      OBVIOUS
    <3> HIDE DEF fed
    <3> QED
      BY <1>t, <2>1, <3>1 DEF Reading
  <2>2. CASE reader' = [reader EXCEPT !.pc = "waits", !.conn = NoConn]
    BY <1>t, <2>2 DEF Reading
  <2> QED
    BY <1>8, <1>t, <2>1, <2>2 DEF ReadReceives, Reading
<1> QED
  BY <1>1, <1>3, <1>4, <1>5, <1>6, <1>7, <1>8
     DEF Next, Browser, Server, Source, PagePosts, StrayPosts, Visits, Sends, Hears, PageAborts, PeerGoes,
         PageAsks, Accepts, Reads, Drains, Answers, Drops, Takes, StartsTransfer, Close, Abort

-----------------------------------------------------------------------------

(* The invariant holds at first,                                             *)
LEMMA InitIInv == Init => IInv
<1> SUFFICES ASSUME Init PROVE IInv
  OBVIOUS
<1>1. /\ net = [c \in Conns |-> Unused] /\ conns = [c \in Conns |-> Free] /\ Free.phase = "free"
      /\ handoff = NoConn /\ source.part = NoConn /\ reader.conn = NoConn /\ reader.pc = "idle"
      /\ ~source.open /\ source.slot = NoSlot /\ source.slot.bytes = <<>>
      /\ reader.result = "none" /\ Held = {} /\ InHand = {}
  BY DEF Init, NoSlot, Held, InHand, Free
<1>2. 0 \in 0 .. PartMax /\ 0 \in 0 .. MaxTasks /\ 0 \in 0 .. FileSize /\ 0 \in 0 .. MaxReads /\ 0 \in 0 .. MaxFaults
  BY UploadAssumption
<1>3. TypeOK
  <2>1. TableFits
    BY <1>1, FS_EmptySet, UploadAssumption DEF TableFits
  <2>2. net \in [Conns -> Connection] /\ conns \in [Conns -> Place]
    BY <1>1, AnUnusedOne DEF Free, Place
  <2>3. source \in Offered
    <3>1. NoSlot \in [offset : 0 .. FileSize, bytes : Seq(Bytes)]
      BY <1>2, EmptySeq DEF NoSlot
    <3> QED
      BY <3>1 DEF Init, Offered
  <2>4. reader \in Reading
    BY <1>2, EmptySeq DEF Init, Reading, NoBytes
  <2> QED
    BY <1>2, <2>1, <2>2, <2>3, <2>4 DEF Init, TypeOK
<1>4. ClosedIsQuiet /\ Whereabouts /\ OfThisUpload /\ SlotIsTheFile /\ ReadsTheFile
  BY <1>1, AnUnusedOne DEF ClosedIsQuiet, Whereabouts, OfThisUpload, SlotIsTheFile, ReadsTheFile
<1>5. AnsweredAfterTheBody /\ RefusalIsHeard
  BY <1>1 DEF AnsweredAfterTheBody, RefusalIsHeard, Unused, NoRequest
<1> QED
  BY <1>3, <1>4, <1>5 DEF IInv

(* and every step keeps it.                                                  *)
LEMMA NextIInv == IInv /\ [Next]_vars => IInv'
<1> SUFFICES ASSUME IInv, [Next]_vars PROVE IInv'
  OBVIOUS
<1>1. CASE Next
  <2>1. TypeOK'
    BY <1>1, NetNext, ServerTypes, SourceTypes, ReaderTypes, PageTypes, TableNext DEF TypeOK
  <2> QED
    BY <1>1, <2>1, QuietNext, WhereaboutsNext, UploadNext, SlotNext, ReadNext, AnswersNext DEF IInv
<1>2. CASE UNCHANGED vars
  BY <1>2 DEF vars, IInv, TypeOK, TableFits, ClosedIsQuiet, Whereabouts, OfThisUpload, SlotIsTheFile,
              ReadsTheFile, AnsweredAfterTheBody, RefusalIsHeard, Held, InHand
<1> QED
  BY <1>1, <1>2

(* The inductive invariant of the upload holds in every state.               *)
THEOREM UploadInvariant == Spec => []IInv
BY InitIInv, NextIInv, PTL DEF Spec

(* The variables hold what they are declared to hold, and the server's table   *)
(* never holds more connections than it has places (HttpServer::Poll).        *)
THEOREM UploadIsTyped == Spec => []TypeOK
<1>1. IInv => TypeOK
  BY DEF IInv
<1> QED
  BY <1>1, UploadInvariant, PTL

(* Whatever other tabs post, late, twice, short or for an earlier upload, and  *)
(* whatever breaks off: HttpUploadSource::Read returns this upload's bytes at  *)
(* the place that was asked for.                                              *)
THEOREM AReadIsTheFile == Spec => []ReadsTheFile
<1>1. IInv => ReadsTheFile
  BY DEF IInv
<1> QED
  BY <1>1, UploadInvariant, PTL

(* A refused part's sender is told so after its whole body was read, so the    *)
(* answer is not lost to a reset (HttpServer::DrainBody).                     *)
THEOREM ARefusalIsHeard == Spec => []RefusalIsHeard
<1>1. IInv => RefusalIsHeard
  BY DEF IInv
<1> QED
  BY <1>1, UploadInvariant, PTL

(* A connection the server took and nobody answered or closed is in exactly    *)
(* one place: its table, the hand-off, the source or the reader.              *)
THEOREM NoConnectionGoesAstray == Spec => []NoConnectionIsLost
<1>1. ASSUME IInv, NEW c \in Conns
      PROVE  Cardinality(Holders(c)) = IF net[c].state = "served" THEN 1 ELSE 0
  <2>0. c # NoConn
    BY UploadAssumption
  <2>1. /\ "server" \in Holders(c) <=> c \in Held
        /\ "handoff" \in Holders(c) <=> c = handoff
        /\ "source" \in Holders(c) <=> c = source.part
        /\ "reader" \in Holders(c) <=> c = reader.conn
        /\ Holders(c) \subseteq {"server", "handoff", "source", "reader"}
    BY DEF Holders
  <2>2. CASE net[c].state # "served"
    <3>1. c \notin Held /\ c \notin InHand
      BY <1>1, <2>2 DEF IInv, Whereabouts
    <3>2. Holders(c) = {}
      BY <2>0, <2>1, <3>1 DEF InHand
    <3> QED
      BY <2>2, <3>2, FS_EmptySet
  <2>3. CASE net[c].state = "served"
    <3>1. c \in Held \/ c = handoff \/ c = source.part \/ c = reader.conn
      BY <1>1, <2>3 DEF IInv, Whereabouts, InHand
    <3>2. /\ c \in Held => c # handoff /\ c # source.part /\ c # reader.conn
          /\ c = handoff => c # source.part /\ c # reader.conn
          /\ c = source.part => c # reader.conn
      BY <1>1, <2>0 DEF IInv, Whereabouts, InHand
    <3>3. PICK h : Holders(c) = {h}
      BY <2>1, <3>1, <3>2
    <3> QED
      BY <2>3, <3>3, FS_Singleton
  <2> QED
    BY <2>2, <2>3
<1>2. IInv => NoConnectionIsLost
  BY <1>1 DEF NoConnectionIsLost
<1> QED
  BY <1>2, UploadInvariant, PTL
=============================================================================
