------------------------- MODULE InstallRun_proofs -------------------------
(***************************************************************************)
(* Proofs about the owners of an install run, for any packages, sources,   *)
(* pages and number of runs.                                               *)
(***************************************************************************)
EXTENDS InstallRun, SequenceTheorems, TLAPS

(* What the members hold.  Runs and placeholders are numbers without a bound. *)
AnyPackage == Packages \cup {None}
AnyKind == {"file", "url", "upload", None}
Object == [id : Nat, pkg : AnyPackage, kind : AnyKind,
           stage : {"none", "opening", "confirm", "transfer", "failed", "done", "skipped"},
           kept : BOOLEAN, ph : Nat, adopted : Nat]
Thread == [id : Nat, kind : AnyKind, doing : {"gone", "reading", "waiting", "done"}]
Task == [pkg : AnyPackage, kind : AnyKind, ph : Nat, stuck : BOOLEAN]
Flags == [start : Nat, back : BOOLEAN, target : BOOLEAN, upload : AnyPackage, url : AnyPackage]
(* Where an address that is looked up may send the UI thread back to.          *)
Rets == {"keys", "sync", "step", "upload", "url"}
App == [page : SUBSET {"start", "back", "target", "upload", "url"},
        screen : Screens, origin : Screens, drives : BOOLEAN, listening : BOOLEAN,
        runId : Nat, run : Object, reader : Thread,
        src : [file : Nat, url : Nat, upload : Nat],
        flags : Flags,
        picked : AnyPackage, address : AnyPackage,
        ret : Rets,
        have : BOOLEAN, pending : Task, resume : BOOLEAN, removes : BOOLEAN,
        taskFile : Task,
        contents : SUBSET Nat, reads : SUBSET Nat]

(* The placeholder a task file names is there, but for a file that had to stay. *)
Backed(w) == w.taskFile # NoTask /\ ~w.taskFile.stuck => w.taskFile.ph \in w.contents

(* A run that keeps its task has it, with its placeholder; and it is not left in *)
(* hand on a screen where the task may be given up.                          *)
Kept(w) ==
  w.run.kept =>
    /\ w.taskFile = [pkg |-> w.run.pkg, kind |-> w.run.kind, ph |-> w.run.ph, stuck |-> FALSE]
    /\ w.run.ph \in w.contents
    /\ w.screen \notin {"Home", "Pending"}

(* The run in hand is the last one that was opened, its source is there (the   *)
(* browser's own sources apart), and the thread that reads is its own.         *)
Fed(w) ==
  /\ w.run.id \in {NoRun, w.runId}
  /\ HasRun(w) => w.run.kind # None
  /\ HasRun(w) /\ w.run.kind = "file" /\ "url" \notin w.page => w.src.file = w.run.id
  /\ HasRun(w) /\ w.run.kind = "url" /\ "url" \notin w.page => w.src.url = w.run.id
  /\ w.reader.doing # "gone" =>
       HasRun(w) /\ w.reader.id = w.run.id /\ w.reader.kind = w.run.kind

Good(w) == w \in App /\ Backed(w) /\ Kept(w) /\ Fed(w)

(* A package that came from a file or an address is in hand.                 *)
FromSource(w) == HasRun(w) /\ w.run.kind \in {"file", "url"} /\ "url" \notin w.page
UnderWay == {"Confirm", "Progress", "Result"}

(* A source is only left where its run is gone, and one that is probed, picked or *)
(* prepared is that of the run to come.                                      *)
Between == {"probing", "picking"}
USE DEF Between

SourceIsKept ==
  /\ FromSource(app) => app.screen \in UnderWay
  /\ at \in Between => ~FromSource(app)
  /\ at = "probing" => app.src.url = app.runId + 1
  /\ at = "preparing" => HasRun(app) /\ app.run.kind = "upload" /\ ~app.run.kept

(* The page opens packages only when it is one that does.                    *)
Opening(place) == (place = "url" => "url" \in app.page)
                    /\ (place \in {"upload", "preparing"} => "upload" \in app.page)
Posted ==
  /\ app.flags.url # None => "url" \in app.page
  /\ app.flags.upload # None => "upload" \in app.page
  /\ Opening(at)
  /\ at \in Between => Opening(app.ret)

(* Transfers return to somebody: to the loop of another only when there is one. *)
Calls == Seq([run : Nat, caller : {"keys", "sync", "step"}])
Stacked ==
  /\ frames \in Calls
  /\ at = "step" => frames # <<>>
  /\ at \in Between /\ app.ret = "step" => frames # <<>>
  /\ \A i \in 1 .. Len(frames) : frames[i].caller = "step" => i > 1

(* With a page that opens nothing: where the UI thread may be while a transfer *)
(* is on its stack, and what is left of a request to start.                   *)
OneTransfer ==
  /\ at = "start" => app.flags.start # NoRun
  /\ OpensNothing =>
       /\ app.flags.start # NoRun =>
            /\ at \in {"serve", "start"} /\ app.flags.start = app.run.id
            /\ at = "serve" => app.listening
       /\ at \in Between => app.ret \in {"keys", "sync"}
       /\ frames # <<>> =>
            /\ Len(frames) = 1 /\ frames[1].run = app.run.id
            /\ app.screen = "Progress" /\ app.run.stage = "transfer"
            /\ at \in {"step", "serve", "start", "back", "target"}

Places == {"serve", "start", "back", "target", "upload", "preparing", "url", "probing",
           "picking", "keys", "sync", "step", "crashed"}

IInv ==
  Good(app) /\ SourceIsKept /\ Posted /\ Stacked /\ OneTransfer /\ at \in Places

-----------------------------------------------------------------------------
(* The methods, one lemma each: what they leave of the invariant, and whether a *)
(* run is left in hand.                                                      *)

(* No method posts a request, or is another page.                             *)
Keeps(w, v) ==
  /\ v.page = w.page /\ v.flags.start \in {NoRun, w.flags.start}
  /\ v.flags.upload \in {None, w.flags.upload} /\ v.flags.url \in {None, w.flags.url}

(* What a method makes of good members is good.                              *)
Settles(w, v) == v \in App /\ Keeps(w, v) /\ (Good(w) => Good(v))

(* The run in hand and the sources stay.                                     *)
SameRun(w, v) == v.run = w.run /\ v.src = w.src /\ v.runId = w.runId

LEMMA SettlesTwice ==
  ASSUME NEW u, NEW v, NEW w, Settles(u, v), Settles(v, w)
  PROVE  Settles(u, w)
BY DEF Settles, Keeps

LEMMA RunDestroyed ==
  ASSUME NEW w \in App
  PROVE  LET v == DestroyRun(w)
         IN  /\ Settles(w, v) /\ ~HasRun(v) /\ v.reader = NoReader /\ v.src = w.src
             /\ v.runId = w.runId /\ v.screen = w.screen /\ v.address = w.address
             /\ ~v.run.kept
<1>1. DestroyRun(w) \in App
  BY DEF DestroyRun, App, Object, Thread, NoObject, NoReader, NoRun, None, AnyKind, AnyPackage
<1>2. /\ DestroyRun(w).run = NoObject /\ DestroyRun(w).reader = NoReader
      /\ Keeps(w, DestroyRun(w)) /\ DestroyRun(w).src = w.src /\ DestroyRun(w).runId = w.runId
      /\ DestroyRun(w).taskFile = w.taskFile /\ DestroyRun(w).contents = w.contents
      /\ DestroyRun(w).screen = w.screen /\ DestroyRun(w).address = w.address
  BY DEF DestroyRun, App, Keeps
<1>3. NoObject.id = NoRun /\ ~NoObject.kept /\ NoReader.doing = "gone"
  BY DEF NoObject, NoReader
<1> QED
  BY <1>1, <1>2, <1>3 DEF Settles, Good, Backed, Kept, Fed, HasRun

LEMMA CleanedUp ==
  ASSUME NEW w \in App
  PROVE  LET v == CleanupAfterFailure(w)
         IN  Settles(w, v) /\ SameRun(w, v) /\ v.screen = w.screen /\ v.address = w.address
<1>1. CleanupAfterFailure(w) \in App
  BY DEF CleanupAfterFailure, App, Object
<1>3. LET v == CleanupAfterFailure(w)
      IN  /\ v.page = w.page /\ v.flags = w.flags /\ v.run = w.run /\ v.reader = w.reader
          /\ v.src = w.src /\ v.runId = w.runId
          /\ v.taskFile = w.taskFile /\ v.contents = w.contents
          /\ v.screen = w.screen /\ v.address = w.address
  BY DEF CleanupAfterFailure, App
<1> QED
  BY <1>1, <1>3 DEF SameRun, Settles, Keeps, Good, Backed, Kept, Fed, HasRun

(* A task file that is removed is gone, or it is stuck.                        *)
LEMMA TaskRemoved ==
  ASSUME NEW w \in App
  PROVE  LET v == RemoveTask(w)
         IN  /\ v \in App /\ (v.taskFile = NoTask \/ v.taskFile.stuck)
             /\ v.page = w.page /\ v.flags = w.flags /\ v.reader = w.reader /\ v.run = w.run
             /\ v.src = w.src /\ v.runId = w.runId /\ v.contents = w.contents
             /\ v.screen = w.screen /\ v.address = w.address /\ v.reads = w.reads
<1> DEFINE t == [w.taskFile EXCEPT !.stuck = TRUE]
<1>1. NoTask \in Task
  BY DEF Task, NoTask, NoRun, None, AnyKind, AnyPackage
<1>2. t \in Task /\ t.stuck
  BY DEF App, Task
<1>3. \/ RemoveTask(w) = [w EXCEPT !.taskFile = NoTask]
      \/ RemoveTask(w) = [w EXCEPT !.taskFile = t]
  BY DEF RemoveTask, App
<1> HIDE DEF t
<1>4. CASE RemoveTask(w) = [w EXCEPT !.taskFile = NoTask]
  BY <1>1, <1>4 DEF App
<1>5. CASE RemoveTask(w) = [w EXCEPT !.taskFile = t]
  BY <1>2, <1>5 DEF App
<1> QED
  BY <1>3, <1>4, <1>5

LEMMA Abandoned ==
  ASSUME NEW w \in App
  PROVE  LET v == Abandon(w)
         IN  /\ Settles(w, v) /\ v.run.id = w.run.id /\ v.src = w.src /\ v.runId = w.runId
             /\ (v.taskFile = NoTask \/ v.taskFile.stuck) /\ ~v.run.kept
             /\ v.screen = w.screen /\ v.address = w.address /\ v.run.kind = w.run.kind
<1> DEFINE o == [w.run EXCEPT !.kept = FALSE]
           c == w.contents \ {w.run.ph}
           r == w.reads \ {w.run.id}
           u == [w EXCEPT !.contents = c, !.reads = r, !.run = o]
<1>1. o \in Object /\ o.id = w.run.id /\ o.kind = w.run.kind /\ ~o.kept
  BY DEF App, Object
<1>2. c \in SUBSET Nat /\ r \in SUBSET Nat
  BY DEF App
<1>3. Abandon(w) = RemoveTask(u)
  BY DEF Abandon, App
<1> HIDE DEF o, c, r
<1>4. u \in App
  BY <1>1, <1>2 DEF App
<1>5. /\ u.page = w.page /\ u.flags = w.flags /\ u.reader = w.reader /\ u.screen = w.screen
      /\ u.address = w.address /\ u.src = w.src /\ u.runId = w.runId /\ u.run = o
  BY DEF App
<1> HIDE DEF u
<1> DEFINE v == RemoveTask(u)
<1>6. /\ v \in App /\ (v.taskFile = NoTask \/ v.taskFile.stuck)
      /\ v.page = w.page /\ v.flags = w.flags /\ v.reader = w.reader /\ v.screen = w.screen
      /\ v.address = w.address /\ v.src = w.src /\ v.runId = w.runId /\ v.run = o
  BY <1>4, <1>5, TaskRemoved
<1> HIDE DEF v
<1>7. Settles(w, v)
  BY <1>1, <1>6 DEF Settles, Keeps, Good, Backed, Kept, Fed, HasRun
<1> QED
  BY <1>1, <1>3, <1>6, <1>7 DEF v

(* The screen is nobody's business but the keys'.                            *)
LEMMA ScreenSet ==
  ASSUME NEW w \in App, NEW s \in Screens, s \in {"Home", "Pending"} => ~w.run.kept
  PROVE  LET v == [w EXCEPT !.screen = s]
         IN  /\ Settles(w, v) /\ SameRun(w, v) /\ v.screen = s
             /\ \A f \in DOMAIN w : f # "screen" => v[f] = w[f]
<1> DEFINE v == [w EXCEPT !.screen = s]
<1>1. v \in App
  BY DEF App
<1>2. /\ v.page = w.page /\ v.flags = w.flags /\ v.reader = w.reader /\ v.run = w.run
      /\ v.src = w.src /\ v.runId = w.runId /\ v.taskFile = w.taskFile
      /\ v.contents = w.contents /\ v.screen = s
  BY DEF App
<1> QED
  BY <1>1, <1>2 DEF Settles, SameRun, Keeps, Good, Backed, Kept, Fed, HasRun

(* With no run in hand any sources will do.                                   *)
LEMMA SourcesGone ==
  ASSUME NEW w \in App, ~HasRun(w)
  PROVE  LET v == [w EXCEPT !.src = NoSources]
         IN  /\ Settles(w, v) /\ ~HasRun(v) /\ v.src = NoSources /\ v.runId = w.runId
             /\ v.screen = w.screen /\ v.address = w.address /\ v.run = w.run
<1> DEFINE v == [w EXCEPT !.src = NoSources]
<1>1. v \in App
  BY DEF App, NoSources, NoRun
<1>2. /\ v.page = w.page /\ v.flags = w.flags /\ v.reader = w.reader /\ v.run = w.run
      /\ v.src = NoSources /\ v.runId = w.runId /\ v.taskFile = w.taskFile
      /\ v.contents = w.contents /\ v.screen = w.screen /\ v.address = w.address
  BY DEF App
<1> QED
  BY <1>1, <1>2 DEF Settles, SameRun, Keeps, Good, Backed, Kept, Fed, HasRun

LEMMA InstallScreenLeft ==
  ASSUME NEW w \in App
  PROVE  LET v == LeaveInstallScreen(w)
         IN  /\ Settles(w, v) /\ ~HasRun(v) /\ v.src = NoSources /\ v.runId = w.runId
             /\ v.screen = w.screen /\ v.address = w.address /\ ~v.run.kept
<1>1. \E u \in App :
        /\ Settles(w, u) /\ u.runId = w.runId /\ u.screen = w.screen /\ u.address = w.address
        /\ LeaveInstallScreen(w) = [DestroyRun(u) EXCEPT !.src = NoSources]
  <2>1. Settles(w, w)
    BY DEF Settles, Keeps
  <2> QED
    BY <2>1, CleanedUp, Abandoned DEF LeaveInstallScreen, Settles, SameRun
<1>2. PICK u \in App :
        /\ Settles(w, u) /\ u.runId = w.runId /\ u.screen = w.screen /\ u.address = w.address
        /\ LeaveInstallScreen(w) = [DestroyRun(u) EXCEPT !.src = NoSources]
  BY <1>1
<1>3. /\ Settles(u, DestroyRun(u)) /\ ~HasRun(DestroyRun(u)) /\ DestroyRun(u) \in App
      /\ DestroyRun(u).runId = u.runId /\ DestroyRun(u).screen = u.screen
      /\ DestroyRun(u).address = u.address /\ ~DestroyRun(u).run.kept
  BY RunDestroyed DEF Settles
<1> QED
  BY <1>2, <1>3, SourcesGone, SettlesTwice

LEMMA ServerStopped ==
  ASSUME NEW w \in App
  PROVE  LET v == StopInstallerServer(w)
         IN  Settles(w, v) /\ SameRun(w, v) /\ v.screen = w.screen
<1> DEFINE v == StopInstallerServer(w)
<1>1. v \in App
  <2>1. [w.flags EXCEPT !.url = None] \in Flags /\ w.flags \in Flags
    BY DEF App, Flags, AnyPackage
  <2> QED
    BY <2>1 DEF StopInstallerServer, App
<1>2. /\ v.page = w.page /\ v.flags.start = w.flags.start /\ v.flags.upload = w.flags.upload
      /\ v.flags.url \in {None, w.flags.url}
      /\ v.reader = w.reader /\ v.run = w.run
      /\ v.src = w.src /\ v.runId = w.runId /\ v.taskFile = w.taskFile
      /\ v.contents = w.contents /\ v.screen = w.screen
  BY DEF StopInstallerServer, App
<1> QED
  BY <1>1, <1>2 DEF Settles, SameRun, Keeps, Good, Backed, Kept, Fed, HasRun

LEMMA DrivesSet ==
  ASSUME NEW w \in App, NEW b \in BOOLEAN
  PROVE  LET v == [w EXCEPT !.drives = b]
         IN  Settles(w, v) /\ SameRun(w, v) /\ v.screen = w.screen
<1> DEFINE v == [w EXCEPT !.drives = b]
<1>1. v \in App
  BY DEF App
<1>2. /\ v.page = w.page /\ v.flags = w.flags /\ v.reader = w.reader /\ v.run = w.run
      /\ v.src = w.src /\ v.runId = w.runId /\ v.taskFile = w.taskFile
      /\ v.contents = w.contents /\ v.screen = w.screen
  BY DEF App
<1> QED
  BY <1>1, <1>2 DEF Settles, SameRun, Keeps, Good, Backed, Kept, Fed, HasRun

LEMMA GameInstallLeft ==
  ASSUME NEW w \in App
  PROVE  Settles(w, LeaveGameInstall(w)) /\ ~HasRun(LeaveGameInstall(w))
<1> DEFINE s == StopInstallerServer(w)
           d == [s EXCEPT !.drives = FALSE]
           l == LeaveInstallScreen(d)
<1>1. s \in App /\ Settles(w, s)
  BY ServerStopped DEF Settles
<1>2. d \in App /\ Settles(s, d)
  BY <1>1, DrivesSet DEF Settles
<1>3. l \in App /\ Settles(d, l) /\ ~HasRun(l) /\ ~l.run.kept
  BY <1>2, InstallScreenLeft DEF Settles
<1>4. /\ Settles(l, [l EXCEPT !.screen = "Home"]) /\ ~HasRun([l EXCEPT !.screen = "Home"])
  BY <1>3, ScreenSet, "Home" \in Screens DEF SameRun, HasRun, Screens
<1>5. LeaveGameInstall(w) = [l EXCEPT !.screen = "Home"]
  BY DEF LeaveGameInstall
<1> HIDE DEF s, d, l
<1> QED
  BY <1>1, <1>2, <1>3, <1>4, <1>5, SettlesTwice

LEMMA UploadSourceReleased ==
  ASSUME NEW w \in App
  PROVE  LET v == ReleaseUploadSource(w)
         IN  Settles(w, v) /\ v.run = w.run /\ v.runId = w.runId /\ v.screen = w.screen
<1> DEFINE v == ReleaseUploadSource(w)
<1>1. v \in App
  <2>1. [w.flags EXCEPT !.upload = None] \in Flags /\ w.flags \in Flags
    BY DEF App, Flags, AnyPackage
  <2>2. [w.src EXCEPT !.upload = NoRun] \in [file : Nat, url : Nat, upload : Nat]
    BY DEF App, NoRun
  <2> QED
    BY <2>1, <2>2 DEF ReleaseUploadSource, App
<1>2. /\ v.page = w.page /\ v.flags.start = w.flags.start /\ v.flags.url = w.flags.url
      /\ v.flags.upload \in {None, w.flags.upload}
      /\ v.reader = w.reader /\ v.run = w.run
      /\ v.src.file = w.src.file /\ v.src.url = w.src.url
      /\ v.runId = w.runId /\ v.taskFile = w.taskFile
      /\ v.contents = w.contents /\ v.screen = w.screen
  BY DEF ReleaseUploadSource, App, Flags
<1> QED
  BY <1>1, <1>2 DEF Settles, Keeps, Good, Backed, Kept, Fed, HasRun

LEMMA TaskRefreshed ==
  ASSUME NEW w \in App
  PROVE  LET v == RefreshPendingTask(w)
         IN  Settles(w, v) /\ SameRun(w, v) /\ v.screen = w.screen
<1> DEFINE v == RefreshPendingTask(w)
<1>1. v \in App
  BY DEF RefreshPendingTask, App
<1>2. /\ v.page = w.page /\ v.flags = w.flags /\ v.reader = w.reader /\ v.run = w.run
      /\ v.src = w.src /\ v.runId = w.runId /\ v.taskFile = w.taskFile
      /\ v.contents = w.contents /\ v.screen = w.screen
  BY DEF RefreshPendingTask, App
<1> QED
  BY <1>1, <1>2 DEF Settles, SameRun, Keeps, Good, Backed, Kept, Fed, HasRun

(* Giving up the task file's placeholder gives up the task file.              *)
LEMMA PendingAbandoned ==
  ASSUME NEW w \in App, NEW dropped \in BOOLEAN, ~w.run.kept
  PROVE  LET v == AbandonPendingInstall(w, dropped)
         IN  Settles(w, v) /\ SameRun(w, v)
<1>0. "Choose" \in Screens /\ "Pending" \in Screens
  BY DEF Screens
<1>1. CASE ~w.have
  BY <1>0, <1>1, ScreenSet DEF AbandonPendingInstall
<1>2. CASE w.have
  <2> DEFINE u == [w EXCEPT !.contents = @ \ {w.pending.ph}]
             given == IF dropped THEN RemoveTask(u) ELSE w
             fresh == RefreshPendingTask(given)
             s == IF fresh.have THEN "Pending" ELSE "Choose"
  <2>1. /\ u \in App /\ u.page = w.page /\ u.flags = w.flags /\ u.reader = w.reader
        /\ u.run = w.run /\ u.src = w.src /\ u.runId = w.runId
    BY DEF App
  <2>2. given \in App /\ Settles(w, given) /\ SameRun(w, given)
    <3>1. CASE ~dropped
      BY <3>1 DEF Settles, SameRun, Keeps
    <3>2. CASE dropped
      <4> DEFINE g == RemoveTask(u)
      <4> HIDE DEF u
      <4>1. /\ g \in App /\ (g.taskFile = NoTask \/ g.taskFile.stuck)
            /\ g.page = w.page /\ g.flags = w.flags /\ g.reader = w.reader
            /\ g.run = w.run /\ g.src = w.src /\ g.runId = w.runId
        BY <2>1, TaskRemoved
      <4>2. given = g
        BY <3>2
      <4> HIDE DEF g, given
      <4> QED
        BY <4>1, <4>2 DEF Settles, SameRun, Keeps, Good, Backed, Kept, Fed, HasRun
    <3> QED
      BY <3>1, <3>2
  <2>3. AbandonPendingInstall(w, dropped) = [fresh EXCEPT !.screen = s]
    BY <1>2 DEF AbandonPendingInstall
  <2> HIDE DEF u, given
  <2>4. fresh \in App /\ Settles(given, fresh) /\ SameRun(given, fresh)
    BY <2>2, TaskRefreshed DEF Settles
  <2> HIDE DEF fresh
  <2>5. s \in Screens
    BY <1>0
  <2> HIDE DEF s
  <2>k. ~fresh.run.kept
    BY <2>2, <2>4 DEF SameRun
  <2>6. Settles(fresh, [fresh EXCEPT !.screen = s]) /\ SameRun(fresh, [fresh EXCEPT !.screen = s])
    BY <2>4, <2>5, <2>k, ScreenSet
  <2> QED
    BY <2>2, <2>3, <2>4, <2>6, SettlesTwice DEF SameRun
<1> QED
  BY <1>1, <1>2

(* A resume may be armed or not.                                             *)
LEMMA ResumeSet ==
  ASSUME NEW w \in App, NEW b \in BOOLEAN
  PROVE  LET v == [w EXCEPT !.resume = b]
         IN  Settles(w, v) /\ SameRun(w, v) /\ v.screen = w.screen
<1> DEFINE v == [w EXCEPT !.resume = b]
<1>1. v \in App
  BY DEF App
<1>2. /\ v.page = w.page /\ v.flags = w.flags /\ v.reader = w.reader /\ v.run = w.run
      /\ v.src = w.src /\ v.runId = w.runId /\ v.taskFile = w.taskFile
      /\ v.contents = w.contents /\ v.screen = w.screen
  BY DEF App
<1> QED
  BY <1>1, <1>2 DEF Settles, SameRun, Keeps, Good, Backed, Kept, Fed, HasRun

(* A new run: its number, its kind, its source.                              *)
LEMMA OpenBegun ==
  ASSUME NEW w \in App, NEW kind \in {"file", "url", "upload"}, NEW pkg \in AnyPackage,
         kind = "file" => w.src.file = w.runId + 1,
         kind = "url" => w.src.url = w.runId + 1
  PROVE  LET v == BeginOpen(w, kind, pkg)
         IN  /\ Settles(w, v) /\ HasRun(v) /\ v.run.kind = kind /\ v.run.id = v.runId
             /\ v.screen = w.screen /\ v.src = w.src /\ ~v.run.kept
<1> DEFINE v == BeginOpen(w, kind, pkg)
           d == DestroyRun(w)
           r == [NoObject EXCEPT !.id = w.runId + 1, !.pkg = pkg, !.kind = kind, !.stage = "opening"]
<1>1. /\ d \in App /\ Settles(w, d) /\ ~HasRun(d) /\ d.reader = NoReader /\ d.src = w.src
      /\ d.runId = w.runId /\ d.screen = w.screen
  BY RunDestroyed DEF Settles
<1>2. w.runId \in Nat
  BY DEF App
<1>3. r \in Object /\ r.id = w.runId + 1 /\ r.kind = kind /\ ~r.kept
  <2>1. NoObject \in Object /\ ~NoObject.kept
    BY DEF Object, NoObject, NoRun, None, AnyKind, AnyPackage
  <2>2. kind \in AnyKind
    BY DEF AnyKind
  <2> DEFINE n == w.runId + 1
  <2>3. n \in Nat
    BY <1>2
  <2> HIDE DEF n
  <2>4. [NoObject EXCEPT !.id = n, !.pkg = pkg, !.kind = kind, !.stage = "opening"] \in Object
    BY <2>1, <2>2, <2>3 DEF Object
  <2>5. LET o == [NoObject EXCEPT !.id = n, !.pkg = pkg, !.kind = kind, !.stage = "opening"]
        IN  o.id = n /\ o.kind = kind /\ ~o.kept
    BY <2>1 DEF Object
  <2> QED
    BY <2>4, <2>5 DEF n
<1>4. v = [d EXCEPT !.runId = @ + 1, !.run = r]
  BY DEF BeginOpen
<1>n. d.runId + 1 = w.runId + 1 /\ w.runId + 1 \in Nat
  BY <1>1, <1>2
<1> HIDE DEF v, d, r
<1>5. v \in App
  BY <1>1, <1>3, <1>4, <1>n DEF App
<1>6. /\ v.page = d.page /\ v.flags = d.flags /\ v.reader = d.reader
      /\ v.src = d.src /\ v.run = r /\ v.runId = w.runId + 1
      /\ v.taskFile = d.taskFile /\ v.contents = d.contents /\ v.screen = d.screen
  BY <1>1, <1>4 DEF App
<1>7. HasRun(v)
  BY <1>2, <1>3, <1>6 DEF HasRun, NoRun
<1>8. Good(d) => Good(v)
  <2>1. v.reader.doing = "gone"
    BY <1>1, <1>6 DEF NoReader
  <2> QED
    BY <1>1, <1>2, <1>3, <1>5, <1>6, <1>7, <2>1 DEF Good, Backed, Kept, Fed, HasRun, None
<1> QED
  BY <1>1, <1>3, <1>5, <1>6, <1>7, <1>8 DEF Settles, Keeps, v

(* A run from an address stays on the screens that show it.                   *)
Shown(w) == FromSource(w) => w.screen \in UnderWay

LEMMA OpenFailed ==
  ASSUME NEW w \in App, NEW outcome
  PROVE  Settles(w, OpenFails(w, outcome)) /\ ~HasRun(OpenFails(w, outcome))
<1> DEFINE d == DestroyRun(w)
           u == [d EXCEPT !.src.upload = NoRun]
           s == IF outcome = "running" THEN w.origin ELSE "Result"
<1>1. d \in App /\ Settles(w, d) /\ ~HasRun(d) /\ d.reader = NoReader /\ ~d.run.kept
  BY RunDestroyed DEF Settles
<1> HIDE DEF d
<1>2. u \in App
  BY <1>1 DEF App, NoRun
<1>3. Settles(d, u) /\ ~HasRun(u) /\ ~u.run.kept
  <2>1. /\ u.page = d.page /\ u.flags = d.flags /\ u.reader = d.reader /\ u.run = d.run
        /\ u.runId = d.runId /\ u.taskFile = d.taskFile /\ u.contents = d.contents
    BY <1>1 DEF App
  <2> QED
    BY <1>1, <1>2, <2>1 DEF Settles, Keeps, Good, Backed, Kept, Fed, HasRun
<1>4. s \in Screens
  BY DEF App, Screens
<1>5. OpenFails(w, outcome) = [u EXCEPT !.screen = s]
  BY DEF OpenFails, d
<1> HIDE DEF u, s
<1>6. Settles(u, [u EXCEPT !.screen = s]) /\ ~HasRun([u EXCEPT !.screen = s])
  BY <1>2, <1>3, <1>4, ScreenSet DEF SameRun, HasRun
<1> QED
  BY <1>1, <1>3, <1>5, <1>6, SettlesTwice

(* The placeholders that are read and the stage are no part of it.             *)
LEMMA StageSet ==
  ASSUME NEW w \in App, NEW stage \in {"confirm", "skipped"}
  PROVE  LET v == [w EXCEPT !.run.stage = stage, !.reads = @ \cup {w.run.id}]
         IN  Settles(w, v) /\ v.run.kept = w.run.kept
<1> DEFINE v == [w EXCEPT !.run.stage = stage, !.reads = @ \cup {w.run.id}]
<1>1. v \in App
  <2>1. [w.run EXCEPT !.stage = stage] \in Object /\ w.reads \cup {w.run.id} \in SUBSET Nat
    BY DEF App, Object
  <2> QED
    BY <2>1 DEF App
<1>2. /\ v.page = w.page /\ v.flags = w.flags /\ v.reader = w.reader
      /\ v.run.id = w.run.id /\ v.run.kind = w.run.kind /\ v.run.pkg = w.run.pkg
      /\ v.run.kept = w.run.kept /\ v.run.ph = w.run.ph
      /\ v.src = w.src /\ v.runId = w.runId /\ v.taskFile = w.taskFile
      /\ v.contents = w.contents /\ v.screen = w.screen
  BY DEF App, Object
<1> HIDE DEF v
<1>3. Settles(w, v)
  BY <1>1, <1>2 DEF Settles, Keeps, Good, Backed, Kept, Fed, HasRun
<1> QED
  BY <1>2, <1>3 DEF v

LEMMA ResumeAdopted ==
  ASSUME NEW w \in App
  PROVE  Settles(w, Adopt(w))
<1> DEFINE v == [w EXCEPT !.run.adopted = w.pending.ph]
<1>1. v \in App
  <2>1. [w.run EXCEPT !.adopted = w.pending.ph] \in Object
    BY DEF App, Object, Task
  <2> QED
    BY <2>1 DEF App
<1>2. /\ v.page = w.page /\ v.flags = w.flags /\ v.reader = w.reader
      /\ v.run.id = w.run.id /\ v.run.kind = w.run.kind /\ v.run.pkg = w.run.pkg
      /\ v.run.kept = w.run.kept /\ v.run.ph = w.run.ph
      /\ v.src = w.src /\ v.runId = w.runId /\ v.taskFile = w.taskFile
      /\ v.contents = w.contents /\ v.screen = w.screen
  BY DEF App, Object
<1>3. Adopt(w) = v \/ Adopt(w) = w
  BY DEF Adopt
<1> HIDE DEF v
<1>4. Settles(w, v) /\ Settles(w, w)
  BY <1>1, <1>2 DEF Settles, Keeps, Good, Backed, Kept, Fed, HasRun
<1> QED
  BY <1>3, <1>4

(* However an open ends, its run is on a screen that shows it, or gone.        *)
LEMMA OpenEnded ==
  ASSUME NEW w \in App, NEW outcome \in Outcomes, NEW dropped \in BOOLEAN, ~w.run.kept
  PROVE  Settles(w, EndOpen(w, outcome, dropped)) /\ Shown(EndOpen(w, outcome, dropped))
<1>0. "Confirm" \in Screens /\ "Result" \in Screens /\ "Confirm" \in UnderWay /\ "Result" \in UnderWay
  BY DEF Screens, UnderWay
<1>1. CASE outcome = "confirm"
  <2> DEFINE u == [w EXCEPT !.run.stage = "confirm", !.reads = @ \cup {w.run.id}]
             a == Adopt(u)
             r == [a EXCEPT !.resume = FALSE]
             v == [r EXCEPT !.screen = "Confirm"]
  <2>1. EndOpen(w, outcome, dropped) = v
    BY <1>1 DEF EndOpen, OpenSucceeds
  <2>2. u \in App /\ Settles(w, u)
    BY StageSet DEF Settles
  <2> HIDE DEF u
  <2>3. a \in App /\ Settles(u, a)
    BY <2>2, ResumeAdopted DEF Settles
  <2> HIDE DEF a
  <2>4. r \in App /\ Settles(a, r)
    BY <2>3, ResumeSet DEF Settles
  <2> HIDE DEF r
  <2>5. Settles(r, v) /\ v.screen = "Confirm"
    BY <1>0, <2>4, ScreenSet
  <2> HIDE DEF v
  <2> QED
    BY <1>0, <2>1, <2>2, <2>3, <2>4, <2>5, SettlesTwice DEF Shown
<1>2. CASE outcome = "skipped"
  <2> DEFINE u == [w EXCEPT !.run.stage = "skipped", !.reads = @ \cup {w.run.id}]
             m == IF w.resume THEN AbandonPendingInstall(u, dropped) ELSE u
             l == ReleaseUploadSource(m)
             r == [l EXCEPT !.resume = FALSE]
             v == [r EXCEPT !.screen = "Result"]
  <2>1. EndOpen(w, outcome, dropped) = v
    BY <1>2 DEF EndOpen, OpenSkips
  <2>2. u \in App /\ Settles(w, u) /\ ~u.run.kept
    BY StageSet DEF Settles
  <2> HIDE DEF u
  <2>3. m \in App /\ Settles(u, m)
    BY <2>2, PendingAbandoned DEF Settles, Keeps
  <2> HIDE DEF m
  <2>4. l \in App /\ Settles(m, l)
    BY <2>3, UploadSourceReleased DEF Settles
  <2> HIDE DEF l
  <2>5. r \in App /\ Settles(l, r)
    BY <2>4, ResumeSet DEF Settles
  <2> HIDE DEF r
  <2>6. Settles(r, v) /\ v.screen = "Result"
    BY <1>0, <2>5, ScreenSet
  <2> HIDE DEF v
  <2> QED
    BY <1>0, <2>1, <2>2, <2>3, <2>4, <2>5, <2>6, SettlesTwice DEF Shown
<1>3. CASE outcome \notin {"confirm", "skipped"}
  <2>1. EndOpen(w, outcome, dropped) = OpenFails(w, outcome)
    BY <1>3 DEF EndOpen
  <2> QED
    BY <2>1, OpenFailed DEF Shown, FromSource
<1> QED
  BY <1>1, <1>2, <1>3

(* With no run from a file or an address in hand, their sources may go.        *)
LEMMA SourcesFreed ==
  ASSUME NEW w \in App, ~FromSource(w), NEW ret \in Rets
  PROVE  LET v == OpenPickedPackage(w, ret)
         IN  Settles(w, v) /\ ~FromSource(v) /\ v.ret = ret
<1> DEFINE v == OpenPickedPackage(w, ret)
<1>1. v \in App
  <2>1. [w.src EXCEPT !.file = NoRun, !.url = NoRun] \in [file : Nat, url : Nat, upload : Nat]
    BY DEF App, NoRun
  <2>2. "Files" \in Screens
    BY DEF Screens
  <2> QED
    BY <2>1, <2>2 DEF OpenPickedPackage, App, Rets
<1>2. /\ v.page = w.page /\ v.flags = w.flags /\ v.reader = w.reader /\ v.run = w.run
      /\ v.runId = w.runId /\ v.taskFile = w.taskFile /\ v.screen = w.screen
      /\ v.contents = w.contents /\ v.ret = ret
  BY DEF OpenPickedPackage, App
<1> HIDE DEF v
<1>3. Settles(w, v) /\ ~FromSource(v) /\ v.ret = ret
  BY <1>1, <1>2 DEF Settles, Keeps, FromSource, Good, Backed, Kept, Fed, HasRun
<1> QED
  BY <1>3 DEF v

LEMMA PickedOpened ==
  ASSUME NEW w \in App, NEW opens \in BOOLEAN, NEW outcome \in Outcomes, NEW dropped \in BOOLEAN
  PROVE  LET v == OpenPicked(w, opens, outcome, dropped)
         IN  Settles(w, v) /\ Shown(v)
<1> DEFINE f == DestroyRun(w)
           s == [f EXCEPT !.src.file = w.runId + 1]
           b == BeginOpen(s, "file", w.picked)
           v == OpenPicked(w, opens, outcome, dropped)
<1>0. w.runId \in Nat /\ w.picked \in AnyPackage
  BY DEF App
<1>3. /\ f \in App /\ ~HasRun(f) /\ f.reader = NoReader /\ f.runId = w.runId /\ Settles(w, f)
      /\ ~f.run.kept
  BY RunDestroyed DEF Settles
<1> HIDE DEF f
<1>6. s \in App /\ Settles(f, s) /\ s.runId = w.runId /\ s.src.file = w.runId + 1
  <2>1. [f.src EXCEPT !.file = w.runId + 1] \in [file : Nat, url : Nat, upload : Nat]
    BY <1>0, <1>3 DEF App
  <2>2. s \in App
    BY <1>3, <2>1 DEF App
  <2>3. /\ s.page = f.page /\ s.flags = f.flags /\ s.reader = f.reader /\ s.run = f.run
        /\ s.runId = f.runId /\ s.taskFile = f.taskFile /\ s.contents = f.contents
        /\ s.src.file = w.runId + 1
    BY <1>3 DEF App
  <2>4. f.reader.doing = "gone"
    BY <1>3 DEF NoReader
  <2> HIDE DEF s
  <2> QED
    BY <1>3, <2>2, <2>3, <2>4 DEF Settles, Keeps, Good, Backed, Kept, Fed, HasRun
<1>7. CASE w.picked = None
  <2>1. v = f
    BY <1>7 DEF OpenPicked, f
  <2> QED
    BY <1>3, <2>1 DEF Shown, FromSource
<1>8. CASE w.picked # None /\ ~opens
  <2>1. v = [f EXCEPT !.screen = "Result"]
    BY <1>8 DEF OpenPicked, f
  <2>2. Settles(f, [f EXCEPT !.screen = "Result"]) /\ [f EXCEPT !.screen = "Result"].screen = "Result"
    BY <1>3, ScreenSet, "Result" \in Screens DEF Screens
  <2> QED
    BY <1>3, <2>1, <2>2, SettlesTwice DEF Shown, UnderWay
<1>9. CASE w.picked # None /\ opens
  <2>1. v = EndOpen(b, outcome, dropped)
    BY <1>9 DEF OpenPicked, f
  <2> HIDE DEF s
  <2>2. b \in App /\ Settles(s, b) /\ ~b.run.kept
    BY <1>0, <1>6, OpenBegun DEF Settles
  <2> HIDE DEF b
  <2>3. Settles(b, EndOpen(b, outcome, dropped)) /\ Shown(EndOpen(b, outcome, dropped))
    BY <2>2, OpenEnded
  <2> QED
    BY <1>3, <1>6, <2>1, <2>2, <2>3, SettlesTwice
<1> QED
  BY <1>7, <1>8, <1>9

LEMMA DownloadOpened ==
  ASSUME NEW w \in App, ~FromSource(w), NEW pkg \in AnyPackage, NEW ret \in Rets
  PROVE  LET v == OpenDownloadPackage(w, pkg, ret)
         IN  Settles(w, v) /\ ~FromSource(v) /\ v.src.url = v.runId + 1 /\ v.ret = ret
<1> DEFINE v == OpenDownloadPackage(w, pkg, ret)
<1>1. v \in App
  <2>1. [w.src EXCEPT !.url = w.runId + 1] \in [file : Nat, url : Nat, upload : Nat]
    BY DEF App
  <2> QED
    BY <2>1 DEF OpenDownloadPackage, App, Rets
<1>2. /\ v.page = w.page /\ v.flags = w.flags /\ v.reader = w.reader /\ v.run = w.run
      /\ v.src.url = w.runId + 1 /\ v.src.file = w.src.file
      /\ v.runId = w.runId /\ v.taskFile = w.taskFile
      /\ v.contents = w.contents /\ v.ret = ret /\ v.screen = w.screen
  BY DEF OpenDownloadPackage, App
<1> HIDE DEF v
<1>3. /\ Settles(w, v) /\ ~FromSource(v) /\ v.src.url = v.runId + 1 /\ v.ret = ret
  BY <1>1, <1>2 DEF Settles, Keeps, FromSource, Good, Backed, Kept, Fed, HasRun
<1> QED
  BY <1>3 DEF v

(* Begin: the thread that starts to read is the run's, and the task file names *)
(* a placeholder that is there.                                              *)
LEMMA TransferBegun ==
  ASSUME NEW w \in App, HasRun(w), NEW saved \in BOOLEAN
  PROVE  LET v == BeginWorks(w, saved)
         IN  /\ Settles(w, v) /\ v.screen = "Progress" /\ v.run.id = w.run.id
             /\ v.run.stage = "transfer"
<1> DEFINE ph == IF w.run.adopted \in w.contents THEN w.run.adopted ELSE w.run.id
           tf == IF saved THEN [pkg |-> w.run.pkg, kind |-> w.run.kind, ph |-> ph,
                                stuck |-> FALSE] ELSE w.taskFile
           th == [id |-> w.run.id, kind |-> w.run.kind, doing |-> "reading"]
           ob == [w.run EXCEPT !.kept = saved, !.ph = ph, !.stage = "transfer"]
           v == BeginWorks(w, saved)
<1>1. /\ w.run \in Object /\ w.run.id \in Nat /\ w.run.pkg \in AnyPackage /\ w.run.kind \in AnyKind
      /\ w.taskFile \in Task
  BY DEF App, Object
<1>2. ph \in Nat
  BY <1>1 DEF Object
<1>3. v = [w EXCEPT !.screen = "Progress", !.contents = @ \cup {ph}, !.taskFile = tf,
                    !.run = ob, !.reader = th]
  <2>1. v = [w EXCEPT !.screen = "Progress", !.contents = @ \cup {ph}, !.taskFile = tf,
                      !.run.kept = saved, !.run.ph = ph, !.run.stage = "transfer", !.reader = th]
    BY DEF BeginWorks
  <2> HIDE DEF v, ph, tf, th
  <2> QED
    BY <1>1, <2>1 DEF App, Object
<1> HIDE DEF ph
<1>4. th \in Thread /\ tf \in Task /\ ob \in Object
  BY <1>1, <1>2 DEF Thread, Task, Object
<1>5. /\ ob.id = w.run.id /\ ob.kind = w.run.kind /\ ob.stage = "transfer"
      /\ ob.pkg = w.run.pkg /\ ob.kept = saved /\ ob.ph = ph
  BY <1>1 DEF Object
<1>6. /\ tf = w.taskFile \/ tf.ph = ph
      /\ saved => tf = [pkg |-> w.run.pkg, kind |-> w.run.kind, ph |-> ph, stuck |-> FALSE]
  OBVIOUS
<1>7. th.id = w.run.id /\ th.kind = w.run.kind
  OBVIOUS
<1> HIDE DEF tf, th, ob, v
<1>8. v \in App
  <2> DEFINE c == w.contents \cup {ph}
  <2>1. c \in SUBSET Nat /\ "Progress" \in Screens
    BY <1>2 DEF App, Screens
  <2>2. v = [w EXCEPT !.screen = "Progress", !.contents = c, !.taskFile = tf,
                      !.run = ob, !.reader = th]
    BY <1>3
  <2> HIDE DEF c
  <2> QED
    BY <1>4, <2>1, <2>2 DEF App
<1>9. /\ v.page = w.page /\ v.flags = w.flags /\ v.reader = th /\ v.run = ob
      /\ v.src = w.src /\ v.runId = w.runId /\ v.taskFile = tf
      /\ v.contents = w.contents \cup {ph} /\ v.screen = "Progress"
  BY <1>3 DEF App
<1>10. Good(w) => Good(v)
  <2>1. Good(w) => Backed(v) /\ Fed(v)
    BY <1>5, <1>6, <1>7, <1>9 DEF Good, Backed, Fed, HasRun
  <2>2. Kept(v)
    BY <1>5, <1>6, <1>9 DEF Kept
  <2> QED
    BY <1>8, <2>1, <2>2 DEF Good
<1> QED
  BY <1>5, <1>8, <1>9, <1>10 DEF Settles, Keeps, v

LEMMA TransferRefused ==
  ASSUME NEW w \in App, NEW adoptedToo \in BOOLEAN
  PROVE  Settles(w, BeginFails(w, adoptedToo)) /\ BeginFails(w, adoptedToo).screen = "Result"
<1> DEFINE a == Abandon(w)
           r == [a.run EXCEPT !.stage = "failed"]
           c == IF adoptedToo THEN a.contents \ {w.run.adopted} ELSE a.contents
           v == BeginFails(w, adoptedToo)
<1>1. a \in App /\ Settles(w, a) /\ (a.taskFile = NoTask \/ a.taskFile.stuck) /\ ~a.run.kept
  BY Abandoned DEF Settles
<1>2. v = [a EXCEPT !.contents = c, !.run = r, !.screen = "Result"]
  BY <1>1 DEF BeginFails, App
<1> HIDE DEF a, v
<1>3. r \in Object /\ r.id = a.run.id /\ r.kind = a.run.kind /\ ~r.kept /\ c \in SUBSET Nat
  BY <1>1 DEF App, Object
<1> HIDE DEF r, c
<1>4. v \in App
  BY <1>1, <1>2, <1>3 DEF App, Screens
<1>5. /\ v.page = a.page /\ v.flags = a.flags /\ v.reader = a.reader /\ v.run = r
      /\ v.src = a.src /\ v.runId = a.runId /\ v.taskFile = a.taskFile /\ v.screen = "Result"
  BY <1>1, <1>2 DEF App
<1>6. Settles(a, v)
  BY <1>1, <1>3, <1>4, <1>5 DEF Settles, Keeps, Good, Backed, Kept, Fed, HasRun
<1> QED
  BY <1>1, <1>5, <1>6, SettlesTwice DEF v

LEMMA SteppedBack ==
  ASSUME NEW w \in App, Shown(w)
  PROVE  Settles(w, InstallStepBack(w)) /\ Shown(InstallStepBack(w))
<1>0. w.origin \in Screens /\ "Choose" \in Screens
  BY DEF App, Screens
<1>1. CASE w.screen \in {"Confirm", "Result"}
  <2> DEFINE l == LeaveInstallScreen(w)
  <2>1. l \in App /\ Settles(w, l) /\ ~HasRun(l) /\ ~l.run.kept
    BY InstallScreenLeft DEF Settles
  <2>2. InstallStepBack(w) = [l EXCEPT !.screen = w.origin]
    BY <1>1 DEF InstallStepBack
  <2> HIDE DEF l
  <2>3. Settles(l, InstallStepBack(w)) /\ ~HasRun(InstallStepBack(w))
    BY <1>0, <2>1, <2>2, ScreenSet DEF SameRun, HasRun
  <2> QED
    BY <2>1, <2>3, SettlesTwice DEF Shown, FromSource
<1>2. CASE w.screen = "Files"
  <2>1. InstallStepBack(w) = [w EXCEPT !.screen = "Choose"]
    BY <1>2 DEF InstallStepBack
  <2>2. Settles(w, InstallStepBack(w)) /\ SameRun(w, InstallStepBack(w))
    BY <1>0, <2>1, ScreenSet
  <2>3. ~FromSource(w)
    BY <1>2 DEF Shown, UnderWay
  <2> QED
    BY <2>2, <2>3 DEF Shown, FromSource, SameRun, HasRun, Settles, Keeps
<1>3. CASE w.screen \in {"Url", "Upload"}
  <2> DEFINE u == [w EXCEPT !.src.url = NoRun, !.address = None]
  <2>1. InstallStepBack(w) = [u EXCEPT !.screen = "Choose"]
    BY <1>3 DEF InstallStepBack
  <2>2. u \in App
    <3>1. [w.src EXCEPT !.url = NoRun] \in [file : Nat, url : Nat, upload : Nat]
      BY DEF App, NoRun
    <3> QED
      BY <3>1 DEF App, AnyPackage
  <2>3. /\ u.page = w.page /\ u.flags = w.flags /\ u.reader = w.reader /\ u.run = w.run
        /\ u.src.file = w.src.file /\ u.runId = w.runId /\ u.taskFile = w.taskFile
        /\ u.contents = w.contents /\ u.screen = w.screen
    BY DEF App
  <2>4. ~FromSource(w)
    BY <1>3 DEF Shown, UnderWay
  <2> HIDE DEF u
  <2>5. Settles(w, u) /\ ~FromSource(u)
    BY <2>2, <2>3, <2>4 DEF Settles, Keeps, Good, Backed, Kept, Fed, HasRun, FromSource
  <2>6. Settles(u, InstallStepBack(w)) /\ SameRun(u, InstallStepBack(w))
    BY <1>0, <2>1, <2>2, ScreenSet
  <2> QED
    BY <2>5, <2>6, SettlesTwice DEF Shown, FromSource, SameRun, HasRun, Settles, Keeps
<1>4. CASE w.screen = "Choose"
  <2>1. InstallStepBack(w) = LeaveGameInstall(w)
    BY <1>4 DEF InstallStepBack
  <2> QED
    BY <2>1, GameInstallLeft DEF Shown, FromSource
<1>5. CASE w.screen \notin {"Confirm", "Result", "Files", "Url", "Upload", "Choose"}
  <2>1. InstallStepBack(w) = w
    BY <1>5 DEF InstallStepBack
  <2> QED
    BY <2>1 DEF Settles, Keeps
<1> QED
  BY <1>1, <1>2, <1>3, <1>4, <1>5

-----------------------------------------------------------------------------
(* The places. *)

(* Where PollInstallerServer goes on to.                                     *)
Leads(place) ==
  \/ place \in {"back", "target"}
  \/ place = AfterPoll
  \/ place \in {"upload", "url"} /\ Opening(place)

LEMMA FollowingLeads ==
  ASSUME Posted, NEW w, NEW flag, Keeps(app, w)
  PROVE  /\ flag # "serve" => Leads(Following(w, flag))
         /\ flag = "serve" => \/ Leads(Following(w, flag)) /\ w.flags.start = NoRun
                              \/ Following(w, flag) = "start" /\ w.flags.start # NoRun
         /\ flag \in {"target", "upload", "url"} => Following(w, flag) \in Rets
BY DEF Following, Leads, Posted, Keeps, Opening, Rets, AfterPoll

(* Members that changed hands outside any transfer.                           *)
LEMMA Lands ==
  ASSUME IInv, NEW place, at' = place, UNCHANGED frames, Settles(app, app'), Shown(app'),
         place \in {"serve", "keys", "sync"} \/ Leads(place),
         OpensNothing => frames = <<>> /\ app'.flags.start = NoRun
  PROVE  IInv'
<1>1. place \in Places \ {"start", "preparing", "probing", "picking", "crashed"} /\ Opening(place)
  BY DEF Leads, Places, AfterPoll, Opening
<1>2. place = "step" => frames # <<>>
  BY DEF Leads, AfterPoll
<1>3. Good(app)' /\ app'.page = app.page
  BY DEF IInv, Settles, Keeps, Good
<1>4. SourceIsKept'
  BY <1>1 DEF SourceIsKept, Shown
<1>5. Posted'
  BY <1>1, <1>3 DEF IInv, Posted, Opening, Settles, Keeps
<1>6. Stacked'
  BY <1>1, <1>2 DEF IInv, Stacked
<1>7. OneTransfer'
  BY <1>1, <1>3 DEF IInv, OneTransfer, OpensNothing
<1> QED
  BY <1>1, <1>3, <1>4, <1>5, <1>6, <1>7 DEF IInv

(* A pass of the loop that leaves the run in hand alone.                      *)
LEMMA Passes ==
  ASSUME IInv, at \in {"serve", "start", "back", "target"}, NEW place, at' = place,
         UNCHANGED frames, Settles(app, app'), SameRun(app, app'), app'.screen = app.screen,
         \/ Leads(place) /\ (OpensNothing => app'.flags.start = NoRun)
         \/ place = "start" /\ app'.flags.start # NoRun
  PROVE  IInv'
<1>1. place \in Places \ {"serve", "preparing", "probing", "picking", "crashed", "sync"} /\ Opening(place)
  BY DEF Leads, Places, AfterPoll, Opening
<1>2. place = "step" => frames # <<>>
  BY DEF Leads, AfterPoll
<1>3. Good(app)' /\ app'.page = app.page
  BY DEF IInv, Settles, Keeps, Good
<1>4. SourceIsKept'
  BY <1>1, <1>3 DEF IInv, SourceIsKept, FromSource, HasRun, SameRun
<1>5. Posted'
  BY <1>1, <1>3 DEF IInv, Posted, Opening, Settles, Keeps
<1>6. Stacked'
  BY <1>1, <1>2 DEF IInv, Stacked
<1>7. OneTransfer'
  <2>1. OpensNothing /\ frames # <<>> => place \in {"step", "start", "back", "target"}
    BY DEF Leads, AfterPoll, Opening, OpensNothing
  <2>2. app'.flags.start # NoRun => app'.flags.start = app.flags.start
    BY DEF Settles, Keeps
  <2>3. /\ OpensNothing' <=> OpensNothing
        /\ app'.run = app.run /\ app'.screen = app.screen
    BY <1>3 DEF OpensNothing, SameRun
  <2>4. ASSUME OpensNothing, app'.flags.start # NoRun
        PROVE  place = "start" /\ app'.flags.start = app'.run.id
    BY <2>2, <2>3, <2>4 DEF IInv, OneTransfer
  <2>5. ASSUME OpensNothing, frames # <<>>
        PROVE  /\ Len(frames) = 1 /\ frames[1].run = app.run.id
               /\ app.screen = "Progress" /\ app.run.stage = "transfer"
    BY <2>5 DEF IInv, OneTransfer
  <2>6. place = "start" => app'.flags.start # NoRun
    BY DEF Leads, AfterPoll
  <2> QED
    BY <1>1, <2>1, <2>3, <2>4, <2>5, <2>6 DEF OneTransfer
<1> QED
  BY <1>1, <1>3, <1>4, <1>5, <1>6, <1>7 DEF IInv

(* The UI thread waits for an address or for the thread of a run it replaces.  *)
LEMMA Waits ==
  ASSUME IInv, at' \in Between, UNCHANGED frames, Settles(app, app'), ~FromSource(app'),
         at' = "probing" => app'.src.url = app'.runId + 1,
         app'.ret \in {"keys", "sync"} \/ Leads(app'.ret),
         OpensNothing => /\ frames = <<>> /\ app'.flags.start = NoRun
                         /\ app'.ret \in {"keys", "sync"}
  PROVE  IInv'
<1>3. Good(app)' /\ app'.page = app.page
  BY DEF IInv, Settles, Keeps, Good
<1>4. SourceIsKept'
  BY DEF SourceIsKept
<1>5. Posted'
  BY <1>3 DEF IInv, Posted, Opening, Settles, Keeps, Leads, AfterPoll
<1>6. Stacked'
  BY DEF IInv, Stacked, Leads, AfterPoll
<1>7. OneTransfer'
  BY <1>3 DEF IInv, OneTransfer, OpensNothing
<1> QED
  BY <1>3, <1>4, <1>5, <1>6, <1>7 DEF IInv, Places

(* An address is looked up.                                                  *)
LEMMA Probes ==
  ASSUME IInv, at' = "probing", UNCHANGED frames, NEW w \in App, Settles(app, w), ~FromSource(w),
         NEW pkg \in AnyPackage, NEW ret \in Rets, app' = OpenDownloadPackage(w, pkg, ret),
         ret \in {"keys", "sync"} \/ Leads(ret),
         OpensNothing => frames = <<>> /\ w.flags.start = NoRun /\ ret \in {"keys", "sync"}
  PROVE  IInv'
<1>1. /\ Settles(w, app') /\ ~FromSource(app') /\ app'.src.url = app'.runId + 1
      /\ app'.ret = ret
  BY DownloadOpened
<1>2. Settles(app, app') /\ app'.flags.start \in {NoRun, w.flags.start}
  BY <1>1, SettlesTwice DEF Settles, Keeps
<1> QED
  BY <1>1, <1>2, Waits

(* A file is picked.                                                         *)
LEMMA Picks ==
  ASSUME IInv, at' = "picking", UNCHANGED frames, NEW w \in App, Settles(app, w), ~FromSource(w),
         NEW ret \in Rets, app' = OpenPickedPackage(w, ret),
         ret \in {"keys", "sync"} \/ Leads(ret),
         OpensNothing => frames = <<>> /\ w.flags.start = NoRun /\ ret \in {"keys", "sync"}
  PROVE  IInv'
<1>1. Settles(w, app') /\ ~FromSource(app') /\ app'.ret = ret
  BY SourcesFreed
<1>2. Settles(app, app') /\ app'.flags.start \in {NoRun, w.flags.start}
  BY <1>1, SettlesTwice DEF Settles, Keeps
<1> QED
  BY <1>1, <1>2, Waits

-----------------------------------------------------------------------------
(* The steps. *)

LEMMA InitEstablishes == Init => IInv
<1> SUFFICES ASSUME Init PROVE IInv
  OBVIOUS
<1>0. PICK page \in Pages :
        app = [page |-> page,
            screen |-> "Home", origin |-> "Choose", drives |-> FALSE, listening |-> FALSE,
            runId |-> NoRun, run |-> NoObject, reader |-> NoReader, src |-> NoSources,
            flags |-> NoFlags, picked |-> None, address |-> None, ret |-> "keys",
            have |-> FALSE, pending |-> NoTask, resume |-> FALSE, removes |-> TRUE,
            taskFile |-> NoTask, contents |-> {}, reads |-> {}]
  BY DEF Init
<1>1. /\ NoObject \in Object /\ NoReader \in Thread /\ NoFlags \in Flags /\ NoTask \in Task
      /\ NoSources \in [file : Nat, url : Nat, upload : Nat] /\ NoRun \in Nat /\ None \in AnyPackage
  BY DEF NoObject, Object, NoReader, Thread, NoFlags, Flags, NoTask, Task, NoSources, NoRun,
         None, AnyKind, AnyPackage
<1>2. page \in SUBSET {"start", "back", "target", "upload", "url"}
  BY ConfigurationAssumption
<1>3. app \in App
  BY <1>0, <1>1, <1>2 DEF App, Screens, Rets
<1>4. Good(app)
  BY <1>0, <1>3 DEF Good, Backed, Kept, Fed, HasRun, NoObject, NoReader
<1>5. SourceIsKept /\ Posted /\ OneTransfer /\ Stacked /\ at \in Places
  <2>1. at = "serve" /\ frames = <<>>
    BY DEF Init
  <2>2. app.run.id = NoRun /\ app.flags.start = NoRun /\ app.flags.upload = None /\ app.flags.url = None
    BY <1>0 DEF NoObject, NoFlags
  <2> QED
    BY <2>1, <2>2 DEF SourceIsKept, FromSource, HasRun, Posted, Opening, OneTransfer, Stacked,
                      Calls, Places
<1> QED
  BY <1>4, <1>5 DEF IInv

(* What IInv says of the members.                                            *)
LEMMA Members == IInv => app \in App /\ Shown(app)
BY DEF IInv, Good, SourceIsKept, Shown

(* A request changes the flags, and nothing acts on them yet.                 *)
LEMMA RequestsKeep == IInv /\ PageNext => IInv'
<1> SUFFICES ASSUME IInv, PageNext PROVE IInv'
  OBVIOUS
<1>0. app \in App /\ app.flags \in Flags
  BY DEF IInv, Good, App
<1>1. ASSUME NEW f \in Flags, app' = [app EXCEPT !.flags = f], UNCHANGED <<at, frames>>,
             Serving,
             f.url # None => "url" \in app.page,
             f.upload # None => "upload" \in app.page,
             f.start = app.flags.start \/ (at = "serve" /\ f.start = app.run.id)
               \/ at = "preparing"
      PROVE  IInv'
  <2>1. /\ app'.flags = f /\ app'.page = app.page /\ app'.run = app.run /\ app'.src = app.src
        /\ app'.runId = app.runId /\ app'.screen = app.screen /\ app'.reader = app.reader
        /\ app'.taskFile = app.taskFile /\ app'.contents = app.contents /\ app'.ret = app.ret
        /\ app'.listening = app.listening /\ app' \in App
    BY <1>0, <1>1 DEF App
  <2>2. Good(app)'
    BY <2>1 DEF IInv, Good, Backed, Kept, Fed, HasRun
  <2>3. SourceIsKept' /\ Posted' /\ Stacked'
    BY <1>1, <2>1 DEF IInv, SourceIsKept, FromSource, HasRun, Posted, Opening, Stacked, Serving
  <2>4. OneTransfer'
    <3>1. at = "preparing" => ~OpensNothing
      BY DEF IInv, Posted, Opening, OpensNothing
    <3> QED
      BY <1>1, <2>1, <3>1 DEF IInv, OneTransfer, OpensNothing, Serving
  <2> QED
    BY <1>1, <2>2, <2>3, <2>4 DEF IInv
<1>2. CASE PostStart
  <2> DEFINE f == [app.flags EXCEPT !.start = app.runId]
  <2>1. f \in Flags /\ f.start = app.runId /\ f.url = app.flags.url /\ f.upload = app.flags.upload
    BY <1>0 DEF App, Flags
  <2>2. app' = [app EXCEPT !.flags = f] /\ app.run.id = app.runId
    BY <1>0, <1>2 DEF PostStart, App, HasRun, IInv, Good, Fed
  <2> HIDE DEF f
  <2> QED
    BY <1>1, <1>2, <2>1, <2>2 DEF PostStart, Serving, IInv, Posted
<1>3. CASE PostBack
  <2> DEFINE f == [app.flags EXCEPT !.back = TRUE]
  <2>1. f \in Flags /\ f.start = app.flags.start /\ f.url = app.flags.url /\ f.upload = app.flags.upload
    BY <1>0 DEF Flags
  <2>2. app' = [app EXCEPT !.flags = f]
    BY <1>0, <1>3 DEF PostBack, App
  <2> HIDE DEF f
  <2> QED
    BY <1>1, <1>3, <2>1, <2>2 DEF PostBack, Serving, IInv, Posted
<1>4. CASE PostTarget
  <2> DEFINE f == [app.flags EXCEPT !.target = TRUE]
  <2>1. f \in Flags /\ f.start = app.flags.start /\ f.url = app.flags.url /\ f.upload = app.flags.upload
    BY <1>0 DEF Flags
  <2>2. app' = [app EXCEPT !.flags = f]
    BY <1>0, <1>4 DEF PostTarget, App
  <2> HIDE DEF f
  <2> QED
    BY <1>1, <1>4, <2>1, <2>2 DEF PostTarget, Serving, IInv, Posted
<1>5. CASE PostUpload
  <2>0. PICK pkg \in Packages : app' = [app EXCEPT !.flags.upload = pkg]
    BY <1>5 DEF PostUpload
  <2> DEFINE f == [app.flags EXCEPT !.upload = pkg]
  <2>1. f \in Flags /\ f.start = app.flags.start /\ f.url = app.flags.url
    BY <1>0 DEF Flags, AnyPackage
  <2>2. app' = [app EXCEPT !.flags = f]
    BY <1>0, <2>0 DEF App
  <2> HIDE DEF f
  <2> QED
    BY <1>1, <1>5, <2>1, <2>2 DEF PostUpload, Serving, IInv, Posted
<1>6. CASE PostUrl
  <2>0. PICK pkg \in Packages : app' = [app EXCEPT !.flags.url = pkg]
    BY <1>6 DEF PostUrl
  <2> DEFINE f == [app.flags EXCEPT !.url = pkg]
  <2>1. f \in Flags /\ f.start = app.flags.start /\ f.upload = app.flags.upload
    BY <1>0 DEF Flags, AnyPackage
  <2>2. app' = [app EXCEPT !.flags = f]
    BY <1>0, <2>0 DEF App
  <2> HIDE DEF f
  <2> QED
    BY <1>1, <1>6, <2>1, <2>2 DEF PostUrl, Serving, IInv, Posted
<1> QED
  BY <1>2, <1>3, <1>4, <1>5, <1>6 DEF PageNext

(* A request that is taken up is gone.                                        *)
LEMMA FlagTaken ==
  ASSUME NEW w \in App, NEW f \in Flags,
         f.start \in {NoRun, w.flags.start}, f.upload \in {None, w.flags.upload},
         f.url \in {None, w.flags.url}
  PROVE  LET v == [w EXCEPT !.flags = f]
         IN  /\ Settles(w, v) /\ SameRun(w, v) /\ v.screen = w.screen /\ v.flags = f
             /\ v.address = w.address
<1> DEFINE v == [w EXCEPT !.flags = f]
<1>1. v \in App
  BY DEF App
<1>2. /\ v.page = w.page /\ v.flags = f /\ v.reader = w.reader /\ v.run = w.run
      /\ v.src = w.src /\ v.runId = w.runId /\ v.taskFile = w.taskFile
      /\ v.contents = w.contents /\ v.screen = w.screen /\ v.address = w.address
  BY DEF App
<1> QED
  BY <1>1, <1>2 DEF Settles, SameRun, Keeps, Good, Backed, Kept, Fed, HasRun

LEMMA StartTaken ==
  ASSUME NEW w \in App
  PROVE  LET v == [w EXCEPT !.flags.start = NoRun]
         IN  v \in App /\ Settles(w, v) /\ SameRun(w, v) /\ v.screen = w.screen /\ v.flags.start = NoRun
<1> DEFINE f == [w.flags EXCEPT !.start = NoRun]
<1>1. w.flags \in Flags
  BY DEF App
<1>2. f \in Flags /\ f.start = NoRun /\ f.url = w.flags.url /\ f.upload = w.flags.upload
  BY <1>1 DEF Flags, NoRun
<1>3. [w EXCEPT !.flags.start = NoRun] = [w EXCEPT !.flags = f]
  BY DEF App
<1> HIDE DEF f
<1> DEFINE v == [w EXCEPT !.flags = f]
<1>4. /\ Settles(w, v) /\ SameRun(w, v) /\ v.screen = w.screen /\ v.flags = f
  BY <1>2, FlagTaken
<1>5. v \in App
  BY <1>4 DEF Settles
<1> HIDE DEF v
<1>6. [w EXCEPT !.flags.start = NoRun] = v
  BY <1>3 DEF v
<1> QED
  BY <1>2, <1>4, <1>5, <1>6

LEMMA BackTaken ==
  ASSUME NEW w \in App
  PROVE  LET v == [w EXCEPT !.flags.back = FALSE]
         IN  /\ v \in App /\ Settles(w, v) /\ SameRun(w, v) /\ v.screen = w.screen
             /\ v.flags.start = w.flags.start
<1> DEFINE f == [w.flags EXCEPT !.back = FALSE]
<1>1. w.flags \in Flags
  BY DEF App
<1>2. f \in Flags /\ f.start = w.flags.start /\ f.url = w.flags.url /\ f.upload = w.flags.upload
  BY <1>1 DEF Flags
<1>3. [w EXCEPT !.flags.back = FALSE] = [w EXCEPT !.flags = f]
  BY DEF App
<1> HIDE DEF f
<1> DEFINE v == [w EXCEPT !.flags = f]
<1>4. /\ Settles(w, v) /\ SameRun(w, v) /\ v.screen = w.screen /\ v.flags = f
  BY <1>2, FlagTaken
<1>5. v \in App
  BY <1>4 DEF Settles
<1> HIDE DEF v
<1>6. [w EXCEPT !.flags.back = FALSE] = v
  BY <1>3 DEF v
<1> QED
  BY <1>2, <1>4, <1>5, <1>6

LEMMA TargetTaken ==
  ASSUME NEW w \in App
  PROVE  LET v == [w EXCEPT !.flags.target = FALSE]
         IN  /\ v \in App /\ Settles(w, v) /\ SameRun(w, v) /\ v.screen = w.screen
             /\ v.flags.start = w.flags.start
<1> DEFINE f == [w.flags EXCEPT !.target = FALSE]
<1>1. w.flags \in Flags
  BY DEF App
<1>2. f \in Flags /\ f.start = w.flags.start /\ f.url = w.flags.url /\ f.upload = w.flags.upload
  BY <1>1 DEF Flags
<1>3. [w EXCEPT !.flags.target = FALSE] = [w EXCEPT !.flags = f]
  BY DEF App
<1> HIDE DEF f
<1> DEFINE v == [w EXCEPT !.flags = f]
<1>4. /\ Settles(w, v) /\ SameRun(w, v) /\ v.screen = w.screen /\ v.flags = f
  BY <1>2, FlagTaken
<1>5. v \in App
  BY <1>4 DEF Settles
<1> HIDE DEF v
<1>6. [w EXCEPT !.flags.target = FALSE] = v
  BY <1>3 DEF v
<1> QED
  BY <1>2, <1>4, <1>5, <1>6

(* With a page that opens nothing no request to start is left after "start".  *)
LEMMA NoStartLeft ==
  ASSUME IInv, at \notin {"serve", "start"}, OpensNothing
  PROVE  app.flags.start = NoRun
BY DEF IInv, OneTransfer

LEMMA ServeEndsKeeps == IInv /\ ServeEnds => IInv'
<1> SUFFICES ASSUME IInv, ServeEnds PROVE IInv'
  OBVIOUS
<1>1. Settles(app, app') /\ SameRun(app, app') /\ app'.screen = app.screen /\ Keeps(app, app)
  BY Members DEF ServeEnds, Settles, SameRun, Keeps
<1>2. at = "serve" /\ UNCHANGED <<frames, app>>
  BY DEF ServeEnds
<1>3. CASE app.listening
  BY <1>1, <1>2, <1>3, FollowingLeads, Passes DEF ServeEnds, IInv
<1>4. CASE ~app.listening
  <2>1. at' = AfterPoll /\ Leads(AfterPoll)
    BY <1>4 DEF ServeEnds, Leads
  <2>2. OpensNothing => app.flags.start = NoRun
    BY <1>2, <1>4 DEF IInv, OneTransfer
  <2> QED
    BY <1>1, <1>2, <2>1, <2>2, Passes
<1> QED
  BY <1>3, <1>4

(* RunGameInstall from wherever it is called.                                 *)
LEMMA TransferStarts ==
  ASSUME IInv, NEW w \in App, Settles(app, w), HasRun(w), NEW caller,
         caller \in {"keys", "sync"} \/ (caller = "step" /\ frames # <<>>),
         OpensNothing => frames = <<>> /\ w.flags.start = NoRun /\ caller \in {"keys", "sync"},
         RunGameInstall(w, caller)
  PROVE  IInv'
<1>1. ASSUME NEW saved \in BOOLEAN, app' = BeginWorks(w, saved), at' = "step",
             frames' = Append(frames, [run |-> w.run.id, caller |-> caller])
      PROVE  IInv'
  <2>1. /\ Settles(w, app') /\ app'.screen = "Progress" /\ app'.run.id = w.run.id
        /\ app'.run.stage = "transfer"
    BY <1>1, TransferBegun
  <2>2. Settles(app, app')
    BY <2>1, SettlesTwice
  <2>3. Good(app)' /\ app'.page = app.page /\ app'.flags.start \in {NoRun, w.flags.start}
    BY <2>1, <2>2 DEF IInv, Settles, Keeps, Good
  <2>4. SourceIsKept'
    BY <1>1, <2>1 DEF SourceIsKept, UnderWay
  <2>5. Posted'
    BY <1>1, <2>2, <2>3 DEF IInv, Posted, Opening, Settles, Keeps
  <2>6. /\ frames' \in Calls /\ Len(frames') = Len(frames) + 1
        /\ \A i \in 1 .. Len(frames) : frames'[i] = frames[i]
        /\ frames'[Len(frames) + 1] = [run |-> w.run.id, caller |-> caller]
        /\ Len(frames) \in Nat
    <3>1. [run |-> w.run.id, caller |-> caller] \in [run : Nat, caller : {"keys", "sync", "step"}]
      BY DEF App, Object
    <3> QED
      BY <1>1, <3>1, AppendProperties, LenProperties DEF IInv, Stacked, Calls
  <2>7. Len(frames) = 0 <=> frames = <<>>
    BY EmptySeq DEF IInv, Stacked, Calls
  <2>8. Stacked'
    <3>1. frames' # <<>>
      BY <2>6
    <3>2. ASSUME NEW i \in 1 .. Len(frames'), frames'[i].caller = "step"
          PROVE  i > 1
      <4>1. CASE i = Len(frames) + 1
        BY <2>6, <2>7, <3>2, <4>1
      <4>2. CASE i # Len(frames) + 1
        BY <2>6, <3>2, <4>2 DEF IInv, Stacked
      <4> QED
        BY <4>1, <4>2
    <3> QED
      BY <1>1, <2>6, <3>1, <3>2 DEF Stacked
  <2>9. OneTransfer'
    <3>1. ASSUME OpensNothing
          PROVE  Len(frames') = 1 /\ frames'[1].run = app'.run.id /\ frames'[1].caller \in {"keys", "sync"}
      BY <2>1, <2>6, <2>7, <3>1
    <3> QED
      BY <1>1, <2>1, <2>3, <3>1 DEF OneTransfer, OpensNothing
  <2> QED
    BY <1>1, <2>3, <2>4, <2>5, <2>8, <2>9 DEF IInv, Places
<1>2. ASSUME NEW adoptedToo \in BOOLEAN, app' = BeginFails(w, adoptedToo), at' = caller,
             UNCHANGED frames
      PROVE  IInv'
  <2>1. Settles(app, app') /\ app'.screen = "Result" /\ app'.flags.start \in {NoRun, w.flags.start}
    BY <1>2, TransferRefused, SettlesTwice DEF Settles, Keeps
  <2>2. caller \in {"serve", "keys", "sync"} \/ Leads(caller)
    BY DEF Leads, AfterPoll
  <2> QED
    BY <1>2, <2>1, <2>2, Lands DEF Shown, UnderWay
<1> QED
  BY <1>1, <1>2 DEF RunGameInstall

LEMMA StartKeeps == IInv /\ ActOnStart => IInv'
<1> SUFFICES ASSUME IInv, ActOnStart PROVE IInv'
  OBVIOUS
<1> DEFINE w == [app EXCEPT !.flags.start = NoRun]
<1>1. w \in App /\ Settles(app, w) /\ SameRun(app, w) /\ w.screen = app.screen /\ w.flags.start = NoRun
  BY Members, StartTaken
<1>2. at = "start" /\ IF w.screen = "Confirm" /\ HasRun(w) THEN RunGameInstall(w, AfterPoll)
                      ELSE app' = w /\ at' = Following(w, "start") /\ UNCHANGED frames
  BY DEF ActOnStart
<1> HIDE DEF w
<1>3. CASE w.screen = "Confirm" /\ HasRun(w)
  <2>1. OpensNothing => frames = <<>>
    BY <1>1, <1>3 DEF IInv, OneTransfer
  <2> QED
    BY <1>1, <1>2, <1>3, <2>1, TransferStarts DEF AfterPoll
<1>4. CASE ~(w.screen = "Confirm" /\ HasRun(w))
  <2>1. Leads(Following(w, "start"))
    BY <1>1, FollowingLeads DEF IInv, Settles
  <2> QED
    BY <1>1, <1>2, <1>4, <2>1, Passes
<1> QED
  BY <1>3, <1>4

LEMMA BackKeeps == IInv /\ ActOnBack => IInv'
<1> SUFFICES ASSUME IInv, ActOnBack PROVE IInv'
  OBVIOUS
<1> DEFINE w == [app EXCEPT !.flags.back = FALSE]
<1>1. /\ w \in App /\ Settles(app, w) /\ SameRun(app, w) /\ w.screen = app.screen
      /\ w.flags.start = app.flags.start
  BY Members, BackTaken
<1>2. /\ at = "back" /\ UNCHANGED frames
      /\ IF w.screen \in {"Confirm", "Result"}
           THEN app' = InstallStepBack(w) /\ at' = AfterPoll
           ELSE app' = w /\ at' = Following(w, "back")
  BY DEF ActOnBack
<1> HIDE DEF w
<1>n. OpensNothing => w.flags.start = NoRun
  BY <1>1, <1>2, NoStartLeft
<1>3. CASE w.screen \in {"Confirm", "Result"}
  <2>1. OpensNothing => frames = <<>>
    BY <1>1, <1>3 DEF IInv, OneTransfer
  <2>2. Shown(w)
    BY <1>1, <1>3 DEF Shown, UnderWay
  <2>3. Settles(w, app') /\ Shown(app')
    BY <1>1, <1>2, <1>3, <2>2, SteppedBack
  <2>4. Settles(app, app') /\ app'.flags.start \in {NoRun, w.flags.start}
    BY <1>1, <2>3, SettlesTwice DEF Settles, Keeps
  <2>5. Leads(AfterPoll)
    BY DEF Leads
  <2> QED
    BY <1>2, <1>3, <1>n, <2>1, <2>3, <2>4, <2>5, Lands
<1>4. CASE w.screen \notin {"Confirm", "Result"}
  <2>1. Leads(Following(w, "back"))
    BY <1>1, FollowingLeads DEF IInv, Settles
  <2> QED
    BY <1>1, <1>2, <1>4, <1>n, <2>1, Passes
<1> QED
  BY <1>3, <1>4

LEMMA TargetSet ==
  ASSUME IInv, at \in {"target", "keys"}, NEW w \in App, Settles(app, w), SameRun(app, w),
         w.screen = app.screen, NEW next \in Rets,
         IF at = "keys" THEN next = "sync" ELSE Leads(next),
         SetInstallTarget(w, next)
  PROVE  IInv'
<1>0. UNCHANGED frames /\ (OpensNothing => w.flags.start = NoRun)
  BY NoStartLeft DEF SetInstallTarget, Settles, Keeps
<1>1. CASE app' = w /\ at' = next
  <2>1. CASE at = "keys"
    <3>1. OpensNothing => frames = <<>>
      BY <2>1 DEF IInv, OneTransfer
    <3>2. Shown(w)
      BY Members DEF Shown, FromSource, HasRun, SameRun, Settles, Keeps
    <3> QED
      BY <1>0, <1>1, <2>1, <3>1, <3>2, Lands
  <2>2. CASE at = "target"
    BY <1>0, <1>1, <2>2, Passes
  <2> QED
    BY <2>1, <2>2
<1>2. CASE InstallTargetSelectable(w) /\ ~(app' = w /\ at' = next)
  <2> DEFINE l == LeaveInstallScreen(w)
  <2>0. OpensNothing => frames = <<>>
    BY <1>2 DEF IInv, OneTransfer, InstallTargetSelectable
  <2>1. l \in App /\ Settles(w, l) /\ ~HasRun(l) /\ Settles(app, l)
    BY InstallScreenLeft, SettlesTwice DEF Settles
  <2>2. OpensNothing => l.flags.start = NoRun
    BY <1>0, <2>1 DEF Settles, Keeps
  <2>3. next \in {"keys", "sync"} \/ Leads(next)
    OBVIOUS
  <2>4. w.address \in AnyPackage
    BY DEF App
  <2>c. IF w.src.upload # NoRun
             THEN app' = [LeaveInstallScreen(w) EXCEPT !.screen = "Upload"] /\ at' = next
           ELSE IF HasRun(w) /\ w.src.url # NoRun
             THEN /\ app' = OpenDownloadPackage(LeaveInstallScreen(w), w.address, next)
                  /\ at' = "probing"
           ELSE /\ HasRun(w)
                /\ app' = OpenPickedPackage(LeaveInstallScreen(w), next)
                /\ at' = "picking"
    BY <1>2 DEF SetInstallTarget
  <2> HIDE DEF l
  <2>s. OpensNothing => next \in {"keys", "sync"}
    BY <2>0 DEF Leads, AfterPoll, Rets, Opening, OpensNothing
  <2>5. CASE w.src.upload # NoRun
    <3>1. app' = [l EXCEPT !.screen = "Upload"] /\ at' = next
      BY <2>5, <2>c DEF l
    <3>2. Settles(l, app') /\ SameRun(l, app')
      BY <2>1, <3>1, ScreenSet, "Upload" \in Screens DEF Screens
    <3>3. Settles(app, app') /\ Shown(app') /\ app'.flags.start \in {NoRun, l.flags.start}
      BY <2>1, <3>2, SettlesTwice DEF Shown, FromSource, SameRun, HasRun, Settles, Keeps
    <3> QED
      BY <1>0, <2>0, <2>2, <2>3, <3>1, <3>3, Lands
  <2>6. CASE w.src.upload = NoRun /\ HasRun(w) /\ w.src.url # NoRun
    <3>1. app' = OpenDownloadPackage(l, w.address, next) /\ at' = "probing"
      BY <2>6, <2>c DEF l
    <3> QED
      BY <1>0, <2>0, <2>1, <2>2, <2>3, <2>4, <2>s, <3>1, Probes DEF FromSource
  <2>7. CASE w.src.upload = NoRun /\ ~(HasRun(w) /\ w.src.url # NoRun)
    <3>1. app' = OpenPickedPackage(l, next) /\ at' = "picking"
      BY <2>7, <2>c DEF l
    <3> QED
      BY <1>0, <2>0, <2>1, <2>2, <2>3, <2>s, <3>1, Picks DEF FromSource
  <2> QED
    BY <2>5, <2>6, <2>7
<1> QED
  BY <1>1, <1>2 DEF SetInstallTarget

LEMMA TargetKeeps == IInv /\ ActOnTarget => IInv'
<1> SUFFICES ASSUME IInv, ActOnTarget PROVE IInv'
  OBVIOUS
<1> DEFINE w == [app EXCEPT !.flags.target = FALSE]
<1>1. w \in App /\ Settles(app, w) /\ SameRun(app, w) /\ w.screen = app.screen
  BY Members, TargetTaken
<1>2. at = "target" /\ SetInstallTarget(w, Following(w, "target"))
  BY DEF ActOnTarget
<1> HIDE DEF w
<1>3. Following(w, "target") \in Rets /\ Leads(Following(w, "target"))
  BY <1>1, FollowingLeads DEF IInv, Settles
<1> QED
  BY <1>1, <1>2, <1>3, TargetSet

LEMMA UploadKeeps == IInv /\ ActOnUpload => IInv'
<1> SUFFICES ASSUME IInv, ActOnUpload PROVE IInv'
  OBVIOUS
<1> DEFINE armed == app.have /\ app.pending.kind = "upload"
           f == [app.flags EXCEPT !.upload = None]
           s == [app.src EXCEPT !.upload = app.runId + 1]
           w == [app EXCEPT !.flags = f, !.drives = TRUE, !.resume = @ \/ armed, !.src = s]
<1>0. app \in App
  BY Members
<1>1. f \in Flags /\ s \in [file : Nat, url : Nat, upload : Nat]
      /\ f.start = app.flags.start /\ f.url = app.flags.url /\ f.upload = None
      /\ s.file = app.src.file /\ s.url = app.src.url
  BY <1>0 DEF App, Flags, AnyPackage
<1>2. /\ app' = BeginOpen(w, "upload", app.flags.upload)
      /\ at = "upload" /\ at' = "preparing" /\ UNCHANGED frames
  <2>1. w = [app EXCEPT !.flags.upload = None, !.drives = TRUE,
                        !.resume = @ \/ armed, !.src.upload = app.runId + 1]
    BY <1>0 DEF App
  <2> QED
    BY <2>1 DEF ActOnUpload
<1> HIDE DEF f, s
<1>b. app.resume \in BOOLEAN
  BY <1>0 DEF App
<1>3. w \in App
  BY <1>0, <1>1, <1>b DEF App
<1>4. /\ w.page = app.page /\ w.flags = f /\ w.reader = app.reader /\ w.run = app.run
      /\ w.src = s /\ w.runId = app.runId /\ w.taskFile = app.taskFile
      /\ w.contents = app.contents /\ w.screen = app.screen
  BY <1>0 DEF App
<1> HIDE DEF w
<1>5. Settles(app, w)
  BY <1>1, <1>3, <1>4 DEF Settles, Keeps, Good, Backed, Kept, Fed, HasRun
<1>6. app.flags.upload \in AnyPackage
  BY <1>0 DEF App, Flags
<1>7. Settles(w, app') /\ HasRun(app') /\ app'.run.kind = "upload" /\ ~app'.run.kept
  BY <1>2, <1>3, <1>6, OpenBegun
<1>8. Settles(app, app')
  BY <1>5, <1>7, SettlesTwice
<1>9. Good(app)' /\ app'.page = app.page /\ "upload" \in app.page
  BY <1>2, <1>8 DEF IInv, Settles, Keeps, Good, Posted, Opening
<1>10. SourceIsKept'
  BY <1>2, <1>7 DEF SourceIsKept, FromSource
<1>11. Posted' /\ Stacked' /\ OneTransfer'
  BY <1>2, <1>8, <1>9 DEF IInv, Posted, Opening, Settles, Keeps, Stacked, OneTransfer, OpensNothing
<1> QED
  BY <1>2, <1>9, <1>10, <1>11 DEF IInv, Places

LEMMA PreparedKeeps == IInv /\ UploadPrepared => IInv'
<1> SUFFICES ASSUME IInv, UploadPrepared PROVE IInv'
  OBVIOUS
<1>1. PICK outcome \in Outcomes, dropped \in BOOLEAN :
        app' = EndOpen(app, outcome, dropped) /\ at' = Following(app', "upload")
  BY DEF UploadPrepared
<1>2. Settles(app, app') /\ Shown(app')
  <2>1. ~app.run.kept
    BY DEF UploadPrepared, IInv, SourceIsKept
  <2> QED
    BY <1>1, <2>1, Members, OpenEnded
<1>3. Leads(Following(app', "upload"))
  BY <1>2, FollowingLeads DEF IInv, Settles
<1>4. ~OpensNothing /\ UNCHANGED frames
  BY DEF UploadPrepared, IInv, Posted, Opening, OpensNothing
<1> QED
  BY <1>1, <1>2, <1>3, <1>4, Lands

LEMMA UrlKeeps == IInv /\ ActOnUrl => IInv'
<1> SUFFICES ASSUME IInv, ActOnUrl PROVE IInv'
  OBVIOUS
<1> DEFINE f == [app.flags EXCEPT !.url = None]
           u == [app EXCEPT !.flags = f]
           w == [u EXCEPT !.drives = TRUE]
<1>0. app \in App
  BY Members
<1>1. /\ f \in Flags /\ f.start = app.flags.start /\ f.upload = app.flags.upload /\ f.url = None
      /\ app.flags.url \in AnyPackage
  BY <1>0 DEF App, Flags, AnyPackage
<1>2. /\ app' = OpenDownloadPackage(w, app.flags.url, AfterPoll)
      /\ at = "url" /\ at' = "probing" /\ UNCHANGED frames
  <2>1. w = [app EXCEPT !.flags.url = None, !.drives = TRUE]
    BY <1>0 DEF App
  <2> QED
    BY <2>1 DEF ActOnUrl
<1> HIDE DEF f
<1>3. u \in App /\ Settles(app, u)
  BY <1>0, <1>1, FlagTaken DEF Settles
<1> HIDE DEF u
<1>4. w \in App /\ Settles(app, w)
  BY <1>3, DrivesSet, SettlesTwice DEF Settles
<1> HIDE DEF w
<1>5. "url" \in app.page /\ w.page = app.page
  BY <1>2, <1>4 DEF IInv, Posted, Opening, Settles, Keeps
<1>6. ~FromSource(w) /\ ~OpensNothing
  BY <1>5 DEF FromSource, OpensNothing
<1>7. AfterPoll \in Rets /\ Leads(AfterPoll)
  BY DEF AfterPoll, Rets, Leads
<1> QED
  BY <1>1, <1>2, <1>4, <1>6, <1>7, Probes

(* Where a wait ends.                                                        *)
LEMMA WaitsFor ==
  ASSUME IInv, at \in Between
  PROVE  /\ app.ret \in {"serve", "keys", "sync"} \/ Leads(app.ret)
         /\ OpensNothing => frames = <<>> /\ app.flags.start = NoRun
<1>1. app.ret \in Rets
  BY Members DEF App
<1>2. app.ret \in {"serve", "keys", "sync"} \/ Leads(app.ret)
  BY <1>1 DEF Rets, Leads, AfterPoll, IInv, Posted, Stacked
<1>3. OpensNothing => frames = <<>> /\ app.flags.start = NoRun
  BY NoStartLeft DEF IInv, OneTransfer
<1> QED
  BY <1>2, <1>3

LEMMA PickedKeeps == IInv /\ Picked => IInv'
<1> SUFFICES ASSUME IInv, Picked PROVE IInv'
  OBVIOUS
<1>0. app \in App /\ at = "picking" /\ at' = app.ret /\ UNCHANGED frames
  BY Members DEF Picked
<1>1. PICK opens \in BOOLEAN, outcome \in Outcomes, dropped \in BOOLEAN :
        app' = OpenPicked(app, opens, outcome, dropped)
  BY DEF Picked
<1>2. Settles(app, app') /\ Shown(app') /\ app'.flags.start \in {NoRun, app.flags.start}
  BY <1>0, <1>1, PickedOpened DEF Settles, Keeps
<1>3. app.ret \in {"serve", "keys", "sync"} \/ Leads(app.ret)
  BY <1>0, WaitsFor
<1>4. OpensNothing => frames = <<>> /\ app.flags.start = NoRun
  BY <1>0, WaitsFor
<1> QED
  BY <1>0, <1>2, <1>3, <1>4, Lands

LEMMA ProbedKeeps == IInv /\ Probed => IInv'
<1> SUFFICES ASSUME IInv, Probed PROVE IInv'
  OBVIOUS
<1>0. /\ app \in App /\ at = "probing" /\ at' = app.ret /\ UNCHANGED frames
      /\ app.src.url = app.runId + 1 /\ ~FromSource(app) /\ app.address \in AnyPackage
  BY Members DEF Probed, IInv, SourceIsKept, App
<1>1. app.ret \in {"serve", "keys", "sync"} \/ Leads(app.ret)
  BY <1>0, WaitsFor
<1>2. OpensNothing => frames = <<>> /\ app.flags.start = NoRun
  BY <1>0, WaitsFor
<1>3. CASE app' = [app EXCEPT !.src.url = NoRun, !.screen = "Url"]
  <2>1. app' \in App
    <3>1. [app.src EXCEPT !.url = NoRun] \in [file : Nat, url : Nat, upload : Nat]
      BY <1>0 DEF App, NoRun
    <3> QED
      BY <1>0, <1>3, <3>1 DEF App, Screens
  <2>2. /\ app'.page = app.page /\ app'.flags = app.flags /\ app'.reader = app.reader
        /\ app'.run = app.run /\ app'.src.file = app.src.file
        /\ app'.runId = app.runId /\ app'.taskFile = app.taskFile /\ app'.contents = app.contents
        /\ app'.screen = "Url"
    BY <1>0, <1>3 DEF App
  <2>3. Settles(app, app') /\ ~FromSource(app')
    BY <1>0, <2>1, <2>2 DEF Settles, Keeps, Good, Backed, Kept, Fed, HasRun, FromSource
  <2> QED
    BY <1>0, <1>1, <1>2, <2>2, <2>3, Lands DEF Shown
<1>4. ASSUME NEW outcome \in Outcomes, NEW dropped \in BOOLEAN,
             app' = EndOpen(BeginOpen([app EXCEPT !.origin = "Url"], "url", app.address),
                            outcome, dropped)
      PROVE  IInv'
  <2> DEFINE w == [app EXCEPT !.origin = "Url"]
             b == BeginOpen(w, "url", app.address)
  <2>1. w \in App
    BY <1>0 DEF App, Screens
  <2>2. /\ w.page = app.page /\ w.flags = app.flags /\ w.reader = app.reader
        /\ w.run = app.run /\ w.src = app.src
        /\ w.runId = app.runId /\ w.taskFile = app.taskFile /\ w.contents = app.contents
        /\ w.screen = app.screen
    BY <1>0 DEF App
  <2> HIDE DEF w
  <2>3. Settles(app, w)
    BY <2>1, <2>2 DEF Settles, Keeps, Good, Backed, Kept, Fed, HasRun
  <2>4. b \in App /\ Settles(w, b) /\ ~b.run.kept
    BY <1>0, <2>1, <2>2, OpenBegun DEF Settles
  <2>5. app' = EndOpen(b, outcome, dropped)
    BY <1>4 DEF w
  <2> HIDE DEF b
  <2>6. Settles(b, app') /\ Shown(app')
    BY <2>4, <2>5, OpenEnded
  <2>7. Settles(app, app')
    BY <2>3, <2>4, <2>6, SettlesTwice
  <2>8. app'.flags.start \in {NoRun, app.flags.start}
    BY <2>7 DEF Settles, Keeps
  <2> QED
    BY <1>0, <1>1, <1>2, <2>6, <2>7, <2>8, Lands
<1> QED
  BY <1>3, <1>4 DEF Probed

(* The innermost transfer returns to its caller.                             *)
LEMMA Returns ==
  ASSUME IInv, at = "step", NEW w, Settles(app, w), Shown(w), Return(w)
  PROVE  IInv'
<1> DEFINE n == Len(frames)
<1>1. app' = w /\ at' = frames[n].caller /\ frames' = SubSeq(frames, 1, n - 1)
  BY DEF Return
<1>2. n \in Nat /\ n > 0 /\ frames \in Calls
  <2>1. frames \in Calls /\ frames # <<>>
    BY DEF IInv, Stacked
  <2> QED
    BY <2>1, EmptySeq, LenProperties DEF Calls
<1>e. \A i \in 1 .. n : frames[i] \in [run : Nat, caller : {"keys", "sync", "step"}]
  BY <1>2, ElementOfSeq DEF Calls
<1>l. n \in 1 .. n
  BY <1>2
<1>3. at' \in {"keys", "sync", "step"}
  BY <1>1, <1>e, <1>l
<1>4. /\ frames' \in Calls /\ Len(frames') = n - 1
      /\ \A i \in 1 .. n - 1 : frames'[i] = frames[i]
  <2> DEFINE m == n - 1
  <2>1. m \in Int /\ 1 \in Int /\ \A i \in 1 .. m : frames[i] \in [run : Nat, caller : {"keys", "sync", "step"}]
    BY <1>2, <1>e
  <2>2. frames' = SubSeq(frames, 1, m)
    BY <1>1
  <2> HIDE DEF m
  <2>3. /\ frames' \in Calls
        /\ Len(frames') = IF 1 <= m THEN m - 1 + 1 ELSE 0
        /\ \A i \in 1 .. m - 1 + 1 : frames'[i] = frames[1 + i - 1]
    BY <1>2, <2>1, <2>2, SubSeqProperties DEF Calls
  <2>4. m \in Nat /\ m - 1 + 1 = m /\ \A i \in 1 .. m : 1 + i - 1 = i
    BY <1>2 DEF m
  <2>5. Len(frames') = m /\ \A i \in 1 .. m : frames'[i] = frames[i]
    BY <2>3, <2>4
  <2> QED
    BY <2>3, <2>5 DEF m
<1>5. at' = "step" => n > 1
  BY <1>1, <1>2, <1>l DEF IInv, Stacked
<1>6. Stacked'
  <2>1. at' = "step" => frames' # <<>>
    <3>1. frames' = <<>> => Len(frames') = 0
      OBVIOUS
    <3> QED
      BY <1>2, <1>4, <1>5, <3>1
  <2>2. ASSUME NEW i \in 1 .. Len(frames'), frames'[i].caller = "step"
        PROVE  i > 1
    BY <1>2, <1>4, <2>2 DEF IInv, Stacked
  <2> QED
    BY <1>3, <1>4, <2>1, <2>2 DEF Stacked
<1>7. Good(app)' /\ app'.page = app.page /\ app'.flags.start \in {NoRun, app.flags.start}
  BY <1>1 DEF IInv, Settles, Keeps, Good
<1>8. SourceIsKept' /\ Posted'
  BY <1>1, <1>3, <1>7 DEF IInv, SourceIsKept, Shown, Posted, Opening, Settles, Keeps
<1>9. OneTransfer'
  <2>1. OpensNothing => frames' = <<>>
    <3>1. OpensNothing => Len(frames') = 0
      BY <1>2, <1>4 DEF IInv, OneTransfer, Stacked
    <3> QED
      BY <1>4, <3>1, EmptySeq DEF Calls
  <2>2. OpensNothing => app'.flags.start = NoRun
    BY <1>7, NoStartLeft
  <2> QED
    BY <1>3, <1>7, <2>1, <2>2 DEF OneTransfer, OpensNothing
<1> QED
  BY <1>3, <1>6, <1>7, <1>8, <1>9 DEF IInv, Places

LEMMA RunEnds ==
  ASSUME NEW w \in App
  PROVE  Settles(w, [w EXCEPT !.run.stage = "failed"])
<1> DEFINE o == [w.run EXCEPT !.stage = "failed"]
           v == [w EXCEPT !.run = o]
<1>1. /\ o \in Object /\ o.id = w.run.id /\ o.kind = w.run.kind /\ o.pkg = w.run.pkg
      /\ o.kept = w.run.kept /\ o.ph = w.run.ph
  BY DEF App, Object
<1>2. [w EXCEPT !.run.stage = "failed"] = v
  BY DEF App
<1> HIDE DEF o
<1>3. v \in App
  BY <1>1 DEF App
<1>4. /\ v.page = w.page /\ v.flags = w.flags /\ v.reader = w.reader /\ v.run = o
      /\ v.src = w.src /\ v.runId = w.runId /\ v.taskFile = w.taskFile /\ v.contents = w.contents
      /\ v.screen = w.screen
  BY DEF App
<1> HIDE DEF v
<1>5. Settles(w, v)
  BY <1>1, <1>3, <1>4 DEF Settles, Keeps, Good, Backed, Kept, Fed, HasRun
<1> QED
  BY <1>2, <1>5

LEMMA RunIsDone ==
  ASSUME NEW w \in App
  PROVE  Settles(w, RemoveTask([w EXCEPT !.run.stage = "done", !.run.kept = FALSE,
                                         !.contents = @ \ {w.run.ph},
                                         !.reads = @ \ {w.run.id}]))
<1> DEFINE o == [w.run EXCEPT !.stage = "done", !.kept = FALSE]
           c == w.contents \ {w.run.ph}
           r == w.reads \ {w.run.id}
           u == [w EXCEPT !.run = o, !.contents = c, !.reads = r]
           v == RemoveTask(u)
<1>1. o \in Object /\ o.id = w.run.id /\ o.kind = w.run.kind /\ ~o.kept
  BY DEF App, Object
<1>2. [w EXCEPT !.run.stage = "done", !.run.kept = FALSE, !.contents = @ \ {w.run.ph},
                !.reads = @ \ {w.run.id}] = u
  BY DEF App, Object
<1>3. c \in SUBSET Nat /\ r \in SUBSET Nat
  BY DEF App
<1> HIDE DEF o, c, r
<1>4. /\ u \in App /\ u.page = w.page /\ u.flags = w.flags /\ u.reader = w.reader /\ u.run = o
      /\ u.src = w.src /\ u.runId = w.runId
  BY <1>1, <1>3 DEF App
<1> HIDE DEF u
<1>5. /\ v \in App /\ v.page = w.page /\ v.flags = w.flags /\ v.reader = w.reader /\ v.run = o
      /\ v.src = w.src /\ v.runId = w.runId /\ (v.taskFile = NoTask \/ v.taskFile.stuck)
  BY <1>4, TaskRemoved
<1> HIDE DEF v
<1>6. Settles(w, v)
  BY <1>1, <1>5 DEF Settles, Keeps, Good, Backed, Kept, Fed, HasRun
<1> QED
  BY <1>2, <1>6 DEF v

(* The end of a transfer, as all its ends have it.                            *)
LEMMA ResultShown ==
  ASSUME NEW w \in App
  PROVE  LET a == [RefreshPendingTask(ReleaseUploadSource(w)) EXCEPT !.screen = "Result"]
             b == ReleaseUploadSource([RefreshPendingTask(w) EXCEPT !.screen = "Result"])
         IN  Settles(w, a) /\ Shown(a) /\ Settles(w, b) /\ Shown(b)
<1>0. "Result" \in Screens /\ "Result" \in UnderWay
  BY DEF Screens, UnderWay
<1>1. /\ ReleaseUploadSource(w) \in App /\ Settles(w, ReleaseUploadSource(w))
      /\ RefreshPendingTask(w) \in App /\ Settles(w, RefreshPendingTask(w))
  BY UploadSourceReleased, TaskRefreshed DEF Settles
<1> DEFINE u == ReleaseUploadSource(w)
           t == RefreshPendingTask(w)
           tu == RefreshPendingTask(u)
           a == [tu EXCEPT !.screen = "Result"]
           s == [t EXCEPT !.screen = "Result"]
           b == ReleaseUploadSource(s)
<1>2. u \in App /\ t \in App /\ Settles(w, u) /\ Settles(w, t)
  BY <1>1
<1> HIDE DEF u, t
<1>3. tu \in App /\ Settles(u, tu)
  BY <1>2, TaskRefreshed DEF Settles
<1> HIDE DEF tu
<1>4. Settles(tu, a) /\ a.screen = "Result"
  BY <1>0, <1>3, ScreenSet
<1>5. s \in App /\ Settles(t, s) /\ s.screen = "Result"
  BY <1>0, <1>2, ScreenSet DEF Settles
<1> HIDE DEF a, s
<1>6. Settles(s, b) /\ b.screen = "Result"
  BY <1>5, UploadSourceReleased
<1> HIDE DEF b
<1>7. Settles(w, a) /\ Settles(w, b) /\ Shown(a) /\ Shown(b)
  BY <1>0, <1>2, <1>3, <1>4, <1>5, <1>6, SettlesTwice DEF Shown
<1> QED
  BY <1>7 DEF a, b, s, tu, u, t

LEMMA TransferKeeps == IInv /\ TransferNext => IInv'
<1> SUFFICES ASSUME IInv, TransferNext PROVE IInv'
  OBVIOUS
<1>0. app \in App
  BY Members
<1>1. CASE StepGoesOn
  <2>1. at = "step" /\ at' = "serve" /\ UNCHANGED <<frames, app>>
    BY <1>1 DEF StepGoesOn, Transferring
  <2>2. OpensNothing => app.flags.start = NoRun
    BY <2>1, NoStartLeft
  <2>3. OpensNothing' <=> OpensNothing
    BY <2>1 DEF OpensNothing
  <2>4. Good(app)' /\ SourceIsKept' /\ Posted' /\ Stacked'
    BY <2>1 DEF IInv, Good, Backed, Kept, Fed, HasRun, SourceIsKept, FromSource, Posted, Opening, Stacked
  <2>5. OneTransfer'
    BY <2>1, <2>2, <2>3 DEF IInv, OneTransfer
  <2> QED
    BY <2>1, <2>4, <2>5 DEF IInv, Places
<1>2. CASE StepFails
  <2> DEFINE f == [app EXCEPT !.run.stage = "failed"]
             w == CleanupAfterFailure(f)
  <2>1. /\ at = "step"
        /\ Return([RefreshPendingTask(ReleaseUploadSource(w)) EXCEPT !.screen = "Result"])
    BY <1>2 DEF StepFails, Transferring
  <2>2. f \in App /\ Settles(app, f)
    BY <1>0, RunEnds DEF Settles
  <2> HIDE DEF f
  <2>3. w \in App /\ Settles(app, w)
    BY <2>2, CleanedUp, SettlesTwice DEF Settles
  <2> HIDE DEF w
  <2> QED
    BY <2>1, <2>3, ResultShown, Returns, SettlesTwice
<1>3. CASE StepFinishes
  <2>1. at = "step"
    BY <1>3 DEF StepFinishes, Transferring
  <2> DEFINE d == RemoveTask([app EXCEPT !.run.stage = "done", !.run.kept = FALSE,
                                         !.contents = @ \ {app.run.ph},
                                         !.reads = @ \ {app.run.id}])
             f == [app EXCEPT !.run.stage = "failed"]
             g == Abandon(f)
  <2>2. \/ Return(ReleaseUploadSource([RefreshPendingTask(d) EXCEPT !.screen = "Result"]))
        \/ Return(ReleaseUploadSource([RefreshPendingTask(g) EXCEPT !.screen = "Result"]))
    BY <1>3 DEF StepFinishes
  <2>3. d \in App /\ Settles(app, d)
    BY <1>0, RunIsDone DEF Settles
  <2>4. f \in App /\ Settles(app, f)
    BY <1>0, RunEnds DEF Settles
  <2> HIDE DEF d, f
  <2>5. g \in App /\ Settles(app, g)
    BY <2>4, Abandoned, SettlesTwice DEF Settles
  <2> HIDE DEF g
  <2> QED
    BY <2>1, <2>2, <2>3, <2>5, ResultShown, Returns, SettlesTwice
<1>4. CASE StepOnNothing
  <2>1. at = "step" /\ app.run.stage # "transfer" /\ at' = "crashed" /\ UNCHANGED <<frames, app>>
    BY <1>4 DEF StepOnNothing
  <2>2. ~OpensNothing
    BY <2>1 DEF IInv, OneTransfer, Stacked
  <2>3. OpensNothing' <=> OpensNothing
    BY <2>1 DEF OpensNothing
  <2>4. Good(app)' /\ SourceIsKept' /\ Posted' /\ Stacked'
    BY <2>1 DEF IInv, Good, Backed, Kept, Fed, HasRun, SourceIsKept, FromSource, Posted, Opening, Stacked
  <2> QED
    BY <2>1, <2>2, <2>3, <2>4 DEF IInv, OneTransfer, Places
<1>5. CASE Crashed
  BY <1>5 DEF Crashed, vars, IInv, Good, Backed, Kept, Fed, HasRun, SourceIsKept, FromSource, Posted,
              Opening, Stacked, OneTransfer, OpensNothing
<1> QED
  BY <1>1, <1>2, <1>3, <1>4, <1>5 DEF TransferNext

(* The thread goes on reading, or waiting: it is the run's all the time.      *)
LEMMA ReaderKeeps == IInv /\ ReaderNext => IInv'
<1> SUFFICES ASSUME IInv, ReaderNext PROVE IInv'
  OBVIOUS
<1>0. app \in App /\ app.reader \in Thread
  BY Members DEF App
<1>1. PICK next \in {"reading", "waiting", "done"} :
        /\ app' = [app EXCEPT !.reader.doing = next] /\ app.reader.doing \in {"reading", "waiting"}
        /\ UNCHANGED <<at, frames>>
  BY DEF ReaderNext
<1> DEFINE t == [app.reader EXCEPT !.doing = next]
<1>2. t \in Thread /\ t.id = app.reader.id /\ t.kind = app.reader.kind
  BY <1>0 DEF Thread
<1>3. app' = [app EXCEPT !.reader = t]
  BY <1>0, <1>1 DEF App
<1> HIDE DEF t
<1>4. /\ app'.page = app.page /\ app'.flags = app.flags /\ app'.reader = t /\ app'.run = app.run
      /\ app'.src = app.src /\ app'.runId = app.runId /\ app'.taskFile = app.taskFile
      /\ app'.contents = app.contents /\ app'.screen = app.screen /\ app'.ret = app.ret
      /\ app'.listening = app.listening /\ app' \in App
  BY <1>0, <1>2, <1>3 DEF App
<1>5. Good(app)'
  BY <1>1, <1>2, <1>4 DEF IInv, Good, Backed, Kept, Fed, HasRun
<1>6. SourceIsKept' /\ Posted' /\ Stacked'
  BY <1>1, <1>4 DEF IInv, SourceIsKept, FromSource, HasRun, Posted, Opening, Stacked
<1>7. OneTransfer'
  BY <1>1, <1>4 DEF IInv, OneTransfer, OpensNothing
<1> QED
  BY <1>1, <1>5, <1>6, <1>7 DEF IInv

(* The card turns: nothing is removed by that.                                *)
LEMMA CardKeeps == IInv /\ CardTurns => IInv'
<1> SUFFICES ASSUME IInv, CardTurns PROVE IInv'
  OBVIOUS
<1>0. app \in App
  BY Members
<1>1. app' = [app EXCEPT !.removes = ~@] /\ UNCHANGED <<at, frames>>
  BY DEF CardTurns
<1>4. /\ app'.page = app.page /\ app'.flags = app.flags /\ app'.reader = app.reader
      /\ app'.run = app.run
      /\ app'.src = app.src /\ app'.runId = app.runId /\ app'.taskFile = app.taskFile
      /\ app'.contents = app.contents /\ app'.screen = app.screen /\ app'.ret = app.ret
      /\ app'.listening = app.listening /\ app' \in App
  BY <1>0, <1>1 DEF App
<1>5. Good(app)'
  BY <1>4 DEF IInv, Good, Backed, Kept, Fed, HasRun
<1>6. SourceIsKept' /\ Posted' /\ Stacked'
  BY <1>1, <1>4 DEF IInv, SourceIsKept, FromSource, HasRun, Posted, Opening, Stacked
<1>7. OneTransfer'
  BY <1>1, <1>4 DEF IInv, OneTransfer, OpensNothing
<1> QED
  BY <1>1, <1>5, <1>6, <1>7 DEF IInv

(* Members that differ only in what a key sets and no run depends on.           *)
Alike(w, v) ==
  /\ v \in App /\ v.page = w.page /\ v.flags = w.flags /\ v.reader = w.reader /\ v.run = w.run
  /\ v.src = w.src /\ v.runId = w.runId /\ v.taskFile = w.taskFile /\ v.contents = w.contents
  /\ v.screen = w.screen \/ v.screen \notin {"Home", "Pending"} \/ ~w.run.kept

LEMMA Chosen ==
  ASSUME NEW w, NEW v, Alike(w, v)
  PROVE  Settles(w, v) /\ SameRun(w, v)
BY DEF Alike, Settles, SameRun, Keeps, Good, Backed, Kept, Fed, HasRun

(* A key that has done its work leads to the end of the frame.                *)
LEMMA KeyDone ==
  ASSUME IInv, at = "keys", at' = "sync", UNCHANGED frames, Settles(app, app'), Shown(app')
  PROVE  IInv'
<1>1. OpensNothing => frames = <<>> /\ app.flags.start = NoRun
  BY NoStartLeft DEF IInv, OneTransfer
<1>2. app'.flags.start \in {NoRun, app.flags.start}
  BY DEF Settles, Keeps
<1> QED
  BY <1>1, <1>2, Lands

(* A screen without a run from an address leads to another.                   *)
LEMMA NoSource ==
  ASSUME Shown(app), app.screen \notin UnderWay, NEW w, SameRun(app, w), Settles(app, w)
  PROVE  ~FromSource(w) /\ Shown(w)
BY DEF Shown, FromSource, HasRun, SameRun, Settles, Keeps

LEMMA SimpleKeysKeep ==
  IInv /\ (NoKey \/ OpenGameInstall \/ PickSource \/ GiveUpPending \/ PickNew) => IInv'
<1> SUFFICES ASSUME IInv, NoKey \/ OpenGameInstall \/ PickSource \/ GiveUpPending \/ PickNew
             PROVE  IInv'
  OBVIOUS
<1>0. app \in App /\ Shown(app)
  BY Members
<1>1. CASE NoKey
  <2>1. Settles(app, app') /\ Shown(app')
    BY <1>0, <1>1 DEF NoKey, Settles, Keeps
  <2> QED
    BY <1>1, <2>1, KeyDone DEF NoKey
<1>2. CASE OpenGameInstall
  <2> DEFINE w == RefreshPendingTask(app)
             s == IF w.have THEN "Pending" ELSE "Choose"
  <2>1. /\ at = "keys" /\ app.screen = "Home" /\ at' = "sync" /\ UNCHANGED frames
        /\ app' = [w EXCEPT !.screen = s, !.origin = "Choose"]
    BY <1>2 DEF OpenGameInstall, Key
  <2>2. w \in App /\ Settles(app, w) /\ SameRun(app, w)
    BY <1>0, TaskRefreshed DEF Settles
  <2>3. s \in Screens /\ "Choose" \in Screens
    BY DEF Screens
  <2> HIDE DEF w, s
  <2>k. ~w.run.kept
    BY <2>1, <2>2 DEF IInv, Good, Kept, SameRun
  <2>4. Alike(w, app')
    BY <2>1, <2>2, <2>3, <2>k DEF App, Alike
  <2>5. Settles(w, app') /\ SameRun(w, app')
    BY <2>4, Chosen
  <2>6. Settles(app, app') /\ SameRun(app, app')
    BY <2>2, <2>5, SettlesTwice DEF SameRun
  <2>7. Shown(app')
    BY <1>0, <2>1, <2>6, NoSource DEF UnderWay
  <2> QED
    BY <2>1, <2>6, <2>7, KeyDone
<1>3. CASE PickSource
  <2>1. /\ at = "keys" /\ app.screen = "Choose" /\ at' = "sync" /\ UNCHANGED frames
        /\ \/ app' = [app EXCEPT !.screen = "Files"]
           \/ app' = [app EXCEPT !.screen = "Url", !.origin = "Url"]
           \/ app' = [app EXCEPT !.screen = "Upload", !.origin = "Upload"]
    BY <1>3 DEF PickSource, Key
  <2>2. Alike(app, app')
    <3>1. "Files" \in Screens /\ "Url" \in Screens /\ "Upload" \in Screens
      BY DEF Screens
    <3>2. CASE app' = [app EXCEPT !.screen = "Files"]
      BY <1>0, <3>1, <3>2 DEF App, Alike
    <3>3. CASE app' = [app EXCEPT !.screen = "Url", !.origin = "Url"]
      BY <1>0, <3>1, <3>3 DEF App, Alike
    <3>4. CASE app' = [app EXCEPT !.screen = "Upload", !.origin = "Upload"]
      BY <1>0, <3>1, <3>4 DEF App, Alike
    <3> QED
      BY <2>1, <3>2, <3>3, <3>4
  <2>4. Settles(app, app') /\ SameRun(app, app')
    BY <2>2, Chosen
  <2>5. Shown(app')
    BY <1>0, <2>1, <2>4, NoSource DEF UnderWay
  <2> QED
    BY <2>1, <2>4, <2>5, KeyDone
<1>4. CASE GiveUpPending
  <2>1. /\ at = "keys" /\ app.screen = "Pending" /\ at' = "sync" /\ UNCHANGED frames
        /\ \E dropped \in BOOLEAN : app' = AbandonPendingInstall(app, dropped)
    BY <1>4 DEF GiveUpPending, Key
  <2>k. ~app.run.kept
    BY <2>1 DEF IInv, Good, Kept
  <2>2. Settles(app, app') /\ SameRun(app, app')
    BY <1>0, <2>1, <2>k, PendingAbandoned
  <2>3. Shown(app')
    BY <1>0, <2>1, <2>2, NoSource DEF UnderWay
  <2> QED
    BY <2>1, <2>2, <2>3, KeyDone
<1>5. CASE PickNew
  <2>1. /\ at = "keys" /\ app.screen = "Pending" /\ at' = "sync" /\ UNCHANGED frames
        /\ app' = [app EXCEPT !.screen = "Choose"]
    BY <1>5 DEF PickNew, Key
  <2>2. Settles(app, app') /\ SameRun(app, app')
    BY <1>0, <2>1, ScreenSet, "Choose" \in Screens DEF Screens
  <2>3. Shown(app')
    BY <1>0, <2>1, <2>2, NoSource DEF UnderWay
  <2> QED
    BY <2>1, <2>2, <2>3, KeyDone
<1> QED
  BY <1>1, <1>2, <1>3, <1>4, <1>5

LEMMA OpeningKeysKeep ==
  IInv /\ (PickFile \/ StartDownload \/ ResumePendingInstall) => IInv'
<1> SUFFICES ASSUME IInv, PickFile \/ StartDownload \/ ResumePendingInstall
             PROVE  IInv'
  OBVIOUS
<1>0. app \in App /\ Shown(app)
  BY Members
<1>s. /\ app.screen \in Screens /\ app.origin \in Screens /\ app.picked \in AnyPackage
      /\ app.listening \in BOOLEAN /\ app.drives \in BOOLEAN
      /\ app.pending.pkg \in AnyPackage
  BY <1>0 DEF App, Task
<1>n. at = "keys" /\ OpensNothing => frames = <<>> /\ app.flags.start = NoRun
  BY NoStartLeft DEF IInv, OneTransfer
<1>1. ASSUME NEW w \in App, Settles(app, w), SameRun(app, w), app.screen \notin UnderWay,
             app' = OpenPickedPackage(w, "sync"),
             at = "keys", at' = "picking", UNCHANGED frames
      PROVE  IInv'
  <2>1. ~FromSource(w)
    BY <1>0, <1>1, NoSource
  <2>2. OpensNothing => w.flags.start = NoRun
    BY <1>1, <1>n DEF Settles, Keeps
  <2>3. "sync" \in Rets
    BY DEF Rets
  <2> QED
    BY <1>1, <1>n, <2>1, <2>2, <2>3, Picks
<1>2. ASSUME NEW w \in App, Settles(app, w), SameRun(app, w), app.screen \notin UnderWay,
             NEW pkg \in AnyPackage, app' = OpenDownloadPackage(w, pkg, "sync"),
             at = "keys", at' = "probing", UNCHANGED frames
      PROVE  IInv'
  <2>1. ~FromSource(w)
    BY <1>0, <1>2, NoSource
  <2>2. OpensNothing => w.flags.start = NoRun
    BY <1>2, <1>n DEF Settles, Keeps
  <2>3. "sync" \in Rets
    BY DEF Rets
  <2> QED
    BY <1>2, <1>n, <2>1, <2>2, <2>3, Probes
<1>3. CASE PickFile
  <2>1. PICK pkg \in Packages :
          app' = OpenPickedPackage([app EXCEPT !.picked = pkg, !.drives = FALSE], "sync")
    BY <1>3 DEF PickFile
  <2> DEFINE w == [app EXCEPT !.picked = pkg, !.drives = FALSE]
  <2>3. pkg \in AnyPackage
    BY DEF AnyPackage
  <2>2. Alike(app, w)
    BY <1>0, <2>3 DEF App, Alike
  <2> HIDE DEF w
  <2>4. w \in App /\ Settles(app, w) /\ SameRun(app, w)
    BY <2>2, Chosen DEF Settles
  <2> QED
    BY <1>1, <1>3, <2>1, <2>4 DEF PickFile, Key, UnderWay, w
<1>4. CASE StartDownload
  <2>1. PICK pkg \in Packages :
          app' = OpenDownloadPackage([app EXCEPT !.drives = FALSE], pkg, "sync")
    BY <1>4 DEF StartDownload
  <2>2. [app EXCEPT !.drives = FALSE] \in App /\ Settles(app, [app EXCEPT !.drives = FALSE])
          /\ SameRun(app, [app EXCEPT !.drives = FALSE])
    BY <1>0, DrivesSet DEF Settles
  <2>3. pkg \in AnyPackage
    BY DEF AnyPackage
  <2> QED
    BY <1>2, <1>4, <2>1, <2>2, <2>3 DEF StartDownload, Key, UnderWay
<1>5. CASE ResumePendingInstall
  <2> DEFINE w == [app EXCEPT !.resume = TRUE]
             pkg == app.pending.pkg
  <2>1. w \in App /\ Settles(app, w) /\ SameRun(app, w)
    BY <1>0, ResumeSet DEF Settles
  <2>2. at = "keys" /\ app.screen = "Pending" /\ UNCHANGED frames
    BY <1>5 DEF ResumePendingInstall, Key
  <2>3. CASE app.pending.kind = "file"
    <3>1. app' = OpenPickedPackage([w EXCEPT !.picked = pkg], "sync") /\ at' = "picking"
      BY <1>5, <2>3 DEF ResumePendingInstall
    <3> DEFINE x == [w EXCEPT !.picked = pkg]
    <3>2. Alike(w, x)
      <4> HIDE DEF w
      <4> QED
        BY <1>s, <2>1 DEF App, Alike
    <3> HIDE DEF w, x
    <3>3. x \in App /\ Settles(w, x) /\ SameRun(w, x)
      BY <3>2, Chosen DEF Settles
    <3>4. Settles(app, x) /\ SameRun(app, x)
      BY <2>1, <3>3, SettlesTwice DEF SameRun
    <3>5. app' = OpenPickedPackage(x, "sync")
      BY <3>1 DEF x
    <3> QED
      BY <1>1, <2>2, <3>1, <3>3, <3>4, <3>5 DEF UnderWay
  <2>4. CASE app.pending.kind = "url"
    <3>1. app' = OpenDownloadPackage(w, pkg, "sync") /\ at' = "probing"
      BY <1>5, <2>4 DEF ResumePendingInstall
    <3> HIDE DEF w
    <3> QED
      BY <1>2, <1>s, <2>1, <2>2, <3>1 DEF UnderWay
  <2>5. CASE app.pending.kind \notin {"file", "url"}
    <3> DEFINE r == [app EXCEPT !.resume = FALSE]
    <3>1. app' = [r EXCEPT !.screen = "Upload"] /\ at' = "sync"
      BY <1>5, <2>5 DEF ResumePendingInstall
    <3>2. r \in App /\ Settles(app, r) /\ SameRun(app, r)
      BY <1>0, ResumeSet DEF Settles
    <3> HIDE DEF r
    <3>3. Settles(r, app') /\ SameRun(r, app')
      BY <3>1, <3>2, ScreenSet, "Upload" \in Screens DEF Screens
    <3>4. Settles(app, app') /\ SameRun(app, app')
      BY <3>2, <3>3, SettlesTwice DEF SameRun
    <3>5. Shown(app')
      BY <1>0, <2>2, <3>4, NoSource DEF UnderWay
    <3> QED
      BY <2>2, <3>1, <3>4, <3>5, KeyDone
  <2> QED
    BY <2>3, <2>4, <2>5
<1> QED
  BY <1>3, <1>4, <1>5

LEMMA RunKeysKeep == IInv /\ (PressStart \/ PressBack \/ PressTarget) => IInv'
<1> SUFFICES ASSUME IInv, PressStart \/ PressBack \/ PressTarget
             PROVE  IInv'
  OBVIOUS
<1>0. app \in App /\ Shown(app) /\ Settles(app, app) /\ SameRun(app, app)
  BY Members DEF Settles, SameRun, Keeps
<1>n. at = "keys" /\ OpensNothing => frames = <<>> /\ app.flags.start = NoRun
  BY NoStartLeft DEF IInv, OneTransfer
<1>1. CASE PressStart
  <2>1. at = "keys" /\ HasRun(app) /\ RunGameInstall(app, "sync")
    BY <1>1 DEF PressStart
  <2> QED
    BY <1>0, <1>n, <2>1, TransferStarts
<1>2. CASE PressBack
  <2>1. Settles(app, app') /\ Shown(app')
    BY <1>0, <1>2, SteppedBack DEF PressBack
  <2> QED
    BY <1>2, <2>1, KeyDone DEF PressBack
<1>3. CASE PressTarget
  <2>1. "sync" \in Rets
    BY DEF Rets
  <2> QED
    BY <1>0, <1>3, <2>1, TargetSet DEF PressTarget
<1> QED
  BY <1>1, <1>2, <1>3

LEMMA SyncKeeps == IInv /\ Sync => IInv'
<1> SUFFICES ASSUME IInv, Sync PROVE IInv'
  OBVIOUS
<1>0. app \in App /\ Shown(app)
  BY Members
<1>1. at = "sync" /\ at' = "serve" /\ UNCHANGED frames
  BY DEF Sync
<1>n. OpensNothing => frames = <<>> /\ app.flags.start = NoRun
  BY <1>1, NoStartLeft DEF IInv, OneTransfer
<1>2. Settles(app, app') /\ SameRun(app, app') /\ app'.screen = app.screen
  <2>1. CASE app' = StopInstallerServer(app)
    BY <1>0, <2>1, ServerStopped
  <2>2. CASE app' = [app EXCEPT !.listening = TRUE]
    <3>1. Alike(app, app') /\ app'.screen = app.screen
      BY <1>0, <2>2 DEF App, Alike
    <3> QED
      BY <3>1, Chosen
  <2> QED
    BY <2>1, <2>2 DEF Sync
<1>3. Shown(app') /\ app'.flags.start \in {NoRun, app.flags.start}
  BY <1>0, <1>2 DEF Shown, FromSource, HasRun, SameRun, Settles, Keeps
<1> QED
  BY <1>1, <1>2, <1>3, <1>n, Lands

LEMMA InvariantIsKept == IInv /\ [Next]_vars => IInv'
<1> SUFFICES ASSUME IInv, [Next]_vars PROVE IInv'
  OBVIOUS
<1>1. CASE UNCHANGED vars
  BY <1>1 DEF vars, IInv, Good, Backed, Kept, Fed, HasRun, SourceIsKept, FromSource, Posted,
              Opening, Stacked, OneTransfer, OpensNothing
<1>2. CASE PollNext
  BY <1>2, ServeEndsKeeps, StartKeeps, BackKeeps, TargetKeeps, UploadKeeps, PreparedKeeps,
     UrlKeeps, ProbedKeeps, PickedKeeps DEF PollNext
<1>3. CASE KeyNext
  BY <1>3, SimpleKeysKeep, OpeningKeysKeep, RunKeysKeep DEF KeyNext
<1> QED
  BY <1>1, <1>2, <1>3, RequestsKeep, TransferKeeps, ReaderKeeps, SyncKeeps, CardKeeps DEF Next

-----------------------------------------------------------------------------
(* Theorems. *)

(* The installer's members, whatever keys and requests come in which order.    *)
THEOREM InstallInvariant == Spec => []IInv
<1> QED
  BY InitEstablishes, InvariantIsKept, PTL DEF Spec

(* Abandon, CleanupAfterFailure, Finish and giving up a pending install: while  *)
(* there is a task file that nobody tried to remove, the placeholder it would   *)
(* resume into is there.  Of a file the card did not let go it says nothing.    *)
THEOREM TaskFileIsAlwaysBacked == Spec => []TaskFileIsBacked
<1>1. IInv => TaskFileIsBacked
  BY DEF IInv, Good, Backed, TaskFileIsBacked
<1> QED
  BY <1>1, InstallInvariant, PTL

(* A thread that reads from a file or from an address has that source for as    *)
(* long as it reads, whatever screens the player and the page go through and    *)
(* although OpenPickedPackage frees sources before the thread is joined --      *)
(* provided the page posts no address of its own.  An upload is not covered.    *)
THEOREM ReadersHaveTheirSource == Spec => []SourceOutlivesReader
<1>1. IInv => SourceOutlivesReader
  BY DEF IInv, Good, Fed, SourceOutlivesReader, App, Object, AnyKind, None
<1> QED
  BY <1>1, InstallInvariant, PTL

(* The object a transfer steps is the one it began with, as long as the page   *)
(* opens nothing: no key, no request and no return from a nested loop replaces *)
(* it.                                                                        *)
THEOREM TransfersKeepTheirRun == Spec => []TransferKeepsItsRun
<1>1. IInv => TransferKeepsItsRun
  BY DEF IInv, OneTransfer, TransferKeepsItsRun
<1> QED
  BY <1>1, InstallInvariant, PTL

(* A run whose placeholders LeaveInstallScreen spares, because it keeps a task, *)
(* is the one the task file describes, placeholder and all -- whatever became   *)
(* of earlier tasks, of the files the card would not let go, and of the page.   *)
THEOREM KeptRunsAreOnFile == Spec => []KeptIsOnFile
<1>1. IInv => KeptIsOnFile
  BY DEF IInv, Good, Kept, KeptIsOnFile
<1> QED
  BY <1>1, InstallInvariant, PTL
=============================================================================
