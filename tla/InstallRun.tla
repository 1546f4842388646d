----------------------------- MODULE InstallRun -----------------------------
(***************************************************************************)
(* Who owns a run: the installer's screens, the browser page's requests and *)
(* the objects behind them (ui/app.cpp).  The app keeps one GameInstall,    *)
(* one source of each kind and the task file's copy in memory; the player's *)
(* keys and the page's requests replace them, and the fetch thread of the   *)
(* run in hand reads from its source all the while.  What moves inside a    *)
(* run is GameTransfer's subject: here a run is its number, its package and *)
(* the placeholders it owes the console.                                    *)
(*                                                                         *)
(* The UI thread is one frame loop: serve the page, act on what it asked    *)
(* for, handle one key, bring the server in line with the screen.  A        *)
(* transfer is a call that does not return to that loop; it serves the page *)
(* from a loop of its own, so calls can nest ("frames").                    *)
(***************************************************************************)
EXTENDS Integers, Sequences, FiniteSets

CONSTANTS
  Packages,   \* the packages there are to install
  Kinds,      \* where they come from: a subset of {"file", "url", "upload"}
  Pages,      \* the pages a browser may have open, each a set of the requests it
              \* posts: start, back, target, upload, url
  MaxRuns     \* bound: packages opened

None == "none"
NoRun == 0
NoTask == [pkg |-> None, kind |-> None, ph |-> 0, stuck |-> FALSE]

ASSUME ConfigurationAssumption ==
  /\ None \notin Packages
  /\ Kinds \subseteq {"file", "url", "upload"}
  /\ Pages \subseteq SUBSET {"start", "back", "target", "upload", "url"}
  /\ MaxRuns \in Nat

VARIABLES
  at,     \* where the UI thread is in its loop
  frames, \* the transfers on its stack: the run each began with, and its caller
  app     \* the members, see Init

vars == <<at, frames, app>>

NoReader == [id |-> NoRun, kind |-> None, doing |-> "gone"]
NoObject == [id |-> NoRun, pkg |-> None, kind |-> None, stage |-> "none",
             kept |-> FALSE, ph |-> 0, adopted |-> 0]
NoFlags == [start |-> NoRun, back |-> FALSE, target |-> FALSE, upload |-> None, url |-> None]
NoSources == [file |-> NoRun, url |-> NoRun, upload |-> NoRun]

Init ==
  /\ at = "serve"
  /\ frames = <<>>
  /\ app \in
      {[page |-> page,
            screen |-> "Home", origin |-> "Choose", drives |-> FALSE, listening |-> FALSE,
            runId |-> NoRun, run |-> NoObject, reader |-> NoReader, src |-> NoSources,
            flags |-> NoFlags, picked |-> None, address |-> None, ret |-> "keys",
            have |-> FALSE, pending |-> NoTask, resume |-> FALSE, removes |-> TRUE,
            taskFile |-> NoTask, contents |-> {}, reads |-> {}] : page \in Pages}

HasRun(w) == w.run.id # NoRun

(* The bound: every open that was asked for still has a number. *)
Asked(w) ==
  Cardinality({f \in {"upload", "url"} : w.flags[f] # None})
    + (IF w.flags.target THEN 1 ELSE 0)
HasNumber(w) == w.runId + Asked(w) < MaxRuns

-----------------------------------------------------------------------------
(* What the app does to its members, one operator to a method: each takes   *)
(* the members as they are and gives them as the method leaves them.        *)

(* ~GameInstall joins the fetch thread. *)
DestroyRun(w) == [w EXCEPT !.run = NoObject, !.reader = NoReader]

CleanupAfterFailure(w) == [w EXCEPT !.reads = @ \ {w.run.id}]

(* RemoveFileIfPresent on the task file.  The card may refuse (removes); the *)
(* member stuck is history: somebody tried to remove this very file.         *)
RemoveTask(w) ==
  IF w.removes \/ w.taskFile = NoTask
    THEN [w EXCEPT !.taskFile = NoTask]
    ELSE [w EXCEPT !.taskFile.stuck = TRUE]

(* Mutant: a run that is given up leaves its task file. *)
AbandonKeepsTask(w) ==
  [w EXCEPT !.contents = @ \ {w.run.ph}, !.reads = @ \ {w.run.id}, !.run.kept = FALSE]

(* The placeholders go first; then RemoveTask, whose failure is only logged. *)
Abandon(w) ==
  RemoveTask([w EXCEPT !.contents = @ \ {w.run.ph}, !.reads = @ \ {w.run.id},
                       !.run.kept = FALSE])

(* The task file, read again.  A file that is gone leaves the copy behind. *)
RefreshPendingTask(w) ==
  [w EXCEPT !.have = w.taskFile # NoTask,
            !.pending = IF w.taskFile # NoTask THEN w.taskFile ELSE @]

ReleaseUploadSource(w) ==
  IF w.src.upload = NoRun THEN w
  ELSE [w EXCEPT !.src.upload = NoRun, !.flags.upload = None]

(* Mutant: the sources go, the run that reads from them stays. *)
LeaveKeepsRun(w) == [w EXCEPT !.src = NoSources]

LeaveInstallScreen(w) ==
  LET settled == IF ~HasRun(w) THEN w
                 ELSE IF w.run.kept THEN CleanupAfterFailure(w)
                 ELSE IF w.run.stage \notin {"done", "skipped"} THEN Abandon(w)
                 ELSE w
  IN [DestroyRun(settled) EXCEPT !.src = NoSources]

StopInstallerServer(w) ==
  IF w.listening THEN [w EXCEPT !.listening = FALSE, !.flags.url = None] ELSE w

LeaveGameInstall(w) ==
  [LeaveInstallScreen([StopInstallerServer(w) EXCEPT !.drives = FALSE]) EXCEPT !.screen = "Home"]

(* B on the console, Back on the page.  (The built-in package, whose Back     *)
(* leaves the installer, is not among Kinds: m_install_returns_to_launcher.) *)
InstallStepBack(w) ==
  CASE w.screen \in {"Confirm", "Result"} -> [LeaveInstallScreen(w) EXCEPT !.screen = w.origin]
    [] w.screen = "Files" -> [w EXCEPT !.screen = "Choose"]
    [] w.screen \in {"Url", "Upload"} ->
         [w EXCEPT !.src.url = NoRun, !.address = None, !.screen = "Choose"]
    [] w.screen = "Choose" -> LeaveGameInstall(w)
    [] OTHER -> w

(* ncm may refuse to drop the placeholders: then the task stays.  The card    *)
(* may refuse to remove the file: then the placeholders are gone already.    *)
AbandonPendingInstall(w, dropped) ==
  IF ~w.have THEN [w EXCEPT !.screen = "Choose"]
  ELSE LET given == IF dropped
                      THEN RemoveTask([w EXCEPT !.contents = @ \ {w.pending.ph}])
                      ELSE w
           fresh == RefreshPendingTask(given)
       IN [fresh EXCEPT !.screen = IF fresh.have THEN "Pending" ELSE "Choose"]

(* Mutant: the storage may be picked on every screen. *)
SelectableAnywhere(w) == TRUE

InstallTargetSelectable(w) == w.screen \in {"Choose", "Files", "Url", "Upload", "Confirm"}

InstallerServerNeeded(w) ==
  \/ w.screen \in {"Url", "Upload"}
  \/ /\ w.screen \in {"Confirm", "Progress", "Result"}
     /\ w.origin \in {"Url", "Upload"} \/ w.drives

-----------------------------------------------------------------------------
(* OpenPackage: a new number, a new object, Prepare, and what its outcome   *)
(* means for the resume, the source and the screen.                         *)

BeginOpen(w, kind, pkg) ==
  [DestroyRun(w) EXCEPT
     !.runId = @ + 1,
     !.run = [NoObject EXCEPT !.id = w.runId + 1, !.pkg = pkg, !.kind = kind,
                              !.stage = "opening"]]

Outcomes == {"confirm", "skipped", "running", "broken"}

(* Prepare refused the package (a running game, a broken file), and what    *)
(* CleanupAfterFailure and the browser's part in it come to.                *)
OpenFails(w, outcome) ==
  LET dropped == [DestroyRun(w) EXCEPT !.src.upload = NoRun]
  IN [dropped EXCEPT !.screen = IF outcome = "running" THEN w.origin ELSE "Result"]

(* Adopting a resume: the task has to be about this package, and the        *)
(* console still holds the placeholder or it does not.                      *)
Adopt(w) ==
  IF w.resume /\ w.pending.pkg = w.run.pkg /\ w.pending.ph \in w.contents
    THEN [w EXCEPT !.run.adopted = w.pending.ph]
    ELSE w

OpenSucceeds(w) ==
  [Adopt([w EXCEPT !.run.stage = "confirm", !.reads = @ \cup {w.run.id}]) EXCEPT
     !.resume = FALSE, !.screen = "Confirm"]

OpenSkips(w, dropped) ==
  LET opened == [w EXCEPT !.run.stage = "skipped", !.reads = @ \cup {w.run.id}]
      moot == IF w.resume THEN AbandonPendingInstall(opened, dropped) ELSE opened
  IN [ReleaseUploadSource(moot) EXCEPT !.resume = FALSE, !.screen = "Result"]

EndOpen(w, outcome, dropped) ==
  CASE outcome = "confirm" -> OpenSucceeds(w)
    [] outcome = "skipped" -> OpenSkips(w, dropped)
    [] OTHER -> OpenFails(w, outcome)

(* The file the player picked: the sources of earlier runs go first; only     *)
(* then the run that may still read from them is joined ("picking").         *)
OpenPickedPackage(w, ret) ==
  [w EXCEPT !.origin = "Files", !.src.file = NoRun, !.src.url = NoRun, !.ret = ret]

OpenPicked(w, opens, outcome, dropped) ==
  LET fresh == DestroyRun(w)
  IN IF w.picked = None THEN fresh
     ELSE IF ~opens THEN [fresh EXCEPT !.screen = "Result"]
     ELSE EndOpen(BeginOpen([fresh EXCEPT !.src.file = w.runId + 1], "file", w.picked),
                  outcome, dropped)

(* The address: the new source replaces the old one, then the probe goes    *)
(* out over the network ("probing").                                        *)
OpenDownloadPackage(w, pkg, ret) ==
  [w EXCEPT !.address = pkg, !.src.url = w.runId + 1, !.ret = ret]

-----------------------------------------------------------------------------
(* The page's requests, as the server hands them to ServeHttp: while the UI *)
(* thread is in ServiceInstallerPage, from its own loop or from an upload's *)
(* read that is waiting for the browser.                                    *)

Serving == at \in {"serve", "preparing"} /\ app.listening

(* The page quotes the run it is looking at, which may be an old one. *)
PostStart ==
  /\ Serving /\ "start" \in app.page
  /\ app.screen = "Confirm" /\ HasRun(app)
  /\ \E id \in 1 .. app.runId :
       id = app.runId /\ app' = [app EXCEPT !.flags.start = id]
  /\ UNCHANGED <<at, frames>>

PostBack ==
  /\ Serving /\ "back" \in app.page
  /\ app.screen \in {"Confirm", "Result"}
  /\ app' = [app EXCEPT !.flags.back = TRUE]
  /\ UNCHANGED <<at, frames>>

PostTarget ==
  /\ Serving /\ "target" \in app.page
  /\ InstallTargetSelectable(app) /\ HasNumber(app)
  /\ app' = [app EXCEPT !.flags.target = TRUE]
  /\ UNCHANGED <<at, frames>>

PostUpload ==
  /\ Serving /\ "upload" \in app.page
  /\ app.src.upload = NoRun /\ app.flags.upload = None /\ app.screen # "Progress"
  /\ HasNumber(app)
  /\ \E pkg \in Packages : app' = [app EXCEPT !.flags.upload = pkg]
  /\ UNCHANGED <<at, frames>>

PostUrl ==
  /\ Serving /\ "url" \in app.page /\ HasNumber(app)
  /\ \E pkg \in Packages : app' = [app EXCEPT !.flags.url = pkg]
  /\ UNCHANGED <<at, frames>>

-----------------------------------------------------------------------------
(* PollInstallerServer: the flags, in the order it looks at them.  After a   *)
(* start or a back it returns at once.                                       *)

AfterPoll == IF frames = <<>> THEN "keys" ELSE "step"

Following(w, flag) ==
  IF flag = "serve" /\ w.flags.start # NoRun THEN "start"
  ELSE IF flag \in {"serve", "start"} /\ w.flags.back THEN "back"
  ELSE IF flag \in {"serve", "start", "back"} /\ w.flags.target THEN "target"
  ELSE IF flag \in {"serve", "start", "back", "target"} /\ w.flags.upload # None THEN "upload"
  ELSE IF flag # "url" /\ w.flags.url # None THEN "url"
  ELSE AfterPoll

ServeEnds ==
  /\ at = "serve"
  /\ at' = IF app.listening THEN Following(app, "serve") ELSE AfterPoll
  /\ UNCHANGED <<frames, app>>

(* RunGameInstall: Begin, and the transfer's own loop when it works. *)
(* Mutant: the run keeps its task though it could not be written. *)
BeginWorksKept(w, saved) ==
  LET ph == IF w.run.adopted \in w.contents THEN w.run.adopted ELSE w.run.id
  IN [w EXCEPT
        !.screen = "Progress",
        !.contents = @ \cup {ph},
        !.taskFile = IF saved THEN [pkg |-> w.run.pkg, kind |-> w.run.kind, ph |-> ph,
                                    stuck |-> FALSE] ELSE @,
        !.run.kept = TRUE, !.run.ph = ph, !.run.stage = "transfer",
        !.reader = [id |-> w.run.id, kind |-> w.run.kind, doing |-> "reading"]]

BeginWorks(w, saved) ==
  LET ph == IF w.run.adopted \in w.contents THEN w.run.adopted ELSE w.run.id
  IN [w EXCEPT
        !.screen = "Progress",
        !.contents = @ \cup {ph},
        !.taskFile = IF saved THEN [pkg |-> w.run.pkg, kind |-> w.run.kind, ph |-> ph,
                                    stuck |-> FALSE] ELSE @,
        !.run.kept = saved, !.run.ph = ph, !.run.stage = "transfer",
        !.reader = [id |-> w.run.id, kind |-> w.run.kind, doing |-> "reading"]]

BeginFails(w, adoptedToo) ==
  [Abandon(w) EXCEPT
     !.contents = IF adoptedToo THEN @ \ {w.run.adopted} ELSE @,
     !.run.stage = "failed", !.screen = "Result"]

RunGameInstall(w, caller) ==
  \/ \E saved \in BOOLEAN :
       /\ app' = BeginWorks(w, saved)
       /\ frames' = Append(frames, [run |-> w.run.id, caller |-> caller])
       /\ at' = "step"
  \/ \E adoptedToo \in BOOLEAN :
       /\ app' = BeginFails(w, adoptedToo)
       /\ at' = caller
       /\ UNCHANGED frames

ActOnStart ==
  /\ at = "start"
  /\ LET w == [app EXCEPT !.flags.start = NoRun]
     IN IF w.screen = "Confirm" /\ HasRun(w)
          THEN RunGameInstall(w, AfterPoll)
          ELSE app' = w /\ at' = Following(w, "start") /\ UNCHANGED frames

ActOnBack ==
  /\ at = "back"
  /\ LET w == [app EXCEPT !.flags.back = FALSE]
     IN IF w.screen \in {"Confirm", "Result"}
          THEN app' = InstallStepBack(w) /\ at' = AfterPoll
          ELSE app' = w /\ at' = Following(w, "back")
  /\ UNCHANGED frames

(* SetInstallTarget: an open package is dropped and opened again, except an *)
(* upload, whose bytes only the browser has.                                *)
SetInstallTarget(w, next) ==
  /\ UNCHANGED frames
  /\ \/ app' = w /\ at' = next   \* the storage that is selected already
     \/ /\ InstallTargetSelectable(w)
        /\ IF w.src.upload # NoRun
             THEN app' = [LeaveInstallScreen(w) EXCEPT !.screen = "Upload"] /\ at' = next
           ELSE IF HasRun(w) /\ w.src.url # NoRun
             THEN /\ app' = OpenDownloadPackage(LeaveInstallScreen(w), w.address, next)
                  /\ at' = "probing"
           ELSE /\ HasRun(w)
                /\ app' = OpenPickedPackage(LeaveInstallScreen(w), next)
                /\ at' = "picking"

ActOnTarget ==
  /\ at = "target"
  /\ LET w == [app EXCEPT !.flags.target = FALSE]
     IN SetInstallTarget(w, Following(w, "target"))

(* The upload source comes up and Prepare reads through it, serving the     *)
(* page while it waits.  An unfinished upload makes it a resume.            *)
ActOnUpload ==
  /\ at = "upload"
  /\ LET armed == app.have /\ app.pending.kind = "upload"
         w == [app EXCEPT !.flags.upload = None, !.drives = TRUE,
                          !.resume = @ \/ armed, !.src.upload = app.runId + 1]
     IN app' = BeginOpen(w, "upload", app.flags.upload)
  /\ at' = "preparing"
  /\ UNCHANGED frames

UploadPrepared ==
  /\ at = "preparing"
  /\ \E outcome \in Outcomes, dropped \in BOOLEAN :
       LET w == EndOpen(app, outcome, dropped)
       IN app' = w /\ at' = Following(w, "upload")
  /\ UNCHANGED frames

ActOnUrl ==
  /\ at = "url"
  /\ app' = OpenDownloadPackage([app EXCEPT !.flags.url = None, !.drives = TRUE],
                                app.flags.url, AfterPoll)
  /\ at' = "probing"
  /\ UNCHANGED frames

(* The other half of OpenPickedPackage: the join, and the package is opened.  *)
Picked ==
  /\ at = "picking"
  /\ \E opens \in BOOLEAN, outcome \in Outcomes, dropped \in BOOLEAN :
       app' = OpenPicked(app, opens, outcome, dropped)
  /\ at' = app.ret
  /\ UNCHANGED frames

(* The probe's answer: the address screen again, or the package is opened. *)
Probed ==
  /\ at = "probing"
  /\ \/ app' = [app EXCEPT !.src.url = NoRun, !.screen = "Url"]
     \/ \E outcome \in Outcomes, dropped \in BOOLEAN :
          app' = EndOpen(BeginOpen([app EXCEPT !.origin = "Url"], "url", app.address),
                         outcome, dropped)
  /\ at' = app.ret
  /\ UNCHANGED frames

-----------------------------------------------------------------------------
(* The transfer's loop: Step, then the page. *)

(* The innermost RunGameInstall returns. *)
Return(w) ==
  /\ app' = w
  /\ at' = frames[Len(frames)].caller
  /\ frames' = SubSeq(frames, 1, Len(frames) - 1)

Transferring == at = "step" /\ app.run.stage = "transfer"

StepGoesOn ==
  /\ Transferring
  /\ at' = "serve"
  /\ UNCHANGED <<frames, app>>

StepFails ==
  /\ Transferring
  /\ LET w == CleanupAfterFailure([app EXCEPT !.run.stage = "failed"])
     IN Return([RefreshPendingTask(ReleaseUploadSource(w)) EXCEPT !.screen = "Result"])

(* The queue is drained, so the fetch thread is through; Finish files the    *)
(* title and removes the task, or the run is abandoned.                      *)
StepFinishes ==
  /\ Transferring /\ app.reader.doing = "done"
  /\ \/ LET w == RemoveTask([app EXCEPT !.run.stage = "done", !.run.kept = FALSE,
                                        !.contents = @ \ {app.run.ph},
                                        !.reads = @ \ {app.run.id}])
        IN Return(ReleaseUploadSource([RefreshPendingTask(w) EXCEPT !.screen = "Result"]))
     \/ LET w == Abandon([app EXCEPT !.run.stage = "failed"])
        IN Return(ReleaseUploadSource([RefreshPendingTask(w) EXCEPT !.screen = "Result"]))

(* The object in hand is not the one the loop began with: it has no queue to *)
(* take a step on, or there is no object at all.                             *)
StepOnNothing ==
  /\ at = "step" /\ app.run.stage # "transfer"
  /\ at' = "crashed"
  /\ UNCHANGED <<frames, app>>

Crashed == at = "crashed" /\ UNCHANGED vars

(* The card lets files be removed, or it does not. *)
CardTurns ==
  /\ at # "crashed"
  /\ app' = [app EXCEPT !.removes = ~@]
  /\ UNCHANGED <<at, frames>>

(* The fetch thread. *)
ReaderNext ==
  /\ app.reader # NoReader /\ at # "crashed"
  /\ \/ app.reader.doing = "reading"
          /\ \E next \in {"waiting", "done"} : app' = [app EXCEPT !.reader.doing = next]
     \/ app.reader.doing = "waiting" /\ app' = [app EXCEPT !.reader.doing = "reading"]
  /\ UNCHANGED <<at, frames>>

-----------------------------------------------------------------------------
(* The player's keys, one a frame. *)

Key(screen) == at = "keys" /\ app.screen = screen /\ UNCHANGED frames

NoKey == at = "keys" /\ at' = "sync" /\ UNCHANGED <<frames, app>>

OpenGameInstall ==
  /\ Key("Home")
  /\ LET w == RefreshPendingTask(app)
     IN app' = [w EXCEPT !.screen = IF w.have THEN "Pending" ELSE "Choose", !.origin = "Choose"]
  /\ at' = "sync"

PickSource ==
  /\ Key("Choose")
  /\ \/ "file" \in Kinds /\ app' = [app EXCEPT !.screen = "Files"]
     \/ "url" \in Kinds /\ app' = [app EXCEPT !.screen = "Url", !.origin = "Url"]
     \/ "upload" \in Kinds /\ app' = [app EXCEPT !.screen = "Upload", !.origin = "Upload"]
  /\ at' = "sync"

PickFile ==
  /\ Key("Files") /\ HasNumber(app)
  /\ \E pkg \in Packages :
       app' = OpenPickedPackage([app EXCEPT !.picked = pkg, !.drives = FALSE], "sync")
  /\ at' = "picking"

StartDownload ==
  /\ Key("Url") /\ HasNumber(app)
  /\ \E pkg \in Packages :
       app' = OpenDownloadPackage([app EXCEPT !.drives = FALSE], pkg, "sync")
  /\ at' = "probing"

ResumePendingInstall ==
  /\ Key("Pending") /\ HasNumber(app)
  /\ LET w == [app EXCEPT !.resume = TRUE]
         pkg == app.pending.pkg
     IN CASE app.pending.kind = "file" ->
               app' = OpenPickedPackage([w EXCEPT !.picked = pkg], "sync") /\ at' = "picking"
          [] app.pending.kind = "url" ->
               app' = OpenDownloadPackage(w, pkg, "sync") /\ at' = "probing"
          [] OTHER ->
               app' = [app EXCEPT !.resume = FALSE, !.screen = "Upload"] /\ at' = "sync"

GiveUpPending ==
  /\ Key("Pending")
  /\ \E dropped \in BOOLEAN : app' = AbandonPendingInstall(app, dropped)
  /\ at' = "sync"

PickNew ==
  /\ Key("Pending")
  /\ app' = [app EXCEPT !.screen = "Choose"]
  /\ at' = "sync"

PressStart ==
  /\ at = "keys" /\ app.screen = "Confirm" /\ HasRun(app)
  /\ RunGameInstall(app, "sync")

PressBack ==
  /\ at = "keys" /\ app.screen \notin {"Home", "Pending", "Progress"}
  /\ app' = InstallStepBack(app)
  /\ at' = "sync"
  /\ UNCHANGED frames

PressTarget ==
  /\ at = "keys" /\ HasRun(app) /\ HasNumber(app)
  /\ SetInstallTarget(app, "sync")

(* SyncInstallerServer, and the next frame begins. *)
Sync ==
  /\ at = "sync"
  /\ app' = IF InstallerServerNeeded(app) THEN [app EXCEPT !.listening = TRUE]
                                          ELSE StopInstallerServer(app)
  /\ at' = "serve"
  /\ UNCHANGED frames

-----------------------------------------------------------------------------
PageNext == PostStart \/ PostBack \/ PostTarget \/ PostUpload \/ PostUrl

PollNext ==
  ServeEnds \/ ActOnStart \/ ActOnBack \/ ActOnTarget \/ ActOnUpload \/ UploadPrepared
    \/ ActOnUrl \/ Probed \/ Picked

TransferNext == StepGoesOn \/ StepFails \/ StepFinishes \/ StepOnNothing \/ Crashed

KeyNext ==
  NoKey \/ OpenGameInstall \/ PickSource \/ PickFile \/ StartDownload
    \/ ResumePendingInstall \/ GiveUpPending \/ PickNew
    \/ PressStart \/ PressBack \/ PressTarget

Next == PageNext \/ PollNext \/ TransferNext \/ ReaderNext \/ KeyNext \/ Sync \/ CardTurns

Spec == Init /\ [][Next]_vars

-----------------------------------------------------------------------------
(* Properties. *)

RunIds == 0 .. MaxRuns
Screens == {"Home", "Pending", "Choose", "Files", "Url", "Upload", "Confirm",
            "Progress", "Result"}

(* The members stay in their ranges. *)
TypeOK ==
  /\ at \in {"serve", "start", "back", "target", "upload", "preparing", "url", "probing",
             "picking", "keys", "sync", "step", "crashed"}
  /\ frames \in Seq([run : RunIds, caller : {"keys", "sync", "step"}])
  /\ app.screen \in Screens /\ app.origin \in Screens
  /\ app.runId \in RunIds /\ app.run.id \in {NoRun, app.runId}
  /\ app.run.stage \in {"none", "opening", "confirm", "transfer", "failed", "done", "skipped"}
  /\ app.reader.id \in {NoRun, app.run.id}
  /\ \A kind \in {"file", "url", "upload"} : app.src[kind] \in RunIds
  /\ app.contents \subseteq RunIds /\ app.reads \subseteq RunIds
  /\ app.flags.start \in RunIds

(* A page that only works with the package the console opened.  With one that *)
(* opens packages itself, the property below does not hold.                   *)
OpensNothing == app.page \cap {"upload", "url"} = {}

(* The object a transfer's loop steps is the one it began with, whatever the *)
(* page asked for in the meantime.                                           *)
TransferKeepsItsRun ==
  OpensNothing /\ frames # <<>> /\ at # "crashed" =>
    /\ Len(frames) = 1
    /\ app.run.id = frames[1].run

(* A fetch thread that is in its source's Read has a source: the app frees   *)
(* sources and joins threads in different places, sources first when a file   *)
(* is picked.  It does not hold of an upload that failed, nor once the page   *)
(* may post an address: that leaves a run in hand on the source screens.      *)
SourceOutlivesReader ==
  /\ app.reader.doing = "reading"
  /\ app.reader.kind # "upload" /\ "url" \notin app.page
  => app.src[app.reader.kind] = app.reader.id

(* While there is a task file, the placeholders it would resume into exist:  *)
(* every path that drops a run's placeholders also takes its task away -- or  *)
(* tries to, and the card refuses.                                            *)
TaskFileIsBacked ==
  app.taskFile # NoTask /\ ~app.taskFile.stuck => app.taskFile.ph \in app.contents

(* A run that "keeps its task" is spared when the player leaves it, its       *)
(* placeholders and all.  The task file is then this run's, and names the     *)
(* placeholder that is on the console: what is spared can be continued or     *)
(* given up, and is not lost space that nobody names.                         *)
KeptIsOnFile ==
  app.run.kept =>
    /\ app.taskFile = [pkg |-> app.run.pkg, kind |-> app.run.kind, ph |-> app.run.ph,
                       stuck |-> FALSE]
    /\ app.run.ph \in app.contents

-----------------------------------------------------------------------------
(* What comments in the code say, and the code does not do. *)

(* "the page quotes this when it asks the console to start or to change the   *)
(* target, so "start the run I am looking at" cannot hit an older one" -- the *)
(* request waits for the poll, and a page that opens packages itself may have *)
(* the run replaced before the flag is looked at.                             *)
StartsTheRunItQuotes ==
  [][at = "start" /\ Len(frames') > Len(frames) => app.run.id = app.flags.start]_vars

(* AbandonPendingInstall and Abandon: "the placeholders are gone, so a task   *)
(* file that points at them would only offer a resume into nothing" -- but    *)
(* they go first, and a file the card does not let go offers just that.       *)
NoResumeIntoNothing ==
  at = "keys" /\ app.screen = "Pending" => app.pending.ph \in app.contents

(* LeaveInstallScreen: "A package that was never installed owes the console *)
(* the placeholders the CNMT/NACP read created" -- none is left of a run     *)
(* that is no longer in hand.                                                *)
ReadPlaceholdersAreOwned == app.reads \subseteq {app.run.id}

(* app.hpp on m_resume_task: "Cleared with the package" -- a resume is armed *)
(* only while its package is being opened.                                   *)
ResumeIsClearedWithThePackage == at = "keys" => ~app.resume

(* RenderInstallPending: "pick something else leaves the task alone for      *)
(* later" -- a run changes the task of its own package only.                 *)
TheTaskIsLeftAlone ==
  [][app.taskFile # NoTask /\ HasRun(app) /\ app'.taskFile # app.taskFile
       => app.run.pkg = app.taskFile.pkg]_vars

(* ServeHttp: "One upload at a time, and never while a transfer is running   *)
(* -- a task has exactly one source".                                        *)
NoUploadDuringATransfer == at = "preparing" => frames = <<>>

(* ReleaseUploadSource: "The browser's part in a run ends when the run does" *)
(* -- on the result screen no upload source is left to answer the page's     *)
(* next offer with "busy".                                                   *)
UploadSourceEndsWithTheRun ==
  at = "keys" /\ app.screen = "Result" => app.src.upload = NoRun
=============================================================================
