------------------------------ MODULE AgentHome ------------------------------
(***************************************************************************)
(* What the home screen says about the agent, and what its buttons do.     *)
(*                                                                         *)
(* Four things are compared: the game on the console, the agent's files on *)
(* the card, the install record (state.json), and the release to install   *)
(* from -- the one embedded in the app, or a newer one the update check    *)
(* adopted.  Collect() reads the first three; RefreshPlan judges them by   *)
(* the release; UpdateHomeState folds the verdict into one of eight home   *)
(* screens, and the buttons act on that.  The verdict is kept, not asked   *)
(* for again: the hazards are the paths that change one of the four and do *)
(* not judge again, and the cases the judgement does not tell apart.       *)
(*                                                                         *)
(* AgentInstall models how the files get onto the card; here an install is *)
(* one step, which happens as a whole or fails.                            *)
(***************************************************************************)
EXTENDS Naturals, FiniteSets

CONSTANTS
    Builds,     \* builds of the game: its content ids
    Version,    \* the game version each of them reports
    Releases,   \* agent releases: [version, hash, covers]
    None,       \* no release, no record
    NoGame,     \* the console has no copy of the game
    Other       \* the card holds no files, or not all, or changed ones

ASSUME BuildsAreVersioned ==
    /\ NoGame \notin Builds
    /\ Version \in [Builds -> Nat]

(* A release names at most one build of a game version; Evaluate looks it  *)
(* up by the version and then compares the content id.                     *)
ASSUME ReleasesAreSigned ==
    /\ \A r \in Releases :
          /\ r.version \in Nat \ {0}
          /\ r.covers \subseteq Builds
          /\ \A b, c \in r.covers : Version[b] = Version[c] => b = c
    /\ None \notin Releases

VARIABLES
    game,       \* the build on the console
    exefs,       \* whose files are in the game's exefs directory
    record,     \* state.json
    embedded,   \* the release compiled into the app
    open,       \* whether the app runs
    page,       \* m_page, the pages the agent has a part in
    seen,       \* m_report.build, of the last Collect
    known,      \* m_state, of the last Collect
    update,     \* m_update_manifest: the release the update check adopted
    plan,       \* m_plan.action
    incomplete, \* m_files_incomplete
    failed,     \* m_last_failed
    home        \* m_home_kind

console == <<game, exefs, record, embedded>>
vars == <<game, exefs, record, embedded, open, page, seen, known, update, plan,
          incomplete, failed, home>>

Payload(r, b) == [version |-> r.version, hash |-> r.hash, build |-> b]

Payloads == {Payload(r, b) : r \in Releases, b \in Builds}

(* Evaluate: the release lists the build the console has.                  *)
Supported(r, b) == r # None /\ b # NoGame /\ b \in r.covers

(* ActiveManifest: an adopted release stands in for the embedded one.      *)
Active == IF update # None THEN update ELSE embedded

(* AgentSupportedFor asks by version only.                                 *)
AgentSupportedFor(r, b) ==
    r # None /\ b # NoGame /\ \E c \in r.covers : Version[c] = Version[b]

(***************************************************************************)
(* Plan: what has to be done for record `rec` on build `b` to be release   *)
(* `r`.  It compares the record with the release, never the card.          *)
(***************************************************************************)
Planned(r, b, rec) ==
    IF ~Supported(r, b) THEN "Blocked"
    ELSE IF \/ rec = None
            \/ rec.build # b
            \/ rec.version # r.version THEN "Install"
    ELSE IF rec.hash # r.hash THEN "Repair"
    ELSE "UpToDate"

(* VerifyRecordAgainstCard: only a plan of UpToDate is checked against the *)
(* card, and it becomes Repair when the card does not match.               *)
CardDiffers(r, b, rec, files) ==
    rec # None /\ Planned(r, b, rec) = "UpToDate" /\ files # rec

PlanOf(r, b, rec, files) ==
    IF CardDiffers(r, b, rec, files) THEN "Repair" ELSE Planned(r, b, rec)

NewerAgentVersion(r, rec) == r # None /\ rec # None /\ r.version > rec.version

Classify(b, gate, fail, differs, action, rec, newer) ==
    CASE b = NoGame                              -> "GameMissing"
      [] b # NoGame /\ ~gate                     -> "Unsupported"
      [] gate /\ fail                            -> "Failed"
      [] gate /\ ~fail /\ differs                -> "Incomplete"
      [] gate /\ ~fail /\ ~differs /\ action = "Repair" -> "Repair"
      [] gate /\ ~fail /\ action = "Install" /\ rec = None -> "NeedsInstall"
      [] OTHER -> IF newer THEN "UpdateAvailable" ELSE "UpToDate"

(* RefreshPlan and UpdateHomeState, over the values the step leaves.       *)
Judge ==
    /\ incomplete' = CardDiffers(Active', seen', known', exefs')
    /\ plan' = PlanOf(Active', seen', known', exefs')
    /\ home' = Classify(seen', Supported(Active', seen'), failed', incomplete',
                        plan', known', NewerAgentVersion(Active', known'))

Collect ==
    /\ seen' = game'
    /\ known' = record'
    /\ Judge

KeepVerdict == UNCHANGED <<seen, known, plan, incomplete, home>>

Init ==
    /\ game \in Builds \cup {NoGame}
    /\ embedded \in Releases \cup {None}
    /\ exefs = Other
    /\ record = None
    /\ open = FALSE
    /\ page = "Home"
    /\ seen = NoGame
    /\ known = None
    /\ update = None
    /\ plan = "Blocked"
    /\ incomplete = FALSE
    /\ failed = FALSE
    /\ home = "GameMissing"

(***************************************************************************)
(* While the app is closed the player changes what he likes: the game is   *)
(* updated or removed, the app replaced, the files or the record deleted.  *)
(***************************************************************************)
Elsewhere ==
    /\ ~open
    /\ \/ game' \in Builds \cup {NoGame} /\ UNCHANGED <<exefs, record, embedded>>
       \/ exefs' = Other /\ UNCHANGED <<game, record, embedded>>
       \/ record' = None /\ UNCHANGED <<game, exefs, embedded>>
       \/ embedded' \in Releases \cup {None} /\ UNCHANGED <<game, exefs, record>>
    /\ UNCHANGED <<open, page, seen, known, update, plan, incomplete, failed, home>>

(* App::Init: a new process, and one look at the console.                  *)
Launch ==
    /\ ~open
    /\ open' = TRUE
    /\ page' = "Home"
    /\ update' = None
    /\ failed' = FALSE
    /\ UNCHANGED console
    /\ Collect

(* The process ends, and what it knew with it.                             *)
AppEnds ==
    /\ open
    /\ open' = FALSE
    /\ page' = "Home"
    /\ seen' = NoGame
    /\ known' = None
    /\ update' = None
    /\ plan' = "Blocked"
    /\ incomplete' = FALSE
    /\ failed' = FALSE
    /\ home' = "GameMissing"

Close == AppEnds /\ UNCHANGED console

(***************************************************************************)
(* ApplyUpdateCheck: an answer of the update check arrives, on any page.   *)
(* DecideAdoption: a newer release is adopted when it covers this build.   *)
(***************************************************************************)
Current ==
    IF known # None THEN known.version
    ELSE IF embedded # None THEN embedded.version ELSE 0

DecideAdoption(r) ==
    r # None /\ Current # 0 /\ r.version > Current /\ Supported(r, seen)

(* Mutant: an answer is applied and not judged.                           *)
MutAnswerNotJudged(r) ==
    /\ open
    /\ update' = IF DecideAdoption(r) THEN r ELSE None
    /\ UNCHANGED <<console, open, page, seen, known, failed, plan, incomplete, home>>

CheckAnswers(r) ==
    /\ open
    /\ update' = IF DecideAdoption(r) THEN r ELSE None
    /\ UNCHANGED <<console, open, page, seen, known, failed>>
    /\ Judge

(* The primary button.  With no game, or an unsupported one, it opens the  *)
(* installer: InstallsGame.                                                *)
PressPrimary ==
    /\ open
    /\ page = "Home"
    /\ home \in {"NeedsInstall", "UpdateAvailable", "Repair", "Incomplete", "Failed"}
    /\ page' = "Install"
    /\ UNCHANGED <<console, open, update, failed>>
    /\ KeepVerdict

(* The update center offers the agent by itself, whatever the home screen  *)
(* says.                                                                   *)
PressUpdateAgent ==
    /\ open
    /\ page = "Home"
    /\ NewerAgentVersion(Active, known)
    /\ page' = "Install"
    /\ UNCHANGED <<console, open, update, failed>>
    /\ KeepVerdict

PressUninstall ==
    /\ open
    /\ page = "Home"
    /\ known # None
    /\ page' = "Uninstall"
    /\ UNCHANGED <<console, open, update, failed>>
    /\ KeepVerdict

Back ==
    /\ open
    /\ page # "Home"
    /\ page' = "Home"
    /\ UNCHANGED <<console, open, update, failed>>
    /\ KeepVerdict

(* The result page's own button looks at the console again.                *)
Done ==
    /\ open
    /\ page = "Result"
    /\ page' = "Home"
    /\ UNCHANGED <<console, open, update, failed>>
    /\ Collect

(* ToggleLanguage collects again: its texts are in another language.       *)
ToggleLanguage ==
    /\ open
    /\ page = "Home"
    /\ UNCHANGED <<console, open, page, update, failed>>
    /\ Collect

(* An install that fails leaves the record, and the files as they were or  *)
(* not whole.                                                              *)
LeavesFiles == exefs' \in {exefs, Other} /\ UNCHANGED <<record, update>>

WritesFiles(b) ==
    /\ exefs' = Payload(Active, b)
    /\ record' = Payload(Active, b)

(* A successful install drops the adopted release.                         *)
DropsUpdate == update' = None

RunInstall ==
    /\ open
    /\ page = "Install"
    /\ page' = "Result"
    /\ \/ /\ plan # "Blocked"
          /\ WritesFiles(seen)
          /\ DropsUpdate
          /\ failed' = FALSE
          /\ UNCHANGED <<game, embedded, open>>
          /\ Collect
       \/ /\ plan # "Blocked"
          /\ LeavesFiles
          /\ failed' = TRUE
          /\ UNCHANGED <<game, embedded, open>>
          /\ KeepVerdict
       \/ /\ plan = "Blocked"
          /\ failed' = TRUE
          /\ UNCHANGED <<console, open, update>>
          /\ KeepVerdict

RunUninstall ==
    /\ open
    /\ page = "Uninstall"
    /\ page' = "Result"
    /\ \/ /\ exefs' = Other
          /\ record' = None
          /\ failed' = FALSE
          /\ UNCHANGED <<game, embedded, open, update>>
          /\ Collect
       \/ /\ LeavesFiles
          /\ failed' = TRUE
          /\ UNCHANGED <<game, embedded, open>>
          /\ KeepVerdict

(***************************************************************************)
(* RunAgentFollowUp: a package left the console on build `b`, and when the *)
(* agent supports that version it is installed in the same run.  It judges *)
(* again first and again at its end.                                       *)
(***************************************************************************)
FollowUpPlan(b) == PlanOf(Active, b, record, exefs)

RunAgentFollowUp(b) ==
    \/ /\ FollowUpPlan(b) = "UpToDate"
       /\ UNCHANGED <<exefs, record, update, failed>>
    \/ /\ FollowUpPlan(b) = "Blocked"
       /\ failed' = TRUE
       /\ UNCHANGED <<exefs, record, update>>
    \/ /\ FollowUpPlan(b) \in {"Install", "Repair"}
       /\ WritesFiles(b)
       /\ DropsUpdate
       /\ failed' = FALSE
    \/ /\ FollowUpPlan(b) \in {"Install", "Repair"}
       /\ LeavesFiles
       /\ failed' = TRUE

(* Mutant: the console is not looked at again after the run.               *)
MutInstallsAndReturns(b) ==
    /\ open
    /\ game' = b
    /\ UNCHANGED <<exefs, record, update, failed, embedded, open, page>>
    /\ KeepVerdict

(* RunGameInstall: the package is installed, the follow-up runs, and the   *)
(* console is looked at again.  The installer opens from any page and      *)
(* returns to it.                                                          *)
InstallsGame(b) ==
    /\ open
    /\ game' = b
    /\ \/ AgentSupportedFor(Active, b) /\ RunAgentFollowUp(b)
       \/ /\ ~AgentSupportedFor(Active, b)
          /\ UNCHANGED <<exefs, record, update, failed>>
    /\ UNCHANGED <<embedded, open, page>>
    /\ Collect

(* A package the console already has: only the follow-up judges again.     *)
SkipsGame ==
    /\ open
    /\ game # NoGame
    /\ AgentSupportedFor(Active, game)
    /\ RunAgentFollowUp(game)
    /\ UNCHANGED <<game, embedded, open, page>>
    /\ Collect

(* The power goes after the game is installed and before the follow-up.    *)
InstallsGameAndDies(b) ==
    /\ game' = b
    /\ AppEnds
    /\ UNCHANGED <<exefs, record, embedded>>

Next ==
    \/ Elsewhere
    \/ Launch
    \/ Close
    \/ \E r \in Releases \cup {None} : CheckAnswers(r)
    \/ PressPrimary
    \/ PressUpdateAgent
    \/ PressUninstall
    \/ Back
    \/ Done
    \/ ToggleLanguage
    \/ RunInstall
    \/ RunUninstall
    \/ \E b \in Builds : InstallsGame(b)
    \/ SkipsGame
    \/ \E b \in Builds : InstallsGameAndDies(b)

Spec == Init /\ [][Next]_vars

-----------------------------------------------------------------------------
Homes == {"GameMissing", "Unsupported", "Failed", "Incomplete", "Repair",
          "NeedsInstall", "UpdateAvailable", "UpToDate"}

(* The domain of every variable; a record's files are some release's.      *)
TypeOK ==
    /\ game \in Builds \cup {NoGame}
    /\ exefs \in Payloads \cup {Other}
    /\ record \in Payloads \cup {None}
    /\ embedded \in Releases \cup {None}
    /\ open \in BOOLEAN
    /\ page \in {"Home", "Install", "Uninstall", "Result"}
    /\ seen \in Builds \cup {NoGame}
    /\ known \in Payloads \cup {None}
    /\ update \in Releases \cup {None}
    /\ plan \in {"Blocked", "Install", "Repair", "UpToDate"}
    /\ incomplete \in BOOLEAN
    /\ failed \in BOOLEAN
    /\ home \in Homes

(* The agent's files patch the game's code: files written to the card are  *)
(* for the build the console has at that moment, whichever way they come   *)
(* to be written and whatever was judged before (gate.cpp, Plan).          *)
WritesTheGamesBuild ==
    [][exefs' # exefs /\ exefs' # Other => exefs'.build = game']_vars

(* A release that was adopted is newer than what is installed for as long  *)
(* as it is the install source: installing it, by the button or by the     *)
(* follow-up, ends its part (RunInstall and RunAgentFollowUp clear         *)
(* m_have_update_manifest).                                                *)
AdoptedIsNewer ==
    open /\ update # None /\ known # None => update.version > known.version

(* While the home screen offers an update, confirming it raises the        *)
(* installed version, even when another answer of the update check came    *)
(* between the press and the confirmation.                                 *)
UpdatesRaise ==
    [][home = "UpdateAvailable" /\ page = "Install" /\ exefs' # exefs /\ exefs' # Other
       => record'.version > record.version]_vars

(* At launch, an installation of this very release that the home screen    *)
(* calls up to date is on the card as recorded (VerifyRecordAgainstCard).  *)
VerifiedWhenCurrent ==
    [][~open /\ open' /\ home' = "UpToDate"
       /\ record.version = embedded.version /\ record.build = game
       => exefs = record]_vars

(* The screen's word is no older than what it is about: while no attempt   *)
(* has failed, "nothing installed" means there is no record, and an offer  *)
(* of an update means the release in hand is newer than the record.        *)
OffersWhatThereIs ==
    open /\ ~failed =>
        /\ home = "NeedsInstall" => record = None /\ Supported(Active, seen)
        /\ home = "UpdateAvailable" => Active.version > record.version
        /\ home = "UpToDate" => record # None

-----------------------------------------------------------------------------
(* docs/architecture.md 6.3: the files of the record are verified after    *)
(* every Collect, whatever release the record is of.                       *)
InstalledIsVerified ==
    [][~open /\ open' /\ home' = "UpToDate" /\ record.build = game
       => exefs = record]_vars

(* home_state.hpp: UpToDate is "installed and current".                    *)
InstalledIsForThisBuild ==
    open /\ home = "UpToDate" => known.build = seen

(* update_policy.hpp: an adopted release never takes the place of the      *)
(* embedded one on a build only that one covers.                           *)
WorkingReleaseKept ==
    open /\ Supported(embedded, seen) => home # "Unsupported"

(* RunAgentFollowUp: the release it writes is the newest one there is.     *)
FollowUpNeverGoesBack ==
    [][page' = page /\ record # None /\ record' # None
       => record'.version >= record.version]_vars

(* Classify: a failure is shown until something succeeds.                  *)
FailureIsShown ==
    open /\ page = "Home" /\ failed => home \in {"Failed", "GameMissing", "Unsupported"}

(* The page after a successful install does not call the build one that    *)
(* cannot be handled.                                                      *)
SuccessIsShown ==
    [][page = "Install" /\ page' = "Result" /\ ~failed' => home' # "Unsupported"]_vars

=============================================================================
