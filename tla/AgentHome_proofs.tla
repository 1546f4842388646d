--------------------------- MODULE AgentHome_proofs ---------------------------
(***************************************************************************)
(* Proofs about the agent: its home screen, for every set of game builds   *)
(* and of releases; the two update workers behind it, for every number of  *)
(* releases; and its installer, for any number of files, agents, failing   *)
(* calls and power cuts: what is replaced can be put back until the record *)
(* is in, and a run in which one call at most fails does all of its work   *)
(* or none of it, whatever interrupted runs left on the card.              *)
(***************************************************************************)
EXTENDS AgentHome, UpdateTask, AgentInstall, TLAPS

Plans == {"Blocked", "Install", "Repair", "UpToDate"}

(* While the app runs nothing outside changes the console, so what the app *)
(* knows is what is there: every step of its own that writes ends in a     *)
(* Collect, or wrote no record.                                            *)
LooksAtTheConsole == open => seen = game /\ known = record

(* A plan to write was made for a build the release in hand covers.        *)
PlanIsCovered == plan # "Blocked" => Supported(Active, seen)

(* A closed app has adopted nothing.                                       *)
ClosedIsFresh == ~open => update = None /\ plan = "Blocked"

IInv ==
  /\ TypeOK
  /\ LooksAtTheConsole
  /\ PlanIsCovered
  /\ ClosedIsFresh
  /\ AdoptedIsNewer
  /\ OffersWhatThereIs

-----------------------------------------------------------------------------
(* Plan blocks exactly the builds the release does not cover, and calls    *)
(* nothing up to date that is not recorded.                                *)
LEMMA PlanFacts ==
  ASSUME NEW r, NEW b, NEW rec, NEW files
  PROVE  /\ PlanOf(r, b, rec, files) \in Plans
         /\ CardDiffers(r, b, rec, files) \in BOOLEAN
         /\ PlanOf(r, b, rec, files) = "Blocked" <=> ~Supported(r, b)
         /\ PlanOf(r, b, rec, files) \in {"UpToDate", "Repair"} => rec # None
<1>1. /\ Planned(r, b, rec) \in Plans
      /\ Planned(r, b, rec) = "Blocked" <=> ~Supported(r, b)
      /\ Planned(r, b, rec) \in {"UpToDate", "Repair"} => rec # None
  BY DEF Planned, Plans
<1>2. CardDiffers(r, b, rec, files) \in BOOLEAN
  BY DEF CardDiffers
<1>3. CardDiffers(r, b, rec, files) => Planned(r, b, rec) = "UpToDate"
  BY DEF CardDiffers
<1> QED
  BY <1>1, <1>2, <1>3 DEF PlanOf, Plans

(* What the fold of the verdict says of the values it was folded from.     *)
LEMMA ClassifyFacts ==
  ASSUME NEW b, NEW rec, NEW gate \in BOOLEAN, NEW fail \in BOOLEAN,
         NEW differs \in BOOLEAN, NEW newer \in BOOLEAN, NEW action \in Plans,
         b = NoGame => ~gate,
         action = "Blocked" <=> ~gate,
         action \in {"UpToDate", "Repair"} => rec # None
  PROVE  LET h == Classify(b, gate, fail, differs, action, rec, newer) IN
         /\ h \in Homes
         /\ ~fail => /\ h = "NeedsInstall" => rec = None /\ gate
                     /\ h = "UpdateAvailable" => newer
                     /\ h = "UpToDate" => rec # None
BY DEF Classify, Homes, Plans

(* The same for a step that judges.                                        *)
LEMMA JudgeFacts ==
  ASSUME Judge, failed' \in BOOLEAN
  PROVE  /\ plan' \in Plans
         /\ incomplete' \in BOOLEAN
         /\ home' \in Homes
         /\ PlanIsCovered'
         /\ (open => known = record)' => OffersWhatThereIs'
<1> DEFINE gate == Supported(Active', seen')
           newer == NewerAgentVersion(Active', known')
<1>1. /\ plan' \in Plans
      /\ incomplete' \in BOOLEAN
      /\ plan' = "Blocked" <=> ~gate
      /\ plan' \in {"UpToDate", "Repair"} => known' # None
  BY PlanFacts DEF Judge
<1>2. gate \in BOOLEAN /\ newer \in BOOLEAN /\ (seen' = NoGame => ~gate)
  BY DEF Supported, NewerAgentVersion
<1>3. home' = Classify(seen', gate, failed', incomplete', plan', known', newer)
  BY DEF Judge
<1> HIDE DEF gate, newer
<1>4. /\ home' \in Homes
      /\ ~failed' => /\ home' = "NeedsInstall" => known' = None /\ gate
                     /\ home' = "UpdateAvailable" => newer
                     /\ home' = "UpToDate" => known' # None
  BY <1>1, <1>2, <1>3, ClassifyFacts
<1>5. PlanIsCovered'
  BY <1>1 DEF PlanIsCovered, gate, Active
<1>6. (open => known = record)' => OffersWhatThereIs'
  <2>1. newer => Active'.version > known'.version
    BY DEF newer, NewerAgentVersion
  <2> QED
    BY <1>4, <2>1 DEF OffersWhatThereIs, gate
<1> QED
  BY <1>1, <1>4, <1>5, <1>6

(* A Collect leaves the app knowing the console.                           *)
LEMMA CollectFacts ==
  ASSUME Collect, failed' \in BOOLEAN
  PROVE  /\ seen' = game' /\ known' = record'
         /\ plan' \in Plans
         /\ incomplete' \in BOOLEAN
         /\ home' \in Homes
         /\ PlanIsCovered'
         /\ OffersWhatThereIs'
         /\ LooksAtTheConsole'
BY JudgeFacts DEF Collect, LooksAtTheConsole

(* The release an install takes its files from is one, when there is one.  *)
LEMMA ActiveType == TypeOK => Active \in Releases \cup {None}
BY DEF TypeOK, Active

LEMMA PayloadType ==
  ASSUME NEW r \in Releases, NEW b \in Builds
  PROVE  /\ Payload(r, b) \in Payloads
         /\ Payload(r, b).build = b
         /\ Payload(r, b) # None => Payload(r, b).version = r.version
BY DEF Payloads, Payload

-----------------------------------------------------------------------------
LEMMA InitEstablishes == Init => IInv
<1> SUFFICES ASSUME Init PROVE IInv
  OBVIOUS
<1> QED
  BY DEF Init, IInv, TypeOK, Homes, LooksAtTheConsole, PlanIsCovered, ClosedIsFresh,
         AdoptedIsNewer, OffersWhatThereIs

(* The steps that change nothing the verdict is about and do not judge.    *)
LEMMA KeptIsKept ==
  ASSUME IInv, KeepVerdict, UNCHANGED <<console, open, update>>,
         page' \in {"Home", "Install", "Uninstall", "Result"},
         failed' \in {failed, TRUE}
  PROVE  IInv'
<1>1. /\ UNCHANGED <<game, exefs, record, embedded, open, update>>
      /\ UNCHANGED <<seen, known, plan, incomplete, home>>
  BY DEF KeepVerdict, console
<1>2. failed' \in BOOLEAN /\ (~failed' => ~failed)
  BY DEF IInv, TypeOK
<1>3. TypeOK'
  BY <1>1, <1>2 DEF IInv, TypeOK
<1>4. Active' = Active
  BY <1>1 DEF Active
<1>5. Supported(Active', seen') <=> Supported(Active, seen)
  BY <1>1, <1>4
<1>6. LooksAtTheConsole' /\ PlanIsCovered' /\ ClosedIsFresh' /\ AdoptedIsNewer'
  BY <1>1, <1>5 DEF IInv, LooksAtTheConsole, PlanIsCovered, ClosedIsFresh, AdoptedIsNewer
<1>7. OffersWhatThereIs'
  BY <1>1, <1>2, <1>4, <1>5 DEF IInv, OffersWhatThereIs
<1> QED
  BY <1>3, <1>6, <1>7 DEF IInv

(* The steps that end in a Collect: what is left to say is that the files, *)
(* the record and the adopted release are what they should be.             *)
LEMMA CollectedIsKept ==
  ASSUME IInv, Collect, open', failed' \in BOOLEAN,
         game' \in Builds \cup {NoGame},
         exefs' \in Payloads \cup {Other},
         record' \in Payloads \cup {None},
         embedded' = embedded,
         page' \in {"Home", "Install", "Uninstall", "Result"},
         \/ update' = None
         \/ update' = update /\ record' \in {known, None} /\ open
  PROVE  IInv'
<1>1. /\ seen' = game' /\ known' = record' /\ plan' \in Plans /\ incomplete' \in BOOLEAN
      /\ home' \in Homes /\ PlanIsCovered' /\ OffersWhatThereIs' /\ LooksAtTheConsole'
  BY CollectFacts
<1>2. TypeOK'
  BY <1>1 DEF IInv, TypeOK, Plans
<1>3. AdoptedIsNewer'
  BY <1>1 DEF IInv, AdoptedIsNewer
<1> QED
  BY <1>1, <1>2, <1>3 DEF IInv, ClosedIsFresh

(* What a step that writes the agent's files leaves.                       *)
LEMMA WritesFacts ==
  ASSUME IInv, NEW b \in Builds, Supported(Active, b), WritesFiles(b)
  PROVE  exefs' \in Payloads /\ record' \in Payloads /\ exefs'.build = b
<1>1. Active \in Releases
  BY ActiveType DEF IInv, Supported
<1> QED
  BY <1>1, PayloadType DEF WritesFiles

(* The follow-up writes for the build the package left.                    *)
LEMMA FollowUpFacts ==
  ASSUME IInv, NEW b \in Builds, RunAgentFollowUp(b)
  PROVE  /\ exefs' \in Payloads \cup {Other}
         /\ record' \in Payloads \cup {None}
         /\ failed' \in BOOLEAN
         /\ update' = None \/ (update' = update /\ record' = record)
         /\ exefs' # exefs /\ exefs' # Other => exefs'.build = b
<1>1. FollowUpPlan(b) \in {"Install", "Repair"} => Supported(Active, b)
  BY PlanFacts DEF FollowUpPlan
<1>2. CASE FollowUpPlan(b) \in {"Install", "Repair"} /\ WritesFiles(b) /\ DropsUpdate /\ failed' = FALSE
  <2>1. Supported(Active, b) /\ WritesFiles(b)
    BY <1>1, <1>2
  <2>2. exefs' \in Payloads /\ record' \in Payloads /\ exefs'.build = b
    BY <2>1, WritesFacts
  <2>3. failed' \in BOOLEAN
    BY <1>2
  <2>4. update' = None
    BY <1>2 DEF DropsUpdate
  <2> QED
    BY <2>2, <2>3, <2>4
<1>3. CASE LeavesFiles /\ failed' = TRUE
  BY <1>3 DEF LeavesFiles, IInv, TypeOK
<1>4. CASE UNCHANGED <<exefs, record, update>> /\ failed' \in {failed, TRUE}
  BY <1>4 DEF IInv, TypeOK
<1> QED
  BY <1>2, <1>3, <1>4 DEF RunAgentFollowUp

-----------------------------------------------------------------------------
(* The invariant is kept, one step per action.                             *)
LEMMA NextKeeps == IInv /\ [Next]_vars => IInv'
<1> SUFFICES ASSUME IInv, [Next]_vars PROVE IInv'
  OBVIOUS
<1>0. TypeOK
  BY DEF IInv
<1>1. CASE Elsewhere
  <2>1. /\ game' \in Builds \cup {NoGame} /\ exefs' \in Payloads \cup {Other}
        /\ record' \in Payloads \cup {None} /\ embedded' \in Releases \cup {None}
        /\ UNCHANGED <<open, page, seen, known, update, plan, incomplete, failed, home>>
    BY <1>0, <1>1 DEF Elsewhere, TypeOK
  <2>2. TypeOK'
    BY <1>0, <2>1 DEF TypeOK
  <2>3. ~open /\ plan = "Blocked"
    BY <1>1 DEF Elsewhere, IInv, ClosedIsFresh
  <2> QED
    BY <2>1, <2>2, <2>3 DEF IInv, LooksAtTheConsole, PlanIsCovered, ClosedIsFresh,
                            AdoptedIsNewer, OffersWhatThereIs
<1>2. CASE Launch
  BY <1>0, <1>2, CollectedIsKept DEF Launch, console, TypeOK
<1>3. ASSUME AppEnds, game' \in Builds \cup {NoGame}, UNCHANGED <<exefs, record, embedded>>
      PROVE IInv'
  BY <1>0, <1>3 DEF AppEnds, IInv, TypeOK, Homes, LooksAtTheConsole, PlanIsCovered,
                    ClosedIsFresh, AdoptedIsNewer, OffersWhatThereIs
<1>4. CASE Close
  BY <1>0, <1>3, <1>4 DEF Close, console, TypeOK
<1>5. ASSUME NEW r \in Releases \cup {None}, CheckAnswers(r) PROVE IInv'
  <2>1. /\ open /\ UNCHANGED <<game, exefs, record, embedded, open, page, seen, known, failed>>
        /\ Judge
        /\ update' \in {None, r} /\ (update' # None => DecideAdoption(r))
    BY <1>5 DEF CheckAnswers, console
  <2>2. /\ plan' \in Plans /\ incomplete' \in BOOLEAN /\ home' \in Homes /\ PlanIsCovered'
        /\ ((open => known = record)' => OffersWhatThereIs')
    BY <1>0, <2>1, JudgeFacts DEF TypeOK
  <2>3. LooksAtTheConsole'
    BY <2>1 DEF IInv, LooksAtTheConsole
  <2>4. TypeOK'
    BY <1>0, <2>1, <2>2 DEF TypeOK, Plans
  <2>5. AdoptedIsNewer'
    BY <2>1 DEF AdoptedIsNewer, DecideAdoption, Current
  <2> QED
    BY <2>1, <2>2, <2>3, <2>4, <2>5 DEF IInv, LooksAtTheConsole, ClosedIsFresh
<1>6. CASE PressPrimary \/ PressUpdateAgent \/ PressUninstall \/ Back
  BY <1>6, KeptIsKept DEF PressPrimary, PressUpdateAgent, PressUninstall, Back, console
<1>7. ASSUME open, page' \in {"Home", "Install", "Uninstall", "Result"}, Collect,
             UNCHANGED <<game, exefs, record, embedded, open, update, failed>>
      PROVE IInv'
  <2>1. record' = known
    BY <1>7 DEF IInv, LooksAtTheConsole
  <2> QED
    BY <1>0, <1>7, <2>1, CollectedIsKept DEF TypeOK
<1>8. CASE Done \/ ToggleLanguage
  BY <1>0, <1>7, <1>8 DEF Done, ToggleLanguage, console, TypeOK
<1>9. CASE RunInstall
  <2>1. ASSUME plan # "Blocked", WritesFiles(seen), DropsUpdate, failed' = FALSE,
               UNCHANGED <<game, embedded, open>>, Collect
        PROVE IInv'
    <3>1. Supported(Active, seen) /\ seen \in Builds
      BY <1>0, <2>1 DEF IInv, PlanIsCovered, Supported, TypeOK
    <3>2. exefs' \in Payloads /\ record' \in Payloads
      BY <2>1, <3>1, WritesFacts
    <3>3. open' /\ page' = "Result"
      BY <1>9, <2>1 DEF RunInstall
    <3>4. failed' \in BOOLEAN
      BY <2>1
    <3>5. update' = None /\ embedded' = embedded /\ game' \in Builds \cup {NoGame}
      BY <1>0, <2>1 DEF DropsUpdate, TypeOK
    <3> QED
      BY <2>1, <3>2, <3>3, <3>4, <3>5, CollectedIsKept
  <2>2. ASSUME LeavesFiles, failed' = TRUE, UNCHANGED <<game, embedded, open>>, KeepVerdict,
               page' = "Result"
        PROVE IInv'
    <3>1. /\ exefs' \in Payloads \cup {Other}
          /\ UNCHANGED <<game, record, embedded, open, update, seen, known, plan, incomplete, home>>
      BY <1>0, <2>2 DEF LeavesFiles, KeepVerdict, TypeOK
    <3>2. TypeOK'
      BY <1>0, <2>2, <3>1 DEF TypeOK
    <3>3. Active' = Active
      BY <3>1 DEF Active
    <3>4. Supported(Active', seen') <=> Supported(Active, seen)
      BY <3>1, <3>3
    <3> QED
      BY <2>2, <3>1, <3>2, <3>4 DEF IInv, LooksAtTheConsole, PlanIsCovered, ClosedIsFresh,
                                    AdoptedIsNewer, OffersWhatThereIs
  <2>3. ASSUME failed' = TRUE, UNCHANGED <<console, open, update>>, KeepVerdict, page' = "Result"
        PROVE IInv'
    BY <2>3, KeptIsKept
  <2> QED
    BY <1>9, <2>1, <2>2, <2>3 DEF RunInstall
<1>10. CASE RunUninstall
  <2>1. ASSUME exefs' = Other, record' = None, failed' = FALSE,
               UNCHANGED <<game, embedded, open, update>>, Collect, page' = "Result", open
        PROVE IInv'
    BY <1>0, <2>1, CollectedIsKept DEF TypeOK
  <2>2. ASSUME LeavesFiles, failed' = TRUE, UNCHANGED <<game, embedded, open>>, KeepVerdict,
               page' = "Result"
        PROVE IInv'
    <3>1. /\ exefs' \in Payloads \cup {Other}
          /\ UNCHANGED <<game, record, embedded, open, update, seen, known, plan, incomplete, home>>
      BY <1>0, <2>2 DEF LeavesFiles, KeepVerdict, TypeOK
    <3>2. TypeOK'
      BY <1>0, <2>2, <3>1 DEF TypeOK
    <3>3. Active' = Active
      BY <3>1 DEF Active
    <3>4. Supported(Active', seen') <=> Supported(Active, seen)
      BY <3>1, <3>3
    <3> QED
      BY <2>2, <3>1, <3>2, <3>4 DEF IInv, LooksAtTheConsole, PlanIsCovered, ClosedIsFresh,
                                    AdoptedIsNewer, OffersWhatThereIs
  <2> QED
    BY <1>10, <2>1, <2>2 DEF RunUninstall
<1>11. ASSUME NEW b \in Builds, open, game' = b, RunAgentFollowUp(b), Collect,
              UNCHANGED <<embedded, open, page>>
       PROVE IInv'
  <2>1. /\ exefs' \in Payloads \cup {Other} /\ record' \in Payloads \cup {None}
        /\ failed' \in BOOLEAN /\ (update' = None \/ (update' = update /\ record' = record))
    BY <1>11, FollowUpFacts
  <2>2. known = record
    BY <1>11 DEF IInv, LooksAtTheConsole
  <2> QED
    BY <1>0, <1>11, <2>1, <2>2, CollectedIsKept DEF TypeOK
<1>12. ASSUME NEW b \in Builds, InstallsGame(b) PROVE IInv'
  <2>1. CASE RunAgentFollowUp(b)
    BY <1>11, <1>12, <2>1 DEF InstallsGame
  <2>2. CASE UNCHANGED <<exefs, record, update, failed>>
    <3>1. known = record
      BY <1>12 DEF InstallsGame, IInv, LooksAtTheConsole
    <3> QED
      BY <1>0, <1>12, <2>2, <3>1, CollectedIsKept DEF InstallsGame, TypeOK
  <2> QED
    BY <1>12, <2>1, <2>2 DEF InstallsGame
<1>13. CASE SkipsGame
  <2>1. game \in Builds
    BY <1>0, <1>13 DEF SkipsGame, TypeOK
  <2> QED
    BY <1>11, <1>13, <2>1 DEF SkipsGame
<1>14. ASSUME NEW b \in Builds, InstallsGameAndDies(b) PROVE IInv'
  BY <1>3, <1>14 DEF InstallsGameAndDies
<1>15. CASE UNCHANGED vars
  BY <1>0, <1>15, KeptIsKept DEF vars, KeepVerdict, console, TypeOK
<1> QED
  BY <1>1, <1>2, <1>4, <1>5, <1>6, <1>8, <1>9, <1>10, <1>12, <1>13, <1>14, <1>15 DEF Next

(* The inductive invariant holds in every reachable state.                 *)
THEOREM Invariance == Spec => []IInv
BY InitEstablishes, NextKeeps, PTL DEF Spec

(* Every variable stays in its domain, for every set of builds and of      *)
(* releases.                                                               *)
THEOREM TypeCorrect == Spec => []TypeOK
<1>1. IInv => TypeOK
  BY DEF IInv
<1> QED
  BY Invariance, <1>1, PTL

(* An adopted release is newer than what is installed.                     *)
THEOREM AdoptedStaysNewer == Spec => []AdoptedIsNewer
<1>1. IInv => AdoptedIsNewer
  BY DEF IInv
<1> QED
  BY Invariance, <1>1, PTL

(* The screen's offers are about what is installed and what is in hand.    *)
THEOREM OffersAreCurrent == Spec => []OffersWhatThereIs
<1>1. IInv => OffersWhatThereIs
  BY DEF IInv
<1> QED
  BY Invariance, <1>1, PTL

(* Files written to the card are for the build the console has: the button *)
(* writes for the build the app knows, the follow-up for the one it is     *)
(* told, and both are the console's.                                       *)
THEOREM FilesAreForTheGame == Spec => WritesTheGamesBuild
<1> DEFINE Written == exefs' # exefs /\ exefs' # Other => exefs'.build = game'
<1>1. IInv /\ [Next]_vars => [Written]_vars
  <2> SUFFICES ASSUME IInv, Next PROVE Written
    BY DEF vars
  <2>1. CASE RunInstall
    <3>1. CASE plan # "Blocked" /\ WritesFiles(seen) /\ game' = game
      <4>1. open /\ seen = game
        BY <2>1 DEF RunInstall, IInv, LooksAtTheConsole
      <4>2. Supported(Active, seen) /\ seen \in Builds
        BY <3>1 DEF IInv, PlanIsCovered, Supported, TypeOK
      <4>3. exefs'.build = seen
        BY <3>1, <4>2, WritesFacts
      <4> QED
        BY <3>1, <4>1, <4>3
    <3>2. CASE LeavesFiles
      BY <3>2 DEF LeavesFiles
    <3>3. CASE UNCHANGED console
      BY <3>3 DEF console
    <3> QED
      BY <2>1, <3>1, <3>2, <3>3 DEF RunInstall
  <2>2. CASE RunUninstall
    BY <2>2 DEF RunUninstall, LeavesFiles
  <2>3. ASSUME NEW b \in Builds, RunAgentFollowUp(b), game' = b PROVE Written
    BY <2>3, FollowUpFacts
  <2>4. ASSUME NEW b \in Builds, InstallsGame(b) PROVE Written
    BY <2>3, <2>4 DEF InstallsGame
  <2>5. CASE SkipsGame
    <3>1. game \in Builds
      BY <2>5 DEF SkipsGame, IInv, TypeOK
    <3> QED
      BY <2>3, <2>5, <3>1 DEF SkipsGame
  <2>6. CASE Elsewhere
    BY <2>6 DEF Elsewhere
  <2>7. CASE \/ Launch \/ Close \/ PressPrimary \/ PressUpdateAgent \/ PressUninstall
             \/ Back \/ Done \/ ToggleLanguage
             \/ \E r \in Releases \cup {None} : CheckAnswers(r)
             \/ \E b \in Builds : InstallsGameAndDies(b)
    BY <2>7 DEF Launch, Close, PressPrimary, PressUpdateAgent, PressUninstall, Back, Done,
                ToggleLanguage, CheckAnswers, InstallsGameAndDies, console
  <2> QED
    BY <2>1, <2>2, <2>4, <2>5, <2>6, <2>7 DEF Next
<1>2. Spec => [][Written]_vars
  BY Invariance, <1>1, PTL DEF Spec
<1> QED
  BY <1>2 DEF WritesTheGamesBuild

-----------------------------------------------------------------------------
(* The update workers.  What a task object and its thread hold. *)
Task == [request : BOOLEAN, running : BOOLEAN, quit : BOOLEAN, have : BOOLEAN,
         result : ReleaseNumbers, got : ReleaseNumbers, thread : Threads]

(* One worker serves one request at a time, so the releases a check has    *)
(* seen are in order along its way: installed, in hand, stored, brought by *)
(* the transfer, served by the host.  A zero on the way says nothing.      *)
Below(a, b) == b # 0 => a <= b

Order ==
  LET c == task["check"] IN
  /\ Below(nro, offer)
  /\ Below(nro, c.result) /\ Below(offer, c.result)
  /\ Below(nro, c.got) /\ Below(offer, c.got) /\ Below(c.result, c.got)
  /\ nro <= host.manifest /\ offer <= host.manifest
  /\ c.result <= host.manifest /\ c.got <= host.manifest

WorkersInv == WorkersTypeOK /\ Order /\ InstalledIsNamed /\ RunningHasWork

-----------------------------------------------------------------------------
LEMMA ReleasesAreNumbers == ReleaseNumbers \subseteq Nat /\ 0 \in ReleaseNumbers
BY MaxReleaseIsNat DEF ReleaseNumbers

(* The type of the task objects, as one record per worker. *)
LEMMA TaskType == WorkersTypeOK => task \in [Workers -> Task]
BY DEF WorkersTypeOK, Task

LEMMA WorkersInitEstablishes == WorkersInit => WorkersInv
<1> SUFFICES ASSUME WorkersInit PROVE WorkersInv
  OBVIOUS
<1>1. WorkersTypeOK
  BY ReleasesAreNumbers DEF WorkersInit, WorkersTypeOK, AtRest, Threads, HostFiles
<1>2. Order
  <2>1. host.manifest \in Nat
    BY ReleasesAreNumbers DEF WorkersInit, HostFiles
  <2> QED
    BY <2>1 DEF WorkersInit, Order, AtRest, Below, Workers
<1>3. InstalledIsNamed /\ RunningHasWork
  BY DEF WorkersInit, InstalledIsNamed, RunningHasWork, AtRest
<1> QED
  BY <1>1, <1>2, <1>3 DEF WorkersInv

(* The type invariant, one step per action. *)
LEMMA TypeIsKept == WorkersTypeOK /\ [WorkersNext]_taskVars => WorkersTypeOK'
<1> SUFFICES ASSUME WorkersTypeOK, [WorkersNext]_taskVars PROVE WorkersTypeOK'
  OBVIOUS
<1> USE ReleasesAreNumbers
<1>1. ASSUME NEW w \in Workers, WorkerQuits(w) \/ WorkerLooks(w) \/ Answers(w)
      PROVE WorkersTypeOK'
  BY <1>1 DEF WorkersTypeOK, WorkerQuits, WorkerLooks, Answers, Threads
<1>2. ASSUME NEW w \in Workers, Get(w) PROVE WorkersTypeOK'
  <2>1. Served(w) \in ReleaseNumbers
    BY DEF Served, WorkersTypeOK, HostFiles
  <2> QED
    BY <1>2, <2>1 DEF WorkersTypeOK, Get, Threads
<1>3. CASE GetSignature
  BY <1>3 DEF WorkersTypeOK, GetSignature, Threads, Workers
<1>4. ASSUME NEW w \in Workers, PollFindsNothing(w) \/ PollAsks(w) PROVE WorkersTypeOK'
  BY <1>4 DEF WorkersTypeOK, PollFindsNothing, PollAsks, After, AskAt
<1>5. ASSUME NEW w \in Workers, PollTakes(w) PROVE WorkersTypeOK'
  <2>a. task' \in [Workers -> Task]
    BY <1>5, TaskType DEF PollTakes, Task
  <2>1. /\ host' \in [HostFiles -> ReleaseNumbers]
        /\ shown' \in [Workers -> BOOLEAN] /\ ui' \in {"takeManager", "keys"}
    BY <1>5 DEF WorkersTypeOK, PollTakes, After
  <2>2. offer' \in ReleaseNumbers /\ nro' \in ReleaseNumbers /\ installed' \in ReleaseNumbers
    <3>1. CASE w = "check" /\ ApplyUpdateCheck /\ UNCHANGED <<nro, installed>>
      BY <3>1 DEF WorkersTypeOK, ApplyUpdateCheck, Workers, Task
    <3>2. CASE ApplyManagerDownload /\ UNCHANGED offer
      BY <3>2 DEF WorkersTypeOK, ApplyManagerDownload
    <3> QED
      BY <1>5, <3>1, <3>2 DEF PollTakes
  <2> QED
    BY <2>1, <2>2, <2>a DEF WorkersTypeOK, Task
<1>6. ASSUME NEW w \in Workers, Started(w) PROVE WorkersTypeOK'
  BY <1>6 DEF WorkersTypeOK, Started
<1>7. ASSUME NEW w \in Workers, Stopping(w) PROVE WorkersTypeOK'
  <2>1. CASE Stop(w)
    <3>1. task' = task \/ task' = [task EXCEPT ![w].quit = TRUE]
      BY <2>1 DEF Stop
    <3>2. task' \in [Workers -> Task]
      BY <3>1, TaskType DEF Task
    <3>3. ui' \in {WaitAt(w), Stopped(w)} /\ UNCHANGED <<host, shown, offer, nro, installed>>
      BY <2>1 DEF Stop
    <3> QED
      BY <3>2, <3>3 DEF WorkersTypeOK, Task, WaitAt, Stopped
  <2>2. CASE StopJoins(w) \/ StopGivesUp(w)
    BY <2>2 DEF WorkersTypeOK, StopJoins, StopGivesUp, Stopped
  <2> QED
    BY <1>7, <2>1, <2>2 DEF Stopping
<1>8. CASE StartUpdateCheck \/ StartManagerUpdate
  BY <1>8 DEF WorkersTypeOK, StartUpdateCheck, StartManagerUpdate, Start, Threads, Workers
<1>9. CASE CheckDoesNotStart \/ NoKey \/ Leave
  BY <1>9 DEF WorkersTypeOK, CheckDoesNotStart, NoKey, Leave
<1>10. CASE Publish
  BY <1>10, MaxReleaseIsNat DEF WorkersTypeOK, Publish, ReleaseNumbers
<1>11. CASE UNCHANGED taskVars
  BY <1>11 DEF WorkersTypeOK, taskVars
<1> QED
  BY <1>1, <1>2, <1>3, <1>4, <1>5, <1>6, <1>7, <1>8, <1>9, <1>10, <1>11
  DEF WorkersNext, WorkerStep, Frame, Poll

(* The order of the releases: what the host serves only grows, a transfer  *)
(* brings what is served, and each hand-over copies one value to the next. *)
LEMMA OrderIsKept == WorkersTypeOK /\ Order /\ [WorkersNext]_taskVars => Order'
<1> SUFFICES ASSUME WorkersTypeOK, Order, [WorkersNext]_taskVars PROVE Order'
  OBVIOUS
<1> DEFINE c == task["check"]
<1> USE ReleasesAreNumbers DEF Below
<1>0. /\ c.result \in Nat /\ c.got \in Nat /\ host.manifest \in Nat
      /\ offer \in Nat /\ nro \in Nat
      /\ task \in [Workers -> Task] /\ c \in Task
  BY TaskType DEF WorkersTypeOK, HostFiles, Workers, Task
<1>a. ASSUME c.result' = c.result, c.got' = c.got, UNCHANGED <<host, offer, nro>>
      PROVE Order'
  BY <1>a DEF Order
<1>1. ASSUME NEW w \in Workers, WorkerQuits(w) \/ WorkerLooks(w) PROVE Order'
  <2>1. c.result' = c.result /\ c.got' = c.got
    <3>1. CASE w = "check"
      BY <1>0, <1>1, <3>1 DEF WorkerQuits, WorkerLooks, Task
    <3>2. CASE w # "check"
      BY <1>0, <1>1, <3>2 DEF WorkerQuits, WorkerLooks, Workers
    <3> QED
      BY <3>1, <3>2
  <2> QED
    BY <1>1, <2>1, <1>a DEF WorkerQuits, WorkerLooks
<1>2. ASSUME NEW w \in Workers, Get(w) PROVE Order'
  <2>1. CASE w = "check"
    <3>1. c.result' = c.result /\ c.got' \in {0, host.manifest}
      BY <1>0, <1>2, <2>1 DEF Get, Served, Task
    <3> QED
      BY <1>0, <1>2, <3>1 DEF Order, Get
  <2>2. CASE w # "check"
    <3>1. c.result' = c.result /\ c.got' = c.got
      BY <1>0, <1>2, <2>2 DEF Get, Task
    <3> QED
      BY <1>2, <3>1, <1>a DEF Get
  <2> QED
    BY <2>1, <2>2
<1>3. CASE GetSignature
  <2>1. c.result' = c.result /\ c.got' \in {0, c.got}
    BY <1>0, <1>3 DEF GetSignature, Task, Workers
  <2> QED
    BY <1>0, <1>3, <2>1 DEF Order, GetSignature
<1>4. ASSUME NEW w \in Workers, Answers(w) PROVE Order'
  <2>1. CASE w = "check"
    <3>1. c.result' = c.got /\ c.got' = c.got
      BY <1>0, <1>4, <2>1 DEF Answers, Task
    <3> QED
      BY <1>0, <1>4, <3>1 DEF Order, Answers
  <2>2. CASE w # "check"
    <3>1. c.result' = c.result /\ c.got' = c.got
      BY <1>0, <1>4, <2>2 DEF Answers, Task
    <3> QED
      BY <1>4, <3>1, <1>a DEF Answers
  <2> QED
    BY <2>1, <2>2
<1>5. ASSUME NEW w \in Workers, PollTakes(w) PROVE Order'
  <2>1. CASE w = "check"
    <3>1. /\ c.result' = 0 /\ c.got' = c.got /\ offer' = c.result
          /\ UNCHANGED <<host, nro>>
      BY <1>0, <1>5, <2>1 DEF PollTakes, ApplyUpdateCheck, Task
    <3> QED
      BY <1>0, <3>1 DEF Order
  <2>2. CASE w # "check"
    <3>1. c.result' = c.result /\ c.got' = c.got
      BY <1>0, <1>5, <2>2 DEF PollTakes, Workers
    <3>2. UNCHANGED <<host, offer>> /\ nro' \in {nro, offer}
      BY <1>5, <2>2 DEF PollTakes, ApplyManagerDownload
    <3> QED
      BY <1>0, <3>1, <3>2 DEF Order
  <2> QED
    BY <2>1, <2>2
<1>6. ASSUME NEW w \in Workers,
             PollFindsNothing(w) \/ PollAsks(w) \/ Started(w) \/ StopJoins(w) \/ StopGivesUp(w)
      PROVE Order'
  BY <1>6, <1>a DEF PollFindsNothing, PollAsks, Started, StopJoins, StopGivesUp
<1>7. ASSUME NEW w \in Workers, Stop(w) PROVE Order'
  <2>1. c.result' = c.result /\ c.got' = c.got
    <3>1. task' = task \/ task' = [task EXCEPT ![w].quit = TRUE]
      BY <1>7 DEF Stop
    <3> QED
      BY <1>0, <3>1 DEF Task, Workers
  <2> QED
    BY <1>7, <2>1, <1>a DEF Stop
<1>8. CASE StartUpdateCheck \/ StartManagerUpdate
  <2>1. c.result' = c.result /\ c.got' = c.got
    BY <1>0, <1>8 DEF StartUpdateCheck, StartManagerUpdate, Start, Task, Workers
  <2> QED
    BY <1>8, <2>1, <1>a DEF StartUpdateCheck, StartManagerUpdate
<1>9. CASE CheckDoesNotStart
  BY <1>0, <1>9 DEF CheckDoesNotStart, Order
<1>10. CASE NoKey \/ Leave \/ UNCHANGED taskVars
  BY <1>10, <1>a DEF NoKey, Leave, taskVars
<1>11. CASE Publish
  <2>1. host.manifest' \in Nat /\ host.manifest' >= host.manifest
    BY <1>0, <1>11 DEF Publish, WorkersTypeOK, HostFiles
  <2> QED
    BY <1>0, <1>11, <2>1 DEF Publish, Order
<1> QED
  BY <1>1, <1>2, <1>3, <1>4, <1>5, <1>6, <1>7, <1>8, <1>9, <1>10, <1>11
  DEF WorkersNext, WorkerStep, Frame, Poll, Stopping

(* The named version changes only together with the file. *)
LEMMA NameIsKept == InstalledIsNamed /\ [WorkersNext]_taskVars => InstalledIsNamed'
<1> SUFFICES ASSUME InstalledIsNamed, [WorkersNext]_taskVars PROVE InstalledIsNamed'
  OBVIOUS
<1>1. ASSUME NEW w \in Workers, PollTakes(w) PROVE InstalledIsNamed'
  BY <1>1 DEF PollTakes, ApplyManagerDownload, InstalledIsNamed
<1>2. ASSUME NEW w \in Workers,
             \/ WorkerStep(w) \/ Started(w) \/ Stopping(w)
             \/ PollFindsNothing(w) \/ PollAsks(w)
      PROVE InstalledIsNamed'
  BY <1>2 DEF InstalledIsNamed, WorkerStep, WorkerQuits, WorkerLooks, Get, Answers, Started,
              Stopping, Stop, StopJoins, StopGivesUp, PollFindsNothing, PollAsks
<1>3. CASE \/ GetSignature \/ StartUpdateCheck \/ CheckDoesNotStart \/ StartManagerUpdate
           \/ NoKey \/ Leave \/ Publish \/ UNCHANGED taskVars
  BY <1>3 DEF InstalledIsNamed, GetSignature, StartUpdateCheck, CheckDoesNotStart,
              StartManagerUpdate, NoKey, Leave, Publish, taskVars
<1> QED
  BY <1>1, <1>2, <1>3 DEF WorkersNext, Frame, Poll

(* A task is marked as running with its request, and until its answer.     *)
HasWork(t) == t.running => t.request \/ t.thread \in InTransfer \cup {"answer"}

LEMMA WorkIsKept == WorkersTypeOK /\ RunningHasWork /\ [WorkersNext]_taskVars => RunningHasWork'
<1> SUFFICES ASSUME WorkersTypeOK, RunningHasWork, [WorkersNext]_taskVars, NEW v \in Workers
             PROVE HasWork(task[v])'
  BY DEF RunningHasWork, HasWork
<1>0. task \in [Workers -> Task] /\ task[v] \in Task /\ HasWork(task[v])
  BY TaskType DEF RunningHasWork, HasWork
<1> USE DEF HasWork, InTransfer
<1>a. ASSUME task[v]' = task[v] PROVE HasWork(task[v])'
  BY <1>0, <1>a
<1>1. ASSUME NEW w \in Workers, WorkerStep(w) PROVE HasWork(task[v])'
  <2>1. CASE v = w
    BY <1>0, <1>1, <2>1 DEF WorkerStep, WorkerQuits, WorkerLooks, Get, Answers, Task
  <2>2. CASE v # w
    BY <1>0, <1>1, <2>2, <1>a DEF WorkerStep, WorkerQuits, WorkerLooks, Get, Answers
  <2> QED
    BY <2>1, <2>2
<1>2. CASE GetSignature
  <2>1. CASE v = "check"
    BY <1>0, <1>2, <2>1 DEF GetSignature, Task
  <2>2. CASE v # "check"
    BY <1>0, <1>2, <2>2, <1>a DEF GetSignature, Workers
  <2> QED
    BY <2>1, <2>2
<1>3. ASSUME NEW w \in Workers, PollTakes(w) PROVE HasWork(task[v])'
  BY <1>0, <1>3 DEF PollTakes, Task
<1>4. ASSUME NEW w \in Workers, Stop(w) PROVE HasWork(task[v])'
  <2>1. task' = task \/ task' = [task EXCEPT ![w].quit = TRUE]
    BY <1>4 DEF Stop
  <2> QED
    BY <1>0, <2>1 DEF Task
<1>5. CASE StartUpdateCheck \/ StartManagerUpdate
  <2>1. PICK w \in Workers : Start(w)
    BY <1>5 DEF StartUpdateCheck, StartManagerUpdate, Workers
  <2>2. CASE v = w
    BY <1>0, <2>1, <2>2 DEF Start, Task
  <2>3. CASE v # w
    BY <1>0, <2>1, <2>3, <1>a DEF Start
  <2> QED
    BY <2>2, <2>3
<1>6. ASSUME UNCHANGED task PROVE HasWork(task[v])'
  BY <1>6, <1>a
<1>7. ASSUME NEW w \in Workers,
             PollFindsNothing(w) \/ PollAsks(w) \/ Started(w) \/ StopJoins(w) \/ StopGivesUp(w)
      PROVE HasWork(task[v])'
  BY <1>7, <1>6 DEF PollFindsNothing, PollAsks, Started, StopJoins, StopGivesUp
<1>8. CASE CheckDoesNotStart \/ NoKey \/ Leave \/ Publish \/ UNCHANGED taskVars
  BY <1>8, <1>6 DEF CheckDoesNotStart, NoKey, Leave, Publish, taskVars
<1> QED
  BY <1>1, <1>2, <1>3, <1>4, <1>5, <1>7, <1>8 DEF WorkersNext, Frame, Poll, Stopping

-----------------------------------------------------------------------------
(* The inductive invariant holds in every reachable state.                 *)
THEOREM WorkersInvariance == WorkersSpec => []WorkersInv
<1>1. WorkersInv /\ [WorkersNext]_taskVars => WorkersInv'
  BY TypeIsKept, OrderIsKept, NameIsKept, WorkIsKept DEF WorkersInv
<1> QED
  BY WorkersInitEstablishes, <1>1, PTL DEF WorkersSpec

(* Every variable stays in its domain, for every number of releases.       *)
THEOREM WorkersTypeCorrect == WorkersSpec => []WorkersTypeOK
<1>1. WorkersInv => WorkersTypeOK
  BY DEF WorkersInv
<1> QED
  BY WorkersInvariance, <1>1, PTL

(* The manifest in hand is never behind the copy at the standard path.     *)
THEOREM OfferKeepsUp == WorkersSpec => []OfferIsNotBehind
<1>1. WorkersInv => OfferIsNotBehind
  <2> SUFFICES ASSUME WorkersInv, offer # 0 PROVE offer >= nro
    BY DEF OfferIsNotBehind
  <2>1. nro <= offer
    BY DEF WorkersInv, Order, Below
  <2>2. nro \in Nat /\ offer \in Nat
    BY ReleasesAreNumbers DEF WorkersInv, WorkersTypeOK
  <2> QED
    BY <2>1, <2>2
<1> QED
  BY WorkersInvariance, <1>1, PTL

(* The version the page names as installed is the one on the card.         *)
THEOREM NameIsTrue == WorkersSpec => []InstalledIsNamed
<1>1. WorkersInv => InstalledIsNamed
  BY DEF WorkersInv
<1> QED
  BY WorkersInvariance, <1>1, PTL

(* A task marked as running, which takes no other request, has one.        *)
THEOREM RunningWorks == WorkersSpec => []RunningHasWork
<1>1. WorkersInv => RunningHasWork
  BY DEF WorkersInv
<1> QED
  BY WorkersInvariance, <1>1, PTL

-----------------------------------------------------------------------------
(* The installer: what holds of the card between any two calls.              *)

Preparing == {"create", "write", "readback"}
Swapping == {"clear", "aside", "in", "backin"}
Restoring == {"restore", "restorein", "restored"}

(* A file whose swap has begun: it was moved aside if there was one, and is *)
(* still there.                                                            *)
Before(p) == run.before[p]
Backed(p) ==
  /\ p \in run.had <=> Before(p) # Absent
  /\ p \in run.had => card[p].old = Before(p)
Waits(p) == card[p].target = Before(p) /\ p \notin run.had

(* The files go in one after the other, and the record after all of them.  *)
IsIn(p) == p \in Files /\ (at = Record \/ (pc \in Swapping /\ p < at))

Swapped ==
  pc \in Preparing \cup Swapping =>
    \A p \in Paths :
      IF IsIn(p) THEN card[p].target = run.goal /\ Backed(p)
      ELSE IF p = at /\ pc \in {"in", "backin"} THEN card[p].target = Absent /\ Backed(p)
      ELSE Waits(p)

(* Nothing is swapped before everything is prepared.                       *)
Prepared ==
  /\ pc \in Preparing /\ at \in Files =>
       \A p \in Files : p < at => card[p].temp = run.goal
  /\ pc \in Swapping =>
       /\ card[at].temp = run.goal
       /\ at \in Files => \A p \in Files : at <= p => card[p].temp = run.goal

(* The way back.  That it needs a second failing call to leave a file       *)
(* without what it had is what one fault may not do.                       *)
Restored(p) == card[p].target = Before(p)
CanReturn(p) == Before(p) # Absent => Before(p) \in {card[p].target, card[p].old}
Reversed ==
  pc \in Restoring =>
    /\ at \in Files
    /\ \A p \in Paths : CanReturn(p)
    /\ \A p \in Files : p < at => Backed(p)
    /\ pc = "restore" => Backed(at)
    /\ pc = "restorein" => at \in run.had /\ Backed(at)
    /\ run.faults <= 1 =>
         /\ \A p \in Paths : p = Record \/ at < p => Restored(p)
         /\ pc = "restorein" => card[at].target = Absent
         /\ pc = "restored" => Restored(at)

(* What goes wrong has a failing call of this run as its cause.            *)
Caused ==
  /\ pc = "readback" => card[at].temp = run.goal \/ run.faults > 0
  /\ pc = "aside" => card[at].old = Absent \/ run.faults > 0
  /\ pc \in Restoring \cup {"backin"} => run.faults > 0
  /\ pc = "backin" => at \in run.had

(* An uninstall keeps the record as long as a file may be left.            *)
Removed ==
  /\ pc \in {"delete", "unrecord"} => card[Record].target # Absent
  /\ pc = "delete" => at \in Files
  /\ pc = "delete" /\ run.faults = 0 => \A p \in Files : p < at => card[p].target = Absent
  /\ pc = "unrecord" /\ run.faults = 0 => \A p \in Files : card[p].target = Absent
  /\ pc = "idle" /\ run.result # "none" /\ run.goal = Absent =>
       card[Record].target # Absent \/ \A p \in Files : card[p].target = Absent

Control ==
  /\ pc \in Preparing \cup Swapping \cup Restoring \cup {"drop", "done"} => run.goal # Absent
  /\ pc \in {"delete", "unrecord"} => run.goal = Absent
  /\ pc \in {"drop", "done"} => \A p \in Paths : card[p].target = run.goal
  /\ pc = "unrecord" => at = Record
  /\ pc = "down" => run.result = "none"

Phases == Swapped /\ Prepared /\ Reversed /\ Caused /\ Removed /\ Control
InstallerInv == InstallerTypeOK /\ NeverHalfWritten /\ Phases /\ EndsWhole

-----------------------------------------------------------------------------
(* The records of a run and of a path, and what the helpers do to them.    *)
Runs ==
  [goal : Versions \cup {Absent}, before : [Paths -> Contents], had : SUBSET Paths,
   faults : 0 .. MaxFaults, result : {"none", "ok", "failed"}]
Cards == [Paths -> [target : Contents, temp : Contents, old : Contents]]

LEMMA Numbers ==
  /\ Record \in Paths /\ Record \notin Files /\ 1 \in Files /\ NumFiles \in Files
  /\ Files \subseteq Paths /\ \A p \in Paths : p \in Files \/ p = Record
  /\ Paths \subseteq Nat /\ \A p \in Files : 1 <= p /\ p <= NumFiles /\ p - 1 \in Paths
  /\ \A p \in Files : p # NumFiles => p + 1 \in Files
  /\ Absent \in Contents /\ Torn \in Contents /\ Versions \subseteq Contents
  /\ Absent \notin Versions /\ Torn \notin Versions /\ Absent # Torn
BY AgentAssumption DEF Record, Paths, Files, Absent, Torn, Versions, Contents

LEMMA RunBegins ==
  ASSUME NEW found \in [Paths -> Contents], NEW goal \in Versions \cup {Absent},
         run' = [goal |-> goal, before |-> found, had |-> {}, faults |-> 0, result |-> "none"]
  PROVE  /\ run' \in Runs /\ run'.goal = goal /\ run'.had = {} /\ run'.faults = 0
         /\ run'.result = "none" /\ run'.before = found
<1>1. 0 \in 0 .. MaxFaults /\ {} \in SUBSET Paths /\ "none" \in {"none", "ok", "failed"}
  BY AgentAssumption
<1> QED
  BY <1>1 DEF Runs

LEMMA FaultIsCounted ==
  ASSUME run \in Runs, Fault
  PROVE  /\ Faulted(run) \in Runs
         /\ Faulted(run).goal = run.goal /\ Faulted(run).before = run.before
         /\ Faulted(run).had = run.had /\ Faulted(run).result = run.result
         /\ Faulted(run).faults = run.faults + 1
BY AgentAssumption DEF Runs, Faulted, Fault

LEMMA RunEnds ==
  ASSUME NEW r \in Runs, NEW result \in {"ok", "failed"}, Ends(r, result)
  PROVE  /\ pc' = "idle" /\ at' = Record
         /\ run' \in Runs /\ run'.goal = r.goal /\ run'.before = r.before
         /\ run'.had = r.had /\ run'.faults = r.faults /\ run'.result = result
BY DEF Runs, Ends, Goto

LEMMA WithoutOne ==
  ASSUME NEW c \in Cards, NEW ps
  PROVE  /\ Without(c, ps, "temp") \in Cards
         /\ \A p \in Paths : /\ Without(c, ps, "temp")[p].target = c[p].target
                             /\ Without(c, ps, "temp")[p].old = c[p].old
                             /\ p \notin ps => Without(c, ps, "temp")[p] = c[p]
         /\ Without(c, ps, "old") \in Cards
         /\ \A p \in Paths : /\ Without(c, ps, "old")[p].target = c[p].target
                             /\ Without(c, ps, "old")[p].temp = c[p].temp
                             /\ p \in ps => Without(c, ps, "old")[p].old = Absent
                             /\ p \notin ps => Without(c, ps, "old")[p] = c[p]
         /\ Without(c, ps, "target") \in Cards
         /\ \A p \in Paths : /\ Without(c, ps, "target")[p].old = c[p].old
                             /\ Without(c, ps, "target")[p].temp = c[p].temp
                             /\ p \in ps => Without(c, ps, "target")[p].target = Absent
                             /\ p \notin ps => Without(c, ps, "target")[p] = c[p]
BY Numbers DEF Without, Cards

LEMMA TypeParts ==
  InstallerTypeOK => card \in Cards /\ run \in Runs /\ at \in Paths /\ crashes \in 0 .. MaxCrashes
BY DEF InstallerTypeOK, Cards, Runs

-----------------------------------------------------------------------------
(* A run that is not over holds none of what is said of one that is.       *)
LEMMA NotOver ==
  ASSUME pc' # "idle"
  PROVE  EndsWhole'
BY DEF EndsWhole, AllOrNothing, LeftoversDoNotBlock, EveryFileIsRecorded, Idle

(* The way back from a failed call, to the file before.                    *)
LEMMA RollBackKeeps ==
  ASSUME InstallerTypeOK, NEW last \in Paths, NEW r \in Runs, RollBack(last, r), UNCHANGED crashes,
         card' \in Cards, r.goal \in Versions, r.faults > 0,
         \A p \in Paths : card'[p].target # Torn /\ card'[p].old # Torn,
         \A p \in Paths :
           r.before[p] # Absent => r.before[p] \in {card'[p].target, card'[p].old},
         \A p \in Files : p <= last =>
           /\ p \in r.had <=> r.before[p] # Absent
           /\ p \in r.had => card'[p].old = r.before[p],
         r.faults <= 1 =>
           \A p \in Paths : p = Record \/ last < p => card'[p].target = r.before[p]
  PROVE  InstallerInv'
<1> USE Numbers
<1>1. CASE last = Record
  <2>1. /\ pc' = "idle" /\ at' = Record /\ run' \in Runs /\ run'.goal = r.goal
        /\ run'.before = r.before /\ run'.faults = r.faults /\ run'.result = "failed"
    BY <1>1, RunEnds DEF RollBack
  <2>2. InstallerTypeOK'
    BY <2>1 DEF InstallerTypeOK, Cards, Runs
  <2>3. NeverHalfWritten'
    BY DEF NeverHalfWritten
  <2>4. Phases'
    BY <2>1 DEF Phases, Swapped, Prepared, Reversed, Caused, Removed, Control, Preparing,
                Swapping, Restoring
  <2>5. r.faults <= 1 => \A p \in Paths : card'[p].target = r.before[p]
    BY <1>1 DEF Record, Paths
  <2>6. AllOrNothing'
    BY <2>1, <2>5 DEF AllOrNothing, Idle
  <2>7. LeftoversDoNotBlock'
    BY <2>1 DEF LeftoversDoNotBlock, Idle
  <2>8. EveryFileIsRecorded'
    BY <2>1, <2>5 DEF EveryFileIsRecorded, Described
  <2> QED
    BY <2>2, <2>3, <2>4, <2>6, <2>7, <2>8 DEF InstallerInv, EndsWhole
<1>2. CASE last # Record
  <2>1. pc' = "restore" /\ at' = last /\ run' = r /\ last \in Files
    BY <1>2 DEF RollBack, Goto
  <2>2. InstallerTypeOK'
    BY <2>1 DEF InstallerTypeOK, Cards, Runs
  <2>3. NeverHalfWritten'
    BY DEF NeverHalfWritten
  <2>4. Reversed'
    BY <2>1 DEF Reversed, Restoring, CanReturn, Backed, Restored, Before, Paths, Files
  <2>5. Swapped' /\ Prepared' /\ Removed'
    BY <2>1 DEF Swapped, Prepared, Removed, Preparing, Swapping
  <2>6. Caused'
    BY <2>1 DEF Caused
  <2>7. Control'
    <3>1. run'.goal # Absent
      BY <2>1
    <3> QED
      BY <2>1, <3>1 DEF Control
  <2> QED
    BY <2>1, <2>2, <2>3, <2>4, <2>5, <2>6, <2>7, NotOver DEF InstallerInv, Phases
<1> QED
  BY <1>1, <1>2

(* A file that cannot be prepared: nothing of its kind is swapped yet.     *)
LEMMA PrepareFailsKeeps ==
  ASSUME InstallerInv, pc \in Preparing, UNCHANGED crashes, NEW r \in Runs, PrepareFails(r),
         r.goal = run.goal, r.before = run.before, r.had = run.had, r.faults > 0
  PROVE  InstallerInv'
<1> USE Numbers, TypeParts
<1> InstallerTypeOK
  BY DEF InstallerInv
<1>1. /\ card' \in Cards
      /\ \A p \in Paths : card'[p].target = card[p].target /\ card'[p].old = card[p].old
  BY WithoutOne DEF PrepareFails, InstallerInv
<1>2. \A p \in Paths : card'[p].target # Torn /\ card'[p].old # Torn
  BY <1>1 DEF InstallerInv, NeverHalfWritten
<1>3. r.goal \in Versions
  BY DEF InstallerInv, Phases, Control, Runs
<1>4. CASE at = Record
  <2>1. RollBack(NumFiles, r)
    BY <1>4 DEF PrepareFails
  <2>2. \A p \in Files : Backed(p)
    BY <1>4 DEF InstallerInv, Phases, Swapped, IsIn, Preparing
  <2>3. card[Record].target = Before(Record)
    BY <1>4 DEF InstallerInv, Phases, Swapped, IsIn, Preparing, Waits
  <2>4. \A p \in Files :
          /\ p \in r.had <=> r.before[p] # Absent
          /\ p \in r.had => card'[p].old = r.before[p]
    BY <1>1, <2>2 DEF Backed, Before
  <2>5. \A p \in Paths :
          r.before[p] # Absent => r.before[p] \in {card'[p].target, card'[p].old}
    BY <1>1, <2>3, <2>4 DEF Before
  <2>6. \A p \in Paths : p = Record \/ NumFiles < p => card'[p].target = r.before[p]
    BY <1>1, <2>3 DEF Before, Paths
  <2> QED
    BY <1>1, <1>2, <1>3, <2>1, <2>4, <2>5, <2>6, RollBackKeeps
<1>5. CASE at # Record
  <2>1. RollBack(Record, r)
    BY <1>5 DEF PrepareFails
  <2>2. \A p \in Paths : card[p].target = Before(p)
    BY <1>5 DEF InstallerInv, Phases, Swapped, IsIn, Preparing, Swapping, Waits
  <2>3. \A p \in Paths : card'[p].target = r.before[p]
    BY <1>1, <2>2 DEF Before
  <2>4. \A p \in Files : ~(p <= Record)
    BY DEF Files, Record
  <2> QED
    BY <1>1, <1>2, <1>3, <2>1, <2>3, <2>4, RollBackKeeps
<1> QED
  BY <1>4, <1>5

(* A swap that fails: c is what it has left of its own file, and the ones  *)
(* before it go back.                                                      *)
LEMMA SwapFailsKeeps ==
  ASSUME InstallerInv, pc \in Swapping, UNCHANGED crashes, NEW r \in Runs, NEW c \in Cards,
         SwapFails(c, r), r.goal = run.goal, r.before = run.before, r.had = run.had,
         r.faults > 0,
         \A p \in Paths \ {at} : c[p] = card[p],
         c[at].target # Torn /\ c[at].old # Torn,
         Before(at) # Absent => Before(at) \in {c[at].target, c[at].old},
         r.faults <= 1 => c[at].target = Before(at)
  PROVE  InstallerInv'
<1> USE Numbers, TypeParts
<1> InstallerTypeOK
  BY DEF InstallerInv
<1> DEFINE last == IF at = Record THEN NumFiles ELSE at - 1
<1>1. /\ card' \in Cards
      /\ \A p \in Paths : card'[p].target = c[p].target /\ card'[p].old = c[p].old
  BY WithoutOne DEF SwapFails
<1>2. \A p \in Paths : card'[p].target # Torn /\ card'[p].old # Torn
  BY <1>1 DEF InstallerInv, NeverHalfWritten
<1>3. r.goal \in Versions
  BY DEF InstallerInv, Phases, Control, Runs
<1>4. RollBack(last, r) /\ last \in Paths /\ at \in Paths
  BY DEF SwapFails, InstallerInv
<1>5. \A p \in Files : p <= last => p # at /\ Backed(p)
  <2>1. \A p \in Files : p <= last => p # at /\ IsIn(p)
    BY <1>4 DEF IsIn, Files, Paths, Record
  <2> QED
    BY <2>1 DEF InstallerInv, Phases, Swapped
<1>6. \A p \in Paths : p # at /\ (p = Record \/ last < p) => card[p].target = Before(p)
  <2>1. \A p \in Paths : p # at /\ (p = Record \/ last < p) => ~IsIn(p)
    BY <1>4 DEF IsIn, Files, Paths, Record
  <2> QED
    BY <2>1 DEF InstallerInv, Phases, Swapped, Waits
<1>7. \A p \in Paths : p # at =>
        (Before(p) # Absent => Before(p) \in {card[p].target, card[p].old})
  <2>1. \A p \in Paths : (p \in Files /\ p <= last) \/ p = Record \/ last < p
    BY <1>4 DEF Paths, Files, Record
  <2> HIDE DEF last
  <2> QED
    BY <1>5, <1>6, <2>1 DEF Backed
<1> HIDE DEF last
<1>8. \A p \in Paths :
        r.before[p] # Absent => r.before[p] \in {card'[p].target, card'[p].old}
  <2>1. \A p \in Paths : r.before[p] = Before(p)
    BY DEF Before
  <2>2. \A p \in Paths : p # at => c[p] = card[p]
    OBVIOUS
  <2>3. \A p \in Paths : Before(p) # Absent => Before(p) \in {c[p].target, c[p].old}
    BY <1>7, <2>2
  <2> QED
    BY <1>1, <2>1, <2>3
<1>9. \A p \in Files : p <= last =>
        /\ p \in r.had <=> r.before[p] # Absent
        /\ p \in r.had => card'[p].old = r.before[p]
  BY <1>1, <1>5 DEF Backed, Before
<1>10. r.faults <= 1 =>
         \A p \in Paths : p = Record \/ last < p => card'[p].target = r.before[p]
  BY <1>1, <1>6 DEF Before
<1> QED
  BY <1>1, <1>2, <1>3, <1>4, <1>8, <1>9, <1>10, RollBackKeeps

-----------------------------------------------------------------------------
(* What a step that goes on with preparing and swapping has to keep.       *)
LEMMA GoesOn ==
  ASSUME pc' \in Preparing \cup Swapping, card' \in Cards, run' \in Runs, at' \in Paths,
         UNCHANGED crashes, crashes \in 0 .. MaxCrashes, run'.goal # Absent,
         NeverHalfWritten', Swapped', Prepared', Caused'
  PROVE  InstallerInv'
<1>1. InstallerTypeOK'
  BY DEF InstallerTypeOK, Cards, Runs, Preparing, Swapping
<1>2. Reversed' /\ Removed'
  BY DEF Reversed, Removed, Preparing, Swapping, Restoring
<1>3. Control'
  BY DEF Control, Preparing, Swapping, Restoring
<1>4. EndsWhole'
  BY NotOver DEF Preparing, Swapping
<1> QED
  BY <1>1, <1>2, <1>3, <1>4 DEF InstallerInv, Phases

(* Preparing a file does not touch what is swapped and what waits.         *)
LEMMA SwappedStays ==
  ASSUME Swapped, pc \in Preparing, pc' \in Preparing, at' = at, run'.goal = run.goal,
         run'.before = run.before, run'.had = run.had,
         \A p \in Paths : card'[p].target = card[p].target /\ card'[p].old = card[p].old
  PROVE  Swapped'
<1>1. \A p \in Paths : /\ IsIn(p)' <=> IsIn(p)
                       /\ Backed(p)' <=> Backed(p)
                       /\ Waits(p)' <=> Waits(p)
  BY DEF IsIn, Backed, Waits, Before, Preparing, Swapping
<1>2. pc \notin {"in", "backin"} /\ pc' \notin {"in", "backin"}
  BY DEF Preparing
<1> QED
  BY <1>1, <1>2 DEF Swapped

LEMMA StartInstallKeeps == ASSUME InstallerInv, StartInstall PROVE InstallerInv'
<1> USE Numbers, TypeParts
<1> InstallerTypeOK /\ NeverHalfWritten
  BY DEF InstallerInv
<1>1. /\ run' \in Runs /\ run'.goal # Absent /\ run'.had = {} /\ run'.faults = 0
      /\ \A p \in Paths : run'.before[p] = card[p].target
  <2> DEFINE found == [p \in Paths |-> card[p].target]
  <2>1. found \in [Paths -> Contents] /\ \A p \in Paths : found[p] = card[p].target
    BY DEF Cards
  <2>2. PICK v \in Versions : run' = [NoRun EXCEPT !.goal = v, !.before = found]
    BY Zenon DEF StartInstall
  <2> HIDE DEF found
  <2>3. run' = [goal |-> v, before |-> found, had |-> {}, faults |-> 0, result |-> "none"]
    BY <2>2 DEF NoRun
  <2> QED
    BY <2>1, <2>3, RunBegins
<1>2. pc' = "create" /\ at' = 1 /\ UNCHANGED <<card, crashes>>
  BY DEF StartInstall, Goto
<1>3. NeverHalfWritten'
  BY <1>2 DEF NeverHalfWritten
<1>4. Swapped'
  BY <1>1, <1>2 DEF Swapped, IsIn, Waits, Before, Swapping, Record
<1>5. Prepared' /\ Caused'
  BY <1>2 DEF Prepared, Caused, Swapping, Restoring
<1> QED
  BY <1>1, <1>2, <1>3, <1>4, <1>5, GoesOn DEF Preparing

LEMMA PrepareCreatesKeeps == ASSUME InstallerInv, PrepareCreates PROVE InstallerInv'
<1> USE Numbers, TypeParts
<1> InstallerTypeOK /\ NeverHalfWritten /\ Phases /\ UNCHANGED crashes /\ pc = "create"
  BY DEF InstallerInv, PrepareCreates
<1> DEFINE f == ClearedTemp(card[at])
<1>1. /\ f.temp = Absent /\ f.target = card[at].target /\ f.old = card[at].old
      /\ f \in [target : Contents, temp : Contents, old : Contents]
  BY DEF ClearedTemp, Cards
<1> HIDE DEF f
<1>2. CASE /\ card' = [card EXCEPT ![at] = [f EXCEPT !.temp = Torn]]
           /\ Goto("write", at) /\ UNCHANGED run
  <2>1. /\ pc' = "write" /\ at' = at /\ run' = run /\ card' \in Cards
        /\ \A p \in Paths : /\ card'[p].target = card[p].target
                            /\ card'[p].old = card[p].old
                            /\ p # at => card'[p].temp = card[p].temp
    BY <1>1, <1>2 DEF Goto, Cards
  <2>2. NeverHalfWritten'
    BY <2>1 DEF NeverHalfWritten
  <2>3. Swapped'
    BY <2>1, SwappedStays DEF Phases, Preparing
  <2>4. Prepared' /\ Caused'
    BY <2>1 DEF Phases, Prepared, Caused, Preparing, Swapping, Restoring, Files
  <2>5. run.goal # Absent
    BY DEF Phases, Control, Preparing
  <2> QED
    BY <2>1, <2>2, <2>3, <2>4, <2>5, GoesOn DEF Preparing
<1>3. CASE Fault /\ PrepareFails(Faulted(run))
  BY <1>3, FaultIsCounted, PrepareFailsKeeps DEF Preparing, Runs
<1> QED
  BY <1>1, <1>2, <1>3 DEF PrepareCreates, f

LEMMA PrepareWritesKeeps == ASSUME InstallerInv, PrepareWrites PROVE InstallerInv'
<1> USE Numbers, TypeParts
<1> InstallerTypeOK /\ NeverHalfWritten /\ Phases /\ UNCHANGED crashes /\ pc = "write"
  BY DEF InstallerInv, PrepareWrites
<1>1. run.goal \in Versions
  BY DEF Phases, Control, Preparing, Runs
<1>2. ASSUME pc' = "readback", at' = at, run' \in Runs, card' \in Cards,
             run'.goal = run.goal, run'.before = run.before, run'.had = run.had,
             \A p \in Paths : /\ card'[p].target = card[p].target
                              /\ card'[p].old = card[p].old
                              /\ p # at => card'[p].temp = card[p].temp,
             card'[at].temp = run.goal \/ run'.faults > 0
      PROVE  InstallerInv'
  <2>1. NeverHalfWritten'
    BY <1>2 DEF NeverHalfWritten
  <2>2. Swapped'
    BY <1>2, SwappedStays DEF Phases, Preparing
  <2>3. Prepared' /\ Caused'
    BY <1>2 DEF Phases, Prepared, Caused, Preparing, Swapping, Restoring, Files
  <2> QED
    BY <1>1, <1>2, <2>1, <2>2, <2>3, GoesOn DEF Preparing
<1>3. CASE card' = [card EXCEPT ![at].temp = run.goal] /\ Goto("readback", at) /\ UNCHANGED run
  BY <1>1, <1>2, <1>3 DEF Goto, Cards
<1>4. CASE Fault /\ Goto("readback", at) /\ run' = Faulted(run) /\ UNCHANGED card
  BY <1>2, <1>4, FaultIsCounted DEF Goto, Runs
<1>5. CASE Fault /\ PrepareFails(Faulted(run))
  BY <1>5, FaultIsCounted, PrepareFailsKeeps DEF Preparing, Runs
<1> QED
  BY <1>3, <1>4, <1>5 DEF PrepareWrites

LEMMA PrepareReadsBackKeeps == ASSUME InstallerInv, PrepareReadsBack PROVE InstallerInv'
<1> USE Numbers, TypeParts
<1> InstallerTypeOK /\ NeverHalfWritten /\ Phases /\ UNCHANGED crashes /\ pc = "readback"
  BY DEF InstallerInv, PrepareReadsBack
<1>1. CASE ~ReadBackMatches(card[at])
  <2>1. PrepareFails(run) /\ run.faults > 0
    BY <1>1 DEF PrepareReadsBack, ReadBackMatches, Phases, Caused
  <2> QED
    BY <2>1, PrepareFailsKeeps DEF Preparing
<1>2. CASE ReadBackMatches(card[at])
  <2> UNCHANGED <<card, run>> /\ card[at].temp = run.goal
    BY <1>2 DEF PrepareReadsBack, ReadBackMatches
  <2>1. NeverHalfWritten' /\ run'.goal # Absent
    BY DEF NeverHalfWritten, Phases, Control, Preparing
  <2>2. CASE at = Record
    <3>1. pc' = "clear" /\ at' = Record
      BY <1>2, <2>2 DEF PrepareReadsBack, Goto
    <3>2. Swapped'
      BY <2>2, <3>1 DEF Phases, Swapped, IsIn, Backed, Waits, Before, Preparing, Swapping
    <3>3. Prepared' /\ Caused'
      BY <2>2, <3>1 DEF Prepared, Caused, Preparing, Swapping, Restoring
    <3> QED
      BY <2>1, <3>1, <3>2, <3>3, GoesOn DEF Swapping
  <2>3. CASE at = NumFiles
    <3>1. pc' = "clear" /\ at' = 1
      BY <1>2, <2>3 DEF PrepareReadsBack, Goto
    <3>2. Swapped'
      BY <2>3, <3>1 DEF Phases, Swapped, IsIn, Backed, Waits, Before, Preparing, Swapping, Record
    <3>3. \A p \in Files : card[p].temp = run.goal
      BY <2>3 DEF Phases, Prepared, Preparing, Files
    <3>4. Prepared' /\ Caused'
      BY <3>1, <3>3 DEF Prepared, Caused, Preparing, Swapping, Restoring
    <3> QED
      BY <2>1, <3>1, <3>2, <3>4, GoesOn DEF Swapping
  <2>4. CASE at \notin {Record, NumFiles}
    <3>1. pc' = "create" /\ at' = at + 1 /\ at \in Files /\ at' \in Files
      BY <1>2, <2>4 DEF PrepareReadsBack, Goto
    <3>2. Swapped'
      BY <2>4, <3>1 DEF Phases, Swapped, IsIn, Backed, Waits, Before, Preparing, Swapping
    <3>3. \A p \in Files : p < at + 1 => card[p].temp = run.goal
      BY <3>1 DEF Phases, Prepared, Preparing, Files
    <3>4. Prepared' /\ Caused'
      BY <3>1, <3>3 DEF Prepared, Caused, Preparing, Swapping, Restoring
    <3> QED
      BY <2>1, <3>1, <3>2, <3>4, GoesOn DEF Preparing
  <2> QED
    BY <2>2, <2>3, <2>4
<1> QED
  BY <1>1, <1>2

-----------------------------------------------------------------------------
(* The file in hand is not one of those before it.                         *)
LEMMA NotInItself == ASSUME at \in Paths PROVE ~IsIn(at)
BY DEF IsIn, Paths, Files, Record

(* What one path's swap takes away leaves the other paths alone.           *)
LEMMA WithoutTemp ==
  ASSUME card \in Cards, at \in Paths
  PROVE  /\ Without(card, {at}, "temp") \in Cards
         /\ \A p \in Paths \ {at} : Without(card, {at}, "temp")[p] = card[p]
         /\ Without(card, {at}, "temp")[at].target = card[at].target
         /\ Without(card, {at}, "temp")[at].old = card[at].old
<1>1. \A p \in Paths \ {at} : p \in Paths /\ p \notin {at}
  OBVIOUS
<1> QED
  BY <1>1, WithoutOne

LEMMA CommitClearsKeeps == ASSUME InstallerInv, CommitClears PROVE InstallerInv'
<1> USE Numbers, TypeParts
<1> InstallerTypeOK /\ NeverHalfWritten /\ Phases /\ UNCHANGED crashes /\ pc = "clear"
  BY DEF InstallerInv, CommitClears
<1>1. pc' = "aside" /\ at' = at
  BY DEF CommitClears, Goto
<1>2. /\ run' \in Runs /\ run'.goal = run.goal /\ run'.before = run.before /\ run'.had = run.had
      /\ card' \in Cards
      /\ \A p \in Paths : /\ card'[p].target = card[p].target
                          /\ card'[p].temp = card[p].temp
                          /\ p # at => card'[p].old = card[p].old
      /\ card'[at].old = Absent \/ (card'[at].old = card[at].old /\ run'.faults > 0)
  <2>1. CASE card' = Without(card, {at}, "old") /\ UNCHANGED run
    <3>1. \A p \in Paths : p # at => p \notin {at}
      OBVIOUS
    <3>2. at \in {at} /\ card \in Cards
      OBVIOUS
    <3> DEFINE c == Without(card, {at}, "old")
    <3>3. /\ c \in Cards
          /\ \A p \in Paths : /\ c[p].target = card[p].target
                              /\ c[p].temp = card[p].temp
                              /\ p \in {at} => c[p].old = Absent
                              /\ p \notin {at} => c[p] = card[p]
      BY <3>2, WithoutOne
    <3>4. card' = c
      BY <2>1
    <3> HIDE DEF c
    <3> QED
      BY <2>1, <3>1, <3>2, <3>3, <3>4
  <2>2. CASE Fault /\ card[at].old # Absent /\ run' = Faulted(run) /\ UNCHANGED card
    BY <2>2, FaultIsCounted DEF Runs
  <2> QED
    BY <2>1, <2>2 DEF CommitClears
<1>3. NeverHalfWritten'
  BY <1>2 DEF NeverHalfWritten
<1>4. Swapped'
  BY <1>1, <1>2 DEF Phases, Swapped, IsIn, Backed, Waits, Before, Preparing, Swapping
<1>5. Prepared'
  BY <1>1, <1>2 DEF Phases, Prepared, Preparing, Swapping
<1>6. Caused'
  BY <1>1, <1>2 DEF Caused, Restoring
<1>7. run'.goal # Absent
  BY <1>2 DEF Phases, Control, Swapping
<1> QED
  BY <1>1, <1>2, <1>3, <1>4, <1>5, <1>6, <1>7, GoesOn DEF Swapping

LEMMA CommitMovesAsideKeeps == ASSUME InstallerInv, CommitMovesAside PROVE InstallerInv'
<1> USE Numbers, TypeParts
<1> InstallerTypeOK /\ NeverHalfWritten /\ Phases /\ UNCHANGED crashes /\ pc = "aside"
  BY DEF InstallerInv, CommitMovesAside
<1>1. card[at].target = Before(at) /\ at \notin run.had
  BY NotInItself DEF Phases, Swapped, Waits, Swapping
<1>2. run.goal # Absent
  BY DEF Phases, Control, Swapping
<1>3. ASSUME pc' = "in", at' = at, run' \in Runs, card' \in Cards, NeverHalfWritten',
             run'.goal = run.goal, run'.before = run.before,
             \A p \in Paths : /\ card'[p].temp = card[p].temp
                              /\ p # at => card'[p] = card[p] /\ (p \in run'.had <=> p \in run.had),
             card'[at].target = Absent,
             at \in run'.had <=> Before(at) # Absent,
             at \in run'.had => card'[at].old = Before(at)
      PROVE  InstallerInv'
  <2>1. Swapped'
    BY <1>3 DEF Phases, Swapped, IsIn, Backed, Waits, Before, Preparing, Swapping
  <2>2. Prepared'
    BY <1>3 DEF Phases, Prepared, Preparing, Swapping
  <2>3. Caused'
    BY <1>3 DEF Caused, Restoring
  <2> QED
    BY <1>2, <1>3, <2>1, <2>2, <2>3, GoesOn DEF Swapping
<1>4. ASSUME NEW r \in Runs, SwapFails(card, r), r.goal = run.goal, r.before = run.before,
             r.had = run.had, r.faults > 0
      PROVE  InstallerInv'
  <2>1. card[at].target # Torn /\ card[at].old # Torn
    BY DEF NeverHalfWritten
  <2> QED
    BY <1>1, <1>4, <2>1, SwapFailsKeeps DEF Swapping
<1>5. CASE card[at].target = Absent /\ Goto("in", at) /\ UNCHANGED <<card, run>>
  <2>1. NeverHalfWritten'
    BY <1>5 DEF NeverHalfWritten
  <2> QED
    BY <1>1, <1>3, <1>5, <2>1 DEF Goto
<1>6. CASE /\ card[at].target # Absent
           /\ card' = [card EXCEPT ![at].old = card[at].target, ![at].target = Absent]
           /\ run' = [run EXCEPT !.had = @ \cup {at}]
           /\ Goto("in", at)
  <2>1. /\ card' \in Cards /\ \A p \in Paths : card'[p].temp = card[p].temp
        /\ \A p \in Paths : p # at => card'[p] = card[p]
        /\ card'[at].target = Absent /\ card'[at].old = card[at].target
    BY <1>6 DEF Cards
  <2>2. NeverHalfWritten'
    BY <2>1 DEF NeverHalfWritten
  <2>3. run' \in Runs /\ run'.goal = run.goal /\ run'.before = run.before
        /\ run'.had = run.had \cup {at}
    BY <1>6 DEF Runs
  <2> QED
    BY <1>1, <1>3, <1>6, <2>1, <2>2, <2>3 DEF Goto
<1>7. CASE card[at].old # Absent /\ SwapFails(card, run)
  <2>1. run.faults > 0
    BY <1>7 DEF Phases, Caused
  <2> QED
    BY <1>4, <1>7, <2>1
<1>8. CASE Fault /\ SwapFails(card, Faulted(run))
  BY <1>4, <1>8, FaultIsCounted DEF Runs
<1> QED
  BY <1>5, <1>6, <1>7, <1>8 DEF CommitMovesAside

LEMMA CommitMovesInKeeps == ASSUME InstallerInv, CommitMovesIn PROVE InstallerInv'
<1> USE Numbers, TypeParts
<1> InstallerTypeOK /\ NeverHalfWritten /\ Phases /\ UNCHANGED crashes /\ pc = "in"
  BY DEF InstallerInv, CommitMovesIn
<1>1. card[at].target = Absent /\ Backed(at)
  BY NotInItself DEF Phases, Swapped, Swapping
<1>2. run.goal \in Versions /\ card[at].temp = run.goal
  BY DEF Phases, Control, Prepared, Swapping, Runs
<1>3. CASE /\ card' = [card EXCEPT ![at].target = card[at].temp, ![at].temp = Absent]
           /\ CASE at = Record -> Goto("drop", Record)
                [] at = NumFiles -> Goto("create", Record)
                [] OTHER -> Goto("clear", at + 1)
           /\ UNCHANGED run
  <2>1. /\ card' \in Cards /\ \A p \in Paths : card'[p].old = card[p].old
        /\ \A p \in Paths : p # at => card'[p] = card[p]
        /\ card'[at].target = run.goal
    BY <1>2, <1>3 DEF Cards
  <2>2. NeverHalfWritten'
    BY <1>2, <2>1 DEF NeverHalfWritten
  <2>3. \A p \in Paths : IsIn(p) \/ p = at => card'[p].target = run.goal /\ Backed(p)
    BY <1>1, <2>1 DEF Phases, Swapped, Swapping
  <2>4. \A p \in Paths : ~IsIn(p) /\ p # at => Waits(p)
    BY DEF Phases, Swapped, Swapping
  <2>5. CASE at = Record
    <3>1. pc' = "drop" /\ at' = Record /\ run' = run
      BY <1>3, <2>5 DEF Goto
    <3>2. InstallerTypeOK'
      BY <2>1, <3>1 DEF InstallerTypeOK, Cards, Runs
    <3>3. \A p \in Paths : card'[p].target = run.goal
      BY <2>3, <2>5 DEF IsIn
    <3>4. Swapped' /\ Prepared' /\ Reversed' /\ Caused' /\ Removed'
      BY <3>1 DEF Swapped, Prepared, Reversed, Caused, Removed, Preparing, Swapping, Restoring
    <3>5. Control'
      BY <1>2, <3>1, <3>3 DEF Control
    <3> QED
      BY <2>2, <3>1, <3>2, <3>4, <3>5, NotOver DEF InstallerInv, Phases
  <2>6. CASE at = NumFiles
    <3>1. pc' = "create" /\ at' = Record /\ run' = run
      BY <1>3, <2>6 DEF Goto
    <3>2. \A p \in Files : IsIn(p) \/ p = at
      BY <2>6 DEF IsIn, Swapping, Files
    <3>3. ~IsIn(Record) /\ Record # at
      BY <2>6 DEF IsIn
    <3>4. Swapped'
      BY <2>1, <2>3, <2>4, <3>1, <3>2, <3>3
      DEF Swapped, IsIn, Backed, Waits, Before, Preparing, Swapping
    <3>5. Prepared' /\ Caused'
      BY <3>1 DEF Prepared, Caused, Preparing, Swapping, Restoring
    <3> QED
      BY <1>2, <2>1, <2>2, <3>1, <3>4, <3>5, GoesOn DEF Preparing
  <2>7. CASE at \notin {Record, NumFiles}
    <3>1. pc' = "clear" /\ at' = at + 1 /\ at \in Files /\ at' \in Files /\ run' = run
      BY <1>3, <2>7 DEF Goto
    <3>2. \A p \in Paths : IsIn(p)' <=> IsIn(p) \/ p = at
      BY <3>1 DEF IsIn, Swapping, Files, Record
    <3>3. Swapped'
      BY <2>1, <2>3, <2>4, <3>1, <3>2 DEF Swapped, Backed, Waits, Before, Preparing, Swapping
    <3>4. \A p \in Files : at + 1 <= p => card'[p].temp = run.goal
      BY <2>1, <3>1 DEF Phases, Prepared, Swapping, Files
    <3>5. Prepared'
      BY <3>1, <3>4 DEF Prepared, Preparing, Files
    <3>6. Caused'
      BY <3>1 DEF Caused, Restoring
    <3> QED
      BY <1>2, <2>1, <2>2, <3>1, <3>3, <3>5, <3>6, GoesOn DEF Swapping
  <2> QED
    BY <2>5, <2>6, <2>7
<1>4. CASE Fault /\ at \notin run.had /\ SwapFails(Without(card, {at}, "temp"), Faulted(run))
  <2> DEFINE c == Without(card, {at}, "temp")
  <2>1. /\ c \in Cards /\ \A p \in Paths \ {at} : c[p] = card[p]
        /\ c[at].target = Absent /\ c[at].old = card[at].old
    BY <1>1, WithoutTemp
  <2>2. c[at].old # Torn
    BY <2>1 DEF NeverHalfWritten
  <2>3. Before(at) = Absent
    BY <1>1, <1>4 DEF Backed
  <2> HIDE DEF c
  <2>4. SwapFails(c, Faulted(run))
    BY <1>4 DEF c
  <2>5. /\ Faulted(run) \in Runs /\ Faulted(run).goal = run.goal /\ Faulted(run).faults > 0
        /\ Faulted(run).before = run.before /\ Faulted(run).had = run.had
    BY <1>4, FaultIsCounted DEF Runs
  <2> QED
    BY <2>1, <2>2, <2>3, <2>4, <2>5, SwapFailsKeeps DEF Swapping
<1>5. CASE /\ Fault /\ at \in run.had
           /\ Goto("backin", at) /\ run' = Faulted(run) /\ UNCHANGED card
  <2>1. /\ run' \in Runs /\ run'.goal = run.goal /\ run'.faults > 0
        /\ run'.before = run.before /\ run'.had = run.had
    BY <1>5, FaultIsCounted DEF Runs
  <2>2. pc' = "backin" /\ at' = at
    BY <1>5 DEF Goto
  <2>3. NeverHalfWritten'
    BY <1>5 DEF NeverHalfWritten
  <2>4. Swapped'
    BY <1>5, <2>1, <2>2 DEF Phases, Swapped, IsIn, Backed, Waits, Before, Preparing, Swapping
  <2>5. Prepared'
    BY <1>5, <2>1, <2>2 DEF Phases, Prepared, Preparing, Swapping
  <2>6. Caused'
    BY <1>5, <2>1, <2>2 DEF Caused
  <2> QED
    BY <1>2, <1>5, <2>1, <2>2, <2>3, <2>4, <2>5, <2>6, GoesOn DEF Swapping
<1> QED
  BY <1>3, <1>4, <1>5 DEF CommitMovesIn

LEMMA CommitMovesBackKeeps == ASSUME InstallerInv, CommitMovesBack PROVE InstallerInv'
<1> USE Numbers, TypeParts
<1> InstallerTypeOK /\ NeverHalfWritten /\ Phases /\ UNCHANGED crashes /\ pc = "backin"
  BY DEF InstallerInv, CommitMovesBack
<1>1. card[at].target = Absent /\ card[at].old = Before(at) /\ run.faults > 0
  BY NotInItself DEF Phases, Swapped, Caused, Backed, Swapping
<1>2. card[at].target # Torn /\ card[at].old # Torn
  BY DEF NeverHalfWritten
<1>3. CASE SwapFails([card EXCEPT ![at] = [target |-> @.old, temp |-> Absent, old |-> Absent]],
                     run)
  <2> DEFINE c == [card EXCEPT ![at] = [target |-> @.old, temp |-> Absent, old |-> Absent]]
  <2>1. /\ c \in Cards /\ \A p \in Paths \ {at} : c[p] = card[p]
        /\ c[at].target = Before(at) /\ c[at].old = Absent
    BY <1>1 DEF Cards
  <2>2. SwapFails(c, run)
    BY <1>3
  <2> HIDE DEF c
  <2> QED
    BY <1>1, <1>2, <2>1, <2>2, SwapFailsKeeps DEF Swapping
<1>4. CASE Fault /\ SwapFails(Without(card, {at}, "temp"), Faulted(run))
  <2> DEFINE c == Without(card, {at}, "temp")
  <2>1. /\ c \in Cards /\ \A p \in Paths \ {at} : c[p] = card[p]
        /\ c[at].target = card[at].target /\ c[at].old = card[at].old
    BY WithoutTemp
  <2>2. SwapFails(c, Faulted(run))
    BY <1>4
  <2> HIDE DEF c
  <2>3. /\ Faulted(run) \in Runs /\ Faulted(run).goal = run.goal /\ Faulted(run).faults > 1
        /\ Faulted(run).before = run.before /\ Faulted(run).had = run.had
    BY <1>1, <1>4, FaultIsCounted DEF Runs
  <2> QED
    BY <1>1, <1>2, <2>1, <2>2, <2>3, SwapFailsKeeps DEF Swapping, Runs
<1> QED
  BY <1>3, <1>4 DEF CommitMovesBack

-----------------------------------------------------------------------------
(* What a step that takes a file back, and has more to take back, keeps.   *)
LEMMA GoesBack ==
  ASSUME pc' \in Restoring, card' \in Cards, run' \in Runs, at' \in Paths,
         UNCHANGED crashes, crashes \in 0 .. MaxCrashes, run'.goal # Absent,
         run'.faults > 0, NeverHalfWritten', Reversed'
  PROVE  InstallerInv'
<1>1. InstallerTypeOK'
  BY DEF InstallerTypeOK, Cards, Runs, Restoring
<1>2. Swapped' /\ Prepared' /\ Removed'
  BY DEF Swapped, Prepared, Removed, Preparing, Swapping, Restoring
<1>3. Caused' /\ Control'
  BY DEF Caused, Control, Preparing, Swapping, Restoring
<1>4. EndsWhole'
  BY NotOver DEF Restoring
<1> QED
  BY <1>1, <1>2, <1>3, <1>4 DEF InstallerInv, Phases

(* Deleting what is at a target, when the call works and when it does not. *)
LEMMA DeletesOne ==
  ASSUME card \in Cards, run \in Runs, NEW q \in Paths, Deletes(q)
  PROVE  /\ card' \in Cards /\ run' \in Runs
         /\ run'.goal = run.goal /\ run'.before = run.before /\ run'.had = run.had
         /\ run'.result = run.result /\ run'.faults >= run.faults
         /\ \A p \in Paths : card'[p].old = card[p].old /\ card'[p].temp = card[p].temp
         /\ \A p \in Paths : p # q => card'[p] = card[p]
         /\ card'[q].target \in {Absent, card[q].target}
         /\ card'[q].target = Absent \/ run'.faults > run.faults
<1> USE Numbers
<1>1. CASE card' = Without(card, {q}, "target") /\ run' = run
  <2>1. q \in {q} /\ \A p \in Paths : p # q => p \notin {q}
    OBVIOUS
  <2>2. run.faults >= run.faults
    BY DEF Runs
  <2> QED
    BY <1>1, <2>1, <2>2, WithoutOne
<1>2. CASE Fault /\ card[q].target # Absent /\ run' = Faulted(run) /\ UNCHANGED card
  <2>1. run'.faults = run.faults + 1 /\ run.faults \in Nat
    BY <1>2, FaultIsCounted DEF Runs
  <2>2. run'.faults >= run.faults /\ run'.faults > run.faults
    BY <2>1
  <2> QED
    BY <1>2, <2>2, FaultIsCounted
<1> QED
  BY <1>1, <1>2 DEF Deletes

LEMMA RestoreDeletesKeeps == ASSUME InstallerInv, RestoreDeletes PROVE InstallerInv'
<1> USE Numbers, TypeParts
<1> InstallerTypeOK /\ NeverHalfWritten /\ Phases /\ UNCHANGED crashes /\ pc = "restore"
  BY DEF InstallerInv, RestoreDeletes
<1>1. /\ at \in Files /\ run.goal # Absent /\ run.faults > 0
      /\ at \in run.had <=> Before(at) # Absent
      /\ at \in run.had => card[at].old = Before(at)
  BY DEF Phases, Reversed, Control, Caused, Restoring, Backed
<1>2. /\ card' \in Cards /\ run' \in Runs
      /\ run'.goal = run.goal /\ run'.before = run.before /\ run'.had = run.had
      /\ run'.result = run.result /\ run'.faults >= run.faults
      /\ \A p \in Paths : card'[p].old = card[p].old /\ card'[p].temp = card[p].temp
      /\ \A p \in Paths : p # at => card'[p] = card[p]
      /\ card'[at].target \in {Absent, card[at].target}
      /\ card'[at].target = Absent \/ run'.faults > run.faults
  BY DeletesOne DEF RestoreDeletes
<1>3. at' = at /\ pc' = IF at \in run.had THEN "restorein" ELSE "restored"
  BY <1>1 DEF RestoreDeletes, Goto
<1>4. NeverHalfWritten'
  BY <1>2 DEF NeverHalfWritten
<1>5. run'.faults > 0 /\ (run'.faults <= 1 => card'[at].target = Absent /\ run.faults <= 1)
  BY <1>1, <1>2 DEF Runs
<1>6. \A p \in Paths : CanReturn(p)'
  BY <1>1, <1>2 DEF Phases, Reversed, Restoring, CanReturn, Before
<1>7. \A p \in Files : p <= at => Backed(p)'
  BY <1>2 DEF Phases, Reversed, Restoring, Backed, Before, Files
<1>8. run'.faults <= 1 => \A p \in Paths : p = Record \/ at < p => Restored(p)'
  <2>1. \A p \in Paths : p = Record \/ at < p => p # at
    BY <1>1 DEF Paths
  <2> QED
    BY <1>2, <1>5, <2>1 DEF Phases, Reversed, Restoring, Restored, Before
<1>9. run'.faults <= 1 /\ at \notin run.had => Restored(at)'
  BY <1>1, <1>2, <1>3, <1>5 DEF Restored, Before
<1>10. Reversed'
  <2>1. \A p \in Files : p < at => p <= at
    BY <1>1 DEF Files
  <2>2. at <= at
    BY <1>1 DEF Files
  <2> QED
    BY <1>1, <1>2, <1>3, <1>5, <1>6, <1>7, <1>8, <1>9, <2>1, <2>2 DEF Reversed
<1> QED
  BY <1>1, <1>2, <1>3, <1>4, <1>5, <1>10, GoesBack DEF Restoring

LEMMA RestoreRenamesKeeps == ASSUME InstallerInv, RestoreRenames PROVE InstallerInv'
<1> USE Numbers, TypeParts
<1> InstallerTypeOK /\ NeverHalfWritten /\ Phases /\ UNCHANGED crashes /\ pc = "restorein"
  BY DEF InstallerInv, RestoreRenames
<1>1. /\ at \in Files /\ run.goal # Absent /\ run.faults > 0 /\ run.faults \in Nat
      /\ card[at].old = Before(at)
      /\ run.faults <= 1 => card[at].target = Absent
  BY DEF Phases, Reversed, Control, Caused, Restoring, Backed, Runs
<1>2. /\ card' \in Cards /\ run' \in Runs
      /\ run'.goal = run.goal /\ run'.before = run.before /\ run'.had = run.had
      /\ run'.faults >= run.faults
      /\ \A p \in Paths : p # at => card'[p] = card[p]
      /\ Before(at) \in {card'[at].target, card'[at].old}
      /\ card'[at].target # Torn /\ card'[at].old # Torn
      /\ run'.faults <= 1 => card'[at].target = Before(at)
  <2>1. CASE /\ card' = [card EXCEPT ![at].target = card[at].old, ![at].old = Absent]
             /\ run' = run
    <3>1. /\ card' \in Cards /\ \A p \in Paths : p # at => card'[p] = card[p]
          /\ card'[at].target = card[at].old /\ card'[at].old = Absent
      BY <2>1 DEF Cards
    <3>2. card[at].old # Torn /\ run.faults >= run.faults
      BY <1>1 DEF NeverHalfWritten
    <3> QED
      BY <1>1, <2>1, <3>1, <3>2
  <2>2. CASE Fault /\ run' = Faulted(run) /\ UNCHANGED card
    <3>1. run'.faults = run.faults + 1
      BY <2>2, FaultIsCounted
    <3>2. ~(run'.faults <= 1) /\ run'.faults >= run.faults
      BY <1>1, <3>1
    <3> QED
      BY <1>1, <2>2, <3>2, FaultIsCounted DEF NeverHalfWritten
  <2>3. CASE card[at].target # Absent /\ Deletes(at)
    <3>1. ~(run'.faults <= 1)
      BY <1>1, <2>3, DeletesOne DEF Runs
    <3> QED
      BY <1>1, <2>3, <3>1, DeletesOne DEF NeverHalfWritten
  <2> QED
    BY <2>1, <2>2, <2>3 DEF RestoreRenames
<1>3. pc' = "restored" /\ at' = at
  BY DEF RestoreRenames, Goto
<1>4. NeverHalfWritten'
  BY <1>2 DEF NeverHalfWritten
<1>5. run'.faults > 0 /\ (run'.faults <= 1 => run.faults <= 1)
  BY <1>1, <1>2 DEF Runs
<1>6. \A p \in Paths : CanReturn(p)'
  BY <1>2 DEF Phases, Reversed, Restoring, CanReturn, Before
<1>7. \A p \in Files : p < at => Backed(p)'
  <2>1. \A p \in Files : p < at => p # at
    BY <1>1 DEF Files
  <2> QED
    BY <1>2, <2>1 DEF Phases, Reversed, Restoring, Backed, Before
<1>8. run'.faults <= 1 => \A p \in Paths : p = Record \/ at < p => Restored(p)'
  <2>1. \A p \in Paths : p = Record \/ at < p => p # at
    BY <1>1 DEF Paths
  <2> QED
    BY <1>2, <1>5, <2>1 DEF Phases, Reversed, Restoring, Restored, Before
<1>9. Reversed'
  BY <1>1, <1>2, <1>3, <1>6, <1>7, <1>8 DEF Reversed, Restored, Before
<1> QED
  BY <1>1, <1>2, <1>3, <1>4, <1>5, <1>9, GoesBack DEF Restoring

LEMMA RestoreEndsKeeps == ASSUME InstallerInv, RestoreEnds PROVE InstallerInv'
<1> USE Numbers, TypeParts
<1> InstallerTypeOK /\ NeverHalfWritten /\ Phases /\ pc = "restored"
  BY DEF InstallerInv, RestoreEnds
<1> UNCHANGED <<card, crashes>> /\ RollBack(at - 1, run)
  BY DEF RestoreEnds
<1>1. at \in Files /\ run.goal \in Versions /\ run.faults > 0
  BY DEF Phases, Reversed, Control, Caused, Restoring, Runs
<1>2. \A p \in Paths : card'[p].target # Torn /\ card'[p].old # Torn
  BY DEF NeverHalfWritten
<1>3. \A p \in Paths :
        run.before[p] # Absent => run.before[p] \in {card'[p].target, card'[p].old}
  BY DEF Phases, Reversed, Restoring, CanReturn, Before
<1>4. \A p \in Files : p <= at - 1 =>
        /\ p \in run.had <=> run.before[p] # Absent
        /\ p \in run.had => card'[p].old = run.before[p]
  <2>1. \A p \in Files : p <= at - 1 => p < at
    BY <1>1 DEF Files
  <2> QED
    BY <2>1 DEF Phases, Reversed, Restoring, Backed, Before
<1>5. run.faults <= 1 =>
        \A p \in Paths : p = Record \/ at - 1 < p => card'[p].target = run.before[p]
  <2>1. \A p \in Paths : at - 1 < p => at < p \/ p = at
    BY <1>1 DEF Files, Paths
  <2> QED
    BY <2>1 DEF Phases, Reversed, Restoring, Restored, Before
<1> QED
  BY <1>1, <1>2, <1>3, <1>4, <1>5, RollBackKeeps

-----------------------------------------------------------------------------
(* The end of an install, and an uninstall.                                *)
LEMMA DropBackupsKeeps == ASSUME InstallerInv, DropBackups PROVE InstallerInv'
<1> USE Numbers, TypeParts
<1> InstallerTypeOK /\ NeverHalfWritten /\ Phases /\ UNCHANGED crashes /\ pc = "drop"
  BY DEF InstallerInv, DropBackups
<1>1. /\ card' \in Cards /\ run' \in Runs /\ run'.goal = run.goal
      /\ \A p \in Paths : /\ card'[p].target = card[p].target
                          /\ card'[p].old \in {Absent, card[p].old}
  <2>1. CASE card' = Without(card, {at}, "old") /\ run' = run
    <3>1. \A p \in Paths : p \in {at} \/ p \notin {at}
      OBVIOUS
    <3> QED
      BY <2>1, <3>1, WithoutOne
  <2>2. CASE Fault /\ card[at].old # Absent /\ UNCHANGED card /\ run' = Faulted(run)
    BY <2>2, FaultIsCounted
  <2> QED
    BY <2>1, <2>2 DEF DropBackups
<1>2. pc' \in {"drop", "done"} /\ at' \in Paths
  <2>1. at # NumFiles => at + 1 \in Paths
    BY AgentAssumption DEF Paths
  <2> QED
    BY <2>1 DEF DropBackups, Goto
<1>3. run.goal # Absent /\ \A p \in Paths : card[p].target = run.goal
  BY DEF Phases, Control
<1>4. InstallerTypeOK'
  BY <1>1, <1>2 DEF InstallerTypeOK, Cards, Runs
<1>5. NeverHalfWritten'
  BY <1>1 DEF NeverHalfWritten
<1>6. Swapped' /\ Prepared' /\ Reversed' /\ Caused' /\ Removed'
  BY <1>2 DEF Swapped, Prepared, Reversed, Caused, Removed, Preparing, Swapping, Restoring
<1>7. Control'
  BY <1>1, <1>2, <1>3 DEF Control
<1> QED
  BY <1>2, <1>4, <1>5, <1>6, <1>7, NotOver DEF InstallerInv, Phases

LEMMA InstallEndsKeeps == ASSUME InstallerInv, InstallEnds PROVE InstallerInv'
<1> USE Numbers, TypeParts
<1> InstallerTypeOK /\ NeverHalfWritten /\ Phases /\ UNCHANGED <<card, crashes>> /\ pc = "done"
  BY DEF InstallerInv, InstallEnds
<1>1. /\ pc' = "idle" /\ at' = Record /\ run' \in Runs /\ run'.goal = run.goal
      /\ run'.result = "ok"
  BY RunEnds DEF InstallEnds
<1>2. run.goal # Absent /\ \A p \in Paths : card'[p].target = run.goal
  BY DEF Phases, Control
<1>3. InstallerTypeOK'
  BY <1>1 DEF InstallerTypeOK, Cards, Runs
<1>4. NeverHalfWritten'
  BY DEF NeverHalfWritten
<1>5. Swapped' /\ Prepared' /\ Reversed' /\ Caused' /\ Removed' /\ Control'
  BY <1>1, <1>2 DEF Swapped, Prepared, Reversed, Caused, Removed, Control, Preparing,
                    Swapping, Restoring
<1>6. AllOrNothing' /\ LeftoversDoNotBlock'
  BY <1>1, <1>2 DEF AllOrNothing, LeftoversDoNotBlock, Idle
<1>7. EveryFileIsRecorded'
  BY <1>2 DEF EveryFileIsRecorded, Described
<1> QED
  BY <1>3, <1>4, <1>5, <1>6, <1>7 DEF InstallerInv, Phases, EndsWhole

LEMMA StartUninstallKeeps == ASSUME InstallerInv, StartUninstall PROVE InstallerInv'
<1> USE Numbers, TypeParts
<1> InstallerTypeOK /\ NeverHalfWritten /\ UNCHANGED <<card, crashes>>
  BY DEF InstallerInv, StartUninstall
<1>1. run' \in Runs /\ run'.goal = Absent
  <2> DEFINE found == [p \in Paths |-> card[p].target]
  <2>1. found \in [Paths -> Contents]
    BY DEF Cards
  <2>2. run' = [NoRun EXCEPT !.before = found]
    BY Zenon DEF StartUninstall
  <2> HIDE DEF found
  <2>3. run' = [goal |-> Absent, before |-> found, had |-> {}, faults |-> 0, result |-> "none"]
    BY <2>2 DEF NoRun
  <2> QED
    BY <2>1, <2>3, RunBegins
<1>2. pc' = "delete" /\ at' = 1 /\ card[Record].target # Absent
  BY DEF StartUninstall, Goto
<1>3. InstallerTypeOK'
  BY <1>1, <1>2 DEF InstallerTypeOK, Cards, Runs
<1>4. NeverHalfWritten'
  BY DEF NeverHalfWritten
<1>5. Swapped' /\ Prepared' /\ Reversed' /\ Caused'
  BY <1>2 DEF Swapped, Prepared, Reversed, Caused, Preparing, Swapping, Restoring
<1>6. Removed'
  <2>1. \A p \in Files : ~(p < 1)
    BY DEF Files
  <2> QED
    BY <1>2, <2>1 DEF Removed
<1>7. Control'
  BY <1>1, <1>2 DEF Control, Preparing, Swapping, Restoring
<1> QED
  BY <1>2, <1>3, <1>4, <1>5, <1>6, <1>7, NotOver DEF InstallerInv, Phases

LEMMA UninstallDeletesKeeps == ASSUME InstallerInv, UninstallDeletes PROVE InstallerInv'
<1> USE Numbers, TypeParts
<1> InstallerTypeOK /\ NeverHalfWritten /\ Phases /\ UNCHANGED crashes /\ pc = "delete"
  BY DEF InstallerInv, UninstallDeletes
<1>1. /\ at \in Files /\ run.goal = Absent /\ card[Record].target # Absent
      /\ run.faults = 0 => \A p \in Files : p < at => card[p].target = Absent
  BY DEF Phases, Removed, Control
<1>2. /\ card' \in Cards /\ run' \in Runs
      /\ run'.goal = run.goal /\ run'.faults >= run.faults
      /\ \A p \in Paths : card'[p].old = card[p].old
      /\ \A p \in Paths : p # at => card'[p] = card[p]
      /\ card'[at].target \in {Absent, card[at].target}
      /\ card'[at].target = Absent \/ run'.faults > run.faults
  BY DeletesOne DEF UninstallDeletes
<1>3. run'.faults = 0 => run.faults = 0 /\ card'[at].target = Absent
  BY <1>2 DEF Runs
<1>4. NeverHalfWritten'
  BY <1>2 DEF NeverHalfWritten
<1>5. card'[Record].target # Absent
  BY <1>1, <1>2
<1>6. run'.faults = 0 => \A p \in Files : p <= at => card'[p].target = Absent
  <2>1. \A p \in Files : p <= at => p < at \/ p = at
    BY <1>1 DEF Files
  <2> QED
    BY <1>1, <1>2, <1>3, <2>1
<1>7. CASE at = NumFiles
  <2>1. pc' = "unrecord" /\ at' = Record
    BY <1>7 DEF UninstallDeletes, Goto
  <2>2. InstallerTypeOK'
    BY <1>2, <2>1 DEF InstallerTypeOK, Cards, Runs
  <2>3. Swapped' /\ Prepared' /\ Reversed' /\ Caused' /\ Control'
    BY <1>1, <1>2, <2>1 DEF Swapped, Prepared, Reversed, Caused, Control, Preparing, Swapping,
                            Restoring
  <2>4. Removed'
    BY <1>5, <1>6, <1>7, <2>1 DEF Removed
  <2> QED
    BY <1>4, <2>1, <2>2, <2>3, <2>4, NotOver DEF InstallerInv, Phases
<1>8. CASE at # NumFiles
  <2>1. pc' = "delete" /\ at' = at + 1 /\ at' \in Files
    BY <1>1, <1>8 DEF UninstallDeletes, Goto
  <2>2. InstallerTypeOK'
    BY <1>2, <2>1 DEF InstallerTypeOK, Cards, Runs
  <2>3. Swapped' /\ Prepared' /\ Reversed' /\ Caused' /\ Control'
    BY <1>1, <1>2, <2>1 DEF Swapped, Prepared, Reversed, Caused, Control, Preparing, Swapping,
                            Restoring
  <2>4. \A p \in Files : p < at + 1 => p <= at
    BY <1>1 DEF Files
  <2>5. Removed'
    BY <1>5, <1>6, <2>1, <2>4 DEF Removed
  <2> QED
    BY <1>4, <2>1, <2>2, <2>3, <2>5, NotOver DEF InstallerInv, Phases
<1> QED
  BY <1>7, <1>8

LEMMA UninstallUnrecordsKeeps == ASSUME InstallerInv, UninstallUnrecords PROVE InstallerInv'
<1> USE Numbers, TypeParts
<1> InstallerTypeOK /\ NeverHalfWritten /\ Phases /\ UNCHANGED crashes /\ pc = "unrecord"
  BY DEF InstallerInv, UninstallUnrecords
<1>1. /\ run.goal = Absent /\ card[Record].target # Absent
      /\ run.faults = 0 => \A p \in Files : card[p].target = Absent
  BY DEF Phases, Removed, Control
<1>2. ASSUME pc' = "idle", at' = Record, card' \in Cards, run' \in Runs, run'.goal = Absent,
             NeverHalfWritten',
             card'[Record].target # Absent \/ \A p \in Files : card'[p].target = Absent
      PROVE  InstallerInv'
  <2>1. InstallerTypeOK'
    BY <1>2 DEF InstallerTypeOK, Cards, Runs
  <2>2. Swapped' /\ Prepared' /\ Reversed' /\ Caused' /\ Removed' /\ Control'
    BY <1>2 DEF Swapped, Prepared, Reversed, Caused, Removed, Control, Preparing, Swapping,
                Restoring
  <2>3. AllOrNothing' /\ LeftoversDoNotBlock'
    BY <1>2 DEF AllOrNothing, LeftoversDoNotBlock, Idle
  <2>4. EveryFileIsRecorded'
    BY <1>2 DEF EveryFileIsRecorded, Described
  <2> QED
    BY <1>2, <2>1, <2>2, <2>3, <2>4 DEF InstallerInv, Phases, EndsWhole
<1>3. CASE MayUnrecord /\ card' = Without(card, {Record}, "target") /\ Ends(run, "ok")
  <2>1. /\ pc' = "idle" /\ at' = Record /\ run' \in Runs /\ run'.goal = Absent
    BY <1>1, <1>3, RunEnds
  <2>2. \A p \in Files : p \in Paths /\ p \notin {Record}
    OBVIOUS
  <2>3. /\ card' \in Cards /\ \A p \in Files : card'[p] = card[p]
        /\ \A p \in Paths : card'[p].target \in {Absent, card[p].target}
        /\ \A p \in Paths : card'[p].old = card[p].old
    BY <1>3, <2>2, WithoutOne
  <2>4. NeverHalfWritten'
    BY <2>3 DEF NeverHalfWritten
  <2>5. \A p \in Files : card'[p].target = Absent
    BY <1>1, <1>3, <2>3 DEF MayUnrecord
  <2> QED
    BY <1>2, <2>1, <2>3, <2>4, <2>5
<1>4. ASSUME NEW r \in Runs, r.goal = run.goal, UNCHANGED card, Ends(r, "failed")
      PROVE  InstallerInv'
  <2>1. /\ pc' = "idle" /\ at' = Record /\ run' \in Runs /\ run'.goal = Absent
    BY <1>1, <1>4, RunEnds
  <2>2. NeverHalfWritten'
    BY <1>4 DEF NeverHalfWritten
  <2> QED
    BY <1>1, <1>2, <1>4, <2>1, <2>2
<1>5. CASE Fault /\ UNCHANGED card /\ Ends(Faulted(run), "failed")
  BY <1>4, <1>5, FaultIsCounted
<1>6. CASE UNCHANGED card /\ Ends(run, "failed")
  BY <1>4, <1>6
<1> QED
  BY <1>3, <1>5, <1>6 DEF UninstallUnrecords

-----------------------------------------------------------------------------
(* The power, the first state, and steps that change nothing.              *)
LEMMA NoRunIsARun == NoRun \in Runs /\ NoRun.result = "none"
<1> DEFINE nothing == [p \in Paths |-> Absent]
<1>1. nothing \in [Paths -> Contents]
  BY Numbers
<1> HIDE DEF nothing
<1>2. NoRun = [goal |-> Absent, before |-> nothing, had |-> {}, faults |-> 0, result |-> "none"]
  BY Zenon DEF NoRun, nothing
<1>3. 0 \in 0 .. MaxFaults
  BY AgentAssumption
<1> QED
  BY <1>1, <1>2, <1>3 DEF Runs

(* Between two runs there is only the card to be said something about.     *)
LEMMA Rests ==
  ASSUME pc' \in {"idle", "down"}, at' = Record, run' \in Runs, run'.result = "none",
         card' \in Cards, crashes' \in 0 .. MaxCrashes, NeverHalfWritten'
  PROVE  InstallerInv'
<1>1. InstallerTypeOK'
  BY Numbers DEF InstallerTypeOK, Cards, Runs
<1>2. Swapped' /\ Prepared' /\ Reversed' /\ Caused' /\ Removed' /\ Control'
  BY DEF Swapped, Prepared, Reversed, Caused, Removed, Control, Preparing, Swapping, Restoring
<1>3. EndsWhole'
  BY DEF EndsWhole, AllOrNothing, LeftoversDoNotBlock, EveryFileIsRecorded, Idle
<1> QED
  BY <1>1, <1>2, <1>3 DEF InstallerInv, Phases

LEMMA CrashKeeps == ASSUME InstallerInv, Crash PROVE InstallerInv'
<1> USE TypeParts
<1> InstallerTypeOK /\ NeverHalfWritten
  BY DEF InstallerInv
<1>1. pc' = "down" /\ at' = Record /\ run' = NoRun /\ UNCHANGED card
  BY DEF Crash, Goto
<1>2. crashes' \in 0 .. MaxCrashes
  BY AgentAssumption DEF Crash
<1>3. NeverHalfWritten'
  BY <1>1 DEF NeverHalfWritten
<1> QED
  BY <1>1, <1>2, <1>3, NoRunIsARun, Rests

LEMMA RestartKeeps == ASSUME InstallerInv, Restart PROVE InstallerInv'
<1> USE Numbers, TypeParts
<1> InstallerTypeOK /\ NeverHalfWritten /\ Phases
  BY DEF InstallerInv
<1>1. pc' = "idle" /\ at' = Record /\ UNCHANGED <<run, crashes>> /\ run.result = "none"
  BY DEF Restart, Goto, Phases, Control
<1>2. /\ card' \in Cards
      /\ \A p \in Paths : card'[p].target = card[p].target
      /\ \A p \in Paths : card'[p].old \in {Absent, card[p].old}
  <2> DEFINE c == Without(card, Files, "temp")
  <2>1. c \in Cards /\ \A p \in Paths : c[p].target = card[p].target /\ c[p].old = card[p].old
    BY WithoutOne
  <2>2. card' = card \/ card' = Without(c, Files, "old")
    BY DEF Restart
  <2> HIDE DEF c
  <2> QED
    BY <2>1, <2>2, WithoutOne
<1>3. NeverHalfWritten'
  BY <1>2 DEF NeverHalfWritten
<1> QED
  BY <1>1, <1>2, <1>3, Rests

LEMMA InstallerInitEstablishes == InstallerInit => InstallerInv
<1> USE Numbers, NoRunIsARun
<1> SUFFICES ASSUME InstallerInit PROVE InstallerInv
  OBVIOUS
<1>1. pc = "idle" /\ at = Record /\ run = NoRun /\ crashes \in 0 .. MaxCrashes
  BY AgentAssumption DEF InstallerInit
<1>2. card \in Cards /\ \A p \in Paths : card[p].target = Absent /\ card[p].old = Absent
  BY DEF InstallerInit, Cards
<1>3. InstallerTypeOK
  BY <1>1, <1>2 DEF InstallerTypeOK, Cards, Runs
<1>4. NeverHalfWritten
  BY <1>2 DEF NeverHalfWritten
<1>5. Phases
  BY <1>1 DEF Phases, Swapped, Prepared, Reversed, Caused, Removed, Control, Preparing,
              Swapping, Restoring
<1>6. EndsWhole
  BY <1>1 DEF EndsWhole, AllOrNothing, LeftoversDoNotBlock, EveryFileIsRecorded, Idle
<1> QED
  BY <1>3, <1>4, <1>5, <1>6 DEF InstallerInv

LEMMA NothingHappens == ASSUME InstallerInv, UNCHANGED installerVars PROVE InstallerInv'
<1>1. /\ InstallerTypeOK' /\ NeverHalfWritten' /\ EndsWhole'
  BY DEF InstallerInv, installerVars, InstallerTypeOK, NeverHalfWritten, EndsWhole, AllOrNothing, LeftoversDoNotBlock,
         EveryFileIsRecorded, Idle, Described
<1>2. Phases'
  BY DEF InstallerInv, installerVars, Phases, Swapped, Prepared, Reversed, Caused, Removed, Control, IsIn, Waits,
         Backed, Before, CanReturn, Restored
<1> QED
  BY <1>1, <1>2 DEF InstallerInv

(* What any step keeps.                                                    *)
LEMMA StepKeeps == InstallerInv /\ [InstallerNext]_installerVars => InstallerInv'
<1> SUFFICES ASSUME InstallerInv, [InstallerNext]_installerVars PROVE InstallerInv'
  OBVIOUS
<1>1. CASE Install
  BY <1>1, StartInstallKeeps, PrepareCreatesKeeps, PrepareWritesKeeps, PrepareReadsBackKeeps,
     CommitClearsKeeps, CommitMovesAsideKeeps, CommitMovesInKeeps, CommitMovesBackKeeps,
     RestoreDeletesKeeps, RestoreRenamesKeeps, RestoreEndsKeeps, DropBackupsKeeps,
     InstallEndsKeeps DEF Install
<1>2. CASE Uninstall
  BY <1>2, StartUninstallKeeps, UninstallDeletesKeeps, UninstallUnrecordsKeeps DEF Uninstall
<1>3. CASE Crash \/ Restart
  BY <1>3, CrashKeeps, RestartKeeps
<1>4. CASE UNCHANGED installerVars
  BY <1>4, NothingHappens
<1> QED
  BY <1>1, <1>2, <1>3, <1>4 DEF InstallerNext

LEMMA ReplacedIsKept == InstallerInv => CanBePutBack
<1> SUFFICES ASSUME InstallerInv, Replacing, NEW p \in Paths, Before(p) # Absent
             PROVE  Before(p) \in {card[p].target, card[p].old}
  BY DEF CanBePutBack, Before
<1> InstallerTypeOK /\ Phases
  BY DEF InstallerInv
<1>1. CASE pc \in Preparing \cup Swapping
  BY <1>1 DEF Phases, Swapped, Backed, Waits
<1>2. CASE pc \in Restoring
  BY <1>2 DEF Phases, Reversed, CanReturn
<1> QED
  BY <1>1, <1>2 DEF InstallerTypeOK, Replacing, Preparing, Swapping, Restoring

-----------------------------------------------------------------------------
(* The invariant holds of every state of every run.                        *)
THEOREM AgentInvariant == InstallerSpec => []InstallerInv
BY InstallerInitEstablishes, StepKeeps, PTL DEF InstallerSpec

(* What the installer's variables hold.                                    *)
THEOREM AgentIsTyped == InstallerSpec => []InstallerTypeOK
<1>1. InstallerInv => InstallerTypeOK
  BY DEF InstallerInv
<1> QED
  BY <1>1, AgentInvariant, PTL

(* Neither a file the game loads nor one that would be put back is ever     *)
(* half-written, whichever calls fail and whenever the power goes.          *)
THEOREM NothingIsHalfWritten == InstallerSpec => []NeverHalfWritten
<1>1. InstallerInv => NeverHalfWritten
  BY DEF InstallerInv
<1> QED
  BY <1>1, AgentInvariant, PTL

(* Until the record is in, every file an install replaces is still there,   *)
(* at its place or next to it: any number of failing calls included.        *)
THEOREM ReplacedCanBePutBack == InstallerSpec => []CanBePutBack
BY ReplacedIsKept, AgentInvariant, PTL

(* A run in which one call at most fails does all of its work or none, does *)
(* not fail for what an interrupted run left behind, and leaves no agent    *)
(* without a record.                                                        *)
THEOREM RunsEndWhole == InstallerSpec => []EndsWhole
<1>1. InstallerInv => EndsWhole
  BY DEF InstallerInv
<1> QED
  BY <1>1, AgentInvariant, PTL
=============================================================================
