------------------------------ MODULE UpdateTask ------------------------------
(***************************************************************************)
(* The two background workers of the app and the frames that poll them:    *)
(* the update check (net/update_task.cpp, net/update.cpp) and the download *)
(* of a newer manager (net/manager_update.cpp), with App::Poll*,           *)
(* App::Start*, App::ApplyManagerDownload and App::Exit.                   *)
(*                                                                         *)
(* A step is one section under a task's lock, or one transfer.  A frame    *)
(* asks twice, first for a result and then whether the worker runs, and    *)
(* the worker may answer in between.                                       *)
(***************************************************************************)
EXTENDS Naturals

CONSTANT MaxRelease   \* releases of the manager: 1..MaxRelease, 0 is the one that runs

ASSUME MaxReleaseIsNat == MaxRelease \in Nat

VARIABLES
    host,       \* what the release host serves: the three files of a release
    task,       \* the two task objects, with their worker threads
    ui,         \* where the app's own thread is
    shown,      \* m_update_running and m_manager_update_running
    offer,      \* m_remote_manifest: the manager release it names, 0 for none
    nro,        \* the release at the standard path
    installed   \* m_manager_installed_version, 0 for none

taskVars == <<host, task, ui, shown, offer, nro, installed>>

Workers == {"check", "manager"}
HostFiles == {"manifest", "signature", "nro"}
ReleaseNumbers == 0..MaxRelease

(* Where a worker is: not created, at the head of its loop, about to look  *)
(* for a request, in a transfer, about to store the result, returned.      *)
Threads == {"none", "poll", "look", "fetch", "sign", "answer", "gone"}
InTransfer == {"fetch", "sign"}

AtRest == [request |-> FALSE, running |-> FALSE, quit |-> FALSE, have |-> FALSE,
         result |-> 0, got |-> 0, thread |-> "none"]

(* m_created *)
Created(w) == task[w].thread # "none"

WorkersInit ==
    /\ host \in [HostFiles -> ReleaseNumbers]
    /\ task = [w \in Workers |-> AtRest]
    /\ ui = "boot"
    /\ shown = [w \in Workers |-> FALSE]
    /\ offer = 0
    /\ nro = 0
    /\ installed = 0

-----------------------------------------------------------------------------
(* The worker: Entry.                                                      *)

WorkerQuits(w) ==
    /\ task[w].thread = "poll"
    /\ task' = [task EXCEPT ![w].thread = IF task[w].quit THEN "gone" ELSE "look"]
    /\ UNCHANGED <<host, ui, shown, offer, nro, installed>>

WorkerLooks(w) ==
    /\ task[w].thread = "look"
    /\ task' = [task EXCEPT ![w].request = FALSE,
                            ![w].thread = IF task[w].request THEN "fetch" ELSE "poll"]
    /\ UNCHANGED <<host, ui, shown, offer, nro, installed>>

(* Get: the whole file, as it is served now, or a failure (got = 0).  A    *)
(* check that has the manifest asks for its signature in a second request. *)
Served(w) == IF w = "check" THEN host.manifest ELSE host.nro

Get(w) ==
    /\ task[w].thread = "fetch"
    /\ \E got \in {0, Served(w)} :
          task' = [task EXCEPT ![w].got = got,
                               ![w].thread = IF w = "check" /\ got # 0 THEN "sign"
                                             ELSE "answer"]
    /\ UNCHANGED <<host, ui, shown, offer, nro, installed>>

(* CheckForUpdate: a signature of another manifest is a failed check.      *)
GetSignature ==
    /\ task["check"].thread = "sign"
    /\ \E ok \in BOOLEAN :
          task' = [task EXCEPT !["check"].got = IF ok /\ host.signature = @ THEN @ ELSE 0,
                               !["check"].thread = "answer"]
    /\ UNCHANGED <<host, ui, shown, offer, nro, installed>>

(* Mutant: the worker stores its result and stays marked as running.       *)
MutKeepsRunning(w) ==
    /\ task[w].thread = "answer"
    /\ task' = [task EXCEPT ![w].result = task[w].got, ![w].have = TRUE, ![w].thread = "poll"]
    /\ UNCHANGED <<host, ui, shown, offer, nro, installed>>

Answers(w) ==
    /\ task[w].thread = "answer"
    /\ task' = [task EXCEPT ![w].result = task[w].got, ![w].have = TRUE,
                            ![w].running = FALSE, ![w].thread = "poll"]
    /\ UNCHANGED <<host, ui, shown, offer, nro, installed>>

-----------------------------------------------------------------------------
(* The app: a frame polls the two tasks and then looks at the keys.        *)

(* ApplyUpdateCheck: whatever was known before is forgotten first.         *)
ApplyUpdateCheck == offer' = task["check"].result

(* Mutant: the file is written as whatever it says it is.                  *)
MutNamesTheFile ==
    IF task["manager"].result # 0 /\ offer # 0
    THEN nro' = task["manager"].result /\ installed' = nro'
    ELSE UNCHANGED <<nro, installed>>

(* ApplyManagerDownload: the file is compared with the manifest in hand    *)
(* now, not with the one the download was started for.  The write may fail *)
(* (ManagerNro has its steps).                                             *)
ApplyManagerDownload ==
    \/ /\ task["manager"].result # 0
       /\ task["manager"].result = offer
       /\ nro' = offer
       /\ installed' = offer
    \/ UNCHANGED <<nro, installed>>

After(w) == IF w = "check" THEN "takeManager" ELSE "keys"
TakeAt(w) == IF w = "check" THEN "takeCheck" ELSE "takeManager"
AskAt(w) == IF w = "check" THEN "askCheck" ELSE "askManager"

PollFindsNothing(w) ==
    /\ ui = TakeAt(w)
    /\ ~task[w].have
    /\ ui' = AskAt(w)
    /\ UNCHANGED <<host, task, shown, offer, nro, installed>>

(* Take, and what is done with the result.                                 *)
PollTakes(w) ==
    /\ ui = TakeAt(w)
    /\ task[w].have
    /\ task' = [task EXCEPT ![w].have = FALSE, ![w].result = 0]
    /\ shown' = [shown EXCEPT ![w] = FALSE]
    /\ ui' = After(w)
    /\ IF w = "check" THEN ApplyUpdateCheck /\ UNCHANGED <<nro, installed>>
       ELSE ApplyManagerDownload /\ UNCHANGED offer
    /\ UNCHANGED host

(* Running: the second question of the same poll.                          *)
PollAsks(w) ==
    /\ ui = AskAt(w)
    /\ shown' = [shown EXCEPT ![w] = task[w].running]
    /\ ui' = After(w)
    /\ UNCHANGED <<host, task, offer, nro, installed>>

(* Start: the worker is created with the first request, and a request      *)
(* while one is in flight changes nothing.                                 *)
Start(w) ==
    task' = [task EXCEPT
        ![w].thread = IF @ = "none" THEN "poll" ELSE @,
        ![w].request = @ \/ ~task[w].running,
        ![w].running = TRUE]

(* The check at launch, the one on entering the update center, and the     *)
(* recheck there.                                                          *)
MayCheck ==
    \/ ui = "boot"
    \/ ui = "keys" /\ ~shown["check"] /\ ~shown["manager"]

StartUpdateCheck ==
    /\ MayCheck
    /\ Start("check")
    /\ ui' = "startedCheck"
    /\ UNCHANGED <<host, shown, offer, nro, installed>>

(* No thread: the failure is applied like a result.                        *)
CheckDoesNotStart ==
    /\ MayCheck
    /\ ~Created("check")
    /\ offer' = 0
    /\ ui' = "takeCheck"
    /\ UNCHANGED <<host, task, shown, nro, installed>>

(* ManagerUpdateAvailable and the guards of StartManagerUpdate; a worker   *)
(* that cannot be created is the line on the page and nothing else.        *)
StartManagerUpdate ==
    /\ ui = "keys"
    /\ offer > installed
    /\ ~shown["check"]
    /\ ~shown["manager"]
    /\ Start("manager")
    /\ ui' = "startedManager"
    /\ UNCHANGED <<host, shown, offer, nro, installed>>

(* After Start the flag is what Running says.                              *)
Started(w) ==
    /\ ui = IF w = "check" THEN "startedCheck" ELSE "startedManager"
    /\ shown' = [shown EXCEPT ![w] = task[w].running]
    /\ ui' = "takeCheck"
    /\ UNCHANGED <<host, task, offer, nro, installed>>

NoKey ==
    /\ ui = "keys"
    /\ ui' = "takeCheck"
    /\ UNCHANGED <<host, task, shown, offer, nro, installed>>

(* m_should_exit, by the player or by RequestManagerRestart.               *)
Leave ==
    /\ ui = "keys"
    /\ ui' = "stopCheck"
    /\ UNCHANGED <<host, task, shown, offer, nro, installed>>

-----------------------------------------------------------------------------
(* App::Exit: one Stop after the other, and then the App goes with main's  *)
(* block.                                                                  *)
StopAt(w) == IF w = "check" THEN "stopCheck" ELSE "stopManager"
WaitAt(w) == IF w = "check" THEN "waitCheck" ELSE "waitManager"
Stopped(w) == IF w = "check" THEN "stopManager" ELSE "destroyed"

Stop(w) ==
    /\ ui = StopAt(w)
    /\ IF Created(w)
       THEN task' = [task EXCEPT ![w].quit = TRUE] /\ ui' = WaitAt(w)
       ELSE UNCHANGED task /\ ui' = Stopped(w)
    /\ UNCHANGED <<host, shown, offer, nro, installed>>

(* threadWaitForExit, once nothing runs.                                   *)
StopJoins(w) ==
    /\ ui = WaitAt(w)
    /\ ~task[w].running
    /\ task[w].thread = "gone"
    /\ ui' = Stopped(w)
    /\ UNCHANGED <<host, task, shown, offer, nro, installed>>

(* kStopWaitNs is over.  Every step of the worker but a transfer is        *)
(* shorter, so the wait ends this way only in one, or with a worker that   *)
(* takes no more steps.                                                    *)
StopGivesUp(w) ==
    /\ ui = WaitAt(w)
    /\ task[w].running
    /\ task[w].thread \in InTransfer \cup {"gone"}
    /\ ui' = Stopped(w)
    /\ UNCHANGED <<host, task, shown, offer, nro, installed>>

(* The releaser uploads the next release, one file after the other.        *)
Publish ==
    /\ \E f \in HostFiles : host[f] < MaxRelease /\ host' = [host EXCEPT ![f] = @ + 1]
    /\ UNCHANGED <<task, ui, shown, offer, nro, installed>>

-----------------------------------------------------------------------------
WorkerStep(w) ==
    WorkerQuits(w) \/ WorkerLooks(w) \/ Get(w) \/ Answers(w)

Poll(w) ==
    PollFindsNothing(w) \/ PollTakes(w) \/ PollAsks(w)

Stopping(w) ==
    Stop(w) \/ StopJoins(w) \/ StopGivesUp(w)

Frame ==
    \/ \E w \in Workers : Poll(w) \/ Started(w) \/ Stopping(w)
    \/ StartUpdateCheck \/ CheckDoesNotStart \/ StartManagerUpdate
    \/ NoKey \/ Leave

WorkersNext ==
    \/ \E w \in Workers : WorkerStep(w)
    \/ GetSignature
    \/ Frame
    \/ Publish

WorkersSpec == WorkersInit /\ [][WorkersNext]_taskVars

(* Both threads are scheduled, curl's timeout ends every transfer, and the *)
(* loop runs one frame after the other.                                    *)
Fairness ==
    /\ \A w \in Workers : WF_taskVars(WorkerStep(w))
    /\ WF_taskVars(GetSignature)
    /\ WF_taskVars(Frame)

FairSpec == WorkersSpec /\ Fairness

-----------------------------------------------------------------------------
(* The domain of every variable.                                           *)
WorkersTypeOK ==
    /\ host \in [HostFiles -> ReleaseNumbers]
    /\ task \in [Workers -> [request : BOOLEAN, running : BOOLEAN, quit : BOOLEAN,
                             have : BOOLEAN, result : ReleaseNumbers, got : ReleaseNumbers,
                             thread : Threads]]
    /\ ui \in {"boot", "takeCheck", "askCheck", "takeManager", "askManager", "keys",
               "startedCheck", "startedManager", "stopCheck", "waitCheck",
               "stopManager", "waitManager", "destroyed"}
    /\ shown \in [Workers -> BOOLEAN]
    /\ offer \in ReleaseNumbers
    /\ nro \in ReleaseNumbers
    /\ installed \in ReleaseNumbers

(* The version the page names as installed is the one at the standard      *)
(* path, though the host replaces its files one by one and a check may     *)
(* change the manifest while the download is under way.                    *)
InstalledIsNamed == installed # 0 => nro = installed

(* A manifest in hand is never behind what is installed: results are taken *)
(* in the order the host published them, whichever worker answers first,   *)
(* so no check takes back an update.                                       *)
OfferIsNotBehind == offer # 0 => offer >= nro

(* No request is forgotten: a task marked as running, which takes no other *)
(* request, has one in its hands or waiting.                               *)
RunningHasWork ==
    \A w \in Workers : task[w].running =>
        \/ task[w].request
        \/ task[w].thread \in InTransfer \cup {"answer"}

Leaving == ui \in {"stopCheck", "waitCheck", "stopManager", "waitManager", "destroyed"}

(* The spinner of the update center goes out, unless the app leaves.       *)
SpinnerEnds == \A w \in Workers : shown[w] ~> ~shown[w] \/ Leaving

(* net/update_task.hpp, Stop: what is left to the kernel is a worker that  *)
(* is still inside curl.                                                   *)
GivesUp == \E w \in Workers : ui = WaitAt(w) /\ ui' = Stopped(w) /\ task[w].running
LeavesOnlyTheBusy ==
    [][GivesUp => \E w \in Workers : ui = WaitAt(w) /\ task[w].thread \in InTransfer]_taskVars

(* net/update_task.cpp, g_stack: the thread may outlive Stop, so the       *)
(* memory it runs on is not freed by then.                                 *)
Object(w) == [f \in {"request", "running", "have", "result"} |-> task[w][f]]

DestroyedIsLeftAlone ==
    [][ui = "destroyed" => \A w \in Workers : Object(w)' = Object(w)]_taskVars
=============================================================================
