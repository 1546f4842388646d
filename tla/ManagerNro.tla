------------------------------ MODULE ManagerNro ------------------------------
(***************************************************************************)
(* The manager's own file on the card: the startup check that moves a copy *)
(* started from elsewhere to the standard path, and the self-update that   *)
(* replaces it there (env/startup_check.cpp, env/startup_runtime.cpp,      *)
(* App::ApplyManagerDownload with install/engine.cpp).                     *)
(*                                                                         *)
(* Both write next to the standard path first and then swap files, on a    *)
(* file system whose rename does not overwrite.  Any call may fail and the *)
(* power may go between any two; what must not happen is that the player   *)
(* is left without a copy that starts.                                     *)
(***************************************************************************)
EXTENDS Naturals, FiniteSets

CONSTANTS
    Ours,       \* builds of the manager: [version, build]
    Foreign,    \* another program's NRO, or one that cannot be read
    Torn,       \* a file that was not written to its end
    Absent,     \* no file
    MaxFaults,  \* failing calls
    MaxCuts     \* power cuts

ASSUME CopiesAreVersioned ==
    /\ \A i \in Ours : i.version \in Nat
    /\ {Foreign, Torn, Absent} \cap Ours = {}
    /\ Foreign # Torn /\ Foreign # Absent /\ Torn # Absent

VARIABLES
    card,       \* the file at the standard path, its two siblings, the other copy
    pc,         \* where the app is
    self,       \* the copy that runs
    action,     \* the startup check's decision, made once per launch: what the repair
                \* does, and whether the file at the standard path was misread for it
    silent,     \* the move that happens before the page exists
    goal,       \* the release the self-update writes
    faults, cuts

vars == <<card, pc, self, action, silent, goal, faults, cuts>>

Contents == Ours \cup {Foreign, Torn, Absent}
Places == {"standard", "temp", "old", "other"}

(* ParseNroMeta and NroLooksOurs: the file is whole and names this app.    *)
NroLooksOurs(file) == file \in Ours

Put(place, file) == card' = [card EXCEPT ![place] = file]

Fault == faults < MaxFaults /\ faults' = faults + 1
NoFault == faults' = faults

Undecided == [does |-> "None", misread |-> FALSE]

Init ==
    /\ card \in [Places -> Contents]
    /\ card.standard \in Ours \cup {Foreign, Absent}
    /\ card.temp = Absent
    /\ card.old = Absent
    /\ card.other \in Ours \cup {Absent}
    /\ card.standard \in Ours \/ card.other \in Ours
    /\ pc = "off"
    /\ self = Absent
    /\ action = Undecided
    /\ silent = FALSE
    /\ goal = Absent
    /\ faults = 0
    /\ cuts = 0

-----------------------------------------------------------------------------
(* RunStartupCheck and DecideStartup.                                      *)

(* CompareVersions: the copy at the standard path has the higher version.  *)
Newer(standard, current) == standard.version > current.version

(* Mutant: the copy that runs always wins.                                 *)
MutCurrentWins(standard, current, mtime) ==
    IF standard = current THEN "DeleteCurrent" ELSE "CopyCurrent"

(* `mtime` says which of two builds of one version is the later file.      *)
DecideStartup(standard, current, mtime) ==
    IF ~NroLooksOurs(standard) THEN "CopyCurrent"
    ELSE IF Newer(standard, current) THEN "DeleteCurrent"
    ELSE IF Newer(current, standard) THEN "CopyCurrent"
    ELSE IF standard = current THEN "DeleteCurrent"
    ELSE IF mtime THEN "CopyCurrent" ELSE "DeleteCurrent"

(* The player starts a copy from the album.  At the standard path there is *)
(* nothing to do; when that path is empty the move is silent, and else a   *)
(* page offers it.  A file there that cannot be opened is no file          *)
(* (FileExists), one that cannot be read is none of ours: the check sees   *)
(* either in place of what is on the card.                                 *)
StartStandard ==
    /\ pc \in {"off", "chain"}
    /\ NroLooksOurs(card.standard)
    /\ pc' = "home"
    /\ self' = card.standard
    /\ UNCHANGED <<card, action, silent, goal, faults, cuts>>

StartOther ==
    /\ pc = "off"
    /\ NroLooksOurs(card.other)
    /\ self' = card.other
    /\ \E seen \in {card.standard, Foreign, Absent}, mtime \in BOOLEAN :
          /\ IF seen = card.standard THEN NoFault ELSE card.standard # Absent /\ Fault
          /\ action' = [does |-> DecideStartup(seen, card.other, mtime),
                        misread |-> seen # card.standard]
          /\ silent' = (seen = Absent)
          /\ pc' = IF seen = Absent THEN "create" ELSE "page"
    /\ UNCHANGED <<card, goal, cuts>>

(* When the copy that runs cannot be read itself, that is reported, and    *)
(* both files are left alone.                                              *)
StartUnreadable ==
    /\ pc = "off"
    /\ NroLooksOurs(card.other)
    /\ Fault
    /\ self' = card.other
    /\ action' = [Undecided EXCEPT !.does = "ReportOnly"]
    /\ pc' = "page"
    /\ UNCHANGED <<card, silent, goal, cuts>>

(* The page has one button, and it may be pressed again after a failure.   *)
RepairStartup ==
    /\ pc = "page"
    /\ action.does \in {"CopyCurrent", "DeleteCurrent"}
    /\ pc' = IF action.does = "CopyCurrent" THEN "create" ELSE "delete"
    /\ UNCHANGED <<card, self, action, silent, goal, faults, cuts>>

(* Whatever the reason, the page shows it and keeps its decision.          *)
RepairFails ==
    /\ pc' = "page"
    /\ silent' = FALSE

(***************************************************************************)
(* CopyVerified: a temporary file next to the standard path, read back,    *)
(* then the standard path is cleared and the temporary file renamed.       *)
(***************************************************************************)
CopyCreates ==
    /\ pc = "create"
    /\ \/ Put("temp", Torn) /\ NoFault /\ pc' = "fill" /\ UNCHANGED silent
       \/ Put("temp", Absent) /\ Fault /\ RepairFails
    /\ UNCHANGED <<self, action, goal, cuts>>

CopyFills ==
    /\ pc = "fill"
    /\ \/ Put("temp", card.other) /\ NoFault /\ pc' = "clear" /\ UNCHANGED silent
       \/ Put("temp", Absent) /\ Fault /\ RepairFails
    /\ UNCHANGED <<self, action, goal, cuts>>

(* The result of deleting the file in the way is not asked for.            *)
CopyClears ==
    /\ pc = "clear"
    /\ pc' = "rename"
    /\ \/ Put("standard", Absent) /\ NoFault
       \/ card.standard # Absent /\ Fault /\ UNCHANGED card
    /\ UNCHANGED <<self, action, silent, goal, cuts>>

(* Mutant: a rename that fails is not noticed.                             *)
MutRenameUnasked ==
    /\ pc = "rename"
    /\ pc' = "source"
    /\ \/ /\ card.standard = Absent
          /\ card' = [card EXCEPT !.standard = card.temp, !.temp = Absent]
          /\ NoFault
       \/ Put("temp", Absent) /\ Fault
    /\ UNCHANGED <<self, action, silent, goal, cuts>>

CopyRenames ==
    /\ pc = "rename"
    /\ \/ /\ card.standard = Absent
          /\ card' = [card EXCEPT !.standard = card.temp, !.temp = Absent]
          /\ NoFault
          /\ pc' = "source"
          /\ UNCHANGED silent
       \/ card.standard # Absent /\ Put("temp", Absent) /\ NoFault /\ RepairFails
       \/ card.standard = Absent /\ Put("temp", Absent) /\ Fault /\ RepairFails
    /\ UNCHANGED <<self, action, goal, cuts>>

(* SetNextLoadToStandard: the loader starts the standard path next, or,    *)
(* when it cannot, the player is asked to.                                 *)
Repaired == pc' \in {"chain", "repaired"}

(* A source that cannot be removed does not block the restart.             *)
RemovesSource ==
    /\ pc = "source"
    /\ \/ Put("other", Absent) /\ NoFault
       \/ UNCHANGED card /\ Fault
    /\ Repaired
    /\ UNCHANGED <<self, action, silent, goal, cuts>>

(* DeleteCurrent: the standard copy stays and this one goes.               *)
DeletesCurrent ==
    /\ pc = "delete"
    /\ \/ Put("other", Absent) /\ NoFault /\ Repaired /\ UNCHANGED silent
       \/ UNCHANGED card /\ Fault /\ RepairFails
    /\ UNCHANGED <<self, action, goal, cuts>>

-----------------------------------------------------------------------------
(***************************************************************************)
(* ApplyManagerDownload: a release that was downloaded and compared with   *)
(* the manifest is written by WriteFileVerified: PrepareFile, CommitFile,  *)
(* DropBackups.                                                            *)
(***************************************************************************)
UpdateStarts ==
    /\ pc = "home"
    /\ goal = Absent
    /\ \E i \in Ours : i.version > self.version /\ goal' = i
    /\ pc' = "prepare"
    /\ UNCHANGED <<card, self, action, silent, faults, cuts>>

(* The update center says what failed, and the update may be started anew. *)
UpdateFails ==
    /\ pc' = "home"
    /\ goal' = Absent

UpdatePrepares ==
    /\ pc = "prepare"
    /\ \/ card.temp # Torn /\ Put("temp", Torn) /\ NoFault /\ UNCHANGED <<pc, goal>>
       \/ card.temp = Torn /\ Put("temp", goal) /\ NoFault /\ pc' = "backup" /\ UNCHANGED goal
       \/ Put("temp", Absent) /\ Fault /\ UpdateFails
    /\ UNCHANGED <<self, action, silent, cuts>>

UpdateClearsBackup ==
    /\ pc = "backup"
    /\ pc' = "aside"
    /\ \/ Put("old", Absent) /\ NoFault
       \/ card.old # Absent /\ UNCHANGED card /\ Fault
    /\ UNCHANGED <<self, action, silent, goal, cuts>>

UpdateMovesAside ==
    /\ pc = "aside"
    /\ \/ /\ card.old = Absent
          /\ card' = [card EXCEPT !.old = card.standard, !.standard = Absent]
          /\ NoFault
          /\ pc' = "in"
          /\ UNCHANGED goal
       \/ card.old # Absent /\ NoFault /\ UNCHANGED card /\ UpdateFails
       \/ Fault /\ UNCHANGED card /\ UpdateFails
    /\ UNCHANGED <<self, action, silent, cuts>>

(* Mutant: a new file that cannot be moved in ends the update. *)
MutEndsAside ==
    /\ pc = "in"
    /\ \/ /\ card' = [card EXCEPT !.standard = card.temp, !.temp = Absent]
          /\ NoFault
          /\ pc' = "drop"
          /\ UNCHANGED goal
       \/ UNCHANGED card /\ Fault /\ UpdateFails
    /\ UNCHANGED <<self, action, silent, cuts>>

(* When the new file cannot be moved in, the one moved aside comes back.   *)
UpdateMovesIn ==
    /\ pc = "in"
    /\ \/ /\ card' = [card EXCEPT !.standard = card.temp, !.temp = Absent]
          /\ NoFault
          /\ pc' = "drop"
       \/ UNCHANGED card /\ Fault /\ pc' = "back"
    /\ UNCHANGED <<self, action, silent, goal, cuts>>

UpdateMovesBack ==
    /\ pc = "back"
    /\ \/ /\ card' = [card EXCEPT !.standard = card.old, !.old = Absent, !.temp = Absent]
          /\ NoFault
       \/ Put("temp", Absent) /\ Fault
    /\ UpdateFails
    /\ UNCHANGED <<self, action, silent, cuts>>

(* The goal is kept: m_manager_installed_version names it until the end of *)
(* this process.                                                           *)
UpdateDropsBackup ==
    /\ pc = "drop"
    /\ pc' = "home"
    /\ \/ Put("old", Absent) /\ NoFault
       \/ UNCHANGED card /\ Fault
    /\ UNCHANGED <<self, action, silent, goal, cuts>>

(* RequestManagerRestart, after an update.                                 *)
Restarts ==
    /\ pc = "home"
    /\ goal # Absent
    /\ pc' = "chain"
    /\ goal' = Absent
    /\ UNCHANGED <<card, self, action, silent, faults, cuts>>

-----------------------------------------------------------------------------
Gone ==
    /\ pc' = "off"
    /\ self' = Absent
    /\ action' = Undecided
    /\ silent' = FALSE
    /\ goal' = Absent

Exits ==
    /\ pc \in {"home", "page", "repaired"}
    /\ Gone
    /\ UNCHANGED <<card, faults, cuts>>

PowerCut ==
    /\ pc # "off"
    /\ cuts < MaxCuts
    /\ cuts' = cuts + 1
    /\ Gone
    /\ UNCHANGED <<card, faults>>

(* The player puts a copy on the card again.                               *)
PlayerCopies ==
    /\ pc = "off"
    /\ card.other = Absent
    /\ \E i \in Ours : Put("other", i)
    /\ UNCHANGED <<pc, self, action, silent, goal, faults, cuts>>

Repair ==
    \/ RepairStartup \/ CopyCreates \/ CopyFills \/ CopyClears \/ CopyRenames
    \/ RemovesSource \/ DeletesCurrent

Update ==
    \/ UpdateStarts \/ UpdatePrepares \/ UpdateClearsBackup \/ UpdateMovesAside
    \/ UpdateMovesIn \/ UpdateMovesBack \/ UpdateDropsBackup

Next ==
    \/ StartStandard \/ StartOther \/ StartUnreadable
    \/ Repair \/ Update
    \/ Restarts \/ Exits \/ PowerCut \/ PlayerCopies

Spec == Init /\ [][Next]_vars

-----------------------------------------------------------------------------
(* The domain of every variable.                                           *)
TypeOK ==
    /\ card \in [Places -> Contents]
    /\ pc \in {"off", "home", "page", "repaired", "chain", "create", "fill", "clear",
               "rename", "source", "delete", "prepare", "backup", "aside", "in",
               "back", "drop"}
    /\ self \in Ours \cup {Absent}
    /\ action \in [does : {"None", "CopyCurrent", "DeleteCurrent", "ReportOnly"},
                   misread : BOOLEAN]
    /\ silent \in BOOLEAN
    /\ goal \in Ours \cup {Absent}
    /\ faults \in 0..MaxFaults
    /\ cuts \in 0..MaxCuts

(* Wherever the power goes and whichever calls fail, no file that could be *)
(* started is half-written: not the one at the standard path, nor the one  *)
(* moved aside, nor the player's copy.                                     *)
NothingHalfWritten ==
    \A place \in Places \ {"temp"} : card[place] # Torn

(* Some whole copy of the manager is on the card at every moment: neither  *)
(* the move nor the update ever destroys the last one.                     *)
ACopyRemains == \E place \in Places : card[place] \in Ours

(* The startup repair never loses the newest version the player had at     *)
(* either path, though it deletes one of the two files and is pressed again *)
(* after any failure - unless the startup check could not open or read the *)
(* file at the standard path, which it then takes for none or for another  *)
(* program's, and replaces.                                                *)
Best(c) ==
    LET versions == {c[p].version : p \in {q \in {"standard", "other"} : c[q] \in Ours}}
    IN  IF versions = {} THEN 0 ELSE CHOOSE v \in versions : \A w \in versions : w <= v

NewestIsKept == [][Repair /\ ~action.misread => Best(card') >= Best(card)]_vars

(* docs/home_menu_and_startup_check_design.md:71: with a higher version at  *)
(* the standard path it is the copy that was started that is deleted.      *)
NewestIsKeptUnread == [][Repair => Best(card') >= Best(card)]_vars

(* docs/architecture.md 9.3: the update replaces the standard path         *)
(* atomically: whenever the power goes, a copy is there.                   *)
Updating == pc \in {"prepare", "backup", "aside", "in", "back", "drop"}

ReplacedAtomically == [][Updating /\ pc' = "off" => card'.standard \in Ours]_vars
=============================================================================
