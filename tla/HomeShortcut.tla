---------------------------- MODULE HomeShortcut ----------------------------
(*****************************************************************************)
(* The tile on the home menu: a small application of its own whose program   *)
(* starts the manager's file at the standard path.  The button on the home   *)
(* page adds it, by the package installer and from a package the manager     *)
(* carries, or removes it, by the console's own deletion and, where the      *)
(* console refuses that, one service call after the other (App's             *)
(* RefreshForwarderTile, InstallForwarderTile and RemoveForwarderTile).      *)
(*                                                                           *)
(* It is put on top of ManagerNro: what the tile opens is the file that the  *)
(* startup check and the self-update replace, and the button must leave     *)
(* alone a tile that runs.                                                   *)
(*****************************************************************************)
EXTENDS ManagerNro

VARIABLES
  stored,   \* tile -> contents of it in the storage
  mem,      \* tiles the meta database has a record of
  disk,     \* tiles the database was last committed with
  listed,   \* tiles that are entries of the home menu
  running,  \* tiles with a process, which may be this one
  mode,     \* how this process was started
  shown,    \* m_forwarder_installed
  blocked,  \* m_forwarder_application_running
  op,       \* what the button does, one service call at a time
  told      \* the result, and what was on the menu when the button was pressed

manager == <<card, pc, self, action, silent, goal, cuts>>
console == <<stored, mem, disk, listed>>
session == <<running, mode>>
button == <<shown, blocked>>
allVars == <<vars, console, session, button, op, told>>

(* An earlier version of the manager hashed another spelling of its path into *)
(* the title id: its tile is removed wherever one is met.                    *)
Standard == "StandardForwarderTitleId"
Legacy == "LegacyForwarderTitleId"
Titles == {Standard, Legacy}
Parts == {"meta", "program"}

(* The console can start it: what the installer's ConsoleCanUse asks as well. *)
Usable(t) == stored[t] = Parts /\ t \in mem \cap listed

AtRest == [kind |-> "none", at |-> "rest", left |-> {}, ok |-> TRUE, unsure |-> FALSE]
Untold == [result |-> "none", had |-> {}]

InitTile ==
  /\ Init
  /\ \E there \in SUBSET Titles :
       /\ stored = [t \in Titles |-> IF t \in there THEN Parts ELSE {}]
       /\ mem = there /\ disk = there /\ listed = there
  /\ running = {} /\ mode = "applet"
  /\ shown = FALSE /\ blocked = FALSE
  /\ op = AtRest
  /\ told = Untold

At(step) == op.at = step
Goes(step) == op' = [op EXCEPT !.at = step]
Tells(result) == told' = [told EXCEPT !.result = result]

-----------------------------------------------------------------------------
(* What the services are asked; a title that is not there is an answer.      *)
ApplicationRunning(t) == t \in running
InstalledState(t) == t \in mem

(* RefreshForwarderTile, at the end of every Collect: a query that fails     *)
(* leaves its flag down.                                                     *)
RefreshForwarderTile ==
  /\ At("collect")
  /\ \/ shown' = InstalledState(Standard) /\ blocked' = ApplicationRunning(Standard) /\ NoFault
     \/ shown' = FALSE /\ blocked' = ApplicationRunning(Standard) /\ Fault
     \/ shown' = InstalledState(Standard) /\ blocked' = FALSE /\ Fault
     \/ shown' = FALSE /\ blocked' = FALSE /\ faults + 2 <= MaxFaults /\ faults' = faults + 2
  /\ op' = AtRest
  /\ UNCHANGED <<manager, console, session, told>>

ForwarderActionBlocked == mode # "applet" \/ blocked

(* The button on the home page: what it does depends on what it was drawn as. *)
Presses(kind, left) ==
  /\ pc = "home" /\ At("rest") /\ ~ForwarderActionBlocked
  /\ op' = [AtRest EXCEPT !.kind = kind, !.left = left,
                          !.at = IF kind = "remove" THEN "ask" ELSE "delete"]
  /\ told' = [result |-> "none", had |-> listed \cap mem]
  /\ NoFault
  /\ UNCHANGED <<manager, console, session, button>>

PressesRemove == shown /\ Presses("remove", Titles)
PressesInstall == ~shown /\ Presses("install", {Legacy})

(* Mutant: what the button found when the page was collected is good enough. *)
MutAskedBefore ==
  /\ At("ask")
  /\ Goes("delete") /\ NoFault
  /\ UNCHANGED <<manager, console, session, button, told>>

(* RemoveForwarderTile asks for the process again; no answer reads as none.  *)
AsksAgain ==
  /\ At("ask")
  /\ \/ ~ApplicationRunning(Standard) /\ Goes("delete") /\ NoFault /\ UNCHANGED told
     \/ ApplicationRunning(Standard) /\ Goes("collect") /\ NoFault /\ Tells("running")
     \/ op' = [op EXCEPT !.at = "delete", !.unsure = TRUE] /\ Fault /\ UNCHANGED told
  /\ UNCHANGED <<manager, console, session, button>>

-----------------------------------------------------------------------------
(* DeleteApplicationTitles: the standard title before the legacy one.        *)

Title == IF Standard \in op.left THEN Standard ELSE Legacy

(* One title that fails does not keep the next one from being tried.         *)
TitleEnds(ok) ==
  op' = [op EXCEPT !.at = "delete", !.left = @ \ {Title}, !.ok = @ /\ ok]

TitleFails == Fault /\ TitleEnds(FALSE)

(* ns cannot be opened: no title is tried. *)
DeletionFails ==
  /\ At("delete") /\ op.left \in {Titles, {Legacy}}
  /\ op.kind = "remove" => op.left = Titles
  /\ Fault
  /\ op' = [op EXCEPT !.left = {}, !.ok = FALSE]
  /\ UNCHANGED <<manager, console, session, button, told>>

(* nsDeleteApplicationCompletely: the console knows no such application, or  *)
(* removes all of it, or refuses - always one that runs, and on some consoles *)
(* one that it did not make itself.                                          *)
DeletesCompletely ==
  /\ At("delete") /\ op.left # {}
  /\ \/ Title \notin listed /\ TitleEnds(TRUE) /\ UNCHANGED console
     \/ /\ Title \in listed \ running
        /\ stored' = [stored EXCEPT ![Title] = {}]
        /\ mem' = mem \ {Title} /\ disk' = disk \ {Title} /\ listed' = listed \ {Title}
        /\ TitleEnds(TRUE)
     \/ Title \in listed /\ Goes("locate") /\ UNCHANGED console
  /\ NoFault
  /\ UNCHANGED <<manager, session, button, told>>

(* DeleteApplicationRecordViaNcm, from here to DeletesEntity.  A title without *)
(* a record has no meta to list, or one whose key is not found.              *)
LocatesMeta ==
  /\ At("locate")
  /\ \/ Title \in mem /\ Goes("contents") /\ NoFault
     \/ Title \notin mem /\ (Goes("entity") \/ TitleEnds(FALSE)) /\ NoFault
     \/ TitleFails
  /\ UNCHANGED <<manager, console, session, button, told>>

(* Mutant: a content that cannot be deleted is left alone. *)
MutContentUnasked ==
  /\ At("contents")
  /\ \/ \E c \in stored[Title] :
          stored' = [stored EXCEPT ![Title] = @ \ {c}] /\ NoFault /\ UNCHANGED op
     \/ stored[Title] = {} /\ Goes("forget") /\ NoFault /\ UNCHANGED stored
     \/ Goes("forget") /\ Fault /\ UNCHANGED stored
  /\ UNCHANGED <<manager, mem, disk, listed, session, button, told>>

DeletesContent ==
  /\ At("contents")
  /\ \/ \E c \in stored[Title] :
          stored' = [stored EXCEPT ![Title] = @ \ {c}] /\ NoFault /\ UNCHANGED op
     \/ stored[Title] = {} /\ Goes("forget") /\ NoFault /\ UNCHANGED stored
     \/ TitleFails /\ UNCHANGED stored
  /\ UNCHANGED <<manager, mem, disk, listed, session, button, told>>

RemovesMeta ==
  /\ At("forget")
  /\ \/ mem' = mem \ {Title} /\ Goes("save") /\ NoFault
     \/ TitleFails /\ UNCHANGED mem
  /\ UNCHANGED <<manager, stored, disk, listed, session, button, told>>

SavesMeta ==
  /\ At("save")
  /\ \/ disk' = mem /\ Goes("entity") /\ NoFault
     \/ TitleFails /\ UNCHANGED disk
  /\ UNCHANGED <<manager, stored, mem, listed, session, button, told>>

DeletesEntity ==
  /\ At("entity")
  /\ \/ listed' = listed \ {Title} /\ TitleEnds(TRUE) /\ NoFault
     \/ TitleFails /\ UNCHANGED listed
  /\ UNCHANGED <<manager, stored, mem, disk, session, button, told>>

RemoveEnds ==
  /\ At("delete") /\ op.kind = "remove" /\ op.left = {}
  /\ Goes("collect")
  /\ Tells(IF op.ok THEN "removed" ELSE "kept")
  /\ NoFault
  /\ UNCHANGED <<manager, console, session, button>>

-----------------------------------------------------------------------------
(* InstallForwarderTile, after the legacy tile; what became of that one is   *)
(* only logged.  Until its contents are registered the package leaves nothing *)
(* behind, and a run that ends before that does not collect.                 *)
InstallPrepares ==
  /\ At("delete") /\ op.kind = "install" /\ op.left = {}
  /\ \/ ApplicationRunning(Standard) /\ op' = AtRest /\ NoFault /\ Tells("running")
     \/ /\ ~ApplicationRunning(Standard)
        /\ \/ Usable(Standard) /\ op' = AtRest /\ NoFault /\ Tells("skipped")
           \/ ~Usable(Standard) /\ Goes("register") /\ NoFault /\ UNCHANGED told
     \/ op' = AtRest /\ Fault /\ Tells("failed")
  /\ UNCHANGED <<manager, console, session, button>>

(* Nothing of this package was rewritten, and nothing of it is rolled back.  *)
InstallFails == Fault /\ Goes("collect") /\ Tells("failed")

(* Register: the meta's content first. *)
RegistersContents ==
  /\ At("register")
  /\ LET missing == Parts \ stored[Standard]
         first == missing \cap {"meta"}
     IN \/ /\ \E c \in IF first # {} THEN first ELSE missing :
                stored' = [stored EXCEPT ![Standard] = @ \cup {c}]
           /\ NoFault /\ UNCHANGED <<op, told>>
        \/ missing = {} /\ Goes("set") /\ NoFault /\ UNCHANGED <<stored, told>>
        \/ InstallFails /\ UNCHANGED stored
  /\ UNCHANGED <<manager, mem, disk, listed, session, button>>

SetsRecord ==
  /\ At("set")
  /\ \/ mem' = mem \cup {Standard} /\ Goes("commit") /\ NoFault /\ UNCHANGED told
     \/ InstallFails /\ UNCHANGED mem
  /\ UNCHANGED <<manager, stored, disk, listed, session, button>>

CommitsRecord ==
  /\ At("commit")
  /\ \/ disk' = mem /\ Goes("reset") /\ NoFault /\ UNCHANGED told
     \/ InstallFails /\ UNCHANGED disk
  /\ UNCHANGED <<manager, stored, mem, listed, session, button>>

(* The menu's entry goes before it is filed; a failure is only logged.       *)
ResetsEntity ==
  /\ At("reset")
  /\ Goes("push")
  /\ \/ listed' = listed \ {Standard} /\ NoFault
     \/ Standard \in listed /\ Fault /\ UNCHANGED listed
  /\ UNCHANGED <<manager, stored, mem, disk, session, button, told>>

PushesRecord ==
  /\ At("push")
  /\ \/ listed' = listed \cup {Standard} /\ Goes("launch") /\ NoFault /\ UNCHANGED told
     \/ InstallFails /\ UNCHANGED listed
  /\ UNCHANGED <<manager, stored, mem, disk, session, button>>

(* The launch version and the cached control data. *)
InstallEnds ==
  /\ At("launch")
  /\ \/ Goes("collect") /\ NoFault /\ Tells("installed")
     \/ InstallFails
  /\ UNCHANGED <<manager, console, session, button>>

-----------------------------------------------------------------------------
(* The manager's life around it. *)

(* The loader starts the manager in a chain, the player from the album or in *)
(* a game's place, which ends what was suspended, or with a tile.  On the way *)
(* to its home page it collects.                                             *)
StartsAtStandard ==
  /\ StartStandard
  /\ \/ pc = "chain" /\ UNCHANGED session
     \/ pc = "off" /\ mode' = "applet" /\ UNCHANGED running
     \/ pc = "off" /\ mode' = "takeover" /\ running' = {}
     \/ pc = "off" /\ mode' = "tile" /\ \E t \in Titles : Usable(t) /\ running' = {t}
  /\ Goes("collect")
  /\ UNCHANGED <<console, button, told>>

(* A copy elsewhere is started from the album. *)
StartsElsewhere ==
  /\ StartOther \/ StartUnreadable
  /\ mode' = "applet"
  /\ UNCHANGED <<console, running, button, op, told>>

(* While the button is at work nothing else is. *)
Manages ==
  /\ At("rest")
  /\ Repair \/ Update \/ Restarts
  /\ UNCHANGED <<console, session, button, op, told>>

Forgets == op' = AtRest /\ told' = Untold /\ shown' = FALSE /\ blocked' = FALSE

(* An application that is left with the HOME button is suspended, and the    *)
(* manager may then be opened from the album next to it.                     *)
Closes ==
  /\ At("rest")
  /\ Exits
  /\ \/ running' = IF mode = "tile" THEN {} ELSE running
     \/ mode = "tile" /\ UNCHANGED running
  /\ Forgets
  /\ UNCHANGED <<console, mode>>

PlayerClosesTile ==
  /\ pc = "off" /\ running # {}
  /\ running' = {}
  /\ UNCHANGED <<vars, console, mode, button, op, told>>

(* What was not committed is gone. *)
LosesPower ==
  /\ PowerCut
  /\ mem' = disk /\ running' = {}
  /\ Forgets
  /\ UNCHANGED <<stored, disk, listed, mode>>

SwitchesOff ==
  /\ pc = "off" /\ (mem # disk \/ running # {})
  /\ mem' = disk /\ running' = {}
  /\ UNCHANGED <<vars, stored, disk, listed, mode, button, op, told>>

Copies == PlayerCopies /\ UNCHANGED <<console, session, button, op, told>>

Removing ==
  \/ PressesRemove \/ AsksAgain \/ DeletionFails \/ DeletesCompletely \/ LocatesMeta
  \/ DeletesContent \/ RemovesMeta \/ SavesMeta \/ DeletesEntity \/ RemoveEnds

Installing ==
  \/ PressesInstall \/ InstallPrepares \/ RegistersContents \/ SetsRecord \/ CommitsRecord
  \/ ResetsEntity \/ PushesRecord \/ InstallEnds

NextTile ==
  \/ RefreshForwarderTile \/ Removing \/ Installing
  \/ StartsAtStandard \/ StartsElsewhere \/ Manages
  \/ Closes \/ PlayerClosesTile \/ LosesPower \/ SwitchesOff \/ Copies

SpecTile == InitTile /\ [][NextTile]_allVars

-----------------------------------------------------------------------------
(* Properties. *)

(* What the variables hold. *)
Steps ==
  {"rest", "collect", "ask", "delete", "locate", "contents", "forget", "save", "entity",
   "register", "set", "commit", "reset", "push", "launch"}
Work ==
  [kind : {"none", "remove", "install"}, at : Steps, left : SUBSET Titles,
   ok : BOOLEAN, unsure : BOOLEAN]
Results == {"none", "removed", "kept", "running", "installed", "skipped", "failed"}
Told == [result : Results, had : SUBSET Titles]

TypeOKTile ==
  /\ stored \in [Titles -> SUBSET Parts]
  /\ mem \subseteq Titles /\ disk \subseteq Titles /\ listed \subseteq Titles
  /\ running \in {{}, {Standard}, {Legacy}}
  /\ mode \in {"applet", "takeover", "tile"}
  /\ shown \in BOOLEAN /\ blocked \in BOOLEAN
  /\ op \in Work
  /\ told \in Told

(* What the result page says of the tile is so, whichever of the calls failed *)
(* and whatever earlier attempts and power cuts left: removed, and no entry is *)
(* left on the menu, and of what the menu could show when the button was     *)
(* pressed no content and no record; installed, and all of it is there for   *)
(* good, alone as long as nothing went wrong.                                *)
ToldIsTrue ==
  /\ told.result = "removed" =>
       /\ listed = {}
       /\ \A t \in told.had : stored[t] = {} /\ t \notin mem \cup disk
  /\ told.result = "installed" =>
       /\ Usable(Standard) /\ Standard \in disk
       /\ faults + cuts = 0 => listed = {Standard}

(* A tile that has a process - it may be the manager in which the button was *)
(* drawn before - keeps its contents, its record and its entry, unless the   *)
(* console would not say at the press whether there is one.                  *)
RunningIsSpared ==
  [][~op.unsure /\ Standard \in running \cap running' =>
       /\ stored[Standard] \subseteq stored'[Standard]
       /\ Standard \in mem => Standard \in mem'
       /\ Standard \in listed => Standard \in listed']_allVars

(* On the home page, with a usable tile on the menu: one failed call of the  *)
(* self-update or of a repair leaves a manager where the tile looks for it.  *)
TileOpensManager ==
  pc = "home" /\ faults <= 1 /\ (\E t \in Titles : Usable(t)) => NroLooksOurs(card.standard)
=============================================================================
