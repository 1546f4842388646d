------------------------- MODULE HomeShortcut_proofs -------------------------
(***************************************************************************)
(* Proofs about the home-menu tile and about the startup repair, for every *)
(* set of builds and any number of failing calls and power cuts: what the  *)
(* result page says of the tile is so, a running tile is spared, and of    *)
(* the two copies of the manager the newest is never destroyed.            *)
(***************************************************************************)
EXTENDS HomeShortcut, TLAPS

Deleting == {"delete", "locate", "contents", "forget", "save", "entity"}
Registering == {"register", "set", "commit", "reset", "push", "launch"}

(* Where the button's work may stand, and that the app is on its home page *)
(* for as long as it has work.                                             *)
Control ==
  /\ faults \in Nat /\ cuts \in Nat
  /\ op.at = "rest" => op = AtRest
  /\ op.at # "rest" => pc = "home"
  /\ op.at = "ask" => op.kind = "remove" /\ op.left = Titles
  /\ op.at \in Deleting => op.kind \in {"remove", "install"}
  /\ op.at \in Deleting \ {"delete"} => op.left # {}
  /\ op.at \in Deleting /\ op.kind = "install" => op.left \subseteq {Legacy}
  /\ op.at \in Registering => op.kind = "install" /\ op.left = {}
  /\ op.at \notin {"rest", "collect"} => told.result = "none"
  /\ pc = "off" => told.result = "none"

(* A tile that runs is met only by work that does not touch it.            *)
Spared ==
  ~op.unsure /\ Standard \in running =>
    \/ op.at \in {"rest", "collect", "ask"}
    \/ op.at \in Deleting /\ op.kind = "install"

(* A removal in progress: the titles it has left are as they were when the *)
(* button was pressed, the one at hand is taken apart in one order, and    *)
(* those it is done with are gone, unless something failed.                *)
Cleared(t) == stored[t] = {} /\ t \notin mem \cup disk

Removal ==
  op.kind = "remove" =>
    /\ op.at \in Deleting \cup {"ask"} =>
         /\ \A t \in (op.left \cap told.had) \ {Title} : t \in listed \cap mem
         /\ op.ok => \A t \in Titles \ op.left :
                       t \notin listed /\ (t \in told.had => Cleared(t))
    /\ op.at \in {"ask", "delete", "locate"} /\ Title \in op.left \cap told.had =>
         Title \in listed \cap mem
    /\ op.at \in {"forget", "save"} => stored[Title] = {}
    /\ op.at = "save" => Title \notin mem
    /\ op.at = "entity" /\ Title \in told.had => Cleared(Title)

(* An installation in progress: what each of its steps has left behind.    *)
Registered ==
  op.kind = "install" =>
    /\ op.at \in Registering \ {"register"} => stored[Standard] = Parts
    /\ op.at \in {"commit", "reset", "push", "launch"} => Standard \in mem
    /\ op.at \in {"reset", "push", "launch"} => Standard \in disk
    /\ op.at = "launch" => Standard \in listed

(* As long as nothing has gone wrong the menu, the database and what was   *)
(* committed of it say the same between two operations.                    *)
Sound ==
  faults + cuts = 0 =>
    /\ \A t \in listed : t \in mem \/ (op.at \in {"save", "entity"} /\ t = Title)
    /\ mem = disk \/ op.at \in {"save", "commit"}
    /\ op.kind = "install" /\ op.at \in Deleting /\ op.left = {} => Legacy \notin listed
    /\ op.at \in Registering => Legacy \notin listed

IInv == TypeOKTile /\ Control /\ Spared /\ Removal /\ Registered /\ Sound /\ ToldIsTrue

-----------------------------------------------------------------------------
LEMMA TitleIsOne == Standard \in Titles /\ Legacy \in Titles /\ Title \in Titles
BY DEF Titles, Title

(* What the manager's own steps leave to the button: nothing is counted    *)
(* twice, and none of them ends the process.                               *)
LEMMA ManagerCounts ==
  ASSUME Repair \/ Update \/ Restarts
  PROVE  /\ faults' = faults \/ faults' = faults + 1
         /\ cuts' = cuts
         /\ pc # "off" /\ pc' # "off"
BY DEF Repair, RepairStartup, CopyCreates, CopyFills, CopyClears, CopyRenames, RemovesSource,
       DeletesCurrent, Repaired, RepairFails, Update, UpdateStarts, UpdatePrepares,
       UpdateClearsBackup, UpdateMovesAside, UpdateMovesIn, UpdateMovesBack, UpdateDropsBackup,
       UpdateFails, Restarts, NoFault, Fault

LEMMA StartCounts ==
  ASSUME StartOther \/ StartUnreadable
  PROVE  /\ faults' = faults \/ faults' = faults + 1
         /\ cuts' = cuts
         /\ pc = "off" /\ pc' # "off"
BY DEF StartOther, StartUnreadable, NoFault, Fault

(* What a step of the button's work does to its record, whichever it is.   *)
LEMMA WorkMoves ==
  ASSUME op \in Work, NEW step \in Steps, Goes(step)
  PROVE  /\ op' \in Work
         /\ op'.kind = op.kind /\ op'.at = step /\ op'.left = op.left
         /\ op'.ok = op.ok /\ op'.unsure = op.unsure
BY DEF Work, Goes

LEMMA TitleIsDone ==
  ASSUME op \in Work, NEW ok \in BOOLEAN, TitleEnds(ok)
  PROVE  /\ op' \in Work
         /\ op'.kind = op.kind /\ op'.at = "delete" /\ op'.left = op.left \ {Title}
         /\ op'.ok = (op.ok /\ ok) /\ op'.unsure = op.unsure
<1>1. (op.ok /\ ok) \in BOOLEAN /\ op.left \ {Title} \in SUBSET Titles /\ "delete" \in Steps
  BY DEF Work, Steps
<1> QED
  BY <1>1 DEF Work, TitleEnds

LEMMA ResultIsTold ==
  ASSUME told \in Told, NEW result \in Results, Tells(result)
  PROVE  /\ told' \in Told
         /\ told'.result = result /\ told'.had = told.had
BY DEF Told, Tells

LEMMA FlagsAreTyped ==
  ASSUME RefreshForwarderTile
  PROVE  shown' \in BOOLEAN /\ blocked' \in BOOLEAN
<1>1. (Standard \in mem) \in BOOLEAN /\ (Standard \in running) \in BOOLEAN
  OBVIOUS
<1>2. /\ shown' = (Standard \in mem) \/ shown' = FALSE
      /\ blocked' = (Standard \in running) \/ blocked' = FALSE
  BY Zenon DEF RefreshForwarderTile, InstalledState, ApplicationRunning
<1> QED
  BY <1>1, <1>2, Zenon

(* What a press hands to the button: work of one kind over some titles.    *)
Begun(kind, left) ==
  /\ op' \in Work
  /\ op'.kind = kind /\ op'.left = left /\ op'.ok /\ ~op'.unsure
  /\ op'.at = IF kind = "remove" THEN "ask" ELSE "delete"
  /\ told' \in Told /\ told'.result = "none" /\ told'.had = listed \cap mem
  /\ pc = "home" /\ op.at = "rest"
  /\ UNCHANGED <<pc, faults, cuts, stored, mem, disk, listed, running, mode, shown, blocked>>

LEMMA WorkBegins ==
  ASSUME TypeOKTile, NEW kind \in {"remove", "install"}, NEW left \in SUBSET Titles,
         Presses(kind, left)
  PROVE  Begun(kind, left)
<1>1. op' = [kind |-> kind, at |-> IF kind = "remove" THEN "ask" ELSE "delete", left |-> left,
             ok |-> TRUE, unsure |-> FALSE]
  BY DEF AtRest, Presses
<1>2. op' \in Work
  <2>1. (IF kind = "remove" THEN "ask" ELSE "delete") \in Steps
    BY DEF Steps
  <2> QED
    BY <1>1, <2>1 DEF Work
<1>3. /\ op'.kind = kind /\ op'.left = left /\ op'.ok /\ ~op'.unsure
      /\ op'.at = IF kind = "remove" THEN "ask" ELSE "delete"
  BY <1>1
<1>4. told' \in Told /\ told'.result = "none" /\ told'.had = listed \cap mem
  BY DEF Presses, Told, Results, TypeOKTile
<1>5. /\ pc = "home" /\ op.at = "rest"
      /\ UNCHANGED <<pc, faults, cuts, stored, mem, disk, listed, running, mode, shown, blocked>>
  BY DEF Presses, At, NoFault, manager, console, session, button
<1> QED
  BY <1>2, <1>3, <1>4, <1>5 DEF Begun

LEMMA RemoveBegins ==
  ASSUME TypeOKTile, PressesRemove PROVE Begun("remove", Titles)
<1>1. Presses("remove", Titles) /\ "remove" \in {"remove", "install"} /\ Titles \in SUBSET Titles
  BY DEF PressesRemove
<1> QED
  BY <1>1, WorkBegins

LEMMA InstallBegins ==
  ASSUME TypeOKTile, PressesInstall PROVE Begun("install", {Legacy})
<1>1. Presses("install", {Legacy}) /\ "install" \in {"remove", "install"}
  BY DEF PressesInstall
<1>2. {Legacy} \in SUBSET Titles
  BY DEF Titles
<1> QED
  BY <1>1, <1>2, WorkBegins

LEMMA WorkIsUnsure ==
  ASSUME op \in Work, op' = [op EXCEPT !.at = "delete", !.unsure = TRUE]
  PROVE  /\ op' \in Work
         /\ op'.kind = op.kind /\ op'.at = "delete" /\ op'.left = op.left
         /\ op'.ok = op.ok /\ op'.unsure
BY DEF Work, Steps

LEMMA NoneIsTried ==
  ASSUME op \in Work, op' = [op EXCEPT !.left = {}, !.ok = FALSE]
  PROVE  /\ op' \in Work
         /\ op'.kind = op.kind /\ op'.at = op.at /\ op'.left = {}
         /\ ~op'.ok /\ op'.unsure = op.unsure
BY DEF Work

LEMMA WorkIsOver ==
  ASSUME op' = AtRest
  PROVE  op' \in Work /\ op'.at = "rest" /\ op'.kind = "none"
BY DEF Work, AtRest, Steps

LEMMA NothingIsTold ==
  ASSUME told' = Untold
  PROVE  told' \in Told /\ told'.result = "none"
BY DEF Told, Untold, Results

(* The type invariant, one step per action.                                *)
LEMMA TypeIsKept == TypeOKTile /\ [NextTile]_allVars => TypeOKTile'
<1> SUFFICES ASSUME TypeOKTile, [NextTile]_allVars PROVE TypeOKTile'
  OBVIOUS
<1> USE TitleIsOne, WorkMoves, TitleIsDone, ResultIsTold, WorkIsOver, NothingIsTold,
        WorkIsUnsure, NoneIsTried
    DEF TypeOKTile, At, Steps, Results, manager, console, session, button
<1>1. CASE RefreshForwarderTile
  BY <1>1, FlagsAreTyped DEF RefreshForwarderTile
<1>2. CASE PressesRemove
  BY <1>2, RemoveBegins DEF Begun
<1>3. CASE AsksAgain
  BY <1>3 DEF AsksAgain, ApplicationRunning
<1>4. CASE DeletionFails
  BY <1>4 DEF DeletionFails
<1>5. CASE DeletesCompletely
  BY <1>5 DEF DeletesCompletely
<1>6. CASE LocatesMeta
  BY <1>6 DEF LocatesMeta, TitleFails
<1>7. CASE DeletesContent
  BY <1>7 DEF DeletesContent, TitleFails
<1>8. CASE RemovesMeta
  BY <1>8 DEF RemovesMeta, TitleFails
<1>9. CASE SavesMeta
  BY <1>9 DEF SavesMeta, TitleFails
<1>10. CASE DeletesEntity
  BY <1>10 DEF DeletesEntity, TitleFails
<1>11. CASE RemoveEnds
  BY <1>11 DEF RemoveEnds
<1>12. CASE PressesInstall
  BY <1>12, InstallBegins DEF Begun
<1>13. CASE InstallPrepares
  BY <1>13 DEF InstallPrepares, ApplicationRunning
<1>14. CASE RegistersContents
  BY <1>14 DEF RegistersContents, InstallFails
<1>15. CASE SetsRecord
  BY <1>15 DEF SetsRecord, InstallFails
<1>16. CASE CommitsRecord
  BY <1>16 DEF CommitsRecord, InstallFails
<1>17. CASE ResetsEntity
  BY <1>17 DEF ResetsEntity
<1>18. CASE PushesRecord
  BY <1>18 DEF PushesRecord, InstallFails
<1>19. CASE InstallEnds
  BY <1>19 DEF InstallEnds, InstallFails
<1>20. CASE StartsAtStandard
  <2>1. running' \in {{}, {Standard}, {Legacy}}
    BY <1>20 DEF StartsAtStandard, Titles
  <2> QED
    BY <1>20, <2>1 DEF StartsAtStandard
<1>21. CASE StartsElsewhere
  BY <1>21 DEF StartsElsewhere
<1>22. CASE Manages
  BY <1>22 DEF Manages
<1>23. CASE Closes
  BY <1>23 DEF Closes, Exits, Gone, Forgets
<1>24. CASE PlayerClosesTile
  BY <1>24 DEF PlayerClosesTile
<1>25. CASE LosesPower
  BY <1>25 DEF LosesPower, PowerCut, Gone, Forgets
<1>26. CASE SwitchesOff
  BY <1>26 DEF SwitchesOff
<1>27. CASE Copies
  BY <1>27 DEF Copies, PlayerCopies
<1>28. CASE UNCHANGED allVars
  BY <1>28 DEF allVars
<1> QED
  BY <1>1, <1>2, <1>3, <1>4, <1>5, <1>6, <1>7, <1>8, <1>9, <1>10, <1>11, <1>12, <1>13, <1>14,
     <1>15, <1>16, <1>17, <1>18, <1>19, <1>20, <1>21, <1>22, <1>23, <1>24, <1>25, <1>26, <1>27,
     <1>28 DEF NextTile, Removing, Installing

(* What a step of the deletion leaves to others.                           *)
AtTitle ==
  DeletesCompletely \/ LocatesMeta \/ DeletesContent \/ RemovesMeta \/ SavesMeta \/ DeletesEntity

LEMMA DeletionFrame ==
  ASSUME AtTitle
  PROVE  /\ op.at \in Deleting
         /\ UNCHANGED <<pc, running, mode, shown, blocked, told, cuts>>
         /\ faults' = faults \/ faults' = faults + 1
BY DEF AtTitle, DeletesCompletely, LocatesMeta, DeletesContent, RemovesMeta, SavesMeta,
       DeletesEntity, TitleFails, NoFault, Fault, Deleting, At, manager, session, button

LEMMA ControlAfterTitle ==
  ASSUME TypeOKTile, Control, AtTitle, NEW ok \in BOOLEAN, TitleEnds(ok)
  PROVE  Control'
<1> op \in Work
  BY DEF TypeOKTile
<1>1. /\ op'.kind = op.kind /\ op'.at = "delete" /\ op'.left = op.left \ {Title}
  BY TitleIsDone
<1> QED
  BY <1>1, DeletionFrame DEF Control, Deleting, Registering

(* The button and its steps stay where they may be.                        *)
LEMMA ControlIsKept == TypeOKTile /\ Control /\ [NextTile]_allVars => Control'
<1> SUFFICES ASSUME TypeOKTile, Control, [NextTile]_allVars PROVE Control'
  OBVIOUS
<1> op \in Work /\ told \in Told
  BY DEF TypeOKTile
<1> USE TitleIsOne, WorkMoves, TitleIsDone, ResultIsTold, WorkIsOver, NothingIsTold,
        WorkIsUnsure, NoneIsTried
    DEF Control, Deleting, Registering, At, Steps, Results, NoFault, Fault,
        manager, console, session, button
<1>1. CASE RefreshForwarderTile
  BY <1>1 DEF RefreshForwarderTile, InstalledState, ApplicationRunning
<1>2. CASE PressesRemove
  BY <1>2, RemoveBegins DEF Begun
<1>3. CASE AsksAgain
  BY <1>3 DEF AsksAgain, ApplicationRunning
<1>4. CASE DeletionFails
  BY <1>4 DEF DeletionFails
<1>5. CASE DeletesCompletely
  BY <1>5 DEF DeletesCompletely
<1>6. CASE LocatesMeta
  <2>1. CASE \E ok \in BOOLEAN : TitleEnds(ok)
    BY <1>6, <2>1, ControlAfterTitle DEF AtTitle
  <2>2. CASE ~\E ok \in BOOLEAN : TitleEnds(ok)
    BY <1>6, <2>2 DEF LocatesMeta, TitleFails
  <2> QED
    BY <2>1, <2>2
<1>7. CASE DeletesContent
  <2>1. CASE \E ok \in BOOLEAN : TitleEnds(ok)
    BY <1>7, <2>1, ControlAfterTitle DEF AtTitle
  <2>2. CASE ~\E ok \in BOOLEAN : TitleEnds(ok)
    BY <1>7, <2>2 DEF DeletesContent, TitleFails
  <2> QED
    BY <2>1, <2>2
<1>8. CASE RemovesMeta
  <2>1. CASE \E ok \in BOOLEAN : TitleEnds(ok)
    BY <1>8, <2>1, ControlAfterTitle DEF AtTitle
  <2>2. CASE ~\E ok \in BOOLEAN : TitleEnds(ok)
    BY <1>8, <2>2 DEF RemovesMeta, TitleFails
  <2> QED
    BY <2>1, <2>2
<1>9. CASE SavesMeta
  <2>1. CASE \E ok \in BOOLEAN : TitleEnds(ok)
    BY <1>9, <2>1, ControlAfterTitle DEF AtTitle
  <2>2. CASE ~\E ok \in BOOLEAN : TitleEnds(ok)
    BY <1>9, <2>2 DEF SavesMeta, TitleFails
  <2> QED
    BY <2>1, <2>2
<1>10. CASE DeletesEntity
  <2>1. CASE \E ok \in BOOLEAN : TitleEnds(ok)
    BY <1>10, <2>1, ControlAfterTitle DEF AtTitle
  <2>2. CASE ~\E ok \in BOOLEAN : TitleEnds(ok)
    BY <1>10, <2>2 DEF DeletesEntity, TitleFails
  <2> QED
    BY <2>1, <2>2
<1>11. CASE RemoveEnds
  BY <1>11 DEF RemoveEnds
<1>12. CASE PressesInstall
  BY <1>12, InstallBegins DEF Begun
<1>13. CASE InstallPrepares
  BY <1>13 DEF InstallPrepares, ApplicationRunning
<1>14. CASE RegistersContents
  BY <1>14 DEF RegistersContents, InstallFails
<1>15. CASE SetsRecord
  BY <1>15 DEF SetsRecord, InstallFails
<1>16. CASE CommitsRecord
  BY <1>16 DEF CommitsRecord, InstallFails
<1>17. CASE ResetsEntity
  BY <1>17 DEF ResetsEntity
<1>18. CASE PushesRecord
  BY <1>18 DEF PushesRecord, InstallFails
<1>19. CASE InstallEnds
  BY <1>19 DEF InstallEnds, InstallFails
<1>20. CASE StartsAtStandard
  BY <1>20 DEF StartsAtStandard, StartStandard
<1>21. CASE StartsElsewhere
  BY <1>21, StartCounts DEF StartsElsewhere
<1>22. CASE Manages
  BY <1>22, ManagerCounts DEF Manages
<1>23. CASE Closes
  BY <1>23 DEF Closes, Exits, Gone, Forgets
<1>24. CASE PlayerClosesTile
  BY <1>24 DEF PlayerClosesTile, vars
<1>25. CASE LosesPower
  BY <1>25 DEF LosesPower, PowerCut, Gone, Forgets
<1>26. CASE SwitchesOff
  BY <1>26 DEF SwitchesOff, vars
<1>27. CASE Copies
  BY <1>27 DEF Copies, PlayerCopies
<1>28. CASE UNCHANGED allVars
  BY <1>28 DEF allVars, vars
<1> QED
  BY <1>1, <1>2, <1>3, <1>4, <1>5, <1>6, <1>7, <1>8, <1>9, <1>10, <1>11, <1>12, <1>13, <1>14,
     <1>15, <1>16, <1>17, <1>18, <1>19, <1>20, <1>21, <1>22, <1>23, <1>24, <1>25, <1>26, <1>27,
     <1>28 DEF NextTile, Removing, Installing

(* Between two pieces of work the button has nothing in its hands.         *)
AtRestOrCollects ==
  \/ RefreshForwarderTile \/ StartsAtStandard \/ StartsElsewhere \/ Manages \/ Closes
  \/ PlayerClosesTile \/ LosesPower \/ SwitchesOff \/ Copies

LEMMA RestFrame ==
  ASSUME TypeOKTile, Control, AtRestOrCollects
  PROVE  /\ op'.at \in {"rest", "collect"}
         /\ UNCHANGED <<stored, disk, listed>>
         /\ ~op.unsure /\ Standard \in running \cap running' => UNCHANGED mem
         /\ mem' = mem \/ (mem' = disk /\ told'.result = "none")
         /\ told' = told \/ told'.result = "none"
         /\ op.at \in {"rest", "collect"} \/ cuts' = cuts + 1
         /\ faults' \in {faults, faults + 1, faults + 2}
         /\ cuts' = cuts \/ cuts' = cuts + 1
<1> op \in Work
  BY DEF TypeOKTile
<1> USE WorkMoves, WorkIsOver, StartCounts, ManagerCounts
    DEF AtRestOrCollects, Control, Steps, At, console, Untold, Fault, NoFault, vars
<1>1. CASE RefreshForwarderTile
  BY <1>1 DEF RefreshForwarderTile, manager
<1>2. CASE StartsAtStandard
  BY <1>2 DEF StartsAtStandard, StartStandard
<1>3. CASE StartsElsewhere
  BY <1>3 DEF StartsElsewhere
<1>4. CASE Manages
  BY <1>4 DEF Manages
<1>5. CASE Closes \/ PlayerClosesTile
  BY <1>5 DEF Closes, PlayerClosesTile, Forgets, Exits, Gone
<1>6. CASE LosesPower
  BY <1>6 DEF LosesPower, Forgets, PowerCut
<1>7. CASE SwitchesOff
  BY <1>7 DEF SwitchesOff
<1>8. CASE Copies
  BY <1>8 DEF Copies, PlayerCopies
<1> QED
  BY <1>1, <1>2, <1>3, <1>4, <1>5, <1>6, <1>7, <1>8

(* No step counts more than two failures or one power cut.                 *)
LEMMA StepCounts ==
  ASSUME TypeOKTile, Control, [NextTile]_allVars
  PROVE  /\ faults' \in {faults, faults + 1, faults + 2}
         /\ cuts' = cuts \/ cuts' = cuts + 1
<1> USE DEF NoFault, Fault, manager
<1>1. CASE Removing
  BY <1>1 DEF Removing, PressesRemove, Presses, AsksAgain, DeletionFails, DeletesCompletely,
     LocatesMeta, DeletesContent, RemovesMeta, SavesMeta, DeletesEntity, RemoveEnds, TitleFails
<1>2. CASE Installing
  BY <1>2 DEF Installing, PressesInstall, Presses, InstallPrepares, RegistersContents,
     SetsRecord, CommitsRecord, ResetsEntity, PushesRecord, InstallEnds, InstallFails
<1>3. CASE AtRestOrCollects
  BY <1>3, RestFrame
<1>4. CASE UNCHANGED allVars
  BY <1>4 DEF allVars, vars
<1> QED
  BY <1>1, <1>2, <1>3, <1>4 DEF NextTile, AtRestOrCollects

(* A tile that runs is not met by work that would touch it.                *)
LEMMA SparedIsKept ==
  TypeOKTile /\ Control /\ Spared /\ [NextTile]_allVars => Spared'
<1> SUFFICES ASSUME TypeOKTile, Control, Spared, [NextTile]_allVars PROVE Spared'
  OBVIOUS
<1> op \in Work /\ told \in Told
  BY DEF TypeOKTile
<1> USE TitleIsOne, WorkMoves, TitleIsDone, ResultIsTold, WorkIsOver, NothingIsTold,
        WorkIsUnsure, NoneIsTried, DeletionFrame
    DEF Control, Spared, Deleting, Registering, At, Steps, Results, session
<1>1. CASE PressesRemove
  BY <1>1, RemoveBegins DEF Begun
<1>2. CASE AsksAgain
  BY <1>2 DEF AsksAgain, ApplicationRunning
<1>3. CASE DeletionFails
  BY <1>3 DEF DeletionFails
<1>4. CASE DeletesCompletely
  BY <1>4 DEF DeletesCompletely
<1>5. CASE LocatesMeta
  BY <1>5 DEF LocatesMeta, TitleFails
<1>6. CASE DeletesContent
  BY <1>6 DEF DeletesContent, TitleFails
<1>7. CASE RemovesMeta
  BY <1>7 DEF RemovesMeta, TitleFails
<1>8. CASE SavesMeta
  BY <1>8 DEF SavesMeta, TitleFails
<1>9. CASE DeletesEntity
  BY <1>9 DEF DeletesEntity, TitleFails
<1>10. CASE RemoveEnds
  BY <1>10 DEF RemoveEnds
<1>11. CASE PressesInstall
  BY <1>11, InstallBegins DEF Begun
<1>12. CASE InstallPrepares
  BY <1>12 DEF InstallPrepares, ApplicationRunning
<1>13. CASE RegistersContents
  BY <1>13 DEF RegistersContents, InstallFails
<1>14. CASE SetsRecord
  BY <1>14 DEF SetsRecord, InstallFails
<1>15. CASE CommitsRecord
  BY <1>15 DEF CommitsRecord, InstallFails
<1>16. CASE ResetsEntity
  BY <1>16 DEF ResetsEntity
<1>17. CASE PushesRecord
  BY <1>17 DEF PushesRecord, InstallFails
<1>18. CASE InstallEnds
  BY <1>18 DEF InstallEnds, InstallFails
<1>19. CASE AtRestOrCollects
  BY <1>19, RestFrame
<1>20. CASE UNCHANGED allVars
  BY <1>20 DEF allVars
<1> QED
  BY <1>1, <1>2, <1>3, <1>4, <1>5, <1>6, <1>7, <1>8, <1>9, <1>10, <1>11, <1>12, <1>13, <1>14,
     <1>15, <1>16, <1>17, <1>18, <1>19, <1>20
     DEF NextTile, Removing, Installing, AtRestOrCollects

(* A step takes nothing from a tile that runs and that the console told of.  *)
Untouched ==
  ~op.unsure /\ Standard \in running \cap running' =>
    /\ stored[Standard] \subseteq stored'[Standard]
    /\ Standard \in mem => Standard \in mem'
    /\ Standard \in listed => Standard \in listed'

LEMMA RunningIsUntouched ==
  TypeOKTile /\ Control /\ Spared /\ [NextTile]_allVars => Untouched
<1> SUFFICES ASSUME TypeOKTile, Control, Spared, [NextTile]_allVars PROVE Untouched
  OBVIOUS
<1> Standard # Legacy
  BY DEF Standard, Legacy
<1> USE DEF TypeOKTile, Control, Spared, Untouched, Deleting, Registering, At, Title, console
<1>1. CASE PressesRemove
  BY <1>1, RemoveBegins DEF Begun
<1>2. CASE AsksAgain
  BY <1>2 DEF AsksAgain, ApplicationRunning
<1>3. CASE DeletionFails
  BY <1>3 DEF DeletionFails
<1>4. CASE DeletesCompletely
  <2>1. CASE Title = Standard
    BY <1>4, <2>1 DEF DeletesCompletely
  <2>2. CASE Title = Legacy
    <3>1. /\ stored'[Standard] = stored[Standard]
          /\ mem \ {Legacy} \subseteq mem' /\ listed \ {Legacy} \subseteq listed'
      BY <1>4, <2>2 DEF DeletesCompletely, Titles
    <3> QED
      BY <3>1
  <2> QED
    BY <2>1, <2>2
<1>5. CASE LocatesMeta
  BY <1>5 DEF LocatesMeta, TitleFails
<1>6. CASE DeletesContent
  <2>1. CASE Title = Legacy
    <3>1. stored'[Standard] = stored[Standard]
      BY <1>6, <2>1 DEF DeletesContent, Titles
    <3> QED
      BY <1>6, <3>1 DEF DeletesContent
  <2>2. CASE Title = Standard
    BY <1>6, <2>2 DEF DeletesContent
  <2> QED
    BY <2>1, <2>2
<1>7. CASE RemovesMeta
  BY <1>7 DEF RemovesMeta, TitleFails
<1>8. CASE SavesMeta
  BY <1>8 DEF SavesMeta, TitleFails
<1>9. CASE DeletesEntity
  BY <1>9 DEF DeletesEntity, TitleFails
<1>10. CASE RemoveEnds
  BY <1>10 DEF RemoveEnds
<1>11. CASE PressesInstall
  BY <1>11, InstallBegins DEF Begun
<1>12. CASE InstallPrepares
  BY <1>12 DEF InstallPrepares, ApplicationRunning
<1>13. CASE RegistersContents
  BY <1>13 DEF RegistersContents, InstallFails
<1>14. CASE SetsRecord
  BY <1>14 DEF SetsRecord, InstallFails
<1>15. CASE CommitsRecord
  BY <1>15 DEF CommitsRecord, InstallFails
<1>16. CASE ResetsEntity
  BY <1>16 DEF ResetsEntity
<1>17. CASE PushesRecord
  BY <1>17 DEF PushesRecord, InstallFails
<1>18. CASE InstallEnds
  BY <1>18 DEF InstallEnds, InstallFails
<1>19. CASE AtRestOrCollects
  BY <1>19, RestFrame
<1>20. CASE UNCHANGED allVars
  BY <1>20 DEF allVars, vars
<1> QED
  BY <1>1, <1>2, <1>3, <1>4, <1>5, <1>6, <1>7, <1>8, <1>9, <1>10, <1>11, <1>12, <1>13, <1>14,
     <1>15, <1>16, <1>17, <1>18, <1>19, <1>20
     DEF NextTile, Removing, Installing, AtRestOrCollects

(* What a removal has done so far.                                         *)
LEMMA RemovalIsKept ==
  TypeOKTile /\ Control /\ Removal /\ [NextTile]_allVars => Removal'
<1> SUFFICES ASSUME TypeOKTile, Control, Removal, [NextTile]_allVars PROVE Removal'
  OBVIOUS
<1> /\ op \in Work /\ told \in Told
    /\ Titles = {Standard, Legacy} /\ Standard # Legacy
    /\ stored \in [Titles -> SUBSET Parts]
  BY DEF TypeOKTile, Titles, Standard, Legacy
<1> USE TitleIsOne, WorkMoves, TitleIsDone, ResultIsTold, WorkIsOver, NothingIsTold,
        WorkIsUnsure, NoneIsTried
    DEF Control, Removal, Cleared, Deleting, Registering, At, Steps, Results, Title, console
<1>1. CASE PressesRemove
  BY <1>1, RemoveBegins DEF Begun
<1>2. CASE AsksAgain
  BY <1>2 DEF AsksAgain, ApplicationRunning
<1>3. CASE DeletionFails
  BY <1>3 DEF DeletionFails
<1>4. CASE DeletesCompletely
  <2> USE DEF DeletesCompletely
  <2>1. CASE Title \notin listed /\ TitleEnds(TRUE) /\ UNCHANGED console
    <3>1. /\ op.at = "delete" /\ op'.at = "delete" /\ op'.kind = op.kind
          /\ op'.left = op.left \ {Title} /\ (op'.ok => op.ok)
          /\ UNCHANGED <<stored, mem, disk, listed, told>>
      BY <1>4, <2>1
    <3>2. Title \in told.had => Title \notin op.left \/ op.kind # "remove"
      BY <2>1, <3>1
    <3> QED
      BY <2>1, <3>1, <3>2
  <2>2. CASE Title \in listed \ running /\ TitleEnds(TRUE) /\ ~UNCHANGED console
    <3>1. /\ stored' = [stored EXCEPT ![Title] = {}]
          /\ mem' = mem \ {Title} /\ disk' = disk \ {Title} /\ listed' = listed \ {Title}
      BY <1>4, <2>2
    <3>2. stored'[Title] = {} /\ \A t \in Titles \ {Title} : stored'[t] = stored[t]
      BY <3>1
    <3> QED
      BY <1>4, <2>2, <3>1, <3>2
  <2>3. CASE Goes("locate") /\ UNCHANGED console
    BY <1>4, <2>3
  <2> QED
    BY <1>4, <2>1, <2>2, <2>3
<1>5. CASE LocatesMeta
  <2>1. CASE Goes("contents")
    BY <1>5, <2>1 DEF LocatesMeta
  <2>2. CASE Title \notin mem /\ Goes("entity")
    <3>1. /\ op'.kind = op.kind /\ op'.at = "entity" /\ op'.left = op.left /\ (op'.ok => op.ok)
          /\ op.at = "locate" /\ op.left # {}
          /\ UNCHANGED <<stored, mem, disk, listed, told>>
      BY <1>5, <2>2 DEF LocatesMeta
    <3>2. Title \in op.left /\ Title' = Title
      BY <3>1, op.left \subseteq Titles DEF Work
    <3>3. op.kind = "remove" => Title \notin told.had
      BY <2>2, <3>1, <3>2
    <3> QED
      BY <3>1, <3>2, <3>3
  <2>3. CASE TitleEnds(FALSE)
    BY <1>5, <2>3 DEF LocatesMeta
  <2> QED
    BY <1>5, <2>1, <2>2, <2>3 DEF LocatesMeta, TitleFails
<1>6. CASE DeletesContent
  <2>1. CASE TitleEnds(FALSE)
    BY <1>6, <2>1 DEF DeletesContent
  <2>2. CASE Goes("forget") /\ stored[Title] = {} /\ UNCHANGED stored
    BY <1>6, <2>2 DEF DeletesContent
  <2>3. CASE UNCHANGED op /\ \E c \in stored[Title] : stored' = [stored EXCEPT ![Title] = @ \ {c}]
    <3>1. \A t \in Titles \ {Title} : stored'[t] = stored[t]
      BY <2>3
    <3> QED
      BY <1>6, <2>3, <3>1 DEF DeletesContent
  <2> QED
    BY <1>6, <2>1, <2>2, <2>3 DEF DeletesContent, TitleFails
<1>7. CASE RemovesMeta
  BY <1>7 DEF RemovesMeta, TitleFails
<1>8. CASE SavesMeta
  <2>1. CASE TitleEnds(FALSE) /\ UNCHANGED disk
    BY <1>8, <2>1 DEF SavesMeta
  <2>2. CASE Goes("entity") /\ disk' = mem
    BY <1>8, <2>2 DEF SavesMeta
  <2> QED
    BY <1>8, <2>1, <2>2 DEF SavesMeta, TitleFails
<1>9. CASE DeletesEntity
  <2>1. CASE TitleEnds(FALSE) /\ UNCHANGED listed
    BY <1>9, <2>1 DEF DeletesEntity
  <2>2. CASE TitleEnds(TRUE) /\ listed' = listed \ {Title}
    <3>1. /\ op.at = "entity" /\ op'.at = "delete" /\ op'.kind = op.kind
          /\ op'.left = op.left \ {Title} /\ (op'.ok => op.ok)
          /\ UNCHANGED <<stored, mem, disk, told>>
      BY <1>9, <2>2 DEF DeletesEntity
    <3>2. Title \in told.had /\ op.kind = "remove" => Cleared(Title)
      BY <3>1
    <3>3. \A t \in Titles : Cleared(t)' = Cleared(t)
      BY <3>1
    <3> HIDE DEF Cleared
    <3> QED
      BY <2>2, <3>1, <3>2, <3>3
  <2> QED
    BY <1>9, <2>1, <2>2 DEF DeletesEntity, TitleFails
<1>10. CASE RemoveEnds
  BY <1>10 DEF RemoveEnds
<1>11. CASE PressesInstall
  BY <1>11, InstallBegins DEF Begun
<1>12. CASE InstallPrepares
  BY <1>12 DEF InstallPrepares, ApplicationRunning
<1>13. CASE RegistersContents
  BY <1>13 DEF RegistersContents, InstallFails
<1>14. CASE SetsRecord
  BY <1>14 DEF SetsRecord, InstallFails
<1>15. CASE CommitsRecord
  BY <1>15 DEF CommitsRecord, InstallFails
<1>16. CASE ResetsEntity
  BY <1>16 DEF ResetsEntity
<1>17. CASE PushesRecord
  BY <1>17 DEF PushesRecord, InstallFails
<1>18. CASE InstallEnds
  BY <1>18 DEF InstallEnds, InstallFails
<1>19. CASE AtRestOrCollects
  BY <1>19, RestFrame
<1>20. CASE UNCHANGED allVars
  BY <1>20 DEF allVars, vars
<1> QED
  BY <1>1, <1>2, <1>3, <1>4, <1>5, <1>6, <1>7, <1>8, <1>9, <1>10, <1>11, <1>12, <1>13, <1>14,
     <1>15, <1>16, <1>17, <1>18, <1>19, <1>20
     DEF NextTile, Removing, Installing, AtRestOrCollects

(* What an installation has done so far.                                   *)
LEMMA RegisteredIsKept ==
  TypeOKTile /\ Control /\ Registered /\ [NextTile]_allVars => Registered'
<1> SUFFICES ASSUME TypeOKTile, Control, Registered, [NextTile]_allVars PROVE Registered'
  OBVIOUS
<1> /\ op \in Work /\ told \in Told
    /\ stored \in [Titles -> SUBSET Parts]
  BY DEF TypeOKTile
<1> USE TitleIsOne, WorkMoves, TitleIsDone, ResultIsTold, WorkIsOver, NothingIsTold,
        WorkIsUnsure, NoneIsTried
    DEF Control, Registered, Deleting, Registering, At, Steps, Results, Parts, console
<1>1. CASE PressesRemove
  BY <1>1, RemoveBegins DEF Begun
<1>2. CASE AsksAgain
  BY <1>2 DEF AsksAgain, ApplicationRunning
<1>3. CASE DeletionFails
  BY <1>3 DEF DeletionFails
<1>4. CASE DeletesCompletely
  BY <1>4 DEF DeletesCompletely
<1>5. CASE LocatesMeta
  BY <1>5 DEF LocatesMeta, TitleFails
<1>6. CASE DeletesContent
  BY <1>6 DEF DeletesContent, TitleFails
<1>7. CASE RemovesMeta
  BY <1>7 DEF RemovesMeta, TitleFails
<1>8. CASE SavesMeta
  BY <1>8 DEF SavesMeta, TitleFails
<1>9. CASE DeletesEntity
  BY <1>9 DEF DeletesEntity, TitleFails
<1>10. CASE RemoveEnds
  BY <1>10 DEF RemoveEnds
<1>11. CASE PressesInstall
  BY <1>11, InstallBegins DEF Begun
<1>12. CASE InstallPrepares
  BY <1>12 DEF InstallPrepares, ApplicationRunning
<1>13. CASE RegistersContents
  BY <1>13 DEF RegistersContents, InstallFails
<1>14. CASE SetsRecord
  BY <1>14 DEF SetsRecord, InstallFails
<1>15. CASE CommitsRecord
  BY <1>15 DEF CommitsRecord, InstallFails
<1>16. CASE ResetsEntity
  BY <1>16 DEF ResetsEntity
<1>17. CASE PushesRecord
  BY <1>17 DEF PushesRecord, InstallFails
<1>18. CASE InstallEnds
  BY <1>18 DEF InstallEnds, InstallFails
<1>19. CASE AtRestOrCollects
  BY <1>19, RestFrame
<1>20. CASE UNCHANGED allVars
  BY <1>20 DEF allVars, vars
<1> QED
  BY <1>1, <1>2, <1>3, <1>4, <1>5, <1>6, <1>7, <1>8, <1>9, <1>10, <1>11, <1>12, <1>13, <1>14,
     <1>15, <1>16, <1>17, <1>18, <1>19, <1>20
     DEF NextTile, Removing, Installing, AtRestOrCollects

(* As long as nothing goes wrong the menu and the database say the same.   *)
LEMMA SoundIsKept ==
  TypeOKTile /\ Control /\ Registered /\ Sound /\ [NextTile]_allVars => Sound'
<1> SUFFICES ASSUME TypeOKTile, Control, Registered, Sound, [NextTile]_allVars,
                    faults' + cuts' = 0
             PROVE Sound'
  BY DEF Sound
<1> /\ op \in Work /\ told \in Told
    /\ Titles = {Standard, Legacy} /\ Standard # Legacy
    /\ mem \subseteq Titles /\ disk \subseteq Titles /\ listed \subseteq Titles
    /\ faults \in Nat /\ cuts \in Nat
  BY DEF TypeOKTile, Titles, Standard, Legacy, Control
<1> faults = 0 /\ cuts = 0 /\ faults' = 0 /\ cuts' = 0 /\ ~Fault
  BY StepCounts DEF Fault
<1> USE TitleIsOne, WorkMoves, TitleIsDone, ResultIsTold, WorkIsOver, NothingIsTold,
        WorkIsUnsure, NoneIsTried
    DEF Control, Registered, Sound, Deleting, Registering, At, Steps, Title, console
<1>1. CASE PressesRemove
  BY <1>1, RemoveBegins DEF Begun
<1>2. CASE AsksAgain
  BY <1>2 DEF AsksAgain, ApplicationRunning
<1>3. CASE DeletionFails
  BY <1>3 DEF DeletionFails
<1>4. CASE DeletesCompletely
  <2>1. CASE Title \notin listed /\ TitleEnds(TRUE) /\ UNCHANGED console
    BY <1>4, <2>1 DEF DeletesCompletely
  <2>2. CASE /\ TitleEnds(TRUE)
             /\ mem' = mem \ {Title} /\ disk' = disk \ {Title} /\ listed' = listed \ {Title}
    BY <1>4, <2>2 DEF DeletesCompletely
  <2>3. CASE Title \in listed /\ Goes("locate") /\ UNCHANGED console
    BY <1>4, <2>3 DEF DeletesCompletely
  <2> QED
    BY <1>4, <2>1, <2>2, <2>3 DEF DeletesCompletely
<1>5. CASE LocatesMeta
  <2>1. CASE Title \in mem /\ Goes("contents")
    BY <1>5, <2>1 DEF LocatesMeta
  <2>2. CASE Title \notin mem /\ Goes("entity")
    BY <1>5, <2>2 DEF LocatesMeta
  <2>3. CASE Title \notin mem /\ TitleEnds(FALSE)
    BY <1>5, <2>3 DEF LocatesMeta
  <2> QED
    BY <1>5, <2>1, <2>2, <2>3 DEF LocatesMeta, TitleFails
<1>6. CASE DeletesContent
  BY <1>6 DEF DeletesContent, TitleFails
<1>7. CASE RemovesMeta
  BY <1>7 DEF RemovesMeta, TitleFails
<1>8. CASE SavesMeta
  BY <1>8 DEF SavesMeta, TitleFails
<1>9. CASE DeletesEntity
  <2>1. TitleEnds(TRUE) /\ listed' = listed \ {Title} /\ UNCHANGED <<mem, disk>>
    BY <1>9 DEF DeletesEntity, TitleFails
  <2> QED
    BY <1>9, <2>1 DEF DeletesEntity
<1>10. CASE RemoveEnds
  BY <1>10 DEF RemoveEnds
<1>11. CASE PressesInstall
  BY <1>11, InstallBegins DEF Begun
<1>12. CASE InstallPrepares
  BY <1>12 DEF InstallPrepares, ApplicationRunning
<1>13. CASE RegistersContents
  BY <1>13 DEF RegistersContents, InstallFails
<1>14. CASE SetsRecord
  BY <1>14 DEF SetsRecord, InstallFails
<1>15. CASE CommitsRecord
  BY <1>15 DEF CommitsRecord, InstallFails
<1>16. CASE ResetsEntity
  BY <1>16 DEF ResetsEntity
<1>17. CASE PushesRecord
  BY <1>17 DEF PushesRecord, InstallFails
<1>18. CASE InstallEnds
  BY <1>18 DEF InstallEnds, InstallFails
<1>19. CASE AtRestOrCollects
  BY <1>19, RestFrame
<1>20. CASE UNCHANGED allVars
  BY <1>20 DEF allVars, vars
<1> QED
  BY <1>1, <1>2, <1>3, <1>4, <1>5, <1>6, <1>7, <1>8, <1>9, <1>10, <1>11, <1>12, <1>13, <1>14,
     <1>15, <1>16, <1>17, <1>18, <1>19, <1>20
     DEF NextTile, Removing, Installing, AtRestOrCollects

(* The result page stays true.                                             *)
LEMMA ToldStaysTrue ==
  /\ TypeOKTile /\ Control /\ Removal /\ Registered /\ Sound /\ ToldIsTrue
  /\ [NextTile]_allVars
  => ToldIsTrue'
<1> SUFFICES ASSUME TypeOKTile, Control, Removal, Registered, Sound, ToldIsTrue,
                    [NextTile]_allVars
             PROVE ToldIsTrue'
  OBVIOUS
<1> /\ op \in Work /\ told \in Told
    /\ Titles = {Standard, Legacy} /\ Standard # Legacy
    /\ mem \subseteq Titles /\ disk \subseteq Titles /\ listed \subseteq Titles
    /\ faults \in Nat /\ cuts \in Nat
  BY DEF TypeOKTile, Titles, Standard, Legacy, Control
<1> USE TitleIsOne, WorkMoves, TitleIsDone, ResultIsTold, WorkIsOver, NothingIsTold,
        WorkIsUnsure, NoneIsTried, DeletionFrame
    DEF Control, ToldIsTrue, Deleting, Registering, At, Results,
        console, manager, NoFault, Fault
<1>1. CASE PressesRemove
  BY <1>1, RemoveBegins DEF Begun
<1>2. CASE AsksAgain
  BY <1>2 DEF AsksAgain, ApplicationRunning
<1>3. CASE DeletionFails
  BY <1>3 DEF DeletionFails
<1>4. CASE DeletesCompletely
  BY <1>4 DEF DeletesCompletely
<1>5. CASE LocatesMeta
  BY <1>5 DEF LocatesMeta, TitleFails
<1>6. CASE DeletesContent
  BY <1>6 DEF DeletesContent, TitleFails
<1>7. CASE RemovesMeta
  BY <1>7 DEF RemovesMeta, TitleFails
<1>8. CASE SavesMeta
  BY <1>8 DEF SavesMeta, TitleFails
<1>9. CASE DeletesEntity
  BY <1>9 DEF DeletesEntity, TitleFails
<1>10. CASE RemoveEnds
  <2>1. /\ op.kind = "remove" /\ op.left = {} /\ op.at = "delete"
        /\ UNCHANGED <<stored, mem, disk, listed>>
        /\ told'.had = told.had /\ told'.result \in {"removed", "kept"}
        /\ told'.result = "removed" => op.ok
    BY <1>10 DEF RemoveEnds
  <2>2. op.ok => \A t \in Titles : t \notin listed /\ (t \in told.had => Cleared(t))
    BY <2>1 DEF Removal
  <2>3. told.had \subseteq Titles
    BY DEF Told
  <2> QED
    BY <2>1, <2>2, <2>3 DEF Cleared
<1>11. CASE PressesInstall
  BY <1>11, InstallBegins DEF Begun
<1>12. CASE InstallPrepares
  BY <1>12 DEF InstallPrepares, ApplicationRunning
<1>13. CASE RegistersContents
  BY <1>13 DEF RegistersContents, InstallFails
<1>14. CASE SetsRecord
  BY <1>14 DEF SetsRecord, InstallFails
<1>15. CASE CommitsRecord
  BY <1>15 DEF CommitsRecord, InstallFails
<1>16. CASE ResetsEntity
  BY <1>16 DEF ResetsEntity
<1>17. CASE PushesRecord
  BY <1>17 DEF PushesRecord, InstallFails
<1>18. CASE InstallEnds
  BY <1>18 DEF InstallEnds, InstallFails, Registered, Sound, Usable
<1>19. CASE AtRestOrCollects
  BY <1>19, RestFrame DEF Usable
<1>20. CASE UNCHANGED allVars
  BY <1>20 DEF allVars, vars, Usable
<1> QED
  BY <1>1, <1>2, <1>3, <1>4, <1>5, <1>6, <1>7, <1>8, <1>9, <1>10, <1>11, <1>12, <1>13, <1>14,
     <1>15, <1>16, <1>17, <1>18, <1>19, <1>20
     DEF NextTile, Removing, Installing, AtRestOrCollects

-----------------------------------------------------------------------------
LEMMA InitEstablishes == InitTile => IInv
<1> SUFFICES ASSUME InitTile PROVE IInv
  OBVIOUS
<1>1. op = AtRest /\ op.at = "rest" /\ op.kind = "none" /\ told.result = "none"
  BY DEF InitTile, AtRest, Untold
<1>2. TypeOKTile
  <2>1. op \in Work
    BY DEF InitTile, AtRest, Work, Steps
  <2>2. told \in Told
    BY DEF InitTile, Untold, Told, Results
  <2> QED
    BY <2>1, <2>2 DEF InitTile, TypeOKTile
<1>3. Control
  BY <1>1 DEF InitTile, Init, Control, Deleting, Registering
<1>4. Spared /\ Removal /\ Registered /\ ToldIsTrue
  BY <1>1 DEF Spared, Removal, Registered, ToldIsTrue
<1>5. Sound
  BY <1>1 DEF InitTile, Sound, Deleting, Registering
<1> QED
  BY <1>2, <1>3, <1>4, <1>5 DEF IInv

LEMMA InvariantIsKept == IInv /\ [NextTile]_allVars => IInv'
BY TypeIsKept, ControlIsKept, SparedIsKept, RemovalIsKept, RegisteredIsKept, SoundIsKept,
   ToldStaysTrue DEF IInv

THEOREM InvariantHolds == SpecTile => []IInv
BY InitEstablishes, InvariantIsKept, PTL DEF SpecTile

(* What every variable holds: the button's work never leaves its steps.    *)
THEOREM TileIsTyped == SpecTile => []TypeOKTile
<1>1. IInv => TypeOKTile
  BY DEF IInv
<1> QED
  BY <1>1, InvariantHolds, PTL

(* The result page is true of the console: removed, no entry is left and   *)
(* nothing of a tile the menu could show; installed, all of it is there    *)
(* for good.  However many calls fail and however often the power goes.    *)
THEOREM ResultPageIsTrue == SpecTile => []ToldIsTrue
<1>1. IInv => ToldIsTrue
  BY DEF IInv
<1> QED
  BY <1>1, InvariantHolds, PTL

(* A tile that has a process loses nothing to the button, unless the       *)
(* console would not say at the press whether there is one.                *)
THEOREM TheRunningTileIsSpared == SpecTile => RunningIsSpared
<1>1. IInv /\ [NextTile]_allVars =>
        [~op.unsure /\ Standard \in running \cap running' =>
           /\ stored[Standard] \subseteq stored'[Standard]
           /\ Standard \in mem => Standard \in mem'
           /\ Standard \in listed => Standard \in listed']_allVars
  BY RunningIsUntouched DEF IInv, Untouched
<1> QED
  BY <1>1, InvariantHolds, PTL DEF SpecTile, RunningIsSpared

-----------------------------------------------------------------------------
(* The startup repair, with the tile's button working between.             *)
Copying == {"create", "fill", "clear", "rename"}
Starts == {"off", "home", "chain", "repaired", "prepare", "backup", "aside", "in", "back", "drop"}

(* From the decision on, until the repair is over: the copy that runs is   *)
(* on the card; it gives way to no older one and, when the file at the     *)
(* standard path was read for what it is, replaces no newer one.           *)
Decided ==
  /\ card \in [Places -> Contents] /\ goal \in Ours \cup {Absent}
  /\ pc \notin Starts => card.other \in Ours
  /\ pc \in Copying => action.does = "CopyCurrent"
  /\ pc = "delete" => action.does = "DeleteCurrent"
  /\ /\ pc \in {"page"} \cup Copying
     /\ action.does = "CopyCurrent" /\ ~action.misread /\ card.standard \in Ours
     => card.standard.version <= card.other.version
  /\ pc \in {"page", "delete"} /\ action.does = "DeleteCurrent" =>
       card.standard \in Ours /\ card.other.version <= card.standard.version
  /\ pc \in {"clear", "rename"} => card.temp = card.other
  /\ pc = "source" => card.standard \in Ours /\ card.other.version <= card.standard.version

-----------------------------------------------------------------------------
(* Best is the higher of the versions the two paths hold.                  *)
LEMMA VersionsAreNumbers == \A i \in Ours : i.version \in Nat
BY CopiesAreVersioned

LEMMA BestIsOneOf ==
  ASSUME NEW c \in [Places -> Contents]
  PROVE  /\ Best(c) \in Nat
         /\ c.standard \in Ours => Best(c) >= c.standard.version
         /\ c.other \in Ours => Best(c) >= c.other.version
         /\ \/ Best(c) = 0
            \/ c.standard \in Ours /\ Best(c) = c.standard.version
            \/ c.other \in Ours /\ Best(c) = c.other.version
<1> DEFINE held == {q \in {"standard", "other"} : c[q] \in Ours}
           versions == {c[p].version : p \in held}
<1>1. \A v \in versions : v \in Nat
  BY VersionsAreNumbers
<1>2. CASE versions = {}
  <2>1. held = {}
    <3>1. ASSUME NEW q \in held PROVE FALSE
      <4>1. c[q].version \in versions
        OBVIOUS
      <4> QED
        BY <4>1, <1>2
    <3> QED
      BY <3>1
  <2>2. c.standard \notin Ours /\ c.other \notin Ours
    BY <2>1
  <2>3. Best(c) = 0
    BY <1>2 DEF Best
  <2> QED
    BY <2>2, <2>3
<1>3. CASE versions # {}
  <2>1. \E v \in versions : \A w \in versions : w <= v
    <3>1. CASE held = {"standard", "other"}
      <4>1. /\ versions = {c["standard"].version, c["other"].version}
            /\ c["standard"].version \in Nat /\ c["other"].version \in Nat
        BY <3>1, VersionsAreNumbers
      <4>2. CASE c["standard"].version <= c["other"].version
        BY <4>1, <4>2
      <4>3. CASE c["other"].version <= c["standard"].version
        BY <4>1, <4>3
      <4> QED
        BY <4>1, <4>2, <4>3
    <3>2. CASE held = {"standard"}
      <4>1. versions = {c["standard"].version} /\ c["standard"].version \in Nat
        BY <3>2, VersionsAreNumbers
      <4> HIDE DEF versions
      <4> QED
        BY <4>1
    <3>3. CASE held = {"other"}
      <4>1. versions = {c["other"].version} /\ c["other"].version \in Nat
        BY <3>3, VersionsAreNumbers
      <4> HIDE DEF versions
      <4> QED
        BY <4>1
    <3> QED
      BY <1>3, <3>1, <3>2, <3>3
  <2>2. Best(c) \in versions /\ \A w \in versions : w <= Best(c)
    BY <1>3, <2>1 DEF Best
  <2> QED
    BY <1>1, <2>2
<1> QED
  BY <1>2, <1>3

(* One file is written, the others stay.                                   *)
LEMMA OthersStay ==
  ASSUME card \in [Places -> Contents], NEW place \in Places, NEW file \in Contents,
         Put(place, file)
  PROVE  /\ card' \in [Places -> Contents]
         /\ card'[place] = file
         /\ \A q \in Places \ {place} : card'[q] = card[q]
BY DEF Put

LEMMA FilesAreApart ==
  /\ Absent \in Contents \ Ours /\ Torn \in Contents \ Ours /\ Ours \subseteq Contents
  /\ Torn # Absent
BY CopiesAreVersioned DEF Contents

LEMMA InitDecides == Init => Decided
BY DEF Init, Decided, Starts, Copying

(* A decision is right about the two copies when it is made.               *)
LEMMA DecisionIsRight ==
  ASSUME NEW standard, NEW current \in Ours, NEW mtime \in BOOLEAN
  PROVE  /\ DecideStartup(standard, current, mtime) \in {"CopyCurrent", "DeleteCurrent"}
         /\ DecideStartup(standard, current, mtime) = "CopyCurrent" /\ standard \in Ours =>
              standard.version <= current.version
         /\ DecideStartup(standard, current, mtime) = "DeleteCurrent" =>
              standard \in Ours /\ current.version <= standard.version
BY VersionsAreNumbers DEF DecideStartup, NroLooksOurs, Newer

(* The decision stays right, one step per action of the manager.           *)
LEMMA DecidedIsKept == Decided /\ Next => Decided'
<1> SUFFICES ASSUME Decided, Next PROVE Decided'
  OBVIOUS
<1> USE VersionsAreNumbers, OthersStay, FilesAreApart DEF Decided, Starts, Copying, Places
<1>1. CASE StartStandard
  BY <1>1 DEF StartStandard
<1>2. CASE StartOther
  <2>1. PICK seen \in {card.standard, Foreign, Absent}, mtime \in BOOLEAN :
          /\ action' = [does |-> DecideStartup(seen, card.other, mtime),
                        misread |-> seen # card.standard]
          /\ pc' = IF seen = Absent THEN "create" ELSE "page"
    BY <1>2 DEF StartOther
  <2>2. card.other \in Ours /\ UNCHANGED <<card, goal>>
    BY <1>2 DEF StartOther, NroLooksOurs
  <2>3. /\ action'.does = DecideStartup(seen, card.other, mtime)
        /\ action'.misread <=> seen # card.standard
    BY <2>1
  <2>4. pc' = "create" => action'.does = "CopyCurrent"
    BY <2>1, <2>3, CopiesAreVersioned DEF DecideStartup, NroLooksOurs
  <2>5. action'.does = "DeleteCurrent" => seen = card.standard
    BY <2>3, CopiesAreVersioned DEF DecideStartup, NroLooksOurs
  <2> QED
    BY <2>1, <2>2, <2>3, <2>4, <2>5, DecisionIsRight
<1>3. CASE StartUnreadable
  BY <1>3 DEF StartUnreadable, NroLooksOurs
<1>4. CASE RepairStartup
  BY <1>4 DEF RepairStartup
<1>5. CASE CopyCreates
  BY <1>5 DEF CopyCreates, RepairFails
<1>6. CASE CopyFills
  BY <1>6 DEF CopyFills, RepairFails
<1>7. CASE CopyClears
  BY <1>7 DEF CopyClears
<1>8. CASE CopyRenames
  <2>1. CASE pc' = "source"
    <3>1. card' = [card EXCEPT !.standard = card.temp, !.temp = Absent]
      BY <1>8, <2>1 DEF CopyRenames, RepairFails
    <3>2. /\ card' \in [Places -> Contents]
          /\ card'.standard = card.temp /\ card'.other = card.other
      BY <3>1
    <3> QED
      BY <1>8, <2>1, <3>2 DEF CopyRenames
  <2>2. CASE pc' # "source"
    BY <1>8, <2>2 DEF CopyRenames, RepairFails
  <2> QED
    BY <2>1, <2>2
<1>9. CASE RemovesSource
  BY <1>9 DEF RemovesSource, Repaired
<1>10. CASE DeletesCurrent
  BY <1>10 DEF DeletesCurrent, Repaired, RepairFails
<1>11. CASE Update
  <2>1. pc' \in Starts
    BY <1>11 DEF Update, UpdateStarts, UpdatePrepares, UpdateClearsBackup, UpdateMovesAside,
       UpdateMovesIn, UpdateMovesBack, UpdateDropsBackup, UpdateFails
  <2>2. goal' \in Ours \cup {Absent}
    BY <1>11 DEF Update, UpdateStarts, UpdatePrepares, UpdateClearsBackup, UpdateMovesAside,
       UpdateMovesIn, UpdateMovesBack, UpdateDropsBackup, UpdateFails
  <2>3. card' \in [Places -> Contents]
    <3>1. CASE UpdateStarts \/ UpdatePrepares \/ UpdateClearsBackup \/ UpdateDropsBackup
      BY <3>1 DEF UpdateStarts, UpdatePrepares, UpdateClearsBackup, UpdateDropsBackup
    <3>2. CASE UpdateMovesAside
      BY <3>2 DEF UpdateMovesAside
    <3>3. CASE UpdateMovesIn
      BY <3>3 DEF UpdateMovesIn
    <3>4. CASE UpdateMovesBack
      BY <3>4 DEF UpdateMovesBack
    <3> QED
      BY <1>11, <3>1, <3>2, <3>3, <3>4 DEF Update
  <2> QED
    BY <2>1, <2>2, <2>3
<1>12. CASE Restarts \/ Exits \/ PowerCut
  BY <1>12 DEF Restarts, Exits, PowerCut, Gone
<1>13. CASE PlayerCopies
  BY <1>13 DEF PlayerCopies
<1> QED
  BY <1>1, <1>2, <1>3, <1>4, <1>5, <1>6, <1>7, <1>8, <1>9, <1>10, <1>11, <1>12, <1>13
     DEF Next, Repair

(* A step of the repair leaves a copy as new as the best there was.        *)
LEMMA RepairKeepsBest == Decided /\ Repair /\ ~action.misread => Best(card') >= Best(card)
<1> SUFFICES ASSUME Decided, Repair, ~action.misread PROVE Best(card') >= Best(card)
  OBVIOUS
<1>1. card \in [Places -> Contents] /\ card' \in [Places -> Contents]
  BY DecidedIsKept DEF Decided, Next
<1>2. ASSUME card'.standard = card.standard, card'.other = card.other
      PROVE  Best(card') >= Best(card)
  BY <1>1, <1>2, BestIsOneOf
<1> USE VersionsAreNumbers, OthersStay, FilesAreApart DEF Decided, Copying, Starts, Places
<1>3. CASE RepairStartup
  BY <1>2, <1>3 DEF RepairStartup
<1>4. CASE CopyCreates \/ CopyFills
  BY <1>2, <1>4 DEF CopyCreates, CopyFills
<1>5. CASE CopyClears
  <2>1. /\ card'.other = card.other /\ card.other \in Ours
        /\ card.standard \in Ours => card.standard.version <= card.other.version
    BY <1>5 DEF CopyClears
  <2> QED
    BY <1>1, <2>1, BestIsOneOf
<1>6. CASE CopyRenames
  <2>1. CASE card' = [card EXCEPT !.standard = card.temp, !.temp = Absent]
    <3>1. /\ card'.other = card.other /\ card.other \in Ours
          /\ card.standard \in Ours => card.standard.version <= card.other.version
      BY <1>6, <2>1 DEF CopyRenames
    <3> QED
      BY <1>1, <3>1, BestIsOneOf
  <2>2. CASE Put("temp", Absent)
    BY <1>2, <2>2
  <2> QED
    BY <1>6, <2>1, <2>2 DEF CopyRenames
<1>7. CASE RemovesSource \/ DeletesCurrent
  <2>1. /\ card'.standard = card.standard /\ card.standard \in Ours /\ card.other \in Ours
        /\ card.other.version <= card.standard.version
    BY <1>7 DEF RemovesSource, DeletesCurrent
  <2> QED
    BY <1>1, <2>1, BestIsOneOf
<1> QED
  BY <1>3, <1>4, <1>5, <1>6, <1>7 DEF Repair

-----------------------------------------------------------------------------
(* The button leaves the manager's files and its decision alone.           *)
LEMMA TileKeepsDecided == Decided /\ [NextTile]_allVars => Decided'
<1> SUFFICES ASSUME Decided, [NextTile]_allVars PROVE Decided'
  OBVIOUS
<1>1. ASSUME Next PROVE Decided'
  BY <1>1, DecidedIsKept
<1>2. ASSUME UNCHANGED manager PROVE Decided'
  BY <1>2 DEF Decided, manager
<1>3. CASE RefreshForwarderTile
  BY <1>2, <1>3 DEF RefreshForwarderTile
<1>4. CASE Removing
  BY <1>2, <1>4 DEF Removing, PressesRemove, Presses, AsksAgain, DeletionFails,
     DeletesCompletely, LocatesMeta, DeletesContent, RemovesMeta, SavesMeta, DeletesEntity,
     RemoveEnds
<1>5. CASE Installing
  BY <1>2, <1>5 DEF Installing, PressesInstall, Presses, InstallPrepares, RegistersContents,
     SetsRecord, CommitsRecord, ResetsEntity, PushesRecord, InstallEnds
<1>6. CASE StartsAtStandard \/ StartsElsewhere \/ Manages \/ Closes \/ LosesPower \/ Copies
  BY <1>1, <1>6 DEF StartsAtStandard, StartsElsewhere, Manages, Closes, LosesPower, Copies, Next
<1>7. CASE PlayerClosesTile \/ SwitchesOff \/ UNCHANGED allVars
  BY <1>2, <1>7 DEF PlayerClosesTile, SwitchesOff, allVars, vars, manager
<1> QED
  BY <1>3, <1>4, <1>5, <1>6, <1>7 DEF NextTile

(* The startup repair never loses the newest version the player had at     *)
(* either path, whatever fails and however often it is pressed again, when *)
(* the startup check could open and read the file at the standard path.    *)
THEOREM TheNewestIsKept == SpecTile => NewestIsKept
<1>1. InitTile => Decided
  BY InitDecides DEF InitTile
<1>2. Decided /\ [NextTile]_allVars => [Repair /\ ~action.misread => Best(card') >= Best(card)]_vars
  BY RepairKeepsBest
<1> QED
  BY <1>1, <1>2, TileKeepsDecided, PTL DEF SpecTile, NewestIsKept
-----------------------------------------------------------------------------
(* The last copy of the manager.                                           *)

(* Where the update stands says which file starts: the one at the standard *)
(* path, the one moved aside, or, once two calls have failed, only the new *)
(* one.  During a repair it is the copy that runs (Decided).               *)
Lasting ==
  faults <= 2 =>
    /\ ACopyRemains
    /\ pc \in {"prepare", "backup", "aside", "in", "back"} => goal \in Ours
    /\ pc \in {"backup", "aside", "in"} => card.temp \in Ours
    /\ pc \in {"home", "prepare", "backup"} =>
         card.standard \in Ours \/ (card.old \in Ours /\ faults = 2)
    /\ pc = "aside" => card.standard \in Ours \/ (card.old = Absent /\ faults = 2)
    /\ pc = "in" => card.old \in Ours \/ faults = 2
    /\ pc = "back" => card.old \in Ours /\ faults >= 1
    /\ pc = "drop" => card.standard \in Ours

LEMMA InitLasts == Init => Lasting
BY DEF Init, Lasting, ACopyRemains, Places

(* A copy at one of the places is a copy on the card.                      *)
LEMMA CopyIsThere ==
  ASSUME card'.standard \in Ours \/ card'.temp \in Ours \/ card'.old \in Ours
           \/ card'.other \in Ours
  PROVE  ACopyRemains'
BY DEF ACopyRemains, Places

(* Steps that leave the files where they are.                              *)
LEMMA StartsLast ==
  ASSUME Lasting, faults \in Nat, faults' \in {faults, faults + 1, faults + 2}, faults' <= 2,
         UNCHANGED <<card, goal>>,
         \/ UNCHANGED pc
         \/ pc' \in {"off", "page", "create", "delete", "chain"}
         \/ pc' = "home" /\ card.standard \in Ours
  PROVE  Lasting'
<1>1. faults <= 2 /\ (faults = 2 => faults' = 2) /\ (faults >= 1 => faults' >= 1)
  OBVIOUS
<1>2. ACopyRemains'
  BY <1>1 DEF Lasting, ACopyRemains
<1> QED
  BY <1>1, <1>2 DEF Lasting

(* The repair works on a copy that stays until the standard path has one.  *)
LEMMA RepairLasts ==
  ASSUME Decided, Repair
  PROVE  Lasting'
<1> USE OthersStay, FilesAreApart DEF Decided, Starts, Copying, Places
<1>1. CASE RepairStartup
  <2>1. card'.other \in Ours /\ pc' \in {"create", "delete"}
    BY <1>1 DEF RepairStartup
  <2> QED
    BY <2>1, CopyIsThere DEF Lasting
<1>2. CASE CopyCreates
  <2>1. card'.other \in Ours /\ pc' \in {"fill", "page"}
    BY <1>2 DEF CopyCreates, RepairFails
  <2> QED
    BY <2>1, CopyIsThere DEF Lasting
<1>3. CASE CopyFills
  <2>1. card.other \in Contents /\ card.other \in Ours
    BY <1>3 DEF CopyFills
  <2>2. card'.other \in Ours /\ pc' \in {"clear", "page"}
    BY <1>3, <2>1 DEF CopyFills, RepairFails
  <2> QED
    BY <2>2, CopyIsThere DEF Lasting
<1>4. CASE CopyClears
  <2>1. card'.other \in Ours /\ pc' = "rename"
    BY <1>4 DEF CopyClears
  <2> QED
    BY <2>1, CopyIsThere DEF Lasting
<1>5. CASE CopyRenames
  <2>1. card'.other \in Ours /\ pc' \in {"source", "page"}
    <3>1. CASE card' = [card EXCEPT !.standard = card.temp, !.temp = Absent]
      BY <1>5, <3>1 DEF CopyRenames, RepairFails
    <3>2. CASE Put("temp", Absent)
      BY <1>5, <3>2 DEF CopyRenames, RepairFails
    <3> QED
      BY <1>5, <3>1, <3>2 DEF CopyRenames
  <2> QED
    BY <2>1, CopyIsThere DEF Lasting
<1>6. CASE RemovesSource
  <2>1. card'.standard \in Ours /\ pc' \in {"chain", "repaired"}
    BY <1>6 DEF RemovesSource, Repaired
  <2> QED
    BY <2>1, CopyIsThere DEF Lasting
<1>7. CASE DeletesCurrent
  <2>1. card'.standard \in Ours /\ pc' \in {"chain", "repaired", "page"}
    BY <1>7 DEF DeletesCurrent, Repaired, RepairFails
  <2> QED
    BY <2>1, CopyIsThere DEF Lasting
<1> QED
  BY <1>1, <1>2, <1>3, <1>4, <1>5, <1>6, <1>7 DEF Repair

(* The update, with its way back.                                          *)
LEMMA UpdateLasts ==
  ASSUME Decided, Lasting, faults \in Nat, faults' <= 2, Update
  PROVE  Lasting'
<1> USE OthersStay, FilesAreApart DEF Places
<1>t. card \in [Places -> Contents] /\ goal \in Ours \cup {Absent} /\ goal \in Contents
  BY DEF Decided
<1>f. ASSUME Fault PROVE faults' = faults + 1 /\ faults <= 1 /\ faults' >= 1
  BY <1>f DEF Fault
<1>n. ASSUME NoFault PROVE faults' = faults
  BY <1>n DEF NoFault
<1>1. CASE UpdateStarts
  <2>1. /\ pc = "home" /\ pc' = "prepare" /\ goal' \in Ours /\ UNCHANGED <<card, faults>>
    BY <1>1 DEF UpdateStarts
  <2> QED
    BY <2>1 DEF Lasting, ACopyRemains
<1>2. CASE UpdatePrepares
  <2>1. /\ pc = "prepare"
        /\ \/ Put("temp", Torn) /\ pc' = "prepare" /\ goal' = goal /\ NoFault
           \/ Put("temp", goal) /\ pc' = "backup" /\ goal' = goal /\ NoFault
           \/ Put("temp", Absent) /\ pc' = "home" /\ Fault
    BY <1>2 DEF UpdatePrepares, UpdateFails
  <2>2. /\ card'.standard = card.standard /\ card'.old = card.old
        /\ faults' = faults \/ (pc' = "home" /\ Fault)
        /\ pc' = "backup" => card'.temp = goal /\ goal' = goal
    BY <1>t, <1>n, <2>1
  <2>3. /\ goal \in Ours /\ faults <= 2
        /\ card.standard \in Ours \/ (card.old \in Ours /\ faults = 2)
    BY <2>1, <2>2, <1>f DEF Lasting
  <2>4. card'.standard \in Ours \/ (card'.old \in Ours /\ faults' = 2)
    BY <2>2, <2>3, <1>f
  <2>5. ACopyRemains'
    BY <2>4, CopyIsThere
  <2> QED
    BY <2>1, <2>2, <2>3, <2>4, <2>5 DEF Lasting
<1>3. CASE UpdateClearsBackup
  <2>1. /\ pc = "backup" /\ pc' = "aside" /\ goal' = goal
        /\ card'.standard = card.standard /\ card'.temp = card.temp
        /\ (card'.old = Absent /\ faults' = faults) \/ Fault
    BY <1>3, <1>t, <1>n DEF UpdateClearsBackup
  <2>2. /\ goal \in Ours /\ card.temp \in Ours /\ faults <= 2
        /\ card.standard \in Ours \/ (card.old \in Ours /\ faults = 2)
    BY <2>1, <1>f DEF Lasting
  <2>3. card'.standard \in Ours \/ (card'.old = Absent /\ faults' = 2)
    BY <2>1, <2>2, <1>f
  <2>4. ACopyRemains'
    BY <2>1, <2>2, CopyIsThere
  <2> QED
    BY <2>1, <2>2, <2>3, <2>4 DEF Lasting
<1>4. CASE UpdateMovesAside
  <2>1. pc = "aside" /\ faults <= 2
    BY <1>4, <1>f, <1>n DEF UpdateMovesAside
  <2>2. /\ goal \in Ours /\ card.temp \in Ours
        /\ card.standard \in Ours \/ (card.old = Absent /\ faults = 2)
    BY <2>1 DEF Lasting
  <2>3. CASE card' = [card EXCEPT !.old = card.standard, !.standard = Absent] /\ NoFault
             /\ pc' = "in" /\ goal' = goal
    <3>1. card'.temp = card.temp /\ card'.old = card.standard /\ faults' = faults
      BY <1>t, <2>3, <1>n
    <3>2. ACopyRemains'
      BY <2>2, <3>1, CopyIsThere
    <3> QED
      BY <2>2, <2>3, <3>1, <3>2 DEF Lasting
  <2>4. CASE UNCHANGED card /\ pc' = "home" /\ (Fault \/ card.old # Absent)
    <3>1. card.standard \in Ours
      BY <2>2, <2>4, <1>f
    <3>2. ACopyRemains'
      BY <2>4, <3>1, CopyIsThere
    <3> QED
      BY <2>4, <3>1, <3>2 DEF Lasting
  <2> QED
    BY <1>4, <2>3, <2>4 DEF UpdateMovesAside, UpdateFails
<1>5. CASE UpdateMovesIn
  <2>1. pc = "in" /\ goal' = goal /\ faults <= 2
    BY <1>5, <1>f, <1>n DEF UpdateMovesIn
  <2>2. goal \in Ours /\ card.temp \in Ours /\ (card.old \in Ours \/ faults = 2)
    BY <2>1 DEF Lasting
  <2>3. CASE card' = [card EXCEPT !.standard = card.temp, !.temp = Absent] /\ pc' = "drop"
    <3>1. card'.standard \in Ours
      BY <1>t, <2>2, <2>3
    <3>2. ACopyRemains'
      BY <3>1, CopyIsThere
    <3> QED
      BY <2>3, <3>1, <3>2 DEF Lasting
  <2>4. CASE UNCHANGED card /\ Fault /\ pc' = "back"
    <3>1. card'.old \in Ours /\ faults' >= 1
      BY <2>2, <2>4, <1>f
    <3>2. ACopyRemains'
      BY <3>1, CopyIsThere
    <3> QED
      BY <2>1, <2>2, <2>4, <3>1, <3>2 DEF Lasting
  <2> QED
    BY <1>5, <2>3, <2>4 DEF UpdateMovesIn
<1>6. CASE UpdateMovesBack
  <2>1. pc = "back" /\ pc' = "home" /\ faults <= 2
    BY <1>6, <1>f, <1>n DEF UpdateMovesBack, UpdateFails
  <2>2. card.old \in Ours /\ faults >= 1
    BY <2>1 DEF Lasting
  <2>3. CASE card' = [card EXCEPT !.standard = card.old, !.old = Absent, !.temp = Absent]
    <3>1. card'.standard \in Ours
      BY <1>t, <2>2, <2>3
    <3>2. ACopyRemains'
      BY <3>1, CopyIsThere
    <3> QED
      BY <2>1, <3>1, <3>2 DEF Lasting
  <2>4. CASE Put("temp", Absent) /\ Fault
    <3>1. card'.old = card.old /\ faults' = 2
      <4>1. card'.old = card.old
        BY <1>t, <2>4
      <4>2. faults' = faults + 1 /\ faults' <= 2 /\ faults >= 1
        BY <2>2, <2>4, <1>f
      <4> QED
        BY <4>1, <4>2
    <3>2. ACopyRemains'
      BY <2>2, <3>1, CopyIsThere
    <3> QED
      BY <2>1, <2>2, <3>1, <3>2 DEF Lasting
  <2> QED
    BY <1>6, <2>3, <2>4 DEF UpdateMovesBack
<1>7. CASE UpdateDropsBackup
  <2>1. pc = "drop" /\ pc' = "home" /\ faults <= 2 /\ card'.standard = card.standard
    BY <1>7, <1>t, <1>f, <1>n DEF UpdateDropsBackup
  <2>2. card'.standard \in Ours
    BY <2>1 DEF Lasting
  <2>3. ACopyRemains'
    BY <2>2, CopyIsThere
  <2> QED
    BY <2>1, <2>2, <2>3 DEF Lasting
<1> QED
  BY <1>1, <1>2, <1>3, <1>4, <1>5, <1>6, <1>7 DEF Update

LEMMA LastingIsKept ==
  ASSUME Decided, Lasting, faults \in Nat, Next
  PROVE  Lasting'
<1> SUFFICES ASSUME faults' <= 2 PROVE Lasting'
  BY DEF Lasting
<1>1. CASE StartStandard
  <2>1. UNCHANGED <<card, goal, faults>> /\ pc' = "home" /\ card.standard \in Ours
    BY <1>1 DEF StartStandard, NroLooksOurs
  <2> QED
    BY <2>1, StartsLast
<1>2. CASE StartOther \/ StartUnreadable
  <2>1. UNCHANGED <<card, goal>> /\ pc' \in {"create", "page"} /\ faults' \in {faults, faults + 1}
    BY <1>2 DEF StartOther, StartUnreadable, NoFault, Fault
  <2> QED
    BY <2>1, StartsLast
<1>3. CASE Repair
  BY <1>3, RepairLasts
<1>4. CASE Update
  BY <1>4, UpdateLasts
<1>5. CASE Restarts
  <2>1. UNCHANGED <<card, faults>> /\ pc' = "chain"
    BY <1>5 DEF Restarts
  <2> QED
    BY <2>1 DEF Lasting, ACopyRemains
<1>6. CASE Exits \/ PowerCut
  <2>1. UNCHANGED <<card, faults>> /\ pc' = "off"
    BY <1>6 DEF Exits, PowerCut, Gone
  <2> QED
    BY <2>1 DEF Lasting, ACopyRemains
<1>7. CASE PlayerCopies
  <2>1. PICK i \in Ours : Put("other", i)
    BY <1>7 DEF PlayerCopies
  <2>2. card'.other \in Ours /\ pc' = "off"
    BY <1>7, <2>1, OthersStay, FilesAreApart DEF PlayerCopies, Decided, Places
  <2>3. ACopyRemains'
    BY <2>2, CopyIsThere
  <2> QED
    BY <2>2, <2>3 DEF Lasting
<1> QED
  BY <1>1, <1>2, <1>3, <1>4, <1>5, <1>6, <1>7 DEF Next

LEMMA TileKeepsLasting ==
  ASSUME IInv, Decided, Lasting, [NextTile]_allVars
  PROVE  Lasting'
<1>t. TypeOKTile /\ Control /\ faults \in Nat
  BY DEF IInv, Control
<1>1. ASSUME Next PROVE Lasting'
  BY <1>1, <1>t, LastingIsKept
<1>2. ASSUME UNCHANGED manager PROVE Lasting'
  <2>1. faults' \in {faults, faults + 1, faults + 2}
    BY <1>t, StepCounts
  <2>2. CASE faults' <= 2
    BY <1>2, <1>t, <2>1, <2>2, StartsLast DEF manager
  <2>3. CASE ~(faults' <= 2)
    BY <2>3 DEF Lasting
  <2> QED
    BY <2>2, <2>3
<1>3. CASE RefreshForwarderTile
  BY <1>2, <1>3 DEF RefreshForwarderTile
<1>4. CASE Removing
  BY <1>2, <1>4 DEF Removing, PressesRemove, Presses, AsksAgain, DeletionFails,
     DeletesCompletely, LocatesMeta, DeletesContent, RemovesMeta, SavesMeta, DeletesEntity,
     RemoveEnds
<1>5. CASE Installing
  BY <1>2, <1>5 DEF Installing, PressesInstall, Presses, InstallPrepares, RegistersContents,
     SetsRecord, CommitsRecord, ResetsEntity, PushesRecord, InstallEnds
<1>6. CASE StartsAtStandard \/ StartsElsewhere \/ Manages \/ Closes \/ LosesPower \/ Copies
  BY <1>1, <1>6 DEF StartsAtStandard, StartsElsewhere, Manages, Closes, LosesPower, Copies, Next
<1>7. CASE PlayerClosesTile \/ SwitchesOff \/ UNCHANGED allVars
  BY <1>2, <1>7 DEF PlayerClosesTile, SwitchesOff, allVars, vars, manager
<1> QED
  BY <1>3, <1>4, <1>5, <1>6, <1>7 DEF NextTile

LEMMA CopiesLast == SpecTile => []Lasting
<1>1. InitTile => Decided /\ Lasting
  BY InitDecides, InitLasts DEF InitTile
<1>2. IInv /\ Decided /\ Lasting /\ [NextTile]_allVars => Lasting'
  BY TileKeepsLasting
<1> QED
  BY <1>1, <1>2, InvariantHolds, TileKeepsDecided, PTL DEF SpecTile

(* Whatever the startup check and the self-update were doing when calls      *)
(* failed, at most two of them, and however often the power went: some whole *)
(* copy of the manager is on the card.  It takes a third failing call to     *)
(* lose the last one.                                                        *)
THEOREM ACopyAlwaysRemains == SpecTile => [](faults <= 2 => ACopyRemains)
<1>1. Lasting => (faults <= 2 => ACopyRemains)
  BY DEF Lasting
<1> QED
  BY <1>1, CopiesLast, PTL

(* UpdateMovesIn and its way back: unless two calls have failed, the home page *)
(* is never shown with the file that the tile opens missing.                   *)
THEOREM TheTileOpensTheManager == SpecTile => []TileOpensManager
<1>1. IInv /\ Lasting => TileOpensManager
  <2> SUFFICES ASSUME IInv, Lasting, pc = "home", faults <= 1 PROVE card.standard \in Ours
    BY DEF TileOpensManager, NroLooksOurs
  <2>1. faults \in Nat
    BY DEF IInv, Control
  <2>2. faults <= 2 /\ faults # 2
    BY <2>1
  <2> QED
    BY <2>2 DEF Lasting
<1> QED
  BY <1>1, InvariantHolds, CopiesLast, PTL
=============================================================================
