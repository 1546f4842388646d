----------------------------- MODULE Navigation -----------------------------
(***************************************************************************)
(* One frame of the app's loop (ui/app.cpp, App::Run): results of workers   *)
(* and requests of the web page, then one key, then the stick, then the     *)
(* touch panel, then the drawing.  Every input may turn the page, and the   *)
(* touch is looked up among the controls the last drawing laid out, which   *)
(* may belong to the page before.                                           *)
(*                                                                         *)
(* A key may turn the page in the very frame a finger goes up in: the tap   *)
(* then means what the page nobody has seen makes of it.  The properties    *)
(* below hold up to the first such frame, which `crossed` records.          *)
(*                                                                         *)
(* Keys pressed together count as the first that HandleKeys asks about, so  *)
(* a frame has one key.  A rectangle is a name; only the primary button and *)
(* the installer's footer hint are at different places on different pages.  *)
(* What an install, a check or a collect decides is a choice here: AgentHome,*)
(* UpdateTask and InstallRun take them apart.                               *)
(***************************************************************************)
EXTENDS Integers, Sequences

CONSTANTS
  Facts,       \* what a collect may find: [kind, have, newer]
  StartPages,  \* the page the app may open on: "Home", "StartupCheck"
  Touched,     \* the controls a finger may come down on
  StandardPath \* the program runs from where it belongs: manager_path_ok

ASSUME FactsAssumption ==
  /\ Facts # {}
  /\ \A f \in Facts : f.have \in BOOLEAN /\ f.newer \in BOOLEAN
ASSUME StartPagesAssumption == StartPages \subseteq {"Home", "StartupCheck"} /\ StartPages # {}
ASSUME StandardPathAssumption == StandardPath \in BOOLEAN

None == "none"
Pages == {"Home", "UpdateCenter", "Details", "Install", "Uninstall", "Progress", "Result",
          "Guide", "GameInstall", "StartupCheck"}
Screens == {"Pending", "Choose", "Files", "Url", "Upload", "Confirm", "Result"}
Keys == {"L", "R", "B", "Plus", "Minus", "Up", "Down", "A", "X", "Y"}

VARIABLES
  at,     \* where the loop is in its frame
  app,    \* the members, see Init; app.drawn is m_actions as the last drawing laid it
          \* out, app.did what the agent's installer was told in this frame
  finger, \* what the finger on the panel came down on, and where
  turned, \* history: the key of this frame turned the page
  crossed \* history: a tap was carried out in such a frame

vars == <<at, app, finger, turned, crossed>>

NoFinger == [id |-> None, place |-> None]
Control(id, on) == [id |-> id, on |-> on]
Button(id) == Control(id, TRUE)
Ids(actions) == {actions[i].id : i \in DOMAIN actions}
Enabled(actions) == {actions[i].id : i \in {j \in DOMAIN actions : actions[j].on}}

-----------------------------------------------------------------------------
(* Layout: what each page draws.                                            *)

Installed(w) == w.have /\ w.kind \notin {"NeedsInstall", "GameMissing"}

BuildHomeActions(w) ==
  <<Control("Primary", w.kind # "UpToDate"), Button("CheckUpdate")>>
    \o (IF Installed(w) THEN <<Button("Uninstall")>> ELSE <<>>)
    \o <<Button("Forwarder")>>

UpdateCenterActions(w) ==
  LET quiet == ~w.checking /\ ~w.loading IN
  <<Control("UpdateAgent", w.newer /\ quiet),
    Control("UpdateManager", w.offer /\ StandardPath /\ quiet),
    IF w.ready = "restart" THEN Button("Restart") ELSE Control("Recheck", quiet)>>

DetailsActions == <<Button("Language")>>
ConfirmActions == <<Button("Primary"), Button("Back")>>
ResultActions == <<Button("Primary")>>
StartupActions(w) ==
  (IF w.repair = "offered" THEN <<Button("StartupRepair")>> ELSE <<>>) \o <<Button("FooterBack")>>

PendingActions == <<Button("Resume"), Button("Abandon"), Button("PickNew")>>
ChooseActions == <<Button("Local"), Button("Download"), Button("FromPage")>>
FilesActions == <<Button("PickRow")>>
UrlActions(w) == IF w.offline THEN <<>> ELSE <<Button("TypeUrl")>>

RenderGameInstall(w) ==
  CASE w.screen = "Pending" -> PendingActions
    [] w.screen = "Choose" -> ChooseActions
    [] w.screen = "Files" -> FilesActions
    [] w.screen = "Url" -> UrlActions(w)
    [] OTHER -> <<>>

PageActions(w) ==
  CASE w.page = "Home" -> BuildHomeActions(w)
    [] w.page = "UpdateCenter" -> UpdateCenterActions(w)
    [] w.page = "Details" -> DetailsActions
    [] w.page \in {"Install", "Uninstall"} -> ConfirmActions
    [] w.page = "Result" -> ResultActions
    [] w.page = "GameInstall" -> RenderGameInstall(w)
    [] w.page = "StartupCheck" -> StartupActions(w)
    [] OTHER -> <<>>

TargetSelectable(w) == w.page = "GameInstall" /\ w.screen \notin {"Pending", "Result"}
HasOwnBackButton(w) == w.page \in {"Install", "Uninstall", "Result", "Progress"}

AddChromeActions(w) ==
  IF \/ w.page \in {"Progress", "StartupCheck"}
     \/ w.page = "UpdateCenter" /\ w.loading
  THEN <<>>
  ELSE IF w.page = "GameInstall"
       THEN IF TargetSelectable(w) THEN <<Button("TargetSd"), Button("TargetNand")>> ELSE <<>>
  ELSE <<Button("OpenInstall"), Button("TabStatus"), Button("TabDetails"), Button("TabGuide")>>
         \o (IF HasOwnBackButton(w) THEN <<>> ELSE <<Button("FooterBack")>>)

(* The installer's way back is in the footer, after what A does on the screen. *)
FooterActions(w) ==
  CASE w.screen = "Confirm" -> <<Button("Start")>>
    [] w.screen \in {"Url", "Upload"} /\ w.offline -> <<Button("InstallRecheck")>>
    [] w.screen = "Url" /\ ~w.offline -> <<Button("TypeUrl")>>
    [] OTHER -> <<>>
RenderFooter(w) ==
  IF w.page # "GameInstall" THEN <<>> ELSE FooterActions(w) \o <<Button("InstallBack")>>

Place(d, id) ==
  CASE id = "Primary" -> IF d.page = "Home" THEN "middle" ELSE "bottom"
    [] id = "InstallBack" ->
         IF Ids(d.actions) \cap {"Start", "TypeUrl", "InstallRecheck"} # {}
         THEN "second hint" ELSE "first hint"
    [] OTHER -> id

-----------------------------------------------------------------------------
(* Focus.                                                                   *)

(* Only the language row is a target of the generic focus. *)
FirstEnabled(actions) == IF "Language" \in Ids(actions) THEN "Language" ELSE None

HomeFocus == {"Primary", "CheckUpdate", "Uninstall", "Forwarder"}
OnlyHome(actions) == SelectSeq(actions, LAMBDA a : a.id \in HomeFocus)

IndexOf(actions, id) == CHOOSE i \in DOMAIN actions : actions[i].id = id

(* The next enabled control of the cycle, from the given one or from the anchor. *)
Cycle(actions, from, direction) ==
  LET count == Len(actions)
      start == IF from \in Ids(actions) THEN IndexOf(actions, from) ELSE IndexOf(actions, "Primary")
      nth(k) == actions[((start - 1 + direction * k) % count) + 1]
      hits == {k \in 1..count : nth(k).on}
  IN IF actions = <<>> \/ hits = {} THEN None
     ELSE nth(CHOOSE k \in hits : \A j \in hits : k <= j).id

DefaultHomeFocus(actions) ==
  IF "Primary" \in Enabled(actions) THEN "Primary"
  ELSE IF actions = <<>> THEN None ELSE Cycle(actions, None, 1)

MoveHomeFocus(w, direction) ==
  LET actions == OnlyHome(w.drawn.actions)
      next == IF actions = <<>> THEN None ELSE Cycle(actions, w.focus, direction)
  IN [w EXCEPT !.focus = IF @ = None THEN DefaultHomeFocus(actions)
                         ELSE IF next = None THEN @ ELSE next]

MoveUpdateCenterFocus(w, direction) ==
  LET ids == <<"UpdateAgent", "UpdateManager", IF w.ready = "restart" THEN "Restart" ELSE "Recheck">>
      known == {i \in 1..3 : ids[i] = w.focus}
      current == IF known # {} THEN CHOOSE i \in known : TRUE ELSE IF direction > 0 THEN 0 ELSE 1
      nth(k) == ids[((current - 1 + direction * k) % 3) + 1]
      hits == {k \in 1..3 : nth(k) \in Enabled(w.drawn.actions)}
  IN [w EXCEPT !.focus = IF hits = {} THEN @ ELSE nth(CHOOSE k \in hits : \A j \in hits : k <= j)]

MoveFocus(w, direction) ==
  CASE w.page = "Home" -> MoveHomeFocus(w, direction)
    [] w.page = "UpdateCenter" -> MoveUpdateCenterFocus(w, direction)
    [] OTHER -> w

NormalizeHomeFocus(w) ==
  LET actions == BuildHomeActions(w)
      focus == IF w.fresh THEN None ELSE w.focus
  IN [w EXCEPT !.fresh = FALSE,
               !.focus = IF focus \in Enabled(actions) THEN focus ELSE DefaultHomeFocus(actions)]

RenderUpdateCenter(w) ==
  LET actions == UpdateCenterActions(w)
      first == IF \E i \in 1..3 : actions[i].on
               THEN actions[CHOOSE i \in 1..3 : /\ actions[i].on
                                                /\ \A j \in 1..(i - 1) : ~actions[j].on].id
               ELSE None
  IN [w EXCEPT !.focus = IF @ \in Enabled(actions) THEN @ ELSE first]

(* What a drawing leaves: the controls, and a focus that is one of them. *)
Layout(w) == PageActions(w) \o AddChromeActions(w)
Focused(w) ==
  LET page == CASE w.page = "Home" -> NormalizeHomeFocus(w)
                [] w.page = "UpdateCenter" -> RenderUpdateCenter(w)
                [] OTHER -> w
  IN [page EXCEPT !.focus = IF @ \in Ids(Layout(w)) THEN @ ELSE FirstEnabled(Layout(w))]
Render(w) ==
  [Focused(w) EXCEPT !.drawn = [page |-> w.page, screen |-> w.screen,
                                actions |-> Layout(w) \o RenderFooter(w)]]

-----------------------------------------------------------------------------
(* The installer's page: its screens and the package in hand.  "owes" is a  *)
(* package that was read and not yet installed: its placeholders are on the *)
(* console.  An operator gives every way its method may leave the members.  *)

Collected(w) == {[w EXCEPT !.kind = f.kind, !.have = f.have, !.newer = f.newer] : f \in Facts}
Reseated(w) == [w EXCEPT !.focus = FirstEnabled(w.drawn.actions)]

LeaveInstallScreen(w) == [w EXCEPT !.hand = None]
LeaveGameInstall(w) ==
  [LeaveInstallScreen(w) EXCEPT !.drives = FALSE, !.launcher = FALSE, !.page = w.installReturn]

(* Mutant: every result leads out of the installer, not only the tile's. *)
BackLeavesTheInstaller(w) ==
  CASE w.screen \in {"Confirm", "Result", "Choose"} -> Reseated(LeaveGameInstall(w))
    [] w.screen \in {"Files", "Url", "Upload"} -> Reseated([w EXCEPT !.screen = "Choose"])
    [] OTHER -> w

InstallStepBack(w) ==
  CASE w.screen \in {"Confirm", "Result"} ->
         IF w.launcher THEN Reseated(LeaveGameInstall(w))
         ELSE Reseated([LeaveInstallScreen(w) EXCEPT !.screen = w.origin])
    [] w.screen \in {"Files", "Url", "Upload"} -> Reseated([w EXCEPT !.screen = "Choose"])
    [] w.screen = "Choose" -> Reseated(LeaveGameInstall(w))
    [] OTHER -> w

(* A package: described, already there, refused, or refused because the game runs. *)
OpenPackage(w) ==
  {[w EXCEPT !.hand = "owes", !.screen = "Confirm"],
   [w EXCEPT !.hand = "over", !.screen = "Result"],
   [w EXCEPT !.hand = None, !.screen = "Result"],
   [w EXCEPT !.hand = None, !.screen = w.origin]}

PickFocusedFile(w) ==
  {w} \cup OpenPackage([w EXCEPT !.drives = FALSE, !.origin = "Files", !.hand = None])
StartDownload(w) ==
  {w} \cup OpenPackage([w EXCEPT !.drives = FALSE, !.origin = "Url", !.hand = None])

(* Another storage: an open package is dropped and read again there. *)
SetInstallTarget(w) ==
  IF ~TargetSelectable(w) \/ w.hand = None THEN {w}
  ELSE {w} \cup OpenPackage(LeaveInstallScreen(w))
           \cup {[LeaveInstallScreen(w) EXCEPT !.screen = "Upload"]}

(* The whole transfer.  It draws while it works: what is laid out when it   *)
(* returns is the result screen.                                            *)
RunGameInstall(w) ==
  IF w.hand = None THEN {w}
  ELSE {Render(c) : c \in Collected([w EXCEPT !.screen = "Result", !.hand = "over"])}

OpenGameInstall(w) ==
  IF w.page = "GameInstall" THEN {w}
  ELSE {Reseated([w EXCEPT !.installReturn = w.page, !.page = "GameInstall", !.screen = s,
                           !.origin = "Choose", !.launcher = FALSE]) : s \in {"Pending", "Choose"}}

ResumePendingInstall(w) ==
  {[w EXCEPT !.screen = s] : s \in {"Choose", "Pending", "Upload"}}
    \cup UNION {OpenPackage([w EXCEPT !.origin = o]) : o \in {"Files", "Url"}}
RefreshNetworkState(w) == {[w EXCEPT !.offline = o] : o \in BOOLEAN}
AbandonPendingInstall(w) == {[w EXCEPT !.screen = s] : s \in {"Choose", "Pending"}}

(* The home-menu tile: removed, or installed from the package the program carries. *)
ForwarderTile(w) ==
  LET opened == [w EXCEPT !.installReturn = w.page, !.page = "GameInstall", !.screen = "Result",
                          !.launcher = TRUE]
      tried == [opened EXCEPT !.origin = "Choose", !.drives = FALSE]
  IN {Reseated([c EXCEPT !.page = "Result"]) : c \in Collected(w)}
       \cup {opened, [tried EXCEPT !.hand = None], [tried EXCEPT !.hand = "over"]}
       \cup RunGameInstall([tried EXCEPT !.hand = "owes"])
-----------------------------------------------------------------------------
(* Pages.                                                                   *)

GoTo(w, page) == Reseated([w EXCEPT !.page = page])

(* The agent's installer: refused at once, or told, with a drawing of the   *)
(* progress page before it starts.                                          *)
RunInstall(w) ==
  LET told == Render([w EXCEPT !.page = "Progress", !.did = "Install"])
  IN {[w EXCEPT !.page = "Result"]}
       \cup {[c EXCEPT !.page = "Result"] : c \in Collected(told) \cup {told}}

RunUninstall(w) ==
  LET told == Render([w EXCEPT !.page = "Progress", !.did = "Uninstall"])
  IN {[c EXCEPT !.page = "Result"] : c \in Collected(told) \cup {told}}

(* Mutant: the guide, opened from itself, becomes its own way back. *)
GuideFromItself(w) == Reseated([w EXCEPT !.guideReturn = w.page, !.page = "Guide"])

ToggleGuide(w) ==
  IF w.page = "Guide" THEN GoTo(w, w.guideReturn)
  ELSE Reseated([w EXCEPT !.guideReturn = w.page, !.page = "Guide"])

Peers == <<"Home", "Details", "Guide">>
CyclePeerTab(current, step) == (current + step) % 3

SwitchPeerPage(w, step) ==
  LET known == {i \in 1..3 : Peers[i] = w.page}
      current == IF known = {} THEN 0 ELSE (CHOOSE i \in known : TRUE) - 1
      target == Peers[CyclePeerTab(current, step) + 1]
  IN Reseated([w EXCEPT !.page = target,
                        !.guideReturn = IF target = "Guide" THEN w.page ELSE @])

StartUpdateCheck(w) == {w, [w EXCEPT !.checking = TRUE]}
EnterUpdateCenter(w) ==
  LET entered == [w EXCEPT !.page = "UpdateCenter", !.focus = None]
  IN {entered} \cup (IF w.checking THEN {} ELSE StartUpdateCheck(entered))
(* A new attempt forgets that a restart had failed. *)
StartManagerUpdate(w) ==
  IF w.offer /\ StandardPath /\ ~w.checking /\ ~w.loading
  THEN {w, [w EXCEPT !.loading = TRUE]}
         \cup (IF w.ready = "manual" THEN {[w EXCEPT !.ready = "restart"],
                                           [w EXCEPT !.loading = TRUE, !.ready = "restart"]} ELSE {})
  ELSE {w}
RequestManagerRestart(w) ==
  IF w.ready = "restart" THEN {[w EXCEPT !.exit = TRUE], [w EXCEPT !.ready = "manual"]} ELSE {w}
RepairStartup(w) == {w, [w EXCEPT !.repair = "done"], [w EXCEPT !.repair = "done", !.exit = TRUE]}

(* What "primary" means depends on the page. *)
ActivatePrimary(w) ==
  CASE w.page = "Install" -> RunInstall(w)
    [] w.page = "Uninstall" -> RunUninstall(w)
    [] w.page = "Result" -> {GoTo(c, "Home") : c \in Collected(w)}
    [] OTHER -> (CASE w.kind = "UpToDate" -> Collected(w)
                   [] w.kind \in {"GameMissing", "Unsupported"} -> OpenGameInstall(w)
                   [] OTHER -> {[w EXCEPT !.page = "Install"]})

UpdateAction(w, id) ==
  CASE id = "UpdateAgent" -> {IF w.newer THEN GoTo(w, "Install") ELSE w}
    [] id = "UpdateManager" -> StartManagerUpdate(w)
    [] id = "Recheck" -> IF w.checking \/ w.loading THEN {w} ELSE StartUpdateCheck(w)
    [] id = "Restart" -> RequestManagerRestart(w)

StartupAction(w, id) ==
  IF id = "StartupRepair" /\ w.repair # "done" THEN RepairStartup(w)
  ELSE IF id = "FooterBack" THEN {[w EXCEPT !.exit = TRUE]} ELSE {w}

ActivateAction(w, id) ==
  IF w.page = "StartupCheck" THEN StartupAction(w, id) ELSE
  CASE id = "Primary" -> ActivatePrimary(w)
    [] id = "Back" -> {IF w.page \in {"Install", "Uninstall"} THEN GoTo(w, "Home")
                       ELSE [w EXCEPT !.page = "Home"]}
    [] id \in {"UpdateAgent", "UpdateManager", "Recheck", "Restart"} ->
         IF w.page = "UpdateCenter" THEN UpdateAction(w, id) ELSE {w}
    [] id = "CheckUpdate" -> EnterUpdateCenter(w)
    [] id = "Forwarder" -> ForwarderTile(w)
    [] id = "Uninstall" ->
         {IF w.page = "Home" /\ w.have THEN [w EXCEPT !.page = "Uninstall"] ELSE w}
    [] id = "TabGuide" -> {ToggleGuide(w)}
    [] id = "OpenInstall" -> OpenGameInstall(w)
    [] id = "TabStatus" -> {IF w.page = "Home" THEN w ELSE GoTo(w, "Home")}
    [] id = "TabDetails" -> {IF w.page = "Details" THEN w ELSE GoTo(w, "Details")}
    [] id = "FooterBack" ->
         {IF w.page = "Home" THEN [w EXCEPT !.exit = TRUE] ELSE GoTo(w, "Home")}
    [] id = "Local" -> {[w EXCEPT !.screen = "Files"]}
    [] id = "Download" -> RefreshNetworkState([w EXCEPT !.screen = "Url", !.origin = "Url"])
    [] id = "FromPage" -> RefreshNetworkState([w EXCEPT !.screen = "Upload", !.origin = "Upload"])
    [] id = "InstallRecheck" -> RefreshNetworkState(w)
    [] id = "PickRow" -> PickFocusedFile(w)
    [] id = "TypeUrl" -> StartDownload(w)
    [] id = "Start" -> RunGameInstall(w)
    [] id = "InstallBack" -> {InstallStepBack(w)}
    [] id \in {"TargetSd", "TargetNand"} -> SetInstallTarget(w)
    [] id = "Resume" -> ResumePendingInstall(w)
    [] id = "Abandon" -> AbandonPendingInstall(w)
    [] id = "PickNew" -> {[w EXCEPT !.screen = "Choose"]}
    [] OTHER -> {w}

-----------------------------------------------------------------------------
(* Keys.                                                                    *)

StartupKey(w, key) ==
  CASE key = "B" -> {[w EXCEPT !.exit = TRUE]}
    [] key = "A" /\ w.repair = "offered" -> RepairStartup(w)
    [] OTHER -> {w}

(* The installer's own key map: what a key stands for on a screen. *)
ScreenKey(w, key) ==
  CASE w.screen = "Pending" /\ key = "A" -> "Resume"
    [] w.screen = "Pending" /\ key = "X" -> "Abandon"
    [] w.screen = "Pending" /\ key = "Y" -> "PickNew"
    [] w.screen = "Confirm" /\ key = "A" -> "Start"
    [] w.screen \in {"Url", "Upload"} /\ key = "A" /\ w.offline -> "InstallRecheck"
    [] w.screen = "Url" /\ key = "A" /\ ~w.offline -> "TypeUrl"
    [] w.screen = "Files" /\ key = "A" -> "PickRow"
    [] w.screen = "Choose" /\ key = "Y" -> "Local"
    [] w.screen = "Choose" /\ key = "X" -> "Download"
    [] w.screen = "Choose" /\ key = "A" -> "FromPage"
    [] OTHER -> None

InstallerKey(w, key) ==
  CASE key \in {"L", "R"} -> SetInstallTarget(w)
    [] key = "B" -> {InstallStepBack(w)}
    [] OTHER -> ActivateAction(w, ScreenKey(w, key))

Back(w) ==
  IF w.page = "Home" THEN [w EXCEPT !.exit = TRUE]
  ELSE GoTo(w, IF w.page = "Guide" THEN w.guideReturn ELSE "Home")

(* Up stands for the keys that choose the control before, Down for the others. *)
HomeDirection(key) == IF key = "Up" THEN -1 ELSE 1

PageKey(w, key) ==
  CASE w.page \in {"Home", "UpdateCenter"} /\ key \in {"Up", "Down"} ->
         {MoveFocus(w, HomeDirection(key))}
    [] w.page \in {"Home", "UpdateCenter"} /\ key = "A" ->
         IF w.focus = None THEN {w} ELSE ActivateAction(w, w.focus)
    [] w.page = "UpdateCenter" /\ key = "X" ->
         IF w.ready = "no" THEN ActivateAction(w, "Recheck") ELSE {w}
    [] w.page = "Details" /\ key = "Y" -> Collected(w)
    [] w.page \in {"Install", "Uninstall", "Result"} /\ key = "A" -> ActivateAction(w, "Primary")
    [] OTHER -> {w}

(* The keys every other page knows. *)
CommonKey(w, key) ==
  CASE key = "L" -> {SwitchPeerPage(w, -1)}
    [] key = "R" -> {SwitchPeerPage(w, 1)}
    [] key = "B" -> {Back(w)}
    [] key = "Plus" -> OpenGameInstall(w)
    [] key = "Minus" -> {ToggleGuide(w)}
    [] OTHER -> PageKey(w, key)

(* Mutant: L and R leave the installer's page too. *)
KeysLeaveInstaller(w, key) ==
  CASE w.page = "Progress" -> {w}
    [] w.page = "StartupCheck" -> StartupKey(w, key)
    [] w.page = "UpdateCenter" /\ w.loading -> {w}
    [] w.page = "GameInstall" /\ key \notin {"L", "R"} -> InstallerKey(w, key)
    [] OTHER -> CommonKey(w, key)

HandleKeys(w, key) ==
  CASE w.page = "Progress" -> {w}
    [] w.page = "StartupCheck" -> StartupKey(w, key)
    [] w.page = "UpdateCenter" /\ w.loading -> {w}
    [] w.page = "GameInstall" -> InstallerKey(w, key)
    [] OTHER -> CommonKey(w, key)
-----------------------------------------------------------------------------
(* The frame.                                                               *)

Init ==
  /\ at = "poll"
  /\ finger = NoFinger
  /\ turned = FALSE /\ crossed = FALSE
  /\ \E page \in StartPages, f \in Facts, repair \in {"offered", "none"} :
       /\ page = "Home" => repair = "none"
       /\ app = Render([page |-> page, guideReturn |-> "Home", installReturn |-> "Home",
                     screen |-> "Choose", origin |-> "Choose", hand |-> None,
                     launcher |-> FALSE, drives |-> FALSE, focus |-> None, fresh |-> TRUE,
                     kind |-> f.kind, have |-> f.have, newer |-> f.newer, repair |-> repair,
                     checking |-> FALSE, loading |-> FALSE, offer |-> FALSE, ready |-> "no",
                     offline |-> FALSE, exit |-> FALSE, did |-> None,
                     drawn |-> [page |-> page, screen |-> "Choose", actions |-> <<>>]])

CheckEnds(w) ==
  UNION {{[c EXCEPT !.checking = FALSE, !.offer = o] : o \in BOOLEAN} : c \in Collected(w)}
DownloadEnds(w) ==
  {[w EXCEPT !.loading = FALSE]}
    \cup {[w EXCEPT !.loading = FALSE, !.ready = r, !.offer = FALSE] : r \in {"manual", "restart"}}

(* The web page is served while a run of its own may be watched. *)
Listening(w) ==
  /\ w.page = "GameInstall"
  /\ \/ w.screen \in {"Url", "Upload"}
     \/ w.screen \in {"Confirm", "Result"} /\ (w.origin \in {"Url", "Upload"} \/ w.drives)

Requested(w) ==
  (IF w.screen = "Confirm" THEN RunGameInstall(w) ELSE {})
    \cup (IF w.screen \in {"Confirm", "Result"} THEN {InstallStepBack(w)} ELSE {})
    \cup SetInstallTarget(w)
    \cup (IF w.hand = "owes" THEN {} ELSE OpenPackage([w EXCEPT !.drives = TRUE]))

(* PollUpdateCheck, PollManagerUpdate, PollInstallerServer. *)
Poll ==
  /\ at = "poll" /\ ~app.exit
  /\ \/ UNCHANGED app
     \/ app.checking /\ app' \in CheckEnds(app)
     \/ app.loading /\ app' \in DownloadEnds(app)
     \/ Listening(app) /\ app' \in Requested(app)
  /\ at' = "keys"
  /\ UNCHANGED <<finger, turned, crossed>>

HandleStick(w) == {w, MoveFocus(w, 1), MoveFocus(w, -1)}

PressKeys ==
  /\ at = "keys"
  /\ \E key \in Keys :
       \E w \in HandleKeys(app, key) :
         /\ turned' = (w.page # app.page)
         /\ app' \in HandleStick(w)
  /\ at' = "touch"
  /\ UNCHANGED <<finger, crossed>>

NoKey ==
  /\ at = "keys"
  /\ app' \in HandleStick(app)
  /\ at' = "touch"
  /\ UNCHANGED <<finger, turned, crossed>>

NoTouch ==
  /\ at = "touch"
  /\ at' = "draw"
  /\ UNCHANGED <<app, finger, turned, crossed>>

(* The finger comes down on a control, which takes the focus. *)
Press ==
  /\ at = "touch" /\ finger = NoFinger
  /\ \E id \in Touched \cap Enabled(app.drawn.actions) :
       /\ finger' = [id |-> id, place |-> Place(app.drawn, id)]
       /\ app' = [app EXCEPT !.focus = id]
  /\ at' = "draw"
  /\ UNCHANGED <<turned, crossed>>

(* It goes up where it came down: a tap, if that control is still there. *)
Tap ==
  /\ at = "touch" /\ finger # NoFinger
  /\ finger.id \in Enabled(app.drawn.actions)
  /\ Place(app.drawn, finger.id) = finger.place
  /\ app' \in ActivateAction(app, finger.id)
  /\ finger' = NoFinger
  /\ crossed' = (crossed \/ turned)
  /\ at' = "draw"
  /\ UNCHANGED turned

(* It goes up after it wandered off, or over something else. *)
Drag ==
  /\ at = "touch" /\ finger # NoFinger
  /\ finger' = NoFinger
  /\ at' = "draw"
  /\ UNCHANGED <<app, turned, crossed>>

Draw ==
  /\ at = "draw"
  /\ app' = Render([app EXCEPT !.fresh = @ \/ app.page # "Home", !.did = None])
  /\ turned' = FALSE
  /\ at' = "poll"
  /\ UNCHANGED <<finger, crossed>>

Next == Poll \/ PressKeys \/ NoKey \/ NoTouch \/ Press \/ Tap \/ Drag \/ Draw

Spec == Init /\ [][Next]_vars

-----------------------------------------------------------------------------
(* Properties.                                                              *)

(* Every member stays in its domain. *)
TypeOK ==
  /\ at \in {"poll", "keys", "touch", "draw"}
  /\ turned \in BOOLEAN /\ crossed \in BOOLEAN
  /\ app.page \in Pages /\ app.screen \in Screens /\ app.origin \in Screens
  /\ app.guideReturn \in Pages /\ app.installReturn \in Pages
  /\ app.hand \in {None, "owes", "over"}

(* The agent is installed or removed only by a frame that began with the    *)
(* page that asks for it on the screen, until a tap falls into a frame whose *)
(* key turned the page (HandleTouch after HandleKeys): neither a request of *)
(* the web page served before the keys, nor a tap beside a key that stays   *)
(* on its page, nor a finger that came down on another page's "primary"     *)
(* frames ago, does what nobody was asked. *)
ConfirmedFirst ==
  [][~crossed' /\ app'.did \notin {None, app.did} => app.drawn.page = app'.did]_vars

(* A package that was read and not installed yet has placeholders on the    *)
(* console, which only the installer's page gives back: no way out of that  *)
(* page leaves it behind, before such a tap. *)
PackageStaysInside == ~crossed /\ app.hand = "owes" => app.page = "GameInstall"

(* The guide and the installer remember the page they were opened from, also *)
(* from one another: before such a tap, going back always ends on the home  *)
(* page. *)
WayOut(page) == CASE page = "Guide" -> app.guideReturn
                  [] page = "GameInstall" -> app.installReturn
                  [] OTHER -> "Home"
BackLeadsOut == ~crossed => WayOut(WayOut(WayOut(app.page))) = "Home"

-----------------------------------------------------------------------------
(* What comments say and the code does not do; no run checks these.         *)

(* "One place that turns an action id into behaviour, so keys and touch     *)
(* cannot drift apart": not the three above, once a tap crossed a key that  *)
(* turned the page. *)
ConfirmedAlways == [][app'.did \notin {None, app.did} => app.drawn.page = app'.did]_vars
PackageNeverOutside == app.hand = "owes" => app.page = "GameInstall"
BackAlwaysLeadsOut == WayOut(WayOut(WayOut(app.page))) = "Home"

(* "The footer's B hint does exactly what the B key does": not on the guide. *)
FooterIsTheKey ==
  at = "keys" /\ "FooterBack" \in Enabled(app.drawn.actions)
    => ActivateAction(app, "FooterBack") = HandleKeys(app, "B")

(* A control that is drawn does something: not the installer's way back on  *)
(* the screen of an unfinished install. *)
HintsAnswer ==
  at = "keys" /\ "InstallBack" \in Enabled(app.drawn.actions)
    => ActivateAction(app, "InstallBack") # {app}
=============================================================================
