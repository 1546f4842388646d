-------------------------- MODULE Navigation_proofs --------------------------
(***************************************************************************)
(* Proofs about the package in hand and the pages around it: what reading  *)
(* a package leaves on the console, for any files, consoles and number of  *)
(* calls that fail; and that no page leaves a package behind, for any      *)
(* controls a finger may come down on and whatever a collect may find.     *)
(***************************************************************************)
EXTENDS Navigation, PackageReading, FiniteSetTheorems, SequenceTheorems, WellFoundedInduction, TLAPS

Fields == {"page", "guideReturn", "installReturn", "screen", "origin", "hand", "launcher",
           "drives", "focus", "fresh", "kind", "have", "newer", "repair", "checking", "loading",
           "offer", "ready", "offline", "exit", "did", "drawn"}

(* The members, wherever the loop is: the guide is not opened from itself or *)
(* from the installer, the installer not from itself, and by the tile only   *)
(* from the home page.                                                       *)
Members(w) ==
  /\ DOMAIN w = Fields
  /\ w.page \in Pages /\ w.screen \in Screens /\ w.origin \in Screens
  /\ w.guideReturn \in Pages \ {"Guide", "GameInstall"}
  /\ w.installReturn \in Pages \ {"GameInstall"}
  /\ w.launcher => w.installReturn = "Home"
  /\ w.hand \in {None, "owes", "over"}
  /\ w.hand = "owes" => w.page = "GameInstall"


(* What only a screen with its controls on it may do.                        *)
Permitted(page, screen, id) ==
  /\ id \in {"Primary", "Back", "CheckUpdate", "TabGuide", "TabStatus", "TabDetails", "FooterBack"}
       => page # "GameInstall"
  /\ id = "Forwarder" => page = "Home"
  /\ id \in {"PickRow", "TypeUrl", "Resume"}
       => page = "GameInstall" /\ screen \notin {"Confirm", "Result"}

(* The same for a touch, whatever screen a request has led to since.          *)
Answers(page, id) ==
  /\ id \in {"Primary", "Back", "CheckUpdate", "TabGuide", "TabStatus", "TabDetails", "FooterBack"}
       => page # "GameInstall"
  /\ id = "Forwarder" => page = "Home"
  /\ id \in {"PickRow", "TypeUrl", "Resume"} => page = "GameInstall"

(* The controls the code has, and those a page may show.                     *)
ControlIds == {"Primary", "CheckUpdate", "Uninstall", "Forwarder", "UpdateAgent", "UpdateManager",
  "Restart", "Recheck", "Language", "Back", "StartupRepair", "FooterBack", "Resume", "Abandon",
  "PickNew", "Local", "Download", "FromPage", "PickRow", "TypeUrl", "TargetSd", "TargetNand",
  "OpenInstall", "TabStatus", "TabDetails", "TabGuide", "Start", "InstallBack", "InstallRecheck"}
Controls == [id : ControlIds, on : BOOLEAN]
Shown(page, screen) == {c \in Controls : Permitted(page, screen, c.id)}

(* The last drawing is of the page the frame began with: it is still there,  *)
(* or a request of the web page sent the tile's install home.                *)
Drawn(d) == d.actions \in Seq(Shown(d.page, d.screen))
SentHome(w) ==
  w.page = "Home" /\ w.drawn.page = "GameInstall" /\ w.drawn.screen \in {"Confirm", "Result"}
Unpressed(w) ==
  Drawn(w.drawn) /\ w.did = None /\ (w.page = w.drawn.page \/ SentHome(w))

(* A method that stays on its page leaves its drawing, or draws it again.    *)
Redrawn(w, v) ==
  v.page = w.page => v.drawn = w.drawn \/ (Drawn(v.drawn) /\ v.drawn.page = w.page)

(* What a step on a page may leave: the agent's installer is told what the   *)
(* page asks for, and the page turned.                                       *)
Follows(w, v) ==
  /\ Members(v) /\ Redrawn(w, v)
  /\ \/ v.did = w.did
     \/ w.page \in {"Install", "Uninstall"} /\ v.did = w.page /\ v.page # w.page

(* The focus is on a control of the page.                                    *)
FocusFits(w) ==
  w.page \in {"Home", "UpdateCenter"} => Permitted(w.page, w.screen, w.focus)

BeforeCrossing ==
  /\ Members(app) /\ at \in {"poll", "keys", "touch", "draw"} /\ turned \in BOOLEAN
  /\ at = "poll" => app.page = app.drawn.page /\ app.screen = app.drawn.screen
  /\ at \in {"poll", "keys"} => FocusFits(app)
  /\ at \in {"poll", "keys"} \/ (at = "touch" /\ ~turned) => Unpressed(app)

IInv == crossed \in BOOLEAN /\ (crossed \/ BeforeCrossing)

-----------------------------------------------------------------------------
(* What one drawing lays out.                                                *)

LEMMA ControlsShown ==
  ASSUME NEW page, NEW screen, NEW id \in ControlIds, NEW on \in BOOLEAN, Permitted(page, screen, id)
  PROVE  Control(id, on) \in Shown(page, screen)
BY DEF Control, Shown, Controls

LEMMA ButtonsShown ==
  ASSUME NEW page, NEW screen, NEW id \in ControlIds, Permitted(page, screen, id)
  PROVE  Button(id) \in Shown(page, screen)
BY ControlsShown DEF Button

LEMMA Sequences ==
  ASSUME NEW S
  PROVE  /\ <<>> \in Seq(S)
         /\ \A x \in S : <<x>> \in Seq(S)
         /\ \A x, y \in S : <<x, y>> \in Seq(S)
         /\ \A x, y, z \in S : <<x, y, z>> \in Seq(S)
         /\ \A x, y, z, u \in S : <<x, y, z, u>> \in Seq(S)
         /\ \A s, t \in Seq(S) : s \o t \in Seq(S)
OBVIOUS

LEMMA PageIsShown ==
  ASSUME NEW w, NEW S, S = Shown(w.page, w.screen)
  PROVE  PageActions(w) \in Seq(S)
<1> HIDE DEF Shown
<1>1. CASE w.page = "Home"
  <2>1. \A on \in BOOLEAN : Control("Primary", on) \in S
    BY <1>1, ControlsShown DEF ControlIds, Permitted
  <2>2. /\ Button("CheckUpdate") \in S /\ Button("Uninstall") \in S /\ Button("Forwarder") \in S
    BY <1>1, ButtonsShown DEF ControlIds, Permitted
  <2>3. (w.kind # "UpToDate") \in BOOLEAN
    OBVIOUS
  <2> DEFINE top == <<Control("Primary", w.kind # "UpToDate"), Button("CheckUpdate")>>
             middle == IF Installed(w) THEN <<Button("Uninstall")>> ELSE <<>>
             bottom == <<Button("Forwarder")>>
  <2>a. top \in Seq(S) /\ middle \in Seq(S) /\ bottom \in Seq(S)
    BY <2>1, <2>2, <2>3, Sequences
  <2>b. BuildHomeActions(w) = top \o middle \o bottom
    BY DEF BuildHomeActions
  <2> HIDE DEF top, middle, bottom
  <2>4. BuildHomeActions(w) \in Seq(S)
    BY <2>a, <2>b, Sequences
  <2> QED
    BY <1>1, <2>4 DEF PageActions
<1>2. CASE w.page = "UpdateCenter"
  <2>1. \A id \in {"UpdateAgent", "UpdateManager", "Recheck"}, on \in BOOLEAN : Control(id, on) \in S
    BY <1>2, ControlsShown DEF ControlIds, Permitted
  <2>2. Button("Restart") \in S
    BY <1>2, ButtonsShown DEF ControlIds, Permitted
  <2> DEFINE quiet == ~w.checking /\ ~w.loading
             a == w.newer /\ quiet
             b == w.offer /\ StandardPath /\ quiet
  <2>3. quiet \in BOOLEAN /\ a \in BOOLEAN /\ b \in BOOLEAN
    OBVIOUS
  <2>4. UpdateCenterActions(w) =
          <<Control("UpdateAgent", a), Control("UpdateManager", b),
            IF w.ready = "restart" THEN Button("Restart") ELSE Control("Recheck", quiet)>>
    BY DEF UpdateCenterActions
  <2> HIDE DEF quiet, a, b
  <2>5. UpdateCenterActions(w) \in Seq(S)
    BY <2>1, <2>2, <2>3, <2>4
  <2> QED
    BY <1>2, <2>5 DEF PageActions
<1>3. CASE w.page = "Details"
  <2>1. Button("Language") \in S
    BY <1>3, ButtonsShown DEF ControlIds, Permitted
  <2> QED
    BY <1>3, <2>1 DEF PageActions, DetailsActions
<1>4. CASE w.page \in {"Install", "Uninstall", "Result"}
  <2>1. Button("Primary") \in S /\ Button("Back") \in S
    BY <1>4, ButtonsShown DEF ControlIds, Permitted
  <2>2. ConfirmActions \in Seq(S) /\ ResultActions \in Seq(S)
    BY <2>1, Sequences DEF ConfirmActions, ResultActions
  <2>3. PageActions(w) \in {ConfirmActions, ResultActions}
    BY <1>4 DEF PageActions
  <2> QED
    BY <2>2, <2>3
<1>5. CASE w.page = "GameInstall"
  <2>1. /\ \A id \in {"Abandon", "PickNew", "Local", "Download", "FromPage"} : Button(id) \in S
        /\ w.screen \notin {"Confirm", "Result"} =>
             \A id \in {"Resume", "PickRow", "TypeUrl"} : Button(id) \in S
    BY <1>5, ButtonsShown DEF ControlIds, Permitted
  <2>a. PendingActions \in Seq(S) \/ w.screen # "Pending"
    BY <2>1, Sequences DEF PendingActions
  <2>b. ChooseActions \in Seq(S)
    BY <2>1, Sequences DEF ChooseActions
  <2>c. FilesActions \in Seq(S) \/ w.screen # "Files"
    BY <2>1, Sequences DEF FilesActions
  <2>d. UrlActions(w) \in Seq(S) \/ w.screen # "Url"
    BY <2>1, Sequences DEF UrlActions
  <2>2. RenderGameInstall(w) \in Seq(S)
    BY <2>a, <2>b, <2>c, <2>d, Sequences DEF RenderGameInstall
  <2> QED
    BY <1>5, <2>2 DEF PageActions
<1>6. CASE w.page = "StartupCheck"
  <2>1. Button("StartupRepair") \in S /\ Button("FooterBack") \in S
    BY <1>6, ButtonsShown DEF ControlIds, Permitted
  <2> DEFINE repair == IF w.repair = "offered" THEN <<Button("StartupRepair")>> ELSE <<>>
  <2>a. repair \in Seq(S) /\ <<Button("FooterBack")>> \in Seq(S)
    BY <2>1, Sequences
  <2>b. StartupActions(w) = repair \o <<Button("FooterBack")>>
    BY DEF StartupActions
  <2> HIDE DEF repair
  <2>2. StartupActions(w) \in Seq(S)
    BY <2>a, <2>b, Sequences
  <2> QED
    BY <1>6, <2>2 DEF PageActions
<1>7. CASE w.page \notin {"Home", "UpdateCenter", "Details", "Install", "Uninstall", "Result",
                         "GameInstall", "StartupCheck"}
  BY <1>7, Sequences DEF PageActions
<1> QED
  BY <1>1, <1>2, <1>3, <1>4, <1>5, <1>6, <1>7

LEMMA ChromeIsShown ==
  ASSUME NEW w, NEW S, S = Shown(w.page, w.screen)
  PROVE  AddChromeActions(w) \in Seq(S) /\ RenderFooter(w) \in Seq(S)
<1>1. \A id \in {"TargetSd", "TargetNand", "OpenInstall", "Start", "InstallBack"} : Button(id) \in S
  BY ButtonsShown DEF ControlIds, Permitted
<1>2. w.page # "GameInstall" =>
        \A id \in {"TabStatus", "TabDetails", "TabGuide", "FooterBack"} : Button(id) \in S
  BY ButtonsShown DEF ControlIds, Permitted
<1>3. RenderFooter(w) \in Seq(S)
  <2>1. CASE w.page # "GameInstall"
    BY <2>1, Sequences DEF RenderFooter
  <2>2. CASE w.page = "GameInstall"
    <3>1. Button("InstallRecheck") \in S /\ (w.screen = "Url" => Button("TypeUrl") \in S)
      BY <2>2, ButtonsShown DEF ControlIds, Permitted
    <3>2. \/ FooterActions(w) = <<>>
          \/ FooterActions(w) = <<Button("Start")>>
          \/ FooterActions(w) = <<Button("InstallRecheck")>>
          \/ FooterActions(w) = <<Button("TypeUrl")>> /\ w.screen = "Url"
      BY DEF FooterActions
    <3> DEFINE back == <<Button("InstallBack")>>
    <3>3. FooterActions(w) \in Seq(S) /\ back \in Seq(S)
      BY <1>1, <3>1, <3>2, Sequences
    <3>4. RenderFooter(w) = FooterActions(w) \o back
      BY <2>2 DEF RenderFooter
    <3> HIDE DEF back
    <3> QED
      BY <3>3, <3>4, Sequences
  <2> QED
    BY <2>1, <2>2
<1>4. CASE w.page = "GameInstall"
  <2> DEFINE targets == <<Button("TargetSd"), Button("TargetNand")>>
  <2>1. AddChromeActions(w) = <<>> \/ AddChromeActions(w) = targets
    BY <1>4 DEF AddChromeActions
  <2>2. targets \in Seq(S) /\ <<>> \in Seq(S)
    BY <1>1, Sequences
  <2> HIDE DEF targets
  <2> QED
    BY <1>3, <2>1, <2>2
<1>5. CASE w.page # "GameInstall"
  <2> DEFINE tabs == <<Button("OpenInstall"), Button("TabStatus"), Button("TabDetails"),
                       Button("TabGuide")>>
             back == IF HasOwnBackButton(w) THEN <<>> ELSE <<Button("FooterBack")>>
  <2>1. tabs \in Seq(S) /\ back \in Seq(S)
    BY <1>1, <1>2, <1>5, Sequences
  <2>2. AddChromeActions(w) = <<>> \/ AddChromeActions(w) = tabs \o back
    BY <1>5 DEF AddChromeActions
  <2> HIDE DEF tabs, back
  <2> DEFINE both == tabs \o back
  <2>3. both \in Seq(S) /\ <<>> \in Seq(S)
    BY <2>1, Sequences
  <2>4. AddChromeActions(w) = <<>> \/ AddChromeActions(w) = both
    BY <2>2
  <2> HIDE DEF both
  <2> QED
    BY <1>3, <2>3, <2>4
<1> QED
  BY <1>4, <1>5

LEMMA LayoutIsShown ==
  ASSUME NEW w, NEW S, S = Shown(w.page, w.screen)
  PROVE  Layout(w) \in Seq(S) /\ Layout(w) \o RenderFooter(w) \in Seq(S)
BY PageIsShown, ChromeIsShown DEF Layout

(* The controls of a sequence of controls are permitted.                     *)
LEMMA IdsArePermitted ==
  ASSUME NEW page, NEW screen, NEW s \in Seq(Shown(page, screen))
  PROVE  \A id \in Ids(s) : Permitted(page, screen, id)
BY DEF Ids, Shown

LEMMA EnabledAreIds == ASSUME NEW s PROVE Enabled(s) \subseteq Ids(s)
BY DEF Enabled, Ids

-----------------------------------------------------------------------------
(* What a drawing, a collect and the other methods leave of the members.     *)

Like(w, v) ==
  /\ DOMAIN v = Fields
  /\ v.page = w.page /\ v.screen = w.screen /\ v.origin = w.origin
  /\ v.guideReturn = w.guideReturn /\ v.installReturn = w.installReturn
  /\ v.launcher = w.launcher /\ v.hand = w.hand /\ v.did = w.did

LEMMA LikeIsGood == ASSUME NEW w, NEW v, Members(w), Like(w, v) PROVE Members(v)
BY DEF Members, Like

LEMMA FocusSet ==
  ASSUME NEW w, Members(w), NEW id
  PROVE  LET v == [w EXCEPT !.focus = id]
         IN  Like(w, v) /\ v.focus = id /\ v.drawn = w.drawn
BY DEF Members, Like, Fields

LEMMA Rendered ==
  ASSUME NEW w, Members(w)
  PROVE  LET v == Render(w)
         IN  /\ Like(w, v) /\ Members(v) /\ v.drawn.page = w.page /\ v.drawn.screen = w.screen
             /\ Drawn(v.drawn) /\ FocusFits(v)
<1> DEFINE page == CASE w.page = "Home" -> NormalizeHomeFocus(w)
                     [] w.page = "UpdateCenter" -> RenderUpdateCenter(w)
                     [] OTHER -> w
           f == Focused(w)
           v == Render(w)
           drawn == [page |-> w.page, screen |-> w.screen,
                     actions |-> Layout(w) \o RenderFooter(w)]
<1>1. Like(w, page)
  <2>1. CASE w.page = "Home"
    <3>1. PICK id : NormalizeHomeFocus(w) = [w EXCEPT !.fresh = FALSE, !.focus = id]
      BY DEF NormalizeHomeFocus
    <3> QED
      BY <2>1, <3>1 DEF Like, Members, Fields
  <2>2. CASE w.page = "UpdateCenter"
    <3>1. PICK id : RenderUpdateCenter(w) = [w EXCEPT !.focus = id]
      BY DEF RenderUpdateCenter
    <3> QED
      BY <2>2, <3>1 DEF Like, Members, Fields
  <2>3. CASE w.page \notin {"Home", "UpdateCenter"}
    BY <2>3 DEF Like, Members
  <2> QED
    BY <2>1, <2>2, <2>3
<1>2. f = [page EXCEPT !.focus = IF page.focus \in Ids(Layout(w)) THEN page.focus
                                 ELSE FirstEnabled(Layout(w))]
  BY DEF Focused
<1>3. Members(page)
  BY <1>1, LikeIsGood
<1> HIDE DEF page, f
<1>4. Like(page, f) /\ f.focus \in Ids(Layout(w)) \cup {None, "Language"}
  <2> DEFINE id == IF page.focus \in Ids(Layout(w)) THEN page.focus ELSE FirstEnabled(Layout(w))
  <2>1. id \in Ids(Layout(w)) \cup {None, "Language"}
    BY DEF FirstEnabled
  <2>2. f = [page EXCEPT !.focus = id]
    BY <1>2
  <2> HIDE DEF id
  <2> QED
    BY <1>3, <2>1, <2>2, FocusSet
<1>5. Like(w, f) /\ Members(f)
  BY <1>1, <1>3, <1>4, LikeIsGood DEF Like
<1>6. v = [f EXCEPT !.drawn = drawn]
  BY DEF Render, f
<1>7. drawn.page = w.page /\ drawn.screen = w.screen /\ Drawn(drawn)
  BY LayoutIsShown DEF Drawn
<1> HIDE DEF drawn, v
<1>8. Like(f, v) /\ v.drawn = drawn /\ v.focus = f.focus
  BY <1>5, <1>6 DEF Like, Members, Fields
<1>9. Like(w, v)
  BY <1>5, <1>8 DEF Like
<1>10. FocusFits(v)
  <2>1. \A id \in Ids(Layout(w)) : Permitted(w.page, w.screen, id)
    BY LayoutIsShown, IdsArePermitted
  <2>2. \A id \in {None, "Language"} : Permitted(w.page, w.screen, id)
    BY DEF Permitted, None
  <2> QED
    BY <1>4, <1>8, <1>9, <2>1, <2>2 DEF FocusFits, Like
<1> QED
  BY <1>7, <1>8, <1>9, <1>10, LikeIsGood DEF v

(* A method that stays on its page.                                          *)
Stays(w, v) ==
  Members(v) /\ v.page = w.page /\ v.did = w.did /\ v.launcher = w.launcher /\ Redrawn(w, v)

LEMMA CollectedStays ==
  ASSUME NEW w, Members(w), NEW v \in Collected(w)
  PROVE  Like(w, v) /\ Stays(w, v) /\ v.drawn = w.drawn /\ v.focus = w.focus
<1>1. Like(w, v) /\ v.drawn = w.drawn /\ v.focus = w.focus
  BY DEF Collected, Like, Members, Fields
<1> QED
  BY <1>1, LikeIsGood DEF Like, Stays, Redrawn

LEMMA OpenPackageStays ==
  ASSUME NEW w, Members(w), w.page = "GameInstall", NEW v \in OpenPackage(w)
  PROVE  Stays(w, v) /\ v.drawn = w.drawn
<1>1. CASE v = [w EXCEPT !.hand = "owes", !.screen = "Confirm"]
  BY <1>1 DEF Stays, Members, Fields, Screens, Redrawn
<1>2. CASE v = [w EXCEPT !.hand = "over", !.screen = "Result"]
  BY <1>2 DEF Stays, Members, Fields, Screens, Redrawn
<1>3. CASE v = [w EXCEPT !.hand = None, !.screen = "Result"]
  BY <1>3 DEF Stays, Members, Fields, Screens, None, Redrawn
<1>4. CASE v = [w EXCEPT !.hand = None, !.screen = w.origin]
  BY <1>4 DEF Stays, Members, Fields, Screens, None, Redrawn
<1> QED
  BY <1>1, <1>2, <1>3, <1>4 DEF OpenPackage

(* The members a package in hand is opened from, in their own words.         *)
LEMMA PackageForgotten ==
  ASSUME NEW w, Members(w), NEW o \in Screens
  PROVE  /\ LET v == [w EXCEPT !.hand = None] IN Stays(w, v) /\ v.drawn = w.drawn
         /\ LET v == [w EXCEPT !.origin = o] IN Stays(w, v) /\ v.drawn = w.drawn
         /\ LET v == [w EXCEPT !.drives = FALSE, !.origin = o, !.hand = None]
            IN  Stays(w, v) /\ v.drawn = w.drawn
BY DEF Stays, Members, Fields, None, Redrawn

LEMMA PickStays ==
  ASSUME NEW w, Members(w), w.page = "GameInstall", NEW v \in PickFocusedFile(w) \cup StartDownload(w)
  PROVE  Stays(w, v) /\ v.drawn = w.drawn
<1>1. CASE v = w
  BY <1>1 DEF Stays, Redrawn
<1>2. ASSUME NEW o \in {"Files", "Url"},
             v \in OpenPackage([w EXCEPT !.drives = FALSE, !.origin = o, !.hand = None])
      PROVE  Stays(w, v) /\ v.drawn = w.drawn
  <2> DEFINE u == [w EXCEPT !.drives = FALSE, !.origin = o, !.hand = None]
  <2>1. Stays(w, u) /\ u.drawn = w.drawn
    BY PackageForgotten DEF Screens
  <2>2. v \in OpenPackage(u)
    BY <1>2
  <2> HIDE DEF u
  <2> QED
    BY <2>1, <2>2, OpenPackageStays DEF Stays, Redrawn
<1> QED
  BY <1>1, <1>2 DEF PickFocusedFile, StartDownload

LEMMA TargetStays ==
  ASSUME NEW w, Members(w), NEW v \in SetInstallTarget(w)
  PROVE  Stays(w, v) /\ v.drawn = w.drawn
<1>1. CASE v = w
  BY <1>1 DEF Stays, Redrawn
<1>2. CASE v # w
  <2> DEFINE u == LeaveInstallScreen(w)
  <2>1. w.page = "GameInstall" /\ v \in OpenPackage(u) \cup {[u EXCEPT !.screen = "Upload"]}
    BY <1>2 DEF SetInstallTarget, TargetSelectable
  <2>2. Stays(w, u) /\ u.drawn = w.drawn
    BY PackageForgotten DEF LeaveInstallScreen, Screens
  <2> HIDE DEF u
  <2>3. CASE v \in OpenPackage(u)
    BY <2>1, <2>2, <2>3, OpenPackageStays DEF Stays, Redrawn
  <2>4. CASE v = [u EXCEPT !.screen = "Upload"]
    BY <2>2, <2>4 DEF Stays, Members, Fields, Screens, Redrawn
  <2> QED
    BY <2>1, <2>3, <2>4
<1> QED
  BY <1>1, <1>2

(* A transfer ends on the result screen, drawn.                              *)
LEMMA TransferStays ==
  ASSUME NEW w, Members(w), NEW v \in RunGameInstall(w)
  PROVE  Stays(w, v) /\ (v # w => v.drawn.page = w.page /\ Drawn(v.drawn))
<1>1. CASE v = w
  BY <1>1 DEF Stays, Redrawn
<1>2. CASE v # w
  <2> DEFINE u == [w EXCEPT !.screen = "Result", !.hand = "over"]
  <2>1. PICK c \in Collected(u) : v = Render(c)
    BY <1>2 DEF RunGameInstall
  <2>2. Stays(w, u)
    BY DEF Stays, Members, Fields, Screens, None, Redrawn
  <2> HIDE DEF u
  <2>3. Stays(u, c)
    BY <2>1, <2>2, CollectedStays DEF Stays, Redrawn
  <2>4. Like(c, v) /\ Members(v) /\ v.drawn.page = c.page /\ Drawn(v.drawn)
    BY <2>1, <2>3, Rendered DEF Stays, Redrawn
  <2> QED
    BY <2>2, <2>3, <2>4 DEF Stays, Like, Redrawn
<1> QED
  BY <1>1, <1>2

(* An unfinished install is resumed or given up.                             *)
LEMMA PendingStays ==
  ASSUME NEW w, Members(w),
         NEW v, \/ v \in ResumePendingInstall(w) /\ w.page = "GameInstall"
                \/ v \in AbandonPendingInstall(w)
  PROVE  Stays(w, v)
<1>1. ASSUME NEW s \in {"Choose", "Pending", "Upload"}, v = [w EXCEPT !.screen = s]
      PROVE  Stays(w, v)
  BY <1>1 DEF Stays, Members, Fields, Screens, Redrawn
<1>2. ASSUME NEW o \in {"Files", "Url"}, v \in OpenPackage([w EXCEPT !.origin = o]),
             w.page = "GameInstall"
      PROVE  Stays(w, v)
  <2> DEFINE u == [w EXCEPT !.origin = o]
  <2>1. Stays(w, u)
    BY PackageForgotten DEF Screens
  <2>2. v \in OpenPackage(u)
    BY <1>2
  <2> HIDE DEF u
  <2> QED
    BY <1>2, <2>1, <2>2, OpenPackageStays DEF Stays, Redrawn
<1> QED
  BY <1>1, <1>2 DEF ResumePendingInstall, AbandonPendingInstall

-----------------------------------------------------------------------------
(* Methods that turn the page.                                               *)

(* The focus goes to the language row or nowhere.                            *)
LEMMA ReseatedIsLike ==
  ASSUME NEW w, Members(w)
  PROVE  LET v == Reseated(w)
         IN  /\ Like(w, v) /\ Members(v) /\ v.drawn = w.drawn
             /\ v.focus \in {None, "Language"}
<1>1. FirstEnabled(w.drawn.actions) \in {None, "Language"}
  BY DEF FirstEnabled
<1>2. LET v == Reseated(w) IN Like(w, v) /\ v.drawn = w.drawn /\ v.focus \in {None, "Language"}
  BY <1>1, FocusSet DEF Reseated
<1> QED
  BY <1>2, LikeIsGood

Turns(w, v) == Members(v) /\ v.did = w.did /\ Redrawn(w, v)

(* A page that is not the installer's, where no package is in hand.          *)
LEMMA GoesTo ==
  ASSUME NEW w, Members(w), NEW p \in Pages, w.page # "GameInstall"
  PROVE  Turns(w, GoTo(w, p)) /\ Turns(w, [w EXCEPT !.page = p])
<1> DEFINE u == [w EXCEPT !.page = p]
<1>1. Turns(w, u)
  BY DEF Turns, Members, Fields, Redrawn
<1>2. GoTo(w, p) = Reseated(u)
  BY DEF GoTo
<1> HIDE DEF u
<1>3. Turns(w, GoTo(w, p))
  BY <1>1, <1>2, ReseatedIsLike DEF Turns, Like, Redrawn
<1> QED
  BY <1>1, <1>3 DEF u

LEMMA GuideToggles ==
  ASSUME NEW w, Members(w), w.page # "GameInstall"
  PROVE  Turns(w, ToggleGuide(w))
<1>1. CASE w.page = "Guide"
  BY <1>1, GoesTo DEF ToggleGuide, Members
<1>2. CASE w.page # "Guide"
  <2> DEFINE u == [w EXCEPT !.guideReturn = w.page, !.page = "Guide"]
  <2>1. Turns(w, u)
    BY <1>2 DEF Turns, Members, Fields, Pages, Redrawn
  <2>2. ToggleGuide(w) = Reseated(u)
    BY <1>2 DEF ToggleGuide
  <2> HIDE DEF u
  <2> QED
    BY <2>1, <2>2, ReseatedIsLike DEF Turns, Like, Redrawn
<1> QED
  BY <1>1, <1>2

LEMMA PeerSwitches ==
  ASSUME NEW w, Members(w), w.page # "GameInstall", NEW turn \in {-1, 1}
  PROVE  Turns(w, SwitchPeerPage(w, turn))
<1> DEFINE known == {i \in 1..3 : Peers[i] = w.page}
           current == IF known = {} THEN 0 ELSE (CHOOSE i \in known : TRUE) - 1
           target == Peers[CyclePeerTab(current, turn) + 1]
           u == [w EXCEPT !.page = target,
                          !.guideReturn = IF target = "Guide" THEN w.page ELSE w.guideReturn]
<1>1. current \in 0..2 /\ (w.page = "Guide" => current = 2)
  <2>1. CASE known = {}
    <3>1. Peers[3] = "Guide" /\ 3 \in 1..3
      BY DEF Peers
    <3>2. w.page # "Guide"
      BY <2>1, <3>1
    <3> QED
      BY <2>1, <3>2
  <2>2. CASE known # {}
    <3> DEFINE k == CHOOSE i \in known : TRUE
    <3>1. k \in known
      BY <2>2
    <3> HIDE DEF k
    <3>2. k \in 1..3 /\ Peers[k] = w.page
      BY <3>1
    <3>3. w.page = "Guide" => k = 3
      BY <3>2 DEF Peers
    <3>4. current = k - 1
      BY <2>2 DEF k
    <3> QED
      BY <3>2, <3>3, <3>4
  <2> QED
    BY <2>1, <2>2
<1> HIDE DEF current
<1>2. CyclePeerTab(current, turn) \in 0..2 /\ (current = 2 => CyclePeerTab(current, turn) # 2)
  BY <1>1 DEF CyclePeerTab
<1>3. target \in {"Home", "Details", "Guide"} /\ (w.page = "Guide" => target # "Guide")
  BY <1>1, <1>2 DEF Peers
<1>4. SwitchPeerPage(w, turn) = Reseated(u)
  BY DEF SwitchPeerPage, current
<1> HIDE DEF target
<1>5. Turns(w, u)
  BY <1>3 DEF Turns, Members, Fields, Pages, Redrawn
<1> HIDE DEF u
<1> QED
  BY <1>4, <1>5, ReseatedIsLike DEF Turns, Like, Redrawn

LEMMA InstallerOpens ==
  ASSUME NEW w, Members(w), NEW v \in OpenGameInstall(w)
  PROVE  Turns(w, v)
<1>1. CASE v = w
  BY <1>1 DEF Turns, Redrawn
<1>2. CASE v # w
  <2>1. PICK s \in {"Pending", "Choose"} :
          v = Reseated([w EXCEPT !.installReturn = w.page, !.page = "GameInstall", !.screen = s,
                                 !.origin = "Choose", !.launcher = FALSE])
    BY <1>2 DEF OpenGameInstall
  <2> DEFINE u == [w EXCEPT !.installReturn = w.page, !.page = "GameInstall", !.screen = s,
                            !.origin = "Choose", !.launcher = FALSE]
  <2>2. w.page # "GameInstall"
    BY <1>2 DEF OpenGameInstall
  <2>3. Turns(w, u)
    BY <2>2 DEF Turns, Members, Fields, Pages, Screens, Redrawn
  <2>4. v = Reseated(u)
    BY <2>1
  <2> HIDE DEF u
  <2> QED
    BY <2>3, <2>4, ReseatedIsLike DEF Turns, Like, Redrawn
<1> QED
  BY <1>1, <1>2

LEMMA InstallerLeaves ==
  ASSUME NEW w, Members(w)
  PROVE  LET v == LeaveGameInstall(w)
         IN  /\ Turns(w, v) /\ v.drawn = w.drawn /\ v.page = w.installReturn
BY DEF LeaveGameInstall, LeaveInstallScreen, Turns, Members, Fields, None, Redrawn

(* Back: out of the installer, or to a screen of it; a request of the web    *)
(* page leads out only when the tile's button led in.                        *)
LEMMA StepsBack ==
  ASSUME NEW w, Members(w)
  PROVE  LET v == InstallStepBack(w)
         IN  /\ Turns(w, v) /\ v.drawn = w.drawn
             /\ \/ v.page = w.page
                \/ v.focus \in {None, "Language"} /\ w.screen \in {"Confirm", "Result"}
                     /\ v.page = "Home"
                \/ w.screen = "Choose"
<1> DEFINE v == InstallStepBack(w)
<1>1. CASE w.screen \in {"Confirm", "Result"} /\ w.launcher
  <2> DEFINE u == LeaveGameInstall(w)
  <2>1. Turns(w, u) /\ u.drawn = w.drawn /\ u.page = "Home"
    BY <1>1, InstallerLeaves DEF Members
  <2>2. v = Reseated(u)
    BY <1>1 DEF InstallStepBack
  <2> HIDE DEF u, v
  <2>3. Like(u, v) /\ Members(v) /\ v.drawn = u.drawn /\ v.focus \in {None, "Language"}
    BY <2>1, <2>2, ReseatedIsLike DEF Turns, Redrawn
  <2> QED
    BY <1>1, <2>1, <2>3 DEF Turns, Like, v, Redrawn
<1>2. CASE \/ w.screen \in {"Confirm", "Result"} /\ ~w.launcher
           \/ w.screen \in {"Files", "Url", "Upload"}
  <2>1. PICK u \in {[LeaveInstallScreen(w) EXCEPT !.screen = w.origin], [w EXCEPT !.screen = "Choose"]} :
          v = Reseated(u)
    BY <1>2 DEF InstallStepBack
  <2>2. Stays(w, u) /\ u.drawn = w.drawn
    <3>1. CASE u = [LeaveInstallScreen(w) EXCEPT !.screen = w.origin]
      BY <3>1 DEF LeaveInstallScreen, Stays, Members, Fields, None, Redrawn
    <3>2. CASE u = [w EXCEPT !.screen = "Choose"]
      BY <3>2 DEF Stays, Members, Fields, Screens, Redrawn
    <3> QED
      BY <2>1, <3>1, <3>2
  <2> HIDE DEF v
  <2>3. Like(u, v) /\ Members(v) /\ v.drawn = u.drawn
    BY <2>1, <2>2, ReseatedIsLike DEF Stays, Redrawn
  <2> QED
    BY <2>2, <2>3 DEF Turns, Like, Stays, v, Redrawn
<1>3. CASE w.screen = "Choose"
  <2> DEFINE u == LeaveGameInstall(w)
  <2>1. Turns(w, u) /\ u.drawn = w.drawn
    BY InstallerLeaves
  <2>2. v = Reseated(u)
    BY <1>3 DEF InstallStepBack
  <2> HIDE DEF u, v
  <2>3. Like(u, v) /\ Members(v) /\ v.drawn = u.drawn
    BY <2>1, <2>2, ReseatedIsLike DEF Turns, Redrawn
  <2> QED
    BY <1>3, <2>1, <2>3 DEF Turns, Like, v, Redrawn
<1>4. CASE w.screen \notin {"Confirm", "Result", "Files", "Url", "Upload", "Choose"}
  BY <1>4 DEF InstallStepBack, Turns, Redrawn
<1> QED
  BY <1>1, <1>2, <1>3, <1>4

LEMMA StayingTurns == ASSUME NEW w, NEW v, Stays(w, v) PROVE Turns(w, v)
BY DEF Stays, Turns, Redrawn

LEMMA TurningFollows == ASSUME NEW w, NEW v, Turns(w, v) PROVE Follows(w, v)
BY DEF Follows, Turns, Redrawn

(* The flags of the workers and of the loop.                                 *)
LEMMA FlagSet ==
  ASSUME NEW w, Members(w), NEW x
  PROVE  /\ Turns(w, [w EXCEPT !.exit = x]) /\ Turns(w, [w EXCEPT !.checking = x])
         /\ Turns(w, [w EXCEPT !.loading = x]) /\ Turns(w, [w EXCEPT !.repair = x])
         /\ Turns(w, [w EXCEPT !.ready = x]) /\ Turns(w, [w EXCEPT !.offline = x])
         /\ \A y : Turns(w, [w EXCEPT !.repair = x, !.exit = y])
         /\ \A y : Turns(w, [w EXCEPT !.loading = x, !.ready = y])
<1>1. Turns(w, [w EXCEPT !.exit = x])
  BY DEF Turns, Members, Fields, Redrawn
<1>2. Turns(w, [w EXCEPT !.checking = x])
  BY DEF Turns, Members, Fields, Redrawn
<1>3. Turns(w, [w EXCEPT !.loading = x])
  BY DEF Turns, Members, Fields, Redrawn
<1>4. Turns(w, [w EXCEPT !.repair = x])
  BY DEF Turns, Members, Fields, Redrawn
<1>5. ASSUME NEW y PROVE Turns(w, [w EXCEPT !.repair = x, !.exit = y])
  BY DEF Turns, Members, Fields, Redrawn
<1>6. ASSUME NEW y PROVE Turns(w, [w EXCEPT !.loading = x, !.ready = y])
  BY DEF Turns, Members, Fields, Redrawn
<1>7. Turns(w, [w EXCEPT !.ready = x]) /\ Turns(w, [w EXCEPT !.offline = x])
  BY DEF Turns, Members, Fields, Redrawn
<1> QED
  BY <1>1, <1>2, <1>3, <1>4, <1>5, <1>6, <1>7

LEMMA ScreenSet ==
  ASSUME NEW w, Members(w), NEW s \in Screens
  PROVE  /\ Turns(w, [w EXCEPT !.screen = s])
         /\ \A o \in Screens : Turns(w, [w EXCEPT !.screen = s, !.origin = o])
<1>1. Turns(w, [w EXCEPT !.screen = s])
  BY DEF Turns, Members, Fields, Redrawn
<1>2. ASSUME NEW o \in Screens PROVE Turns(w, [w EXCEPT !.screen = s, !.origin = o])
  BY DEF Turns, Members, Fields, Redrawn
<1> QED
  BY <1>1, <1>2

(* The source screens, entered with or without a network.                    *)
LEMMA NetworkTurns ==
  ASSUME NEW w, Members(w), NEW s \in Screens,
         NEW v, v \in RefreshNetworkState([w EXCEPT !.screen = s, !.origin = s])
                  \cup RefreshNetworkState(w)
  PROVE  Turns(w, v)
<1> DEFINE u == [w EXCEPT !.screen = s, !.origin = s]
<1>1. Turns(w, u) /\ u.page = w.page
  BY ScreenSet DEF Members, Fields
<1>2. v \in RefreshNetworkState(u) \cup RefreshNetworkState(w)
  OBVIOUS
<1> HIDE DEF u
<1>3. CASE v \in RefreshNetworkState(w)
  <2>1. PICK o : v = [w EXCEPT !.offline = o]
    BY <1>3 DEF RefreshNetworkState
  <2> QED
    BY <2>1, FlagSet
<1>4. CASE v \in RefreshNetworkState(u)
  <2>1. Members(u)
    BY <1>1 DEF Turns
  <2>2. Turns(u, v)
    <3>1. PICK o : v = [u EXCEPT !.offline = o]
      BY <1>4 DEF RefreshNetworkState
    <3> QED
      BY <2>1, <3>1, FlagSet
  <2> QED
    BY <1>1, <2>2 DEF Turns, Redrawn
<1> QED
  BY <1>2, <1>3, <1>4

LEMMA TileTurns ==
  ASSUME NEW w, Members(w), w.page = "Home", NEW v \in ForwarderTile(w)
  PROVE  Turns(w, v)
<1> DEFINE opened == [w EXCEPT !.installReturn = w.page, !.page = "GameInstall",
                               !.screen = "Result", !.launcher = TRUE]
           tried == [opened EXCEPT !.origin = "Choose", !.drives = FALSE]
<1>1. Turns(w, opened)
  BY DEF Turns, Members, Fields, Pages, Screens, Redrawn
<1>2. \A h \in {None, "owes", "over"} : Turns(w, [tried EXCEPT !.hand = h])
  <2> HIDE DEF opened
  <2>0. opened.page = "GameInstall"
    BY DEF opened, Members, Fields
  <2>1. Turns(w, tried) /\ tried.page = "GameInstall"
    BY <1>1, <2>0 DEF Turns, Members, Fields, Screens, Redrawn
  <2> HIDE DEF tried
  <2> QED
    BY <2>1 DEF Turns, Members, Fields, Redrawn
<1>3. CASE \E c \in Collected(w) : v = Reseated([c EXCEPT !.page = "Result"])
  <2>1. PICK c \in Collected(w) : v = Reseated([c EXCEPT !.page = "Result"])
    BY <1>3
  <2>2. Stays(w, c)
    BY CollectedStays
  <2> DEFINE u == [c EXCEPT !.page = "Result"]
  <2>a. Members(c) /\ c.page = "Home" /\ c.did = w.did
    BY <2>2 DEF Stays
  <2>b. Turns(c, u) /\ u.page = "Result"
    BY <2>a, GoesTo DEF Pages, Members, Fields
  <2>3. Turns(w, u)
    BY <2>a, <2>b DEF Turns, Redrawn
  <2>4. v = Reseated(u)
    BY <2>1
  <2> HIDE DEF u
  <2> QED
    BY <2>3, <2>4, ReseatedIsLike DEF Turns, Like, Redrawn
<1>4. CASE v \in {opened, [tried EXCEPT !.hand = None], [tried EXCEPT !.hand = "over"]}
  <2> HIDE DEF opened, tried
  <2> QED
    BY <1>1, <1>2, <1>4
<1>5. CASE v \in RunGameInstall([tried EXCEPT !.hand = "owes"])
  <2> DEFINE u == [tried EXCEPT !.hand = "owes"]
  <2>1. Turns(w, u) /\ u.page = "GameInstall"
    BY <1>2 DEF Members, Fields
  <2>2. v \in RunGameInstall(u)
    BY <1>5
  <2> HIDE DEF u
  <2> QED
    BY <2>1, <2>2, TransferStays DEF Turns, Stays, Redrawn
<1>6. \/ \E c \in Collected(w) : v = Reseated([c EXCEPT !.page = "Result"])
      \/ v \in {opened, [tried EXCEPT !.hand = None], [tried EXCEPT !.hand = "over"]}
      \/ v \in RunGameInstall([tried EXCEPT !.hand = "owes"])
  BY DEF ForwarderTile
<1> QED
  BY <1>3, <1>4, <1>5, <1>6

-----------------------------------------------------------------------------
(* The two pages that ask first.                                             *)

LEMMA ToldOnItsPage ==
  ASSUME NEW w, Members(w), NEW did, did \in {"Install", "Uninstall"},
         NEW told, told = Render([w EXCEPT !.page = "Progress", !.did = did]),
         w.page # "GameInstall",
         NEW c \in Collected(told) \cup {told}
  PROVE  LET v == [c EXCEPT !.page = "Result"] IN Members(v) /\ v.did = did
<1> DEFINE u == [w EXCEPT !.page = "Progress", !.did = did]
<1>1. Members(u) /\ u.did = did /\ u.page = "Progress"
  BY DEF Members, Fields, Pages
<1>2. told = Render(u)
  OBVIOUS
<1> HIDE DEF u
<1>3. Members(told) /\ told.did = did /\ told.page = "Progress"
  BY <1>1, <1>2, Rendered DEF Like
<1>4. Members(c) /\ c.did = did /\ c.page = "Progress"
  BY <1>3, CollectedStays DEF Stays, Redrawn
<1> QED
  BY <1>4, GoesTo DEF Turns, Pages

LEMMA InstallFollows ==
  ASSUME NEW w, Members(w), w.page = "Install", NEW v \in RunInstall(w)
  PROVE  Follows(w, v)
<1> DEFINE told == Render([w EXCEPT !.page = "Progress", !.did = "Install"])
<1>1. CASE v = [w EXCEPT !.page = "Result"]
  BY <1>1, GoesTo, TurningFollows DEF Pages
<1>2. ASSUME NEW c \in Collected(told) \cup {told}, v = [c EXCEPT !.page = "Result"]
      PROVE  Follows(w, v)
  <2>a. Members(v) /\ v.did = "Install"
    BY <1>2, ToldOnItsPage
  <2>1. Members(v) /\ v.did = "Install" /\ v.page = "Result"
    <3> HIDE DEF told
    <3> QED
      BY <1>2, <2>a DEF Members, Fields
  <2> QED
    BY <2>1 DEF Follows, Redrawn
<1>3. v = [w EXCEPT !.page = "Result"]
        \/ \E c \in Collected(told) \cup {told} : v = [c EXCEPT !.page = "Result"]
  BY DEF RunInstall
<1> QED
  BY <1>1, <1>2, <1>3

LEMMA UninstallFollows ==
  ASSUME NEW w, Members(w), w.page = "Uninstall", NEW v \in RunUninstall(w)
  PROVE  Follows(w, v)
<1> DEFINE told == Render([w EXCEPT !.page = "Progress", !.did = "Uninstall"])
<1>1. PICK c \in Collected(told) \cup {told} : v = [c EXCEPT !.page = "Result"]
  BY DEF RunUninstall
<1>a. Members(v) /\ v.did = "Uninstall"
  BY <1>1, ToldOnItsPage
<1>2. Members(v) /\ v.did = "Uninstall" /\ v.page = "Result"
  <2> HIDE DEF told
  <2> QED
    BY <1>1, <1>a DEF Members, Fields
<1> QED
  BY <1>2 DEF Follows, Redrawn

LEMMA PrimaryFollows ==
  ASSUME NEW w, Members(w), w.page # "GameInstall", NEW v \in ActivatePrimary(w)
  PROVE  Follows(w, v)
<1>1. CASE w.page = "Install"
  BY <1>1, InstallFollows DEF ActivatePrimary
<1>2. CASE w.page = "Uninstall"
  BY <1>2, UninstallFollows DEF ActivatePrimary
<1>3. CASE w.page = "Result"
  <2>1. PICK c \in Collected(w) : v = GoTo(c, "Home")
    BY <1>3 DEF ActivatePrimary
  <2>2. Stays(w, c)
    BY CollectedStays
  <2>3. Turns(c, v)
    BY <2>1, <2>2, GoesTo DEF Stays, Pages, Redrawn
  <2> QED
    BY <2>2, <2>3, TurningFollows DEF Stays, Turns, Redrawn
<1>4. CASE w.page \notin {"Install", "Uninstall", "Result"}
  <2>1. CASE v \in Collected(w)
    BY <2>1, CollectedStays, StayingTurns, TurningFollows
  <2>2. CASE v \in OpenGameInstall(w)
    BY <2>2, InstallerOpens, TurningFollows
  <2>3. CASE v = [w EXCEPT !.page = "Install"]
    BY <2>3, GoesTo, TurningFollows DEF Pages
  <2> QED
    BY <1>4, <2>1, <2>2, <2>3 DEF ActivatePrimary
<1> QED
  BY <1>1, <1>2, <1>3, <1>4

LEMMA UpdateTurns ==
  ASSUME NEW w, Members(w), w.page = "UpdateCenter",
         NEW id \in {"UpdateAgent", "UpdateManager", "Recheck", "Restart"},
         NEW v \in UpdateAction(w, id)
  PROVE  Turns(w, v)
<1>1. CASE v = w
  BY <1>1 DEF Turns, Redrawn
<1>2. CASE v # w
  <2>1. \/ v = GoTo(w, "Install") \/ v = [w EXCEPT !.loading = TRUE]
        \/ v = [w EXCEPT !.loading = TRUE, !.ready = "restart"]
        \/ v = [w EXCEPT !.ready = "restart"] \/ v = [w EXCEPT !.ready = "manual"]
        \/ v = [w EXCEPT !.checking = TRUE] \/ v = [w EXCEPT !.exit = TRUE]
    <3>1. CASE id = "UpdateAgent"
      BY <1>2, <3>1 DEF UpdateAction
    <3>2. CASE id = "UpdateManager"
      <4>1. v \in StartManagerUpdate(w)
        BY <3>2 DEF UpdateAction
      <4> QED
        BY <1>2, <4>1 DEF StartManagerUpdate
    <3>3. CASE id = "Recheck"
      BY <1>2, <3>3 DEF UpdateAction, StartUpdateCheck
    <3>4. CASE id = "Restart"
      BY <1>2, <3>4 DEF UpdateAction, RequestManagerRestart
    <3> QED
      BY <3>1, <3>2, <3>3, <3>4
  <2> QED
    <3>1. w.page # "GameInstall" /\ "Install" \in Pages
      BY DEF Pages
    <3>2. CASE v = GoTo(w, "Install")
      BY <3>1, <3>2, GoesTo
    <3>3. CASE v = [w EXCEPT !.loading = TRUE]
      BY <3>3, FlagSet
    <3>6. CASE v = [w EXCEPT !.loading = TRUE, !.ready = "restart"]
      BY <3>6, FlagSet
    <3>7. CASE v = [w EXCEPT !.ready = "restart"]
      BY <3>7, FlagSet
    <3>8. CASE v = [w EXCEPT !.ready = "manual"]
      BY <3>8, FlagSet
    <3>4. CASE v = [w EXCEPT !.checking = TRUE]
      BY <3>4, FlagSet
    <3>5. CASE v = [w EXCEPT !.exit = TRUE]
      BY <3>5, FlagSet
    <3> QED
      BY <2>1, <3>2, <3>3, <3>4, <3>5, <3>6, <3>7, <3>8
<1> QED
  BY <1>1, <1>2

LEMMA CenterEntered ==
  ASSUME NEW w, Members(w), w.page # "GameInstall", NEW v \in EnterUpdateCenter(w)
  PROVE  Turns(w, v)
<1> DEFINE entered == [w EXCEPT !.page = "UpdateCenter", !.focus = None]
<1>1. Turns(w, entered) /\ entered.drawn = w.drawn
  BY DEF Turns, Members, Fields, Pages, Redrawn
<1>2. v = entered \/ v = [entered EXCEPT !.checking = TRUE]
  BY DEF EnterUpdateCenter, StartUpdateCheck
<1> HIDE DEF entered
<1>3. CASE v = entered
  BY <1>1, <1>3
<1>4. CASE v = [entered EXCEPT !.checking = TRUE]
  <2>1. Members(entered) /\ entered.did = w.did
    BY <1>1 DEF Turns, Redrawn
  <2>2. Turns(entered, v)
    BY <1>4, <2>1, FlagSet
  <2>3. v.drawn = entered.drawn
    BY <1>4, <2>1 DEF Members, Fields
  <2> QED
    BY <1>1, <2>1, <2>2, <2>3 DEF Turns, Redrawn
<1> QED
  BY <1>2, <1>3, <1>4

LEMMA RepairTurns ==
  ASSUME NEW w, Members(w), NEW v \in RepairStartup(w)
  PROVE  Turns(w, v)
<1>1. CASE v = w
  BY <1>1 DEF Turns, Redrawn
<1>2. CASE v = [w EXCEPT !.repair = "done"]
  BY <1>2, FlagSet
<1>3. CASE v = [w EXCEPT !.repair = "done", !.exit = TRUE]
  BY <1>3, FlagSet
<1> QED
  BY <1>1, <1>2, <1>3 DEF RepairStartup

(* A control, wherever it was drawn, does no more than its page asks for.    *)
LEMMA ControlsFollow ==
  ASSUME NEW w, Members(w), NEW id, Answers(w.page, id), NEW v \in ActivateAction(w, id)
  PROVE  Follows(w, v)
<1>1. CASE w.page = "StartupCheck"
  <2>1. CASE v \in RepairStartup(w)
    BY <2>1, RepairTurns, TurningFollows
  <2>2. CASE v = [w EXCEPT !.exit = TRUE]
    BY <2>2, FlagSet, TurningFollows
  <2>3. CASE v = w
    BY <2>3 DEF Follows, Redrawn
  <2>4. ActivateAction(w, id) = StartupAction(w, id)
    BY <1>1 DEF ActivateAction
  <2> QED
    BY <2>1, <2>2, <2>3, <2>4 DEF StartupAction
<1>2. CASE w.page # "StartupCheck"
  <2>1. CASE id = "Primary"
    <3>1. v \in ActivatePrimary(w) /\ w.page # "GameInstall"
      BY <1>2, <2>1 DEF ActivateAction, Answers
    <3> QED
      BY <3>1, PrimaryFollows
  <2>2. CASE id \in {"Back", "TabGuide", "TabStatus", "TabDetails", "FooterBack", "CheckUpdate"}
    <3>1. w.page # "GameInstall" /\ {"Home", "Details", "Guide"} \subseteq Pages
      BY <2>2 DEF Answers, Pages
    <3>2. \/ v \in EnterUpdateCenter(w)
          \/ v = ToggleGuide(w)
          \/ v = w
          \/ v = [w EXCEPT !.exit = TRUE]
          \/ v = GoTo(w, "Home") \/ v = GoTo(w, "Details")
          \/ v = [w EXCEPT !.page = "Home"]
      BY <1>2, <2>2 DEF ActivateAction
    <3>3. CASE v \in EnterUpdateCenter(w)
      BY <3>1, <3>3, CenterEntered, TurningFollows
    <3>4. CASE v = ToggleGuide(w)
      BY <3>1, <3>4, GuideToggles, TurningFollows
    <3>5. CASE v = w
      BY <3>5 DEF Follows, Redrawn
    <3>6. CASE v = [w EXCEPT !.exit = TRUE]
      BY <3>6, FlagSet, TurningFollows
    <3>7. CASE v = GoTo(w, "Home") \/ v = GoTo(w, "Details")
      BY <3>1, <3>7, GoesTo, TurningFollows
    <3>8. CASE v = [w EXCEPT !.page = "Home"]
      BY <3>1, <3>8, GoesTo, TurningFollows
    <3> QED
      BY <3>2, <3>3, <3>4, <3>5, <3>6, <3>7, <3>8
  <2>3. CASE id \in {"UpdateAgent", "UpdateManager", "Recheck", "Restart"}
    <3>1. v = w \/ (w.page = "UpdateCenter" /\ v \in UpdateAction(w, id))
      BY <1>2, <2>3 DEF ActivateAction
    <3>2. CASE v = w
      BY <3>2 DEF Follows, Redrawn
    <3>3. CASE w.page = "UpdateCenter" /\ v \in UpdateAction(w, id)
      BY <2>3, <3>3, UpdateTurns, TurningFollows
    <3> QED
      BY <3>1, <3>2, <3>3
  <2>4. CASE id = "Forwarder"
    <3>1. w.page = "Home" /\ v \in ForwarderTile(w)
      BY <1>2, <2>4 DEF ActivateAction, Answers
    <3> QED
      BY <3>1, TileTurns, TurningFollows
  <2>5. CASE id = "Uninstall"
    <3>1. v = w \/ (w.page = "Home" /\ v = [w EXCEPT !.page = "Uninstall"])
      BY <1>2, <2>5 DEF ActivateAction
    <3>2. CASE v = w
      BY <3>2 DEF Follows, Redrawn
    <3>3. CASE w.page = "Home" /\ v = [w EXCEPT !.page = "Uninstall"]
      BY <3>3, GoesTo, TurningFollows DEF Pages
    <3> QED
      BY <3>1, <3>2, <3>3
  <2>6. CASE id \in {"OpenInstall", "Start", "InstallBack", "TargetSd", "TargetNand"}
    <3>1. \/ v \in OpenGameInstall(w)
          \/ v \in RunGameInstall(w)
          \/ v = InstallStepBack(w)
          \/ v \in SetInstallTarget(w)
      BY <1>2, <2>6 DEF ActivateAction
    <3>2. CASE v \in OpenGameInstall(w)
      BY <3>2, InstallerOpens, TurningFollows
    <3>3. CASE v \in RunGameInstall(w)
      BY <3>3, TransferStays, StayingTurns, TurningFollows
    <3>4. CASE v = InstallStepBack(w)
      BY <3>4, StepsBack, TurningFollows
    <3>5. CASE v \in SetInstallTarget(w)
      BY <3>5, TargetStays, StayingTurns, TurningFollows
    <3> QED
      BY <3>1, <3>2, <3>3, <3>4, <3>5
  <2>7. CASE id \in {"Local", "Download", "FromPage", "PickNew", "InstallRecheck"}
    <3>1. \/ \E s \in {"Files", "Choose"} : v = [w EXCEPT !.screen = s]
          \/ \E s \in {"Url", "Upload"} :
               v \in RefreshNetworkState([w EXCEPT !.screen = s, !.origin = s])
          \/ v \in RefreshNetworkState(w)
      BY <1>2, <2>7 DEF ActivateAction
    <3>2. {"Files", "Choose", "Url", "Upload"} \subseteq Screens
      BY DEF Screens
    <3>3. CASE \E s \in {"Files", "Choose"} : v = [w EXCEPT !.screen = s]
      <4>1. PICK s \in Screens : v = [w EXCEPT !.screen = s]
        BY <3>2, <3>3
      <4> QED
        BY <4>1, ScreenSet, TurningFollows
    <3>4. CASE \/ \E s \in {"Url", "Upload"} :
                    v \in RefreshNetworkState([w EXCEPT !.screen = s, !.origin = s])
               \/ v \in RefreshNetworkState(w)
      <4>1. PICK s \in Screens :
              v \in RefreshNetworkState([w EXCEPT !.screen = s, !.origin = s])
                \cup RefreshNetworkState(w)
        BY <3>2, <3>4
      <4> QED
        BY <4>1, NetworkTurns, TurningFollows
    <3> QED
      BY <3>1, <3>3, <3>4
  <2>8. CASE id \in {"PickRow", "TypeUrl", "Resume"}
    <3>1. w.page = "GameInstall"
      BY <2>8 DEF Answers
    <3>2. \/ v \in PickFocusedFile(w) \cup StartDownload(w)
          \/ v \in ResumePendingInstall(w)
      BY <1>2, <2>8 DEF ActivateAction
    <3> QED
      BY <3>1, <3>2, PickStays, PendingStays, StayingTurns, TurningFollows
  <2>9. CASE id = "Abandon"
    <3>1. v \in AbandonPendingInstall(w)
      BY <1>2, <2>9 DEF ActivateAction
    <3> QED
      BY <3>1, PendingStays, StayingTurns, TurningFollows
  <2>10. CASE id \notin {"Primary", "Back", "TabGuide", "TabStatus", "TabDetails", "FooterBack",
                        "CheckUpdate", "UpdateAgent", "UpdateManager", "Recheck", "Restart",
                        "Forwarder", "Uninstall", "OpenInstall", "Start", "InstallBack",
                        "TargetSd", "TargetNand", "Local", "Download", "FromPage", "PickNew",
                        "PickRow", "TypeUrl", "Resume", "Abandon", "InstallRecheck"}
    <3>1. v = w
      BY <1>2, <2>10 DEF ActivateAction
    <3> QED
      BY <3>1 DEF Follows, Redrawn
  <2> QED
    BY <2>1, <2>2, <2>3, <2>4, <2>5, <2>6, <2>7, <2>8, <2>9, <2>10
<1> QED
  BY <1>1, <1>2

LEMMA PermittedAnswers ==
  ASSUME NEW page, NEW screen, NEW id, Permitted(page, screen, id)
  PROVE  Answers(page, id)
BY DEF Permitted, Answers

-----------------------------------------------------------------------------
(* Keys.                                                                     *)

LEMMA StartupKeyTurns ==
  ASSUME NEW w, Members(w), NEW key, NEW v \in StartupKey(w, key)
  PROVE  Turns(w, v)
<1>1. CASE v = w
  BY <1>1 DEF Turns, Redrawn
<1>2. CASE v = [w EXCEPT !.exit = TRUE]
  BY <1>2, FlagSet
<1>3. CASE v \in RepairStartup(w)
  BY <1>3, RepairTurns
<1> QED
  BY <1>1, <1>2, <1>3 DEF StartupKey

LEMMA InstallerKeyFollows ==
  ASSUME NEW w, Members(w), w.page = "GameInstall", NEW key, NEW v \in InstallerKey(w, key)
  PROVE  Follows(w, v)
<1>1. CASE v \in SetInstallTarget(w)
  BY <1>1, TargetStays, StayingTurns, TurningFollows
<1>2. CASE v = InstallStepBack(w)
  BY <1>2, StepsBack, TurningFollows
<1>3. CASE v \in ActivateAction(w, ScreenKey(w, key))
  <2>1. ScreenKey(w, key) \in {"Resume", "Abandon", "PickNew", "Start", "TypeUrl", "PickRow",
                                     "Local", "Download", "FromPage", "InstallRecheck", None}
    BY DEF ScreenKey
  <2>2. Answers(w.page, ScreenKey(w, key))
    BY <2>1 DEF Answers, None
  <2> QED
    BY <1>3, <2>2, ControlsFollow
<1> QED
  BY <1>1, <1>2, <1>3 DEF InstallerKey

LEMMA BackTurns ==
  ASSUME NEW w, Members(w), w.page # "GameInstall"
  PROVE  Turns(w, Back(w))
<1>1. w.guideReturn \in Pages /\ "Home" \in Pages
  BY DEF Members, Pages
<1>2. CASE w.page = "Home"
  BY <1>2, FlagSet DEF Back
<1>3. CASE w.page # "Home"
  <2>1. Back(w) = GoTo(w, w.guideReturn) \/ Back(w) = GoTo(w, "Home")
    BY <1>3 DEF Back
  <2> QED
    BY <1>1, <2>1, GoesTo
<1> QED
  BY <1>2, <1>3

(* The sticks and the arrows choose another control, and nothing else.       *)
LEMMA FocusMoves ==
  ASSUME NEW w, Members(w), NEW direction
  PROVE  LET v == MoveFocus(w, direction) IN Like(w, v) /\ Members(v) /\ v.drawn = w.drawn
<1> DEFINE v == MoveFocus(w, direction)
<1>1. CASE v = w
  BY <1>1 DEF Like, Members
<1>2. CASE w.page = "Home"
  <2> DEFINE actions == OnlyHome(w.drawn.actions)
             next == IF actions = <<>> THEN None ELSE Cycle(actions, w.focus, direction)
             id == IF w.focus = None THEN DefaultHomeFocus(actions)
                   ELSE IF next = None THEN w.focus ELSE next
  <2>1. v = [w EXCEPT !.focus = id]
    BY <1>2 DEF MoveFocus, MoveHomeFocus
  <2> HIDE DEF id, v
  <2>2. Like(w, v) /\ v.drawn = w.drawn
    BY <2>1, FocusSet
  <2> QED
    BY <2>2, LikeIsGood DEF v
<1>3. CASE w.page = "UpdateCenter"
  <2>1. \E id : v = [w EXCEPT !.focus = id]
    BY <1>3 DEF MoveFocus, MoveUpdateCenterFocus
  <2>2. PICK id : v = [w EXCEPT !.focus = id]
    BY <2>1
  <2> HIDE DEF v
  <2>3. Like(w, v) /\ v.drawn = w.drawn
    BY <2>2, FocusSet
  <2> QED
    BY <2>3, LikeIsGood DEF v
<1> QED
  BY <1>1, <1>2, <1>3 DEF MoveFocus

LEMMA PageKeyFollows ==
  ASSUME NEW w, Members(w), FocusFits(w), w.page # "GameInstall", NEW key, NEW v \in PageKey(w, key)
  PROVE  Follows(w, v)
<1>1. CASE v = MoveFocus(w, HomeDirection(key))
  <2>1. Turns(w, v)
    BY <1>1, FocusMoves DEF Like, Turns, Redrawn
  <2> QED
    BY <2>1, TurningFollows
<1>2. CASE w.page \in {"Home", "UpdateCenter"} /\ v \in ActivateAction(w, w.focus)
  <2>1. Answers(w.page, w.focus)
    BY <1>2, PermittedAnswers DEF FocusFits
  <2> QED
    BY <1>2, <2>1, ControlsFollow
<1>3. CASE v \in ActivateAction(w, "Recheck") \cup ActivateAction(w, "Primary")
  <2>1. Answers(w.page, "Recheck") /\ Answers(w.page, "Primary")
    BY DEF Answers
  <2> QED
    BY <1>3, <2>1, ControlsFollow
<1>4. CASE v = w
  BY <1>4 DEF Follows, Redrawn
<1>5. CASE v \in Collected(w)
  BY <1>5, CollectedStays, StayingTurns, TurningFollows
<1> QED
  BY <1>1, <1>2, <1>3, <1>4, <1>5 DEF PageKey

LEMMA KeysFollow ==
  ASSUME NEW w, Members(w), FocusFits(w), NEW key, NEW v \in HandleKeys(w, key)
  PROVE  Follows(w, v)
<1>1. CASE v = w
  BY <1>1 DEF Follows, Redrawn
<1>2. CASE v \in StartupKey(w, key)
  BY <1>2, StartupKeyTurns, TurningFollows
<1>3. CASE w.page = "GameInstall" /\ v \in InstallerKey(w, key)
  BY <1>3, InstallerKeyFollows
<1>4. CASE w.page # "GameInstall" /\ v \in CommonKey(w, key)
  <2>1. CASE v = SwitchPeerPage(w, -1) \/ v = SwitchPeerPage(w, 1)
    BY <1>4, <2>1, PeerSwitches, TurningFollows
  <2>2. CASE v = Back(w)
    BY <1>4, <2>2, BackTurns, TurningFollows
  <2>3. CASE v \in OpenGameInstall(w)
    BY <2>3, InstallerOpens, TurningFollows
  <2>4. CASE v = ToggleGuide(w)
    BY <1>4, <2>4, GuideToggles, TurningFollows
  <2>5. CASE v \in PageKey(w, key)
    BY <1>4, <2>5, PageKeyFollows
  <2> QED
    BY <1>4, <2>1, <2>2, <2>3, <2>4, <2>5 DEF CommonKey
<1> QED
  BY <1>1, <1>2, <1>3, <1>4 DEF HandleKeys

-----------------------------------------------------------------------------
(* The frame.                                                                *)

LEMMA InitEstablishes == Init => IInv
<1> SUFFICES ASSUME Init PROVE IInv
  OBVIOUS
<1>1. PICK page \in StartPages, f \in Facts, repair \in {"offered", "none"} :
        app = Render([page |-> page, guideReturn |-> "Home", installReturn |-> "Home",
                     screen |-> "Choose", origin |-> "Choose", hand |-> None,
                     launcher |-> FALSE, drives |-> FALSE, focus |-> None, fresh |-> TRUE,
                     kind |-> f.kind, have |-> f.have, newer |-> f.newer, repair |-> repair,
                     checking |-> FALSE, loading |-> FALSE, offer |-> FALSE, ready |-> "no",
                     offline |-> FALSE, exit |-> FALSE, did |-> None,
                     drawn |-> [page |-> page, screen |-> "Choose", actions |-> <<>>]])
  BY DEF Init
<1> DEFINE w == [page |-> page, guideReturn |-> "Home", installReturn |-> "Home",
                 screen |-> "Choose", origin |-> "Choose", hand |-> None,
                 launcher |-> FALSE, drives |-> FALSE, focus |-> None, fresh |-> TRUE,
                 kind |-> f.kind, have |-> f.have, newer |-> f.newer, repair |-> repair,
                 checking |-> FALSE, loading |-> FALSE, offer |-> FALSE, ready |-> "no",
                 offline |-> FALSE, exit |-> FALSE, did |-> None,
                 drawn |-> [page |-> page, screen |-> "Choose", actions |-> <<>>]]
<1>2. page \in Pages
  BY StartPagesAssumption DEF Pages
<1>3. DOMAIN w = Fields
  BY DEF Fields
<1>4. Members(w) /\ w.did = None
  BY <1>2, <1>3 DEF Members, Pages, Screens, None
<1>5. app = Render(w)
  BY <1>1
<1> HIDE DEF w
<1>6. Like(w, app) /\ Members(app) /\ app.drawn.page = w.page /\ app.drawn.screen = w.screen
        /\ Drawn(app.drawn) /\ FocusFits(app)
  BY <1>4, <1>5, Rendered
<1>7. app.page = app.drawn.page /\ app.screen = app.drawn.screen /\ app.did = None
  BY <1>4, <1>6 DEF Like
<1> QED
  BY <1>6, <1>7 DEF IInv, BeforeCrossing, Unpressed, Init

(* What another thread ends leaves the page, its focus and its drawing.      *)
LEMMA WorkersEnd ==
  ASSUME NEW w, Members(w), NEW v \in CheckEnds(w) \cup DownloadEnds(w)
  PROVE  Like(w, v) /\ v.drawn = w.drawn /\ v.focus = w.focus
<1>1. CASE v \in CheckEnds(w)
  <2>1. PICK c \in Collected(w), o \in BOOLEAN : v = [c EXCEPT !.checking = FALSE, !.offer = o]
    BY <1>1 DEF CheckEnds
  <2>2. Like(w, c) /\ Members(c) /\ c.drawn = w.drawn /\ c.focus = w.focus
    BY CollectedStays DEF Stays, Redrawn
  <2>3. Like(c, v) /\ v.drawn = c.drawn /\ v.focus = c.focus
    BY <2>1, <2>2 DEF Like, Members, Fields
  <2> QED
    BY <2>2, <2>3 DEF Like
<1>2. CASE v = [w EXCEPT !.loading = FALSE]
  BY <1>2 DEF Like, Members, Fields
<1>3. CASE \E x : v = [w EXCEPT !.loading = FALSE, !.ready = x, !.offer = FALSE]
  BY <1>3 DEF Like, Members, Fields
<1> QED
  BY <1>1, <1>2, <1>3 DEF DownloadEnds

(* A request of the web page stays on the installer's page, or leads home    *)
(* from the tile's install.                                                  *)
LEMMA RequestsStay ==
  ASSUME NEW w, Members(w), w.page = "GameInstall", Drawn(w.drawn),
         w.drawn.page = w.page, w.drawn.screen = w.screen,
         NEW v \in Requested(w)
  PROVE  /\ Members(v) /\ v.did = w.did /\ Drawn(v.drawn) /\ FocusFits(v)
         /\ v.page = v.drawn.page \/ SentHome(v)
<1>1. ASSUME Members(v), v.did = w.did, v.page = w.page, v.drawn = w.drawn
      PROVE  /\ Members(v) /\ v.did = w.did /\ Drawn(v.drawn) /\ FocusFits(v)
             /\ v.page = v.drawn.page \/ SentHome(v)
  BY <1>1 DEF FocusFits
<1>2. CASE v = w
  BY <1>1, <1>2
<1>3. CASE v \in RunGameInstall(w) /\ v # w
  <2>1. Stays(w, v) /\ v.drawn.page = w.page /\ Drawn(v.drawn)
    BY <1>3, TransferStays
  <2> QED
    BY <2>1 DEF Stays, FocusFits, Redrawn
<1>4. CASE w.screen \in {"Confirm", "Result"} /\ v = InstallStepBack(w)
  <2>1. Turns(w, v) /\ v.drawn = w.drawn
          /\ (v.page = w.page \/ (v.focus \in {None, "Language"} /\ v.page = "Home"))
    BY <1>4, StepsBack
  <2>2. CASE v.page = w.page
    BY <1>1, <2>1, <2>2 DEF Turns, Redrawn
  <2>3. CASE v.page = "Home" /\ v.focus \in {None, "Language"}
    <3>1. SentHome(v)
      BY <1>4, <2>1, <2>3 DEF SentHome
    <3>2. FocusFits(v)
      BY <2>3 DEF FocusFits, Permitted, None
    <3> QED
      BY <2>1, <3>1, <3>2 DEF Turns, Redrawn
  <2> QED
    BY <2>1, <2>2, <2>3
<1>5. CASE v \in SetInstallTarget(w)
  <2>1. Stays(w, v) /\ v.drawn = w.drawn
    BY <1>5, TargetStays
  <2> QED
    BY <1>1, <2>1 DEF Stays, Redrawn
<1>6. CASE v \in OpenPackage([w EXCEPT !.drives = TRUE])
  <2> DEFINE u == [w EXCEPT !.drives = TRUE]
  <2>1. Stays(w, u) /\ u.drawn = w.drawn
    BY DEF Stays, Members, Fields, Redrawn
  <2>2. v \in OpenPackage(u)
    BY <1>6
  <2> HIDE DEF u
  <2>3. Stays(u, v) /\ v.drawn = u.drawn
    BY <2>1, <2>2, OpenPackageStays DEF Stays, Redrawn
  <2> QED
    BY <1>1, <2>1, <2>3 DEF Stays, Redrawn
<1> QED
  BY <1>2, <1>3, <1>4, <1>5, <1>6 DEF Requested

LEMMA SticksMoveFocus ==
  ASSUME NEW w, Members(w), NEW v \in HandleStick(w)
  PROVE  Like(w, v) /\ Members(v) /\ v.drawn = w.drawn
<1>1. CASE v = w
  BY <1>1 DEF Like, Members
<1>2. CASE v = MoveFocus(w, 1) \/ v = MoveFocus(w, -1)
  BY <1>2, FocusMoves
<1> QED
  BY <1>1, <1>2 DEF HandleStick

(* Another focus, on the page the frame began with.                          *)
LEMMA StillUnpressed ==
  ASSUME NEW w, NEW v, Unpressed(w), Like(w, v), v.drawn = w.drawn
  PROVE  Unpressed(v)
BY DEF Unpressed, Like, SentHome

LEMMA PollKeeps == ASSUME BeforeCrossing, Poll PROVE BeforeCrossing' /\ app'.did = app.did
<1>1. /\ Members(app) /\ FocusFits(app) /\ Unpressed(app)
      /\ app.page = app.drawn.page /\ app.screen = app.drawn.screen
  BY DEF BeforeCrossing, Poll
<1>2. /\ Members(app') /\ FocusFits(app') /\ Unpressed(app') /\ app'.did = app.did
  <2>1. CASE app' = app
    BY <1>1, <2>1
  <2>2. CASE app' \in CheckEnds(app) \cup DownloadEnds(app)
    <3>1. Like(app, app') /\ app'.drawn = app.drawn /\ app'.focus = app.focus
      BY <1>1, <2>2, WorkersEnd
    <3>2. Members(app') /\ Unpressed(app')
      BY <1>1, <3>1, LikeIsGood, StillUnpressed
    <3>3. FocusFits(app') /\ app'.did = app.did
      BY <1>1, <3>1 DEF FocusFits, Like
    <3> QED
      BY <3>2, <3>3
  <2>3. CASE Listening(app) /\ app' \in Requested(app)
    <3>1. app.page = "GameInstall" /\ Drawn(app.drawn) /\ app.did = None
      BY <1>1, <2>3 DEF Listening, Unpressed
    <3>2. /\ Members(app') /\ app'.did = app.did /\ Drawn(app'.drawn) /\ FocusFits(app')
          /\ app'.page = app'.drawn.page \/ SentHome(app')
      BY <1>1, <2>3, <3>1, RequestsStay
    <3> QED
      BY <3>1, <3>2 DEF Unpressed
  <2> QED
    BY <2>1, <2>2, <2>3 DEF Poll
<1> QED
  BY <1>2 DEF BeforeCrossing, Poll

LEMMA PressKeysKeeps ==
  ASSUME BeforeCrossing, PressKeys
  PROVE  BeforeCrossing' /\ (app'.did \notin {None, app.did} => app.drawn.page = app'.did)
<1>1. Members(app) /\ FocusFits(app) /\ Unpressed(app) /\ at = "keys"
  BY DEF BeforeCrossing, PressKeys
<1>a. PICK key \in Keys :
        \E w \in HandleKeys(app, key) : (turned' = (w.page # app.page)) /\ app' \in HandleStick(w)
  BY DEF PressKeys
<1>2. PICK w \in HandleKeys(app, key) : (turned' = (w.page # app.page)) /\ app' \in HandleStick(w)
  BY <1>a
<1>3. Follows(app, w)
  BY <1>1, <1>2, KeysFollow
<1>4. Like(w, app') /\ Members(app') /\ app'.drawn = w.drawn
  BY <1>2, <1>3, SticksMoveFocus DEF Follows, Redrawn
<1>5. ~turned' => Unpressed(app')
  <2> SUFFICES ASSUME ~turned' PROVE Unpressed(app')
    OBVIOUS
  <2>1. w.page = app.page
    BY <1>2
  <2>2. w.did = None
    BY <1>1, <1>3, <2>1 DEF Follows, Unpressed
  <2>3. w.drawn = app.drawn \/ (Drawn(w.drawn) /\ w.drawn.page = w.page)
    BY <1>3, <2>1 DEF Follows, Redrawn
  <2>4. Unpressed(w)
    BY <1>1, <2>1, <2>2, <2>3 DEF Unpressed, SentHome
  <2> QED
    BY <1>4, <2>4, StillUnpressed
<1>6. turned' \in BOOLEAN
  BY <1>2
<1>7. at' = "touch"
  BY DEF PressKeys
<1>8. BeforeCrossing'
  BY <1>4, <1>5, <1>6, <1>7 DEF BeforeCrossing
<1>9. ASSUME app'.did \notin {None, app.did} PROVE app.drawn.page = app'.did
  <2>1. app'.did = app.page /\ app.page \in {"Install", "Uninstall"}
    BY <1>3, <1>4, <1>9 DEF Follows, Like, Redrawn
  <2> QED
    BY <1>1, <2>1 DEF Unpressed, SentHome
<1> QED
  BY <1>8, <1>9

LEMMA NoKeyKeeps == ASSUME BeforeCrossing, NoKey PROVE BeforeCrossing' /\ app'.did = app.did
<1>1. Members(app) /\ Unpressed(app)
  BY DEF BeforeCrossing, NoKey
<1>2. Like(app, app') /\ Members(app') /\ app'.drawn = app.drawn
  BY <1>1, SticksMoveFocus DEF NoKey
<1>3. Unpressed(app')
  BY <1>1, <1>2, StillUnpressed
<1> QED
  BY <1>2, <1>3 DEF BeforeCrossing, NoKey, Like

LEMMA TouchedElsewhere == ASSUME BeforeCrossing, NoTouch \/ Drag PROVE BeforeCrossing' /\ app'.did = app.did
BY DEF BeforeCrossing, NoTouch, Drag, Members

LEMMA PressKeeps == ASSUME BeforeCrossing, Press PROVE BeforeCrossing' /\ app'.did = app.did
<1>1. Members(app)
  BY DEF BeforeCrossing
<1>2. PICK id : app' = [app EXCEPT !.focus = id]
  BY DEF Press
<1>3. Like(app, app')
  BY <1>1, <1>2, FocusSet
<1>4. Members(app')
  BY <1>1, <1>3, LikeIsGood
<1> QED
  BY <1>3, <1>4 DEF BeforeCrossing, Press, Like

(* The control was laid out for the page, or the page was turned home since, *)
(* where the installer's own controls mean nothing.                          *)
LEMMA TapKeeps ==
  ASSUME BeforeCrossing, Tap, ~turned
  PROVE  BeforeCrossing' /\ (app'.did \notin {None, app.did} => app.drawn.page = app'.did)
<1>1. Members(app) /\ Unpressed(app)
  BY DEF BeforeCrossing, Tap
<1>2. Answers(app.page, finger.id)
  <2>1. app.drawn.actions \in Seq(Shown(app.drawn.page, app.drawn.screen))
    BY <1>1 DEF Unpressed, Drawn
  <2>2. finger.id \in Ids(app.drawn.actions)
    BY EnabledAreIds DEF Tap
  <2>3. Permitted(app.drawn.page, app.drawn.screen, finger.id)
    BY <2>1, <2>2, IdsArePermitted
  <2>4. CASE app.page = app.drawn.page
    BY <2>3, <2>4, PermittedAnswers
  <2>5. CASE SentHome(app)
    BY <2>3, <2>5 DEF SentHome, Permitted, Answers
  <2> QED
    BY <1>1, <2>4, <2>5 DEF Unpressed
<1>3. Follows(app, app')
  BY <1>1, <1>2, ControlsFollow DEF Tap
<1>4. BeforeCrossing'
  BY <1>3 DEF BeforeCrossing, Tap, Follows, Redrawn
<1>5. ASSUME app'.did \notin {None, app.did} PROVE app.drawn.page = app'.did
  <2>1. app'.did = app.page /\ app.page \in {"Install", "Uninstall"}
    BY <1>3, <1>5 DEF Follows, Redrawn
  <2> QED
    BY <1>1, <2>1 DEF Unpressed, SentHome
<1> QED
  BY <1>4, <1>5

LEMMA DrawKeeps == ASSUME BeforeCrossing, Draw PROVE BeforeCrossing' /\ app'.did = None
<1> DEFINE w == [app EXCEPT !.fresh = @ \/ app.page # "Home", !.did = None]
<1>1. Members(w) /\ w.did = None
  BY DEF BeforeCrossing, Members, Fields
<1>2. app' = Render(w)
  BY DEF Draw
<1> HIDE DEF w
<1>3. /\ Like(w, app') /\ Members(app') /\ app'.drawn.page = w.page
      /\ app'.drawn.screen = w.screen /\ Drawn(app'.drawn) /\ FocusFits(app')
  BY <1>1, <1>2, Rendered
<1>4. app'.page = app'.drawn.page /\ app'.screen = app'.drawn.screen /\ app'.did = None
  BY <1>1, <1>3 DEF Like
<1>5. Unpressed(app')
  BY <1>3, <1>4 DEF Unpressed
<1> QED
  BY <1>3, <1>4, <1>5 DEF BeforeCrossing, Draw

LEMMA StepKeepsUncrossed ==
  ASSUME BeforeCrossing, [Next]_vars, Tap => ~turned
  PROVE  BeforeCrossing' /\ (app'.did \notin {None, app.did} => app.drawn.page = app'.did)
<1>1. CASE Poll
  BY <1>1, PollKeeps
<1>2. CASE PressKeys
  BY <1>2, PressKeysKeeps
<1>3. CASE NoKey
  BY <1>3, NoKeyKeeps
<1>4. CASE NoTouch \/ Drag
  BY <1>4, TouchedElsewhere
<1>5. CASE Press
  BY <1>5, PressKeeps
<1>6. CASE Tap
  BY <1>6, TapKeeps
<1>7. CASE Draw
  BY <1>7, DrawKeeps
<1>8. CASE UNCHANGED vars
  BY <1>8 DEF vars, BeforeCrossing
<1> QED
  BY <1>1, <1>2, <1>3, <1>4, <1>5, <1>6, <1>7, <1>8 DEF Next

(* What was crossed stays crossed; and only a tap in a frame whose key       *)
(* turned the page crosses.                                                  *)
LEMMA CrossingIsRemembered ==
  ASSUME crossed \in BOOLEAN, [Next]_vars
  PROVE  crossed' \in BOOLEAN /\ (~crossed' => ~crossed /\ (Tap => ~turned))
<1>1. CASE Tap
  BY <1>1 DEF Tap
<1>2. CASE ~Tap
  <2>1. crossed' = crossed
    BY <1>2 DEF Next, Poll, PressKeys, NoKey, NoTouch, Press, Drag, Draw, vars
  <2> QED
    BY <1>2, <2>1
<1> QED
  BY <1>1, <1>2

LEMMA StepKeeps ==
  ASSUME IInv, [Next]_vars
  PROVE  /\ IInv'
         /\ ~crossed' /\ app'.did \notin {None, app.did} => app.drawn.page = app'.did
<1>1. crossed' \in BOOLEAN /\ (~crossed' => ~crossed /\ (Tap => ~turned))
  BY CrossingIsRemembered DEF IInv
<1>2. ~crossed' => BeforeCrossing /\ (Tap => ~turned)
  BY <1>1 DEF IInv
<1>3. ~crossed' =>
        BeforeCrossing' /\ (app'.did \notin {None, app.did} => app.drawn.page = app'.did)
  BY <1>2, StepKeepsUncrossed
<1> QED
  BY <1>1, <1>3 DEF IInv

LEMMA Invariance == Spec => []IInv
<1>1. IInv /\ [Next]_vars => IInv'
  BY StepKeeps
<1> QED
  BY <1>1, InitEstablishes, PTL DEF Spec

-----------------------------------------------------------------------------
(* Every member stays in its domain, whatever is touched or pressed, until a *)
(* tap falls into a frame whose key turned the page: the pages remembered to *)
(* go back to are pages, the screens screens.                                *)
THEOREM TypeCorrect == Spec => [](crossed \/ TypeOK)
<1>1. IInv => crossed \/ TypeOK
  BY DEF IInv, BeforeCrossing, Members, TypeOK
<1> QED
  BY <1>1, Invariance, PTL

(* Until a tap falls into a frame whose key turned the page, a package that  *)
(* was read and not installed is not left behind: no key, touch or request   *)
(* turns the page away from the installer with one in hand.  After such a    *)
(* tap it may be: PackageNeverOutside is false.                              *)
THEOREM NoPackageIsLeftBehind == Spec => []PackageStaysInside
<1>1. IInv => PackageStaysInside
  BY DEF IInv, BeforeCrossing, Members, PackageStaysInside
<1> QED
  BY <1>1, Invariance, PTL

(* Until a tap falls into a frame whose key turned the page, going back ends *)
(* on the home page, however the guide and the installer were opened since   *)
(* the start (such a tap can make each the way back of the other): neither remembers itself, and the installer at most the      *)
(* guide, which remembers neither.                                           *)
THEOREM BackEndsAtHome == Spec => []BackLeadsOut
<1>1. IInv => BackLeadsOut
  <2> SUFFICES ASSUME BeforeCrossing PROVE WayOut(WayOut(WayOut(app.page))) = "Home"
    BY DEF IInv, BackLeadsOut
  <2>1. /\ app.guideReturn \notin {"Guide", "GameInstall"}
        /\ app.installReturn # "GameInstall"
    BY DEF BeforeCrossing, Members
  <2>2. WayOut("Home") = "Home"
    BY DEF WayOut
  <2>3. \A page : page \notin {"Guide", "GameInstall"} => WayOut(page) = "Home"
    BY DEF WayOut
  <2>4. \A page : page # "GameInstall" => WayOut(WayOut(page)) = "Home"
    <3>1. WayOut("Guide") = app.guideReturn
      BY DEF WayOut
    <3> QED
      BY <2>1, <2>2, <2>3, <3>1
  <2>5. WayOut("GameInstall") = app.installReturn
    BY DEF WayOut
  <2>6. \A page : WayOut(WayOut(WayOut(page))) = "Home"
    BY <2>1, <2>2, <2>4, <2>5
  <2> QED
    BY <2>6
<1> QED
  BY <1>1, Invariance, PTL

(* The agent is installed or removed only on the page that asked first: a    *)
(* request served before the keys can send the tile's page home, never to a  *)
(* page where the press that follows means something else, and a key that    *)
(* stays on its page leaves the tap of its frame what it was.  The one tap   *)
(* that can do it unasked is that in a frame whose key turned the page       *)
(* (ConfirmedAlways is false); the theorem is about what comes before it.    *)
THEOREM AskedBeforeDone == Spec => ConfirmedFirst
<1>1. IInv /\ [Next]_vars => [~crossed' /\ app'.did \notin {None, app.did} => app.drawn.page = app'.did]_vars
  BY StepKeeps
<1> QED
  BY <1>1, Invariance, PTL DEF Spec, ConfirmedFirst

-----------------------------------------------------------------------------
(* Reading a package: the placeholders it leaves.                            *)

Reading == {"container", "sizes", "metas", "running", "control", "plan", "query", "has", "confirm"}
Over == {"idle", "failed", "skipped"}
Ends == {"container", "meta", "cnmt", "system", "running", "service", "missing", "skipped", "left"}

(* A file's end is known from when its reading is over.                    *)
EndIsKnown ==
  /\ pick \in Nat /\ ended \in Seq(Ends) /\ step \in Reading \cup Over
  /\ Len(ended) = IF step \in Over THEN pick ELSE pick - 1

(* What the console does not keep for reasons of its own.                  *)
Ours == placeholders \ refused

(* What is left of a file that is over: all of one that was skipped, one   *)
(* meta of one whose CNMT could not be read.                               *)
OweNothing(phs, ends, n) ==
  \A ph \in phs : ph.pick <= n =>
    \/ ends[ph.pick] = "skipped"
    \/ /\ ends[ph.pick] = "cnmt"
       /\ \A other \in phs : other.pick = ph.pick => other = ph

(* What the file in hand has on the console is on the list of readings,    *)
(* the same two cases excepted.                                            *)
Listed ==
  \A ph \in Ours : ph.pick = pick =>
    \/ step = "idle"
    \/ ph \in readings
    \/ step = "skipped"
    \/ /\ step = "failed" /\ ended[pick] = "cnmt"
       /\ \A other \in Ours : other.pick = pick => other = ph \/ other \in readings

ReadingInv ==
  /\ EndIsKnown
  /\ \A ph \in placeholders \cup readings : ph.pick \in 1 .. pick
  /\ \A ph \in readings : ph.pick = pick
  /\ step = "idle" => readings = {}
  /\ step = "skipped" => ended[pick] = "skipped"
  /\ OweNothing(Ours, ended, IF step = "idle" THEN pick ELSE pick - 1)
  /\ Listed

-----------------------------------------------------------------------------
(* Deleting placeholders: what goes is no longer ours, and nothing else is.  *)
LEMMA Dropped ==
  ASSUME NEW held, NEW gone, NEW cost, DropPlaceholders(held, gone, cost)
  PROVE  placeholders' \subseteq held /\ Ours' \subseteq (held \ refused) \ gone
BY DEF DropPlaceholders, Ours

(* The ends of the files before stay what they are.                          *)
LEMMA Appended ==
  ASSUME EndIsKnown, NEW why \in Ends, ended' = Append(ended, why)
  PROVE  /\ ended' \in Seq(Ends) /\ Len(ended') = Len(ended) + 1
         /\ ended'[Len(ended) + 1] = why
         /\ \A n \in 1 .. Len(ended) : ended'[n] = ended[n]
<1>1. ended \in Seq(Ends)
  BY DEF EndIsKnown
<1> QED
  BY <1>1

(* A step inside a reading: what it adds is on the list.                     *)
LEMMA ReadsOn ==
  ASSUME ReadingInv, step \in Reading, step' \in Reading, UNCHANGED <<pick, ended>>,
         readings \subseteq readings', \A ph \in readings' : ph.pick = pick,
         \A ph \in placeholders' : ph \in placeholders \/ ph.pick = pick,
         \A ph \in Ours' : ph \in Ours \/ ph \in readings'
  PROVE  ReadingInv'
<1>1. EndIsKnown' /\ pick \in Nat /\ pick >= 1
  BY DEF ReadingInv, EndIsKnown, Reading, Over
<1>2. /\ step \notin Over /\ step' \notin Over
  BY DEF Reading, Over
<1>3. \A ph \in Ours : ph \in placeholders /\ ph.pick \in 1 .. pick
  BY DEF ReadingInv, Ours
<1>4. \A ph \in placeholders' \cup readings' : ph.pick \in 1 .. pick
  BY <1>1 DEF ReadingInv
<1>5. OweNothing(Ours', ended, pick - 1)
  BY <1>1, <1>2, <1>3 DEF ReadingInv, OweNothing, Over
<1>6. Listed'
  BY <1>2 DEF ReadingInv, Listed, Over
<1> QED
  BY <1>1, <1>2, <1>4, <1>5, <1>6 DEF ReadingInv, Over

(* A reading fails: at most the meta in hand is left over, and only then.    *)
LEMMA FailsWell ==
  ASSUME ReadingInv, step \in Reading, NEW why \in Ends, Fail(why), UNCHANGED <<pick, readings>>,
         NEW meta, meta.pick = pick,
         placeholders' \subseteq placeholders \cup {meta},
         Ours' \subseteq Ours \cup (IF why = "cnmt" THEN {meta} ELSE {})
  PROVE  ReadingInv'
<1>1. pick \in Nat /\ pick >= 1 /\ Len(ended) = pick - 1
  BY DEF ReadingInv, EndIsKnown, Reading, Over
<1>2. /\ ended' \in Seq(Ends) /\ Len(ended') = pick /\ ended'[pick] = why
      /\ \A n \in 1 .. (pick - 1) : ended'[n] = ended[n]
  BY <1>1, Appended DEF Fail, ReadingInv
<1>3. EndIsKnown'
  BY <1>1, <1>2 DEF EndIsKnown, Fail, Over
<1>4. step \notin Over /\ step' = "failed"
  BY DEF Reading, Over, Fail
<1>5. \A ph \in Ours : ph \in placeholders /\ ph.pick \in 1 .. pick
  BY DEF ReadingInv, Ours
<1>6. \A ph \in placeholders' \cup readings' : ph.pick \in 1 .. pick
  BY <1>1 DEF ReadingInv
<1>7. OweNothing(Ours', ended', pick - 1)
  <2>1. OweNothing(Ours, ended, pick - 1)
    BY <1>4 DEF ReadingInv, Over
  <2> SUFFICES ASSUME NEW ph \in Ours', ph.pick <= pick - 1
               PROVE  \/ ended'[ph.pick] = "skipped"
                      \/ /\ ended'[ph.pick] = "cnmt"
                         /\ \A other \in Ours' : other.pick = ph.pick => other = ph
    BY DEF OweNothing
  <2>2. ph \in Ours /\ ph.pick \in 1 .. (pick - 1)
    BY <1>1, <1>5
  <2>3. \A other \in Ours' : other.pick = ph.pick => other \in Ours
    BY <1>1, <2>2
  <2>4. ended'[ph.pick] = ended[ph.pick]
    BY <1>2, <2>2
  <2> QED
    BY <2>1, <2>2, <2>3, <2>4 DEF OweNothing
<1>8. Listed'
  <2> SUFFICES ASSUME NEW ph \in Ours', ph.pick = pick, ph \notin readings
               PROVE  why = "cnmt" /\ \A other \in Ours' :
                        other.pick = pick => other = ph \/ other \in readings
    BY <1>2, <1>4 DEF Listed
  <2>1. \A other \in Ours : other.pick = pick => other \in readings
    BY <1>4 DEF ReadingInv, Listed, Over, Reading
  <2> QED
    BY <2>1
<1> QED
  BY <1>3, <1>4, <1>6, <1>7, <1>8 DEF ReadingInv

(* A reading that is over is forgotten: what was listed is given back.       *)
LEMMA ForgetsWell ==
  ASSUME ReadingInv, Forgotten, UNCHANGED pick, EndIsKnown',
         placeholders' \subseteq placeholders, Ours' \subseteq Ours,
         \A n \in 1 .. (pick - 1) : ended'[n] = ended[n],
         \/ ended'[pick] = "skipped"
         \/ /\ ended'[pick] = ended[pick] /\ step = "failed"
            /\ Ours' \subseteq Ours \ readings
         \/ /\ step \in Reading
            /\ Ours' \subseteq Ours \ readings,
         step # "idle"
  PROVE  ReadingInv'
<1>1. pick \in Nat /\ step' = "idle" /\ readings' = {}
  BY DEF ReadingInv, EndIsKnown, Forgotten
<1>2. \A ph \in Ours : ph \in placeholders /\ ph.pick \in 1 .. pick
  BY DEF ReadingInv, Ours
<1>3. \A ph \in placeholders' \cup readings' : ph.pick \in 1 .. pick
  BY <1>1 DEF ReadingInv
<1>4. OweNothing(Ours', ended', pick)
  <2> SUFFICES ASSUME NEW ph \in Ours'
               PROVE  \/ ended'[ph.pick] = "skipped"
                      \/ /\ ended'[ph.pick] = "cnmt"
                         /\ \A other \in Ours' : other.pick = ph.pick => other = ph
    BY DEF OweNothing
  <2>1. ph \in Ours /\ ph.pick \in 1 .. pick
    BY <1>2
  <2>2. CASE ph.pick # pick
    <3>1. ph.pick \in 1 .. (pick - 1) /\ ph.pick <= pick - 1
      BY <1>1, <2>1, <2>2
    <3>2. OweNothing(Ours, ended, pick - 1)
      BY DEF ReadingInv
    <3> QED
      BY <2>1, <3>1, <3>2 DEF OweNothing
  <2>3. CASE ph.pick = pick
    <3>1. \/ ph \in readings
          \/ step = "skipped"
          \/ /\ step = "failed" /\ ended[pick] = "cnmt"
             /\ \A other \in Ours : other.pick = pick => other = ph \/ other \in readings
      BY <2>1, <2>3 DEF ReadingInv, Listed
    <3>2. CASE ended'[pick] = "skipped"
      BY <2>3, <3>2
    <3>3. CASE /\ ended'[pick] = ended[pick] /\ step = "failed"
               /\ Ours' \subseteq Ours \ readings
      BY <2>3, <3>1, <3>3
    <3>4. CASE step \in Reading /\ Ours' \subseteq Ours \ readings
      BY <3>1, <3>4 DEF Reading
    <3> QED
      BY <3>2, <3>3, <3>4
  <2> QED
    BY <2>2, <2>3
<1>5. Listed'
  BY <1>1 DEF Listed
<1> QED
  BY <1>1, <1>3, <1>4, <1>5 DEF ReadingInv

-----------------------------------------------------------------------------
LEMMA ReadingInitEstablishes == ReadingInit => ReadingInv
BY DEF ReadingInit, ReadingInv, EndIsKnown, Reading, Over, Ours, OweNothing, Listed

(* What the console would be asked for in this reading.                      *)
LEMMA FreshIsOfThisPick == \A id : Fresh(id).pick = pick
BY DEF Fresh

(* The steps that ask the console for nothing.                               *)
LEMMA QuietStepsKeep ==
  ASSUME ReadingInv, \/ ReadContainer \/ ReadSize \/ OrderMetas \/ CheckRunning \/ Plan \/ AskForContents
  PROVE  ReadingInv'
<1>1. /\ step \in Reading /\ UNCHANGED <<pick, placeholders, refused, readings>>
      /\ \/ step' \in Reading /\ UNCHANGED ended
         \/ \E why \in {"container", "system", "service", "running", "missing"} : Fail(why)
  <2>1. CASE ReadContainer
    BY <2>1 DEF ReadContainer, Same, NoDevice, Reading
  <2>2. CASE ReadSize
    BY <2>2 DEF ReadSize, Same, NoDevice, Reading
  <2>3. CASE OrderMetas
    BY <2>3 DEF OrderMetas, Same, NoDevice, Reading
  <2>4. CASE CheckRunning
    BY <2>4 DEF CheckRunning, Same, NoDevice, Reading
  <2>5. CASE Plan
    BY <2>5 DEF Plan, Same, NoDevice, Reading
  <2>6. CASE AskForContents
    BY <2>6 DEF AskForContents, Same, NoDevice, Reading
  <2> QED
    BY <2>1, <2>2, <2>3, <2>4, <2>5, <2>6
<1>2. Ours' = Ours
  BY <1>1 DEF Ours
<1>3. CASE step' \in Reading /\ UNCHANGED ended
  <2>1. \A ph \in readings' : ph.pick = pick
    BY <1>1 DEF ReadingInv
  <2> QED
    BY <1>1, <1>2, <1>3, <2>1, ReadsOn
<1>4. ASSUME NEW why \in {"container", "system", "service", "running", "missing"}, Fail(why)
      PROVE  ReadingInv'
  <2>1. why \in Ends
    BY <1>4 DEF Ends
  <2> QED
    BY <1>1, <1>2, <1>4, <2>1, FailsWell, FreshIsOfThisPick
<1> QED
  BY <1>1, <1>3, <1>4

(* A meta that is not written leaves nothing of ours.                        *)
LEMMA MetaNotWrittenKeeps ==
  ASSUME ReadingInv, MetaNotWritten
  PROVE  ReadingInv'
<1>1. step \in Reading /\ Fail("meta") /\ UNCHANGED <<pick, readings>>
  BY DEF MetaNotWritten, ReadingMeta, Reading, Same
<1>2. /\ placeholders' \subseteq placeholders \cup {MetaPh}
      /\ Ours' \subseteq Ours
  <2>1. CASE UNCHANGED <<placeholders, refused>>
    BY <2>1 DEF Ours
  <2>2. CASE placeholders' = placeholders \cup {MetaPh} /\ refused' = refused \cup {MetaPh}
    BY <2>2 DEF Ours
  <2>3. CASE PathFails(placeholders, MetaPh)
    <3>1. DropPlaceholders(placeholders \cup {MetaPh}, {MetaPh}, 1)
      BY <2>3 DEF PathFails
    <3> QED
      BY <3>1, Dropped DEF Ours
  <2> QED
    BY <2>1, <2>2, <2>3 DEF MetaNotWritten
<1>3. MetaPh.pick = pick
  BY FreshIsOfThisPick DEF MetaPh
<1> QED
  BY <1>1, <1>2, <1>3, FailsWell DEF Ends

(* One whose CNMT is not read stays, and is the only one that does.          *)
LEMMA MetaNotReadKeeps ==
  ASSUME ReadingInv, MetaNotRead
  PROVE  ReadingInv'
<1>1. step \in Reading /\ Fail("cnmt") /\ UNCHANGED <<pick, readings>>
  BY DEF MetaNotRead, ReadingMeta, Reading, Same
<1>2. placeholders' \subseteq placeholders \cup {MetaPh} /\ UNCHANGED refused
  BY DEF MetaNotRead, Written
<1>3. Ours' \subseteq Ours \cup {MetaPh}
  BY <1>2 DEF Ours
<1>4. MetaPh.pick = pick
  BY FreshIsOfThisPick DEF MetaPh
<1> QED
  BY <1>1, <1>2, <1>3, <1>4, FailsWell DEF Ends

LEMMA SkipSystemMetaKeeps ==
  ASSUME ReadingInv, SkipSystemMeta
  PROVE  ReadingInv'
<1>1. step \in Reading /\ UNCHANGED <<pick, step, ended, readings>>
  BY DEF SkipSystemMeta, SystemMeta, ReadingMeta, Reading, Same
<1>2. PICK r \in MetaReads(Meta.id) : DropPlaceholders(Written(r), {MetaPh}, r.cost)
  BY DEF SkipSystemMeta
<1>3. Written(r) \subseteq placeholders \cup {MetaPh}
  BY DEF Written
<1>4. placeholders' \subseteq placeholders \cup {MetaPh} /\ Ours' \subseteq Ours
  BY <1>2, <1>3, Dropped DEF Ours
<1>5. MetaPh.pick = pick
  BY FreshIsOfThisPick DEF MetaPh
<1>6. \A ph \in readings' : ph.pick = pick
  BY <1>1 DEF ReadingInv
<1> QED
  BY <1>1, <1>4, <1>5, <1>6, ReadsOn

LEMMA KeepMetaKeeps ==
  ASSUME ReadingInv, KeepMeta
  PROVE  ReadingInv'
<1>1. /\ step \in Reading /\ UNCHANGED <<pick, step, ended, refused>>
      /\ readings' = readings \cup {MetaPh}
  BY DEF KeepMeta, ReadingMeta, Reading, Same
<1>2. placeholders' \subseteq placeholders \cup {MetaPh}
  BY DEF KeepMeta, Written
<1>3. MetaPh.pick = pick
  BY FreshIsOfThisPick DEF MetaPh
<1>4. \A ph \in readings' : ph.pick = pick
  BY <1>1, <1>3 DEF ReadingInv
<1>5. \A ph \in Ours' : ph \in Ours \/ ph \in readings'
  BY <1>1, <1>2 DEF Ours
<1> QED
  BY <1>1, <1>2, <1>3, <1>4, <1>5, ReadsOn

(* The control content is listed when it is there to stay.                   *)
LEMMA ReadControlKeeps ==
  ASSUME ReadingInv, ReadControl
  PROVE  ReadingInv'
<1> DEFINE ph == Fresh(ControlContent)
<1>0. ph.pick = pick
  BY FreshIsOfThisPick
<1> HIDE DEF ph
<1>1. step \in Reading /\ step' \in Reading /\ UNCHANGED <<pick, ended>>
  BY DEF ReadControl, Reading, Same
<1>2. /\ placeholders' \subseteq placeholders \cup {ph}
      /\ \/ Ours' \subseteq Ours /\ UNCHANGED readings
         \/ Ours' \subseteq Ours \cup {ph} /\ readings' = readings \cup {ph}
  <2>1. CASE UNCHANGED <<placeholders, refused, readings>>
    BY <2>1 DEF Ours
  <2>2. CASE /\ placeholders' = placeholders \cup {ph} /\ refused' = refused \cup {ph}
             /\ UNCHANGED readings
    BY <2>2 DEF Ours
  <2>3. CASE PathFails(placeholders, ph) /\ UNCHANGED readings
    <3>1. DropPlaceholders(placeholders \cup {ph}, {ph}, 1)
      BY <2>3 DEF PathFails
    <3> QED
      BY <2>3, <3>1, Dropped DEF Ours
  <2>4. CASE /\ placeholders' = placeholders \cup {ph} /\ readings' = readings \cup {ph}
             /\ UNCHANGED refused
    BY <2>4 DEF Ours
  <2> QED
    BY <2>1, <2>2, <2>3, <2>4 DEF ReadControl, ph
<1>3. \A p \in readings' : p.pick = pick
  BY <1>0, <1>2 DEF ReadingInv
<1> QED
  BY <1>0, <1>1, <1>2, <1>3, ReadsOn

(* A package that is skipped keeps what it has on the console.               *)
LEMMA QueryKeeps ==
  ASSUME ReadingInv, Query
  PROVE  ReadingInv'
<1>1. /\ step \in Reading /\ step \notin Over
      /\ UNCHANGED <<pick, placeholders, refused, readings>>
      /\ \/ step' \in Reading /\ UNCHANGED ended
         \/ step' = "skipped" /\ ended' = Append(ended, "skipped")
  BY DEF Query, Same, NoDevice, Reading, Over
<1>2. Ours' = Ours
  BY <1>1 DEF Ours
<1>3. CASE step' \in Reading /\ UNCHANGED ended
  <2>1. \A ph \in readings' : ph.pick = pick
    BY <1>1 DEF ReadingInv
  <2> QED
    BY <1>1, <1>2, <1>3, <2>1, ReadsOn
<1>4. CASE step' = "skipped" /\ ended' = Append(ended, "skipped")
  <2>1. pick \in Nat /\ pick >= 1 /\ Len(ended) = pick - 1
    BY <1>1 DEF ReadingInv, EndIsKnown, Over
  <2>2. /\ ended' \in Seq(Ends) /\ Len(ended') = pick /\ ended'[pick] = "skipped"
        /\ \A n \in 1 .. (pick - 1) : ended'[n] = ended[n]
    BY <1>4, <2>1, Appended DEF ReadingInv, Ends
  <2>3. EndIsKnown'
    BY <1>1, <1>4, <2>1, <2>2 DEF EndIsKnown, Over
  <2>4. \A ph \in Ours : ph.pick \in 1 .. pick
    BY DEF ReadingInv, Ours
  <2>5. OweNothing(Ours, ended, pick - 1)
    BY <1>1 DEF ReadingInv, Over
  <2>6. OweNothing(Ours', ended', pick - 1)
    <3> SUFFICES ASSUME NEW ph \in Ours, ph.pick <= pick - 1
                 PROVE  ended'[ph.pick] = ended[ph.pick]
      BY <1>2, <2>5 DEF OweNothing
    <3> QED
      BY <2>1, <2>2, <2>4
  <2>7. Listed'
    BY <1>1, <1>4, <2>2 DEF Listed
  <2>8. \A ph \in placeholders' \cup readings' : ph.pick \in 1 .. pick'
    BY <1>1 DEF ReadingInv
  <2> QED
    BY <1>1, <1>4, <2>2, <2>3, <2>6, <2>7, <2>8 DEF ReadingInv
<1> QED
  BY <1>1, <1>3, <1>4

(* The package is given up, in one of three ways.                            *)
LEMMA GivingUpKeeps ==
  ASSUME ReadingInv, CleanupAfterFailure \/ Abandon \/ LeaveSkipped
  PROVE  ReadingInv'
<1>1. Forgotten /\ UNCHANGED pick /\ step # "idle" /\ step' = "idle"
  BY DEF CleanupAfterFailure, Abandon, LeaveSkipped, Same, Forgotten
<1>2. pick \in Nat
  BY DEF ReadingInv, EndIsKnown
<1>3. CASE CleanupAfterFailure
  <2>1. /\ DropPlaceholders(placeholders, readings, 0) /\ step = "failed" /\ UNCHANGED ended
    BY <1>3 DEF CleanupAfterFailure
  <2>2. placeholders' \subseteq placeholders /\ Ours' \subseteq Ours \ readings
    BY <2>1, Dropped DEF Ours
  <2>3. EndIsKnown'
    BY <1>1, <2>1 DEF ReadingInv, EndIsKnown, Over
  <2> QED
    BY <1>1, <2>1, <2>2, <2>3, ForgetsWell
<1>4. CASE Abandon
  <2>1. /\ DropPlaceholders(placeholders, readings, 0) /\ step = "confirm"
        /\ ended' = Append(ended, "left")
    BY <1>4 DEF Abandon
  <2>2. placeholders' \subseteq placeholders /\ Ours' \subseteq Ours \ readings
    BY <2>1, Dropped DEF Ours
  <2>3. step \in Reading /\ Len(ended) = pick - 1
    BY <2>1 DEF ReadingInv, EndIsKnown, Reading, Over
  <2>4. /\ ended' \in Seq(Ends) /\ Len(ended') = pick
        /\ \A n \in 1 .. (pick - 1) : ended'[n] = ended[n]
    BY <1>2, <2>1, <2>3, Appended DEF ReadingInv, Ends
  <2>5. EndIsKnown'
    BY <1>1, <1>2, <2>4 DEF EndIsKnown, Over
  <2> QED
    BY <1>1, <2>2, <2>3, <2>4, <2>5, ForgetsWell
<1>5. CASE LeaveSkipped
  <2>1. step = "skipped" /\ UNCHANGED <<placeholders, refused, ended>>
    BY <1>5 DEF LeaveSkipped, NoDevice
  <2>2. EndIsKnown' /\ Ours' = Ours
    BY <1>1, <2>1 DEF ReadingInv, EndIsKnown, Over, Ours
  <2>3. ended'[pick] = "skipped"
    BY <2>1 DEF ReadingInv
  <2> QED
    BY <1>1, <2>1, <2>2, <2>3, ForgetsWell
<1> QED
  BY <1>3, <1>4, <1>5

(* The next file: everything there is belongs to the ones before.            *)
LEMMA PickKeeps ==
  ASSUME ReadingInv, NEW p, Pick(p)
  PROVE  ReadingInv'
<1>1. /\ step = "idle" /\ step' = "container" /\ pick' = pick + 1 /\ readings' = {}
      /\ UNCHANGED <<placeholders, refused, ended>>
  BY DEF Pick
<1>2. pick \in Nat /\ EndIsKnown'
  BY <1>1 DEF ReadingInv, EndIsKnown, Reading, Over
<1>3. \A ph \in placeholders : ph.pick \in 1 .. pick
  BY DEF ReadingInv
<1>4. Ours' = Ours /\ Ours \subseteq placeholders
  BY <1>1 DEF Ours
<1>5. \A ph \in placeholders' \cup readings' : ph.pick \in 1 .. pick'
  BY <1>1, <1>2, <1>3
<1>6. OweNothing(Ours', ended', pick' - 1)
  BY <1>1, <1>2, <1>4 DEF ReadingInv, OweNothing
<1>7. Listed'
  BY <1>1, <1>2, <1>3, <1>4 DEF Listed
<1> QED
  BY <1>1, <1>2, <1>5, <1>6, <1>7 DEF ReadingInv

LEMMA InvariantIsKept == ReadingInv /\ [ReadingNext]_readingVars => ReadingInv'
<1>1. ASSUME ReadingInv, UNCHANGED readingVars PROVE ReadingInv'
  BY <1>1 DEF ReadingInv, EndIsKnown, OweNothing, Listed, Ours, readingVars, run
<1> QED
  BY <1>1, PickKeeps, QuietStepsKeep, MetaNotWrittenKeeps, MetaNotReadKeeps,
     SkipSystemMetaKeeps, KeepMetaKeeps, ReadControlKeeps, QueryKeeps, GivingUpKeeps DEF ReadingNext

-----------------------------------------------------------------------------
(* CleanupAfterFailure and Abandon give back what Prepare wrote, whatever    *)
(* call failed in it: what is left is a meta whose CNMT could not be read,   *)
(* what the console would not delete, and a package that was skipped.        *)
THEOREM ReadingLeavesNothing == ReadingSpec => []ReadingsAreTakenBack
<1>1. ReadingInv => ReadingsAreTakenBack
  <2> SUFFICES ASSUME ReadingInv, step = "idle", NEW ph \in placeholders \ refused
               PROVE  \/ ended[ph.pick] = "skipped"
                      \/ /\ ended[ph.pick] = "cnmt"
                         /\ \A other \in placeholders \ refused : other.pick = ph.pick => other = ph
    BY DEF ReadingsAreTakenBack
  <2>1. ph.pick <= pick
    BY DEF ReadingInv, EndIsKnown
  <2> QED
    BY <2>1 DEF ReadingInv, OweNothing, Ours
<1>2. ReadingSpec => []ReadingInv
  BY ReadingInitEstablishes, InvariantIsKept, PTL DEF ReadingSpec
<1> QED
  BY <1>1, <1>2, PTL

-----------------------------------------------------------------------------
(* Lists: places in order, concatenations, and numbers along a list.         *)
(* The places of a list in order: every one of them, each once.              *)
LEMMA EveryPlaceOnce ==
  ASSUME NEW n \in Nat, NEW P, P \subseteq 1 .. n
  PROVE  /\ Cardinality(P) \in Nat
         /\ \A k \in 1 .. Cardinality(P) : InOrder(P)[k] \in P
         /\ \A i \in P : \E k \in 1 .. Cardinality(P) : InOrder(P)[k] = i
         /\ \A k, l \in 1 .. Cardinality(P) : InOrder(P)[k] = InOrder(P)[l] => k = l
<1> DEFINE upTo(i) == {j \in P : j <= i}
           c == Cardinality(P)
           rank == [i \in P |-> Cardinality(upTo(i))]
<1>1. IsFiniteSet(P) /\ c \in Nat
  <2>1. IsFiniteSet(1 .. n)
    BY FS_Interval
  <2> QED
    BY <2>1, FS_Subset, FS_CardinalityType
<1>2. \A i \in P : IsFiniteSet(upTo(i)) /\ Cardinality(upTo(i)) \in Nat /\ Cardinality(upTo(i)) <= c
  <2> SUFFICES ASSUME NEW i \in P
               PROVE  IsFiniteSet(upTo(i)) /\ Cardinality(upTo(i)) \in Nat /\ Cardinality(upTo(i)) <= c
    OBVIOUS
  <2>1. upTo(i) \in SUBSET P
    OBVIOUS
  <2> HIDE DEF upTo
  <2> QED
    BY <1>1, <2>1, FS_Subset, FS_CardinalityType
<1>3. \A i \in P : Cardinality(upTo(i)) # 0
  <2> SUFFICES ASSUME NEW i \in P PROVE Cardinality(upTo(i)) # 0
    OBVIOUS
  <2>1. i \in upTo(i)
    OBVIOUS
  <2> HIDE DEF upTo
  <2> QED
    BY <1>2, <2>1, FS_EmptySet
<1>4. rank \in [P -> 1 .. c]
  <2> HIDE DEF upTo
  <2>1. \A i \in P : Cardinality(upTo(i)) \in 1 .. c
    BY <1>1, <1>2, <1>3
  <2> QED
    BY <2>1
<1>5. \A i, j \in P : i < j => Cardinality(upTo(i)) < Cardinality(upTo(j))
  <2> SUFFICES ASSUME NEW i \in P, NEW j \in P, i < j
               PROVE  Cardinality(upTo(i)) < Cardinality(upTo(j))
    OBVIOUS
  <2>0. \A x \in P : x \in Int
    OBVIOUS
  <2>1. upTo(i) \in SUBSET upTo(j) /\ j \in upTo(j) /\ j \notin upTo(i)
    <3>1. i \in Int /\ j \in Int
      BY <2>0
    <3>2. \A x \in P : x <= i => x <= j
      BY <2>0, <3>1
    <3>3. j <= j /\ ~(j <= i)
      BY <3>1
    <3> QED
      BY <3>2, <3>3
  <2>2. upTo(i) # upTo(j)
    BY <2>1
  <2> HIDE DEF upTo
  <2>3. Cardinality(upTo(i)) <= Cardinality(upTo(j)) /\ Cardinality(upTo(i)) # Cardinality(upTo(j))
    BY <1>2, <2>1, <2>2, FS_Subset
  <2> QED
    BY <1>2, <2>3
<1>6. \A i, j \in P : rank[i] = rank[j] => i = j
  <2> SUFFICES ASSUME NEW i \in P, NEW j \in P, rank[i] = rank[j] PROVE i = j
    OBVIOUS
  <2>1. Cardinality(upTo(i)) = Cardinality(upTo(j))
    OBVIOUS
  <2> HIDE DEF upTo, rank
  <2>2. i \in Int /\ j \in Int /\ ~(i < j) /\ ~(j < i)
    BY <1>2, <1>5, <2>1
  <2> QED
    BY <2>2
<1>7. \A k \in 1 .. c : \E i \in P : rank[i] = k
  <2>1. IsFiniteSet(1 .. c) /\ Cardinality(1 .. c) = c
    BY <1>1, FS_Interval
  <2> HIDE DEF rank
  <2>2. rank \in Injection(P, 1 .. c)
    BY <1>4, <1>6 DEF Injection, IsInjective
  <2>3. rank \in Surjection(P, 1 .. c)
    BY <2>1, <2>2, FS_Injection
  <2> QED
    BY <2>3 DEF Surjection
<1>8. \A k \in 1 .. c : InOrder(P)[k] \in P /\ rank[InOrder(P)[k]] = k
  <2> SUFFICES ASSUME NEW k \in 1 .. c
               PROVE  InOrder(P)[k] \in P /\ rank[InOrder(P)[k]] = k
    OBVIOUS
  <2>1. InOrder(P)[k] = CHOOSE i \in P : Cardinality(upTo(i)) = k
    BY DEF InOrder
  <2>2. \E i \in P : Cardinality(upTo(i)) = k
    BY <1>7
  <2> HIDE DEF upTo
  <2> QED
    BY <2>1, <2>2
<1> HIDE DEF rank, upTo
<1> QED
  BY <1>1, <1>4, <1>6, <1>8

(* Those: the elements at these places, each place once.                     *)
LEMMA ThoseAreThere ==
  ASSUME NEW X, NEW s \in Seq(X), NEW P, P \subseteq DOMAIN s
  PROVE  /\ Those(s, P) \in Seq(X)
         /\ \A k \in DOMAIN Those(s, P) : \E i \in P : Those(s, P)[k] = s[i]
         /\ \A i \in P : \E k \in DOMAIN Those(s, P) : Those(s, P)[k] = s[i]
<1> DEFINE c == Cardinality(P)
<1>1. DOMAIN s = 1 .. Len(s) /\ Len(s) \in Nat /\ \A i \in 1 .. Len(s) : s[i] \in X
  OBVIOUS
<1>2. /\ c \in Nat
      /\ \A k \in 1 .. c : InOrder(P)[k] \in P
      /\ \A i \in P : \E k \in 1 .. c : InOrder(P)[k] = i
  BY <1>1, EveryPlaceOnce
<1>3. Those(s, P) = [k \in 1 .. c |-> s[InOrder(P)[k]]]
  BY DEF Those
<1> HIDE DEF c
<1>4. DOMAIN Those(s, P) = 1 .. c /\ \A k \in 1 .. c : Those(s, P)[k] = s[InOrder(P)[k]]
  BY <1>3
<1>5. \A k \in 1 .. c : s[InOrder(P)[k]] \in X
  BY <1>1, <1>2
<1>6. Those(s, P) \in Seq(X)
  BY <1>2, <1>3, <1>5
<1>7. \A k \in 1 .. c : \E i \in P : Those(s, P)[k] = s[i]
  BY <1>2, <1>4
<1>8. \A i \in P : \E k \in 1 .. c : Those(s, P)[k] = s[i]
  <2> SUFFICES ASSUME NEW i \in P PROVE \E k \in 1 .. c : Those(s, P)[k] = s[i]
    OBVIOUS
  <2>1. PICK k \in 1 .. c : InOrder(P)[k] = i
    BY <1>2
  <2> QED
    BY <1>4, <2>1
<1> QED
  BY <1>4, <1>6, <1>7, <1>8

(* Where no two of the places hold the same, none of Those are the same.     *)
LEMMA ThoseAreDistinct ==
  ASSUME NEW X, NEW s \in Seq(X), NEW P, P \subseteq DOMAIN s,
         \A i, j \in P : s[i].id = s[j].id => i = j
  PROVE  \A k, l \in DOMAIN Those(s, P) : Those(s, P)[k].id = Those(s, P)[l].id => k = l
<1> DEFINE c == Cardinality(P)
<1>1. DOMAIN s = 1 .. Len(s) /\ Len(s) \in Nat
  OBVIOUS
<1>2. /\ \A k \in 1 .. c : InOrder(P)[k] \in P
      /\ \A k, l \in 1 .. c : InOrder(P)[k] = InOrder(P)[l] => k = l
  BY <1>1, EveryPlaceOnce
<1>3. Those(s, P) = [k \in 1 .. c |-> s[InOrder(P)[k]]]
  BY DEF Those
<1> HIDE DEF c
<1>4. DOMAIN Those(s, P) = 1 .. c /\ \A k \in 1 .. c : Those(s, P)[k] = s[InOrder(P)[k]]
  BY <1>3
<1> QED
  BY <1>2, <1>4

(* Range of a list: its elements. *)
LEMMA Elements ==
  ASSUME NEW X, NEW s \in Seq(X)
  PROVE  /\ DOMAIN s = 1 .. Len(s) /\ Len(s) \in Nat /\ s \in Seq(Range(s)) /\ Range(s) \subseteq X
         /\ \A i \in 1 .. Len(s) : s[i] \in Range(s)
         /\ \A x \in Range(s) : \E i \in 1 .. Len(s) : x = s[i]
BY DEF Range

(* Every set of naturals has a least element ...                             *)
LEMMA LeastNatural ==
  ASSUME NEW S, S \subseteq Nat, S # {}
  PROVE  \E m \in S : \A n \in S : m <= n
<1> DEFINE less == {p \in Nat \X Nat : p[1] < p[2]}
<1>1. OpToRel(<, Nat) = less
  BY DEF OpToRel
<1>2. IsWellFoundedOn(less, Nat)
  BY <1>1, NatLessThanWellFounded
<1>3. \A m, n \in Nat : n < m => <<n, m>> \in less
  OBVIOUS
<1> HIDE DEF less
<1>4. PICK m \in S : \A n \in S : <<n, m>> \notin less
  BY <1>2, WFMin
<1>5. \A n \in S : ~(n < m)
  BY <1>3, <1>4
<1> QED
  BY <1>5

(* ... so what passes on from each place of a list to the next holds of all. *)
LEMMA AlongTheList ==
  ASSUME NEW n \in Nat, NEW S, 1 \in S, \A i \in 1 .. n - 1 : i \in S => i + 1 \in S
  PROVE  \A i \in 1 .. n : i \in S
<1> SUFFICES ASSUME (1 .. n) \ S # {} PROVE FALSE
  OBVIOUS
<1>0. (1 .. n) \ S \subseteq Nat
  OBVIOUS
<1>1. PICK m \in (1 .. n) \ S : \A i \in (1 .. n) \ S : m <= i
  BY <1>0, LeastNatural
<1>2. m # 1
  OBVIOUS
<1>3. m - 1 \in 1 .. n - 1 /\ m - 1 \in 1 .. n /\ m - 1 < m /\ (m - 1) + 1 = m
  BY <1>2
<1>4. m - 1 \in S
  BY <1>1, <1>3
<1> QED
  BY <1>3, <1>4

(* A concatenation's elements, where each lies.                              *)
LEMMA Concatenated ==
  ASSUME NEW A, NEW u \in Seq(A), NEW v \in Seq(A)
  PROVE  /\ u \o v \in Seq(A) /\ Len(u \o v) = Len(u) + Len(v)
         /\ Len(u) \in Nat /\ Len(v) \in Nat
         /\ \A i \in 1 .. Len(u) : (u \o v)[i] = u[i]
         /\ \A i \in 1 .. Len(v) : (u \o v)[Len(u) + i] = v[i]
<1>1. Len(u) \in Nat /\ Len(v) \in Nat
  BY LenProperties
<1>2. /\ u \o v \in Seq(A) /\ Len(u \o v) = Len(u) + Len(v)
      /\ \A k \in 1 .. Len(u) + Len(v) : (u \o v)[k] = IF k <= Len(u) THEN u[k] ELSE v[k - Len(u)]
  BY ConcatProperties
<1>3. PICK m \in Nat : m = Len(u)
  BY <1>1
<1>4. PICK n \in Nat : n = Len(v)
  BY <1>1
<1>5. PICK w : w = u \o v
  OBVIOUS
<1>6. \A k \in 1 .. m + n : w[k] = IF k <= m THEN u[k] ELSE v[k - m]
  BY <1>2, <1>3, <1>4, <1>5
<1>7. ASSUME NEW i \in 1 .. m PROVE w[i] = u[i]
  <2>1. i \in 1 .. m + n /\ i <= m
    OBVIOUS
  <2> QED
    BY <1>6, <2>1
<1>8. ASSUME NEW i \in 1 .. n PROVE w[m + i] = v[i]
  <2>1. m + i \in 1 .. m + n /\ ~(m + i <= m) /\ m + i - m = i
    OBVIOUS
  <2> QED
    BY <1>6, <2>1
<1> QED
  BY <1>1, <1>2, <1>3, <1>4, <1>5, <1>7, <1>8

(* FlattenSeq: what the lists of a list hold, and nothing else.              *)
Joins(g, ss, n) == \A i \in 1 .. n : g[i] = IF i = 1 THEN ss[i] ELSE g[i - 1] \o ss[i]

LEMMA JoinedSoFar ==
  ASSUME NEW X, NEW ss \in Seq(Seq(X))
  PROVE  \A n \in 1 .. Len(ss) : \E g \in [1 .. n -> Seq(X)] : Joins(g, ss, n)
<1> DEFINE S == {n \in Nat : \E g \in [1 .. n -> Seq(X)] : Joins(g, ss, n)}
<1>1. CASE Len(ss) = 0
  BY <1>1
<1>2. CASE Len(ss) # 0
  <2>1. 1 \in S
    <3> DEFINE g == [i \in 1 .. 1 |-> ss[1]]
    <3>1. ss[1] \in Seq(X)
      BY <1>2
    <3>2. g \in [1 .. 1 -> Seq(X)] /\ g[1] = ss[1]
      BY <3>1
    <3>3. Joins(g, ss, 1)
      BY <3>2 DEF Joins
    <3> HIDE DEF g
    <3> QED
      BY <3>2, <3>3
  <2>2. ASSUME NEW n \in 1 .. Len(ss) - 1, n \in S PROVE n + 1 \in S
    <3>1. PICK g \in [1 .. n -> Seq(X)] : Joins(g, ss, n)
      BY <2>2
    <3> DEFINE h == [i \in 1 .. n + 1 |-> IF i = n + 1 THEN g[n] \o ss[n + 1] ELSE g[i]]
    <3>2. ss[n + 1] \in Seq(X) /\ g[n] \in Seq(X)
      OBVIOUS
    <3>3. g[n] \o ss[n + 1] \in Seq(X)
      BY <3>2
    <3>4. h \in [1 .. n + 1 -> Seq(X)] /\ h[n + 1] = g[n] \o ss[n + 1]
          /\ \A i \in 1 .. n : h[i] = g[i]
      BY <3>3
    <3> HIDE DEF h
    <3>5. Joins(h, ss, n + 1)
      <4> SUFFICES ASSUME NEW i \in 1 .. n + 1
                   PROVE  h[i] = IF i = 1 THEN ss[i] ELSE h[i - 1] \o ss[i]
        BY DEF Joins
      <4>1. CASE i = n + 1
        <5>1. i # 1 /\ i - 1 = n /\ n \in 1 .. n
          BY <4>1
        <5>2. h[i - 1] = g[n]
          BY <3>4, <5>1
        <5> QED
          BY <3>4, <4>1, <5>1, <5>2
      <4>2. CASE i # n + 1
        <5>1. i \in 1 .. n /\ (i # 1 => i - 1 \in 1 .. n)
          BY <4>2
        <5>2. h[i] = g[i] /\ (i # 1 => h[i - 1] = g[i - 1])
          BY <3>4, <5>1
        <5>3. g[i] = IF i = 1 THEN ss[i] ELSE g[i - 1] \o ss[i]
          BY <3>1, <5>1 DEF Joins
        <5> QED
          BY <5>2, <5>3
      <4> QED
        BY <4>1, <4>2
    <3>6. n + 1 \in Nat
      OBVIOUS
    <3> QED
      BY <3>4, <3>5, <3>6
  <2> HIDE DEF S
  <2>0. Len(ss) \in Nat
    OBVIOUS
  <2>3. \A n \in 1 .. Len(ss) : n \in S
    BY <2>0, <2>1, <2>2, AlongTheList
  <2> QED
    BY <2>3 DEF S
<1> QED
  BY <1>1, <1>2

LEMMA FlattenedIsAll ==
  ASSUME NEW X, NEW ss \in Seq(Seq(X))
  PROVE  /\ FlattenSeq(ss) \in Seq(X)
         /\ \A k \in 1 .. Len(FlattenSeq(ss)) :
              \E i \in 1 .. Len(ss) : \E j \in 1 .. Len(ss[i]) : FlattenSeq(ss)[k] = ss[i][j]
         /\ \A i \in 1 .. Len(ss) : \A j \in 1 .. Len(ss[i]) :
              \E k \in 1 .. Len(FlattenSeq(ss)) : FlattenSeq(ss)[k] = ss[i][j]
<1>1. CASE Len(ss) = 0
  <2>1. FlattenSeq(ss) = ss
    BY <1>1 DEF FlattenSeq
  <2>2. ss = <<>>
    BY <1>1
  <2> QED
    BY <2>1, <2>2
<1>2. CASE Len(ss) # 0
  <2> DEFINE n == Len(ss)
  <2>1. n \in Nat /\ n \in 1 .. n /\ 1 \in 1 .. n
    BY <1>2
  <2>2. PICK f \in [1 .. n -> Seq(X)] : Joins(f, ss, n)
    BY <2>1, JoinedSoFar
  <2>3. f = [i \in 1 .. n |-> IF i = 1 THEN ss[i] ELSE f[i - 1] \o ss[i]]
    BY <2>2 DEF Joins
  <2>4. \E g : g = [i \in 1 .. n |-> IF i = 1 THEN ss[i] ELSE g[i - 1] \o ss[i]]
               /\ FlattenSeq(ss) = g[n]
    BY <1>2, <2>3 DEF FlattenSeq
  <2>5. PICK g : g = [i \in 1 .. n |-> IF i = 1 THEN ss[i] ELSE g[i - 1] \o ss[i]]
                 /\ FlattenSeq(ss) = g[n]
    BY <2>4
  <2>6. \A i \in 1 .. n : g[i] = IF i = 1 THEN ss[i] ELSE g[i - 1] \o ss[i]
    BY <2>5
  <2>7. \A i \in 1 .. n : ss[i] \in Seq(X)
    OBVIOUS
  <2> HIDE DEF n
  <2> DEFINE
    all(m) == /\ g[m] \in Seq(X)
              /\ \A k \in 1 .. Len(g[m]) :
                   \E i \in 1 .. m : \E j \in 1 .. Len(ss[i]) : g[m][k] = ss[i][j]
              /\ \A i \in 1 .. m : \A j \in 1 .. Len(ss[i]) : \E k \in 1 .. Len(g[m]) : g[m][k] = ss[i][j]
    S == {m \in Nat : all(m)}
  <2>8. 1 \in S
    <3>1. g[1] = ss[1] /\ ss[1] \in Seq(X)
      BY <2>1, <2>6, <2>7
    <3>2. 1 \in 1 .. 1 /\ \A i \in 1 .. 1 : i = 1
      OBVIOUS
    <3>3. \A k \in 1 .. Len(g[1]) : \E i \in 1 .. 1 : \E j \in 1 .. Len(ss[i]) : g[1][k] = ss[i][j]
      BY <3>1, <3>2
    <3>4. \A i \in 1 .. 1 : \A j \in 1 .. Len(ss[i]) : \E k \in 1 .. Len(g[1]) : g[1][k] = ss[i][j]
      BY <3>1, <3>2
    <3> QED
      BY <3>1, <3>3, <3>4
  <2>9. ASSUME NEW m \in 1 .. n - 1, m \in S PROVE m + 1 \in S
    <3>1. g[m + 1] = g[m] \o ss[m + 1]
      <4>1. m + 1 \in 1 .. n /\ m + 1 # 1 /\ (m + 1) - 1 = m
        BY <2>1
      <4> QED
        BY <2>6, <4>1
    <3>2. ss[m + 1] \in Seq(X) /\ g[m] \in Seq(X)
      BY <2>1, <2>7, <2>9
    <3> DEFINE a == g[m]
               b == ss[m + 1]
    <3>b. a \in Seq(X) /\ b \in Seq(X)
      BY <3>2
    <3> HIDE DEF a, b
    <3>3. /\ a \o b \in Seq(X) /\ Len(a \o b) = Len(a) + Len(b)
          /\ Len(a) \in Nat /\ Len(b) \in Nat
          /\ \A k \in 1 .. Len(a) : (a \o b)[k] = a[k]
          /\ \A k \in 1 .. Len(b) : (a \o b)[Len(a) + k] = b[k]
      BY <3>b, Concatenated
    <3> USE DEF a, b
    <3>4. ASSUME NEW k \in 1 .. Len(g[m + 1])
          PROVE  \E i \in 1 .. m + 1 : \E j \in 1 .. Len(ss[i]) : g[m + 1][k] = ss[i][j]
      <4>1. CASE k \in 1 .. Len(a)
        <5>0. PICK i \in 1 .. m : \E j \in 1 .. Len(ss[i]) : a[k] = ss[i][j]
          BY <2>9, <4>1
        <5>1. PICK j \in 1 .. Len(ss[i]) : a[k] = ss[i][j]
          BY <5>0
        <5>2. i \in 1 .. m + 1
          OBVIOUS
        <5>3. g[m + 1][k] = ss[i][j]
          BY <3>1, <3>3, <4>1, <5>1
        <5> QED
          BY <5>2, <5>3
      <4>2. CASE k \notin 1 .. Len(a)
        <5>1. Len(g[m + 1]) = Len(a) + Len(b)
          BY <3>1, <3>3
        <5> HIDE DEF a, b
        <5>2. k - Len(a) \in 1 .. Len(b) /\ Len(a) + (k - Len(a)) = k
          BY <3>3, <4>2, <5>1
        <5>3. (a \o b)[k] = b[k - Len(a)]
          BY <3>3, <5>2
        <5>4. m + 1 \in 1 .. m + 1
          OBVIOUS
        <5> QED
          BY <3>1, <5>2, <5>3, <5>4 DEF a, b
      <4> QED
        BY <4>1, <4>2
    <3>5. ASSUME NEW i \in 1 .. m + 1, NEW j \in 1 .. Len(ss[i])
          PROVE  \E k \in 1 .. Len(g[m + 1]) : g[m + 1][k] = ss[i][j]
      <4>1. CASE i \in 1 .. m
        <5>1. PICK k \in 1 .. Len(a) : a[k] = ss[i][j]
          BY <2>9, <4>1
        <5> HIDE DEF a, b
        <5>2. k \in 1 .. Len(a \o b)
          BY <3>3
        <5>3. (a \o b)[k] = a[k]
          BY <3>3
        <5>4. g[m + 1] = a \o b
          BY <3>1 DEF a, b
        <5> QED
          BY <5>1, <5>2, <5>3, <5>4
      <4>2. CASE i = m + 1
        <5>0. j \in 1 .. Len(b)
          BY <4>2
        <5> HIDE DEF a, b
        <5>1. Len(a) + j \in 1 .. Len(a \o b)
          BY <3>3, <5>0
        <5>2. (a \o b)[Len(a) + j] = b[j]
          BY <3>3, <5>0
        <5>3. g[m + 1] = a \o b /\ ss[i] = b
          BY <3>1, <4>2 DEF a, b
        <5> QED
          BY <5>1, <5>2, <5>3
      <4>3. i \in 1 .. m \/ i = m + 1
        OBVIOUS
      <4> QED
        BY <4>1, <4>2, <4>3
    <3>6. m + 1 \in Nat /\ g[m + 1] \in Seq(X)
      BY <3>1, <3>3
    <3> QED
      BY <3>4, <3>5, <3>6
  <2> HIDE DEF S
  <2>10. n \in S
    BY <2>1, <2>8, <2>9, AlongTheList
  <2>11. all(n)
    BY <2>10 DEF S
  <2>12. PICK flat : flat = FlattenSeq(ss)
    OBVIOUS
  <2>13. flat = g[n]
    BY <2>5, <2>12
  <2>14. flat \in Seq(X)
    BY <2>11, <2>13
  <2>15. \A k \in 1 .. Len(flat) : \E i \in 1 .. n : \E j \in 1 .. Len(ss[i]) : flat[k] = ss[i][j]
    BY <2>11, <2>13
  <2>16. \A i \in 1 .. n : \A j \in 1 .. Len(ss[i]) : \E k \in 1 .. Len(flat) : flat[k] = ss[i][j]
    BY <2>11, <2>13
  <2> HIDE DEF all
  <2> QED
    BY <2>12, <2>14, <2>15, <2>16 DEF n
<1> QED
  BY <1>1, <1>2

-----------------------------------------------------------------------------
(* What a file has in hand, and the plan made of it.                         *)
(* What a package has in hand, as the files describe it.                     *)
Rows(p) == Range(p.rows)
Listings(p) == UNION {Range(p.cnmts[m].contents) : m \in DOMAIN p.cnmts}
KeptMeta(p, m) ==
  [id |-> m, title |-> p.cnmts[m].title, type |-> p.cnmts[m].type,
   version |-> p.cnmts[m].version, contents |-> p.cnmts[m].contents]
MetasOf(p) == {KeptMeta(p, m) : m \in {m \in DOMAIN p.cnmts : p.cnmts[m].type \in Installable}}

LEMMA WhereIsThere ==
  ASSUME NEW s, NEW Test(_) PROVE Where(s, Test) \subseteq DOMAIN s
BY DEF Where

LEMMA ContainedRows ==
  ASSUME NEW p, IsTruthful(p)
  PROVE  Contained(p) \in Seq(Rows(p))
<1>1. p.rows \in Seq(Rows(p))
  BY DEF IsTruthful, Rows
<1> DEFINE P == Where(p.rows, LAMBDA r : r.ext \in {"nca", "ncz"})
<1>2. P \subseteq DOMAIN p.rows
  BY DEF Where
<1>3. Contained(p) = Those(p.rows, P)
  BY DEF Contained
<1> HIDE DEF P
<1> QED
  BY <1>1, <1>2, <1>3, ThoseAreThere

(* What a meta ships is listed in it, fragments left out.                    *)
LEMMA ShippedIsListed ==
  ASSUME NEW p, IsTruthful(p), NEW m \in MetasOf(p)
  PROVE  /\ m.id \in DOMAIN p.cnmts /\ m.version \in Nat
         /\ m.contents \in Seq(Listings(p)) /\ Shipped(m) \in Seq(Listings(p))
<1>1. PICK i \in DOMAIN p.cnmts : m = KeptMeta(p, i)
  BY DEF MetasOf
<1>2. m.id = i /\ m.contents = p.cnmts[i].contents /\ m.version = p.cnmts[i].version
  BY <1>1 DEF KeptMeta
<1>3. p.cnmts[i].contents \in Seq(Range(p.cnmts[i].contents)) /\ p.cnmts[i].version \in Nat
  BY DEF IsTruthful
<1>4. Range(p.cnmts[i].contents) \subseteq Listings(p)
  BY DEF Listings
<1>5. m.contents \in Seq(Listings(p))
  <2> DEFINE s == p.cnmts[i].contents
             R == Range(p.cnmts[i].contents)
             T == Listings(p)
  <2>1. s \in Seq(R) /\ R \subseteq T /\ m.contents = s
    BY <1>2, <1>3, <1>4
  <2> HIDE DEF s, R, T
  <2>2. s \in Seq(T)
    BY <2>1
  <2> QED
    BY <2>1, <2>2 DEF T
<1> DEFINE P == Where(m.contents, LAMBDA c : c.type # "DeltaFragment")
<1>6. P \subseteq DOMAIN m.contents
  BY DEF Where
<1>7. Shipped(m) = Those(m.contents, P)
  BY DEF Shipped
<1> HIDE DEF P
<1>8. Shipped(m) \in Seq(Listings(p))
  BY <1>5, <1>6, <1>7, ThoseAreThere
<1> QED
  BY <1>2, <1>3, <1>5, <1>8

(* What is listed is no meta, has an id, and the size its header gives.      *)
LEMMA ListingsAreTrue ==
  ASSUME NEW p, IsTruthful(p), NEW c \in Listings(p)
  PROVE  /\ c.id \notin DOMAIN p.cnmts /\ c.id # NoControl
         /\ \A r \in Range(Contained(p)) : r.id = c.id => c.size = TrueSize(r)
<1>1. PICK m \in DOMAIN p.cnmts : c \in Range(p.cnmts[m].contents)
  BY DEF Listings
<1> QED
  BY <1>1 DEF IsTruthful

(* The plan's input: what the metas ship, and nothing else.                  *)
LEMMA WantedIsShipped ==
  ASSUME NEW p, IsTruthful(p), metas \in Seq(MetasOf(p))
  PROVE  /\ Wanted \in Seq(Listings(p))
         /\ \A k \in 1 .. Len(Wanted) : \E i \in 1 .. Len(metas) :
              \E j \in 1 .. Len(Shipped(metas[i])) : Wanted[k] = Shipped(metas[i])[j]
         /\ \A i \in 1 .. Len(metas) : \A j \in 1 .. Len(Shipped(metas[i])) :
              \E k \in 1 .. Len(Wanted) : Wanted[k] = Shipped(metas[i])[j]
<1> DEFINE L == Listings(p)
           ss == [i \in DOMAIN metas |-> Shipped(metas[i])]
<1>1. DOMAIN metas = 1 .. Len(metas) /\ Len(metas) \in Nat
  OBVIOUS
<1>2. \A i \in 1 .. Len(metas) : metas[i] \in MetasOf(p)
  OBVIOUS
<1>3. \A i \in 1 .. Len(metas) : Shipped(metas[i]) \in Seq(L)
  BY <1>2, ShippedIsListed
<1> HIDE DEF L
<1>4. ss \in Seq(Seq(L)) /\ Len(ss) = Len(metas) /\ \A i \in 1 .. Len(metas) : ss[i] = Shipped(metas[i])
  BY <1>1, <1>3
<1>5. Wanted = FlattenSeq(ss)
  BY DEF Wanted
<1> HIDE DEF ss
<1>6. /\ FlattenSeq(ss) \in Seq(L)
      /\ \A k \in 1 .. Len(FlattenSeq(ss)) :
           \E i \in 1 .. Len(ss) : \E j \in 1 .. Len(ss[i]) : FlattenSeq(ss)[k] = ss[i][j]
      /\ \A i \in 1 .. Len(ss) : \A j \in 1 .. Len(ss[i]) :
           \E k \in 1 .. Len(FlattenSeq(ss)) : FlattenSeq(ss)[k] = ss[i][j]
  BY <1>4, FlattenedIsAll
<1>7. PICK w : w = FlattenSeq(ss)
  OBVIOUS
<1>8. /\ w \in Seq(L)
      /\ \A k \in 1 .. Len(w) : \E i \in 1 .. Len(ss) : \E j \in 1 .. Len(ss[i]) : w[k] = ss[i][j]
      /\ \A i \in 1 .. Len(ss) : \A j \in 1 .. Len(ss[i]) : \E k \in 1 .. Len(w) : w[k] = ss[i][j]
  BY <1>6, <1>7
<1>9. ASSUME NEW k \in 1 .. Len(w)
      PROVE  \E i \in 1 .. Len(metas) : \E j \in 1 .. Len(Shipped(metas[i])) : w[k] = Shipped(metas[i])[j]
  <2>1. PICK i \in 1 .. Len(ss) : \E j \in 1 .. Len(ss[i]) : w[k] = ss[i][j]
    BY <1>8
  <2>2. i \in 1 .. Len(metas) /\ ss[i] = Shipped(metas[i])
    BY <1>4
  <2> QED
    BY <2>1, <2>2
<1>10. ASSUME NEW i \in 1 .. Len(metas), NEW j \in 1 .. Len(Shipped(metas[i]))
       PROVE  \E k \in 1 .. Len(w) : w[k] = Shipped(metas[i])[j]
  <2>1. i \in 1 .. Len(ss) /\ ss[i] = Shipped(metas[i])
    BY <1>4
  <2>2. j \in 1 .. Len(ss[i])
    BY <2>1
  <2> QED
    BY <1>8, <2>1, <2>2
<1>11. Wanted = w
  BY <1>5, <1>7
<1> HIDE DEF L
<1>12. Wanted \in Seq(Listings(p))
  BY <1>8, <1>11 DEF L
<1> QED
  BY <1>9, <1>10, <1>11, <1>12

(* FindContentEntry: an entry of that id, where there is one.                *)
LEMMA FoundIsThere ==
  ASSUME NEW E, entries \in Seq(E), NEW id, FindContentEntry(id) # 0
  PROVE  FindContentEntry(id) \in 1 .. Len(entries) /\ entries[FindContentEntry(id)].id = id
<1> DEFINE I == {i \in 1 .. Len(entries) : entries[i].id = id}
<1>1. FindContentEntry(id) = IF I # {} THEN Min(I) ELSE 0
  BY DEF FindContentEntry, SelectInSeq
<1>2. I \subseteq Nat /\ \A i \in I : i \in 1 .. Len(entries) /\ entries[i].id = id
  OBVIOUS
<1> HIDE DEF I
<1>3. I # {} /\ FindContentEntry(id) = Min(I)
  BY <1>1
<1>4. \E m \in I : \A n \in I : m <= n
  BY <1>2, <1>3, LeastNatural
<1>5. Min(I) \in I
  BY <1>4 DEF Min
<1> QED
  BY <1>2, <1>3, <1>5

(* The elements of a concatenation, and of some places of a list.            *)
LEMMA JoinedElements ==
  ASSUME NEW X, NEW u \in Seq(X), NEW v \in Seq(X)
  PROVE  u \o v \in Seq(X) /\ Range(u \o v) = Range(u) \cup Range(v)
<1>1. /\ u \o v \in Seq(X) /\ Len(u \o v) = Len(u) + Len(v)
      /\ Len(u) \in Nat /\ Len(v) \in Nat
      /\ \A i \in 1 .. Len(u) : (u \o v)[i] = u[i]
      /\ \A i \in 1 .. Len(v) : (u \o v)[Len(u) + i] = v[i]
  BY Concatenated
<1>2. PICK w : w = u \o v
  OBVIOUS
<1>3. PICK m \in Nat : m = Len(u)
  BY <1>1
<1>4. PICK n \in Nat : n = Len(v)
  BY <1>1
<1>5. /\ w \in Seq(X) /\ Len(w) = m + n
      /\ \A i \in 1 .. m : w[i] = u[i]
      /\ \A i \in 1 .. n : w[m + i] = v[i]
  BY <1>1, <1>2, <1>3, <1>4
<1>6. ASSUME NEW k \in 1 .. m + n
      PROVE  (\E i \in 1 .. m : w[k] = u[i]) \/ (\E i \in 1 .. n : w[k] = v[i])
  <2>1. CASE k <= m
    <3>1. k \in 1 .. m
      BY <2>1
    <3> QED
      BY <1>5, <3>1
  <2>2. CASE ~(k <= m)
    <3>1. k - m \in 1 .. n /\ m + (k - m) = k
      BY <2>2
    <3>2. w[m + (k - m)] = v[k - m]
      BY <1>5, <3>1
    <3> QED
      BY <3>1, <3>2
  <2> QED
    BY <2>1, <2>2
<1>7. \A i \in 1 .. m : i \in 1 .. m + n
  OBVIOUS
<1>8. \A i \in 1 .. n : m + i \in 1 .. m + n
  OBVIOUS
<1>9. DOMAIN u = 1 .. m /\ DOMAIN v = 1 .. n /\ DOMAIN w = 1 .. m + n
  BY <1>3, <1>4, <1>5
<1>10. \A x \in Range(w) : x \in Range(u) \cup Range(v)
  <2> SUFFICES ASSUME NEW k \in 1 .. m + n PROVE w[k] \in Range(u) \cup Range(v)
    BY <1>9 DEF Range
  <2> QED
    BY <1>6, <1>9 DEF Range
<1>11. \A x \in Range(u) : x \in Range(w)
  <2> SUFFICES ASSUME NEW i \in 1 .. m PROVE u[i] \in Range(w)
    BY <1>9 DEF Range
  <2> QED
    BY <1>5, <1>7, <1>9 DEF Range
<1>12. \A x \in Range(v) : x \in Range(w)
  <2> SUFFICES ASSUME NEW i \in 1 .. n PROVE v[i] \in Range(w)
    BY <1>9 DEF Range
  <2> QED
    BY <1>5, <1>8, <1>9 DEF Range
<1>13. Range(w) = Range(u) \cup Range(v)
  BY <1>10, <1>11, <1>12
<1> QED
  BY <1>2, <1>5, <1>13

LEMMA ThoseElements ==
  ASSUME NEW X, NEW s \in Seq(X), NEW P, P \subseteq DOMAIN s
  PROVE  Those(s, P) \in Seq(X) /\ Range(Those(s, P)) = {s[i] : i \in P}
BY ThoseAreThere DEF Range

(* The order of the metas: the same metas.                                   *)
LEMMA OfRankElements ==
  ASSUME NEW X, NEW s \in Seq(X), NEW k
  PROVE  OfRank(s, k) \in Seq(X) /\ Range(OfRank(s, k)) = {x \in Range(s) : Rank(x) = k}
<1> DEFINE P == {i \in DOMAIN s : Rank(s[i]) = k}
<1>1. P \subseteq DOMAIN s
  OBVIOUS
<1>2. OfRank(s, k) = Those(s, P)
  BY DEF OfRank, Where
<1>3. {s[i] : i \in P} = {x \in Range(s) : Rank(x) = k}
  BY DEF Range
<1> HIDE DEF P
<1> QED
  BY <1>1, <1>2, <1>3, ThoseElements

LEMMA SortKeeps ==
  ASSUME NEW X, NEW s \in Seq(X)
  PROVE  StableSort(s) \in Seq(X) /\ Range(StableSort(s)) = Range(s)
<1>1. PICK a, b, c, d : a = OfRank(s, 0) /\ b = OfRank(s, 1) /\ c = OfRank(s, 2) /\ d = OfRank(s, 3)
  OBVIOUS
<1>2. a \in Seq(X) /\ b \in Seq(X) /\ c \in Seq(X) /\ d \in Seq(X)
  BY <1>1, OfRankElements
<1>3. \A m : Rank(m) = 0 \/ Rank(m) = 1 \/ Rank(m) = 2 \/ Rank(m) = 3
  BY DEF Rank
<1>4. Range(a) \cup Range(b) \cup Range(c) \cup Range(d) = Range(s)
  <2>1. /\ Range(a) = {x \in Range(s) : Rank(x) = 0} /\ Range(b) = {x \in Range(s) : Rank(x) = 1}
        /\ Range(c) = {x \in Range(s) : Rank(x) = 2} /\ Range(d) = {x \in Range(s) : Rank(x) = 3}
    BY <1>1, OfRankElements
  <2> QED
    BY <1>3, <2>1
<1>5. PICK ab : ab = a \o b
  OBVIOUS
<1>6. PICK abc : abc = ab \o c
  OBVIOUS
<1>7. PICK all : all = abc \o d
  OBVIOUS
<1>8. ab \in Seq(X) /\ Range(ab) = Range(a) \cup Range(b)
  BY <1>2, <1>5, JoinedElements
<1>9. abc \in Seq(X) /\ Range(abc) = Range(ab) \cup Range(c)
  BY <1>2, <1>6, <1>8, JoinedElements
<1>10. all \in Seq(X) /\ Range(all) = Range(abc) \cup Range(d)
  BY <1>2, <1>7, <1>9, JoinedElements
<1>11. StableSort(s) = all
  BY <1>1, <1>5, <1>6, <1>7 DEF StableSort
<1>12. Range(all) = Range(s)
  BY <1>4, <1>8, <1>9, <1>10
<1> QED
  BY <1>10, <1>11, <1>12

(* Of the places of a list, one where a number is largest.                   *)
LEMMA GreatestPlace ==
  ASSUME NEW n \in Nat, NEW P, P \subseteq 1 .. n, P # {}, NEW f, \A i \in P : f[i] \in Nat
  PROVE  \E i \in P : \A j \in P : f[j] <= f[i]
<1> DEFINE top(m) == \A x \in P : x <= m => \E i \in P : \A j \in P : j <= m => f[j] <= f[i]
           S == {m \in Nat : top(m)}
<1>0. \A i \in P : i \in Nat /\ 1 <= i /\ i <= n
  OBVIOUS
<1>1. 1 \in S
  <2> SUFFICES ASSUME NEW x \in P, x <= 1 PROVE \E i \in P : \A j \in P : j <= 1 => f[j] <= f[i]
    OBVIOUS
  <2>1. x = 1 /\ \A j \in P : j <= 1 => j = 1
    BY <1>0
  <2>2. \A j \in P : j <= 1 => f[j] <= f[x]
    BY <2>1
  <2> QED
    BY <2>2
<1>2. ASSUME NEW m \in 1 .. n - 1, m \in S PROVE m + 1 \in S
  <2> SUFFICES \A x \in P : x <= m + 1 => \E i \in P : \A j \in P : j <= m + 1 => f[j] <= f[i]
    OBVIOUS
  <2>1. \A j \in P : j <= m + 1 => j <= m \/ j = m + 1
    BY <1>0
  <2>2. CASE m + 1 \notin P
    <3>1. \A j \in P : j <= m + 1 => j <= m
      BY <2>1, <2>2
    <3> QED
      BY <1>2, <3>1
  <2>3. CASE m + 1 \in P
    <3>1. CASE \E x \in P : x <= m
      <4>1. PICK i \in P : \A j \in P : j <= m => f[j] <= f[i]
        BY <1>2, <3>1
      <4>2. CASE f[m + 1] <= f[i]
        <5>1. \A j \in P : j <= m + 1 => f[j] <= f[i]
          BY <2>1, <4>1, <4>2
        <5> QED
          BY <5>1
      <4>3. CASE ~(f[m + 1] <= f[i])
        <5>1. f[i] \in Nat /\ f[m + 1] \in Nat /\ f[m + 1] <= f[m + 1]
          BY <2>3
        <5>2. \A j \in P : j <= m => f[j] <= f[m + 1]
          <6> SUFFICES ASSUME NEW j \in P, j <= m PROVE f[j] <= f[m + 1]
            OBVIOUS
          <6>1. f[j] \in Nat /\ f[j] <= f[i]
            BY <4>1
          <6> QED
            BY <4>3, <5>1, <6>1
        <5>3. \A j \in P : j <= m + 1 => f[j] <= f[m + 1]
          BY <2>1, <5>1, <5>2
        <5> QED
          BY <2>3, <5>3
      <4> QED
        BY <4>2, <4>3
    <3>2. CASE ~\E x \in P : x <= m
      <4>1. \A j \in P : j <= m + 1 => j = m + 1
        BY <2>1, <3>2
      <4>2. f[m + 1] <= f[m + 1]
        BY <2>3
      <4> QED
        BY <2>3, <4>1, <4>2
    <3> QED
      BY <3>1, <3>2
  <2> QED
    BY <2>2, <2>3
<1>3. n \in 1 .. n
  <2>1. PICK x \in P : TRUE
    OBVIOUS
  <2>2. x \in Nat /\ 1 <= x /\ x <= n
    BY <1>0
  <2> QED
    BY <2>2
<1> HIDE DEF S
<1>4. n \in S
  BY <1>1, <1>2, <1>3, AlongTheList
<1>5. top(n)
  BY <1>4 DEF S
<1> QED
  BY <1>0, <1>5

(* Effective: one of the metas.                                              *)
LEMMA EffectiveIsAMeta ==
  ASSUME NEW p, IsTruthful(p), metas \in Seq(MetasOf(p)), metas # <<>>
  PROVE  Effective \in MetasOf(p)
<1>1. DOMAIN metas = 1 .. Len(metas) /\ Len(metas) \in Nat /\ Len(metas) >= 1
  OBVIOUS
<1>2. \A i \in 1 .. Len(metas) : metas[i] \in MetasOf(p)
  OBVIOUS
<1>3. \A i \in 1 .. Len(metas) : metas[i].version \in Nat
  BY <1>2, ShippedIsListed
<1> DEFINE game == {i \in DOMAIN metas : metas[i].type \in CarriesGameVersion}
           newest == {i \in game : \A j \in game : metas[j].version <= metas[i].version}
           v == [i \in 1 .. Len(metas) |-> metas[i].version]
<1>4. Effective = IF game = {} THEN Primary ELSE metas[Max(newest)]
  BY DEF Effective
<1>5. CASE game = {}
  BY <1>1, <1>2, <1>4, <1>5 DEF Primary
<1>6. CASE game # {}
  <2>1. game \subseteq 1 .. Len(metas)
    BY <1>1
  <2>2. \A i \in game : v[i] \in Nat /\ v[i] = metas[i].version
    BY <1>3, <2>1
  <2>a. newest \subseteq game
    OBVIOUS
  <2>b. \A i \in game : (\A j \in game : metas[j].version <= metas[i].version) => i \in newest
    OBVIOUS
  <2> HIDE DEF game, newest, v
  <2>3. PICK i \in game : \A j \in game : v[j] <= v[i]
    BY <1>1, <1>6, <2>1, <2>2, GreatestPlace
  <2>4. i \in newest
    BY <2>2, <2>3, <2>b
  <2>5. newest \subseteq 1 .. Len(metas)
    BY <2>1, <2>a
  <2> DEFINE id == [k \in 1 .. Len(metas) |-> k]
  <2>6. \A k \in newest : id[k] = k /\ id[k] \in Nat
    BY <2>5
  <2> HIDE DEF id
  <2>7. PICK m \in newest : \A k \in newest : id[k] <= id[m]
    BY <1>1, <2>4, <2>5, <2>6, GreatestPlace
  <2>8. \A k \in newest : k <= m
    BY <2>6, <2>7
  <2>9. Max(newest) \in newest
    BY <2>8 DEF Max
  <2> QED
    BY <1>2, <1>4, <1>6, <2>5, <2>9
<1> QED
  BY <1>5, <1>6

(* A plan fits the contents wanted and the container's entries: each of its   *)
(* items is of a wanted content, at its entry's size; every content wanted    *)
(* has an item, and no two items are of the same.                            *)
Job(id, kind, size, done, skipped) ==
  [id |-> id, kind |-> kind, size |-> size, done |-> done, skipped |-> skipped]
Fits(w, es, cs) ==
  /\ Len(cs) \in Nat /\ DOMAIN cs = 1 .. Len(cs)
  /\ \A k \in 1 .. Len(cs) : \E i \in 1 .. Len(w) : \E f \in 1 .. Len(es) :
       /\ es[f].id = w[i].id
       /\ cs[k] = Job(w[i].id, w[i].type, es[f].size, cs[k].done, cs[k].skipped)
  /\ \A k, l \in 1 .. Len(cs) : cs[k].id = cs[l].id => k = l
  /\ \A i \in 1 .. Len(w) : \E k \in 1 .. Len(cs) : cs[k].id = w[i].id

(* A list of the elements at these places, none of them twice.               *)
HoldsOnce(t, s, P) ==
  Range(t) = {s[i] : i \in P} /\ \A k, l \in DOMAIN t : t[k].id = t[l].id => k = l

(* Two parts of the places, one after the other: every place once.           *)
LEMMA PartsAreDistinct ==
  ASSUME NEW X, NEW s \in Seq(X), NEW A, NEW B, A \subseteq DOMAIN s, B \subseteq DOMAIN s,
         A \cap B = {}, \A i, j \in A \cup B : s[i].id = s[j].id => i = j,
         NEW t, t = Those(s, A) \o Those(s, B)
  PROVE  t \in Seq(X) /\ HoldsOnce(t, s, A \cup B)
<1>1. PICK u, v : u = Those(s, A) /\ v = Those(s, B)
  OBVIOUS
<1>2. u \in Seq(X) /\ v \in Seq(X) /\ Range(u) = {s[i] : i \in A} /\ Range(v) = {s[i] : i \in B}
  BY <1>1, ThoseElements
<1>3. t = u \o v
  BY <1>1
<1>4. t \in Seq(X) /\ Range(t) = Range(u) \cup Range(v)
  BY <1>2, <1>3, JoinedElements
<1>5. Range(t) = {s[i] : i \in A \cup B}
  BY <1>2, <1>4
<1>6. \A i, j \in A : s[i].id = s[j].id => i = j
  OBVIOUS
<1>7. \A i, j \in B : s[i].id = s[j].id => i = j
  OBVIOUS
<1>8. \A k, l \in DOMAIN u : u[k].id = u[l].id => k = l
  BY <1>1, <1>6, ThoseAreDistinct
<1>9. \A k, l \in DOMAIN v : v[k].id = v[l].id => k = l
  BY <1>1, <1>7, ThoseAreDistinct
<1>10. /\ Len(t) = Len(u) + Len(v) /\ Len(u) \in Nat /\ Len(v) \in Nat
       /\ \A i \in 1 .. Len(u) : t[i] = u[i]
       /\ \A i \in 1 .. Len(v) : t[Len(u) + i] = v[i]
  BY <1>2, <1>3, Concatenated
<1>11. DOMAIN u = 1 .. Len(u) /\ DOMAIN v = 1 .. Len(v) /\ DOMAIN t = 1 .. Len(t)
  BY <1>2, <1>4
<1>12. \A k \in DOMAIN u, l \in DOMAIN v : u[k].id # v[l].id
  <2> SUFFICES ASSUME NEW k \in DOMAIN u, NEW l \in DOMAIN v, u[k].id = v[l].id PROVE FALSE
    OBVIOUS
  <2>0. u[k] \in Range(u) /\ v[l] \in Range(v)
    BY DEF Range
  <2>1. PICK i \in A : u[k] = s[i]
    BY <1>2, <2>0
  <2>2. PICK j \in B : v[l] = s[j]
    BY <1>2, <2>0
  <2>3. s[i].id = s[j].id
    BY <2>1, <2>2
  <2> QED
    BY <2>3
<1>13. PICK m \in Nat : m = Len(u)
  BY <1>10
<1>14. PICK n \in Nat : n = Len(v)
  BY <1>10
<1>15. /\ Len(t) = m + n
       /\ \A i \in 1 .. m : t[i] = u[i]
       /\ \A i \in 1 .. n : t[m + i] = v[i]
  BY <1>10, <1>13, <1>14
<1>16. ASSUME NEW k \in 1 .. m + n
       PROVE  \/ k \in 1 .. m /\ t[k] = u[k]
              \/ k - m \in 1 .. n /\ t[k] = v[k - m]
  <2>1. CASE k <= m
    <3>1. k \in 1 .. m
      BY <2>1
    <3> QED
      BY <1>15, <3>1
  <2>2. CASE ~(k <= m)
    <3>1. k - m \in 1 .. n /\ m + (k - m) = k
      BY <2>2
    <3>2. t[m + (k - m)] = v[k - m]
      BY <1>10, <1>13, <1>14, <3>1
    <3> QED
      BY <3>1, <3>2
  <2> QED
    BY <2>1, <2>2
<1>17. ASSUME NEW k \in 1 .. m + n, NEW l \in 1 .. m + n, t[k].id = t[l].id PROVE k = l
  <2>1. CASE k \in 1 .. m /\ t[k] = u[k] /\ l \in 1 .. m /\ t[l] = u[l]
    BY <1>8, <1>11, <1>13, <1>17, <2>1
  <2>2. CASE k - m \in 1 .. n /\ t[k] = v[k - m] /\ l - m \in 1 .. n /\ t[l] = v[l - m]
    <3>1. k - m = l - m
      BY <1>9, <1>11, <1>14, <1>17, <2>2
    <3> QED
      BY <3>1
  <2>3. CASE k \in 1 .. m /\ t[k] = u[k] /\ l - m \in 1 .. n /\ t[l] = v[l - m]
    BY <1>11, <1>12, <1>13, <1>14, <1>17, <2>3
  <2>4. CASE l \in 1 .. m /\ t[l] = u[l] /\ k - m \in 1 .. n /\ t[k] = v[k - m]
    BY <1>11, <1>12, <1>13, <1>14, <1>17, <2>4
  <2> QED
    BY <1>16, <2>1, <2>2, <2>3, <2>4
<1>18. \A k, l \in DOMAIN t : t[k].id = t[l].id => k = l
  BY <1>11, <1>15, <1>17
<1> QED
  BY <1>4, <1>5, <1>18 DEF HoldsOnce

(* The first places of what is wanted: each id once.                         *)
Firsts(w) == {i \in DOMAIN w : \A j \in 1 .. i - 1 : w[j].id # w[i].id}

LEMMA EachIdOnce ==
  ASSUME NEW X, NEW w \in Seq(X)
  PROVE  /\ \A i, j \in Firsts(w) : w[i].id = w[j].id => i = j
         /\ \A i \in 1 .. Len(w) : \E j \in Firsts(w) : w[j].id = w[i].id
<1>1. DOMAIN w = 1 .. Len(w) /\ Len(w) \in Nat
  OBVIOUS
<1>2. PICK n \in Nat : n = Len(w)
  BY <1>1
<1>3. \A i \in Firsts(w) : i \in 1 .. n /\ \A j \in 1 .. i - 1 : w[j].id # w[i].id
  BY <1>1, <1>2 DEF Firsts
<1>4. ASSUME NEW i \in Firsts(w), NEW j \in Firsts(w), w[i].id = w[j].id PROVE i = j
  <2>1. i \in 1 .. n /\ j \in 1 .. n
    BY <1>3
  <2>2. ~(i < j)
    <3> SUFFICES ASSUME i < j PROVE FALSE
      OBVIOUS
    <3>1. i \in 1 .. j - 1
      BY <2>1
    <3> QED
      BY <1>3, <1>4, <3>1
  <2>3. ~(j < i)
    <3> SUFFICES ASSUME j < i PROVE FALSE
      OBVIOUS
    <3>1. j \in 1 .. i - 1
      BY <2>1
    <3> QED
      BY <1>3, <1>4, <3>1
  <2> QED
    BY <2>1, <2>2, <2>3
<1>5. ASSUME NEW i \in 1 .. n PROVE \E j \in Firsts(w) : w[j].id = w[i].id
  <2> DEFINE S == {j \in 1 .. n : w[j].id = w[i].id}
  <2>1. S \subseteq Nat /\ i \in S /\ \A j \in S : j \in 1 .. n /\ w[j].id = w[i].id
    OBVIOUS
  <2>2. \A j \in 1 .. n : w[j].id = w[i].id => j \in S
    OBVIOUS
  <2> HIDE DEF S
  <2>3. PICK j \in S : \A k \in S : j <= k
    BY <2>1, LeastNatural
  <2>4. j \in 1 .. n /\ w[j].id = w[i].id
    BY <2>1
  <2>5. \A k \in 1 .. j - 1 : w[k].id # w[j].id
    <3> SUFFICES ASSUME NEW k \in 1 .. j - 1, w[k].id = w[j].id PROVE FALSE
      OBVIOUS
    <3>1. k \in 1 .. n /\ ~(j <= k)
      BY <2>4
    <3>2. k \in S
      BY <2>2, <2>4, <3>1
    <3> QED
      BY <2>3, <3>1, <3>2
  <2>6. j \in Firsts(w)
    BY <1>1, <1>2, <2>4, <2>5 DEF Firsts
  <2> QED
    BY <2>4, <2>6
<1> QED
  BY <1>2, <1>4, <1>5

(* FillTaskContents: what is wanted, each once.                              *)
ItemOf(c, e, no) == Job(c.id, c.type, e.size, no, no)

LEMMA ItemIsOfItsEntry ==
  ASSUME NEW E, entries \in Seq(E), NEW c, FindContentEntry(c.id) # 0, NEW no, no = FALSE
  PROVE  \E f \in 1 .. Len(entries) : entries[f].id = c.id /\ Item(c) = ItemOf(c, entries[f], no)
BY FoundIsThere DEF Item, ItemOf, Job

LEMMA PlanHoldsEachOnce ==
  ASSUME NEW X, Wanted \in Seq(X)
  PROVE  \E Y : /\ FillTaskContents \in Seq(Y)
                /\ Range(FillTaskContents) = {Item(Wanted[i]) : i \in Firsts(Wanted)}
                /\ \A k, l \in DOMAIN FillTaskContents :
                     FillTaskContents[k].id = FillTaskContents[l].id => k = l
<1>1. PICK w : w = Wanted
  OBVIOUS
<1>2. PICK P : P = Firsts(w)
  OBVIOUS
<1>3. w \in Seq(X) /\ P \subseteq DOMAIN w /\ DOMAIN w = 1 .. Len(w) /\ Len(w) \in Nat
  BY <1>1, <1>2 DEF Firsts
<1> DEFINE items == [i \in DOMAIN w |-> Item(w[i])]
           Y == {Item(w[i]) : i \in DOMAIN w}
           A == {i \in P : items[i].kind = "Meta"}
           B == {i \in P : items[i].kind # "Meta"}
<1>4. FillTaskContents = PlanOf(Firsts(Wanted))
  BY DEF FillTaskContents, Firsts
<1>5. FillTaskContents = Those(items, A) \o Those(items, B)
  BY <1>1, <1>2, <1>4 DEF PlanOf
<1>6. items \in Seq(Y) /\ DOMAIN items = DOMAIN w /\ \A i \in DOMAIN w : items[i] = Item(w[i])
  BY <1>3
<1>7. \A i \in DOMAIN w : items[i].id = w[i].id
  BY <1>6 DEF Item
<1>8. A \cap B = {} /\ A \cup B = P
  OBVIOUS
<1> HIDE DEF items, A, B, Y
<1>9. \A i, j \in P : w[i].id = w[j].id => i = j
  BY <1>2, <1>3, EachIdOnce
<1>10. \A i, j \in A \cup B : items[i].id = items[j].id => i = j
  BY <1>3, <1>7, <1>8, <1>9
<1>11. PICK t : t = Those(items, A) \o Those(items, B)
  OBVIOUS
<1>12. A \subseteq DOMAIN items /\ B \subseteq DOMAIN items
  BY <1>3, <1>6, <1>8
<1>a. t \in Seq(Y) /\ HoldsOnce(t, items, A \cup B)
  BY <1>6, <1>8, <1>10, <1>11, <1>12, PartsAreDistinct
<1>13. /\ t \in Seq(Y) /\ Range(t) = {items[i] : i \in A \cup B}
       /\ \A k, l \in DOMAIN t : t[k].id = t[l].id => k = l
  BY <1>a DEF HoldsOnce
<1>14. {items[i] : i \in A \cup B} = {Item(w[i]) : i \in P}
  BY <1>3, <1>6, <1>8
<1>15. FillTaskContents = t
  BY <1>5, <1>11
<1>16. FillTaskContents \in Seq(Y)
  BY <1>13, <1>15
<1>17. Range(FillTaskContents) = {Item(Wanted[i]) : i \in Firsts(Wanted)}
  BY <1>1, <1>2, <1>13, <1>14, <1>15
<1> QED
  BY <1>13, <1>15, <1>16, <1>17

LEMMA JobIsMarked ==
  ASSUME NEW id, NEW kind, NEW size, NEW skipped, NEW old, NEW new, NEW x,
         x = Job(id, kind, size, old, skipped)
  PROVE  /\ [x EXCEPT !.done = new] = Job(id, kind, size, new, skipped)
         /\ x.id = id /\ x.size = size /\ x.done = old /\ x.skipped = skipped
BY DEF Job

(* The plan as Prepare leaves it fits.                                       *)
LEMMA PlanIsMade ==
  ASSUME NEW X, Wanted \in Seq(X), NEW E, entries \in Seq(E),
         ~ \E i \in DOMAIN Wanted : FindContentEntry(Wanted[i].id) = 0
  PROVE  /\ Fits(Wanted, entries, MarkRead(FillTaskContents))
         /\ \A k \in 1 .. Len(MarkRead(FillTaskContents)) :
              MarkRead(FillTaskContents)[k].done => IsRead(MarkRead(FillTaskContents)[k])
<1>1. PICK w, t, es, no : w = Wanted /\ t = FillTaskContents /\ es = entries /\ no = FALSE
  OBVIOUS
<1>2. PICK Y : /\ t \in Seq(Y) /\ Range(t) = {Item(w[i]) : i \in Firsts(w)}
               /\ \A k, l \in DOMAIN t : t[k].id = t[l].id => k = l
  BY <1>1, PlanHoldsEachOnce
<1>3. PICK cs : cs = MarkRead(t)
  OBVIOUS
<1>4. DOMAIN t = 1 .. Len(t) /\ Len(t) \in Nat /\ DOMAIN w = 1 .. Len(w) /\ Len(w) \in Nat
  BY <1>1, <1>2
<1>5. /\ DOMAIN cs = DOMAIN t
      /\ \A k \in DOMAIN t : cs[k] = [t[k] EXCEPT !.done = IsRead(t[k])]
  BY <1>3 DEF MarkRead
<1>6. cs = [k \in 1 .. Len(t) |-> cs[k]]
  BY <1>3, <1>4, <1>5 DEF MarkRead
<1>7. Len(cs) = Len(t)
  BY <1>4, <1>6
<1>8. \A i \in DOMAIN w : \E f \in 1 .. Len(es) : es[f].id = w[i].id /\ Item(w[i]) = ItemOf(w[i], es[f], no)
  BY <1>1, ItemIsOfItsEntry
<1>9. \A k \in DOMAIN t : \E i \in Firsts(w) : t[k] = Item(w[i])
  BY <1>2 DEF Range
<1>10. \A i \in Firsts(w) : \E k \in DOMAIN t : t[k] = Item(w[i])
  BY <1>2 DEF Range
<1>11. Firsts(w) \subseteq DOMAIN w
  BY DEF Firsts
<1>12. ASSUME NEW k \in 1 .. Len(t)
       PROVE  /\ \E i \in 1 .. Len(w) : \E f \in 1 .. Len(es) :
                   /\ es[f].id = w[i].id
                   /\ cs[k] = Job(w[i].id, w[i].type, es[f].size, cs[k].done, cs[k].skipped)
              /\ cs[k].id = t[k].id
              /\ cs[k].done => IsRead(cs[k])
  <2>1. PICK i \in Firsts(w) : t[k] = Item(w[i])
    BY <1>4, <1>9
  <2>2. i \in 1 .. Len(w)
    BY <1>4, <1>11
  <2>3. PICK f \in 1 .. Len(es) : es[f].id = w[i].id /\ t[k] = ItemOf(w[i], es[f], no)
    BY <1>4, <1>8, <2>1, <2>2
  <2>4. PICK b : b = IsRead(t[k])
    OBVIOUS
  <2>5. t[k] = Job(w[i].id, w[i].type, es[f].size, no, no)
    BY <2>3 DEF ItemOf
  <2>6. cs[k] = Job(w[i].id, w[i].type, es[f].size, b, no) /\ t[k].id = w[i].id
    BY <1>4, <1>5, <2>4, <2>5, JobIsMarked
  <2>a. cs[k].id = w[i].id /\ cs[k].done = b /\ cs[k].skipped = no
    BY <2>6, JobIsMarked
  <2>b. cs[k] = Job(w[i].id, w[i].type, es[f].size, cs[k].done, cs[k].skipped)
    BY <2>6, <2>a
  <2>7. IsRead(cs[k]) = IsRead(t[k])
    BY <2>6, <2>a DEF IsRead
  <2> QED
    BY <2>2, <2>3, <2>4, <2>6, <2>7, <2>a, <2>b
<1>13. \A k, l \in 1 .. Len(cs) : cs[k].id = cs[l].id => k = l
  BY <1>2, <1>4, <1>7, <1>12
<1>14. ASSUME NEW i \in 1 .. Len(w) PROVE \E k \in 1 .. Len(cs) : cs[k].id = w[i].id
  <2>1. PICK j \in Firsts(w) : w[j].id = w[i].id
    BY <1>1, EachIdOnce
  <2>2. PICK k \in DOMAIN t : t[k] = Item(w[j])
    BY <1>10
  <2>3. t[k].id = w[j].id
    BY <2>2 DEF Item
  <2> QED
    BY <1>4, <1>7, <1>12, <2>1, <2>3
<1>15. Fits(w, es, cs)
  BY <1>4, <1>5, <1>7, <1>12, <1>13, <1>14 DEF Fits
<1> QED
  BY <1>1, <1>3, <1>7, <1>12, <1>15

-----------------------------------------------------------------------------
(* The plan and the records: what every step of a reading keeps.             *)
(* The entries are the container's, at their true size once it has been read *)
(* and as long as no call failed.                                            *)
EntriesKept ==
  /\ entries \in Seq(Range(entries)) /\ Len(entries) = Len(Contained(package))
  /\ \A i \in 1 .. Len(entries) :
       /\ {"id", "size", "row"} \subseteq DOMAIN entries[i]
       /\ entries[i].id = Contained(package)[i].id /\ entries[i].row = Contained(package)[i]
  /\ \A i \in 1 .. Len(entries) :
       faults = 0 /\ (step = "sizes" => i < index) => entries[i].size = TrueSize(entries[i].row)

(* The metas are the file's own, and the console holds them. *)
MetasKept == metas \in Seq(MetasOf(package)) /\ \A i \in 1 .. Len(metas) : Held(metas[i].id)

(* The plan fits, and what counts as fetched the console holds.              *)
PlanKept ==
  /\ Fits(Wanted, entries, contents)
  /\ \A k \in 1 .. Len(contents) : contents[k].done => Held(contents[k].id)

(* Where the reading is, and what it has by then.                            *)
PlanInv ==
  /\ package \in Packages /\ faults \in Nat /\ IsFiniteSet(readings) /\ step \in Reading \cup Over
  /\ step = "container" => index = 1
  /\ step = "sizes" => index \in 1 .. Len(entries)
  /\ step \in Reading => MetasKept
  /\ step \in {"running", "control"} => metas # <<>>
  /\ step \in Reading \ {"container"} => EntriesKept
  /\ step \in {"container", "sizes", "metas", "running", "control"} => control = NoControl
  /\ step \in {"plan", "query", "has", "confirm"} => control = NoControl \/ Fresh(control) \in placeholders
  /\ step \in {"query", "has", "confirm"} => PlanKept

AllTruthful == \A p \in Packages : IsTruthful(p)

(* What a call costs, it costs; what is dropped is what was to go.           *)
LEMMA CostIsCounted ==
  ASSUME faults \in Nat, NEW n \in Nat, Cost(n)
  PROVE  faults' \in Nat /\ (faults' = 0 => faults = 0 /\ n = 0)
BY DEF Cost

LEMMA DropIsCounted ==
  ASSUME faults \in Nat, NEW held, NEW gone, NEW cost \in Nat, IsFiniteSet(gone),
         DropPlaceholders(held, gone, cost)
  PROVE  faults' \in Nat /\ (faults' = 0 => faults = 0) /\ held \ gone \subseteq placeholders'
<1>1. PICK r \in SUBSET (gone \cap held) :
        Cost(cost + Cardinality(r)) /\ placeholders' = held \ (gone \ r)
  BY DEF DropPlaceholders
<1>2. Cardinality(r) \in Nat
  BY FS_Subset, FS_CardinalityType
<1>3. cost + Cardinality(r) \in Nat
  BY <1>2
<1>4. faults' \in Nat /\ (faults' = 0 => faults = 0)
  BY <1>1, <1>3, CostIsCounted
<1> QED
  BY <1>1, <1>4

LEMMA OneToGo == \A x : IsFiniteSet({x})
BY FS_Singleton

LEMMA ReadsCost ==
  ASSUME NEW id, NEW r \in MetaReads(id)
  PROVE  r.cost \in Nat /\ (r.stays \/ ~r.stays)
BY DEF MetaReads, MountFails

(* The entries stay what they are when nothing of them changes.              *)
LEMMA EntriesStay ==
  ASSUME EntriesKept, UNCHANGED <<package, entries>>, step # "sizes", step' # "sizes",
         faults' = 0 => faults = 0
  PROVE  EntriesKept'
BY DEF EntriesKept

LEMMA MetasStay ==
  ASSUME MetasKept, UNCHANGED <<package, metas, pick>>, stored \subseteq stored',
         \A i \in 1 .. Len(metas) : Fresh(metas[i].id) \in placeholders => Fresh(metas[i].id) \in placeholders'
  PROVE  MetasKept'
<1>1. \A i \in 1 .. Len(metas) : Fresh(metas[i].id)' = Fresh(metas[i].id)
  BY DEF Fresh
<1> QED
  BY <1>1 DEF MetasKept, Held

LEMMA WantedStays == ASSUME UNCHANGED metas PROVE Wanted' = Wanted
BY DEF Wanted

LEMMA HeldStays ==
  ASSUME UNCHANGED <<pick, placeholders, stored>> PROVE \A id : Held(id)' <=> Held(id)
BY DEF Held, Fresh

LEMMA PlanStays ==
  ASSUME PlanKept, UNCHANGED <<metas, entries, contents, pick, placeholders, stored>>
  PROVE  PlanKept'
<1>1. Fits(Wanted', entries', contents')
  BY WantedStays DEF PlanKept
<1>2. ASSUME NEW k \in 1 .. Len(contents), contents[k].done PROVE Held(contents[k].id)'
  <2>1. PICK id : id = contents[k].id
    OBVIOUS
  <2>2. Held(id)
    BY <1>2, <2>1 DEF PlanKept
  <2>3. Held(id)'
    BY <2>2, HeldStays
  <2> QED
    BY <2>1, <2>3 DEF Held, Fresh
<1> QED
  BY <1>1, <1>2 DEF PlanKept

(* The control content is none of the metas.                                 *)
LEMMA ControlIsNoMeta ==
  ASSUME IsTruthful(package), metas \in Seq(MetasOf(package)), metas # <<>>, EntriesKept
  PROVE  \A i \in 1 .. Len(metas) : metas[i].id # ControlContent \/ ControlContent = NoControl
<1> DEFINE p == package
<1>1. \A i \in 1 .. Len(metas) : metas[i] \in MetasOf(p)
  OBVIOUS
<1>2. \A i \in 1 .. Len(metas) : metas[i].id \in DOMAIN p.cnmts
  BY <1>1, ShippedIsListed
<1>3. CASE Named # <<>>
  <2>1. PICK m : m = Effective
    OBVIOUS
  <2>2. m \in MetasOf(p)
    BY <2>1, EffectiveIsAMeta
  <2>3. m.contents \in Seq(Listings(p))
    BY <2>2, ShippedIsListed
  <2> DEFINE P == {i \in DOMAIN m.contents : m.contents[i].type = "Control" /\ FindContentEntry(m.contents[i].id) # 0}
  <2>4. P \subseteq DOMAIN m.contents
    OBVIOUS
  <2>5. Named = Those(m.contents, P)
    BY <2>1 DEF Named, Where
  <2> HIDE DEF P
  <2>6. Named \in Seq(Listings(p))
    BY <2>3, <2>4, <2>5, ThoseElements
  <2>7. Named[1] \in Listings(p)
    BY <1>3, <2>6
  <2>8. Named[1].id \notin DOMAIN p.cnmts
    BY <2>7, ListingsAreTrue
  <2>9. ControlContent = Named[1].id
    BY <1>3 DEF ControlContent
  <2> QED
    BY <1>2, <2>8, <2>9
<1>4. CASE Named = <<>> /\ Scanned # <<>>
  <2> DEFINE P == {i \in DOMAIN entries : ReadContentHeader(entries[i].row) /\ entries[i].row.type = "Control"}
  <2>1. P \subseteq DOMAIN entries
    OBVIOUS
  <2>2. Scanned = Those(entries, P)
    BY DEF Scanned, Where
  <2>3. \A i \in P : entries[i].row.type = "Control"
    OBVIOUS
  <2> HIDE DEF P
  <2>4. entries \in Seq(Range(entries))
    BY DEF EntriesKept
  <2>5. Scanned \in Seq(Range(entries)) /\ Range(Scanned) = {entries[i] : i \in P}
    BY <2>1, <2>2, <2>4, ThoseElements
  <2>6. Scanned[1] \in Range(Scanned)
    BY <1>4, <2>5, Elements
  <2>7. PICK i \in P : Scanned[1] = entries[i]
    BY <2>5, <2>6
  <2>8. i \in 1 .. Len(entries)
    BY <2>1, <2>4
  <2>9. entries[i].id = Contained(p)[i].id /\ entries[i].row = Contained(p)[i] /\ i \in 1 .. Len(Contained(p))
    BY <2>8 DEF EntriesKept
  <2>10. Contained(p)[i] \in Rows(p)
    BY <2>9, ContainedRows
  <2>11. Contained(p)[i].id \notin DOMAIN p.cnmts
    BY <2>3, <2>9, <2>10 DEF Rows, IsTruthful
  <2>12. ControlContent = Scanned[1].id
    BY <1>4 DEF ControlContent
  <2> QED
    BY <1>2, <2>7, <2>9, <2>11, <2>12
<1>5. CASE Named = <<>> /\ Scanned = <<>>
  BY <1>5 DEF ControlContent
<1> QED
  BY <1>3, <1>4, <1>5

LEMMA ReadingStarts == ReadingInit => PlanInv
<1>1. IsFiniteSet({})
  BY FS_EmptySet
<1> QED
  BY <1>1 DEF ReadingInit, PlanInv, Reading, Over

LEMMA StutterKeepsPlan == PlanInv /\ UNCHANGED readingVars => PlanInv'
<1> SUFFICES ASSUME PlanInv, UNCHANGED readingVars PROVE PlanInv'
  OBVIOUS
<1>1. /\ UNCHANGED <<stored, placeholders, step, package, entries, index, metas, readings, control, contents, pick, faults>>
  BY DEF readingVars, run
<1>2. Wanted' = Wanted
  BY <1>1, WantedStays
<1>3. \A id : Held(id)' = Held(id) /\ Fresh(id)' = Fresh(id)
  BY <1>1 DEF Held, Fresh
<1>4. MetasKept => MetasKept'
  BY <1>1, <1>3 DEF MetasKept
<1>5. EntriesKept => EntriesKept'
  BY <1>1 DEF EntriesKept
<1>6. PlanKept => PlanKept'
  BY <1>1, PlanStays
<1> QED
  BY <1>1, <1>3, <1>4, <1>5, <1>6 DEF PlanInv

LEMMA PickReads == ASSUME PlanInv, NEW p \in Packages, Pick(p) PROVE PlanInv'
<1>1. /\ step' = "container" /\ package' = p /\ index' = 1 /\ metas' = <<>> /\ readings' = {}
      /\ control' = NoControl /\ faults' = faults
  BY DEF Pick
<1>2. MetasKept'
  BY <1>1 DEF MetasKept
<1>3. IsFiniteSet(readings')
  BY <1>1, FS_EmptySet
<1> QED
  BY <1>1, <1>2, <1>3 DEF PlanInv, Reading, Over

(* A reading that is over has nothing to keep.                               *)
LEMMA OverKeeps ==
  ASSUME PlanInv, step' \in Over, package' = package, faults' \in Nat, IsFiniteSet(readings')
  PROVE  PlanInv'
BY DEF PlanInv, Reading, Over

(* The container: its entries.                                               *)
LEMMA ContainerKeeps ==
  ASSUME AllTruthful, PlanInv, ReadContainer PROVE PlanInv'
<1>1. /\ step = "container" /\ index = 1 /\ UNCHANGED <<package, metas, readings, control, index, pick, placeholders, stored>>
      /\ IsTruthful(package) /\ faults \in Nat
  BY DEF ReadContainer, PlanInv, Same, NoDevice, AllTruthful
<1>2. ASSUME step' = "failed", faults' \in Nat PROVE PlanInv'
  <2>1. IsFiniteSet(readings')
    BY <1>1 DEF PlanInv
  <2> QED
    BY <1>1, <1>2, <2>1, OverKeeps DEF Over
<1>3. CASE /\ ReadPackage(package) /\ step' = "sizes"
           /\ entries' = [i \in DOMAIN Contained(package) |-> Entry(Contained(package)[i])]
           /\ UNCHANGED <<ended, faults>>
  <2>1. PICK cs : cs = Contained(package)
    OBVIOUS
  <2>2. cs \in Seq(Rows(package))
    BY <1>1, <2>1, ContainedRows
  <2>3. entries' = [i \in 1 .. Len(cs) |-> Entry(cs[i])] /\ Len(cs) \in Nat
    BY <1>3, <2>1, <2>2
  <2>4. DOMAIN entries' = 1 .. Len(cs) /\ Len(entries') = Len(cs) /\ \A i \in 1 .. Len(cs) : entries'[i] = Entry(cs[i])
    BY <2>3
  <2>5. entries' \in Seq(Range(entries'))
    BY <2>3, <2>4 DEF Range
  <2>6. Contained(package)' = cs
    BY <1>1, <2>1
  <2>7. \A i \in 1 .. Len(cs) : /\ {"id", "size", "row"} \subseteq DOMAIN entries'[i]
                               /\ entries'[i].id = cs[i].id /\ entries'[i].row = cs[i]
    BY <2>4 DEF Entry
  <2>8. EntriesKept'
    <3>1. \A i \in 1 .. Len(entries') : ~(i < index')
      BY <1>1, <2>3, <2>4
    <3>2. step' = "sizes"
      BY <1>3
    <3>3. Len(entries') = Len(Contained(package')) /\ \A i \in 1 .. Len(entries') :
             /\ {"id", "size", "row"} \subseteq DOMAIN entries'[i]
             /\ entries'[i].id = Contained(package')[i].id /\ entries'[i].row = Contained(package')[i]
      BY <2>1, <2>4, <2>7, <1>1
    <3> QED
      BY <2>5, <3>1, <3>2, <3>3 DEF EntriesKept
  <2>9. cs # <<>>
    <3>1. PICK r \in Range(Contained(package)) : TRUE
      BY <1>3 DEF ReadPackage
    <3>2. \E i \in DOMAIN cs : TRUE
      BY <2>1, <3>1 DEF Range
    <3> QED
      BY <3>2
  <2>10. index' \in 1 .. Len(entries')
    BY <1>1, <2>2, <2>4, <2>9
  <2>11. MetasKept'
    <3>1. MetasKept
      BY <1>1 DEF PlanInv, Reading
    <3> QED
      BY <1>1, <3>1, MetasStay
  <2>12. control' = NoControl /\ IsFiniteSet(readings') /\ faults' \in Nat /\ package' \in Packages /\ step' = "sizes"
    BY <1>1, <1>3 DEF PlanInv
  <2> QED
    BY <2>8, <2>10, <2>11, <2>12 DEF PlanInv, Reading, Over
<1>4. CASE ~ReadPackage(package) /\ Fail("container") /\ UNCHANGED <<entries, faults>>
  BY <1>1, <1>2, <1>4 DEF Fail
<1>5. CASE Cost(1) /\ Fail("container")
  <2>1. faults' \in Nat
    BY <1>1, <1>5, CostIsCounted
  <2> QED
    BY <1>2, <1>5, <2>1 DEF Fail
<1> QED
  BY <1>3, <1>4, <1>5 DEF ReadContainer

(* The size of one entry: the true one when its header was read.             *)
Sized(r, header) == IF r.ext = "ncz" THEN NczSize(r, header) ELSE NcaSize(r, header)

LEMMA SizeKeeps ==
  ASSUME AllTruthful, PlanInv, ReadSize PROVE PlanInv'
<1>1. /\ step = "sizes" /\ index \in 1 .. Len(entries) /\ faults \in Nat /\ EntriesKept /\ MetasKept
      /\ control = NoControl /\ IsFiniteSet(readings) /\ package \in Packages
      /\ UNCHANGED <<package, metas, readings, control, pick, placeholders, stored>>
      /\ IsTruthful(package)
  BY DEF ReadSize, PlanInv, Same, NoDevice, Reading, AllTruthful
<1>2. PICK r : r = entries[index].row
  OBVIOUS
<1>3. CASE r.ext = "ncz" /\ Cost(IF ReadNczInfo(r) THEN 1 ELSE 0) /\ Fail("container")
  <2>1. faults' \in Nat
    <3>1. (IF ReadNczInfo(r) THEN 1 ELSE 0) \in Nat
      OBVIOUS
    <3> QED
      BY <1>1, <1>3, <3>1, CostIsCounted
  <2> QED
    BY <1>1, <1>3, <2>1, OverKeeps DEF Fail, Over
<1>4. ASSUME NEW header \in BOOLEAN, header => ReadContentHeader(r),
             Cost(IF ReadContentHeader(r) /\ ~header THEN 1 ELSE 0),
             entries' = [entries EXCEPT ![index].size = Sized(r, header)],
             \/ index < Len(entries) /\ index' = index + 1 /\ UNCHANGED step
             \/ ~(index < Len(entries)) /\ index' = 1 /\ step' = "metas"
      PROVE  PlanInv'
  <2>1. PICK n : n = IF ReadContentHeader(r) /\ ~header THEN 1 ELSE 0
    OBVIOUS
  <2>2. n \in Nat /\ Cost(n)
    BY <1>4, <2>1
  <2>3. faults' \in Nat /\ (faults' = 0 => faults = 0 /\ n = 0)
    BY <1>1, <2>2, CostIsCounted
  <2>4. PICK cs : cs = Contained(package)
    OBVIOUS
  <2>5. /\ entries \in Seq(Range(entries)) /\ Len(entries) = Len(cs)
        /\ \A i \in 1 .. Len(entries) : /\ {"id", "size", "row"} \subseteq DOMAIN entries[i]
                                       /\ entries[i].id = cs[i].id /\ entries[i].row = cs[i]
        /\ \A i \in 1 .. Len(entries) : faults = 0 /\ i < index => entries[i].size = TrueSize(entries[i].row)
    BY <1>1, <2>4 DEF EntriesKept
  <2>6. r \in Range(package.rows) /\ r.header \in BOOLEAN
    <3>1. r = cs[index] /\ index \in 1 .. Len(cs)
      BY <1>1, <1>2, <2>5
    <3>2. cs \in Seq(Rows(package))
      BY <1>1, <2>4, ContainedRows
    <3>3. r \in Rows(package)
      BY <3>1, <3>2
    <3> QED
      BY <1>1, <3>3 DEF Rows, IsTruthful
  <2>7. faults' = 0 => Sized(r, header) = TrueSize(r)
    <3> SUFFICES ASSUME faults' = 0 PROVE header = r.header
      BY DEF Sized, TrueSize
    <3>1. ~(ReadContentHeader(r) /\ ~header)
      BY <2>1, <2>3
    <3> QED
      BY <1>4, <2>6, <3>1 DEF ReadContentHeader
  <2>8. PICK z : z = Sized(r, header)
    OBVIOUS
  <2>9. /\ DOMAIN entries' = 1 .. Len(cs)
        /\ \A i \in 1 .. Len(cs) : entries'[i] = IF i = index THEN [entries[i] EXCEPT !.size = z] ELSE entries[i]
    BY <1>1, <1>4, <2>5, <2>8
  <2>10. entries' \in Seq(Range(entries')) /\ Len(entries') = Len(cs)
    <3>1. Len(cs) \in Nat
      BY <2>5
    <3>2. entries' = [i \in 1 .. Len(cs) |-> entries'[i]]
      BY <1>4, <2>9
    <3>3. \A i \in 1 .. Len(cs) : entries'[i] \in Range(entries')
      BY <2>9 DEF Range
    <3> QED
      BY <3>1, <3>2, <3>3
  <2>11. ASSUME NEW i \in 1 .. Len(cs)
         PROVE  /\ {"id", "size", "row"} \subseteq DOMAIN entries'[i]
                /\ entries'[i].id = cs[i].id /\ entries'[i].row = cs[i]
                /\ i = index => entries'[i].size = z
                /\ i # index => entries'[i].size = entries[i].size
    <3>0. PICK e : e = entries[i]
      OBVIOUS
    <3>1. CASE i # index
      BY <2>5, <2>9, <3>1
    <3>2. CASE i = index
      <4>1. {"id", "size", "row"} \subseteq DOMAIN e /\ e.id = cs[i].id /\ e.row = cs[i]
        BY <2>5, <3>0
      <4>2. PICK d : d = [e EXCEPT !.size = z]
        OBVIOUS
      <4>3. {"id", "size", "row"} \subseteq DOMAIN d /\ d.id = e.id /\ d.row = e.row /\ d.size = z
        BY <4>1, <4>2
      <4>4. entries'[i] = d
        BY <2>9, <3>0, <3>2, <4>2
      <4> QED
        BY <3>2, <4>1, <4>3, <4>4
    <3> QED
      BY <3>1, <3>2
  <2>12. step' # "sizes" \/ (index' = index + 1 /\ step' = "sizes" /\ index' \in 1 .. Len(cs))
    BY <1>1, <1>4, <2>5
  <2>13. ASSUME NEW i \in 1 .. Len(cs), faults' = 0, step' = "sizes" => i < index'
         PROVE  entries'[i].size = TrueSize(entries'[i].row)
    <3>1. faults = 0 /\ z = TrueSize(r)
      BY <2>3, <2>7, <2>8, <2>13
    <3>2. CASE i = index
      BY <1>2, <2>5, <2>11, <3>1, <3>2
    <3>3. CASE i # index
      <4>1. i < index
        <5>1. CASE step' = "sizes"
          <6>1. i < index + 1
            BY <2>12, <2>13, <5>1
          <6> QED
            BY <1>1, <3>3, <6>1
        <5>2. CASE step' # "sizes"
          <6>1. ~(index < Len(cs))
            BY <1>1, <1>4, <2>5, <5>2
          <6> QED
            BY <1>1, <2>5, <3>3, <6>1
        <5> QED
          BY <5>1, <5>2
      <4>2. entries[i].size = TrueSize(entries[i].row)
        BY <2>5, <3>1, <4>1
      <4>3. entries[i].row = entries'[i].row /\ entries[i].size = entries'[i].size
        BY <2>5, <2>11, <3>3
      <4> QED
        BY <4>2, <4>3
    <3> QED
      BY <3>2, <3>3
  <2>14. EntriesKept'
    <3>1. Contained(package)' = cs
      BY <1>1, <2>4
    <3>2. Contained(package') = cs
      BY <1>1, <2>4
    <3> QED
      BY <2>10, <2>11, <2>13, <3>2 DEF EntriesKept
  <2>15. MetasKept'
    BY <1>1, MetasStay
  <2>16. (step' = "sizes" => index' \in 1 .. Len(entries')) /\ step' \in {"sizes", "metas"}
    BY <1>1, <1>4, <2>10, <2>12
  <2> QED
    BY <1>1, <2>3, <2>14, <2>15, <2>16 DEF PlanInv, Reading, Over
<1>5. \/ r.ext = "ncz" /\ Cost(IF ReadNczInfo(r) THEN 1 ELSE 0) /\ Fail("container")
      \/ \E header \in BOOLEAN :
           /\ header => ReadContentHeader(r)
           /\ Cost(IF ReadContentHeader(r) /\ ~header THEN 1 ELSE 0)
           /\ entries' = [entries EXCEPT ![index].size = Sized(r, header)]
           /\ \/ index < Len(entries) /\ index' = index + 1 /\ UNCHANGED step
              \/ ~(index < Len(entries)) /\ index' = 1 /\ step' = "metas"
  BY <1>2 DEF ReadSize, Sized
<1> QED
  BY <1>3, <1>4, <1>5

(* The metas, one after the other.                                           *)
LEMMA NoMetaKeeps ==
  ASSUME PlanInv, MetaNotWritten \/ MetaNotRead PROVE PlanInv'
<1>1. faults \in Nat /\ IsFiniteSet(readings) /\ step' = "failed" /\ UNCHANGED <<package, readings>>
  BY DEF PlanInv, MetaNotWritten, MetaNotRead, Fail, Same
<1>2. faults' \in Nat
  <2>1. CASE MetaNotWritten
    <3>1. CASE Cost(IF ReadContentHeader(Meta.row) THEN 1 ELSE 0)
      <4>1. (IF ReadContentHeader(Meta.row) THEN 1 ELSE 0) \in Nat
        OBVIOUS
      <4> QED
        BY <1>1, <3>1, <4>1, CostIsCounted
    <3>2. CASE Cost(1)
      BY <1>1, <3>2, CostIsCounted
    <3>3. CASE PathFails(placeholders, MetaPh)
      BY <1>1, <3>3, OneToGo, DropIsCounted DEF PathFails
    <3> QED
      BY <2>1, <3>1, <3>2, <3>3 DEF MetaNotWritten
  <2>2. CASE MetaNotRead
    <3>1. PICK r \in MetaReads(Meta.id) : Cost(r.cost)
      BY <2>2 DEF MetaNotRead
    <3> QED
      BY <1>1, <3>1, ReadsCost, CostIsCounted
  <2> QED
    BY <2>1, <2>2
<1> QED
  BY <1>1, <1>2, OverKeeps DEF Over

LEMMA SystemMetaKeeps ==
  ASSUME PlanInv, SkipSystemMeta PROVE PlanInv'
<1>1. /\ step = "metas" /\ step' = "metas" /\ faults \in Nat /\ IsFiniteSet(readings) /\ EntriesKept /\ MetasKept
      /\ control = NoControl /\ package \in Packages
      /\ UNCHANGED <<package, entries, metas, readings, control, pick>>
      /\ package.cnmts[Meta.id].type \notin Installable
  BY DEF SkipSystemMeta, SystemMeta, ReadingMeta, PlanInv, Same, Reading
<1>2. PICK r \in MetaReads(Meta.id) : MoveMeta(r) /\ DropPlaceholders(Written(r), {MetaPh}, r.cost)
  BY DEF SkipSystemMeta
<1>3. stored \subseteq stored' /\ placeholders \subseteq Written(r)
  BY <1>2 DEF MoveMeta, Written
<1>4. faults' \in Nat /\ (faults' = 0 => faults = 0) /\ Written(r) \ {MetaPh} \subseteq placeholders'
  BY <1>1, <1>2, OneToGo, ReadsCost, DropIsCounted
<1>5. \A i \in 1 .. Len(metas) : Fresh(metas[i].id) # MetaPh
  <2> SUFFICES ASSUME NEW i \in 1 .. Len(metas), Fresh(metas[i].id) = MetaPh PROVE FALSE
    OBVIOUS
  <2>1. metas[i].id = Meta.id
    BY DEF MetaPh, Fresh
  <2>2. metas[i] \in MetasOf(package)
    BY <1>1 DEF MetasKept
  <2>3. package.cnmts[metas[i].id].type \in Installable
    BY <2>2 DEF MetasOf, KeptMeta
  <2> QED
    BY <1>1, <2>1, <2>3
<1>6. MetasKept'
  BY <1>1, <1>3, <1>4, <1>5, MetasStay
<1>7. EntriesKept'
  BY <1>1, <1>4, EntriesStay
<1> QED
  BY <1>1, <1>4, <1>6, <1>7 DEF PlanInv, Reading

LEMMA MetaIsKept ==
  ASSUME PlanInv, KeepMeta PROVE PlanInv'
<1>1. /\ step = "metas" /\ step' = "metas" /\ faults \in Nat /\ IsFiniteSet(readings) /\ EntriesKept /\ MetasKept
      /\ control = NoControl /\ package \in Packages
      /\ UNCHANGED <<package, entries, control, pick>>
      /\ readings' = readings \cup {MetaPh} /\ ParseCnmt(package, Meta.id)
      /\ package.cnmts[Meta.id].type \in Installable
  BY DEF KeepMeta, ReadingMeta, PlanInv, Same, Reading
<1>2. metas' = Append(metas, KeptMeta(package, Meta.id))
  BY DEF KeepMeta, KeptMeta
<1>3. PICK r \in MetaReads(Meta.id) : MoveMeta(r) /\ Cost(r.cost) /\ placeholders' = Written(r)
  BY DEF KeepMeta
<1>4. faults' \in Nat /\ (faults' = 0 => faults = 0)
  BY <1>1, <1>3, ReadsCost, CostIsCounted
<1>5. stored \subseteq stored' /\ placeholders \subseteq placeholders'
      /\ (MetaPh \in placeholders' \/ Meta.id \in stored')
  BY <1>3, ReadsCost DEF MoveMeta, Written
<1>6. KeptMeta(package, Meta.id) \in MetasOf(package)
  BY <1>1 DEF MetasOf, ParseCnmt
<1>7. MetasKept'
  <2>1. PICK m : m = KeptMeta(package, Meta.id)
    OBVIOUS
  <2>2. metas \in Seq(MetasOf(package)) /\ Len(metas) \in Nat
    BY <1>1 DEF MetasKept
  <2>3. /\ metas' \in Seq(MetasOf(package)) /\ Len(metas') = Len(metas) + 1
        /\ \A i \in 1 .. Len(metas) : metas'[i] = metas[i]
        /\ metas'[Len(metas) + 1] = m
    BY <1>2, <1>6, <2>1, <2>2
  <2>4. ASSUME NEW i \in 1 .. Len(metas') PROVE Fresh(metas'[i].id) \in placeholders' \/ metas'[i].id \in stored'
    <3>1. CASE i \in 1 .. Len(metas)
      <4>1. Held(metas[i].id)
        BY <1>1, <3>1 DEF MetasKept
      <4>2. Fresh(metas[i].id) \in placeholders \/ metas[i].id \in stored
        BY <4>1 DEF Held
      <4> QED
        BY <1>5, <2>3, <3>1, <4>2
    <3>2. CASE i = Len(metas) + 1
      <4>1. metas'[i].id = Meta.id
        BY <2>1, <2>3, <3>2 DEF KeptMeta
      <4> QED
        BY <1>5, <4>1 DEF MetaPh
    <3> QED
      BY <2>2, <2>3, <3>1, <3>2
  <2>5. \A id : Fresh(id)' = Fresh(id)
    BY <1>1 DEF Fresh
  <2>6. metas' \in Seq(MetasOf(package'))
    BY <1>1, <2>3
  <2> QED
    BY <1>1, <2>4, <2>6 DEF MetasKept, Held, Fresh
<1>8. EntriesKept'
  BY <1>1, <1>4, EntriesStay
<1>9. IsFiniteSet(readings')
  BY <1>1, FS_AddElement
<1> QED
  BY <1>1, <1>4, <1>7, <1>8, <1>9 DEF PlanInv, Reading

LEMMA OrderKeeps ==
  ASSUME PlanInv, OrderMetas PROVE PlanInv'
<1>1. /\ step = "metas" /\ faults \in Nat /\ IsFiniteSet(readings) /\ EntriesKept /\ MetasKept
      /\ control = NoControl /\ package \in Packages
      /\ UNCHANGED <<package, entries, control, pick, readings, placeholders, stored, faults>>
  BY DEF OrderMetas, PlanInv, Same, NoDevice, Reading
<1>2. CASE metas = <<>>
  BY <1>1, <1>2, OverKeeps DEF OrderMetas, Fail, Over
<1>3. CASE metas # <<>>
  <2>1. metas' = StableSort(metas) /\ step' = "running"
    BY <1>3 DEF OrderMetas
  <2>2. metas \in Seq(MetasOf(package))
    BY <1>1 DEF MetasKept
  <2>3. PICK s : s = StableSort(metas)
    OBVIOUS
  <2>4. s \in Seq(MetasOf(package)) /\ Range(s) = Range(metas)
    BY <2>2, <2>3, SortKeeps
  <2>5. metas[1] \in Range(metas)
    BY <1>3, <2>2, Elements
  <2>6. s # <<>>
    <3>1. metas[1] \in Range(s)
      BY <2>4, <2>5
    <3>2. \E i \in 1 .. Len(s) : metas[1] = s[i]
      BY <2>4, <3>1, Elements
    <3> QED
      BY <3>2
  <2>7. ASSUME NEW i \in 1 .. Len(s) PROVE Held(s[i].id)
    <3>1. s[i] \in Range(metas)
      BY <2>4, Elements
    <3>2. PICK j \in 1 .. Len(metas) : s[i] = metas[j]
      BY <2>2, <3>1, Elements
    <3> QED
      BY <1>1, <3>2 DEF MetasKept
  <2>8. MetasKept'
    <3>1. metas' = s
      BY <2>1, <2>3
    <3>2. ASSUME NEW i \in 1 .. Len(s) PROVE Fresh(s[i].id) \in placeholders' \/ s[i].id \in stored'
      BY <1>1, <2>7 DEF Held
    <3>3. metas' \in Seq(MetasOf(package'))
      BY <1>1, <2>4, <3>1
    <3> QED
      BY <1>1, <3>1, <3>2, <3>3 DEF MetasKept, Held, Fresh
  <2>9. EntriesKept'
    BY <1>1, <2>1, EntriesStay
  <2>10. metas' # <<>>
    BY <2>1, <2>3, <2>6
  <2> QED
    BY <1>1, <2>1, <2>8, <2>9, <2>10 DEF PlanInv, Reading
<1> QED
  BY <1>2, <1>3

LEMMA RunningKeeps ==
  ASSUME PlanInv, CheckRunning PROVE PlanInv'
<1>1. /\ step = "running" /\ faults \in Nat /\ IsFiniteSet(readings) /\ EntriesKept /\ MetasKept
      /\ control = NoControl /\ package \in Packages /\ metas # <<>>
      /\ UNCHANGED <<package, entries, metas, control, pick, readings, placeholders, stored>>
  BY DEF CheckRunning, PlanInv, Same, NoDevice, Reading
<1>2. (Cost(0) \/ Cost(1)) /\ step' \in {"failed", "running", "control"}
  BY <1>1 DEF CheckRunning, Fail
<1>3. faults' \in Nat /\ (faults' = 0 => faults = 0)
  BY <1>1, <1>2, CostIsCounted
<1>4. CASE step' = "failed"
  BY <1>1, <1>3, <1>4, OverKeeps DEF Over
<1>5. CASE step' \in {"running", "control"}
  <2>1. MetasKept'
    BY <1>1, MetasStay
  <2>2. EntriesKept'
    BY <1>1, <1>3, <1>5, EntriesStay
  <2> QED
    BY <1>1, <1>3, <1>5, <2>1, <2>2 DEF PlanInv, Reading
<1> QED
  BY <1>2, <1>4, <1>5

(* The control content: whatever becomes of it, the metas stay held.         *)
LEMMA ControlKeeps ==
  ASSUME AllTruthful, PlanInv, ReadControl PROVE PlanInv'
<1>1. /\ step = "control" /\ step' = "plan" /\ faults \in Nat /\ IsFiniteSet(readings) /\ EntriesKept /\ MetasKept
      /\ control = NoControl /\ package \in Packages /\ metas # <<>> /\ IsTruthful(package)
      /\ UNCHANGED <<package, entries, metas, pick, stored>>
  BY DEF ReadControl, PlanInv, Same, Reading, AllTruthful
<1>2. PICK c, ph : c = ControlContent /\ ph = Fresh(ControlContent)
  OBVIOUS
<1>3. /\ faults' \in Nat /\ (faults' = 0 => faults = 0) /\ IsFiniteSet(readings')
      /\ placeholders \ (IF c = NoControl THEN {} ELSE {ph}) \subseteq placeholders'
      /\ control' = NoControl \/ (control' = c /\ ph \in placeholders')
  <2>1. CASE /\ Cost(IF c = NoControl THEN 0 ELSE 1)
             /\ UNCHANGED <<placeholders, refused, readings, control>>
    <3>1. (IF c = NoControl THEN 0 ELSE 1) \in Nat
      OBVIOUS
    <3> QED
      BY <1>1, <2>1, <3>1, CostIsCounted
  <2>2. CASE Cost(1) /\ placeholders' = placeholders \cup {ph} /\ UNCHANGED <<readings, control>>
    BY <1>1, <2>2, CostIsCounted
  <2>3. CASE c # NoControl /\ PathFails(placeholders, ph) /\ UNCHANGED <<readings, control>>
    <3>1. /\ faults' \in Nat /\ (faults' = 0 => faults = 0)
          /\ (placeholders \cup {ph}) \ {ph} \subseteq placeholders'
      BY <1>1, <2>3, OneToGo, DropIsCounted DEF PathFails
    <3> QED
      BY <1>1, <2>3, <3>1
  <2>4. CASE /\ Cost(0) /\ placeholders' = placeholders \cup {ph} /\ readings' = readings \cup {ph}
             /\ control' = c
    <3>1. IsFiniteSet(readings')
      BY <1>1, <2>4, FS_AddElement
    <3> QED
      BY <1>1, <2>4, <3>1, CostIsCounted
  <2> QED
    BY <1>2, <2>1, <2>2, <2>3, <2>4 DEF ReadControl
<1>4. MetasKept'
  <2>1. metas \in Seq(MetasOf(package))
    BY <1>1 DEF MetasKept
  <2>2. \A i \in 1 .. Len(metas) : metas[i].id # c \/ c = NoControl
    BY <1>1, <1>2, <2>1, ControlIsNoMeta
  <2>3. ASSUME NEW i \in 1 .. Len(metas), Fresh(metas[i].id) \in placeholders PROVE Fresh(metas[i].id) \in placeholders'
    <3>1. c = NoControl \/ Fresh(metas[i].id) # ph
      BY <1>2, <2>2 DEF Fresh
    <3> QED
      BY <1>3, <2>3, <3>1
  <2> QED
    BY <1>1, <2>3, MetasStay
<1>5. EntriesKept'
  BY <1>1, <1>3, EntriesStay
<1>6. control' = NoControl \/ Fresh(control)' \in placeholders'
  BY <1>1, <1>2, <1>3 DEF Fresh
<1> QED
  BY <1>1, <1>3, <1>4, <1>5, <1>6 DEF PlanInv, Reading

LEMMA PlanningKeeps ==
  ASSUME AllTruthful, PlanInv, Plan PROVE PlanInv'
<1>1. /\ step = "plan" /\ faults \in Nat /\ IsFiniteSet(readings) /\ EntriesKept /\ MetasKept
      /\ control = NoControl \/ Fresh(control) \in placeholders
      /\ package \in Packages /\ IsTruthful(package)
      /\ UNCHANGED <<package, entries, metas, pick, stored, control, placeholders, readings, faults>>
  BY DEF Plan, PlanInv, Same, NoDevice, Reading, AllTruthful
<1>2. CASE \E i \in DOMAIN Wanted : FindContentEntry(Wanted[i].id) = 0
  <2>1. step' = "failed"
    BY <1>2 DEF Plan, Fail
  <2> QED
    BY <1>1, <2>1, OverKeeps DEF Over
<1>3. CASE ~ \E i \in DOMAIN Wanted : FindContentEntry(Wanted[i].id) = 0
  <2>1. contents' = MarkRead(FillTaskContents) /\ step' = "query"
    BY <1>3 DEF Plan
  <2>2. metas \in Seq(MetasOf(package)) /\ entries \in Seq(Range(entries))
    BY <1>1 DEF MetasKept, EntriesKept
  <2>3. Wanted \in Seq(Listings(package))
    BY <1>1, <2>2, WantedIsShipped
  <2>4. PICK cs : cs = MarkRead(FillTaskContents)
    OBVIOUS
  <2>5. Fits(Wanted, entries, cs) /\ \A k \in 1 .. Len(cs) : cs[k].done => IsRead(cs[k])
    BY <1>3, <2>2, <2>3, <2>4, PlanIsMade
  <2>6. ASSUME NEW k \in 1 .. Len(cs), cs[k].done PROVE Held(cs[k].id)
    <3>1. IsRead(cs[k])
      BY <2>5, <2>6
    <3>2. CASE cs[k].id = control
      <4>1. PICK i \in 1 .. Len(Wanted), f \in 1 .. Len(entries) :
              cs[k] = Job(Wanted[i].id, Wanted[i].type, entries[f].size, cs[k].done, cs[k].skipped)
        BY <2>5 DEF Fits
      <4>2. cs[k].id = Wanted[i].id
        BY <4>1, JobIsMarked
      <4>3. Wanted[i] \in Listings(package)
        BY <2>3
      <4>4. Wanted[i].id # NoControl
        BY <1>1, <4>3, ListingsAreTrue
      <4> QED
        BY <1>1, <3>2, <4>2, <4>4 DEF Held
    <3>3. CASE \E i \in DOMAIN metas : metas[i].id = cs[k].id
      BY <1>1, <2>2, <3>3 DEF MetasKept
    <3> QED
      BY <3>1, <3>2, <3>3 DEF IsRead
  <2>7. PlanKept'
    <3>1. contents' = cs /\ Wanted' = Wanted
      BY <1>1, <2>1, <2>4, WantedStays
    <3>2. Fits(Wanted', entries', contents')
      BY <1>1, <2>5, <3>1
    <3>3. \A k \in 1 .. Len(cs) : cs[k].done => Fresh(cs[k].id)' \in placeholders' \/ cs[k].id \in stored'
      BY <1>1, <2>6 DEF Held, Fresh
    <3> QED
      BY <3>1, <3>2, <3>3 DEF PlanKept, Held, Fresh
  <2>8. MetasKept'
    BY <1>1, MetasStay
  <2>9. EntriesKept'
    BY <1>1, <2>1, EntriesStay
  <2>10. control' = NoControl \/ Fresh(control)' \in placeholders'
    BY <1>1 DEF Fresh
  <2> QED
    BY <1>1, <2>1, <2>7, <2>8, <2>9, <2>10 DEF PlanInv, Reading
<1> QED
  BY <1>2, <1>3

LEMMA QueryKeepsPlan ==
  ASSUME PlanInv, Query PROVE PlanInv'
<1>1. /\ step = "query" /\ faults \in Nat /\ IsFiniteSet(readings) /\ EntriesKept /\ MetasKept /\ PlanKept
      /\ control = NoControl \/ Fresh(control) \in placeholders
      /\ package \in Packages
      /\ UNCHANGED <<package, entries, metas, pick, stored, control, placeholders, readings, contents>>
  BY DEF Query, PlanInv, Same, NoDevice, Reading
<1>2. PICK blind \in SUBSET {"sd", "nand"}, answered \in BOOLEAN :
        Cost(Cardinality(blind) + (IF answered THEN 0 ELSE 1))
  BY DEF Query
<1>3. Cardinality(blind) \in Nat
  <2>1. IsFiniteSet({"sd", "nand"})
    <3>1. IsFiniteSet({"sd"} \cup {"nand"})
      BY OneToGo, FS_AddElement
    <3>2. {"sd", "nand"} = {"sd"} \cup {"nand"}
      OBVIOUS
    <3> QED
      BY <3>1, <3>2
  <2> QED
    BY <2>1, FS_Subset, FS_CardinalityType
<1>4. (Cardinality(blind) + (IF answered THEN 0 ELSE 1)) \in Nat
  BY <1>3
<1>5. faults' \in Nat /\ (faults' = 0 => faults = 0)
  BY <1>1, <1>2, <1>4, CostIsCounted
<1>6. step' \in {"has", "skipped"}
  BY DEF Query
<1>7. CASE step' = "skipped"
  BY <1>1, <1>5, <1>7, OverKeeps DEF Over
<1>8. CASE step' = "has"
  <2>1. MetasKept'
    BY <1>1, MetasStay
  <2>2. EntriesKept'
    BY <1>1, <1>5, <1>8, EntriesStay
  <2>3. PlanKept'
    BY <1>1, PlanStays
  <2>4. control' = NoControl \/ Fresh(control)' \in placeholders'
    BY <1>1 DEF Fresh
  <2> QED
    BY <1>1, <1>5, <1>8, <2>1, <2>2, <2>3, <2>4 DEF PlanInv, Reading
<1> QED
  BY <1>6, <1>7, <1>8

LEMMA JobIsSkipped ==
  ASSUME NEW id, NEW kind, NEW size, NEW done, NEW skipped, NEW yes, NEW c,
         c = Job(id, kind, size, done, skipped)
  PROVE  [c EXCEPT !.skipped = yes] = Job(id, kind, size, done, yes)
BY DEF Job

LEMMA HavingKeeps ==
  ASSUME PlanInv, AskForContents PROVE PlanInv'
<1>1. /\ step = "has" /\ step' = "confirm" /\ faults \in Nat /\ IsFiniteSet(readings)
      /\ EntriesKept /\ MetasKept /\ PlanKept
      /\ control = NoControl \/ Fresh(control) \in placeholders
      /\ package \in Packages
      /\ UNCHANGED <<package, entries, metas, pick, stored, control, placeholders, readings>>
  BY DEF AskForContents, PlanInv, Same, NoDevice, Reading
<1>2. PICK silent \in SUBSET {i \in DOMAIN contents : ~contents[i].done /\ Has(contents[i].id)} :
        /\ Cost(Cardinality(silent))
        /\ contents' = [i \in DOMAIN contents |->
             IF ~contents[i].done /\ Has(contents[i].id) /\ i \notin silent
             THEN [contents[i] EXCEPT !.done = TRUE, !.skipped = TRUE] ELSE contents[i]]
  BY DEF AskForContents
<1>3. PICK cs, ds, w, yes : cs = contents /\ ds = contents' /\ w = Wanted /\ yes = TRUE
  OBVIOUS
<1>4. Fits(w, entries, cs) /\ \A k \in 1 .. Len(cs) : cs[k].done => Held(cs[k].id)
  BY <1>1, <1>3 DEF PlanKept
<1>5. Len(cs) \in Nat /\ DOMAIN cs = 1 .. Len(cs)
  BY <1>4 DEF Fits
<1>6. faults' \in Nat /\ (faults' = 0 => faults = 0)
  <2>1. silent \subseteq 1 .. Len(cs)
    BY <1>3, <1>5
  <2>2. IsFiniteSet(silent)
    <3>1. IsFiniteSet(1 .. Len(cs))
      BY <1>5, FS_Interval
    <3> QED
      BY <2>1, <3>1, FS_Subset
  <2>3. Cardinality(silent) \in Nat
    BY <2>2, FS_CardinalityType
  <2> QED
    BY <1>1, <1>2, <2>3, CostIsCounted
<1>7. /\ DOMAIN ds = 1 .. Len(cs) /\ ds = [k \in 1 .. Len(cs) |-> ds[k]]
      /\ \A k \in 1 .. Len(cs) :
           \/ ds[k] = cs[k]
           \/ Has(cs[k].id) /\ ds[k] = [cs[k] EXCEPT !.done = yes, !.skipped = yes]
  BY <1>2, <1>3, <1>5
<1>8. Len(ds) = Len(cs)
  <2>1. PICK n \in Nat : n = Len(cs)
    BY <1>5
  <2>2. ds = [k \in 1 .. n |-> ds[k]]
    BY <1>7, <2>1
  <2>3. Len(ds) = n
    BY <2>2
  <2> QED
    BY <2>1, <2>3
<1>9. ASSUME NEW k \in 1 .. Len(cs)
      PROVE  /\ ds[k].id = cs[k].id
             /\ \E i \in 1 .. Len(w) : \E f \in 1 .. Len(entries) :
                  /\ entries[f].id = w[i].id
                  /\ ds[k] = Job(w[i].id, w[i].type, entries[f].size, ds[k].done, ds[k].skipped)
             /\ ds[k].done => Held(ds[k].id)
  <2>1. PICK i \in 1 .. Len(w), f \in 1 .. Len(entries) :
          /\ entries[f].id = w[i].id
          /\ cs[k] = Job(w[i].id, w[i].type, entries[f].size, cs[k].done, cs[k].skipped)
    BY <1>4 DEF Fits
  <2>2. CASE ds[k] = cs[k]
    BY <1>4, <2>1, <2>2
  <2>3. CASE Has(cs[k].id) /\ ds[k] = [cs[k] EXCEPT !.done = yes, !.skipped = yes]
    <3>1. PICK c : c = cs[k]
      OBVIOUS
    <3>2. PICK d, s : d = cs[k].done /\ s = cs[k].skipped
      OBVIOUS
    <3>3. c = Job(w[i].id, w[i].type, entries[f].size, d, s)
      BY <2>1, <3>1, <3>2
    <3>4. [c EXCEPT !.done = yes, !.skipped = yes] = Job(w[i].id, w[i].type, entries[f].size, yes, yes)
      <4>1. PICK x : x = [c EXCEPT !.done = yes]
        OBVIOUS
      <4>2. x = Job(w[i].id, w[i].type, entries[f].size, yes, s)
        BY <3>3, <4>1, JobIsMarked
      <4>3. [x EXCEPT !.skipped = yes] = Job(w[i].id, w[i].type, entries[f].size, yes, yes)
        BY <4>2, JobIsSkipped
      <4>4. [c EXCEPT !.done = yes, !.skipped = yes] = [x EXCEPT !.skipped = yes]
        BY <4>1
      <4> QED
        BY <4>3, <4>4
    <3>5. ds[k] = Job(w[i].id, w[i].type, entries[f].size, yes, yes)
      BY <2>3, <3>1, <3>4
    <3>6. ds[k].id = w[i].id /\ ds[k].done = yes /\ ds[k].skipped = yes /\ cs[k].id = w[i].id
      BY <3>1, <3>3, <3>5, JobIsMarked
    <3>7. Held(ds[k].id)
      BY <2>3, <3>6 DEF Held, Has
    <3> QED
      BY <2>1, <3>5, <3>6, <3>7
  <2> QED
    BY <1>7, <2>2, <2>3
<1>10. Fits(w, entries, ds)
  <2>1. \A k, l \in 1 .. Len(ds) : ds[k].id = ds[l].id => k = l
    BY <1>4, <1>8, <1>9 DEF Fits
  <2>2. ASSUME NEW i \in 1 .. Len(w) PROVE \E k \in 1 .. Len(ds) : ds[k].id = w[i].id
    <3>1. PICK k \in 1 .. Len(cs) : cs[k].id = w[i].id
      BY <1>4 DEF Fits
    <3> QED
      BY <1>8, <1>9, <3>1
  <2> QED
    BY <1>5, <1>7, <1>8, <1>9, <2>1, <2>2 DEF Fits
<1>11. PlanKept'
  <2>1. Fits(Wanted', entries', contents')
    BY <1>1, <1>3, <1>10, WantedStays
  <2>2. \A k \in 1 .. Len(ds) : ds[k].done => Fresh(ds[k].id)' \in placeholders' \/ ds[k].id \in stored'
    BY <1>1, <1>8, <1>9 DEF Held, Fresh
  <2> QED
    BY <1>3, <2>1, <2>2 DEF PlanKept, Held, Fresh
<1>12. MetasKept'
  BY <1>1, MetasStay
<1>13. EntriesKept'
  BY <1>1, <1>6, EntriesStay
<1>14. control' = NoControl \/ Fresh(control)' \in placeholders'
  BY <1>1 DEF Fresh
<1> QED
  BY <1>1, <1>6, <1>11, <1>12, <1>13, <1>14 DEF PlanInv, Reading

LEMMA EndingKeepsPlan ==
  ASSUME PlanInv, CleanupAfterFailure \/ Abandon \/ LeaveSkipped PROVE PlanInv'
<1>1. faults \in Nat /\ IsFiniteSet(readings) /\ step' = "idle" /\ readings' = {} /\ package' = package
  BY DEF PlanInv, CleanupAfterFailure, Abandon, LeaveSkipped, Forgotten, Same
<1>2. faults' = faults \/ DropPlaceholders(placeholders, readings, 0)
  BY DEF CleanupAfterFailure, Abandon, LeaveSkipped
<1>3. faults' \in Nat
  BY <1>1, <1>2, DropIsCounted
<1>4. IsFiniteSet(readings')
  BY <1>1, FS_EmptySet
<1> QED
  BY <1>1, <1>3, <1>4, OverKeeps DEF Over

LEMMA PlanIsKeptByAll ==
  ASSUME AllTruthful PROVE PlanInv /\ [ReadingNext]_readingVars => PlanInv'
<1> SUFFICES ASSUME PlanInv, [ReadingNext]_readingVars PROVE PlanInv'
  OBVIOUS
<1>1. CASE UNCHANGED readingVars
  BY <1>1, StutterKeepsPlan
<1>2. CASE \E p \in Packages : Pick(p)
  BY <1>2, PickReads
<1>3. CASE ReadContainer \/ ReadSize
  BY <1>3, ContainerKeeps, SizeKeeps
<1>4. CASE MetaNotWritten \/ MetaNotRead \/ SkipSystemMeta \/ KeepMeta
  BY <1>4, NoMetaKeeps, SystemMetaKeeps, MetaIsKept
<1>5. CASE OrderMetas \/ CheckRunning \/ ReadControl
  BY <1>5, OrderKeeps, RunningKeeps, ControlKeeps
<1>6. CASE Plan \/ Query \/ AskForContents
  BY <1>6, PlanningKeeps, QueryKeepsPlan, HavingKeeps
<1>7. CASE CleanupAfterFailure \/ Abandon \/ LeaveSkipped
  BY <1>7, EndingKeepsPlan
<1> QED
  BY <1>1, <1>2, <1>3, <1>4, <1>5, <1>6, <1>7 DEF ReadingNext

(* What a record has: the meta itself, and what it ships.                    *)
LEMMA RecordRows ==
  ASSUME NEW p, IsTruthful(p), NEW m \in MetasOf(p)
  PROVE  /\ \A r \in Range(BuildMetaRecordBlob(m)) :
              \/ r.id = m.id
              \/ \E j \in 1 .. Len(Shipped(m)) : r.id = Shipped(m)[j].id /\ r.size = Shipped(m)[j].size
         /\ \A j \in 1 .. Len(Shipped(m)) : \E r \in Range(BuildMetaRecordBlob(m)) :
              r.id = Shipped(m)[j].id /\ r.size = Shipped(m)[j].size
<1>1. PICK s, d : s = Shipped(m) /\ d = entries[FindContentEntry(m.id)].size
  OBVIOUS
<1>2. s \in Seq(Listings(p)) /\ DOMAIN s = 1 .. Len(s) /\ Len(s) \in Nat
  BY <1>1, ShippedIsListed
<1> DEFINE u == <<[id |-> m.id, size |-> d]>>
           v == [i \in DOMAIN s |-> [id |-> s[i].id, size |-> s[i].size]]
           A == {[id |-> m.id, size |-> d]} \cup {[id |-> s[i].id, size |-> s[i].size] : i \in DOMAIN s}
<1>3. BuildMetaRecordBlob(m) = u \o v
  BY <1>1 DEF BuildMetaRecordBlob
<1>4. Range(u) = {[id |-> m.id, size |-> d]} /\ u \in Seq(A)
  BY DEF Range
<1>5. Range(v) = {[id |-> s[i].id, size |-> s[i].size] : i \in DOMAIN s} /\ v \in Seq(A)
  BY <1>2 DEF Range
<1>6. \A r \in Range(u) : r.id = m.id
  BY <1>4
<1>7. \A r \in Range(v) : \E j \in 1 .. Len(s) : r.id = s[j].id /\ r.size = s[j].size
  BY <1>2, <1>5
<1>8. ASSUME NEW j \in 1 .. Len(s) PROVE \E r \in Range(v) : r.id = s[j].id /\ r.size = s[j].size
  <2>1. [id |-> s[j].id, size |-> s[j].size] \in Range(v)
    BY <1>2, <1>5
  <2> QED
    BY <2>1
<1> HIDE DEF u, v, A
<1>9. Range(u \o v) = Range(u) \cup Range(v)
  BY <1>4, <1>5, JoinedElements
<1>10. PICK R : R = Range(BuildMetaRecordBlob(m))
  OBVIOUS
<1>11. R = Range(u) \cup Range(v)
  BY <1>3, <1>9, <1>10
<1> QED
  BY <1>1, <1>6, <1>7, <1>8, <1>10, <1>11

(* The plan that fits is what the records say.                               *)
LEMMA PlanAgrees == ASSUME AllTruthful, PlanInv PROVE PlanIsTheRecords
<1> SUFFICES ASSUME step = "confirm" PROVE PlanIsTheRecords
  BY DEF PlanIsTheRecords
<1> DEFINE rows == UNION {Range(BuildMetaRecordBlob(metas[i])) : i \in DOMAIN metas}
           data == {r \in rows : \A i \in DOMAIN metas : metas[i].id # r.id}
           p == package
<1>1. EntriesKept /\ MetasKept /\ PlanKept /\ IsTruthful(p) /\ faults \in Nat
  BY DEF PlanInv, Reading, AllTruthful
<1>2. /\ metas \in Seq(MetasOf(p)) /\ DOMAIN metas = 1 .. Len(metas)
      /\ \A i \in 1 .. Len(metas) : metas[i] \in MetasOf(p)
  BY <1>1 DEF MetasKept
<1>3. PICK w, cs, es : w = Wanted /\ cs = contents /\ es = entries
  OBVIOUS
<1>4. Fits(w, es, cs) /\ \A k \in 1 .. Len(cs) : cs[k].done => Held(cs[k].id)
  BY <1>1, <1>3 DEF PlanKept
<1>5. /\ w \in Seq(Listings(p)) /\ DOMAIN cs = 1 .. Len(cs)
      /\ \A k \in 1 .. Len(w) : \E i \in 1 .. Len(metas) :
              \E j \in 1 .. Len(Shipped(metas[i])) : w[k] = Shipped(metas[i])[j]
      /\ \A i \in 1 .. Len(metas) : \A j \in 1 .. Len(Shipped(metas[i])) :
              \E k \in 1 .. Len(w) : w[k] = Shipped(metas[i])[j]
  BY <1>1, <1>2, <1>3, <1>4, WantedIsShipped DEF Fits
<1>6. ASSUME NEW r \in data PROVE \E i \in 1 .. Len(w) : r.id = w[i].id
  <2>1. PICK i \in 1 .. Len(metas) : r \in Range(BuildMetaRecordBlob(metas[i]))
    BY <1>2
  <2>2. r.id # metas[i].id
    BY <1>2
  <2>3. PICK j \in 1 .. Len(Shipped(metas[i])) : r.id = Shipped(metas[i])[j].id
    BY <1>1, <1>2, <2>1, <2>2, RecordRows
  <2>4. PICK k \in 1 .. Len(w) : w[k] = Shipped(metas[i])[j]
    BY <1>5
  <2> QED
    BY <2>3, <2>4
<1>7. ASSUME NEW i \in 1 .. Len(w) PROVE \E r \in data : r.id = w[i].id /\ r.size = w[i].size
  <2>1. PICK a \in 1 .. Len(metas) : \E j \in 1 .. Len(Shipped(metas[a])) : w[i] = Shipped(metas[a])[j]
    BY <1>5
  <2>2. PICK j \in 1 .. Len(Shipped(metas[a])) : w[i] = Shipped(metas[a])[j]
    BY <2>1
  <2>3. PICK r \in Range(BuildMetaRecordBlob(metas[a])) : r.id = w[i].id /\ r.size = w[i].size
    BY <1>1, <1>2, <2>2, RecordRows
  <2>4. w[i] \in Listings(p)
    BY <1>5
  <2>5. w[i].id \notin DOMAIN p.cnmts
    BY <1>1, <2>4, ListingsAreTrue
  <2>6. \A b \in 1 .. Len(metas) : metas[b].id # r.id
    BY <1>1, <1>2, <2>3, <2>5, ShippedIsListed
  <2>7. r \in rows
    BY <1>2
  <2>8. r \in data
    BY <1>2, <2>6, <2>7
  <2> QED
    BY <2>3, <2>8
<1> HIDE DEF rows, data
<1>8. ASSUME NEW r \in data PROVE Cardinality({k \in DOMAIN cs : cs[k].id = r.id}) = 1
  <2>1. PICK i \in 1 .. Len(w) : r.id = w[i].id
    BY <1>6
  <2>2. PICK k \in 1 .. Len(cs) : cs[k].id = w[i].id
    BY <1>4 DEF Fits
  <2>3. \A l \in 1 .. Len(cs) : cs[l].id = r.id => l = k
    BY <1>4, <2>1, <2>2 DEF Fits
  <2>4. {l \in DOMAIN cs : cs[l].id = r.id} = {k}
    BY <1>5, <2>1, <2>2, <2>3
  <2> QED
    BY <2>4, FS_Singleton
<1>9. ASSUME NEW c \in Range(cs)
      PROVE  /\ \E r \in data : r.id = c.id /\ (faults = 0 => r.size = c.size)
             /\ c.done => Held(c.id)
  <2>1. PICK k \in 1 .. Len(cs) : c = cs[k]
    BY <1>5 DEF Range
  <2>2. PICK i \in 1 .. Len(w), f \in 1 .. Len(es) :
          /\ es[f].id = w[i].id
          /\ cs[k] = Job(w[i].id, w[i].type, es[f].size, cs[k].done, cs[k].skipped)
    BY <1>4 DEF Fits
  <2>3. c.id = w[i].id /\ c.size = es[f].size
    BY <2>1, <2>2, JobIsMarked
  <2>4. PICK r \in data : r.id = w[i].id /\ r.size = w[i].size
    BY <1>7
  <2>5. ASSUME faults = 0 PROVE w[i].size = es[f].size
    <3>1. es[f].size = TrueSize(es[f].row) /\ es[f].id = Contained(p)[f].id
          /\ es[f].row = Contained(p)[f] /\ f \in 1 .. Len(Contained(p))
      BY <1>1, <1>3, <2>5 DEF EntriesKept
    <3>2. Contained(p)[f] \in Range(Contained(p))
      BY <1>1, <3>1, ContainedRows, Elements
    <3>3. w[i] \in Listings(p)
      BY <1>5
    <3>4. Contained(p)[f].id = w[i].id
      BY <2>2, <3>1
    <3> QED
      BY <1>1, <3>1, <3>2, <3>3, <3>4, ListingsAreTrue
  <2> QED
    BY <1>4, <2>1, <2>3, <2>4, <2>5
<1>10. \A i \in 1 .. Len(metas) : Held(metas[i].id)
  BY <1>1 DEF MetasKept
<1> QED
  BY <1>2, <1>3, <1>8, <1>9, <1>10 DEF PlanIsTheRecords, rows, data

(* The plan shown on the confirm page and the records written afterwards     *)
(* speak of the same contents, for any files whose CNMTs tell the truth, any  *)
(* console and whatever call fails.                                          *)
THEOREM PlanIsKept == ASSUME AllTruthful PROVE ReadingSpec => []PlanIsTheRecords
<1>1. PlanInv /\ [ReadingNext]_readingVars => PlanInv'
  BY PlanIsKeptByAll
<1>2. PlanInv => PlanIsTheRecords
  BY PlanAgrees
<1> QED
  BY <1>1, <1>2, ReadingStarts, PTL DEF ReadingSpec
=============================================================================
