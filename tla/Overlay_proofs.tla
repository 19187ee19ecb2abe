--------------------------- MODULE Overlay_proofs ---------------------------
(* What holds of the overlay for all menus, actions and item effects.  A   *)
(* handler maps the record ui to the next, so the invariant is a predicate *)
(* on that record, and each handler has a lemma that it keeps it.          *)
EXTENDS Overlay, TLAPS

\* The facts about ui, of any value u of it: the properties of Overlay, and
\* that nothing is bound while the hotkeys are suspended, which the proof of
\* BoundAreLoaded needs across ApplyConfig and ResumeHotkeys.
Watched(u) ==
  /\ u.escape <=> u.mode = "wheel"
  /\ u.capture \/ u.release # NoMenu => u.mode = "wheel"

Styled(u) ==
  /\ u.clickThrough <=> u.mode = "dormant"
  /\ u.mode = "dormant" => u.nonActivating
  /\ u.mode \in {"settings", "search"} => ~u.nonActivating

Bound(u) ==
  /\ u.mode = "settings" => u.suspended /\ u.pause
  /\ u.suspended => u.bound = {}
  /\ ~u.suspended => u.bound = u.loaded \cap Chorded

Active(u) == u.active \in IF u.loaded = {} THEN {NoMenu} ELSE u.loaded

Good(u) == u \in Ui /\ Watched(u) /\ Styled(u) /\ Bound(u) /\ Active(u)

USE DEF Good, Watched, Styled, Bound, Active, Ui, Modes

\* The front of a set of menus is one of them, if there is one.
LEMMA FrontFacts ==
  ASSUME NEW menus \in SUBSET Menus
  PROVE  Front(menus) \in IF menus = {} THEN {NoMenu} ELSE menus
BY DEF Front

\* Leaving the palette keeps the invariant, and ends in another mode.
LEMMA HideSearchKeeps ==
  ASSUME NEW u, Good(u)
  PROVE  /\ Good(HideSearch(u)) /\ HideSearch(u).mode # "search"
         /\ HideSearch(u).loaded = u.loaded /\ HideSearch(u).active = u.active
         /\ u.mode # "search" => HideSearch(u) = u
BY OverlayAssumption, ZenonT(60) DEF HideSearch, Shell

\* Leaving the editor by its own way keeps the invariant.
LEMMA CloseSettingsKeeps ==
  ASSUME NEW u, Good(u), u.mode = "settings"
  PROVE  Good(CloseSettings(u)) /\ CloseSettings(u).mode = "dormant"
BY OverlayAssumption, ZenonT(60) DEF CloseSettings, RestoreAfterSettings, ResumeHotkeys, Shell

\* Leaving the wheel takes down its watches; styles and mode are to follow.
LEMMA LeaveWheelFacts ==
  ASSUME NEW u, Good(u)
  PROVE  /\ LeaveWheel(u) \in Ui
         /\ ~LeaveWheel(u).escape /\ ~LeaveWheel(u).capture
         /\ LeaveWheel(u).release = NoMenu
         /\ LeaveWheel(u).nonActivating
         /\ LeaveWheel(u).mode = u.mode
         /\ LeaveWheel(u).loaded = u.loaded /\ LeaveWheel(u).active = u.active
         /\ LeaveWheel(u).bound = u.bound /\ LeaveWheel(u).suspended = u.suspended
         /\ LeaveWheel(u).pause = u.pause
<1> DEFINE v == [EndCapture(DisarmWatches(u)) EXCEPT !.stole = FALSE]
<1>1. /\ v \in Ui /\ ~v.escape /\ ~v.capture /\ v.release = NoMenu
      /\ v.nonActivating /\ v.mode = u.mode /\ v.loaded = u.loaded
      /\ v.active = u.active /\ v.bound = u.bound
      /\ v.suspended = u.suspended /\ v.pause = u.pause
  BY DEF EndCapture, DisarmWatches
<1>2. LeaveWheel(u) = FlushDeferred(v)
  BY DEF LeaveWheel
<1> HIDE DEF v
<1> DEFINE all == v.submitted \o v.deferred
           none == <<>>
<1>3. all \in Seq(Pick) /\ none \in Seq(Pick)
  BY <1>1
<1>4. LeaveWheel(u) = [v EXCEPT !.submitted = all, !.deferred = none]
  BY <1>2 DEF FlushDeferred
<1> HIDE DEF all, none
<1>5. LeaveWheel(u) \in Ui
  BY <1>1, <1>3, <1>4, ZenonT(60)
<1>6. /\ LeaveWheel(u).mode = v.mode
      /\ LeaveWheel(u).escape = v.escape /\ LeaveWheel(u).capture = v.capture
      /\ LeaveWheel(u).release = v.release
      /\ LeaveWheel(u).nonActivating = v.nonActivating
      /\ LeaveWheel(u).loaded = v.loaded /\ LeaveWheel(u).active = v.active
      /\ LeaveWheel(u).bound = v.bound /\ LeaveWheel(u).suspended = v.suspended
      /\ LeaveWheel(u).pause = v.pause
  BY <1>1, <1>4
<1> HIDE DEF Ui
<1>7. QED
  BY <1>1, <1>5, <1>6

\* hideGui from any mode.
LEMMA HideGuiKeeps ==
  ASSUME NEW u, Good(u)
  PROVE  Good(HideGui(u))
<1>1. CASE u.mode = "settings"
  BY <1>1, CloseSettingsKeeps DEF HideGui
<1>2. CASE u.mode # "settings"
  <2> DEFINE v == LeaveWheel(u)
  <2>1. HideGui(u) = [v EXCEPT !.mode = "dormant", !.clickThrough = TRUE]
    BY <1>2 DEF HideGui
  <2>2. /\ v \in Ui /\ ~v.escape /\ ~v.capture /\ v.release = NoMenu /\ v.nonActivating
        /\ v.loaded = u.loaded /\ v.active = u.active
        /\ v.bound = u.bound /\ v.suspended = u.suspended
    BY LeaveWheelFacts
  <2> HIDE DEF v
  <2>3. /\ HideGui(u) \in Ui
        /\ HideGui(u).mode = "dormant" /\ HideGui(u).clickThrough
        /\ ~HideGui(u).escape /\ ~HideGui(u).capture
        /\ HideGui(u).release = NoMenu /\ HideGui(u).nonActivating
        /\ HideGui(u).loaded = u.loaded /\ HideGui(u).active = u.active
        /\ HideGui(u).bound = u.bound /\ HideGui(u).suspended = u.suspended
    BY <2>1, <2>2, ZenonT(60)
  <2> HIDE DEF Ui
  <2>4. QED BY <2>3
<1>3. QED BY <1>1, <1>2

\* Stopping the release watch.
LEMMA DisarmReleaseKeeps ==
  ASSUME NEW u, Good(u)
  PROVE  Good(DisarmRelease(u)) /\ DisarmRelease(u).loaded = u.loaded
BY DEF DisarmRelease

\* showGui of a loaded menu from any mode, the editor included.
LEMMA ShowGuiKeeps ==
  ASSUME NEW u, Good(u), NEW m \in u.loaded
  PROVE  Good(ShowGui(u, m)) /\ ShowGui(u, m).mode = "wheel"
<1> DEFINE v == HideSearch(u)
           w == [v EXCEPT !.active = m, !.deferred = <<>>]
<1>1. Good(v) /\ v.loaded = u.loaded
  BY HideSearchKeeps
<1> HIDE DEF v
<1>2. /\ w \in Ui /\ w.active = m /\ w.loaded = v.loaded /\ w.bound = v.bound
      /\ w.suspended = v.suspended
  <2>1. <<>> \in Seq(Pick)
    OBVIOUS
  <2>2. m \in Menus
    BY <1>1
  <2>3. QED BY <1>1, <2>1, <2>2
<1>3. ShowGui(u, m) = [BeginCapture(w) EXCEPT !.mode = "wheel", !.escape = TRUE,
                                              !.clickThrough = FALSE]
  BY DEF ShowGui, v
<1> HIDE DEF w
<1>4. /\ BeginCapture(w) \in Ui
      /\ BeginCapture(w).active = w.active /\ BeginCapture(w).loaded = w.loaded
      /\ BeginCapture(w).bound = w.bound /\ BeginCapture(w).suspended = w.suspended
  BY <1>2 DEF BeginCapture, EndCapture
<1> HIDE DEF Ui
<1>5. ShowGui(u, m) \in Ui
  BY <1>3, <1>4 DEF Ui
<1>6. QED
  BY <1>1, <1>2, <1>3, <1>4, <1>5 DEF Ui

\* The palette opened from any mode; the editor stays.
LEMMA ShowSearchKeeps ==
  ASSUME NEW u, Good(u)
  PROVE  Good(ShowSearch(u))
<1>1. CASE u.mode = "settings"
  BY <1>1 DEF ShowSearch
<1>2. CASE u.mode # "settings"
  <2> DEFINE v == IF u.mode = "wheel"
                  THEN [EndCapture(DisarmWatches(u)) EXCEPT !.stole = FALSE]
                  ELSE DisarmRelease(u)
  <2>1. /\ v \in Ui /\ ~v.escape /\ ~v.capture /\ v.release = NoMenu
        /\ v.loaded = u.loaded /\ v.active = u.active
        /\ v.bound = u.bound /\ v.suspended = u.suspended
    BY DEF EndCapture, DisarmWatches, DisarmRelease
  <2>2. ShowSearch(u) = [v EXCEPT !.mode = "search", !.nonActivating = FALSE,
                                  !.clickThrough = FALSE]
    BY <1>2 DEF ShowSearch
  <2> HIDE DEF v
  <2> DEFINE w == ShowSearch(u)
  <2>3. /\ w \in Ui /\ ~w.escape /\ ~w.capture /\ w.release = NoMenu
        /\ w.mode = "search" /\ ~w.nonActivating /\ ~w.clickThrough
        /\ w.loaded = u.loaded /\ w.active = u.active
        /\ w.bound = u.bound /\ w.suspended = u.suspended
    BY <2>1, <2>2, ZenonT(60)
  <2> HIDE DEF Ui, w
  <2>4. Good(w)
    BY <2>3
  <2>5. QED BY <2>4 DEF w
<1>3. QED BY <1>1, <1>2

\* The tray closes the editor before it opens the palette.
LEMMA OpenSearchFromTrayKeeps ==
  ASSUME NEW u, Good(u)
  PROVE  Good(OpenSearchFromTray(u))
<1> HIDE DEF Good
<1>1. QED
  BY CloseSettingsKeeps, ShowSearchKeeps DEF OpenSearchFromTray

\* The editor opened from any mode.
LEMMA ShowSettingsKeeps ==
  ASSUME NEW u, Good(u)
  PROVE  Good(ShowSettings(u))
<1> DEFINE v == HideSearch(u)
           w == IF v.mode = "wheel" THEN LeaveWheel(v) ELSE v
           x == SuspendHotkeys(w)
<1>1. Good(v) /\ v.mode # "search"
  BY HideSearchKeeps
<1>2. ShowSettings(u) = [x EXCEPT !.mode = "settings", !.nonActivating = FALSE,
                                  !.clickThrough = FALSE, !.pause = TRUE]
  BY DEF ShowSettings
<1> HIDE DEF v
<1>3. /\ w \in Ui /\ ~w.escape /\ ~w.capture /\ w.release = NoMenu
      /\ w.loaded = v.loaded /\ w.active = v.active
      /\ w.bound = v.bound /\ w.suspended = v.suspended
  <2>1. CASE v.mode = "wheel"
    <3> HIDE DEF Good
    <3>1. QED BY <1>1, <2>1, LeaveWheelFacts
  <2>2. CASE v.mode # "wheel"
    BY <1>1, <2>2
  <2>3. QED BY <2>1, <2>2
<1> HIDE DEF w
<1>4. /\ x \in Ui /\ ~x.escape /\ ~x.capture /\ x.release = NoMenu
      /\ x.suspended /\ x.bound = {} /\ Active(x)
  BY <1>1, <1>3, ZenonT(60) DEF SuspendHotkeys
<1> HIDE DEF x
<1> DEFINE y == ShowSettings(u)
<1> HIDE DEF Good
<1>5. y \in Ui
  BY <1>2, <1>4, ZenonT(60)
<1>6. /\ y.escape = x.escape /\ y.capture = x.capture /\ y.release = x.release
      /\ y.loaded = x.loaded /\ y.active = x.active
      /\ y.suspended = x.suspended /\ y.bound = x.bound
  BY <1>2, <1>4, ZenonT(60)
<1>7. /\ y.mode = "settings" /\ y.nonActivating = FALSE
      /\ y.clickThrough = FALSE /\ y.pause = TRUE
  BY <1>2, <1>4
<1> HIDE DEF Ui, y
<1>8. Good(y)
  BY <1>4, <1>5, <1>6, <1>7 DEF Good
<1>9. QED BY <1>8 DEF y

\* A pick is submitted or deferred, and may close the wheel.
LEMMA ExecuteActionKeeps ==
  ASSUME NEW u, Good(u), NEW p \in Pick
  PROVE  Good(ExecuteAction(u, p))
<1> DEFINE v == DisarmRelease(u)
           w == IF v.active \in Deferring /\ v.mode = "wheel"
                THEN [v EXCEPT !.deferred = Append(@, p)]
                ELSE [v EXCEPT !.submitted = Append(@, p)]
<1>1. Good(v)
  BY DisarmReleaseKeeps
<1> HIDE DEF v
<1>2. Append(v.deferred, p) \in Seq(Pick) /\ Append(v.submitted, p) \in Seq(Pick)
  BY <1>1
<1>3. Good(w)
  BY <1>1, <1>2
<1>4. ExecuteAction(u, p) = IF v.active \in Exiting /\ v.mode = "wheel"
                            THEN HideGui(w) ELSE w
  BY DEF ExecuteAction, v
<1> HIDE DEF w, Good
<1>5. QED BY <1>3, <1>4, HideGuiKeeps

\* Save, with the editor open or not.
LEMMA ApplyConfigKeeps ==
  ASSUME NEW u, Good(u), NEW menus \in SUBSET Menus
  PROVE  Good(ApplyConfig(u, menus))
BY FrontFacts, OverlayAssumption, ZenonT(60) DEF ApplyConfig

\* A hotkey closes the wheel, or opens the wheel of a loaded menu.
LEMMA OnHotkeyKeeps ==
  ASSUME NEW u, Good(u), NEW m
  PROVE  Good(OnHotkey(u, m))
<1> DEFINE v      == HideSearch(u)
           target == IF m \in v.loaded THEN m ELSE NoMenu
           show   == IF target # NoMenu THEN target
                     ELSE IF v.active = NoMenu THEN Front(v.loaded) ELSE v.active
           x      == IF v.mode = "wheel" THEN DisarmRelease(v) ELSE v
           w      == ShowGui(x, show)
<1>1. Good(v)
  BY HideSearchKeeps
<1>2. OnHotkey(u, m) \in
        {u, HideGui(v), v} \cup
        IF show = NoMenu THEN {} ELSE {[w EXCEPT !.release = show], w}
  BY DEF OnHotkey
<1> HIDE DEF v
<1>3. show # NoMenu => show \in v.loaded
  BY <1>1, FrontFacts
<1>4. Good(x) /\ x.loaded = v.loaded
  BY <1>1, DisarmReleaseKeeps
<1> HIDE DEF x, show
<1>5. show # NoMenu => Good(w) /\ w.mode = "wheel"
  <2> HIDE DEF Good
  <2>1. QED BY <1>3, <1>4, ShowGuiKeeps
<1>6. show # NoMenu => show \in Menus
  BY <1>1, <1>3
<1> HIDE DEF w
<1>7. show # NoMenu => Good([w EXCEPT !.release = show])
  BY <1>5, <1>6
<1> HIDE DEF Good
<1>8. QED
  BY <1>1, <1>2, <1>5, <1>7, HideGuiKeeps

-----------------------------------------------------------------------------
(* The steps.  Only ui matters, and that a pick is within its bound.       *)

\* The inductive invariant: the record is good, the picks are counted.
OverlayInv == Good(ui) /\ picks \in 0 .. MaxPicks

\* The dormant overlay with every hotkey bound is good.
LEMMA OverlayInit == Init => OverlayInv
<1> SUFFICES ASSUME Init PROVE OverlayInv
  OBVIOUS
<1>1. PICK chosen \in CaptureModes :
        ui = [mode |-> "dormant", active |-> Front(Menus), loaded |-> Menus,
              bound |-> Chorded, suspended |-> FALSE, release |-> NoMenu,
              escape |-> FALSE, captureMode |-> chosen, capture |-> FALSE,
              stole |-> FALSE, nonActivating |-> TRUE, clickThrough |-> TRUE,
              pause |-> FALSE, deferred |-> <<>>, submitted |-> <<>>]
  BY DEF Init
<1>2. Front(Menus) \in IF Menus = {} THEN {NoMenu} ELSE Menus
  BY FrontFacts
<1>3. ui \in Ui
  BY <1>1, <1>2, OverlayAssumption
<1>4. picks \in 0 .. MaxPicks
  BY OverlayAssumption DEF Init
<1>5. Watched(ui) /\ Styled(ui)
  BY <1>1
<1>6. Bound(ui) /\ Active(ui)
  BY <1>1, <1>2, OverlayAssumption
<1>7. QED BY <1>3, <1>4, <1>5, <1>6 DEF OverlayInv

\* A pick that is made is within the bound.
LEMMA PickFacts ==
  ASSUME NEW n \in 0 .. MaxPicks, n < MaxPicks, NEW a \in Actions
  PROVE  <<n + 1, a>> \in Pick /\ n + 1 \in 0 .. MaxPicks
BY OverlayAssumption DEF Pick

\* The wheel: clicks, and the ticks of its watches.
LEMMA WheelKeeps ==
  ASSUME OverlayInv,
         ClickWheel \/ DismissWheel \/ EscapeTick \/ ReleaseTick \/ CaptureTick
  PROVE  OverlayInv'
<1> USE DEF OverlayInv, Handled
<1> HIDE DEF Good
<1>1. CASE ClickWheel
  <2>1. CASE ui' = DisarmRelease(ui) /\ UNCHANGED picks
    BY <2>1, DisarmReleaseKeeps
  <2>2. ASSUME picks < MaxPicks, picks' = picks + 1, NEW a \in Actions,
               ui' = ExecuteAction(ui, <<picks + 1, a>>)
        PROVE  OverlayInv'
    BY <2>2, PickFacts, ExecuteActionKeeps
  <2>3. QED BY <1>1, <2>1, <2>2 DEF ClickWheel, Picked
<1>2. CASE DismissWheel
  BY <1>2, HideGuiKeeps DEF DismissWheel
<1>3. CASE EscapeTick
  <2>1. ui.mode = "wheel"
    BY <1>3 DEF EscapeTick, Good
  <2>2. QED BY <1>3, <2>1, HideGuiKeeps DEF EscapeTick
<1>4. CASE ReleaseTick
  <2> DEFINE u == DisarmRelease(ui)
  <2>1. Good(u)
    BY DisarmReleaseKeeps
  <2>2. \/ UNCHANGED picks /\ ui' = IF u.mode = "wheel" THEN HideGui(u) ELSE u
        \/ /\ picks < MaxPicks /\ picks' = picks + 1
           /\ \E a \in Actions : ui' = ExecuteAction(u, <<picks + 1, a>>)
    BY <1>4 DEF ReleaseTick, Picked
  <2> HIDE DEF u
  <2>3. QED BY <2>1, <2>2, HideGuiKeeps, PickFacts, ExecuteActionKeeps
<1>5. CASE CaptureTick
  <2>1. PICK got \in BOOLEAN :
          /\ ui' = IF ui.mode # "wheel" THEN EndCapture(ui)
                   ELSE [ui EXCEPT !.nonActivating = FALSE, !.clickThrough = FALSE, !.stole = got]
          /\ UNCHANGED picks
    BY <1>5 DEF CaptureTick
  <2>2. ui.mode = "wheel"
    BY <1>5 DEF CaptureTick, Good
  <2>3. QED BY <2>1, <2>2 DEF Good
<1>6. QED BY <1>1, <1>2, <1>3, <1>4, <1>5

\* The palette and the editor.
LEMMA PanelsKeep ==
  ASSUME OverlayInv,
         DismissSearch \/ ChooseInSearch \/ OpenSettings \/ TraySearch
           \/ SettingsClosed \/ SettingsSaved
  PROVE  OverlayInv'
<1> USE DEF OverlayInv, Handled
<1> HIDE DEF Good
<1>1. CASE DismissSearch
  BY <1>1, HideSearchKeeps DEF DismissSearch
<1>2. CASE ChooseInSearch
  <2> DEFINE v == HideSearch(ui)
  <2>1. Good(v) /\ v.loaded = ui.loaded
    BY HideSearchKeeps
  <2>2. \/ UNCHANGED picks /\ \E m \in ui.loaded : ui' = ShowGui(v, m)
        \/ /\ picks < MaxPicks /\ picks' = picks + 1
           /\ \E a \in Actions :
                ui' = [v EXCEPT !.submitted = Append(@, <<picks + 1, a>>)]
    BY <1>2 DEF ChooseInSearch, Picked
  <2> HIDE DEF v
  <2>3. ASSUME NEW p \in Pick
        PROVE  Good([v EXCEPT !.submitted = Append(@, p)])
    <3>1. Append(v.submitted, p) \in Seq(Pick)
      BY <2>1 DEF Good
    <3>2. QED BY <2>1, <3>1 DEF Good
  <2>4. QED BY <2>1, <2>2, <2>3, PickFacts, ShowGuiKeeps
<1>3. CASE OpenSettings
  BY <1>3, ShowSettingsKeeps DEF OpenSettings
<1>4. CASE TraySearch
  BY <1>4, OpenSearchFromTrayKeeps DEF TraySearch
<1>5. CASE SettingsClosed
  BY <1>5, CloseSettingsKeeps DEF SettingsClosed
<1>6. CASE SettingsSaved
  <2>1. PICK menus \in SUBSET Menus, chosen \in CaptureModes :
          ui' = ApplyConfig([ui EXCEPT !.captureMode = chosen], menus)
    BY <1>6 DEF SettingsSaved
  <2>2. Good([ui EXCEPT !.captureMode = chosen])
    BY DEF Good
  <2>3. QED BY <1>6, <2>1, <2>2, ApplyConfigKeeps DEF SettingsSaved
<1>7. QED BY <1>1, <1>2, <1>3, <1>4, <1>5, <1>6

\* A posted call, whatever the mode it finds.
LEMMA PostedKeeps ==
  ASSUME OverlayInv, RunPosted
  PROVE  OverlayInv'
<1> USE DEF OverlayInv
<1> HIDE DEF Good
<1> DEFINE c == Head(posted)
<1>1. \/ /\ UNCHANGED picks
         /\ \/ ui' = OnHotkey(ui, c.of)
            \/ c.of \in ui.loaded /\ ui' = ShowGui(ui, c.of)
            \/ ui' \in {ui, HideGui(ui), HideSearch(ui), ShowSearch(ui),
                        ShowSettings(ui), DisarmRelease(ui)}
      \/ /\ picks < MaxPicks /\ picks' = picks + 1
         /\ \E a \in Actions : ui' = ExecuteAction(ui, <<picks + 1, a>>)
  BY DEF RunPosted, PostedHandled
<1> HIDE DEF c
<1>2. Good(OnHotkey(ui, c.of))
  BY OnHotkeyKeeps
<1>3. c.of \in ui.loaded => Good(ShowGui(ui, c.of))
  BY ShowGuiKeeps
<1>4. /\ Good(HideGui(ui)) /\ Good(HideSearch(ui)) /\ Good(ShowSearch(ui))
      /\ Good(ShowSettings(ui)) /\ Good(DisarmRelease(ui))
  BY HideGuiKeeps, HideSearchKeeps, ShowSearchKeeps, ShowSettingsKeeps,
     DisarmReleaseKeeps
<1>5. QED
  BY <1>1, <1>2, <1>3, <1>4, PickFacts, ExecuteActionKeeps

\* Every step keeps the invariant.
LEMMA OverlayStep == OverlayInv /\ [Next]_vars => OverlayInv'
<1> SUFFICES ASSUME OverlayInv, [Next]_vars PROVE OverlayInv'
  OBVIOUS
<1>1. ASSUME UNCHANGED <<ui, picks>> PROVE OverlayInv'
  BY <1>1 DEF OverlayInv
<1>2. CASE UserStep
  <2>1. ASSUME NEW m \in Menus, PressHotkey(m) PROVE UNCHANGED <<ui, picks>>
    BY <2>1 DEF PressHotkey
  <2>2. CASE HookClick
    BY <1>1, <2>2 DEF HookClick
  <2>3. QED BY <1>1, <1>2, <2>1, <2>2, WheelKeeps, PanelsKeep DEF UserStep
<1>3. CASE RunPosted
  BY <1>3, PostedKeeps
<1>4. CASE SchedulerCatchesUp
  BY <1>1, <1>4 DEF SchedulerCatchesUp
<1>5. ASSUME NEW p, BeginRun(p) \/ EndRun(p) PROVE UNCHANGED <<ui, picks>>
  BY <1>5 DEF BeginRun, EndRun
<1>6. ASSUME NEW p, NEW n, MakeCall(p, n) PROVE UNCHANGED <<ui, picks>>
  BY <1>6 DEF MakeCall
<1>7. CASE UNCHANGED vars
  BY <1>1, <1>7 DEF vars
<1>8. QED BY <1>1, <1>2, <1>3, <1>4, <1>5, <1>6, <1>7 DEF Next

\* The editor is isolated whichever way it was opened: no hotkey is bound, and
\* the scheduler was last told to pause.
THEOREM EditorStaysIsolated == Spec => []EditorIsolated
<1>1. OverlayInv => EditorIsolated
  BY DEF OverlayInv, EditorIsolated
<1>2. QED BY OverlayInit, OverlayStep, <1>1, PTL DEF Spec

\* Hotkeys that are not suspended are those of the loaded menus, after any
\* number of saves.
THEOREM HotkeysMatchMenus == Spec => []BoundAreLoaded
<1>1. OverlayInv => BoundAreLoaded
  BY DEF OverlayInv, BoundAreLoaded
<1>2. QED BY OverlayInit, OverlayStep, <1>1, PTL DEF Spec

\* m_activeMenu never outlives the menus it points into.
THEOREM ActiveMenuIsLoaded == Spec => []ActiveIsLoaded
<1>1. OverlayInv => ActiveIsLoaded
  BY DEF OverlayInv, ActiveIsLoaded
<1>2. QED BY OverlayInit, OverlayStep, <1>1, PTL DEF Spec

\* Neither a hotkey nor m_activeMenu refers to a menu that is gone.
THEOREM MenusStayLoaded == Spec => []MenusAreLoaded
<1>1. QED BY HotkeysMatchMenus, ActiveMenuIsLoaded, PTL DEF MenusAreLoaded

\* The watches run on the wheel only, the Escape watch whenever it is shown.
THEOREM WatchesEndWithWheel == Spec => []WatchesFollowWheel
<1>1. OverlayInv => WatchesFollowWheel
  BY DEF OverlayInv, WatchesFollowWheel
<1>2. QED BY OverlayInit, OverlayStep, <1>1, PTL DEF Spec

\* The native styles of the window are those of its mode.
THEOREM StylesMatchMode == Spec => []StyleFollowsMode
<1>1. OverlayInv => StyleFollowsMode
  BY DEF OverlayInv, StyleFollowsMode
<1>2. QED BY OverlayInit, OverlayStep, <1>1, PTL DEF Spec

HIDE DEF Good, Watched, Styled, Bound, Active, Ui, Modes

-----------------------------------------------------------------------------
(* No pick is given to the scheduler twice, and the ways out of the editor *)
(* and of the wheel that ModesAreLeftClean names undo what these suspend,  *)
(* pause and defer.  A handler does one of three things to the picks       *)
(* deferred, which PicksMoved names, and each keeps them apart from those  *)
(* submitted; Clean says what a step out of a mode has undone.             *)

\* The deferred picks stay, are dropped, or follow those submitted.
PicksMoved(u, v) ==
  \/ v.submitted = u.submitted /\ v.deferred = u.deferred
  \/ v.submitted = u.submitted /\ v.deferred = <<>>
  \/ v.submitted = u.submitted \o u.deferred /\ v.deferred = <<>>

\* Of two sequences of picks: all differ, and are among the first n made.
Distinct(s) == \A i, j \in DOMAIN s : s[i] = s[j] => i = j

Once(s, d, n) ==
  /\ s \in Seq(Pick) /\ d \in Seq(Pick)
  /\ Distinct(s) /\ Distinct(d)
  /\ \A i \in DOMAIN s, j \in DOMAIN d : s[i] # d[j]
  /\ \A i \in DOMAIN s : s[i][1] <= n
  /\ \A j \in DOMAIN d : d[j][1] <= n

PicksOnce(u, n) == Once(u.submitted, u.deferred, n)

-----------------------------------------------------------------------------
(* Sequences.                                                              *)

\* Nothing deferred is apart from everything.
LEMMA OnceWithout ==
  ASSUME NEW s, NEW d, NEW n \in Nat, Once(s, d, n)
  PROVE  Once(s, <<>>, n)
BY DEF Once, Distinct

\* What was deferred comes after what was submitted.
LEMMA OnceFlushed ==
  ASSUME NEW s, NEW d, NEW n \in Nat, Once(s, d, n)
  PROVE  Once(s \o d, <<>>, n)
<1> DEFINE all == s \o d
<1>1. /\ s \in Seq(Pick) /\ d \in Seq(Pick) /\ all \in Seq(Pick)
      /\ Len(all) = Len(s) + Len(d) /\ Len(s) \in Nat /\ Len(d) \in Nat
      /\ DOMAIN s = 1 .. Len(s) /\ DOMAIN d = 1 .. Len(d)
      /\ DOMAIN all = 1 .. Len(s) + Len(d)
  BY DEF Once
<1>2. \A i \in DOMAIN all :
        \/ i \in DOMAIN s /\ all[i] = s[i]
        \/ i - Len(s) \in DOMAIN d /\ all[i] = d[i - Len(s)] /\ i \notin DOMAIN s
  BY <1>1
<1> HIDE DEF all
<1>3. Distinct(all)
  <2> SUFFICES ASSUME NEW i \in DOMAIN all, NEW j \in DOMAIN all, all[i] = all[j] PROVE i = j
    BY DEF Distinct
  <2>1. CASE i \in DOMAIN s /\ j \in DOMAIN s
    BY <1>1, <1>2, <2>1 DEF Once, Distinct
  <2>2. CASE i \in DOMAIN s /\ j \notin DOMAIN s
    BY <1>2, <2>2 DEF Once
  <2>3. CASE i \notin DOMAIN s /\ j \in DOMAIN s
    BY <1>2, <2>3 DEF Once
  <2>4. CASE i \notin DOMAIN s /\ j \notin DOMAIN s
    <3>1. i - Len(s) = j - Len(s)
      BY <1>2, <2>4 DEF Once, Distinct
    <3> QED BY <1>1, <3>1
  <2> QED BY <2>1, <2>2, <2>3, <2>4
<1>4. \A i \in DOMAIN all : all[i][1] <= n
  BY <1>2 DEF Once
<1>5. Once(all, <<>>, n)
  BY <1>1, <1>3, <1>4 DEF Once, Distinct
<1> QED BY <1>5 DEF all

\* A pick made later is none of those made before, wherever it is put.
LEMMA OnceAppended ==
  ASSUME NEW s, NEW d, NEW n \in Nat, Once(s, d, n), NEW p \in Pick, p[1] = n + 1
  PROVE  Once(Append(s, p), d, n + 1) /\ Once(s, Append(d, p), n + 1)
<1>1. ASSUME NEW t \in Seq(Pick)
      PROVE  /\ Append(t, p) \in Seq(Pick)
             /\ DOMAIN t = 1 .. Len(t) /\ Len(t) \in Nat
             /\ DOMAIN Append(t, p) = 1 .. Len(t) + 1
             /\ \A i \in DOMAIN Append(t, p) :
                  \/ i \in DOMAIN t /\ Append(t, p)[i] = t[i]
                  \/ i = Len(t) + 1 /\ Append(t, p)[i] = p
  BY <1>1
<1>2. ASSUME NEW q \in Pick, q[1] <= n PROVE q # p /\ q[1] <= n + 1
  BY <1>2 DEF Pick
<1>3. /\ \A i \in DOMAIN s : s[i] # p /\ s[i][1] <= n + 1
      /\ \A j \in DOMAIN d : d[j] # p /\ d[j][1] <= n + 1
  BY <1>1, <1>2 DEF Once
<1>4. Once(Append(s, p), d, n + 1)
  <2> DEFINE t == Append(s, p)
  <2>1. /\ t \in Seq(Pick) /\ Len(s) + 1 \notin DOMAIN s
        /\ \A i \in DOMAIN t : (i \in DOMAIN s /\ t[i] = s[i]) \/ (i = Len(s) + 1 /\ t[i] = p)
    BY <1>1 DEF Once
  <2> HIDE DEF t
  <2>2. Distinct(t)
    BY <1>3, <2>1 DEF Once, Distinct
  <2>3. \A i \in DOMAIN t : t[i][1] <= n + 1 /\ \A j \in DOMAIN d : t[i] # d[j]
    BY <1>3, <2>1 DEF Once
  <2>4. Once(t, d, n + 1)
    BY <1>3, <2>1, <2>2, <2>3 DEF Once
  <2> QED BY <2>4 DEF t
<1>5. Once(s, Append(d, p), n + 1)
  <2> DEFINE t == Append(d, p)
  <2>1. /\ t \in Seq(Pick) /\ Len(d) + 1 \notin DOMAIN d
        /\ \A i \in DOMAIN t : (i \in DOMAIN d /\ t[i] = d[i]) \/ (i = Len(d) + 1 /\ t[i] = p)
    BY <1>1 DEF Once
  <2> HIDE DEF t
  <2>2. Distinct(t)
    BY <1>3, <2>1 DEF Once, Distinct
  <2>3. \A i \in DOMAIN t : t[i][1] <= n + 1 /\ \A j \in DOMAIN s : s[j] # t[i]
    BY <1>3, <2>1 DEF Once
  <2>4. Once(s, t, n + 1)
    BY <1>3, <2>1, <2>2, <2>3 DEF Once
  <2> QED BY <2>4 DEF t
<1> QED BY <1>4, <1>5

\* Moved picks are still made once each.
LEMMA MovedOnce ==
  ASSUME NEW u, NEW v, NEW n \in Nat, PicksOnce(u, n), PicksMoved(u, v)
  PROVE  PicksOnce(v, n)
BY OnceWithout, OnceFlushed DEF PicksOnce, PicksMoved

-----------------------------------------------------------------------------
(* The handlers.                                                           *)

USE DEF Good, Watched, Styled, Bound, Active, Ui, Modes

PicksKept(u, v) == v.submitted = u.submitted /\ v.deferred = u.deferred

\* Handlers of the palette, the editor and the release watch leave picks alone.
LEMMA PicksLeftAlone ==
  ASSUME NEW u, Good(u)
  PROVE  /\ PicksKept(u, HideSearch(u)) /\ PicksKept(u, CloseSettings(u))
         /\ PicksKept(u, DisarmRelease(u)) /\ PicksKept(u, EndCapture(u))
<1>1. PicksKept(u, HideSearch(u))
  BY DEF PicksKept, HideSearch, Shell
<1>2. PicksKept(u, CloseSettings(u))
  BY DEF PicksKept, CloseSettings, RestoreAfterSettings, ResumeHotkeys, Shell
<1>3. PicksKept(u, DisarmRelease(u)) /\ PicksKept(u, EndCapture(u))
  BY DEF PicksKept, DisarmRelease, EndCapture
<1> QED BY <1>1, <1>2, <1>3

LEMMA ShowSearchPicks ==
  ASSUME NEW u, Good(u)
  PROVE  PicksKept(u, ShowSearch(u)) /\ PicksKept(u, OpenSearchFromTray(u))
<1>1. ASSUME NEW v, Good(v) PROVE PicksKept(v, ShowSearch(v))
  BY <1>1 DEF PicksKept, ShowSearch, EndCapture, DisarmWatches, DisarmRelease
<1>2. CASE u.mode = "settings"
  <2>1. Good(CloseSettings(u)) /\ PicksKept(u, CloseSettings(u))
    BY <1>2, CloseSettingsKeeps, PicksLeftAlone
  <2> HIDE DEF Good
  <2>2. PicksKept(CloseSettings(u), ShowSearch(CloseSettings(u)))
    BY <1>1, <2>1
  <2> QED BY <1>1, <1>2, <2>1, <2>2 DEF OpenSearchFromTray, PicksKept
<1>3. CASE u.mode # "settings"
  BY <1>1, <1>3 DEF OpenSearchFromTray
<1> QED BY <1>2, <1>3

LEMMA ApplyConfigPicks ==
  ASSUME NEW u, Good(u), NEW menus \in SUBSET Menus
  PROVE  PicksKept(u, ApplyConfig(u, menus))
BY DEF PicksKept, ApplyConfig

\* Leaving the wheel submits what was deferred.
LEMMA LeaveWheelPicks ==
  ASSUME NEW u, Good(u)
  PROVE  /\ LeaveWheel(u).submitted = u.submitted \o u.deferred
         /\ LeaveWheel(u).deferred = <<>>
<1> DEFINE v == [EndCapture(DisarmWatches(u)) EXCEPT !.stole = FALSE]
<1>1. v \in Ui /\ PicksKept(u, v)
  BY DEF EndCapture, DisarmWatches, PicksKept
<1>2. LeaveWheel(u) = FlushDeferred(v)
  BY DEF LeaveWheel
<1> HIDE DEF v
<1> QED BY <1>1, <1>2 DEF FlushDeferred, PicksKept

LEMMA HideGuiPicks ==
  ASSUME NEW u, Good(u)
  PROVE  /\ PicksMoved(u, HideGui(u))
         /\ u.mode # "settings" => /\ HideGui(u).submitted = u.submitted \o u.deferred
                                   /\ HideGui(u).deferred = <<>>
<1>1. CASE u.mode = "settings"
  BY <1>1, PicksLeftAlone DEF HideGui, PicksKept, PicksMoved
<1>2. CASE u.mode # "settings"
  <2> DEFINE v == LeaveWheel(u)
  <2>1. HideGui(u) = [v EXCEPT !.mode = "dormant", !.clickThrough = TRUE]
    BY <1>2 DEF HideGui
  <2>2. v \in Ui /\ v.submitted = u.submitted \o u.deferred /\ v.deferred = <<>>
    BY LeaveWheelFacts, LeaveWheelPicks
  <2> HIDE DEF v
  <2> QED BY <2>1, <2>2 DEF PicksMoved
<1> QED BY <1>1, <1>2

\* A menu that is shown starts with nothing deferred.
LEMMA ShowGuiPicks ==
  ASSUME NEW u, Good(u), NEW m \in u.loaded
  PROVE  PicksMoved(u, ShowGui(u, m))
<1> DEFINE v == HideSearch(u)
           w == [v EXCEPT !.active = m, !.deferred = <<>>]
<1>1. Good(v) /\ PicksKept(u, v)
  BY HideSearchKeeps, PicksLeftAlone
<1>2. ShowGui(u, m) = [BeginCapture(w) EXCEPT !.mode = "wheel", !.escape = TRUE,
                                              !.clickThrough = FALSE]
  BY DEF ShowGui
<1> HIDE DEF v
<1>3. w \in Ui /\ w.submitted = v.submitted /\ w.deferred = <<>>
  <2>1. <<>> \in Seq(Pick)
    OBVIOUS
  <2>2. m \in Menus
    OBVIOUS
  <2> QED BY <1>1, <2>1, <2>2
<1> HIDE DEF w
<1>4. /\ BeginCapture(w) \in Ui
      /\ BeginCapture(w).submitted = w.submitted /\ BeginCapture(w).deferred = w.deferred
  BY <1>3 DEF BeginCapture, EndCapture
<1> QED BY <1>1, <1>2, <1>3, <1>4 DEF PicksKept, PicksMoved

LEMMA ShowSettingsPicks ==
  ASSUME NEW u, Good(u)
  PROVE  /\ PicksMoved(u, ShowSettings(u))
         /\ u.mode = "wheel" => /\ ShowSettings(u).submitted = u.submitted \o u.deferred
                                /\ ShowSettings(u).deferred = <<>>
<1> DEFINE v == HideSearch(u)
           w == IF v.mode = "wheel" THEN LeaveWheel(v) ELSE v
           x == SuspendHotkeys(w)
<1>1. Good(v) /\ PicksKept(u, v) /\ (u.mode = "wheel" => v.mode = "wheel")
  BY HideSearchKeeps, PicksLeftAlone
<1>2. ShowSettings(u) = [x EXCEPT !.mode = "settings", !.nonActivating = FALSE,
                                  !.clickThrough = FALSE, !.pause = TRUE]
  BY DEF ShowSettings
<1> HIDE DEF v
<1>3. /\ w \in Ui
      /\ v.mode = "wheel" => w.submitted = v.submitted \o v.deferred /\ w.deferred = <<>>
      /\ v.mode # "wheel" => PicksKept(v, w)
  <2>1. v \in Ui
    BY <1>1
  <2> HIDE DEF Good, Ui
  <2>2. LeaveWheel(v) \in Ui
    BY <1>1, LeaveWheelFacts
  <2> QED BY <1>1, <2>1, <2>2, LeaveWheelPicks DEF PicksKept
<1> HIDE DEF w
<1>4. x \in Ui /\ PicksKept(w, x)
  <2>1. w \in Ui
    BY <1>3
  <2>2. x = w \/ \E b \in SUBSET w.bound : x = [w EXCEPT !.suspended = TRUE, !.bound = b]
    BY DEF SuspendHotkeys
  <2> HIDE DEF x
  <2>3. CASE x = w
    BY <2>1, <2>3 DEF PicksKept
  <2>4. ASSUME NEW b \in SUBSET w.bound, x = [w EXCEPT !.suspended = TRUE, !.bound = b]
        PROVE  x \in Ui /\ PicksKept(w, x)
    <3>1. w.bound \in SUBSET Menus
      BY <2>1
    <3>2. x \in Ui
      BY <2>1, <2>4, <3>1
    <3>3. PicksKept(w, x)
      BY <2>1, <2>4 DEF PicksKept
    <3> QED BY <3>2, <3>3
  <2> QED BY <2>2, <2>3, <2>4
<1> HIDE DEF x
<1>5. PicksKept(x, ShowSettings(u))
  BY <1>2, <1>4 DEF PicksKept
<1> HIDE DEF Ui, Good
<1> QED BY <1>1, <1>3, <1>4, <1>5 DEF PicksKept, PicksMoved

\* A pick is deferred or submitted, and what is deferred may follow.
LEMMA ExecuteActionOnce ==
  ASSUME NEW u, Good(u), NEW n \in Nat, PicksOnce(u, n), NEW p \in Pick, p[1] = n + 1
  PROVE  PicksOnce(ExecuteAction(u, p), n + 1)
<1> DEFINE v == DisarmRelease(u)
           w == IF v.active \in Deferring /\ v.mode = "wheel"
                THEN [v EXCEPT !.deferred = Append(@, p)]
                ELSE [v EXCEPT !.submitted = Append(@, p)]
<1>1. Good(v) /\ PicksKept(u, v)
  BY DisarmReleaseKeeps, PicksLeftAlone
<1> HIDE DEF v
<1>2. Append(v.deferred, p) \in Seq(Pick) /\ Append(v.submitted, p) \in Seq(Pick)
  BY <1>1
<1>3. /\ Good(w)
      /\ \/ w.submitted = v.submitted /\ w.deferred = Append(v.deferred, p)
         \/ w.submitted = Append(v.submitted, p) /\ w.deferred = v.deferred
  BY <1>1, <1>2
<1>4. ExecuteAction(u, p) = IF v.active \in Exiting /\ v.mode = "wheel"
                            THEN HideGui(w) ELSE w
  BY DEF ExecuteAction, v
<1> HIDE DEF w, Good
<1>5. PicksOnce(w, n + 1)
  BY <1>1, <1>3, OnceAppended DEF PicksOnce, PicksKept
<1>6. PicksOnce(HideGui(w), n + 1)
  <2>1. n + 1 \in Nat
    OBVIOUS
  <2> QED BY <1>3, <1>5, <2>1, HideGuiPicks, MovedOnce
<1> QED BY <1>4, <1>5, <1>6

\* A hotkey closes the wheel, or shows a menu.
LEMMA OnHotkeyPicks ==
  ASSUME NEW u, Good(u), NEW m
  PROVE  PicksMoved(u, OnHotkey(u, m))
<1> DEFINE v      == HideSearch(u)
           target == IF m \in v.loaded THEN m ELSE NoMenu
           show   == IF target # NoMenu THEN target
                     ELSE IF v.active = NoMenu THEN Front(v.loaded) ELSE v.active
           x      == IF v.mode = "wheel" THEN DisarmRelease(v) ELSE v
           w      == ShowGui(x, show)
<1>1. Good(v) /\ PicksKept(u, v)
  BY HideSearchKeeps, PicksLeftAlone
<1>2. \/ OnHotkey(u, m) = u \/ OnHotkey(u, m) = HideGui(v) \/ OnHotkey(u, m) = v
      \/ show # NoMenu /\ (OnHotkey(u, m) = w \/ OnHotkey(u, m) = [w EXCEPT !.release = show])
  BY DEF OnHotkey
<1> HIDE DEF v
<1>3. show # NoMenu => show \in v.loaded
  BY <1>1, FrontFacts
<1>4. Good(x) /\ x.loaded = v.loaded /\ PicksKept(v, x)
  <2> HIDE DEF Good
  <2>1. /\ Good(DisarmRelease(v)) /\ DisarmRelease(v).loaded = v.loaded
        /\ PicksKept(v, DisarmRelease(v)) /\ PicksKept(v, v)
    BY <1>1, DisarmReleaseKeeps, PicksLeftAlone DEF PicksKept
  <2>2. x = DisarmRelease(v) \/ x = v
    OBVIOUS
  <2> HIDE DEF x
  <2> QED BY <1>1, <2>1, <2>2
<1> HIDE DEF x, show
<1>5. show # NoMenu => Good(w) /\ PicksMoved(x, w)
  <2> HIDE DEF Good
  <2> QED BY <1>3, <1>4, ShowGuiKeeps, ShowGuiPicks
<1> HIDE DEF w
<1>6. show # NoMenu => PicksKept(w, [w EXCEPT !.release = show])
  BY <1>5 DEF PicksKept
<1>7. PicksMoved(v, HideGui(v))
  BY <1>1, HideGuiPicks
<1> HIDE DEF Good
<1> QED BY <1>1, <1>2, <1>4, <1>5, <1>6, <1>7 DEF PicksKept, PicksMoved

-----------------------------------------------------------------------------
(* The steps.  With no pick made the picks move; a pick is made by         *)
(* executeAction, or chosen in the palette.                                *)

PicksInv == OverlayInv /\ PicksOnce(ui, picks)

Chosen(u, p) == [HideSearch(u) EXCEPT !.submitted = Append(@, p)]

LEMMA ChosenOnce ==
  ASSUME NEW u, Good(u), NEW n \in Nat, PicksOnce(u, n), NEW p \in Pick, p[1] = n + 1
  PROVE  PicksOnce(Chosen(u, p), n + 1)
<1> DEFINE v == HideSearch(u)
           all == Append(v.submitted, p)
<1>1. Good(v) /\ PicksKept(u, v)
  BY HideSearchKeeps, PicksLeftAlone
<1>2. Chosen(u, p) = [v EXCEPT !.submitted = all]
  BY DEF Chosen
<1> HIDE DEF v
<1>3. Once(all, v.deferred, n + 1)
  BY <1>1, OnceAppended DEF PicksOnce, PicksKept
<1> HIDE DEF all
<1>4. Chosen(u, p).submitted = all /\ Chosen(u, p).deferred = v.deferred
  BY <1>1, <1>2
<1> QED BY <1>3, <1>4 DEF PicksOnce

\* What a step does to the picks.
Mover == UNCHANGED picks /\ PicksMoved(ui, ui')
Maker ==
  /\ picks < MaxPicks /\ picks' = picks + 1
  /\ \E a \in Actions, u \in {ui, DisarmRelease(ui)} :
       ui' = ExecuteAction(u, <<picks + 1, a>>) \/ ui' = Chosen(ui, <<picks + 1, a>>)

LEMMA MoverKeeps == ASSUME PicksInv, Mover PROVE PicksOnce(ui', picks')
<1>1. picks \in Nat
  BY OverlayAssumption DEF PicksInv, OverlayInv
<1> QED BY <1>1, MovedOnce DEF PicksInv, Mover

LEMMA MakerKeeps == ASSUME PicksInv, Maker PROVE PicksOnce(ui', picks')
<1>1. PICK a \in Actions, u \in {ui, DisarmRelease(ui)} :
        ui' = ExecuteAction(u, <<picks + 1, a>>) \/ ui' = Chosen(ui, <<picks + 1, a>>)
  BY DEF Maker
<1> DEFINE p == <<picks + 1, a>>
<1>2. picks \in Nat /\ p \in Pick /\ p[1] = picks + 1 /\ picks' = picks + 1
  BY PickFacts, OverlayAssumption DEF PicksInv, OverlayInv, Maker
<1> HIDE DEF p, Good
<1>3. Good(ui) /\ Good(DisarmRelease(ui)) /\ PicksKept(ui, DisarmRelease(ui))
  BY DisarmReleaseKeeps, PicksLeftAlone DEF PicksInv, OverlayInv
<1>4. Good(u) /\ PicksOnce(u, picks)
  BY <1>3 DEF PicksInv, PicksOnce, PicksKept
<1>5. PicksOnce(ExecuteAction(u, p), picks + 1)
  BY <1>2, <1>4, ExecuteActionOnce
<1>6. PicksOnce(Chosen(ui, p), picks + 1)
  BY <1>2, <1>3, ChosenOnce DEF PicksInv
<1> QED BY <1>1, <1>2, <1>5, <1>6 DEF p

\* The wheel.
LEMMA WheelPicks ==
  ASSUME OverlayInv,
         ClickWheel \/ DismissWheel \/ EscapeTick \/ ReleaseTick \/ CaptureTick
  PROVE  Mover \/ Maker
<1> HIDE DEF Good
<1>1. /\ Good(ui) /\ Good(DisarmRelease(ui))
      /\ PicksKept(ui, DisarmRelease(ui)) /\ PicksKept(ui, EndCapture(ui))
      /\ PicksMoved(ui, HideGui(ui)) /\ PicksMoved(DisarmRelease(ui), HideGui(DisarmRelease(ui)))
  BY DisarmReleaseKeeps, PicksLeftAlone, HideGuiPicks DEF OverlayInv
<1>2. CASE ClickWheel
  BY <1>1, <1>2 DEF ClickWheel, Picked, Handled, Maker, Mover, PicksKept, PicksMoved
<1>3. CASE DismissWheel
  BY <1>1, <1>3 DEF DismissWheel, Handled, Mover
<1>4. CASE EscapeTick
  <2>1. ui.mode = "wheel"
    BY <1>1, <1>4 DEF EscapeTick, Good
  <2> QED BY <1>1, <1>4, <2>1 DEF EscapeTick, Handled, Mover
<1>5. CASE ReleaseTick
  <2> DEFINE u == DisarmRelease(ui)
  <2>1. \/ UNCHANGED picks /\ ui' = IF u.mode = "wheel" THEN HideGui(u) ELSE u
        \/ /\ picks < MaxPicks /\ picks' = picks + 1
           /\ \E a \in Actions : ui' = ExecuteAction(u, <<picks + 1, a>>)
    BY <1>5 DEF ReleaseTick, Picked, Handled
  <2>2. PicksMoved(ui, u) /\ PicksMoved(ui, HideGui(u))
    BY <1>1 DEF PicksKept, PicksMoved
  <2> QED BY <2>1, <2>2 DEF Mover, Maker
<1>6. CASE CaptureTick
  <2>1. UNCHANGED picks /\ PicksKept(ui, ui')
    BY <1>1, <1>6 DEF CaptureTick, Handled, PicksKept, Good
  <2> QED BY <2>1 DEF Mover, PicksKept, PicksMoved
<1> QED BY <1>2, <1>3, <1>4, <1>5, <1>6

\* The palette and the editor.
LEMMA PanelsPicks ==
  ASSUME OverlayInv,
         DismissSearch \/ ChooseInSearch \/ OpenSettings \/ TraySearch
           \/ SettingsClosed \/ SettingsSaved
  PROVE  Mover \/ Maker
<1> HIDE DEF Good
<1>1. Good(ui)
  BY DEF OverlayInv
<1>2. CASE DismissSearch
  BY <1>1, <1>2, PicksLeftAlone DEF DismissSearch, Handled, Mover, PicksKept, PicksMoved
<1>3. CASE ChooseInSearch
  <2>1. ASSUME NEW m \in ui.loaded PROVE PicksMoved(ui, ShowGui(HideSearch(ui), m))
    <3>1. Good(HideSearch(ui)) /\ HideSearch(ui).loaded = ui.loaded /\ PicksKept(ui, HideSearch(ui))
      BY <1>1, HideSearchKeeps, PicksLeftAlone
    <3>2. PicksMoved(HideSearch(ui), ShowGui(HideSearch(ui), m))
      BY <3>1, ShowGuiPicks
    <3> QED BY <3>1, <3>2 DEF PicksKept, PicksMoved
  <2>2. \/ UNCHANGED picks /\ \E m \in ui.loaded : ui' = ShowGui(HideSearch(ui), m)
        \/ /\ picks < MaxPicks /\ picks' = picks + 1
           /\ \E a \in Actions : ui' = Chosen(ui, <<picks + 1, a>>)
    BY <1>3 DEF ChooseInSearch, Picked, Handled, Chosen
  <2> QED BY <2>1, <2>2 DEF Mover, Maker
<1>4. CASE OpenSettings
  BY <1>1, <1>4, ShowSettingsPicks DEF OpenSettings, Handled, Mover
<1>5. CASE TraySearch
  BY <1>1, <1>5, ShowSearchPicks DEF TraySearch, Handled, Mover, PicksKept, PicksMoved
<1>6. CASE SettingsClosed
  BY <1>1, <1>6, PicksLeftAlone DEF SettingsClosed, Handled, Mover, PicksKept, PicksMoved
<1>7. CASE SettingsSaved
  <2>1. PICK menus \in SUBSET Menus, chosen \in CaptureModes :
          ui' = ApplyConfig([ui EXCEPT !.captureMode = chosen], menus)
    BY <1>7 DEF SettingsSaved
  <2> DEFINE u == [ui EXCEPT !.captureMode = chosen]
  <2>2. Good(u) /\ PicksKept(ui, u)
    BY <1>1 DEF Good, PicksKept
  <2> HIDE DEF u
  <2>3. PicksKept(u, ApplyConfig(u, menus))
    BY <2>2, ApplyConfigPicks
  <2> QED BY <1>7, <2>1, <2>2, <2>3 DEF u, SettingsSaved, Mover, PicksKept, PicksMoved
<1> QED BY <1>2, <1>3, <1>4, <1>5, <1>6, <1>7

\* A posted call.
LEMMA PostedPicks ==
  ASSUME OverlayInv, RunPosted
  PROVE  Mover \/ Maker
<1> HIDE DEF Good
<1> DEFINE c == Head(posted)
<1>1. \/ /\ UNCHANGED picks
         /\ \/ ui' = OnHotkey(ui, c.of)
            \/ c.of \in ui.loaded /\ ui' = ShowGui(ui, c.of)
            \/ ui' = ui \/ ui' = HideGui(ui) \/ ui' = HideSearch(ui) \/ ui' = ShowSearch(ui)
            \/ ui' = ShowSettings(ui) \/ ui' = DisarmRelease(ui)
      \/ /\ picks < MaxPicks /\ picks' = picks + 1
         /\ \E a \in Actions : ui' = ExecuteAction(ui, <<picks + 1, a>>)
  BY DEF RunPosted, PostedHandled
<1> HIDE DEF c
<1>2. Good(ui)
  BY DEF OverlayInv
<1>3. PicksMoved(ui, OnHotkey(ui, c.of)) /\ (c.of \in ui.loaded => PicksMoved(ui, ShowGui(ui, c.of)))
  BY <1>2, OnHotkeyPicks, ShowGuiPicks
<1>4. /\ PicksMoved(ui, HideGui(ui)) /\ PicksMoved(ui, ShowSettings(ui)) /\ PicksMoved(ui, ui)
      /\ PicksMoved(ui, HideSearch(ui)) /\ PicksMoved(ui, ShowSearch(ui))
      /\ PicksMoved(ui, DisarmRelease(ui))
  BY <1>2, HideGuiPicks, ShowSettingsPicks, PicksLeftAlone, ShowSearchPicks
     DEF PicksKept, PicksMoved
<1> QED BY <1>1, <1>3, <1>4 DEF Mover, Maker

LEMMA PicksInit == Init => PicksInv
<1> SUFFICES ASSUME Init PROVE PicksOnce(ui, picks)
  BY OverlayInit DEF PicksInv
<1>1. ui.submitted = <<>> /\ ui.deferred = <<>> /\ <<>> \in Seq(Pick)
  BY DEF Init
<1> QED BY <1>1 DEF PicksOnce, Once, Distinct

LEMMA PicksStep == PicksInv /\ [Next]_vars => PicksInv'
<1> SUFFICES ASSUME PicksInv, [Next]_vars PROVE PicksOnce(ui', picks')
  BY OverlayStep DEF PicksInv
<1> HIDE DEF Good
<1>1. ASSUME UNCHANGED <<ui, picks>> PROVE PicksOnce(ui', picks')
  BY <1>1 DEF PicksInv
<1>2. CASE UserStep
  <2>1. ASSUME NEW m \in Menus, PressHotkey(m) PROVE UNCHANGED <<ui, picks>>
    BY <2>1 DEF PressHotkey
  <2>2. HookClick => UNCHANGED <<ui, picks>>
    BY DEF HookClick
  <2>3. OverlayInv
    BY DEF PicksInv
  <2> QED BY <1>1, <1>2, <2>1, <2>2, <2>3, WheelPicks, PanelsPicks, MoverKeeps, MakerKeeps
          DEF UserStep
<1>3. CASE RunPosted
  BY <1>3, PostedPicks, MoverKeeps, MakerKeeps DEF PicksInv
<1>4. SchedulerCatchesUp => UNCHANGED <<ui, picks>>
  BY DEF SchedulerCatchesUp
<1>5. ASSUME NEW p, BeginRun(p) \/ EndRun(p) PROVE UNCHANGED <<ui, picks>>
  BY <1>5 DEF BeginRun, EndRun
<1>6. ASSUME NEW p, NEW n, MakeCall(p, n) PROVE UNCHANGED <<ui, picks>>
  BY <1>6 DEF MakeCall
<1>7. CASE UNCHANGED vars
  BY <1>1, <1>7 DEF vars
<1> QED BY <1>1, <1>2, <1>3, <1>4, <1>5, <1>6, <1>7 DEF Next

\* A pick is given to the scheduler once, whichever way the wheel it was made
\* on is left and whatever was deferred before it.  (executeAction,
\* flushDeferredActions)
THEOREM PicksGoOnce == Spec => []PicksSubmittedOnce
<1>1. ASSUME PicksInv PROVE PicksSubmittedOnce
  <2>0. picks \in Nat
    BY <1>1, OverlayAssumption DEF PicksInv, OverlayInv
  <2>1. Once(ui.submitted, ui.deferred, picks)
    BY <1>1 DEF PicksInv, PicksOnce
  <2>2. Once(ui.submitted \o ui.deferred, <<>>, picks)
    BY <2>0, <2>1, OnceFlushed
  <2>3. Distinct(ui.submitted \o ui.deferred)
    BY <2>2 DEF Once
  <2> QED BY <2>3 DEF PicksSubmittedOnce, Distinct
<1> QED BY PicksInit, PicksStep, <1>1, PTL DEF Spec

-----------------------------------------------------------------------------
(* Modes are left clean.  What a handler does in one step, from any mode.  *)

\* On the wheel of a menu that does not defer nothing is deferred.
Waits(u) == u.mode = "wheel" /\ u.active \notin Deferring => u.deferred = <<>>

Restored(u, v) ==
  u.mode = "settings" /\ v.mode \notin {"settings", "wheel"} =>
    ~v.suspended /\ ~v.pause /\ v.bound = v.loaded \cap Chorded

Flushed(u, v) ==
  u.mode = "wheel" /\ v.mode \in {"dormant", "settings"} =>
    /\ v.deferred = <<>>
    /\ \E t \in Seq(Pick) : v.submitted = (u.submitted \o u.deferred) \o t

Clean(u, v) == Restored(u, v) /\ Flushed(u, v) /\ Waits(v)

LEMMA Joined ==
  ASSUME NEW s \in Seq(Pick), NEW d \in Seq(Pick)
  PROVE  /\ s \o d = (s \o d) \o <<>> /\ <<>> \in Seq(Pick)
         /\ \A p \in Pick : /\ s \o Append(d, p) = (s \o d) \o <<p>>
                            /\ d = <<>> => Append(s, p) \o d = (s \o d) \o <<p>>
                            /\ <<p>> \in Seq(Pick)
         /\ \A t \in Seq(Pick) : /\ Len(s \o t) >= Len(s)
                                 /\ SubSeq(s \o t, 1, Len(s)) = s
<1>1. s \o d = (s \o d) \o <<>> /\ <<>> \in Seq(Pick)
  OBVIOUS
<1>2. ASSUME NEW p \in Pick PROVE s \o Append(d, p) = (s \o d) \o <<p>> /\ <<p>> \in Seq(Pick)
  BY SMTT(30)
<1>3. ASSUME NEW p \in Pick, d = <<>> PROVE Append(s, p) \o d = (s \o d) \o <<p>>
  BY <1>3, SMTT(30)
<1>4. ASSUME NEW t \in Seq(Pick) PROVE Len(s \o t) >= Len(s) /\ SubSeq(s \o t, 1, Len(s)) = s
  BY SMTT(30)
<1> QED BY <1>1, <1>2, <1>3, <1>4

\* A step within a mode, or from another than these two.
LEMMA CleanWithin ==
  ASSUME NEW u, NEW v, Waits(u),
         \/ v.mode = u.mode /\ v.active = u.active /\ PicksKept(u, v)
         \/ v.mode = u.mode /\ v.mode # "wheel"
         \/ u.mode \notin {"settings", "wheel"} /\ v.mode # "wheel"
         \/ v.mode = "wheel" /\ v.deferred = <<>>
         \/ v.mode = "search" /\ u.mode # "settings"
  PROVE  Clean(u, v)
BY DEF Clean, Restored, Flushed, Waits, PicksKept

\* Hotkeys not suspended are those loaded, and the editor had none bound.
LEMMA CloseSettingsRestores ==
  ASSUME NEW u, Good(u), u.mode = "settings"
  PROVE  Clean(u, CloseSettings(u))
<1> DEFINE v == CloseSettings(u)
<1>1. Good(v) /\ v.mode = "dormant"
  BY CloseSettingsKeeps
<1>2. ~v.suspended /\ ~v.pause
  BY DEF CloseSettings, RestoreAfterSettings, ResumeHotkeys, Shell
<1>3. v.bound = v.loaded \cap Chorded
  BY <1>1, <1>2
<1> HIDE DEF v
<1>4. Clean(u, v)
  BY <1>1, <1>2, <1>3 DEF Clean, Restored, Flushed, Waits
<1> QED BY <1>4 DEF v

LEMMA HideGuiClean ==
  ASSUME NEW u, Good(u)
  PROVE  Clean(u, HideGui(u)) /\ HideGui(u).mode = "dormant"
<1>1. CASE u.mode = "settings"
  BY <1>1, CloseSettingsRestores, CloseSettingsKeeps DEF HideGui
<1>2. CASE u.mode # "settings"
  <2> DEFINE v == HideGui(u)
  <2>1. v.mode = "dormant"
    <3>1. LeaveWheel(u) \in Ui
      BY LeaveWheelFacts
    <3>2. HideGui(u) = [LeaveWheel(u) EXCEPT !.mode = "dormant", !.clickThrough = TRUE]
      BY <1>2 DEF HideGui
    <3> QED BY <3>1, <3>2
  <2>2. v.submitted = u.submitted \o u.deferred /\ v.deferred = <<>>
    BY <1>2, HideGuiPicks
  <2>3. u.submitted \in Seq(Pick) /\ u.deferred \in Seq(Pick)
    OBVIOUS
  <2>4. \E t \in Seq(Pick) : v.submitted = (u.submitted \o u.deferred) \o t
    BY <2>2, <2>3, Joined
  <2> HIDE DEF v, Good
  <2>5. Clean(u, v)
    BY <1>2, <2>1, <2>2, <2>4 DEF Clean, Restored, Flushed, Waits
  <2> QED BY <2>1, <2>5 DEF v
<1> QED BY <1>1, <1>2

LEMMA ShowGuiClean ==
  ASSUME NEW u, Good(u), NEW m \in u.loaded, NEW before, Waits(before)
  PROVE  Clean(before, ShowGui(u, m))
<1> DEFINE v == HideSearch(u)
           w == [v EXCEPT !.active = m, !.deferred = <<>>]
<1>1. Good(v)
  BY HideSearchKeeps
<1> HIDE DEF v
<1>2. w \in Ui /\ w.deferred = <<>>
  <2>1. <<>> \in Seq(Pick)
    OBVIOUS
  <2>2. m \in Menus
    OBVIOUS
  <2> QED BY <1>1, <2>1, <2>2
<1>3. ShowGui(u, m) = [BeginCapture(w) EXCEPT !.mode = "wheel", !.escape = TRUE,
                                              !.clickThrough = FALSE]
  BY DEF ShowGui, v
<1> HIDE DEF w
<1>4. BeginCapture(w) \in Ui /\ BeginCapture(w).deferred = <<>>
  BY <1>2 DEF BeginCapture, EndCapture
<1>5. ShowGui(u, m).mode = "wheel" /\ ShowGui(u, m).deferred = <<>>
  BY <1>3, <1>4
<1> HIDE DEF Good
<1> QED BY <1>5, CleanWithin

LEMMA HideSearchClean ==
  ASSUME NEW u, Good(u), Waits(u)
  PROVE  Clean(u, HideSearch(u)) /\ Clean(u, DisarmRelease(u)) /\ Clean(u, u)
         /\ Waits(HideSearch(u)) /\ Waits(DisarmRelease(u))
<1>1. Clean(u, u)
  BY CleanWithin DEF PicksKept
<1>2. /\ DisarmRelease(u).mode = u.mode /\ DisarmRelease(u).active = u.active
      /\ PicksKept(u, DisarmRelease(u))
  BY DEF DisarmRelease, PicksKept
<1>3. Clean(u, DisarmRelease(u))
  BY <1>2, CleanWithin
<1>4. Clean(u, HideSearch(u))
  <2>1. CASE u.mode # "search"
    BY <1>1, <2>1, HideSearchKeeps
  <2>2. CASE u.mode = "search"
    <3>1. HideSearch(u).mode = "dormant"
      BY <2>2 DEF HideSearch, Shell
    <3> HIDE DEF Good
    <3> QED BY <2>2, <3>1, CleanWithin
  <2> QED BY <2>1, <2>2
<1> QED BY <1>1, <1>3, <1>4 DEF Clean

LEMMA ShowSearchClean ==
  ASSUME NEW u, Good(u), Waits(u)
  PROVE  Clean(u, ShowSearch(u)) /\ Clean(u, OpenSearchFromTray(u))
<1>1. ASSUME NEW v, Good(v), v.mode # "settings"
      PROVE  /\ ShowSearch(v).mode = "search" /\ ShowSearch(v).suspended = v.suspended
             /\ ShowSearch(v).pause = v.pause /\ ShowSearch(v).bound = v.bound
             /\ ShowSearch(v).loaded = v.loaded
  BY <1>1, ZenonT(60) DEF ShowSearch, EndCapture, DisarmWatches, DisarmRelease
<1>2. CASE u.mode # "settings"
  <2>1. ShowSearch(u).mode = "search"
    BY <1>1, <1>2
  <2>2. OpenSearchFromTray(u) = ShowSearch(u)
    BY <1>2 DEF OpenSearchFromTray
  <2> HIDE DEF Good
  <2> QED BY <1>2, <2>1, <2>2, CleanWithin
<1>3. CASE u.mode = "settings"
  <2>1. ShowSearch(u) = u /\ OpenSearchFromTray(u) = ShowSearch(CloseSettings(u))
    BY <1>3 DEF ShowSearch, OpenSearchFromTray
  <2>2. /\ Good(CloseSettings(u)) /\ CloseSettings(u).mode = "dormant"
        /\ Clean(u, CloseSettings(u))
    BY <1>3, CloseSettingsKeeps, CloseSettingsRestores
  <2> HIDE DEF Good
  <2>3. /\ ShowSearch(CloseSettings(u)).mode = "search"
        /\ ShowSearch(CloseSettings(u)).suspended = CloseSettings(u).suspended
        /\ ShowSearch(CloseSettings(u)).pause = CloseSettings(u).pause
        /\ ShowSearch(CloseSettings(u)).bound = CloseSettings(u).bound
        /\ ShowSearch(CloseSettings(u)).loaded = CloseSettings(u).loaded
    BY <1>1, <2>2
  <2>4. Clean(u, ShowSearch(CloseSettings(u)))
    BY <1>3, <2>2, <2>3 DEF Clean, Restored, Flushed, Waits
  <2> QED BY <2>1, <2>4, HideSearchClean
<1> QED BY <1>2, <1>3

LEMMA ShowSettingsClean ==
  ASSUME NEW u, Good(u)
  PROVE  Clean(u, ShowSettings(u))
<1> DEFINE v == ShowSettings(u)
<1>1. v.mode = "settings"
  <2>1. Good(v)
    BY ShowSettingsKeeps
  <2> QED BY <2>1 DEF ShowSettings
<1>2. u.mode = "wheel" => v.submitted = u.submitted \o u.deferred /\ v.deferred = <<>>
  BY ShowSettingsPicks
<1>3. u.submitted \in Seq(Pick) /\ u.deferred \in Seq(Pick)
  OBVIOUS
<1>4. u.mode = "wheel" => \E t \in Seq(Pick) : v.submitted = (u.submitted \o u.deferred) \o t
  <2>1. /\ u.submitted \o u.deferred = (u.submitted \o u.deferred) \o <<>>
        /\ <<>> \in Seq(Pick)
    BY <1>3, Joined
  <2> HIDE DEF v, Good
  <2> QED BY <1>2, <2>1
<1> HIDE DEF v, Good
<1>5. Clean(u, v)
  BY <1>1, <1>2, <1>4 DEF Clean, Restored, Flushed, Waits
<1> QED BY <1>5 DEF v

LEMMA OnHotkeyClean ==
  ASSUME NEW u, Good(u), Waits(u), NEW m
  PROVE  Clean(u, OnHotkey(u, m))
<1> DEFINE v      == HideSearch(u)
           target == IF m \in v.loaded THEN m ELSE NoMenu
           show   == IF target # NoMenu THEN target
                     ELSE IF v.active = NoMenu THEN Front(v.loaded) ELSE v.active
           x      == IF v.mode = "wheel" THEN DisarmRelease(v) ELSE v
           w      == ShowGui(x, show)
<1>1. /\ Good(v) /\ (u.mode # "search" => v = u) /\ v.mode # "search"
      /\ Clean(u, v) /\ Clean(u, u)
  BY HideSearchKeeps, HideSearchClean
<1>2. \/ OnHotkey(u, m) = u \/ OnHotkey(u, m) = v
      \/ OnHotkey(u, m) = HideGui(v) /\ v.mode = "wheel"
      \/ show # NoMenu /\ (OnHotkey(u, m) = w \/ OnHotkey(u, m) = [w EXCEPT !.release = show])
  BY DEF OnHotkey
<1>3. v.mode = "wheel" => v = u
  BY DEF HideSearch, Shell
<1> HIDE DEF v
<1>4. show # NoMenu => show \in v.loaded
  BY <1>1, FrontFacts
<1>5. Good(x) /\ x.loaded = v.loaded
  <2> HIDE DEF Good
  <2>1. Good(DisarmRelease(v)) /\ DisarmRelease(v).loaded = v.loaded
    BY <1>1, DisarmReleaseKeeps
  <2>2. x = DisarmRelease(v) \/ x = v
    OBVIOUS
  <2> HIDE DEF x
  <2> QED BY <1>1, <2>1, <2>2
<1> HIDE DEF x, show
<1>6. show # NoMenu => Good(w) /\ Clean(u, w)
  <2> HIDE DEF Good
  <2> QED BY <1>4, <1>5, ShowGuiKeeps, ShowGuiClean
<1> HIDE DEF w
<1>7. show # NoMenu => Clean(u, [w EXCEPT !.release = show])
  <2> DEFINE y == [w EXCEPT !.release = show]
  <2>1. show # NoMenu =>
          /\ y.mode = w.mode /\ y.deferred = w.deferred /\ y.submitted = w.submitted
          /\ y.active = w.active /\ y.suspended = w.suspended /\ y.pause = w.pause
          /\ y.bound = w.bound /\ y.loaded = w.loaded
    BY <1>6
  <2> HIDE DEF y, Good
  <2>2. show # NoMenu => Clean(u, y)
    BY <1>6, <2>1 DEF Clean, Restored, Flushed, Waits
  <2> QED BY <2>2 DEF y
<1>8. v.mode = "wheel" => Clean(u, HideGui(v))
  BY <1>1, <1>3, HideGuiClean
<1> HIDE DEF Good
<1> QED BY <1>1, <1>2, <1>6, <1>7, <1>8

\* A pick of an exiting menu: what was deferred goes before it, unless the
\* menu does not defer, when there was nothing.
LEMMA ExecuteActionClean ==
  ASSUME NEW u, Good(u), Waits(u), NEW p \in Pick
  PROVE  Clean(u, ExecuteAction(u, p))
<1> DEFINE v == DisarmRelease(u)
           w == IF v.active \in Deferring /\ v.mode = "wheel"
                THEN [v EXCEPT !.deferred = Append(@, p)]
                ELSE [v EXCEPT !.submitted = Append(@, p)]
<1>1. /\ Good(v) /\ PicksKept(u, v) /\ v.mode = u.mode /\ v.active = u.active
      /\ u.submitted \in Seq(Pick) /\ u.deferred \in Seq(Pick)
  BY DisarmReleaseKeeps, PicksLeftAlone DEF DisarmRelease
<1> HIDE DEF v
<1>2. Append(v.deferred, p) \in Seq(Pick) /\ Append(v.submitted, p) \in Seq(Pick)
  BY <1>1
<1>3. /\ Good(w) /\ w.mode = u.mode /\ w.active = u.active
      /\ \/ /\ u.active \in Deferring /\ u.mode = "wheel"
            /\ w.submitted = u.submitted /\ w.deferred = Append(u.deferred, p)
         \/ /\ ~(u.active \in Deferring /\ u.mode = "wheel")
            /\ w.submitted = Append(u.submitted, p) /\ w.deferred = u.deferred
  BY <1>1, <1>2 DEF PicksKept
<1>4. ExecuteAction(u, p) = IF v.active \in Exiting /\ v.mode = "wheel"
                            THEN HideGui(w) ELSE w
  BY DEF ExecuteAction, v
<1> HIDE DEF w, Good
<1>5. Clean(u, w)
  BY <1>3 DEF Clean, Restored, Flushed, Waits
<1>6. ASSUME u.mode = "wheel" PROVE Clean(u, HideGui(w))
  <2>1. /\ HideGui(w).submitted = w.submitted \o w.deferred /\ HideGui(w).deferred = <<>>
        /\ HideGui(w).mode = "dormant"
    BY <1>3, <1>6, HideGuiPicks, HideGuiClean
  <2>2. w.submitted \o w.deferred = (u.submitted \o u.deferred) \o <<p>>
    <3>1. u.active \notin Deferring => u.deferred = <<>>
      BY <1>6 DEF Waits
    <3>2. CASE u.active \in Deferring
      <4>1. w.submitted = u.submitted /\ w.deferred = Append(u.deferred, p)
        BY <1>3, <1>6, <3>2
      <4>2. u.submitted \o Append(u.deferred, p) = (u.submitted \o u.deferred) \o <<p>>
        BY <1>1, Joined
      <4> QED BY <4>1, <4>2
    <3>3. CASE u.active \notin Deferring
      <4>1. /\ w.submitted = Append(u.submitted, p) /\ w.deferred = u.deferred
            /\ u.deferred = <<>>
        BY <1>3, <3>1, <3>3
      <4>2. Append(u.submitted, p) \o u.deferred = (u.submitted \o u.deferred) \o <<p>>
        BY <1>1, <4>1, Joined
      <4> QED BY <4>1, <4>2
    <3> QED BY <3>2, <3>3
  <2>3. \E t \in Seq(Pick) : HideGui(w).submitted = (u.submitted \o u.deferred) \o t
    BY <1>1, <2>1, <2>2, Joined
  <2> QED BY <1>6, <2>1, <2>3 DEF Clean, Restored, Flushed, Waits
<1> QED BY <1>1, <1>4, <1>5, <1>6

\* The release watch is disarmed first: the wheel is as it was.
LEMMA DisarmedClean ==
  ASSUME NEW u, Good(u), Waits(u)
  PROVE  /\ Waits(DisarmRelease(u)) /\ Good(DisarmRelease(u))
         /\ DisarmRelease(u).mode = u.mode
         /\ \A v : Clean(DisarmRelease(u), v) => Clean(u, v)
<1> DEFINE w == DisarmRelease(u)
<1>1. /\ Good(w) /\ w.mode = u.mode /\ PicksKept(u, w) /\ Waits(w)
  BY DisarmReleaseKeeps, PicksLeftAlone, HideSearchClean DEF DisarmRelease
<1> HIDE DEF w, Good
<1>2. \A v : Clean(w, v) => Clean(u, v)
  BY <1>1 DEF Clean, Restored, Flushed, PicksKept
<1> QED BY <1>1, <1>2 DEF w

LEMMA ChosenClean ==
  ASSUME NEW u, Good(u), Waits(u), u.mode = "search", NEW p \in Pick
  PROVE  Clean(u, Chosen(u, p))
<1>1. Chosen(u, p).mode = "dormant"
  BY DEF Chosen, HideSearch, Shell
<1> HIDE DEF Good
<1> QED BY <1>1, CleanWithin

-----------------------------------------------------------------------------
(* The steps, each clean for the step of its handler is.                   *)

CleanInv == OverlayInv /\ Waits(ui)

\* The handlers, as the steps call them.
LEMMA CleanHandlers ==
  ASSUME CleanInv
  PROVE  /\ Good(ui) /\ Waits(ui)
         /\ Clean(ui, ui) /\ Clean(ui, DisarmRelease(ui)) /\ Clean(ui, HideGui(ui))
         /\ Clean(ui, HideSearch(ui)) /\ Clean(ui, ShowSearch(ui))
         /\ Clean(ui, OpenSearchFromTray(ui)) /\ Clean(ui, ShowSettings(ui))
         /\ \A m : Clean(ui, OnHotkey(ui, m))
         /\ \A m \in ui.loaded : Clean(ui, ShowGui(ui, m))
         /\ \A a \in Actions :
              picks < MaxPicks =>
                /\ Clean(ui, ExecuteAction(ui, <<picks + 1, a>>))
                /\ Clean(ui, ExecuteAction(DisarmRelease(ui), <<picks + 1, a>>))
                /\ ui.mode = "search" => Clean(ui, Chosen(ui, <<picks + 1, a>>))
<1> HIDE DEF Good
<1>1. Good(ui) /\ Waits(ui) /\ picks \in 0 .. MaxPicks
  BY DEF CleanInv, OverlayInv
<1>2. /\ Clean(ui, ui) /\ Clean(ui, DisarmRelease(ui)) /\ Clean(ui, HideGui(ui))
      /\ Clean(ui, HideSearch(ui)) /\ Clean(ui, ShowSearch(ui))
      /\ Clean(ui, OpenSearchFromTray(ui)) /\ Clean(ui, ShowSettings(ui))
  BY <1>1, HideGuiClean, HideSearchClean, ShowSearchClean, ShowSettingsClean
<1>3. \A m : Clean(ui, OnHotkey(ui, m))
  BY <1>1, OnHotkeyClean
<1>4. \A m \in ui.loaded : Clean(ui, ShowGui(ui, m))
  BY <1>1, ShowGuiClean
<1>5. ASSUME NEW a \in Actions, picks < MaxPicks
      PROVE  /\ Clean(ui, ExecuteAction(ui, <<picks + 1, a>>))
             /\ Clean(ui, ExecuteAction(DisarmRelease(ui), <<picks + 1, a>>))
             /\ ui.mode = "search" => Clean(ui, Chosen(ui, <<picks + 1, a>>))
  <2> DEFINE p == <<picks + 1, a>>
  <2>1. p \in Pick
    BY <1>1, <1>5, PickFacts
  <2> HIDE DEF p
  <2>2. Clean(ui, ExecuteAction(ui, p))
    BY <1>1, <2>1, ExecuteActionClean
  <2>3. Good(DisarmRelease(ui)) /\ Waits(DisarmRelease(ui))
    BY <1>1, DisarmedClean
  <2>4. Clean(DisarmRelease(ui), ExecuteAction(DisarmRelease(ui), p))
    BY <2>1, <2>3, ExecuteActionClean
  <2>5. Clean(ui, ExecuteAction(DisarmRelease(ui), p))
    BY <1>1, <2>4, DisarmedClean
  <2>6. ui.mode = "search" => Clean(ui, Chosen(ui, p))
    BY <1>1, <2>1, ChosenClean
  <2> QED BY <2>2, <2>5, <2>6 DEF p
<1> QED BY <1>1, <1>2, <1>3, <1>4, <1>5

\* The wheel.
LEMMA WheelClean ==
  ASSUME CleanInv,
         ClickWheel \/ DismissWheel \/ EscapeTick \/ ReleaseTick \/ CaptureTick
  PROVE  Clean(ui, ui')
<1> HIDE DEF Good
<1>1. CASE ClickWheel
  BY <1>1, CleanHandlers DEF ClickWheel, Picked, Handled
<1>2. CASE DismissWheel
  BY <1>2, CleanHandlers DEF DismissWheel, Handled
<1>3. CASE EscapeTick
  <2>1. ui.mode = "wheel"
    BY <1>3 DEF EscapeTick, Good, CleanInv, OverlayInv
  <2> QED BY <1>3, <2>1, CleanHandlers DEF EscapeTick, Handled
<1>4. CASE ReleaseTick
  <2> DEFINE u == DisarmRelease(ui)
  <2>1. \/ ui' = IF u.mode = "wheel" THEN HideGui(u) ELSE u
        \/ picks < MaxPicks /\ \E a \in Actions : ui' = ExecuteAction(u, <<picks + 1, a>>)
    BY <1>4 DEF ReleaseTick, Picked, Handled
  <2>2. Good(u) /\ \A v : Clean(u, v) => Clean(ui, v)
    BY CleanHandlers, DisarmedClean
  <2>3. Clean(ui, HideGui(u))
    BY <2>2, HideGuiClean
  <2> QED BY <2>1, <2>3, CleanHandlers
<1>5. CASE CaptureTick
  <2>1. /\ ui'.mode = ui.mode /\ ui'.active = ui.active /\ PicksKept(ui, ui')
    BY <1>5 DEF CaptureTick, Handled, PicksKept, EndCapture, Good, CleanInv, OverlayInv
  <2> QED BY <2>1, CleanHandlers, CleanWithin
<1> QED BY <1>1, <1>2, <1>3, <1>4, <1>5

\* The palette and the editor.
LEMMA PanelsClean ==
  ASSUME CleanInv,
         DismissSearch \/ ChooseInSearch \/ OpenSettings \/ TraySearch
           \/ SettingsClosed \/ SettingsSaved
  PROVE  Clean(ui, ui')
<1> HIDE DEF Good
<1>1. CASE DismissSearch
  BY <1>1, CleanHandlers DEF DismissSearch, Handled
<1>2. CASE ChooseInSearch
  <2>1. ui.mode = "search"
    BY <1>2 DEF ChooseInSearch
  <2>2. \/ \E m \in ui.loaded : ui' = ShowGui(HideSearch(ui), m)
        \/ picks < MaxPicks /\ \E a \in Actions : ui' = Chosen(ui, <<picks + 1, a>>)
    BY <1>2 DEF ChooseInSearch, Picked, Handled, Chosen
  <2>3. ASSUME NEW m \in ui.loaded PROVE Clean(ui, ShowGui(HideSearch(ui), m))
    <3>1. Good(HideSearch(ui)) /\ HideSearch(ui).loaded = ui.loaded /\ Waits(ui)
      BY CleanHandlers, HideSearchKeeps
    <3> QED BY <3>1, ShowGuiClean
  <2> QED BY <2>1, <2>2, <2>3, CleanHandlers
<1>3. CASE OpenSettings
  BY <1>3, CleanHandlers DEF OpenSettings, Handled
<1>4. CASE TraySearch
  BY <1>4, CleanHandlers DEF TraySearch, Handled
<1>5. CASE SettingsClosed
  BY <1>5, CleanHandlers, CloseSettingsRestores DEF SettingsClosed, Handled
<1>6. CASE SettingsSaved
  <2>1. PICK menus \in SUBSET Menus, chosen \in CaptureModes :
          ui' = ApplyConfig([ui EXCEPT !.captureMode = chosen], menus)
    BY <1>6 DEF SettingsSaved
  <2>2. ui'.mode = ui.mode
    BY <2>1 DEF ApplyConfig, Good, CleanInv, OverlayInv
  <2>3. ui.mode = "settings"
    BY <1>6 DEF SettingsSaved
  <2> QED BY <2>2, <2>3, CleanHandlers, CleanWithin
<1> QED BY <1>1, <1>2, <1>3, <1>4, <1>5, <1>6

\* A posted call.
LEMMA PostedClean ==
  ASSUME CleanInv, RunPosted
  PROVE  Clean(ui, ui')
<1> HIDE DEF Good
<1> DEFINE c == Head(posted)
<1>1. \/ ui' = OnHotkey(ui, c.of)
      \/ c.of \in ui.loaded /\ ui' = ShowGui(ui, c.of)
      \/ ui' = ui \/ ui' = HideGui(ui) \/ ui' = HideSearch(ui) \/ ui' = ShowSearch(ui)
      \/ ui' = ShowSettings(ui) \/ ui' = DisarmRelease(ui)
      \/ picks < MaxPicks /\ \E a \in Actions : ui' = ExecuteAction(ui, <<picks + 1, a>>)
  BY DEF RunPosted, PostedHandled
<1> HIDE DEF c
<1> QED BY <1>1, CleanHandlers

LEMMA CleanInit == Init => CleanInv
<1> SUFFICES ASSUME Init PROVE Waits(ui)
  BY OverlayInit DEF CleanInv
<1> QED BY DEF Init, Waits

LEMMA CleanStep == CleanInv /\ [Next]_vars => CleanInv' /\ [Clean(ui, ui')]_vars
<1> SUFFICES ASSUME CleanInv, [Next]_vars PROVE Clean(ui, ui') /\ Waits(ui')
  BY OverlayStep DEF CleanInv
<1> HIDE DEF Good
<1> SUFFICES Clean(ui, ui')
  BY DEF Clean
<1>1. ASSUME UNCHANGED ui PROVE Clean(ui, ui')
  BY <1>1, CleanHandlers
<1>2. CASE UserStep
  <2>1. ASSUME NEW m \in Menus, PressHotkey(m) PROVE UNCHANGED ui
    BY <2>1 DEF PressHotkey
  <2>2. HookClick => UNCHANGED ui
    BY DEF HookClick
  <2> QED BY <1>1, <1>2, <2>1, <2>2, WheelClean, PanelsClean DEF UserStep
<1>3. CASE RunPosted
  BY <1>3, PostedClean
<1>4. SchedulerCatchesUp => UNCHANGED ui
  BY DEF SchedulerCatchesUp
<1>5. ASSUME NEW p, BeginRun(p) \/ EndRun(p) PROVE UNCHANGED ui
  BY <1>5 DEF BeginRun, EndRun
<1>6. ASSUME NEW p, NEW n, MakeCall(p, n) PROVE UNCHANGED ui
  BY <1>6 DEF MakeCall
<1>7. CASE UNCHANGED vars
  BY <1>1, <1>7 DEF vars
<1> QED BY <1>1, <1>2, <1>3, <1>4, <1>5, <1>6, <1>7 DEF Next

\* Whichever way the editor is left, except under a menu that opens over it,
\* the hotkeys are bound and the scheduler runs again; and whichever way the
\* wheel is dismissed, or gives way to the editor, the picks it deferred are
\* submitted, in order.  (closeSettings, restoreFromSettings, hideGui,
\* showSettings, flushDeferredActions)
THEOREM ModesLeftClean == Spec => ModesAreLeftClean
<1> DEFINE Restoring == ui.mode = "settings" /\ ui'.mode \notin {"settings", "wheel"} =>
                          ~ui'.suspended /\ ~ui'.pause /\ ui'.bound = ui'.loaded \cap Chorded
           Flushing  == ui.mode = "wheel" /\ ui'.mode \in {"dormant", "settings"} =>
                          /\ ui'.deferred = <<>>
                          /\ Len(ui'.submitted) >= Len(ui.submitted) + Len(ui.deferred)
                          /\ SubSeq(ui'.submitted, 1, Len(ui.submitted) + Len(ui.deferred))
                               = ui.submitted \o ui.deferred
<1>1. ASSUME CleanInv, Clean(ui, ui') PROVE Flushing
  <2> SUFFICES ASSUME ui.mode = "wheel", ui'.mode \in {"dormant", "settings"}
               PROVE  /\ ui'.deferred = <<>>
                      /\ Len(ui'.submitted) >= Len(ui.submitted) + Len(ui.deferred)
                      /\ SubSeq(ui'.submitted, 1, Len(ui.submitted) + Len(ui.deferred))
                           = ui.submitted \o ui.deferred
    OBVIOUS
  <2> DEFINE s == ui.submitted \o ui.deferred
  <2>1. ui.submitted \in Seq(Pick) /\ ui.deferred \in Seq(Pick)
    BY <1>1 DEF CleanInv, OverlayInv
  <2>2. PICK t \in Seq(Pick) : ui'.submitted = s \o t
    BY <1>1 DEF Clean, Flushed
  <2>3. s \in Seq(Pick) /\ Len(s) = Len(ui.submitted) + Len(ui.deferred)
    BY <2>1
  <2>4. ui'.deferred = <<>>
    BY <1>1 DEF Clean, Flushed
  <2> HIDE DEF s, Good
  <2>5. Len(s \o t) >= Len(s) /\ SubSeq(s \o t, 1, Len(s)) = s
    BY <2>3, Joined
  <2> QED BY <2>2, <2>3, <2>4, <2>5 DEF s
<1>2. Clean(ui, ui') => Restoring
  BY DEF Clean, Restored
<1>3. CleanInv /\ [Next]_vars => CleanInv' /\ [Restoring]_vars /\ [Flushing]_vars
  BY <1>1, <1>2, CleanStep
<1> QED BY CleanInit, <1>3, PTL
        DEF Spec, ModesAreLeftClean, LeavingSettingsRestores, LeavingWheelFlushes
=============================================================================
