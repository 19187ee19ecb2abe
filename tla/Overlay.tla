------------------------------ MODULE Overlay ------------------------------
(***************************************************************************)
(* The overlay window of app/src/App.cpp and app/src/Gui.cpp: dormant, or  *)
(* showing the wheel, the settings editor or the search palette.           *)
(*                                                                         *)
(* All handlers run on the GUI thread, one at a time, and call each other  *)
(* as functions; so the state they share is one record, ui, and a handler  *)
(* maps it to the next.  Hotkeys, clicks seen by the mouse hook and the    *)
(* calls of worker threads arrive through the queue of posted calls, and   *)
(* find the overlay as the handlers in between have left it.               *)
(*                                                                         *)
(* Of the scheduler (module Scheduler) the overlay needs little: it runs   *)
(* what is submitted, and stops starting items some time after a pause.    *)
(*                                                                         *)
(* A definition commented as "Fault" is a wrong version of the one after   *)
(* it.  No specification uses it: put in the right one's place it makes    *)
(* TLC find a property violated, which shows that the property can fail.   *)
(***************************************************************************)
EXTENDS Naturals, Sequences, FiniteSets

CONSTANTS
  Menus, NoMenu,
  Chorded,        \* menus with a hotkey
  Deferring,      \* menus with deferUntilExit
  Exiting,        \* menus with exitOnAction
  OnRelease,      \* menus with executeOnRelease
  Actions,
  Effect,         \* the calls an action's item makes, in order
  CaptureModes,   \* the values of gameMouseCapture the user chooses from
  MaxPicks,       \* bound on the actions picked
  MaxPosted       \* bound on the length of the queue of posted calls

Call == [call : {"hotkey", "show"}, of : Menus]
          \cup [call : {"hide", "hideSearch", "search", "click"}]

ASSUME OverlayAssumption ==
  /\ NoMenu \notin Menus
  /\ Chorded \subseteq Menus /\ Deferring \subseteq Menus
  /\ Exiting \subseteq Menus /\ OnRelease \subseteq Menus
  /\ Effect \in [Actions -> Seq(Call)]
  /\ CaptureModes \subseteq {"off", "unclip", "steal"} /\ CaptureModes # {}
  /\ MaxPicks \in Nat /\ MaxPosted \in Nat

VARIABLES
  ui,             \* what the handlers of the GUI thread read and write
  posted,         \* calls queued for the GUI thread
  paused,         \* the scheduler has handled the last pause or resume
  running,        \* <<pick, number of its calls made>> of items that run
  finished,       \* picks that have run or were cancelled
  picks           \* how many actions have been picked

vars == <<ui, posted, paused, running, finished, picks>>

Modes == {"dormant", "wheel", "settings", "search"}
Pick  == (1 .. MaxPicks) \X Actions

Ui == [mode          : Modes,                    \* Gui::m_overlayMode
       active        : Menus \cup {NoMenu},      \* m_activeMenu
       loaded        : SUBSET Menus,             \* m_loadedMenus
       bound         : SUBSET Menus,             \* hotkeys of the InputReceiver
       suspended     : BOOLEAN,                  \* m_hotkeysSuspended
       release       : Menus \cup {NoMenu},      \* menu of the release watch
       escape        : BOOLEAN,                  \* m_escapeWatchTimer runs
       captureMode   : CaptureModes,             \* gameMouseCapture
       capture       : BOOLEAN,                  \* m_mouseCaptureTimer runs
       stole         : BOOLEAN,                  \* m_stoleGameFocus
       nonActivating : BOOLEAN,                  \* native window styles
       clickThrough  : BOOLEAN,
       pause         : BOOLEAN,                  \* last of pause() and resume()
       deferred      : Seq(Pick),                \* m_deferredActionIds
       submitted     : Seq(Pick)]                \* what m_scheduler was given

\* The first of the loaded menus, in an order of no consequence.
Front(menus) == IF menus = {} THEN NoMenu ELSE CHOOSE m \in menus : TRUE

Init ==
  /\ \E chosen \in CaptureModes :
       ui = [mode |-> "dormant", active |-> Front(Menus), loaded |-> Menus,
             bound |-> Chorded, suspended |-> FALSE, release |-> NoMenu,
             escape |-> FALSE, captureMode |-> chosen, capture |-> FALSE,
             stole |-> FALSE, nonActivating |-> TRUE, clickThrough |-> TRUE,
             pause |-> FALSE, deferred |-> <<>>, submitted |-> <<>>]
  /\ posted = <<>>
  /\ paused = FALSE
  /\ running = {} /\ finished = {}
  /\ picks = 0

-----------------------------------------------------------------------------
(* The functions the handlers are made of.                                 *)

SuspendHotkeys(u) ==
  IF u.suspended THEN u
  ELSE [u EXCEPT !.suspended = TRUE, !.bound = @ \ (u.loaded \cap Chorded)]

\* Fault: the hotkeys count as resumed, and none is bound.
ResumeHotkeysInName(u) == [u EXCEPT !.suspended = FALSE]

ResumeHotkeys(u) ==
  IF ~u.suspended THEN u
  ELSE [u EXCEPT !.suspended = FALSE, !.bound = @ \cup (u.loaded \cap Chorded)]

DisarmRelease(u) == [u EXCEPT !.release = NoMenu]
DisarmWatches(u) == [u EXCEPT !.release = NoMenu, !.escape = FALSE]

\* Fault: a stolen focus is not given up.
EndCaptureFocused(u) == [u EXCEPT !.capture = FALSE]

EndCapture(u) == [u EXCEPT !.capture = FALSE, !.nonActivating = TRUE]

BeginCapture(u) ==
  IF u.captureMode = "off" THEN EndCapture(u)
  ELSE [EndCapture(u) EXCEPT !.capture = TRUE, !.stole = FALSE]

\* Fault: what was submitted stays deferred.
FlushKeeping(u) == [u EXCEPT !.submitted = @ \o u.deferred]

FlushDeferred(u) == [u EXCEPT !.submitted = @ \o u.deferred, !.deferred = <<>>]

\* Out of the wheel: watches off, focus given back, deferred picks submitted.
LeaveWheel(u) == FlushDeferred([EndCapture(DisarmWatches(u)) EXCEPT !.stole = FALSE])

Shell(u) == [u EXCEPT !.mode = "dormant", !.nonActivating = TRUE, !.clickThrough = TRUE]

HideSearch(u) == IF u.mode = "search" THEN Shell(u) ELSE u

RestoreAfterSettings(u) == ResumeHotkeys(Shell(u))

CloseSettings(u) == RestoreAfterSettings([u EXCEPT !.pause = FALSE])

HideGui(u) ==
  IF u.mode = "settings" THEN CloseSettings(u)
  ELSE [LeaveWheel(u) EXCEPT !.mode = "dormant", !.clickThrough = TRUE]

\* Nothing asks whether the settings editor is open.
ShowGui(u, m) ==
  [BeginCapture([HideSearch(u) EXCEPT !.active = m, !.deferred = <<>>])
     EXCEPT !.mode = "wheel", !.escape = TRUE, !.clickThrough = FALSE]

\* Fault: the watches of the wheel stay armed behind the palette.
ShowSearchBlindly(u) ==
  IF u.mode = "settings" THEN u
  ELSE [u EXCEPT !.mode = "search", !.nonActivating = FALSE, !.clickThrough = FALSE]

ShowSearch(u) ==
  LET v == IF u.mode = "wheel"
           THEN [EndCapture(DisarmWatches(u)) EXCEPT !.stole = FALSE]
           ELSE DisarmRelease(u)
  IN  IF u.mode = "settings" THEN u
      ELSE [v EXCEPT !.mode = "search", !.nonActivating = FALSE, !.clickThrough = FALSE]

OpenSearchFromTray(u) ==
  ShowSearch(IF u.mode = "settings" THEN CloseSettings(u) ELSE u)

\* Fault: the picks deferred on the wheel are left where they are.
ShowSettingsAbruptly(u) ==
  LET v == HideSearch(u)
  IN  [SuspendHotkeys(IF v.mode = "wheel" THEN EndCapture(DisarmWatches(v)) ELSE v)
         EXCEPT !.mode = "settings", !.nonActivating = FALSE,
                !.clickThrough = FALSE, !.pause = TRUE]

ShowSettings(u) ==
  LET v == HideSearch(u)
  IN  [SuspendHotkeys(IF v.mode = "wheel" THEN LeaveWheel(v) ELSE v)
         EXCEPT !.mode = "settings", !.nonActivating = FALSE,
                !.clickThrough = FALSE, !.pause = TRUE]

\* executeAction of a pick from the active menu.
ExecuteAction(u, p) ==
  LET v == DisarmRelease(u)
      w == IF v.active \in Deferring /\ v.mode = "wheel"
           THEN [v EXCEPT !.deferred = Append(@, p)]
           ELSE [v EXCEPT !.submitted = Append(@, p)]
  IN  IF v.active \in Exiting /\ v.mode = "wheel" THEN HideGui(w) ELSE w

OnHotkey(u, m) ==
  LET v      == HideSearch(u)
      target == IF m \in v.loaded THEN m ELSE NoMenu
      show   == IF target # NoMenu THEN target
                ELSE IF v.active = NoMenu THEN Front(v.loaded) ELSE v.active
      w      == ShowGui(IF v.mode = "wheel" THEN DisarmRelease(v) ELSE v, show)
  IN  CASE u.mode = "settings" -> u
        [] v.mode = "wheel" /\ target \in {NoMenu, v.active} -> HideGui(v)
        [] OTHER ->
             IF show = NoMenu THEN v
             ELSE IF show \in OnRelease THEN [w EXCEPT !.release = show] ELSE w

-----------------------------------------------------------------------------
(* What the user does to the windows of the GUI thread.                    *)

Handled(u) ==
  /\ ui' = u
  /\ UNCHANGED <<posted, paused, running, finished, picks>>

\* An action of the active menu, or of the palette, is picked.
Picked(Handler(_)) ==
  /\ picks < MaxPicks
  /\ picks' = picks + 1
  /\ \E a \in Actions : ui' = Handler(<<picks + 1, a>>)
  /\ UNCHANGED <<posted, paused, running, finished>>

\* A click picks the selected action, or misses.
ClickWheel ==
  /\ ui.mode = "wheel"
  /\ \/ ui.active # NoMenu /\ Picked(LAMBDA p : ExecuteAction(ui, p))
     \/ Handled(DisarmRelease(ui))

\* Right click.
DismissWheel == ui.mode = "wheel" /\ Handled(HideGui(ui))

\* The watches of the wheel poll the keys and the cursor.  Escape is down:
EscapeTick ==
  /\ ui.escape
  /\ Handled(IF ui.mode = "wheel" THEN HideGui(ui) ELSE [ui EXCEPT !.escape = FALSE])

\* The chord is up: the selected action is executed, or there is none.
ReleaseTick ==
  /\ ui.release # NoMenu
  /\ \/ /\ ui.mode = "wheel" /\ ui.active # NoMenu
        /\ Picked(LAMBDA p : ExecuteAction(DisarmRelease(ui), p))
     \/ Handled(LET u == DisarmRelease(ui) IN IF u.mode = "wheel" THEN HideGui(u) ELSE u)

\* The game holds the cursor: the overlay takes the focus, or fails to; a
\* focus taken before may turn out to be lost to the game.
CaptureTick ==
  /\ ui.capture /\ ui.captureMode = "steal"
  /\ \E got \in BOOLEAN :
       Handled(IF ui.mode # "wheel" THEN EndCapture(ui)
               ELSE [ui EXCEPT !.nonActivating = FALSE, !.clickThrough = FALSE, !.stole = got])

\* Escape with the keyboard focus, a click beside the palette, Alt-Tab.
DismissSearch == ui.mode = "search" /\ Handled(HideSearch(ui))

ChooseInSearch ==
  /\ ui.mode = "search"
  /\ \/ Picked(LAMBDA p : [HideSearch(ui) EXCEPT !.submitted = Append(@, p)])
     \/ \E m \in ui.loaded : Handled(ShowGui(HideSearch(ui), m))

\* The Settings button of the wheel, and the tray.
OpenSettings == Handled(ShowSettings(ui))

TraySearch == Handled(OpenSearchFromTray(ui))

SettingsClosed == ui.mode = "settings" /\ Handled(CloseSettings(ui))

\* Fault: the new hotkeys are bound behind the open editor.
ApplyConfigBinding(u, menus) ==
  [u EXCEPT !.loaded = menus,
            !.bound = (@ \ (u.loaded \cap Chorded)) \cup (menus \cap Chorded),
            !.active = IF @ \in menus THEN @ ELSE Front(menus)]

ApplyConfig(u, menus) ==
  LET free == IF u.suspended THEN u.bound ELSE u.bound \ (u.loaded \cap Chorded)
  IN  [u EXCEPT !.loaded = menus,
                !.bound = IF u.suspended THEN free ELSE free \cup (menus \cap Chorded),
                !.active = IF @ \in menus THEN @ ELSE Front(menus)]

Started == {r[1] : r \in running} \cup finished
Waiting == {p \in {ui.submitted[n] : n \in DOMAIN ui.submitted} : p \notin Started}

\* Save replaces the menus and the settings, and cancels what the scheduler
\* still holds.
SettingsSaved ==
  /\ ui.mode = "settings"
  /\ \E menus \in SUBSET Menus, chosen \in CaptureModes :
       ui' = ApplyConfig([ui EXCEPT !.captureMode = chosen], menus)
  /\ \E dropped \in SUBSET Waiting : finished' = finished \cup dropped
  /\ UNCHANGED <<posted, paused, running, picks>>

-----------------------------------------------------------------------------
(* The queue of posted calls.                                              *)

Post(call) ==
  /\ Len(posted) < MaxPosted
  /\ posted' = Append(posted, call)

PressHotkey(m) ==
  /\ m \in ui.bound
  /\ Post([call |-> "hotkey", of |-> m])
  /\ UNCHANGED <<ui, paused, running, finished, picks>>

HookClick ==
  /\ ui.capture
  /\ Post([call |-> "click"])
  /\ UNCHANGED <<ui, paused, running, finished, picks>>

PostedHandled(u) == ui' = u /\ UNCHANGED picks

RunPosted ==
  /\ posted # <<>>
  /\ posted' = Tail(posted)
  /\ LET c == Head(posted) IN
     \/ c.call = "hotkey" /\ PostedHandled(OnHotkey(ui, c.of))
     \/ c.call = "show" /\ PostedHandled(IF c.of \in ui.loaded THEN ShowGui(ui, c.of) ELSE ui)
     \/ c.call = "hide" /\ PostedHandled(HideGui(ui))
     \/ c.call = "hideSearch" /\ PostedHandled(HideSearch(ui))
     \/ c.call = "search" /\ PostedHandled(ShowSearch(ui))
     \/ /\ c.call = "click"
        /\ \/ PostedHandled(IF ui.mode = "wheel" THEN HideGui(ui) ELSE ui)
           \/ ui.mode = "wheel" /\ PostedHandled(ShowSettings(ui))
           \/ ui.mode = "wheel" /\ PostedHandled(DisarmRelease(ui))
           \/ /\ ui.mode = "wheel" /\ ui.active # NoMenu /\ picks < MaxPicks
              /\ picks' = picks + 1
              /\ \E a \in Actions : ui' = ExecuteAction(ui, <<picks + 1, a>>)
  /\ UNCHANGED <<paused, running, finished>>

-----------------------------------------------------------------------------
(* The scheduler and its workers.                                          *)

SchedulerCatchesUp ==
  /\ paused # ui.pause
  /\ paused' = ui.pause
  /\ UNCHANGED <<ui, posted, running, finished, picks>>

BeginRun(p) ==
  /\ p \in Waiting /\ ~paused
  /\ running' = running \cup {<<p, 0>>}
  /\ UNCHANGED <<ui, posted, paused, finished, picks>>

\* The running item posts its next call; a menu it does not find is not shown.
MakeCall(p, n) ==
  /\ <<p, n>> \in running /\ n < Len(Effect[p[2]])
  /\ running' = (running \ {<<p, n>>}) \cup {<<p, n + 1>>}
  /\ LET c == Effect[p[2]][n + 1] IN
     IF c.call = "show" /\ c.of \notin ui.loaded THEN UNCHANGED posted ELSE Post(c)
  /\ UNCHANGED <<ui, paused, finished, picks>>

EndRun(p) ==
  /\ <<p, Len(Effect[p[2]])>> \in running
  /\ running' = running \ {<<p, Len(Effect[p[2]])>>}
  /\ finished' = finished \cup {p}
  /\ UNCHANGED <<ui, posted, paused, picks>>

-----------------------------------------------------------------------------
UserStep ==
  \/ ClickWheel \/ DismissWheel \/ EscapeTick \/ ReleaseTick \/ CaptureTick
  \/ DismissSearch \/ ChooseInSearch
  \/ OpenSettings \/ TraySearch \/ SettingsClosed \/ SettingsSaved
  \/ (\E m \in Menus : PressHotkey(m)) \/ HookClick

Next ==
  \/ UserStep \/ RunPosted \/ SchedulerCatchesUp
  \/ \E p \in Pick : BeginRun(p) \/ EndRun(p)
  \/ \E r \in running : MakeCall(r[1], r[2])

Spec == Init /\ [][Next]_vars

-----------------------------------------------------------------------------
(* Properties.                                                             *)

\* The wheel does not have the keyboard focus: it can always be dismissed by
\* the Escape watch, and none of its watches survives it.
WatchesFollowWheel ==
  /\ ui.escape <=> ui.mode = "wheel"
  /\ ui.capture \/ ui.release # NoMenu => ui.mode = "wheel"

\* A dormant overlay lets every click and the focus through; the editor and
\* the palette take both.
StyleFollowsMode ==
  /\ ui.clickThrough <=> ui.mode = "dormant"
  /\ ui.mode = "dormant" => ui.nonActivating
  /\ ui.mode \in {"settings", "search"} => ~ui.nonActivating

\* While the editor is open no hotkey is bound and the scheduler was last
\* told to pause, whichever way and from whichever mode it was opened.
EditorIsolated ==
  ui.mode = "settings" => ui.suspended /\ ui.bound = {} /\ ui.pause

\* Hotkeys that are not suspended are those of the loaded menus, also after
\* the menus were replaced while they were suspended.
BoundAreLoaded ==
  ~ui.suspended => ui.bound = ui.loaded \cap Chorded

\* m_activeMenu points to a loaded menu, if there is one.
ActiveIsLoaded ==
  ui.active \in IF ui.loaded = {} THEN {NoMenu} ELSE ui.loaded

\* What the overlay refers to by pointer or by hotkey is a menu it has loaded,
\* however often the menus were replaced.
MenusAreLoaded == BoundAreLoaded /\ ActiveIsLoaded

\* A pick is given to the scheduler once, and what was deferred is not given
\* to it a second time.
PicksSubmittedOnce ==
  LET all == ui.submitted \o ui.deferred
  IN  \A i, j \in DOMAIN all : all[i] = all[j] => i = j

\* Every way out of the editor but one undoes the suspension and the pause.
LeavingSettingsRestores ==
  [][ui.mode = "settings" /\ ui'.mode \notin {"settings", "wheel"} =>
       ~ui'.suspended /\ ~ui'.pause /\ ui'.bound = ui'.loaded \cap Chorded]_vars

\* "leaving the wheel session: ... flush any defer-until-exit picks so they
\* are not stranded" (App.cpp:1395): dismissing the wheel, or opening the
\* editor from it, submits what was deferred, in order.
LeavingWheelFlushes ==
  [][ui.mode = "wheel" /\ ui'.mode \in {"dormant", "settings"} =>
       /\ ui'.deferred = <<>>
       /\ Len(ui'.submitted) >= Len(ui.submitted) + Len(ui.deferred)
       /\ SubSeq(ui'.submitted, 1, Len(ui.submitted) + Len(ui.deferred))
            = ui.submitted \o ui.deferred]_vars

\* Whatever a mode has suspended, paused or deferred is undone by the step that
\* leaves it, whichever of the ways out is taken.
ModesAreLeftClean == LeavingSettingsRestores /\ LeavingWheelFlushes

\* Hotkeys are suspended only while the editor is open: leaving it by another
\* way "leaves menu triggers permanently unregistered" (App.cpp:254-256), and
\* settings "must leave through the same cleanup as Close" (App.cpp:994).
\* The code does not keep this; the README says how it fails.
SuspendedOnlyInSettings == ui.suspended => ui.mode = "settings"

\* Picks wait for the end of the wheel session they belong to, "flushed in
\* hideGui" (App.hpp:184): no mode but the wheel has deferred picks.
\* The code does not keep this; the README says how it fails.
DeferredOnlyOnWheel == ui.deferred # <<>> => ui.mode = "wheel"

=============================================================================
