---------------------------- MODULE HotkeyHook ----------------------------
(***************************************************************************)
(* The keyboard hook of platform/src/windows/Inputs.cpp: it matches the    *)
(* chords of menus that shortcuts of the shell would hide (Win+R), records *)
(* a chord for the settings editor, and keeps from the system what it has  *)
(* taken.  The hook's callback runs in the message loop of the GUI thread, *)
(* as do the operations of the receiver, one at a time.                    *)
(*                                                                         *)
(* What the system makes of the keyboard is modelled as far as the code    *)
(* uses it: the state GetAsyncKeyState reports, which the hook's own       *)
(* swallowing hides keys from, and the Start menu, which opens when a Win  *)
(* key is pressed and released with nothing in between.  A key held down   *)
(* repeats until another is pressed or it is released.  Chords of          *)
(* RegisterHotKey are matched by the system and not modelled; installing   *)
(* the hook succeeds.                                                      *)
(*                                                                         *)
(* A definition commented as "Fault" is a wrong version of the one after   *)
(* it, used by no specification.                                           *)
(***************************************************************************)
EXTENDS Naturals, FiniteSets

CONSTANTS
  Keys, NoKey,
  Modifiers,      \* the modifier keys, each side by itself
  Kind,           \* what a modifier key counts as in a chord's mask
  Escape,         \* the key that cancels a recording
  LowLevel        \* the chords that menus bind through the hook

Kinds  == {"alt", "ctrl", "shift", "win"}
Chords == [mods : SUBSET Kinds, key : Keys]

ASSUME HookAssumption ==
  /\ NoKey \notin Keys
  /\ Modifiers \subseteq Keys
  /\ Kind \in [Modifiers -> Kinds]
  /\ LowLevel \subseteq Chords

VARIABLES
  phys,           \* keys that are down
  last,           \* the key that repeats
  os,             \* the system: keys it has down, Win tapped alone, Start
  hook,           \* the installed hook and what it keeps
  capture,        \* captureActive
  bindings,       \* hookBindings
  calls,          \* hotkeys and recordings reported during a key's press
  used,           \* Win keys that were part of a chord since their press
  taken           \* keys whose press was swallowed

vars == <<phys, last, os, hook, capture, bindings, calls, used, taken>>

Win == {k \in Modifiers : Kind[k] = "win"}
Mask(keys) == {Kind[k] : k \in keys \cap Modifiers}     \* currentModifierMaskLocked

Os   == [down : SUBSET Keys, alone : BOOLEAN, start : BOOLEAN]
Hook == [on        : BOOLEAN,
         down      : SUBSET Keys,          \* physicalDown
         latched   : SUBSET Chords,        \* latchedIds
         swallowed : SUBSET Keys,          \* swallowVksUntilUp
         suppress  : BOOLEAN]              \* suppressWinKeyUp

NoHook == [on |-> FALSE, down |-> {}, latched |-> {}, swallowed |-> {}, suppress |-> FALSE]

Init ==
  /\ phys = {} /\ last = NoKey
  /\ os = [down |-> {}, alone |-> FALSE, start |-> FALSE]
  /\ hook = NoHook
  /\ capture = FALSE
  /\ bindings = {}
  /\ calls = [k \in Keys |-> 0]
  /\ used = {} /\ taken = {}

-----------------------------------------------------------------------------
(* The system.                                                             *)

OsDown(o, k) ==
  [down |-> o.down \cup {k}, alone |-> k \in Win /\ (o.alone \/ k \notin o.down), start |-> FALSE]

OsUp(o, k) == [down |-> o.down \ {k}, alone |-> FALSE, start |-> k \in Win /\ o.alone]

\* Fault: Win keys are let go without a pulse of Ctrl before.
InjectBareWinUps(o) == [down |-> o.down \ Win, alone |-> FALSE, start |-> o.alone]

\* Fault: the release of Win is swallowed and no other is injected.
InjectNothing(o) == o

\* A pulse of Ctrl, then both Win keys up.
InjectWinKeyUps(o) ==
  [down |-> {k \in o.down : k \in Modifiers => Kind[k] \notin {"ctrl", "win"}},
   alone |-> FALSE, start |-> FALSE]

-----------------------------------------------------------------------------
(* Installing and removing the hook.                                       *)

\* Only modifiers are looked up when the hook starts.
EnsureHook(bound, capturing) ==
  IF hook.on \/ (bound = {} /\ ~capturing) THEN UNCHANGED hook
  ELSE hook' = [on |-> TRUE, down |-> os.down \cap Modifiers,
                latched |-> {}, swallowed |-> {}, suppress |-> FALSE]

\* Fault: the hook goes with the recording, bindings or not.
ReleaseHook(bound, capturing) ==
  IF hook.on THEN hook' = NoHook /\ calls' = [k \in Keys |-> 0]
  ELSE UNCHANGED <<hook, calls>>

ReleaseHookIfIdle(bound, capturing) ==
  IF hook.on /\ bound = {} /\ ~capturing
  THEN hook' = NoHook /\ calls' = [k \in Keys |-> 0]
  ELSE UNCHANGED <<hook, calls>>

RegisterInputBinding(c) ==
  /\ bindings' = bindings \cup {c}
  /\ EnsureHook(bindings', capture)
  /\ UNCHANGED <<phys, last, os, capture, calls, used, taken>>

UnregisterInputBinding(c) ==
  /\ bindings' = bindings \ {c}
  /\ ReleaseHookIfIdle(bindings', capture)
  /\ UNCHANGED <<phys, last, os, capture, used, taken>>

BeginChordCapture ==
  /\ capture' = TRUE
  /\ EnsureHook(bindings, TRUE)
  /\ UNCHANGED <<phys, last, os, bindings, calls, used, taken>>

EndChordCapture ==
  /\ capture' = FALSE
  /\ ReleaseHookIfIdle(bindings, FALSE)
  /\ UNCHANGED <<phys, last, os, bindings, used, taken>>

-----------------------------------------------------------------------------
(* A key goes down or repeats.                                             *)

Pressed(k) ==
  /\ k \notin phys \/ k = last
  /\ phys' = phys \cup {k} /\ last' = k

ChordOf(k) == [mods |-> Mask(hook.down \cup {k}), key |-> k]
IsLatched(k) == \E c \in hook.latched : c.key = k

\* The hook sees the key and makes nothing of it, or there is no hook.
KeyPasses(k) ==
  /\ Pressed(k)
  /\ (hook.on /\ k \notin Modifiers) => ~IsLatched(k) /\ ~capture /\ ChordOf(k) \notin bindings
  /\ hook' = IF hook.on THEN [hook EXCEPT !.down = @ \cup {k}] ELSE hook
  /\ os' = OsDown(os, k)
  /\ used' = IF k \in phys THEN used ELSE used \ {k}
  /\ UNCHANGED <<capture, bindings, calls, taken>>

KeyRepeats(k) ==
  /\ hook.on /\ k \notin Modifiers /\ IsLatched(k)
  /\ Pressed(k)
  /\ hook' = [hook EXCEPT !.down = @ \cup {k}]
  /\ UNCHANGED <<os, capture, bindings, calls, used, taken>>

\* Escape ends a recording; it is swallowed until up but not latched.
KeyCancels(k) ==
  /\ hook.on /\ capture /\ k = Escape /\ k \notin Modifiers /\ ~IsLatched(k)
  /\ Pressed(k)
  /\ capture' = FALSE
  /\ hook' = [hook EXCEPT !.down = @ \cup {k}, !.swallowed = @ \cup {k}]
  /\ taken' = taken \cup {k}
  /\ UNCHANGED <<os, bindings, calls, used>>

\* Fault: the chord is not latched for the rest of the press.
TakeUnlatched(k) ==
  hook' = [hook EXCEPT !.down = @ \cup {k}, !.swallowed = @ \cup {k},
                       !.suppress = @ \/ "win" \in ChordOf(k).mods]

Take(k) ==
  hook' = [hook EXCEPT !.down = @ \cup {k}, !.swallowed = @ \cup {k},
                       !.latched = @ \cup {ChordOf(k)},
                       !.suppress = @ \/ "win" \in ChordOf(k).mods]

\* The chord of a recording or of a menu.
KeyTriggers(k) ==
  /\ hook.on /\ k \notin Modifiers /\ ~IsLatched(k)
  /\ IF capture THEN k # Escape ELSE ChordOf(k) \in bindings
  /\ Pressed(k)
  /\ Take(k)
  /\ capture' = FALSE
  /\ calls' = [calls EXCEPT ![k] = IF @ < 2 THEN @ + 1 ELSE @]
  /\ taken' = taken \cup {k}
  /\ IF "win" \in ChordOf(k).mods
     THEN os' = InjectWinKeyUps(os) /\ used' = used \cup (phys \cap Win)
     ELSE UNCHANGED <<os, used>>
  /\ UNCHANGED bindings

-----------------------------------------------------------------------------
(* A key goes up.                                                          *)

SwallowsUp(k) == k \in hook.swallowed \/ (hook.suppress /\ k \in Win)

AfterUp(k) ==
  [hook EXCEPT !.down = @ \ {k}, !.swallowed = @ \ {k},
               !.latched = {c \in @ : c.key # k},
               !.suppress = @ /\ (k \in Win => (hook.down \ {k}) \cap Win # {})]

KeyUp(k) ==
  /\ k \in phys
  /\ phys' = phys \ {k}
  /\ last' = IF last = k THEN NoKey ELSE last
  /\ hook' = IF hook.on THEN AfterUp(k) ELSE hook
  /\ os' = IF hook.on /\ SwallowsUp(k) THEN os ELSE OsUp(os, k)
  /\ calls' = [calls EXCEPT ![k] = 0]
  /\ taken' = taken \ {k}
  /\ UNCHANGED <<capture, bindings, used>>

-----------------------------------------------------------------------------
(* The questions asked about the keyboard.                                 *)

\* Fault: the system is asked though the hook hides keys from it.
DownAsync == os.down

Down == IF hook.on THEN hook.down ELSE os.down

IsVirtualKeyDown(k) == k \in Down
IsChordFullyReleased(c) == c.key \notin Down /\ c.mods \cap Mask(Down) = {}

-----------------------------------------------------------------------------
Next ==
  \/ \E c \in LowLevel : RegisterInputBinding(c)
  \/ \E c \in LowLevel : UnregisterInputBinding(c)
  \/ BeginChordCapture
  \/ EndChordCapture
  \/ \E k \in Keys : KeyPasses(k)
  \/ \E k \in Keys : KeyRepeats(k)
  \/ \E k \in Keys : KeyCancels(k)
  \/ \E k \in Keys : KeyTriggers(k)
  \/ \E k \in Keys : KeyUp(k)

Spec == Init /\ [][Next]_vars

-----------------------------------------------------------------------------
(* Properties.                                                             *)

\* The variables hold values of their types.
TypeOK ==
  /\ phys \subseteq Keys /\ last \in Keys \cup {NoKey}
  /\ os \in Os /\ hook \in Hook
  /\ capture \in BOOLEAN /\ bindings \subseteq LowLevel
  /\ calls \in [Keys -> 0 .. 2]
  /\ used \subseteq Win /\ taken \subseteq Keys

\* What the hook waits to undo at a key's release concerns keys it has seen
\* go down: nothing is left armed for a press that is over, and Win's release
\* is suppressed only while a Win key is held.  (armSwallowLocked,
\* handleLowLevelEvent, takeHookLocked)
HookState ==
  /\ ~hook.on => hook = NoHook
  /\ hook.swallowed \subseteq hook.down
  /\ \A c \in hook.latched : c.key \in hook.down
  /\ hook.suppress => hook.down \cap Win # {}

\* A binding or a recording never waits without a hook: ending a recording or
\* dropping one of several bindings leaves the hook to those that still need
\* it.  (endChordCapture, unregisterInputBinding, releaseHookIfIdleLocked)
HookWhileNeeded == bindings # {} \/ capture => hook.on

\* However long a chord is held, whatever is registered or recorded and
\* whichever modifiers change meanwhile, the hook reports one hotkey or one
\* recording for a press of its key.  (latchedIds)
OncePerPress == \A k \in Keys : calls[k] <= 1

\* A Win key that was part of a chord does not open the Start menu, neither
\* by the injected releases nor by its own.  (injectWinKeyUps)
NoStartAfterChord == ~(os.start /\ used # {})

\* The system has no modifier down that the user has let go.
\* (armSwallowLocked, injectWinKeyUps)
ModifiersNotStuck == os.down \cap Modifiers \subseteq phys

\* While the hook is installed, execute-on-release neither runs before the key
\* of a chord it has taken is up, nor waits for keys that are all up.
\* (isChordFullyReleased, asked every tick of the release watch)
ReleaseWatchTruthful ==
  hook.on =>
    /\ \A c \in hook.latched : ~IsChordFullyReleased(c)
    /\ \A c \in bindings : c.key \notin phys /\ c.mods \cap Mask(phys) = {}
                             => IsChordFullyReleased(c)

\* A press that was swallowed stays swallowed: its auto-repeats do not reach
\* the application.  (the comment "Auto-repeat: key already latched for this
\* press"; an Escape is not latched)
\* The code does not keep this; the README says how it fails.
RepeatsSwallowed == taken \cap os.down = {}

\* "True if vk is currently physically down": a key that is reported down is.
\* (isVirtualKeyDown)
\* The code does not keep this; the README says how it fails.
ReportedDownIsDown == \A k \in Keys : IsVirtualKeyDown(k) => k \in phys
=============================================================================
