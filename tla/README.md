# WheelTime: models, checks and proofs

WheelTime is a Windows launcher: a hotkey opens a wheel of actions over the
current application, and a picked action runs as a macro of *action items* (press
a key, wait, open a menu, cancel other macros, ...). This directory holds TLA+
models of the parts where threads, delayed work, modes, hooks and files meet, the TLC
runs that check them on small instances, and proofs checked by TLAPS that hold for every
instance.

## The system

### Components

| Component | State it keeps | Operations | What makes it correct |
|---|---|---|---|
| `ThreadSafeQueue` | items, stopped flag | `push`, `tryPop`, `popWaitUntil`, `stop` | nothing is lost or doubled; stopping wakes the waiters |
| `WorkerPool` | `m_inbound`, `m_urgent`, `m_paused`, the threads | `submit`, `submitUrgent`, `setPaused`, `stop`, `workerMain` | no wakeup is lost at the pause gate; flushes pass it; `stop` joins |
| `Scheduler` | registered contexts, submit order, flushes, linked children, paused-ready contexts, mailbox | `submit`, `cancel*`, `pause`, `resume`, `stop`; handlers of the scheduler thread | one context per channel, in order; what is cancelled stops; keys that were pressed are released; a pause holds everything but flushes |
| `ChannelManager` | per key: busy flag and waiting queue; the private-key counter | `bind`, `admit`, `release`, removal | the channel is held by at most one context and never stuck |
| `DelayQueue` | heap of contexts and due times | `park`, `popDue`, `remove`, `shiftAll` | due in order; a pause does not count as time |
| `ActionExecutionContext` | item index, cancel flag, requests of the last item | `advance`, `scheduleAction`, `registerFlush`, `request*` | read and written by one thread at a time, except the flag |
| action items | parameters | `execute` | a hold registers its release before the key can be forgotten |
| `App` and `Gui` (overlay) | overlay mode, active and loaded menus, bound hotkeys, suspension, deferred picks, three watches, prior window | `showGui`, `hideGui`, `showSearchOverlay`, `showSettingsWindow`, `applyConfig`, hotkeys, clicks, timers | the state of each mode is undone on every way out of it |
| `InputReceiver`, keyboard | bindings, keys down, latched chords, keys to swallow, Win suppression, chord capture | register, unregister, begin and end a capture, the hook procedure | one report per press; what was swallowed going down is swallowed going up; the system keeps no modifier down; the hook stays while it is needed |
| `InputReceiver`, mouse | session, raw input, pending motion, last point | begin and end a session, the mouse hook, `WM_INPUT`, poll | each step of the device is polled once, and the virtual cursor is where that leads |
| `ActionHistory` | recent list, frequencies, their file | `recordUse`, `prune`, `load`, `save`, lookups by rank | a restart loses nothing; a lookup's answer was right at some moment |
| `MenuConfigLoader` | the user's configuration file | `loadConfig`, `saveConfig`, seeding | what is saved is what is loaded; the older schema loses no action; private keys keep apart from channels |
| `SettingsWindow` | working copy of menus and actions, selections, recorder | add, remove, move, edit, record, validate, save, close | references never dangle; an edit goes to the row in sight; no two menus get one chord |
| its item pages | the controls of the selected item | one handler per control | a change of one control writes that and nothing else; what is written can be saved |
| `ProgramIndex`, search palette, `FuzzyMatch` | entries, refresh thread, query | refresh, search, score | results are of one snapshot |
| `Log` | ring of lines, stderr redirection | append, read | no line lost under concurrent writers |
| widgets, themes, data classes, input injection, launcher | | | no protocol |

### How they interact

```
 GUI thread (App, Gui) --submit/cancel/pause/resume--> Scheduler mailbox
        ^                                                   |
        | posted calls (showGui, hideGui, search)           v
   action items <---- worker threads <--submit/urgent-- scheduler thread
        |                    |                              ^
        +--- keys            +------ results, mailbox ------+
 keyboard/mouse hooks --posted calls--> GUI thread
```

Any thread pushes to the scheduler's mailbox; one scheduler thread handles the
events and owns all tables; workers take contexts from two queues, execute items
and push results back. The scheduler sets `m_paused` in the pool and the cancel flag
in a context while workers look at them. Items on worker threads call the overlay,
which posts the call to the GUI thread; the call runs after whatever was posted
before it, and by then another mode may be open. Others ask the overlay for the n-th
recent action, and walk the history and the library from the worker's thread.

```
 settings window --save--> App --> MenuConfigLoader --> configuration file
      |  ^                  |
record|  |chord             +--> ActionHistory (prune, save) --> history file
      v  |                  +--> InputReceiver (rebind)  +--> Scheduler (cancelAll)
 keyboard hook
```

Save hands the working copy to `App`, which replaces menus and library, writes the
configuration, prunes and writes the history, cancels what runs and binds the hotkeys
anew. The keyboard hook serves two: the menus whose chord the shell would take first, and
the recorder of the settings window, to which it posts one chord.

### The hard behaviours

* **Lost wakeups.** `submitUrgent` notifies without the mutex of the pause gate.
* **Results in flight.** A context is at any moment in a queue, with a worker, in
  a result in the mailbox, parked, held for a resume, or waiting for its channel;
  each cancel finds it in one of these places and each place has its own code.
* **Pressed keys.** A key goes down in an item, and its release exists only once the
  scheduler has handled the result of that item.
* **Pauses.** Results, cancels and submissions go on while paused.
* **Modes.** Four overlay modes with some twenty ways between them, each of which
  must undo what its mode had set up: hotkeys, scheduler pause, timers, window
  styles, deferred picks.

* **What the hook hides.** A swallowed press never reaches `GetAsyncKeyState`, so the code
  keeps its own picture of the keyboard; repeats, releases, bindings and recordings
  change it in any order, and a swallowed Win must be released for the system by hand.
* **Files written in place.** Both files are truncated and rewritten. The history is
  written after every launch, and pruned to whatever library the configuration gave. A file that
  cannot be opened keeps what it has, and no caller hears of it.
* **Pixels.** The system and the device count native pixels, Qt its own, and each tick converts and clamps the motion
  since the last one by itself.
* **Rows and ids.** Menus, slots, actions and items refer to each other by id, lists and
  combo boxes by row; removing one must mend all the others, and a page writes every
  control back when one changes.

`PROJECT.json` lists every hazard at its line with the properties about it.

## Modules

| Module | What it models |
|---|---|
| `WorkerPool` | the pool and its pause gate, thread by thread |
| `WorkerPool_proofs` | its theorems |
| `Scheduler` | the scheduler thread, channels, delays, cancels, workers, key items |
| `Scheduler_proofs` | its types, the lemmas on its helpers, one holder per key, no channel stuck |
| `SchedulerSteps_proofs` | no key stuck, its action properties, and the refinement of `ChannelOrder` |
| `ChannelOrder` | abstract: what a channel promises to its actions |
| `SchedulerOrder` | the refinement mapping from `Scheduler` to `ChannelOrder` |
| `Overlay` | the overlay of `App` and `Gui`, with posted calls and picked actions |
| `Overlay_proofs` | its theorems |
| `HotkeyHook` | the keyboard hook, and what the system makes of the keys it lets through |
| `MouseSession` | the mouse session over a game, the virtual cursor and the stolen focus |
| `Input_proofs` | the theorems of the hook and of the mouse session |
| `Filter`, `Filter_proofs` | `std::erase_if` as a recursive function, and the lemmas on it and on ranks |
| `ActionHistory` | history, library and configuration over launches, saves, crashes and restarts, and a worker's lookup |
| `MenuConfigLoader` | the configuration file: both schemas, saving and loading, seeding, channels |
| `SettingsEditor` | the working copy, selections, combo boxes and recorder of the settings window |
| `ItemPage` | the detail pages of an action's items |
| `Files_proofs`, `Settings_proofs` | the theorems of the configuration file and the history, and of the settings window with its pages |
| `MCInput` | keyboard hook and mouse session together |
| `MCFiles` | configuration and history together |
| `MCSettings` | editor, recorder and item pages together |
| `MCScheduler`, `MCSchedulerOrder`, `MCOverlay`, `MCHotkeyHook`, `MCActionHistory`, `MCMenuConfigLoader` | instances for TLC |

Each definition of a module is tied to its source lines in `PROJECT.json` under
`map`. Definitions commented as *Fault* are wrong versions of the definition that
follows them; put in its place they make a property fail. They document which
mistake each property guards against, and no specification uses them.

### WorkerPool

One action per step between two points where another thread can interfere. A worker
has a program counter; `m_pauseCv` is the set of workers at "blocked". Waiting is
three steps: evaluate the predicate under the mutex, block, take the mutex
again; this is where a notification sent without the mutex can be lost. `stop` is
five steps. A context is a name and the number of items it has left; what the
items do is left to `Scheduler`.

### Scheduler

A handler of the scheduler thread is one action: the tables are private to the
thread, and what others see of it (queues, flags, `m_paused`) is written at points
whose order no property tells apart. `Settle` is the common effect of handlers on
contexts: who is destroyed, orphaned, started, flushed, resumed, parked; which keys
that frees, and who is promoted. `HandleResult` ingests what the last item left in
the context before it decides whether the action goes on. Workers take
contexts, begin an item, end it, and end their turn; the gate is `WorkerPool`'s
and here only the fact that a worker that passed the gate may still take a context.
`BeginItem` joins three points of the worker's loop: it reads the cancel flag (`WorkerPool.cpp:149`), then the pause
(`:153`), then calls `execute` (`:182`), and touches nothing shared on the way. A cancel or a pause that is handled
between them finds an item that the model has begun already: the item "in progress" of `CancelledRunNoMoreItems`
is one for which the worker has found the flag clear, though `execute` may not have been entered.

Key items: a hold presses the key, registers `Flush(a, i)` and schedules the linked
`Release(a, i)`, a delay followed by the release. Both are contexts of their own
on private keys.

Abstracted: the time (a delay may be over whenever the scheduler looks), payloads of
items, the addresses of contexts (an id is submitted at most once). Sets stand for
queues whose order no property depends on (`inbound`, `urgent`, the delay heap);
the waiting queue of a channel keeps its order by tickets.

### ChannelOrder and SchedulerOrder

The promise "strict FIFO ordering within channels" as a specification of its own: a
queue per channel, entered at the end, left from anywhere but never in the middle
of an item, and only the head executes. `SchedulerOrder` maps the registered
actions of a channel, by ticket, to that queue, and `ChannelsKeepOrder` says that every
behaviour of the scheduler is one of `ChannelOrder`.

### Overlay

All handlers run on the GUI thread and call one another, so they are functions from
the record `ui` to the next, composed as the code composes them; an action applies one to
`ui`. `posted` is the queue of calls posted to the GUI thread by hotkeys, by the mouse hook
and by items on worker threads. Of the scheduler only this is kept: it runs what
was submitted, catches up with the last pause or resume some time later, and a Save
(`cancelAll`) may drop what has not started.

Abstracted: geometry, selection (any action may be the selected one, or none), the
windows' z-order and priors, the contents of menus. A menu keeps its flags: one that
is saved with other flags is another member of `Menus`. Two menus do not share a chord.
An action keeps existing over a Save.

### HotkeyHook

One action per branch of `handleLowLevelEvent` (a key passes, repeats, cancels a
recording, triggers) and per operation of the receiver. The callback runs in the GUI thread's
message loop, so a branch is atomic. `os` is the system as far as the code depends on
it: the keys `GetAsyncKeyState` reports, whether a Win key has been tapped alone, whether Start
opens. Keys repeat while they are the last one pressed. `calls` counts the reports of a
press, `taken` the keys whose press was swallowed, `used` the Win keys that were part of a
chord; the code has none of the three, they are what the properties speak of.

### MouseSession

One coordinate. A step of the device moves the cursor and, with raw input, queues a `WM_INPUT`
message; the hook sees the move at once. A device may report a position in place of a step: the raw path refuses it
(`Inputs.cpp:705`). The game puts the cursor back, flagged as injected or not.

The cursor and the device count native pixels, the virtual cursor Qt's, and the device pixel ratio is `Native / Logical`.
`ToLogical` is `qRound` of the quotient. Each tick of the capture timer converts what was counted since the last one, adds it
to the virtual cursor and clamps that to the surface (`App.cpp:588-600`): what the rounding drops is not carried to the next
tick, and what is beyond the edge is gone. Stealing the focus puts the system's cursor where the virtual one is, by
the conversion the other way. A session begins with the cursor on the surface, which is that of the cursor's screen.

`track` is what the properties speak of, and the code has none of it: since the virtual cursor was last set, how far the device
has moved (`due`), how much of it the ticks have polled, how many ticks moved the virtual cursor, whether one was cut off
at the edge, and whether the hook has counted a move that was not the device's. `PointerTracksDevice` has two parts, as the code
makes two different things of a step. `StepsPolledOnce` is about the receiver, in native pixels: no step is lost or counted
twice between the device and `pollOverlayMouseDelta`, as long as the receiver can tell the device's motion (`Reliable`: with raw input
always, without it while nothing else moves the cursor without the flag). `PointerFollowsPolled` is about the virtual cursor:
it is within half of its own pixels, for each tick that moved it, of where the polled steps lead, until one is
cut off at the edge of the surface.

### ActionHistory

The process is `app`: up, writing one of its files, or down. A save is two steps, opening
truncates and writing follows, and the process may die between them or anywhere else. If the file cannot be
opened it stays as it was, and the application goes on (`ActionHistory.cpp:238`); `opened` says whether the last save could.
A write that fails after the file was opened is not told apart from one that succeeds. A
lookup reads one rank per step, as the code takes the history's lock once per rank, and
looks at the library without one. `answers` collects what would have been right at each
moment of the lookup, and `plain` says whether the lookup is one whose answer has to be
among them. The order by frequency is given by rank: the n-th action has n - 1 ahead of it.

### MenuConfigLoader

A JSON object is a function from the names present to values, and reading a field with
a default is one operator, so that missing, null and renamed fields are the same code as
in the source. Names and ids are sequences of words, which is what `slugify` leaves. Integers
have `2 * Half` values, so that a channel's cast to unsigned and back, and the counter of private
keys that wraps, are what they are in 32 bits. The lifting of the older schema, action by action and
menu by menu, is written as recursive functions, and `obj ++ other` merges two objects, so that both can
be reasoned about. The section "What may stand in a file" says when a document is `Readable` (an array, a
name and a channel are what the loader takes them for) and when a configuration is `Sound` (every field of the
C++ structures has a value, enumerations and channels one in their range); the documents and the configurations
given as constants are assumed to be so, as far as each is used.

### SettingsEditor

The working copy, and in `view` what is selected and what the slot's and the target's combo
boxes show, row by row. The refresh functions are composed as in the code, so an edit that
refreshes too little leaves a stale row. Saving hands the working copy to the
application if it validates. `ConfigsAssumption` says what the window may be opened with: what the
settings themselves can have saved. The loader does not check ids, references and chords of a
file written by hand (`MenuConfigLoader.cpp:497`), and nothing is claimed of the window over such a file.

### ItemPage

A page is the values its controls show, each within the range and step of its control. `Shown` and
`Written` are the two conversions between an item and its page; a handler writes all the
controls of its page back, as the code does.

### Compositions

`MCInput`, `MCFiles` and `MCSettings` put modules beside each other that keep no state in
common: the two halves of the receiver, the two files, and in the settings window menus without
triggers, triggers without slots, and the item pages. A behaviour is about one part (`focus`) and
the others stay at their start; as no part reads what another writes, an interleaving of two
of them would show each the same behaviours. What does couple them is inside a module: the
history's pruning by the library the configuration gave is in `ActionHistory`, the recorder's use of the
selection in `SettingsEditor`.

## Runs

| Run | Instance | Shows |
|---|---|---|
| `pool_gate` | 2 workers, 1 job and 1 urgent job of 2 items, 2 pauses; a stop at any time | no resume is lost; urgent work is not stranded; nobody exits over urgent work; liveness of both queues, of the pause and of stop |
| `scheduler_order` | three actions on one channel: a hold, a delay that then cancels the channel, an uncancelable one that cancels the latest; 1 cancel of any kind from outside, 1 pause, resumes | one holder per key, no stuck channel, pressed keys get released, a pause holds everything but flushes, uncancelable actions run to their end, refinement of `ChannelOrder` |
| `scheduler_cancel` | three actions on two channels whose items cancel each other and themselves, two holds | pressed keys get released and nothing runs after its cancel, for cancels asked by items |
| `scheduler_live` | a hold and a waiter, 1 cancel, 1 pause | flushes are executed even while paused; actions end; keys come up |
| `overlay_modes` | two menus (one closes on an action and executes on release, one defers), actions that open a menu, close, search; capture off or stealing; 2 picks, 2 posted calls | watches, styles, hotkeys, pause, active menu and deferred picks follow the mode on every path |
| `input_receiver` | Win, Shift, a letter, Escape; the chords of the letter with and without Win; a mouse of 3 moves at a pixel ratio of 5 to 2, a surface two pixels wide, a game that recenters twice | one report per press, no Start menu, no stuck modifier, a truthful release watch, the hook kept while needed; each step of the mouse is polled once, and the virtual cursor follows but for rounding and the edge |
| `settings_window` | two menus and two actions that refer to each other, 3 edits; two menus, two chords, 2 edits; pairs of items of every type with values no page can show, 3 changes | no dangling reference, what is selected is what is shown, chords kept apart, a closed window records nothing, a change writes what was changed, edited items are valid |
| `files` | a template, three files by hand and one by the settings; a history of 3 launches over 3 libraries with crashes, failed saves and edits | what was saved is loaded; older files lose nothing; private keys keep apart; a restart keeps the history, if the last save could open its file; plain lookups are right, while no action drops off the recent ones |
| `overlay_suspended` | as `overlay_modes` | **violation**: a posted `showGui` replaces the editor without undoing the suspension |
| `hotkey_two_win` | both Win keys and a letter | **violation**: the release of the second Win key is swallowed and the system keeps it down |
| `history_copy` | as `files`, no crash | **violation**: a lookup copies from a library that was replaced |
| `config_empty` | the settings delete every menu | **violation**: what was saved does not load |

Deadlock is not checked where the system may stop: a pool that was joined,
a scheduler whose callers have made their bounded number of calls and whose
actions have ended, a settings window whose number of edits is used up. The overlay, the
receiver and the files never stop.

### Bounds, and why they are enough

* *Workers.* The lost notification hits at most the one worker that holds the gate's
  mutex, so one worker shows it and two show that another remains; the proof removes
  the bound. Two workers in `Scheduler` give an action and its cancelling
  neighbour, or a flush and its parent, each a thread.
* *Pauses, cancels.* One cancel finds the hold in every place a context can be in. One
  pause brings every event into the paused state; resumes are unbounded. The pool
  needs a second pause, to sleep again after a resume.
* *Actions.* A holder and a waiter suffice for hand-over; a third makes the order of
  waiters matter.
* *Keys.* Win, another modifier, a letter and Escape tell every branch of the hook apart. A
  second letter would be a second press beside the first, and everything the hook keeps is kept by
  key; the proofs remove the bound, but for that of one Win key. A second Win key is the case of `hotkey_two_win`.
* *Mouse.* Three moves and two recenterings put a recentering before, between and after
  moves, and a steal and a resume among them. The device moves by 1 one way and by 2 the other: at 5 native pixels to 2 of
  Qt's, one rounds to nothing and two to one, so that ticks lose and gain; the surface is two pixels wide, so
  that the edge is met at once. The proof removes these bounds.
* *Files.* A save, a crash in it, a restart and a save again are all within three launches; two recent
  entries and three actions make one fall off the end. The documents by hand have every item
  type that is parsed in a way of its own and every pair of names that collide. `MaxSubmits = Half = 4`
  gives each private key there is once; none wraps, which would take 2^31 submissions, and no channel of these documents is
  as large as a private key. Either would break the property, see below.
* *Settings.* Two menus and two actions, each slot and target referring to one of them, and room
  for one more of each; an edit to break a reference, one to mend or reuse it, and one on the row
  that moved. Each pair of items has one that its page can show and one that it cannot.
* *Overlay.* Two menus make a switch and a replaced menu; two posted calls are enough for
  one to change the mode that the other finds, and every violation found needs one; two picks
  for order among deferred ones.

### Fairness

`WorkerPool!Fairness`: each worker that can step does, the scheduler finishes a
`setPaused` or `submitUrgent` it began (its notification) and `stop` goes on once it
has unpaused. Taking the mutex of the gate is strongly fair, for it is free again
and again while others pass. Neither a spurious wakeup nor any call is assumed to happen.

`Scheduler!Fairness`: the scheduler thread handles events and due delays, and some
worker makes progress; an item's `execute` returns. One condition for all workers is enough
as every action is finite. Callers owe nothing: properties that need a resume say so
(`<>[]~paused`).

The other modules have safety and action properties only: nothing in the overlay, the hook or the
settings window runs by itself, each waits for the user, a timer or a posted call, and what
must happen happens in the handler.

## Proofs

All proofs are for every value of the constants that satisfies the named
assumptions `PoolAssumption`, `SchedulerAssumption`, `OverlayAssumption`, `HookAssumption`,
`MouseAssumption`, `FilesAssumption`, `EditorAssumption`, `ConfigsAssumption`, `PageAssumption`, `LoaderAssumption`,
`NullAssumption`, `DocumentsAssumption` and `ConfigurationsAssumption`,
which TLC evaluates on every instance. The three theorems about the configuration file have hypotheses besides,
named with each below; `MCFiles!HypothesesHold` lets TLC evaluate them too. One cannot be
evaluated: `~ IsObject(Null)`, JSON's null is no object. `Null` is a model value in every run, and a
model value has no domain TLC could ask for.

* **`WorkerPool_proofs!TypeCorrect`.** `TypeOK` is not inductive: `FinishItem` counts an item
  down and needs to know there is one. `TypeInv` adds `ItemLeft`, a worker inside an item has one left.
* **`WorkerPool_proofs!NoResumeLost`, `ExitDrainsUrgent`.** The invariant `GateInv` conjoins:
  mutual exclusion at the gate, "a worker that has found the predicate false still
  sees a paused pool" (`GateLocked`: it holds the mutex that clearing `m_paused` takes),
  and the order of `stop`'s steps (`StopOrder`: a worker tries the urgent
  queue for the last time only after both are stopped). Whoever clears
  `m_paused` notifies afterwards, and the notification empties "blocked".
* **`WorkerPool_proofs!UrgentReachesAWorker`.** With at least two workers: a notification
  empties "blocked", the only worker it can miss is the one holding the mutex, and
  mutual exclusion leaves another awake. The assumption on two workers is needed: with one,
  `CancelFlushBypassesPause` below has a counterexample.
* **`Scheduler_proofs!TypeCorrect`.** Strengthened by "a context inside an item is not past
  its last one". Lemmas on ids, items, results and events come first, then one
  lemma per helper (`SettleTypes`, `TargetsTypes`, `FlushesOfTypes`) and one per group of
  actions. It establishes among other things that only registered cancelable actions are ever
  recorded as cancelled and that flushes and links name holds of their action.
* **`Scheduler_proofs!OneHolder`, `NoChannelStuck`.** Neither property is inductive. `KeyInv` adds
  that a context is in one place (`OnePlace`: destroying it there must leave no second one that
  still runs and frees the key again), that an action not yet handled is registered nowhere,
  that tickets are distinct (a hand-over promotes exactly one waiter), and that a busy channel has
  exactly one holder, and the registered actions are the waiters and the holders. `KeysHandedOver`
  is the heart: for any sets a handler destroys, admits and submits, `Settle` keeps the last
  of these. That a freed channel with waiters is handed on needs a least ticket (`LeastNat`), and that a
  handler's sets are of the right kind comes from `PlacesSettled` and the lemmas on cancels.
* **`SchedulerSteps_proofs!NoKeyStuck`.** `PressInv` adds to `KeyInv`: before the item of a hold is executed nothing is
  known of the hold (`Fresh`, so that its KeyUps start from their first item); the flush and link tables
  agree, so that a cancel that destroys a linked release submits its flush in the same step; a
  registered KeyUp is in flight; KeyUps are never reported as cancelled, and are reported as completed
  only when they are. Under it a pressed key has a KeyUp registered and unfinished, or the result
  of its hold is in the mailbox.
* **`SchedulerSteps_proofs!CancelsAreFinal`, `UncancelableEnd`, `PauseIsQuiet`.** The action properties, each as what
  every step satisfies under `StepInv`: a handled cancel leaves the action flagged or destroyed for good
  (no submit of it is pending); a result says the truth of its action; a result registers no release
  that is linked already and a flush is never delayed, so that what a cancel takes out of the delay
  queue is not registered anew by the same handler.

* **`SchedulerSteps_proofs!ChannelsFollowOrder`**, the refinement. The queue of a channel is given by rank: the n-th
  is the registered action with n - 1 lower tickets before it, and a sequence of them all in the order of
  their tickets is that queue (`SortedIsRanked`, by counting). So a registration appends (`RankedAppended`) and whoever
  is destroyed is filtered out (`RankedLeft`). `OrderInv` adds to `KeyInv` that the registered actions have a
  ticket and that the holder of a channel has a lower one than each that waits for it; an action that executes holds its
  channel, hence it is the head of the queue. Each step is a step of `ChannelOrder` or a stutter: a submit of an
  action on a channel enters, a cancel or a result lets all that it destroys leave at once.
* **`Input_proofs`, the hook** (`TypeCorrect`, `NothingLeftArmed`, `HookKept`, `ReportedOnce`, and three below). The
  invariant `HookInv` conjoins the types, `HookState` (what the hook waits to undo concerns keys it has
  seen go down, and it suppresses Win only while a Win key is held), `HookWhileNeeded`, and
  `Reported`: a key whose press has been reported is latched, and a latched key reports nothing. The last
  is needed because `calls <= 1` says nothing of what keeps the next repeat from being a second
  report. Removing the hook clears latches and counts a press anew. `NoModifierStuck`, `StartStaysShut`
  and `ReleaseIsSeen` are about the system's side and assume at most one Win key (`OneWin`): with two, the run
  `hotkey_two_win` shows the first one false; from there a hook installed anew takes the stuck Win key for
  one that is held, and execute-on-release waits for it. (`NoStartAfterChord` is then false for a harmless
  reason: one Win key tapped while the other of an earlier chord is still held.) `Together` says why one is enough: while Win's release is suppressed the system has Win up
  already, and Win does not repeat, as the chord's key has been pressed after it.
* **`Overlay_proofs`**, six theorems (`EditorStaysIsolated`, `HotkeysMatchMenus`, `ActiveMenuIsLoaded`,
  `MenusStayLoaded`, `WatchesEndWithWheel`, `StylesMatchMode`). As handlers are functions on `ui`, the invariant is a predicate
  `Good(u)` on that record: its type, the four groups of facts, and "nothing is bound while
  the hotkeys are suspended", which `BoundAreLoaded` needs across a save and a resume. One
  lemma per handler shows that it maps good records to good ones, also where handlers call each other;
  the steps only choose a handler. The posted calls need no invariant of their own: a handler is good whatever
  mode it finds, and `findMenuById` is evaluated when the call runs.
* **`Overlay_proofs!PicksGoOnce`.** `PicksInv` adds to it `Once`: submitted and deferred picks are
  distinct, apart from each other, and numbered at most `picks`. Each handler keeps the deferred picks,
  clears them, or submits them all and clears them (`PicksMoved`), also where handlers call each other, and a
  new pick has a new number.
* **`Overlay_proofs!ModesLeftClean`.** `Clean(u, v)` says of a handler's step what `ModesAreLeftClean`
  says of the specification's. It holds of every handler but needs one fact of the modes before it:
  nothing is deferred while the active menu of the wheel does not defer (`Waits`), or a pick of an exiting
  menu would be submitted ahead of those deferred. The palette chosen from the wheel does not flush, and
  a menu that opens over the editor resumes nothing: these are the two findings of `OverlaySuspended`, and
  the property leaves them out.
* **`Input_proofs!PointerTracks`.** `MouseInv` conjoins the types, "raw input only in a session", "the hook's last point is
  the cursor", and the two parts of the property. What was polled, what the session has counted (`dx`) and what the queue will be counted for make up what is
  due. The last is a sum over the messages, a recursive function, so `SumsExist` shows by induction over the numbers that it
  exists, and `WaitingAppended` and `WaitingRest` what a message more or less makes of it. The heart is `MovedKeeps`: with raw input, a
  move that the hook sees, the game's or the device's, changes the session's last point and not `dx`; without it the hook's
  count is the device's, as long as the move was. `RoundedNear` bounds what one conversion loses by half a pixel, for any ratio, and
  `PollMoves` adds that to what the ticks before have lost.
* **`Filter_proofs`.** `Only` is a recursive function. That it exists and what it returns is an induction on the
  naturals, done on the set of numbers for which the claim holds (`NatInduct`, from the well-founded order); the lemmas
  then say which elements are left, that their order is kept, that a prefix in the set stays a prefix, and what
  removing one element does.
* **`Files_proofs!SavedIsReloaded`.** `FilesSound`: every document on disk is readable and every configuration held is
  `Sound`, whichever of the two schemas it was loaded from. `KeptInFile`: what was saved last stands in the file. The
  rest is one lemma per level of the document (`ItemsBack`, `ActionsBack`, `MenusBack`, `RiceBack`, `AppBack`, joined in
  `RoundTrips`): what the writer puts down for a sound value, the reader makes into the same value up to what `Normal`
  leaves out. Hypotheses: `MenusLeft`, as a configuration without menus is saved and then refused (the finding of
  `MenuConfigEmpty`), and `~ CrashInSave`, as a crash in a save leaves a torn file (`MenuConfigLoader.cpp:865`).
* **`Files_proofs!LegacyIsKept`.** Inductions over the recursive functions that lift the older schema (`LiftedAll` for the
  actions of one menu, `LegacyLibrary` for all menus): as many ids as actions, none given twice, and each
  named action there. `UniqueIdFresh` is the heart: some number in the range the code tries is not taken, by counting, and the least
  of them is what the loop stops at. Hypothesis `NumeralsApart`: different numbers print differently. The prover knows nothing of
  `ToString`; TLC evaluates it up to 20.
* **`Files_proofs!PrivateKeysDiffer`.** `KeysGiven`: the n private keys given so far are `Half` to `Half + n - 1`, each
  once, the next one is after them, and every other key in flight is a channel below `Half`. Hypothesis
  `ChannelsInRange`: every channel is in the lower half of the unsigned range and there are at most `Half` submissions. The
  settings offer 0 to 1000000 (`SettingsWindow.cpp:721`); a file written by hand may say otherwise, see below.
* **`Files_proofs!RestartIsSafe`.** `HistoryInv`: in memory and in the file the recent list has no action twice and
  is no longer than its limit; a process at rest has only actions of its
  library in memory; and the property itself holds, which is about a process whose last save could open the file: a save
  that could not leaves a file that is sound but old. `Recorded` and pruning keep this (`RecordProper`), and pruning twice by
  one library is pruning once.
* **`Files_proofs!PlainLookupIsRight`.** While a lookup is plain (each action it has met counts, no drop-off came
  between, and the library is the same), every rank it has read before is still taken by an action that counts (`Headed`), for both
  orders. A launch moves others one rank back at most and the launched one to the front, whose rank counts too
  (`LaunchRank`, `RecordShape`). The order by frequency is told by the number of actions ahead, which are distinct numbers
  (`Positions`). So the action at the last rank is the answer at that moment.
* **`Settings_proofs!NothingDangles`, `EditorIsFaithful`, `ChordsStayApart`, `ClosedIsQuiet`.** `WindowInv` conjoins:
  the working copy is sound (`Sound`: ids apart, each slot and each target an id there is, or none), and so is the one
  given to the application, and two triggers of the latter never agree; what is selected is a row, and every combo box shows the
  row of the reference it is for (`Faithful`); what the recorder has posted is a chord. Each list operation has a lemma (`ItemAdded`,
  `ItemRemoved`, `ItemMoved`, `ListChanged`), each refresh one that says what it makes faithful, and each edit one that
  says what it leaves sound. Removing a menu or an action clears the references to it in all the others, hidden rows included.
* **`Settings_proofs!ControlsAreFaithful`, `EditsAreLocal`, `EditsPassValidation`.** `PageInv`: the items are typed, the
  row is in range, and the page shows the item at the row (`PageShows`). Two tables hold the argument: which values a control can
  show (`PageValue`) and which an item can have (`ItemValue`), field by field. Writing back a value that its control can show is the
  identity, so a handler that writes the whole page changes the field edited, and those whose value had no place on the
  page: the property excepts these. The pages whose every value is in the range of its control leave valid items.

Every invariant and every action property of the passing runs that holds without fairness is stated by a theorem. Only
model-checked is what is out of the prover's reach: the liveness properties, with fairness and `ENABLED`.

## Findings

Four disagreements between the code and what it says of itself have a *violation* run
with a counterexample, quoted in `PROJECT.json` under `findings`: settings replaced by a posted
`showGui`, the second Win key that stays down, a copy from a replaced library, and
the file without menus that is saved and then refused.

### Divergences without a run

Each of these is a property that a module states and the code does not keep. To see the
counterexample, give the property as the only one to the configuration named, with the
change of constants named.

| Property | Where | How it fails |
|---|---|---|
| `WorkerPool!CancelFlushBypassesPause` | `WorkerPoolGate.cfg`, one worker | `submitUrgent` notifies without the gate's mutex, between the predicate and the block of the only worker; the flush waits for the resume (`WorkerPool.cpp:57`) |
| `WorkerPool!StopJoins` | `WorkerPoolGate.cfg` | the scheduler handles a pause after `stop()` has unpaused; a worker goes back to sleep and the join never returns (`WorkerPool.cpp:82`) |
| `Scheduler!LinkedReleaseDiscarded` | `SchedulerLive.cfg`, an invariant | a linked release in a worker's hands is unbound, not discarded, when its parent is cancelled, and runs beside the flush (`Scheduler.cpp:498`) |
| `Overlay!DeferredOnlyOnWheel` | `OverlayModes.cfg` | the palette opened over the wheel leaves deferred picks behind, which the next menu clears (`App.cpp:951`) |
| `HotkeyHook!RepeatsSwallowed` | `InputReceiver.cfg` | Escape ends a recording without being latched; its repeats pass to the application (`Inputs.cpp:342`) |
| `HotkeyHook!ReportedDownIsDown` | `InputReceiver.cfg` | a chord matched on a repeat has its release swallowed, so the system reports the key as down once the hook is gone (`Inputs.cpp:402`) |
| `MouseSession!GameGetsWholeClicks` | `InputReceiver.cfg`, through a definition in `MCInput` | a button held when the session begins: the game has the press and not the release (`Inputs.cpp:506`) |
| `MouseSession!SlowMotionCounts` | `InputReceiver.cfg`, through a definition in `MCInput` | at a pixel ratio above 2 a step of one per tick rounds to nothing, tick by tick: a device that moves slowly never moves the virtual cursor (`App.cpp:595`; "a virtual cursor from physical mouse deltas", `App.hpp:39`) |
| `ActionHistory!LookupConsistent` | `ActionHistoryCopy.cfg` | the prune removes an id the lookup has skipped, the ranks move up, and the next action is never looked at (`App.cpp:1196`) |
| `ActionHistory!HistoryPersists` | `ActionHistoryCopy.cfg`, `CanCrash = TRUE` | the process dies between the truncation and the write; the next save makes the loss final (`ActionHistory.cpp:235`) |
| `ActionHistory!HistoryPersists` | `ActionHistoryCopy.cfg`, `CanEdit = TRUE` | a configuration that does not parse: the history is pruned to the fallback library and saved (`App.cpp:272`) |
| `MenuConfigLoader!ReloadsWhatWasSaved` | `MenuConfigEmpty.cfg`, `Configurations <- Usual`, `CrashInSave = TRUE` | the process dies between the truncation and the write of the configuration (`MenuConfigLoader.cpp:865`) |
| `MenuConfigLoader!PrivateKeysApart` | `MenuConfigEmpty.cfg`, `Documents <- Channels`, `Configurations <- Usual`, `MaxSubmits = 2` | a channel written in the file as -2147483648 is cast to the first private key, so that an action on it and one on channel 0 wait for each other (`MenuConfigLoader.cpp:493`; "Channel 0 maps each Action to a private key so those Actions never block one another", `ChannelManager.hpp:44`) |
| `SettingsEditor!TriggersUnique` | `Settings.cfg` | the recorder knows the other menu by its name; if that is empty it gives the chord to both, and only Save refuses (`SettingsWindow.cpp:2091`) |
| `SettingsEditor!CaptureOnlyInSettings` | `Settings.cfg` | search from the tray hides the panel and leaves the recorder armed: the next chord typed anywhere is swallowed (`App.cpp:1382`) |

Seen while modelling and stated by no property:

* A device that reports positions (a tablet, a remote desktop) does not move the virtual cursor at all while raw input is
  registered: the raw path refuses it (`Inputs.cpp:705`) and the hook leaves every move to the raw path (`Inputs.cpp:459`).
* A click on the tray icon while the settings are open loads the working copy anew over the
  edits not yet saved (`App.cpp:1443`).
* An item whose target menu was removed shows row 0 of the target box: choosing that row is no
  change, so with a single menu it cannot be chosen. A key code that the key box does not list is shown
  as 'A' and cannot be repaired by choosing 'A'. A value out of its control's range
  is rewritten by any other change of its page (`WritesWhatChanged` excepts it).
* An action added after one was removed may get the id the removed one had, and with it
  its place in the history, as the prune comes with the save.
* The recent list is cut to its limit (`ActionHistory.hpp:31`), and an action that falls off it ties with
  those equally frequent that fell off before, by their ids alone (`ActionHistory.cpp:103`). So a launch that drops an
  action may move a later rank ahead of one a lookup has already counted, and the lookup's answer was right at no
  moment. The proof of `PlainLookupIsRight` found this, for a recent list of one entry, where the run's two entries
  had not; `PlainLookupConsistent` now leaves out lookups during which an action dropped off.

## What is not modelled

* *Clock values.* A delay may end whenever the scheduler looks, so the heap's order, `shiftAll` on
  resume, and that entries parked during a pause are shifted by all of it are not told apart.
* *`Scheduler::stop`* and what it drops; of shutdown only the pool's `stop` is modelled.
* *The mutex and condition variable inside a `ThreadSafeQueue`*; the queue is atomic.
* *Chords of `RegisterHotKey`*, which the system matches, and the count of injected moves that is one reason to steal the
  focus; `MouseSession` lets the focus be stolen at any tick.
* *`ProgramIndex`, the search palette, `FuzzyMatch`.* One refresh thread that replaces the
  entries under a mutex and is joined before the next; the palette copies them per query, on
  the GUI thread. The score is a function of strings.
* *Geometry and theme pages of the settings* (the "rice" of wheel and menus): `MenuConfigLoader` keeps
  their fields, the editor does not edit them.
* *`Log`, painting and layout, the JSON text, input injection, the launcher*: I/O with no protocol
  that another part relies on.

## Plan

Done: `WorkerPool` and `Scheduler` with `ChannelOrder`, `Overlay`, `HotkeyHook`, `MouseSession`,
`ActionHistory`, `MenuConfigLoader`, `SettingsEditor`, `ItemPage`, and the proofs above. Next, in this order:

1. `DelayClock` (due times, the heap, `shiftAll`) and `SchedulerStop`.
2. The mutex of `ThreadSafeQueue`, refining the atomic queue; `ProgramIndex`; `Log`.
