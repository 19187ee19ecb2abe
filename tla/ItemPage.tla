------------------------------ MODULE ItemPage ------------------------------
(***************************************************************************)
(* The detail pages of the settings window, app/src/SettingsWindow.cpp:    *)
(* the items of one action, the controls a page shows the selected item    *)
(* in, what each change of a control writes back into the item, and what   *)
(* validation says of the result.                                          *)
(*                                                                         *)
(* Holds and intervals are in units of 0.1 ms, the duration of a delay in  *)
(* milliseconds.  A modifier mask is the set of its bits.                  *)
(* A text is a word, with or without blanks around it; of the words, the   *)
(* forms of a destination are told apart.  Keys are virtual key codes, and *)
(* the channel of a cancel is the signed number the code casts it to.      *)
(* The target of a menu item is in SettingsEditor.                         *)
(***************************************************************************)
EXTENDS Integers, Sequences, FiniteSets, SequencesExt

CONSTANTS
  Opened,      \* item sequences the action may have when it is selected
  AddTypes,    \* types picked for new items
  ListedKeys,  \* keys of the key box; the first is 'A'
  Numbers,     \* numbers the user types
  Words,       \* words the user types
  Bits,        \* modifier bits the user toggles
  MaxItems, MaxEdits

A == 65
Blank == [word |-> "", padded |-> FALSE]
Text(w) == [word |-> w, padded |-> FALSE]
PageBits == {"ctrl", "alt", "shift", "win"}

VARIABLES
  items,  \* items of the action
  row,    \* current row of the list, 0 for none
  page,   \* what the controls of the current page show
  edits   \* changes made

vars == <<items, row, page, edits>>

-----------------------------------------------------------------------------
(* The controls.                                                           *)

Fields(type) ==
  CASE type = "launch_app"   -> {"preset", "target"}
    [] type = "script"       -> {"path"}
    [] type = "delay"        -> {"duration"}
    [] type = "keystroke"    -> {"modifiers", "keycode", "hold", "proceed"}
    [] type = "mouse_move"   -> {"x", "y"}
    [] type = "mouse_button" -> {"modifiers", "button", "hold", "proceed"}
    [] type = "mouse_scroll" -> {"dx", "dy", "modifiers", "interval", "hold", "proceed"}
    [] type = "cancel"       -> {"level", "channel"}
    [] type \in {"nth_recent", "nth_frequent"} -> {"n"}
    [] type = "socket"       -> {"protocol", "destination", "message", "method"}
    [] type = "search"       -> {"actions", "programs", "menus", "web", "url"}
    [] type \in {"close", "key_release"} -> {}

Steps(lo, hi, step) == [lo |-> lo, hi |-> hi, step |-> step]

Spin == [interval |-> Steps(10, 50000, 10), hold |-> Steps(0, 36000000, 100),
         duration |-> Steps(0, 86400000, 1),
         x |-> Steps(-100000, 100000, 1), y |-> Steps(-100000, 100000, 1),
         dx |-> Steps(-12000, 12000, 1), dy |-> Steps(-12000, 12000, 1),
         channel |-> Steps(0, 1000000, 1), n |-> Steps(1, 1000, 1)]

Presets == {"browser", "explorer", "calculator", "notepad", "paint", "taskmgr", "custom"}

\* The entries of a box, and the entry it shows for a value it lacks.
Box == [preset   |-> [entries |-> Presets, other |-> "custom"],
        keycode  |-> [entries |-> ListedKeys, other |-> A],
        button   |-> [entries |-> 0 .. 2, other |-> 0],
        level    |-> [entries |-> {"latest", "channel", "all"}, other |-> "latest"],
        protocol |-> [entries |-> {"udp", "tcp", "http", "websocket"}, other |-> "udp"]]

Checks  == {"proceed", "actions", "programs", "menus", "web"}
Trimmed == {"destination", "method", "url"}  \* texts written without the blanks
Lines   == Trimmed \cup {"target", "path", "message"}

\* Fault: the box has no smallest value.
InSpinUnbounded(s, v) == LET rounded == ((v + s.step \div 2) \div s.step) * s.step
                         IN  IF rounded > s.hi THEN s.hi ELSE rounded

\* A spin box rounds to its step and stays in its range.
InSpin(s, v) ==
  LET rounded == ((v + s.step \div 2) \div s.step) * s.step
  IN  IF rounded < s.lo THEN s.lo ELSE IF rounded > s.hi THEN s.hi ELSE rounded

Shown(f, v) ==
  CASE f \in DOMAIN Spin -> InSpin(Spin[f], v)
    [] f \in DOMAIN Box  -> IF v \in Box[f].entries THEN v ELSE Box[f].other
    [] f = "modifiers"   -> v \cap PageBits
    [] f = "method"      -> IF v = Blank THEN Text("POST") ELSE v
    [] OTHER             -> v

RefreshItemDetail(item) == [f \in Fields(item.type) |-> Shown(f, item.args[f])]

PageFor(its, r) == IF r = 0 THEN <<>> ELSE RefreshItemDetail(its[r])

\* What the handlers write for what a control shows.
Written(f, v) ==
  IF f \notin Trimmed THEN v
  ELSE IF f = "method" /\ v.word = "" THEN Text("POST")
  ELSE IF f = "url" /\ v.word = "" THEN Text("google")
  ELSE Text(v.word)

-----------------------------------------------------------------------------
(* The items.                                                              *)

NewItem(type) ==
  [type |-> type,
   args |->
     CASE type = "launch_app"   -> [preset |-> "calculator", target |-> Blank]
       [] type = "script"       -> [path |-> Blank]
       [] type = "delay"        -> [duration |-> 0]
       [] type = "keystroke"    -> [modifiers |-> {}, keycode |-> A, hold |-> 0, proceed |-> FALSE]
       [] type = "mouse_move"   -> [x |-> 0, y |-> 0]
       [] type = "mouse_button" -> [modifiers |-> {}, button |-> 0, hold |-> 0, proceed |-> FALSE]
       [] type = "mouse_scroll" -> [dx |-> 0, dy |-> 120, modifiers |-> {}, interval |-> 500,
                                    hold |-> 0, proceed |-> FALSE]
       [] type = "cancel"       -> [level |-> "latest", channel |-> 0]
       [] type \in {"nth_recent", "nth_frequent"} -> [n |-> 1]
       [] type = "socket"       -> [protocol |-> "udp", destination |-> Text("host:port"),
                                    message |-> Blank, method |-> Text("POST")]
       [] type = "search"       -> [actions |-> TRUE, programs |-> TRUE, menus |-> TRUE,
                                    web |-> TRUE, url |-> Text("google")]
       [] type = "close"        -> <<>>]

\* A list filled anew keeps its row or falls back on the first.
KeptOrFirst(r, n) == IF r \in 1 .. n THEN r ELSE IF n = 0 THEN 0 ELSE 1

Init ==
  /\ items \in Opened
  /\ row = KeptOrFirst(1, Len(items)) /\ page = PageFor(items, row)
  /\ edits = 0

\* Fault: a page already shown is not filled again.
SelectRowKept(its, r) ==
  /\ row' = r
  /\ page' = IF r # 0 /\ DOMAIN page = Fields(its[r].type) THEN page ELSE PageFor(its, r)

SelectRow(its, r) == row' = r /\ page' = PageFor(its, r)

Select(r) == r # row /\ SelectRow(items, r) /\ UNCHANGED <<items, edits>>

Change(its, r) ==
  /\ edits < MaxEdits /\ edits' = edits + 1
  /\ items' = its /\ SelectRow(its, r)

AddItem(type) ==
  /\ Len(items) < MaxItems
  /\ Change(Append(items, NewItem(type)), Len(items) + 1)

RemoveItem ==
  row # 0 /\ LET left == RemoveAt(items, row) IN Change(left, KeptOrFirst(row, Len(left)))

MoveItem(to) ==
  /\ row # 0 /\ to \in {row - 1, row + 1} \cap DOMAIN items
  /\ Change([items EXCEPT ![row] = items[to], ![to] = items[row]], to)

-----------------------------------------------------------------------------
(* Changes of a control.                                                   *)

Item == items[row]
Selected(types) == row # 0 /\ Item.type \in types

\* A control that is greyed or hidden takes no input.
CanChange(f) ==
  CASE f = "target"  -> Item.args.preset = "custom"
    [] f = "channel" -> Item.args.level # "all"
    [] f = "method"  -> Item.args.protocol = "http"
    [] f = "url"     -> Item.args.web
    [] OTHER         -> TRUE

\* What the user can make a control show.
Offered(f) ==
  CASE f \in DOMAIN Spin -> {v \in Numbers : InSpin(Spin[f], v) = v}
    [] f \in DOMAIN Box  -> Box[f].entries
    [] f \in Checks      -> BOOLEAN
    [] f = "modifiers"   -> {(page[f] \ {b}) \cup ({b} \ page[f]) : b \in Bits}
    [] f \in Lines       -> [word : Words, padded : BOOLEAN]

\* A control that changes tells the page's handler; the page stays as it is.
Touch(f, v) ==
  /\ CanChange(f) /\ v \in Offered(f) /\ v # page[f]
  /\ edits < MaxEdits /\ edits' = edits + 1
  /\ page' = [page EXCEPT ![f] = v] /\ UNCHANGED row

\* Six handlers write every control of their page into the item, the others
\* the one that changed.
WritePage(type) ==
  Selected({type}) /\ \E f \in Fields(type) : \E v \in Offered(f) :
    /\ Touch(f, v)
    /\ items' = [items EXCEPT ![row].args = [g \in Fields(type) |-> Written(g, page'[g])]]

WriteField(types, f) ==
  Selected(types) /\ \E v \in Offered(f) :
    Touch(f, v) /\ items' = [items EXCEPT ![row].args[f] = Written(f, v)]

KeystrokeEditorChanged   == WritePage("keystroke")
MouseButtonEditorChanged == WritePage("mouse_button")
MouseScrollEditorChanged == WritePage("mouse_scroll")
CancelEditorChanged      == WritePage("cancel")
SocketEditorChanged      == WritePage("socket")
SearchEditorChanged      == WritePage("search")
MouseMoveChanged         == \E f \in {"x", "y"} : WriteField({"mouse_move"}, f)
NthChanged               == WriteField({"nth_recent", "nth_frequent"}, "n")
DelayChanged             == WriteField({"delay"}, "duration")
ScriptPathEdited         == WriteField({"script"}, "path")
CustomPathEdited         == WriteField({"launch_app"}, "target")

SetArgs(args) == Change([items EXCEPT ![row].args = args], row)

LaunchPresetChosen(preset) ==
  /\ Selected({"launch_app"}) /\ preset # page.preset
  /\ SetArgs([preset |-> preset,
              target |-> IF preset = "custom" THEN Item.args.target
                         ELSE Text(preset)])

BrowseLaunchApp(path) ==
  /\ Selected({"launch_app"}) /\ Item.args.preset = "custom"
  /\ path # "" /\ SetArgs([preset |-> "custom", target |-> Text(path)])

BrowseScript(path) ==
  /\ Selected({"script"})
  /\ path # "" /\ SetArgs([path |-> Text(path)])

Next ==
  \/ \E r \in DOMAIN items : Select(r)
  \/ \E type \in AddTypes : AddItem(type)
  \/ RemoveItem \/ \E to \in DOMAIN items : MoveItem(to)
  \/ KeystrokeEditorChanged \/ MouseButtonEditorChanged \/ MouseScrollEditorChanged
  \/ CancelEditorChanged \/ SocketEditorChanged \/ SearchEditorChanged
  \/ MouseMoveChanged \/ NthChanged \/ DelayChanged
  \/ ScriptPathEdited \/ CustomPathEdited
  \/ \E preset \in Presets : LaunchPresetChosen(preset)
  \/ \E path \in Words : BrowseLaunchApp(path) \/ BrowseScript(path)

Spec == Init /\ [][Next]_vars

-----------------------------------------------------------------------------
(* Properties.                                                             *)

\* What validateWorkingCopy asks of an item.
DestinationFits(protocol, w) ==
  CASE protocol = "http"      -> w = "http:"
    [] protocol = "websocket" -> w = "ws:"
    [] OTHER                  -> w \in {"http:", "ws:", "host:port"}

Valid(item) ==
  LET a == item.args
  IN  CASE item.type = "script"       -> a.path.word # ""
        [] item.type = "launch_app"   -> a.preset # "" /\ (a.preset = "custom" => a.target.word # "")
        [] item.type = "delay"        -> a.duration >= 0
        [] item.type = "keystroke"    -> a.keycode # 0 /\ a.hold >= 0
        [] item.type = "mouse_button" -> a.button \in 0 .. 2 /\ a.hold >= 0
        [] item.type = "mouse_scroll" -> a.hold >= 0 /\ a.interval >= 10
        [] item.type \in {"nth_recent", "nth_frequent"} -> a.n >= 1
        [] item.type = "socket"       -> DestinationFits(a.protocol, a.destination.word)
        [] item.type = "search"       -> a.actions \/ a.programs \/ a.menus \/ a.web
        [] item.type = "key_release"  -> a.keycode # 0
        [] OTHER                      -> TRUE

\* The values a page has a way to show.
Representable(f, v) ==
  CASE f \in DOMAIN Spin        -> v \in Spin[f].lo .. Spin[f].hi /\ v % Spin[f].step = 0
    [] f \in DOMAIN Box         -> v \in Box[f].entries
    [] f = "modifiers"          -> v \subseteq PageBits
    [] f \in {"method", "url"}  -> v.word # "" /\ ~ v.padded
    [] f = "destination"        -> ~ v.padded
    [] OTHER                    -> TRUE

\* The controls show the selected item: whatever was selected, added, moved
\* or removed before, what a handler would write for a control is what the
\* item has, if the control can show it (refreshItemDetail).
PageShowsItem ==
  row # 0 => \A f \in Fields(Item.type) :
    Representable(f, Item.args[f]) => Written(f, page[f]) = Item.args[f]

\* The handlers that write a whole page back change nothing in the item but
\* what changed on the page, except a value the page could not show, and
\* nothing in another item.
WritesWhatChanged ==
  [][row' = row /\ Len(items') = Len(items) =>
       \A i \in DOMAIN items : items'[i] # items[i] =>
         /\ i = row
         /\ \A f \in Fields(Item.type) : items'[i].args[f] # items[i].args[f] =>
              page'[f] # page[f] \/ ~ Representable(f, items[i].args[f])]_vars

\* What the keyboard, mouse, delay and history pages write is not refused
\* when the settings are saved, whatever the file had there before
\* (validateWorkingCopy and the ranges of the controls agree).
EditedItemsAreValid ==
  [][\A i \in DOMAIN items :
       /\ row' = row /\ Len(items') = Len(items) /\ items'[i] # items[i]
       /\ items[i].type \in {"keystroke", "mouse_button", "mouse_scroll", "delay",
                             "nth_recent", "nth_frequent"}
       => Valid(items'[i])]_vars

=============================================================================
