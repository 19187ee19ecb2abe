----------------------------- MODULE MCSettings -----------------------------
(***************************************************************************)
(* The settings window for TLC.  A behaviour is about one of three things  *)
(* that share little or nothing, and the rest stays as it is at the start: *)
(* two menus and two actions that refer to each other, without triggers    *)
(* and never hidden by search; triggers recorded for two menus; or the     *)
(* detail pages of one action's items, whose controls nothing else reads.  *)
(***************************************************************************)
EXTENDS SettingsEditor

CONSTANTS
  EditingActions, EditingEdits, PageItems, PageEdits,  \* bounds
  Opened, AddTypes, ListedKeys, Numbers, Words, Bits   \* of ItemPage

VARIABLES focus, items, row, page, changes

pageVars == <<items, row, page, changes>>

Linked ==
  [menus   |-> <<[id |-> 1, trigger |-> None, named |-> TRUE, useHook |-> FALSE, slots |-> <<1, 2>>],
                 [id |-> 2, trigger |-> None, named |-> TRUE, useHook |-> FALSE, slots |-> <<2>>]>>,
   actions |-> <<[id |-> 1, channel |-> 0, items |-> <<[type |-> "menu", arg |-> 2]>>],
                 [id |-> 2, channel |-> 0, items |-> <<[type |-> "script", arg |-> 1]>>]>>]

Triggered ==
  [menus   |-> <<[id |-> 1, trigger |-> 1, named |-> TRUE, useHook |-> FALSE, slots |-> <<>>],
                 [id |-> 2, trigger |-> None, named |-> TRUE, useHook |-> FALSE, slots |-> <<>>]>>,
   actions |-> <<>>]

OneLinked    == {Linked}
OneTriggered == {Triggered}

Typed(w) == [word |-> w, padded |-> FALSE]

AllTypes == {"launch_app", "script", "delay", "keystroke", "mouse_move", "mouse_button",
             "mouse_scroll", "cancel", "nth_recent", "nth_frequent", "socket", "search", "close"}

Item(type, args) == [type |-> type, args |-> args]

Key(bits, code, hold, on) ==
  Item("keystroke", [modifiers |-> bits, keycode |-> code, hold |-> hold, proceed |-> on])
Button(b, hold, on) ==
  Item("mouse_button", [modifiers |-> {"shift"}, button |-> b, hold |-> hold, proceed |-> on])
Scroll(d, interval, on) ==
  Item("mouse_scroll", [dx |-> d, dy |-> 120, modifiers |-> {"other"}, interval |-> interval,
                         hold |-> 200, proceed |-> on])
Launch(p, t) == Item("launch_app", [preset |-> p, target |-> Typed(t)])
Socket(p, d, m) ==
  Item("socket", [protocol |-> p, destination |-> Typed(d), message |-> Typed(""), method |-> Typed(m)])
Searching(on, url) ==
  Item("search", [actions |-> on, programs |-> FALSE, menus |-> ~ on, web |-> on, url |-> Typed(url)])

\* Two items of each kind, one after the other.
OpenedPairs ==
  { <<Key({"ctrl"}, 66, 200, TRUE), Key({"other"}, 200, 250, FALSE)>>,
    <<Key({}, 0, -100, TRUE), Key({}, 65, 0, FALSE)>>,
    <<Button(1, 200, TRUE), Button(7, 0, FALSE)>>,
    <<Scroll(120, 10, TRUE), Scroll(-20000, 3, FALSE)>>,
    <<Launch("custom", "tool"), Launch("unlisted", "")>>,
    <<Socket("http", "http:", ""), Socket("udp", "host:port", "PUT")>>,
    <<Searching(TRUE, "google"), Searching(FALSE, "")>>,
    <<Item("cancel", [level |-> "all", channel |-> -5]),
      Item("cancel", [level |-> "channel", channel |-> 200])>>,
    <<Item("nth_recent", [n |-> 0]), Item("nth_frequent", [n |-> 2])>>,
    <<Item("delay", [duration |-> -1]), Item("delay", [duration |-> 200])>>,
    <<Item("mouse_move", [x |-> 200, y |-> -200]), Item("script", [path |-> Typed("tool")])>>,
    <<Item("key_release", [keycode |-> 0])>>,
    <<>> }

ListedKeySet == {65, 66}
NumberSet == {-200, 0, 1, 200}
WordSet == {"", "http:", "host:port"}
BitSet == {"ctrl", "win"}

-----------------------------------------------------------------------------
Editing == INSTANCE SettingsEditor WITH
  Chords <- {}, WinChords <- {}, Configs <- OneLinked, Toggles <- {"channel"},
  MaxActions <- EditingActions, MaxEdits <- EditingEdits

Page == INSTANCE ItemPage WITH
  MaxItems <- PageItems, MaxEdits <- PageEdits, edits <- changes

\* An item has the fields of its page: times, numbers and coordinates, and
\* texts.  The loader gives every field a value; it takes any number, and for
\* a name it does not know a default or the name itself.
Typewritten(v) == v.padded \in BOOLEAN /\ v = [word |-> v.word, padded |-> v.padded]

PageItem(item) ==
  /\ item = [type |-> item.type, args |-> item.args]
  /\ item.type \in AllTypes \cup {"key_release"}
  /\ item.args = [f \in DOMAIN item.args |-> item.args[f]]
  /\ \A f \in Page!Fields(item.type) :
       /\ f \in DOMAIN item.args
       /\ f \in DOMAIN Page!Spin => item.args[f] \in Int
       /\ f \in Page!Lines => Typewritten(item.args[f])

ASSUME PageAssumption ==
  /\ \A its \in Opened : its \in Seq(Range(its)) /\ \A i \in DOMAIN its : PageItem(its[i])
  /\ AddTypes \subseteq AllTypes
  /\ 0 \notin ListedKeys /\ Numbers \subseteq Int

PageAtRest == Page!Init /\ items = <<>>

SettingsInit ==
  \/ focus = "editing" /\ Editing!Init /\ PageAtRest
  \/ focus = "recording" /\ Init /\ PageAtRest
  \/ focus = "page" /\ Init /\ Page!Init

SettingsNext ==
  /\ \/ focus = "editing" /\ Editing!Next /\ panel' # "hidden" /\ UNCHANGED pageVars
     \/ focus = "recording" /\ Next /\ UNCHANGED pageVars
     \/ focus = "page" /\ Page!Next /\ UNCHANGED vars
  /\ UNCHANGED focus

SettingsSpec == SettingsInit /\ [][SettingsNext]_<<focus, vars, pageVars>>

\* What is selected is what is shown, in the lists and combo boxes and in the
\* controls of an item's page.
\* (refreshEditors, refreshMenuEditor, refreshActionEditor, refreshItemDetail)
ControlsShowSelection == EditorShowsSelection /\ Page!PageShowsItem

\* An edit writes what was changed on the page, into the selected item.
\* (the handlers of the detail pages)
WritesWhatChanged == Page!WritesWhatChanged

\* What an edit of a page writes is not refused by the next save.
\* (the ranges of the controls, validateWorkingCopy)
EditedItemsAreValid == Page!EditedItemsAreValid
=============================================================================
