--------------------------- MODULE SettingsEditor ---------------------------
(***************************************************************************)
(* The settings window, app/src/SettingsWindow.cpp: the working copy of    *)
(* menus and actions, what the lists and combo boxes select and show, the  *)
(* recorder of trigger chords, and validation; with App's showing, leaving *)
(* and saving.  What the page of one item edits is ItemPage; the layout of *)
(* the wheel is left out.                                                  *)
(*                                                                         *)
(* Rows count from 1 and 0 is none.  The i-th free id is the number i: the *)
(* editor makes ids from one seed and a suffix.  Names, icons and the      *)
(* options that no property tells apart are one flag: useHook for a menu,  *)
(* the channel for an action; of a menu's name, whether there is one.      *)
(***************************************************************************)
EXTENDS Naturals, Sequences, FiniteSets, SequencesExt, FiniteSetsExt, Filter

CONSTANTS
  Chords,       \* trigger chords
  WinChords,    \* those with the Win key
  Configs,      \* configurations the application may start with
  Toggles,      \* which simple fields the user changes: "name", "useHook", "channel"
  ItemTypes,    \* what the item picker offers, among menu, script and close
  MaxMenus, MaxActions, MaxParts,  \* bounds on menus, actions, slots and items
  MaxEdits, MaxPosted  \* bounds on edits and on chords under way

None == 0

ASSUME EditorAssumption ==
  /\ WinChords \subseteq Chords /\ None \notin Chords
  /\ Toggles \subseteq {"name", "useHook", "channel"}
  /\ ItemTypes \subseteq {"menu", "script", "close"}
  /\ {MaxMenus, MaxActions, MaxParts, MaxEdits, MaxPosted} \subseteq Nat

VARIABLES
  live,        \* m_loadedMenus and m_actionLibrary
  work,        \* m_menus and m_actions
  panel,       \* the settings panel: "shown", "closed", or "hidden" by search
  view,        \* what is selected, and what page and combo boxes show
  recording,   \* m_isRecordingKeystroke
  capture,     \* the hook delivers the next chord to the window
  posted,      \* chords on their way to the window
  edits        \* edits made

vars == <<live, work, panel, view, recording, capture, posted, edits>>

NoView == [kind |-> "none", menu |-> 0, action |-> 0, slot |-> 0, item |-> 0,
           page |-> "none", slotCombo |-> 0, targetCombo |-> 0]

Init ==
  /\ live \in Configs
  /\ work = [menus |-> <<>>, actions |-> <<>>]
  /\ panel = "closed" /\ view = NoView
  /\ recording = FALSE /\ capture = FALSE /\ posted = <<>>
  /\ edits = 0

-----------------------------------------------------------------------------
(* What the window shows.                                                  *)

CurrentMenu(v)   == IF v.kind = "menu" THEN v.menu ELSE 0
CurrentAction(v) == IF v.kind = "action" THEN v.action ELSE 0

\* A list keeps its row if there still is one; slots and items fall back on
\* the first.
Kept(row, n) == IF row \in 1 .. n THEN row ELSE 0
KeptOrFirst(row, n) == IF row \in 1 .. n THEN row ELSE Min({1, n})

\* A combo box filled anew shows the id asked for, or else the first.
ComboRow(elems, id) ==
  LET row == SelectInSeq(elems, LAMBDA e : e.id = id)
  IN  IF row # 0 THEN row ELSE Min({1, Len(elems)})

RefreshSlotActionCombo(w, v) ==
  [v EXCEPT !.slotCombo =
     ComboRow(w.actions, IF v.slot = 0 THEN None ELSE w.menus[v.menu].slots[v.slot])]

\* Fault: the combo box keeps showing what it showed.
RefreshMenuEditorList(w, v) == [v EXCEPT !.slot = KeptOrFirst(@, Len(w.menus[v.menu].slots))]

RefreshMenuEditor(w, v) ==
  RefreshSlotActionCombo(w, [v EXCEPT !.slot = KeptOrFirst(@, Len(w.menus[v.menu].slots))])

RefreshItemDetail(w, v) ==
  LET items == w.actions[v.action].items
  IN  IF v.item # 0 /\ items[v.item].type = "menu"
      THEN [v EXCEPT !.targetCombo = ComboRow(w.menus, items[v.item].arg)] ELSE v

RefreshActionEditor(w, v) ==
  RefreshItemDetail(w, [v EXCEPT !.item = KeptOrFirst(@, Len(w.actions[v.action].items))])

RefreshEditors(w, v) ==
  IF CurrentMenu(v) # 0 THEN RefreshMenuEditor(w, [v EXCEPT !.page = "menu"])
  ELSE IF CurrentAction(v) # 0 THEN RefreshActionEditor(w, [v EXCEPT !.page = "action"])
  ELSE [v EXCEPT !.page = "none"]

RefreshLists(w, v) ==
  [v EXCEPT !.menu = Kept(CurrentMenu(v), Len(w.menus)),
            !.action = Kept(CurrentAction(v), Len(w.actions))]

SetSelectedMenu(w, v, i) ==
  RefreshEditors(w, [v EXCEPT !.kind = "menu", !.menu = i, !.action = 0])

SetSelectedAction(w, v, i) ==
  RefreshEditors(w, [v EXCEPT !.kind = "action", !.action = i, !.menu = 0])

-----------------------------------------------------------------------------
(* The working copy.                                                       *)

Ids(elems) == {elems[i].id : i \in DOMAIN elems}

FreeId(elems) == Min(1 .. Len(elems) + 1 \ Ids(elems))

WithSlots(w, m, slots) == [w EXCEPT !.menus[m].slots = slots]
WithItems(w, a, items) == [w EXCEPT !.actions[a].items = items]

\* Fault: slots that named the action stay.
DeleteActionReferencesNot(w, id) == w

DeleteActionReferences(w, id) ==
  [w EXCEPT !.menus = [m \in DOMAIN w.menus |->
     [w.menus[m] EXCEPT !.slots = Only(@, Range(@) \ {id})]]]

ClearedItem(item, id) ==
  IF item.type = "menu" /\ item.arg = id THEN [item EXCEPT !.arg = None] ELSE item

ClearMenuReferences(w, id) ==
  [w EXCEPT !.actions = [a \in DOMAIN w.actions |-> [w.actions[a] EXCEPT
     !.items = [i \in DOMAIN w.actions[a].items |-> ClearedItem(w.actions[a].items[i], id)]]]]

Moved(s, from, to) == InsertAt(RemoveAt(s, from), to, s[from])

\* A fresh item opens the first menu; a fresh script has no path.
NewItem(w, type) ==
  [type |-> type, arg |-> IF type = "menu" /\ w.menus # <<>> THEN w.menus[1].id ELSE None]

ItemComplete(w, item) ==
  CASE item.type = "menu"   -> item.arg \in Ids(w.menus)
    [] item.type = "script" -> item.arg # None
    [] OTHER                -> TRUE

\* Fault: the chord is not looked for among the other menus.
ConflictNever(w, chord, m) == FALSE

\* The recorder finds a conflict by the other menu's name, when it has one.
Conflict(w, chord, m) ==
  LET others == {n \in DOMAIN w.menus \ {m} : w.menus[n].trigger = chord}
  IN  others # {} /\ w.menus[Min(others)].named

TriggersDiffer(w) ==
  \A m, n \in DOMAIN w.menus :
    m # n /\ w.menus[m].trigger = w.menus[n].trigger => w.menus[m].trigger = None

ValidateWorkingCopy(w) ==
  /\ Cardinality(Ids(w.actions)) = Len(w.actions) /\ Cardinality(Ids(w.menus)) = Len(w.menus)
  /\ \A a \in DOMAIN w.actions : \A i \in DOMAIN w.actions[a].items :
       ItemComplete(w, w.actions[a].items[i])
  /\ TriggersDiffer(w)
  /\ \A m \in DOMAIN w.menus : Range(w.menus[m].slots) \subseteq Ids(w.actions)

\* What the application starts with, a file that the settings saved.  An item
\* with neither target nor path is a close.
ASSUME ConfigsAssumption ==
  \A c \in Configs :
    /\ c \in [menus   : Seq([id : Nat \ {None}, trigger : Chords \cup {None}, named : BOOLEAN,
                             useHook : BOOLEAN, slots : Seq(Nat)]),
              actions : Seq([id : Nat \ {None}, channel : Int,
                             items : Seq([type : {"menu", "script", "close"}, arg : Int])])]
    /\ ValidateWorkingCopy(c)

\* An edit: the working copy and the view after it.
Edit(w, v) ==
  /\ panel = "shown" /\ edits < MaxEdits
  /\ work' = w /\ view' = v
  /\ edits' = edits + 1
  /\ UNCHANGED <<live, panel, recording, capture, posted>>

-----------------------------------------------------------------------------
(* Lists and buttons.                                                      *)

Look(v) ==
  /\ panel = "shown" /\ view' = v
  /\ UNCHANGED <<live, work, panel, recording, capture, posted, edits>>

Select ==
  \/ \E i \in DOMAIN work.menus : Look(SetSelectedMenu(work, view, i))
  \/ \E i \in DOMAIN work.actions : Look(SetSelectedAction(work, view, i))

AddMenu ==
  LET w == [work EXCEPT !.menus =
              Append(@, [id |-> FreeId(@), trigger |-> None, named |-> TRUE,
                         useHook |-> FALSE, slots |-> <<>>])]
  IN  Len(work.menus) < MaxMenus
        /\ Edit(w, SetSelectedMenu(w, RefreshLists(w, view), Len(w.menus)))

AddAction ==
  LET w == [work EXCEPT !.actions = Append(@, [id |-> FreeId(@), channel |-> 0, items |-> <<>>])]
  IN  Len(work.actions) < MaxActions
        /\ Edit(w, SetSelectedAction(w, RefreshLists(w, view), Len(w.actions)))

RemoveMenu ==
  /\ CurrentMenu(view) # 0
  /\ LET id == work.menus[view.menu].id
         w  == ClearMenuReferences([work EXCEPT !.menus = RemoveAt(@, view.menu)], id)
     IN  Edit(w, RefreshEditors(w, RefreshLists(w, view)))

RemoveAction ==
  /\ CurrentAction(view) # 0
  /\ LET id == work.actions[view.action].id
         w  == DeleteActionReferences([work EXCEPT !.actions = RemoveAt(@, view.action)], id)
     IN  Edit(w, RefreshEditors(w, RefreshLists(w, view)))

MenuPage ==
  /\ CurrentMenu(view) # 0
  /\ LET m == view.menu  s == view.slot  slots == work.menus[m].slots
     IN  \/ "useHook" \in Toggles /\ Edit([work EXCEPT !.menus[m].useHook = ~@], view)
         \/ "name" \in Toggles /\ Edit([work EXCEPT !.menus[m].named = ~@], view)
         \/ /\ work.menus[m].trigger # None
            /\ Edit([work EXCEPT !.menus[m].trigger = None], view)  \* the Clear button
         \/ /\ work.actions # <<>> /\ Len(slots) < MaxParts
            /\ LET w == WithSlots(work, m, Append(slots, work.actions[1].id))
               IN  Edit(w, RefreshMenuEditor(w, view))
         \/ /\ s # 0
            /\ LET w == WithSlots(work, m, RemoveAt(slots, s)) IN Edit(w, RefreshMenuEditor(w, view))
         \/ \E to \in {s - 1, s + 1} \cap 1 .. Len(slots) :
              /\ s # 0
              /\ LET w == WithSlots(work, m, Moved(slots, s, to))
                 IN  Edit(w, RefreshSlotActionCombo(w, [RefreshMenuEditor(w, view) EXCEPT !.slot = to]))
         \/ \E i \in DOMAIN slots : Look(RefreshSlotActionCombo(work, [view EXCEPT !.slot = i]))
         \/ \E c \in DOMAIN work.actions \ {view.slotCombo} :
              /\ s # 0
              /\ Edit(WithSlots(work, m, ReplaceAt(slots, s, work.actions[c].id)),
                      [view EXCEPT !.slotCombo = c])

ActionPage ==
  /\ CurrentAction(view) # 0
  /\ LET a == view.action  i == view.item  items == work.actions[a].items
     IN  \/ "channel" \in Toggles /\ Edit([work EXCEPT !.actions[a].channel = 1 - @], view)
         \/ \E type \in ItemTypes :
              /\ Len(items) < MaxParts
              /\ LET w == WithItems(work, a, Append(items, NewItem(work, type)))
                 IN  Edit(w, RefreshItemDetail(w, [RefreshActionEditor(w, view) EXCEPT !.item = Len(items) + 1]))
         \/ /\ i # 0
            /\ LET w == WithItems(work, a, RemoveAt(items, i)) IN Edit(w, RefreshActionEditor(w, view))
         \/ \E to \in {i - 1, i + 1} \cap 1 .. Len(items) :
              /\ i # 0
              /\ LET w == WithItems(work, a, Moved(items, i, to))
                 IN  Edit(w, RefreshItemDetail(w, [RefreshActionEditor(w, view) EXCEPT !.item = to]))
         \/ \E j \in DOMAIN items : Look(RefreshItemDetail(work, [view EXCEPT !.item = j]))
         \/ \E c \in DOMAIN work.menus \ {view.targetCombo} :
              /\ i # 0 /\ items[i].type = "menu"
              /\ Edit([work EXCEPT !.actions[a].items[i].arg = work.menus[c].id],
                      [view EXCEPT !.targetCombo = c])
         \/ /\ i # 0 /\ items[i].type = "script"
            /\ Edit([work EXCEPT !.actions[a].items[i].arg = 1 - @], view)

-----------------------------------------------------------------------------
(* Recording a trigger.                                                    *)

Record ==
  /\ panel = "shown" /\ CurrentMenu(view) # 0
  /\ ~recording
  /\ recording' = TRUE /\ capture' = TRUE
  /\ UNCHANGED <<live, work, panel, view, posted, edits>>

\* The hook takes one chord, or Escape, and posts it to the window.
HookDelivers(chord) ==
  /\ capture /\ Len(posted) < MaxPosted
  /\ capture' = FALSE
  /\ posted' = Append(posted, chord)
  /\ UNCHANGED <<live, work, panel, view, recording, edits>>

FinishTriggerRecording(chord) ==
  LET m == CurrentMenu(view)
      ok == recording /\ chord # None /\ m # 0 /\ ~Conflict(work, chord, m)
  IN  /\ recording' = FALSE
      /\ capture' = (capture /\ ~recording)
      /\ work' = IF ok THEN [work EXCEPT !.menus[m].trigger = chord,
                                         !.menus[m].useHook = @ \/ chord \in WinChords]
                 ELSE work
      /\ UNCHANGED <<live, panel, view, edits>>

FinishPosted ==
  /\ posted # <<>>
  /\ posted' = Tail(posted)
  /\ FinishTriggerRecording(Head(posted))

\* The window's own event filter, when the key reaches it.
KeyPress(chord) ==
  /\ panel = "shown" /\ recording /\ UNCHANGED posted
  /\ FinishTriggerRecording(chord)

-----------------------------------------------------------------------------
(* Opening, saving, closing.                                               *)

\* From the tray, the panel may be open already.
ShowSettingsWindow ==
  /\ panel' = "shown"
  /\ work' = live
  /\ LET v == RefreshLists(live, [view EXCEPT !.kind = "none"])
     IN  view' = IF live.menus # <<>> THEN SetSelectedMenu(live, v, 1)
                ELSE IF live.actions # <<>> THEN SetSelectedAction(live, v, 1)
                ELSE RefreshEditors(live, v)
  /\ UNCHANGED <<live, recording, capture, posted, edits>>

Save ==
  /\ panel = "shown" /\ ValidateWorkingCopy(work)
  /\ live' = work
  /\ UNCHANGED <<work, panel, view, recording, capture, posted, edits>>

\* Fault: the recorder goes on.
CloseRecording ==
  /\ panel = "shown" /\ panel' = "closed"
  /\ UNCHANGED <<live, work, view, recording, capture, posted, edits>>

Close ==
  /\ panel = "shown"
  /\ panel' = "closed" /\ recording' = FALSE
  /\ capture' = (capture /\ ~recording)
  /\ UNCHANGED <<live, work, view, posted, edits>>

\* Search from the tray hides the panel and does not close the window.
OpenSearchFromTray ==
  /\ panel = "shown"
  /\ panel' = "hidden"
  /\ UNCHANGED <<live, work, view, recording, capture, posted, edits>>

Next ==
  \/ Select \/ AddMenu \/ AddAction \/ RemoveMenu \/ RemoveAction \/ MenuPage \/ ActionPage
  \/ Record \/ FinishPosted
  \/ \E chord \in Chords \cup {None} : HookDelivers(chord) \/ KeyPress(chord)
  \/ ShowSettingsWindow \/ Save \/ Close \/ OpenSearchFromTray

Spec == Init /\ [][Next]_vars

-----------------------------------------------------------------------------
(* Properties.                                                             *)

\* Whatever is added, removed and moved, a slot names an action there is, an
\* item's target is a menu there is or has been cleared, and ids differ; so
\* what validation refuses is an item to be completed and nothing else.
\* (deleteActionReferences, clearMenuReferences, makeUnique...Id)
NoDanglingReferences ==
  /\ Cardinality(Ids(work.actions)) = Len(work.actions)
  /\ Cardinality(Ids(work.menus)) = Len(work.menus)
  /\ \A m \in DOMAIN work.menus : Range(work.menus[m].slots) \subseteq Ids(work.actions)
  /\ \A a \in DOMAIN work.actions : \A i \in DOMAIN work.actions[a].items :
       LET item == work.actions[a].items[i]
       IN  item.type = "menu" => item.arg \in Ids(work.menus) \cup {None}

\* No step gives two menus one chord while all have names, though the menu that
\* gets it is the one selected when the chord arrives, not when recording began,
\* and the window may be opened anew on what was saved.
\* (finishTriggerRecording, validateWorkingCopy)
TriggersKeptApart ==
  [][TriggersDiffer(work) /\ (\A m \in DOMAIN work.menus : work.menus[m].named)
       => TriggersDiffer(work')]_vars

\* "That keystroke is already assigned to ...": the recorder gives no menu a
\* chord that another has.
\* The code does not keep this; the README says how it fails.
TriggersUnique == TriggersDiffer(work)

\* The page is the one of the row selected, a slot or an item is selected if
\* there is one, and the combo box shows what the slot or the item has, unless
\* that was cleared: no edit goes to another row than the one in sight.
\* (refreshEditors, refreshMenuEditor, refreshActionEditor, refreshItemDetail)
EditorShowsSelection ==
  /\ view.page = "menu" =>
       /\ CurrentMenu(view) \in DOMAIN work.menus
       /\ LET slots == work.menus[view.menu].slots
          IN  /\ view.slot \in DOMAIN slots \/ (view.slot = 0 /\ slots = <<>>)
              /\ view.slot # 0 => /\ view.slotCombo \in DOMAIN work.actions
                                   /\ work.actions[view.slotCombo].id = slots[view.slot]
  /\ view.page = "action" =>
       /\ CurrentAction(view) \in DOMAIN work.actions
       /\ LET items == work.actions[view.action].items
          IN  /\ view.item \in DOMAIN items \/ (view.item = 0 /\ items = <<>>)
              /\ view.item # 0 /\ items[view.item].type = "menu" /\ items[view.item].arg # None
                   => /\ view.targetCombo \in DOMAIN work.menus
                      /\ work.menus[view.targetCombo].id = items[view.item].arg

\* A closed window records nothing: no chord typed later is taken for it, and
\* one that was on its way is dropped.  (closeEvent, finishTriggerRecording)
ClosedWindowRecordsNothing == panel = "closed" => ~recording /\ ~capture

\* "One-shot chord capture for settings recording": the hook is not armed
\* while the settings are not shown.
\* The code does not keep this; the README says how it fails.
CaptureOnlyInSettings == capture => panel = "shown"
=============================================================================
