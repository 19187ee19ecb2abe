-------------------------- MODULE MenuConfigLoader --------------------------
(***************************************************************************)
(* The configuration file of app/src/MenuConfigLoader.cpp: both schemas it *)
(* reads, the one it writes, the seeding of the user's file, and the part  *)
(* of app/src/App.cpp that loads it at startup and saves what the settings *)
(* window hands over.                                                      *)
(*                                                                         *)
(* A JSON object is a function from the names present to values; Null is a *)
(* value that has not the type the reader asks for.  Names and ids are     *)
(* sequences of lower-case words, which is what slugify leaves of a name   *)
(* between its hyphens.  Integers have Wide values, so that the conversion *)
(* of a channel between signed and unsigned is the one of the code.  Items *)
(* that exist only at run time (scroll ticks) are left out.                *)
(***************************************************************************)
EXTENDS Integers, Sequences, FiniteSets, FiniteSetsExt, Functions, Filter, TLC

CONSTANTS
  Null,
  Half,            \* half the values of a 32-bit integer
  Documents,       \* files the user writes by hand
  Bundled,         \* the template a missing file is seeded from
  Configurations,  \* what the settings window hands over
  MaxSubmits,      \* bound on the actions submitted
  CrashInSave      \* the process may die while it writes the file

Wide == 2 * Half

ASSUME LoaderAssumption ==
  /\ Half \in Nat \ {0} /\ MaxSubmits \in Nat /\ CrashInSave \in BOOLEAN

NoFields == [f \in {} |-> 0]

\* obj, with what it lacks of other.  (@@ of TLC, which the prover does not know.)
obj ++ other ==
  [f \in DOMAIN obj \cup DOMAIN other |-> IF f \in DOMAIN obj THEN obj[f] ELSE other[f]]

\* There is a value for f, and it has the type the reader asks for.
Given(obj, f) == f \in DOMAIN obj /\ obj[f] # Null

\* value("f").toX(default), for each field f of defaults.
Fields(obj, defaults) ==
  [f \in DOMAIN defaults |-> IF Given(obj, f) THEN obj[f] ELSE defaults[f]]

Without(obj, names) == Restrict(obj, DOMAIN obj \ names)

Unsigned(n) == n % Wide
Signed(u)   == IF u >= Half THEN u - Wide ELSE u

-----------------------------------------------------------------------------
(* Items.                                                                  *)

ItemDefaults ==
  [script               |-> [path |-> ""],
   launch_app           |-> [presetId |-> "custom", customTarget |-> ""],
   delay                |-> [duration |-> 0],
   keystroke            |-> [keycode |-> 0, modifiers |-> 0, holdDuration |-> 0, proceed |-> FALSE],
   close                |-> NoFields,
   menu                 |-> [menuId |-> <<>>],
   mouse_move           |-> [x |-> 0, y |-> 0],
   mouse_button         |-> [button |-> 0, modifiers |-> 0, holdDuration |-> 0, proceed |-> FALSE],
   mouse_button_release |-> [button |-> 0, modifiers |-> 0],
   mouse_scroll         |-> [dx |-> 0, dy |-> 120, modifiers |-> 0, holdDuration |-> 0,
                             proceed |-> FALSE, interval |-> 50],
   mouse_scroll_release |-> [modifiers |-> 0],
   key_release          |-> [keycode |-> 0, modifiers |-> 0],
   cancel               |-> [level |-> "latest", channel |-> 0],
   search               |-> [searchActions |-> TRUE, searchPrograms |-> TRUE, searchMenus |-> TRUE,
                             webSearch |-> TRUE, webSearchUrl |-> "google"],
   nth_recent           |-> [n |-> 1],
   nth_frequent         |-> [n |-> 1],
   socket               |-> [protocol |-> "udp", destination |-> "", message |-> "",
                             httpMethod |-> "POST"]]

Protocol(text) == CASE text \in {"tcp", "http", "websocket"} -> text
                    [] text = "ws" -> "websocket"
                    [] OTHER -> "udp"

\* A text that had another name once.
Renamed(obj, new, old) ==
  LET f == IF new \in DOMAIN obj THEN new ELSE old IN Fields(obj, [g \in {f} |-> ""])[f]

\* mouse_button with down = false was a release once.
ItemType(obj) ==
  LET type == Fields(obj, [type |-> ""]).type
  IN  IF type = "mouse_button" /\ "down" \in DOMAIN obj /\ obj.down = FALSE
      THEN "mouse_button_release" ELSE type

ParsedItem(obj) ==
  LET type == ItemType(obj)
      args == Fields(obj, ItemDefaults[type])
  IN  [type |-> type,
       args |->
         CASE type = "cancel" ->
                [level   |-> IF args.level \in {"channel", "all"} THEN args.level ELSE "latest",
                 channel |-> Unsigned(args.channel)]
           [] type = "socket" ->
                [args EXCEPT
                   !.protocol    = Protocol(@),
                   !.destination = Renamed(obj, "destination", "outputDst"),
                   !.message     = Renamed(obj, "message", "socketMsg")]
           [] OTHER -> args]

\* Items of an unknown type are dropped.
ParsedItems(objs) ==
  LET known == Only(objs, {obj \in Range(objs) : ItemType(obj) \in DOMAIN ItemDefaults})
  IN  [i \in DOMAIN known |-> ParsedItem(known[i])]

\* Fault: the method of a socket item is never written.
SavedItemNoMethod(item) == [type |-> item.type] ++ Without(item.args, {"httpMethod"})

SavedItem(item) ==
  [type |-> item.type] ++
    (CASE item.type = "cancel" /\ item.args.level = "all" -> [level |-> "all"]
       [] item.type = "cancel" /\ item.args.level # "all" ->
            [item.args EXCEPT !.channel = Signed(@)]
       [] item.type = "socket" /\ item.args.protocol # "http" -> Without(item.args, {"httpMethod"})
       [] OTHER -> item.args)

-----------------------------------------------------------------------------
(* Settings of the application, actions and menus.                         *)

PixelFields  == {"buttonRadiusPx", "innerDeadzonePx"}
RiceDefaults == [buttonRadiusFraction |-> 32, startAngleDegrees |-> 0, innerDeadzoneFraction |-> 0,
                 mouseOpenOffsetXFraction |-> 0, mouseOpenOffsetYFraction |-> 2]

\* What a menu overrides: the fields present, pixels only if they are not null.
ParsedOverrides(obj) ==
  [f \in {g \in DOMAIN obj : g \in PixelFields => obj[g] # Null} |->
     IF obj[f] = Null THEN 0 ELSE obj[f]]

ParsedRice(obj) ==
  Fields(obj, RiceDefaults) ++ Without(ParsedOverrides(obj), DOMAIN obj \ PixelFields)

AppDefaults == [darkMode |-> FALSE, startInTray |-> FALSE, themeOverlay |-> "",
                rice |-> NoFields, gameMouseCapture |-> "off"]

ParsedApp(obj) ==
  [Fields(obj, AppDefaults) EXCEPT
     !.rice = ParsedRice(@),
     !.gameMouseCapture = IF @ \in {"unclip", "stealIfLocked"} THEN @ ELSE "off"]

SavedApp(app) == IF app.themeOverlay = "" THEN Without(app, {"themeOverlay"}) ELSE app

ActionDefaults == [id |-> <<>>, name |-> <<"unnamed", "action">>, icon |-> "", channel |-> 0,
                   items |-> <<>>]

ParsedAction(obj) ==
  [Fields(obj, ActionDefaults) EXCEPT !.channel = Unsigned(@), !.items = ParsedItems(@)]

SavedAction(action) ==
  Without([action EXCEPT !.channel = Signed(@), !.items = [i \in DOMAIN @ |-> SavedItem(@[i])]],
          IF action.icon = "" THEN {"icon"} ELSE {})

Options == [executeOnRelease |-> FALSE, exitOnAction |-> FALSE, centerMouseOnOpen |-> TRUE,
            restoreMouseOnClose |-> FALSE, deferUntilExit |-> FALSE]

MenuDefaults == [id |-> <<>>, name |-> <<"unnamed", "menu">>, triggerMod |-> 0, triggerVk |-> 0,
                 useLowLevelHook |-> FALSE, actionIds |-> <<>>, rice |-> NoFields] ++ Options

ParsedMenu(obj) == [Fields(obj, MenuDefaults) EXCEPT !.rice = ParsedOverrides(@)]

SavedMenu(menu) == Without(menu, IF menu.rice = NoFields THEN {"rice"} ELSE {})

-----------------------------------------------------------------------------
(* The older schema, where menus own their actions.                        *)

\* QString::number.
Numeral(n) == ToString(n)

Slug(words, prefix) == <<prefix>> \o (IF words = <<>> THEN <<prefix>> ELSE words)

\* Fault: the first suffix is taken to be free.
UniqueIdSecond(words, prefix, existing) ==
  LET id == Slug(words, prefix)
  IN  IF id \in existing THEN Append(id, "2") ELSE id

UniqueId(words, prefix, existing) ==
  LET id   == Slug(words, prefix)
      free == {n \in 2 .. Cardinality(existing) + 2 : Append(id, Numeral(n)) \notin existing}
  IN  IF id \in existing THEN Append(id, Numeral(Min(free))) ELSE id

Ids(elems) == {elems[i].id : i \in DOMAIN elems}

\* An action of an older menu, after those lifted before it.
LiftedAction(actions, menuId, obj) ==
  LET read == Fields(obj, [name |-> <<"unnamed", "action">>, type |-> "", path |-> ""])
  IN  [ActionDefaults EXCEPT
         !.id    = UniqueId(menuId \o read.name, "action", Ids(actions)),
         !.name  = read.name,
         !.items = IF read.type # "script" THEN <<>>
                   ELSE <<[type |-> "launch_app",
                           args |-> [presetId |-> "custom", customTarget |-> read.path]]>>]

LiftedActions(actions, menuId, objs) ==
  LET lifted[n \in 0 .. Len(objs)] ==
        IF n = 0 THEN actions
        ELSE Append(lifted[n - 1], LiftedAction(lifted[n - 1], menuId, objs[n]))
  IN  lifted[Len(objs)]

OldActions(obj) == Fields(obj, [actions |-> <<>>]).actions

LiftedMenu(lib, obj) ==
  LET id      == UniqueId(Fields(obj, [name |-> <<"menu">>]).name, "menu", Ids(lib.menus))
      actions == LiftedActions(lib.actions, id, OldActions(obj))
      slots   == [i \in DOMAIN OldActions(obj) |-> actions[Len(lib.actions) + i].id]
  IN  [actions |-> actions,
       menus   |-> Append(lib.menus,
                     Fields(obj, Options ++ [name |-> MenuDefaults.name])
                       ++ [id |-> id, actionIds |-> slots] ++ MenuDefaults)]

Empty == [actions |-> <<>>, menus |-> <<>>]

LiftedMenus(objs) ==
  LET lifted[n \in 0 .. Len(objs)] ==
        IF n = 0 THEN Empty ELSE LiftedMenu(lifted[n - 1], objs[n])
  IN  lifted[Len(objs)]

-----------------------------------------------------------------------------
(* Files.                                                                  *)

Legacy(doc) == "actions" \notin DOMAIN doc

\* loadConfig: the application's settings are read even if the rest is not.
Loaded(file) ==
  LET doc  == IF file.state = "good" THEN file.doc ELSE NoFields
      read == Fields(doc, Empty)
      lib  == IF read.menus = <<>> THEN Empty
              ELSE IF Legacy(doc) THEN LiftedMenus(read.menus)
              ELSE [actions |-> [i \in DOMAIN read.actions |-> ParsedAction(read.actions[i])],
                    menus   |-> [i \in DOMAIN read.menus |-> ParsedMenu(read.menus[i])]]
  IN  [ok |-> read.menus # <<>>, config |-> [app |-> ParsedApp(doc)] ++ lib]

Saved(config) ==
  SavedApp(config.app) ++
    [actions |-> [i \in DOMAIN config.actions |-> SavedAction(config.actions[i])],
     menus   |-> [i \in DOMAIN config.menus |-> SavedMenu(config.menus[i])]]

ConfigMissing ==
  [actions |-> <<[ActionDefaults EXCEPT !.id = <<"config", "missing">>,
                                        !.items = <<[type |-> "close", args |-> NoFields]>>]>>,
   menus   |-> <<[MenuDefaults EXCEPT !.id = <<"config", "error">>,
                                      !.actionIds = <<<<"config", "missing">>>>]>>]

-----------------------------------------------------------------------------
(* What may stand in a file, and in a configuration of the settings window *)
(* or of a file that was read.                                             *)

IsSequence(v) == v \in Seq(Range(v))

\* A cast of a number, an array of objects, a name: where the reader takes a
\* value for what it is.
ReadableItem(obj) == ItemType(obj) = "cancel" /\ Given(obj, "channel") => obj.channel \in Int

ReadableAction(obj) ==
  /\ Given(obj, "channel") => obj.channel \in Int
  /\ Given(obj, "items") =>
       IsSequence(obj.items) /\ \A i \in DOMAIN obj.items : ReadableItem(obj.items[i])

ReadableOldMenu(obj) ==
  /\ Given(obj, "name") => IsSequence(obj.name)
  /\ Given(obj, "actions") =>
       /\ IsSequence(obj.actions)
       /\ \A i \in DOMAIN obj.actions :
            Given(obj.actions[i], "name") => IsSequence(obj.actions[i].name)

Readable(doc) ==
  /\ Given(doc, "actions") =>
       IsSequence(doc.actions) /\ \A i \in DOMAIN doc.actions : ReadableAction(doc.actions[i])
  /\ Given(doc, "menus") =>
       /\ IsSequence(doc.menus)
       /\ Legacy(doc) => \A i \in DOMAIN doc.menus : ReadableOldMenu(doc.menus[i])

Filled(obj) == \A f \in DOMAIN obj : obj[f] # Null

\* The fields of defaults, each with a value.
Complete(obj, defaults) == obj = [f \in DOMAIN defaults |-> obj[f]] /\ Filled(obj)

SoundItem(item) ==
  /\ item = [type |-> item.type, args |-> item.args]
  /\ item.type \in DOMAIN ItemDefaults /\ Complete(item.args, ItemDefaults[item.type])
  /\ item.type = "cancel" =>
       item.args.level \in {"latest", "channel", "all"} /\ item.args.channel \in 0 .. Wide - 1
  /\ item.type = "socket" => item.args.protocol \in {"udp", "tcp", "http", "websocket"}

SoundAction(action) ==
  /\ Complete(action, ActionDefaults) /\ action.channel \in 0 .. Wide - 1
  /\ IsSequence(action.items) /\ \A i \in DOMAIN action.items : SoundItem(action.items[i])

SoundMenu(menu) ==
  Complete(menu, MenuDefaults) /\ Complete(menu.rice, menu.rice)

SoundApp(a) ==
  /\ Complete(a, AppDefaults) /\ a.gameMouseCapture \in {"off", "unclip", "stealIfLocked"}
  /\ Complete(a.rice, a.rice) /\ DOMAIN RiceDefaults \subseteq DOMAIN a.rice
  /\ DOMAIN a.rice \subseteq DOMAIN RiceDefaults \cup PixelFields

Sound(c) ==
  /\ c = [app |-> c.app, actions |-> c.actions, menus |-> c.menus]
  /\ SoundApp(c.app)
  /\ IsSequence(c.actions) /\ \A i \in DOMAIN c.actions : SoundAction(c.actions[i])
  /\ IsSequence(c.menus) /\ \A i \in DOMAIN c.menus : SoundMenu(c.menus[i])

ASSUME NullAssumption ==
  /\ \A type \in DOMAIN ItemDefaults : Filled(ItemDefaults[type])
  /\ Filled(RiceDefaults) /\ Filled(AppDefaults) /\ Filled(ActionDefaults) /\ Filled(MenuDefaults)
  /\ Null \notin DOMAIN ItemDefaults /\ Null # "websocket" /\ Null \notin Int

ASSUME DocumentsAssumption ==
  Readable(Bundled) /\ \A doc \in Documents : Readable(doc)

ASSUME ConfigurationsAssumption == \A c \in Configurations : Sound(c)

\* As long as the settings window deletes the last menu of no configuration.
MenusLeft == \A c \in Configurations : c.menus # <<>>

\* As long as the channels are those the spin box offers, and private keys do
\* not wrap around to them.
UserChannels(actions) ==
  \A i \in DOMAIN actions : Given(actions[i], "channel") => actions[i].channel \in 0 .. Half - 1

ChannelsInRange ==
  /\ MaxSubmits <= Half
  /\ \A doc \in Documents \cup {Bundled} : Given(doc, "actions") => UserChannels(doc.actions)
  /\ \A c \in Configurations : UserChannels(c.actions)

VARIABLES
  file,        \* the user's configuration file
  app,         \* "down", "up", or "writing" the file
  config,      \* m_appConfig, m_actionLibrary and m_loadedMenus
  kept,        \* what was saved last: no configuration or one
  nextPrivate, \* m_nextPrivateChannel
  inFlight     \* actions submitted and not done: their place, channel and key

vars == <<file, app, config, kept, nextPrivate, inFlight>>

Init ==
  /\ file = [state |-> "missing", doc |-> NoFields]
  /\ app = "down"
  /\ config = [app |-> ParsedApp(NoFields)] ++ Empty
  /\ kept = <<>>
  /\ nextPrivate = Half /\ inFlight = <<>>

\* The user writes the file, or spoils it.
EditFile ==
  /\ app = "down"
  /\ \/ \E doc \in Documents : file' = [state |-> "good", doc |-> doc]
     \/ file' = [state |-> "torn", doc |-> NoFields]
  /\ kept' = <<>>
  /\ UNCHANGED <<app, config, nextPrivate, inFlight>>

\* A missing file is copied from the template, if a copy of that is found.
Start ==
  /\ app = "down"
  /\ \/ file' = file
     \/ file.state = "missing" /\ file' = [state |-> "good", doc |-> Bundled]
  /\ LET loaded == Loaded(file')
     IN  config' = IF loaded.ok THEN loaded.config ELSE [app |-> loaded.config.app] ++ ConfigMissing
  /\ app' = "up"
  /\ nextPrivate' = Half /\ inFlight' = <<>>
  /\ UNCHANGED kept

\* The settings are saved, changed or as they are.  What is submitted stays in
\* flight until its cancellation is noticed.
ApplyConfig ==
  /\ app = "up"
  /\ \E c \in Configurations \cup {config} :
       /\ config' = c
       /\ \/ app' = "writing" /\ file' = [file EXCEPT !.state = "torn"]
          \/ UNCHANGED <<app, file>>                   \* it cannot be opened
  /\ UNCHANGED <<kept, nextPrivate, inFlight>>

FinishSave ==
  /\ app = "writing"
  /\ app' = "up"
  /\ file' = [state |-> "good", doc |-> Saved(config)]
  /\ kept' = <<config>>
  /\ UNCHANGED <<config, nextPrivate, inFlight>>

\* The application ends, at rest or, if it dies, while it saves.
Stop ==
  /\ app = "up" \/ (CrashInSave /\ app = "writing")
  /\ app' = "down"
  /\ UNCHANGED <<file, config, kept, nextPrivate, inFlight>>

\* Fault: channel 0 is a channel like the others.
ResolveKeyPlain(channel) == [key |-> channel, next |-> nextPrivate]

ResolveKey(channel) ==
  IF channel = 0 THEN [key |-> nextPrivate, next |-> Unsigned(nextPrivate + 1)]
  ELSE [key |-> channel, next |-> nextPrivate]

Submit ==
  /\ app = "up" /\ Len(inFlight) < MaxSubmits
  /\ \E i \in DOMAIN config.actions :
       LET channel == config.actions[i].channel
           to      == ResolveKey(channel)
       IN  /\ inFlight' = Append(inFlight, [channel |-> channel, key |-> to.key])
           /\ nextPrivate' = to.next
  /\ UNCHANGED <<file, app, config, kept>>

Next == EditFile \/ Start \/ ApplyConfig \/ FinishSave \/ Stop \/ Submit

Spec == Init /\ [][Next]_vars

-----------------------------------------------------------------------------
(* Properties.                                                             *)

\* What a cancel-all's channel and the method of a socket that is not HTTP
\* become does not matter: no code reads them.
NormalItem(item) ==
  CASE item.type = "cancel" /\ item.args.level = "all" -> [item EXCEPT !.args.channel = 0]
    [] item.type = "socket" /\ item.args.protocol # "http" -> [item EXCEPT !.args.httpMethod = "POST"]
    [] OTHER -> item

NormalAction(action) ==
  [action EXCEPT !.items = [i \in DOMAIN action.items |-> NormalItem(action.items[i])]]

Normal(c) == [c EXCEPT !.actions = [i \in DOMAIN c.actions |-> NormalAction(c.actions[i])]]

\* "User settings are saved": what was saved last is what the next start
\* loads, whichever schema it came from and whatever was left out of the file.
\* (saveConfig, loadConfig)
ReloadsWhatWasSaved ==
  app # "writing" /\ kept # <<>> =>
    /\ Loaded(file).ok
    /\ Normal(Loaded(file).config) = Normal(kept[1])

\* A file of the older schema loses no action: ids are unique among menus and
\* among actions, and every slot has the action that stood there.
\* (loadLegacySchema, makeUniqueId)
LegacyActionsKept ==
  app = "up" /\ file.state = "good" /\ Loaded(file).ok /\ Legacy(file.doc) =>
    LET lib == Loaded(file).config
    IN  /\ Cardinality(Ids(lib.menus)) = Len(file.doc.menus)
        /\ Cardinality(Ids(lib.actions)) = Len(lib.actions)
        /\ \A m \in DOMAIN lib.menus :
             LET old == OldActions(file.doc.menus[m])
             IN  /\ Len(lib.menus[m].actionIds) = Len(old)
                 /\ \A s \in DOMAIN old : \E a \in DOMAIN lib.actions :
                      /\ lib.actions[a].id = lib.menus[m].actionIds[s]
                      /\ "name" \in DOMAIN old[s] /\ old[s].name # Null => lib.actions[a].name = old[s].name

\* "Channel 0 maps each Action to a private key so those Actions never block
\* one another": two actions in flight share a key only if both ask for the
\* same channel of the user's.  (ChannelManager::resolveKey)
PrivateKeysApart ==
  \A i, j \in DOMAIN inFlight :
    i # j /\ inFlight[i].key = inFlight[j].key =>
      inFlight[i].channel # 0 /\ inFlight[i].channel = inFlight[j].channel
=============================================================================
