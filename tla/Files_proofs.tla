---------------------------- MODULE Files_proofs ----------------------------
(* The two files of the application.  The configuration: for every document *)
(* of either schema, every configuration of the settings window, and any    *)
(* edits, starts and saves.  The history: for every library, size and       *)
(* number of uses.                                                          *)
EXTENDS MCFiles, Filter_proofs, FiniteSetTheorems

-----------------------------------------------------------------------------
(* Objects.                                                                *)

IsObject(v) == v = [f \in DOMAIN v |-> v[f]]

\* A merge has the fields of both; the first decides.
LEMMA Merge ==
  ASSUME NEW a, NEW b
  PROVE  /\ IsObject(a ++ b) /\ DOMAIN (a ++ b) = DOMAIN a \cup DOMAIN b
         /\ \A f \in DOMAIN a : (a ++ b)[f] = a[f]
         /\ \A f \in DOMAIN b \ DOMAIN a : (a ++ b)[f] = b[f]
  BY DEF ++, IsObject

LEMMA WithoutFields ==
  ASSUME NEW obj, NEW names
  PROVE  /\ DOMAIN Without(obj, names) = DOMAIN obj \ names
         /\ \A f \in DOMAIN obj \ names : Without(obj, names)[f] = obj[f]
  BY DEF Without, Restrict

LEMMA FieldsRead ==
  ASSUME NEW obj, NEW defaults
  PROVE  /\ IsObject(Fields(obj, defaults)) /\ DOMAIN Fields(obj, defaults) = DOMAIN defaults
         /\ \A f \in DOMAIN defaults :
              Fields(obj, defaults)[f] = IF Given(obj, f) THEN obj[f] ELSE defaults[f]
  BY DEF Fields, IsObject

\* Two objects that agree on every field are one.
LEMMA SameObject ==
  ASSUME NEW a, NEW b, IsObject(a), IsObject(b), DOMAIN a = DOMAIN b,
         \A f \in DOMAIN a : a[f] = b[f]
  PROVE  a = b
  BY DEF IsObject

\* What is read with defaults that are values is complete.
LEMMA FieldsComplete ==
  ASSUME NEW obj, NEW defaults, Filled(defaults)
  PROVE  Complete(Fields(obj, defaults), defaults)
  BY DEF Fields, Complete, Filled, Given

LEMMA CompleteObject ==
  ASSUME NEW obj, NEW defaults, Complete(obj, defaults)
  PROVE  /\ IsObject(obj) /\ DOMAIN obj = DOMAIN defaults
         /\ \A f \in DOMAIN defaults : obj[f] # Null
  BY DEF Complete, Filled, IsObject

\* What is complete is read back, from an object that says the same of the
\* fields it has, and lacks others only at their defaults.
LEMMA ReadBack ==
  ASSUME NEW obj, NEW defaults, NEW whole, Complete(whole, defaults),
         \A f \in DOMAIN defaults :
           IF f \in DOMAIN obj THEN obj[f] = whole[f] ELSE whole[f] = defaults[f]
  PROVE  Fields(obj, defaults) = whole
<1>1. /\ IsObject(whole) /\ DOMAIN whole = DOMAIN defaults
      /\ \A f \in DOMAIN defaults : whole[f] # Null
  BY CompleteObject
<1>2. /\ IsObject(Fields(obj, defaults)) /\ DOMAIN Fields(obj, defaults) = DOMAIN defaults
      /\ \A f \in DOMAIN defaults :
           Fields(obj, defaults)[f] = IF Given(obj, f) THEN obj[f] ELSE defaults[f]
  BY FieldsRead
<1>3. ASSUME NEW f \in DOMAIN defaults PROVE Fields(obj, defaults)[f] = whole[f]
  BY <1>1, <1>2 DEF Given
<1> QED BY <1>1, <1>2, <1>3, SameObject

-----------------------------------------------------------------------------
(* Sequences of anything.                                                  *)

LEMMA RangeIs ==
  ASSUME NEW s
  PROVE  \A i \in DOMAIN s : s[i] \in Range(s)
  BY DEF Range

LEMMA SequenceOf ==
  ASSUME NEW T, NEW s \in Seq(T)
  PROVE  IsSequence(s)
<1>1. DOMAIN s = 1 .. Len(s) /\ Len(s) \in Nat /\ s = [i \in 1 .. Len(s) |-> s[i]]
  OBVIOUS
<1>2. s \in [1 .. Len(s) -> Range(s)]
  BY <1>1, RangeIs
<1>3. s \in Seq(Range(s))
  BY <1>1, <1>2
<1> QED BY <1>3 DEF IsSequence

LEMMA SequenceIs ==
  ASSUME NEW s, IsSequence(s)
  PROVE  /\ s \in Seq(Range(s)) /\ Len(s) \in Nat /\ DOMAIN s = 1 .. Len(s)
         /\ IsObject(s)
<1>1. s \in Seq(Range(s))
  BY DEF IsSequence
<1> QED BY <1>1 DEF IsObject

LEMMA SequenceBuilt ==
  ASSUME NEW n \in Nat, NEW s, IsObject(s), DOMAIN s = 1 .. n
  PROVE  IsSequence(s) /\ Len(s) = n
<1>1. s \in [1 .. n -> Range(s)]
  BY RangeIs DEF IsObject
<1>2. s \in Seq(Range(s)) /\ Len(s) = n
  BY <1>1
<1> QED BY <1>2 DEF IsSequence

\* A sequence within a larger set.
LEMMA SequenceWithin ==
  ASSUME NEW s, IsSequence(s), NEW T, Range(s) \subseteq T
  PROVE  s \in Seq(T)
<1>1. /\ s \in Seq(Range(s)) /\ Len(s) \in Nat /\ DOMAIN s = 1 .. Len(s) /\ IsObject(s)
  BY SequenceIs
<1>2. s \in [1 .. Len(s) -> T]
  BY <1>1, RangeIs DEF IsObject
<1> QED BY <1>1, <1>2

LEMMA AppendIs ==
  ASSUME NEW s, IsSequence(s), NEW x
  PROVE  /\ IsSequence(Append(s, x)) /\ Len(Append(s, x)) = Len(s) + 1
         /\ DOMAIN Append(s, x) = 1 .. Len(s) + 1
         /\ \A i \in 1 .. Len(s) : Append(s, x)[i] = s[i]
         /\ Append(s, x)[Len(s) + 1] = x
<1> DEFINE T == Range(s) \cup {x}
<1>1. s \in Seq(T) /\ x \in T
  BY SequenceWithin
<1> HIDE DEF T
<1>2. Append(s, x) \in Seq(T)
  BY <1>1
<1>3. IsSequence(Append(s, x))
  BY <1>2, SequenceOf
<1> QED BY <1>1, <1>2, <1>3, AppendProperties

LEMMA ConcatIs ==
  ASSUME NEW s, IsSequence(s), NEW t, IsSequence(t)
  PROVE  /\ IsSequence(s \o t) /\ Len(s \o t) = Len(s) + Len(t)
         /\ \A i \in 1 .. Len(s) : (s \o t)[i] = s[i]
         /\ \A i \in 1 .. Len(t) : (s \o t)[Len(s) + i] = t[i]
<1> DEFINE T == Range(s) \cup Range(t)
<1>1. s \in Seq(T) /\ t \in Seq(T)
  BY SequenceWithin
<1> HIDE DEF T
<1>2. s \o t \in Seq(T) /\ Len(s) \in Nat /\ Len(t) \in Nat
  BY <1>1
<1>3. IsSequence(s \o t)
  BY <1>2, SequenceOf
<1>4. ASSUME NEW i \in 1 .. Len(s) PROVE (s \o t)[i] = s[i]
  BY <1>1, <1>2, ConcatProperties
<1>5. ASSUME NEW i \in 1 .. Len(t) PROVE (s \o t)[Len(s) + i] = t[i]
  BY <1>1, <1>2, ConcatProperties
<1> QED BY <1>1, <1>3, <1>4, <1>5, ConcatProperties

-----------------------------------------------------------------------------
(* Items.                                                                  *)

USE DEF Given

\* No item has a field of these names.
LEMMA ItemFields ==
  ASSUME NEW type \in DOMAIN ItemDefaults
  PROVE  {"type", "down"} \cap DOMAIN ItemDefaults[type] = {}
<1>1. DOMAIN ItemDefaults =
        {"script", "launch_app", "delay", "keystroke", "close", "menu", "mouse_move", "mouse_button",
         "mouse_button_release", "mouse_scroll", "mouse_scroll_release", "key_release", "cancel",
         "search", "nth_recent", "nth_frequent", "socket"}
  BY DEF ItemDefaults
<1>2. /\ DOMAIN ItemDefaults["script"] = {"path"}
      /\ DOMAIN ItemDefaults["launch_app"] = {"presetId", "customTarget"}
      /\ DOMAIN ItemDefaults["delay"] = {"duration"}
      /\ DOMAIN ItemDefaults["keystroke"] = {"keycode", "modifiers", "holdDuration", "proceed"}
  BY DEF ItemDefaults, NoFields
<1>3. /\ DOMAIN ItemDefaults["close"] = {}
      /\ DOMAIN ItemDefaults["menu"] = {"menuId"}
      /\ DOMAIN ItemDefaults["mouse_move"] = {"x", "y"}
      /\ DOMAIN ItemDefaults["mouse_button"] = {"button", "modifiers", "holdDuration", "proceed"}
  BY DEF ItemDefaults, NoFields
<1>4. /\ DOMAIN ItemDefaults["mouse_button_release"] = {"button", "modifiers"}
      /\ DOMAIN ItemDefaults["mouse_scroll"] = {"dx", "dy", "modifiers", "holdDuration", "proceed", "interval"}
      /\ DOMAIN ItemDefaults["mouse_scroll_release"] = {"modifiers"}
      /\ DOMAIN ItemDefaults["key_release"] = {"keycode", "modifiers"}
  BY DEF ItemDefaults, NoFields
<1>5. /\ DOMAIN ItemDefaults["cancel"] = {"level", "channel"}
      /\ DOMAIN ItemDefaults["search"] = {"searchActions", "searchPrograms", "searchMenus", "webSearch", "webSearchUrl"}
      /\ DOMAIN ItemDefaults["nth_recent"] = {"n"}
      /\ DOMAIN ItemDefaults["nth_frequent"] = {"n"}
  BY DEF ItemDefaults, NoFields
<1>6. /\ DOMAIN ItemDefaults["socket"] = {"protocol", "destination", "message", "httpMethod"}
  BY DEF ItemDefaults, NoFields
<1> QED BY <1>1, <1>2, <1>3, <1>4, <1>5, <1>6

LEMMA ItemNames ==
  /\ {"cancel", "socket", "launch_app", "close"} \subseteq DOMAIN ItemDefaults
  /\ "" \notin DOMAIN ItemDefaults
  BY DEF ItemDefaults

LEMMA CancelDefaults ==
  ItemDefaults["cancel"] = [level |-> "latest", channel |-> 0]
  BY DEF ItemDefaults

LEMMA SocketDefaults ==
  ItemDefaults["socket"] =
    [protocol |-> "udp", destination |-> "", message |-> "", httpMethod |-> "POST"]
  BY DEF ItemDefaults

LEMMA SocketMethod ==
  ItemDefaults["socket"].httpMethod = "POST"
  BY DEF ItemDefaults

LEMMA LaunchDefaults ==
  ItemDefaults["launch_app"] = [presetId |-> "custom", customTarget |-> ""]
  BY DEF ItemDefaults

LEMMA CloseDefaults ==
  ItemDefaults["close"] = NoFields
  BY DEF ItemDefaults

LEMMA Casts ==
  /\ Wide \in Nat /\ Half \in Nat /\ Half < Wide /\ 0 \in 0 .. Wide - 1
  /\ \A n \in Int : Unsigned(n) \in 0 .. Wide - 1
  /\ \A u \in 0 .. Wide - 1 : Signed(u) \in Int /\ Unsigned(Signed(u)) = u
  /\ Unsigned(0) = 0
<1>1. Half \in Nat /\ Half > 0 /\ Wide = 2 * Half
  BY LoaderAssumption DEF Wide
<1>2. Wide \in Nat /\ Half < Wide /\ Wide > 0
  BY <1>1
<1> HIDE DEF Wide
<1>3. \A n \in Int : Unsigned(n) \in 0 .. Wide - 1
  BY <1>2 DEF Unsigned
<1>4. ASSUME NEW u \in 0 .. Wide - 1 PROVE Signed(u) \in Int /\ Unsigned(Signed(u)) = u
  <2>1. u \in Int /\ u % Wide = u
    BY <1>2
  <2>2. (u - Wide) % Wide = u
    BY <1>2
  <2> QED BY <1>1, <1>2, <2>1, <2>2 DEF Signed, Unsigned
<1>5. Unsigned(0) = 0
  BY <1>2 DEF Unsigned
<1> QED BY <1>1, <1>2, <1>3, <1>4, <1>5

LEMMA TypeRead ==
  ASSUME NEW obj
  PROVE  LET type == IF Given(obj, "type") THEN obj.type ELSE ""
         IN  ItemType(obj) = IF type = "mouse_button" /\ "down" \in DOMAIN obj /\ obj.down = FALSE
                             THEN "mouse_button_release" ELSE type
  BY DEF ItemType, Fields

\* How an item is read, by its type.
LEMMA ParsedIs ==
  ASSUME NEW obj
  PROVE  /\ ParsedItem(obj) = [type |-> ParsedItem(obj).type, args |-> ParsedItem(obj).args]
         /\ ParsedItem(obj).type = ItemType(obj)
  BY DEF ParsedItem

LEMMA ParsedCancel ==
  ASSUME NEW obj, ItemType(obj) = "cancel", NEW args, args = Fields(obj, ItemDefaults["cancel"])
  PROVE  ParsedItem(obj).args =
           [level   |-> IF args.level \in {"channel", "all"} THEN args.level ELSE "latest",
            channel |-> Unsigned(args.channel)]
  BY DEF ParsedItem

LEMMA ParsedSocket ==
  ASSUME NEW obj, ItemType(obj) = "socket", NEW args, args = Fields(obj, ItemDefaults["socket"])
  PROVE  ParsedItem(obj).args =
           [args EXCEPT !.protocol    = Protocol(args.protocol),
                        !.destination = Renamed(obj, "destination", "outputDst"),
                        !.message     = Renamed(obj, "message", "socketMsg")]
  BY DEF ParsedItem

LEMMA ParsedOther ==
  ASSUME NEW obj, ItemType(obj) \notin {"cancel", "socket"}
  PROVE  ParsedItem(obj).args = Fields(obj, ItemDefaults[ItemType(obj)])
  BY DEF ParsedItem

LEMMA Protocols ==
  /\ \A p \in {"udp", "tcp", "http", "websocket"} : Protocol(p) = p
  /\ \A p : Protocol(p) \in {"udp", "tcp", "http", "websocket"}
  BY DEF Protocol

LEMMA RenamedRead ==
  ASSUME NEW obj, NEW new, NEW old, Null # ""
  PROVE  /\ Renamed(obj, new, old) # Null
         /\ new \in DOMAIN obj /\ obj[new] # Null => Renamed(obj, new, old) = obj[new]
  BY DEF Renamed, Fields

LEMMA NoNulls ==
  /\ \A type \in DOMAIN ItemDefaults : Filled(ItemDefaults[type]) /\ type # Null
  /\ Null # "" /\ Null # "latest" /\ Null # "udp" /\ Null # "websocket" /\ Null # 0 /\ Null # "custom"
  /\ Null \notin Int /\ Null \notin 0 .. Wide - 1
  /\ Filled(RiceDefaults) /\ Filled(AppDefaults) /\ Filled(ActionDefaults) /\ Filled(MenuDefaults)
<1>1. /\ \A type \in DOMAIN ItemDefaults : Filled(ItemDefaults[type]) /\ type # Null
      /\ Null # "websocket" /\ Null \notin Int
      /\ Filled(RiceDefaults) /\ Filled(AppDefaults) /\ Filled(ActionDefaults) /\ Filled(MenuDefaults)
  BY NullAssumption
<1>2. /\ Filled([level |-> "latest", channel |-> 0])
      /\ Filled([protocol |-> "udp", destination |-> "", message |-> "", httpMethod |-> "POST"])
      /\ Filled([presetId |-> "custom", customTarget |-> ""])
  BY <1>1, ItemNames, CancelDefaults, SocketDefaults, LaunchDefaults
<1>3. Null # "latest" /\ Null # 0
  BY <1>2 DEF Filled
<1>4. Null # "udp" /\ Null # ""
  BY <1>2 DEF Filled
<1>5. Null # "custom"
  BY <1>2 DEF Filled
<1>6. Null \notin 0 .. Wide - 1
  BY <1>1, Casts
<1> QED BY <1>1, <1>3, <1>4, <1>5, <1>6

\* What is read of an item of a known type is sound.
LEMMA CancelSound ==
  ASSUME NEW obj, ReadableItem(obj), ItemType(obj) = "cancel"
  PROVE  SoundItem(ParsedItem(obj))
<1> DEFINE args == Fields(obj, ItemDefaults["cancel"])
           item == ParsedItem(obj)
<1>1. item.args = [level   |-> IF args.level \in {"channel", "all"} THEN args.level ELSE "latest",
                   channel |-> Unsigned(args.channel)]
  BY ParsedCancel
<1>2. Complete(args, ItemDefaults["cancel"])
  BY NoNulls, FieldsComplete, ItemNames
<1>3. args.level # Null
  BY <1>2, CompleteObject, CancelDefaults
<1>4. args.channel = IF Given(obj, "channel") THEN obj.channel ELSE 0
  BY CancelDefaults, FieldsRead
<1>5. args.channel \in Int
  BY <1>4 DEF ReadableItem
<1>6. item = [type |-> item.type, args |-> item.args] /\ item.type = "cancel"
  BY ParsedIs
<1> HIDE DEF args, item
<1>7. Unsigned(args.channel) \in 0 .. Wide - 1
  BY <1>5, Casts
<1>8. item.args.level \in {"latest", "channel", "all"} /\ item.args.channel \in 0 .. Wide - 1
  BY <1>1, <1>7
<1>9. item.args.level # Null /\ item.args.channel # Null
  <2>1. item.args.channel # Null
    BY <1>8, NoNulls
  <2>2. item.args.level \in {args.level, "latest"}
    BY <1>1
  <2> QED BY <1>3, <2>1, <2>2, NoNulls
<1>10. Complete(item.args, ItemDefaults["cancel"])
  BY <1>1, <1>9, CancelDefaults DEF Complete, Filled
<1>11. SoundItem(item)
  BY <1>6, <1>8, <1>10, ItemNames DEF SoundItem
<1> QED BY <1>11 DEF item

LEMMA SocketSound ==
  ASSUME NEW obj, ItemType(obj) = "socket"
  PROVE  SoundItem(ParsedItem(obj))
<1> DEFINE args == Fields(obj, ItemDefaults["socket"])
           item == ParsedItem(obj)
           protocol == Protocol(args.protocol)
           destination == Renamed(obj, "destination", "outputDst")
           message == Renamed(obj, "message", "socketMsg")
<1>1. item.args = [args EXCEPT !.protocol = protocol, !.destination = destination, !.message = message]
  BY ParsedSocket
<1>2. Complete(args, ItemDefaults["socket"])
  BY NoNulls, FieldsComplete, ItemNames
<1>3. /\ IsObject(args) /\ DOMAIN args = {"protocol", "destination", "message", "httpMethod"}
      /\ DOMAIN ItemDefaults["socket"] = DOMAIN args
      /\ args.protocol # Null /\ args.httpMethod # Null
  <2>1. DOMAIN ItemDefaults["socket"] = {"protocol", "destination", "message", "httpMethod"}
    BY SocketDefaults
  <2> HIDE DEF args
  <2> QED BY <1>2, <2>1, CompleteObject
<1>4. item = [type |-> item.type, args |-> item.args] /\ item.type = "socket"
  BY ParsedIs
<1>5. protocol \in {"udp", "tcp", "http", "websocket"} /\ protocol # Null
  <2>1. protocol \in {args.protocol, "websocket", "udp"}
    BY DEF Protocol
  <2> QED BY <1>3, <2>1, NoNulls, Protocols
<1>6. destination # Null /\ message # Null
  BY RenamedRead, NoNulls
<1> HIDE DEF args, item, protocol, destination, message
<1>7. /\ item.args.protocol = protocol /\ item.args.destination = destination
      /\ item.args.message = message /\ item.args.httpMethod = args.httpMethod
      /\ IsObject(item.args) /\ DOMAIN item.args = DOMAIN args
  BY <1>1, <1>3 DEF IsObject
<1>8. \A f \in DOMAIN item.args : item.args[f] # Null
  BY <1>3, <1>5, <1>6, <1>7
<1>9. Complete(item.args, ItemDefaults["socket"])
  BY <1>3, <1>7, <1>8 DEF Complete, Filled, IsObject
<1>10. SoundItem(item)
  BY <1>4, <1>5, <1>7, <1>9, ItemNames DEF SoundItem
<1> QED BY <1>10 DEF item

LEMMA ParsedItemSound ==
  ASSUME NEW obj, ReadableItem(obj), ItemType(obj) \in DOMAIN ItemDefaults
  PROVE  SoundItem(ParsedItem(obj))
<1>1. CASE ItemType(obj) \notin {"cancel", "socket"}
  <2> DEFINE item == ParsedItem(obj)
             type == ItemType(obj)
  <2>1. item.args = Fields(obj, ItemDefaults[type])
    BY <1>1, ParsedOther
  <2>2. Complete(item.args, ItemDefaults[type])
    BY <2>1, NoNulls, FieldsComplete
  <2>3. item = [type |-> item.type, args |-> item.args] /\ item.type = type
    BY ParsedIs
  <2>4. type \in DOMAIN ItemDefaults /\ type # "cancel" /\ type # "socket"
    BY <1>1
  <2> HIDE DEF item, type
  <2>5. SoundItem(item)
    BY <2>2, <2>3, <2>4 DEF SoundItem
  <2> QED BY <2>5 DEF item
<1> QED BY <1>1, CancelSound, SocketSound

\* An item as it is written: its type, and its arguments but for what is left
\* out or cast.
Tagged(type, args) == [type |-> type] ++ args

LEMMA TaggedType ==
  ASSUME NEW type \in DOMAIN ItemDefaults, NEW args, DOMAIN args \subseteq DOMAIN ItemDefaults[type]
  PROVE  /\ ItemType(Tagged(type, args)) = type
         /\ DOMAIN Tagged(type, args) = {"type"} \cup DOMAIN args
         /\ \A f \in DOMAIN args : Tagged(type, args)[f] = args[f]
<1>1. "type" \notin DOMAIN args /\ "down" \notin DOMAIN args
  BY ItemFields
<1>2. /\ DOMAIN Tagged(type, args) = {"type"} \cup DOMAIN args
      /\ Tagged(type, args)["type"] = type
      /\ \A f \in DOMAIN args : Tagged(type, args)[f] = args[f]
  BY <1>1 DEF Tagged, ++
<1>3. type # Null
  BY NoNulls
<1>4. ItemType(Tagged(type, args)) = type
  BY <1>1, <1>2, <1>3, TypeRead
<1> QED BY <1>2, <1>4

LEMMA SavedAs ==
  ASSUME NEW item
  PROVE  /\ item.type = "cancel" /\ item.args.level = "all" =>
              SavedItem(item) = Tagged(item.type, [level |-> "all"])
         /\ item.type = "cancel" /\ item.args.level # "all" =>
              SavedItem(item) =
                Tagged(item.type, [item.args EXCEPT !.channel = Signed(item.args.channel)])
         /\ item.type = "socket" /\ item.args.protocol # "http" =>
              SavedItem(item) = Tagged(item.type, Without(item.args, {"httpMethod"}))
         /\ item.type = "socket" /\ item.args.protocol = "http" =>
              SavedItem(item) = Tagged(item.type, item.args)
         /\ item.type \notin {"cancel", "socket"} =>
              SavedItem(item) = Tagged(item.type, item.args)
<1> USE DEF SavedItem, Tagged
<1>1. CASE item.type = "cancel" /\ item.args.level = "all"
  BY <1>1
<1>2. CASE item.type = "cancel" /\ item.args.level # "all"
  BY <1>2
<1>3. CASE item.type = "socket" /\ item.args.protocol # "http"
  BY <1>3
<1>4. CASE item.type = "socket" /\ item.args.protocol = "http"
  BY <1>4
<1>5. CASE item.type \notin {"cancel", "socket"}
  BY <1>5
<1> HIDE DEF SavedItem, Tagged
<1> QED BY <1>1, <1>2, <1>3, <1>4, <1>5

\* An item is read as it was written, but for what no code reads.
ItemBack(item) ==
  /\ ItemType(SavedItem(item)) = item.type /\ ReadableItem(SavedItem(item))
  /\ NormalItem(ParsedItem(SavedItem(item))) = NormalItem(item)

LEMMA CancelAllBack ==
  ASSUME NEW item, SoundItem(item), item.type = "cancel", item.args.level = "all"
  PROVE  ItemBack(item)
<1> DEFINE obj == SavedItem(item)
           short == [level |-> "all"]
           args == Fields(obj, ItemDefaults["cancel"])
           read == ParsedItem(obj)
<1>1. obj = Tagged(item.type, short)
  BY SavedAs
<1>2. DOMAIN short = {"level"} /\ short["level"] = "all"
      /\ DOMAIN short \subseteq DOMAIN ItemDefaults[item.type]
  BY CancelDefaults
<1>3. Complete(item.args, ItemDefaults["cancel"])
      /\ item = [type |-> item.type, args |-> item.args]
  BY DEF SoundItem
<1> HIDE DEF obj, short
<1>4. ItemType(obj) = "cancel" /\ DOMAIN obj = {"type", "level"} /\ obj["level"] = "all"
  <2>1. item.type \in DOMAIN ItemDefaults
    BY DEF SoundItem
  <2>2. /\ ItemType(obj) = item.type /\ DOMAIN obj = {"type"} \cup DOMAIN short
        /\ \A f \in DOMAIN short : obj[f] = short[f]
    BY <1>1, <1>2, <2>1, TaggedType
  <2> QED BY <1>2, <2>2
<1>5. ReadableItem(obj)
  BY <1>4 DEF ReadableItem
<1>6. args.level = "all" /\ args.channel = 0
  <2>1. "all" # Null
    BY <1>3, CompleteObject, CancelDefaults
  <2> QED BY <1>4, <2>1, CancelDefaults, FieldsRead
<1>7. read.args = [level |-> "all", channel |-> 0]
  <2>1. read.args = [level   |-> IF args.level \in {"channel", "all"} THEN args.level ELSE "latest",
                     channel |-> Unsigned(args.channel)]
    BY <1>4, ParsedCancel
  <2> HIDE DEF args
  <2> QED BY <1>6, <2>1, Casts
<1>8. read = [type |-> read.type, args |-> read.args] /\ read.type = "cancel"
  BY <1>4, ParsedIs
<1> HIDE DEF read, args
<1>9. NormalItem(read) = [type |-> "cancel", args |-> [level |-> "all", channel |-> 0]]
  BY <1>7, <1>8 DEF NormalItem
<1>10. item.args = [level |-> "all", channel |-> item.args.channel]
  BY <1>3, CancelDefaults DEF Complete
<1>11. NormalItem(item) = [type |-> "cancel", args |-> [level |-> "all", channel |-> 0]]
  BY <1>3, <1>10 DEF NormalItem
<1> QED BY <1>4, <1>5, <1>9, <1>11 DEF ItemBack, obj, read

LEMMA CancelBack ==
  ASSUME NEW item, SoundItem(item), item.type = "cancel", item.args.level # "all"
  PROVE  ItemBack(item)
<1> DEFINE obj == SavedItem(item)
           short == [item.args EXCEPT !.channel = Signed(item.args.channel)]
           args == Fields(obj, ItemDefaults["cancel"])
           read == ParsedItem(obj)
<1>1. obj = Tagged(item.type, short)
  BY SavedAs
<1>2. /\ Complete(item.args, ItemDefaults["cancel"])
      /\ item = [type |-> item.type, args |-> item.args]
      /\ item.args.level \in {"latest", "channel"} /\ item.args.channel \in 0 .. Wide - 1
  BY DEF SoundItem
<1>3. item.args = [level |-> item.args.level, channel |-> item.args.channel]
      /\ item.args.level # Null /\ item.args.channel # Null
  BY <1>2, CancelDefaults DEF Complete, Filled
<1>4. short = [level |-> item.args.level, channel |-> Signed(item.args.channel)]
  BY <1>3
<1>5. DOMAIN short = {"level", "channel"} /\ DOMAIN short \subseteq DOMAIN ItemDefaults[item.type]
  BY <1>4, CancelDefaults
<1> HIDE DEF obj, short
<1>6. /\ ItemType(obj) = "cancel" /\ DOMAIN obj = {"type", "level", "channel"}
      /\ obj["level"] = item.args.level /\ obj["channel"] = Signed(item.args.channel)
  <2>1. item.type \in DOMAIN ItemDefaults
    BY DEF SoundItem
  <2>2. /\ ItemType(obj) = item.type /\ DOMAIN obj = {"type"} \cup DOMAIN short
        /\ \A f \in DOMAIN short : obj[f] = short[f]
    BY <1>1, <1>5, <2>1, TaggedType
  <2>3. short["level"] = item.args.level /\ short["channel"] = Signed(item.args.channel)
    BY <1>4
  <2> QED BY <1>5, <2>2, <2>3
<1>7. Signed(item.args.channel) \in Int /\ Unsigned(Signed(item.args.channel)) = item.args.channel
  BY <1>2, Casts
<1>8. ReadableItem(obj)
  BY <1>6, <1>7 DEF ReadableItem
<1>9. args.level = item.args.level /\ Unsigned(args.channel) = item.args.channel
  <2>1. args.level = item.args.level
    BY <1>3, <1>6, CancelDefaults, FieldsRead
  <2>2. args.channel = IF obj.channel # Null THEN obj.channel ELSE 0
    BY <1>6, CancelDefaults, FieldsRead
  <2>3. obj.channel # Null
    BY <1>6, <1>7, NoNulls
  <2> QED BY <1>6, <1>7, <2>1, <2>2, <2>3
<1>10. read.args = item.args
  <2>1. read.args = [level   |-> IF args.level \in {"channel", "all"} THEN args.level ELSE "latest",
                     channel |-> Unsigned(args.channel)]
    BY <1>6, ParsedCancel
  <2> HIDE DEF args
  <2> QED BY <1>2, <1>3, <1>9, <2>1
<1>11. read = item
  BY <1>2, <1>6, <1>10, ParsedIs
<1> QED BY <1>6, <1>8, <1>11 DEF ItemBack, obj, read

LEMMA SocketBack ==
  ASSUME NEW item, SoundItem(item), item.type = "socket"
  PROVE  ItemBack(item)
<1> DEFINE obj == SavedItem(item)
           read == ParsedItem(obj)
           args == Fields(obj, ItemDefaults["socket"])
           gone == IF item.args.protocol = "http" THEN {} ELSE {"httpMethod"}
           whole == [item.args EXCEPT !.httpMethod =
                       IF item.args.protocol = "http" THEN item.args.httpMethod ELSE "POST"]
<1>1. /\ item = [type |-> item.type, args |-> item.args] /\ item.type \in DOMAIN ItemDefaults
      /\ Complete(item.args, ItemDefaults["socket"])
      /\ item.args.protocol \in {"udp", "tcp", "http", "websocket"}
  BY DEF SoundItem
<1>2. DOMAIN ItemDefaults["socket"] = {"protocol", "destination", "message", "httpMethod"}
      /\ ItemDefaults["socket"].httpMethod = "POST"
  <2>1. DOMAIN ItemDefaults["socket"] = {"protocol", "destination", "message", "httpMethod"}
    BY SocketDefaults
  <2> QED BY <2>1, SocketMethod
<1>3. /\ IsObject(item.args) /\ DOMAIN item.args = {"protocol", "destination", "message", "httpMethod"}
      /\ \A f \in DOMAIN item.args : item.args[f] # Null
  BY <1>1, <1>2, CompleteObject
<1>4. \E short : /\ obj = Tagged(item.type, short) /\ DOMAIN short = DOMAIN item.args \ gone
                 /\ \A f \in DOMAIN short : short[f] = item.args[f]
  <2>1. CASE item.args.protocol = "http"
    BY <2>1, SavedAs
  <2>2. CASE item.args.protocol # "http"
    <3>1. obj = Tagged(item.type, Without(item.args, {"httpMethod"}))
      BY <2>2, SavedAs
    <3>2. gone = {"httpMethod"}
      BY <2>2
    <3> DEFINE short == Without(item.args, {"httpMethod"})
    <3>3. DOMAIN short = DOMAIN item.args \ gone /\ \A f \in DOMAIN short : short[f] = item.args[f]
      <4>1. /\ DOMAIN short = DOMAIN item.args \ {"httpMethod"}
            /\ \A f \in DOMAIN item.args \ {"httpMethod"} : short[f] = item.args[f]
        BY WithoutFields
      <4> HIDE DEF short
      <4> QED BY <3>2, <4>1
    <3> HIDE DEF obj, gone, short
    <3>4. obj = Tagged(item.type, short)
      BY <3>1 DEF short
    <3> QED BY <3>3, <3>4
  <2> QED BY <2>1, <2>2
<1>5. PICK short : /\ obj = Tagged(item.type, short) /\ DOMAIN short = DOMAIN item.args \ gone
                   /\ \A f \in DOMAIN short : short[f] = item.args[f]
  BY <1>4
<1>6. DOMAIN short \subseteq DOMAIN ItemDefaults[item.type]
  BY <1>2, <1>3, <1>5
<1> HIDE DEF obj
<1>7. /\ ItemType(obj) = "socket" /\ DOMAIN obj = {"type"} \cup (DOMAIN item.args \ gone)
      /\ \A f \in DOMAIN item.args \ gone : obj[f] = item.args[f]
  <2>1. /\ ItemType(obj) = item.type /\ DOMAIN obj = {"type"} \cup DOMAIN short
        /\ \A f \in DOMAIN short : obj[f] = short[f]
    BY <1>1, <1>5, <1>6, TaggedType
  <2> HIDE DEF gone
  <2> QED BY <1>5, <2>1
<1>8. /\ IsObject(whole) /\ DOMAIN whole = DOMAIN item.args
      /\ whole.protocol = item.args.protocol /\ whole.destination = item.args.destination
      /\ whole.message = item.args.message
      /\ whole.httpMethod = IF item.args.protocol = "http" THEN item.args.httpMethod ELSE "POST"
  BY <1>3 DEF IsObject
<1>9. "POST" # Null
  BY <1>2, NoNulls, ItemNames DEF Filled
<1> HIDE DEF whole
<1>10. Complete(whole, ItemDefaults["socket"])
  <2>1. \A f \in DOMAIN whole : whole[f] # Null
    BY <1>3, <1>8, <1>9
  <2> QED BY <1>2, <1>3, <1>8, <2>1 DEF Complete, Filled, IsObject
<1>11. \A f \in DOMAIN ItemDefaults["socket"] :
         IF f \in DOMAIN obj THEN obj[f] = whole[f] ELSE whole[f] = ItemDefaults["socket"][f]
  BY <1>2, <1>3, <1>7, <1>8
<1>12. args = whole
  BY <1>10, <1>11, ReadBack
<1>13. read.args = [args EXCEPT !.protocol    = Protocol(args.protocol),
                                !.destination = Renamed(obj, "destination", "outputDst"),
                                !.message     = Renamed(obj, "message", "socketMsg")]
  BY <1>7, ParsedSocket
<1>14. Protocol(args.protocol) = whole.protocol
  BY <1>1, <1>8, <1>12, Protocols
<1>15. /\ Renamed(obj, "destination", "outputDst") = whole.destination
       /\ Renamed(obj, "message", "socketMsg") = whole.message
  <2>1. /\ {"destination", "message"} \subseteq DOMAIN obj
        /\ obj["destination"] = item.args.destination /\ obj["message"] = item.args.message
        /\ item.args.destination # Null /\ item.args.message # Null
    BY <1>3, <1>7
  <2> QED BY <1>8, <2>1, RenamedRead, NoNulls
<1>16. read.args = whole
  <2> HIDE DEF args, read
  <2>1. read.args = [whole EXCEPT !.protocol    = whole.protocol,
                                  !.destination = whole.destination,
                                  !.message     = whole.message]
    BY <1>12, <1>13, <1>14, <1>15
  <2> QED BY <1>3, <1>8, <2>1 DEF IsObject
<1>17. read = [type |-> "socket", args |-> whole]
  BY <1>7, <1>16, ParsedIs
<1> HIDE DEF read
<1>18. item = [type |-> "socket", args |-> item.args]
  BY <1>1
<1>19. NormalItem(read) = NormalItem(item)
  <2>1. CASE item.args.protocol = "http"
    <3>1. whole = item.args
      BY <1>3, <1>8, <2>1, SameObject
    <3> QED BY <1>17, <1>18, <3>1
  <2>2. CASE item.args.protocol # "http"
    <3>1. read.type = "socket" /\ read.args.protocol # "http"
      BY <1>8, <1>17, <2>2
    <3>2. NormalItem(read) = [read EXCEPT !.args.httpMethod = "POST"]
      BY <3>1 DEF NormalItem
    <3>3. NormalItem(read) = [type |-> "socket", args |-> [whole EXCEPT !.httpMethod = "POST"]]
      BY <1>17, <3>2
    <3>4. NormalItem(item) = [item EXCEPT !.args.httpMethod = "POST"]
      BY <2>2 DEF NormalItem
    <3>5. NormalItem(item) = [type |-> "socket", args |-> [item.args EXCEPT !.httpMethod = "POST"]]
      BY <1>18, <3>4
    <3>6. [whole EXCEPT !.httpMethod = "POST"] = [item.args EXCEPT !.httpMethod = "POST"]
      BY <1>3, <1>8 DEF IsObject
    <3> QED BY <3>3, <3>5, <3>6
  <2> QED BY <2>1, <2>2
<1>20. ReadableItem(obj)
  BY <1>7 DEF ReadableItem
<1> QED BY <1>7, <1>19, <1>20 DEF ItemBack, obj, read

LEMMA ItemsBack ==
  ASSUME NEW item, SoundItem(item)
  PROVE  ItemBack(item)
<1>1. CASE item.type \notin {"cancel", "socket"}
  <2> DEFINE type == item.type
             args == item.args
             obj == SavedItem(item)
  <2>1. /\ item = [type |-> type, args |-> args] /\ type \in DOMAIN ItemDefaults
        /\ Complete(args, ItemDefaults[type])
    BY DEF SoundItem
  <2>2. obj = Tagged(type, args)
    BY <1>1, SavedAs
  <2>3. DOMAIN args = DOMAIN ItemDefaults[type]
    BY <2>1, CompleteObject
  <2> HIDE DEF type, args, obj
  <2>4. ItemType(obj) = type /\ \A f \in DOMAIN args : f \in DOMAIN obj /\ obj[f] = args[f]
    BY <2>1, <2>2, <2>3, TaggedType
  <2>5. Fields(obj, ItemDefaults[type]) = args
    BY <2>1, <2>3, <2>4, ReadBack
  <2>6. ItemType(obj) \notin {"cancel", "socket"}
    BY <1>1, <2>4 DEF type
  <2>7. ParsedItem(obj) = item
    <3>1. ParsedItem(obj).args = args
      BY <2>4, <2>5, <2>6, ParsedOther
    <3> QED BY <2>1, <2>4, <3>1, ParsedIs
  <2>8. ReadableItem(obj)
    BY <2>6 DEF ReadableItem
  <2> QED BY <2>4, <2>7, <2>8 DEF ItemBack, obj, type
<1> QED BY <1>1, CancelAllBack, CancelBack, SocketBack

-----------------------------------------------------------------------------
(* Actions.                                                                *)

Sounds(items) == IsSequence(items) /\ \A i \in DOMAIN items : SoundItem(items[i])

\* Of a list, the items of known types are read, in their order.
LEMMA ParsedItemsSound ==
  ASSUME NEW objs, IsSequence(objs), \A i \in DOMAIN objs : ReadableItem(objs[i])
  PROVE  Sounds(ParsedItems(objs))
<1> DEFINE S == {obj \in Range(objs) : ItemType(obj) \in DOMAIN ItemDefaults}
           known == Only(objs, S)
           items == [i \in DOMAIN known |-> ParsedItem(known[i])]
<1>1. objs \in Seq(Range(objs)) /\ DOMAIN objs = 1 .. Len(objs)
  BY SequenceIs
<1>2. /\ known \in Seq(Range(objs))
      /\ \A j \in 1 .. Len(known) : known[j] \in S
      /\ \A j \in 1 .. Len(known) : \E i \in 1 .. Len(objs) : known[j] = objs[i]
  <2> HIDE DEF S
  <2> QED BY <1>1, OnlyElements, OnlyFrom
<1>3. DOMAIN known = 1 .. Len(known) /\ Len(known) \in Nat
  BY <1>2
<1>4. ParsedItems(objs) = items
  BY DEF ParsedItems
<1> HIDE DEF known
<1>5. IsSequence(items)
  <2>1. IsObject(items) /\ DOMAIN items = 1 .. Len(known)
    BY <1>3 DEF IsObject
  <2> HIDE DEF items
  <2> QED BY <1>3, <2>1, SequenceBuilt
<1>6. ASSUME NEW i \in DOMAIN items PROVE SoundItem(items[i])
  <2>1. i \in 1 .. Len(known) /\ items[i] = ParsedItem(known[i])
    BY <1>3
  <2>2. ItemType(known[i]) \in DOMAIN ItemDefaults
    BY <1>2, <2>1
  <2>3. ReadableItem(known[i])
    BY <1>1, <1>2, <2>1
  <2> QED BY <2>1, <2>2, <2>3, ParsedItemSound
<1> HIDE DEF items
<1> QED BY <1>4, <1>5, <1>6 DEF Sounds

LEMMA ParsedItemsAll ==
  ASSUME NEW objs, IsSequence(objs), \A i \in DOMAIN objs : ItemType(objs[i]) \in DOMAIN ItemDefaults
  PROVE  ParsedItems(objs) = [i \in DOMAIN objs |-> ParsedItem(objs[i])]
<1> DEFINE S == {obj \in Range(objs) : ItemType(obj) \in DOMAIN ItemDefaults}
<1>1. objs \in Seq(Range(objs)) /\ DOMAIN objs = 1 .. Len(objs)
  BY SequenceIs
<1>2. \A i \in 1 .. Len(objs) : objs[i] \in S
  BY <1>1, RangeIs
<1> HIDE DEF S
<1>3. Only(objs, S) = objs
  BY <1>1, <1>2, OnlyAll
<1> QED BY <1>3 DEF ParsedItems, S

LEMMA ActionFields ==
  /\ DOMAIN ActionDefaults = {"id", "name", "icon", "channel", "items"}
  /\ ActionDefaults.icon = "" /\ ActionDefaults.channel = 0 /\ ActionDefaults.items = <<>>
  BY DEF ActionDefaults

LEMMA ParsedActionIs ==
  ASSUME NEW obj, NEW read, read = Fields(obj, ActionDefaults)
  PROVE  /\ IsObject(ParsedAction(obj)) /\ DOMAIN ParsedAction(obj) = DOMAIN ActionDefaults
         /\ ParsedAction(obj).id = read.id /\ ParsedAction(obj).name = read.name
         /\ ParsedAction(obj).icon = read.icon
         /\ ParsedAction(obj).channel = Unsigned(read.channel)
         /\ ParsedAction(obj).items = ParsedItems(read.items)
<1>1. IsObject(read) /\ DOMAIN read = {"id", "name", "icon", "channel", "items"}
  BY FieldsRead, ActionFields
<1>2. ParsedAction(obj) =
        [read EXCEPT !.channel = Unsigned(read.channel), !.items = ParsedItems(read.items)]
  BY DEF ParsedAction
<1> QED BY <1>1, <1>2, ActionFields DEF IsObject

LEMMA EmptySequence == IsSequence(<<>>) /\ DOMAIN <<>> = {}
  BY DEF IsSequence

LEMMA ParsedActionSound ==
  ASSUME NEW obj, ReadableAction(obj), ~ IsObject(Null)
  PROVE  SoundAction(ParsedAction(obj))
<1> DEFINE read == Fields(obj, ActionDefaults)
           action == ParsedAction(obj)
<1>1. Complete(read, ActionDefaults)
  BY NoNulls, FieldsComplete
<1>2. read.channel \in Int
  <2>1. read.channel = IF Given(obj, "channel") THEN obj.channel ELSE 0
    BY ActionFields DEF Fields
  <2> QED BY <2>1 DEF ReadableAction
<1>3. IsSequence(read.items) /\ \A i \in DOMAIN read.items : ReadableItem(read.items[i])
  <2>1. read.items = IF Given(obj, "items") THEN obj.items ELSE <<>>
    BY ActionFields DEF Fields
  <2>2. CASE Given(obj, "items")
    BY <2>1, <2>2 DEF ReadableAction
  <2>3. CASE ~ Given(obj, "items")
    <3>1. read.items = <<>>
      BY <2>1, <2>3
    <3> HIDE DEF read
    <3> QED BY <3>1, EmptySequence
  <2> QED BY <2>2, <2>3
<1>4. /\ IsObject(action) /\ DOMAIN action = DOMAIN ActionDefaults
      /\ action.id = read.id /\ action.name = read.name /\ action.icon = read.icon
      /\ action.channel = Unsigned(read.channel) /\ action.items = ParsedItems(read.items)
  BY ParsedActionIs
<1> HIDE DEF read, action
<1>5. action.channel \in 0 .. Wide - 1
  BY <1>2, <1>4, Casts
<1>6. Sounds(action.items)
  BY <1>3, <1>4, ParsedItemsSound
<1>7. \A f \in DOMAIN action : action[f] # Null
  <2>1. read.id # Null /\ read.name # Null /\ read.icon # Null
    BY <1>1, CompleteObject, ActionFields
  <2>2. action.channel # Null
    BY <1>5, NoNulls
  <2>3. action.items # Null
    BY <1>6, SequenceIs DEF Sounds
  <2> QED BY <1>4, <2>1, <2>2, <2>3, ActionFields
<1>8. Complete(action, ActionDefaults)
  BY <1>4, <1>7 DEF Complete, Filled, IsObject
<1>9. SoundAction(action)
  BY <1>5, <1>6, <1>8 DEF SoundAction, Sounds
<1> QED BY <1>9 DEF action

\* An action is read as it was written.
ActionBack(action) ==
  /\ ReadableAction(SavedAction(action))
  /\ NormalAction(ParsedAction(SavedAction(action))) = NormalAction(action)

LEMMA ActionsBack ==
  ASSUME NEW action, SoundAction(action), ~ IsObject(Null)
  PROVE  ActionBack(action)
<1> DEFINE obj == SavedAction(action)
           gone == IF action.icon = "" THEN {"icon"} ELSE {}
           items == [i \in DOMAIN action.items |-> SavedItem(action.items[i])]
           whole == [action EXCEPT !.channel = Signed(action.channel), !.items = items]
           back == ParsedAction(obj)
<1>1. /\ IsObject(action) /\ DOMAIN action = {"id", "name", "icon", "channel", "items"}
      /\ \A f \in DOMAIN action : action[f] # Null
      /\ action.channel \in 0 .. Wide - 1 /\ Sounds(action.items)
  BY CompleteObject, ActionFields DEF SoundAction, Sounds
<1>2. obj = Without(whole, gone)
  BY DEF SavedAction
<1>3. Signed(action.channel) \in Int /\ Unsigned(Signed(action.channel)) = action.channel
  BY <1>1, Casts
<1>4. /\ IsObject(items) /\ DOMAIN items = DOMAIN action.items
      /\ \A i \in DOMAIN items : items[i] = SavedItem(action.items[i])
  BY DEF IsObject
<1>5. /\ IsSequence(action.items) /\ DOMAIN action.items = 1 .. Len(action.items)
      /\ Len(action.items) \in Nat /\ \A i \in DOMAIN action.items : SoundItem(action.items[i])
      /\ IsObject(action.items)
  BY <1>1, SequenceIs DEF Sounds
<1> HIDE DEF obj, items, back
<1>6. IsSequence(items)
  BY <1>4, <1>5, SequenceBuilt
<1>7. \A i \in DOMAIN items : ItemBack(action.items[i])
  BY <1>4, <1>5, ItemsBack
<1>8. /\ IsObject(whole) /\ DOMAIN whole = DOMAIN action
      /\ whole.id = action.id /\ whole.name = action.name /\ whole.icon = action.icon
      /\ whole.channel = Signed(action.channel) /\ whole.items = items
  BY <1>1 DEF IsObject
<1> HIDE DEF whole
<1>9. Complete(whole, ActionDefaults)
  <2>1. whole.items # Null
    BY <1>4, <1>8
  <2>2. whole.channel # Null
    BY <1>3, <1>8, NoNulls
  <2>3. \A f \in DOMAIN whole : whole[f] # Null
    BY <1>1, <1>8, <2>1, <2>2
  <2> QED BY <1>1, <1>8, <2>3, ActionFields DEF Complete, Filled, IsObject
<1>10. gone \subseteq {"icon"} /\ ("icon" \in gone => whole.icon = "")
  BY <1>8
<1> HIDE DEF gone
<1>11. /\ DOMAIN obj = DOMAIN whole \ gone
       /\ \A f \in DOMAIN whole \ gone : obj[f] = whole[f]
  BY <1>2, WithoutFields
<1>12. \A f \in DOMAIN ActionDefaults :
         IF f \in DOMAIN obj THEN obj[f] = whole[f] ELSE whole[f] = ActionDefaults[f]
  BY <1>1, <1>8, <1>10, <1>11, ActionFields
<1>13. Fields(obj, ActionDefaults) = whole
  BY <1>9, <1>12, ReadBack
<1>14. ReadableAction(obj)
  <2>1. obj.channel = whole.channel /\ obj.items = whole.items
    BY <1>1, <1>8, <1>10, <1>11
  <2>2. \A i \in DOMAIN items : ReadableItem(items[i])
    BY <1>4, <1>7 DEF ItemBack
  <2> QED BY <1>3, <1>6, <1>8, <2>1, <2>2 DEF ReadableAction
<1>15. /\ IsObject(back) /\ DOMAIN back = DOMAIN ActionDefaults
       /\ back.id = action.id /\ back.name = action.name /\ back.icon = action.icon
       /\ back.channel = action.channel /\ back.items = ParsedItems(items)
  <2>1. /\ IsObject(back) /\ DOMAIN back = DOMAIN ActionDefaults
        /\ back.id = whole.id /\ back.name = whole.name /\ back.icon = whole.icon
        /\ back.channel = Unsigned(whole.channel) /\ back.items = ParsedItems(whole.items)
    BY <1>13, ParsedActionIs DEF back
  <2> QED BY <1>3, <1>8, <2>1
<1>16. ParsedItems(items) = [i \in DOMAIN items |-> ParsedItem(items[i])]
  <2>1. ASSUME NEW i \in DOMAIN items PROVE ItemType(items[i]) \in DOMAIN ItemDefaults
    <3>1. i \in DOMAIN action.items /\ items[i] = SavedItem(action.items[i])
      BY <1>4
    <3>2. SoundItem(action.items[i]) /\ ItemBack(action.items[i])
      BY <1>5, <1>7, <3>1
    <3>3. action.items[i].type \in DOMAIN ItemDefaults
      BY <3>2 DEF SoundItem
    <3>4. ItemType(SavedItem(action.items[i])) = action.items[i].type
      BY <3>2 DEF ItemBack
    <3> QED BY <3>1, <3>3, <3>4
  <2> QED BY <1>6, <2>1, ParsedItemsAll
<1>17. [i \in DOMAIN back.items |-> NormalItem(back.items[i])] =
         [i \in DOMAIN action.items |-> NormalItem(action.items[i])]
  <2>1. /\ DOMAIN back.items = DOMAIN action.items
        /\ \A i \in DOMAIN action.items : back.items[i] = ParsedItem(SavedItem(action.items[i]))
    BY <1>4, <1>15, <1>16
  <2>2. \A i \in DOMAIN action.items : NormalItem(back.items[i]) = NormalItem(action.items[i])
    BY <1>4, <1>7, <2>1 DEF ItemBack
  <2> QED BY <2>1, <2>2
<1>18. NormalAction(back) = NormalAction(action)
  <2> DEFINE normal == [i \in DOMAIN action.items |-> NormalItem(action.items[i])]
  <2>1. NormalAction(back) = [back EXCEPT !.items = normal]
    BY <1>17 DEF NormalAction
  <2>2. NormalAction(action) = [action EXCEPT !.items = normal]
    BY DEF NormalAction
  <2> HIDE DEF normal
  <2>3. [back EXCEPT !.items = normal] = [action EXCEPT !.items = normal]
    BY <1>1, <1>15, ActionFields DEF IsObject
  <2> QED BY <2>1, <2>2, <2>3
<1> QED BY <1>14, <1>18 DEF ActionBack, obj, back

-----------------------------------------------------------------------------
(* Menus and the settings of the application.                              *)

LEMMA OverridesComplete ==
  ASSUME NEW obj
  PROVE  Complete(ParsedOverrides(obj), ParsedOverrides(obj))
  BY NoNulls DEF ParsedOverrides, Complete, Filled

LEMMA OverridesBack ==
  ASSUME NEW rice, Complete(rice, rice)
  PROVE  ParsedOverrides(rice) = rice
<1>1. IsObject(rice) /\ \A f \in DOMAIN rice : rice[f] # Null
  BY CompleteObject
<1>2. /\ IsObject(ParsedOverrides(rice)) /\ DOMAIN ParsedOverrides(rice) = DOMAIN rice
      /\ \A f \in DOMAIN rice : ParsedOverrides(rice)[f] = rice[f]
  BY <1>1 DEF ParsedOverrides, IsObject
<1> QED BY <1>1, <1>2, SameObject

LEMMA MenuFields ==
  /\ "rice" \in DOMAIN MenuDefaults /\ MenuDefaults["rice"] = NoFields
  /\ Complete(NoFields, NoFields) /\ DOMAIN NoFields = {}
  BY DEF MenuDefaults, Options, NoFields, ++, Complete, Filled

LEMMA ParsedMenuIs ==
  ASSUME NEW obj, NEW read, read = Fields(obj, MenuDefaults)
  PROVE  /\ IsObject(ParsedMenu(obj)) /\ DOMAIN ParsedMenu(obj) = DOMAIN MenuDefaults
         /\ ParsedMenu(obj)["rice"] = ParsedOverrides(read["rice"])
         /\ \A f \in DOMAIN MenuDefaults \ {"rice"} : ParsedMenu(obj)[f] = read[f]
<1>1. IsObject(read) /\ DOMAIN read = DOMAIN MenuDefaults
  BY FieldsRead
<1>2. ParsedMenu(obj) = [read EXCEPT !["rice"] = ParsedOverrides(read["rice"])]
  BY DEF ParsedMenu
<1> QED BY <1>1, <1>2, MenuFields DEF IsObject

LEMMA ParsedMenuSound ==
  ASSUME NEW obj, ~ IsObject(Null)
  PROVE  SoundMenu(ParsedMenu(obj))
<1> DEFINE read == Fields(obj, MenuDefaults)
           menu == ParsedMenu(obj)
<1>1. Complete(read, MenuDefaults)
  BY NoNulls, FieldsComplete
<1>2. \A f \in DOMAIN MenuDefaults : read[f] # Null
  BY <1>1, CompleteObject
<1>3. /\ IsObject(menu) /\ DOMAIN menu = DOMAIN MenuDefaults
      /\ menu["rice"] = ParsedOverrides(read["rice"])
      /\ \A f \in DOMAIN MenuDefaults \ {"rice"} : menu[f] = read[f]
  BY ParsedMenuIs
<1> HIDE DEF read, menu
<1>4. Complete(menu["rice"], menu["rice"])
  BY <1>3, OverridesComplete
<1>5. menu["rice"] # Null
  BY <1>4, CompleteObject
<1>6. \A f \in DOMAIN menu : menu[f] # Null
  BY <1>2, <1>3, <1>5
<1>7. Complete(menu, MenuDefaults)
  BY <1>3, <1>6 DEF Complete, Filled, IsObject
<1>8. SoundMenu(menu)
  BY <1>4, <1>7 DEF SoundMenu
<1> QED BY <1>8 DEF menu

LEMMA MenusBack ==
  ASSUME NEW menu, SoundMenu(menu)
  PROVE  ParsedMenu(SavedMenu(menu)) = menu
<1> DEFINE obj == SavedMenu(menu)
           gone == IF menu["rice"] = NoFields THEN {"rice"} ELSE {}
           read == Fields(obj, MenuDefaults)
           back == ParsedMenu(obj)
<1>1. Complete(menu, MenuDefaults) /\ Complete(menu["rice"], menu["rice"])
  BY DEF SoundMenu
<1>2. IsObject(menu) /\ DOMAIN menu = DOMAIN MenuDefaults
  BY <1>1, CompleteObject
<1>3. obj = Without(menu, gone)
  BY DEF SavedMenu
<1>4. gone \subseteq {"rice"} /\ ("rice" \in gone => menu["rice"] = NoFields)
  OBVIOUS
<1> HIDE DEF obj, gone
<1>5. DOMAIN obj = DOMAIN menu \ gone /\ \A f \in DOMAIN menu \ gone : obj[f] = menu[f]
  BY <1>3, WithoutFields
<1>6. \A f \in DOMAIN MenuDefaults :
        IF f \in DOMAIN obj THEN obj[f] = menu[f] ELSE menu[f] = MenuDefaults[f]
  BY <1>2, <1>4, <1>5, MenuFields
<1>7. read = menu
  BY <1>1, <1>6, ReadBack
<1>8. /\ IsObject(back) /\ DOMAIN back = DOMAIN MenuDefaults
      /\ back["rice"] = ParsedOverrides(read["rice"])
      /\ \A f \in DOMAIN MenuDefaults \ {"rice"} : back[f] = read[f]
  BY ParsedMenuIs
<1>9. back["rice"] = menu["rice"]
  BY <1>1, <1>7, <1>8, OverridesBack
<1> HIDE DEF back, read
<1>10. back = menu
  <2>1. \A f \in DOMAIN menu : back[f] = menu[f]
    BY <1>2, <1>7, <1>8, <1>9
  <2> QED BY <1>2, <1>8, <2>1, SameObject
<1> QED BY <1>10 DEF back, obj

LEMMA ParsedRiceIs ==
  ASSUME NEW obj
  PROVE  /\ IsObject(ParsedRice(obj)) /\ DOMAIN RiceDefaults \subseteq DOMAIN ParsedRice(obj)
         /\ DOMAIN ParsedRice(obj) \subseteq DOMAIN RiceDefaults \cup PixelFields
         /\ \A f \in DOMAIN RiceDefaults :
              ParsedRice(obj)[f] = IF Given(obj, f) THEN obj[f] ELSE RiceDefaults[f]
         /\ \A f \in DOMAIN ParsedRice(obj) \ DOMAIN RiceDefaults :
              f \in DOMAIN ParsedOverrides(obj) /\ ParsedRice(obj)[f] = ParsedOverrides(obj)[f]
         /\ (DOMAIN ParsedOverrides(obj)) \cap PixelFields \subseteq DOMAIN ParsedRice(obj)
<1> DEFINE base == Fields(obj, RiceDefaults)
           over == ParsedOverrides(obj)
           gone == DOMAIN obj \ PixelFields
           pixels == Without(over, gone)
<1>1. /\ DOMAIN base = DOMAIN RiceDefaults
      /\ \A f \in DOMAIN RiceDefaults : base[f] = IF Given(obj, f) THEN obj[f] ELSE RiceDefaults[f]
  BY FieldsRead
<1>2. DOMAIN over \subseteq DOMAIN obj
  BY DEF ParsedOverrides
<1>3. ParsedRice(obj) = base ++ pixels
  BY DEF ParsedRice
<1> HIDE DEF base, over
<1>4. DOMAIN pixels = DOMAIN over \ gone /\ \A f \in DOMAIN pixels : pixels[f] = over[f]
  <2> HIDE DEF gone
  <2>1. /\ DOMAIN pixels = DOMAIN over \ gone
        /\ \A f \in DOMAIN over \ gone : pixels[f] = over[f]
    BY WithoutFields
  <2> QED BY <2>1
<1> HIDE DEF pixels
<1>5. DOMAIN pixels = DOMAIN over \cap PixelFields
  BY <1>2, <1>4
<1>6. /\ IsObject(base ++ pixels) /\ DOMAIN (base ++ pixels) = DOMAIN base \cup DOMAIN pixels
      /\ \A f \in DOMAIN base : (base ++ pixels)[f] = base[f]
      /\ \A f \in DOMAIN pixels \ DOMAIN base : (base ++ pixels)[f] = pixels[f]
  BY Merge
<1> DEFINE rice == base ++ pixels
<1>7. /\ IsObject(rice) /\ DOMAIN rice = DOMAIN base \cup DOMAIN pixels
      /\ \A f \in DOMAIN base : rice[f] = base[f]
      /\ \A f \in DOMAIN pixels \ DOMAIN base : rice[f] = pixels[f]
  BY <1>6
<1>8. ParsedRice(obj) = rice
  BY <1>3
<1> HIDE DEF rice
<1>9. /\ IsObject(rice) /\ DOMAIN RiceDefaults \subseteq DOMAIN rice
      /\ DOMAIN rice \subseteq DOMAIN RiceDefaults \cup PixelFields
      /\ \A f \in DOMAIN RiceDefaults :
           rice[f] = IF Given(obj, f) THEN obj[f] ELSE RiceDefaults[f]
  BY <1>1, <1>5, <1>7
<1>10. /\ \A f \in DOMAIN rice \ DOMAIN RiceDefaults : f \in DOMAIN over /\ rice[f] = over[f]
       /\ DOMAIN over \cap PixelFields \subseteq DOMAIN rice
  BY <1>1, <1>4, <1>5, <1>7
<1> QED BY <1>8, <1>9, <1>10 DEF over

LEMMA RiceComplete ==
  ASSUME NEW obj
  PROVE  Complete(ParsedRice(obj), ParsedRice(obj))
<1> DEFINE rice == ParsedRice(obj)
           over == ParsedOverrides(obj)
<1>1. /\ IsObject(rice)
      /\ \A f \in DOMAIN RiceDefaults : rice[f] = IF Given(obj, f) THEN obj[f] ELSE RiceDefaults[f]
      /\ \A f \in DOMAIN rice \ DOMAIN RiceDefaults : f \in DOMAIN over /\ rice[f] = over[f]
  BY ParsedRiceIs
<1>2. \A f \in DOMAIN over : over[f] # Null
  BY OverridesComplete, CompleteObject
<1>3. \A f \in DOMAIN RiceDefaults : RiceDefaults[f] # Null
  BY NoNulls DEF Filled
<1> HIDE DEF rice, over
<1>4. \A f \in DOMAIN rice : rice[f] # Null
  BY <1>1, <1>2, <1>3
<1>5. Complete(rice, rice)
  BY <1>1, <1>4 DEF Complete, Filled, IsObject
<1> QED BY <1>5 DEF rice

LEMMA RiceBack ==
  ASSUME NEW rice, Complete(rice, rice), DOMAIN RiceDefaults \subseteq DOMAIN rice,
         DOMAIN rice \subseteq DOMAIN RiceDefaults \cup PixelFields
  PROVE  ParsedRice(rice) = rice
<1> DEFINE back == ParsedRice(rice)
<1>1. IsObject(rice) /\ \A f \in DOMAIN rice : rice[f] # Null
  BY CompleteObject
<1>2. ParsedOverrides(rice) = rice
  BY OverridesBack
<1>3. /\ IsObject(back) /\ DOMAIN RiceDefaults \subseteq DOMAIN back
      /\ DOMAIN back \subseteq DOMAIN RiceDefaults \cup PixelFields
      /\ \A f \in DOMAIN RiceDefaults : back[f] = IF Given(rice, f) THEN rice[f] ELSE RiceDefaults[f]
      /\ \A f \in DOMAIN back \ DOMAIN RiceDefaults : f \in DOMAIN rice /\ back[f] = rice[f]
      /\ (DOMAIN rice) \cap PixelFields \subseteq DOMAIN back
  <2> HIDE DEF back
  <2>1. back = ParsedRice(rice)
    BY DEF back
  <2> QED BY <1>2, <2>1, ParsedRiceIs
<1> HIDE DEF back
<1>4. DOMAIN back = DOMAIN rice
  BY <1>3
<1>5. \A f \in DOMAIN rice : back[f] = rice[f]
  BY <1>1, <1>3, <1>4
<1>6. back = rice
  BY <1>1, <1>3, <1>4, <1>5, SameObject
<1> QED BY <1>6 DEF back

LEMMA AppFields ==
  /\ DOMAIN AppDefaults = {"darkMode", "startInTray", "themeOverlay", "rice", "gameMouseCapture"}
  /\ AppDefaults.themeOverlay = "" /\ AppDefaults.gameMouseCapture = "off"
  BY DEF AppDefaults

Captures == {"off", "unclip", "stealIfLocked"}

LEMMA ParsedAppIs ==
  ASSUME NEW obj, NEW read, read = Fields(obj, AppDefaults)
  PROVE  /\ IsObject(ParsedApp(obj)) /\ DOMAIN ParsedApp(obj) = DOMAIN AppDefaults
         /\ ParsedApp(obj).darkMode = read.darkMode /\ ParsedApp(obj).startInTray = read.startInTray
         /\ ParsedApp(obj).themeOverlay = read.themeOverlay
         /\ ParsedApp(obj).rice = ParsedRice(read.rice)
         /\ ParsedApp(obj).gameMouseCapture =
              IF read.gameMouseCapture \in {"unclip", "stealIfLocked"} THEN read.gameMouseCapture
              ELSE "off"
<1>1. IsObject(read) /\ DOMAIN read = DOMAIN AppDefaults
  BY FieldsRead
<1> DEFINE capture == IF read.gameMouseCapture \in {"unclip", "stealIfLocked"}
                      THEN read.gameMouseCapture ELSE "off"
<1>2. ParsedApp(obj) = [read EXCEPT !.rice = ParsedRice(read.rice), !.gameMouseCapture = capture]
  BY DEF ParsedApp
<1> HIDE DEF capture
<1>3. /\ IsObject(ParsedApp(obj)) /\ DOMAIN ParsedApp(obj) = DOMAIN AppDefaults
      /\ ParsedApp(obj).darkMode = read.darkMode /\ ParsedApp(obj).startInTray = read.startInTray
      /\ ParsedApp(obj).themeOverlay = read.themeOverlay
      /\ ParsedApp(obj).rice = ParsedRice(read.rice)
      /\ ParsedApp(obj).gameMouseCapture = capture
  BY <1>1, <1>2, AppFields DEF IsObject
<1> QED BY <1>3 DEF capture

LEMMA ParsedAppSound ==
  ASSUME NEW obj, ~ IsObject(Null)
  PROVE  SoundApp(ParsedApp(obj))
<1> DEFINE read == Fields(obj, AppDefaults)
           a == ParsedApp(obj)
<1>1. Complete(read, AppDefaults)
  BY NoNulls, FieldsComplete
<1>2. \A f \in DOMAIN AppDefaults : read[f] # Null
  BY <1>1, CompleteObject
<1>3. /\ IsObject(a) /\ DOMAIN a = DOMAIN AppDefaults
      /\ a.darkMode = read.darkMode /\ a.startInTray = read.startInTray
      /\ a.themeOverlay = read.themeOverlay /\ a.rice = ParsedRice(read.rice)
      /\ a.gameMouseCapture = IF read.gameMouseCapture \in {"unclip", "stealIfLocked"}
                              THEN read.gameMouseCapture ELSE "off"
  BY ParsedAppIs
<1>4. "off" # Null
  BY NoNulls, AppFields DEF Filled
<1> HIDE DEF read, a
<1>5. /\ Complete(a.rice, a.rice) /\ DOMAIN RiceDefaults \subseteq DOMAIN a.rice
      /\ DOMAIN a.rice \subseteq DOMAIN RiceDefaults \cup PixelFields
  BY <1>3, RiceComplete, ParsedRiceIs
<1>6. a.gameMouseCapture \in Captures /\ a.gameMouseCapture # Null
  BY <1>2, <1>3, <1>4, AppFields DEF Captures
<1>7. a.rice # Null
  BY <1>5, CompleteObject
<1>8. \A f \in DOMAIN a : a[f] # Null
  BY <1>2, <1>3, <1>6, <1>7, AppFields
<1>9. Complete(a, AppDefaults)
  BY <1>3, <1>8 DEF Complete, Filled, IsObject
<1>10. SoundApp(a)
  BY <1>5, <1>6, <1>9 DEF SoundApp, Captures
<1> QED BY <1>10 DEF a

\* From any document that says what SavedApp writes, the settings are read back.
Says(doc, a) ==
  \A f \in DOMAIN AppDefaults :
    IF f \in DOMAIN SavedApp(a) THEN f \in DOMAIN doc /\ doc[f] = a[f] ELSE f \notin DOMAIN doc

LEMMA AppBack ==
  ASSUME NEW a, SoundApp(a), NEW doc, Says(doc, a)
  PROVE  ParsedApp(doc) = a
<1> DEFINE read == Fields(doc, AppDefaults)
           back == ParsedApp(doc)
           gone == IF a.themeOverlay = "" THEN {"themeOverlay"} ELSE {}
<1>1. /\ Complete(a, AppDefaults) /\ a.gameMouseCapture \in {"off", "unclip", "stealIfLocked"}
      /\ Complete(a.rice, a.rice) /\ DOMAIN RiceDefaults \subseteq DOMAIN a.rice
      /\ DOMAIN a.rice \subseteq DOMAIN RiceDefaults \cup PixelFields
  BY DEF SoundApp
<1>2. IsObject(a) /\ DOMAIN a = DOMAIN AppDefaults
  BY <1>1, CompleteObject
<1>3. DOMAIN SavedApp(a) = DOMAIN a \ gone
  <2>1. CASE a.themeOverlay = ""
    <3>1. SavedApp(a) = Without(a, {"themeOverlay"})
      BY <2>1 DEF SavedApp
    <3> QED BY <2>1, <3>1, WithoutFields
  <2>2. CASE a.themeOverlay # ""
    BY <2>2 DEF SavedApp
  <2> QED BY <2>1, <2>2
<1>4. \A f \in DOMAIN AppDefaults :
        IF f \in DOMAIN doc THEN doc[f] = a[f] ELSE a[f] = AppDefaults[f]
  BY <1>2, <1>3, AppFields DEF Says
<1>5. read = a
  BY <1>1, <1>4, ReadBack
<1> HIDE DEF read
<1>6. /\ IsObject(back) /\ DOMAIN back = DOMAIN AppDefaults
      /\ back.darkMode = read.darkMode /\ back.startInTray = read.startInTray
      /\ back.themeOverlay = read.themeOverlay /\ back.rice = ParsedRice(read.rice)
      /\ back.gameMouseCapture = IF read.gameMouseCapture \in {"unclip", "stealIfLocked"}
                                 THEN read.gameMouseCapture ELSE "off"
  BY ParsedAppIs DEF read
<1>7. ParsedRice(a.rice) = a.rice
  BY <1>1, RiceBack
<1> HIDE DEF back
<1>8. \A f \in DOMAIN a : back[f] = a[f]
  BY <1>1, <1>2, <1>5, <1>6, <1>7, AppFields
<1>9. back = a
  BY <1>2, <1>6, <1>8, SameObject
<1> QED BY <1>9 DEF back

-----------------------------------------------------------------------------
(* Files.                                                                  *)

Good(doc) == [state |-> "good", doc |-> doc]

\* What a file yields, by its schema.
Document(f)   == IF f.state = "good" THEN f.doc ELSE NoFields
MenusOf(doc)   == IF Given(doc, "menus") THEN doc.menus ELSE <<>>
ActionsOf(doc) == IF Given(doc, "actions") THEN doc.actions ELSE <<>>

Current(actions, menus) ==
  [actions |-> [i \in DOMAIN actions |-> ParsedAction(actions[i])],
   menus   |-> [i \in DOMAIN menus |-> ParsedMenu(menus[i])]]

LEMMA LoadedIs ==
  ASSUME NEW f, NEW doc, doc = Document(f)
  PROVE  /\ Loaded(f).ok = (MenusOf(doc) # <<>>)
         /\ Loaded(f).config =
              [app |-> ParsedApp(doc)] ++
                (IF MenusOf(doc) = <<>> THEN Empty
                 ELSE IF Legacy(doc) THEN LiftedMenus(MenusOf(doc))
                 ELSE Current(ActionsOf(doc), MenusOf(doc)))
<1> DEFINE read == Fields(doc, Empty)
<1>1. read.menus = MenusOf(doc) /\ read.actions = ActionsOf(doc)
  BY DEF Fields, Empty, MenusOf, ActionsOf
<1> QED BY <1>1 DEF Loaded, Document, Current

LEMMA ConfigIs ==
  ASSUME NEW a, NEW b, NEW c
  PROVE  [app |-> a] ++ [actions |-> b, menus |-> c] = [app |-> a, actions |-> b, menus |-> c]
<1> DEFINE x == [app |-> a]
           y == [actions |-> b, menus |-> c]
           z == [app |-> a, actions |-> b, menus |-> c]
<1>1. DOMAIN x = {"app"} /\ DOMAIN y = {"actions", "menus"} /\ DOMAIN z = {"app", "actions", "menus"}
  OBVIOUS
<1>2. /\ IsObject(x ++ y) /\ DOMAIN (x ++ y) = DOMAIN x \cup DOMAIN y
      /\ \A f \in DOMAIN x : (x ++ y)[f] = x[f]
      /\ \A f \in DOMAIN y \ DOMAIN x : (x ++ y)[f] = y[f]
  <2> HIDE DEF x, y
  <2> QED BY Merge
<1>3. IsObject(z)
  BY DEF IsObject
<1>4. x["app"] = z["app"] /\ y["actions"] = z["actions"] /\ y["menus"] = z["menus"]
  OBVIOUS
<1> DEFINE w == x ++ y
<1>5. IsObject(w) /\ DOMAIN w = DOMAIN z /\ \A f \in DOMAIN z : w[f] = z[f]
  <2> HIDE DEF x, y, z
  <2> QED BY <1>1, <1>2, <1>4
<1> HIDE DEF w
<1>6. w = z
  <2> HIDE DEF z
  <2> QED BY <1>3, <1>5, SameObject
<1> QED BY <1>6 DEF w

\* The document a configuration is written as.
LEMMA SavedIs ==
  ASSUME NEW c, Sound(c), NEW doc, doc = Saved(c), ~ IsObject(Null)
  PROVE  /\ {"actions", "menus"} \subseteq DOMAIN doc /\ Says(doc, c.app)
         /\ doc.actions = [i \in DOMAIN c.actions |-> SavedAction(c.actions[i])]
         /\ doc.menus = [i \in DOMAIN c.menus |-> SavedMenu(c.menus[i])]
         /\ IsSequence(doc.actions) /\ IsSequence(doc.menus)
         /\ Len(doc.menus) = Len(c.menus)
         /\ doc.actions # Null /\ doc.menus # Null
<1> DEFINE head == SavedApp(c.app)
           A == [i \in DOMAIN c.actions |-> SavedAction(c.actions[i])]
           M == [i \in DOMAIN c.menus |-> SavedMenu(c.menus[i])]
           tail == [actions |-> A, menus |-> M]
<1>1. /\ SoundApp(c.app) /\ IsSequence(c.actions) /\ IsSequence(c.menus)
  BY DEF Sound
<1>2. /\ IsObject(A) /\ DOMAIN A = 1 .. Len(c.actions) /\ Len(c.actions) \in Nat
      /\ IsObject(M) /\ DOMAIN M = 1 .. Len(c.menus) /\ Len(c.menus) \in Nat
  BY <1>1, SequenceIs DEF IsObject
<1>3. doc = head ++ tail
  BY DEF Saved
<1> HIDE DEF A, M
<1>4. IsSequence(A) /\ IsSequence(M) /\ Len(M) = Len(c.menus) /\ A # Null /\ M # Null
  BY <1>2, SequenceBuilt
<1>5. DOMAIN c.app = DOMAIN AppDefaults
  BY <1>1, CompleteObject DEF SoundApp
<1>6. DOMAIN head \subseteq DOMAIN AppDefaults /\ \A f \in DOMAIN head : head[f] = c.app[f]
  <2>1. CASE c.app.themeOverlay = ""
    <3>1. head = Without(c.app, {"themeOverlay"})
      BY <2>1 DEF SavedApp
    <3> HIDE DEF head
    <3>2. DOMAIN head = DOMAIN c.app \ {"themeOverlay"}
          /\ \A f \in DOMAIN c.app \ {"themeOverlay"} : head[f] = c.app[f]
      BY <3>1, WithoutFields
    <3> QED BY <1>5, <3>2
  <2>2. CASE c.app.themeOverlay # ""
    BY <1>5, <2>2 DEF SavedApp
  <2> QED BY <2>1, <2>2
<1>7. DOMAIN tail = {"actions", "menus"} /\ tail["actions"] = A /\ tail["menus"] = M
  OBVIOUS
<1>8. {"actions", "menus"} \cap DOMAIN AppDefaults = {}
  BY AppFields
<1> HIDE DEF head, tail
<1>9. /\ DOMAIN doc = DOMAIN head \cup DOMAIN tail
      /\ \A f \in DOMAIN head : doc[f] = head[f]
      /\ \A f \in DOMAIN tail \ DOMAIN head : doc[f] = tail[f]
  <2>1. /\ DOMAIN (head ++ tail) = DOMAIN head \cup DOMAIN tail
        /\ \A f \in DOMAIN head : (head ++ tail)[f] = head[f]
        /\ \A f \in DOMAIN tail \ DOMAIN head : (head ++ tail)[f] = tail[f]
    BY Merge
  <2> DEFINE w == head ++ tail
  <2>2. w = doc
    BY <1>3
  <2>3. /\ DOMAIN w = DOMAIN head \cup DOMAIN tail
        /\ \A f \in DOMAIN head : w[f] = head[f]
        /\ \A f \in DOMAIN tail \ DOMAIN head : w[f] = tail[f]
    BY <2>1
  <2> HIDE DEF w
  <2> QED BY <2>2, <2>3
<1>10. doc["actions"] = A /\ doc["menus"] = M /\ {"actions", "menus"} \subseteq DOMAIN doc
  BY <1>6, <1>7, <1>8, <1>9
<1>11. Says(doc, c.app)
  BY <1>6, <1>7, <1>8, <1>9 DEF Says, head
<1> QED BY <1>4, <1>10, <1>11 DEF A, M

\* What is written can be read, and is what was written.
LEMMA SavedReadable ==
  ASSUME NEW c, Sound(c), NEW doc, doc = Saved(c), ~ IsObject(Null)
  PROVE  Readable(doc) /\ ~ Legacy(doc)
<1>1. /\ {"actions", "menus"} \subseteq DOMAIN doc
      /\ doc.actions = [i \in DOMAIN c.actions |-> SavedAction(c.actions[i])]
      /\ IsSequence(doc.actions) /\ IsSequence(doc.menus)
  BY SavedIs
<1>2. ASSUME NEW i \in DOMAIN doc.actions PROVE ReadableAction(doc.actions[i])
  <2>1. i \in DOMAIN c.actions /\ doc.actions[i] = SavedAction(c.actions[i])
    BY <1>1
  <2>2. ActionBack(c.actions[i])
    BY <2>1, ActionsBack DEF Sound
  <2> QED BY <2>1, <2>2 DEF ActionBack
<1>3. ~ Legacy(doc)
  BY <1>1 DEF Legacy
<1> QED BY <1>1, <1>2, <1>3 DEF Readable

RoundTrip(c) ==
  Loaded(Good(Saved(c))).ok /\ Normal(Loaded(Good(Saved(c))).config) = Normal(c)

LEMMA RoundTrips ==
  ASSUME NEW c, Sound(c), c.menus # <<>>, ~ IsObject(Null)
  PROVE  RoundTrip(c)
<1> DEFINE doc == Saved(c)
           A == [i \in DOMAIN doc.actions |-> ParsedAction(doc.actions[i])]
           M == [i \in DOMAIN doc.menus |-> ParsedMenu(doc.menus[i])]
           back == Loaded(Good(doc)).config
<1> HIDE DEF doc
<1>1. doc = Saved(c)
  BY DEF doc
<1>2. /\ {"actions", "menus"} \subseteq DOMAIN doc /\ Says(doc, c.app)
      /\ doc.actions = [i \in DOMAIN c.actions |-> SavedAction(c.actions[i])]
      /\ doc.menus = [i \in DOMAIN c.menus |-> SavedMenu(c.menus[i])]
      /\ IsSequence(doc.actions) /\ IsSequence(doc.menus)
      /\ Len(doc.menus) = Len(c.menus)
      /\ doc.actions # Null /\ doc.menus # Null
  BY <1>1, SavedIs
<1>3. ~ Legacy(doc)
  BY <1>1, SavedReadable
<1>4. /\ c = [app |-> c.app, actions |-> c.actions, menus |-> c.menus] /\ SoundApp(c.app)
      /\ IsSequence(c.actions) /\ \A i \in DOMAIN c.actions : SoundAction(c.actions[i])
      /\ IsSequence(c.menus) /\ \A i \in DOMAIN c.menus : SoundMenu(c.menus[i])
  BY DEF Sound
<1>5. doc.menus # <<>>
  <2>1. /\ Len(c.menus) \in Nat /\ DOMAIN c.menus = 1 .. Len(c.menus)
        /\ c.menus \in Seq(Range(c.menus))
    BY <1>4, SequenceIs
  <2>2. Len(c.menus) # 0
    BY <2>1, EmptySeq
  <2>3. Len(<<>>) = 0
    OBVIOUS
  <2> QED BY <1>2, <2>2, <2>3
<1>6. /\ Loaded(Good(doc)).ok = (doc.menus # <<>>)
      /\ back = [app |-> ParsedApp(doc)] ++
           (IF doc.menus = <<>> THEN Empty
            ELSE IF Legacy(doc) THEN LiftedMenus(doc.menus)
            ELSE [actions |-> A, menus |-> M])
  <2>1. Document(Good(doc)) = doc
    BY DEF Good, Document
  <2>2. MenusOf(doc) = doc.menus /\ ActionsOf(doc) = doc.actions
    BY <1>2 DEF MenusOf, ActionsOf, Given
  <2>3. Current(doc.actions, doc.menus) = [actions |-> A, menus |-> M]
    BY DEF Current
  <2> HIDE DEF A, M
  <2> QED BY <2>1, <2>2, <2>3, LoadedIs
<1>7. back = [app |-> c.app, actions |-> A, menus |-> M]
  <2>1. ParsedApp(doc) = c.app
    BY <1>2, <1>4, AppBack
  <2>2. back = [app |-> c.app] ++ [actions |-> A, menus |-> M]
    BY <1>3, <1>5, <1>6, <2>1
  <2> QED BY <2>2, ConfigIs
<1>8. M = c.menus
  <2>1. IsObject(M) /\ DOMAIN M = DOMAIN c.menus /\ IsObject(c.menus)
    BY <1>2, <1>4, SequenceIs DEF IsObject
  <2>2. \A i \in DOMAIN c.menus : M[i] = c.menus[i]
    BY <1>2, <1>4, MenusBack
  <2> HIDE DEF M
  <2> QED BY <2>1, <2>2, SameObject
<1>9. [i \in DOMAIN A |-> NormalAction(A[i])] = [i \in DOMAIN c.actions |-> NormalAction(c.actions[i])]
  <2>1. DOMAIN A = DOMAIN c.actions
        /\ \A i \in DOMAIN c.actions : A[i] = ParsedAction(SavedAction(c.actions[i]))
    BY <1>2
  <2>2. \A i \in DOMAIN c.actions : ActionBack(c.actions[i])
    BY <1>4, ActionsBack
  <2>3. \A i \in DOMAIN c.actions : NormalAction(A[i]) = NormalAction(c.actions[i])
    BY <2>1, <2>2 DEF ActionBack
  <2> HIDE DEF A
  <2> QED BY <2>1, <2>3
<1> HIDE DEF back, A, M
<1>10. Normal(back) = Normal(c)
  <2> DEFINE normal == [i \in DOMAIN c.actions |-> NormalAction(c.actions[i])]
  <2>1. Normal(back) = [back EXCEPT !.actions = normal]
    BY <1>7, <1>9 DEF Normal
  <2>2. Normal(c) = [c EXCEPT !.actions = normal]
    BY DEF Normal
  <2> HIDE DEF normal
  <2>3. [back EXCEPT !.actions = normal] = [app |-> c.app, actions |-> normal, menus |-> c.menus]
    BY <1>7, <1>8
  <2>4. [c EXCEPT !.actions = normal] = [app |-> c.app, actions |-> normal, menus |-> c.menus]
    BY <1>4
  <2> QED BY <2>1, <2>2, <2>3, <2>4
<1> QED BY <1>5, <1>6, <1>10 DEF RoundTrip, back, doc

-----------------------------------------------------------------------------
(* The older schema.                                                       *)

\* What tlapm does not know of QString::number.
NumeralsApart == \A m, n \in Nat : Numeral(m) = Numeral(n) => m = n

LEMMA Singleton == \A x : IsSequence(<<x>>) /\ Len(<<x>>) = 1 /\ <<x>>[1] = x
<1> SUFFICES ASSUME NEW x PROVE IsSequence(<<x>>) /\ Len(<<x>>) = 1 /\ <<x>>[1] = x
  OBVIOUS
<1>1. <<x>> \in Seq({x})
  OBVIOUS
<1> QED BY <1>1, SequenceOf

LEMMA SlugIs ==
  ASSUME NEW words, IsSequence(words), NEW prefix
  PROVE  IsSequence(Slug(words, prefix))
<1> DEFINE rest == IF words = <<>> THEN <<prefix>> ELSE words
<1>1. IsSequence(<<prefix>>) /\ IsSequence(rest)
  BY Singleton
<1>2. Slug(words, prefix) = <<prefix>> \o rest
  BY DEF Slug
<1> HIDE DEF rest
<1> DEFINE first == <<prefix>>
<1>3. Slug(words, prefix) = first \o rest /\ IsSequence(first)
  BY <1>1, <1>2
<1> HIDE DEF first
<1> QED BY <1>1, <1>3, ConcatIs

LEMMA UniqueIdIs ==
  ASSUME NEW words, IsSequence(words), NEW prefix, NEW existing
  PROVE  IsSequence(UniqueId(words, prefix, existing))
<1>1. IsSequence(Slug(words, prefix))
  BY SlugIs
<1>2. \A x : IsSequence(Append(Slug(words, prefix), x))
  BY <1>1, AppendIs
<1> QED BY <1>1, <1>2 DEF UniqueId

LEMMA LeastOf ==
  ASSUME NEW S, S \subseteq Nat, S # {}
  PROVE  Min(S) \in S
<1>1. PICK x \in S : \A y \in S : ~(<<y, x>> \in OpToRel(<, Nat))
  BY NatLessThanWellFounded, WFMin
<1>2. \A y \in S : x <= y
  <2>1. ASSUME NEW y \in S PROVE x <= y
    <3>1. y \in Nat /\ x \in Nat
      OBVIOUS
    <3>2. y < x => <<y, x>> \in OpToRel(<, Nat)
      BY <3>1 DEF OpToRel
    <3>3. ~(<<y, x>> \in OpToRel(<, Nat))
      BY <1>1
    <3>4. ~(y < x)
      BY <3>2, <3>3
    <3> QED BY <3>1, <3>4
  <2> QED BY <2>1
<1> QED BY <1>2 DEF Min

\* A name that is taken gets a number that makes it free: of one number more
\* than there are ids, not all are taken.
LEMMA UniqueIdFresh ==
  ASSUME NEW words, IsSequence(words), NEW prefix, NEW existing, IsFiniteSet(existing),
         NumeralsApart
  PROVE  UniqueId(words, prefix, existing) \notin existing
<1> DEFINE id == Slug(words, prefix)
           top == Cardinality(existing) + 2
           free == {n \in 2 .. top : Append(id, Numeral(n)) \notin existing}
<1>1. Cardinality(existing) \in Nat
  BY FS_CardinalityType
<1>2. IsSequence(id)
  BY SlugIs
<1> HIDE DEF id
<1>3. free # {}
  <2> SUFFICES ASSUME free = {} PROVE FALSE
    OBVIOUS
  <2> DEFINE f == [n \in 2 .. top |-> Append(id, Numeral(n))]
  <2>1. f \in [2 .. top -> existing]
    OBVIOUS
  <2>2. IsFiniteSet(2 .. top) /\ Cardinality(2 .. top) = Cardinality(existing) + 1
    BY <1>1, FS_Interval
  <2>3. Cardinality(existing) < Cardinality(2 .. top)
    BY <1>1, <2>2
  <2>4. \A m, n \in 2 .. top : f[m] = f[n] => Numeral(m) = Numeral(n)
    <3>1. ASSUME NEW m \in 2 .. top, NEW n \in 2 .. top, f[m] = f[n]
          PROVE  Numeral(m) = Numeral(n)
      <4>1. Append(id, Numeral(m)) = Append(id, Numeral(n))
        BY <3>1
      <4>2. Append(id, Numeral(m))[Len(id) + 1] = Numeral(m)
        BY <1>2, AppendIs
      <4>3. Append(id, Numeral(n))[Len(id) + 1] = Numeral(n)
        BY <1>2, AppendIs
      <4> QED BY <4>1, <4>2, <4>3
    <3> QED BY <3>1
  <2> HIDE DEF f
  <2> DEFINE T == 2 .. top
  <2>5. \E m, n \in T : m # n /\ f[m] = f[n]
    <3>1. IsFiniteSet(T) /\ Cardinality(existing) < Cardinality(T) /\ f \in [T -> existing]
      BY <2>1, <2>2, <2>3
    <3> HIDE DEF T
    <3> QED BY <3>1, FS_PigeonHole
  <2> PICK m, n \in T : m # n /\ f[m] = f[n]
    BY <2>5
  <2>6. m \in Nat /\ n \in Nat
    BY <1>1
  <2> QED BY <2>4, <2>6 DEF NumeralsApart
<1>4. free \subseteq Nat
  BY <1>1
<1>5. Min(free) \in free
  BY <1>3, <1>4, LeastOf
<1>6. Append(id, Numeral(Min(free))) \notin existing
  BY <1>5
<1> QED BY <1>6 DEF UniqueId, id

\* An action of an older menu: its name, no channel, and an id of its own.
Named(obj, action) == Given(obj, "name") => action.name = obj.name

PlainAction(action) == SoundAction(action) /\ action.channel = 0

LEMMA LiftedItem ==
  ASSUME NEW path, path # Null,
         NEW item, item = [type |-> "launch_app", args |-> [presetId |-> "custom", customTarget |-> path]]
  PROVE  SoundItem(item)
<1>1. item.type = "launch_app" /\ item.args = [presetId |-> "custom", customTarget |-> path]
  OBVIOUS
<1>2. item.type \in DOMAIN ItemDefaults /\ item.type \notin {"cancel", "socket"}
  BY <1>1, ItemNames
<1> DEFINE args == item.args
<1>3. DOMAIN ItemDefaults["launch_app"] = {"presetId", "customTarget"}
  BY LaunchDefaults
<1>4. IsObject(args) /\ DOMAIN args = {"presetId", "customTarget"}
      /\ args["presetId"] = "custom" /\ args["customTarget"] = path
  BY <1>1 DEF IsObject
<1> HIDE DEF args
<1>5. Complete(args, ItemDefaults["launch_app"])
  BY <1>3, <1>4, NoNulls DEF Complete, Filled, IsObject
<1>6. item = [type |-> item.type, args |-> item.args]
  OBVIOUS
<1> QED BY <1>1, <1>2, <1>5, <1>6 DEF SoundItem, args

LEMMA LiftedActionIs ==
  ASSUME NEW actions, NEW menuId, IsSequence(menuId), NEW obj,
         Given(obj, "name") => IsSequence(obj.name), ~ IsObject(Null)
  PROVE  /\ PlainAction(LiftedAction(actions, menuId, obj))
         /\ Named(obj, LiftedAction(actions, menuId, obj))
         /\ \E words : IsSequence(words)
              /\ LiftedAction(actions, menuId, obj).id = UniqueId(words, "action", Ids(actions))
<1> DEFINE a == LiftedAction(actions, menuId, obj)
           read == Fields(obj, [name |-> <<"unnamed", "action">>, type |-> "", path |-> ""])
           words == menuId \o read.name
           id == UniqueId(words, "action", Ids(actions))
           item == [type |-> "launch_app", args |-> [presetId |-> "custom", customTarget |-> read.path]]
           items == IF read.type # "script" THEN <<>> ELSE <<item>>
<1>1. /\ read.name = IF Given(obj, "name") THEN obj.name ELSE <<"unnamed", "action">>
      /\ read.path # Null
  BY NoNulls DEF Fields, Given
<1>2. IsSequence(read.name)
  <2>1. <<"unnamed", "action">> \in Seq({"unnamed", "action"})
    OBVIOUS
  <2>2. IsSequence(<<"unnamed", "action">>)
    BY <2>1, SequenceOf
  <2> HIDE DEF read
  <2> QED BY <1>1, <2>2
<1>3. a = [ActionDefaults EXCEPT !.id = id, !.name = read.name, !.items = items]
  BY DEF LiftedAction
<1> HIDE DEF read, id
<1>4. IsSequence(words)
  BY <1>2, ConcatIs
<1>5. IsSequence(id)
  BY <1>4, UniqueIdIs DEF id
<1>6. IsSequence(items) /\ \A i \in DOMAIN items : SoundItem(items[i])
  <2>1. SoundItem(item)
    BY <1>1, LiftedItem
  <2> HIDE DEF item
  <2>2. CASE read.type # "script"
    BY <2>2, EmptySequence
  <2>3. CASE read.type = "script"
    <3>1. items = <<item>>
      BY <2>3
    <3> HIDE DEF items
    <3>2. IsSequence(<<item>>) /\ DOMAIN <<item>> = {1} /\ <<item>>[1] = item
      BY Singleton
    <3> QED BY <2>1, <3>1, <3>2
  <2> QED BY <2>2, <2>3
<1> HIDE DEF items, words
<1>7. /\ IsObject(a) /\ DOMAIN a = DOMAIN ActionDefaults
      /\ a.id = id /\ a.name = read.name /\ a.items = items /\ a.channel = 0 /\ a.icon = ""
  BY <1>3, ActionFields DEF IsObject
<1> HIDE DEF a
<1>8. \A f \in DOMAIN a : a[f] # Null
  BY <1>2, <1>5, <1>6, <1>7, ActionFields, SequenceIs, NoNulls
<1>9. Complete(a, ActionDefaults)
  BY <1>7, <1>8 DEF Complete, Filled, IsObject
<1>10. a.channel \in 0 .. Wide - 1
  BY <1>7, Casts
<1>11. PlainAction(a)
  BY <1>6, <1>7, <1>9, <1>10 DEF SoundAction, PlainAction
<1>12. Named(obj, a)
  BY <1>1, <1>7 DEF Named
<1>13. a.id = UniqueId(words, "action", Ids(actions))
  BY <1>7 DEF id
<1> QED BY <1>4, <1>11, <1>12, <1>13 DEF a

\* Ids that are all different.
Apart(s) == NumeralsApart => IsFiniteSet(Ids(s)) /\ Cardinality(Ids(s)) = Len(s)

LEMMA ApartAppend ==
  ASSUME NEW s, IsSequence(s), Apart(s), NEW x, NumeralsApart => x.id \notin Ids(s)
  PROVE  Apart(Append(s, x))
<1> DEFINE t == Append(s, x)
<1>1. /\ DOMAIN t = 1 .. Len(s) + 1 /\ Len(t) = Len(s) + 1 /\ t[Len(s) + 1] = x
      /\ \A i \in 1 .. Len(s) : t[i] = s[i]
  BY AppendIs
<1>2. Len(s) \in Nat /\ DOMAIN s = 1 .. Len(s)
  BY SequenceIs
<1> HIDE DEF t
<1>3. Ids(t) = Ids(s) \cup {x.id}
  <2>1. ASSUME NEW i \in DOMAIN t PROVE t[i].id \in Ids(s) \cup {x.id}
    <3>1. CASE i \in 1 .. Len(s)
      BY <1>1, <1>2, <3>1 DEF Ids
    <3>2. CASE i = Len(s) + 1
      BY <1>1, <3>2
    <3> QED BY <1>1, <1>2, <2>1, <3>1, <3>2
  <2>2. ASSUME NEW i \in DOMAIN s PROVE s[i].id \in Ids(t)
    <3>1. i \in DOMAIN t /\ t[i] = s[i]
      BY <1>1, <1>2
    <3> QED BY <3>1 DEF Ids
  <2>3. x.id \in Ids(t)
    <3>1. Len(s) + 1 \in DOMAIN t
      BY <1>1, <1>2
    <3> QED BY <1>1, <3>1 DEF Ids
  <2> QED BY <2>1, <2>2, <2>3 DEF Ids
<1>4. ASSUME NumeralsApart PROVE IsFiniteSet(Ids(t)) /\ Cardinality(Ids(t)) = Len(t)
  <2>1. IsFiniteSet(Ids(s)) /\ Cardinality(Ids(s)) = Len(s) /\ x.id \notin Ids(s)
    BY <1>4 DEF Apart
  <2> DEFINE I == Ids(s)
             y == x.id
  <2>2. IsFiniteSet(I) /\ Cardinality(I) = Len(s) /\ y \notin I
    BY <2>1
  <2> HIDE DEF I, y
  <2>3. IsFiniteSet(I \cup {y}) /\ Cardinality(I \cup {y}) = Len(s) + 1
    BY <2>2, FS_AddElement
  <2> QED BY <1>1, <1>3, <2>3 DEF I, y
<1>5. Apart(t)
  BY <1>4 DEF Apart
<1> QED BY <1>5 DEF t

\* The recursive function that LiftedActions evaluates, as far as m.
ActionsLift(actions, menuId, objs, m, f) ==
  f = [n \in 0 .. m |->
         IF n = 0 THEN actions
         ELSE Append(f[n - 1], LiftedAction(f[n - 1], menuId, objs[n]))]

LEMMA ActionsLiftExists ==
  ASSUME NEW actions, NEW menuId, NEW objs, NEW m \in Nat
  PROVE  \E f : ActionsLift(actions, menuId, objs, m, f)
<1> DEFINE Q == {k \in Nat : \E f : ActionsLift(actions, menuId, objs, k, f)}
<1>1. 0 \in Q
  <2> DEFINE f == [n \in 0 .. 0 |-> actions]
  <2>1. ActionsLift(actions, menuId, objs, 0, f)
    BY DEF ActionsLift
  <2> QED BY <2>1
<1>2. ASSUME NEW k \in Nat, k \in Q PROVE k + 1 \in Q
  <2>1. PICK f : ActionsLift(actions, menuId, objs, k, f)
    BY <1>2
  <2> DEFINE last == Append(f[k], LiftedAction(f[k], menuId, objs[k + 1]))
             g == [n \in 0 .. k + 1 |-> IF n = k + 1 THEN last ELSE f[n]]
             e(n) == IF n = 0 THEN actions
                     ELSE Append(g[n - 1], LiftedAction(g[n - 1], menuId, objs[n]))
  <2>2. \A n \in 0 .. k : g[n] = f[n]
    OBVIOUS
  <2>3. g[k + 1] = last
    OBVIOUS
  <2>4. \A n \in 0 .. k : f[n] = IF n = 0 THEN actions
         ELSE Append(f[n - 1], LiftedAction(f[n - 1], menuId, objs[n]))
    BY <2>1 DEF ActionsLift
  <2>5. \A n \in 0 .. k + 1 : g[n] = e(n)
    <3> HIDE DEF g
    <3>1. ASSUME NEW n \in 0 .. k PROVE g[n] = e(n)
      <4>1. n = 0 \/ n - 1 \in 0 .. k
        OBVIOUS
      <4> QED BY <2>2, <2>4, <4>1
    <3>2. g[k + 1] = e(k + 1)
      <4>1. k + 1 # 0 /\ (k + 1) - 1 = k /\ k \in 0 .. k
        OBVIOUS
      <4> QED BY <2>2, <2>3, <4>1
    <3> QED BY <3>1, <3>2
  <2>6. g = [n \in 0 .. k + 1 |-> g[n]]
    OBVIOUS
  <2>7. g = [n \in 0 .. k + 1 |-> e(n)]
    <3> HIDE DEF g, e
    <3> QED BY <2>5, <2>6
  <2>8. ActionsLift(actions, menuId, objs, k + 1, g)
    BY <2>7 DEF ActionsLift
  <2> QED BY <2>8
<1> HIDE DEF Q
<1>3. Nat \subseteq Q
  BY <1>1, <1>2, NatInduct
<1> QED BY <1>3 DEF Q

\* What stands after n of the actions of an older menu are lifted.
AreActions(s) ==
  IsSequence(s) /\ (\A i \in DOMAIN s : PlainAction(s[i])) /\ Apart(s)

Lifted(actions, objs, n, t) ==
  /\ AreActions(t) /\ Len(t) = Len(actions) + n
  /\ \A i \in 1 .. Len(actions) : t[i] = actions[i]
  /\ \A k \in 1 .. n : Named(objs[k], t[Len(actions) + k])

LEMMA LiftedStep ==
  ASSUME NEW actions, IsSequence(actions), NEW menuId, IsSequence(menuId), NEW objs,
         NEW n \in Nat, NEW t, Lifted(actions, objs, n, t),
         Given(objs[n + 1], "name") => IsSequence(objs[n + 1].name), ~ IsObject(Null)
  PROVE  Lifted(actions, objs, n + 1, Append(t, LiftedAction(t, menuId, objs[n + 1])))
<1> DEFINE x == LiftedAction(t, menuId, objs[n + 1])
           u == Append(t, x)
<1>1. /\ IsSequence(t) /\ (\A i \in DOMAIN t : PlainAction(t[i])) /\ Apart(t)
      /\ Len(t) = Len(actions) + n
      /\ \A i \in 1 .. Len(actions) : t[i] = actions[i]
      /\ \A k \in 1 .. n : Named(objs[k], t[Len(actions) + k])
  BY DEF Lifted, AreActions
<1>2. PlainAction(x) /\ Named(objs[n + 1], x)
  BY LiftedActionIs
<1>3. PICK words : IsSequence(words) /\ x.id = UniqueId(words, "action", Ids(t))
  BY LiftedActionIs
<1> HIDE DEF x
<1>4. /\ IsSequence(u) /\ Len(u) = Len(t) + 1 /\ DOMAIN u = 1 .. Len(t) + 1
      /\ \A i \in 1 .. Len(t) : u[i] = t[i]
      /\ u[Len(t) + 1] = x
  BY <1>1, AppendIs
<1>5. Len(actions) \in Nat /\ DOMAIN t = 1 .. Len(t)
  BY <1>1, SequenceIs
<1>6. Apart(u)
  <2>1. ASSUME NumeralsApart PROVE x.id \notin Ids(t)
    <3>1. IsFiniteSet(Ids(t))
      BY <1>1, <2>1 DEF Apart
    <3> QED BY <1>3, <2>1, <3>1, UniqueIdFresh
  <2> QED BY <1>1, <2>1, ApartAppend
<1> HIDE DEF u
<1>7. ASSUME NEW i \in DOMAIN u PROVE PlainAction(u[i])
  <2>1. CASE i \in 1 .. Len(t)
    BY <1>1, <1>4, <1>5, <2>1
  <2>2. CASE i = Len(t) + 1
    BY <1>2, <1>4, <2>2
  <2> QED BY <1>4, <1>5, <2>1, <2>2
<1>8. \A i \in 1 .. Len(actions) : u[i] = actions[i]
  BY <1>1, <1>4, <1>5
<1>9. ASSUME NEW k \in 1 .. n + 1 PROVE Named(objs[k], u[Len(actions) + k])
  <2>1. CASE k \in 1 .. n
    <3>1. u[Len(actions) + k] = t[Len(actions) + k]
      BY <1>1, <1>4, <1>5, <2>1
    <3> QED BY <1>1, <2>1, <3>1
  <2>2. CASE k = n + 1
    <3>1. u[Len(actions) + k] = x
      BY <1>1, <1>4, <1>5, <2>2
    <3> QED BY <1>2, <2>2, <3>1
  <2> QED BY <2>1, <2>2
<1>10. Len(u) = Len(actions) + (n + 1)
  BY <1>1, <1>4, <1>5
<1>11. Lifted(actions, objs, n + 1, u)
  BY <1>4, <1>6, <1>7, <1>8, <1>9, <1>10 DEF Lifted, AreActions
<1> QED BY <1>11 DEF u, x

\* All of them.
LEMMA LiftedAll ==
  ASSUME NEW actions, AreActions(actions), NEW menuId, IsSequence(menuId),
         NEW objs, IsSequence(objs),
         \A i \in DOMAIN objs : Given(objs[i], "name") => IsSequence(objs[i].name),
         ~ IsObject(Null)
  PROVE  Lifted(actions, objs, Len(objs), LiftedActions(actions, menuId, objs))
<1>1. Len(objs) \in Nat /\ DOMAIN objs = 1 .. Len(objs)
  BY SequenceIs
<1> DEFINE f == CHOOSE g : ActionsLift(actions, menuId, objs, Len(objs), g)
<1>2. ActionsLift(actions, menuId, objs, Len(objs), f)
  BY <1>1, ActionsLiftExists
<1>3. LiftedActions(actions, menuId, objs) = f[Len(objs)]
  BY DEF LiftedActions, ActionsLift
<1> HIDE DEF f
<1>4. \A n \in 0 .. Len(objs) :
        f[n] = IF n = 0 THEN actions
               ELSE Append(f[n - 1], LiftedAction(f[n - 1], menuId, objs[n]))
  BY <1>1, <1>2 DEF ActionsLift
<1> DEFINE Q == {n \in Nat : n <= Len(objs) => Lifted(actions, objs, n, f[n])}
<1>5. 0 \in Q
  <2>1. f[0] = actions
    BY <1>1, <1>4
  <2>2. Len(actions) \in Nat
    BY SequenceIs DEF AreActions
  <2>3. Lifted(actions, objs, 0, actions)
    BY <2>2 DEF Lifted
  <2> QED BY <2>1, <2>3
<1>6. ASSUME NEW n \in Nat, n \in Q PROVE n + 1 \in Q
  <2> SUFFICES ASSUME n + 1 <= Len(objs) PROVE Lifted(actions, objs, n + 1, f[n + 1])
    OBVIOUS
  <2>1. Lifted(actions, objs, n, f[n])
    BY <1>1, <1>6
  <2>2. f[n + 1] = Append(f[n], LiftedAction(f[n], menuId, objs[n + 1]))
    <3>1. n + 1 \in 0 .. Len(objs) /\ n + 1 # 0 /\ (n + 1) - 1 = n
      BY <1>1
    <3> QED BY <1>4, <3>1
  <2>3. n + 1 \in DOMAIN objs
    BY <1>1
  <2>4. Given(objs[n + 1], "name") => IsSequence(objs[n + 1].name)
    BY <2>3
  <2>5. IsSequence(actions)
    BY DEF AreActions
  <2> QED BY <2>1, <2>2, <2>4, <2>5, LiftedStep
<1> HIDE DEF Q
<1>7. Nat \subseteq Q
  BY <1>5, <1>6, NatInduct
<1>8. Lifted(actions, objs, Len(objs), f[Len(objs)])
  BY <1>1, <1>7 DEF Q
<1> QED BY <1>3, <1>8

\* What a menu of the older schema may set, and what it may not.
LEMMA OldMenuFields ==
  LET set == Options ++ [name |-> MenuDefaults.name]
  IN  /\ DOMAIN set \subseteq DOMAIN MenuDefaults
      /\ \A f \in DOMAIN set : set[f] = MenuDefaults[f]
      /\ {"id", "actionIds", "rice"} \cap DOMAIN set = {}
      /\ {"id", "actionIds", "rice"} \subseteq DOMAIN MenuDefaults
<1> DEFINE set == Options ++ [name |-> MenuDefaults.name]
           own == [id |-> <<>>, name |-> <<"unnamed", "menu">>, triggerMod |-> 0, triggerVk |-> 0,
                   useLowLevelHook |-> FALSE, actionIds |-> <<>>, rice |-> NoFields]
           one == [name |-> MenuDefaults.name]
<1>1. /\ DOMAIN Options = {"executeOnRelease", "exitOnAction", "centerMouseOnOpen",
                           "restoreMouseOnClose", "deferUntilExit"}
      /\ DOMAIN own = {"id", "name", "triggerMod", "triggerVk", "useLowLevelHook", "actionIds", "rice"}
      /\ DOMAIN one = {"name"} /\ one["name"] = MenuDefaults["name"]
  BY DEF Options
<1>2. MenuDefaults = own ++ Options
  BY DEF MenuDefaults
<1>3. /\ DOMAIN MenuDefaults = DOMAIN own \cup DOMAIN Options
      /\ \A f \in DOMAIN Options \ DOMAIN own : MenuDefaults[f] = Options[f]
  <2> HIDE DEF own
  <2> QED BY <1>2 DEF ++
<1> HIDE DEF own, one
<1>4. /\ DOMAIN set = DOMAIN Options \cup DOMAIN one
      /\ \A f \in DOMAIN Options : set[f] = Options[f]
      /\ \A f \in DOMAIN one \ DOMAIN Options : set[f] = one[f]
  BY DEF ++, one
<1> HIDE DEF set
<1>5. \A f \in DOMAIN set : f \in DOMAIN MenuDefaults /\ set[f] = MenuDefaults[f]
  BY <1>1, <1>3, <1>4
<1>6. {"id", "actionIds", "rice"} \cap DOMAIN set = {}
  BY <1>1, <1>4
<1>7. {"id", "actionIds", "rice"} \subseteq DOMAIN MenuDefaults
  BY <1>1, <1>3
<1> QED BY <1>5, <1>6, <1>7 DEF set

\* A menu for an older one, with a slot for each of its actions.
Slots(menu, old, before, actions) ==
  /\ Len(menu.actionIds) = Len(old)
  /\ \A s \in DOMAIN old : menu.actionIds[s] = actions[Len(before) + s].id

LEMMA OldMenuSound ==
  ASSUME NEW obj, NEW id, id # Null, NEW slots, slots # Null,
         NEW menu, menu = Fields(obj, Options ++ [name |-> MenuDefaults.name])
                            ++ [id |-> id, actionIds |-> slots] ++ MenuDefaults,
         ~ IsObject(Null)
  PROVE  SoundMenu(menu) /\ menu.id = id /\ menu.actionIds = slots
<1> DEFINE set == Options ++ [name |-> MenuDefaults.name]
           read == Fields(obj, set)
           given == [id |-> id, actionIds |-> slots]
           both == read ++ given
<1>1. /\ DOMAIN set \subseteq DOMAIN MenuDefaults
      /\ \A f \in DOMAIN set : set[f] = MenuDefaults[f]
      /\ {"id", "actionIds", "rice"} \cap DOMAIN set = {}
      /\ {"id", "actionIds", "rice"} \subseteq DOMAIN MenuDefaults
  BY OldMenuFields
<1>2. DOMAIN given = {"id", "actionIds"} /\ given["id"] = id /\ given["actionIds"] = slots
  OBVIOUS
<1>3. menu = both ++ MenuDefaults
  OBVIOUS
<1> HIDE DEF set
<1>4. DOMAIN read = DOMAIN set /\ \A f \in DOMAIN set : read[f] # Null
  <2>1. Filled(set)
    BY <1>1, NoNulls DEF Filled
  <2>2. Complete(read, set)
    BY <2>1, FieldsComplete
  <2> HIDE DEF read
  <2> QED BY <2>2, CompleteObject
<1> HIDE DEF given, read
<1>5. /\ DOMAIN both = DOMAIN read \cup DOMAIN given
      /\ \A f \in DOMAIN read : both[f] = read[f]
      /\ \A f \in DOMAIN given \ DOMAIN read : both[f] = given[f]
  BY DEF ++
<1> HIDE DEF both
<1>6. /\ IsObject(menu) /\ DOMAIN menu = DOMAIN both \cup DOMAIN MenuDefaults
      /\ \A f \in DOMAIN both : menu[f] = both[f]
      /\ \A f \in DOMAIN MenuDefaults \ DOMAIN both : menu[f] = MenuDefaults[f]
  BY <1>3 DEF ++, IsObject
<1>7. menu["id"] = id /\ menu["actionIds"] = slots /\ menu["rice"] = NoFields
  BY <1>1, <1>2, <1>4, <1>5, <1>6, MenuFields
<1>8. DOMAIN menu = DOMAIN MenuDefaults
  BY <1>1, <1>2, <1>4, <1>5, <1>6
<1>9. ASSUME NEW f \in DOMAIN menu PROVE menu[f] # Null
  <2>1. CASE f \in DOMAIN read
    BY <1>4, <1>5, <1>6, <2>1
  <2>2. CASE f \in {"id", "actionIds"}
    BY <1>7, <2>2
  <2>3. CASE f \notin DOMAIN both
    BY <1>6, <1>8, <2>3, NoNulls DEF Filled
  <2> QED BY <1>2, <1>5, <2>1, <2>2, <2>3
<1>10. Complete(menu, MenuDefaults)
  BY <1>6, <1>8, <1>9 DEF Complete, Filled, IsObject
<1>11. Complete(menu["rice"], menu["rice"])
  BY <1>7, MenuFields
<1> QED BY <1>7, <1>10, <1>11 DEF SoundMenu

LEMMA OldActionsIs ==
  ASSUME NEW obj, ReadableOldMenu(obj)
  PROVE  /\ IsSequence(OldActions(obj))
         /\ \A i \in DOMAIN OldActions(obj) :
              Given(OldActions(obj)[i], "name") => IsSequence(OldActions(obj)[i].name)
<1>1. OldActions(obj) = IF Given(obj, "actions") THEN obj.actions ELSE <<>>
  BY DEF OldActions, Fields
<1>2. CASE Given(obj, "actions")
  BY <1>1, <1>2 DEF ReadableOldMenu
<1>3. CASE ~ Given(obj, "actions")
  <2>1. OldActions(obj) = <<>>
    BY <1>1, <1>3
  <2> QED BY <2>1, EmptySequence
<1> QED BY <1>2, <1>3

LEMMA LiftedMenuIs ==
  ASSUME NEW lib, AreActions(lib.actions), NEW obj, ReadableOldMenu(obj), ~ IsObject(Null)
  PROVE  \E menu, actions, words :
           /\ LiftedMenu(lib, obj) = [actions |-> actions, menus |-> Append(lib.menus, menu)]
           /\ SoundMenu(menu) /\ IsSequence(words)
           /\ menu.id = UniqueId(words, "menu", Ids(lib.menus))
           /\ Lifted(lib.actions, OldActions(obj), Len(OldActions(obj)), actions)
           /\ Slots(menu, OldActions(obj), lib.actions, actions)
<1> DEFINE words == Fields(obj, [name |-> <<"menu">>]).name
           id == UniqueId(words, "menu", Ids(lib.menus))
           old == OldActions(obj)
           actions == LiftedActions(lib.actions, id, old)
           slots == [i \in DOMAIN old |-> actions[Len(lib.actions) + i].id]
           menu == Fields(obj, Options ++ [name |-> MenuDefaults.name])
                     ++ [id |-> id, actionIds |-> slots] ++ MenuDefaults
<1>1. LiftedMenu(lib, obj) = [actions |-> actions, menus |-> Append(lib.menus, menu)]
  BY DEF LiftedMenu
<1>2. IsSequence(words)
  <2>1. words = IF Given(obj, "name") THEN obj.name ELSE <<"menu">>
    BY DEF Fields
  <2>2. IsSequence(<<"menu">>)
    BY Singleton
  <2> HIDE DEF words
  <2> QED BY <2>1, <2>2 DEF ReadableOldMenu
<1> HIDE DEF words
<1>3. IsSequence(id)
  BY <1>2, UniqueIdIs
<1>4. /\ IsSequence(old)
      /\ \A i \in DOMAIN old : Given(old[i], "name") => IsSequence(old[i].name)
  BY OldActionsIs
<1> HIDE DEF id, old
<1>5. Lifted(lib.actions, old, Len(old), actions)
  BY <1>3, <1>4, LiftedAll
<1> HIDE DEF actions
<1>6. IsObject(slots) /\ DOMAIN slots = 1 .. Len(old) /\ Len(old) \in Nat
      /\ \A i \in DOMAIN old : slots[i] = actions[Len(lib.actions) + i].id
  BY <1>4, SequenceIs DEF IsObject
<1> HIDE DEF slots
<1>7. IsSequence(slots) /\ Len(slots) = Len(old)
  BY <1>6, SequenceBuilt
<1>8. id # Null /\ slots # Null
  BY <1>3, <1>7, SequenceIs
<1>9. SoundMenu(menu) /\ menu.id = id /\ menu.actionIds = slots
  BY <1>8, OldMenuSound
<1> HIDE DEF menu
<1>10. Slots(menu, old, lib.actions, actions)
  BY <1>6, <1>7, <1>9 DEF Slots
<1> QED BY <1>1, <1>2, <1>5, <1>9, <1>10 DEF id, old

\* The recursive function that LiftedMenus evaluates, as far as m.
MenusLift(objs, m, f) ==
  f = [n \in 0 .. m |-> IF n = 0 THEN Empty ELSE LiftedMenu(f[n - 1], objs[n])]

LEMMA MenusLiftExists ==
  ASSUME NEW objs, NEW m \in Nat
  PROVE  \E f : MenusLift(objs, m, f)
<1> DEFINE Q == {k \in Nat : \E f : MenusLift(objs, k, f)}
<1>1. 0 \in Q
  <2> DEFINE f == [n \in 0 .. 0 |-> Empty]
  <2>1. MenusLift(objs, 0, f)
    BY DEF MenusLift
  <2> QED BY <2>1
<1>2. ASSUME NEW k \in Nat, k \in Q PROVE k + 1 \in Q
  <2>1. PICK f : MenusLift(objs, k, f)
    BY <1>2
  <2> DEFINE last == LiftedMenu(f[k], objs[k + 1])
             g == [n \in 0 .. k + 1 |-> IF n = k + 1 THEN last ELSE f[n]]
             e(n) == IF n = 0 THEN Empty ELSE LiftedMenu(g[n - 1], objs[n])
  <2>2. \A n \in 0 .. k : g[n] = f[n]
    OBVIOUS
  <2>3. g[k + 1] = last
    OBVIOUS
  <2>4. \A n \in 0 .. k : f[n] = IF n = 0 THEN Empty ELSE LiftedMenu(f[n - 1], objs[n])
    BY <2>1 DEF MenusLift
  <2>5. \A n \in 0 .. k + 1 : g[n] = e(n)
    <3> HIDE DEF g
    <3>1. ASSUME NEW n \in 0 .. k PROVE g[n] = e(n)
      <4>1. n = 0 \/ n - 1 \in 0 .. k
        OBVIOUS
      <4> QED BY <2>2, <2>4, <4>1
    <3>2. g[k + 1] = e(k + 1)
      <4>1. k + 1 # 0 /\ (k + 1) - 1 = k /\ k \in 0 .. k
        OBVIOUS
      <4> QED BY <2>2, <2>3, <4>1
    <3> QED BY <3>1, <3>2
  <2>6. g = [n \in 0 .. k + 1 |-> g[n]]
    OBVIOUS
  <2>7. g = [n \in 0 .. k + 1 |-> e(n)]
    <3> HIDE DEF g, e
    <3> QED BY <2>5, <2>6
  <2>8. MenusLift(objs, k + 1, g)
    BY <2>7 DEF MenusLift
  <2> QED BY <2>8
<1> HIDE DEF Q
<1>3. Nat \subseteq Q
  BY <1>1, <1>2, NatInduct
<1> QED BY <1>3 DEF Q

\* Every slot of a menu has the action that stood there.
Keeps(menu, old, actions) ==
  /\ Len(menu.actionIds) = Len(old)
  /\ \A s \in DOMAIN old : \E a \in DOMAIN actions :
       actions[a].id = menu.actionIds[s] /\ Named(old[s], actions[a])

\* What stands after n of the older menus are lifted.
Library(objs, n, lib) ==
  /\ lib = [actions |-> lib.actions, menus |-> lib.menus]
  /\ AreActions(lib.actions)
  /\ IsSequence(lib.menus) /\ Len(lib.menus) = n /\ Apart(lib.menus)
  /\ \A m \in 1 .. n :
       SoundMenu(lib.menus[m]) /\ Keeps(lib.menus[m], OldActions(objs[m]), lib.actions)

LEMMA EmptyLibrary == \A objs : Library(objs, 0, Empty)
<1>1. Empty.actions = <<>> /\ Empty.menus = <<>>
      /\ Empty = [actions |-> Empty.actions, menus |-> Empty.menus]
  BY DEF Empty
<1> DEFINE none == <<>>
<1>2. IsSequence(none) /\ DOMAIN none = {} /\ Len(none) = 0
  BY EmptySequence
<1> HIDE DEF none
<1>3. Ids(none) = {}
  BY <1>2 DEF Ids
<1>4. Apart(none)
  BY <1>2, <1>3, FS_EmptySet DEF Apart
<1>5. AreActions(none)
  BY <1>2, <1>4 DEF AreActions
<1>6. Empty.actions = none /\ Empty.menus = none
  BY <1>1 DEF none
<1> QED BY <1>1, <1>2, <1>4, <1>5, <1>6 DEF Library

LEMMA LibraryStep ==
  ASSUME NEW objs, NEW n \in Nat, NEW lib, Library(objs, n, lib),
         ReadableOldMenu(objs[n + 1]), ~ IsObject(Null)
  PROVE  Library(objs, n + 1, LiftedMenu(lib, objs[n + 1]))
<1> DEFINE obj == objs[n + 1]
           old == OldActions(obj)
           next == LiftedMenu(lib, obj)
<1>1. /\ AreActions(lib.actions)
      /\ IsSequence(lib.menus) /\ Len(lib.menus) = n /\ Apart(lib.menus)
      /\ \A m \in 1 .. n :
           SoundMenu(lib.menus[m]) /\ Keeps(lib.menus[m], OldActions(objs[m]), lib.actions)
  BY DEF Library
<1>2. PICK menu, actions, words :
        /\ next = [actions |-> actions, menus |-> Append(lib.menus, menu)]
        /\ SoundMenu(menu) /\ IsSequence(words)
        /\ menu.id = UniqueId(words, "menu", Ids(lib.menus))
        /\ Lifted(lib.actions, old, Len(old), actions)
        /\ Slots(menu, old, lib.actions, actions)
  BY <1>1, LiftedMenuIs
<1> DEFINE menus == Append(lib.menus, menu)
<1>3. next = [actions |-> next.actions, menus |-> next.menus]
      /\ next.actions = actions /\ next.menus = menus
  BY <1>2
<1>4. /\ IsSequence(menus) /\ Len(menus) = n + 1
      /\ \A i \in 1 .. n : menus[i] = lib.menus[i]
      /\ menus[n + 1] = menu
  BY <1>1, AppendIs
<1>5. Apart(menus)
  <2>1. ASSUME NumeralsApart PROVE menu.id \notin Ids(lib.menus)
    <3>1. IsFiniteSet(Ids(lib.menus))
      BY <1>1, <2>1 DEF Apart
    <3> QED BY <1>2, <2>1, <3>1, UniqueIdFresh
  <2> QED BY <1>1, <2>1, ApartAppend
<1> HIDE DEF next, menus
<1>6. /\ AreActions(actions) /\ Len(actions) = Len(lib.actions) + Len(old)
      /\ \A i \in 1 .. Len(lib.actions) : actions[i] = lib.actions[i]
      /\ \A k \in 1 .. Len(old) : Named(old[k], actions[Len(lib.actions) + k])
  BY <1>2 DEF Lifted
<1>7. IsSequence(old) /\ Len(old) \in Nat /\ DOMAIN old = 1 .. Len(old)
  BY OldActionsIs, SequenceIs
<1>8. Len(lib.actions) \in Nat /\ DOMAIN lib.actions = 1 .. Len(lib.actions)
      /\ DOMAIN actions = 1 .. Len(actions)
  BY <1>1, <1>6, SequenceIs DEF AreActions
<1> HIDE DEF old, obj
<1>9. Keeps(menu, old, actions)
  <2>1. ASSUME NEW s \in DOMAIN old
        PROVE  \E a \in DOMAIN actions :
                 actions[a].id = menu.actionIds[s] /\ Named(old[s], actions[a])
    <3>1. Len(lib.actions) + s \in DOMAIN actions
      BY <1>6, <1>7, <1>8
    <3>2. menu.actionIds[s] = actions[Len(lib.actions) + s].id
      BY <1>2, <2>1 DEF Slots
    <3>3. Named(old[s], actions[Len(lib.actions) + s])
      BY <1>6, <1>7
    <3> QED BY <3>1, <3>2, <3>3
  <2>2. Len(menu.actionIds) = Len(old)
    BY <1>2 DEF Slots
  <2> QED BY <2>1, <2>2 DEF Keeps
<1>10. ASSUME NEW m \in 1 .. n
       PROVE  SoundMenu(menus[m]) /\ Keeps(menus[m], OldActions(objs[m]), actions)
  <2> DEFINE was == OldActions(objs[m])
             it == lib.menus[m]
  <2>1. menus[m] = it /\ SoundMenu(it) /\ Keeps(it, was, lib.actions)
    BY <1>1, <1>4
  <2> HIDE DEF was, it
  <2>2. Keeps(it, was, actions)
    <3>1. ASSUME NEW s \in DOMAIN was
          PROVE  \E a \in DOMAIN actions :
                   actions[a].id = it.actionIds[s] /\ Named(was[s], actions[a])
      <4>1. PICK a \in DOMAIN lib.actions :
              lib.actions[a].id = it.actionIds[s] /\ Named(was[s], lib.actions[a])
        BY <2>1 DEF Keeps
      <4>2. a \in DOMAIN actions /\ actions[a] = lib.actions[a]
        BY <1>6, <1>7, <1>8
      <4> QED BY <4>1, <4>2
    <3> QED BY <2>1, <3>1 DEF Keeps
  <2> QED BY <2>1, <2>2 DEF was
<1>11. ASSUME NEW m \in 1 .. n + 1
       PROVE  SoundMenu(menus[m]) /\ Keeps(menus[m], OldActions(objs[m]), actions)
  <2>1. CASE m \in 1 .. n
    BY <1>10, <2>1
  <2>2. CASE m = n + 1
    BY <1>2, <1>4, <1>9, <2>2 DEF old, obj
  <2> QED BY <2>1, <2>2
<1>12. Library(objs, n + 1, next)
  BY <1>3, <1>4, <1>5, <1>6, <1>11 DEF Library
<1> QED BY <1>12 DEF next, obj

\* A document of the older schema, as it is read.
LEMMA LegacyLibrary ==
  ASSUME NEW objs, IsSequence(objs), \A i \in DOMAIN objs : ReadableOldMenu(objs[i]),
         ~ IsObject(Null)
  PROVE  Library(objs, Len(objs), LiftedMenus(objs))
<1>1. Len(objs) \in Nat /\ DOMAIN objs = 1 .. Len(objs)
  BY SequenceIs
<1> DEFINE f == CHOOSE g : MenusLift(objs, Len(objs), g)
<1>2. MenusLift(objs, Len(objs), f)
  BY <1>1, MenusLiftExists
<1>3. LiftedMenus(objs) = f[Len(objs)]
  BY DEF LiftedMenus, MenusLift
<1> HIDE DEF f
<1>4. \A n \in 0 .. Len(objs) : f[n] = IF n = 0 THEN Empty ELSE LiftedMenu(f[n - 1], objs[n])
  BY <1>1, <1>2 DEF MenusLift
<1> DEFINE Q == {n \in Nat : n <= Len(objs) => Library(objs, n, f[n])}
<1>5. 0 \in Q
  <2>1. f[0] = Empty
    BY <1>1, <1>4
  <2> QED BY <2>1, EmptyLibrary
<1>6. ASSUME NEW n \in Nat, n \in Q PROVE n + 1 \in Q
  <2> SUFFICES ASSUME n + 1 <= Len(objs) PROVE Library(objs, n + 1, f[n + 1])
    OBVIOUS
  <2>1. Library(objs, n, f[n])
    BY <1>1, <1>6
  <2>2. f[n + 1] = LiftedMenu(f[n], objs[n + 1])
    <3>1. n + 1 \in 0 .. Len(objs) /\ n + 1 # 0 /\ (n + 1) - 1 = n
      BY <1>1
    <3> QED BY <1>4, <3>1
  <2>3. ReadableOldMenu(objs[n + 1])
    BY <1>1
  <2> QED BY <2>1, <2>2, <2>3, LibraryStep
<1> HIDE DEF Q
<1>7. Nat \subseteq Q
  BY <1>5, <1>6, NatInduct
<1>8. Library(objs, Len(objs), f[Len(objs)])
  BY <1>1, <1>7 DEF Q
<1> QED BY <1>3, <1>8

-----------------------------------------------------------------------------
(* What a file yields.                                                     *)

LEMMA NotRead ==
  ASSUME NEW f, f.state # "good" PROVE ~ Loaded(f).ok
<1>1. MenusOf(Document(f)) = <<>>
  BY DEF Document, MenusOf, Given, NoFields
<1> QED BY <1>1, LoadedIs

\* A file that was read has a document with menus.
LEMMA ReadIs ==
  ASSUME NEW f, Loaded(f).ok, NEW doc, doc = f.doc
  PROVE  /\ f.state = "good" /\ Given(doc, "menus") /\ doc.menus # <<>>
         /\ Loaded(f).config =
              [app |-> ParsedApp(doc)] ++
                (IF Legacy(doc) THEN LiftedMenus(doc.menus)
                 ELSE Current(ActionsOf(doc), doc.menus))
<1>1. f.state = "good"
  BY NotRead
<1>2. doc = Document(f)
  BY <1>1 DEF Document
<1>3. /\ Loaded(f).ok = (MenusOf(doc) # <<>>)
      /\ Loaded(f).config =
           [app |-> ParsedApp(doc)] ++
             (IF MenusOf(doc) = <<>> THEN Empty
              ELSE IF Legacy(doc) THEN LiftedMenus(MenusOf(doc))
              ELSE Current(ActionsOf(doc), MenusOf(doc)))
  BY <1>2, LoadedIs
<1>4. Given(doc, "menus") /\ MenusOf(doc) = doc.menus /\ doc.menus # <<>>
  BY <1>3 DEF MenusOf
<1> QED BY <1>1, <1>3, <1>4

LEMMA LegacyRead ==
  ASSUME NEW f, Loaded(f).ok, NEW doc, doc = f.doc, Readable(doc), Legacy(doc), ~ IsObject(Null)
  PROVE  \E lib : /\ Loaded(f).config =
                       [app |-> ParsedApp(doc), actions |-> lib.actions, menus |-> lib.menus]
                  /\ IsSequence(doc.menus) /\ doc.menus # <<>>
                  /\ Library(doc.menus, Len(doc.menus), lib)
<1> DEFINE lib == LiftedMenus(doc.menus)
<1>1. /\ Given(doc, "menus") /\ doc.menus # <<>>
      /\ Loaded(f).config = [app |-> ParsedApp(doc)] ++ lib
  BY ReadIs
<1>2. IsSequence(doc.menus) /\ \A i \in DOMAIN doc.menus : ReadableOldMenu(doc.menus[i])
  BY <1>1 DEF Readable
<1>3. Library(doc.menus, Len(doc.menus), lib)
  BY <1>2, LegacyLibrary
<1> HIDE DEF lib
<1>4. lib = [actions |-> lib.actions, menus |-> lib.menus]
  BY <1>3 DEF Library
<1>5. Loaded(f).config = [app |-> ParsedApp(doc), actions |-> lib.actions, menus |-> lib.menus]
  <2> DEFINE a == ParsedApp(doc)
             b == lib.actions
             c == lib.menus
  <2> HIDE DEF a, b, c
  <2>1. lib = [actions |-> b, menus |-> c]
    BY <1>4 DEF b, c
  <2>2. Loaded(f).config = [app |-> a] ++ [actions |-> b, menus |-> c]
    BY <1>1, <2>1 DEF a
  <2>3. Loaded(f).config = [app |-> a, actions |-> b, menus |-> c]
    BY <2>2, ConfigIs
  <2> QED BY <2>3 DEF a, b, c
<1> QED BY <1>1, <1>2, <1>3, <1>5

\* Actions and menus, as they stand in a document of the current schema.
InCurrent(c, doc, actions, menus) ==
  /\ c = [app |-> ParsedApp(doc), actions |-> actions, menus |-> menus]
  /\ IsSequence(ActionsOf(doc)) /\ IsSequence(actions) /\ Len(actions) = Len(ActionsOf(doc))
  /\ \A i \in DOMAIN actions :
       /\ i \in DOMAIN ActionsOf(doc) /\ ReadableAction(ActionsOf(doc)[i])
       /\ actions[i] = ParsedAction(ActionsOf(doc)[i])
  /\ IsSequence(menus) /\ menus # <<>> /\ \A i \in DOMAIN menus : SoundMenu(menus[i])

LEMMA CurrentRead ==
  ASSUME NEW f, Loaded(f).ok, NEW doc, doc = f.doc, Readable(doc), ~ Legacy(doc), ~ IsObject(Null)
  PROVE  \E actions, menus : InCurrent(Loaded(f).config, doc, actions, menus)
<1> DEFINE actions == ActionsOf(doc)
           A == [i \in DOMAIN actions |-> ParsedAction(actions[i])]
           M == [i \in DOMAIN doc.menus |-> ParsedMenu(doc.menus[i])]
<1>1. /\ Given(doc, "menus") /\ doc.menus # <<>>
      /\ Loaded(f).config = [app |-> ParsedApp(doc)] ++ [actions |-> A, menus |-> M]
  BY ReadIs DEF Current
<1>2. IsSequence(doc.menus)
  BY <1>1 DEF Readable
<1>3. IsSequence(actions) /\ \A i \in DOMAIN actions : ReadableAction(actions[i])
  <2>1. CASE Given(doc, "actions")
    BY <2>1 DEF Readable, ActionsOf
  <2>2. CASE ~ Given(doc, "actions")
    <3>1. actions = <<>>
      BY <2>2 DEF ActionsOf
    <3> QED BY <3>1, EmptySequence
  <2> QED BY <2>1, <2>2
<1>4. /\ IsObject(M) /\ DOMAIN M = 1 .. Len(doc.menus) /\ Len(doc.menus) \in Nat
      /\ \A i \in DOMAIN M : M[i] = ParsedMenu(doc.menus[i])
  BY <1>2, SequenceIs DEF IsObject
<1>5. /\ IsObject(A) /\ DOMAIN A = 1 .. Len(actions) /\ Len(actions) \in Nat
      /\ DOMAIN A = DOMAIN actions /\ \A i \in DOMAIN A : A[i] = ParsedAction(actions[i])
  BY <1>3, SequenceIs DEF IsObject
<1> HIDE DEF A, M, actions
<1>6. IsSequence(A) /\ Len(A) = Len(actions)
  BY <1>5, SequenceBuilt
<1>7. IsSequence(M) /\ Len(M) = Len(doc.menus)
  BY <1>4, SequenceBuilt
<1>8. M # <<>>
  <2>1. doc.menus \in Seq(Range(doc.menus))
    BY <1>2, SequenceIs
  <2>2. Len(doc.menus) # 0
    BY <1>1, <2>1, EmptySeq
  <2>3. Len(<<>>) = 0
    OBVIOUS
  <2> QED BY <1>7, <2>2, <2>3
<1>9. \A i \in DOMAIN M : SoundMenu(M[i])
  BY <1>4, ParsedMenuSound
<1>10. Loaded(f).config = [app |-> ParsedApp(doc), actions |-> A, menus |-> M]
  BY <1>1, ConfigIs
<1> QED BY <1>5, <1>3, <1>7, <1>8, <1>9, <1>10, <1>6 DEF InCurrent, actions

\* What is loaded is sound.
LEMMA LoadedSound ==
  ASSUME NEW f, Loaded(f).ok, Readable(f.doc), ~ IsObject(Null)
  PROVE  Sound(Loaded(f).config) /\ Loaded(f).config.menus # <<>>
<1> DEFINE doc == f.doc
           c == Loaded(f).config
<1>1. SoundApp(ParsedApp(doc))
  BY ParsedAppSound
<1>2. ASSUME Legacy(doc) PROVE Sound(c) /\ c.menus # <<>>
  <2>1. PICK lib : /\ c = [app |-> ParsedApp(doc), actions |-> lib.actions, menus |-> lib.menus]
                   /\ IsSequence(doc.menus) /\ doc.menus # <<>>
                   /\ Library(doc.menus, Len(doc.menus), lib)
    BY <1>2, LegacyRead
  <2>2. /\ IsSequence(lib.actions) /\ (\A i \in DOMAIN lib.actions : SoundAction(lib.actions[i]))
        /\ IsSequence(lib.menus) /\ Len(lib.menus) = Len(doc.menus)
        /\ \A m \in 1 .. Len(doc.menus) : SoundMenu(lib.menus[m])
    BY <2>1 DEF Library, AreActions, PlainAction
  <2>3. DOMAIN lib.menus = 1 .. Len(doc.menus)
    BY <2>2, SequenceIs
  <2>4. lib.menus # <<>>
    <3>1. doc.menus \in Seq(Range(doc.menus))
      BY <2>1, SequenceIs
    <3>2. Len(doc.menus) # 0
      BY <2>1, <3>1, EmptySeq
    <3>3. Len(<<>>) = 0
      OBVIOUS
    <3> QED BY <2>2, <3>2, <3>3
  <2>5. /\ c = [app |-> c.app, actions |-> c.actions, menus |-> c.menus]
        /\ c.app = ParsedApp(doc) /\ c.actions = lib.actions /\ c.menus = lib.menus
    BY <2>1
  <2> HIDE DEF c, doc
  <2> QED BY <1>1, <2>2, <2>3, <2>4, <2>5 DEF Sound
<1>3. ASSUME ~ Legacy(doc) PROVE Sound(c) /\ c.menus # <<>>
  <2>1. PICK actions, menus : InCurrent(c, doc, actions, menus)
    BY <1>3, CurrentRead
  <2>2. /\ c = [app |-> c.app, actions |-> c.actions, menus |-> c.menus]
        /\ c.app = ParsedApp(doc) /\ c.actions = actions /\ c.menus = menus
    BY <2>1 DEF InCurrent
  <2> HIDE DEF c, doc
  <2>3. \A i \in DOMAIN actions : SoundAction(actions[i])
    BY <2>1, ParsedActionSound DEF InCurrent
  <2> QED BY <1>1, <2>1, <2>2, <2>3 DEF Sound, InCurrent
<1> QED BY <1>2, <1>3

-----------------------------------------------------------------------------
(* The application, over its starts and saves.                             *)

\* What it reads and what it holds can be saved.
FilesSound ==
  /\ app \in {"down", "up", "writing"}
  /\ file = [state |-> file.state, doc |-> file.doc]
  /\ file.state = "good" => Readable(file.doc)
  /\ app # "down" => Sound(config)

\* What was saved last is what stands in the file.
KeptInFile ==
  /\ app # "down" => config.menus # <<>>
  /\ kept # <<>> /\ app # "writing" =>
       /\ kept = <<kept[1]>> /\ Sound(kept[1]) /\ kept[1].menus # <<>>
       /\ file = Good(Saved(kept[1]))

\* Keys given out are apart from the channels of the user, and the next one
\* from both.
KeysGiven ==
  /\ app # "down" => UserChannels(config.actions)
  /\ file.state = "good" /\ Given(file.doc, "actions") => UserChannels(file.doc.actions)
  /\ IsSequence(inFlight) /\ Len(inFlight) <= MaxSubmits
  /\ \E n \in 0 .. Len(inFlight) :
       /\ nextPrivate = Unsigned(Half + n)
       /\ \A i \in DOMAIN inFlight :
            IF inFlight[i].channel = 0 THEN inFlight[i].key \in Half .. Half + n - 1
            ELSE inFlight[i].channel \in 1 .. Half - 1 /\ inFlight[i].key = inFlight[i].channel
  /\ \A i, j \in DOMAIN inFlight :
       i # j /\ inFlight[i].channel = 0 /\ inFlight[j].channel = 0 => inFlight[i].key # inFlight[j].key

\* The fallback when no file can be read.
LEMMA MissingSound ==
  ASSUME NEW a, SoundApp(a), NEW c, c = [app |-> a] ++ ConfigMissing, ~ IsObject(Null)
  PROVE  /\ Sound(c) /\ c.menus # <<>>
         /\ \A i \in DOMAIN c.actions : c.actions[i].channel = 0
<1> DEFINE item == [type |-> "close", args |-> NoFields]
           action == [ActionDefaults EXCEPT !.id = <<"config", "missing">>, !.items = <<item>>]
           slots == <<<<"config", "missing">>>>
           id == <<"config", "error">>
           menu == [MenuDefaults EXCEPT !["id"] = id, !["actionIds"] = slots]
           actions == <<action>>
           menus == <<menu>>
<1>1. c = [app |-> a] ++ [actions |-> actions, menus |-> menus]
  BY DEF ConfigMissing
<1>2. SoundItem(item)
  <2>1. item = [type |-> item.type, args |-> item.args]
        /\ item.type = "close" /\ item.args = NoFields
    OBVIOUS
  <2>2. "close" \in DOMAIN ItemDefaults /\ ItemDefaults["close"] = NoFields
    BY ItemNames, CloseDefaults
  <2> HIDE DEF item
  <2> QED BY <2>1, <2>2, MenuFields DEF SoundItem
<1>3. SoundAction(action) /\ action.channel = 0
  <2> HIDE DEF item
  <2> DEFINE items == <<item>>
             name == <<"config", "missing">>
  <2>1. IsSequence(items) /\ DOMAIN items = {1} /\ items[1] = item
    BY Singleton
  <2>2. name \in Seq({"config", "missing"})
    OBVIOUS
  <2>3. IsSequence(name)
    BY <2>2, SequenceOf
  <2>4. action = [ActionDefaults EXCEPT !.id = name, !.items = items]
    OBVIOUS
  <2> HIDE DEF items, name, action
  <2>5. /\ IsObject(action) /\ DOMAIN action = DOMAIN ActionDefaults
        /\ action.id = name /\ action.items = items /\ action.channel = 0 /\ action.icon = ""
        /\ action["name"] = ActionDefaults["name"]
    BY <2>4, ActionFields DEF IsObject
  <2>6. name # Null /\ items # Null /\ ActionDefaults["name"] # Null
    BY <2>1, <2>3, SequenceIs, NoNulls, ActionFields DEF Filled
  <2>7. \A f \in DOMAIN action : action[f] # Null
    BY <2>5, <2>6, ActionFields, NoNulls
  <2>8. Complete(action, ActionDefaults)
    BY <2>5, <2>7 DEF Complete, Filled, IsObject
  <2>9. \A i \in DOMAIN action.items : SoundItem(action.items[i])
    BY <1>2, <2>1, <2>5
  <2> QED BY <2>1, <2>5, <2>8, <2>9, Casts DEF SoundAction
<1>4. SoundMenu(menu)
  <2>1. id \in Seq({"config", "error"})
    OBVIOUS
  <2>2. IsSequence(id) /\ IsSequence(slots)
    BY <2>1, SequenceOf, Singleton
  <2> HIDE DEF id, slots, menu
  <2>3. id # Null /\ slots # Null
    BY <2>2, SequenceIs
  <2>4. {"id", "actionIds", "rice"} \subseteq DOMAIN MenuDefaults
    BY OldMenuFields
  <2>5. /\ IsObject(menu) /\ DOMAIN menu = DOMAIN MenuDefaults
        /\ menu["id"] = id /\ menu["actionIds"] = slots
        /\ \A f \in DOMAIN MenuDefaults \ {"id", "actionIds"} : menu[f] = MenuDefaults[f]
    BY <2>4 DEF menu, IsObject
  <2>6. \A f \in DOMAIN menu : menu[f] # Null
    BY <2>3, <2>5, NoNulls DEF Filled
  <2>7. Complete(menu, MenuDefaults)
    BY <2>5, <2>6 DEF Complete, Filled, IsObject
  <2>8. menu["rice"] = NoFields
    BY <2>4, <2>5, MenuFields
  <2> QED BY <2>7, <2>8, MenuFields DEF SoundMenu
<1> HIDE DEF action, menu
<1>5. /\ IsSequence(actions) /\ DOMAIN actions = {1} /\ actions[1] = action
      /\ IsSequence(menus) /\ DOMAIN menus = {1} /\ menus[1] = menu /\ menus # <<>>
  <2>1. /\ IsSequence(actions) /\ Len(actions) = 1 /\ actions[1] = action
        /\ IsSequence(menus) /\ Len(menus) = 1 /\ menus[1] = menu
    BY Singleton
  <2>2. menus # <<>>
    OBVIOUS
  <2> HIDE DEF actions, menus
  <2>3. DOMAIN actions = 1 .. Len(actions) /\ DOMAIN menus = 1 .. Len(menus)
    BY <2>1, SequenceIs
  <2> QED BY <2>1, <2>2, <2>3
<1> HIDE DEF actions, menus
<1>6. c = [app |-> a, actions |-> actions, menus |-> menus]
  BY <1>1, ConfigIs
<1>7. /\ c = [app |-> c.app, actions |-> c.actions, menus |-> c.menus]
      /\ c.app = a /\ c.actions = actions /\ c.menus = menus
  BY <1>6
<1> QED BY <1>3, <1>4, <1>5, <1>7 DEF Sound

\* What a start leaves, whatever is in the file.
LEMMA Started ==
  ASSUME NEW f, f.state = "good" => Readable(f.doc), NEW c,
         c = IF Loaded(f).ok THEN Loaded(f).config
             ELSE [app |-> Loaded(f).config.app] ++ ConfigMissing,
         ~ IsObject(Null)
  PROVE  Sound(c) /\ c.menus # <<>>
<1>1. CASE Loaded(f).ok
  <2>1. f.state = "good"
    BY <1>1, NotRead
  <2> QED BY <1>1, <2>1, LoadedSound
<1>2. CASE ~ Loaded(f).ok
  <2> DEFINE doc == Document(f)
             a == Loaded(f).config.app
  <2>1. MenusOf(doc) = <<>>
    BY <1>2, LoadedIs
  <2>2. Loaded(f).config = [app |-> ParsedApp(doc)] ++ Empty
    BY <2>1, LoadedIs
  <2>3. Loaded(f).config = [app |-> ParsedApp(doc), actions |-> <<>>, menus |-> <<>>]
    <3> DEFINE none == <<>>
               p == ParsedApp(doc)
    <3>1. Empty = [actions |-> none, menus |-> none]
      BY DEF Empty
    <3> HIDE DEF none, p
    <3>2. Loaded(f).config = [app |-> p] ++ [actions |-> none, menus |-> none]
      BY <2>2, <3>1 DEF p
    <3>3. Loaded(f).config = [app |-> p, actions |-> none, menus |-> none]
      BY <3>2, ConfigIs
    <3> QED BY <3>3 DEF p, none
  <2>4. a = ParsedApp(doc)
    BY <2>3
  <2>5. SoundApp(a)
    BY <2>4, ParsedAppSound
  <2>6. c = [app |-> a] ++ ConfigMissing
    BY <1>2
  <2> HIDE DEF a
  <2> QED BY <2>5, <2>6, MissingSound
<1> QED BY <1>1, <1>2

LEMMA FilesInitial == Init => FilesSound /\ KeptInFile
BY DEF Init, FilesSound, KeptInFile

LEMMA FilesStep ==
  ASSUME ~ IsObject(Null)
  PROVE  FilesSound /\ [Next]_vars => FilesSound'
<1> SUFFICES ASSUME FilesSound, [Next]_vars PROVE FilesSound'
  OBVIOUS
<1>1. /\ app \in {"down", "up", "writing"}
      /\ file = [state |-> file.state, doc |-> file.doc]
      /\ file.state = "good" => Readable(file.doc)
      /\ app # "down" => Sound(config)
  BY DEF FilesSound
<1>2. CASE UNCHANGED vars
  BY <1>1, <1>2 DEF vars, FilesSound
<1>3. CASE EditFile
  <2>1. /\ UNCHANGED <<app, config>>
        /\ \/ \E doc \in Documents : file' = [state |-> "good", doc |-> doc]
           \/ file' = [state |-> "torn", doc |-> NoFields]
    BY <1>3 DEF EditFile
  <2>2. file' = [state |-> file'.state, doc |-> file'.doc]
        /\ (file'.state = "good" => Readable(file'.doc))
    BY <2>1, DocumentsAssumption
  <2> QED BY <1>1, <2>1, <2>2 DEF FilesSound
<1>4. CASE Start
  <2>1. /\ file' = file \/ file' = [state |-> "good", doc |-> Bundled]
        /\ app' = "up"
        /\ config' = IF Loaded(file').ok THEN Loaded(file').config
                     ELSE [app |-> Loaded(file').config.app] ++ ConfigMissing
    BY <1>4 DEF Start
  <2>2. file' = [state |-> file'.state, doc |-> file'.doc]
        /\ (file'.state = "good" => Readable(file'.doc))
    BY <1>1, <2>1, DocumentsAssumption
  <2>3. Sound(config')
    BY <2>1, <2>2, Started
  <2> QED BY <2>1, <2>2, <2>3 DEF FilesSound
<1>5. CASE ApplyConfig
  <2>1. PICK c \in Configurations \cup {config} :
          /\ app = "up" /\ config' = c
          /\ \/ app' = "writing" /\ file' = [file EXCEPT !.state = "torn"]
             \/ UNCHANGED <<app, file>>
    BY <1>5 DEF ApplyConfig
  <2>2. Sound(c)
    BY <1>1, <2>1, ConfigurationsAssumption
  <2>3. file' = [state |-> file'.state, doc |-> file'.doc]
        /\ (file'.state = "good" => Readable(file'.doc))
    BY <1>1, <2>1
  <2> QED BY <1>1, <2>1, <2>2, <2>3 DEF FilesSound
<1>6. CASE FinishSave
  <2>1. /\ app = "writing" /\ app' = "up" /\ config' = config
        /\ file' = [state |-> "good", doc |-> Saved(config)]
    BY <1>6 DEF FinishSave
  <2>2. Sound(config) /\ Readable(Saved(config))
    BY <1>1, <2>1, SavedReadable
  <2> QED BY <2>1, <2>2 DEF FilesSound
<1>7. CASE Stop
  BY <1>1, <1>7 DEF Stop, FilesSound
<1>8. CASE Submit
  BY <1>1, <1>8 DEF Submit, FilesSound
<1> QED BY <1>2, <1>3, <1>4, <1>5, <1>6, <1>7, <1>8 DEF Next

LEMMA KeptStep ==
  ASSUME ~ IsObject(Null), MenusLeft, ~ CrashInSave
  PROVE  FilesSound /\ KeptInFile /\ [Next]_vars => KeptInFile'
<1> SUFFICES ASSUME FilesSound, KeptInFile, [Next]_vars PROVE KeptInFile'
  OBVIOUS
<1>1. /\ app \in {"down", "up", "writing"}
      /\ file.state = "good" => Readable(file.doc)
      /\ app # "down" => Sound(config) /\ config.menus # <<>>
      /\ kept # <<>> /\ app # "writing" =>
           /\ kept = <<kept[1]>> /\ Sound(kept[1]) /\ kept[1].menus # <<>>
           /\ file = Good(Saved(kept[1]))
  BY DEF FilesSound, KeptInFile
<1>2. CASE UNCHANGED vars
  BY <1>1, <1>2 DEF vars, KeptInFile
<1>3. CASE EditFile
  <2>1. app = "down" /\ app' = "down" /\ kept' = <<>>
    BY <1>3 DEF EditFile
  <2> QED BY <2>1 DEF KeptInFile
<1>4. CASE Start
  <2>1. /\ app = "down" /\ app' = "up" /\ kept' = kept
        /\ file' = file \/ (file.state = "missing" /\ file' = [state |-> "good", doc |-> Bundled])
        /\ config' = IF Loaded(file').ok THEN Loaded(file').config
                     ELSE [app |-> Loaded(file').config.app] ++ ConfigMissing
    BY <1>4 DEF Start
  <2>2. file'.state = "good" => Readable(file'.doc)
    BY <1>1, <2>1, DocumentsAssumption
  <2>3. config'.menus # <<>>
    BY <2>1, <2>2, Started
  <2>4. ASSUME kept # <<>> PROVE file' = file
    <3>1. file.state = "good"
      BY <1>1, <2>1, <2>4 DEF Good
    <3> QED BY <2>1, <3>1
  <2> QED BY <1>1, <2>1, <2>3, <2>4 DEF KeptInFile
<1>5. CASE ApplyConfig
  <2>1. PICK c \in Configurations \cup {config} :
          /\ app = "up" /\ config' = c /\ kept' = kept
          /\ app' = "writing" \/ UNCHANGED <<app, file>>
    BY <1>5 DEF ApplyConfig
  <2>2. c.menus # <<>>
    BY <1>1, <2>1 DEF MenusLeft
  <2> QED BY <1>1, <2>1, <2>2 DEF KeptInFile
<1>6. CASE FinishSave
  <2>1. /\ app = "writing" /\ app' = "up" /\ config' = config /\ kept' = <<config>>
        /\ file' = [state |-> "good", doc |-> Saved(config)]
    BY <1>6 DEF FinishSave
  <2>2. kept'[1] = config /\ kept' = <<kept'[1]>>
    BY <2>1
  <2> QED BY <1>1, <2>1, <2>2 DEF KeptInFile, Good
<1>7. CASE Stop
  BY <1>1, <1>7 DEF Stop, KeptInFile
<1>8. CASE Submit
  BY <1>1, <1>8 DEF Submit, KeptInFile
<1> QED BY <1>2, <1>3, <1>4, <1>5, <1>6, <1>7, <1>8 DEF Next

\* What was saved last is what the next start loads, for all documents and
\* configurations of either schema, but for the fields no code reads: as long
\* as the application does not die while it writes, and the settings window
\* does not delete every menu.  (saveConfig, loadConfig)
THEOREM SavedIsReloaded ==
  ASSUME ~ IsObject(Null), MenusLeft, ~ CrashInSave
  PROVE  Spec => []ReloadsWhatWasSaved
<1>1. FilesSound /\ KeptInFile => ReloadsWhatWasSaved
  <2> SUFFICES ASSUME KeptInFile, app # "writing", kept # <<>>
               PROVE  Loaded(file).ok /\ Normal(Loaded(file).config) = Normal(kept[1])
    BY DEF ReloadsWhatWasSaved
  <2>1. /\ Sound(kept[1]) /\ kept[1].menus # <<>> /\ file = Good(Saved(kept[1]))
    BY DEF KeptInFile
  <2> QED BY <2>1, RoundTrips DEF RoundTrip
<1>2. Init => FilesSound /\ KeptInFile
  BY FilesInitial
<1>3. FilesSound /\ KeptInFile /\ [Next]_vars => (FilesSound /\ KeptInFile)'
  BY FilesStep, KeptStep
<1> QED BY <1>1, <1>2, <1>3, PTL DEF Spec

\* A file of the older schema loses no action, for all names in it: ids are
\* unique among its menus and among its actions, however they collide, and
\* every slot has the action that stood there.  (loadLegacySchema,
\* makeUniqueId)
THEOREM LegacyIsKept ==
  ASSUME ~ IsObject(Null), NumeralsApart
  PROVE  Spec => []LegacyActionsKept
<1>1. FilesSound => LegacyActionsKept
  <2> DEFINE doc == file.doc
             lib == Loaded(file).config
  <2> SUFFICES ASSUME FilesSound, Loaded(file).ok, Legacy(doc), file.state = "good"
        PROVE  /\ Cardinality(Ids(lib.menus)) = Len(doc.menus)
               /\ Cardinality(Ids(lib.actions)) = Len(lib.actions)
               /\ \A m \in DOMAIN lib.menus :
                    LET old == OldActions(doc.menus[m])
                    IN  /\ Len(lib.menus[m].actionIds) = Len(old)
                        /\ \A s \in DOMAIN old : \E a \in DOMAIN lib.actions :
                             /\ lib.actions[a].id = lib.menus[m].actionIds[s]
                             /\ "name" \in DOMAIN old[s] /\ old[s].name # Null =>
                                  lib.actions[a].name = old[s].name
    BY DEF LegacyActionsKept
  <2>1. Readable(doc)
    BY DEF FilesSound
  <2>2. PICK read : /\ lib = [app |-> ParsedApp(doc), actions |-> read.actions, menus |-> read.menus]
                    /\ IsSequence(doc.menus) /\ doc.menus # <<>>
                    /\ Library(doc.menus, Len(doc.menus), read)
    BY <2>1, LegacyRead
  <2>3. lib.actions = read.actions /\ lib.menus = read.menus
    BY <2>2
  <2> HIDE DEF lib, doc
  <2>4. /\ Apart(read.actions) /\ Apart(read.menus) /\ IsSequence(read.menus)
        /\ Len(read.menus) = Len(doc.menus)
        /\ \A m \in 1 .. Len(doc.menus) :
             Keeps(read.menus[m], OldActions(doc.menus[m]), read.actions)
    BY <2>2 DEF Library, AreActions
  <2>5. DOMAIN lib.menus = 1 .. Len(doc.menus)
    BY <2>3, <2>4, SequenceIs
  <2>6. /\ Cardinality(Ids(lib.menus)) = Len(doc.menus)
        /\ Cardinality(Ids(lib.actions)) = Len(lib.actions)
    BY <2>3, <2>4 DEF Apart
  <2>7. \A m \in DOMAIN lib.menus : Keeps(lib.menus[m], OldActions(doc.menus[m]), lib.actions)
    BY <2>3, <2>4, <2>5
  <2> QED BY <2>6, <2>7 DEF Keeps, Named, Given
<1>2. Init => FilesSound
  BY FilesInitial
<1>3. FilesSound /\ [Next]_vars => FilesSound'
  BY FilesStep
<1> QED BY <1>1, <1>2, <1>3, PTL DEF Spec

-----------------------------------------------------------------------------
(* Channels and keys.                                                      *)

LEMMA SmallCasts ==
  /\ \A u \in 0 .. Half - 1 : Unsigned(u) = u /\ Signed(u) = u
  /\ \A n \in Nat : n < Half => Unsigned(Half + n) = Half + n
<1>1. Half \in Nat /\ Half > 0 /\ Wide = 2 * Half
  BY LoaderAssumption DEF Wide
<1> HIDE DEF Wide
<1>2. ASSUME NEW u \in 0 .. Wide - 1 PROVE u % Wide = u
  BY <1>1, <1>2
<1>3. \A u \in 0 .. Half - 1 : Unsigned(u) = u /\ Signed(u) = u
  BY <1>1, <1>2 DEF Unsigned, Signed
<1>4. \A n \in Nat : n < Half => Unsigned(Half + n) = Half + n
  BY <1>1, <1>2 DEF Unsigned
<1> QED BY <1>3, <1>4

LEMMA ActionChannel ==
  ASSUME NEW action, SoundAction(action)
  PROVE  /\ Given(action, "channel")
         /\ "channel" \in DOMAIN SavedAction(action)
         /\ SavedAction(action)["channel"] = Signed(action["channel"])
<1> DEFINE items == [i \in DOMAIN action.items |-> SavedItem(action.items[i])]
           gone == IF action.icon = "" THEN {"icon"} ELSE {}
           whole == [action EXCEPT !.channel = Signed(action.channel), !.items = items]
<1>1. /\ IsObject(action) /\ DOMAIN action = {"id", "name", "icon", "channel", "items"}
      /\ action["channel"] # Null
  BY CompleteObject, ActionFields DEF SoundAction
<1>2. SavedAction(action) = Without(whole, gone)
  BY DEF SavedAction
<1> HIDE DEF items
<1>3. "channel" \in DOMAIN whole /\ whole["channel"] = Signed(action["channel"])
  BY <1>1
<1>4. "channel" \notin gone
  OBVIOUS
<1> HIDE DEF whole, gone
<1>5. "channel" \in DOMAIN Without(whole, gone)
      /\ Without(whole, gone)["channel"] = whole["channel"]
  BY <1>3, <1>4 DEF Without, Restrict
<1> QED BY <1>1, <1>2, <1>3, <1>5 DEF Given

LEMMA LoadedChannels ==
  ASSUME NEW f, Loaded(f).ok, Readable(f.doc),
         Given(f.doc, "actions") => UserChannels(f.doc.actions), ~ IsObject(Null)
  PROVE  UserChannels(Loaded(f).config.actions)
<1> DEFINE doc == f.doc
           c == Loaded(f).config
<1>1. 0 \in 0 .. Half - 1
  BY LoaderAssumption
<1>2. ASSUME Legacy(doc) PROVE UserChannels(c.actions)
  <2>1. PICK lib : /\ c = [app |-> ParsedApp(doc), actions |-> lib.actions, menus |-> lib.menus]
                   /\ IsSequence(doc.menus) /\ doc.menus # <<>>
                   /\ Library(doc.menus, Len(doc.menus), lib)
    BY <1>2, LegacyRead
  <2>2. c.actions = lib.actions
    BY <2>1
  <2>3. \A i \in DOMAIN lib.actions : lib.actions[i].channel = 0
    BY <2>1 DEF Library, AreActions, PlainAction
  <2> HIDE DEF c
  <2> QED BY <1>1, <2>2, <2>3 DEF UserChannels
<1>3. ASSUME ~ Legacy(doc) PROVE UserChannels(c.actions)
  <2>1. PICK actions, menus : InCurrent(c, doc, actions, menus)
    BY <1>3, CurrentRead
  <2>2. c.actions = actions
    BY <2>1 DEF InCurrent
  <2>3. Given(doc, "actions") => UserChannels(doc.actions)
    OBVIOUS
  <2> HIDE DEF c, doc
  <2>4. ASSUME NEW i \in DOMAIN actions PROVE actions[i].channel \in 0 .. Half - 1
    <3> DEFINE obj == ActionsOf(doc)[i]
               read == Fields(obj, ActionDefaults)
    <3>1. i \in DOMAIN ActionsOf(doc) /\ actions[i] = ParsedAction(obj)
      BY <2>1 DEF InCurrent
    <3>2. Given(doc, "actions") /\ ActionsOf(doc) = doc.actions
      <4>1. CASE ~ Given(doc, "actions")
        <5>1. ActionsOf(doc) = <<>>
          BY <4>1 DEF ActionsOf
        <5> QED BY <3>1, <5>1
      <4>2. CASE Given(doc, "actions")
        BY <4>2 DEF ActionsOf
      <4> QED BY <4>1, <4>2
    <3>3. Given(obj, "channel") => obj.channel \in 0 .. Half - 1
      BY <2>3, <3>1, <3>2 DEF UserChannels
    <3> HIDE DEF obj
    <3>4. read.channel = IF Given(obj, "channel") THEN obj.channel ELSE 0
      BY ActionFields DEF Fields
    <3>5. read.channel \in 0 .. Half - 1
      BY <1>1, <3>3, <3>4
    <3>6. ParsedAction(obj).channel = Unsigned(read.channel)
      BY ParsedActionIs
    <3> QED BY <3>1, <3>5, <3>6, SmallCasts
  <2> QED BY <2>2, <2>4 DEF UserChannels
<1> QED BY <1>2, <1>3

LEMMA StartedChannels ==
  ASSUME NEW f, f.state = "good" => Readable(f.doc),
         f.state = "good" /\ Given(f.doc, "actions") => UserChannels(f.doc.actions), NEW c,
         c = IF Loaded(f).ok THEN Loaded(f).config
             ELSE [app |-> Loaded(f).config.app] ++ ConfigMissing,
         ~ IsObject(Null)
  PROVE  UserChannels(c.actions)
<1>1. CASE Loaded(f).ok
  <2>1. f.state = "good"
    BY <1>1, NotRead
  <2> QED BY <1>1, <2>1, LoadedChannels
<1>2. CASE ~ Loaded(f).ok
  <2> DEFINE actions == ConfigMissing.actions
             menus == ConfigMissing.menus
             a == Loaded(f).config.app
  <2>1. ConfigMissing = [actions |-> actions, menus |-> menus]
    BY DEF ConfigMissing
  <2>2. DOMAIN actions = {1} /\ actions[1].channel = 0
    <3> DEFINE items == <<[type |-> "close", args |-> NoFields]>>
               action == [ActionDefaults EXCEPT !.id = <<"config", "missing">>, !.items = items]
    <3>1. actions = <<action>>
      BY DEF ConfigMissing
    <3> HIDE DEF items
    <3>2. action.channel = 0
      BY ActionFields
    <3> HIDE DEF action
    <3> QED BY <3>1, <3>2
  <2> HIDE DEF actions, menus, a
  <2>3. c = [app |-> a] ++ [actions |-> actions, menus |-> menus]
    BY <1>2, <2>1 DEF a
  <2>4. c = [app |-> a, actions |-> actions, menus |-> menus]
    BY <2>3, ConfigIs
  <2>5. c.actions = actions
    BY <2>4
  <2>6. 0 \in 0 .. Half - 1
    BY LoaderAssumption
  <2> QED BY <2>2, <2>5, <2>6 DEF UserChannels
<1> QED BY <1>1, <1>2

LEMMA SavedChannels ==
  ASSUME NEW c, Sound(c), UserChannels(c.actions), NEW doc, doc = Saved(c), ~ IsObject(Null)
  PROVE  UserChannels(doc.actions)
<1>1. doc.actions = [i \in DOMAIN c.actions |-> SavedAction(c.actions[i])]
  BY SavedIs
<1>2. ASSUME NEW i \in DOMAIN doc.actions PROVE doc.actions[i].channel \in 0 .. Half - 1
  <2>1. i \in DOMAIN c.actions /\ doc.actions[i] = SavedAction(c.actions[i])
    BY <1>1
  <2>2. SoundAction(c.actions[i])
    BY <2>1 DEF Sound
  <2>3. Given(c.actions[i], "channel")
        /\ SavedAction(c.actions[i])["channel"] = Signed(c.actions[i]["channel"])
    BY <2>2, ActionChannel
  <2>4. c.actions[i].channel \in 0 .. Half - 1
    BY <2>1, <2>3 DEF UserChannels
  <2> QED BY <2>1, <2>3, <2>4, SmallCasts
<1> QED BY <1>2 DEF UserChannels

LEMMA KeysInitial == Init => KeysGiven
<1> SUFFICES ASSUME Init PROVE KeysGiven
  OBVIOUS
<1>1. /\ app = "down" /\ file.state = "missing" /\ nextPrivate = Half /\ inFlight = <<>>
  BY DEF Init
<1> DEFINE none == <<>>
<1>2. inFlight = none /\ IsSequence(none) /\ Len(none) = 0 /\ DOMAIN none = {}
  BY <1>1, EmptySequence
<1> HIDE DEF none
<1>3. Half \in Nat /\ 0 < Half /\ MaxSubmits \in Nat
  BY LoaderAssumption
<1>4. nextPrivate = Unsigned(Half + 0)
  BY <1>1, <1>3, SmallCasts
<1>5. 0 \in 0 .. Len(inFlight)
  BY <1>2
<1> QED BY <1>1, <1>2, <1>3, <1>4, <1>5 DEF KeysGiven

\* A key more.
LEMMA KeyGiven ==
  ASSUME KeysGiven, Submit, FilesSound, ChannelsInRange
  PROVE  KeysGiven'
<1>1. /\ app = "up" /\ Len(inFlight) < MaxSubmits /\ UNCHANGED <<file, app, config, kept>>
  BY DEF Submit
<1>2. PICK i \in DOMAIN config.actions :
        /\ inFlight' = Append(inFlight, [channel |-> config.actions[i].channel,
                                         key |-> ResolveKey(config.actions[i].channel).key])
        /\ nextPrivate' = ResolveKey(config.actions[i].channel).next
  BY DEF Submit
<1> DEFINE channel == config.actions[i].channel
           key == ResolveKey(channel).key
           x == [channel |-> channel, key |-> key]
<1>3. channel \in 0 .. Half - 1
  <2>1. SoundAction(config.actions[i])
    BY <1>1 DEF FilesSound, Sound
  <2>2. Given(config.actions[i], "channel")
    BY <2>1, ActionChannel
  <2> QED BY <1>1, <2>2 DEF KeysGiven, UserChannels
<1>4. /\ IsSequence(inFlight)
      /\ \A j, k \in DOMAIN inFlight :
           j # k /\ inFlight[j].channel = 0 /\ inFlight[k].channel = 0 =>
             inFlight[j].key # inFlight[k].key
  BY DEF KeysGiven
<1>5. PICK n \in 0 .. Len(inFlight) :
        /\ nextPrivate = Unsigned(Half + n)
        /\ \A j \in DOMAIN inFlight :
             IF inFlight[j].channel = 0 THEN inFlight[j].key \in Half .. Half + n - 1
             ELSE inFlight[j].channel \in 1 .. Half - 1 /\ inFlight[j].key = inFlight[j].channel
  BY DEF KeysGiven
<1>6. /\ Half \in Nat /\ Wide = 2 * Half /\ MaxSubmits \in Nat /\ MaxSubmits <= Half
      /\ Len(inFlight) \in Nat /\ DOMAIN inFlight = 1 .. Len(inFlight)
  BY <1>4, LoaderAssumption, SequenceIs DEF ChannelsInRange, Wide
<1>7. nextPrivate = Half + n /\ n \in Nat /\ n < Half
  BY <1>1, <1>5, <1>6, SmallCasts
<1>8. x.channel = channel /\ x.key = key
  OBVIOUS
<1>9. IF channel = 0 THEN key = Half + n /\ nextPrivate' = Unsigned(Half + (n + 1))
      ELSE key = channel /\ nextPrivate' = nextPrivate
  <2>1. CASE channel = 0
    <3>1. key = nextPrivate /\ nextPrivate' = Unsigned(nextPrivate + 1)
      BY <1>2, <2>1 DEF ResolveKey
    <3>2. nextPrivate + 1 = Half + (n + 1)
      BY <1>6, <1>7
    <3> QED BY <1>7, <2>1, <3>1, <3>2
  <2>2. CASE channel # 0
    BY <1>2, <2>2 DEF ResolveKey
  <2> QED BY <2>1, <2>2
<1>10. /\ IsSequence(inFlight') /\ Len(inFlight') = Len(inFlight) + 1
       /\ DOMAIN inFlight' = 1 .. Len(inFlight) + 1
       /\ \A j \in 1 .. Len(inFlight) : inFlight'[j] = inFlight[j]
       /\ inFlight'[Len(inFlight) + 1] = x
  <2>1. inFlight' = Append(inFlight, x)
    BY <1>2
  <2> HIDE DEF x
  <2> QED BY <1>4, <2>1, AppendIs
<1> HIDE DEF x, key, channel
<1> DEFINE last == Len(inFlight) + 1
           now == IF channel = 0 THEN n + 1 ELSE n
<1>11. now \in 0 .. Len(inFlight') /\ nextPrivate' = Unsigned(Half + now)
  BY <1>5, <1>6, <1>7, <1>9, <1>10
<1>12. ASSUME NEW j \in DOMAIN inFlight'
       PROVE  IF inFlight'[j].channel = 0 THEN inFlight'[j].key \in Half .. Half + now - 1
              ELSE inFlight'[j].channel \in 1 .. Half - 1 /\ inFlight'[j].key = inFlight'[j].channel
  <2>1. CASE j \in 1 .. Len(inFlight)
    <3>1. inFlight'[j] = inFlight[j] /\ j \in DOMAIN inFlight
      BY <1>6, <1>10, <2>1
    <3>2. CASE inFlight[j].channel = 0
      <4>1. inFlight[j].key \in Half .. Half + n - 1
        BY <1>5, <3>1, <3>2
      <4> QED BY <1>6, <1>7, <3>1, <3>2, <4>1
    <3>3. CASE inFlight[j].channel # 0
      BY <1>5, <3>1, <3>3
    <3> QED BY <3>2, <3>3
  <2>2. CASE j = last
    <3>1. inFlight'[j].channel = channel /\ inFlight'[j].key = key
      BY <1>8, <1>10, <2>2
    <3> QED BY <1>3, <1>6, <1>7, <1>9, <3>1
  <2> QED BY <1>6, <1>10, <2>1, <2>2
<1>13. ASSUME NEW j \in DOMAIN inFlight', inFlight'[j].channel = 0, j # last
       PROVE  j \in DOMAIN inFlight /\ inFlight'[j] = inFlight[j]
              /\ inFlight[j].key \in Half .. Half + n - 1
  <2>1. j \in 1 .. Len(inFlight)
    BY <1>6, <1>10, <1>13
  <2> QED BY <1>5, <1>6, <1>10, <1>13, <2>1
<1>14. channel = 0 => inFlight'[last].key = Half + n
  BY <1>8, <1>9, <1>10
<1>15. inFlight'[last].channel = channel
  BY <1>8, <1>10
<1>16. ASSUME NEW j \in DOMAIN inFlight', NEW k \in DOMAIN inFlight', j # k,
              inFlight'[j].channel = 0, inFlight'[k].channel = 0
       PROVE  inFlight'[j].key # inFlight'[k].key
  <2>1. CASE j = last
    <3>1. inFlight'[k].key \in Half .. Half + n - 1
      BY <1>13, <1>16, <2>1
    <3>2. inFlight'[j].key = Half + n
      BY <1>14, <1>15, <1>16, <2>1
    <3> QED BY <1>6, <1>7, <3>1, <3>2
  <2>2. CASE k = last
    <3>1. inFlight'[j].key \in Half .. Half + n - 1
      BY <1>13, <1>16, <2>2
    <3>2. inFlight'[k].key = Half + n
      BY <1>14, <1>15, <1>16, <2>2
    <3> QED BY <1>6, <1>7, <3>1, <3>2
  <2>3. CASE j # last /\ k # last
    BY <1>4, <1>13, <1>16, <2>3
  <2> QED BY <2>1, <2>2, <2>3
<1>17. Len(inFlight') <= MaxSubmits
  BY <1>1, <1>6, <1>10
<1>18. /\ app' # "down" => UserChannels(config'.actions)
       /\ file'.state = "good" /\ Given(file'.doc, "actions") => UserChannels(file'.doc.actions)
  BY <1>1 DEF KeysGiven
<1> HIDE DEF now, last
<1>19. \E m \in 0 .. Len(inFlight') :
         /\ nextPrivate' = Unsigned(Half + m)
         /\ \A j \in DOMAIN inFlight' :
              IF inFlight'[j].channel = 0 THEN inFlight'[j].key \in Half .. Half + m - 1
              ELSE inFlight'[j].channel \in 1 .. Half - 1 /\ inFlight'[j].key = inFlight'[j].channel
  BY <1>11, <1>12
<1> QED BY <1>10, <1>16, <1>17, <1>18, <1>19 DEF KeysGiven

\* Nothing else gives a key.
LEMMA KeysKept ==
  ASSUME KeysGiven, UNCHANGED <<nextPrivate, inFlight>>,
         app' # "down" => UserChannels(config'.actions),
         file'.state = "good" /\ Given(file'.doc, "actions") => UserChannels(file'.doc.actions)
  PROVE  KeysGiven'
BY DEF KeysGiven

LEMMA KeysStep ==
  ASSUME ~ IsObject(Null), ChannelsInRange
  PROVE  FilesSound /\ KeysGiven /\ [Next]_vars => KeysGiven'
<1> SUFFICES ASSUME FilesSound, KeysGiven, [Next]_vars PROVE KeysGiven'
  OBVIOUS
<1>1. /\ app # "down" => UserChannels(config.actions) /\ Sound(config)
      /\ file.state = "good" => Readable(file.doc)
      /\ file.state = "good" /\ Given(file.doc, "actions") => UserChannels(file.doc.actions)
      /\ file = [state |-> file.state, doc |-> file.doc]
  BY DEF KeysGiven, FilesSound
<1>2. \A doc \in Documents \cup {Bundled} :
        Readable(doc) /\ (Given(doc, "actions") => UserChannels(doc.actions))
  BY DocumentsAssumption DEF ChannelsInRange
<1>3. CASE UNCHANGED vars
  BY <1>1, <1>3, KeysKept DEF vars
<1>4. CASE EditFile
  <2>1. /\ app' = "down" /\ UNCHANGED <<nextPrivate, inFlight>>
        /\ \/ \E doc \in Documents : file' = [state |-> "good", doc |-> doc]
           \/ file' = [state |-> "torn", doc |-> NoFields]
    BY <1>4 DEF EditFile
  <2>2. file'.state = "good" /\ Given(file'.doc, "actions") => UserChannels(file'.doc.actions)
    BY <1>2, <2>1
  <2> QED BY <2>1, <2>2, KeysKept
<1>5. CASE Start
  <2>1. /\ file' = file \/ file' = [state |-> "good", doc |-> Bundled]
        /\ app' = "up" /\ nextPrivate' = Half /\ inFlight' = <<>>
        /\ config' = IF Loaded(file').ok THEN Loaded(file').config
                     ELSE [app |-> Loaded(file').config.app] ++ ConfigMissing
    BY <1>5 DEF Start
  <2>2. /\ file'.state = "good" => Readable(file'.doc)
        /\ file'.state = "good" /\ Given(file'.doc, "actions") => UserChannels(file'.doc.actions)
    BY <1>1, <1>2, <2>1
  <2>3. UserChannels(config'.actions)
    BY <2>1, <2>2, StartedChannels
  <2> DEFINE none == <<>>
  <2>4. inFlight' = none /\ IsSequence(none) /\ Len(none) = 0 /\ DOMAIN none = {}
    BY <2>1, EmptySequence
  <2> HIDE DEF none
  <2>5. Half \in Nat /\ 0 < Half /\ MaxSubmits \in Nat
    BY LoaderAssumption
  <2>6. nextPrivate' = Unsigned(Half + 0)
    BY <2>1, <2>5, SmallCasts
  <2>7. 0 \in 0 .. Len(inFlight')
    BY <2>4
  <2> QED BY <2>2, <2>3, <2>4, <2>5, <2>6, <2>7 DEF KeysGiven
<1>6. CASE ApplyConfig
  <2>1. PICK c \in Configurations \cup {config} :
          /\ app = "up" /\ config' = c /\ UNCHANGED <<nextPrivate, inFlight>>
          /\ \/ app' = "writing" /\ file' = [file EXCEPT !.state = "torn"]
             \/ UNCHANGED <<app, file>>
    BY <1>6 DEF ApplyConfig
  <2>2. UserChannels(c.actions)
    BY <1>1, <2>1 DEF ChannelsInRange
  <2>3. file'.state = "good" /\ Given(file'.doc, "actions") => UserChannels(file'.doc.actions)
    BY <1>1, <2>1
  <2> QED BY <2>1, <2>2, <2>3, KeysKept
<1>7. CASE FinishSave
  <2>1. /\ app = "writing" /\ app' = "up" /\ UNCHANGED <<config, nextPrivate, inFlight>>
        /\ file' = [state |-> "good", doc |-> Saved(config)]
    BY <1>7 DEF FinishSave
  <2>2. UserChannels(config.actions) /\ Sound(config)
    BY <1>1, <2>1
  <2>3. file'.doc = Saved(config)
    BY <2>1
  <2>4. UserChannels(file'.doc.actions)
    BY <2>2, <2>3, SavedChannels
  <2> QED BY <2>1, <2>2, <2>4, KeysKept
<1>8. CASE Stop
  BY <1>1, <1>8, KeysKept DEF Stop
<1>9. CASE Submit
  BY <1>9, KeyGiven
<1> QED BY <1>3, <1>4, <1>5, <1>6, <1>7, <1>8, <1>9 DEF Next

\* Actions of channel 0 share their key with no other in flight, over any
\* number of saves and up to half the values of an integer of them since the
\* start, as long as the channels are those that the settings window offers.
\* (ChannelManager::resolveKey)
THEOREM PrivateKeysDiffer ==
  ASSUME ~ IsObject(Null), ChannelsInRange
  PROVE  Spec => []PrivateKeysApart
<1>1. KeysGiven => PrivateKeysApart
  <2> SUFFICES ASSUME KeysGiven, NEW i \in DOMAIN inFlight, NEW j \in DOMAIN inFlight,
                      i # j, inFlight[i].key = inFlight[j].key
               PROVE  inFlight[i].channel # 0 /\ inFlight[i].channel = inFlight[j].channel
    BY DEF PrivateKeysApart
  <2>1. PICK n \in 0 .. Len(inFlight) :
          \A k \in DOMAIN inFlight :
            IF inFlight[k].channel = 0 THEN inFlight[k].key \in Half .. Half + n - 1
            ELSE inFlight[k].channel \in 1 .. Half - 1 /\ inFlight[k].key = inFlight[k].channel
    BY DEF KeysGiven
  <2>2. ~(inFlight[i].channel = 0 /\ inFlight[j].channel = 0)
    BY DEF KeysGiven
  <2>3. Half \in Nat
    BY LoaderAssumption
  <2> QED BY <2>1, <2>2, <2>3
<1>2. Init => FilesSound /\ KeysGiven
  BY FilesInitial, KeysInitial
<1>3. FilesSound /\ KeysGiven /\ [Next]_vars => (FilesSound /\ KeysGiven)'
  BY FilesStep, KeysStep
<1> QED BY <1>1, <1>2, <1>3, PTL DEF Spec

-----------------------------------------------------------------------------
(* A restart keeps the history.                                            *)

Memory == [recent : Seq(Actions), counts : [Actions -> Nat]]

Distinct(s) == \A i, j \in DOMAIN s : s[i] = s[j] => i = j

\* A history: no action is listed twice, nor too many.
Proper(m) == m \in Memory /\ Distinct(m.recent) /\ Len(m.recent) <= MaxRecent

\* It knows of the actions ids only.
Within(m, ids) ==
  /\ \A i \in 1 .. Len(m.recent) : m.recent[i] \in ids
  /\ \A a \in Actions \ ids : m.counts[a] = 0

States == {"down", "up", "writing on", "writing exit", "writing config"}

\* Between the change of the library and the prune, the history may name
\* actions that are gone; whatever is saved does not.
HistoryInv ==
  /\ process \in States
  /\ Proper(mem)
  /\ memFile \in [state : {"missing", "torn", "good"}, mem : Memory] /\ Proper(memFile.mem)
  /\ process \in {"up", "writing on", "writing exit"} => Within(mem, library.ids)
  /\ RestartKeepsHistory

LEMMA SameOnly == \A s, S : History!Only(s, S) = Only(s, S)
  BY DEF History!Only, Only

\* What is kept in its order is kept apart.
LEMMA OnlyDistinct ==
  ASSUME NEW T, NEW s \in Seq(T), NEW S, Distinct(s)
  PROVE  Distinct(Only(s, S))
<1>1. PICK g \in [1 .. Len(Only(s, S)) -> 1 .. Len(s)] :
        /\ \A i, j \in 1 .. Len(Only(s, S)) : i < j => g[i] < g[j]
        /\ \A j \in 1 .. Len(Only(s, S)) : Only(s, S)[j] = s[g[j]]
  BY OnlyOrdered
<1>2. /\ DOMAIN s = 1 .. Len(s) /\ Len(s) \in Nat
      /\ DOMAIN Only(s, S) = 1 .. Len(Only(s, S)) /\ Len(Only(s, S)) \in Nat
  BY OnlyElements
<1> SUFFICES ASSUME NEW i \in 1 .. Len(Only(s, S)), NEW j \in 1 .. Len(Only(s, S)),
                    Only(s, S)[i] = Only(s, S)[j], i # j
             PROVE  FALSE
  BY <1>2 DEF Distinct
<1>3. g[i] = g[j]
  BY <1>1, <1>2 DEF Distinct
<1>4. g[i] \in Nat /\ g[j] \in Nat /\ (i < j \/ j < i)
  BY <1>1, <1>2
<1> QED BY <1>1, <1>3, <1>4

\* A prune leaves a history, of the actions there are.
LEMMA PruneProper ==
  ASSUME NEW m, Proper(m), NEW ids
  PROVE  Proper(History!Pruned(m, ids)) /\ Within(History!Pruned(m, ids), ids)
<1> DEFINE p == History!Pruned(m, ids)
<1>1. /\ m.recent \in Seq(Actions) /\ m.counts \in [Actions -> Nat]
      /\ Distinct(m.recent) /\ Len(m.recent) <= MaxRecent /\ Len(m.recent) \in Nat
  BY DEF Proper, Memory
<1>2. /\ p.recent = Only(m.recent, ids)
      /\ p.counts = [a \in Actions |-> IF a \in ids THEN m.counts[a] ELSE 0]
      /\ p = [recent |-> p.recent, counts |-> p.counts]
  BY SameOnly DEF History!Pruned
<1> HIDE DEF p
<1>3. /\ p.recent \in Seq(Actions) /\ Len(p.recent) <= Len(m.recent)
      /\ \A j \in 1 .. Len(p.recent) : p.recent[j] \in ids
      /\ Len(p.recent) \in Nat
  BY <1>1, <1>2, OnlyElements
<1>4. Distinct(p.recent)
  BY <1>1, <1>2, OnlyDistinct
<1>5. p.counts \in [Actions -> Nat] /\ \A a \in Actions \ ids : p.counts[a] = 0
  BY <1>1, <1>2
<1>6. p \in Memory
  BY <1>2, <1>3, <1>5 DEF Memory
<1>7. Len(p.recent) <= MaxRecent
  BY <1>1, <1>3, FilesAssumption
<1> QED BY <1>3, <1>4, <1>5, <1>6, <1>7 DEF p, Proper, Within

\* There is nothing to prune in a history of the actions there are.
LEMMA PruneIdle ==
  ASSUME NEW m, Proper(m), NEW ids, Within(m, ids)
  PROVE  History!Pruned(m, ids) = m
<1>1. /\ m.recent \in Seq(Actions) /\ m.counts \in [Actions -> Nat]
      /\ m = [recent |-> m.recent, counts |-> m.counts]
  BY DEF Proper, Memory
<1>2. Only(m.recent, ids) = m.recent
  BY <1>1, OnlyAll DEF Within
<1>3. [a \in Actions |-> IF a \in ids THEN m.counts[a] ELSE 0] = m.counts
  BY <1>1 DEF Within
<1> QED BY <1>1, <1>2, <1>3, SameOnly DEF History!Pruned

\* A launch puts its action first and removes it from where it was.
LEMMA RecordProper ==
  ASSUME NEW m, Proper(m), NEW a \in Actions
  PROVE  /\ Proper(History!Recorded(m, a))
         /\ \A ids : Within(m, ids) /\ a \in ids => Within(History!Recorded(m, a), ids)
<1> DEFINE rest == Only(m.recent, Actions \ {a})
           all  == <<a>> \o rest
           r    == History!Recorded(m, a)
<1>1. /\ m.recent \in Seq(Actions) /\ m.counts \in [Actions -> Nat]
      /\ Distinct(m.recent) /\ Len(m.recent) <= MaxRecent
      /\ Len(m.recent) \in Nat /\ MaxRecent \in Nat \ {0}
  BY FilesAssumption DEF Proper, Memory
<1>2. /\ rest \in Seq(Actions) /\ Len(rest) \in Nat /\ Len(rest) <= Len(m.recent)
      /\ \A j \in 1 .. Len(rest) : rest[j] # a
      /\ DOMAIN rest = 1 .. Len(rest)
  BY <1>1, OnlyElements
<1>3. \A j \in 1 .. Len(rest) : \E i \in 1 .. Len(m.recent) : rest[j] = m.recent[i]
  <2>1. \A s \in Seq(Actions) : \A j \in 1 .. Len(Only(s, Actions \ {a})) :
          \E i \in 1 .. Len(s) : Only(s, Actions \ {a})[j] = s[i]
    BY OnlyFrom
  <2> QED BY <1>1, <2>1
<1>4. Distinct(rest)
  BY <1>1, OnlyDistinct
<1> HIDE DEF rest
<1>5. /\ all \in Seq(Actions) /\ Len(all) = 1 + Len(rest)
      /\ all[1] = a /\ \A i \in 2 .. Len(all) : all[i] = rest[i - 1]
  BY <1>2
<1>6. \A i, j \in 1 .. Len(all) : all[i] = all[j] => i = j
  <2> SUFFICES ASSUME NEW i \in 1 .. Len(all), NEW j \in 1 .. Len(all), all[i] = all[j] PROVE i = j
    OBVIOUS
  <2>1. ASSUME NEW k \in 1 .. Len(all), k # 1 PROVE k - 1 \in 1 .. Len(rest) /\ k \in 2 .. Len(all)
    BY <1>2, <1>5, <2>1
  <2> HIDE DEF all
  <2>2. CASE i = 1 \/ j = 1
    BY <1>2, <1>5, <2>1, <2>2
  <2>3. CASE i # 1 /\ j # 1
    <3>1. rest[i - 1] = rest[j - 1] /\ i - 1 \in DOMAIN rest /\ j - 1 \in DOMAIN rest
      BY <1>2, <1>5, <2>1, <2>3
    <3>2. i - 1 = j - 1
      BY <1>4, <3>1 DEF Distinct
    <3> QED BY <3>2
  <2> QED BY <2>2, <2>3
<1>7. /\ r.recent = IF Len(all) > MaxRecent THEN SubSeq(all, 1, MaxRecent) ELSE all
      /\ r.counts = [m.counts EXCEPT ![a] = @ + 1]
      /\ r = [recent |-> r.recent, counts |-> r.counts]
  BY SameOnly DEF History!Recorded, History!Truncated, rest
<1> HIDE DEF all, r
<1>8. /\ r.recent \in Seq(Actions) /\ Len(r.recent) \in Nat
      /\ Len(r.recent) <= MaxRecent /\ Len(r.recent) <= Len(all)
      /\ \A i \in 1 .. Len(r.recent) : r.recent[i] = all[i]
  <2>1. CASE Len(all) > MaxRecent
    <3>1. \A i \in 1 .. MaxRecent : i \in 1 .. Len(all) /\ all[i] \in Actions
      BY <1>1, <1>2, <1>5, <2>1
    <3>2. /\ SubSeq(all, 1, MaxRecent) \in Seq(Actions)
          /\ Len(SubSeq(all, 1, MaxRecent)) = MaxRecent
          /\ \A i \in 1 .. MaxRecent : SubSeq(all, 1, MaxRecent)[i] = all[i]
      BY <1>1, <3>1, SubSeqProperties
    <3>3. Len(all) \in Nat /\ MaxRecent <= Len(all)
      BY <1>1, <1>2, <1>5, <2>1
    <3>4. r.recent = SubSeq(all, 1, MaxRecent)
      BY <1>7, <2>1
    <3> QED BY <1>1, <3>2, <3>3, <3>4
  <2>2. CASE ~(Len(all) > MaxRecent)
    BY <1>1, <1>2, <1>5, <1>7, <2>2
  <2> QED BY <2>1, <2>2
<1>9. Distinct(r.recent)
  <2>1. DOMAIN r.recent = 1 .. Len(r.recent)
    BY <1>8
  <2>2. \A i \in 1 .. Len(r.recent) : i \in 1 .. Len(all)
    BY <1>2, <1>5, <1>8
  <2> QED BY <1>6, <1>8, <2>1, <2>2 DEF Distinct
<1>10. r.counts \in [Actions -> Nat]
  BY <1>1, <1>7
<1>11. Proper(r)
  <2>1. r \in Memory
    BY <1>7, <1>8, <1>10 DEF Memory
  <2> QED BY <1>8, <1>9, <2>1 DEF Proper
<1>12. ASSUME NEW ids, Within(m, ids), a \in ids PROVE Within(r, ids)
  <2>1. ASSUME NEW i \in 1 .. Len(r.recent) PROVE r.recent[i] \in ids
    <3>1. i \in 1 .. Len(all) /\ r.recent[i] = all[i]
      BY <1>2, <1>5, <1>8
    <3>2. i = 1 \/ (i \in 2 .. Len(all) /\ i - 1 \in 1 .. Len(rest))
      BY <1>2, <1>5, <3>1
    <3> QED BY <1>3, <1>5, <1>12, <3>1, <3>2 DEF Within
  <2>2. \A b \in Actions \ ids : r.counts[b] = 0
    BY <1>1, <1>7, <1>12 DEF Within
  <2> QED BY <2>1, <2>2 DEF Within
<1> QED BY <1>11, <1>12 DEF r

\* The empty history is one.
LEMMA EmptyProper == Proper(History!Empty)
<1>1. <<>> \in Seq(Actions) /\ Len(<<>>) = 0
  BY EmptySeq
<1>2. [a \in Actions |-> 0] \in [Actions -> Nat]
  OBVIOUS
<1>3. History!Empty.recent = <<>> /\ History!Empty \in Memory
  BY <1>1, <1>2 DEF History!Empty, Memory
<1> QED BY <1>1, <1>3, FilesAssumption DEF Proper, Distinct

\* What is loaded is a history.
LEMMA LoadProper ==
  ASSUME NEW f, Proper(f.mem) PROVE Proper(History!Loaded(f))
BY EmptyProper DEF History!Loaded

\* At the start there is no process and no file.
LEMMA HistoryInitial == History!Init => HistoryInv
<1> SUFFICES ASSUME History!Init PROVE HistoryInv
  OBVIOUS
<1>1. /\ process = "down" /\ mem = History!Empty
      /\ memFile = [state |-> "missing", mem |-> History!Empty]
  BY DEF History!Init
<1>2. memFile \in [state : {"missing", "torn", "good"}, mem : Memory] /\ Proper(memFile.mem)
  BY <1>1, EmptyProper DEF Proper
<1> QED
  BY <1>1, <1>2, EmptyProper
  DEF HistoryInv, States, RestartKeepsHistory, History!RestartKeepsHistory

\* The handlers keep it.
LEMMA HistoryStep == HistoryInv /\ [History!Next]_(History!vars) => HistoryInv'
<1> SUFFICES ASSUME HistoryInv, [History!Next]_(History!vars) PROVE HistoryInv'
  OBVIOUS
<1> DEFINE Files == [state : {"missing", "torn", "good"}, mem : Memory]
<1>1. /\ process \in States /\ Proper(mem) /\ memFile \in Files /\ Proper(memFile.mem)
      /\ process \in {"up", "writing on", "writing exit"} => Within(mem, library.ids)
      /\ process = "up" /\ opened => mem = History!Pruned(History!Loaded(memFile), library.ids)
  BY DEF HistoryInv, RestartKeepsHistory, History!RestartKeepsHistory
<1> SUFFICES /\ process' \in States /\ Proper(mem') /\ memFile' \in Files /\ Proper(memFile'.mem)
             /\ process' \in {"up", "writing on", "writing exit"} => Within(mem', library'.ids)
             /\ process' = "up" /\ opened' => mem' = History!Pruned(History!Loaded(memFile'), library'.ids)
  BY DEF HistoryInv, RestartKeepsHistory, History!RestartKeepsHistory,
         Proper, Within, History!Pruned, History!Loaded
<1> DEFINE Goal == /\ process' \in States /\ Proper(mem') /\ memFile' \in Files /\ Proper(memFile'.mem)
                   /\ process' \in {"up", "writing on", "writing exit"} => Within(mem', library'.ids)
                   /\ process' = "up" /\ opened' => mem' = History!Pruned(History!Loaded(memFile'), library'.ids)
<1>2. ASSUME memFile' \in {memFile, [memFile EXCEPT !.state = "torn"]}
      PROVE  memFile' \in Files /\ Proper(memFile'.mem)
  BY <1>1, <1>2 DEF Proper
<1>3. ASSUME History!Start PROVE Goal
  <2> DEFINE f == History!Loaded(memFile)
  <2>1. /\ process' = "up" /\ memFile' = memFile
        /\ mem' = History!Pruned(f, library'.ids)
    BY <1>3 DEF History!Start
  <2>2. Proper(f)
    BY <1>1, LoadProper
  <2>3. Proper(mem') /\ Within(mem', library'.ids)
    BY <2>1, <2>2, PruneProper
  <2> QED BY <1>1, <2>1, <2>3 DEF States
<1>4. ASSUME History!FinishSave PROVE Goal
  <2>1. /\ process \in {"writing on", "writing exit"} /\ process' \in {"up", "down"}
        /\ memFile' = IF opened THEN [state |-> "good", mem |-> mem] ELSE memFile
        /\ UNCHANGED <<mem, library, opened>>
    BY <1>4 DEF History!FinishSave
  <2>2. /\ memFile' \in Files /\ Proper(memFile'.mem)
        /\ opened => History!Loaded(memFile') = mem
    BY <1>1, <2>1 DEF Proper, History!Loaded
  <2>3. Within(mem, library.ids) /\ mem = History!Pruned(mem, library.ids)
    BY <1>1, <2>1, PruneIdle
  <2> QED BY <1>1, <2>1, <2>2, <2>3 DEF States
<1>5. ASSUME NEW a \in Actions, History!Launch(a) PROVE Goal
  <2>1. /\ process = "up" /\ process' = "writing on" /\ library' = library
        /\ a \in library.ids /\ mem' = History!Recorded(mem, a)
        /\ memFile' \in {memFile, [memFile EXCEPT !.state = "torn"]}
    BY <1>5 DEF History!Launch, History!BeginSave
  <2>2. Proper(mem') /\ Within(mem', library'.ids)
    BY <1>1, <2>1, RecordProper
  <2> QED BY <1>2, <2>1, <2>2 DEF States
<1>6. ASSUME History!ResetActionFrequencies PROVE Goal
  <2>1. /\ process = "up" /\ process' = "writing on" /\ library' = library
        /\ mem' = [mem EXCEPT !.counts = [a \in Actions |-> 0]]
        /\ memFile' \in {memFile, [memFile EXCEPT !.state = "torn"]}
    BY <1>6 DEF History!ResetActionFrequencies, History!BeginSave, History!Empty
  <2>2. Proper(mem') /\ Within(mem', library.ids)
    <3>1. mem \in Memory /\ Within(mem, library.ids)
      BY <1>1, <2>1 DEF Proper
    <3>2. mem' = [recent |-> mem.recent, counts |-> [a \in Actions |-> 0]]
      BY <2>1, <3>1 DEF Memory
    <3> QED BY <1>1, <3>1, <3>2 DEF Proper, Memory, Within
  <2> QED BY <1>2, <2>1, <2>2 DEF States
<1>7. ASSUME NEW lib \in Libraries, History!ApplyConfig(lib) PROVE Goal
  BY <1>1, <1>7 DEF History!ApplyConfig, States
<1>8. ASSUME History!FinishConfig PROVE Goal
  <2>1. /\ process' = "writing on" /\ library' = library
        /\ mem' = History!Pruned(mem, library.ids)
        /\ memFile' \in {memFile, [memFile EXCEPT !.state = "torn"]}
    BY <1>8 DEF History!FinishConfig, History!BeginSave
  <2>2. Proper(mem') /\ Within(mem', library'.ids)
    BY <1>1, <2>1, PruneProper
  <2> QED BY <1>2, <2>1, <2>2 DEF States
<1>9. ASSUME History!Exit PROVE Goal
  <2>1. /\ process = "up" /\ process' = "writing exit" /\ UNCHANGED <<mem, library>>
        /\ memFile' \in {memFile, [memFile EXCEPT !.state = "torn"]}
    BY <1>9 DEF History!Exit, History!BeginSave
  <2> QED BY <1>1, <1>2, <2>1 DEF States
<1>10. ASSUME History!Crash \/ History!EditConfig PROVE Goal
  BY <1>1, <1>10 DEF History!Crash, History!EditConfig, States
<1>11. ASSUME UNCHANGED <<process, library, mem, memFile, opened>> PROVE Goal
  BY <1>1, <1>11
<1>12. CASE \/ \E kind \in History!Kinds, n \in 1 .. MaxRank : History!BeginLookup(kind, n)
            \/ History!LookRank \/ History!CopyResult \/ UNCHANGED History!vars
  <2>1. UNCHANGED <<process, library, mem, memFile, opened>>
    BY <1>12 DEF History!BeginLookup, History!LookRank, History!CopyResult, History!vars
  <2> QED BY <1>11, <2>1
<1> QED
  BY <1>3, <1>4, <1>5, <1>6, <1>7, <1>8, <1>9, <1>10, <1>12 DEF History!Next

\* Whatever is launched, reset, configured, crashed or edited: while the
\* application is up and at rest, a restart would load and prune the history
\* it has in memory, if the last save could open its file.  (executeActionById, resetActionFrequencies, applyConfig)
THEOREM RestartIsSafe == History!Spec => []RestartKeepsHistory
<1>1. HistoryInv => RestartKeepsHistory
  BY DEF HistoryInv
<1> QED BY HistoryInitial, HistoryStep, <1>1, PTL DEF History!Spec

-----------------------------------------------------------------------------
(* The order of the actions.                                               *)

LEMMA SameCardinality == \A S : History!Cardinality(S) = Cardinality(S)
  BY DEF History!Cardinality, Cardinality

\* A rank is the place of the action in the list, or one after its end.
LEMMA Ranks ==
  ASSUME NEW m, Proper(m), NEW a
  PROVE  /\ History!Rank(m, a) \in 1 .. Len(m.recent) + 1
         /\ Len(m.recent) \in Nat
         /\ \A i \in 1 .. Len(m.recent) : m.recent[i] = a <=> History!Rank(m, a) = i
<1>1. /\ m.recent \in Seq(Actions) /\ Distinct(m.recent)
      /\ Len(m.recent) \in Nat /\ DOMAIN m.recent = 1 .. Len(m.recent)
  BY DEF Proper, Memory
<1>2. CASE \E i \in 1 .. Len(m.recent) : m.recent[i] = a
  <2>1. a \in Range(m.recent)
    BY <1>1, <1>2 DEF Range
  <2> DEFINE r == CHOOSE i \in DOMAIN m.recent : m.recent[i] = a
  <2>2. r \in 1 .. Len(m.recent) /\ m.recent[r] = a
    BY <1>1, <1>2
  <2>3. History!Rank(m, a) = r
    BY <2>1 DEF History!Rank, Range, History!Range
  <2> HIDE DEF r
  <2> QED BY <1>1, <2>2, <2>3 DEF Distinct
<1>3. CASE \A i \in 1 .. Len(m.recent) : m.recent[i] # a
  <2>1. History!Rank(m, a) = Len(m.recent) + 1
    BY <1>1, <1>3 DEF History!Rank, Range, History!Range
  <2> QED BY <1>1, <1>3, <2>1
<1> QED BY <1>2, <1>3

\* Before puts the actions in one line.
LEMMA InLine ==
  ASSUME NEW m, Proper(m)
  PROVE  /\ \A a \in Actions : ~History!Before(m, a, a)
         /\ \A a, b, c \in Actions :
              History!Before(m, a, b) /\ History!Before(m, b, c) => History!Before(m, a, c)
         /\ \A a, b \in Actions : a # b => History!Before(m, a, b) \/ History!Before(m, b, a)
<1>1. \A a \in Actions : m.counts[a] \in Nat /\ History!Rank(m, a) \in Nat /\ a \in Nat
  BY Ranks, FilesAssumption DEF Proper, Memory
<1> QED BY <1>1 DEF History!Before

Place(m, a) == Cardinality(History!Above(m, a))

\* Every used action has a place, and every place its action.
LEMMA Places ==
  ASSUME NEW m, Proper(m)
  PROVE  /\ IsFiniteSet(History!Used(m)) /\ Cardinality(History!Used(m)) \in Nat
         /\ \A a \in History!Used(m) : Place(m, a) \in 0 .. Cardinality(History!Used(m)) - 1
         /\ \A a, b \in History!Used(m) : Place(m, a) = Place(m, b) => a = b
         /\ \A k \in 0 .. Cardinality(History!Used(m)) - 1 :
              \E a \in History!Used(m) : Place(m, a) = k
<1> DEFINE U == History!Used(m)
           A == [a \in U |-> History!Above(m, a)]
<1>1. U \in SUBSET Actions /\ \A a \in U : A[a] = {b \in U : History!Before(m, b, a)}
  BY DEF History!Used, History!Above
<1>2. IsFiniteSet(U) /\ Cardinality(U) \in Nat
  BY <1>1, FilesAssumption, FS_Subset, FS_CardinalityType
<1>3. A \in [U -> SUBSET U]
  BY DEF History!Above
<1>4. \A a \in U : A[a] = History!Above(m, a)
  OBVIOUS
<1> HIDE DEF U, A
<1>5. \A a \in U : a \notin A[a]
  BY <1>1, InLine
<1>6. \A a, b \in U : b \in A[a] => A[b] \subseteq A[a]
  BY <1>1, InLine
<1>7. \A a, b \in U : a # b => a \in A[b] \/ b \in A[a]
  BY <1>1, InLine
<1>8. /\ \A a \in U : Cardinality(A[a]) \in 0 .. Cardinality(U) - 1
      /\ \A a, b \in U : Cardinality(A[a]) = Cardinality(A[b]) => a = b
      /\ \A k \in 0 .. Cardinality(U) - 1 : \E a \in U : Cardinality(A[a]) = k
  BY <1>2, <1>3, <1>5, <1>6, <1>7, Positions
<1> QED BY <1>2, <1>4, <1>8 DEF Place, U

\* The ranking by frequency has each at its place.
LEMMA ByPlace ==
  ASSUME NEW m, Proper(m)
  PROVE  /\ History!ByFrequency(m) \in Seq(Actions)
         /\ Len(History!ByFrequency(m)) = Cardinality(History!Used(m))
         /\ \A k \in 1 .. Cardinality(History!Used(m)) :
              /\ History!ByFrequency(m)[k] \in History!Used(m)
              /\ Place(m, History!ByFrequency(m)[k]) = k - 1
<1> DEFINE U == History!Used(m)
           n == Cardinality(U)
           F == History!ByFrequency(m)
<1>1. n \in Nat /\ \A k \in 1 .. n : \E a \in U : Cardinality(History!Above(m, a)) = k - 1
  <2>1. n \in Nat /\ \A k \in 0 .. n - 1 : \E a \in U : Cardinality(History!Above(m, a)) = k
    BY Places DEF Place
  <2>2. \A k \in 1 .. n : k - 1 \in 0 .. n - 1
    BY <2>1
  <2> QED BY <2>1, <2>2
<1>2. F = [k \in 1 .. n |-> CHOOSE a \in U : Cardinality(History!Above(m, a)) = k - 1]
  BY SameCardinality DEF History!ByFrequency
<1>3. U \subseteq Actions
  BY DEF History!Used
<1> HIDE DEF U, n, F
<1>4. \A k \in 1 .. n : F[k] \in U /\ Cardinality(History!Above(m, F[k])) = k - 1
  BY <1>1, <1>2
<1>5. F \in [1 .. n -> Actions]
  BY <1>2, <1>3, <1>4
<1>6. F \in Seq(Actions) /\ Len(F) = n
  BY <1>1, <1>5
<1> QED BY <1>4, <1>6 DEF U, n, F, Place

-----------------------------------------------------------------------------
(* The beginning of a ranking that a plain lookup has counted.             *)

\* The first f of them, if there are so many, are in G.
Headed(m, kind, G, f) ==
  \A k \in 1 .. f : k <= Len(History!Ranking(m, kind)) => History!Ranking(m, kind)[k] \in G

LEMMA RankingOfActions ==
  ASSUME NEW m, Proper(m), NEW kind PROVE History!Ranking(m, kind) \in Seq(Actions)
BY ByPlace DEF History!Ranking, Proper, Memory

\* By places: what is not in G comes after the first f.
LEMMA HeadedByPlace ==
  ASSUME NEW m, Proper(m), NEW G, NEW f \in Nat
  PROVE  Headed(m, "frequent", G, f) <=> \A x \in History!Used(m) \ G : Place(m, x) >= f
<1> DEFINE U == History!Used(m)
           n == Cardinality(U)
           F == History!ByFrequency(m)
<1>1. n \in Nat /\ \A x \in U : Place(m, x) \in 0 .. n - 1
  BY Places
<1>2. \A x, y \in U : Place(m, x) = Place(m, y) => x = y
  BY Places
<1>3. Len(F) = n /\ \A k \in 1 .. n : F[k] \in U /\ Place(m, F[k]) = k - 1
  BY ByPlace
<1>4. Headed(m, "frequent", G, f) <=> \A k \in 1 .. f : k <= Len(F) => F[k] \in G
  BY DEF Headed, History!Ranking
<1> HIDE DEF U, n, F
<1>5. ASSUME Headed(m, "frequent", G, f), NEW x \in U \ G PROVE Place(m, x) >= f
  <2> SUFFICES ASSUME Place(m, x) < f PROVE FALSE
    BY <1>1
  <2> DEFINE k == Place(m, x) + 1
  <2>1. k \in 1 .. n /\ k \in 1 .. f /\ Place(m, x) = k - 1
    BY <1>1
  <2>2. F[k] \in U /\ Place(m, F[k]) = Place(m, x) /\ F[k] \in G
    BY <1>1, <1>3, <1>4, <1>5, <2>1
  <2> QED BY <1>2, <2>2
<1>6. ASSUME \A x \in U \ G : Place(m, x) >= f PROVE Headed(m, "frequent", G, f)
  BY <1>1, <1>3, <1>4, <1>6
<1> QED BY <1>5, <1>6 DEF U

\* A launch puts its action first; what was listed moves down by one, as far
\* as to where the action was, and may drop off the end.
LEMMA RecordShape ==
  ASSUME NEW m, Proper(m), NEW a \in Actions
  PROVE  LET r == History!Recorded(m, a).recent
             s == m.recent
             p == History!Rank(m, a)
         IN  /\ Len(r) \in Nat \ {0} /\ r[1] = a
             /\ \A k \in 2 .. Len(r) : r[k] = IF k <= p THEN s[k - 1] ELSE s[k]
             /\ Len(r) = IF p <= Len(s) THEN Len(s)
                         ELSE IF Len(s) < MaxRecent THEN Len(s) + 1 ELSE Len(s)
<1> DEFINE r == History!Recorded(m, a).recent
           s == m.recent
           p == History!Rank(m, a)
           rest == Only(s, Actions \ {a})
           all == <<a>> \o rest
<1>1. /\ s \in Seq(Actions) /\ Len(s) \in Nat /\ Len(s) <= MaxRecent
      /\ MaxRecent \in Nat \ {0}
  BY FilesAssumption DEF Proper, Memory
<1>2. /\ p \in 1 .. Len(s) + 1
      /\ \A i \in 1 .. Len(s) : s[i] = a <=> p = i
  BY Ranks
<1>3. r = IF Len(all) > MaxRecent THEN SubSeq(all, 1, MaxRecent) ELSE all
  BY SameOnly DEF History!Recorded, History!Truncated
<1> HIDE DEF s, p, r
<1>4. /\ rest \in Seq(Actions)
      /\ Len(rest) = IF p <= Len(s) THEN Len(s) - 1 ELSE Len(s)
      /\ \A j \in 1 .. Len(rest) : rest[j] = IF j < p THEN s[j] ELSE s[j + 1]
  <2>1. rest \in Seq(Actions)
    BY <1>1, OnlyElements
  <2>2. CASE p <= Len(s)
    <3>1. p \in 1 .. Len(s) /\ \A i \in 1 .. Len(s) : s[i] = a <=> i = p
      BY <1>1, <1>2, <2>2
    <3>2. /\ Len(Only(s, Actions \ {a})) = Len(s) - 1
          /\ \A j \in 1 .. Len(s) - 1 :
               Only(s, Actions \ {a})[j] = IF j < p THEN s[j] ELSE s[j + 1]
      <4>1. s \in Seq(Actions) /\ p \in 1 .. Len(s) /\ \A i \in 1 .. Len(s) : s[i] = a <=> i = p
        BY <1>1, <3>1
      <4>2. ButOne(Only(s, Actions \ {a}), s, p)
        BY <4>1, OnlyButOne, Zenon
      <4>3. \A j \in 1 .. Len(s) - 1 :
              IF j < p THEN j \in 1 .. p - 1 ELSE j \in p .. Len(s) - 1
        BY <1>1, <3>1
      <4> QED BY <4>2, <4>3 DEF ButOne
    <3>3. /\ Len(rest) = Len(s) - 1
          /\ \A j \in 1 .. Len(s) - 1 : rest[j] = IF j < p THEN s[j] ELSE s[j + 1]
      BY <1>1, <3>1, <3>2
    <3> HIDE DEF rest
    <3> QED BY <2>1, <2>2, <3>3
  <2>3. CASE ~(p <= Len(s))
    <3>1. p = Len(s) + 1 /\ \A i \in 1 .. Len(s) : s[i] \in Actions \ {a}
      BY <1>1, <1>2, <2>3
    <3>2. rest = s
      BY <1>1, <3>1, OnlyAll
    <3> HIDE DEF rest
    <3>3. \A j \in 1 .. Len(s) : j < p
      BY <1>1, <3>1
    <3> QED BY <1>1, <2>1, <2>3, <3>2, <3>3
  <2> QED BY <2>2, <2>3
<1> HIDE DEF rest
<1>5. /\ all \in Seq(Actions) /\ Len(all) = Len(rest) + 1 /\ all[1] = a
      /\ \A k \in 2 .. Len(all) : all[k] = rest[k - 1] /\ k - 1 \in 1 .. Len(rest)
  BY <1>4
<1>6. \A k \in 2 .. Len(all) : all[k] = IF k <= p THEN s[k - 1] ELSE s[k]
  <2>1. ASSUME NEW k \in 2 .. Len(all)
        PROVE  all[k] = rest[k - 1] /\ rest[k - 1] = IF k - 1 < p THEN s[k - 1] ELSE s[(k - 1) + 1]
    BY <1>4, <1>5
  <2>2. ASSUME NEW k \in 2 .. Len(all) PROVE (k - 1 < p <=> k <= p) /\ (k - 1) + 1 = k
    BY <1>2, <1>1
  <2> HIDE DEF all
  <2> QED BY <2>1, <2>2
<1> HIDE DEF all
<1>7. /\ Len(r) = IF Len(all) > MaxRecent THEN MaxRecent ELSE Len(all)
      /\ \A k \in 1 .. Len(r) : r[k] = all[k] /\ k \in 1 .. Len(all)
  <2>1. CASE Len(all) > MaxRecent
    <3>1. Len(all) \in Nat /\ \A i \in 1 .. MaxRecent : i \in 1 .. Len(all)
      BY <1>1, <1>5, <2>1
    <3>2. \A i \in 1 .. MaxRecent : all[i] \in Actions
      BY <1>5, <3>1
    <3>3. /\ Len(SubSeq(all, 1, MaxRecent)) = MaxRecent
          /\ \A i \in 1 .. MaxRecent : SubSeq(all, 1, MaxRecent)[i] = all[i]
      BY <1>1, <3>2, SubSeqProperties
    <3> QED BY <1>3, <2>1, <3>1, <3>3
  <2>2. CASE ~(Len(all) > MaxRecent)
    BY <1>3, <1>5, <2>2
  <2> QED BY <2>1, <2>2
<1>8. Len(r) = IF p <= Len(s) THEN Len(s) ELSE IF Len(s) < MaxRecent THEN Len(s) + 1 ELSE Len(s)
  BY <1>1, <1>2, <1>4, <1>5, <1>7
<1>9. Len(r) \in Nat \ {0} /\ r[1] = a
  BY <1>1, <1>2, <1>5, <1>7, <1>8
<1>10. \A k \in 2 .. Len(r) : r[k] = IF k <= p THEN s[k - 1] ELSE s[k]
  BY <1>5, <1>6, <1>7, <1>9
<1> QED BY <1>8, <1>9, <1>10 DEF r, s, p

\* So the recent actions counted stay in front.
LEMMA LaunchHeadsRecent ==
  ASSUME NEW m, Proper(m), NEW a \in Actions, NEW G, a \in G, NEW f \in Nat,
         Headed(m, "recent", G, f)
  PROVE  Headed(History!Recorded(m, a), "recent", G, f)
<1> DEFINE r == History!Recorded(m, a).recent
           s == m.recent
           p == History!Rank(m, a)
<1>1. /\ Len(r) \in Nat \ {0} /\ r[1] = a
      /\ \A k \in 2 .. Len(r) : r[k] = IF k <= p THEN s[k - 1] ELSE s[k]
      /\ Len(r) = IF p <= Len(s) THEN Len(s)
                  ELSE IF Len(s) < MaxRecent THEN Len(s) + 1 ELSE Len(s)
  BY RecordShape
<1>2. p \in 1 .. Len(s) + 1 /\ Len(s) \in Nat
  BY Ranks
<1>3. /\ History!Ranking(m, "recent") = s
      /\ History!Ranking(History!Recorded(m, a), "recent") = r
  BY DEF History!Ranking
<1>4. \A k \in 1 .. f : k <= Len(s) => s[k] \in G
  BY <1>3 DEF Headed
<1> HIDE DEF r, s, p
<1>5. ASSUME NEW k \in 1 .. f, k <= Len(r) PROVE r[k] \in G
  <2>1. CASE k = 1
    BY <1>1, <2>1
  <2>2. CASE k # 1 /\ k <= p
    <3>1. k \in 2 .. Len(r) /\ k - 1 \in 1 .. f /\ k - 1 <= Len(s)
      BY <1>1, <1>2, <1>5, <2>2
    <3> QED BY <1>1, <1>4, <2>2, <3>1
  <2>3. CASE k # 1 /\ ~(k <= p)
    <3>1. k \in 2 .. Len(r) /\ k <= Len(s)
      BY <1>1, <1>2, <1>5, <2>3
    <3> QED BY <1>1, <1>4, <2>3, <3>1
  <2> QED BY <2>1, <2>2, <2>3
<1> QED BY <1>3, <1>5 DEF Headed

\* The ranks of the others when nothing drops off the end.
LEMMA LaunchRank ==
  ASSUME NEW m, Proper(m), NEW a \in Actions, NEW x, x # a,
         ~(History!Rank(m, a) > Len(m.recent) /\ Len(m.recent) = MaxRecent)
  PROVE  History!Rank(History!Recorded(m, a), x) =
           IF History!Rank(m, x) < History!Rank(m, a) \/ History!Rank(m, a) > Len(m.recent)
           THEN History!Rank(m, x) + 1 ELSE History!Rank(m, x)
<1> DEFINE q == History!Recorded(m, a)
           r == q.recent
           s == m.recent
           p == History!Rank(m, a)
           i == History!Rank(m, x)
           j == History!Rank(q, x)
<1>1. /\ Len(r) \in Nat \ {0} /\ r[1] = a
      /\ \A k \in 2 .. Len(r) : r[k] = IF k <= p THEN s[k - 1] ELSE s[k]
      /\ Len(r) = IF p <= Len(s) THEN Len(s)
                  ELSE IF Len(s) < MaxRecent THEN Len(s) + 1 ELSE Len(s)
  BY RecordShape
<1>2. /\ p \in 1 .. Len(s) + 1 /\ Len(s) \in Nat
      /\ \A k \in 1 .. Len(s) : s[k] = a <=> p = k
  BY Ranks
<1>3. i \in 1 .. Len(s) + 1 /\ \A k \in 1 .. Len(s) : s[k] = x <=> i = k
  BY Ranks
<1>4. j \in 1 .. Len(r) + 1 /\ \A k \in 1 .. Len(r) : r[k] = x <=> j = k
  <2>1. Proper(q)
    BY RecordProper
  <2> HIDE DEF q
  <2> QED BY <2>1, Ranks
<1>5. Len(s) <= MaxRecent /\ MaxRecent \in Nat /\ ~(p > Len(s) /\ Len(s) = MaxRecent)
  BY FilesAssumption DEF Proper
<1> HIDE DEF q, r, s, p, i, j
<1>6. Len(r) = IF p <= Len(s) THEN Len(s) ELSE Len(s) + 1
  BY <1>1, <1>2, <1>5
<1>7. CASE i > Len(s)
  <2>1. i = Len(s) + 1 /\ \A k \in 1 .. Len(s) : s[k] # x
    BY <1>2, <1>3, <1>7
  <2>2. ASSUME NEW k \in 1 .. Len(r) PROVE r[k] # x
    <3>1. CASE k = 1
      BY <1>1, <3>1
    <3>2. CASE k # 1 /\ k <= p
      <4>1. k \in 2 .. Len(r) /\ k - 1 \in 1 .. Len(s)
        BY <1>2, <1>6, <3>2
      <4> QED BY <1>1, <2>1, <3>2, <4>1
    <3>3. CASE k # 1 /\ ~(k <= p)
      <4>1. k \in 2 .. Len(r) /\ k \in 1 .. Len(s)
        BY <1>2, <1>6, <3>3
      <4> QED BY <1>1, <2>1, <3>3, <4>1
    <3> QED BY <3>1, <3>2, <3>3
  <2>3. j = Len(r) + 1
    BY <1>1, <1>4, <2>2
  <2> QED BY <1>2, <1>6, <2>1, <2>3 DEF i, j, p, s, q
<1>8. CASE i <= Len(s)
  <2>1. i \in 1 .. Len(s) /\ s[i] = x /\ i # p
    BY <1>2, <1>3, <1>8
  <2>2. CASE i < p
    <3>1. i + 1 \in 2 .. Len(r) /\ i + 1 \in 1 .. Len(r) /\ i + 1 <= p /\ (i + 1) - 1 = i
      BY <1>2, <1>6, <2>1, <2>2
    <3>2. r[i + 1] = x
      BY <1>1, <2>1, <3>1
    <3>3. j = i + 1
      BY <1>4, <3>1, <3>2
    <3> QED BY <2>2, <3>3 DEF i, j, p, s, q
  <2>3. CASE ~(i < p)
    <3>1. i \in 2 .. Len(r) /\ i \in 1 .. Len(r) /\ ~(i <= p) /\ ~(p > Len(s))
      BY <1>2, <1>6, <2>1, <2>3
    <3>2. r[i] = x
      BY <1>1, <2>1, <3>1
    <3>3. j = i
      BY <1>4, <3>1, <3>2
    <3> QED BY <2>3, <3>1, <3>3 DEF i, j, p, s, q
  <2> QED BY <2>2, <2>3
<1>9. i > Len(s) \/ i <= Len(s)
  BY <1>2, <1>3
<1> QED BY <1>7, <1>8, <1>9

\* So the others keep their order, and what was before another stays so.
LEMMA LaunchKeepsBefore ==
  ASSUME NEW m, Proper(m), NEW a \in Actions,
         ~(History!Rank(m, a) > Len(m.recent) /\ Len(m.recent) = MaxRecent),
         NEW b \in Actions, NEW x \in Actions, x # a, History!Before(m, b, x)
  PROVE  History!Before(History!Recorded(m, a), b, x)
<1> DEFINE q == History!Recorded(m, a)
           up(y) == IF History!Rank(m, y) < History!Rank(m, a) \/ History!Rank(m, a) > Len(m.recent)
                    THEN History!Rank(m, y) + 1 ELSE History!Rank(m, y)
<1>1. /\ m.counts \in [Actions -> Nat] /\ b \in Nat /\ x \in Nat
      /\ q.counts = [m.counts EXCEPT ![a] = @ + 1]
  BY FilesAssumption DEF Proper, Memory, History!Recorded
<1>2. /\ q.counts[x] = m.counts[x] /\ m.counts[x] \in Nat /\ m.counts[b] \in Nat
      /\ q.counts[b] = IF b = a THEN m.counts[b] + 1 ELSE m.counts[b]
  BY <1>1
<1>3. CASE b = a
  <2>1. m.counts[b] >= m.counts[x]
    BY <1>2 DEF History!Before
  <2>2. q.counts[b] > q.counts[x]
    BY <1>2, <1>3, <2>1
  <2> QED BY <2>2 DEF History!Before
<1>4. CASE b # a
  <2>1. History!Rank(q, x) = up(x) /\ History!Rank(q, b) = up(b)
    BY <1>4, LaunchRank
  <2>2. /\ Len(m.recent) \in Nat
        /\ History!Rank(m, a) \in Nat /\ History!Rank(m, x) \in Nat /\ History!Rank(m, b) \in Nat
    BY Ranks
  <2>3. History!Rank(m, a) <= Len(m.recent) => History!Rank(m, x) # History!Rank(m, a)
    <3>1. ASSUME History!Rank(m, a) <= Len(m.recent), History!Rank(m, x) = History!Rank(m, a) PROVE FALSE
      <4>1. History!Rank(m, a) \in 1 .. Len(m.recent)
        BY <3>1, Ranks
      <4> QED BY <3>1, <4>1, Ranks
    <3> QED BY <3>1
  <2>4. /\ History!Rank(m, b) < History!Rank(m, x) => History!Rank(q, b) < History!Rank(q, x)
        /\ History!Rank(m, b) = History!Rank(m, x) => History!Rank(q, b) = History!Rank(q, x)
    BY <2>1, <2>2, <2>3
  <2> QED BY <1>2, <1>4, <2>4 DEF History!Before
<1> QED BY <1>3, <1>4

\* The frequent actions counted stay in front when nothing drops.
LEMMA LaunchHeadsFrequent ==
  ASSUME NEW m, Proper(m), NEW a \in Actions, NEW G, a \in G, NEW f \in Nat,
         ~(History!Rank(m, a) > Len(m.recent) /\ Len(m.recent) = MaxRecent),
         Headed(m, "frequent", G, f)
  PROVE  Headed(History!Recorded(m, a), "frequent", G, f)
<1> DEFINE q == History!Recorded(m, a)
<1>1. Proper(q) /\ q.counts = [m.counts EXCEPT ![a] = @ + 1]
  BY RecordProper DEF History!Recorded
<1>2. \A x \in History!Used(m) \ G : Place(m, x) >= f
  BY HeadedByPlace
<1>3. m.counts \in [Actions -> Nat]
  BY DEF Proper, Memory
<1>4. ASSUME NEW b \in Actions, NEW x \in Actions, x # a, History!Before(m, b, x)
      PROVE  History!Before(q, b, x)
  BY <1>4, LaunchKeepsBefore
<1> HIDE DEF q
<1>5. ASSUME NEW x \in History!Used(q) \ G PROVE Place(q, x) >= f
  <2>1. x \in Actions /\ x # a /\ x \in History!Used(m) \ G
    BY <1>1, <1>3 DEF History!Used
  <2>2. History!Above(m, x) \subseteq History!Above(q, x)
    <3> SUFFICES ASSUME NEW b \in History!Above(m, x) PROVE b \in History!Above(q, x)
      OBVIOUS
    <3>1. b \in Actions /\ m.counts[b] > 0 /\ History!Before(m, b, x)
      BY DEF History!Above, History!Used
    <3>2. q.counts[b] > 0
      BY <1>1, <1>3, <3>1
    <3> QED BY <1>4, <2>1, <3>1, <3>2 DEF History!Above, History!Used
  <2>3. IsFiniteSet(History!Above(q, x))
    <3>1. History!Above(q, x) \in SUBSET Actions
      BY DEF History!Above, History!Used
    <3> QED BY <3>1, FS_Subset, FilesAssumption
  <2>4. /\ Place(m, x) <= Place(q, x) /\ Place(m, x) \in Nat /\ Place(q, x) \in Nat
    BY <2>2, <2>3, FS_Subset, FS_CardinalityType DEF Place
  <2> QED BY <1>2, <2>1, <2>4
<1> QED BY <1>1, <1>5, HeadedByPlace DEF q

\* A prune keeps the order of the actions it keeps.
LEMMA PruneKeepsBefore ==
  ASSUME NEW m, Proper(m), NEW ids, NEW b \in Actions, b \in ids, NEW x \in Actions, x \in ids,
         History!Before(m, b, x)
  PROVE  History!Before(History!Pruned(m, ids), b, x)
<1> DEFINE q == History!Pruned(m, ids)
           s == m.recent
           t == q.recent
           i == History!Rank(m, b)
           j == History!Rank(m, x)
           k == History!Rank(q, b)
           l == History!Rank(q, x)
<1>1. /\ q.counts = [a \in Actions |-> IF a \in ids THEN m.counts[a] ELSE 0]
      /\ t = Only(s, ids) /\ m.counts \in [Actions -> Nat] /\ s \in Seq(Actions)
      /\ b \in Nat /\ x \in Nat
      /\ \A u, v \in 1 .. Len(s) : s[u] = s[v] => u = v
  BY SameOnly, FilesAssumption DEF Proper, Memory, Distinct, History!Pruned
<1>2. q.counts[b] = m.counts[b] /\ q.counts[x] = m.counts[x]
  BY <1>1
<1>3. /\ i \in 1 .. Len(s) + 1 /\ j \in 1 .. Len(s) + 1 /\ Len(s) \in Nat
      /\ \A n \in 1 .. Len(s) : (s[n] = b <=> i = n) /\ (s[n] = x <=> j = n)
  BY Ranks
<1>4. /\ k \in 1 .. Len(t) + 1 /\ l \in 1 .. Len(t) + 1 /\ Len(t) \in Nat
      /\ \A n \in 1 .. Len(t) : (t[n] = b <=> k = n) /\ (t[n] = x <=> l = n)
  <2>1. Proper(q)
    BY PruneProper
  <2> HIDE DEF q
  <2> QED BY <2>1, Ranks
<1>5. History!Before(m, b, x) <=>
        \/ m.counts[b] > m.counts[x]
        \/ m.counts[b] = m.counts[x] /\ i < j
        \/ m.counts[b] = m.counts[x] /\ i = j /\ b < x
  BY DEF History!Before
<1>6. History!Before(q, b, x) <=>
        \/ q.counts[b] > q.counts[x]
        \/ q.counts[b] = q.counts[x] /\ k < l
        \/ q.counts[b] = q.counts[x] /\ k = l /\ b < x
  BY DEF History!Before
<1> HIDE DEF q, s, t, i, j, k, l
<1>7. \A u \in 1 .. Len(s) : s[u] \in ids => \E n \in 1 .. Len(t) : t[n] = s[u]
  BY <1>1, OnlyElements
<1>8. \A n \in 1 .. Len(t) : \E u \in 1 .. Len(s) : t[n] = s[u]
  BY <1>1, OnlyFrom
<1>9. ASSUME i < j PROVE k < l
  <2>1. i \in 1 .. Len(s) /\ s[i] = b
    BY <1>3, <1>9
  <2>2. k \in 1 .. Len(t) /\ t[k] = b
    BY <1>4, <1>7, <2>1
  <2>3. CASE l > Len(t)
    BY <1>4, <2>2, <2>3
  <2>4. CASE l <= Len(t)
    <3>1. l \in 1 .. Len(t) /\ t[l] = x
      BY <1>4, <2>4
    <3>2. j \in 1 .. Len(s) /\ s[j] = x
      BY <1>3, <1>8, <3>1
    <3>3. /\ s \in Seq(Actions) /\ \A u, v \in 1 .. Len(s) : s[u] = s[v] => u = v
          /\ i \in 1 .. Len(s) /\ j \in 1 .. Len(s) /\ i < j
          /\ k \in 1 .. Len(Only(s, ids)) /\ l \in 1 .. Len(Only(s, ids))
          /\ Only(s, ids)[k] = s[i] /\ Only(s, ids)[l] = s[j]
      BY <1>1, <1>9, <2>1, <2>2, <3>1, <3>2
    <3> QED BY <3>3, OnlyKeepsOrder, Zenon
  <2> QED BY <1>4, <2>3, <2>4
<1>10. ASSUME i = j PROVE k = l
  <2>1. CASE i <= Len(s)
    <3>1. i \in 1 .. Len(s) /\ b = x
      BY <1>3, <1>10, <2>1
    <3> QED BY <3>1 DEF k, l
  <2>2. CASE i > Len(s)
    <3>1. \A n \in 1 .. Len(s) : s[n] # b /\ s[n] # x
      BY <1>3, <1>10, <2>2
    <3>2. \A n \in 1 .. Len(t) : t[n] # b /\ t[n] # x
      BY <1>8, <3>1
    <3> QED BY <1>4, <3>2
  <2> QED BY <1>3, <2>1, <2>2
<1> QED BY <1>2, <1>5, <1>6, <1>9, <1>10 DEF q

\* What was counted stays in front when others are pruned.
LEMMA PruneHeadsRecent ==
  ASSUME NEW m, Proper(m), NEW ids, NEW G, G \subseteq ids, NEW f \in Nat,
         Headed(m, "recent", G, f)
  PROVE  Headed(History!Pruned(m, ids), "recent", G, f)
<1> DEFINE s == m.recent
           t == Only(s, ids)
<1>1. s \in Seq(Actions) /\ Len(s) \in Nat
  BY DEF Proper, Memory
<1>2. /\ History!Ranking(m, "recent") = s
      /\ History!Ranking(History!Pruned(m, ids), "recent") = t
  BY SameOnly DEF History!Ranking, History!Pruned
<1> HIDE DEF s
<1>3. Len(t) \in Nat /\ Len(t) <= Len(s)
  BY <1>1, OnlyElements
<1>4. ASSUME NEW k \in 1 .. f, k <= Len(t) PROVE t[k] \in G
  <2>1. k \in 0 .. Len(s) /\ k \in 1 .. k /\ k \in Nat
    BY <1>1, <1>3, <1>4
  <2>2. \A i \in 1 .. k : i \in 1 .. f /\ i <= Len(s)
    BY <1>1, <1>3, <1>4
  <2>3. \A i \in 1 .. k : s[i] \in G
    BY <1>2, <2>2 DEF Headed
  <2>4. \A i \in 1 .. k : s[i] \in ids
    BY <2>3
  <2>5. t[k] = s[k]
    BY <1>1, <2>1, <2>4, OnlyPrefix
  <2> QED BY <2>1, <2>3, <2>5
<1> QED BY <1>2, <1>4 DEF Headed

LEMMA PruneHeadsFrequent ==
  ASSUME NEW m, Proper(m), NEW ids, NEW G, G \subseteq ids, NEW f \in Nat,
         Headed(m, "frequent", G, f)
  PROVE  Headed(History!Pruned(m, ids), "frequent", G, f)
<1> DEFINE q == History!Pruned(m, ids)
           U == History!Used(m)
<1>1. Proper(q) /\ q.counts = [a \in Actions |-> IF a \in ids THEN m.counts[a] ELSE 0]
  BY PruneProper DEF History!Pruned
<1>2. /\ \A x \in U \ G : Place(m, x) >= f
      /\ U \subseteq Actions /\ m.counts \in [Actions -> Nat]
  BY HeadedByPlace DEF History!Used, Proper, Memory
<1>3. /\ Cardinality(U) \in Nat
      /\ \A a \in U : Place(m, a) \in 0 .. Cardinality(U) - 1
      /\ \A k \in 0 .. Cardinality(U) - 1 : \E a \in U : Place(m, a) = k
  BY Places
<1>4. ASSUME NEW b \in Actions, b \in ids, NEW x \in Actions, x \in ids, History!Before(m, b, x)
      PROVE  History!Before(q, b, x)
  BY <1>4, PruneKeepsBefore
<1> HIDE DEF q
<1>5. ASSUME NEW x \in History!Used(q) \ G PROVE Place(q, x) >= f
  <2>1. x \in Actions /\ x \in ids /\ x \in U \ G /\ Place(m, x) >= f
    BY <1>1, <1>2 DEF History!Used
  <2> DEFINE F == {y \in U : Place(m, y) < f}
             h == [k \in 1 .. f |-> CHOOSE y \in U : Place(m, y) = k - 1]
  <2>2. \A y \in F : History!Before(m, y, x)
    <3> SUFFICES ASSUME NEW y \in F, ~History!Before(m, y, x) PROVE FALSE
      OBVIOUS
    <3>1. y \in Actions /\ y \in U /\ Place(m, y) < f /\ y # x
      BY <1>2, <1>3, <2>1
    <3>2. History!Before(m, x, y)
      BY <2>1, <3>1, InLine
    <3>3. History!Above(m, x) \subseteq History!Above(m, y)
      BY <1>2, <2>1, <3>1, <3>2, InLine DEF History!Above
    <3>4. History!Above(m, y) \in SUBSET Actions
      BY DEF History!Above, History!Used
    <3>5. IsFiniteSet(History!Above(m, y))
      BY <3>4, FS_Subset, FilesAssumption
    <3>6. Place(m, x) <= Place(m, y)
      BY <3>3, <3>5, FS_Subset DEF Place
    <3> QED BY <1>3, <2>1, <3>1, <3>6
  <2>3. F \subseteq History!Above(q, x)
    <3> SUFFICES ASSUME NEW y \in F PROVE y \in History!Above(q, x)
      OBVIOUS
    <3>1. y \in Actions /\ y \in ids /\ m.counts[y] > 0
      BY <1>2, <1>3 DEF History!Used
    <3>2. q.counts[y] > 0
      BY <1>1, <3>1
    <3> QED BY <1>4, <2>1, <2>2, <3>1, <3>2 DEF History!Above, History!Used
  <2>4. IsFiniteSet(History!Above(q, x))
    <3>1. History!Above(q, x) \in SUBSET Actions
      BY DEF History!Above, History!Used
    <3> QED BY <3>1, FS_Subset, FilesAssumption
  <2>5. IsFiniteSet(F) /\ Cardinality(F) <= Place(q, x) /\ Place(q, x) \in Nat /\ Cardinality(F) \in Nat
    BY <2>3, <2>4, FS_Subset, FS_CardinalityType DEF Place
  <2>6. \A k \in 1 .. f : h[k] \in U /\ Place(m, h[k]) = k - 1
    <3>1. \A k \in 1 .. f : k - 1 \in 0 .. Cardinality(U) - 1
      BY <1>3, <2>1
    <3>2. \A k \in 1 .. f : \E y \in U : Place(m, y) = k - 1
      BY <1>3, <3>1
    <3> HIDE DEF U
    <3> QED BY <3>2
  <2>7. h \in Injection(1 .. f, F)
    <3>1. h = [k \in 1 .. f |-> h[k]] /\ \A k \in 1 .. f : h[k] \in F
      BY <2>6
    <3> HIDE DEF h, F
    <3>2. h \in [1 .. f -> F]
      BY <3>1
    <3>3. \A k, l \in 1 .. f : h[k] = h[l] => k = l
      BY <2>6
    <3> QED BY <3>2, <3>3 DEF Injection, IsInjective
  <2>8. Cardinality(1 .. f) <= Cardinality(F) /\ Cardinality(1 .. f) = f
    <3>1. Cardinality(1 .. f) = IF 1 > f THEN 0 ELSE f - 1 + 1
      BY FS_Interval
    <3> HIDE DEF h, F
    <3> QED BY <2>5, <2>7, <3>1, FS_Injection
  <2> QED BY <2>5, <2>8
<1> QED BY <1>1, <1>5, HeadedByPlace DEF q

-----------------------------------------------------------------------------
(* A plain lookup is right.                                                *)

Lookups == [pc : {"idle", "walk", "done"}, kind : History!Kinds, n : Nat, rank : Nat \ {0},
            found : Nat, plain : BOOLEAN, result : Actions \cup {0}, since : Nat, of : Nat]

Countable == library.ids \ library.helpers

\* What a plain lookup has passed, it has counted, and these still come first.
PlainSoFar ==
  /\ worker.rank = worker.found + 1 /\ worker.found < worker.n
  /\ Headed(mem, worker.kind, Countable, worker.found)

LookupInv ==
  /\ applied \in Nat /\ worker \in Lookups /\ worker.since <= applied
  /\ worker.pc = "walk" =>
       /\ worker.result = 0
       /\ History!Answer(mem, library, worker.kind, worker.n) \in answers
       /\ worker.since = applied /\ worker.plain => PlainSoFar
  /\ PlainLookupConsistent

LEMMA IdleLookup == History!Idle \in Lookups /\ History!Idle.pc = "idle"
BY DEF History!Idle, Lookups, History!Kinds, History!None

LEMMA LookupInitial == History!Init => LookupInv
BY IdleLookup
DEF History!Init, LookupInv, Lookups, PlainLookupConsistent, History!PlainLookupConsistent, History!Idle

\* When the lookup has found its n-th, that is the answer.
LEMMA AnswerFound ==
  ASSUME NEW m, Proper(m), NEW lib, NEW kind, NEW n \in Nat \ {0},
         n <= Len(History!Ranking(m, kind)), Headed(m, kind, lib.ids \ lib.helpers, n)
  PROVE  History!Answer(m, lib, kind, n) = History!Ranking(m, kind)[n]
<1> DEFINE r == History!Ranking(m, kind)
           G == lib.ids \ lib.helpers
<1>1. r \in Seq(Actions) /\ Len(r) \in Nat
  BY RankingOfActions
<1>2. History!Answer(m, lib, kind, n) = IF n <= Len(Only(r, G)) THEN Only(r, G)[n] ELSE 0
  BY SameOnly DEF History!Answer, History!None
<1>3. \A i \in 1 .. n : i <= Len(r) => r[i] \in G
  BY DEF Headed
<1> HIDE DEF r, G
<1>4. n \in 0 .. Len(r) /\ \A i \in 1 .. n : i <= Len(r)
  BY <1>1 DEF r
<1>5. /\ Len(Only(r, G)) >= n
      /\ \A i \in 1 .. n : Only(r, G)[i] = r[i]
  <2>1. \A i \in 1 .. n : r[i] \in G
    BY <1>3, <1>4
  <2> QED BY <1>1, <1>4, <2>1, OnlyPrefix
<1>6. Len(Only(r, G)) \in Nat
  BY <1>1, OnlyElements
<1> QED BY <1>2, <1>5, <1>6 DEF r

\* When it has counted all there are, there is none.
LEMMA AnswerNone ==
  ASSUME NEW m, Proper(m), NEW lib, NEW kind, NEW n \in Nat, NEW f \in Nat, f < n,
         f >= Len(History!Ranking(m, kind)), Headed(m, kind, lib.ids \ lib.helpers, f)
  PROVE  History!Answer(m, lib, kind, n) = 0
<1> DEFINE r == History!Ranking(m, kind)
           G == lib.ids \ lib.helpers
<1>1. r \in Seq(Actions) /\ Len(r) \in Nat
  BY RankingOfActions
<1>2. History!Answer(m, lib, kind, n) = IF n <= Len(Only(r, G)) THEN Only(r, G)[n] ELSE 0
  BY SameOnly DEF History!Answer, History!None
<1>3. \A i \in 1 .. f : i <= Len(r) => r[i] \in G
  BY DEF Headed
<1>4. f >= Len(r)
  OBVIOUS
<1> HIDE DEF r, G
<1>5. \A i \in 1 .. Len(r) : r[i] \in G
  BY <1>1, <1>3, <1>4
<1>6. Only(r, G) = r
  BY <1>1, <1>5, OnlyAll
<1> QED BY <1>1, <1>2, <1>4, <1>6

\* One rank more.
LEMMA LookRankStep ==
  HistoryInv /\ LookupInv /\ History!LookRank /\ History!Observe => LookupInv'
<1> SUFFICES ASSUME HistoryInv, LookupInv, History!LookRank, History!Observe PROVE LookupInv'
  OBVIOUS
<1> DEFINE r == History!Ranking(mem, worker.kind)
           id == r[worker.rank]
           w == worker
           plain == w.since = applied /\ w.plain
<1>1. Proper(mem) /\ r \in Seq(Actions) /\ Len(r) \in Nat
  <2>1. Proper(mem)
    BY DEF HistoryInv
  <2> QED BY <2>1, RankingOfActions
<1>2. /\ w.pc = "walk" /\ w \in Lookups /\ w.result = 0 /\ w.since <= applied /\ applied \in Nat
      /\ History!Answer(mem, library, w.kind, w.n) \in answers
      /\ plain => PlainSoFar
  BY DEF LookupInv, History!LookRank
<1>3. UNCHANGED <<library, applied, mem>>
  BY DEF History!LookRank
<1>4. w.rank \in Nat \ {0} /\ w.found \in Nat /\ w.n \in Nat /\ w.kind \in History!Kinds
  BY <1>2 DEF Lookups
<1>5. CASE w.rank > Len(r)
  <2>1. w' = [w EXCEPT !.pc = "done"]
    BY <1>5 DEF History!LookRank
  <2>2. /\ w' \in Lookups /\ w'.pc = "done" /\ w'.since = w.since /\ w'.plain = w.plain
        /\ w'.result = 0
    BY <1>2, <2>1 DEF Lookups
  <2>3. answers' = answers
    BY <2>2 DEF History!Observe
  <2>4. ASSUME plain PROVE 0 \in answers
    <3>1. PlainSoFar
      BY <1>2, <2>4
    <3>2. w.found < w.n /\ w.found >= Len(r) /\ Headed(mem, w.kind, Countable, w.found)
      BY <1>1, <1>4, <1>5, <3>1 DEF PlainSoFar
    <3>3. History!Answer(mem, library, w.kind, w.n) = 0
      BY <1>1, <1>4, <3>2, AnswerNone DEF Countable
    <3> QED BY <1>2, <3>3
  <2> QED
    BY <1>2, <1>3, <2>2, <2>3, <2>4
    DEF LookupInv, PlainLookupConsistent, History!PlainLookupConsistent
<1>6. CASE ~(w.rank > Len(r)) /\ History!Counts(id) /\ w.found + 1 = w.n
  <2>1. w' = [w EXCEPT !.pc = "done", !.result = id, !.of = applied]
    BY <1>6 DEF History!LookRank
  <2>2. id \in Actions
    BY <1>1, <1>4, <1>6
  <2> HIDE DEF id
  <2>3. /\ w' \in Lookups /\ w'.pc = "done" /\ w'.since = w.since /\ w'.plain = w.plain
        /\ w'.result = id
    BY <1>2, <2>1, <2>2 DEF Lookups
  <2>4. answers' = answers
    BY <2>3 DEF History!Observe
  <2>5. ASSUME plain PROVE id \in answers
    <3>1. w.rank = w.found + 1 /\ Headed(mem, w.kind, Countable, w.found)
      BY <1>2, <2>5 DEF PlainSoFar
    <3>2. w.rank = w.n /\ w.n \in Nat \ {0} /\ w.n <= Len(r) /\ id = r[w.n]
      BY <1>1, <1>4, <1>6, <3>1 DEF id
    <3>3. Headed(mem, w.kind, Countable, w.n)
      <4>1. \A k \in 1 .. w.n : k \in 1 .. w.found \/ k = w.n
        BY <1>4, <1>6
      <4>2. id \in Countable
        BY <1>6 DEF History!Counts, Countable
      <4> QED BY <3>1, <3>2, <4>1, <4>2 DEF Headed
    <3>4. History!Answer(mem, library, w.kind, w.n) = r[w.n]
      BY <1>1, <3>2, <3>3, AnswerFound DEF Countable
    <3> QED BY <1>2, <3>2, <3>4
  <2> QED
    BY <1>2, <1>3, <2>3, <2>4, <2>5
    DEF LookupInv, PlainLookupConsistent, History!PlainLookupConsistent
<1>7. CASE ~(w.rank > Len(r)) /\ ~(History!Counts(id) /\ w.found + 1 = w.n)
  <2> DEFINE c == History!Counts(id)
             f == IF c THEN w.found + 1 ELSE w.found
             p == w.plain /\ c
  <2>1. w' = [w EXCEPT !.rank = w.rank + 1, !.found = f, !.plain = p]
    BY <1>4, <1>7 DEF History!LookRank
  <2>2. f \in Nat /\ w.rank + 1 \in Nat \ {0}
    BY <1>4
  <2>3. p \in BOOLEAN
    OBVIOUS
  <2> HIDE DEF c, f, p
  <2>4. w' \in Lookups
    BY <1>2, <2>1, <2>2, <2>3 DEF Lookups
  <2>5. /\ w'.pc = "walk" /\ w'.since = w.since /\ w'.result = 0
        /\ w'.kind = w.kind /\ w'.n = w.n /\ w'.rank = w.rank + 1 /\ w'.found = f
    BY <1>2, <2>1 DEF Lookups
  <2>6. w'.plain = p
    BY <1>2, <2>1 DEF Lookups
  <2>7. History!Answer(mem', library', w'.kind, w'.n) \in answers'
    BY <2>5 DEF History!Observe
  <2>8. ASSUME plain, c PROVE PlainSoFar'
    <3>1. w.rank = w.found + 1 /\ Headed(mem, w.kind, Countable, w.found) /\ w.found < w.n
      BY <1>2, <2>8 DEF PlainSoFar
    <3>2. f = w.found + 1 /\ f < w.n /\ w.rank <= Len(r)
      BY <1>1, <1>4, <1>7, <2>8, <3>1 DEF f, c
    <3>3. id \in Countable
      BY <2>8 DEF c, History!Counts, Countable
    <3>4. \A k \in 1 .. f : k \in 1 .. w.found \/ k = w.rank
      BY <1>4, <3>1, <3>2
    <3>5. Headed(mem, w.kind, Countable, f)
      BY <3>1, <3>3, <3>4 DEF Headed
    <3>6. /\ Headed(mem', w'.kind, Countable', w'.found)
          /\ w'.rank = w'.found + 1 /\ w'.found < w'.n
      <4>1. mem' = mem /\ Countable' = Countable
        BY <1>3 DEF Countable
      <4> QED BY <1>4, <2>5, <3>1, <3>2, <3>5, <4>1
    <3> QED BY <3>6 DEF PlainSoFar
  <2> QED
    BY <1>2, <1>3, <2>4, <2>5, <2>6, <2>7, <2>8
    DEF p, LookupInv, PlainLookupConsistent, History!PlainLookupConsistent
<1> QED BY <1>5, <1>6, <1>7

\* A step of the application keeps what a lookup knows if it leaves what was
\* counted in front.
LEMMA LookupKept ==
  ASSUME LookupInv, worker' \in Lookups,
         UNCHANGED <<worker.pc, worker.kind, worker.n, worker.rank, worker.found,
                     worker.result, worker.since>>,
         worker'.plain => worker.plain,
         \/ applied' = applied /\ library' = library
         \/ applied' = applied + 1,
         applied' = applied /\ worker.pc = "walk" /\ worker'.plain
            /\ Headed(mem, worker.kind, Countable, worker.found)
          => Headed(mem', worker.kind, Countable', worker.found),
         History!Observe
  PROVE  LookupInv'
<1>1. /\ applied \in Nat /\ worker \in Lookups /\ worker.since \in Nat
      /\ worker.since <= applied /\ applied' \in Nat
      /\ worker'.since = worker.since /\ worker'.pc = worker.pc
  BY DEF LookupInv, Lookups
<1>2. worker'.since <= applied' /\ (worker'.since = applied' => applied' = applied /\ worker.since = applied)
  BY <1>1
<1>3. CASE worker.pc = "idle"
  BY <1>1, <1>2, <1>3 DEF LookupInv, PlainLookupConsistent, History!PlainLookupConsistent
<1>4. CASE worker.pc = "done"
  <2>1. answers' = answers
    BY <1>1, <1>4 DEF History!Observe
  <2> QED
    BY <1>1, <1>2, <1>4, <2>1 DEF LookupInv, PlainLookupConsistent, History!PlainLookupConsistent
<1>5. CASE worker.pc = "walk"
  <2>1. History!Answer(mem', library', worker'.kind, worker'.n) \in answers'
    BY <1>1, <1>5 DEF History!Observe
  <2>2. worker'.result = 0
    BY <1>5 DEF LookupInv
  <2>3. ASSUME worker'.since = applied', worker'.plain PROVE PlainSoFar'
    <3>1. /\ worker.rank = worker.found + 1 /\ worker.found < worker.n
          /\ Headed(mem, worker.kind, Countable, worker.found)
      BY <1>2, <1>5, <2>3 DEF LookupInv, PlainSoFar
    <3>2. Headed(mem', worker'.kind, Countable', worker'.found)
      BY <1>2, <1>5, <2>3, <3>1
    <3>3. worker'.rank = worker'.found + 1 /\ worker'.found < worker'.n
      BY <3>1
    <3> QED BY <3>2, <3>3 DEF PlainSoFar
  <2>4. worker'.pc # "done"
    BY <1>1, <1>5
  <2> QED
    BY <1>1, <1>2, <2>1, <2>2, <2>3, <2>4
    DEF LookupInv, PlainLookupConsistent, History!PlainLookupConsistent
<1> QED BY <1>1, <1>3, <1>4, <1>5 DEF Lookups

\* The handlers keep it.
LEMMA LookupStep ==
  HistoryInv /\ LookupInv /\ [History!Next]_(History!vars) => LookupInv'
<1> SUFFICES ASSUME HistoryInv, LookupInv, [History!Next]_(History!vars) PROVE LookupInv'
  OBVIOUS
<1>1. CASE UNCHANGED History!vars
  BY <1>1
  DEF History!vars, LookupInv, PlainSoFar, Countable, PlainLookupConsistent,
      History!PlainLookupConsistent
<1> SUFFICES ASSUME History!Next, History!Observe PROVE LookupInv'
  BY <1>1 DEF History!Next
<1>2. Proper(mem) /\ applied \in Nat /\ worker \in Lookups
  BY DEF HistoryInv, LookupInv
<1>3. worker.found \in Nat /\ worker.kind \in {"recent", "frequent"}
  BY <1>2 DEF Lookups, History!Kinds
<1>4. ASSUME worker' = worker, applied' = applied, library' = library,
             Headed(mem, worker.kind, Countable, worker.found)
               => Headed(mem', worker.kind, Countable, worker.found)
      PROVE  LookupInv'
  <2>1. Countable' = Countable
    BY <1>4 DEF Countable
  <2> QED BY <1>2, <1>4, <2>1, LookupKept
<1>5. ASSUME UNCHANGED <<worker, applied, library, mem>> PROVE LookupInv'
  <2>1. Headed(mem, worker.kind, Countable, worker.found)
          => Headed(mem', worker.kind, Countable, worker.found)
    BY <1>5
  <2> QED BY <1>4, <1>5, <2>1
<1>6. ASSUME worker' = History!Idle, applied' = applied PROVE LookupInv'
  <2>1. worker'.pc = "idle" /\ worker' \in Lookups /\ worker'.since = 0
    BY <1>6, IdleLookup DEF History!Idle
  <2> QED
    BY <1>2, <1>6, <2>1 DEF LookupInv, PlainLookupConsistent, History!PlainLookupConsistent
<1>7. ASSUME History!Start \/ History!Crash \/ History!CopyResult PROVE LookupInv'
  BY <1>6, <1>7 DEF History!Start, History!Crash, History!CopyResult
<1>8. ASSUME History!FinishSave PROVE LookupInv'
  <2>1. UNCHANGED <<library, applied, mem>> /\ worker' \in {worker, History!Idle}
    BY <1>8 DEF History!FinishSave
  <2> QED BY <1>5, <1>6, <2>1
<1>9. ASSUME History!Exit \/ History!EditConfig PROVE LookupInv'
  BY <1>5, <1>9 DEF History!Exit, History!EditConfig
<1>10. ASSUME NEW a \in Actions, History!Launch(a) PROVE LookupInv'
  <2> DEFINE p == worker.plain /\ (History!Watching => ~History!Drops(a))
  <2>1. /\ a \in Countable /\ UNCHANGED <<library, applied>>
        /\ mem' = History!Recorded(mem, a)
        /\ worker' = [worker EXCEPT !.plain = p]
    BY <1>10 DEF History!Launch, Countable
  <2>2. p \in BOOLEAN
    OBVIOUS
  <2>3. /\ p => worker.plain
        /\ p /\ worker.pc = "walk" /\ worker.kind = "frequent" => ~History!Drops(a)
    BY DEF History!Watching
  <2> HIDE DEF p
  <2>4. worker' \in Lookups
    BY <1>2, <2>1, <2>2 DEF Lookups
  <2>5. UNCHANGED <<worker.pc, worker.kind, worker.n, worker.rank, worker.found,
                    worker.result, worker.since>>
    BY <1>2, <2>1 DEF Lookups
  <2>6. worker'.plain = p
    BY <1>2, <2>1 DEF Lookups
  <2>7. Countable' = Countable
    BY <2>1 DEF Countable
  <2>8. ASSUME worker.pc = "walk", p, Headed(mem, worker.kind, Countable, worker.found)
        PROVE  Headed(mem', worker.kind, Countable, worker.found)
    <3>1. CASE worker.kind = "recent"
      BY <1>2, <1>3, <2>1, <2>8, <3>1, LaunchHeadsRecent
    <3>2. CASE worker.kind = "frequent"
      <4>1. ~History!Drops(a)
        BY <2>3, <2>8, <3>2
      <4>2. ~(History!Rank(mem, a) > Len(mem.recent) /\ Len(mem.recent) = MaxRecent)
        <5> SUFFICES ASSUME History!Rank(mem, a) > Len(mem.recent), Len(mem.recent) = MaxRecent
                     PROVE  FALSE
          OBVIOUS
        <5>1. \A i \in 1 .. Len(mem.recent) : mem.recent[i] # a
          BY <1>2, Ranks
        <5>2. DOMAIN mem.recent = 1 .. Len(mem.recent)
          BY <1>2 DEF Proper, Memory
        <5> QED BY <4>1, <5>1, <5>2 DEF History!Drops, History!Range
      <4> QED BY <1>2, <1>3, <2>1, <2>8, <3>2, <4>2, LaunchHeadsFrequent
    <3> QED BY <1>3, <3>1, <3>2
  <2> QED BY <2>1, <2>3, <2>4, <2>5, <2>6, <2>7, <2>8, LookupKept
<1>11. ASSUME History!ResetActionFrequencies PROVE LookupInv'
  <2>1. /\ UNCHANGED <<library, applied, worker>>
        /\ mem' = [mem EXCEPT !.counts = [a \in Actions |-> 0]]
    BY <1>11 DEF History!ResetActionFrequencies, History!Empty
  <2>2. mem'.recent = mem.recent /\ mem'.counts = [a \in Actions |-> 0] /\ Proper(mem')
    BY <1>2, <2>1 DEF Proper, Memory
  <2>3. ASSUME Headed(mem, worker.kind, Countable, worker.found)
        PROVE  Headed(mem', worker.kind, Countable, worker.found)
    <3>1. CASE worker.kind = "recent"
      BY <2>2, <2>3, <3>1 DEF Headed, History!Ranking
    <3>2. CASE worker.kind = "frequent"
      <4>1. History!Used(mem') = {}
        BY <2>2 DEF History!Used
      <4>2. \A x \in History!Used(mem') \ Countable : Place(mem', x) >= worker.found
        BY <4>1
      <4> QED BY <1>3, <2>2, <3>2, <4>2, HeadedByPlace
    <3> QED BY <1>3, <3>1, <3>2
  <2> QED BY <1>4, <2>1, <2>3
<1>12. ASSUME NEW lib \in Libraries, History!ApplyConfig(lib) PROVE LookupInv'
  <2>1. applied' = applied + 1 /\ worker' = worker /\ mem' = mem
    BY <1>12 DEF History!ApplyConfig
  <2>2. applied' # applied
    BY <1>2, <2>1
  <2> QED BY <1>2, <2>1, <2>2, LookupKept
<1>13. ASSUME History!FinishConfig PROVE LookupInv'
  <2>1. UNCHANGED <<library, applied, worker>> /\ mem' = History!Pruned(mem, library.ids)
    BY <1>13 DEF History!FinishConfig
  <2>2. Countable \subseteq library.ids
    BY DEF Countable
  <2>3. ASSUME Headed(mem, worker.kind, Countable, worker.found)
        PROVE  Headed(mem', worker.kind, Countable, worker.found)
    <3>1. CASE worker.kind = "recent"
      BY <1>2, <1>3, <2>1, <2>2, <2>3, <3>1, PruneHeadsRecent
    <3>2. CASE worker.kind = "frequent"
      BY <1>2, <1>3, <2>1, <2>2, <2>3, <3>2, PruneHeadsFrequent
    <3> QED BY <1>3, <3>1, <3>2
  <2> QED BY <1>4, <2>1, <2>3
<1>14. ASSUME NEW kind \in History!Kinds, NEW n \in 1 .. MaxRank, History!BeginLookup(kind, n)
       PROVE  LookupInv'
  <2>1. /\ worker' = [History!Idle EXCEPT !.pc = "walk", !.kind = kind, !.n = n, !.since = applied]
        /\ UNCHANGED <<library, applied, mem>>
    BY <1>14 DEF History!BeginLookup
  <2>2. n \in Nat /\ 0 < n
    BY FilesAssumption
  <2>3. /\ worker'.pc = "walk" /\ worker'.kind = kind /\ worker'.n = n /\ worker'.since = applied
        /\ worker'.rank = 1 /\ worker'.found = 0 /\ worker'.result = 0
    BY <2>1 DEF History!Idle, History!None
  <2>4. worker' \in Lookups
    BY <1>2, <2>1, <2>2, IdleLookup DEF Lookups, History!Idle, History!None
  <2>5. History!Answer(mem', library', worker'.kind, worker'.n) \in answers'
    BY <2>3 DEF History!Observe
  <2>6. PlainSoFar'
    BY <2>2, <2>3 DEF PlainSoFar, Headed
  <2> QED
    BY <1>2, <2>1, <2>3, <2>4, <2>5, <2>6
    DEF LookupInv, PlainLookupConsistent, History!PlainLookupConsistent
<1>15. ASSUME History!LookRank PROVE LookupInv'
  BY <1>15, LookRankStep
<1> QED
  BY <1>7, <1>8, <1>9, <1>10, <1>11, <1>12, <1>13, <1>14, <1>15 DEF History!Next

\* Whatever is launched, configured and pruned meanwhile: a lookup that met
\* only actions that count gives an answer that was right at some moment of
\* the lookup, for the frequent ones while no launch drops an action from the
\* recent ones.  (nthRecentId, nthFrequentId, nthRecentAction,
\* nthFrequentAction)
THEOREM PlainLookupIsRight == History!Spec => []PlainLookupConsistent
<1>1. HistoryInv /\ LookupInv => PlainLookupConsistent
  BY DEF LookupInv
<1> QED
  BY HistoryInitial, HistoryStep, LookupInitial, LookupStep, <1>1, PTL DEF History!Spec
=============================================================================
