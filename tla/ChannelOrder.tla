--------------------------- MODULE ChannelOrder ---------------------------
(***************************************************************************)
(* What a channel promises to the actions admitted to it, and nothing of   *)
(* how: they queue up in the order of their admission, only the first may  *)
(* execute items, and nobody leaves in the middle of an item.  Cancelled   *)
(* actions leave from anywhere in the queue, several at once.              *)
(***************************************************************************)
EXTENDS Filter

CONSTANTS
  Members,     \* the actions on a channel
  Channels,
  HomeOf       \* the channel of each member

VARIABLES
  queue,       \* the members of each channel, first admitted first
  inItem,      \* members executing an item
  entered      \* members that have been admitted

vars == <<queue, inItem, entered>>

Init ==
  /\ queue = [c \in Channels |-> <<>>]
  /\ inItem = {} /\ entered = {}

Enter(m) ==
  /\ m \notin entered
  /\ entered' = entered \cup {m}
  /\ queue' = [queue EXCEPT ![HomeOf[m]] = Append(@, m)]
  /\ UNCHANGED inItem

BeginItem(m) ==
  /\ queue[HomeOf[m]] # <<>> /\ m = Head(queue[HomeOf[m]])
  /\ inItem' = inItem \cup {m}
  /\ UNCHANGED <<queue, entered>>

EndItem(m) ==
  /\ inItem' = inItem \ {m}
  /\ UNCHANGED <<queue, entered>>

Leave(S) ==
  /\ S \cap inItem = {}
  /\ queue' = [c \in Channels |-> Only(queue[c], Members \ S)]
  /\ UNCHANGED <<inItem, entered>>

Next ==
  \/ \E m \in Members : Enter(m) \/ BeginItem(m) \/ EndItem(m)
  \/ \E S \in SUBSET Members : Leave(S)

Spec == Init /\ [][Next]_vars
=============================================================================
