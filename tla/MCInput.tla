------------------------------ MODULE MCInput ------------------------------
(***************************************************************************)
(* The two halves of the input receiver, the keyboard hook and the mouse   *)
(* session, for TLC.  They share no state (InputReceiver::Impl keeps them  *)
(* apart), so a behaviour is about one of them, and the other stays as it  *)
(* is at the start.                                                        *)
(***************************************************************************)
EXTENDS MCHotkeyHook, Integers

CONSTANTS left, Buttons, Native, Logical, Left, Right, Centre, Steps, MaxMoves, MaxWarps

ASSUME MouseAssumption ==
  /\ Native \in Nat \ {0} /\ Logical \in Nat \ {0}
  /\ Left \in Int /\ Right \in Int /\ Centre \in Int /\ Steps \subseteq Int

\* The device goes one way by one pixel, and the other by two.
OneAndTwo == {1, -2}

VARIABLES focus, cursor, queue, session, pointer, moved, track, warped, held, game

mouseVars == <<cursor, queue, session, pointer, moved, track, warped, held, game>>

Mouse == INSTANCE MouseSession

InputInit == focus \in {"keyboard", "mouse"} /\ Init /\ Mouse!Init

InputNext ==
  /\ \/ focus = "keyboard" /\ Next /\ UNCHANGED mouseVars
     \/ focus = "mouse" /\ Mouse!Next /\ UNCHANGED vars
  /\ UNCHANGED focus

InputSpec == InputInit /\ [][InputNext]_<<focus, vars, mouseVars>>

\* Every step of the device is polled once or still to come, wherever the game
\* puts the system's cursor, and the virtual cursor is where what was polled
\* leads, but for half a pixel for each tick that moved it, and up to the edge.
\* (handleLowLevelMouse, processNativeMessage, onGameMouseCaptureTick)
PointerTracksDevice == Mouse!PointerTracksDevice
=============================================================================
