SPECIFICATION InputSpec
CONSTANTS
  lwin = lwin
  rwin = rwin
  shift = shift
  r = r
  esc = esc
  NoKey = NoKey
  Keys = {lwin, shift, r, esc}
  Modifiers = {lwin, shift}
  Kind <- KindOf
  Escape = esc
  LowLevel <- WinAndPlain
  left = left
  Buttons = {left}
  Native = 5
  Logical = 2
  Left = 1
  Right = 2
  Centre = 5
  Steps <- OneAndTwo
  MaxMoves = 3
  MaxWarps = 2
INVARIANTS HookWhileNeeded OncePerPress NoStartAfterChord ModifiersNotStuck ReleaseWatchTruthful PointerTracksDevice
