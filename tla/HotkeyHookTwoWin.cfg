SPECIFICATION Spec
CONSTANTS
  lwin = lwin
  rwin = rwin
  shift = shift
  r = r
  esc = esc
  NoKey = NoKey
  Keys = {lwin, rwin, r}
  Modifiers = {lwin, rwin}
  Kind <- KindOf
  Escape = esc
  LowLevel <- WinOnly
INVARIANTS ModifiersNotStuck
