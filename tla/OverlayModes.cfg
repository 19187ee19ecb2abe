SPECIFICATION Spec
CONSTANTS
  m1 = m1
  m2 = m2
  open = open
  close = close
  find = find
  Menus = {m1, m2}
  NoMenu = NoMenu
  Chorded = {m1, m2}
  Deferring = {m2}
  Exiting = {m1}
  OnRelease = {m1}
  Actions = {open, close, find}
  Effect <- Effects
  CaptureModes = {"off", "steal"}
  MaxPicks = 2
  MaxPosted = 2
INVARIANTS WatchesFollowWheel StyleFollowsMode EditorIsolated MenusAreLoaded PicksSubmittedOnce
PROPERTIES ModesAreLeftClean
