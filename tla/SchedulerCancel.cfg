SPECIFICATION Spec
CONSTANTS
  k1 = k1
  k2 = k2
  k3 = k3
  c1 = c1
  Private = Private
  Actions = {k1, k2, k3}
  Channels = {c1}
  ChannelOf <- CancelChannelOf
  Program <- CancelProgram
  Cancelable = {k1, k2, k3}
  NumWorkers = 2
  MaxPauses = 0
  MaxCancels = 0
INVARIANTS PressedKeysGetReleased
PROPERTIES CancelledRunNoMoreItems
CHECK_DEADLOCK FALSE
