SPECIFICATION Spec
CONSTANTS
  k1 = k1
  k2 = k2
  k3 = k3
  c1 = c1
  Private = Private
  Actions = {k1, k2, k3}
  Channels = {c1}
  ChannelOf <- OneChannel
  Program <- Competing
  Cancelable = {k1, k2}
  NumWorkers = 2
  MaxPauses = 1
  MaxCancels = 1
INVARIANTS OneHolderPerKey WaitersHaveHolder PressedKeysGetReleased
PROPERTIES PausedDispatchesNothing ChannelsKeepOrder UncancelableRunsToEnd
CHECK_DEADLOCK FALSE
