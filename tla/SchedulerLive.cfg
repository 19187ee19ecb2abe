SPECIFICATION FairSpec
CONSTANTS
  k1 = k1
  k2 = k2
  k3 = k3
  c1 = c1
  Private = Private
  Actions = {k1, k2}
  Channels = {c1}
  ChannelOf <- HoldChannel
  Program <- HoldProgram
  Cancelable = {k1, k2}
  NumWorkers = 2
  MaxPauses = 1
  MaxCancels = 1
PROPERTIES FlushesAreExecuted ActionsEnd KeysAreReleased
CHECK_DEADLOCK FALSE
