SPECIFICATION Spec
CONSTANTS
  Null = Null
  Half = 4
  Documents <- ByHand
  Bundled <- Template
  Configurations <- Deleting
  MaxSubmits = 0
  CrashInSave = FALSE
INVARIANTS ReloadsWhatWasSaved
