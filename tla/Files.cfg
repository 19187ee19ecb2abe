SPECIFICATION FilesSpec
CONSTANTS
  Null = Null
  Half = 4
  Documents <- ByHand
  Bundled <- Template
  Configurations <- Usual
  MaxSubmits = 4
  CrashInSave = FALSE
  Actions = {1, 2, 3, 4}
  Libraries <- Configured
  Fallback <- Missing
  MaxRecent = 2
  MaxUses = 3
  MaxRank = 2
  MaxApplied = 1
  CanCrash = TRUE
  CanEdit = TRUE
INVARIANTS ReloadsWhatWasSaved LegacyActionsKept PrivateKeysApart RestartKeepsHistory PlainLookupConsistent
