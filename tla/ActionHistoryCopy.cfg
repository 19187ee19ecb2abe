SPECIFICATION Spec
CONSTANTS
  Actions = {1, 2, 3, 4}
  Libraries <- Configured
  Fallback <- Missing
  MaxRecent = 2
  MaxUses = 3
  MaxRank = 2
  MaxApplied = 1
  CanCrash = FALSE
  CanEdit = FALSE
INVARIANTS CopiesFromCurrentLibrary
