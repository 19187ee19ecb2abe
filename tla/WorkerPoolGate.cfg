SPECIFICATION FairSpec
CONSTANTS
  Workers = {w1, w2}
  Jobs = {j1}
  UrgentJobs = {u1}
  Items = 2
  MaxPauses = 2
INVARIANTS NoLostResume UrgentNotStranded ExitLeavesNoUrgent
PROPERTIES UrgentServed ResumeServesInbound StopJoinsUnlessPaused
CHECK_DEADLOCK FALSE
