SPECIFICATION Spec
CONSTANTS
  States = {"IDLE", "RUNNING"}
  HasPeriodic = TRUE
  QueueSize = 2
  MaxMessages = 3
  MaxStarts = 2
CHECK_DEADLOCK FALSE
INVARIANT
  DestructorCleansUp
