CONSTANTS
  MaxJobs = 2
  BadJobs = {}
  DbFaults = FALSE
  LoadFaults = FALSE
  MaxMsgs = 3
  MaxLosses = 0
  MaxRestarts = 1
SPECIFICATION Spec
INVARIANT OnlyInstalledSucceeds
CHECK_DEADLOCK FALSE
