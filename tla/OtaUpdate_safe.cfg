CONSTANTS
  MaxJobs = 2
  BadJobs = {2}
  DbFaults = TRUE
  LoadFaults = TRUE
  MaxMsgs = 3
  MaxLosses = 1
  MaxRestarts = 1
SPECIFICATION FairSpec
CONSTRAINT OneTrouble
INVARIANTS TypeOK SuccessIsInstalled
PROPERTIES FailureIsTrue NoReinstall JobsEnd ReportEnds VersionTold
CHECK_DEADLOCK FALSE
