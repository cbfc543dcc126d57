CONSTANTS
  MaxSettings = 2
  Total <- MCTotal
  MaxNoise = 1
  MaxProvisions = 2
  MaxUnbinds = 1
SPECIFICATION FairSpec
INVARIANTS TypeOK
PROPERTIES WifiIsWhole MainResumes BindFollows TimeFetched
CHECK_DEADLOCK FALSE
CONSTRAINT OneTrouble
