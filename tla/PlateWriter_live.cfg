\* Three reads, a fair writing thread, a database that may fail.
CONSTANTS
  p1 = p1
  p2 = p2
  d1 = d1
  d2 = d2
  Plates = {p1, p2}
  Dishes = {d1}
  NoPlate = NoPlate
  NoDish = NoDish
  Foreign = Foreign
  MaxWritePlate = 1
  FilterNum = 3
  RadioFaults = FALSE
  DbFaults = TRUE
  SlotHeads = {"STAS", "REMOVE", "unreadable"}
  MaxRestarts = 0
SPECIFICATION FairSpec
INVARIANTS WrittenOnce
PROPERTIES ScreenClears PlateAnswered SeveralTold
CHECK_DEADLOCK FALSE
