\* One plate, no fault at all: only the heads of the messages are left open.
CONSTANTS
  p1 = p1
  p2 = p2
  d1 = d1
  d2 = d2
  Plates = {p1}
  Dishes = {d1}
  NoPlate = NoPlate
  NoDish = NoDish
  Foreign = Foreign
  MaxWritePlate = 1
  FilterNum = 3
  RadioFaults = FALSE
  DbFaults = FALSE
  SlotHeads = {"STAS", "REMOVE", "unreadable"}
  MaxRestarts = 0
SPECIFICATION Spec
INVARIANTS ResultShown
CHECK_DEADLOCK FALSE
