\* Two plates and two dishes; missed tags, lost answers, a failing database
\* and a restart.
CONSTANTS
  p1 = p1
  p2 = p2
  d1 = d1
  d2 = d2
  Plates = {p1, p2}
  Dishes = {d1, d2}
  NoPlate = NoPlate
  NoDish = NoDish
  Foreign = Foreign
  MaxWritePlate = 1
  FilterNum = 3
  RadioFaults = TRUE
  DbFaults = TRUE
  SlotHeads = {"STAS", "REMOVE", "unreadable"}
  MaxRestarts = 1
SPECIFICATION Spec
SYMMETRY Symmetry
INVARIANTS TypeOK StopOverrun StaleOnce
PROPERTIES ForeignUntouched SelectionFirst KeepsPromise
CHECK_DEADLOCK FALSE
