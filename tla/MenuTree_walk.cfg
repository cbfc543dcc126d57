\* Two fetches of any of five answers, and an unbinding at any step.
CONSTANTS
  r1 = r1
  r2 = r2
  r3 = r3
  r4 = r4
  r5 = r5
  data = data
  info = info
  A = A
  B = B
  C = C
  D = D
  E = E
  F = F
  x = x
  y = y
  z = z
  u = u
  v = v
  w = w
  menus1 = menus1
  menus2 = menus2
  menus3 = menus3
  menus4 = menus4
  dishesA = dishesA
  dishesB = dishesB
  dishesC = dishesC
  dishesD = dishesD
  dishesE = dishesE
  tags = tags
  mixed = mixed
  Scalar = Scalar
  NoDish = NoDish
  NoLink = NoLink
  NoAnswer = NoAnswer
  Objects = {r1, r2, r3, r4, r5, data, info, A, B, C, D, E, F, x, y, z, u, v, w}
  Arrays = {menus1, menus2, menus3, menus4, dishesA, dishesB, dishesC, dishesD, dishesE, tags, mixed}
  Answers = {r1, r2, r3, r4, r5}
  DishArrays = {dishesA, dishesB, dishesC, dishesD, dishesE}
  Members <- TreeMembers
  Items <- TreeItems
  Dish <- TreeDish
  Name <- TreeName
  IdModulus = 2
  MaxFetches = 2
  MaxUnbinds = 1
SPECIFICATION FairSpec
INVARIANTS TypeOK CutExists BackIsWhereFrom LinkedTablesExist DishesReached LevelIsDepth ProgressBounded IdsTellRows PlatesTellDishes
PROPERTIES WalkEnds
CHECK_DEADLOCK FALSE
