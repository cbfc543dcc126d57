----------------------------- MODULE MCMenuTree -----------------------------
(* An instance of MenuTree for TLC: five answers over one set of nodes.    *)
EXTENDS MenuTree, TLC

CONSTANTS
  r1, r2, r3, r4, r5,                 \* the answers
  data, info, A, B, C, D, E, F,       \* inner objects, and categories
  x, y, z, u, v, w,                   \* dishes
  menus1, menus2, menus3, menus4,     \* arrays of categories
  dishesA, dishesB, dishesC, dishesD, dishesE, tags, mixed

(* r1 is two levels deep behind an inner object, r2 is uneven and has an   *)
(* id in an object that is no item, r3 has a name with a quote and three   *)
(* levels, r4 has two arrays in one object, an array in an array and a     *)
(* dish beside a category, r5 has no menus at all.                         *)
TreeMembers ==
  [o \in Objects |->
     CASE o = r1 -> {data}           [] o = data -> {menus1}
       [] o = r2 -> {menus2}         [] o = r3 -> {menus3}
       [] o = r4 -> {mixed, tags}    [] o = r5 -> {menus4}
       [] o = A -> {dishesA}         [] o = B -> {dishesB}
       [] o = C -> {dishesC}         [] o = D -> {dishesD}
       [] o = E -> {dishesE}         [] o = F -> {info}
       [] OTHER -> {}]

TreeItems ==
  [a \in Arrays |->
     CASE a = menus1 -> <<A, B>>     [] a = dishesA -> <<x, y, z>>
       [] a = dishesB -> <<Scalar, w>>
       [] a = menus2 -> <<C, B>>     [] a = dishesC -> <<A, F>>
       [] a = menus3 -> <<D>>        [] a = dishesD -> <<E, B>>
       [] a = dishesE -> <<u, v>>    [] a = mixed -> <<v, B>>
       [] a = tags -> <<dishesA>>    [] OTHER -> <<>>]

TreeDish ==
  [o \in Objects |->
     CASE o = x -> 1027 [] o = y -> 2 [] o = z -> 1025 [] o = w -> 65536
       [] o = u -> 4 [] o = v -> 65535 [] o = info -> 7
       [] OTHER -> NoDish]

TreeName ==
  [o \in Objects |-> IF o \in {E, y} THEN "quoted"
                     ELSE IF o \in {data, v} THEN "none" ELSE "plain"]
=============================================================================
