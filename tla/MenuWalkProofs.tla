--------------------------- MODULE MenuWalkProofs ---------------------------
(* The nodes of an answer, their levels and the parts of it that a walk    *)
(* may have seen, for any JSON texts; how MenuTree's walk covers them:     *)
(* ProgressBounded and LevelIsDepth.                                       *)
EXTENDS MenuTreeProofs, WellFoundedInduction

-----------------------------------------------------------------------------
(* Naturals                                                                *)

\* A set of naturals that is not empty has a least element.
LEMMA LeastOf ==
  ASSUME NEW S \in SUBSET Nat, S # {}
  PROVE  \E x \in S : \A y \in S : x <= y
<1> DEFINE R == OpToRel(<, Nat)
<1>1. IsWellFoundedOn(R, Nat)
  BY NatLessThanWellFounded, Zenon
<1>2. \A a, b : <<a, b>> \in R <=> a \in Nat /\ b \in Nat /\ a < b
  BY Zenon DEF OpToRel
<1> HIDE DEF R
<1>3. PICK x \in S : \A y \in S : ~(<<y, x>> \in R)
  BY <1>1, WFMin
<1>4. \A y \in S : ~(y < x)
  BY <1>2, <1>3, Zenon
<1>5. \A y \in S : x <= y
  BY <1>4, SMT
<1> QED BY <1>5

\* Induction up to c, for a set of naturals in the place of a predicate.
LEMMA UpTo ==
  ASSUME NEW c \in Nat, NEW S, 0 \in S,
         \A k \in 0..c : k # c /\ k \in S => k + 1 \in S
  PROVE  \A k \in 0..c : k \in S
<1> DEFINE Out == {k \in 0..c : k \notin S}
<1> SUFFICES ASSUME Out # {} PROVE FALSE
  OBVIOUS
<1>1. Out \in SUBSET Nat
  OBVIOUS
<1> HIDE DEF Out
<1>2. PICK x \in Out : \A y \in Out : x <= y
  BY <1>1, LeastOf
<1>3. x \in 0..c /\ x \notin S /\ x # 0
  BY <1>2 DEF Out
<1>4. x - 1 \in 0..c /\ x - 1 # c /\ x - 1 + 1 = x /\ ~(x <= x - 1)
  BY <1>3
<1>5. x - 1 \notin S
  BY <1>3, <1>4
<1>6. x - 1 \in Out
  BY <1>4, <1>5 DEF Out
<1> QED BY <1>2, <1>4, <1>6

-----------------------------------------------------------------------------
(* The recursive function in Content                                       *)

Grown(X, all) == UNION {{p} \cup Below(p, all) : p \in X}

Layers(f, r, all, c) ==
  f = [k \in 0..c |-> IF k = 0 THEN {<<r, 0>>} ELSE Grown(f[k - 1], all)]

LEMMA LayerIs ==
  ASSUME NEW f, NEW r, NEW all, NEW c, Layers(f, r, all, c), NEW k \in 0..c
  PROVE  /\ k = 0 => f[k] = {<<r, 0>>}
         /\ k # 0 => f[k] = Grown(f[k - 1], all)
BY DEF Layers

LEMMA LayersAre ==
  ASSUME NEW f, NEW r, NEW all, NEW c \in Nat, Layers(f, r, all, c)
  PROVE  /\ f[0] = {<<r, 0>>}
         /\ \A k \in 0..c : k # c => f[k + 1] = Grown(f[k], all)
<1>1. f[0] = {<<r, 0>>}
  BY LayerIs, 0 \in 0..c
<1>2. ASSUME NEW k \in 0..c, k # c
      PROVE  f[k + 1] = Grown(f[k], all)
  <2> DEFINE n == k + 1
  <2>1. n \in 0..c /\ n # 0 /\ n - 1 = k
    BY <1>2
  <2> HIDE DEF n
  <2>2. f[n] = Grown(f[n - 1], all)
    BY <2>1, LayerIs
  <2> QED BY <2>1, <2>2 DEF n
<1> QED BY <1>1, <1>2

\* It exists: a layer more is a function more.
LEMMA LayersExist ==
  ASSUME NEW r, NEW all, NEW c \in Nat
  PROVE  \E f : Layers(f, r, all, c)
<1> DEFINE S == {k \in Nat : \E f : Layers(f, r, all, k)}
<1>1. 0 \in S
  <2> DEFINE f == [k \in 0..0 |-> {<<r, 0>>}]
  <2>1. Layers(f, r, all, 0)
    BY DEF Layers
  <2> QED BY <2>1
<1>2. \A k \in 0..c : k # c /\ k \in S => k + 1 \in S
  <2> SUFFICES ASSUME NEW k \in 0..c, k \in S PROVE k + 1 \in S
    OBVIOUS
  <2>1. PICK f : Layers(f, r, all, k)
    OBVIOUS
  <2> DEFINE g == [j \in 0..(k + 1) |->
                     IF j = k + 1 THEN Grown(f[k], all) ELSE f[j]]
  <2>2. \A j \in 0..(k + 1) :
          g[j] = IF j = 0 THEN {<<r, 0>>} ELSE Grown(g[j - 1], all)
    <3> SUFFICES ASSUME NEW j \in 0..(k + 1)
                 PROVE  g[j] = IF j = 0 THEN {<<r, 0>>} ELSE Grown(g[j - 1], all)
      OBVIOUS
    <3>1. CASE j = k + 1
      <4>1. j # 0 /\ j - 1 = k /\ k \in 0..(k + 1) /\ k # k + 1
        BY <3>1
      <4>2. g[j] = Grown(f[k], all) /\ g[j - 1] = f[k]
        BY <3>1, <4>1
      <4> QED BY <4>1, <4>2
    <3>2. CASE j # k + 1
      <4>1. j \in 0..k /\ g[j] = f[j]
        BY <3>2
      <4>2. f[j] = IF j = 0 THEN {<<r, 0>>} ELSE Grown(f[j - 1], all)
        BY <2>1, <4>1 DEF Layers
      <4>3. j # 0 => j - 1 \in 0..(k + 1) /\ j - 1 # k + 1
        BY <4>1
      <4>4. j # 0 => g[j - 1] = f[j - 1]
        BY <4>3
      <4> HIDE DEF g
      <4> QED BY <4>1, <4>2, <4>4
    <3> QED BY <3>1, <3>2
  <2>3. Layers(g, r, all, k + 1)
    <3>1. g = [j \in 0..(k + 1) |-> g[j]]
      OBVIOUS
    <3> HIDE DEF g
    <3> QED BY <2>2, <3>1, Zenon DEF Layers
  <2> HIDE DEF g
  <2> QED BY <2>3
<1> HIDE DEF S
<1>3. c \in S
  BY <1>1, <1>2, UpTo
<1> QED BY <1>3 DEF S

(* What an answer holds, as the last of the layers.                        *)
Reaches(f, r, all) ==
  /\ f[0] = {<<r, 0>>}
  /\ \A k \in 0..Cardinality(Nodes) :
       k # Cardinality(Nodes) => f[k + 1] = Grown(f[k], all)
  /\ Content(r, all) = f[Cardinality(Nodes)]

LEMMA ContentReached ==
  ASSUME NEW r, NEW all
  PROVE  Cardinality(Nodes) \in Nat /\ \E f : Reaches(f, r, all)
<1> DEFINE c == Cardinality(Nodes)
<1>1. c \in Nat
  BY TreeAssumption, FS_CardinalityType
<1> DEFINE g == CHOOSE f : f = [k \in 0..c |->
                  IF k = 0 THEN {<<r, 0>>}
                  ELSE UNION {{p} \cup Below(p, all) : p \in f[k - 1]}]
<1>2. Content(r, all) = g[c]
  BY DEF Content
<1>3. Layers(g, r, all, c)
  <2>1. \E f : Layers(f, r, all, c)
    BY <1>1, LayersExist
  <2> HIDE DEF c
  <2> QED BY <2>1, Zenon DEF Layers, Grown
<1> HIDE DEF g, c
<1>4. g[0] = {<<r, 0>>} /\ \A k \in 0..c : k # c => g[k + 1] = Grown(g[k], all)
  BY <1>1, <1>3, LayersAre
<1>5. Reaches(g, r, all)
  BY <1>2, <1>4 DEF Reaches, c
<1> QED BY <1>1, <1>5 DEF c

-----------------------------------------------------------------------------
(* One layer: what lies right inside a node is its children.               *)

NodesIn(X) == {p[1] : p \in X}

\* The pairs of nodes and levels.
Pairs == Nodes \X Nat

LEMMA PairIs ==
  /\ \A p \in Pairs : p = <<p[1], p[2]>> /\ p[1] \in Nodes /\ p[2] \in Nat
  /\ \A n \in Nodes, l \in Nat : <<n, l>> \in Pairs
  /\ \A n, l : <<n, l>>[1] = n /\ <<n, l>>[2] = l
BY DEF Pairs

\* What lies right inside n, all of it or what gets a row.
Kids(n, all) ==
  IF n \in Objects THEN Members[n]
  ELSE {m \in Nodes \cap Range(Items[n]) :
          all \/ m \in Arrays \/ Name[m] = "plain"}

LEMMA KidsAll == \A n : Kids(n, TRUE) = Children(n) /\ Kids(n, FALSE) \subseteq Children(n)
BY DEF Kids, Children

\* The level of a child m of the node of p.
LevelIn(p, m) == IF p[1] \in Objects /\ m \in Arrays THEN p[2] + 1 ELSE p[2]

LEMMA BelowIs ==
  ASSUME NEW p \in Pairs, NEW all \in BOOLEAN
  PROVE  /\ \A q : q \in Below(p, all) <=>
                \E m \in Kids(p[1], all) : q = <<m, LevelIn(p, m)>>
         /\ Kids(p[1], all) \subseteq Nodes
         /\ \A m : LevelIn(p, m) \in Nat
<1>1. p[1] \in Nodes /\ p[2] \in Nat
  BY PairIs
<1>2. CASE p[1] \in Objects
  <2>1. Members[p[1]] \subseteq Nodes
    BY <1>2, TreeAssumption
  <2>2. \A m : LevelIn(p, m) = IF m \in Arrays THEN p[2] + 1 ELSE p[2]
    BY <1>2 DEF LevelIn
  <2>3. \A q : q \in Below(p, all) <=>
          \E m \in Members[p[1]] :
            q = <<m, IF m \in Arrays THEN p[2] + 1 ELSE p[2]>>
    BY <1>2, Zenon DEF Below
  <2>4. \A m : <<m, IF m \in Arrays THEN p[2] + 1 ELSE p[2]>> = <<m, LevelIn(p, m)>>
    BY <2>2
  <2>5. Kids(p[1], all) = Members[p[1]]
    BY <1>2 DEF Kids
  <2>6. \A m : LevelIn(p, m) \in Nat
    BY <1>1, <2>2
  <2>7. \A q : q \in Below(p, all) <=>
          \E m \in Kids(p[1], all) : q = <<m, LevelIn(p, m)>>
    BY <2>3, <2>4, <2>5, Zenon
  <2> QED BY <2>1, <2>5, <2>6, <2>7, Zenon
<1>3. CASE p[1] \notin Objects
  <2>1. \A m : LevelIn(p, m) = p[2]
    BY <1>3 DEF LevelIn
  <2>2. \A q : q \in Below(p, all) <=>
          \E m \in {n \in Nodes \cap Range(Items[p[1]]) :
                      all \/ n \in Arrays \/ Name[n] = "plain"} : q = <<m, p[2]>>
    BY <1>3, Zenon DEF Below
  <2>3. Kids(p[1], all) = {n \in Nodes \cap Range(Items[p[1]]) :
                            all \/ n \in Arrays \/ Name[n] = "plain"}
    BY <1>3 DEF Kids
  <2>4. \A m : <<m, p[2]>> = <<m, LevelIn(p, m)>>
    BY <2>1
  <2>5. \A q : q \in Below(p, all) <=>
          \E m \in Kids(p[1], all) : q = <<m, LevelIn(p, m)>>
    BY <2>2, <2>3, <2>4, Zenon
  <2>6. Kids(p[1], all) \subseteq Nodes /\ \A m : LevelIn(p, m) \in Nat
    BY <1>1, <2>1, <2>3
  <2> QED BY <2>5, <2>6, Zenon
<1> QED BY <1>2, <1>3

LEMMA BelowFacts ==
  ASSUME NEW p \in Pairs, NEW all \in BOOLEAN
  PROVE  /\ Below(p, all) \subseteq Pairs
         /\ NodesIn(Below(p, all)) = Kids(p[1], all)
         /\ \A q, s \in Below(p, all) : q[1] = s[1] => q = s
         /\ \A q \in Below(p, all) : q[1] \in Kids(p[1], all) /\ q[2] = LevelIn(p, q[1])
<1>1. \A q \in Below(p, all) :
        /\ q = <<q[1], LevelIn(p, q[1])>> /\ q[1] \in Kids(p[1], all)
        /\ q[2] = LevelIn(p, q[1])
  <2> TAKE q \in Below(p, all)
  <2>1. PICK m \in Kids(p[1], all) : q = <<m, LevelIn(p, m)>>
    BY BelowIs
  <2>2. q[1] = m /\ q[2] = LevelIn(p, m)
    BY <2>1, PairIs
  <2> QED BY <2>1, <2>2
<1>2. \A q \in Below(p, all) : q[2] = LevelIn(p, q[1])
  BY <1>1, Zenon
<1>3. Below(p, all) \subseteq Pairs
  <2> SUFFICES ASSUME NEW q \in Below(p, all) PROVE q \in Pairs
    OBVIOUS
  <2>1. q[1] \in Nodes /\ LevelIn(p, q[1]) \in Nat
    BY <1>1, BelowIs
  <2>2. <<q[1], LevelIn(p, q[1])>> \in Pairs
    BY <2>1, PairIs
  <2> QED BY <1>1, <2>2
<1>4. \A m \in Kids(p[1], all) : m \in NodesIn(Below(p, all))
  <2> TAKE m \in Kids(p[1], all)
  <2>1. <<m, LevelIn(p, m)>> \in Below(p, all)
    BY BelowIs
  <2>2. <<m, LevelIn(p, m)>>[1] = m
    BY PairIs
  <2> QED BY <2>1, <2>2, Zenon DEF NodesIn
<1>5. \A m \in NodesIn(Below(p, all)) : m \in Kids(p[1], all)
  BY <1>1 DEF NodesIn
<1>6. \A q, s \in Below(p, all) : q[1] = s[1] => q = s
  <2> TAKE q, s \in Below(p, all)
  <2> HAVE q[1] = s[1]
  <2>1. q = <<q[1], LevelIn(p, q[1])>> /\ s = <<s[1], LevelIn(p, s[1])>>
    BY <1>1
  <2> QED BY <2>1, Zenon
<1> QED BY <1>1, <1>2, <1>3, <1>4, <1>5, <1>6

LEMMA BelowAll ==
  ASSUME NEW p \in Pairs
  PROVE  /\ \A q : q \in Below(p, TRUE) <=>
                \E m \in Children(p[1]) : q = <<m, LevelIn(p, m)>>
         /\ \A q, s \in Below(p, TRUE) : q[1] = s[1] => q = s
         /\ \A q \in Below(p, TRUE) :
              q[1] \in Children(p[1]) /\ q[2] = LevelIn(p, q[1])
<1>1. Kids(p[1], TRUE) = Children(p[1]) /\ TRUE \in BOOLEAN
  BY KidsAll
<1>2. \A q : q \in Below(p, TRUE) <=>
            \E m \in Kids(p[1], TRUE) : q = <<m, LevelIn(p, m)>>
  BY <1>1, BelowIs
<1>3. /\ \A q, s \in Below(p, TRUE) : q[1] = s[1] => q = s
      /\ \A q \in Below(p, TRUE) :
           q[1] \in Kids(p[1], TRUE) /\ q[2] = LevelIn(p, q[1])
  BY <1>1, BelowFacts
<1> QED BY <1>1, <1>2, <1>3

LEMMA GrownIs ==
  ASSUME NEW X \in SUBSET Pairs, NEW all \in BOOLEAN
  PROVE  /\ Grown(X, all) \subseteq Pairs /\ X \subseteq Grown(X, all)
         /\ \A q \in Grown(X, all) : q \in X \/ \E p \in X : q \in Below(p, all)
         /\ \A p \in X : Below(p, all) \subseteq Grown(X, all)
         /\ \A n \in NodesIn(X) : Kids(n, all) \subseteq NodesIn(Grown(X, all))
         /\ NodesIn(Grown(X, all))
              = NodesIn(X) \cup UNION {Kids(n, all) : n \in NodesIn(X)}
<1>1. /\ X \subseteq Grown(X, all)
      /\ \A q \in Grown(X, all) : q \in X \/ \E p \in X : q \in Below(p, all)
      /\ \A p \in X : Below(p, all) \subseteq Grown(X, all)
  <2>1. \A q : q \in Grown(X, all) <=> \E p \in X : q \in {p} \cup Below(p, all)
    BY Zenon DEF Grown
  <2> QED BY <2>1
<1>2. Grown(X, all) \subseteq Pairs
  BY <1>1, BelowFacts
<1>3. \A n \in NodesIn(X) : Kids(n, all) \subseteq NodesIn(Grown(X, all))
  <2> SUFFICES ASSUME NEW n \in NodesIn(X), NEW m \in Kids(n, all)
               PROVE  m \in NodesIn(Grown(X, all))
    OBVIOUS
  <2>1. PICK p \in X : p[1] = n
    BY DEF NodesIn
  <2>2. m \in NodesIn(Below(p, all))
    BY <2>1, BelowFacts
  <2> QED BY <1>1, <2>1, <2>2 DEF NodesIn
<1>4. ASSUME NEW m \in NodesIn(Grown(X, all)), m \notin NodesIn(X)
      PROVE  \E n \in NodesIn(X) : m \in Kids(n, all)
  <2>1. PICK q \in Grown(X, all) : q[1] = m
    BY DEF NodesIn
  <2>2. PICK p \in X : q \in Below(p, all)
    BY <1>1, <1>4, <2>1 DEF NodesIn
  <2>3. m \in NodesIn(Below(p, all)) /\ p[1] \in NodesIn(X)
    BY <2>1, <2>2 DEF NodesIn
  <2> QED BY <2>3, BelowFacts
<1>5. NodesIn(X) \subseteq NodesIn(Grown(X, all))
  BY <1>1 DEF NodesIn
<1> QED BY <1>1, <1>2, <1>3, <1>4, <1>5

-----------------------------------------------------------------------------
(* The layers of an answer                                                 *)

C == Cardinality(Nodes)

LEMMA LayerFacts ==
  ASSUME NEW r \in Nodes, NEW all \in BOOLEAN, NEW f, Reaches(f, r, all)
  PROVE  \A k \in 0..C :
           /\ f[k] \in SUBSET Pairs /\ <<r, 0>> \in f[k]
           /\ \A q \in f[k] : q[2] <= k
           /\ \A q \in f[k] : q = <<r, 0>> \/ \E p \in f[k] : q \in Below(p, all)
<1> DEFINE Good(k) ==
      /\ f[k] \in SUBSET Pairs /\ <<r, 0>> \in f[k]
      /\ \A q \in f[k] : q[2] <= k
      /\ \A q \in f[k] : q = <<r, 0>> \/ \E p \in f[k] : q \in Below(p, all)
    S == {k \in 0..C : Good(k)}
<1>1. C \in Nat /\ f[0] = {<<r, 0>>}
      /\ \A k \in 0..C : k # C => f[k + 1] = Grown(f[k], all)
  BY ContentReached DEF C, Reaches
<1>2. 0 \in S
  <2>1. f[0] = {<<r, 0>>} /\ <<r, 0>> \in Pairs /\ <<r, 0>>[2] = 0
    BY <1>1, PairIs
  <2>2. \A q \in f[0] : q = <<r, 0>> /\ q[2] <= 0
    BY <2>1
  <2>3. Good(0)
    BY <2>1, <2>2
  <2>4. 0 \in 0..C
    BY <1>1
  <2> QED BY <2>3, <2>4
<1>3. ASSUME NEW k \in 0..C, k # C, k \in S
      PROVE  k + 1 \in S
  <2>1. Good(k)
    BY <1>3
  <2> DEFINE X == f[k]
             Y == f[k + 1]
  <2>2. Y = Grown(X, all)
    BY <1>1, <1>3
  <2>3. /\ X \in SUBSET Pairs /\ <<r, 0>> \in X
        /\ \A q \in X : q[2] <= k
        /\ \A q \in X : q = <<r, 0>> \/ \E p \in X : q \in Below(p, all)
    BY <2>1
  <2> HIDE DEF X, Y
  <2>4. /\ Y \subseteq Pairs /\ X \subseteq Y
        /\ \A q \in Y : q \in X \/ \E p \in X : q \in Below(p, all)
    BY <2>2, <2>3, GrownIs
  <2>5. \A q \in Y : q[2] <= k + 1
    <3> SUFFICES ASSUME NEW q \in Y PROVE q[2] <= k + 1
      OBVIOUS
    <3>1. CASE q \in X
      <4>1. q[2] \in Nat /\ q[2] <= k
        BY <2>3, <3>1, PairIs
      <4> QED BY <4>1
    <3>2. CASE \E p \in X : q \in Below(p, all)
      <4>1. PICK p \in X : q \in Below(p, all)
        BY <3>2
      <4>2. p \in Pairs /\ p[2] \in Nat /\ p[2] <= k
        BY <2>3, PairIs
      <4>3. q[2] = p[2] \/ q[2] = p[2] + 1
        BY <4>1, <4>2, BelowFacts DEF LevelIn
      <4> QED BY <4>2, <4>3
    <3> QED BY <2>4, <3>1, <3>2
  <2>6. \A q \in Y : q = <<r, 0>> \/ \E p \in Y : q \in Below(p, all)
    BY <2>3, <2>4
  <2>7. <<r, 0>> \in Y /\ k + 1 \in 0..C
    BY <1>1, <1>3, <2>3, <2>4
  <2> QED BY <2>4, <2>5, <2>6, <2>7 DEF Y
<1> HIDE DEF S
<1>4. \A k \in 0..C : k \in S
  BY <1>1, <1>2, <1>3, UpTo
<1> QED BY <1>4 DEF S

\* Layers grow.
LEMMA LayersGrow ==
  ASSUME NEW r \in Nodes, NEW all \in BOOLEAN, NEW f, Reaches(f, r, all), NEW k \in 0..C
  PROVE  f[k] \subseteq f[C] /\ \A j \in 0..C : j <= k => f[j] \subseteq f[k]
<1>1. C \in Nat /\ \A i \in 0..C : i # C => f[i + 1] = Grown(f[i], all)
  BY ContentReached DEF C, Reaches
<1> DEFINE S == {i \in 0..C : \A j \in 0..C : j <= i => f[j] \subseteq f[i]}
<1>2. 0 \in S
  BY <1>1
<1>3. ASSUME NEW i \in 0..C, i # C, i \in S
      PROVE  i + 1 \in S
  <2>1. i + 1 \in 0..C /\ f[i] \subseteq f[i + 1]
    <3> DEFINE j == i + 1
    <3>0. i # C
      BY <1>3
    <3>1. j \in 0..C
      BY <1>1, <3>0
    <3>2. f[i + 1] = Grown(f[i], all)
      BY <1>1, <3>0, Zenon
    <3>3. f[i] \in SUBSET Pairs
      BY LayerFacts
    <3> HIDE DEF j
    <3>4. f[i] \subseteq f[i + 1]
      BY <3>2, <3>3, GrownIs
    <3> QED BY <3>1, <3>4 DEF j
  <2>2. \A j \in 0..C : j <= i + 1 => j <= i \/ j = i + 1
    BY <1>1
  <2> QED BY <1>3, <2>1, <2>2
<1> HIDE DEF S
<1>4. \A i \in 0..C : i \in S
  BY <1>1, <1>2, <1>3, UpTo
<1>5. C \in 0..C /\ k <= C
  BY <1>1
<1> QED BY <1>4, <1>5 DEF S

LEMMA NodesInMono ==
  ASSUME NEW X, NEW Y, X \subseteq Y
  PROVE  NodesIn(X) \subseteq NodesIn(Y)
BY DEF NodesIn

\* The next layer and its nodes.
LEMMA NextLayer ==
  ASSUME NEW r \in Nodes, NEW all \in BOOLEAN, NEW f, Reaches(f, r, all), NEW k \in 0..C, k # C
  PROVE  /\ k + 1 \in 0..C /\ f[k + 1] = Grown(f[k], all)
         /\ NodesIn(f[k + 1])
              = NodesIn(f[k]) \cup UNION {Kids(n, all) : n \in NodesIn(f[k])}
         /\ NodesIn(f[k]) \subseteq NodesIn(f[k + 1])
         /\ NodesIn(f[k + 1]) \subseteq Nodes
<1>1. C \in Nat /\ \A i \in 0..C : i # C => f[i + 1] = Grown(f[i], all)
  BY ContentReached DEF C, Reaches
<1>2. f[k + 1] = Grown(f[k], all)
  BY <1>1, Zenon
<1>3. k + 1 \in 0..C
  BY <1>1
<1>4. f[k] \in SUBSET Pairs
  BY LayerFacts
<1>5. /\ NodesIn(f[k + 1])
           = NodesIn(f[k]) \cup UNION {Kids(n, all) : n \in NodesIn(f[k])}
      /\ Grown(f[k], all) \subseteq Pairs
  BY <1>2, <1>4, GrownIs
<1>6. NodesIn(f[k + 1]) \subseteq Nodes
  BY <1>2, <1>5, PairIs DEF NodesIn
<1> QED BY <1>2, <1>3, <1>5, <1>6

\* There are no more layers with new nodes than there are nodes.
LEMMA Stationary ==
  ASSUME NEW r \in Nodes, NEW all \in BOOLEAN, NEW f, Reaches(f, r, all)
  PROVE  \E k \in 0..C : k # C /\ NodesIn(f[k + 1]) = NodesIn(f[k])
<1> SUFFICES ASSUME \A k \in 0..C : k # C => NodesIn(f[k + 1]) # NodesIn(f[k])
             PROVE  FALSE
  OBVIOUS
<1>1. C \in Nat /\ IsFiniteSet(Nodes) /\ f[0] = {<<r, 0>>}
  BY ContentReached, TreeAssumption DEF C, Reaches
<1> DEFINE S == {k \in 0..C : Cardinality(NodesIn(f[k])) > k}
<1>2. 0 \in S
  <2>1. NodesIn(f[0]) = {r}
    BY <1>1, PairIs DEF NodesIn
  <2>2. Cardinality({r}) = 1
    BY FS_Singleton
  <2> QED BY <1>1, <2>1, <2>2
<1>3. ASSUME NEW k \in 0..C, k # C, k \in S
      PROVE  k + 1 \in S
  <2> DEFINE X == NodesIn(f[k])
             Y == NodesIn(f[k + 1])
  <2>1. k + 1 \in 0..C /\ X \subseteq Y /\ Y \subseteq Nodes /\ X # Y
    BY <1>3, NextLayer
  <2>2. Cardinality(X) > k
    BY <1>3
  <2> HIDE DEF X, Y
  <2>3. IsFiniteSet(Y)
    BY <1>1, <2>1, FS_Subset
  <2>4. Cardinality(X) <= Cardinality(Y) /\ Cardinality(X) # Cardinality(Y)
        /\ Cardinality(X) \in Nat /\ Cardinality(Y) \in Nat
    BY <2>1, <2>3, FS_Subset, FS_CardinalityType
  <2>5. Cardinality(Y) > k + 1
    BY <2>2, <2>4
  <2> QED BY <2>1, <2>5 DEF Y
<1> HIDE DEF S
<1>4. C \in 0..C /\ \A k \in 0..C : k \in S
  BY <1>1, <1>2, <1>3, UpTo
<1>5. Cardinality(NodesIn(f[C])) > C
  BY <1>4 DEF S
<1>6. NodesIn(f[C]) \subseteq Nodes
  <2>1. f[C] \in SUBSET Pairs
    BY <1>4, LayerFacts
  <2> QED BY <2>1, PairIs DEF NodesIn
<1>7. Cardinality(NodesIn(f[C])) <= C /\ Cardinality(NodesIn(f[C])) \in Nat
  BY <1>1, <1>6, FS_Subset, FS_CardinalityType DEF C
<1> QED BY <1>1, <1>5, <1>7

\* So the last layer has the nodes of one before it.
LEMMA LastLayer ==
  ASSUME NEW r \in Nodes, NEW all \in BOOLEAN, NEW f, Reaches(f, r, all)
  PROVE  \E k \in 0..C : k # C /\ NodesIn(f[C]) = NodesIn(f[k])
<1>1. PICK k \in 0..C : k # C /\ NodesIn(f[k + 1]) = NodesIn(f[k])
  BY Stationary
<1>2. C \in Nat /\ C \in 0..C /\ 0 \in 0..C /\ 0 <= k
  BY ContentReached DEF C
<1> DEFINE K == NodesIn(f[k])
           S == {j \in 0..C : NodesIn(f[j]) \subseteq K}
<1>3. \A n \in K : Kids(n, all) \subseteq K
  <2>1. NodesIn(f[k + 1]) = K \cup UNION {Kids(n, all) : n \in K}
    BY <1>1, NextLayer
  <2> HIDE DEF K
  <2> QED BY <1>1, <2>1 DEF K
<1>4. 0 \in S
  BY <1>2, LayersGrow, NodesInMono
<1>5. ASSUME NEW j \in 0..C, j # C, j \in S
      PROVE  j + 1 \in S
  <2>1. /\ j + 1 \in 0..C
        /\ NodesIn(f[j + 1])
             = NodesIn(f[j]) \cup UNION {Kids(n, all) : n \in NodesIn(f[j])}
    BY <1>5, NextLayer
  <2>2. NodesIn(f[j]) \subseteq K
    BY <1>5
  <2> HIDE DEF K
  <2>3. NodesIn(f[j + 1]) \subseteq K
    BY <1>3, <2>1, <2>2
  <2> QED BY <2>1, <2>3
<1> HIDE DEF S
<1>6. C \in S
  BY <1>2, <1>4, <1>5, UpTo
<1>7. NodesIn(f[C]) \subseteq K
  BY <1>6 DEF S
<1>8. K \subseteq NodesIn(f[C])
  <2>1. f[k] \subseteq f[C]
    BY LayersGrow
  <2> QED BY <2>1, NodesInMono
<1> HIDE DEF K
<1>9. NodesIn(f[C]) = K
  BY <1>7, <1>8
<1>10. k # C /\ NodesIn(f[C]) = NodesIn(f[k])
  BY <1>1, <1>9 DEF K
<1> QED BY <1>10, Zenon

-----------------------------------------------------------------------------
(* The nodes of an answer                                                  *)

LEMMA NodesOfLayer ==
  ASSUME NEW r, NEW all \in BOOLEAN, NEW f, Reaches(f, r, all)
  PROVE  Content(r, all) = f[C]
BY DEF Reaches, C

\* What an answer holds is the least set with the answer and what is right inside.
LEMMA KidsClosed ==
  ASSUME NEW r \in Nodes, NEW all \in BOOLEAN
  PROVE  /\ r \in NodesIn(Content(r, all)) /\ NodesIn(Content(r, all)) \subseteq Nodes
         /\ \A n \in NodesIn(Content(r, all)) : Kids(n, all) \subseteq NodesIn(Content(r, all))
<1>1. PICK f : Reaches(f, r, all)
  BY ContentReached
<1>2. PICK k \in 0..C : k # C /\ NodesIn(f[C]) = NodesIn(f[k])
  BY <1>1, LastLayer
<1>3. C \in Nat /\ C \in 0..C
  BY ContentReached DEF C
<1>4. f[C] \in SUBSET Pairs /\ <<r, 0>> \in f[C]
  BY <1>1, <1>3, LayerFacts
<1>5. k + 1 \in 0..C /\ NodesIn(f[k + 1]) \subseteq NodesIn(f[C])
      /\ \A n \in NodesIn(f[k]) : Kids(n, all) \subseteq NodesIn(f[k + 1])
  <2>1. /\ k + 1 \in 0..C
        /\ NodesIn(f[k + 1])
             = NodesIn(f[k]) \cup UNION {Kids(n, all) : n \in NodesIn(f[k])}
    BY <1>1, <1>2, NextLayer
  <2>2. f[k + 1] \subseteq f[C]
    BY <1>1, <2>1, LayersGrow
  <2> QED BY <2>1, <2>2, NodesInMono
<1>6. r \in NodesIn(f[C]) /\ NodesIn(f[C]) \subseteq Nodes
  BY <1>4, PairIs DEF NodesIn
<1> QED BY <1>1, <1>2, <1>5, <1>6, NodesOfLayer

LEMMA KidsLeast ==
  ASSUME NEW r \in Nodes, NEW all \in BOOLEAN, NEW T, r \in T, \A n \in T : Kids(n, all) \subseteq T
  PROVE  NodesIn(Content(r, all)) \subseteq T
<1>1. PICK f : Reaches(f, r, all)
  BY ContentReached
<1>2. C \in Nat /\ C \in 0..C /\ f[0] = {<<r, 0>>}
  <2>1. C \in Nat
    BY ContentReached DEF C
  <2>2. f[0] = {<<r, 0>>}
    BY <1>1 DEF Reaches
  <2> QED BY <2>1, <2>2
<1> DEFINE S == {j \in 0..C : NodesIn(f[j]) \subseteq T}
<1>3. 0 \in S
  BY <1>2, PairIs DEF NodesIn
<1>4. ASSUME NEW j \in 0..C, j # C, j \in S
      PROVE  j + 1 \in S
  <2>1. /\ j + 1 \in 0..C
        /\ NodesIn(f[j + 1])
             = NodesIn(f[j]) \cup UNION {Kids(n, all) : n \in NodesIn(f[j])}
    BY <1>1, <1>4, NextLayer
  <2>2. NodesIn(f[j]) \subseteq T
    BY <1>4
  <2>3. NodesIn(f[j + 1]) \subseteq T
    BY <2>1, <2>2
  <2> QED BY <2>1, <2>3
<1> HIDE DEF S
<1>5. C \in S
  BY <1>2, <1>3, <1>4, UpTo
<1> QED BY <1>1, <1>5, NodesOfLayer DEF S

LEMMA NodesClosed ==
  ASSUME NEW r \in Nodes
  PROVE  /\ r \in NodesOf(r) /\ NodesOf(r) \subseteq Nodes
         /\ \A n \in NodesOf(r) : Children(n) \subseteq NodesOf(r)
<1>1. NodesOf(r) = NodesIn(Content(r, TRUE))
  BY DEF NodesOf, NodesIn
<1> QED BY <1>1, KidsClosed, KidsAll

LEMMA NodesLeast ==
  ASSUME NEW r \in Nodes, NEW T, r \in T, \A n \in T : Children(n) \subseteq T
  PROVE  NodesOf(r) \subseteq T
<1>1. NodesOf(r) = NodesIn(Content(r, TRUE))
  BY DEF NodesOf, NodesIn
<1>2. \A n \in T : Kids(n, TRUE) \subseteq T
  BY KidsAll
<1> QED BY <1>1, <1>2, KidsLeast

\* Each node of an answer but the answer has one node around it.
LEMMA OneAround ==
  ASSUME NEW r \in Answers
  PROVE  /\ r \in Nodes /\ r \in Objects /\ r \notin Arrays
         /\ \A n \in NodesOf(r) : r \notin Children(n)
         /\ \A m, n \in NodesOf(r) : \A x : x \in Children(m) /\ x \in Children(n) => m = n
<1>1. r \in Nodes /\ r \in Objects /\ r \notin Arrays
  BY TreeAssumption DEF Nodes
<1>2. /\ \A n \in NodesOf(r) : r \notin Children(n)
      /\ \A m, n \in NodesOf(r) : m # n => Children(m) \cap Children(n) = {}
  BY JsonAssumption
<1> QED BY <1>1, <1>2

-----------------------------------------------------------------------------
(* The levels of the nodes                                                 *)

\* A node of an answer is at one level.
LEMMA OneLevel ==
  ASSUME NEW r \in Answers
  PROVE  /\ Content(r, TRUE) \subseteq Pairs /\ <<r, 0>> \in Content(r, TRUE)
         /\ \A p, q \in Content(r, TRUE) : p[1] = q[1] => p = q
<1>0. r \in Nodes
  BY OneAround
<1>1. PICK f : Reaches(f, r, TRUE)
  BY ContentReached
<1>2. C \in Nat /\ C \in 0..C
  BY ContentReached DEF C
<1>3. f[C] \in SUBSET Pairs /\ <<r, 0>> \in f[C]
  BY <1>0, <1>1, <1>2, LayerFacts
<1>4. \A q \in f[C] : q = <<r, 0>> \/ \E p \in f[C] : q \in Below(p, TRUE)
  BY <1>0, <1>1, <1>2, LayerFacts
<1> DEFINE S == {k \in 0..C : \A p, q \in f[k] : p[1] = q[1] => p = q}
<1>5. 0 \in S
  <2>1. f[0] = {<<r, 0>>} /\ 0 \in 0..C
    BY <1>1, <1>2 DEF Reaches
  <2> QED BY <2>1
<1>6. ASSUME NEW k \in 0..C, k # C, k \in S
      PROVE  k + 1 \in S
  <2> DEFINE X == f[k]
             Y == f[k + 1]
  <2>1. k + 1 \in 0..C /\ Y = Grown(X, TRUE)
    BY <1>0, <1>1, <1>6, NextLayer
  <2>2. X \in SUBSET Pairs /\ X \subseteq f[C]
        /\ \A q \in X : q = <<r, 0>> \/ \E p \in X : q \in Below(p, TRUE)
    BY <1>0, <1>1, LayerFacts, LayersGrow
  <2>3. \A p, q \in X : p[1] = q[1] => p = q
    BY <1>6
  <2> HIDE DEF X, Y
  <2>4. \A q \in Y : q = <<r, 0>> \/ \E p \in X : q \in Below(p, TRUE)
    BY <2>1, <2>2, GrownIs
  <2>5. \A p \in X : p \in Pairs /\ p[1] \in NodesOf(r)
    <3>1. NodesOf(r) = NodesIn(f[C])
      BY <1>1, NodesOfLayer DEF NodesOf, NodesIn
    <3> QED BY <2>2, <3>1 DEF NodesIn
  <2>6. ASSUME NEW p \in X, NEW q, q \in Below(p, TRUE)
        PROVE  q[1] \in Children(p[1]) /\ q[1] # r
    <3>1. q[1] \in Children(p[1])
      BY <2>5, <2>6, BelowAll
    <3> QED BY <2>5, <3>1, OneAround
  <2>7. ASSUME NEW s \in Y, NEW t \in Y, s[1] = t[1]
        PROVE  s = t
    <3>1. CASE s = <<r, 0>> \/ t = <<r, 0>>
      BY <2>4, <2>6, <2>7, <3>1, PairIs
    <3>2. CASE (\E p \in X : s \in Below(p, TRUE)) /\ \E p \in X : t \in Below(p, TRUE)
      <4>1. PICK p \in X : s \in Below(p, TRUE)
        BY <3>2
      <4>2. PICK q \in X : t \in Below(q, TRUE)
        BY <3>2
      <4>3. p[1] = q[1]
        BY <2>5, <2>6, <2>7, <4>1, <4>2, OneAround
      <4>4. p = q
        BY <2>3, <4>3
      <4> QED BY <2>5, <2>7, <4>1, <4>2, <4>4, BelowAll
    <3> QED BY <2>4, <3>1, <3>2
  <2> QED BY <2>1, <2>7 DEF Y
<1> HIDE DEF S
<1>7. C \in S
  BY <1>2, <1>5, <1>6, UpTo
<1>8. \A p, q \in f[C] : p[1] = q[1] => p = q
  BY <1>7 DEF S
<1> QED BY <1>1, <1>3, <1>8, NodesOfLayer

\* What is below a node is in the answer at the level that Below says.
LEMMA ContentClosed ==
  ASSUME NEW r \in Answers, NEW p \in Content(r, TRUE)
  PROVE  Below(p, TRUE) \subseteq Content(r, TRUE)
<1>0. r \in Nodes
  BY OneAround
<1>1. PICK f : Reaches(f, r, TRUE)
  BY ContentReached
<1>2. PICK k \in 0..C : k # C /\ NodesIn(f[C]) = NodesIn(f[k])
  BY <1>0, <1>1, LastLayer
<1>3. Content(r, TRUE) = f[C]
  BY <1>1, NodesOfLayer
<1>4. PICK q \in f[k] : q[1] = p[1]
  BY <1>2, <1>3 DEF NodesIn
<1>5. f[k] \subseteq f[C]
  BY <1>0, <1>1, LayersGrow
<1>6. q = p
  <2>1. q \in Content(r, TRUE)
    BY <1>3, <1>4, <1>5
  <2> QED BY <1>4, <2>1, OneLevel
<1>7. k + 1 \in 0..C /\ f[k + 1] = Grown(f[k], TRUE) /\ f[k] \in SUBSET Pairs
  BY <1>0, <1>1, <1>2, NextLayer, LayerFacts
<1>8. f[k + 1] \subseteq f[C]
  BY <1>0, <1>1, <1>7, LayersGrow
<1>9. Below(q, TRUE) \subseteq f[k + 1]
  <2> DEFINE X == f[k]
  <2>1. X \in SUBSET Pairs /\ q \in X /\ f[k + 1] = Grown(X, TRUE)
    BY <1>4, <1>7
  <2> HIDE DEF X
  <2>2. Below(q, TRUE) \subseteq Grown(X, TRUE)
    BY <2>1, GrownIs
  <2> QED BY <2>1, <2>2
<1> QED BY <1>3, <1>6, <1>8, <1>9

\* The depth of an answer is the greatest level.
LEMMA DepthIs ==
  ASSUME NEW r \in Answers
  PROVE  Depth(r) \in Nat /\ \A p \in Content(r, TRUE) : p[2] <= Depth(r)
<1> DEFINE X == Content(r, TRUE)
           U == {b \in Nat : \A p \in X : p[2] <= b}
<1>1. X \subseteq Pairs /\ <<r, 0>> \in X
  BY OneLevel
<1>2. C \in U
  <2>1. PICK f : Reaches(f, r, TRUE)
    BY ContentReached
  <2>2. C \in Nat /\ C \in 0..C /\ r \in Nodes
    BY ContentReached, OneAround DEF C
  <2>3. \A q \in f[C] : q[2] <= C
    BY <2>1, <2>2, LayerFacts
  <2> QED BY <2>1, <2>2, <2>3, NodesOfLayer
<1>3. U \in SUBSET Nat
  OBVIOUS
<1> HIDE DEF U
<1>4. PICK b \in U : \A c \in U : b <= c
  BY <1>2, <1>3, LeastOf
<1>5. b \in Nat /\ \A p \in X : p[2] <= b
  BY <1>4 DEF U
<1> HIDE DEF X
<1>6. \A p \in X : p[2] \in Nat
  BY <1>1, PairIs
<1>7. \E p \in X : p[2] = b
  <2>1. CASE b = 0
    BY <1>1, <2>1, PairIs
  <2>2. CASE b # 0
    <3>1. b - 1 \in Nat /\ ~(b <= b - 1)
      BY <1>5, <2>2
    <3>2. b - 1 \notin U
      BY <1>4, <3>1
    <3>3. PICK p \in X : ~(p[2] <= b - 1)
      BY <3>1, <3>2 DEF U
    <3>4. p[2] = b
      BY <1>5, <1>6, <3>1, <3>3
    <3> QED BY <3>4
  <2> QED BY <2>1, <2>2
<1> DEFINE L == {p[2] : p \in X}
<1>8. b \in L /\ (\A p \in X : p[2] <= b) /\ \A n \in L : n \in Nat /\ n <= b
  BY <1>5, <1>6, <1>7
<1>9. Whole[r] = X
  BY DEF Whole, X
<1>10. Depth(r) = CHOOSE n \in L : \A p \in X : p[2] <= n
  BY <1>9 DEF Depth
<1> HIDE DEF L
<1>11. Depth(r) \in L /\ \A p \in X : p[2] <= Depth(r)
  BY <1>8, <1>10
<1> QED BY <1>8, <1>11 DEF X

-----------------------------------------------------------------------------
(* The parts of an answer that a walk has seen                             *)

LEMMA FrontierIs ==
  ASSUME NEW S, NEW m
  PROVE  m \in Frontier(S) <=> m \notin S /\ \E n \in S : m \in Children(n)
<1> DEFINE K == {Children(n) : n \in S}
<1>1. \A x : x \in K <=> \E n \in S : x = Children(n)
  BY Zenon
<1>2. Frontier(S) = (UNION K) \ S
  BY DEF Frontier
<1> HIDE DEF K
<1>3. m \in UNION K <=> \E x \in K : m \in x
  BY Zenon
<1>4. m \in UNION K <=> \E n \in S : m \in Children(n)
  BY <1>1, <1>3, Zenon
<1>5. m \in Frontier(S) <=> m \in UNION K /\ m \notin S
  BY <1>2
<1> QED BY <1>4, <1>5, Zenon

\* What is inside an unseen node is unseen.
LEMMA UnseenBelow ==
  ASSUME NEW r \in Answers, NEW S, Part(r, S),
         NEW n \in NodesOf(r) \ S, NEW m \in Children(n)
  PROVE  m \in NodesOf(r) \ S /\ m # n /\ m # r
<1>1. m \in NodesOf(r) /\ m # r
  BY OneAround, NodesClosed
<1>2. m \notin S
  <2> SUFFICES ASSUME m \in S PROVE FALSE
    OBVIOUS
  <2>1. PICK a \in S : m \in Children(a)
    BY <1>1 DEF Part
  <2>2. a \in NodesOf(r) /\ a # n
    BY <2>1 DEF Part
  <2> QED BY <2>1, <2>2, OneAround
<1>3. m # n
  <2> SUFFICES ASSUME n \in Children(n) PROVE FALSE
    OBVIOUS
  <2> DEFINE T == NodesOf(r) \ {n}
  <2>1. r \in T
    BY OneAround, NodesClosed DEF Part
  <2>2. \A a \in T : Children(a) \subseteq T
    BY OneAround, NodesClosed
  <2>3. NodesOf(r) \subseteq T
    <3>1. r \in Nodes
      BY OneAround
    <3> HIDE DEF T
    <3> QED BY <2>1, <2>2, <3>1, NodesLeast
  <2> QED BY <2>3
<1> QED BY <1>1, <1>2, <1>3

\* A walk that enters a node it has not seen.
LEMMA PartGrows ==
  ASSUME NEW r \in Answers, NEW S, Part(r, S), NEW n \in Frontier(S)
  PROVE  /\ n \in NodesOf(r) \ S /\ Part(r, S \cup {n})
         /\ Children(n) \cap (S \cup {n}) = {}
         /\ Frontier(S \cup {n}) = (Frontier(S) \ {n}) \cup Children(n)
<1>1. PICK a \in S : n \notin S /\ n \in Children(a)
  BY FrontierIs
<1>2. n \in NodesOf(r) \ S
  BY <1>1, OneAround, NodesClosed DEF Part
<1>3. Children(n) \cap (S \cup {n}) = {}
  BY <1>2, UnseenBelow
<1>4. Part(r, S \cup {n})
  BY <1>1, <1>2 DEF Part
<1>5. Frontier(S \cup {n}) = (Frontier(S) \ {n}) \cup Children(n)
  <2>1. \A m : m \in Frontier(S \cup {n}) <=>
          m \in (Frontier(S) \ {n}) \cup Children(n)
    <3> TAKE m
    <3>1. m \in Frontier(S) <=> m \notin S /\ \E b \in S : m \in Children(b)
      BY FrontierIs
    <3>2. m \in Frontier(S \cup {n}) <=>
            m \notin S \cup {n} /\ \E b \in S \cup {n} : m \in Children(b)
      BY FrontierIs
    <3> QED BY <1>3, <3>1, <3>2
  <2> QED BY <2>1
<1> QED BY <1>2, <1>3, <1>4, <1>5

LEMMA PartBegins ==
  ASSUME NEW r \in Answers
  PROVE  /\ Part(r, {r}) /\ Frontier({r}) = Children(r)
         /\ Children(r) \cap {r} = {}
<1>1. r \in NodesOf(r) /\ r \notin Children(r)
  <2>1. r \in NodesOf(r) /\ r \in Nodes
    BY OneAround, NodesClosed
  <2> QED BY <2>1, OneAround
<1>2. Part(r, {r}) /\ Children(r) \cap {r} = {}
  BY <1>1 DEF Part
<1>3. \A m : m \in Frontier({r}) <=> m \in Children(r)
  <2> TAKE m
  <2>1. m \in Frontier({r}) <=> m \notin {r} /\ \E n \in {r} : m \in Children(n)
    BY FrontierIs
  <2> QED BY <1>1, <2>1
<1> QED BY <1>2, <1>3

\* When nothing is left to walk, all of the answer has been seen.
LEMMA PartEnds ==
  ASSUME NEW r \in Answers, NEW S, Part(r, S), Frontier(S) = {}
  PROVE  NodesOf(r) \subseteq S
<1>1. r \in S /\ \A n \in S : Children(n) \subseteq S
  BY FrontierIs DEF Part
<1> QED BY <1>1, OneAround, NodesLeast

LEMMA EvenIs ==
  ASSUME NEW r \in EvenAnswers
  PROVE  /\ r \in Answers /\ Depth(r) > 0 /\ Whole[r] = Content(r, TRUE)
         /\ \A p \in Content(r, TRUE) :
              p[2] < Depth(r) => \E q \in Content(r, TRUE) : q \in Below(p, TRUE)
         /\ \A o \in NodesOf(r) \cap Objects : Cardinality(Members[o]) <= 1
         /\ \A a \in NodesOf(r) \cap Arrays : Children(a) \cap Arrays = {}
<1>1. r \in Answers /\ Regular(r) /\ Even(r)
  BY DEF EvenAnswers, RegularAnswers
<1>2. Whole[r] = Content(r, TRUE)
  BY <1>1 DEF Whole
<1>3. \A o \in NodesOf(r) \cap Objects : Cardinality(Members[o]) <= 1
  BY <1>1, <1>2 DEF Regular, NodesOf
<1>4. \A a \in NodesOf(r) \cap Arrays : Children(a) \cap Arrays = {}
  <2>1. \A a \in NodesOf(r) \cap Arrays : Range(Items[a]) \cap Arrays = {}
    BY <1>1, <1>2 DEF Regular, NodesOf
  <2> QED BY <2>1, TreeAssumption DEF Children
<1>5. /\ Depth(r) > 0
      /\ \A p \in Content(r, TRUE) :
           p[2] < Depth(r) => \E q \in Content(r, TRUE) : q \in Below(p, TRUE)
  BY <1>1, <1>2 DEF Even
<1> QED BY <1>1, <1>2, <1>3, <1>4, <1>5

\* A finite set whose elements have children of their own in it has no other.
LEMMA NoBranch ==
  ASSUME NEW W, IsFiniteSet(W), NEW o \in W,
         \A u \in W : \E m \in W : m \in Children(u),
         \A u, t \in W, m \in W : m \in Children(u) /\ m \in Children(t) => u = t
  PROVE  \E u \in W : o \in Children(u)
<1> DEFINE c == [u \in W |-> CHOOSE m \in W : m \in Children(u)]
<1>1. \A u \in W : c[u] \in W /\ c[u] \in Children(u)
  OBVIOUS
<1>2. c \in [W -> W]
  OBVIOUS
<1> HIDE DEF c
<1>3. \A u, t \in W : c[u] = c[t] => u = t
  BY <1>1
<1>4. c \in Injection(W, W)
  BY <1>2, <1>3 DEF Injection, IsInjective
<1>5. c \in Surjection(W, W)
  BY <1>4, FS_Injection
<1>6. \E u \in W : c[u] = o
  BY <1>5 DEF Surjection
<1> QED BY <1>1, <1>6

(* In an even answer, below a node that is not at the greatest depth, and  *)
(* that has nothing in it that was seen, an array was not seen.            *)
LEMMA ArrayToCome ==
  ASSUME NEW r \in EvenAnswers, NEW S, Part(r, S), NEW n \in S,
         NEW l \in Nat, <<n, l>> \in Content(r, TRUE), l < Depth(r),
         Children(n) \cap S = {}
  PROVE  ~(Arrays \cap NodesOf(r) \subseteq S)
<1> SUFFICES ASSUME Arrays \cap NodesOf(r) \subseteq S PROVE FALSE
  OBVIOUS
<1>0. r \in Answers /\ Depth(r) \in Nat
  BY EvenIs, DepthIs
<1> DEFINE W == {u \in NodesOf(r) \ S :
                   \E k \in Nat : k < Depth(r) /\ <<u, k>> \in Content(r, TRUE)}
<1>1. ASSUME NEW u, NEW k \in Nat, k < Depth(r), <<u, k>> \in Content(r, TRUE),
             Children(u) \cap S = {}
      PROVE  \E m \in W : m \in Children(u)
  <2>1. <<u, k>>[1] = u /\ <<u, k>>[2] = k
    BY PairIs
  <2>2. PICK q \in Content(r, TRUE) : q \in Below(<<u, k>>, TRUE)
    BY <1>1, <2>1, EvenIs
  <2>3. q[1] \in Children(u) /\ q[2] = LevelIn(<<u, k>>, q[1])
    BY <1>0, <1>1, <2>1, <2>2, BelowAll, OneLevel
  <2>4. q[1] \in NodesOf(r) /\ q = <<q[1], q[2]>>
    BY <1>0, <2>2, OneLevel, PairIs DEF NodesOf
  <2>5. q[1] \notin S /\ q[1] \notin Arrays
    BY <1>1, <2>3, <2>4
  <2>6. q[2] = k
    BY <2>1, <2>3, <2>5 DEF LevelIn
  <2>7. <<q[1], k>> \in Content(r, TRUE)
    BY <2>2, <2>4, <2>6
  <2>8. q[1] \in W
    BY <1>1, <2>4, <2>5, <2>7
  <2> QED BY <2>3, <2>8
<1>2. PICK o \in W : o \in Children(n)
  BY <1>1
<1>3. \A u \in W : u \in NodesOf(r) \ S
  OBVIOUS
<1>4. \A u \in W : \E m \in W : m \in Children(u)
  <2> SUFFICES ASSUME NEW u \in W PROVE \E m \in W : m \in Children(u)
    OBVIOUS
  <2>1. Children(u) \cap S = {}
    BY <1>0, <1>3, UnseenBelow
  <2> QED BY <1>1, <2>1
<1>5. IsFiniteSet(W)
  <2>1. W \subseteq Nodes
    BY <1>0, OneAround, NodesClosed
  <2> QED BY <2>1, TreeAssumption, FS_Subset
<1> HIDE DEF W
<1>6. \A u, t \in W, m \in W : m \in Children(u) /\ m \in Children(t) => u = t
  BY <1>0, <1>3, OneAround
<1>7. PICK u \in W : o \in Children(u)
  BY <1>4, <1>5, <1>6, NoBranch
<1>8. u = n
  BY <1>0, <1>2, <1>3, <1>7, OneAround DEF Part
<1> QED BY <1>3, <1>8

-----------------------------------------------------------------------------
(* Stacks of calls, the innermost last                                     *)

\* What FramesInv and LevelInv say of one call of the walk over r.
Sound(f, r, S) ==
  /\ f.node \in S /\ f.todo \subseteq Children(f.node)
  /\ f.node \in Arrays => f.todo = {}
  /\ r \in EvenAnswers /\ (f.node \in Arrays \/ f.todo # {}) =>
       <<f.node, f.lev>> \in Content(r, TRUE)

Stack(s, r, S) ==
  /\ \A k \in DOMAIN s : Sound(s[k], r, S)
  /\ \A k, l \in DOMAIN s : k # l => s[k].node # s[l].node

LEMMA Split ==
  ASSUME NEW T, NEW s \in Seq(T), s # <<>>
  PROVE  s = Append(Front(s), Last(s))
<1> DEFINE o == Front(s)
           t == Append(o, Last(s))
<1>1. /\ o \in Seq(T) /\ Last(s) \in T /\ Len(s) \in Nat \ {0}
      /\ Last(s) = s[Len(s)] /\ Len(o) = Len(s) - 1
      /\ \A k \in 1..(Len(s) - 1) : o[k] = s[k]
  BY FrontLast
<1> HIDE DEF o
<1>2. /\ t \in Seq(T) /\ Len(t) = Len(o) + 1
      /\ \A k \in 1..Len(o) : t[k] = o[k]
      /\ t[Len(o) + 1] = Last(s)
  BY <1>1, Appended
<1> HIDE DEF t
<1>3. Len(t) = Len(s) /\ t[Len(s)] = s[Len(s)]
  BY <1>1, <1>2
<1>4. \A k \in 1..Len(s) : t[k] = s[k]
  <2> TAKE k \in 1..Len(s)
  <2>1. CASE k = Len(s)
    BY <1>3, <2>1
  <2>2. CASE k # Len(s)
    <3>1. k \in 1..(Len(s) - 1) /\ k \in 1..Len(o)
      BY <1>1, <2>2
    <3> QED BY <1>1, <1>2, <3>1
  <2> QED BY <2>1, <2>2
<1>5. t = s
  BY <1>2, <1>3, <1>4, SeqEqual
<1> QED BY <1>5 DEF t, o

LEMMA AppendedIs ==
  ASSUME NEW s \in Seq(Frames), NEW f \in Frames
  PROVE  /\ DOMAIN s = 1..Len(s) /\ Len(s) \in Nat
         /\ DOMAIN Append(s, f) = 1..(Len(s) + 1)
         /\ \A k \in DOMAIN s : k # Len(s) + 1 /\ Append(s, f)[k] = s[k]
         /\ Append(s, f)[Len(s) + 1] = f
         /\ DOMAIN Append(s, f) = DOMAIN s \cup {Len(s) + 1}
<1> DEFINE t == Append(s, f)
<1>1. /\ t \in Seq(Frames) /\ Len(t) = Len(s) + 1
      /\ \A k \in 1..Len(s) : t[k] = s[k]
      /\ t[Len(s) + 1] = f
  BY Appended
<1>2. DOMAIN s = 1..Len(s) /\ Len(s) \in Nat /\ DOMAIN t = 1..Len(t)
  BY <1>1, FrameLevels
<1> HIDE DEF t
<1>3. DOMAIN t = DOMAIN s \cup {Len(s) + 1} /\ \A k \in DOMAIN s : k # Len(s) + 1
  BY <1>1, <1>2
<1> QED BY <1>1, <1>2, <1>3 DEF t

LEMMA RestIs ==
  ASSUME NEW s, NEW m
  PROVE  m \in RestOf(s) <=> \E k \in DOMAIN s : m \in Rest(s[k])
<1> DEFINE K == {Rest(s[k]) : k \in DOMAIN s}
<1>1. \A x : x \in K <=> \E k \in DOMAIN s : x = Rest(s[k])
  BY Zenon
<1>2. RestOf(s) = UNION K
  BY DEF RestOf
<1> HIDE DEF K
<1>3. m \in UNION K <=> \E x \in K : m \in x
  BY Zenon
<1> QED BY <1>1, <1>2, <1>3, Zenon

LEMMA RestAppended ==
  ASSUME NEW s \in Seq(Frames), NEW f \in Frames
  PROVE  RestOf(Append(s, f)) = RestOf(s) \cup Rest(f)
<1> DEFINE t == Append(s, f)
<1>1. /\ DOMAIN t = DOMAIN s \cup {Len(s) + 1}
      /\ \A k \in DOMAIN s : t[k] = s[k]
      /\ t[Len(s) + 1] = f
  BY AppendedIs
<1> HIDE DEF t
<1>2. \A m : m \in RestOf(t) <=> m \in RestOf(s) \/ m \in Rest(f)
  <2> TAKE m
  <2>1. m \in RestOf(t) <=> \E k \in DOMAIN t : m \in Rest(t[k])
    BY RestIs
  <2>2. m \in RestOf(s) <=> \E k \in DOMAIN s : m \in Rest(s[k])
    BY RestIs
  <2>3. (\E k \in DOMAIN t : m \in Rest(t[k])) <=>
          \/ \E k \in DOMAIN s : m \in Rest(t[k])
          \/ m \in Rest(t[Len(s) + 1])
    BY <1>1, Zenon
  <2>4. (\E k \in DOMAIN s : m \in Rest(t[k])) <=> \E k \in DOMAIN s : m \in Rest(s[k])
    BY <1>1
  <2> QED BY <1>1, <2>1, <2>2, <2>3, <2>4, Zenon
<1>3. RestOf(t) = RestOf(s) \cup Rest(f)
  BY <1>2
<1> QED BY <1>3 DEF t

LEMMA StackAppended ==
  ASSUME NEW s \in Seq(Frames), NEW f \in Frames, NEW r, NEW S
  PROVE  Stack(Append(s, f), r, S) <=>
           /\ Stack(s, r, S) /\ Sound(f, r, S)
           /\ \A k \in DOMAIN s : s[k].node # f.node
<1> DEFINE t == Append(s, f)
           n == Len(s) + 1
<1>1. /\ DOMAIN t = DOMAIN s \cup {n}
      /\ \A k \in DOMAIN s : k # n /\ t[k] = s[k]
      /\ t[n] = f
  BY AppendedIs
<1> HIDE DEF t, n
<1>2. (\A k \in DOMAIN t : Sound(t[k], r, S)) <=>
        (\A k \in DOMAIN s : Sound(s[k], r, S)) /\ Sound(f, r, S)
  BY <1>1
<1>3. (\A k, l \in DOMAIN t : k # l => t[k].node # t[l].node) <=>
        /\ \A k, l \in DOMAIN s : k # l => s[k].node # s[l].node
        /\ \A k \in DOMAIN s : s[k].node # f.node
  BY <1>1
<1>4. Stack(t, r, S) <=>
        /\ Stack(s, r, S) /\ Sound(f, r, S)
        /\ \A k \in DOMAIN s : s[k].node # f.node
  BY <1>2, <1>3 DEF Stack
<1> QED BY <1>4 DEF t

LEMMA LastSound ==
  ASSUME NEW s \in Seq(Frames), s # <<>>, NEW r, NEW S, Stack(s, r, S)
  PROVE  Sound(Last(s), r, S)
<1>0. Last(s) = s[Len(s)] /\ Len(s) \in Nat \ {0}
  BY FrontLast
<1>1. Last(s) = s[Len(s)] /\ Len(s) \in 1..Len(s)
  BY <1>0
<1>2. DOMAIN s = 1..Len(s)
  BY FrameLevels
<1> QED BY <1>1, <1>2 DEF Stack

LEMMA StackGrows ==
  ASSUME NEW s, NEW r, NEW S, NEW T, S \subseteq T, Stack(s, r, S)
  PROVE  Stack(s, r, T)
BY DEF Stack, Sound

-----------------------------------------------------------------------------
(* What a call has still to walk                                           *)

LEMMA RestIn ==
  ASSUME NEW f \in Frames, f.todo \subseteq Children(f.node)
  PROVE  Rest(f) \subseteq Children(f.node) /\ Rest(f) \subseteq Nodes
<1>0. f.node \in Nodes /\ f.i \in Nat /\ f.todo \subseteq Nodes
  BY DEF Frames
<1>1. CASE f.node \in Objects
  BY <1>0, <1>1 DEF Rest
<1>2. CASE f.node \notin Objects
  <2>1. f.node \in Arrays
    BY <1>0, <1>2 DEF Nodes
  <2> DEFINE its == Items[f.node]
  <2>2. DOMAIN its = 1..Len(its) /\ Len(its) \in Nat
    BY <2>1, TreeAssumption, LenProperties
  <2>3. Rest(f) = Nodes \cap {its[j] : j \in (f.i + 1)..Len(its)}
    BY <1>2 DEF Rest
  <2>4. Children(f.node) = Nodes \cap Range(its)
    BY <1>2 DEF Children
  <2> HIDE DEF its
  <2>5. \A j \in (f.i + 1)..Len(its) : j \in DOMAIN its
    BY <1>0, <2>2
  <2>6. \A j \in DOMAIN its : its[j] \in Range(its)
    BY DEF Range
  <2> QED BY <2>3, <2>4, <2>5, <2>6
<1> QED BY <1>1, <1>2

\* A new call has all the children of its node to walk.
LEMMA RestNew ==
  ASSUME NEW n \in Nodes, NEW lev \in Nat
  PROVE  /\ Rest(Frame(n, lev)) = Children(n)
         /\ Frame(n, lev).todo \subseteq Children(n)
         /\ n \in Arrays => Frame(n, lev).todo = {}
<1>0. Objects \cap Arrays = {} /\ Objects \cup Arrays = Nodes
  BY TreeAssumption DEF Nodes
<1>1. CASE n \in Objects
  BY <1>0, <1>1 DEF Rest, Frame, Children
<1>2. CASE n \notin Objects
  <2>1. n \in Arrays
    BY <1>0, <1>2
  <2> DEFINE its == Items[n]
  <2>2. DOMAIN its = 1..Len(its) /\ Len(its) \in Nat
    BY <2>1, TreeAssumption, LenProperties
  <2>3. Rest(Frame(n, lev)) = Nodes \cap {its[j] : j \in (0 + 1)..Len(its)}
    BY <1>2 DEF Rest, Frame
  <2>4. Children(n) = Nodes \cap Range(its) /\ Frame(n, lev).todo = {}
    BY <1>2 DEF Children, Frame
  <2> HIDE DEF its
  <2>5. (0 + 1)..Len(its) = DOMAIN its
    BY <2>2
  <2>6. {its[j] : j \in DOMAIN its} = Range(its)
    BY DEF Range
  <2> QED BY <2>3, <2>4, <2>5, <2>6
<1> QED BY <1>1, <1>2

\* Going on to the next item leaves out the item, which is in one place.
LEMMA RestNext ==
  ASSUME NEW r \in Answers, NEW f \in Frames, NEW g \in Frames,
         f.node \in Arrays, f.node \in NodesOf(r), f.i < Len(Items[f.node]),
         g.node = f.node, g.i = f.i + 1
  PROVE  LET x == Items[f.node][f.i + 1]
         IN  /\ Rest(g) = Rest(f) \ {x}
             /\ x \in Nodes => x \in Rest(f)
<1> DEFINE its == Items[f.node]
           x   == its[f.i + 1]
<1>1. f.node \notin Objects /\ Scalar \notin Nodes
  BY TreeAssumption
<1>2. DOMAIN its = 1..Len(its) /\ Len(its) \in Nat
  BY TreeAssumption, LenProperties
<1>3. f.i \in Nat /\ f.i < Len(its)
  BY DEF Frames
<1>4. Rest(f) = Nodes \cap {its[j] : j \in (f.i + 1)..Len(its)}
  BY <1>1 DEF Rest
<1>5. Rest(g) = Nodes \cap {its[j] : j \in (f.i + 1 + 1)..Len(its)}
  BY <1>1 DEF Rest
<1>6. \A i, j \in DOMAIN its : i # j => its[i] # its[j] \/ its[i] = Scalar
  BY JsonAssumption
<1> HIDE DEF its
<1>7. /\ f.i + 1 \in DOMAIN its
      /\ \A j : j \in (f.i + 1)..Len(its) <=>
                  j = f.i + 1 \/ j \in (f.i + 1 + 1)..Len(its)
      /\ \A j \in (f.i + 1 + 1)..Len(its) : j \in DOMAIN its /\ j # f.i + 1
  BY <1>2, <1>3
<1> DEFINE i == f.i + 1
           K == (f.i + 1 + 1)..Len(its)
           J == (f.i + 1)..Len(its)
<1>8. /\ i \in DOMAIN its /\ J = K \cup {i}
      /\ \A j \in K : j \in DOMAIN its /\ j # i
      /\ x = its[i] /\ Rest(f) = Nodes \cap {its[j] : j \in J}
      /\ Rest(g) = Nodes \cap {its[j] : j \in K}
  BY <1>4, <1>5, <1>7
<1> HIDE DEF i, K, J, x
<1>9. \A j \in K : its[j] = x => x \notin Nodes
  BY <1>1, <1>6, <1>8
<1>10. \A y : y \in Rest(f) <=> y \in Nodes /\ (y = x \/ \E j \in K : y = its[j])
  BY <1>8
<1>11. \A y : y \in Rest(g) <=> y \in Nodes /\ \E j \in K : y = its[j]
  BY <1>8
<1>12. Rest(g) = Rest(f) \ {x} /\ (x \in Nodes => x \in Rest(f))
  BY <1>9, <1>10, <1>11
<1> QED BY <1>12 DEF x, its

-----------------------------------------------------------------------------
(* Two moves of a walk over the answer r that has seen S                   *)

LEMMA StackNodes ==
  ASSUME NEW s \in Seq(Frames), NEW r, NEW S, Stack(s, r, S)
  PROVE  \A k \in DOMAIN s : /\ s[k] \in Frames /\ s[k].node \in S
                             /\ Rest(s[k]) \subseteq Children(s[k].node)
                             /\ Rest(s[k]) \subseteq Nodes
<1> SUFFICES ASSUME NEW k \in DOMAIN s
             PROVE  /\ s[k] \in Frames /\ s[k].node \in S
                    /\ Rest(s[k]) \subseteq Children(s[k].node)
                    /\ Rest(s[k]) \subseteq Nodes
  OBVIOUS
<1>1. s[k] \in Frames
  BY FrameLevels
<1>2. s[k].node \in S /\ s[k].todo \subseteq Children(s[k].node)
  BY DEF Stack, Sound
<1> QED BY <1>1, <1>2, RestIn

\* The innermost call, c, goes on as f and leaves x to be walked.
LEMMA CallGoesOn ==
  ASSUME NEW r \in Answers, NEW S, Part(r, S),
         NEW s \in Seq(Frames), s # <<>>, Stack(s, r, S),
         NEW f \in Frames, f.node = Last(s).node, Sound(f, r, S), NEW x,
         Rest(f) = Rest(Last(s)) \ {x}, x \in Nodes => x \in Rest(Last(s))
  PROVE  LET t == Append(Front(s), f)
         IN  /\ t \in Seq(Frames) /\ Stack(t, r, S)
             /\ RestOf(t) = RestOf(s) \ {x}
             /\ x \in Nodes => x \in RestOf(s)
<1> DEFINE o == Front(s)
           c == Last(s)
           t == Append(o, f)
<1>1. o \in Seq(Frames) /\ c \in Frames /\ s = Append(o, c)
  BY FrontLast, Split
<1> HIDE DEF o, c
<1>2. /\ Stack(o, r, S) /\ Sound(c, r, S)
      /\ \A k \in DOMAIN o : o[k].node # c.node
  BY <1>1, StackAppended
<1>3. t \in Seq(Frames) /\ Stack(t, r, S)
  BY <1>1, <1>2, StackAppended, Appended DEF c
<1>4. RestOf(s) = RestOf(o) \cup Rest(c) /\ RestOf(t) = RestOf(o) \cup Rest(f)
  BY <1>1, RestAppended
<1>5. Rest(c) \subseteq Children(c.node) /\ c.node \in S
  BY <1>1, <1>2, RestIn DEF Sound
<1>6. x \notin RestOf(o)
  <2> SUFFICES ASSUME x \in RestOf(o) PROVE FALSE
    OBVIOUS
  <2>1. PICK k \in DOMAIN o : x \in Rest(o[k])
    BY RestIs
  <2>2. x \in Children(o[k].node) /\ o[k].node \in S /\ x \in Nodes
    BY <1>1, <1>2, <2>1, StackNodes
  <2>3. x \in Children(c.node)
    BY <1>5, <2>2 DEF c
  <2>4. o[k].node = c.node
    BY <1>5, <2>2, <2>3, OneAround DEF Part
  <2> QED BY <1>2, <2>4
<1>7. RestOf(t) = RestOf(s) \ {x} /\ (x \in Nodes => x \in RestOf(s))
  BY <1>4, <1>6 DEF c
<1> QED BY <1>3, <1>7 DEF o

\* A node left to be walked gets a call of its own.
LEMMA CallEnters ==
  ASSUME NEW r \in Answers, NEW S, Part(r, S),
         NEW t \in Seq(Frames), Stack(t, r, S),
         NEW n \in Nodes, NEW lev \in Nat,
         RestOf(t) = Frontier(S) \ {n}, n \in Frontier(S),
         r \in EvenAnswers => <<n, lev>> \in Content(r, TRUE)
  PROVE  LET T == S \cup {n}
             u == Append(t, Frame(n, lev))
         IN  /\ Part(r, T) /\ Stack(u, r, T) /\ RestOf(u) = Frontier(T)
             /\ n \in NodesOf(r) \ S /\ Children(n) \cap T = {}
<1> DEFINE T == S \cup {n}
           g == Frame(n, lev)
           u == Append(t, g)
<1>1. /\ n \in NodesOf(r) \ S /\ Part(r, T) /\ Children(n) \cap T = {}
      /\ Frontier(T) = (Frontier(S) \ {n}) \cup Children(n)
  BY PartGrows
<1>2. /\ g \in Frames /\ g.node = n /\ g.lev = lev
      /\ Rest(g) = Children(n) /\ g.todo \subseteq Children(n)
      /\ n \in Arrays => g.todo = {}
  BY FrameFields, RestNew
<1> HIDE DEF g
<1>3. RestOf(u) = Frontier(T)
  BY <1>1, <1>2, RestAppended
<1>4. Sound(g, r, T)
  BY <1>2 DEF Sound
<1>5. Stack(t, r, T)
  BY StackGrows
<1>6. \A k \in DOMAIN t : t[k].node # g.node
  BY <1>1, <1>2, StackNodes
<1>7. Stack(u, r, T)
  BY <1>2, <1>4, <1>5, <1>6, StackAppended
<1> QED BY <1>1, <1>3, <1>7 DEF g

\* The level at which a call finds a child of its node.
LEMMA ChildLevel ==
  ASSUME NEW r \in Answers, NEW n, NEW l, <<n, l>> \in Content(r, TRUE),
         NEW m \in Children(n)
  PROVE  <<m, IF n \in Objects /\ m \in Arrays THEN l + 1 ELSE l>> \in Content(r, TRUE)
<1> DEFINE p == <<n, l>>
<1>1. p \in Pairs /\ p[1] = n /\ p[2] = l
  BY OneLevel, PairIs
<1>2. LevelIn(p, m) = IF n \in Objects /\ m \in Arrays THEN l + 1 ELSE l
  BY <1>1 DEF LevelIn
<1> HIDE DEF p
<1>3. <<m, LevelIn(p, m)>> \in Below(p, TRUE)
  BY <1>1, BelowAll
<1>4. Below(p, TRUE) \subseteq Content(r, TRUE)
  BY ContentClosed DEF p
<1> QED BY <1>2, <1>3, <1>4

-----------------------------------------------------------------------------
(* SeenInv as an operator on what it speaks of                             *)

CountOf(S, r, upd, tot) ==
  /\ upd <= Cardinality(DishArrays \cap S)
  /\ tot = Cardinality(DishArrays \cap NodesOf(r))

DeepestOf(S, r, lay) ==
  r \in EvenAnswers => lay = Depth(r) \/ ~(Arrays \cap NodesOf(r) \subseteq S)

SeenBy(S, r, s, due, upd, tot, lay) ==
  /\ Part(r, S) /\ Stack(s, r, S)
  /\ due \cup RestOf(s) = Frontier(S) /\ due \cap RestOf(s) = {}
  /\ CountOf(S, r, upd, tot) /\ DeepestOf(S, r, lay)

LEMMA WholeIs == \A r \in Answers : Whole[r] = Content(r, TRUE)
BY DEF Whole

LEMMA SeenWalk ==
  ASSUME answer \in Answers, NEW S, Seen(S)
  PROVE  SeenBy(S, answer, calls, Due, updateProcess, toalDishesNumber,
                lay_stackBak)
<1>1. Whole[answer] = Content(answer, TRUE)
  BY WholeIs
<1>2. Stack(calls, answer, S)
  BY <1>1 DEF Seen, FramesInv, LevelInv, Stack, Sound
<1>3. DeepestOf(S, answer, lay_stackBak)
  BY DEF Seen, LevelInv, DeepestOf
<1> QED BY <1>2, <1>3 DEF Seen, FramesInv, CountInv, SeenBy, CountOf

LEMMA SeenKept ==
  ASSUME answer' \in Answers, NEW S \in SUBSET Nodes,
         SeenBy(S, answer', calls', Due', updateProcess', toalDishesNumber',
                lay_stackBak')
  PROVE  Seen(S)'
<1>1. Whole[answer'] = Content(answer', TRUE)
  BY WholeIs
<1>2. /\ Part(answer', S) /\ Stack(calls', answer', S)
      /\ Due' \cup RestOf(calls') = Frontier(S) /\ Due' \cap RestOf(calls') = {}
      /\ CountOf(S, answer', updateProcess', toalDishesNumber')
      /\ DeepestOf(S, answer', lay_stackBak')
  BY DEF SeenBy
<1>3. FramesInv(S)'
  BY <1>2 DEF FramesInv, Stack, Sound
<1>4. CountInv(S)'
  BY <1>2 DEF CountInv, CountOf
<1>5. LevelInv(S)'
  BY <1>1, <1>2 DEF LevelInv, DeepestOf, Stack, Sound
<1> QED BY <1>2, <1>3, <1>4, <1>5 DEF Seen

LEMMA NoDue ==
  /\ pc["main"] = "walk" => Due = {} /\ At("main", "walk")
  /\ pc'["main"] = "walk" => Due' = {}
BY DEF Due, At

-----------------------------------------------------------------------------
(* The counts and the levels of a step                                     *)

LEMMA CountKept ==
  ASSUME NEW S \in SUBSET Nodes, NEW n \in Nodes, NEW r, NEW upd \in Nat, NEW tot,
         CountOf(S, r, upd, tot)
  PROVE  CountOf(S \cup {n}, r, upd, tot)
<1> DEFINE A == DishArrays \cap S
           B == DishArrays \cap (S \cup {n})
<1>1. IsFiniteSet(A) /\ IsFiniteSet(B) /\ A \subseteq B
  BY TreeAssumption, FS_Subset
<1> HIDE DEF A, B
<1>2. Cardinality(A) <= Cardinality(B) /\ Cardinality(A) \in Nat
      /\ Cardinality(B) \in Nat
  BY <1>1, FS_Subset, FS_CardinalityType
<1>3. upd <= Cardinality(A)
  BY DEF CountOf, A
<1>4. upd <= Cardinality(B)
  BY <1>2, <1>3
<1> QED BY <1>4 DEF CountOf, B

LEMMA CountOneMore ==
  ASSUME NEW S \in SUBSET Nodes, NEW n \in Nodes \ S, NEW r, NEW upd \in Nat, NEW tot,
         CountOf(S, r, upd, tot), n \in DishArrays
  PROVE  CountOf(S \cup {n}, r, upd + 1, tot)
<1> DEFINE A == DishArrays \cap S
           B == DishArrays \cap (S \cup {n})
<1>1. IsFiniteSet(A) /\ B = A \cup {n} /\ n \notin A
  BY TreeAssumption, FS_Subset
<1> HIDE DEF A, B
<1>2. Cardinality(B) = Cardinality(A) + 1 /\ Cardinality(A) \in Nat
  BY <1>1, FS_AddElement, FS_CardinalityType
<1>3. upd <= Cardinality(A)
  BY DEF CountOf, A
<1>4. upd + 1 <= Cardinality(B)
  BY <1>2, <1>3
<1> QED BY <1>4 DEF CountOf, B

LEMMA DeepestKept ==
  ASSUME NEW S, NEW n, NEW r, NEW lay, DeepestOf(S, r, lay), n \notin Arrays
  PROVE  DeepestOf(S \cup {n}, r, lay)
BY DEF DeepestOf

\* An object of an even answer has one member.
LEMMA OneMember ==
  ASSUME NEW r \in EvenAnswers, NEW o \in NodesOf(r) \cap Objects,
         NEW Y \in SUBSET Members[o], NEW a \in Y
  PROVE  Y \ {a} = {}
<1>1. Cardinality(Members[o]) <= 1
  BY EvenIs
<1>2. IsFiniteSet(Members[o])
  <2>1. Members[o] \subseteq Nodes
    BY TreeAssumption
  <2> QED BY <2>1, TreeAssumption, FS_Subset
<1>3. Cardinality(Members[o]) \in Nat /\ Cardinality(Members[o]) # 0
  BY <1>2, FS_CardinalityType, FS_EmptySet
<1>4. Cardinality(Members[o]) = 1
  BY <1>1, <1>3
<1>5. PICK m : Members[o] = {m}
  BY <1>2, <1>4, FS_Singleton
<1> QED BY <1>5

-----------------------------------------------------------------------------
(* The steps of the walk                                                   *)

\* What is known of a walk where it takes its next step.
LEMMA SeenWalking ==
  ASSUME WalkInv, answer \in Answers, NEW S \in SUBSET Nodes, Seen(S), Walking
  PROVE  /\ pc["main"] = "walk"
         /\ Part(answer, S) /\ Stack(calls, answer, S)
         /\ RestOf(calls) = Frontier(S) /\ Sound(Call, answer, S)
         /\ CountOf(S, answer, updateProcess, toalDishesNumber)
         /\ DeepestOf(S, answer, lay_stackBak)
         /\ Call.node \in NodesOf(answer)
<1>1. pc["main"] = "walk" /\ calls \in Seq(Frames) /\ calls # <<>>
  BY CallFields DEF Walking, At
<1>2. SeenBy(S, answer, calls, {}, updateProcess, toalDishesNumber, lay_stackBak)
  BY <1>1, SeenWalk, NoDue
<1>3. /\ Part(answer, S) /\ Stack(calls, answer, S) /\ RestOf(calls) = Frontier(S)
      /\ CountOf(S, answer, updateProcess, toalDishesNumber)
      /\ DeepestOf(S, answer, lay_stackBak)
  BY <1>2 DEF SeenBy
<1>4. Sound(Call, answer, S)
  BY <1>1, <1>3, LastSound DEF Call
<1>5. Call.node \in NodesOf(answer)
  BY <1>3, <1>4 DEF Sound, Part
<1> QED BY <1>1, <1>3, <1>4, <1>5

\* A step that enters n, an object or an array of an answer that is not even.
LEMMA SeenEnters ==
  ASSUME answer \in Answers, NEW S \in SUBSET Nodes, Part(answer, S),
         CountOf(S, answer, updateProcess, toalDishesNumber),
         DeepestOf(S, answer, lay_stackBak), updateProcess \in Nat,
         NEW t \in Seq(Frames), Stack(t, answer, S),
         NEW n \in Nodes, NEW lev \in Nat,
         RestOf(t) = Frontier(S) \ {n}, n \in Frontier(S),
         answer \in EvenAnswers => <<n, lev>> \in Content(answer, TRUE),
         n \in Arrays => answer \notin EvenAnswers,
         calls' = Append(t, Frame(n, lev)), pc'["main"] = "walk",
         UNCHANGED <<answer, updateProcess, toalDishesNumber, lay_stackBak>>
  PROVE  S \cup {n} \in SUBSET Nodes /\ Seen(S \cup {n})'
<1> DEFINE r == answer
           T == S \cup {n}
           u == Append(t, Frame(n, lev))
<1>1. /\ r \in Answers /\ Part(r, S) /\ Stack(t, r, S)
      /\ r \in EvenAnswers => <<n, lev>> \in Content(r, TRUE)
      /\ t \in Seq(Frames) /\ n \in Nodes /\ lev \in Nat
      /\ RestOf(t) = Frontier(S) \ {n} /\ n \in Frontier(S)
  OBVIOUS
<1> HIDE DEF r
<1>2. /\ Part(r, T) /\ Stack(u, r, T) /\ RestOf(u) = Frontier(T)
      /\ n \in NodesOf(r) \ S /\ Children(n) \cap T = {}
  BY <1>1, CallEnters, ZenonT(60)
<1>3. /\ Part(answer, T) /\ Stack(u, answer, T) /\ RestOf(u) = Frontier(T)
  BY <1>2 DEF r
<1>4. CountOf(T, answer, updateProcess, toalDishesNumber)
  BY CountKept
<1>5. DeepestOf(T, answer, lay_stackBak)
  BY DeepestKept DEF DeepestOf
<1>6. Due' = {} /\ calls' = u
  BY NoDue
<1> HIDE DEF u
<1>7. T \in SUBSET Nodes /\ answer' \in Answers
  OBVIOUS
<1> HIDE DEF T
<1>8. SeenBy(T, answer', calls', Due', updateProcess', toalDishesNumber',
             lay_stackBak')
  BY <1>3, <1>4, <1>5, <1>6 DEF SeenBy
<1>9. Seen(T)'
  BY <1>7, <1>8, SeenKept
<1> QED BY <1>7, <1>9 DEF T

LEMMA SeenVisitArray ==
  ASSUME WalkInv, answer \in Answers, NEW S \in SUBSET Nodes, Seen(S),
         NEW a \in Arrays, VisitArray(a)
  PROVE  S \cup {a} \in SUBSET Nodes /\ Seen(S \cup {a})'
<1> DEFINE r   == answer
           lev == Call.lev + 1
           f   == [Call EXCEPT !.todo = @ \ {a}, !.lev = lev]
           t   == Append(Front(calls), f)
           u   == Append(t, Frame(a, lev))
<1>1. /\ Walking /\ a \in Call.todo /\ calls' = u
      /\ lay_stackBak' = lev /\ answer' = answer /\ pc' = pc
      /\ toalDishesNumber' = toalDishesNumber
      /\ updateProcess' = updateProcess + (IF a \in DishArrays THEN 1 ELSE 0)
  BY DEF VisitArray, Calling
<1>2. /\ pc["main"] = "walk" /\ calls \in Seq(Frames) /\ calls # <<>>
      /\ Call \in Frames /\ Call.lev \in Nat /\ Call.node \in Nodes
      /\ a \in Nodes /\ lev \in Nat /\ updateProcess \in Nat
      /\ r \in Answers
  BY <1>1, CallFields, SeenWalking, WalkFacts DEF Walking, Nodes
<1>3. /\ Part(r, S) /\ Stack(calls, r, S) /\ RestOf(calls) = Frontier(S)
      /\ CountOf(S, r, updateProcess, toalDishesNumber)
      /\ Sound(Call, r, S) /\ Call.node \in NodesOf(r)
  BY <1>1, SeenWalking
<1>4. Call.node \in Objects /\ a \in Children(Call.node)
  BY <1>1, <1>2, <1>3 DEF Sound, Nodes
<1>5. /\ f \in Frames /\ f.node = Call.node /\ f.lev = lev
      /\ f.todo = Call.todo \ {a}
  BY <1>2, CallType DEF Frames
<1> HIDE DEF f
<1>6. Rest(f) = Rest(Call) \ {a} /\ a \in Rest(Call)
  BY <1>1, <1>4, <1>5 DEF Rest
<1>7. r \in EvenAnswers => f.todo = {}
  BY <1>1, <1>3, <1>4, <1>5, OneMember DEF Sound, Children
<1>8. Sound(f, r, S)
  BY <1>3, <1>4, <1>5, <1>7, TreeAssumption DEF Sound
<1>9. /\ t \in Seq(Frames) /\ Stack(t, r, S) /\ RestOf(t) = Frontier(S) \ {a}
      /\ a \in Frontier(S)
  BY <1>2, <1>3, <1>5, <1>6, <1>8, CallGoesOn DEF Call
<1>10. r \in EvenAnswers => <<a, lev>> \in Content(r, TRUE)
  <2> SUFFICES ASSUME r \in EvenAnswers PROVE <<a, lev>> \in Content(r, TRUE)
    OBVIOUS
  <2>1. <<Call.node, Call.lev>> \in Content(r, TRUE)
    BY <1>1, <1>3 DEF Sound
  <2> QED BY <1>2, <1>4, <2>1, ChildLevel, TreeAssumption
<1> DEFINE T == S \cup {a}
<1> HIDE DEF t, lev
<1>11. /\ r \in Answers /\ Part(r, S) /\ t \in Seq(Frames) /\ Stack(t, r, S)
       /\ a \in Nodes /\ lev \in Nat
  BY <1>2, <1>3, <1>9
<1>12. /\ Part(r, T) /\ Stack(u, r, T) /\ RestOf(u) = Frontier(T)
       /\ a \in NodesOf(r) \ S /\ Children(a) \cap T = {}
  BY <1>9, <1>10, <1>11, CallEnters
<1> HIDE DEF u
<1>13. CountOf(T, r, updateProcess', toalDishesNumber)
  BY <1>1, <1>2, <1>3, <1>12, CountKept, CountOneMore
<1>14. DeepestOf(T, r, lev)
  <2> SUFFICES ASSUME r \in EvenAnswers, lev # Depth(r)
               PROVE  ~(Arrays \cap NodesOf(r) \subseteq T)
    BY DEF DeepestOf
  <2>1. <<a, lev>> \in Content(r, TRUE) /\ <<a, lev>>[2] = lev
    BY <1>10, PairIs
  <2>2. lev <= Depth(r) /\ Depth(r) \in Nat
    BY <1>11, <2>1, DepthIs
  <2>3. lev < Depth(r)
    BY <1>11, <2>2
  <2> QED BY <1>11, <1>12, <2>1, <2>3, ArrayToCome
<1>15. Due' = {}
  BY <1>1, <1>2, NoDue
<1>16. SeenBy(T, answer', calls', Due', updateProcess', toalDishesNumber',
              lay_stackBak')
  BY <1>1, <1>12, <1>13, <1>14, <1>15 DEF SeenBy
<1>17. T \in SUBSET Nodes /\ answer' \in Answers
  BY <1>1, <1>11
<1> HIDE DEF T
<1>18. Seen(T)'
  BY <1>16, <1>17, SeenKept
<1> QED BY <1>17, <1>18 DEF T

LEMMA SeenVisitObject ==
  ASSUME WalkInv, answer \in Answers, NEW S \in SUBSET Nodes, Seen(S),
         NEW o \in Objects, VisitObject(o)
  PROVE  S \cup {o} \in SUBSET Nodes /\ Seen(S \cup {o})'
<1> DEFINE r == answer
           f == [Call EXCEPT !.todo = @ \ {o}]
           t == Append(Front(calls), f)
<1>1. /\ Walking /\ o \in Call.todo /\ calls' = Append(t, Frame(o, Call.lev))
      /\ pc' = pc
      /\ UNCHANGED <<answer, updateProcess, toalDishesNumber, lay_stackBak>>
  BY DEF VisitObject, Calling
<1>2. /\ pc["main"] = "walk" /\ calls \in Seq(Frames) /\ calls # <<>>
      /\ Call \in Frames /\ Call.lev \in Nat /\ Call.node \in Nodes
      /\ o \in Nodes /\ o \notin Arrays /\ updateProcess \in Nat /\ r \in Answers
  BY <1>1, CallFields, SeenWalking, WalkFacts, TreeAssumption DEF Walking, Nodes
<1>3. /\ Part(r, S) /\ Stack(calls, r, S) /\ RestOf(calls) = Frontier(S)
      /\ CountOf(S, r, updateProcess, toalDishesNumber)
      /\ DeepestOf(S, r, lay_stackBak)
      /\ Sound(Call, r, S) /\ Call.node \in NodesOf(r)
  BY <1>1, SeenWalking
<1>4. Call.node \in Objects /\ o \in Children(Call.node)
  BY <1>1, <1>2, <1>3 DEF Sound, Nodes
<1>5. /\ f \in Frames /\ f.node = Call.node /\ f.lev = Call.lev
      /\ f.todo = Call.todo \ {o}
  BY <1>2, CallType DEF Frames
<1> HIDE DEF f
<1>6. Rest(f) = Rest(Call) \ {o} /\ o \in Rest(Call)
  BY <1>1, <1>4, <1>5 DEF Rest
<1>7. Sound(f, r, S)
  BY <1>1, <1>3, <1>4, <1>5 DEF Sound
<1>8. /\ t \in Seq(Frames) /\ Stack(t, r, S) /\ RestOf(t) = Frontier(S) \ {o}
      /\ o \in Frontier(S)
  BY <1>2, <1>3, <1>5, <1>6, <1>7, CallGoesOn DEF Call
<1>9. r \in EvenAnswers => <<o, Call.lev>> \in Content(r, TRUE)
  <2> SUFFICES ASSUME r \in EvenAnswers PROVE <<o, Call.lev>> \in Content(r, TRUE)
    OBVIOUS
  <2>1. <<Call.node, Call.lev>> \in Content(r, TRUE)
    BY <1>1, <1>3 DEF Sound
  <2> QED BY <1>2, <1>4, <2>1, ChildLevel
<1> HIDE DEF t
<1> QED BY <1>1, <1>2, <1>3, <1>8, <1>9, SeenEnters

\* Going on to the next item.
LEMMA ItemGoesOn ==
  ASSUME WalkInv, AtItem, answer \in Answers, NEW S, Part(answer, S),
         Stack(calls, answer, S), Sound(Call, answer, S),
         Call.node \in NodesOf(answer)
  PROVE  LET t == Append(Front(calls), NextItem)
         IN  /\ t \in Seq(Frames) /\ Stack(t, answer, S)
             /\ RestOf(t) = RestOf(calls) \ {Item}
             /\ Item \in Nodes => Item \in RestOf(calls)
             /\ Item \in Nodes => Item \in Children(Call.node)
<1> DEFINE r == answer
           f == NextItem
           x == Item
<1>1. /\ calls \in Seq(Frames) /\ calls # <<>> /\ Call \in Frames
      /\ Call.node \in Arrays /\ Call.i < Len(Items[Call.node])
  BY CallFields DEF AtItem
<1>2. /\ f \in Frames /\ f.node = Call.node /\ f.i = Call.i + 1
      /\ f.lev = Call.lev
  BY NextItemFields
<1>3. f.todo = Call.todo
  BY <1>1 DEF NextItem, Frames
<1>4. Sound(f, r, S)
  BY <1>2, <1>3 DEF Sound
<1>5. Rest(f) = Rest(Call) \ {x} /\ (x \in Nodes => x \in Rest(Call))
  BY <1>1, <1>2, RestNext DEF Item
<1>6. x \in Nodes => x \in Children(Call.node)
  BY <1>1, <1>5, RestIn DEF Sound
<1> HIDE DEF f, x
<1>7. LET t == Append(Front(calls), f)
      IN  /\ t \in Seq(Frames) /\ Stack(t, r, S)
          /\ RestOf(t) = RestOf(calls) \ {x}
          /\ x \in Nodes => x \in RestOf(calls)
  BY <1>1, <1>2, <1>4, <1>5, CallGoesOn DEF Call
<1> QED BY <1>6, <1>7 DEF f, x

LEMMA SeenSkipItem ==
  ASSUME WalkInv, answer \in Answers, NEW S \in SUBSET Nodes, Seen(S), SkipItem
  PROVE  Seen(S)'
<1>1. /\ AtItem /\ Walking /\ Item = Scalar
      /\ calls' = Append(Front(calls), NextItem) /\ pc' = pc
      /\ UNCHANGED <<answer, updateProcess, toalDishesNumber, lay_stackBak>>
  BY DEF SkipItem, AtItem
<1>2. pc["main"] = "walk" /\ answer \in Answers
  BY <1>1, SeenWalking
<1>3. /\ Part(answer, S) /\ Stack(calls, answer, S)
      /\ RestOf(calls) = Frontier(S) /\ Sound(Call, answer, S)
      /\ CountOf(S, answer, updateProcess, toalDishesNumber)
      /\ DeepestOf(S, answer, lay_stackBak) /\ Call.node \in NodesOf(answer)
  BY <1>1, SeenWalking
<1>4. /\ calls \in Seq(Frames) /\ Scalar \notin Nodes
  BY CallFields, <1>1, TreeAssumption
<1>5. Scalar \notin RestOf(calls)
  BY <1>3, <1>4, StackNodes, RestIs
<1>6. Stack(calls', answer, S) /\ RestOf(calls') = Frontier(S)
  BY <1>1, <1>2, <1>3, <1>5, ItemGoesOn
<1>7. Due' = {}
  BY <1>1, <1>2, NoDue
<1>8. SeenBy(S, answer', calls', Due', updateProcess', toalDishesNumber',
             lay_stackBak')
  BY <1>1, <1>3, <1>6, <1>7 DEF SeenBy
<1> QED BY <1>1, <1>2, <1>8, SeenKept

LEMMA SeenItemArray ==
  ASSUME WalkInv, answer \in Answers, NEW S \in SUBSET Nodes, Seen(S),
         ItemArray, NEW n, n = Item
  PROVE  S \cup {n} \in SUBSET Nodes /\ Seen(S \cup {n})'
<1> DEFINE t == Append(Front(calls), NextItem)
<1>1. /\ AtItem /\ Walking /\ n \in Arrays /\ n \in Nodes /\ Call.node \in Arrays
      /\ calls' = Append(t, Frame(n, Call.lev)) /\ pc' = pc
      /\ UNCHANGED <<answer, updateProcess, toalDishesNumber, lay_stackBak>>
  BY DEF ItemArray, AtItem, Calling, Nodes
<1>2. pc["main"] = "walk" /\ answer \in Answers /\ Call.lev \in Nat
      /\ updateProcess \in Nat
  BY <1>1, SeenWalking, CallFields, WalkFacts
<1>3. /\ Part(answer, S) /\ Stack(calls, answer, S)
      /\ RestOf(calls) = Frontier(S) /\ Sound(Call, answer, S)
      /\ CountOf(S, answer, updateProcess, toalDishesNumber)
      /\ DeepestOf(S, answer, lay_stackBak) /\ Call.node \in NodesOf(answer)
  BY <1>1, SeenWalking
<1>4. /\ t \in Seq(Frames) /\ Stack(t, answer, S)
      /\ RestOf(t) = Frontier(S) \ {n} /\ n \in Frontier(S)
      /\ n \in Children(Call.node)
  BY <1>1, <1>2, <1>3, ItemGoesOn
<1>5. answer \notin EvenAnswers
  BY <1>1, <1>3, <1>4, EvenIs
<1> HIDE DEF t
<1> QED BY <1>1, <1>2, <1>3, <1>4, <1>5, SeenEnters

LEMMA SeenItemObject ==
  ASSUME WalkInv, answer \in Answers, NEW S \in SUBSET Nodes, Seen(S), ItemObject
  PROVE  Seen(S)'
<1>1. /\ AtItem /\ Walking /\ Item \in Nodes /\ GoTo("main", "row")
      /\ calls' = Append(Front(calls), NextItem)
      /\ UNCHANGED <<answer, updateProcess, toalDishesNumber, lay_stackBak>>
  BY DEF ItemObject, AtItem, Nodes
<1>2. pc["main"] = "walk" /\ answer \in Answers
  BY <1>1, SeenWalking
<1>3. /\ Part(answer, S) /\ Stack(calls, answer, S)
      /\ RestOf(calls) = Frontier(S) /\ Sound(Call, answer, S)
      /\ CountOf(S, answer, updateProcess, toalDishesNumber)
      /\ DeepestOf(S, answer, lay_stackBak) /\ Call.node \in NodesOf(answer)
  BY <1>1, SeenWalking
<1>4. /\ Stack(calls', answer, S)
      /\ RestOf(calls') = Frontier(S) \ {Item} /\ Item \in Frontier(S)
  BY <1>1, <1>2, <1>3, ItemGoesOn
<1>5. Due' = {Item}
  <2>1. /\ NextItem \in Frames /\ NextItem.node = Call.node
        /\ NextItem.i = Call.i + 1
    BY <1>1, NextItemFields
  <2>2. Front(calls) \in Seq(Frames)
    BY <1>1, CallFields, FrontLast
  <2>3. Call' = NextItem
    BY <1>1, <2>1, <2>2, Appended DEF Call
  <2>4. Entered' = Item
    BY <2>1, <2>3 DEF Entered, Item
  <2>5. pc'["main"] = "row"
    BY <1>1 DEF GoTo, WalkInv, TypeOK, Threads
  <2> QED BY <2>4, <2>5 DEF Due, At
<1>6. SeenBy(S, answer', calls', Due', updateProcess', toalDishesNumber',
             lay_stackBak')
  BY <1>1, <1>3, <1>4, <1>5 DEF SeenBy
<1> QED BY <1>1, <1>2, <1>6, SeenKept

LEMMA SeenInsertRow ==
  ASSUME WalkInv, answer \in Answers, NEW S \in SUBSET Nodes, Seen(S),
         InsertRow, NEW n, n = Entered
  PROVE  S \cup {n} \in SUBSET Nodes /\ Seen(S \cup {n})'
<1>1. /\ At("main", "row") /\ GoTo("main", "walk")
      /\ calls' = Append(calls, Frame(n, Call.lev))
      /\ UNCHANGED <<answer, updateProcess, toalDishesNumber, lay_stackBak>>
  BY DEF InsertRow
<1>2. /\ calls \in Seq(Frames) /\ calls # <<>> /\ Call \in Frames
      /\ n \in Objects /\ n \in Nodes /\ n \notin Arrays /\ Call.lev \in Nat
      /\ updateProcess \in Nat /\ Call.node \in Arrays
      /\ Call.i \in DOMAIN Items[Call.node]
  BY <1>1, RowType, WalkFacts, TreeAssumption DEF WalkInv, RowInv, Nodes
<1>3. Due = {n} /\ pc'["main"] = "walk"
  BY <1>1 DEF Due, At, GoTo, WalkInv, TypeOK, Threads
<1>4. SeenBy(S, answer, calls, {n}, updateProcess, toalDishesNumber, lay_stackBak)
  BY <1>3, SeenWalk
<1>6. /\ Part(answer, S) /\ Stack(calls, answer, S)
      /\ RestOf(calls) = Frontier(S) \ {n} /\ n \in Frontier(S)
      /\ CountOf(S, answer, updateProcess, toalDishesNumber)
      /\ DeepestOf(S, answer, lay_stackBak)
  BY <1>4 DEF SeenBy
<1>7. answer \in EvenAnswers => <<n, Call.lev>> \in Content(answer, TRUE)
  <2> SUFFICES ASSUME answer \in EvenAnswers
               PROVE  <<n, Call.lev>> \in Content(answer, TRUE)
    OBVIOUS
  <2>1. <<Call.node, Call.lev>> \in Content(answer, TRUE)
    BY <1>2, <1>6, LastSound DEF Call, Sound
  <2>2. n \in Children(Call.node)
    BY <1>2, TreeAssumption DEF Children, Entered, Range
  <2> QED BY <1>2, <1>4, <2>1, <2>2, ChildLevel
<1> QED BY <1>1, <1>2, <1>3, <1>4, <1>6, <1>7, SeenEnters

LEMMA SeenReturn ==
  ASSUME WalkInv, answer \in Answers, NEW S \in SUBSET Nodes, Seen(S), Return
  PROVE  Seen(S)'
<1>1. /\ Walking /\ calls' = Front(calls) /\ Call.todo = {} /\ pc' = pc
      /\ Call.node \in Arrays => Call.i = Len(Items[Call.node])
      /\ UNCHANGED <<answer, updateProcess, toalDishesNumber, lay_stackBak>>
  BY DEF Return
<1>2. /\ pc["main"] = "walk" /\ answer \in Answers /\ calls \in Seq(Frames)
      /\ calls # <<>> /\ Call \in Frames /\ Call.node \in Nodes
      /\ Call.i \in Nat
  BY <1>1, SeenWalking, CallFields
<1>3. /\ Part(answer, S) /\ Stack(calls, answer, S)
      /\ RestOf(calls) = Frontier(S)
      /\ CountOf(S, answer, updateProcess, toalDishesNumber)
      /\ DeepestOf(S, answer, lay_stackBak)
  BY <1>1, SeenWalking
<1>4. Rest(Call) = {}
  <2>1. CASE Call.node \in Objects
    BY <1>1, <2>1 DEF Rest
  <2>2. CASE Call.node \notin Objects
    <3>1. Call.i = Len(Items[Call.node])
      BY <1>1, <1>2, <2>2 DEF Nodes
    <3>2. (Call.i + 1)..Len(Items[Call.node]) = {}
      BY <1>2, <3>1
    <3> QED BY <2>2, <3>2 DEF Rest
  <2> QED BY <2>1, <2>2
<1> DEFINE o == Front(calls)
<1>5. o \in Seq(Frames) /\ calls = Append(o, Call)
  BY <1>2, FrontLast, Split DEF Call
<1> HIDE DEF o
<1>6. RestOf(o) = RestOf(calls) /\ Stack(o, answer, S)
  BY <1>2, <1>3, <1>4, <1>5, RestAppended, StackAppended
<1>7. Due' = {} /\ calls' = o
  BY <1>1, <1>2, NoDue DEF o
<1>8. SeenBy(S, answer', calls', Due', updateProcess', toalDishesNumber',
             lay_stackBak')
  BY <1>1, <1>3, <1>6, <1>7 DEF SeenBy
<1> QED BY <1>1, <1>2, <1>8, SeenKept

LEMMA SeenAnswered ==
  ASSUME WalkInv, Answered
  PROVE  \E r \in Answers : answer' = r /\ {r} \in SUBSET Nodes /\ Seen({r})'
<1>1. PICK r \in Answers :
        /\ answer' = r /\ calls' = <<Frame(r, 0)>>
        /\ toalDishesNumber' = Cardinality(DishArrays \cap NodesOf(r))
        /\ updateProcess' = 0 /\ lay_stackBak' = lay_stackBak
        /\ GoTo("main", "walk")
  BY DEF Answered
<1> DEFINE S == {r}
           f == Frame(r, 0)
<1>2. r \in Nodes /\ r \in Objects /\ r \notin Arrays
  BY OneAround
<1>3. Part(r, S) /\ Frontier(S) = Children(r)
  BY PartBegins
<1>4. /\ f \in Frames /\ f.node = r /\ f.lev = 0 /\ Rest(f) = Children(r)
      /\ f.todo \subseteq Children(r)
  BY <1>2, FrameFields, RestNew
<1> HIDE DEF f
<1>5. /\ <<>> \in Seq(Frames) /\ <<f>> = Append(<<>>, f)
      /\ DOMAIN <<>> = {}
  BY <1>4, EmptySeq
<1>6. Sound(f, r, S)
  BY <1>2, <1>4, OneLevel DEF Sound
<1>7. RestOf(<<>>) = {} /\ Stack(<<>>, r, S)
  BY <1>5 DEF RestOf, Stack
<1>8. Stack(<<f>>, r, S) /\ RestOf(<<f>>) = Frontier(S)
  <2> DEFINE e == <<>>
  <2>1. e \in Seq(Frames) /\ <<f>> = Append(e, f) /\ DOMAIN e = {}
        /\ RestOf(e) = {} /\ Stack(e, r, S)
    BY <1>5, <1>7
  <2> HIDE DEF e
  <2>2. RestOf(Append(e, f)) = Frontier(S)
    BY <1>3, <1>4, <2>1, RestAppended
  <2>3. Stack(Append(e, f), r, S)
    BY <1>4, <1>6, <2>1, StackAppended
  <2> QED BY <2>1, <2>2, <2>3
<1>9. CountOf(S, r, 0, toalDishesNumber')
  <2>1. IsFiniteSet(DishArrays \cap S)
    BY FS_Singleton, FS_Subset
  <2>2. 0 <= Cardinality(DishArrays \cap S)
    BY <2>1, FS_CardinalityType
  <2> QED BY <1>1, <2>2 DEF CountOf
<1>10. DeepestOf(S, r, lay_stackBak)
  <2> SUFFICES ASSUME r \in EvenAnswers
               PROVE  ~(Arrays \cap NodesOf(r) \subseteq S)
    BY DEF DeepestOf
  <2>1. <<r, 0>> \in Content(r, TRUE) /\ Depth(r) > 0
    BY OneLevel, EvenIs
  <2>2. Depth(r) \in Nat
    BY DepthIs
  <2>3. 0 < Depth(r) /\ Children(r) \cap S = {}
    BY <2>1, <2>2, PartBegins
  <2> QED BY <1>3, <2>1, <2>3, ArrayToCome
<1>11. Due' = {} /\ calls' = <<f>>
  <2>1. pc'["main"] = "walk"
    BY <1>1 DEF GoTo, WalkInv, TypeOK, Threads
  <2> QED BY <1>1, <2>1, NoDue DEF f
<1> HIDE DEF S
<1>12. SeenBy(S, answer', calls', Due', updateProcess', toalDishesNumber',
              lay_stackBak')
  BY <1>1, <1>3, <1>8, <1>9, <1>10, <1>11 DEF SeenBy
<1>13. S \in SUBSET Nodes /\ answer' \in Answers
  BY <1>1, <1>2 DEF S
<1>14. Seen(S)'
  BY <1>12, <1>13, SeenKept
<1> QED BY <1>1, <1>13, <1>14 DEF S

\* A step that leaves the walk alone.
LEMMA SeenRests ==
  ASSUME answer \in Answers, NEW S \in SUBSET Nodes, Seen(S),
         UNCHANGED walkVars, pc'["main"] = pc["main"]
  PROVE  Seen(S)'
<1>1. SeenBy(S, answer, calls, Due, updateProcess, toalDishesNumber, lay_stackBak)
  BY SeenWalk
<1>2. Due' = Due
  BY DEF Due, At, Entered, Call, walkVars
<1>3. SeenBy(S, answer', calls', Due', updateProcess', toalDishesNumber',
             lay_stackBak')
  BY <1>1, <1>2 DEF walkVars
<1> QED BY <1>3, SeenKept DEF walkVars

\* The steps that leave the walk alone or have none.
LEMMA SeenElsewhere ==
  ASSUME WalkInv, SeenInv,
         \/ BeginFetch \/ FetchFails \/ FinishFetch \/ UNCHANGED vars
         \/ BeginUnbind \/ RemoveMenus
         \/ \E t \in Threads : MakeDirectory(t) \/ MakeMainTable(t)
  PROVE  SeenInv'
<1>1. pc \in [Threads -> Places]
  BY DEF WalkInv, TypeOK
<1>2. \/ pc'["main"] \notin {"walk", "row"}
      \/ pc'["main"] = pc["main"] /\ UNCHANGED walkVars
  BY <1>1 DEF BeginFetch, FetchFails, FinishFetch, vars, BeginUnbind, RemoveMenus,
              MakeDirectory, MakeMainTable, GoTo, Threads
<1>3. CASE pc'["main"] \notin {"walk", "row"}
  BY <1>3 DEF SeenInv
<1>4. CASE /\ pc["main"] \in {"walk", "row"} /\ pc'["main"] = pc["main"]
           /\ UNCHANGED walkVars
  <2>1. answer \in Answers /\ \E S \in SUBSET Nodes : Seen(S)
    BY <1>4 DEF SeenInv
  <2>2. PICK S \in SUBSET Nodes : Seen(S)
    BY <2>1
  <2>3. Seen(S)' /\ answer' \in Answers
    BY <1>4, <2>1, <2>2, SeenRests DEF walkVars
  <2> QED BY <2>3 DEF SeenInv
<1> QED BY <1>2, <1>3, <1>4

LEMMA SeenNext ==
  ASSUME WalkInv, SeenInv, [Next]_vars
  PROVE  SeenInv'
<1>1. CASE \/ BeginFetch \/ FetchFails \/ FinishFetch \/ UNCHANGED vars
           \/ BeginUnbind \/ RemoveMenus
           \/ \E t \in Threads : MakeDirectory(t) \/ MakeMainTable(t)
  BY <1>1, SeenElsewhere
<1>2. CASE Answered
  <2>1. PICK r \in Answers : answer' = r /\ {r} \in SUBSET Nodes /\ Seen({r})'
    BY <1>2, SeenAnswered
  <2> QED BY <2>1 DEF SeenInv
<1>3. CASE \/ \E a \in Arrays : VisitArray(a)
           \/ \E o \in Objects : VisitObject(o)
           \/ SkipItem \/ ItemArray \/ ItemObject \/ InsertRow \/ Return
  <2>1. pc["main"] \in {"walk", "row"} /\ answer' = answer
    BY <1>3 DEF VisitArray, VisitObject, SkipItem, ItemArray, ItemObject, InsertRow,
                Return, AtItem, Walking, At
  <2>2. answer \in Answers /\ \E S \in SUBSET Nodes : Seen(S)
    BY <2>1 DEF SeenInv
  <2>3. PICK S \in SUBSET Nodes : Seen(S)
    BY <2>2
  <2> SUFFICES \E T \in SUBSET Nodes : Seen(T)'
    BY <2>1, <2>2 DEF SeenInv
  <2>4. CASE \E a \in Arrays : VisitArray(a)
    BY <2>2, <2>3, <2>4, SeenVisitArray
  <2>5. CASE \E o \in Objects : VisitObject(o)
    BY <2>2, <2>3, <2>5, SeenVisitObject
  <2>6. CASE SkipItem \/ ItemObject \/ Return
    BY <2>2, <2>3, <2>6, SeenSkipItem, SeenItemObject, SeenReturn
  <2>7. CASE ItemArray
    BY <2>2, <2>3, <2>7, SeenItemArray
  <2>8. CASE InsertRow
    BY <2>2, <2>3, <2>8, SeenInsertRow
  <2> QED BY <1>3, <2>4, <2>5, <2>6, <2>7, <2>8
<1> QED BY <1>1, <1>2, <1>3 DEF Next, MainStep, UnbindStep, Threads

-----------------------------------------------------------------------------
(* Where a walk ends                                                       *)

LEMMA WalkedWhole ==
  ASSUME FinishFetch, answer \in Answers, NEW S \in SUBSET Nodes, Seen(S)
  PROVE  S = NodesOf(answer) /\ DeepestOf(S, answer, lay_stackBak)
<1>1. pc["main"] = "walk" /\ calls = <<>>
  BY DEF FinishFetch, At
<1>2. SeenBy(S, answer, calls, {}, updateProcess, toalDishesNumber, lay_stackBak)
  BY <1>1, SeenWalk, NoDue
<1>3. /\ Part(answer, S) /\ DeepestOf(S, answer, lay_stackBak)
      /\ RestOf(calls) = Frontier(S)
  BY <1>2 DEF SeenBy
<1>4. RestOf(calls) = {}
  BY <1>1, RestIs
<1>5. NodesOf(answer) \subseteq S
  BY <1>3, <1>4, PartEnds
<1> QED BY <1>3, <1>5 DEF Part

LEMMA LevelNext ==
  ASSUME SeenInv, LevelIsDepth, [Next]_vars
  PROVE  LevelIsDepth'
<1>1. EvenAnswers \subseteq Answers /\ NoAnswer \notin EvenAnswers
  BY TreeAssumption DEF EvenAnswers, RegularAnswers
<1>2. CASE FinishFetch
  <2>1. pc["main"] = "walk"
    BY <1>2 DEF FinishFetch, At
  <2>2. answer \in Answers /\ \E S \in SUBSET Nodes : Seen(S)
    BY <2>1 DEF SeenInv
  <2>3. answer \in EvenAnswers => lay_stackBak = Depth(answer)
    BY <1>2, <2>2, WalkedWhole DEF DeepestOf
  <2> QED BY <1>1, <1>2, <2>3 DEF FinishFetch, LevelIsDepth
<1>3. \/ FinishFetch
      \/ served' = NoAnswer
      \/ served' = served /\ levelDb' = levelDb
  BY DEF Next, MainStep, UnbindStep, BeginFetch, MakeDirectory, MakeMainTable,
         Answered, FetchFails, VisitArray, VisitObject, SkipItem, ItemArray,
         ItemObject, InsertRow, Return, BeginUnbind, RemoveMenus, vars
<1> QED BY <1>1, <1>2, <1>3 DEF LevelIsDepth

LEMMA AtMostHundred ==
  ASSUME NEW u \in Nat, NEW t \in Nat \ {0}, u <= t
  PROVE  (u * 100) \div t <= 100
<1>1. \A a \in Nat : a <= t * 100 => a \div t <= 100
  BY SMTT(30)
<1>2. u * 100 <= t * 100 /\ u * 100 \in Nat
  OBVIOUS
<1> QED BY <1>1, <1>2

LEMMA CountBounds ==
  ASSUME WalkInv, SeenInv, At("main", "walk")
  PROVE  updateProcess <= toalDishesNumber /\ toalDishesNumber \in Nat
<1>0. answer \in Answers /\ \E S \in SUBSET Nodes : Seen(S)
  BY DEF SeenInv, At
<1>1. PICK S \in SUBSET Nodes :
        SeenBy(S, answer, calls, Due, updateProcess, toalDishesNumber, lay_stackBak)
  BY <1>0, SeenWalk
<1> DEFINE A == DishArrays \cap S
           B == DishArrays \cap NodesOf(answer)
<1>2. /\ A \subseteq B /\ updateProcess <= Cardinality(A)
      /\ toalDishesNumber = Cardinality(B)
  BY <1>1 DEF SeenBy, CountOf, Part
<1>3. IsFiniteSet(B)
  <2>1. answer \in Nodes /\ NodesOf(answer) \subseteq Nodes
    BY <1>0, OneAround, NodesClosed
  <2> QED BY <2>1, TreeAssumption, FS_Subset
<1> HIDE DEF A, B
<1>4. /\ Cardinality(A) <= Cardinality(B)
      /\ Cardinality(A) \in Nat /\ Cardinality(B) \in Nat
  BY <1>2, <1>3, FS_Subset, FS_CardinalityType
<1>5. updateProcess \in Nat
  BY WalkFacts
<1> QED BY <1>2, <1>4, <1>5

-----------------------------------------------------------------------------
(* Theorems                                                                *)

(* What a walk has seen of a JSON text and what its calls have still to    *)
(* walk make up the text, at every step: nothing is left out and nothing   *)
(* is walked twice (httpclient.go, jsonObjectParse and jsonArrayParse).    *)
THEOREM SeenInvariant == Spec => []SeenInv
<1>1. Init => SeenInv
  BY DEF Init, SeenInv, Threads
<1>2. WalkInv /\ SeenInv /\ [Next]_vars => SeenInv'
  BY SeenNext
<1> QED BY <1>1, <1>2, WalkIsWhole, PTL DEF Spec

(* Whatever was fetched before and however a fetch before has ended, Qt is *)
(* told of at most 100 percent (httpclient.go, updateProcess).             *)
THEOREM ProgressCorrect == Spec => []ProgressBounded
<1>1. WalkInv /\ SeenInv => ProgressBounded
  <2> SUFFICES ASSUME WalkInv, SeenInv, At("main", "walk"), toalDishesNumber > 0
               PROVE  (updateProcess * 100) \div toalDishesNumber <= 100
    BY DEF ProgressBounded
  <2>1. /\ updateProcess \in Nat /\ toalDishesNumber \in Nat \ {0}
        /\ updateProcess <= toalDishesNumber
    BY WalkFacts, CountBounds
  <2> QED BY <2>1, AtMostHundred
<1> QED BY <1>1, WalkIsWhole, SeenInvariant, PTL

(* The number of levels kept for Qt is that of the menu, for every menu    *)
(* whose dishes are equally deep, in whatever order the maps are walked    *)
(* (httpclient.go, lay_stackBak).                                          *)
THEOREM LevelCorrect == Spec => []LevelIsDepth
<1>1. Init => LevelIsDepth
  BY TreeAssumption DEF Init, LevelIsDepth, EvenAnswers, RegularAnswers
<1>2. SeenInv /\ LevelIsDepth /\ [Next]_vars => LevelIsDepth'
  BY LevelNext
<1> QED BY <1>1, <1>2, SeenInvariant, PTL DEF Spec

=============================================================================
