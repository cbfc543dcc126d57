--------------------------- MODULE MenuPageProofs ---------------------------
(* The tables that MenuTree's walk makes and fills, page by page of what   *)
(* it has seen: DishesReached, for any JSON texts.  The pages are a        *)
(* function of the nodes seen: an item is on the page of its array made    *)
(* longer by its number, what is inside an item is on the page of the      *)
(* item, and only one node at the end of that way owns the page.  So a row *)
(* tells its item, and Qt reaches the page of an array just when Content   *)
(* keeps the array, which is shown in both directions by sets closed under *)
(* what is inside a node.                                                  *)
EXTENDS MenuWalkProofs

-----------------------------------------------------------------------------
(* Names of tables                                                         *)

LEMMA AppendedOnce ==
  ASSUME NEW s \in Seq(Nat), NEW t \in Seq(Nat), NEW i \in Nat, NEW j \in Nat,
         Append(s, i) = Append(t, j)
  PROVE  s = t /\ i = j
<1>1. Front(Append(s, i)) = s /\ Last(Append(s, i)) = i
  BY Appended
<1>2. Front(Append(t, j)) = t /\ Last(Append(t, j)) = j
  BY Appended
<1> QED BY <1>1, <1>2

LEMMA CutAppended ==
  ASSUME NEW s \in Seq(Nat), NEW e \in Nat, NEW n \in 0..Len(s)
  PROVE  SubSeq(Append(s, e), 1, n) = SubSeq(s, 1, n)
<1> DEFINE t == Append(s, e)
<1>1. /\ t \in Seq(Nat) /\ Len(t) = Len(s) + 1 /\ Len(s) \in Nat
      /\ \A k \in 1..Len(s) : t[k] = s[k]
  BY Appended, LenProperties
<1> HIDE DEF t
<1>2. n \in 0..Len(t)
  BY <1>1
<1>3. /\ SubSeq(t, 1, n) \in Seq(Nat) /\ Len(SubSeq(t, 1, n)) = n
      /\ \A k \in 1..n : SubSeq(t, 1, n)[k] = t[k]
  BY <1>1, <1>2, Prefix
<1>4. /\ SubSeq(s, 1, n) \in Seq(Nat) /\ Len(SubSeq(s, 1, n)) = n
      /\ \A k \in 1..n : SubSeq(s, 1, n)[k] = s[k]
  BY Prefix
<1>5. \A k \in 1..n : k \in 1..Len(s)
  BY <1>1
<1>6. SubSeq(t, 1, n) = SubSeq(s, 1, n)
  BY <1>1, <1>3, <1>4, <1>5, SeqEqual
<1> QED BY <1>6 DEF t

LEMMA CutTwice ==
  ASSUME NEW s \in Seq(Nat), NEW m \in 0..Len(s), NEW n \in 0..m
  PROVE  SubSeq(SubSeq(s, 1, m), 1, n) = SubSeq(s, 1, n)
<1> DEFINE t == SubSeq(s, 1, m)
<1>1. t \in Seq(Nat) /\ Len(t) = m /\ \A k \in 1..m : t[k] = s[k]
  BY Prefix
<1> HIDE DEF t
<1>2. n \in 0..Len(t) /\ n \in 0..Len(s) /\ \A k \in 1..n : k \in 1..m
  BY <1>1, LenProperties
<1>3. /\ SubSeq(t, 1, n) \in Seq(Nat) /\ Len(SubSeq(t, 1, n)) = n
      /\ \A k \in 1..n : SubSeq(t, 1, n)[k] = t[k]
  BY <1>1, <1>2, Prefix
<1>4. /\ SubSeq(s, 1, n) \in Seq(Nat) /\ Len(SubSeq(s, 1, n)) = n
      /\ \A k \in 1..n : SubSeq(s, 1, n)[k] = s[k]
  BY <1>2, Prefix
<1>5. SubSeq(t, 1, n) = SubSeq(s, 1, n)
  BY <1>1, <1>2, <1>3, <1>4, SeqEqual
<1> QED BY <1>5 DEF t

LEMMA CutWhole ==
  ASSUME NEW s \in Seq(Nat)
  PROVE  SubSeq(s, 1, Len(s)) = s
<1>1. Len(s) \in Nat /\ Len(s) \in 0..Len(s)
  BY LenProperties
<1>2. /\ SubSeq(s, 1, Len(s)) \in Seq(Nat) /\ Len(SubSeq(s, 1, Len(s))) = Len(s)
      /\ \A k \in 1..Len(s) : SubSeq(s, 1, Len(s))[k] = s[k]
  BY <1>1, Prefix
<1> QED BY <1>2, SeqEqual

LEMMA CutEmpty ==
  ASSUME NEW s \in Seq(Nat)
  PROVE  SubSeq(s, 1, 0) = <<>>
<1>1. 0 \in 0..Len(s)
  BY LenProperties
<1>2. SubSeq(s, 1, 0) \in Seq(Nat) /\ Len(SubSeq(s, 1, 0)) = 0
  BY <1>1, Prefix
<1> QED BY <1>2, EmptySeq

\* Qt gets to a page by a row of the page before.
LEMMA LinkedOn ==
  ASSUME NEW T \in Seq(Nat), NEW j \in Nat
  PROVE  Linked(Append(T, j)) <=>
           /\ Linked(T) /\ T \in DOMAIN db
           /\ \E i \in DOMAIN db[T] : db[T][i].next = Append(T, j)
<1> DEFINE U == Append(T, j)
           On(V, n) == LET P == SubSeq(V, 1, n - 1)
                       IN  /\ P \in DOMAIN db
                           /\ \E i \in DOMAIN db[P] : db[P][i].next = SubSeq(V, 1, n)
           c == Len(T)
<1>1. /\ U \in Seq(Nat) /\ Len(U) = c + 1 /\ c \in Nat
      /\ \A n \in 0..c : SubSeq(U, 1, n) = SubSeq(T, 1, n)
      /\ SubSeq(U, 1, c + 1) = U /\ SubSeq(T, 1, c) = T
  <2>1. U \in Seq(Nat) /\ Len(U) = c + 1 /\ c \in Nat
    BY Appended, LenProperties
  <2>2. \A n \in 0..c : SubSeq(U, 1, n) = SubSeq(T, 1, n)
    BY CutAppended
  <2> HIDE DEF U
  <2>3. SubSeq(U, 1, Len(U)) = U /\ SubSeq(T, 1, c) = T
    BY <2>1, CutWhole
  <2> QED BY <2>1, <2>2, <2>3
<1> HIDE DEF U, c
<1>2. /\ \A n \in 1..(c + 1) : n = c + 1 \/ n \in 1..c
      /\ \A n \in 1..c : n \in 1..(c + 1) /\ n \in 0..c /\ n - 1 \in 0..c
      /\ c + 1 \in 1..(c + 1) /\ (c + 1) - 1 = c /\ c \in 0..c
  BY <1>1
<1>3. \A n \in 1..c : On(U, n) <=> On(T, n)
  BY <1>1, <1>2
<1>4. On(U, c + 1) <=> T \in DOMAIN db /\ \E i \in DOMAIN db[T] : db[T][i].next = U
  BY <1>1, <1>2
<1>5. (Linked(U) <=> \A n \in 1..(c + 1) : On(U, n)) /\ (Linked(T) <=> \A n \in 1..c : On(T, n))
  BY <1>1 DEF Linked, c
<1> HIDE DEF On
<1>6. Linked(U) <=> (\A n \in 1..c : On(U, n)) /\ On(U, c + 1)
  BY <1>2, <1>5
<1> QED BY <1>3, <1>4, <1>5, <1>6 DEF U

LEMMA LinkedFirst == Linked(<<>>)
BY DEF Linked

-----------------------------------------------------------------------------
(* Regular answers                                                         *)

LEMMA RegularIs ==
  ASSUME NEW r \in RegularAnswers
  PROVE  /\ r \in Answers
         /\ \A o \in NodesOf(r) \cap Objects : \A x, y \in Members[o] : x = y
         /\ \A o \in NodesOf(r) \cap Objects : Dish[o] # NoDish => Members[o] = {}
         /\ \A a \in NodesOf(r) \cap Arrays : Range(Items[a]) \cap Arrays = {}
         /\ \A a \in NodesOf(r) \cap Arrays :
              \A o, q \in Range(Items[a]) \cap Objects :
                Dish[o] = NoDish <=> Dish[q] = NoDish
<1>1. r \in Answers /\ Regular(r)
  BY DEF RegularAnswers
<1>2. Whole[r] = Content(r, TRUE)
  BY <1>1, WholeIs
<1>3. /\ \A o \in NodesOf(r) \cap Objects :
           Cardinality(Members[o]) <= 1 /\ (Dish[o] # NoDish => Members[o] = {})
      /\ \A a \in NodesOf(r) \cap Arrays :
           /\ Range(Items[a]) \cap Arrays = {}
           /\ \A o, q \in Range(Items[a]) \cap Objects :
                Dish[o] = NoDish <=> Dish[q] = NoDish
  BY <1>1, <1>2 DEF Regular, NodesOf
<1>4. ASSUME NEW o \in NodesOf(r) \cap Objects, NEW x \in Members[o], NEW y \in Members[o]
      PROVE  x = y
  <2>1. IsFiniteSet(Members[o])
    <3>1. Members[o] \subseteq Nodes
      BY TreeAssumption
    <3> QED BY <3>1, TreeAssumption, FS_Subset
  <2>2. Cardinality(Members[o]) \in Nat /\ Cardinality(Members[o]) # 0
    BY <2>1, FS_CardinalityType, FS_EmptySet
  <2>3. Cardinality(Members[o]) = 1
    BY <1>3, <2>2
  <2>4. PICK m : Members[o] = {m}
    BY <2>1, <2>3, FS_Singleton
  <2> QED BY <2>4
<1> QED BY <1>1, <1>3, <1>4

\* The children of a node of a regular answer.
LEMMA ChildrenAre ==
  /\ \A o \in Objects : o \in Nodes /\ o \notin Arrays /\ Children(o) = Members[o]
  /\ \A a \in Arrays : /\ a \in Nodes /\ a \notin Objects
                       /\ Children(a) = Nodes \cap Range(Items[a])
                       /\ DOMAIN Items[a] \subseteq Nat
                       /\ \A j \in DOMAIN Items[a] : Items[a][j] \in Range(Items[a])
                       /\ \A x \in Range(Items[a]) :
                            \E j \in DOMAIN Items[a] : x = Items[a][j]
<1>1. Objects \cap Arrays = {} /\ Objects \cup Arrays = Nodes
  BY TreeAssumption DEF Nodes
<1>2. \A a \in Arrays : DOMAIN Items[a] = 1..Len(Items[a])
  BY TreeAssumption, LenProperties
<1> QED BY <1>1, <1>2 DEF Children, Range

-----------------------------------------------------------------------------
(* The pages of what was seen                                              *)

\* The pages q are those of page and one more, P of the node m.
Extends(q, page, S, m, P) ==
  /\ q \in [S \cup {m} -> Seq(Nat)] /\ q[m] = P
  /\ \A x \in S : q[x] = page[x]

LEMMA ExtensionExists ==
  ASSUME NEW S, NEW page \in [S -> Seq(Nat)], NEW m, m \notin S, NEW P \in Seq(Nat)
  PROVE  \E q \in [S \cup {m} -> Seq(Nat)] : Extends(q, page, S, m, P)
<1> DEFINE q == [x \in S \cup {m} |-> IF x = m THEN P ELSE page[x]]
<1>1. q \in [S \cup {m} -> Seq(Nat)] /\ q[m] = P /\ \A x \in S : q[x] = page[x]
  OBVIOUS
<1> QED BY <1>1 DEF Extends

LEMMA EndsAre ==
  ASSUME NEW S
  PROVE  \A n : n \in Ends(S) <=> n \in S /\ (n \in Arrays \/ Members[n] \cap S = {})
BY DEF Ends

\* What is around a node that was just seen.
LEMMA JustSeen ==
  ASSUME NEW r \in Answers, NEW S \in SUBSET Nodes, Part(r, S),
         NEW n \in S, NEW m \in Children(n), m \notin S
  PROVE  /\ r \in S /\ m \in Nodes /\ m \in NodesOf(r) /\ S \subseteq NodesOf(r)
         /\ \A x \in Children(m) : x \notin S /\ x # m
         /\ \A x \in S : m \in Children(x) => x = n
<1>1. m \in Frontier(S)
  BY FrontierIs
<1>2. /\ m \in NodesOf(r) \ S /\ Part(r, S \cup {m})
      /\ Children(m) \cap (S \cup {m}) = {}
  BY <1>1, PartGrows
<1>3. S \subseteq NodesOf(r) /\ r \in S /\ NodesOf(r) \subseteq Nodes
  BY <1>2, OneAround, NodesClosed DEF Part
<1> QED BY <1>2, <1>3, OneAround

LEMMA PlacedMember ==
  ASSUME NEW r \in RegularAnswers, NEW S \in SUBSET Nodes, Part(r, S),
         NEW page \in [S -> Seq(Nat)], Placed(r, S, page),
         NEW n \in S \cap Objects, NEW m \in Members[n], m \notin S,
         NEW q, Extends(q, page, S, m, page[n])
  PROVE  Placed(r, S \cup {m}, q)
<1> DEFINE T == S \cup {m}
<1>0. /\ r \in Answers /\ n \in S /\ n \in Objects /\ m \in Children(n)
      /\ n \notin Arrays
  BY RegularIs, ChildrenAre
<1>t. T = S \cup {m} /\ \A x : x \in T <=> x \in S \/ x = m
  OBVIOUS
<1> HIDE DEF T
<1>1. /\ r \in S /\ m \in Nodes /\ S \subseteq NodesOf(r)
      /\ Children(m) \cap T = {}
      /\ \A x \in T : m \in Children(x) => x = n
  <2>1. /\ r \in S /\ m \in Nodes /\ S \subseteq NodesOf(r)
        /\ \A x \in Children(m) : x \notin S /\ x # m
        /\ \A x \in S : m \in Children(x) => x = n
    BY <1>0, JustSeen
  <2> QED BY <1>t, <2>1
<1>2. q[m] = page[n] /\ \A x \in S : x # m /\ q[x] = page[x]
  BY DEF Extends
<1>3. \A x : x \in T <=> x \in S \/ x = m
  BY <1>t
<1>4. q[r] = <<>>
  BY <1>1, <1>2 DEF Placed
<1>5. ASSUME NEW o \in T \cap Objects, NEW x \in T \cap Members[o]
      PROVE  q[x] = q[o]
  <2>1. x \in Children(o) /\ x \in T
    BY <1>5, ChildrenAre
  <2>2. o \in S /\ o # m
    BY <1>1, <1>2, <1>3, <2>1
  <2>3. CASE x = m
    BY <1>1, <1>2, <2>1, <2>2, <2>3
  <2>4. CASE x \in S
    BY <1>2, <2>2, <2>4 DEF Placed
  <2> QED BY <1>3, <2>3, <2>4
<1>6. ASSUME NEW a \in T \cap Arrays, NEW j \in DOMAIN Items[a], Items[a][j] \in T
      PROVE  q[Items[a][j]] = Append(q[a], j)
  <2>1. Items[a][j] \in Children(a)
    BY <1>1, <1>3, <1>6, ChildrenAre
  <2>2. a \in S /\ Items[a][j] \in S
    BY <1>0, <1>1, <1>3, <1>6, <2>1
  <2>3. page[Items[a][j]] = Append(page[a], j)
    BY <2>2 DEF Placed
  <2> QED BY <1>2, <2>2, <2>3, Zenon
<1>7. ASSUME NEW x \in T, q[x] # <<>>
      PROVE  \E a \in T \cap Arrays : \E j \in DOMAIN Items[a] :
               Items[a][j] \in T /\ q[x] = Append(q[a], j)
  <2>1. PICK y \in S : q[x] = page[y]
    BY <1>0, <1>2, <1>3
  <2>2. PICK a \in S \cap Arrays : \E j \in DOMAIN Items[a] :
          Items[a][j] \in S /\ page[y] = Append(page[a], j)
    BY <1>7, <2>1 DEF Placed
  <2>3. a \in T \cap Arrays /\ q[a] = page[a] /\ S \subseteq T
    BY <1>2, <1>3
  <2> QED BY <2>1, <2>2, <2>3
<1>8. ASSUME NEW x \in Ends(T), NEW y \in Ends(T), q[x] = q[y]
      PROVE  x = y
  <2>1. ASSUME NEW z \in Ends(T), z # m
        PROVE  z \in Ends(S) /\ z # n /\ q[z] = page[z]
    <3>1. z \in S /\ (z \in Arrays \/ Members[z] \cap T = {})
      BY <1>3, <2>1, EndsAre
    <3>2. z # n
      BY <1>0, <1>3, <3>1
    <3> QED BY <1>2, <1>3, <3>1, <3>2, EndsAre
  <2>2. n \in Ends(S)
    <3>1. \A z \in Members[n] : z = m
      BY <1>0, <1>1, RegularIs
    <3> QED BY <1>0, <3>1, EndsAre
  <2>3. \A z \in Ends(S) : page[z] = page[n] => z = n
    BY <2>2 DEF Placed
  <2>4. CASE x = m \/ y = m
    BY <1>2, <1>8, <2>1, <2>3, <2>4
  <2>5. CASE x # m /\ y # m
    BY <1>8, <2>1, <2>5 DEF Placed
  <2> QED BY <2>4, <2>5
<1>9. Placed(r, T, q)
  BY <1>4, <1>5, <1>6, <1>7, <1>8 DEF Placed
<1> QED BY <1>9 DEF T

LEMMA PlacedItem ==
  ASSUME NEW r \in RegularAnswers, NEW S \in SUBSET Nodes, Part(r, S),
         NEW page \in [S -> Seq(Nat)], Placed(r, S, page),
         NEW a \in S \cap Arrays, NEW j \in DOMAIN Items[a],
         NEW m \in Objects, m = Items[a][j], m \notin S,
         NEW q, Extends(q, page, S, m, Append(page[a], j))
  PROVE  Placed(r, S \cup {m}, q)
<1> DEFINE P == Append(page[a], j)
           T == S \cup {m}
<1>0. /\ r \in Answers /\ a \in S /\ a \in Arrays /\ m \in Children(a)
      /\ a \notin Objects /\ m \notin Arrays /\ j \in Nat /\ page[a] \in Seq(Nat)
  BY RegularIs, ChildrenAre
<1> HIDE DEF P
<1>t. T = S \cup {m} /\ \A x : x \in T <=> x \in S \/ x = m
  OBVIOUS
<1> HIDE DEF T
<1>1. /\ r \in S /\ m \in Nodes /\ S \subseteq NodesOf(r)
      /\ Children(m) \cap T = {}
      /\ \A x \in T : m \in Children(x) => x = a
  <2>1. /\ r \in S /\ m \in Nodes /\ S \subseteq NodesOf(r)
        /\ \A x \in Children(m) : x \notin S /\ x # m
        /\ \A x \in S : m \in Children(x) => x = a
    BY <1>0, JustSeen
  <2> QED BY <1>t, <2>1
<1>2. P \in Seq(Nat) /\ P # <<>>
  BY <1>0, Appended DEF P
<1>3. q[m] = P /\ \A x \in S : x # m /\ q[x] = page[x]
  BY DEF Extends, P
<1>4. \A x : x \in T <=> x \in S \/ x = m
  BY <1>t
<1>5. \A i \in DOMAIN Items[a] : Items[a][i] = m => i = j
  <2>1. m # Scalar
    BY <1>1, TreeAssumption
  <2> QED BY <1>0, <1>1, <2>1, JsonAssumption
<1>6. \A y \in S : page[y] # P
  <2> SUFFICES ASSUME NEW y \in S, page[y] = P PROVE FALSE
    OBVIOUS
  <2>1. PICK b \in S \cap Arrays : \E i \in DOMAIN Items[b] :
          Items[b][i] \in S /\ page[y] = Append(page[b], i)
    BY <1>2 DEF Placed
  <2>2. PICK i \in DOMAIN Items[b] : Items[b][i] \in S /\ page[y] = Append(page[b], i)
    BY <2>1
  <2>3. page[b] = page[a] /\ i = j
    <3>1. page[b] \in Seq(Nat) /\ i \in Nat
      BY <2>1, <2>2, ChildrenAre
    <3>2. Append(page[b], i) = Append(page[a], j)
      BY <2>2 DEF P
    <3> QED BY <1>0, <3>1, <3>2, AppendedOnce
  <2>4. a \in Ends(S) /\ b \in Ends(S)
    BY <1>0, EndsAre
  <2>5. a = b
    BY <2>3, <2>4 DEF Placed
  <2> QED BY <2>2, <2>3, <2>5
<1>7. q[r] = <<>>
  BY <1>1, <1>3 DEF Placed
<1>8. ASSUME NEW o \in T \cap Objects, NEW x \in T \cap Members[o]
      PROVE  q[x] = q[o]
  <2>1. x \in Children(o) /\ x \in T /\ o # a
    BY <1>0, <1>8, ChildrenAre
  <2>2. o \in S /\ o # m /\ x \in S
    BY <1>1, <1>4, <2>1
  <2> QED BY <1>3, <2>2 DEF Placed
<1>9. ASSUME NEW b \in T \cap Arrays, NEW i \in DOMAIN Items[b], Items[b][i] \in T
      PROVE  q[Items[b][i]] = Append(q[b], i)
  <2>1. b \in S
    BY <1>0, <1>4
  <2>2. CASE Items[b][i] = m
    <3>1. m \in Children(b)
      BY <1>1, <2>2, ChildrenAre
    <3>2. b = a
      BY <1>1, <1>4, <2>1, <3>1
    <3>3. i = j
      BY <1>5, <2>2, <3>2
    <3> QED BY <1>0, <1>3, <2>2, <3>2, <3>3, Zenon DEF P
  <2>3. CASE Items[b][i] \in S
    <3>1. page[Items[b][i]] = Append(page[b], i)
      BY <2>1, <2>3 DEF Placed
    <3> QED BY <1>3, <2>1, <2>3, <3>1, Zenon
  <2> QED BY <1>4, <1>9, <2>2, <2>3
<1>10. ASSUME NEW x \in T, q[x] # <<>>
       PROVE  \E b \in T \cap Arrays : \E i \in DOMAIN Items[b] :
                Items[b][i] \in T /\ q[x] = Append(q[b], i)
  <2>1. CASE x = m
    <3>1. a \in T \cap Arrays /\ Items[a][j] \in T /\ q[x] = Append(q[a], j)
      BY <1>0, <1>3, <1>4, <2>1, Zenon DEF P
    <3> QED BY <3>1
  <2>2. CASE x \in S
    <3>1. PICK b \in S \cap Arrays : \E i \in DOMAIN Items[b] :
            Items[b][i] \in S /\ page[x] = Append(page[b], i)
      BY <1>3, <1>10, <2>2 DEF Placed
    <3>2. b \in T \cap Arrays /\ q[b] = page[b] /\ S \subseteq T /\ q[x] = page[x]
      BY <1>3, <1>4, <2>2
    <3> QED BY <3>1, <3>2
  <2> QED BY <1>4, <2>1, <2>2
<1>11. ASSUME NEW x \in Ends(T), NEW y \in Ends(T), q[x] = q[y]
       PROVE  x = y
  <2>1. ASSUME NEW z \in Ends(T), z # m
        PROVE  z \in Ends(S) /\ z \in S /\ q[z] = page[z]
    <3>1. z \in S /\ (z \in Arrays \/ Members[z] \cap T = {})
      BY <1>4, <2>1, EndsAre
    <3> QED BY <1>3, <1>4, <3>1, EndsAre
  <2>2. CASE x = m \/ y = m
    BY <1>3, <1>6, <1>11, <2>1, <2>2
  <2>3. CASE x # m /\ y # m
    BY <1>11, <2>1, <2>3 DEF Placed
  <2> QED BY <2>2, <2>3
<1>12. Placed(r, T, q)
  BY <1>7, <1>8, <1>9, <1>10, <1>11 DEF Placed
<1> QED BY <1>12 DEF T

LEMMA PlacedFirst ==
  ASSUME NEW r \in RegularAnswers
  PROVE  Placed(r, {r}, [x \in {r} |-> <<>>])
<1> DEFINE q == [x \in {r} |-> <<>>]
<1>1. r \in Objects /\ r \notin Arrays /\ Children(r) \cap {r} = {}
      /\ Members[r] = Children(r)
  BY RegularIs, OneAround, PartBegins, ChildrenAre
<1>2. q[r] = <<>>
  OBVIOUS
<1> HIDE DEF q
<1>3. \A x \in Ends({r}) : x = r
  BY EndsAre
<1>4. Placed(r, {r}, q)
  BY <1>1, <1>2, <1>3 DEF Placed
<1> QED BY <1>4 DEF q

-----------------------------------------------------------------------------
(* The names of the calls: NamesInv as an operator on stacks and names     *)

Named(f, name, page) ==
  /\ f.node \in Arrays => SubSeq(name, 1, f.lev - 1) = page[f.node]
  /\ f.todo # {} => SubSeq(name, 1, f.lev) = page[f.node]

NamesOf(s, name, page) ==
  /\ \A k \in DOMAIN s : Named(s[k], name, page)
  /\ \A k \in DOMAIN s : s[k].todo # {} => k = Len(s)

\* The calls that wait for another one to return are in an array or done.
Waiting(s, name, page) ==
  \A k \in DOMAIN s : s[k].todo = {} /\ Named(s[k], name, page)

LEMMA NamesFront ==
  ASSUME NEW s \in Seq(Frames), s # <<>>, NEW name, NEW page,
         NamesOf(s, name, page)
  PROVE  /\ Waiting(Front(s), name, page) /\ Named(Last(s), name, page)
         /\ NamesOf(Front(s), name, page)
<1> DEFINE o == Front(s)
<1>1. /\ o \in Seq(Frames) /\ Last(s) = s[Len(s)]
      /\ Len(s) \in Nat \ {0} /\ Len(o) = Len(s) - 1
      /\ \A k \in 1..(Len(s) - 1) : o[k] = s[k]
  BY FrontLast
<1> HIDE DEF o
<1>2. DOMAIN s = 1..Len(s) /\ DOMAIN o = 1..Len(o)
  BY <1>1, FrameLevels
<1>3. /\ Len(s) \in DOMAIN s
      /\ \A k \in DOMAIN o : k \in DOMAIN s /\ k # Len(s) /\ o[k] = s[k]
  BY <1>1, <1>2
<1>4. Waiting(o, name, page)
  BY <1>3 DEF NamesOf, Waiting
<1>5. NamesOf(o, name, page)
  BY <1>4 DEF NamesOf, Waiting
<1> QED BY <1>1, <1>3, <1>4, <1>5 DEF NamesOf, o

LEMMA NamesAppend ==
  ASSUME NEW s \in Seq(Frames), NEW f \in Frames, NEW name, NEW page,
         Waiting(s, name, page), Named(f, name, page)
  PROVE  /\ NamesOf(Append(s, f), name, page)
         /\ f.todo = {} => Waiting(Append(s, f), name, page)
<1> DEFINE t == Append(s, f)
           n == Len(s) + 1
<1>1. /\ DOMAIN t = DOMAIN s \cup {n}
      /\ \A k \in DOMAIN s : k # n /\ t[k] = s[k]
      /\ t[n] = f
  BY AppendedIs
<1>2. Len(t) = n
  BY Appended
<1> HIDE DEF t, n
<1>3. \A k \in DOMAIN t : Named(t[k], name, page)
  BY <1>1 DEF Waiting
<1>4. \A k \in DOMAIN t : t[k].todo # {} => k = n
  BY <1>1 DEF Waiting
<1>5. NamesOf(t, name, page)
  BY <1>2, <1>3, <1>4 DEF NamesOf
<1>6. f.todo = {} => Waiting(t, name, page)
  BY <1>1, <1>3 DEF Waiting
<1> QED BY <1>5, <1>6 DEF t

\* A name or pages that the arrays of the calls cannot tell from those before.
LEMMA WaitingKept ==
  ASSUME NEW s \in Seq(Frames), NEW name, NEW page, Waiting(s, name, page),
         NEW other, NEW q,
         \A k \in DOMAIN s : s[k].node \in Arrays =>
           /\ SubSeq(other, 1, s[k].lev - 1) = SubSeq(name, 1, s[k].lev - 1)
           /\ q[s[k].node] = page[s[k].node]
  PROVE  Waiting(s, other, q)
BY DEF Waiting, Named

-----------------------------------------------------------------------------
(* The rows of what was seen: RowsInv as an operator on tables             *)

RowsOf(S, page, d) ==
  /\ \A n \in S : n \in Arrays \/ Members[n] # {} => page[n] \in DOMAIN d
  /\ \A T \in DOMAIN d : \A i \in DOMAIN d[T] :
       \E a \in S \cap Arrays : \E o \in Entries(a, S) :
         page[a] = T /\ Tells(d[T][i], o, page[o])
  /\ \A a \in S \cap Arrays : \A o \in Entries(a, S) :
       \E i \in DOMAIN d[page[a]] : Tells(d[page[a]][i], o, page[o])

LEMMA RowsInvIs == \A S, page : RowsInv(S, page) <=> RowsOf(S, page, db)
BY DEF RowsInv, RowsOf

LEMMA EntriesAre ==
  ASSUME NEW a, NEW S
  PROVE  \A o : o \in Entries(a, S) <=>
                  o \in S /\ o \in Range(Items[a]) /\ Name[o] = "plain"
BY DEF Entries

\* What a new node m inside n adds to the items of the arrays.
LEMMA EntriesGrow ==
  ASSUME NEW r \in Answers, NEW S \in SUBSET Nodes, Part(r, S),
         NEW n \in S, NEW m \in Children(n), m \notin S,
         NEW b \in Arrays, b \in S \/ b = m
  PROVE  /\ b = m => Entries(b, S \cup {m}) = {}
         /\ b \in S => \A o : o \in Entries(b, S \cup {m}) <=>
                         \/ o \in Entries(b, S)
                         \/ o = m /\ b = n /\ Name[m] = "plain"
<1>1. /\ m \in Nodes
      /\ \A x \in Children(m) : x \notin S /\ x # m
      /\ \A x \in S : m \in Children(x) => x = n
  BY JustSeen
<1>2. Children(b) = Nodes \cap Range(Items[b]) /\ b \notin Objects
  BY ChildrenAre
<1>3. \A o : o \in Entries(b, S \cup {m}) <=>
               (o \in S \/ o = m) /\ o \in Range(Items[b]) /\ Name[o] = "plain"
  BY EntriesAre
<1>4. \A o : o \in Entries(b, S) <=>
               o \in S /\ o \in Range(Items[b]) /\ Name[o] = "plain"
  BY EntriesAre
<1>5. ASSUME b = m PROVE Entries(b, S \cup {m}) = {}
  <2>1. \A o : o \notin Entries(b, S \cup {m})
    BY <1>1, <1>2, <1>3, <1>5
  <2> QED BY <2>1
<1>6. ASSUME b \in S
      PROVE  m \in Range(Items[b]) <=> b = n
  BY <1>1, <1>2, <1>6
<1> QED BY <1>3, <1>4, <1>5, <1>6

LEMMA RowsMember ==
  ASSUME NEW r \in Answers, NEW S \in SUBSET Nodes, Part(r, S), NEW page, NEW d,
         RowsOf(S, page, d),
         NEW n \in S \cap Objects, NEW m \in Members[n], m \notin S,
         NEW q, Extends(q, page, S, m, page[n])
  PROVE  RowsOf(S \cup {m}, q, d)
<1> DEFINE T == S \cup {m}
<1>0. n \in S /\ m \in Children(n) /\ n \notin Arrays
  BY ChildrenAre
<1>1. q[m] = page[n] /\ \A x \in S : q[x] = page[x]
  BY DEF Extends
<1>2. \A x : x \in T <=> x \in S \/ x = m
  OBVIOUS
<1>3. \A b \in S \cap Arrays : \A o : o \in Entries(b, T) <=> o \in Entries(b, S)
  BY <1>0, EntriesGrow
<1>4. m \in Arrays => Entries(m, T) = {}
  BY <1>0, EntriesGrow
<1>5. \A b, o : o \in Entries(b, S) => o \in S
  BY EntriesAre
<1> HIDE DEF T
<1>6. ASSUME NEW x \in T, x \in Arrays \/ Members[x] # {}
      PROVE  q[x] \in DOMAIN d
  BY <1>1, <1>2, <1>6 DEF RowsOf
<1>7. ASSUME NEW U \in DOMAIN d, NEW i \in DOMAIN d[U]
      PROVE  \E a \in T \cap Arrays : \E o \in Entries(a, T) :
               q[a] = U /\ Tells(d[U][i], o, q[o])
  <2>1. PICK a \in S \cap Arrays : \E o \in Entries(a, S) :
          page[a] = U /\ Tells(d[U][i], o, page[o])
    BY <1>7 DEF RowsOf
  <2>2. PICK o \in Entries(a, S) : page[a] = U /\ Tells(d[U][i], o, page[o])
    BY <2>1
  <2>3. a \in T \cap Arrays /\ o \in Entries(a, T) /\ q[a] = page[a] /\ q[o] = page[o]
    BY <1>1, <1>2, <1>3, <1>5
  <2> QED BY <2>2, <2>3
<1>8. ASSUME NEW a \in T \cap Arrays, NEW o \in Entries(a, T)
      PROVE  \E i \in DOMAIN d[q[a]] : Tells(d[q[a]][i], o, q[o])
  <2>1. a \in S
    BY <1>2, <1>4
  <2>2. o \in Entries(a, S) /\ q[a] = page[a] /\ q[o] = page[o]
    BY <1>1, <1>3, <1>5, <2>1
  <2>3. \E i \in DOMAIN d[page[a]] : Tells(d[page[a]][i], o, page[o])
    BY <2>1, <2>2 DEF RowsOf
  <2> QED BY <2>2, <2>3
<1>9. RowsOf(T, q, d)
  BY <1>6, <1>7, <1>8 DEF RowsOf
<1> QED BY <1>9 DEF T

\* Two rows that lead to the same dish or to the same page.
Like(x, y) == x.dish = y.dish /\ x.next = y.next

\* The tables e are those of d, perhaps with a row in T, if it is to be.
Enters(d, e, T, row, named) ==
  /\ DOMAIN e = DOMAIN d
  /\ \A U \in DOMAIN d : \A i \in DOMAIN d[U] :
       i \in DOMAIN e[U] /\ Like(e[U][i], d[U][i])
  /\ \A U \in DOMAIN d : \A i \in DOMAIN e[U] :
       \/ i \in DOMAIN d[U]
       \/ U = T /\ named = "plain" /\ Like(e[U][i], row)
  /\ named = "plain" => \E i \in DOMAIN e[T] : Like(e[T][i], row)

LEMMA TellsLike ==
  ASSUME NEW x, NEW y, NEW o, NEW P, Like(x, y), Tells(y, o, P)
  PROVE  Tells(x, o, P)
BY DEF Like, Tells

LEMMA RowsItem ==
  ASSUME NEW r \in Answers, NEW S \in SUBSET Nodes, Part(r, S), NEW page, NEW d,
         RowsOf(S, page, d), NEW a \in S \cap Arrays, NEW P,
         NEW m \in Objects, m \in Children(a), m \notin S,
         Members[m] # {} => P \in DOMAIN d,
         NEW e, NEW row, Enters(d, e, page[a], row, Name[m]), Tells(row, m, P),
         NEW q, Extends(q, page, S, m, P)
  PROVE  RowsOf(S \cup {m}, q, e)
<1> DEFINE T == S \cup {m}
<1>0. a \in S /\ m \notin Arrays /\ a \in Arrays
  BY ChildrenAre
<1>1. q[m] = P /\ \A x \in S : q[x] = page[x]
  BY DEF Extends
<1>2. \A x : x \in T <=> x \in S \/ x = m
  OBVIOUS
<1>3. \A b \in S \cap Arrays : \A o : o \in Entries(b, T) <=>
        o \in Entries(b, S) \/ (o = m /\ b = a /\ Name[m] = "plain")
  BY <1>0, EntriesGrow
<1>4. \A b, o : o \in Entries(b, S) => o \in S
  BY EntriesAre
<1> HIDE DEF T
<1>5. DOMAIN e = DOMAIN d /\ page[a] \in DOMAIN d
  BY <1>0 DEF Enters, RowsOf
<1>6. ASSUME NEW x \in T, x \in Arrays \/ Members[x] # {}
      PROVE  q[x] \in DOMAIN e
  BY <1>0, <1>1, <1>2, <1>5, <1>6 DEF RowsOf
<1>7. ASSUME NEW U \in DOMAIN e, NEW i \in DOMAIN e[U]
      PROVE  \E b \in T \cap Arrays : \E o \in Entries(b, T) :
               q[b] = U /\ Tells(e[U][i], o, q[o])
  <2>1. CASE i \in DOMAIN d[U]
    <3>1. PICK b \in S \cap Arrays : \E o \in Entries(b, S) :
            page[b] = U /\ Tells(d[U][i], o, page[o])
      BY <1>5, <1>7, <2>1 DEF RowsOf
    <3>2. PICK o \in Entries(b, S) : page[b] = U /\ Tells(d[U][i], o, page[o])
      BY <3>1
    <3>3. Tells(e[U][i], o, page[o])
      BY <1>5, <1>7, <2>1, <3>2, TellsLike DEF Enters
    <3>4. b \in T \cap Arrays /\ o \in Entries(b, T) /\ q[b] = page[b] /\ q[o] = page[o]
      BY <1>1, <1>2, <1>3, <1>4
    <3> QED BY <3>2, <3>3, <3>4
  <2>2. CASE U = page[a] /\ Name[m] = "plain" /\ Like(e[U][i], row)
    <3>1. a \in T \cap Arrays /\ m \in Entries(a, T) /\ q[a] = U /\ q[m] = P
      BY <1>0, <1>1, <1>2, <1>3, <2>2
    <3>2. Tells(e[U][i], m, P)
      BY <2>2, TellsLike
    <3> QED BY <3>1, <3>2
  <2> QED BY <1>5, <1>7, <2>1, <2>2 DEF Enters
<1>8. ASSUME NEW b \in T \cap Arrays, NEW o \in Entries(b, T)
      PROVE  \E i \in DOMAIN e[q[b]] : Tells(e[q[b]][i], o, q[o])
  <2>1. b \in S \cap Arrays /\ q[b] = page[b]
    BY <1>0, <1>1, <1>2
  <2>2. CASE o \in Entries(b, S)
    <3>1. q[o] = page[o]
      BY <1>1, <1>4, <2>2
    <3>2. PICK i \in DOMAIN d[page[b]] : Tells(d[page[b]][i], o, page[o])
      BY <2>1, <2>2 DEF RowsOf
    <3>3. page[b] \in DOMAIN d
      BY <2>1 DEF RowsOf
    <3>4. i \in DOMAIN e[page[b]] /\ Like(e[page[b]][i], d[page[b]][i])
      BY <3>3 DEF Enters
    <3> QED BY <2>1, <3>1, <3>2, <3>4, TellsLike
  <2>3. CASE o = m /\ b = a /\ Name[m] = "plain"
    <3>1. PICK i \in DOMAIN e[page[a]] : Like(e[page[a]][i], row)
      BY <2>3 DEF Enters
    <3>2. Tells(e[page[a]][i], m, P)
      BY <3>1, TellsLike
    <3> QED BY <1>1, <2>1, <2>3, <3>1, <3>2
  <2> QED BY <1>3, <1>8, <2>1, <2>2, <2>3
<1>9. RowsOf(T, q, e)
  BY <1>6, <1>7, <1>8 DEF RowsOf
<1> QED BY <1>9 DEF T

LEMMA RowsCreated ==
  ASSUME Tables(db), NEW S, NEW page, RowsOf(S, page, db), NEW T \in Seq(Nat)
  PROVE  RowsOf(S, page, Created(T))
<1> DEFINE e == Created(T)
<1>1. /\ DOMAIN db \subseteq DOMAIN e /\ \A U \in DOMAIN db : e[U] = db[U]
      /\ \A U \in DOMAIN e : U \in DOMAIN db \/ e[U] = <<>>
  BY CreatedTables
<1> HIDE DEF e
<1>2. DOMAIN <<>> = {}
  OBVIOUS
<1>3. \A U \in DOMAIN e : \A i \in DOMAIN e[U] : U \in DOMAIN db /\ e[U][i] = db[U][i]
  BY <1>1, <1>2
<1>4. \A U \in DOMAIN e : \A i \in DOMAIN e[U] : i \in DOMAIN db[U]
  BY <1>1, <1>3
<1>5. \A a \in S \cap Arrays : e[page[a]] = db[page[a]]
  BY <1>1 DEF RowsOf
<1>6. \A n \in S : n \in Arrays \/ Members[n] # {} => page[n] \in DOMAIN e
  BY <1>1 DEF RowsOf
<1>7. \A U \in DOMAIN e : \A i \in DOMAIN e[U] :
       \E a \in S \cap Arrays : \E o \in Entries(a, S) :
         page[a] = U /\ Tells(e[U][i], o, page[o])
  BY <1>3, <1>4 DEF RowsOf
<1>8. \A a \in S \cap Arrays : \A o \in Entries(a, S) :
       \E i \in DOMAIN e[page[a]] : Tells(e[page[a]][i], o, page[o])
  BY <1>5 DEF RowsOf
<1>9. RowsOf(S, page, e)
  BY <1>6, <1>7, <1>8 DEF RowsOf
<1> QED BY <1>9 DEF e

\* What an insert does to the tables.
LEMMA InsertedEnters ==
  ASSUME Tables(db), NEW T \in DOMAIN db, NEW row \in Rows, NEW named,
         row.dish = NoDish => \A i \in DOMAIN db[T] : db[T][i].dish = NoDish
  PROVE  Enters(db, Inserted(T, row, named), T, row, named)
<1> DEFINE e == Inserted(T, row, named)
           old == db[T]
           new == [row EXCEPT !.id = MenuId(old)]
           rows == IF named = "plain" THEN Append(old, new) ELSE old
           out == IF row.dish = NoDish THEN Wiped(rows) ELSE rows
<1>1. old \in Seq(Rows) /\ e = [db EXCEPT ![T] = out]
  BY DEF Tables, Inserted
<1>2. new \in Rows /\ Like(new, row)
  <2> HIDE DEF old
  <2>1. MenuId(old) \in 0..(IdModulus - 1)
    BY <1>1, MenuIdType
  <2> QED BY <2>1 DEF Rows, Like
<1> HIDE DEF e, new
<1>3. /\ rows \in Seq(Rows)
      /\ \A i \in DOMAIN old : i \in DOMAIN rows /\ rows[i] = old[i]
      /\ \A i \in DOMAIN rows : i \in DOMAIN old \/ (named = "plain" /\ rows[i] = new)
      /\ named = "plain" => \E i \in DOMAIN rows : rows[i] = new
  <2> HIDE DEF old
  <2>1. DOMAIN old = 1..Len(old) /\ Len(old) \in Nat
    BY <1>1, LenProperties
  <2>2. CASE named = "plain"
    <3> DEFINE t == Append(old, new)
    <3>1. /\ t \in Seq(Rows) /\ Len(t) = Len(old) + 1
          /\ \A i \in 1..Len(old) : t[i] = old[i]
          /\ t[Len(old) + 1] = new
      BY <1>1, <1>2, AppendProperties
    <3>2. DOMAIN t = 1..(Len(old) + 1)
      BY <3>1, LenProperties
    <3>3. rows = t
      BY <2>2
    <3> HIDE DEF t, rows
    <3>4. /\ Len(old) + 1 \in DOMAIN t
          /\ \A i \in DOMAIN t : i \in DOMAIN old \/ i = Len(old) + 1
          /\ \A i \in DOMAIN old : i \in DOMAIN t
      BY <2>1, <3>2
    <3> QED BY <2>1, <2>2, <3>1, <3>3, <3>4
  <2>3. CASE named # "plain"
    BY <1>1, <2>3
  <2> QED BY <2>2, <2>3
<1> HIDE DEF rows
<1>4. row.dish = NoDish => \A i \in DOMAIN rows : rows[i].dish = NoDish
  BY <1>2, <1>3 DEF Like
<1>5. DOMAIN out = DOMAIN rows /\ \A i \in DOMAIN rows : Like(out[i], rows[i])
  <2>1. CASE row.dish = NoDish
    <3>1. /\ DOMAIN Wiped(rows) = DOMAIN rows
          /\ \A i \in DOMAIN rows : Wiped(rows)[i].next = rows[i].next
      BY <1>3, WipedRows
    <3>2. \A i \in DOMAIN rows : Wiped(rows)[i].dish = NoDish
      <4> SUFFICES ASSUME NEW i \in DOMAIN rows PROVE Wiped(rows)[i].dish = NoDish
        OBVIOUS
      <4>1. rows[i] \in Rows
        <5>1. DOMAIN rows = 1..Len(rows)
          BY <1>3, LenProperties
        <5> QED BY <1>3, <5>1, ElementOfSeq
      <4>2. rows[i].dish = NoDish
        BY <1>4, <2>1
      <4>3. Wiped(rows)[i] = IF rows[i].dish = 0 THEN rows[i]
                             ELSE [rows[i] EXCEPT !.dish = NoDish]
        BY DEF Wiped
      <4> QED BY <4>1, <4>2, <4>3 DEF Rows
    <3> QED BY <1>4, <2>1, <3>1, <3>2 DEF Like
  <2>2. CASE row.dish # NoDish
    BY <2>2 DEF Like
  <2> QED BY <2>1, <2>2
<1> HIDE DEF out
<1>6. /\ DOMAIN e = DOMAIN db /\ e[T] = out
      /\ \A U \in DOMAIN db : U # T => e[U] = db[U]
  BY <1>1 DEF Tables
<1>7. \A x, y, z : Like(x, y) /\ Like(y, z) => Like(x, z)
  BY DEF Like
<1>8. \A x : Like(x, x)
  BY DEF Like
<1> HIDE DEF old
<1>9. db[T] = old
  BY DEF old
<1>10. ASSUME NEW U \in DOMAIN db, NEW i \in DOMAIN db[U]
       PROVE  i \in DOMAIN e[U] /\ Like(e[U][i], db[U][i])
  <2>1. CASE U = T
    BY <1>3, <1>5, <1>6, <1>9, <1>10, <2>1
  <2>2. CASE U # T
    BY <1>6, <1>8, <1>10, <2>2
  <2> QED BY <2>1, <2>2
<1>11. ASSUME NEW U \in DOMAIN db, NEW i \in DOMAIN e[U]
       PROVE  \/ i \in DOMAIN db[U]
              \/ U = T /\ named = "plain" /\ Like(e[U][i], row)
  <2>1. CASE U = T
    <3>1. i \in DOMAIN rows /\ e[U][i] = out[i]
      BY <1>5, <1>6, <1>11, <2>1
    <3>2. CASE i \in DOMAIN old
      BY <1>9, <2>1, <3>2
    <3>3. CASE named = "plain" /\ rows[i] = new
      <4>1. Like(out[i], row)
        BY <1>2, <1>5, <1>7, <3>1, <3>3
      <4> QED BY <2>1, <3>1, <3>3, <4>1
    <3> QED BY <1>3, <3>1, <3>2, <3>3
  <2>2. CASE U # T
    BY <1>6, <1>11, <2>2
  <2> QED BY <2>1, <2>2
<1>12. named = "plain" => \E i \in DOMAIN e[T] : Like(e[T][i], row)
  <2> SUFFICES ASSUME named = "plain" PROVE \E i \in DOMAIN e[T] : Like(e[T][i], row)
    OBVIOUS
  <2>1. PICK i \in DOMAIN rows : rows[i] = new
    BY <1>3
  <2>2. i \in DOMAIN e[T] /\ Like(e[T][i], row)
    BY <1>2, <1>5, <1>6, <1>7, <2>1
  <2> QED BY <2>2
<1>13. Enters(db, e, T, row, named)
  BY <1>6, <1>10, <1>11, <1>12 DEF Enters
<1> QED BY <1>13 DEF e

-----------------------------------------------------------------------------
(* The steps of the walk fill the pages                                    *)

LEMMA FilledIs ==
  ASSUME NEW S, NEW page
  PROVE  Filled(S, page) <=>
           /\ Placed(answer, S, page) /\ NamesOf(calls, menu_lev, page)
           /\ At("main", "row") => menu_lev = Append(page[Call.node], Call.i)
           /\ RowsOf(S, page, db)
<1>1. NamesInv(page) <=>
        /\ NamesOf(calls, menu_lev, page)
        /\ At("main", "row") => menu_lev = Append(page[Call.node], Call.i)
  BY DEF NamesInv, NamesOf, Named
<1> QED BY <1>1, RowsInvIs DEF Filled

LEMMA FilledKept ==
  ASSUME NEW S, NEW page, Placed(answer', S, page),
         NamesOf(calls', menu_lev', page), RowsOf(S, page, db'),
         pc'["main"] # "row" \/ menu_lev' = Append(page[Call'.node], Call'.i)
  PROVE  Filled(S, page)'
<1>1. NamesInv(page)'
  BY DEF NamesInv, NamesOf, Named, At
<1>2. RowsInv(S, page)'
  BY DEF RowsInv, RowsOf
<1> QED BY <1>1, <1>2 DEF Filled

\* What is known of a walk over a regular answer where it takes its next step.
LEMMA FilledWalking ==
  ASSUME WalkInv, answer \in RegularAnswers, NEW S \in SUBSET Nodes, Seen(S),
         NEW page \in [S -> Seq(Nat)], Filled(S, page), Walking
  PROVE  LET o == Front(calls)
         IN  /\ pc["main"] = "walk" /\ answer \in Answers /\ Part(answer, S)
             /\ Placed(answer, S, page) /\ RowsOf(S, page, db)
             /\ calls \in Seq(Frames) /\ calls # <<>> /\ o \in Seq(Frames)
             /\ Call \in Frames /\ Call.lev \in Nat /\ Call.i \in Nat
             /\ Call.lev <= Len(menu_lev) /\ Call.node \in S
             /\ Call.node \in NodesOf(answer)
             /\ Call.todo \subseteq Children(Call.node)
             /\ Call.node \in Arrays => Call.todo = {} /\ Call.lev >= 1
             /\ Waiting(o, menu_lev, page) /\ Named(Call, menu_lev, page)
             /\ NamesOf(o, menu_lev, page)
             /\ \A k \in DOMAIN o :
                  /\ o[k].node \in S /\ o[k].lev \in Nat /\ o[k].lev <= Call.lev
                  /\ o[k].node \in Arrays => o[k].lev >= 1
<1> DEFINE o == Front(calls)
<1>1. answer \in Answers
  BY RegularIs
<1>2. /\ calls \in Seq(Frames) /\ calls # <<>> /\ Call \in Frames
      /\ Call.lev \in Nat /\ Call.i \in Nat /\ Fits(Call, menu_lev)
      /\ menu_lev \in Seq(Nat) /\ Deep(calls, menu_lev)
  BY CallFields, WalkFacts
<1>3. /\ pc["main"] = "walk" /\ Part(answer, S) /\ Stack(calls, answer, S)
      /\ Sound(Call, answer, S) /\ Call.node \in NodesOf(answer)
  BY <1>1, SeenWalking
<1>4. Placed(answer, S, page) /\ RowsOf(S, page, db) /\ NamesOf(calls, menu_lev, page)
  BY FilledIs
<1>5. /\ Waiting(o, menu_lev, page) /\ NamesOf(o, menu_lev, page)
      /\ Named(Call, menu_lev, page)
  BY <1>2, <1>4, NamesFront DEF Call
<1>6. /\ o \in Seq(Frames) /\ Deep(o, menu_lev)
      /\ \A k \in DOMAIN o : o[k].lev <= Call.lev
  BY <1>2, DeepFront, FrontLast DEF Call
<1>7. Stack(o, answer, S)
  <2>1. calls = Append(o, Call)
    BY <1>2, Split DEF Call
  <2> HIDE DEF o
  <2> QED BY <1>2, <1>3, <1>6, <2>1, StackAppended
<1>8. \A k \in DOMAIN o : o[k].node \in S /\ o[k].lev \in Nat
  BY <1>6, <1>7, StackNodes, FrameLevels
<1>9. \A k \in DOMAIN o : o[k].node \in Arrays => o[k].lev >= 1
  BY <1>6 DEF Deep, Fits
<1> QED BY <1>1, <1>2, <1>3, <1>4, <1>5, <1>6, <1>8, <1>9 DEF Sound, Fits

LEMMA FilledVisitArray ==
  ASSUME WalkInv, answer \in RegularAnswers, NEW S \in SUBSET Nodes, Seen(S),
         NEW page \in [S -> Seq(Nat)], Filled(S, page),
         NEW a \in Arrays, VisitArray(a)
  PROVE  \E q \in [S \cup {a} -> Seq(Nat)] : Filled(S \cup {a}, q)'
<1> DEFINE n == Call.node
           lev == Call.lev + 1
           o == Front(calls)
           f == [Call EXCEPT !.todo = @ \ {a}, !.lev = lev]
           g == Frame(a, lev)
           t == Append(o, f)
<1>1. /\ Walking /\ a \in Call.todo /\ calls' = Append(t, g)
      /\ menu_lev' = Append(menu_lev, lev) /\ pc' = pc
      /\ answer' = answer /\ db' = db
  BY DEF VisitArray, Calling, fileVars
<1>2. /\ pc["main"] = "walk" /\ answer \in Answers /\ Part(answer, S)
      /\ Placed(answer, S, page) /\ RowsOf(S, page, db)
      /\ o \in Seq(Frames) /\ Call \in Frames /\ Call.lev \in Nat
      /\ Call.lev <= Len(menu_lev) /\ n \in S /\ n \in NodesOf(answer)
      /\ Call.todo \subseteq Children(n)
      /\ n \in Arrays => Call.todo = {}
      /\ Waiting(o, menu_lev, page) /\ Named(Call, menu_lev, page)
      /\ \A k \in DOMAIN o :
           /\ o[k].node \in S /\ o[k].lev \in Nat /\ o[k].lev <= Call.lev
           /\ o[k].node \in Arrays => o[k].lev >= 1
  BY <1>1, FilledWalking
<1>3. /\ n \in Objects /\ n \notin Arrays /\ a \in Members[n] /\ a \in Nodes
      /\ Call.todo \subseteq Members[n] /\ menu_lev \in Seq(Nat)
      /\ Len(menu_lev) \in Nat
  BY <1>1, <1>2, ChildrenAre, WalkFacts DEF Nodes
<1>4. a \notin S
  <2>1. a \in Rest(Call)
    BY <1>1, <1>3 DEF Rest
  <2>2. RestOf(calls) = Frontier(S)
    BY <1>1, <1>2, SeenWalking
  <2>3. a \in RestOf(calls)
    <3>1. calls \in Seq(Frames) /\ calls # <<>>
      BY <1>1, CallFields
    <3>2. calls = Append(o, Call)
      BY <3>1, Split DEF Call
    <3> HIDE DEF o
    <3> QED BY <1>2, <2>1, <3>2, RestAppended
  <2> QED BY <2>2, <2>3, FrontierIs
<1>5. PICK q \in [S \cup {a} -> Seq(Nat)] : Extends(q, page, S, a, page[n])
  BY <1>2, <1>4, ExtensionExists
<1>6. q[a] = page[n] /\ \A x \in S : q[x] = page[x]
  BY <1>5 DEF Extends
<1>7. Placed(answer, S \cup {a}, q)
  BY <1>2, <1>3, <1>4, <1>5, PlacedMember
<1>8. RowsOf(S \cup {a}, q, db)
  BY <1>2, <1>3, <1>4, <1>5, RowsMember
<1>9. /\ f \in Frames /\ f.node = n /\ f.todo = {}
  <2>1. f \in Frames /\ f.node = n /\ f.todo = Call.todo \ {a}
    BY <1>2, FrameSteps DEF Frames
  <2>2. \A x \in Call.todo : x = a
    BY <1>2, <1>3, RegularIs
  <2> QED BY <2>1, <2>2
<1>10. g \in Frames /\ g.node = a /\ g.lev = lev /\ g.todo = {}
  BY <1>2, <1>3, FrameFields, RestNew
<1> HIDE DEF f, g
<1>11. \A i \in 0..Len(menu_lev) : SubSeq(menu_lev', 1, i) = SubSeq(menu_lev, 1, i)
  BY <1>1, <1>2, <1>3, CutAppended
<1>12. Waiting(o, menu_lev', q)
  <2>1. \A k \in DOMAIN o : o[k].node \in Arrays =>
          /\ SubSeq(menu_lev', 1, o[k].lev - 1) = SubSeq(menu_lev, 1, o[k].lev - 1)
          /\ q[o[k].node] = page[o[k].node]
    <3> SUFFICES ASSUME NEW k \in DOMAIN o, o[k].node \in Arrays
                 PROVE  o[k].lev - 1 \in 0..Len(menu_lev)
      BY <1>2, <1>6, <1>11
    <3> QED BY <1>2, <1>3
  <2> HIDE DEF o
  <2> QED BY <1>2, <2>1, WaitingKept
<1>13. Named(f, menu_lev', q)
  BY <1>3, <1>9 DEF Named
<1>14. Named(g, menu_lev', q)
  <2>1. SubSeq(menu_lev, 1, Call.lev) = page[n]
    BY <1>1, <1>2 DEF Named
  <2>2. lev - 1 = Call.lev /\ Call.lev \in 0..Len(menu_lev)
    BY <1>2, <1>3
  <2> QED BY <1>6, <1>10, <1>11, <2>1, <2>2 DEF Named
<1> HIDE DEF o
<1>15. t \in Seq(Frames) /\ Waiting(t, menu_lev', q)
  BY <1>2, <1>9, <1>12, <1>13, NamesAppend, Appended
<1> HIDE DEF t
<1>16. NamesOf(calls', menu_lev', q)
  BY <1>1, <1>10, <1>14, <1>15, NamesAppend
<1>17. Filled(S \cup {a}, q)'
  BY <1>1, <1>2, <1>7, <1>8, <1>16, FilledKept
<1> QED BY <1>17

LEMMA FilledVisitObject ==
  ASSUME WalkInv, answer \in RegularAnswers, NEW S \in SUBSET Nodes, Seen(S),
         NEW page \in [S -> Seq(Nat)], Filled(S, page),
         NEW m \in Objects, VisitObject(m)
  PROVE  \E q \in [S \cup {m} -> Seq(Nat)] : Filled(S \cup {m}, q)'
<1> DEFINE n == Call.node
           o == Front(calls)
           f == [Call EXCEPT !.todo = @ \ {m}]
           g == Frame(m, Call.lev)
           t == Append(o, f)
<1>1. /\ Walking /\ m \in Call.todo /\ calls' = Append(t, g)
      /\ menu_lev' = menu_lev /\ pc' = pc
      /\ answer' = answer /\ db' = db
  BY DEF VisitObject, Calling, fileVars
<1>2. /\ pc["main"] = "walk" /\ answer \in Answers /\ Part(answer, S)
      /\ Placed(answer, S, page) /\ RowsOf(S, page, db)
      /\ o \in Seq(Frames) /\ Call \in Frames /\ Call.lev \in Nat
      /\ n \in S /\ n \in NodesOf(answer)
      /\ Call.todo \subseteq Children(n)
      /\ n \in Arrays => Call.todo = {}
      /\ Waiting(o, menu_lev, page) /\ Named(Call, menu_lev, page)
      /\ \A k \in DOMAIN o : o[k].node \in S
  BY <1>1, FilledWalking
<1>3. /\ n \in Objects /\ n \notin Arrays /\ m \in Members[n] /\ m \in Nodes
      /\ m \notin Arrays /\ Call.todo \subseteq Members[n]
  BY <1>1, <1>2, ChildrenAre DEF Nodes
<1>4. m \notin S
  <2>1. m \in Rest(Call)
    BY <1>1, <1>3 DEF Rest
  <2>2. RestOf(calls) = Frontier(S)
    BY <1>1, <1>2, SeenWalking
  <2>3. m \in RestOf(calls)
    <3>1. calls \in Seq(Frames) /\ calls # <<>>
      BY <1>1, CallFields
    <3>2. calls = Append(o, Call)
      BY <3>1, Split DEF Call
    <3> HIDE DEF o
    <3> QED BY <1>2, <2>1, <3>2, RestAppended
  <2> QED BY <2>2, <2>3, FrontierIs
<1>5. PICK q \in [S \cup {m} -> Seq(Nat)] : Extends(q, page, S, m, page[n])
  BY <1>2, <1>4, ExtensionExists
<1>6. q[m] = page[n] /\ \A x \in S : q[x] = page[x]
  BY <1>5 DEF Extends
<1>7. Placed(answer, S \cup {m}, q)
  BY <1>2, <1>3, <1>4, <1>5, PlacedMember
<1>8. RowsOf(S \cup {m}, q, db)
  BY <1>2, <1>3, <1>4, <1>5, RowsMember
<1>9. /\ f \in Frames /\ f.node = n /\ f.todo = {}
  <2>1. f \in Frames /\ f.node = n /\ f.todo = Call.todo \ {m}
    BY <1>2, FrameSteps DEF Frames
  <2>2. \A x \in Call.todo : x = m
    BY <1>2, <1>3, RegularIs
  <2> QED BY <2>1, <2>2
<1>10. g \in Frames /\ g.node = m /\ g.lev = Call.lev
  BY <1>2, <1>3, FrameFields
<1> HIDE DEF f, g
<1>11. Waiting(o, menu_lev, q)
  <2>1. \A k \in DOMAIN o : o[k].node \in Arrays =>
          /\ SubSeq(menu_lev, 1, o[k].lev - 1) = SubSeq(menu_lev, 1, o[k].lev - 1)
          /\ q[o[k].node] = page[o[k].node]
    BY <1>2, <1>6
  <2> HIDE DEF o
  <2> QED BY <1>2, <2>1, WaitingKept
<1>12. Named(f, menu_lev, q)
  BY <1>3, <1>9 DEF Named
<1>13. Named(g, menu_lev, q)
  <2>1. SubSeq(menu_lev, 1, Call.lev) = page[n]
    BY <1>1, <1>2 DEF Named
  <2> QED BY <1>3, <1>6, <1>10, <2>1 DEF Named
<1> HIDE DEF o
<1>14. t \in Seq(Frames) /\ Waiting(t, menu_lev, q)
  BY <1>2, <1>9, <1>11, <1>12, NamesAppend, Appended
<1> HIDE DEF t
<1>15. NamesOf(calls', menu_lev', q)
  BY <1>1, <1>10, <1>13, <1>14, NamesAppend
<1>16. Filled(S \cup {m}, q)'
  BY <1>1, <1>2, <1>7, <1>8, <1>15, FilledKept
<1> QED BY <1>16

LEMMA FilledSkipItem ==
  ASSUME WalkInv, answer \in RegularAnswers, NEW S \in SUBSET Nodes, Seen(S),
         NEW page \in [S -> Seq(Nat)], Filled(S, page), SkipItem
  PROVE  Filled(S, page)'
<1> DEFINE o == Front(calls)
           f == NextItem
<1>1. /\ AtItem /\ Walking /\ calls' = Append(o, f) /\ Call.node \in Arrays
      /\ menu_lev' = menu_lev /\ pc' = pc /\ answer' = answer /\ db' = db
  BY DEF SkipItem, AtItem, fileVars
<1>2. /\ pc["main"] = "walk" /\ Placed(answer, S, page) /\ RowsOf(S, page, db)
      /\ o \in Seq(Frames) /\ Call \in Frames /\ Call.todo = {}
      /\ Waiting(o, menu_lev, page) /\ Named(Call, menu_lev, page)
  BY <1>1, FilledWalking
<1>3. f \in Frames /\ f.node = Call.node /\ f.lev = Call.lev /\ f.todo = {}
  BY <1>1, <1>2, NextItemFields DEF NextItem, Frames
<1>4. Named(f, menu_lev, page)
  BY <1>2, <1>3 DEF Named
<1> HIDE DEF o, f
<1>5. NamesOf(calls', menu_lev', page)
  BY <1>1, <1>2, <1>3, <1>4, NamesAppend
<1> QED BY <1>1, <1>2, <1>5, FilledKept

LEMMA NoItemArray ==
  ASSUME WalkInv, answer \in RegularAnswers, NEW S \in SUBSET Nodes, Seen(S),
         ItemArray
  PROVE  FALSE
<1>1. /\ AtItem /\ Walking /\ Item \in Arrays /\ Call.node \in Arrays
  BY DEF ItemArray, AtItem
<1>2. answer \in Answers /\ Call.node \in NodesOf(answer)
  BY <1>1, RegularIs, SeenWalking
<1>3. Item \in Range(Items[Call.node])
  <2>1. Call.i + 1 \in DOMAIN Items[Call.node]
    BY <1>1, NextItemFields
  <2> QED BY <1>1, <2>1, ChildrenAre DEF Item
<1> QED BY <1>1, <1>2, <1>3, RegularIs

LEMMA FilledReturn ==
  ASSUME WalkInv, answer \in RegularAnswers, NEW S \in SUBSET Nodes, Seen(S),
         NEW page \in [S -> Seq(Nat)], Filled(S, page), Return
  PROVE  Filled(S, page)'
<1>1. /\ Walking /\ calls' = Front(calls)
      /\ menu_lev' = menu_lev /\ pc' = pc /\ answer' = answer /\ db' = db
  BY DEF Return, fileVars
<1>2. /\ pc["main"] = "walk" /\ Placed(answer, S, page) /\ RowsOf(S, page, db)
      /\ NamesOf(Front(calls), menu_lev, page)
  BY <1>1, FilledWalking
<1> QED BY <1>1, <1>2, FilledKept

LEMMA FilledItemObject ==
  ASSUME WalkInv, answer \in RegularAnswers, NEW S \in SUBSET Nodes, Seen(S),
         NEW page \in [S -> Seq(Nat)], Filled(S, page), ItemObject
  PROVE  Filled(S, page)'
<1> DEFINE o == Front(calls)
           f == NextItem
           cut == SubSeq(menu_lev, 1, Call.lev - 1)
<1>1. /\ AtItem /\ Walking /\ calls' = Append(o, f) /\ Call.node \in Arrays
      /\ menu_lev' = Append(cut, Call.i + 1) /\ answer' = answer
      /\ db' = IF Dish[Item] = NoDish THEN Created(menu_lev') ELSE db
  BY DEF ItemObject, AtItem
<1>2. /\ Placed(answer, S, page) /\ RowsOf(S, page, db) /\ Call.lev \in Nat
      /\ Call.lev >= 1 /\ Call.lev <= Len(menu_lev) /\ Call.i \in Nat
      /\ o \in Seq(Frames) /\ Call \in Frames /\ Call.todo = {} /\ Call.node \in S
      /\ Waiting(o, menu_lev, page) /\ Named(Call, menu_lev, page)
      /\ \A k \in DOMAIN o :
           /\ o[k].node \in S /\ o[k].lev \in Nat /\ o[k].lev <= Call.lev
           /\ o[k].node \in Arrays => o[k].lev >= 1
  BY <1>1, FilledWalking
<1>3. menu_lev \in Seq(Nat) /\ Len(menu_lev) \in Nat /\ Tables(db)
  BY WalkFacts
<1>4. cut = page[Call.node]
  BY <1>1, <1>2 DEF Named
<1>5. cut \in Seq(Nat) /\ Len(cut) = Call.lev - 1 /\ Call.lev - 1 \in 0..Len(menu_lev)
  BY <1>2, <1>3, Prefix
<1>6. \A i \in 0..(Call.lev - 1) : SubSeq(menu_lev', 1, i) = SubSeq(menu_lev, 1, i)
  <2> SUFFICES ASSUME NEW i \in 0..(Call.lev - 1)
               PROVE  SubSeq(menu_lev', 1, i) = SubSeq(menu_lev, 1, i)
    OBVIOUS
  <2>1. SubSeq(cut, 1, i) = SubSeq(menu_lev, 1, i)
    BY <1>3, <1>5, CutTwice
  <2> HIDE DEF cut
  <2>2. SubSeq(Append(cut, Call.i + 1), 1, i) = SubSeq(cut, 1, i)
    BY <1>2, <1>5, CutAppended
  <2> QED BY <1>1, <2>1, <2>2
<1>7. f \in Frames /\ f.node = Call.node /\ f.lev = Call.lev /\ f.todo = {}
      /\ f.i = Call.i + 1
  BY <1>1, <1>2, NextItemFields DEF NextItem, Frames
<1>8. Named(f, menu_lev', page)
  <2>1. Call.lev - 1 \in 0..(Call.lev - 1)
    BY <1>2
  <2> QED BY <1>4, <1>6, <1>7, <2>1 DEF Named
<1>9. Waiting(o, menu_lev', page)
  <2>1. \A k \in DOMAIN o : o[k].node \in Arrays =>
          SubSeq(menu_lev', 1, o[k].lev - 1) = SubSeq(menu_lev, 1, o[k].lev - 1)
    <3> SUFFICES ASSUME NEW k \in DOMAIN o, o[k].node \in Arrays
                 PROVE  o[k].lev - 1 \in 0..(Call.lev - 1)
      BY <1>6
    <3> QED BY <1>2
  <2> HIDE DEF o
  <2> QED BY <1>2, <2>1, WaitingKept
<1>10. Call' = f
  BY <1>1, <1>2, <1>7, Appended DEF Call
<1> HIDE DEF o, f, cut
<1>11. NamesOf(calls', menu_lev', page)
  BY <1>1, <1>2, <1>7, <1>8, <1>9, NamesAppend
<1>12. menu_lev' = Append(page[Call'.node], Call'.i)
  BY <1>1, <1>4, <1>7, <1>10
<1>13. RowsOf(S, page, db')
  <2>1. menu_lev' \in Seq(Nat)
    BY <1>1, <1>2, <1>5, Appended
  <2> QED BY <1>1, <1>2, <1>3, <2>1, RowsCreated
<1> QED BY <1>1, <1>2, <1>11, <1>12, <1>13, FilledKept

\* What is known of a fetch whose row is due.
LEMMA FilledRow ==
  ASSUME WalkInv, answer \in RegularAnswers, NEW S \in SUBSET Nodes, Seen(S),
         NEW page \in [S -> Seq(Nat)], Filled(S, page), At("main", "row"),
         NEW m, m = Entered
  PROVE  LET a == Call.node
         IN  /\ answer \in Answers /\ Part(answer, S)
             /\ Placed(answer, S, page) /\ RowsOf(S, page, db)
             /\ a \in S /\ a \in Arrays /\ a \in NodesOf(answer)
             /\ Call.i \in DOMAIN Items[a] /\ Call.i \in Nat
             /\ m = Items[a][Call.i] /\ m \in Objects /\ m \in Children(a)
             /\ m \in Nodes /\ m \notin S /\ m \in NodesOf(answer)
             /\ menu_lev = Append(page[a], Call.i) /\ menu_lev \in Seq(Nat)
             /\ Front(menu_lev) = page[a] /\ page[a] \in DOMAIN db
             /\ Len(menu_lev) = Call.lev /\ Call.lev \in Nat
             /\ calls \in Seq(Frames) /\ Waiting(calls, menu_lev, page)
             /\ \A k \in DOMAIN calls : calls[k].node \in S
<1> DEFINE a == Call.node
<1>1. /\ answer \in Answers /\ Placed(answer, S, page) /\ RowsOf(S, page, db)
      /\ NamesOf(calls, menu_lev, page) /\ menu_lev = Append(page[a], Call.i)
  BY RegularIs, FilledIs
<1>2. /\ Part(answer, S) /\ Stack(calls, answer, S)
      /\ Due \cup RestOf(calls) = Frontier(S)
  BY <1>1, SeenWalk DEF SeenBy
<1>3. /\ m \in Objects /\ calls \in Seq(Frames) /\ calls # <<>> /\ Call \in Frames
      /\ Call.lev \in Nat /\ menu_lev \in Seq(Nat) /\ Len(menu_lev) = Call.lev
  BY RowType
<1>4. a \in Arrays /\ Call.i \in DOMAIN Items[a] /\ m = Items[a][Call.i]
  BY DEF WalkInv, RowInv, Entered
<1>5. Sound(Call, answer, S)
  BY <1>2, <1>3, LastSound DEF Call
<1>6. a \in S /\ Call.todo = {} /\ a \in NodesOf(answer)
  BY <1>2, <1>4, <1>5 DEF Sound, Part
<1>7. m \in Frontier(S) /\ m \notin S
  <2>1. m \in Due
    BY DEF Due
  <2> QED BY <1>2, <2>1, FrontierIs
<1>8. m \in Nodes /\ m \in Children(a) /\ Call.i \in Nat
  BY <1>3, <1>4, ChildrenAre
<1>9. m \in NodesOf(answer)
  BY <1>1, <1>2, <1>6, <1>7, <1>8, JustSeen
<1>10. page[a] \in Seq(Nat) /\ page[a] \in DOMAIN db
  BY <1>1, <1>4, <1>6 DEF RowsOf
<1>11. Front(menu_lev) = page[a]
  BY <1>1, <1>8, <1>10, Appended
<1>12. Waiting(calls, menu_lev, page)
  <2> DEFINE o == Front(calls)
  <2>1. Waiting(o, menu_lev, page) /\ Named(Call, menu_lev, page)
    BY <1>1, <1>3, NamesFront DEF Call
  <2>2. calls = Append(o, Call) /\ o \in Seq(Frames)
    BY <1>3, Split, FrontLast DEF Call
  <2> HIDE DEF o
  <2> QED BY <1>3, <1>6, <2>1, <2>2, NamesAppend
<1>13. \A k \in DOMAIN calls : calls[k].node \in S
  BY <1>2, <1>3, StackNodes
<1> QED BY <1>1, <1>2, <1>3, <1>4, <1>6, <1>7, <1>8, <1>9, <1>10, <1>11, <1>12, <1>13

\* The rows of a page are all those of categories or all those of dishes.
LEMMA RowsAlike ==
  ASSUME NEW r \in RegularAnswers, NEW S \in SUBSET Nodes, Part(r, S),
         NEW page, NEW d, Placed(r, S, page), RowsOf(S, page, d),
         NEW a \in S \cap Arrays, NEW m \in Objects, m \in Children(a),
         Dish[m] = NoDish
  PROVE  \A i \in DOMAIN d[page[a]] : d[page[a]][i].dish = NoDish
<1> SUFFICES ASSUME NEW i \in DOMAIN d[page[a]] PROVE d[page[a]][i].dish = NoDish
  OBVIOUS
<1>1. a \in Arrays /\ a \in S /\ a \in NodesOf(r) /\ page[a] \in DOMAIN d
  BY DEF Part, RowsOf
<1>2. PICK b \in S \cap Arrays : \E o \in Entries(b, S) :
        page[b] = page[a] /\ Tells(d[page[a]][i], o, page[o])
  BY <1>1 DEF RowsOf
<1>3. PICK o \in Entries(b, S) :
        page[b] = page[a] /\ Tells(d[page[a]][i], o, page[o])
  BY <1>2
<1>4. a \in Ends(S) /\ b \in Ends(S)
  BY <1>1, EndsAre
<1>5. b = a
  BY <1>3, <1>4 DEF Placed
<1>6. o \in Range(Items[a]) /\ o \in Nodes /\ m \in Range(Items[a])
  BY <1>1, <1>3, <1>5, EntriesAre, ChildrenAre
<1>7. o \in Objects
  BY <1>1, <1>6, RegularIs DEF Nodes
<1>8. Dish[o] = NoDish
  BY <1>1, <1>6, <1>7, RegularIs
<1> QED BY <1>3, <1>8 DEF Tells

LEMMA EntersNothing ==
  ASSUME NEW d, NEW T, NEW row
  PROVE  Enters(d, d, T, row, "none")
BY DEF Enters, Like

LEMMA FilledInsertRow ==
  ASSUME WalkInv, QuietInv, ~disturbed,
         answer \in RegularAnswers, NEW S \in SUBSET Nodes, Seen(S),
         NEW page \in [S -> Seq(Nat)], Filled(S, page),
         InsertRow, NEW m, m = Entered
  PROVE  \E q \in [S \cup {m} -> Seq(Nat)] : Filled(S \cup {m}, q)'
<1> DEFINE a == Call.node
           g == Frame(m, Call.lev)
<1>1. /\ At("main", "row") /\ calls' = Append(calls, g)
      /\ menu_lev' = menu_lev /\ answer' = answer
      /\ db' = IF Name[m] = "none" THEN db
               ELSE Inserted(Front(menu_lev), Row, Name[m])
  BY DEF InsertRow
<1>2. /\ answer \in Answers /\ Part(answer, S)
      /\ Placed(answer, S, page) /\ RowsOf(S, page, db)
      /\ a \in S /\ a \in Arrays /\ a \in NodesOf(answer)
      /\ Call.i \in DOMAIN Items[a] /\ Call.i \in Nat
      /\ m = Items[a][Call.i] /\ m \in Objects /\ m \in Children(a)
      /\ m \in Nodes /\ m \notin S /\ m \in NodesOf(answer)
      /\ menu_lev = Append(page[a], Call.i) /\ menu_lev \in Seq(Nat)
      /\ Front(menu_lev) = page[a] /\ page[a] \in DOMAIN db
      /\ Len(menu_lev) = Call.lev /\ Call.lev \in Nat
      /\ calls \in Seq(Frames) /\ Waiting(calls, menu_lev, page)
      /\ \A k \in DOMAIN calls : calls[k].node \in S
  BY <1>1, FilledRow
<1>3. pc'["main"] = "walk"
  BY DEF InsertRow, GoTo, WalkInv, TypeOK, Threads
<1>4. m \notin Arrays
  BY <1>2, ChildrenAre
<1>5. PICK q \in [S \cup {m} -> Seq(Nat)] : Extends(q, page, S, m, menu_lev)
  BY <1>2, ExtensionExists
<1>6. q[m] = menu_lev /\ \A x \in S : q[x] = page[x]
  BY <1>5 DEF Extends
<1>7. Placed(answer, S \cup {m}, q)
  BY <1>2, <1>5, PlacedItem
<1>8. Tells(Row, m, menu_lev) /\ Row.dish = Dish[m] /\ Row \in Rows
  BY <1>1, RowType DEF Row, Tells
<1>9. Members[m] # {} => menu_lev \in DOMAIN db
  <2>1. Members[m] # {} => Dish[m] = NoDish
    BY <1>2, RegularIs
  <2> QED BY <1>1, <2>1 DEF QuietInv
<1>10. Enters(db, db', page[a], Row, Name[m])
  <2>1. CASE Name[m] = "none"
    BY <1>1, <2>1, EntersNothing
  <2>2. CASE Name[m] # "none"
    <3>1. Row.dish = NoDish =>
            \A i \in DOMAIN db[page[a]] : db[page[a]][i].dish = NoDish
      <4> SUFFICES ASSUME Row.dish = NoDish
                   PROVE  \A i \in DOMAIN db[page[a]] : db[page[a]][i].dish = NoDish
        OBVIOUS
      <4>1. /\ Dish[m] = NoDish /\ a \in S \cap Arrays /\ m \in Objects
            /\ m \in Children(a) /\ Part(answer, S)
            /\ Placed(answer, S, page) /\ RowsOf(S, page, db)
        BY <1>2, <1>8
      <4> HIDE DEF a
      <4> QED BY <4>1, RowsAlike
    <3>2. Tables(db) /\ db' = Inserted(page[a], Row, Name[m])
      BY <1>1, <1>2, <2>2, WalkFacts
    <3> QED BY <1>2, <1>8, <3>1, <3>2, InsertedEnters
  <2> QED BY <2>1, <2>2
<1>11. RowsOf(S \cup {m}, q, db')
  BY <1>2, <1>5, <1>8, <1>9, <1>10, RowsItem
<1>12. g \in Frames /\ g.node = m /\ g.lev = Call.lev
  BY <1>2, FrameFields
<1> HIDE DEF g
<1>13. Waiting(calls, menu_lev, q)
  <2>1. \A k \in DOMAIN calls : calls[k].node \in Arrays =>
          /\ SubSeq(menu_lev, 1, calls[k].lev - 1) = SubSeq(menu_lev, 1, calls[k].lev - 1)
          /\ q[calls[k].node] = page[calls[k].node]
    BY <1>2, <1>6
  <2>2. calls \in Seq(Frames) /\ Waiting(calls, menu_lev, page)
    BY <1>2
  <2> QED BY <2>1, <2>2, WaitingKept
<1>14. Named(g, menu_lev, q)
  <2>1. SubSeq(menu_lev, 1, Call.lev) = menu_lev
    BY <1>2, CutWhole
  <2> QED BY <1>4, <1>6, <1>12, <2>1 DEF Named
<1>15. NamesOf(calls', menu_lev', q)
  BY <1>1, <1>2, <1>12, <1>13, <1>14, NamesAppend
<1>16. Filled(S \cup {m}, q)'
  BY <1>1, <1>3, <1>7, <1>11, <1>15, FilledKept
<1> QED BY <1>16

LEMMA FilledAnswered ==
  ASSUME WalkInv, Answered, db = [T \in {<<>>} |-> <<>>],
         NEW r \in RegularAnswers, answer' = r
  PROVE  \E q \in [{r} -> Seq(Nat)] : Filled({r}, q)'
<1> DEFINE q == [x \in {r} |-> <<>>]
<1>1. /\ calls' = <<Frame(r, 0)>> /\ pc'["main"] = "walk"
      /\ menu_lev' = menu_lev /\ db' = db
  BY DEF Answered, GoTo, WalkInv, TypeOK, Threads, fileVars
<1>2. r \in Objects /\ r \in Nodes /\ r \notin Arrays
  BY RegularIs, OneAround
<1>3. Placed(r, {r}, q)
  BY PlacedFirst
<1>4. q \in [{r} -> Seq(Nat)] /\ q[r] = <<>>
  <2>1. <<>> \in Seq(Nat)
    BY EmptySeq
  <2> QED BY <2>1
<1> HIDE DEF q
<1>5. {r} \cap Arrays = {} /\ DOMAIN db = {<<>>} /\ DOMAIN db[<<>>] = {}
  BY <1>2
<1>6. RowsOf({r}, q, db)
  BY <1>4, <1>5 DEF RowsOf
<1>7. NamesOf(calls', menu_lev, q)
  <2>1. Frame(r, 0).node = r /\ Frame(r, 0).lev = 0
    BY <1>2, FrameFields
  <2>2. SubSeq(menu_lev, 1, 0) = <<>>
    BY WalkFacts, CutEmpty
  <2> DEFINE f == Frame(r, 0)
  <2>3. Named(f, menu_lev, q)
    BY <1>2, <1>4, <2>1, <2>2 DEF Named
  <2>4. DOMAIN calls' = {1} /\ calls'[1] = f /\ Len(calls') = 1
    BY <1>1
  <2> HIDE DEF f
  <2>5. \A k \in DOMAIN calls' : k = 1 /\ calls'[k] = f
    BY <2>4
  <2>6. \A k \in DOMAIN calls' : Named(calls'[k], menu_lev, q) /\ k = Len(calls')
    BY <2>3, <2>4, <2>5
  <2> QED BY <2>6 DEF NamesOf
<1>8. Filled({r}, q)'
  BY <1>1, <1>3, <1>6, <1>7, FilledKept
<1> QED BY <1>4, <1>8

-----------------------------------------------------------------------------
(* PagesInv in every step                                                  *)

\* While a walk is under way the answer is filled in, and nothing is served.
LEMMA PagesWalked ==
  ASSUME served' = NoAnswer, pc'["main"] \in {"walk", "row"},
         ~disturbed' /\ answer' \in RegularAnswers =>
           \E S \in SUBSET Nodes :
             Seen(S)' /\ \E page \in [S -> Seq(Nat)] : Filled(S, page)'
  PROVE  PagesInv'
BY DEF PagesInv, At

LEMMA PagesWalks ==
  ASSUME WalkInv, QuietInv, PagesInv,
         \/ \E a \in Arrays : VisitArray(a)
         \/ \E o \in Objects : VisitObject(o)
         \/ SkipItem \/ ItemArray \/ ItemObject \/ InsertRow \/ Return
  PROVE  PagesInv'
<1>1. /\ pc["main"] \in {"walk", "row"} /\ pc'["main"] \in {"walk", "row"}
      /\ answer' = answer /\ served' = served /\ disturbed' = disturbed
  BY DEF VisitArray, VisitObject, SkipItem, ItemArray, ItemObject, InsertRow,
         Return, AtItem, Walking, At, GoTo, WalkInv, TypeOK, Threads
<1>2. served = NoAnswer
  BY <1>1 DEF PagesInv, At, Threads
<1> SUFFICES ASSUME ~disturbed, answer \in RegularAnswers
             PROVE  \E S \in SUBSET Nodes :
                      Seen(S)' /\ \E page \in [S -> Seq(Nat)] : Filled(S, page)'
  BY <1>1, <1>2, PagesWalked
<1>3. answer \in Answers
  BY RegularIs
<1>4. \E S \in SUBSET Nodes : Seen(S) /\ \E page \in [S -> Seq(Nat)] : Filled(S, page)
  BY <1>1 DEF PagesInv
<1>5. PICK S \in SUBSET Nodes : Seen(S) /\ \E page \in [S -> Seq(Nat)] : Filled(S, page)
  BY <1>4
<1>6. PICK page \in [S -> Seq(Nat)] : Filled(S, page)
  BY <1>5
<1>7. CASE \E a \in Arrays : VisitArray(a)
  <2>1. PICK a \in Arrays : VisitArray(a)
    BY <1>7
  <2>2. S \cup {a} \in SUBSET Nodes /\ Seen(S \cup {a})'
    BY <1>3, <1>5, <2>1, SeenVisitArray
  <2>3. \E q \in [S \cup {a} -> Seq(Nat)] : Filled(S \cup {a}, q)'
    BY <1>5, <1>6, <2>1, FilledVisitArray
  <2> QED BY <2>2, <2>3
<1>8. CASE \E o \in Objects : VisitObject(o)
  <2>1. PICK o \in Objects : VisitObject(o)
    BY <1>8
  <2>2. S \cup {o} \in SUBSET Nodes /\ Seen(S \cup {o})'
    BY <1>3, <1>5, <2>1, SeenVisitObject
  <2>3. \E q \in [S \cup {o} -> Seq(Nat)] : Filled(S \cup {o}, q)'
    BY <1>5, <1>6, <2>1, FilledVisitObject
  <2> QED BY <2>2, <2>3
<1>9. CASE SkipItem \/ ItemObject \/ Return
  <2>1. Seen(S)'
    BY <1>3, <1>5, <1>9, SeenSkipItem, SeenItemObject, SeenReturn
  <2>2. Filled(S, page)'
    BY <1>5, <1>6, <1>9, FilledSkipItem, FilledItemObject, FilledReturn
  <2> QED BY <2>1, <2>2
<1>10. CASE ItemArray
  BY <1>5, <1>10, NoItemArray
<1>11. CASE InsertRow
  <2>0. PICK m : m = Entered
    OBVIOUS
  <2>1. S \cup {m} \in SUBSET Nodes /\ Seen(S \cup {m})'
    BY <1>3, <1>5, <1>11, <2>0, SeenInsertRow
  <2>2. \E q \in [S \cup {m} -> Seq(Nat)] : Filled(S \cup {m}, q)'
    BY <1>5, <1>6, <1>11, <2>0, FilledInsertRow
  <2> QED BY <2>1, <2>2
<1> QED BY <1>7, <1>8, <1>9, <1>10, <1>11

LEMMA PagesAnswered ==
  ASSUME WalkInv, PagesInv, Answered
  PROVE  PagesInv'
<1>1. /\ pc["main"] = "ask" /\ pc'["main"] = "walk"
      /\ served' = served /\ disturbed' = disturbed
  BY DEF Answered, At, GoTo, WalkInv, TypeOK, Threads
<1>2. served = NoAnswer
  BY <1>1 DEF PagesInv, At, Threads
<1>3. PICK r \in Answers : answer' = r /\ {r} \in SUBSET Nodes /\ Seen({r})'
  BY SeenAnswered
<1> SUFFICES ASSUME ~disturbed, answer' \in RegularAnswers
             PROVE  \E S \in SUBSET Nodes :
                      Seen(S)' /\ \E page \in [S -> Seq(Nat)] : Filled(S, page)'
  BY <1>1, <1>2, PagesWalked
<1>4. db = [T \in {<<>>} |-> <<>>]
  BY <1>1 DEF PagesInv, At
<1>5. \E q \in [{r} -> Seq(Nat)] : Filled({r}, q)'
  BY <1>3, <1>4, FilledAnswered
<1> QED BY <1>3, <1>5

LEMMA PagesRests ==
  ASSUME PagesInv, UNCHANGED vars
  PROVE  PagesInv'
<1>1. pc' = pc /\ UNCHANGED walkVars /\ db' = db /\ served' = served
      /\ disturbed' = disturbed /\ answer' = answer /\ calls' = calls
      /\ menu_lev' = menu_lev
  BY DEF vars, walkVars, fileVars
<1>2. ASSUME pc["main"] \in {"walk", "row"}, ~disturbed, answer \in RegularAnswers
      PROVE  \E S \in SUBSET Nodes :
               Seen(S)' /\ \E page \in [S -> Seq(Nat)] : Filled(S, page)'
  <2>1. \E S \in SUBSET Nodes : Seen(S) /\ \E page \in [S -> Seq(Nat)] : Filled(S, page)
    BY <1>2 DEF PagesInv
  <2>2. PICK S \in SUBSET Nodes : Seen(S) /\ \E page \in [S -> Seq(Nat)] : Filled(S, page)
    BY <2>1
  <2>3. PICK page \in [S -> Seq(Nat)] : Filled(S, page)
    BY <2>2
  <2>4. Seen(S)'
    BY <1>1, <1>2, <2>2, SeenRests, RegularIs
  <2>5. Call' = Call
    BY <1>1 DEF Call
  <2>6. Filled(S, page)'
    BY <1>1, <2>3, <2>5, FilledIs, FilledKept DEF At
  <2> QED BY <2>4, <2>6
<1>3. ASSUME pc["main"] \in {"walk", "row"} PROVE PagesInv'
  <2>1. served = NoAnswer
    BY <1>3 DEF PagesInv, At, Threads
  <2> QED BY <1>1, <1>2, <1>3, <2>1, PagesWalked
<1>4. ASSUME pc["main"] \notin {"walk", "row"} PROVE PagesInv'
  BY <1>1, <1>4 DEF PagesInv, At
<1> QED BY <1>3, <1>4

\* An undisturbed fetch makes the main table of an empty directory.
LEMMA FirstTable ==
  ASSUME menudb, db = NoTables
  PROVE  Created(<<>>) = [T \in {<<>>} |-> <<>>]
BY DEF Created, NoTables

LEMMA PagesClears ==
  ASSUME WalkInv, QuietInv, PagesInv,
         \/ BeginFetch \/ BeginUnbind \/ RemoveMenus \/ FetchFails \/ FinishFetch
         \/ \E t \in Threads : MakeDirectory(t) \/ MakeMainTable(t)
  PROVE  PagesInv'
<1>1. pc \in [Threads -> Places]
  BY DEF WalkInv, TypeOK
<1>2. ASSUME served' = NoAnswer, disturbed' \/ pc'["main"] = "idle"
      PROVE  PagesInv'
  BY <1>2 DEF PagesInv, At
<1>3. CASE BeginFetch
  <2>1. pc'["main"] = "mkdir" /\ db' = NoTables /\ served' = NoAnswer
    BY <1>1, <1>3 DEF BeginFetch, GoTo, Threads
  <2> QED BY <2>1 DEF PagesInv, At
<1>4. CASE BeginUnbind
  <2>1. pc'["main"] = pc["main"] /\ served' = NoAnswer
        /\ disturbed' = (disturbed \/ ~(pc["main"] = "idle"))
    BY <1>1, <1>4 DEF BeginUnbind, GoTo, Threads, At
  <2> QED BY <1>2, <2>1
<1>5. CASE RemoveMenus \/ MakeDirectory("unbind") \/ MakeMainTable("unbind")
  <2>1. /\ pc["unbind"] # "idle" /\ pc'["main"] = pc["main"]
        /\ served' = served /\ disturbed' = disturbed
    BY <1>1, <1>5 DEF RemoveMenus, MakeDirectory, MakeMainTable, GoTo, Threads, At
  <2>2. served = NoAnswer
    BY <2>1 DEF PagesInv, At, Threads
  <2>3. disturbed \/ pc["main"] = "idle"
    BY <2>1 DEF QuietInv, At
  <2> QED BY <1>2, <2>1, <2>2, <2>3
<1>6. CASE FetchFails
  <2>1. /\ pc["main"] = "ask" /\ pc'["main"] = "idle" /\ served' = served
    BY <1>1, <1>6 DEF FetchFails, GoTo, Threads, At
  <2>2. served = NoAnswer
    BY <2>1 DEF PagesInv, At, Threads
  <2> QED BY <1>2, <2>1, <2>2
<1>7. CASE FinishFetch
  <2>1. /\ pc["main"] = "walk" /\ pc'["main"] = "idle" /\ pc'["unbind"] = pc["unbind"]
        /\ served' = IF disturbed THEN NoAnswer ELSE answer
        /\ disturbed' = disturbed
    BY <1>1, <1>7 DEF FinishFetch, GoTo, Threads, At
  <2>2. ~disturbed => pc["unbind"] = "idle"
    BY <2>1 DEF QuietInv, At
  <2> QED BY <2>1, <2>2 DEF PagesInv, At, Threads
<1>8. CASE MakeDirectory("main")
  <2>1. /\ pc["main"] = "mkdir" /\ pc'["main"] = "table" /\ db' = db
        /\ served' = served /\ disturbed' = disturbed
    BY <1>1, <1>8 DEF MakeDirectory, GoTo, Threads, At
  <2>2. served = NoAnswer
    BY <2>1 DEF PagesInv, At, Threads
  <2> QED BY <2>1, <2>2 DEF PagesInv, At
<1>9. CASE MakeMainTable("main")
  <2>1. /\ pc["main"] = "table" /\ pc'["main"] = "ask" /\ db' = Created(<<>>)
        /\ served' = served /\ disturbed' = disturbed
    BY <1>1, <1>9 DEF MakeMainTable, GoTo, Threads, At
  <2>2. served = NoAnswer
    BY <2>1 DEF PagesInv, At, Threads
  <2>3. ~disturbed => db' = [T \in {<<>>} |-> <<>>]
    BY <2>1, FirstTable DEF PagesInv, QuietInv
  <2> QED BY <2>1, <2>2, <2>3 DEF PagesInv, At
<1> QED BY <1>3, <1>4, <1>5, <1>6, <1>7, <1>8, <1>9 DEF Threads

LEMMA PagesNext ==
  ASSUME WalkInv, QuietInv, PagesInv, [Next]_vars
  PROVE  PagesInv'
<1>1. CASE \/ BeginFetch \/ BeginUnbind \/ RemoveMenus \/ FetchFails \/ FinishFetch
           \/ \E t \in Threads : MakeDirectory(t) \/ MakeMainTable(t)
  BY <1>1, PagesClears
<1>2. CASE Answered
  BY <1>2, PagesAnswered
<1>3. CASE \/ \E a \in Arrays : VisitArray(a)
           \/ \E o \in Objects : VisitObject(o)
           \/ SkipItem \/ ItemArray \/ ItemObject \/ InsertRow \/ Return
  BY <1>3, PagesWalks
<1>4. CASE UNCHANGED vars
  BY <1>4, PagesRests
<1> QED BY <1>1, <1>2, <1>3, <1>4 DEF Next, MainStep, UnbindStep, Threads

LEMMA PagesInit == Init => PagesInv
BY DEF Init, PagesInv, At, Threads

-----------------------------------------------------------------------------
(* What Qt reaches where a walk ends                                       *)

\* The nodes of the answer that are kept, and the items of its arrays.
KeptOf(r) == NodesIn(Content(r, FALSE))

LEMMA ContentPairs ==
  ASSUME NEW r \in Nodes
  PROVE  Content(r, FALSE) \subseteq Pairs
<1>1. PICK f : Reaches(f, r, FALSE)
  BY ContentReached
<1>2. C \in 0..C
  BY ContentReached DEF C
<1>3. f[C] \in SUBSET Pairs
  BY <1>1, <1>2, LayerFacts
<1> QED BY <1>1, <1>3, NodesOfLayer

LEMMA ListedIs ==
  ASSUME NEW r \in Answers, NEW o
  PROVE  o \in Listed(r) <=> \E a \in KeptOf(r) \cap Arrays : o \in Kids(a, FALSE)
<1> DEFINE X == Content(r, FALSE)
<1>1. X \subseteq Pairs /\ Kept[r] = X
  BY ContentPairs, OneAround DEF Kept
<1> HIDE DEF X
<1>2. \A p \in X : /\ NodesIn(Below(p, FALSE)) = Kids(p[1], FALSE)
                   /\ p[1] \in NodesIn(X)
  BY <1>1, BelowFacts DEF NodesIn
<1>3. \A p : o \in NodesIn(Below(p, FALSE)) <=> \E q \in Below(p, FALSE) : o = q[1]
  BY DEF NodesIn
<1>4. o \in Listed(r) <=>
        \E p \in X : p[1] \in Arrays /\ \E q \in Below(p, FALSE) : o = q[1]
  BY <1>1 DEF Listed
<1>5. o \in Listed(r) <=> \E p \in X : p[1] \in Arrays /\ o \in Kids(p[1], FALSE)
  BY <1>2, <1>3, <1>4
<1>6. \A a : a \in NodesIn(X) <=> \E p \in X : a = p[1]
  BY DEF NodesIn
<1>7. KeptOf(r) = NodesIn(X)
  BY DEF KeptOf, X
<1> QED BY <1>5, <1>6, <1>7

\* What a completed walk over the answer r has left.
Complete(r, S, page) ==
  /\ S = NodesOf(r) /\ page \in [S -> Seq(Nat)]
  /\ Placed(r, S, page) /\ RowsOf(S, page, db)

\* The number of the item m of a is the last one of its page.
Numbered(m, a, page) ==
  \E j \in Nat : m = Items[a][j] /\ page[m] = Append(page[a], j)

\* The items of an array, each on a page of its own.
LEMMA ItemsAre ==
  ASSUME NEW r \in RegularAnswers, NEW S, NEW page, Complete(r, S, page),
         NEW a \in S \cap Arrays, NEW m \in Children(a)
  PROVE  /\ m \in S /\ m \in Objects /\ m \in Nodes /\ m \notin Arrays
         /\ m \in Kids(a, FALSE) <=> Name[m] = "plain"
         /\ m \in Entries(a, S) <=> Name[m] = "plain"
         /\ page[a] \in Seq(Nat) /\ page[a] \in DOMAIN db
         /\ Numbered(m, a, page)
<1>1. /\ a \in Arrays /\ a \in S /\ S = NodesOf(r) /\ r \in Nodes /\ r \in Answers
      /\ page \in [S -> Seq(Nat)] /\ Placed(r, S, page) /\ RowsOf(S, page, db)
  BY RegularIs, OneAround DEF Complete
<1>2. m \in S /\ m \in Nodes /\ m \in Range(Items[a])
  BY <1>1, NodesClosed, ChildrenAre
<1>3. m \in Objects /\ m \notin Arrays
  BY <1>1, <1>2, RegularIs DEF Nodes
<1>4. m \in Kids(a, FALSE) <=> Name[m] = "plain"
  BY <1>1, <1>2, <1>3, ChildrenAre DEF Kids
<1>5. m \in Entries(a, S) <=> Name[m] = "plain"
  BY <1>2, EntriesAre
<1>6. PICK j \in DOMAIN Items[a] : m = Items[a][j]
  BY <1>1, <1>2, ChildrenAre
<1>7. j \in Nat /\ page[m] = Append(page[a], j)
  BY <1>1, <1>2, <1>6, ChildrenAre DEF Placed
<1>8. Numbered(m, a, page)
  BY <1>6, <1>7 DEF Numbered
<1>9. page[a] \in Seq(Nat) /\ page[a] \in DOMAIN db
  BY <1>1 DEF RowsOf
<1> QED BY <1>2, <1>3, <1>4, <1>5, <1>8, <1>9

\* The rows of the page of an array are those of its items.
LEMMA RowOfItem ==
  ASSUME NEW r \in RegularAnswers, NEW S, NEW page, Complete(r, S, page),
         NEW a \in S \cap Arrays, NEW i \in DOMAIN db[page[a]]
  PROVE  \E o \in Entries(a, S) : Tells(db[page[a]][i], o, page[o])
<1>1. /\ a \in Arrays /\ a \in S /\ Placed(r, S, page) /\ RowsOf(S, page, db)
      /\ page[a] \in DOMAIN db
  BY DEF Complete, RowsOf
<1>2. PICK b \in S \cap Arrays : \E o \in Entries(b, S) :
        page[b] = page[a] /\ Tells(db[page[a]][i], o, page[o])
  BY <1>1 DEF RowsOf
<1>3. a \in Ends(S) /\ b \in Ends(S)
  BY <1>1, EndsAre
<1>4. b = a
  BY <1>1, <1>2, <1>3 DEF Placed
<1> QED BY <1>2, <1>4

LEMMA KeptLinked ==
  ASSUME NEW r \in RegularAnswers, NEW S, NEW page, Complete(r, S, page)
  PROVE  \A n \in KeptOf(r) : n \in S /\ (n \in Arrays => Linked(page[n]))
<1>1. /\ r \in Answers /\ r \in Nodes /\ r \in Objects /\ r \notin Arrays
      /\ S = NodesOf(r) /\ page \in [S -> Seq(Nat)]
      /\ Placed(r, S, page) /\ RowsOf(S, page, db)
  BY RegularIs, OneAround DEF Complete
<1> DEFINE Bare(n) == n \in Objects /\ Members[n] = {}
           T == {n \in S : Bare(n) \/ Linked(page[n])}
<1>2. \A n : n \in T <=> n \in S /\ (Bare(n) \/ Linked(page[n]))
  OBVIOUS
<1> HIDE DEF T
<1>3. r \in T
  BY <1>1, <1>2, NodesClosed, LinkedFirst DEF Placed
<1>4. ASSUME NEW n \in T, NEW m \in Kids(n, FALSE)
      PROVE  m \in T
  <2>1. n \in S /\ m \in Children(n) /\ m \in S
    BY <1>1, <1>2, KidsAll, NodesClosed
  <2>2. CASE n \in Objects
    <3>1. m \in Members[n] /\ ~Bare(n)
      BY <2>1, <2>2, ChildrenAre
    <3>2. page[m] = page[n]
      BY <1>1, <2>1, <2>2, <3>1 DEF Placed
    <3> QED BY <1>2, <2>1, <3>1, <3>2
  <2>3. CASE n \notin Objects
    <3>1. n \in S \cap Arrays /\ ~Bare(n)
      BY <1>1, <2>1, <2>3, NodesClosed DEF Nodes
    <3>2. /\ m \in Objects /\ m \in Entries(n, S)
          /\ page[n] \in Seq(Nat) /\ page[n] \in DOMAIN db
          /\ Numbered(m, n, page)
      BY <1>4, <2>1, <3>1, ItemsAre
    <3>3. CASE Members[m] = {}
      BY <1>2, <2>1, <3>2, <3>3
    <3>4. CASE Members[m] # {}
      <4>1. Dish[m] = NoDish
        BY <1>1, <2>1, <3>2, <3>4, RegularIs
      <4>2. PICK i \in DOMAIN db[page[n]] : Tells(db[page[n]][i], m, page[m])
        BY <1>1, <3>1, <3>2 DEF RowsOf
      <4>3. PICK j \in Nat : page[m] = Append(page[n], j)
        BY <3>2 DEF Numbered
      <4>4. db[page[n]][i].next = Append(page[n], j)
        BY <4>1, <4>2, <4>3 DEF Tells
      <4>5. Linked(page[n])
        BY <1>2, <3>1
      <4>6. Linked(Append(page[n], j))
        BY <3>2, <4>4, <4>5, LinkedOn
      <4> QED BY <1>2, <2>1, <4>3, <4>6
    <3> QED BY <3>3, <3>4
  <2> QED BY <2>2, <2>3
<1>5. KeptOf(r) \subseteq T
  BY <1>1, <1>3, <1>4, KidsLeast DEF KeptOf
<1>6. \A n \in T : n \in Arrays => ~Bare(n)
  BY ChildrenAre
<1> QED BY <1>2, <1>5, <1>6

LEMMA LinkedKept ==
  ASSUME NEW r \in RegularAnswers, NEW S, NEW page, Complete(r, S, page)
  PROVE  \A n \in S : Linked(page[n]) => n \in KeptOf(r)
<1>1. /\ r \in Answers /\ r \in Nodes /\ r \in Objects /\ r \notin Arrays
      /\ S = NodesOf(r) /\ page \in [S -> Seq(Nat)]
      /\ Placed(r, S, page) /\ RowsOf(S, page, db)
  BY RegularIs, OneAround DEF Complete
<1>2. r \in KeptOf(r) /\ \A n \in KeptOf(r) : Kids(n, FALSE) \subseteq KeptOf(r)
  BY <1>1, KidsClosed DEF KeptOf
<1> DEFINE T == {n \in S : Linked(page[n]) => n \in KeptOf(r)}
<1>3. \A n : n \in T <=> n \in S /\ (Linked(page[n]) => n \in KeptOf(r))
  OBVIOUS
<1> HIDE DEF T
<1>4. r \in T
  BY <1>1, <1>2, <1>3, NodesClosed
<1>5. ASSUME NEW n \in T, NEW m \in Children(n)
      PROVE  m \in T
  <2>1. n \in S /\ m \in S
    BY <1>1, <1>3, NodesClosed
  <2> SUFFICES ASSUME Linked(page[m]) PROVE m \in KeptOf(r)
    BY <1>3, <2>1
  <2>2. CASE n \in Objects
    <3>1. m \in Members[n] /\ Kids(n, FALSE) = Members[n]
      BY <2>2, ChildrenAre DEF Kids
    <3>2. page[m] = page[n]
      BY <1>1, <2>1, <2>2, <3>1 DEF Placed
    <3>3. n \in KeptOf(r)
      BY <1>3, <3>2
    <3> QED BY <1>2, <3>1, <3>3
  <2>3. CASE n \notin Objects
    <3>1. n \in S \cap Arrays
      BY <1>1, <2>1, <2>3, NodesClosed DEF Nodes
    <3>2. /\ page[n] \in Seq(Nat) /\ page[n] \in DOMAIN db
          /\ m \in Kids(n, FALSE) <=> Name[m] = "plain"
          /\ Numbered(m, n, page)
      BY <3>1, ItemsAre
    <3>3. PICK j \in Nat : m = Items[n][j] /\ page[m] = Append(page[n], j)
      BY <3>2 DEF Numbered
    <3>4. Linked(page[n]) /\ \E i \in DOMAIN db[page[n]] : db[page[n]][i].next = page[m]
      BY <3>2, <3>3, LinkedOn
    <3>5. PICK i \in DOMAIN db[page[n]] : db[page[n]][i].next = page[m]
      BY <3>4
    <3>6. PICK o \in Entries(n, S) : Tells(db[page[n]][i], o, page[o])
      BY <3>1, <3>5, RowOfItem
    <3>7. o \in Children(n) /\ Name[o] = "plain"
      <4>1. S \subseteq Nodes
        BY <1>1, NodesClosed
      <4> QED BY <3>1, <3>6, <4>1, EntriesAre, ChildrenAre
    <3>8. PICK k \in Nat : o = Items[n][k] /\ page[o] = Append(page[n], k)
      <4>1. Numbered(o, n, page)
        BY <3>1, <3>7, ItemsAre
      <4> QED BY <4>1 DEF Numbered
    <3>9. page[m] \in Seq(Nat) /\ page[m] # NoLink
      BY <1>1, <2>1, SizeAssumption
    <3>10. page[o] = page[m]
      BY <3>5, <3>6, <3>9 DEF Tells
    <3>11. k = j
      <4>1. Append(page[n], k) = Append(page[n], j)
        BY <3>3, <3>8, <3>10
      <4> QED BY <3>2, <4>1, AppendedOnce
    <3>12. o = m
      BY <3>3, <3>8, <3>11
    <3>13. n \in KeptOf(r)
      BY <1>3, <3>4
    <3> QED BY <1>2, <3>2, <3>7, <3>12, <3>13
  <2> QED BY <2>2, <2>3
<1>6. NodesOf(r) \subseteq T
  BY <1>1, <1>4, <1>5, NodesLeast
<1> QED BY <1>1, <1>3, <1>6

LEMMA ShownAre ==
  ASSUME NEW d
  PROVE  d \in DishesShown <=>
           /\ d # NoDish
           /\ \E T \in DOMAIN db : Linked(T) /\ \E i \in DOMAIN db[T] : d = db[T][i].dish
BY DEF DishesShown

LEMMA CompleteShows ==
  ASSUME NEW r \in RegularAnswers, NEW S, NEW page, Complete(r, S, page)
  PROVE  DishesShown = {Dish[o] : o \in Listed(r) \cap Objects} \ {NoDish}
<1>1. /\ r \in Answers /\ r \in Nodes /\ S = NodesOf(r) /\ S \subseteq Nodes
      /\ page \in [S -> Seq(Nat)]
      /\ Placed(r, S, page) /\ RowsOf(S, page, db)
  BY RegularIs, OneAround, NodesClosed DEF Complete
<1>2. ASSUME NEW d \in DishesShown
      PROVE  d # NoDish /\ \E o \in Listed(r) \cap Objects : d = Dish[o]
  <2>1. d # NoDish
        /\ \E T \in DOMAIN db : Linked(T) /\ \E i \in DOMAIN db[T] : d = db[T][i].dish
    BY <1>2, ShownAre
  <2>2. PICK T \in DOMAIN db : Linked(T) /\ \E i \in DOMAIN db[T] : d = db[T][i].dish
    BY <2>1
  <2>3. PICK i \in DOMAIN db[T] : d = db[T][i].dish
    BY <2>2
  <2>4. PICK a \in S \cap Arrays : \E o \in Entries(a, S) :
          page[a] = T /\ Tells(db[T][i], o, page[o])
    BY <1>1 DEF RowsOf
  <2>5. PICK o \in Entries(a, S) : page[a] = T /\ Tells(db[T][i], o, page[o])
    BY <2>4
  <2>6. d = Dish[o]
    BY <2>3, <2>5 DEF Tells
  <2>7. a \in KeptOf(r)
    BY <2>2, <2>5, LinkedKept
  <2>8. o \in Children(a) /\ Name[o] = "plain"
    BY <1>1, <2>5, EntriesAre, ChildrenAre
  <2>9. o \in Objects /\ o \in Kids(a, FALSE)
    BY <2>8, ItemsAre
  <2>10. o \in Listed(r)
    BY <1>1, <2>7, <2>9, ListedIs
  <2> QED BY <2>1, <2>6, <2>9, <2>10
<1>3. ASSUME NEW o \in Listed(r) \cap Objects, Dish[o] # NoDish
      PROVE  Dish[o] \in DishesShown
  <2>1. PICK a \in KeptOf(r) \cap Arrays : o \in Kids(a, FALSE)
    BY <1>1, <1>3, ListedIs
  <2>2. a \in S \cap Arrays /\ Linked(page[a]) /\ o \in Children(a)
    BY <2>1, KeptLinked, KidsAll
  <2>3. page[a] \in DOMAIN db /\ o \in Entries(a, S)
    BY <2>1, <2>2, ItemsAre
  <2>4. PICK i \in DOMAIN db[page[a]] : Tells(db[page[a]][i], o, page[o])
    BY <1>1, <2>2, <2>3 DEF RowsOf
  <2>5. Dish[o] = db[page[a]][i].dish
    BY <2>4 DEF Tells
  <2> QED BY <1>3, <2>2, <2>3, <2>5, ShownAre
<1>4. \A d \in DishesShown : d \in {Dish[o] : o \in Listed(r) \cap Objects} \ {NoDish}
  BY <1>2
<1>5. \A d \in {Dish[o] : o \in Listed(r) \cap Objects} \ {NoDish} : d \in DishesShown
  BY <1>3
<1> QED BY <1>4, <1>5

-----------------------------------------------------------------------------
(* Theorems                                                                *)

LEMMA DishesNext ==
  ASSUME WalkInv, PagesInv, DishesReached, [Next]_vars
  PROVE  DishesReached'
<1>1. RegularAnswers \subseteq Answers /\ NoAnswer \notin RegularAnswers
  BY TreeAssumption DEF RegularAnswers
<1>2. CASE FinishFetch
  <2>1. /\ pc["main"] = "walk" /\ db' = db
        /\ served' = IF disturbed THEN NoAnswer ELSE answer
    BY <1>2 DEF FinishFetch, At, fileVars
  <2> SUFFICES ASSUME ~disturbed, answer \in RegularAnswers
               PROVE  DishesShown = {Dish[o] : o \in Listed(answer) \cap Objects} \ {NoDish}
    <3>1. DishesShown' = DishesShown
      BY <2>1 DEF DishesShown, Linked
    <3> QED BY <1>1, <2>1, <3>1 DEF DishesReached
  <2>2. \E S \in SUBSET Nodes : Seen(S) /\ \E page \in [S -> Seq(Nat)] : Filled(S, page)
    BY <2>1 DEF PagesInv
  <2>3. PICK S \in SUBSET Nodes : Seen(S) /\ \E page \in [S -> Seq(Nat)] : Filled(S, page)
    BY <2>2
  <2>4. PICK page \in [S -> Seq(Nat)] : Filled(S, page)
    BY <2>3
  <2>5. S = NodesOf(answer)
    BY <1>1, <1>2, <2>3, WalkedWhole
  <2>6. Complete(answer, S, page)
    BY <2>4, <2>5, FilledIs DEF Complete
  <2> QED BY <2>6, CompleteShows
<1>3. CASE served' = NoAnswer
  BY <1>1, <1>3 DEF DishesReached
<1>4. CASE served' = served /\ db' = db
  <2>1. DishesShown' = DishesShown
    BY <1>4 DEF DishesShown, Linked
  <2> QED BY <1>4, <2>1 DEF DishesReached
<1>5. CASE served # NoAnswer
  <2>1. \A t \in Threads : pc[t] = "idle"
    BY <1>5 DEF PagesInv, At
  <2>2. pc["main"] = "idle" /\ pc["unbind"] = "idle"
    BY <2>1 DEF Threads
  <2>3. BeginFetch \/ BeginUnbind \/ UNCHANGED vars
    BY <2>2 DEF Next, MainStep, UnbindStep, MakeDirectory, MakeMainTable,
         Answered, FetchFails, VisitArray, VisitObject, SkipItem, ItemArray,
         ItemObject, InsertRow, Return, FinishFetch, RemoveMenus, At, AtItem, Walking
  <2>4. served' = NoAnswer \/ (served' = served /\ db' = db)
    BY <2>3 DEF BeginFetch, BeginUnbind, vars, fileVars
  <2> QED BY <1>3, <1>4, <2>4
<1>6. \/ FinishFetch \/ served' = NoAnswer \/ served' = served
  BY DEF Next, MainStep, UnbindStep, BeginFetch, MakeDirectory, MakeMainTable,
         Answered, FetchFails, VisitArray, VisitObject, SkipItem, ItemArray,
         ItemObject, InsertRow, Return, BeginUnbind, RemoveMenus, vars
<1> QED BY <1>2, <1>3, <1>5, <1>6

(* In every step of a fetch that no unbinding disturbs each table is the   *)
(* page of an array that the walk has seen, and its rows are those of the  *)
(* items seen there: an array is in one table, a table has one array       *)
(* (httpclient.go, jsonArrayParse; sqliteTask.c, the inserts of a menu).   *)
THEOREM PagesInvariant == Spec => []PagesInv
<1>1. Init => QuietInv /\ LinkedTablesExist /\ PagesInv
  BY QuietInit, PagesInit
<1>2. WalkInv /\ QuietInv /\ LinkedTablesExist /\ PagesInv /\ [Next]_vars
        => QuietInv' /\ LinkedTablesExist' /\ PagesInv'
  BY QuietNext, PagesNext DEF Quiet
<1> QED BY <1>1, <1>2, WalkIsWhole, PTL DEF Spec

(* For every regular menu, in whatever order the objects are walked and    *)
(* whatever the fetches before have left, Qt finds just the dishes listed, *)
(* less those below a name that spoils its row (httpclient.go:816-922).    *)
THEOREM DishesCorrect == Spec => []DishesReached
<1>1. Init => DishesReached
  BY TreeAssumption DEF Init, DishesReached, RegularAnswers
<1>2. WalkInv /\ PagesInv /\ DishesReached /\ [Next]_vars => DishesReached'
  BY DishesNext
<1> QED BY <1>1, <1>2, WalkIsWhole, PagesInvariant, PTL DEF Spec

=============================================================================
