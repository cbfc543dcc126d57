--------------------------- MODULE MenuTreeProofs ---------------------------
(* Theorems about MenuTree, for every forest of answers.                   *)
EXTENDS MenuTree, SequenceTheorems, FiniteSetTheorems, TLAPS

-----------------------------------------------------------------------------
(* Sequences: the names of tables and the stack of calls.                  *)

LEMMA Prefix ==
  ASSUME NEW S, NEW s \in Seq(S), NEW n \in 0..Len(s)
  PROVE  /\ SubSeq(s, 1, n) \in Seq(S)
         /\ Len(SubSeq(s, 1, n)) = n
         /\ \A k \in 1..n : SubSeq(s, 1, n)[k] = s[k]
BY LenProperties

LEMMA FrontLast ==
  ASSUME NEW S, NEW s \in Seq(S), s # <<>>
  PROVE  /\ Front(s) \in Seq(S) /\ Last(s) \in S
         /\ Len(s) \in Nat \ {0} /\ Last(s) = s[Len(s)]
         /\ Len(Front(s)) = Len(s) - 1
         /\ \A k \in 1..(Len(s) - 1) : Front(s)[k] = s[k]
<1>1. Len(s) \in Nat \ {0} /\ Len(s) - 1 \in 0..Len(s)
  BY EmptySeq, LenProperties
<1>2. Last(s) \in S /\ Last(s) = s[Len(s)]
  BY <1>1, ElementOfSeq DEF Last
<1>3. QED
  BY <1>1, <1>2, Prefix DEF Front

LEMMA Appended ==
  ASSUME NEW S, NEW s \in Seq(S), NEW e \in S
  PROVE  /\ Append(s, e) \in Seq(S) /\ Append(s, e) # <<>>
         /\ Len(Append(s, e)) = Len(s) + 1
         /\ \A k \in 1..Len(s) : Append(s, e)[k] = s[k]
         /\ Append(s, e)[Len(s) + 1] = e
         /\ Last(Append(s, e)) = e
         /\ Front(Append(s, e)) = s
<1>1. /\ Append(s, e) \in Seq(S) /\ Append(s, e) # <<>>
      /\ Len(Append(s, e)) = Len(s) + 1
      /\ \A k \in 1..Len(s) : Append(s, e)[k] = s[k]
      /\ Append(s, e)[Len(s) + 1] = e
  BY AppendProperties
<1>2. Last(Append(s, e)) = e
  BY <1>1 DEF Last
<1>3. Front(Append(s, e)) = s
  <2> DEFINE t == Append(s, e)
  <2>0. t \in Seq(S) /\ Len(s) \in Nat /\ Len(s) \in 0..Len(t) /\ Len(t) - 1 = Len(s)
        /\ \A k \in 1..Len(s) : t[k] = s[k]
    BY <1>1, LenProperties
  <2> HIDE DEF t
  <2>1. /\ Front(t) \in Seq(S)
        /\ Len(Front(t)) = Len(s)
        /\ \A k \in 1..Len(s) : Front(t)[k] = s[k]
    BY <2>0, Prefix DEF Front
  <2>2. QED
    BY <2>1, SeqEqual DEF t
<1>4. QED
  BY <1>1, <1>2, <1>3

\* The name of a table, cut before its lev-th number.
LEMMA CutName ==
  ASSUME NEW s \in Seq(Nat), NEW lev \in 1..Len(s)
  PROVE  /\ SubSeq(s, 1, lev - 1) \in Seq(Nat)
         /\ Len(SubSeq(s, 1, lev - 1)) = lev - 1
<1>1. lev - 1 \in 0..Len(s)
  BY LenProperties
<1>2. QED
  BY <1>1, Prefix

(* Block 2 tells two dishes apart that fit a uint16_t                      *)
(* (rewrCardTask.c:595-598, sqliteTask.h:21).                              *)
LEMMA Block2Injective ==
  \A d, e \in Nat :
    d < 65536 /\ e < 65536 /\ Block2(d) = Block2(e) => d = e
BY SMTT(60) DEF Block2

-----------------------------------------------------------------------------
(* The stack of calls                                                      *)

LEMMA FrameType ==
  ASSUME NEW n \in Nodes, NEW lev \in Nat
  PROVE  Frame(n, lev) \in Frames
<1>1. n \in Objects => Members[n] \in SUBSET Nodes
  BY TreeAssumption
<1>2. QED
  BY <1>1 DEF Frame, Frames

LEMMA FrameSteps ==
  ASSUME NEW c \in Frames, NEW x
  PROVE  /\ [c EXCEPT !.i = @ + 1] \in Frames
         /\ [c EXCEPT !.todo = @ \ {x}] \in Frames
         /\ [c EXCEPT !.todo = @ \ {x}, !.lev = c.lev + 1] \in Frames
<1>1. c.i + 1 \in Nat /\ c.lev + 1 \in Nat /\ c.todo \ {x} \in SUBSET Nodes
  BY DEF Frames
<1>2. QED
  BY <1>1 DEF Frames

LEMMA CallType ==
  ASSUME calls \in Seq(Frames), calls # <<>>
  PROVE  /\ Call \in Frames /\ Front(calls) \in Seq(Frames)
         /\ NextItem \in Frames
         /\ \A x : [Call EXCEPT !.todo = @ \ {x}] \in Frames
         /\ \A x : [Call EXCEPT !.todo = @ \ {x}, !.lev = Call.lev + 1] \in Frames
<1>1. Call \in Frames /\ Front(calls) \in Seq(Frames)
  BY FrontLast DEF Call
<1>2. QED
  BY <1>1, FrameSteps DEF NextItem

LEMMA CallingType ==
  ASSUME calls \in Seq(Frames), calls # <<>>, NEW f \in Frames, NEW g \in Frames
  PROVE  Calling(f, g) \in Seq(Frames) /\ Append(Front(calls), f) \in Seq(Frames)
BY CallType, Appended DEF Calling

LEMMA ItemType ==
  ASSUME calls \in Seq(Frames), calls # <<>>, Call.node \in Arrays,
         Call.i < Len(Items[Call.node])
  PROVE  Item \in Nodes \cup {Scalar} /\ Call.i + 1 \in DOMAIN Items[Call.node]
<1>1. Call.i \in Nat
  BY CallType DEF Frames
<1>2. Items[Call.node] \in Seq(Nodes \cup {Scalar})
  BY TreeAssumption
<1>3. Call.i + 1 \in 1..Len(Items[Call.node])
  BY <1>1, <1>2, LenProperties
<1>4. QED
  BY <1>2, <1>3, ElementOfSeq, LenProperties DEF Item

-----------------------------------------------------------------------------
(* How deep the calls are: CallsInv as an operator on stacks and names.    *)

Fits(f, name) ==
  /\ f.lev <= Len(name)
  /\ f.node \in Arrays => f.lev >= 1 /\ f.i <= Len(Items[f.node])

Deep(s, name) ==
  /\ \A k \in DOMAIN s : Fits(s[k], name)
  /\ \A k, l \in DOMAIN s : k <= l => s[k].lev <= s[l].lev

LEMMA CallsInvDeep == CallsInv <=> Deep(calls, menu_lev)
BY DEF CallsInv, Deep, Fits

LEMMA FrameLevels ==
  ASSUME NEW s \in Seq(Frames)
  PROVE  /\ DOMAIN s = 1..Len(s) /\ Len(s) \in Nat
         /\ \A k \in DOMAIN s : s[k] \in Frames /\ s[k].lev \in Nat /\ k \in Nat
<1>1. DOMAIN s = 1..Len(s) /\ Len(s) \in Nat
  BY LenProperties
<1>2. \A k \in 1..Len(s) : s[k] \in Frames
  BY ElementOfSeq
<1>3. \A f \in Frames : f.lev \in Nat
  BY DEF Frames
<1>4. QED
  BY <1>1, <1>2, <1>3

LEMMA DeepFront ==
  ASSUME NEW s \in Seq(Frames), s # <<>>, NEW name \in Seq(Nat),
         Deep(s, name)
  PROVE  /\ Deep(Front(s), name) /\ Fits(Last(s), name)
         /\ \A k \in DOMAIN Front(s) : Front(s)[k].lev <= Last(s).lev
<1>1. /\ Front(s) \in Seq(Frames) /\ Last(s) = s[Len(s)]
      /\ Len(s) \in Nat \ {0} /\ Len(Front(s)) = Len(s) - 1
      /\ \A k \in 1..(Len(s) - 1) : Front(s)[k] = s[k]
  BY FrontLast
<1>2. DOMAIN s = 1..Len(s) /\ DOMAIN Front(s) = 1..(Len(s) - 1)
  BY <1>1, FrameLevels
<1>3. \A k \in DOMAIN Front(s) : k \in DOMAIN s /\ Front(s)[k] = s[k] /\ k <= Len(s)
  BY <1>1, <1>2
<1>4. Len(s) \in DOMAIN s
  BY <1>1, <1>2
<1>5. QED
  BY <1>1, <1>3, <1>4 DEF Deep

LEMMA DeepAppend ==
  ASSUME NEW s \in Seq(Frames), NEW f \in Frames, NEW name \in Seq(Nat),
         Deep(s, name), Fits(f, name),
         \A k \in DOMAIN s : s[k].lev <= f.lev
  PROVE  Deep(Append(s, f), name)
<1> DEFINE t == Append(s, f)
<1>1. /\ t \in Seq(Frames) /\ Len(t) = Len(s) + 1
      /\ \A k \in 1..Len(s) : t[k] = s[k]
      /\ t[Len(s) + 1] = f
  BY AppendProperties
<1>2. /\ DOMAIN s = 1..Len(s) /\ DOMAIN t = 1..(Len(s) + 1)
      /\ Len(s) \in Nat /\ f.lev \in Nat
  BY <1>1, FrameLevels DEF Frames
<1> HIDE DEF t
<1>3. \A k \in DOMAIN t : k \in DOMAIN s \/ k = Len(s) + 1
  BY <1>2
<1>4. \A k \in DOMAIN t : Fits(t[k], name)
  BY <1>1, <1>2, <1>3 DEF Deep
<1>5. \A k, l \in DOMAIN t : k <= l => t[k].lev <= t[l].lev
  <2> SUFFICES ASSUME NEW k \in DOMAIN t, NEW l \in DOMAIN t, k <= l
               PROVE  t[k].lev <= t[l].lev
    OBVIOUS
  <2>1. CASE l \in DOMAIN s
    <3>1. k \in DOMAIN s
      BY <1>2, <2>1
    <3>2. QED
      BY <1>1, <1>2, <2>1, <3>1 DEF Deep
  <2>2. CASE l = Len(s) + 1 /\ k \in DOMAIN s
    BY <1>1, <1>2, <2>2
  <2>3. CASE l = Len(s) + 1 /\ k = Len(s) + 1
    BY <1>1, <1>2, <2>3
  <2>4. QED
    BY <1>3, <2>1, <2>2, <2>3
<1>6. QED
  BY <1>4, <1>5 DEF Deep, t

\* The name may change as long as it reaches the innermost call.
LEMMA DeepRenamed ==
  ASSUME NEW s \in Seq(Frames), s # <<>>, NEW name \in Seq(Nat),
         NEW other \in Seq(Nat), Deep(s, name), Last(s).lev <= Len(other)
  PROVE  Deep(s, other)
<1>1. Last(s) = s[Len(s)] /\ Len(s) \in Nat \ {0}
  BY FrontLast
<1>3. DOMAIN s = 1..Len(s) /\ \A k \in DOMAIN s : s[k].lev \in Nat
  BY FrameLevels
<1>4. Len(s) \in DOMAIN s /\ \A k \in DOMAIN s : k <= Len(s)
  BY <1>1, <1>3
<1>5. \A k \in DOMAIN s : s[k].lev <= s[Len(s)].lev
  BY <1>4 DEF Deep
<1>6. \A k \in DOMAIN s : s[k].lev <= Len(other)
  <2>1. Len(other) \in Nat
    BY LenProperties
  <2>2. s[Len(s)].lev <= Len(other) /\ s[Len(s)].lev \in Nat
    BY <1>1, <1>3, <1>4
  <2>3. \A a, b, c \in Nat : a <= b /\ b <= c => a <= c
    OBVIOUS
  <2>4. QED
    BY <1>3, <1>5, <2>1, <2>2, <2>3
<1>7. QED
  BY <1>6 DEF Deep, Fits

-----------------------------------------------------------------------------
(* The tables                                                              *)

Tables(d) == DOMAIN d \subseteq Seq(Nat) /\ d \in [DOMAIN d -> Seq(Rows)]

LEMMA MenuIdType ==
  ASSUME NEW rows \in Seq(Rows)
  PROVE  MenuId(rows) \in 0..(IdModulus - 1)
<1>1. \A i \in DOMAIN rows : rows[i].id \in Nat
  <2>1. \A i \in 1..Len(rows) : rows[i] \in Rows
    BY ElementOfSeq
  <2>2. DOMAIN rows = 1..Len(rows)
    BY LenProperties
  <2>3. \A r \in Rows : r.id \in Nat
    BY SizeAssumption DEF Rows
  <2>4. QED
    BY <2>1, <2>2, <2>3
<1>2. GreatestIds(rows) \subseteq Nat
  BY <1>1 DEF GreatestIds
<1>3. \A n \in Nat : (1 + n) % IdModulus \in 0..(IdModulus - 1)
  BY SizeAssumption
<1>4. CASE GreatestIds(rows) = {}
  BY <1>4, SizeAssumption DEF MenuId
<1>5. CASE GreatestIds(rows) # {}
  <2>1. (CHOOSE m \in GreatestIds(rows) : TRUE) \in Nat
    BY <1>2, <1>5
  <2>2. QED
    BY <2>1, <1>3, <1>5 DEF MenuId
<1>6. QED
  BY <1>4, <1>5

LEMMA WipedRows ==
  ASSUME NEW rows \in Seq(Rows)
  PROVE  /\ Wiped(rows) \in Seq(Rows) /\ DOMAIN Wiped(rows) = DOMAIN rows
         /\ \A i \in DOMAIN rows : /\ Wiped(rows)[i].prev = rows[i].prev
                                   /\ Wiped(rows)[i].next = rows[i].next
<1>1. DOMAIN rows = 1..Len(rows) /\ Len(rows) \in Nat
  BY LenProperties
<1>2. \A i \in 1..Len(rows) : rows[i] \in Rows
  BY ElementOfSeq
<1>3. \A r \in Rows : /\ [r EXCEPT !.dish = NoDish] \in Rows
                      /\ [r EXCEPT !.dish = NoDish].prev = r.prev
                      /\ [r EXCEPT !.dish = NoDish].next = r.next
  BY DEF Rows
<1>4. \A i \in DOMAIN rows :
        /\ Wiped(rows)[i] \in Rows
        /\ Wiped(rows)[i].prev = rows[i].prev
        /\ Wiped(rows)[i].next = rows[i].next
  BY <1>1, <1>2, <1>3 DEF Wiped
<1>5. DOMAIN Wiped(rows) = DOMAIN rows /\ Wiped(rows) = [i \in 1..Len(rows) |-> Wiped(rows)[i]]
  BY <1>1 DEF Wiped
<1>6. Wiped(rows) \in Seq(Rows)
  <2>1. Wiped(rows) \in [1..Len(rows) -> Rows]
    BY <1>1, <1>4, <1>5
  <2>2. QED
    BY <1>1, <2>1, SeqDef
<1>7. QED
  BY <1>4, <1>5, <1>6

\* What an insert leaves of a table: its rows, and perhaps the new one.
LEMMA InsertedRows ==
  ASSUME Tables(db), NEW T, NEW row \in Rows, NEW named
  PROVE  LET d == Inserted(T, row, named)
         IN  /\ DOMAIN d = DOMAIN db /\ Tables(d)
             /\ \A U \in DOMAIN db : \A i \in DOMAIN d[U] :
                  \/ /\ i \in DOMAIN db[U]
                     /\ d[U][i].prev = db[U][i].prev
                     /\ d[U][i].next = db[U][i].next
                  \/ /\ U = T
                     /\ d[U][i].prev = row.prev /\ d[U][i].next = row.next
<1> DEFINE d == Inserted(T, row, named)
<1>1. CASE T \notin DOMAIN db
  BY <1>1 DEF Inserted, Tables
<1>2. CASE T \in DOMAIN db
  <2> DEFINE old == db[T]
             new == [row EXCEPT !.id = MenuId(old)]
             rows == IF named = "plain" THEN Append(old, new) ELSE old
  <2>1. old \in Seq(Rows)
    BY <1>2 DEF Tables
  <2>2. new \in Rows /\ new.prev = row.prev /\ new.next = row.next
    <3> HIDE DEF old
    <3>1. MenuId(old) \in 0..(IdModulus - 1)
      BY <2>1, MenuIdType
    <3>2. QED
      BY <3>1 DEF Rows
  <2>3. /\ rows \in Seq(Rows)
        /\ \A i \in DOMAIN rows :
             \/ i \in DOMAIN old /\ rows[i] = old[i]
             \/ rows[i] = new
    <3> HIDE DEF old, new
    <3>1. DOMAIN old = 1..Len(old) /\ Len(old) \in Nat
      BY <2>1, LenProperties
    <3>2. CASE named = "plain"
      <4>1. /\ Append(old, new) \in Seq(Rows)
            /\ Len(Append(old, new)) = Len(old) + 1
            /\ \A i \in 1..Len(old) : Append(old, new)[i] = old[i]
            /\ Append(old, new)[Len(old) + 1] = new
        BY <2>1, <2>2, AppendProperties
      <4>2. DOMAIN Append(old, new) = 1..(Len(old) + 1)
        BY <4>1, LenProperties
      <4>3. QED
        BY <3>1, <3>2, <4>1, <4>2
    <3>3. CASE named # "plain"
      BY <2>1, <3>3
    <3>4. QED
      BY <3>2, <3>3
  <2> DEFINE out == IF row.dish = NoDish THEN Wiped(rows) ELSE rows
  <2>4. d = [db EXCEPT ![T] = out]
    BY <1>2 DEF Inserted
  <2> HIDE DEF d, rows, new
  <2>5. /\ out \in Seq(Rows) /\ DOMAIN out = DOMAIN rows
        /\ \A i \in DOMAIN rows : out[i].prev = rows[i].prev /\ out[i].next = rows[i].next
    BY <2>3, WipedRows
  <2> HIDE DEF out
  <2>6. DOMAIN d = DOMAIN db /\ Tables(d)
    BY <1>2, <2>4, <2>5 DEF Tables
  <2>7. ASSUME NEW U \in DOMAIN db, NEW i \in DOMAIN d[U]
        PROVE  \/ /\ i \in DOMAIN db[U]
                  /\ d[U][i].prev = db[U][i].prev
                  /\ d[U][i].next = db[U][i].next
               \/ /\ U = T
                  /\ d[U][i].prev = row.prev /\ d[U][i].next = row.next
    <3>1. CASE U # T
      BY <2>4, <2>7, <3>1
    <3>2. CASE U = T
      <4>1. d[U] = out
        BY <1>2, <2>4, <3>2
      <4>2. QED
        BY <2>2, <2>3, <2>5, <2>7, <3>2, <4>1
    <3>3. QED
      BY <3>1, <3>2
  <2>8. QED
    BY <2>6, <2>7 DEF d
<1>3. QED
  BY <1>1, <1>2

LEMMA CreatedTables ==
  ASSUME Tables(db), NEW T \in Seq(Nat)
  PROVE  /\ Tables(Created(T))
         /\ DOMAIN Created(T) = IF menudb THEN DOMAIN db \cup {T} ELSE DOMAIN db
         /\ \A U \in DOMAIN db : Created(T)[U] = db[U]
         /\ menudb /\ T \notin DOMAIN db => Created(T)[T] = <<>>
<1>1. <<>> \in Seq(Rows)
  BY EmptySeq
<1>2. CASE menudb
  BY <1>1, <1>2 DEF Created, Tables
<1>3. CASE ~menudb
  BY <1>3 DEF Created, Tables
<1>4. QED
  BY <1>2, <1>3

-----------------------------------------------------------------------------
(* The stack, the name and the row that is due                             *)

WalkInv == TypeOK /\ CallsInv /\ RowInv

LEMMA TablesTyped == TypeOK => Tables(db)
BY DEF TypeOK, FilesOK, Tables

LEMMA WalkInvInit == Init => WalkInv
<1> SUFFICES ASSUME Init PROVE WalkInv
  OBVIOUS
<1>1. calls = <<>> /\ menu_lev = <<>> /\ <<>> \in Seq(Nat) /\ <<>> \in Seq(Frames)
      /\ <<>> \in Seq(Rows)
  BY EmptySeq DEF Init
<1>2. CallsInv
  <2>1. DOMAIN calls = {}
    BY <1>1
  <2>2. QED
    BY <2>1 DEF CallsInv
<1>3. RowInv
  BY DEF Init, RowInv, At, Threads
<1>4. FilesOK
  <2>1. db = [T \in {<<>>} |-> <<>>]
    BY DEF Init
  <2>2. DOMAIN db \subseteq Seq(Nat) /\ db \in [DOMAIN db -> Seq(Rows)]
    BY <1>1, <2>1
  <2>3. QED
    BY <2>2 DEF Init, FilesOK
<1>5. WalkOK
  BY <1>1 DEF Init, WalkOK
<1>6. pc \in [Threads -> Places] /\ fetches \in 0..MaxFetches
      /\ unbinds \in 0..MaxUnbinds
  BY SizeAssumption DEF Init, Threads, Places
<1>7. TypeOK
  BY <1>4, <1>5, <1>6 DEF Init, TypeOK
<1>8. QED
  BY <1>2, <1>3, <1>7 DEF WalkInv

\* The steps that leave the walk where it is.
LEMMA WalkInvFiles ==
  ASSUME WalkInv,
         \/ BeginFetch \/ BeginUnbind \/ RemoveMenus \/ FetchFails
         \/ \E t \in Threads : MakeDirectory(t) \/ MakeMainTable(t)
  PROVE  WalkInv'
<1>1. <<>> \in Seq(Nat) /\ <<>> \in Seq(Rows)
  BY EmptySeq
<1>2. UNCHANGED <<answer, calls, menu_lev, lay_stackBak, toalDishesNumber>>
  BY DEF BeginFetch, BeginUnbind, RemoveMenus, FetchFails, MakeDirectory,
         MakeMainTable, walkVars
<1>3. pc' \in [Threads -> Places] /\ (At("main", "row")' => At("main", "row"))
  <2>1. pc \in [Threads -> Places]
    BY DEF WalkInv, TypeOK
  <2>2. CASE BeginFetch
    BY <2>1, <2>2 DEF BeginFetch, GoTo, At, Threads, Places
  <2>3. CASE BeginUnbind
    BY <2>1, <2>3 DEF BeginUnbind, GoTo, At, Threads, Places
  <2>4. CASE RemoveMenus
    BY <2>1, <2>4 DEF RemoveMenus, GoTo, At, Threads, Places
  <2>5. CASE FetchFails
    BY <2>1, <2>5 DEF FetchFails, GoTo, At, Threads, Places
  <2>6. ASSUME NEW t \in Threads, MakeDirectory(t)
        PROVE  pc' \in [Threads -> Places] /\ (At("main", "row")' => At("main", "row"))
    BY <2>1, <2>6 DEF MakeDirectory, GoTo, At, Threads, Places
  <2>7. ASSUME NEW t \in Threads, MakeMainTable(t)
        PROVE  pc' \in [Threads -> Places] /\ (At("main", "row")' => At("main", "row"))
    BY <2>1, <2>7 DEF MakeMainTable, GoTo, At, Threads, Places
  <2>8. QED
    BY <2>2, <2>3, <2>4, <2>5, <2>6, <2>7
<1>4. CallsInv' /\ RowInv'
  BY <1>2, <1>3 DEF WalkInv, CallsInv, RowInv, Call, Entered
<1>5. menudb' \in BOOLEAN /\ levelDb' \in Nat /\ updateProcess' \in Nat
  <2>1. menudb \in BOOLEAN /\ levelDb \in Nat /\ updateProcess \in Nat
    BY DEF WalkInv, TypeOK, FilesOK, WalkOK
  <2>2. menudb' = menudb \/ menudb' = TRUE \/ menudb' = FALSE
    BY DEF BeginFetch, BeginUnbind, RemoveMenus, FetchFails, MakeDirectory,
           MakeMainTable, fileVars
  <2>3. levelDb' \in {levelDb, 0} /\ updateProcess' \in {updateProcess, 0}
    BY DEF BeginFetch, BeginUnbind, RemoveMenus, FetchFails, MakeDirectory,
           MakeMainTable, walkVars
  <2>4. menudb' \in BOOLEAN
    BY <2>1, <2>2, Zenon
  <2>5. QED
    BY <2>1, <2>3, <2>4
<1>6. Tables(db)'
  <2>1. Tables(db)
    BY TablesTyped DEF WalkInv
  <2>2. Tables(NoTables)
    BY DEF Tables, NoTables
  <2>3. Tables(Created(<<>>))
    BY <1>1, <2>1, CreatedTables
  <2>4. \/ db' = db \/ db' = NoTables \/ db' = Created(<<>>)
    BY DEF BeginFetch, BeginUnbind, RemoveMenus, FetchFails, MakeDirectory,
           MakeMainTable, fileVars
  <2>5. QED
    BY <2>1, <2>2, <2>3, <2>4 DEF Tables
<1>7. /\ fetches' \in 0..MaxFetches /\ unbinds' \in 0..MaxUnbinds
      /\ served' \in Answers \cup {NoAnswer} /\ disturbed' \in BOOLEAN
  <2>1. /\ fetches \in 0..MaxFetches /\ unbinds \in 0..MaxUnbinds
        /\ served \in Answers \cup {NoAnswer} /\ disturbed \in BOOLEAN
    BY DEF WalkInv, TypeOK
  <2>2. \/ fetches' = fetches
        \/ fetches < MaxFetches /\ fetches' = fetches + 1
    BY DEF BeginFetch, BeginUnbind, RemoveMenus, FetchFails, MakeDirectory,
           MakeMainTable
  <2>3. \/ unbinds' = unbinds
        \/ unbinds < MaxUnbinds /\ unbinds' = unbinds + 1
    BY DEF BeginFetch, BeginUnbind, RemoveMenus, FetchFails, MakeDirectory,
           MakeMainTable
  <2>4. served' \in {served, NoAnswer}
    BY DEF BeginFetch, BeginUnbind, RemoveMenus, FetchFails, MakeDirectory,
           MakeMainTable
  <2>5. disturbed' \in BOOLEAN
    BY <2>1 DEF BeginFetch, BeginUnbind, RemoveMenus, FetchFails,
                MakeDirectory, MakeMainTable, At
  <2>6. QED
    BY <2>1, <2>2, <2>3, <2>4, <2>5, SizeAssumption
<1>8. WalkOK' /\ FilesOK'
  BY <1>2, <1>5, <1>6 DEF WalkInv, TypeOK, WalkOK, FilesOK, Tables
<1>9. QED
  BY <1>3, <1>4, <1>7, <1>8 DEF WalkInv, TypeOK

\* A step of the walk: what it must show of the variables it changes.
LEMMA WalkStep ==
  ASSUME WalkInv, calls' \in Seq(Frames), menu_lev' \in Seq(Nat),
         Deep(calls', menu_lev'), Tables(db'),
         pc' = pc \/ (\E p \in Places : GoTo("main", p)),
         RowInv', updateProcess' \in Nat, lay_stackBak' \in Nat,
         UNCHANGED <<answer, toalDishesNumber, menudb, levelDb, fetches,
                     unbinds, served, disturbed>>
  PROVE  WalkInv'
<1>1. WalkOK' /\ FilesOK'
  BY DEF WalkInv, TypeOK, WalkOK, FilesOK, Tables
<1>2. pc' \in [Threads -> Places]
  BY DEF WalkInv, TypeOK, GoTo
<1>3. TypeOK'
  BY <1>1, <1>2 DEF WalkInv, TypeOK
<1>4. CallsInv'
  BY CallsInvDeep DEF Deep, CallsInv, Fits
<1>5. QED
  BY <1>3, <1>4 DEF WalkInv

LEMMA WalkFacts ==
  ASSUME WalkInv
  PROVE  /\ calls \in Seq(Frames) /\ menu_lev \in Seq(Nat) /\ Len(menu_lev) \in Nat
         /\ Deep(calls, menu_lev) /\ Tables(db)
         /\ updateProcess \in Nat /\ lay_stackBak \in Nat
BY CallsInvDeep, TablesTyped, LenProperties DEF WalkInv, TypeOK, WalkOK

\* One call goes on, as f, to an inner one, g.
LEMMA DeepCalling ==
  ASSUME NEW name \in Seq(Nat), calls \in Seq(Frames), calls # <<>>,
         NEW other \in Seq(Nat),
         Deep(calls, name), Len(name) <= Len(other),
         NEW f \in Frames, NEW g \in Frames,
         Fits(f, other), Fits(g, other), Call.lev <= f.lev, f.lev <= g.lev
  PROVE  /\ Calling(f, g) \in Seq(Frames) /\ Deep(Calling(f, g), other)
         /\ Append(Front(calls), f) \in Seq(Frames)
         /\ Deep(Append(Front(calls), f), other)
<1> DEFINE outer == Front(calls)
           mid == Append(outer, f)
<1>1. outer \in Seq(Frames) /\ Call \in Frames /\ mid \in Seq(Frames)
  BY FrontLast, CallType, CallingType
<1>2. Len(name) \in Nat /\ Len(other) \in Nat /\ f.lev \in Nat /\ g.lev \in Nat
      /\ Call.lev \in Nat
  BY <1>1, LenProperties DEF Frames
<1>3. Deep(calls, other)
  <2>1. Fits(Call, name)
    BY DeepFront DEF Call
  <2>2. Call.lev <= Len(other)
    BY <1>2, <2>1 DEF Fits
  <2>3. QED
    BY <2>2, DeepRenamed DEF Call
<1>4. /\ Deep(outer, other) /\ \A k \in DOMAIN outer : outer[k].lev <= Call.lev
      /\ \A k \in DOMAIN outer : outer[k].lev \in Nat
  BY <1>1, <1>3, DeepFront, FrameLevels DEF Call
<1> HIDE DEF outer
<1>5. \A k \in DOMAIN outer : outer[k].lev <= f.lev
  BY <1>2, <1>4
<1>6. Deep(mid, other)
  BY <1>1, <1>4, <1>5, DeepAppend
<1>7. \A k \in DOMAIN mid : mid[k].lev <= g.lev
  <2>1. Last(mid) = f /\ mid # <<>> /\ Front(mid) = outer
    BY <1>1, Appended
  <2>2. \A k \in DOMAIN mid : (k \in DOMAIN outer /\ mid[k] = outer[k]) \/ mid[k] = f
    <3>1. /\ Len(mid) = Len(outer) + 1 /\ mid[Len(outer) + 1] = f
          /\ \A k \in 1..Len(outer) : mid[k] = outer[k]
      BY <1>1, Appended
    <3>2. DOMAIN mid = 1..Len(mid) /\ DOMAIN outer = 1..Len(outer) /\ Len(outer) \in Nat
      BY <1>1, FrameLevels
    <3> HIDE DEF mid
    <3>3. QED
      BY <3>1, <3>2
  <2> HIDE DEF mid
  <2>3. QED
    BY <1>2, <1>4, <1>5, <2>2
<1>8. Append(mid, g) \in Seq(Frames) /\ Deep(Append(mid, g), other)
  <2> HIDE DEF mid
  <2>1. QED
    BY <1>1, <1>6, <1>7, DeepAppend, Appended
<1>9. QED
  BY <1>1, <1>6, <1>8 DEF Calling, outer

-----------------------------------------------------------------------------
(* The steps of the walk                                                   *)

LEMMA FrameFields ==
  ASSUME NEW n \in Nodes, NEW lev \in Nat
  PROVE  /\ Frame(n, lev).node = n /\ Frame(n, lev).lev = lev
         /\ Frame(n, lev).i = 0 /\ Frame(n, lev) \in Frames
         /\ n \in Arrays => 0 <= Len(Items[n])
<1>1. n \in Arrays => Len(Items[n]) \in Nat
  BY TreeAssumption, LenProperties
<1>2. QED
  BY <1>1, FrameType DEF Frame

LEMMA CallFields ==
  ASSUME WalkInv, Walking
  PROVE  /\ calls \in Seq(Frames) /\ calls # <<>>
         /\ Call \in Frames /\ Call.lev \in Nat /\ Call.i \in Nat
         /\ Call.node \in Nodes /\ Fits(Call, menu_lev)
<1>1. calls \in Seq(Frames) /\ calls # <<>> /\ Deep(calls, menu_lev)
      /\ menu_lev \in Seq(Nat)
  BY WalkFacts DEF Walking
<1>2. Call \in Frames /\ Fits(Call, menu_lev)
  BY <1>1, CallType, DeepFront DEF Call
<1>3. QED
  BY <1>1, <1>2 DEF Frames

LEMMA NotRow ==
  ASSUME WalkInv, At("main", "walk"), UNCHANGED pc
  PROVE  RowInv'
BY DEF At, RowInv

LEMMA VisitArrayStep ==
  ASSUME WalkInv, NEW a \in Arrays, VisitArray(a)
  PROVE  WalkInv'
<1> DEFINE lev == Call.lev + 1
           f == [Call EXCEPT !.todo = @ \ {a}, !.lev = lev]
           g == Frame(a, lev)
<1>1. Walking /\ calls' = Calling(f, g) /\ menu_lev' = Append(menu_lev, lev)
      /\ lay_stackBak' = lev
  BY DEF VisitArray
<1>2. calls \in Seq(Frames) /\ calls # <<>> /\ Call \in Frames
      /\ Call.lev \in Nat /\ Call.i \in Nat /\ Fits(Call, menu_lev)
  BY <1>1, CallFields
<1>3. /\ menu_lev' \in Seq(Nat) /\ Len(menu_lev') = Len(menu_lev) + 1
      /\ Len(menu_lev) \in Nat /\ menu_lev \in Seq(Nat)
  BY <1>1, <1>2, WalkFacts, AppendProperties
<1>4. f \in Frames /\ f.lev = lev /\ f.node = Call.node /\ f.i = Call.i
  BY <1>2, CallType DEF Frames
<1>5. g \in Frames /\ g.lev = lev /\ g.i = 0 /\ g.node = a
      /\ 0 <= Len(Items[a])
  BY <1>2, FrameFields DEF Nodes
<1> HIDE DEF f, g
<1>6. Fits(f, menu_lev') /\ Fits(g, menu_lev')
  BY <1>2, <1>3, <1>4, <1>5 DEF Fits
<1>7. calls' \in Seq(Frames) /\ Deep(calls', menu_lev')
  <2>1. Call.lev <= f.lev /\ f.lev <= g.lev /\ Len(menu_lev) <= Len(menu_lev')
    BY <1>2, <1>3, <1>4, <1>5
  <2>2. Deep(calls, menu_lev)
    BY WalkFacts
  <2>3. QED
    BY <1>1, <1>2, <1>3, <1>4, <1>5, <1>6, <2>1, <2>2, DeepCalling
<1>8. updateProcess' \in Nat /\ lay_stackBak' \in Nat /\ Tables(db')
  BY <1>1, <1>2, WalkFacts DEF VisitArray, fileVars
<1>9. QED
  BY <1>1, <1>3, <1>7, <1>8, NotRow, WalkStep
  DEF VisitArray, Walking, fileVars

LEMMA VisitObjectStep ==
  ASSUME WalkInv, NEW o \in Objects, VisitObject(o)
  PROVE  WalkInv'
<1> DEFINE f == [Call EXCEPT !.todo = @ \ {o}]
           g == Frame(o, Call.lev)
<1>1. Walking /\ calls' = Calling(f, g) /\ menu_lev' = menu_lev
  BY DEF VisitObject
<1>2. calls \in Seq(Frames) /\ calls # <<>> /\ Call \in Frames
      /\ Call.lev \in Nat /\ Call.i \in Nat /\ Fits(Call, menu_lev)
  BY <1>1, CallFields
<1>3. f \in Frames /\ f.lev = Call.lev /\ f.node = Call.node /\ f.i = Call.i
  BY <1>2, CallType DEF Frames
<1>4. g \in Frames /\ g.lev = Call.lev /\ g.node \notin Arrays
  BY <1>2, FrameFields, TreeAssumption DEF Nodes
<1> HIDE DEF f, g
<1>5. Fits(f, menu_lev) /\ Fits(g, menu_lev)
  BY <1>2, <1>3, <1>4 DEF Fits
<1>6. calls' \in Seq(Frames) /\ Deep(calls', menu_lev')
  <2>1. /\ menu_lev \in Seq(Nat) /\ Deep(calls, menu_lev)
        /\ Len(menu_lev) <= Len(menu_lev)
    BY WalkFacts
  <2>2. Call.lev <= f.lev /\ f.lev <= g.lev
    BY <1>2, <1>3, <1>4
  <2>3. QED
    BY <1>1, <1>2, <1>3, <1>4, <1>5, <2>1, <2>2, DeepCalling
<1>7. QED
  BY <1>1, <1>6, NotRow, WalkFacts, WalkStep DEF VisitObject, Walking, fileVars

LEMMA NextItemFields ==
  ASSUME WalkInv, AtItem
  PROVE  /\ NextItem \in Frames /\ NextItem.lev = Call.lev
         /\ NextItem.node = Call.node /\ NextItem.i = Call.i + 1
         /\ NextItem.i \in DOMAIN Items[Call.node]
         /\ Item \in Nodes \cup {Scalar}
         /\ Call.lev \in 1..Len(menu_lev) /\ Fits(NextItem, menu_lev)
<1>1. /\ calls \in Seq(Frames) /\ calls # <<>> /\ Call \in Frames
      /\ Call.lev \in Nat /\ Call.i \in Nat /\ Fits(Call, menu_lev)
  BY CallFields DEF AtItem
<1>2. NextItem \in Frames /\ NextItem.lev = Call.lev
      /\ NextItem.node = Call.node /\ NextItem.i = Call.i + 1
  BY <1>1, CallType DEF NextItem, Frames
<1>3. Item \in Nodes \cup {Scalar} /\ Call.i + 1 \in DOMAIN Items[Call.node]
  BY <1>1, ItemType DEF AtItem
<1>4. Call.i + 1 <= Len(Items[Call.node]) /\ Call.node \in Arrays
  BY <1>1, TreeAssumption, LenProperties DEF AtItem
<1>5. Call.lev \in 1..Len(menu_lev) /\ Fits(NextItem, menu_lev)
  BY <1>1, <1>2, <1>4, WalkFacts DEF Fits
<1>6. QED
  BY <1>2, <1>3, <1>5

LEMMA SkipItemStep ==
  ASSUME WalkInv, SkipItem
  PROVE  WalkInv'
<1>1. calls \in Seq(Frames) /\ calls # <<>> /\ AtItem
  BY CallFields DEF SkipItem, AtItem
<1>2. calls' = Append(Front(calls), NextItem) /\ menu_lev' = menu_lev
  BY DEF SkipItem
<1>3. calls' \in Seq(Frames) /\ Deep(calls', menu_lev')
  <2>1. /\ menu_lev \in Seq(Nat) /\ Deep(calls, menu_lev)
        /\ Len(menu_lev) <= Len(menu_lev)
    BY WalkFacts
  <2>2. /\ NextItem \in Frames /\ Fits(NextItem, menu_lev)
        /\ Call.lev <= NextItem.lev /\ NextItem.lev <= NextItem.lev
    BY <1>1, NextItemFields DEF Frames
  <2>3. QED
    BY <1>1, <1>2, <2>1, <2>2, DeepCalling
<1>4. QED
  BY <1>1, <1>2, <1>3, NotRow, WalkFacts, WalkStep
  DEF SkipItem, AtItem, Walking, fileVars

LEMMA ItemArrayStep ==
  ASSUME WalkInv, ItemArray
  PROVE  WalkInv'
<1> DEFINE g == Frame(Item, Call.lev)
<1>1. calls \in Seq(Frames) /\ calls # <<>> /\ AtItem /\ Item \in Arrays
  BY CallFields DEF ItemArray, AtItem
<1>2. calls' = Calling(NextItem, g) /\ menu_lev' = menu_lev
  BY DEF ItemArray
<1>3. g \in Frames /\ g.lev = Call.lev /\ g.i = 0 /\ g.node = Item
      /\ 0 <= Len(Items[Item]) /\ Call.lev \in 1..Len(menu_lev)
      /\ Len(menu_lev) \in Nat
  BY <1>1, NextItemFields, FrameFields, WalkFacts DEF Nodes
<1> HIDE DEF g
<1>4. Fits(g, menu_lev)
  BY <1>3 DEF Fits
<1>5. calls' \in Seq(Frames) /\ Deep(calls', menu_lev')
  <2>1. /\ NextItem \in Frames /\ Fits(NextItem, menu_lev)
        /\ Call.lev <= NextItem.lev /\ NextItem.lev <= g.lev
    BY <1>1, <1>3, NextItemFields
  <2>2. /\ menu_lev \in Seq(Nat) /\ Deep(calls, menu_lev)
        /\ Len(menu_lev) <= Len(menu_lev)
    BY WalkFacts
  <2>3. QED
    BY <1>1, <1>2, <1>3, <1>4, <2>1, <2>2, DeepCalling
<1>6. QED
  BY <1>1, <1>2, <1>5, NotRow, WalkFacts, WalkStep
  DEF ItemArray, AtItem, Walking, fileVars

\* The name of the table of an item: as long as the call is deep.
LEMMA ItemName ==
  ASSUME WalkInv, AtItem
  PROVE  LET cut == SubSeq(menu_lev, 1, Call.lev - 1)
             name == Append(cut, Call.i + 1)
         IN  /\ name \in Seq(Nat) /\ Len(name) = Call.lev
             /\ Front(name) = cut /\ name # <<>>
<1> DEFINE cut == SubSeq(menu_lev, 1, Call.lev - 1)
<1>1. Call.lev \in 1..Len(menu_lev) /\ Call.i + 1 \in Nat /\ menu_lev \in Seq(Nat)
  BY NextItemFields, CallFields, WalkFacts DEF AtItem
<1>2. cut \in Seq(Nat) /\ Len(cut) = Call.lev - 1
  BY <1>1, CutName
<1> DEFINE n == Call.i + 1
<1>3. Len(cut) + 1 = Call.lev /\ cut \in Seq(Nat) /\ n \in Nat
  BY <1>1, <1>2
<1> HIDE DEF cut, n
<1>4. /\ Append(cut, n) \in Seq(Nat) /\ Append(cut, n) # <<>>
      /\ Len(Append(cut, n)) = Len(cut) + 1
      /\ Front(Append(cut, n)) = cut
  BY <1>3, Appended
<1>5. QED
  BY <1>3, <1>4 DEF cut, n

LEMMA ItemObjectStep ==
  ASSUME WalkInv, ItemObject
  PROVE  WalkInv'
<1>1. AtItem /\ Item \in Objects /\ GoTo("main", "row")
      /\ calls' = Append(Front(calls), NextItem)
  BY DEF ItemObject
<1>2. calls \in Seq(Frames) /\ calls # <<>>
  BY <1>1, CallFields DEF AtItem
<1>3. menu_lev' \in Seq(Nat) /\ Len(menu_lev') = Call.lev
  BY <1>1, ItemName DEF ItemObject
<1>4. /\ NextItem \in Frames /\ NextItem.lev = Call.lev /\ Call.lev \in Nat
      /\ NextItem.node = Call.node /\ NextItem.i = Call.i + 1
      /\ NextItem.i \in DOMAIN Items[Call.node]
      /\ Fits(NextItem, menu_lev) /\ Call.node \in Arrays
  BY <1>1, NextItemFields, CallFields DEF AtItem
<1>5. Deep(calls, menu_lev')
  <2>1. menu_lev \in Seq(Nat) /\ Deep(calls, menu_lev)
    BY WalkFacts
  <2>2. Last(calls).lev <= Len(menu_lev')
    BY <1>3, <1>4 DEF Call
  <2>3. QED
    BY <1>2, <1>3, <2>1, <2>2, DeepRenamed
<1>6. calls' \in Seq(Frames) /\ Deep(calls', menu_lev')
  <2>1. Fits(NextItem, menu_lev')
    BY <1>3, <1>4 DEF Fits
  <2>2. Call.lev <= NextItem.lev /\ NextItem.lev <= NextItem.lev
        /\ Len(menu_lev') <= Len(menu_lev')
    BY <1>3, <1>4
  <2>3. QED
    BY <1>1, <1>2, <1>3, <1>4, <1>5, <2>1, <2>2, DeepCalling
<1>7. RowInv'
  <2>1. calls' # <<>> /\ Last(calls') = NextItem
    <3>1. Front(calls) \in Seq(Frames)
      BY <1>2, FrontLast
    <3>2. QED
      BY <1>1, <1>4, <3>1, Appended
  <2>2. Call' = NextItem
    BY <2>1 DEF Call
  <2>3. Entered' = Item
    BY <2>2, <1>4 DEF Entered, Item
  <2>4. QED
    BY <1>1, <1>3, <1>4, <2>1, <2>2, <2>3 DEF RowInv
<1>8. Tables(db')
  <2>1. Tables(db)
    BY WalkFacts
  <2>2. db' = Created(menu_lev') \/ db' = db
    BY DEF ItemObject
  <2>3. Tables(Created(menu_lev'))
    BY <1>3, <2>1, CreatedTables
  <2>4. QED
    BY <2>1, <2>2, <2>3
<1>9. QED
  BY <1>1, <1>3, <1>6, <1>7, <1>8, WalkFacts, WalkStep DEF ItemObject, Places

LEMMA RowType ==
  ASSUME WalkInv, At("main", "row")
  PROVE  /\ Row \in Rows /\ Entered \in Objects
         /\ calls \in Seq(Frames) /\ calls # <<>> /\ Call \in Frames
         /\ Call.lev \in Nat \ {0} /\ Fits(Call, menu_lev)
         /\ menu_lev \in Seq(Nat) /\ Len(menu_lev) = Call.lev
         /\ Front(menu_lev) \in Seq(Nat) /\ Len(Front(menu_lev)) = Call.lev - 1
<1>1. /\ calls \in Seq(Frames) /\ calls # <<>> /\ Call.node \in Arrays
      /\ Entered \in Objects /\ Len(menu_lev) = Call.lev
      /\ menu_lev \in Seq(Nat) /\ Deep(calls, menu_lev)
  BY WalkFacts DEF WalkInv, RowInv
<1>2. Call \in Frames /\ Fits(Call, menu_lev) /\ Call.lev \in Nat
  BY <1>1, CallType, DeepFront DEF Call, Frames
<1>3. Call.lev \in Nat \ {0}
  BY <1>1, <1>2 DEF Fits
<1>4. menu_lev # <<>>
  BY <1>1, <1>3, EmptySeq
<1>5. Front(menu_lev) \in Seq(Nat) /\ Len(Front(menu_lev)) = Call.lev - 1
  BY <1>1, <1>4, FrontLast
<1>6. Call.lev # 1 => Front(Front(menu_lev)) \in Seq(Nat)
  <2>1. Call.lev # 1 => Front(menu_lev) # <<>>
    BY <1>3, <1>5, EmptySeq
  <2>2. QED
    BY <1>5, <2>1, FrontLast
<1>7. Dish[Entered] \in Nat \cup {NoDish}
  BY <1>1, TreeAssumption
<1>8. 0 \in 0..(IdModulus - 1)
  BY SizeAssumption
<1>9. Row \in Rows
  BY <1>1, <1>3, <1>6, <1>7, <1>8 DEF Row, Rows
<1>10. QED
  BY <1>1, <1>2, <1>3, <1>5, <1>9

LEMMA InsertRowStep ==
  ASSUME WalkInv, InsertRow
  PROVE  WalkInv'
<1> DEFINE g == Frame(Entered, Call.lev)
<1>1. /\ Row \in Rows /\ Entered \in Objects /\ Entered \notin Arrays
      /\ calls \in Seq(Frames) /\ calls # <<>> /\ Call \in Frames
      /\ Call.lev \in Nat /\ Fits(Call, menu_lev)
      /\ menu_lev \in Seq(Nat) /\ menu_lev' = menu_lev
      /\ calls' = Append(calls, g)
  BY RowType, TreeAssumption DEF InsertRow
<1>2. g \in Frames /\ g.lev = Call.lev /\ g.node = Entered
  BY <1>1, FrameFields DEF Nodes
<1> HIDE DEF g
<1>3. Fits(g, menu_lev)
  BY <1>1, <1>2 DEF Fits
<1>4. \A k \in DOMAIN calls : calls[k].lev <= g.lev
  <2>1. Deep(calls, menu_lev) /\ DOMAIN calls = 1..Len(calls)
        /\ Len(calls) \in Nat \ {0} /\ Call = calls[Len(calls)]
    BY <1>1, WalkFacts, FrontLast, FrameLevels DEF Call
  <2>2. Len(calls) \in DOMAIN calls /\ \A k \in DOMAIN calls : k <= Len(calls)
    BY <2>1
  <2>3. QED
    BY <1>2, <2>1, <2>2 DEF Deep
<1>5. calls' \in Seq(Frames) /\ Deep(calls', menu_lev')
  BY <1>1, <1>2, <1>3, <1>4, WalkFacts, DeepAppend, Appended
<1>6. Tables(db')
  <2>1. Tables(db)
    BY WalkFacts
  <2>2. Tables(Inserted(Front(menu_lev), Row, Name[Entered]))
    BY <1>1, <2>1, InsertedRows
  <2>3. QED
    BY <2>1, <2>2 DEF InsertRow
<1>7. GoTo("main", "walk") /\ RowInv'
  BY DEF InsertRow, RowInv, GoTo, At, WalkInv, TypeOK, Threads
<1>8. QED
  BY <1>1, <1>5, <1>6, <1>7, WalkFacts, WalkStep DEF InsertRow, Places

LEMMA ReturnStep ==
  ASSUME WalkInv, Return
  PROVE  WalkInv'
<1>1. Walking /\ calls \in Seq(Frames) /\ calls # <<>>
      /\ menu_lev \in Seq(Nat) /\ Deep(calls, menu_lev)
      /\ calls' = Front(calls) /\ menu_lev' = menu_lev
  BY WalkFacts DEF Return, Walking
<1>2. calls' \in Seq(Frames) /\ Deep(calls', menu_lev')
  BY <1>1, DeepFront, FrontLast
<1>3. QED
  BY <1>1, <1>2, NotRow, WalkFacts, WalkStep DEF Return, Walking, fileVars

LEMMA AnsweredStep ==
  ASSUME WalkInv, Answered
  PROVE  WalkInv'
<1>1. PICK r \in Answers :
        /\ answer' = r /\ calls' = <<Frame(r, 0)>>
        /\ toalDishesNumber' = Cardinality(DishArrays \cap NodesOf(r))
  BY DEF Answered
<1>2. r \in Nodes /\ r \notin Arrays
  BY TreeAssumption DEF Nodes
<1>3. Frame(r, 0) \in Frames /\ Frame(r, 0).lev = 0 /\ Frame(r, 0).node = r
  BY <1>2, FrameFields
<1>4. calls' \in Seq(Frames) /\ Deep(calls', menu_lev')
  <2>1. menu_lev' = menu_lev /\ Len(menu_lev) \in Nat
    BY WalkFacts DEF Answered
  <2>2. Fits(Frame(r, 0), menu_lev')
    BY <1>2, <1>3, <2>1 DEF Fits
  <2> DEFINE f == Frame(r, 0)
  <2> HIDE DEF f
  <2>3. calls' = <<f>> /\ f \in Frames /\ f.lev = 0 /\ Fits(f, menu_lev')
    BY <1>1, <1>3, <2>2 DEF f
  <2>4. QED
    BY <2>3 DEF Deep
<1>5. toalDishesNumber' \in Nat
  <2>1. IsFiniteSet(DishArrays \cap NodesOf(r))
    <3>1. DishArrays \cap NodesOf(r) \subseteq Nodes
      BY TreeAssumption DEF Nodes
    <3>2. QED
      BY <3>1, TreeAssumption, FS_Subset
  <2>2. QED
    BY <1>1, <2>1, FS_CardinalityType
<1>6. pc' \in [Threads -> Places] /\ RowInv'
  BY DEF Answered, GoTo, At, RowInv, WalkInv, TypeOK, Threads, Places
<1>7. WalkOK' /\ FilesOK'
  BY <1>1, <1>4, <1>5 DEF Answered, WalkInv, TypeOK, WalkOK, FilesOK, fileVars
<1>8. TypeOK'
  BY <1>6, <1>7 DEF Answered, WalkInv, TypeOK
<1>9. CallsInv'
  BY <1>4 DEF CallsInv, Deep, Fits
<1>10. QED
  BY <1>6, <1>8, <1>9 DEF WalkInv

LEMMA FinishFetchStep ==
  ASSUME WalkInv, FinishFetch
  PROVE  WalkInv'
<1>1. pc' \in [Threads -> Places] /\ RowInv'
  BY DEF FinishFetch, GoTo, At, RowInv, WalkInv, TypeOK, Threads, Places
<1>2. answer' \in Answers \cup {NoAnswer} /\ served' \in Answers \cup {NoAnswer}
  BY DEF FinishFetch, WalkInv, TypeOK, WalkOK
<1>3. WalkOK' /\ FilesOK'
  BY <1>2 DEF FinishFetch, WalkInv, TypeOK, WalkOK, FilesOK, fileVars
<1>4. CallsInv'
  BY DEF FinishFetch, WalkInv, CallsInv
<1>5. QED
  BY <1>1, <1>2, <1>3, <1>4 DEF FinishFetch, WalkInv, TypeOK

LEMMA WalkInvNext == WalkInv /\ [Next]_vars => WalkInv'
<1> SUFFICES ASSUME WalkInv, [Next]_vars PROVE WalkInv'
  OBVIOUS
<1>1. CASE BeginFetch \/ BeginUnbind \/ RemoveMenus \/ FetchFails
  BY <1>1, WalkInvFiles
<1>2. CASE \E t \in Threads : MakeDirectory(t) \/ MakeMainTable(t)
  BY <1>2, WalkInvFiles
<1>3. CASE Answered
  BY <1>3, AnsweredStep
<1>4. CASE \E a \in Arrays : VisitArray(a)
  BY <1>4, VisitArrayStep
<1>5. CASE \E o \in Objects : VisitObject(o)
  BY <1>5, VisitObjectStep
<1>6. CASE SkipItem
  BY <1>6, SkipItemStep
<1>7. CASE ItemArray
  BY <1>7, ItemArrayStep
<1>8. CASE ItemObject
  BY <1>8, ItemObjectStep
<1>9. CASE InsertRow
  BY <1>9, InsertRowStep
<1>10. CASE Return
  BY <1>10, ReturnStep
<1>11. CASE FinishFetch
  BY <1>11, FinishFetchStep
<1>12. CASE UNCHANGED vars
  BY <1>12 DEF vars, walkVars, fileVars, WalkInv, TypeOK, WalkOK, FilesOK,
               CallsInv, RowInv, At, Call, Entered
<1>13. QED
  BY <1>1, <1>2, <1>3, <1>4, <1>5, <1>6, <1>7, <1>8, <1>9, <1>10, <1>11, <1>12
  DEF Next, MainStep, UnbindStep, Threads

-----------------------------------------------------------------------------
(* The links between the tables                                            *)

\* LinksInv of the tables d.
LinksOf(d) ==
  \A T \in DOMAIN d : \A i \in DOMAIN d[T] :
    /\ d[T][i].prev = IF T = <<>> THEN NoLink ELSE Front(T)
    /\ d[T][i].next # NoLink =>
         d[T][i].next # <<>> /\ Front(d[T][i].next) = T

\* What a step does to the tables.
LEMMA TableSteps ==
  ASSUME WalkInv, [Next]_vars
  PROVE  \/ db' = db \/ db' = NoTables \/ InsertRow
         \/ \E T \in Seq(Nat) : db' = Created(T)
<1>1. ItemObject => \/ db' = db
                    \/ db' = Created(menu_lev') /\ menu_lev' \in Seq(Nat)
  BY ItemName DEF ItemObject
<1>2. <<>> \in Seq(Nat)
  BY EmptySeq
<1>3. CASE BeginFetch \/ BeginUnbind \/ RemoveMenus \/ FetchFails
  BY <1>3 DEF BeginFetch, BeginUnbind, RemoveMenus, FetchFails, fileVars
<1>4. CASE \E t \in Threads : MakeDirectory(t) \/ MakeMainTable(t)
  BY <1>4, <1>2 DEF MakeDirectory, MakeMainTable
<1>5. CASE \/ Answered \/ SkipItem \/ ItemArray \/ Return \/ FinishFetch
           \/ \E a \in Arrays : VisitArray(a)
           \/ \E o \in Objects : VisitObject(o)
  BY <1>5 DEF Answered, SkipItem, ItemArray, Return, FinishFetch, VisitArray,
              VisitObject, fileVars
<1>6. CASE ItemObject
  BY <1>6, <1>1
<1>7. CASE UNCHANGED vars
  BY <1>7 DEF vars, fileVars
<1>8. QED
  BY <1>3, <1>4, <1>5, <1>6, <1>7 DEF Next, MainStep, UnbindStep, Threads

LEMMA LinksKept ==
  ASSUME WalkInv, LinksInv, [Next]_vars
  PROVE  LinksInv'
<1>1. Tables(db) /\ LinksOf(db)
  BY WalkFacts DEF LinksInv, LinksOf
<1>2. CASE db' = db
  BY <1>1, <1>2 DEF LinksInv, LinksOf
<1>3. CASE db' = NoTables
  BY <1>3 DEF LinksInv, NoTables
<1>4. ASSUME NEW T \in Seq(Nat), db' = Created(T)
      PROVE  LinksInv'
  <2>1. \A U \in DOMAIN db' : \/ U \in DOMAIN db /\ db'[U] = db[U]
                              \/ db'[U] = <<>>
    BY <1>1, <1>4, CreatedTables
  <2>2. DOMAIN <<>> = {}
    OBVIOUS
  <2>3. QED
    BY <1>1, <2>1, <2>2 DEF LinksInv, LinksOf
<1>5. CASE InsertRow /\ db' # db
  <2>1. db' = Inserted(Front(menu_lev), Row, Name[Entered]) /\ At("main", "row")
    BY <1>5 DEF InsertRow
  <2>2. Row \in Rows /\ menu_lev \in Seq(Nat) /\ menu_lev # <<>>
        /\ Call.lev \in Nat \ {0} /\ Len(menu_lev) = Call.lev
        /\ Front(menu_lev) \in Seq(Nat) /\ Len(Front(menu_lev)) = Call.lev - 1
    BY <2>1, RowType, EmptySeq
  <2>3. /\ Row.prev = IF Front(menu_lev) = <<>> THEN NoLink ELSE Front(Front(menu_lev))
        /\ Row.next # NoLink => Row.next = menu_lev
    <3>1. Call.lev = 1 <=> Front(menu_lev) = <<>>
      BY <2>2, EmptySeq
    <3>2. QED
      BY <3>1 DEF Row
  <2>4. DOMAIN db' = DOMAIN db
        /\ \A U \in DOMAIN db : \A i \in DOMAIN db'[U] :
             \/ /\ i \in DOMAIN db[U]
                /\ db'[U][i].prev = db[U][i].prev
                /\ db'[U][i].next = db[U][i].next
             \/ /\ U = Front(menu_lev)
                /\ db'[U][i].prev = Row.prev /\ db'[U][i].next = Row.next
    <3> DEFINE P == Front(menu_lev)
               row == Row
               named == Name[Entered]
    <3>1. db' = Inserted(P, row, named) /\ row \in Rows
      BY <2>1, <2>2
    <3> HIDE DEF P, row, named
    <3>2. LET d == Inserted(P, row, named)
          IN  /\ DOMAIN d = DOMAIN db
              /\ \A U \in DOMAIN db : \A i \in DOMAIN d[U] :
                   \/ /\ i \in DOMAIN db[U]
                      /\ d[U][i].prev = db[U][i].prev
                      /\ d[U][i].next = db[U][i].next
                   \/ /\ U = P
                      /\ d[U][i].prev = row.prev /\ d[U][i].next = row.next
      BY <1>1, <3>1, InsertedRows
    <3>3. QED
      BY <3>1, <3>2 DEF P, row
  <2> DEFINE P == Front(menu_lev)
             row == Row
  <2>5. /\ row.prev = IF P = <<>> THEN NoLink ELSE Front(P)
        /\ row.next # NoLink => row.next # <<>> /\ Front(row.next) = P
    BY <2>2, <2>3
  <2>6. \A U \in DOMAIN db : \A i \in DOMAIN db'[U] :
             \/ /\ i \in DOMAIN db[U]
                /\ db'[U][i].prev = db[U][i].prev
                /\ db'[U][i].next = db[U][i].next
             \/ /\ U = P
                /\ db'[U][i].prev = row.prev /\ db'[U][i].next = row.next
    BY <2>4
  <2> HIDE DEF P, row
  <2>7. QED
    BY <1>1, <2>4, <2>5, <2>6 DEF LinksInv, LinksOf
<1>6. QED
  BY <1>2, <1>3, <1>4, <1>5, TableSteps

LEMMA LinksInit == Init => LinksInv
BY DEF Init, LinksInv

\* LinkedTablesExist of the tables d.
Reaching(d) ==
  \A T \in DOMAIN d : \A i \in DOMAIN d[T] :
    d[T][i].next \in DOMAIN d \cup {NoLink}

LEMMA ReachingCreated ==
  ASSUME Tables(db), Reaching(db), NEW T \in Seq(Nat)
  PROVE  Reaching(Created(T))
<1>1. /\ \A U \in DOMAIN db : Created(T)[U] = db[U]
      /\ DOMAIN db \subseteq DOMAIN Created(T)
      /\ \A U \in DOMAIN Created(T) : U \notin DOMAIN db =>
           U = T /\ menudb /\ Created(T)[T] = <<>>
  BY CreatedTables
<1>2. DOMAIN <<>> = {}
  OBVIOUS
<1>3. QED
  BY <1>1, <1>2 DEF Reaching

LEMMA ReachingInserted ==
  ASSUME Tables(db), Reaching(db), NEW T, NEW row \in Rows, NEW named,
         row.next \in DOMAIN db \cup {NoLink}
  PROVE  Reaching(Inserted(T, row, named))
<1> DEFINE d == Inserted(T, row, named)
<1>1. /\ DOMAIN d = DOMAIN db
      /\ \A U \in DOMAIN db : \A i \in DOMAIN d[U] :
           \/ i \in DOMAIN db[U] /\ d[U][i].next = db[U][i].next
           \/ d[U][i].next = row.next
  BY InsertedRows
<1> HIDE DEF d
<1>2. Reaching(d)
  BY <1>1 DEF Reaching
<1>3. QED
  BY <1>2 DEF d

Quiet == WalkInv /\ QuietInv /\ LinkedTablesExist

LEMMA QuietDef == LinkedTablesExist <=> (~disturbed => Reaching(db))
BY DEF LinkedTablesExist, Reaching

LEMMA QuietInit == Init => QuietInv /\ LinkedTablesExist
BY DEF Init, QuietInv, LinkedTablesExist, At, Threads

\* The steps in which the fetch or an unbinding clears the tables.
LEMMA QuietClears ==
  ASSUME Quiet,
         \/ BeginFetch \/ BeginUnbind \/ RemoveMenus \/ FetchFails
         \/ \E t \in Threads : MakeDirectory(t) \/ MakeMainTable(t)
  PROVE  QuietInv' /\ LinkedTablesExist'
<1>1. pc \in [Threads -> Places] /\ Tables(db) /\ <<>> \in Seq(Nat)
      /\ (~disturbed => Reaching(db))
  BY WalkFacts, EmptySeq, QuietDef DEF Quiet, WalkInv, TypeOK
<1>2. Reaching(NoTables)
  BY DEF Reaching, NoTables
<1>3. CASE BeginFetch
  <2>1. QuietInv'
    BY <1>1, <1>3 DEF BeginFetch, QuietInv, GoTo, At, Threads
  <2>2. LinkedTablesExist'
    BY <1>3 DEF BeginFetch, LinkedTablesExist, NoTables
  <2>3. QED
    BY <2>1, <2>2
<1>4. CASE BeginUnbind
  <2>1. QuietInv'
    BY <1>1, <1>4 DEF BeginUnbind, Quiet, QuietInv, GoTo, At, Threads
  <2>2. LinkedTablesExist'
    BY <1>4 DEF BeginUnbind, Quiet, LinkedTablesExist, fileVars
  <2>3. QED
    BY <2>1, <2>2
<1>5. CASE RemoveMenus
  <2>1. QuietInv'
    BY <1>1, <1>5 DEF RemoveMenus, Quiet, QuietInv, GoTo, At, Threads
  <2>2. LinkedTablesExist'
    BY <1>5 DEF RemoveMenus, LinkedTablesExist, NoTables
  <2>3. QED
    BY <2>1, <2>2
<1>6. CASE FetchFails
  <2>1. QuietInv'
    BY <1>1, <1>6 DEF FetchFails, Quiet, QuietInv, GoTo, At, Threads
  <2>2. LinkedTablesExist'
    BY <1>6 DEF FetchFails, Quiet, LinkedTablesExist, fileVars
  <2>3. QED
    BY <2>1, <2>2
<1>7. ASSUME NEW t \in Threads, MakeDirectory(t)
      PROVE  QuietInv' /\ LinkedTablesExist'
  <2>1. QuietInv'
    BY <1>1, <1>7 DEF MakeDirectory, Quiet, QuietInv, GoTo, At, Threads
  <2>2. LinkedTablesExist'
    BY <1>7 DEF MakeDirectory, Quiet, LinkedTablesExist
  <2>3. QED
    BY <2>1, <2>2
<1>8. ASSUME NEW t \in Threads, MakeMainTable(t)
      PROVE  QuietInv' /\ LinkedTablesExist'
  <2>1. QuietInv'
    BY <1>1, <1>8 DEF MakeMainTable, Quiet, QuietInv, GoTo, At, Threads
  <2>2. ~disturbed' => Reaching(db')
    BY <1>1, <1>8, ReachingCreated DEF MakeMainTable
  <2>3. LinkedTablesExist'
    BY <2>2 DEF LinkedTablesExist, Reaching
  <2>4. QED
    BY <2>1, <2>3
<1>9. QED
  BY <1>3, <1>4, <1>5, <1>6, <1>7, <1>8

\* The steps of the walk that touch no table.
LEMMA QuietWalks ==
  ASSUME Quiet,
         \/ Answered \/ SkipItem \/ ItemArray \/ Return \/ FinishFetch
         \/ \E a \in Arrays : VisitArray(a)
         \/ \E o \in Objects : VisitObject(o)
  PROVE  QuietInv' /\ LinkedTablesExist'
<1>1. db' = db /\ menudb' = menudb /\ disturbed' = disturbed
  BY DEF Answered, SkipItem, ItemArray, Return, FinishFetch, VisitArray,
         VisitObject, fileVars
<1>2. \/ At("main", "walk") /\ pc' = pc
      \/ At("main", "ask") /\ GoTo("main", "walk")
      \/ GoTo("main", "idle")
  BY DEF Answered, SkipItem, ItemArray, AtItem, Return, FinishFetch, VisitArray,
         VisitObject, Walking
<1>3. LinkedTablesExist'
  BY <1>1 DEF Quiet, LinkedTablesExist
<1>4. pc \in [Threads -> Places]
  BY DEF Quiet, WalkInv, TypeOK
<1>5. QuietInv'
  BY <1>1, <1>2, <1>4 DEF Quiet, QuietInv, GoTo, At, Threads
<1>6. QED
  BY <1>3, <1>5

LEMMA QuietItem ==
  ASSUME Quiet, ItemObject
  PROVE  QuietInv' /\ LinkedTablesExist'
<1>1. /\ AtItem /\ Item \in Objects /\ GoTo("main", "row")
      /\ At("main", "walk") /\ menu_lev' \in Seq(Nat)
      /\ menudb' = menudb /\ disturbed' = disturbed
      /\ db' = IF Dish[Item] = NoDish THEN Created(menu_lev') ELSE db
  BY ItemName DEF Quiet, ItemObject, AtItem, Walking
<1>2. Tables(db) /\ pc \in [Threads -> Places] /\ calls \in Seq(Frames)
      /\ calls # <<>> /\ (~disturbed => Reaching(db))
  BY <1>1, WalkFacts, QuietDef, CallFields
  DEF Quiet, WalkInv, TypeOK, AtItem
<1>3. Entered' = Item
  <2>1. /\ NextItem \in Frames /\ NextItem.node = Call.node
        /\ NextItem.i = Call.i + 1
    BY <1>1, NextItemFields DEF Quiet
  <2>2. Front(calls) \in Seq(Frames)
    BY <1>2, FrontLast
  <2>3. Call' = NextItem
    BY <2>1, <2>2, Appended DEF ItemObject, Call
  <2>4. QED
    BY <2>1, <2>3 DEF Entered, Item
<1>4. ~disturbed => menudb /\ At("unbind", "idle")
  BY <1>1 DEF Quiet, QuietInv, At
<1>5. ~disturbed /\ Dish[Item] = NoDish => menu_lev' \in DOMAIN db'
  BY <1>1, <1>2, <1>4, CreatedTables
<1>6. QuietInv'
  BY <1>1, <1>2, <1>3, <1>4, <1>5 DEF QuietInv, GoTo, At, Threads
<1>7. ~disturbed' => Reaching(db')
  BY <1>1, <1>2, ReachingCreated
<1>8. LinkedTablesExist'
  BY <1>7 DEF LinkedTablesExist, Reaching
<1>9. QED
  BY <1>6, <1>8

LEMMA QuietRow ==
  ASSUME Quiet, InsertRow
  PROVE  QuietInv' /\ LinkedTablesExist'
<1>1. /\ At("main", "row") /\ GoTo("main", "walk")
      /\ menudb' = menudb /\ disturbed' = disturbed
      /\ pc \in [Threads -> Places] /\ Tables(db)
      /\ (~disturbed => Reaching(db))
  BY WalkFacts, QuietDef DEF InsertRow, Quiet, WalkInv, TypeOK
<1>2. QuietInv'
  BY <1>1 DEF Quiet, QuietInv, GoTo, At, Threads
<1>3. ~disturbed => Row.next \in DOMAIN db \cup {NoLink}
  BY <1>1 DEF Quiet, QuietInv, Row
<1>4. Row \in Rows
  BY <1>1, RowType DEF Quiet
<1>5. ~disturbed' => Reaching(db')
  <2> DEFINE row == Row
  <2> HIDE DEF row
  <2>1. row \in Rows /\ (~disturbed => row.next \in DOMAIN db \cup {NoLink})
    BY <1>3, <1>4 DEF row
  <2>2. ~disturbed => Reaching(Inserted(Front(menu_lev), row, Name[Entered]))
    BY <1>1, <2>1, ReachingInserted
  <2>3. db' = db \/ db' = Inserted(Front(menu_lev), row, Name[Entered])
    BY DEF InsertRow, row
  <2>4. QED
    BY <1>1, <2>2, <2>3
<1>6. LinkedTablesExist'
  BY <1>5 DEF LinkedTablesExist, Reaching
<1>7. QED
  BY <1>2, <1>6

LEMMA QuietNext ==
  ASSUME Quiet, [Next]_vars
  PROVE  QuietInv' /\ LinkedTablesExist'
<1>1. CASE \/ BeginFetch \/ BeginUnbind \/ RemoveMenus \/ FetchFails
           \/ \E t \in Threads : MakeDirectory(t) \/ MakeMainTable(t)
  BY <1>1, QuietClears
<1>2. CASE \/ Answered \/ SkipItem \/ ItemArray \/ Return \/ FinishFetch
           \/ \E a \in Arrays : VisitArray(a)
           \/ \E o \in Objects : VisitObject(o)
  BY <1>2, QuietWalks
<1>3. CASE ItemObject
  BY <1>3, QuietItem
<1>4. CASE InsertRow
  BY <1>4, QuietRow
<1>5. CASE UNCHANGED vars
  BY <1>5 DEF vars, walkVars, fileVars, Quiet, QuietInv, LinkedTablesExist, At,
              Call, Entered
<1>6. QED
  BY <1>1, <1>2, <1>3, <1>4, <1>5 DEF Next, MainStep, UnbindStep, Threads

-----------------------------------------------------------------------------
(* The ids of the rows                                                     *)

\* The rows of a table are counted from 1, the last one a uint8_t holds as 0.
Counted(rows) ==
  Len(rows) <= IdModulus =>
    \A k \in DOMAIN rows : rows[k].id = IF k = IdModulus THEN 0 ELSE k

LEMMA MenuIdCounts ==
  ASSUME NEW rows \in Seq(Rows), Counted(rows), Len(rows) < IdModulus
  PROVE  MenuId(rows) = IF Len(rows) + 1 = IdModulus THEN 0 ELSE Len(rows) + 1
<1>1. DOMAIN rows = 1..Len(rows) /\ Len(rows) \in Nat
  BY LenProperties
<1>2. \A k \in 1..Len(rows) : rows[k].id = k
  BY <1>1, SizeAssumption DEF Counted
<1>3. Len(rows) \in GreatestIds(rows)
  <2>1. Len(rows) \in {0} \cup {rows[i].id : i \in DOMAIN rows}
    <3>1. CASE Len(rows) = 0
      BY <3>1
    <3>2. CASE Len(rows) # 0
      BY <1>1, <1>2, <3>2
    <3>3. QED
      BY <3>1, <3>2
  <2>2. \A i \in DOMAIN rows : rows[i].id <= Len(rows)
    BY <1>1, <1>2
  <2>3. QED
    BY <2>1, <2>2 DEF GreatestIds
<1>4. \A m \in GreatestIds(rows) : m = Len(rows)
  <2> SUFFICES ASSUME NEW m \in GreatestIds(rows) PROVE m = Len(rows)
    OBVIOUS
  <2>1. /\ m \in {0} \cup {rows[i].id : i \in DOMAIN rows}
        /\ \A i \in DOMAIN rows : rows[i].id <= m
    BY DEF GreatestIds
  <2>2. m \in Nat /\ m <= Len(rows)
    BY <1>1, <1>2, <2>1
  <2>3. CASE Len(rows) = 0
    BY <2>2, <2>3
  <2>4. CASE Len(rows) # 0
    <3>1. Len(rows) \in DOMAIN rows /\ rows[Len(rows)].id = Len(rows)
      BY <1>1, <1>2, <2>4
    <3>2. Len(rows) <= m
      BY <2>1, <3>1
    <3>3. \A a, b \in Nat : a <= b /\ b <= a => a = b
      OBVIOUS
    <3>4. Len(rows) \in Nat
      BY <1>1
    <3>5. QED
      BY <2>2, <3>2, <3>3, <3>4, Zenon
  <2>5. QED
    BY <2>3, <2>4
<1>5. (CHOOSE m \in GreatestIds(rows) : TRUE) = Len(rows)
  BY <1>3, <1>4
<1>6. MenuId(rows) = (1 + Len(rows)) % IdModulus
  BY <1>3, <1>5 DEF MenuId
<1>7. \A n \in Nat : n < IdModulus => n % IdModulus = n
  BY SizeAssumption
<1>8. IdModulus % IdModulus = 0
  BY SizeAssumption
<1>9. QED
  BY <1>1, <1>6, <1>7, <1>8, SizeAssumption

LEMMA CountedInserted ==
  ASSUME Tables(db), \A U \in DOMAIN db : Counted(db[U]),
         NEW T, NEW row \in Rows, NEW named
  PROVE  LET d == Inserted(T, row, named)
         IN  \A U \in DOMAIN d : Counted(d[U])
<1>1. CASE T \notin DOMAIN db
  BY <1>1 DEF Inserted
<1>2. CASE T \in DOMAIN db
  <2> DEFINE old == db[T]
             new == [row EXCEPT !.id = MenuId(old)]
             rows == IF named = "plain" THEN Append(old, new) ELSE old
             out == IF row.dish = NoDish THEN Wiped(rows) ELSE rows
  <2>1. old \in Seq(Rows) /\ Counted(old)
    BY <1>2 DEF Tables
  <2>2. new \in Rows /\ new.id = MenuId(old)
    <3> HIDE DEF old
    <3>1. MenuId(old) \in 0..(IdModulus - 1)
      BY <2>1, MenuIdType
    <3>2. QED
      BY <3>1 DEF Rows
  <2>3. Inserted(T, row, named) = [db EXCEPT ![T] = out]
    BY <1>2 DEF Inserted
  <2> HIDE DEF old, new
  <2>4. rows \in Seq(Rows) /\ Counted(rows)
    <3>1. CASE named = "plain"
      <4> DEFINE t == Append(old, new)
      <4>1. /\ t \in Seq(Rows) /\ Len(t) = Len(old) + 1
            /\ \A i \in 1..Len(old) : t[i] = old[i]
            /\ t[Len(old) + 1] = new
        BY <2>1, <2>2, AppendProperties
      <4>2. /\ DOMAIN t = 1..(Len(old) + 1) /\ DOMAIN old = 1..Len(old)
            /\ Len(old) \in Nat
        BY <2>1, <4>1, LenProperties
      <4> HIDE DEF t
      <4>3. ASSUME Len(t) <= IdModulus, NEW k \in DOMAIN t
            PROVE  t[k].id = IF k = IdModulus THEN 0 ELSE k
        <5>1. Len(old) < IdModulus
          BY <4>1, <4>2, <4>3, SizeAssumption
        <5>2. CASE k = Len(old) + 1
          BY <2>1, <2>2, <4>1, <5>1, <5>2, MenuIdCounts
        <5>3. CASE k \in 1..Len(old)
          BY <2>1, <4>1, <4>2, <5>1, <5>3, SizeAssumption DEF Counted
        <5>4. QED
          BY <4>2, <4>3, <5>2, <5>3
      <4>4. QED
        BY <3>1, <4>1, <4>3 DEF Counted, t
    <3>2. CASE named # "plain"
      BY <2>1, <3>2
    <3>3. QED
      BY <3>1, <3>2
  <2> HIDE DEF rows
  <2>5. Counted(out)
    <3>1. /\ Wiped(rows) \in Seq(Rows) /\ DOMAIN Wiped(rows) = DOMAIN rows
      BY <2>4, WipedRows
    <3>2. Len(Wiped(rows)) = Len(rows)
      BY <2>4, <3>1, LenProperties
    <3>3. \A k \in DOMAIN rows : Wiped(rows)[k].id = rows[k].id
      <4>1. \A r \in Rows : [r EXCEPT !.dish = NoDish].id = r.id
        BY DEF Rows
      <4>2. \A k \in DOMAIN rows : rows[k] \in Rows
        BY <2>4, ElementOfSeq, LenProperties
      <4>3. QED
        BY <4>1, <4>2 DEF Wiped
    <3>4. QED
      BY <2>4, <3>1, <3>2, <3>3 DEF Counted
  <2> HIDE DEF out
  <2>6. QED
    BY <1>2, <2>3, <2>5 DEF Tables
<1>3. QED
  BY <1>1, <1>2

LEMMA CountedNext ==
  ASSUME WalkInv, [Next]_vars, \A T \in DOMAIN db : Counted(db[T])
  PROVE  \A T \in DOMAIN db' : Counted(db'[T])
<1>1. Tables(db)
  BY WalkFacts
<1>2. Counted(<<>>)
  BY DEF Counted
<1>3. ASSUME NEW T \in Seq(Nat), db' = Created(T)
      PROVE  \A U \in DOMAIN db' : Counted(db'[U])
  <2>1. \A U \in DOMAIN db' : \/ U \in DOMAIN db /\ db'[U] = db[U]
                              \/ db'[U] = <<>>
    BY <1>1, <1>3, CreatedTables
  <2>2. QED
    BY <1>2, <2>1
<1>4. CASE InsertRow
  <2>1. Row \in Rows
    BY <1>4, RowType DEF InsertRow
  <2> DEFINE row == Row
             P == Front(menu_lev)
             named == Name[Entered]
  <2>2. row \in Rows /\ (db' = db \/ db' = Inserted(P, row, named))
    BY <1>4, <2>1 DEF InsertRow
  <2> HIDE DEF row, P, named
  <2>3. QED
    BY <1>1, <2>2, CountedInserted
<1>5. CASE db' = NoTables
  BY <1>5 DEF NoTables
<1>6. QED
  BY <1>3, <1>4, <1>5, TableSteps

LEMMA CountedInit == Init => \A T \in DOMAIN db : Counted(db[T])
BY DEF Init, Counted

-----------------------------------------------------------------------------
(* Theorems                                                                *)

(* The stack of the two parse functions, the name and the row that is due  *)
(* fit each other in every step of the walk (httpclient.go:816-922).       *)
THEOREM WalkIsWhole == Spec => []WalkInv
<1>1. Init => WalkInv
  BY WalkInvInit
<1>2. WalkInv /\ [Next]_vars => WalkInv'
  BY WalkInvNext
<1>3. QED
  BY <1>1, <1>2, PTL DEF Spec

(* Types of the walk and of the files, for every set of answers.           *)
THEOREM TypeCorrect == Spec => []TypeOK
<1>1. WalkInv => TypeOK
  BY DEF WalkInv
<1>2. QED
  BY <1>1, WalkIsWhole, PTL

(* Whatever an answer holds, the name has the "_" before which an item     *)
(* cuts it, so that the slice of jsonArrayParse is never out of range      *)
(* (httpclient.go:830-840).                                                *)
THEOREM CutExistsAlways == Spec => []CutExists
<1>1. WalkInv => CutExists
  BY NextItemFields DEF CutExists
<1>2. QED
  BY <1>1, WalkIsWhole, PTL

(* The way back that a row names is the page Qt came from, for every       *)
(* answer and every interleaving with unbindings (httpclient.go:843-867).  *)
THEOREM BackCorrect == Spec => []BackIsWhereFrom
<1>1. Init => LinksInv
  BY LinksInit
<1>2. WalkInv /\ LinksInv /\ [Next]_vars => LinksInv'
  BY LinksKept
<1>3. WalkInv /\ LinksInv => BackIsWhereFrom
  <2> SUFFICES ASSUME WalkInv, LinksInv,
                      NEW T \in DOMAIN db, NEW i \in DOMAIN db[T],
                      db[T][i].next \in DOMAIN db,
                      NEW j \in DOMAIN db[db[T][i].next]
               PROVE  db[db[T][i].next][j].prev = T
    BY DEF BackIsWhereFrom
  <2> DEFINE U == db[T][i].next
  <2>1. U # NoLink
    BY WalkFacts, SizeAssumption DEF Tables
  <2>2. U # <<>> /\ Front(U) = T
    BY <2>1 DEF LinksInv
  <2>3. QED
    BY <2>2 DEF LinksInv
<1>4. QED
  BY <1>1, <1>2, <1>3, WalkIsWhole, PTL DEF Spec

(* A fetch that no unbinding disturbs never leaves a row that leads to a   *)
(* missing table, whatever the answer holds and however often a fetch has  *)
(* failed before (httpclient.go:843-875, sqliteTask.c:446-467).            *)
THEOREM LinkedTablesCorrect == Spec => []LinkedTablesExist
<1>1. Init => QuietInv /\ LinkedTablesExist
  BY QuietInit
<1>2. WalkInv /\ QuietInv /\ LinkedTablesExist /\ [Next]_vars
        => QuietInv' /\ LinkedTablesExist'
  BY QuietNext DEF Quiet
<1>3. QED
  BY <1>1, <1>2, WalkIsWhole, PTL DEF Spec

(* The rows of a page have ids of their own as long as a uint8_t counts    *)
(* them, whatever rows an insert has failed for (sqliteTask.c:478-514).    *)
THEOREM IdsCorrect == Spec => []IdsTellRows
<1> DEFINE Ids == \A T \in DOMAIN db : Counted(db[T])
<1>1. Init => Ids
  BY CountedInit
<1>2. WalkInv /\ Ids /\ [Next]_vars => Ids'
  BY CountedNext
<1>3. WalkInv /\ Ids => IdsTellRows
  <2> SUFFICES ASSUME WalkInv, Ids, NEW T \in DOMAIN db,
                      Len(db[T]) <= IdModulus,
                      NEW i \in DOMAIN db[T], NEW j \in DOMAIN db[T],
                      db[T][i].id = db[T][j].id
               PROVE  i = j
    BY DEF IdsTellRows
  <2>1. DOMAIN db[T] = 1..Len(db[T]) /\ Len(db[T]) \in Nat
    BY WalkFacts, LenProperties DEF Tables
  <2>2. /\ db[T][i].id = IF i = IdModulus THEN 0 ELSE i
        /\ db[T][j].id = IF j = IdModulus THEN 0 ELSE j
    BY DEF Counted
  <2>3. i \in Nat \ {0} /\ j \in Nat \ {0}
    BY <2>1
  <2>4. QED
    BY <2>2, <2>3
<1>4. QED
  BY <1>1, <1>2, <1>3, WalkIsWhole, PTL DEF Spec

(* Of the dishes that Qt shows, any two whose ids fit a uint16_t leave     *)
(* different bytes on a plate (rewrCardTask.c:595-598).                    *)
THEOREM PlatesCorrect == Spec => []PlatesTellDishes
<1>1. WalkInv => PlatesTellDishes
  <2> SUFFICES ASSUME WalkInv,
                      NEW d \in DishesShown, NEW e \in DishesShown,
                      d < 65536, e < 65536, Block2(d) = Block2(e)
               PROVE  d = e
    BY DEF PlatesTellDishes
  <2>1. DishesShown \subseteq Nat
    <3>1. ASSUME NEW T \in DOMAIN db, NEW i \in DOMAIN db[T]
          PROVE  db[T][i].dish \in Nat \cup {NoDish}
      <4>1. db[T] \in Seq(Rows)
        BY WalkFacts DEF Tables
      <4>2. db[T][i] \in Rows
        BY <4>1, ElementOfSeq, LenProperties
      <4>3. QED
        BY <4>2 DEF Rows
    <3>2. ASSUME NEW x \in DishesShown
          PROVE  x \in Nat
      <4>1. PICK T \in {U \in DOMAIN db : Linked(U)} :
              x \in {db[T][i].dish : i \in DOMAIN db[T]}
        BY <3>2, SMT DEF DishesShown
      <4>2. PICK i \in DOMAIN db[T] : x = db[T][i].dish
        BY <4>1, SMT
      <4>3. x # NoDish
        BY <3>2, SMT DEF DishesShown
      <4>4. QED
        BY <3>1, <4>1, <4>2, <4>3
    <3>3. QED
      BY <3>2
  <2>2. d \in Nat /\ e \in Nat
    BY <2>1
  <2>3. QED
    BY <2>2, Block2Injective
<1>2. QED
  BY <1>1, WalkIsWhole, PTL

=============================================================================
