------------------------------- MODULE MenuTree -------------------------------
(***************************************************************************)
(* How a fetched menu becomes the tables Qt leads the user through: the    *)
(* recursive walk over the answer of the canteen service (httpclient.go,   *)
(* jsonObjectParse and jsonArrayParse), which keeps its place in the       *)
(* global name menu_lev, and the tables it makes and fills (sqliteTask.c). *)
(*                                                                         *)
(* The table menu_lev1_2_1 is the sequence <<2, 1>>, the main table        *)
(* menu_lev1 is <<>>: number j of the sequence follows the j-th "_" after  *)
(* the one in "menu_lev".  The answers are trees of JSON objects and       *)
(* arrays; whatever else an object or an array holds is skipped.           *)
(* Meanwhile an unbinding may clear the tables on another thread.          *)
(***************************************************************************)
EXTENDS Naturals, FiniteSets, SequencesExt

CONSTANTS
  Objects, Arrays,   \* the nodes of the answers
  Scalar,            \* an item of an array that is no object and no array
  Answers,           \* the objects an answer may consist of
  Members,           \* the arrays and the objects that an object holds
  Items,             \* the items of an array
  Dish,              \* the "id" of an object, or NoDish
  Name,              \* the "name" of an object: "plain", "quoted" (it holds
                     \* a quote, which ends the SQL string), or "none"
  DishArrays,        \* the arrays under the key "dishes"
  NoDish, NoLink, NoAnswer,
  IdModulus,         \* 256: menu_id is a uint8_t
  MaxFetches,        \* bound on the fetches
  MaxUnbinds         \* bound on the unbindings

Nodes == Objects \cup Arrays

ASSUME TreeAssumption ==
  /\ IsFiniteSet(Nodes) /\ Objects \cap Arrays = {}
  /\ Scalar \notin Nodes
  /\ Answers \subseteq Objects /\ NoAnswer \notin Answers
  /\ Members \in [Objects -> SUBSET Nodes]
  /\ Items \in [Arrays -> Seq(Nodes \cup {Scalar})]
  /\ Dish \in [Objects -> Nat \cup {NoDish}]
  /\ Name \in [Objects -> {"plain", "quoted", "none"}]
  /\ DishArrays \subseteq Arrays

ASSUME SizeAssumption ==
  /\ NoDish \notin Nat /\ NoLink \notin Seq(Nat)
  /\ IdModulus \in Nat \ {0}
  /\ MaxFetches \in Nat /\ MaxUnbinds \in Nat

VARIABLES
  \* the walk of the main loop
  pc,                \* where the main loop is, and where an unbinding is
  answer,            \* the answer under the walk
  calls,             \* the calls of the two functions, the outermost first
  menu_lev,          \* the global name, never reset
  lay_stackBak,      \* the level of the array walked last
  updateProcess, toalDishesNumber,
  \* the files
  menudb,            \* the directory is there
  db,                \* the tables in it, as functions from names to rows
  levelDb,           \* menu_level in base_config.db
  fetches, unbinds

\* History: what the properties say of earlier steps, read by no action.
VARIABLES
  served,            \* the answer whose tables are complete, or NoAnswer
  disturbed          \* an unbinding was under way during the fetch

walkVars == <<answer, calls, menu_lev, lay_stackBak, updateProcess,
              toalDishesNumber>>
fileVars == <<menudb, db>>
vars == <<pc, walkVars, fileVars, levelDb, fetches, unbinds, served,
          disturbed>>

Threads == {"main", "unbind"}
NoTables == [T \in {} |-> <<>>]

Init ==
  /\ pc = [t \in Threads |-> "idle"]
  /\ answer = NoAnswer /\ calls = <<>> /\ menu_lev = <<>>
  /\ lay_stackBak = 0 /\ updateProcess = 0 /\ toalDishesNumber = 0
  /\ menudb = TRUE /\ db = [T \in {<<>>} |-> <<>>]
  /\ levelDb = 0
  /\ fetches = 0 /\ unbinds = 0
  /\ served = NoAnswer /\ disturbed = FALSE

At(t, place) == pc[t] = place
GoTo(t, place) == pc' = [pc EXCEPT ![t] = place]

-----------------------------------------------------------------------------
(* The tables (sqliteTask.c).  A missing file is created empty, so without *)
(* its directory or without its table an access only fails.                *)

\* sqlite_create_menu_db.
Created(T) ==
  IF menudb THEN [U \in DOMAIN db \cup {T} |->
                    IF U \in DOMAIN db THEN db[U] ELSE <<>>]
            ELSE db

GreatestIds(rows) ==
  {m \in {0} \cup {rows[i].id : i \in DOMAIN rows} :
     \A i \in DOMAIN rows : rows[i].id <= m}

\* Mutants of MenuId: no uint8_t; the greatest id itself.
MenuIdWide(rows) == 1 + CHOOSE m \in GreatestIds(rows) : TRUE
MenuIdKept(rows) == CHOOSE m \in GreatestIds(rows) : TRUE

\* The greatest id plus one, as a uint8_t that starts as 0.
MenuId(rows) ==
  IF GreatestIds(rows) = {} THEN 0
  ELSE (1 + CHOOSE m \in GreatestIds(rows) : TRUE) % IdModulus

\* "update menu set dish_id = null where dish_id": where it is not 0.
Wiped(rows) ==
  [i \in DOMAIN rows |->
     IF rows[i].dish = 0 THEN rows[i] ELSE [rows[i] EXCEPT !.dish = NoDish]]

(* sqlite_insert_data_to_menu_db: a name with a quote spoils the insert;   *)
(* the update that follows a row without dish is made all the same.        *)
Inserted(T, row, named) ==
  IF T \in DOMAIN db
    THEN LET rows == IF named = "plain"
                       THEN Append(db[T], [row EXCEPT !.id = MenuId(db[T])])
                       ELSE db[T]
         IN  [db EXCEPT ![T] = IF row.dish = NoDish THEN Wiped(rows) ELSE rows]
    ELSE db

-----------------------------------------------------------------------------
(* What an answer holds: each node with the number of arrays around it,    *)
(* itself included.  Unless all is TRUE, items without a row are left out. *)

Below(p, all) ==
  IF p[1] \in Objects
    THEN {<<m, IF m \in Arrays THEN p[2] + 1 ELSE p[2]>> : m \in Members[p[1]]}
    ELSE {<<n, p[2]>> : n \in {m \in Nodes \cap Range(Items[p[1]]) :
                                all \/ m \in Arrays \/ Name[m] = "plain"}}

Content(r, all) ==
  LET upTo[n \in 0..Cardinality(Nodes)] ==
        IF n = 0 THEN {<<r, 0>>}
                 ELSE UNION {{p} \cup Below(p, all) : p \in upTo[n - 1]}
  IN  upTo[Cardinality(Nodes)]

NodesOf(r) == {p[1] : p \in Content(r, TRUE)}

\* The objects and the arrays right inside an object or an array.
Children(n) ==
  IF n \in Objects THEN Members[n] ELSE Nodes \cap Range(Items[n])

(* An answer is a JSON text: nothing in it is in two places, and nothing   *)
(* is around the answer itself.                                            *)
ASSUME JsonAssumption ==
  \A r \in Answers :
    /\ \A n \in NodesOf(r) : r \notin Children(n)
    /\ \A m, n \in NodesOf(r) : m # n => Children(m) \cap Children(n) = {}
    /\ \A a \in NodesOf(r) \cap Arrays : \A i, j \in DOMAIN Items[a] :
         i # j => Items[a][i] # Items[a][j] \/ Items[a][i] = Scalar

-----------------------------------------------------------------------------
(* Clearing the tables, by the main loop before a fetch and by an          *)
(* unbinding: three steps, the last two of which find the other's traces.  *)

\* Mutant of BeginFetch: the tables of the menu before are kept.
BeginFetchOver ==
  /\ At("main", "idle") /\ fetches < MaxFetches
  /\ GoTo("main", "mkdir") /\ fetches' = fetches + 1
  /\ served' = NoAnswer /\ disturbed' = ~At("unbind", "idle")
  /\ UNCHANGED <<walkVars, fileVars, levelDb, unbinds>>

BeginFetch ==
  /\ At("main", "idle") /\ fetches < MaxFetches
  /\ GoTo("main", "mkdir")
  /\ fetches' = fetches + 1
  /\ menudb' = FALSE /\ db' = NoTables
  /\ served' = NoAnswer /\ disturbed' = ~At("unbind", "idle")
  /\ UNCHANGED <<walkVars, levelDb, unbinds>>

\* unbind_clear_menu_db: the level in the database, then the tables.
BeginUnbind ==
  /\ At("unbind", "idle") /\ unbinds < MaxUnbinds
  /\ GoTo("unbind", "remove")
  /\ unbinds' = unbinds + 1
  /\ levelDb' = 0 /\ served' = NoAnswer
  /\ disturbed' = (disturbed \/ ~At("main", "idle"))
  /\ UNCHANGED <<walkVars, fileVars, fetches>>

RemoveMenus ==
  /\ At("unbind", "remove") /\ GoTo("unbind", "mkdir")
  /\ menudb' = FALSE /\ db' = NoTables
  /\ UNCHANGED <<walkVars, levelDb, fetches, unbinds, served, disturbed>>

MakeDirectory(t) ==
  /\ At(t, "mkdir") /\ GoTo(t, "table")
  /\ menudb' = TRUE
  /\ UNCHANGED <<walkVars, db, levelDb, fetches, unbinds, served, disturbed>>

MakeMainTable(t) ==
  /\ At(t, "table")
  /\ GoTo(t, IF t = "main" THEN "ask" ELSE "idle")
  /\ db' = Created(<<>>)
  /\ UNCHANGED <<walkVars, menudb, levelDb, fetches, unbinds, served,
                 disturbed>>

-----------------------------------------------------------------------------
(* The fetch (write_plate_http_get_stack_menu).                            *)

Frame(n, lev) ==
  [node |-> n, todo |-> IF n \in Objects THEN Members[n] ELSE {},
   i |-> 0, lev |-> lev]

\* Mutant of Answered: the progress of the fetch before is kept.
AnsweredOnTop ==
  /\ At("main", "ask") /\ GoTo("main", "walk")
  /\ \E r \in Answers :
       /\ answer' = r /\ calls' = <<Frame(r, 0)>>
       /\ toalDishesNumber' = Cardinality(DishArrays \cap NodesOf(r))
  /\ UNCHANGED <<menu_lev, lay_stackBak, updateProcess, fileVars, levelDb,
                 fetches, unbinds, served, disturbed>>

Answered ==
  /\ At("main", "ask") /\ GoTo("main", "walk")
  /\ \E r \in Answers :
       /\ answer' = r /\ calls' = <<Frame(r, 0)>>
       /\ toalDishesNumber' = Cardinality(DishArrays \cap NodesOf(r))
  /\ updateProcess' = 0
  /\ UNCHANGED <<menu_lev, lay_stackBak, fileVars, levelDb, fetches, unbinds,
                 served, disturbed>>

\* No answer, no JSON, or no result code of success: the tables stay empty.
FetchFails ==
  /\ At("main", "ask") /\ GoTo("main", "idle")
  /\ updateProcess' = 0
  /\ UNCHANGED <<answer, calls, menu_lev, lay_stackBak, toalDishesNumber,
                 fileVars, levelDb, fetches, unbinds, served, disturbed>>

-----------------------------------------------------------------------------
(* jsonObjectParse: the members of the object in the random order of a Go  *)
(* map.  lev is raised once more for every array among them.               *)

Walking == At("main", "walk") /\ calls # <<>>
Call == Last(calls)
Calling(frame, inner) == Append(Append(Front(calls), frame), inner)

\* Mutant of VisitArray: the level kept is that of the object.
VisitArrayBelow(a) ==
  /\ Walking /\ a \in Call.todo \cap Arrays
  /\ LET lev == Call.lev + 1
     IN  /\ calls' = Calling([Call EXCEPT !.todo = @ \ {a}, !.lev = lev],
                             Frame(a, lev))
         /\ lay_stackBak' = Call.lev /\ menu_lev' = Append(menu_lev, lev)
  /\ updateProcess' = updateProcess + (IF a \in DishArrays THEN 1 ELSE 0)
  /\ UNCHANGED <<pc, answer, toalDishesNumber, fileVars, levelDb, fetches,
                 unbinds, served, disturbed>>

\* Mutant of VisitArray: the name is not made longer.
VisitArrayUnnamed(a) ==
  /\ Walking /\ a \in Call.todo \cap Arrays
  /\ LET lev == Call.lev + 1
     IN  /\ calls' = Calling([Call EXCEPT !.todo = @ \ {a}, !.lev = lev],
                             Frame(a, lev))
         /\ lay_stackBak' = lev /\ UNCHANGED menu_lev
  /\ updateProcess' = updateProcess + (IF a \in DishArrays THEN 1 ELSE 0)
  /\ UNCHANGED <<pc, answer, toalDishesNumber, fileVars, levelDb, fetches,
                 unbinds, served, disturbed>>

VisitArray(a) ==
  /\ Walking /\ a \in Call.todo \cap Arrays
  /\ LET lev == Call.lev + 1
     IN  /\ calls' = Calling([Call EXCEPT !.todo = @ \ {a}, !.lev = lev],
                             Frame(a, lev))
         /\ lay_stackBak' = lev
         /\ menu_lev' = Append(menu_lev, lev)
  /\ updateProcess' = updateProcess + (IF a \in DishArrays THEN 1 ELSE 0)
  /\ UNCHANGED <<pc, answer, toalDishesNumber, fileVars, levelDb, fetches,
                 unbinds, served, disturbed>>

VisitObject(o) ==
  /\ Walking /\ o \in Call.todo \cap Objects
  /\ calls' = Calling([Call EXCEPT !.todo = @ \ {o}], Frame(o, Call.lev))
  /\ UNCHANGED <<pc, answer, menu_lev, lay_stackBak, updateProcess,
                 toalDishesNumber, fileVars, levelDb, fetches, unbinds,
                 served, disturbed>>

-----------------------------------------------------------------------------
(* jsonArrayParse: the items of the array in their order.                  *)

AtItem == Walking /\ Call.node \in Arrays /\ Call.i < Len(Items[Call.node])
Item == Items[Call.node][Call.i + 1]
NextItem == [Call EXCEPT !.i = @ + 1]

\* Mutant of SkipItem: the item is looked at again.
SkipNothing ==
  /\ AtItem /\ Item = Scalar /\ UNCHANGED vars

SkipItem ==
  /\ AtItem /\ Item = Scalar
  /\ calls' = Append(Front(calls), NextItem)
  /\ UNCHANGED <<pc, answer, menu_lev, lay_stackBak, updateProcess,
                 toalDishesNumber, fileVars, levelDb, fetches, unbinds,
                 served, disturbed>>

ItemArray ==
  /\ AtItem /\ Item \in Arrays
  /\ calls' = Calling(NextItem, Frame(Item, Call.lev))
  /\ UNCHANGED <<pc, answer, menu_lev, lay_stackBak, updateProcess,
                 toalDishesNumber, fileVars, levelDb, fetches, unbinds,
                 served, disturbed>>

\* Mutant of ItemObject: the table is left to the first of its rows.
ItemObjectBare ==
  /\ AtItem /\ Item \in Objects
  /\ GoTo("main", "row")
  /\ calls' = Append(Front(calls), NextItem)
  /\ menu_lev' = Append(SubSeq(menu_lev, 1, Call.lev - 1), Call.i + 1)
  /\ UNCHANGED <<answer, lay_stackBak, updateProcess, toalDishesNumber,
                 fileVars, levelDb, fetches, unbinds, served, disturbed>>

(* The name is cut before its lev-th number and gets the number of the     *)
(* item.  A category gets its table before its row is written.             *)
ItemObject ==
  /\ AtItem /\ Item \in Objects
  /\ GoTo("main", "row")
  /\ calls' = Append(Front(calls), NextItem)
  /\ menu_lev' = Append(SubSeq(menu_lev, 1, Call.lev - 1), Call.i + 1)
  /\ db' = IF Dish[Item] = NoDish THEN Created(menu_lev') ELSE db
  /\ UNCHANGED <<answer, lay_stackBak, updateProcess, toalDishesNumber,
                 menudb, levelDb, fetches, unbinds, served, disturbed>>

\* The item whose row is due, and its row.
Entered == Items[Call.node][Call.i]

\* Mutant of Row: the way back leads to the table of the row itself.
RowBackToItself ==
  [id |-> 0, prev |-> IF Call.lev = 1 THEN NoLink ELSE Front(menu_lev),
   next |-> IF Dish[Entered] = NoDish THEN menu_lev ELSE NoLink,
   grade |-> Call.lev, dish |-> Dish[Entered]]

Row ==
  [id |-> 0,
   prev |-> IF Call.lev = 1 THEN NoLink ELSE Front(Front(menu_lev)),
   next |-> IF Dish[Entered] = NoDish THEN menu_lev ELSE NoLink,
   grade |-> Call.lev,
   dish |-> Dish[Entered]]

\* An object without a name gets no row; either way its members follow.
InsertRow ==
  /\ At("main", "row") /\ GoTo("main", "walk")
  /\ db' = IF Name[Entered] = "none" THEN db
           ELSE Inserted(Front(menu_lev), Row, Name[Entered])
  /\ calls' = Append(calls, Frame(Entered, Call.lev))
  /\ UNCHANGED <<answer, menu_lev, lay_stackBak, updateProcess,
                 toalDishesNumber, menudb, levelDb, fetches, unbinds, served,
                 disturbed>>

Return ==
  /\ Walking /\ Call.todo = {}
  /\ Call.node \in Arrays => Call.i = Len(Items[Call.node])
  /\ calls' = Front(calls)
  /\ UNCHANGED <<pc, answer, menu_lev, lay_stackBak, updateProcess,
                 toalDishesNumber, fileVars, levelDb, fetches, unbinds,
                 served, disturbed>>

\* The number of levels is saved: it is the level of the array walked last.
FinishFetch ==
  /\ At("main", "walk") /\ calls = <<>>
  /\ GoTo("main", "idle")
  /\ levelDb' = lay_stackBak
  /\ answer' = NoAnswer
  /\ served' = IF disturbed THEN NoAnswer ELSE answer
  /\ UNCHANGED <<calls, menu_lev, lay_stackBak, updateProcess,
                 toalDishesNumber, fileVars, fetches, unbinds, disturbed>>

-----------------------------------------------------------------------------
MainStep ==
  \/ BeginFetch \/ MakeDirectory("main") \/ MakeMainTable("main")
  \/ Answered \/ FetchFails
  \/ \E a \in Arrays : VisitArray(a)
  \/ \E o \in Objects : VisitObject(o)
  \/ SkipItem \/ ItemArray \/ ItemObject \/ InsertRow
  \/ Return \/ FinishFetch

UnbindStep ==
  \/ BeginUnbind \/ RemoveMenus
  \/ MakeDirectory("unbind") \/ MakeMainTable("unbind")

Next == MainStep \/ UnbindStep

Spec == Init /\ [][Next]_vars

\* The main loop goes on with the walk it is in.
FairSpec == Spec /\ WF_vars(MainStep)

-----------------------------------------------------------------------------
(* Block 2 of a plate (rewrCardTask.c:595-598): three bytes of the dish,   *)
(* which the database access has cut to a uint16_t.                        *)

\* Mutant of Block2: the low bits are shifted out.
Block2Shifted(d) ==
  LET dishid == d % 65536
  IN  <<(dishid \div 1024) % 256, (dishid \div 4) % 256, (dishid * 128) % 256>>

Block2(d) ==
  LET dishid == d % 65536
  IN  <<(dishid \div 1024) % 256, (dishid \div 4) % 256, (dishid * 64) % 256>>

-----------------------------------------------------------------------------
(* Properties                                                              *)

Rows == [id : 0..(IdModulus - 1), prev : Seq(Nat) \cup {NoLink},
         next : Seq(Nat) \cup {NoLink}, grade : Nat,
         dish : Nat \cup {NoDish}]

Frames == [node : Nodes, todo : SUBSET Nodes, i : Nat, lev : Nat]

Places == {"idle", "remove", "mkdir", "table", "ask", "walk", "row"}

WalkOK ==
  /\ answer \in Answers \cup {NoAnswer}
  /\ calls \in Seq(Frames)
  /\ menu_lev \in Seq(Nat) /\ lay_stackBak \in Nat
  /\ updateProcess \in Nat /\ toalDishesNumber \in Nat

FilesOK ==
  /\ menudb \in BOOLEAN
  /\ DOMAIN db \subseteq Seq(Nat)
  /\ db \in [DOMAIN db -> Seq(Rows)]
  /\ levelDb \in Nat

\* Types of the variables of the walk and of the files.
TypeOK ==
  /\ pc \in [Threads -> Places]
  /\ WalkOK /\ FilesOK
  /\ fetches \in 0..MaxFetches /\ unbinds \in 0..MaxUnbinds
  /\ served \in Answers \cup {NoAnswer} /\ disturbed \in BOOLEAN

(* Where an item is entered, the name has the "_" before which it is cut:  *)
(* else the slice would count underscores as bytes (httpclient.go:830-840). *)
CutExists == AtItem => Call.lev \in 1..Len(menu_lev)

(* From every page that Qt can go on to, the way back that its rows name   *)
(* is the page it came from, also in the midst of a walk or a clearing.    *)
BackIsWhereFrom ==
  \A T \in DOMAIN db : \A i \in DOMAIN db[T] :
    db[T][i].next \in DOMAIN db =>
      LET U == db[T][i].next
      IN  \A j \in DOMAIN db[U] : db[U][j].prev = T

(* Qt never finds a row that leads to a missing table, unless an unbinding *)
(* cleared the tables during the walk.                                     *)
LinkedTablesExist ==
  ~disturbed =>
    \A T \in DOMAIN db : \A i \in DOMAIN db[T] :
      db[T][i].next \in DOMAIN db \cup {NoLink}

\* What the answers hold, for the properties below.
Whole == [r \in Answers |-> Content(r, TRUE)]
Kept  == [r \in Answers |-> Content(r, FALSE)]

(* The menus the walk is written for: one thing to walk in each object,    *)
(* arrays of categories or of dishes, nothing below a dish.                *)
Regular(r) ==
  LET nodes == {p[1] : p \in Whole[r]}
  IN  /\ \A o \in nodes \cap Objects :
           /\ Cardinality(Members[o]) <= 1
           /\ Dish[o] # NoDish => Members[o] = {}
      /\ \A a \in nodes \cap Arrays :
           /\ Range(Items[a]) \cap Arrays = {}
           /\ \A o, q \in Range(Items[a]) \cap Objects :
                Dish[o] = NoDish <=> Dish[q] = NoDish

Depth(r) == CHOOSE n \in {p[2] : p \in Whole[r]} :
              \A p \in Whole[r] : p[2] <= n

(* All dishes of the menu are equally deep, and it has an array: else the  *)
(* level of the walk before is kept (httpclient.go, lay_stackBak).         *)
Even(r) ==
  /\ Depth(r) > 0
  /\ \A p \in Whole[r] :
       p[2] < Depth(r) => \E q \in Whole[r] : q \in Below(p, TRUE)

RegularAnswers == {r \in Answers : Regular(r)}
EvenAnswers == {r \in RegularAnswers : Even(r)}

Linked(T) ==
  \A n \in 1..Len(T) :
    LET P == SubSeq(T, 1, n - 1)
    IN  P \in DOMAIN db /\ \E i \in DOMAIN db[P] : db[P][i].next = SubSeq(T, 1, n)

DishesShown ==
  (UNION {{db[T][i].dish : i \in DOMAIN db[T]} :
            T \in {U \in DOMAIN db : Linked(U)}}) \ {NoDish}

\* The items of the answer that get a row, less those below a spoilt one.
Listed(r) ==
  {q[1] : q \in UNION {Below(p, FALSE) : p \in {a \in Kept[r] : a[1] \in Arrays}}}

(* After a fetch, the pages that Qt reaches from the main page show just   *)
(* the dishes of the answer, less those below a name with a quote or no    *)
(* name: whatever an earlier walk has left in menu_lev and in the files.   *)
DishesReached ==
  served \in RegularAnswers =>
    DishesShown = {Dish[o] : o \in Listed(served) \cap Objects} \ {NoDish}

(* The number of levels told to Qt is that of the menu when its dishes are *)
(* equally deep, although it is the level of the array walked last.        *)
LevelIsDepth == served \in EvenAnswers => levelDb = Depth(served)

(* Qt is told of at most 100 percent, also by the fetch that follows one   *)
(* that ended before its time.                                             *)
ProgressBounded ==
  At("main", "walk") /\ toalDishesNumber > 0 =>
    (updateProcess * 100) \div toalDishesNumber <= 100

(* The rows of a page have ids of their own as long as the uint8_t lasts.  *)
IdsTellRows ==
  \A T \in DOMAIN db :
    Len(db[T]) <= IdModulus =>
      \A i, j \in DOMAIN db[T] : db[T][i].id = db[T][j].id => i = j

(* Two dishes of a menu leave different bytes on a plate, when their ids   *)
(* fit the uint16_t of dishMsgSt (sqliteTask.h:21).                        *)
PlatesTellDishes ==
  \A d, e \in {x \in DishesShown : x < 65536} : Block2(d) = Block2(e) => d = e

(* A walk comes to an end, whatever the answer holds.                      *)
WalkEnds == ~At("main", "idle") ~> At("main", "idle")

-----------------------------------------------------------------------------
(* The invariants that make the properties above inductive                 *)

\* The calls reach deeper and deeper, and the name is as long as they need.
CallsInv ==
  /\ \A k \in DOMAIN calls :
       /\ calls[k].lev <= Len(menu_lev)
       /\ calls[k].node \in Arrays =>
            calls[k].lev >= 1 /\ calls[k].i <= Len(Items[calls[k].node])
  /\ \A k, l \in DOMAIN calls : k <= l => calls[k].lev <= calls[l].lev

\* A row is due for an object among the items, in the parent of menu_lev.
RowInv ==
  At("main", "row") =>
    /\ calls # <<>> /\ Call.node \in Arrays
    /\ Call.i \in DOMAIN Items[Call.node] /\ Entered \in Objects
    /\ Len(menu_lev) = Call.lev

\* Rows link to tables one item longer, and name the table one shorter.
LinksInv ==
  \A T \in DOMAIN db : \A i \in DOMAIN db[T] :
    /\ db[T][i].prev = IF T = <<>> THEN NoLink ELSE Front(T)
    /\ db[T][i].next # NoLink =>
         db[T][i].next # <<>> /\ Front(db[T][i].next) = T

\* An undisturbed fetch has the directory, and the table of a due category.
QuietInv ==
  ~disturbed =>
    /\ ~At("main", "idle") => At("unbind", "idle")
    /\ pc["main"] \in {"table", "ask", "walk", "row"} => menudb
    /\ At("main", "row") /\ Dish[Entered] = NoDish => menu_lev \in DOMAIN db

-----------------------------------------------------------------------------
(* The invariant behind ProgressBounded and LevelIsDepth: what the walk    *)
(* has seen of the answer, and what its calls have still to walk, make up  *)
(* the answer.                                                             *)

\* What a call has still to walk.
Rest(f) ==
  IF f.node \in Objects THEN f.todo
  ELSE Nodes \cap {Items[f.node][j] : j \in (f.i + 1)..Len(Items[f.node])}

\* The object whose row is due, before it is walked.
Due == IF At("main", "row") THEN {Entered} ELSE {}

RestOf(frames) == UNION {Rest(frames[k]) : k \in DOMAIN frames}

\* What lies right inside the nodes of S.
Frontier(S) == (UNION {Children(n) : n \in S}) \ S

\* A part of the answer r that holds whatever is around one of its nodes.
Part(r, S) ==
  /\ r \in S /\ S \subseteq NodesOf(r)
  /\ \A m \in S \ {r} : \E n \in S : m \in Children(n)

\* The calls are walking different nodes, and are to walk what is not seen.
FramesInv(seen) ==
  /\ Due \cup RestOf(calls) = Frontier(seen) /\ Due \cap RestOf(calls) = {}
  /\ \A k \in DOMAIN calls :
       /\ calls[k].node \in seen
       /\ calls[k].todo \subseteq Children(calls[k].node)
       /\ calls[k].node \in Arrays => calls[k].todo = {}
  /\ \A k, l \in DOMAIN calls : k # l => calls[k].node # calls[l].node

\* No array of dishes is counted twice.
CountInv(seen) ==
  /\ updateProcess <= Cardinality(DishArrays \cap seen)
  /\ toalDishesNumber = Cardinality(DishArrays \cap NodesOf(answer))

(* In an even menu a call that has something to walk knows its level, and  *)
(* the array walked last is a deepest one, unless there is one to come.    *)
LevelInv(seen) ==
  answer \in EvenAnswers =>
    /\ \A k \in DOMAIN calls :
         calls[k].node \in Arrays \/ calls[k].todo # {} =>
           <<calls[k].node, calls[k].lev>> \in Whole[answer]
    /\ \/ lay_stackBak = Depth(answer)
       \/ ~(Arrays \cap NodesOf(answer) \subseteq seen)

Seen(seen) ==
  Part(answer, seen) /\ FramesInv(seen) /\ CountInv(seen) /\ LevelInv(seen)

SeenInv ==
  pc["main"] \in {"walk", "row"} =>
    answer \in Answers /\ \E S \in SUBSET Nodes : Seen(S)

-----------------------------------------------------------------------------
(* The invariant behind DishesReached: every node that was seen has its    *)
(* page, and the rows of the tables are those of the items that were seen. *)

\* The nodes of S on the way from an item to the array inside it: the last.
Ends(S) == {n \in S : n \in Arrays \/ Members[n] \cap S = {}}

\* The items of the array a that were seen and that get a row.
Entries(a, S) == {o \in S \cap Range(Items[a]) : Name[o] = "plain"}

\* The page of an item is one number longer than that of its array.
Placed(r, S, page) ==
  /\ page[r] = <<>>
  /\ \A o \in S \cap Objects : \A m \in S \cap Members[o] : page[m] = page[o]
  /\ \A a \in S \cap Arrays : \A j \in DOMAIN Items[a] :
       Items[a][j] \in S => page[Items[a][j]] = Append(page[a], j)
  /\ \A n \in S : page[n] # <<>> =>
       \E a \in S \cap Arrays : \E j \in DOMAIN Items[a] :
         Items[a][j] \in S /\ page[n] = Append(page[a], j)
  /\ \A m, n \in Ends(S) : page[m] = page[n] => m = n

\* The name is cut to the page of a call before it is used.
NamesInv(page) ==
  /\ \A k \in DOMAIN calls :
       /\ calls[k].node \in Arrays =>
            SubSeq(menu_lev, 1, calls[k].lev - 1) = page[calls[k].node]
       /\ calls[k].todo # {} =>
            /\ k = Len(calls)
            /\ SubSeq(menu_lev, 1, calls[k].lev) = page[calls[k].node]
  /\ At("main", "row") => menu_lev = Append(page[Call.node], Call.i)

\* What the row of the item o says, whose page is P.
Tells(row, o, P) ==
  row.dish = Dish[o] /\ row.next = IF Dish[o] = NoDish THEN P ELSE NoLink

\* Each row is that of an item, and each item with a good name has a row.
RowsInv(S, page) ==
  /\ \A n \in S : n \in Arrays \/ Members[n] # {} => page[n] \in DOMAIN db
  /\ \A T \in DOMAIN db : \A i \in DOMAIN db[T] :
       \E a \in S \cap Arrays : \E o \in Entries(a, S) :
         page[a] = T /\ Tells(db[T][i], o, page[o])
  /\ \A a \in S \cap Arrays : \A o \in Entries(a, S) :
       \E i \in DOMAIN db[page[a]] : Tells(db[page[a]][i], o, page[o])

Filled(S, page) == Placed(answer, S, page) /\ NamesInv(page) /\ RowsInv(S, page)

(* An undisturbed fetch finds empty tables and fills them in its walk; as  *)
(* long as an answer is served nobody touches them.                        *)
PagesInv ==
  /\ ~disturbed /\ pc["main"] \in {"mkdir", "table"} => db = NoTables
  /\ ~disturbed /\ At("main", "ask") => db = [T \in {<<>>} |-> <<>>]
  /\ ~disturbed /\ pc["main"] \in {"walk", "row"} /\ answer \in RegularAnswers =>
       \E S \in SUBSET Nodes :
         Seen(S) /\ \E page \in [S -> Seq(Nat)] : Filled(S, page)
  /\ served # NoAnswer => \A t \in Threads : At(t, "idle")
=============================================================================
