------------------------------ MODULE MenuSync ------------------------------
(***************************************************************************)
(* How a new menu reaches the device.  The backend announces a version in  *)
(* the AWS shadow; the IoT thread (awsIotTask.c) notes it in its cmenuMsg, *)
(* in the configuration database and in Go; the main loop                  *)
(* (writeplateprocess.go) clears the menu database, fetches the menu and   *)
(* marks the version as the current one; the IoT thread reports it.        *)
(* Meanwhile the Qt thread (msgTask.c) or the backend may unbind the       *)
(* device, which sets the versions to 0 and clears the menus.              *)
(*                                                                         *)
(* Three threads call sqlite_update_menuMsg_to_config_db with arguments of *)
(* their own.  It is two steps, the database (WriteDb) and then Go         *)
(* (TellGo), and nothing keeps two calls apart.  pc[t] is what thread t    *)
(* does after the call it is in.                                           *)
(*   main  check clear fetch insert save adopt store told                  *)
(*   iot   boot (no session) run got (a shadow was read) zero wipe         *)
(*   qt    run zero wipe ask (the HTTP request) wipe2                      *)
(* The status of the device is one persistent Boolean here.                *)
(***************************************************************************)
EXTENDS Naturals, FiniteSets

CONSTANTS
  MaxVersion,   \* bound on the versions the backend announces
  HttpFaults,   \* TRUE: an HTTP request may fail
  DbFaults,     \* TRUE: a write of the configuration database may fail
  MaxUnbinds,   \* bound on the unbindings, and on the bindings after them
  MaxLosses,    \* bound on the losses of the MQTT connection
  MaxRestarts   \* bound on the restarts of the process

ASSUME BoundAssumption ==
  /\ MaxVersion \in Nat
  /\ MaxUnbinds \in Nat
  /\ MaxLosses \in Nat
  /\ MaxRestarts \in Nat

ASSUME FaultAssumption ==
  /\ HttpFaults \in BOOLEAN
  /\ DbFaults \in BOOLEAN

VARIABLES
  wanted,         \* desired.menuUpdateTime of the shadow, and what is served
  reported,       \* reported.menuUpdateTime of the shadow
  deltas,         \* delta messages on their way to the device
  sent,           \* reports without an answer yet
  link,           \* the MQTT connection is up
  cNew, cCur,     \* cmenuMsg: new_menu_ver and menu_ver in awsIotTask.c
  menuUpdateTime, \* what the next report will say
  reportFlag,     \* reportmenuUpdateTimeFlag
  getShadowFlag,  \* getShadowFlag: ask for the shadow
  dbNew, dbCur,   \* new_menu_ver and menu_ver in base_config.db
  goNew, goCur,   \* NewMenu_ver and Menu_ver of deviceMsg in Go
  bound,          \* the device status is SITE_BIND_OK
  menuDb,         \* the version whose menu the menu database holds, 0: none
  got,            \* the version of the menu the main loop has fetched
  pc,             \* what each thread does next
  call,           \* the call of sqlite_update_menuMsg_to_config_db it is in
  unbinds, losses, restarts

\* History: two threads have been at the versions at the same time.
VARIABLE overlap

shadowVars == <<wanted, reported, deltas, sent, link>>
cVars      == <<cNew, cCur, menuUpdateTime, reportFlag, getShadowFlag>>
dbVars     == <<dbNew, dbCur>>
goVars     == <<goNew, goCur>>
counts     == <<unbinds, losses, restarts>>
vars == <<shadowVars, cVars, dbVars, goVars, bound, menuDb, got, pc, call,
          counts, overlap>>

Threads  == {"main", "iot", "qt"}
Versions == 0..MaxVersion

Sent(v, s)    == [ver |-> v, st |-> s]
NoCall        == [step |-> "none", new |-> 0, cur |-> 0]
Update(n, c)  == [step |-> "db", new |-> n, cur |-> c]
Free(t)       == call[t].step = "none"
Start         == [t \in Threads |-> CASE t = "main" -> "check"
                                      [] t = "iot"  -> "boot"
                                      [] t = "qt"   -> "run"]

\* Thread t has work with the versions under way.
Busy(t) == ~Free(t) \/ pc[t] \notin {"check", "run", "boot", "got"}

At(t, l)    == pc[t] = l /\ Free(t)
GoTo(t, l)  == pc' = [pc EXCEPT ![t] = l]
Call(t, n, c) == call' = [call EXCEPT ![t] = Update(n, c)]
\* Thread t takes up such work.
TakeUp(t)   == overlap' = (overlap \/ \E u \in Threads \ {t} : Busy(u))

Init ==
  /\ wanted = 0 /\ reported = 0 /\ deltas = {} /\ sent = {} /\ link = FALSE
  /\ cNew = 0 /\ cCur = 0 /\ menuUpdateTime = 0
  /\ reportFlag = FALSE /\ getShadowFlag = FALSE
  /\ dbNew = 0 /\ dbCur = 0 /\ goNew = 0 /\ goCur = 0
  /\ bound = TRUE /\ menuDb = 0 /\ got = 0
  /\ pc = Start
  /\ call = [t \in Threads |-> NoCall]
  /\ unbinds = 0 /\ losses = 0 /\ restarts = 0
  /\ overlap = FALSE

-----------------------------------------------------------------------------
(* sqlite_update_menuMsg_to_config_db on thread t *)

WriteDb(t) ==
  /\ call[t].step = "db"
  /\ dbNew' = call[t].new /\ dbCur' = call[t].cur
  /\ call' = [call EXCEPT ![t].step = "go"]
  /\ UNCHANGED <<shadowVars, cVars, goVars, bound, menuDb, got, pc, counts,
                 overlap>>

TellGo(t) ==
  /\ call[t].step = "go"
  /\ goNew' = call[t].new /\ goCur' = call[t].cur
  /\ call' = [call EXCEPT ![t] = NoCall]
  /\ UNCHANGED <<shadowVars, cVars, dbVars, bound, menuDb, got, pc, counts,
                 overlap>>

(* The C callers try again until the write is good; the Go caller          *)
(* write_plate_update_menuMsg_to_config_db does not look at the result.    *)
WriteDbFails(t) ==
  /\ DbFaults
  /\ call[t].step = "db"
  /\ t = "main" \/ pc[t] = "wipe2"
  /\ call' = [call EXCEPT ![t] = NoCall]
  /\ UNCHANGED <<shadowVars, cVars, dbVars, goVars, bound, menuDb, got, pc,
                 counts, overlap>>

CallStep(t) == WriteDb(t) \/ TellGo(t) \/ WriteDbFails(t)

-----------------------------------------------------------------------------
(* The main loop: write_plate_site_work_process *)

\* Mutant of CheckMenu: the status of the device is not looked at.
CheckMenuUnbound ==
  /\ At("main", "check") /\ goNew > goCur
  /\ GoTo("main", "clear") /\ TakeUp("main")
  /\ UNCHANGED <<shadowVars, cVars, dbVars, goVars, bound, menuDb, got, call,
                 counts>>

CheckMenu ==
  /\ At("main", "check")
  /\ goNew > goCur /\ bound
  /\ GoTo("main", "clear")
  /\ TakeUp("main")
  /\ UNCHANGED <<shadowVars, cVars, dbVars, goVars, bound, menuDb, got, call,
                 counts>>

ClearMenu ==
  /\ At("main", "clear")
  /\ menuDb' = 0
  /\ GoTo("main", "fetch")
  /\ UNCHANGED <<shadowVars, cVars, dbVars, goVars, bound, got, call, counts,
                 overlap>>

Fetch ==
  /\ At("main", "fetch")
  /\ got' = wanted
  /\ GoTo("main", "insert")
  /\ UNCHANGED <<shadowVars, cVars, dbVars, goVars, bound, menuDb, call,
                 counts, overlap>>

\* Mutant of FetchFails: the error is not looked at.
FetchFailsUnseen ==
  /\ At("main", "fetch") /\ HttpFaults
  /\ GoTo("main", "save")
  /\ UNCHANGED <<shadowVars, cVars, dbVars, goVars, bound, menuDb, got, call,
                 counts, overlap>>

\* Qt is told that the menu could not be had; the next loop tries again.
FetchFails ==
  /\ At("main", "fetch") /\ HttpFaults
  /\ GoTo("main", "check")
  /\ UNCHANGED <<shadowVars, cVars, dbVars, goVars, bound, menuDb, got, call,
                 counts, overlap>>

Insert ==
  /\ At("main", "insert")
  /\ menuDb' = got
  /\ got' = 0
  /\ GoTo("main", "save")
  /\ UNCHANGED <<shadowVars, cVars, dbVars, goVars, bound, call, counts,
                 overlap>>

\* Go saves its versions at place l of the main loop, and goes on to k.
SaveAt(l, k) ==
  /\ At("main", l)
  /\ Call("main", goNew, goCur)
  /\ GoTo("main", k)
  /\ UNCHANGED <<shadowVars, cVars, dbVars, goVars, bound, menuDb, got,
                 counts, overlap>>

Save  == SaveAt("save", "adopt")
Store == SaveAt("store", "told")

Adopt ==
  /\ At("main", "adopt")
  /\ goCur' = goNew
  /\ GoTo("main", "store")
  /\ UNCHANGED <<shadowVars, cVars, dbVars, goNew, bound, menuDb, got, call,
                 counts, overlap>>

\* set_aws_iot_report_menuUpdateTime
AskReport ==
  /\ At("main", "told")
  /\ reportFlag' = TRUE
  /\ GoTo("main", "check")
  /\ UNCHANGED <<shadowVars, cNew, cCur, menuUpdateTime, getShadowFlag,
                 dbVars, goVars, bound, menuDb, got, call, counts, overlap>>

MainStep ==
  \/ CheckMenu \/ ClearMenu \/ Fetch \/ FetchFails \/ Insert
  \/ Save \/ Adopt \/ Store \/ AskReport

-----------------------------------------------------------------------------
(* The backend and the connection *)

Announce ==
  /\ wanted < MaxVersion
  /\ wanted' = wanted + 1
  /\ deltas' = IF link THEN deltas \cup {wanted + 1} ELSE deltas
  /\ UNCHANGED <<reported, sent, link, cVars, dbVars, goVars, bound, menuDb,
                 got, pc, call, counts, overlap>>

\* The shadow service takes a report, and publishes a difference again.
Apply(v) ==
  /\ Sent(v, "out") \in sent
  /\ reported' = v
  /\ sent' = (sent \ {Sent(v, "out")}) \cup {Sent(v, "done")}
  /\ deltas' = IF v # wanted /\ link THEN deltas \cup {wanted} ELSE deltas
  /\ UNCHANGED <<wanted, link, cVars, dbVars, goVars, bound, menuDb, got, pc,
                 call, counts, overlap>>

\* write_plate_aws_iot_shadow_init: connect, and take the versions of the db.
Connect ==
  /\ At("iot", "boot")
  /\ cNew' = dbNew /\ cCur' = dbCur /\ menuUpdateTime' = dbCur
  /\ getShadowFlag' = TRUE
  /\ link' = TRUE /\ sent' = {}
  /\ GoTo("iot", "run")
  /\ UNCHANGED <<wanted, reported, deltas, reportFlag, dbVars, goVars, bound,
                 menuDb, got, call, counts, overlap>>

\* Mutant of Disconnect: the shadow is not asked for again.
DisconnectOnly ==
  /\ At("iot", "run") /\ link /\ losses < MaxLosses
  /\ link' = FALSE /\ deltas' = {} /\ losses' = losses + 1
  /\ sent' = {Sent(m.ver, "lost") : m \in sent}
  /\ UNCHANGED <<wanted, reported, cVars, dbVars, goVars, bound, menuDb, got,
                 pc, call, unbinds, restarts, overlap>>

\* disconnectCallbackHandler; every message under way is lost.
Disconnect ==
  /\ At("iot", "run") /\ link /\ losses < MaxLosses
  /\ link' = FALSE /\ deltas' = {}
  /\ sent' = {Sent(m.ver, "lost") : m \in sent}
  /\ getShadowFlag' = TRUE
  /\ losses' = losses + 1
  /\ UNCHANGED <<wanted, reported, cNew, cCur, menuUpdateTime, reportFlag,
                 dbVars, goVars, bound, menuDb, got, pc, call, unbinds,
                 restarts, overlap>>

\* The client reconnects by itself, or after 120 s the session starts anew.
Reconnect ==
  /\ At("iot", "run") /\ ~link
  /\ \/ link' = TRUE /\ UNCHANGED pc
     \/ GoTo("iot", "boot") /\ UNCHANGED link
  /\ UNCHANGED <<wanted, reported, deltas, sent, cVars, dbVars, goVars, bound,
                 menuDb, got, call, counts, overlap>>

-----------------------------------------------------------------------------
(* The callbacks of the IoT thread, run by aws_iot_shadow_yield *)

\* menuUpdateTime_Callback; deltas arrive in the order they were published.
DeltaArrives ==
  /\ At("iot", "run") /\ link
  /\ \E v \in deltas :
       /\ \A w \in deltas : v <= w
       /\ deltas' = deltas \ {v}
       /\ \/ /\ v > cNew
             /\ cNew' = v /\ menuUpdateTime' = v
             /\ Call("iot", v, cCur) /\ TakeUp("iot")
             /\ UNCHANGED reportFlag
          \/ /\ v <= cNew
             /\ menuUpdateTime' = cNew
             /\ reportFlag' = TRUE
             /\ UNCHANGED <<cNew, call, overlap>>
  /\ UNCHANGED <<wanted, reported, sent, link, cCur, getShadowFlag, dbVars,
                 goVars, bound, menuDb, got, pc, counts>>

(* GetShadowStatusCallback and parsePloadJSON: the answer to the request.  A *)
(* binding or an unbinding it carries comes first: Rebind, Unbind("iot").   *)
(* A request that is refused clears the flag as well (awsIotTask.c:861):    *)
(* nothing is taken from the answer, and the report draws a delta instead.  *)
ShadowArrives ==
  /\ At("iot", "run") /\ link /\ getShadowFlag
  /\ getShadowFlag' = FALSE
  /\ \/ /\ wanted > cNew
        /\ cNew' = wanted
        /\ Call("iot", wanted, cCur) /\ TakeUp("iot")
     \/ UNCHANGED <<cNew, call, overlap>>  \* nothing newer, or refused
  /\ GoTo("iot", "got")
  /\ UNCHANGED <<shadowVars, cCur, menuUpdateTime, reportFlag, dbVars, goVars,
                 bound, menuDb, got, counts>>

ShadowParsed ==
  /\ At("iot", "got")
  /\ reportFlag' = TRUE
  /\ GoTo("iot", "run")
  /\ UNCHANGED <<shadowVars, cNew, cCur, menuUpdateTime, getShadowFlag,
                 dbVars, goVars, bound, menuDb, got, call, counts, overlap>>

\* write_plate_aws_iot_shadow_task: the flag is cleared, the report is sent.
Report ==
  /\ At("iot", "run") /\ reportFlag
  /\ reportFlag' = FALSE
  /\ sent' = sent \cup {Sent(menuUpdateTime, IF link THEN "out" ELSE "lost")}
  /\ UNCHANGED <<wanted, reported, deltas, link, cNew, cCur, menuUpdateTime,
                 getShadowFlag, dbVars, goVars, bound, menuDb, got, pc, call,
                 counts, overlap>>

\* ShadowMenuUpdateTimeUpdateStatusCallback: accepted.
Acknowledged ==
  /\ At("iot", "run") /\ link
  /\ \E m \in sent : m.st = "done" /\ sent' = sent \ {m}
  /\ reportFlag' = FALSE
  /\ UNCHANGED <<wanted, reported, deltas, link, cNew, cCur, menuUpdateTime,
                 getShadowFlag, dbVars, goVars, bound, menuDb, got, pc, call,
                 counts, overlap>>

\* The same callback: no answer came, because the link was lost.
TimedOut ==
  /\ At("iot", "run")
  /\ \E m \in sent : m.st = "lost" /\ sent' = sent \ {m}
  /\ reportFlag' = TRUE
  /\ UNCHANGED <<wanted, reported, deltas, link, cNew, cCur, menuUpdateTime,
                 getShadowFlag, dbVars, goVars, bound, menuDb, got, pc, call,
                 counts, overlap>>

\* What the IoT thread does next when no callback is due.
SessionStep == Connect \/ Reconnect \/ ShadowParsed

IotStep ==
  \/ SessionStep \/ DeltaArrives \/ ShadowArrives
  \/ Report \/ Acknowledged \/ TimedOut

-----------------------------------------------------------------------------
(* Unbinding: unbind_clear_menu_db, called by Qt's command on the Qt thread *)
(* and by restaurantID = 0 on the IoT thread; cmenuMsg is left as it is.    *)

Unbind(t) ==
  /\ t \in {"iot", "qt"} /\ At(t, "run")
  /\ t = "iot" => link
  /\ unbinds < MaxUnbinds
  /\ unbinds' = unbinds + 1
  /\ bound' = FALSE
  /\ GoTo(t, "zero")
  /\ TakeUp(t)
  /\ UNCHANGED <<shadowVars, cVars, dbVars, goVars, menuDb, got, call, losses,
                 restarts>>

Zero(t) ==
  /\ At(t, "zero")
  /\ Call(t, 0, 0)
  /\ GoTo(t, "wipe")
  /\ UNCHANGED <<shadowVars, cVars, dbVars, goVars, bound, menuDb, got,
                 counts, overlap>>

\* Mutant of Wipe: the IoT thread asks the backend as well.
WipeAndAsk(t) ==
  /\ At(t, "wipe") \/ At(t, "wipe2")
  /\ menuDb' = 0
  /\ GoTo(t, IF pc[t] = "wipe" THEN "ask" ELSE "run")
  /\ UNCHANGED <<shadowVars, cVars, dbVars, goVars, bound, got, call, counts,
                 overlap>>

Wipe(t) ==
  /\ At(t, "wipe") \/ At(t, "wipe2")
  /\ menuDb' = 0
  /\ GoTo(t, IF t = "qt" /\ pc[t] = "wipe" THEN "ask" ELSE "run")
  /\ UNCHANGED <<shadowVars, cVars, dbVars, goVars, bound, got, call, counts,
                 overlap>>

\* write_plate_http_site_unbind: on success all of it once more, from Go.
Ask ==
  /\ At("qt", "ask")
  /\ bound' = FALSE
  /\ goNew' = 0 /\ goCur' = 0
  /\ Call("qt", 0, 0)
  /\ GoTo("qt", "wipe2")
  /\ UNCHANGED <<shadowVars, cVars, dbVars, menuDb, got, counts, overlap>>

AskFails ==
  /\ At("qt", "ask") /\ HttpFaults
  /\ GoTo("qt", "run")
  /\ UNCHANGED <<shadowVars, cVars, dbVars, goVars, bound, menuDb, got, call,
                 counts, overlap>>

UnbindStep(t) == Zero(t) \/ Wipe(t)

\* The canteen binds the device again, and offers a menu.
Rebind ==
  /\ At("iot", "run") /\ link /\ ~bound
  /\ bound' = TRUE
  /\ UNCHANGED <<shadowVars, cVars, dbVars, goVars, menuDb, got, pc, call,
                 counts, overlap>>

-----------------------------------------------------------------------------
\* Mutant of Restart: Go does not read the versions of the database.
RestartBlank ==
  /\ restarts < MaxRestarts /\ restarts' = restarts + 1
  /\ goNew' = 0 /\ goCur' = 0
  /\ cNew' = 0 /\ cCur' = 0 /\ menuUpdateTime' = 0
  /\ reportFlag' = FALSE /\ getShadowFlag' = FALSE
  /\ link' = FALSE /\ deltas' = {} /\ sent' = {} /\ got' = 0
  /\ pc' = Start
  /\ call' = [t \in Threads |-> NoCall]
  /\ UNCHANGED <<wanted, reported, dbVars, bound, menuDb, unbinds, losses,
                 overlap>>

(* The process ends and starts again: everything but the databases is gone. *)
Restart ==
  /\ restarts < MaxRestarts
  /\ restarts' = restarts + 1
  /\ goNew' = dbNew /\ goCur' = dbCur
  /\ cNew' = 0 /\ cCur' = 0 /\ menuUpdateTime' = 0
  /\ reportFlag' = FALSE /\ getShadowFlag' = FALSE
  /\ link' = FALSE /\ deltas' = {} /\ sent' = {}
  /\ got' = 0
  /\ pc' = Start
  /\ call' = [t \in Threads |-> NoCall]
  /\ UNCHANGED <<wanted, reported, dbVars, bound, menuDb, unbinds, losses,
                 overlap>>

Next ==
  \/ \E t \in Threads : CallStep(t)
  \/ MainStep \/ IotStep
  \/ \E t \in {"iot", "qt"} : Unbind(t) \/ UnbindStep(t)
  \/ Ask \/ AskFails \/ Rebind
  \/ Announce \/ Disconnect \/ Restart
  \/ \E v \in Versions : Apply(v)

Spec == Init /\ [][Next]_vars

(* No thread sleeps for ever.  A fetch that is tried again and again works *)
(* in the end, and so does a write of the database that C repeats; the IoT *)
(* thread runs every callback of a yield and then looks at its flags.      *)
FairSpec ==
  /\ Spec
  /\ WF_vars(MainStep \/ CallStep("main")) /\ SF_vars(Fetch)
  /\ WF_vars(SessionStep \/ CallStep("iot"))
  /\ SF_vars(DeltaArrives) /\ SF_vars(ShadowArrives)
  /\ SF_vars(Report) /\ SF_vars(Acknowledged \/ TimedOut)
  /\ WF_vars(\E v \in Versions : Apply(v))

-----------------------------------------------------------------------------
(* Properties                                                              *)

MainPlaces == {"check", "clear", "fetch", "insert", "save", "adopt", "store",
               "told"}
IotPlaces  == {"boot", "run", "got", "zero", "wipe"}
QtPlaces   == {"run", "zero", "wipe", "ask", "wipe2"}
Places     == MainPlaces \cup IotPlaces \cup QtPlaces

DataOK ==
  /\ wanted \in Versions /\ reported \in Versions
  /\ deltas \subseteq Versions
  /\ sent \subseteq [ver : Versions, st : {"out", "done", "lost"}]
  /\ cNew \in Versions /\ cCur \in Versions /\ menuUpdateTime \in Versions
  /\ dbNew \in Versions /\ dbCur \in Versions
  /\ goNew \in Versions /\ goCur \in Versions
  /\ menuDb \in Versions /\ got \in Versions
  /\ call \in [Threads -> [step : {"none", "db", "go"},
                            new : Versions, cur : Versions]]
  /\ unbinds \in 0..MaxUnbinds /\ losses \in 0..MaxLosses
  /\ restarts \in 0..MaxRestarts

PcOK ==
  /\ pc \in [Threads -> Places]
  /\ pc["main"] \in MainPlaces
  /\ pc["iot"] \in IotPlaces /\ pc["qt"] \in QtPlaces

FlagOK ==
  /\ link \in BOOLEAN /\ reportFlag \in BOOLEAN /\ getShadowFlag \in BOOLEAN
  /\ bound \in BOOLEAN /\ overlap \in BOOLEAN

\* Types of the versions, messages, flags and calls.
TypeOK == DataOK /\ PcOK /\ FlagOK

Quiet == \A t \in Threads : ~Busy(t)

(* The database never marks a version as current that was not fetched,     *)
(* after a crash or a failed write at any point, unless two threads were   *)
(* at the versions at the same time.                                       *)
CurrentIsFetched ==
  ~overlap /\ dbCur > 0 /\ dbNew = dbCur => menuDb >= dbCur

(* A device that is unbound, by Qt or by the canteen, is left without a    *)
(* menu, and stays so until it is bound again, whatever is announced, if   *)
(* the process did not end meanwhile.                                      *)
UnboundIsEmpty ==
  ~overlap /\ restarts = 0 /\ Quiet /\ ~bound => menuDb = 0

(* A menu the backend announces is in the menu database in the end,        *)
(* whatever is lost, refused, fails or restarts on the way, unless the     *)
(* device was unbound: cmenuMsg keeps the version, and a device bound again *)
(* fetches it only after a new session, a restart or a newer version.       *)
MenuSettles == <>[](unbinds = 0 /\ ~overlap => menuDb = wanted)

-----------------------------------------------------------------------------
(* The invariants that make the safety properties inductive                *)

Unbinders == {"iot", "qt"}

\* Versions come in ordered pairs, and none is newer than the announced one.
VersionInv ==
  /\ cCur <= cNew /\ cNew <= wanted
  /\ dbCur <= dbNew /\ dbNew <= wanted
  /\ goCur <= goNew /\ goNew <= wanted
  /\ \A v \in deltas : v <= wanted
  /\ \A t \in Threads : call[t].cur <= call[t].new /\ call[t].new <= wanted

\* Where a thread can be inside a call.
PlaceInv ==
  /\ ~Free("main") => pc["main"] \in {"adopt", "told"}
  /\ ~Free("iot") => pc["iot"] \in {"run", "got", "wipe"}
  /\ ~Free("qt") => pc["qt"] \in {"wipe", "wipe2"}

SoloInv == \A t, u \in Threads : Busy(t) /\ Busy(u) => t = u

\* What the arguments of a call say, and what the database says in its midst.
CallInv ==
  /\ ~Free("main") /\ pc["main"] = "adopt" =>
       call["main"].new = goNew /\ call["main"].cur = goCur
  /\ ~Free("main") /\ pc["main"] = "told" =>
       /\ call["main"].new = call["main"].cur /\ call["main"].new <= menuDb
       /\ goNew = goCur
  /\ ~Free("iot") /\ pc["iot"] # "wipe" => call["iot"].cur < call["iot"].new
  /\ \A t \in Unbinders :
       ~Free(t) /\ pc[t] \in {"wipe", "wipe2"} => call[t].new = 0
  /\ \A t \in Threads :
       call[t].step = "go" => dbNew = call[t].new /\ dbCur = call[t].cur

\* The main loop fetches what is new in Go and in the database.
MainInv ==
  /\ pc["main"] \in {"clear", "fetch", "insert", "save", "adopt"} =>
       goCur < goNew /\ dbCur < dbNew
  /\ pc["main"] = "insert" => goNew <= got
  /\ pc["main"] \in {"save", "adopt", "store"} => goNew <= menuDb
  /\ pc["main"] = "store" => goCur = goNew /\ dbCur < dbNew

\* When the others are done, what is new in Go is new in the database.
GoInv ==
  (\A t \in Unbinders : ~Busy(t)) /\ goCur < goNew =>
    dbCur < dbNew

ZeroInv ==
  \A t \in Unbinders :
    \/ Free(t) /\ pc[t] = "wipe"
    \/ pc[t] \in {"ask", "wipe2"}
    => dbNew = 0 /\ goNew = 0

EmptyInv ==
  /\ Busy("main") => bound
  /\ \A t \in Unbinders : pc[t] \in {"ask", "wipe2"} => menuDb = 0
  /\ restarts = 0 /\ ~bound =>
       menuDb = 0 \/ \E t \in Unbinders : pc[t] \in {"zero", "wipe"}

AloneInv ==
  ~overlap =>
    SoloInv /\ CallInv /\ MainInv /\ GoInv /\ ZeroInv /\ EmptyInv
      /\ CurrentIsFetched

-----------------------------------------------------------------------------
(* What documents and comments of the source say, and the code does not do *)

\* The current version of the database is set when its update is complete.
CurrentIsComplete == dbCur > 0 /\ dbNew = dbCur => menuDb >= dbCur
=============================================================================
