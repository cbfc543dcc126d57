------------------------------ MODULE Binding -------------------------------
(***************************************************************************)
(* How the device is bound to a canteen and unbound, by Qt or by the       *)
(* canteen.  Its status is kept four times: in Go (deviceMsg), in the IoT  *)
(* thread (devMsg of awsIotTask.c), in the configuration database and on   *)
(* Qt's screen.  A handler of one thread may be in the midst of its steps  *)
(* when another thread runs; pc[t] is the place of thread t.               *)
(*   main  loop; init tell (devices/init answered); asking served (the     *)
(*         binding request); ask answer rest (the unbinding request)       *)
(*   iot   wait boot run; delta report (restaurantID_Callback); zero bind  *)
(*         settle sn (parsePloadJSON); show2 show3 (an accepted report)    *)
(*   qt    run local tell ask answer rest told (Qt's command to unbind)    *)
(*   blue  off scan read (Bluetooth provisioning)                          *)
(* Left out: the menus (MenuSync), the network time, and the withdrawal of *)
(* a serial number by the backend (for which awsIotTask.c:1022 also takes  *)
(* the emptied serial number of a get that was refused).                   *)
(***************************************************************************)
EXTENDS Naturals, Sequences

CONSTANTS
  Restaurants,    \* the canteens
  NoRestaurant,   \* restaurantID = 0
  Unset,          \* the shadow does not mention a canteen yet
  Garbage,        \* what the uninitialised devMsg.status of msgTask.c may hold
  FirstStatus,    \* the status the device starts with: new, or from the factory
  HttpFaults,     \* TRUE: an HTTP request may fail, or its answer be lost
  DbFaults,       \* TRUE: a write of the configuration database may fail
  MaxProvisions,  \* bound on the Bluetooth provisionings
  MaxUnbinds,     \* bound on Qt's commands to unbind
  MaxRemovals,    \* bound on the unbindings by the canteen
  MaxTroubles     \* bound on the losses of the MQTT connection and the
                  \* restarts of the process, together

ASSUME RestaurantAssumption ==
  /\ NoRestaurant \notin Restaurants
  /\ Unset \notin Restaurants \cup {NoRestaurant}

ASSUME FaultAssumption ==
  /\ HttpFaults \in BOOLEAN
  /\ DbFaults \in BOOLEAN
  /\ Garbage \subseteq 0..4

ASSUME StatusAssumption == FirstStatus \in {0, 2}

ASSUME BoundAssumption ==
  /\ MaxProvisions \in Nat
  /\ MaxUnbinds \in Nat
  /\ MaxRemovals \in Nat
  /\ MaxTroubles \in Nat

\* The device status, with the names of writeplateprocess.go.
INIT_STATUS            == 0
WAIT_TOPIC_STATUS      == 1
FACTORY_BIND_OK_STATUS == 2
SITE_BIND_OK_STATUS    == 3
LOCAL_UNBIND_STATUS    == 4

VARIABLES
  desired,     \* desired.restaurantID of the shadow: what the backend says
  reported,    \* reported.restaurantID of the shadow
  snGiven,     \* the backend has given the device a serial number
  snReported,  \* the device has reported it
  registered,  \* the backend knows the device
  deltas,      \* restaurantID deltas on their way, oldest first
  snDelta,     \* a delta with the serial number is on its way
  sent,        \* reports without an answer: canteen, sn, or another key
  link,        \* the MQTT connection is up
  goStatus, bindStartFlag, bindRestaurantID, mainTaskFlag,   \* Go
  cStatus, restaurantID, toReport, getShadowFlag,            \* IoT thread
  more,        \* one more get than the one answered last waits for an answer
  dbStatus, dbRest,                                          \* database
  qtStatus,    \* the last status Qt was told
  pc, call,
  provisions, unbinds, removals, troubles

\* History: whether the answer to one report came when another canteen was
\* to be reported, whether two threads have been at the status at once, the
\* last canteen the shadow told the device, and whether it has refused to tell
\* since.
VARIABLES late, overlap, told, refused

snVars     == <<snGiven, snReported>>
shadowVars == <<desired, reported, snVars, registered, deltas, snDelta, sent,
                link>>
goVars     == <<goStatus, bindStartFlag, bindRestaurantID, mainTaskFlag>>
getVars    == <<getShadowFlag, more>>
cVars      == <<cStatus, restaurantID, toReport, getVars>>
dbVars     == <<dbStatus, dbRest>>
history    == <<late, overlap, told, refused>>
counts     == <<provisions, unbinds, removals, troubles>>
vars == <<shadowVars, goVars, cVars, dbVars, qtStatus, pc, call, counts,
          history>>

Threads == {"main", "iot", "qt", "blue"}
Ids     == Restaurants \cup {NoRestaurant}

(* A call of sqlite_update_dev_status_config_db ("status") or of           *)
(* sqlite_update_dev_restaurantId_config_db ("rest"), with its argument,   *)
(* whether the caller repeats it until it is good, and its next step.      *)
NoCall == [to |-> "none", st |-> 0, id |-> NoRestaurant, again |-> FALSE,
           step |-> "db"]
SetStatus(s, again) ==
  [to |-> "status", st |-> s, id |-> NoRestaurant, again |-> again,
   step |-> "db"]
SetRest(r, again) ==
  [to |-> "rest", st |-> 0, id |-> r, again |-> again, step |-> "db"]
Sent(w, v, s) == [what |-> w, id |-> v, st |-> s]

Free(t)     == call[t].to = "none"
At(t, l)    == pc[t] = l /\ Free(t)
GoTo(t, l)  == pc' = [pc EXCEPT ![t] = l]
Call(t, c)  == call' = [call EXCEPT ![t] = c]
Idle        == {"loop", "asking", "served", "wait", "boot", "run", "off",
                "scan", "read"}
Busy(t)     == ~Free(t) \/ pc[t] \notin Idle
TakeUp(t)   == overlap' = (overlap \/ \E u \in Threads \ {t} : Busy(u))
Start       == [t \in Threads |-> CASE t = "main" -> "loop"
                                     [] t = "iot"  -> "wait"
                                     [] t = "qt"   -> "run"
                                     [] t = "blue" -> "off"]

\* A new device, or one that has been registered and has its serial number.
Init ==
  /\ dbStatus = FirstStatus /\ goStatus = FirstStatus /\ qtStatus = FirstStatus
  /\ registered = (FirstStatus = FACTORY_BIND_OK_STATUS)
  /\ snGiven = registered /\ snReported = registered
  /\ desired = Unset /\ reported = Unset
  /\ deltas = <<>> /\ snDelta = FALSE /\ sent = {} /\ link = FALSE
  /\ bindStartFlag = FALSE /\ bindRestaurantID = NoRestaurant
  /\ mainTaskFlag = TRUE
  /\ cStatus = INIT_STATUS /\ restaurantID = Unset
  /\ toReport = {} /\ getShadowFlag = FALSE /\ more = FALSE
  /\ dbRest = NoRestaurant
  /\ pc = Start /\ call = [t \in Threads |-> NoCall]
  /\ provisions = 0 /\ unbinds = 0 /\ removals = 0 /\ troubles = 0
  /\ late = FALSE /\ overlap = FALSE /\ told = Unset /\ refused = FALSE

-----------------------------------------------------------------------------
(* The two update functions of sqliteTask.c: the database, then Go         *)

WriteDb(t) ==
  /\ call[t].to # "none" /\ call[t].step = "db"
  /\ dbStatus' = IF call[t].to = "status" THEN call[t].st ELSE dbStatus
  /\ dbRest' = IF call[t].to = "rest" THEN call[t].id ELSE dbRest
  /\ call' = [call EXCEPT ![t].step = "go"]
  /\ UNCHANGED <<shadowVars, goVars, cVars, qtStatus, pc, counts, history>>

\* write_plate_updata_dev_status; Go's canteen only serves its requests.
TellGo(t) ==
  /\ call[t].to # "none" /\ call[t].step = "go"
  /\ goStatus' = IF call[t].to = "status" THEN call[t].st ELSE goStatus
  /\ call' = [call EXCEPT ![t] = NoCall]
  /\ UNCHANGED <<shadowVars, bindStartFlag, bindRestaurantID, mainTaskFlag,
                 cVars, dbVars, qtStatus, pc, counts, history>>

\* The caller goes on without the write, unless it repeats the call.
WriteDbFails(t) ==
  /\ DbFaults
  /\ call[t].to # "none" /\ call[t].step = "db" /\ ~call[t].again
  /\ call' = [call EXCEPT ![t] = NoCall]
  /\ UNCHANGED <<shadowVars, goVars, cVars, dbVars, qtStatus, pc, counts,
                 history>>

CallStep(t) == WriteDb(t) \/ TellGo(t) \/ WriteDbFails(t)

-----------------------------------------------------------------------------
(* The shadow and the backend                                              *)

\* A delta is published when the shadow differs from what was reported.
Publish(want, have) ==
  deltas' = IF want # have /\ link
            THEN IF deltas # <<>> /\ deltas[Len(deltas)] = want
                 THEN deltas ELSE Append(deltas, want)
            ELSE deltas

SetDesired(v) == desired' = v /\ Publish(v, reported)

GiveSn ==
  /\ registered /\ ~snGiven
  /\ snGiven' = TRUE /\ snDelta' = link
  /\ UNCHANGED <<snReported, desired, reported, registered, deltas, sent, link,
                 goVars, cVars, dbVars, qtStatus, pc, call, counts, history>>

\* The canteen unbinds the device.
Remove ==
  /\ desired \in Restaurants
  /\ removals < MaxRemovals /\ removals' = removals + 1
  /\ SetDesired(NoRestaurant)
  /\ UNCHANGED <<reported, snVars, registered, snDelta, sent, link, goVars,
                 cVars, dbVars, qtStatus, pc, call, provisions, unbinds,
                 troubles, history>>

\* The shadow service takes a report, of whatever key: what still differs
\* is published again.  The answer for another key changes nothing here.
Apply(m) ==
  /\ m \in sent /\ m.st = "out"
  /\ sent' = IF m.what = "other"
               THEN sent \ {m}
               ELSE (sent \ {m}) \cup {Sent(m.what, m.id, "done")}
  /\ reported' = IF m.what = "rest" THEN m.id ELSE reported
  /\ snReported' = (snReported \/ m.what = "sn")
  /\ Publish(desired, reported')
  /\ snDelta' = (snDelta \/ (link /\ snGiven /\ ~snReported'))
  /\ UNCHANGED <<desired, snGiven, registered, link, goVars, cVars, dbVars,
                 qtStatus, pc, call, counts, history>>

-----------------------------------------------------------------------------
(* The main loop: write_plate_main_task                                    *)

\* write_plate_http_devices_init; without an answer nothing changes.
InitDevice ==
  /\ At("main", "loop") /\ mainTaskFlag /\ goStatus = INIT_STATUS
  /\ registered' = TRUE
  /\ goStatus' = WAIT_TOPIC_STATUS
  /\ GoTo("main", "init") /\ TakeUp("main")
  /\ UNCHANGED <<desired, reported, snVars, deltas, snDelta, sent, link,
                 bindStartFlag, bindRestaurantID, mainTaskFlag, cVars, dbVars,
                 qtStatus, call, counts, late, told, refused>>

\* write_plate_update_devMsg_to_config_db, whose result is not looked at.
SaveInit ==
  /\ At("main", "init")
  /\ \/ dbStatus' = goStatus
     \/ DbFaults /\ UNCHANGED dbStatus
  /\ qtStatus' = WAIT_TOPIC_STATUS
  /\ GoTo("main", "tell")
  /\ UNCHANGED <<shadowVars, goVars, cVars, dbRest, call, counts, history>>

TellIot ==
  /\ At("main", "tell")
  /\ cStatus' = WAIT_TOPIC_STATUS /\ qtStatus' = WAIT_TOPIC_STATUS
  /\ GoTo("main", "loop")
  /\ UNCHANGED <<shadowVars, goVars, restaurantID, toReport, getVars,
                 dbVars, call, counts, history>>

\* write_plate_http_site_bind
StartBind ==
  /\ At("main", "loop") /\ mainTaskFlag
  /\ goStatus = FACTORY_BIND_OK_STATUS /\ bindStartFlag
  /\ GoTo("main", "asking")
  /\ UNCHANGED <<shadowVars, goVars, cVars, dbVars, qtStatus, call, counts,
                 history>>

\* The request is served by the backend, refused, or lost.
AskBind ==
  /\ At("main", "asking") /\ goStatus # LOCAL_UNBIND_STATUS
  /\ \/ /\ bindRestaurantID \in Restaurants
        /\ SetDesired(bindRestaurantID)
        /\ GoTo("main", "served")
     \/ /\ HttpFaults \/ bindRestaurantID = NoRestaurant
        /\ GoTo("main", "loop")
        /\ UNCHANGED <<desired, deltas>>
  /\ UNCHANGED <<reported, snVars, registered, snDelta, sent, link, goVars,
                 cVars, dbVars, qtStatus, call, counts, history>>

\* Its answer arrives, or is lost.
Bound ==
  /\ At("main", "served")
  /\ \/ bindStartFlag' = FALSE
     \/ HttpFaults /\ UNCHANGED bindStartFlag
  /\ GoTo("main", "loop")
  /\ UNCHANGED <<shadowVars, goStatus, bindRestaurantID, mainTaskFlag, cVars,
                 dbVars, qtStatus, call, counts, history>>

\* A device unbound by Qt alone: the main loop asks the backend as well.
StartUnbind ==
  /\ \/ At("main", "loop") /\ mainTaskFlag
     \/ At("main", "asking")
  /\ goStatus = LOCAL_UNBIND_STATUS
  /\ GoTo("main", "ask") /\ TakeUp("main")
  /\ UNCHANGED <<shadowVars, goVars, cVars, dbVars, qtStatus, call, counts,
                 late, told, refused>>

-----------------------------------------------------------------------------
(* The unbinding request, write_plate_http_site_unbind, on main or qt      *)

Asked(t) == IF t = "qt" THEN "told" ELSE "loop"

AskUnbind(t) ==
  /\ At(t, "ask")
  /\ IF desired \in Restaurants THEN SetDesired(NoRestaurant)
                                ELSE UNCHANGED <<desired, deltas>>
  /\ GoTo(t, "answer")
  /\ UNCHANGED <<reported, snVars, registered, snDelta, sent, link, goVars,
                 cVars, dbVars, qtStatus, call, counts, history>>

\* Mutant of Unbound: the status is changed in Go only.
UnboundInGo(t) ==
  /\ At(t, "answer")
  /\ goStatus' = FACTORY_BIND_OK_STATUS
  /\ bindStartFlag' = TRUE
  /\ GoTo(t, "rest")
  /\ UNCHANGED <<shadowVars, bindRestaurantID, mainTaskFlag, cVars, dbVars,
                 qtStatus, call, counts, history>>

Unbound(t) ==
  /\ At(t, "answer")
  /\ goStatus' = FACTORY_BIND_OK_STATUS
  /\ bindStartFlag' = TRUE
  /\ Call(t, SetStatus(FACTORY_BIND_OK_STATUS, FALSE))
  /\ GoTo(t, "rest")
  /\ UNCHANGED <<shadowVars, bindRestaurantID, mainTaskFlag, cVars, dbVars,
                 qtStatus, counts, history>>

\* Six refusals, or no answer at all: it is given up.
AskUnbindFails(t) ==
  /\ HttpFaults
  /\ At(t, "ask") \/ At(t, "answer")
  /\ GoTo(t, Asked(t))
  /\ UNCHANGED <<shadowVars, goVars, cVars, dbVars, qtStatus, call, counts,
                 history>>

ForgetCanteen(t) ==
  /\ At(t, "rest")
  /\ Call(t, SetRest(NoRestaurant, FALSE))
  /\ GoTo(t, Asked(t))
  /\ UNCHANGED <<shadowVars, goVars, cVars, dbVars, qtStatus, counts, history>>

UnbindStep(t) ==
  AskUnbind(t) \/ Unbound(t) \/ AskUnbindFails(t) \/ ForgetCanteen(t)

\* unbind_clear_menu_db: nothing is written when the status is 2 already.
ClearBinding(t) ==
  IF cStatus # FACTORY_BIND_OK_STATUS
    THEN /\ cStatus' = FACTORY_BIND_OK_STATUS
         /\ Call(t, SetStatus(FACTORY_BIND_OK_STATUS, TRUE))
    ELSE UNCHANGED <<cStatus, call>>

-----------------------------------------------------------------------------
(* Qt's command to unbind: receive_qt_msg_data_task                        *)

QtUnbind ==
  /\ At("qt", "run") /\ qtStatus >= FACTORY_BIND_OK_STATUS
  /\ unbinds < MaxUnbinds /\ unbinds' = unbinds + 1
  /\ ClearBinding("qt")
  /\ GoTo("qt", "local") /\ TakeUp("qt")
  /\ UNCHANGED <<shadowVars, goVars, restaurantID, toReport, getVars,
                 dbVars, qtStatus, provisions, removals, troubles, late, told,
                 refused>>

\* The devMsg of this function is a local variable without a value.
LocalStatus ==
  /\ At("qt", "local")
  /\ \E s \in Garbage :
       IF s = SITE_BIND_OK_STATUS
         THEN /\ Call("qt", SetStatus(LOCAL_UNBIND_STATUS, FALSE))
              /\ GoTo("qt", "tell")
         ELSE GoTo("qt", "ask") /\ UNCHANGED call
  /\ UNCHANGED <<shadowVars, goVars, cVars, dbVars, qtStatus, counts, history>>

TellLocal ==
  /\ At("qt", "tell")
  /\ goStatus' = LOCAL_UNBIND_STATUS
  /\ GoTo("qt", "ask")
  /\ UNCHANGED <<shadowVars, bindStartFlag, bindRestaurantID, mainTaskFlag,
                 cVars, dbVars, qtStatus, call, counts, history>>

TellQt ==
  /\ At("qt", "told")
  /\ qtStatus' = FACTORY_BIND_OK_STATUS
  /\ GoTo("qt", "run")
  /\ UNCHANGED <<shadowVars, goVars, cVars, dbVars, call, counts, history>>

QtStep == QtUnbind \/ LocalStatus \/ TellLocal \/ TellQt

-----------------------------------------------------------------------------
(* The IoT session: aws_iot_monitor_thread and the MQTT connection         *)

Certified ==
  /\ At("iot", "wait") /\ dbStatus >= WAIT_TOPIC_STATUS
  /\ GoTo("iot", "boot")
  /\ UNCHANGED <<shadowVars, goVars, cVars, dbVars, qtStatus, call, counts,
                 history>>

\* write_plate_aws_iot_shadow_init; without a connection it is tried again.
Connect ==
  /\ At("iot", "boot")
  /\ cStatus' = dbStatus /\ sent' = {} /\ more' = FALSE
  /\ \/ link' = TRUE /\ getShadowFlag' = TRUE /\ GoTo("iot", "run")
     \/ UNCHANGED <<link, getShadowFlag, pc>>
  /\ refused' = (refused /\ ~link')
  /\ UNCHANGED <<desired, reported, snVars, registered, deltas, snDelta,
                 goVars, restaurantID, toReport, dbVars, qtStatus, call,
                 counts, late, overlap, told>>

\* Mutant of Disconnect: the shadow is not asked for again.
DisconnectOnly ==
  /\ At("iot", "run") /\ link
  /\ troubles < MaxTroubles /\ troubles' = troubles + 1
  /\ link' = FALSE /\ deltas' = <<>> /\ snDelta' = FALSE /\ more' = FALSE
  /\ sent' = {Sent(m.what, m.id, "lost") : m \in sent}
  /\ UNCHANGED <<desired, reported, snVars, registered, goVars, cStatus,
                 restaurantID, toReport, getShadowFlag, dbVars, qtStatus, pc,
                 call, provisions, unbinds, removals, history>>

\* What was on its way is lost; disconnectCallbackHandler asks again.
Disconnect ==
  /\ At("iot", "run") /\ link
  /\ troubles < MaxTroubles /\ troubles' = troubles + 1
  /\ link' = FALSE /\ deltas' = <<>> /\ snDelta' = FALSE /\ more' = FALSE
  /\ sent' = {Sent(m.what, m.id, "lost") : m \in sent}
  /\ getShadowFlag' = TRUE /\ refused' = FALSE
  /\ UNCHANGED <<desired, reported, snVars, registered, goVars, cStatus,
                 restaurantID, toReport, dbVars, qtStatus, pc, call,
                 provisions, unbinds, removals, late, overlap, told>>

\* The client connects again by itself, or after 120 s a session is begun.
Reconnect ==
  /\ At("iot", "run") /\ ~link
  /\ \/ link' = TRUE /\ UNCHANGED pc
     \/ GoTo("iot", "boot") /\ UNCHANGED link
  /\ UNCHANGED <<desired, reported, snVars, registered, deltas, snDelta,
                 sent, goVars, cVars, dbVars, qtStatus, call, counts, history>>

SessionStep == Certified \/ Connect \/ Reconnect

-----------------------------------------------------------------------------
(* The callbacks of aws_iot_shadow_yield, and the reports after it         *)

Yields == At("iot", "run") /\ link

\* restaurantID_Callback
DeltaArrives ==
  /\ Yields /\ deltas # <<>>
  /\ deltas' = Tail(deltas)
  /\ restaurantID' = Head(deltas)
  /\ told' = Head(deltas) /\ refused' = FALSE
  /\ Call("iot", SetRest(Head(deltas), TRUE))
  /\ GoTo("iot", "delta") /\ TakeUp("iot")
  /\ UNCHANGED <<desired, reported, snVars, registered, snDelta, sent, link,
                 goVars, cStatus, toReport, getVars, dbVars, qtStatus,
                 counts, late>>

DeltaClears ==
  /\ At("iot", "delta") /\ restaurantID = NoRestaurant
  /\ ClearBinding("iot")
  /\ GoTo("iot", "report")
  /\ UNCHANGED <<shadowVars, goVars, restaurantID, toReport, getVars,
                 dbVars, qtStatus, counts, history>>

DeltaReports ==
  /\ \/ At("iot", "delta") /\ restaurantID # NoRestaurant
     \/ At("iot", "report")
  /\ toReport' = toReport \cup {"rest"}
  /\ GoTo("iot", "run")
  /\ UNCHANGED <<shadowVars, goVars, cStatus, restaurantID, getVars,
                 dbVars, qtStatus, call, counts, history>>

\* GetShadowStatusCallback: the answer to a get.  A get is sent in every
\* loop while the flag is up, so another answer may follow.
GetAnswered ==
  /\ Yields
  /\ \/ getShadowFlag /\ more' \in BOOLEAN
     \/ ~getShadowFlag /\ more /\ more' = FALSE
  /\ getShadowFlag' = FALSE

\* An accepted get, and parsePloadJSON.  The client discards deltas that are
\* older than the answer.
ShadowArrives ==
  /\ GetAnswered
  /\ deltas' = <<>>
  /\ told' = IF desired = Unset THEN told ELSE desired
  /\ refused' = FALSE
  /\ IF desired = NoRestaurant
       THEN ClearBinding("iot") /\ GoTo("iot", "zero")
     ELSE IF desired # Unset /\ cStatus = FACTORY_BIND_OK_STATUS
       THEN /\ Call("iot", SetRest(desired, TRUE))
            /\ GoTo("iot", "bind")
            /\ UNCHANGED cStatus
     ELSE GoTo("iot", "sn") /\ UNCHANGED <<cStatus, call>>
  /\ TakeUp("iot")
  /\ UNCHANGED <<desired, reported, snVars, registered, snDelta, sent, link,
                 goVars, restaurantID, toReport, dbVars, qtStatus, counts,
                 late>>

\* A rejected get is an answer like another for the flag; its document has
\* no shadow to parse.  The other keys are reported all the same.
ShadowRefused ==
  /\ GetAnswered
  /\ refused' = TRUE
  /\ toReport' = toReport \cup {"other"}
  /\ UNCHANGED <<shadowVars, goVars, cStatus, restaurantID, dbVars, qtStatus,
                 pc, call, counts, late, overlap, told>>

ShadowUnbinds ==
  /\ At("iot", "zero")
  /\ restaurantID' = NoRestaurant
  /\ toReport' = toReport \cup {"rest"}
  /\ GoTo("iot", "sn")
  /\ UNCHANGED <<shadowVars, goVars, cStatus, getVars, dbVars, qtStatus,
                 call, counts, history>>

ShadowBinds ==
  /\ At("iot", "bind")
  /\ cStatus' = SITE_BIND_OK_STATUS /\ qtStatus' = SITE_BIND_OK_STATUS
  /\ GoTo("iot", "settle")
  /\ UNCHANGED <<shadowVars, goVars, restaurantID, toReport, getVars,
                 dbVars, call, counts, history>>

\* The status is read again, 2 s later.
ShadowSettles ==
  /\ At("iot", "settle")
  /\ Call("iot", SetStatus(cStatus, TRUE))
  /\ GoTo("iot", "sn")
  /\ UNCHANGED <<shadowVars, goVars, cVars, dbVars, qtStatus, counts, history>>

\* Mutant of ShadowNames: the canteen is reported with the other keys.
ShadowNamesAll ==
  /\ At("iot", "sn")
  /\ toReport' = toReport \cup {"rest", "other"}
  /\ GoTo("iot", "run")
  /\ UNCHANGED <<shadowVars, goVars, cStatus, restaurantID, getVars,
                 dbVars, qtStatus, call, counts, history>>

\* The serial number; then GetShadowStatusCallback reports other keys.
ShadowNames ==
  /\ At("iot", "sn")
  /\ IF snGiven /\ cStatus < FACTORY_BIND_OK_STATUS
       THEN /\ cStatus' = FACTORY_BIND_OK_STATUS
            /\ Call("iot", SetStatus(FACTORY_BIND_OK_STATUS, FALSE))
       ELSE UNCHANGED <<cStatus, call>>
  /\ toReport' = toReport \cup {"other"}
  /\ GoTo("iot", "run")
  /\ UNCHANGED <<shadowVars, goVars, restaurantID, getVars, dbVars,
                 qtStatus, counts, history>>

\* sn_Callback
SnDelta ==
  /\ Yields /\ snDelta
  /\ snDelta' = FALSE /\ toReport' = toReport \cup {"sn"}
  /\ UNCHANGED <<desired, reported, snVars, registered, deltas, sent, link,
                 goVars, cStatus, restaurantID, getVars, dbVars,
                 qtStatus, pc, call, counts, history>>

\* The flag is cleared, the report is sent.
Report(w) ==
  /\ At("iot", "run") /\ w \in toReport
  /\ toReport' = toReport \ {w}
  /\ sent' = sent \cup
       {Sent(w, IF w = "rest" THEN restaurantID ELSE NoRestaurant,
             IF link THEN "out" ELSE "lost")}
  /\ UNCHANGED <<desired, reported, snVars, registered, deltas, snDelta,
                 link, goVars, cStatus, restaurantID, getVars, dbVars,
                 qtStatus, pc, call, counts, history>>

\* The answer to report m arrives, whatever is to be reported by now.
Answered(m) ==
  /\ Yields
  /\ m \in sent /\ m.st = "done" /\ sent' = sent \ {m}
  /\ toReport' = toReport \ {m.what}

\* Mutant of CanteenAccepted: it goes by the canteen that was reported.
CanteenAcceptedAsSent(m) ==
  /\ Answered(m) /\ m.what = "rest"
  /\ IF m.id \in Restaurants
       THEN /\ cStatus' = SITE_BIND_OK_STATUS
            /\ Call("iot", SetStatus(SITE_BIND_OK_STATUS, TRUE))
            /\ GoTo("iot", "show3")
       ELSE UNCHANGED <<cStatus, call, pc>>
  /\ TakeUp("iot")
  /\ late' = (late \/ m.id # restaurantID)
  /\ UNCHANGED <<desired, reported, snVars, registered, deltas, snDelta,
                 link, goVars, restaurantID, getVars, dbVars, qtStatus,
                 counts, told, refused>>

\* ShadowRestaurantIDUpdateStatusCallback looks at restaurantID as it is now.
CanteenAccepted(m) ==
  /\ Answered(m) /\ m.what = "rest"
  /\ IF restaurantID \in Restaurants
       THEN /\ cStatus' = SITE_BIND_OK_STATUS
            /\ Call("iot", SetStatus(SITE_BIND_OK_STATUS, TRUE))
            /\ GoTo("iot", "show3")
            /\ UNCHANGED qtStatus
       ELSE /\ qtStatus' = IF cStatus # FACTORY_BIND_OK_STATUS
                             THEN FACTORY_BIND_OK_STATUS ELSE qtStatus
            /\ UNCHANGED <<cStatus, call, pc>>
  /\ TakeUp("iot")
  /\ late' = (late \/ m.id # restaurantID)
  /\ UNCHANGED <<desired, reported, snVars, registered, deltas, snDelta,
                 link, goVars, restaurantID, getVars, dbVars, counts,
                 told, refused>>

\* ShadowSnUpdateStatusCallback
SnAccepted(m) ==
  /\ Answered(m) /\ m.what = "sn"
  /\ IF cStatus = WAIT_TOPIC_STATUS
       THEN /\ cStatus' = FACTORY_BIND_OK_STATUS
            /\ Call("iot", SetStatus(FACTORY_BIND_OK_STATUS, TRUE))
            /\ GoTo("iot", "show2")
            /\ TakeUp("iot")
       ELSE UNCHANGED <<cStatus, call, pc, overlap>>
  /\ UNCHANGED <<desired, reported, snVars, registered, deltas, snDelta,
                 link, goVars, restaurantID, getVars, dbVars, qtStatus,
                 counts, late, told, refused>>

\* No answer in time, or a refusal: the flag is set again.
TimedOut ==
  /\ At("iot", "run")
  /\ \E m \in sent :
       /\ m.st = "lost"
       /\ sent' = sent \ {m} /\ toReport' = toReport \cup {m.what}
  /\ UNCHANGED <<desired, reported, snVars, registered, deltas, snDelta,
                 link, goVars, cStatus, restaurantID, getVars, dbVars,
                 qtStatus, pc, call, counts, history>>

ShowStatus(s, l) ==
  /\ At("iot", l)
  /\ qtStatus' = s /\ GoTo("iot", "run")
  /\ UNCHANGED <<shadowVars, goVars, cVars, dbVars, call, counts, history>>

IotStep ==
  \/ DeltaArrives \/ DeltaClears \/ DeltaReports
  \/ ShadowArrives \/ ShadowRefused
  \/ ShadowUnbinds \/ ShadowBinds \/ ShadowSettles \/ ShadowNames
  \/ SnDelta
  \/ \E w \in {"rest", "sn", "other"} : Report(w)
  \/ \E m \in sent : CanteenAccepted(m) \/ SnAccepted(m)
  \/ TimedOut
  \/ ShowStatus(FACTORY_BIND_OK_STATUS, "show2")
  \/ ShowStatus(SITE_BIND_OK_STATUS, "show3")

-----------------------------------------------------------------------------
(* Bluetooth provisioning: write_plate_blue_scan and blue_scan_dev         *)

ScanStart ==
  /\ At("blue", "off")
  /\ provisions < MaxProvisions /\ provisions' = provisions + 1
  /\ mainTaskFlag' = FALSE
  /\ GoTo("blue", "scan")
  /\ UNCHANGED <<shadowVars, goStatus, bindStartFlag, bindRestaurantID, cVars,
                 dbVars, qtStatus, call, unbinds, removals, troubles,
                 history>>

\* Only a device that has been registered waits for a canteen.
ScanRead ==
  /\ At("blue", "scan")
  /\ IF goStatus = INIT_STATUS
       THEN UNCHANGED bindRestaurantID
       ELSE \E r \in Restaurants : bindRestaurantID' = r
  /\ GoTo("blue", "read")
  /\ UNCHANGED <<shadowVars, goStatus, bindStartFlag, mainTaskFlag, cVars,
                 dbVars, qtStatus, call, counts, history>>

ScanDone ==
  /\ At("blue", "read")
  /\ bindStartFlag' = TRUE /\ mainTaskFlag' = TRUE
  /\ GoTo("blue", "off")
  /\ UNCHANGED <<shadowVars, goStatus, bindRestaurantID, cVars, dbVars,
                 qtStatus, call, counts, history>>

BlueStep == ScanRead \/ ScanDone

-----------------------------------------------------------------------------

\* The process ends anywhere and starts with what the database holds.
Restart ==
  /\ troubles < MaxTroubles /\ troubles' = troubles + 1
  /\ goStatus' = dbStatus /\ bindStartFlag' = FALSE
  /\ bindRestaurantID' = NoRestaurant /\ mainTaskFlag' = TRUE
  /\ cStatus' = INIT_STATUS /\ restaurantID' = Unset
  /\ toReport' = {} /\ getShadowFlag' = FALSE /\ more' = FALSE
  /\ refused' = FALSE
  /\ deltas' = <<>> /\ snDelta' = FALSE /\ sent' = {} /\ link' = FALSE
  /\ pc' = Start /\ call' = [t \in Threads |-> NoCall]
  /\ UNCHANGED <<desired, reported, snVars, registered, dbVars, qtStatus,
                 provisions, unbinds, removals, late, overlap, told>>

MainStep == InitDevice \/ SaveInit \/ TellIot \/ StartBind \/ AskBind \/ Bound
            \/ StartUnbind

Next ==
  \/ \E t \in Threads : CallStep(t)
  \/ GiveSn \/ Remove \/ \E m \in sent : Apply(m)
  \/ MainStep
  \/ \E t \in {"main", "qt"} : UnbindStep(t)
  \/ QtStep \/ SessionStep \/ Disconnect \/ IotStep
  \/ ScanStart \/ BlueStep \/ Restart

Spec == Init /\ [][Next]_vars

(* No thread sleeps for ever, the shadow service answers, a lost connection *)
(* comes back, and what is repeated until it is good, a write of the        *)
(* database in C or a request of the main loop, is good in the end.         *)
QtGoes   == LocalStatus \/ TellLocal \/ TellQt
MainGoes == InitDevice \/ SaveInit \/ TellIot \/ StartBind \/ StartUnbind
Served   == (AskBind /\ pc'["main"] = "served")
            \/ \E t \in {"main", "qt"} : AskUnbind(t)
Heard    == (Bound /\ ~bindStartFlag') \/ \E t \in {"main", "qt"} : Unbound(t)

Fairness ==
  /\ WF_vars(GiveSn \/ \E m \in sent : Apply(m))
  /\ WF_vars(MainGoes \/ ForgetCanteen("main") \/ TellGo("main"))
  /\ WF_vars(QtGoes \/ ForgetCanteen("qt") \/ TellGo("qt"))
  /\ WF_vars(IotStep \/ TellGo("iot"))
  /\ WF_vars(SessionStep)
  /\ WF_vars(BlueStep)
  /\ SF_vars(\E t \in Threads : WriteDb(t))
  /\ SF_vars(Served) /\ SF_vars(Heard)

FairSpec == Spec /\ Fairness

-----------------------------------------------------------------------------
(* Properties *)

Statuses == INIT_STATUS..LOCAL_UNBIND_STATUS

Places == {"loop", "init", "tell", "asking", "served", "ask", "answer",
           "rest", "told", "wait", "boot", "run", "delta", "report", "zero",
           "bind", "settle", "sn", "show2", "show3", "local", "off", "scan",
           "read"}

Reports == {"rest", "sn", "other"}

DataOK ==
  /\ desired \in Ids \cup {Unset} /\ reported \in Ids \cup {Unset}
  /\ deltas \in Seq(Ids)
  /\ sent \subseteq [what : Reports, id : Ids, st : {"out", "done", "lost"}]
  /\ goStatus \in Statuses /\ cStatus \in Statuses
  /\ dbStatus \in Statuses /\ qtStatus \in Statuses
  /\ bindRestaurantID \in Ids /\ dbRest \in Ids
  /\ restaurantID \in Ids \cup {Unset} /\ told \in Ids \cup {Unset}
  /\ toReport \subseteq Reports
  /\ provisions \in 0..MaxProvisions /\ unbinds \in 0..MaxUnbinds
  /\ removals \in 0..MaxRemovals /\ troubles \in 0..MaxTroubles

PcOK == pc \in [Threads -> Places]

Calls == [to : {"none", "status", "rest"}, st : Statuses, id : Ids,
          again : BOOLEAN, step : {"db", "go"}]

CallOK == call \in [Threads -> Calls]

FlagsOK ==
  /\ snGiven \in BOOLEAN /\ snReported \in BOOLEAN
  /\ registered \in BOOLEAN /\ snDelta \in BOOLEAN
  /\ link \in BOOLEAN /\ bindStartFlag \in BOOLEAN
  /\ mainTaskFlag \in BOOLEAN /\ getShadowFlag \in BOOLEAN
  /\ more \in BOOLEAN
  /\ late \in BOOLEAN /\ overlap \in BOOLEAN /\ refused \in BOOLEAN

\* Types of the shadow, the copies of the status, the flags and the calls.
TypeOK == DataOK /\ PcOK /\ CallOK /\ FlagsOK

Quiet == \A t \in Threads : ~Busy(t)

\* Nothing is under way between the device and its shadow.
AtRest ==
  /\ Quiet /\ link
  /\ deltas = <<>> /\ sent = {} /\ toReport = {} /\ ~snDelta /\ ~getShadowFlag
  /\ ~more

\* A device that the shadow has told that it is unbound does not stay bound,
\* whatever is answered late, lost or cut off by a restart, but for a get that
\* the shadow refuses: the code takes the refusal for the answer.
LastWordWins ==
  Quiet /\ At("iot", "run") /\ ~getShadowFlag /\ ~overlap
    /\ dbStatus = SITE_BIND_OK_STATUS => told # NoRestaurant \/ refused

\* A device that has been unbound is not at rest while the backend still
\* holds it bound: it goes on asking.
UnbindReachesBackend ==
  AtRest /\ pc["main"] = "loop" /\ ~bindStartFlag /\ ~overlap /\ ~late
    /\ dbStatus = FACTORY_BIND_OK_STATUS
    => desired \notin Restaurants

\* Go and the database agree on the status when the threads are at rest.
CopiesAgree ==
  Quiet /\ ~overlap => goStatus = dbStatus

\* The device ends bound exactly when the backend has bound it, though the
\* connection is lost or the process ends anywhere in a removal by the
\* canteen.  Excused: a get that the shadow refused, after which nothing asks
\* again, and the races of UnbindReachesBackend.
BindingSettles ==
  <>[](overlap \/ late \/ refused
         \/ (dbStatus = SITE_BIND_OK_STATUS <=> desired \in Restaurants))

-----------------------------------------------------------------------------
(* The invariants that make the properties above inductive                 *)

\* Before the backend names a canteen nothing else does; only one that the
\* device has been told is reported.
NamedInv ==
  /\ desired = Unset =>
       /\ reported = Unset /\ deltas = <<>> /\ restaurantID = Unset
       /\ told = Unset
       /\ pc["iot"] # "zero"
  /\ restaurantID = Unset =>
       /\ "rest" \notin toReport /\ \A m \in sent : m.what # "rest"
       /\ pc["iot"] \notin {"delta", "report"}

\* A device that was told that it is unbound has no canteen to accept, and
\* none that was told so writes the status of a bound one.
ToldInv ==
  /\ told = NoRestaurant => restaurantID \notin Restaurants \/ pc["iot"] = "zero"
  /\ pc["iot"] = "delta" => restaurantID = told
  /\ pc["iot"] \in {"bind", "settle"} => told # NoRestaurant
  /\ \A t \in Threads :
       call[t].to = "status" /\ call[t].st = SITE_BIND_OK_STATUS
         => t = "iot" /\ told # NoRestaurant

Writes(t) == call[t].to = "status"

\* Thread t is going to write that the device is not bound, until it is good.
Clears(t) ==
  /\ Writes(t) /\ call[t].step = "db" /\ call[t].again
  /\ call[t].st = FACTORY_BIND_OK_STATUS

OneBusy == \A t, u \in Threads : Busy(t) /\ Busy(u) => t = u

\* Only registered devices are bound, and registering leaves the status low.
NewInv ==
  /\ goStatus = INIT_STATUS =>
       \/ dbStatus = INIT_STATUS
       \/ \E t \in Threads : Writes(t) /\ call[t].step = "go"
  /\ pc["main"] \in {"init", "tell"} =>
       /\ Free("main") /\ dbStatus \in {INIT_STATUS, WAIT_TOPIC_STATUS}
  /\ pc["main"] = "init" => goStatus = WAIT_TOPIC_STATUS
  /\ \A t \in Threads : Writes(t) => call[t].st >= FACTORY_BIND_OK_STATUS

\* The copy of the IoT thread says bound when the database does, and while
\* it is about to.
BoundInv ==
  /\ dbStatus = SITE_BIND_OK_STATUS /\ pc["iot"] \notin {"wait", "boot"} =>
       cStatus = SITE_BIND_OK_STATUS \/ \E t \in Threads : Clears(t)
  /\ pc["iot"] = "settle" => cStatus = SITE_BIND_OK_STATUS
  /\ Writes("iot") /\ call["iot"].st = SITE_BIND_OK_STATUS
       => cStatus = SITE_BIND_OK_STATUS

\* A device that was told that it is unbound, and holds itself bound, is
\* about to ask or to write.
ClearInv ==
  dbStatus = SITE_BIND_OK_STATUS /\ told = NoRestaurant =>
    \/ getShadowFlag \/ refused \/ pc["iot"] \in {"wait", "boot", "delta"}
    \/ Clears("iot")

\* Where Go and the database differ, a thread is about to mend it.
AgreeInv ==
  /\ \/ goStatus = dbStatus \/ pc["main"] = "init"
     \/ \E t \in Threads : Writes(t)
  /\ \A t \in Threads :
       Writes(t) /\ call[t].step = "go" => dbStatus = call[t].st
  /\ pc["qt"] = "tell" =>
       IF Free("qt") THEN dbStatus = LOCAL_UNBIND_STATUS
       ELSE Writes("qt") /\ call["qt"].st = LOCAL_UNBIND_STATUS

WordInv == ~overlap => OneBusy /\ NewInv /\ BoundInv /\ ClearInv

CopyInv == ~overlap /\ ~DbFaults => AgreeInv

BindInv == TypeOK /\ NamedInv /\ ToldInv /\ WordInv /\ CopyInv
=============================================================================
