---------------------------- MODULE BindingProofs ----------------------------
(***************************************************************************)
(* Proofs about Binding: the values keep their types, a device is not      *)
(* bound after it has been told that it is not, and the copies of the      *)
(* status in Go and in the database agree when no thread is at work.       *)
(***************************************************************************)
EXTENDS Binding, SequenceTheorems, TLAPS

(* The names of the status are different numbers. *)
LEMMA StatusFacts ==
  /\ Statuses = 0..4 /\ Statuses \subseteq Nat
  /\ INIT_STATUS \in Statuses /\ WAIT_TOPIC_STATUS \in Statuses
  /\ FACTORY_BIND_OK_STATUS \in Statuses /\ SITE_BIND_OK_STATUS \in Statuses
  /\ LOCAL_UNBIND_STATUS \in Statuses
BY SMT DEF Statuses, INIT_STATUS, WAIT_TOPIC_STATUS, FACTORY_BIND_OK_STATUS,
   SITE_BIND_OK_STATUS, LOCAL_UNBIND_STATUS

LEMMA IdFacts ==
  /\ NoRestaurant \in Ids /\ Restaurants \subseteq Ids
  /\ NoRestaurant \notin Restaurants /\ Unset \notin Ids
BY RestaurantAssumption DEF Ids

-----------------------------------------------------------------------------
(* Types *)

(* Every step leaves the threads at places of their programs. *)
LEMMA NextPc == PcOK /\ [Next]_vars => PcOK'
<1> SUFFICES ASSUME PcOK, [Next]_vars PROVE PcOK'
  OBVIOUS
<1> USE DEF PcOK, Threads, Places, GoTo
<1>1. CASE UNCHANGED pc
  BY <1>1
<1>2. CASE \E t \in Threads : CallStep(t)
  BY <1>2, <1>1 DEF CallStep, WriteDb, TellGo, WriteDbFails
<1>3. CASE GiveSn \/ Remove \/ \E m \in sent : Apply(m)
  BY <1>3, <1>1 DEF GiveSn, Remove, Apply
<1>4. CASE InitDevice \/ SaveInit \/ TellIot \/ StartBind
  BY <1>4 DEF InitDevice, SaveInit, TellIot, StartBind
<1>5. CASE AskBind \/ Bound \/ StartUnbind
  BY <1>5 DEF AskBind, Bound, StartUnbind
<1>6. CASE \E t \in {"main", "qt"} : UnbindStep(t)
  <2>1. PICK t \in {"main", "qt"} : UnbindStep(t)
    BY <1>6
  <2>2. Asked(t) \in Places
    BY DEF Asked
  <2>3. \E l \in Places : pc' = [pc EXCEPT ![t] = l]
    BY <2>1, <2>2 DEF UnbindStep, AskUnbind, Unbound, AskUnbindFails,
       ForgetCanteen
  <2> QED BY <2>3
<1>7. CASE QtStep
  <2>1. CASE QtUnbind \/ TellLocal \/ TellQt
    BY <2>1 DEF QtUnbind, TellLocal, TellQt
  <2>2. CASE LocalStatus
    <3>1. \E l \in {"tell", "ask"} : pc' = [pc EXCEPT !["qt"] = l]
      BY <2>2 DEF LocalStatus
    <3> QED BY <3>1
  <2> QED BY <1>7, <2>1, <2>2 DEF QtStep
<1>8. CASE SessionStep \/ Disconnect
  BY <1>8, <1>1 DEF SessionStep, Certified, Connect, Reconnect, Disconnect
<1>9. CASE DeltaArrives \/ DeltaClears \/ DeltaReports
  <2>1. \E l \in {"delta", "report", "run"} : pc' = [pc EXCEPT !["iot"] = l]
    BY <1>9, Zenon DEF DeltaArrives, DeltaClears, DeltaReports
  <2> QED BY <2>1
<1>10. CASE ShadowArrives
  <2>1. \E l \in {"zero", "bind", "sn"} : pc' = [pc EXCEPT !["iot"] = l]
    BY <1>10, Zenon DEF ShadowArrives
  <2> QED BY <2>1
<1>11. CASE ShadowUnbinds \/ ShadowBinds \/ ShadowSettles \/ ShadowNames
  <2>1. \E l \in {"settle", "sn", "run"} : pc' = [pc EXCEPT !["iot"] = l]
    BY <1>11, Zenon DEF ShadowUnbinds, ShadowBinds, ShadowSettles, ShadowNames
  <2> QED BY <2>1
<1>12. CASE ShadowRefused \/ SnDelta \/ TimedOut \/ \E w \in {"rest", "sn", "other"} : Report(w)
  BY <1>12, <1>1 DEF ShadowRefused, SnDelta, TimedOut, Report
<1>13. CASE \E m \in sent : CanteenAccepted(m) \/ SnAccepted(m)
  <2>1. PICK m \in sent : CanteenAccepted(m) \/ SnAccepted(m)
    BY <1>13
  <2>2. pc' = pc \/ \E l \in {"show2", "show3"} : pc' = [pc EXCEPT !["iot"] = l]
    BY <2>1 DEF CanteenAccepted, SnAccepted
  <2> QED BY <2>2
<1>14. CASE \/ ShowStatus(FACTORY_BIND_OK_STATUS, "show2")
            \/ ShowStatus(SITE_BIND_OK_STATUS, "show3")
  BY <1>14 DEF ShowStatus
<1>15. CASE ScanStart \/ BlueStep
  BY <1>15 DEF ScanStart, BlueStep, ScanRead, ScanDone
<1>16. CASE Restart
  BY <1>16 DEF Restart, Start
<1>17. CASE UNCHANGED vars
  BY <1>17, <1>1 DEF vars
<1> QED
  BY <1>2, <1>3, <1>4, <1>5, <1>6, <1>7, <1>8, <1>9, <1>10, <1>11, <1>12,
     <1>13, <1>14, <1>15, <1>16, <1>17 DEF Next, MainStep, IotStep

(* The calls that the handlers make are calls of the database. *)
LEMMA CallsMade ==
  /\ NoCall \in Calls
  /\ \A s \in Statuses, b \in BOOLEAN : SetStatus(s, b) \in Calls
  /\ \A r \in Ids, b \in BOOLEAN : SetRest(r, b) \in Calls
BY StatusFacts, IdFacts, SMT DEF NoCall, SetStatus, SetRest, Calls, INIT_STATUS

(* A step of a call keeps its fields. *)
LEMMA CallGoesOn ==
  ASSUME NEW c \in Calls
  PROVE  [c EXCEPT !.step = "go"] \in Calls
BY SMT DEF Calls

LEMMA NextCall ==
  DataOK /\ CallOK /\ [Next]_vars => CallOK'
<1> SUFFICES ASSUME DataOK, CallOK, [Next]_vars PROVE CallOK'
  OBVIOUS
<1>1. CASE UNCHANGED call
  BY <1>1 DEF CallOK
<1>2. ASSUME NEW t \in Threads, NEW c \in Calls, call' = [call EXCEPT ![t] = c]
      PROVE  CallOK'
  BY <1>2, SMT DEF CallOK
<1>3. CASE \E t \in Threads : CallStep(t)
  <2>1. PICK t \in Threads : CallStep(t)
    BY <1>3
  <2>2. CASE WriteDb(t)
    <3>1. [call[t] EXCEPT !.step = "go"] \in Calls
      BY CallGoesOn DEF CallOK
    <3>2. call' = [call EXCEPT ![t] = [call[t] EXCEPT !.step = "go"]]
      BY <2>2 DEF WriteDb, CallOK
    <3> QED BY <3>1, <3>2, <1>2
  <2>3. CASE TellGo(t) \/ WriteDbFails(t)
    BY <2>3, <1>2, CallsMade DEF TellGo, WriteDbFails
  <2> QED BY <2>1, <2>2, <2>3 DEF CallStep
<1>4. CASE GiveSn \/ Remove \/ \E m \in sent : Apply(m)
  BY <1>4, <1>1 DEF GiveSn, Remove, Apply
<1>5. CASE MainStep
  BY <1>5, <1>1 DEF MainStep, InitDevice, SaveInit, TellIot, StartBind,
     AskBind, Bound, StartUnbind
<1>6. ASSUME NEW t \in Threads, ClearBinding(t)
      PROVE  CallOK'
  BY <1>6, <1>1, <1>2, CallsMade, StatusFacts DEF ClearBinding, Call
<1>7. CASE \E t \in {"main", "qt"} : UnbindStep(t)
  <2>1. PICK t \in {"main", "qt"} : UnbindStep(t)
    BY <1>7
  <2>2. t \in Threads
    BY DEF Threads
  <2>3. CASE AskUnbind(t) \/ AskUnbindFails(t)
    BY <2>3, <1>1 DEF AskUnbind, AskUnbindFails
  <2>4. CASE Unbound(t) \/ ForgetCanteen(t)
    BY <2>2, <2>4, <1>2, CallsMade, StatusFacts, IdFacts
       DEF Unbound, ForgetCanteen, Call
  <2> QED BY <2>1, <2>3, <2>4 DEF UnbindStep
<1>8. CASE QtStep
  <2>1. CASE QtUnbind
    BY <2>1, <1>6 DEF QtUnbind, Threads
  <2>2. CASE LocalStatus
    <3>1. \/ UNCHANGED call
          \/ call' = [call EXCEPT !["qt"] = SetStatus(LOCAL_UNBIND_STATUS, FALSE)]
      BY <2>2 DEF LocalStatus, Call
    <3> QED BY <3>1, <1>1, <1>2, CallsMade, StatusFacts DEF Threads
  <2>3. CASE TellLocal \/ TellQt
    BY <2>3, <1>1 DEF TellLocal, TellQt
  <2> QED BY <1>8, <2>1, <2>2, <2>3 DEF QtStep
<1>9. CASE SessionStep \/ Disconnect
  BY <1>9, <1>1 DEF SessionStep, Certified, Connect, Reconnect, Disconnect
<1>10. CASE DeltaArrives
  <2>1. Head(deltas) \in Ids
    BY <1>10 DEF DeltaArrives, DataOK
  <2> QED BY <1>10, <2>1, <1>2, CallsMade DEF DeltaArrives, Call, Threads
<1>11. CASE DeltaClears
  BY <1>11, <1>6 DEF DeltaClears, Threads
<1>12. CASE ShadowArrives
  <2>1. CASE ClearBinding("iot")
    BY <2>1, <1>6 DEF Threads
  <2>2. CASE desired # Unset /\ Call("iot", SetRest(desired, TRUE))
    <3>1. desired \in Ids
      BY <2>2 DEF DataOK
    <3> QED BY <2>2, <3>1, <1>2, CallsMade DEF Call, Threads
  <2> QED BY <1>12, <2>1, <2>2, <1>1 DEF ShadowArrives
<1>13. CASE ShadowSettles
  BY <1>13, <1>2, CallsMade DEF ShadowSettles, Call, Threads, DataOK
<1>14. CASE ShadowNames
  BY <1>14, <1>1, <1>2, CallsMade, StatusFacts DEF ShadowNames, Call, Threads
<1>15. CASE \E m \in sent : CanteenAccepted(m) \/ SnAccepted(m)
  <2>1. PICK m \in sent : CanteenAccepted(m) \/ SnAccepted(m)
    BY <1>15
  <2> QED
    BY <2>1, <1>1, <1>2, CallsMade, StatusFacts
       DEF CanteenAccepted, SnAccepted, Call, Threads
<1>16. CASE \/ ShadowRefused \/ DeltaReports \/ ShadowUnbinds \/ ShadowBinds \/ SnDelta
            \/ TimedOut \/ \E w \in {"rest", "sn", "other"} : Report(w)
            \/ ShowStatus(FACTORY_BIND_OK_STATUS, "show2")
            \/ ShowStatus(SITE_BIND_OK_STATUS, "show3")
  BY <1>16, <1>1 DEF ShadowRefused, DeltaReports, ShadowUnbinds, ShadowBinds, SnDelta,
     TimedOut, Report, ShowStatus
<1>17. CASE ScanStart \/ BlueStep
  BY <1>17, <1>1 DEF ScanStart, BlueStep, ScanRead, ScanDone
<1>18. CASE Restart
  BY <1>18, CallsMade DEF Restart, CallOK
<1>19. CASE UNCHANGED vars
  BY <1>19, <1>1 DEF vars
<1> QED
  BY <1>3, <1>4, <1>5, <1>7, <1>8, <1>9, <1>10, <1>11, <1>12, <1>13, <1>14,
     <1>15, <1>16, <1>17, <1>18, <1>19 DEF Next, IotStep

(* Every step keeps the flags Boolean. *)
LEMMA NextFlags == FlagsOK /\ [Next]_vars => FlagsOK'
<1> SUFFICES ASSUME FlagsOK, [Next]_vars PROVE FlagsOK'
  OBVIOUS
<1> USE DEF FlagsOK, shadowVars, snVars, getVars, goVars, cVars, dbVars, history, counts
<1>1. CASE \E t \in Threads : CallStep(t)
  BY <1>1, Zenon DEF CallStep, WriteDb, TellGo, WriteDbFails
<1>2. CASE GiveSn
  BY <1>2, Zenon DEF GiveSn
<1>3. CASE Remove
  BY <1>3, Zenon DEF Remove
<1>4. CASE \E m \in sent : Apply(m)
  BY <1>4, Zenon DEF Apply
<1>5. CASE InitDevice
  BY <1>5, Zenon DEF InitDevice, TakeUp
<1>6. CASE SaveInit \/ TellIot \/ StartBind
  BY <1>6, SMT DEF SaveInit, TellIot, StartBind
<1>7. CASE AskBind
  BY <1>7, Zenon DEF AskBind
<1>8. CASE Bound
  BY <1>8, Zenon DEF Bound
<1>9. CASE StartUnbind
  BY <1>9, Zenon DEF StartUnbind, TakeUp
<1>10. CASE \E t \in {"main", "qt"} : UnbindStep(t)
  <2>1. PICK t \in {"main", "qt"} : UnbindStep(t)
    BY <1>10
  <2>2. CASE AskUnbind(t)
    BY <2>2, Zenon DEF AskUnbind
  <2>3. CASE Unbound(t)
    BY <2>3, Zenon DEF Unbound
  <2>4. CASE AskUnbindFails(t)
    BY <2>4, Zenon DEF AskUnbindFails
  <2>5. CASE ForgetCanteen(t)
    BY <2>5, Zenon DEF ForgetCanteen
  <2> QED BY <2>1, <2>2, <2>3, <2>4, <2>5 DEF UnbindStep
<1>11. CASE QtUnbind
  BY <1>11, Zenon DEF QtUnbind, TakeUp
<1>12. CASE LocalStatus
  BY <1>12, Zenon DEF LocalStatus
<1>13. CASE TellLocal
  BY <1>13, Zenon DEF TellLocal
<1>14. CASE TellQt
  BY <1>14, SMT DEF TellQt
<1>15. CASE Certified
  BY <1>15, Zenon DEF Certified
<1>16. CASE Connect
  BY <1>16, Zenon DEF Connect
<1>17. CASE Reconnect
  BY <1>17, Zenon DEF Reconnect
<1>18. CASE Disconnect
  BY <1>18, Zenon DEF Disconnect
<1>19. CASE DeltaArrives
  BY <1>19, Zenon DEF DeltaArrives, TakeUp
<1>20. CASE DeltaClears
  BY <1>20, Zenon DEF DeltaClears
<1>21. CASE DeltaReports
  BY <1>21, Zenon DEF DeltaReports
<1>22. CASE ShadowArrives
  BY <1>22, Zenon DEF ShadowArrives, GetAnswered, TakeUp
<1>23. CASE ShadowUnbinds \/ ShadowBinds
  BY <1>23, SMT DEF ShadowUnbinds, ShadowBinds
<1>24. CASE ShadowSettles
  BY <1>24, Zenon DEF ShadowSettles
<1>25. CASE ShadowNames
  BY <1>25, Zenon DEF ShadowNames
<1>26. CASE SnDelta
  BY <1>26, Zenon DEF SnDelta
<1>27. CASE TimedOut \/ \E w \in {"rest", "sn", "other"} : Report(w)
  BY <1>27, SMT DEF TimedOut, Report
<1>28. CASE \E m \in sent : CanteenAccepted(m)
  BY <1>28, Zenon DEF CanteenAccepted, TakeUp
<1>29. CASE \E m \in sent : SnAccepted(m)
  BY <1>29, Zenon DEF SnAccepted, TakeUp
<1>30. CASE \/ ShowStatus(FACTORY_BIND_OK_STATUS, "show2")
             \/ ShowStatus(SITE_BIND_OK_STATUS, "show3")
  BY <1>30, SMT DEF ShowStatus
<1>31. CASE ScanStart
  BY <1>31, Zenon DEF ScanStart
<1>32. CASE ScanRead
  BY <1>32, Zenon DEF ScanRead
<1>33. CASE ScanDone
  BY <1>33, Zenon DEF ScanDone
<1>34. CASE Restart
  BY <1>34, Zenon DEF Restart
<1>35. CASE UNCHANGED vars
  BY <1>35, Zenon DEF vars
<1>36. CASE ShadowRefused
  BY <1>36, Zenon DEF ShadowRefused, GetAnswered
<1> QED
  BY <1>1, <1>2, <1>3, <1>4, <1>5, <1>6, <1>7, <1>8, <1>9, <1>10, <1>11,
     <1>12, <1>13, <1>14, <1>15, <1>16, <1>17, <1>18, <1>19, <1>20, <1>21,
     <1>22, <1>23, <1>24, <1>25, <1>26, <1>27, <1>28, <1>29, <1>30, <1>31,
     <1>32, <1>33, <1>34, <1>35, <1>36
     DEF Next, MainStep, QtStep, SessionStep, IotStep, BlueStep

(* What the shadow publishes is a canteen, or none. *)
LEMMA Published ==
  ASSUME NEW want \in Ids, NEW have, deltas \in Seq(Ids), Publish(want, have)
  PROVE  deltas' \in Seq(Ids)
BY SMT DEF Publish

LEMMA NextData ==
  DataOK /\ CallOK /\ NamedInv /\ [Next]_vars => DataOK'
<1> SUFFICES ASSUME DataOK, CallOK, NamedInv, [Next]_vars
             PROVE  DataOK'
  OBVIOUS
<1> USE DEF shadowVars, snVars, getVars, goVars, cVars, dbVars, history, counts
<1>1. CASE \E t \in Threads : CallStep(t)
  <2>1. PICK t \in Threads : CallStep(t)
    BY <1>1
  <2>2. call[t].st \in Statuses /\ call[t].id \in Ids
    BY DEF CallOK, Calls
  <2> QED BY <2>1, <2>2, SMT DEF CallStep, WriteDb, TellGo, WriteDbFails, DataOK
<1>2. CASE GiveSn
  BY <1>2, SMT DEF GiveSn, DataOK
<1>3. CASE Remove
  BY <1>3, BoundAssumption, Published, IdFacts, SMT DEF Remove, SetDesired, DataOK
<1>4. ASSUME NEW m \in sent, Apply(m) PROVE DataOK'
  <2>1. m \in [what : Reports, id : Ids, st : {"out", "done", "lost"}]
    BY DEF DataOK
  <2>2. sent' \subseteq [what : Reports, id : Ids, st : {"out", "done", "lost"}]
    BY <1>4, <2>1, SMT DEF Apply, Sent, DataOK
  <2>3. reported' \in Ids \cup {Unset}
    BY <1>4, <2>1, SMT DEF Apply, DataOK
  <2>4. deltas' \in Seq(Ids)
    <3>1. Publish(desired, reported') /\ deltas \in Seq(Ids)
      BY <1>4 DEF Apply, DataOK
    <3>2. CASE desired \in Ids
      BY <3>1, <3>2, Published
    <3>3. CASE desired = Unset
      <4>1. reported' = Unset
        BY <1>4, <3>3 DEF Apply, NamedInv
      <4> QED BY <3>1, <3>3, <4>1 DEF Publish
    <3> QED BY <3>2, <3>3 DEF DataOK
  <2> QED BY <1>4, <2>2, <2>3, <2>4, SMT DEF Apply, DataOK
<1>5. CASE InitDevice
  BY <1>5, StatusFacts, Zenon DEF InitDevice, DataOK
<1>6. CASE SaveInit
  BY <1>6, StatusFacts, SMT DEF SaveInit, DataOK
<1>7. CASE TellIot
  BY <1>7, StatusFacts, SMT DEF TellIot, DataOK
<1>8. CASE StartBind
  BY <1>8, SMT DEF StartBind, DataOK
<1>9. CASE Bound
  BY <1>9, Zenon DEF Bound, DataOK
<1>10. CASE StartUnbind
  BY <1>10, Zenon DEF StartUnbind, DataOK
<1>11. CASE AskBind
  BY <1>11, Published, IdFacts, SMT DEF AskBind, SetDesired, DataOK
<1>12. ASSUME NEW t \in {"main", "qt"}, UnbindStep(t) PROVE DataOK'
  <2>1. CASE AskUnbind(t)
    BY <2>1, Published, IdFacts, SMT DEF AskUnbind, SetDesired, DataOK
  <2>2. CASE Unbound(t)
    BY <2>2, StatusFacts, Zenon DEF Unbound, DataOK
  <2>3. CASE AskUnbindFails(t) \/ ForgetCanteen(t)
    BY <2>3, Zenon DEF AskUnbindFails, ForgetCanteen, DataOK
  <2> QED BY <1>12, <2>1, <2>2, <2>3 DEF UnbindStep
<1>13. CASE QtUnbind
  <2>1. cStatus' \in Statuses
    BY <1>13, StatusFacts DEF QtUnbind, ClearBinding, DataOK
  <2>2. unbinds' \in 0..MaxUnbinds
    BY <1>13, BoundAssumption DEF QtUnbind, DataOK
  <2> QED BY <1>13, <2>1, <2>2, Zenon DEF QtUnbind, DataOK
<1>14. CASE LocalStatus
  BY <1>14, Zenon DEF LocalStatus, DataOK
<1>15. CASE TellLocal
  BY <1>15, StatusFacts, Zenon DEF TellLocal, DataOK
<1>16. CASE TellQt
  BY <1>16, StatusFacts, Zenon DEF TellQt, DataOK
<1>17. CASE SessionStep
  BY <1>17, SMT DEF SessionStep, Certified, Connect, Reconnect, DataOK
<1>18. CASE Disconnect
  BY <1>18, BoundAssumption, SMT DEF Disconnect, Sent, DataOK
<1>19. CASE DeltaArrives
  <2>1. Head(deltas) \in Ids /\ Tail(deltas) \in Seq(Ids)
    BY <1>19 DEF DeltaArrives, DataOK
  <2> QED BY <1>19, <2>1, SMT DEF DeltaArrives, DataOK
<1>20. CASE DeltaClears
  <2>1. cStatus' \in Statuses
    BY <1>20, StatusFacts DEF DeltaClears, ClearBinding, DataOK
  <2> QED BY <1>20, <2>1, Zenon DEF DeltaClears, DataOK
<1>21. CASE DeltaReports
  <2>1. toReport' \subseteq Reports
    BY <1>21, Zenon DEF DeltaReports, Reports, DataOK
  <2> QED BY <1>21, <2>1, Zenon DEF DeltaReports, DataOK
<1>22. CASE ShadowArrives
  <2>1. cStatus' \in Statuses
    BY <1>22, StatusFacts DEF ShadowArrives, ClearBinding, DataOK
  <2>2. deltas' \in Seq(Ids)
    BY <1>22 DEF ShadowArrives
  <2>3. told' \in Ids \cup {Unset}
    BY <1>22 DEF ShadowArrives, DataOK
  <2> QED BY <1>22, <2>1, <2>2, <2>3, Zenon DEF ShadowArrives, DataOK
<1>23. CASE ShadowUnbinds
  BY <1>23, IdFacts, SMT DEF ShadowUnbinds, Reports, DataOK
<1>24. CASE ShadowBinds
  BY <1>24, StatusFacts, SMT DEF ShadowBinds, DataOK
<1>25. CASE ShadowSettles
  BY <1>25, SMT DEF ShadowSettles, DataOK
<1>26. CASE ShadowNames
  <2>1. cStatus' \in Statuses
    BY <1>26, StatusFacts, Zenon DEF ShadowNames, DataOK
  <2>2. toReport' \subseteq Reports
    BY <1>26, Zenon DEF ShadowNames, Reports, DataOK
  <2> QED BY <1>26, <2>1, <2>2, Zenon DEF ShadowNames, DataOK
<1>27. CASE SnDelta
  <2>1. toReport' \subseteq Reports
    BY <1>27, Zenon DEF SnDelta, Reports, DataOK
  <2> QED BY <1>27, <2>1, Zenon DEF SnDelta, DataOK
<1>28. ASSUME NEW w \in {"rest", "sn", "other"}, Report(w) PROVE DataOK'
  <2>1. w = "rest" => restaurantID \in Ids
    BY <1>28 DEF Report, NamedInv, DataOK
  <2> QED BY <1>28, <2>1, IdFacts, SMT DEF Report, Sent, Reports, DataOK
<1>29. ASSUME NEW m \in sent, CanteenAccepted(m) \/ SnAccepted(m) PROVE DataOK'
  <2>1. /\ toReport' \subseteq Reports
        /\ sent' \subseteq [what : Reports, id : Ids, st : {"out", "done", "lost"}]
    BY <1>29, Zenon DEF CanteenAccepted, SnAccepted, Answered, DataOK
  <2>2. CASE CanteenAccepted(m)
    <3>1. cStatus' \in Statuses /\ qtStatus' \in Statuses
      BY <2>2, StatusFacts, Zenon DEF CanteenAccepted, DataOK
    <3> QED BY <2>1, <2>2, <3>1, Zenon DEF CanteenAccepted, DataOK
  <2>3. CASE SnAccepted(m)
    <3>1. cStatus' \in Statuses
      BY <2>3, StatusFacts, Zenon DEF SnAccepted, DataOK
    <3> QED BY <2>1, <2>3, <3>1, Zenon DEF SnAccepted, DataOK
  <2> QED BY <1>29, <2>2, <2>3
<1>30. CASE TimedOut
  BY <1>30, SMT DEF TimedOut, DataOK
<1>31. CASE \/ ShowStatus(FACTORY_BIND_OK_STATUS, "show2")
            \/ ShowStatus(SITE_BIND_OK_STATUS, "show3")
  BY <1>31, StatusFacts, Zenon DEF ShowStatus, DataOK
<1>32. CASE ScanStart \/ BlueStep
  BY <1>32, BoundAssumption, IdFacts, SMT DEF ScanStart, BlueStep, ScanRead,
     ScanDone, DataOK
<1>33. CASE Restart
  BY <1>33, BoundAssumption, StatusFacts, IdFacts, SMT DEF Restart, DataOK
<1>34. CASE UNCHANGED vars
  BY <1>34, SMT DEF vars, DataOK
<1>35. CASE ShadowRefused
  <2>1. toReport' \subseteq Reports
    BY <1>35, Zenon DEF ShadowRefused, Reports, DataOK
  <2> QED BY <1>35, <2>1, Zenon DEF ShadowRefused, DataOK
<1> QED
  BY <1>1, <1>2, <1>3, <1>4, <1>5, <1>6, <1>7, <1>8, <1>9, <1>10, <1>11,
     <1>12, <1>13, <1>14, <1>15, <1>16, <1>17, <1>18, <1>19, <1>20, <1>21,
     <1>22, <1>23, <1>24, <1>25, <1>26, <1>27, <1>28, <1>29, <1>30, <1>31,
     <1>32, <1>33, <1>34, <1>35
     DEF Next, MainStep, QtStep, IotStep

-----------------------------------------------------------------------------
(* A step of a thread moves no other thread *)

LEMMA PcMoves ==
  ASSUME PcOK, NEW t \in Threads, NEW l, GoTo(t, l)
  PROVE  pc'[t] = l /\ \A u \in Threads \ {t} : pc'[u] = pc[u]
BY SMT DEF PcOK, GoTo

LEMMA CallMoves ==
  ASSUME CallOK, NEW t \in Threads, NEW c, Call(t, c)
  PROVE  call'[t] = c /\ \A u \in Threads \ {t} : call'[u] = call[u]
BY SMT DEF CallOK, Call

(* What a step of a call of thread t does to the call. *)
LEMMA CallAlone ==
  ASSUME CallOK, NEW t \in Threads, CallStep(t)
  PROVE  /\ UNCHANGED pc /\ ~Free(t)
         /\ WriteDb(t) \/ TellGo(t) \/ WriteDbFails(t)
         /\ WriteDb(t) =>
              /\ call[t].step = "db" /\ call'[t].step = "go"
              /\ call'[t].to = call[t].to /\ call'[t].st = call[t].st
         /\ TellGo(t) => call[t].step = "go" /\ call'[t] = NoCall
         /\ WriteDbFails(t) =>
              call[t].step = "db" /\ ~call[t].again /\ call'[t] = NoCall
         /\ \A u \in Threads \ {t} : call'[u] = call[u]
<1>1. WriteDb(t) =>
        /\ call[t].step = "db" /\ call'[t].step = "go"
        /\ call'[t].to = call[t].to /\ call'[t].st = call[t].st
        /\ \A u \in Threads \ {t} : call'[u] = call[u]
  <2> SUFFICES ASSUME WriteDb(t)
               PROVE  /\ call[t].step = "db" /\ call'[t].step = "go"
                      /\ call'[t].to = call[t].to /\ call'[t].st = call[t].st
                      /\ \A u \in Threads \ {t} : call'[u] = call[u]
    OBVIOUS
  <2>1. call' = [call EXCEPT ![t] = [call[t] EXCEPT !.step = "go"]]
    BY DEF WriteDb, CallOK
  <2>2. call[t] \in Calls
    BY DEF CallOK
  <2>3. /\ call'[t].step = "go" /\ call'[t].to = call[t].to
        /\ call'[t].st = call[t].st
    BY <2>1, <2>2, SMT DEF CallOK, Calls
  <2>4. \A u \in Threads \ {t} : call'[u] = call[u]
    BY <2>1, SMT DEF CallOK
  <2> QED BY <2>3, <2>4 DEF WriteDb
<1>2. TellGo(t) \/ WriteDbFails(t) =>
        call'[t] = NoCall /\ \A u \in Threads \ {t} : call'[u] = call[u]
  <2>1. TellGo(t) \/ WriteDbFails(t) => Call(t, NoCall)
    BY DEF TellGo, WriteDbFails, Call
  <2> QED BY <2>1, CallMoves
<1>3. /\ UNCHANGED pc /\ ~Free(t)
      /\ TellGo(t) => call[t].step = "go"
      /\ WriteDbFails(t) => call[t].step = "db" /\ ~call[t].again
  BY Zenon DEF CallStep, WriteDb, TellGo, WriteDbFails, Free
<1> QED BY <1>1, <1>2, <1>3, Zenon DEF CallStep

LEMMA MainAlone ==
  ASSUME PcOK, MainStep
  PROVE  UNCHANGED call /\ \A u \in Threads \ {"main"} : pc'[u] = pc[u]
<1>1. UNCHANGED call
  BY DEF MainStep, InitDevice, SaveInit, TellIot, StartBind, AskBind, Bound,
     StartUnbind
<1>2. \E l : GoTo("main", l)
  BY Zenon DEF MainStep, InitDevice, SaveInit, TellIot, StartBind, AskBind,
     Bound, StartUnbind
<1> QED BY <1>1, <1>2, PcMoves DEF Threads

LEMMA UnbindAlone ==
  ASSUME PcOK, CallOK, NEW t \in {"main", "qt"}, UnbindStep(t)
  PROVE  /\ At(t, "ask") \/ At(t, "answer") \/ At(t, "rest")
         /\ \A u \in Threads \ {t} : pc'[u] = pc[u] /\ call'[u] = call[u]
<1>1. UNCHANGED call \/ \E c : Call(t, c)
  BY Zenon DEF UnbindStep, AskUnbind, Unbound, AskUnbindFails, ForgetCanteen
<1>2. \E l : GoTo(t, l)
  BY Zenon DEF UnbindStep, AskUnbind, Unbound, AskUnbindFails, ForgetCanteen
<1>3. At(t, "ask") \/ At(t, "answer") \/ At(t, "rest")
  BY Zenon DEF UnbindStep, AskUnbind, Unbound, AskUnbindFails, ForgetCanteen
<1> QED BY <1>1, <1>2, <1>3, PcMoves, CallMoves DEF Threads

(* ClearBinding changes the call of its own thread, if any. *)
LEMMA ClearAlone ==
  ASSUME NEW t, ClearBinding(t)
  PROVE  UNCHANGED call \/ \E c : Call(t, c)
BY DEF ClearBinding

LEMMA QtAlone ==
  ASSUME PcOK, CallOK, QtStep
  PROVE  \A u \in Threads \ {"qt"} : pc'[u] = pc[u] /\ call'[u] = call[u]
<1>1. UNCHANGED call \/ \E c : Call("qt", c)
  BY ClearAlone, Zenon DEF QtStep, QtUnbind, LocalStatus, TellLocal, TellQt
<1>2. \E l : GoTo("qt", l)
  BY Zenon DEF QtStep, QtUnbind, LocalStatus, TellLocal, TellQt
<1> QED BY <1>1, <1>2, PcMoves, CallMoves DEF Threads

LEMMA IotAlone ==
  ASSUME PcOK, CallOK, SessionStep \/ Disconnect \/ IotStep
  PROVE  \A u \in Threads \ {"iot"} : pc'[u] = pc[u] /\ call'[u] = call[u]
<1>1. CASE SessionStep \/ Disconnect
  <2>1. UNCHANGED call
    BY <1>1, Zenon DEF SessionStep, Certified, Connect, Reconnect, Disconnect
  <2>2. UNCHANGED pc \/ \E l : GoTo("iot", l)
    BY <1>1, Zenon DEF SessionStep, Certified, Connect, Reconnect, Disconnect
  <2> QED BY <2>1, <2>2, PcMoves DEF Threads
<1>2. CASE IotStep
  <2>1. UNCHANGED call \/ \E c : Call("iot", c)
    <3>1. CASE DeltaClears \/ ShadowArrives
      BY <3>1, ClearAlone, Zenon DEF DeltaClears, ShadowArrives
    <3>2. CASE \E m \in sent : CanteenAccepted(m) \/ SnAccepted(m)
      BY <3>2, Zenon DEF CanteenAccepted, SnAccepted
    <3>3. CASE DeltaArrives \/ ShadowSettles \/ ShadowNames
      BY <3>3, Zenon DEF DeltaArrives, ShadowSettles, ShadowNames
    <3>4. CASE ShadowRefused \/ DeltaReports \/ ShadowUnbinds \/ ShadowBinds
               \/ SnDelta \/ TimedOut
      BY <3>4, Zenon DEF ShadowRefused, DeltaReports, ShadowUnbinds, ShadowBinds, SnDelta,
         TimedOut
    <3>5. CASE \/ \E w \in {"rest", "sn", "other"} : Report(w)
               \/ ShowStatus(FACTORY_BIND_OK_STATUS, "show2")
               \/ ShowStatus(SITE_BIND_OK_STATUS, "show3")
      BY <3>5, Zenon DEF Report, ShowStatus
    <3> QED BY <1>2, <3>1, <3>2, <3>3, <3>4, <3>5, Zenon DEF IotStep
  <2>2. UNCHANGED pc \/ \E l : GoTo("iot", l)
    <3>1. CASE \E m \in sent : CanteenAccepted(m) \/ SnAccepted(m)
      BY <3>1, Zenon DEF CanteenAccepted, SnAccepted
    <3>2. CASE DeltaArrives \/ DeltaClears \/ DeltaReports \/ ShadowArrives
      BY <3>2, Zenon DEF DeltaArrives, DeltaClears, DeltaReports, ShadowArrives
    <3>3. CASE ShadowUnbinds \/ ShadowBinds \/ ShadowSettles \/ ShadowNames
      BY <3>3, Zenon DEF ShadowUnbinds, ShadowBinds, ShadowSettles, ShadowNames
    <3>4. CASE \/ ShadowRefused \/ SnDelta \/ TimedOut
               \/ \E w \in {"rest", "sn", "other"} : Report(w)
               \/ ShowStatus(FACTORY_BIND_OK_STATUS, "show2")
               \/ ShowStatus(SITE_BIND_OK_STATUS, "show3")
      BY <3>4, Zenon DEF ShadowRefused, SnDelta, TimedOut, Report, ShowStatus
    <3> QED BY <1>2, <3>1, <3>2, <3>3, <3>4, Zenon DEF IotStep
  <2> QED BY <2>1, <2>2, PcMoves, CallMoves DEF Threads
<1> QED BY <1>1, <1>2

LEMMA BlueAlone ==
  ASSUME PcOK, ScanStart \/ BlueStep
  PROVE  UNCHANGED call /\ \A u \in Threads \ {"blue"} : pc'[u] = pc[u]
<1>1. UNCHANGED call /\ \E l : GoTo("blue", l)
  BY Zenon DEF ScanStart, BlueStep, ScanRead, ScanDone
<1> QED BY <1>1, PcMoves DEF Threads

-----------------------------------------------------------------------------
(* The canteens *)

(* Every step keeps what the device may know of its canteen. *)
LEMMA NextNamed == DataOK /\ PcOK /\ CallOK /\ NamedInv /\ [Next]_vars => NamedInv'
<1> SUFFICES ASSUME DataOK, PcOK, CallOK, NamedInv, [Next]_vars PROVE NamedInv'
  OBVIOUS
<1> USE DEF shadowVars, snVars, getVars, goVars, cVars, dbVars, history, counts
<1> DEFINE Known == <<desired, reported, deltas, restaurantID, told, toReport, sent>>
<1>1. ASSUME UNCHANGED Known,
             \/ pc'["iot"] = pc["iot"]
             \/ pc'["iot"] \notin {"zero", "delta", "report"}
      PROVE  NamedInv'
  BY <1>1 DEF NamedInv
<1>2. CASE \E t \in Threads : CallStep(t)
  <2>1. UNCHANGED Known /\ UNCHANGED pc
    BY <1>2, Zenon DEF CallStep, WriteDb, TellGo, WriteDbFails
  <2> QED BY <1>1, <2>1
<1>3. CASE GiveSn
  BY <1>3, <1>1, SMT DEF GiveSn
<1>4. CASE Remove
  BY <1>4, IdFacts, SMT DEF Remove, SetDesired, NamedInv
<1>5. ASSUME NEW m \in sent, Apply(m) PROVE NamedInv'
  <2>1. desired = Unset => reported' = Unset /\ deltas' = <<>>
    BY <1>5, SMT DEF Apply, Publish, NamedInv
  <2>2. (\A n \in sent : n.what # "rest") => \A n \in sent' : n.what # "rest"
    BY <1>5, SMT DEF Apply, Sent
  <2>3. UNCHANGED <<desired, restaurantID, told, toReport, pc>>
    BY <1>5, Zenon DEF Apply
  <2> QED BY <2>1, <2>2, <2>3, SMT DEF NamedInv
<1>6. CASE MainStep
  <2>1. CASE AskBind
    <3>1. desired' = Unset => UNCHANGED <<desired, deltas>>
      BY <2>1, IdFacts, SMT DEF AskBind, SetDesired
    <3>2. UNCHANGED <<reported, restaurantID, told, toReport, sent>>
      BY <2>1, Zenon DEF AskBind
    <3>3. pc'["iot"] = pc["iot"]
      BY <1>6, MainAlone DEF Threads
    <3> QED BY <3>1, <3>2, <3>3, SMT DEF NamedInv
  <2>2. CASE ~AskBind
    <3>1. UNCHANGED Known
      BY <1>6, <2>2, Zenon DEF MainStep, InitDevice, SaveInit, TellIot, StartBind,
         Bound, StartUnbind
    <3>2. pc'["iot"] = pc["iot"]
      BY <1>6, MainAlone DEF Threads
    <3> QED BY <1>1, <3>1, <3>2
  <2> QED BY <2>1, <2>2
<1>7. ASSUME NEW t \in {"main", "qt"}, UnbindStep(t) PROVE NamedInv'
  <2>1. desired' = Unset => UNCHANGED <<desired, deltas>>
    <3>1. CASE AskUnbind(t)
      BY <3>1, IdFacts, SMT DEF AskUnbind, SetDesired
    <3>2. CASE ~AskUnbind(t)
      BY <1>7, <3>2, Zenon DEF UnbindStep, Unbound, AskUnbindFails, ForgetCanteen
    <3> QED BY <3>1, <3>2
  <2>2. UNCHANGED <<reported, restaurantID, told, toReport, sent>>
    BY <1>7, Zenon DEF UnbindStep, AskUnbind, Unbound, AskUnbindFails, ForgetCanteen
  <2>3. pc'["iot"] = pc["iot"]
    BY <1>7, UnbindAlone DEF Threads
  <2> QED BY <2>1, <2>2, <2>3, SMT DEF NamedInv
<1>8. CASE QtStep
  <2>1. UNCHANGED Known
    BY <1>8, Zenon DEF QtStep, QtUnbind, LocalStatus, TellLocal, TellQt
  <2>2. pc'["iot"] = pc["iot"]
    BY <1>8, QtAlone DEF Threads
  <2> QED BY <1>1, <2>1, <2>2
<1>9. CASE Certified \/ Reconnect
  <2>1. UNCHANGED Known
    BY <1>9, Zenon DEF Certified, Reconnect
  <2>2. pc'["iot"] = pc["iot"] \/ pc'["iot"] = "boot"
    BY <1>9, SMT DEF Certified, Reconnect, GoTo, PcOK, Threads
  <2> QED BY <1>1, <2>1, <2>2
<1>10. CASE Connect
  <2>1. UNCHANGED <<desired, reported, deltas, restaurantID, told, toReport>>
    BY <1>10, Zenon DEF Connect
  <2>2. sent' = {}
    BY <1>10 DEF Connect
  <2>3. pc'["iot"] = pc["iot"] \/ pc'["iot"] = "run"
    BY <1>10, SMT DEF Connect, GoTo, PcOK, Threads
  <2> QED BY <2>1, <2>2, <2>3, SMT DEF NamedInv
<1>11. CASE Disconnect
  <2>1. UNCHANGED <<desired, reported, restaurantID, told, toReport, pc>>
    BY <1>11, Zenon DEF Disconnect
  <2>2. deltas' = <<>> /\ sent' = {Sent(m.what, m.id, "lost") : m \in sent}
    BY <1>11, Zenon DEF Disconnect
  <2> QED BY <2>1, <2>2, SMT DEF NamedInv, Sent
<1>12. CASE DeltaArrives
  <2>1. /\ desired # Unset /\ Head(deltas) # Unset
        /\ restaurantID' = Head(deltas) /\ UNCHANGED desired
    BY <1>12, IdFacts DEF DeltaArrives, NamedInv, DataOK
  <2> QED BY <2>1 DEF NamedInv
<1>13. CASE DeltaClears \/ DeltaReports
  <2>1. /\ UNCHANGED <<desired, reported, deltas, restaurantID, told, sent>>
        /\ restaurantID # Unset
    BY <1>13, IdFacts, Zenon DEF DeltaClears, DeltaReports, NamedInv, At
  <2>2. pc'["iot"] # "zero"
    BY <1>13, SMT DEF DeltaClears, DeltaReports, GoTo, PcOK, Threads
  <2> QED BY <2>1, <2>2, SMT DEF NamedInv
<1>14. CASE ShadowArrives
  <2>1. UNCHANGED <<desired, reported, restaurantID, toReport, sent>> /\ deltas' = <<>>
    BY <1>14, Zenon DEF ShadowArrives
  <2>2. desired = Unset => told' = told
    BY <1>14 DEF ShadowArrives
  <2>3. pc'["iot"] \in {"zero", "bind", "sn"}
        /\ (pc'["iot"] = "zero" => desired = NoRestaurant)
    <3>1. \/ desired = NoRestaurant /\ GoTo("iot", "zero")
          \/ GoTo("iot", "bind") \/ GoTo("iot", "sn")
      BY <1>14 DEF ShadowArrives
    <3> QED BY <3>1, PcMoves DEF Threads
  <2> QED BY <2>1, <2>2, <2>3, IdFacts, SMT DEF NamedInv
<1>15. CASE ShadowUnbinds
  BY <1>15, IdFacts, SMT DEF ShadowUnbinds, At, GoTo, PcOK, Threads, NamedInv
<1>16. CASE ShadowBinds \/ ShadowSettles
  <2>1. UNCHANGED Known
    BY <1>16, Zenon DEF ShadowBinds, ShadowSettles
  <2>2. GoTo("iot", "settle") \/ GoTo("iot", "sn")
    BY <1>16 DEF ShadowBinds, ShadowSettles
  <2>3. pc'["iot"] \in {"settle", "sn"}
    BY <2>2, PcMoves DEF Threads
  <2> QED BY <1>1, <2>1, <2>3
<1>17. CASE ShadowNames
  <2>1. UNCHANGED <<desired, reported, deltas, restaurantID, told, sent>>
    BY <1>17, Zenon DEF ShadowNames
  <2>2. toReport' = toReport \cup {"other"}
    BY <1>17 DEF ShadowNames
  <2>3. pc'["iot"] = "run"
    BY <1>17, SMT DEF ShadowNames, GoTo, PcOK, Threads
  <2> QED BY <2>1, <2>2, <2>3, SMT DEF NamedInv
<1>18. CASE SnDelta
  <2>1. UNCHANGED <<desired, reported, deltas, restaurantID, told, sent, pc>>
    BY <1>18, Zenon DEF SnDelta
  <2>2. toReport' = toReport \cup {"sn"}
    BY <1>18 DEF SnDelta
  <2> QED BY <2>1, <2>2, SMT DEF NamedInv
<1>19. ASSUME NEW w \in Reports, Report(w) PROVE NamedInv'
  BY <1>19, SMT DEF Report, Sent, NamedInv
<1>20. ASSUME NEW m \in sent, CanteenAccepted(m) PROVE NamedInv'
  <2>1. UNCHANGED <<desired, reported, deltas, restaurantID, told>>
    BY <1>20, Zenon DEF CanteenAccepted
  <2>2. /\ toReport' = toReport \ {m.what} /\ sent' = sent \ {m}
        /\ m.what = "rest"
    BY <1>20 DEF CanteenAccepted, Answered
  <2>3. UNCHANGED pc \/ GoTo("iot", "show3")
    BY <1>20 DEF CanteenAccepted
  <2> QED BY <2>1, <2>2, <2>3, SMT DEF NamedInv, GoTo, PcOK, Threads
<1>21. ASSUME NEW m \in sent, SnAccepted(m) PROVE NamedInv'
  <2>1. UNCHANGED <<desired, reported, deltas, restaurantID, told>>
    BY <1>21, Zenon DEF SnAccepted
  <2>2. toReport' = toReport \ {m.what} /\ sent' = sent \ {m}
    BY <1>21 DEF SnAccepted, Answered
  <2>3. UNCHANGED pc \/ GoTo("iot", "show2")
    BY <1>21 DEF SnAccepted
  <2> QED BY <2>1, <2>2, <2>3, SMT DEF NamedInv, GoTo, PcOK, Threads
<1>22. CASE TimedOut
  BY <1>22, SMT DEF TimedOut, NamedInv
<1>23. CASE \/ ShowStatus(FACTORY_BIND_OK_STATUS, "show2")
            \/ ShowStatus(SITE_BIND_OK_STATUS, "show3")
  BY <1>23, <1>1, SMT DEF ShowStatus, GoTo, PcOK, Threads
<1>24. CASE ScanStart \/ BlueStep
  <2>1. UNCHANGED Known
    BY <1>24, Zenon DEF ScanStart, BlueStep, ScanRead, ScanDone
  <2>2. pc'["iot"] = pc["iot"]
    BY <1>24, BlueAlone DEF Threads
  <2> QED BY <1>1, <2>1, <2>2
<1>25. CASE Restart
  <2>1. /\ UNCHANGED <<desired, reported, told>> /\ deltas' = <<>>
        /\ restaurantID' = Unset /\ toReport' = {} /\ sent' = {}
    BY <1>25, Zenon DEF Restart
  <2>2. pc'["iot"] = "wait"
    BY <1>25 DEF Restart, Start, Threads
  <2> QED BY <2>1, <2>2, SMT DEF NamedInv
<1>26. CASE UNCHANGED vars
  BY <1>26, <1>1 DEF vars
<1>27. CASE ShadowRefused
  <2>1. UNCHANGED <<desired, reported, deltas, restaurantID, told, sent, pc>>
    BY <1>27, Zenon DEF ShadowRefused
  <2>2. toReport' = toReport \cup {"other"}
    BY <1>27 DEF ShadowRefused
  <2> QED BY <2>1, <2>2, SMT DEF NamedInv
<1> QED
  BY <1>2, <1>3, <1>4, <1>5, <1>6, <1>7, <1>8, <1>9, <1>10, <1>11, <1>12,
     <1>13, <1>14, <1>15, <1>16, <1>17, <1>18, <1>19, <1>20, <1>21, <1>22,
     <1>23, <1>24, <1>25, <1>26, <1>27 DEF Next, SessionStep, IotStep, Reports

(* What a call asks for. *)
LEMMA CallKinds ==
  /\ NoCall.to = "none"
  /\ \A r, b : SetRest(r, b).to = "rest"
  /\ \A x, b : /\ SetStatus(x, b).to = "status" /\ SetStatus(x, b).st = x
               /\ SetStatus(x, b).step = "db" /\ SetStatus(x, b).again = b
BY DEF NoCall, SetRest, SetStatus

(* The call of an unbinding, or of Qt, writes 2 or 4, or no status. *)
LEMMA UnbindCalls ==
  ASSUME CallOK, NEW t \in {"main", "qt"}, UnbindStep(t)
  PROVE  \/ call'[t] = call[t]
         \/ Unbound(t) /\ call'[t] = SetStatus(FACTORY_BIND_OK_STATUS, FALSE)
         \/ call'[t] = SetRest(NoRestaurant, FALSE)
<1>1. \/ UNCHANGED call
      \/ Unbound(t) /\ Call(t, SetStatus(FACTORY_BIND_OK_STATUS, FALSE))
      \/ Call(t, SetRest(NoRestaurant, FALSE))
  BY Zenon DEF UnbindStep, AskUnbind, Unbound, AskUnbindFails, ForgetCanteen
<1> QED BY <1>1, CallMoves DEF Threads

LEMMA QtCalls ==
  ASSUME CallOK, QtStep
  PROVE  \/ call'["qt"] = call["qt"]
         \/ QtUnbind /\ call'["qt"] = SetStatus(FACTORY_BIND_OK_STATUS, TRUE)
         \/ LocalStatus /\ call'["qt"] = SetStatus(LOCAL_UNBIND_STATUS, FALSE)
<1>1. \/ UNCHANGED call
      \/ QtUnbind /\ Call("qt", SetStatus(FACTORY_BIND_OK_STATUS, TRUE))
      \/ LocalStatus /\ Call("qt", SetStatus(LOCAL_UNBIND_STATUS, FALSE))
  BY Zenon DEF QtStep, QtUnbind, LocalStatus, TellLocal, TellQt, ClearBinding
<1> QED BY <1>1, CallMoves DEF Threads

(* What ClearBinding does to the status of the IoT thread and to the call. *)
LEMMA Cleared ==
  ASSUME CallOK, NEW t \in Threads, ClearBinding(t)
  PROVE  /\ cStatus' = FACTORY_BIND_OK_STATUS
         /\ \A u \in Threads \ {t} : call'[u] = call[u]
         /\ IF cStatus # FACTORY_BIND_OK_STATUS
              THEN call'[t] = SetStatus(FACTORY_BIND_OK_STATUS, TRUE)
              ELSE call'[t] = call[t]
BY CallMoves, Zenon DEF ClearBinding

LEMMA DifferentStatuses ==
  /\ FACTORY_BIND_OK_STATUS # SITE_BIND_OK_STATUS
  /\ LOCAL_UNBIND_STATUS # SITE_BIND_OK_STATUS
  /\ WAIT_TOPIC_STATUS # SITE_BIND_OK_STATUS /\ INIT_STATUS # SITE_BIND_OK_STATUS
BY SMT DEF INIT_STATUS, WAIT_TOPIC_STATUS, FACTORY_BIND_OK_STATUS,
   SITE_BIND_OK_STATUS, LOCAL_UNBIND_STATUS

(* Every step keeps the canteen to report in line with what was told. *)
LEMMA NextTold ==
  PcOK /\ CallOK /\ ToldInv /\ [Next]_vars => ToldInv'
<1> SUFFICES ASSUME PcOK, CallOK, ToldInv, [Next]_vars
             PROVE  ToldInv'
  OBVIOUS
<1> USE DEF shadowVars, snVars, getVars, goVars, cVars, dbVars, history, counts
<1> DEFINE Binds(c) == c.to = "status" /\ c.st = SITE_BIND_OK_STATUS
           Plain    == {"delta", "bind", "settle", "zero"}
<1>1. /\ \A b : ~Binds(SetStatus(FACTORY_BIND_OK_STATUS, b))
      /\ \A b : ~Binds(SetStatus(LOCAL_UNBIND_STATUS, b))
      /\ \A r, b : ~Binds(SetRest(r, b))
      /\ ~Binds(NoCall)
  BY CallKinds, DifferentStatuses, Zenon
<1>2. \A t \in Threads : Binds(call[t]) => t = "iot" /\ told # NoRestaurant
  BY DEF ToldInv
<1> HIDE DEF Binds
<1>3. ASSUME UNCHANGED <<told, restaurantID>>,
             \/ pc'["iot"] = pc["iot"]
             \/ pc["iot"] # "zero" /\ pc'["iot"] \notin Plain,
             \A t \in Threads : Binds(call'[t]) => Binds(call[t])
      PROVE  ToldInv'
  <2>1. \A t \in Threads : Binds(call'[t]) => t = "iot" /\ told' # NoRestaurant
    BY <1>2, <1>3
  <2> QED BY <1>3, <2>1 DEF ToldInv, Binds
<1>4. ASSUME NEW t \in Threads, CallStep(t) PROVE ToldInv'
  <2>1. UNCHANGED <<told, restaurantID, pc>>
    BY <1>4, Zenon DEF CallStep, WriteDb, TellGo, WriteDbFails
  <2>2. Binds(call'[t]) => Binds(call[t])
    BY <1>4, <1>1, CallAlone DEF Binds
  <2> QED BY <1>4, <2>1, <2>2, <1>3, CallAlone
<1>5. CASE GiveSn \/ Remove \/ \E m \in sent : Apply(m)
  <2>1. UNCHANGED <<told, restaurantID, pc, call>>
    BY <1>5, Zenon DEF GiveSn, Remove, Apply
  <2> QED BY <1>3, <2>1
<1>6. CASE MainStep
  <2>1. UNCHANGED <<told, restaurantID>>
    BY <1>6, Zenon DEF MainStep, InitDevice, SaveInit, TellIot, StartBind, AskBind,
       Bound, StartUnbind
  <2> QED BY <1>6, <1>3, <2>1, MainAlone DEF Threads
<1>7. ASSUME NEW t \in {"main", "qt"}, UnbindStep(t) PROVE ToldInv'
  <2>1. UNCHANGED <<told, restaurantID>>
    BY <1>7, Zenon DEF UnbindStep, AskUnbind, Unbound, AskUnbindFails, ForgetCanteen
  <2>2. Binds(call'[t]) => Binds(call[t])
    BY <1>7, <1>1, UnbindCalls
  <2>3. pc'["iot"] = pc["iot"] /\ \A u \in Threads \ {t} : call'[u] = call[u]
    BY <1>7, UnbindAlone DEF Threads
  <2> QED BY <1>3, <2>1, <2>2, <2>3
<1>8. CASE QtStep
  <2>1. UNCHANGED <<told, restaurantID>>
    BY <1>8, Zenon DEF QtStep, QtUnbind, LocalStatus, TellLocal, TellQt
  <2>2. Binds(call'["qt"]) => Binds(call["qt"])
    BY <1>8, <1>1, QtCalls
  <2>3. pc'["iot"] = pc["iot"] /\ \A u \in Threads \ {"qt"} : call'[u] = call[u]
    BY <1>8, QtAlone DEF Threads
  <2> QED BY <1>3, <2>1, <2>2, <2>3
<1>9. CASE SessionStep \/ Disconnect
  <2>1. UNCHANGED <<told, restaurantID, call>>
    BY <1>9, Zenon DEF SessionStep, Certified, Connect, Reconnect, Disconnect
  <2>2. \/ UNCHANGED pc
        \/ pc["iot"] # "zero" /\ (GoTo("iot", "boot") \/ GoTo("iot", "run"))
    BY <1>9, Zenon DEF SessionStep, Certified, Connect, Reconnect, Disconnect, At
  <2> QED BY <1>3, <2>1, <2>2, PcMoves DEF Threads
<1>10. CASE DeltaArrives
  <2>1. restaurantID' = told'
    BY <1>10 DEF DeltaArrives
  <2>2. pc'["iot"] = "delta"
    BY <1>10, PcMoves DEF DeltaArrives, Threads
  <2>3. \A t \in Threads : ~Binds(call'[t])
    <3>1. Free("iot") /\ \E c : Call("iot", SetRest(c, TRUE))
      BY <1>10, Zenon DEF DeltaArrives, Yields, At
    <3>2. \E c : /\ call'["iot"] = SetRest(c, TRUE)
                 /\ \A u \in Threads \ {"iot"} : call'[u] = call[u]
      BY <3>1, CallMoves DEF Threads
    <3> QED BY <3>2, <1>1, <1>2
  <2>4. told' = NoRestaurant => restaurantID' \notin Restaurants
    BY <2>1, IdFacts
  <2> QED BY <2>1, <2>2, <2>3, <2>4 DEF ToldInv, Binds
<1>11. CASE DeltaClears
  <2>1. UNCHANGED <<told, restaurantID>> /\ pc["iot"] = "delta"
    BY <1>11, Zenon DEF DeltaClears, At
  <2>2. pc'["iot"] = "report"
    BY <1>11, PcMoves DEF DeltaClears, Threads
  <2>3. \A t \in Threads : Binds(call'[t]) => Binds(call[t])
    BY <1>11, <1>1, Cleared DEF DeltaClears, Threads
  <2> QED BY <2>1, <2>2, <2>3, <1>3
<1>12. CASE DeltaReports
  <2>1. UNCHANGED <<told, restaurantID, call>> /\ pc["iot"] # "zero"
    BY <1>12, Zenon DEF DeltaReports, At
  <2>2. pc'["iot"] = "run"
    BY <1>12, PcMoves DEF DeltaReports, Threads
  <2> QED BY <2>1, <2>2, <1>3
<1>13. CASE ShadowArrives
  <2>1. UNCHANGED restaurantID /\ pc["iot"] = "run" /\ Free("iot")
    BY <1>13, Zenon DEF ShadowArrives, GetAnswered, Yields, At
  <2>2. \A t \in Threads : ~Binds(call[t])
    BY <2>1, <1>2 DEF Free, Binds
  <2>3. \A t \in Threads : ~Binds(call'[t])
    <3>1. CASE ClearBinding("iot")
      BY <3>1, <2>2, <1>1, Cleared DEF Threads
    <3>2. CASE Call("iot", SetRest(desired, TRUE))
      <4>1. /\ call'["iot"] = SetRest(desired, TRUE)
            /\ \A u \in Threads \ {"iot"} : call'[u] = call[u]
        BY <3>2, CallMoves DEF Threads
      <4> QED BY <4>1, <2>2, <1>1
    <3> QED BY <1>13, <2>2, <3>1, <3>2 DEF ShadowArrives
  <2>4. \/ pc'["iot"] = "zero"
        \/ pc'["iot"] = "bind" /\ told' # NoRestaurant
        \/ pc'["iot"] = "sn" /\ (told' = told \/ told' # NoRestaurant)
    <3>1. \/ GoTo("iot", "zero")
          \/ told' # NoRestaurant /\ GoTo("iot", "bind")
          \/ (told' = told \/ told' # NoRestaurant) /\ GoTo("iot", "sn")
      BY <1>13, Zenon DEF ShadowArrives
    <3> QED BY <3>1, PcMoves DEF Threads
  <2>5. told = NoRestaurant => restaurantID \notin Restaurants
    BY <2>1 DEF ToldInv
  <2> QED BY <2>1, <2>3, <2>4, <2>5 DEF ToldInv, Binds
<1>14. CASE ShadowUnbinds
  <2>1. UNCHANGED <<told, call>> /\ restaurantID' = NoRestaurant
    BY <1>14, Zenon DEF ShadowUnbinds
  <2>2. pc'["iot"] = "sn"
    BY <1>14, PcMoves DEF ShadowUnbinds, Threads
  <2> QED BY <2>1, <2>2, <1>2, IdFacts DEF ToldInv, Binds
<1>15. CASE ShadowBinds
  <2>1. UNCHANGED <<told, restaurantID, call>> /\ pc["iot"] = "bind"
    BY <1>15, Zenon DEF ShadowBinds, At
  <2>2. pc'["iot"] = "settle"
    BY <1>15, PcMoves DEF ShadowBinds, Threads
  <2> QED BY <2>1, <2>2, <1>2 DEF ToldInv, Binds
<1>16. CASE ShadowSettles
  <2>1. UNCHANGED <<told, restaurantID>> /\ pc["iot"] = "settle"
    BY <1>16, Zenon DEF ShadowSettles, At
  <2>2. pc'["iot"] = "sn" /\ \A t \in Threads \ {"iot"} : call'[t] = call[t]
    BY <1>16, PcMoves, CallMoves DEF ShadowSettles, Threads
  <2>3. told # NoRestaurant
    BY <2>1 DEF ToldInv
  <2>4. \A t \in Threads : Binds(call'[t]) => t = "iot" /\ told' # NoRestaurant
    BY <2>1, <2>2, <2>3, <1>2
  <2> QED BY <2>1, <2>2, <2>3, <2>4 DEF ToldInv, Binds
<1>17. CASE ShadowNames
  <2>1. UNCHANGED <<told, restaurantID>> /\ pc["iot"] = "sn"
    BY <1>17, Zenon DEF ShadowNames, At
  <2>2. pc'["iot"] = "run"
    BY <1>17, PcMoves DEF ShadowNames, Threads
  <2>3. UNCHANGED call \/ Call("iot", SetStatus(FACTORY_BIND_OK_STATUS, FALSE))
    BY <1>17 DEF ShadowNames
  <2>4. \A t \in Threads : Binds(call'[t]) => Binds(call[t])
    BY <2>3, <1>1, CallMoves DEF Threads
  <2> QED BY <2>1, <2>2, <2>4, <1>3
<1>18. CASE \/ ShadowRefused \/ SnDelta \/ TimedOut
             \/ \E w \in {"rest", "sn", "other"} : Report(w)
  <2>1. UNCHANGED <<told, restaurantID, pc, call>>
    BY <1>18, Zenon DEF ShadowRefused, SnDelta, TimedOut, Report
  <2> QED BY <2>1, <1>3
<1>19. ASSUME NEW m \in sent, CanteenAccepted(m) PROVE ToldInv'
  <2>1. UNCHANGED <<told, restaurantID>> /\ pc["iot"] = "run"
    BY <1>19, Zenon DEF CanteenAccepted, Answered, Yields, At
  <2>2. CASE restaurantID \in Restaurants
    <3>1. /\ Call("iot", SetStatus(SITE_BIND_OK_STATUS, TRUE))
          /\ GoTo("iot", "show3")
      BY <1>19, <2>2 DEF CanteenAccepted
    <3>2. told # NoRestaurant
      BY <2>1, <2>2 DEF ToldInv
    <3>3. \A t \in Threads : Binds(call'[t]) => t = "iot" /\ told' # NoRestaurant
      BY <2>1, <3>1, <3>2, <1>2, CallMoves DEF Threads
    <3>4. pc'["iot"] = "show3"
      BY <3>1, PcMoves DEF Threads
    <3> QED BY <2>1, <3>2, <3>3, <3>4 DEF ToldInv, Binds
  <2>3. CASE restaurantID \notin Restaurants
    BY <1>19, <2>1, <2>3, <1>3 DEF CanteenAccepted
  <2> QED BY <2>2, <2>3
<1>20. ASSUME NEW m \in sent, SnAccepted(m) PROVE ToldInv'
  <2>1. UNCHANGED <<told, restaurantID>> /\ pc["iot"] = "run"
    BY <1>20, Zenon DEF SnAccepted, Answered, Yields, At
  <2>2. \/ UNCHANGED <<call, pc>>
        \/ /\ Call("iot", SetStatus(FACTORY_BIND_OK_STATUS, TRUE))
           /\ GoTo("iot", "show2")
    BY <1>20, Zenon DEF SnAccepted
  <2>3. pc'["iot"] \in {"run", "show2"}
    BY <2>1, <2>2, PcMoves DEF Threads
  <2>4. \/ UNCHANGED call
        \/ /\ call'["iot"] = SetStatus(FACTORY_BIND_OK_STATUS, TRUE)
           /\ \A u \in Threads \ {"iot"} : call'[u] = call[u]
    BY <2>2, CallMoves DEF Threads
  <2>5. \A t \in Threads : Binds(call'[t]) => Binds(call[t])
    BY <2>4, <1>1
  <2> QED BY <2>1, <2>3, <2>5, <1>3
<1>21. CASE \/ ShowStatus(FACTORY_BIND_OK_STATUS, "show2")
            \/ ShowStatus(SITE_BIND_OK_STATUS, "show3")
  <2>1. UNCHANGED <<told, restaurantID, call>> /\ pc["iot"] # "zero"
    BY <1>21, Zenon DEF ShowStatus, At
  <2>2. pc'["iot"] = "run"
    BY <1>21, PcMoves DEF ShowStatus, Threads
  <2> QED BY <2>1, <2>2, <1>3
<1>22. CASE ScanStart \/ BlueStep
  <2>1. UNCHANGED <<told, restaurantID>>
    BY <1>22, Zenon DEF ScanStart, BlueStep, ScanRead, ScanDone
  <2> QED BY <1>22, <2>1, <1>3, BlueAlone DEF Threads
<1>23. CASE Restart
  <2>1. UNCHANGED told /\ restaurantID' = Unset
    BY <1>23, Zenon DEF Restart
  <2>2. pc'["iot"] = "wait"
    BY <1>23 DEF Restart, Start, Threads
  <2>3. \A t \in Threads : ~Binds(call'[t])
    BY <1>23, <1>1 DEF Restart
  <2> QED BY <2>1, <2>2, <2>3, RestaurantAssumption DEF ToldInv, Binds
<1>24. CASE UNCHANGED vars
  BY <1>24, <1>3 DEF vars
<1> QED
  BY <1>4, <1>5, <1>6, <1>7, <1>8, <1>9, <1>10, <1>11, <1>12, <1>13, <1>14,
     <1>15, <1>16, <1>17, <1>18, <1>19, <1>20, <1>21, <1>22, <1>23, <1>24
     DEF Next, SessionStep, IotStep

-----------------------------------------------------------------------------
(* One thread at the status at a time *)

\* The steps of thread t, and those of the backend and the shadow service.
StepOf(t) ==
  \/ CallStep(t)
  \/ t = "main" /\ MainStep
  \/ t \in {"main", "qt"} /\ UnbindStep(t)
  \/ t = "qt" /\ QtStep
  \/ t = "iot" /\ (SessionStep \/ Disconnect \/ IotStep)
  \/ t = "blue" /\ (ScanStart \/ BlueStep)

WorldStep == GiveSn \/ Remove \/ \E m \in sent : Apply(m)

LEMMA StepKinds ==
  [Next]_vars => \/ WorldStep \/ Restart \/ UNCHANGED vars
                 \/ \E t \in Threads : StepOf(t)
<1> SUFFICES ASSUME Next
             PROVE  WorldStep \/ Restart \/ \E t \in Threads : StepOf(t)
  BY Zenon
<1>1. "main" \in Threads /\ "qt" \in Threads /\ "iot" \in Threads /\ "blue" \in Threads
  BY DEF Threads
<1>2. CASE \E t \in {"main", "qt"} : UnbindStep(t)
  BY <1>1, <1>2 DEF StepOf
<1>3. CASE MainStep \/ QtStep
  BY <1>1, <1>3, Zenon DEF StepOf
<1>4. CASE SessionStep \/ Disconnect \/ IotStep
  BY <1>1, <1>4, Zenon DEF StepOf
<1>5. CASE ScanStart \/ BlueStep
  BY <1>1, <1>5, Zenon DEF StepOf
<1> QED BY <1>2, <1>3, <1>4, <1>5, Zenon DEF Next, WorldStep, StepOf

LEMMA OneMoves ==
  ASSUME PcOK, CallOK, NEW t \in Threads, StepOf(t)
  PROVE  \A u \in Threads \ {t} : pc'[u] = pc[u] /\ call'[u] = call[u]
<1>1. CASE CallStep(t)
  BY <1>1, CallAlone
<1>2. CASE t = "main" /\ MainStep
  BY <1>2, MainAlone
<1>3. CASE t \in {"main", "qt"} /\ UnbindStep(t)
  BY <1>3, UnbindAlone
<1>4. CASE t = "qt" /\ QtStep
  BY <1>4, QtAlone
<1>5. CASE t = "iot" /\ (SessionStep \/ Disconnect \/ IotStep)
  BY <1>5, IotAlone
<1>6. CASE t = "blue" /\ (ScanStart \/ BlueStep)
  BY <1>6, BlueAlone
<1> QED BY <1>1, <1>2, <1>3, <1>4, <1>5, <1>6 DEF StepOf

(* A thread that is at the status after a step was there before it, or the *)
(* step has looked for another one.                                        *)
LEMMA BusySince ==
  ASSUME PcOK, CallOK, NEW t \in Threads, StepOf(t)
  PROVE  /\ Busy(t)' => Busy(t) \/ TakeUp(t)
         /\ ~overlap' => ~overlap
<1> USE DEF history, shadowVars
<1>1. TakeUp(t) => (~overlap' => ~overlap)
  BY Zenon DEF TakeUp
<1>2. ASSUME UNCHANGED overlap,
             \/ Busy(t)
             \/ UNCHANGED <<pc, call>>
             \/ UNCHANGED call /\ Free(t) /\ \E l \in Idle : GoTo(t, l)
      PROVE  /\ Busy(t)' => Busy(t) \/ TakeUp(t)
             /\ ~overlap' => ~overlap
  <2>1. CASE UNCHANGED call /\ Free(t) /\ \E l \in Idle : GoTo(t, l)
    <3>1. pc'[t] \in Idle
      BY <2>1, PcMoves
    <3> QED BY <1>2, <2>1, <3>1 DEF Busy, Free
  <2>2. CASE UNCHANGED <<pc, call>>
    BY <1>2, <2>2 DEF Busy, Free
  <2> QED BY <1>2, <2>1, <2>2
<1>3. CASE CallStep(t)
  <2>1. UNCHANGED overlap
    BY <1>3, Zenon DEF CallStep, WriteDb, TellGo, WriteDbFails
  <2>2. Busy(t)
    BY <1>3, CallAlone DEF Busy
  <2> QED BY <1>2, <2>1, <2>2
<1>4. CASE t = "main" /\ MainStep
  <2>1. CASE InitDevice \/ StartUnbind
    BY <1>4, <2>1, <1>1, Zenon DEF InitDevice, StartUnbind
  <2>2. CASE SaveInit \/ TellIot
    <3>1. UNCHANGED overlap
      BY <2>2, Zenon DEF SaveInit, TellIot
    <3>2. Busy(t)
      BY <1>4, <2>2 DEF SaveInit, TellIot, At, Busy, Idle
    <3> QED BY <1>2, <3>1, <3>2
  <2>3. CASE StartBind \/ AskBind \/ Bound
    <3>1. UNCHANGED overlap /\ UNCHANGED call /\ Free(t)
      BY <1>4, <2>3, Zenon DEF StartBind, AskBind, Bound, At
    <3>2. GoTo(t, "asking") \/ GoTo(t, "served") \/ GoTo(t, "loop")
      BY <1>4, <2>3, Zenon DEF StartBind, AskBind, Bound
    <3> QED BY <1>2, <3>1, <3>2 DEF Idle
  <2> QED BY <1>4, <2>1, <2>2, <2>3 DEF MainStep
<1>5. CASE t \in {"main", "qt"} /\ UnbindStep(t)
  <2>1. UNCHANGED overlap
    BY <1>5, Zenon DEF UnbindStep, AskUnbind, Unbound, AskUnbindFails, ForgetCanteen
  <2>2. Busy(t)
    BY <1>5, UnbindAlone DEF At, Busy, Idle
  <2> QED BY <1>2, <2>1, <2>2
<1>6. CASE t = "qt" /\ QtStep
  <2>1. CASE QtUnbind
    BY <1>6, <2>1, <1>1, Zenon DEF QtUnbind
  <2>2. CASE LocalStatus \/ TellLocal \/ TellQt
    <3>1. UNCHANGED overlap
      BY <2>2, Zenon DEF LocalStatus, TellLocal, TellQt
    <3>2. Busy(t)
      BY <1>6, <2>2 DEF LocalStatus, TellLocal, TellQt, At, Busy, Idle
    <3> QED BY <1>2, <3>1, <3>2
  <2> QED BY <1>6, <2>1, <2>2 DEF QtStep
<1>7. CASE t = "iot" /\ (SessionStep \/ Disconnect)
  <2>1. UNCHANGED overlap /\ UNCHANGED call /\ Free(t)
    BY <1>7, Zenon DEF SessionStep, Certified, Connect, Reconnect, Disconnect, At
  <2>2. UNCHANGED pc \/ GoTo(t, "boot") \/ GoTo(t, "run")
    BY <1>7, Zenon DEF SessionStep, Certified, Connect, Reconnect, Disconnect
  <2> QED BY <1>2, <2>1, <2>2 DEF Idle
<1>8. CASE t = "iot" /\ IotStep
  <2>1. CASE DeltaArrives \/ ShadowArrives
    BY <1>8, <2>1, <1>1, Zenon DEF DeltaArrives, ShadowArrives
  <2>2. CASE \E m \in sent : CanteenAccepted(m)
    BY <1>8, <2>2, <1>1, Zenon DEF CanteenAccepted
  <2>3. CASE \E m \in sent : SnAccepted(m)
    <3>1. TakeUp(t) \/ UNCHANGED <<pc, call, overlap>>
      BY <1>8, <2>3, Zenon DEF SnAccepted
    <3> QED BY <1>1, <1>2, <3>1
  <2>4. CASE DeltaClears \/ DeltaReports \/ ShadowUnbinds \/ ShadowBinds
    <3>1. UNCHANGED overlap
      BY <2>4, Zenon DEF DeltaClears, DeltaReports, ShadowUnbinds, ShadowBinds
    <3>2. Busy(t)
      BY <1>8, <2>4 DEF DeltaClears, DeltaReports, ShadowUnbinds, ShadowBinds, At,
         Busy, Idle
    <3> QED BY <1>2, <3>1, <3>2
  <2>5. CASE ShadowSettles \/ ShadowNames
    <3>1. UNCHANGED overlap
      BY <2>5, Zenon DEF ShadowSettles, ShadowNames
    <3>2. Busy(t)
      BY <1>8, <2>5 DEF ShadowSettles, ShadowNames, At, Busy, Idle
    <3> QED BY <1>2, <3>1, <3>2
  <2>6. CASE \/ ShadowRefused \/ SnDelta \/ TimedOut
             \/ \E w \in {"rest", "sn", "other"} : Report(w)
    <3>1. UNCHANGED <<overlap, pc, call>>
      BY <2>6, Zenon DEF ShadowRefused, SnDelta, TimedOut, Report
    <3> QED BY <1>2, <3>1
  <2>7. CASE \/ ShowStatus(FACTORY_BIND_OK_STATUS, "show2")
             \/ ShowStatus(SITE_BIND_OK_STATUS, "show3")
    <3>1. UNCHANGED overlap
      BY <2>7, Zenon DEF ShowStatus
    <3>2. Busy(t)
      BY <1>8, <2>7 DEF ShowStatus, At, Busy, Idle
    <3> QED BY <1>2, <3>1, <3>2
  <2> QED
    BY <1>8, <2>1, <2>2, <2>3, <2>4, <2>5, <2>6, <2>7 DEF IotStep
<1>9. CASE t = "blue" /\ (ScanStart \/ BlueStep)
  <2>1. UNCHANGED overlap /\ UNCHANGED call /\ Free(t)
    BY <1>9, Zenon DEF ScanStart, BlueStep, ScanRead, ScanDone, At
  <2>2. GoTo(t, "scan") \/ GoTo(t, "read") \/ GoTo(t, "off")
    BY <1>9, Zenon DEF ScanStart, BlueStep, ScanRead, ScanDone
  <2> QED BY <1>2, <2>1, <2>2 DEF Idle
<1> QED
  BY <1>3, <1>4, <1>5, <1>6, <1>7, <1>8, <1>9, Zenon DEF StepOf

(* After a step of thread t that is at the status no other thread is. *)
LEMMA Alone ==
  ASSUME ~overlap', ~overlap => OneBusy, NEW t \in Threads,
         ~overlap' => ~overlap, Busy(t) \/ TakeUp(t)
  PROVE  \A u \in Threads \ {t} : ~Busy(u)
<1>1. CASE Busy(t)
  BY <1>1 DEF OneBusy
<1>2. CASE TakeUp(t)
  BY <1>2, Zenon DEF TakeUp
<1> QED BY <1>1, <1>2

LEMMA NextBusy ==
  ASSUME PcOK, CallOK, ~overlap => OneBusy, [Next]_vars, ~overlap'
  PROVE  ~overlap /\ OneBusy'
<1> USE DEF history, shadowVars
<1>1. CASE WorldStep \/ UNCHANGED vars
  <2>1. UNCHANGED <<pc, call, overlap>>
    BY <1>1, Zenon DEF WorldStep, GiveSn, Remove, Apply, vars
  <2> QED BY <2>1 DEF OneBusy, Busy, Free
<1>2. CASE Restart
  <2>1. UNCHANGED overlap
    BY <1>2, Zenon DEF Restart
  <2>2. \A t \in Threads : pc'[t] \in Idle /\ call'[t].to = "none"
    BY <1>2, CallKinds DEF Restart, Start, Idle, Threads
  <2> QED BY <2>1, <2>2 DEF OneBusy, Busy, Free
<1>3. ASSUME NEW t \in Threads, StepOf(t) PROVE ~overlap /\ OneBusy'
  <2>1. ~overlap
    BY <1>3, BusySince
  <2>2. \A u \in Threads \ {t} : Busy(u)' <=> Busy(u)
    BY <1>3, OneMoves DEF Busy, Free
  <2>3. Busy(t)' => \A u \in Threads \ {t} : ~Busy(u)
    BY <1>3, BusySince, Alone
  <2> QED BY <2>1, <2>2, <2>3 DEF OneBusy
<1> QED BY <1>1, <1>2, <1>3, StepKinds

-----------------------------------------------------------------------------
(* The status *)

(* The steps of the IoT thread make a call only when none is under way, and *)
(* leave the status of Go and of the database alone.                       *)
LEMMA IotCalls ==
  ASSUME PcOK, CallOK, SessionStep \/ Disconnect \/ IotStep
  PROVE  /\ Free("iot") /\ UNCHANGED <<goStatus, dbStatus>>
         /\ \/ call'["iot"] = call["iot"]
            \/ \E r : call'["iot"] = SetRest(r, TRUE)
            \/ \E b \in BOOLEAN :
                 call'["iot"] = SetStatus(FACTORY_BIND_OK_STATUS, b)
            \/ /\ \E m \in sent : CanteenAccepted(m)
               /\ call'["iot"] = SetStatus(SITE_BIND_OK_STATUS, TRUE)
            \/ ShadowSettles /\ call'["iot"] = SetStatus(cStatus, TRUE)
<1> USE DEF goVars, dbVars, getVars
<1>0. "iot" \in Threads
  BY DEF Threads
<1>1. CASE SessionStep \/ Disconnect
  BY <1>1, Zenon DEF SessionStep, Certified, Connect, Reconnect, Disconnect, At
<1>2. CASE DeltaArrives
  <2>1. call'["iot"] = SetRest(Head(deltas), TRUE)
    BY <1>0, <1>2, CallMoves DEF DeltaArrives
  <2> QED BY <1>2, <2>1, Zenon DEF DeltaArrives, Yields, At
<1>3. CASE DeltaClears
  <2>1. \/ call'["iot"] = call["iot"]
        \/ call'["iot"] = SetStatus(FACTORY_BIND_OK_STATUS, TRUE)
    BY <1>0, <1>3, Cleared, Zenon DEF DeltaClears
  <2> QED BY <1>3, <2>1, Zenon DEF DeltaClears, At
<1>4. CASE ShadowArrives
  <2>1. \/ call'["iot"] = call["iot"]
        \/ call'["iot"] = SetStatus(FACTORY_BIND_OK_STATUS, TRUE)
        \/ call'["iot"] = SetRest(desired, TRUE)
    <3>1. UNCHANGED call \/ ClearBinding("iot") \/ Call("iot", SetRest(desired, TRUE))
      BY <1>4, Zenon DEF ShadowArrives
    <3>2. CASE Call("iot", SetRest(desired, TRUE))
      BY <1>0, <3>2, CallMoves
    <3> QED BY <1>0, <3>1, <3>2, Cleared, Zenon
  <2> QED BY <1>4, <2>1, Zenon DEF ShadowArrives, GetAnswered, Yields, At
<1>5. CASE ShadowSettles
  <2>1. call'["iot"] = SetStatus(cStatus, TRUE)
    BY <1>0, <1>5, CallMoves DEF ShadowSettles
  <2> QED BY <1>5, <2>1, Zenon DEF ShadowSettles, At
<1>6. CASE ShadowNames
  <2>1. \/ call'["iot"] = call["iot"]
        \/ call'["iot"] = SetStatus(FACTORY_BIND_OK_STATUS, FALSE)
    BY <1>0, <1>6, CallMoves DEF ShadowNames
  <2> QED BY <1>6, <2>1, Zenon DEF ShadowNames, At
<1>7. ASSUME NEW m \in sent, CanteenAccepted(m)
      PROVE  /\ Free("iot") /\ UNCHANGED <<goStatus, dbStatus>>
             /\ \/ call'["iot"] = call["iot"]
                \/ call'["iot"] = SetStatus(SITE_BIND_OK_STATUS, TRUE)
  <2>1. UNCHANGED call \/ Call("iot", SetStatus(SITE_BIND_OK_STATUS, TRUE))
    BY <1>7, Zenon DEF CanteenAccepted
  <2>2. \/ call'["iot"] = call["iot"]
        \/ call'["iot"] = SetStatus(SITE_BIND_OK_STATUS, TRUE)
    BY <1>0, <2>1, CallMoves
  <2> QED BY <1>7, <2>2, Zenon DEF CanteenAccepted, Answered, Yields, At
<1>8. ASSUME NEW m \in sent, SnAccepted(m)
      PROVE  /\ Free("iot") /\ UNCHANGED <<goStatus, dbStatus>>
             /\ \/ call'["iot"] = call["iot"]
                \/ call'["iot"] = SetStatus(FACTORY_BIND_OK_STATUS, TRUE)
  <2>1. UNCHANGED call \/ Call("iot", SetStatus(FACTORY_BIND_OK_STATUS, TRUE))
    BY <1>8, Zenon DEF SnAccepted
  <2>2. \/ call'["iot"] = call["iot"]
        \/ call'["iot"] = SetStatus(FACTORY_BIND_OK_STATUS, TRUE)
    BY <1>0, <2>1, CallMoves
  <2> QED BY <1>8, <2>2, Zenon DEF SnAccepted, Answered, Yields, At
<1>9. CASE ShadowRefused \/ DeltaReports \/ ShadowUnbinds \/ ShadowBinds
           \/ SnDelta \/ TimedOut
  BY <1>9, Zenon DEF ShadowRefused, GetAnswered, DeltaReports, ShadowUnbinds, ShadowBinds, SnDelta,
     TimedOut, Yields, At
<1>10. CASE \/ \E w \in {"rest", "sn", "other"} : Report(w)
            \/ ShowStatus(FACTORY_BIND_OK_STATUS, "show2")
            \/ ShowStatus(SITE_BIND_OK_STATUS, "show3")
  BY <1>10, Zenon DEF Report, ShowStatus, At
<1> QED
  BY <1>1, <1>2, <1>3, <1>4, <1>5, <1>6, <1>7, <1>8, <1>9, <1>10, Zenon
     DEF IotStep

(* The status of a device that is registered is 1 or more, of one that has *)
(* its serial number 2 or more.                                            *)
LEMMA Order ==
  /\ FACTORY_BIND_OK_STATUS >= FACTORY_BIND_OK_STATUS
  /\ SITE_BIND_OK_STATUS >= FACTORY_BIND_OK_STATUS
  /\ LOCAL_UNBIND_STATUS >= FACTORY_BIND_OK_STATUS
  /\ \A x \in Statuses : x >= FACTORY_BIND_OK_STATUS => x # INIT_STATUS
  /\ INIT_STATUS # WAIT_TOPIC_STATUS
BY SMT DEF INIT_STATUS, WAIT_TOPIC_STATUS, FACTORY_BIND_OK_STATUS,
   SITE_BIND_OK_STATUS, LOCAL_UNBIND_STATUS, Statuses

(* Every step of a thread keeps NewInv. *)
LEMMA NextNew ==
  ASSUME PcOK, CallOK, OneBusy, NewInv, BoundInv, ~overlap, ~overlap',
         NEW t \in Threads, StepOf(t)
  PROVE  NewInv'
<1> USE DEF goVars, dbVars, getVars
<1> DEFINE High(c) == c.to = "status" => c.st >= FACTORY_BIND_OK_STATUS
           Registers == {"init", "tell"}
<1>0. "main" \in Threads /\ "iot" \in Threads /\ "qt" \in Threads
  BY DEF Threads
<1>1. /\ High(NoCall) /\ \A r, b : High(SetRest(r, b))
      /\ \A b : High(SetStatus(FACTORY_BIND_OK_STATUS, b))
      /\ \A b : High(SetStatus(SITE_BIND_OK_STATUS, b))
      /\ \A b : High(SetStatus(LOCAL_UNBIND_STATUS, b))
  BY CallKinds, Order, Zenon
<1>2. \A u \in Threads : High(call[u])
  BY DEF NewInv, Writes
<1>3. \A u \in Threads \ {t} : pc'[u] = pc[u] /\ call'[u] = call[u]
  BY OneMoves
<1>4. Busy(t) /\ t # "main" => pc'["main"] \notin Registers
  <2>1. pc["main"] \in Registers => Busy("main")
    BY DEF Busy, Idle
  <2> QED BY <2>1, <1>0, <1>3 DEF OneBusy
<1> HIDE DEF High
<1>5. ASSUME UNCHANGED <<goStatus, dbStatus>>, Free(t), High(call'[t]),
             t = "main" => pc'["main"] \notin Registers
      PROVE  NewInv'
  <2>1. \A u \in Threads : High(call'[u])
    BY <1>2, <1>3, <1>5
  <2>2. ASSUME NEW u \in Threads, Writes(u), call[u].step = "go"
        PROVE  Writes(u)' /\ call'[u].step = "go"
    BY <1>3, <1>5, <2>2 DEF Writes, Free
  <2>3. pc'["main"] \in Registers =>
          pc'["main"] = pc["main"] /\ call'["main"] = call["main"]
    BY <1>0, <1>3, <1>5
  <2> QED BY <1>5, <2>1, <2>2, <2>3 DEF NewInv, Writes, Free, High
<1>6. ASSUME goStatus' # INIT_STATUS, High(call'[t]),
             pc'["main"] \notin Registers
      PROVE  NewInv'
  <2>1. \A u \in Threads : High(call'[u])
    BY <1>2, <1>3, <1>6
  <2> QED BY <1>6, <2>1 DEF NewInv, Writes, High
<1>7. CASE CallStep(t)
  <2>0. call[t] \in Calls
    BY DEF CallOK
  <2>1. UNCHANGED pc /\ ~Free(t) /\ Busy(t)
    BY <1>7, CallAlone DEF Busy
  <2>2. pc["main"] \notin Registers \/ t # "main"
    BY <2>1 DEF NewInv
  <2>3. pc'["main"] \notin Registers
    BY <2>1, <2>2, <1>4
  <2>4. High(call'[t])
    BY <1>7, <1>1, <1>2, CallAlone DEF High
  <2>5. \A u \in Threads : High(call'[u])
    BY <1>2, <1>3, <2>4
  <2>6. goStatus' = INIT_STATUS =>
          \/ dbStatus' = INIT_STATUS
          \/ \E u \in Threads : Writes(u)' /\ call'[u].step = "go"
    <3> SUFFICES ASSUME goStatus' = INIT_STATUS
                 PROVE  \/ dbStatus' = INIT_STATUS
                        \/ \E u \in Threads : Writes(u)' /\ call'[u].step = "go"
      OBVIOUS
    <3>1. CASE WriteDb(t)
      <4>1. goStatus' = goStatus
        BY <3>1 DEF WriteDb
      <4>2. /\ call[t].step = "db" /\ call'[t].step = "go"
            /\ call'[t].to = call[t].to
        BY <1>7, <3>1, CallAlone DEF WriteDb, TellGo
      <4>3. CASE call[t].to = "status"
        BY <4>2, <4>3 DEF Writes
      <4>4. CASE call[t].to # "status"
        <5>1. dbStatus' = dbStatus
          BY <3>1, <4>4 DEF WriteDb
        <5>2. \A u \in Threads : Writes(u) => u # t
          BY <4>4 DEF Writes
        <5> QED BY <4>1, <5>1, <5>2, <1>3 DEF NewInv, Writes
      <4> QED BY <4>3, <4>4
    <3>2. CASE TellGo(t)
      <4>1. CASE call[t].to = "status"
        <5>1. goStatus' = call[t].st
          BY <3>2, <4>1 DEF TellGo
        <5>2. call[t].st >= FACTORY_BIND_OK_STATUS /\ call[t].st \in Statuses
          BY <4>1, <1>2, <2>0 DEF High, Calls
        <5> QED BY <5>1, <5>2, Order
      <4>2. CASE call[t].to # "status"
        <5>1. UNCHANGED <<goStatus, dbStatus>>
          BY <3>2, <4>2 DEF TellGo
        <5>2. \A u \in Threads : Writes(u) => u # t
          BY <4>2 DEF Writes
        <5> QED BY <5>1, <5>2, <1>3 DEF NewInv, Writes
      <4> QED BY <4>1, <4>2
    <3>3. CASE WriteDbFails(t)
      <4>1. UNCHANGED <<goStatus, dbStatus>> /\ call[t].step # "go"
        BY <3>3 DEF WriteDbFails
      <4> QED BY <4>1, <1>3 DEF NewInv, Writes
    <3> QED BY <1>7, <3>1, <3>2, <3>3 DEF CallStep
  <2> QED BY <2>3, <2>5, <2>6 DEF NewInv, Writes, High
<1>8. CASE t = "main" /\ MainStep
  <2>0. UNCHANGED call
    BY <1>8, MainAlone
  <2>1. CASE InitDevice
    <3>1. TakeUp("main") /\ Free("main") /\ goStatus = INIT_STATUS
      BY <2>1 DEF InitDevice, At
    <3>2. goStatus' = WAIT_TOPIC_STATUS /\ dbStatus' = dbStatus
      BY <2>1, Zenon DEF InitDevice
    <3>3. \A u \in Threads : ~Writes(u)
      <4>1. \A u \in Threads \ {"main"} : ~Busy(u)
        BY <3>1, <1>0, Alone
      <4> QED BY <3>1, <4>1 DEF Writes, Busy, Free
    <3>4. dbStatus = INIT_STATUS
      BY <3>1, <3>3 DEF NewInv
    <3>5. pc'["main"] = "init"
      BY <2>1, <1>0, PcMoves DEF InitDevice
    <3>6. Free("main")'
      BY <2>0, <3>1 DEF Free
    <3>7. \A u \in Threads : High(call'[u])
      BY <2>0, <1>2
    <3> QED BY <3>2, <3>4, <3>5, <3>6, <3>7, Order DEF NewInv, Writes, High
  <2>2. CASE SaveInit
    <3>1. pc["main"] = "init" /\ Free("main") /\ UNCHANGED goStatus
      BY <2>2 DEF SaveInit, At
    <3>2. goStatus = WAIT_TOPIC_STATUS
      BY <3>1 DEF NewInv
    <3>3. dbStatus \in {INIT_STATUS, WAIT_TOPIC_STATUS}
      BY <3>1 DEF NewInv
    <3>4. dbStatus' = goStatus \/ dbStatus' = dbStatus
      BY <2>2 DEF SaveInit
    <3>5. pc'["main"] = "tell"
      BY <2>2, <1>0, PcMoves DEF SaveInit
    <3>6. Free("main")'
      BY <2>0, <3>1 DEF Free
    <3>7. \A u \in Threads : High(call'[u])
      BY <2>0, <1>2
    <3> QED BY <3>1, <3>2, <3>3, <3>4, <3>5, <3>6, <3>7, Order
               DEF NewInv, Writes, High
  <2>3. CASE TellIot \/ StartBind \/ AskBind \/ Bound \/ StartUnbind
    <3>1. UNCHANGED <<goStatus, dbStatus>> /\ Free(t)
      BY <1>8, <2>3, Zenon DEF TellIot, StartBind, AskBind, Bound, StartUnbind, At
    <3>2. \E l \in {"loop", "asking", "served", "ask"} : GoTo("main", l)
      BY <2>3, Zenon DEF TellIot, StartBind, AskBind, Bound, StartUnbind
    <3>3. pc'["main"] \notin Registers
      BY <3>2, <1>0, PcMoves
    <3> QED BY <2>0, <3>1, <3>3, <1>2, <1>5
  <2> QED BY <1>8, <2>1, <2>2, <2>3 DEF MainStep
<1>9. CASE t \in {"main", "qt"} /\ UnbindStep(t)
  <2>1. High(call'[t])
    BY <1>9, <1>1, <1>2, UnbindCalls
  <2>2. Busy(t) /\ Free(t)
    BY <1>9, UnbindAlone DEF At, Busy, Idle
  <2>3. pc'["main"] \notin Registers
    <3>1. \E l \in {"answer", "rest", "told", "loop"} : GoTo(t, l)
      BY <1>9, Zenon DEF UnbindStep, AskUnbind, Unbound, AskUnbindFails, ForgetCanteen,
         Asked
    <3>2. pc'[t] \notin Registers
      BY <3>1, PcMoves
    <3> QED BY <2>2, <3>2, <1>4
  <2>4. CASE Unbound(t)
    <3>1. goStatus' = FACTORY_BIND_OK_STATUS
      BY <2>4, Zenon DEF Unbound
    <3> QED BY <2>1, <2>3, <3>1, <1>6, Order, StatusFacts
  <2>5. CASE AskUnbind(t) \/ AskUnbindFails(t) \/ ForgetCanteen(t)
    <3>1. UNCHANGED <<goStatus, dbStatus>>
      BY <2>5, Zenon DEF AskUnbind, AskUnbindFails, ForgetCanteen
    <3> QED BY <2>1, <2>2, <2>3, <3>1, <1>5
  <2> QED BY <1>9, <2>4, <2>5 DEF UnbindStep
<1>10. CASE t = "qt" /\ QtStep
  <2>1. High(call'[t])
    BY <1>10, <1>1, <1>2, QtCalls
  <2>2. Free(t)
    BY <1>10, Zenon DEF QtStep, QtUnbind, LocalStatus, TellLocal, TellQt, At
  <2>3. CASE TellLocal
    <3>1. goStatus' = LOCAL_UNBIND_STATUS
      BY <2>3, Zenon DEF TellLocal
    <3>2. Busy(t)
      BY <1>10, <2>3 DEF TellLocal, At, Busy, Idle
    <3>3. pc'["main"] \notin Registers
      BY <1>10, <3>2, <1>4
    <3> QED BY <2>1, <3>1, <3>3, <1>6, Order, StatusFacts
  <2>4. CASE QtUnbind \/ LocalStatus \/ TellQt
    <3>1. UNCHANGED <<goStatus, dbStatus>>
      BY <2>4, Zenon DEF QtUnbind, LocalStatus, TellQt
    <3> QED BY <1>10, <2>1, <2>2, <3>1, <1>5
  <2> QED BY <1>10, <2>3, <2>4 DEF QtStep
<1>11. CASE t = "iot" /\ (SessionStep \/ Disconnect \/ IotStep)
  <2>1. ShadowSettles => cStatus = SITE_BIND_OK_STATUS
    BY DEF ShadowSettles, At, BoundInv
  <2>2. High(call'[t])
    BY <1>11, <1>1, <1>2, <2>1, IotCalls
  <2>3. UNCHANGED <<goStatus, dbStatus>> /\ Free(t)
    BY <1>11, IotCalls
  <2> QED BY <1>11, <2>2, <2>3, <1>5
<1>12. CASE t = "blue" /\ (ScanStart \/ BlueStep)
  <2>1. UNCHANGED <<goStatus, dbStatus>> /\ Free(t)
    BY <1>12, Zenon DEF ScanStart, BlueStep, ScanRead, ScanDone, At
  <2>2. UNCHANGED call
    BY <1>12, BlueAlone
  <2> QED BY <1>12, <2>1, <2>2, <1>2, <1>5
<1> QED
  BY <1>7, <1>8, <1>9, <1>10, <1>11, <1>12, Zenon DEF StepOf

(* Every step of a thread keeps BoundInv. *)
LEMMA NextBound ==
  ASSUME PcOK, CallOK, ToldInv, OneBusy, NewInv, BoundInv, ~overlap, ~overlap',
         NEW t \in Threads, StepOf(t)
  PROVE  BoundInv'
<1> USE DEF goVars, dbVars, cVars, getVars
<1> DEFINE Binds(c)  == c.to = "status" /\ c.st = SITE_BIND_OK_STATUS
           Clear(c)  == /\ c.to = "status" /\ c.step = "db" /\ c.again
                        /\ c.st = FACTORY_BIND_OK_STATUS
           Early     == {"wait", "boot"}
<1>0. "main" \in Threads /\ "iot" \in Threads /\ "qt" \in Threads
  BY DEF Threads
<1>1. /\ ~Binds(NoCall) /\ \A r, b : ~Binds(SetRest(r, b))
      /\ \A b : ~Binds(SetStatus(FACTORY_BIND_OK_STATUS, b))
      /\ Clear(SetStatus(FACTORY_BIND_OK_STATUS, TRUE))
  BY CallKinds, DifferentStatuses, Zenon
<1>2. \A u \in Threads \ {t} : pc'[u] = pc[u] /\ call'[u] = call[u]
  BY OneMoves
<1>3. Busy(t) \/ TakeUp(t) => \A u \in Threads \ {t} : ~Busy(u)
  BY Alone
<1>4. /\ dbStatus = SITE_BIND_OK_STATUS /\ pc["iot"] \notin Early =>
           cStatus = SITE_BIND_OK_STATUS \/ \E u \in Threads : Clear(call[u])
      /\ pc["iot"] = "settle" => cStatus = SITE_BIND_OK_STATUS
      /\ Binds(call["iot"]) => cStatus = SITE_BIND_OK_STATUS
  BY DEF BoundInv, Writes, Clears
<1>5. ASSUME dbStatus' = SITE_BIND_OK_STATUS /\ pc'["iot"] \notin Early =>
               cStatus' = SITE_BIND_OK_STATUS \/ \E u \in Threads : Clear(call'[u]),
             pc'["iot"] = "settle" => cStatus' = SITE_BIND_OK_STATUS,
             Binds(call'["iot"]) => cStatus' = SITE_BIND_OK_STATUS
      PROVE  BoundInv'
  BY <1>5 DEF BoundInv, Writes, Clears
<1>6. Free(t) => /\ ~Clear(call[t]) /\ ~Binds(call[t])
                 /\ \A u \in Threads : Clear(call[u]) => Clear(call'[u])
  BY <1>2 DEF Free
<1> HIDE DEF Binds, Clear
<1>7. ASSUME UNCHANGED <<dbStatus, cStatus>>, Free(t),
             t = "iot" => /\ ~Binds(call'["iot"]) /\ pc'["iot"] # "settle"
                          /\ pc["iot"] \notin Early \/ pc'["iot"] \in Early
      PROVE  BoundInv'
  <2>1. CASE t = "iot"
    BY <1>4, <1>5, <1>6, <1>7, <2>1
  <2>2. CASE t # "iot"
    BY <1>0, <1>2, <1>4, <1>5, <1>6, <1>7, <2>2
  <2> QED BY <2>1, <2>2
<1>8. ASSUME ClearBinding(t), UNCHANGED dbStatus, Free(t), Busy(t) \/ TakeUp(t),
             t = "iot" => pc["iot"] \notin Early /\ pc'["iot"] # "settle"
      PROVE  BoundInv'
  <2>1. /\ cStatus' = FACTORY_BIND_OK_STATUS
        /\ IF cStatus # FACTORY_BIND_OK_STATUS
             THEN call'[t] = SetStatus(FACTORY_BIND_OK_STATUS, TRUE)
             ELSE call'[t] = call[t]
    BY <1>8, Cleared
  <2>2. CASE cStatus # FACTORY_BIND_OK_STATUS
    <3>1. Clear(call'[t])
      BY <1>1, <2>1, <2>2
    <3>2. ~Binds(call'["iot"]) /\ pc'["iot"] # "settle"
      <4>1. CASE t = "iot"
        BY <1>1, <1>8, <2>1, <2>2, <4>1
      <4>2. CASE t # "iot"
        <5>1. pc["iot"] # "settle" /\ ~Binds(call["iot"])
          BY <1>0, <1>3, <1>8, <4>2 DEF Busy, Idle, Free, Binds
        <5> QED BY <1>0, <1>2, <4>2, <5>1
      <4> QED BY <4>1, <4>2
    <3> QED BY <1>5, <3>1, <3>2
  <2>3. CASE cStatus = FACTORY_BIND_OK_STATUS
    <3>1. UNCHANGED cStatus /\ call'[t] = call[t]
      BY <2>1, <2>3
    <3> QED BY <1>6, <1>7, <1>8, <3>1
  <2> QED BY <2>2, <2>3
<1>9. CASE CallStep(t)
  <2>1. UNCHANGED pc /\ ~Free(t) /\ UNCHANGED cStatus
    <3>1. UNCHANGED cStatus
      BY <1>9, Zenon DEF CallStep, WriteDb, TellGo, WriteDbFails
    <3> QED BY <1>9, <3>1, CallAlone
  <2>2. Binds(call'[t]) => Binds(call[t])
    BY <1>1, <1>9, CallAlone DEF Binds
  <2>3. CASE WriteDb(t) /\ call[t].to = "status"
    <3>1. dbStatus' = call[t].st
      BY <2>3 DEF WriteDb
    <3>2. dbStatus' = SITE_BIND_OK_STATUS => Binds(call["iot"])
      BY <2>3, <3>1 DEF ToldInv, Binds
    <3> QED BY <1>0, <1>2, <1>4, <1>5, <2>1, <2>2, <3>2
  <2>4. CASE ~(WriteDb(t) /\ call[t].to = "status")
    <3>1. UNCHANGED dbStatus
      <4>1. CASE WriteDb(t)
        BY <2>4, <4>1 DEF WriteDb
      <4>2. CASE TellGo(t) \/ WriteDbFails(t)
        BY <4>2, Zenon DEF TellGo, WriteDbFails
      <4> QED BY <1>9, <4>1, <4>2 DEF CallStep
    <3>2. ~Clear(call[t])
      BY <1>9, <2>4, CallAlone DEF Clear
    <3> QED BY <1>0, <1>2, <1>4, <1>5, <2>1, <2>2, <3>1, <3>2
  <2> QED BY <2>3, <2>4
<1>10. CASE t = "main" /\ MainStep
  <2>0. UNCHANGED call /\ pc'["iot"] = pc["iot"]
    BY <1>0, <1>2, <1>10, MainAlone
  <2>1. CASE SaveInit
    <3>1. pc["main"] = "init"
      BY <2>1 DEF SaveInit, At
    <3>2. goStatus = WAIT_TOPIC_STATUS /\ dbStatus \in {INIT_STATUS, WAIT_TOPIC_STATUS}
      BY <3>1 DEF NewInv
    <3>3. UNCHANGED cStatus /\ (dbStatus' = goStatus \/ dbStatus' = dbStatus)
      BY <2>1, Zenon DEF SaveInit
    <3>4. dbStatus' # SITE_BIND_OK_STATUS
      BY <3>2, <3>3, DifferentStatuses
    <3> QED BY <1>4, <1>5, <2>0, <3>3, <3>4
  <2>2. CASE TellIot
    <3>1. pc["main"] = "tell" /\ UNCHANGED dbStatus
      BY <2>2, Zenon DEF TellIot, At
    <3>2. dbStatus \in {INIT_STATUS, WAIT_TOPIC_STATUS}
      BY <3>1 DEF NewInv
    <3>3. Busy("main")
      BY <3>1 DEF Busy, Idle
    <3>4. pc["iot"] # "settle" /\ ~Binds(call["iot"])
      BY <1>0, <1>10, <3>3, <1>3 DEF Busy, Idle, Free, Binds, Threads
    <3> QED BY <1>5, <2>0, <3>1, <3>2, <3>4, DifferentStatuses
  <2>3. CASE InitDevice \/ StartBind \/ AskBind \/ Bound \/ StartUnbind
    <3>1. UNCHANGED <<dbStatus, cStatus>> /\ Free(t)
      BY <1>10, <2>3, Zenon DEF InitDevice, StartBind, AskBind, Bound, StartUnbind, At
    <3> QED BY <1>7, <1>10, <3>1
  <2> QED BY <1>10, <2>1, <2>2, <2>3 DEF MainStep
<1>11. CASE t \in {"main", "qt"} /\ UnbindStep(t)
  <2>1. UNCHANGED <<dbStatus, cStatus>> /\ Free(t)
    BY <1>11, Zenon DEF UnbindStep, AskUnbind, Unbound, AskUnbindFails,
       ForgetCanteen, At
  <2> QED BY <1>7, <1>11, <2>1
<1>12. CASE t = "qt" /\ QtStep
  <2>1. CASE QtUnbind
    <3>1. UNCHANGED dbStatus /\ Free(t) /\ TakeUp(t) /\ ClearBinding(t)
      BY <1>12, <2>1, Zenon DEF QtUnbind, At
    <3> QED BY <1>8, <1>12, <3>1
  <2>2. CASE LocalStatus \/ TellLocal \/ TellQt
    <3>1. UNCHANGED <<dbStatus, cStatus>> /\ Free(t)
      BY <1>12, <2>2, Zenon DEF LocalStatus, TellLocal, TellQt, At
    <3> QED BY <1>7, <1>12, <3>1
  <2> QED BY <1>12, <2>1, <2>2 DEF QtStep
<1>13. CASE t = "iot" /\ (SessionStep \/ Disconnect)
  <2>0. UNCHANGED dbStatus /\ Free(t) /\ UNCHANGED call
    BY <1>13, Zenon DEF SessionStep, Certified, Connect, Reconnect, Disconnect, At
  <2>1. CASE Certified
    <3>1. UNCHANGED cStatus /\ pc'["iot"] = "boot"
      BY <2>1, <1>0, PcMoves, Zenon DEF Certified
    <3> QED BY <2>0, <3>1, <1>6, <1>7, <1>13
  <2>2. CASE Connect
    <3>1. cStatus' = dbStatus
      BY <2>2, Zenon DEF Connect
    <3>2. pc'["iot"] # "settle"
      <4>1. pc["iot"] = "boot" /\ (UNCHANGED pc \/ GoTo("iot", "run"))
        BY <2>2, Zenon DEF Connect, At
      <4> QED BY <4>1, <1>0, PcMoves
    <3> QED BY <1>5, <1>6, <1>13, <2>0, <3>1, <3>2
  <2>3. CASE Reconnect \/ Disconnect
    <3>1. UNCHANGED cStatus /\ pc["iot"] = "run"
          /\ (UNCHANGED pc \/ GoTo("iot", "boot"))
      BY <2>3, Zenon DEF Reconnect, Disconnect, At
    <3>2. pc'["iot"] # "settle"
      BY <3>1, <1>0, PcMoves
    <3> QED BY <2>0, <3>1, <3>2, <1>6, <1>7, <1>13
  <2> QED BY <1>13, <2>1, <2>2, <2>3 DEF SessionStep
<1>14. CASE t = "iot" /\ IotStep
  <2>0. UNCHANGED dbStatus /\ Free("iot")
    BY <1>14, IotCalls
  <2>1. CASE DeltaArrives
    <3>1. UNCHANGED cStatus /\ pc["iot"] = "run"
      BY <2>1, Zenon DEF DeltaArrives, Yields, At
    <3>2. pc'["iot"] = "delta" /\ call'["iot"] = SetRest(Head(deltas), TRUE)
      BY <2>1, <1>0, PcMoves, CallMoves DEF DeltaArrives
    <3> QED BY <1>1, <1>7, <1>14, <2>0, <3>1, <3>2
  <2>2. CASE DeltaClears
    <3>1. pc["iot"] = "delta" /\ ClearBinding("iot") /\ GoTo("iot", "report")
      BY <2>2 DEF DeltaClears, At
    <3>2. pc'["iot"] = "report" /\ Busy("iot")
      BY <3>1, <1>0, PcMoves DEF Busy, Idle
    <3> QED BY <1>8, <1>14, <2>0, <3>1, <3>2
  <2>3. CASE DeltaReports \/ ShadowUnbinds
    <3>1. UNCHANGED <<cStatus, call>> /\ pc["iot"] \notin Early
      BY <2>3, Zenon DEF DeltaReports, ShadowUnbinds, At
    <3>2. GoTo("iot", "run") \/ GoTo("iot", "sn")
      BY <2>3, Zenon DEF DeltaReports, ShadowUnbinds
    <3>3. pc'["iot"] # "settle"
      BY <3>2, <1>0, PcMoves
    <3> QED BY <1>6, <1>7, <1>14, <2>0, <3>1, <3>3
  <2>4. CASE ShadowArrives
    <3>1. TakeUp("iot") /\ pc["iot"] = "run"
      BY <2>4, Zenon DEF ShadowArrives, GetAnswered, Yields, At
    <3>2. GoTo("iot", "zero") \/ GoTo("iot", "bind") \/ GoTo("iot", "sn")
      BY <2>4, Zenon DEF ShadowArrives
    <3>3. pc'["iot"] # "settle"
      BY <3>2, <1>0, PcMoves
    <3>4. CASE ClearBinding("iot")
      BY <1>8, <1>14, <2>0, <3>1, <3>3, <3>4
    <3>5. CASE ~ClearBinding("iot")
      <4>1. UNCHANGED cStatus /\ (UNCHANGED call \/ Call("iot", SetRest(desired, TRUE)))
        BY <2>4, <3>5, Zenon DEF ShadowArrives
      <4>2. call'["iot"] = call["iot"] \/ call'["iot"] = SetRest(desired, TRUE)
        BY <4>1, <1>0, CallMoves
      <4> QED BY <1>1, <1>6, <1>7, <1>14, <2>0, <3>1, <3>3, <4>1, <4>2
    <3> QED BY <3>4, <3>5
  <2>5. CASE ShadowBinds
    <3>1. cStatus' = SITE_BIND_OK_STATUS
      BY <2>5, Zenon DEF ShadowBinds
    <3> QED BY <1>5, <3>1
  <2>6. CASE ShadowSettles
    <3>1. UNCHANGED cStatus /\ pc["iot"] = "settle"
      BY <2>6, Zenon DEF ShadowSettles, At
    <3> QED BY <1>4, <1>5, <3>1
  <2>7. CASE ShadowNames
    <3>1. GoTo("iot", "run") /\ pc["iot"] = "sn"
      BY <2>7 DEF ShadowNames, At
    <3>2. pc'["iot"] # "settle"
      BY <3>1, <1>0, PcMoves
    <3>3. CASE UNCHANGED <<cStatus, call>>
      BY <1>6, <1>7, <1>14, <2>0, <3>1, <3>2, <3>3
    <3>4. CASE ~UNCHANGED <<cStatus, call>>
      <4>1. /\ cStatus < FACTORY_BIND_OK_STATUS
            /\ Call("iot", SetStatus(FACTORY_BIND_OK_STATUS, FALSE))
        BY <2>7, <3>4, Zenon DEF ShadowNames
      <4>2. call'["iot"] = SetStatus(FACTORY_BIND_OK_STATUS, FALSE)
        BY <4>1, <1>0, CallMoves
      <4>3. cStatus # SITE_BIND_OK_STATUS
        BY <4>1 DEF FACTORY_BIND_OK_STATUS, SITE_BIND_OK_STATUS
      <4> QED BY <1>1, <1>4, <1>5, <1>6, <1>14, <2>0, <3>1, <3>2, <4>2, <4>3
    <3> QED BY <3>3, <3>4
  <2>8. ASSUME NEW m \in sent, CanteenAccepted(m) PROVE BoundInv'
    <3>1. \/ cStatus' = SITE_BIND_OK_STATUS
          \/ UNCHANGED <<cStatus, call, pc>> /\ pc["iot"] = "run"
      BY <2>8, Zenon DEF CanteenAccepted, Answered, Yields, At
    <3> QED BY <1>5, <1>6, <1>7, <1>14, <2>0, <3>1
  <2>9. ASSUME NEW m \in sent, SnAccepted(m) PROVE BoundInv'
    <3>1. CASE UNCHANGED <<cStatus, call, pc>>
      BY <2>9, <1>6, <1>7, <1>14, <2>0, <3>1 DEF SnAccepted, Answered, Yields, At
    <3>2. CASE ~UNCHANGED <<cStatus, call, pc>>
      <4>1. /\ cStatus = WAIT_TOPIC_STATUS /\ pc["iot"] = "run"
            /\ Call("iot", SetStatus(FACTORY_BIND_OK_STATUS, TRUE))
            /\ GoTo("iot", "show2")
        BY <2>9, <3>2, Zenon DEF SnAccepted, Answered, Yields, At
      <4>2. /\ call'["iot"] = SetStatus(FACTORY_BIND_OK_STATUS, TRUE)
            /\ pc'["iot"] = "show2"
        BY <4>1, <1>0, PcMoves, CallMoves
      <4> QED BY <1>1, <1>5, <4>2, <1>0
    <3> QED BY <3>1, <3>2
  <2>10. CASE \/ ShadowRefused \/ SnDelta \/ TimedOut
              \/ \E w \in {"rest", "sn", "other"} : Report(w)
    <3>1. UNCHANGED <<cStatus, call, pc>> /\ pc["iot"] = "run"
      BY <2>10, Zenon DEF ShadowRefused, GetAnswered, SnDelta, TimedOut, Report, Yields, At
    <3> QED BY <1>6, <1>7, <1>14, <2>0, <3>1
  <2>11. CASE \/ ShowStatus(FACTORY_BIND_OK_STATUS, "show2")
              \/ ShowStatus(SITE_BIND_OK_STATUS, "show3")
    <3>1. UNCHANGED <<cStatus, call>> /\ GoTo("iot", "run") /\ pc["iot"] \notin Early
      BY <2>11, Zenon DEF ShowStatus, At
    <3>2. pc'["iot"] = "run"
      BY <3>1, <1>0, PcMoves
    <3> QED BY <1>6, <1>7, <1>14, <2>0, <3>1, <3>2
  <2> QED
    BY <1>14, <2>1, <2>2, <2>3, <2>4, <2>5, <2>6, <2>7, <2>8, <2>9, <2>10, <2>11
       DEF IotStep
<1>15. CASE t = "blue" /\ (ScanStart \/ BlueStep)
  <2>1. UNCHANGED <<dbStatus, cStatus>> /\ Free(t)
    BY <1>15, Zenon DEF ScanStart, BlueStep, ScanRead, ScanDone, At
  <2> QED BY <1>7, <1>15, <2>1
<1> QED
  BY <1>9, <1>10, <1>11, <1>12, <1>13, <1>14, <1>15, Zenon DEF StepOf

(* Every step of a thread keeps ClearInv. *)
LEMMA NextClear ==
  ASSUME PcOK, CallOK, NamedInv, ToldInv, OneBusy, NewInv, BoundInv, ClearInv,
         ~overlap, ~overlap', NEW t \in Threads, StepOf(t)
  PROVE  ClearInv'
<1> USE DEF goVars, dbVars, cVars, getVars, history
<1> DEFINE Clear(c)  == /\ c.to = "status" /\ c.step = "db" /\ c.again
                        /\ c.st = FACTORY_BIND_OK_STATUS
           Asks      == {"wait", "boot", "delta"}
<1>0. "main" \in Threads /\ "iot" \in Threads /\ "qt" \in Threads
  BY DEF Threads
<1>1. Clear(SetStatus(FACTORY_BIND_OK_STATUS, TRUE))
  BY CallKinds, Zenon
<1>2. \A u \in Threads \ {t} : pc'[u] = pc[u] /\ call'[u] = call[u]
  BY OneMoves
<1>3. Busy(t) \/ TakeUp(t) => \A u \in Threads \ {t} : ~Busy(u)
  BY Alone
<1>4. dbStatus = SITE_BIND_OK_STATUS /\ told = NoRestaurant =>
        getShadowFlag \/ refused \/ pc["iot"] \in Asks \/ Clear(call["iot"])
  BY DEF ClearInv, Clears, Writes
<1>5. ASSUME dbStatus' = SITE_BIND_OK_STATUS /\ told' = NoRestaurant =>
               getShadowFlag' \/ refused' \/ pc'["iot"] \in Asks \/ Clear(call'["iot"])
      PROVE  ClearInv'
  BY <1>5 DEF ClearInv, Clears, Writes
<1>6. Free("iot") => ~Clear(call["iot"])
  BY DEF Free
<1>7. ASSUME NEW u \in Threads, Clear(call[u]) PROVE Busy(u)
  BY <1>7 DEF Busy, Free
<1> HIDE DEF Clear
<1>8. ASSUME UNCHANGED <<dbStatus, told, getShadowFlag, refused>>, t # "iot"
      PROVE  ClearInv'
  BY <1>0, <1>2, <1>4, <1>5, <1>8
<1>9. ASSUME UNCHANGED <<dbStatus, told>>, getShadowFlag \/ refused => getShadowFlag' \/ refused',
             Free("iot"), pc["iot"] \in Asks => pc'["iot"] \in Asks
      PROVE  ClearInv'
  BY <1>4, <1>5, <1>6, <1>9
<1>10. ASSUME t = "iot", ClearBinding(t), Free(t), UNCHANGED dbStatus,
              Busy(t) \/ TakeUp(t), pc["iot"] \notin {"wait", "boot"}
       PROVE  ClearInv'
  <2>1. CASE dbStatus = SITE_BIND_OK_STATUS
    <3>1. \A u \in Threads : ~Clear(call[u])
      BY <1>3, <1>6, <1>7, <1>10
    <3>2. cStatus = SITE_BIND_OK_STATUS
      BY <1>10, <2>1, <3>1 DEF BoundInv, Clears, Writes, Clear
    <3>3. call'[t] = SetStatus(FACTORY_BIND_OK_STATUS, TRUE)
      BY <1>10, <3>2, Cleared, DifferentStatuses
    <3> QED BY <1>1, <1>5, <1>10, <3>3
  <2>2. CASE dbStatus # SITE_BIND_OK_STATUS
    BY <1>5, <1>10, <2>2
  <2> QED BY <2>1, <2>2
<1>11. CASE CallStep(t)
  <2>1. UNCHANGED <<told, getShadowFlag, refused>>
    BY <1>11, Zenon DEF CallStep, WriteDb, TellGo, WriteDbFails
  <2>2. UNCHANGED pc
    BY <1>11, CallAlone
  <2>3. CASE WriteDb(t) /\ call[t].to = "status"
    <3>1. dbStatus' = call[t].st
      BY <2>3 DEF WriteDb
    <3>2. dbStatus' = SITE_BIND_OK_STATUS => told # NoRestaurant
      BY <2>3, <3>1 DEF ToldInv
    <3> QED BY <1>5, <2>1, <3>2
  <2>4. CASE ~(WriteDb(t) /\ call[t].to = "status")
    <3>1. UNCHANGED dbStatus
      <4>1. CASE WriteDb(t)
        BY <2>4, <4>1 DEF WriteDb
      <4>2. CASE TellGo(t) \/ WriteDbFails(t)
        BY <4>2, Zenon DEF TellGo, WriteDbFails
      <4> QED BY <1>11, <4>1, <4>2 DEF CallStep
    <3>2. ~Clear(call[t])
      BY <1>11, <2>4, CallAlone DEF Clear
    <3> QED BY <1>0, <1>2, <1>4, <1>5, <2>1, <2>2, <3>1, <3>2
  <2> QED BY <2>3, <2>4
<1>12. CASE t = "main" /\ MainStep
  <2>1. CASE SaveInit
    <3>1. pc["main"] = "init"
      BY <2>1 DEF SaveInit, At
    <3>2. goStatus = WAIT_TOPIC_STATUS /\ dbStatus \in {INIT_STATUS, WAIT_TOPIC_STATUS}
      BY <3>1 DEF NewInv
    <3>3. dbStatus' = goStatus \/ dbStatus' = dbStatus
      BY <2>1, Zenon DEF SaveInit
    <3> QED BY <1>5, <3>2, <3>3, DifferentStatuses
  <2>2. CASE InitDevice \/ TellIot \/ StartBind \/ AskBind \/ Bound \/ StartUnbind
    <3>1. UNCHANGED <<dbStatus, told, getShadowFlag, refused>>
      BY <2>2, Zenon DEF InitDevice, TellIot, StartBind, AskBind, Bound, StartUnbind
    <3> QED BY <1>8, <1>12, <3>1
  <2> QED BY <1>12, <2>1, <2>2 DEF MainStep
<1>13. CASE t \in {"main", "qt"} /\ UnbindStep(t)
  <2>1. UNCHANGED <<dbStatus, told, getShadowFlag, refused>>
    BY <1>13, Zenon DEF UnbindStep, AskUnbind, Unbound, AskUnbindFails,
       ForgetCanteen
  <2> QED BY <1>8, <1>13, <2>1
<1>14. CASE t = "qt" /\ QtStep
  <2>1. UNCHANGED <<dbStatus, told, getShadowFlag, refused>>
    BY <1>14, Zenon DEF QtStep, QtUnbind, LocalStatus, TellLocal, TellQt
  <2> QED BY <1>8, <1>14, <2>1
<1>15. CASE t = "iot" /\ (SessionStep \/ Disconnect)
  <2>0. UNCHANGED <<dbStatus, told>> /\ Free("iot")
    BY <1>15, Zenon DEF SessionStep, Certified, Connect, Reconnect, Disconnect, At
  <2>1. CASE Certified \/ Reconnect
    <3>1. UNCHANGED <<getShadowFlag, refused>>
      BY <2>1, Zenon DEF Certified, Reconnect
    <3>2. UNCHANGED pc \/ GoTo("iot", "boot")
      BY <2>1, Zenon DEF Certified, Reconnect
    <3> QED BY <1>0, <1>9, <2>0, <3>1, <3>2, PcMoves
  <2>2. CASE Connect
    <3>1. getShadowFlag' \/ (UNCHANGED pc /\ pc["iot"] = "boot")
      BY <2>2, Zenon DEF Connect, At
    <3> QED BY <1>5, <3>1
  <2>3. CASE Disconnect
    <3>1. getShadowFlag'
      BY <2>3, Zenon DEF Disconnect
    <3> QED BY <1>5, <3>1
  <2> QED BY <1>15, <2>1, <2>2, <2>3 DEF SessionStep
<1>16. CASE t = "iot" /\ IotStep
  <2>0. UNCHANGED dbStatus /\ Free("iot")
    BY <1>16, IotCalls
  <2>1. CASE DeltaArrives
    <3>1. pc'["iot"] = "delta"
      BY <2>1, <1>0, PcMoves DEF DeltaArrives
    <3> QED BY <1>5, <3>1
  <2>2. CASE DeltaClears
    <3>1. pc["iot"] = "delta" /\ ClearBinding("iot")
      BY <2>2 DEF DeltaClears, At
    <3>2. Busy("iot")
      BY <3>1 DEF Busy, Idle
    <3> QED BY <1>10, <1>16, <2>0, <3>1, <3>2
  <2>3. CASE DeltaReports
    <3>1. UNCHANGED <<told, getShadowFlag, refused>>
      BY <2>3, Zenon DEF DeltaReports
    <3>2. \/ pc["iot"] = "delta" /\ restaurantID # NoRestaurant
          \/ pc["iot"] = "report"
      BY <2>3 DEF DeltaReports, At
    <3>3. CASE pc["iot"] = "delta" /\ restaurantID # NoRestaurant
      <4>1. told # NoRestaurant
        BY <3>3 DEF ToldInv
      <4> QED BY <1>5, <3>1, <4>1
    <3>4. CASE pc["iot"] = "report"
      BY <1>9, <2>0, <3>1, <3>4
    <3> QED BY <3>2, <3>3, <3>4
  <2>4. CASE ShadowArrives
    <3>1. TakeUp("iot") /\ pc["iot"] = "run"
      BY <2>4, Zenon DEF ShadowArrives, GetAnswered, Yields, At
    <3>2. CASE desired = NoRestaurant
      <4>1. ClearBinding("iot")
        BY <2>4, <3>2, Zenon DEF ShadowArrives
      <4> QED BY <1>10, <1>16, <2>0, <3>1, <4>1
    <3>3. CASE desired # NoRestaurant
      <4>1. told' # NoRestaurant
        <5>1. desired = Unset => told' = told /\ told = Unset
          BY <2>4 DEF ShadowArrives, NamedInv
        <5>2. desired # Unset => told' = desired
          BY <2>4 DEF ShadowArrives
        <5> QED BY <3>3, <5>1, <5>2, RestaurantAssumption
      <4> QED BY <1>5, <4>1
    <3> QED BY <3>2, <3>3
  <2>5. CASE ShadowUnbinds \/ ShadowBinds \/ ShadowSettles \/ ShadowNames
    <3>1. UNCHANGED <<told, getShadowFlag, refused>> /\ pc["iot"] \notin Asks
      BY <2>5, Zenon DEF ShadowUnbinds, ShadowBinds, ShadowSettles, ShadowNames, At
    <3> QED BY <1>9, <2>0, <3>1
  <2>6. CASE SnDelta \/ TimedOut \/ \E w \in {"rest", "sn", "other"} : Report(w)
    <3>1. UNCHANGED <<told, getShadowFlag, refused>> /\ pc["iot"] \notin Asks
      BY <2>6, Zenon DEF SnDelta, TimedOut, Report, Yields, At
    <3> QED BY <1>9, <2>0, <3>1
  <2>7. CASE \E m \in sent : CanteenAccepted(m) \/ SnAccepted(m)
    <3>1. UNCHANGED <<told, getShadowFlag, refused>> /\ pc["iot"] \notin Asks
      BY <2>7, Zenon DEF CanteenAccepted, SnAccepted, Answered, Yields, At
    <3> QED BY <1>9, <2>0, <3>1
  <2>8. CASE \/ ShowStatus(FACTORY_BIND_OK_STATUS, "show2")
             \/ ShowStatus(SITE_BIND_OK_STATUS, "show3")
    <3>1. UNCHANGED <<told, getShadowFlag, refused>> /\ pc["iot"] \notin Asks
      BY <2>8, Zenon DEF ShowStatus, At
    <3> QED BY <1>9, <2>0, <3>1
  <2>9. CASE ShadowRefused
    <3>1. refused'
      BY <2>9, Zenon DEF ShadowRefused
    <3> QED BY <1>5, <3>1
  <2> QED
    BY <1>16, <2>1, <2>2, <2>3, <2>4, <2>5, <2>6, <2>7, <2>8, <2>9 DEF IotStep
<1>17. CASE t = "blue" /\ (ScanStart \/ BlueStep)
  <2>1. UNCHANGED <<dbStatus, told, getShadowFlag, refused>>
    BY <1>17, Zenon DEF ScanStart, BlueStep, ScanRead, ScanDone
  <2> QED BY <1>8, <1>17, <2>1
<1> QED
  BY <1>11, <1>12, <1>13, <1>14, <1>15, <1>16, <1>17, Zenon DEF StepOf

(* Without failing writes every step of a thread keeps AgreeInv. *)
LEMMA NextAgree ==
  ASSUME PcOK, CallOK, OneBusy, NewInv, BoundInv, AgreeInv, ~DbFaults,
         ~overlap, ~overlap', NEW t \in Threads, StepOf(t)
  PROVE  AgreeInv'
<1> USE DEF goVars, dbVars, cVars, getVars, history
<1> DEFINE Fresh(c) == c.to = "status" => c.step = "db"
<1>1. (\A x, b : Fresh(SetStatus(x, b))) /\ (\A x, b : Fresh(SetRest(x, b)))
  BY CallKinds, Zenon
<1>2. Free(t) => Fresh(call[t])
  BY DEF Free
<1>3. Fresh(call'[t]) => (Writes(t)' => call'[t].step = "db")
  BY DEF Writes
<1> HIDE DEF Fresh
<1>4. "main" \in Threads /\ "iot" \in Threads /\ "qt" \in Threads
  BY DEF Threads
<1>5. \A u \in Threads \ {t} : pc'[u] = pc[u] /\ call'[u] = call[u]
  BY OneMoves
<1>6. Busy(t) \/ TakeUp(t) => \A u \in Threads \ {t} : ~Busy(u)
  BY Alone
<1>7. \A u \in Threads : Writes(u) => Busy(u)
  BY DEF Writes, Busy, Free
<1>8. pc["qt"] = "tell" => Busy("qt")
  BY DEF Busy, Idle
<1>9. ASSUME UNCHANGED <<goStatus, dbStatus>>, Free(t),
             Writes(t)' => call'[t].step = "db",
             t = "main" => pc["main"] # "init" \/ pc'["main"] = "init",
             t = "qt" => pc'["qt"] # "tell" \/ (Writes("qt")' /\ call'["qt"].st = LOCAL_UNBIND_STATUS)
      PROVE  AgreeInv'
  <2>1. \A u \in Threads : Writes(u) => Writes(u)' /\ call'[u] = call[u] /\ u # t
    BY <1>5, <1>9 DEF Writes, Free
  <2>2. \/ goStatus' = dbStatus' \/ pc'["main"] = "init"
        \/ \E u \in Threads : Writes(u)'
    BY <1>4, <1>5, <1>9, <2>1 DEF AgreeInv
  <2>3. \A u \in Threads : Writes(u)' /\ call'[u].step = "go" => dbStatus' = call'[u].st
    BY <1>5, <1>9, <2>1 DEF AgreeInv, Writes
  <2>4. pc'["qt"] = "tell" =>
          IF Free("qt")' THEN dbStatus' = LOCAL_UNBIND_STATUS
          ELSE Writes("qt")' /\ call'["qt"].st = LOCAL_UNBIND_STATUS
    <3>1. CASE t = "qt"
      BY <1>9, <3>1 DEF Writes, Free
    <3>2. CASE t # "qt"
      BY <1>4, <1>5, <1>9, <3>2 DEF AgreeInv, Writes, Free
    <3> QED BY <3>1, <3>2
  <2> QED BY <2>2, <2>3, <2>4 DEF AgreeInv
<1>10. CASE CallStep(t)
  <2>0. UNCHANGED pc /\ ~Free(t) /\ Busy(t)
    BY <1>10, CallAlone DEF Busy
  <2>1. \A u \in Threads \ {t} : ~Writes(u) /\ ~Writes(u)'
    BY <1>5, <1>6, <1>7, <2>0 DEF Writes
  <2>2. pc["qt"] = "tell" => t = "qt"
    BY <1>4, <1>6, <1>8, <2>0
  <2>3. CASE WriteDb(t)
    <3>1. /\ call[t].step = "db" /\ call'[t].step = "go"
          /\ call'[t].to = call[t].to /\ call'[t].st = call[t].st
      BY <1>10, <2>3, CallAlone
    <3>2. UNCHANGED goStatus /\
          dbStatus' = IF call[t].to = "status" THEN call[t].st ELSE dbStatus
      BY <2>3, Zenon DEF WriteDb
    <3>3. CASE call[t].to = "status"
      <4>1. Writes(t)' /\ dbStatus' = call'[t].st
        BY <3>1, <3>2, <3>3 DEF Writes
      <4>2. pc'["qt"] = "tell" =>
              t = "qt" /\ ~Free("qt")' /\ call'["qt"].st = LOCAL_UNBIND_STATUS
        BY <2>0, <2>2, <3>1, <3>3 DEF AgreeInv, Free
      <4> QED BY <2>1, <4>1, <4>2 DEF AgreeInv
    <3>4. CASE call[t].to # "status"
      <4>1. dbStatus' = dbStatus /\ ~Writes(t) /\ ~Writes(t)'
        BY <3>1, <3>2, <3>4 DEF Writes
      <4>2. pc["qt"] # "tell"
        BY <2>0, <2>2, <4>1 DEF AgreeInv
      <4>3. goStatus = dbStatus \/ pc["main"] = "init"
        BY <2>1, <4>1 DEF AgreeInv
      <4> QED BY <2>0, <2>1, <3>2, <4>1, <4>2, <4>3 DEF AgreeInv
    <3> QED BY <3>3, <3>4
  <2>4. CASE TellGo(t)
    <3>1. call[t].step = "go" /\ call'[t] = NoCall
      BY <1>10, <2>4, CallAlone
    <3>2. UNCHANGED dbStatus /\
          goStatus' = IF call[t].to = "status" THEN call[t].st ELSE goStatus
      BY <2>4, Zenon DEF TellGo
    <3>3. ~Writes(t)' /\ Free(t)'
      BY <3>1, CallKinds DEF Writes, Free
    <3>4. goStatus' = dbStatus' \/ pc'["main"] = "init"
      <4>1. CASE call[t].to = "status"
        BY <3>1, <3>2, <4>1 DEF AgreeInv, Writes
      <4>2. CASE call[t].to # "status"
        BY <2>0, <2>1, <3>2, <4>2 DEF AgreeInv, Writes
      <4> QED BY <4>1, <4>2
    <3>5. pc'["qt"] = "tell" => Free("qt")' /\ dbStatus' = LOCAL_UNBIND_STATUS
      <4>1. pc["qt"] = "tell" => Writes("qt") /\ call["qt"].st = LOCAL_UNBIND_STATUS
        BY <2>0, <2>2 DEF AgreeInv
      <4>2. pc["qt"] = "tell" => dbStatus = LOCAL_UNBIND_STATUS
        BY <1>4, <2>2, <3>1, <4>1 DEF AgreeInv
      <4> QED BY <2>0, <2>2, <3>2, <3>3, <4>2
    <3> QED BY <2>1, <3>3, <3>4, <3>5 DEF AgreeInv
  <2>5. ~WriteDbFails(t)
    BY DEF WriteDbFails
  <2> QED BY <1>10, <2>3, <2>4, <2>5 DEF CallStep
<1>11. CASE t = "main" /\ MainStep
  <2>0. UNCHANGED call
    BY <1>11, MainAlone
  <2>1. CASE InitDevice
    <3>1. TakeUp(t) /\ Free(t) /\ UNCHANGED dbStatus
      BY <1>11, <2>1, Zenon DEF InitDevice, At
    <3>2. pc'["main"] = "init"
      BY <1>4, <2>1, PcMoves DEF InitDevice
    <3>3. \A u \in Threads : ~Writes(u)'
      BY <1>6, <1>7, <2>0, <3>1 DEF Writes, Free
    <3>4. pc'["qt"] # "tell"
      BY <1>4, <1>5, <1>6, <1>8, <1>11, <3>1
    <3> QED BY <3>2, <3>3, <3>4 DEF AgreeInv
  <2>2. CASE SaveInit
    <3>1. pc["main"] = "init" /\ Free("main") /\ UNCHANGED goStatus
      BY <2>2, Zenon DEF SaveInit, At
    <3>2. dbStatus' = goStatus
      BY <2>2 DEF SaveInit
    <3>3. Busy("main")
      BY <3>1 DEF Busy, Idle
    <3>4. \A u \in Threads : ~Writes(u)'
      BY <1>6, <1>7, <1>11, <2>0, <3>1, <3>3 DEF Writes, Free
    <3>5. pc'["qt"] # "tell"
      BY <1>4, <1>5, <1>6, <1>8, <1>11, <3>3
    <3> QED BY <3>1, <3>2, <3>4, <3>5 DEF AgreeInv
  <2>3. CASE TellIot \/ StartBind \/ AskBind \/ Bound \/ StartUnbind
    <3>1. UNCHANGED <<goStatus, dbStatus>> /\ Free(t) /\ pc["main"] # "init"
      BY <1>11, <2>3, Zenon DEF TellIot, StartBind, AskBind, Bound, StartUnbind, At
    <3>2. ~Writes(t)'
      BY <2>0, <3>1 DEF Writes, Free
    <3> QED BY <1>9, <1>11, <3>1, <3>2
  <2> QED BY <1>11, <2>1, <2>2, <2>3 DEF MainStep
<1>12. CASE t \in {"main", "qt"} /\ UnbindStep(t)
  <2>1. Writes(t)' => call'[t].step = "db"
    <3>1. Free(t)
      BY <1>12, UnbindAlone DEF At
    <3>2. Fresh(call'[t])
      BY <1>12, <3>1, <1>1, <1>2, UnbindCalls
    <3> QED BY <3>2, <1>3
  <2>2. Busy(t) /\ Free(t) /\ pc[t] # "init"
    BY <1>12, UnbindAlone DEF At, Busy, Idle
  <2>3. pc'[t] # "tell"
    <3>1. \E l \in {"answer", "rest", "told", "loop"} : GoTo(t, l)
      BY <1>12, Zenon DEF UnbindStep, AskUnbind, Unbound, AskUnbindFails,
         ForgetCanteen, Asked
    <3> QED BY <3>1, PcMoves
  <2>4. CASE Unbound(t)
    <3>1. Call(t, SetStatus(FACTORY_BIND_OK_STATUS, FALSE))
      BY <2>4, Zenon DEF Unbound
    <3>2. Writes(t)'
      <4>1. call'[t] = SetStatus(FACTORY_BIND_OK_STATUS, FALSE)
        BY <3>1, CallMoves
      <4> QED BY <4>1 DEF Writes, SetStatus
    <3>3. \A u \in Threads \ {t} : ~Writes(u)'
      BY <1>5, <1>6, <1>7, <2>2 DEF Writes
    <3>4. pc'["qt"] # "tell"
      BY <1>4, <1>5, <1>6, <1>8, <2>2, <2>3
    <3> QED BY <2>1, <3>2, <3>3, <3>4 DEF AgreeInv
  <2>5. CASE AskUnbind(t) \/ AskUnbindFails(t) \/ ForgetCanteen(t)
    <3>1. UNCHANGED <<goStatus, dbStatus>>
      BY <2>5, Zenon DEF AskUnbind, AskUnbindFails, ForgetCanteen
    <3> QED BY <1>9, <2>1, <2>2, <2>3, <3>1
  <2> QED BY <1>12, <2>4, <2>5 DEF UnbindStep
<1>13. CASE t = "qt" /\ QtStep
  <2>0. Free(t)
    BY <1>13, Zenon DEF QtStep, QtUnbind, LocalStatus, TellLocal, TellQt, At
  <2>1. Writes(t)' => call'[t].step = "db"
    <3>1. Fresh(call'[t])
      BY <1>13, <2>0, <1>1, <1>2, QtCalls
    <3> QED BY <3>1, <1>3
  <2>2. CASE QtUnbind \/ TellQt
    <3>1. UNCHANGED <<goStatus, dbStatus>>
      BY <2>2, Zenon DEF QtUnbind, TellQt
    <3>2. GoTo("qt", "local") \/ GoTo("qt", "run")
      BY <2>2, Zenon DEF QtUnbind, TellQt
    <3>3. pc'["qt"] # "tell"
      BY <1>4, <3>2, PcMoves
    <3> QED BY <1>9, <1>13, <2>0, <2>1, <3>1, <3>3
  <2>3. CASE LocalStatus
    <3>1. UNCHANGED <<goStatus, dbStatus>>
      BY <2>3, Zenon DEF LocalStatus
    <3>2. \/ /\ Call("qt", SetStatus(LOCAL_UNBIND_STATUS, FALSE))
             /\ GoTo("qt", "tell")
          \/ GoTo("qt", "ask")
      BY <2>3, Zenon DEF LocalStatus
    <3>3. pc'["qt"] # "tell" \/ (Writes("qt")' /\ call'["qt"].st = LOCAL_UNBIND_STATUS)
      <4>1. CASE Call("qt", SetStatus(LOCAL_UNBIND_STATUS, FALSE))
        <5>1. call'["qt"] = SetStatus(LOCAL_UNBIND_STATUS, FALSE)
          BY <1>4, <4>1, CallMoves
        <5> QED BY <5>1 DEF Writes, SetStatus
      <4>2. CASE GoTo("qt", "ask")
        BY <1>4, <4>2, PcMoves
      <4> QED BY <3>2, <4>1, <4>2
    <3> QED BY <1>9, <1>13, <2>0, <2>1, <3>1, <3>3
  <2>4. CASE TellLocal
    <3>1. pc["qt"] = "tell" /\ goStatus' = LOCAL_UNBIND_STATUS
          /\ UNCHANGED <<dbStatus, call>>
      BY <2>4, Zenon DEF TellLocal, At
    <3>2. dbStatus = LOCAL_UNBIND_STATUS
      BY <1>13, <2>0, <3>1 DEF AgreeInv
    <3>3. \A u \in Threads : ~Writes(u)'
      BY <1>6, <1>7, <1>8, <1>13, <2>0, <3>1 DEF Writes, Free
    <3>4. pc'["qt"] # "tell"
      BY <1>4, <2>4, PcMoves DEF TellLocal
    <3> QED BY <3>1, <3>2, <3>3, <3>4 DEF AgreeInv
  <2> QED BY <1>13, <2>2, <2>3, <2>4 DEF QtStep
<1>14. CASE t = "iot" /\ (SessionStep \/ Disconnect \/ IotStep)
  <2>1. UNCHANGED <<goStatus, dbStatus>> /\ Free(t)
    BY <1>14, IotCalls
  <2>2. Writes(t)' => call'[t].step = "db"
    <3>1. Fresh(call'[t])
      BY <1>14, <2>1, <1>1, <1>2, IotCalls
    <3> QED BY <3>1, <1>3
  <2> QED BY <1>9, <1>14, <2>1, <2>2
<1>15. CASE t = "blue" /\ (ScanStart \/ BlueStep)
  <2>1. UNCHANGED <<goStatus, dbStatus>> /\ Free(t)
    BY <1>15, Zenon DEF ScanStart, BlueStep, ScanRead, ScanDone, At
  <2>2. ~Writes(t)'
    BY <1>15, <2>1, BlueAlone DEF Writes, Free
  <2> QED BY <1>9, <1>15, <2>1, <2>2
<1> QED
  BY <1>10, <1>11, <1>12, <1>13, <1>14, <1>15, Zenon DEF StepOf

-----------------------------------------------------------------------------
(* The theorems *)

LEMMA InitInv == Init => BindInv
<1> SUFFICES ASSUME Init PROVE BindInv
  OBVIOUS
<1>1. FirstStatus \in Statuses
  BY StatusAssumption DEF Statuses, INIT_STATUS, LOCAL_UNBIND_STATUS
<1>2. DataOK
  BY <1>1, StatusFacts, IdFacts, BoundAssumption, SMT DEF Init, DataOK
<1>3. PcOK
  BY DEF Init, PcOK, Start, Places, Threads
<1>4. CallOK
  BY CallsMade DEF Init, CallOK
<1>5. FlagsOK
  BY Zenon DEF Init, FlagsOK
<1>6. \A t \in Threads : pc[t] \in Idle /\ call[t].to = "none"
  BY CallKinds DEF Init, Start, Idle, Threads
<1>7. pc["iot"] = "wait" /\ pc["main"] = "loop" /\ pc["qt"] = "run"
  BY DEF Init, Start, Threads
<1>8. told = Unset /\ restaurantID = Unset /\ toReport = {} /\ sent = {}
      /\ deltas = <<>> /\ reported = Unset
  BY Zenon DEF Init
<1>9. goStatus = dbStatus
  BY DEF Init
<1>10. NamedInv
  BY <1>7, <1>8 DEF NamedInv
<1>11. ToldInv
  BY <1>6, <1>7, <1>8, RestaurantAssumption DEF ToldInv
<1>12. OneBusy
  BY <1>6 DEF OneBusy, Busy, Free
<1>13. NewInv
  BY <1>6, <1>7, <1>9 DEF NewInv, Writes
<1>14. BoundInv /\ ClearInv
  BY <1>6, <1>7 DEF BoundInv, ClearInv, Writes, Threads
<1>15. AgreeInv
  BY <1>6, <1>7, <1>9 DEF AgreeInv, Writes
<1> QED
  BY <1>2, <1>3, <1>4, <1>5, <1>10, <1>11, <1>12, <1>13, <1>14, <1>15, Zenon
     DEF BindInv, TypeOK, WordInv, CopyInv

(* A step that is no thread's keeps what is said of the status. *)
LEMMA NextAround ==
  ASSUME WordInv, CopyInv, WorldStep \/ Restart \/ UNCHANGED vars
  PROVE  WordInv' /\ CopyInv'
<1> USE DEF goVars, dbVars, cVars, getVars, history
<1>1. CASE WorldStep \/ UNCHANGED vars
  <2>1. UNCHANGED <<goStatus, dbStatus, cStatus, getShadowFlag, refused,
                  told, pc, call, overlap>>
    BY <1>1, Zenon DEF WorldStep, GiveSn, Remove, Apply, vars
  <2> QED
    BY <2>1 DEF WordInv, CopyInv, OneBusy, NewInv, BoundInv, ClearInv, AgreeInv,
       Busy, Free, Writes, Clears
<1>2. CASE Restart
  <2>1. \A t \in Threads : pc'[t] \in Idle /\ call'[t].to = "none"
    BY <1>2, CallKinds DEF Restart, Start, Idle, Threads
  <2>2. pc'["iot"] = "wait" /\ pc'["main"] = "loop" /\ pc'["qt"] = "run"
    BY <1>2 DEF Restart, Start, Threads
  <2>3. goStatus' = dbStatus /\ dbStatus' = dbStatus
    BY <1>2, Zenon DEF Restart
  <2>4. OneBusy'
    BY <2>1 DEF OneBusy, Busy, Free
  <2>5. NewInv'
    BY <2>1, <2>2, <2>3 DEF NewInv, Writes
  <2>6. BoundInv' /\ ClearInv'
    BY <2>1, <2>2 DEF BoundInv, ClearInv, Writes, Threads
  <2>7. AgreeInv'
    BY <2>1, <2>2, <2>3 DEF AgreeInv, Writes
  <2> QED BY <2>4, <2>5, <2>6, <2>7 DEF WordInv, CopyInv
<1> QED BY <1>1, <1>2

LEMMA NextWord ==
  ASSUME PcOK, CallOK, NamedInv, ToldInv, WordInv, CopyInv, [Next]_vars
  PROVE  WordInv' /\ CopyInv'
<1>1. CASE WorldStep \/ Restart \/ UNCHANGED vars
  BY <1>1, NextAround
<1>2. ASSUME NEW t \in Threads, StepOf(t), ~overlap'
      PROVE  /\ OneBusy' /\ NewInv' /\ BoundInv' /\ ClearInv'
             /\ ~DbFaults => AgreeInv'
  <2>1. ~overlap /\ OneBusy'
    BY <1>2, NextBusy DEF WordInv
  <2>2. OneBusy /\ NewInv /\ BoundInv /\ ClearInv
    BY <2>1 DEF WordInv
  <2>3. NewInv'
    BY <1>2, <2>1, <2>2, NextNew
  <2>4. BoundInv'
    BY <1>2, <2>1, <2>2, NextBound
  <2>5. ClearInv'
    BY <1>2, <2>1, <2>2, NextClear
  <2>6. ~DbFaults => AgreeInv'
    BY <1>2, <2>1, <2>2, NextAgree DEF CopyInv
  <2> QED BY <2>1, <2>3, <2>4, <2>5, <2>6
<1>3. CASE \E t \in Threads : StepOf(t)
  BY <1>2, <1>3 DEF WordInv, CopyInv
<1> QED BY <1>1, <1>3, StepKinds

(* The whole invariant: the types, what the device knows of its canteen,   *)
(* and what holds of the status as long as the threads meet one by one.    *)
THEOREM BindInvariant == Spec => []BindInv
<1>1. BindInv /\ [Next]_vars => BindInv'
  <2> SUFFICES ASSUME BindInv, [Next]_vars PROVE BindInv'
    OBVIOUS
  <2>1. DataOK /\ PcOK /\ CallOK /\ FlagsOK
    BY DEF BindInv, TypeOK
  <2>2. NamedInv /\ ToldInv /\ WordInv /\ CopyInv
    BY DEF BindInv
  <2>3. PcOK' /\ CallOK' /\ DataOK' /\ FlagsOK'
    BY <2>1, <2>2, NextPc, NextCall, NextData, NextFlags
  <2>4. NamedInv'
    BY <2>1, <2>2, NextNamed
  <2>5. ToldInv'
    BY <2>1, <2>2, NextTold
  <2>6. WordInv' /\ CopyInv'
    BY <2>1, <2>2, NextWord
  <2> QED BY <2>3, <2>4, <2>5, <2>6 DEF BindInv, TypeOK
<1> QED BY <1>1, InitInv, PTL DEF Spec

(* The shadow, the copies of the status, the flags and the calls under way *)
(* keep their types.                                                       *)
THEOREM TypeCorrect == Spec => []TypeOK
<1>1. BindInv => TypeOK
  BY DEF BindInv
<1> QED BY <1>1, BindInvariant, PTL

(* A device is not bound after the shadow has said that it is not.  Where  *)
(* the database says bound, the IoT thread's copy does, so the handler of  *)
(* the word clears it; and from then until the write of the cleared status *)
(* is good no other thread writes, because none meets it.                  *)
THEOREM LastWordWinsHolds == Spec => []LastWordWins
<1>1. BindInv => LastWordWins
  <2> SUFFICES ASSUME BindInv, Quiet, At("iot", "run"), ~getShadowFlag, ~overlap, ~refused,
                      dbStatus = SITE_BIND_OK_STATUS, told = NoRestaurant
               PROVE  FALSE
    BY DEF LastWordWins
  <2>1. ClearInv
    BY DEF BindInv, WordInv
  <2>2. ~Clears("iot") /\ pc["iot"] = "run"
    BY DEF At, Free, Clears, Writes
  <2> QED BY <2>1, <2>2 DEF ClearInv
<1> QED BY <1>1, BindInvariant, PTL

(* Go and the database agree on the status when the threads are at rest,   *)
(* as long as every write of the database is good.                         *)
THEOREM CopiesAgreeHolds == ~DbFaults => (Spec => []CopiesAgree)
<1> SUFFICES ASSUME ~DbFaults PROVE Spec => []CopiesAgree
  OBVIOUS
<1>1. BindInv => CopiesAgree
  <2> SUFFICES ASSUME BindInv, Quiet, ~overlap PROVE goStatus = dbStatus
    BY DEF CopiesAgree
  <2>1. AgreeInv
    BY DEF BindInv, CopyInv
  <2>2. \A t \in Threads : ~Writes(t) /\ pc[t] \in Idle
    BY DEF Quiet, Busy, Free, Writes
  <2>3. pc["main"] # "init"
    BY <2>2 DEF Threads, Idle
  <2> QED BY <2>1, <2>2, <2>3 DEF AgreeInv
<1> QED BY <1>1, BindInvariant, PTL
=============================================================================
