--------------------------- MODULE MenuSyncProofs ---------------------------
(* Theorems about MenuSync, for every value of its constants.              *)
EXTENDS MenuSync, TLAPS

-----------------------------------------------------------------------------
LEMMA InitType == Init => TypeOK
<1>1. Init => DataOK
  BY BoundAssumption DEF Init, DataOK, NoCall, Threads, Versions
<1>2. Init => PcOK
  BY DEF Init, PcOK, Start, Threads, Places, MainPlaces, IotPlaces, QtPlaces
<1>3. Init => FlagOK
  BY Zenon DEF Init, FlagOK
<1>4. QED
  BY <1>1, <1>2, <1>3 DEF TypeOK

LEMMA NextData == DataOK /\ [Next]_vars => DataOK'
<1> SUFFICES ASSUME DataOK, [Next]_vars PROVE DataOK'
  OBVIOUS
<1>0. "main" \in Threads /\ "iot" \in Threads /\ "qt" \in Threads
  BY DEF Threads
<1> USE BoundAssumption, <1>0 DEF DataOK, Versions, Call, Update, NoCall,
        Sent, shadowVars, cVars, dbVars, goVars, counts
<1>1. CASE \E t \in Threads : CallStep(t)
  <2>1. PICK t \in Threads : WriteDb(t) \/ TellGo(t) \/ WriteDbFails(t)
    BY <1>1 DEF CallStep
  <2>2. /\ call[t] \in [step : {"none", "db", "go"}, new : 0..MaxVersion,
                        cur : 0..MaxVersion]
        /\ call' \in [Threads -> [step : {"none", "db", "go"},
                     new : 0..MaxVersion, cur : 0..MaxVersion]]
    BY <2>1 DEF WriteDb, TellGo, WriteDbFails
  <2>3. QED
    BY <2>1, <2>2 DEF WriteDb, TellGo, WriteDbFails
<1>2. CASE CheckMenu \/ ClearMenu \/ Fetch \/ FetchFails \/ Insert
  <2>1. CASE CheckMenu \/ FetchFails
    BY <2>1 DEF CheckMenu, FetchFails
  <2>2. CASE ClearMenu
    BY <2>2 DEF ClearMenu
  <2>3. CASE Fetch
    BY <2>3 DEF Fetch
  <2>4. CASE Insert
    BY <2>4 DEF Insert
  <2>5. QED
    BY <1>2, <2>1, <2>2, <2>3, <2>4
<1>3. CASE Save \/ Store \/ Adopt \/ AskReport
  <2>1. CASE Save
    BY <2>1 DEF Save, SaveAt
  <2>2. CASE Store
    BY <2>2 DEF Store, SaveAt
  <2>3. CASE Adopt
    BY <2>3 DEF Adopt
  <2>4. CASE AskReport
    BY <2>4 DEF AskReport
  <2>5. QED
    BY <1>3, <2>1, <2>2, <2>3, <2>4
<1>4. CASE SessionStep
  BY <1>4 DEF SessionStep, Connect, Reconnect, ShadowParsed
<1>5. CASE DeltaArrives
  BY <1>5 DEF DeltaArrives
<1>6. CASE ShadowArrives
  BY <1>6 DEF ShadowArrives
<1>7. CASE Report
  BY <1>7 DEF Report
<1>8. CASE Acknowledged \/ TimedOut
  <2>1. CASE Acknowledged
    BY <2>1 DEF Acknowledged
  <2>2. CASE TimedOut
    BY <2>2 DEF TimedOut
  <2>3. QED
    BY <1>8, <2>1, <2>2
<1>9. CASE \E t \in {"iot", "qt"} : Unbind(t) \/ UnbindStep(t)
  <2>1. PICK t \in {"iot", "qt"} : Unbind(t) \/ Zero(t) \/ Wipe(t)
    BY <1>9 DEF UnbindStep
  <2>2. t \in Threads
    BY DEF Threads
  <2>3. CASE Unbind(t)
    BY <2>3 DEF Unbind
  <2>4. CASE Zero(t)
    BY <2>2, <2>4 DEF Zero
  <2>5. CASE Wipe(t)
    BY <2>5 DEF Wipe
  <2>6. QED
    BY <2>1, <2>3, <2>4, <2>5
<1>10. CASE Ask \/ AskFails \/ Rebind
  <2>1. CASE Ask
    BY <2>1 DEF Ask
  <2>2. CASE AskFails
    BY <2>2 DEF AskFails
  <2>3. CASE Rebind
    BY <2>3 DEF Rebind
  <2>4. QED
    BY <1>10, <2>1, <2>2, <2>3
<1>11. CASE Announce
  BY <1>11 DEF Announce
<1>12. CASE \E v \in Versions : Apply(v)
  BY <1>12 DEF Apply
<1>13. CASE Disconnect
  BY <1>13 DEF Disconnect
<1>14. CASE Restart
  BY <1>14 DEF Restart
<1>15. CASE UNCHANGED vars
  BY <1>15 DEF vars
<1>16. QED
  BY <1>1, <1>2, <1>3, <1>4, <1>5, <1>6, <1>7, <1>8, <1>9, <1>10, <1>11,
     <1>12, <1>13, <1>14, <1>15 DEF Next, MainStep, IotStep

LEMMA NextPc == PcOK /\ [Next]_vars => PcOK'
<1> SUFFICES ASSUME PcOK, [Next]_vars PROVE PcOK'
  OBVIOUS
<1> USE DEF PcOK, Threads, Places, MainPlaces, IotPlaces, QtPlaces, GoTo
<1>1. CASE UNCHANGED pc
  BY <1>1
<1>2. CASE CheckMenu \/ ClearMenu \/ Fetch \/ FetchFails \/ Insert
  BY <1>2 DEF CheckMenu, ClearMenu, Fetch, FetchFails, Insert
<1>3. CASE Save \/ Store \/ Adopt \/ AskReport
  BY <1>3 DEF Save, Store, SaveAt, Adopt, AskReport
<1>4. CASE SessionStep \/ ShadowArrives
  BY <1>4, <1>1 DEF SessionStep, Connect, Reconnect, ShadowParsed, ShadowArrives
<1>5. CASE \E t \in {"iot", "qt"} : Unbind(t) \/ Zero(t)
  BY <1>5 DEF Unbind, Zero
<1>6. CASE \E t \in {"iot", "qt"} : Wipe(t)
  BY <1>6 DEF Wipe
<1>7. CASE Ask \/ AskFails
  BY <1>7 DEF Ask, AskFails
<1>8. CASE Restart
  BY <1>8 DEF Restart, Start
<1>9. CASE \/ \E t \in Threads : CallStep(t)
           \/ DeltaArrives \/ Report \/ Acknowledged \/ TimedOut \/ Rebind
           \/ Announce \/ Disconnect \/ \E v \in Versions : Apply(v)
           \/ UNCHANGED vars
  BY <1>9, <1>1, Zenon DEF CallStep, WriteDb, TellGo, WriteDbFails,
     DeltaArrives, Report, Acknowledged, TimedOut, Rebind, Announce,
     Disconnect, Apply, vars
<1>10. QED
  BY <1>2, <1>3, <1>4, <1>5, <1>6, <1>7, <1>8, <1>9
     DEF Next, MainStep, IotStep, UnbindStep

LEMMA NextFlag == FlagOK /\ [Next]_vars => FlagOK'
<1> SUFFICES ASSUME FlagOK, [Next]_vars PROVE FlagOK'
  OBVIOUS
<1>1. CASE \E t \in Threads : CallStep(t)
  BY <1>1, Zenon DEF FlagOK, CallStep, WriteDb, TellGo, WriteDbFails,
     shadowVars, cVars, dbVars, goVars, counts
<1>2. CASE MainStep
  <2>1. CASE CheckMenu \/ ClearMenu \/ Fetch \/ FetchFails \/ Insert
    BY <2>1, Zenon DEF FlagOK, CheckMenu, ClearMenu, Fetch, FetchFails, Insert,
       TakeUp, shadowVars, cVars, dbVars, goVars, counts
  <2>2. CASE Save \/ Adopt \/ Store \/ AskReport
    BY <2>2, Zenon DEF FlagOK, Save, Store, SaveAt, Adopt, AskReport,
       shadowVars, cVars, dbVars, goVars, counts
  <2>3. QED
    BY <1>2, <2>1, <2>2 DEF MainStep
<1>3. CASE IotStep
  <2>1. CASE SessionStep \/ DeltaArrives \/ ShadowArrives
    BY <2>1, Zenon DEF FlagOK, SessionStep, Connect, Reconnect, ShadowParsed,
       DeltaArrives, ShadowArrives, TakeUp, shadowVars, cVars, dbVars, goVars,
       counts
  <2>2. CASE Report \/ Acknowledged \/ TimedOut
    BY <2>2, Zenon DEF FlagOK, Report, Acknowledged, TimedOut, TakeUp,
       shadowVars, cVars, dbVars, goVars, counts
  <2>3. QED
    BY <1>3, <2>1, <2>2 DEF IotStep
<1>4. CASE \E t \in {"iot", "qt"} : Unbind(t) \/ UnbindStep(t)
  BY <1>4, Zenon DEF FlagOK, Unbind, UnbindStep, Zero, Wipe, TakeUp,
     shadowVars, cVars, dbVars, goVars, counts
<1>5. CASE Ask \/ AskFails \/ Rebind
  BY <1>5, Zenon DEF FlagOK, Ask, AskFails, Rebind, shadowVars, cVars, dbVars,
     goVars, counts
<1>6. CASE Announce \/ Disconnect \/ Restart \/ \E v \in Versions : Apply(v)
  BY <1>6, Zenon DEF FlagOK, Announce, Apply, Disconnect, Restart,
     shadowVars, cVars, dbVars, goVars, counts
<1>7. CASE UNCHANGED vars
  BY <1>7, Zenon DEF FlagOK, vars, shadowVars, cVars, dbVars, goVars, counts
<1>8. QED
  BY <1>1, <1>2, <1>3, <1>4, <1>5, <1>6, <1>7 DEF Next

(* Versions, messages, flags, places and calls keep their types.           *)
THEOREM TypeCorrect == Spec => []TypeOK
<1>1. TypeOK /\ [Next]_vars => TypeOK'
  BY NextData, NextPc, NextFlag DEF TypeOK
<1>2. QED
  BY InitType, <1>1, PTL DEF Spec

-----------------------------------------------------------------------------
(* The versions                                                            *)

LEMMA NextVersions == DataOK /\ VersionInv /\ [Next]_vars => VersionInv'
<1> SUFFICES ASSUME DataOK, VersionInv, [Next]_vars PROVE VersionInv'
  OBVIOUS
<1>0. "main" \in Threads /\ "iot" \in Threads /\ "qt" \in Threads
  BY DEF Threads
<1> USE <1>0 DEF DataOK, VersionInv, Versions, Call, Update, NoCall,
        shadowVars, cVars, dbVars, goVars, counts
<1>1. CASE \E t \in Threads : CallStep(t)
  <2>1. PICK t \in Threads : WriteDb(t) \/ TellGo(t) \/ WriteDbFails(t)
    BY <1>1 DEF CallStep
  <2>2. CASE WriteDb(t)
    BY <2>2 DEF WriteDb
  <2>3. CASE TellGo(t)
    BY <2>3 DEF TellGo
  <2>4. CASE WriteDbFails(t)
    BY <2>4 DEF WriteDbFails
  <2>5. QED
    BY <2>1, <2>2, <2>3, <2>4
<1>2. CASE Save \/ Store
  <2>1. CASE Save
    BY <2>1 DEF Save, SaveAt
  <2>2. CASE Store
    BY <2>2 DEF Store, SaveAt
  <2>3. QED
    BY <1>2, <2>1, <2>2
<1>3. CASE Adopt
  BY <1>3 DEF Adopt
<1>4. CASE Connect
  BY <1>4 DEF Connect
<1>5. CASE DeltaArrives
  BY <1>5 DEF DeltaArrives
<1>6. CASE ShadowArrives
  BY <1>6 DEF ShadowArrives
<1>7. CASE \E t \in {"iot", "qt"} : Zero(t)
  <2>1. PICK t \in {"iot", "qt"} : Zero(t)
    BY <1>7
  <2>2. t \in Threads
    BY DEF Threads
  <2>3. QED
    BY <2>1, <2>2 DEF Zero
<1>8. CASE Ask
  BY <1>8 DEF Ask
<1>9. CASE Announce
  BY <1>9 DEF Announce
<1>10. CASE \E v \in Versions : Apply(v)
  BY <1>10 DEF Apply
<1>11. CASE Disconnect
  BY <1>11 DEF Disconnect
<1>12. CASE Restart
  BY <1>12 DEF Restart
<1>13. CASE UNCHANGED <<wanted, deltas, cNew, cCur, dbVars, goVars, call>>
  BY <1>13
<1>14. CASE \/ CheckMenu \/ ClearMenu \/ Fetch \/ FetchFails \/ Insert
            \/ AskReport \/ Reconnect \/ ShadowParsed \/ Report
            \/ Acknowledged \/ TimedOut \/ AskFails \/ Rebind
            \/ \E t \in {"iot", "qt"} : Unbind(t) \/ Wipe(t)
            \/ UNCHANGED vars
  BY <1>13, <1>14, Zenon DEF CheckMenu, ClearMenu, Fetch, FetchFails, Insert,
     AskReport, Reconnect, ShadowParsed, Report, Acknowledged, TimedOut,
     AskFails, Rebind, Unbind, Wipe, vars
<1>15. QED
  BY <1>1, <1>2, <1>3, <1>4, <1>5, <1>6, <1>7, <1>8, <1>9, <1>10, <1>11,
     <1>12, <1>14 DEF Next, MainStep, IotStep, SessionStep, UnbindStep

LEMMA NextPlaces == TypeOK /\ PlaceInv /\ [Next]_vars => PlaceInv'
<1> SUFFICES ASSUME TypeOK, PlaceInv, [Next]_vars PROVE PlaceInv'
  OBVIOUS
<1>0. "main" \in Threads /\ "iot" \in Threads /\ "qt" \in Threads
  BY DEF Threads
<1> USE <1>0 DEF TypeOK, DataOK, PcOK, PlaceInv, Free, At, GoTo, Call, Update,
        NoCall
<1>1. CASE \E t \in Threads : CallStep(t)
  BY <1>1 DEF CallStep, WriteDb, TellGo, WriteDbFails
<1>2. CASE CheckMenu \/ ClearMenu \/ Fetch \/ FetchFails \/ Insert
  BY <1>2 DEF CheckMenu, ClearMenu, Fetch, FetchFails, Insert
<1>3. CASE Save \/ Store
  BY <1>3 DEF Save, Store, SaveAt
<1>4. CASE Adopt \/ AskReport
  BY <1>4 DEF Adopt, AskReport
<1>5. CASE Connect \/ Reconnect
  BY <1>5 DEF Connect, Reconnect
<1>6. CASE ShadowParsed
  BY <1>6 DEF ShadowParsed
<1>7. CASE DeltaArrives
  BY <1>7 DEF DeltaArrives
<1>8. CASE ShadowArrives
  BY <1>8 DEF ShadowArrives
<1>9. CASE \E t \in {"iot", "qt"} : Unbind(t) \/ Zero(t)
  BY <1>9 DEF Unbind, Zero
<1>10. CASE \E t \in {"iot", "qt"} : Wipe(t)
  BY <1>10 DEF Wipe
<1>11. CASE Ask \/ AskFails
  BY <1>11 DEF Ask, AskFails
<1>12. CASE Restart
  BY <1>12 DEF Restart
<1>13. CASE UNCHANGED <<pc, call>>
  BY <1>13
<1>14. CASE \/ Report \/ Acknowledged \/ TimedOut \/ Rebind \/ Announce
            \/ Disconnect \/ \E v \in Versions : Apply(v) \/ UNCHANGED vars
  BY <1>13, <1>14, Zenon DEF Report, Acknowledged, TimedOut, Rebind, Announce,
     Disconnect, Apply, vars
<1>15. QED
  BY <1>1, <1>2, <1>3, <1>4, <1>5, <1>6, <1>7, <1>8, <1>9, <1>10, <1>11,
     <1>12, <1>14 DEF Next, MainStep, IotStep, SessionStep, UnbindStep

-----------------------------------------------------------------------------
(* As long as no two threads have been at the versions at the same time    *)

Alone == SoloInv /\ CallInv /\ MainInv /\ GoInv /\ ZeroInv /\ EmptyInv

\* The history never forgets an overlap.
LEMMA NoOverlapBefore ==
  ASSUME FlagOK, [Next]_vars, ~overlap'
  PROVE  ~overlap
BY Zenon DEF FlagOK, Next, CallStep, WriteDb, TellGo, WriteDbFails, MainStep,
   CheckMenu, ClearMenu, Fetch, FetchFails, Insert, Save, Store, SaveAt, Adopt,
   AskReport, IotStep, SessionStep, Connect, Reconnect, ShadowParsed,
   DeltaArrives, ShadowArrives, Report, Acknowledged, TimedOut, Unbind,
   UnbindStep, Zero, Wipe, Ask, AskFails, Rebind, Announce, Apply, Disconnect,
   Restart, TakeUp, vars, shadowVars, cVars, dbVars, goVars, counts

\* A thread that takes up work without an overlap finds the others idle.
LEMMA TakesAlone ==
  ASSUME NEW t \in Threads, TakeUp(t), ~overlap', overlap \in BOOLEAN
  PROVE  \A u \in Threads \ {t} : ~Busy(u)
BY Zenon DEF TakeUp

LEMMA StepAlone ==
  ASSUME TypeOK, VersionInv, PlaceInv, Alone, CurrentIsFetched, ~overlap,
         [Next]_vars, TypeOK', VersionInv', ~overlap'
  PROVE  (Alone /\ CurrentIsFetched)'
<1> USE DEF TypeOK, DataOK, PcOK, FlagOK, Versions, VersionInv, PlaceInv,
        Alone, SoloInv, CallInv, MainInv, GoInv, ZeroInv, EmptyInv,
        CurrentIsFetched, Busy, Free, At, GoTo, Call, Update, NoCall,
        Unbinders, Threads, MainPlaces, IotPlaces, QtPlaces, Places,
        shadowVars, cVars, dbVars, goVars, counts
<1>1. ASSUME NEW t \in Threads, WriteDb(t) PROVE (Alone /\ CurrentIsFetched)'
  BY <1>1 DEF WriteDb
<1>2. ASSUME NEW t \in Threads, TellGo(t) PROVE (Alone /\ CurrentIsFetched)'
  BY <1>2 DEF TellGo
<1>3. ASSUME NEW t \in Threads, WriteDbFails(t) PROVE (Alone /\ CurrentIsFetched)'
  BY <1>3 DEF WriteDbFails
<1>4. ASSUME NEW t \in Unbinders, Unbind(t) PROVE (Alone /\ CurrentIsFetched)'
  <2>1. /\ TakeUp(t) /\ t \in Threads
        /\ \A u \in Threads \ {t} : pc'[u] = pc[u] /\ call'[u] = call[u]
    BY <1>4 DEF Unbind
  <2>2. \A u \in Threads \ {t} : ~Busy(u) /\ ~Busy(u)'
    <3>1. \A u \in Threads \ {t} : ~Busy(u)
      BY ONLY <2>1, ~overlap', TypeOK, TakesAlone DEF TypeOK, FlagOK
    <3>2. QED
      BY ONLY <2>1, <3>1 DEF Busy, Free
  <2>3. SoloInv'
    BY ONLY <2>2 DEF SoloInv
  <2>4. CallInv' /\ MainInv'
    BY <1>4 DEF Unbind
  <2>5. GoInv' /\ ZeroInv' /\ EmptyInv' /\ CurrentIsFetched'
    BY <1>4, <2>2 DEF Unbind
  <2>6. QED
    BY ONLY <2>3, <2>4, <2>5 DEF Alone
<1>5. ASSUME NEW t \in Unbinders, Zero(t) PROVE (Alone /\ CurrentIsFetched)'
  BY <1>5 DEF Zero
<1>6. ASSUME NEW t \in Unbinders, Wipe(t) PROVE (Alone /\ CurrentIsFetched)'
  BY <1>6 DEF Wipe
<1>7. CASE CheckMenu
  <2>1. /\ TakeUp("main") /\ "main" \in Threads
        /\ call' = call /\ pc' = [pc EXCEPT !["main"] = "clear"]
        /\ goNew > goCur /\ bound
    BY <1>7 DEF CheckMenu
  <2>2. \A u \in Unbinders : ~Busy(u) /\ ~Busy(u)'
    <3>1. \A u \in Threads \ {"main"} : ~Busy(u)
      BY ONLY <2>1, ~overlap', TypeOK, TakesAlone DEF TypeOK, FlagOK
    <3>2. QED
      BY ONLY <2>1, <3>1, pc \in [Threads -> Places] DEF Busy, Free, Unbinders, Threads
  <2>3. SoloInv'
    BY ONLY <2>2 DEF SoloInv, Unbinders, Threads
  <2>4. CallInv' /\ MainInv'
    BY <1>7, <2>2 DEF CheckMenu
  <2>5. GoInv' /\ ZeroInv' /\ EmptyInv' /\ CurrentIsFetched'
    BY <1>7, <2>2 DEF CheckMenu
  <2>6. QED
    BY ONLY <2>3, <2>4, <2>5 DEF Alone
<1>8. CASE ClearMenu
  BY <1>8 DEF ClearMenu
<1>9. CASE Fetch
  BY <1>9 DEF Fetch
<1>10. CASE FetchFails
  BY <1>10 DEF FetchFails
<1>11. CASE Insert
  BY <1>11 DEF Insert
<1>12. CASE Save
  BY <1>12 DEF Save, SaveAt
<1>13. CASE Adopt
  BY <1>13 DEF Adopt
<1>14. CASE Store
  BY <1>14 DEF Store, SaveAt
<1>15. CASE AskReport
  BY <1>15 DEF AskReport
<1>16. CASE Connect
  BY <1>16 DEF Connect
<1>17. CASE Reconnect
  BY <1>17 DEF Reconnect
<1>18. CASE ShadowParsed
  BY <1>18 DEF ShadowParsed
<1>19. CASE DeltaArrives
  BY <1>19 DEF DeltaArrives, TakeUp
<1>20. CASE ShadowArrives
  BY <1>20 DEF ShadowArrives, TakeUp
<1>21. CASE Report
  BY <1>21 DEF Report
<1>22. CASE Acknowledged
  BY <1>22 DEF Acknowledged
<1>23. CASE TimedOut
  BY <1>23 DEF TimedOut
<1>24. CASE Ask
  BY <1>24 DEF Ask
<1>25. CASE AskFails
  BY <1>25 DEF AskFails
<1>26. CASE Rebind
  BY <1>26 DEF Rebind
<1>27. CASE Announce
  BY <1>27 DEF Announce
<1>28. CASE Disconnect
  BY <1>28 DEF Disconnect
<1>29. CASE Restart
  BY <1>29 DEF Restart, Start
<1>30. CASE \E v \in Versions : Apply(v)
  BY <1>30 DEF Apply
<1>31. CASE UNCHANGED vars
  BY <1>31 DEF vars
<1>32. QED
  BY ONLY [Next]_vars, <1>1, <1>2, <1>3, <1>4, <1>5, <1>6, <1>7, <1>8, <1>9, <1>10, <1>11, <1>12, <1>13, <1>14, <1>15, <1>16, <1>17, <1>18, <1>19, <1>20, <1>21, <1>22, <1>23, <1>24, <1>25, <1>26, <1>27, <1>28, <1>29, <1>30, <1>31
     DEF Next, CallStep, MainStep, IotStep, SessionStep, UnbindStep, Unbinders

IInv == TypeOK /\ VersionInv /\ PlaceInv /\ AloneInv

LEMMA InitInv == Init => IInv
<1> SUFFICES ASSUME Init PROVE IInv
  OBVIOUS
<1>1. TypeOK
  BY InitType
<1>2. VersionInv /\ PlaceInv
  BY DEF Init, VersionInv, PlaceInv, NoCall, Free, Threads
<1>3. AloneInv
  BY DEF Init, AloneInv, SoloInv, CallInv, MainInv, GoInv, ZeroInv, EmptyInv,
     CurrentIsFetched, Busy, Free, NoCall, Start, Threads, Unbinders
<1>4. QED
  BY <1>1, <1>2, <1>3 DEF IInv

LEMMA NextInv == IInv /\ [Next]_vars => IInv'
<1> SUFFICES ASSUME IInv, [Next]_vars PROVE IInv'
  OBVIOUS
<1>1. TypeOK'
  BY NextData, NextPc, NextFlag DEF IInv, TypeOK
<1>2. VersionInv' /\ PlaceInv'
  BY NextVersions, NextPlaces DEF IInv, TypeOK
<1>3. AloneInv'
  <2> SUFFICES ASSUME ~overlap' PROVE (Alone /\ CurrentIsFetched)'
    BY DEF AloneInv, Alone
  <2>1. ~overlap
    BY NoOverlapBefore DEF IInv, TypeOK
  <2>2. QED
    BY <1>1, <1>2, <2>1, StepAlone DEF IInv, AloneInv, Alone
<1>4. QED
  BY <1>1, <1>2, <1>3 DEF IInv

(* The current version of the database is one that was fetched, unless two *)
(* threads overlapped: httpclient.go, writeplateprocess.go, msgTask.c.     *)
THEOREM CurrentIsFetchedHolds == Spec => []CurrentIsFetched
<1>1. IInv => CurrentIsFetched
  BY Zenon DEF IInv, AloneInv, CurrentIsFetched
<1>2. QED
  BY InitInv, NextInv, <1>1, PTL DEF Spec

(* A device left unbound has no menu: unbind_clear_menu_db.                *)
THEOREM UnboundIsEmptyHolds == Spec => []UnboundIsEmpty
<1>1. IInv => UnboundIsEmpty
  <2> SUFFICES ASSUME IInv, ~overlap, restarts = 0, Quiet, ~bound
               PROVE  menuDb = 0
    BY DEF UnboundIsEmpty
  <2>1. \A t \in Unbinders : pc[t] \notin {"zero", "wipe"}
    BY DEF Quiet, Busy, Unbinders, Threads
  <2>2. QED
    BY <2>1 DEF IInv, AloneInv, EmptyInv
<1>2. QED
  BY InitInv, NextInv, <1>1, PTL DEF Spec

=============================================================================
