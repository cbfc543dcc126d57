--------------------------- MODULE OtaUpdateProofs ---------------------------
(***************************************************************************)
(* Proofs about OtaUpdate: the values keep their types, a job that the     *)
(* service holds as succeeded has been installed, and one that has been    *)
(* installed is neither reported as failed nor fetched again.              *)
(***************************************************************************)
EXTENDS OtaUpdate, WellFoundedInduction, SequenceTheorems, TLAPS

(* A set of naturals that is not empty has a least element. *)
LEMMA Least ==
  ASSUME NEW S \in SUBSET Nat, S # {}
  PROVE  \E x \in S : \A y \in S : x <= y
<1> DEFINE R == OpToRel(<, Nat)
<1>1. IsWellFoundedOn(R, Nat)
  BY NatLessThanWellFounded, Zenon
<1>2. \A a, b : <<a, b>> \in R <=> a \in Nat /\ b \in Nat /\ a < b
  BY Zenon DEF OpToRel
<1> HIDE DEF R
<1>3. PICK x \in S : \A y \in S : ~(<<y, x>> \in R)
  BY <1>1, WFMin
<1>4. \A y \in S : ~(y < x)
  BY <1>2, <1>3, Zenon
<1>5. \A y \in S : x <= y
  BY <1>4, SMT
<1> QED BY <1>5

(* The job that is offered next is one of the queue, or there is none. *)
LEMMA FirstTyped ==
  ASSUME NEW st
  PROVE  First(st) \in Jobs \cup {NoJob}
<1>1. CASE Queued(st) = {}
  BY <1>1 DEF First
<1>2. CASE Queued(st) # {}
  <2>1. Queued(st) \subseteq Jobs
    BY DEF Queued
  <2>2. Queued(st) \in SUBSET Nat
    BY <2>1, BoundAssumption, SMT DEF Jobs
  <2>3. \E j \in Queued(st) : \A k \in Queued(st) : j <= k
    BY <1>2, <2>2, Least
  <2>4. First(st) \in Queued(st)
    BY <1>2, <2>3, Zenon DEF First
  <2> QED BY <2>1, <2>4
<1> QED BY <1>1, <1>2

(* What the types of jobs and versions have to do with each other. *)
LEMMA Kinds ==
  /\ NoJob \notin Jobs
  /\ Jobs \subseteq Versions /\ 0 \in Versions /\ NoVersion \in Versions
  /\ NoVersion \notin 0..MaxJobs
  /\ NoVersion # NoJob /\ NoVersion \notin Jobs
BY BoundAssumption, SMT DEF Jobs, NoJob, Versions, NoVersion

(* The messages of the service are messages. *)
LEMMA MessagesTyped ==
  /\ Accepted \in Messages /\ Rejected \in Messages
  /\ \A j \in Jobs \cup {NoJob} : NextIs(j) \in Messages /\ Pending(j) \in Messages
  /\ \A m \in Messages : m.job \in Jobs \cup {NoJob}
BY SMT DEF Messages, Accepted, Rejected, NextIs, Pending

-----------------------------------------------------------------------------
(* What is published reaches the queue of messages to the device. *)
LEMMA PublishTyped ==
  ASSUME NEW ms \in Seq(Messages), toDev \in Seq(Messages), Publish(ms)
  PROVE  toDev' \in Seq(Messages)
<1>1. toDev \o ms \in Seq(Messages)
  BY ConcatProperties
<1> QED BY <1>1 DEF Publish

(* An update leaves a job with a state, and the answers are messages. *)
LEMMA UpdateTyped ==
  ASSUME DataOK, NEW j, NEW r \in {"succeeded", "failed"}, Update(j, r)
  PROVE  /\ status' \in [Jobs -> {"none", "queued", "succeeded", "failed"}]
         /\ toDev' \in Seq(Messages)
<1> HIDE DEF Messages
<1>1. CASE j \in Queued(status)
  <2>1. status' = [status EXCEPT ![j] = r]
    BY <1>1 DEF Update
  <2>2. status' \in [Jobs -> {"none", "queued", "succeeded", "failed"}]
    <3>1. status \in [Jobs -> {"none", "queued", "succeeded", "failed"}]
      BY DEF DataOK
    <3> QED BY <2>1, <3>1
  <2>3. DEFINE ms == <<Accepted>> \o IF First(status') = NoJob THEN <<>>
                                     ELSE <<NextIs(First(status'))>>
  <2>4. ms \in Seq(Messages)
    <3>1. <<Accepted>> \in Seq(Messages) /\ <<>> \in Seq(Messages)
      BY MessagesTyped, SMT
    <3>2. NextIs(First(status')) \in Messages
      BY FirstTyped, MessagesTyped
    <3>3. <<NextIs(First(status'))>> \in Seq(Messages)
      BY <3>2, SMT
    <3> QED BY <3>1, <3>3, ConcatProperties
  <2>5. Publish(ms)
    BY <1>1 DEF Update
  <2> HIDE DEF ms
  <2> QED BY <2>2, <2>4, <2>5, PublishTyped DEF DataOK
<1>2. CASE j \notin Queued(status)
  <2>1. <<Rejected>> \in Seq(Messages)
    BY MessagesTyped, SMT
  <2>2. status' = status /\ Publish(<<Rejected>>)
    BY <1>2 DEF Update
  <2> QED BY <2>1, <2>2, PublishTyped DEF DataOK
<1> QED BY <1>1, <1>2

(* So does a publication of the device, whether it arrives or not. *)
LEMMA SendTyped ==
  ASSUME DataOK, NEW j, NEW r \in {"succeeded", "failed"}, Send(j, r)
  PROVE  /\ status' \in [Jobs -> {"none", "queued", "succeeded", "failed"}]
         /\ toDev' \in Seq(Messages)
         /\ losses' \in 0..MaxLosses
<1>1. CASE Update(j, r) /\ UNCHANGED losses
  BY <1>1, UpdateTyped DEF DataOK
<1>2. CASE Lost
  <2>1. losses' \in 0..MaxLosses
    BY <1>2, BoundAssumption, SMT DEF Lost, DataOK
  <2> QED BY <1>2, <2>1 DEF Lost, service, DataOK
<1>3. CASE UNCHANGED <<service, losses>>
  BY <1>3 DEF service, DataOK
<1> QED BY <1>1, <1>2, <1>3 DEF Send

(* What a callback takes is a message, and the others stay. *)
LEMMA TakeTyped ==
  ASSUME DataOK, NEW kind, Take(kind)
  PROVE  /\ Head(toDev).job \in Jobs \cup {NoJob}
         /\ toDev' \in Seq(Messages)
         /\ UNCHANGED <<status, session, getShadow, romVersion, romSent,
                        losses, restarts>>
         /\ pc = "run"
<1>1. toDev # <<>> /\ toDev' = Tail(toDev) /\ pc = "run"
  BY DEF Take
<1>2. Head(toDev) \in Messages /\ Tail(toDev) \in Seq(Messages)
  BY <1>1, HeadTailProperties DEF DataOK
<1>3. Head(toDev).job \in Jobs \cup {NoJob}
  BY <1>2, MessagesTyped
<1>4. UNCHANGED <<status, session, getShadow, romVersion, romSent, losses, restarts>>
  BY DEF Take, shadow
<1> QED BY <1>1, <1>2, <1>3, <1>4

-----------------------------------------------------------------------------
(* The types of the data, by groups of steps *)

LEMMA ServiceData ==
  ASSUME DataOK, CreateJob \/ LoseMessage \/ Connect \/ Disconnect \/ Reconnect
  PROVE  DataOK'
<1> HIDE DEF Messages
<1>1. CASE CreateJob
  <2>1. PICK j \in Jobs :
          /\ status' = [status EXCEPT ![j] = "queued"]
          /\ Publish(IF Queued(status) = {} THEN <<NextIs(j)>> ELSE <<>>)
    BY <1>1 DEF CreateJob
  <2>2. status' \in [Jobs -> {"none", "queued", "succeeded", "failed"}]
    <3>1. status \in [Jobs -> {"none", "queued", "succeeded", "failed"}]
      BY DEF DataOK
    <3> QED BY <2>1, <3>1
  <2>3. <<NextIs(j)>> \in Seq(Messages) /\ <<>> \in Seq(Messages)
    <3>1. NextIs(j) \in Messages
      BY MessagesTyped
    <3> QED BY <3>1, SMT
  <2>4. toDev' \in Seq(Messages)
    <3>1. CASE Queued(status) = {}
      <4>1. Publish(<<NextIs(j)>>)
        BY <2>1, <3>1
      <4> QED BY <4>1, <2>3, PublishTyped DEF DataOK
    <3>2. CASE Queued(status) # {}
      <4>1. Publish(<<>>)
        BY <2>1, <3>2
      <4> QED BY <4>1, <2>3, PublishTyped DEF DataOK
    <3> QED BY <3>1, <3>2
  <2> QED BY <1>1, <2>2, <2>4
          DEF CreateJob, DataOK, shadow, db, disk, rom, thread, history
<1>2. CASE LoseMessage
  <2>1. toDev # <<>> /\ toDev' = Tail(toDev)
    BY <1>2 DEF LoseMessage
  <2>2. Head(toDev) \in Messages /\ toDev' \in Seq(Messages)
    BY <2>1, HeadTailProperties DEF DataOK
  <2>3. missed' \in SUBSET (Jobs \cup {NoJob})
    <3>1. Head(toDev).job \in Jobs \cup {NoJob}
      BY <2>2, MessagesTyped
    <3>2. missed \in SUBSET (Jobs \cup {NoJob})
      BY DEF DataOK
    <3>3. missed' = missed \cup IF Head(toDev).kind = "next"
                                THEN {Head(toDev).job} ELSE {}
      BY <1>2 DEF LoseMessage
    <3> QED BY <3>1, <3>2, <3>3
  <2>4. losses' \in 0..MaxLosses
    BY <1>2, BoundAssumption, SMT DEF LoseMessage, DataOK
  <2> QED BY <1>2, <2>2, <2>3, <2>4
          DEF LoseMessage, DataOK, shadow, db, disk, rom, thread
<1>3. CASE Connect
  <2>1. toDev' \in Seq(Messages)
    <3>1. toDev' = <<Pending(First(status)), NextIs(First(status))>>
      BY <1>3 DEF Connect
    <3>2. Pending(First(status)) \in Messages /\ NextIs(First(status)) \in Messages
      BY FirstTyped, MessagesTyped
    <3> QED BY <3>1, <3>2, SMT
  <2>2. session' = "up" /\ devVersion' = softVer
    BY <1>3 DEF Connect
  <2>3. UNCHANGED <<status, romVersion, romSent, db, disk, thread, losses,
                    restarts, history>>
    BY <1>3 DEF Connect
  <2> QED BY <2>1, <2>2, <2>3 DEF DataOK, db, disk, thread, history
<1>4. CASE Disconnect
  <2>1. toDev' \in Seq(Messages)
    BY <1>4, SMT DEF Disconnect
  <2>2. losses' \in 0..MaxLosses
    BY <1>4, BoundAssumption, SMT DEF Disconnect, DataOK
  <2> QED BY <1>4, <2>1, <2>2
          DEF Disconnect, DataOK, db, disk, rom, thread, history
<1>5. CASE Reconnect
  <2>1. missed' \in SUBSET (Jobs \cup {NoJob})
    BY <1>5, FirstTyped DEF Reconnect, DataOK
  <2> QED BY <1>5, <2>1
          DEF Reconnect, DataOK, service, shadow, db, disk, rom, thread
<1> QED BY <1>1, <1>2, <1>3, <1>4, <1>5

LEMMA CallbackData ==
  ASSUME DataOK, Callback
  PROVE  DataOK'
<1> HIDE DEF Messages
<1>1. CASE GetPending
  <2>1. Take("pending")
    BY <1>1 DEF GetPending
  <2>2. dbJob' \in Jobs \cup {NoJob} /\ (renamed' => dbJob' \in Jobs)
    <3>1. Head(toDev).job \in Jobs \cup {NoJob}
      BY <2>1, TakeTyped
    <3>2. CASE Head(toDev).job = NoJob
      <4>1. UNCHANGED <<dbJob, renamed>>
        BY <1>1, <3>2 DEF GetPending
      <4> QED BY <4>1 DEF DataOK
    <3>3. CASE Head(toDev).job # NoJob
      <4>1. dbJob' \in {dbJob, Head(toDev).job}
        BY <1>1, <3>3 DEF GetPending, Write
      <4>2. renamed' = (renamed \/ dbJob' # dbJob)
        BY <1>1, <3>3 DEF GetPending
      <4> QED BY <3>1, <3>3, <4>1, <4>2 DEF DataOK
    <3> QED BY <3>2, <3>3
  <2> QED BY <1>1, <2>1, <2>2, TakeTyped DEF GetPending, DataOK, disk, rom, thread
<1>2. CASE IgnoreNext
  <2>1. Take("next")
    BY <1>2 DEF IgnoreNext
  <2>2. missed' \in SUBSET (Jobs \cup {NoJob})
    BY <1>2, <2>1, TakeTyped DEF IgnoreNext, DataOK
  <2> QED BY <1>2, <2>1, <2>2, TakeTyped DEF IgnoreNext, DataOK, db, disk, rom, thread
<1>3. CASE NoNext
  <2>1. Take("next")
    BY <1>3 DEF NoNext
  <2> QED BY <1>3, <2>1, TakeTyped DEF NoNext, DataOK, db, disk, rom, thread, history
<1>4. CASE StartJob
  <2>1. Take("next") /\ job' = Head(toDev).job /\ job' \in Jobs /\ pc' = "record"
    BY <1>4 DEF StartJob
  <2>2. otaResult' \in {"ok", "err"}
    BY <1>4 DEF StartJob, Write, DataOK
  <2> QED BY <1>4, <2>1, <2>2, TakeTyped, Kinds DEF StartJob, DataOK, disk, rom
<1>5. CASE RefuseJob
  <2>1. Take("next") /\ job' = Head(toDev).job /\ job' \in Jobs /\ pc' = "refuse"
    BY <1>5, JobAssumption DEF RefuseJob, Jobs
  <2> QED BY <1>5, <2>1, TakeTyped, Kinds DEF RefuseJob, DataOK, db, disk, rom, history
<1>6. CASE UpdateAccepted
  <2>1. Take("accepted")
    BY <1>6 DEF UpdateAccepted
  <2>2. softVer' \in Versions /\ devVersion' \in Versions
    <3>1. {softVer, txt, devVersion} \subseteq Versions
      BY DEF DataOK
    <3> QED BY <1>6, <3>1 DEF UpdateAccepted, Write, ReadVersion, rom
  <2> QED BY <1>6, <2>1, <2>2, TakeTyped DEF UpdateAccepted, DataOK, disk, thread
<1>7. CASE UpdateRejected
  <2>1. Take("rejected")
    BY <1>7 DEF UpdateRejected
  <2> QED BY <1>7, <2>1, TakeTyped
          DEF UpdateRejected, DataOK, db, disk, rom, thread, history
<1> QED BY <1>1, <1>2, <1>3, <1>4, <1>5, <1>6, <1>7 DEF Callback

(* The start of the program disturbs no type. *)
LEMMA BootData ==
  ASSUME DataOK, Boot, app' \in Versions, installed' \in SUBSET Jobs,
         restarts' \in 0..MaxRestarts, UNCHANGED missed
  PROVE  DataOK'
<1> HIDE DEF Messages
<1>1. toDev' \in Seq(Messages)
  BY SMT DEF Boot
<1>2. romSent' = Nothing /\ devVersion' = softVer /\ session' = "none"
      /\ pc' = "run" /\ job' = NoJob
  BY DEF Boot
<1>3. UNCHANGED <<status, romVersion, db, txt, losses, renamed, mixed>>
  BY DEF Boot
<1> QED BY <1>1, <1>2, <1>3 DEF DataOK, db

LEMMA JobData ==
  ASSUME DataOK, JobStep
  PROVE  DataOK'
<1> HIDE DEF Messages
<1>1. CASE Refuse
  <2>1. Send(job, "failed")
    BY <1>1 DEF Refuse
  <2>2. /\ status' \in [Jobs -> {"none", "queued", "succeeded", "failed"}]
        /\ toDev' \in Seq(Messages) /\ losses' \in 0..MaxLosses
    BY <2>1, SendTyped
  <2>3. missed' \in SUBSET (Jobs \cup {NoJob})
    BY <1>1 DEF Refuse, DataOK
  <2>4. pc' = "run" /\ job' = NoJob
    BY <1>1 DEF Refuse, Done
  <2>5. UNCHANGED <<session, romVersion, romSent, restarts, db, disk, rom,
                    installed, renamed, mixed>>
    BY <1>1 DEF Refuse, At, shadow
  <2> QED BY <2>2, <2>3, <2>4, <2>5 DEF DataOK, db, disk, rom
<1>2. CASE RecordJob
  <2>1. pc = "record" /\ job \in Jobs
    BY <1>2 DEF RecordJob, At, DataOK
  <2> QED BY <1>2, <2>1 DEF RecordJob, At, DataOK, service, shadow, disk, rom
<1>3. CASE Load
  <2>1. txt' \in Versions
    BY <1>3, Kinds DEF Load, DataOK, NoJob
  <2>2. pc' = "note" /\ pc = "load"
    BY <1>3 DEF Load, At
  <2> QED BY <1>3, <2>1, <2>2 DEF Load, At, DataOK, service, shadow, db, rom, history
<1>4. CASE NoteVersion
  <2>1. softWareBak' \in Versions /\ otaResult' \in {"ok", "err"}
    BY <1>4 DEF NoteVersion, Write, ReadVersion, DataOK
  <2>2. pc' = "install" /\ pc = "note"
    BY <1>4 DEF NoteVersion, At
  <2> QED BY <1>4, <2>1, <2>2 DEF NoteVersion, At, DataOK, service, shadow, disk, rom
<1>5. CASE NoScript
  <2>1. missed' \in SUBSET (Jobs \cup {NoJob})
    BY <1>5 DEF NoScript, DataOK
  <2> QED BY <1>5, <2>1 DEF NoScript, Done, At, DataOK, service, shadow, db, disk, rom
<1>6. CASE Install
  <2>1. app' \in Versions
    BY <1>6 DEF Install, DataOK
  <2>2. installed' \in SUBSET Jobs
    BY <1>6 DEF Install, DataOK
  <2>3. restarts' \in 0..MaxRestarts
    BY <1>6 DEF Install, DataOK
  <2> QED BY <1>6, <2>1, <2>2, <2>3, BootData DEF Install
<1> QED BY <1>1, <1>2, <1>3, <1>4, <1>5, <1>6 DEF JobStep

LEMMA LoopData ==
  ASSUME DataOK, LoopStep
  PROVE  DataOK'
<1> HIDE DEF Messages
<1>1. CASE Report
  <2>1. Send(dbJob, IF REPORT_OTA_STATUS THEN "succeeded" ELSE "failed")
    BY <1>1 DEF Report
  <2>2. /\ status' \in [Jobs -> {"none", "queued", "succeeded", "failed"}]
        /\ toDev' \in Seq(Messages) /\ losses' \in 0..MaxLosses
    BY <2>1, SendTyped
  <2>3. mixed' \in SUBSET Jobs
    BY <1>1 DEF Report, DataOK
  <2> QED BY <1>1, <2>2, <2>3 DEF Report, Loop, DataOK, shadow, db, disk, rom, thread
<1>2. CASE ReportRom
  BY <1>2 DEF ReportRom, Loop, DataOK, service, db, disk, thread, history
<1>3. CASE RomAnswered
  <2>1. losses' \in 0..MaxLosses
    BY <1>3, BoundAssumption, SMT DEF RomAnswered, DataOK
  <2>2. romVersion' \in Versions
    BY <1>3 DEF RomAnswered, DataOK
  <2> QED BY <1>3, <2>1, <2>2 DEF RomAnswered, Loop, DataOK, service, db, disk, thread
<1>4. CASE GotShadow
  BY <1>4 DEF GotShadow, Loop, DataOK, service, db, disk, thread, history
<1> QED BY <1>1, <1>2, <1>3, <1>4 DEF LoopStep

(* Every step keeps the types of the data. *)
LEMMA DataTyped == DataOK /\ [Next]_vars => DataOK'
<1> SUFFICES ASSUME DataOK, [Next]_vars PROVE DataOK'
  OBVIOUS
<1>1. CASE Restart
  <2>1. app' \in Versions
    BY <1>1 DEF Restart, DataOK
  <2>2. installed' \in SUBSET Jobs
    BY <1>1 DEF Restart, DataOK
  <2>3. restarts' \in 0..MaxRestarts
    BY <1>1, BoundAssumption, SMT DEF Restart, DataOK
  <2> QED BY <1>1, <2>1, <2>2, <2>3, BootData DEF Restart
<1>2. CASE UNCHANGED vars
  BY <1>2 DEF vars, DataOK, service, shadow, db, disk, rom, thread, history
<1> QED
  BY <1>1, <1>2, ServiceData, CallbackData, JobData, LoopData DEF Next

-----------------------------------------------------------------------------
(* The flags *)

\* The flags of an update, those of the session, and those of the history.
UpdateFlags  == OTA_UPDATE_STATUS \in BOOLEAN /\ REPORT_OTA_STATUS \in BOOLEAN
SessionFlags == getShadow \in BOOLEAN /\ reportromVersionFlag \in BOOLEAN
PastFlags    == renamed \in BOOLEAN /\ unsaved \in BOOLEAN /\ late \in BOOLEAN

LEMMA UpdateFlagsTyped == UpdateFlags /\ [Next]_vars => UpdateFlags'
<1> SUFFICES ASSUME UpdateFlags, [Next]_vars PROVE UpdateFlags'
  OBVIOUS
<1>1. CASE UNCHANGED flags
  BY <1>1, SMT DEF flags, UpdateFlags
<1>2. CASE Boot
  BY <1>2, Zenon DEF Boot, Succeeded, UpdateFlags
<1>3. CASE UpdateAccepted
  BY <1>3, Zenon DEF UpdateAccepted, UpdateFlags, flags
<1>4. CASE UpdateRejected
  BY <1>4, Zenon DEF UpdateRejected, UpdateFlags
<1>5. CASE Refuse
  BY <1>5, Zenon DEF Refuse, UpdateFlags
<1>6. CASE Report
  BY <1>6, Zenon DEF Report, UpdateFlags
<1>7. CASE Install \/ Restart
  BY <1>7, <1>2, Zenon DEF Install, Restart
<1>8. CASE CreateJob \/ LoseMessage \/ Connect \/ Disconnect \/ Reconnect
  BY <1>8, <1>1, Zenon DEF CreateJob, LoseMessage, Connect, Disconnect, Reconnect
<1>9. CASE GetPending \/ IgnoreNext \/ NoNext \/ StartJob \/ RefuseJob
  BY <1>9, <1>1, Zenon DEF GetPending, IgnoreNext, NoNext, StartJob, RefuseJob
<1>10. CASE RecordJob \/ Load \/ NoteVersion \/ NoScript
  BY <1>10, <1>1, Zenon DEF RecordJob, Load, NoteVersion, NoScript
<1>11. CASE ReportRom \/ RomAnswered \/ GotShadow
  BY <1>11, <1>1, Zenon DEF ReportRom, RomAnswered, GotShadow
<1>12. CASE UNCHANGED vars
  BY <1>12, <1>1 DEF vars
<1> QED
  BY <1>3, <1>4, <1>5, <1>6, <1>7, <1>8, <1>9, <1>10, <1>11, <1>12, Zenon
     DEF Next, Callback, JobStep, LoopStep

LEMMA SessionFlagsTyped == SessionFlags /\ [Next]_vars => SessionFlags'
<1> SUFFICES ASSUME SessionFlags, [Next]_vars PROVE SessionFlags'
  OBVIOUS
<1>1. CASE UNCHANGED <<shadow, rom>>
  BY <1>1, SMT DEF shadow, rom, SessionFlags
<1>2. CASE Boot
  BY <1>2, Zenon DEF Boot, SessionFlags
<1>3. CASE UpdateAccepted
  <2>1. UNCHANGED getShadow
    BY <1>3 DEF UpdateAccepted, Take, shadow
  <2>2. UNCHANGED reportromVersionFlag \/ reportromVersionFlag' = TRUE
    BY <1>3, Zenon DEF UpdateAccepted, rom
  <2> QED BY <2>1, <2>2, Zenon DEF SessionFlags
<1>4. CASE Connect \/ Disconnect
  BY <1>4, Zenon DEF Connect, Disconnect, rom, SessionFlags
<1>5. CASE ReportRom \/ RomAnswered \/ GotShadow
  BY <1>5, Zenon DEF ReportRom, RomAnswered, GotShadow, SessionFlags
<1>6. CASE Install \/ Restart
  BY <1>6, <1>2, Zenon DEF Install, Restart
<1>7. CASE CreateJob \/ LoseMessage \/ Reconnect
  BY <1>7, <1>1, Zenon DEF CreateJob, LoseMessage, Reconnect
<1>8. CASE GetPending \/ IgnoreNext \/ NoNext \/ StartJob \/ RefuseJob \/ UpdateRejected
  BY <1>8, <1>1, Zenon
     DEF GetPending, IgnoreNext, NoNext, StartJob, RefuseJob, UpdateRejected, Take
<1>9. CASE Refuse \/ RecordJob \/ Load \/ NoteVersion \/ NoScript
  BY <1>9, <1>1, Zenon DEF Refuse, RecordJob, Load, NoteVersion, NoScript, At
<1>10. CASE Report \/ UNCHANGED vars
  BY <1>10, <1>1, Zenon DEF Report, vars
<1> QED
  BY <1>3, <1>4, <1>5, <1>6, <1>7, <1>8, <1>9, <1>10, Zenon
     DEF Next, Callback, JobStep, LoopStep

LEMMA PastFlagsTyped == PastFlags /\ [Next]_vars => PastFlags'
<1> SUFFICES ASSUME PastFlags, [Next]_vars PROVE PastFlags'
  OBVIOUS
<1>1. CASE UNCHANGED <<renamed, unsaved, late>>
  BY <1>1, SMT DEF PastFlags
<1>2. CASE GetPending
  <2>1. renamed' \in BOOLEAN
    BY <1>2, Zenon DEF GetPending, PastFlags
  <2>2. unsaved' = unsaved \/ unsaved' = TRUE
    BY <1>2, Zenon DEF GetPending, Write
  <2>3. UNCHANGED late
    BY <1>2 DEF GetPending
  <2> QED BY <2>1, <2>2, <2>3, Zenon DEF PastFlags
<1>3. CASE StartJob \/ NoteVersion
  <2>1. unsaved' = unsaved \/ unsaved' = TRUE
    BY <1>3, Zenon DEF StartJob, NoteVersion, Write
  <2>2. UNCHANGED <<renamed, late>>
    BY <1>3 DEF StartJob, NoteVersion
  <2> QED BY <2>1, <2>2, Zenon DEF PastFlags
<1>4. CASE UpdateAccepted
  <2>1. unsaved' = unsaved \/ unsaved' = TRUE
    BY <1>4, Zenon DEF UpdateAccepted, Write
  <2>2. UNCHANGED <<renamed, late>>
    BY <1>4 DEF UpdateAccepted
  <2> QED BY <2>1, <2>2, Zenon DEF PastFlags
<1>5. CASE RecordJob
  BY <1>5, Zenon DEF RecordJob, PastFlags
<1>6. CASE RomAnswered
  <2>1. late' = late \/ late' = (late \/ reportromVersionFlag)
    BY <1>6, Zenon DEF RomAnswered
  <2>2. UNCHANGED <<renamed, unsaved>>
    BY <1>6 DEF RomAnswered
  <2> QED BY <2>1, <2>2, Zenon DEF PastFlags
<1>7. CASE Install \/ Restart
  BY <1>7, <1>1, Zenon DEF Install, Restart, Boot
<1>8. CASE CreateJob \/ LoseMessage \/ Connect \/ Disconnect \/ Reconnect
  BY <1>8, <1>1, Zenon
     DEF CreateJob, LoseMessage, Connect, Disconnect, Reconnect, history
<1>9. CASE IgnoreNext \/ NoNext \/ RefuseJob \/ UpdateRejected
  BY <1>9, <1>1, Zenon DEF IgnoreNext, NoNext, RefuseJob, UpdateRejected, history
<1>10. CASE Refuse \/ Load \/ NoScript
  BY <1>10, <1>1, Zenon DEF Refuse, Load, NoScript, history
<1>11. CASE Report \/ ReportRom \/ GotShadow \/ UNCHANGED vars
  BY <1>11, <1>1, Zenon DEF Report, ReportRom, GotShadow, vars, history
<1> QED
  BY <1>2, <1>3, <1>4, <1>5, <1>6, <1>7, <1>8, <1>9, <1>10, <1>11, Zenon
     DEF Next, Callback, JobStep, LoopStep

(* The initial values have their types. *)
LEMMA InitData == Init => DataOK
<1> SUFFICES ASSUME Init PROVE DataOK
  OBVIOUS
<1>1. toDev \in Seq(Messages)
  <2> HIDE DEF Messages
  <2> QED BY SMT DEF Init
<1> QED BY <1>1, BoundAssumption, Kinds, SMT DEF Init, DataOK, NoJob

(* What the service, the database and the flags of awsIotTask.c hold keeps *)
(* its type, in every order of callbacks, losses and restarts.             *)
THEOREM TypeCorrect == Spec => []TypeOK
<1>1. Init => TypeOK
  <2>1. Init => DataOK
    BY InitData
  <2>2. Init => FlagsOK
    BY Zenon DEF Init, FlagsOK
  <2> QED BY <2>1, <2>2 DEF TypeOK
<1>2. TypeOK /\ [Next]_vars => TypeOK'
  <2>1. FlagsOK <=> UpdateFlags /\ SessionFlags /\ PastFlags
    BY Zenon DEF FlagsOK, UpdateFlags, SessionFlags, PastFlags
  <2>2. FlagsOK' <=> UpdateFlags' /\ SessionFlags' /\ PastFlags'
    BY Zenon DEF FlagsOK, UpdateFlags, SessionFlags, PastFlags
  <2> QED
    BY <2>1, <2>2, DataTyped, UpdateFlagsTyped, SessionFlagsTyped,
       PastFlagsTyped, Zenon DEF TypeOK
<1> QED BY <1>1, <1>2, PTL DEF Spec

-----------------------------------------------------------------------------
(* A success is that of an installed job *)

(* No success is added, and nothing that excuses one is taken away. *)
LEMMA NoNewSuccess ==
  ASSUME SuccessIsInstalled,
         \A j \in Jobs : status'[j] = "succeeded" => status[j] = "succeeded",
         installed \subseteq installed', mixed \subseteq mixed',
         unsaved => unsaved'
  PROVE  SuccessIsInstalled'
BY DEF SuccessIsInstalled

(* A publication that does not report a success adds none. *)
LEMMA FailureAddsNone ==
  ASSUME DataOK, NEW j, NEW r, Send(j, r)
  PROVE  \A k \in Jobs : status'[k] = "succeeded" /\ status[k] # "succeeded"
                           => k = j /\ r = "succeeded" /\ j \in Jobs
<1>1. status \in [Jobs -> {"none", "queued", "succeeded", "failed"}]
  BY DEF DataOK
<1>2. CASE status' = status
  BY <1>2
<1>3. CASE j \in Jobs /\ status' = [status EXCEPT ![j] = r]
  BY <1>1, <1>3
<1> QED BY <1>2, <1>3 DEF Send, Update, Lost, service, Queued

(* What the steps read that matters here. *)
core == <<status, app, installed, pc, job, OTA_UPDATE_STATUS,
          REPORT_OTA_STATUS, otaResult, dbJob, softWareBak, txt, unsaved,
          renamed, mixed>>

LEMMA CoreSame == SuccessInv /\ UNCHANGED core => SuccessInv'
BY SMT DEF SuccessInv, ProgramInv, JobInv, ReportInv, Trusted,
           SuccessIsInstalled, core

(* The start of the program: what the database expects runs only when it   *)
(* has been installed.                                                     *)
LEMMA BootInv ==
  ASSUME DataOK, SuccessInv, Boot,
         app' \in 0..MaxJobs, app' \in Jobs => app' \in installed',
         installed \subseteq installed'
  PROVE  SuccessInv'
<1>1. /\ pc' = "run" /\ UNCHANGED <<dbJob, otaResult, softWareBak, status>>
      /\ UNCHANGED <<txt, renamed, mixed, unsaved>>
  BY DEF Boot, db
<1>2. ProgramInv'
  BY <1>1 DEF ProgramInv
<1>3. JobInv'
  BY <1>1 DEF JobInv
<1>4. ReportInv'
  <2>1. otaResult' = "ok" /\ Trusted' => softWareBak' \in {dbJob', NoVersion}
    BY <1>1, SMT DEF SuccessInv, ReportInv, Trusted
  <2>2. ASSUME OTA_UPDATE_STATUS', REPORT_OTA_STATUS', Trusted'
        PROVE  dbJob' \in installed' \cup {NoJob}
    <3>1. Succeeded(app')
      <4>1. REPORT_OTA_STATUS' = Succeeded(app')
        BY DEF Boot
      <4> QED BY <2>2, <4>1, Zenon
    <3>2. app' = softWareBak' /\ otaResult' = "ok"
      BY <3>1, <1>1 DEF Succeeded
    <3>3. app' \in {dbJob', NoVersion}
      BY <2>1, <2>2, <3>2
    <3>4. app' = dbJob'
      BY <3>3, Kinds
    <3> QED BY <3>4, <1>1 DEF DataOK
  <2> QED BY <2>1, <2>2, Zenon DEF ReportInv
<1>5. SuccessIsInstalled'
  BY <1>1, NoNewSuccess DEF SuccessInv
<1> QED BY <1>2, <1>3, <1>4, <1>5 DEF SuccessInv

LEMMA CallbackInv ==
  ASSUME DataOK, SuccessInv, Callback
  PROVE  SuccessInv'
<1>1. CASE GetPending
  <2>1. /\ pc = "run" /\ UNCHANGED <<status, pc, job, app, txt, otaResult>>
        /\ UNCHANGED <<softWareBak, OTA_UPDATE_STATUS, REPORT_OTA_STATUS>>
        /\ UNCHANGED <<installed, mixed>>
    BY <1>1, TakeTyped DEF GetPending, disk, flags, thread
  <2>2. (unsaved => unsaved') /\ (Trusted' => Trusted /\ dbJob' = dbJob)
    <3>1. \/ UNCHANGED <<dbJob, unsaved, renamed>>
          \/ /\ unsaved' = unsaved \/ unsaved' = TRUE
             /\ renamed' = (renamed \/ dbJob' # dbJob)
      BY <1>1, Zenon DEF GetPending, Write
    <3>2. unsaved => unsaved'
      <4>1. CASE unsaved' = unsaved
        BY <4>1, SMT
      <4>2. CASE unsaved' = TRUE
        BY <4>2, Zenon
      <4>3. unsaved' = unsaved \/ unsaved' = TRUE
        BY <3>1, Zenon
      <4> QED BY <4>1, <4>2, <4>3, Zenon
    <3>3. ~renamed' => ~renamed /\ dbJob' = dbJob
      <4>1. CASE UNCHANGED <<dbJob, unsaved, renamed>>
        BY <4>1, SMT
      <4>2. CASE renamed' = (renamed \/ dbJob' # dbJob)
        BY <4>2, Zenon
      <4> QED BY <3>1, <4>1, <4>2, Zenon
    <3> QED BY <3>2, <3>3, Zenon DEF Trusted
  <2>3. ProgramInv' /\ JobInv'
    BY <2>1 DEF SuccessInv, ProgramInv, JobInv
  <2>4. ReportInv'
    BY <2>1, <2>2 DEF SuccessInv, ReportInv
  <2>5. SuccessIsInstalled'
    BY <2>1, <2>2, NoNewSuccess DEF SuccessInv
  <2> QED BY <2>3, <2>4, <2>5 DEF SuccessInv
<1>2. CASE IgnoreNext \/ NoNext
  <2>1. UNCHANGED core
    <3>1. \E kind : Take(kind)
      BY <1>2 DEF IgnoreNext, NoNext
    <3>2. UNCHANGED status
      BY <3>1, TakeTyped
    <3> QED BY <1>2, <3>2 DEF IgnoreNext, NoNext, core, db, disk, flags, thread, history
  <2> QED BY <2>1, CoreSame
<1>3. CASE StartJob
  <2>1. /\ ~OTA_UPDATE_STATUS /\ pc' = "record"
        /\ UNCHANGED <<status, app, txt, softWareBak, dbJob>>
        /\ UNCHANGED <<OTA_UPDATE_STATUS, REPORT_OTA_STATUS>>
        /\ UNCHANGED <<installed, mixed, renamed>>
    BY <1>3, TakeTyped DEF StartJob, disk, flags
  <2>2. \/ otaResult' = "err" /\ unsaved' = unsaved
        \/ otaResult' = otaResult /\ unsaved' = TRUE
    BY <1>3, Zenon DEF StartJob, Write
  <2>3. (unsaved => unsaved') /\ (otaResult' = "err" \/ unsaved')
    BY <2>2, SMT
  <2>4. ProgramInv' /\ JobInv'
    BY <2>1, <2>3 DEF SuccessInv, ProgramInv, JobInv
  <2>5. ReportInv'
    <3>1. ~OTA_UPDATE_STATUS'
      BY <2>1, Zenon
    <3>2. ~(otaResult' = "ok" /\ Trusted')
      BY <2>3 DEF Trusted
    <3> QED BY <3>1, <3>2, Zenon DEF ReportInv
  <2>6. SuccessIsInstalled'
    BY <2>1, <2>3, NoNewSuccess DEF SuccessInv
  <2> QED BY <2>4, <2>5, <2>6 DEF SuccessInv
<1>4. CASE RefuseJob
  <2>1. /\ ~OTA_UPDATE_STATUS /\ pc' = "refuse"
        /\ UNCHANGED <<status, app, txt, softWareBak, dbJob, otaResult>>
        /\ UNCHANGED <<OTA_UPDATE_STATUS, REPORT_OTA_STATUS>>
        /\ UNCHANGED <<installed, mixed, renamed, unsaved>>
    BY <1>4, TakeTyped DEF RefuseJob, disk, flags, db, history
  <2> QED BY <2>1, SMT DEF SuccessInv, ProgramInv, JobInv, ReportInv, Trusted,
                           SuccessIsInstalled
<1>5. CASE UpdateAccepted \/ UpdateRejected
  <2>1. /\ pc = "run" /\ UNCHANGED <<status, pc, job, app, txt, otaResult>>
        /\ UNCHANGED <<softWareBak, dbJob, installed, mixed, renamed>>
    BY <1>5, TakeTyped
       DEF UpdateAccepted, UpdateRejected, disk, db, thread, history
  <2>2. unsaved => unsaved'
    BY <1>5, Zenon DEF UpdateAccepted, UpdateRejected, Write, history
  <2>3. OTA_UPDATE_STATUS' => OTA_UPDATE_STATUS /\ REPORT_OTA_STATUS' = REPORT_OTA_STATUS
    BY <1>5, Zenon DEF UpdateAccepted, UpdateRejected, flags
  <2>4. ProgramInv' /\ JobInv'
    BY <2>1 DEF SuccessInv, ProgramInv, JobInv
  <2>5. Trusted' => Trusted
    BY <2>1, <2>2, Zenon DEF Trusted
  <2>6. ReportInv'
    <3>1. otaResult' = "ok" /\ Trusted' => softWareBak' \in {dbJob', NoVersion}
      BY <2>1, <2>5 DEF SuccessInv, ReportInv
    <3>2. OTA_UPDATE_STATUS' /\ REPORT_OTA_STATUS' /\ Trusted'
            => OTA_UPDATE_STATUS /\ REPORT_OTA_STATUS /\ Trusted
      BY <2>3, <2>5, Zenon
    <3>3. OTA_UPDATE_STATUS' /\ REPORT_OTA_STATUS' /\ Trusted'
            => dbJob' \in installed' \cup {NoJob}
      BY <2>1, <3>2 DEF SuccessInv, ReportInv
    <3> QED BY <3>1, <3>3, Zenon DEF ReportInv
  <2>7. SuccessIsInstalled'
    BY <2>1, <2>2, NoNewSuccess DEF SuccessInv
  <2> QED BY <2>4, <2>6, <2>7 DEF SuccessInv
<1> QED BY <1>1, <1>2, <1>3, <1>4, <1>5 DEF Callback

LEMMA JobInvKept ==
  ASSUME DataOK, SuccessInv, JobStep
  PROVE  SuccessInv'
<1>1. CASE Refuse
  <2>1. /\ Send(job, "failed") /\ pc' = "run" /\ ~OTA_UPDATE_STATUS'
        /\ UNCHANGED <<app, txt, dbJob, otaResult, softWareBak>>
        /\ UNCHANGED <<installed, mixed, renamed, unsaved>>
    BY <1>1, Zenon DEF Refuse, Done, db, disk
  <2>2. ProgramInv' /\ JobInv'
    BY <2>1 DEF SuccessInv, ProgramInv, JobInv
  <2>3. ReportInv'
    <3>1. otaResult' = "ok" /\ Trusted' => softWareBak' \in {dbJob', NoVersion}
      BY <2>1, SMT DEF SuccessInv, ReportInv, Trusted
    <3> QED BY <2>1, <3>1, Zenon DEF ReportInv
  <2>4. SuccessIsInstalled'
    <3>1. \A j \in Jobs : status'[j] = "succeeded" => status[j] = "succeeded"
      BY <2>1, FailureAddsNone
    <3> QED BY <2>1, <3>1, NoNewSuccess, SMT DEF SuccessInv
  <2> QED BY <2>2, <2>3, <2>4 DEF SuccessInv
<1>2. CASE RecordJob
  <2>1. /\ pc = "record" /\ pc' = "load" /\ dbJob' = job /\ job' = job
        /\ ~renamed'
        /\ UNCHANGED <<status, app, txt, otaResult, softWareBak>>
        /\ UNCHANGED <<OTA_UPDATE_STATUS, REPORT_OTA_STATUS>>
        /\ UNCHANGED <<installed, mixed, unsaved>>
    BY <1>2, Zenon DEF RecordJob, At, service, disk, flags
  <2>2. ~OTA_UPDATE_STATUS'
    BY <2>1 DEF SuccessInv, ProgramInv
  <2>3. ProgramInv' /\ JobInv'
    BY <2>1, <2>2 DEF SuccessInv, ProgramInv, JobInv
  <2>4. ReportInv'
    <3>1. ~(otaResult' = "ok" /\ Trusted')
      BY <2>1 DEF SuccessInv, JobInv, Trusted
    <3> QED BY <2>2, <3>1, Zenon DEF ReportInv
  <2>5. SuccessIsInstalled'
    BY <2>1, NoNewSuccess DEF SuccessInv
  <2> QED BY <2>3, <2>4, <2>5 DEF SuccessInv
<1>3. CASE Load
  <2>1. /\ pc = "load" /\ pc' = "note" /\ txt' \in {job, NoVersion}
        /\ UNCHANGED <<status, app, job, dbJob, otaResult, softWareBak>>
        /\ UNCHANGED <<OTA_UPDATE_STATUS, REPORT_OTA_STATUS>>
        /\ UNCHANGED <<installed, mixed, renamed, unsaved>>
    BY <1>3 DEF Load, At, service, db, flags, history
  <2> QED BY <2>1, SMT DEF SuccessInv, ProgramInv, JobInv, ReportInv, Trusted,
                           SuccessIsInstalled
<1>4. CASE NoteVersion
  <2>1. /\ pc = "note" /\ pc' = "install"
        /\ UNCHANGED <<status, app, txt, job, dbJob>>
        /\ UNCHANGED <<OTA_UPDATE_STATUS, REPORT_OTA_STATUS>>
        /\ UNCHANGED <<installed, mixed, renamed>>
    BY <1>4 DEF NoteVersion, At, service, disk, flags
  <2>2. \/ softWareBak' = txt /\ otaResult' = "ok" /\ UNCHANGED unsaved
        \/ UNCHANGED <<softWareBak, otaResult>> /\ unsaved' = TRUE
    BY <1>4, Zenon DEF NoteVersion, Write, ReadVersion
  <2>3. ~OTA_UPDATE_STATUS'
    BY <2>1 DEF SuccessInv, ProgramInv
  <2>4. unsaved => unsaved'
    <3>1. CASE unsaved' = unsaved
      BY <3>1, SMT
    <3>2. CASE unsaved' = TRUE
      BY <3>2, Zenon
    <3> QED BY <2>2, <3>1, <3>2, Zenon
  <2>5. ProgramInv' /\ JobInv'
    BY <2>1, <2>3 DEF SuccessInv, ProgramInv, JobInv
  <2>6. ReportInv'
    <3>1. otaResult' = "ok" /\ Trusted' => softWareBak' \in {dbJob', NoVersion}
      <4>1. CASE softWareBak' = txt
        BY <2>1, <4>1 DEF SuccessInv, JobInv
      <4>2. CASE unsaved' = TRUE
        BY <4>2, Zenon DEF Trusted
      <4> QED BY <2>2, <4>1, <4>2
    <3> QED BY <2>3, <3>1, Zenon DEF ReportInv
  <2>7. SuccessIsInstalled'
    BY <2>1, <2>4, NoNewSuccess DEF SuccessInv
  <2> QED BY <2>5, <2>6, <2>7 DEF SuccessInv
<1>5. CASE NoScript
  <2>1. /\ pc = "install" /\ pc' = "run"
        /\ UNCHANGED <<status, app, txt, dbJob, otaResult, softWareBak>>
        /\ UNCHANGED <<OTA_UPDATE_STATUS, REPORT_OTA_STATUS>>
        /\ UNCHANGED <<installed, mixed, renamed, unsaved>>
    BY <1>5 DEF NoScript, At, Done, service, db, disk, flags
  <2> QED BY <2>1, SMT DEF SuccessInv, ProgramInv, JobInv, ReportInv, Trusted,
                           SuccessIsInstalled
<1>6. CASE Install
  <2>1. Boot /\ pc = "install" /\ txt # NoVersion
    BY <1>6 DEF Install
  <2>2. txt = job /\ job \in Jobs
    BY <2>1 DEF SuccessInv, JobInv, DataOK
  <2>3. CASE app' = txt /\ installed' = installed \cup {job}
    <3>1. job \in 0..MaxJobs
      BY <2>2, BoundAssumption, SMT DEF Jobs
    <3> QED BY <2>1, <2>2, <2>3, <3>1, BootInv
  <2>4. CASE UNCHANGED <<app, installed>>
    BY <2>1, <2>4, BootInv DEF SuccessInv, ProgramInv
  <2> QED BY <1>6, <2>3, <2>4 DEF Install
<1> QED BY <1>1, <1>2, <1>3, <1>4, <1>5, <1>6 DEF JobStep

(* A report of success is for the job that the database names, which has   *)
(* been installed, or was put in the place of another one.                 *)
LEMMA ReportKept ==
  ASSUME DataOK, SuccessInv, Report
  PROVE  SuccessInv'
<1>1. /\ OTA_UPDATE_STATUS /\ OTA_UPDATE_STATUS' = REPORT_OTA_STATUS
      /\ Send(dbJob, IF REPORT_OTA_STATUS THEN "succeeded" ELSE "failed")
      /\ pc = "run"
      /\ mixed' = IF renamed THEN mixed \cup {dbJob} ELSE mixed
      /\ UNCHANGED <<app, txt, pc, job, dbJob, otaResult, softWareBak>>
      /\ UNCHANGED <<REPORT_OTA_STATUS, installed, renamed, unsaved>>
  BY Zenon DEF Report, Loop, db, disk, thread
<1>2. ProgramInv' /\ JobInv'
  BY <1>1 DEF SuccessInv, ProgramInv, JobInv
<1>3. ReportInv'
  <2>1. otaResult' = "ok" /\ Trusted' => softWareBak' \in {dbJob', NoVersion}
    BY <1>1, SMT DEF SuccessInv, ReportInv, Trusted
  <2>2. Trusted' => Trusted
    BY <1>1, SMT DEF Trusted
  <2>3. REPORT_OTA_STATUS' => REPORT_OTA_STATUS
    BY <1>1, SMT
  <2>4. OTA_UPDATE_STATUS' /\ REPORT_OTA_STATUS' /\ Trusted'
          => dbJob \in installed \cup {NoJob}
    BY <1>1, <2>2, <2>3, Zenon DEF SuccessInv, ReportInv
  <2>5. UNCHANGED <<dbJob, installed>>
    BY <1>1
  <2> QED BY <2>1, <2>4, <2>5, SMT DEF ReportInv
<1>4. SuccessIsInstalled'
  <2> SUFFICES ASSUME NEW k \in Jobs, status'[k] = "succeeded"
               PROVE  k \in installed' \cup mixed' \/ unsaved'
    BY DEF SuccessIsInstalled
  <2>1. installed' = installed /\ mixed \subseteq mixed'
    BY <1>1
  <2>2. unsaved => unsaved'
    BY <1>1, SMT
  <2>3. CASE status[k] = "succeeded"
    BY <2>1, <2>2, <2>3 DEF SuccessInv, SuccessIsInstalled
  <2>4. CASE status[k] # "succeeded"
    <3>1. k = dbJob /\ REPORT_OTA_STATUS
      BY <1>1, <2>4, FailureAddsNone
    <3>2. CASE Trusted
      <4>1. dbJob \in installed \cup {NoJob}
        BY <1>1, <3>1, <3>2, Zenon DEF SuccessInv, ReportInv
      <4> QED BY <2>1, <3>1, <4>1, Kinds
    <3>3. CASE renamed
      BY <1>1, <3>1, <3>3
    <3>4. CASE unsaved
      BY <2>2, <3>4
    <3> QED BY <3>2, <3>3, <3>4 DEF Trusted
  <2> QED BY <2>3, <2>4
<1> QED BY <1>2, <1>3, <1>4 DEF SuccessInv

(* Every step keeps the invariant. *)
LEMMA SuccessKept == DataOK /\ SuccessInv /\ [Next]_vars => SuccessInv'
<1> SUFFICES ASSUME DataOK, SuccessInv, [Next]_vars PROVE SuccessInv'
  OBVIOUS
<1>1. CASE CreateJob
  <2>1. \A j \in Jobs : status'[j] = "succeeded" => status[j] = "succeeded"
    <3>1. PICK j \in Jobs : status' = [status EXCEPT ![j] = "queued"]
      BY <1>1 DEF CreateJob
    <3>2. status \in [Jobs -> {"none", "queued", "succeeded", "failed"}]
      BY DEF DataOK
    <3> QED BY <3>1, <3>2
  <2>2. UNCHANGED <<db, disk, flags, thread, history>>
    BY <1>1 DEF CreateJob
  <2> QED BY <2>1, <2>2, SMT
          DEF SuccessInv, ProgramInv, JobInv, ReportInv, Trusted,
              SuccessIsInstalled, db, disk, flags, thread, history
<1>2. CASE LoseMessage \/ Connect \/ Disconnect \/ Reconnect
  <2>1. UNCHANGED core
    BY <1>2 DEF LoseMessage, Connect, Disconnect, Reconnect, core, db, disk,
                flags, thread, history, service
  <2> QED BY <2>1, CoreSame
<1>3. CASE ReportRom \/ RomAnswered \/ GotShadow
  <2>1. UNCHANGED core
    BY <1>3 DEF ReportRom, RomAnswered, GotShadow, Loop, core, db, disk,
                flags, thread, history, service
  <2> QED BY <2>1, CoreSame
<1>4. CASE Restart
  <2>1. Boot /\ UNCHANGED <<app, installed>>
    BY <1>4 DEF Restart
  <2> QED BY <2>1, BootInv DEF SuccessInv, ProgramInv
<1>5. CASE UNCHANGED vars
  <2>1. UNCHANGED core
    BY <1>5 DEF vars, core, db, disk, flags, thread, history, service
  <2> QED BY <2>1, CoreSame
<1> QED
  BY <1>1, <1>2, <1>3, <1>4, <1>5, CallbackInv, JobInvKept, ReportKept
     DEF Next, LoopStep

LEMMA InitSuccess == Init => SuccessInv
<1> SUFFICES ASSUME Init PROVE SuccessInv
  OBVIOUS
<1>1. /\ pc = "run" /\ app = 0 /\ dbJob = NoJob /\ softWareBak = NoJob
      /\ status = [j \in Jobs |-> "none"]
  BY DEF Init, NoJob
<1>2. app \in 0..MaxJobs /\ app \notin Jobs
  BY <1>1, BoundAssumption, SMT DEF Jobs
<1> QED BY <1>1, <1>2 DEF SuccessInv, ProgramInv, JobInv, ReportInv, SuccessIsInstalled

(* The service holds a job as succeeded only when run.sh has copied its    *)
(* program - whatever is lost or restarts between the download, the note   *)
(* in base_config.db, the script and the report after the next start -     *)
(* unless the callback of the pending jobs had renamed the job, or the     *)
(* database could not be written.                                          *)
THEOREM SuccessCorrect == Spec => []SuccessIsInstalled
<1>1. Init => DataOK /\ SuccessInv
  BY InitData, InitSuccess
<1>2. DataOK /\ SuccessInv /\ [Next]_vars => (DataOK /\ SuccessInv)'
  BY DataTyped, SuccessKept
<1>3. DataOK /\ SuccessInv => SuccessIsInstalled
  BY DEF SuccessInv
<1> QED BY <1>1, <1>2, <1>3, PTL DEF Spec

-----------------------------------------------------------------------------
(* The order of the queue *)

(* The job that is offered is queued, and those before it are not. *)
LEMMA FirstQueued ==
  ASSUME NEW st, First(st) # NoJob
  PROVE  First(st) \in Queued(st) /\ \A k \in Queued(st) : First(st) <= k
<1>1. Queued(st) # {}
  BY DEF First
<1>2. Queued(st) \in SUBSET Nat
  BY BoundAssumption, SMT DEF Queued, Jobs
<1>3. \E j \in Queued(st) : \A k \in Queued(st) : j <= k
  BY <1>1, <1>2, Least
<1> QED BY <1>1, <1>3, Zenon DEF First

(* In a queue in order, those before it have ended. *)
LEMMA FirstReached ==
  ASSUME NEW st \in [Jobs -> {"none", "queued", "succeeded", "failed"}],
         InOrder(st), First(st) # NoJob
  PROVE  First(st) \in Jobs /\ st[First(st)] = "queued" /\ Reached(st, First(st))
<1> DEFINE f == First(st)
<1>1. f \in Jobs /\ st[f] = "queued"
  BY FirstQueued DEF Queued
<1>2. ASSUME NEW j \in Jobs, j < f PROVE st[j] \in {"succeeded", "failed"}
  <2>1. st[j] # "none"
    BY <1>1, <1>2 DEF InOrder
  <2>2. st[j] # "queued"
    <3>1. SUFFICES ASSUME j \in Queued(st) PROVE FALSE
      BY DEF Queued
    <3>2. f <= j /\ j \in Nat /\ f \in Nat
      BY <1>1, <3>1, FirstQueued, BoundAssumption, SMT DEF Jobs
    <3> QED BY <1>2, <3>2, SMT
  <2> QED BY <2>1, <2>2
<1> QED BY <1>1, <1>2 DEF Reached

(* Two jobs that have both been reached and are queued are one. *)
LEMMA OneReached ==
  ASSUME NEW st, NEW j \in Jobs, NEW k \in Jobs,
         Reached(st, j), Reached(st, k), st[j] = "queued", st[k] = "queued"
  PROVE  j = k
BY BoundAssumption, SMT DEF Reached, Jobs

-----------------------------------------------------------------------------
(* What the steps do to the messages *)

(* A message less at the head. *)
LEMMA TailMessages ==
  ASSUME toDev \in Seq(Messages), toDev # <<>>, toDev' = Tail(toDev)
  PROVE  /\ 1 \in DOMAIN toDev /\ toDev[1] = Head(toDev)
         /\ \A p \in DOMAIN toDev' :
              /\ p \in Nat /\ p >= 1 /\ p + 1 \in DOMAIN toDev
              /\ toDev'[p] = toDev[p + 1]
         /\ Head(toDev).job \in Offered /\ Offered' \subseteq Offered
<1> HIDE DEF Messages
<1>1. /\ Len(toDev) \in Nat /\ Len(toDev) >= 1 /\ Len(toDev') = Len(toDev) - 1
      /\ DOMAIN toDev = 1..Len(toDev) /\ DOMAIN toDev' = 1..Len(toDev')
      /\ \A p \in 1..Len(toDev') : toDev'[p] = toDev[p + 1]
      /\ Head(toDev) = toDev[1]
  BY SMT
<1>2. /\ 1 \in DOMAIN toDev /\ toDev[1] = Head(toDev)
      /\ \A p \in DOMAIN toDev' :
              /\ p \in Nat /\ p >= 1 /\ p + 1 \in DOMAIN toDev
              /\ toDev'[p] = toDev[p + 1]
  BY <1>1, SMT
<1>3. Head(toDev).job \in Offered
  BY <1>2, Zenon DEF Offered
<1>4. ASSUME NEW k \in Offered' PROVE k \in Offered
  <2>1. PICK p \in DOMAIN toDev' : k = toDev'[p].job
    BY Zenon DEF Offered
  <2>2. p + 1 \in DOMAIN toDev /\ k = toDev[p + 1].job
    BY <1>2, <2>1, Zenon
  <2> QED BY <2>2, Zenon DEF Offered
<1> QED BY <1>2, <1>3, <1>4, Zenon

(* No message at all. *)
LEMMA NoMessages ==
  ASSUME toDev' = <<>>
  PROVE  DOMAIN toDev' = {} /\ Offered' = {}
<1>1. DOMAIN toDev' = {}
  BY SMT
<1> QED BY <1>1, Zenon DEF Offered

(* A message that is there after a publication was there before, in its    *)
(* place, or is one of those published.                                    *)
LEMMA PublishedMessages ==
  ASSUME toDev \in Seq(Messages), NEW ms \in Seq(Messages), Publish(ms)
  PROVE  \A p \in DOMAIN toDev' :
           /\ p \in Nat
           /\ \/ p \in DOMAIN toDev /\ toDev'[p] = toDev[p]
              \/ p \notin DOMAIN toDev /\ \E i \in DOMAIN ms : toDev'[p] = ms[i]
<1> HIDE DEF Messages
<1>1. DOMAIN toDev = 1..Len(toDev) /\ Len(toDev) \in Nat
      /\ DOMAIN ms = 1..Len(ms) /\ Len(ms) \in Nat
  BY SMT
<1>2. CASE toDev' = toDev
  BY <1>1, <1>2, SMT
<1>3. CASE toDev' = toDev \o ms
  <2>1. /\ DOMAIN toDev' = 1..(Len(toDev) + Len(ms))
        /\ \A p \in 1..(Len(toDev) + Len(ms)) :
             toDev'[p] = IF p <= Len(toDev) THEN toDev[p] ELSE ms[p - Len(toDev)]
    BY <1>3, SMT
  <2> SUFFICES ASSUME NEW p \in DOMAIN toDev'
               PROVE  /\ p \in Nat
                      /\ \/ p \in DOMAIN toDev /\ toDev'[p] = toDev[p]
                         \/ p \notin DOMAIN toDev /\ \E i \in DOMAIN ms : toDev'[p] = ms[i]
    OBVIOUS
  <2>2. CASE p <= Len(toDev)
    BY <1>1, <2>1, <2>2, SMT
  <2>3. CASE ~(p <= Len(toDev))
    <3>1. p - Len(toDev) \in DOMAIN ms /\ toDev'[p] = ms[p - Len(toDev)]
          /\ p \in Nat /\ p \notin DOMAIN toDev
      BY <1>1, <2>1, <2>3, SMT
    <3> QED BY <3>1, Zenon
  <2> QED BY <2>2, <2>3
<1> QED BY <1>2, <1>3 DEF Publish

(* After an update, the new messages are its answer and the offer of the   *)
(* job that is first then.                                                 *)
Answered ==
  \A p \in DOMAIN toDev' :
    /\ p \in Nat
    /\ \/ p \in DOMAIN toDev /\ toDev'[p] = toDev[p]
       \/ p \notin DOMAIN toDev /\ toDev'[p] \in {Accepted, Rejected}
       \/ /\ p \notin DOMAIN toDev /\ First(status') # NoJob
          /\ toDev'[p] = NextIs(First(status'))

LEMMA UpdateAnswered ==
  ASSUME DataOK, NEW j, NEW r, Update(j, r)
  PROVE  Answered
<1> HIDE DEF Messages
<1>1. toDev \in Seq(Messages)
  BY DEF DataOK
<1>2. CASE j \in Queued(status) /\ First(status') = NoJob
  <2>1. <<Accepted>> \o <<>> \in Seq(Messages)
        /\ \A i \in DOMAIN (<<Accepted>> \o <<>>) : (<<Accepted>> \o <<>>)[i] = Accepted
    <3>1. <<Accepted>> \in Seq(Messages)
      BY MessagesTyped, SMT
    <3>2. <<Accepted>> \o <<>> = <<Accepted>>
      BY <3>1, SMT
    <3> QED BY <3>1, <3>2, SMT
  <2>2. Publish(<<Accepted>> \o <<>>)
    BY <1>2 DEF Update
  <2> HIDE DEF Accepted, Publish
  <2> QED BY <1>1, <2>1, <2>2, PublishedMessages, Zenon DEF Answered
<1>3. CASE j \in Queued(status) /\ First(status') # NoJob
  <2> DEFINE n  == NextIs(First(status'))
             ms == <<Accepted>> \o <<n>>
  <2>1. ms \in Seq(Messages) /\ \A i \in DOMAIN ms : ms[i] \in {Accepted, n}
    <3>1. n \in Messages /\ Accepted \in Messages
      BY FirstTyped, MessagesTyped
    <3> HIDE DEF n, Accepted
    <3> QED BY <3>1, SMT
  <2>2. Publish(ms)
    BY <1>3 DEF Update
  <2> HIDE DEF ms, Accepted, Publish
  <2>3. \A p \in DOMAIN toDev' :
          /\ p \in Nat
          /\ \/ p \in DOMAIN toDev /\ toDev'[p] = toDev[p]
             \/ p \notin DOMAIN toDev /\ \E i \in DOMAIN ms : toDev'[p] = ms[i]
    BY <1>1, <2>1, <2>2, PublishedMessages
  <2> QED BY <1>3, <2>1, <2>3, Zenon DEF Answered
<1>4. CASE j \notin Queued(status)
  <2>1. <<Rejected>> \in Seq(Messages)
        /\ \A i \in DOMAIN <<Rejected>> : <<Rejected>>[i] = Rejected
    BY MessagesTyped, SMT
  <2>2. Publish(<<Rejected>>)
    BY <1>4 DEF Update
  <2> HIDE DEF Rejected, Publish
  <2> QED BY <1>1, <2>1, <2>2, PublishedMessages, Zenon DEF Answered
<1> QED BY <1>2, <1>3, <1>4

(* What a publication of the device does to the queue: nothing, or it ends *)
(* the queued job that it names.                                           *)
LEMMA SendMoves ==
  ASSUME DataOK, NEW j, NEW r \in {"succeeded", "failed"}, Send(j, r)
  PROVE  /\ \/ status' = status
            \/ j \in Jobs /\ status[j] = "queued" /\ status' = [status EXCEPT ![j] = r]
         /\ Answered
<1>1. CASE Update(j, r)
  <2>1. \/ status' = status
        \/ j \in Jobs /\ status[j] = "queued" /\ status' = [status EXCEPT ![j] = r]
    BY <1>1 DEF Update, Queued
  <2> QED BY <1>1, <2>1, UpdateAnswered
<1>2. CASE UNCHANGED service
  <2>1. status' = status /\ toDev' = toDev
    BY <1>2 DEF service
  <2>2. \A p \in DOMAIN toDev : p \in Nat
    BY SMT DEF DataOK
  <2> QED BY <2>1, <2>2, Zenon DEF Answered
<1> QED BY <1>1, <1>2 DEF Send, Lost, service

-----------------------------------------------------------------------------
(* The device hears of the jobs in their order *)

LEMMA HeardJobs == DataOK => Heard \subseteq Jobs
<1> HIDE DEF Messages
<1> SUFFICES ASSUME DataOK, NEW k \in Heard PROVE k \in Jobs
  OBVIOUS
<1>1. CASE k \in Offered
  <2>1. PICK p \in DOMAIN toDev : k = toDev[p].job
    BY <1>1 DEF Offered
  <2>2. toDev[p] \in Messages
    <3>1. toDev \in Seq(Messages)
      BY DEF DataOK
    <3> QED BY <3>1, SMT
  <2>3. k \in Jobs \cup {NoJob}
    BY <2>1, <2>2, MessagesTyped
  <2> QED BY <2>3 DEF Heard
<1>2. CASE k \in installed
  BY <1>2 DEF DataOK
<1>3. CASE k = job
  BY <1>3 DEF DataOK, Heard
<1> QED BY <1>1, <1>2, <1>3 DEF Heard

(* A job that has been reached stays so while the jobs go their way. *)
Forward ==
  \A j \in Jobs : /\ status[j] # "none" => status'[j] # "none"
                  /\ status[j] \in {"succeeded", "failed"}
                       => status'[j] \in {"succeeded", "failed"}

LEMMA OrderStep ==
  ASSUME DataOK, OrderInv, Forward, InOrder(status'),
         \A k \in Heard' : k \in Heard \/ Reached(status', k)
  PROVE  OrderInv'
<1>1. ASSUME NEW k \in Heard PROVE Reached(status', k)
  <2>1. k \in Jobs /\ Reached(status, k)
    BY <1>1, HeardJobs DEF OrderInv
  <2> QED BY <2>1, Zenon DEF Reached, Forward
<1> QED BY <1>1, Zenon DEF OrderInv

(* A step that leaves the service alone, and hears of no other job. *)
LEMMA QuietOrder ==
  ASSUME DataOK, OrderInv, status' = status,
         job' \in {job, NoJob} \cup Offered, installed' \subseteq installed \cup {job},
         Offered' \subseteq Offered
  PROVE  OrderInv'
<1>1. Heard' \subseteq Heard
  BY SMT DEF Heard
<1>2. Forward
  BY Zenon DEF Forward
<1>3. InOrder(status')
  BY DEF OrderInv
<1> QED BY <1>1, <1>2, <1>3, OrderStep, Zenon

(* A publication of the device: the new messages offer the first job.      *)
LEMMA SendOrder ==
  ASSUME DataOK, OrderInv, NEW j, NEW r \in {"succeeded", "failed"}, Send(j, r),
         job' \in {job, NoJob}, installed' = installed
  PROVE  OrderInv'
<1> HIDE DEF Messages
<1>1. status \in [Jobs -> {"none", "queued", "succeeded", "failed"}]
  BY DEF DataOK
<1>2. /\ \/ status' = status
         \/ j \in Jobs /\ status[j] = "queued" /\ status' = [status EXCEPT ![j] = r]
      /\ Answered
  BY SendMoves
<1>3. Forward
  BY <1>1, <1>2, SMT DEF Forward
<1>4. status' \in [Jobs -> {"none", "queued", "succeeded", "failed"}]
  BY SendTyped
<1>5. InOrder(status')
  BY <1>1, <1>2, SMT DEF OrderInv, InOrder
<1>6. First(status') # NoJob => Reached(status', First(status'))
  BY <1>4, <1>5, FirstReached
<1>7. ASSUME NEW k \in Heard' PROVE k \in Heard \/ Reached(status', k)
  <2>1. CASE k \in Offered'
    <3>1. PICK p \in DOMAIN toDev' : k = toDev'[p].job
      BY <2>1, Zenon DEF Offered
    <3>2. k # NoJob
      BY <1>7 DEF Heard
    <3>3. CASE p \in DOMAIN toDev /\ toDev'[p] = toDev[p]
      BY <3>1, <3>2, <3>3, Zenon DEF Heard, Offered
    <3>4. CASE toDev'[p] \in {Accepted, Rejected}
      BY <3>1, <3>2, <3>4 DEF Accepted, Rejected
    <3>5. CASE First(status') # NoJob /\ toDev'[p] = NextIs(First(status'))
      <4>1. k = First(status')
        BY <3>1, <3>5 DEF NextIs
      <4> QED BY <1>6, <3>5, <4>1
    <3> QED BY <1>2, <3>1, <3>3, <3>4, <3>5, Zenon DEF Answered
  <2>2. CASE k \notin Offered'
    BY <1>7, <2>2 DEF Heard
  <2> QED BY <2>1, <2>2
<1> QED BY <1>3, <1>5, <1>7, OrderStep

(* A new job is offered when no other is queued.                           *)
LEMMA CreateMessages ==
  ASSUME DataOK, NEW j \in Jobs, toDev \in Seq(Messages),
         Publish(IF Queued(status) = {} THEN <<NextIs(j)>> ELSE <<>>)
  PROVE  \A p \in DOMAIN toDev' :
           /\ p \in Nat
           /\ \/ p \in DOMAIN toDev /\ toDev'[p] = toDev[p]
              \/ /\ p \notin DOMAIN toDev /\ Queued(status) = {}
                 /\ toDev'[p] = NextIs(j)
<1> HIDE DEF Messages
<1>1. CASE Queued(status) = {}
  <2>1. <<NextIs(j)>> \in Seq(Messages)
        /\ \A i \in DOMAIN <<NextIs(j)>> : <<NextIs(j)>>[i] = NextIs(j)
    <3>1. NextIs(j) \in Messages
      BY MessagesTyped
    <3> QED BY <3>1, SMT
  <2>2. Publish(<<NextIs(j)>>)
    BY <1>1
  <2> HIDE DEF Publish, NextIs
  <2> QED BY <1>1, <2>1, <2>2, PublishedMessages, Zenon
<1>2. CASE Queued(status) # {}
  <2>1. Publish(<<>>) /\ <<>> \in Seq(Messages)
    BY <1>2, SMT
  <2>2. DOMAIN <<>> = {}
    BY SMT
  <2> HIDE DEF Publish
  <2> QED BY <2>1, <2>2, PublishedMessages, Zenon
<1> QED BY <1>1, <1>2

(* A new job is the next in order.                                         *)
LEMMA CreateOrder ==
  ASSUME DataOK, OrderInv, CreateJob
  PROVE  OrderInv'
<1> HIDE DEF Messages
<1>1. status \in [Jobs -> {"none", "queued", "succeeded", "failed"}]
      /\ toDev \in Seq(Messages)
  BY DEF DataOK
<1>2. PICK j \in Jobs :
        /\ status[j] = "none" /\ \A k \in 1..(j - 1) : status[k] # "none"
        /\ status' = [status EXCEPT ![j] = "queued"]
        /\ Publish(IF Queued(status) = {} THEN <<NextIs(j)>> ELSE <<>>)
  BY DEF CreateJob
<1>3. Forward
  BY <1>1, <1>2, SMT DEF Forward
<1>4. InOrder(status')
  <2> SUFFICES ASSUME NEW i \in Jobs, NEW k \in Jobs, i < k, status'[k] # "none"
               PROVE  status'[i] # "none"
    BY DEF InOrder
  <2>1. CASE k = j
    <3>1. i \in 1..(j - 1)
      BY <2>1, BoundAssumption, SMT DEF Jobs
    <3> QED BY <1>1, <1>2, <3>1
  <2>2. CASE k # j
    BY <1>1, <1>2, <2>2 DEF OrderInv, InOrder
  <2> QED BY <2>1, <2>2
<1>5. UNCHANGED <<job, installed>>
  BY DEF CreateJob, thread, history
<1>6. Queued(status) = {} => Reached(status', j)
  <2> SUFFICES ASSUME Queued(status) = {} PROVE Reached(status', j)
    OBVIOUS
  <2>1. ASSUME NEW i \in Jobs, i < j PROVE status'[i] \in {"succeeded", "failed"}
    <3>1. i \in 1..(j - 1)
      BY <2>1, BoundAssumption, SMT DEF Jobs
    <3>2. status[i] # "none" /\ status[i] # "queued"
      BY <1>2, <3>1 DEF Queued
    <3> QED BY <1>1, <1>2, <3>2
  <2> QED BY <1>1, <1>2, <2>1 DEF Reached
<1>7. ASSUME NEW k \in Offered' PROVE k \in Offered \/ Reached(status', k)
  <2>1. PICK p \in DOMAIN toDev' : k = toDev'[p].job
    BY <1>7, Zenon DEF Offered
  <2>2. CASE p \in DOMAIN toDev /\ toDev'[p] = toDev[p]
    BY <2>1, <2>2, Zenon DEF Offered
  <2>3. CASE Queued(status) = {} /\ toDev'[p] = NextIs(j)
    <3>1. k = j
      BY <2>1, <2>3 DEF NextIs
    <3> QED BY <1>6, <2>3, <3>1
  <2> QED BY <1>1, <1>2, <2>1, <2>2, <2>3, CreateMessages, Zenon
<1>8. \A k \in Heard' : k \in Heard \/ Reached(status', k)
  BY <1>5, <1>7 DEF Heard
<1> QED BY <1>3, <1>4, <1>8, OrderStep

LEMMA ConnectOrder ==
  ASSUME DataOK, OrderInv, Connect
  PROVE  OrderInv' /\ Offered' = {First(status)}
<1> HIDE DEF Messages
<1>1. status \in [Jobs -> {"none", "queued", "succeeded", "failed"}]
  BY DEF DataOK
<1>2. /\ toDev' = <<Pending(First(status)), NextIs(First(status))>>
      /\ UNCHANGED <<status, job, installed>>
  BY DEF Connect, thread, history
<1>3. Offered' = {First(status)}
  <2>1. DOMAIN toDev' = {1, 2} /\ toDev'[1] = Pending(First(status))
        /\ toDev'[2] = NextIs(First(status))
    BY <1>2, SMT
  <2>2. toDev'[1].job = First(status) /\ toDev'[2].job = First(status)
    BY <2>1 DEF Pending, NextIs
  <2>3. Offered' = {toDev'[p].job : p \in {1, 2}}
    BY <2>1 DEF Offered
  <2> QED BY <2>2, <2>3
<1>4. First(status) # NoJob => Reached(status', First(status))
  BY <1>1, <1>2, FirstReached DEF OrderInv
<1>5. \A k \in Heard' : k \in Heard \/ Reached(status', k)
  BY <1>2, <1>3, <1>4 DEF Heard
<1>6. Forward
  BY <1>2, Zenon DEF Forward
<1>7. InOrder(status')
  BY <1>2 DEF OrderInv
<1> QED BY <1>3, <1>5, <1>6, <1>7, OrderStep

(* Every step keeps the order. *)
LEMMA OrderKept == DataOK /\ OrderInv /\ [Next]_vars => OrderInv'
<1> HIDE DEF Messages
<1> SUFFICES ASSUME DataOK, OrderInv, [Next]_vars PROVE OrderInv'
  OBVIOUS
<1>1. CASE LoseMessage
  <2>1. toDev # <<>> /\ toDev' = Tail(toDev) /\ toDev \in Seq(Messages)
        /\ UNCHANGED <<status, job, installed>>
    BY <1>1 DEF LoseMessage, thread, DataOK
  <2> QED BY <2>1, TailMessages, QuietOrder
<1>2. CASE Disconnect
  <2>1. toDev' = <<>> /\ UNCHANGED <<status, job, installed>>
    BY <1>2 DEF Disconnect, thread, history
  <2> QED BY <2>1, NoMessages, QuietOrder
<1>3. CASE Callback
  <2>1. \E kind : Take(kind)
    BY <1>3 DEF Callback, GetPending, IgnoreNext, NoNext, StartJob, RefuseJob,
                UpdateAccepted, UpdateRejected
  <2>2. toDev # <<>> /\ toDev' = Tail(toDev) /\ toDev \in Seq(Messages)
        /\ status' = status
    BY <2>1 DEF Take, DataOK
  <2>3. Head(toDev).job \in Offered /\ Offered' \subseteq Offered
    BY <2>2, TailMessages
  <2>4. installed' = installed
    BY <1>3 DEF Callback, GetPending, IgnoreNext, NoNext, StartJob, RefuseJob,
                UpdateAccepted, UpdateRejected, history
  <2>5. job' \in {job, Head(toDev).job}
    BY <1>3 DEF Callback, GetPending, IgnoreNext, NoNext, StartJob, RefuseJob,
                UpdateAccepted, UpdateRejected, thread
  <2> QED BY <2>2, <2>3, <2>4, <2>5, QuietOrder
<1>4. CASE Refuse
  <2>1. Send(job, "failed") /\ job' = NoJob /\ installed' = installed
    BY <1>4 DEF Refuse, Done
  <2> QED BY <2>1, SendOrder
<1>5. CASE RecordJob \/ Load \/ NoteVersion \/ NoScript
  <2>1. UNCHANGED <<status, toDev, installed>> /\ job' \in {job, NoJob}
    BY <1>5 DEF RecordJob, Load, NoteVersion, NoScript, Done, service, history
  <2>2. Offered' = Offered
    BY <2>1 DEF Offered
  <2> QED BY <2>1, <2>2, QuietOrder
<1>6. CASE Install \/ Restart
  <2>1. Boot /\ installed' \subseteq installed \cup {job}
    BY <1>6 DEF Install, Restart
  <2>2. toDev' = <<>> /\ status' = status /\ job' = NoJob
    BY <2>1 DEF Boot
  <2> QED BY <2>1, <2>2, NoMessages, QuietOrder
<1>7. CASE Report
  <2>1. Send(dbJob, IF REPORT_OTA_STATUS THEN "succeeded" ELSE "failed")
        /\ UNCHANGED <<job, installed>>
    BY <1>7 DEF Report, Loop, thread
  <2> QED BY <2>1, SendOrder
<1>8. CASE Reconnect \/ ReportRom \/ RomAnswered \/ GotShadow \/ UNCHANGED vars
  <2>1. UNCHANGED <<status, toDev, job, installed>>
    BY <1>8 DEF Reconnect, ReportRom, RomAnswered, GotShadow, Loop, vars,
                service, thread, history
  <2>2. Offered' = Offered
    BY <2>1 DEF Offered
  <2> QED BY <2>1, <2>2, QuietOrder
<1> QED
  BY <1>1, <1>2, <1>3, <1>4, <1>5, <1>6, <1>7, <1>8, CreateOrder, ConnectOrder, Zenon
     DEF Next, JobStep, LoopStep

-----------------------------------------------------------------------------
(* What has been installed is not offered again *)

(* A database that could not be written is not forgotten. *)
LEMMA UnsavedStays == [Next]_vars /\ unsaved => unsaved'
<1> SUFFICES ASSUME [Next]_vars, unsaved PROVE unsaved'
  OBVIOUS
<1>1. CASE UNCHANGED unsaved
  BY <1>1, SMT
<1>2. CASE unsaved' = TRUE
  BY <1>2, Zenon
<1>3. CASE GetPending \/ StartJob \/ NoteVersion \/ UpdateAccepted
  <2>1. UNCHANGED unsaved \/ unsaved' = TRUE
    BY <1>3, Zenon DEF GetPending, StartJob, NoteVersion, UpdateAccepted, Write
  <2> QED BY <1>1, <1>2, <2>1, Zenon
<1>4. CASE Install \/ Restart
  BY <1>4, <1>1, Zenon DEF Install, Restart, Boot
<1>5. CASE CreateJob \/ LoseMessage \/ Connect \/ Disconnect \/ Reconnect
  BY <1>5, <1>1, Zenon
     DEF CreateJob, LoseMessage, Connect, Disconnect, Reconnect, history
<1>6. CASE IgnoreNext \/ NoNext \/ RefuseJob \/ UpdateRejected
  BY <1>6, <1>1, Zenon DEF IgnoreNext, NoNext, RefuseJob, UpdateRejected, history
<1>7. CASE Refuse \/ RecordJob \/ Load \/ NoScript
  BY <1>7, <1>1, Zenon DEF Refuse, RecordJob, Load, NoScript, history
<1>8. CASE Report \/ ReportRom \/ RomAnswered \/ GotShadow \/ UNCHANGED vars
  BY <1>8, <1>1, Zenon DEF Report, ReportRom, RomAnswered, GotShadow, vars, history
<1> QED
  BY <1>3, <1>4, <1>5, <1>6, <1>7, <1>8, Zenon DEF Next, Callback, JobStep, LoopStep

(* An installed job has been reached; while it is queued it is the first.  *)
LEMMA InstalledFirst ==
  ASSUME DataOK, OrderInv, NEW j \in installed
  PROVE  /\ j \in Jobs /\ Reached(status, j)
         /\ status[j] = "queued" => First(status) = j
<1>1. j \in Jobs
  BY DEF DataOK
<1>2. Reached(status, j)
  BY <1>1, Kinds DEF OrderInv, Heard
<1>3. ASSUME status[j] = "queued" PROVE First(status) = j
  <2>1. First(status) # NoJob
    <3>1. j \in Queued(status)
      BY <1>1, <1>3 DEF Queued
    <3>2. \E k \in Queued(status) : \A l \in Queued(status) : k <= l
      <4>1. Queued(status) \in SUBSET Nat
        BY BoundAssumption, SMT DEF Queued, Jobs
      <4> QED BY <3>1, <4>1, Least
    <3>3. First(status) \in Queued(status)
      BY <3>1, <3>2, Zenon DEF First
    <3> QED BY <3>3, Kinds DEF Queued
  <2>2. /\ First(status) \in Jobs /\ status[First(status)] = "queued"
        /\ Reached(status, First(status))
    BY <2>1, FirstReached DEF OrderInv, DataOK
  <2> QED BY <1>1, <1>2, <1>3, <2>2, OneReached
<1> QED BY <1>1, <1>2, <1>3

(* A job in the queue was there before, or has just been created. *)
LEMMA StillQueued ==
  ASSUME DataOK, OrderInv, [Next]_vars, NEW j \in installed, status'[j] = "queued"
  PROVE  status[j] = "queued"
<1>1. j \in Jobs /\ status[j] # "none"
  BY InstalledFirst DEF Reached
<1>2. status \in [Jobs -> {"none", "queued", "succeeded", "failed"}]
  BY DEF DataOK
<1>3. CASE CreateJob
  <2>1. PICK k \in Jobs : status[k] = "none" /\ status' = [status EXCEPT ![k] = "queued"]
    BY <1>3 DEF CreateJob
  <2> QED BY <1>1, <1>2, <2>1
<1>4. CASE Refuse \/ Report
  <2>1. \E k : \E r \in {"succeeded", "failed"} : Send(k, r)
    BY <1>4 DEF Refuse, Report
  <2>2. \/ status' = status
        \/ \E k \in Jobs, r \in {"succeeded", "failed"} : status' = [status EXCEPT ![k] = r]
    BY <2>1, SendMoves
  <2> QED BY <1>1, <1>2, <2>2
<1>5. CASE status' = status
  BY <1>5
<1>6. CASE Callback
  BY <1>6, <1>5
     DEF Callback, GetPending, IgnoreNext, NoNext, StartJob, RefuseJob,
         UpdateAccepted, UpdateRejected, Take
<1>7. CASE Install \/ Restart
  BY <1>7, <1>5 DEF Install, Restart, Boot
<1>8. CASE LoseMessage \/ Connect \/ Disconnect \/ Reconnect
  BY <1>8, <1>5 DEF LoseMessage, Connect, Disconnect, Reconnect, service
<1>9. CASE RecordJob \/ Load \/ NoteVersion \/ NoScript
  BY <1>9, <1>5 DEF RecordJob, Load, NoteVersion, NoScript, service
<1>10. CASE ReportRom \/ RomAnswered \/ GotShadow \/ UNCHANGED vars
  BY <1>10, <1>5 DEF ReportRom, RomAnswered, GotShadow, vars, service
<1> QED
  BY <1>3, <1>4, <1>6, <1>7, <1>8, <1>9, <1>10 DEF Next, JobStep, LoopStep

(* The messages that an installed and queued job allows. *)
Speaks(j) == \A p \in DOMAIN toDev : toDev[p] \in {Pending(j), NextIs(j)}

LEMMA SpeaksTail ==
  ASSUME toDev \in Seq(Messages), toDev # <<>>, toDev' = Tail(toDev),
         NEW j, Speaks(j)
  PROVE  Speaks(j)' /\ Head(toDev) \in {Pending(j), NextIs(j)}
<1>1. /\ 1 \in DOMAIN toDev /\ toDev[1] = Head(toDev)
      /\ \A p \in DOMAIN toDev' : p + 1 \in DOMAIN toDev /\ toDev'[p] = toDev[p + 1]
  BY TailMessages
<1>2. Speaks(j)'
  BY <1>1, Zenon DEF Speaks
<1>3. Head(toDev) \in {Pending(j), NextIs(j)}
  BY <1>1, Zenon DEF Speaks
<1> QED BY <1>2, <1>3

LEMMA SpeaksNone ==
  ASSUME toDev' = <<>>, NEW j PROVE Speaks(j)'
BY NoMessages, Zenon DEF Speaks

LEMMA SpeaksSame ==
  ASSUME UNCHANGED toDev, NEW j, Speaks(j) PROVE Speaks(j)'
BY DEF Speaks

(* What is said of the job that is due besides its messages. *)
DueState(j) ==
  /\ dbJob = j /\ ~renamed /\ app = j /\ Succeeded(j)
  /\ pc = "run" /\ OTA_UPDATE_STATUS /\ REPORT_OTA_STATUS

LEMMA DueParts == \A j : Due(j) <=> DueState(j) /\ Speaks(j)
BY Zenon DEF Due, DueState, Speaks

LEMMA DuePartsNext == \A j : Due(j)' <=> DueState(j)' /\ Speaks(j)'
BY Zenon DEF Due, DueState, Speaks

LEMMA DueSame ==
  ASSUME NEW j, DueState(j), pc' = pc, dbJob' = dbJob, renamed' = renamed,
         app' = app, softWareBak' = softWareBak, otaResult' = otaResult,
         OTA_UPDATE_STATUS' = OTA_UPDATE_STATUS,
         REPORT_OTA_STATUS' = REPORT_OTA_STATUS
  PROVE  DueState(j)'
<1>1. dbJob = j /\ ~renamed /\ app = j /\ j = softWareBak /\ otaResult = "ok"
      /\ pc = "run" /\ OTA_UPDATE_STATUS /\ REPORT_OTA_STATUS
  BY Zenon DEF DueState, Succeeded
<1>2. dbJob' = j /\ app' = j /\ j = softWareBak' /\ otaResult' = "ok" /\ pc' = "run"
  BY <1>1
<1>3. ~renamed' /\ OTA_UPDATE_STATUS' /\ REPORT_OTA_STATUS'
  BY <1>1, SMT
<1> QED BY <1>2, <1>3, Zenon DEF DueState, Succeeded

(* A start of the program asks for the report again. *)
LEMMA DueBoot ==
  ASSUME NEW j, Boot, dbJob = j, ~renamed, app' = j, Succeeded(j)
  PROVE  Due(j)'
<1>1. dbJob' = j /\ softWareBak' = softWareBak /\ otaResult' = otaResult
      /\ pc' = "run" /\ toDev' = <<>> /\ renamed' = renamed
  BY DEF Boot, db
<1>2. Succeeded(j)'
  BY <1>1, Zenon DEF Succeeded
<1>3. OTA_UPDATE_STATUS' /\ REPORT_OTA_STATUS'
  <2>1. OTA_UPDATE_STATUS' = TRUE /\ REPORT_OTA_STATUS' = Succeeded(app')
    BY Zenon DEF Boot
  <2>2. Succeeded(app')
    BY Zenon
  <2> QED BY <2>1, <2>2, Zenon
<1>4. ~renamed'
  BY <1>1, SMT
<1>5. DueState(j)'
  BY <1>1, <1>2, <1>3, <1>4, Zenon DEF DueState
<1> QED BY <1>1, <1>5, SpeaksNone, DuePartsNext

LEMMA DueStays ==
  ASSUME DataOK, OrderInv, [Next]_vars, ~unsaved', NEW j \in installed,
         status[j] = "queued", status'[j] = "queued", Due(j)
  PROVE  Due(j)'
<1> HIDE DEF Messages
<1>1. DueState(j) /\ Speaks(j) /\ toDev \in Seq(Messages)
  BY DueParts DEF DataOK
<1>2. pc = "run" /\ dbJob = j /\ OTA_UPDATE_STATUS /\ REPORT_OTA_STATUS
      /\ ~renamed /\ app = j /\ Succeeded(j)
  BY <1>1, Zenon DEF DueState
<1>3. j \in Jobs /\ First(status) = j /\ Queued(status) # {}
  <2>1. j \in Jobs /\ First(status) = j
    BY InstalledFirst
  <2> QED BY <2>1 DEF Queued
<1>4. CASE CreateJob
  <2>1. PICK k \in Jobs : Publish(IF Queued(status) = {} THEN <<NextIs(k)>> ELSE <<>>)
    BY <1>4 DEF CreateJob
  <2>2. \A p \in DOMAIN toDev' : p \in DOMAIN toDev /\ toDev'[p] = toDev[p]
    BY <1>1, <1>3, <2>1, CreateMessages, Zenon
  <2>3. Speaks(j)'
    BY <1>1, <2>2, Zenon DEF Speaks
  <2>4. DueState(j)'
    BY <1>1, <1>4, DueSame DEF CreateJob, db, disk, flags, thread, history
  <2> QED BY <2>3, <2>4, DuePartsNext
<1>5. CASE LoseMessage
  <2>1. Speaks(j)'
    BY <1>1, <1>5, SpeaksTail DEF LoseMessage
  <2>2. DueState(j)'
    BY <1>1, <1>5, DueSame DEF LoseMessage, db, disk, flags, thread
  <2> QED BY <2>1, <2>2, DuePartsNext
<1>6. CASE Connect
  <2>1. toDev' = <<Pending(j), NextIs(j)>>
    BY <1>3, <1>6 DEF Connect
  <2>2. DOMAIN toDev' = {1, 2} /\ toDev'[1] = Pending(j) /\ toDev'[2] = NextIs(j)
    BY <2>1, SMT
  <2>3. Speaks(j)'
    BY <2>2 DEF Speaks
  <2>4. DueState(j)'
    BY <1>1, <1>6, DueSame DEF Connect, db, disk, flags, thread, history
  <2> QED BY <2>3, <2>4, DuePartsNext
<1>7. CASE Disconnect
  <2>1. Speaks(j)'
    BY <1>7, SpeaksNone DEF Disconnect
  <2>2. DueState(j)'
    BY <1>1, <1>7, DueSame DEF Disconnect, db, disk, flags, thread, history
  <2> QED BY <2>1, <2>2, DuePartsNext
<1>8. CASE Reconnect \/ ReportRom \/ RomAnswered \/ GotShadow
  <2>1. Speaks(j)'
    BY <1>1, <1>8, SpeaksSame DEF Reconnect, ReportRom, RomAnswered, GotShadow, service
  <2>2. UNCHANGED <<pc, dbJob, renamed, app, softWareBak, otaResult,
                    OTA_UPDATE_STATUS, REPORT_OTA_STATUS>>
    BY <1>8 DEF Reconnect, ReportRom, RomAnswered, GotShadow, Loop, db, disk,
                flags, thread, history
  <2>3. DueState(j)'
    BY <1>1, <2>2, DueSame
  <2> QED BY <2>1, <2>3, DuePartsNext
<1>9. CASE Callback
  <2>1. toDev # <<>> /\ toDev' = Tail(toDev)
    BY <1>9 DEF Callback, GetPending, IgnoreNext, NoNext, StartJob, RefuseJob,
                UpdateAccepted, UpdateRejected, Take
  <2>2. Speaks(j)' /\ Head(toDev) \in {Pending(j), NextIs(j)}
    BY <1>1, <2>1, SpeaksTail
  <2>3. Head(toDev).job = j /\ Head(toDev).kind \in {"pending", "next"}
    BY <2>2 DEF Pending, NextIs
  <2>4. CASE GetPending
    <3>1. j # NoJob
      BY <1>3, Kinds
    <3>2. dbJob' = j /\ renamed' = (renamed \/ dbJob' # dbJob)
      <4>1. Write(dbJob' = j, dbJob' = dbJob) /\ renamed' = (renamed \/ dbJob' # dbJob)
        BY <2>3, <2>4, <3>1, Zenon DEF GetPending
      <4>2. dbJob' = j \/ dbJob' = dbJob
        BY <4>1, Zenon DEF Write
      <4> QED BY <1>2, <4>1, <4>2, Zenon
    <3>3. ~renamed'
      BY <1>2, <3>2, Zenon
    <3>4. UNCHANGED <<pc, app, softWareBak, otaResult, OTA_UPDATE_STATUS,
                      REPORT_OTA_STATUS>>
      BY <2>4 DEF GetPending, disk, flags, thread
    <3>5. OTA_UPDATE_STATUS' /\ REPORT_OTA_STATUS'
      BY <1>2, <3>4, SMT
    <3>6. Succeeded(j)' /\ app' = j /\ pc' = "run"
      BY <1>2, <3>4 DEF Succeeded
    <3>7. DueState(j)'
      BY <3>2, <3>3, <3>5, <3>6, Zenon DEF DueState
    <3> QED BY <2>2, <3>7, DuePartsNext
  <2>5. CASE IgnoreNext
    <3>1. DueState(j)'
      BY <1>1, <2>5, DueSame DEF IgnoreNext, db, disk, flags, thread
    <3> QED BY <2>2, <3>1, DuePartsNext
  <2>6. CASE NoNext \/ StartJob \/ RefuseJob
    BY <1>2, <2>6, Zenon DEF NoNext, StartJob, RefuseJob
  <2>7. CASE UpdateAccepted \/ UpdateRejected
    BY <2>3, <2>7 DEF UpdateAccepted, UpdateRejected, Take
  <2> QED BY <1>9, <2>4, <2>5, <2>6, <2>7 DEF Callback
<1>10. CASE JobStep
  BY <1>2, <1>10 DEF JobStep, Refuse, RecordJob, Load, NoteVersion, NoScript, Install, At
<1>11. CASE Report
  <2>1. Send(j, "succeeded")
    <3>1. Send(dbJob, IF REPORT_OTA_STATUS THEN "succeeded" ELSE "failed")
      BY <1>11 DEF Report
    <3>2. (IF REPORT_OTA_STATUS THEN "succeeded" ELSE "failed") = "succeeded"
      BY <1>2, Zenon
    <3> QED BY <1>2, <3>1, <3>2
  <2>2. UNCHANGED service
    <3>1. ~Update(j, "succeeded")
      <4>1. status \in [Jobs -> {"none", "queued", "succeeded", "failed"}]
        BY DEF DataOK
      <4> QED BY <1>3, <4>1 DEF Update, Queued
    <3> QED BY <2>1, <3>1, Zenon DEF Send, Lost, service
  <2>3. Speaks(j)'
    BY <1>1, <2>2, SpeaksSame DEF service
  <2>4. UNCHANGED <<pc, dbJob, renamed, app, softWareBak, otaResult, REPORT_OTA_STATUS>>
        /\ OTA_UPDATE_STATUS' = REPORT_OTA_STATUS
    BY <1>11 DEF Report, Loop, db, disk, thread
  <2>5. ~renamed' /\ REPORT_OTA_STATUS' /\ OTA_UPDATE_STATUS'
    BY <1>2, <2>4, SMT
  <2>6. Succeeded(j)' /\ app' = j /\ pc' = "run" /\ dbJob' = j
    BY <1>2, <2>4 DEF Succeeded
  <2>7. DueState(j)'
    BY <2>5, <2>6, Zenon DEF DueState
  <2> QED BY <2>3, <2>7, DuePartsNext
<1>12. CASE Restart
  <2>1. Boot /\ app' = j
    BY <1>2, <1>12 DEF Restart
  <2> QED BY <1>2, <2>1, DueBoot
<1>13. CASE UNCHANGED vars
  <2>1. UNCHANGED <<toDev, pc, dbJob, renamed, app, softWareBak, otaResult,
                    OTA_UPDATE_STATUS, REPORT_OTA_STATUS>>
    BY <1>13 DEF vars, service, thread, db, disk, flags, history
  <2> QED BY <1>1, <2>1, DueSame, SpeaksSame, DuePartsNext
<1> QED
  BY <1>4, <1>5, <1>6, <1>7, <1>8, <1>9, <1>10, <1>11, <1>12, <1>13, Zenon
     DEF Next, LoopStep

(* What is noted before the script is what is on disk. *)
LEMMA NotedKept ==
  ASSUME DataOK, [Next]_vars, ~unsaved', ~unsaved, pc' = "install",
         pc = "install" => Succeeded(txt)
  PROVE  Succeeded(txt)'
<1>1. CASE NoteVersion
  <2>1. Write(softWareBak' = txt /\ otaResult' = "ok",
              UNCHANGED <<softWareBak, otaResult>>)
    BY <1>1 DEF NoteVersion, ReadVersion
  <2>2. softWareBak' = txt /\ otaResult' = "ok"
    BY <2>1, Zenon DEF Write
  <2>3. txt' = txt
    BY <1>1 DEF NoteVersion, disk
  <2> QED BY <2>2, <2>3, Zenon DEF Succeeded
<1>2. CASE UNCHANGED <<pc, txt, softWareBak, otaResult>>
  BY <1>2 DEF Succeeded
<1>3. CASE Callback
  <2>1. \E kind : Take(kind)
    BY <1>3 DEF Callback, GetPending, IgnoreNext, NoNext, StartJob, RefuseJob,
                UpdateAccepted, UpdateRejected
  <2>2. pc = "run"
    BY <2>1 DEF Take
  <2> QED BY <1>3, <2>2 DEF Callback, GetPending, IgnoreNext, NoNext, StartJob,
                            RefuseJob, UpdateAccepted, UpdateRejected, thread
<1>4. CASE Refuse \/ RecordJob \/ Load \/ NoScript
  BY <1>4 DEF Refuse, RecordJob, Load, NoScript, Done
<1>5. CASE Install \/ Restart
  BY <1>5 DEF Install, Restart, Boot
<1>6. CASE LoopStep
  BY <1>6 DEF LoopStep, Report, ReportRom, RomAnswered, GotShadow, Loop, thread
<1>7. CASE CreateJob \/ LoseMessage \/ Connect \/ Disconnect \/ Reconnect \/ UNCHANGED vars
  BY <1>7, <1>2 DEF CreateJob, LoseMessage, Connect, Disconnect, Reconnect, vars,
                    thread, db, disk
<1> QED BY <1>1, <1>3, <1>4, <1>5, <1>6, <1>7 DEF Next, JobStep

LEMMA DueKept ==
  ASSUME DataOK, SuccessInv, OrderInv, DueInv, [Next]_vars
  PROVE  DueInv'
<1> SUFFICES ASSUME ~unsaved'
             PROVE  /\ pc' = "install" => Succeeded(txt)'
                    /\ \A j \in installed' : status'[j] = "queued" => Due(j)'
  BY Zenon DEF DueInv
<1>1. ~unsaved
  BY UnsavedStays
<1>2. /\ pc = "install" => Succeeded(txt)
      /\ \A j \in installed : status[j] = "queued" => Due(j)
  BY <1>1, Zenon DEF DueInv
<1>3. pc' = "install" => Succeeded(txt)'
  BY <1>1, <1>2, NotedKept
<1>4. ASSUME NEW j \in installed', status'[j] = "queued" PROVE Due(j)'
  <2>1. CASE j \in installed
    BY <1>2, <1>4, <2>1, StillQueued, DueStays
  <2>2. CASE j \notin installed
    <3>1. Install
      <4>1. installed' # installed
        BY <1>4, <2>2
      <4> QED BY <4>1, Zenon
          DEF Next, CreateJob, LoseMessage, Connect, Disconnect, Reconnect,
              Callback, GetPending, IgnoreNext, NoNext, StartJob, RefuseJob,
              UpdateAccepted, UpdateRejected, JobStep, Refuse, RecordJob, Load,
              NoteVersion, NoScript, LoopStep, Report, ReportRom, RomAnswered,
              GotShadow, Restart, vars, history
    <3>2. /\ pc = "install" /\ txt # NoVersion /\ Boot
          /\ app' = txt /\ installed' = installed \cup {job}
      BY <1>4, <2>2, <3>1 DEF Install
    <3>3. j = job
      BY <1>4, <2>2, <3>2
    <3>4. txt = j /\ dbJob = j /\ ~renamed
      BY <3>2, <3>3, Zenon DEF SuccessInv, JobInv
    <3>5. Succeeded(j)
      BY <1>2, <3>2, <3>4, Zenon
    <3> QED BY <3>2, <3>4, <3>5, DueBoot
  <2> QED BY <2>1, <2>2
<1> QED BY <1>3, <1>4, Zenon

-----------------------------------------------------------------------------
(* A message that would start a job that has been installed comes before   *)
(* the answers to its report.                                              *)
Stale(p)   == toDev[p].kind = "next" /\ toDev[p].job \in installed
Before(p)  == \A q \in 1..(p - 1) : toDev[q].kind \notin Answers
Reporting  == OTA_UPDATE_STATUS /\ REPORT_OTA_STATUS
StaleFirst == \A p \in DOMAIN toDev : Stale(p) => Reporting /\ Before(p)

LEMMA FreshParts == FreshInv <=> (~unsaved => job \notin installed /\ StaleFirst)
BY Zenon DEF FreshInv, StaleFirst, Stale, Before, Reporting

LEMMA FreshPartsNext ==
  FreshInv' <=> (~unsaved' => job' \notin installed' /\ StaleFirst')
BY Zenon DEF FreshInv, StaleFirst, Stale, Before, Reporting

LEMMA StaleNone ==
  ASSUME toDev' = <<>> PROVE StaleFirst'
BY NoMessages, Zenon DEF StaleFirst

(* A message less at the head: those behind it come one place sooner.      *)
LEMMA StaleTail ==
  ASSUME toDev \in Seq(Messages), toDev # <<>>, toDev' = Tail(toDev),
         StaleFirst, installed' = installed,
         Reporting /\ Head(toDev).kind \notin Answers => Reporting'
  PROVE  StaleFirst'
<1>1. /\ 1 \in DOMAIN toDev /\ toDev[1] = Head(toDev)
      /\ \A p \in DOMAIN toDev' :
           /\ p \in Nat /\ p >= 1 /\ p + 1 \in DOMAIN toDev
           /\ toDev'[p] = toDev[p + 1]
  BY TailMessages
<1> SUFFICES ASSUME NEW p \in DOMAIN toDev', Stale(p)'
             PROVE  Reporting' /\ Before(p)'
  BY Zenon DEF StaleFirst
<1>2. Stale(p + 1)
  BY <1>1, Zenon DEF Stale
<1>3. Reporting /\ Before(p + 1)
  BY <1>1, <1>2, Zenon DEF StaleFirst
<1>4. p \in Nat /\ p >= 1
  BY <1>1
<1>5. \A q \in 1..p : toDev[q].kind \notin Answers
  <2>1. (p + 1) - 1 = p
    BY <1>4, SMT
  <2> QED BY <1>3, <2>1 DEF Before
<1>6. Head(toDev).kind \notin Answers
  <2>1. 1 \in 1..p
    BY <1>4, SMT
  <2> QED BY <1>1, <1>5, <2>1, Zenon
<1>7. Reporting'
  BY <1>3, <1>6, Zenon
<1>8. ASSUME NEW q \in 1..(p - 1) PROVE toDev'[q].kind \notin Answers
  <2>1. q + 1 \in 1..p
    BY <1>4, SMT
  <2>2. q \in DOMAIN toDev'
    <3>1. DOMAIN toDev' = 1..Len(toDev') /\ Len(toDev') \in Nat
      <4> HIDE DEF Messages
      <4> QED BY SMT
    <3> QED BY <3>1, <1>4, SMT
  <2>3. toDev'[q] = toDev[q + 1]
    BY <1>1, <2>2
  <2> QED BY <1>5, <2>1, <2>3, Zenon
<1>9. Before(p)'
  BY <1>8, Zenon DEF Before
<1> QED BY <1>7, <1>9

(* Messages added behind the others: those that would start an installed   *)
(* job are old ones.                                                       *)
LEMMA StaleAdded ==
  ASSUME toDev \in Seq(Messages), StaleFirst, installed' = installed,
         \A p \in DOMAIN toDev' :
           /\ p \in Nat
           /\ Stale(p)' => p \in DOMAIN toDev
           /\ p \in DOMAIN toDev => toDev'[p] = toDev[p],
         toDev' \in Seq(Messages),
         Reporting => Reporting'
  PROVE  StaleFirst'
<1> SUFFICES ASSUME NEW p \in DOMAIN toDev', Stale(p)'
             PROVE  Reporting' /\ Before(p)'
  BY Zenon DEF StaleFirst
<1>1. p \in DOMAIN toDev /\ toDev'[p] = toDev[p] /\ p \in Nat
  BY Zenon
<1>2. Stale(p)
  BY <1>1, Zenon DEF Stale
<1>3. Reporting /\ Before(p)
  BY <1>1, <1>2, Zenon DEF StaleFirst
<1>4. ASSUME NEW q \in 1..(p - 1) PROVE toDev'[q].kind \notin Answers
  <2>1. q \in DOMAIN toDev /\ q \in DOMAIN toDev'
    <3> HIDE DEF Messages
    <3>1. /\ DOMAIN toDev = 1..Len(toDev) /\ Len(toDev) \in Nat
          /\ DOMAIN toDev' = 1..Len(toDev') /\ Len(toDev') \in Nat
      BY SMT
    <3> QED BY <1>1, <3>1, SMT
  <2>2. toDev'[q] = toDev[q]
    BY <2>1, Zenon
  <2> QED BY <1>3, <2>2, Zenon DEF Before
<1>5. Before(p)'
  BY <1>4, Zenon DEF Before
<1> QED BY <1>3, <1>5

LEMMA StaleSame ==
  ASSUME StaleFirst, UNCHANGED <<toDev, installed, OTA_UPDATE_STATUS, REPORT_OTA_STATUS>>
  PROVE  StaleFirst'
<1>1. Reporting => Reporting'
  BY SMT DEF Reporting
<1>2. \A p : (Stale(p)' => Stale(p)) /\ (Before(p) => Before(p)')
  BY Zenon DEF Stale, Before
<1> QED BY <1>1, <1>2, Zenon DEF StaleFirst

(* A publication of the device offers no job that has been installed: one  *)
(* that is queued would be the one reported, and end with it.              *)
LEMMA SendFresh ==
  ASSUME DataOK, OrderInv, NEW j, NEW r \in {"succeeded", "failed"}, Send(j, r),
         StaleFirst, installed' = installed, Reporting => Reporting',
         \A k \in installed : status[k] = "queued" => k = j
  PROVE  StaleFirst'
<1> HIDE DEF Messages
<1>1. toDev \in Seq(Messages) /\ toDev' \in Seq(Messages)
      /\ status \in [Jobs -> {"none", "queued", "succeeded", "failed"}]
      /\ status' \in [Jobs -> {"none", "queued", "succeeded", "failed"}]
  BY SendTyped DEF DataOK
<1>2. CASE Update(j, r)
  <2>1. Answered
    BY <1>2, UpdateAnswered
  <2>2. ASSUME NEW p \in DOMAIN toDev', Stale(p)', p \notin DOMAIN toDev PROVE FALSE
    <3>1. toDev'[p].kind = "next" /\ toDev'[p].job \in installed
      BY <2>2, Zenon DEF Stale
    <3>2. toDev'[p] \notin {Accepted, Rejected}
      BY <3>1 DEF Accepted, Rejected
    <3>3. First(status') # NoJob /\ toDev'[p] = NextIs(First(status'))
      BY <2>1, <2>2, <3>2, Zenon DEF Answered
    <3> DEFINE k == First(status')
    <3>4. k \in installed
      BY <3>1, <3>3 DEF NextIs
    <3>5. k \in Jobs /\ status'[k] = "queued"
      BY <3>3, FirstQueued DEF Queued
    <3>6. \/ status' = status
          \/ j \in Jobs /\ status[j] = "queued" /\ status' = [status EXCEPT ![j] = r]
      BY SendMoves
    <3>7. status[k] = "queued"
      BY <1>1, <3>5, <3>6
    <3>8. k = j
      BY <3>4, <3>7
    <3>9. status' = [status EXCEPT ![j] = r]
      BY <1>2, <3>5, <3>7, <3>8 DEF Update, Queued
    <3> QED BY <1>1, <3>5, <3>8, <3>9
  <2>3. \A p \in DOMAIN toDev' :
          /\ p \in Nat
          /\ Stale(p)' => p \in DOMAIN toDev
          /\ p \in DOMAIN toDev => toDev'[p] = toDev[p]
    BY <2>1, <2>2, Zenon DEF Answered
  <2> QED BY <1>1, <2>3, StaleAdded
<1>3. CASE UNCHANGED service
  <2>1. toDev' = toDev
    BY <1>3 DEF service
  <2>2. \A p \in DOMAIN toDev' : p \in Nat
    BY <1>1, SMT
  <2> QED BY <1>1, <2>1, <2>2, StaleAdded
<1> QED BY <1>2, <1>3 DEF Send, Lost, service

(* The next message of the device is no stale one, unless the report of    *)
(* the job is due.                                                         *)
LEMMA HeadFresh ==
  ASSUME toDev \in Seq(Messages), toDev # <<>>, StaleFirst, ~OTA_UPDATE_STATUS,
         Head(toDev).kind = "next"
  PROVE  Head(toDev).job \notin installed
<1>1. 1 \in DOMAIN toDev /\ toDev[1] = Head(toDev)
  <2> HIDE DEF Messages
  <2> QED BY SMT
<1> QED BY <1>1, Zenon DEF StaleFirst, Stale, Reporting

(* The job that a step takes up has not been installed. *)
LEMMA JobFresh ==
  ASSUME DataOK, DataOK', SuccessInv, [Next]_vars, job \notin installed, StaleFirst
  PROVE  job' \notin installed'
<1> HIDE DEF Messages
<1>1. CASE job' = NoJob
  BY <1>1, Kinds DEF DataOK
<1>2. CASE UNCHANGED <<job, installed>>
  BY <1>2
<1>3. CASE StartJob \/ RefuseJob
  <2>1. Head(toDev).kind = "next" /\ toDev # <<>> /\ ~OTA_UPDATE_STATUS
        /\ job' = Head(toDev).job
    BY <1>3 DEF StartJob, RefuseJob, Take
  <2>2. installed' = installed
    BY <1>3 DEF StartJob, RefuseJob, history
  <2> QED BY <2>1, <2>2, HeadFresh DEF DataOK
<1>4. CASE GetPending \/ IgnoreNext \/ NoNext \/ UpdateAccepted \/ UpdateRejected
  BY <1>4, <1>2 DEF GetPending, IgnoreNext, NoNext, UpdateAccepted, UpdateRejected,
                    thread, history
<1>5. CASE RecordJob \/ Load \/ NoteVersion
  BY <1>5, <1>2 DEF RecordJob, Load, NoteVersion, history
<1>6. CASE Refuse \/ NoScript
  BY <1>6, <1>1 DEF Refuse, NoScript, Done
<1>7. CASE Install \/ Restart
  BY <1>7, <1>1 DEF Install, Restart, Boot
<1>8. CASE LoopStep
  BY <1>8, <1>2 DEF LoopStep, Report, ReportRom, RomAnswered, GotShadow, Loop,
                    thread, history
<1>9. CASE CreateJob \/ LoseMessage \/ Connect \/ Disconnect \/ Reconnect \/ UNCHANGED vars
  BY <1>9, <1>2 DEF CreateJob, LoseMessage, Connect, Disconnect, Reconnect, vars,
                    thread, history
<1> QED BY <1>3, <1>4, <1>5, <1>6, <1>7, <1>8, <1>9 DEF Next, Callback, JobStep

LEMMA StaleKept ==
  ASSUME DataOK, DataOK', SuccessInv, OrderInv, [Next]_vars, StaleFirst,
         \A j \in installed : status[j] = "queued" => Due(j)
  PROVE  StaleFirst'
<1> HIDE DEF Messages
<1>1. toDev \in Seq(Messages) /\ toDev' \in Seq(Messages)
  BY DEF DataOK
<1>2. pc # "run" => ~OTA_UPDATE_STATUS
  BY Zenon DEF SuccessInv, ProgramInv
<1>3. \A j \in installed : status[j] = "queued" =>
        dbJob = j /\ pc = "run" /\ Reporting
  BY Zenon DEF Due, Reporting
<1>4. CASE CreateJob
  <2>1. PICK j \in Jobs :
          /\ status[j] = "none"
          /\ Publish(IF Queued(status) = {} THEN <<NextIs(j)>> ELSE <<>>)
    BY <1>4 DEF CreateJob
  <2>2. UNCHANGED <<installed, OTA_UPDATE_STATUS, REPORT_OTA_STATUS>>
    BY <1>4 DEF CreateJob, flags, history
  <2>3. j \notin installed
    BY <2>1, InstalledFirst DEF Reached
  <2>4. ASSUME NEW p \in DOMAIN toDev'
        PROVE  /\ p \in Nat
               /\ Stale(p)' => p \in DOMAIN toDev
               /\ p \in DOMAIN toDev => toDev'[p] = toDev[p]
    <3>1. /\ p \in Nat
          /\ \/ p \in DOMAIN toDev /\ toDev'[p] = toDev[p]
             \/ p \notin DOMAIN toDev /\ toDev'[p] = NextIs(j)
      BY <1>1, <2>1, CreateMessages, Zenon
    <3>2. CASE p \in DOMAIN toDev /\ toDev'[p] = toDev[p]
      BY <3>1, <3>2
    <3>3. CASE p \notin DOMAIN toDev /\ toDev'[p] = NextIs(j)
      <4>1. toDev'[p].job = j
        BY <3>3 DEF NextIs
      <4>2. ~Stale(p)'
        BY <2>2, <2>3, <4>1, Zenon DEF Stale
      <4> QED BY <3>1, <3>3, <4>2, Zenon
    <3> QED BY <3>1, <3>2, <3>3, Zenon
  <2>5. Reporting => Reporting'
    BY <2>2, SMT DEF Reporting
  <2> QED BY <1>1, <2>2, <2>4, <2>5, StaleAdded
<1>5. CASE LoseMessage
  <2>1. UNCHANGED <<installed, OTA_UPDATE_STATUS, REPORT_OTA_STATUS>>
    BY <1>5 DEF LoseMessage, flags
  <2>2. Reporting => Reporting'
    BY <2>1, SMT DEF Reporting
  <2>3. toDev # <<>> /\ toDev' = Tail(toDev)
    BY <1>5 DEF LoseMessage
  <2> QED BY <1>1, <2>1, <2>2, <2>3, StaleTail
<1>6. CASE Connect
  <2> DEFINE f == First(status)
  <2>1. toDev' = <<Pending(f), NextIs(f)>>
        /\ UNCHANGED <<status, installed, OTA_UPDATE_STATUS, REPORT_OTA_STATUS>>
    BY <1>6 DEF Connect, flags, history
  <2>2. DOMAIN toDev' = {1, 2} /\ toDev'[1] = Pending(f) /\ toDev'[2] = NextIs(f)
    BY <2>1, SMT
  <2>3. ASSUME NEW p \in DOMAIN toDev', Stale(p)' PROVE Reporting' /\ Before(p)'
    <3>1. toDev'[p].kind = "next" /\ toDev'[p].job \in installed
      BY <2>1, <2>3, Zenon DEF Stale
    <3>2. p = 2
      BY <2>2, <3>1 DEF Pending
    <3>3. f \in installed
      BY <2>2, <3>1, <3>2 DEF NextIs
    <3>4. f # NoJob
      BY <3>3, Kinds DEF DataOK
    <3>5. status[f] = "queued"
      BY <3>4, FirstQueued DEF Queued
    <3>6. Reporting
      BY <1>3, <3>3, <3>5
    <3>7. Reporting'
      BY <2>1, <3>6, SMT DEF Reporting
    <3>8. toDev'[1].kind \notin Answers
      BY <2>2 DEF Pending, Answers
    <3>9. 1..(p - 1) = {1}
      BY <3>2, SMT
    <3>10. Before(p)'
      BY <3>8, <3>9 DEF Before
    <3> QED BY <3>7, <3>10
  <2> QED BY <2>3, Zenon DEF StaleFirst
<1>7. CASE Disconnect
  BY <1>7, StaleNone DEF Disconnect
<1>8. CASE Callback
  <2>1. toDev # <<>> /\ toDev' = Tail(toDev)
    BY <1>8 DEF Callback, GetPending, IgnoreNext, NoNext, StartJob, RefuseJob,
                UpdateAccepted, UpdateRejected, Take
  <2>2. installed' = installed
    BY <1>8 DEF Callback, GetPending, IgnoreNext, NoNext, StartJob, RefuseJob,
                UpdateAccepted, UpdateRejected, history
  <2>3. Reporting /\ Head(toDev).kind \notin Answers => Reporting'
    <3>1. CASE UpdateAccepted \/ UpdateRejected
      BY <3>1 DEF UpdateAccepted, UpdateRejected, Take, Answers
    <3>2. CASE GetPending \/ IgnoreNext \/ NoNext \/ StartJob \/ RefuseJob
      <4>1. UNCHANGED <<OTA_UPDATE_STATUS, REPORT_OTA_STATUS>>
        BY <3>2 DEF GetPending, IgnoreNext, NoNext, StartJob, RefuseJob, flags
      <4> QED BY <4>1, SMT DEF Reporting
    <3> QED BY <1>8, <3>1, <3>2 DEF Callback
  <2> QED BY <1>1, <2>1, <2>2, <2>3, StaleTail
<1>9. CASE Refuse
  <2>1. pc = "refuse" /\ Send(job, "failed") /\ installed' = installed
    BY <1>9 DEF Refuse, At
  <2>2. ~OTA_UPDATE_STATUS
    BY <1>2, <2>1
  <2>3. Reporting => Reporting'
    BY <2>2, Zenon DEF Reporting
  <2>4. \A k \in installed : status[k] = "queued" => k = job
    BY <1>3, <2>1
  <2> QED BY <2>1, <2>3, <2>4, SendFresh
<1>10. CASE Report
  <2>1. /\ Send(dbJob, IF REPORT_OTA_STATUS THEN "succeeded" ELSE "failed")
        /\ installed' = installed
        /\ OTA_UPDATE_STATUS' = REPORT_OTA_STATUS
        /\ REPORT_OTA_STATUS' = REPORT_OTA_STATUS
    BY <1>10 DEF Report
  <2>2. Reporting => Reporting'
    BY <2>1, SMT DEF Reporting
  <2>3. \A k \in installed : status[k] = "queued" => k = dbJob
    BY <1>3
  <2> QED BY <2>1, <2>2, <2>3, SendFresh
<1>11. CASE Install \/ Restart
  BY <1>11, StaleNone DEF Install, Restart, Boot
<1>12. CASE RecordJob \/ Load \/ NoteVersion \/ NoScript
  BY <1>12, StaleSame DEF RecordJob, Load, NoteVersion, NoScript, service, flags, history
<1>13. CASE Reconnect \/ ReportRom \/ RomAnswered \/ GotShadow
  BY <1>13, StaleSame DEF Reconnect, ReportRom, RomAnswered, GotShadow, service,
                          flags, history
<1>14. CASE UNCHANGED vars
  BY <1>14, StaleSame DEF vars, service, flags, history
<1> QED
  BY <1>4, <1>5, <1>6, <1>7, <1>8, <1>9, <1>10, <1>11, <1>12, <1>13, <1>14
     DEF Next, JobStep, LoopStep

LEMMA FreshKept ==
  ASSUME DataOK, DataOK', SuccessInv, InstallInv, [Next]_vars
  PROVE  FreshInv'
<1> SUFFICES ASSUME ~unsaved' PROVE job' \notin installed' /\ StaleFirst'
  BY FreshPartsNext, Zenon
<1>1. ~unsaved
  BY UnsavedStays
<1>2. job \notin installed /\ StaleFirst
  BY <1>1, FreshParts, Zenon DEF InstallInv
<1>3. \A j \in installed : status[j] = "queued" => Due(j)
  BY <1>1, Zenon DEF InstallInv, DueInv
<1>4. OrderInv
  BY DEF InstallInv
<1> QED BY <1>2, <1>3, <1>4, JobFresh, StaleKept

LEMMA InstallInit == Init => InstallInv
<1> SUFFICES ASSUME Init PROVE InstallInv
  OBVIOUS
<1>1. /\ status = [j \in Jobs |-> "none"] /\ toDev = <<>> /\ installed = {}
      /\ job = NoJob /\ pc = "run"
  BY DEF Init
<1>2. DOMAIN toDev = {}
  BY <1>1, SMT
<1>3. OrderInv
  BY <1>1, <1>2 DEF OrderInv, InOrder, Heard, Offered
<1>4. DueInv
  BY <1>1 DEF DueInv
<1>5. FreshInv
  BY <1>1, <1>2 DEF FreshInv
<1> QED BY <1>3, <1>4, <1>5 DEF InstallInv

(* All that holds together at every step. *)
OtaInv == DataOK /\ SuccessInv /\ InstallInv

LEMMA OtaInvInit == Init => OtaInv
<1>1. Init => DataOK /\ SuccessInv
  BY InitData, InitSuccess
<1> QED BY <1>1, InstallInit DEF OtaInv

LEMMA OtaInvNext == OtaInv /\ [Next]_vars => OtaInv'
<1> SUFFICES ASSUME OtaInv, [Next]_vars PROVE OtaInv'
  OBVIOUS
<1>1. DataOK /\ SuccessInv /\ InstallInv
  BY DEF OtaInv
<1>2. DataOK' /\ SuccessInv'
  BY <1>1, DataTyped, SuccessKept
<1>3. OrderInv' /\ DueInv'
  BY <1>1, OrderKept, DueKept DEF InstallInv
<1>4. FreshInv'
  BY <1>1, <1>2, FreshKept
<1> QED BY <1>2, <1>3, <1>4 DEF OtaInv, InstallInv

(* An installed job that is in the queue is the one that the database, the *)
(* running program, the report that is due and every message on its way to *)
(* the device speak of, in every order of losses, restarts and answers -   *)
(* unless base_config.db could not be written.                             *)
THEOREM InstallInvariant == Spec => []InstallInv
<1>1. OtaInv => InstallInv
  BY DEF OtaInv
<1> QED BY OtaInvInit, OtaInvNext, <1>1, PTL DEF Spec

(* aws_report_iot_update_result sends a failure for no job that run.sh has *)
(* installed, and iot_next_job_callback_handler refuses none, as long as   *)
(* base_config.db can be written.                                          *)
THEOREM FailureCorrect == Spec => FailureIsTrue
<1>1. OtaInv /\ [Next]_vars =>
        [\A j \in installed : status[j] = "queued" /\ status'[j] = "failed" => unsaved]_vars
  <2> SUFFICES ASSUME OtaInv, Next, NEW j \in installed,
                      status[j] = "queued", status'[j] = "failed", ~unsaved
               PROVE  FALSE
    OBVIOUS
  <2>1. DataOK /\ SuccessInv /\ OrderInv /\ DueInv /\ FreshInv
    BY DEF OtaInv, InstallInv
  <2>2. dbJob = j /\ pc = "run" /\ REPORT_OTA_STATUS
    BY <2>1, Zenon DEF DueInv, Due
  <2>3. status \in [Jobs -> {"none", "queued", "succeeded", "failed"}] /\ j \in Jobs
    BY <2>1 DEF DataOK
  <2>4. ~Refuse
    BY <2>2 DEF Refuse, At
  <2>5. ~Report
    <3> SUFFICES ASSUME Report PROVE FALSE
      OBVIOUS
    <3>1. Send(dbJob, IF REPORT_OTA_STATUS THEN "succeeded" ELSE "failed")
      BY DEF Report
    <3>2. (IF REPORT_OTA_STATUS THEN "succeeded" ELSE "failed") = "succeeded"
      BY <2>2, Zenon
    <3>3. Send(j, "succeeded")
      BY <2>2, <3>1, <3>2
    <3>4. status' = status \/ status' = [status EXCEPT ![j] = "succeeded"]
      BY <2>1, <3>3, SendMoves
    <3> QED BY <2>3, <3>4
  <2>6. ~CreateJob
    <3> SUFFICES ASSUME CreateJob PROVE FALSE
      OBVIOUS
    <3>1. PICK k \in Jobs : status' = [status EXCEPT ![k] = "queued"]
      BY DEF CreateJob
    <3> QED BY <2>3, <3>1
  <2>7. status' = status
    BY <2>4, <2>5, <2>6
       DEF Next, LoseMessage, Connect, Disconnect, Reconnect, Callback, GetPending,
           IgnoreNext, NoNext, StartJob, RefuseJob, UpdateAccepted, UpdateRejected,
           Take, JobStep, RecordJob, Load, NoteVersion, NoScript, Install, Boot,
           LoopStep, ReportRom, RomAnswered, GotShadow, Restart, service
  <2> QED BY <2>7
<1> QED BY OtaInvInit, OtaInvNext, <1>1, PTL DEF Spec, FailureIsTrue

(* The download of a job that run.sh has installed is never begun again,   *)
(* however often the report is lost or the device restarts: the messages   *)
(* that offer it find the report due, and are gone when its answer comes.  *)
THEOREM NoReinstallHolds == Spec => NoReinstall
<1>1. OtaInv /\ [Next]_vars =>
        [pc' = "load" /\ pc # "load" => job \notin installed \/ unsaved]_vars
  BY Zenon DEF OtaInv, InstallInv, FreshInv
<1> QED BY OtaInvInit, OtaInvNext, <1>1, PTL DEF Spec, NoReinstall
=============================================================================
