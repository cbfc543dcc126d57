------------------------------ MODULE OtaUpdate ------------------------------
(***************************************************************************)
(* How new firmware reaches the device.  The jobs service of AWS IoT holds *)
(* a queue of jobs; a job names an archive.  The IoT thread (awsIotTask.c) *)
(* is told of the next job, downloads and unpacks the archive              *)
(* (awsOTA.go), notes in base_config.db what it expects to run next and    *)
(* starts the script of the archive, which copies the program and reboots. *)
(* The program that comes up compares itself with the note                 *)
(* (httpclient.go) and reports the outcome to the service for the job that *)
(* the database names.                                                     *)
(*                                                                         *)
(* All callbacks run in the IoT thread, inside aws_iot_shadow_yield; pc is *)
(* "run" between them and names the next step of the one that handles a    *)
(* job.  Job j ships version j; version 0 is the one of the factory, job 0 *)
(* one that the service does not know.                                     *)
(***************************************************************************)
EXTENDS Naturals, Sequences, FiniteSets

CONSTANTS
  MaxJobs,     \* bound on the jobs the backend creates
  BadJobs,     \* jobs whose document cannot be read
  DbFaults,    \* TRUE: a write of base_config.db may fail
  LoadFaults,  \* TRUE: a download may stop short, the script may not install
  MaxMsgs,     \* bound on the messages on their way to the device
  MaxLosses,   \* bound on lost messages and connections
  MaxRestarts  \* bound on the restarts that no script asks for

ASSUME BoundAssumption ==
  /\ MaxJobs \in Nat /\ MaxMsgs \in Nat
  /\ MaxLosses \in Nat /\ MaxRestarts \in Nat

ASSUME JobAssumption == BadJobs \subseteq 1..MaxJobs

VARIABLES
  status,      \* the service: what has become of each job
  toDev,       \* messages on their way to the device, in order
  session,     \* "none" before the first connection, "up", "down"
  getShadow,   \* getShadowFlag: ask for the shadow
  romVersion,  \* reported.romVersion of the shadow
  romSent,     \* the version of a report without an answer yet
  dbJob,       \* jobId in base_config.db
  otaResult,   \* otaResult in base_config.db
  softWareBak, \* softWare_bak: the version that should come up
  softVer,     \* soft_ver: the version that is reported
  txt,         \* the version in ota/version.txt
  app,         \* the version of the program on disk
  OTA_UPDATE_STATUS, REPORT_OTA_STATUS, \* a report is due; what it says
  devVersion,  \* devMsg.version
  reportromVersionFlag,
  pc, job,     \* the IoT thread, and the job it is at
  losses, restarts

\* History.
VARIABLES
  installed,   \* jobs whose version has been copied by the script
  renamed,     \* dbJob is not the job that otaResult is about
  mixed,       \* jobs reported with the outcome of another one
  unsaved,     \* a write of the database has failed
  missed,      \* jobs that the device was told of and let go
  late         \* an answer has cleared the flag of a newer report

service == <<status, toDev>>
shadow  == <<getShadow, romVersion, romSent>>
db      == <<dbJob, otaResult, softWareBak, softVer>>
disk    == <<txt, app>>
flags   == <<OTA_UPDATE_STATUS, REPORT_OTA_STATUS>>
rom     == <<devVersion, reportromVersionFlag>>
thread  == <<pc, job>>
history == <<installed, renamed, mixed, unsaved, missed, late>>
vars == <<service, session, shadow, db, disk, flags, rom, thread, losses,
          restarts, history>>

Jobs      == 1..MaxJobs
NoJob     == 0
NoVersion == MaxJobs + 1   \* version.txt is not there
Nothing   == MaxJobs + 2   \* no report is under way

Queued(st)  == {j \in Jobs : st[j] = "queued"}
\* The job the service offers next: the oldest one in the queue.
First(st)   == IF Queued(st) = {} THEN NoJob
               ELSE CHOOSE j \in Queued(st) : \A k \in Queued(st) : j <= k

Pending(j)  == [kind |-> "pending", job |-> j]
NextIs(j)   == [kind |-> "next", job |-> j]
Accepted    == [kind |-> "accepted", job |-> NoJob]
Rejected    == [kind |-> "rejected", job |-> NoJob]

Messages == [kind : {"pending", "next", "accepted", "rejected"},
             job : Jobs \cup {NoJob}]
Versions == 0..(MaxJobs + 1)

Init ==
  /\ status = [j \in Jobs |-> "none"] /\ toDev = <<>>
  /\ session = "none" /\ getShadow = FALSE
  /\ romVersion = 0 /\ romSent = Nothing
  /\ dbJob = NoJob /\ otaResult \in {"ok", "err"}
  /\ softWareBak = 0 /\ softVer = 0 /\ txt = 0 /\ app = 0
  /\ OTA_UPDATE_STATUS = TRUE /\ REPORT_OTA_STATUS = (otaResult = "ok")
  /\ devVersion = 0 /\ reportromVersionFlag = FALSE
  /\ pc = "run" /\ job = NoJob
  /\ losses = 0 /\ restarts = 0
  /\ installed = {} /\ renamed = FALSE /\ mixed = {} /\ unsaved = FALSE
  /\ missed = {} /\ late = FALSE

-----------------------------------------------------------------------------
(* The service *)

\* Messages reach a connected device only.
Publish(ms) == toDev' = IF session = "up" THEN toDev \o ms ELSE toDev

CreateJob ==
  /\ Len(toDev) < MaxMsgs
  /\ \E j \in Jobs :
       /\ status[j] = "none" /\ \A k \in 1..(j - 1) : status[k] # "none"
       /\ status' = [status EXCEPT ![j] = "queued"]
       /\ Publish(IF Queued(status) = {} THEN <<NextIs(j)>> ELSE <<>>)
  /\ UNCHANGED <<session, shadow, db, disk, flags, rom, thread, losses,
                 restarts, history>>

(* An update of job j: only a job in the queue can end, and what is next   *)
(* is announced after the answer.                                          *)
Update(j, result) ==
  IF j \in Queued(status)
  THEN /\ status' = [status EXCEPT ![j] = result]
       /\ Publish(<<Accepted>> \o IF First(status') = NoJob THEN <<>>
                                  ELSE <<NextIs(First(status'))>>)
  ELSE status' = status /\ Publish(<<Rejected>>)

Lost == /\ losses < MaxLosses /\ losses' = losses + 1
        /\ UNCHANGED service

\* A publication of the device reaches the service, or is lost.
Send(j, result) ==
  \/ session = "up" /\ Update(j, result) /\ UNCHANGED losses
  \/ session = "up" /\ Lost
  \/ session = "down" /\ UNCHANGED <<service, losses>>

LoseMessage ==
  /\ toDev # <<>> /\ losses < MaxLosses
  /\ toDev' = Tail(toDev) /\ losses' = losses + 1
  /\ missed' = missed \cup IF Head(toDev).kind = "next" THEN {Head(toDev).job}
                           ELSE {}
  /\ UNCHANGED <<status, session, shadow, db, disk, flags, rom, thread,
                 restarts, installed, renamed, mixed, unsaved, late>>

-----------------------------------------------------------------------------
(* The session: its setup, the loss of the link and what follows *)

(* write_plate_aws_iot_shadow_init subscribes to the topics of the jobs    *)
(* and asks for the pending ones and for the next.  A session that is down *)
(* for 120 s is set up again.                                              *)
Connect ==
  /\ session \in {"none", "down"} /\ pc = "run"
  /\ session' = "up" /\ getShadow' = TRUE
  /\ devVersion' = softVer
  /\ toDev' = <<Pending(First(status)), NextIs(First(status))>>
  /\ UNCHANGED <<status, romVersion, romSent, db, disk, flags,
                 reportromVersionFlag, thread, losses, restarts, history>>

\* disconnectCallbackHandler
Disconnect ==
  /\ session = "up" /\ losses < MaxLosses
  /\ session' = "down" /\ getShadow' = TRUE
  /\ toDev' = <<>> /\ losses' = losses + 1
  /\ UNCHANGED <<status, romVersion, romSent, db, disk, flags, rom, thread,
                 restarts, history>>

(* The client reconnects by itself within the 120 s and asks for the       *)
(* shadow only: a job that was announced meanwhile stays unheard of.       *)
Reconnect ==
  /\ session = "down" /\ pc = "run"
  /\ session' = "up"
  /\ missed' = missed \cup {First(status)}
  /\ UNCHANGED <<service, shadow, db, disk, flags, rom, thread, losses,
                 restarts, installed, renamed, mixed, unsaved, late>>

-----------------------------------------------------------------------------
(* What the callbacks do with a message *)

\* The thread takes a message of this kind off the connection.
Take(kind) ==
  /\ pc = "run" /\ session = "up" /\ toDev # <<>>
  /\ Head(toDev).kind = kind
  /\ toDev' = Tail(toDev)
  /\ UNCHANGED <<status, session, shadow, losses, restarts>>

\* read_version_from_txt
ReadVersion == txt

\* A write of the database that the code does not look at again.
Write(good, bad) ==
  \/ good /\ UNCHANGED unsaved
  \/ DbFaults /\ bad /\ unsaved' = TRUE

(* iot_get_pending_callback_handler: the first queued job becomes the job  *)
(* of the database, whatever is under way.                                 *)
GetPending ==
  /\ Take("pending")
  /\ LET j == Head(toDev).job
     IN IF j = NoJob THEN UNCHANGED <<dbJob, unsaved, renamed>>
        ELSE /\ Write(dbJob' = j, dbJob' = dbJob)
             /\ renamed' = (renamed \/ dbJob' # dbJob)
  /\ UNCHANGED <<otaResult, softWareBak, softVer, disk, flags, rom, thread,
                 installed, mixed, missed, late>>

(* iot_next_job_callback_handler while the outcome of a job is due: the    *)
(* message is dropped.                                                     *)
IgnoreNext ==
  /\ Take("next") /\ OTA_UPDATE_STATUS
  /\ missed' = missed \cup {Head(toDev).job}
  /\ UNCHANGED <<db, disk, flags, rom, thread, installed, renamed, mixed,
                 unsaved, late>>

\* The message carries no execution.
NoNext ==
  /\ Take("next") /\ ~OTA_UPDATE_STATUS /\ Head(toDev).job = NoJob
  /\ UNCHANGED <<db, disk, flags, rom, thread, history>>

\* Mutant of StartJob: the test at the head of the callback is missing.
StartJobAlways ==
  /\ Take("next")
  /\ Head(toDev).job \in Jobs \ BadJobs
  /\ job' = Head(toDev).job /\ pc' = "record"
  /\ Write(otaResult' = "err", otaResult' = otaResult)
  /\ UNCHANGED <<dbJob, softWareBak, softVer, disk, flags, rom, installed,
                 renamed, mixed, missed, late>>

(* A job: sqlite_init_ota_otaResult_config_db, whose result is not looked  *)
(* at.                                                                     *)
StartJob ==
  /\ Take("next") /\ ~OTA_UPDATE_STATUS
  /\ Head(toDev).job \in Jobs \ BadJobs
  /\ job' = Head(toDev).job /\ pc' = "record"
  /\ Write(otaResult' = "err", otaResult' = otaResult)
  /\ UNCHANGED <<dbJob, softWareBak, softVer, disk, flags, rom, installed,
                 renamed, mixed, missed, late>>

\* A document that cannot be read: the job is reported as failed at once.
RefuseJob ==
  /\ Take("next") /\ ~OTA_UPDATE_STATUS
  /\ Head(toDev).job \in BadJobs
  /\ job' = Head(toDev).job /\ pc' = "refuse"
  /\ UNCHANGED <<db, disk, flags, rom, history>>

\* Mutant of UpdateAccepted: the new version is not told to the shadow.
AcceptedQuietly ==
  /\ Take("accepted")
  /\ IF ~OTA_UPDATE_STATUS THEN UNCHANGED <<softVer, rom, flags, unsaved>>
     ELSE /\ OTA_UPDATE_STATUS' = FALSE /\ UNCHANGED REPORT_OTA_STATUS
          /\ Write(softVer' = ReadVersion, softVer' = softVer)
          /\ devVersion' = softVer' /\ UNCHANGED reportromVersionFlag
  /\ UNCHANGED <<dbJob, otaResult, softWareBak, disk, thread, installed,
                 renamed, mixed, missed, late>>

(* iot_update_accepted_callback_handler: the topic has a wildcard for the  *)
(* job, and the answer is taken for the one to the report that is due.     *)
UpdateAccepted ==
  /\ Take("accepted")
  /\ IF ~OTA_UPDATE_STATUS THEN UNCHANGED <<softVer, rom, flags, unsaved>>
     ELSE /\ OTA_UPDATE_STATUS' = FALSE /\ UNCHANGED REPORT_OTA_STATUS
          /\ Write(softVer' = ReadVersion, softVer' = softVer)
          /\ devVersion' = softVer' /\ reportromVersionFlag' = TRUE
  /\ UNCHANGED <<dbJob, otaResult, softWareBak, disk, thread, installed,
                 renamed, mixed, missed, late>>

\* Mutant of UpdateRejected: the report goes on.
RejectedIgnored ==
  /\ Take("rejected")
  /\ UNCHANGED <<db, disk, flags, rom, thread, history>>

\* iot_update_rejected_callback_handler
UpdateRejected ==
  /\ Take("rejected")
  /\ OTA_UPDATE_STATUS' = FALSE /\ UNCHANGED REPORT_OTA_STATUS
  /\ UNCHANGED <<db, disk, rom, thread, history>>

-----------------------------------------------------------------------------
(* The rest of the callback of a job *)

At(l) == pc = l /\ UNCHANGED <<session, shadow, restarts>>
\* Mutant of Done: the thread stays at the job.
DoneKept == pc' = "run" /\ UNCHANGED job

Done  == pc' = "run" /\ job' = NoJob

\* The report of a refused job is sent once; the database is not asked.
Refuse ==
  /\ At("refuse") /\ Done
  /\ Send(job, "failed")
  /\ OTA_UPDATE_STATUS' = FALSE /\ UNCHANGED REPORT_OTA_STATUS
  /\ missed' = IF status'[job] = "queued" THEN missed \cup {job} ELSE missed
  /\ UNCHANGED <<db, disk, rom, installed, renamed, mixed, unsaved, late>>

\* Mutant of RecordJob: the job is left to the callback of the pending ones.
RecordNoJob ==
  /\ At("record") /\ pc' = "load"
  /\ UNCHANGED <<service, db, disk, flags, rom, job, losses, history>>

\* The name of the job is written again and again until the write is good.
RecordJob ==
  /\ At("record") /\ pc' = "load"
  /\ dbJob' = job /\ renamed' = FALSE
  /\ UNCHANGED <<service, otaResult, softWareBak, softVer, disk, flags, rom,
                 job, losses, installed, mixed, unsaved, missed, late>>

(* aws_ota_handler returns 0 whenever it returns.  A second without a byte *)
(* counts as the end; the old archive is removed, and one that is not      *)
(* complete is not unpacked.                                               *)
Load ==
  /\ At("load") /\ pc' = "note"
  /\ \/ txt' = job
     \/ LoadFaults /\ txt' = NoVersion
  /\ UNCHANGED <<service, db, app, flags, rom, job, losses, history>>

\* Mutant of NoteVersion: the outcome is noted, the version is not.
NoteResultOnly ==
  /\ At("note") /\ pc' = "install"
  /\ Write(otaResult' = "ok" /\ UNCHANGED softWareBak,
           UNCHANGED <<softWareBak, otaResult>>)
  /\ UNCHANGED <<service, dbJob, softVer, disk, flags, rom, job, losses,
                 installed, renamed, mixed, missed, late>>

\* sqlite_update_versionBak_config_db
NoteVersion ==
  /\ At("note") /\ pc' = "install"
  /\ Write(softWareBak' = ReadVersion /\ otaResult' = "ok",
           UNCHANGED <<softWareBak, otaResult>>)
  /\ UNCHANGED <<service, dbJob, softVer, disk, flags, rom, job, losses,
                 installed, renamed, mixed, missed, late>>

\* There is no script to run: the callback returns without a report.
NoScript ==
  /\ At("install") /\ txt = NoVersion /\ Done
  /\ missed' = missed \cup {job}
  /\ UNCHANGED <<service, db, disk, flags, rom, losses, installed, renamed,
                 mixed, unsaved, late>>

\* Program v is the one that should come up, from a good download.
Succeeded(v) == v = softWareBak /\ otaResult = "ok"

\* Mutant of Boot: what became of the download is not looked at.
BootByVersion ==
  /\ session' = "none" /\ toDev' = <<>> /\ pc' = "run" /\ job' = NoJob
  /\ getShadow' = FALSE /\ romSent' = Nothing
  /\ OTA_UPDATE_STATUS' = TRUE
  /\ REPORT_OTA_STATUS' = (app' = softWareBak)
  /\ devVersion' = softVer /\ reportromVersionFlag' = FALSE
  /\ UNCHANGED <<status, romVersion, db, txt, losses, renamed, mixed,
                 unsaved, late>>

(* The program comes up: main reads the database and asks for a report of  *)
(* the last update, every time.                                            *)
Boot ==
  /\ session' = "none" /\ toDev' = <<>> /\ pc' = "run" /\ job' = NoJob
  /\ getShadow' = FALSE /\ romSent' = Nothing
  /\ OTA_UPDATE_STATUS' = TRUE
  /\ REPORT_OTA_STATUS' = Succeeded(app')
  /\ devVersion' = softVer /\ reportromVersionFlag' = FALSE
  /\ UNCHANGED <<status, romVersion, db, txt, losses, renamed, mixed,
                 unsaved, late>>

(* run.sh of the archive copies the program and restarts the device, as in  *)
(* meican/ota/run.sh.  The one in otafiles/ota has the copy of this program *)
(* commented out (LoadFaults) and goes on as WriteDisk: the IoT thread then *)
(* stays in system(), at "install", until a script from outside restarts    *)
(* the program.  A script that returns without a restart is left out.       *)
Install ==
  /\ pc = "install" /\ txt # NoVersion
  /\ \/ app' = txt /\ installed' = installed \cup {job}
     \/ LoadFaults /\ UNCHANGED <<app, installed>>
  /\ Boot
  /\ UNCHANGED <<restarts, missed>>

(* A power failure, or a panic of aws_ota_handler, at any step.  What was  *)
(* on its way to the device is gone.                                       *)
Restart ==
  /\ restarts < MaxRestarts /\ restarts' = restarts + 1
  /\ app' = app /\ Boot
  /\ UNCHANGED <<installed, missed>>

-----------------------------------------------------------------------------
(* write_plate_aws_iot_shadow_task, between the callbacks *)

Loop == pc = "run" /\ session # "none"
        /\ UNCHANGED <<session, disk, thread, restarts>>

(* aws_report_iot_update_result, for the job that the database names now.  *)
(* A success is sent again in every loop until it is answered, a failure   *)
(* once.                                                                   *)
Report ==
  /\ Loop /\ OTA_UPDATE_STATUS
  /\ Len(toDev) < MaxMsgs
  /\ Send(dbJob, IF REPORT_OTA_STATUS THEN "succeeded" ELSE "failed")
  /\ OTA_UPDATE_STATUS' = REPORT_OTA_STATUS
  /\ mixed' = IF renamed THEN mixed \cup {dbJob} ELSE mixed
  /\ UNCHANGED <<shadow, db, rom, REPORT_OTA_STATUS, installed, renamed,
                 unsaved, missed, late>>

\* aws_iot_shadow_report_romversion; without a link it is asked for again.
ReportRom ==
  /\ Loop /\ session = "up" /\ reportromVersionFlag /\ romSent = Nothing
  /\ reportromVersionFlag' = FALSE /\ romSent' = devVersion
  /\ UNCHANGED <<service, getShadow, romVersion, db, flags, devVersion,
                 losses, history>>

(* ShadowMenuUpdateRomVersionStatusCallback: the flag is set by the        *)
(* answer, whatever was asked for since the report.                        *)
RomAnswered ==
  /\ Loop /\ romSent # Nothing
  /\ romSent' = Nothing
  /\ \/ /\ session = "up"
        /\ romVersion' = romSent /\ reportromVersionFlag' = FALSE
        /\ late' = (late \/ reportromVersionFlag)
        /\ UNCHANGED losses
     \/ /\ IF session = "up" THEN losses < MaxLosses /\ losses' = losses + 1
                             ELSE UNCHANGED losses
        /\ reportromVersionFlag' = TRUE /\ UNCHANGED <<romVersion, late>>
  /\ UNCHANGED <<service, getShadow, db, flags, devVersion, installed,
                 renamed, mixed, unsaved, missed>>

\* GetShadowStatusCallback, asked for in every loop until it is answered.
GotShadow ==
  /\ Loop /\ session = "up" /\ getShadow
  /\ getShadow' = FALSE /\ reportromVersionFlag' = TRUE
  /\ UNCHANGED <<service, romVersion, romSent, db, flags, devVersion, losses,
                 history>>

-----------------------------------------------------------------------------
Callback == GetPending \/ IgnoreNext \/ NoNext \/ StartJob \/ RefuseJob
            \/ UpdateAccepted \/ UpdateRejected
JobStep  == Refuse \/ RecordJob \/ Load \/ NoteVersion \/ NoScript \/ Install
LoopStep == Report \/ ReportRom \/ RomAnswered \/ GotShadow

Next == \/ CreateJob \/ LoseMessage \/ Connect \/ Disconnect
        \/ Reconnect \/ Callback \/ JobStep \/ LoopStep \/ Restart

Spec == Init /\ [][Next]_vars

(* The IoT thread loops for ever: it takes what has arrived, goes on with  *)
(* a job, reports and sets the session up.  Nothing is asked of the        *)
(* backend, of losses and of restarts.                                     *)
FairSpec == Spec /\ WF_vars(Connect \/ Reconnect) /\ WF_vars(Callback)
                 /\ WF_vars(JobStep) /\ WF_vars(Report) /\ WF_vars(ReportRom)
                 /\ WF_vars(RomAnswered) /\ WF_vars(GotShadow)

-----------------------------------------------------------------------------
(* Properties *)

DataOK ==
  /\ status \in [Jobs -> {"none", "queued", "succeeded", "failed"}]
  /\ toDev \in Seq(Messages)
  /\ session \in {"none", "up", "down"}
  /\ romVersion \in Versions /\ romSent \in Versions \cup {Nothing}
  /\ dbJob \in Jobs \cup {NoJob} /\ otaResult \in {"ok", "err"}
  /\ {softWareBak, softVer, txt, app, devVersion} \subseteq Versions
  /\ pc \in {"run", "refuse", "record", "load", "note", "install"}
  /\ job \in Jobs \cup {NoJob} /\ (job = NoJob <=> pc = "run")
  /\ losses \in 0..MaxLosses /\ restarts \in 0..MaxRestarts
  /\ installed \in SUBSET Jobs /\ mixed \in SUBSET Jobs
  /\ renamed => dbJob \in Jobs
  /\ missed \in SUBSET (Jobs \cup {NoJob})

FlagsOK ==
  /\ getShadow \in BOOLEAN /\ reportromVersionFlag \in BOOLEAN
  /\ OTA_UPDATE_STATUS \in BOOLEAN /\ REPORT_OTA_STATUS \in BOOLEAN
  /\ renamed \in BOOLEAN /\ unsaved \in BOOLEAN /\ late \in BOOLEAN

\* The values the variables may take.
TypeOK == DataOK /\ FlagsOK

(* A job that the service holds as succeeded has been installed, whatever  *)
(* crashed or was lost in between - unless the callback of the pending     *)
(* jobs had put it in the place of the job that otaResult is about, or the *)
(* database could not be written.                                          *)
SuccessIsInstalled ==
  \A j \in Jobs : status[j] = "succeeded" =>
                    j \in installed \cup mixed \/ unsaved

(* The same without the exemption: what the database says is a backup of   *)
(* the job under way (awsIotTask.c:361).                                   *)
OnlyInstalledSucceeds ==
  \A j \in Jobs : status[j] = "succeeded" => j \in installed

(* The device does not report a job as failed that it has installed,       *)
(* unless the database could not be written.  No other exemption: while    *)
(* the job is in the queue, it is the one that the callback of the pending *)
(* jobs puts into the database.                                            *)
FailureIsTrue ==
  [][\A j \in installed : status[j] = "queued" /\ status'[j] = "failed"
                          => unsaved]_vars

(* The device never fetches again what it has installed: the report of an  *)
(* update comes before the next job (line 299), however often a message is *)
(* lost or the device restarts.                                            *)
NoReinstall ==
  [][pc' = "load" /\ pc # "load" => job \notin installed \/ unsaved]_vars

(* A job in the queue ends, unless the device was told of it or of one     *)
(* before it and let that go, or was not connected when it was announced:  *)
(* a session asks for the next job once.                                   *)
JobsEnd ==
  \A j \in Jobs : status[j] = "queued" ~> \/ status[j] # "queued"
                                          \/ missed \cap (1..j) # {}

(* The report of an update comes to an end, so that jobs are taken again.  *)
ReportEnds == OTA_UPDATE_STATUS ~> ~OTA_UPDATE_STATUS

(* In the end the shadow names the version that the database names, unless *)
(* an answer came between.                                                 *)
VersionTold == <>[](late \/ romVersion = softVer)

-----------------------------------------------------------------------------
(* The invariant that makes SuccessIsInstalled inductive *)

\* The database speaks of the job that it names.
Trusted == ~unsaved /\ ~renamed

(* What runs has been installed; and a callback that handles a job runs    *)
(* while no report is due.                                                 *)
ProgramInv ==
  /\ app \in 0..MaxJobs /\ (app \in Jobs => app \in installed)
  /\ pc # "run" => ~OTA_UPDATE_STATUS

(* From the record to the script the database names the job at hand, and   *)
(* the version on disk is its own, or none.                                *)
JobInv ==
  /\ pc = "record" => otaResult = "err" \/ unsaved
  /\ pc \in {"load", "note", "install"} => dbJob = job /\ ~renamed
  /\ pc \in {"note", "install"} => txt \in {job, NoVersion}

(* A database that speaks of a good download expects the version of the    *)
(* job it names; a success that is due is that of an installed job.        *)
ReportInv ==
  /\ otaResult = "ok" /\ Trusted => softWareBak \in {dbJob, NoVersion}
  /\ OTA_UPDATE_STATUS /\ REPORT_OTA_STATUS /\ Trusted
       => dbJob \in installed \cup {NoJob}

SuccessInv == ProgramInv /\ JobInv /\ ReportInv /\ SuccessIsInstalled

-----------------------------------------------------------------------------
(* The invariant behind FailureIsTrue and NoReinstall                      *)

(* Jobs are created in the order of their numbers; a job that the device   *)
(* has heard of has been created, and those before it have ended.          *)
InOrder(st) == \A j, k \in Jobs : j < k /\ st[k] # "none" => st[j] # "none"

Reached(st, k) ==
  /\ st[k] # "none"
  /\ \A j \in Jobs : j < k => st[j] \in {"succeeded", "failed"}

Offered == {toDev[p].job : p \in DOMAIN toDev}
Heard   == (Offered \cup installed \cup {job}) \ {NoJob}

OrderInv == InOrder(status) /\ \A k \in Heard : Reached(status, k)

(* An installed job that is still in the queue is the one that everything  *)
(* else speaks of: the database, the program, the report that is due and   *)
(* the messages, none of which is an answer that would end the report.     *)
Due(j) ==
  /\ dbJob = j /\ ~renamed /\ app = j /\ Succeeded(j)
  /\ pc = "run" /\ OTA_UPDATE_STATUS /\ REPORT_OTA_STATUS
  /\ \A p \in DOMAIN toDev : toDev[p] \in {Pending(j), NextIs(j)}

DueInv ==
  ~unsaved =>
    /\ pc = "install" => Succeeded(txt)
    /\ \A j \in installed : status[j] = "queued" => Due(j)

(* The job at hand has not been installed.  A message that would start one *)
(* that has been comes before the answers to its report, which is due      *)
(* until one of them is taken.                                             *)
Answers == {"accepted", "rejected"}

FreshInv ==
  ~unsaved =>
    /\ job \notin installed
    /\ \A p \in DOMAIN toDev :
         toDev[p].kind = "next" /\ toDev[p].job \in installed =>
           /\ OTA_UPDATE_STATUS /\ REPORT_OTA_STATUS
           /\ \A q \in 1..(p - 1) : toDev[q].kind \notin Answers

InstallInv == OrderInv /\ DueInv /\ FreshInv
=============================================================================
