# Plate writer: a TLA+ verification project

The program is the control software of an embedded "plate writer" (写盘器): a
device in a canteen kitchen that writes the id of a dish into the RFID tag of
every plate that is laid on its antenna.  One Linux process does the work: a Go
`main` that starts C threads through cgo.  It talks to a Qt user interface in
another process, to an HTTP backend, to AWS IoT (shadow and jobs), to a
phone over Bluetooth LE, and in the factory to a tester over CAN.  Its settings
live in sqlite files and survive a restart.

This directory holds TLA+ modules that model its core, the TLC configurations
that check them on small instances, and TLAPS proofs for every value of the
constants.

## 1. Inventory

| component | sources | state | operations | talks to |
|---|---|---|---|---|
| Plate writing thread | `rewrCardTask.c`, `cAppTask.c` | `writePlataStatus` 0-3, `tag_bak`, `tagnumbak` | find, read, check, write a tag; wait until it is taken | Qt (results), menu dish database, stop flag |
| Qt receiver, Qt sender | `msgTask.c` | `stopWritePlateFlag`, ring queue of messages | select a dish, stop, unbind, provision, restart, network query | SysV message queues to Qt |
| Menu database | `sqliteTask.c`, `httpclient.go` | `writeplatemenu.db` (dish being written), one table per page of the menu shown by Qt | write and read the dish; clear the tables, walk over an answer, insert rows | writer, Qt, menu synchronisation |
| Configuration database | `sqliteTask.c`, `base_config.db` | device status, restaurant, menu versions new and current, tokens | one update function per field group, some followed by a call into Go | every thread |
| Menu synchronisation | `writeplateprocess.go`, `httpclient.go`, `awsIotTask.c` | versions in Go (`menuMsg`), in C (`cmenuMsg`), in the database and in the shadow | announce, clear, fetch, insert, adopt, report | backend, shadow |
| Binding | `writeplateprocess.go`, `httpclient.go`, `awsIotTask.c`, `msgTask.c` | device status in Go, in C, in the database, on Qt and at the backend | factory bind, site bind, local unbind, remote unbind | backend, shadow, Qt |
| AWS IoT session | `awsIotTask.c`, `cAppTask.c` | connection, `getShadow`, report flags | connect, subscribe, get the shadow, report, reconnect | shadow |
| OTA update | `awsIotTask.c`, `awsOTA.go` | job under way, its progress | receive a job, download, verify, install, report, restart | jobs topic, HTTP |
| Bluetooth provisioning | `bluetask.go`, `netConfig.go`, `app.go` | scan state, record counters, network flags | scan, decrypt, write the wifi settings, answer Qt | phone, Qt |
| Network time and main loop | `ntp.go`, `app.go` | `ntpflag`, `netConnectStatus`, `wPSetWifiFlag` | one second loop, NTP retry, restart of the process | all |
| CAN factory test | `canTask.c` | reassembly buffer | assemble frames, run the factory script | tester |
| Beeper | `beepMotor.c` | counter and timer | beep n times, off | plate writing thread |
| Tag table | `rewrCardTask.c` 59-422 | list of known tags | enter, leave | none (never called) |
| Pure helpers | `crc.c`, `cString.c`, `byteconversion.go`, `aes*.go`, `QRcode.go`, `readTxt.c`, `rewrtxt.go`, `writefile.go`, `log.go` | none | checksums, conversions, files, log | all |

Device status: 0 `INIT`, 1 `WAIT_TOPIC`, 2 `FACTORY_BIND_OK`, 3 `SITE_BIND_OK`,
4 `LOCAL_UNBIND`.

How the parts meet: the Go main loop runs one branch per second according to
the status (`write_plate_main_task`); the C threads loop for ever
(`cAppTask.c`); C calls exported Go functions to change Go's copies of the
status, the canteen and the versions, and Go calls C for the database, for Qt
and for the flags of the IoT thread.  Nothing is locked.  What two threads do
at once, what a restart interrupts, what a lost message or a failing request
leaves behind, and what an old value still decides are the hazards; each is
listed with its line in `PROJECT.json`.

What makes each part correct:

* writing: one plate is written once and only while writing is allowed, with
  the dish Qt chose; no foreign plate is touched; Qt is told what happened;
* menus: what is marked as current has been fetched; an unbound device has no
  menu; the last announced menu arrives;
* binding: the copies of the status agree; the last word of the backend holds;
  an unbinding reaches the other side;
* OTA: a job is reported once, for the right job, and only a complete archive
  is installed;
* provisioning: a complete set of packets leads to a binding, and the network
  time is fetched again.

## 2. Modules

| module | composes | proofs |
|---|---|---|
| `PlatePromise` | what the writing thread promises: services that write one dish on at most one plate (abstract specification) | |
| `PlateWriter`, `MCPlateWriter` | writing thread, plates, Qt's select and stop, the menu callback, restart; implements `PlatePromise` | `PlateWriterProofs` |
| `MenuSync`, `MCMenuSync` | main loop, IoT thread, Qt's unbinding, shadow, restart | `MenuSyncProofs` |
| `MenuTree`, `MCMenuTree` | the recursive walk over a fetched menu, the tables of Qt's pages, an unbinding beside it; the bytes of a dish on a plate | `MenuTreeProofs`, `MenuWalkProofs`, `MenuPageProofs` |
| `Binding`, `MCBinding` | main loop, IoT thread, Qt thread, Bluetooth, shadow, restart | `BindingProofs` |
| `OtaUpdate`, `MCOtaUpdate` | jobs service, callbacks, download, database, restart, reports | `OtaUpdateProofs` |
| `Provisioning`, `MCProvisioning` | fragments of the phone, the Bluetooth and the time goroutine, restart of the process | `ProvisioningProofs` |

The modules are cut where the code shares little: `PlateWriter` and `MenuSync`
share only the stop flag, which `PlateWriter` lets fall at any step; `MenuSync`
and `MenuTree` share the answer of the backend, which is a version in one and a
tree in the other; `Provisioning` stands for the binding by one step whose
detail is `Binding`.

### PlateWriter

One call of `nfc_write_plate_task` is cut at its radio and database accesses:
`pc` is the place in the call, `writePlataStatus` the source's state machine,
`tagBak` the uid in `tag_bak[0]`.  `Enter` is the head of the function with the
test of the flag in state 0 only; `Poll`, `NothingFound`, `TooManyFound`,
`PlateFound` are state 0; `Find`, `ReadMenu`, `ReadBlock`, `WriteBlock` and
their failures are state 1; `PlateTaken`, `OtherPlate`, `PlateJoined` and
`PlateStays` are states 2 and 3.  Around it: the hand that lays and takes
plates, Qt's `SelectDish`/`AllowWriting` (the acknowledgement comes after the
write of the database, whether that was good or not), `StopWriting`, the menu
callback that stops writing, and `Restart`.

`sndMsg` is an uninitialised local (`rewrCardTask.c:479`) of which states 1 and
2 set the data only, neither its length nor its command.  So the result that is
sent and what Qt shows are two variables: `report` is the result carried by the
last message, `screen` what Qt makes of it.  A message with a proper head is
shown (`"STAS"`) or clears the screen (`"REMOVE"`); the head of the messages of
states 1 and 2 is any member of `SlotHeads`, where `"unreadable"` stands for
every length and command of which Qt makes neither: the screen keeps what it
shows.  `Conclude` sends with a given head, `ConcludeUnset` with the one the
stack holds.  A length that ends the process in `send_data_to_qt_direct` (its
`memcpy` takes `datalen - 2`) is an unreadable message and a `Restart`.  What
another part of Qt's screen does with a command that happens to be one of its
own is left out, and so are the write of block 3, the log and the beeper.
`WRPLATE_DATA` with dish 0 changes nothing and is left out.

`late`, `stale`, `about`, `settled` and `asked` are history: plates written
since a stop, plates written with the former dish, the plate of the last
result, whether anything has moved since.

`PlatePromise` knows nothing of reads, tags and states.  A service begins only
when writing is allowed, takes one dish out of the database, writes at most one
plate and never a foreign one, ends with a result given to Qt (which may show
it, take it for a removal or not read it: `Give`), and the screen is cleared
before the next.  The mapping of `KeepsPromise` (`Promise`) takes
states 2 and 3 as `"answered"`, and state 1 or a call that has passed the test
of the flag in state 0 as `"serving"`; the plates, the screen, the flag and the
dish in the database are themselves, `answer` is `report`.  A failed write that reached the plate and
a read of the dish that is repeated are services, too; what the radio misses is
invisible.

### MenuSync

The versions exist in the shadow (`wanted`, `reported`), in C (`cNew`, `cCur`),
in the database (`dbNew`, `dbCur`) and in Go (`goNew`, `goCur`).  A call of
`sqlite_update_menuMsg_to_config_db` is two steps (`WriteDb`, then `TellGo`),
and three threads make such calls.  The main loop is `CheckMenu`, `ClearMenu`,
`Fetch`, `Insert`, `Save`, `Adopt`, `Store`, `AskReport`; the IoT thread
`Connect`, `DeltaArrives`, `ShadowArrives`, `ShadowParsed`, `Report`,
`Acknowledged`, `TimedOut`; both unbindings are `Unbind`, `Zero`, `Wipe` and,
for Qt, `Ask`.  The status is one Boolean here (`bound`; its detail is
`Binding`), wiping the menus is one step, and a menu is the version the backend
served when it was fetched.  A get that the shadow refuses clears the flag like
an accepted one (`awsIotTask.c:861`); it is the second disjunct of
`ShadowArrives`, and the report that follows draws a new delta.  `MenuSettles`
is about devices that are not unbound: `cmenuMsg` keeps its version over an
unbinding, and a device that is bound again fetches it only after a new session,
a restart or a newer version.

### MenuTree

An answer is a tree of JSON objects and arrays (`Members`, `Items`), with the
attributes the walk looks at: whether an object has an `id` (`Dish`), what its
`name` is (`Name`), and which arrays are called `dishes`.  `calls` is the stack
of `jsonObjectParse` and `jsonArrayParse`: per call the node, the members not
yet visited (in any order, as Go maps are) or the index, and `lev`.  `menu_lev`,
the global name of the page, is the sequence of its numbers; it is never reset,
neither in the code nor here.  `VisitArray` lengthens it, `ItemObject` cuts it
before its `lev`-th number and makes the table of a category, and `InsertRow`
writes the row into the table of the page above (`Inserted`, which also wipes
dish ids as the SQL of the source does).  `BeginFetch`, `MakeDirectory`,
`MakeMainTable` clear the tables before, `BeginUnbind`, `RemoveMenus` and again
the last two do so in an unbinding on another thread.  sqlite makes a missing
file when it is opened, so an insert without its table only fails.

`Block2` is what the plate gets of a dish.  The context and the spelling of a
row, its price and the wording on Qt are left out.  `served` is history: the
answer whose tables are complete; `disturbed` says that an unbinding was under
way during the fetch.

### Binding

The status in Go, in C, in the database and on Qt's screen; the canteen in
the shadow, in C and in the database; `call[t]` is the database function thread
t is in, `pc[t]` its place in the handler.  Three ways lead to an unbinding:
the canteen's (`Remove`, then `DeltaArrives`, `DeltaClears` or `ShadowArrives`,
`ShadowUnbinds`), Qt's (`QtUnbind`, `LocalStatus`, `TellLocal`, the request
`AskUnbind`, `Unbound`, `ForgetCanteen`, `TellQt`), and the main loop's in
status 4 (`StartUnbind`).  Two ways lead to a binding: the report of the canteen
that is accepted (`CanteenAccepted`) and the answer to the shadow request
(`ShadowBinds`, `ShadowSettles`).

The status that `LocalStatus` tests is a local variable without a value:
`Garbage` is the set of what it may hold.  The client drops deltas that are
older than the answer to a shadow request.  The request is sent again in every
loop until one is answered (`GetAnswered`; `more` says that another one is still
to be answered), and any answer but a timeout ends the asking: `ShadowArrives`
is an accepted one, `ShadowRefused` a refused one, whose document settles
nothing.  `refused` is history: the last get was refused, and nothing has told
the device its canteen since.  A lost get only leaves the flag up and needs no
step.  Go's own `RestaurantID` only
serves request paths and is left out; a served unbinding request is answered
OK.  The guard of `QtUnbind` says that Qt offers the command from status 2 on:
the test in the handler is commented out (`msgTask.c:463-469`).  The withdrawal
of a serial number is left out, and with it the emptied serial number that a
refused get leaves (`awsIotTask.c:1022`).

### OtaUpdate

The service keeps the `status` of each job and sends messages in order
(`toDev`) to a connected device; an answer to an update is followed by the news
of the next job.  All callbacks run in the IoT thread: `pc` is `"run"` between
them and otherwise the next step of `iot_next_job_callback_handler`, which is
cut at its accesses to the network and the database: `StartJob` (`otaResult`),
`RecordJob` (`jobId`), `Load` (`aws_ota_handler`), `NoteVersion`
(`softWare_bak`, `otaResult`), then `Install` or `NoScript`.  `Boot` is the
comparison that the program makes when it comes up; it ends `Install` and every
`Restart`.  `GetPending` is the other callback that writes `jobId`.  `Report`
is one loop's report of the outcome, `ReportRom`, `RomAnswered` and `GotShadow`
the version in the shadow.  `Connect` sets a session up and asks for jobs,
`Reconnect` is the client's own reconnection, which asks for none.

`Install` is the script of the archive.  That of `meican/ota/run.sh` copies the
program and restarts the device, which is one step here.  In that of
`otafiles/ota/run.sh` the copy of this program is commented out: the program
stays the old one (`LoadFaults`), the IoT thread waits in `system()` at the step
`"install"`, and the restart comes from a script outside the archive.  A script
that returns without a restart is left out.

Job j ships version j, so that an update to the version that is already there
is not distinguished.  A restart of a download that panics (`awsOTA.go:188`,
`200`, `220`, `254`) is `Restart` at the step `"load"`.  `installed`,
`renamed`, `mixed`, `unsaved`, `missed` and `late` are history; a property that
excuses one of them names the place in the code where things go wrong: the
pending callback (`renamed`, `mixed`), a write nobody looks at (`unsaved`), a
job that is dropped, or announced to a device that is not connected (`missed`),
an answer that clears a newer flag (`late`).

### Provisioning

The phone broadcasts the fragments of four fields over and over.  `num` and
`buffer` are the source's four counters and buffers, which outlive a scan;
`bWifiConSta` the fields found by this one.  What a buffer holds is the setting
whose first fragments are in it in order, or `Garbage`.  `Fragment` is the code
of one field for one line: add it if it is the next, and compare its total with
the counter in any case.  `Noise` is a line that ends the scan.  The loop of
`write_plate_blue_scan` is `ScanStart`, `ScanDone`, `Configured`, `Reconnect`;
the time goroutine `NtpAsk`, then `NtpFailed`, `NtpGood` or `NtpRestarts`.
`Register` and `Bind` stand for the main loop, whose steps are in `Binding`.
`registered` does not tell status 1 from the later ones, and the handler of Qt's
unbinding sets the wifi flag from status 2 on (`msgTask.c:517`), so `QtUnbind`
may set it or not.
The network needs the name and the password of one setting and works always
then.  `set_start_get_ntp` is exported and never called, so `ntpWifiCheckFlag`
stays FALSE and is left out.

`spent` says that a token has been put together since the process started: the
code then puts the counter of the password back in place of the token's
(`bluetask.go:304`), and the next scan of a registered device in this process
fails again and again.  `changed`, `owed`, `forgotten`, `renew` and `raced` are
history, too.

### Two threads at once

Nothing in the source keeps two threads apart, and most properties of
`MenuSync` and `Binding` fail when two of them change the versions or the
status at the same time.  The history variable `overlap` becomes TRUE when a
thread enters such a stretch while another is in one, and the properties that
need it say so.  They are thus properties of one thread against everything
that happens between its steps in the outside world: failures, restarts,
losses, messages.  The finding of `MenuSync` is a property stated without that
exemption.  Likewise `late` in `Binding` marks the runs where the
answer to one report came when another canteen was to be reported.

## 3. Runs

| run | bounds | states | shows |
|---|---|---|---|
| `plate_safe` | 2 plates, 2 dishes, 3 reads, missed tags, lost answers, any head of the unset messages, failing database, 1 restart | 919 thousand, symmetric | type, `StopOverrun`, `StaleOnce`, `ForeignUntouched`, `SelectionFirst`, and the refinement `KeepsPromise` |
| `plate_live` | 2 plates, 1 dish, 3 reads, any head of the unset messages, failing database, fair writing thread | 45 thousand | `WrittenOnce`, `ScreenClears`, `PlateAnswered`, `SeveralTold` |
| `plate_unread` | 1 plate, 1 dish, no fault | violation | a finding |
| `menu_sync` | 2 versions with a restart or an unbinding, or 1 version with 2 losses and a restart, or with an unbinding and a loss or restart; every fault, a refused get | 197 thousand | type, `CurrentIsFetched`, `UnboundIsEmpty`, `MenuSettles` |
| `menu_during` | 2 versions | violation | a finding |
| `bind_safe` | a device from the factory, 1 canteen, 1 provisioning, 1 unbinding by Qt or by the canteen, 1 loss or restart, failing requests, a refused get | 1.4 million | type, `LastWordWins`, `CopiesAgree` |
| `bind_settle` | a new device, 1 provisioning, 1 removal by the canteen, 2 losses or restarts, failing database, a refused get | 153 thousand | `BindingSettles` |
| `bind_local` | 1 provisioning, 1 unbinding by Qt, failing requests | violation | a finding |
| `ota_safe` | 2 jobs (1 unreadable), 3 messages under way, failing database, downloads and scripts, 1 loss or 1 restart | 141 thousand | type, `SuccessIsInstalled`, `FailureIsTrue`, `NoReinstall`, `JobsEnd`, `ReportEnds`, `VersionTold` |
| `ota_queue` | 2 jobs, no fault | violation | a finding |
| `provision` | 2 provisionings, 2 fragments, 1 of noise, an unbinding or new settings | 67 thousand | type, `WifiIsWhole`, `MainResumes`, `BindFollows`, `TimeFetched` |
| `menu_tree` | 5 answers, 2 fetches, 1 unbinding, ids modulo 2 | 12 thousand | type, `CutExists`, `BackIsWhereFrom`, `LinkedTablesExist`, `DishesReached`, `LevelIsDepth`, `ProgressBounded`, `IdsTellRows`, `PlatesTellDishes`, `WalkEnds` |

Why the bounds are enough.  The writer compares one tag with `tag_bak` and one
count with 1: two plates give every outcome of both comparisons, and two dishes
tell a former dish from the new one.  Two versions give an announcement before,
during and after a fetch.  A loss or a restart can fall on any step of any
handler, that of a removal included, and what is left after it is what the next
boot or connection starts from; the two of `bind_settle` are what it takes to
lose the delta of a removal and then to restart inside the unbinding that the
next session brings.  One removal is a limit of what is claimed, too:
`parsePloadJSON` binds from the answer to a get without reporting the canteen,
so that the shadow sends no delta for a removal after that, and
with two provisionings, two removals and a loss `BindingSettles` does not hold.  Three
reads are the source's own number.  Two jobs are what it takes to queue one
behind another; the message bound only holds back the backend and the next
report, and three leave room for an answer with its news and one more.  A
second provisioning meets the counters and buffers the first has left, and a
password of two fragments can be cut in the middle.  A faultless radio is part
of `WrittenOnce`: with missed reads a plate is taken for a new one.  The answers
of `menu_tree` have what the walk tells apart: two and three levels, uneven
depths, two arrays in one object, an array in an array, an item that is no
object, names with a quote and none, a dish beside a category, and no menu at
all; the second fetch meets the name and the counters the first one left.  Its
ids wrap at 2 instead of 256, and pages have up to three rows.

`CHECK_DEADLOCK FALSE` everywhere: the bounded environment ends and a device
with nothing to do waits. All constraints of `MenuSync` and `Binding` stop at
states with `overlap` (and `late` where `BindingSettles` is checked), which is
never taken back: the checked properties say nothing there, except the type
invariants, which are proved for every state. Besides, `Staged` of `MCMenuSync`
cuts off announcements, unbindings and losses, `AloneOnce` of `MCBinding` a
second unbinding, a second answer to a get, and a refused get that follows no
loss or restart, or meets Qt's unbinding. In both runs of `Binding` that pass, a
report of keys other than canteen and serial number is answered or lost before
the next handler begins (`OthersTaken`). `Staged` of `MCBinding` leaves a
removal and a second loss or restart for the time after the serial number has
been settled, and a second answer to a get for that without a removal or a
trouble. Those of `ota_safe` and `provision` (`OneTrouble`) cut off a second
loss, restart, noise, unbinding or change of settings. None of these is a step
that a fairness asks for, save that `OthersTaken` puts fair steps off until an
answer that is fair itself; the theorems of `BindingProofs` hold without any
constraint.

## 4. Fairness

* PlateWriter: the thread's loop never blocks for ever (`cAppTask.c:41-48`), and
  `WRPLATE_DATA` is answered by the handler that wrote the database
  (`msgTask.c:416-431`).
* MenuSync: no thread sleeps for ever; the main loop asks again every second
  until a request is served (strong fairness of the fetch); C repeats its writes
  of the database until one is good (`while(sqlite_update...)`, where
  `reboot_golang` is an empty function, `awsIotTask.c:104-111`); a yield runs
  every callback that is due and the flags are looked at after it.
* Binding: the same, and the shadow service answers, a lost connection comes
  back, and a request that is made again and again is served and its answer
  heard in the end.  No fairness is assumed of Qt, Bluetooth, canteens, losses or
  restarts.
* OtaUpdate: the IoT thread loops (`cAppTask.c:129`), so a message that has
  arrived is handled, a job goes on, a report is sent and a session comes back.
  A report that is sent is answered unless it is lost, and losses are bounded.
* Provisioning: the three goroutines loop (`app.go:124`, `173`, `348`); while a
  scan lacks a field one of the fragments it can use is heard in the end,
  because the phone repeats them; the backend answers a device that has just been
  provisioned.
* MenuTree: the main loop goes on with the fetch it is in; nothing is assumed of
  the unbinding, and the next fetch may never come.

## 5. Findings

* `plate_unread`: a result of states 1 and 2 is sent in a message whose length
  and command were never set, so Qt may not show it.  What the other properties
  say of a result is that it is sent (`PlateAnswered`, `SeveralTold`,
  `KeepsPromise`); what they say of the screen, that it is cleared
  (`ScreenClears`, `ScreenMatchesStatus`), holds whatever the stack has left,
  because the removal message is set in full.
* `menu_during`: the version adopted after a fetch is read anew; a version
  announced during the fetch becomes the current one without being fetched.
* `bind_local`: whether an unbinding by Qt is sent until it is answered depends
  on an uninitialised variable.  With `Garbage = {3}`, as the code means it, the
  property holds.
* `ota_queue`: the callback of the pending jobs writes the first queued job over
  the one whose outcome is still to be reported; that job is then reported as
  succeeded and never installed.

Two comments of the code differ from it without a run of their own.
`msgTask.c:27` says of `stopWritePlateFlag` "默认1==允许写盘" (1, writing
allowed, by default), but the line initialises it to 0, as does every boot:
nothing is written until Qt has selected a dish.  `SelectionFirst` rests on that
0, and the mutant `InitAllowed` is the comment: with it the first plate laid
after a boot would get the dish of the boot before.  So the model, and the
property, side with the code and against the comment.  `awsIotTask.c:862` and
`877` say "获取成功停止获取" (fetched, stop fetching) and "get shadow 失败继续获取"
(go on when it failed), but line 861 takes every answer except a timeout for a
success, also a refusal.  A device that restarts between the canteen and the
status of an unbinding (`awsIotTask.c:1102-1107`) and is then refused the shadow
is in status 3 without a canteen and no longer asks; the reports that follow the
refusal draw the delta again.  Nothing draws one when the canteen is reported
already: a device whose report reached the shadow, but the answer was lost with
the connection, and whose next get is refused, stays unbound (status 2) for that
session.  `LastWordWins` and `BindingSettles` name the refusal as their exemption
`refused` and do not hold without it: `LastWordWins` fails in `bind_safe` in the
first way, `BindingSettles` in `bind_settle` in the second.

Exemptions in the properties that pass point at weaknesses for which no text of
the repository says otherwise, so that they are no findings: a job that is
announced while a report is due waits for the next session (`missed`); a second
scan in one process never ends for a registered device (`spent`); a restart
after an unbinding forgets what was provisioned (`forgotten`); an answer of the
old network stops the request for the new time (`raced`); an unbinding that
clears the tables during a walk leaves rows that lead nowhere (`disturbed`), and
a menu that was asked for before an unbinding is inserted after it (`overlap` in
`UnboundIsEmpty`).  `tag_bak` is set by a good write only, so after a failed one
the plate that is still there is taken for another one, and Qt's screen is
cleared and the plate tried again; `WrittenOnce` holds nonetheless, because only
plates with a good result are in it.  The second read of the tags is not compared
with `MAX_WRITE_PLATE` (`rewrCardTask.c:567`), so that a plate may be written
with another one beside it; `SeveralTold` says that Qt is told of it in the end.
`DishesReached` is about regular menus (`Regular`): with two arrays in one object
the level is raised twice, and which pages come out depends on the order of a Go
map; `LevelIsDepth` is about menus that are equally deep everywhere
and hold an array: the level told to Qt after an answer without one is that of
the walk before (`lay_stackBak` is set by an array and never reset).

## 6. Proofs

Everything below is proved for every value of the constants that satisfies the
named assumptions of the modules.

`PlateWriterProofs` (`PlateAssumption`, `SizeAssumption`, `FaultAssumption`):

* the type invariant;
* `StopOverrun`: inductive with `PcInv` and `StopInv`, which say that a late
  plate is one whose call was past the test of the flag when it was cleared;
* `StaleOnce`: with `StaleInv`, which says that after one stale write the dish
  held by the call is the new one;
* `SelectionFirst`: with `SelectionInv`, no call is past the test and no
  answer is due before Qt has selected a dish;
* `ForeignUntouched`: with `CheckedInv`, the tag about to be written was read
  and is not foreign;
* `ScreenMatchesStatus`: inductive itself with the places of the call; in states
  0 and 1 the screen is clear, in states 2 and 3 a result has been sent, for any
  `SlotHeads`.  It does not say that the screen shows that result;
* `WrittenOnce`: with `WrittenInv`, for one tag at most as in the source;
* `KeepsPromise`, the refinement: every initial state maps to one of
  `PlatePromise`, and each action, under the invariants above, to a step of a
  service or to a stutter.

`MenuSyncProofs` (`BoundAssumption`, `FaultAssumption`): the type invariant,
`CurrentIsFetched` and `UnboundIsEmpty`, with `IInv`, the conjunction of
`TypeOK`, `VersionInv` (versions are ordered and none is newer than the
announced one), `PlaceInv` (where a thread can be inside a call) and `AloneInv`
(while threads have not met: what each one's arguments and the database say at
every step of a handler).  The properties alone are not inductive because they
say nothing of a handler's middle.

`MenuTreeProofs` (`TreeAssumption`, `SizeAssumption`): for any JSON trees,
`TypeOK`, `CutExists`, `BackIsWhereFrom`, `LinkedTablesExist`, `IdsTellRows`
and `PlatesTellDishes`, all from `WalkInv`.  Its parts are `CallsInv` (levels
grow along the calls, and the name is at least as long as the deepest),
`RowInv` (a row is due for an object, in the parent of the name), `LinksInv`
(every row leads one number deeper and names the page above its own) and
`QuietInv` (an undisturbed fetch has its directory and the table it made).  Each
is needed by the next: without `CallsInv` a cut might leave a name of another
length, and `LinksInv` would say nothing of the row that follows.

`MenuWalkProofs` (with `JsonAssumption`): `ProgressBounded`
and `LevelIsDepth`, from `SeenInv`.  Both properties compare the end of a walk
with the whole answer, so the invariant has to say in between how much of the
answer was walked: there is a set of nodes, those seen, that is a part of the
answer (`Part`: with a node it holds the one around it), the object whose row is
due and the rests of all calls are, without overlap, just what lies right inside
the seen nodes and is not seen itself (`FramesInv`), the progress counts seen
arrays only (`CountInv`), and the level of the array walked last is the depth
unless an array is still to come (`LevelInv`).  When the calls have ended nothing
lies around the seen part, so it is the whole answer.  `JsonAssumption` says that
an answer is a JSON text: nothing in it is in two places and nothing is around
the whole.  It holds of every text, because each value in a text has a place of
its own, and without it `ProgressBounded` is not true: an array found twice is
counted twice.  The first part of the module has what an
answer holds for any such text: `Content` is defined by as many rounds as there
are nodes, and the lemmas show that the last round adds nothing
(`Stationary`, `LastLayer`), so that `NodesOf` is the least set that is closed
under `Children` (`NodesClosed`, `NodesLeast`) and each node has one level
(`OneLevel`); `NoBranch` and `ArrayToCome`, that in an equally deep menu an array
which is not deepest has one to come below it or beside it.  Sets of numbers
stand for the induction (`UpTo`, `LeastOf`).  TLC checked `SeenInv` first with
the seen set computed (the nodes not below what is pending) in the instance of
`menu_tree`.  The proof found that `LevelIsDepth` was wrong as first stated: it
needs an array in the answer, which all answers of the instance have.

`MenuPageProofs`: `DishesReached`, from `PagesInv` (and `SeenInv`).  The property
compares the pages that Qt reaches with the whole answer, but the tables know no
nodes: a row holds a dish or the name of a table, and the name alone says where
in the answer the table belongs.  `PagesInv` brings the answer back in: at every
step of a fetch that no unbinding disturbs there is a page for each node that was
seen (`Placed`: an item has the page of its array with its number behind it, what
is inside an item has the page of the item, and two arrays never have the same),
the name `menu_lev` is cut to the page of a call before it is used (`NamesInv`:
what an inner walk has put behind it is dropped, whatever it is), and each row is
that of a seen item on the page of its array, each seen item with a good name
having one (`RowsInv`).  An item's row must not be wiped by a later one of its
page: the "update" behind a category wipes all dishes of the page, and only the
regularity of the menu (categories or dishes in an array, never both) keeps it
from doing harm (`RowsAlike`).  At the end of the walk the pages are those of all
nodes, and Qt reaches the page of an array just when no spoilt name is above it
(`KeptLinked`, `LinkedKept`: the nodes for which that is true are a set closed
under what is inside a node, in one direction of all children, in the other of
those that get a row).  TLC checked `PagesInv` first, with the pages computed from
the answer, in the instance of `menu_tree`.  The proof found
`DishesReached` wrong as first stated: it counted all objects of the answer, but
one that is no item of an array may have an `id` and never gets a row
(`jsonObjectParse` descends into it without looking at its `id`).  `Listed` now
names the items, and the answer `r2` of the instance has such an object.

`ProvisioningProofs`: the type invariant and `WifiIsWhole`, with `WholeInv`:
as long as the phone keeps its settings and no token is put together, each
buffer is either empty at counter 1 or holds, in order, the fragments before its
counter (`InOrder`).  `OtaUpdateProofs`: the type invariant and
`SuccessIsInstalled`, with `SuccessInv`: what runs has been installed
(`ProgramInv`), the database names the job at hand from the record to the script
(`JobInv`), and a result that speaks of a good download expects the version of
the job it names (`ReportInv`).

Also in `OtaUpdateProofs`, for any number of jobs, losses, restarts and sessions:
`FailureIsTrue` and `NoReinstall`, from `InstallInv`.  A message that has been
sent outlives what was known when it was sent, so neither property is inductive
by itself: nothing would keep an old offer from naming a job that was installed
since.  `OrderInv` says that jobs are offered in the order of their numbers, and
that of whatever the device has heard all earlier jobs have ended; `DueInv`, what
is on its way while a report is due: as long as the installed job is still in
the queue, whatever is sent, recorded or running speaks of it, and no other job
is offered;
`FreshInv`, that the job at hand before its download is a job not installed, and
that an offer which names an installed job comes behind no answer that would end
the report that makes the device pass over it.  `InstallInv` was checked by TLC
first on two larger instances (three jobs, and two jobs with four messages and
two losses, both without `OneTrouble`).  The proof showed that an exemption
`FailureIsTrue` used to have, for a job whose name the callback of the pending
jobs had overwritten in the database, is not needed: the callback puts the first
queued job there, which is the installed one until it is reported.

`BindingProofs` (`RestaurantAssumption`, `StatusAssumption`,
`BoundAssumption`): the type invariant, `LastWordWins` and `CopiesAgree`, from
`BindInv`.  The properties speak of threads at rest; `BindInv` says what holds in
the midst of every handler.  Its parts are `NamedInv` and `ToldInv` (which
canteen the device can know, and that none is written after it was told to
forget it), `OneBusy` (until two threads meet, one is at the status at a time),
`NewInv` (a device that has not been registered is not bound), `BoundInv` (where
the database says bound so does the IoT thread, or a write that clears it is
under way), `ClearInv` (a device that was told to forget its canteen and is still
bound is about to ask or to write, or its get was refused) and `AgreeInv` (where Go and the database
differ a thread is about to mend it).  `LastWordWins` needs `BoundInv`: the
handler of the shadow decides by the copy of the IoT thread whether there is
anything to clear.  `CopiesAgree` is proved for good writes of the database
(`~DbFaults`, as in `bind_safe`): after a failing one Go has the new status and
the database the old.  `NewInv` has to name a
write that the database has already taken: with any write under way it would
hold in every run and not be inductive, because a write that fails takes it
away.

Assumed nowhere, save for `CopiesAgree` the writes of the database: that a radio
access, a write or a download succeeds.  Every safety property of the passing
runs is proved.  Left to TLC is all liveness (`ScreenClears`, `PlateAnswered`,
`SeveralTold`, `MenuSettles`, `BindingSettles`, `JobsEnd`, `ReportEnds`,
`VersionTold`, `MainResumes`, `BindFollows`, `TimeFetched`, `WalkEnds`): temporal
properties under fairness and ENABLED are out of the prover's reach.

## 7. Not modelled

* The ring of unanswered Qt messages (`msgTask.c` 71-220): its only producer,
  `qt_push_data_to_msg`, is called by the test `sqlite_open_test`, so that the
  ring is always empty at this commit.  The answers to the network and restart
  commands of Qt change nothing of the program.
* The CAN test (`canTask.c`): used by the tester in the factory, whose protocol
  is not in the repository; its missing test of the length of a frame is among
  the hazards.
* Of an update the recovery by the factory program and the progress on Qt, of a
  provisioning the shell commands around `hcitool` and the wired network, of a
  binding the withdrawal of a serial number.
* The beeper, the log, files and images keep no state that another part depends
  on.
* The tag table (`rewrCardTask.c` 59-422), `bindTask.c` and the timed task that
  would ask for jobs again (`app.go:344`) are never called.
* `cJSON`, sqlite, mbedtls, the AWS client, the radio library and the scripts
  are not part of this code, though their headers and sources make up five
  sixths of the repository's lines; what the source relies on is in the external
  definitions of the map.
