---------------------------- MODULE PlateWriter ----------------------------
(***************************************************************************)
(* The plate-writing thread (rewrCardTask.c, nfc_write_plate_task) and the *)
(* threads that share its flags: the Qt receiver (msgTask.c), which picks  *)
(* the dish and starts or stops writing, and the AWS IoT callback that     *)
(* stops writing when a menu arrives (awsIotTask.c:1068).  The branch to   *)
(* the factory reading test is dead: nothing in the program sets its flag. *)
(*                                                                         *)
(* One call of nfc_write_plate_task is not atomic: plates move and flags   *)
(* change between two radio accesses.  pc is the point inside the call:    *)
(*   top    about to enter the function                                    *)
(*   poll   the loop of FilterNum reads of states 0, 2 and 3               *)
(*   find   state 1, before its own read                                   *)
(*   menu   state 1, before the dish is read from the database             *)
(*   read   state 1, before block 2 of tag[0] is read                      *)
(*   write  state 1, before block 2 of tag[0] is written                   *)
(* Locals that no later step reads are reset when the function returns.    *)
(***************************************************************************)
EXTENDS Naturals, FiniteSets

CONSTANTS
  Plates,        \* tags that may be laid on the antenna
  NoPlate,       \* the all-zero uid of tag_bak before the first write
  Dishes,        \* dish ids that Qt may select
  NoDish,        \* no dish: a blank plate, or no selection yet
  Foreign,       \* block 2 content without the Meican identification code
  MaxWritePlate, \* MAX_WRITE_PLATE, 1 in rewrCardTask.h
  FilterNum,     \* filterNum, 3 in rewrCardTask.c
  RadioFaults,   \* TRUE: a radio access may fail, or miss tags in the field
  DbFaults,      \* TRUE: a database access may fail
  SlotHeads,     \* what the uninitialised sndMsg.datalen and sndMsg.cmd of
                 \* states 1 and 2 may amount to for Qt: see Heads
  MaxRestarts    \* bound on the restarts of the process

ASSUME PlateAssumption ==
  /\ IsFiniteSet(Plates)
  /\ NoPlate \notin Plates
  /\ NoDish \notin Dishes
  /\ Foreign \notin Dishes \cup {NoDish}

ASSUME SizeAssumption ==
  /\ MaxWritePlate \in Nat \ {0}
  /\ FilterNum \in Nat \ {0}
  /\ MaxRestarts \in Nat

(* The head of a message, its length and its command, makes it a write     *)
(* status, a removal, or nothing that Qt can read (qtdata_t, msgTask.h:59). *)
Heads == {"STAS", "REMOVE", "unreadable"}

ASSUME FaultAssumption ==
  /\ RadioFaults \in BOOLEAN
  /\ DbFaults \in BOOLEAN
  /\ SlotHeads \subseteq Heads /\ SlotHeads # {}

VARIABLES
  field,              \* the plates on the antenna
  block2,             \* what block 2 of each plate holds
  pc,                 \* where the writing thread is
  writePlataStatus,   \* the source's state machine: 0, 1, 2 or 3
  polls,              \* reads done by the loop under way
  agree,              \* the reads of the loop so far gave one count
  tagNum,             \* tag_num of the last read of the call
  tag0,               \* tag[0].uid of the last read of state 1
  dish,               \* dishMsg.dishid, read at "menu"
  tagBak,             \* tag_bak[0].uid: the last plate written without error
  report,             \* the result that the last message to Qt carries
  screen,             \* the result that Qt shows, "GONE" for none
  stopWritePlateFlag, \* TRUE: writing is allowed (1 in msgTask.c)
  menuDb,             \* dish_id in writeplatemenu.db
  qtPc,               \* the Qt receiver: "idle", or "ack" after the database
  asked,              \* the dish of the last WRPLATE_DATA of this boot
  restarts            \* restarts so far

\* History: what the properties say of earlier steps, read by no action.
VARIABLES
  late,               \* writes begun since writing was stopped, up to 2
  stale,              \* writes of another dish than asked, up to 2
  about,              \* the plate of the last result of state 1
  settled             \* that result was "OK", and nothing moved since

qtVars   == <<report, screen>>
tagVars  == <<polls, agree, tagNum, tag0, dish>>
flagVars == <<stopWritePlateFlag, menuDb, qtPc, asked>>
histVars == <<late, stale, about, settled>>
nfcVars  == <<pc, writePlataStatus, tagVars, tagBak, qtVars, block2>>
vars == <<nfcVars, flagVars, histVars, field, restarts>>

Results == {"OK", "ERROR", "MUL_ERR", "NULL_ERR", "READ_ERR", "GONE"}

\* Mutant of Init: writing is allowed at boot, the default that the comment of
\* the flag gives (msgTask.c:27), while its initial value is 0.
InitAllowed ==
  /\ field = {} /\ block2 \in [Plates -> {NoDish, Foreign}]
  /\ pc = "top" /\ writePlataStatus = 0
  /\ polls = 0 /\ agree = TRUE /\ tagNum = 0 /\ tag0 = NoPlate
  /\ dish = NoDish /\ tagBak = NoPlate
  /\ report = "GONE" /\ screen = "GONE"
  /\ stopWritePlateFlag = TRUE
  /\ menuDb \in Dishes /\ qtPc = "idle" /\ asked = NoDish /\ restarts = 0
  /\ late = 0 /\ stale = 0 /\ about = NoPlate /\ settled = FALSE

Init ==
  /\ field = {}
  /\ block2 \in [Plates -> {NoDish, Foreign}]
  /\ pc = "top" /\ writePlataStatus = 0
  /\ polls = 0 /\ agree = TRUE /\ tagNum = 0 /\ tag0 = NoPlate
  /\ dish = NoDish /\ tagBak = NoPlate
  /\ report = "GONE" /\ screen = "GONE"
  /\ stopWritePlateFlag = FALSE
  /\ menuDb \in Dishes
  /\ qtPc = "idle" /\ asked = NoDish
  /\ restarts = 0
  /\ late = 0 /\ stale = 0 /\ about = NoPlate /\ settled = FALSE

-----------------------------------------------------------------------------
(* What rfal_find_tag may return: how many tags, and which one is tag[0].  *)

Visible == IF RadioFaults THEN SUBSET field ELSE {field}

Sightings ==
  UNION {{[num |-> Cardinality(seen), first |-> p] :
            p \in IF seen = {} THEN {NoPlate} ELSE seen} : seen \in Visible}

(* The function returns: its locals are gone. *)
Return ==
  /\ pc' = "top"
  /\ polls' = 0 /\ agree' = TRUE /\ tagNum' = 0
  /\ tag0' = NoPlate /\ dish' = NoDish

(* Status s is entered and Qt is sent result r under head h.  The calls of *)
(* beep_open and beep_off beside every message are left out.  A length     *)
(* that ends the process in send_data_to_qt_direct is the message that Qt  *)
(* cannot read, and a Restart.                                             *)
Conclude(s, h, r) ==
  /\ Return
  /\ writePlataStatus' = s
  /\ report' = r
  /\ screen' = CASE h = "STAS" -> r
                 [] h = "REMOVE" -> "GONE"
                 [] h = "unreadable" -> screen

\* Neither datalen nor cmd of sndMsg is set: the message has the head that the
\* stack left there.
ConcludeUnset(s, r) == \E h \in SlotHeads : Conclude(s, h, r)

Removed == Conclude(0, "REMOVE", "GONE")

\* Mutants of Enter: the stop flag is not looked at; it holds back every state.
EnterIf(go) ==
  /\ pc = "top" /\ go
  /\ pc' = IF writePlataStatus = 1 THEN "find" ELSE "poll"
  /\ UNCHANGED <<field, block2, writePlataStatus, tagVars, tagBak, qtVars,
                 flagVars, histVars, restarts>>
EnterAlways == EnterIf(TRUE)
EnterWhenAllowed == EnterIf(stopWritePlateFlag)

(* The head of nfc_write_plate_task: the stop flag, which holds back state  *)
(* 0 only, then the switch.                                                 *)
Enter ==
  /\ pc = "top"
  /\ stopWritePlateFlag \/ writePlataStatus # 0
  /\ pc' = IF writePlataStatus = 1 THEN "find" ELSE "poll"
  /\ UNCHANGED <<field, block2, writePlataStatus, tagVars, tagBak, qtVars,
                 flagVars, histVars, restarts>>

\* Mutant of Poll: one read too many.
PollOnceMore ==
  /\ pc = "poll" /\ polls < FilterNum
  /\ \E s \in Sightings : tagNum' = s.num
  /\ agree' = TRUE /\ polls' = polls + 1
  /\ UNCHANGED <<field, block2, pc, writePlataStatus, tag0, dish, tagBak,
                 qtVars, flagVars, histVars, restarts>>

(* Reads of a loop but the last.  Only state 0 compares the counts. *)
Poll ==
  /\ pc = "poll"
  /\ polls + 1 < FilterNum
  /\ \E s \in Sightings :
       /\ tagNum' = s.num
       /\ agree' = (writePlataStatus = 0
                      => agree /\ (polls > 0 => s.num = tagNum))
  /\ polls' = polls + 1
  /\ UNCHANGED <<field, block2, pc, writePlataStatus, tag0, dish, tagBak,
                 qtVars, flagVars, histVars, restarts>>

\* The last read of the loop, made in state st, gave s.
LastPoll(st, s) ==
  /\ pc = "poll" /\ writePlataStatus = st
  /\ polls + 1 = FilterNum
  /\ s \in Sightings
  /\ UNCHANGED <<field, block2, tagBak, flagVars, histVars, restarts>>

SameCount(s) == agree /\ (polls > 0 => s.num = tagNum)

(* State 0: reads that disagree, or find nothing, change nothing. *)
NothingFound ==
  \E s \in Sightings :
    /\ LastPoll(0, s)
    /\ SameCount(s) => s.num = 0
    /\ Return
    /\ UNCHANGED <<writePlataStatus, qtVars>>

TooManyFound ==
  \E s \in Sightings :
    /\ LastPoll(0, s)
    /\ SameCount(s) /\ s.num > MaxWritePlate
    /\ Conclude(3, "STAS", "MUL_ERR")

\* Mutant of PlateFound: the limit itself is refused.
PlateFoundBelow ==
  \E s \in Sightings :
    /\ LastPoll(0, s) /\ SameCount(s)
    /\ 0 < s.num /\ s.num < MaxWritePlate
    /\ Return /\ writePlataStatus' = 1 /\ UNCHANGED qtVars

PlateFound ==
  \E s \in Sightings :
    /\ LastPoll(0, s)
    /\ SameCount(s) /\ s.num \in 1..MaxWritePlate
    /\ Return
    /\ writePlataStatus' = 1
    /\ UNCHANGED <<qtVars>>

-----------------------------------------------------------------------------
(* State 1: read the tags again, fetch the dish, check the plate, write it. *)

Find ==
  /\ pc = "find"
  /\ \E s \in Sightings :
       \/ /\ s.num = 0
          /\ Return
          /\ writePlataStatus' = 0
       \/ /\ s.num > 0
          /\ pc' = "menu" /\ tagNum' = s.num /\ tag0' = s.first
          /\ UNCHANGED <<writePlataStatus, polls, agree, dish>>
  /\ UNCHANGED <<field, block2, tagBak, qtVars,
                 flagVars, histVars, restarts>>

\* Mutant of ReadMenu: the dish is taken from another row.
ReadAnyMenu ==
  /\ pc = "menu" /\ pc' = "read" /\ dish' \in Dishes
  /\ UNCHANGED <<field, block2, writePlataStatus, polls, agree, tagNum, tag0,
                 tagBak, qtVars, flagVars, histVars, restarts>>

ReadMenu ==
  /\ pc = "menu"
  /\ dish' = menuDb
  /\ pc' = "read"
  /\ UNCHANGED <<field, block2, writePlataStatus, polls, agree, tagNum, tag0,
                 tagBak, qtVars, flagVars, histVars, restarts>>

ReadMenuFails ==
  /\ pc = "menu" /\ DbFaults
  /\ ConcludeUnset(2, "NULL_ERR")
  /\ about' = tag0 /\ settled' = FALSE
  /\ UNCHANGED <<field, block2, tagBak, flagVars, late, stale, restarts>>

\* Mutant of ReadBlock: the identification code is not checked.
ReadAnyBlock ==
  /\ pc = "read" /\ tag0 \in field /\ pc' = "write"
  /\ UNCHANGED <<field, block2, writePlataStatus, tagVars, tagBak, qtVars,
                 flagVars, histVars, restarts>>

ReadBlock ==
  /\ pc = "read"
  /\ tag0 \in field /\ block2[tag0] # Foreign
  /\ pc' = "write"
  /\ UNCHANGED <<field, block2, writePlataStatus, tagVars, tagBak, qtVars,
                 flagVars, histVars, restarts>>

(* A plate of another make, or no answer.  Without an answer the buffer    *)
(* keeps what the read of block 3 left in it, so either status may follow. *)
ReadBlockFails ==
  /\ pc = "read"
  /\ \E st \in {2, 3} :
       /\ (tag0 \in field /\ block2[tag0] = Foreign /\ ~RadioFaults) => st = 3
       /\ (tag0 \in field /\ block2[tag0] # Foreign) => RadioFaults
       /\ ConcludeUnset(st, "READ_ERR")
  /\ about' = tag0 /\ settled' = FALSE
  /\ UNCHANGED <<field, block2, tagBak, flagVars, late, stale, restarts>>

AtMostTwo(n) == IF n < 2 THEN n ELSE 2

\* What the history records of a write of dish, and of a result of state 1.
WriteBegun ==
  /\ late' = IF stopWritePlateFlag THEN late ELSE AtMostTwo(late + 1)
  /\ stale' = IF dish = asked THEN stale ELSE AtMostTwo(stale + 1)

\* Mutant of WriteBlock: the uid of the plate is not kept in tag_bak.
WriteBlockForgets ==
  /\ pc = "write" /\ tag0 \in field
  /\ block2' = [block2 EXCEPT ![tag0] = dish]
  /\ ConcludeUnset(2, "OK")
  /\ WriteBegun /\ about' = tag0 /\ settled' = TRUE
  /\ UNCHANGED <<field, tagBak, flagVars, restarts>>

WriteBlock ==
  /\ pc = "write"
  /\ tag0 \in field
  /\ block2' = [block2 EXCEPT ![tag0] = dish]
  /\ ConcludeUnset(2, "OK")
  /\ tagBak' = tag0
  /\ WriteBegun /\ about' = tag0 /\ settled' = TRUE
  /\ UNCHANGED <<field, flagVars, restarts>>

(* The plate left, or its answer was lost before or after it took the data. *)
WriteBlockFails ==
  /\ pc = "write"
  /\ tag0 \in field => RadioFaults
  /\ \/ UNCHANGED block2
     \/ tag0 \in field /\ block2' = [block2 EXCEPT ![tag0] = dish]
  /\ ConcludeUnset(2, "ERROR")
  /\ WriteBegun /\ about' = tag0 /\ settled' = FALSE
  /\ UNCHANGED <<field, tagBak, flagVars, restarts>>

-----------------------------------------------------------------------------
(* States 2 and 3: wait until the plate is taken away.  Only the last read *)
(* counts.  In state 2 tagnumbak[FilterNum], which is never set, is        *)
(* compared with a count above 1, so the test is the count alone.          *)

\* Mutant of PlateTaken: Qt is not told.
PlateTakenSilently ==
  \E st \in {2, 3}, s \in Sightings :
    /\ LastPoll(st, s) /\ s.num = 0
    /\ Return /\ writePlataStatus' = 0 /\ UNCHANGED qtVars

PlateTaken ==
  \E st \in {2, 3}, s \in Sightings :
    /\ LastPoll(st, s)
    /\ s.num = 0
    /\ Removed

(* Another plate is tag[0]: its predecessor is reported as taken, after the *)
(* report of several plates when there are several.                         *)
OtherPlate ==
  \E s \in Sightings :
    /\ LastPoll(2, s)
    /\ s.num > 0 /\ s.first # tagBak
    /\ Removed

PlateJoined ==
  \E s \in Sightings :
    /\ LastPoll(2, s)
    /\ s.num > 1 /\ s.first = tagBak
    /\ ConcludeUnset(3, "MUL_ERR")

\* Mutant of PlateStays: the count is not looked at.
PlateStaysTogether ==
  \E st \in {2, 3}, s \in Sightings :
    /\ LastPoll(st, s) /\ s.num > 0
    /\ st = 2 => s.first = tagBak
    /\ Return /\ UNCHANGED <<writePlataStatus, qtVars>>

PlateStays ==
  \E st \in {2, 3}, s \in Sightings :
    /\ LastPoll(st, s)
    /\ s.num > 0
    /\ st = 2 => s.num = 1 /\ s.first = tagBak
    /\ Return
    /\ UNCHANGED <<writePlataStatus, qtVars>>

-----------------------------------------------------------------------------
(* The Qt receiver thread.  The result of the database write is ignored    *)
(* (msgTask.c:425): the answer is sent and writing is allowed either way.  *)

SelectDish ==
  /\ qtPc = "idle"
  /\ \E d \in Dishes :
       /\ asked' = d
       /\ menuDb' = d \/ (DbFaults /\ UNCHANGED menuDb)
  /\ qtPc' = "ack"
  /\ stale' = 0
  /\ UNCHANGED <<nfcVars, field, restarts, stopWritePlateFlag, late, about,
                 settled>>

AllowWriting ==
  /\ qtPc = "ack"
  /\ qtPc' = "idle"
  /\ stopWritePlateFlag' = TRUE
  /\ late' = 0
  /\ UNCHANGED <<nfcVars, field, restarts, menuDb, asked, stale, about,
                 settled>>

StopWriting ==
  /\ qtPc = "idle"
  /\ stopWritePlateFlag' = FALSE
  /\ UNCHANGED <<nfcVars, field, restarts, menuDb, qtPc, asked,
                 histVars>>

(* menuUpdateTime_Callback on the IoT thread: set_stop_write_palte_status. *)
MenuArrives ==
  /\ stopWritePlateFlag' = FALSE
  /\ UNCHANGED <<nfcVars, field, restarts, menuDb, qtPc, asked,
                 histVars>>

-----------------------------------------------------------------------------
(* The kitchen hand, and the end of the process (rebootgolang.sh, a crash). *)
(* Qt is another process and keeps the last message on its screen.          *)

Lay(p) ==
  /\ p \notin field
  /\ field' = field \cup {p}
  /\ settled' = FALSE
  /\ UNCHANGED <<nfcVars, flagVars, restarts, late, stale, about>>

Take(p) ==
  /\ p \in field
  /\ field' = field \ {p}
  /\ settled' = FALSE
  /\ UNCHANGED <<nfcVars, flagVars, restarts, late, stale, about>>

Restart ==
  /\ restarts < MaxRestarts
  /\ restarts' = restarts + 1
  /\ Return
  /\ writePlataStatus' = 0 /\ tagBak' = NoPlate
  /\ stopWritePlateFlag' = FALSE
  /\ qtPc' = "idle" /\ asked' = NoDish
  /\ late' = 0 /\ stale' = 0 /\ about' = NoPlate /\ settled' = FALSE
  /\ UNCHANGED <<field, block2, qtVars, menuDb>>

-----------------------------------------------------------------------------
\* The writing thread: one call of nfc_write_plate_task after another.
WriterStep ==
  \/ Enter \/ Poll
  \/ NothingFound \/ TooManyFound \/ PlateFound
  \/ Find \/ ReadMenu \/ ReadMenuFails \/ ReadBlock \/ ReadBlockFails
  \/ WriteBlock \/ WriteBlockFails
  \/ PlateTaken \/ OtherPlate \/ PlateJoined \/ PlateStays

\* The threads that share its flags.
ControlStep ==
  \/ SelectDish \/ AllowWriting \/ StopWriting \/ MenuArrives

Next ==
  \/ WriterStep
  \/ ControlStep
  \/ \E p \in Plates : Lay(p) \/ Take(p)
  \/ Restart

Spec == Init /\ [][Next]_vars

(* The thread never sleeps for ever (cAppTask.c:43-47), and the receiver    *)
(* that has written the database goes on to its answer.                     *)
FairSpec == Spec /\ WF_vars(WriterStep) /\ WF_vars(AllowWriting)

-----------------------------------------------------------------------------
(* Properties                                                              *)

Content == Dishes \cup {NoDish, Foreign}

DataOK ==
  /\ field \subseteq Plates
  /\ block2 \in [Plates -> Content]
  /\ pc \in {"top", "poll", "find", "menu", "read", "write"}
  /\ writePlataStatus \in 0..3
  /\ polls \in 0..(FilterNum - 1) /\ tagNum \in Nat
  /\ tag0 \in Plates \cup {NoPlate} /\ tagBak \in Plates \cup {NoPlate}
  /\ dish \in Dishes \cup {NoDish}
  /\ report \in Results /\ screen \in Results
  /\ menuDb \in Dishes /\ asked \in Dishes \cup {NoDish}
  /\ qtPc \in {"idle", "ack"}
  /\ restarts \in 0..MaxRestarts
  /\ late \in 0..2 /\ stale \in 0..2
  /\ about \in Plates \cup {NoPlate}

FlagOK ==
  /\ agree \in BOOLEAN /\ settled \in BOOLEAN
  /\ stopWritePlateFlag \in BOOLEAN

\* Types of the variables of the writing thread and of the flags it shares.
TypeOK == DataOK /\ FlagOK

(* Once writing has been stopped (by Qt or by an arriving menu) at most the *)
(* one plate already past the check of the flag is still written: the flag  *)
(* is read only in state 0, at the head of the function.                    *)
StopOverrun == ~stopWritePlateFlag => late <= 1

(* After Qt has selected a dish and the database has taken it, at most one *)
(* plate, whose dish was read before, still gets the former dish.          *)
StaleOnce == asked # NoDish /\ menuDb = asked => stale <= 1

(* A plate written without error that stays where it is, with nothing else *)
(* moving on the antenna, is not written a second time: tag_bak recognises *)
(* it, or several tags block state 0.  Holds while the radio misses no tag. *)
WrittenOnce == ~RadioFaults /\ pc = "write" /\ settled => tag0 # about

(* Qt's screen shows nothing while the machine is in states 0 and 1, and in *)
(* states 2 and 3 a result has been sent.  What Qt can read of a message   *)
(* with an unset head is left open, but no such message stands at the end. *)
ScreenMatchesStatus ==
  restarts = 0 =>
    /\ writePlataStatus \in {0, 1} => screen = "GONE" /\ report = "GONE"
    /\ writePlataStatus \in {2, 3} => report # "GONE"
    /\ writePlataStatus = 3 => report \in {"MUL_ERR", "READ_ERR"}

(* Qt shows the result that was sent last, as the comments beside the calls *)
(* of send_data_to_qt_direct have it.                                      *)
ResultShown == restarts = 0 => screen = report

(* The dish that writeplatemenu.db keeps from an earlier boot is not       *)
(* written on any plate before Qt selects a dish in this boot.             *)
SelectionFirst == [][block2' # block2 => asked # NoDish]_vars

(* A plate of another make is never overwritten, whatever moves between    *)
(* the check of block 2 and the write.                                     *)
ForeignUntouched ==
  [][\A p \in Plates : block2[p] = Foreign => block2'[p] = Foreign]_vars

(* When the antenna stays empty, Qt's screen is cleared for good, also     *)
(* when writing has been stopped meanwhile, and whatever it could read.    *)
ScreenClears ==
  <>[](field = {}) => <>[](screen = "GONE")

(* A plate left alone while writing is allowed gets a result, again and    *)
(* again when it cannot be written.  It is sent to Qt, which may not be    *)
(* able to read it.                                                        *)
PlateAnswered ==
  <>[](Cardinality(field) = 1 /\ stopWritePlateFlag)
    => []<>(report # "GONE")

(* Several plates left on the antenna while writing is allowed end in a    *)
(* report of several, or of a plate of another make, and not of a success: *)
(* also when one of them joined after state 0 had counted one, and state 1 *)
(* wrote it.                                                               *)
SeveralTold ==
  <>[](Cardinality(field) > 1 /\ stopWritePlateFlag)
    => <>[](report \in {"MUL_ERR", "READ_ERR"})

-----------------------------------------------------------------------------
(* The services that the writer promises                                   *)

\* The plate of the call under way is past the check of the stop flag.
InFlight == writePlataStatus = 1 \/ (pc = "poll" /\ writePlataStatus = 0)

Stage ==
  IF writePlataStatus \in {2, 3} THEN "answered"
  ELSE IF InFlight THEN "serving" ELSE "waiting"

Promise == INSTANCE PlatePromise WITH
  content <- block2, answer <- report, allowed <- stopWritePlateFlag,
  stored <- menuDb, chosen <- dish, stage <- Stage

(* Whatever the radio misses, the database refuses and the kitchen hand     *)
(* moves, the calls of nfc_write_plate_task add up to the services of       *)
(* PlatePromise: allowed when begun, one dish, at most one plate, a result  *)
(* that is sent and may be shown, and a cleared screen before the next.     *)
KeepsPromise == Promise!Spec

-----------------------------------------------------------------------------
(* The invariants that make the properties above inductive                 *)

PcInv == pc \in {"find", "menu", "read", "write"} => writePlataStatus = 1

StopInv ==
  /\ stopWritePlateFlag => late = 0
  /\ late <= 1
  /\ late = 1 => ~InFlight

StaleInv ==
  asked # NoDish /\ menuDb = asked =>
    /\ stale <= 1
    /\ stale = 1 /\ pc \in {"read", "write"} => dish = asked

SelectionInv ==
  asked = NoDish => ~stopWritePlateFlag /\ qtPc = "idle" /\ ~InFlight

CheckedInv == pc = "write" => tag0 \in Plates /\ block2[tag0] # Foreign

\* While nothing moves: one plate is recognised, several never reach state 1.
WrittenInv ==
  settled =>
    /\ about \in field
    /\ Cardinality(field) = 1 => writePlataStatus = 2 /\ tagBak = about
    /\ Cardinality(field) # 1 => writePlataStatus # 1

=============================================================================
