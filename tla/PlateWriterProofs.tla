------------------------- MODULE PlateWriterProofs -------------------------
(* Theorems about PlateWriter, for every value of its constants.           *)
EXTENDS PlateWriter, FiniteSetTheorems, TLAPS

-----------------------------------------------------------------------------
(* What a read of the antenna returns: a count, and a plate of the field    *)
(* when the count is not zero (rfal_find_tag).                              *)
LEMMA SightingType ==
  ASSUME field \subseteq Plates, NEW s \in Sightings
  PROVE  /\ s.num \in Nat
         /\ s.first \in Plates \cup {NoPlate}
         /\ s.num > 0 => s.first \in field
         /\ ~RadioFaults => s.num = Cardinality(field)
<1>1. PICK seen \in Visible :
        s \in {[num |-> Cardinality(seen), first |-> p] :
                 p \in IF seen = {} THEN {NoPlate} ELSE seen}
  BY DEF Sightings
<1>2. PICK p \in IF seen = {} THEN {NoPlate} ELSE seen :
        s = [num |-> Cardinality(seen), first |-> p]
  BY <1>1
<1>3. seen \subseteq field
  BY DEF Visible
<1>4. IsFiniteSet(seen)
  BY <1>3, FS_Subset, PlateAssumption
<1>5. Cardinality(seen) \in Nat
  BY <1>4, FS_CardinalityType
<1>6. seen = {} => Cardinality(seen) = 0
  BY FS_EmptySet
<1>7. ~RadioFaults => seen = field
  BY DEF Visible
<1>8. QED
  BY <1>2, <1>3, <1>5, <1>6, <1>7

-----------------------------------------------------------------------------
LEMMA InitType == Init => TypeOK
<1>1. Init => DataOK
  BY SizeAssumption, SMT DEF Init, DataOK, Content, Results
<1>2. Init => FlagOK
  BY Zenon DEF Init, FlagOK
<1>3. QED
  BY <1>1, <1>2 DEF TypeOK

LEMMA NextData == DataOK /\ [Next]_vars => DataOK'
<1> SUFFICES ASSUME DataOK, [Next]_vars PROVE DataOK'
  OBVIOUS
<1> USE SizeAssumption DEF DataOK, Content, Results
<1>0. \A s \in Sightings : s.num \in Nat /\ s.first \in Plates \cup {NoPlate}
  BY SightingType
<1>1. CASE Enter
  BY <1>1 DEF Enter, tagVars, qtVars, flagVars, histVars
<1>2. CASE Poll
  BY <1>0, <1>2 DEF Poll, qtVars, flagVars, histVars
<1>3. CASE NothingFound \/ TooManyFound \/ PlateFound
  BY <1>3 DEF NothingFound, TooManyFound, PlateFound, LastPoll, Return,
              Conclude, qtVars, flagVars, histVars
<1>4. CASE Find
  BY <1>0, <1>4 DEF Find, Return, qtVars, flagVars, histVars
<1>5. CASE ReadMenu \/ ReadMenuFails
  BY <1>5, FaultAssumption DEF Heads, ConcludeUnset, Conclude, ReadMenu,
                               ReadMenuFails, Return, qtVars, flagVars,
                               histVars
<1>6. CASE ReadBlock \/ ReadBlockFails
  BY <1>6, FaultAssumption DEF Heads, ConcludeUnset, Conclude, ReadBlock,
                               ReadBlockFails, Return, tagVars, qtVars,
                               flagVars, histVars
<1>7. CASE WriteBlock
  BY <1>7, FaultAssumption DEF Heads, ConcludeUnset, Conclude, WriteBlock,
                               WriteBegun, AtMostTwo, Return, flagVars
<1>8. CASE WriteBlockFails
  BY <1>8, FaultAssumption DEF Heads, ConcludeUnset, Conclude,
                               WriteBlockFails, WriteBegun, AtMostTwo,
                               Return, flagVars
<1>9. CASE PlateTaken \/ OtherPlate \/ PlateJoined \/ PlateStays
  BY <1>9, FaultAssumption DEF Heads, ConcludeUnset, PlateTaken, OtherPlate,
                               PlateJoined, PlateStays, Removed, LastPoll,
                               Conclude, Return, qtVars, flagVars, histVars
<1>10. CASE ControlStep
  BY <1>10 DEF ControlStep, SelectDish, AllowWriting, StopWriting,
               MenuArrives, nfcVars, tagVars, qtVars, histVars
<1>11. CASE \E p \in Plates : Lay(p) \/ Take(p)
  BY <1>11 DEF Lay, Take, nfcVars, tagVars, qtVars, flagVars
<1>12. CASE Restart
  BY <1>12 DEF Restart, Return, qtVars
<1>13. CASE UNCHANGED vars
  BY <1>13 DEF vars, nfcVars, tagVars, qtVars, flagVars, histVars
<1>14. QED
  BY <1>1, <1>2, <1>3, <1>4, <1>5, <1>6, <1>7, <1>8, <1>9, <1>10,
     <1>11, <1>12, <1>13 DEF Next, WriterStep

LEMMA NextFlag == FlagOK /\ [Next]_vars => FlagOK'
BY Zenon DEF FlagOK, Next, WriterStep, ControlStep, Enter, Poll, NothingFound,
   TooManyFound, PlateFound, Find, ReadMenu, ReadMenuFails, ReadBlock,
   ReadBlockFails, WriteBlock, WriteBlockFails, WriteBegun, PlateTaken,
   OtherPlate, PlateJoined, PlateStays, LastPoll, Removed,
   ConcludeUnset, Conclude, Return, SelectDish, AllowWriting, StopWriting,
   MenuArrives,
   Lay, Take, Restart, vars, nfcVars,
   tagVars, flagVars, histVars

(* Every variable keeps the type the source gives it; in particular the    *)
(* reads of a loop stay below FilterNum (rewrCardTask.c:509-514).          *)
THEOREM TypeCorrect == Spec => []TypeOK
<1>1. TypeOK /\ [Next]_vars => TypeOK'
  BY NextData, NextFlag DEF TypeOK
<1>2. QED
  BY InitType, <1>1, PTL DEF Spec

-----------------------------------------------------------------------------
(* States find, menu, read and write of the call belong to state 1 of the  *)
(* source's machine (rewrCardTask.c:546-636).                              *)
LEMMA PcInvariant == PcInv /\ [Next]_vars => PcInv'
<1> SUFFICES ASSUME PcInv, [Next]_vars PROVE PcInv'
  OBVIOUS
<1> USE DEF PcInv
<1>1. CASE Enter \/ Poll \/ Find \/ ReadMenu \/ ReadBlock
  BY <1>1 DEF Enter, Poll, Find, ReadMenu, ReadBlock, Return
<1>2. CASE ReadMenuFails \/ ReadBlockFails \/ WriteBlock \/ WriteBlockFails
           \/ Restart
  BY <1>2 DEF ReadMenuFails, ReadBlockFails, WriteBlock,
              WriteBlockFails, Restart, ConcludeUnset, Conclude, Return
<1>3. CASE NothingFound \/ TooManyFound \/ PlateFound \/ PlateTaken
           \/ OtherPlate \/ PlateJoined \/ PlateStays
  BY <1>3 DEF NothingFound, TooManyFound, PlateFound, PlateTaken, OtherPlate,
              PlateJoined, PlateStays, Removed, ConcludeUnset, Conclude, Return
<1>4. CASE \/ ControlStep \/ \E p \in Plates : Lay(p) \/ Take(p)
           \/ UNCHANGED vars
  BY <1>4 DEF ControlStep, SelectDish, AllowWriting, StopWriting,
              MenuArrives, Lay, Take,
              vars, nfcVars
<1>5. QED
  BY <1>1, <1>2, <1>3, <1>4 DEF Next, WriterStep

LEMMA StopInvariant ==
  TypeOK /\ PcInv /\ StopInv /\ [Next]_vars => StopInv'
<1> SUFFICES ASSUME TypeOK, PcInv, StopInv, [Next]_vars PROVE StopInv'
  OBVIOUS
<1> USE DEF StopInv, InFlight, PcInv
<1>0. late \in 0..2
  BY DEF TypeOK, DataOK
<1>1. CASE Enter
  BY <1>0, <1>1 DEF Enter, flagVars, histVars
<1>2. CASE Poll \/ Find \/ ReadMenu \/ ReadBlock
  BY <1>0, <1>2 DEF Poll, Find, ReadMenu, ReadBlock, Return,
                    flagVars, histVars
<1>3. CASE ReadMenuFails \/ ReadBlockFails
  BY <1>0, <1>3 DEF ReadMenuFails, ReadBlockFails, ConcludeUnset, Conclude,
                    Return, flagVars
<1>4. CASE WriteBlock \/ WriteBlockFails
  <2>1. late = 0 /\ pc' = "top" /\ writePlataStatus' = 2
    BY <1>0, <1>4 DEF WriteBlock, WriteBlockFails, ConcludeUnset, Conclude,
                      Return
  <2>2. UNCHANGED stopWritePlateFlag /\ WriteBegun
    BY <1>4 DEF WriteBlock, WriteBlockFails, flagVars
  <2>3. QED
    BY <2>1, <2>2 DEF WriteBegun, AtMostTwo
<1>5. CASE NothingFound \/ TooManyFound \/ PlateFound \/ PlateTaken
           \/ OtherPlate \/ PlateJoined \/ PlateStays
  BY <1>0, <1>5 DEF NothingFound, TooManyFound, PlateFound, PlateTaken,
                    OtherPlate, PlateJoined, PlateStays, LastPoll, Removed,
                    ConcludeUnset, Conclude, Return, flagVars, histVars
<1>6. CASE ControlStep
  BY <1>0, <1>6 DEF ControlStep, SelectDish, AllowWriting, StopWriting,
                    MenuArrives, nfcVars,
                    histVars
<1>7. CASE \E p \in Plates : Lay(p) \/ Take(p)
  BY <1>7 DEF Lay, Take, nfcVars, flagVars
<1>8. CASE Restart
  BY <1>8 DEF Restart, Return
<1>9. CASE UNCHANGED vars
  BY <1>9 DEF vars, nfcVars, flagVars, histVars
<1>10. QED
  BY <1>1, <1>2, <1>3, <1>4, <1>5, <1>6, <1>7, <1>8, <1>9
     DEF Next, WriterStep

(* After STOP, or after a menu arrived, at most one plate is still written *)
(* (the flag is checked in state 0 only, rewrCardTask.c:490).              *)
THEOREM StopOverrunHolds == Spec => []StopOverrun
<1>1. Init => PcInv /\ StopInv
  BY DEF Init, PcInv, StopInv, InFlight
<1>2. StopInv => StopOverrun
  BY DEF StopInv, StopOverrun
<1>3. QED
  BY <1>1, <1>2, TypeCorrect, PcInvariant, StopInvariant, PTL DEF Spec

-----------------------------------------------------------------------------
LEMMA StaleInvariant ==
  TypeOK /\ StaleInv /\ [Next]_vars => StaleInv'
<1> SUFFICES ASSUME TypeOK, StaleInv, [Next]_vars PROVE StaleInv'
  OBVIOUS
<1> USE DEF StaleInv
<1>0. stale \in 0..2
  BY DEF TypeOK, DataOK
<1>1. CASE Enter \/ Poll \/ Find \/ ReadMenu \/ ReadBlock
  BY <1>1 DEF Enter, Poll, Find, ReadMenu, ReadBlock, Return,
              tagVars, flagVars, histVars
<1>2. CASE ReadMenuFails \/ ReadBlockFails
  BY <1>2 DEF ReadMenuFails, ReadBlockFails, ConcludeUnset, Conclude, Return,
              flagVars
<1>3. CASE WriteBlock \/ WriteBlockFails
  <2>1. pc = "write" /\ pc' = "top" /\ UNCHANGED <<asked, menuDb>>
    BY <1>3 DEF WriteBlock, WriteBlockFails, ConcludeUnset, Conclude, Return,
                flagVars
  <2>2. stale' = IF dish = asked THEN stale ELSE AtMostTwo(stale + 1)
    BY <1>3 DEF WriteBlock, WriteBlockFails, WriteBegun
  <2>3. QED
    BY <1>0, <2>1, <2>2 DEF AtMostTwo
<1>4. CASE NothingFound \/ TooManyFound \/ PlateFound \/ PlateTaken
           \/ OtherPlate \/ PlateJoined \/ PlateStays
  BY <1>4 DEF NothingFound, TooManyFound, PlateFound, PlateTaken,
              OtherPlate, PlateJoined, PlateStays, LastPoll, Removed,
              ConcludeUnset, Conclude, Return, flagVars, histVars
<1>5. CASE ControlStep
  BY <1>5 DEF ControlStep, SelectDish, AllowWriting, StopWriting,
              MenuArrives, nfcVars,
              tagVars, histVars
<1>6. CASE \E p \in Plates : Lay(p) \/ Take(p)
  BY <1>6 DEF Lay, Take, nfcVars, tagVars, flagVars
<1>7. CASE Restart
  BY <1>7 DEF Restart
<1>8. CASE UNCHANGED vars
  BY <1>8 DEF vars, nfcVars, tagVars, flagVars, histVars
<1>9. QED
  BY <1>1, <1>2, <1>3, <1>4, <1>5, <1>6, <1>7, <1>8 DEF Next, WriterStep

(* Once the database holds the dish that Qt asked for, at most one plate   *)
(* still gets another dish, read before (rewrCardTask.c:553 and 605).      *)
THEOREM StaleOnceHolds == Spec => []StaleOnce
<1>1. Init => StaleInv
  BY DEF Init, StaleInv
<1>2. StaleInv => StaleOnce
  BY DEF StaleInv, StaleOnce
<1>3. QED
  BY <1>1, <1>2, TypeCorrect, StaleInvariant, PTL DEF Spec

-----------------------------------------------------------------------------
LEMMA SelectionInvariant ==
  PcInv /\ SelectionInv /\ TypeOK /\ [Next]_vars => SelectionInv'
<1> SUFFICES ASSUME PcInv, SelectionInv, TypeOK, [Next]_vars
             PROVE  SelectionInv'
  OBVIOUS
<1> USE DEF SelectionInv, InFlight, PcInv
<1>1. CASE Enter \/ Poll \/ Find \/ ReadMenu \/ ReadBlock
  BY <1>1 DEF Enter, Poll, Find, ReadMenu, ReadBlock, Return,
              flagVars
<1>2. CASE ReadMenuFails \/ ReadBlockFails \/ WriteBlock \/ WriteBlockFails
  BY <1>2 DEF ReadMenuFails, ReadBlockFails, WriteBlock, WriteBlockFails,
              ConcludeUnset, Conclude, Return, flagVars
<1>3. CASE NothingFound \/ TooManyFound \/ PlateFound \/ PlateTaken
           \/ OtherPlate \/ PlateJoined \/ PlateStays
  BY <1>3 DEF NothingFound, TooManyFound, PlateFound, PlateTaken,
              OtherPlate, PlateJoined, PlateStays, LastPoll, Removed,
              ConcludeUnset, Conclude, Return, flagVars
<1>4. CASE SelectDish
  BY <1>4, PlateAssumption DEF SelectDish
<1>5. CASE AllowWriting \/ StopWriting \/ MenuArrives
  BY <1>5 DEF AllowWriting, StopWriting, MenuArrives, nfcVars
<1>6. CASE \E p \in Plates : Lay(p) \/ Take(p)
  BY <1>6 DEF Lay, Take, nfcVars, flagVars
<1>7. CASE Restart
  BY <1>7 DEF Restart, Return
<1>8. CASE UNCHANGED vars
  BY <1>8 DEF vars, nfcVars, flagVars
<1>9. QED
  BY <1>1, <1>2, <1>3, <1>4, <1>5, <1>6, <1>7, <1>8
     DEF Next, WriterStep, ControlStep

\* Only the write of state 1 changes block 2 of a plate.
LEMMA OnlyWritesChangeBlocks ==
  [Next]_vars /\ ~WriteBlock /\ ~WriteBlockFails => UNCHANGED block2
BY DEF Next, WriterStep, ControlStep, Enter, Poll, NothingFound, TooManyFound,
   PlateFound, LastPoll, Find, ReadMenu, ReadMenuFails, ReadBlock,
   ReadBlockFails, PlateTaken, OtherPlate, PlateJoined, PlateStays,
   SelectDish, AllowWriting, StopWriting, MenuArrives, Lay, Take, Restart,
   vars, nfcVars

(* The dish left in the database by an earlier boot reaches no plate before *)
(* Qt selects a dish (stopWritePlateFlag starts at 0, msgTask.c:27).        *)
THEOREM SelectionFirstHolds == Spec => SelectionFirst
<1>1. Init => PcInv /\ SelectionInv
  BY DEF Init, PcInv, SelectionInv, InFlight
<1>2. PcInv /\ SelectionInv /\ [Next]_vars
        => [block2' # block2 => asked # NoDish]_vars
  BY OnlyWritesChangeBlocks
     DEF PcInv, SelectionInv, InFlight, WriteBlock, WriteBlockFails
<1>3. QED
  BY <1>1, <1>2, TypeCorrect, PcInvariant, SelectionInvariant, PTL
     DEF Spec, SelectionFirst

-----------------------------------------------------------------------------
LEMMA CheckedInvariant ==
  TypeOK /\ CheckedInv /\ [Next]_vars => CheckedInv'
<1> SUFFICES ASSUME TypeOK, CheckedInv, [Next]_vars PROVE CheckedInv'
  OBVIOUS
<1> USE DEF CheckedInv
<1>1. CASE ReadBlock
  BY <1>1 DEF ReadBlock, tagVars, TypeOK, DataOK
<1>2. CASE Enter \/ Poll \/ Find \/ ReadMenu
  BY <1>2 DEF Enter, Poll, Find, ReadMenu, Return, tagVars
<1>3. CASE ReadMenuFails \/ ReadBlockFails \/ WriteBlock \/ WriteBlockFails
           \/ Restart
  BY <1>3 DEF ReadMenuFails, ReadBlockFails, WriteBlock, WriteBlockFails,
              Restart, ConcludeUnset, Conclude, Return
<1>4. CASE NothingFound \/ TooManyFound \/ PlateFound \/ PlateTaken
           \/ OtherPlate \/ PlateJoined \/ PlateStays
  BY <1>4 DEF NothingFound, TooManyFound, PlateFound, PlateTaken, OtherPlate,
              PlateJoined, PlateStays, Removed, ConcludeUnset, Conclude, Return
<1>5. CASE \/ ControlStep \/ \E p \in Plates : Lay(p) \/ Take(p)
           \/ UNCHANGED vars
  BY <1>5 DEF ControlStep, SelectDish, AllowWriting, StopWriting,
              MenuArrives, Lay, Take,
              vars, nfcVars, tagVars
<1>6. QED
  BY <1>1, <1>2, <1>3, <1>4, <1>5 DEF Next, WriterStep

(* A plate without the Meican identification code is never written: tag[0] *)
(* is read before it is written, and addressed by uid in both accesses     *)
(* (rewrCardTask.c:577 and 605).                                           *)
THEOREM ForeignUntouchedHolds == Spec => ForeignUntouched
<1>1. Init => CheckedInv
  BY DEF Init, CheckedInv
<1>2. TypeOK /\ CheckedInv /\ [Next]_vars
        => [\A p \in Plates : block2[p] = Foreign => block2'[p] = Foreign]_vars
  <2> SUFFICES ASSUME TypeOK, CheckedInv, [Next]_vars, NEW p \in Plates,
                      block2[p] = Foreign
               PROVE  block2'[p] = Foreign
    OBVIOUS
  <2>1. CASE WriteBlock \/ WriteBlockFails
    BY <2>1 DEF WriteBlock, WriteBlockFails, CheckedInv, TypeOK, DataOK
  <2>2. CASE ~WriteBlock /\ ~WriteBlockFails
    BY <2>2, OnlyWritesChangeBlocks
  <2>3. QED
    BY <2>1, <2>2
<1>3. QED
  BY <1>1, <1>2, TypeCorrect, CheckedInvariant, PTL DEF Spec, ForeignUntouched

-----------------------------------------------------------------------------
LEMMA ScreenInvariant ==
  TypeOK /\ PcInv /\ ScreenMatchesStatus /\ [Next]_vars
    => ScreenMatchesStatus'
<1> SUFFICES ASSUME TypeOK, PcInv, ScreenMatchesStatus, [Next]_vars
             PROVE  ScreenMatchesStatus'
  OBVIOUS
<1> USE SizeAssumption DEF ScreenMatchesStatus, PcInv
<1>1. CASE Enter \/ Poll \/ Find \/ ReadMenu \/ ReadBlock
  BY <1>1 DEF Enter, Poll, Find, ReadMenu, ReadBlock, Return, qtVars
<1>2. CASE ReadMenuFails \/ ReadBlockFails \/ WriteBlock \/ WriteBlockFails
  BY <1>2, FaultAssumption DEF Heads, ConcludeUnset, Conclude, ReadMenuFails,
                               ReadBlockFails, WriteBlock, WriteBlockFails
<1>3. CASE NothingFound \/ TooManyFound \/ PlateFound
  BY <1>3 DEF NothingFound, TooManyFound, PlateFound, LastPoll, Conclude,
              Return, qtVars
<1>4. CASE PlateTaken \/ OtherPlate \/ PlateJoined \/ PlateStays
  BY <1>4, FaultAssumption DEF Heads, ConcludeUnset, PlateTaken, OtherPlate,
                               PlateJoined, PlateStays, LastPoll, Removed,
                               Conclude, Return, qtVars
<1>5. CASE \/ ControlStep \/ \E p \in Plates : Lay(p) \/ Take(p)
           \/ UNCHANGED vars
  BY <1>5 DEF ControlStep, SelectDish, AllowWriting, StopWriting,
              MenuArrives, Lay, Take,
              vars, nfcVars, qtVars
<1>6. CASE Restart
  BY <1>6 DEF Restart, TypeOK, DataOK
<1>7. QED
  BY <1>1, <1>2, <1>3, <1>4, <1>5, <1>6 DEF Next, WriterStep

(* Until the process restarts, whatever Qt can make of the messages whose  *)
(* length and command were never set (rewrCardTask.c:479), its screen is   *)
(* clear whenever the machine is in states 0 and 1, so that no plate is    *)
(* counted or written under the result of another one; and a result has    *)
(* been sent in states 2 and 3, an error in state 3.                       *)
THEOREM ScreenMatchesStatusHolds == Spec => []ScreenMatchesStatus
<1>1. Init => PcInv /\ ScreenMatchesStatus
  BY DEF Init, PcInv, ScreenMatchesStatus
<1>2. QED
  BY <1>1, TypeCorrect, PcInvariant, ScreenInvariant, PTL DEF Spec

-----------------------------------------------------------------------------
\* The machine of the source: one plate at most, and a radio that misses none.
SourceRadio == MaxWritePlate = 1 /\ RadioFaults = FALSE

LEMMA WrittenInvariant ==
  ASSUME SourceRadio
  PROVE  TypeOK /\ PcInv /\ WrittenInv /\ [Next]_vars => WrittenInv'
<1> SUFFICES ASSUME TypeOK, PcInv, WrittenInv, [Next]_vars PROVE WrittenInv'
  OBVIOUS
<1> DEFINE n == Cardinality(field)
<1>1. /\ field \subseteq Plates /\ n \in Nat
      /\ \A s \in Sightings :
           s.num = n /\ s.num \in Nat /\ (s.num > 0 => s.first \in field)
  BY SightingType, PlateAssumption, FS_Subset, FS_CardinalityType
     DEF TypeOK, DataOK, SourceRadio
<1>2. \A p, q \in field : n = 1 => p = q
  BY <1>1, PlateAssumption, FS_Subset, FS_Singleton
<1>3. \A p \in field : n > 0
  BY <1>1, PlateAssumption, FS_Subset, FS_EmptySet
<1> USE DEF WrittenInv, PcInv
<1>4. CASE Enter \/ Poll \/ ReadMenu \/ ReadBlock
  <2>1. UNCHANGED <<field, tagBak, about, settled, writePlataStatus>>
    BY <1>4 DEF Enter, Poll, ReadMenu, ReadBlock, histVars
  <2>2. QED
    BY <2>1, Zenon
<1>5. CASE Find
  <2>1. ~settled
    BY <1>5 DEF Find
  <2>2. QED
    BY <1>5, <2>1 DEF Find, histVars
<1>6. CASE ReadMenuFails \/ ReadBlockFails \/ WriteBlockFails \/ Restart
           \/ \E p \in Plates : Lay(p) \/ Take(p)
  BY <1>6 DEF ReadMenuFails, ReadBlockFails, WriteBlockFails, Restart, Lay,
              Take
<1>7. CASE WriteBlock
  BY <1>7 DEF WriteBlock, ConcludeUnset, Conclude
<1>8. CASE NothingFound \/ TooManyFound \/ PlateFound
  <2>1. ~(settled /\ n = 1)
    BY <1>8 DEF NothingFound, TooManyFound, PlateFound, LastPoll
  <2>2. UNCHANGED <<field, tagBak, about, settled>>
    BY <1>8 DEF NothingFound, TooManyFound, PlateFound, LastPoll, histVars
  <2>3. CASE PlateFound
    BY <1>1, <2>1, <2>2, <2>3 DEF PlateFound, LastPoll, SourceRadio
  <2>4. CASE NothingFound \/ TooManyFound
    BY <2>1, <2>2, <2>4 DEF NothingFound, TooManyFound, LastPoll,
                            ConcludeUnset, Conclude
  <2>5. QED
    BY <1>8, <2>3, <2>4
<1>9. CASE PlateTaken
  BY <1>1, <1>3, <1>9 DEF PlateTaken, LastPoll, histVars
<1>10. CASE OtherPlate
  <2>1. settled => n # 1
    BY <1>1, <1>2, <1>10 DEF OtherPlate, LastPoll
  <2>2. QED
    BY <1>10, <2>1 DEF OtherPlate, Removed, LastPoll, ConcludeUnset, Conclude,
                       histVars
<1>11. CASE PlateJoined
  BY <1>1, <1>11 DEF PlateJoined, LastPoll, ConcludeUnset, Conclude, histVars
<1>12. CASE PlateStays
  <2>1. UNCHANGED <<field, tagBak, about, settled, writePlataStatus>>
    BY <1>12 DEF PlateStays, LastPoll, histVars
  <2>2. QED
    BY <2>1, Zenon
<1>13. CASE ControlStep
  <2>1. UNCHANGED <<field, tagBak, about, settled, writePlataStatus>>
    BY <1>13 DEF ControlStep, SelectDish, AllowWriting, StopWriting,
                 MenuArrives, nfcVars, histVars
  <2>2. QED
    BY <2>1, Zenon
<1>14. CASE UNCHANGED vars
  BY <1>14 DEF vars, nfcVars, histVars
<1>15. QED
  BY <1>4, <1>5, <1>6, <1>7, <1>8, <1>9, <1>10, <1>11, <1>12, <1>13, <1>14
     DEF Next, WriterStep

(* A plate written without error is not written again while nothing moves  *)
(* on the antenna (tag_bak, rewrCardTask.c:617 and 685).                   *)
THEOREM WrittenOnceHolds ==
  ASSUME SourceRadio
  PROVE  Spec => []WrittenOnce
<1>1. Init => PcInv /\ WrittenInv
  BY DEF Init, PcInv, WrittenInv
<1>2. PcInv /\ WrittenInv => WrittenOnce
  BY DEF PcInv, WrittenInv, WrittenOnce
<1>3. TypeOK /\ PcInv /\ WrittenInv /\ [Next]_vars => WrittenInv'
  BY WrittenInvariant
<1>4. QED
  BY <1>1, <1>2, <1>3, TypeCorrect, PcInvariant, PTL DEF Spec

-----------------------------------------------------------------------------
(* The refinement                                                          *)

\* The dish of a call is known between its database access and its end.
DishInv == pc \in {"read", "write"} <=> dish # NoDish

LEMMA DishInvariant == TypeOK /\ DishInv /\ [Next]_vars => DishInv'
<1> SUFFICES ASSUME TypeOK, DishInv, [Next]_vars PROVE DishInv'
  OBVIOUS
<1> USE DEF DishInv
<1>0. menuDb # NoDish
  BY PlateAssumption DEF TypeOK, DataOK
<1>1. CASE Enter \/ Poll \/ Find \/ ReadMenu \/ ReadBlock
  BY <1>0, <1>1 DEF Enter, Poll, Find, ReadMenu, ReadBlock, Return, tagVars
<1>2. CASE ReadMenuFails \/ ReadBlockFails \/ WriteBlock \/ WriteBlockFails
           \/ Restart
  BY <1>2 DEF ReadMenuFails, ReadBlockFails, WriteBlock, WriteBlockFails,
              Restart, ConcludeUnset, Conclude, Return
<1>3. CASE NothingFound \/ TooManyFound \/ PlateFound \/ PlateTaken
           \/ OtherPlate \/ PlateJoined \/ PlateStays
  BY <1>3 DEF NothingFound, TooManyFound, PlateFound, PlateTaken, OtherPlate,
              PlateJoined, PlateStays, Removed, ConcludeUnset, Conclude, Return
<1>4. CASE \/ ControlStep \/ \E p \in Plates : Lay(p) \/ Take(p)
           \/ UNCHANGED vars
  BY <1>4 DEF ControlStep, SelectDish, AllowWriting, StopWriting,
              MenuArrives, Lay, Take, vars, nfcVars, tagVars
<1>5. QED
  BY <1>1, <1>2, <1>3, <1>4 DEF Next, WriterStep

PromiseInv == TypeOK /\ PcInv /\ SelectionInv /\ CheckedInv /\ DishInv

LEMMA PromiseInit == Init => Promise!Init
BY DEF Init, Promise!Init, Stage, InFlight

\* The steps up to the answer of a service.
LEMMA PromiseServes ==
  ASSUME PromiseInv,
         Enter \/ Poll \/ NothingFound \/ TooManyFound \/ PlateFound \/ Find
           \/ ReadMenu \/ ReadMenuFails \/ ReadBlock \/ ReadBlockFails
  PROVE  Promise!Next \/ UNCHANGED Promise!vars
<1> USE DEF PromiseInv, Stage, InFlight, PcInv, DishInv
<1>1. CASE Enter
  <2>1. UNCHANGED <<block2, report, screen, stopWritePlateFlag, asked, menuDb,
  dish,
                    writePlataStatus>>
        /\ pc = "top"
        /\ pc' = IF writePlataStatus = 1 THEN "find" ELSE "poll"
    BY <1>1 DEF Enter, tagVars, qtVars, flagVars
  <2>2. CASE writePlataStatus = 0
    <3>1. Stage = "waiting" /\ Stage' = "serving"
      BY <2>1, <2>2
    <3>2. stopWritePlateFlag
      BY <1>1, <2>2, Zenon DEF Enter
    <3>3. Promise!Begin
      BY <2>1, <3>1, <3>2, Zenon DEF Promise!Begin
    <3>4. QED
      BY <3>3 DEF Promise!Next
  <2>3. CASE writePlataStatus # 0
    BY <2>1, <2>3 DEF Promise!vars
  <2>4. QED
    BY <2>2, <2>3
<1>2. CASE Poll \/ ReadBlock
  BY <1>2 DEF Poll, ReadBlock, tagVars, qtVars, flagVars, Promise!vars
<1>3. CASE NothingFound
  <2>1. Promise!GiveUp
    BY <1>3 DEF NothingFound, LastPoll, Return, qtVars, flagVars,
                Promise!GiveUp
  <2>2. QED
    BY <2>1 DEF Promise!Next
<1>4. CASE TooManyFound
  <2>1. Promise!Answer("MUL_ERR") /\ UNCHANGED block2
    BY <1>4 DEF TooManyFound, LastPoll, Conclude, Return, qtVars, flagVars,
                Promise!Answer, Promise!Give
  <2>2. QED
    BY <2>1 DEF Promise!Next, Promise!Fail, Promise!Failures
<1>5. CASE PlateFound
  BY <1>5 DEF PlateFound, LastPoll, Return, qtVars, flagVars, Promise!vars
<1>6. CASE Find
  <2>1. CASE pc' = "top"
    <3>1. Promise!GiveUp
      BY <1>6, <2>1 DEF Find, Return, qtVars, flagVars, Promise!GiveUp
    <3>2. QED
      BY <3>1 DEF Promise!Next
  <2>2. CASE pc' # "top"
    BY <1>6, <2>2 DEF Find, Return, qtVars, flagVars, Promise!vars
  <2>3. QED
    BY <2>1, <2>2
<1>7. CASE ReadMenu
  <2>1. Promise!Choose
    BY <1>7 DEF ReadMenu, qtVars, flagVars, Promise!Choose
  <2>2. QED
    BY <2>1 DEF Promise!Next
<1>8. CASE ReadMenuFails
  <2>1. Promise!Answer("NULL_ERR") /\ UNCHANGED block2
    BY <1>8, FaultAssumption DEF Heads, ConcludeUnset, Conclude,
                                 ReadMenuFails, Return, qtVars, flagVars,
                                 Promise!Answer, Promise!Give
  <2>2. QED
    BY <2>1 DEF Promise!Next, Promise!Fail, Promise!Failures
<1>9. CASE ReadBlockFails
  <2>1. Promise!Answer("READ_ERR") /\ UNCHANGED block2
    BY <1>9, FaultAssumption DEF Heads, ConcludeUnset, Conclude,
                                 ReadBlockFails, Return, qtVars, flagVars,
                                 Promise!Answer, Promise!Give
  <2>2. QED
    BY <2>1 DEF Promise!Next, Promise!Fail, Promise!Failures
<1>10. QED
  BY <1>1, <1>2, <1>3, <1>4, <1>5, <1>6, <1>7, <1>8, <1>9

LEMMA PromiseWrites ==
  ASSUME PromiseInv, WriteBlock \/ WriteBlockFails
  PROVE  Promise!Next
<1>1. tag0 \in Plates /\ block2[tag0] # Foreign /\ dish # NoDish
      /\ writePlataStatus = 1
  BY DEF PromiseInv, CheckedInv, DishInv, PcInv, WriteBlock, WriteBlockFails
<1>2. CASE WriteBlock
  <2>1. Promise!Answer("OK") /\ Promise!Written(tag0)
    BY <1>1, <1>2, FaultAssumption DEF Heads, ConcludeUnset, Conclude,
                                       WriteBlock, Return, qtVars, flagVars,
                                       Promise!Answer, Promise!Give,
                                       Promise!Written, Stage, InFlight
  <2>2. QED
    BY <1>1, <2>1 DEF Promise!Next, Promise!Write
<1>3. CASE WriteBlockFails
  <2>1. Promise!Answer("ERROR")
    BY <1>1, <1>3, FaultAssumption DEF Heads, ConcludeUnset, Conclude,
                                       WriteBlockFails, Return, qtVars,
                                       flagVars, Promise!Answer,
                                       Promise!Give, Stage, InFlight
  <2>2. UNCHANGED block2 \/ Promise!Written(tag0)
    BY <1>1, <1>3 DEF WriteBlockFails, Promise!Written
  <2>3. QED
    BY <1>1, <2>1, <2>2 DEF Promise!Next, Promise!Fail, Promise!Failures
<1>4. QED
  BY <1>2, <1>3

LEMMA PromiseWaits ==
  ASSUME PromiseInv, PlateTaken \/ OtherPlate \/ PlateJoined \/ PlateStays
  PROVE  Promise!Next \/ UNCHANGED Promise!vars
<1> USE DEF PromiseInv, Stage, InFlight, DishInv
<1>1. CASE PlateTaken \/ OtherPlate
  <2>1. Promise!Clear
    BY <1>1 DEF PlateTaken, OtherPlate, LastPoll, Removed, Conclude, Return,
                qtVars, flagVars, Promise!Clear
  <2>2. QED
    BY <2>1 DEF Promise!Next
<1>2. CASE PlateJoined
  <2>1. Promise!Several
    BY <1>2, FaultAssumption DEF Heads, ConcludeUnset, Conclude, PlateJoined,
                                 LastPoll, Return, qtVars, flagVars,
                                 Promise!Several, Promise!Give
  <2>2. QED
    BY <2>1 DEF Promise!Next
<1>3. CASE PlateStays
  BY <1>3 DEF PlateStays, LastPoll, Return, qtVars, flagVars, Promise!vars
<1>4. QED
  BY <1>1, <1>2, <1>3

LEMMA PromiseOthers ==
  ASSUME PromiseInv,
         \/ ControlStep \/ Restart
         \/ \E p \in Plates : Lay(p) \/ Take(p)
         \/ UNCHANGED vars
  PROVE  Promise!Next \/ UNCHANGED Promise!vars
<1> USE DEF Stage, InFlight
<1>1. CASE SelectDish
  <2>1. PICK d \in Dishes :
          asked' = d /\ (menuDb' = d \/ UNCHANGED menuDb)
    BY <1>1 DEF SelectDish
  <2>2. Promise!Select(d)
    BY <1>1, <2>1 DEF SelectDish, nfcVars, tagVars, qtVars, Promise!Select
  <2>3. QED
    BY <2>2 DEF Promise!Next
<1>2. CASE AllowWriting
  <2>1. asked # NoDish
    BY <1>2 DEF AllowWriting, PromiseInv, SelectionInv
  <2>2. Promise!Allow
    BY <1>2, <2>1 DEF AllowWriting, nfcVars, tagVars, qtVars, Promise!Allow
  <2>3. QED
    BY <2>2 DEF Promise!Next
<1>3. CASE StopWriting \/ MenuArrives
  <2>1. Promise!Stop
    BY <1>3 DEF StopWriting, MenuArrives, nfcVars, tagVars, qtVars,
                Promise!Stop
  <2>2. QED
    BY <2>1 DEF Promise!Next
<1>4. CASE Restart
  <2>1. Promise!Restart
    BY <1>4 DEF Restart, Return, qtVars, Promise!Restart
  <2>2. QED
    BY <2>1 DEF Promise!Next
<1>5. CASE \/ \E p \in Plates : Lay(p) \/ Take(p)
           \/ UNCHANGED vars
  BY <1>5 DEF Lay, Take, vars, nfcVars, tagVars, qtVars, flagVars, Promise!vars
<1>6. QED
  BY <1>1, <1>2, <1>3, <1>4, <1>5 DEF ControlStep

(* The writing thread implements the services of PlatePromise: no run of   *)
(* nfc_write_plate_task, whatever the radio, the database, Qt and the      *)
(* kitchen hand do meanwhile, shows or writes anything they do not allow.  *)
THEOREM KeepsPromiseHolds == Spec => KeepsPromise
<1>1. Init => PcInv /\ SelectionInv /\ CheckedInv /\ DishInv
  BY DEF Init, PcInv, SelectionInv, CheckedInv, DishInv, InFlight
<1>2. PromiseInv /\ [Next]_vars => [Promise!Next]_(Promise!vars)
  BY PromiseServes, PromiseWrites, PromiseWaits, PromiseOthers
  DEF Next, WriterStep
<1>3. QED
  BY <1>1, <1>2, PromiseInit, TypeCorrect, PcInvariant, SelectionInvariant,
     CheckedInvariant, DishInvariant, PTL
  DEF Spec, KeepsPromise, Promise!Spec, PromiseInv
=============================================================================
