---------------------------- MODULE PlatePromise ----------------------------
(***************************************************************************)
(* What the plate writer promises to the kitchen: the plates with what     *)
(* they hold, Qt's screen, and the services in which a plate is written.   *)
(* Nothing is said of tags, reads, retries or of the states of the         *)
(* source's machine (rewrCardTask.c, nfc_write_plate_task), which the      *)
(* module PlateWriter details and implements.                              *)
(*                                                                         *)
(* A service begins only when writing is allowed, takes one dish out of    *)
(* the database, writes it on at most one plate, and ends with a result    *)
(* given to Qt.  Qt may fail to show it, but its screen is cleared before  *)
(* the next service.                                                       *)
(***************************************************************************)
CONSTANTS
  Plates, Dishes, NoDish,
  Foreign           \* what a plate of another make holds

VARIABLES
  content,          \* what the plates hold
  answer,           \* the result last given to Qt, "GONE" when it is over
  screen,           \* the result that Qt shows, "GONE" for none
  allowed,          \* Qt has started the writing, and nobody stopped it
  asked,            \* the dish Qt selected in this boot
  stored,           \* the dish in the database
  chosen,           \* the dish of the service, NoDish until it is read
  stage             \* "waiting", "serving" a plate, or "answered"

vars == <<content, answer, screen, allowed, asked, stored, chosen, stage>>

Failures == {"ERROR", "MUL_ERR", "NULL_ERR", "READ_ERR"}

Init ==
  /\ content \in [Plates -> {NoDish, Foreign}]
  /\ answer = "GONE" /\ screen = "GONE" /\ stage = "waiting"
  /\ allowed = FALSE /\ asked = NoDish
  /\ stored \in Dishes /\ chosen = NoDish

-----------------------------------------------------------------------------
(* What Qt and an arriving menu ask for                                    *)

Select(d) ==
  /\ asked' = d /\ stored' \in {d, stored}
  /\ UNCHANGED <<content, answer, screen, allowed, chosen, stage>>

Allow ==
  /\ asked # NoDish
  /\ allowed' = TRUE
  /\ UNCHANGED <<content, answer, screen, asked, stored, chosen, stage>>

Stop ==
  /\ allowed' = FALSE
  /\ UNCHANGED <<content, answer, screen, asked, stored, chosen, stage>>

-----------------------------------------------------------------------------
(* A service                                                               *)

Begin ==
  /\ stage = "waiting" /\ allowed
  /\ stage' = "serving"
  /\ UNCHANGED <<content, answer, screen, allowed, asked, stored, chosen>>

Choose ==
  /\ stage = "serving" /\ chosen = NoDish
  /\ chosen' = stored
  /\ UNCHANGED <<content, answer, screen, allowed, asked, stored, stage>>

\* No plate is left to serve.
GiveUp ==
  /\ stage = "serving"
  /\ stage' = "waiting" /\ chosen' = NoDish
  /\ UNCHANGED <<content, answer, screen, allowed, asked, stored>>

\* Qt may show r, take it for a removal, or not read it at all.
Give(r) == answer' = r /\ screen' \in {r, "GONE", screen}

Answer(r) ==
  /\ stage = "serving"
  /\ stage' = "answered" /\ Give(r) /\ chosen' = NoDish
  /\ UNCHANGED <<allowed, asked, stored>>

Written(p) ==
  /\ chosen # NoDish /\ content[p] # Foreign
  /\ content' = [content EXCEPT ![p] = chosen]

Write(p) == Answer("OK") /\ Written(p)

\* A write that failed may have reached the plate all the same.
Fail ==
  \E r \in Failures :
    /\ Answer(r)
    /\ \/ UNCHANGED content
       \/ r = "ERROR" /\ \E p \in Plates : Written(p)

-----------------------------------------------------------------------------
(* After the service                                                       *)

Several ==
  /\ stage = "answered"
  /\ Give("MUL_ERR")
  /\ UNCHANGED <<content, allowed, asked, stored, chosen, stage>>

Clear ==
  /\ stage = "answered"
  /\ answer' = "GONE" /\ screen' = "GONE" /\ stage' = "waiting"
  /\ UNCHANGED <<content, allowed, asked, stored, chosen>>

\* The screen belongs to another process, and keeps what it shows.
Restart ==
  /\ stage' = "waiting" /\ allowed' = FALSE
  /\ asked' = NoDish /\ chosen' = NoDish
  /\ UNCHANGED <<content, answer, screen, stored>>

-----------------------------------------------------------------------------
Next ==
  \/ \E d \in Dishes : Select(d)
  \/ Allow \/ Stop
  \/ Begin \/ Choose \/ GiveUp \/ Fail
  \/ \E p \in Plates : Write(p)
  \/ Several \/ Clear \/ Restart

Spec == Init /\ [][Next]_vars
=============================================================================
