----------------------------- MODULE MCBinding -----------------------------
(* Small instances of Binding. *)
EXTENDS Binding

\* Once two threads have met, the properties say nothing any more.
Alone == ~overlap

\* A report of other keys is taken, or given up, before the next handler begins.
OthersTaken ==
  (\E m \in sent : m.what = "other") =>
    /\ pc["qt"] = "run" /\ At("main", "loop")
    /\ pc["iot"] \in {"run", "boot"} /\ Free("iot")

\* One unbinding, by Qt or by the canteen; no get is answered twice, and one
\* is refused only after a loss or a restart, where Qt does not unbind.
AloneOnce ==
  ~overlap /\ unbinds + removals <= 1 /\ ~more /\ OthersTaken
    /\ (refused => unbinds = 0 /\ troubles = 1)

\* The backend has not yet heard that the device has its serial number.
SnPending ==
  ~snReported \/ "sn" \in toReport \/ \E m \in sent : m.what = "sn"

\* What BindingSettles is checked in: it says nothing once overlap or late is
\* set, which is never taken back; the canteen is removed, and a second loss
\* or restart happens, only when the serial number has been settled; a get is
\* answered twice only then, and without other troubles.
Staged ==
  ~overlap /\ ~late /\ OthersTaken
    /\ (SnPending => removals = 0 /\ troubles <= 1)
    /\ (more => ~SnPending /\ troubles + removals = 0)
=============================================================================
