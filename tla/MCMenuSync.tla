----------------------------- MODULE MCMenuSync -----------------------------
(* Instances of MenuSync for TLC.                                          *)
EXTENDS MenuSync

(* Two versions around an unbinding or a restart, or one version around an *)
(* unbinding with a loss or a restart, or two losses and a restart: only   *)
(* steps that no fairness asks for are cut off.  Once two threads have met *)
(* (overlap), the properties say nothing any more, and the theorem has the *)
(* types of the rest.                                                      *)
Staged ==
  /\ ~overlap
  /\ wanted = 2 => losses = 0
  /\ unbinds > 0 => losses + restarts <= 1
=============================================================================
