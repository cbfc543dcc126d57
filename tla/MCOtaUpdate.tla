----------------------------- MODULE MCOtaUpdate -----------------------------
(* Instances of OtaUpdate for TLC.                                         *)
EXTENDS OtaUpdate

(* One loss or one restart; only steps that no fairness asks for are cut   *)
(* off.                                                                    *)
OneTrouble == losses + restarts <= 1
=============================================================================
