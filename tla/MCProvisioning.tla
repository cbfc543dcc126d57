---------------------------- MODULE MCProvisioning ----------------------------
(* Instances of Provisioning for TLC: the password has two fragments.      *)
EXTENDS Provisioning

MCTotal == [f \in Fields |-> [s \in Settings |->
              IF f = "pd" THEN (IF s = 1 THEN 2 ELSE 1) ELSE 1]]

(* One of noise, an unbinding and new settings; only steps that no         *)
(* fairness asks for are cut off.                                          *)
OneTrouble == noises + unbinds + phone <= 2
=============================================================================
