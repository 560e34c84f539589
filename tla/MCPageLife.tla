----------------------------- MODULE MCPageLife ----------------------------
(* A small instance of PageLife for TLC. *)
EXTENDS PageLife

NightHour == {2}
=============================================================================
