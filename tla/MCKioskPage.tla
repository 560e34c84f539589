---------------------------- MODULE MCKioskPage ----------------------------
(* Small instances of KioskPage for TLC. *)
EXTENDS KioskPage

CONSTANTS a, b

AB == <<a, b>>
=============================================================================
