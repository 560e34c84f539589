-------------------------- MODULE MCAdministration --------------------------
(* A small instance of Administration for TLC. *)
EXTENDS Administration, TLC

CONSTANTS e1, e2

\* One page is edited twice, and the other once.
Clicks == e1 :> 2 @@ e2 :> 1
=============================================================================
