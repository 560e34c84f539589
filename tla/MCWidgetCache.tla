--------------------------- MODULE MCWidgetCache ---------------------------
(* Small instances of WidgetCache for TLC. *)
EXTENDS WidgetCache

CONSTANT second   \* a second television, which has no ticker

\* Bound: the second television asks only until the first edit or restart.  No
\* action that is fair edits or restarts, so the fairness stays satisfiable.
Bounded ==
  \/ task'[second].pc = "idle"
  \/ edits' + restarts' = 0 /\ task'[second].kind \in {"show", "bg"}

BoundedSpec == Init /\ [][Step /\ Bounded]_vars /\ Fairness
=============================================================================
