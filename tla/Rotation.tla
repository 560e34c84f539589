------------------------------ MODULE Rotation ------------------------------
(***************************************************************************)
(* The playback cursor of one television: the Go type rotation.State, as a *)
(* record and pure operators on it.                                        *)
(*                                                                         *)
(*   items     the views of the playlist, in order (dwell times are left   *)
(*             out: no operation of the cursor reads them)                 *)
(*   index     0-based cursor into items                                   *)
(*   override  a view shown although the playlist lacks it (NoView: none)  *)
(*   paused    automatic advance is frozen                                 *)
(*                                                                         *)
(* Every method of State holds State.mu throughout, so each operator here  *)
(* is one atomic step of the modules that use it.                          *)
(***************************************************************************)
EXTENDS Integers, Sequences

CONSTANTS
  Views,     \* ids of views
  NoView     \* the Go zero id: no view, no override

ASSUME NoViewAssumption == NoView \notin Views

\* A cursor over any playlist of views.
Playback == [items : Seq(Views), index : Nat, override : Views \cup {NoView},
             paused : BOOLEAN]

NewState(items) ==
  [items |-> items, index |-> 0, override |-> NoView, paused |-> FALSE]

\* Mutant: the cursor is not brought back into range.
SetItemsUnclamped(s, items) == [s EXCEPT !.items = items]

\* The playlist was edited: the cursor keeps its number, or restarts when the
\* number no longer exists.  The override is left alone.
SetItems(s, items) ==
  [s EXCEPT !.items = items,
            !.index = IF s.index >= Len(items) THEN 0 ELSE s.index]

\* The view to show; NoView stands for the code's (Item{}, false).  The code
\* also stores the 0 it falls back to when the cursor is out of range;
\* IndexInRange (KioskStream) says that this never happens.
CurrentView(s) ==
  IF s.override # NoView THEN s.override
  ELSE IF s.items = << >> THEN NoView
  ELSE s.items[(IF s.index >= Len(s.items) THEN 0 ELSE s.index) + 1]

Next(s) ==
  [s EXCEPT !.override = NoView,
            !.index = IF Len(s.items) > 0 THEN (s.index + 1) % Len(s.items)
                                          ELSE s.index]

Prev(s) ==
  [s EXCEPT !.override = NoView,
            !.index = IF Len(s.items) > 0
                      THEN (s.index - 1 + Len(s.items)) % Len(s.items)
                      ELSE s.index]

\* Positions (1-based) at which the playlist shows v.
PositionsOf(s, v) == {i \in DOMAIN s.items : s.items[i] = v}

\* Jump to the first occurrence of v, or show v as an override.  A request for
\* id 0 (an unparsable form value) is never in the playlist and so only clears
\* the override.
Goto(s, v) ==
  LET at == PositionsOf(s, v) IN
  IF at # {}
  THEN [s EXCEPT !.index = (CHOOSE i \in at : \A j \in at : i <= j) - 1,
                 !.override = NoView]
  ELSE [s EXCEPT !.override = v]

SetPaused(s, p) == [s EXCEPT !.paused = p]
=============================================================================
