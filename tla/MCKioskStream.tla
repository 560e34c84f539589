--------------------------- MODULE MCKioskStream ---------------------------
(* Small instances of KioskStream for TLC. *)
EXTENDS KioskStream

CONSTANTS v1, v2

\* One view in rotation and two of them: an edit can leave the cursor behind.
MCTwo == {<<v1>>, <<v1, v2>>}

\* No playlist, one view, two views.
MCContents == {<< >>, <<v1>>, <<v1, v2>>}
=============================================================================
