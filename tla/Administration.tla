--------------------------- MODULE Administration ---------------------------
(***************************************************************************)
(* The administrator's requests that change playlists (PlaylistAdmin),     *)
(* layouts (LayoutEditor), documents (PdfFile) and the connection of a     *)
(* source (SourceToken).  The four share no table and no file, so that     *)
(* mixing them adds nothing: `desk` is the one that is worked at.          *)
(***************************************************************************)
EXTENDS PlaylistAdmin, LayoutEditor, PdfFile, SourceToken

VARIABLE desk

vars == <<desk, playlistVars, layoutVars, pdfVars, tokenVars>>

ASSUME AdministrationConstants == PlaylistConstants /\ LayoutConstants

AtPlaylists ==
  desk = "playlists" /\ PlaylistNext /\ UNCHANGED <<desk, layoutVars, pdfVars, tokenVars>>
AtLayout ==
  desk = "layout" /\ LayoutNext /\ UNCHANGED <<desk, playlistVars, pdfVars, tokenVars>>
AtPdf ==
  desk = "pdf" /\ PdfNext /\ UNCHANGED <<desk, playlistVars, layoutVars, tokenVars>>
AtSource ==
  desk = "source" /\ TokenNext /\ UNCHANGED <<desk, playlistVars, layoutVars, pdfVars>>

Init == /\ desk \in {"playlists", "layout", "pdf", "source"}
        /\ PlaylistInit /\ LayoutInit /\ PdfInit /\ TokenInit
        /\ desk # "layout" => stored = Single(Empty)
        /\ desk # "source" => ~ once

Next == AtPlaylists \/ AtLayout \/ AtPdf \/ AtSource

\* Where another part is worked at, no item is chosen and no token is stored: nothing
\* that fairness asks for can happen, and the two temporal properties, PdfFollowsRow
\* and HealthTells, hold of themselves.
Spec == Init /\ [][Next]_vars /\ PdfFairness /\ TokenFairness

-----------------------------------------------------------------------------
\* Every variable has its type; in particular no stored layout is one that
\* layout.Parse refuses, for then loadLayout would start over with an empty pane.
TypeOK == /\ PlaylistTypeOK /\ LayoutTypeOK
          /\ PdfTypeOK /\ TokenTypeOK
=============================================================================
