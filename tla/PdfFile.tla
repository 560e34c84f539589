------------------------------ MODULE PdfFile ------------------------------
(***************************************************************************)
(* The document of one pdf widget: the names in the widget's row, and the  *)
(* one file on disk that is sent to the televisions.  The file comes from  *)
(* an upload, or from OneDrive: then it is a cache, fetched anew when it   *)
(* is missing or an hour old.  Row and file are written by uploads, by the *)
(* choice of a OneDrive file, by the widget's form and by the televisions' *)
(* own requests, without a lock between them.                              *)
(***************************************************************************)
EXTENDS Integers

CONSTANTS
  Uploads,     \* documents that are uploaded, each at most once
  Items,       \* documents in OneDrive
  Viewers,     \* requests for the document under way at a time
  MaxChoices,  \* bound: choices of a OneDrive file
  MaxForms,    \* bound: saves of the widget's form
  None

ASSUME PdfConstants ==
  /\ Uploads \cap Items = {} /\ None \notin Uploads \cup Items
  /\ {MaxChoices, MaxForms} \subseteq Nat

VARIABLES
  row,      \* config_json: the file's name, and the OneDrive item
  disk,     \* the file: whose document, and whether it is an hour old
  upload,   \* handleWidgetPdfUpload: where it is, and od_item as it read it
  drops,    \* handleWidgetOneDriveSelect: choices made whose file is still to be dropped
  viewer,   \* handlePdfMedia: where it is, and the item it fetches
  choices, forms

pdfVars == <<row, disk, upload, drops, viewer, choices, forms>>

Documents == Uploads \cup Items
NoFile    == [doc |-> None, old |-> FALSE]

PdfInit ==
  /\ row = [file |-> None, item |-> None]
  /\ disk = NoFile
  /\ upload = [u \in Uploads |-> [step |-> "new", item |-> None]]
  /\ drops = 0
  /\ viewer = [v \in Viewers |-> [step |-> "idle", item |-> None]]
  /\ choices = 0 /\ forms = 0

-----------------------------------------------------------------------------
(* handleWidgetPdfUpload reads the row, receives the file and checks it, writes it *)
(* in place, and writes the row that it read back with the new name in it.         *)
ReceiveUpload(u) ==
  /\ upload[u].step = "new"
  /\ upload' = [upload EXCEPT ![u] = [step |-> "received", item |-> row.item]]
  /\ UNCHANGED <<row, disk, drops, viewer, choices, forms>>

\* Too large, no file, not a PDF; or the client leaves.
RefuseUpload(u) ==
  /\ upload[u].step = "received"
  /\ upload' = [upload EXCEPT ![u].step = "done"]
  /\ UNCHANGED <<row, disk, drops, viewer, choices, forms>>

\* os.Create and io.Copy, in place.  (A document that is sent half-written is not
\* told apart from a whole one here.)
WriteFile(u) ==
  /\ upload[u].step = "received"
  /\ disk' = [doc |-> u, old |-> FALSE]
  /\ upload' = [upload EXCEPT ![u].step = "written"]
  /\ UNCHANGED <<row, drops, viewer, choices, forms>>

\* Mutant: the upload is recorded like a choice.
RecordUploadAsChoice(u) ==
  /\ upload[u].step = "written"
  /\ row' = [file |-> u, item |-> u]
  /\ upload' = [upload EXCEPT ![u].step = "done"]
  /\ UNCHANGED <<disk, drops, viewer, choices, forms>>

\* An error of UpdateWidget is dropped: the new file is there, the row as it was.
RecordUpload(u) ==
  /\ upload[u].step = "written"
  /\ row' \in {row, [file |-> u, item |-> upload[u].item]}
  /\ upload' = [upload EXCEPT ![u].step = "done"]
  /\ UNCHANGED <<disk, drops, viewer, choices, forms>>

\* handleWidgetOneDriveSelect writes the row, and then drops the file: also when the
\* row could not be written.
Choose(i) ==
  /\ choices < MaxChoices
  /\ row' \in {row, [file |-> i, item |-> i]}
  /\ drops' = drops + 1 /\ choices' = choices + 1
  /\ UNCHANGED <<disk, upload, viewer, forms>>

DropFile ==
  /\ drops > 0 /\ drops' = drops - 1
  /\ disk' = NoFile
  /\ UNCHANGED <<row, upload, viewer, choices, forms>>

\* handleWidgetUpdate builds the row from the fields of the form; neither name is
\* among them.
SaveForm ==
  /\ forms < MaxForms
  /\ row' = [file |-> None, item |-> None]
  /\ forms' = forms + 1
  /\ UNCHANGED <<disk, upload, drops, viewer, choices>>

-----------------------------------------------------------------------------
\* Mutant: only a missing file is fetched.
Missing == disk = NoFile

Stale == disk = NoFile \/ disk.old

\* handlePdfMedia reads the row, ...
Request(v) ==
  /\ viewer[v].step = "idle" /\ row.item # None
  /\ viewer' = [viewer EXCEPT ![v] = [step |-> "looking", item |-> row.item]]
  /\ UNCHANGED <<row, disk, upload, drops, choices, forms>>

\* ... and looks at the file: a fetch, or the file at once.  (A file that is sent is
\* not changed by it, so sending is not a step.)
Look(v) ==
  /\ viewer[v].step = "looking"
  /\ viewer' = [viewer EXCEPT ![v] = IF Stale THEN [@ EXCEPT !.step = "fetching"]
                                     ELSE [step |-> "idle", item |-> None]]
  /\ UNCHANGED <<row, disk, upload, drops, choices, forms>>

\* fetchOneDrivePdf: into a file of its own, which then takes the place of the other.
Fetched(v) ==
  /\ viewer[v].step = "fetching"
  /\ disk' = [doc |-> viewer[v].item, old |-> FALSE]
  /\ viewer' = [viewer EXCEPT ![v] = [step |-> "idle", item |-> None]]
  /\ UNCHANGED <<row, upload, drops, choices, forms>>

\* No token, no answer: what there is is sent, however old.
FetchFails(v) ==
  /\ viewer[v].step = "fetching"
  /\ viewer' = [viewer EXCEPT ![v] = [step |-> "idle", item |-> None]]
  /\ UNCHANGED <<row, disk, upload, drops, choices, forms>>

HourPasses ==
  /\ disk # NoFile /\ ~ disk.old
  /\ disk' = [disk EXCEPT !.old = TRUE]
  /\ UNCHANGED <<row, upload, drops, viewer, choices, forms>>

PdfNext ==
  \/ \E u \in Uploads : ReceiveUpload(u) \/ RefuseUpload(u) \/ WriteFile(u) \/ RecordUpload(u)
  \/ (\E i \in Items : Choose(i)) \/ DropFile \/ SaveForm
  \/ \E v \in Viewers : Request(v) \/ Look(v) \/ Fetched(v) \/ FetchFails(v)
  \/ HourPasses

\* Handlers go on, hours pass, the televisions come back to the document, and a
\* fetch that is tried again and again succeeds some time.  Nobody uploads.
PdfFairness ==
  /\ \A u \in Uploads : WF_pdfVars(WriteFile(u) \/ RefuseUpload(u)) /\ WF_pdfVars(RecordUpload(u))
  /\ WF_pdfVars(DropFile) /\ WF_pdfVars(HourPasses)
  /\ \A v \in Viewers :
       /\ WF_pdfVars(Request(v)) /\ WF_pdfVars(Look(v))
       /\ WF_pdfVars(Fetched(v) \/ FetchFails(v))
       /\ SF_pdfVars(Fetched(v))

-----------------------------------------------------------------------------
PdfTypeOK ==
  /\ row.file \in Documents \cup {None} /\ row.item \in Items \cup {None}
  /\ disk \in [doc : Documents, old : BOOLEAN] \cup {NoFile}
  /\ upload \in [Uploads -> [step : {"new", "received", "written", "done"}, item : Items \cup {None}]]
  /\ viewer \in [Viewers -> [step : {"idle", "looking", "fetching"}, item : Items \cup {None}]]
  /\ choices \in 0 .. MaxChoices /\ forms \in 0 .. MaxForms /\ drops \in 0 .. choices

\* handlePdfMedia and fetchOneDrivePdf: once the row keeps naming the same OneDrive
\* item, the widget comes to show that item and no other, although uploads write over
\* the file, a fetch of an item that was chosen before lands after the choice, and
\* fetches fail.
PdfFollowsRow ==
  <>[][row'.item = row.item]_pdfVars => <>[](row.item # None => disk.doc = row.item)
=============================================================================
