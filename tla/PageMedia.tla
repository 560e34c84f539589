----------------------------- MODULE PageMedia -----------------------------
(***************************************************************************)
(* What plays on a page beside the rotation of its views: a PDF widget     *)
(* (SlideShow) on the stage, or the corner panel (CornerPanel) with such   *)
(* a widget among its items.  In the panel the two call one another: an    *)
(* answer mounts the widget, a slide show that played to its end moves     *)
(* the panel on, and an answer removes it.  One clock drives both.         *)
(***************************************************************************)
EXTENDS Integers, Sequences, FiniteSets

CONSTANTS
  Pages, Interval, MaxDraw, ZoomLimit, MaxKeys,
  Payloads, Medium, Longest, Retry, MaxDisturbances, MaxDelays, NoBody

VARIABLES
  place,   \* where the widget is: "stage" or "panel"
  kind, ends, doc, page, zoom, drawing, canvas, label, slideTimer, over, scroll,
  toBottom, focused, keys, age, since, missed,
  items, idx, body, fetches, timer, strays, scripts, disturbances, delays

Show  == INSTANCE SlideShow WITH timer <- slideTimer
Panel == INSTANCE CornerPanel

showVars  == <<kind, ends, doc, page, zoom, drawing, canvas, label, slideTimer, over,
               scroll, toBottom, focused, age, since, missed, keys>>
panelVars == <<items, idx, body, fetches, timer, strays, scripts, disturbances, delays>>
vars      == <<place, showVars, panelVars>>

ASSUME MediaConstants == Show!ShowConstants /\ Panel!PanelConstants

OnStage == place = "stage"
InPanel == place = "panel"

Off == Panel!Off

-----------------------------------------------------------------------------
\* Mutant: only players are given the panel's callback.
AnswersUncalled(x) ==
  /\ Panel!Answer(x)
  /\ IF items = << >> THEN UNCHANGED showVars
     ELSE IF body'.medium = "slides" /\ "slides" \in scripts
     THEN \E k \in {"page", "width"} : Show!Mount(k, FALSE)
     ELSE Show!Mount("none", FALSE)
  /\ UNCHANGED place

\* The answer replaces the panel's body, and with it the widget in it; as long as
\* there is no fpSetupPdfs, the widget stays an empty box.
Answers(x) ==
  /\ Panel!Answer(x)
  /\ IF items = << >> THEN UNCHANGED showVars
     ELSE IF body'.medium = "slides" /\ "slides" \in scripts
     THEN \E k \in {"page", "width"} : Show!Mount(k, body'.calls)
     ELSE Show!Mount("none", FALSE)
  /\ UNCHANGED place

FetchFails(x) == Panel!FetchFails(x) /\ UNCHANGED <<place, showVars>>

PanelTimer == (Panel!TimerFires \/ Panel!StrayFires) /\ UNCHANGED <<place, showVars>>

VideoEnds == Panel!MediumEnds("video") /\ UNCHANGED <<place, showVars>>

Skip == (\E dir \in {-1, 1} : Panel!Skip(dir)) /\ UNCHANGED <<place, showVars>>

ListChanges ==
  \E list \in Payloads :
    /\ InPanel /\ Panel!PipEvent(list)
    /\ IF list = << >> THEN Show!Mount("none", FALSE) ELSE UNCHANGED showVars
    /\ UNCHANGED place

\* onEnd of a slide show in the panel is pipNext; on the stage it asks the server
\* for the next view.
ShowEnds ==
  /\ Show!PlaysToEnd
  /\ IF InPanel THEN Panel!MediumEnds("slides") ELSE UNCHANGED panelVars
  /\ UNCHANGED place

Loads     == (Show!DocLoads \/ Show!DocFails) /\ UNCHANGED <<place, panelVars>>
Draws     == (Show!CanvasMade \/ Show!Drawn \/ Show!DrawFails) /\ UNCHANGED <<place, panelVars>>
ShowTimer == (Show!TimerWaits \/ Show!TimerTurns) /\ UNCHANGED <<place, panelVars>>

\* pdf-widget.js sets the widgets of the stage up itself, as kiosk.js came too early
\* for them; it leaves the panel's alone.
ScriptRuns(medium) ==
  /\ Panel!ScriptRuns(medium)
  /\ IF medium = "slides" /\ OnStage
     THEN \E k \in {"document", "page", "width"}, e \in BOOLEAN : Show!Mount(k, e)
     ELSE UNCHANGED showVars
  /\ UNCHANGED place

\* Only the stage's widgets can be driven by hand.
Driven == OnStage /\ (Show!Driven \/ Show!Unfocus) /\ UNCHANGED <<place, panelVars>>

Tick == Show!Tick /\ Panel!Tick /\ UNCHANGED place

Init == /\ place \in {"stage", "panel"}
        /\ Show!Init /\ kind = "none"
        /\ Panel!Init

Next ==
  \/ \E x \in Panel!Items : Answers(x) \/ FetchFails(x)
  \/ \E medium \in Panel!Scripts : ScriptRuns(medium)
  \/ PanelTimer \/ VideoEnds \/ Skip \/ ListChanges
  \/ ShowEnds \/ Loads \/ Draws \/ ShowTimer \/ Driven
  \/ Tick

Spec == Init /\ [][Next]_vars

\* Timers fire, time passes, scripts run, and what is drawn or fetched again and again succeeds
\* some time.  Nobody presses keys, and a video may hang.
DrawnOf(p) == Show!Drawn /\ drawing.done[1].page = p /\ UNCHANGED <<place, panelVars>>

Fairness ==
  /\ WF_vars(Tick) /\ WF_vars(PanelTimer) /\ WF_vars(ShowEnds) /\ WF_vars(ShowTimer)
  /\ WF_vars(Loads) /\ WF_vars(Draws)
  /\ WF_vars(\E medium \in Panel!Scripts : ScriptRuns(medium))
  /\ WF_vars(\E x \in Panel!Items : Answers(x) \/ FetchFails(x))
  /\ \A x \in Panel!Items : SF_vars(Answers(x))
  /\ \A p \in 1 .. Pages : SF_vars(DrawnOf(p))

FairSpec == Spec /\ Fairness

-----------------------------------------------------------------------------
(* Properties.                                                             *)

\* Every variable has its type.
TypeOK == place \in {"stage", "panel"} /\ Show!ShowTypeOK /\ Panel!PanelTypeOK

\* The badge of a slide show tells the truth (SlideShow).
LabelTrue == Show!LabelTrue

\* However keys are pressed, the timer turns only a page that was current for its
\* whole interval and that was seen, but for a drawing that was lost (SlideShow).
TurnsAreDue ==
  [][Show!TimerTurns => /\ since = Interval
                        /\ missed \/ (canvas # << >> /\ canvas[1].page = page)]_vars

\* Every page of a show that goes round comes up, at the zoom chosen (SlideShow).
PagesComeRound == Show!PagesComeRound

\* kiosk.js, pipRotate.  Fetches overlap and overwrite the timer's handle, and yet each
\* disturbance adds at most one thing that moves the panel on; the first list starts
\* the first.  So a panel that nobody disturbs shows every item for its time: no timer
\* runs beside a medium that ends by itself, and nothing is cut off or skipped.
NoRunawayRotation == Cardinality(Panel!Movers) <= disturbances

\* Something always moves the panel on (CornerPanel); and a panel that waits for a
\* slide show waits for one that will end: it was mounted with a callback, it is
\* loading or its timer runs.  The exceptions are a document that cannot be loaded,
\* which nothing in the page tries again, and a body that is deaf: kiosk.js, pipRotate
\* sets no timer for an answer that came before the script of its medium had run.
PanelAlive ==
  /\ Panel!PanelAlive
  /\ InPanel /\ body # NoBody /\ body.medium = "slides" /\ body.calls =>
       ends /\ (doc = "loading" \/ doc = "failed" \/ slideTimer # Off)

\* The panel shows every item again and again, although fetches fail and overlap,
\* unless it is switched off, comes to a video or a document that never ends, or stands
\* still on a body that came before the script of its medium.
Halted ==
  body # NoBody /\ (body.deaf \/ (body.calls /\ (body.medium = "video" \/ doc = "failed")))
PanelGoesRound ==
  \A list \in Payloads : \A i \in DOMAIN list :
    \/ []<>(items # list \/ (body # NoBody /\ body.view = list[i].view))
    \/ <>[]Halted
=============================================================================
