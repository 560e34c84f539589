----------------------------- MODULE SlideShow -----------------------------
(***************************************************************************)
(* One PDF widget of a page (pdf-widget.js): a document whose pages hang   *)
(* below one another, or a slide show that shows one page per Interval,    *)
(* letterboxed ("page") or as wide as the widget and scrolled ("width").   *)
(*                                                                         *)
(* Drawing is asynchronous and one at a time: render() returns at once     *)
(* while a drawing is under way, whatever changed.  The page to draw is    *)
(* fixed at the start, the zoom is read when each canvas is made.          *)
(*                                                                         *)
(* Positions within a page that is higher than the widget are counted in   *)
(* ticks of auto-scrolling, 0 at the top and Interval at the bottom.       *)
(***************************************************************************)
EXTENDS Integers, Sequences

CONSTANTS
  Pages,      \* pages of the document
  Interval,   \* ticks a page is shown
  MaxDraw,    \* bound: ticks a drawing takes at most
  ZoomLimit,  \* steps of zoom to the clamp, either way
  MaxKeys     \* bound: keys pressed

\* Assumed in PageMedia.
ShowConstants ==
  /\ {Pages, Interval} \subseteq Nat \ {0}
  /\ MaxDraw \in Nat /\ MaxDraw < Interval
  /\ {ZoomLimit, MaxKeys} \subseteq Nat

VARIABLES
  kind,      \* "none": no widget; "document", "page", "width"
  ends,      \* there is an onEnd
  doc,       \* "loading", "ready", "failed"
  page, zoom,
  drawing,   \* pages to draw and canvases made; Idle: not rendering
  canvas,    \* the canvases the widget holds
  label,     \* page number on the badge; 0: none
  timer,     \* ticks to the next page, or Off
  over,      \* the page overflows the widget
  scroll,    \* its scroll position
  toBottom,  \* land at the bottom
  focused,   \* the widget is driven by hand
  keys,
  age, since, missed
    \* history: ticks the drawing took, ticks the page is current, and whether
    \* its drawing was dropped or failed and not made up for

state == <<kind, ends, doc, page, zoom, drawing, canvas, label, timer, over, scroll,
           toBottom, focused, age, since, missed>>
vars  == <<state, keys>>

Off    == -1
Idle   == [todo |-> << >>, done |-> << >>]
Slides == kind \in {"page", "width"}
Zooms  == -ZoomLimit .. ZoomLimit
Canvas == [page : 1 .. Pages, zoom : Zooms]

Drawing  == drawing # Idle
PageDrawn == IF drawing.todo = << >> THEN drawing.done[1].page ELSE drawing.todo[1]

-----------------------------------------------------------------------------
\* setupPdf, or a widget that left the page ("none").
Mount(k, e) ==
  /\ kind' = k /\ ends' = e /\ doc' = "loading"
  /\ page' = 1 /\ zoom' = 0
  /\ drawing' = Idle /\ canvas' = << >> /\ label' = 0
  /\ timer' = Off
  /\ over' = FALSE /\ scroll' = 0 /\ toBottom' = FALSE
  /\ focused' = FALSE
  /\ age' = 0 /\ since' = 0 /\ missed' = FALSE
  /\ UNCHANGED keys

\* updatePageNo
Badge(p) == IF Slides THEN p ELSE label

StartDrawing(p) ==
  /\ drawing' = [todo |-> IF Slides THEN <<p>> ELSE [n \in 1 .. Pages |-> n],
                 done |-> << >>]
  /\ age' = 0
  /\ missed' = (missed /\ p = page)

\* Mutant: the badge is set before render() looks whether it is drawing.
RenderLabelFirst(p) ==
  /\ label' = Badge(p)
  /\ IF Drawing THEN missed' = TRUE /\ UNCHANGED <<drawing, age>> ELSE StartDrawing(p)

\* render(), with p the page that is current now.
Render(p) ==
  IF Drawing
  THEN missed' = TRUE /\ UNCHANGED <<drawing, label, age>>
  ELSE StartDrawing(p) /\ label' = Badge(p)

DocLoads ==
  /\ kind # "none" /\ doc = "loading"
  /\ doc' = "ready"
  /\ Render(page)
  /\ timer' = IF Slides THEN Interval ELSE Off
  /\ since' = 0
  /\ UNCHANGED <<kind, ends, page, zoom, canvas, over, scroll, toBottom, focused, keys>>

DocFails ==
  /\ kind # "none" /\ doc = "loading"
  /\ doc' = "failed"
  /\ UNCHANGED <<kind, ends, page, zoom, drawing, canvas, label, timer, over, scroll,
                 toBottom, focused, age, since, missed, keys>>

\* The next page has been read: its canvas is made with the zoom of this moment.
CanvasMade ==
  /\ drawing.todo # << >>
  /\ drawing' = [todo |-> Tail(drawing.todo),
                 done |-> Append(drawing.done, [page |-> Head(drawing.todo), zoom |-> zoom])]
  /\ UNCHANGED <<kind, ends, doc, page, zoom, canvas, label, timer, over, scroll,
                 toBottom, focused, age, since, missed, keys>>

\* The canvases replace what the widget held.  Unless the widget is driven by
\* hand the first frame of autoScroll goes to the top.
Drawn ==
  /\ Drawing /\ drawing.todo = << >>
  /\ canvas' = drawing.done
  /\ drawing' = Idle
  /\ IF kind = "width"
     THEN /\ over' \in BOOLEAN
          /\ scroll' = IF over' /\ toBottom /\ focused THEN Interval ELSE 0
          /\ toBottom' = FALSE
     ELSE UNCHANGED <<over, scroll, toBottom>>
  /\ missed' = (missed /\ Slides /\ PageDrawn # page)
  /\ UNCHANGED <<kind, ends, doc, page, zoom, label, timer, focused, age, since, keys>>

\* A page that cannot be read or drawn loses all canvases made, whichever it is.
DrawFails ==
  /\ Drawing /\ drawing.todo = << >>
  /\ drawing' = Idle
  /\ missed' = TRUE
  /\ UNCHANGED <<kind, ends, doc, page, zoom, canvas, label, timer, over, scroll,
                 toBottom, focused, age, since, keys>>

-----------------------------------------------------------------------------
(* The timer of a slide show.                                              *)

\* Driven by hand: wait another interval.
TimerWaits ==
  /\ timer = 0 /\ focused
  /\ timer' = Interval
  /\ UNCHANGED <<kind, ends, doc, page, zoom, drawing, canvas, label, over, scroll,
                 toBottom, focused, age, since, missed, keys>>

\* Played to its end: onEnd is called, and no timer is set.
PlaysToEnd ==
  /\ timer = 0 /\ ~ focused
  /\ page = Pages /\ ends
  /\ timer' = Off
  /\ UNCHANGED <<kind, ends, doc, page, zoom, drawing, canvas, label, over, scroll,
                 toBottom, focused, age, since, missed, keys>>

\* Mutant: the page is drawn before it is turned.
TimerTurnsLate ==
  /\ timer = 0 /\ ~ focused
  /\ page < Pages \/ ~ ends
  /\ page' = IF page = Pages THEN 1 ELSE page + 1
  /\ Render(page)
  /\ timer' = Interval /\ since' = 0
  /\ UNCHANGED <<kind, ends, doc, zoom, canvas, over, scroll, toBottom, focused, keys>>

\* Mutant: the timer is not set again.
TimerTurnsOnce ==
  /\ timer = 0 /\ ~ focused
  /\ page < Pages \/ ~ ends
  /\ page' = IF page = Pages THEN 1 ELSE page + 1
  /\ Render(page')
  /\ timer' = Off /\ since' = 0
  /\ UNCHANGED <<kind, ends, doc, zoom, canvas, over, scroll, toBottom, focused, keys>>

\* The next page, after the last the first: it is drawn, and its time begins.
TimerTurns ==
  /\ timer = 0 /\ ~ focused
  /\ page < Pages \/ ~ ends
  /\ page' = IF page = Pages THEN 1 ELSE page + 1
  /\ Render(page')
  /\ timer' = Interval /\ since' = 0
  /\ UNCHANGED <<kind, ends, doc, zoom, canvas, over, scroll, toBottom, focused, keys>>

-----------------------------------------------------------------------------
(* Keys.                                                                   *)

Press == keys < MaxKeys /\ keys' = keys + 1

\* Mutant: the running timer is left alone.
GoToUntimed(p) ==
  /\ page' = p
  /\ Render(p)
  /\ since' = 0
  /\ UNCHANGED <<kind, ends, doc, zoom, canvas, timer, over, scroll, focused>>

\* The current page by hand: drawn, and the timer starts from the beginning.
GoTo(p) ==
  /\ page' = p
  /\ Render(p)
  /\ timer' = Interval /\ since' = 0
  /\ UNCHANGED <<kind, ends, doc, zoom, canvas, over, scroll, focused>>

\* Mutant: fpPdfStep does not go round.
StepStraight(dir) ==
  /\ kind = "page" /\ doc = "ready" /\ focused /\ Press
  /\ GoTo(page + dir)
  /\ UNCHANGED toBottom

\* fpPdfStep, for letterboxed pages: to the next or previous page, round the end.
Step(dir) ==
  /\ kind = "page" /\ doc = "ready" /\ focused /\ Press
  /\ GoTo(((page - 1 + dir) % Pages) + 1)
  /\ UNCHANGED toBottom

AtEdge(dir) == ~ over \/ scroll = IF dir > 0 THEN Interval ELSE 0

\* fpPdfScroll at the edge of the page: to the next page, or to the bottom of the
\* previous one, but not beyond the first and the last.
FlipAtEdge(dir) ==
  /\ kind = "width" /\ doc = "ready" /\ focused /\ Press
  /\ AtEdge(dir)
  /\ page + dir \in 1 .. Pages
  /\ GoTo(page + dir)
  /\ toBottom' = (dir < 0)

\* fpPdfScroll within the page.
ScrollPage(dir) ==
  /\ kind = "width" /\ doc = "ready" /\ focused /\ Press
  /\ ~ AtEdge(dir)
  /\ scroll' = scroll + dir
  /\ UNCHANGED <<kind, ends, doc, page, zoom, drawing, canvas, label, timer, over,
                 toBottom, focused, age, since, missed>>

\* fpPdfZoomEl: in, out, or (delta = 0) back to fit.
Zoom(delta) ==
  /\ kind # "none" /\ Press
  /\ zoom' = IF delta = 0 THEN 0
             ELSE IF zoom + delta \in Zooms THEN zoom + delta ELSE zoom
  /\ IF doc = "ready" THEN Render(page)
     ELSE UNCHANGED <<drawing, label, age, missed>>
  /\ UNCHANGED <<kind, ends, doc, page, canvas, timer, over, scroll, toBottom,
                 focused, since>>

Focus ==
  /\ kind # "none" /\ ~ focused /\ Press
  /\ focused' = TRUE
  /\ UNCHANGED <<kind, ends, doc, page, zoom, drawing, canvas, label, timer, over,
                 scroll, toBottom, age, since, missed>>

\* The next frame of autoScroll begins at the top again.
Unfocus ==
  /\ focused
  /\ focused' = FALSE
  /\ scroll' = 0
  /\ UNCHANGED <<kind, ends, doc, page, zoom, drawing, canvas, label, timer, over,
                 toBottom, age, since, missed, keys>>

-----------------------------------------------------------------------------
Least(m, n) == IF m < n THEN m ELSE n

Tick ==
  /\ timer # 0
  /\ Drawing => age < MaxDraw
  /\ timer' = IF timer = Off THEN Off ELSE timer - 1
  /\ scroll' = IF over /\ ~ focused THEN Least(scroll + 1, Interval) ELSE scroll
  /\ age' = IF Drawing THEN age + 1 ELSE age
  /\ since' = IF timer = Off THEN since ELSE Least(since + 1, Interval)
  /\ UNCHANGED <<kind, ends, doc, page, zoom, drawing, canvas, label, over, toBottom,
                 focused, missed, keys>>

Init ==
  /\ kind \in {"none", "document", "page", "width"} /\ ends \in BOOLEAN
  /\ kind = "none" => ~ ends
  /\ doc = "loading"
  /\ page = 1 /\ zoom = 0
  /\ drawing = Idle /\ canvas = << >> /\ label = 0
  /\ timer = Off
  /\ over = FALSE /\ scroll = 0 /\ toBottom = FALSE
  /\ focused = FALSE /\ keys = 0
  /\ age = 0 /\ since = 0 /\ missed = FALSE

Draw == CanvasMade \/ Drawn \/ DrawFails

Driven ==
  \/ \E dir \in {-1, 1} : Step(dir) \/ FlipAtEdge(dir) \/ ScrollPage(dir)
  \/ \E delta \in {-1, 0, 1} : Zoom(delta)
  \/ Focus

Next ==
  \/ \E k \in {"none", "document", "page", "width"}, e \in BOOLEAN : Mount(k, e)
  \/ DocLoads \/ DocFails \/ Draw
  \/ TimerWaits \/ PlaysToEnd \/ TimerTurns
  \/ Driven \/ Unfocus
  \/ Tick

Spec == Init /\ [][Next]_vars

-----------------------------------------------------------------------------
(* Properties.                                                             *)

\* Every variable has its type.
ShowTypeOK ==
  /\ kind \in {"none", "document", "page", "width"} /\ ends \in BOOLEAN
  /\ doc \in {"loading", "ready", "failed"}
  /\ page \in 1 .. Pages /\ zoom \in Zooms
  /\ drawing \in [todo : Seq(1 .. Pages), done : Seq(Canvas)]
  /\ canvas \in Seq(Canvas)
  /\ label \in 0 .. Pages
  /\ timer \in Off .. Interval
  /\ over \in BOOLEAN /\ scroll \in 0 .. Interval /\ toBottom \in BOOLEAN
  /\ focused \in BOOLEAN /\ keys \in 0 .. MaxKeys
  /\ age \in 0 .. MaxDraw /\ since \in 0 .. Interval /\ missed \in BOOLEAN

\* The badge never names a page other than the one that is shown or about to be
\* shown, although the current page runs ahead of the drawing; only a drawing that
\* failed leaves it wrong until the next one.
LabelTrue ==
  Slides /\ doc = "ready" =>
    IF Drawing THEN label = PageDrawn
    ELSE missed \/ (canvas # << >> /\ canvas[1].page = label)

\* The timer never cuts a page short, whatever keys were pressed: it turns only a
\* page that was current for a whole interval, and that was shown, unless its
\* drawing failed or was dropped because another one was under way.
TurnsAreDue ==
  [][TimerTurns => /\ since = Interval
                   /\ missed \/ (canvas # << >> /\ canvas[1].page = page)]_vars

\* Every page of a show that goes round comes up again and again, at the zoom
\* chosen last: a drawing that was dropped or failed is made up for later.
Excused == kind \in {"none", "document"} \/ doc # "ready" \/ ends \/ focused
PagesComeRound ==
  \A p \in 1 .. Pages : []<>(Excused \/ canvas = <<[page |-> p, zoom |-> zoom]>>)
=============================================================================
