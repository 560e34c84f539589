-------------------------- MODULE PageMediaProofs --------------------------
(***************************************************************************)
(* What plays on a page: types, the badge and the timer of a slide show,   *)
(* and the corner panel, which neither stops nor runs away, for every      *)
(* document, every item list and any number of disturbances.               *)
(***************************************************************************)
EXTENDS PageMedia, FiniteSetTheorems, TLAPS

LEMMA Bounds ==
  /\ Pages \in Nat \ {0} /\ Interval \in Nat \ {0}
  /\ MaxDraw \in Nat /\ MaxDraw < Interval
  /\ ZoomLimit \in Nat /\ MaxKeys \in Nat
BY MediaConstants DEF Show!ShowConstants

-----------------------------------------------------------------------------
(* The slide show.                                                         *)

\* Only a document that was loaded is drawn, and only such a one is timed.
Quiet == doc # "ready" => drawing = Show!Idle /\ slideTimer = -1

\* Only slides have a timer, and the page is current since it was set.
Timed == slideTimer # -1 => Show!Slides /\ since + slideTimer >= Interval

\* A drawing of slides is one page, to be drawn or with its canvas made.
Sheets ==
  Show!Slides =>
    \/ drawing = Show!Idle
    \/ \E p \in 1 .. Pages : drawing = [todo |-> <<p>>, done |-> << >>]
    \/ \E c \in Show!Canvas : drawing = [todo |-> << >>, done |-> <<c>>]

OnSheet(p) == canvas # << >> /\ canvas[1].page = p

\* The badge goes with the drawing; and unless a drawing was lost it goes with the
\* current page, which is on the sheet or was being drawn since it is current.
Shown ==
  doc = "ready" /\ Show!Slides =>
    /\ IF Show!Drawing THEN label = Show!PageDrawn ELSE missed \/ OnSheet(label)
    /\ ~ missed => /\ label = page
                   /\ OnSheet(page) \/ (Show!Drawing /\ age >= since)

ShowInv == Show!ShowTypeOK /\ Quiet /\ Timed /\ Sheets /\ Shown

LEMMA FreshTyped ==
  /\ Show!Idle \in [todo : Seq(1 .. Pages), done : Seq(Show!Canvas)]
  /\ << >> \in Seq(Show!Canvas)
  /\ 0 \in Show!Zooms
  /\ 1 \in 1 .. Pages /\ 0 \in 0 .. Pages /\ -1 \in -1 .. Interval
  /\ 0 \in 0 .. Interval /\ 0 \in 0 .. MaxDraw /\ 0 \in 0 .. MaxKeys
BY Bounds DEF Show!Idle, Show!Zooms

LEMMA ShowInitially == ASSUME Show!Init PROVE ShowInv
<1>1. Show!ShowTypeOK
  BY FreshTyped DEF Show!Init, Show!ShowTypeOK, Show!Off
<1>2. Quiet /\ Timed /\ Sheets /\ Shown
  BY DEF Show!Init, Quiet, Timed, Sheets, Shown, Show!Off
<1> QED BY <1>1, <1>2 DEF ShowInv

LEMMA MountKeeps ==
  ASSUME ShowInv, NEW k \in {"none", "document", "page", "width"}, NEW e \in BOOLEAN,
         Show!Mount(k, e)
  PROVE  ShowInv'
<1>1. Show!ShowTypeOK'
  BY FreshTyped DEF Show!Mount, ShowInv, Show!ShowTypeOK, Show!Off
<1>2. Quiet' /\ Timed' /\ Sheets' /\ Shown'
  BY DEF Show!Mount, Quiet, Timed, Sheets, Shown, Show!Off
<1> QED BY <1>1, <1>2 DEF ShowInv

\* What a drawing begins with.
LEMMA Sheet1 ==
  ASSUME NEW p \in 1 .. Pages
  PROVE  /\ <<p>> \in Seq(1 .. Pages)
         /\ [n \in 1 .. Pages |-> n] \in Seq(1 .. Pages)
         /\ << >> \in Seq(Show!Canvas)
         /\ [todo |-> <<p>>, done |-> << >>] # Show!Idle
BY Bounds DEF Show!Idle

\* Rendering page p, when it is current then.
LEMMA RenderKeeps ==
  ASSUME ShowInv, NEW p \in 1 .. Pages, Show!Render(p), page' = p,
         kind' = kind, doc' = "ready", zoom' \in Show!Zooms, canvas' = canvas,
         doc = "ready" \/ (doc = "loading" /\ since' = 0),
         since' = 0 \/ (since' = since /\ page' = page)
  PROVE  /\ drawing' \in [todo : Seq(1 .. Pages), done : Seq(Show!Canvas)]
         /\ label' \in 0 .. Pages /\ age' \in 0 .. MaxDraw /\ missed' \in BOOLEAN
         /\ Sheets' /\ Shown'
<1> USE Bounds
<1>t. Show!ShowTypeOK
  BY DEF ShowInv
<1>1. CASE Show!Drawing
  <2>1. missed' = TRUE /\ UNCHANGED <<drawing, label, age>>
    BY <1>1 DEF Show!Render
  <2>2. doc = "ready"
    BY <1>1 DEF ShowInv, Quiet, Show!Drawing
  <2> QED BY <1>1, <1>t, <2>1, <2>2 DEF ShowInv, Show!ShowTypeOK, Sheets, Shown, Show!Slides,
    Show!Drawing, Show!PageDrawn
<1>2. CASE ~ Show!Drawing
  <2>1. Show!StartDrawing(p) /\ label' = Show!Badge(p)
    BY <1>2 DEF Show!Render
  <2>2. /\ drawing' = [todo |-> IF Show!Slides THEN <<p>> ELSE [n \in 1 .. Pages |-> n],
                       done |-> << >>]
        /\ age' = 0 /\ missed' = (missed /\ p = page)
        /\ label' = IF Show!Slides THEN p ELSE label
    BY <2>1 DEF Show!StartDrawing, Show!Badge
  <2>3. drawing' \in [todo : Seq(1 .. Pages), done : Seq(Show!Canvas)]
    BY <2>2, Sheet1
  <2>4. label' \in 0 .. Pages /\ age' \in 0 .. MaxDraw /\ missed' \in BOOLEAN
    BY <2>2, <1>t DEF Show!ShowTypeOK
  <2>5. Show!Slides' <=> Show!Slides
    BY DEF Show!Slides
  <2>6. Show!Slides => drawing' = [todo |-> <<p>>, done |-> << >>]
    BY <2>2
  <2>7. Sheets'
    BY <2>5, <2>6 DEF Sheets
  <2>8. Shown'
    <3> SUFFICES ASSUME Show!Slides PROVE Shown'
      BY <2>5 DEF Shown
    <3>1. Show!Drawing' /\ Show!PageDrawn' = p /\ label' = p
      BY <2>2, <2>6, Sheet1 DEF Show!Drawing, Show!PageDrawn, Show!Idle
    <3>2. ~ missed' => OnSheet(page)' \/ age' >= since'
      <4>1. CASE since' = 0
        BY <4>1, <2>2
      <4>2. CASE since' # 0
        <5>1. ~ missed' => ~ missed
          BY <4>2, <2>2
        <5>2. doc = "ready"
          BY <4>2
        <5> QED BY <4>2, <5>1, <5>2, <1>2 DEF ShowInv, Shown, OnSheet
      <4> QED BY <4>1, <4>2
    <3> QED BY <3>1, <3>2 DEF Shown
  <2> QED BY <2>3, <2>4, <2>7, <2>8
<1> QED BY <1>1, <1>2

LEMMA DocLoadsKeeps == ASSUME ShowInv, Show!DocLoads PROVE ShowInv'
<1>1. page \in 1 .. Pages /\ zoom \in Show!Zooms
  BY DEF ShowInv, Show!ShowTypeOK
<1>2. /\ drawing' \in [todo : Seq(1 .. Pages), done : Seq(Show!Canvas)]
      /\ label' \in 0 .. Pages /\ age' \in 0 .. MaxDraw /\ missed' \in BOOLEAN
      /\ Sheets' /\ Shown'
  BY <1>1, RenderKeeps DEF Show!DocLoads
<1>3. Show!ShowTypeOK'
  BY <1>2, Bounds, FreshTyped DEF ShowInv, Show!ShowTypeOK, Show!DocLoads, Show!Off
<1>4. Quiet' /\ Timed'
  BY Bounds DEF Quiet, Timed, Show!DocLoads, Show!Slides, Show!Off
<1> QED BY <1>2, <1>3, <1>4 DEF ShowInv

LEMMA DocFailsKeeps == ASSUME ShowInv, Show!DocFails PROVE ShowInv'
BY DEF ShowInv, Show!ShowTypeOK, Quiet, Timed, Sheets, Shown, Show!DocFails, Show!Slides

\* With a page to draw or a canvas made, a widget is drawing.
LEMMA SheetKinds ==
  ASSUME ShowInv, Show!Slides, Show!Drawing
  PROVE  \/ \E p \in 1 .. Pages : /\ drawing = [todo |-> <<p>>, done |-> << >>]
                                  /\ Show!PageDrawn = p
         \/ \E c \in Show!Canvas : /\ drawing = [todo |-> << >>, done |-> <<c>>]
                                   /\ Show!PageDrawn = c.page
<1>1. CASE \E p \in 1 .. Pages : drawing = [todo |-> <<p>>, done |-> << >>]
  BY <1>1 DEF Show!PageDrawn
<1>2. CASE \E c \in Show!Canvas : drawing = [todo |-> << >>, done |-> <<c>>]
  BY <1>2 DEF Show!PageDrawn
<1> QED BY <1>1, <1>2 DEF ShowInv, Sheets, Show!Drawing

LEMMA HeadTailTyped ==
  ASSUME NEW S, NEW s \in Seq(S), s # << >>
  PROVE  Head(s) \in S /\ Tail(s) \in Seq(S)
OBVIOUS

LEMMA CanvasMadeKeeps == ASSUME ShowInv, Show!CanvasMade PROVE ShowInv'
<1> DEFINE c == [page |-> Head(drawing.todo), zoom |-> zoom]
<1>1. /\ drawing.todo # << >> /\ drawing.todo \in Seq(1 .. Pages)
      /\ drawing.done \in Seq(Show!Canvas) /\ zoom \in Show!Zooms
  BY DEF ShowInv, Show!ShowTypeOK, Show!CanvasMade
<1>2. c \in Show!Canvas
  <2>1. Head(drawing.todo) \in 1 .. Pages
    BY <1>1, HeadTailTyped
  <2> QED BY <1>1, <2>1 DEF Show!Canvas
<1>3. drawing' = [todo |-> Tail(drawing.todo), done |-> Append(drawing.done, c)]
  BY DEF Show!CanvasMade
<1>4. drawing' \in [todo : Seq(1 .. Pages), done : Seq(Show!Canvas)]
  <2>1. Tail(drawing.todo) \in Seq(1 .. Pages)
    BY <1>1, HeadTailTyped
  <2>2. Append(drawing.done, c) \in Seq(Show!Canvas)
    <3> HIDE DEF c
    <3> QED BY <1>1, <1>2
  <2> HIDE DEF c
  <2> QED BY <1>3, <2>1, <2>2
<1>5. Show!Drawing
  BY <1>1 DEF Show!Drawing, Show!Idle
<1>6. Show!ShowTypeOK'
  BY <1>4 DEF ShowInv, Show!ShowTypeOK, Show!CanvasMade
<1>7. Quiet' /\ Timed'
  BY <1>5 DEF ShowInv, Quiet, Timed, Show!CanvasMade, Show!Slides, Show!Drawing
<1>8. Show!Slides' <=> Show!Slides
  BY DEF Show!CanvasMade, Show!Slides
<1>9. ASSUME Show!Slides
      PROVE  /\ drawing' = [todo |-> << >>, done |-> <<c>>]
             /\ Show!PageDrawn = c.page
  <2>1. PICK p \in 1 .. Pages : drawing = [todo |-> <<p>>, done |-> << >>]
    BY <1>1, <1>5, <1>9, SheetKinds
  <2> QED BY <1>3, <2>1 DEF Show!PageDrawn
<1>10. Sheets'
  BY <1>2, <1>8, <1>9 DEF Sheets
<1>11. Shown'
  <2> SUFFICES ASSUME Show!Slides, doc = "ready" PROVE Shown'
    BY <1>8 DEF Shown, Show!CanvasMade
  <2>1. Show!Drawing' /\ Show!PageDrawn' = c.page
    BY <1>9 DEF Show!Drawing, Show!Idle, Show!PageDrawn
  <2>2. UNCHANGED <<canvas, label, missed, page, age, since>>
    BY DEF Show!CanvasMade
  <2> QED BY <1>5, <1>9, <2>1, <2>2 DEF ShowInv, Shown, OnSheet
<1> QED BY <1>6, <1>7, <1>10, <1>11 DEF ShowInv

LEMMA DrawnKeeps == ASSUME ShowInv, Show!Drawn PROVE ShowInv'
<1>1. /\ Show!Drawing /\ drawing.todo = << >>
      /\ canvas' = drawing.done /\ drawing' = Show!Idle
      /\ missed' = (missed /\ Show!Slides /\ Show!PageDrawn # page)
      /\ UNCHANGED <<kind, ends, doc, page, zoom, label, slideTimer, focused, age, since, keys>>
  BY DEF Show!Drawn
<1>2. over' \in BOOLEAN /\ scroll' \in 0 .. Interval /\ toBottom' \in BOOLEAN
  <2>1. CASE kind = "width"
    <3>1. scroll' = Interval \/ scroll' = 0
      BY <2>1 DEF Show!Drawn
    <3>2. over' \in BOOLEAN /\ toBottom' = FALSE
      BY <2>1 DEF Show!Drawn
    <3>3. scroll' \in 0 .. Interval
      BY <3>1, Bounds
    <3> QED BY <3>2, <3>3
  <2>2. CASE kind # "width"
    BY <2>2 DEF ShowInv, Show!ShowTypeOK, Show!Drawn
  <2> QED BY <2>1, <2>2
<1>3. Show!ShowTypeOK'
  BY <1>1, <1>2, FreshTyped DEF ShowInv, Show!ShowTypeOK
<1>4. Quiet' /\ Timed' /\ Sheets'
  BY <1>1 DEF ShowInv, Quiet, Timed, Sheets, Show!Slides
<1>5. Shown'
  <2> SUFFICES ASSUME Show!Slides, doc = "ready" PROVE Shown'
    BY <1>1 DEF Shown, Show!Slides
  <2>1. PICK c \in Show!Canvas : /\ drawing = [todo |-> << >>, done |-> <<c>>]
                                 /\ Show!PageDrawn = c.page
    BY <1>1, SheetKinds
  <2>2. label = c.page
    BY <1>1, <2>1 DEF ShowInv, Shown
  <2>3. ~ Show!Drawing' /\ OnSheet(label)'
    BY <1>1, <2>1, <2>2 DEF Show!Drawing, OnSheet
  <2>4. ~ missed' => label = page
    BY <1>1, <2>1, <2>2 DEF ShowInv, Shown
  <2> QED BY <1>1, <2>3, <2>4 DEF Shown, OnSheet
<1> QED BY <1>3, <1>4, <1>5 DEF ShowInv

LEMMA DrawFailsKeeps == ASSUME ShowInv, Show!DrawFails PROVE ShowInv'
<1>1. Show!ShowTypeOK'
  BY FreshTyped DEF ShowInv, Show!ShowTypeOK, Show!DrawFails
<1>2. Quiet' /\ Timed' /\ Sheets' /\ Shown'
  BY DEF ShowInv, Quiet, Timed, Sheets, Shown, Show!DrawFails, Show!Slides, Show!Drawing
<1> QED BY <1>1, <1>2 DEF ShowInv

\* What only resets the timer of slides, for a page that stays or becomes current.
LEMMA TimerWaitsKeeps == ASSUME ShowInv, Show!TimerWaits PROVE ShowInv'
<1>1. Show!ShowTypeOK'
  BY Bounds DEF ShowInv, Show!ShowTypeOK, Show!TimerWaits, Show!Off
<1>2. Quiet' /\ Timed'
  BY Bounds DEF ShowInv, Show!ShowTypeOK, Quiet, Timed, Show!TimerWaits, Show!Slides
<1>3. Sheets' /\ Shown'
  BY DEF ShowInv, Sheets, Shown, Show!TimerWaits, Show!Slides, Show!Drawing, Show!PageDrawn,
    OnSheet
<1> QED BY <1>1, <1>2, <1>3 DEF ShowInv

LEMMA PlaysToEndKeeps == ASSUME ShowInv, Show!PlaysToEnd PROVE ShowInv'
<1>1. Show!ShowTypeOK'
  BY FreshTyped DEF ShowInv, Show!ShowTypeOK, Show!PlaysToEnd, Show!Off
<1>2. Quiet' /\ Timed'
  BY DEF ShowInv, Quiet, Timed, Show!PlaysToEnd, Show!Off
<1>3. Sheets' /\ Shown'
  BY DEF ShowInv, Sheets, Shown, Show!PlaysToEnd, Show!Slides, Show!Drawing, Show!PageDrawn,
    OnSheet
<1> QED BY <1>1, <1>2, <1>3 DEF ShowInv

LEMMA NextPageInRange ==
  ASSUME NEW p \in 1 .. Pages
  PROVE  (IF p = Pages THEN 1 ELSE p + 1) \in 1 .. Pages
BY Bounds

LEMMA TimerTurnsKeeps == ASSUME ShowInv, Show!TimerTurns PROVE ShowInv'
<1>1. /\ page' \in 1 .. Pages /\ Show!Render(page')
      /\ slideTimer = 0 /\ slideTimer' = Interval /\ since' = 0
      /\ UNCHANGED <<kind, ends, doc, zoom, canvas, over, scroll, toBottom, focused, keys>>
  BY NextPageInRange DEF ShowInv, Show!ShowTypeOK, Show!TimerTurns
<1>2. doc = "ready" /\ Show!Slides
  BY <1>1 DEF ShowInv, Quiet, Timed
<1>3. /\ drawing' \in [todo : Seq(1 .. Pages), done : Seq(Show!Canvas)]
      /\ label' \in 0 .. Pages /\ age' \in 0 .. MaxDraw /\ missed' \in BOOLEAN
      /\ Sheets' /\ Shown'
  <2>1. zoom \in Show!Zooms
    BY DEF ShowInv, Show!ShowTypeOK
  <2> QED BY <1>1, <1>2, <2>1, RenderKeeps
<1>4. Show!ShowTypeOK'
  <2>1. slideTimer' \in -1 .. Interval /\ since' \in 0 .. Interval
    BY <1>1, Bounds
  <2> QED BY <1>1, <1>3, <2>1 DEF ShowInv, Show!ShowTypeOK, Show!Off
<1>5. Quiet' /\ Timed'
  BY <1>1, <1>2, Bounds DEF Quiet, Timed, Show!Slides
<1> QED BY <1>3, <1>4, <1>5 DEF ShowInv

\* A page chosen by hand.
LEMMA GoToKeeps ==
  ASSUME ShowInv, NEW p \in 1 .. Pages, Show!GoTo(p), Show!Slides, doc = "ready",
         keys' \in 0 .. MaxKeys, toBottom' \in BOOLEAN
  PROVE  ShowInv'
<1>1. /\ page' = p /\ Show!Render(p) /\ slideTimer' = Interval /\ since' = 0
      /\ UNCHANGED <<kind, ends, doc, zoom, canvas, over, scroll, focused>>
  BY DEF Show!GoTo
<1>2. /\ drawing' \in [todo : Seq(1 .. Pages), done : Seq(Show!Canvas)]
      /\ label' \in 0 .. Pages /\ age' \in 0 .. MaxDraw /\ missed' \in BOOLEAN
      /\ Sheets' /\ Shown'
  <2>1. zoom \in Show!Zooms
    BY DEF ShowInv, Show!ShowTypeOK
  <2> QED BY <1>1, <2>1, RenderKeeps
<1>3. Show!ShowTypeOK'
  <2>1. slideTimer' \in -1 .. Interval /\ since' \in 0 .. Interval
    BY <1>1, Bounds
  <2> QED BY <1>1, <1>2, <2>1 DEF ShowInv, Show!ShowTypeOK, Show!Off
<1>4. Quiet' /\ Timed'
  BY <1>1, Bounds DEF Quiet, Timed, Show!Slides
<1> QED BY <1>2, <1>3, <1>4 DEF ShowInv

LEMMA PressTyped ==
  ASSUME ShowInv, Show!Press
  PROVE  keys' \in 0 .. MaxKeys
BY Bounds DEF ShowInv, Show!ShowTypeOK, Show!Press

LEMMA StepKeeps ==
  ASSUME ShowInv, NEW dir \in {-1, 1}, Show!Step(dir)
  PROVE  ShowInv'
<1> DEFINE p == ((page - 1 + dir) % Pages) + 1
<1>1. p \in 1 .. Pages
  <2>1. page - 1 + dir \in Int
    BY Bounds DEF ShowInv, Show!ShowTypeOK
  <2>2. (page - 1 + dir) % Pages \in 0 .. Pages - 1
    BY <2>1, Bounds
  <2> QED BY <2>2, Bounds
<1>2. Show!GoTo(p) /\ kind = "page" /\ doc = "ready" /\ Show!Press /\ UNCHANGED toBottom
  BY DEF Show!Step
<1>3. Show!Slides /\ toBottom' \in BOOLEAN
  BY <1>2 DEF Show!Slides, ShowInv, Show!ShowTypeOK
<1> HIDE DEF p
<1> QED BY <1>1, <1>2, <1>3, PressTyped, GoToKeeps

LEMMA FlipKeeps ==
  ASSUME ShowInv, NEW dir \in {-1, 1}, Show!FlipAtEdge(dir)
  PROVE  ShowInv'
<1>1. /\ Show!GoTo(page + dir) /\ kind = "width" /\ doc = "ready" /\ Show!Press
      /\ page + dir \in 1 .. Pages /\ toBottom' = (dir < 0)
  BY DEF Show!FlipAtEdge
<1>2. Show!Slides /\ toBottom' \in BOOLEAN
  BY <1>1 DEF Show!Slides
<1> QED BY <1>1, <1>2, PressTyped, GoToKeeps

\* What a widget's drawing and timer do not depend on.
LEMMA AsideKeeps ==
  ASSUME ShowInv, scroll' \in 0 .. Interval, focused' \in BOOLEAN, keys' \in 0 .. MaxKeys,
         UNCHANGED <<kind, ends, doc, page, zoom, drawing, canvas, label, slideTimer, over,
                     toBottom, age, since, missed>>
  PROVE  ShowInv'
<1>1. Show!ShowTypeOK'
  BY DEF ShowInv, Show!ShowTypeOK
<1>2. Quiet' /\ Timed'
  BY DEF ShowInv, Quiet, Timed, Show!Slides
<1>3. Sheets' /\ Shown'
  BY DEF ShowInv, Sheets, Shown, Show!Slides, Show!Drawing, Show!PageDrawn, OnSheet
<1> QED BY <1>1, <1>2, <1>3 DEF ShowInv

LEMMA ScrollKeeps ==
  ASSUME ShowInv, NEW dir \in {-1, 1}, Show!ScrollPage(dir)
  PROVE  ShowInv'
<1>1. scroll' \in 0 .. Interval
  BY Bounds DEF ShowInv, Show!ShowTypeOK, Show!ScrollPage, Show!AtEdge
<1>2. focused' \in BOOLEAN
  BY DEF ShowInv, Show!ShowTypeOK, Show!ScrollPage
<1> QED BY <1>1, <1>2, PressTyped, AsideKeeps DEF Show!ScrollPage

LEMMA FocusKeeps == ASSUME ShowInv, Show!Focus PROVE ShowInv'
<1>1. scroll' \in 0 .. Interval
  BY DEF ShowInv, Show!ShowTypeOK, Show!Focus
<1> QED BY <1>1, PressTyped, AsideKeeps DEF Show!Focus

LEMMA UnfocusKeeps == ASSUME ShowInv, Show!Unfocus PROVE ShowInv'
<1>1. keys' \in 0 .. MaxKeys
  BY DEF ShowInv, Show!ShowTypeOK, Show!Unfocus
<1> QED BY <1>1, FreshTyped, AsideKeeps DEF Show!Unfocus

LEMMA ZoomKeeps ==
  ASSUME ShowInv, NEW delta \in {-1, 0, 1}, Show!Zoom(delta)
  PROVE  ShowInv'
<1>1. UNCHANGED <<kind, ends, doc, page, canvas, slideTimer, over, scroll, toBottom,
                  focused, since>>
  BY DEF Show!Zoom
<1>2. zoom' \in Show!Zooms
  BY FreshTyped DEF ShowInv, Show!ShowTypeOK, Show!Zoom
<1>3. keys' \in 0 .. MaxKeys
  BY PressTyped DEF Show!Zoom
<1>4. /\ drawing' \in [todo : Seq(1 .. Pages), done : Seq(Show!Canvas)]
      /\ label' \in 0 .. Pages /\ age' \in 0 .. MaxDraw /\ missed' \in BOOLEAN
      /\ Sheets' /\ Shown'
  <2>1. CASE doc = "ready"
    <3>1. Show!Render(page) /\ page \in 1 .. Pages
      BY <2>1 DEF Show!Zoom, ShowInv, Show!ShowTypeOK
    <3> QED BY <1>1, <1>2, <2>1, <3>1, RenderKeeps
  <2>2. CASE doc # "ready"
    <3>1. UNCHANGED <<drawing, label, age, missed>>
      BY <2>2 DEF Show!Zoom
    <3> QED BY <1>1, <2>2, <3>1 DEF ShowInv, Show!ShowTypeOK, Sheets, Shown, Show!Slides
  <2> QED BY <2>1, <2>2
<1>5. Show!ShowTypeOK'
  BY <1>1, <1>2, <1>3, <1>4 DEF ShowInv, Show!ShowTypeOK
<1>6. Quiet'
  <2>1. doc # "ready" => UNCHANGED drawing
    BY DEF Show!Zoom
  <2> QED BY <1>1, <2>1 DEF ShowInv, Quiet
<1>7. Timed'
  BY <1>1 DEF ShowInv, Timed, Show!Slides
<1> QED BY <1>4, <1>5, <1>6, <1>7 DEF ShowInv

LEMMA ShowTickKeeps == ASSUME ShowInv, Show!Tick PROVE ShowInv'
<1> USE Bounds
<1>1. /\ slideTimer \in -1 .. Interval /\ slideTimer # 0
      /\ since \in 0 .. Interval /\ age \in 0 .. MaxDraw /\ scroll \in 0 .. Interval
      /\ slideTimer' = IF slideTimer = -1 THEN -1 ELSE slideTimer - 1
      /\ since' = IF slideTimer = -1 THEN since ELSE Show!Least(since + 1, Interval)
      /\ age' = IF Show!Drawing THEN age + 1 ELSE age
      /\ Show!Drawing => age < MaxDraw
      /\ UNCHANGED <<kind, ends, doc, page, zoom, drawing, canvas, label, over, toBottom,
                     focused, missed, keys>>
  BY DEF ShowInv, Show!ShowTypeOK, Show!Tick, Show!Off
<1>2. /\ slideTimer' \in -1 .. Interval /\ since' \in 0 .. Interval
      /\ age' \in 0 .. MaxDraw
  BY <1>1 DEF Show!Least
<1>3. scroll' \in 0 .. Interval
  BY <1>1 DEF Show!Tick, Show!Least
<1>4. Show!ShowTypeOK'
  BY <1>1, <1>2, <1>3 DEF ShowInv, Show!ShowTypeOK, Show!Off
<1>5. Quiet'
  BY <1>1 DEF ShowInv, Quiet
<1>6. Timed'
  BY <1>1 DEF ShowInv, Timed, Show!Slides, Show!Least
<1>7. Sheets'
  BY <1>1 DEF ShowInv, Sheets, Show!Slides
<1>8. Shown'
  <2>1. Show!Drawing /\ age >= since => age' >= since'
    BY <1>1 DEF Show!Least
  <2> QED BY <1>1, <2>1 DEF ShowInv, Shown, Show!Slides, Show!Drawing, Show!PageDrawn, OnSheet
<1> QED BY <1>4, <1>5, <1>6, <1>7, <1>8 DEF ShowInv

LEMMA DrivenKeeps == ASSUME ShowInv, Show!Driven PROVE ShowInv'
BY StepKeeps, FlipKeeps, ScrollKeeps, ZoomKeeps, FocusKeeps DEF Show!Driven

-----------------------------------------------------------------------------
(* The corner panel.                                                       *)

LEMMA PanelBounds ==
  /\ << >> \in Payloads /\ Longest \in Nat /\ Retry \in 1 .. Longest
  /\ MaxDisturbances \in Nat /\ MaxDelays \in Nat
  /\ NoBody \notin Panel!Bodies
  /\ \A x \in Panel!Items : /\ x.onEnd \in BOOLEAN /\ x.dwell \in 1 .. Longest
                            /\ Medium[x.view] \in {"plain", "video", "slides"}
BY MediaConstants DEF Panel!PanelConstants, Panel!Bodies

\* The item a rotation comes to.
LEMMA ItemInRange ==
  ASSUME NEW list \in Payloads, list # << >>, NEW i \in Int
  PROVE  /\ ((i - 1) % Len(list)) + 1 \in DOMAIN list
         /\ ((i - 1) % Len(list)) + 1 \in Nat \ {0}
         /\ list[((i - 1) % Len(list)) + 1] \in Panel!Items
<1> DEFINE n == Len(list)
           j == ((i - 1) % n) + 1
<1>1. list \in Seq(Panel!Items) /\ n \in Nat
  BY MediaConstants DEF Panel!PanelConstants
<1>2. n # 0 /\ DOMAIN list = 1 .. n
  BY <1>1
<1>3. (i - 1) % n \in 0 .. n - 1
  <2>1. i - 1 \in Int
    OBVIOUS
  <2> HIDE DEF n
  <2> QED BY <1>1, <1>2, <2>1
<1>4. j \in 1 .. n /\ j \in Nat \ {0}
  <2> HIDE DEF n
  <2> QED BY <1>1, <1>3
<1>5. list[j] \in Panel!Items
  <2> HIDE DEF j
  <2> QED BY <1>2, <1>4 DEF Panel!Items
<1> QED BY <1>2, <1>4, <1>5

LEMMA StoppedTyped ==
  ASSUME NEW b \in Panel!Bodies \cup {NoBody}
  PROVE  /\ Panel!Stopped(b) \in Panel!Bodies \cup {NoBody}
         /\ Panel!Stopped(b) = NoBody <=> b = NoBody
         /\ Panel!Stopped(b) # NoBody => /\ Panel!Stopped(b).medium = b.medium
                                         /\ Panel!Stopped(b).calls => b.calls
<1>1. CASE b # NoBody /\ b.medium = "video"
  <2>1. b \in Panel!Bodies /\ Panel!Stopped(b) = [b EXCEPT !.calls = FALSE]
    BY <1>1 DEF Panel!Stopped
  <2>2. /\ [b EXCEPT !.calls = FALSE] \in Panel!Bodies
        /\ [b EXCEPT !.calls = FALSE].medium = b.medium
        /\ [b EXCEPT !.calls = FALSE].calls = FALSE
    BY <2>1 DEF Panel!Bodies
  <2> QED BY <1>1, <2>1, <2>2, PanelBounds
<1>2. CASE ~ (b # NoBody /\ b.medium = "video")
  BY <1>2 DEF Panel!Stopped
<1> QED BY <1>1, <1>2

\* An empty panel has no body.
Bare == items = << >> => body = NoBody

\* A panel that waits for a slide show waits for one that will end.
Awaited ==
  InPanel /\ body # NoBody /\ body.medium = "slides" /\ body.calls =>
    /\ ends /\ Show!Slides
    /\ doc = "loading" \/ doc = "failed" \/ slideTimer # -1

PanelInv == Panel!PanelTypeOK /\ Bare /\ Panel!PanelAlive

LEMMA PanelInitially == ASSUME Panel!Init PROVE PanelInv
<1>1. Panel!PanelTypeOK
  BY PanelBounds DEF Panel!Init, Panel!PanelTypeOK, Panel!Off
<1>2. Bare /\ Panel!PanelAlive
  BY DEF Panel!Init, Bare, Panel!PanelAlive
<1> QED BY <1>1, <1>2 DEF PanelInv

\* What a rotation leaves: the fetch it sent, and no timer with a handle.
LEMMA RotateKeeps ==
  ASSUME PanelInv, NEW list \in Payloads, list # << >>, NEW i \in Int,
         NEW b \in Panel!Bodies \cup {NoBody}, Panel!Rotate(list, i, b)
  PROVE  /\ idx' \in Nat \ {0} /\ timer' = -1
         /\ body' = Panel!Stopped(b) /\ body' \in Panel!Bodies \cup {NoBody}
         /\ list[idx'] \in Panel!Items
         /\ fetches' = [fetches EXCEPT ![list[idx']] = @ + 1]
         /\ fetches' \in [Panel!Items -> Nat]
         /\ Panel!InFlight' # {}
<1>1. /\ idx' = ((i - 1) % Len(list)) + 1 /\ timer' = -1 /\ body' = Panel!Stopped(b)
      /\ fetches' = [fetches EXCEPT ![list[idx']] = @ + 1]
  BY DEF Panel!Rotate, Panel!Off
<1>2. idx' \in Nat \ {0} /\ list[idx'] \in Panel!Items
  BY <1>1, ItemInRange
<1>3. fetches \in [Panel!Items -> Nat]
  BY DEF PanelInv, Panel!PanelTypeOK
<1>4. fetches' \in [Panel!Items -> Nat] /\ fetches'[list[idx']] > 0
  BY <1>1, <1>2, <1>3
<1>5. Panel!InFlight' # {}
  BY <1>2, <1>4 DEF Panel!InFlight
<1> QED BY <1>1, <1>2, <1>4, <1>5, StoppedTyped

LEMMA SetTimerTyped ==
  ASSUME PanelInv, NEW n \in 1 .. Longest, Panel!SetTimer(n)
  PROVE  /\ timer' = n /\ timer' \in -1 .. Longest /\ timer' # -1
         /\ strays' \in [0 .. Longest -> Nat]
BY PanelBounds DEF PanelInv, Panel!PanelTypeOK, Panel!SetTimer, Panel!Off

LEMMA BodyOfTyped ==
  ASSUME NEW x \in Panel!Items
  PROVE  /\ Panel!BodyOf(x) \in Panel!Bodies /\ Panel!BodyOf(x) # NoBody
         /\ Panel!BodyOf(x).calls \in BOOLEAN
         /\ Panel!Relies(x) <=> Panel!BodyOf(x).calls \/ Panel!BodyOf(x).deaf
         /\ Panel!BodyOf(x).calls => Panel!BodyOf(x).medium \in scripts
<1> DEFINE m == Medium[x.view]
           c == Panel!Relies(x) /\ m \in scripts
           d == Panel!Relies(x) /\ m \notin scripts
           b == [view |-> x.view, medium |-> m, calls |-> c, deaf |-> d]
<1>1. Panel!BodyOf(x) = b
  BY DEF Panel!BodyOf
<1>2. /\ c \in BOOLEAN /\ d \in BOOLEAN /\ m \in {"plain", "video", "slides"}
      /\ Panel!Relies(x) <=> c \/ d
      /\ c => m \in scripts
  BY PanelBounds
<1>3. b \in Panel!Bodies /\ b.calls = c /\ b.deaf = d /\ b.medium = m
  <2> HIDE DEF c, d, m
  <2> QED BY <1>2 DEF Panel!Bodies
<1> HIDE DEF b, c, d, m
<1>4. b # NoBody
  BY <1>3, PanelBounds
<1> QED BY <1>1, <1>2, <1>3, <1>4

LEMMA FetchEnds ==
  ASSUME PanelInv, NEW x \in Panel!Items, fetches[x] > 0,
         fetches' = [fetches EXCEPT ![x] = @ - 1]
  PROVE  fetches' \in [Panel!Items -> Nat]
BY DEF PanelInv, Panel!PanelTypeOK

LEMMA AnswerKeeps ==
  ASSUME PanelInv, NEW x \in Panel!Items, Panel!Answer(x)
  PROVE  PanelInv'
<1>1. /\ fetches' \in [Panel!Items -> Nat]
      /\ UNCHANGED <<items, idx, scripts, disturbances, delays>>
  BY FetchEnds DEF Panel!Answer
<1>2. CASE items = << >>
  <2>1. Panel!SetTimer(Retry) /\ UNCHANGED body
    BY <1>2 DEF Panel!Answer
  <2>2. timer' \in -1 .. Longest /\ timer' # -1 /\ strays' \in [0 .. Longest -> Nat]
    BY <2>1, SetTimerTyped, PanelBounds
  <2> QED BY <1>1, <1>2, <2>1, <2>2 DEF PanelInv, Panel!PanelTypeOK, Panel!Off, Bare,
    Panel!PanelAlive
<1>3. CASE items # << >>
  <2>1. /\ body' = Panel!BodyOf(x)
        /\ IF Panel!Relies(x) THEN UNCHANGED <<timer, strays>> ELSE Panel!SetTimer(x.dwell)
    BY <1>3 DEF Panel!Answer
  <2>2. /\ body' \in Panel!Bodies /\ body' # NoBody
        /\ Panel!Relies(x) => body'.calls \/ body'.deaf
    BY <2>1, BodyOfTyped
  <2>3. CASE Panel!Relies(x)
    BY <1>1, <1>3, <2>1, <2>2, <2>3 DEF PanelInv, Panel!PanelTypeOK, Bare,
      Panel!PanelAlive, Panel!Calling, Panel!Deaf
  <2>4. CASE ~ Panel!Relies(x)
    <3>1. timer' \in -1 .. Longest /\ timer' # -1 /\ strays' \in [0 .. Longest -> Nat]
      BY <2>1, <2>4, SetTimerTyped, PanelBounds
    <3> QED BY <1>1, <1>3, <2>2, <3>1 DEF PanelInv, Panel!PanelTypeOK, Panel!Off, Bare,
      Panel!PanelAlive
  <2> QED BY <2>3, <2>4
<1> QED BY <1>2, <1>3

LEMMA FetchFailsKeeps ==
  ASSUME PanelInv, NEW x \in Panel!Items, Panel!FetchFails(x)
  PROVE  PanelInv'
<1>1. /\ fetches' \in [Panel!Items -> Nat] /\ Panel!SetTimer(Retry)
      /\ UNCHANGED <<items, idx, body, scripts, disturbances, delays>>
  BY FetchEnds DEF Panel!FetchFails
<1>2. timer' \in -1 .. Longest /\ timer' # -1 /\ strays' \in [0 .. Longest -> Nat]
  BY <1>1, SetTimerTyped, PanelBounds
<1> QED BY <1>1, <1>2 DEF PanelInv, Panel!PanelTypeOK, Panel!Off, Bare, Panel!PanelAlive

\* A rotation over the items of the panel keeps it alive, wherever it comes from.
LEMMA RotationKeeps ==
  ASSUME PanelInv, items' \in Payloads, items' # << >>, NEW i \in Int,
         NEW b \in Panel!Bodies \cup {NoBody}, Panel!Rotate(items', i, b),
         strays' \in [0 .. Longest -> Nat], scripts' \subseteq Panel!Scripts,
         disturbances' \in 0 .. MaxDisturbances, delays' \in 0 .. MaxDelays
  PROVE  PanelInv'
<1>1. /\ idx' \in Nat \ {0} /\ timer' = -1
      /\ body' \in Panel!Bodies \cup {NoBody}
      /\ fetches' \in [Panel!Items -> Nat] /\ Panel!InFlight' # {}
  BY RotateKeeps
<1>2. timer' \in -1 .. Longest
  BY <1>1, PanelBounds
<1> QED BY <1>1, <1>2 DEF PanelInv, Panel!PanelTypeOK, Panel!Off, Bare, Panel!PanelAlive

LEMMA PanelTyped ==
  ASSUME PanelInv
  PROVE  /\ items \in Payloads /\ idx \in Nat \ {0} /\ body \in Panel!Bodies \cup {NoBody}
         /\ fetches \in [Panel!Items -> Nat]
         /\ timer \in -1 .. Longest /\ strays \in [0 .. Longest -> Nat]
         /\ scripts \subseteq Panel!Scripts
         /\ disturbances \in 0 .. MaxDisturbances /\ delays \in 0 .. MaxDelays
BY DEF PanelInv, Panel!PanelTypeOK, Panel!Off

LEMMA TimerFiresKeeps == ASSUME PanelInv, Panel!TimerFires PROVE PanelInv'
<1>1. UNCHANGED <<items, strays, scripts, disturbances, delays>>
  BY DEF Panel!TimerFires
<1>2. CASE items = << >>
  <2>1. timer' = -1 /\ UNCHANGED <<idx, body, fetches>>
    BY <1>2 DEF Panel!TimerFires, Panel!Off
  <2>2. timer' \in -1 .. Longest
    BY <2>1, PanelBounds
  <2> QED BY <1>1, <1>2, <2>1, <2>2 DEF PanelInv, Panel!PanelTypeOK, Panel!Off, Bare,
    Panel!PanelAlive
<1>3. CASE items # << >>
  <2>1. Panel!Rotate(items', idx + 1, body)
    BY <1>1, <1>3 DEF Panel!TimerFires
  <2>2. idx + 1 \in Int
    BY PanelTyped
  <2> QED BY <1>1, <1>3, <2>1, <2>2, PanelTyped, RotationKeeps
<1> QED BY <1>2, <1>3

LEMMA StrayFiresKeeps == ASSUME PanelInv, Panel!StrayFires PROVE PanelInv'
<1>1. UNCHANGED <<items, scripts, disturbances, delays>> /\ strays' = [strays EXCEPT ![0] = @ - 1]
  BY DEF Panel!StrayFires
<1>2. strays' \in [0 .. Longest -> Nat]
  BY <1>1, PanelTyped, PanelBounds DEF Panel!StrayFires
<1>3. CASE items = << >>
  <2>1. UNCHANGED <<idx, body, fetches, timer>>
    BY <1>3 DEF Panel!StrayFires
  <2> QED BY <1>1, <1>2, <1>3, <2>1 DEF PanelInv, Panel!PanelTypeOK, Bare, Panel!PanelAlive
<1>4. CASE items # << >>
  <2>1. Panel!Rotate(items', idx + 1, body)
    BY <1>1, <1>4 DEF Panel!StrayFires
  <2>2. idx + 1 \in Int
    BY PanelTyped
  <2> QED BY <1>1, <1>2, <1>4, <2>1, <2>2, PanelTyped, RotationKeeps
<1> QED BY <1>3, <1>4

\* A medium that called for the next item calls no more.
LEMMA CalledTyped ==
  ASSUME PanelInv, body # NoBody
  PROVE  /\ [body EXCEPT !.calls = FALSE] \in Panel!Bodies
         /\ [body EXCEPT !.calls = FALSE].calls = FALSE
         /\ items # << >>
BY PanelTyped DEF PanelInv, Bare, Panel!Bodies

LEMMA MediumEndsKeeps ==
  ASSUME PanelInv, NEW medium, Panel!MediumEnds(medium)
  PROVE  PanelInv'
<1>1. /\ UNCHANGED <<items, strays, scripts, disturbances, delays>> /\ body # NoBody
      /\ Panel!Rotate(items', idx + 1, [body EXCEPT !.calls = FALSE])
  BY DEF Panel!MediumEnds
<1>2. idx + 1 \in Int
  BY PanelTyped
<1> QED BY <1>1, <1>2, PanelTyped, CalledTyped, RotationKeeps

LEMMA DisturbTyped ==
  ASSUME PanelInv, Panel!Disturb
  PROVE  disturbances' \in 0 .. MaxDisturbances
BY PanelTyped, PanelBounds DEF Panel!Disturb

LEMMA SkipKeeps ==
  ASSUME PanelInv, NEW dir \in {-1, 1}, Panel!Skip(dir)
  PROVE  PanelInv'
<1>1. /\ items # << >> /\ Panel!Disturb /\ UNCHANGED <<items, strays, scripts, delays>>
      /\ Panel!Rotate(items', idx + dir, body)
  BY DEF Panel!Skip
<1>2. idx + dir \in Int
  BY PanelTyped
<1> QED BY <1>1, <1>2, PanelTyped, DisturbTyped, RotationKeeps

LEMMA PipEventKeeps ==
  ASSUME PanelInv, NEW list \in Payloads, Panel!PipEvent(list)
  PROVE  PanelInv'
<1>1. /\ Panel!Disturb /\ items' = list /\ UNCHANGED <<strays, scripts, delays>>
  BY DEF Panel!PipEvent, Panel!PipStart
<1>2. CASE list = << >>
  <2>1. timer' = -1 /\ body' = NoBody /\ UNCHANGED <<idx, fetches>>
    BY <1>2 DEF Panel!PipEvent, Panel!PipStart, Panel!Off
  <2>2. timer' \in -1 .. Longest
    BY <2>1, PanelBounds
  <2> QED BY <1>1, <1>2, <2>1, <2>2, DisturbTyped DEF PanelInv, Panel!PanelTypeOK,
    Panel!Off, Bare, Panel!PanelAlive
<1>3. CASE list # << >>
  <2>1. Panel!Rotate(items', 1, body)
    BY <1>1, <1>3 DEF Panel!PipEvent, Panel!PipStart
  <2> QED BY <1>1, <1>3, <2>1, PanelTyped, DisturbTyped, RotationKeeps
<1> QED BY <1>2, <1>3

\* A script looks at nothing that is on the panel.
LEMMA ScriptKeeps ==
  ASSUME PanelInv, NEW medium \in Panel!Scripts, Panel!ScriptRuns(medium)
  PROVE  PanelInv'
<1>1. scripts' \subseteq Panel!Scripts
  BY PanelTyped DEF Panel!ScriptRuns
<1> QED BY <1>1 DEF Panel!ScriptRuns, Panel!panel, PanelInv, Panel!PanelTypeOK, Bare,
  Panel!PanelAlive, Panel!Calling, Panel!Deaf, Panel!InFlight

LEMMA PanelTickKeeps == ASSUME PanelInv, Panel!Tick PROVE PanelInv'
<1>1. /\ timer # 0 /\ strays[0] = 0
      /\ timer' = IF timer = -1 THEN -1 ELSE timer - 1
      /\ strays' = [n \in 0 .. Longest |-> IF n = Longest THEN 0 ELSE strays[n + 1]]
      /\ UNCHANGED <<items, idx, body, fetches, scripts, disturbances>>
  BY DEF Panel!Tick, Panel!Off
<1>2. delays' \in 0 .. MaxDelays
  BY PanelTyped, PanelBounds DEF Panel!Tick
<1>3. timer' \in -1 .. Longest /\ (timer # -1 => timer' # -1)
  BY <1>1, PanelTyped, PanelBounds
<1>4. strays' \in [0 .. Longest -> Nat]
  <2>1. \A n \in 0 .. Longest : n # Longest => strays[n + 1] \in Nat
    BY PanelTyped, PanelBounds
  <2> QED BY <1>1, <2>1
<1>5. ASSUME NEW n \in 0 .. Longest, strays[n] > 0
      PROVE  \E k \in 0 .. Longest : strays'[k] > 0
  <2>1. n # 0
    BY <1>1, <1>5
  <2>2. n - 1 \in 0 .. Longest /\ n - 1 # Longest /\ (n - 1) + 1 = n
    BY <2>1, PanelBounds
  <2>3. strays'[n - 1] = strays[n]
    BY <1>1, <2>2
  <2> QED BY <1>5, <2>2, <2>3
<1>6. Panel!PanelTypeOK'
  BY <1>1, <1>2, <1>3, <1>4 DEF PanelInv, Panel!PanelTypeOK, Panel!Off
<1>7. Bare'
  BY <1>1 DEF PanelInv, Bare
<1>8. Panel!PanelAlive'
  BY <1>1, <1>3, <1>5 DEF PanelInv, Panel!PanelAlive, Panel!Calling, Panel!Deaf, Panel!InFlight, Panel!Off
<1> QED BY <1>6, <1>7, <1>8 DEF PanelInv

-----------------------------------------------------------------------------
(* What moves the panel on: a step that is no disturbance gives each mover *)
(* up for at most one other.                                               *)

Fetching == UNION {{<<"fetch", x, n>> : n \in 1 .. fetches[x]} : x \in Panel!Items}
Straying == UNION {{<<"stray", d, n>> : n \in 1 .. strays[d]} : d \in 0 .. Longest}
Timing   == IF timer # -1 THEN {<<"timer">>} ELSE {}
Lasting  == IF Panel!Calling THEN {<<"medium">>} ELSE {}

Bounded == IsFiniteSet(Panel!Movers) /\ NoRunawayRotation

LEMMA MoversSplit ==
  /\ Panel!Movers = Fetching \cup Straying \cup Timing \cup Lasting
  /\ Panel!Movers' = Fetching' \cup Straying' \cup Timing' \cup Lasting'
<1>1. Panel!Movers = Fetching \cup Straying \cup Timing \cup Lasting
  BY DEF Panel!Movers, Fetching, Straying, Timing, Lasting, Panel!Off
<1>2. Panel!Movers' = Fetching' \cup Straying' \cup Timing' \cup Lasting'
  BY DEF Panel!Movers, Fetching, Straying, Timing, Lasting, Panel!Off
<1> QED BY <1>1, <1>2

\* The four sorts of movers are apart.
LEMMA Sorts ==
  /\ \A m \in Fetching : m[1] = "fetch"
  /\ \A m \in Straying : m[1] = "stray"
  /\ \A m \in Timing : m[1] = "timer"
  /\ \A m \in Lasting : m[1] = "medium"
BY DEF Fetching, Straying, Timing, Lasting

LEMMA Fewer ==
  ASSUME Bounded, disturbances \in Nat, disturbances' = disturbances,
         Panel!Movers' \subseteq Panel!Movers
  PROVE  Bounded'
<1>1. IsFiniteSet(Panel!Movers') /\ Cardinality(Panel!Movers') <= Cardinality(Panel!Movers)
  BY FS_Subset DEF Bounded
<1>2. Cardinality(Panel!Movers) \in Nat /\ Cardinality(Panel!Movers') \in Nat
  BY <1>1, FS_CardinalityType DEF Bounded
<1> QED BY <1>1, <1>2 DEF Bounded, NoRunawayRotation

LEMMA Traded ==
  ASSUME Bounded, disturbances \in Nat, disturbances' = disturbances,
         NEW a \in Panel!Movers, NEW b,
         Panel!Movers' \subseteq (Panel!Movers \ {a}) \cup {b}
  PROVE  Bounded'
<1> DEFINE rest == Panel!Movers \ {a}
           most == rest \cup {b}
<1>0. IsFiniteSet(Panel!Movers) /\ Cardinality(Panel!Movers) \in Nat
  BY FS_CardinalityType DEF Bounded
<1>1. IsFiniteSet(rest) /\ Cardinality(rest) = Cardinality(Panel!Movers) - 1
  BY <1>0, FS_RemoveElement
<1>2. IsFiniteSet(most) /\ Cardinality(most) <= Cardinality(Panel!Movers)
  <2> HIDE DEF rest
  <2>1. Cardinality(rest) \in Nat
    BY <1>1, FS_CardinalityType
  <2>2. /\ IsFiniteSet(rest \cup {b})
        /\ \/ Cardinality(rest \cup {b}) = Cardinality(rest)
           \/ Cardinality(rest \cup {b}) = Cardinality(rest) + 1
    BY <1>1, FS_AddElement
  <2> QED BY <1>0, <1>1, <2>1, <2>2
<1>3. IsFiniteSet(Panel!Movers') /\ Cardinality(Panel!Movers') <= Cardinality(most)
  BY <1>2, FS_Subset
<1>4. Cardinality(Panel!Movers') \in Nat /\ Cardinality(most) \in Nat
  BY <1>2, <1>3, FS_CardinalityType
<1> HIDE DEF most
<1> QED BY <1>0, <1>2, <1>3, <1>4 DEF Bounded, NoRunawayRotation

LEMMA Added ==
  ASSUME Bounded, disturbances \in Nat, disturbances' = disturbances + 1, NEW b,
         Panel!Movers' \subseteq Panel!Movers \cup {b}
  PROVE  Bounded'
<1> DEFINE most == Panel!Movers \cup {b}
<1>0. IsFiniteSet(Panel!Movers) /\ Cardinality(Panel!Movers) \in Nat
  BY FS_CardinalityType DEF Bounded
<1>1. IsFiniteSet(most) /\ Cardinality(most) <= Cardinality(Panel!Movers) + 1
  BY <1>0, FS_AddElement
<1>2. IsFiniteSet(Panel!Movers') /\ Cardinality(Panel!Movers') <= Cardinality(most)
  BY <1>1, FS_Subset
<1>3. Cardinality(Panel!Movers') \in Nat /\ Cardinality(most) \in Nat
  BY <1>1, <1>2, FS_CardinalityType
<1> HIDE DEF most
<1> QED BY <1>0, <1>1, <1>2, <1>3 DEF Bounded, NoRunawayRotation

LEMMA FetchMoves ==
  ASSUME PanelInv, NEW x \in Panel!Items, fetches[x] > 0,
         fetches' = [fetches EXCEPT ![x] = @ - 1]
  PROVE  /\ <<"fetch", x, fetches[x]>> \in Fetching
         /\ Fetching' \subseteq Fetching \ {<<"fetch", x, fetches[x]>>}
<1>1. fetches \in [Panel!Items -> Nat]
  BY PanelTyped
<1>2. fetches[x] \in 1 .. fetches[x]
  BY <1>1
<1>3. ASSUME NEW y \in Panel!Items, NEW n \in 1 .. fetches'[y]
      PROVE  n \in 1 .. fetches[y] /\ ~ (y = x /\ n = fetches[x])
  BY <1>1, <1>3
<1>4. ASSUME NEW y \in Panel!Items, NEW n \in 1 .. fetches'[y]
      PROVE  <<"fetch", y, n>> \in Fetching \ {<<"fetch", x, fetches[x]>>}
  BY <1>3, <1>4 DEF Fetching
<1> QED BY <1>2, <1>4 DEF Fetching

LEMMA SetTimerMoves ==
  ASSUME PanelInv, NEW n \in 1 .. Longest, Panel!SetTimer(n)
  PROVE  \E b : Straying' \cup Timing' \subseteq Straying \cup Timing \cup {b}
<1>1. CASE timer = -1
  <2>1. strays' = strays
    BY <1>1 DEF Panel!SetTimer, Panel!Off
  <2>2. Straying' = Straying
    BY <2>1 DEF Straying
  <2>3. Timing' \subseteq {<<"timer">>}
    BY DEF Timing
  <2> QED BY <2>2, <2>3
<1>2. CASE timer # -1
  <2> DEFINE b == <<"stray", timer, strays[timer] + 1>>
  <2>1. strays' = [strays EXCEPT ![timer] = @ + 1]
    BY <1>2 DEF Panel!SetTimer, Panel!Off
  <2>2. strays \in [0 .. Longest -> Nat] /\ timer \in 0 .. Longest
    BY <1>2, PanelTyped, PanelBounds
  <2>3. ASSUME NEW d \in 0 .. Longest, NEW k \in 1 .. strays'[d]
        PROVE  k \in 1 .. strays[d] \/ (d = timer /\ k = strays[timer] + 1)
    BY <2>1, <2>2, <2>3
  <2>4. Straying' \subseteq Straying \cup {b}
    BY <2>3 DEF Straying
  <2>5. Timing' \subseteq Timing
    BY <1>2 DEF Timing
  <2> QED BY <2>4, <2>5
<1> QED BY <1>1, <1>2

\* A rotation is one fetch more and no timer; what plays stops calling or goes on.
LEMMA RotateMoves ==
  ASSUME PanelInv, NEW list \in Payloads, list # << >>, NEW i \in Int,
         NEW b \in Panel!Bodies \cup {NoBody}, Panel!Rotate(list, i, b),
         b # NoBody /\ b.calls => Panel!Calling
  PROVE  /\ \E f : Fetching' \subseteq Fetching \cup {f}
         /\ Timing' = {} /\ Lasting' \subseteq Lasting
         /\ ~ (b # NoBody /\ b.calls) => Lasting' = {}
<1>1. /\ timer' = -1 /\ body' = Panel!Stopped(b) /\ list[idx'] \in Panel!Items
      /\ fetches' = [fetches EXCEPT ![list[idx']] = @ + 1]
  BY RotateKeeps
<1>2. fetches \in [Panel!Items -> Nat]
  BY PanelTyped
<1>3. PICK x \in Panel!Items : fetches' = [fetches EXCEPT ![x] = @ + 1]
  BY <1>1
<1>4. ASSUME NEW y \in Panel!Items, NEW n \in 1 .. fetches'[y]
      PROVE  n \in 1 .. fetches[y] \/ (y = x /\ n = fetches[x] + 1)
  BY <1>2, <1>3, <1>4
<1>5. Fetching' \subseteq Fetching \cup {<<"fetch", x, fetches[x] + 1>>}
  BY <1>4 DEF Fetching
<1>6. Panel!Calling' => b # NoBody /\ b.calls
  BY <1>1, StoppedTyped DEF Panel!Calling
<1> QED BY <1>1, <1>5, <1>6 DEF Timing, Lasting

LEMMA AnswerMoves ==
  ASSUME PanelInv, Bounded, NEW x \in Panel!Items, Panel!Answer(x)
  PROVE  Bounded'
<1> DEFINE a == <<"fetch", x, fetches[x]>>
<1>1. fetches[x] > 0 /\ disturbances' = disturbances /\ disturbances \in Nat
  BY PanelTyped DEF Panel!Answer
<1>2. a \in Fetching /\ Fetching' \subseteq Fetching \ {a}
  BY FetchMoves DEF Panel!Answer
<1>3. a \in Panel!Movers /\ a \notin Straying /\ a \notin Timing /\ a \notin Lasting
  BY <1>2, Sorts, MoversSplit
<1> HIDE DEF a
<1>4. ASSUME NEW n \in 1 .. Longest, Panel!SetTimer(n), Lasting' \subseteq Lasting
      PROVE  Bounded'
  <2>1. PICK b : Straying' \cup Timing' \subseteq Straying \cup Timing \cup {b}
    BY <1>4, SetTimerMoves
  <2>2. Panel!Movers' \subseteq (Panel!Movers \ {a}) \cup {b}
    BY <1>2, <1>3, <1>4, <2>1, MoversSplit
  <2> QED BY <1>1, <1>3, <2>2, Traded
<1>5. CASE items = << >>
  <2>1. Panel!SetTimer(Retry) /\ UNCHANGED body
    BY <1>5 DEF Panel!Answer
  <2>2. Lasting' \subseteq Lasting
    BY <2>1 DEF Lasting, Panel!Calling
  <2> QED BY <1>4, <2>1, <2>2, PanelBounds
<1>6. CASE items # << >> /\ Panel!Relies(x)
  <2>1. UNCHANGED <<timer, strays>>
    BY <1>6 DEF Panel!Answer
  <2>2. Straying' = Straying /\ Timing' = Timing /\ Lasting' \subseteq {<<"medium">>}
    BY <2>1 DEF Straying, Timing, Lasting
  <2>3. Panel!Movers' \subseteq (Panel!Movers \ {a}) \cup {<<"medium">>}
    BY <1>2, <1>3, <2>2, MoversSplit
  <2> QED BY <1>1, <1>3, <2>3, Traded
<1>7. CASE items # << >> /\ ~ Panel!Relies(x)
  <2>1. Panel!SetTimer(x.dwell) /\ body' = Panel!BodyOf(x)
    BY <1>7 DEF Panel!Answer
  <2>2. Lasting' \subseteq Lasting
    BY <1>7, <2>1, BodyOfTyped DEF Lasting, Panel!Calling
  <2> QED BY <1>4, <2>1, <2>2, PanelBounds
<1> QED BY <1>5, <1>6, <1>7

LEMMA FetchFailsMoves ==
  ASSUME PanelInv, Bounded, NEW x \in Panel!Items, Panel!FetchFails(x)
  PROVE  Bounded'
<1> DEFINE a == <<"fetch", x, fetches[x]>>
<1>1. /\ fetches[x] > 0 /\ disturbances' = disturbances /\ disturbances \in Nat
      /\ Panel!SetTimer(Retry) /\ UNCHANGED body
  BY PanelTyped DEF Panel!FetchFails
<1>2. a \in Fetching /\ Fetching' \subseteq Fetching \ {a}
  BY FetchMoves DEF Panel!FetchFails
<1>3. a \in Panel!Movers /\ a \notin Straying /\ a \notin Timing /\ a \notin Lasting
  BY <1>2, Sorts, MoversSplit
<1> HIDE DEF a
<1>4. PICK b : Straying' \cup Timing' \subseteq Straying \cup Timing \cup {b}
  BY <1>1, SetTimerMoves, PanelBounds
<1>5. Lasting' = Lasting
  BY <1>1 DEF Lasting, Panel!Calling
<1>6. Panel!Movers' \subseteq (Panel!Movers \ {a}) \cup {b}
  BY <1>2, <1>3, <1>4, <1>5, MoversSplit
<1> QED BY <1>1, <1>3, <1>6, Traded

LEMMA TimerMoves == ASSUME PanelInv, Bounded, Panel!TimerFires PROVE Bounded'
<1> DEFINE a == <<"timer">>
<1>1. /\ timer = 0 /\ disturbances' = disturbances /\ disturbances \in Nat
      /\ strays' = strays
  BY PanelTyped DEF Panel!TimerFires
<1>2. a \in Panel!Movers /\ a \notin Fetching /\ a \notin Straying /\ a \notin Lasting
  BY <1>1, Sorts, MoversSplit DEF Timing
<1>3. Straying' = Straying
  BY <1>1 DEF Straying
<1>4. CASE items = << >>
  <2>1. timer' = -1 /\ UNCHANGED <<body, fetches>>
    BY <1>4 DEF Panel!TimerFires, Panel!Off
  <2>2. Fetching' = Fetching /\ Timing' = {} /\ Lasting' = Lasting
    BY <2>1 DEF Fetching, Timing, Lasting, Panel!Calling
  <2> QED BY <1>1, <1>3, <2>2, MoversSplit, Fewer
<1>5. CASE items # << >>
  <2>1. Panel!Rotate(items, idx + 1, body) /\ idx + 1 \in Int
    BY <1>5, PanelTyped DEF Panel!TimerFires
  <2>2. /\ \E f : Fetching' \subseteq Fetching \cup {f}
        /\ Timing' = {} /\ Lasting' \subseteq Lasting
    BY <1>5, <2>1, PanelTyped, RotateMoves DEF Panel!Calling
  <2>3. PICK f : Fetching' \subseteq Fetching \cup {f}
    BY <2>2
  <2> HIDE DEF a
  <2>4. Panel!Movers' \subseteq (Panel!Movers \ {a}) \cup {f}
    BY <1>2, <1>3, <2>2, <2>3, MoversSplit
  <2> QED BY <1>1, <1>2, <2>4, Traded
<1> QED BY <1>4, <1>5

LEMMA StrayMoves == ASSUME PanelInv, Bounded, Panel!StrayFires PROVE Bounded'
<1> DEFINE a == <<"stray", 0, strays[0]>>
<1>1. /\ strays[0] > 0 /\ disturbances' = disturbances /\ disturbances \in Nat
      /\ strays' = [strays EXCEPT ![0] = @ - 1]
      /\ strays \in [0 .. Longest -> Nat] /\ 0 \in 0 .. Longest
  BY PanelTyped, PanelBounds DEF Panel!StrayFires
<1>2. a \in Straying
  <2>1. strays[0] \in 1 .. strays[0]
    BY <1>1
  <2> QED BY <1>1, <2>1 DEF Straying
<1>3. Straying' \subseteq Straying \ {a}
  <2>1. ASSUME NEW d \in 0 .. Longest, NEW n \in 1 .. strays'[d]
        PROVE  n \in 1 .. strays[d] /\ ~ (d = 0 /\ n = strays[0])
    BY <1>1, <2>1
  <2>2. ASSUME NEW d \in 0 .. Longest, NEW n \in 1 .. strays'[d]
        PROVE  <<"stray", d, n>> \in Straying \ {a}
    BY <2>1, <2>2 DEF Straying
  <2> QED BY <2>2 DEF Straying
<1>4. a \in Panel!Movers /\ a \notin Fetching /\ a \notin Timing /\ a \notin Lasting
  BY <1>2, Sorts, MoversSplit
<1> HIDE DEF a
<1>5. CASE items = << >>
  <2>1. UNCHANGED <<timer, body, fetches>>
    BY <1>5 DEF Panel!StrayFires
  <2>2. Fetching' = Fetching /\ Timing' = Timing /\ Lasting' = Lasting
    BY <2>1 DEF Fetching, Timing, Lasting, Panel!Calling
  <2> QED BY <1>1, <1>3, <2>2, MoversSplit, Fewer
<1>6. CASE items # << >>
  <2>1. Panel!Rotate(items, idx + 1, body) /\ idx + 1 \in Int
    BY <1>6, PanelTyped DEF Panel!StrayFires
  <2>2. /\ \E f : Fetching' \subseteq Fetching \cup {f}
        /\ Timing' = {} /\ Lasting' \subseteq Lasting
    BY <1>6, <2>1, PanelTyped, RotateMoves DEF Panel!Calling
  <2>3. PICK f : Fetching' \subseteq Fetching \cup {f}
    BY <2>2
  <2>4. Panel!Movers' \subseteq (Panel!Movers \ {a}) \cup {f}
    BY <1>3, <1>4, <2>2, <2>3, MoversSplit
  <2> QED BY <1>1, <1>4, <2>4, Traded
<1> QED BY <1>5, <1>6

LEMMA MediumMoves ==
  ASSUME PanelInv, Bounded, NEW medium, Panel!MediumEnds(medium)
  PROVE  Bounded'
<1> DEFINE a == <<"medium">>
           b == [body EXCEPT !.calls = FALSE]
<1>1. /\ body # NoBody /\ Panel!Calling /\ disturbances' = disturbances
      /\ disturbances \in Nat /\ strays' = strays
      /\ Panel!Rotate(items, idx + 1, b) /\ idx + 1 \in Int
  BY PanelTyped DEF Panel!MediumEnds, Panel!Calling
<1>2. a \in Panel!Movers /\ a \notin Fetching /\ a \notin Straying /\ a \notin Timing
  BY <1>1, Sorts, MoversSplit DEF Lasting
<1>3. Straying' = Straying
  BY <1>1 DEF Straying
<1>4. b \in Panel!Bodies /\ b.calls = FALSE /\ items # << >>
  BY <1>1, CalledTyped
<1> HIDE DEF a, b
<1>5. (\E f : Fetching' \subseteq Fetching \cup {f}) /\ Timing' = {} /\ Lasting' = {}
  BY <1>1, <1>4, PanelTyped, RotateMoves
<1>6. PICK f : Fetching' \subseteq Fetching \cup {f}
  BY <1>5
<1>7. Panel!Movers' \subseteq (Panel!Movers \ {a}) \cup {f}
  BY <1>2, <1>3, <1>5, <1>6, MoversSplit
<1> QED BY <1>1, <1>2, <1>7, Traded

LEMMA SkipMoves ==
  ASSUME PanelInv, Bounded, NEW dir \in {-1, 1}, Panel!Skip(dir)
  PROVE  Bounded'
<1>1. /\ items # << >> /\ disturbances' = disturbances + 1 /\ disturbances \in Nat
      /\ strays' = strays /\ Panel!Rotate(items, idx + dir, body) /\ idx + dir \in Int
  BY PanelTyped DEF Panel!Skip, Panel!Disturb
<1>2. (\E f : Fetching' \subseteq Fetching \cup {f}) /\ Timing' = {} /\ Lasting' \subseteq Lasting
  <2>1. items \in Payloads /\ body \in Panel!Bodies \cup {NoBody}
    BY PanelTyped
  <2>2. body # NoBody /\ body.calls => Panel!Calling
    BY DEF Panel!Calling
  <2>3. /\ \E f : Fetching' \subseteq Fetching \cup {f}
        /\ Timing' = {} /\ Lasting' \subseteq Lasting
    BY <1>1, <2>1, <2>2, RotateMoves
  <2> QED BY <2>3
<1>3. PICK f : Fetching' \subseteq Fetching \cup {f}
  BY <1>2
<1>4. Straying' = Straying
  BY <1>1 DEF Straying
<1>5. Panel!Movers' \subseteq Panel!Movers \cup {f}
  BY <1>2, <1>3, <1>4, MoversSplit
<1> QED BY <1>1, <1>5, Added

LEMMA PipEventMoves ==
  ASSUME PanelInv, Bounded, NEW list \in Payloads, Panel!PipEvent(list)
  PROVE  Bounded'
<1>1. /\ disturbances' = disturbances + 1 /\ disturbances \in Nat /\ strays' = strays
  BY PanelTyped DEF Panel!PipEvent, Panel!PipStart, Panel!Disturb
<1>2. Straying' = Straying
  BY <1>1 DEF Straying
<1>3. (\E f : Fetching' \subseteq Fetching \cup {f}) /\ Timing' = {} /\ Lasting' \subseteq Lasting
  <2>1. CASE list = << >>
    <3>1. timer' = -1 /\ body' = NoBody /\ fetches' = fetches
      BY <2>1 DEF Panel!PipEvent, Panel!PipStart, Panel!Off
    <3> QED BY <3>1 DEF Fetching, Timing, Lasting, Panel!Calling
  <2>2. CASE list # << >>
    <3>1. Panel!Rotate(list, 1, body)
      BY <2>2 DEF Panel!PipEvent, Panel!PipStart
    <3>2. body \in Panel!Bodies \cup {NoBody} /\ 1 \in Int
      BY PanelTyped
    <3>3. body # NoBody /\ body.calls => Panel!Calling
      BY DEF Panel!Calling
    <3>4. /\ \E f : Fetching' \subseteq Fetching \cup {f}
          /\ Timing' = {} /\ Lasting' \subseteq Lasting
      BY <2>2, <3>1, <3>2, <3>3, RotateMoves
    <3> QED BY <3>4
  <2> QED BY <2>1, <2>2
<1>4. PICK f : Fetching' \subseteq Fetching \cup {f}
  BY <1>3
<1>5. Panel!Movers' \subseteq Panel!Movers \cup {f}
  BY <1>2, <1>3, <1>4, MoversSplit
<1> QED BY <1>1, <1>5, Added

LEMMA ScriptMoves ==
  ASSUME PanelInv, Bounded, NEW medium, Panel!ScriptRuns(medium)
  PROVE  Bounded'
<1>1. UNCHANGED <<body, fetches, timer, strays, disturbances>>
  BY DEF Panel!ScriptRuns, Panel!panel
<1>2. Fetching' = Fetching /\ Straying' = Straying /\ Timing' = Timing /\ Lasting' = Lasting
  BY <1>1 DEF Fetching, Straying, Timing, Lasting, Panel!Calling
<1> QED BY <1>1, <1>2, MoversSplit, PanelTyped, Fewer

\* Time shifts the strays; nobody is lost and nobody comes.
LEMMA TickMoves == ASSUME PanelInv, Bounded, Panel!Tick PROVE Bounded'
<1> DEFINE f == [m \in Panel!Movers |->
                   IF m \in Straying THEN <<"stray", m[2] - 1, m[3]>> ELSE m]
<1>1. /\ timer # 0 /\ strays[0] = 0
      /\ timer' = IF timer = -1 THEN -1 ELSE timer - 1
      /\ strays' = [n \in 0 .. Longest |-> IF n = Longest THEN 0 ELSE strays[n + 1]]
      /\ UNCHANGED <<body, fetches, disturbances>>
      /\ disturbances \in Nat /\ timer \in -1 .. Longest
      /\ strays \in [0 .. Longest -> Nat] /\ Longest \in Nat
  BY PanelTyped, PanelBounds DEF Panel!Tick, Panel!Off
<1>2. Fetching' = Fetching /\ Lasting' = Lasting
  BY <1>1 DEF Fetching, Lasting, Panel!Calling
<1>3. Timing' = Timing
  BY <1>1 DEF Timing
<1>4. ASSUME NEW m \in Straying
      PROVE  <<"stray", m[2] - 1, m[3]>> \in Straying'
  <2>0. PICK d \in 0 .. Longest : \E n \in 1 .. strays[d] : m = <<"stray", d, n>>
    BY DEF Straying
  <2>1. PICK n \in 1 .. strays[d] : m = <<"stray", d, n>>
    BY <2>0
  <2>2. d # 0
    BY <1>1, <2>1
  <2>3. d - 1 \in 0 .. Longest /\ d - 1 # Longest /\ (d - 1) + 1 = d
    BY <1>1, <2>2
  <2>4. strays'[d - 1] = strays[d]
    BY <1>1, <2>3
  <2> QED BY <2>1, <2>3, <2>4 DEF Straying
<1>5. ASSUME NEW m \in Straying'
      PROVE  \E s \in Straying : <<"stray", s[2] - 1, s[3]>> = m
  <2>0. PICK d \in 0 .. Longest : \E n \in 1 .. strays'[d] : m = <<"stray", d, n>>
    BY DEF Straying
  <2>1. PICK n \in 1 .. strays'[d] : m = <<"stray", d, n>>
    BY <2>0
  <2>2. d # Longest
    BY <1>1, <2>1
  <2>3. d + 1 \in 0 .. Longest /\ strays'[d] = strays[d + 1] /\ (d + 1) - 1 = d
    BY <1>1, <2>2
  <2>4. <<"stray", d + 1, n>> \in Straying
    BY <2>1, <2>3 DEF Straying
  <2> QED BY <2>1, <2>3, <2>4
<1>6. f \in [Panel!Movers -> Panel!Movers']
  BY <1>2, <1>3, <1>4, MoversSplit
<1>7. \A m \in Panel!Movers' : \E s \in Panel!Movers : f[s] = m
  <2> SUFFICES ASSUME NEW m \in Panel!Movers' PROVE \E s \in Panel!Movers : f[s] = m
    OBVIOUS
  <2>1. CASE m \in Straying'
    <3>1. PICK s \in Straying : <<"stray", s[2] - 1, s[3]>> = m
      BY <1>5, <2>1
    <3> QED BY <3>1, MoversSplit
  <2>2. CASE m \notin Straying'
    <3>1. m \in Fetching \cup Timing \cup Lasting
      BY <1>2, <1>3, <2>2, MoversSplit
    <3>2. m \in Panel!Movers /\ m \notin Straying
      BY <3>1, Sorts, MoversSplit
    <3> QED BY <3>2
  <2> QED BY <2>1, <2>2
<1> HIDE DEF f
<1>8. f \in Surjection(Panel!Movers, Panel!Movers')
  BY <1>6, <1>7 DEF Surjection
<1>9. /\ IsFiniteSet(Panel!Movers')
      /\ Cardinality(Panel!Movers') <= Cardinality(Panel!Movers)
  BY <1>8, FS_Surjection DEF Bounded
<1>10. Cardinality(Panel!Movers) \in Nat /\ Cardinality(Panel!Movers') \in Nat
  BY <1>9, FS_CardinalityType DEF Bounded
<1> QED BY <1>1, <1>9, <1>10 DEF Bounded, NoRunawayRotation

-----------------------------------------------------------------------------
(* The two together.                                                       *)

Inv == place \in {"stage", "panel"} /\ ShowInv /\ PanelInv /\ Awaited /\ Bounded

LEMMA InvInitially == Init => Inv
<1> SUFFICES ASSUME Init PROVE Inv
  OBVIOUS
<1>1. place \in {"stage", "panel"} /\ ShowInv /\ PanelInv
  BY ShowInitially, PanelInitially DEF Init
<1>2. body = NoBody /\ timer = -1 /\ disturbances = 0
  BY DEF Init, Panel!Init, Panel!Off
<1>3. Awaited
  BY <1>2 DEF Awaited
<1>4. Fetching = {} /\ Straying = {} /\ Timing = {} /\ Lasting = {}
  <2>1. (\A x \in Panel!Items : fetches[x] = 0) /\ (\A d \in 0 .. Longest : strays[d] = 0)
    BY DEF Init, Panel!Init
  <2> QED BY <1>2, <2>1 DEF Fetching, Straying, Timing, Lasting, Panel!Calling
<1>5. Panel!Movers = {}
  BY <1>4, MoversSplit
<1>6. Bounded
  BY <1>2, <1>5, FS_EmptySet DEF Bounded, NoRunawayRotation
<1> QED BY <1>1, <1>3, <1>6 DEF Inv

LEMMA ShowStays ==
  ASSUME ShowInv, UNCHANGED showVars
  PROVE  ShowInv'
<1>1. scroll' \in 0 .. Interval /\ focused' \in BOOLEAN /\ keys' \in 0 .. MaxKeys
  BY DEF ShowInv, Show!ShowTypeOK, showVars
<1> QED BY <1>1, AsideKeeps DEF showVars

LEMMA PanelStays ==
  ASSUME PanelInv, Bounded, UNCHANGED panelVars
  PROVE  PanelInv' /\ Bounded'
<1>1. PanelInv'
  BY DEF PanelInv, Panel!PanelTypeOK, Bare, Panel!PanelAlive, Panel!Calling,
    Panel!Deaf, Panel!InFlight, panelVars
<1>2. Fetching' = Fetching /\ Straying' = Straying /\ Timing' = Timing /\ Lasting' = Lasting
  BY DEF Fetching, Straying, Timing, Lasting, Panel!Calling, panelVars
<1>3. Panel!Movers' = Panel!Movers /\ disturbances' = disturbances
  BY <1>2, MoversSplit DEF panelVars
<1> QED BY <1>1, <1>3, PanelTyped, Fewer

\* The panel moves on by itself: a slide show it waits for is the one it had.
LEMMA AwaitedStays ==
  ASSUME Inv, UNCHANGED <<place, showVars>>,
         body' # NoBody => /\ body # NoBody /\ body'.medium = body.medium
                           /\ body'.calls => body.calls
  PROVE  Awaited'
BY DEF Inv, Awaited, InPanel, Show!Slides, showVars

LEMMA AnswersKeeps ==
  ASSUME Inv, NEW x \in Panel!Items, Answers(x)
  PROVE  Inv'
<1>1. Panel!Answer(x) /\ place' = place
  BY DEF Answers
<1>2. PanelInv' /\ Bounded'
  BY <1>1, AnswerKeeps, AnswerMoves DEF Inv
<1>3. CASE items = << >>
  <2>1. UNCHANGED showVars /\ UNCHANGED body
    BY <1>3 DEF Answers, Panel!Answer
  <2> QED BY <1>1, <1>2, <2>1, ShowStays, AwaitedStays DEF Inv
<1>4. CASE items # << >> /\ body'.medium = "slides" /\ "slides" \in scripts
  <2>1. PICK k \in {"page", "width"} : Show!Mount(k, body'.calls)
    BY <1>4 DEF Answers
  <2>2. body'.calls \in BOOLEAN
    BY <1>1, <1>4, BodyOfTyped DEF Panel!Answer
  <2>3. ShowInv'
    BY <2>1, <2>2, MountKeeps DEF Inv
  <2>4. Awaited'
    BY <2>1 DEF Awaited, Show!Mount, Show!Slides
  <2> QED BY <1>1, <1>2, <2>3, <2>4 DEF Inv
<1>5. CASE items # << >> /\ ~ (body'.medium = "slides" /\ "slides" \in scripts)
  <2>1. Show!Mount("none", FALSE)
    BY <1>5 DEF Answers
  <2>2. body'.calls => body'.medium \in scripts
    BY <1>1, <1>5, BodyOfTyped DEF Panel!Answer
  <2>3. ShowInv'
    BY <2>1, MountKeeps DEF Inv
  <2>4. Awaited'
    BY <1>5, <2>2 DEF Awaited
  <2> QED BY <1>1, <1>2, <2>3, <2>4 DEF Inv
<1> QED BY <1>3, <1>4, <1>5

LEMMA FailureKeeps ==
  ASSUME Inv, NEW x \in Panel!Items, FetchFails(x)
  PROVE  Inv'
<1>1. Panel!FetchFails(x) /\ UNCHANGED <<place, showVars>> /\ UNCHANGED body
  BY DEF FetchFails, Panel!FetchFails
<1> QED BY <1>1, FetchFailsKeeps, FetchFailsMoves, ShowStays, AwaitedStays DEF Inv

\* What plays in the panel, after a rotation that stops players.
LEMMA StoppedPlays ==
  ASSUME PanelInv, body' = Panel!Stopped(body)
  PROVE  body' # NoBody => /\ body # NoBody /\ body'.medium = body.medium
                           /\ body'.calls => body.calls
BY PanelTyped, StoppedTyped

LEMMA PanelTimerKeeps == ASSUME Inv, PanelTimer PROVE Inv'
<1>1. Panel!TimerFires \/ Panel!StrayFires
  BY DEF PanelTimer
<1>2. UNCHANGED <<place, showVars>>
  BY DEF PanelTimer
<1>3. PanelInv' /\ Bounded'
  BY <1>1, TimerFiresKeeps, StrayFiresKeeps, TimerMoves, StrayMoves DEF Inv
<1>4. body' = body \/ body' = Panel!Stopped(body)
  BY <1>1 DEF Panel!TimerFires, Panel!StrayFires, Panel!Rotate
<1> QED BY <1>2, <1>3, <1>4, ShowStays, AwaitedStays, StoppedPlays DEF Inv

\* After its medium ended the panel waits for none.
LEMMA EndedPlays ==
  ASSUME PanelInv, NEW medium, Panel!MediumEnds(medium)
  PROVE  body' # NoBody => ~ body'.calls
<1> DEFINE b == [body EXCEPT !.calls = FALSE]
<1>1. body # NoBody /\ body' = Panel!Stopped(b)
  BY DEF Panel!MediumEnds, Panel!Rotate
<1>2. b \in Panel!Bodies /\ b.calls = FALSE
  BY <1>1, CalledTyped
<1> HIDE DEF b
<1> QED BY <1>1, <1>2, StoppedTyped

LEMMA VideoEndsKeeps == ASSUME Inv, VideoEnds PROVE Inv'
<1>1. Panel!MediumEnds("video") /\ UNCHANGED <<place, showVars>>
  BY DEF VideoEnds
<1>2. Awaited'
  BY <1>1, EndedPlays DEF Inv, Awaited
<1> QED BY <1>1, <1>2, MediumEndsKeeps, MediumMoves, ShowStays DEF Inv

LEMMA SkippedKeeps == ASSUME Inv, Skip PROVE Inv'
<1>1. PICK dir \in {-1, 1} : Panel!Skip(dir)
  BY DEF Skip
<1>2. UNCHANGED <<place, showVars>>
  BY DEF Skip
<1>3. body' = Panel!Stopped(body)
  BY <1>1 DEF Panel!Skip, Panel!Rotate
<1> QED BY <1>1, <1>2, <1>3, SkipKeeps, SkipMoves, ShowStays, AwaitedStays, StoppedPlays
  DEF Inv

LEMMA ListChangesKeeps == ASSUME Inv, ListChanges PROVE Inv'
<1>1. PICK list \in Payloads :
        /\ Panel!PipEvent(list)
        /\ IF list = << >> THEN Show!Mount("none", FALSE) ELSE UNCHANGED showVars
        /\ UNCHANGED place
  BY DEF ListChanges
<1>2. PanelInv' /\ Bounded'
  BY <1>1, PipEventKeeps, PipEventMoves DEF Inv
<1>3. CASE list = << >>
  <2>1. body' = NoBody
    BY <1>1, <1>3 DEF Panel!PipEvent, Panel!PipStart
  <2>2. ShowInv' /\ Awaited'
    BY <1>1, <1>3, <2>1, MountKeeps DEF Inv, Awaited
  <2> QED BY <1>1, <1>2, <2>2 DEF Inv
<1>4. CASE list # << >>
  <2>1. body' = Panel!Stopped(body)
    BY <1>1, <1>4 DEF Panel!PipEvent, Panel!PipStart, Panel!Rotate
  <2> QED BY <1>1, <1>2, <1>4, <2>1, ShowStays, AwaitedStays, StoppedPlays DEF Inv
<1> QED BY <1>3, <1>4

LEMMA ShowEndsKeeps == ASSUME Inv, ShowEnds PROVE Inv'
<1>1. Show!PlaysToEnd /\ UNCHANGED place
  BY DEF ShowEnds
<1>2. ShowInv'
  BY <1>1, PlaysToEndKeeps DEF Inv
<1>3. CASE InPanel
  <2>1. Panel!MediumEnds("slides")
    BY <1>3 DEF ShowEnds
  <2>2. Awaited'
    BY <2>1, EndedPlays DEF Inv, Awaited
  <2> QED BY <1>1, <1>2, <2>1, <2>2, MediumEndsKeeps, MediumMoves DEF Inv
<1>4. CASE ~ InPanel
  <2>1. UNCHANGED panelVars
    BY <1>4 DEF ShowEnds
  <2>2. Awaited'
    BY <1>1, <1>4 DEF Awaited, InPanel
  <2> QED BY <1>1, <1>2, <2>1, <2>2, PanelStays DEF Inv
<1> QED BY <1>3, <1>4

\* The show goes on for itself, and its timer is not given up.
LEMMA ShowAlone ==
  ASSUME Inv, ShowInv', UNCHANGED <<place, panelVars>>,
         OnStage \/ (/\ ends' = ends /\ kind' = kind
                     /\ doc = "loading" /\ Show!Slides =>
                          doc' = "failed" \/ slideTimer' # -1
                     /\ doc = "failed" => doc' = "failed"
                     /\ slideTimer # -1 => slideTimer' # -1)
  PROVE  Inv'
<1>1. PanelInv' /\ Bounded'
  BY PanelStays DEF Inv
<1>2. Awaited'
  BY DEF Inv, Awaited, InPanel, OnStage, Show!Slides, panelVars
<1> QED BY <1>1, <1>2 DEF Inv

LEMMA LoadsKeeps == ASSUME Inv, Loads PROVE Inv'
<1>1. CASE Show!DocLoads
  <2>1. ShowInv'
    BY <1>1, DocLoadsKeeps DEF Inv
  <2>2. /\ ends' = ends /\ kind' = kind /\ doc = "loading"
        /\ Show!Slides => slideTimer' # -1
    BY <1>1, Bounds DEF Show!DocLoads
  <2>3. slideTimer = -1
    BY <2>2 DEF Inv, ShowInv, Quiet
  <2> QED BY <2>1, <2>2, <2>3, ShowAlone DEF Loads
<1>2. CASE Show!DocFails
  <2>1. ShowInv'
    BY <1>2, DocFailsKeeps DEF Inv
  <2> QED BY <1>2, <2>1, ShowAlone DEF Loads, Show!DocFails
<1> QED BY <1>1, <1>2 DEF Loads

\* The widgets of the stage are set up when the module runs.
LEMMA ScriptRunsKeeps ==
  ASSUME Inv, NEW medium \in Panel!Scripts, ScriptRuns(medium)
  PROVE  Inv'
<1>1. Panel!ScriptRuns(medium) /\ place' = place /\ body' = body
  BY DEF ScriptRuns, Panel!ScriptRuns, Panel!panel
<1>2. PanelInv' /\ Bounded'
  BY <1>1, ScriptKeeps, ScriptMoves DEF Inv
<1>3. CASE medium = "slides" /\ OnStage
  <2>1. PICK k \in {"document", "page", "width"}, e \in BOOLEAN : Show!Mount(k, e)
    BY <1>3 DEF ScriptRuns
  <2>2. ShowInv'
    BY <2>1, MountKeeps DEF Inv
  <2>3. Awaited'
    BY <1>1, <1>3 DEF Awaited, InPanel, OnStage
  <2> QED BY <1>1, <1>2, <2>2, <2>3 DEF Inv
<1>4. CASE ~ (medium = "slides" /\ OnStage)
  <2>1. UNCHANGED showVars
    BY <1>4 DEF ScriptRuns
  <2> QED BY <1>1, <1>2, <2>1, ShowStays, AwaitedStays DEF Inv
<1> QED BY <1>3, <1>4

LEMMA DrawsKeeps == ASSUME Inv, Draws PROVE Inv'
<1>1. ShowInv'
  BY CanvasMadeKeeps, DrawnKeeps, DrawFailsKeeps DEF Inv, Draws
<1>2. UNCHANGED <<ends, kind, doc, slideTimer>> /\ doc # "loading"
  <2>1. Show!Drawing
    BY DEF Draws, Show!CanvasMade, Show!Drawn, Show!DrawFails, Show!Drawing, Show!Idle
  <2>2. doc = "ready"
    BY <2>1 DEF Inv, ShowInv, Quiet, Show!Drawing
  <2> QED BY <2>2 DEF Draws, Show!CanvasMade, Show!Drawn, Show!DrawFails
<1> QED BY <1>1, <1>2, ShowAlone DEF Draws

LEMMA ShowTimerKeeps == ASSUME Inv, ShowTimer PROVE Inv'
<1>1. ShowInv'
  BY TimerWaitsKeeps, TimerTurnsKeeps DEF Inv, ShowTimer
<1>2. UNCHANGED <<ends, kind, doc>> /\ slideTimer' # -1
  BY Bounds DEF ShowTimer, Show!TimerWaits, Show!TimerTurns
<1> QED BY <1>1, <1>2, ShowAlone DEF ShowTimer

LEMMA ByHandKeeps == ASSUME Inv, Driven PROVE Inv'
<1>1. ShowInv'
  BY DrivenKeeps, UnfocusKeeps DEF Inv, Driven
<1> QED BY <1>1, ShowAlone DEF Driven

LEMMA TickKeeps == ASSUME Inv, Tick PROVE Inv'
<1>1. Show!Tick /\ Panel!Tick /\ UNCHANGED place
  BY DEF Tick
<1>2. ShowInv' /\ PanelInv' /\ Bounded'
  BY <1>1, ShowTickKeeps, PanelTickKeeps, TickMoves DEF Inv
<1>3. /\ UNCHANGED <<ends, kind, doc, body>>
      /\ slideTimer # -1 => slideTimer' # -1
  <2>1. slideTimer \in -1 .. Interval /\ slideTimer # 0
    BY <1>1 DEF Inv, ShowInv, Show!ShowTypeOK, Show!Off, Show!Tick
  <2>2. slideTimer' = IF slideTimer = -1 THEN -1 ELSE slideTimer - 1
    BY <1>1 DEF Show!Tick, Show!Off
  <2>3. slideTimer # -1 => slideTimer' # -1
    BY <2>1, <2>2, Bounds
  <2> QED BY <1>1, <2>3 DEF Show!Tick, Panel!Tick
<1>4. Awaited'
  BY <1>1, <1>3 DEF Inv, Awaited, InPanel, Show!Slides
<1> QED BY <1>1, <1>2, <1>4 DEF Inv

LEMMA InvPreserved == Inv /\ [Next]_vars => Inv'
<1> SUFFICES ASSUME Inv, [Next]_vars PROVE Inv'
  OBVIOUS
<1>1. CASE UNCHANGED vars
  BY <1>1, ShowStays, PanelStays, AwaitedStays DEF vars, Inv, panelVars
<1>2. ASSUME NEW x \in Panel!Items, Answers(x) \/ FetchFails(x) PROVE Inv'
  BY <1>2, AnswersKeeps, FailureKeeps
<1>5. ASSUME NEW medium \in Panel!Scripts, ScriptRuns(medium) PROVE Inv'
  BY <1>5, ScriptRunsKeeps
<1>3. CASE PanelTimer \/ VideoEnds \/ Skip \/ ListChanges
  BY <1>3, PanelTimerKeeps, VideoEndsKeeps, SkippedKeeps, ListChangesKeeps
<1>4. CASE ShowEnds \/ Loads \/ Draws \/ ShowTimer \/ Driven \/ Tick
  BY <1>4, ShowEndsKeeps, LoadsKeeps, DrawsKeeps, ShowTimerKeeps, ByHandKeeps, TickKeeps
<1> QED BY <1>1, <1>2, <1>3, <1>4, <1>5 DEF Next

LEMMA SpecInv == Spec => []Inv
BY InvInitially, InvPreserved, PTL DEF Spec

-----------------------------------------------------------------------------
(* Theorems.                                                               *)

\* The variables have their types, for every document and every set of lists.
THEOREM TypesOfMedia == Spec => []TypeOK
<1>1. Inv => TypeOK
  BY DEF Inv, ShowInv, PanelInv, TypeOK
<1> QED BY SpecInv, <1>1, PTL

\* The badge of a slide show names the page that is shown or being drawn.
THEOREM BadgeTellsTheTruth == Spec => []LabelTrue
<1>1. Inv => LabelTrue
  BY DEF Inv, ShowInv, Shown, OnSheet, LabelTrue, Show!LabelTrue
<1> QED BY SpecInv, <1>1, PTL

\* The timer turns only pages that had their whole time and were seen, whatever keys
\* are pressed: a drawing is over before the page it was begun with has had its time.
THEOREM TimerIsFair == Spec => TurnsAreDue
<1>1. ASSUME Inv, Show!TimerTurns
      PROVE  /\ since = Interval
             /\ missed \/ (canvas # << >> /\ canvas[1].page = page)
  <2>1. slideTimer = 0 /\ since \in 0 .. Interval /\ age \in 0 .. MaxDraw
    BY <1>1 DEF Show!TimerTurns, Inv, ShowInv, Show!ShowTypeOK
  <2>2. Show!Slides /\ doc = "ready" /\ since = Interval
    BY <1>1, <2>1, Bounds DEF Inv, ShowInv, Timed, Quiet
  <2>3. ~ (age >= since)
    BY <2>1, <2>2, Bounds
  <2> QED BY <1>1, <2>2, <2>3 DEF Inv, ShowInv, Shown, OnSheet
<1>2. Inv /\ [Next]_vars =>
        [Show!TimerTurns => /\ since = Interval
                            /\ missed \/ (canvas # << >> /\ canvas[1].page = page)]_vars
  BY <1>1
<1> QED BY SpecInv, <1>2, PTL DEF Spec, TurnsAreDue

\* A panel with items always has something that moves it on, unless its body came before
\* the script of its medium and never heard of the callback; the slide show it waits for
\* was given the callback and will end.
THEOREM PanelGoesOn == Spec => []PanelAlive
<1>1. Inv => PanelAlive
  BY DEF Inv, PanelInv, Awaited, PanelAlive, Off, Panel!Off
<1> QED BY SpecInv, <1>1, PTL

\* However fetches overlap and timers lose their handle, a panel has no more things
\* that move it on than it was disturbed.
THEOREM RotationIsBounded == Spec => []NoRunawayRotation
<1>1. Inv => NoRunawayRotation
  BY DEF Inv, Bounded
<1> QED BY SpecInv, <1>1, PTL

-----------------------------------------------------------------------------
(* The parts of the composition behave as they do alone.                   *)

\* The widget, wherever it is: it is mounted and removed by the panel, and does nothing
\* else but what SlideShow says.
THEOREM ShowPlaysAsAlone == Spec => Show!Spec
<1>1. Init => Show!Init
  BY DEF Init
<1>2. Inv /\ [Next]_vars => [Show!Next]_(Show!vars)
  <2> SUFFICES ASSUME Inv, [Next]_vars PROVE [Show!Next]_(Show!vars)
    OBVIOUS
  <2>1. UNCHANGED showVars => [Show!Next]_(Show!vars)
    BY DEF showVars, Show!vars, Show!state
  <2>2. ASSUME NEW k \in {"none", "document", "page", "width"}, NEW e \in BOOLEAN,
               Show!Mount(k, e)
        PROVE  Show!Next
    BY <2>2 DEF Show!Next
  <2>3. ASSUME NEW x \in Panel!Items, Answers(x)
        PROVE  [Show!Next]_(Show!vars)
    <3>1. CASE items = << >>
      BY <2>1, <2>3, <3>1 DEF Answers
    <3>2. CASE items # << >> /\ body'.medium = "slides" /\ "slides" \in scripts
      <4>1. PICK k \in {"page", "width"} : Show!Mount(k, body'.calls)
        BY <2>3, <3>2 DEF Answers
      <4>2. body'.calls \in BOOLEAN
        BY <2>3, <3>2, BodyOfTyped DEF Answers, Panel!Answer
      <4> QED BY <2>2, <4>1, <4>2
    <3>3. CASE items # << >> /\ ~ (body'.medium = "slides" /\ "slides" \in scripts)
      <4>1. Show!Mount("none", FALSE)
        BY <2>3, <3>3 DEF Answers
      <4> QED BY <2>2, <4>1
    <3> QED BY <3>1, <3>2, <3>3
  <2>4. ASSUME NEW x \in Panel!Items, FetchFails(x)
        PROVE  [Show!Next]_(Show!vars)
    BY <2>1, <2>4 DEF FetchFails
  <2>5. CASE PanelTimer \/ VideoEnds \/ Skip
    BY <2>1, <2>5 DEF PanelTimer, VideoEnds, Skip
  <2>6. CASE ListChanges
    <3>1. Show!Mount("none", FALSE) \/ UNCHANGED showVars
      BY <2>6 DEF ListChanges
    <3> QED BY <2>1, <2>2, <3>1
  <2>7. CASE ShowEnds
    BY <2>7 DEF ShowEnds, Show!Next
  <2>8. CASE Loads \/ Draws \/ ShowTimer
    BY <2>8 DEF Loads, Draws, ShowTimer, Show!Next, Show!Draw
  <2>9. CASE Driven
    BY <2>9 DEF Driven, Show!Next
  <2>10. CASE Tick
    BY <2>10 DEF Tick, Show!Next
  <2>11. CASE UNCHANGED vars
    BY <2>1, <2>11 DEF vars
  <2>12. ASSUME NEW medium \in Panel!Scripts, ScriptRuns(medium)
         PROVE  [Show!Next]_(Show!vars)
    <3>1. CASE medium = "slides" /\ OnStage
      <4>1. PICK k \in {"document", "page", "width"}, e \in BOOLEAN : Show!Mount(k, e)
        BY <2>12, <3>1 DEF ScriptRuns
      <4> QED BY <2>2, <4>1
    <3>2. CASE ~ (medium = "slides" /\ OnStage)
      BY <2>1, <2>12, <3>2 DEF ScriptRuns
    <3> QED BY <3>1, <3>2
  <2> QED BY <2>3, <2>4, <2>5, <2>6, <2>7, <2>8, <2>9, <2>10, <2>11, <2>12, Zenon DEF Next
<1> QED BY <1>1, <1>2, SpecInv, PTL DEF Spec, Show!Spec

\* The panel, whatever plays in it: a slide show calls for the next item only where
\* CornerPanel lets one call.
THEOREM PanelTurnsAsAlone == Spec => Panel!Spec
<1>1. Init => Panel!Init
  BY DEF Init
<1>2. [Next]_vars => [Panel!Next]_(Panel!vars)
  <2> SUFFICES ASSUME [Next]_vars PROVE [Panel!Next]_(Panel!vars)
    OBVIOUS
  <2>1. UNCHANGED panelVars => [Panel!Next]_(Panel!vars)
    BY DEF panelVars, Panel!vars, Panel!panel
  <2>2. ASSUME NEW x \in Panel!Items, Answers(x) \/ FetchFails(x)
        PROVE  Panel!Next
    BY <2>2 DEF Answers, FetchFails, Panel!Next
  <2>3. CASE PanelTimer \/ VideoEnds \/ Skip
    BY <2>3 DEF PanelTimer, VideoEnds, Skip, Panel!Next
  <2>4. CASE ListChanges
    BY <2>4 DEF ListChanges, Panel!Next
  <2>5. CASE ShowEnds
    BY <2>1, <2>5 DEF ShowEnds, Panel!Next
  <2>6. CASE Loads \/ Draws \/ ShowTimer \/ Driven
    BY <2>1, <2>6 DEF Loads, Draws, ShowTimer, Driven
  <2>7. CASE Tick
    BY <2>7 DEF Tick, Panel!Next
  <2>8. CASE UNCHANGED vars
    BY <2>1, <2>8 DEF vars
  <2>9. ASSUME NEW medium \in Panel!Scripts, ScriptRuns(medium)
        PROVE  Panel!Next
    BY <2>9 DEF ScriptRuns, Panel!Next
  <2> QED BY <2>2, <2>3, <2>4, <2>5, <2>6, <2>7, <2>8, <2>9, Zenon DEF Next
<1> QED BY <1>1, <1>2, PTL DEF Spec, Panel!Spec
=============================================================================
