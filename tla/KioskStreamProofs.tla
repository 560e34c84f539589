-------------------------- MODULE KioskStreamProofs --------------------------
(***************************************************************************)
(* Theorems about KioskStream and the cursor (Rotation) it is built on,    *)
(* for any number of devices, streams, requests, views and playlists, and  *)
(* any bound on requests and edits.                                        *)
(***************************************************************************)
EXTENDS KioskStream, OrderFacts, TLAPS

-----------------------------------------------------------------------------
(* The operations on a cursor, module Rotation.                            *)

\* The cursor points into the playlist, or the playlist is empty.
InRange(s) == \/ s.index < Len(s.items)
              \/ s.items = << >> /\ s.index = 0

\* A fresh cursor (NewState) is well typed and in range.
LEMMA NewStateCursor ==
  ASSUME NEW items \in Seq(Views)
  PROVE  NewState(items) \in Playback /\ InRange(NewState(items))
<1>1. Len(items) > 0 \/ items = << >>
  OBVIOUS
<1> QED BY <1>1 DEF NewState, Playback, InRange

\* SetItems yields a cursor in range whatever the old one and the new playlist.
LEMMA SetItemsCursor ==
  ASSUME NEW s \in Playback, NEW items \in Seq(Views)
  PROVE  /\ SetItems(s, items) \in Playback
         /\ InRange(SetItems(s, items))
         /\ SetItems(s, items).paused = s.paused
         /\ SetItems(s, items).items = items
<1> DEFINE i == IF s.index >= Len(items) THEN 0 ELSE s.index
<1>1. /\ i \in Nat
      /\ i < Len(items) \/ (items = << >> /\ i = 0)
  <2>1. Len(items) \in Nat /\ (Len(items) = 0 => items = << >>)
    OBVIOUS
  <2> QED BY <2>1 DEF Playback
<1>2. SetItems(s, items) = [s EXCEPT !.items = items, !.index = i]
  BY DEF SetItems
<1> HIDE DEF i
<1> QED BY <1>1, <1>2 DEF Playback, InRange

\* Next and Prev stay in range and leave items and the pause flag alone.
LEMMA MoveCursor ==
  ASSUME NEW s \in Playback
  PROVE  /\ Next(s) \in Playback /\ Prev(s) \in Playback
         /\ InRange(s) => InRange(Next(s)) /\ InRange(Prev(s))
         /\ Next(s).paused = s.paused /\ Prev(s).paused = s.paused
         /\ Next(s).items = s.items /\ Prev(s).items = s.items
<1> DEFINE n == Len(s.items)
<1>1. s.items \in Seq(Views) /\ s.index \in Nat /\ n \in Nat
  BY DEF Playback
<1>2. CASE n = 0
  <2>1. ~ (Len(s.items) > 0)
    BY <1>2
  <2>2. /\ Next(s) = [s EXCEPT !.override = NoView, !.index = s.index]
        /\ Prev(s) = [s EXCEPT !.override = NoView, !.index = s.index]
    BY <2>1 DEF Next, Prev
  <2> QED BY <2>2, <1>1 DEF Playback, InRange
<1>3. CASE n > 0
  <2> DEFINE i == (s.index + 1) % n
             j == (s.index - 1 + n) % n
  <2>1. i \in Nat /\ i < n
    BY <1>1, <1>3
  <2>2. j \in Nat /\ j < n
    BY <1>1, <1>3
  <2>3. Next(s) = [s EXCEPT !.override = NoView, !.index = i]
    BY <1>3 DEF Next
  <2>4. Prev(s) = [s EXCEPT !.override = NoView, !.index = j]
    BY <1>3 DEF Prev
  <2> HIDE DEF i, j
  <2> QED BY <2>1, <2>2, <2>3, <2>4 DEF Playback, InRange
<1> QED BY <1>1, <1>2, <1>3

\* Goto stays in range and leaves items and the pause flag alone.
LEMMA GotoCursor ==
  ASSUME NEW s \in Playback, NEW v \in Views \cup {NoView}
  PROVE  /\ Goto(s, v) \in Playback
         /\ InRange(s) => InRange(Goto(s, v))
         /\ Goto(s, v).paused = s.paused
         /\ Goto(s, v).items = s.items
<1> DEFINE at == PositionsOf(s, v)
<1>1. CASE at = {}
  BY <1>1 DEF Goto, Playback, InRange
<1>2. CASE at # {}
  <2> DEFINE k == CHOOSE i \in at : \A j \in at : i <= j
  <2>1. at \in SUBSET Nat /\ \A i \in at : i >= 1 /\ i <= Len(s.items)
    BY DEF PositionsOf, Playback
  <2>2. \E i \in at : \A j \in at : i <= j
    <3> HIDE DEF at
    <3> QED BY <2>1, <1>2, LeastNatural
  <2>3. k \in at
    BY <2>2
  <2>4. Goto(s, v) = [s EXCEPT !.index = k - 1, !.override = NoView]
    BY <1>2 DEF Goto
  <2>5. k - 1 \in Nat /\ k - 1 < Len(s.items)
    <3> HIDE DEF k, at
    <3> QED BY <2>1, <2>3 DEF Playback
  <2> HIDE DEF k, at
  <2> QED BY <2>4, <2>5 DEF Playback, InRange
<1> QED BY <1>1, <1>2

\* SetPaused changes nothing but the flag.
LEMMA SetPausedCursor ==
  ASSUME NEW s \in Playback, NEW p \in BOOLEAN
  PROVE  /\ SetPaused(s, p) \in Playback
         /\ InRange(s) => InRange(SetPaused(s, p))
         /\ SetPaused(s, p).paused = p
         /\ CurrentView(SetPaused(s, p)) = CurrentView(s)
BY DEF SetPaused, Playback, InRange, CurrentView

\* Current yields a view, or NoView when there is nothing to show.
LEMMA CurrentViewType ==
  ASSUME NEW s \in Playback
  PROVE  CurrentView(s) \in Views \cup {NoView}
<1>1. CASE s.override # NoView \/ s.items = << >>
  BY <1>1 DEF CurrentView, Playback
<1>2. CASE s.override = NoView /\ s.items # << >>
  <2> DEFINE i == IF s.index >= Len(s.items) THEN 0 ELSE s.index
  <2>1. s.items \in Seq(Views) /\ s.index \in Nat
    BY DEF Playback
  <2>2. Len(s.items) \in Nat /\ Len(s.items) > 0
    BY <2>1, <1>2
  <2>3. i + 1 \in 1 .. Len(s.items)
    BY <2>1, <2>2
  <2>4. CurrentView(s) = s.items[i + 1]
    BY <1>2 DEF CurrentView
  <2> HIDE DEF i
  <2> QED BY <2>1, <2>3, <2>4
<1> QED BY <1>1, <1>2

\* Whatever the playlist and the cursor, after Goto the view that was asked for
\* is the current one ("Always succeeds"), also when it occurs several times in
\* the playlist or not at all.
THEOREM GotoShowsTheView ==
  ASSUME NEW s \in Playback, NEW v \in Views
  PROVE  CurrentView(Goto(s, v)) = v
<1> DEFINE at == PositionsOf(s, v)
<1> USE NoViewAssumption
<1>1. CASE at = {}
  BY <1>1 DEF Goto, CurrentView, Playback
<1>2. CASE at # {}
  <2> DEFINE k == CHOOSE i \in at : \A j \in at : i <= j
  <2>1. at \in SUBSET Nat /\ \A i \in at : i \in 1 .. Len(s.items) /\ s.items[i] = v
    BY DEF PositionsOf, Playback
  <2>2. \E i \in at : \A j \in at : i <= j
    <3> HIDE DEF at
    <3> QED BY <2>1, <1>2, LeastNatural
  <2>3. k \in at
    BY <2>2
  <2>4. Goto(s, v) = [s EXCEPT !.index = k - 1, !.override = NoView]
    BY <1>2 DEF Goto
  <2>5. k \in 1 .. Len(s.items) /\ s.items[k] = v
    <3> HIDE DEF k, at
    <3> QED BY <2>1, <2>3
  <2> HIDE DEF k, at
  <2>6. Goto(s, v).items = s.items /\ Goto(s, v).index = k - 1
        /\ Goto(s, v).override = NoView
    BY <2>4 DEF Playback
  <2>7. s.items # << >> /\ ~ (k - 1 >= Len(s.items)) /\ (k - 1) + 1 = k
    BY <2>5 DEF Playback
  <2> QED BY <2>5, <2>6, <2>7 DEF CurrentView
<1> QED BY <1>1, <1>2

\* A cursor that wraps comes round to 0 after the last item and to the last item
\* before 0.
LEMMA Wraps ==
  ASSUME NEW n \in Nat \ {0}, NEW i \in 0 .. n - 1
  PROVE  /\ (i + 1) % n = IF i = n - 1 THEN 0 ELSE i + 1
         /\ ((i - 1) + n) % n = IF i = 0 THEN n - 1 ELSE i - 1
<1>1. \A m \in 0 .. n - 1 : m % n = m
  OBVIOUS
<1>2. n % n = 0
  OBVIOUS
<1>3. (i + 1) % n = IF i = n - 1 THEN 0 ELSE i + 1
  <2>1. CASE i = n - 1
    BY <1>2, <2>1
  <2>2. CASE i # n - 1
    BY <1>1, <2>2
  <2> QED BY <2>1, <2>2
<1>4. ((i - 1) + n) % n = IF i = 0 THEN n - 1 ELSE i - 1
  <2>1. CASE i = 0
    BY <1>1, <2>1
  <2>2. CASE i # 0
    <3> DEFINE m == i - 1
    <3>1. m \in 0 .. n - 1
      BY <2>2
    <3> HIDE DEF m
    <3>2. (m + n) % n = m
      BY <3>1
    <3> QED BY <2>2, <3>2 DEF m
  <2> QED BY <2>1, <2>2
<1> QED BY <1>3, <1>4

\* Next, then Prev, or the other way round, leads back to where the cursor was, in
\* a playlist of any length and also across its ends; a view that was shown for the
\* time being is gone.
THEOREM PrevUndoesNext ==
  ASSUME NEW s \in Playback, InRange(s)
  PROVE  /\ Prev(Next(s)) = [s EXCEPT !.override = NoView]
         /\ Next(Prev(s)) = [s EXCEPT !.override = NoView]
<1> DEFINE n == Len(s.items)
           At(i) == [s EXCEPT !.override = NoView, !.index = i]
<1>1. s.items \in Seq(Views) /\ s.index \in Nat /\ n \in Nat
  BY DEF Playback
<1>2. At(s.index) = [s EXCEPT !.override = NoView]
  BY DEF Playback
<1>3. \A i : At(i).items = s.items /\ At(i).index = i
  BY DEF Playback
<1>4. \A i, j : [At(i) EXCEPT !.override = NoView, !.index = j] = At(j)
  BY DEF Playback
<1>5. CASE n = 0
  <2>1. Next(s) = At(s.index) /\ Prev(s) = At(s.index)
    BY <1>5 DEF Next, Prev
  <2> HIDE DEF At
  <2>2. Next(At(s.index)) = At(s.index) /\ Prev(At(s.index)) = At(s.index)
    <3> DEFINE a == At(s.index)
    <3>1. a.items = s.items /\ a.index = s.index /\ ~ (Len(a.items) > 0)
      BY <1>3, <1>5
    <3>2. [a EXCEPT !.override = NoView, !.index = a.index] = a
      BY <1>4, <3>1
    <3> HIDE DEF a
    <3>3. Next(a) = a /\ Prev(a) = a
      BY <3>1, <3>2 DEF Next, Prev
    <3> QED BY <3>3 DEF a
  <2> QED BY <1>2, <2>1, <2>2
<1>6. CASE n > 0
  <2> DEFINE i == s.index
             up == IF i = n - 1 THEN 0 ELSE i + 1
             down == IF i = 0 THEN n - 1 ELSE i - 1
  <2>1. i \in 0 .. n - 1 /\ n \in Nat \ {0} /\ Len(s.items) = n
    BY <1>1, <1>6 DEF InRange
  <2>2. Next(s) = At((i + 1) % n) /\ Prev(s) = At(((i - 1) + n) % n)
    BY <1>6 DEF Next, Prev
  <2>3. \A j : /\ Next(At(j)) = At((j + 1) % n)
               /\ Prev(At(j)) = At(((j - 1) + n) % n)
    <3> HIDE DEF At
    <3> QED BY <1>3, <1>4, <1>6 DEF Next, Prev
  <2> HIDE DEF n, i, At
  <2>4. (i + 1) % n = up /\ ((i - 1) + n) % n = down
    BY <2>1, Wraps
  <2>5. up \in 0 .. n - 1 /\ down \in 0 .. n - 1
    BY <2>1
  <2> HIDE DEF up, down
  <2>6. ((up - 1) + n) % n = i /\ (down + 1) % n = i
    <3>1. ((up - 1) + n) % n = IF up = 0 THEN n - 1 ELSE up - 1
      BY <2>1, <2>5, Wraps
    <3>2. (down + 1) % n = IF down = n - 1 THEN 0 ELSE down + 1
      BY <2>1, <2>5, Wraps
    <3> QED BY <2>1, <3>1, <3>2 DEF up, down
  <2>7. Prev(Next(s)) = At(i) /\ Next(Prev(s)) = At(i)
    BY <2>2, <2>3, <2>4, <2>6
  <2> QED BY <1>2, <2>7 DEF i
<1> QED BY <1>1, <1>5, <1>6

-----------------------------------------------------------------------------
(* Types.                                                                  *)

USE NoViewAssumption, ConstantsAssumption

\* What the stream reads from the database is a list of views.
LEMMA ItemsAreViews ==
  ASSUME TypeOK
  PROVE  \A r \in Rows : /\ DeviceItems(r) \in Seq(Views)
                         /\ PipItems(r) \in Seq(Views)
<1>1. \A p : ItemsOf(p) \in Seq(Views)
  BY DEF ItemsOf, TypeOK
<1> QED BY <1>1 DEF DeviceItems, PipItems

\* The announced view is one of the items, or NoView.
LEMMA AnnouncedIsView ==
  ASSUME NEW items \in Seq(Views)
  PROVE  AnnounceClockView(items) \in Views \cup {NoView}
<1> DEFINE at == ClockPositions(items)
<1>1. CASE at = {}
  BY <1>1 DEF AnnounceClockView
<1>2. CASE at # {}
  <2> DEFINE k == CHOOSE i \in at : \A j \in at : i <= j
  <2>1. at \in SUBSET Nat /\ at \subseteq 1 .. Len(items)
    BY DEF ClockPositions
  <2>2. \E i \in at : \A j \in at : i <= j
    <3> HIDE DEF at
    <3> QED BY <2>1, <1>2, LeastNatural
  <2>3. k \in at
    BY <2>2
  <2>4. AnnounceClockView(items) = items[k]
    BY <1>2 DEF AnnounceClockView
  <2>5. k \in 1 .. Len(items)
    <3> HIDE DEF k, at
    <3> QED BY <2>1, <2>3
  <2> HIDE DEF k, at
  <2> QED BY <2>4, <2>5
<1> QED BY <1>1, <1>2

\* The state change of a command keeps the cursor typed and in range.
LEMMA ObeyCursor ==
  ASSUME NEW s \in Playback, NEW op \in MoveCmds \cup PauseCmds
  PROVE  Obey(op, s) \in Playback /\ (InRange(s) => InRange(Obey(op, s)))
<1>1. CASE op = "next"
  BY <1>1, MoveCursor DEF Obey
<1>2. CASE op = "prev"
  BY <1>2, MoveCursor DEF Obey
<1>3. CASE op = "pause"
  BY <1>3, SetPausedCursor DEF Obey
<1>4. CASE op = "resume"
  BY <1>4, SetPausedCursor DEF Obey
<1> QED BY <1>1, <1>2, <1>3, <1>4 DEF MoveCmds, PauseCmds

-----------------------------------------------------------------------------
\* The initial states are well typed.
LEMMA TypeInit == Init => TypeOK
<1> SUFFICES ASSUME Init PROVE TypeOK
  OBVIOUS
<1>1. NewState(<< >>) \in Playback
  <2>1. << >> \in Seq(Views)
    OBVIOUS
  <2> QED BY <2>1, NewStateCursor
<1>2. st \in [Conns -> Playback]
  BY <1>1 DEF Init
<1>3. \A d \in Devices : NewRow(d) \in Rows
  BY DEF NewRow, Rows
<1>4. row \in [Devices -> Rows] /\ mine \in [Conns -> Rows]
  BY <1>3 DEF Init
<1>5. call \in [Callers -> Calls]
  BY DEF Init, Idle, Calls, Ops, MoveCmds
<1>6. lists \in [DOMAIN lists -> Contents] /\ DOMAIN lists = PlaylistIds
  BY DEF Init
<1> QED BY <1>2, <1>4, <1>5, <1>6 DEF Init, TypeOK, Pcs

\* Opening, connecting and closing a stream preserve the types.
LEMMA TypeConnection ==
  ASSUME TypeOK, NEW c \in Conns
  PROVE  /\ \A d \in Devices : Open(c, d) => TypeOK'
         /\ Connect(c) => TypeOK'
         /\ Disconnect(c) => TypeOK'
<1>1. ASSUME NEW d \in Devices, Open(c, d) PROVE TypeOK'
  <2>1. row[d] \in Rows
    BY DEF TypeOK
  <2>2. NewState(DeviceItems(row[d])) \in Playback
    BY <2>1, ItemsAreViews, NewStateCursor
  <2> QED BY <1>1, <2>1, <2>2 DEF Open, TypeOK, Pcs, db
<1>2. ASSUME Connect(c) PROVE TypeOK'
  BY <1>2 DEF Connect, TypeOK, Pcs, db, screen, Rows, Connected
<1>3. ASSUME Disconnect(c) PROVE TypeOK'
  BY <1>3 DEF Disconnect, Release, TypeOK, Pcs, db, screen
<1> QED BY <1>1, <1>2, <1>3

\* The send steps preserve the types.
LEMMA TypeSend ==
  ASSUME TypeOK, NEW c \in Conns
  PROVE  /\ SendNavigate(c) => TypeOK'
         /\ SendDwell(c) => TypeOK'
         /\ SendGreeting(c) => TypeOK'
         /\ Arm(c) => TypeOK'
<1>1. CurrentView(st[c]) \in Views \cup {NoView}
  BY CurrentViewType DEF TypeOK
<1>2. PipItems(mine[c]) \in Seq(Views)
  BY ItemsAreViews DEF TypeOK
<1>3. ASSUME SendNavigate(c) PROVE TypeOK'
  <2>1. AfterSend(c) \in Pcs
    BY DEF AfterSend, Pcs
  <2>2. /\ shown' \in [Conns -> Views \cup {NoView}]
        /\ pc' \in [Conns -> Pcs]
    <3>1. CASE CurrentView(st[c]) = NoView
      <4>1. shown' = shown /\ pc' = [pc EXCEPT ![c] = AfterSend(c)]
        BY <1>3, <3>1 DEF SendNavigate
      <4> QED BY <4>1, <2>1 DEF TypeOK
    <3>2. CASE CurrentView(st[c]) # NoView
      <4>1. /\ shown' = [shown EXCEPT ![c] = CurrentView(st[c])]
            /\ pc' = [pc EXCEPT ![c] = "secs"]
        BY <1>3, <3>2 DEF SendNavigate
      <4> QED BY <4>1, <1>1 DEF TypeOK, Pcs
    <3> QED BY <3>1, <3>2
  <2> QED BY <1>3, <2>2 DEF SendNavigate, TypeOK, db
<1>4. SendDwell(c) => TypeOK'
  BY DEF SendDwell, AfterSend, TypeOK, Pcs, db
<1>5. SendGreeting(c) => TypeOK'
  BY <1>2 DEF SendGreeting, TypeOK, Pcs, db
<1>6. Arm(c) => TypeOK'
  BY <1>1 DEF Arm, TypeOK, Pcs, db
<1> QED BY <1>3, <1>4, <1>5, <1>6

\* The cases of the select statement preserve the types.
LEMMA TypeSelect ==
  ASSUME TypeOK, NEW c \in Conns
  PROVE  /\ SelectStep(c) => TypeOK'
         /\ AdvanceNext(c) => TypeOK'
         /\ ChimePick(c) => TypeOK'
         /\ ChimeGoto(c) => TypeOK'
<1>1. st[c] \in Playback /\ mine[c] \in Rows /\ aim[c] \in Views \cup {NoView}
  BY DEF TypeOK
<1>2. DeviceItems(mine[c]) \in Seq(Views) /\ PipItems(mine[c]) \in Seq(Views)
  BY <1>1, ItemsAreViews
<1>3. ASSUME TakeNotify(c) PROVE TypeOK'
  BY <1>3 DEF TakeNotify, TypeOK, Pcs, db, screen
<1>4. ASSUME ForwardCmd(c) PROVE TypeOK'
  <2>1. cmds[c] - 1 \in 0 .. CmdCap
    BY <1>4 DEF ForwardCmd, TypeOK
  <2> QED BY <1>4, <2>1 DEF ForwardCmd, TypeOK, db, screen
<1>5. ASSUME Refresh(c) PROVE TypeOK'
  <2> DEFINE s == SetItems(st[c], DeviceItems(mine[c]))
             e == edited[c] \/ CurrentView(s) # CurrentView(st[c])
  <2>1. s \in Playback
    BY <1>1, <1>2, SetItemsCursor
  <2>2. st' = [st EXCEPT ![c] = s] /\ edited' = [edited EXCEPT ![c] = e]
    BY <1>5 DEF Refresh
  <2>3. e \in BOOLEAN
    BY DEF TypeOK
  <2> HIDE DEF s, e
  <2> QED BY <1>5, <1>2, <2>1, <2>2, <2>3 DEF Refresh, TypeOK, db
<1>6. ASSUME AdvanceFires(c) PROVE TypeOK'
  BY <1>6 DEF AdvanceFires, TypeOK, Pcs, db, screen
<1>7. ASSUME ChimeFires(c) PROVE TypeOK'
  BY <1>7 DEF ChimeFires, TypeOK, Pcs, db, screen
<1>8. ASSUME AdvanceNext(c) PROVE TypeOK'
  <2>1. Next(st[c]) \in Playback
    BY <1>1, MoveCursor
  <2> QED BY <1>8, <2>1 DEF AdvanceNext, TypeOK, Pcs, db, screen
<1>9. ASSUME ChimePick(c) PROVE TypeOK'
  <2>1. AnnounceClockView(DeviceItems(mine[c])) \in Views \cup {NoView}
    BY <1>2, AnnouncedIsView
  <2>2. /\ aim' \in [Conns -> Views \cup {NoView}]
        /\ pc' \in [Conns -> Pcs]
    <3> DEFINE v == AnnounceClockView(DeviceItems(mine[c]))
    <3>1. CASE v # NoView /\ CurrentView(st[c]) # v
      <4>1. /\ aim' = [aim EXCEPT ![c] = v]
            /\ pc' = [pc EXCEPT ![c] = "chimeGoto"]
        BY <1>9, <3>1 DEF ChimePick
      <4> QED BY <4>1, <2>1 DEF TypeOK, Pcs
    <3>2. CASE ~ (v # NoView /\ CurrentView(st[c]) # v)
      BY <1>9, <3>2 DEF ChimePick, TypeOK, Pcs
    <3> QED BY <3>1, <3>2
  <2> QED BY <1>9, <2>2 DEF ChimePick, TypeOK, db, screen
<1>10. ASSUME ChimeGoto(c) PROVE TypeOK'
  <2>1. Goto(st[c], aim[c]) \in Playback
    BY <1>1, GotoCursor
  <2> QED BY <1>10, <2>1 DEF ChimeGoto, TypeOK, Pcs, db, screen
<1> QED
  BY <1>3, <1>4, <1>5, <1>6, <1>7, <1>8, <1>9, <1>10 DEF SelectStep

\* The steps of a control request preserve the types.
LEMMA TypeCaller ==
  ASSUME TypeOK, NEW r \in Callers
  PROVE  /\ CallerStep(r) => TypeOK'
         /\ \A d \in Devices, op \in Ops, v \in Views \cup {NoView} :
              Lookup(r, d, op, v) => TypeOK'
<1>1. call[r] \in Calls /\ Idle \in Calls
  BY DEF TypeOK, Idle, Calls, Ops, MoveCmds
<1>2. \A c \in Conns : st[c] \in Playback
  BY DEF TypeOK
<1>3. ASSUME NEW d \in Devices, NEW op \in Ops, NEW v \in Views \cup {NoView},
             Lookup(r, d, op, v)
      PROVE  TypeOK'
  <2>1. devices[d] \in Conns
    BY <1>3 DEF Lookup, TypeOK
  <2> QED BY <1>3, <2>1 DEF Lookup, TypeOK, Calls, db, screen
<1>4. ASSUME ApplyCommand(r) PROVE TypeOK'
  <2> DEFINE c == call[r].conn
             s == Obey(call[r].op, st[c])
  <2>1. st' = [st EXCEPT ![c] = s]
    BY <1>4 DEF ApplyCommand
  <2>2. c \in Conns => s \in Playback
    BY <1>2, <1>4, ObeyCursor DEF ApplyCommand
  <2> HIDE DEF c, s
  <2>3. st' \in [Conns -> Playback]
    BY <2>1, <2>2 DEF TypeOK
  <2> QED BY <1>1, <1>4, <2>3 DEF ApplyCommand, TypeOK, Calls, db, screen
<1>5. ASSUME GotoMoves(r) PROVE TypeOK'
  <2> DEFINE c == call[r].conn
             s == Goto(st[c], call[r].view)
  <2>1. st' = [st EXCEPT ![c] = s]
    BY <1>5 DEF GotoMoves
  <2>2. c \in Conns => s \in Playback
    BY <1>1, <1>2, GotoCursor DEF Calls
  <2> HIDE DEF c, s
  <2>3. st' \in [Conns -> Playback]
    BY <2>1, <2>2 DEF TypeOK
  <2> QED BY <1>1, <1>5, <2>3 DEF GotoMoves, TypeOK, Calls, db, screen
<1>6. ASSUME GotoPauses(r) PROVE TypeOK'
  <2> DEFINE c == call[r].conn
             s == SetPaused(st[c], TRUE)
  <2>1. st' = [st EXCEPT ![c] = s]
    BY <1>6 DEF GotoPauses
  <2>2. c \in Conns => s \in Playback
    BY <1>2, SetPausedCursor
  <2> HIDE DEF c, s
  <2>3. st' \in [Conns -> Playback]
    BY <2>1, <2>2 DEF TypeOK
  <2> QED BY <1>1, <1>6, <2>3 DEF GotoPauses, TypeOK, Calls, db, screen
<1>7. ASSUME Signal(r) PROVE TypeOK'
  BY <1>1, <1>7 DEF Signal, TypeOK, db, screen
<1>8. ASSUME SendClientCmd(r) PROVE TypeOK'
  <2> DEFINE c == call[r].conn
             n == IF cmds[c] < CmdCap THEN cmds[c] + 1 ELSE cmds[c]
  <2>1. cmds' = [cmds EXCEPT ![c] = n]
    BY <1>8 DEF SendClientCmd
  <2>2. c \in Conns => n \in 0 .. CmdCap
    BY DEF TypeOK
  <2> HIDE DEF c, n
  <2>3. cmds' \in [Conns -> 0 .. CmdCap]
    BY <2>1, <2>2 DEF TypeOK
  <2> QED BY <1>1, <1>8, <2>3 DEF SendClientCmd, TypeOK, db, screen
<1> QED BY <1>3, <1>4, <1>5, <1>6, <1>7, <1>8 DEF CallerStep

\* The administrator's writes preserve the types.
LEMMA TypeAdmin == TypeOK /\ AdminStep => TypeOK'
<1> SUFFICES ASSUME TypeOK, AdminStep PROVE TypeOK'
  OBVIOUS
<1>1. ASSUME NEW p \in PlaylistIds, NEW items \in Contents, EditPlaylist(p, items)
      PROVE  TypeOK'
  BY <1>1 DEF EditPlaylist, TypeOK, rest, screen
<1>2. ASSUME NEW p \in PlaylistIds, DeletePlaylist(p) PROVE TypeOK'
  BY <1>2 DEF DeletePlaylist, TypeOK, rest, screen
<1>3. ASSUME NEW d \in Devices, NEW p \in PlaylistIds \cup {NoPlaylist},
             NEW q \in PlaylistIds \cup {NoPlaylist}, AssignPlaylist(d, p, q)
      PROVE  TypeOK'
  <2>1. [row[d] EXCEPT !.main = p] \in Rows
    <3>1. row[d] \in Rows
      BY DEF TypeOK
    <3> QED BY <3>1 DEF Rows
  <2>2. row' = [row EXCEPT ![d] = [row[d] EXCEPT !.main = p]]
    BY <1>3 DEF AssignPlaylist
  <2>3. row' \in [Devices -> Rows]
    BY <2>1, <2>2 DEF TypeOK
  <2>4. forms' \subseteq Forms
    BY <1>3 DEF AssignPlaylist, TypeOK, Forms
  <2> QED BY <1>3, <2>3, <2>4 DEF AssignPlaylist, TypeOK, rest, screen
<1>4. ASSUME NEW f \in forms, AssignPip(f) PROVE TypeOK'
  <2>1. f.dev \in Devices /\ f.pip \in PlaylistIds \cup {NoPlaylist}
    BY DEF TypeOK, Forms
  <2>2. [row[f.dev] EXCEPT !.pip = f.pip] \in Rows
    <3>1. row[f.dev] \in Rows
      BY <2>1 DEF TypeOK
    <3> QED BY <2>1, <3>1 DEF Rows
  <2>3. row' = [row EXCEPT ![f.dev] = [row[f.dev] EXCEPT !.pip = f.pip]]
    BY <1>4 DEF AssignPip
  <2>4. row' \in [Devices -> Rows]
    BY <2>2, <2>3 DEF TypeOK
  <2>5. forms' \subseteq Forms
    BY <1>4 DEF AssignPip, TypeOK
  <2> QED BY <1>4, <2>4, <2>5 DEF AssignPip, TypeOK, rest, screen
<1> QED BY <1>1, <1>2, <1>3, <1>4 DEF AdminStep

\* Type correctness: in every reachable state each variable has its type; in
\* particular no client-command channel holds more than its capacity.
THEOREM TypeCorrect == Spec => []TypeOK
<1>1. TypeOK /\ [Step]_vars => TypeOK'
  <2> SUFFICES ASSUME TypeOK, [Step]_vars PROVE TypeOK'
    OBVIOUS
  <2>1. ASSUME NEW c \in Conns,
               \/ StreamStep(c) \/ SelectStep(c) \/ Disconnect(c)
               \/ \E d \in Devices : Open(c, d)
        PROVE  TypeOK'
    BY <2>1, TypeConnection, TypeSend, TypeSelect DEF StreamStep
  <2>2. ASSUME NEW r \in Callers,
               \/ CallerStep(r)
               \/ \E d \in Devices, op \in Ops :
                    \E v \in IF op = "goto" THEN Views \cup {NoView} ELSE {NoView} :
                      Lookup(r, d, op, v)
        PROVE  TypeOK'
    BY <2>2, TypeCaller
  <2>3. ASSUME AdminStep PROVE TypeOK'
    BY <2>3, TypeAdmin
  <2>4. ASSUME UNCHANGED vars PROVE TypeOK'
    BY <2>4 DEF vars, db, screen, TypeOK
  <2> QED BY <2>1, <2>2, <2>3, <2>4 DEF Step
<1> QED BY TypeInit, <1>1, PTL DEF Spec

-----------------------------------------------------------------------------
\* A step of a stream keeps every cursor in range.
LEMMA RangeStream ==
  ASSUME TypeOK, IndexInRange, NEW c \in Conns,
         \/ StreamStep(c) \/ SelectStep(c) \/ Disconnect(c)
         \/ \E d \in Devices : Open(c, d)
  PROVE  IndexInRange'
<1> USE DEF InRange
<1>1. st[c] \in Playback /\ mine[c] \in Rows /\ aim[c] \in Views \cup {NoView}
  BY DEF TypeOK
<1>2. DeviceItems(mine[c]) \in Seq(Views)
  BY <1>1, ItemsAreViews
<1>3. InRange(st[c]) /\ \A k \in Conns : InRange(st[k])
  BY DEF IndexInRange
<1> HIDE DEF InRange
<1>4. ASSUME NEW s, InRange(s), st' = [st EXCEPT ![c] = s]
      PROVE  IndexInRange'
  BY <1>3, <1>4 DEF IndexInRange, InRange, TypeOK
<1>5. ASSUME UNCHANGED st PROVE IndexInRange'
  BY <1>5 DEF IndexInRange
<1>6. ASSUME NEW d \in Devices, Open(c, d) PROVE IndexInRange'
  <2>1. DeviceItems(row[d]) \in Seq(Views)
    BY ItemsAreViews DEF TypeOK
  <2> QED BY <1>4, <1>6, <2>1, NewStateCursor DEF Open
<1>7. ASSUME Refresh(c) PROVE IndexInRange'
  <2>1. st' = [st EXCEPT ![c] = SetItems(st[c], DeviceItems(mine[c]))]
    BY <1>7 DEF Refresh
  <2> QED BY <1>1, <1>2, <1>4, <2>1, SetItemsCursor
<1>8. ASSUME AdvanceNext(c) PROVE IndexInRange'
  BY <1>1, <1>3, <1>4, <1>8, MoveCursor DEF AdvanceNext
<1>9. ASSUME ChimeGoto(c) PROVE IndexInRange'
  BY <1>1, <1>3, <1>4, <1>9, GotoCursor DEF ChimeGoto
<1> QED
  BY <1>5, <1>6, <1>7, <1>8, <1>9
     DEF StreamStep, SelectStep, Connect, SendNavigate, SendDwell, SendGreeting,
         Arm, ChimePick, TakeNotify, ForwardCmd, AdvanceFires, ChimeFires,
         Disconnect

\* A step of a control request keeps every cursor in range.
LEMMA RangeCaller ==
  ASSUME TypeOK, IndexInRange, NEW r \in Callers, CallerStep(r)
  PROVE  IndexInRange'
<1> DEFINE c == call[r].conn
<1>1. \A k \in Conns : st[k] \in Playback /\ InRange(st[k])
  BY DEF TypeOK, IndexInRange, InRange
<1>2. call[r].view \in Views \cup {NoView}
  BY DEF TypeOK, Calls
<1>3. ASSUME NEW s, c \in Conns => InRange(s), st' = [st EXCEPT ![c] = s]
      PROVE  IndexInRange'
  <2> HIDE DEF c
  <2> QED BY <1>1, <1>3 DEF IndexInRange, InRange, TypeOK
<1>4. ASSUME ApplyCommand(r) PROVE IndexInRange'
  <2>1. st' = [st EXCEPT ![c] = Obey(call[r].op, st[c])]
    BY <1>4 DEF ApplyCommand
  <2> QED BY <1>1, <1>3, <1>4, <2>1, ObeyCursor DEF ApplyCommand
<1>5. ASSUME GotoMoves(r) PROVE IndexInRange'
  BY <1>1, <1>2, <1>3, <1>5, GotoCursor DEF GotoMoves
<1>6. ASSUME GotoPauses(r) PROVE IndexInRange'
  BY <1>1, <1>3, <1>6, SetPausedCursor DEF GotoPauses
<1>7. ASSUME UNCHANGED st PROVE IndexInRange'
  BY <1>7 DEF IndexInRange
<1> QED BY <1>4, <1>5, <1>6, <1>7 DEF CallerStep, Signal, SendClientCmd

\* The cursor of every stream is always inside its playlist: the repair in
\* State.Current never happens and its slice access never panics.
THEOREM CursorInRange == Spec => []IndexInRange
<1>1. Init => IndexInRange
  BY DEF Init, IndexInRange, NewState
<1>2. TypeOK /\ IndexInRange /\ [Step]_vars => IndexInRange'
  <2> SUFFICES ASSUME TypeOK, IndexInRange, [Step]_vars PROVE IndexInRange'
    OBVIOUS
  <2>1. ASSUME UNCHANGED st PROVE IndexInRange'
    BY <2>1 DEF IndexInRange
  <2>2. ASSUME NEW r \in Callers, NEW d \in Devices, NEW op \in Ops, NEW v,
               Lookup(r, d, op, v)
        PROVE  IndexInRange'
    BY <2>1, <2>2 DEF Lookup
  <2>3. ASSUME AdminStep PROVE IndexInRange'
    BY <2>1, <2>3 DEF AdminStep, EditPlaylist, DeletePlaylist, AssignPlaylist,
                      AssignPip, rest
  <2>4. ASSUME UNCHANGED vars PROVE IndexInRange'
    BY <2>1, <2>4 DEF vars
  <2> QED BY <2>2, <2>3, <2>4, RangeStream, RangeCaller DEF Step
<1> QED BY <1>1, <1>2, TypeCorrect, PTL DEF Spec

-----------------------------------------------------------------------------
\* The inductive strengthening of RegistryExact: a stream cannot be superseded
\* before it has connected.
RegistryInv ==
  /\ RegistryExact
  /\ \A c \in Conns : pc[c] = "open" => ~ superseded[c]

\* Only opening, connecting and closing a stream touch the registry.
LEMMA RegistryConnection ==
  ASSUME TypeOK, RegistryInv, NEW c \in Conns
  PROVE  /\ \A d \in Devices : Open(c, d) => RegistryInv'
         /\ Connect(c) => RegistryInv'
         /\ Disconnect(c) => RegistryInv'
<1> USE DEF RegistryInv, RegistryExact, Connected
<1>1. ASSUME NEW d \in Devices, Open(c, d) PROVE RegistryInv'
  BY <1>1 DEF Open, TypeOK
<1>2. ASSUME Connect(c) PROVE RegistryInv'
  <2>1. mine[c].dev \in Devices /\ ~ superseded[c]
    BY <1>2 DEF Connect, TypeOK, Rows
  <2>2. superseded'[c] = FALSE
    BY <1>2, <2>1 DEF Connect
  <2>3. pc' = [pc EXCEPT ![c] = "nav"]
        /\ devices' = [devices EXCEPT ![mine[c].dev] = c]
        /\ mine' = mine
    BY <1>2 DEF Connect
  <2>4. ASSUME NEW k \in Conns, k # c
        PROVE  superseded'[k] <=> superseded[k] \/
                 (Connected(k) /\ mine[k].dev = mine[c].dev)
    BY <1>2, <2>4 DEF Connect
  <2>5. ASSUME NEW k \in Conns, NEW d \in Devices
        PROVE  /\ devices'[d] = k <=> Connected(k)' /\ mine'[k].dev = d /\ ~ superseded'[k]
               /\ pc'[k] = "open" => ~ superseded'[k]
    <3>1. CASE k = c
      BY <2>1, <2>2, <2>3, <3>1 DEF TypeOK
    <3>2. CASE k # c
      BY <2>1, <2>3, <2>4, <3>2 DEF TypeOK
    <3> QED BY <3>1, <3>2
  <2> QED BY <2>1, <2>5
<1>3. ASSUME Disconnect(c) PROVE RegistryInv'
  BY <1>3 DEF Disconnect, Release, TypeOK
<1> QED BY <1>1, <1>2, <1>3

\* The registry names exactly the newest running stream of every device.
THEOREM RegistryCorrect == Spec => []RegistryExact
<1>1. Init => RegistryInv
  BY DEF Init, RegistryInv, RegistryExact, Connected
<1>2. TypeOK /\ RegistryInv /\ [Step]_vars => RegistryInv'
  <2> SUFFICES ASSUME TypeOK, RegistryInv, [Step]_vars PROVE RegistryInv'
    OBVIOUS
  <2>1. ASSUME NEW c \in Conns, UNCHANGED <<devices, mine, superseded>>,
               NEW p \in Pcs \ {"none", "open"}, pc[c] \notin {"none", "open"},
               pc' = [pc EXCEPT ![c] = p]
        PROVE  RegistryInv'
    BY <2>1 DEF RegistryInv, RegistryExact, Connected, TypeOK
  <2>2. ASSUME UNCHANGED <<devices, mine, superseded, pc>> PROVE RegistryInv'
    BY <2>2 DEF RegistryInv, RegistryExact, Connected
  <2>3. ASSUME NEW c \in Conns, StreamStep(c) PROVE RegistryInv'
    <3>1. CASE Connect(c)
      BY <3>1, RegistryConnection
    <3>2. CASE SendNavigate(c)
      BY <2>1, <3>2 DEF SendNavigate, AfterSend, Pcs
    <3>3. CASE SendDwell(c)
      BY <2>1, <3>3 DEF SendDwell, AfterSend, Pcs
    <3>4. CASE SendGreeting(c)
      BY <2>1, <3>4 DEF SendGreeting, Pcs
    <3>5. CASE Arm(c)
      BY <2>1, <3>5 DEF Arm, Pcs
    <3>6. CASE AdvanceNext(c)
      BY <2>1, <3>6 DEF AdvanceNext, Pcs
    <3>7. CASE ChimePick(c)
      BY <2>1, <3>7 DEF ChimePick, Pcs
    <3>8. CASE ChimeGoto(c)
      BY <2>1, <3>8 DEF ChimeGoto, Pcs
    <3> QED
      BY <2>3, <3>1, <3>2, <3>3, <3>4, <3>5, <3>6, <3>7, <3>8 DEF StreamStep
  <2>4. ASSUME NEW c \in Conns, SelectStep(c) PROVE RegistryInv'
    <3>1. CASE TakeNotify(c)
      BY <2>1, <3>1 DEF TakeNotify, Pcs
    <3>2. CASE AdvanceFires(c)
      BY <2>1, <3>2 DEF AdvanceFires, Pcs
    <3>3. CASE ChimeFires(c)
      BY <2>1, <3>3 DEF ChimeFires, Pcs
    <3>4. CASE ForwardCmd(c) \/ Refresh(c)
      BY <2>2, <3>4 DEF ForwardCmd, Refresh
    <3> QED BY <2>4, <3>1, <3>2, <3>3, <3>4 DEF SelectStep
  <2>5. ASSUME NEW r \in Callers,
               \/ CallerStep(r)
               \/ \E d \in Devices, op \in Ops, v \in Views \cup {NoView} : Lookup(r, d, op, v)
        PROVE  RegistryInv'
    BY <2>2, <2>5 DEF CallerStep, Lookup, ApplyCommand, GotoMoves, GotoPauses,
                      Signal, SendClientCmd
  <2>6. ASSUME AdminStep PROVE RegistryInv'
    BY <2>2, <2>6 DEF AdminStep, EditPlaylist, DeletePlaylist, AssignPlaylist,
                      AssignPip, rest
  <2>7. ASSUME UNCHANGED vars PROVE RegistryInv'
    BY <2>2, <2>7 DEF vars
  <2> QED BY <2>3, <2>4, <2>5, <2>6, <2>7, RegistryConnection DEF Step
<1>3. RegistryInv => RegistryExact
  BY DEF RegistryInv
<1> QED BY <1>1, <1>2, <1>3, TypeCorrect, PTL DEF Spec

-----------------------------------------------------------------------------
(* No lost wakeup.  NoLostWakeup speaks of a stream in its select; while a  *)
(* stream is between its sends, the part of the screen it has already sent  *)
(* must agree, since nothing will send it again without a new token.        *)

InSelect   == {"loop", "advance", "chime", "chimeGoto"}
AfterDwell == InSelect \cup {"greet", "arm"}
AfterNav   == AfterDwell \cup {"secs"}

ScreenAgrees(c) ==
  /\ pc[c] \in AfterNav => shown[c] = CurrentView(st[c])
  /\ pc[c] \in AfterDwell =>
       countdown[c] = IF st[c].paused THEN "paused" ELSE "running"
  /\ pc[c] \in InSelect => armed[c] = CurrentView(st[c])

\* The inductive invariant, for one stream.
WakeupInv(c) ==
  /\ Settled(c) /\ CurrentView(st[c]) # NoView => ScreenAgrees(c)
  /\ pc[c] \in {"advance", "chime", "chimeGoto"} /\ st[c].paused =>
       Busy(c) \/ notify[c]

\* A stream about which nothing changes keeps its invariant.
LEMMA WakeupFrame ==
  ASSUME NEW k \in Conns, WakeupInv(k), UNCHANGED call,
         st'[k] = st[k], notify'[k] = notify[k], edited'[k] = edited[k],
         pc'[k] = pc[k], shown'[k] = shown[k], countdown'[k] = countdown[k],
         armed'[k] = armed[k]
  PROVE  WakeupInv(k)'
BY DEF WakeupInv, ScreenAgrees, Settled, Busy

\* Steps of the stream itself.
LEMMA WakeupStream ==
  ASSUME TypeOK, NEW c \in Conns, \A k \in Conns : WakeupInv(k),
         \/ StreamStep(c) \/ SelectStep(c) \/ Disconnect(c)
         \/ \E d \in Devices : Open(c, d)
  PROVE  \A k \in Conns : WakeupInv(k)'
<1> SUFFICES ASSUME NEW k \in Conns PROVE WakeupInv(k)'
  OBVIOUS
<1> USE DEF StreamStep, SelectStep
<1>1. UNCHANGED call
  BY DEF Open, Connect, Disconnect, SendNavigate, SendDwell, SendGreeting, Arm,
         AdvanceNext, ChimePick, ChimeGoto, TakeNotify, ForwardCmd, Refresh,
         AdvanceFires, ChimeFires
<1>2. CASE k # c
  <2>1. /\ st'[k] = st[k] /\ notify'[k] = notify[k] /\ edited'[k] = edited[k]
        /\ pc'[k] = pc[k] /\ shown'[k] = shown[k] /\ countdown'[k] = countdown[k]
        /\ armed'[k] = armed[k]
    BY <1>2 DEF TypeOK, screen, Open, Connect, Disconnect, SendNavigate,
         SendDwell, SendGreeting, Arm, AdvanceNext, ChimePick, ChimeGoto,
         TakeNotify, ForwardCmd, Refresh, AdvanceFires, ChimeFires
  <2> QED BY <1>1, <2>1, WakeupFrame
<1>3. CASE k = c
  <2> USE <1>1, <1>3
  <2>0. WakeupInv(c)
    OBVIOUS
  <2>1. CASE pc'[c] \in {"none", "open", "nav"}
    BY <2>1 DEF WakeupInv, ScreenAgrees, InSelect, AfterDwell, AfterNav
  <2>2. CASE SendNavigate(c)
    <3>1. CASE CurrentView(st[c]) = NoView
      BY <2>2, <3>1 DEF SendNavigate, AfterSend, WakeupInv, TypeOK
    <3>2. CASE CurrentView(st[c]) # NoView
      <4>1. /\ st' = st /\ pc'[c] = "secs" /\ shown'[c] = CurrentView(st[c])
        BY <2>2, <3>2 DEF SendNavigate, TypeOK
      <4> QED BY <4>1 DEF WakeupInv, ScreenAgrees, InSelect, AfterDwell
    <3> QED BY <3>1, <3>2
  <2>3. CASE SendDwell(c)
    BY <2>0, <2>3 DEF SendDwell, AfterSend, WakeupInv, ScreenAgrees, Settled,
         Busy, InSelect, AfterDwell, AfterNav, TypeOK
  <2>4. CASE SendGreeting(c)
    BY <2>0, <2>4 DEF SendGreeting, WakeupInv, ScreenAgrees, Settled, Busy,
         InSelect, AfterDwell, AfterNav, TypeOK
  <2>5. CASE Arm(c)
    BY <2>0, <2>5 DEF Arm, WakeupInv, ScreenAgrees, Settled, Busy, InSelect,
         AfterDwell, AfterNav, TypeOK
  <2>6. CASE Refresh(c)
    <3> DEFINE s == SetItems(st[c], DeviceItems(mine[c]))
    <3>1. /\ st'[c] = s /\ pc' = pc /\ notify' = notify /\ shown' = shown
          /\ countdown' = countdown /\ armed' = armed
          /\ edited'[c] = (edited[c] \/ CurrentView(s) # CurrentView(st[c]))
      BY <2>6 DEF Refresh, TypeOK
    <3>2. s.paused = st[c].paused
      BY ItemsAreViews, SetItemsCursor DEF TypeOK
    <3>3. pc[c] = "loop"
      BY <2>6 DEF Refresh
    <3> HIDE DEF s
    <3>4. CASE CurrentView(s) # CurrentView(st[c])
      BY <3>1, <3>3, <3>4 DEF WakeupInv, Settled
    <3>5. CASE CurrentView(s) = CurrentView(st[c])
      BY <2>0, <3>1, <3>2, <3>3, <3>5 DEF WakeupInv, ScreenAgrees, Settled, Busy,
           InSelect, AfterDwell, AfterNav, TypeOK
    <3> QED BY <3>4, <3>5
  <2>7. CASE AdvanceFires(c) \/ ChimeFires(c)
    BY <2>0, <2>1, <2>7 DEF AdvanceFires, ChimeFires, screen, WakeupInv,
         ScreenAgrees, Settled, Busy, InSelect, AfterDwell, AfterNav, TypeOK
  <2>8. CASE ChimePick(c)
    <3>1. /\ pc[c] = "chime" /\ pc'[c] \in {"chimeGoto", "loop"}
          /\ UNCHANGED <<st, notify, edited, shown, countdown, armed>>
      BY <2>8 DEF ChimePick, screen, TypeOK
    <3> QED BY <2>0, <3>1 DEF WakeupInv, ScreenAgrees, Settled, Busy, InSelect,
              AfterDwell, AfterNav
  <2>9. CASE ForwardCmd(c)
    BY <2>0, <2>9, WakeupFrame DEF ForwardCmd, screen
  <2>10. CASE \/ Connect(c) \/ AdvanceNext(c) \/ ChimeGoto(c) \/ TakeNotify(c)
              \/ Disconnect(c) \/ \E d \in Devices : Open(c, d)
    BY <2>1, <2>10 DEF Connect, AdvanceNext, ChimeGoto, TakeNotify, Disconnect,
         Open, TypeOK
  <2> QED
    BY <2>2, <2>3, <2>4, <2>5, <2>6, <2>7, <2>8, <2>9, <2>10
<1> QED BY <1>2, <1>3

\* Steps of a control request: from the change of the state until the token
\* lies in the channel, its stream is not settled.
LEMMA WakeupCaller ==
  ASSUME TypeOK, NEW r \in Callers, \A k \in Conns : WakeupInv(k),
         \/ CallerStep(r)
         \/ \E d \in Devices, op \in Ops, v \in Views \cup {NoView} : Lookup(r, d, op, v)
  PROVE  \A k \in Conns : WakeupInv(k)'
<1> SUFFICES ASSUME NEW k \in Conns PROVE WakeupInv(k)'
  OBVIOUS
<1> USE DEF CallerStep
<1>1. /\ pc' = pc /\ edited' = edited /\ UNCHANGED <<shown, countdown, armed>>
  BY DEF Lookup, ApplyCommand, GotoMoves, GotoPauses, Signal, SendClientCmd, screen
<1>2. WakeupInv(k)
  OBVIOUS
<1>3. call \in [Callers -> Calls] /\ st \in [Conns -> Playback]
      /\ notify \in [Conns -> BOOLEAN]
  BY DEF TypeOK
<1>4. CASE ApplyCommand(r) \/ GotoMoves(r) \/ GotoPauses(r)
  <2>1. /\ notify' = notify /\ call'[r].conn = call[r].conn
        /\ call'[r].pc \in {"moved", "signal"}
        /\ \A q \in Callers : q # r => call'[q] = call[q]
        /\ k # call[r].conn => st'[k] = st[k]
    <3>1. PICK p \in {"moved", "signal"} : call' = [call EXCEPT ![r].pc = p]
      BY <1>4 DEF ApplyCommand, GotoMoves, GotoPauses
    <3>2. \E s : st' = [st EXCEPT ![call[r].conn] = s]
      BY <1>4 DEF ApplyCommand, GotoMoves, GotoPauses
    <3>3. notify' = notify
      BY <1>4 DEF ApplyCommand, GotoMoves, GotoPauses
    <3>4. call[r] \in Calls
      BY <1>3
    <3>5. k # call[r].conn => st'[k] = st[k]
      BY <1>3, <3>2
    <3> QED BY <1>3, <3>1, <3>3, <3>4, <3>5 DEF Calls
  <2>2. CASE call[r].conn = k
    <3>1. Busy(k)'
      BY <2>1, <2>2 DEF Busy
    <3> QED BY <3>1 DEF WakeupInv, Settled
  <2>3. CASE call[r].conn # k
    <3>1. Busy(k)' <=> Busy(k)
      BY <2>1, <2>3 DEF Busy
    <3>2. st'[k] = st[k]
      BY <2>1, <2>3
    <3> QED BY <1>1, <1>2, <2>1, <3>1, <3>2 DEF WakeupInv, ScreenAgrees, Settled
  <2> QED BY <2>2, <2>3
<1>5. CASE Signal(r)
  <2>1. /\ st' = st /\ call[r].pc = "signal" /\ call' = [call EXCEPT ![r] = Idle]
        /\ notify' = [notify EXCEPT ![call[r].conn] = TRUE]
    BY <1>5 DEF Signal
  <2>2. CASE call[r].conn = k
    <3>1. notify'[k] = TRUE
      BY <1>3, <2>1, <2>2
    <3> QED BY <3>1 DEF WakeupInv, Settled
  <2>3. CASE call[r].conn # k
    <3>1. Busy(k)' <=> Busy(k)
      BY <1>3, <2>1, <2>3 DEF Busy, Idle
    <3>2. notify'[k] = notify[k]
      BY <1>3, <2>1, <2>3
    <3> QED BY <1>1, <1>2, <2>1, <3>1, <3>2 DEF WakeupInv, ScreenAgrees, Settled
  <2> QED BY <2>2, <2>3
<1>6. CASE \/ SendClientCmd(r)
           \/ \E d \in Devices, op \in Ops, v \in Views \cup {NoView} : Lookup(r, d, op, v)
  <2>1. /\ st' = st /\ notify' = notify
        /\ call[r].pc \in {"idle", "found"} /\ call'[r].pc \in {"idle", "found"}
        /\ \A q \in Callers : q # r => call'[q] = call[q]
    BY <1>3, <1>6 DEF SendClientCmd, Lookup, Idle
  <2>2. Busy(k)' <=> Busy(k)
    BY <2>1 DEF Busy
  <2> QED BY <1>1, <1>2, <2>1, <2>2 DEF WakeupInv, ScreenAgrees, Settled
<1> QED BY <1>4, <1>5, <1>6

\* The invariant holds of every stream in every reachable state.
THEOREM WakeupInvariant == Spec => [](\A k \in Conns : WakeupInv(k))
<1>1. Init => \A k \in Conns : WakeupInv(k)
  BY DEF Init, WakeupInv, ScreenAgrees, InSelect, AfterDwell, AfterNav
<1>2. TypeOK /\ (\A k \in Conns : WakeupInv(k)) /\ [Step]_vars =>
        (\A k \in Conns : WakeupInv(k))'
  <2> SUFFICES ASSUME TypeOK, \A k \in Conns : WakeupInv(k), [Step]_vars
               PROVE  \A k \in Conns : WakeupInv(k)'
    OBVIOUS
  <2>1. ASSUME UNCHANGED <<st, notify, edited, pc, shown, countdown, armed, call>>
        PROVE  \A k \in Conns : WakeupInv(k)'
    BY <2>1, WakeupFrame
  <2>2. ASSUME AdminStep PROVE \A k \in Conns : WakeupInv(k)'
    BY <2>1, <2>2 DEF AdminStep, EditPlaylist, DeletePlaylist, AssignPlaylist,
                      AssignPip, rest, screen
  <2>3. ASSUME UNCHANGED vars PROVE \A k \in Conns : WakeupInv(k)'
    BY <2>1, <2>3 DEF vars, screen
  <2> QED BY <2>2, <2>3, WakeupStream, WakeupCaller DEF Step
<1> QED BY <1>1, <1>2, TypeCorrect, PTL DEF Spec

\* A stream that waits with nothing on its way has shown, counted down and
\* armed its timer for the current view, whatever commands, edits, chimes and
\* reconnects came before and in whatever order they interleaved.
THEOREM NoWakeupIsLost == Spec => []NoLostWakeup
<1>1. (\A k \in Conns : WakeupInv(k)) => NoLostWakeup
  BY DEF WakeupInv, ScreenAgrees, NoLostWakeup, InSelect, AfterDwell, AfterNav
<1> QED BY <1>1, WakeupInvariant, PTL

\* An automatic move only ever overruns a pause whose signal is still on its
\* way to the stream.
THEOREM PauseIsRespected == Spec => []AutomaticMoveSawUnpaused
<1>1. (\A k \in Conns : WakeupInv(k)) => AutomaticMoveSawUnpaused
  BY DEF WakeupInv, AutomaticMoveSawUnpaused
<1> QED BY <1>1, WakeupInvariant, PTL

-----------------------------------------------------------------------------
(* Refinement: every step of a goroutine is a step of RemoteControl, or     *)
(* nothing that a viewer could tell.                                        *)

LEMMA PhaseFollowsPc ==
  ASSUME TypeOK, NEW c \in Conns, NEW q \in Pcs, pc' = [pc EXCEPT ![c] = q]
  PROVE  /\ Phases[c] = Phase(c)
         /\ Phases' = [Phases EXCEPT ![c] = Phase(c)']
BY DEF TypeOK, Phases, Phase

LEMMA AskedFrame ==
  ASSUME UNCHANGED <<notify, call>>
  PROVE  UNCHANGED Asked
<1>1. \A k \in Conns : Busy(k)' = Busy(k)
  BY DEF Busy
<1> QED BY <1>1 DEF Asked

\* The playlist that a stream reads is one that an editor may have written.
LEMMA ItemsAreLists ==
  ASSUME TypeOK, NEW r \in Rows
  PROVE  DeviceItems(r) \in Contents \cup {<< >>}
BY DEF DeviceItems, ItemsOf, TypeOK

\* RemoteControl has the cursor's operators from a module instance of its own.
LEMMA SameOperators ==
  /\ \A s : Promise!CurrentView(s) = CurrentView(s)
  /\ \A s : Promise!Next(s) = Next(s) /\ Promise!Prev(s) = Prev(s)
  /\ \A s, v : Promise!Goto(s, v) = Goto(s, v)
  /\ \A s, p : Promise!SetPaused(s, p) = SetPaused(s, p)
  /\ \A s, items : Promise!SetItems(s, items) = SetItems(s, items)
  /\ \A items : Promise!NewState(items) = NewState(items)
BY DEF Promise!CurrentView, CurrentView, Promise!Next, Next, Promise!Prev, Prev,
       Promise!Goto, Goto, Promise!PositionsOf, PositionsOf, Promise!SetPaused,
       SetPaused, Promise!SetItems, SetItems, Promise!NewState, NewState

\* Opening and closing.
LEMMA ConnectionFollows ==
  ASSUME TypeOK, NEW c \in Conns,
         Disconnect(c) \/ Connect(c) \/ \E d \in Devices : Open(c, d)
  PROVE  Promise!Act(c) \/ UNCHANGED Promise!vars
<1>1. ASSUME NEW d \in Devices, Open(c, d) PROVE Promise!Begin(c)
  <2>1. DeviceItems(row[d]) \in Contents \cup {<< >>}
    BY ItemsAreLists DEF TypeOK
  <2>2. /\ Phases[c] = "off" /\ Phases' = [Phases EXCEPT ![c] = "awake"]
    BY <1>1, PhaseFollowsPc DEF Open, Phase, Pcs, TypeOK
  <2>3. Asked' = [Asked EXCEPT ![c] = FALSE]
    <3>1. \A k \in Conns : Busy(k)' = Busy(k)
      BY <1>1 DEF Open, Busy
    <3>2. ~ Busy(c)
      BY <1>1 DEF Open, Busy
    <3> QED BY <1>1, <3>1, <3>2 DEF Open, Asked, TypeOK
  <2> QED BY <1>1, <2>1, <2>2, <2>3, SameOperators DEF Open, Promise!Begin
<1>2. CASE Disconnect(c)
  <2>1. Phases[c] # "off" /\ Phases' = [Phases EXCEPT ![c] = "off"]
    BY <1>2, PhaseFollowsPc DEF Disconnect, Phase, Pcs, TypeOK
  <2> QED BY <1>2, <2>1, AskedFrame
          DEF Disconnect, screen, Promise!End, Promise!told, Promise!Act
<1>3. CASE Connect(c)
  <2>1. UNCHANGED Phases
    BY <1>3 DEF Connect, Phases, Phase, TypeOK
  <2> QED BY <1>3, <2>1, AskedFrame DEF Connect, screen, Promise!vars, Promise!told
<1> QED BY <1>1, <1>2, <1>3 DEF Promise!Act

\* What is told to the television, and going to rest.
LEMMA SendingFollows ==
  ASSUME TypeOK, NEW c \in Conns, WakeupInv(c),
         SendNavigate(c) \/ SendDwell(c) \/ SendGreeting(c) \/ Arm(c)
  PROVE  Promise!Act(c) \/ UNCHANGED Promise!vars
<1>1. CASE SendNavigate(c)
  <2>1. Phases[c] = "awake" /\ UNCHANGED Phases
    BY <1>1 DEF SendNavigate, AfterSend, Phases, Phase, TypeOK
  <2>2. shown' = [shown EXCEPT ![c] = IF CurrentView(st[c]) = NoView THEN @
                                      ELSE CurrentView(st[c])]
    BY <1>1 DEF SendNavigate, TypeOK
  <2> QED BY <1>1, <2>1, <2>2, AskedFrame, SameOperators
          DEF SendNavigate, Promise!TellView, Promise!Act
<1>2. CASE SendDwell(c)
  <2>1. Phases[c] = "awake" /\ UNCHANGED Phases
    BY <1>2 DEF SendDwell, AfterSend, Phases, Phase, TypeOK
  <2> QED BY <1>2, <2>1, AskedFrame
          DEF SendDwell, Promise!TellPause, Promise!Countdown, Promise!Act
<1>3. CASE SendGreeting(c)
  <2>1. UNCHANGED Phases
    BY <1>3 DEF SendGreeting, Phases, Phase, TypeOK
  <2> QED BY <1>3, <2>1, AskedFrame DEF SendGreeting, Promise!vars, Promise!told
<1>4. CASE Arm(c)
  <2>1. Phases[c] = "awake" /\ Phases' = [Phases EXCEPT ![c] = "resting"]
    BY <1>4, PhaseFollowsPc DEF Arm, Phase, Pcs, TypeOK
  <2>2. UNCHANGED Asked
    BY <1>4, AskedFrame DEF Arm
  <2>3. Promise!Accurate(c)'
    BY <1>4, <2>2, SameOperators
       DEF Arm, Asked, TypeOK, WakeupInv, Settled, ScreenAgrees, AfterNav,
           AfterDwell, Promise!Accurate, Promise!Countdown
  <2> QED BY <1>4, <2>1, <2>2, <2>3, SameOperators DEF Arm, Promise!Rest, Promise!Act
<1> QED BY <1>1, <1>2, <1>3, <1>4

\* A stream that is about to jump has chosen a view with a clock.
AimsAtClock == \A c \in Conns : pc[c] = "chimeGoto" => aim[c] \in ClockViews

LEMMA AnnouncedIsClock ==
  ASSUME NEW items \in Seq(Views), AnnounceClockView(items) # NoView
  PROVE  AnnounceClockView(items) \in ClockViews
<1> DEFINE at == ClockPositions(items)
           k == CHOOSE i \in at : \A j \in at : i <= j
<1>1. at # {} /\ AnnounceClockView(items) = items[k]
  BY DEF AnnounceClockView
<1>2. at \in SUBSET Nat /\ \A i \in at : items[i] \in ClockViews
  BY DEF ClockPositions
<1> HIDE DEF at
<1>3. \E i \in at : \A j \in at : i <= j
  BY <1>1, <1>2, LeastNatural
<1> QED BY <1>1, <1>2, <1>3

LEMMA JumpsAreAimed == Spec => []AimsAtClock
<1>1. Init => AimsAtClock
  BY DEF Init, AimsAtClock
<1>2. TypeOK /\ AimsAtClock /\ [Step]_vars => AimsAtClock'
  <2> SUFFICES ASSUME TypeOK, AimsAtClock, [Step]_vars PROVE AimsAtClock'
    OBVIOUS
  <2>1. ASSUME UNCHANGED <<pc, aim>> PROVE AimsAtClock'
    BY <2>1 DEF AimsAtClock
  <2>2. ASSUME NEW c \in Conns,
               \/ StreamStep(c) \/ SelectStep(c) \/ Disconnect(c)
               \/ \E d \in Devices : Open(c, d)
        PROVE  AimsAtClock'
    <3>1. CASE ChimePick(c)
      <4>1. mine[c] \in Rows
        BY DEF TypeOK
      <4>2. DeviceItems(mine[c]) \in Seq(Views)
        BY <4>1, ItemsAreViews
      <4>3. pc'[c] = "chimeGoto" => aim'[c] \in ClockViews
        BY <3>1, <4>2, AnnouncedIsClock DEF ChimePick, TypeOK
      <4> QED BY <3>1, <4>3 DEF ChimePick, AimsAtClock, TypeOK
    <3>2. CASE ~ ChimePick(c)
      <4>1. /\ pc'[c] # "chimeGoto"
            /\ \A k \in Conns \ {c} : pc'[k] = pc[k] /\ aim'[k] = aim[k]
            \/ UNCHANGED <<pc, aim>>
        BY <2>2, <3>2 DEF StreamStep, SelectStep, Open, Connect, Disconnect,
             SendNavigate, SendDwell, SendGreeting, Arm, AfterSend, AdvanceNext,
             ChimeGoto, TakeNotify, ForwardCmd, Refresh, AdvanceFires, ChimeFires,
             TypeOK
      <4> QED BY <2>1, <4>1 DEF AimsAtClock
    <3> QED BY <3>1, <3>2
  <2>3. ASSUME NEW r \in Callers,
               \/ CallerStep(r)
               \/ \E d \in Devices, op \in Ops, v \in Views \cup {NoView} : Lookup(r, d, op, v)
        PROVE  AimsAtClock'
    BY <2>1, <2>3 DEF CallerStep, Lookup, ApplyCommand, GotoMoves, GotoPauses,
                      Signal, SendClientCmd
  <2>4. ASSUME AdminStep PROVE AimsAtClock'
    BY <2>1, <2>4 DEF AdminStep, EditPlaylist, DeletePlaylist, AssignPlaylist,
                      AssignPip, rest
  <2>5. ASSUME UNCHANGED vars PROVE AimsAtClock'
    BY <2>1, <2>5 DEF vars
  <2> QED BY <2>2, <2>3, <2>4, <2>5 DEF Step
<1> QED BY <1>1, <1>2, TypeCorrect, PTL DEF Spec

\* The select loop and the moves it leads to.
LEMMA SelectFollows ==
  ASSUME TypeOK, NEW c \in Conns, WakeupInv(c), AimsAtClock,
         SelectStep(c) \/ AdvanceNext(c) \/ ChimePick(c) \/ ChimeGoto(c)
  PROVE  Promise!Act(c) \/ UNCHANGED Promise!vars
<1>1. CASE TakeNotify(c)
  <2>1. /\ Phases[c] = "resting" /\ Phases' = [Phases EXCEPT ![c] = "awake"]
    BY <1>1, PhaseFollowsPc DEF TakeNotify, Phase, Pcs, TypeOK
  <2>2. Asked' \in {Asked, [Asked EXCEPT ![c] = FALSE]}
    <3>1. \A k \in Conns : Busy(k)' = Busy(k)
      BY <1>1 DEF TakeNotify, Busy
    <3>2. notify' = [notify EXCEPT ![c] = FALSE] /\ notify \in [Conns -> BOOLEAN]
      BY <1>1 DEF TakeNotify, TypeOK
    <3>3. Asked' = [k \in Conns |-> (notify'[k] \/ Busy(k))]
      BY <3>1 DEF Asked
    <3> HIDE DEF Busy
    <3>4. \A k \in Conns : k # c => notify'[k] = notify[k]
      BY <3>2
    <3>5. notify'[c] = FALSE
      BY <3>2
    <3>6. CASE Busy(c)
      <4>1. \A k \in Conns : (notify'[k] \/ Busy(k)) = (notify[k] \/ Busy(k))
        BY <1>1, <3>4, <3>6 DEF TakeNotify
      <4> QED BY <3>3, <4>1 DEF Asked
    <3>7. CASE ~ Busy(c)
      <4>1. \A k \in Conns : (notify'[k] \/ Busy(k)) = [Asked EXCEPT ![c] = FALSE][k]
        BY <3>4, <3>5, <3>7 DEF Asked
      <4> QED BY <3>3, <4>1 DEF Asked
    <3> QED BY <3>6, <3>7
  <2> QED BY <1>1, <2>1, <2>2
          DEF TakeNotify, screen, Promise!Wake, Promise!told, Promise!Act
<1>2. CASE ForwardCmd(c)
  <2>1. UNCHANGED Phases
    BY <1>2 DEF ForwardCmd, Phases, Phase
  <2> QED BY <1>2, <2>1, AskedFrame DEF ForwardCmd, screen, Promise!vars, Promise!told
<1>3. CASE Refresh(c)
  <2>1. Phases[c] = "resting" /\ UNCHANGED Phases
    BY <1>3 DEF Refresh, Phases, Phase
  <2>2. DeviceItems(mine[c]) \in Contents \cup {<< >>}
    BY ItemsAreLists DEF TypeOK
  <2>3. st'[c] = SetItems(st[c], DeviceItems(mine[c]))
    BY <1>3 DEF Refresh, TypeOK
  <2> QED BY <1>3, <2>1, <2>2, <2>3, AskedFrame, SameOperators
          DEF Refresh, Promise!Edit, Promise!told, Promise!Act
<1>4. CASE AdvanceFires(c) \/ ChimeFires(c)
  <2>1. /\ Phases[c] = "resting" /\ Phases' = [Phases EXCEPT ![c] = "awake"]
    <3>1. PICK q \in {"nav", "advance", "chime"} :
            pc[c] = "loop" /\ pc' = [pc EXCEPT ![c] = q]
      BY <1>4 DEF AdvanceFires, ChimeFires
    <3> QED BY <3>1, PhaseFollowsPc DEF Phase, Pcs, TypeOK
  <2> QED BY <1>4, <2>1, AskedFrame
          DEF AdvanceFires, ChimeFires, screen, Promise!Wake, Promise!told, Promise!Act
<1>5. CASE AdvanceNext(c) \/ ChimeGoto(c)
  <2>1. Phases[c] = "awake" /\ UNCHANGED Phases
    BY <1>5 DEF AdvanceNext, ChimeGoto, Phases, Phase, TypeOK
  <2>2. st[c].paused => Asked[c]
    BY <1>5 DEF AdvanceNext, ChimeGoto, WakeupInv, Asked
  <2>3. CASE AdvanceNext(c)
    BY <2>1, <2>2, <2>3, AskedFrame, SameOperators
       DEF AdvanceNext, screen, Promise!Move, Promise!Moved, Promise!told, Promise!Act
  <2>4. CASE ChimeGoto(c)
    <3>1. aim[c] \in ClockViews
      BY <2>4 DEF ChimeGoto, AimsAtClock
    <3> QED BY <2>1, <2>2, <2>4, <3>1, AskedFrame, SameOperators
            DEF ChimeGoto, screen, Promise!Move, Promise!Moved, Promise!told, Promise!Act
  <2> QED BY <1>5, <2>3, <2>4
<1>6. CASE ChimePick(c)
  <2>1. CASE pc' = [pc EXCEPT ![c] = "chimeGoto"]
    <3>1. UNCHANGED Phases
      BY <1>6, <2>1 DEF ChimePick, Phases, Phase, TypeOK
    <3> QED BY <1>6, <3>1, AskedFrame DEF ChimePick, screen, Promise!vars, Promise!told
  <2>2. CASE pc' = [pc EXCEPT ![c] = "loop"]
    <3>1. /\ Phases[c] = "awake" /\ Phases' = [Phases EXCEPT ![c] = "resting"]
      BY <1>6, <2>2, PhaseFollowsPc DEF ChimePick, Phase, Pcs, TypeOK
    <3>2. UNCHANGED Asked
      BY <1>6, AskedFrame DEF ChimePick
    <3>3. Promise!Accurate(c)'
      BY <1>6, <3>2, SameOperators
         DEF ChimePick, screen, Asked, WakeupInv, Settled, ScreenAgrees, AfterNav,
             AfterDwell, InSelect, Promise!Accurate, Promise!Countdown
    <3> QED BY <1>6, <3>1, <3>2, <3>3
            DEF ChimePick, screen, Promise!Rest, Promise!Act
  <2> QED BY <1>6, <2>1, <2>2 DEF ChimePick
<1> QED BY <1>1, <1>2, <1>3, <1>4, <1>5, <1>6 DEF SelectStep

\* A control request: its change of the cursor is a command, and until its signal
\* is given the stream has not taken notice.
LEMMA CallerFollows ==
  ASSUME TypeOK, NEW r \in Callers,
         \/ CallerStep(r)
         \/ \E d \in Devices, op \in Ops, v \in Views \cup {NoView} : Lookup(r, d, op, v)
  PROVE  (\E c \in Conns : Promise!Remote(c)) \/ UNCHANGED Promise!vars
<1> DEFINE c == call[r].conn
<1>0. /\ call \in [Callers -> Calls] /\ call[r] \in Calls
      /\ st \in [Conns -> Playback] /\ notify \in [Conns -> BOOLEAN]
  BY DEF TypeOK
<1>1. UNCHANGED <<Phases, shown, countdown, armed, edited>>
  BY DEF CallerStep, Lookup, ApplyCommand, GotoMoves, GotoPauses, Signal,
         SendClientCmd, screen, Phases, Phase
<1>2. CASE ApplyCommand(r) \/ GotoMoves(r) \/ GotoPauses(r)
  <2>1. PICK p \in {"moved", "signal"} : call' = [call EXCEPT ![r].pc = p]
    BY <1>2 DEF ApplyCommand, GotoMoves, GotoPauses
  <2>2. notify' = notify /\ call[r].pc \in {"found", "moved"}
    BY <1>2 DEF ApplyCommand, GotoMoves, GotoPauses
  <2>3. /\ call'[r].pc = p /\ call'[r].conn = c
        /\ \A q \in Callers \ {r} : call'[q] = call[q]
    BY <1>0, <2>1 DEF Calls
  <2>4. c \in Conns => Busy(c)'
    BY <2>3 DEF Busy
  <2>5. \A k \in Conns \ {c} : Busy(k)' = Busy(k)
    BY <2>3 DEF Busy
  <2> HIDE DEF c
  <2>6. CASE c \in Conns
    <3>1. Asked' = [Asked EXCEPT ![c] = TRUE]
      <4> DEFINE A(k) == notify[k] \/ Busy(k)
      <4>1. ASSUME NEW k \in Conns, k # c
            PROVE  A(k)' = A(k)
        BY <2>2, <2>5, <4>1
      <4>2. /\ Asked = [k \in Conns |-> A(k)]
            /\ Asked' = [k \in Conns |-> A(k)']
        BY DEF Asked
      <4> HIDE DEF A
      <4>3. Asked' = [k \in Conns |-> IF k = c THEN TRUE ELSE A(k)]
        <5>1. ASSUME NEW k \in Conns
              PROVE  A(k)' = IF k = c THEN TRUE ELSE A(k)
          <6>1. CASE k = c
            <7>1. Busy(k)'
              BY <2>3, <6>1 DEF Busy
            <7>2. A(k)' = TRUE
              BY <7>1 DEF A
            <7> QED BY <6>1, <7>2
          <6>2. CASE k # c
            BY <4>1, <6>2
          <6> QED BY <6>1, <6>2
        <5> QED BY <4>2, <5>1
      <4> QED BY <4>2, <4>3, <2>6
    <3>2. \E s \in Promise!Commanded(st[c]) : st' = [st EXCEPT ![c] = s]
      <4>1. CASE ApplyCommand(r)
        <5>1. st' = [st EXCEPT ![c] = Obey(call[r].op, st[c])]
          BY <4>1 DEF ApplyCommand, c
        <5>2. call[r].op \in {"next", "prev", "pause", "resume"}
          BY <4>1 DEF ApplyCommand, MoveCmds, PauseCmds
        <5>3. Obey(call[r].op, st[c]) \in Promise!Commanded(st[c])
          BY <5>2, SameOperators DEF Obey, Promise!Commanded
        <5> QED BY <5>1, <5>3
      <4>2. CASE GotoMoves(r)
        <5>1. st' = [st EXCEPT ![c] = Goto(st[c], call[r].view)]
          BY <4>2 DEF GotoMoves, c
        <5>2. call[r].view \in Views \cup {NoView}
          BY <1>0 DEF Calls
        <5> QED BY <5>1, <5>2, SameOperators DEF Promise!Commanded
      <4>3. CASE GotoPauses(r)
        BY <4>3, SameOperators DEF GotoPauses, Promise!Commanded, c
      <4> QED BY <1>2, <4>1, <4>2, <4>3
    <3> QED BY <1>1, <2>6, <3>1, <3>2 DEF Promise!Remote, Promise!told
  <2>7. CASE c \notin Conns
    <3>1. st' = st
      <4>1. \E s : st' = [st EXCEPT ![c] = s]
        BY <1>2 DEF ApplyCommand, GotoMoves, GotoPauses, c
      <4> QED BY <1>0, <2>7, <4>1
    <3>2. UNCHANGED Asked
      BY <2>2, <2>5, <2>7 DEF Asked
    <3> QED BY <1>1, <3>1, <3>2 DEF Promise!vars, Promise!told
  <2> QED BY <2>6, <2>7
<1>3. CASE Signal(r)
  <2>1. /\ st' = st /\ call[r].pc = "signal" /\ call' = [call EXCEPT ![r] = Idle]
        /\ notify' = [notify EXCEPT ![c] = TRUE]
    BY <1>3 DEF Signal
  <2>2. \A k \in Conns \ {c} : Busy(k)' = Busy(k)
    BY <1>0, <2>1 DEF Busy, Idle
  <2>3. c \in Conns => Busy(c)
    BY <2>1 DEF Busy
  <2>4. UNCHANGED Asked
    <3> HIDE DEF c
    <3>1. ASSUME NEW k \in Conns
          PROVE  (notify[k] \/ Busy(k))' <=> (notify[k] \/ Busy(k))
      BY <1>0, <2>1, <2>2, <2>3
    <3> QED BY <3>1 DEF Asked
  <2> QED BY <1>1, <2>1, <2>4 DEF Promise!vars, Promise!told
<1>4. CASE \/ SendClientCmd(r)
           \/ \E d \in Devices, op \in Ops, v \in Views \cup {NoView} : Lookup(r, d, op, v)
  <2>1. /\ st' = st /\ notify' = notify
        /\ call[r].pc \in {"idle", "found"} /\ call'[r].pc \in {"idle", "found"}
        /\ \A q \in Callers \ {r} : call'[q] = call[q]
    BY <1>0, <1>4 DEF SendClientCmd, Lookup, Idle
  <2>2. \A k \in Conns : Busy(k)' <=> Busy(k)
    BY <2>1 DEF Busy
  <2>3. UNCHANGED Asked
    BY <2>1, <2>2 DEF Asked
  <2> QED BY <1>1, <2>1, <2>3 DEF Promise!vars, Promise!told
<1> QED BY <1>2, <1>3, <1>4 DEF CallerStep

\* The streams implement RemoteControl: locks, registry, channel, requests and
\* tables come to one cursor per stream and a screen that follows it.
THEOREM StreamsFollowTheRemote == Spec => FollowsTheRemote
<1>1. Init => Promise!Init
  <2> SUFFICES ASSUME Init PROVE Promise!Init
    OBVIOUS
  <2>1. Phases = [c \in Conns |-> "off"]
    BY DEF Init, Phases, Phase
  <2>2. Asked = [c \in Conns |-> FALSE]
    <3>1. ASSUME NEW c \in Conns PROVE (notify[c] \/ Busy(c)) = FALSE
      BY DEF Init, Busy, Idle
    <3> QED BY <3>1 DEF Asked
  <2> QED BY <2>1, <2>2, SameOperators DEF Init, Promise!Init
<1>2. TypeOK /\ (\A k \in Conns : WakeupInv(k)) /\ AimsAtClock /\ [Step]_vars =>
        [\E c \in Conns : Promise!Act(c)]_(Promise!vars)
  <2> SUFFICES ASSUME TypeOK, \A k \in Conns : WakeupInv(k), AimsAtClock, [Step]_vars
               PROVE  (\E c \in Conns : Promise!Act(c)) \/ UNCHANGED Promise!vars
    OBVIOUS
  <2>1. ASSUME UNCHANGED <<st, notify, edited, pc, shown, countdown, armed, call>>
        PROVE  UNCHANGED Promise!vars
    BY <2>1, AskedFrame DEF Promise!vars, Promise!told, Phases, Phase
  <2>2. ASSUME AdminStep PROVE UNCHANGED Promise!vars
    BY <2>1, <2>2 DEF AdminStep, EditPlaylist, DeletePlaylist, AssignPlaylist,
                      AssignPip, rest, screen
  <2>3. ASSUME UNCHANGED vars PROVE UNCHANGED Promise!vars
    BY <2>1, <2>3 DEF vars, screen
  <2>4. ASSUME NEW c \in Conns,
               \/ StreamStep(c) \/ SelectStep(c) \/ Disconnect(c)
               \/ \E d \in Devices : Open(c, d)
        PROVE  Promise!Act(c) \/ UNCHANGED Promise!vars
    BY <2>4, ConnectionFollows, SendingFollows, SelectFollows DEF StreamStep
  <2>5. ASSUME NEW r \in Callers,
               \/ CallerStep(r)
               \/ \E d \in Devices, op \in Ops, v \in Views \cup {NoView} : Lookup(r, d, op, v)
        PROVE  (\E c \in Conns : Promise!Act(c)) \/ UNCHANGED Promise!vars
    BY <2>5, CallerFollows DEF Promise!Act
  <2> QED BY <2>2, <2>3, <2>4, <2>5 DEF Step
<1> QED BY <1>1, <1>2, TypeCorrect, WakeupInvariant, JumpsAreAimed, PTL
        DEF Spec, FollowsTheRemote, Promise!Spec
=============================================================================
