-------------------------- MODULE KioskPageProofs --------------------------
(***************************************************************************)
(* The page of a television and its dialogue with the server: types, the   *)
(* timers, and what the page knows of the cursor, for every playlist,      *)
(* every display time, every capacity of the connection and any number of  *)
(* viewers.                                                                *)
(***************************************************************************)
EXTENDS KioskPage, SequenceTheorems, TLAPS

LEMMA PlaylistFacts ==
  /\ DOMAIN Playlist = 1 .. Len(Playlist) /\ Len(Playlist) \in Nat \ {0}
  /\ 1 \in DOMAIN Playlist
  /\ \A i \in DOMAIN Playlist : Playlist[i] \in Views
BY PageConstants DEF Views

LEMMA Bounds ==
  /\ Dwell \in Nat \ {0} /\ DefaultDwell \in Nat \ {0}
  /\ RefreshPeriod \in Nat \ {0} /\ Cap \in Nat \ {0}
  /\ MaxPresses \in Nat /\ MaxReconnects \in Nat /\ MaxLoads \in Nat
  /\ MaxEvents \in Nat /\ MaxEvents >= 2
BY PageConstants

\* A counter of a table is raised or lowered within its bounds.
LEMMA CounterTyped ==
  ASSUME NEW K, NEW m \in Nat, NEW f \in [K -> 0 .. m], NEW k \in K, f[k] > 0
  PROVE  [f EXCEPT ![k] = @ - 1] \in [K -> 0 .. m]
OBVIOUS

LEMMA SuccessorInRange ==
  ASSUME NEW i \in DOMAIN Playlist
  PROVE  Successor(i) \in DOMAIN Playlist
<1> DEFINE n == Len(Playlist)
<1>1. n \in Nat \ {0} /\ i \in Nat /\ DOMAIN Playlist = 1 .. n
  BY PlaylistFacts
<1> HIDE DEF n
<1>2. i % n \in 0 .. n - 1
  BY <1>1
<1> QED BY <1>1, <1>2 DEF Successor, n

LEMMA AnnounceTyped ==
  ASSUME NEW i \in DOMAIN Playlist, NEW p \in BOOLEAN
  PROVE  Announce(i, p) \in Seq(Messages) /\ Len(Announce(i, p)) = 2
<1>1. Navigate(Playlist[i]) \in Messages
  BY PlaylistFacts DEF Messages
<1>2. DwellOf(IF p THEN 0 ELSE Dwell) \in Messages
  BY DEF Messages
<1> QED BY <1>1, <1>2 DEF Announce

LEMMA ServerDwellTyped ==
  ASSUME NEW v
  PROVE  ServerDwell(v) \in Off .. Cap \cup Off .. Dwell
BY PageConstants DEF ServerDwell, Off

LEMMA RenderingsTyped ==
  ASSUME NEW v \in Views, NEW s \in Renderings(v)
  PROVE  s \in [view : Views, kind : {"plain", "running", "ended"}]
BY DEF Renderings

\* A timer is set only for a plain screen that nothing else ends.
LEMMA EndFallbackFits ==
  ASSUME NEW s, NEW secs \in {0, Dwell, DefaultDwell}
  PROVE  /\ EndFallback(s, secs) \in Off .. Dwell \cup Off .. DefaultDwell
         /\ EndFallback(s, secs) # Off => s.kind = "plain" /\ s.view \in OnEnd
BY PageConstants DEF EndFallback, Off

\* The server announces a position of its playlist.
LEMMA SendCurrentTyped ==
  ASSUME NEW i \in DOMAIN Playlist, NEW p \in BOOLEAN, stream \in Seq(Messages),
         SendCurrent(i, p)
  PROVE  /\ stream' \in Seq(Messages) /\ Len(stream') <= MaxEvents
         /\ advanceIn' \in Off .. Cap \cup Off .. Dwell
<1>1. Announce(i, p) \in Seq(Messages) /\ Len(Announce(i, p)) = 2
  BY AnnounceTyped
<1>2. stream' = stream \o Announce(i, p) /\ Len(stream) + 2 <= MaxEvents
  BY DEF SendCurrent
<1>3. stream' \in Seq(Messages) /\ Len(stream') = Len(stream) + 2
  <2> DEFINE a == Announce(i, p)
  <2>1. a \in Seq(Messages) /\ Len(a) = 2 /\ stream' = stream \o a
    BY <1>1, <1>2
  <2> HIDE DEF a
  <2>2. stream \o a \in Seq(Messages) /\ Len(stream \o a) = Len(stream) + Len(a)
    BY <2>1, ConcatProperties, Zenon
  <2> QED BY <2>1, <2>2
<1>4. advanceIn' \in Off .. Cap \cup Off .. Dwell
  BY ServerDwellTyped DEF SendCurrent
<1> QED BY <1>2, <1>3, <1>4

\* An event leaves the connection.
LEMMA ReceiveTyped ==
  ASSUME TypeOK, NEW e, Receive(e)
  PROVE  /\ stream' \in Seq(Messages) /\ Len(stream') <= MaxEvents
         /\ Head(stream) \in Messages
<1>1. stream \in Seq(Messages) /\ stream # << >> /\ stream' = Tail(stream)
      /\ Len(stream) <= MaxEvents
  BY DEF TypeOK, Receive
<1> HIDE DEF Messages
<1>2. MaxEvents \in Nat
  BY PageConstants
<1> QED BY <1>1, <1>2

LEMMA LoadTyped ==
  ASSUME NEW v \in Views, loads \in [Views -> 0 .. MaxLoads], Load(v)
  PROVE  loads' \in [Views -> 0 .. MaxLoads]
BY PageConstants DEF Load

LEMMA AskTyped ==
  ASSUME NEW k \in Kinds, requests \in [Kinds -> 0 .. MaxLoads], Ask(k)
  PROVE  requests' \in [Kinds -> 0 .. MaxLoads]
BY PageConstants DEF Ask

-----------------------------------------------------------------------------
Inv == TypeOK /\ FallbackFitsStage

\* What the server does leaves the page alone.
LEMMA ServerKeepsInv ==
  ASSUME Inv, UNCHANGED <<page, presses, reconnects>>,
         cur' \in DOMAIN Playlist, paused' \in BOOLEAN,
         advanceIn' \in Off .. Cap \cup Off .. Dwell, refreshIn' \in 0 .. RefreshPeriod,
         stream' \in Seq(Messages), Len(stream') <= MaxEvents,
         requests' \in [Kinds -> 0 .. MaxLoads]
  PROVE  Inv'
<1> HIDE DEF Messages
<1> QED BY DEF Inv, TypeOK, FallbackFitsStage, page

\* What the page does leaves the server's side alone, but for events and requests.
LEMMA PageKeepsTypes ==
  ASSUME TypeOK, UNCHANGED <<server, reconnects>>,
         stream' \in Seq(Messages), Len(stream') <= MaxEvents,
         requests' \in [Kinds -> 0 .. MaxLoads],
         current' \in Views, override' \in Views \cup {NoView},
         stage' \in [view : Views, kind : {"plain", "running", "ended"}],
         lastDwell' \in {0, Dwell, DefaultDwell},
         fallback' \in Off .. Dwell \cup Off .. DefaultDwell, focus' \in BOOLEAN,
         loads' \in [Views -> 0 .. MaxLoads], presses' \in 0 .. MaxPresses
  PROVE  TypeOK'
BY DEF TypeOK, server

LEMMA AdvanceFiresKeeps == Inv /\ AdvanceFires => Inv'
<1> SUFFICES ASSUME Inv, AdvanceFires PROVE Inv'
  OBVIOUS
<1>1. cur' \in DOMAIN Playlist /\ paused \in BOOLEAN /\ stream \in Seq(Messages)
  BY SuccessorInRange DEF Inv, TypeOK, AdvanceFires
<1>2. stream' \in Seq(Messages) /\ Len(stream') <= MaxEvents
      /\ advanceIn' \in Off .. Cap \cup Off .. Dwell
  BY <1>1, SendCurrentTyped DEF AdvanceFires
<1> QED BY <1>1, <1>2, ServerKeepsInv DEF Inv, TypeOK, AdvanceFires

LEMMA RefreshFiresKeeps == Inv /\ RefreshFires => Inv'
<1> SUFFICES ASSUME Inv, RefreshFires PROVE Inv'
  OBVIOUS
<1>1. RefreshMsg \in Messages
  BY DEF Messages
<1>2. stream \in Seq(Messages) /\ stream' = Append(stream, RefreshMsg) /\ Len(stream) < MaxEvents
  BY DEF Inv, TypeOK, RefreshFires
<1>3. stream' \in Seq(Messages) /\ Len(stream') <= MaxEvents
  BY <1>1, <1>2, Bounds
<1>4. refreshIn' \in 0 .. RefreshPeriod
  BY Bounds DEF RefreshFires
<1> QED BY <1>3, <1>4, ServerKeepsInv DEF Inv, TypeOK, RefreshFires

LEMMA ServeKeeps ==
  ASSUME Inv, NEW k \in Kinds, Serve(k)
  PROVE  Inv'
<1>1. cur' \in DOMAIN Playlist
  BY SuccessorInRange DEF Inv, TypeOK, Serve
<1>2. paused' \in BOOLEAN
  BY DEF Inv, TypeOK, Serve
<1>3. stream' \in Seq(Messages) /\ Len(stream') <= MaxEvents
      /\ advanceIn' \in Off .. Cap \cup Off .. Dwell
  BY <1>1, <1>2, SendCurrentTyped DEF Serve, Inv, TypeOK
<1>4. requests' \in [Kinds -> 0 .. MaxLoads]
  BY CounterTyped, Bounds DEF Inv, TypeOK, Serve
<1> QED BY <1>1, <1>2, <1>3, <1>4, ServerKeepsInv DEF Inv, TypeOK, Serve

LEMMA DeliverKeeps == Inv /\ Deliver => Inv'
<1> SUFFICES ASSUME Inv, Deliver PROVE Inv'
  OBVIOUS
<1>1. CASE OnNavigate
  <2> DEFINE m == Head(stream)
  <2>1. stream' \in Seq(Messages) /\ Len(stream') <= MaxEvents /\ m \in Messages
    BY <1>1, ReceiveTyped DEF OnNavigate, Inv
  <2>2. m.event = "navigate"
    BY <1>1 DEF OnNavigate, Receive
  <2>3. m.view \in Views
    BY <2>1, <2>2 DEF Messages, Navigate, DwellOf, RefreshMsg
  <2> HIDE DEF m
  <2>4. current' \in Views /\ override' \in Views \cup {NoView}
        /\ loads' \in [Views -> 0 .. MaxLoads]
    BY <1>1, <2>3, LoadTyped DEF OnNavigate, Inv, TypeOK, m
  <2>5. UNCHANGED <<server, requests, stage, lastDwell, fallback, focus, presses, reconnects>>
    BY <1>1 DEF OnNavigate, Receive
  <2>6. TypeOK'
    BY <2>1, <2>4, <2>5, PageKeepsTypes DEF Inv, TypeOK
  <2> QED BY <2>5, <2>6 DEF Inv, FallbackFitsStage
<1>2. CASE OnDwell
  <2> DEFINE m == Head(stream)
  <2>1. stream' \in Seq(Messages) /\ Len(stream') <= MaxEvents /\ m \in Messages
    BY <1>2, ReceiveTyped DEF OnDwell, Inv
  <2>2. m.event = "dwell"
    BY <1>2 DEF OnDwell, Receive
  <2>3. m.secs \in {0, Dwell}
    BY <2>1, <2>2 DEF Messages, Navigate, DwellOf, RefreshMsg
  <2>4. lastDwell' \in {0, Dwell, DefaultDwell}
    BY <1>2, <2>3 DEF OnDwell
  <2>5. UNCHANGED <<server, requests, stage, fallback, focus, presses, reconnects, current,
                    override, loads>>
    BY <1>2 DEF OnDwell, Receive
  <2>6. TypeOK'
    BY <2>1, <2>4, <2>5, PageKeepsTypes DEF Inv, TypeOK
  <2> QED BY <2>5, <2>6 DEF Inv, FallbackFitsStage
<1>3. CASE OnRefresh
  <2>1. stream' \in Seq(Messages) /\ Len(stream') <= MaxEvents
    BY <1>3, ReceiveTyped DEF OnRefresh, Inv
  <2>2. Target \in Views
    BY DEF Target, Inv, TypeOK
  <2>3. loads' \in [Views -> 0 .. MaxLoads]
    BY <1>3, <2>2, LoadTyped DEF OnRefresh, Inv, TypeOK
  <2>4. UNCHANGED <<server, requests, stage, lastDwell, fallback, focus, presses, reconnects,
                    current, override>>
    BY <1>3 DEF OnRefresh, Receive
  <2>5. TypeOK'
    BY <2>1, <2>3, <2>4, PageKeepsTypes DEF Inv, TypeOK
  <2> QED BY <2>4, <2>5 DEF Inv, FallbackFitsStage
<1> QED BY <1>1, <1>2, <1>3 DEF Deliver

\* A new stage gets the timer it needs.
LEMMA ViewArrivesKeeps ==
  ASSUME Inv, NEW v \in Views, ViewArrives(v)
  PROVE  Inv'
<1>1. stage' \in [view : Views, kind : {"plain", "running", "ended"}]
  BY RenderingsTyped DEF ViewArrives
<1>2. /\ fallback' \in Off .. Dwell \cup Off .. DefaultDwell
      /\ fallback' # Off => stage'.kind = "plain" /\ stage'.view \in OnEnd
  BY EndFallbackFits DEF ViewArrives, Inv, TypeOK
<1>3. loads' \in [Views -> 0 .. MaxLoads] /\ focus' \in BOOLEAN
  BY CounterTyped, Bounds DEF ViewArrives, Inv, TypeOK
<1>4. UNCHANGED <<server, stream, requests, current, override, lastDwell, presses, reconnects>>
  BY DEF ViewArrives
<1>5. TypeOK'
  BY <1>1, <1>2, <1>3, <1>4, PageKeepsTypes DEF Inv, TypeOK
<1> QED BY <1>2, <1>5 DEF Inv, FallbackFitsStage

\* What happens on a screen that stays.
LEMMA ScreenStaysKeeps ==
  ASSUME Inv, UNCHANGED <<server, stream, current, lastDwell, reconnects>>,
         requests' \in [Kinds -> 0 .. MaxLoads], override' \in Views \cup {NoView},
         focus' \in BOOLEAN, loads' \in [Views -> 0 .. MaxLoads], presses' \in 0 .. MaxPresses,
         stage' = stage \/ (stage.kind # "plain" /\ \E k \in {"running", "ended"} :
                              stage' = [stage EXCEPT !.kind = k]),
         fallback' \in {fallback, Off}
  PROVE  Inv'
<1>1. stage' \in [view : Views, kind : {"plain", "running", "ended"}]
  BY DEF Inv, TypeOK
<1>2. fallback' \in Off .. Dwell \cup Off .. DefaultDwell
  <2>1. fallback \in Off .. Dwell \cup Off .. DefaultDwell
    BY DEF Inv, TypeOK
  <2>2. Off \in Off .. Dwell
    BY Bounds DEF Off
  <2> QED BY <2>1, <2>2
<1>3. TypeOK'
  BY <1>1, <1>2, PageKeepsTypes DEF Inv, TypeOK
<1> QED BY <1>3 DEF Inv, FallbackFitsStage

\* A new stream, and with it perhaps a new page.
LEMMA RestartTyped ==
  ASSUME Inv, Restart
  PROVE  /\ cur' \in DOMAIN Playlist /\ paused' \in BOOLEAN
         /\ stream' \in Seq(Messages) /\ Len(stream') <= MaxEvents
         /\ advanceIn' \in Off .. Cap \cup Off .. Dwell /\ refreshIn' \in 0 .. RefreshPeriod
         /\ reconnects' \in 0 .. MaxReconnects
         /\ requests' = requests /\ presses' = presses
<1>1. cur' \in DOMAIN Playlist /\ paused' \in BOOLEAN /\ requests' = requests /\ presses' = presses
  BY PlaylistFacts DEF Restart
<1>2. stream' \in Seq(Messages) /\ Len(stream') = 2
  BY AnnounceTyped, PlaylistFacts DEF Restart
<1>3. advanceIn' \in Off .. Cap \cup Off .. Dwell
  BY ServerDwellTyped DEF Restart
<1>4. refreshIn' \in 0 .. RefreshPeriod /\ reconnects' \in 0 .. MaxReconnects
  <2>1. reconnects \in 0 .. MaxReconnects
    BY DEF Inv, TypeOK
  <2>2. reconnects < MaxReconnects /\ reconnects' = reconnects + 1 /\ refreshIn' = RefreshPeriod
    BY DEF Restart
  <2> QED BY <2>1, <2>2, Bounds
<1>5. Len(stream') <= MaxEvents
  BY <1>2, Bounds
<1> QED BY <1>1, <1>2, <1>3, <1>4, <1>5

LEMMA RestartKeeps == Inv /\ (Reconnect \/ Reload) => Inv'
<1> SUFFICES ASSUME Inv, Reconnect \/ Reload PROVE Inv'
  OBVIOUS
<1>1. Restart
  BY DEF Reconnect, Reload
<1>2. CASE Reconnect
  BY <1>1, <1>2, RestartTyped DEF Inv, TypeOK, FallbackFitsStage, Reconnect, page
<1>3. CASE Reload
  <2>1. Playlist[1] \in Views /\ DefaultDwell \in {0, Dwell, DefaultDwell}
    BY PlaylistFacts
  <2>2. stage' \in [view : Views, kind : {"plain", "running", "ended"}]
    BY <1>3, <2>1, RenderingsTyped DEF Reload
  <2>3. /\ fallback' \in Off .. Dwell \cup Off .. DefaultDwell
        /\ fallback' # Off => stage'.kind = "plain" /\ stage'.view \in OnEnd
    BY <1>3, <2>1, EndFallbackFits DEF Reload
  <2>4. current' \in Views /\ override' \in Views \cup {NoView}
        /\ lastDwell' \in {0, Dwell, DefaultDwell} /\ focus' \in BOOLEAN
    BY <1>3, <2>1 DEF Reload
  <2>5. loads' \in [Views -> 0 .. MaxLoads]
    <3>1. loads' = [v \in Views |-> 0] /\ 0 \in 0 .. MaxLoads
      BY <1>3, Bounds DEF Reload
    <3> QED BY <3>1
  <2> QED BY <1>1, <2>2, <2>3, <2>4, <2>5, RestartTyped DEF Inv, TypeOK, FallbackFitsStage
<1> QED BY <1>2, <1>3

LEMMA TickKeeps == Inv /\ Tick => Inv'
<1> SUFFICES ASSUME Inv, Tick PROVE Inv'
  OBVIOUS
<1>1. advanceIn' \in Off .. Cap \cup Off .. Dwell /\ refreshIn' \in 0 .. RefreshPeriod
  BY Bounds DEF Inv, TypeOK, Tick, Off
<1>2. /\ fallback' \in Off .. Dwell \cup Off .. DefaultDwell
      /\ fallback' # Off => fallback # Off
  BY Bounds DEF Inv, TypeOK, Tick, Off
<1>3. UNCHANGED <<cur, paused, stream, requests, current, override, stage, lastDwell,
                  focus, loads, presses, reconnects>>
  BY DEF Tick
<1> QED BY <1>1, <1>2, <1>3 DEF Inv, TypeOK, FallbackFitsStage

LEMMA InitInv == Init => Inv
<1> SUFFICES ASSUME Init PROVE Inv
  OBVIOUS
<1>1. Playlist[1] \in Views /\ 1 \in DOMAIN Playlist
  BY PlaylistFacts
<1>2. stream \in Seq(Messages) /\ Len(stream) <= MaxEvents
  BY <1>1, AnnounceTyped, Bounds DEF Init
<1>3. stage \in [view : Views, kind : {"plain", "running", "ended"}]
  BY <1>1, RenderingsTyped DEF Init
<1>4. /\ fallback \in Off .. Dwell \cup Off .. DefaultDwell
      /\ fallback # Off => stage.kind = "plain" /\ stage.view \in OnEnd
  BY EndFallbackFits DEF Init
<1>5. advanceIn \in Off .. Cap \cup Off .. Dwell
  BY ServerDwellTyped DEF Init
<1>6. refreshIn \in 0 .. RefreshPeriod /\ presses \in 0 .. MaxPresses
      /\ reconnects \in 0 .. MaxReconnects
  BY Bounds DEF Init
<1>7. requests \in [Kinds -> 0 .. MaxLoads] /\ loads \in [Views -> 0 .. MaxLoads]
  <2>1. 0 \in 0 .. MaxLoads
    BY Bounds
  <2> QED BY <2>1 DEF Init
<1> QED BY <1>1, <1>2, <1>3, <1>4, <1>5, <1>6, <1>7 DEF Init, Inv, TypeOK, FallbackFitsStage

LEMMA StepKeepsInv == Inv /\ [Step]_vars => Inv'
<1> SUFFICES ASSUME Inv, [Step]_vars PROVE Inv'
  OBVIOUS
<1>1. CASE AdvanceFires \/ RefreshFires \/ Deliver
  BY <1>1, AdvanceFiresKeeps, RefreshFiresKeeps, DeliverKeeps
<1>2. ASSUME NEW k \in Kinds, Serve(k) PROVE Inv'
  BY <1>2, ServeKeeps
<1>3. ASSUME NEW k \in Kinds, Press(k) PROVE Inv'
  <2>1. requests' \in [Kinds -> 0 .. MaxLoads] /\ presses' \in 0 .. MaxPresses
    BY <1>3, AskTyped, Bounds DEF Press, Inv, TypeOK
  <2> QED BY <1>3, <2>1, ScreenStaysKeeps DEF Press, Inv, TypeOK, page
<1>4. ASSUME NEW k \in Kinds, RequestLost(k) PROVE Inv'
  <2>1. requests' \in [Kinds -> 0 .. MaxLoads]
    BY <1>4, Bounds DEF RequestLost, Inv, TypeOK
  <2> QED BY <1>4, <2>1, ScreenStaysKeeps DEF RequestLost, Inv, TypeOK, page
<1>5. ASSUME NEW v \in Views, ViewArrives(v) PROVE Inv'
  BY <1>5, ViewArrivesKeeps
<1>6. ASSUME NEW v \in Views, LoadFails(v) PROVE Inv'
  <2>1. loads' \in [Views -> 0 .. MaxLoads]
    BY <1>6, Bounds DEF LoadFails, Inv, TypeOK
  <2> QED BY <1>6, <2>1, ScreenStaysKeeps DEF LoadFails, Inv, TypeOK
<1>7. ASSUME NEW v \in Views, LoadTransient(v) PROVE Inv'
  <2>1. loads' \in [Views -> 0 .. MaxLoads] /\ presses' \in 0 .. MaxPresses
    BY <1>7, LoadTyped, Bounds DEF LoadTransient, Inv, TypeOK
  <2> QED BY <1>7, <2>1, ScreenStaysKeeps DEF LoadTransient, Inv, TypeOK
<1>8. CASE FallbackFires \/ MediaEnds
  <2>1. requests' \in [Kinds -> 0 .. MaxLoads]
    BY <1>8, AskTyped DEF FallbackFires, MediaEnds, Inv, TypeOK, Kinds
  <2> QED BY <1>8, <2>1, ScreenStaysKeeps DEF FallbackFires, MediaEnds, Inv, TypeOK
<1>9. CASE FocusWidget \/ Replay \/ ExitManual
  <2>1. presses' \in 0 .. MaxPresses
    <3>1. presses \in 0 .. MaxPresses /\ MaxPresses \in Nat
      BY Bounds DEF Inv, TypeOK
    <3>2. presses' = presses \/ (presses < MaxPresses /\ presses' = presses + 1)
      BY <1>9 DEF FocusWidget, Replay, ExitManual
    <3> QED BY <3>1, <3>2
  <2> QED BY <1>9, <2>1, ScreenStaysKeeps DEF FocusWidget, Replay, ExitManual, Inv, TypeOK
<1>10. CASE Reconnect \/ Reload
  BY <1>10, RestartKeeps
<1>11. CASE Tick
  BY <1>11, TickKeeps
<1>12. CASE UNCHANGED vars
  BY <1>12 DEF vars, server, page, Inv, TypeOK, FallbackFitsStage
<1> QED BY <1>1, <1>2, <1>3, <1>4, <1>5, <1>6, <1>7, <1>8, <1>9, <1>10, <1>11, <1>12, Zenon
    DEF Step

\* Every variable has its type: above all, the cursor is in its playlist, and an
\* announced view is one of it.
THEOREM TypeCorrect == Spec => []TypeOK
<1>1. Inv => TypeOK
  BY DEF Inv
<1> QED BY <1>1, InitInv, StepKeepsInv, PTL DEF Spec

\* The fallback timer runs only on a plain screen that nothing else ends.
THEOREM FallbackIsFitting == Spec => []FallbackFitsStage
<1>1. Inv => FallbackFitsStage
  BY DEF Inv
<1> QED BY <1>1, InitInv, StepKeepsInv, PTL DEF Spec

-----------------------------------------------------------------------------
(* What the page knows of the server.                                      *)

Told == IF paused THEN 0 ELSE Dwell

\* From here on the connection holds refreshes only.
OnlyRefreshes(k) == \A j \in k .. Len(stream) : stream[j] = RefreshMsg

\* The server's last announcement has been handled, or its second half, or
\* all of it, is still in the connection, and nothing but refreshes behind it.
Informed == /\ OnlyRefreshes(1)
            /\ current = Playlist[cur] /\ lastDwell = Told
HalfInformed == /\ stream # << >> /\ stream[1] = DwellOf(Told) /\ OnlyRefreshes(2)
                /\ current = Playlist[cur]
Announced(k) == /\ k \in 1 .. Len(stream) - 1
                /\ stream[k] = Navigate(Playlist[cur]) /\ stream[k + 1] = DwellOf(Told)
                /\ OnlyRefreshes(k + 2)
ToBeInformed == \E k \in 1 .. Len(stream) : Announced(k)

HearInv == Informed \/ HalfInformed \/ ToBeInformed

\* Once the page has handled what was sent, its view is the one at the cursor, and
\* its display time is 0 when, and only when, the rotation is paused.
PageHearsServer ==
  stream = << >> => /\ current = Playlist[cur]
                    /\ lastDwell = 0 <=> paused

\* dwell(): the stream's timer for the current view is always set, and to no more than
\* the view's display time, or its cap where the view advances on its end.
NoViewOverstays == advanceIn \in 0 .. ServerDwell(Playlist[cur])

\* The three kinds of event are told apart.
LEMMA EventsDiffer ==
  ASSUME NEW v, NEW n
  PROVE  /\ Navigate(v).event = "navigate" /\ Navigate(v).view = v
         /\ DwellOf(n).event = "dwell" /\ DwellOf(n).secs = n
         /\ RefreshMsg.event = "refresh"
BY DEF Navigate, DwellOf, RefreshMsg

\* An announcement is put behind everything else.
LEMMA AnnouncingInforms ==
  ASSUME stream \in Seq(Messages), cur' \in DOMAIN Playlist, paused' \in BOOLEAN,
         SendCurrent(cur', paused')
  PROVE  HearInv'
<1> DEFINE a == Announce(cur', paused')
<1>1. PICK n \in Nat : n = Len(stream)
  OBVIOUS
<1>2. a \in Seq(Messages) /\ Len(a) = 2 /\ stream' = stream \o a
  BY AnnounceTyped DEF SendCurrent
<1>3. a[1] = Navigate(Playlist[cur']) /\ a[2] = DwellOf(Told')
  BY DEF Announce, Told
<1> HIDE DEF a, Messages
<1>4. Len(stream') = n + 2 /\ stream'[n + 1] = a[1] /\ stream'[n + 2] = a[2]
  <2>1. Len(stream \o a) = Len(stream) + Len(a)
    BY <1>2, ConcatProperties
  <2>2. (stream \o a)[Len(stream) + 1] = a[1] /\ (stream \o a)[Len(stream) + 2] = a[2]
    BY <1>2, ConcatProperties
  <2> QED BY <1>1, <1>2, <2>1, <2>2
<1>5. n + 1 \in 1 .. Len(stream') /\ n + 1 \in 1 .. Len(stream') - 1 /\ (n + 1) + 1 = n + 2
  BY <1>4
<1>6. \A j \in (n + 1) + 2 .. Len(stream') : stream'[j] = RefreshMsg
  BY <1>4
<1>7. Announced(n + 1)'
  BY <1>3, <1>4, <1>5, <1>6 DEF Announced, OnlyRefreshes
<1> QED BY <1>5, <1>7 DEF HearInv, ToBeInformed

\* A refresh behind it makes no difference.
LEMMA RefreshInforms ==
  ASSUME stream \in Seq(Messages), HearInv, RefreshFires
  PROVE  HearInv'
<1> DEFINE n == Len(stream)
<1>1. /\ n \in Nat /\ Len(stream') = n + 1 /\ stream' # << >>
      /\ \A j \in 1 .. n : stream'[j] = stream[j]
      /\ stream'[n + 1] = RefreshMsg
  BY DEF RefreshFires, RefreshMsg, Messages
<1>2. /\ current' = current /\ Playlist[cur'] = Playlist[cur] /\ lastDwell' = lastDwell
      /\ Told' = Told
  BY DEF RefreshFires, page, Told
<1> HIDE DEF n
<1>3. ASSUME NEW k \in Nat \ {0}, OnlyRefreshes(k) PROVE OnlyRefreshes(k)'
  <2> SUFFICES ASSUME NEW j \in k .. Len(stream') PROVE stream'[j] = RefreshMsg
    BY DEF OnlyRefreshes
  <2>1. CASE j = n + 1
    BY <1>1, <2>1
  <2>2. CASE j # n + 1
    <3>1. j \in 1 .. n /\ j \in k .. n
      BY <1>1, <2>2
    <3> QED BY <1>1, <1>3, <3>1 DEF OnlyRefreshes, n
  <2> QED BY <2>1, <2>2
<1>4. CASE Informed
  BY <1>2, <1>3, <1>4 DEF HearInv, Informed
<1>5. CASE HalfInformed
  <2>1. 1 \in 1 .. n
    BY <1>5 DEF HalfInformed, n
  <2> QED BY <1>1, <1>2, <1>3, <1>5, <2>1 DEF HearInv, HalfInformed
<1>6. CASE ToBeInformed
  <2>1. PICK k \in 1 .. n : Announced(k)
    BY <1>6 DEF ToBeInformed, n
  <2>2. /\ k \in 1 .. n - 1 /\ stream[k] = Navigate(Playlist[cur])
        /\ stream[k + 1] = DwellOf(Told) /\ OnlyRefreshes(k + 2)
    BY <2>1 DEF Announced, n
  <2>3. k \in 1 .. n /\ k + 1 \in 1 .. n /\ k + 2 \in Nat \ {0}
        /\ k \in 1 .. Len(stream') /\ k \in 1 .. Len(stream') - 1
    BY <1>1, <2>2
  <2>4. OnlyRefreshes(k + 2)'
    BY <1>3, <2>2, <2>3
  <2>5. Announced(k)'
    BY <1>1, <1>2, <2>2, <2>3, <2>4 DEF Announced
  <2> QED BY <2>3, <2>5 DEF HearInv, ToBeInformed
<1> QED BY <1>4, <1>5, <1>6 DEF HearInv

\* An event leaves the connection, and the others move up.
LEMMA TailElements ==
  ASSUME TypeOK, NEW e, Receive(e)
  PROVE  /\ Len(stream) \in Nat \ {0} /\ Len(stream') = Len(stream) - 1
         /\ \A j \in 1 .. Len(stream') : stream'[j] = stream[j + 1]
         /\ stream[1].event = e /\ Head(stream) = stream[1]
         /\ \A k \in Nat \ {0} : OnlyRefreshes(k + 1) => OnlyRefreshes(k)'
         /\ Told' = Told /\ Playlist[cur'] = Playlist[cur]
<1>1. stream \in Seq(Messages) /\ stream # << >> /\ stream' = Tail(stream)
      /\ Head(stream).event = e
  BY DEF TypeOK, Receive
<1> HIDE DEF Messages
<1>2. /\ Len(stream) \in Nat \ {0} /\ Len(stream') = Len(stream) - 1
      /\ \A j \in 1 .. Len(stream') : stream'[j] = stream[j + 1]
      /\ Head(stream) = stream[1]
  BY <1>1
<1>3. ASSUME NEW k \in Nat \ {0}, OnlyRefreshes(k + 1) PROVE OnlyRefreshes(k)'
  <2> SUFFICES ASSUME NEW j \in k .. Len(stream') PROVE stream'[j] = RefreshMsg
    BY DEF OnlyRefreshes
  <2>1. j \in 1 .. Len(stream') /\ j + 1 \in k + 1 .. Len(stream)
    BY <1>2, <1>3
  <2> QED BY <1>2, <1>3, <2>1 DEF OnlyRefreshes
<1>4. Told' = Told /\ Playlist[cur'] = Playlist[cur]
  BY DEF Receive, server, Told
<1> QED BY <1>1, <1>2, <1>3, <1>4

\* Each event that is handled brings the page nearer to the server.
LEMMA DeliverInforms ==
  ASSUME TypeOK, HearInv, Deliver
  PROVE  HearInv'
<1>1. PICK e \in {"navigate", "dwell", "refresh"} :
        /\ Receive(e)
        /\ e = "navigate" => current' = stream[1].view
        /\ e # "navigate" => current' = current
        /\ e = "dwell" => lastDwell' = stream[1].secs
        /\ e # "dwell" => lastDwell' = lastDwell
  <2>1. stream # << >> /\ Head(stream) = stream[1]
    BY TailElements DEF Deliver, OnNavigate, OnDwell, OnRefresh
  <2>2. CASE OnNavigate
    BY <2>1, <2>2 DEF OnNavigate
  <2>3. CASE OnDwell
    BY <2>1, <2>3 DEF OnDwell
  <2>4. CASE OnRefresh
    BY <2>1, <2>4 DEF OnRefresh
  <2> QED BY <2>2, <2>3, <2>4 DEF Deliver
<1>2. /\ Len(stream) \in Nat \ {0} /\ Len(stream') = Len(stream) - 1
      /\ \A j \in 1 .. Len(stream') : stream'[j] = stream[j + 1]
      /\ stream[1].event = e
      /\ \A k \in Nat \ {0} : OnlyRefreshes(k + 1) => OnlyRefreshes(k)'
      /\ Told' = Told /\ Playlist[cur'] = Playlist[cur]
  BY <1>1, TailElements
<1>3. CASE Informed
  <2>1. stream[1] = RefreshMsg
    BY <1>2, <1>3 DEF Informed, OnlyRefreshes
  <2>2. e = "refresh"
    BY <1>2, <2>1, EventsDiffer
  <2>3. OnlyRefreshes(2)
    BY <1>3 DEF Informed, OnlyRefreshes
  <2>4. OnlyRefreshes(1)'
    BY <1>2, <2>3
  <2> QED BY <1>1, <1>2, <1>3, <2>2, <2>4 DEF HearInv, Informed
<1>4. CASE HalfInformed
  <2>1. e = "dwell" /\ stream[1].secs = Told
    BY <1>2, <1>4, EventsDiffer DEF HalfInformed
  <2>2. OnlyRefreshes(1)'
    BY <1>2, <1>4 DEF HalfInformed
  <2> QED BY <1>1, <1>2, <1>4, <2>1, <2>2 DEF HearInv, HalfInformed, Informed
<1>5. CASE ToBeInformed
  <2>1. PICK k \in 1 .. Len(stream) : Announced(k)
    BY <1>5 DEF ToBeInformed
  <2>2. /\ k \in 1 .. Len(stream) - 1 /\ stream[k] = Navigate(Playlist[cur])
        /\ stream[k + 1] = DwellOf(Told) /\ OnlyRefreshes(k + 2)
    BY <2>1 DEF Announced
  <2>3. CASE k = 1
    <3>1. e = "navigate" /\ stream[1].view = Playlist[cur]
      BY <1>2, <2>2, <2>3, EventsDiffer
    <3>2. stream'[1] = DwellOf(Told) /\ 1 \in 1 .. Len(stream')
      BY <1>2, <2>2, <2>3
    <3>3. OnlyRefreshes(2)'
      BY <1>2, <2>2, <2>3
    <3>4. stream' # << >>
      BY <3>2
    <3> QED BY <1>1, <1>2, <3>1, <3>2, <3>3, <3>4 DEF HearInv, HalfInformed
  <2>4. CASE k # 1
    <3>1. PICK m \in Nat \ {0} : k = m + 1
      BY <2>2, <2>4
    <3>2. /\ m \in 1 .. Len(stream') /\ m \in 1 .. Len(stream') - 1
          /\ m + 1 \in 1 .. Len(stream') /\ (m + 1) + 1 = k + 1
      BY <1>2, <2>2, <3>1
    <3>3. stream'[m] = stream[k] /\ stream'[m + 1] = stream[k + 1]
      BY <1>2, <3>1, <3>2
    <3>4. OnlyRefreshes(m + 2)'
      <4>1. m + 2 \in Nat \ {0} /\ (m + 2) + 1 = k + 2
        BY <3>1
      <4> QED BY <1>2, <2>2, <4>1
    <3>5. Announced(m)'
      BY <1>2, <2>2, <3>2, <3>3, <3>4 DEF Announced
    <3> QED BY <3>2, <3>5 DEF HearInv, ToBeInformed
  <2> QED BY <2>3, <2>4
<1> QED BY <1>3, <1>4, <1>5 DEF HearInv

\* A new stream begins with an announcement.
LEMMA AnnouncementInforms ==
  ASSUME stream = Announce(cur, paused)
  PROVE  HearInv
<1>1. /\ Len(stream) = 2 /\ stream[1] = Navigate(Playlist[cur])
      /\ stream[2] = DwellOf(Told)
  BY DEF Announce, Told
<1>2. OnlyRefreshes(3)
  BY <1>1 DEF OnlyRefreshes
<1>3. Announced(1)
  BY <1>1, <1>2 DEF Announced
<1> QED BY <1>1, <1>3 DEF HearInv, ToBeInformed

LEMMA StepKeepsHearing == Inv /\ Inv' /\ HearInv /\ [Step]_vars => HearInv'
<1> SUFFICES ASSUME Inv, Inv', HearInv, [Step]_vars PROVE HearInv'
  OBVIOUS
<1>1. /\ stream \in Seq(Messages) /\ TypeOK
      /\ cur' \in DOMAIN Playlist /\ paused' \in BOOLEAN
  BY DEF Inv, TypeOK
<1>2. CASE UNCHANGED <<stream, cur, paused, current, lastDwell>>
  <2>1. \A k : OnlyRefreshes(k)' = OnlyRefreshes(k)
    BY <1>2 DEF OnlyRefreshes
  <2>2. Told' = Told
    BY <1>2 DEF Told
  <2>3. \A k : Announced(k)' = Announced(k)
    BY <1>2, <2>1, <2>2 DEF Announced
  <2> QED BY <1>2, <2>1, <2>2, <2>3 DEF HearInv, Informed, HalfInformed, ToBeInformed
<1>3. CASE AdvanceFires
  BY <1>1, <1>3, AnnouncingInforms DEF AdvanceFires
<1>4. ASSUME NEW k \in Kinds, Serve(k) PROVE HearInv'
  BY <1>1, <1>4, AnnouncingInforms DEF Serve
<1>5. CASE RefreshFires
  BY <1>1, <1>5, RefreshInforms
<1>6. CASE Deliver
  BY <1>1, <1>6, DeliverInforms
<1>7. CASE Restart
  <2>1. stream' = Announce(cur', paused')
    BY <1>7 DEF Restart
  <2>2. (stream = Announce(cur, paused) => HearInv)'
    BY AnnouncementInforms, PTL
  <2> QED BY <2>1, <2>2
<1>8. ASSUME NEW k \in Kinds, Press(k) \/ RequestLost(k) PROVE HearInv'
  BY <1>2, <1>8 DEF Press, RequestLost, server, page
<1>9. ASSUME NEW v \in Views, ViewArrives(v) \/ LoadFails(v) \/ LoadTransient(v)
      PROVE  HearInv'
  BY <1>2, <1>9 DEF ViewArrives, LoadFails, LoadTransient, server
<1>10. CASE FallbackFires \/ MediaEnds \/ FocusWidget \/ Replay \/ ExitManual \/ Tick
  BY <1>2, <1>10 DEF FallbackFires, MediaEnds, FocusWidget, Replay, ExitManual, Tick, server
<1>11. CASE UNCHANGED vars
  BY <1>2, <1>11 DEF vars, server, page
<1>12. CASE Reconnect \/ Reload
  BY <1>7, <1>12 DEF Reconnect, Reload
<1> QED BY <1>3, <1>4, <1>5, <1>6, <1>8, <1>9, <1>10, <1>11, <1>12, Zenon DEF Step

\* However events, requests and fetches interleave, and whenever streams are lost:
\* a page that has handled what was sent is at the view of the cursor, and counts down
\* unless the rotation is paused (kiosk.js, the listeners of navigate and dwell).  What
\* a key takes the rotation for (kbPaused) is another matter.
THEOREM PageFollowsTheStream == Spec => []PageHearsServer
<1>1. Init => HearInv
  BY AnnouncementInforms DEF Init
<1>2. HearInv => PageHearsServer
  <2> SUFFICES ASSUME HearInv, stream = << >>
               PROVE  current = Playlist[cur] /\ (lastDwell = 0 <=> paused)
    BY DEF PageHearsServer
  <2>1. Informed
    BY DEF HearInv, HalfInformed, ToBeInformed
  <2>2. Dwell # 0
    BY Bounds
  <2> QED BY <2>1, <2>2 DEF Informed, Told
<1> QED BY <1>1, <1>2, InitInv, StepKeepsInv, StepKeepsHearing, PTL DEF Spec

\* The stream's own timer runs whatever the page does: it is never stopped and never
\* set to more than the view's time (or its cap), so that a page that does not ask
\* for the next view cannot keep the one it shows.
THEOREM TimerAlwaysRuns == Spec => []NoViewOverstays
<1>1. ASSUME NEW v PROVE ServerDwell(v) \in Nat \ {0}
  BY Bounds DEF ServerDwell
<1>2. Init => NoViewOverstays
  BY <1>1 DEF Init, NoViewOverstays
<1>3. ASSUME Inv, NoViewOverstays, [Step]_vars PROVE NoViewOverstays'
  <2>1. CASE advanceIn' = ServerDwell(Playlist[cur'])
    BY <1>1, <2>1 DEF NoViewOverstays
  <2>2. CASE UNCHANGED <<advanceIn, cur>>
    BY <1>3, <2>2 DEF NoViewOverstays
  <2>3. CASE AdvanceFires
    BY <2>1, <2>3 DEF AdvanceFires, SendCurrent
  <2>4. ASSUME NEW k \in Kinds, Serve(k) PROVE NoViewOverstays'
    BY <2>1, <2>4 DEF Serve, SendCurrent
  <2>5. CASE Reconnect \/ Reload
    BY <2>1, <2>5 DEF Reconnect, Reload, Restart
  <2>6. CASE Tick
    <3>1. cur' = cur /\ advanceIn # 0 /\ (advanceIn' = advanceIn - 1 \/ advanceIn = Off)
      BY <2>6 DEF Tick
    <3> DEFINE d == ServerDwell(Playlist[cur])
    <3>2. d \in Nat /\ advanceIn \in 0 .. d /\ ServerDwell(Playlist[cur])' = d
      BY <1>1, <1>3, <3>1 DEF NoViewOverstays
    <3> HIDE DEF d
    <3>3. advanceIn' \in 0 .. d
      BY <3>1, <3>2 DEF Off
    <3> QED BY <3>2, <3>3 DEF NoViewOverstays
  <2>7. CASE RefreshFires \/ Deliver
    BY <2>2, <2>7 DEF RefreshFires, Deliver, OnNavigate, OnDwell, OnRefresh, Receive, server
  <2>8. ASSUME NEW k \in Kinds, Press(k) \/ RequestLost(k) PROVE NoViewOverstays'
    BY <2>2, <2>8 DEF Press, RequestLost, server
  <2>9. ASSUME NEW v \in Views, ViewArrives(v) \/ LoadFails(v) \/ LoadTransient(v)
        PROVE  NoViewOverstays'
    BY <2>2, <2>9 DEF ViewArrives, LoadFails, LoadTransient, server
  <2>10. CASE FallbackFires \/ MediaEnds \/ FocusWidget \/ Replay \/ ExitManual
    BY <2>2, <2>10 DEF FallbackFires, MediaEnds, FocusWidget, Replay, ExitManual, server
  <2>11. CASE UNCHANGED vars
    BY <2>2, <2>11 DEF vars, server
  <2> QED BY <1>3, <2>3, <2>4, <2>5, <2>6, <2>7, <2>8, <2>9, <2>10, <2>11, Zenon DEF Step
<1> QED BY <1>2, <1>3, InitInv, StepKeepsInv, PTL DEF Spec
=============================================================================
