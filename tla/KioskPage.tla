----------------------------- MODULE KioskPage -----------------------------
(***************************************************************************)
(* The page a television shows (kiosk.js, yt.js, pdf-widget.js) and its    *)
(* dialogue with the server: events arrive in order over the stream, views *)
(* are fetched by requests that may overtake one another, and the page     *)
(* itself asks for the next view on screens that advance on their end.     *)
(*                                                                         *)
(* The server is reduced to the cursor and the timers of one stream; its   *)
(* interleavings are the subject of module KioskStream.  Time is counted   *)
(* in ticks; a tick passes only when no timer is due.                      *)
(*                                                                         *)
(* A rendered view is plain, or holds a medium that signals its own end (a *)
(* video or a slide-show PDF): running, then ended.  A random-single view  *)
(* may come out either way each time it is fetched.                        *)
(***************************************************************************)
EXTENDS Integers, Sequences

CONSTANTS
  Playlist,       \* the views of the main stage, in order
  OnEnd,          \* views marked advance-on-end (and with a widget that can end)
  Plain, Media,   \* views that may render without, with a medium
  Dwell,          \* display time of a view, in ticks
  DefaultDwell,   \* the page's 30 s, when paused or not told yet
  RefreshPeriod,  \* 30 s
  Cap,            \* 30 min, the server's timer for an advance-on-end view
  Prompt,         \* TRUE: the network takes less than a tick and never fails
  MaxPresses,     \* bound: what viewers do
  MaxReconnects,  \* bound: streams lost, pages reloaded
  MaxEvents,      \* bound: capacity of the connection
  MaxLoads,       \* bound: fetches of one view and requests of one kind in flight
  NoView

Views == {Playlist[i] : i \in DOMAIN Playlist}

ASSUME PageConstants ==
  /\ Playlist \in Seq(Views) /\ Len(Playlist) > 0
  /\ OnEnd \subseteq Views /\ Views \subseteq Plain \cup Media
  /\ NoView \notin Views
  /\ {Dwell, DefaultDwell, RefreshPeriod, Cap} \subseteq Nat \ {0}
  /\ {MaxPresses, MaxReconnects, MaxLoads} \subseteq Nat
  /\ MaxEvents \in Nat /\ MaxEvents >= 2
  /\ Prompt \in BOOLEAN

VARIABLES
  cur, paused,           \* the stream's cursor
  advanceIn, refreshIn,  \* its timers: ticks to go
  stream,                \* events sent and not handled yet
  requests,              \* control requests in flight, by kind
  current, override,     \* currentViewID, overrideViewID
  stage,                 \* what #stage holds
  lastDwell,             \* lastDwellSecs; 0: paused
  fallback,              \* endFallback: ticks to go, or Off
  focus,                 \* focusIdx >= 0: a widget is scrolled by hand
  loads,                 \* loadView calls in flight, by view
  presses, reconnects

server == <<cur, paused, advanceIn, refreshIn>>
page   == <<current, override, stage, lastDwell, fallback, focus, loads>>
vars   == <<server, stream, requests, page, presses, reconnects>>

Off == -1
Kinds == {"auto", "next", "pause", "resume"}
Navigate(v) == [event |-> "navigate", view |-> v, secs |-> 0]
DwellOf(n)  == [event |-> "dwell", view |-> NoView, secs |-> n]
RefreshMsg  == [event |-> "refresh", view |-> NoView, secs |-> 0]

Renderings(v) ==
  [view : {v}, kind : (IF v \in Plain THEN {"plain"} ELSE {}) \cup
                      (IF v \in Media THEN {"running"} ELSE {})]

-----------------------------------------------------------------------------
(* The server.                                                             *)

\* Mutant: an advance-on-end view relies on the page alone.
ServerDwellUncapped(v) == IF v \in OnEnd THEN Off ELSE Dwell

\* dwell(): the advance timer of a view.
ServerDwell(v) == IF v \in OnEnd THEN Cap ELSE Dwell

\* sendCurrent, and the timer is set anew.
Announce(i, p) == <<Navigate(Playlist[i]), DwellOf(IF p THEN 0 ELSE Dwell)>>

SendCurrent(i, p) ==
  /\ Len(stream) + 2 <= MaxEvents
  /\ stream' = stream \o Announce(i, p)
  /\ advanceIn' = ServerDwell(Playlist[i])

Successor(i) == (i % Len(Playlist)) + 1

\* The advance timer fires.
AdvanceFires ==
  /\ advanceIn = 0
  /\ cur' = IF paused THEN cur ELSE Successor(cur)
  /\ SendCurrent(cur', paused)
  /\ UNCHANGED <<paused, refreshIn, requests, page, presses, reconnects>>

\* The 30 s ticker.
RefreshFires ==
  /\ refreshIn = 0
  /\ Len(stream) < MaxEvents
  /\ stream' = Append(stream, RefreshMsg)
  /\ refreshIn' = RefreshPeriod
  /\ UNCHANGED <<cur, paused, advanceIn, requests, page, presses, reconnects>>

\* A control request reaches the cursor, and the stream is told.
Serve(kind) ==
  /\ requests[kind] > 0
  /\ requests' = [requests EXCEPT ![kind] = @ - 1]
  /\ cur' = IF kind \in {"auto", "next"} THEN Successor(cur) ELSE cur
  /\ paused' = CASE kind = "pause" -> TRUE [] kind = "resume" -> FALSE
                 [] OTHER -> paused
  /\ SendCurrent(cur', paused')
  /\ UNCHANGED <<refreshIn, page, presses, reconnects>>

-----------------------------------------------------------------------------
(* The page.                                                               *)

Target == IF override # NoView THEN override ELSE current

Load(v) == /\ loads[v] < MaxLoads
           /\ loads' = [loads EXCEPT ![v] = @ + 1]

Ask(kind) == /\ requests[kind] < MaxLoads
             /\ requests' = [requests EXCEPT ![kind] = @ + 1]

\* An event is handled and leaves the connection.
Receive(event) ==
  /\ stream # << >> /\ Head(stream).event = event
  /\ stream' = Tail(stream)
  /\ UNCHANGED <<server, requests, stage, fallback, focus, presses, reconnects>>

OnNavigate ==
  LET v == Head(stream).view IN
  /\ Receive("navigate")
  /\ current' = v
  /\ \/ v # current /\ override' = NoView /\ Load(v)
     \/ /\ v = current /\ UNCHANGED override
        /\ IF override = NoView /\ stage.kind = "plain" THEN Load(v)
           ELSE UNCHANGED loads
  /\ UNCHANGED lastDwell

\* Mutant: the 0 of a pause is taken for no value.
OnDwellUnparsed ==
  /\ Receive("dwell")
  /\ lastDwell' = IF Head(stream).secs = 0 THEN Off ELSE Head(stream).secs
  /\ UNCHANGED <<current, override, loads>>

OnDwell ==
  /\ Receive("dwell")
  /\ lastDwell' = Head(stream).secs
  /\ UNCHANGED <<current, override, loads>>

\* Mutant: a refresh is for the ticker only.
OnRefreshTicker ==
  /\ Receive("refresh")
  /\ UNCHANGED <<loads, current, override, lastDwell>>

\* A medium plays on undisturbed, and so does a widget scrolled by hand.
OnRefresh ==
  /\ Receive("refresh")
  /\ IF ~ focus /\ stage.kind = "plain" THEN Load(Target) ELSE UNCHANGED loads
  /\ UNCHANGED <<current, override, lastDwell>>

\* Mutant: media are not looked for.
EndFallbackAlways(s, secs) ==
  IF s.view \in OnEnd
  THEN IF secs > 0 THEN secs ELSE DefaultDwell
  ELSE Off

\* scheduleEndFallback: nothing else will end this screen.
EndFallback(s, secs) ==
  IF s.view \in OnEnd /\ s.kind = "plain"
  THEN IF secs > 0 THEN secs ELSE DefaultDwell
  ELSE Off

\* loadView's answer replaces the stage, whatever was asked for since.
ViewArrives(v) ==
  /\ loads[v] > 0
  /\ loads' = [loads EXCEPT ![v] = @ - 1]
  /\ stage' \in Renderings(v)
  /\ fallback' = EndFallback(stage', lastDwell)
  /\ focus' = FALSE
  /\ UNCHANGED <<server, stream, requests, current, override, lastDwell, presses,
                 reconnects>>

\* Keep the last good content.
LoadFails(v) ==
  /\ loads[v] > 0 /\ ~ Prompt
  /\ loads' = [loads EXCEPT ![v] = @ - 1]
  /\ UNCHANGED <<server, stream, requests, current, override, stage, lastDwell,
                 fallback, focus, presses, reconnects>>

FallbackFires ==
  /\ fallback = 0
  /\ fallback' = Off
  /\ Ask("auto")
  /\ UNCHANGED <<server, stream, current, override, stage, lastDwell, focus, loads,
                 presses, reconnects>>

\* A video or a slide show is over: the page asks for the next view, or the
\* medium starts again.
MediaEnds ==
  /\ stage.kind = "running" /\ stage.view \in OnEnd
  /\ stage' = [stage EXCEPT !.kind = "ended"]
  /\ Ask("auto")
  /\ UNCHANGED <<server, stream, current, override, lastDwell, fallback, focus,
                 loads, presses, reconnects>>

-----------------------------------------------------------------------------
(* Viewers, failures and time.                                             *)

\* A key of the television, or a button of a phone.
Press(kind) ==
  /\ presses < MaxPresses /\ kind # "auto"
  /\ presses' = presses + 1
  /\ Ask(kind)
  /\ UNCHANGED <<server, stream, page, reconnects>>

\* The screen picker shows a view for the time being.
LoadTransient(v) ==
  /\ presses < MaxPresses
  /\ presses' = presses + 1
  /\ override' = v
  /\ Load(v)
  /\ UNCHANGED <<server, stream, requests, current, stage, lastDwell, fallback,
                 focus, reconnects>>

FocusWidget ==
  /\ presses < MaxPresses /\ ~ focus
  /\ presses' = presses + 1
  /\ focus' = TRUE
  /\ UNCHANGED <<server, stream, requests, current, override, stage, lastDwell,
                 fallback, loads, reconnects>>

ExitManual ==
  /\ focus
  /\ focus' = FALSE
  /\ UNCHANGED <<server, stream, requests, current, override, stage, lastDwell,
                 fallback, loads, presses, reconnects>>

\* The key that starts and halts the widget scrolled by hand starts over what is
\* at its end.
Replay ==
  /\ presses < MaxPresses /\ focus
  /\ stage.kind = "ended"
  /\ presses' = presses + 1
  /\ stage' = [stage EXCEPT !.kind = "running"]
  /\ UNCHANGED <<server, stream, requests, current, override, lastDwell, fallback,
                 focus, loads, reconnects>>

\* A control request is lost, or arrives while the device has no stream.
RequestLost(kind) ==
  /\ requests[kind] > 0 /\ ~ Prompt
  /\ requests' = [requests EXCEPT ![kind] = @ - 1]
  /\ UNCHANGED <<server, stream, page, presses, reconnects>>

\* A new stream has a new cursor.
Restart ==
  /\ reconnects < MaxReconnects
  /\ reconnects' = reconnects + 1
  /\ cur' = 1 /\ paused' = FALSE
  /\ stream' = Announce(1, FALSE)
  /\ advanceIn' = ServerDwell(Playlist[1])
  /\ refreshIn' = RefreshPeriod
  /\ UNCHANGED <<requests, presses>>

\* The event source connects again and the page stays as it is ...
Reconnect == Restart /\ UNCHANGED page

\* ... or the page loads afresh (new build, watchdog) with the first view.
Reload ==
  /\ Restart
  /\ current' = Playlist[1] /\ override' = NoView
  /\ stage' \in Renderings(Playlist[1])
  /\ lastDwell' = DefaultDwell
  /\ fallback' = EndFallback(stage', DefaultDwell)
  /\ focus' = FALSE
  /\ loads' = [v \in Views |-> 0]

Quiet == /\ stream = << >> /\ \A v \in Views : loads[v] = 0
         /\ \A k \in Kinds : requests[k] = 0

Tick ==
  /\ advanceIn # 0 /\ refreshIn # 0 /\ fallback # 0
  /\ Prompt => Quiet
  /\ advanceIn' = IF advanceIn = Off THEN Off ELSE advanceIn - 1
  /\ refreshIn' = refreshIn - 1
  /\ fallback' = IF fallback = Off THEN Off ELSE fallback - 1
  /\ UNCHANGED <<cur, paused, stream, requests, current, override, stage, lastDwell,
                 focus, loads, presses, reconnects>>

Init ==
  /\ cur = 1 /\ paused = FALSE
  /\ stream = Announce(1, FALSE)
  /\ advanceIn = ServerDwell(Playlist[1])
  /\ refreshIn = RefreshPeriod
  /\ requests = [k \in Kinds |-> 0]
  /\ current = Playlist[1] /\ override = NoView
  /\ stage \in Renderings(Playlist[1])
  /\ lastDwell = DefaultDwell
  /\ fallback = EndFallback(stage, DefaultDwell)
  /\ focus = FALSE
  /\ loads = [v \in Views |-> 0]
  /\ presses = 0
  /\ reconnects = 0

Deliver == OnNavigate \/ OnDwell \/ OnRefresh

Step ==
  \/ AdvanceFires \/ RefreshFires \/ Deliver
  \/ \E k \in Kinds : Serve(k) \/ Press(k) \/ RequestLost(k)
  \/ \E v \in Views : ViewArrives(v) \/ LoadFails(v) \/ LoadTransient(v)
  \/ FallbackFires \/ MediaEnds
  \/ FocusWidget \/ Replay \/ ExitManual
  \/ Reconnect \/ Reload
  \/ Tick

Spec == Init /\ [][Step]_vars

\* Timers fire, time passes, events are delivered, fetches that are tried again
\* and again succeed.  Nobody has to end a medium, a player may hang; and nobody
\* has to let go of a widget that is scrolled by hand.
Fairness ==
  /\ WF_vars(AdvanceFires) /\ WF_vars(RefreshFires) /\ WF_vars(Tick)
  /\ WF_vars(Deliver) /\ WF_vars(FallbackFires)
  /\ \A k \in Kinds : WF_vars(Serve(k))
  /\ \A v \in Views : WF_vars(ViewArrives(v) \/ LoadFails(v)) /\ SF_vars(ViewArrives(v))

FairSpec == Spec /\ Fairness

-----------------------------------------------------------------------------
(* Properties.                                                             *)

Messages == {Navigate(v) : v \in Views} \cup {DwellOf(n) : n \in {0, Dwell}} \cup {RefreshMsg}

\* Every variable has its type.
TypeOK ==
  /\ cur \in DOMAIN Playlist /\ paused \in BOOLEAN
  /\ advanceIn \in Off .. Cap \cup Off .. Dwell
  /\ refreshIn \in 0 .. RefreshPeriod
  /\ stream \in Seq(Messages)
  /\ Len(stream) <= MaxEvents
  /\ requests \in [Kinds -> 0 .. MaxLoads]
  /\ current \in Views /\ override \in Views \cup {NoView}
  /\ stage \in [view : Views, kind : {"plain", "running", "ended"}]
  /\ lastDwell \in {0, Dwell, DefaultDwell}
  /\ fallback \in Off .. Dwell \cup Off .. DefaultDwell
  /\ focus \in BOOLEAN
  /\ loads \in [Views -> 0 .. MaxLoads]
  /\ presses \in 0 .. MaxPresses /\ reconnects \in 0 .. MaxReconnects

\* The fallback timer never runs beside a medium, nor on a screen that the
\* server's own timer ends: with two of them a screen would be skipped.
FallbackFitsStage ==
  fallback # Off => stage.kind = "plain" /\ stage.view \in OnEnd

\* Rotation never stops for good, even when players hang, requests are lost and
\* fetches fail: unless it is paused, every position of a playlist of two comes
\* up again and again.
RotationGoesOn == \A i \in DOMAIN Playlist : []<>(paused \/ cur = i)

\* A plain stage that shows the wrong view, because an older answer came last
\* or a fetch failed, is repaired by the refresh, paused or not.
StageRepaired == []<>(focus \/ stage.kind # "plain" \/ stage.view = Target)

-----------------------------------------------------------------------------
(* What a comment in the code says, and the model refutes.                 *)

\* kiosk.js, scheduleEndFallback: "fall back to advancing after the normal dwell
\* so rotation never gets stuck".  With a network that answers at once, an
\* advance-on-end screen that came out without a medium is left when it was
\* displayed for its time, or at the latest that time after the next refresh
\* (whose answer may repair the stage).
FallbackInTime ==
  /\ ~ paused /\ Quiet /\ override = NoView
  /\ stage = [view |-> Playlist[cur], kind |-> "plain"] /\ stage.view \in OnEnd
  => Cap - advanceIn <= RefreshPeriod + Dwell
=============================================================================
