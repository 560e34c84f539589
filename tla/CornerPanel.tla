---------------------------- MODULE CornerPanel ----------------------------
(***************************************************************************)
(* The picture-in-picture panel (kiosk.js): a rotation of its own over the *)
(* items the server sends.  pipRotate asks for the view of an item; the    *)
(* answer replaces the panel's body and either starts the timer for the    *)
(* next item, or relies on a video or a slide show to call for it.  The    *)
(* answers are asynchronous, and there is one handle for the timer: an     *)
(* answer that finds it in use overwrites it, and the timer it named can   *)
(* no longer be cleared (a stray).                                         *)
(*                                                                         *)
(* The panel is alive before the scripts of its media are: kiosk.js comes  *)
(* first on the page, then yt.js, and pdf-widget.js is a deferred module.  *)
(* An answer that comes before them relies on its medium all the same, and *)
(* sets no timer, but there is nobody to hand the callback to (a body that *)
(* is deaf).                                                               *)
(***************************************************************************)
EXTENDS Integers, Sequences

CONSTANTS
  Payloads,         \* item lists the server may send
  Medium,           \* what a view renders: "plain", "video", "slides"
  Longest,          \* bound: longest display time and wait after a failure
  Retry,            \* 10 s, in ticks
  MaxDisturbances,  \* bound: keys, commands and changed lists
  MaxDelays,        \* bound: ticks that pass while a fetch or a script is under way
  NoBody

Items == UNION {{p[i] : i \in DOMAIN p} : p \in Payloads}

\* Assumed in PageMedia.
PanelConstants ==
  /\ << >> \in Payloads
  /\ \A p \in Payloads : Len(p) \in Nat /\ p \in Seq(Items)
  /\ \A x \in Items : /\ x.onEnd \in BOOLEAN /\ x.dwell \in 1 .. Longest
                      /\ Medium[x.view] \in {"plain", "video", "slides"}
  /\ Longest \in Nat /\ Retry \in 1 .. Longest
  /\ {MaxDisturbances, MaxDelays} \subseteq Nat
  /\ NoBody \notin [view : {x.view : x \in Items}, medium : {"plain", "video", "slides"},
                    calls : BOOLEAN, deaf : BOOLEAN]

VARIABLES
  items,    \* pipItems; the skeleton exists as long as there are any
  idx,      \* pipIdx, from 1
  body,     \* what kpipBody holds; "calls": its medium will call for the next item,
            \* "deaf": it was to call, but never heard of it
  fetches,  \* requests under way, by item
  timer,    \* the timer pipTimer names: ticks to go, or Off
  strays,   \* timers no handle names, by ticks to go
  scripts,  \* media whose script has run (fpVideosIn, fpSetupPdfs)
  disturbances, delays

panel == <<items, idx, body, fetches, timer, strays>>
vars  == <<panel, scripts, disturbances, delays>>

Off == -1

Bodies == [view : {x.view : x \in Items}, medium : {"plain", "video", "slides"},
           calls : BOOLEAN, deaf : BOOLEAN]

InFlight == {x \in Items : fetches[x] > 0}

-----------------------------------------------------------------------------
\* pipStopPlayers: a destroyed player never ends; a slide show is no player.
Stopped(b) == IF b # NoBody /\ b.medium = "video" THEN [b EXCEPT !.calls = FALSE] ELSE b

\* pipRotate, with b the body before.
Rotate(list, i, b) ==
  /\ idx' = ((i - 1) % Len(list)) + 1
  /\ timer' = Off
  /\ body' = Stopped(b)
  /\ fetches' = [fetches EXCEPT ![list[idx']] = @ + 1]

\* pipTimer = setTimeout(pipNext, ...)
SetTimer(ticks) ==
  /\ timer' = ticks
  /\ strays' = IF timer = Off THEN strays ELSE [strays EXCEPT ![timer] = @ + 1]

\* What a view shows when its answer arrives.
Relies(x) == x.onEnd /\ Medium[x.view] # "plain"
BodyOf(x) == [view |-> x.view, medium |-> Medium[x.view],
              calls |-> Relies(x) /\ Medium[x.view] \in scripts,
              deaf  |-> Relies(x) /\ Medium[x.view] \notin scripts]

\* Mutant: an item marked onEnd is trusted to end, whatever it shows.
AnswerTrusting(x) ==
  /\ fetches[x] > 0
  /\ fetches' = [fetches EXCEPT ![x] = @ - 1]
  /\ IF items = << >>
     THEN SetTimer(Retry) /\ UNCHANGED body
     ELSE /\ body' = BodyOf(x)
          /\ IF x.onEnd THEN UNCHANGED <<timer, strays>> ELSE SetTimer(x.dwell)
  /\ UNCHANGED <<items, idx, scripts, disturbances, delays>>

\* The answer to a fetch.  Without a skeleton it throws, which ends like a failure.
Answer(x) ==
  /\ fetches[x] > 0
  /\ fetches' = [fetches EXCEPT ![x] = @ - 1]
  /\ IF items = << >>
     THEN SetTimer(Retry) /\ UNCHANGED body
     ELSE /\ body' = BodyOf(x)
          /\ IF Relies(x) THEN UNCHANGED <<timer, strays>> ELSE SetTimer(x.dwell)
  /\ UNCHANGED <<items, idx, scripts, disturbances, delays>>

\* Mutant: a failure is ignored, as it is on the stage.
FetchFailsSilently(x) ==
  /\ fetches[x] > 0
  /\ fetches' = [fetches EXCEPT ![x] = @ - 1]
  /\ UNCHANGED <<items, idx, body, timer, strays, scripts, disturbances, delays>>

FetchFails(x) ==
  /\ fetches[x] > 0
  /\ fetches' = [fetches EXCEPT ![x] = @ - 1]
  /\ SetTimer(Retry)
  /\ UNCHANGED <<items, idx, body, scripts, disturbances, delays>>

\* pipNext by the timer; without items pipRotate returns at once.
TimerFires ==
  /\ timer = 0
  /\ IF items = << >> THEN timer' = Off /\ UNCHANGED <<idx, body, fetches>>
     ELSE Rotate(items, idx + 1, body)
  /\ UNCHANGED <<items, strays, scripts, disturbances, delays>>

StrayFires ==
  /\ strays[0] > 0
  /\ strays' = [strays EXCEPT ![0] = @ - 1]
  /\ IF items = << >> THEN UNCHANGED <<idx, body, fetches, timer>>
     ELSE Rotate(items, idx + 1, body)
  /\ UNCHANGED <<items, scripts, disturbances, delays>>

\* A video, or a slide show, plays to its end and calls pipNext.
MediumEnds(medium) ==
  /\ body # NoBody /\ body.medium = medium /\ body.calls
  /\ Rotate(items, idx + 1, [body EXCEPT !.calls = FALSE])
  /\ UNCHANGED <<items, strays, scripts, disturbances, delays>>

-----------------------------------------------------------------------------
Disturb == disturbances < MaxDisturbances /\ disturbances' = disturbances + 1

\* pip-next and pip-prev, by key or by command.
Skip(dir) ==
  /\ items # << >> /\ Disturb
  /\ Rotate(items, idx + dir, body)
  /\ UNCHANGED <<items, strays, scripts, delays>>

\* pipStart: without items the skeleton goes, and comes back empty with the next.
PipStart(list) ==
  /\ items' = list
  /\ IF list = << >>
     THEN timer' = Off /\ body' = NoBody /\ UNCHANGED <<idx, fetches>>
     ELSE Rotate(list, 1, body)
  /\ UNCHANGED strays

\* Mutant: the list that comes with every refresh starts the panel afresh.
PipEventAlways(list) ==
  /\ list # items \/ list # << >>
  /\ IF list # items THEN Disturb ELSE UNCHANGED disturbances
  /\ PipStart(list)
  /\ UNCHANGED <<scripts, delays>>

\* The "pip" event, with every connection and refresh: only a list that changed counts.
PipEvent(list) ==
  /\ list # items
  /\ Disturb
  /\ PipStart(list)
  /\ UNCHANGED <<scripts, delays>>

-----------------------------------------------------------------------------
\* yt.js, then the module.  Neither looks at what the panel holds.
ScriptRuns(medium) ==
  /\ medium \notin scripts
  /\ medium = "slides" => "video" \in scripts
  /\ scripts' = scripts \cup {medium}
  /\ UNCHANGED <<panel, disturbances, delays>>

Scripts == {"video", "slides"}

Tick ==
  /\ timer # 0 /\ strays[0] = 0
  /\ IF InFlight = {} /\ scripts = Scripts THEN UNCHANGED delays
     ELSE delays < MaxDelays /\ delays' = delays + 1
  /\ timer' = IF timer = Off THEN Off ELSE timer - 1
  /\ strays' = [n \in 0 .. Longest |-> IF n = Longest THEN 0 ELSE strays[n + 1]]
  /\ UNCHANGED <<items, idx, body, fetches, scripts, disturbances>>

Init ==
  /\ items = << >> /\ idx = 1 /\ body = NoBody
  /\ fetches = [x \in Items |-> 0]
  /\ timer = Off /\ strays = [n \in 0 .. Longest |-> 0]
  /\ scripts = {} /\ disturbances = 0 /\ delays = 0

Next ==
  \/ \E x \in Items : Answer(x) \/ FetchFails(x)
  \/ TimerFires \/ StrayFires
  \/ MediumEnds("video") \/ MediumEnds("slides")
  \/ \E dir \in {-1, 1} : Skip(dir)
  \/ \E list \in Payloads : PipEvent(list)
  \/ \E medium \in Scripts : ScriptRuns(medium)
  \/ Tick

Spec == Init /\ [][Next]_vars

-----------------------------------------------------------------------------
(* Properties.                                                             *)

\* Every variable has its type.
PanelTypeOK ==
  /\ items \in Payloads /\ idx \in Nat \ {0}
  /\ body \in Bodies \cup {NoBody}
  /\ fetches \in [Items -> Nat]
  /\ timer \in Off .. Longest /\ strays \in [0 .. Longest -> Nat]
  /\ scripts \subseteq Scripts
  /\ disturbances \in 0 .. MaxDisturbances /\ delays \in 0 .. MaxDelays

Calling == body # NoBody /\ body.calls

Deaf    == body # NoBody /\ body.deaf

\* A panel with items comes to a stand only on a body that is deaf: else a fetch is
\* under way, a timer is set, or the medium it shows will call for the next item.
PanelAlive ==
  items # << >> =>
    Deaf \/ Calling \/ timer # Off \/ InFlight # {} \/ \E n \in 0 .. Longest : strays[n] > 0

\* What is going to move the panel on: fetches, timers, a medium.
Movers ==
  (UNION {{<<"fetch", x, n>> : n \in 1 .. fetches[x]} : x \in Items})
    \cup (UNION {{<<"stray", d, n>> : n \in 1 .. strays[d]} : d \in 0 .. Longest})
    \cup (IF timer # Off THEN {<<"timer">>} ELSE {})
    \cup (IF Calling THEN {<<"medium">>} ELSE {})
=============================================================================
