----------------------------- MODULE PageLife ------------------------------
(***************************************************************************)
(* When a television's page loads itself again: in the night (kiosk.js),   *)
(* when the stream tells of another build (kiosk.js), and when the stream  *)
(* has been silent for too long (the watchdog of kiosk.templ).             *)
(*                                                                         *)
(* A reload starts every script afresh, so that nothing a script remembers *)
(* outlives it.                                                            *)
(***************************************************************************)
EXTENDS Integers

CONSTANTS
  DayLength,   \* ticks of a day, counted from 0
  ReloadHour,  \* the ticks of the day from 04:00 to 04:59
  Patience,    \* 150 s, in ticks
  Builds       \* bound: starts of the server, each with a boot id of its own

VARIABLES
  clock,          \* tick of the day
  build,          \* the start that serves now: Server.bootID
  page,           \* "loading", "running", or "broken": its event handlers are dead
  reloadedToday,
  bootID,         \* build the page was told of first; 0: none yet
  silence,        \* ticks since the last heartbeat
  nightly         \* history: loads for the night's sake since the day began

vars == <<clock, build, page, reloadedToday, bootID, silence, nightly>>

-----------------------------------------------------------------------------
\* maybeNightlyReload, with what the page remembers.
MaybeNightlyReload(hour, remembered) ==
  IF hour \in ReloadHour /\ ~ remembered
  THEN page' = "loading" /\ reloadedToday' = TRUE /\ nightly' = nightly + 1
  ELSE /\ page' = "running" /\ nightly' = nightly
       /\ reloadedToday' = (remembered /\ hour \in ReloadHour)

\* The document arrives, and tick() runs for the first time.
Load ==
  /\ page = "loading"
  /\ MaybeNightlyReload(clock, FALSE)
  /\ bootID' = 0 /\ silence' = 0
  /\ UNCHANGED <<clock, build>>

\* A second passes, and with it tick() and the watchdog.
Second ==
  /\ page = "running" /\ silence <= Patience
  /\ clock' = (clock + 1) % DayLength
  /\ silence' = silence + 1
  /\ IF clock' = 0
     THEN page' = "running" /\ reloadedToday' = FALSE /\ nightly' = 0
     ELSE MaybeNightlyReload(clock', reloadedToday)
  /\ UNCHANGED <<build, bootID>>

BrokenSecond ==
  /\ page = "broken" /\ silence <= Patience
  /\ clock' = (clock + 1) % DayLength
  /\ silence' = silence + 1
  /\ nightly' = IF clock' = 0 THEN 0 ELSE nightly
  /\ UNCHANGED <<build, page, reloadedToday, bootID>>

Watchdog ==
  /\ page \in {"running", "broken"} /\ silence > Patience
  /\ page' = "loading"
  /\ UNCHANGED <<clock, build, reloadedToday, bootID, silence, nightly>>

\* The stream connects, or connects again, and sends its build.
Version ==
  /\ page = "running"
  /\ silence' = 0
  /\ IF bootID \in {0, build} THEN bootID' = build /\ page' = page
     ELSE page' = "loading" /\ UNCHANGED bootID
  /\ UNCHANGED <<clock, build, reloadedToday, nightly>>

Refresh == page = "running" /\ silence' = 0
           /\ UNCHANGED <<clock, build, page, reloadedToday, bootID, nightly>>

Redeploy == build < Builds /\ build' = build + 1
            /\ UNCHANGED <<clock, page, reloadedToday, bootID, silence, nightly>>

Break == page = "running" /\ page' = "broken"
         /\ UNCHANGED <<clock, build, reloadedToday, bootID, silence, nightly>>

Init ==
  /\ clock \in (0 .. DayLength - 1) \ ReloadHour
  /\ build = 1 /\ page = "loading" /\ reloadedToday = FALSE
  /\ bootID = 0 /\ silence = 0 /\ nightly = 0

Next == Load \/ Second \/ BrokenSecond \/ Watchdog \/ Version \/ Refresh
        \/ Redeploy \/ Break

Spec == Init /\ [][Next]_vars

-----------------------------------------------------------------------------
(* What comments in the code say, and the model refutes.                   *)

\* kiosk.js: "A single full reload at a dead hour (04:00 local)", "Guarded so it
\* fires once per night".  The guard is a variable of the page that reloads.
OncePerNight == nightly <= 1
=============================================================================
