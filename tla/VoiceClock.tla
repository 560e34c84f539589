----------------------------- MODULE VoiceClock -----------------------------
(***************************************************************************)
(* The quarter-hour chime of one television: package voiceclock and the    *)
(* chime timer of Server.handleKioskStream.                                *)
(*                                                                         *)
(* Instants are minutes of absolute time; a wall clock adds the offset of  *)
(* the configured time zone, which changes once, at Shift (daylight saving *)
(* time).  What a chime sounds like is reduced to what the timer depends   *)
(* on: nothing, a bell that is struck when the event arrives, or a time    *)
(* signal, whose marking tone comes a while after it.  That while (a few   *)
(* seconds in the code) is counted in whole minutes.                       *)
(***************************************************************************)
EXTENDS Integers

CONSTANTS
  Shift,          \* the instant the zone's offset changes
  Before, After,  \* offsets from UTC before and from Shift on
  Second,         \* TRUE: time.Date takes a repeated wall-clock time for its
                  \* second occurrence, as it does in zones east of Greenwich
  Settings,       \* voice-clock settings an administrator may save
  PipsLead, SpeechLead, \* from sending a time signal to its marking tone
  Start, Horizon, \* bound: instants considered
  MaxLate         \* bound: by how much a timer may be served late

ASSUME ClockConstants ==
  /\ {Shift, Before, After, Start, Horizon} \subseteq Int
  /\ {PipsLead, SpeechLead, MaxLate} \subseteq Nat
  /\ Start <= Horizon
  /\ Second \in BOOLEAN

\* Zones lie whole quarters off, and change their offset on a quarter.
ASSUME QuarterZones ==
  /\ Before % 15 = 0 /\ After % 15 = 0 /\ Shift % 15 = 0

-----------------------------------------------------------------------------
(* Wall clocks.                                                            *)

Offset(t) == IF t < Shift THEN Before ELSE After
Local(t)  == t + Offset(t)

MinuteOfDay(t) == Local(t) % 1440

\* Package time: the instant at which a wall clock shows a time that it does
\* show.  A clock that is set back shows some times twice.
Date(local) ==
  LET first == local - Before
      second == local - After
  IN IF first >= Shift \/ (Second /\ second >= Shift) THEN second ELSE first

\* Mutant: a quarter of an hour from now.
NextBoundaryFromNow(now) == now + 15

\* NextBoundary: the current quarter of the hour, or 15 minutes after it.
NextBoundary(now) ==
  LET b == Date(Local(now) - (Local(now) % 15))
  IN IF b > now THEN b ELSE b + 15

-----------------------------------------------------------------------------
(* The chime of a beat.                                                    *)

Sounds == {"none", "bell", "timesignal"}
Chimes == [sound : Sounds, announce : BOOLEAN]
Silent == [sound |-> "none", announce |-> FALSE]

\* quiet is the window, or its two ends coincide.
Configs == [enabled : BOOLEAN, from : 0 .. 1439, to : 0 .. 1439,
            hour : Sounds, half : Sounds, quarter : Sounds, announce : BOOLEAN]

ASSUME SettingsAreConfigs == Settings \subseteq Configs

InQuiet(cfg, m) ==
  IF cfg.from <= cfg.to THEN cfg.from <= m /\ m < cfg.to
  ELSE cfg.from <= m \/ m < cfg.to

\* Mutant: the half hour has no default sound.
SoundForQuarterUnset(cfg, q) ==
  CASE q = 0 -> cfg.hour [] q = 2 -> "" [] OTHER -> cfg.quarter

SoundForQuarter(cfg, q) ==
  CASE q = 0 -> cfg.hour [] q = 2 -> cfg.half [] OTHER -> cfg.quarter

Decide(cfg, t) ==
  LET q == (Local(t) % 60) \div 15 IN
  IF cfg.enabled /\ ~ InQuiet(cfg, MinuteOfDay(t))
  THEN [sound |-> SoundForQuarter(cfg, q), announce |-> q = 0 /\ cfg.announce]
  ELSE Silent

\* From the event to the tone that marks the beat.
Lead(chime) ==
  IF chime.sound # "timesignal" THEN 0
  ELSE IF chime.announce THEN SpeechLead ELSE PipsLead

-----------------------------------------------------------------------------
(* The stream's chime timer.                                               *)

VARIABLES
  now,
  cfg,     \* settings.voiceclock
  beat,    \* the boundary the timer aims at
  due,     \* when it fires
  fresh,   \* history: the settings were not saved since it was set
  sent     \* history: the stream's last chime, when and for which beat

vars == <<now, cfg, beat, due, fresh, sent>>

NoneSent == [chime |-> Silent, at |-> Start, beat |-> Start, fresh |-> FALSE]

\* Mutant: every beat gets the lead of a spoken time signal.
DueWithLead(t, b) == LET early == b - SpeechLead
                     IN IF early > t THEN early ELSE t

\* chimeDelay: the timer fires a lead before the beat, or at once.
Due(t, b) == LET early == b - Lead(Decide(cfg, b))
             IN IF early > t THEN early ELSE t

SetTimer(b) ==
  /\ beat' = b
  /\ due' = Due(now, b)
  /\ fresh' = TRUE

Init ==
  /\ now = Start
  /\ cfg \in Settings
  /\ beat = NextBoundary(now)
  /\ due = Due(now, beat)
  /\ fresh = TRUE
  /\ sent = NoneSent

\* Mutant: the next boundary is taken from the clock, which may stand before
\* the beat that was just announced.
ChimeFiresByClock ==
  LET chime == Decide(cfg, beat) IN
  /\ now >= due
  /\ sent' = IF chime = Silent THEN sent
             ELSE [chime |-> chime, at |-> now, beat |-> beat, fresh |-> fresh]
  /\ SetTimer(NextBoundary(now))
  /\ UNCHANGED <<now, cfg>>

\* The settings are read again when the timer fires.
ChimeFires ==
  LET chime == Decide(cfg, beat) IN
  /\ now >= due
  /\ sent' = IF chime = Silent THEN sent
             ELSE [chime |-> chime, at |-> now, beat |-> beat, fresh |-> fresh]
  /\ SetTimer(NextBoundary(beat))
  /\ UNCHANGED <<now, cfg>>

\* handleSettingsSave; streams are not told.
SaveSettings ==
  /\ cfg' \in Settings
  /\ fresh' = FALSE
  /\ UNCHANGED <<now, beat, due, sent>>

\* The stream breaks and the television opens another one.
Reconnect ==
  /\ SetTimer(NextBoundary(now))
  /\ sent' = NoneSent
  /\ UNCHANGED <<now, cfg>>

\* The loop may be busy, or the machine asleep, when the timer is due.
Tick ==
  /\ now < Horizon /\ now < due + MaxLate
  /\ now' = now + 1
  /\ UNCHANGED <<cfg, beat, due, fresh, sent>>

Step == ChimeFires \/ SaveSettings \/ Reconnect \/ Tick

Spec == Init /\ [][Step]_vars

-----------------------------------------------------------------------------
(* Properties.                                                             *)

\* Every variable has its type.
TypeOK ==
  /\ {now, beat, due} \subseteq Int
  /\ cfg \in Settings
  /\ fresh \in BOOLEAN
  /\ sent \in [chime : Chimes, at : Int, beat : Int, fresh : BOOLEAN]

\* u is the first instant after t at which the wall clock shows a quarter.
IsNextQuarter(t, u) ==
  /\ u > t
  /\ Local(u) % 15 = 0
  /\ \A v \in t + 1 .. u - 1 : Local(v) % 15 # 0

\* voiceclock.go, NextBoundary: "the next quarter-hour wall-clock instant
\* strictly after now": the timer goes from quarter to quarter and leaves none
\* out, however late it is served and also on the day the clock is put forward.
BeatsFollowQuarters ==
  [][beat' # beat => IsNextQuarter(beat, beat') \/ IsNextQuarter(now, beat')]_vars

\* A stream sends no beat twice, and beats in their order: the timer fires before
\* the beat it aims at, and has to go on from the beat and not from the clock.
EachBeatOnce ==
  [][sent' # sent /\ sent' # NoneSent => sent = NoneSent \/ sent'.beat > sent.beat]_vars

\* server.go, handleKioskStream: "the timer fires slightly early when that beat's
\* sound has a marking tone so the tone lands exactly on the boundary": as long
\* as nobody saves the settings in between, no tone lands before its boundary.
ToneNotEarly == sent.fresh => sent.at + Lead(sent.chime) >= sent.beat
=============================================================================
