-------------------------- MODULE VoiceClockProofs --------------------------
(***************************************************************************)
(* The chime timer for every zone and every setting: types and leads hold  *)
(* in all zones, the order of the beats in those whose clock is not set    *)
(* back.  Then the timer together with the page that plays what it sends   *)
(* (SpeakingClock), for every delay of an event and every length of a      *)
(* sentence.                                                               *)
(***************************************************************************)
EXTENDS SpeakingClock, FiniteSetTheorems, TLAPS

\* On a wall clock quarters fall where they fall on the absolute clock.
LEMMA LocalQuarters ==
  ASSUME NEW t \in Int
  PROVE  Local(t) \in Int /\ Local(t) % 15 = t % 15
BY ClockConstants, QuarterZones DEF Local, Offset

\* Package time finds an instant, whatever the wall clock shows.
LEMMA DateIsInt ==
  ASSUME NEW l \in Int
  PROVE  Date(l) \in Int
BY ClockConstants DEF Date

\* A wall clock that is not set back shows the beginning of the current quarter
\* once, and package time finds it.
LEMMA DateOfQuarter ==
  ASSUME Before <= After, NEW t \in Int
  PROVE  Date(Local(t) - (Local(t) % 15)) = t - (t % 15)
<1>1. PICK q \in Int : q = t - (t % 15)
  OBVIOUS
<1>2. q <= t /\ q % 15 = 0 /\ q > t - 15
  BY <1>1
<1>3. Local(t) - (Local(t) % 15) = q + Offset(t)
  <2>1. Local(t) % 15 = t % 15
    BY LocalQuarters
  <2>2. Offset(t) \in Int
    BY ClockConstants DEF Offset
  <2> QED BY <2>1, <2>2, <1>1 DEF Local
<1>4. CASE t < Shift
  <2>1. Offset(t) = Before
    BY <1>4 DEF Offset
  <2>2. (q + Before) - Before < Shift /\ ~ ((q + Before) - After >= Shift)
    BY <1>2, <1>4, ClockConstants
  <2>3. Date(q + Before) = q
    BY <2>2, ClockConstants DEF Date
  <2> QED BY <1>1, <1>3, <2>1, <2>3
<1>5. CASE ~ (t < Shift)
  <2>1. Offset(t) = After
    BY <1>5 DEF Offset
  <2>2. q >= Shift
    BY <1>2, <1>5, QuarterZones, ClockConstants
  <2>3. (q + After) - Before >= Shift
    BY <2>2, ClockConstants
  <2>4. Date(q + After) = q
    BY <2>3, ClockConstants DEF Date
  <2> QED BY <1>1, <1>3, <2>1, <2>4
<1> QED BY <1>4, <1>5

\* NextBoundary returns the next quarter hour of the wall clock.
THEOREM NextBoundaryIsNextQuarter ==
  ASSUME Before <= After, NEW t \in Int
  PROVE  /\ NextBoundary(t) \in Int
         /\ IsNextQuarter(t, NextBoundary(t))
<1> DEFINE u == t - (t % 15) + 15
<1>1. NextBoundary(t) = u
  <2>1. ~ (t - (t % 15) > t)
    OBVIOUS
  <2> QED BY <2>1, DateOfQuarter DEF NextBoundary
<1>2. u \in Int /\ u > t /\ u % 15 = 0
  OBVIOUS
<1>3. ASSUME NEW v \in t + 1 .. u - 1
      PROVE  Local(v) % 15 # 0
  <2>1. v \in Int /\ v % 15 # 0
    OBVIOUS
  <2> QED BY <2>1, LocalQuarters
<1>4. Local(u) % 15 = 0
  BY <1>2, LocalQuarters
<1> QED BY <1>1, <1>2, <1>3, <1>4 DEF IsNextQuarter

\* A wall clock that is set back shows the beginning of the current quarter once
\* or twice: package time returns it, or its second time, still to come.
LEMMA DateOfRepeatedQuarter ==
  ASSUME Before > After, Second, NEW t \in Int
  PROVE  LET d == Date(Local(t) - (Local(t) % 15)) IN
         \/ d = t - (t % 15)
         \/ /\ t < Shift /\ d >= Shift
            /\ d = (t - (t % 15)) + (Before - After)
<1>1. PICK q \in Int : q = t - (t % 15)
  OBVIOUS
<1>2. q <= t /\ q % 15 = 0 /\ q > t - 15
  BY <1>1
<1>3. Local(t) - (Local(t) % 15) = q + Offset(t)
  <2>1. Local(t) % 15 = t % 15
    BY LocalQuarters
  <2>2. Offset(t) \in Int
    BY ClockConstants DEF Offset
  <2> QED BY <2>1, <2>2, <1>1 DEF Local
<1>4. CASE t < Shift
  <2>1. Offset(t) = Before
    BY <1>4 DEF Offset
  <2>2. ~ ((q + Before) - Before >= Shift)
    BY <1>2, <1>4, ClockConstants
  <2>3. Date(q + Before) = IF (q + Before) - After >= Shift THEN (q + Before) - After ELSE q
    BY <2>2, ClockConstants DEF Date
  <2> QED BY <1>1, <1>3, <1>4, <2>1, <2>3, ClockConstants
<1>5. CASE ~ (t < Shift)
  <2>1. Offset(t) = After
    BY <1>5 DEF Offset
  <2>2. q >= Shift
    BY <1>2, <1>5, QuarterZones, ClockConstants
  <2>3. Date(q + After) = q
    BY <2>2, ClockConstants DEF Date
  <2> QED BY <1>1, <1>3, <2>1, <2>3
<1> QED BY <1>4, <1>5

\* Where package time takes a time that is shown twice for its second occurrence,
\* NextBoundary goes forward and ends on a quarter of the wall clock also in the night
\* the clock is set back; what it then passes over is at most the repeated time.
THEOREM NextBoundaryGoesForward ==
  ASSUME Before <= After \/ Second, NEW t \in Int
  PROVE  /\ NextBoundary(t) \in Int
         /\ NextBoundary(t) > t
         /\ Local(NextBoundary(t)) % 15 = 0
         /\ NextBoundary(t) <= t + 15 + MaxOf(0, Before - After)
<1> DEFINE d == Date(Local(t) - (Local(t) % 15))
<1>1. /\ MaxOf(0, Before - After) \in Int /\ MaxOf(0, Before - After) >= 0
      /\ MaxOf(0, Before - After) >= Before - After
  BY ClockConstants DEF MaxOf
<1>2. CASE d = t - (t % 15)
  <2>1. NextBoundary(t) = (t - (t % 15)) + 15
    <3>1. ~ (t - (t % 15) > t)
      OBVIOUS
    <3> QED BY <1>2, <3>1 DEF NextBoundary
  <2>2. /\ NextBoundary(t) \in Int /\ NextBoundary(t) > t /\ NextBoundary(t) % 15 = 0
        /\ NextBoundary(t) <= t + 15
    BY <2>1
  <2> QED BY <1>1, <2>2, LocalQuarters
<1>3. CASE d # t - (t % 15)
  <2>1. Before > After /\ Second
    BY <1>3, DateOfQuarter, ClockConstants
  <2>2. t < Shift /\ d >= Shift /\ d = (t - (t % 15)) + (Before - After)
    BY <1>3, <2>1, DateOfRepeatedQuarter
  <2>3. d \in Int /\ d > t
    BY <2>2, ClockConstants
  <2>4. NextBoundary(t) = d
    BY <2>3 DEF NextBoundary
  <2>5. Local(d) % 15 = 0
    <3>1. d % 15 = 0
      BY <2>2, QuarterZones, ClockConstants
    <3> QED BY <2>3, <3>1, LocalQuarters
  <2>6. d <= t + 15 + MaxOf(0, Before - After)
    BY <1>1, <2>2, ClockConstants
  <2> QED BY <2>3, <2>4, <2>5, <2>6
<1> QED BY <1>2, <1>3

-----------------------------------------------------------------------------
(* Types, for every zone.                                                  *)

LEMMA NextBoundaryIsInt ==
  ASSUME NEW t \in Int
  PROVE  NextBoundary(t) \in Int
<1>1. Local(t) - (Local(t) % 15) \in Int
  BY LocalQuarters
<1>2. Date(Local(t) - (Local(t) % 15)) \in Int
  BY <1>1, DateIsInt
<1> QED BY <1>2 DEF NextBoundary

LEMMA DecideIsChime ==
  ASSUME NEW c \in Settings, NEW t \in Int
  PROVE  Decide(c, t) \in Chimes
<1>1. c.hour \in Sounds /\ c.half \in Sounds /\ c.quarter \in Sounds /\ c.announce \in BOOLEAN
  BY SettingsAreConfigs DEF Configs
<1>2. ASSUME NEW q
      PROVE  SoundForQuarter(c, q) \in Sounds
  BY <1>1 DEF SoundForQuarter
<1>3. ASSUME NEW q
      PROVE  (q = 0 /\ c.announce) \in BOOLEAN
  BY <1>1, Zenon
<1>4. Silent \in Chimes
  BY DEF Silent, Chimes, Sounds
<1> HIDE DEF Sounds
<1>5. CASE c.enabled /\ ~ InQuiet(c, MinuteOfDay(t))
  <2>1. Decide(c, t) = [sound |-> SoundForQuarter(c, (Local(t) % 60) \div 15),
                        announce |-> (Local(t) % 60) \div 15 = 0 /\ c.announce]
    BY <1>5, Zenon DEF Decide
  <2>2. PICK s \in Sounds : s = SoundForQuarter(c, (Local(t) % 60) \div 15)
    BY <1>2
  <2>3. PICK b \in BOOLEAN : b = ((Local(t) % 60) \div 15 = 0 /\ c.announce)
    BY <1>3, Zenon
  <2>4. Decide(c, t) = [sound |-> s, announce |-> b]
    BY <2>1, <2>2, <2>3, Zenon
  <2> QED BY <2>2, <2>3, <2>4 DEF Chimes
<1>6. CASE ~ (c.enabled /\ ~ InQuiet(c, MinuteOfDay(t)))
  BY <1>6, <1>4, Zenon DEF Decide
<1> QED BY <1>5, <1>6

LEMMA LeadIsNat ==
  ASSUME NEW chime \in Chimes
  PROVE  Lead(chime) \in Nat
BY ClockConstants DEF Lead

\* The timer is set to a lead before its beat, or to the present.
LEMMA DueBounds ==
  ASSUME TypeOK, NEW b \in Int
  PROVE  /\ Due(now, b) \in Int
         /\ Due(now, b) >= b - Lead(Decide(cfg, b))
<1>1. now \in Int /\ cfg \in Settings
  BY DEF TypeOK
<1>2. Lead(Decide(cfg, b)) \in Nat
  BY <1>1, DecideIsChime, LeadIsNat
<1> QED BY <1>1, <1>2 DEF Due

LEMMA InitIsTyped ==
  ASSUME Init
  PROVE  TypeOK
<1>1. now \in Int /\ cfg \in Settings /\ fresh \in BOOLEAN
  BY ClockConstants DEF Init
<1>2. beat \in Int
  BY <1>1, NextBoundaryIsInt DEF Init
<1>3. due \in Int
  <2>1. Lead(Decide(cfg, beat)) \in Nat
    BY <1>1, <1>2, DecideIsChime, LeadIsNat
  <2> QED BY <1>1, <1>2, <2>1 DEF Init, Due
<1>4. sent \in [chime : Chimes, at : Int, beat : Int, fresh : BOOLEAN]
  BY ClockConstants DEF Init, NoneSent, Silent, Chimes, Sounds
<1> QED BY <1>1, <1>2, <1>3, <1>4 DEF TypeOK

\* Every variable has its type, in every zone and with every setting.
THEOREM TypeCorrect == Spec => []TypeOK
<1>1. Init => TypeOK
  BY InitIsTyped
<1>2. TypeOK /\ [Step]_vars => TypeOK'
  <2> SUFFICES ASSUME TypeOK, [Step]_vars PROVE TypeOK'
    OBVIOUS
  <2>1. CASE ChimeFires
    <3>1. Decide(cfg, beat) \in Chimes
      BY DecideIsChime DEF TypeOK
    <3>2. NextBoundary(beat) \in Int
      BY NextBoundaryIsInt DEF TypeOK
    <3>3. Due(now, NextBoundary(beat)) \in Int
      BY <3>2, DueBounds
    <3> HIDE DEF Chimes
    <3>4. sent' \in [chime : Chimes, at : Int, beat : Int, fresh : BOOLEAN]
      BY <2>1, <3>1 DEF TypeOK, ChimeFires
    <3> QED BY <2>1, <3>2, <3>3, <3>4 DEF TypeOK, ChimeFires, SetTimer
  <2>2. CASE SaveSettings
    BY <2>2 DEF TypeOK, SaveSettings
  <2>3. CASE Reconnect
    <3>1. NextBoundary(now) \in Int
      BY NextBoundaryIsInt DEF TypeOK
    <3>2. Due(now, NextBoundary(now)) \in Int
      BY <3>1, DueBounds
    <3>3. NoneSent \in [chime : Chimes, at : Int, beat : Int, fresh : BOOLEAN]
      BY ClockConstants DEF NoneSent, Silent, Chimes, Sounds
    <3> QED BY <2>3, <3>1, <3>2, <3>3 DEF TypeOK, Reconnect, SetTimer
  <2>4. CASE Tick
    BY <2>4 DEF TypeOK, Tick
  <2>5. CASE UNCHANGED vars
    BY <2>5 DEF TypeOK, vars
  <2> QED BY <2>1, <2>2, <2>3, <2>4, <2>5 DEF Step
<1> QED BY <1>1, <1>2, PTL DEF Spec

-----------------------------------------------------------------------------
(* Leads, for every zone.                                                  *)

\* A timer set under the current settings does not fire before the lead.
ToneInv == fresh => due >= beat - Lead(Decide(cfg, beat))

\* No tone lands before its boundary while the settings stay as they were when
\* the timer was set, in every zone and however late the timer is served.
THEOREM TonesLandInTime == Spec => []ToneNotEarly
<1>1. Init => ToneInv /\ ToneNotEarly
  <2> SUFFICES ASSUME Init PROVE ToneInv /\ ToneNotEarly
    OBVIOUS
  <2>1. now \in Int /\ cfg \in Settings
    BY ClockConstants DEF Init
  <2>2. beat \in Int
    BY <2>1, NextBoundaryIsInt DEF Init
  <2>3. Lead(Decide(cfg, beat)) \in Nat
    BY <2>1, <2>2, DecideIsChime, LeadIsNat
  <2>4. ToneInv
    BY <2>1, <2>2, <2>3 DEF Init, Due, ToneInv
  <2> QED BY <2>4 DEF Init, NoneSent, ToneNotEarly
<1>2. TypeOK /\ ToneInv /\ ToneNotEarly /\ [Step]_vars => ToneInv' /\ ToneNotEarly'
  <2> SUFFICES ASSUME TypeOK, ToneInv, ToneNotEarly, [Step]_vars
               PROVE  ToneInv' /\ ToneNotEarly'
    OBVIOUS
  <2>1. CASE ChimeFires
    <3>1. cfg' = cfg /\ beat' = NextBoundary(beat) /\ due' = Due(now, beat') /\ now >= due
      BY <2>1 DEF ChimeFires, SetTimer
    <3>2. beat' \in Int
      BY <3>1, NextBoundaryIsInt DEF TypeOK
    <3>3. due' >= beat' - Lead(Decide(cfg, beat'))
      BY <3>1, <3>2, DueBounds
    <3>4. ToneInv'
      BY <3>1, <3>3 DEF ToneInv, Decide, SoundForQuarter, InQuiet
    <3>5. CASE Decide(cfg, beat) = Silent
      BY <2>1, <3>4, <3>5 DEF ChimeFires, ToneNotEarly
    <3>6. CASE Decide(cfg, beat) # Silent
      <4>1. sent' = [chime |-> Decide(cfg, beat), at |-> now, beat |-> beat, fresh |-> fresh]
        BY <2>1, <3>6 DEF ChimeFires
      <4>2. Lead(Decide(cfg, beat)) \in Nat
        BY DecideIsChime, LeadIsNat DEF TypeOK
      <4>3. fresh => now + Lead(Decide(cfg, beat)) >= beat
        BY <3>1, <4>2 DEF ToneInv, TypeOK
      <4>4. ToneNotEarly'
        BY <4>1, <4>3 DEF ToneNotEarly, Lead
      <4> QED BY <3>4, <4>4
    <3> QED BY <3>5, <3>6
  <2>2. CASE SaveSettings
    BY <2>2 DEF SaveSettings, ToneInv, ToneNotEarly
  <2>3. CASE Reconnect
    <3>1. cfg' = cfg /\ beat' = NextBoundary(now) /\ due' = Due(now, beat') /\ sent' = NoneSent
      BY <2>3 DEF Reconnect, SetTimer
    <3>2. beat' \in Int
      BY <3>1, NextBoundaryIsInt DEF TypeOK
    <3>3. due' >= beat' - Lead(Decide(cfg, beat'))
      BY <3>1, <3>2, DueBounds
    <3> QED BY <3>1, <3>3 DEF ToneInv, ToneNotEarly, NoneSent
  <2>4. CASE Tick
    BY <2>4 DEF Tick, ToneInv, ToneNotEarly
  <2>5. CASE UNCHANGED vars
    BY <2>5 DEF vars, ToneInv, ToneNotEarly
  <2> QED BY <2>1, <2>2, <2>3, <2>4, <2>5 DEF Step
<1> QED BY <1>1, <1>2, TypeCorrect, PTL DEF Spec

-----------------------------------------------------------------------------
(* The order of the beats, in a zone whose clock is put forward.           *)

\* The timer's beats follow the quarters of the wall clock.
THEOREM BeatsInOrder ==
  ASSUME Before <= After
  PROVE  Spec => BeatsFollowQuarters
<1>1. TypeOK /\ [Step]_vars
      => [beat' # beat => IsNextQuarter(beat, beat') \/ IsNextQuarter(now, beat')]_vars
  <2> SUFFICES ASSUME TypeOK, Step
               PROVE  beat' # beat => IsNextQuarter(beat, beat') \/ IsNextQuarter(now, beat')
    OBVIOUS
  <2>1. now \in Int /\ beat \in Int
    BY DEF TypeOK
  <2>2. CASE ChimeFires
    BY <2>1, <2>2, NextBoundaryIsNextQuarter DEF ChimeFires, SetTimer
  <2>3. CASE Reconnect
    BY <2>1, <2>3, NextBoundaryIsNextQuarter DEF Reconnect, SetTimer
  <2>4. CASE SaveSettings \/ Tick
    BY <2>4 DEF SaveSettings, Tick
  <2> QED BY <2>2, <2>3, <2>4 DEF Step
<1> QED BY <1>1, TypeCorrect, PTL DEF Spec, BeatsFollowQuarters

\* What has been sent lies before the beat the timer aims at.
OrderInv == sent = NoneSent \/ sent.beat < beat

\* A stream sends each beat once, in order, wherever NextBoundary goes forward: the
\* night the clock is set back included.
THEOREM EachBeatIsSentOnce ==
  ASSUME Before <= After \/ Second
  PROVE  Spec => EachBeatOnce
<1>1. Init => OrderInv
  BY DEF Init, OrderInv
<1>2. TypeOK /\ OrderInv /\ [Step]_vars
      => OrderInv' /\ [sent' # sent /\ sent' # NoneSent
                       => sent = NoneSent \/ sent'.beat > sent.beat]_vars
  <2> SUFFICES ASSUME TypeOK, OrderInv, [Step]_vars
               PROVE  /\ OrderInv'
                      /\ sent' # sent /\ sent' # NoneSent
                         => sent = NoneSent \/ sent'.beat > sent.beat
    OBVIOUS
  <2>1. now \in Int /\ beat \in Int /\ sent.beat \in Int
    BY DEF TypeOK
  <2>2. CASE ChimeFires
    <3>1. beat' \in Int /\ beat' > beat
      BY <2>1, <2>2, NextBoundaryGoesForward DEF ChimeFires, SetTimer
    <3>2. sent' = sent \/ sent'.beat = beat
      BY <2>2 DEF ChimeFires
    <3> QED BY <2>1, <3>1, <3>2 DEF OrderInv, NoneSent
  <2>3. CASE Reconnect
    BY <2>3 DEF Reconnect, OrderInv, NoneSent
  <2>4. CASE SaveSettings \/ Tick
    BY <2>4 DEF SaveSettings, Tick, OrderInv, NoneSent
  <2>5. CASE UNCHANGED vars
    BY <2>5 DEF vars, OrderInv, NoneSent
  <2> QED BY <2>2, <2>3, <2>4, <2>5 DEF Step
<1> QED BY <1>1, <1>2, TypeCorrect, PTL DEF Spec, EachBeatOnce

-----------------------------------------------------------------------------
(* The page that plays the chimes.                                         *)

\* Whatever the page does, the stream's chime timer behaves as VoiceClock says.
THEOREM KeepsTheTimer == ClockSpec => Spec
<1>1. ClockInit => Init
  BY DEF ClockInit
<1>2. [ClockStep]_allVars => [Step]_vars
  <2> SUFFICES ASSUME [ClockStep]_allVars PROVE [Step]_vars
    OBVIOUS
  <2>1. CASE Send \/ Save \/ NewStream \/ (Tick /\ PageTick)
    BY <2>1 DEF Send, Save, NewStream, Step
  <2>2. CASE Hear \/ SpeechEnds \/ Snooze
    BY <2>2 DEF Hear, SpeechEnds, Snooze
  <2>3. ASSUME NEW w \in waiting, Speak(w) PROVE [Step]_vars
    BY <2>3 DEF Speak
  <2>4. ASSUME NEW p \in tones, Mark(p) PROVE [Step]_vars
    BY <2>4 DEF Mark
  <2>5. CASE UNCHANGED allVars
    BY <2>5 DEF allVars
  <2> QED BY <2>1, <2>2, <2>3, <2>4, <2>5, Zenon DEF ClockStep
<1> QED BY <1>1, <1>2, PTL DEF ClockSpec, Spec

-----------------------------------------------------------------------------
(* What the page holds.                                                    *)

Events == [chime : Chimes, at : Int, beat : Int, fresh : BOOLEAN]

Sentences == [left : Int, beat : Int, leads : BOOLEAN]

\* An event is on its way since a moment from which its tone is not early.
SentInTime(e, t) == e.at <= t /\ (e.fresh => e.at + Lead(e.chime) >= e.beat)

\* Where the tone of a time signal will land.
LandsInTime(p) ==
  /\ {p.due, p.beat, p.ended} \subseteq Int
  /\ IF p.spoken
     THEN p.due >= p.beat /\ (p.due > p.beat => p.ended > p.beat - PipsLead)
     ELSE p.fresh => p.due >= p.beat

PageInv ==
  /\ wire \in Seq(Events)
  /\ \A i \in DOMAIN wire : SentInTime(wire[i], now)
  /\ \A w \in waiting : w.beat \in Int /\ w.leads \in BOOLEAN
  /\ speech \in Seq(Sentences)
  /\ \A p \in tones : LandsInTime(p)

\* A tone that follows a sentence is set for the beat, or at once.
LEMMA PipLandsInTime ==
  ASSUME now \in Int, NEW u, u.beat \in Int
  PROVE  LandsInTime(Pip(u))
<1> DEFINE t == MaxOf(now, u.beat - PipsLead)
<1>1. PipsLead \in Nat
  BY ClockConstants
<1>2. t \in Int /\ t >= now /\ t >= u.beat - PipsLead
      /\ (t > u.beat - PipsLead => now > u.beat - PipsLead)
  BY <1>1 DEF MaxOf
<1>3. Pip(u) = [due |-> t + PipsLead, beat |-> u.beat, fresh |-> TRUE, ended |-> now, spoken |-> TRUE]
  BY DEF Pip
<1> HIDE DEF t
<1> QED BY <1>1, <1>2, <1>3 DEF LandsInTime

\* Time passes and settings are saved: nothing comes early by that.
LEMMA OthersKeepPage ==
  ASSUME TypeOK, TypeOK', PageInv, now' >= now, UNCHANGED page,
         wire' = wire \/ wire' = << >>
  PROVE  PageInv'
<1>1. now \in Int /\ now' \in Int
  BY DEF TypeOK
<1>2. waiting' = waiting /\ speech' = speech /\ tones' = tones
  BY DEF page
<1>3. \A p \in tones' : LandsInTime(p)
  BY <1>2 DEF PageInv, LandsInTime
<1>4. CASE wire' = << >>
  BY <1>2, <1>3, <1>4 DEF PageInv
<1>5. CASE wire' = wire
  <2>1. ASSUME NEW i \in DOMAIN wire
        PROVE  SentInTime(wire[i], now')
    <3>1. wire[i] \in Events /\ SentInTime(wire[i], now)
      BY DEF PageInv
    <3>2. wire[i].at \in Int
      BY <3>1 DEF Events
    <3> QED BY <1>1, <1>5, <3>1, <3>2 DEF SentInTime, Lead
  <2> QED BY <1>2, <1>3, <1>5, <2>1 DEF PageInv
<1> QED BY <1>4, <1>5

\* The stream puts the chime it decided on on the way.
LEMMA SendKeepsPage ==
  ASSUME TypeOK, TypeOK', ToneNotEarly', PageInv, Send
  PROVE  PageInv'
<1>1. now \in Int /\ now' = now /\ UNCHANGED page
  BY DEF Send, ChimeFires, TypeOK
<1>2. CASE Decide(cfg, beat) = Silent
  BY <1>1, <1>2, OthersKeepPage DEF Send
<1>3. CASE Decide(cfg, beat) # Silent
  <2>1. wire' = Append(wire, sent')
    BY <1>3 DEF Send
  <2>2. sent' \in Events
    BY DEF TypeOK, Events
  <2>3. sent'.at = now
    BY <1>3 DEF Send, ChimeFires
  <2>4. SentInTime(sent', now')
    BY <1>1, <2>3 DEF SentInTime, ToneNotEarly
  <2>5. wire' \in Seq(Events)
    BY <2>1, <2>2 DEF PageInv
  <2>6. ASSUME NEW i \in DOMAIN wire'
        PROVE  SentInTime(wire'[i], now')
    <3>1. wire \in Seq(Events) /\ i \in 1 .. Len(wire) + 1
      BY <2>1, <2>2 DEF PageInv
    <3>2. CASE i = Len(wire) + 1
      BY <2>1, <2>2, <2>4, <3>1, <3>2
    <3>3. CASE i \in 1 .. Len(wire)
      <4>1. SentInTime(wire[i], now) /\ wire'[i] = wire[i]
        BY <2>1, <3>1, <3>3 DEF PageInv
      <4> QED BY <1>1, <4>1 DEF SentInTime
    <3> QED BY <3>1, <3>2, <3>3
  <2>7. waiting' = waiting /\ speech' = speech /\ tones' = tones
    BY <1>1 DEF page
  <2>8. \A p \in tones' : LandsInTime(p)
    BY <2>7 DEF PageInv, LandsInTime
  <2> QED BY <2>5, <2>6, <2>7, <2>8 DEF PageInv
<1> QED BY <1>2, <1>3

\* The page hears a chime: its pips, if they come at once, are as late as their lead.
LEMMA HearKeepsPage ==
  ASSUME TypeOK, PageInv, Hear
  PROVE  PageInv'
<1> DEFINE e == Head(wire)
<1>1. e \in Events /\ SentInTime(e, now)
  <2>1. wire \in Seq(Events) /\ wire # << >>
    BY DEF PageInv, Hear
  <2>2. 1 \in DOMAIN wire /\ e = wire[1]
    BY <2>1
  <2> QED BY <2>1, <2>2 DEF PageInv
<1>2. now' = now /\ speech' = speech /\ now \in Int /\ PipsLead \in Nat
  BY ClockConstants DEF Hear, vars, TypeOK
<1>3. wire' \in Seq(Events) /\ \A i \in DOMAIN wire' : SentInTime(wire'[i], now')
  <2>1. wire \in Seq(Events) /\ wire # << >> /\ wire' = Tail(wire)
    BY DEF PageInv, Hear
  <2>2. ASSUME NEW i \in DOMAIN wire'
        PROVE  SentInTime(wire'[i], now')
    <3>1. i + 1 \in DOMAIN wire /\ wire'[i] = wire[i + 1]
      BY <2>1
    <3>2. SentInTime(wire[i + 1], now)
      BY <3>1 DEF PageInv
    <3> QED BY <1>2, <3>1, <3>2 DEF SentInTime
  <2> QED BY <2>1, <2>2
<1>4. \A p \in tones : LandsInTime(p)
  BY DEF PageInv, LandsInTime
<1>5. CASE snoozed
  <2>1. waiting' = waiting /\ tones' = tones
    BY <1>5 DEF Hear
  <2> QED BY <1>2, <1>3, <1>4, <2>1 DEF PageInv
<1>6. CASE ~ snoozed /\ LeadIn(e)
  <2>1. PICK delay \in {0, AttentionTime} :
          waiting' = waiting \cup {[due |-> now + delay, beat |-> e.beat, leads |-> TRUE]}
    BY <1>6 DEF LeadIn
  <2>2. tones' = tones /\ e.beat \in Int
    BY <1>1, <1>6 DEF LeadIn, Events
  <2>3. \A w \in waiting' : w.beat \in Int /\ w.leads \in BOOLEAN
    <3> DEFINE new == [due |-> now + delay, beat |-> e.beat, leads |-> TRUE]
    <3>1. \A w \in waiting : w.beat \in Int /\ w.leads \in BOOLEAN
      BY DEF PageInv
    <3>2. new.beat = e.beat /\ new.leads = TRUE
      OBVIOUS
    <3>3. waiting' = waiting \cup {new}
      BY <2>1
    <3> HIDE DEF new, e
    <3> QED BY <2>2, <3>1, <3>2, <3>3
  <2> QED BY <1>2, <1>3, <1>4, <2>2, <2>3 DEF PageInv
<1>7. CASE ~ snoozed /\ Ring(e)
  <2>1. tones' = tones /\ e.beat \in Int
    BY <1>1, <1>7 DEF Ring, Events
  <2>2. \A w \in waiting' : w.beat \in Int /\ w.leads \in BOOLEAN
    <3> DEFINE new == [due |-> now + PlaySound(e.chime.sound), beat |-> e.beat, leads |-> FALSE]
    <3>1. \A w \in waiting : w.beat \in Int /\ w.leads \in BOOLEAN
      BY DEF PageInv
    <3>2. new.beat = e.beat /\ new.leads = FALSE
      OBVIOUS
    <3>3. waiting' = waiting \/ waiting' = waiting \cup {new}
      BY <1>7 DEF Ring
    <3> HIDE DEF new, e
    <3> QED BY <2>1, <3>1, <3>2, <3>3
  <2> QED BY <1>2, <1>3, <1>4, <2>1, <2>2 DEF PageInv
<1>8. CASE ~ snoozed /\ PipsOnly(e)
  <2> DEFINE p == [due |-> now + PipsLead, beat |-> e.beat, fresh |-> e.fresh,
                   ended |-> now, spoken |-> FALSE]
  <2>1. waiting' = waiting /\ tones' = tones \cup {p}
    BY <1>8 DEF PipsOnly
  <2>2. e.beat \in Int /\ e.at \in Int
    BY <1>1 DEF Events
  <2>3. Lead(e.chime) = PipsLead
    BY <1>8 DEF PipsOnly, Lead
  <2>4. LandsInTime(p)
    BY <1>1, <1>2, <2>2, <2>3 DEF LandsInTime, SentInTime
  <2> QED BY <1>2, <1>3, <1>4, <2>1, <2>4 DEF PageInv
<1> QED BY <1>5, <1>6, <1>7, <1>8 DEF Hear

\* What the page does by itself leaves the events on their way as they are.
LEMMA WireIsLeftAlone ==
  ASSUME PageInv, wire' = wire, now' = now
  PROVE  wire' \in Seq(Events) /\ \A i \in DOMAIN wire' : SentInTime(wire'[i], now')
BY DEF PageInv

LEMMA SpeakKeepsPage ==
  ASSUME PageInv, NEW w \in waiting, Speak(w)
  PROVE  PageInv'
<1>1. PICK n \in 0 .. MaxSpeech :
        speech' = Append(speech, [left |-> n, beat |-> w.beat, leads |-> w.leads])
  BY DEF Speak
<1>2. [left |-> n, beat |-> w.beat, leads |-> w.leads] \in Sentences
  BY DEF PageInv, Sentences
<1>3. speech' \in Seq(Sentences)
  BY <1>1, <1>2 DEF PageInv
<1>4. waiting' \subseteq waiting /\ tones' = tones /\ wire' = wire /\ now' = now
  BY DEF Speak, vars
<1> QED BY <1>3, <1>4, WireIsLeftAlone DEF PageInv

\* A sentence ends, and its pips are set.
LEMMA SpeechEndsKeepsPage ==
  ASSUME TypeOK, PageInv, SpeechEnds
  PROVE  PageInv'
<1>1. speech \in Seq(Sentences) /\ speech # << >> /\ speech' = Tail(speech)
  BY DEF PageInv, SpeechEnds
<1>2. speech' \in Seq(Sentences)
  BY <1>1
<1>3. Head(speech) \in Sentences
  BY <1>1
<1>4. now \in Int /\ Head(speech).beat \in Int
  BY <1>3 DEF Sentences, TypeOK
<1>5. LandsInTime(Pip(Head(speech)))
  BY <1>4, PipLandsInTime
<1>6. \A p \in tones' : LandsInTime(p)
  BY <1>5 DEF PageInv, SpeechEnds
<1>7. waiting' = waiting /\ wire' = wire /\ now' = now
  BY DEF SpeechEnds, vars
<1> QED BY <1>2, <1>6, <1>7, WireIsLeftAlone DEF PageInv

\* Sentences are cancelled, and their pips are set.
LEMMA SnoozeKeepsPage ==
  ASSUME TypeOK, PageInv, Snooze
  PROVE  PageInv'
<1>1. ASSUME NEW i \in DOMAIN speech
      PROVE  LandsInTime(Pip(speech[i]))
  <2>1. speech[i] \in Sentences
    BY DEF PageInv
  <2>2. now \in Int /\ speech[i].beat \in Int
    BY <2>1 DEF Sentences, TypeOK
  <2> QED BY <2>2, PipLandsInTime
<1>2. \A p \in tones' : LandsInTime(p)
  BY <1>1 DEF PageInv, Snooze
<1>3. speech' \in Seq(Sentences)
  <2>1. speech \in Seq(Sentences) /\ (speech' = << >> \/ speech' = speech)
    BY DEF PageInv, Snooze
  <2>2. << >> \in Seq(Sentences)
    OBVIOUS
  <2> QED BY <2>1, <2>2
<1>4. waiting' = waiting /\ wire' = wire /\ now' = now
  BY DEF Snooze, vars
<1> QED BY <1>2, <1>3, <1>4, WireIsLeftAlone DEF PageInv

\* Time goes by while a sentence is spoken.
LEMMA TickKeepsPage ==
  ASSUME TypeOK, PageInv, Tick, PageTick
  PROVE  PageInv'
<1>1. now \in Int /\ now' = now + 1 /\ wire' = wire /\ waiting' = waiting /\ tones' = tones
  BY DEF Tick, PageTick, TypeOK
<1>2. ASSUME NEW i \in DOMAIN wire
      PROVE  SentInTime(wire[i], now')
  <2>1. wire[i] \in Events /\ SentInTime(wire[i], now)
    BY DEF PageInv
  <2>2. wire[i].at \in Int
    BY <2>1 DEF Events
  <2> QED BY <1>1, <2>1, <2>2 DEF SentInTime
<1>3. speech' \in Seq(Sentences)
  <2>1. speech \in Seq(Sentences)
    BY DEF PageInv
  <2>2. CASE speech = << >>
    BY <2>1, <2>2 DEF PageTick
  <2>3. CASE speech # << >>
    <3>1. 1 \in DOMAIN speech /\ speech[1] \in Sentences
      BY <2>1, <2>3
    <3>2. [speech[1] EXCEPT !.left = @ - 1] \in Sentences
      BY <3>1 DEF Sentences
    <3>3. speech' = [speech EXCEPT ![1] = [speech[1] EXCEPT !.left = @ - 1]]
      BY <2>3 DEF PageTick
    <3> QED BY <2>1, <3>1, <3>2, <3>3
  <2> QED BY <2>2, <2>3
<1> QED BY <1>1, <1>2, <1>3 DEF PageInv

LEMMA PageStaysInTime ==
  ASSUME TypeOK, TypeOK', ToneNotEarly', PageInv, [ClockStep]_allVars
  PROVE  PageInv'
<1>1. CASE Send
  BY <1>1, SendKeepsPage
<1>2. CASE Save \/ NewStream
  <2>1. now' = now /\ UNCHANGED page /\ (wire' = wire \/ wire' = << >>)
    BY <1>2 DEF Save, SaveSettings, NewStream, Reconnect
  <2>2. now' >= now
    BY <2>1 DEF TypeOK
  <2> QED BY <2>1, <2>2, OthersKeepPage
<1>3. CASE Hear
  BY <1>3, HearKeepsPage
<1>4. ASSUME NEW w \in waiting, Speak(w) PROVE PageInv'
  BY <1>4, SpeakKeepsPage
<1>5. CASE SpeechEnds
  BY <1>5, SpeechEndsKeepsPage
<1>6. ASSUME NEW p \in tones, Mark(p) PROVE PageInv'
  <2>1. waiting' = waiting /\ speech' = speech /\ tones' \subseteq tones
        /\ wire' = wire /\ now' = now
    BY <1>6 DEF Mark, vars
  <2> QED BY <2>1 DEF PageInv
<1>7. CASE Snooze
  BY <1>7, SnoozeKeepsPage
<1>8. CASE Tick /\ PageTick
  BY <1>8, TickKeepsPage
<1>9. CASE UNCHANGED allVars
  BY <1>9 DEF allVars, vars, page, PageInv
<1> QED BY <1>1, <1>2, <1>3, <1>4, <1>5, <1>6, <1>7, <1>8, <1>9, Zenon DEF ClockStep

\* A tone that is not early when it is set is not early when it sounds, since it
\* sounds when it is due: in every zone, with every delay and every sentence.
THEOREM TonesAreOnTheBeat == ClockSpec => TonesMarkTheBeat
<1>1. ClockInit => PageInv
  BY DEF ClockInit, PageInv
<1>2. TypeOK /\ TypeOK' /\ ToneNotEarly' /\ PageInv /\ [ClockStep]_allVars => PageInv'
  BY PageStaysInTime
<1>3. PageInv /\ [ClockStep]_allVars
      => [\A p \in tones \ tones' :
            IF p.spoken
            THEN now >= p.beat /\ (now > p.beat => p.ended > p.beat - PipsLead)
            ELSE p.fresh => now >= p.beat]_allVars
  <2> SUFFICES ASSUME PageInv, ClockStep, NEW p \in tones \ tones'
               PROVE  IF p.spoken
                      THEN now >= p.beat /\ (now > p.beat => p.ended > p.beat - PipsLead)
                      ELSE p.fresh => now >= p.beat
    OBVIOUS
  <2>1. LandsInTime(p)
    BY DEF PageInv
  <2>2. p.due = now
    <3>1. ASSUME NEW q \in tones, Mark(q) PROVE p.due = now
      BY <3>1 DEF Mark
    <3>2. CASE Send \/ Save \/ NewStream \/ (Tick /\ PageTick)
      BY <3>2 DEF Send, Save, NewStream, PageTick, page
    <3>3. CASE Hear \/ SpeechEnds \/ Snooze
      BY <3>3 DEF Hear, SpeechEnds, Snooze, LeadIn, PipsOnly, Ring
    <3>4. ASSUME NEW w \in waiting, Speak(w) PROVE p.due = now
      BY <3>4 DEF Speak
    <3> QED BY <3>1, <3>2, <3>3, <3>4, Zenon DEF ClockStep
  <2> QED BY <2>1, <2>2 DEF LandsInTime
<1> QED BY <1>1, <1>2, <1>3, KeepsTheTimer, TypeCorrect, TonesLandInTime, PTL
    DEF ClockSpec, TonesMarkTheBeat

-----------------------------------------------------------------------------
(* A snoozed television falls silent.                                      *)

MaxLead == MaxOf(SpeechLead, PipsLead)

LongestIntro == MaxOf(AttentionTime, RingTime)

\* How long it takes to speak n sentences.
Talk(n) == MaxSpeech * n

\* What is on its way is about a beat that is near.
NearEvents ==
  /\ beat <= due + MaxLead
  /\ \A i \in DOMAIN wire : wire[i].beat <= now + MaxLead

\* So is a sentence that waits, and it is spoken soon.
NearWaiting ==
  /\ IsFiniteSet(waiting)
  /\ \A w \in waiting : /\ w.due \in Int /\ now <= w.due /\ w.due <= now + LongestIntro
                       /\ w.beat <= now + MaxLead

NearSpeech ==
  \A i \in DOMAIN speech : speech[i].left \in 0 .. MaxSpeech /\ speech[i].beat <= now + MaxLead

NearTones == \A p \in tones : now <= p.due /\ p.due <= now + MaxLead

SnoozeTypes == snoozed \in BOOLEAN /\ snoozeAge \in Nat /\ begun \in Nat

\* A snoozed page begins nothing new: what is left is nearer by the time that went by.
FadingWaiting ==
  snoozed => \A w \in waiting : /\ w.due + snoozeAge <= now + LongestIntro
                               /\ w.beat + snoozeAge <= now + MaxLead

\* The sentences that are left are spoken one after the other.
FadingQueue ==
  snoozed =>
    /\ Len(speech) + Cardinality(waiting) <= begun
    /\ speech # << >> =>
         (speech[1].left + Talk((Len(speech) + Cardinality(waiting)) - 1)) + snoozeAge
           <= LongestIntro + Talk(begun)

FadingSpeech ==
  snoozed => \A i \in DOMAIN speech : speech[i].beat + snoozeAge <= now + MaxLead

FadingTones ==
  snoozed => \A p \in tones : p.due + snoozeAge <= now + LastNote

FadeInv ==
  /\ NearEvents /\ NearWaiting /\ NearSpeech /\ NearTones /\ SnoozeTypes
  /\ FadingWaiting /\ FadingQueue /\ FadingSpeech /\ FadingTones

LEMMA LeadsAreBounded ==
  /\ MaxLead \in Nat /\ LongestIntro \in Nat /\ PipsLead \in Nat /\ SpeechLead \in Nat
  /\ AttentionTime \in Nat /\ RingTime \in Nat /\ MaxSpeech \in Nat
  /\ PipsLead <= MaxLead /\ SpeechLead <= MaxLead
  /\ AttentionTime <= LongestIntro /\ RingTime <= LongestIntro
BY ClockConstants, SpeechConstants DEF MaxLead, LongestIntro, MaxOf

LEMMA LeadIsBounded ==
  ASSUME NEW chime \in Chimes
  PROVE  Lead(chime) \in 0 .. MaxLead
BY LeadsAreBounded DEF Lead

\* One sentence more takes at most MaxSpeech longer.
LEMMA TalkGrows ==
  ASSUME NEW n \in Nat
  PROVE  Talk(n) \in Nat /\ Talk(n + 1) = Talk(n) + MaxSpeech
BY LeadsAreBounded DEF Talk

LEMMA TalkIsMonotone ==
  ASSUME NEW m \in Nat, NEW n \in Nat, m <= n
  PROVE  Talk(m) <= Talk(n)
<1>1. PICK d \in Nat : n = m + d
  <2>1. n - m \in Nat /\ n = m + (n - m)
    OBVIOUS
  <2> QED BY <2>1
<1>2. Talk(n) = Talk(m) + MaxSpeech * d
  BY <1>1, LeadsAreBounded DEF Talk
<1>3. MaxSpeech * d \in Nat /\ Talk(m) \in Nat
  BY LeadsAreBounded DEF Talk
<1> QED BY <1>2, <1>3

LEMMA LastNoteBounds ==
  ASSUME begun \in Nat
  PROVE  /\ LastNote \in Nat /\ Talk(begun) \in Nat
         /\ LastNote >= MaxLead
         /\ LastNote >= (LongestIntro + Talk(begun)) + PipsLead
<1>1. Talk(begun) \in Nat
  BY TalkGrows
<1>2. LastNote = MaxOf((LongestIntro + Talk(begun)) + PipsLead, SpeechLead)
  BY DEF LastNote, LongestIntro, Talk
<1>3. MaxLead = MaxOf(SpeechLead, PipsLead)
  BY DEF MaxLead
<1> QED BY <1>1, <1>2, <1>3, LeadsAreBounded DEF MaxOf

\* The pips that follow a sentence are heard before LastNote if it is over in time.
LEMMA PipIsNear ==
  ASSUME now \in Int, NEW u, u.beat \in Int, u.beat <= now + MaxLead
  PROVE  /\ Pip(u).due \in Int /\ now <= Pip(u).due /\ Pip(u).due <= now + MaxLead
         /\ Pip(u).due = now + PipsLead \/ Pip(u).due = u.beat
BY LeadsAreBounded DEF Pip, MaxOf

-----------------------------------------------------------------------------
\* What has been taken in stays near when only the stream moves on.
LEMMA StreamKeepsFading ==
  ASSUME FadeInv, now' = now, UNCHANGED page
  PROVE  /\ NearWaiting' /\ NearSpeech' /\ NearTones' /\ SnoozeTypes'
         /\ FadingWaiting' /\ FadingQueue' /\ FadingSpeech' /\ FadingTones'
<1>1. /\ waiting' = waiting /\ speech' = speech /\ tones' = tones
      /\ snoozed' = snoozed /\ snoozeAge' = snoozeAge /\ begun' = begun
  BY DEF page
<1>2. LastNote' = LastNote
  BY <1>1 DEF LastNote
<1>3. NearWaiting' /\ NearSpeech' /\ NearTones' /\ SnoozeTypes'
  BY <1>1 DEF FadeInv, NearWaiting, NearSpeech, NearTones, SnoozeTypes
<1>4. FadingWaiting' /\ FadingSpeech' /\ FadingTones'
  BY <1>1, <1>2 DEF FadeInv, FadingWaiting, FadingSpeech, FadingTones
<1>5. FadingQueue'
  BY <1>1 DEF FadeInv, FadingQueue
<1> QED BY <1>3, <1>4, <1>5

\* A timer that is set is set to no more than a lead before its beat.
LEMMA SetTimerIsNear ==
  ASSUME TypeOK, NEW b \in Int
  PROVE  b <= Due(now, b) + MaxLead
<1>1. Due(now, b) \in Int /\ Due(now, b) >= b - Lead(Decide(cfg, b))
  BY DueBounds
<1>2. Lead(Decide(cfg, b)) \in 0 .. MaxLead
  BY DecideIsChime, LeadIsBounded DEF TypeOK
<1> QED BY <1>1, <1>2, LeadsAreBounded

LEMMA SendKeepsFading ==
  ASSUME TypeOK, TypeOK', PageInv, FadeInv, Send
  PROVE  FadeInv'
<1>1. now' = now /\ UNCHANGED page /\ cfg' = cfg /\ now \in Int /\ beat \in Int /\ due \in Int
  BY DEF Send, ChimeFires, TypeOK
<1>2. beat' = NextBoundary(beat) /\ due' = Due(now, beat') /\ now >= due
  BY DEF Send, ChimeFires, SetTimer
<1>3. beat' \in Int
  BY DEF TypeOK
<1>4. beat' <= due' + MaxLead
  BY <1>2, <1>3, SetTimerIsNear
<1>5. \A i \in DOMAIN wire : wire[i].beat <= now + MaxLead
  BY DEF FadeInv, NearEvents
<1>6. NearEvents'
  <2>1. CASE Decide(cfg, beat) = Silent
    BY <1>1, <1>4, <1>5, <2>1 DEF Send, NearEvents
  <2>2. CASE Decide(cfg, beat) # Silent
    <3>1. wire' = Append(wire, sent') /\ sent'.beat = beat
      BY <2>2 DEF Send, ChimeFires
    <3>2. beat <= now + MaxLead
      BY <1>1, <1>2, LeadsAreBounded DEF FadeInv, NearEvents
    <3>3. wire \in Seq(Events)
      BY DEF PageInv
    <3>4. ASSUME NEW i \in DOMAIN wire'
          PROVE  wire'[i].beat <= now + MaxLead
      <4>1. i \in 1 .. Len(wire) + 1
        BY <3>1, <3>3
      <4>2. CASE i = Len(wire) + 1
        BY <3>1, <3>2, <3>3, <4>2
      <4>3. CASE i \in 1 .. Len(wire)
        BY <1>5, <3>1, <3>3, <4>3
      <4> QED BY <3>3, <4>1, <4>2, <4>3
    <3> QED BY <1>1, <1>4, <3>4 DEF NearEvents
  <2> QED BY <2>1, <2>2
<1> QED BY <1>1, <1>6, StreamKeepsFading DEF FadeInv

LEMMA SaveKeepsFading ==
  ASSUME FadeInv, Save
  PROVE  FadeInv'
<1>1. now' = now /\ beat' = beat /\ due' = due /\ wire' = wire /\ UNCHANGED page
  BY DEF Save, SaveSettings
<1>2. NearEvents'
  BY <1>1 DEF FadeInv, NearEvents
<1> QED BY <1>1, <1>2, StreamKeepsFading DEF FadeInv

LEMMA NewStreamKeepsFading ==
  ASSUME TypeOK, FadeInv, NewStream
  PROVE  FadeInv'
<1>1. /\ now' = now /\ wire' = << >> /\ UNCHANGED page
      /\ beat' = NextBoundary(now) /\ due' = Due(now, beat')
  BY DEF NewStream, Reconnect, SetTimer
<1>2. beat' \in Int
  BY <1>1, NextBoundaryIsInt DEF TypeOK
<1>3. NearEvents'
  BY <1>1, <1>2, SetTimerIsNear DEF NearEvents
<1> QED BY <1>1, <1>3, StreamKeepsFading DEF FadeInv

-----------------------------------------------------------------------------
\* A chime is heard: what it begins lies near, and a snoozed page begins nothing.
LEMMA HearKeepsFading ==
  ASSUME TypeOK, PageInv, FadeInv, Hear
  PROVE  FadeInv'
<1> DEFINE e == Head(wire)
<1>1. wire \in Seq(Events) /\ wire # << >> /\ wire' = Tail(wire)
  BY DEF PageInv, Hear
<1>2. e \in Events /\ e = wire[1] /\ 1 \in DOMAIN wire
  BY <1>1
<1>3. /\ now' = now /\ beat' = beat /\ due' = due /\ now \in Int
      /\ speech' = speech /\ snoozed' = snoozed /\ snoozeAge' = snoozeAge /\ begun' = begun
  BY DEF Hear, vars, TypeOK
<1>4. e.beat \in Int /\ e.beat <= now + MaxLead
  BY <1>2 DEF Events, FadeInv, NearEvents
<1>5. NearEvents'
  <2>1. ASSUME NEW i \in DOMAIN wire'
        PROVE  wire'[i].beat <= now + MaxLead
    <3>1. i + 1 \in DOMAIN wire /\ wire'[i] = wire[i + 1]
      BY <1>1
    <3> QED BY <3>1 DEF FadeInv, NearEvents
  <2> QED BY <1>3, <2>1 DEF FadeInv, NearEvents
<1>6. NearSpeech' /\ SnoozeTypes'
  BY <1>3 DEF FadeInv, NearSpeech, SnoozeTypes
<1>7. FadingSpeech'
  BY <1>3 DEF FadeInv, FadingSpeech
<1>8. CASE snoozed
  <2>1. waiting' = waiting /\ tones' = tones /\ LastNote' = LastNote
    BY <1>3, <1>8 DEF Hear, LastNote
  <2>2. NearWaiting' /\ NearTones'
    BY <1>3, <2>1 DEF FadeInv, NearWaiting, NearTones
  <2>3. FadingWaiting' /\ FadingTones'
    BY <1>3, <2>1 DEF FadeInv, FadingWaiting, FadingTones
  <2>4. FadingQueue'
    BY <1>3, <2>1 DEF FadeInv, FadingQueue
  <2> QED BY <1>5, <1>6, <1>7, <2>2, <2>3, <2>4 DEF FadeInv
<1>9. CASE ~ snoozed
  <2>1. FadingWaiting' /\ FadingQueue' /\ FadingTones'
    BY <1>3, <1>9 DEF FadingWaiting, FadingQueue, FadingTones
  <2>2. ASSUME NEW d \in Int, 0 <= d, d <= LongestIntro, NEW b \in BOOLEAN,
               waiting' = waiting \cup {[due |-> now + d, beat |-> e.beat, leads |-> b]}
        PROVE  NearWaiting'
    <3> DEFINE new == [due |-> now + d, beat |-> e.beat, leads |-> b]
    <3>1. new.due = now + d /\ new.beat = e.beat
      OBVIOUS
    <3>2. waiting' = waiting \cup {new}
      BY <2>2
    <3> HIDE DEF new, e
    <3>3. IsFiniteSet(waiting')
      BY <3>2, FS_AddElement DEF FadeInv, NearWaiting
    <3>4. new.due \in Int /\ now <= new.due /\ new.due <= now + LongestIntro
          /\ new.beat <= now + MaxLead
      BY <1>3, <1>4, <2>2, <3>1, LeadsAreBounded
    <3>5. \A w \in waiting : /\ w.due \in Int /\ now <= w.due /\ w.due <= now + LongestIntro
                            /\ w.beat <= now + MaxLead
      BY DEF FadeInv, NearWaiting
    <3> QED BY <1>3, <3>2, <3>3, <3>4, <3>5 DEF NearWaiting
  <2>3. waiting' = waiting => NearWaiting'
    BY <1>3 DEF FadeInv, NearWaiting
  <2>4. tones' = tones => NearTones'
    BY <1>3 DEF FadeInv, NearTones
  <2>5. CASE LeadIn(e)
    <3>1. PICK delay \in {0, AttentionTime} :
            waiting' = waiting \cup {[due |-> now + delay, beat |-> e.beat, leads |-> TRUE]}
      BY <2>5 DEF LeadIn
    <3>2. delay \in Int /\ 0 <= delay /\ delay <= LongestIntro
      BY LeadsAreBounded
    <3>3. NearWaiting'
      BY <2>2, <3>1, <3>2
    <3> QED BY <1>5, <1>6, <1>7, <2>1, <2>4, <2>5, <3>3 DEF FadeInv, LeadIn
  <2>6. CASE Ring(e)
    <3>1. PlaySound(e.chime.sound) \in Int /\ 0 <= PlaySound(e.chime.sound)
          /\ PlaySound(e.chime.sound) <= LongestIntro
      BY LeadsAreBounded DEF PlaySound
    <3>2. NearWaiting'
      <4>1. CASE e.chime.announce
        BY <2>2, <2>6, <3>1, <4>1 DEF Ring
      <4>2. CASE ~ e.chime.announce
        BY <2>3, <2>6, <4>2 DEF Ring
      <4> QED BY <4>1, <4>2
    <3> QED BY <1>5, <1>6, <1>7, <2>1, <2>4, <2>6, <3>2 DEF FadeInv, Ring
  <2>7. CASE PipsOnly(e)
    <3> DEFINE p == [due |-> now + PipsLead, beat |-> e.beat, fresh |-> e.fresh,
                     ended |-> now, spoken |-> FALSE]
    <3>1. tones' = tones \cup {p} /\ waiting' = waiting
      BY <2>7 DEF PipsOnly
    <3>2. p.due = now + PipsLead
      OBVIOUS
    <3> HIDE DEF p, e
    <3>3. now <= p.due /\ p.due <= now + MaxLead
      BY <1>3, <3>2, LeadsAreBounded
    <3>4. NearTones'
      BY <1>3, <3>1, <3>3 DEF FadeInv, NearTones
    <3> QED BY <1>5, <1>6, <1>7, <2>1, <2>3, <3>1, <3>4 DEF FadeInv
  <2> QED BY <1>9, <2>5, <2>6, <2>7 DEF Hear
<1> QED BY <1>8, <1>9

\* What the page does by itself leaves the stream alone.
LEMMA EventsStayNear ==
  ASSUME FadeInv, UNCHANGED vars, wire' = wire
  PROVE  NearEvents'
BY DEF FadeInv, NearEvents, vars

\* A sentence that was waiting joins the queue, in which there is room for it.
LEMMA SpeakKeepsFading ==
  ASSUME TypeOK, PageInv, FadeInv, NEW w \in waiting, Speak(w)
  PROVE  FadeInv'
<1> DEFINE k == Cardinality(waiting) - 1
           l == Len(speech)
<1>1. /\ w.due = now /\ waiting' = waiting \ {w} /\ tones' = tones
      /\ now' = now /\ now \in Int /\ snoozed' = snoozed /\ snoozeAge' = snoozeAge /\ begun' = begun
  BY DEF Speak, vars, TypeOK
<1>2. PICK n \in 0 .. MaxSpeech :
        speech' = Append(speech, [left |-> n, beat |-> w.beat, leads |-> w.leads])
  BY DEF Speak
<1> DEFINE new == [left |-> n, beat |-> w.beat, leads |-> w.leads]
<1>3. new.left = n /\ new.beat = w.beat /\ speech' = Append(speech, new)
  BY <1>2
<1> HIDE DEF new
<1>4. speech \in Seq(Sentences) /\ l \in Nat
  BY DEF PageInv
<1>5. /\ DOMAIN speech' = 1 .. l + 1 /\ Len(speech') = l + 1 /\ speech' # << >>
      /\ speech'[l + 1] = new /\ \A i \in 1 .. l : i \in DOMAIN speech /\ speech'[i] = speech[i]
  BY <1>3, <1>4
<1>6. IsFiniteSet(waiting) /\ w.beat <= now + MaxLead /\ w.beat \in Int
  BY DEF FadeInv, NearWaiting, PageInv
<1>7. IsFiniteSet(waiting') /\ Cardinality(waiting') = k /\ k \in Nat
        /\ Cardinality(waiting) = k + 1
  <2>1. IsFiniteSet(waiting') /\ Cardinality(waiting') = Cardinality(waiting) - 1
    BY <1>1, <1>6, FS_RemoveElement
  <2>2. Cardinality(waiting) \in Nat /\ Cardinality(waiting') \in Nat
    BY <1>6, <2>1, FS_CardinalityType
  <2> QED BY <2>1, <2>2
<1> HIDE DEF k, l
<1>8. NearEvents'
  BY EventsStayNear DEF Speak
<1>9. NearWaiting'
  BY <1>1, <1>7 DEF FadeInv, NearWaiting
<1>10. NearSpeech'
  <2>1. \A i \in 1 .. l : speech'[i].left \in 0 .. MaxSpeech /\ speech'[i].beat <= now + MaxLead
    BY <1>5 DEF FadeInv, NearSpeech
  <2>2. speech'[l + 1].left \in 0 .. MaxSpeech /\ speech'[l + 1].beat <= now + MaxLead
    BY <1>3, <1>5, <1>6
  <2> QED BY <1>1, <1>4, <1>5, <2>1, <2>2 DEF NearSpeech
<1>11. NearTones' /\ SnoozeTypes'
  BY <1>1 DEF FadeInv, NearTones, SnoozeTypes
<1>12. FadingWaiting'
  BY <1>1 DEF FadeInv, FadingWaiting
<1>13. FadingTones'
  BY <1>1 DEF FadeInv, FadingTones, LastNote
<1>14. FadingSpeech'
  <2> SUFFICES ASSUME snoozed, NEW i \in 1 .. l + 1
               PROVE  speech'[i].beat + snoozeAge <= now + MaxLead
    BY <1>1, <1>5 DEF FadingSpeech
  <2>1. CASE i = l + 1
    BY <1>3, <1>5, <2>1 DEF FadeInv, FadingWaiting
  <2>2. CASE i \in 1 .. l
    BY <1>5, <2>2 DEF FadeInv, FadingSpeech
  <2> QED BY <1>4, <2>1, <2>2 DEF l
<1>15. FadingQueue'
  <2> SUFFICES ASSUME snoozed
               PROVE  /\ (l + 1) + k <= begun
                      /\ (speech'[1].left + Talk(((l + 1) + k) - 1)) + snoozeAge
                           <= LongestIntro + Talk(begun)
    BY <1>1, <1>5, <1>7 DEF FadingQueue
  <2>1. l + (k + 1) <= begun /\ begun \in Nat /\ snoozeAge \in Nat /\ l \in Nat /\ k \in Nat
    BY <1>4, <1>7 DEF FadeInv, FadingQueue, SnoozeTypes, l
  <2>2. ((l + 1) + k) - 1 = (l + (k + 1)) - 1
    BY <2>1
  <2>3. CASE speech = << >>
    <3>1. l = 0
      BY <2>3 DEF l
    <3>2. speech'[1].left = n
      BY <1>3, <1>5, <3>1
    <3>3. snoozeAge <= LongestIntro
      BY <1>1, <2>1, LeadsAreBounded DEF FadeInv, FadingWaiting
    <3>4. Talk(k + 1) = Talk(k) + MaxSpeech /\ Talk(k) \in Nat /\ Talk(begun) \in Nat
      BY <2>1, TalkGrows
    <3>5. Talk(k + 1) <= Talk(begun)
      BY <2>1, <3>1, TalkIsMonotone
    <3>6. ((l + 1) + k) - 1 = k
      BY <2>1, <3>1
    <3>7. (n + Talk(k)) + snoozeAge <= LongestIntro + Talk(begun)
      BY <2>1, <3>3, <3>4, <3>5, LeadsAreBounded
    <3> QED BY <2>1, <3>2, <3>6, <3>7
  <2>4. CASE speech # << >>
    <3>1. 1 \in 1 .. l
      BY <1>4, <2>4 DEF l
    <3>2. speech'[1].left = speech[1].left
      BY <1>5, <3>1
    <3>3. (speech[1].left + Talk((l + (k + 1)) - 1)) + snoozeAge <= LongestIntro + Talk(begun)
      BY <1>7, <2>4 DEF FadeInv, FadingQueue, l
    <3> QED BY <2>1, <2>2, <3>2, <3>3
  <2> QED BY <2>3, <2>4
<1> QED BY <1>8, <1>9, <1>10, <1>11, <1>12, <1>13, <1>14, <1>15 DEF FadeInv

\* The next sentence begins when one has ended, and its pips follow.
LEMMA SpeechEndsKeepsFading ==
  ASSUME TypeOK, PageInv, FadeInv, SpeechEnds
  PROVE  FadeInv'
<1> DEFINE k == Cardinality(waiting)
           l == Len(speech) - 1
           u == Head(speech)
<1>1. /\ waiting' = waiting /\ now' = now /\ now \in Int
      /\ snoozed' = snoozed /\ snoozeAge' = snoozeAge /\ begun' = begun
      /\ speech # << >> /\ speech' = Tail(speech) /\ Head(speech).left = 0
      /\ tones' \subseteq tones \cup {Pip(u)}
  BY DEF SpeechEnds, vars, TypeOK
<1>2. /\ speech \in Seq(Sentences) /\ speech' \in Seq(Sentences) /\ l \in Nat
      /\ Len(speech') = l /\ Len(speech) = l + 1 /\ 1 \in DOMAIN speech /\ Head(speech) = speech[1]
      /\ \A i \in DOMAIN speech' : i + 1 \in DOMAIN speech /\ speech'[i] = speech[i + 1]
  BY <1>1 DEF PageInv
<1>3. IsFiniteSet(waiting) /\ k \in Nat /\ Cardinality(waiting') = k
  BY <1>1, FS_CardinalityType DEF FadeInv, NearWaiting
<1>4. speech[1].left = 0 /\ u = speech[1] /\ u.beat \in Int /\ u.beat <= now + MaxLead
  <2>1. speech[1] \in Sentences
    BY <1>2
  <2> QED BY <1>1, <1>2, <2>1 DEF FadeInv, NearSpeech, Sentences
<1> HIDE DEF k, l, u
<1>5. /\ Pip(u).due \in Int /\ now <= Pip(u).due /\ Pip(u).due <= now + MaxLead
      /\ Pip(u).due = now + PipsLead \/ Pip(u).due = u.beat
  BY <1>1, <1>4, PipIsNear
<1>6. NearEvents'
  BY EventsStayNear DEF SpeechEnds
<1>7. NearWaiting' /\ SnoozeTypes'
  BY <1>1 DEF FadeInv, NearWaiting, SnoozeTypes
<1>8. NearSpeech'
  BY <1>1, <1>2 DEF FadeInv, NearSpeech
<1>9. NearTones'
  BY <1>1, <1>5 DEF FadeInv, NearTones
<1>10. FadingWaiting'
  BY <1>1 DEF FadeInv, FadingWaiting
<1>11. FadingSpeech'
  BY <1>1, <1>2 DEF FadeInv, FadingSpeech
<1>12. snoozed => /\ (l + 1) + k <= begun /\ begun \in Nat /\ snoozeAge \in Nat
                 /\ Talk(l + k) + snoozeAge <= LongestIntro + Talk(begun)
                 /\ Talk(l + k) \in Nat
  <2> HAVE snoozed
  <2>1. (l + 1) + k <= begun /\ begun \in Nat /\ snoozeAge \in Nat
    BY <1>2 DEF FadeInv, FadingQueue, SnoozeTypes, k
  <2>2. (speech[1].left + Talk(((l + 1) + k) - 1)) + snoozeAge <= LongestIntro + Talk(begun)
    BY <1>1, <1>2 DEF FadeInv, FadingQueue, k
  <2>3. ((l + 1) + k) - 1 = l + k /\ l + k \in Nat
    BY <1>2, <1>3
  <2>4. Talk(l + k) \in Nat
    BY <2>3, TalkGrows
  <2>5. (0 + Talk(l + k)) + snoozeAge <= LongestIntro + Talk(begun)
    BY <1>4, <2>2, <2>3
  <2> QED BY <2>1, <2>4, <2>5
<1>13. FadingQueue'
  <2> SUFFICES ASSUME snoozed
               PROVE  /\ l + k <= begun
                      /\ speech' # << >> =>
                           (speech'[1].left + Talk((l + k) - 1)) + snoozeAge
                             <= LongestIntro + Talk(begun)
    BY <1>1, <1>2, <1>3 DEF FadingQueue
  <2>1. l + k <= begun
    BY <1>2, <1>3, <1>12
  <2>2. ASSUME speech' # << >>
        PROVE  (speech'[1].left + Talk((l + k) - 1)) + snoozeAge <= LongestIntro + Talk(begun)
    <3>1. l >= 1 /\ 1 \in DOMAIN speech'
      BY <1>2, <2>2
    <3>2. speech'[1].left \in 0 .. MaxSpeech
      BY <1>8, <3>1, LeadsAreBounded DEF NearSpeech
    <3>3. (l + k) - 1 \in Nat /\ ((l + k) - 1) + 1 = l + k
      BY <1>2, <1>3, <3>1
    <3>4. Talk(l + k) = Talk((l + k) - 1) + MaxSpeech /\ Talk((l + k) - 1) \in Nat
      BY <3>3, TalkGrows
    <3>5. Talk(begun) \in Nat
      BY <1>12, TalkGrows
    <3> QED BY <1>12, <3>2, <3>4, <3>5, LeadsAreBounded
  <2> QED BY <2>1, <2>2
<1>14. FadingTones'
  <2> SUFFICES ASSUME snoozed, NEW p \in tones'
               PROVE  p.due + snoozeAge <= now + LastNote
    BY <1>1 DEF FadingTones, LastNote
  <2>1. CASE p \in tones
    BY <2>1 DEF FadeInv, FadingTones
  <2>2. CASE p = Pip(u)
    <3>1. LastNote \in Nat /\ LastNote >= MaxLead
          /\ LastNote >= (LongestIntro + Talk(begun)) + PipsLead /\ Talk(begun) \in Nat
      BY <1>12, LastNoteBounds
    <3>2. CASE Pip(u).due = now + PipsLead
      BY <1>1, <1>12, <2>2, <3>1, <3>2, LeadsAreBounded
    <3>3. CASE Pip(u).due = u.beat
      <4>1. u.beat + snoozeAge <= now + MaxLead
        BY <1>2, <1>4 DEF FadeInv, FadingSpeech
      <4> QED BY <1>1, <1>4, <1>12, <2>2, <3>1, <3>3, <4>1, LeadsAreBounded
    <3> QED BY <1>5, <3>2, <3>3
  <2> QED BY <1>1, <2>1, <2>2
<1> QED BY <1>6, <1>7, <1>8, <1>9, <1>10, <1>11, <1>13, <1>14 DEF FadeInv

LEMMA MarkKeepsFading ==
  ASSUME FadeInv, NEW p \in tones, Mark(p)
  PROVE  FadeInv'
<1>1. /\ waiting' = waiting /\ speech' = speech /\ tones' \subseteq tones /\ now' = now
      /\ snoozed' = snoozed /\ snoozeAge' = snoozeAge /\ begun' = begun
  BY DEF Mark, vars
<1>2. NearEvents'
  BY EventsStayNear DEF Mark
<1>3. NearWaiting' /\ NearSpeech' /\ NearTones' /\ SnoozeTypes'
  BY <1>1 DEF FadeInv, NearWaiting, NearSpeech, NearTones, SnoozeTypes
<1>4. FadingWaiting' /\ FadingSpeech'
  BY <1>1 DEF FadeInv, FadingWaiting, FadingSpeech
<1>5. FadingTones'
  BY <1>1 DEF FadeInv, FadingTones, LastNote
<1>6. FadingQueue'
  BY <1>1 DEF FadeInv, FadingQueue
<1> QED BY <1>2, <1>3, <1>4, <1>5, <1>6 DEF FadeInv

\* The clock is snoozed: the queue is empty, and what waits is counted.
LEMMA SnoozeKeepsFading ==
  ASSUME TypeOK, PageInv, FadeInv, Snooze
  PROVE  FadeInv'
<1>1. /\ waiting' = waiting /\ now' = now /\ now \in Int /\ snoozed' = ~ snoozed
      /\ snoozeAge' = 0 /\ begun' = IF snoozed' THEN Cardinality(waiting) ELSE 0
  BY DEF Snooze, vars, TypeOK
<1>2. IsFiniteSet(waiting) /\ Cardinality(waiting) \in Nat
  BY FS_CardinalityType DEF FadeInv, NearWaiting
<1>3. NearEvents'
  BY EventsStayNear DEF Snooze
<1>4. NearWaiting' /\ SnoozeTypes'
  <2>1. snoozed' \in BOOLEAN /\ begun' \in Nat
    BY <1>1, <1>2
  <2> QED BY <1>1, <2>1 DEF FadeInv, NearWaiting, SnoozeTypes
<1>5. CASE ~ snoozed'
  <2>1. speech' = speech /\ tones' = tones
    BY <1>5 DEF Snooze
  <2>2. NearSpeech' /\ NearTones'
    BY <1>1, <2>1 DEF FadeInv, NearSpeech, NearTones
  <2>3. FadingWaiting' /\ FadingQueue' /\ FadingSpeech' /\ FadingTones'
    BY <1>5 DEF FadingWaiting, FadingQueue, FadingSpeech, FadingTones
  <2> QED BY <1>3, <1>4, <2>2, <2>3 DEF FadeInv
<1>6. CASE snoozed'
  <2>1. /\ speech' = << >> /\ begun' = Cardinality(waiting)
        /\ tones' = tones \cup {Pip(speech[i]) : i \in {j \in DOMAIN speech : speech[j].leads}}
    BY <1>1, <1>6 DEF Snooze
  <2>2. ASSUME NEW i \in DOMAIN speech
        PROVE  LET p == Pip(speech[i]) IN
               p.due \in Int /\ now <= p.due /\ p.due <= now + MaxLead
    <3>1. speech[i] \in Sentences
      BY DEF PageInv
    <3>2. speech[i].beat \in Int /\ speech[i].beat <= now + MaxLead
      BY <3>1 DEF FadeInv, NearSpeech, Sentences
    <3> QED BY <1>1, <3>2, PipIsNear
  <2>3. \A p \in tones' : p.due \in Int /\ now <= p.due /\ p.due <= now + MaxLead
    <3>1. \A p \in tones : p.due \in Int /\ now <= p.due /\ p.due <= now + MaxLead
      BY DEF FadeInv, NearTones, PageInv, LandsInTime
    <3> QED BY <2>1, <2>2, <3>1
  <2>4. NearTones'
    BY <1>1, <2>3 DEF NearTones
  <2>5. NearSpeech' /\ FadingSpeech'
    BY <2>1 DEF NearSpeech, FadingSpeech
  <2>6. FadingWaiting'
    <3>1. \A w \in waiting : /\ w.due + 0 <= now + LongestIntro
                            /\ w.beat + 0 <= now + MaxLead
      BY LeadsAreBounded DEF FadeInv, NearWaiting, PageInv
    <3> QED BY <1>1, <3>1 DEF FadingWaiting
  <2>7. FadingQueue'
    BY <1>1, <1>2, <2>1 DEF FadingQueue
  <2>8. FadingTones'
    <3>1. LastNote' \in Nat /\ LastNote' >= MaxLead
      <4>1. begun' \in Nat
        BY <1>2, <2>1
      <4>2. Talk(begun') \in Nat
        BY <4>1, TalkGrows
      <4>3. LastNote' = MaxOf((LongestIntro + Talk(begun')) + PipsLead, SpeechLead)
        BY DEF LastNote, LongestIntro, Talk
      <4> QED BY <4>2, <4>3, LeadsAreBounded DEF MaxOf, MaxLead
    <3>2. \A p \in tones' : p.due + snoozeAge' <= now' + LastNote'
      BY <1>1, <2>3, <3>1, LeadsAreBounded
    <3> QED BY <3>2 DEF FadingTones
  <2> QED BY <1>3, <1>4, <2>4, <2>5, <2>6, <2>7, <2>8 DEF FadeInv
<1> QED BY <1>5, <1>6

-----------------------------------------------------------------------------
\* Nothing is left behind when time goes by: what waits is not yet due, and the
\* sentence at the head of the queue is shorter by the time that went by.
LEMMA TickKeepsFading ==
  ASSUME TypeOK, PageInv, FadeInv, Tick, PageTick
  PROVE  FadeInv'
<1>1. /\ waiting' = waiting /\ tones' = tones /\ wire' = wire /\ beat' = beat /\ due' = due
      /\ now' = now + 1 /\ now \in Int /\ snoozed' = snoozed /\ begun' = begun
  BY DEF Tick, PageTick, TypeOK
<1>2. snoozeAge \in Nat /\ snoozeAge' \in Nat /\ snoozeAge' <= snoozeAge + 1
  BY DEF PageTick, FadeInv, SnoozeTypes
<1>3. speech \in Seq(Sentences)
  BY DEF PageInv
<1>4. /\ Len(speech') = Len(speech) /\ DOMAIN speech' = DOMAIN speech
      /\ speech' = << >> <=> speech = << >>
      /\ \A i \in DOMAIN speech : speech'[i].beat = speech[i].beat
      /\ \A i \in DOMAIN speech : i # 1 => speech'[i].left = speech[i].left
      /\ speech # << >> => speech[1].left > 0 /\ speech'[1].left = speech[1].left - 1
  <2>1. CASE speech = << >>
    BY <2>1 DEF PageTick
  <2>2. CASE speech # << >>
    <3>1. 1 \in DOMAIN speech /\ speech[1] \in Sentences /\ Head(speech) = speech[1]
      BY <1>3, <2>2
    <3>2. Head(speech).left > 0 /\ speech' = [speech EXCEPT ![1].left = @ - 1]
      BY <2>2 DEF PageTick
    <3>3. \A i \in DOMAIN speech : speech[i] \in Sentences
      BY <1>3
    <3>4. speech'[1] = [speech[1] EXCEPT !.left = @ - 1]
      BY <1>3, <3>1, <3>2
    <3>5. speech'[1].beat = speech[1].beat /\ speech'[1].left = speech[1].left - 1
      BY <3>1, <3>4 DEF Sentences
    <3>6. \A i \in DOMAIN speech : i # 1 => speech'[i] = speech[i]
      BY <1>3, <3>2
    <3>7. DOMAIN speech' = DOMAIN speech /\ Len(speech') = Len(speech) /\ speech' # << >>
      BY <1>3, <2>2, <3>2
    <3> QED BY <2>2, <3>1, <3>2, <3>5, <3>6, <3>7
  <2> QED BY <2>1, <2>2
<1>5. NearEvents'
  <2>1. beat \in Int /\ due \in Int /\ wire \in Seq(Events)
    BY DEF TypeOK, PageInv
  <2>2. \A i \in DOMAIN wire : wire[i] \in Events
    BY <2>1
  <2>3. \A i \in DOMAIN wire : wire[i].beat \in Int
    BY <2>2 DEF Events
  <2> QED BY <1>1, <2>1, <2>3, LeadsAreBounded DEF FadeInv, NearEvents
<1>6. NearWaiting'
  <2>1. \A w \in waiting : w.due > now
    BY DEF PageTick
  <2>2. \A w \in waiting : w.beat \in Int
    BY DEF PageInv
  <2> QED BY <1>1, <2>1, <2>2, LeadsAreBounded DEF FadeInv, NearWaiting
<1>7. \A i \in DOMAIN speech : speech[i].beat \in Int /\ speech[i].left \in Int
  <2>1. \A i \in DOMAIN speech : speech[i] \in Sentences
    BY <1>3
  <2> QED BY <2>1 DEF Sentences
<1>8. NearSpeech'
  <2> SUFFICES ASSUME NEW i \in DOMAIN speech
               PROVE  /\ speech'[i].left \in 0 .. MaxSpeech
                      /\ speech'[i].beat <= (now + 1) + MaxLead
    BY <1>1, <1>4 DEF NearSpeech
  <2>1. speech[i].left \in 0 .. MaxSpeech /\ speech[i].beat <= now + MaxLead
    BY DEF FadeInv, NearSpeech
  <2>2. speech[i].beat \in Int /\ speech'[i].beat = speech[i].beat /\ speech # << >>
    BY <1>3, <1>4, <1>7
  <2>3. speech'[i].left \in 0 .. MaxSpeech
    <3>1. CASE i = 1
      BY <1>4, <2>1, <2>2, <3>1, LeadsAreBounded
    <3>2. CASE i # 1
      BY <1>4, <2>1, <3>2
    <3> QED BY <3>1, <3>2
  <2> QED BY <1>1, <2>1, <2>2, <2>3, LeadsAreBounded
<1>9. \A p \in tones : p.due \in Int /\ p.due > now
  BY DEF PageTick, PageInv, LandsInTime
<1>10. NearTones'
  BY <1>1, <1>9, LeadsAreBounded DEF FadeInv, NearTones
<1>11. SnoozeTypes'
  BY <1>1, <1>2 DEF FadeInv, SnoozeTypes
<1>12. FadingWaiting'
  <2>1. \A w \in waiting : w.due \in Int /\ w.beat \in Int
    BY DEF FadeInv, NearWaiting, PageInv
  <2> QED BY <1>1, <1>2, <2>1, LeadsAreBounded DEF FadeInv, FadingWaiting
<1>13. FadingSpeech'
  BY <1>1, <1>2, <1>4, <1>7, LeadsAreBounded DEF FadeInv, FadingSpeech
<1>14. FadingTones'
  <2>1. LastNote \in Nat /\ LastNote' = LastNote
    BY <1>1, LastNoteBounds DEF FadeInv, SnoozeTypes, LastNote
  <2>2. snoozed => \A p \in tones : p.due + snoozeAge <= now + LastNote
    BY DEF FadeInv, FadingTones
  <2>3. snoozed => \A p \in tones : p.due + snoozeAge' <= (now + 1) + LastNote
    BY <1>1, <1>2, <1>9, <2>1, <2>2
  <2> QED BY <1>1, <2>1, <2>3 DEF FadingTones
<1>15. FadingQueue'
  <2> DEFINE m == Len(speech) + Cardinality(waiting)
  <2> SUFFICES ASSUME snoozed
               PROVE  /\ m <= begun
                      /\ speech # << >> =>
                           (speech'[1].left + Talk(m - 1)) + snoozeAge' <= LongestIntro + Talk(begun)
    BY <1>1, <1>4 DEF FadingQueue
  <2>1. m <= begun /\ begun \in Nat
    BY DEF FadeInv, FadingQueue, SnoozeTypes
  <2>2. ASSUME speech # << >>
        PROVE  (speech'[1].left + Talk(m - 1)) + snoozeAge' <= LongestIntro + Talk(begun)
    <3>1. (speech[1].left + Talk(m - 1)) + snoozeAge <= LongestIntro + Talk(begun)
      BY <2>2 DEF FadeInv, FadingQueue
    <3>2. speech'[1].left = speech[1].left - 1 /\ speech[1].left \in Int
      <4>1. 1 \in DOMAIN speech
        BY <1>3, <2>2
      <4> QED BY <1>4, <1>7, <2>2, <4>1
    <3>3. m - 1 \in Nat
      <4>1. Len(speech) \in Nat /\ Len(speech) >= 1
        BY <1>3, <2>2
      <4>2. Cardinality(waiting) \in Nat
        BY FS_CardinalityType DEF FadeInv, NearWaiting
      <4> QED BY <4>1, <4>2
    <3>4. Talk(m - 1) \in Nat /\ Talk(begun) \in Nat
      BY <2>1, <3>3, TalkGrows
    <3> HIDE DEF m
    <3> QED BY <1>2, <3>1, <3>2, <3>4, LeadsAreBounded
  <2> QED BY <2>1, <2>2
<1> QED BY <1>5, <1>6, <1>8, <1>10, <1>11, <1>12, <1>13, <1>14, <1>15 DEF FadeInv

\* Nothing is pending longer than LastNote: what waits and what sounds has not been
\* passed by, and the queue is empty by then.
LEMMA FadesAway ==
  ASSUME TypeOK, PageInv, FadeInv
  PROVE  SnoozeSilences
<1> SUFFICES ASSUME snoozed, snoozeAge > LastNote
             PROVE  waiting = {} /\ speech = << >> /\ tones = {}
  BY DEF SnoozeSilences
<1>1. now \in Int /\ snoozeAge \in Nat /\ begun \in Nat
  BY DEF TypeOK, FadeInv, SnoozeTypes
<1>2. /\ LastNote \in Nat /\ Talk(begun) \in Nat
      /\ LastNote >= (LongestIntro + Talk(begun)) + PipsLead
  BY <1>1, LastNoteBounds
<1>3. waiting = {}
  <2> SUFFICES ASSUME NEW w \in waiting PROVE FALSE
    OBVIOUS
  <2>1. w.due \in Int /\ now <= w.due /\ w.due + snoozeAge <= now + LongestIntro
    BY DEF FadeInv, NearWaiting, FadingWaiting
  <2> QED BY <1>1, <1>2, <2>1, LeadsAreBounded
<1>4. tones = {}
  <2> SUFFICES ASSUME NEW p \in tones PROVE FALSE
    OBVIOUS
  <2>1. p.due \in Int
    BY DEF PageInv, LandsInTime
  <2>2. now <= p.due /\ p.due + snoozeAge <= now + LastNote
    BY DEF FadeInv, NearTones, FadingTones
  <2> QED BY <1>1, <1>2, <2>1, <2>2
<1>5. speech = << >>
  <2> SUFFICES ASSUME speech # << >> PROVE FALSE
    OBVIOUS
  <2> DEFINE m == (Len(speech) + Cardinality(waiting)) - 1
  <2>1. speech \in Seq(Sentences)
    BY DEF PageInv
  <2>2. m \in Nat
    <3>1. Len(speech) \in Nat /\ Len(speech) >= 1
      BY <2>1
    <3>2. Cardinality(waiting) \in Nat
      BY FS_CardinalityType DEF FadeInv, NearWaiting
    <3> QED BY <3>1, <3>2
  <2>3. (speech[1].left + Talk(m)) + snoozeAge <= LongestIntro + Talk(begun)
    BY DEF FadeInv, FadingQueue
  <2>4. speech[1].left \in Nat
    <3>1. 1 \in DOMAIN speech
      BY <2>1
    <3> QED BY <3>1, LeadsAreBounded DEF FadeInv, NearSpeech
  <2>5. Talk(m) \in Nat
    BY <2>2, TalkGrows
  <2> DEFINE k == Talk(m)  left == speech[1].left  talk == Talk(begun)
  <2>6. /\ {k, left, talk, snoozeAge, LongestIntro, PipsLead, LastNote} \subseteq Nat
        /\ (left + k) + snoozeAge <= LongestIntro + talk
        /\ LastNote >= (LongestIntro + talk) + PipsLead
    BY <1>1, <1>2, <2>3, <2>4, <2>5, LeadsAreBounded
  <2> HIDE DEF m, k, left, talk
  <2>7. snoozeAge <= LongestIntro + talk /\ LongestIntro + talk <= LastNote
    BY <2>6
  <2> QED BY <2>6, <2>7
<1> QED BY <1>3, <1>4, <1>5

\* The television is silent once everything that had begun when it was snoozed is over:
\* for every number of sentences that waited, however long they are, however late the
\* events come and however often the stream is lost.
THEOREM SnoozedIsSilent == ClockSpec => []SnoozeSilences
<1>1. ClockInit => PageInv
  BY DEF ClockInit, PageInv
<1>2. ClockInit => FadeInv
  <2> SUFFICES ASSUME ClockInit PROVE FadeInv
    OBVIOUS
  <2>1. TypeOK
    BY InitIsTyped DEF ClockInit
  <2>2. NearEvents
    BY <2>1, SetTimerIsNear DEF TypeOK, ClockInit, Init, NearEvents
  <2>3. IsFiniteSet(waiting)
    BY FS_EmptySet DEF ClockInit
  <2>4. /\ waiting = {} /\ speech = << >> /\ tones = {} /\ Cardinality(waiting) = 0
        /\ snoozed \in BOOLEAN /\ snoozeAge = 0 /\ begun = 0
    BY FS_EmptySet DEF ClockInit
  <2>5. NearWaiting /\ NearSpeech /\ NearTones /\ SnoozeTypes
    BY <2>3, <2>4 DEF NearWaiting, NearSpeech, NearTones, SnoozeTypes
  <2>6. FadingWaiting /\ FadingSpeech /\ FadingTones
    BY <2>4 DEF FadingWaiting, FadingSpeech, FadingTones
  <2>7. FadingQueue
    BY <2>4 DEF FadingQueue
  <2> QED BY <2>2, <2>5, <2>6, <2>7 DEF FadeInv
<1>3. TypeOK /\ TypeOK' /\ PageInv /\ FadeInv /\ [ClockStep]_allVars => FadeInv'
  <2> SUFFICES ASSUME TypeOK, TypeOK', PageInv, FadeInv, [ClockStep]_allVars
               PROVE  FadeInv'
    OBVIOUS
  <2>1. CASE Send
    BY <2>1, SendKeepsFading
  <2>2. CASE Save
    BY <2>2, SaveKeepsFading
  <2>3. CASE NewStream
    BY <2>3, NewStreamKeepsFading
  <2>4. CASE Hear
    BY <2>4, HearKeepsFading
  <2>5. ASSUME NEW w \in waiting, Speak(w) PROVE FadeInv'
    BY <2>5, SpeakKeepsFading
  <2>6. CASE SpeechEnds
    BY <2>6, SpeechEndsKeepsFading
  <2>7. ASSUME NEW p \in tones, Mark(p) PROVE FadeInv'
    BY <2>7, MarkKeepsFading
  <2>8. CASE Snooze
    BY <2>8, SnoozeKeepsFading
  <2>9. CASE Tick /\ PageTick
    BY <2>9, TickKeepsFading
  <2>10. CASE UNCHANGED allVars
    <3>1. now' = now /\ UNCHANGED page /\ wire' = wire /\ UNCHANGED vars
      BY <2>10 DEF allVars, vars
    <3>2. NearEvents'
      BY <3>1, EventsStayNear
    <3> QED BY <3>1, <3>2, StreamKeepsFading DEF FadeInv
  <2> QED BY <2>1, <2>2, <2>3, <2>4, <2>5, <2>6, <2>7, <2>8, <2>9, <2>10, Zenon DEF ClockStep
<1>4. TypeOK /\ TypeOK' /\ ToneNotEarly' /\ PageInv /\ [ClockStep]_allVars => PageInv'
  BY PageStaysInTime
<1>5. TypeOK /\ PageInv /\ FadeInv => SnoozeSilences
  BY FadesAway
<1> QED BY <1>1, <1>2, <1>3, <1>4, <1>5, KeepsTheTimer, TypeCorrect, TonesLandInTime, PTL
    DEF ClockSpec
=============================================================================
