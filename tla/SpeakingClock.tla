--------------------------- MODULE SpeakingClock ---------------------------
(***************************************************************************)
(* The chime timer of the stream (VoiceClock) together with the page that  *)
(* plays what it sends (voiceclock.js): an event may be late, an attention *)
(* chime delays the speech, speech takes as long as the browser's voice    *)
(* needs, and the three pips of a time signal wait for the exact beat.     *)
(* Any viewer can snooze the clock at any time.                            *)
(*                                                                         *)
(* A pip is represented by the long third tone, PipsLead after the first.  *)
(* Browser timers are served in time; a voice that is missing speaks for   *)
(* no time at all.                                                         *)
(***************************************************************************)
EXTENDS VoiceClock, Sequences, FiniteSets

CONSTANTS
  AttentionTime,  \* from the attention chime to the speech
  RingTime,       \* from a bell to "Het is ..."
  MaxSpeech,      \* bound: how long the voice speaks
  MaxTransit,     \* bound: how long an event is on its way
  MaxDisturbances \* bound: disturbances, settings saved, streams lost

ASSUME SpeechConstants ==
  {AttentionTime, RingTime, MaxSpeech, MaxTransit, MaxDisturbances} \subseteq Nat

VARIABLES
  wire,     \* chime events on their way
  waiting,  \* sentences that will be spoken, and when
  speech,   \* sentences handed to speechSynthesis, in order
  tones,    \* third pips to come
  snoozed,
  disturbances,
  snoozeAge, \* history: ticks since the clock was snoozed
  begun     \* history: sentences that were waiting then

page    == <<waiting, speech, tones, snoozed, snoozeAge, begun>>
allVars == <<vars, wire, page, disturbances>>

MaxOf(m, n) == IF m > n THEN m ELSE n

\* The longest that what has begun can go on: the sentences, one after the other, and
\* the pips of the last; or pips that wait for their beat.
LastNote ==
  MaxOf(MaxOf(AttentionTime, RingTime) + MaxSpeech * begun + PipsLead, SpeechLead)

-----------------------------------------------------------------------------
Send == /\ ChimeFires
        /\ wire' = IF Decide(cfg, beat) = Silent THEN wire ELSE Append(wire, sent')
        /\ UNCHANGED <<page, disturbances>>

Disturb == disturbances < MaxDisturbances /\ disturbances' = disturbances + 1

Save == SaveSettings /\ Disturb /\ UNCHANGED <<wire, page>>

\* What was on its way is lost.
NewStream == Reconnect /\ Disturb /\ wire' = << >> /\ UNCHANGED page

-----------------------------------------------------------------------------
(* runChime.                                                               *)

\* A time signal that is announced: attention chime or none, then the sentence.
LeadIn(e) ==
  /\ e.chime.sound = "timesignal" /\ e.chime.announce
  /\ \E delay \in {0, AttentionTime} :
       waiting' = waiting \cup {[due |-> now + delay, beat |-> e.beat, leads |-> TRUE]}
  /\ UNCHANGED tones

\* A time signal without words: its pips, at once.
PipsOnly(e) ==
  /\ e.chime.sound = "timesignal" /\ ~ e.chime.announce
  /\ tones' = tones \cup {[due |-> now + PipsLead, beat |-> e.beat, fresh |-> e.fresh,
                           ended |-> now, spoken |-> FALSE]}
  /\ UNCHANGED waiting

\* playSound: for how long a sound that is no time signal rings.
PlaySound(sound) == IF sound = "none" THEN 0 ELSE RingTime

\* Anything else is played, and the time told after it.
Ring(e) ==
  /\ e.chime.sound # "timesignal"
  /\ waiting' = IF e.chime.announce
                THEN waiting \cup {[due |-> now + PlaySound(e.chime.sound), beat |-> e.beat, leads |-> FALSE]}
                ELSE waiting
  /\ UNCHANGED tones

\* Mutant: the snooze is looked at when the sound is played, and speech is not.
HearAlways ==
  /\ wire # << >>
  /\ wire' = Tail(wire)
  /\ LET e == Head(wire) IN LeadIn(e) \/ PipsOnly(e) \/ Ring(e)
  /\ UNCHANGED <<vars, speech, snoozed, disturbances, snoozeAge, begun>>

Hear ==
  /\ wire # << >>
  /\ wire' = Tail(wire)
  /\ LET e == Head(wire) IN
       IF snoozed THEN UNCHANGED <<waiting, tones>>
       ELSE LeadIn(e) \/ PipsOnly(e) \/ Ring(e)
  /\ UNCHANGED <<vars, speech, snoozed, disturbances, snoozeAge, begun>>

Speak(w) ==
  /\ w.due = now
  /\ waiting' = waiting \ {w}
  /\ \E n \in 0 .. MaxSpeech :
       speech' = Append(speech, [left |-> n, beat |-> w.beat, leads |-> w.leads])
  /\ UNCHANGED <<vars, wire, tones, snoozed, disturbances, snoozeAge, begun>>

\* Mutant: the pips follow the speech.
PipAtOnce(u) == [due |-> now + PipsLead, beat |-> u.beat, fresh |-> TRUE,
                 ended |-> now, spoken |-> TRUE]

\* startPips: two seconds before the beat, or at once when the speech overran.
Pip(u) == [due |-> MaxOf(now, u.beat - PipsLead) + PipsLead, beat |-> u.beat,
           fresh |-> TRUE, ended |-> now, spoken |-> TRUE]

SpeechEnds ==
  /\ speech # << >> /\ Head(speech).left = 0
  /\ speech' = Tail(speech)
  /\ tones' = IF Head(speech).leads THEN tones \cup {Pip(Head(speech))} ELSE tones
  /\ UNCHANGED <<vars, wire, waiting, snoozed, disturbances, snoozeAge, begun>>

Mark(p) ==
  /\ p.due = now
  /\ tones' = tones \ {p}
  /\ UNCHANGED <<vars, wire, waiting, speech, snoozed, disturbances, snoozeAge, begun>>

\* fpSnooze.  Speech that is cancelled reports an error, and its pips follow.
Snooze ==
  /\ Disturb
  /\ snoozed' = ~ snoozed
  /\ snoozeAge' = 0 /\ begun' = IF snoozed' THEN Cardinality(waiting) ELSE 0
  /\ IF snoozed'
     THEN /\ speech' = << >>
          /\ tones' = tones \cup {Pip(speech[i]) : i \in {j \in DOMAIN speech : speech[j].leads}}
     ELSE UNCHANGED <<speech, tones>>
  /\ UNCHANGED <<vars, wire, waiting>>

-----------------------------------------------------------------------------
PageTick ==
  /\ \A w \in waiting : w.due > now
  /\ \A p \in tones : p.due > now
  /\ IF speech = << >> THEN UNCHANGED speech
     ELSE Head(speech).left > 0 /\ speech' = [speech EXCEPT ![1].left = @ - 1]
  /\ wire # << >> => now < Head(wire).at + MaxTransit
  /\ snoozeAge' = IF snoozed /\ snoozeAge <= LastNote THEN snoozeAge + 1 ELSE snoozeAge
  /\ UNCHANGED <<wire, waiting, tones, snoozed, disturbances, begun>>

ClockInit ==
  /\ Init
  /\ wire = << >> /\ waiting = {} /\ speech = << >> /\ tones = {}
  /\ snoozed \in BOOLEAN /\ disturbances = 0 /\ snoozeAge = 0 /\ begun = 0

ClockStep ==
  \/ Send \/ Save \/ NewStream
  \/ Hear \/ \E w \in waiting : Speak(w)
  \/ SpeechEnds \/ \E p \in tones : Mark(p)
  \/ Snooze
  \/ Tick /\ PageTick

ClockSpec == ClockInit /\ [][ClockStep]_allVars

-----------------------------------------------------------------------------
(* Properties.                                                             *)

\* voiceclock.js, speakThenPips: "the (long) third pip lands on atMs - the exact
\* beat".  After a sentence the third pip never sounds before the beat, whatever
\* settings were saved and however early the event came, and after it only when
\* the sentence ended too late; without words it is not early either, as long as
\* the settings were those the stream's timer was set with.
TonesMarkTheBeat ==
  [][\A p \in tones \ tones' :
       IF p.spoken
       THEN now >= p.beat /\ (now > p.beat => p.ended > p.beat - PipsLead)
       ELSE p.fresh => now >= p.beat]_allVars

\* voiceclock.js: "manual snooze mutes live chimes".  What has begun goes on: a
\* sentence that waits for its attention chime is spoken, the pips of one that is
\* cancelled are heard.  But after that, and however often the stream was lost and the
\* beat sent again before, a snoozed television is silent.
SnoozeSilences ==
  snoozed /\ snoozeAge > LastNote => waiting = {} /\ speech = << >> /\ tones = {}
=============================================================================
