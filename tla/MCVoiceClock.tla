---------------------------- MODULE MCVoiceClock ----------------------------
(* Small instances of VoiceClock for TLC. *)
EXTENDS VoiceClock

\* The seeded setting (bells, spoken time signal), one without a voice, one that
\* is quiet over the beats at 01:15 to 02:45, and one that is switched off.
Seeded == [enabled |-> TRUE, from |-> 1320, to |-> 0, hour |-> "timesignal",
           half |-> "bell", quarter |-> "bell", announce |-> TRUE]
MCSettings == {Seeded,
               [Seeded EXCEPT !.announce = FALSE, !.half = "none"],
               [Seeded EXCEPT !.from = 75, !.to = 175, !.hour = "bell"],
               [Seeded EXCEPT !.enabled = FALSE]}
MCSeeded == {Seeded}

\* 01:40 in Brussels on the day the clock is set back at 03:00, 60 minutes in.
MCStart == -20
=============================================================================
