-------------------------- MODULE MCSpeakingClock --------------------------
(* Small instances of SpeakingClock for TLC. *)
EXTENDS SpeakingClock

\* The seeded setting (bells, spoken time signal), one without a voice that is
\* quiet over the beats at 01:15 to 02:45 of the wall clock, one that tells the
\* time after a bell, and one that is switched off.
Seeded == [enabled |-> TRUE, from |-> 1320, to |-> 0, hour |-> "timesignal",
           half |-> "bell", quarter |-> "bell", announce |-> TRUE]
MCSettings == {Seeded,
               [Seeded EXCEPT !.announce = FALSE, !.from = 75, !.to = 175],
               [Seeded EXCEPT !.hour = "bell", !.half = "none"],
               [Seeded EXCEPT !.enabled = FALSE]}
=============================================================================
