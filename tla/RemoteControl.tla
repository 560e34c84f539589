--------------------------- MODULE RemoteControl ---------------------------
(***************************************************************************)
(* What the event streams promise the people in front of the televisions:  *)
(* remote controls, editors and timers all move one cursor, and the screen *)
(* comes to show where it stands.  There are no locks, channels, requests  *)
(* or tables here; KioskStream is shown to implement this.                 *)
(*                                                                         *)
(* A stream is off, awake (at work) or resting (nothing to do).  `asked`   *)
(* says that a command has changed the cursor and the stream has not taken *)
(* notice yet; `stale` that an edit moved the view since it was last told. *)
(***************************************************************************)
EXTENDS Rotation

CONSTANTS
  Streams,
  Lists,      \* item lists a playlist may have: sequences of Views
  Jumps       \* the Views a stream jumps to by itself

VARIABLES phase, cursor, shown, countdown, timer, asked, stale

told == <<shown, countdown, timer>>
vars == <<phase, cursor, told, asked, stale>>

\* Where one command may put a cursor.
Commanded(s) == {Next(s), Prev(s), SetPaused(s, TRUE), SetPaused(s, FALSE)}
                \cup {Goto(s, v) : v \in Views \cup {NoView}}

Moved(s) == {Next(s)} \cup {Goto(s, v) : v \in Jumps}

Countdown(s) == IF s.paused THEN "paused" ELSE "running"

\* Unless something is on its way, the screen shows the current view and whether
\* it is paused, and the advance timer was set for that view.
Accurate(c) ==
  LET v == CurrentView(cursor[c]) IN
  ~ asked[c] /\ ~ stale[c] /\ v # NoView =>
    shown[c] = v /\ timer[c] = v /\ countdown[c] = Countdown(cursor[c])

-----------------------------------------------------------------------------
Init ==
  /\ phase = [c \in Streams |-> "off"]
  /\ cursor = [c \in Streams |-> NewState(<< >>)]
  /\ shown = [c \in Streams |-> NoView]
  /\ countdown = [c \in Streams |-> "none"]
  /\ timer = [c \in Streams |-> NoView]
  /\ asked = [c \in Streams |-> FALSE]
  /\ stale = [c \in Streams |-> FALSE]

Begin(c) ==
  /\ phase[c] = "off"
  /\ phase' = [phase EXCEPT ![c] = "awake"]
  /\ \E items \in Lists : cursor' = [cursor EXCEPT ![c] = NewState(items)]
  /\ shown' = [shown EXCEPT ![c] = NoView]
  /\ countdown' = [countdown EXCEPT ![c] = "none"]
  /\ timer' = [timer EXCEPT ![c] = NoView]
  /\ asked' = [asked EXCEPT ![c] = FALSE]
  /\ stale' = [stale EXCEPT ![c] = FALSE]

End(c) ==
  /\ phase[c] # "off"
  /\ phase' = [phase EXCEPT ![c] = "off"]
  /\ UNCHANGED <<cursor, told, asked, stale>>

\* A request that found the stream may reach its cursor even after it ended.
Remote(c) ==
  /\ \E s \in Commanded(cursor[c]) : cursor' = [cursor EXCEPT ![c] = s]
  /\ asked' = [asked EXCEPT ![c] = TRUE]
  /\ UNCHANGED <<phase, told, stale>>

Edit(c) ==
  /\ phase[c] = "resting"
  /\ \E items \in Lists : cursor' = [cursor EXCEPT ![c] = SetItems(@, items)]
  /\ stale' = [stale EXCEPT ![c] = @ \/ CurrentView(cursor'[c]) # CurrentView(cursor[c])]
  /\ UNCHANGED <<phase, told, asked>>

\* A timer fires, or commands are noticed (others may follow meanwhile).
Wake(c) ==
  /\ phase[c] = "resting"
  /\ phase' = [phase EXCEPT ![c] = "awake"]
  /\ asked' \in {asked, [asked EXCEPT ![c] = FALSE]}
  /\ UNCHANGED <<cursor, told, stale>>

\* A paused cursor moves by itself only while the pause is still on its way.
Move(c) ==
  /\ phase[c] = "awake" /\ (cursor[c].paused => asked[c])
  /\ \E s \in Moved(cursor[c]) : cursor' = [cursor EXCEPT ![c] = s]
  /\ UNCHANGED <<phase, told, asked, stale>>

TellView(c) ==
  LET v == CurrentView(cursor[c]) IN
  /\ phase[c] = "awake"
  /\ shown' = [shown EXCEPT ![c] = IF v = NoView THEN @ ELSE v]
  /\ stale' = [stale EXCEPT ![c] = FALSE]
  /\ UNCHANGED <<phase, cursor, countdown, timer, asked>>

TellPause(c) ==
  /\ phase[c] = "awake"
  /\ countdown' = [countdown EXCEPT ![c] = Countdown(cursor[c])]
  /\ UNCHANGED <<phase, cursor, shown, timer, asked, stale>>

Rest(c) ==
  /\ phase[c] = "awake"
  /\ phase' = [phase EXCEPT ![c] = "resting"]
  /\ timer' \in {timer, [timer EXCEPT ![c] = CurrentView(cursor[c])]}
  /\ UNCHANGED <<cursor, shown, countdown, asked, stale>>
  /\ Accurate(c)'

Act(c) == \/ Begin(c) \/ End(c) \/ Remote(c) \/ Edit(c) \/ Wake(c) \/ Move(c)
          \/ TellView(c) \/ TellPause(c) \/ Rest(c)

Spec == Init /\ [][\E c \in Streams : Act(c)]_vars
=============================================================================
