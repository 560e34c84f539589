---------------------------- MODULE KioskStream ----------------------------
(***************************************************************************)
(* The live event stream of the televisions and the remote controls that   *)
(* act on it: rotation.Manager, Server.handleKioskStream and the control   *)
(* handlers, over the cursor of module Rotation.                           *)
(*                                                                         *)
(* Three kinds of goroutines interleave:                                   *)
(*  - one stream per open event-source connection.  A stream is identified *)
(*    with its `conn` struct (Conns).  pc[c] is where its goroutine is     *)
(*    between two accesses to shared state:                                *)
(*      none      not running; the struct may be allocated anew            *)
(*      open      device row and playlist read, Connect not called yet     *)
(*      nav       about to read Current and send `navigate`                *)
(*      secs      about to read Paused and send `dwell`                    *)
(*      greet     first pass only: config, names, pip and version          *)
(*      arm       about to compute dwell() and set the advance timer       *)
(*      loop      in the select statement                                  *)
(*      advance   the advance timer fired and Paused() was read as false   *)
(*      chime     a chime was sent and Paused() was read as false          *)
(*      chimeGoto a clock view was chosen, Goto not called yet             *)
(*  - one goroutine per control request (Callers): lookup, change of the   *)
(*    state and signal each take a lock of their own, and Manager.Goto     *)
(*    changes the state in two critical sections.                          *)
(*  - the administrator, who edits playlists and assigns them to devices.  *)
(*    SQLite has one connection, so each statement is atomic.              *)
(***************************************************************************)
EXTENDS Rotation

CONSTANTS
  Devices,          \* paired televisions
  Conns,            \* conn structs, each with its stream goroutine
  Callers,          \* goroutines that serve control requests
  ClockViews,       \* views with a clock face that opted into announcements
  PlaylistIds,
  DefaultPlaylist,  \* the playlist whose is_default flag is set
  Contents,         \* the item lists an editor may give a playlist
  CmdCap,           \* capacity of conn.cmds (8 in the code)
  MaxCommands,      \* bound: control requests in one behaviour
  MaxEdits,         \* bound: administrator's writes in one behaviour
  NoConn, NoPlaylist, NoPip

ASSUME ConstantsAssumption ==
  /\ ClockViews \subseteq Views
  /\ DefaultPlaylist \in PlaylistIds
  /\ NoPlaylist \notin PlaylistIds
  /\ Contents \subseteq Seq(Views)
  /\ NoConn \notin Conns
  /\ NoPip \notin Seq(Views)
  /\ CmdCap \in Nat \ {0}
  /\ MaxCommands \in Nat /\ MaxEdits \in Nat

VARIABLES
  lists,       \* table playlist_items: item list of every existing playlist
  row,         \* table kiosk_devices: assigned playlist and corner playlist
  forms,       \* assignment forms half written: their second UPDATE is due
  devices,     \* Manager.devices
  st,          \* conn.state
  notify,      \* conn.notify holds its one token
  cmds,        \* number of client commands waiting in conn.cmds
  pc,
  mine,        \* `dev`, the device row as it was when the stream opened
  aim,         \* `vid`, the clock view a chime jumps to
  shown,       \* id in the last `navigate` event
  countdown,   \* the last `dwell` event: none yet, paused (0) or running
  armed,       \* the view for which the advance timer was last set
  pip,         \* the last `pip` event
  edited,      \* history: SetItems changed Current since the last navigate
  superseded,  \* history: a later stream of the same device has connected
  call,        \* control requests
  issued, edits

db     == <<lists, row, forms, edits>>
screen == <<shown, countdown, armed, pip>>
vars   == <<db, devices, st, notify, cmds, pc, mine, aim, screen, edited,
            superseded, call, issued>>

-----------------------------------------------------------------------------
(* The database as the stream reads it.                                    *)

ItemsOf(p) == IF p \in DOMAIN lists THEN lists[p] ELSE << >>

\* resolvePlaylist: the assigned playlist if it still exists, else the default.
ResolvePlaylist(dev) ==
  IF dev.main \in DOMAIN lists THEN dev.main ELSE DefaultPlaylist

DeviceItems(dev) == ItemsOf(ResolvePlaylist(dev))

PipItems(dev) == ItemsOf(dev.pip)

\* announceClockView: the first view of the items that opted in.
ClockPositions(items) == {i \in DOMAIN items : items[i] \in ClockViews}
AnnounceClockView(items) ==
  IF ClockPositions(items) = {} THEN NoView
  ELSE items[CHOOSE i \in ClockPositions(items) :
               \A j \in ClockPositions(items) : i <= j]

-----------------------------------------------------------------------------
Rows == [dev : Devices, main : PlaylistIds \cup {NoPlaylist},
         pip : PlaylistIds \cup {NoPlaylist}]

NewRow(d) == [dev |-> d, main |-> NoPlaylist, pip |-> NoPlaylist]

MoveCmds  == {"next", "prev"}
PauseCmds == {"pause", "resume"}
Ops == MoveCmds \cup PauseCmds \cup {"goto", "client"}

Idle == [pc |-> "idle", op |-> "next", conn |-> NoConn, view |-> NoView]

Live(c)      == pc[c] # "none"
Connected(c) == pc[c] \notin {"none", "open"}

\* A request has changed c's state and has not signalled yet.
Busy(c) == \E r \in Callers : call[r].conn = c /\ call[r].pc \in {"moved", "signal"}

Init ==
  /\ lists \in [PlaylistIds -> Contents]
  /\ row = [d \in Devices |-> NewRow(d)]
  /\ forms = {}
  /\ devices = [d \in Devices |-> NoConn]
  /\ st = [c \in Conns |-> NewState(<< >>)]
  /\ notify = [c \in Conns |-> FALSE]
  /\ cmds = [c \in Conns |-> 0]
  /\ pc = [c \in Conns |-> "none"]
  /\ mine \in [Conns -> {NewRow(d) : d \in Devices}]
  /\ aim = [c \in Conns |-> NoView]
  /\ shown = [c \in Conns |-> NoView]
  /\ countdown = [c \in Conns |-> "none"]
  /\ armed = [c \in Conns |-> NoView]
  /\ pip = [c \in Conns |-> NoPip]
  /\ edited = [c \in Conns |-> FALSE]
  /\ superseded = [c \in Conns |-> FALSE]
  /\ call = [r \in Callers |-> Idle]
  /\ issued = 0
  /\ edits = 0

-----------------------------------------------------------------------------
(* Opening and closing a stream.                                           *)

\* requireKiosk and the argument of Connect: the row and its items are read.
\* A struct is used again only when no goroutine refers to it any more.
Open(c, d) ==
  /\ pc[c] = "none"
  /\ \A r \in Callers : call[r].conn # c
  /\ pc' = [pc EXCEPT ![c] = "open"]
  /\ mine' = [mine EXCEPT ![c] = row[d]]
  /\ st' = [st EXCEPT ![c] = NewState(DeviceItems(row[d]))]
  /\ notify' = [notify EXCEPT ![c] = FALSE]
  /\ cmds' = [cmds EXCEPT ![c] = 0]
  /\ aim' = [aim EXCEPT ![c] = NoView]
  /\ shown' = [shown EXCEPT ![c] = NoView]
  /\ countdown' = [countdown EXCEPT ![c] = "none"]
  /\ armed' = [armed EXCEPT ![c] = NoView]
  /\ pip' = [pip EXCEPT ![c] = NoPip]
  /\ edited' = [edited EXCEPT ![c] = FALSE]
  /\ superseded' = [superseded EXCEPT ![c] = FALSE]
  /\ UNCHANGED <<db, devices, call, issued>>

\* Manager.Connect: the newest stream takes the device's entry.
Connect(c) ==
  /\ pc[c] = "open"
  /\ pc' = [pc EXCEPT ![c] = "nav"]
  /\ devices' = [devices EXCEPT ![mine[c].dev] = c]
  /\ superseded' = [k \in Conns |-> superseded[k] \/
                      (k # c /\ Connected(k) /\ mine[k].dev = mine[c].dev)]
  /\ UNCHANGED <<db, st, notify, cmds, mine, aim, screen, edited, call, issued>>

\* Mutant: release does not look whose entry it deletes.
ReleaseAnyEntry(c) == devices' = [devices EXCEPT ![mine[c].dev] = NoConn]

\* release: unregister, unless a newer stream owns the entry.
Release(c) ==
  devices' = [d \in Devices |-> IF d = mine[c].dev /\ devices[d] = c
                                THEN NoConn ELSE devices[d]]

\* The client went away: a write failed, or the request's context is done.
Disconnect(c) ==
  /\ pc[c] \in {"nav", "secs", "loop"}
  /\ pc' = [pc EXCEPT ![c] = "none"]
  /\ Release(c)
  /\ UNCHANGED <<db, st, notify, cmds, mine, aim, screen, edited, superseded,
                 call, issued>>

-----------------------------------------------------------------------------
(* sendCurrent, and what follows it.                                       *)

\* Nothing to show: a `refresh` event instead of `navigate` and `dwell`.
AfterSend(c) == IF pip[c] = NoPip THEN "greet" ELSE "arm"

SendNavigate(c) ==
  /\ pc[c] = "nav"
  /\ edited' = [edited EXCEPT ![c] = FALSE]
  /\ IF CurrentView(st[c]) = NoView
     THEN /\ pc' = [pc EXCEPT ![c] = AfterSend(c)]
          /\ shown' = shown
     ELSE /\ pc' = [pc EXCEPT ![c] = "secs"]
          /\ shown' = [shown EXCEPT ![c] = CurrentView(st[c])]
  /\ UNCHANGED <<db, devices, st, notify, cmds, mine, aim, countdown, armed,
                 pip, superseded, call, issued>>

\* Mutant: the channel is drained after the state was sent.
SendDwellDrains(c) ==
  /\ pc[c] = "secs"
  /\ countdown' = [countdown EXCEPT ![c] = IF st[c].paused THEN "paused"
                                           ELSE "running"]
  /\ notify' = [notify EXCEPT ![c] = FALSE]
  /\ pc' = [pc EXCEPT ![c] = AfterSend(c)]
  /\ UNCHANGED <<db, devices, st, cmds, mine, aim, shown, armed, pip,
                 edited, superseded, call, issued>>

SendDwell(c) ==
  /\ pc[c] = "secs"
  /\ countdown' = [countdown EXCEPT ![c] = IF st[c].paused THEN "paused"
                                           ELSE "running"]
  /\ pc' = [pc EXCEPT ![c] = AfterSend(c)]
  /\ UNCHANGED <<db, devices, st, notify, cmds, mine, aim, shown, armed, pip,
                 edited, superseded, call, issued>>

SendGreeting(c) ==
  /\ pc[c] = "greet"
  /\ pip' = [pip EXCEPT ![c] = PipItems(mine[c])]
  /\ pc' = [pc EXCEPT ![c] = "arm"]
  /\ UNCHANGED <<db, devices, st, notify, cmds, mine, aim, shown, countdown,
                 armed, edited, superseded, call, issued>>

Arm(c) ==
  /\ pc[c] = "arm"
  /\ armed' = [armed EXCEPT ![c] = CurrentView(st[c])]
  /\ pc' = [pc EXCEPT ![c] = "loop"]
  /\ UNCHANGED <<db, devices, st, notify, cmds, mine, aim, shown, countdown,
                 pip, edited, superseded, call, issued>>

-----------------------------------------------------------------------------
(* The select loop.                                                        *)

TakeNotify(c) ==
  /\ pc[c] = "loop"
  /\ notify[c]
  /\ notify' = [notify EXCEPT ![c] = FALSE]
  /\ pc' = [pc EXCEPT ![c] = "nav"]
  /\ UNCHANGED <<db, devices, st, cmds, mine, aim, screen, edited, superseded,
                 call, issued>>

ForwardCmd(c) ==
  /\ pc[c] = "loop"
  /\ cmds[c] > 0
  /\ cmds' = [cmds EXCEPT ![c] = @ - 1]
  /\ UNCHANGED <<db, devices, st, notify, pc, mine, aim, screen, edited,
                 superseded, call, issued>>

\* Mutant: the ticker refreshes data but not the playlist.
RefreshDataOnly(c) ==
  /\ pc[c] = "loop"
  /\ pip' = [pip EXCEPT ![c] = PipItems(mine[c])]
  /\ UNCHANGED <<db, devices, st, notify, cmds, pc, mine, aim, shown, countdown,
                 armed, edited, superseded, call, issued>>

\* The 30 s ticker.  Nothing is navigated, even if Current has changed.
Refresh(c) ==
  LET s == SetItems(st[c], DeviceItems(mine[c])) IN
  /\ pc[c] = "loop"
  /\ st' = [st EXCEPT ![c] = s]
  /\ edited' = [edited EXCEPT ![c] = @ \/ CurrentView(s) # CurrentView(st[c])]
  /\ pip' = [pip EXCEPT ![c] = PipItems(mine[c])]
  /\ UNCHANGED <<db, devices, notify, cmds, pc, mine, aim, shown, countdown,
                 armed, superseded, call, issued>>

\* Mutant: the timer advances without looking at the pause flag.
AdvanceFiresUnchecked(c) ==
  /\ pc[c] = "loop"
  /\ pc' = [pc EXCEPT ![c] = "advance"]
  /\ UNCHANGED <<db, devices, st, notify, cmds, mine, aim, screen, edited,
                 superseded, call, issued>>

\* The advance timer fires and Paused() is read ...
AdvanceFires(c) ==
  /\ pc[c] = "loop"
  /\ pc' = [pc EXCEPT ![c] = IF st[c].paused THEN "nav" ELSE "advance"]
  /\ UNCHANGED <<db, devices, st, notify, cmds, mine, aim, screen, edited,
                 superseded, call, issued>>

\* ... and Next() is called, in a critical section of its own.
AdvanceNext(c) ==
  /\ pc[c] = "advance"
  /\ st' = [st EXCEPT ![c] = Next(@)]
  /\ pc' = [pc EXCEPT ![c] = "nav"]
  /\ UNCHANGED <<db, devices, notify, cmds, mine, aim, screen, edited,
                 superseded, call, issued>>

\* A quarter hour that is announced (Decide said so); a paused screen stays.
ChimeFires(c) ==
  /\ pc[c] = "loop"
  /\ ~ st[c].paused
  /\ pc' = [pc EXCEPT ![c] = "chime"]
  /\ UNCHANGED <<db, devices, st, notify, cmds, mine, aim, screen, edited,
                 superseded, call, issued>>

\* The clock view comes from the playlist as it is now in the database.
ChimePick(c) ==
  LET v == AnnounceClockView(DeviceItems(mine[c])) IN
  /\ pc[c] = "chime"
  /\ IF v # NoView /\ CurrentView(st[c]) # v
     THEN /\ pc' = [pc EXCEPT ![c] = "chimeGoto"]
          /\ aim' = [aim EXCEPT ![c] = v]
     ELSE /\ pc' = [pc EXCEPT ![c] = "loop"]
          /\ aim' = aim
  /\ UNCHANGED <<db, devices, st, notify, cmds, mine, screen, edited,
                 superseded, call, issued>>

\* The jump does not pause, so rotation goes on from the clock view.
ChimeGoto(c) ==
  /\ pc[c] = "chimeGoto"
  /\ st' = [st EXCEPT ![c] = Goto(@, aim[c])]
  /\ aim' = [aim EXCEPT ![c] = NoView]
  /\ pc' = [pc EXCEPT ![c] = "nav"]
  /\ UNCHANGED <<db, devices, notify, cmds, mine, screen, edited, superseded,
                 call, issued>>

-----------------------------------------------------------------------------
(* Control requests: handleKioskControl, handleDeviceControl.              *)

\* lookup.  Without a live stream the handler does nothing (and says 204).
Lookup(r, d, op, v) ==
  /\ call[r].pc = "idle"
  /\ issued < MaxCommands
  /\ devices[d] # NoConn
  /\ call' = [call EXCEPT ![r] = [pc |-> "found", op |-> op,
                                  conn |-> devices[d], view |-> v]]
  /\ issued' = issued + 1
  /\ UNCHANGED <<db, devices, st, notify, cmds, pc, mine, aim, screen, edited,
                 superseded>>

Obey(op, s) == CASE op = "next"   -> Next(s)
                 [] op = "prev"   -> Prev(s)
                 [] op = "pause"  -> SetPaused(s, TRUE)
                 [] op = "resume" -> SetPaused(s, FALSE)

\* Manager.Command: the state change of next, prev, pause or resume.
ApplyCommand(r) ==
  LET c == call[r].conn
      op == call[r].op IN
  /\ call[r].pc = "found"
  /\ op \in MoveCmds \cup PauseCmds
  /\ st' = [st EXCEPT ![c] = Obey(op, @)]
  /\ call' = [call EXCEPT ![r].pc = "signal"]
  /\ UNCHANGED <<db, devices, notify, cmds, pc, mine, aim, screen, edited,
                 superseded, issued>>

\* Manager.Goto moves in one critical section ...
GotoMoves(r) ==
  /\ call[r].pc = "found"
  /\ call[r].op = "goto"
  /\ st' = [st EXCEPT ![call[r].conn] = Goto(@, call[r].view)]
  /\ call' = [call EXCEPT ![r].pc = "moved"]
  /\ UNCHANGED <<db, devices, notify, cmds, pc, mine, aim, screen, edited,
                 superseded, issued>>

\* Mutant: nobody is told of a jump.
GotoPausesUnsignalled(r) ==
  /\ call[r].pc = "moved"
  /\ st' = [st EXCEPT ![call[r].conn] = SetPaused(@, TRUE)]
  /\ call' = [call EXCEPT ![r] = Idle]
  /\ UNCHANGED <<db, devices, notify, cmds, pc, mine, aim, screen, edited,
                 superseded, issued>>

\* ... and pauses in another.
GotoPauses(r) ==
  /\ call[r].pc = "moved"
  /\ st' = [st EXCEPT ![call[r].conn] = SetPaused(@, TRUE)]
  /\ call' = [call EXCEPT ![r].pc = "signal"]
  /\ UNCHANGED <<db, devices, notify, cmds, pc, mine, aim, screen, edited,
                 superseded, issued>>

\* signal: put the token, or coalesce with the one that is there.
Signal(r) ==
  /\ call[r].pc = "signal"
  /\ notify' = [notify EXCEPT ![call[r].conn] = TRUE]
  /\ call' = [call EXCEPT ![r] = Idle]
  /\ UNCHANGED <<db, devices, st, cmds, pc, mine, aim, screen, edited,
                 superseded, issued>>

\* Mutant: the send does not look at the buffer's capacity.
SendClientCmdUnbounded(r) ==
  LET c == call[r].conn IN
  /\ call[r].pc = "found"
  /\ call[r].op = "client"
  /\ cmds' = [cmds EXCEPT ![c] = @ + 1]
  /\ call' = [call EXCEPT ![r] = Idle]
  /\ UNCHANGED <<db, devices, st, notify, pc, mine, aim, screen, edited,
                 superseded, issued>>

\* SendClientCmd: mute, pip-toggle, ...; dropped when the buffer is full.
SendClientCmd(r) ==
  LET c == call[r].conn IN
  /\ call[r].pc = "found"
  /\ call[r].op = "client"
  /\ cmds' = [cmds EXCEPT ![c] = IF @ < CmdCap THEN @ + 1 ELSE @]
  /\ call' = [call EXCEPT ![r] = Idle]
  /\ UNCHANGED <<db, devices, st, notify, pc, mine, aim, screen, edited,
                 superseded, issued>>

-----------------------------------------------------------------------------
(* The administrator.                                                      *)

rest == <<devices, st, notify, cmds, pc, mine, aim, screen, edited,
          superseded, call, issued>>

EditPlaylist(p, items) ==
  /\ edits < MaxEdits
  /\ p \in DOMAIN lists
  /\ lists' = [lists EXCEPT ![p] = items]
  /\ edits' = edits + 1
  /\ UNCHANGED <<row, forms, rest>>

DeletePlaylist(p) ==
  /\ edits < MaxEdits
  /\ p \in DOMAIN lists
  /\ lists' = [q \in DOMAIN lists \ {p} |-> lists[q]]
  /\ edits' = edits + 1
  /\ UNCHANGED <<row, forms, rest>>

\* handleDeviceAssign writes the playlist and then the corner playlist.
AssignPlaylist(d, p, corner) ==
  /\ edits < MaxEdits
  /\ row' = [row EXCEPT ![d].main = p]
  /\ forms' = forms \cup {[dev |-> d, pip |-> corner]}
  /\ edits' = edits + 1
  /\ UNCHANGED <<lists, rest>>

AssignPip(f) ==
  /\ f \in forms
  /\ row' = [row EXCEPT ![f.dev].pip = f.pip]
  /\ forms' = forms \ {f}
  /\ UNCHANGED <<lists, edits, rest>>

-----------------------------------------------------------------------------
StreamStep(c) ==
  \/ Connect(c) \/ SendNavigate(c) \/ SendDwell(c) \/ SendGreeting(c) \/ Arm(c)
  \/ AdvanceNext(c) \/ ChimePick(c) \/ ChimeGoto(c)

SelectStep(c) ==
  \/ TakeNotify(c) \/ ForwardCmd(c) \/ Refresh(c) \/ AdvanceFires(c)
  \/ ChimeFires(c)

CallerStep(r) ==
  \/ ApplyCommand(r) \/ GotoMoves(r) \/ GotoPauses(r) \/ Signal(r)
  \/ SendClientCmd(r)

AdminStep ==
  \/ \E p \in PlaylistIds, items \in Contents : EditPlaylist(p, items)
  \/ \E p \in PlaylistIds : DeletePlaylist(p)
  \/ \E d \in Devices, p, q \in PlaylistIds \cup {NoPlaylist} :
       AssignPlaylist(d, p, q)
  \/ \E f \in forms : AssignPip(f)

Step ==
  \/ \E c \in Conns : \/ StreamStep(c) \/ SelectStep(c) \/ Disconnect(c)
                      \/ \E d \in Devices : Open(c, d)
  \/ \E r \in Callers : \/ CallerStep(r)
                        \/ \E d \in Devices, op \in Ops :
                             \E v \in IF op = "goto" THEN Views \cup {NoView}
                                      ELSE {NoView} : Lookup(r, d, op, v)
  \/ AdminStep

Spec == Init /\ [][Step]_vars

\* Goroutines run.  select picks uniformly among its ready cases, so a case
\* that is ready again and again is taken; the timers keep firing.
Fairness ==
  /\ \A c \in Conns : /\ WF_vars(StreamStep(c))
                      /\ SF_vars(TakeNotify(c)) /\ SF_vars(ForwardCmd(c))
                      /\ SF_vars(Refresh(c)) /\ SF_vars(AdvanceFires(c))
  /\ \A r \in Callers : WF_vars(CallerStep(r))

FairSpec == Spec /\ Fairness
-----------------------------------------------------------------------------
(* Properties.                                                             *)

Forms == [dev : Devices, pip : PlaylistIds \cup {NoPlaylist}]

Pcs == {"none", "open", "nav", "secs", "greet", "arm", "loop", "advance",
        "chime", "chimeGoto"}

Calls == [pc : {"idle", "found", "moved", "signal"}, op : Ops,
          conn : Conns \cup {NoConn}, view : Views \cup {NoView}]

\* Every variable has its type; the client-command channel (conn.cmds) never
\* holds more than its capacity.
TypeOK ==
  /\ DOMAIN lists \subseteq PlaylistIds
  /\ lists \in [DOMAIN lists -> Contents]
  /\ row \in [Devices -> Rows]
  /\ forms \subseteq Forms
  /\ devices \in [Devices -> Conns \cup {NoConn}]
  /\ st \in [Conns -> Playback]
  /\ notify \in [Conns -> BOOLEAN]
  /\ cmds \in [Conns -> 0 .. CmdCap]
  /\ pc \in [Conns -> Pcs]
  /\ mine \in [Conns -> Rows]
  /\ aim \in [Conns -> Views \cup {NoView}]
  /\ shown \in [Conns -> Views \cup {NoView}]
  /\ countdown \in [Conns -> {"none", "paused", "running"}]
  /\ armed \in [Conns -> Views \cup {NoView}]
  /\ pip \in [Conns -> Seq(Views) \cup {NoPip}]
  /\ edited \in [Conns -> BOOLEAN]
  /\ superseded \in [Conns -> BOOLEAN]
  /\ call \in [Callers -> Calls]
  /\ issued \in Nat
  /\ edits \in Nat

\* The cursor of every stream stays inside its playlist, through any mix of
\* edits, commands and chimes, so State.Current never has to repair it and the
\* slice access in it cannot panic.
IndexInRange ==
  \A c \in Conns : \/ st[c].index < Len(st[c].items)
                   \/ st[c].items = << >> /\ st[c].index = 0

\* Manager.devices is exact: the newest stream of a device is registered from
\* Connect until it ends, whatever older streams of the device do meanwhile
\* (the release of an older stream must not unregister its successor), and a
\* registered stream is running.
RegistryExact ==
  \A d \in Devices, c \in Conns :
    devices[d] = c <=> Connected(c) /\ mine[c].dev = d /\ ~ superseded[c]

\* Nothing is on its way to c's screen: no token, no request between its
\* change of the state and its signal, and no edit since the last navigate.
Settled(c) == ~ notify[c] /\ ~ Busy(c) /\ ~ edited[c]

\* No lost wakeup: a stream that waits in its select, with no token pending
\* and no request about to send one, has told the kiosk the current view and
\* whether it is paused, and its advance timer was set for that view.  The
\* one-token coalescing channel is enough although the state is read in three
\* separate critical sections (handleKioskStream's notify case).
NoLostWakeup ==
  \A c \in Conns :
    pc[c] = "loop" /\ Settled(c) /\ CurrentView(st[c]) # NoView =>
      /\ shown[c] = CurrentView(st[c])
      /\ armed[c] = CurrentView(st[c])
      /\ countdown[c] = IF st[c].paused THEN "paused" ELSE "running"

\* An automatic move (advance timer or chime) goes ahead on a paused cursor only
\* while the request that paused it is still on its way to the stream: its
\* signal is due or its token lies in the channel.  A pause the stream has
\* taken notice of is never overrun (the Paused() checks in the advance and
\* chime cases).
AutomaticMoveSawUnpaused ==
  \A c \in Conns :
    pc[c] \in {"advance", "chime", "chimeGoto"} /\ st[c].paused =>
      Busy(c) \/ notify[c]

\* A stream has nothing left to do: tokens and client commands are drained, it
\* plays the playlist in the database, and the kiosk shows its current view.
CaughtUp(c) ==
  /\ pc[c] = "loop" /\ Settled(c) /\ cmds[c] = 0
  /\ st[c].items = DeviceItems(mine[c])
  /\ CurrentView(st[c]) \in {NoView, shown[c]}

\* Once requests and edits stop (their number is bounded), every stream ends
\* or catches up with all of them again and again: no command, client command
\* or playlist edit is forgotten, and rotation does not get stuck.
StreamsCatchUp == \A c \in Conns : []<>(~ Live(c) \/ CaughtUp(c))

-----------------------------------------------------------------------------
(* What the streams promise: RemoteControl.                                *)

Phase(c) == CASE pc[c] = "none" -> "off" [] pc[c] = "loop" -> "resting"
              [] OTHER -> "awake"

Phases == [c \in Conns |-> Phase(c)]
Asked  == [c \in Conns |-> notify[c] \/ Busy(c)]

Promise == INSTANCE RemoteControl
           WITH Streams <- Conns, Lists <- Contents \cup {<< >>},
                Jumps <- ClockViews, phase <- Phases, cursor <- st,
                timer <- armed, asked <- Asked, stale <- edited

\* The registry, the one-token channel, a state that is read in three critical
\* sections and changed in one or two by requests, the playlists in the database:
\* to a viewer all of it is one cursor and a screen that follows it.
FollowsTheRemote == Promise!Spec
=============================================================================
