# TLA+ verification of familyplanner

familyplanner is a Go server (one process, one SQLite file) that drives wall
televisions.  A television opens a kiosk page; the page keeps one server-sent
event stream open, over which the server says which view to show.  Widgets on
the views are filled by background fetches from outside sources.  A family
member steers a television from a phone, and an administrator edits views,
widgets, playlists, settings and sources while all of this runs.

This directory holds TLA+ models of that program, TLC configurations that check
them on small instances, and TLAPS proofs of what must hold for every instance.
`PROJECT.json` says which lines of the source each definition stands for, which
mutated definition breaks each property, and which hazards the properties are
for.

## 1. Inventory

### The server

| component | state | operations | what makes it correct |
|---|---|---|---|
| playback cursor, `internal/rotation` `State` | items, index, override, paused; one mutex | SetItems, Current, Next, Prev, Goto, SetPaused | the index stays in range however the list changes; Goto shows what it was asked for |
| device manager, `rotation.Manager` | device → `conn`; per `conn` a cursor, a one-token `notify` channel, a `cmds` channel of 8 | Connect and its release, Command, Goto, SendClientCmd | the registry names the newest stream; no change stays unannounced |
| kiosk stream, `handleKioskStream` | device row as it was at the start, advance timer, 30 s ticker, chime timer | a select loop over advance, refresh, notify, cmds, chime | the television shows the current view; an automatic move respects a pause |
| voice clock, `internal/voiceclock` and the chime timer | beat aimed at, settings row | NextBoundary, Decide, chimeDelay | a beat per quarter, once and in order, its tone on time, also when the clocks change |
| refresh broker, `internal/broker`, and the read path of the kiosk | `widget_cache`, data-source health, `refreshing` and `lastRefresh` maps | loop, RefreshWidget, markErr, bgRefresh | the cache comes to hold what the configuration asks for; nothing is left of deleted widgets; one slow source does not stop the rest |
| bootstrap, `server.New` | settings, legacy rows | cache version, two data migrations, default settings, demo data | killed anywhere and restarted, it loses no data and no choice |
| playlist administration, `admin_playlists.go` | `playlists`, `playlist_items` | add, move, delete items; create, delete, set default; each statement by itself | a request that is alone does what its button says; two defaults or two items at one position come only from requests that mixed |
| layouts, `internal/layout`, `admin_layout.go` | one tree per view, stored as a whole | split, remove, place, weights; load, change, save | whoever edits alone sees what is stored |
| PDF documents, `admin_pdf.go` | the widget's row and one file on disk | upload, choice of a OneDrive item, serving with a cache of an hour | the file comes to be the item the row names |
| view, widget, device, source, settings administration, `internal/server/admin*.go` | their tables | forms: read, change, write | no lost update |
| OAuth, `internal/oauth`, `admin_oauth.go`, `broker.refreshOAuth` | sealed token of a source, session state | connect, callback, refresh and write back | the source keeps a token that works, and its health tells so |
| health summary, `internal/health` | none | Assess, pills of the source list | both judge a source alike |
| passphrase, sessions, device tokens, attempt limiter | sessions, token hashes, token buckets | login, pair, allow | bucket between zero and its burst |
| connectors, `internal/widget` | two package caches with a mutex | Fetch | answers become data |
| templates, themes, translations, encryption, configuration | none | pure | – |

### The page (`kiosk.js`, `yt.js`, `pdf-widget.js`, `voiceclock.js`, `layouteditor.js`)

| component | state | operations | what makes it correct |
|---|---|---|---|
| stage, `kiosk.js`, `yt.js` | the view announced, an override by hand, what the stage holds, a fallback timer, a focused widget | events, loads, refresh, manual mode, control requests | the stage shows the announced view in the end, rotation always goes on, only the medium ends a screen with a running medium |
| corner panel, `kiosk.js` | items, index, one timer handle, players, the document of the panel | rotate, skip, a new list, switch off | it never stops, never runs away, shows every item |
| slide show, `pdf-widget.js` | document, page, zoom, one drawing at a time, page timer, scroll position | load, draw, turn, step, zoom, scroll | the badge names the page shown, no page is cut short or left out |
| voice of the clock, `voiceclock.js` | a queue of sentences, booked tones, snooze | chime event, attention, sentence, pips | tones mark the beat, a snoozed television falls silent |
| life of the page, `kiosk.js`, `kiosk.templ` | the first build heard of, a guard for the night, the last heartbeat | nightly reload, reload after a new build, watchdog | it reloads when it must and only then |
| layout editor, `layouteditor.js` | the tree as drawn, a divider that is held | drag | the page agrees with the store |

### Interaction

Control handlers → manager → cursor and `notify` → stream → events → page →
`/kiosk/view/{id}` → read path of the cache → detached refresh → broker code →
database; page → `/kiosk/control` → manager.  Administration and stream share
only the database (one connection, so every statement is atomic, and no handler
opens a transaction).  Streams learn of edits by reading the playlist every 30 s.

### What is hard

Interleaving of goroutines between two critical sections or two statements
(stream against control request, refresh against refresh, request against
request); a coalescing channel; values read once and used long after (device
row, widget row, settings, token); events in order but fetches out of order;
timers that are armed anew; calls without a deadline; kills between statements
of the bootstrap; errors that are dropped; clock changes.  The `hazards` of
`PROJECT.json` list them by line.

## 2. Modules

| module | models | state and actions |
|---|---|---|
| `Rotation` | `rotation.State` | a cursor is a record, each method an operator on it, so that the stream module uses whole critical sections as steps |
| `KioskStream` | manager, streams, control handlers, playlist and device edits | `pc[c]` is where the goroutine of stream `c` stands between two accesses to shared state; callers go through lookup, change, signal, and Manager.Goto through two changes; one action per access. `edited` and `superseded` are history |
| `RemoteControl` | what a family member is promised | abstract: a cursor per television that is moved by commands, the clock and the end of a display time, and a screen that follows it. `KioskStream` implements it (`FollowsTheRemote`) |
| `KioskPage` | the stage of the page and one stream's timers | events in a queue, fetches and requests in flight counted by kind, served in any order; time in ticks |
| `CornerPanel` | the panel's rotation | fetches counted by item, the one timer a handle names and the ones no handle names; `scripts` are the media whose script has run, and a body that came before the script of its medium is `deaf` |
| `SlideShow` | one PDF widget | drawings as the list of pages still to draw, so that what is asked for meanwhile is dropped; the page timer; keys, scrolling, focus |
| `PageMedia` | composes `SlideShow` and `CornerPanel`: a show on the stage, or in the panel, where its end is the panel's next item | time passes in both at once; pdf-widget.js sets up the shows of the stage when it runs, and leaves a panel's as kiosk.js found it |
| `PageLife` | when a page loads itself again | what a script remembers starts afresh with each load |
| `VoiceClock` | NextBoundary, Decide, chime timer | minutes of absolute time, a zone with one offset change |
| `SpeakingClock` | extends `VoiceClock` with the page that plays its chimes | events on their way, sentences, booked tones; time stands for every part while something is due |
| `WidgetCache` | broker, read path, bgRefresh, markErr, edits, deletes, restart | `task[t]` is a goroutine inside RefreshWidget with the row and sources it read; a configuration is a version number, fetched data the versions it was fetched for |
| `SourceToken` | one OAuth source: its row, its connections, and every goroutine that renews its token | a token is the number of its connection and whether the provider still takes it; `once` says which kind of provider it is |
| `PlaylistAdmin` | default flag and item order | a request stands before its next statement with what it has read |
| `LayoutTree` | `internal/layout` | trees, and the buttons of the editor as functions on paths |
| `LayoutEditor` | the pages that edit one stored tree | a request carries the path of the page it came from |
| `PdfFile` | row and file of one pdf widget | uploads, choices, the form and the televisions' requests, each as its accesses to row and file; a write of the row may fail unnoticed, as its error is dropped |
| `Administration` | composes `PlaylistAdmin`, `LayoutEditor`, `PdfFile` and `SourceToken` | `desk` is the part that is worked at; the four share no table and no file |
| `Bootstrap` | `server.New` to the listener, and what an administrator does after | `pc` walks through the statements of `bootstrap`; `Crash` is possible everywhere; a statement may fail, and `ignored` records failures the code drops. Playlists are numbered as AUTOINCREMENT numbers them, any of them can be marked default, and the one shown is GetDefaultPlaylist's. While the program serves, the administrator saves widgets and settings, makes and deletes views, and deletes, makes and chooses playlists |
| `Ordered` | | the order in which a query with ORDER BY returns a finite set of rows, as the one enumeration that respects the order |
| `KioskStreamProofs`, `KioskPageProofs`, `WidgetCacheProofs`, `VoiceClockProofs`, `AdministrationProofs`, `PageMediaProofs`, `BootstrapProofs` | | theorems |
| `OrderFacts` | | lemmas three of them share: least elements, and what an enumeration of `Ordered` does when a row is added, removed or moved |
| `MC*` | | values for the constants, symmetry |

`KioskStream` extends `Rotation`, `SpeakingClock` extends `VoiceClock`,
`LayoutEditor` extends `LayoutTree`, `Administration` its four parts;
`PageMedia` instantiates its parts, `KioskStream` instantiates `RemoteControl`
under a refinement mapping.  Definitions headed
"Mutant" are plausible mistakes in the definition that follows them; no
specification uses them.

## 3. Runs

| run | instance | shows |
|---|---|---|
| `stream_fleet` | one device, two connections that supersede one another, one caller, two commands, a playlist of two with a clock view, client channel of one | registry exact, no lost wakeup, no automatic move over a pause that was noticed |
| `stream_solo` | one connection, contents empty, one view, two; one edit, two commands; fair | cursor in range; a stream ends or catches up again and again; all of it implements `RemoteControl` |
| `cache_live` | one widget, two televisions and the loop, one edit or deletion, one restart; fair | no orphan row, the refresh flag is exact also when both televisions ask at once, the cache converges to the last configuration and stays there |
| `cache_stall` | one widget with a token; fair | refutes that a slow source cannot stall the broker |
| `page_live` | two views, one that advances on its end and may come out with or without a video, two viewer's actions, one reconnect; fair | rotation goes on, a stale stage is repaired, the fallback timer fits the stage |
| `page_stuck` | display time longer than the refresh period, instant network | refutes that the fallback fires after the display time |
| `page_media` | a show of two pages driven by three keys, or a panel whose list is empty, or one of the lists of a card, that show and a video; scripts that run late, three disturbances, slow and failing fetches and drawings; fair | the badge is true, no page is cut short or left out; the panel never runs away, shows every item, and stands still only on a body that came before its script, a document that cannot be loaded or a video that hangs |
| `page_nightly` | days of four ticks, two builds, a watchdog | refutes that the nightly reload happens once per night |
| `voice_spring` | the night the clock is put forward, four settings, timers up to 18 min late, three disturbances (saves, lost streams, snoozes) | beats follow the quarters, once and in order; tones not early; the marking tone on its beat; snooze silences, the later the more sentences were waiting |
| `voice_autumn` | the night the clock is set back in Brussels | refutes that NextBoundary finds the next quarter |
| `boot_restarts` | two builds, two video widgets sharing a source, two playlists, two kills, one failing statement, an administrator in between who works on widgets and settings or on views and playlists | rows of another build are never served, URLs and the chosen sound are kept, there is a view to start with; seeded views are whole and in the default playlist until they are taken out, or hidden by a default that seeding found, unless seeding was cut |
| `administration` | two requests on a playlist of three items, three clicks; two pages on one layout of up to three panes; an upload, two OneDrive items, two televisions, two choices and a form, row writes that fail; the broker and one request renewing a token, two connections, two mishaps; fair | a request alone does what was asked, a lone editor sees what is stored, the document follows its row, the token lives and health tells |

### Why the bounds are enough

Two streams are what one registry entry can mix up; a third only repeats the
second.  Two goroutines give every pair of overlapping refreshes, among them old
over new and markErr over a good result; in `cache_live` the second television asks
only until the first edit or restart (`Bounded` in `MCWidgetCache`), which is
enough for its refresh to meet the flag of the first one, and to land late.  One edit makes a difference between
old and new; a second one after the cache settled starts from the same
situation.  A channel of one is full after one command, and the code treats a
channel of eight the same way.  In `page_live` one load of each view in flight
and a queue of two are enough for answers and events to cross; several
outstanding fetches of one view are not explored.  In `page_media` a show of two
pages has a first, a last and a turn in both directions, a drawing of the other
page can be dropped, and two fetches of the panel overlap; three disturbances
are a change of list between two skips.  A tick that passes before the last script has run
counts as a delay, like one during a fetch; one is enough for an answer to come
before its script, and for a timer to run out before it.  In `boot_restarts` two kills allow one
in the first start and one after the administrator's choice, before a third
start; one failing statement is enough to show what each dropped error does,
combinations are not explored.  No statement reads or writes both what belongs to
widgets and settings and what belongs to views and playlists, so that the
administrator of one behaviour works on either (`busy` in `MCBootstrap`; in the
second case no URL is left to be migrated).  Two playlists are an old default and a
seeded one, or a seeded one and one of the administrator's own; seedDemo goes beyond
that bound, as often as restarts allow.  In `administration` two requests are what one
statement-by-statement handler can be mixed with, three items have a middle one,
three panes a split inside a split; a third renewal was tried and changes
nothing (proved, too, for any number).  The proofs below hold without these
bounds.

### Fairness

- Streams and callers: weak fairness of their goroutines (the Go scheduler), and
  strong fairness of each select case, since `select` picks at random among the
  ready cases.
- Refreshes: weak fairness of goroutines except where they wait for a token
  endpoint, whose client has no deadline; other fetches end because
  `widget.httpClient` has a timeout.  Strong fairness of a successful read and fetch says
  that a source answers now and then; without it no cache could converge.
  Tickers and expiry come by the passing of time.
- Page: timers fire, requests and fetches end, a view that is asked for again
  and again is delivered some time, a page that is drawn again and again is drawn
  some time, a script that is still to load runs.  Media need not end, and a control request may be lost:
  `RotationGoesOn` rests on the server's cap, and `PanelGoesRound` excepts a
  panel that has come to a video that hangs, to a document that cannot be loaded, or to
  a body that came before the script of its medium.
- Documents: handlers go on, hours pass, televisions come back, a fetch tried
  again and again succeeds some time.  Nobody uploads.
- Tokens: handlers go on, and an access token that is asked for again and again
  expires some time.  The token endpoint is assumed to answer here; `cache_stall`
  shows what follows when it does not.
- A person is never assumed to act.

### Refuted statements

Four runs refute what a comment says; `findings` quotes them.  In short: an OAuth
refresh without a deadline stops the broker's loop; the fallback of an
advance-on-end screen never fires when the display time is longer than 30 s; the
guard of the nightly reload dies with the page it reloads, so that the page loads
itself again and again from 04:00 to 05:00; in the hour that comes twice
NextBoundary jumps an hour.

### Seen while modelling and stated by no run

Streams and devices.  A stream keeps the device row it started with, so a new
assignment shows after the next reconnect.  `Manager.Goto` pauses and moves
separately, and a move in between pauses another view.  A reconnect loses
position and pause, and the page's own idea of paused (`kiosk.js:521`) does not
notice.  A playlist edit moves a paused television.  When the newer of two
streams of a device ends first, the older one runs on unregistered, out of the
remote control's reach (`rotation.go:150`).

Page.  On a playlist of a single view a medium that ended is never started
again.  A document on the stage that failed to load is never loaded again, since
the refresh leaves screens with slides alone; in the panel it stops the rotation
for ever.  So does an answer that comes before the script of its medium:
`pipRotate` finds no `fpSetupPdfs` or `fpVideosIn` to give its callback to
(`kiosk.js:366`), and for an item that shows until its end it sets no timer
either; yt.js comes after kiosk.js, and pdf-widget.js is a deferred module
(`kiosk.templ:86`).  Only a skip by hand or a changed list moves such a panel
on.  The panel's timer handle is overwritten when two of its answers overlap,
which leaves a timer that cannot be cleared.  In document mode a zoom that is
clicked during a drawing is dropped; pressing "next page" twice during a drawing
skips a page; a page that scrolls by itself can be turned before its end was
seen, after a slow drawing, a zoom or a focus.  A chime that began before a
snooze goes on.  A watchdog that reloads while the server is down leaves the
browser's error page.

Voice clock.  In zones west of Greenwich the repeated hour sends NextBoundary
backwards, and the chime timer fires without a pause until the hour is over.  A
stream that reconnects between the tone and its beat announces the beat again.

Bootstrap.  A kill after the first statement of seedDemo leaves an installation
without a default playlist until the administrator makes one.  When every view has been deleted, the next start
seeds the demo views anew, in another playlist that is marked default; a default
playlist that was there keeps the lower id and stays the one shown, empty as it is,
and the new views are not seen.  A failed write of a migrated URL loses the
URL, because its source is deleted all the same; a failed write of the half-chime
flag makes the next start override the administrator's choice
(`MigrationKeepsURLs` and `ManualSoundIsKept` except exactly these failures, and
are violated without the exception).

Administration.  Items that came to one position cannot be exchanged by "up" and
"down".  A "make default" that is cut leaves no default, one that is overlapped
leaves two, and deleting the default leaves none.  Two layout edits that
overlap lose one; a divider dropped after its canvas was replaced posts the
weights and the path of the old one, and weights are saved without a Validate.
Saving the form of a pdf widget drops the file's name and the OneDrive item
(`admin.go:139`), so the widget stops following OneDrive; an upload on a widget
that follows OneDrive keeps the item and is replaced after an hour; the late
removal of a file by a OneDrive choice can delete a document just uploaded; a fetch of
the item chosen before can land after a choice and is served for up to an hour.  The errors of
`UpdateWidget` are dropped (`admin_pdf.go:84`, `admin_pdf.go:244`): an upload whose
row could not be written has replaced the file all the same, and a choice that could
not be written has dropped it.

Tokens.  A renewal of an earlier connection can write over a later one, and the
source silently stays with the old account.  A renewal that lost to another
records "reconnect" for a source that works, and again as long as renewals
overlap.  A write that fails or is killed loses the connection when the provider
takes a refresh token once (`TokenLives` excepts exactly that and a withdrawal).

## 4. Proofs

| theorem | property |
|---|---|
| `KioskStreamProofs!GotoShowsTheView`, `PrevUndoesNext` | a Goto shows the view asked for, in the list or as an override; Next and Prev undo one another, also across the ends of the list |
| `KioskStreamProofs!TypeCorrect`, `CursorInRange`, `RegistryCorrect`, `NoWakeupIsLost`, `PauseIsRespected` | `TypeOK`, `IndexInRange`, `RegistryExact`, `NoLostWakeup`, `AutomaticMoveSawUnpaused` for any number of devices, connections, callers, playlists and any channel capacity |
| `KioskStreamProofs!StreamsFollowTheRemote` | `FollowsTheRemote`: every step of `KioskStream` is a step of `RemoteControl` or a stutter |
| `KioskPageProofs!TypeCorrect`, `FallbackIsFitting` | `TypeOK`, `FallbackFitsStage` for any playlist, display times and any number of loads and events |
| `KioskPageProofs!PageFollowsTheStream`, `TimerAlwaysRuns` | a page that has handled what was sent is at the cursor's view and counts down unless paused; the stream's advance timer is always set, to at most the view's time or cap |
| `WidgetCacheProofs!TypeCorrect`, `NoRowIsOrphaned`, `RefreshesAreDeduplicated` | `TypeOK`, `NoOrphanRows`, `RefreshingExact` for any number of widgets, goroutines, edits and restarts |
| `WidgetCacheProofs!SettledRowsStay` | a widget whose cached data is current stays so until the next edit or restart, once no refresh under way holds anything older |
| `VoiceClockProofs!NextBoundaryIsNextQuarter`, `NextBoundaryGoesForward` | NextBoundary where the clock is not set back, and what is left of it in the night it is set back east of Greenwich |
| `VoiceClockProofs!TypeCorrect`, `TonesLandInTime`, `BeatsInOrder`, `EachBeatIsSentOnce` | `TypeOK` of the timer, `ToneNotEarly`, `BeatsFollowQuarters`, `EachBeatOnce` |
| `VoiceClockProofs!KeepsTheTimer`, `TonesAreOnTheBeat`, `SnoozedIsSilent` | `SpeakingClock` implements `VoiceClock`; `TonesMarkTheBeat`, `SnoozeSilences` for every delay, every length of a sentence and any number of disturbances |
| `AdministrationProofs!AdministrationIsTyped` | `TypeOK` for any number of items, requests, panes, pages, uploads and renewals |
| `AdministrationProofs!AloneDoesAsAsked`, `TheLayoutIsAsDrawn`, `TheTokenLives` | `AloneAsAsked` for any playlist, `LayoutAsDrawn` for any layout and any number of pages, `TokenLives` for any number of renewals, connections and mishaps |
| `PageMediaProofs!TypesOfMedia`, `BadgeTellsTheTruth`, `TimerIsFair` | `TypeOK`, `LabelTrue`, `TurnsAreDue` for any document, interval and keys, drawings that take less than an interval |
| `PageMediaProofs!PanelGoesOn`, `RotationIsBounded` | `PanelAlive`, `NoRunawayRotation` for any item lists, display times, delays and disturbances, whenever the scripts run; a deaf body is the exception `PanelAlive` names |
| `PageMediaProofs!ShowPlaysAsAlone`, `PanelTurnsAsAlone` | `PageMedia` implements `SlideShow` and `CornerPanel`: the two that call one another do nothing that they do not do alone |
| `BootstrapProofs!TypeCorrect`, `CacheIsOfThisBuild`, `URLsAreKept`, `SoundIsKept`, `StartsWithAView`, `SeededViewsAreWhole` | `TypeOK`, `ServedRowsAreOfThisBuild`, `MigrationKeepsURLs`, `ManualSoundIsKept`, `ServesAView`, `SeededViewsArePlayed` for any number of builds, widgets, sources, kills and failures |

The arguments:

- *Cursor.* Each operator of `Rotation` takes a cursor in range to one in range;
  `CursorInRange` cites one lemma per operator.
- *Registry.* `RegistryExact` is inductive with `TypeOK`: Connect supersedes
  whatever is registered, Release removes only its own entry.
- *No lost wakeup.* Not inductive: it says nothing of a stream that is between
  reading the view and going back to select.  `WakeupInv` adds, for every place
  in the loop, how far the screen agrees with the cursor (`ScreenAgrees`) once
  no token, no caller about to signal and no edit is outstanding.
  `NoLostWakeup` and `AutomaticMoveSawUnpaused` are its instances.
- *Refinement.* The mapping takes a running stream's cursor and the view sent last; one
  lemma per action says which abstract action it is, and most are stutters,
  since what a goroutine holds between two accesses is nobody else's business.
- *Stage.* `FallbackFitsStage` is inductive with `TypeOK`: every way to set the
  stage also sets or clears the fallback timer.
- *What the page knows.* `PageHearsServer` speaks of an empty connection only.
  `HearInv` follows the last announcement through it: both halves are still on
  their way, or the second is the next event, or both have been handled, and behind
  it there are refreshes only.  `NoViewOverstays` is inductive as it stands.  With
  them the safety halves of `RotationGoesOn` and `StageRepaired` are proved: the
  server's timer runs, and the page knows the cursor's view once it is told.  (No run
  checks these two; TLC found them true on the instance of `page_live` with room for
  three events in the connection.)
- *Cache.* `TypeInv` adds to `TypeOK` that no version exceeds the number of
  edits (`VersionInv`), where each kind of goroutine may stand (`Legal`) and
  that the loop's own kind never changes.  A row is written only where its widget exists
  (foreign keys), and deleted with it.  The flag of bgRefresh is set by the goroutine that
  clears it, on every path including failure.
- *What is current stays so.* `CacheConverges` says that the cache gets there and
  stays; the second half is safety.  `UpToDate` says of a goroutine that it will
  write nothing outdated to a widget's row, wherever it stands; `Settled` is that
  of all goroutines and of the row, and `SettledStays` that every step keeps it which
  does not edit the widget or restart the process.  So a late, failed, cut-off or
  overlapping refresh does harm only while an older one is still under way.  (No run
  checks it; TLC found no counterexample in 20 million states with two widgets and
  two requests.)
- *Voice clock.* `LocalQuarters` and `DateOfQuarter` reduce a wall-clock quarter
  to an absolute one; `ToneInv` says when the timer was set and for which lead;
  `OrderInv` that the beat aimed at lies after the one sent.
- *Voice of the page.* `PageInv` carries what a tone is entitled to from the
  event through the sentence to the booking: a tone that was not early when it
  was booked is not early when it sounds.
- *Snooze.* `SnoozeSilences` is not inductive, and its bound grows with the
  sentences that were waiting when the clock was snoozed (`begun`): they are spoken
  one after the other, and their pips follow.  The `Near` invariants bound what a
  page that is not snoozed can have before it; `FadingQueue` says that the sentence
  at the head, the ones behind it and the ones that still wait fit into the time
  that is left, `FadingWaiting`, `FadingSpeech` and `FadingTones` that everything
  else has come nearer by the time that went by.
- *The night the clock is set back.* A wall-clock time that is shown twice has two
  instants; with the second one NextBoundary still goes forward
  (`NextBoundaryGoesForward`), which is all that `EachBeatIsSentOnce` needs.
- *Playlists.* `AloneAsAsked` speaks of the moment of the answer.  `AloneKnows` says
  at every statement what a request that is alone has read and is about to write; a
  move stands between its two updates with the list half exchanged
  (`HalfExchanged`).  `AloneIsAlone` ties the mark of a request to what is under
  way, `TiesComeFromMixing` allows two items at one position only to that half or to
  requests that mixed, `OneDefault` is the same for the default flag.  What a button
  does to the row of items follows from `OrderFacts`: whatever goes upwards through
  a finite set is its order, so that a row changed by hand can be shown to be the
  order of the changed set.
- *Layout.* Every tree that can come about is `Binary`: each split has exactly two
  children.  So what a page asks with a path of a tree that is long gone never makes
  a tree that Validate refuses, and the branch of Remove for splits of three is never
  taken; both are in the model as they are in the code.  That the leaves are in
  reading order, and what a split, a removal or a choice does to their row, are
  lemmas for trees of any depth (`SplitLeafKeeps`, `RemovePaneShows`,
  `SetWidgetKeeps`).  `FreshShows`, `FreshAlone` and `FreshKnows` say what a page
  nobody disturbed may rely on at each step of its request.
- *Documents.* `PdfInv` adds to the types that a request under way is for some item.
- *The four desks.* `AdministrationInv` is the conjunction; where one desk is worked
  at, the others stutter.
- *Token.* `TokenLives` is not inductive: a write could bring back a dead token.
  `WritersHoldLive` says that it cannot, `OneSuccessor` that with a once-only
  provider a renewal that is about to write is the only one left of its
  connection (so that nobody's renewal makes its token useless), `CallbackIsNew`
  that a new connection is not the one any copy in the program belongs to.
- *Slide show.* `Shown` ties badge, current page, sheet and drawing together: a
  page that is current without a drawing lost since is on the sheet or its
  drawing is as old as its time (`age >= since`).  A drawing ends within the
  interval, so a page whose time is over (`Timed`) was seen.
- *Corner panel.* `PanelAlive` needs that an empty panel has no body (`Bare`) and that
  a slide show with a callback is timed from the moment it is loaded (`Awaited`).  For
  `NoRunawayRotation` every step that is no disturbance is shown to give up one
  mover for at most one other (`Traded`); a tick shifts the strays, which a surjection
  of movers onto movers shows to add none (`TickMoves`).
- *Bootstrap.* Each property speaks of the time when the program serves; its
  invariant says what holds at every statement and while the program is down.
  `CacheInv`: rows have the shape of the *stored* version, which is this build's
  once the check is over.  `URLInv`: a widget without a URL is wanted to have
  the one its sources still give, and sources go only when no widget depends on
  them.  `SoundInv`: nobody has chosen a sound while the flag is not set.
  `SeedInv`: every statement of seedDemo before the next one has been done, and a
  demo view the administrator has not taken out has its item in the playlist made
  last (`Listed`), which is a default; whatever other default there is was found by
  seedDemo.  So the playlist shown is that one, or one that was found.  `TypeInv`
  says where in seedDemo the playlist has been made and can take items.

Assumptions: `QuarterZones` (offsets and changes on quarters of an hour, true of
the zones in use), `Before <= After` for `NextBoundaryIsNextQuarter`
and `BeatsInOrder` (`voice_autumn` shows what happens otherwise), `Before <= After`
or `Second` for `NextBoundaryGoesForward` and `EachBeatIsSentOnce` (west of Greenwich
the repeated hour sends NextBoundary backwards), and the named assumptions on constants, which TLC evaluates on every
run.

Only model-checked: all liveness (`StreamsCatchUp`, `CacheConverges`,
`RotationGoesOn`, `StageRepaired`, `PagesComeRound`, `PanelGoesRound`,
`PdfFollowsRow`, `HealthTells`), since neither fairness nor ENABLED is in reach
of the prover.  Every invariant and every action property of the passing runs,
and the refinement of `RemoteControl`, is proved.

## 5. Plan

What would come next, in this order:

1. *The page beside the cursor*: the page's idea of paused together with
   `KioskStream`, once a text says what it should be after a reconnect.
2. *Algorithms*: calendar agenda and recurrence, the attempt limiter's bucket, the
   status pills beside the health summary, each against a reference definition
   over small inputs.

## 6. Not modelled

Connectors (parsing and I/O; in `WidgetCache` they are a fetch that succeeds,
fails or does not answer), the health summary and the status pills (pure
functions of rows), templates, themes and translations (rendering without
state), encryption, session storage and the attempt limiter (library calls, and
a bucket behind one mutex), schema migrations (each file is one transaction
before the program starts), generated query code (the models use the queries),
the drawing of clock faces, banner and transitions, the spoken
text and the synthesis of sounds, pairing (one request writes a row and a
cookie), and the shutdown, which waits up to 10 s for requests while the event
streams end only with their clients.  While the program serves, statements are
assumed to succeed in `Bootstrap`, but for the one after ClearDefaultPlaylists;
the administrator there adds no items, edits no layouts and deletes no widgets,
which change views and playlists only by that person's own hand, and playlists
that never were a default are left out.  In `PdfFile` a write of the row can
fail unnoticed; in `WidgetCache` a write fails only by foreign
key or because its row is gone; in `PlaylistAdmin` and `LayoutEditor` they fail
when the client has left, and then all that follow do.  htmx lets the requests of
one element wait for one another, which `PlaylistAdmin` and `LayoutEditor` leave
out: they allow more overlap than one browser would.
