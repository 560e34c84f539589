------------------------------ MODULE Bootstrap ------------------------------
(***************************************************************************)
(* What the program does to its database before it serves: server.New      *)
(* calls Server.bootstrap, which drops cache rows of another build's       *)
(* shape, moves the URLs of the retired "video" sources into the widgets,  *)
(* changes the half-hour sound once, fills in settings and seeds the demo  *)
(* views when there is no view.  No statement is in a transaction with     *)
(* another: the process can be killed between any two of them, and a       *)
(* statement can fail (a full disk).  Some errors end the process, most    *)
(* are ignored.  The container is restarted, possibly with another build.  *)
(*                                                                         *)
(* Bootstrap runs alone, before the listener and the broker start, so a    *)
(* read and the write that follows it are one action here: a crash between *)
(* them leaves the database as a crash before them does.                   *)
(***************************************************************************)
EXTENDS Naturals, FiniteSets, Sequences

CONSTANTS
  Builds,       \* values of cacheSchemaVersion, one per build of the program
  Widgets,      \* the widgets of type "video" of an older installation
  Sources,      \* its data sources of type "video"
  Blank,        \* those of them whose configuration has no URL
  Links,        \* Links[w]: the sources linked to w, ordered by position
  MaxPlaylists, \* bound: the administrator makes no playlist after this many
  MaxCrashes,   \* bound: how often the process is killed
  MaxFailures   \* bound: how many statements fail

ASSUME LegacyAssumption ==
  /\ Blank \subseteq Sources
  /\ Links \in [Widgets -> Seq(Sources)]
ASSUME BoundsAssumption ==
  MaxPlaylists \in Nat /\ MaxCrashes \in Nat /\ MaxFailures \in Nat
ASSUME NamesAssumption ==
  "none" \notin Builds /\ {"none", "own"} \cap Sources = {}

(* The sound the migration sets, and one for all others; "none" is no setting. *)
Sounds == {"bong", "bing"}
Keys == {"passphrase_hash", "default_theme"}

(* The statements of seedDemo, each named for what it writes.  A row stands *)
(* for its copies; the playlist and its items are stored by the list's id.  *)
Seed == << "demo", "countdown", "clock", "demo.countdown", "demo.clock",
           "aftellen", "aftellen.countdown", "demo.layout", "aftellen.layout",
           "playlist", "demo.item", "aftellen.item" >>
SeedItems == {"demo.item", "aftellen.item"}
SeedRows == {Seed[i] : i \in 1..Len(Seed)} \ ({"playlist"} \cup SeedItems)
Demos == {"demo", "aftellen"}
Views == Demos \cup {"own"}

(* Rows that go with a view when it is deleted, by foreign key. *)
Cascade(v) == CASE v = "demo" -> {"demo", "demo.countdown", "demo.clock",
                                  "demo.layout"}
                [] v = "aftellen" -> {"aftellen", "aftellen.countdown",
                                      "aftellen.layout"}
                [] OTHER -> {v}

(* Statements whose error bootstrap logs or drops, and goes on. *)
Tolerated == {"version", "clear", "stamp", "list", "links", "move", "retire",
              "lookup", "half", "flag", "settings", "layout"}

VARIABLES
  pc,        \* where bootstrap is; "serving" after it, "down" without process
  build,     \* the build that runs
  todo,      \* rows the current loop has still to visit
  k,         \* the next statement of seedDemo
  schema,    \* setting cache_schema_version
  cache,     \* cache[w]: the build whose shape w's row has
  url,       \* url[w]: the URL in w's own configuration (a source's, or "own")
  sources,   \* the data sources of type "video" that are stored
  half,      \* the half-hour sound in setting voiceclock
  flag,      \* setting half_chime_migrated
  settings,  \* which of Keys are stored
  rows,      \* rows of seedDemo, and other views
  lists,     \* the playlists that are or were a default, by id
  defaults,  \* those of them with is_default = 1
  items,     \* <<p, v>>: the demo view v has an item in playlist p
  made,      \* AUTOINCREMENT: the last id of a playlist
  wanted,    \* history: wanted[w]: the URL w should play
  chosen,    \* history: the half-hour sound an administrator last saved
  cut,       \* history: the last seedDemo ended after its first row, before its last
  older,     \* history: the default playlists that seedDemo found
  unlisted,  \* history: demo views the administrator took out of the default list
  ignored,   \* history: statements that failed and were ignored
  failures, crashes

process == <<pc, build, todo, k>>
legacy == <<url, sources>>
chime == <<half, flag>>
playlists == <<lists, defaults, items, made, older, unlisted>>
demos == <<rows, playlists>>
history == <<wanted, chosen, cut>>
faults == <<ignored, failures, crashes>>
vars == <<process, schema, cache, legacy, chime, settings, demos, history, faults>>

-----------------------------------------------------------------------------

(* The URL migrateVideoWidgets finds for w: the first linked one. *)
LinkedURL(w, stored) ==
  LET filled == {i \in DOMAIN Links[w] : Links[w][i] \in stored \ Blank}
      first  == CHOOSE i \in filled : \A j \in filled : i <= j
  IN IF filled = {} THEN "none" ELSE Links[w][first]

(* A new installation (its widgets are still to be made, each with a URL of *)
(* its own), or one of an older build that is now upgraded.                 *)
Init ==
  /\ pc = "down" /\ todo = {} /\ k = 1 /\ build \in Builds
  /\ flag = FALSE /\ chosen = "none" /\ cut = FALSE
  /\ ignored = {} /\ failures = 0 /\ crashes = 0
  /\ \/ /\ schema = "none" /\ half = "none" /\ settings = {} /\ rows = {}
        /\ made = 0
        /\ cache = [w \in Widgets |-> "none"]
        /\ url = [w \in Widgets |-> "own"] /\ sources = {}
        /\ wanted = url
     \/ /\ schema = build /\ half \in Sounds /\ settings = Keys /\ rows = {"own"}
        /\ made = 1
        /\ cache = [w \in Widgets |-> build]
        /\ url \in [Widgets -> {"none", "own"}] /\ sources = Sources
        /\ wanted = [w \in Widgets |-> IF url[w] = "own" THEN "own"
                                       ELSE LinkedURL(w, Sources)]
  /\ lists = 1..made /\ defaults = lists /\ items = {} /\ older = {} /\ unlisted = {}

(* The next statement fails, and bootstrap goes on without it. *)
Ignore(statement) ==
  /\ failures < MaxFailures
  /\ failures' = failures + 1 /\ ignored' = ignored \cup {statement}
  /\ UNCHANGED crashes

SeedIsCut == cut \/ (pc = "seed" /\ k > 1)

(* The next statement fails, New returns the error and the process exits. *)
Exit ==
  /\ failures < MaxFailures
  /\ failures' = failures + 1 /\ UNCHANGED <<ignored, crashes>>
  /\ pc' = "down" /\ cut' = SeedIsCut
  /\ UNCHANGED <<build, todo, k, schema, cache, legacy, chime, settings, demos,
                 wanted, chosen>>

(* The process is killed. *)
Crash ==
  /\ pc # "down" /\ crashes < MaxCrashes
  /\ crashes' = crashes + 1 /\ UNCHANGED <<ignored, failures>>
  /\ pc' = "down" /\ cut' = SeedIsCut
  /\ UNCHANGED <<build, todo, k, schema, cache, legacy, chime, settings, demos,
                 wanted, chosen>>

(* The container comes up, perhaps with a new image. *)
Start ==
  /\ pc = "down" /\ pc' = "version" /\ build' \in Builds
  /\ UNCHANGED <<todo, k, schema, cache, legacy, chime, settings, demos, history,
                 faults>>

-----------------------------------------------------------------------------

\* Mutant: a version that is stored is taken for this build's.
CheckVersionOnce ==
  /\ pc = "version"
  /\ \/ schema # "none" /\ pc' = "list" /\ UNCHANGED cache
     \/ /\ schema = "none" /\ pc' = "stamp"
        /\ cache' = [w \in Widgets |-> "none"]
  /\ UNCHANGED <<build, todo, k, schema, legacy, chime, settings, demos, history,
                 faults>>

(* invalidateStaleCache: nothing to do for the same build; else the rows go *)
(* and then the version is written.  A failed lookup counts as another      *)
(* version, a failed clear leaves everything to the next start.             *)
CheckVersion ==
  /\ pc = "version"
  /\ \/ schema = build /\ pc' = "list" /\ UNCHANGED <<cache, faults>>
     \/ /\ schema # build /\ UNCHANGED faults
        /\ cache' = [w \in Widgets |-> "none"] /\ pc' = "stamp"
     \/ /\ Ignore("version")
        /\ cache' = [w \in Widgets |-> "none"] /\ pc' = "stamp"
     \/ /\ schema # build /\ Ignore("clear")
        /\ pc' = "list" /\ UNCHANGED cache
  /\ UNCHANGED <<build, todo, k, schema, legacy, chime, settings, demos, history>>

StampVersion ==
  /\ pc = "stamp" /\ pc' = "list"
  /\ \/ schema' = build /\ UNCHANGED faults
     \/ Ignore("stamp") /\ UNCHANGED schema
  /\ UNCHANGED <<build, todo, k, cache, legacy, chime, settings, demos, history>>

(* migrateVideoWidgets: when the widgets cannot be listed nothing is moved  *)
(* and nothing retired.                                                     *)
ListWidgets ==
  /\ pc = "list"
  /\ \/ pc' = "move" /\ todo' = Widgets /\ UNCHANGED faults
     \/ Ignore("list") /\ pc' = "half" /\ UNCHANGED todo
  /\ UNCHANGED <<build, k, schema, cache, legacy, chime, settings, demos, history>>

\* Mutant: a widget's own URL is not looked at before the source's is moved in.
MoveURLAnyway(w) ==
  /\ pc = "move" /\ w \in todo /\ todo' = todo \ {w}
  /\ url' = [url EXCEPT ![w] = IF LinkedURL(w, sources) # "none"
                               THEN LinkedURL(w, sources) ELSE @]
  /\ UNCHANGED <<pc, build, k, schema, cache, sources, chime, settings, demos,
                 history, faults>>

(* One widget of the loop: one with a URL is passed over, another gets the *)
(* first URL linked to it, if any.  Failing to read the links looks like   *)
(* having none.                                                            *)
MoveURL(w) ==
  /\ pc = "move" /\ w \in todo /\ todo' = todo \ {w}
  /\ \/ url[w] # "none" /\ UNCHANGED <<url, faults>>
     \/ /\ url[w] = "none" /\ UNCHANGED faults
        /\ url' = [url EXCEPT ![w] = LinkedURL(w, sources)]
     \/ url[w] = "none" /\ Ignore("links") /\ UNCHANGED url
     \/ /\ url[w] = "none" /\ LinkedURL(w, sources) # "none"
        /\ Ignore("move") /\ UNCHANGED url
  /\ UNCHANGED <<pc, build, k, schema, cache, sources, chime, settings, demos,
                 history>>

ListSources ==
  /\ pc = "move" /\ todo = {}
  /\ \/ pc' = "retire" /\ todo' = sources /\ UNCHANGED faults
     \/ Ignore("list") /\ pc' = "half" /\ UNCHANGED todo
  /\ UNCHANGED <<build, k, schema, cache, legacy, chime, settings, demos, history>>

(* Deletes one retired source, and with it the links to it. *)
RetireSource(s) ==
  /\ pc = "retire" /\ s \in todo /\ todo' = todo \ {s}
  /\ \/ sources' = sources \ {s} /\ UNCHANGED faults
     \/ Ignore("retire") /\ UNCHANGED sources
  /\ UNCHANGED <<pc, build, k, schema, cache, url, chime, settings, demos, history>>

SourcesRetired ==
  /\ pc = "retire" /\ todo = {} /\ pc' = "half"
  /\ UNCHANGED <<build, todo, k, schema, cache, legacy, chime, settings, demos,
                 history, faults>>

\* Mutant: the flag is not looked at.
MigrateHalfChimeAgain ==
  /\ pc = "half" /\ pc' = "flag"
  /\ half' = IF half = "none" THEN "none" ELSE "bong"
  /\ UNCHANGED <<build, todo, k, schema, cache, legacy, flag, settings, demos,
                 history, faults>>

(* migrateHalfChime, up to its flag: skipped when the flag is there or      *)
(* cannot be read; a sound that is stored becomes "bong" if it can be read  *)
(* and written.                                                             *)
MigrateHalfChime ==
  /\ pc = "half"
  /\ \/ flag /\ pc' = "settings" /\ UNCHANGED <<half, faults>>
     \/ Ignore("lookup") /\ pc' = "settings" /\ UNCHANGED half
     \/ /\ ~flag /\ pc' = "flag" /\ UNCHANGED faults
        /\ half' = IF half = "none" THEN "none" ELSE "bong"
     \/ ~flag /\ Ignore("half") /\ pc' = "flag" /\ UNCHANGED half
  /\ UNCHANGED <<build, todo, k, schema, cache, legacy, flag, settings, demos,
                 history>>

SetHalfFlag ==
  /\ pc = "flag" /\ pc' = "settings"
  /\ \/ flag' = TRUE /\ UNCHANGED faults
     \/ Ignore("flag") /\ UNCHANGED flag
  /\ UNCHANGED <<build, todo, k, schema, cache, legacy, half, settings, demos,
                 history>>

(* The passphrase, if the environment gives one, and then the theme: each   *)
(* is written only where no row is.  A failed write ends the process, and a *)
(* row that cannot be looked up is left as it is.                           *)
SeedSettings ==
  /\ pc = "settings"
  /\ \/ /\ "passphrase_hash" \notin settings
        /\ settings' = settings \cup {"passphrase_hash"} /\ UNCHANGED <<pc, faults>>
     \/ /\ settings' = settings \cup {"default_theme"} /\ pc' = "count"
        /\ UNCHANGED faults
     \/ Ignore("settings") /\ pc' = "count" /\ UNCHANGED settings
  /\ UNCHANGED <<build, todo, k, schema, cache, legacy, chime, demos, history>>

\* Mutant: playlists are counted in place of views.
CountPlaylists ==
  /\ pc = "count"
  /\ \/ lists # {} /\ pc' = "serving" /\ UNCHANGED <<k, cut>>
     \/ lists = {} /\ pc' = "seed" /\ k' = 1 /\ cut' = FALSE
  /\ UNCHANGED <<build, todo, schema, cache, legacy, chime, settings, demos, wanted,
                 chosen, faults>>

CountViews ==
  /\ pc = "count"
  /\ \/ rows \cap Views # {} /\ pc' = "serving" /\ UNCHANGED <<k, cut>>
     \/ rows \cap Views = {} /\ pc' = "seed" /\ k' = 1 /\ cut' = FALSE
  /\ UNCHANGED <<build, todo, schema, cache, legacy, chime, settings, demos, wanted,
                 chosen, faults>>

(* What one statement of seedDemo writes.  The playlist it makes is another *)
(* one, with is_default = 1, whether or not there is a default playlist.    *)
IsLayout(row) == row \in {"demo.layout", "aftellen.layout"}
InsertRow ==
  /\ Seed[k] \in SeedRows
  /\ rows' = rows \cup {Seed[k]} /\ UNCHANGED playlists

\* Mutant: the playlist is seeded without is_default.
CreatePlaylistAside ==
  /\ Seed[k] = "playlist" /\ made' = made + 1
  /\ lists' = lists \cup {made'} /\ UNCHANGED defaults
  /\ older' = defaults /\ unlisted' = {} /\ UNCHANGED <<rows, items>>

CreatePlaylist ==
  /\ Seed[k] = "playlist" /\ made' = made + 1
  /\ lists' = lists \cup {made'} /\ defaults' = defaults \cup {made'}
  /\ older' = defaults /\ unlisted' = {} /\ UNCHANGED <<rows, items>>

AddPlaylistItem ==
  /\ Seed[k] \in SeedItems
  /\ items' = items \cup {<<made, IF Seed[k] = "demo.item" THEN "demo" ELSE "aftellen">>}
  /\ UNCHANGED <<rows, lists, defaults, made, older, unlisted>>

(* One statement of seedDemo; only the two layouts may fail unnoticed. *)
SeedDemo ==
  /\ pc = "seed"
  /\ \/ (InsertRow \/ CreatePlaylist \/ AddPlaylistItem) /\ UNCHANGED faults
     \/ IsLayout(Seed[k]) /\ Ignore("layout") /\ UNCHANGED demos
  /\ IF k = Len(Seed) THEN pc' = "serving" /\ UNCHANGED k
                      ELSE k' = k + 1 /\ UNCHANGED pc
  /\ UNCHANGED <<build, todo, schema, cache, legacy, chime, settings, history>>

FailedStatement ==
  /\ \/ pc \in {"settings", "count"}
     \/ pc = "seed" /\ ~IsLayout(Seed[k])
  /\ Exit

-----------------------------------------------------------------------------
(* While the program serves. *)

(* The broker stores what it fetched, in this build's shape. *)
UpsertWidgetCache(w) ==
  /\ pc = "serving" /\ cache' = [cache EXCEPT ![w] = build]
  /\ UNCHANGED <<process, schema, legacy, chime, settings, demos, history, faults>>

(* The administrator saves a video widget's form, which also fetches it, ... *)
HandleWidgetUpdate(w, u) ==
  /\ pc = "serving" /\ url' = [url EXCEPT ![w] = u]
  /\ wanted' = [wanted EXCEPT ![w] = u]
  /\ cache' \in {cache, [cache EXCEPT ![w] = build]}
  /\ UNCHANGED <<process, schema, sources, chime, settings, demos, chosen,
                 cut, faults>>

(* ... the settings page, ... *)
HandleSettingsSave(sound) ==
  /\ pc = "serving" /\ half' = sound /\ chosen' = sound
  /\ UNCHANGED <<process, schema, cache, legacy, flag, settings, demos, wanted, cut,
                 faults>>

(* ... makes a view of their own, or deletes one. *)
HandleViewCreate ==
  /\ pc = "serving" /\ rows' = rows \cup {"own"}
  /\ UNCHANGED <<process, schema, cache, legacy, chime, settings, playlists, history,
                 faults>>

\* Mutant: a deleted view leaves its placements and playlist items behind.
HandleViewDeleteAlone(v) ==
  /\ pc = "serving" /\ v \in rows /\ rows' = rows \ {v}
  /\ UNCHANGED <<process, schema, cache, legacy, chime, settings, playlists, history,
                 faults>>

HandleViewDelete(v) ==
  /\ pc = "serving" /\ v \in rows /\ rows' = rows \ Cascade(v)
  /\ items' = {i \in items : i[2] # v}
  /\ UNCHANGED <<process, schema, cache, legacy, chime, settings, lists, defaults,
                 made, older, unlisted, history, faults>>

(* On the pages of the playlists the administrator deletes one, with its    *)
(* items, ...                                                               *)
HandlePlaylistDelete(p) ==
  /\ pc = "serving" /\ p \in lists
  /\ lists' = lists \ {p} /\ defaults' = defaults \ {p}
  /\ items' = {i \in items : i[1] # p}
  /\ unlisted' = unlisted \cup {v \in Demos : <<p, v>> \in items}
  /\ UNCHANGED <<process, schema, cache, legacy, chime, settings, rows, made, older,
                 history, faults>>

(* ... or an item, ... *)
HandlePlaylistItemDelete(i) ==
  /\ pc = "serving" /\ i \in items /\ items' = items \ {i}
  /\ unlisted' = unlisted \cup {i[2]}
  /\ UNCHANGED <<process, schema, cache, legacy, chime, settings, rows, lists,
                 defaults, made, older, history, faults>>

(* ... makes another one the default, or a new one.  The statement after    *)
(* ClearDefaultPlaylists may fail, and then there is no default.            *)
HandlePlaylistSetDefault(p) ==
  /\ pc = "serving" /\ p \in lists /\ defaults' \in {{}, {p}}
  /\ unlisted' = Demos
  /\ UNCHANGED <<process, schema, cache, legacy, chime, settings, rows, lists, items,
                 made, older, history, faults>>

HandlePlaylistCreate ==
  /\ pc = "serving" /\ made < MaxPlaylists /\ made' = made + 1
  /\ lists' = lists \cup {made'} /\ defaults' = {made'}
  /\ unlisted' = Demos
  /\ UNCHANGED <<process, schema, cache, legacy, chime, settings, rows, items, older,
                 history, faults>>

Boot ==
  \/ CheckVersion \/ StampVersion
  \/ ListWidgets \/ (\E w \in Widgets : MoveURL(w))
  \/ ListSources \/ (\E s \in Sources : RetireSource(s)) \/ SourcesRetired
  \/ MigrateHalfChime \/ SetHalfFlag
  \/ SeedSettings \/ CountViews \/ SeedDemo \/ FailedStatement

ServeWidgets ==
  \/ \E w \in Widgets : UpsertWidgetCache(w)
  \/ \E w \in Widgets, u \in {"none", "own"} : HandleWidgetUpdate(w, u)
ServeSettings == \E sound \in Sounds : HandleSettingsSave(sound)
ServeViews == HandleViewCreate \/ \E v \in Views : HandleViewDelete(v)
ServePlaylists ==
  \/ \E p \in lists : HandlePlaylistDelete(p) \/ HandlePlaylistSetDefault(p)
  \/ \E i \in items : HandlePlaylistItemDelete(i)
  \/ HandlePlaylistCreate
Serve == ServeWidgets \/ ServeSettings \/ ServeViews \/ ServePlaylists

Next == Start \/ Crash \/ Boot \/ Serve
Spec == Init /\ [][Next]_vars

-----------------------------------------------------------------------------

(* Every variable keeps to its values; a view's layout or placement is never *)
(* there without the view, an item never without its view and playlist.      *)
TypeOK ==
  /\ pc \in {"down", "version", "stamp", "list", "move", "retire", "half", "flag",
             "settings", "count", "seed", "serving"}
  /\ build \in Builds /\ todo \subseteq Widgets \cup Sources
  /\ k \in 1..Len(Seed)
  /\ schema \in Builds \cup {"none"}
  /\ cache \in [Widgets -> Builds \cup {"none"}]
  /\ url \in [Widgets -> Sources \cup {"none", "own"}]
  /\ sources \subseteq Sources
  /\ half \in Sounds \cup {"none"} /\ flag \in BOOLEAN
  /\ settings \subseteq Keys /\ rows \subseteq SeedRows \cup Views
  /\ wanted \in [Widgets -> Sources \cup {"none", "own"}]
  /\ chosen \in Sounds \cup {"none"} /\ cut \in BOOLEAN
  /\ ignored \subseteq Tolerated
  /\ failures \in 0..MaxFailures /\ crashes \in 0..MaxCrashes
  /\ made \in Nat /\ lists \subseteq 1..made /\ defaults \subseteq lists
  /\ items \subseteq lists \X (Demos \cap rows)
  /\ older \subseteq 1..made /\ unlisted \subseteq Demos
  /\ \A v \in Demos : Cascade(v) \cap rows # {} => v \in rows

(* A build never serves a cache row of another build's shape, however often *)
(* the program was killed and whichever builds ran before ("stale rows from *)
(* an older build are dropped"), unless clearing the rows or writing the    *)
(* version had failed and was ignored.                                      *)
ServedRowsAreOfThisBuild ==
  pc = "serving" /\ ignored \cap {"clear", "stamp"} = {} =>
    \A w \in Widgets : cache[w] \in {build, "none"}

(* Once the program serves, every video widget plays the URL it had before  *)
(* the upgrade or the one the administrator saved since, although the       *)
(* migration can be killed between any two statements and starts over; only *)
(* an ignored error can lose a URL, or bring one back.                      *)
MigrationKeepsURLs ==
  pc = "serving" /\ ignored \cap {"links", "move", "retire", "list"} = {} =>
    url = wanted

(* "It runs a single time and never overrides a later manual change": the   *)
(* sound is the administrator's last choice, whatever restarts come after   *)
(* it, and until they choose it is the migrated one, unless reading or      *)
(* writing the flag or the sound had failed.                                *)
ManualSoundIsKept ==
  pc = "serving" /\ ignored \cap {"lookup", "half", "flag"} = {} =>
    half \in IF chosen # "none" THEN {chosen} ELSE {"none", "bong"}

(* The playlist a television shows that is assigned none: the default one  *)
(* with the lowest id; 0 for none.                                         *)
GetDefaultPlaylist ==
  IF defaults = {} THEN 0 ELSE CHOOSE p \in defaults : \A q \in defaults : p <= q

(* A demo view that is there is whole, and plays in the default playlist    *)
(* until the administrator takes it out: its item or its playlist deleted,  *)
(* another playlist made the default.  When seedDemo found a default        *)
(* playlist (every view had been deleted, and the program started anew),    *)
(* that one can stay the one shown, and the views only are in a younger     *)
(* default.  A seedDemo cut short after its first row is excepted: the next *)
(* start counts a view and never seeds the rest.                            *)
SeededViewsArePlayed ==
  pc = "serving" /\ ~cut /\ "layout" \notin ignored =>
    \A v \in rows \cap Demos :
       /\ Cascade(v) \subseteq rows
       /\ \/ v \in unlisted
          \/ <<GetDefaultPlaylist, v>> \in items
          \/ /\ GetDefaultPlaylist \in older
             /\ \E p \in defaults : <<p, v>> \in items

(* The program never starts to serve without a view. *)
ServesAView ==
  [][pc' = "serving" /\ pc # "serving" => rows' \cap Views # {}]_vars
=============================================================================
