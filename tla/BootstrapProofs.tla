--------------------------- MODULE BootstrapProofs ---------------------------
(***************************************************************************)
(* Theorems about Bootstrap, for any number of builds, widgets and         *)
(* sources, of kills and of failing statements.                            *)
(***************************************************************************)
EXTENDS Bootstrap, OrderFacts, TLAPS

-----------------------------------------------------------------------------
(* The search for a linked URL.                                            *)

\* What is found is a stored source with a URL, or "none".
LEMMA LinkedURLFound ==
  ASSUME NEW w \in Widgets, NEW stored \in SUBSET Sources
  PROVE  LinkedURL(w, stored) \in (stored \ Blank) \cup {"none"}
<1> DEFINE filled == {i \in DOMAIN Links[w] : Links[w][i] \in stored \ Blank}
           first  == CHOOSE i \in filled : \A j \in filled : i <= j
<1>1. CASE filled = {}
  BY <1>1 DEF LinkedURL
<1>2. CASE filled # {}
  <2>1. filled \in SUBSET Nat
    BY LegacyAssumption
  <2>2. \E i \in filled : \A j \in filled : i <= j
    BY <1>2, <2>1, LeastNatural
  <2>3. first \in filled
    BY <2>2
  <2> QED BY <1>2, <2>3 DEF LinkedURL
<1> QED BY <1>1, <1>2

\* A widget without a linked URL gets none by the deletion of sources.
LEMMA LinkedURLShrinks ==
  ASSUME NEW w \in Widgets, NEW fewer \in SUBSET Sources,
         NEW stored \in SUBSET Sources, fewer \subseteq stored,
         LinkedURL(w, stored) = "none"
  PROVE  LinkedURL(w, fewer) = "none"
<1> DEFINE filled(S) == {i \in DOMAIN Links[w] : Links[w][i] \in S \ Blank}
           first(S)  == CHOOSE i \in filled(S) : \A j \in filled(S) : i <= j
<1>1. CASE filled(stored) = {}
  <2>1. filled(fewer) = {}
    BY <1>1
  <2> QED BY <2>1 DEF LinkedURL
<1>2. CASE filled(stored) # {}
  <2>1. filled(stored) \in SUBSET Nat
    BY LegacyAssumption
  <2>2. \E i \in filled(stored) : \A j \in filled(stored) : i <= j
    BY <1>2, <2>1, LeastNatural
  <2>3. first(stored) \in filled(stored)
    BY <2>2
  <2>4. LinkedURL(w, stored) \in Sources
    BY <1>2, <2>3 DEF LinkedURL
  <2> QED BY <2>4, NamesAssumption
<1> QED BY <1>1, <1>2

\* Without sources there is no linked URL.
LEMMA NothingLinked ==
  ASSUME NEW w \in Widgets
  PROVE  LinkedURL(w, {}) = "none"
BY DEF LinkedURL

-----------------------------------------------------------------------------
(* Types.                                                                  *)

\* seedDemo writes a view, and its playlist, before what belongs to it.
SeedPosition ==
  pc = "seed" => /\ k > 1 => "demo" \in rows
                 /\ k > 6 => "aftellen" \in rows
                 /\ k > 10 => made \in lists

TypeInv == TypeOK /\ SeedPosition

LEMMA SeedLength == Len(Seed) = 12
BY DEF Seed

\* Where the rows of the two views, the playlist and its items come in seedDemo.
LEMMA SeedOrder ==
  ASSUME NEW i \in 1..Len(Seed)
  PROVE  /\ Seed[i] \in Cascade("demo") => Seed[i] = "demo" \/ i > 1
         /\ Seed[i] \in Cascade("aftellen") => Seed[i] = "aftellen" \/ i > 6
         /\ i = 1 => Seed[i] = "demo"
         /\ i = 6 => Seed[i] = "aftellen"
         /\ i < 10 <=> Seed[i] \in SeedRows
         /\ i = 10 <=> Seed[i] = "playlist"
         /\ i > 10 <=> Seed[i] \in SeedItems
<1>1. i \in 1..12
  BY SeedLength
<1>2. i # 10 /\ i < 11 => Seed[i] \notin {"playlist"} \cup SeedItems
  BY <1>1 DEF Seed, SeedItems
<1>3. i = 10 => Seed[i] = "playlist"
  BY DEF Seed
<1>4. i > 10 => Seed[i] \in SeedItems
  BY <1>1 DEF Seed, SeedItems
<1>5. /\ i < 10 <=> Seed[i] \in SeedRows
      /\ i = 10 <=> Seed[i] = "playlist"
      /\ i > 10 <=> Seed[i] \in SeedItems
  BY <1>1, <1>2, <1>3, <1>4 DEF SeedRows, SeedItems
<1>6. /\ Seed[i] \in Cascade("demo") => Seed[i] = "demo" \/ i > 1
      /\ Seed[i] \in Cascade("aftellen") => Seed[i] = "aftellen" \/ i > 6
      /\ i = 1 => Seed[i] = "demo"
      /\ i = 6 => Seed[i] = "aftellen"
  <2>1. CASE i \in 1..5
    BY <2>1 DEF Seed, Cascade
  <2>2. CASE i \in 6..12
    BY <2>2 DEF Seed, Cascade
  <2> QED BY <1>1, <2>1, <2>2
<1> QED BY <1>5, <1>6

LEMMA TypeInit == Init => TypeInv
<1> SUFFICES ASSUME Init PROVE TypeInv
  OBVIOUS
<1>1. /\ pc = "down" /\ build \in Builds /\ todo = {} /\ k = 1
      /\ chosen \in Sounds \cup {"none"}
  BY DEF Init
<1>6. flag \in BOOLEAN /\ cut \in BOOLEAN
  BY Zenon DEF Init
<1>7. /\ ignored \subseteq Tolerated
      /\ failures \in 0..MaxFailures /\ crashes \in 0..MaxCrashes
  BY BoundsAssumption DEF Init
<1>2. /\ schema \in Builds \cup {"none"} /\ half \in Sounds \cup {"none"}
      /\ cache \in [Widgets -> Builds \cup {"none"}]
      /\ settings \subseteq Keys /\ rows \subseteq {"own"}
      /\ sources \subseteq Sources
  BY DEF Init
<1>3. /\ url \in [Widgets -> Sources \cup {"none", "own"}]
      /\ wanted \in [Widgets -> Sources \cup {"none", "own"}]
  BY LinkedURLFound DEF Init
<1>4. \A v \in Demos : Cascade(v) \cap rows # {} => v \in rows
  BY <1>2 DEF Cascade, Demos
<1>8. /\ made \in Nat /\ lists \subseteq 1..made /\ defaults \subseteq lists
      /\ items \subseteq lists \X (Demos \cap rows)
      /\ older \subseteq 1..made /\ unlisted \subseteq Demos
  BY DEF Init
<1>5. TypeOK
  BY <1>1, <1>2, <1>3, <1>4, <1>6, <1>7, <1>8, SeedLength DEF TypeOK, Views
<1> QED BY <1>1, <1>5 DEF TypeInv, SeedPosition

\* What most actions leave alone.
LEMMA TypeFaults ==
  ASSUME TypeOK, NEW statement \in Tolerated, Ignore(statement)
  PROVE  /\ ignored' \subseteq Tolerated
         /\ failures' \in 0..MaxFailures /\ crashes' \in 0..MaxCrashes
BY BoundsAssumption DEF TypeOK, Ignore

LEMMA TypeStop == ASSUME TypeInv, Start \/ Crash \/ FailedStatement PROVE TypeInv'
<1>1. CASE Start
  BY <1>1 DEF TypeInv, TypeOK, SeedPosition, Start, demos, playlists, Cascade,
      legacy, chime, history, faults
<1>2. CASE Crash
  BY <1>2, BoundsAssumption
  DEF TypeInv, TypeOK, SeedPosition, Crash, SeedIsCut, demos, playlists, Cascade,
      legacy, chime
<1>3. CASE FailedStatement
  <2>1. Exit
    BY <1>3 DEF FailedStatement
  <2>2. cut' \in BOOLEAN
    BY <2>1, Zenon DEF TypeInv, TypeOK, Exit, SeedIsCut
  <2>3. failures' \in 0..MaxFailures
    BY <2>1, BoundsAssumption DEF TypeInv, TypeOK, Exit
  <2> QED BY <2>1, <2>2, <2>3 DEF TypeInv, TypeOK, SeedPosition, Exit, demos, playlists,
      Cascade, legacy, chime
<1> QED BY <1>1, <1>2, <1>3

LEMMA TypeCache ==
  ASSUME TypeInv, CheckVersion \/ StampVersion
  PROVE  TypeInv'
<1>1. /\ ignored' \subseteq Tolerated
      /\ failures' \in 0..MaxFailures /\ crashes' \in 0..MaxCrashes
  BY TypeFaults DEF TypeInv, TypeOK, CheckVersion, StampVersion, faults, Tolerated
<1>2. CASE CheckVersion
  BY <1>1, <1>2 DEF TypeInv, TypeOK, SeedPosition, CheckVersion, demos, playlists,
      Cascade, legacy, chime, history
<1>3. CASE StampVersion
  BY <1>1, <1>3 DEF TypeInv, TypeOK, SeedPosition, StampVersion, demos, playlists,
      Cascade, legacy, chime, history
<1> QED BY <1>2, <1>3

LEMMA TypeVideos ==
  ASSUME TypeInv,
         \/ ListWidgets \/ (\E w \in Widgets : MoveURL(w)) \/ ListSources
         \/ (\E s \in Sources : RetireSource(s)) \/ SourcesRetired
  PROVE  TypeInv'
<1>1. /\ ignored' \subseteq Tolerated
      /\ failures' \in 0..MaxFailures /\ crashes' \in 0..MaxCrashes
  BY TypeFaults DEF TypeInv, TypeOK, ListWidgets, MoveURL, ListSources,
     RetireSource, SourcesRetired, faults, Tolerated
<1>2. CASE ListWidgets
  BY <1>1, <1>2
  DEF TypeInv, TypeOK, SeedPosition, ListWidgets, demos, playlists, Cascade, legacy,
      chime, history
<1>3. ASSUME NEW w \in Widgets, MoveURL(w) PROVE TypeInv'
  <2>1. LinkedURL(w, sources) \in Sources \cup {"none"}
    BY LinkedURLFound DEF TypeInv, TypeOK
  <2>2. url' \in [Widgets -> Sources \cup {"none", "own"}]
    BY <1>3, <2>1 DEF TypeInv, TypeOK, MoveURL
  <2> QED BY <1>1, <1>3, <2>2
    DEF TypeInv, TypeOK, SeedPosition, MoveURL, demos, playlists, Cascade, chime,
        history
<1>4. CASE ListSources
  BY <1>1, <1>4
  DEF TypeInv, TypeOK, SeedPosition, ListSources, demos, playlists, Cascade, legacy,
      chime, history
<1>5. ASSUME NEW s \in Sources, RetireSource(s) PROVE TypeInv'
  BY <1>1, <1>5
  DEF TypeInv, TypeOK, SeedPosition, RetireSource, demos, playlists, Cascade, chime,
      history
<1>6. CASE SourcesRetired
  BY <1>1, <1>6
  DEF TypeInv, TypeOK, SeedPosition, SourcesRetired, demos, playlists, Cascade,
      legacy, chime, history
<1> QED BY <1>2, <1>3, <1>4, <1>5, <1>6

LEMMA TypeSettings ==
  ASSUME TypeInv, MigrateHalfChime \/ SetHalfFlag \/ SeedSettings \/ CountViews
  PROVE  TypeInv'
<1>1. /\ ignored' \subseteq Tolerated
      /\ failures' \in 0..MaxFailures /\ crashes' \in 0..MaxCrashes
  BY TypeFaults DEF TypeInv, TypeOK, MigrateHalfChime, SetHalfFlag, SeedSettings,
     CountViews, faults, Tolerated
<1>2. CASE MigrateHalfChime
  BY <1>1, <1>2
  DEF TypeInv, TypeOK, SeedPosition, MigrateHalfChime, Sounds, demos, playlists,
      Cascade, legacy, history
<1>3. CASE SetHalfFlag
  BY <1>1, <1>3
  DEF TypeInv, TypeOK, SeedPosition, SetHalfFlag, demos, playlists, Cascade, legacy,
      history
<1>4. CASE SeedSettings
  BY <1>1, <1>4
  DEF TypeInv, TypeOK, SeedPosition, SeedSettings, Keys, demos, playlists, Cascade,
      legacy, chime, history
<1>5. CASE CountViews
  <2>1. cut' \in BOOLEAN
    BY <1>5, Zenon DEF TypeInv, TypeOK, CountViews
  <2>2. /\ k' \in 1..Len(Seed) /\ pc' \in {"serving", "seed"}
        /\ pc' = "seed" => k' = 1
    BY <1>5, SeedLength DEF TypeInv, TypeOK, CountViews
  <2>3. SeedPosition'
    BY <2>2 DEF SeedPosition
  <2>4. TypeOK'
    BY <1>1, <1>5, <2>1, <2>2
    DEF TypeInv, TypeOK, CountViews, demos, playlists, Cascade, legacy, chime
  <2> QED BY <2>3, <2>4 DEF TypeInv
<1> QED BY <1>2, <1>3, <1>4, <1>5

\* What each statement of seedDemo does to the tables.
LEMMA SeedWrites ==
  ASSUME TypeInv, SeedDemo
  PROVE  \/ /\ k < 10 /\ rows' = rows \cup {Seed[k]} /\ UNCHANGED <<playlists, faults>>
         \/ /\ k = 10 /\ CreatePlaylist /\ UNCHANGED faults
         \/ /\ k > 10 /\ AddPlaylistItem /\ UNCHANGED faults
         \/ /\ k < 10 /\ k # 1 /\ k # 6 /\ Ignore("layout") /\ UNCHANGED demos
<1>1. k \in 1..Len(Seed) /\ Len(Seed) = 12
  BY SeedLength DEF TypeInv, TypeOK
<1>2. CASE InsertRow /\ UNCHANGED faults
  BY <1>1, <1>2, SeedOrder DEF InsertRow
<1>3. CASE CreatePlaylist /\ UNCHANGED faults
  BY <1>1, <1>3, SeedOrder DEF CreatePlaylist
<1>4. CASE AddPlaylistItem /\ UNCHANGED faults
  BY <1>1, <1>4, SeedOrder DEF AddPlaylistItem
<1>5. CASE IsLayout(Seed[k]) /\ Ignore("layout") /\ UNCHANGED demos
  <2>1. Seed[k] \in {"demo.layout", "aftellen.layout"}
    BY <1>5 DEF IsLayout
  <2>2. k < 10 /\ k # 1 /\ k # 6
    BY <1>1, <2>1, SeedOrder DEF SeedItems
  <2> QED BY <1>5, <2>2
<1> QED BY <1>2, <1>3, <1>4, <1>5 DEF SeedDemo

LEMMA TypeSeed == ASSUME TypeInv, SeedDemo PROVE TypeInv'
<1>1. /\ ignored' \subseteq Tolerated
      /\ failures' \in 0..MaxFailures /\ crashes' \in 0..MaxCrashes
  BY TypeFaults DEF TypeInv, TypeOK, SeedDemo, faults, Tolerated
<1>2. k \in 1..Len(Seed) /\ Len(Seed) = 12 /\ pc = "seed"
  BY SeedLength DEF TypeInv, TypeOK, SeedDemo
<1>3. \/ rows' = rows
      \/ k < 10 /\ rows' = rows \cup {Seed[k]}
  BY SeedWrites DEF CreatePlaylist, AddPlaylistItem, demos
<1>4. /\ k < 10 => Seed[k] \in SeedRows
      /\ Seed[k] \in Cascade("demo") => "demo" \in rows \cup {Seed[k]}
      /\ Seed[k] \in Cascade("aftellen") => "aftellen" \in rows \cup {Seed[k]}
  BY <1>2, SeedOrder DEF TypeInv, SeedPosition
<1>5. rows' \subseteq SeedRows \cup Views
  BY <1>3, <1>4 DEF TypeInv, TypeOK
<1>6. \A v \in Demos : Cascade(v) \cap rows' # {} => v \in rows'
  BY <1>3, <1>4 DEF TypeInv, TypeOK, Demos
<1>7. k' \in 1..Len(Seed)
  BY <1>2 DEF SeedDemo
<1>8. /\ made' \in Nat /\ lists' \subseteq 1..made' /\ defaults' \subseteq lists'
      /\ items' \subseteq lists' \X (Demos \cap rows')
      /\ older' \subseteq 1..made' /\ unlisted' \subseteq Demos
      /\ k > 9 => made' \in lists'
  <2>1. CASE k < 10 /\ UNCHANGED playlists
    BY <1>3, <2>1 DEF TypeInv, TypeOK, playlists
  <2>2. CASE k = 10 /\ CreatePlaylist
    BY <2>2 DEF TypeInv, TypeOK, CreatePlaylist
  <2>3. CASE k > 10 /\ AddPlaylistItem
    <3>1. made \in lists /\ "demo" \in rows /\ "aftellen" \in rows
      BY <1>2, <2>3 DEF TypeInv, SeedPosition
    <3> QED BY <2>3, <3>1 DEF TypeInv, TypeOK, AddPlaylistItem, Demos
  <2> QED BY <2>1, <2>2, <2>3, SeedWrites DEF demos
<1>9. SeedPosition'
  <2>1. /\ k = 1 => "demo" \in rows'
        /\ k = 6 => "aftellen" \in rows'
    BY <1>2, SeedOrder, SeedWrites
  <2>2. pc' = "seed" => k' = k + 1
    BY <1>2 DEF SeedDemo
  <2> QED BY <1>2, <1>3, <1>8, <2>1, <2>2 DEF TypeInv, SeedPosition
<1>10. TypeOK'
  BY <1>1, <1>5, <1>6, <1>7, <1>8
  DEF TypeInv, TypeOK, SeedDemo, legacy, chime, history
<1> QED BY <1>9, <1>10 DEF TypeInv

\* Serving changes nothing of the process, nor what failed; the pages of views and
\* of playlists change only rows of these.
LEMMA ServeKeeps ==
  /\ Serve => pc = "serving" /\ UNCHANGED <<process, faults>>
  /\ ServeViews \/ ServePlaylists
       => UNCHANGED <<schema, cache, legacy, chime, settings, history>>
<1>1. ServeWidgets \/ ServeSettings => pc = "serving" /\ UNCHANGED <<process, faults>>
  BY DEF ServeWidgets, ServeSettings, UpsertWidgetCache, HandleWidgetUpdate,
     HandleSettingsSave
<1>2. ServeViews => /\ pc = "serving" /\ UNCHANGED <<process, faults>>
                    /\ UNCHANGED <<schema, cache, legacy, chime, settings, history>>
  BY DEF ServeViews, HandleViewCreate, HandleViewDelete
<1>3. ServePlaylists => /\ pc = "serving" /\ UNCHANGED <<process, faults>>
                        /\ UNCHANGED <<schema, cache, legacy, chime, settings, history>>
  BY DEF ServePlaylists, HandlePlaylistDelete, HandlePlaylistSetDefault,
     HandlePlaylistItemDelete, HandlePlaylistCreate
<1> QED BY <1>1, <1>2, <1>3 DEF Serve

LEMMA TypeServe == ASSUME TypeInv, Serve PROVE TypeInv'
<1>0. SeedPosition'
  BY ServeKeeps DEF process, SeedPosition
<1>1. ASSUME NEW w \in Widgets, UpsertWidgetCache(w) PROVE TypeOK'
  BY <1>1 DEF TypeInv, TypeOK, UpsertWidgetCache, process, demos, playlists, legacy,
     chime, history, faults, Cascade
<1>2. ASSUME NEW w \in Widgets, NEW u \in {"none", "own"}, HandleWidgetUpdate(w, u)
      PROVE  TypeOK'
  BY <1>2 DEF TypeInv, TypeOK, HandleWidgetUpdate, process, demos, playlists, chime,
     faults, Cascade
<1>3. ASSUME NEW sound \in Sounds, HandleSettingsSave(sound) PROVE TypeOK'
  BY <1>3 DEF TypeInv, TypeOK, HandleSettingsSave, process, demos, playlists, legacy,
     faults, Cascade
<1>4. CASE HandleViewCreate
  <2>1. \A v \in Demos : Cascade(v) \cap rows' # {} => v \in rows'
    BY <1>4 DEF TypeInv, TypeOK, HandleViewCreate, Cascade, Demos
  <2>2. rows' \subseteq SeedRows \cup Views
    BY <1>4 DEF TypeInv, TypeOK, HandleViewCreate, Views
  <2>3. items' \subseteq lists' \X (Demos \cap rows')
    BY <1>4 DEF TypeInv, TypeOK, HandleViewCreate, playlists
  <2> QED BY <1>0, <1>4, <2>1, <2>2, <2>3 DEF TypeInv, TypeOK, HandleViewCreate,
     process, playlists, legacy, chime, history, faults
<1>5. ASSUME NEW v \in Views, HandleViewDelete(v) PROVE TypeOK'
  <2>1. \A o \in Demos : Cascade(o) \cap rows' # {} => o \in rows'
    BY <1>5 DEF TypeInv, TypeOK, HandleViewDelete, Cascade, Views, Demos
  <2>2. rows' \subseteq SeedRows \cup Views
    BY <1>5 DEF TypeInv, TypeOK, HandleViewDelete
  <2>3. \A o \in Demos : o # v => o \notin Cascade(v)
    BY DEF Cascade, Views, Demos
  <2>4. items' \subseteq lists \X (Demos \cap rows')
    BY <1>5, <2>3 DEF TypeInv, TypeOK, HandleViewDelete
  <2> HIDE DEF Cascade
  <2> QED BY <1>5, <2>1, <2>2, <2>4 DEF TypeInv, TypeOK, HandleViewDelete, process,
     legacy, chime, history, faults
<1>6. ASSUME NEW p \in lists, HandlePlaylistDelete(p) PROVE TypeOK'
  BY <1>6 DEF TypeInv, TypeOK, HandlePlaylistDelete, process, legacy, chime, history,
     faults, Cascade
<1>7. ASSUME NEW p \in lists, HandlePlaylistSetDefault(p) PROVE TypeOK'
  BY <1>7 DEF TypeInv, TypeOK, HandlePlaylistSetDefault, process, legacy, chime,
     history, faults, Cascade
<1>8. ASSUME NEW i \in items, HandlePlaylistItemDelete(i) PROVE TypeOK'
  BY <1>8 DEF TypeInv, TypeOK, HandlePlaylistItemDelete, process, legacy, chime,
     history, faults, Cascade
<1>9. CASE HandlePlaylistCreate
  <2>1. /\ made' \in Nat /\ lists' \subseteq 1..made' /\ defaults' \subseteq lists'
        /\ older' \subseteq 1..made' /\ unlisted' \subseteq Demos
        /\ items' \subseteq lists' \X (Demos \cap rows')
    BY <1>9 DEF TypeInv, TypeOK, HandlePlaylistCreate
  <2> QED BY <1>0, <1>9, <2>1 DEF TypeInv, TypeOK, HandlePlaylistCreate, process,
     legacy, chime, history, faults, Cascade
<1> QED BY <1>0, <1>1, <1>2, <1>3, <1>4, <1>5, <1>6, <1>7, <1>8, <1>9
    DEF TypeInv, Serve, ServeWidgets, ServeSettings, ServeViews, ServePlaylists

LEMMA TypeStep == TypeInv /\ [Next]_vars => TypeInv'
<1> SUFFICES ASSUME TypeInv, [Next]_vars PROVE TypeInv'
  OBVIOUS
<1>1. CASE Next
  BY <1>1, TypeStop, TypeCache, TypeVideos, TypeSettings, TypeSeed, TypeServe
  DEF Next, Boot
<1>2. CASE UNCHANGED vars
  BY <1>2 DEF TypeInv, TypeOK, SeedPosition, Cascade, vars, process, demos, playlists,
     legacy, chime, history, faults
<1> QED BY <1>1, <1>2

\* Every variable keeps to its values, and no row stays behind its view.
THEOREM TypeCorrect == Spec => []TypeOK
<1>1. TypeInv => TypeOK
  BY DEF TypeInv
<1> QED BY <1>1, TypeInit, TypeStep, PTL DEF Spec

\* What was ignored stays known.
LEMMA IgnoredGrows == ASSUME Next PROVE ignored \subseteq ignored'
<1>1. CASE Start \/ Crash \/ FailedStatement
  BY <1>1 DEF Start, Crash, FailedStatement, Exit, faults
<1>2. CASE CheckVersion \/ StampVersion
  BY <1>2 DEF CheckVersion, StampVersion, Ignore, faults
<1>3. CASE \/ ListWidgets \/ (\E w \in Widgets : MoveURL(w)) \/ ListSources
           \/ (\E s \in Sources : RetireSource(s)) \/ SourcesRetired
  BY <1>3 DEF ListWidgets, MoveURL, ListSources, RetireSource, SourcesRetired,
     Ignore, faults
<1>4. CASE MigrateHalfChime \/ SetHalfFlag \/ SeedSettings \/ CountViews \/ SeedDemo
  BY <1>4 DEF MigrateHalfChime, SetHalfFlag, SeedSettings, CountViews, SeedDemo,
     Ignore, faults
<1>5. CASE Serve
  BY <1>5, ServeKeeps DEF faults
<1> QED BY <1>1, <1>2, <1>3, <1>4, <1>5 DEF Next, Boot

-----------------------------------------------------------------------------
(* The cache.                                                              *)

\* A row has the shape of the build whose version is stored: also while the
\* program is down, and however far bootstrap came.
CacheInv ==
  ignored \cap {"clear", "stamp"} = {} =>
    /\ \A w \in Widgets : cache[w] \in {schema, "none"}
    /\ pc = "stamp" => \A w \in Widgets : cache[w] = "none"
    /\ pc \notin {"down", "version", "stamp"} => schema = build

\* A build never serves a row of another build's shape.
THEOREM CacheIsOfThisBuild == Spec => []ServedRowsAreOfThisBuild
<1>1. Init => CacheInv
  BY DEF Init, CacheInv
<1>2. TypeInv /\ CacheInv /\ [Next]_vars => CacheInv'
  <2> SUFFICES ASSUME TypeInv, CacheInv, [Next]_vars PROVE CacheInv'
    OBVIOUS
  <2> USE DEF CacheInv
  <2>1. CASE Start
    BY <2>1 DEF Start, faults
  <2>2. CASE Crash \/ FailedStatement
    BY <2>2 DEF Crash, FailedStatement, Exit
  <2>3. CASE CheckVersion
    BY <2>3 DEF CheckVersion, Ignore, faults
  <2>4. CASE StampVersion
    BY <2>4 DEF StampVersion, Ignore, faults
  <2>5. CASE \/ ListWidgets \/ (\E w \in Widgets : MoveURL(w)) \/ ListSources
             \/ (\E s \in Sources : RetireSource(s)) \/ SourcesRetired
    BY <2>5 DEF ListWidgets, MoveURL, ListSources, RetireSource, SourcesRetired,
       Ignore, faults
  <2>6. CASE MigrateHalfChime \/ SetHalfFlag \/ SeedSettings \/ CountViews \/ SeedDemo
    BY <2>6 DEF MigrateHalfChime, SetHalfFlag, SeedSettings, CountViews, SeedDemo,
       Ignore, faults
  <2>7. CASE \E w \in Widgets : UpsertWidgetCache(w)
    BY <2>7 DEF UpsertWidgetCache, TypeInv, TypeOK, process, faults
  <2>8. CASE \E w \in Widgets, u \in {"none", "own"} : HandleWidgetUpdate(w, u)
    BY <2>8 DEF HandleWidgetUpdate, TypeInv, TypeOK, process, faults
  <2>9. CASE \/ \E sound \in Sounds : HandleSettingsSave(sound)
             \/ ServeViews \/ ServePlaylists
    BY <2>9, ServeKeeps DEF HandleSettingsSave, Serve, process, faults
  <2>10. CASE UNCHANGED vars
    BY <2>10 DEF vars, process, faults
  <2> QED BY <2>1, <2>2, <2>3, <2>4, <2>5, <2>6, <2>7, <2>8, <2>9, <2>10
      DEF Next, Boot, Serve, ServeWidgets, ServeSettings
<1>3. CacheInv => ServedRowsAreOfThisBuild
  BY DEF CacheInv, ServedRowsAreOfThisBuild
<1> QED BY <1>1, <1>2, <1>3, TypeInit, TypeStep, PTL DEF Spec

-----------------------------------------------------------------------------
(* Video URLs.                                                             *)

\* Bootstrap has left the video sources behind.
PastSources == pc \in {"half", "flag", "settings", "count", "seed", "serving"}

\* A widget without a URL of its own is one whose URL still lies in its sources,
\* or that should have none; sources go only when no widget needs them.
URLInv ==
  ignored \cap {"links", "move", "retire", "list"} = {} =>
    /\ \A w \in Widgets : wanted[w] = IF url[w] # "none" THEN url[w]
                                      ELSE LinkedURL(w, sources)
    /\ pc = "move" => \A w \in Widgets \ todo :
                         url[w] # "none" \/ LinkedURL(w, sources) = "none"
    /\ pc = "retire" => /\ sources \subseteq todo
                        /\ \A w \in Widgets :
                             url[w] # "none" \/ LinkedURL(w, sources) = "none"
    /\ PastSources => sources = {}

\* Every video widget keeps its URL.
THEOREM URLsAreKept == Spec => []MigrationKeepsURLs
<1>1. Init => URLInv
  <2> SUFFICES ASSUME Init PROVE URLInv
    OBVIOUS
  <2>1. \A w \in Widgets : wanted[w] = IF url[w] # "none" THEN url[w]
                                       ELSE LinkedURL(w, sources)
    BY DEF Init
  <2> QED BY <2>1 DEF Init, URLInv, PastSources
<1>2. TypeInv /\ URLInv /\ [Next]_vars => URLInv'
  <2> SUFFICES ASSUME TypeInv, URLInv, [Next]_vars,
                      ignored' \cap {"links", "move", "retire", "list"} = {}
               PROVE  URLInv'
    BY DEF URLInv
  <2> USE DEF URLInv, PastSources
  <2>0. ignored \cap {"links", "move", "retire", "list"} = {}
    <3>1. CASE UNCHANGED vars
      BY <3>1 DEF vars, faults
    <3>2. CASE Next
      BY <3>2, IgnoredGrows
    <3> QED BY <3>1, <3>2
  <2>1. CASE Start \/ Crash \/ FailedStatement
    BY <2>0, <2>1 DEF Start, Crash, FailedStatement, Exit, legacy, history
  <2>2. CASE CheckVersion \/ StampVersion
    BY <2>0, <2>2 DEF CheckVersion, StampVersion, legacy, history
  <2>3. CASE ListWidgets \/ ListSources
    BY <2>0, <2>3 DEF ListWidgets, ListSources, legacy, history, Ignore
  <2>4. ASSUME NEW w \in Widgets, MoveURL(w) PROVE URLInv'
    <3>1. /\ url' = [url EXCEPT ![w] = url'[w]] /\ UNCHANGED <<sources, wanted, pc>>
          /\ url[w] # "none" => url'[w] = url[w]
          /\ url[w] = "none" => url'[w] = LinkedURL(w, sources)
      BY <2>4 DEF MoveURL, TypeInv, TypeOK, Ignore, history
    <3> QED BY <2>0, <2>4, <3>1 DEF MoveURL, TypeInv, TypeOK
  <2>5. ASSUME NEW s \in Sources, RetireSource(s) PROVE URLInv'
    <3>1. /\ sources' = sources \ {s} /\ todo' = todo \ {s} /\ pc = "retire"
          /\ UNCHANGED <<url, wanted, pc>>
      BY <2>5 DEF RetireSource, Ignore, history
    <3>2. \A w \in Widgets : LinkedURL(w, sources) = "none"
                               => LinkedURL(w, sources') = "none"
      BY <3>1, LinkedURLShrinks DEF TypeInv, TypeOK
    <3> QED BY <2>0, <3>1, <3>2
  <2>6. CASE SourcesRetired
    BY <2>0, <2>6 DEF SourcesRetired, legacy, history
  <2>7. CASE MigrateHalfChime \/ SetHalfFlag \/ SeedSettings \/ CountViews \/ SeedDemo
    BY <2>0, <2>7 DEF MigrateHalfChime, SetHalfFlag, SeedSettings, CountViews,
       SeedDemo, legacy, history
  <2>8. ASSUME NEW w \in Widgets, NEW u \in {"none", "own"}, HandleWidgetUpdate(w, u)
        PROVE  URLInv'
    <3>1. /\ url' = [url EXCEPT ![w] = u] /\ wanted' = [wanted EXCEPT ![w] = u]
          /\ pc = "serving" /\ UNCHANGED <<pc, sources>>
      BY <2>8 DEF HandleWidgetUpdate, process
    <3> QED BY <2>0, <3>1, NothingLinked DEF TypeInv, TypeOK
  <2>9. CASE \/ \E w \in Widgets : UpsertWidgetCache(w)
             \/ \E sound \in Sounds : HandleSettingsSave(sound)
             \/ ServeViews \/ ServePlaylists
    BY <2>0, <2>9, ServeKeeps DEF UpsertWidgetCache, HandleSettingsSave, Serve,
       process, legacy, history
  <2>10. CASE UNCHANGED vars
    BY <2>0, <2>10 DEF vars, process, legacy, history
  <2> QED BY <2>1, <2>2, <2>3, <2>4, <2>5, <2>6, <2>7, <2>8, <2>9, <2>10
      DEF Next, Boot, Serve, ServeWidgets, ServeSettings
<1>3. TypeInv /\ URLInv => MigrationKeepsURLs
  <2> SUFFICES ASSUME TypeInv, URLInv, pc = "serving",
                      ignored \cap {"links", "move", "retire", "list"} = {}
               PROVE  url = wanted
    BY DEF MigrationKeepsURLs
  <2>1. \A w \in Widgets : url[w] = wanted[w]
    BY NothingLinked DEF URLInv, PastSources
  <2> QED BY <2>1 DEF TypeInv, TypeOK
<1> QED BY <1>1, <1>2, <1>3, TypeInit, TypeStep, PTL DEF Spec

-----------------------------------------------------------------------------
(* The half-hour sound.                                                    *)

\* Nobody chooses before the flag is set, which bootstrap does before it serves.
SoundInv ==
  ignored \cap {"lookup", "half", "flag"} = {} =>
    /\ chosen # "none" => flag /\ half = chosen
    /\ flag /\ chosen = "none" => half \in {"none", "bong"}
    /\ pc = "flag" => chosen = "none" /\ half \in {"none", "bong"}
    /\ pc \in {"settings", "count", "seed", "serving"} => flag

\* The administrator's choice outlives every restart.
THEOREM SoundIsKept == Spec => []ManualSoundIsKept
<1>1. Init => SoundInv
  BY DEF Init, SoundInv
<1>2. TypeInv /\ SoundInv /\ [Next]_vars => SoundInv'
  <2> SUFFICES ASSUME TypeInv, SoundInv, [Next]_vars,
                      ignored' \cap {"lookup", "half", "flag"} = {}
               PROVE  SoundInv'
    BY DEF SoundInv
  <2> USE DEF SoundInv
  <2>0. ignored \cap {"lookup", "half", "flag"} = {}
    <3>1. CASE UNCHANGED vars
      BY <3>1 DEF vars, faults
    <3>2. CASE Next
      BY <3>2, IgnoredGrows
    <3> QED BY <3>1, <3>2
  <2>1. CASE Start \/ Crash \/ FailedStatement
    BY <2>0, <2>1 DEF Start, Crash, FailedStatement, Exit, chime, history
  <2>2. CASE \/ CheckVersion \/ StampVersion \/ ListWidgets
             \/ (\E w \in Widgets : MoveURL(w)) \/ ListSources
             \/ (\E s \in Sources : RetireSource(s)) \/ SourcesRetired
    BY <2>0, <2>2 DEF CheckVersion, StampVersion, ListWidgets, MoveURL, ListSources,
       RetireSource, SourcesRetired, chime, history
  <2>3. CASE MigrateHalfChime
    BY <2>0, <2>3 DEF MigrateHalfChime, Ignore, history
  <2>4. CASE SetHalfFlag
    BY <2>0, <2>4 DEF SetHalfFlag, Ignore, history
  <2>5. CASE SeedSettings \/ CountViews \/ SeedDemo
    BY <2>0, <2>5 DEF SeedSettings, CountViews, SeedDemo, chime, history
  <2>6. ASSUME NEW sound \in Sounds, HandleSettingsSave(sound) PROVE SoundInv'
    BY <2>0, <2>6 DEF HandleSettingsSave, process, Sounds
  <2>7. CASE \/ \E w \in Widgets : UpsertWidgetCache(w)
             \/ \E w \in Widgets, u \in {"none", "own"} : HandleWidgetUpdate(w, u)
             \/ ServeViews \/ ServePlaylists
    BY <2>0, <2>7, ServeKeeps DEF UpsertWidgetCache, HandleWidgetUpdate, Serve,
       process, chime, history
  <2>8. CASE UNCHANGED vars
    BY <2>0, <2>8 DEF vars, process, chime, history
  <2> QED BY <2>1, <2>2, <2>3, <2>4, <2>5, <2>6, <2>7, <2>8 DEF Next, Boot, Serve,
      ServeWidgets, ServeSettings
<1>3. SoundInv => ManualSoundIsKept
  BY DEF SoundInv, ManualSoundIsKept
<1> QED BY <1>1, <1>2, <1>3, TypeInit, TypeStep, PTL DEF Spec

-----------------------------------------------------------------------------
(* Seeding.                                                                *)

\* The program comes to serve with a view: one was counted, or seedDemo wrote
\* the first of its rows before the last.
THEOREM StartsWithAView == Spec => ServesAView
<1>1. TypeInv /\ [Next]_vars
      => [pc' = "serving" /\ pc # "serving" => rows' \cap Views # {}]_vars
  <2> SUFFICES ASSUME TypeInv, Next, pc' = "serving", pc # "serving"
               PROVE  rows' \cap Views # {}
    OBVIOUS
  <2>1. CASE CountViews
    BY <2>1 DEF CountViews, demos
  <2>2. CASE SeedDemo
    <3>1. k = Len(Seed)
      BY <2>2 DEF SeedDemo
    <3>2. "demo" \in rows'
      BY <2>2, <3>1, SeedLength, SeedWrites
      DEF SeedDemo, TypeInv, SeedPosition, AddPlaylistItem
    <3> QED BY <3>2 DEF Views, Demos
  <2>3. CASE \/ Start \/ Crash \/ FailedStatement \/ CheckVersion \/ StampVersion
             \/ ListWidgets \/ (\E w \in Widgets : MoveURL(w)) \/ ListSources
             \/ (\E s \in Sources : RetireSource(s)) \/ SourcesRetired
    BY <2>3 DEF Start, Crash, FailedStatement, Exit, CheckVersion, StampVersion,
       ListWidgets, MoveURL, ListSources, RetireSource, SourcesRetired
  <2>4. CASE MigrateHalfChime \/ SetHalfFlag \/ SeedSettings
    BY <2>4 DEF MigrateHalfChime, SetHalfFlag, SeedSettings
  <2>5. CASE Serve
    BY <2>5, ServeKeeps DEF process
  <2> QED BY <2>1, <2>2, <2>3, <2>4, <2>5 DEF Next, Boot
<1> QED BY <1>1, TypeInit, TypeStep, PTL DEF Spec, ServesAView

\* A seeded view is complete.
Whole(v) == Cascade(v) \subseteq rows

\* Unless the administrator took it out, it is in the playlist that was made last,
\* which is a default; the other defaults are those its seeding found.
Listed(v) == v \notin unlisted => /\ made \in defaults /\ <<made, v>> \in items
                                  /\ defaults \subseteq older \cup {made}

\* Between two seedings the views that are there are whole and listed; during one,
\* every statement before the next has been done.
SeedInv ==
  ~ cut /\ "layout" \notin ignored =>
    /\ pc # "seed" => \A v \in rows \cap Demos : Whole(v) /\ Listed(v)
    /\ pc = "seed" => /\ \A i \in 1..(k - 1) : i < 10 => Seed[i] \in rows
                      /\ k > 10 => /\ made \in defaults
                                   /\ defaults \subseteq older \cup {made}
                      /\ k > 11 => <<made, "demo">> \in items
    /\ pc = "seed" /\ k = 1 => rows \cap Views = {}

\* The rows of both views are all among those of seedDemo.
LEMMA AllRowsSeeded ==
  ASSUME \A i \in 1..11 : i < 10 => Seed[i] \in rows
  PROVE  \A v \in Demos : Whole(v)
<1>1. /\ Seed[1] \in rows /\ Seed[4] \in rows /\ Seed[5] \in rows
      /\ Seed[6] \in rows /\ Seed[7] \in rows /\ Seed[8] \in rows
      /\ Seed[9] \in rows
  OBVIOUS
<1> QED BY <1>1 DEF Seed, Whole, Cascade, Demos

\* What the two properties of a view depend on.
LEMMA WholeKept ==
  ASSUME UNCHANGED demos
  PROVE  \A v \in Demos : Whole(v)' = Whole(v) /\ Listed(v)' = Listed(v)
BY DEF demos, playlists, Whole, Listed, Cascade

\* Serving keeps whole what is left, and unlists what the administrator takes out.
LEMMA ServeListed ==
  ASSUME TypeInv, ServeViews \/ ServePlaylists,
         \A v \in rows \cap Demos : Whole(v) /\ Listed(v)
  PROVE  \A v \in rows' \cap Demos : Whole(v)' /\ Listed(v)'
<1>1. CASE HandleViewCreate
  BY <1>1 DEF HandleViewCreate, playlists, Whole, Listed, Cascade, Demos
<1>2. ASSUME NEW v \in Views, HandleViewDelete(v)
      PROVE  \A o \in rows' \cap Demos : Whole(o)' /\ Listed(o)'
  <2>1. \A o \in rows' \cap Demos :
          /\ o # v /\ o \in rows
          /\ Cascade(o) \cap Cascade(v) = {}
    BY <1>2 DEF HandleViewDelete, Cascade, Demos, Views
  <2>2. \A o \in rows' \cap Demos : Whole(o)'
    BY <1>2, <2>1 DEF HandleViewDelete, Whole, Cascade, Demos
  <2>3. \A o \in rows' \cap Demos : Listed(o)'
    BY <1>2, <2>1 DEF HandleViewDelete, Listed
  <2> QED BY <2>2, <2>3
<1>3. ASSUME ServePlaylists
      PROVE  \A v \in rows' \cap Demos : Whole(v)' /\ Listed(v)'
  <2>1. rows' = rows
    BY <1>3 DEF ServePlaylists, HandlePlaylistDelete, HandlePlaylistSetDefault,
       HandlePlaylistItemDelete, HandlePlaylistCreate
  <2>2. \A v \in rows' \cap Demos : Whole(v)'
    BY <2>1 DEF Whole, Cascade
  <2>3. ASSUME NEW p \in lists, HandlePlaylistDelete(p)
        PROVE  \A v \in rows \cap Demos : Listed(v)'
    BY <2>3 DEF HandlePlaylistDelete, Listed
  <2>4. ASSUME NEW p \in lists, HandlePlaylistSetDefault(p)
        PROVE  \A v \in rows \cap Demos : Listed(v)'
    BY <2>4 DEF HandlePlaylistSetDefault, Listed
  <2>5. ASSUME NEW i \in items, HandlePlaylistItemDelete(i)
        PROVE  \A v \in rows \cap Demos : Listed(v)'
    BY <2>5 DEF HandlePlaylistItemDelete, Listed
  <2>6. ASSUME HandlePlaylistCreate
        PROVE  \A v \in rows \cap Demos : Listed(v)'
    BY <2>6 DEF HandlePlaylistCreate, Listed
  <2> QED BY <1>3, <2>1, <2>2, <2>3, <2>4, <2>5, <2>6 DEF ServePlaylists
<1> QED BY <1>1, <1>2, <1>3 DEF ServeViews

\* A seeded view is complete, and played in the default playlist until it is taken
\* out, unless seeding was cut, or found a default playlist that is still there.
THEOREM SeededViewsAreWhole == Spec => []SeededViewsArePlayed
<1>1. Init => SeedInv
  BY DEF Init, SeedInv, Demos
<1>2. TypeInv /\ SeedInv /\ [Next]_vars => SeedInv'
  <2> SUFFICES ASSUME TypeInv, SeedInv, [Next]_vars, ~ cut', "layout" \notin ignored'
               PROVE  SeedInv'
    BY DEF SeedInv
  <2>0. "layout" \notin ignored
    <3>1. CASE UNCHANGED vars
      BY <3>1 DEF vars, faults
    <3>2. CASE Next
      BY <3>2, IgnoredGrows
    <3> QED BY <3>1, <3>2
  <2>1. CASE Start
    BY <2>0, <2>1, WholeKept DEF SeedInv, Start, history, demos
  <2>2. CASE Crash \/ FailedStatement
    <3>1. ~ cut /\ ~ (pc = "seed" /\ k > 1) /\ pc' = "down" /\ UNCHANGED demos
      BY <2>2 DEF Crash, FailedStatement, Exit, SeedIsCut
    <3>2. pc = "seed" => rows \cap Demos = {}
      BY <2>0, <3>1 DEF SeedInv, TypeInv, TypeOK, Views
    <3> QED BY <2>0, <3>1, <3>2, WholeKept DEF SeedInv, demos
  <2>3. CASE \/ CheckVersion \/ StampVersion \/ ListWidgets
             \/ (\E w \in Widgets : MoveURL(w)) \/ ListSources
             \/ (\E s \in Sources : RetireSource(s)) \/ SourcesRetired
    <3>1. UNCHANGED <<demos, cut>> /\ pc # "seed" /\ pc' # "seed"
      BY <2>3 DEF CheckVersion, StampVersion, ListWidgets, MoveURL, ListSources,
         RetireSource, SourcesRetired, history
    <3> QED BY <2>0, <3>1, WholeKept DEF SeedInv, demos
  <2>4. CASE MigrateHalfChime \/ SetHalfFlag \/ SeedSettings
    <3>1. UNCHANGED <<demos, cut>> /\ pc # "seed" /\ pc' # "seed"
      BY <2>4 DEF MigrateHalfChime, SetHalfFlag, SeedSettings, history
    <3> QED BY <2>0, <3>1, WholeKept DEF SeedInv, demos
  <2>5. CASE CountViews
    <3>1. CASE pc' = "seed" /\ k' = 1 /\ rows' \cap Views = {}
      BY <3>1 DEF SeedInv
    <3>2. CASE pc' = "serving" /\ pc = "count" /\ UNCHANGED <<demos, cut>>
      BY <2>0, <3>2, WholeKept DEF SeedInv, demos
    <3> QED BY <2>5, <3>1, <3>2 DEF CountViews, demos
  <2>6. CASE SeedDemo
    <3>1. /\ pc = "seed" /\ ~ cut /\ k \in 1..12
          /\ \A i \in 1..(k - 1) : i < 10 => Seed[i] \in rows
          /\ k > 10 => made \in defaults /\ defaults \subseteq older \cup {made}
          /\ k > 11 => <<made, "demo">> \in items
      BY <2>0, <2>6, SeedLength
      DEF SeedInv, SeedDemo, history, TypeInv, TypeOK
    <3>2. ~ Ignore("layout")
      BY DEF Ignore
    <3>3. /\ \A i \in 1..k : i < 10 => Seed[i] \in rows'
          /\ k > 9 => made' \in defaults' /\ defaults' \subseteq older' \cup {made'}
          /\ k = 11 => <<made', "demo">> \in items'
          /\ k = 12 => items' = items \cup {<<made, "aftellen">>} /\ made' = made
      <4>1. CASE k < 10 /\ rows' = rows \cup {Seed[k]}
        BY <3>1, <4>1
      <4>2. CASE k = 10 /\ CreatePlaylist
        BY <3>1, <4>2 DEF CreatePlaylist
      <4>3. CASE k > 10 /\ AddPlaylistItem
        <5>1. Seed[11] = "demo.item" /\ Seed[12] = "aftellen.item"
          BY DEF Seed
        <5> QED BY <3>1, <4>3, <5>1 DEF AddPlaylistItem
      <4> QED BY <2>6, <3>2, <4>1, <4>2, <4>3, SeedWrites
    <3>4. CASE k = Len(Seed)
      <4>1. k = 12 /\ pc' = "serving" /\ rows' = rows
        BY <2>6, <3>4, SeedLength, SeedWrites DEF SeedDemo, AddPlaylistItem
      <4>2. \A v \in Demos : Whole(v)
        <5>1. \A i \in 1..11 : i < 10 => Seed[i] \in rows
          BY <3>1, <4>1
        <5> QED BY <5>1, AllRowsSeeded
      <4>3. \A v \in Demos : Listed(v)'
        BY <3>1, <3>3, <4>1 DEF Listed, Demos
      <4> QED BY <4>1, <4>2, <4>3 DEF SeedInv, Whole, Cascade
    <3>5. CASE k # Len(Seed)
      <4>1. k' = k + 1 /\ pc' = "seed" /\ k < 12
        BY <2>6, <3>1, <3>5, SeedLength DEF SeedDemo
      <4> QED BY <3>1, <3>3, <4>1 DEF SeedInv
    <3> QED BY <3>4, <3>5
  <2>7. CASE ServeViews \/ ServePlaylists
    BY <2>0, <2>7, ServeListed, ServeKeeps DEF SeedInv, Serve, process, history
  <2>8. CASE \/ \E w \in Widgets : UpsertWidgetCache(w)
             \/ \E w \in Widgets, u \in {"none", "own"} : HandleWidgetUpdate(w, u)
             \/ \E sound \in Sounds : HandleSettingsSave(sound)
    <3>1. UNCHANGED <<demos, cut, process>> /\ pc = "serving"
      BY <2>8 DEF UpsertWidgetCache, HandleWidgetUpdate, HandleSettingsSave, history
    <3> QED BY <2>0, <3>1, WholeKept DEF SeedInv, demos, process
  <2>9. CASE UNCHANGED vars
    <3>1. UNCHANGED <<demos, cut, pc, k>>
      BY <2>9 DEF vars, history, process
    <3> QED BY <2>0, <3>1, WholeKept DEF SeedInv, demos, playlists
  <2> QED BY <2>1, <2>2, <2>3, <2>4, <2>5, <2>6, <2>7, <2>8, <2>9
      DEF Next, Boot, Serve, ServeWidgets, ServeSettings
<1>3. TypeInv /\ SeedInv => SeededViewsArePlayed
  <2> SUFFICES ASSUME TypeInv, SeedInv, pc = "serving", ~ cut, "layout" \notin ignored,
                      NEW v \in rows \cap Demos, v \notin unlisted
               PROVE  \/ <<GetDefaultPlaylist, v>> \in items
                      \/ /\ GetDefaultPlaylist \in older
                         /\ \E p \in defaults : <<p, v>> \in items
    BY DEF SeedInv, Whole, SeededViewsArePlayed
  <2>1. /\ made \in defaults /\ <<made, v>> \in items
        /\ defaults \subseteq older \cup {made}
    BY DEF SeedInv, Listed
  <2>2. defaults \in SUBSET Nat
    BY DEF TypeInv, TypeOK
  <2>3. \E p \in defaults : \A q \in defaults : p <= q
    BY <2>1, <2>2, LeastNatural
  <2>4. GetDefaultPlaylist \in defaults
    BY <2>1, <2>3 DEF GetDefaultPlaylist
  <2> QED BY <2>1, <2>4
<1> QED BY <1>1, <1>2, <1>3, TypeInit, TypeStep, PTL DEF Spec

=============================================================================
