---------------------------- MODULE WidgetCache ----------------------------
(***************************************************************************)
(* The widget cache and everything that refreshes it: the broker's         *)
(* background loop, the kiosk's read path (cellForWidget, tickerItems), the *)
(* detached on-show refreshes (bgRefresh) and the administrator's handlers. *)
(* All of them run Broker.RefreshWidget, which is not serialised: several  *)
(* refreshes of one widget may overlap, each with the widget row and the   *)
(* sources it read itself.                                                 *)
(*                                                                         *)
(* A configuration is abstracted to a version number: conf[w] counts the   *)
(* edits of the widget's row, link[w] those of its sources.  Fetched data  *)
(* is the pair of versions it was fetched for.  One data source is told    *)
(* apart from the others: `users` are the widgets linked to it, `health`   *)
(* is its column of that name ("unset" for the empty string).  It is not   *)
(* an OAuth source.  SQLite has one connection (SetMaxOpenConns(1)) and no *)
(* handler opens a transaction, so each statement is a step of its own.    *)
(* Ids are never used again (AUTOINCREMENT): a widget created later is one *)
(* that nobody has read yet.                                               *)
(*                                                                         *)
(* task[t].pc is where a goroutine is in RefreshWidget and its callers:    *)
(*   idle      no work                                                     *)
(*   peek      read path: about to read the cache row                      *)
(*   row       about to read the widget's row                              *)
(*   sources   RefreshWidget: about to read the linked sources             *)
(*   fetch     in the provider's Fetch                                     *)
(*   store     fetched: about to upsert the value                          *)
(*   look      failed: markErr is about to look for a cache row            *)
(*   markStale, markError   about to write what markErr decided            *)
(*   done      RefreshWidget returned                                      *)
(*   spawn     about to call bgRefresh                                     *)
(***************************************************************************)
EXTENDS Integers

CONSTANTS
  Widgets,
  Users,        \* widgets linked to the data source at first
  TokenWidgets, \* widgets with an OAuth source, whose token is refreshed first
  Loop,         \* the broker's goroutine
  Tasks,        \* all other goroutines: requests and detached refreshes
  MaxEdits,     \* bound: administrator's writes
  MaxRestarts,  \* bound: crashes of the process
  Null, NoRow, NoWidget

ASSUME CacheConstants ==
  /\ Users \subseteq Widgets /\ TokenWidgets \subseteq Widgets
  /\ Loop \notin Tasks
  /\ MaxEdits \in Nat /\ MaxRestarts \in Nat
  /\ Null \notin Nat \X Nat
  /\ NoWidget \notin Widgets
  /\ NoRow \notin [data : (Nat \X Nat) \cup {Null}, status : {"ok", "stale", "error"},
                   expired : BOOLEAN]

VARIABLES
  conf,        \* table widgets: version of the row; no entry when deleted
  link,        \* tables widget_sources and data_sources, seen from a widget
  users,       \* table widget_sources: widgets linked to the data source
  health,      \* data_sources.health; "gone" when the source is deleted
  cache,       \* table widget_cache: a row or NoRow
  task,
  refreshing,  \* Server.refreshing
  recent,      \* Server.lastRefresh is less than the throttle ago
  edits, restarts

vars == <<conf, link, users, health, cache, task, refreshing, recent, edits, restarts>>

Versions == 0 .. MaxEdits
Data     == (Versions \X Versions) \cup {Null}
Rows     == [data : Data, status : {"ok", "stale", "error"}, expired : BOOLEAN]
Kinds    == {"loop", "show", "ticker", "bg", "admin", "source"}
Goroutines == Tasks \cup {Loop}

\* todo: widgets still to be refreshed, each with the version of the row that
\* was listed (the broker's loop lists ids only and reads the row later).
Idle(kind) == [pc |-> "idle", kind |-> kind, w |-> NoWidget, conf |-> 0,
               link |-> 0, src |-> FALSE, alive |-> TRUE, todo |-> {}]

Exists(w) == w \in DOMAIN conf

Init ==
  /\ conf = [w \in Widgets |-> 0]
  /\ link = [w \in Widgets |-> 0]
  /\ users = Users
  /\ health = "unset"
  /\ cache = [w \in Widgets |-> NoRow]
  /\ task = [t \in Goroutines |-> Idle(IF t = Loop THEN "loop" ELSE "show")]
  /\ refreshing = [w \in Widgets |-> FALSE]
  /\ recent = [w \in Widgets |-> FALSE]
  /\ edits = 0
  /\ restarts = 0

-----------------------------------------------------------------------------
tables == <<conf, link, users, edits, restarts>>
flags  == <<refreshing, recent>>

Goto(t, label) == task' = [task EXCEPT ![t].pc = label]

(* RefreshWidget. *)

\* sourcesFor reads the links, and asks for a fresh token (refreshOAuth) where
\* one is needed; NewProvider may reject the configuration.
ReadSources(t) ==
  /\ task[t].pc = "sources"
  /\ \E next \in {"fetch", "look"} :
       task' = [task EXCEPT ![t].pc = next, ![t].link = link[task[t].w],
                            ![t].src = task[t].alive /\ task[t].w \in users]
  /\ UNCHANGED <<tables, health, cache, flags>>

\* recordSourcesHealth: the outcome counts for every source that was read; the
\* last widget to be fetched decides.
RecordHealth(t, outcome) ==
  health' = IF task[t].src /\ task[t].alive /\ health # "gone" THEN outcome
            ELSE health

\* A context that is done makes the fetch fail.
FetchOk(t) ==
  /\ task[t].pc = "fetch"
  /\ task[t].alive
  /\ Goto(t, "store")
  /\ RecordHealth(t, "ok")
  /\ UNCHANGED <<tables, cache, flags>>

FetchFails(t) ==
  /\ task[t].pc = "fetch"
  /\ Goto(t, "look")
  /\ RecordHealth(t, "error")
  /\ UNCHANGED <<tables, cache, flags>>

\* Mutant: foreign keys are not enforced (SQLite's default).
UpsertUnconstrained(t, data, status) ==
  cache' = IF task[t].alive
           THEN [cache EXCEPT ![task[t].w] = [data |-> data, status |-> status,
                                              expired |-> FALSE]]
           ELSE cache

\* An upsert works if the context is alive and the widget exists (the foreign
\* key of widget_cache, enforced by the pragma in Open); errors are only logged.
Upsert(t, data, status) ==
  LET w == task[t].w IN
  cache' = IF task[t].alive /\ Exists(w)
           THEN [cache EXCEPT ![w] = [data |-> data, status |-> status,
                                      expired |-> FALSE]]
           ELSE cache

Store(t) ==
  /\ task[t].pc = "store"
  /\ Upsert(t, <<task[t].conf, task[t].link>>, "ok")
  /\ Goto(t, "done")
  /\ UNCHANGED <<tables, health, flags>>

\* markErr: is there a value to keep?
MarkErr(t) ==
  /\ task[t].pc = "look"
  /\ Goto(t, IF task[t].alive /\ cache[task[t].w] # NoRow THEN "markStale"
             ELSE "markError")
  /\ UNCHANGED <<tables, health, cache, flags>>

\* MarkWidgetCacheStale leaves the value and its expiry alone.
MarkStale(t) ==
  LET w == task[t].w IN
  /\ task[t].pc = "markStale"
  /\ cache' = IF task[t].alive /\ cache[w] # NoRow
              THEN [cache EXCEPT ![w].status = "stale"] ELSE cache
  /\ Goto(t, "done")
  /\ UNCHANGED <<tables, health, flags>>

\* Mutant: a status the readers of the cache do not know.
MarkFailed(t) ==
  /\ task[t].pc = "markError"
  /\ Upsert(t, Null, "failed")
  /\ Goto(t, "done")
  /\ UNCHANGED <<tables, health, flags>>

MarkError(t) ==
  /\ task[t].pc = "markError"
  /\ Upsert(t, Null, "error")
  /\ Goto(t, "done")
  /\ UNCHANGED <<tables, health, flags>>

RefreshWidget(t) ==
  \/ ReadSources(t) \/ FetchOk(t) \/ FetchFails(t) \/ Store(t) \/ MarkErr(t)
  \/ MarkStale(t) \/ MarkError(t)

-----------------------------------------------------------------------------
(* Who calls it. *)

\* The administrator and the loop read the widget's row just before.
GetWidget(t) ==
  LET w == task[t].w IN
  /\ task[t].pc = "row"
  /\ task' = IF task[t].alive /\ Exists(w)
             THEN [task EXCEPT ![t].pc = "sources", ![t].conf = conf[w]]
             ELSE [task EXCEPT ![t].pc = "done"]
  /\ UNCHANGED <<tables, health, cache, flags>>

\* Mutant: only widgets that were never fetched.
NeverFetched == {w \in DOMAIN conf : cache[w] = NoRow}

\* ListExpiredWidgetIDs: widgets without a row, or with an expired one.
Expired == {w \in DOMAIN conf : cache[w] = NoRow \/ cache[w].expired}

\* A tick of the broker's loop, which only looks when the last round is over.
Scan ==
  /\ task[Loop].pc = "idle"
  /\ Expired # {}
  /\ \E w \in Expired :
       task' = [task EXCEPT ![Loop].pc = "row", ![Loop].w = w,
                            ![Loop].todo = {<<v, 0>> : v \in Expired \ {w}}]
  /\ UNCHANGED <<tables, health, cache, flags>>

\* The next widget of the round; without one the goroutine is free.  The
\* administrator's round looks whether the widget uses the source.
NextOfRound(t) ==
  /\ task[t].pc = "done"
  /\ task[t].kind \in {"loop", "source", "admin", "ticker"}
  /\ \/ /\ task[t].todo = {}
        /\ task' = [task EXCEPT ![t] = Idle(task[t].kind)]
     \/ \E next \in task[t].todo :
          task' = [task EXCEPT ![t].w = next[1], ![t].conf = next[2],
                     ![t].todo = @ \ {next},
                     ![t].pc = IF task[t].kind = "loop" THEN "row"
                               ELSE IF task[t].alive /\ next[1] \in users
                               THEN "sources" ELSE "done"]
  /\ UNCHANGED <<tables, health, cache, flags>>

\* cellForWidget has read the widget's row, tickerItems only its id.
Show(t, w) ==
  /\ task[t].pc = "idle" /\ t # Loop
  /\ Exists(w)
  /\ task' = [task EXCEPT ![t] = [Idle("show") EXCEPT !.pc = "peek", !.w = w,
                                                      !.conf = conf[w]]]
  /\ UNCHANGED <<tables, health, cache, flags>>

Ticker(t, w) ==
  /\ task[t].pc = "idle" /\ t # Loop
  /\ cache[w] = NoRow
  /\ task' = [task EXCEPT ![t] = [Idle("ticker") EXCEPT !.pc = "row", !.w = w]]
  /\ UNCHANGED <<tables, health, cache, flags>>

\* Nothing cached yet: fetch now, within 2 s; else refresh in the background.
Peek(t) ==
  /\ task[t].pc = "peek"
  /\ Goto(t, IF cache[task[t].w] = NoRow THEN "sources" ELSE "spawn")
  /\ UNCHANGED <<tables, health, cache, flags>>

\* After the bounded fetch: no row, or none that could be read because the
\* client has hung up, means a refresh in the background.
Recheck(t) ==
  /\ task[t].pc = "done" /\ task[t].kind = "show"
  /\ \/ Goto(t, "spawn")
     \/ /\ cache[task[t].w] # NoRow
        /\ task' = [task EXCEPT ![t] = Idle("show")]
  /\ UNCHANGED <<tables, health, cache, flags>>

\* Mutant: only the throttle keeps a second refresh away.
BgRefreshThrottled(t) ==
  LET w == task[t].w IN
  /\ task[t].pc = "spawn"
  /\ IF recent[w]
     THEN /\ task' = [task EXCEPT ![t] = Idle("show")]
          /\ UNCHANGED flags
     ELSE /\ task' = [task EXCEPT ![t].kind = "bg", ![t].pc = "sources",
                                  ![t].alive = TRUE]
          /\ refreshing' = [refreshing EXCEPT ![w] = TRUE]
          /\ recent' = [recent EXCEPT ![w] = TRUE]
  /\ UNCHANGED <<tables, health, cache>>

\* bgRefresh under refMu.  The request goes on to render, so its record turns
\* into the detached goroutine, which keeps the row the request had read.
BgRefresh(t) ==
  LET w == task[t].w IN
  /\ task[t].pc = "spawn"
  /\ IF refreshing[w] \/ recent[w]
     THEN /\ task' = [task EXCEPT ![t] = Idle("show")]
          /\ UNCHANGED flags
     ELSE /\ task' = [task EXCEPT ![t].kind = "bg", ![t].pc = "sources",
                                  ![t].alive = TRUE]
          /\ refreshing' = [refreshing EXCEPT ![w] = TRUE]
          /\ recent' = [recent EXCEPT ![w] = TRUE]
  /\ UNCHANGED <<tables, health, cache>>

\* The deferred delete of the flag.
BgDone(t) ==
  /\ task[t].pc = "done" /\ task[t].kind = "bg"
  /\ refreshing' = [refreshing EXCEPT ![task[t].w] = FALSE]
  /\ task' = [task EXCEPT ![t] = Idle("show")]
  /\ UNCHANGED <<tables, health, cache, recent>>

-----------------------------------------------------------------------------
(* The administrator. *)

\* handleWidgetUpdate: save the row, then refresh with it.
UpdateWidget(t, w) ==
  /\ task[t].pc = "idle" /\ t # Loop
  /\ edits < MaxEdits /\ Exists(w)
  /\ conf' = [conf EXCEPT ![w] = @ + 1]
  /\ task' = [task EXCEPT ![t] = [Idle("admin") EXCEPT !.pc = "row", !.w = w]]
  /\ edits' = edits + 1
  /\ UNCHANGED <<link, users, health, restarts, cache, flags>>

\* handleWidgetSource*: add, remove or change a link, then refresh the widget.
UpdateLink(t, w) ==
  /\ task[t].pc = "idle" /\ t # Loop
  /\ edits < MaxEdits /\ Exists(w)
  /\ link' = [link EXCEPT ![w] = @ + 1]
  /\ \/ users' \in {users, users \ {w}}
     \/ health # "gone" /\ users' = users \cup {w}
  /\ task' = [task EXCEPT ![t] = [Idle("admin") EXCEPT !.pc = "row", !.w = w]]
  /\ edits' = edits + 1
  /\ UNCHANGED <<conf, health, restarts, cache, flags>>

\* The source's row changes, or goes: so do its users' sources.
TouchSource ==
  link' = [w \in Widgets |-> IF w \in users THEN link[w] + 1 ELSE link[w]]

\* handleDataSourceUpdate: save the source, list the widgets, refresh its users
\* one after the other with the rows that were listed.
UpdateSource(t) ==
  /\ task[t].pc = "idle" /\ t # Loop
  /\ edits < MaxEdits /\ health # "gone"
  /\ TouchSource
  /\ task' = [task EXCEPT ![t] =
                [Idle("source") EXCEPT !.pc = "done",
                   !.todo = {<<w, conf[w]>> : w \in DOMAIN conf}]]
  /\ edits' = edits + 1
  /\ UNCHANGED <<conf, users, health, restarts, cache, flags>>

\* handleDataSourceDelete removes the links and refreshes nothing.
DeleteSource ==
  /\ edits < MaxEdits /\ health # "gone"
  /\ TouchSource
  /\ users' = {}
  /\ health' = "gone"
  /\ edits' = edits + 1
  /\ UNCHANGED <<conf, restarts, cache, task, flags>>

\* handleWidgetDelete; cache row and links go with the widget (ON DELETE
\* CASCADE).
DeleteWidget(w) ==
  /\ edits < MaxEdits /\ Exists(w)
  /\ conf' = [v \in DOMAIN conf \ {w} |-> conf[v]]
  /\ cache' = [cache EXCEPT ![w] = NoRow]
  /\ users' = users \ {w}
  /\ edits' = edits + 1
  /\ UNCHANGED <<link, health, restarts, task, flags>>

-----------------------------------------------------------------------------
(* Time and failures. *)

\* A request's context ends: the 2 s of the read path are over, or the client
\* of a request hung up.  The loop and detached refreshes are not bound to one.
Cancel(t) ==
  /\ task[t].pc \notin {"idle", "peek", "spawn"}
  /\ task[t].kind \in {"show", "ticker", "admin", "source"}
  /\ task[t].alive
  /\ task' = [task EXCEPT ![t].alive = FALSE]
  /\ UNCHANGED <<tables, health, cache, flags>>

\* expires_at passes.
Expire(w) ==
  /\ cache[w] # NoRow /\ ~ cache[w].expired
  /\ cache' = [cache EXCEPT ![w].expired = TRUE]
  /\ UNCHANGED <<tables, health, task, flags>>

\* The throttle interval of bgRefresh passes.
ThrottleEnds(w) ==
  /\ recent[w]
  /\ recent' = [recent EXCEPT ![w] = FALSE]
  /\ UNCHANGED <<tables, health, cache, task, refreshing>>

\* The process dies and starts again: only the database survives, and the cache
\* only if the new build stores data in the same form (invalidateStaleCache).
Restart ==
  /\ restarts < MaxRestarts
  /\ restarts' = restarts + 1
  /\ task' = [t \in Goroutines |-> Idle(IF t = Loop THEN "loop" ELSE "show")]
  /\ refreshing' = [w \in Widgets |-> FALSE]
  /\ recent' = [w \in Widgets |-> FALSE]
  /\ cache' \in {cache, [w \in Widgets |-> NoRow]}
  /\ UNCHANGED <<conf, link, users, health, edits>>

-----------------------------------------------------------------------------
TaskStep(t) ==
  \/ RefreshWidget(t) \/ GetWidget(t) \/ NextOfRound(t)
  \/ Peek(t) \/ Recheck(t) \/ BgRefresh(t) \/ BgDone(t)

Arrival(t) ==
  \/ \E w \in Widgets : \/ Show(t, w) \/ Ticker(t, w)
                        \/ UpdateWidget(t, w) \/ UpdateLink(t, w)
  \/ UpdateSource(t)

Step ==
  \/ \E t \in Goroutines : TaskStep(t) \/ Cancel(t)
  \/ \E t \in Tasks : Arrival(t)
  \/ Scan
  \/ DeleteSource
  \/ \E w \in Widgets : DeleteWidget(w) \/ Expire(w) \/ ThrottleEnds(w)
  \/ Restart

Spec == Init /\ [][Step]_vars

\* refreshOAuth talks to the token endpoint through the default HTTP client,
\* which has no timeout: with the contexts of the loop and of bgRefresh, nothing
\* bounds the call.
WaitsForToken(t) == task[t].pc = "sources" /\ task[t].w \in TokenWidgets

\* Goroutines run, fetches end (widget.httpClient has a timeout), time passes,
\* and a source that the loop asks again and again answers some time.
Fairness ==
  /\ \A t \in Goroutines : WF_vars(~ WaitsForToken(t) /\ TaskStep(t))
  /\ \A w \in Widgets :
       /\ SF_vars(/\ task[Loop].w = w /\ ~ WaitsForToken(Loop)
                  /\ ReadSources(Loop) /\ task'[Loop].pc = "fetch")
       /\ SF_vars(task[Loop].w = w /\ FetchOk(Loop))
       /\ WF_vars(Expire(w)) /\ WF_vars(ThrottleEnds(w))
  /\ WF_vars(Scan)

FairSpec == Spec /\ Fairness

-----------------------------------------------------------------------------
(* Properties.                                                             *)

Pcs == {"idle", "peek", "row", "sources", "fetch", "store", "look", "markStale",
        "markError", "done", "spawn"}

TaskRecords == [pc : Pcs, kind : Kinds, w : Widgets \cup {NoWidget},
                conf : Versions, link : Versions, src : BOOLEAN, alive : BOOLEAN,
                todo : SUBSET (Widgets \X Versions)]

\* Every variable has its type.
TypeOK ==
  /\ DOMAIN conf \subseteq Widgets /\ conf \in [DOMAIN conf -> Versions]
  /\ link \in [Widgets -> Versions]
  /\ users \subseteq Widgets
  /\ health \in {"unset", "ok", "error", "gone"}
  /\ cache \in [Widgets -> Rows \cup {NoRow}]
  /\ task \in [Goroutines -> TaskRecords]
  /\ refreshing \in [Widgets -> BOOLEAN]
  /\ recent \in [Widgets -> BOOLEAN]
  /\ edits \in 0 .. MaxEdits
  /\ restarts \in 0 .. MaxRestarts

\* A refresh that was under way when its widget was deleted leaves no row
\* behind: the fetch may come back long after handleWidgetDelete.
NoOrphanRows == \A w \in Widgets : cache[w] # NoRow => Exists(w)

\* bgRefresh's flag is exact: it is set while, and only while, one detached
\* refresh of the widget runs.  Were it ever left set, the widget would not be
\* refreshed on show again; were it cleared early, refreshes would pile up.
RefreshingExact ==
  \A w \in Widgets :
    LET running == {t \in Tasks : task[t].kind = "bg" /\ task[t].w = w} IN
    /\ refreshing[w] <=> running # {}
    /\ \A t, u \in running : t = u

\* Whatever races and failures happened before, once edits stop the cache of
\* every widget comes to hold data fetched for its current configuration, and
\* keeps it: an overwritten result is repaired by the loop at the next expiry.
CacheConverges ==
  \A w \in Widgets :
    <>[](Exists(w) => /\ cache[w] # NoRow
                      /\ cache[w].data = <<conf[w], link[w]>>)

-----------------------------------------------------------------------------
(* What comments in the code say, and interleavings refute.                *)

\* widget/http.go, httpClient: "Keep timeouts short so a slow feed can't stall
\* the broker": the loop finishes every round.
LoopComesRound == []<>(task[Loop].pc = "idle")
=============================================================================
