-------------------------- MODULE WidgetCacheProofs --------------------------
(***************************************************************************)
(* Theorems about WidgetCache, for any number of widgets, requests and     *)
(* detached refreshes, and any bound on edits and restarts.                *)
(***************************************************************************)
EXTENDS WidgetCache, TLAPS

USE CacheConstants

\* Versions count edits.
VersionInv ==
  /\ \A w \in DOMAIN conf : conf[w] <= edits
  /\ \A w \in Widgets : link[w] <= edits

\* A goroutine that works in RefreshWidget has a widget; only the read path
\* peeks and spawns; a free goroutine is no detached refresh any more.
Legal == {r \in TaskRecords :
            /\ r.pc \notin {"idle", "done"} => r.w \in Widgets
            /\ r.pc = "done" /\ r.kind \in {"show", "bg"} => r.w \in Widgets
            /\ r.pc \in {"peek", "spawn"} => r.kind = "show"
            /\ r.pc = "idle" => r.kind # "bg"}

TypeInv ==
  /\ TypeOK
  /\ VersionInv
  /\ \A t \in Goroutines : task[t] \in Legal
  /\ task[Loop].kind = "loop"

LEMMA IdleIsLegal ==
  ASSUME NEW kind \in Kinds \ {"bg"}
  PROVE  Idle(kind) \in Legal
BY DEF Idle, Legal, TaskRecords, Kinds, Pcs, Versions

\* What is known of a goroutine's record before a step.
LEMMA TaskBefore ==
  ASSUME TypeInv, NEW t \in Goroutines
  PROVE  /\ task[t] \in TaskRecords
         /\ task[t] \in Legal
         /\ t = Loop => task[t].kind = "loop"
         /\ cache \in [Widgets -> Rows \cup {NoRow}]
         /\ health \in {"unset", "ok", "error", "gone"}
         /\ link \in [Widgets -> Versions]
BY DEF TypeInv, TypeOK

\* A step of one goroutine that leaves the tables alone is typed when its own
\* record, the cache and the flags are.
LEMMA TypeOfTask ==
  ASSUME TypeInv, NEW t \in Goroutines, NEW r \in Legal,
         task' = [task EXCEPT ![t] = r],
         t = Loop => r.kind = "loop",
         cache' \in [Widgets -> Rows \cup {NoRow}],
         health' \in {"unset", "ok", "error", "gone"},
         refreshing' \in [Widgets -> BOOLEAN], recent' \in [Widgets -> BOOLEAN],
         UNCHANGED tables
  PROVE  TypeInv'
<1>1. r \in TaskRecords
  BY DEF Legal
<1> HIDE DEF TaskRecords, Rows, Legal
<1>2. task' \in [Goroutines -> TaskRecords]
      /\ (\A u \in Goroutines : task'[u] \in Legal)
      /\ task'[Loop].kind = "loop"
  BY <1>1 DEF TypeInv, TypeOK, Goroutines
<1> QED BY <1>2 DEF TypeInv, TypeOK, VersionInv, tables, Versions

LEMMA TypeInit == Init => TypeInv
<1> SUFFICES ASSUME Init PROVE TypeInv
  OBVIOUS
<1>1. /\ task \in [Goroutines -> TaskRecords]
      /\ \A t \in Goroutines : task[t] \in Legal
  <2>1. \A t \in Goroutines : Idle(IF t = Loop THEN "loop" ELSE "show") \in Legal
    BY IdleIsLegal DEF Kinds
  <2>2. \A t \in Goroutines : Idle(IF t = Loop THEN "loop" ELSE "show") \in TaskRecords
    BY <2>1 DEF Legal
  <2> QED BY <2>1, <2>2, Zenon DEF Init
<1>2. task[Loop].kind = "loop"
  BY DEF Init, Idle, Goroutines
<1>3. /\ DOMAIN conf = Widgets /\ conf \in [Widgets -> {0}]
      /\ link \in [Widgets -> {0}] /\ edits = 0
  BY DEF Init
<1>4. VersionInv
  BY <1>3 DEF VersionInv
<1>5. conf \in [DOMAIN conf -> Versions] /\ link \in [Widgets -> Versions]
      /\ edits \in 0 .. MaxEdits
  BY <1>3 DEF Versions
<1>6. cache \in [Widgets -> Rows \cup {NoRow}]
  BY Zenon DEF Init
<1>7. refreshing \in [Widgets -> BOOLEAN] /\ recent \in [Widgets -> BOOLEAN]
  <2>1. refreshing = [w \in Widgets |-> FALSE] /\ recent = [w \in Widgets |-> FALSE]
    BY DEF Init
  <2> QED BY <2>1
<1>8. /\ users \subseteq Widgets /\ health \in {"unset", "ok", "error", "gone"}
      /\ restarts \in 0 .. MaxRestarts
  <2>1. users = Users /\ health = "unset" /\ restarts = 0
    BY Zenon DEF Init
  <2>2. health \in {"unset", "ok", "error", "gone"}
    BY <2>1
  <2>3. users \subseteq Widgets /\ restarts \in 0 .. MaxRestarts
    BY <2>1
  <2> QED BY <2>2, <2>3
<1> QED BY <1>1, <1>2, <1>3, <1>4, <1>5, <1>6, <1>7, <1>8, Zenon DEF TypeInv, TypeOK

\* An upsert leaves rows behind.
LEMMA UpsertRows ==
  ASSUME TypeInv, NEW t \in Goroutines, NEW data \in Data,
         NEW status \in {"ok", "stale", "error"}, Upsert(t, data, status)
  PROVE  cache' \in [Widgets -> Rows \cup {NoRow}]
<1>1. [data |-> data, status |-> status, expired |-> FALSE] \in Rows
  BY DEF Rows
<1> HIDE DEF Rows
<1> QED BY <1>1 DEF Upsert, TypeInv, TypeOK

\* A row stays a row when its status or its expiry is set anew, wherever it is.
LEMMA RowAmended ==
  ASSUME cache \in [Widgets -> Rows \cup {NoRow}], NEW w, cache[w] # NoRow
  PROVE  /\ [cache EXCEPT ![w].status = "stale"] \in [Widgets -> Rows \cup {NoRow}]
         /\ [cache EXCEPT ![w].expired = TRUE] \in [Widgets -> Rows \cup {NoRow}]
<1>1. CASE w \in Widgets
  <2> DEFINE row == cache[w]
             stale == [row EXCEPT !.status = "stale"]
             expired == [row EXCEPT !.expired = TRUE]
  <2>1. row \in Rows
    BY <1>1
  <2> HIDE DEF row
  <2>2. stale \in Rows /\ expired \in Rows
    BY <2>1 DEF Rows
  <2> HIDE DEF stale, expired, Rows
  <2>3. /\ [cache EXCEPT ![w] = stale] \in [Widgets -> Rows \cup {NoRow}]
        /\ [cache EXCEPT ![w] = expired] \in [Widgets -> Rows \cup {NoRow}]
    BY <1>1, <2>2
  <2> QED BY <2>3 DEF stale, expired, row
<1>2. CASE w \notin Widgets
  <2>1. w \notin DOMAIN cache
    BY <1>2
  <2> HIDE DEF Rows
  <2>2. /\ [cache EXCEPT ![w].status = "stale"] = cache
        /\ [cache EXCEPT ![w].expired = TRUE] = cache
    BY <2>1
  <2> QED BY <2>2
<1> QED BY <1>1, <1>2

\* Inside RefreshWidget a goroutine goes from place to place with its widget.
LEMMA GotoIsLegal ==
  ASSUME TypeInv, NEW t \in Goroutines, task[t].pc \notin {"idle", "done"},
         NEW label \in Pcs \ {"idle", "peek", "spawn"}
  PROVE  /\ [task[t] EXCEPT !.pc = label] \in Legal
         /\ [task[t] EXCEPT !.pc = label].kind = task[t].kind
BY TaskBefore DEF Legal, TaskRecords

LEMMA FlagsTyped ==
  ASSUME TypeInv, UNCHANGED flags
  PROVE  refreshing' \in [Widgets -> BOOLEAN] /\ recent' \in [Widgets -> BOOLEAN]
BY DEF TypeInv, TypeOK, flags

LEMMA TypeGoto ==
  ASSUME TypeInv, NEW t \in Goroutines, task[t].pc \notin {"idle", "done"},
         NEW label \in Pcs \ {"idle", "peek", "spawn"}, Goto(t, label),
         cache' \in [Widgets -> Rows \cup {NoRow}],
         health' \in {"unset", "ok", "error", "gone"},
         UNCHANGED <<tables, flags>>
  PROVE  TypeInv'
<1>1. task' = [task EXCEPT ![t] = [task[t] EXCEPT !.pc = label]]
  BY DEF Goto
<1> QED BY <1>1, GotoIsLegal, TaskBefore, TypeOfTask, FlagsTyped

LEMMA TypeRefresh ==
  ASSUME TypeInv, NEW t \in Goroutines, RefreshWidget(t)
  PROVE  TypeInv'
<1>1. CASE ReadSources(t)
  <2>1. PICK next \in {"fetch", "look"} :
          task' = [task EXCEPT ![t].pc = next, ![t].link = link[task[t].w],
                               ![t].src = task[t].alive /\ task[t].w \in users]
    BY <1>1 DEF ReadSources
  <2>2. PICK b \in BOOLEAN : b = (task[t].alive /\ task[t].w \in users)
    <3>1. (task[t].alive /\ task[t].w \in users) \in BOOLEAN
      BY Zenon
    <3> QED BY <3>1, Zenon
  <2>3. task' = [task EXCEPT ![t].pc = next, ![t].link = link[task[t].w], ![t].src = b]
    BY <2>1, <2>2, Zenon
  <2> DEFINE r == [task[t] EXCEPT !.pc = next, !.link = link[task[t].w], !.src = b]
  <2>4. link[task[t].w] \in Versions
    BY <1>1, TaskBefore DEF ReadSources, Legal
  <2>5. r \in Legal /\ r.kind = task[t].kind
    <3>1. task[t] \in TaskRecords /\ task[t].w \in Widgets /\ next \in Pcs
      BY <1>1, TaskBefore DEF ReadSources, Legal, Pcs
    <3>2. r \in TaskRecords
      BY <2>4, <3>1 DEF TaskRecords
    <3>3. r.pc = next /\ r.w = task[t].w /\ r.kind = task[t].kind
      BY <3>1 DEF TaskRecords
    <3> HIDE DEF r
    <3> QED BY <3>1, <3>2, <3>3 DEF Legal
  <2>6. task' = [task EXCEPT ![t] = r]
    BY <2>3
  <2> QED BY <1>1, <2>5, <2>6, TaskBefore, TypeOfTask, FlagsTyped DEF ReadSources
<1>2. CASE FetchOk(t)
  BY <1>2, TaskBefore, TypeGoto DEF FetchOk, Pcs, RecordHealth
<1>3. CASE FetchFails(t)
  BY <1>3, TaskBefore, TypeGoto DEF FetchFails, Pcs, RecordHealth
<1>4. CASE Store(t)
  <2>1. <<task[t].conf, task[t].link>> \in Data
    BY TaskBefore DEF TaskRecords, Data
  <2>2. cache' \in [Widgets -> Rows \cup {NoRow}]
    BY <1>4, <2>1, UpsertRows DEF Store
  <2> QED BY <1>4, <2>2, TaskBefore, TypeGoto DEF Store, Pcs
<1>5. CASE MarkErr(t)
  BY <1>5, TaskBefore, TypeGoto DEF MarkErr, Pcs
<1>6. CASE MarkStale(t)
  <2>1. cache' \in [Widgets -> Rows \cup {NoRow}]
    BY <1>6, TaskBefore, RowAmended DEF MarkStale
  <2> QED BY <1>6, <2>1, TaskBefore, TypeGoto DEF MarkStale, Pcs
<1>7. CASE MarkError(t)
  <2>1. cache' \in [Widgets -> Rows \cup {NoRow}]
    BY <1>7, UpsertRows DEF MarkError, Data
  <2> QED BY <1>7, <2>1, TaskBefore, TypeGoto DEF MarkError, Pcs
<1> QED BY <1>1, <1>2, <1>3, <1>4, <1>5, <1>6, <1>7 DEF RefreshWidget

\* What goroutines do outside RefreshWidget.
LEMMA TypeCallers ==
  ASSUME TypeInv, NEW t \in Goroutines,
         \/ GetWidget(t) \/ NextOfRound(t) \/ Peek(t) \/ Recheck(t)
         \/ BgRefresh(t) \/ BgDone(t) \/ Cancel(t)
  PROVE  TypeInv'
<1>1. CASE GetWidget(t)
  <2>1. CASE task[t].alive /\ Exists(task[t].w)
    <3> DEFINE r == [task[t] EXCEPT !.pc = "sources", !.conf = conf[task[t].w]]
    <3>1. conf[task[t].w] \in Versions
      BY <2>1 DEF Exists, TypeInv, TypeOK
    <3>2. r \in Legal /\ r.kind = task[t].kind
      <4>1. task[t] \in TaskRecords /\ task[t].w \in Widgets /\ "sources" \in Pcs
        BY <1>1, TaskBefore DEF GetWidget, Legal, Pcs
      <4>2. r \in TaskRecords
        BY <3>1, <4>1 DEF TaskRecords
      <4>3. r.pc = "sources" /\ r.w = task[t].w /\ r.kind = task[t].kind
        BY <4>1 DEF TaskRecords
      <4> HIDE DEF r
      <4> QED BY <4>1, <4>2, <4>3 DEF Legal
    <3>3. task' = [task EXCEPT ![t] = r]
      BY <1>1, <2>1 DEF GetWidget
    <3> QED BY <1>1, <3>2, <3>3, TaskBefore, TypeOfTask, FlagsTyped DEF GetWidget
  <2>2. CASE ~ (task[t].alive /\ Exists(task[t].w))
    BY <1>1, <2>2, TaskBefore, TypeGoto DEF GetWidget, Goto, Pcs
  <2> QED BY <2>1, <2>2
<1>2. CASE NextOfRound(t)
  <2>1. CASE task' = [task EXCEPT ![t] = Idle(task[t].kind)]
    <3>1. Idle(task[t].kind) \in Legal /\ Idle(task[t].kind).kind = task[t].kind
      BY <1>2, IdleIsLegal DEF NextOfRound, Kinds, Idle
    <3> QED BY <1>2, <2>1, <3>1, TaskBefore, TypeOfTask, FlagsTyped DEF NextOfRound
  <2>2. ASSUME NEW next \in task[t].todo, NEW label \in {"row", "sources", "done"},
               task' = [task EXCEPT ![t].w = next[1], ![t].conf = next[2],
                                    ![t].todo = @ \ {next}, ![t].pc = label]
        PROVE  TypeInv'
    <3>1. PICK w \in Widgets, c \in Versions : w = next[1] /\ c = next[2]
      BY TaskBefore DEF TaskRecords
    <3>2. PICK rest \in SUBSET (Widgets \X Versions) : rest = task[t].todo \ {next}
      BY TaskBefore DEF TaskRecords
    <3> DEFINE r == [task[t] EXCEPT !.w = w, !.conf = c, !.todo = rest, !.pc = label]
    <3>3. r \in Legal /\ r.kind = task[t].kind
      <4> label \in Pcs /\ task[t] \in TaskRecords
        BY TaskBefore DEF Pcs
      <4>1. r \in TaskRecords
        BY DEF TaskRecords
      <4>2. r.pc = label /\ r.w = w /\ r.kind = task[t].kind
        BY TaskBefore DEF TaskRecords
      <4> HIDE DEF r
      <4> QED BY <4>1, <4>2 DEF Legal
    <3>4. task' = [task EXCEPT ![t] = r]
      BY <2>2, <3>1, <3>2
    <3> QED BY <1>2, <3>3, <3>4, TaskBefore, TypeOfTask, FlagsTyped DEF NextOfRound
  <2> QED BY <1>2, <2>1, <2>2 DEF NextOfRound
<1>3. CASE Peek(t)
  <2>1. PICK label \in {"sources", "spawn"} : task' = [task EXCEPT ![t].pc = label]
    BY <1>3 DEF Peek, Goto
  <2> DEFINE r == [task[t] EXCEPT !.pc = label]
  <2>2. r \in Legal /\ r.kind = task[t].kind
    <3>1. /\ task[t] \in TaskRecords /\ task[t].w \in Widgets /\ task[t].kind = "show"
          /\ label \in Pcs
      BY <1>3, TaskBefore DEF Peek, Legal, Pcs
    <3>2. r \in TaskRecords
      BY <3>1 DEF TaskRecords
    <3>3. r.pc = label /\ r.w = task[t].w /\ r.kind = task[t].kind
      BY <3>1 DEF TaskRecords
    <3> HIDE DEF r
    <3> QED BY <3>1, <3>2, <3>3 DEF Legal
  <2>3. task' = [task EXCEPT ![t] = r]
    BY <2>1
  <2> QED BY <1>3, <2>2, <2>3, TaskBefore, TypeOfTask, FlagsTyped DEF Peek
<1>4. CASE Recheck(t)
  <2>1. t # Loop
    BY <1>4, TaskBefore DEF Recheck
  <2>2. CASE task' = [task EXCEPT ![t] = Idle("show")]
    <3>1. Idle("show") \in Legal
      BY IdleIsLegal DEF Kinds
    <3> QED BY <1>4, <2>1, <2>2, <3>1, TaskBefore, TypeOfTask, FlagsTyped DEF Recheck
  <2>3. CASE Goto(t, "spawn")
    <3> DEFINE r == [task[t] EXCEPT !.pc = "spawn"]
    <3>1. r \in Legal
      <4> task[t] \in TaskRecords /\ "spawn" \in Pcs
        BY TaskBefore DEF Pcs
      <4>1. r \in TaskRecords
        BY DEF TaskRecords
      <4>2. r.pc = "spawn" /\ r.kind = task[t].kind /\ r.w = task[t].w
        BY DEF TaskRecords
      <4>3. task[t].w \in Widgets /\ task[t].kind = "show"
        BY <1>4, TaskBefore DEF Recheck, Legal
      <4> HIDE DEF r
      <4> QED BY <4>1, <4>2, <4>3 DEF Legal
    <3>2. task' = [task EXCEPT ![t] = r]
      BY <2>3 DEF Goto
    <3> QED BY <1>4, <2>1, <3>1, <3>2, TaskBefore, TypeOfTask, FlagsTyped DEF Recheck
  <2> QED BY <1>4, <2>2, <2>3 DEF Recheck
<1>5. CASE BgRefresh(t)
  <2>1. t # Loop
    BY <1>5, TaskBefore DEF BgRefresh, Legal
  <2>2. CASE refreshing[task[t].w] \/ recent[task[t].w]
    <3>1. Idle("show") \in Legal
      BY IdleIsLegal DEF Kinds
    <3>2. task' = [task EXCEPT ![t] = Idle("show")] /\ UNCHANGED flags
      BY <1>5, <2>2 DEF BgRefresh
    <3> QED BY <1>5, <2>1, <3>1, <3>2, TaskBefore, TypeOfTask, FlagsTyped DEF BgRefresh
  <2>3. CASE ~ (refreshing[task[t].w] \/ recent[task[t].w])
    <3> DEFINE r == [task[t] EXCEPT !.kind = "bg", !.pc = "sources", !.alive = TRUE]
    <3>1. r \in Legal
      <4> task[t] \in TaskRecords /\ "bg" \in Kinds /\ "sources" \in Pcs
        BY TaskBefore DEF Pcs, Kinds
      <4>1. r \in TaskRecords
        BY DEF TaskRecords
      <4>2. r.pc = "sources" /\ r.kind = "bg" /\ r.w = task[t].w
        BY DEF TaskRecords
      <4>3. task[t].w \in Widgets
        BY <1>5, TaskBefore DEF BgRefresh, Legal
      <4> HIDE DEF r
      <4> QED BY <4>1, <4>2, <4>3 DEF Legal
    <3>2. /\ task' = [task EXCEPT ![t] = r]
          /\ refreshing' = [refreshing EXCEPT ![task[t].w] = TRUE]
          /\ recent' = [recent EXCEPT ![task[t].w] = TRUE]
      BY <1>5, <2>3 DEF BgRefresh
    <3>3. refreshing' \in [Widgets -> BOOLEAN] /\ recent' \in [Widgets -> BOOLEAN]
      BY <3>2 DEF TypeInv, TypeOK
    <3> QED BY <1>5, <2>1, <3>1, <3>2, <3>3, TaskBefore, TypeOfTask DEF BgRefresh
  <2> QED BY <2>2, <2>3
<1>6. CASE BgDone(t)
  <2>1. Idle("show") \in Legal
    BY IdleIsLegal DEF Kinds
  <2>2. t # Loop
    BY <1>6, TaskBefore DEF BgDone
  <2>3. refreshing' \in [Widgets -> BOOLEAN] /\ recent' \in [Widgets -> BOOLEAN]
    BY <1>6 DEF BgDone, TypeInv, TypeOK
  <2> QED BY <1>6, <2>1, <2>2, <2>3, TaskBefore, TypeOfTask DEF BgDone
<1>7. CASE Cancel(t)
  <2> DEFINE r == [task[t] EXCEPT !.alive = FALSE]
  <2>1. r \in Legal /\ r.kind = task[t].kind
    BY TaskBefore DEF TaskRecords, Legal
  <2>2. task' = [task EXCEPT ![t] = r]
    BY <1>7 DEF Cancel
  <2> QED BY <1>7, <2>1, <2>2, TaskBefore, TypeOfTask, FlagsTyped DEF Cancel
<1> QED BY <1>1, <1>2, <1>3, <1>4, <1>5, <1>6, <1>7

\* A goroutine that starts to work on a widget.
LEMMA StartIsLegal ==
  ASSUME NEW kind \in {"ticker", "admin"}, NEW w \in Widgets
  PROVE  [Idle(kind) EXCEPT !.pc = "row", !.w = w] \in Legal
<1>1. Idle(kind) \in TaskRecords /\ Idle(kind).kind = kind
  BY IdleIsLegal DEF Legal, Idle, Kinds
<1> HIDE DEF Idle
<1> QED BY <1>1 DEF TaskRecords, Legal, Pcs

LEMMA ShowIsLegal ==
  ASSUME NEW w \in Widgets, NEW c \in Versions
  PROVE  [Idle("show") EXCEPT !.pc = "peek", !.w = w, !.conf = c] \in Legal
<1>1. Idle("show") \in TaskRecords /\ Idle("show").kind = "show"
  BY IdleIsLegal DEF Legal, Idle, Kinds
<1> HIDE DEF Idle
<1> QED BY <1>1 DEF TaskRecords, Legal, Pcs

\* What requests start.
LEMMA TypeArrivals ==
  ASSUME TypeInv, NEW t \in Tasks, NEW w \in Widgets, Show(t, w) \/ Ticker(t, w)
  PROVE  TypeInv'
<1>1. t \in Goroutines /\ t # Loop
  BY DEF Goroutines
<1>2. CASE Show(t, w)
  <2>1. conf[w] \in Versions
    BY <1>2 DEF Show, Exists, TypeInv, TypeOK
  <2>2. [Idle("show") EXCEPT !.pc = "peek", !.w = w, !.conf = conf[w]] \in Legal
    BY <2>1, ShowIsLegal
  <2> QED BY <1>1, <1>2, <2>2, TaskBefore, TypeOfTask, FlagsTyped DEF Show
<1>3. CASE Ticker(t, w)
  <2>1. [Idle("ticker") EXCEPT !.pc = "row", !.w = w] \in Legal
    BY StartIsLegal
  <2> QED BY <1>1, <1>3, <2>1, TaskBefore, TypeOfTask, FlagsTyped DEF Ticker
<1> QED BY <1>2, <1>3

\* A write by the administrator: the goroutine is a legal one, and versions are
\* counted up with the edits.
LEMMA TypeOfEdit ==
  ASSUME TypeInv, edits < MaxEdits, edits' = edits + 1, NEW t \in Goroutines, NEW r \in Legal,
         t = Loop => r.kind = "loop",
         task' = task \/ task' = [task EXCEPT ![t] = r],
         DOMAIN conf' \subseteq DOMAIN conf, conf' \in [DOMAIN conf' -> Versions],
         \A w \in DOMAIN conf' : conf'[w] \in Nat /\ conf'[w] <= edits + 1,
         link' \in [Widgets -> Nat], \A w \in Widgets : link'[w] <= edits + 1,
         users' \subseteq Widgets, health' \in {"unset", "ok", "error", "gone"},
         cache' \in [Widgets -> Rows \cup {NoRow}],
         UNCHANGED <<restarts, flags>>
  PROVE  TypeInv'
<1>1. /\ task' \in [Goroutines -> TaskRecords]
      /\ \A u \in Goroutines : task'[u] \in Legal
      /\ task'[Loop].kind = "loop"
  <2>1. r \in TaskRecords
    BY DEF Legal
  <2> HIDE DEF Legal, TaskRecords
  <2> QED BY <2>1 DEF TypeInv, TypeOK, Goroutines
<1>2. link' \in [Widgets -> Versions]
  BY DEF Versions, TypeInv, TypeOK
<1>3. VersionInv'
  BY DEF VersionInv
<1>4. DOMAIN conf' \subseteq Widgets /\ edits' \in 0 .. MaxEdits /\ restarts' \in 0 .. MaxRestarts
  BY DEF TypeInv, TypeOK
<1>5. refreshing' \in [Widgets -> BOOLEAN] /\ recent' \in [Widgets -> BOOLEAN]
  BY FlagsTyped
<1> QED BY <1>1, <1>2, <1>3, <1>4, <1>5, Zenon DEF TypeInv, TypeOK

LEMMA TypeEdits ==
  ASSUME TypeInv, NEW t \in Goroutines, NEW w,
         \/ UpdateWidget(t, w) \/ UpdateLink(t, w) \/ UpdateSource(t)
         \/ DeleteSource \/ DeleteWidget(w)
  PROVE  TypeInv'
<1>1. w \in Widgets => [Idle("admin") EXCEPT !.pc = "row", !.w = w] \in Legal
  BY StartIsLegal
<1>2. /\ conf \in [DOMAIN conf -> Versions] /\ DOMAIN conf \subseteq Widgets
      /\ \A v \in DOMAIN conf : conf[v] \in Nat /\ conf[v] <= edits + 1
  BY DEF TypeInv, TypeOK, VersionInv, Versions
<1>3. /\ link \in [Widgets -> Nat]
      /\ \A v \in Widgets : /\ link[v] \in Nat
                            /\ link[v] + 1 <= edits + 1 /\ link[v] <= edits + 1
      /\ edits \in Nat /\ edits <= MaxEdits
  BY DEF TypeInv, TypeOK, VersionInv, Versions
<1>4. /\ users \subseteq Widgets /\ health \in {"unset", "ok", "error", "gone"}
      /\ cache \in [Widgets -> Rows \cup {NoRow}]
  BY DEF TypeInv, TypeOK
<1>5. TouchSource => /\ link' \in [Widgets -> Nat]
                     /\ \A v \in Widgets : link'[v] <= edits + 1
  BY <1>3 DEF TouchSource
<1>6. CASE UpdateWidget(t, w)
  <2> w \in Widgets
    BY <1>2, <1>6 DEF UpdateWidget, Exists
  <2>1. /\ DOMAIN conf' = DOMAIN conf /\ conf' \in [DOMAIN conf' -> Versions]
        /\ \A v \in DOMAIN conf' : conf'[v] \in Nat /\ conf'[v] <= edits + 1
    BY <1>2, <1>3, <1>6 DEF UpdateWidget, Exists, TypeInv, VersionInv, Versions
  <2>2. \A v \in Widgets : link[v] <= edits + 1
    BY <1>3, Zenon
  <2> QED BY <1>1, <1>3, <1>4, <1>6, <2>1, <2>2, TypeOfEdit DEF UpdateWidget
<1>7. CASE UpdateLink(t, w)
  <2> w \in Widgets
    BY <1>2, <1>7 DEF UpdateLink, Exists
  <2>1. link' \in [Widgets -> Nat] /\ \A v \in Widgets : link'[v] <= edits + 1
    BY <1>3, <1>7 DEF UpdateLink
  <2>2. users' \subseteq Widgets
    BY <1>4, <1>7 DEF UpdateLink
  <2> QED BY <1>1, <1>2, <1>4, <1>7, <2>1, <2>2, TypeOfEdit DEF UpdateLink
<1>8. CASE UpdateSource(t)
  <2> DEFINE todo == {<<v, conf[v]>> : v \in DOMAIN conf}
             r == [Idle("source") EXCEPT !.pc = "done", !.todo = todo]
  <2>1. todo \in SUBSET (Widgets \X Versions)
    BY <1>2
  <2>2. Idle("source") \in TaskRecords /\ Idle("source").kind = "source"
    BY IdleIsLegal DEF Legal, Idle, Kinds
  <2>3. r \in Legal
    <3> HIDE DEF Idle, todo
    <3> QED BY <2>1, <2>2 DEF TaskRecords, Pcs, Legal
  <2>4. task' = [task EXCEPT ![t] = r]
    BY <1>8 DEF UpdateSource
  <2> QED BY <1>2, <1>4, <1>5, <1>8, <2>3, <2>4, TypeOfEdit DEF UpdateSource
<1>9. CASE DeleteSource
  BY <1>2, <1>4, <1>5, <1>9, TaskBefore, TypeOfEdit DEF DeleteSource
<1>10. CASE DeleteWidget(w)
  <2>1. /\ DOMAIN conf' \subseteq DOMAIN conf /\ conf' \in [DOMAIN conf' -> Versions]
        /\ \A v \in DOMAIN conf' : conf'[v] \in Nat /\ conf'[v] <= edits + 1
    BY <1>2, <1>10 DEF DeleteWidget
  <2>2. \A v \in Widgets : link[v] <= edits + 1
    BY <1>3, Zenon
  <2>3. cache' \in [Widgets -> Rows \cup {NoRow}] /\ users' \subseteq Widgets
    BY <1>4, <1>10 DEF DeleteWidget
  <2> QED BY <1>3, <1>4, <1>10, <2>1, <2>2, <2>3, TaskBefore, TypeOfEdit DEF DeleteWidget
<1> QED BY <1>6, <1>7, <1>8, <1>9, <1>10

\* Time and crashes.
LEMMA TypeTime ==
  ASSUME TypeInv, NEW w, Expire(w) \/ ThrottleEnds(w) \/ Scan \/ Restart
  PROVE  TypeInv'
<1>1. Loop \in Goroutines
  BY DEF Goroutines
<1>2. CASE Expire(w)
  <2>1. cache' \in [Widgets -> Rows \cup {NoRow}]
    BY <1>1, <1>2, TaskBefore, RowAmended DEF Expire
  <2> QED BY <1>2, <2>1 DEF Expire, TypeInv, TypeOK, VersionInv, tables, flags
<1>3. CASE ThrottleEnds(w)
  <2>1. recent' \in [Widgets -> BOOLEAN]
    BY <1>3 DEF ThrottleEnds, TypeInv, TypeOK
  <2> QED BY <1>3, <2>1 DEF ThrottleEnds, TypeInv, TypeOK, VersionInv, tables
<1>4. CASE Scan
  <2>1. PICK v \in Expired :
          task' = [task EXCEPT ![Loop].pc = "row", ![Loop].w = v,
                               ![Loop].todo = {<<u, 0>> : u \in Expired \ {v}}]
    BY <1>4 DEF Scan
  <2>2. Expired \subseteq Widgets /\ 0 \in Versions
    BY DEF Expired, TypeInv, TypeOK, Versions
  <2>3. PICK rest \in SUBSET (Widgets \X Versions) : rest = {<<u, 0>> : u \in Expired \ {v}}
    <3>1. {<<u, 0>> : u \in Expired \ {v}} \in SUBSET (Widgets \X Versions)
      BY <2>2
    <3> QED BY <3>1, Zenon
  <2> DEFINE r == [task[Loop] EXCEPT !.pc = "row", !.w = v, !.todo = rest]
  <2>4. r \in Legal /\ r.kind = task[Loop].kind
    <3>1. task[Loop] \in TaskRecords /\ v \in Widgets /\ "row" \in Pcs
      BY <1>1, <2>2, TaskBefore DEF Pcs
    <3>2. r \in TaskRecords
      BY <3>1 DEF TaskRecords
    <3>3. r.pc = "row" /\ r.w = v /\ r.kind = task[Loop].kind
      BY <3>1 DEF TaskRecords
    <3> HIDE DEF r
    <3> QED BY <3>1, <3>2, <3>3 DEF Legal
  <2>5. task' = [task EXCEPT ![Loop] = r]
    BY <2>1, <2>3
  <2> QED BY <1>1, <1>4, <2>4, <2>5, TaskBefore, TypeOfTask, FlagsTyped DEF Scan
<1>5. CASE Restart
  <2>1. /\ task' \in [Goroutines -> TaskRecords]
        /\ \A t \in Goroutines : task'[t] \in Legal
    <3>1. \A t \in Goroutines : Idle(IF t = Loop THEN "loop" ELSE "show") \in Legal
      BY IdleIsLegal DEF Kinds
    <3>2. \A t \in Goroutines : Idle(IF t = Loop THEN "loop" ELSE "show") \in TaskRecords
      BY <3>1 DEF Legal
    <3>3. task' = [t \in Goroutines |-> Idle(IF t = Loop THEN "loop" ELSE "show")]
      BY <1>5 DEF Restart
    <3> QED BY <3>1, <3>2, <3>3, Zenon
  <2>2. task'[Loop].kind = "loop"
    BY <1>1, <1>5 DEF Restart, Idle
  <2>3. refreshing' \in [Widgets -> BOOLEAN] /\ recent' \in [Widgets -> BOOLEAN]
    BY <1>5 DEF Restart
  <2>4. cache' \in [Widgets -> Rows \cup {NoRow}]
    BY <1>1, <1>5, TaskBefore DEF Restart
  <2>5. UNCHANGED <<conf, link, users, health, edits>> /\ restarts' \in 0 .. MaxRestarts
    BY <1>5 DEF Restart, TypeInv, TypeOK
  <2> QED BY <2>1, <2>2, <2>3, <2>4, <2>5 DEF TypeInv, TypeOK, VersionInv
<1> QED BY <1>2, <1>3, <1>4, <1>5

LEMMA TypeStep == TypeInv /\ [Step]_vars => TypeInv'
<1> SUFFICES ASSUME TypeInv, [Step]_vars PROVE TypeInv'
  OBVIOUS
<1>1. ASSUME NEW t \in Goroutines, TaskStep(t) \/ Cancel(t) PROVE TypeInv'
  BY <1>1, TypeRefresh, TypeCallers DEF TaskStep
<1>2. ASSUME NEW t \in Tasks, Arrival(t) PROVE TypeInv'
  BY <1>2, TypeArrivals, TypeEdits DEF Arrival, Goroutines
<1>3. CASE UNCHANGED vars
  BY <1>3 DEF vars, TypeInv, TypeOK, VersionInv
<1> QED BY <1>1, <1>2, <1>3, TypeEdits, TypeTime DEF Step, Goroutines

\* Every variable has its type: tables, cache, flags and every goroutine.
THEOREM TypeCorrect == Spec => []TypeOK
<1>1. TypeInv => TypeOK
  BY DEF TypeInv
<1> QED BY <1>1, TypeInit, TypeStep, PTL DEF Spec

-----------------------------------------------------------------------------
(* Safety.                                                                 *)

\* A late refresh leaves no row for a widget that is gone.
THEOREM NoRowIsOrphaned == Spec => []NoOrphanRows
<1>1. Init => NoOrphanRows
  BY DEF Init, NoOrphanRows
<1>2. TypeInv /\ NoOrphanRows /\ [Step]_vars => NoOrphanRows'
  <2> SUFFICES ASSUME TypeInv, NoOrphanRows, [Step]_vars PROVE NoOrphanRows'
    OBVIOUS
  <2>1. cache \in [Widgets -> Rows \cup {NoRow}]
    BY DEF TypeInv, TypeOK
  <2> HIDE DEF TypeInv
  <2>2. ASSUME NEW t, NEW data, NEW status, Upsert(t, data, status), UNCHANGED conf
        PROVE  NoOrphanRows'
    BY <2>1, <2>2 DEF Upsert, NoOrphanRows, Exists
  <2>3. ASSUME NEW t \in Goroutines, RefreshWidget(t)
        PROVE  NoOrphanRows'
    <3>1. CASE Store(t)
      BY <3>1, <2>2 DEF Store, tables
    <3>2. CASE MarkError(t)
      BY <3>2, <2>2 DEF MarkError, tables
    <3>3. CASE MarkStale(t)
      BY <3>3, <2>1 DEF MarkStale, NoOrphanRows, Exists, tables
    <3>4. CASE ReadSources(t) \/ FetchOk(t) \/ FetchFails(t) \/ MarkErr(t)
      BY <3>4 DEF ReadSources, FetchOk, FetchFails, MarkErr, NoOrphanRows, Exists, tables
    <3> QED BY <2>3, <3>1, <3>2, <3>3, <3>4 DEF RefreshWidget
  <2>4. ASSUME UNCHANGED cache, DOMAIN conf' = DOMAIN conf
        PROVE  NoOrphanRows'
    BY <2>4 DEF NoOrphanRows, Exists
  <2>5. ASSUME NEW t \in Goroutines,
               \/ GetWidget(t) \/ NextOfRound(t) \/ Peek(t) \/ Recheck(t)
               \/ BgRefresh(t) \/ BgDone(t) \/ Cancel(t)
        PROVE  NoOrphanRows'
    BY <2>4, <2>5 DEF GetWidget, NextOfRound, Peek, Recheck, BgRefresh, BgDone, Cancel, tables
  <2>6. ASSUME NEW t \in Tasks, Arrival(t)
        PROVE  NoOrphanRows'
    <3>1. CASE \E w \in Widgets : Show(t, w) \/ Ticker(t, w) \/ UpdateLink(t, w)
      BY <3>1, <2>4 DEF Show, Ticker, UpdateLink, tables
    <3>2. CASE \E w \in Widgets : UpdateWidget(t, w)
      BY <3>2, <2>4 DEF UpdateWidget
    <3>3. CASE UpdateSource(t)
      BY <3>3, <2>4 DEF UpdateSource
    <3> QED BY <2>6, <3>1, <3>2, <3>3 DEF Arrival
  <2>7. ASSUME NEW w \in Widgets, DeleteWidget(w)
        PROVE  NoOrphanRows'
    BY <2>1, <2>7 DEF DeleteWidget, NoOrphanRows, Exists
  <2>8. ASSUME NEW w \in Widgets, Expire(w) \/ ThrottleEnds(w)
        PROVE  NoOrphanRows'
    BY <2>1, <2>8 DEF Expire, ThrottleEnds, NoOrphanRows, Exists, tables
  <2>9. CASE Scan \/ DeleteSource \/ UNCHANGED vars
    BY <2>4, <2>9 DEF Scan, DeleteSource, vars, tables
  <2>10. CASE Restart
    BY <2>10 DEF Restart, NoOrphanRows, Exists
  <2> QED BY <2>3, <2>5, <2>6, <2>7, <2>8, <2>9, <2>10 DEF Step, TaskStep
<1> QED BY <1>1, <1>2, TypeInit, TypeStep, PTL DEF Spec

\* A step that changes no detached refresh, and no flag.
LEMMA SameRefreshes ==
  ASSUME RefreshingExact, refreshing' = refreshing,
         \A t \in Tasks : \/ task'[t].kind = task[t].kind /\ task'[t].w = task[t].w
                          \/ task[t].kind # "bg" /\ task'[t].kind # "bg"
  PROVE  RefreshingExact'
BY DEF RefreshingExact

\* A goroutine's own step, when it neither starts nor ends a detached refresh.
LEMMA OtherStep ==
  ASSUME TypeInv, RefreshingExact, refreshing' = refreshing, NEW t \in Goroutines, NEW r,
         task' = [task EXCEPT ![t] = r],
         \/ r.kind = task[t].kind /\ r.w = task[t].w
         \/ task[t].kind # "bg" /\ r.kind # "bg"
  PROVE  RefreshingExact'
<1> \A u \in Tasks : task'[u] = IF u = t THEN r ELSE task[u]
  BY DEF Goroutines, TypeInv, TypeOK
<1> QED BY SameRefreshes

\* t is a detached refresh of w.
Detached(t, w) == task[t].kind = "bg" /\ task[t].w = w

LEMMA ExactFlags ==
  RefreshingExact <=>
    \A w \in Widgets : /\ refreshing[w] <=> \E t \in Tasks : Detached(t, w)
                       /\ \A t, u \in Tasks : Detached(t, w) /\ Detached(u, w) => t = u
BY DEF RefreshingExact, Detached

LEMMA ExactFlagsAfter ==
  RefreshingExact' <=>
    \A w \in Widgets : /\ refreshing'[w] <=> \E t \in Tasks : Detached(t, w)'
                       /\ \A t, u \in Tasks : Detached(t, w)' /\ Detached(u, w)' => t = u
BY DEF RefreshingExact, Detached

\* bgRefresh's flag tells exactly whether a detached refresh of the widget runs,
\* and no more than one ever does.
THEOREM RefreshesAreDeduplicated == Spec => []RefreshingExact
<1>1. Init => RefreshingExact
  <2> SUFFICES ASSUME Init PROVE RefreshingExact
    OBVIOUS
  <2>1. \A t \in Tasks : task[t].kind = "show"
    BY DEF Init, Idle, Goroutines
  <2>2. \A w \in Widgets : refreshing[w] = FALSE
    BY DEF Init
  <2> QED BY <2>1, <2>2 DEF RefreshingExact
<1>2. TypeInv /\ RefreshingExact /\ [Step]_vars => RefreshingExact'
  <2> SUFFICES ASSUME TypeInv, RefreshingExact, [Step]_vars PROVE RefreshingExact'
    OBVIOUS
  <2>1. \A t \in Goroutines : task[t] \in Legal /\ task[t] \in TaskRecords
    BY TaskBefore
  <2>2. task \in [Goroutines -> TaskRecords] /\ refreshing \in [Widgets -> BOOLEAN]
    BY DEF TypeInv, TypeOK
  <2>3. ASSUME NEW t \in Goroutines, BgRefresh(t)
        PROVE  RefreshingExact'
    <3>1. task[t].kind = "show" /\ task[t].w \in Widgets /\ t \in Tasks
      BY <2>1, <2>3 DEF BgRefresh, Legal, Goroutines, TypeInv
    <3>2. CASE refreshing[task[t].w] \/ recent[task[t].w]
      <4>1. Idle("show").kind = "show"
        BY DEF Idle
      <4> QED BY <2>3, <3>1, <3>2, <4>1, OtherStep DEF BgRefresh, flags
    <3>3. CASE ~ (refreshing[task[t].w] \/ recent[task[t].w])
      <4>1. /\ task' = [task EXCEPT ![t].kind = "bg", ![t].pc = "sources",
                                    ![t].alive = TRUE]
            /\ refreshing' = [refreshing EXCEPT ![task[t].w] = TRUE]
        BY <2>3, <3>3 DEF BgRefresh
      <4>2. task'[t].kind = "bg" /\ task'[t].w = task[t].w
        BY <2>1, <2>2, <4>1 DEF TaskRecords
      <4>3. \A u \in Tasks : u # t => task'[u] = task[u]
        BY <2>2, <4>1 DEF Goroutines
      <4>4. \A u \in Tasks, w \in Widgets :
              Detached(u, w)' <=> (u = t /\ w = task[t].w) \/ Detached(u, w)
        BY <3>1, <4>2, <4>3 DEF Detached
      <4>5. \A w \in Widgets : refreshing'[w] <=> w = task[t].w \/ refreshing[w]
        BY <2>2, <4>1
      <4>6. ~ refreshing[task[t].w]
        BY <3>3
      <4> QED BY <3>1, <4>4, <4>5, <4>6, ExactFlags, ExactFlagsAfter, Zenon
    <3> QED BY <3>2, <3>3
  <2>4. ASSUME NEW t \in Goroutines, BgDone(t)
        PROVE  RefreshingExact'
    <3>1. task[t].kind = "bg" /\ task[t].w \in Widgets /\ t \in Tasks
      BY <2>1, <2>4 DEF BgDone, Legal, Goroutines, TypeInv
    <3>2. task'[t].kind = "show" /\ \A u \in Tasks : u # t => task'[u] = task[u]
      BY <2>2, <2>4 DEF BgDone, Idle, Goroutines
    <3>3. \A w \in Widgets : refreshing'[w] <=> w # task[t].w /\ refreshing[w]
      BY <2>2, <2>4 DEF BgDone
    <3>4. \A u \in Tasks, w \in Widgets : Detached(u, w)' <=> u # t /\ Detached(u, w)
      BY <3>2 DEF Detached
    <3>5. \A w \in Widgets : Detached(t, w) <=> w = task[t].w
      BY <3>1 DEF Detached
    <3>6. ASSUME NEW w \in Widgets
          PROVE  /\ refreshing'[w] <=> \E u \in Tasks : Detached(u, w)'
                 /\ \A u, v \in Tasks : Detached(u, w)' /\ Detached(v, w)' => u = v
      <4>1. /\ refreshing[w] <=> \E u \in Tasks : Detached(u, w)
            /\ \A u, v \in Tasks : Detached(u, w) /\ Detached(v, w) => u = v
        BY ExactFlags, Zenon
      <4>2. CASE w = task[t].w
        BY <3>1, <3>3, <3>4, <3>5, <4>1, <4>2, Zenon
      <4>3. CASE w # task[t].w
        <5>1. \A u \in Tasks : Detached(u, w)' <=> Detached(u, w)
          BY <3>1, <3>4, <3>5, <4>3, Zenon
        <5> QED BY <3>3, <4>1, <4>3, <5>1, Zenon
      <4> QED BY <4>2, <4>3
    <3> QED BY <3>6, ExactFlagsAfter, Zenon
  <2>5. ASSUME NEW t \in Goroutines, RefreshWidget(t)
        PROVE  RefreshingExact'
    <3>1. refreshing' = refreshing
      BY <2>5 DEF RefreshWidget, ReadSources, FetchOk, FetchFails, Store, MarkErr,
                  MarkStale, MarkError, flags
    <3>2. /\ task'[t].kind = task[t].kind /\ task'[t].w = task[t].w
          /\ \A u \in Tasks : u # t => task'[u] = task[u]
      <4> t \in DOMAIN task /\ DOMAIN task = Goroutines /\ Tasks \subseteq Goroutines
        BY <2>1, <2>2 DEF Goroutines
      <4>1. task[t] \in TaskRecords
        BY <2>1, <2>2
      <4>2. CASE ReadSources(t)
        BY <4>1, <4>2 DEF ReadSources, TaskRecords
      <4>3. CASE FetchOk(t) \/ FetchFails(t)
        BY <4>1, <4>3 DEF FetchOk, FetchFails, Goto, TaskRecords
      <4>4. CASE Store(t) \/ MarkErr(t) \/ MarkStale(t) \/ MarkError(t)
        BY <4>1, <4>4 DEF Store, MarkErr, MarkStale, MarkError, Goto, TaskRecords
      <4> QED BY <2>5, <4>2, <4>3, <4>4 DEF RefreshWidget
    <3> QED BY <3>1, <3>2, SameRefreshes
  <2>6. ASSUME NEW t \in Goroutines,
               GetWidget(t) \/ NextOfRound(t) \/ Peek(t) \/ Recheck(t) \/ Cancel(t)
        PROVE  RefreshingExact'
    <3>1. refreshing' = refreshing
      BY <2>6 DEF GetWidget, NextOfRound, Peek, Recheck, Cancel, flags
    <3>2. \A u \in Tasks : u # t => task'[u] = task[u]
      BY <2>2, <2>6 DEF GetWidget, NextOfRound, Peek, Recheck, Cancel, Goto, Goroutines
    <3>3. \/ task'[t].kind = task[t].kind /\ task'[t].w = task[t].w
          \/ task[t].kind # "bg" /\ task'[t].kind # "bg"
      <4>1. CASE GetWidget(t)
        BY <2>1, <2>2, <4>1 DEF GetWidget, TaskRecords
      <4>2. CASE NextOfRound(t)
        <5>1. task[t].kind # "bg"
          BY <4>2 DEF NextOfRound
        <5>2. CASE task' = [task EXCEPT ![t] = Idle(task[t].kind)]
          BY <2>2, <5>1, <5>2 DEF Idle
        <5>3. ASSUME NEW next \in task[t].todo, NEW label \in {"row", "sources", "done"},
                     task' = [task EXCEPT ![t].w = next[1], ![t].conf = next[2],
                                          ![t].todo = @ \ {next}, ![t].pc = label]
              PROVE  task'[t].kind = task[t].kind
          BY <2>1, <2>2, <5>3 DEF TaskRecords
        <5> QED BY <4>2, <5>1, <5>2, <5>3 DEF NextOfRound
      <4>3. CASE Peek(t)
        BY <2>1, <2>2, <4>3 DEF Peek, Goto, TaskRecords
      <4>4. CASE Recheck(t)
        BY <2>1, <2>2, <4>4 DEF Recheck, Goto, TaskRecords, Idle
      <4>5. CASE Cancel(t)
        BY <2>1, <2>2, <4>5 DEF Cancel, TaskRecords
      <4> QED BY <2>6, <4>1, <4>2, <4>3, <4>4, <4>5
    <3> QED BY <3>1, <3>2, <3>3, SameRefreshes
  <2>7. ASSUME NEW t \in Tasks, Arrival(t)
        PROVE  RefreshingExact'
    <3>1. task[t].kind # "bg" /\ t \in Goroutines
      <4>1. task[t].pc = "idle"
        BY <2>7 DEF Arrival, Show, Ticker, UpdateWidget, UpdateLink, UpdateSource
      <4> QED BY <2>1, <4>1 DEF Legal, Goroutines
    <3>2. refreshing' = refreshing /\ \A u \in Tasks : u # t => task'[u] = task[u]
      BY <2>2, <2>7 DEF Arrival, Show, Ticker, UpdateWidget, UpdateLink, UpdateSource,
                        flags, Goroutines
    <3>3. task'[t].kind # "bg"
      <4>1. ASSUME NEW w \in Widgets, Show(t, w)
            PROVE  task'[t].kind # "bg"
        BY <2>2, <3>1, <4>1 DEF Show, Idle
      <4>2. ASSUME NEW w \in Widgets, Ticker(t, w)
            PROVE  task'[t].kind # "bg"
        BY <2>2, <3>1, <4>2 DEF Ticker, Idle
      <4>3. ASSUME NEW w \in Widgets, UpdateWidget(t, w)
            PROVE  task'[t].kind # "bg"
        BY <2>2, <3>1, <4>3 DEF UpdateWidget, Idle
      <4>4. ASSUME NEW w \in Widgets, UpdateLink(t, w)
            PROVE  task'[t].kind # "bg"
        BY <2>2, <3>1, <4>4 DEF UpdateLink, Idle
      <4>5. CASE UpdateSource(t)
        BY <2>2, <3>1, <4>5 DEF UpdateSource, Idle
      <4> QED BY <2>7, <4>1, <4>2, <4>3, <4>4, <4>5 DEF Arrival
    <3> QED BY <3>1, <3>2, <3>3, SameRefreshes
  <2>8. CASE Restart
    <3>1. \A t \in Tasks : task'[t].kind = "show"
      BY <2>8 DEF Restart, Idle, Goroutines
    <3>2. \A w \in Widgets : refreshing'[w] = FALSE
      BY <2>8 DEF Restart
    <3> QED BY <3>1, <3>2 DEF RefreshingExact
  <2>9. CASE Scan
    <3>1. refreshing' = refreshing /\ \A t \in Tasks : task'[t] = task[t]
      BY <2>2, <2>9 DEF Scan, flags, Goroutines
    <3> QED BY <3>1, SameRefreshes
  <2>10. CASE UNCHANGED <<task, refreshing>>
    BY <2>10, SameRefreshes
  <2> QED BY <2>3, <2>4, <2>5, <2>6, <2>7, <2>8, <2>9, <2>10
          DEF Step, TaskStep, DeleteSource, DeleteWidget, Expire, ThrottleEnds, vars, flags
<1> QED BY <1>1, <1>2, TypeInit, TypeStep, PTL DEF Spec

-----------------------------------------------------------------------------
(* Convergence: what is current stays so.                                  *)

\* A goroutine in the state r will not write anything outdated to w's row: where
\* it goes by a row of the widget it has read, that row is the current one; the
\* sources it fetches from are the current ones; it does not believe the cache
\* to be empty; and the widgets it has yet to refresh are listed as they are.
UpToDate(r, w) ==
  /\ r.w = w =>
       /\ \/ r.pc \in {"sources", "fetch", "store"}
          \/ r.kind = "show" /\ r.pc # "idle"
          => r.conf = conf[w]
       /\ r.pc \in {"fetch", "store"} => r.link = link[w]
       /\ r.pc = "markError" => ~ r.alive
  /\ r.kind # "loop" => \A next \in r.todo : next[1] = w => next[2] = conf[w]

HoldsCurrent(w) ==
  Exists(w) /\ cache[w] # NoRow /\ cache[w].data = <<conf[w], link[w]>>

Settled(w) == HoldsCurrent(w) /\ \A t \in Goroutines : UpToDate(task[t], w)

\* A step that neither edits the widget or its sources nor restarts the process,
\* which may discard the cache.
LeftAlone(w) == /\ Exists(w)' /\ conf'[w] = conf[w] /\ link'[w] = link[w]
                /\ restarts' = restarts

SettledStays == [][\A w \in Widgets : Settled(w) /\ LeftAlone(w) => Settled(w)']_vars

\* One goroutine's step, seen from a widget whose data it leaves alone.
LEMMA SettledTask ==
  ASSUME TypeInv, NEW w \in Widgets, Settled(w), LeftAlone(w),
         NEW t \in Goroutines, NEW r, task' = [task EXCEPT ![t] = r], UpToDate(r, w),
         cache'[w] # NoRow, cache'[w].data = cache[w].data
  PROVE  Settled(w)'
<1>1. HoldsCurrent(w)'
  BY DEF Settled, HoldsCurrent, LeftAlone
<1>2. ASSUME NEW u \in Goroutines PROVE UpToDate(task[u], w)'
  <2> DEFINE q == task'[u]
  <2>1. UpToDate(q, w)
    <3>1. q = r \/ q = task[u]
      BY DEF TypeInv, TypeOK
    <3> HIDE DEF q
    <3> QED BY <3>1 DEF Settled
  <2> QED BY <2>1 DEF UpToDate, LeftAlone
<1> QED BY <1>1, <1>2 DEF Settled

LEMMA IdleIsUpToDate ==
  ASSUME NEW w \in Widgets, NEW kind
  PROVE  UpToDate(Idle(kind), w)
BY DEF UpToDate, Idle

\* What a goroutine may come to without looking at the tables.
LEMMA GotoIsUpToDate ==
  ASSUME NEW w \in Widgets, NEW b \in TaskRecords, UpToDate(b, w), NEW label,
         b.kind = "show" => b.pc # "idle",
         label \in {"fetch", "store"} => b.pc = "fetch",
         label = "sources" => b.kind = "show",
         label = "markError" /\ b.w = w => ~ b.alive
  PROVE  UpToDate([b EXCEPT !.pc = label], w)
<1> DEFINE r == [b EXCEPT !.pc = label]
<1>1. /\ r.pc = label /\ r.w = b.w /\ r.kind = b.kind /\ r.conf = b.conf
      /\ r.link = b.link /\ r.alive = b.alive /\ r.todo = b.todo
  BY DEF TaskRecords
<1> HIDE DEF r
<1>2. UpToDate(r, w)
  BY <1>1 DEF UpToDate
<1> QED BY <1>2 DEF r

LEMMA SettledGoto ==
  ASSUME TypeInv, NEW w \in Widgets, Settled(w), LeftAlone(w),
         NEW t \in Goroutines, NEW label, Goto(t, label), task[t].pc # "idle",
         label \in {"fetch", "store"} => task[t].pc = "fetch",
         label = "sources" => task[t].kind = "show",
         label = "markError" /\ task[t].w = w => ~ task[t].alive,
         cache'[w] # NoRow, cache'[w].data = cache[w].data
  PROVE  Settled(w)'
<1> DEFINE b == task[t]
           r == [b EXCEPT !.pc = label]
<1>1. b \in TaskRecords /\ UpToDate(b, w)
  BY TaskBefore DEF Settled
<1>2. task' = [task EXCEPT ![t] = r]
  BY DEF Goto
<1>3. b.pc # "idle" /\ (label \in {"fetch", "store"} => b.pc = "fetch")
      /\ (label = "sources" => b.kind = "show")
      /\ (label = "markError" /\ b.w = w => ~ b.alive)
  OBVIOUS
<1>4. UpToDate(r, w)
  <2> HIDE DEF b
  <2> QED BY <1>1, <1>3, GotoIsUpToDate
<1> QED BY <1>2, <1>4, SettledTask

LEMMA SettledRefresh ==
  ASSUME TypeInv, NEW w \in Widgets, Settled(w), LeftAlone(w),
         NEW t \in Goroutines, RefreshWidget(t)
  PROVE  Settled(w)'
<1> DEFINE b == task[t]
<1>1. /\ b \in TaskRecords /\ UpToDate(b, w)
      /\ cache \in [Widgets -> Rows \cup {NoRow}]
      /\ cache[w] # NoRow /\ cache[w].data = <<conf[w], link[w]>> /\ Exists(w)
  BY TaskBefore DEF Settled, HoldsCurrent
<1>2. CASE ReadSources(t)
  <2>1. PICK next \in {"fetch", "look"} :
          task' = [task EXCEPT ![t].pc = next, ![t].link = link[task[t].w],
                               ![t].src = task[t].alive /\ task[t].w \in users]
    BY <1>2 DEF ReadSources
  <2> DEFINE src == task[t].alive /\ task[t].w \in users
             r == [b EXCEPT !.pc = next, !.link = link[b.w], !.src = src]
  <2>2. b.pc = "sources"
    BY <1>2 DEF ReadSources
  <2>3. task' = [task EXCEPT ![t] = r]
    <3> HIDE DEF src
    <3>1. task' = [task EXCEPT ![t].pc = next, ![t].link = link[task[t].w], ![t].src = src]
      BY <2>1, Zenon DEF src
    <3> QED BY <3>1
  <2> HIDE DEF b, src
  <2>4. /\ r.pc = next /\ r.w = b.w /\ r.kind = b.kind /\ r.conf = b.conf
        /\ r.link = link[b.w] /\ r.todo = b.todo
    BY <1>1 DEF TaskRecords
  <2> HIDE DEF r
  <2>5. UpToDate(r, w)
    BY <1>1, <2>2, <2>4 DEF UpToDate
  <2>6. cache' = cache
    BY <1>2 DEF ReadSources
  <2> QED BY <1>1, <2>3, <2>5, <2>6, SettledTask
<1>3. CASE FetchOk(t)
  BY <1>1, <1>3, SettledGoto DEF FetchOk
<1>4. CASE FetchFails(t)
  BY <1>1, <1>4, SettledGoto DEF FetchFails
<1>5. CASE Store(t)
  <2>1. CASE b.w = w
    <3>1. <<b.conf, b.link>> = <<conf[w], link[w]>>
      BY <1>1, <1>5, <2>1 DEF Store, UpToDate
    <3>2. cache'[w] # NoRow /\ cache'[w].data = <<conf[w], link[w]>>
      <4> DEFINE row == [data |-> <<b.conf, b.link>>, status |-> "ok", expired |-> FALSE]
      <4>1. cache' = cache \/ cache' = [cache EXCEPT ![w] = row]
        BY <1>5, <2>1 DEF Store, Upsert
      <4>2. row.data = <<conf[w], link[w]>>
        BY <3>1
      <4>3. row # NoRow
        <5>1. <<b.conf, b.link>> \in Nat \X Nat
          BY <1>1 DEF TaskRecords, Versions
        <5>2. row \in [data : (Nat \X Nat) \cup {Null}, status : {"ok", "stale", "error"},
                       expired : BOOLEAN]
          BY <5>1
        <5> QED BY <5>2
      <4> HIDE DEF row
      <4> QED BY <1>1, <4>1, <4>2, <4>3
    <3> QED BY <1>1, <1>5, <3>2, SettledGoto DEF Store
  <2>2. CASE b.w # w
    <3>1. cache'[w] = cache[w]
      BY <1>1, <1>5, <2>2 DEF Store, Upsert
    <3> QED BY <1>1, <1>5, <3>1, SettledGoto DEF Store
  <2> QED BY <2>1, <2>2
<1>6. CASE MarkErr(t)
  BY <1>1, <1>6, SettledGoto DEF MarkErr
<1>7. CASE MarkStale(t)
  <2> DEFINE row == cache[b.w]
  <2>1. /\ cache' = cache \/ cache' = [cache EXCEPT ![b.w] = [row EXCEPT !.status = "stale"]]
        /\ UNCHANGED tables
    BY <1>7 DEF MarkStale
  <2>2. b.w = w => row \in Rows
    BY <1>1
  <2>3. cache'[w] # NoRow /\ cache'[w].data = cache[w].data
    <3>1. CASE b.w = w
      <4> HIDE DEF b, row
      <4> DEFINE stale == [row EXCEPT !.status = "stale"]
      <4>1. stale \in Rows /\ stale.data = row.data
        BY <2>2, <3>1 DEF Rows
      <4>2. stale # NoRow
        BY <4>1 DEF Rows, Data, Versions
      <4>3. cache' = cache \/ cache' = [cache EXCEPT ![w] = stale]
        BY <2>1, <3>1
      <4>4. row = cache[w]
        BY <3>1 DEF row
      <4> HIDE DEF stale
      <4> QED BY <1>1, <4>1, <4>2, <4>3, <4>4
    <3>2. CASE b.w # w
      <4> HIDE DEF b, row
      <4> QED BY <1>1, <2>1, <3>2
    <3> QED BY <3>1, <3>2
  <2> QED BY <1>7, <2>3, SettledGoto DEF MarkStale
<1>8. CASE MarkError(t)
  <2>1. cache'[w] = cache[w]
    BY <1>1, <1>8 DEF MarkError, Upsert, UpToDate
  <2> QED BY <1>1, <1>8, <2>1, SettledGoto DEF MarkError
<1> QED BY <1>2, <1>3, <1>4, <1>5, <1>6, <1>7, <1>8 DEF RefreshWidget

LEMMA SettledCallers ==
  ASSUME TypeInv, NEW w \in Widgets, Settled(w), LeftAlone(w), NEW t \in Goroutines,
         \/ GetWidget(t) \/ NextOfRound(t) \/ Peek(t) \/ Recheck(t)
         \/ BgRefresh(t) \/ BgDone(t) \/ Cancel(t)
  PROVE  Settled(w)'
<1> DEFINE b == task[t]
<1>1. b \in TaskRecords /\ b \in Legal /\ UpToDate(b, w) /\ cache[w] # NoRow
  BY TaskBefore DEF Settled, HoldsCurrent
<1>2. cache' = cache
  BY DEF GetWidget, NextOfRound, Peek, Recheck, BgRefresh, BgDone, Cancel
<1>3. CASE GetWidget(t)
  <2>1. CASE b.alive /\ Exists(b.w)
    <3> DEFINE r == [b EXCEPT !.pc = "sources", !.conf = conf[b.w]]
    <3>1. task' = [task EXCEPT ![t] = r] /\ b.pc = "row"
      BY <1>3, <2>1 DEF GetWidget
    <3> HIDE DEF b
    <3>2. /\ r.pc = "sources" /\ r.w = b.w /\ r.kind = b.kind
          /\ r.conf = conf[b.w] /\ r.todo = b.todo
      BY <1>1 DEF TaskRecords
    <3> HIDE DEF r
    <3>3. UpToDate(r, w)
      BY <1>1, <3>2 DEF UpToDate
    <3> QED BY <1>1, <1>2, <3>1, <3>3, SettledTask
  <2>2. CASE ~ (b.alive /\ Exists(b.w))
    <3>1. Goto(t, "done") /\ b.pc = "row"
      BY <1>3, <2>2 DEF GetWidget, Goto
    <3> QED BY <1>1, <1>2, <3>1, SettledGoto
  <2> QED BY <2>1, <2>2
<1>4. CASE NextOfRound(t)
  <2>1. CASE task' = [task EXCEPT ![t] = Idle(task[t].kind)]
    BY <1>1, <1>2, <2>1, IdleIsUpToDate, SettledTask
  <2>2. ASSUME NEW next \in task[t].todo, NEW label \in {"row", "sources", "done"},
               b.kind = "loop" => label = "row",
               task' = [task EXCEPT ![t].w = next[1], ![t].conf = next[2],
                                    ![t].todo = @ \ {next}, ![t].pc = label]
        PROVE  Settled(w)'
    <3> DEFINE rest == b.todo \ {next}
               r == [b EXCEPT !.w = next[1], !.conf = next[2], !.todo = rest, !.pc = label]
    <3>1. task' = [task EXCEPT ![t] = r] /\ next \in b.todo /\ b.kind # "show"
      <4>1. task' = [task EXCEPT ![t] = r]
        BY <2>2
      <4>2. b.kind # "show"
        BY <1>4 DEF NextOfRound
      <4> QED BY <4>1, <4>2
    <3>2. \A other \in rest : other \in b.todo
      OBVIOUS
    <3> HIDE DEF b, rest
    <3>3. /\ r.pc = label /\ r.w = next[1] /\ r.kind = b.kind
          /\ r.conf = next[2] /\ r.todo = rest
      BY <1>1 DEF TaskRecords
    <3> HIDE DEF r
    <3>4. UpToDate(r, w)
      BY <1>1, <2>2, <3>1, <3>2, <3>3 DEF UpToDate
    <3> QED BY <1>1, <1>2, <3>1, <3>4, SettledTask
  <2>3. \/ task' = [task EXCEPT ![t] = Idle(task[t].kind)]
        \/ \E next \in task[t].todo, label \in {"row", "sources", "done"} :
             /\ b.kind = "loop" => label = "row"
             /\ task' = [task EXCEPT ![t].w = next[1], ![t].conf = next[2],
                                     ![t].todo = @ \ {next}, ![t].pc = label]
    BY <1>4 DEF NextOfRound
  <2> QED BY <2>1, <2>2, <2>3
<1>5. CASE Peek(t)
  <2>1. b.kind = "show"
    BY <1>1, <1>5 DEF Peek, Legal
  <2> QED BY <1>1, <1>2, <1>5, <2>1, SettledGoto DEF Peek
<1>6. CASE Recheck(t)
  <2>1. CASE Goto(t, "spawn")
    BY <1>1, <1>2, <1>6, <2>1, SettledGoto DEF Recheck
  <2>2. CASE task' = [task EXCEPT ![t] = Idle("show")]
    BY <1>1, <1>2, <2>2, IdleIsUpToDate, SettledTask
  <2> QED BY <1>6, <2>1, <2>2 DEF Recheck
<1>7. CASE BgRefresh(t)
  <2>1. CASE task' = [task EXCEPT ![t] = Idle("show")]
    BY <1>1, <1>2, <2>1, IdleIsUpToDate, SettledTask
  <2>2. CASE task' = [task EXCEPT ![t].kind = "bg", ![t].pc = "sources", ![t].alive = TRUE]
    <3> DEFINE r == [b EXCEPT !.kind = "bg", !.pc = "sources", !.alive = TRUE]
    <3>1. task' = [task EXCEPT ![t] = r]
      BY <2>2
    <3>2. b.kind = "show" /\ b.pc = "spawn"
      BY <1>1, <1>7 DEF BgRefresh, Legal
    <3> HIDE DEF b
    <3>3. /\ r.pc = "sources" /\ r.w = b.w /\ r.kind = "bg" /\ r.conf = b.conf
          /\ r.todo = b.todo
      BY <1>1 DEF TaskRecords
    <3> HIDE DEF r
    <3>4. UpToDate(r, w)
      BY <1>1, <3>2, <3>3 DEF UpToDate
    <3> QED BY <1>1, <1>2, <3>1, <3>4, SettledTask
  <2> QED BY <1>7, <2>1, <2>2 DEF BgRefresh
<1>8. CASE BgDone(t)
  BY <1>1, <1>2, <1>8, IdleIsUpToDate, SettledTask DEF BgDone
<1>9. CASE Cancel(t)
  <2> DEFINE r == [b EXCEPT !.alive = FALSE]
  <2>1. task' = [task EXCEPT ![t] = r]
    BY <1>9 DEF Cancel
  <2> HIDE DEF b
  <2>2. /\ r.pc = b.pc /\ r.w = b.w /\ r.kind = b.kind /\ r.conf = b.conf
        /\ r.link = b.link /\ r.alive = FALSE /\ r.todo = b.todo
    BY <1>1 DEF TaskRecords
  <2> HIDE DEF r
  <2>3. UpToDate(r, w)
    BY <1>1, <2>2 DEF UpToDate
  <2> QED BY <1>1, <1>2, <2>1, <2>3, SettledTask
<1> QED BY <1>3, <1>4, <1>5, <1>6, <1>7, <1>8, <1>9

\* A goroutine that starts: the read path with the row of its widget, the ticker
\* and the administrator's handlers before they have read it.
LEMMA StartIsUpToDate ==
  ASSUME NEW w \in Widgets, NEW v \in Widgets
  PROVE  /\ UpToDate([Idle("show") EXCEPT !.pc = "peek", !.w = v, !.conf = conf[v]], w)
         /\ UpToDate([Idle("ticker") EXCEPT !.pc = "row", !.w = v], w)
         /\ UpToDate([Idle("admin") EXCEPT !.pc = "row", !.w = v], w)
BY DEF UpToDate, Idle

LEMMA SettledArrivals ==
  ASSUME TypeInv, NEW w \in Widgets, Settled(w), LeftAlone(w), NEW t \in Tasks, Arrival(t)
  PROVE  Settled(w)'
<1>1. t \in Goroutines /\ cache[w] # NoRow /\ Exists(w)
  BY DEF Settled, HoldsCurrent, Goroutines
<1>2. cache' = cache
  BY DEF Arrival, Show, Ticker, UpdateWidget, UpdateLink, UpdateSource
<1>3. ASSUME NEW v \in Widgets,
             Show(t, v) \/ Ticker(t, v) \/ UpdateWidget(t, v) \/ UpdateLink(t, v)
      PROVE  Settled(w)'
  <2>1. \/ task' = [task EXCEPT ![t] = [Idle("show") EXCEPT !.pc = "peek", !.w = v,
                                                           !.conf = conf[v]]]
        \/ task' = [task EXCEPT ![t] = [Idle("ticker") EXCEPT !.pc = "row", !.w = v]]
        \/ task' = [task EXCEPT ![t] = [Idle("admin") EXCEPT !.pc = "row", !.w = v]]
    BY <1>3, Zenon DEF Show, Ticker, UpdateWidget, UpdateLink
  <2> QED BY <1>1, <1>2, <2>1, StartIsUpToDate, SettledTask
<1>4. CASE UpdateSource(t)
  <2> DEFINE list == {<<v, conf[v]>> : v \in DOMAIN conf}
             r == [Idle("source") EXCEPT !.pc = "done", !.todo = list]
  <2>1. task' = [task EXCEPT ![t] = r]
    BY <1>4 DEF UpdateSource
  <2>2. \A next \in list : next[2] = conf[next[1]]
    OBVIOUS
  <2> HIDE DEF list
  <2>3. r.w = NoWidget /\ r.todo = list
    BY DEF Idle
  <2> HIDE DEF r
  <2>4. UpToDate(r, w)
    BY <2>2, <2>3 DEF UpToDate
  <2> QED BY <1>1, <1>2, <2>1, <2>4, SettledTask
<1> QED BY <1>3, <1>4 DEF Arrival

\* Without a goroutine's step everything known of the goroutines still holds.
LEMMA SettledOther ==
  ASSUME NEW w \in Widgets, Settled(w), LeftAlone(w), task' = task,
         cache'[w] # NoRow, cache'[w].data = cache[w].data
  PROVE  Settled(w)'
<1>1. HoldsCurrent(w)'
  BY DEF Settled, HoldsCurrent, LeftAlone
<1>2. ASSUME NEW u \in Goroutines PROVE UpToDate(task[u], w)'
  BY DEF Settled, UpToDate, LeftAlone
<1> QED BY <1>1, <1>2 DEF Settled

\* Once a widget's cached data is for its current configuration, and no refresh
\* under way would write anything older, every step keeps it so, up to the next
\* edit of the widget or its sources or the next restart: no refresh that
\* starts, overlaps, fails, is cut off or comes late, and no expiry or deletion
\* of something else, brings outdated data back.  With CacheConverges, which
\* says that the cache gets there, this is why it does not leave again.
THEOREM SettledRowsStay == Spec => SettledStays
<1>1. ASSUME TypeInv, [Step]_vars, NEW w \in Widgets, Settled(w), LeftAlone(w)
      PROVE  Settled(w)'
  <2>1. cache[w] # NoRow /\ cache \in [Widgets -> Rows \cup {NoRow}]
    BY <1>1 DEF Settled, HoldsCurrent, TypeInv, TypeOK
  <2>2. ASSUME NEW t \in Goroutines, TaskStep(t) \/ Cancel(t) PROVE Settled(w)'
    BY <1>1, <2>2, SettledRefresh, SettledCallers DEF TaskStep
  <2>3. ASSUME NEW t \in Tasks, Arrival(t) PROVE Settled(w)'
    BY <1>1, <2>3, SettledArrivals
  <2>4. CASE Scan
    <3> DEFINE b == task[Loop]
    <3>1. PICK v \in Expired :
            task' = [task EXCEPT ![Loop].pc = "row", ![Loop].w = v,
                                 ![Loop].todo = {<<x, 0>> : x \in Expired \ {v}}]
      BY <2>4 DEF Scan
    <3> DEFINE list == {<<x, 0>> : x \in Expired \ {v}}
               r == [b EXCEPT !.pc = "row", !.w = v, !.todo = list]
    <3>2. /\ Loop \in Goroutines /\ task' = [task EXCEPT ![Loop] = r] /\ cache' = cache
          /\ b \in TaskRecords /\ b.kind = "loop"
      BY <1>1, <2>4, <3>1, TaskBefore DEF Scan, Goroutines
    <3> HIDE DEF b, list
    <3>3. r.pc = "row" /\ r.kind = "loop"
      BY <3>2 DEF TaskRecords
    <3> HIDE DEF r
    <3>4. UpToDate(r, w)
      BY <3>3 DEF UpToDate
    <3> QED BY <1>1, <2>1, <3>2, <3>4, SettledTask
  <2>5. CASE DeleteSource
    BY <1>1, <2>1, <2>5, SettledOther DEF DeleteSource
  <2>6. ASSUME NEW v \in Widgets, DeleteWidget(v) PROVE Settled(w)'
    <3>1. v # w
      BY <1>1, <2>6 DEF DeleteWidget, LeftAlone, Exists
    <3>2. cache'[w] = cache[w] /\ task' = task
      BY <2>1, <2>6, <3>1 DEF DeleteWidget
    <3> QED BY <1>1, <2>1, <3>2, SettledOther
  <2>7. ASSUME NEW v \in Widgets, Expire(v) PROVE Settled(w)'
    <3> DEFINE row == cache[v]
               late == [row EXCEPT !.expired = TRUE]
    <3>1. row \in Rows /\ cache' = [cache EXCEPT ![v] = late] /\ task' = task
      BY <2>1, <2>7 DEF Expire
    <3>2. v = w => row = cache[w]
      OBVIOUS
    <3> HIDE DEF row
    <3>3. late \in Rows /\ late.data = row.data
      BY <3>1 DEF Rows
    <3> HIDE DEF late
    <3>4. late # NoRow
      BY <3>3 DEF Rows, Data, Versions
    <3>5. cache'[w] # NoRow /\ cache'[w].data = cache[w].data
      BY <2>1, <3>1, <3>2, <3>3, <3>4
    <3> QED BY <1>1, <3>1, <3>5, SettledOther
  <2>8. ASSUME NEW v \in Widgets, ThrottleEnds(v) PROVE Settled(w)'
    BY <1>1, <2>1, <2>8, SettledOther DEF ThrottleEnds
  <2>9. ~ Restart
    BY <1>1 DEF Restart, LeftAlone, TypeInv, TypeOK
  <2>10. CASE UNCHANGED vars
    BY <1>1, <2>1, <2>10, SettledOther DEF vars
  <2> QED BY <1>1, <2>2, <2>3, <2>4, <2>5, <2>6, <2>7, <2>8, <2>9, <2>10 DEF Step
<1>2. TypeInv /\ [Step]_vars
        => \A w \in Widgets : Settled(w) /\ LeftAlone(w) => Settled(w)'
  BY <1>1
<1> QED BY <1>2, TypeInit, TypeStep, PTL DEF Spec, SettledStays
=============================================================================
