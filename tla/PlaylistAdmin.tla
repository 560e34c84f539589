--------------------------- MODULE PlaylistAdmin ---------------------------
(***************************************************************************)
(* The administrator's handlers of playlists: which playlist is the        *)
(* default, and the order of the items of one playlist.  Each handler is a *)
(* sequence of SQL statements without a transaction, so that of two        *)
(* requests (two browsers, or two quick clicks) the statements mix; a      *)
(* client that leaves cancels the request's context, and the statements    *)
(* that are still to come fail, which the handlers ignore.                 *)
(***************************************************************************)
EXTENDS Sequences, SequencesExt, FiniteSetsExt, Functions, Ordered

CONSTANTS
  Requests,   \* requests that can be under way at a time
  FirstItems, \* the playlist has items 1 .. FirstItems at first
  Budget      \* bound: how many requests are sent

\* Assumed in Administration.
PlaylistConstants == FirstItems \in Nat /\ Budget \in Nat

VARIABLES
  position,   \* playlist_items.position of the items of the playlist
  lastItem,   \* AUTOINCREMENT of playlist_items
  lists,      \* table playlists
  defaults,   \* those with is_default = 1
  lastList,
  request, budget,
  mixed,      \* history: two requests were under way at once, or one was cut
  reseeded    \* history: the demo was seeded a second time

playlistVars == <<position, lastItem, lists, defaults, lastList, request, budget, mixed, reseeded>>

(* What a handler does next.  `read` is what it has read so far, `seen` the order *)
(* when it was sent and `alone` whether no other request was under way meanwhile. *)
Steps == {"idle", "max", "insert", "list", "first", "second", "clear", "create", "mark", "answer"}
Asked == [op : {"none", "add", "up", "down", "create", "default"}, arg : Nat]
NoRequest == [step |-> "idle", asked |-> [op |-> "none", arg |-> 0], read |-> << >>,
              seen |-> << >>, alone |-> TRUE]

\* ListPlaylistItems: ORDER BY position, id.
ByPosition(pos) == {ab \in (DOMAIN pos) \X (DOMAIN pos) :
                      \/ pos[ab[1]] < pos[ab[2]]
                      \/ pos[ab[1]] = pos[ab[2]] /\ ab[1] < ab[2]}
InOrder(pos)    == Sorted(DOMAIN pos, ByPosition(pos))

\* Mutant: counts the items.
ItemCount(pos) == Cardinality(DOMAIN pos) - 1

\* MaxPlaylistPosition: COALESCE(MAX(position), -1)
MaxPosition(pos) == IF pos = << >> THEN -1 ELSE Max(Range(pos))

\* 0 for an item that is not there.
IndexIn(items, item) == SelectInSeq(items, LAMBDA x : x = item)

\* The index a move exchanges with; 0 for none.
SwapIndex(op, i, n) ==
  CASE op = "up" /\ i > 1             -> i - 1
    [] op = "down" /\ 0 < i /\ i < n  -> i + 1
    [] OTHER                          -> 0

PlaylistInit ==
  /\ position = [i \in 1 .. FirstItems |-> i - 1]
  /\ lastItem = FirstItems
  /\ lists = {1, 2} /\ defaults = {1} /\ lastList = 2
  /\ request = [r \in Requests |-> NoRequest]
  /\ budget = Budget
  /\ mixed = FALSE /\ reseeded = FALSE

UnderWay == {r \in Requests : request[r].step # "idle"}

\* Requests are alike: any free one will do.
Free(r) == r = CHOOSE q \in Requests : request[q].step = "idle"

\* What is under way loses its claim to be alone.
Disturbed == [q \in Requests |-> [request[q] EXCEPT !.alone = @ /\ q \notin UnderWay]]

Goes(r, step) == request' = [request EXCEPT ![r].step = step]

-----------------------------------------------------------------------------
FirstStep(asked) ==
  CASE asked.op = "add"          -> "max"
    [] asked.op \in {"up", "down"} -> "list"
    [] OTHER                     -> "clear"

\* A click.
Send(r, asked) ==
  /\ UnderWay # Requests /\ Free(r) /\ budget > 0
  /\ budget' = budget - 1
  /\ LET alone == UnderWay = {} IN
     /\ mixed' = (mixed \/ ~ alone)
     /\ request' = [Disturbed EXCEPT
          ![r] = [NoRequest EXCEPT !.step = FirstStep(asked), !.asked = asked,
                              !.seen = InOrder(position), !.alone = alone]]
  /\ UNCHANGED <<position, lastItem, lists, defaults, lastList, reseeded>>

\* handlePlaylistAddItem
ReadMax(r) ==
  /\ request[r].step = "max"
  /\ request' = [request EXCEPT ![r].step = "insert", ![r].read = <<MaxPosition(position)>>]
  /\ UNCHANGED <<position, lastItem, lists, defaults, lastList, budget, mixed, reseeded>>

Insert(r) ==
  /\ request[r].step = "insert"
  /\ lastItem' = lastItem + 1
  /\ position' = [i \in DOMAIN position \cup {lastItem'} |->
                    IF i = lastItem' THEN request[r].read[1] + 1 ELSE position[i]]
  /\ Goes(r, "answer")
  /\ UNCHANGED <<lists, defaults, lastList, budget, mixed, reseeded>>

\* handlePlaylistItemMove reads the items, picks a neighbour and exchanges the
\* positions that it read, an UPDATE each.
ReadItems(r) ==
  LET asked == request[r].asked
      items == InOrder(position)
      i     == IndexIn(items, asked.arg)
      j     == SwapIndex(asked.op, i, Len(items))
  IN
  /\ request[r].step = "list"
  /\ request' = [request EXCEPT
       ![r].step = IF j = 0 THEN "answer" ELSE "first",
       ![r].read = IF j = 0 THEN << >>
                   ELSE << <<items[i], position[items[j]]>>, <<items[j], position[items[i]]>> >>]
  /\ UNCHANGED <<position, lastItem, lists, defaults, lastList, budget, mixed, reseeded>>

\* An UPDATE of an item that was deleted meanwhile changes nothing.
Place(change) ==
  position' = [i \in DOMAIN position |-> IF i = change[1] THEN change[2] ELSE position[i]]

PlaceFirst(r) ==
  /\ request[r].step = "first"
  /\ Place(request[r].read[1]) /\ Goes(r, "second")
  /\ UNCHANGED <<lastItem, lists, defaults, lastList, budget, mixed, reseeded>>

PlaceSecond(r) ==
  /\ request[r].step = "second"
  /\ Place(request[r].read[2]) /\ Goes(r, "answer")
  /\ UNCHANGED <<lastItem, lists, defaults, lastList, budget, mixed, reseeded>>

\* handlePlaylistCreate, with the box for the default ticked, and
\* handlePlaylistSetDefault begin alike.
ClearDefaults(r) ==
  /\ request[r].step = "clear"
  /\ defaults' = {}
  /\ Goes(r, IF request[r].asked.op = "create" THEN "create" ELSE "mark")
  /\ UNCHANGED <<position, lastItem, lists, lastList, budget, mixed, reseeded>>

CreatePlaylist(r) ==
  /\ request[r].step = "create"
  /\ lastList' = lastList + 1
  /\ lists' = lists \cup {lastList'} /\ defaults' = defaults \cup {lastList'}
  /\ Goes(r, "answer")
  /\ UNCHANGED <<position, lastItem, budget, mixed, reseeded>>

SetDefault(r) ==
  /\ request[r].step = "mark"
  /\ defaults' = defaults \cup ({request[r].asked.arg} \cap lists)
  /\ Goes(r, "answer")
  /\ UNCHANGED <<position, lastItem, lists, lastList, budget, mixed, reseeded>>

Answered(r) ==
  /\ request[r].step = "answer"
  /\ request' = [request EXCEPT ![r] = NoRequest]
  /\ UNCHANGED <<position, lastItem, lists, defaults, lastList, budget, mixed, reseeded>>

\* The client leaves: the statements still to come fail, and nothing is undone.
ClientLeaves(r) ==
  /\ request[r].step \notin {"idle", "answer"}
  /\ request' = [request EXCEPT ![r] = NoRequest]
  /\ mixed' = TRUE
  /\ UNCHANGED <<position, lastItem, lists, defaults, lastList, budget, reseeded>>

\* handlePlaylistItemDelete, or a view's deletion that takes its items along; one
\* statement, which disturbs what is under way.
DeleteItem(i) ==
  /\ i \in DOMAIN position /\ budget > 0 /\ budget' = budget - 1
  /\ position' = Restrict(position, DOMAIN position \ {i})
  /\ mixed' = (mixed \/ UnderWay # {})
  /\ request' = Disturbed
  /\ UNCHANGED <<lastItem, lists, defaults, lastList, reseeded>>

\* handlePlaylistDelete: of another playlist than the one that is edited.
DeletePlaylist(l) ==
  /\ l \in lists \ {1} /\ budget > 0 /\ budget' = budget - 1
  /\ lists' = lists \ {l} /\ defaults' = defaults \ {l}
  /\ mixed' = (mixed \/ UnderWay # {})
  /\ request' = Disturbed
  /\ UNCHANGED <<position, lastItem, lastList, reseeded>>

\* Every view was deleted, and the items went with them; the restart seeds the
\* demo again, and its playlist is a default beside the one there is.
SeedAgain ==
  /\ position = << >> /\ UnderWay = {} /\ ~ reseeded
  /\ lastList' = lastList + 1
  /\ lists' = lists \cup {lastList'} /\ defaults' = defaults \cup {lastList'}
  /\ reseeded' = TRUE
  /\ UNCHANGED <<position, lastItem, request, budget, mixed>>

Buttons ==
  [op : {"add", "create"}, arg : {0}] \cup [op : {"up", "down"}, arg : DOMAIN position]
  \cup [op : {"default"}, arg : lists]

PlaylistNext ==
  \/ \E r \in Requests :
       \/ \E asked \in Buttons : Send(r, asked)
       \/ ReadMax(r) \/ Insert(r)
       \/ ReadItems(r) \/ PlaceFirst(r) \/ PlaceSecond(r)
       \/ ClearDefaults(r) \/ CreatePlaylist(r) \/ SetDefault(r)
       \/ Answered(r) \/ ClientLeaves(r)
  \/ \E i \in DOMAIN position : DeleteItem(i)
  \/ \E l \in lists : DeletePlaylist(l)
  \/ SeedAgain

-----------------------------------------------------------------------------
PlaylistTypeOK ==
  /\ DOMAIN position \subseteq 1 .. lastItem /\ Range(position) \subseteq Nat
  /\ lastItem \in FirstItems .. FirstItems + Budget
  /\ defaults \subseteq lists /\ lists \subseteq 1 .. lastList
  /\ \A r \in Requests : request[r].step \in Steps /\ request[r].asked \in Asked
  /\ budget \in 0 .. Budget /\ {mixed, reseeded} \subseteq BOOLEAN

\* The order after a move, on the list as a person sees it.
Exchanged(order, op, item) ==
  LET i == IndexIn(order, item)
      j == IF op = "up" THEN i - 1 ELSE i + 1
  IN  IF j \in DOMAIN order THEN [order EXCEPT ![i] = order[j], ![j] = item] ELSE order

Tied(pos) == \E a, b \in DOMAIN pos : a # b /\ pos[a] = pos[b]

\* A request that was alone did what its button says, and no more.  Where items
\* share a position a move may have no effect, so those are excepted.
Kept(r) ==
  LET asked == request[r].asked
      seen  == request[r].seen
  IN  CASE asked.op = "add"     -> InOrder(position) = Append(seen, lastItem)
        [] asked.op = "create"  -> defaults = {lastList}
        [] asked.op = "default" -> defaults = {asked.arg}
        [] OTHER -> Tied(position) \/ InOrder(position) = Exchanged(seen, asked.op, asked.arg)

\* handlePlaylistItemMove, handlePlaylistAddItem, handlePlaylistSetDefault and
\* handlePlaylistCreate: a request that nothing overlapped did what was asked of it,
\* whatever mixed requests left before; two items at one position (but in the middle
\* of a move), and two default playlists, come only from requests that mixed or were
\* cut, or from a second seed.
AloneAsAsked ==
  /\ \A r \in Requests : request[r].step = "answer" /\ request[r].alone => Kept(r)
  /\ Tied(position) => mixed \/ \E r \in Requests : request[r].step = "second"
  /\ Cardinality(defaults) > 1 => mixed \/ reseeded
=============================================================================
