---------------------------- MODULE LayoutEditor ----------------------------
(***************************************************************************)
(* The layout of one view and the pages that edit it.  The server keeps    *)
(* the layout as one tree in one column; every request loads it, changes   *)
(* it and saves it as a whole, in two statements.  A page addresses a pane *)
(* by its path in the tree as it was drawn.  Buttons (htmx) wait for an    *)
(* answer, which is drawn in place of the canvas; a divider that is        *)
(* dragged (layouteditor.js) changes the page at once and posts the        *)
(* weights of its split, and nothing comes back.  One page may have        *)
(* several requests under way, and a second page may edit the same view.   *)
(***************************************************************************)
EXTENDS LayoutTree

CONSTANTS
  Editors,   \* pages of the editor, open on the same view
  Posts,     \* requests that can be under way at a time
  Widgets,
  MaxPanes,  \* bound: panes in a layout
  MaxClicks  \* bound: MaxClicks[e] edits from page e

\* Assumed in Administration.
LayoutConstants == One \in Nat \ {0} /\ MaxPanes \in Nat /\ MaxClicks \in [Editors -> Nat]

VARIABLES
  stored,  \* views.layout_json
  page,    \* the tree on each page, with the weights as dragged
  drag,    \* the split whose divider is held
  edit,    \* requests
  clicks,
  fresh    \* history: pages drawn since anybody else's last request, in good order

layoutVars == <<stored, page, drag, edit, clicks, fresh>>

-----------------------------------------------------------------------------
(* Requests: `tree` is what the handler has loaded and changed, `wish` the panes *)
(* that the click means to bring about. *)
NoPost == [step |-> "idle", by |-> "none", op |-> "none", path |-> << >>, arg |-> << >>,
           tree |-> << >>, wish |-> << >>]

Posted == {r \in Posts : edit[r].step # "idle"}

\* Requests are alike: any free one will do.
FreePost(r) == r = CHOOSE q \in Posts : edit[q].step = "idle"

Apply(t, post) ==
  CASE post.op = "split"   -> SplitLeaf(t, post.path)
    [] post.op = "remove"  -> RemovePane(t, post.path)
    [] post.op = "widget"  -> SetWidget(t, post.path, post.arg[1])
    [] post.op = "weights" -> SetWeights(t, post.path, post.arg)

NotHeld == [held |-> FALSE, attached |-> FALSE, path |-> << >>, divider |-> 0, weights |-> << >>]

WeightsOf(t, p) == [i \in {Last(q) : q \in Children(t, p)} |-> t[Append(p, i)].weight]

\* A new view is one empty pane; the demo's is two panes, the first twice as wide.
LayoutInit ==
  /\ stored \in {Single(Empty)} \cup
       {SetWeights(Split(Single(Empty), << >>, v, w), << >>, <<2 * One, One>>) : v, w \in Widgets}
  /\ page = [e \in Editors |-> stored]
  /\ drag = [e \in Editors |-> NotHeld]
  /\ edit = [r \in Posts |-> NoPost]
  /\ clicks = [e \in Editors |-> 0]
  /\ fresh = Editors

-----------------------------------------------------------------------------
\* Whose page can be trusted after a request of e.
Trusted(e, seen) == IF Posted = {} /\ e \in fresh /\ seen THEN {e} ELSE {}

\* The tools of a pane; the first and only pane has none to remove it.
Wish(t, op, path, arg) ==
  LET k == Before(t, path) + 1 IN
  CASE op = "split"  -> InsertAt(Panes(t), k + 1, Empty)
    [] op = "remove" -> RemoveAt(Panes(t), k)
    [] op = "widget" -> [Panes(t) EXCEPT ![k] = arg[1]]

Click(e, r, op, path, arg) ==
  /\ Posted # Posts /\ FreePost(r) /\ ~ drag[e].held /\ clicks[e] < MaxClicks[e]
  /\ IsLeaf(page[e], path)
  /\ op = "remove" => path # << >>
  /\ op = "widget" => page[e][path].widget # arg[1]
  /\ op = "split" => Len(Panes(page[e])) < MaxPanes
  /\ edit' = [edit EXCEPT ![r] = [step |-> "sent", by |-> e, op |-> op, path |-> path,
       arg |-> arg, tree |-> << >>, wish |-> Wish(page[e], op, path, arg)]]
  /\ clicks' = [clicks EXCEPT ![e] = @ + 1]
  /\ fresh' = Trusted(e, TRUE)
  /\ UNCHANGED <<stored, page, drag>>

\* pointerdown on a divider
Hold(e, path, i) ==
  /\ ~ drag[e].held /\ clicks[e] < MaxClicks[e]
  /\ {Append(path, i), Append(path, i + 1)} \subseteq DOMAIN page[e]
  /\ drag' = [drag EXCEPT ![e] = [held |-> TRUE, attached |-> TRUE, path |-> path,
                                  divider |-> i, weights |-> WeightsOf(page[e], path)]]
  /\ UNCHANGED <<stored, page, edit, clicks, fresh>>

\* pointermove and endDrag: the two panes share their space anew, and the weights of
\* the split are posted under the path it was drawn with, also when an answer has
\* replaced it on the page.
Drop(e, r, w) ==
  LET d       == drag[e]
      sum     == d.weights[d.divider] + d.weights[d.divider + 1]
      weights == [d.weights EXCEPT ![d.divider] = w, ![d.divider + 1] = sum - w]
  IN
  /\ d.held /\ Posted # Posts /\ FreePost(r) /\ clicks[e] < MaxClicks[e]
  /\ w \in 1 .. sum - 1
  /\ page' = IF d.attached THEN [page EXCEPT ![e] = SetWeights(@, d.path, weights)] ELSE page
  /\ edit' = [edit EXCEPT ![r] = [step |-> "sent", by |-> e, op |-> "weights",
       path |-> d.path, arg |-> weights, tree |-> << >>, wish |-> Panes(page[e])]]
  /\ drag' = [drag EXCEPT ![e] = NotHeld]
  /\ clicks' = [clicks EXCEPT ![e] = @ + 1]
  /\ fresh' = Trusted(e, d.attached)
  /\ UNCHANGED stored

\* mutateLayout and handleLayoutWeights: GetView, then the change in memory.
Load(r) ==
  /\ edit[r].step = "sent"
  /\ edit' = [edit EXCEPT ![r].step = "loaded", ![r].tree = Apply(stored, edit[r])]
  /\ UNCHANGED <<stored, page, drag, clicks, fresh>>

\* Only mutateLayout validates before it saves.
Save(r) ==
  /\ edit[r].step = "loaded"
  /\ IF edit[r].op = "weights" \/ Valid(edit[r].tree)
     THEN /\ stored' = edit[r].tree
          /\ edit' = [edit EXCEPT ![r].step = "saved"]
     ELSE /\ edit' = [edit EXCEPT ![r] = NoPost]
          /\ UNCHANGED stored
  /\ UNCHANGED <<page, drag, clicks, fresh>>

\* The answer to a button is drawn; that to a drag is empty.
Answer(r) ==
  LET e == edit[r].by IN
  /\ edit[r].step = "saved"
  /\ IF edit[r].op = "weights" THEN UNCHANGED <<page, drag>>
     ELSE /\ page' = [page EXCEPT ![e] = edit[r].tree]
          /\ drag' = [drag EXCEPT ![e].attached = FALSE]
  /\ edit' = [edit EXCEPT ![r] = NoPost]
  /\ UNCHANGED <<stored, clicks, fresh>>

\* A request fails on its way, or its answer does.  (A client that leaves while the
\* request is served makes the save fail, as if it had not come.)
Lost(r) ==
  /\ edit[r].step \in {"sent", "saved"}
  /\ edit' = [edit EXCEPT ![r] = NoPost]
  /\ fresh' = fresh \ {edit[r].by}
  /\ UNCHANGED <<stored, page, drag, clicks>>

\* handleViewLayout: the page is opened anew.
Open(e) ==
  /\ \A r \in Posted : edit[r].by # e
  /\ page' = [page EXCEPT ![e] = stored]
  /\ drag' = [drag EXCEPT ![e] = NotHeld]
  /\ fresh' = IF Posted = {} THEN fresh \cup {e} ELSE fresh \ {e}
  /\ UNCHANGED <<stored, edit, clicks>>

LayoutNext ==
  \/ \E e \in Editors, r \in Posts :
       \/ \E path \in DOMAIN page[e] :
            \/ \E op \in {"split", "remove"} : Click(e, r, op, path, << >>)
            \/ \E w \in Widgets \cup {Empty} : Click(e, r, "widget", path, <<w>>)
       \/ \E w \in 1 .. 4 * One : Drop(e, r, w)
  \/ \E e \in Editors :
       \/ Open(e)
       \/ \E p \in DOMAIN page[e] \ {<< >>} : Hold(e, Front(p), Last(p))
  \/ \E r \in Posts : Load(r) \/ Save(r) \/ Answer(r) \/ Lost(r)

-----------------------------------------------------------------------------
\* A tree that layout.Parse accepts, of panes with a width and a known widget.
WellFormed(t) ==
  /\ IsTree(t) /\ Valid(t)
  /\ \A p \in DOMAIN t : t[p] \in [weight : Nat \ {0}, widget : Widgets \cup {Empty}]

LayoutTypeOK ==
  /\ WellFormed(stored) /\ \A e \in Editors : WellFormed(page[e])
  /\ \A r \in Posts :
       /\ edit[r].step \in {"idle", "sent", "loaded", "saved"}
       /\ edit[r].step \in {"loaded", "saved"} => WellFormed(edit[r].tree)
  /\ \A e \in Editors : clicks[e] \in 0 .. MaxClicks[e]
  /\ fresh \subseteq Editors

\* mutateLayout, handleLayoutWeights and layouteditor.js: somebody who edits a view
\* alone, and waits for each answer, has on the page what is stored, to the width of
\* every pane, and every button does to the row of panes what it says; whatever
\* overlapping edits have left behind, a page that is opened anew works so again.
LayoutAsDrawn ==
  /\ Posted = {} => \A e \in fresh : page[e] = stored
  /\ \A r \in Posts :
       edit[r].step = "saved" /\ Posted = {r} /\ edit[r].by \in fresh =>
         Panes(stored) = edit[r].wish
=============================================================================
