----------------------------- MODULE LayoutTree -----------------------------
(***************************************************************************)
(* Package layout: how a view is divided into panes.  A tree is a function *)
(* from the paths of its nodes, the root's <<>>, to what is there: the     *)
(* node's weight among its siblings, in steps of the divider, and, in a    *)
(* leaf, the widget.  Children count from 1.                               *)
(***************************************************************************)
EXTENDS Sequences, SequencesExt, Ordered

CONSTANTS
  Empty,  \* WidgetID 0: a pane without a widget
  One     \* the weight of a new pane

Pane(w)   == [weight |-> One, widget |-> w]
Single(w) == [p \in {<< >>} |-> Pane(w)]

IsLeaf(t, p)   == p \in DOMAIN t /\ Append(p, 1) \notin DOMAIN t
Children(t, p) == {q \in DOMAIN t : q # << >> /\ Front(q) = p}

\* What the representation asks of a tree: children lie under a node, and are
\* counted without gaps.
IsTree(t) ==
  /\ << >> \in DOMAIN t
  /\ \A p \in DOMAIN t : p # << >> =>
       /\ Front(p) \in DOMAIN t /\ Last(p) \in Nat \ {0}
       /\ Last(p) > 1 => Append(Front(p), Last(p) - 1) \in DOMAIN t

\* Node.Validate
Valid(t) == \A p \in DOMAIN t : Append(p, 1) \in DOMAIN t => Append(p, 2) \in DOMAIN t

-----------------------------------------------------------------------------
Split(t, p, first, second) ==
  [q \in DOMAIN t \cup {Append(p, 1), Append(p, 2)} |->
     CASE q = Append(p, 1) -> Pane(first)
       [] q = Append(p, 2) -> Pane(second)
       [] q = p            -> [t[p] EXCEPT !.widget = Empty]
       [] OTHER            -> t[q]]

\* Mutant: the new pane comes first.
SplitLeafBefore(t, p) == IF IsLeaf(t, p) THEN Split(t, p, Empty, t[p].widget) ELSE t

SplitLeaf(t, p) == IF IsLeaf(t, p) THEN Split(t, p, t[p].widget, Empty) ELSE t

SetWidget(t, p, w) == IF IsLeaf(t, p) THEN [t EXCEPT ![p].widget = w] ELSE t

\* Node.SetWeight for each weight of the form; those without a child are ignored.
SetWeights(t, p, weights) ==
  [q \in DOMAIN t |->
     IF q \in Children(t, p) /\ Last(q) \in DOMAIN weights
     THEN [t[q] EXCEPT !.weight = weights[Last(q)]] ELSE t[q]]

\* Node.Remove.  Where one sibling is left it takes the place of their parent, in
\* the parent's weight; otherwise those behind the pane move up.
Merges(t, p) == Append(Front(p), 3) \notin DOMAIN t

Remaining(t, p) ==
  {q \in DOMAIN t : ~ IsPrefix(p, q) /\ (Merges(t, p) => q # Front(p))}

Moved(t, p, q) ==
  LET level == Len(p) IN
  IF ~ IsStrictPrefix(Front(p), q) THEN q
  ELSE IF Merges(t, p) THEN RemoveAt(q, level)
  ELSE IF q[level] > p[level] THEN [q EXCEPT ![level] = @ - 1]
  ELSE q

RemovePane(t, p) ==
  IF p = << >> \/ p \notin DOMAIN t THEN t
  ELSE [x \in {Moved(t, p, q) : q \in Remaining(t, p)} |->
          LET q == CHOOSE q \in Remaining(t, p) : Moved(t, p, q) = x IN
          [weight |-> IF x = Front(p) THEN t[x].weight ELSE t[q].weight,
           widget |-> t[q].widget]]

-----------------------------------------------------------------------------
(* Panes as a person sees them: the widgets of the leaves, from left to right and *)
(* from top to bottom.                                                            *)
Precedes(p, q) ==
  \E k \in DOMAIN p \cap DOMAIN q : p[k] < q[k] /\ \A j \in 1 .. k - 1 : p[j] = q[j]

Leaves(t)  == {p \in DOMAIN t : IsLeaf(t, p)}
Reading(S) == {pq \in S \X S : Precedes(pq[1], pq[2])}

Panes(t) ==
  LET row == Sorted(Leaves(t), Reading(Leaves(t))) IN [k \in DOMAIN row |-> t[row[k]].widget]

\* How many panes come before the one at a path.
Before(t, p) == Rank(Leaves(t), Reading(Leaves(t)), p)
=============================================================================
