----------------------------- MODULE SplitTree ------------------------------
(***************************************************************************)
(* The split tree of a tab (mr-crabs-app model/split.rs) and the TabModel  *)
(* operations that change it and the focus (model/tab.rs): splitting,      *)
(* closing with collapse, divider resizing, the rectangles of a layout and *)
(* the moves of focus through them.  Ratios are whole percents.            *)
(***************************************************************************)
EXTENDS Orders, FiniteSets

CONSTANTS
  MaxPanes,  \* bound: panes a tab ever had
  Sizes,     \* grid sizes the tab is laid out in: records cols, rows
  Deltas     \* divider moves, in percent

Pane       == 1..MaxPanes
Axes       == {"horizontal", "vertical"}
Directions == {"up", "down", "left", "right"}
RatioMin   == 10
RatioMax   == 90

Clamp(x, lo, hi) == IF x < lo THEN lo ELSE IF x > hi THEN hi ELSE x

AxisOf(direction) == IF direction \in {"left", "right"} THEN "horizontal" ELSE "vertical"

-----------------------------------------------------------------------------
(* The tree: a leaf is [pane], an inner node [axis, ratio, first, second]. *)

Leaf(p)    == [pane |-> p]
IsLeaf(t)  == DOMAIN t = {"pane"}
Split(axis, ratio, first, second) ==
  [axis |-> axis, ratio |-> ratio, first |-> first, second |-> second]

\* Depth-first order of the panes.
RECURSIVE PanesOf(_)
PanesOf(t) == IF IsLeaf(t) THEN <<t.pane>> ELSE PanesOf(t.first) \o PanesOf(t.second)

Contains(t, p) == p \in Elems(PanesOf(t))

\* Mutant: the new leaf goes before the one it splits.
RECURSIVE SplitLeafBefore(_, _, _, _)
SplitLeafBefore(t, p, axis, new) ==
  IF IsLeaf(t) THEN IF t.pane = p THEN Split(axis, 50, Leaf(new), t) ELSE t
  ELSE [t EXCEPT !.first  = SplitLeafBefore(@, p, axis, new),
                 !.second = SplitLeafBefore(@, p, axis, new)]

\* The leaf at p becomes a split of p and a new leaf, half and half.
RECURSIVE SplitLeaf(_, _, _, _)
SplitLeaf(t, p, axis, new) ==
  CASE IsLeaf(t) /\ t.pane = p  -> Split(axis, 50, t, Leaf(new))
    [] IsLeaf(t) /\ t.pane # p  -> t
    [] ~IsLeaf(t)               ->
         [t EXCEPT !.first  = SplitLeaf(@, p, axis, new),
                   !.second = SplitLeaf(@, p, axis, new)]

\* remove_rec: the sibling takes the place of the parent split.
RECURSIVE Remove(_, _)
Remove(t, p) ==
  CASE IsLeaf(t)                                   -> t
    [] ~IsLeaf(t) /\ t.first = Leaf(p)             -> t.second
    [] ~IsLeaf(t) /\ t.first # Leaf(p) /\ t.second = Leaf(p) -> t.first
    [] OTHER -> [t EXCEPT !.first = Remove(@, p), !.second = Remove(@, p)]

\* resize_impl: the first split of the direction's axis on the way down to p.
RECURSIVE ResizeAt(_, _, _, _)
ResizeAt(t, p, direction, delta) ==
  CASE IsLeaf(t) -> t
    [] ~IsLeaf(t) /\ t.axis = AxisOf(direction) /\ Contains(t, p) ->
         LET move == IF Contains(t.first, p) THEN delta ELSE -delta
         IN  [t EXCEPT !.ratio = Clamp(@ + move, RatioMin, RatioMax)]
    [] OTHER -> [t EXCEPT !.first  = ResizeAt(@, p, direction, delta),
                          !.second = ResizeAt(@, p, direction, delta)]

-----------------------------------------------------------------------------
(* collect_rects.                                                          *)

Rect(x, y, w, h) == [x |-> x, y |-> y, width |-> w, height |-> h]
Bounds(size)     == Rect(0, 0, size.cols, size.rows)

\* round(extent * ratio), clamped to leave a cell for either side.
FirstExtent(extent, ratio) == Clamp((extent * ratio + 50) \div 100, 1, extent - 1)

FirstBounds(t, b) ==
  IF t.axis = "horizontal"
    THEN [b EXCEPT !.width = FirstExtent(b.width, t.ratio)]
    ELSE [b EXCEPT !.height = FirstExtent(b.height, t.ratio)]

\* Mutant: the second pane is not moved.
SecondBoundsUnmoved(t, b) ==
  LET first == FirstBounds(t, b)
  IN  IF t.axis = "horizontal" THEN [b EXCEPT !.width = @ - first.width]
                               ELSE [b EXCEPT !.height = @ - first.height]

SecondBounds(t, b) ==
  LET first == FirstBounds(t, b)
  IN  IF t.axis = "horizontal"
        THEN [b EXCEPT !.x = @ + first.width, !.width = @ - first.width]
        ELSE [b EXCEPT !.y = @ + first.height, !.height = @ - first.height]

\* f32::clamp(1.0, extent - 1) panics when the extent is a single cell.
RECURSIVE Panics(_, _)
Panics(t, b) ==
  /\ ~IsLeaf(t)
  /\ \/ (IF t.axis = "horizontal" THEN b.width ELSE b.height) <= 1
     \/ Panics(t.first, FirstBounds(t, b)) \/ Panics(t.second, SecondBounds(t, b))

\* The rectangles of a layout that does not panic: pairs of pane and rectangle.
RECURSIVE Placed(_, _)
Placed(t, b) ==
  IF IsLeaf(t) THEN {[pane |-> t.pane, rect |-> b]}
  ELSE Placed(t.first, FirstBounds(t, b)) \cup Placed(t.second, SecondBounds(t, b))

RectOf(t, size) ==
  [p \in Elems(PanesOf(t)) |->
     (CHOOSE r \in Placed(t, Bounds(size)) : r.pane = p).rect]

-----------------------------------------------------------------------------
(* neighbor.                                                               *)

Right(r)  == r.x + r.width
Bottom(r) == r.y + r.height
Least(a, b)    == IF a < b THEN a ELSE b
Greatest(a, b) == IF a > b THEN a ELSE b

\* saturating_sub
Monus(a, b) == Greatest(a - b, 0)

InDirection(from, r, direction) ==
  CASE direction = "up"    -> Bottom(r) <= from.y
    [] direction = "down"  -> r.y >= Bottom(from)
    [] direction = "left"  -> Right(r) <= from.x
    [] direction = "right" -> r.x >= Right(from)

\* Overlap across the direction of the move.
Overlap(from, r, direction) ==
  IF AxisOf(direction) = "horizontal"
    THEN Monus(Least(Bottom(from), Bottom(r)), Greatest(from.y, r.y))
    ELSE Monus(Least(Right(from), Right(r)), Greatest(from.x, r.x))

Gap(from, r, direction) ==
  CASE direction = "up"    -> Monus(from.y, Bottom(r))
    [] direction = "down"  -> Monus(r.y, Bottom(from))
    [] direction = "left"  -> Monus(from.x, Right(r))
    [] direction = "right" -> Monus(r.x, Right(from))

\* Greatest overlap, then smallest gap, then lowest pane.
Better(from, direction, rects, p, q) ==
  LET op == Overlap(from, rects[p], direction)
      oq == Overlap(from, rects[q], direction)
      gp == Gap(from, rects[p], direction)
      gq == Gap(from, rects[q], direction)
  IN  \/ op > oq
      \/ op = oq /\ gp < gq
      \/ op = oq /\ gp = gq /\ p <= q

\* The pane moved to, as a set of at most one.
Neighbor(t, p, direction, size) ==
  LET rects == RectOf(t, size)
      there == {q \in DOMAIN rects \ {p} : InDirection(rects[p], rects[q], direction)}
  IN  {q \in there : \A o \in there : Better(rects[p], direction, rects, q, o)}

-----------------------------------------------------------------------------
VARIABLES
  tree,     \* TabModel.tree
  focused,  \* TabModel.focused_pane
  nextPane, \* the next pane id
  size,     \* the grid of the last layout
  panicked  \* a layout panicked

vars == <<tree, focused, nextPane, size, panicked>>

Init ==
  /\ tree = Leaf(1) /\ focused = 1 /\ nextPane = 2
  /\ size \in Sizes /\ panicked = FALSE

\* insert_split_pane
InsertSplitPane(axis) ==
  /\ ~panicked /\ nextPane <= MaxPanes
  /\ tree' = SplitLeaf(tree, focused, axis, nextPane)
  /\ focused' = nextPane /\ nextPane' = nextPane + 1
  /\ UNCHANGED <<size, panicked>>

\* close_pane of a pane that is not the last one; that one closes the tab.
ClosePane(p) ==
  /\ ~panicked /\ Contains(tree, p) /\ ~IsLeaf(tree)
  /\ tree' = Remove(tree, p)
  /\ focused' = IF focused = p THEN FirstOf(PanesOf(tree')) ELSE focused
  /\ UNCHANGED <<nextPane, size, panicked>>

CyclePane(forward) ==
  /\ ~panicked
  /\ focused' = NextIn(PanesOf(tree), focused, forward)
  /\ UNCHANGED <<tree, nextPane, size, panicked>>

GotoSplit(direction) ==
  /\ ~panicked
  /\ IF Panics(tree, Bounds(size))
       THEN panicked' = TRUE /\ UNCHANGED focused
       ELSE /\ \E q \in Neighbor(tree, focused, direction, size) : focused' = q
            /\ UNCHANGED panicked
  /\ UNCHANGED <<tree, nextPane, size>>

\* focus_pane, by a click
FocusPane(p) ==
  /\ ~panicked /\ Contains(tree, p)
  /\ focused' = p
  /\ UNCHANGED <<tree, nextPane, size, panicked>>

ResizeSplit(direction, delta) ==
  /\ ~panicked
  /\ tree' = ResizeAt(tree, focused, direction, delta)
  /\ UNCHANGED <<focused, nextPane, size, panicked>>

\* Every layout computes the rectangles of all panes.
Layout(measured) ==
  /\ ~panicked
  /\ size' = measured /\ panicked' = Panics(tree, Bounds(measured))
  /\ UNCHANGED <<tree, focused, nextPane>>

Next ==
  \/ \E axis \in Axes : InsertSplitPane(axis)
  \/ \E p \in Pane : ClosePane(p) \/ FocusPane(p)
  \/ \E forward \in BOOLEAN : CyclePane(forward)
  \/ \E direction \in Directions : GotoSplit(direction)
  \/ \E direction \in Directions, delta \in Deltas : ResizeSplit(direction, delta)
  \/ \E measured \in Sizes : Layout(measured)

Spec == Init /\ [][Next]_vars

-----------------------------------------------------------------------------
\* A layout gives every cell of the grid to exactly one pane, and every pane
\* at least one cell, for whatever splits and dividers the tab went through.
RectsTile ==
  ~Panics(tree, Bounds(size)) =>
    LET rects == RectOf(tree, size)
        Covers(r, x, y) == x \in r.x..(Right(r) - 1) /\ y \in r.y..(Bottom(r) - 1)
    IN  /\ \A p \in DOMAIN rects : rects[p].width > 0 /\ rects[p].height > 0
        /\ \A x \in 0..(size.cols - 1), y \in 0..(size.rows - 1) :
             Cardinality({p \in DOMAIN rects : Covers(rects[p], x, y)}) = 1

\* A move of focus is never ambiguous, and a pane that touches the focused one
\* in a direction is enough for the move to go somewhere.
NeighborIsUnique ==
  ~Panics(tree, Bounds(size)) =>
    LET rects == RectOf(tree, size)
    IN  \A d \in Directions :
          LET found == Neighbor(tree, focused, d, size)
          IN  /\ Cardinality(found) <= 1
              /\ (\E q \in DOMAIN rects \ {focused} :
                    InDirection(rects[focused], rects[q], d)) => found # {}

\* Closing a pane that was just split off undoes the split: the tree, the
\* dividers included, is what it was.
CloseUndoesSplit ==
  nextPane <= MaxPanes =>
    \A p \in Elems(PanesOf(tree)), axis \in Axes :
      Remove(SplitLeaf(tree, p, axis, nextPane), nextPane) = tree

\* Layout, focus and closing are right in every tree a tab can have.
LayoutIsSound == RectsTile /\ NeighborIsUnique /\ CloseUndoesSplit

\* A tab keeps the promise of PaneOrder with the depth-first order of its tree.
Panes == INSTANCE PaneOrder WITH order <- PanesOf(tree), focus <- focused
OrderKept == Panes!Spec
=============================================================================
