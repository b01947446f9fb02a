----------------------------- MODULE PaneOrder ------------------------------
(***************************************************************************)
(* What a tab promises about its panes, whatever its splits look like: an  *)
(* order without duplicates and a focused pane in it.  A split puts the    *)
(* new pane behind the focused one and focuses it, closing keeps the order *)
(* of the rest, cycling follows the order, and focus may go to any pane.   *)
(***************************************************************************)
EXTENDS Orders

CONSTANT Pane
VARIABLES order, focus

Init == \E p \in Pane : order = <<p>> /\ focus = p

Insert(p) ==
  /\ p \notin Elems(order)
  /\ order' = InsertAfter(order, focus, p) /\ focus' = p

Close(p) ==
  /\ p \in Elems(order) /\ Len(order) > 1
  /\ order' = Without(order, p)
  /\ focus' = IF focus = p THEN FirstOf(order') ELSE focus

Focus(p) == p \in Elems(order) /\ focus' = p /\ UNCHANGED order

Next == \E p \in Pane : Insert(p) \/ Close(p) \/ Focus(p)

Spec == Init /\ [][Next]_<<order, focus>>
=============================================================================
