------------------------------- MODULE Orders -------------------------------
(***************************************************************************)
(* The duplicate-free orders the shell keeps: window_order, tab_order and  *)
(* the depth-first order of a split tree's panes (mr-crabs-app model/).    *)
(***************************************************************************)
EXTENDS Integers, Sequences

Elems(s) == {s[i] : i \in 1..Len(s)}

\* iter().position(..) of an element that is there.
PositionOf(s, x) == CHOOSE i \in 1..Len(s) : s[i] = x

\* retain(|id| *id != x)
Without(s, x) ==
  LET kept[i \in 0..Len(s)] ==
        IF i = 0 THEN <<>>
        ELSE IF s[i] = x THEN kept[i - 1] ELSE Append(kept[i - 1], s[i])
  IN  kept[Len(s)]

\* first().copied() and last().copied() of an order that is not empty.
FirstOf(s) == s[1]
LastOf(s)  == s[Len(s)]

\* A split puts the new leaf right behind the one it splits.
InsertAfter(s, x, new) ==
  LET i == PositionOf(s, x)
  IN  SubSeq(s, 1, i) \o <<new>> \o SubSeq(s, i + 1, Len(s))

\* (position +/- 1).rem_euclid(len)
NextIn(s, x, forward) ==
  LET i == PositionOf(s, x) - 1 + (IF forward THEN 1 ELSE -1)
  IN  s[(i % Len(s)) + 1]
=============================================================================
