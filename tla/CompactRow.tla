------------------------------- MODULE CompactRow -------------------------------
(***************************************************************************)
(* The rows of the terminal engine (compact/row.rs).  A row keeps the      *)
(* window of columns that have been written, lo < i <= hi, and shows only  *)
(* that: the cells outside it are whatever the allocation held before,     *)
(* since a row whose history page has been compressed gives its cells to   *)
(* a later row without clearing them.                                      *)
(*                                                                         *)
(* A cell is one of a few kinds: "." a default cell, "a" and "b" text, "A" *)
(* a text cell with a combining mark, "E" the alignment pattern, "t" a     *)
(* blank in a coloured pen, "w" a blank that carries the wrap flag, "W" a  *)
(* wide character, "s" the spacer after it and "l" the spacer at the end   *)
(* of a line whose wide character went to the next one.                    *)
(***************************************************************************)
EXTENDS Integers, Sequences, FiniteSetsExt

Blanks(n) == [i \in 1..n |-> "."]

Occupied(cells) == {i \in DOMAIN cells : cells[i] # "."}

\* The bounds of a row scanned from its cells.
Bounded(cells, wrapped) ==
  [cells |-> cells,
   lo |-> IF Occupied(cells) = {} THEN Len(cells) ELSE Min(Occupied(cells)) - 1,
   hi |-> IF Occupied(cells) = {} THEN 0 ELSE Max(Occupied(cells)),
   wrapped |-> wrapped]

BlankRow(cols) == [cells |-> Blanks(cols), lo |-> cols, hi |-> 0, wrapped |-> FALSE]

\* A row built on a recycled allocation: its cells keep what they held.
RecycledRow(cells) == [BlankRow(Len(cells)) EXCEPT !.cells = cells]

\* What a reader of the row sees.
Text(row) ==
  [i \in DOMAIN row.cells |-> IF row.lo < i /\ i <= row.hi THEN row.cells[i] ELSE "."]

\* The raw cell, of this row or of an earlier one.
Peek(row, i) == row.cells[i]

\* Mutant: the gap between the window and the new text is not cleared.
PutLeavesGap(row, at, text) ==
  [row EXCEPT !.cells = [i \in DOMAIN row.cells |->
                           IF i \in at..(at + Len(text) - 1) THEN text[i - at + 1] ELSE row.cells[i]],
              !.lo = IF row.hi = 0 THEN at - 1 ELSE Min({row.lo, at - 1}),
              !.hi = Max({row.hi, at + Len(text) - 1})]

\* A write of text from column `at` that widens the window; of the cells
\* outside the old window only the gap between it and the text is cleared.
Put(row, at, text) ==
  LET from == at - 1
      to   == from + Len(text)
      InGap(i) == row.hi # 0 /\ i \in (to + 1)..row.lo \cup (row.hi + 1)..from
  IN [row EXCEPT
        !.cells = [i \in DOMAIN row.cells |->
                     IF from < i /\ i <= to THEN text[i - from]
                     ELSE IF InGap(i) THEN "." ELSE row.cells[i]],
        !.lo = IF row.hi = 0 THEN from ELSE Min({row.lo, from}),
        !.hi = Max({row.hi, to})]

\* One cell changed in place, the window left as it is.
Patch(row, i, cell) == [row EXCEPT !.cells = [Text(row) EXCEPT ![i] = cell]]

\* The window scanned again; a wrapped row is occupied to its end.
Recomputed(row, cells) ==
  LET scanned == Bounded(cells, row.wrapped)
  IN IF row.wrapped /\ scanned.hi < Len(cells)
     THEN [scanned EXCEPT !.hi = Len(cells), !.lo = Min({scanned.lo, Len(cells) - 1})]
     ELSE scanned

Erase(row, from, to, erased) ==
  IF from > to THEN row
  ELSE LET cells == [i \in DOMAIN row.cells |->
                       IF i \in from..to THEN erased ELSE Text(row)[i]]
           kept == [row EXCEPT !.cells = cells]
           bounded == IF erased # "." THEN [kept EXCEPT !.lo = Min({row.lo, from - 1}), !.hi = Max({row.hi, to})]
                      ELSE IF row.hi >= from THEN Recomputed(row, cells) ELSE kept
       IN [bounded EXCEPT !.wrapped = FALSE]

WrapRow(row) ==
  LET n == Len(row.cells)
      flagged == [Text(row) EXCEPT ![n] = IF @ = "." THEN "w" ELSE @]
  IN [cells |-> flagged, lo |-> Min({row.lo, n - 1}), hi |-> n, wrapped |-> TRUE]

\* Cells moved about within the row.
Rearranged(row, cells) == Recomputed(row, cells)

\* A row cleared in place; first_occupied keeps its value.
ReusedRow(row) == [row EXCEPT !.cells = Blanks(Len(row.cells)), !.hi = 0, !.wrapped = FALSE]

\* Another width without reflow: the raw cells are cut or padded.
Resized(row, cols) ==
  Bounded([i \in 1..cols |-> IF i \in DOMAIN row.cells THEN row.cells[i] ELSE "."],
          row.wrapped /\ cols >= Len(row.cells))

\* The raw cells a reflow copies out of a row.
Copied(row) == IF row.wrapped THEN row.cells ELSE SubSeq(row.cells, 1, row.hi)

\* A row of a reflow.
Built(cells) == Bounded(cells, FALSE)

\* What the remapping of styles leaves: cells outside the window cleared.
Sanitized(row) ==
  LET end == IF row.wrapped THEN Len(row.cells) ELSE row.hi
  IN [row EXCEPT !.cells = [i \in DOMAIN @ |-> IF row.lo < i /\ i <= end THEN @[i] ELSE "."]]
=================================================================================
