-------------------------------- MODULE RowWindow --------------------------------
(***************************************************************************)
(* One row of the engine under every sequence of the operations the engine *)
(* applies to rows, down to its return to the pool and its next life.      *)
(***************************************************************************)
EXTENDS CompactRow

CONSTANTS Widths, Texts

VARIABLE row

Cols == Len(row.cells)

WriteText == \E at \in 1..Cols, new \in Texts :
  at + Len(new) - 1 <= Cols /\ row' = Put(row, at, new)
Blankout == \E i \in 1..Cols : row' = Patch(row, i, ".")
EraseSpan == \E from, to \in 1..Cols, cell \in {".", "t"} : from <= to /\ row' = Erase(row, from, to, cell)
WrapOver == row' = WrapRow(row)
ShiftRight == \E at \in 1..Cols :
  row' = Rearranged(row, SubSeq(Text(row), 1, at - 1) \o <<".">> \o SubSeq(Text(row), at, Cols - 1))
ShiftLeft == \E at \in 1..Cols :
  row' = Rearranged(row, SubSeq(Text(row), 1, at - 1) \o SubSeq(Text(row), at + 1, Cols) \o <<".">>)
Sanitize == row' = Sanitized(row)
Reuse == row' = ReusedRow(row)
Renew == row' = BlankRow(Cols)
\* The row has left the screen, its page has been compressed, and its
\* allocation comes back under a new row.
Recycle == row' = RecycledRow(row.cells)
ChangeWidth == \E n \in Widths \ {Cols} : row' = Resized(row, n)

Init == \E n \in Widths : row = BlankRow(n)

Next == WriteText \/ Blankout \/ EraseSpan \/ WrapOver \/ ShiftRight \/ ShiftLeft \/ Sanitize
        \/ Reuse \/ Renew \/ Recycle \/ ChangeWidth

Spec == Init /\ [][Next]_row

\* The string a row stands for, and whether the allocation holds more than that.
AsText(r) == [text |-> SubSeq(Text(r), 1, r.hi), cols |-> Len(r.cells), wrapped |-> r.wrapped,
              stale |-> r.cells # Text(r)]
Plain == INSTANCE PlainRow WITH row <- AsText(row)
\* A row with a window over an allocation that was never cleared does what a
\* string does: no write, erasure, shift or wrap shows what the cells held
\* before, and only a row of the pool holds anything of an earlier one.  A
\* change of the width alone may bring that back, since it copies the raw
\* cells; what the row shows it keeps even then.
RowsAreStrings == Plain!Spec
=================================================================================
