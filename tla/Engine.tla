--------------------------------- MODULE Engine ---------------------------------
(***************************************************************************)
(* The terminal engine (compact/engine.rs) and the calls the terminal      *)
(* makes of it (lib.rs): printing, cursor movement, editing, scrolling,    *)
(* the alternate screen, resizing with reflow, damage, and the hand-over   *)
(* of rows to the scrollback.                                              *)
(*                                                                         *)
(* Rows and columns are numbered from 1, and the scroll region is          *)
(* top..bottom.  Left out: colours and attributes (a pen is plain or       *)
(* tinted), hyperlinks, titles, keyboard stacks and replies.               *)
(***************************************************************************)
EXTENDS CompactRow, SequencesExt

CONSTANTS
  Sizes,       \* the sizes a resize may ask for
  TabInterval, \* distance of the default tab stops
  Prefills,    \* how many letters have been printed at the start
  MaxScrolled, \* bound: rows in the history and the scrollback
  MaxSteps,    \* bound: operations of a behaviour
  Focuses      \* the operations a behaviour combines, one name per set

VARIABLES
  g,      \* the engine
  stored, \* the scrollback's rows, oldest first: [row, hot]
  view,   \* the rows of the consumer of the frame deltas
  focus,  \* the set of operations this behaviour exercises
  steps   \* operations so far

vars == <<g, stored, view, focus, steps>>

Home == [row |-> 1, col |-> 1, wrap |-> FALSE]
Screen(size) ==
  [rows |-> [r \in 1..size.rows |-> BlankRow(size.cols)], cursor |-> Home,
   saved |-> [cursor |-> Home, tint |-> FALSE]]
DefaultTabs(from, to) == {c \in from..to : c # 1 /\ (c - 1) % TabInterval = 0}
Whole(size) == [top |-> 1, bottom |-> size.rows]

NewEngine(size, capture) ==
  [size |-> size, primary |-> Screen(size), alternate |-> Screen(size), altActive |-> FALSE,
   region |-> Whole(size), modes |-> {"wrap"}, tint |-> FALSE, tabs |-> DefaultTabs(1, size.cols),
   history |-> <<>>, capture |-> capture, savedClear |-> FALSE, clearStorage |-> FALSE,
   pool |-> <<>>, damage |-> "Full", damaged |-> {}]

---------------------------------------------------------------------------------
(* The active screen and its damage.                                       *)

Active(e) == IF e.altActive THEN e.alternate ELSE e.primary
WithActive(e, s) == IF e.altActive THEN [e EXCEPT !.alternate = s] ELSE [e EXCEPT !.primary = s]
Cursor(e) == Active(e).cursor
SetCursor(e, c) == WithActive(e, [Active(e) EXCEPT !.cursor = c])
RowAt(e, r) == Active(e).rows[r]
SetRow(e, r, row) == WithActive(e, [Active(e) EXCEPT !.rows[r] = row])
Has(e, mode) == mode \in e.modes
Erased(e) == IF e.tint THEN "t" ELSE "."

MarkFull(e) == [e EXCEPT !.damage = "Full", !.damaged = {}]
MarkRow(e, r) ==
  IF e.damage = "Full" THEN e ELSE [e EXCEPT !.damage = "Partial", !.damaged = @ \cup {r}]
MarkCursor(e) == MarkRow(e, Cursor(e).row)

\* A cursor movement marks the row it leaves and the row it reaches.
MoveCursor(e, row, col) == MarkCursor(SetCursor(MarkCursor(e), [row |-> row, col |-> col, wrap |-> FALSE]))

---------------------------------------------------------------------------------
(* Scrolling.                                                              *)

\* n blank rows, on the newest pooled allocations of the right width; the
\* others that are met on the way are dropped.
Fitting(e) == SetToSortSeq({i \in DOMAIN e.pool : Len(e.pool[i]) = e.size.cols}, LAMBDA i, j : i > j)
FreshRows(e, n) ==
  [i \in 1..n |-> IF i <= Len(Fitting(e)) THEN RecycledRow(e.pool[Fitting(e)[i]])
                  ELSE BlankRow(e.size.cols)]
PoolAfter(e, n) == IF n <= Len(Fitting(e)) THEN SubSeq(e.pool, 1, Fitting(e)[n] - 1) ELSE <<>>

\* The rows with n of them taken out at `from` and others put in at `to`.
Rotated(rows, from, n, to, fresh) ==
  LET rest == SubSeq(rows, 1, from - 1) \o SubSeq(rows, from + n, Len(rows))
  IN SubSeq(rest, 1, to - 1) \o fresh \o SubSeq(rest, to, Len(rest))

ScrollUp(e, origin, lines) ==
  LET n == Min({lines, Max({0, e.region.bottom - origin + 1})})
      leaving == SubSeq(Active(e).rows, origin, origin + n - 1)
      toHistory == ~e.altActive /\ origin = 1
      WithRows(d, fresh) ==
        WithActive(d, [Active(d) EXCEPT !.rows = Rotated(@, origin, n, e.region.bottom - n + 1, fresh)])
  IN IF n = 0 THEN e
     ELSE IF toHistory /\ ~e.capture
     THEN MarkFull(WithRows(e, [i \in 1..n |-> ReusedRow(leaving[i])]))
     ELSE MarkFull([WithRows(e, FreshRows(e, n)) EXCEPT
                      !.pool = PoolAfter(e, n), !.history = IF toHistory THEN @ \o leaving ELSE @])

ScrollDown(e, origin, lines) ==
  LET n == Min({lines, Max({0, e.region.bottom - origin + 1})})
      fresh == [i \in 1..n |-> BlankRow(e.size.cols)]
  IN IF n = 0 THEN e
     ELSE MarkFull(WithActive(e, [Active(e) EXCEPT
                     !.rows = Rotated(@, e.region.bottom - n + 1, n, origin, fresh)]))

---------------------------------------------------------------------------------
(* Printing.                                                               *)

WrapLine(e) ==
  LET row == Cursor(e).row
      wrapped == MarkRow(SetRow(e, row, WrapRow(RowAt(e, row))), row)
      next == IF row = e.region.bottom THEN ScrollUp(wrapped, e.region.top, 1) ELSE wrapped
      to == IF row # e.region.bottom /\ row < e.size.rows THEN row + 1 ELSE row
  IN IF Has(e, "wrap") THEN MarkCursor(SetCursor(next, [row |-> to, col |-> 1, wrap |-> FALSE])) ELSE e

\* A cell whose wide flag and content go.
BlankedOut(cell) == IF cell \in {"a", "b", "A", "E", "W"} THEN "." ELSE cell

\* Overwriting a part of a wide character clears its other part.
\* Mutant: the row above, whose last cell is cleared too, is not marked.
ClearWideUnmarked(e, row, col) ==
  LET here == Peek(RowAt(e, row), col)
      seen == Text(RowAt(e, row))
      side == IF here = "W" THEN Min({col + 1, e.size.cols}) ELSE Max({col - 1, 1})
      one == SetRow(e, row, Patch(RowAt(e, row), side, IF side = col THEN seen[col] ELSE "."))
      last == Text(RowAt(one, row - 1))[e.size.cols]
  IN IF here \notin {"W", "s", "l"} THEN e
     ELSE MarkRow(IF col <= 2 /\ row > 1
                  THEN SetRow(one, row - 1, Patch(RowAt(one, row - 1), e.size.cols, IF last = "l" THEN "." ELSE last))
                  ELSE one, row)

ClearWide(e, row, col) ==
  LET here == Peek(RowAt(e, row), col)
      seen == Text(RowAt(e, row))
      side == IF here = "W" THEN Min({col + 1, e.size.cols}) ELSE Max({col - 1, 1})
      left == IF side = col THEN seen[col]
              ELSE IF here # "W" THEN BlankedOut(seen[side])
              ELSE IF seen[side] = "s" THEN "." ELSE seen[side]
      one == SetRow(e, row, Patch(RowAt(e, row), side, left))
      last == Text(RowAt(one, row - 1))[e.size.cols]
      two == IF col <= 2 /\ row > 1
             THEN MarkRow(SetRow(one, row - 1,
                    Patch(RowAt(one, row - 1), e.size.cols, IF last = "l" THEN "." ELSE last)), row - 1)
             ELSE one
  IN IF here \in {"W", "s", "l"} THEN MarkRow(two, row) ELSE e

WriteAtCursor(e, cell) ==
  LET at == Cursor(e)
      cleared == ClearWide(e, at.row, at.col)
  IN MarkRow(SetRow(cleared, at.row, Put(RowAt(cleared, at.row), at.col, <<cell>>)), at.row)

InsertCells(e, count) ==
  LET at == Cursor(e)
      n == Min({count, e.size.cols - at.col + 1})
      old == Text(RowAt(e, at.row))
      new == SubSeq(old, 1, at.col - 1) \o [i \in 1..n |-> Erased(e)] \o SubSeq(old, at.col, e.size.cols - n)
  IN MarkRow(SetRow(e, at.row, Rearranged(RowAt(e, at.row), new)), at.row)

\* The cursor after a character: on the last column it stays and remembers.
Advance(e) ==
  IF Cursor(e).col < e.size.cols THEN SetCursor(e, [Cursor(e) EXCEPT !.col = @ + 1])
  ELSE SetCursor(e, [Cursor(e) EXCEPT !.wrap = TRUE])

Wrapped(e) == IF Cursor(e).wrap THEN WrapLine(e) ELSE e
MakeRoom(e, width) ==
  IF Has(e, "insert") /\ Cursor(e).col - 1 + width < e.size.cols THEN InsertCells(e, width) ELSE e

InputNarrow(e, c) == Advance(WriteAtCursor(MakeRoom(Wrapped(e), 1), c))

WritePair(e) == Advance(WriteAtCursor(Advance(WriteAtCursor(e, "W")), "s"))
InputWide(e) ==
  LET ready == MakeRoom(Wrapped(e), 2)
  IN IF Cursor(ready).col < e.size.cols THEN WritePair(ready)
     ELSE IF Has(e, "wrap") THEN WritePair(WrapLine(WriteAtCursor(ready, "l")))
     ELSE SetCursor(ready, [Cursor(ready) EXCEPT !.wrap = TRUE])

\* The cell a combining mark belongs to.
MarkedCol(e) ==
  LET col == IF Cursor(e).wrap THEN Cursor(e).col ELSE Max({1, Cursor(e).col - 1})
  IN IF Peek(RowAt(e, Cursor(e).row), col) = "s" /\ col > 1 THEN col - 1 ELSE col
AttachCombining(e) ==
  LET row == Cursor(e).row
      cell == Text(RowAt(e, row))[MarkedCol(e)]
  IN MarkRow(SetRow(e, row, Patch(RowAt(e, row), MarkedCol(e), IF cell \in {"a", "b"} THEN "A" ELSE cell)), row)

AsciiStep(acc) ==
  LET ready == Wrapped(acc.e)
      at == Cursor(ready)
      take == Min({Len(acc.text), ready.size.cols - at.col + 1})
      row == RowAt(ready, at.row)
      hasWide == \E i \in at.col..(at.col + take - 1) : Text(row)[i] \in {"W", "s", "l"}
      written == MarkRow(SetRow(ready, at.row, Put(row, at.col, SubSeq(acc.text, 1, take))), at.row)
      moved == SetCursor(written, [at EXCEPT !.col = Min({at.col + take, ready.size.cols}),
                                             !.wrap = at.col + take > ready.size.cols])
  IN IF hasWide THEN [e |-> InputNarrow(ready, Head(acc.text)), text |-> Tail(acc.text)]
     ELSE [e |-> moved, text |-> SubSeq(acc.text, take + 1, Len(acc.text))]
AsciiRun(e, text) ==
  FoldLeft(LAMBDA acc, c : IF acc.text = <<>> THEN acc ELSE AsciiStep(acc), [e |-> e, text |-> text], text).e

---------------------------------------------------------------------------------
(* Cursor movement and tabs.                                               *)

OriginTop(e) == IF Has(e, "origin") THEN e.region.top ELSE 1
OriginBottom(e) == IF Has(e, "origin") THEN e.region.bottom ELSE e.size.rows

\* goto: line and column count from 1 and are clamped.  The lower clamp is
\* row 1 even in origin mode.
Goto(e, line, col) ==
  MoveCursor(e, Max({1, Min({line + OriginTop(e) - 1, OriginBottom(e)})}), Min({col, e.size.cols}))

LineFeed(e) ==
  LET at == Cursor(e)
  IN IF at.row = e.region.bottom THEN ScrollUp(e, e.region.top, 1)
     ELSE IF at.row < e.size.rows
     THEN MarkCursor(SetCursor(MarkCursor(e), [at EXCEPT !.row = @ + 1])) ELSE e
CarriageReturn(e) == MoveCursor(e, Cursor(e).row, 1)
NewLine(e) == IF Has(e, "newline") THEN CarriageReturn(LineFeed(e)) ELSE LineFeed(e)
BackSpace(e) ==
  IF Cursor(e).col > 1 THEN MarkCursor(SetCursor(e, [Cursor(e) EXCEPT !.col = @ - 1, !.wrap = FALSE])) ELSE e
ReverseIndex(e) ==
  IF Cursor(e).row = e.region.top THEN ScrollDown(e, e.region.top, 1)
  ELSE MarkCursor(SetCursor(MarkCursor(e), [Cursor(e) EXCEPT !.row = Max({1, @ - 1})]))

NextStop(e) == Min({e.size.cols} \cup {c \in e.tabs : c > Cursor(e).col})
PrevStop(e) == Max({1} \cup {c \in e.tabs : c < Cursor(e).col})
ToCol(e, col) == MarkCursor(SetCursor(e, [Cursor(e) EXCEPT !.col = col]))
PutTab(e) == IF Cursor(e).wrap THEN WrapLine(e) ELSE ToCol(e, NextStop(e))
BackwardTab(e) == ToCol(e, PrevStop(e))
ForwardTab(e) == ToCol(e, NextStop(e))

---------------------------------------------------------------------------------
(* Editing and clearing.                                                   *)

EraseIn(e, row, from, to) == SetRow(e, row, Erase(RowAt(e, row), from, to, Erased(e)))
EraseRows(e, from, to, cell) ==
  WithActive(e, [Active(e) EXCEPT !.rows =
    [r \in DOMAIN @ |-> IF r \in from..to THEN Erase(@[r], 1, e.size.cols, cell) ELSE @[r]]])

EraseChars(e, count) ==
  MarkRow(EraseIn(e, Cursor(e).row, Cursor(e).col, Min({Cursor(e).col + count - 1, e.size.cols})), Cursor(e).row)

\* The last `count` cells are cleared, also where they lie left of the cursor.
DeleteChars(e, count) ==
  LET at == Cursor(e)
      n == Min({count, e.size.cols})
      old == Text(RowAt(e, at.row))
      new == [i \in DOMAIN old |-> IF i > e.size.cols - n THEN Erased(e)
                                   ELSE IF i < at.col THEN old[i] ELSE old[i + n]]
  IN MarkRow(SetRow(e, at.row, Rearranged(RowAt(e, at.row), new)), at.row)

ClearLine(e, mode) ==
  LET at == Cursor(e)
  IN IF mode = "Right" /\ at.wrap THEN e
     ELSE MarkRow(EraseIn(e, at.row, IF mode = "Right" THEN at.col ELSE 1,
                          IF mode = "Left" THEN at.col ELSE e.size.cols), at.row)

\* Clearing the whole primary screen scrolls it into the history, but right
\* after the history was cleared it erases in place.
ClearAll(e) ==
  IF e.altActive \/ ~e.capture \/ e.savedClear
  THEN [EraseRows(e, 1, e.size.rows, Erased(e)) EXCEPT !.savedClear = e.altActive /\ @]
  ELSE [e EXCEPT !.history = @ \o e.primary.rows,
                 !.primary.rows = [r \in DOMAIN @ |-> BlankRow(e.size.cols)]]

ClearScreen(e, mode) ==
  LET at == Cursor(e)
  IN MarkFull(CASE mode = "Above" -> EraseIn(EraseRows(e, 1, at.row - 1, Erased(e)), at.row, 1, at.col)
                [] mode = "Below" -> EraseRows(EraseIn(e, at.row, at.col, e.size.cols),
                                               at.row + 1, e.size.rows, Erased(e))
                [] mode = "All"   -> ClearAll(e)
                [] mode = "Saved" -> [e EXCEPT !.history = <<>>, !.savedClear = TRUE, !.clearStorage = TRUE])

Decaln(e) == MarkFull(EraseRows(e, 1, e.size.rows, "E"))

InsertLines(e, count) ==
  IF Cursor(e).row \in e.region.top..e.region.bottom THEN ScrollDown(e, Cursor(e).row, count) ELSE e
DeleteLines(e, count) ==
  IF Cursor(e).row \in e.region.top..e.region.bottom
  THEN ScrollUp(e, Cursor(e).row, Min({count, e.size.rows - Cursor(e).row + 1})) ELSE e

---------------------------------------------------------------------------------
(* Modes, regions, screens.                                                *)

SetScrollingRegion(e, top, bottom) ==
  IF top <= Min({bottom, e.size.rows})
  THEN Goto([e EXCEPT !.region = [top |-> top, bottom |-> Min({bottom, e.size.rows})]], 1, 1) ELSE e

SetMode(e, mode) ==
  LET set == [e EXCEPT !.modes = @ \cup {mode}] IN IF mode = "origin" THEN Goto(set, 1, 1) ELSE set
UnsetMode(e, mode) ==
  LET unset == [e EXCEPT !.modes = @ \ {mode}] IN IF mode = "insert" THEN MarkFull(unset) ELSE unset

ColumnMode(e) == MarkFull(EraseRows(SetScrollingRegion(e, 1, e.size.rows), 1, e.size.rows, "."))

SaveCursor(e) == WithActive(e, [Active(e) EXCEPT !.saved = [cursor |-> Cursor(e), tint |-> e.tint]])
RestoreCursor(e) ==
  MarkCursor([SetCursor(MarkCursor(e), Active(e).saved.cursor) EXCEPT !.tint = Active(e).saved.tint])

SwapAlt(e) ==
  LET entered == [e EXCEPT !.alternate.cursor = e.primary.cursor,
                           !.primary.saved = [cursor |-> e.primary.cursor, tint |-> e.tint],
                           !.alternate.rows = [r \in DOMAIN @ |-> BlankRow(e.size.cols)]]
  IN MarkFull([(IF e.altActive THEN e ELSE entered) EXCEPT !.altActive = ~@])
SetAlt(e, on) == IF e.altActive = on THEN e ELSE SwapAlt(e)

ResetState(e) ==
  MarkFull([NewEngine(e.size, e.capture) EXCEPT !.pool = e.pool, !.clearStorage = e.clearStorage])

---------------------------------------------------------------------------------
(* Resizing.  On the primary screen a new width rejoins the wrapped rows   *)
(* and cuts them anew; the alternate screen's rows are cut or padded.      *)

Chunks(cells, n) ==
  [i \in 1..((Len(cells) + n - 1) \div n) |-> SubSeq(cells, (i - 1) * n + 1, Min({i * n, Len(cells)}))]
PaddedTo(cells, n) == [i \in 1..n |-> IF i \in DOMAIN cells THEN cells[i] ELSE "."]
LineRows(line, cols) ==
  LET parts == Chunks(line, cols)
  IN [i \in DOMAIN parts |-> IF i < Len(parts) THEN WrapRow(Built(PaddedTo(parts[i], cols)))
                             ELSE Built(PaddedTo(parts[i], cols))]

\* An empty row that ends a wrapped line is kept as a row of its own.
ReflowRow(acc, row, cols) ==
  LET cells == Copied(row)
      line == acc.pending \o cells
  IN IF row.wrapped THEN [acc EXCEPT !.pending = line]
     ELSE [pending |-> <<>>,
           rows |-> acc.rows \o LineRows(line, cols) \o (IF cells = <<>> THEN <<BlankRow(cols)>> ELSE <<>>)]

Reflowed(rows, cols) ==
  LET acc == FoldLeft(LAMBDA a, row : ReflowRow(a, row, cols), [rows |-> <<>>, pending |-> <<>>], rows)
  IN acc.rows \o LineRows(acc.pending, cols)

Clamped(c, size) == [row |-> Min({c.row, size.rows}), col |-> Min({c.col, size.cols}), wrap |-> c.wrap]
Shifted(c, rows) == [c EXCEPT !.row = @ + rows]

\* The last rows of the stream stay on the screen.
Refit(rows, size) ==
  LET padded == rows \o [i \in 1..Max({0, size.rows - Len(rows)}) |-> BlankRow(size.cols)]
      split == Len(padded) - size.rows
  IN [above |-> SubSeq(padded, 1, split), rows |-> SubSeq(padded, split + 1, Len(padded))]

Reseated(s, rows, size, down) ==
  [rows |-> rows,
   cursor |-> [Clamped(Shifted(s.cursor, down), size) EXCEPT !.wrap = FALSE],
   saved |-> [s.saved EXCEPT !.cursor = Clamped(Shifted(@, down), size)]]

Resize(e, size) ==
  LET sameWidth == size.cols = e.size.cols
      Fit(row) == IF sameWidth THEN row ELSE Resized(row, size.cols)
      stream == e.history \o e.primary.rows
      main == Refit(IF sameWidth THEN stream ELSE Reflowed(stream, size.cols), size)
      above == IF e.capture THEN main.above ELSE <<>>
      other == Refit([r \in DOMAIN e.alternate.rows |-> Fit(e.alternate.rows[r])], size)
      down == IF sameWidth /\ size.rows > e.size.rows THEN Max({0, Len(e.history) - Len(above)}) ELSE 0
  IN IF size = e.size THEN e
     ELSE MarkFull([e EXCEPT
            !.size = size, !.region = Whole(size),
            !.tabs = {c \in @ : c <= size.cols} \cup DefaultTabs(e.size.cols + 1, size.cols),
            !.history = above, !.primary = Reseated(@, main.rows, size, down),
            !.alternate = Reseated(@, other.rows, size, 0)])

---------------------------------------------------------------------------------
(* One action per handler.  A behaviour combines the handlers of one focus *)
(* and those every focus has.                                              *)

On(names) == focus \in names /\ steps < MaxSteps
Do(e) == /\ g' = e
         /\ steps' = steps + 1
         /\ UNCHANGED <<stored, view, focus>>

Everywhere == Focuses
Letters == {"a", "b"}

Input == On(Everywhere) /\ \E c \in Letters : Do(InputNarrow(g, c))
InputRun == On({"text", "scroll", "resize"}) /\ \E n \in 2..(g.size.cols + 1) : Do(AsciiRun(g, [i \in 1..n |-> "b"]))
InputPair == On({"text"}) /\ Do(InputWide(g))
\* Bound: marks follow text, not a cell that shows nothing.
InputMark == /\ On({"text"})
             /\ Text(RowAt(g, Cursor(g).row))[MarkedCol(g)] # "."
             /\ Do(AttachCombining(g))
MoveTo == On(Everywhere) /\ \E r \in 1..g.size.rows, c \in 1..g.size.cols : Do(Goto(g, r, c))
MoveColumn == On({"screens"}) /\ \E c \in 1..g.size.cols : Do(Goto(g, Cursor(g).row, c))
Return == On({"text", "scroll"}) /\ Do(CarriageReturn(g))
Feed == On({"text", "scroll", "resize", "screens"}) /\ Do(NewLine(g))
Back == On({"text", "tabs"}) /\ Do(BackSpace(g))
Index == On({"scroll"}) /\ Do(ReverseIndex(g))
Tab == On({"tabs"}) /\ (Do(PutTab(g)) \/ Do(ForwardTab(g)) \/ Do(BackwardTab(g)))
TabStop == On({"tabs"}) /\ (\/ Do([g EXCEPT !.tabs = @ \cup {Cursor(g).col}])
                          \/ Do([g EXCEPT !.tabs = @ \ {Cursor(g).col}])
                          \/ Do([g EXCEPT !.tabs = {}]))
Edit == On({"edit"}) /\ \E n \in 1..g.size.cols :
          Do(InsertCells(g, n)) \/ Do(DeleteChars(g, n)) \/ Do(EraseChars(g, n))
ClearPart == On({"edit", "resize"}) /\ \E mode \in {"Left", "Right", "All"} : Do(ClearLine(g, mode))
ClearGrid == On({"edit", "screens", "scroll"}) /\ \E mode \in {"Above", "Below", "All", "Saved"} : Do(ClearScreen(g, mode))
Pen == On({"edit", "screens"}) /\ Do([g EXCEPT !.tint = ~@])
Lines == On({"scroll"}) /\ \E n \in 1..g.size.rows : Do(InsertLines(g, n)) \/ Do(DeleteLines(g, n))
Scroll == On({"scroll"}) /\ \E n \in 1..g.size.rows : Do(ScrollUp(g, g.region.top, n)) \/ Do(ScrollDown(g, g.region.top, n))
Region == On({"scroll", "screens"}) /\ \E top, bottom \in 1..g.size.rows : Do(SetScrollingRegion(g, top, bottom))
Mode == \E mode \in {"wrap", "insert", "newline", "origin"} :
          /\ On(IF mode = "origin" THEN {"screens"} ELSE {"text"})
          /\ Do(SetMode(g, mode)) \/ Do(UnsetMode(g, mode))
Columns == On({"screens"}) /\ Do(ColumnMode(g))
Align == On({"screens"}) /\ Do(Decaln(g))
SavePoint == On({"screens", "resize"}) /\ Do(SaveCursor(g))
RestorePoint == On({"screens", "resize"}) /\ Do(RestoreCursor(g))
Alternate == On({"screens", "resize"}) /\ \E on \in BOOLEAN : Do(SetAlt(g, on))
Reset == On({"screens"}) /\ Do(ResetState(g))

---------------------------------------------------------------------------------
(* The terminal around the engine.                                         *)

Ingested(e) == IF e.capture THEN [i \in DOMAIN e.history |-> [row |-> e.history[i], hot |-> TRUE]] ELSE <<>>

\* The end of a slice of a feed: a cleared history takes the storage and
\* the rows still in the engine with it, else these go to the storage.
EndSlice ==
  /\ g.history # <<>> \/ g.clearStorage
  /\ stored' = IF g.clearStorage THEN <<>> ELSE stored \o Ingested(g)
  /\ g' = [g EXCEPT !.history = <<>>, !.clearStorage = FALSE]
  /\ UNCHANGED <<view, focus, steps>>

BetweenFeeds == g.history = <<>> /\ ~g.clearStorage

\* The worker has compressed a page: its allocations may serve new rows.
Compress ==
  /\ On(Everywhere \ {"text", "resize"}) /\ BetweenFeeds
  /\ \E i \in DOMAIN stored :
       /\ stored[i].hot /\ g.capture
       /\ stored' = [stored EXCEPT ![i].hot = FALSE]
       /\ g' = [g EXCEPT !.pool = Append(@, stored[i].row.cells)]
  /\ steps' = steps + 1
  /\ UNCHANGED <<view, focus>>

\* Growing at the same width takes rows back from the storage, as far as
\* they are neither compressed nor of another width.
Taken(size) ==
  LET wanted == Max({0, size.rows - g.size.rows})
      Usable(i) == stored[i].hot /\ Len(Text(stored[i].row)) = size.cols
  IN IF size.cols # g.size.cols \/ g.altActive THEN 0
     ELSE Max({n \in 0..Min({wanted, Len(stored)}) : \A i \in (Len(stored) - n + 1)..Len(stored) : Usable(i)})

ResizeTerminal ==
  /\ On({"resize"}) /\ BetweenFeeds
  /\ \E size \in Sizes \ {g.size} :
       LET left == Len(stored) - Taken(size)
           back == [i \in 1..Taken(size) |-> stored[left + i].row]
           done == Resize([g EXCEPT !.history = back], size)
       IN /\ stored' = SubSeq(stored, 1, left) \o Ingested(done)
          /\ g' = [done EXCEPT !.history = <<>>]
          /\ view' = [r \in 1..size.rows |-> PaddedTo(<<>>, size.cols)]
  /\ steps' = steps + 1
  /\ UNCHANGED focus

\* Too many styles: the rows are copied with new style numbers, the pool goes.
CompactStyles ==
  /\ On({"edit", "screens"}) /\ BetweenFeeds
  /\ LET Clean(s) == [s EXCEPT !.rows = [r \in DOMAIN @ |-> Sanitized(@[r])]]
     IN Do(MarkFull([g EXCEPT !.primary = Clean(@), !.alternate = Clean(@), !.pool = <<>>]))

\* A frame delta: the damaged rows go to the consumer.
BuildFrame ==
  LET marked == MarkCursor(g)
      Shows(r) == marked.damage = "Full" \/ r \in marked.damaged
  IN /\ BetweenFeeds
     /\ view' = [r \in DOMAIN view |-> IF Shows(r) THEN Text(RowAt(g, r)) ELSE view[r]]
     /\ g' = [marked EXCEPT !.damage = "Clean", !.damaged = {}]
     /\ UNCHANGED <<stored, focus, steps>>

Init ==
  /\ \E size \in Sizes, capture \in BOOLEAN, n \in Prefills :
       /\ g = AsciiRun(NewEngine(size, capture), [i \in 1..n |-> "a"])
       /\ view = [r \in 1..size.rows |-> PaddedTo(<<>>, size.cols)]
  /\ stored = <<>>
  /\ focus \in Focuses
  /\ steps = 0

Handler ==
  \/ Input \/ InputRun \/ InputPair \/ InputMark \/ MoveTo \/ MoveColumn \/ Return \/ Feed \/ Back
  \/ Index \/ Tab \/ TabStop \/ Edit \/ ClearPart \/ ClearGrid \/ Pen \/ Lines \/ Scroll \/ Region
  \/ Mode \/ Columns \/ Align \/ SavePoint \/ RestorePoint \/ Alternate \/ Reset

Next == Handler \/ EndSlice \/ Compress \/ ResizeTerminal \/ CompactStyles \/ BuildFrame

Spec == Init /\ [][Next]_vars

---------------------------------------------------------------------------------
(* Properties.                                                             *)

\* The cursor, the saved cursors and the scroll region lie within the grid
\* and every row of both screens has its width, through resizes, wide
\* characters at the margin and restored cursors.
CursorInGrid ==
  /\ \A s \in {g.primary, g.alternate} :
       /\ Len(s.rows) = g.size.rows
       /\ \A r \in DOMAIN s.rows : Len(Text(s.rows[r])) = g.size.cols
       /\ \A c \in {s.cursor, s.saved.cursor} : c.row \in 1..g.size.rows /\ c.col \in 1..g.size.cols
  /\ 1 <= g.region.top /\ g.region.top <= g.region.bottom /\ g.region.bottom <= g.size.rows

\* A consumer of the frame deltas has the right text in every row that is
\* not marked as damaged: no handler changes a row without marking it.
DamageCoversChanges ==
  \A r \in 1..g.size.rows :
    g.damage = "Full" \/ r \in g.damaged \/ view[r] = Text(RowAt(g, r))

\* Grid, cursor and damage are in order after every operation.
GridIsSound == CursorInGrid /\ DamageCoversChanges

\* The program output of an application in the alternate screen never
\* reaches the scrollback, and leaves the primary screen's text alone until
\* the screen is resized or reset.
AlternateLeavesNoTrace ==
  [][g.altActive /\ g'.altActive /\ g'.size = g.size =>
       /\ Len(g'.history) <= Len(g.history)
       /\ \A r \in 1..g.size.rows : Text(g'.primary.rows[r]) = Text(g.primary.rows[r])]_vars

\* The text of the scrollback and the primary screen: what is not blank, in
\* order, with a bar after every line; a wrapped row does not end its line.
Visible(row) == SelectSeq(Text(row), LAMBDA c : c \notin {".", "w"}) \o (IF row.wrapped THEN <<>> ELSE <<"|">>)
Document ==
  LET all == FoldLeft(LAMBDA acc, row : acc \o Visible(row), <<>>,
                      [i \in DOMAIN stored |-> stored[i].row] \o g.primary.rows) \o <<"|">>
      kept == SelectSeq([i \in DOMAIN all |-> i], LAMBDA i : all[i] # "|" \/ (i > 1 /\ all[i - 1] # "|"))
  IN [n \in DOMAIN kept |-> all[kept[n]]]

\* A resize of a terminal with a scrollback keeps its text: every line is
\* still there, once and in order, whatever the widths and heights.
ResizeKeepsText ==
  [][g.capture /\ g'.size # g.size => Document' = Document]_vars


=================================================================================
