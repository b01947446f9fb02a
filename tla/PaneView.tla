-------------------------------- MODULE PaneView --------------------------------
(***************************************************************************)
(* What a pane shows: the viewport over history and screen, the selection, *)
(* the frames the pane builds (model/pane.rs, viewport.rs, the frame       *)
(* deltas and their pool), and the retained state of the element that      *)
(* paints them (cache.rs, element.rs).                                     *)
(*                                                                         *)
(* A line keeps its identity as it moves from the screen into the history; *)
(* its version changes when it is rewritten in place.  Lines are counted   *)
(* from 0 over history and screen, as in the code.                         *)
(***************************************************************************)
EXTENDS Integers, Sequences, SequencesExt, FiniteSetsExt

CONSTANTS
  Heights,  \* the grid heights a resize may ask for
  MaxLines, \* the scrollback's limit
  MaxIds,   \* bound: lines ever written
  None

\* A line of the terminal, a published frame, the ends of a selection, and
\* what a pump remembers of the pane it began with.
Line      == [id : Nat, version : {0, 1}]
Frame     == [damage : {"Full", "Partial"}, rows : Seq([row : Nat, line : Line])]
Selection == [anchor : Nat, active : Nat]
Begun     == [history : Nat, shown : Seq(Nat), alt : BOOLEAN, evicted : Nat, cleared : BOOLEAN,
              chunks : BOOLEAN]

\* A grid has a row. A pane that keeps no history at all never forgets a
\* selection, whatever scrolls away under it; that setting is left out.
ASSUME PaneAssumption ==
  /\ Heights \subseteq Nat \ {0} /\ Heights # {}
  /\ MaxLines \in Nat \ {0}
  /\ None \notin Frame /\ None \notin Selection /\ None \notin Begun

VARIABLES
  term,      \* [history, primary, alternate, alt, damage, next]
  offset,    \* Viewport::primary_offset
  altSeen,   \* Viewport::alternate_screen
  selection, \* None or [anchor, active], absolute lines
  latest,    \* the published frame or None
  pool,      \* recycled frames
  failed,    \* terminal_error is set: a page of the history is unreadable
  cache,     \* the element's batches: [rows, applied]
  pumping,   \* None or what the pane was like when the pump began
  startup,   \* the startup picture: "animating", "still" or "gone"
  lastRows,  \* last_size.rows: the height of the last geometry that was taken
  torn,      \* no frame was built since the terminal got a height that was refused then
  picked     \* the lines the user selected, None when they are past following

vars == <<term, offset, altSeen, selection, latest, pool, failed, cache, pumping, startup, lastRows,
          torn, picked>>
pane == <<offset, altSeen, selection, latest, pool, failed, startup, lastRows, torn, picked>>

---------------------------------------------------------------------------------
(* The terminal, as far as the pane looks at it.                           *)

Height == Len(term.primary)
Grid(t) == IF t.alt THEN t.alternate ELSE t.primary
Blank(t, n) == [i \in 1..n |-> [id |-> t.next + i - 1, version |-> 0]]
\* The alternate screen is erased when it is shown: what a hidden one has is
\* left out.
Hidden(n) == [i \in 1..n |-> [id |-> 0, version |-> 0]]
Capped(lines) == SubSeq(lines, Max({0, Len(lines) - MaxLines}) + 1, Len(lines))
Undamaged == [full |-> FALSE, rows |-> {}]
MarkFull(t) == [t EXCEPT !.damage.full = TRUE]
MarkRow(t, r) == [t EXCEPT !.damage.rows = @ \cup {r}]

\* A line feed on the last row: the primary screen's top line becomes history.
ScrollOne(t) ==
  MarkFull(IF t.alt THEN [t EXCEPT !.alternate = Tail(@) \o Blank(t, 1), !.next = @ + 1]
           ELSE [t EXCEPT !.history = Capped(Append(@, Head(t.primary))),
                          !.primary = Tail(@) \o Blank(t, 1), !.next = @ + 1])
\* Bound: one line of the screen at a time is a rewritten one.
Rewritable == IF \E i \in 1..Height : Grid(term)[i].version = 1 THEN {} ELSE 1..Height
Rewrite(t, r) ==
  MarkRow(IF t.alt THEN [t EXCEPT !.alternate[r].version = 1]
          ELSE [t EXCEPT !.primary[r].version = 1], r)
ClearSaved(t) == MarkFull([t EXCEPT !.history = <<>>])
ClearAll(t) ==
  MarkFull([t EXCEPT !.history = Capped(@ \o t.primary), !.primary = Blank(t, Len(@)), !.next = @ + Len(t.primary)])
SwitchScreen(t) ==
  MarkFull(IF t.alt THEN [t EXCEPT !.alt = FALSE, !.alternate = Hidden(Len(@))]
           ELSE [t EXCEPT !.alt = TRUE, !.alternate = Blank(t, Len(@)), !.next = @ + Len(t.alternate)])

\* Rows that a lower grid has no place for go to the history, or are gone on the
\* alternate screen; a higher grid takes some rows back, and blank ones.
ResizeTo(t, n, back) ==
  LET grid == SubSeq(t.history, Len(t.history) - back + 1, Len(t.history)) \o t.primary
      over == Max({0, Len(grid) - n})
      new  == Max({0, n - Len(grid)})
      gone == Max({0, Len(t.alternate) - n})
      more == IF t.alt THEN Max({0, n - Len(t.alternate)}) ELSE 0
  IN MarkFull([t EXCEPT
       !.history = Capped(SubSeq(@, 1, Len(@) - back) \o SubSeq(grid, 1, over)),
       !.primary = SubSeq(grid, over + 1, Len(grid)) \o Blank(t, new),
       !.alternate = IF t.alt THEN SubSeq(@, gone + 1, Len(@)) \o Blank([t EXCEPT !.next = @ + new], more)
                     ELSE Hidden(n),
       !.next = @ + new + more])

\* Only the primary screen takes rows back, and only those that are not packed.
MayComeBack(t, n) ==
  IF t.alt THEN {0} ELSE 0..Min({Len(t.history), Max({0, n - Len(t.primary)})})

---------------------------------------------------------------------------------
(* The viewport.                                                           *)

EffectiveOffset == IF altSeen THEN 0 ELSE offset
TopLine(history) == Max({0, history - EffectiveOffset})
\* The line of the view's row r.
LineAt(t, line) == IF line < Len(t.history) THEN t.history[line + 1] ELSE Grid(t)[line - Len(t.history) + 1]
Visible(t, top) == [r \in 1..Len(t.primary) |-> LineAt(t, top + r - 1)]
\* Mutant: the offset stays what it was.
NoteGrowthIgnored(o, before, after) == Min({o, after})

\* What the pump adds to the offset of a scrolled view.
NoteGrowth(o, before, after) ==
  IF o = 0 THEN 0 ELSE Min({o + Max({0, after - before}), after})

---------------------------------------------------------------------------------
(* Frames.                                                                 *)

\* A frame goes back to the pool without its rows.
Released(frame) == <<>>
Release == IF latest = None THEN pool ELSE Append(pool, Released(latest.rows))

\* The rows of a delta go behind those the recycled frame still has; the
\* cursor's row is always one of them.
Delta(t, spare) ==
  LET Entry(r) == [row |-> r, line |-> Grid(t)[r]]
      damaged  == SetToSortSeq(t.damage.rows \cup {Len(t.primary)}, LAMBDA a, b : a < b)
  IN IF t.damage.full
     THEN [damage |-> "Full", rows |-> spare \o [r \in 1..Len(t.primary) |-> Entry(r)]]
     ELSE [damage |-> "Partial", rows |-> spare \o [i \in DOMAIN damaged |-> Entry(damaged[i])]]

Projection(t, top) ==
  [damage |-> "Full", rows |-> [r \in 1..Len(t.primary) |-> [row |-> r, line |-> Visible(t, top)[r]]]]

\* Mutant: a frame nobody painted is replaced like any other.
RebuildAsIs(t, o, spare) ==
  IF o = 0 THEN Delta(t, spare) ELSE Projection(t, Len(t.history) - o)

\* A full frame that is replaced makes the next one full: the pane cannot
\* know whether it was painted.
Rebuild(t, o, spare) ==
  IF o # 0 THEN Projection(t, Len(t.history) - o)
  ELSE Delta(IF latest # None /\ latest.damage = "Full" THEN MarkFull(t) ELSE t, spare)

Stale(c) == IF c.applied = "latest" THEN [c EXCEPT !.applied = "older"] ELSE c

\* rebuild_frame over terminal t with the viewport at o; the projection of
\* a page that cannot be read publishes nothing and stops the pane.
RebuildFrame(t, o) ==
  LET synced == Min({o, Len(t.history)})
      eff == IF t.alt THEN 0 ELSE synced
      spares == Release
      spare == IF spares = <<>> THEN <<>> ELSE Last(spares)
      left == IF spares = <<>> THEN <<>> ELSE Front(spares)
  IN /\ altSeen' = t.alt /\ offset' = synced
     /\ term' = [t EXCEPT !.damage = Undamaged]
     /\ \/ /\ latest' = Rebuild(t, eff, spare)
           /\ pool' = left
           /\ UNCHANGED failed
        \/ /\ eff # 0
           /\ latest' = None
           /\ pool' = Append(left, <<>>)
           /\ failed' = TRUE
     /\ cache' = Stale(cache)
     /\ torn' = FALSE

---------------------------------------------------------------------------------
(* Output.                                                                 *)

PumpBegins ==
  /\ pumping = None /\ ~failed
  /\ pumping' = [history |-> Len(term.history),
                 shown |-> IF offset = 0 THEN <<>> ELSE [r \in 1..Height |-> Visible(term, Len(term.history) - offset)[r].id],
                 alt |-> term.alt, evicted |-> 0, cleared |-> FALSE, chunks |-> FALSE]
  /\ UNCHANGED <<term, pane, cache>>

Outputs(t, kind) ==
  /\ pumping # None
  /\ t.next <= MaxIds
  /\ term' = t
  /\ pumping' = [pumping EXCEPT !.chunks = TRUE, !.cleared = @ \/ kind \in {"clear", "switch"},
                                !.evicted = @ + (IF kind = "scroll" /\ ~t.alt /\ Len(term.history) = MaxLines
                                                 THEN 1 ELSE 0)]
  /\ picked' = IF kind \in {"clear", "switch"} \/ (kind = "scroll" /\ t.alt) THEN None ELSE picked
  /\ UNCHANGED <<offset, altSeen, selection, latest, pool, failed, startup, lastRows, torn, cache>>

LineFeed == Outputs(ScrollOne(term), "scroll")
Redraw == \E r \in Rewritable : Outputs(Rewrite(term, r), "rewrite")
EraseHistory == Outputs(ClearSaved(term), "clear")
ChangeScreen == Outputs(SwitchScreen(term), "switch")

\* Mutant: only an overfull history makes the pane forget the selection.
SurvivingAtLimit(t) ==
  LET last == Len(t.history) + lastRows - 1
  IN IF selection = None \/ (MaxLines > 0 /\ Len(t.history) > MaxLines) THEN None
     ELSE [anchor |-> Min({selection.anchor, last}), active |-> Min({selection.active, last})]

\* What output does to the lines the user selected: clamped to the lines
\* there are, forgotten once the history is at its limit.
Surviving(t) ==
  LET last == Len(t.history) + lastRows - 1
  IN IF selection = None \/ (MaxLines > 0 /\ Len(t.history) >= MaxLines) THEN None
     ELSE [anchor |-> Min({selection.anchor, last}), active |-> Min({selection.active, last})]

PumpEnds ==
  /\ pumping # None
  /\ pumping' = None
  /\ IF pumping.chunks
     THEN LET o == NoteGrowth(offset, pumping.history, Len(term.history))
          IN /\ selection' = Surviving(term)
             /\ picked' = IF Surviving(term) = None THEN None ELSE picked
             /\ startup' = IF startup = "animating" THEN "still" ELSE startup
             /\ RebuildFrame(term, Min({o, Len(term.history)}))
             /\ UNCHANGED lastRows
     ELSE UNCHANGED <<term, pane, cache>>

Idle == pumping = None

\* The startup picture is dismissed: screen and history are cleared behind
\* the viewport's and the selection's back.
DismissFetch ==
  /\ Idle /\ startup # "gone" /\ term.next + Height <= MaxIds
  /\ startup' = "gone"
  /\ RebuildFrame(ClearSaved(ClearAll(term)), offset)
  /\ picked' = None
  /\ UNCHANGED <<selection, lastRows, pumping>>

\* A frame of the startup animation is copied onto the screen; the first
\* output ends the animation.
TickAnimation ==
  /\ Idle /\ startup = "animating"
  /\ \E r \in Rewritable : RebuildFrame(Rewrite(term, r), offset)
  /\ UNCHANGED <<selection, startup, lastRows, picked, pumping>>

---------------------------------------------------------------------------------
(* The user.                                                               *)

ScrollUp == /\ Idle
            /\ RebuildFrame(term, IF altSeen THEN offset ELSE Min({offset + 1, Len(term.history)}))
            /\ UNCHANGED <<selection, startup, lastRows, picked, pumping>>
ScrollDown == /\ Idle
              /\ RebuildFrame(term, IF altSeen THEN offset ELSE Max({0, offset - 1}))
              /\ UNCHANGED <<selection, startup, lastRows, picked, pumping>>

Span(s) == Min({s.anchor, s.active})..Max({s.anchor, s.active})
Covered(t, s) == [line \in Span(s) |-> LineAt(t, line).id]
\* A selection that reaches below the last line the terminal has, or the pane
\* takes it to have, is past following.
Following(s) ==
  IF \A line \in Span(s) : line < Len(term.history) + Min({Height, lastRows}) THEN Covered(term, s) ELSE None

Select == /\ Idle
          /\ \E r \in 1..lastRows :
               LET line == TopLine(Len(term.history)) + r - 1
               IN selection' = [anchor |-> line, active |-> line]
          /\ picked' = Following(selection')
          /\ RebuildFrame(term, offset)
          /\ UNCHANGED <<startup, lastRows, pumping>>
Drag == /\ Idle /\ selection # None
        /\ \E r \in 1..lastRows : selection' = [selection EXCEPT !.active = TopLine(Len(term.history)) + r - 1]
        /\ picked' = Following(selection')
        /\ RebuildFrame(term, offset)
        /\ UNCHANGED <<startup, lastRows, pumping>>
Deselect == /\ Idle /\ selection # None
            /\ selection' = None /\ picked' = None
            /\ RebuildFrame(term, offset)
            /\ UNCHANGED <<startup, lastRows, pumping>>

\* commit_geometry: the terminal is resized and the selection dropped, then
\* the session takes the size and a frame is built.
CommitGeometry ==
  /\ Idle
  /\ \E n \in Heights \ {lastRows} : \E back \in MayComeBack(term, n) :
       LET t == ResizeTo(term, n, back)
       IN /\ t.next <= MaxIds
          /\ RebuildFrame(t, Min({offset, Len(t.history)}))
          /\ lastRows' = n
  /\ selection' = None /\ picked' = None
  /\ UNCHANGED <<startup, pumping>>

\* The session refuses the size, or the child could not be spawned with it: the
\* terminal has it already, last_size and the frame are the old ones, but for
\* a pane that shows the startup picture, which builds one before.  A layout
\* that asks again is not refused again.
RefuseGeometry ==
  /\ Idle
  /\ \E n \in Heights \ {lastRows, Height} : \E back \in MayComeBack(term, n) :
       LET t == ResizeTo(term, n, back)
           o == Min({offset, Len(t.history)})
       IN /\ t.next <= MaxIds
          /\ IF startup # "gone" THEN RebuildFrame(t, o)
             ELSE /\ term' = t /\ offset' = o /\ torn' = TRUE
                  /\ UNCHANGED <<altSeen, latest, pool, failed, cache>>
  /\ selection' = None /\ picked' = None
  /\ UNCHANGED <<startup, lastRows, pumping>>

---------------------------------------------------------------------------------
(* Painting.  An element is built for the frame, painted and dropped in    *)
(* one draw; its batches are retained from one draw to the next, and are   *)
(* lost when a draw leaves the pane out or the font changes.               *)

Batched(batches, frame) ==
  LET rows == {frame.rows[i].row : i \in DOMAIN frame.rows}
      kept == IF frame.damage = "Full" THEN {r \in DOMAIN batches : r <= Max(rows \cup {0})} ELSE DOMAIN batches
      Newest(r) == frame.rows[Max({i \in DOMAIN frame.rows : frame.rows[i].row = r})].line
  IN [r \in kept \cup rows |-> IF r \in rows THEN Newest(r) ELSE batches[r]]

Paint ==
  /\ Idle /\ latest # None
  /\ cache' = [rows |-> Batched(cache.rows, latest), applied |-> "latest"]
  /\ UNCHANGED <<term, pane, pumping>>

LoseBatches ==
  /\ Idle
  /\ cache' = [rows |-> <<>>, applied |-> "none"]
  /\ UNCHANGED <<term, pane, pumping>>

---------------------------------------------------------------------------------

NewTerm(n) ==
  [history |-> <<>>, primary |-> [i \in 1..n |-> [id |-> i, version |-> 0]],
   alternate |-> Hidden(n), alt |-> FALSE, damage |-> [full |-> TRUE, rows |-> {}], next |-> n + 1]

Init ==
  /\ term = NewTerm(Min(Heights))
  /\ offset = 0 /\ altSeen = FALSE /\ selection = None /\ latest = None /\ pool = <<>>
  /\ failed = FALSE /\ startup = "animating" /\ pumping = None /\ picked = None
  /\ lastRows = Min(Heights) /\ torn = FALSE
  /\ cache = [rows |-> <<>>, applied |-> "none"]

Next ==
  \/ PumpBegins \/ LineFeed \/ Redraw \/ EraseHistory \/ ChangeScreen \/ PumpEnds
  \/ DismissFetch \/ TickAnimation \/ ScrollUp \/ ScrollDown \/ Select \/ Drag \/ Deselect
  \/ CommitGeometry \/ RefuseGeometry \/ Paint \/ LoseBatches

Spec == Init /\ [][Next]_vars

---------------------------------------------------------------------------------
(* Properties.                                                             *)

\* Once the published frame is painted, every row of the pane shows the
\* line the viewport has there: nothing of a frame that was replaced before
\* it was painted is missing, and nothing older is left, whatever the order
\* of output, scrolling, resizes, hidden tabs and draws.  The exceptions: a
\* pane that has failed, and one whose terminal was resized for a session
\* that refused the size, until the next frame is built.
PaintedIsShown ==
  Idle /\ ~failed /\ ~torn /\ cache.applied = "latest" =>
    cache.rows = Visible(term, TopLine(Len(term.history)))

\* A view scrolled into the history keeps its lines in place while output
\* arrives; at the history's limit it moves by exactly the lines dropped.
ScrolledViewHolds ==
  [][pumping # None /\ pumping' = None /\ offset # 0 /\ ~pumping.cleared /\ ~pumping.alt =>
       LET now == Visible(term', Len(term'.history) - offset')
           lost == pumping.evicted
       IN \A r \in 1..Height :
            r + lost <= Height => now[r].id = pumping.shown[r + lost]]_vars

\* A selection stays on the lines the user selected, or is dropped, while
\* they move into the history; the history being erased and the screen
\* being switched are the exceptions the code has.
SelectionKeepsItsLines ==
  Idle /\ selection # None /\ picked # None => Covered(term, selection) = picked
=================================================================================
