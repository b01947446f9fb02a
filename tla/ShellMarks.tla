------------------------------- MODULE ShellMarks -------------------------------
(***************************************************************************)
(* The marks a shell puts into its output (OSC 133), the two records the   *)
(* terminal keeps of them (protocols/shell.rs: the state at the cursor and *)
(* the snapshot of the command block), and the input dock the pane derives *)
(* from them (model/input_dock.rs): an overlay at the window's bottom that *)
(* shows the input, while a mask covers the row it is on.                  *)
(*                                                                         *)
(* A cell tells whether it was typed at the present prompt, a row whether  *)
(* the input began on it.  Rows and columns count from 1.  What is only    *)
(* stored of a mark is left out, and so is the number of a block.          *)
(***************************************************************************)
EXTENDS Integers, Sequences, FiniteSetsExt

CONSTANTS
  Heights,    \* the grid heights a resize may ask for
  Cols,
  Kinds,      \* the prompt kinds the shell names
  Exits,      \* the exit codes it reports
  MaxHistory, \* the scrollback's limit
  MaxSteps,   \* bound: outputs and acts of the user in a behaviour
  None

VARIABLES
  marks,   \* SemanticPromptState
  term,    \* [primary, alternate, history, alt, mouse]; a screen is [rows, row, col, wrap]
  pane,    \* [prompt, scrolled, seen]: the presentation, the viewport, ever_seen_osc133
  dock,    \* the derived dock: [shown], and its source if it is
  fresh,   \* the frame and the dock are those of the terminal
  steps

vars == <<marks, term, pane, dock, fresh, steps>>

---------------------------------------------------------------------------------
(* The marks.                                                              *)

NewBlock(kind) ==
  [phase |-> "Prompt", kind |-> kind, start |-> None,
   exit |-> None, failed |-> FALSE, timed |-> FALSE]

NewMarks ==
  [content |-> "None", row |-> "None", kind |-> None, start |-> None, exit |-> None,
   block |-> NewBlock(None), running |-> FALSE, last |-> None]

BeginPrompt(m, kind) ==
  [m EXCEPT !.content = "Prompt", !.row = "Prompt", !.kind = kind, !.start = None,
            !.running = FALSE, !.block = NewBlock(kind)]

StartInput(m, at) ==
  [m EXCEPT !.content = "Input", !.row = "Input", !.start = at,
            !.block.phase = "Input", !.block.start = at, !.block.kind = m.kind]

StartOutput(m) ==
  [m EXCEPT !.content = "Output", !.row = "None", !.start = None, !.running = TRUE,
            !.block = [@ EXCEPT !.phase = "Running", !.start = None, !.exit = None, !.failed = FALSE, !.timed = FALSE]]

\* A duration is known if the command's start was marked.
EndCommand(m, code) ==
  LET done == [m.block EXCEPT !.phase = "Finished", !.exit = code, !.failed = code \notin {None, 0},
                              !.timed = m.running]
  IN [m EXCEPT !.content = "Output", !.row = "None", !.start = None, !.running = FALSE,
               !.exit = IF code = None THEN @ ELSE code, !.block = done, !.last = done]

AtPrompt(m) == m.row # "None" \/ m.content \in {"Input", "Prompt"}

---------------------------------------------------------------------------------
(* The terminal, as far as marks and dock look at it.                      *)

BlankRows(n) == [i \in 1..n |-> [began |-> FALSE, cells |-> [c \in 1..Cols |-> FALSE]]]
Screen(t) == IF t.alt THEN t.alternate ELSE t.primary
WithScreen(t, s) == IF t.alt THEN [t EXCEPT !.alternate = s] ELSE [t EXCEPT !.primary = s]
Height == Len(term.primary.rows)

Capped(rows) == SubSeq(rows, Max({0, Len(rows) - MaxHistory}) + 1, Len(rows))
LineFeed(t) ==
  LET s == Screen(t)
      scrolled == [s EXCEPT !.rows = Tail(@) \o BlankRows(1)]
  IN IF s.row < Len(s.rows) THEN WithScreen(t, [s EXCEPT !.row = @ + 1])
     ELSE [WithScreen(t, scrolled) EXCEPT !.history = IF t.alt THEN @ ELSE Capped(Append(@, Head(s.rows)))]
CarriageReturn(t) == WithScreen(t, [Screen(t) EXCEPT !.col = 1, !.wrap = FALSE])

Put(t, typed) ==
  LET s == Screen(t)
      put == [s EXCEPT !.rows[s.row].cells[s.col] = typed]
  IN WithScreen(t, IF s.col = Cols THEN [put EXCEPT !.wrap = TRUE] ELSE [put EXCEPT !.col = @ + 1])
WriteChar(t, typed) == Put(IF Screen(t).wrap THEN CarriageReturn(LineFeed(t)) ELSE t, typed)

FreshLine(t) == IF Screen(t).col # 1 THEN LineFeed(CarriageReturn(t)) ELSE t
ClearInputEol(t) ==
  LET s == Screen(t)
  IN IF s.wrap THEN t
     ELSE WithScreen(t, [s EXCEPT !.rows[s.row].cells = [c \in 1..Cols |-> c < s.col /\ @[c]]])

NewScreen(n) == [rows |-> BlankRows(n), row |-> 1, col |-> 1, wrap |-> FALSE]
\* What the alternate screen is left with does not matter: it is cleared
\* when it is entered.
SwapAlt(t) ==
  IF t.alt THEN [t EXCEPT !.alt = FALSE, !.alternate = NewScreen(Len(@.rows))]
  ELSE [t EXCEPT !.alt = TRUE, !.alternate = [t.primary EXCEPT !.rows = BlankRows(Len(@))]]

\* The last n rows stay; the primary screen's others are history, from which
\* a taller screen takes them back.
Refit(s, stream, n, down) ==
  LET padded == stream \o BlankRows(Max({0, n - Len(stream)}))
  IN [s EXCEPT !.rows = SubSeq(padded, Len(padded) - n + 1, Len(padded)), !.row = Min({@ + down, n}), !.wrap = FALSE]
ResizeTo(t, n) ==
  LET back == IF t.alt THEN 0 ELSE Min({Len(t.history), Max({0, n - Height})})
      stream == SubSeq(t.history, Len(t.history) - back + 1, Len(t.history)) \o t.primary.rows
  IN [t EXCEPT !.primary = Refit(@, stream, n, back), !.alternate = Refit(@, @.rows, n, 0),
               !.history = Capped(SubSeq(@, 1, Len(@) - back) \o SubSeq(stream, 1, Max({0, Len(stream) - n})))]

---------------------------------------------------------------------------------
(* The dock.                                                               *)

Hidden == [shown |-> FALSE]

\* From where the input began, or the row's first column, to the row's end.
SourceRow(m, t) == IF m.start = None THEN Screen(t).row ELSE m.start[1]
SourceCol(m) == IF m.start = None THEN 1 ELSE m.start[2]

\* Mutant: input that has gone on to another row is shown where it began.
OnOneRowAlways(m, t) == TRUE
OnOneRow(m, t) == m.start = None \/ m.start[1] = Screen(t).row

DeriveDock(m, t, p) ==
  IF /\ p.prompt = "dock" /\ ~t.alt /\ ~p.scrolled /\ p.seen /\ m.kind # "Right" /\ ~t.mouse
     /\ AtPrompt(m) /\ OnOneRow(m, t)
  THEN [shown |-> TRUE, row |-> SourceRow(m, t), col |-> SourceCol(m),
        cells |-> IF SourceRow(m, t) \in DOMAIN Screen(t).rows
                  THEN SubSeq(Screen(t).rows[SourceRow(m, t)].cells, SourceCol(m), Cols) ELSE <<>>]
  ELSE Hidden

\* Where a click on the dock's column k goes.
RemapPointer(d, k) == <<d.row, d.col + k - 1>>

RebuildFrame(t, p) ==
  LET latched == [p EXCEPT !.seen = @ \/ marks.content # "None"]
  IN /\ term' = t /\ pane' = latched
     /\ dock' = DeriveDock(marks, t, latched)
     /\ fresh' = TRUE
     /\ UNCHANGED marks

---------------------------------------------------------------------------------
(* The shell's output.                                                     *)

Step == steps < MaxSteps /\ steps' = steps + 1

Feed(t, m) ==
  /\ Step
  /\ term' = t /\ marks' = m /\ fresh' = FALSE
  /\ UNCHANGED <<pane, dock>>

Write == Feed(WriteChar(term, marks.content = "Input"), marks)
NewLine == Feed(LineFeed(CarriageReturn(term)), marks)
AlternateScreen == Feed(SwapAlt(term), marks)
MouseReports == Feed([term EXCEPT !.mouse = ~@], marks)

Cursor == <<Screen(term).row, Screen(term).col>>
\* For the properties: what was typed at an earlier prompt is no input of the
\* present one, and the row the present one began on is noted.
Forgotten(t) ==
  LET Old(rows) == [i \in DOMAIN rows |-> BlankRows(1)[1]]
  IN [t EXCEPT !.primary.rows = Old(@), !.alternate.rows = Old(@), !.history = Old(@)]
Begun(t) == WithScreen(t, [Screen(t) EXCEPT !.rows[Screen(t).row].began = TRUE])

MarkFreshLine == Feed(FreshLine(term), marks)
MarkNewPrompt == \E kind \in Kinds \cup {None} : Feed(Forgotten(FreshLine(term)), BeginPrompt(marks, kind))
\* A prompt that asks for no fresh line is one on a line of its own, or one
\* at the right of the input.
MarkPromptStart ==
  \E kind \in IF Screen(term).col = 1 THEN Kinds \cup {None} ELSE Kinds \cap {"Right"} :
    Feed(Forgotten(term), BeginPrompt(marks, kind))
\* Input begins where a prompt ends.
MarkInput ==
  /\ marks.content = "Prompt"
  /\ \E t \in {term, ClearInputEol(term)} : Feed(Begun(t), StartInput(marks, Cursor))
MarkOutput == Feed(term, StartOutput(marks))
MarkEnd == \E code \in Exits \cup {None} : Feed(term, EndCommand(marks, code))

\* The pump that fed the output ends with a new frame.
PumpEnds == ~fresh /\ RebuildFrame(term, pane) /\ UNCHANGED steps

---------------------------------------------------------------------------------
(* The user; the main thread is between two pumps.                         *)

ScrollUp == fresh /\ Step /\ RebuildFrame(term, [pane EXCEPT !.scrolled = @ \/ (~term.alt /\ term.history # <<>>)])
ScrollDown == fresh /\ Step /\ RebuildFrame(term, [pane EXCEPT !.scrolled = @ /\ term.alt])
Resize ==
  /\ fresh /\ Step
  /\ \E n \in Heights \ {Height} :
       RebuildFrame(ResizeTo(term, n), [pane EXCEPT !.scrolled = @ /\ ResizeTo(term, n).history # <<>>])
\* A reload of the configuration; no frame is built for it.
SetPresentation ==
  /\ fresh /\ Step
  /\ \E prompt \in {"dock", "inline"} : pane' = [pane EXCEPT !.prompt = prompt]
  /\ UNCHANGED <<marks, term, dock, fresh>>

---------------------------------------------------------------------------------

NewTerm(n) ==
  [primary |-> NewScreen(n), alternate |-> NewScreen(n), history |-> <<>>, alt |-> FALSE, mouse |-> FALSE]

Init ==
  /\ marks = NewMarks
  /\ term = NewTerm(Min(Heights))
  /\ pane = [prompt |-> "dock", scrolled |-> FALSE, seen |-> FALSE]
  /\ dock = Hidden /\ fresh = TRUE /\ steps = 0

Next ==
  \/ Write \/ NewLine \/ AlternateScreen \/ MouseReports
  \/ MarkFreshLine \/ MarkNewPrompt \/ MarkPromptStart \/ MarkInput \/ MarkOutput \/ MarkEnd
  \/ PumpEnds \/ ScrollUp \/ ScrollDown \/ Resize \/ SetPresentation

Spec == Init /\ [][Next]_vars

---------------------------------------------------------------------------------
(* Properties.                                                             *)

\* The state at the cursor and the snapshot of the block tell the same: the
\* phase, the prompt's kind, where the input began, whether the command
\* runs, and how the last one ended.
MarksAgree ==
  LET block == marks.block
  IN /\ marks.content \in {"None", "Prompt"} <=> block.phase = "Prompt"
     /\ marks.content = "Input" <=> block.phase = "Input"
     /\ AtPrompt(marks) <=> marks.content \in {"Prompt", "Input"}
     /\ marks.kind = block.kind
     /\ marks.start = IF block.phase = "Input" THEN block.start ELSE None
     /\ block.phase = "Running" => marks.running
     /\ block.phase \in {"Prompt", "Finished"} => ~marks.running
     /\ block.phase = "Finished" => marks.last = block
     /\ marks.last # None =>
          /\ marks.last.phase = "Finished"
          /\ marks.last.failed <=> marks.last.exit \notin {None, 0}
          /\ marks.last.exit # None => marks.exit = marks.last.exit

\* While the dock is shown its mask covers the cursor's row of the live
\* screen, a click on it goes to the cell it shows, and of that row it leaves
\* out nothing typed at this prompt: as long as the input is on the line it began
\* on, what is left of it is prompt.
DockHidesOnlyThePrompt ==
  fresh /\ dock.shown =>
    LET row == term.primary.rows[dock.row]
    IN /\ ~term.alt /\ ~pane.scrolled /\ ~term.mouse
       /\ dock.row = term.primary.row
       /\ \A k \in dock.col..Cols :
            /\ k - dock.col + 1 \in DOMAIN dock.cells
            /\ RemapPointer(dock, k - dock.col + 1) = <<term.primary.row, k>>
            /\ dock.cells[k - dock.col + 1] = row.cells[k]
       /\ row.began => \A k \in 1..(dock.col - 1) : ~row.cells[k]

DockFollowsTheMarks == MarksAgree /\ DockHidesOnlyThePrompt
=================================================================================
