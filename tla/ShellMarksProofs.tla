---------------------------- MODULE ShellMarksProofs ----------------------------
(***************************************************************************)
(* The two records of a shell's marks agree, whatever marks come in        *)
(* whatever order, and whatever else the output does; and the dock derived *)
(* from them hides only the prompt, on a grid of any size.                 *)
(***************************************************************************)
EXTENDS ShellMarks, FiniteSetTheorems, WellFoundedInduction, TLAPS

\* The two records have the fields the code's structures have.
Fields(m) ==
  /\ m = [content |-> m.content, row |-> m.row, kind |-> m.kind, start |-> m.start, exit |-> m.exit,
          block |-> m.block, running |-> m.running, last |-> m.last]
  /\ m.block = [phase |-> m.block.phase, kind |-> m.block.kind, start |-> m.block.start,
                exit |-> m.block.exit, failed |-> m.block.failed, timed |-> m.block.timed]
  /\ m.row = IF m.content \in {"Prompt", "Input"} THEN m.content ELSE "None"

MInv == Fields(marks) /\ MarksAgree

\* The first record has no command and no prompt.
LEMMA NewMarksAgree == marks = NewMarks => MInv
BY DEF NewMarks, NewBlock, MInv, Fields, MarksAgree, AtPrompt

\* A new prompt begins a new block and leaves the last finished one.
LEMMA BeginPromptAgrees ==
  ASSUME MInv, NEW kind, marks' = BeginPrompt(marks, kind) PROVE MInv'
BY DEF BeginPrompt, NewBlock, MInv, Fields, MarksAgree, AtPrompt

\* The input's beginning goes to both records.
LEMMA StartInputAgrees ==
  ASSUME MInv, NEW at, marks' = StartInput(marks, at) PROVE MInv'
BY ZenonT(30) DEF StartInput, MInv, Fields, MarksAgree, AtPrompt

\* The beginning of output ends the input in both records.
LEMMA StartOutputAgrees ==
  ASSUME MInv, marks' = StartOutput(marks) PROVE MInv'
BY DEF StartOutput, MInv, Fields, MarksAgree, AtPrompt

\* The end of a command finishes the block and keeps a copy of it.
LEMMA EndCommandAgrees ==
  ASSUME MInv, NEW code, marks' = EndCommand(marks, code) PROVE MInv'
BY DEF EndCommand, MInv, Fields, MarksAgree, AtPrompt

\* What does not touch the marks leaves them in agreement.
LEMMA UnmarkedAgrees ==
  ASSUME MInv, UNCHANGED marks PROVE MInv'
BY DEF MInv, Fields, MarksAgree, AtPrompt

\* Every step keeps the two records in agreement.
LEMMA MarksStep ==
  ASSUME MInv, [Next]_vars PROVE MInv'
<1>1. CASE Write \/ NewLine \/ AlternateScreen \/ MouseReports \/ MarkFreshLine
  <2>1. marks' = marks
    BY <1>1 DEF Write, NewLine, AlternateScreen, MouseReports, MarkFreshLine, Feed
  <2> QED BY <2>1, UnmarkedAgrees
<1>2. CASE MarkNewPrompt \/ MarkPromptStart
  <2>1. PICK kind : marks' = BeginPrompt(marks, kind)
    BY <1>2 DEF MarkNewPrompt, MarkPromptStart, Feed
  <2> QED BY <2>1, BeginPromptAgrees
<1>3. CASE MarkInput
  <2>1. marks' = StartInput(marks, Cursor)
    BY <1>3 DEF MarkInput, Feed
  <2> QED BY <2>1, StartInputAgrees
<1>4. CASE MarkOutput
  <2>1. marks' = StartOutput(marks)
    BY <1>4 DEF MarkOutput, Feed
  <2> QED BY <2>1, StartOutputAgrees
<1>5. CASE MarkEnd
  <2>1. PICK code : marks' = EndCommand(marks, code)
    BY <1>5 DEF MarkEnd, Feed
  <2> QED BY <2>1, EndCommandAgrees
<1>6. CASE PumpEnds \/ ScrollUp \/ ScrollDown \/ Resize \/ SetPresentation
  <2>1. marks' = marks
    BY <1>6 DEF PumpEnds, ScrollUp, ScrollDown, Resize, SetPresentation, RebuildFrame
  <2> QED BY <2>1, UnmarkedAgrees
<1>7. CASE UNCHANGED vars
  BY <1>7, UnmarkedAgrees DEF vars
<1> QED BY <1>1, <1>2, <1>3, <1>4, <1>5, <1>6, <1>7 DEF Next

\* Whatever the shell prints and the user does, the state at the cursor and
\* the snapshot of the command block agree (shell.rs, apply_at).
THEOREM MarksAlwaysAgree == Spec => []MarksAgree
<1>1. Init => MInv
  BY NewMarksAgree DEF Init
<1>2. MInv /\ [Next]_vars => MInv'
  BY MarksStep
<1>3. MInv => MarksAgree
  BY DEF MInv
<1> QED BY <1>1, <1>2, <1>3, PTL DEF Spec

-----------------------------------------------------------------------------
(* The dock.  What is typed at the present prompt lies at and behind the   *)
(* place the input began at.                                               *)

NoRow == [began |-> FALSE, cells |-> [k \in 1..Cols |-> FALSE]]

\* The rows there may be: blank ones before the input began (c is 0), later
\* those with nothing typed left of column c if the input began on them.
RowsOf(c) ==
  {row \in [began : BOOLEAN, cells : [1..Cols -> BOOLEAN]] :
     IF c = 0 THEN row = NoRow ELSE row.began => \A k \in 1..(c - 1) : ~row.cells[k]}

ScreensOf(c) ==
  {s \in [rows : Seq(RowsOf(c)), row : Nat, col : 1..Cols, wrap : BOOLEAN] : s.row \in 1..Len(s.rows)}

TermsOf(c) ==
  [primary : ScreensOf(c), alternate : ScreensOf(c), history : Seq(RowsOf(c)), alt : BOOLEAN, mouse : BOOLEAN]

\* Where the row the input began on may be: at most the cursor's, above the
\* cursor's, or the cursor's with the cursor at or behind column c.
UpTo(s)      == \A i \in 1..Len(s.rows) : s.rows[i].began => i <= s.row
Above(s)     == \A i \in 1..Len(s.rows) : s.rows[i].began => i < s.row
Behind(s, c) == \A i \in 1..Len(s.rows) : s.rows[i].began => i < s.row \/ (i = s.row /\ c <= s.col)

Other(t) == IF t.alt THEN t.primary ELSE t.alternate

Kept(t, c)   == t \in TermsOf(c) /\ Behind(Screen(t), c) /\ Behind(Other(t), c)
Moving(t, c) == t \in TermsOf(c) /\ UpTo(Screen(t)) /\ Behind(Other(t), c)
Moved(t, c)  == t \in TermsOf(c) /\ Above(Screen(t)) /\ Behind(Other(t), c)

\* The column from which on something may be typed at the present prompt.
From(m) == IF m.content = "Input" THEN m.start[2] ELSE IF m.content = "Output" THEN 1 ELSE 0

Surface == [prompt : {"dock", "inline"}, scrolled : BOOLEAN, seen : BOOLEAN]

DInv ==
  /\ MInv
  /\ marks.content \in {"None", "Prompt", "Input", "Output"}
  /\ marks.content = "Input" => marks.start \in Nat \X (1..Cols)
  /\ Kept(term, From(marks))
  /\ pane \in Surface
  /\ DockHidesOnlyThePrompt

\* What the proof needs of the constants: grids have rows and columns.
Bounds ==
  /\ Heights \subseteq Nat \ {0} /\ Heights # {}
  /\ Cols \in Nat \ {0}
  /\ MaxHistory \in Nat

\* The greater of two numbers.
LEMMA MaxIs ==
  ASSUME NEW a \in Int, NEW b \in Int
  PROVE  Max({a, b}) = IF a >= b THEN a ELSE b
<1>1. PICK m : m = IF a >= b THEN a ELSE b
  OBVIOUS
<1>2. m \in {a, b} /\ \A y \in {a, b} : m >= y
  BY <1>1
<1>3. \A x \in {a, b} : (\A y \in {a, b} : x >= y) => x = m
  BY <1>1
<1>4. Max({a, b}) = m
  BY <1>2, <1>3 DEF Max
<1> QED
  BY <1>1, <1>4

\* The lesser of two numbers.
LEMMA MinIs ==
  ASSUME NEW a \in Int, NEW b \in Int
  PROVE  Min({a, b}) = IF a <= b THEN a ELSE b
<1>1. PICK m : m = IF a <= b THEN a ELSE b
  OBVIOUS
<1>2. m \in {a, b} /\ \A y \in {a, b} : m <= y
  BY <1>1
<1>3. \A x \in {a, b} : (\A y \in {a, b} : x <= y) => x = m
  BY <1>1
<1>4. Min({a, b}) = m
  BY <1>2, <1>3 DEF Min
<1> QED
  BY <1>1, <1>4

\* A blank row is a row at any time.
LEMMA NoRowIs ==
  ASSUME Bounds, NEW c \in 0..Cols
  PROVE  NoRow \in RowsOf(c) /\ ~NoRow.began
BY DEF NoRow, RowsOf, Bounds

\* Blank rows, as many as asked for.
LEMMA BlankRowsAre ==
  ASSUME Bounds, NEW c \in 0..Cols, NEW n \in Nat
  PROVE  /\ BlankRows(n) \in Seq(RowsOf(c)) /\ Len(BlankRows(n)) = n
         /\ \A i \in 1..n : BlankRows(n)[i] = NoRow
<1>1. BlankRows(n) = [i \in 1..n |-> NoRow]
  BY DEF BlankRows, NoRow
<1>2. NoRow \in RowsOf(c)
  BY NoRowIs
<1> QED
  BY <1>1, <1>2

\* Rows of any time are rows once the input is over.
LEMMA RowsWiden ==
  ASSUME Bounds, NEW c \in 0..Cols
  PROVE  RowsOf(c) \subseteq RowsOf(1) /\ RowsOf(0) \subseteq RowsOf(c)
<1>1. \A k \in 1..(1 - 1) : FALSE
  OBVIOUS
<1>2. RowsOf(c) \subseteq RowsOf(1)
  BY <1>1 DEF RowsOf
<1>3. RowsOf(0) \subseteq RowsOf(c)
  <2>1. \A row \in RowsOf(0) : row = NoRow
    BY DEF RowsOf
  <2> QED
    BY <2>1, NoRowIs
<1> QED
  BY <1>2, <1>3

\* Rows behind rows.
LEMMA ConcatIs ==
  ASSUME NEW S, NEW a \in Seq(S), NEW b \in Seq(S)
  PROVE  /\ a \o b \in Seq(S) /\ Len(a \o b) = Len(a) + Len(b)
         /\ \A i \in 1..Len(a) : (a \o b)[i] = a[i]
         /\ \A i \in 1..Len(b) : (a \o b)[Len(a) + i] = b[i]
<1>1. PICK m \in Nat, n \in Nat : m = Len(a) /\ n = Len(b)
  OBVIOUS
<1>2. a \o b \in Seq(S) /\ Len(a \o b) = m + n
  BY <1>1
<1>3. \A i \in 1..m : (a \o b)[i] = a[i]
  BY <1>1
<1>4. \A i \in 1..n : (a \o b)[m + i] = b[i]
  BY <1>1
<1> QED
  BY <1>1, <1>2, <1>3, <1>4

\* A part of the rows.
LEMMA PartIs ==
  ASSUME NEW S, NEW s \in Seq(S), NEW a \in Nat, a >= 1, NEW b \in Nat, a <= b + 1, b <= Len(s)
  PROVE  /\ SubSeq(s, a, b) \in Seq(S) /\ Len(SubSeq(s, a, b)) = b - a + 1
         /\ \A i \in 1..(b - a + 1) : SubSeq(s, a, b)[i] = s[i + a - 1]
<1>1. PICK m \in Nat : m = Len(s)
  OBVIOUS
<1>2. \A i \in a..b : s[i] \in S
  BY <1>1
<1>3. PICK q : q = SubSeq(s, a, b)
  OBVIOUS
<1>4. q \in Seq(S)
  BY <1>2, <1>3
<1>5. Len(q) = IF a <= b THEN b - a + 1 ELSE 0
  BY <1>3
<1>6. b - a + 1 = IF a <= b THEN b - a + 1 ELSE 0
  OBVIOUS
<1>7. \A i \in 1..(b - a + 1) : q[i] = s[i + a - 1]
  <2> TAKE i \in 1..(b - a + 1)
  <2>1. a <= b /\ i + a - 1 = a + i - 1
    OBVIOUS
  <2>2. q[i] = s[a + i - 1]
    BY <1>3, <2>1
  <2> QED
    BY <2>1, <2>2
<1> QED
  BY <1>3, <1>4, <1>5, <1>6, <1>7

\* The newest rows, no more than the limit.
LEMMA CappedIs ==
  ASSUME Bounds, NEW S, NEW rows \in Seq(S)
  PROVE  Capped(rows) \in Seq(S)
<1>1. PICK n \in Nat : n = Len(rows)
  OBVIOUS
<1>2. PICK k : k = Max({0, n - MaxHistory})
  OBVIOUS
<1>3. k = IF n >= MaxHistory THEN n - MaxHistory ELSE 0
  BY <1>1, <1>2, MaxIs DEF Bounds
<1>4. k \in Nat /\ k <= n
  BY <1>1, <1>3 DEF Bounds
<1>5. Capped(rows) = SubSeq(rows, k + 1, n)
  BY <1>1, <1>2 DEF Capped
<1>6. k + 1 \in Nat /\ k + 1 >= 1 /\ k + 1 <= n + 1 /\ n <= Len(rows)
  BY <1>1, <1>4
<1> QED
  BY <1>1, <1>5, <1>6, PartIs

\* A screen and the other one.
LEMMA ScreenIs ==
  ASSUME NEW c, NEW t \in TermsOf(c)
  PROVE  /\ Screen(t) \in ScreensOf(c) /\ Other(t) \in ScreensOf(c)
         /\ t.history \in Seq(RowsOf(c)) /\ t.alt \in BOOLEAN /\ t.mouse \in BOOLEAN
         /\ t.primary \in ScreensOf(c) /\ t.alternate \in ScreensOf(c)
BY DEF TermsOf, Screen, Other

\* The screen in use is replaced.
LEMMA WithScreenIs ==
  ASSUME NEW c, NEW t \in TermsOf(c), NEW s \in ScreensOf(c)
  PROVE  /\ WithScreen(t, s) \in TermsOf(c) /\ Screen(WithScreen(t, s)) = s
         /\ Other(WithScreen(t, s)) = Other(t) /\ WithScreen(t, s).history = t.history
         /\ WithScreen(t, s).alt = t.alt /\ WithScreen(t, s).mouse = t.mouse
<1>1. CASE t.alt
  <2>1. PICK u : u = [t EXCEPT !.alternate = s]
    OBVIOUS
  <2>2. /\ u \in TermsOf(c) /\ u.alternate = s /\ u.primary = t.primary /\ u.history = t.history
        /\ u.alt = t.alt /\ u.mouse = t.mouse
    BY <2>1 DEF TermsOf
  <2> QED
    BY <1>1, <2>1, <2>2 DEF WithScreen, Screen, Other
<1>2. CASE ~t.alt
  <2>1. PICK u : u = [t EXCEPT !.primary = s]
    OBVIOUS
  <2>2. /\ u \in TermsOf(c) /\ u.primary = s /\ u.alternate = t.alternate /\ u.history = t.history
        /\ u.alt = t.alt /\ u.mouse = t.mouse
    BY <2>1 DEF TermsOf
  <2> QED
    BY <1>2, <2>1, <2>2 DEF WithScreen, Screen, Other
<1> QED
  BY <1>1, <1>2

\* The history is replaced.
LEMMA WithHistory ==
  ASSUME NEW c, NEW t \in TermsOf(c), NEW rows \in Seq(RowsOf(c)), NEW u,
         u = [t EXCEPT !.history = rows]
  PROVE  u \in TermsOf(c) /\ Screen(u) = Screen(t) /\ Other(u) = Other(t)
BY DEF TermsOf, Screen, Other

\* The fields of a screen.
LEMMA ScreenType ==
  ASSUME NEW c, NEW s \in ScreensOf(c)
  PROVE  /\ s \in [rows : Seq(RowsOf(c)), row : Nat, col : 1..Cols, wrap : BOOLEAN]
         /\ s.rows \in Seq(RowsOf(c)) /\ s.row \in Nat /\ s.col \in 1..Cols /\ s.wrap \in BOOLEAN
         /\ Len(s.rows) \in Nat /\ s.row >= 1 /\ s.row <= Len(s.rows)
         /\ \A i \in 1..Len(s.rows) : s.rows[i] \in RowsOf(c)
BY DEF ScreensOf

-----------------------------------------------------------------------------
(* What the operators do to a terminal.                                    *)

\* From where the input may be, above the cursor is behind it, and that is at
\* most at the cursor's row.
LEMMA Places ==
  ASSUME NEW c \in Nat, NEW s \in ScreensOf(c)
  PROVE  (Above(s) => Behind(s, c)) /\ (Behind(s, c) => UpTo(s))
<1>1. Len(s.rows) \in Nat /\ s.row \in Nat
  BY ScreenType
<1> QED
  BY <1>1 DEF Above, Behind, UpTo

\* Rows that scroll by one.
LEMMA ScrolledRows ==
  ASSUME NEW S, NEW q \in Seq(S), NEW n \in Nat, n = Len(q), n >= 1,
         NEW x \in S, NEW r, r = Append(Tail(q), x)
  PROVE  /\ r \in Seq(S) /\ Len(r) = n /\ \A i \in 1..(n - 1) : r[i] = q[i + 1]
         /\ r[n] = x /\ Head(q) \in S
OBVIOUS

\* One blank row behind others.
LEMMA BlankBehind ==
  ASSUME NEW S, NEW a \in Seq(S), NoRow \in S
  PROVE  a \o BlankRows(1) = Append(a, NoRow)
<1>1. BlankRows(1) = [i \in 1..1 |-> NoRow]
  BY DEF BlankRows, NoRow
<1>2. PICK x \in S : x = NoRow
  OBVIOUS
<1>3. PICK b : b = [i \in 1..1 |-> x]
  OBVIOUS
<1>4. b = <<x>>
  BY <1>3
<1>5. a \o b = Append(a, x)
  BY <1>4
<1> QED
  BY <1>1, <1>2, <1>3, <1>5

\* A screen that scrolls by a row.
LEMMA ScrolledIs ==
  ASSUME Bounds, NEW c \in 0..Cols, NEW s \in ScreensOf(c), UpTo(s), s.row >= Len(s.rows),
         NEW u, u = [s EXCEPT !.rows = Tail(@) \o BlankRows(1)]
  PROVE  u \in ScreensOf(c) /\ Above(u) /\ Head(s.rows) \in RowsOf(c)
<1>1. PICK q, n : q = s.rows /\ n = Len(q)
  OBVIOUS
<1>2. q \in Seq(RowsOf(c)) /\ s.row = n /\ n \in Nat /\ n >= 1
  BY <1>1, ScreenType
<1>3. NoRow \in RowsOf(c) /\ Tail(q) \in Seq(RowsOf(c))
  BY <1>1, <1>2, NoRowIs
<1>4. Tail(q) \o BlankRows(1) = Append(Tail(q), NoRow)
  BY <1>3, BlankBehind
<1>5. PICK r : r = Append(Tail(q), NoRow)
  OBVIOUS
<1>7. /\ r \in Seq(RowsOf(c)) /\ Len(r) = n /\ \A i \in 1..(n - 1) : r[i] = q[i + 1]
      /\ r[n] = NoRow /\ Head(q) \in RowsOf(c)
  BY <1>1, <1>2, <1>3, <1>5, ScrolledRows
<1>9. u = [s EXCEPT !.rows = r]
  BY <1>1, <1>4, <1>5
<1>10. /\ u \in [rows : Seq(RowsOf(c)), row : Nat, col : 1..Cols, wrap : BOOLEAN]
       /\ u.rows = r /\ u.row = n
  <2>1. s \in [rows : Seq(RowsOf(c)), row : Nat, col : 1..Cols, wrap : BOOLEAN]
    BY ScreenType
  <2>2. r \in Seq(RowsOf(c))
    BY <1>7
  <2> QED
    BY <1>2, <1>9, <2>1, <2>2
<1>11. Len(r) = n
  BY <1>2, <1>7
<1>12. u \in ScreensOf(c)
  <2>1. u.row \in 1..Len(u.rows)
    BY <1>2, <1>10, <1>11
  <2> QED
    BY <1>10, <2>1 DEF ScreensOf
<1>13. \A i \in 1..n : r[i].began => i < n
  <2> TAKE i \in 1..n
  <2>1. CASE i = n
    BY <1>7, <2>1, NoRowIs
  <2>2. CASE i # n
    BY <1>2, <2>2
  <2> QED
    BY <2>1, <2>2
<1> QED
  BY <1>1, <1>7, <1>10, <1>11, <1>12, <1>13 DEF Above

\* The cursor goes to the next row, or the screen scrolls under it: the row the
\* input began on is above it then.
LEMMA LineFeedIs ==
  ASSUME Bounds, NEW c \in 0..Cols, NEW t, Moving(t, c)
  PROVE  Moved(LineFeed(t), c)
<1>1. PICK s : s = Screen(t)
  OBVIOUS
<1>2. t \in TermsOf(c) /\ s \in ScreensOf(c) /\ UpTo(s) /\ Behind(Other(t), c)
  BY <1>1, ScreenIs DEF Moving
<1>3. CASE s.row < Len(s.rows)
  <2>1. PICK u : u = [s EXCEPT !.row = @ + 1]
    OBVIOUS
  <2>2. u.rows = s.rows /\ u.row = s.row + 1
    BY <1>2, <2>1, ScreenType
  <2>3. u \in [rows : Seq(RowsOf(c)), row : Nat, col : 1..Cols, wrap : BOOLEAN]
    BY <1>2, <2>1, ScreenType
  <2>4. u \in ScreensOf(c)
    <3>1. s.row \in Nat /\ Len(s.rows) \in Nat
      BY <1>2, ScreenType
    <3>2. u.row \in 1..Len(u.rows)
      BY <1>3, <2>2, <3>1
    <3> QED
      BY <2>3, <3>2 DEF ScreensOf
  <2>5. Above(u)
    <3>1. s.row \in Nat /\ Len(s.rows) \in Nat
      BY <1>2, ScreenType
    <3> QED
      BY <1>2, <2>2, <3>1 DEF UpTo, Above
  <2>6. LineFeed(t) = WithScreen(t, u)
    BY <1>1, <1>3, <2>1 DEF LineFeed
  <2> QED
    BY <1>2, <2>4, <2>5, <2>6, WithScreenIs DEF Moved
<1>4. CASE ~(s.row < Len(s.rows))
  <2>1. PICK u : u = [s EXCEPT !.rows = Tail(@) \o BlankRows(1)]
    OBVIOUS
  <2>2. s.row >= Len(s.rows)
    BY <1>2, <1>4, ScreenType
  <2>3. u \in ScreensOf(c) /\ Above(u) /\ Head(s.rows) \in RowsOf(c)
    BY <1>2, <2>1, <2>2, ScrolledIs
  <2>4. PICK w : w = WithScreen(t, u)
    OBVIOUS
  <2>5. w \in TermsOf(c) /\ Screen(w) = u /\ Other(w) = Other(t) /\ w.history = t.history
    BY <1>2, <2>3, <2>4, WithScreenIs
  <2>6. PICK h : h = IF t.alt THEN t.history ELSE Capped(Append(t.history, Head(s.rows)))
    OBVIOUS
  <2>7. h \in Seq(RowsOf(c))
    <3>1. t.history \in Seq(RowsOf(c))
      BY <1>2, ScreenIs
    <3>2. Append(t.history, Head(s.rows)) \in Seq(RowsOf(c))
      BY <2>3, <3>1
    <3> QED
      BY <2>6, <3>1, <3>2, CappedIs
  <2>8. LineFeed(t) = [w EXCEPT !.history = h]
    BY <1>1, <1>4, <2>1, <2>4, <2>5, <2>6 DEF LineFeed
  <2>9. PICK v : v = [w EXCEPT !.history = h]
    OBVIOUS
  <2>10. v \in TermsOf(c) /\ Screen(v) = Screen(w) /\ Other(v) = Other(w)
    BY <2>5, <2>7, <2>9, WithHistory
  <2> QED
    BY <1>2, <2>3, <2>5, <2>8, <2>9, <2>10 DEF Moved
<1> QED
  BY <1>3, <1>4

\* The cursor goes to the first column of its row.
LEMMA CarriageReturnIs ==
  ASSUME Bounds, NEW c \in 0..Cols, NEW t \in TermsOf(c)
  PROVE  /\ CarriageReturn(t) \in TermsOf(c) /\ Other(CarriageReturn(t)) = Other(t)
         /\ Screen(CarriageReturn(t)).rows = Screen(t).rows
         /\ Screen(CarriageReturn(t)).row = Screen(t).row
<1>1. PICK s : s = Screen(t)
  OBVIOUS
<1>2. s \in ScreensOf(c)
  BY <1>1, ScreenIs
<1>3. PICK u : u = [s EXCEPT !.col = 1, !.wrap = FALSE]
  OBVIOUS
<1>4. u \in ScreensOf(c) /\ u.rows = s.rows /\ u.row = s.row
  <2>1. 1 \in 1..Cols
    BY DEF Bounds
  <2>2. /\ u \in [rows : Seq(RowsOf(c)), row : Nat, col : 1..Cols, wrap : BOOLEAN]
        /\ u.rows = s.rows /\ u.row = s.row
    <3>1. s \in [rows : Seq(RowsOf(c)), row : Nat, col : 1..Cols, wrap : BOOLEAN]
      BY <1>2, ScreenType
    <3> QED
      BY <1>3, <2>1, <3>1
  <2>3. u.row \in 1..Len(u.rows)
    BY <1>2, <2>2, ScreenType
  <2> QED
    BY <2>2, <2>3 DEF ScreensOf
<1>5. CarriageReturn(t) = WithScreen(t, u)
  BY <1>1, <1>3 DEF CarriageReturn
<1> QED
  BY <1>1, <1>4, <1>5, WithScreenIs

\* The cursor goes to the beginning of the next row.
LEMMA NextLine ==
  ASSUME Bounds, NEW c \in 0..Cols, NEW t, Kept(t, c)
  PROVE  Kept(LineFeed(CarriageReturn(t)), c) /\ Kept(CarriageReturn(LineFeed(t)), c)
<1>1. t \in TermsOf(c) /\ Screen(t) \in ScreensOf(c) /\ c \in Nat
  BY ScreenIs DEF Kept, Bounds
<1>2. Moving(t, c)
  BY <1>1, Places DEF Kept, Moving
<1>3. ASSUME NEW v, Moved(v, c) PROVE Kept(v, c)
  <2>1. v \in TermsOf(c) /\ Screen(v) \in ScreensOf(c)
    BY <1>3, ScreenIs DEF Moved
  <2> QED
    BY <1>1, <1>3, <2>1, Places DEF Moved, Kept
<1>4. Kept(LineFeed(CarriageReturn(t)), c)
  <2>1. Moving(CarriageReturn(t), c)
    BY <1>1, <1>2, CarriageReturnIs DEF Moving, UpTo
  <2> QED
    BY <1>3, <2>1, LineFeedIs
<1>5. Kept(CarriageReturn(LineFeed(t)), c)
  <2>1. PICK w : w = LineFeed(t)
    OBVIOUS
  <2>2. Moved(w, c) /\ w \in TermsOf(c)
    BY <1>2, <2>1, LineFeedIs DEF Moved
  <2>3. Moved(CarriageReturn(w), c)
    BY <2>2, CarriageReturnIs DEF Moved, Above
  <2> QED
    BY <1>3, <2>1, <2>3
<1> QED
  BY <1>4, <1>5

\* A line feed for a prompt that asks for a fresh line.
LEMMA FreshLineIs ==
  ASSUME Bounds, NEW c \in 0..Cols, NEW t, Kept(t, c)
  PROVE  Kept(FreshLine(t), c)
BY NextLine DEF FreshLine

\* Screens and terminals of one time are those of a later one.
LEMMA Widen ==
  ASSUME Bounds, NEW c \in 0..Cols
  PROVE  /\ ScreensOf(c) \subseteq ScreensOf(1) /\ ScreensOf(0) \subseteq ScreensOf(c)
         /\ TermsOf(c) \subseteq TermsOf(1) /\ TermsOf(0) \subseteq TermsOf(c)
<1>1. ASSUME NEW A, NEW B, A \subseteq B PROVE Seq(A) \subseteq Seq(B)
  <2> SUFFICES ASSUME NEW q \in Seq(A) PROVE q \in Seq(B)
    OBVIOUS
  <2> QED
    BY <1>1
<1>2. Seq(RowsOf(c)) \subseteq Seq(RowsOf(1)) /\ Seq(RowsOf(0)) \subseteq Seq(RowsOf(c))
  BY <1>1, RowsWiden
<1>3. ScreensOf(c) \subseteq ScreensOf(1) /\ ScreensOf(0) \subseteq ScreensOf(c)
  BY <1>2 DEF ScreensOf
<1> QED
  BY <1>2, <1>3 DEF TermsOf

\* A terminal with nothing typed has it where it may be, from any column on.
LEMMA NothingTyped ==
  ASSUME Bounds, NEW c \in 0..Cols, NEW t \in TermsOf(0)
  PROVE  Kept(t, c)
<1>1. t \in TermsOf(c)
  BY Widen
<1>2. ASSUME NEW s \in ScreensOf(0) PROVE Behind(s, c)
  <2>1. ASSUME NEW i \in 1..Len(s.rows) PROVE ~s.rows[i].began
    <3>1. s.rows[i] \in RowsOf(0)
      BY ScreenType
    <3> QED
      BY <3>1, NoRowIs DEF RowsOf
  <2> QED
    BY <2>1 DEF Behind
<1> QED
  BY <1>1, <1>2, ScreenIs DEF Kept

\* Once the input is over, only the rows' shape matters.
LEMMA InputOver ==
  ASSUME Bounds, NEW c \in 0..Cols, NEW t, Kept(t, c)
  PROVE  Kept(t, 1)
<1>1. t \in TermsOf(c) /\ t \in TermsOf(1)
  BY Widen DEF Kept
<1>2. ASSUME NEW s \in ScreensOf(1), Behind(s, c) PROVE Behind(s, 1)
  <2>1. 1 <= s.col
    BY ScreenType
  <2> QED
    BY <1>2, <2>1 DEF Behind
<1> QED
  BY <1>1, <1>2, ScreenIs DEF Kept

\* The screen with the cursor's row replaced.
WithRow(s, w) == [s EXCEPT !.rows = [s.rows EXCEPT ![s.row] = w]]

\* The cursor's row is replaced.
LEMMA RowReplaced ==
  ASSUME Bounds, NEW c \in 0..Cols, NEW s \in ScreensOf(c), NEW w \in RowsOf(c),
         NEW u, u = WithRow(s, w)
  PROVE  /\ u \in ScreensOf(c) /\ u.row = s.row /\ u.col = s.col /\ u.wrap = s.wrap
         /\ Len(u.rows) = Len(s.rows) /\ u.rows[s.row] = w
         /\ \A i \in 1..Len(s.rows) : i # s.row => u.rows[i] = s.rows[i]
<1>1. PICK q, n, k : q = s.rows /\ n = Len(q) /\ k = s.row
  OBVIOUS
<1>2. q \in Seq(RowsOf(c)) /\ n \in Nat /\ k \in 1..n
  BY <1>1, ScreenType
<1>3. PICK r : r = [q EXCEPT ![k] = w]
  OBVIOUS
<1>4. /\ r \in Seq(RowsOf(c)) /\ Len(r) = n /\ r[k] = w
      /\ \A i \in 1..n : i # k => r[i] = q[i]
  BY <1>1, <1>2, <1>3
<1>5. s \in [rows : Seq(RowsOf(c)), row : Nat, col : 1..Cols, wrap : BOOLEAN]
  BY ScreenType
<1>6. u = [s EXCEPT !.rows = r]
  BY <1>1, <1>3 DEF WithRow
<1>7. /\ u \in [rows : Seq(RowsOf(c)), row : Nat, col : 1..Cols, wrap : BOOLEAN]
      /\ u.rows = r /\ u.row = k /\ u.col = s.col /\ u.wrap = s.wrap
  BY <1>1, <1>4, <1>5, <1>6
<1>8. u \in ScreensOf(c)
  BY <1>2, <1>4, <1>7 DEF ScreensOf
<1> QED
  BY <1>1, <1>4, <1>7, <1>8

\* A cell of a row is written: on the row the input began on, not before it.
LEMMA CellWritten ==
  ASSUME Bounds, NEW c \in 0..Cols, NEW w \in RowsOf(c), NEW k \in 1..Cols, NEW typed \in BOOLEAN,
         c = 0 => ~typed, w.began => c <= k,
         NEW v, v = [w EXCEPT !.cells = [w.cells EXCEPT ![k] = typed]]
  PROVE  v \in RowsOf(c) /\ v.began = w.began
<1>1. PICK a, d : a = w.cells /\ d = [a EXCEPT ![k] = typed]
  OBVIOUS
<1>2. w \in [began : BOOLEAN, cells : [1..Cols -> BOOLEAN]] /\ a \in [1..Cols -> BOOLEAN]
  BY <1>1 DEF RowsOf
<1>3. d \in [1..Cols -> BOOLEAN] /\ \A i \in 1..Cols : i # k => d[i] = a[i]
  BY <1>1, <1>2
<1>4. v = [w EXCEPT !.cells = d]
  BY <1>1
<1>5. v \in [began : BOOLEAN, cells : [1..Cols -> BOOLEAN]] /\ v.began = w.began /\ v.cells = d
  BY <1>2, <1>3, <1>4
<1>6. CASE c = 0
  <2>1. w = NoRow /\ ~typed
    BY <1>6 DEF RowsOf
  <2>2. a = [i \in 1..Cols |-> FALSE]
    BY <1>1, <2>1 DEF NoRow
  <2>3. d = a
    BY <1>1, <1>2, <2>1, <2>2
  <2>4. v = w
    BY <1>1, <1>2, <1>4, <2>3
  <2> QED
    BY <2>4
<1>7. CASE c # 0
  <2>1. w.began => \A i \in 1..(c - 1) : ~a[i]
    BY <1>1, <1>7 DEF RowsOf
  <2>2. w.began => \A i \in 1..(c - 1) : i \in 1..Cols /\ i # k
    BY DEF Bounds
  <2>3. v.began => \A i \in 1..(c - 1) : ~v.cells[i]
    BY <1>3, <1>5, <2>1, <2>2
  <2> QED
    BY <1>5, <1>7, <2>3 DEF RowsOf
<1> QED
  BY <1>6, <1>7

\* A character is put at the cursor, which steps on.
LEMMA PutIs ==
  ASSUME Bounds, NEW c \in 0..Cols, NEW t, Kept(t, c), NEW typed \in BOOLEAN, c = 0 => ~typed
  PROVE  Kept(Put(t, typed), c)
<1>1. PICK s, w : s = Screen(t) /\ w = s.rows[s.row]
  OBVIOUS
<1>2. t \in TermsOf(c) /\ s \in ScreensOf(c) /\ Behind(s, c) /\ Behind(Other(t), c)
  BY <1>1, ScreenIs DEF Kept
<1>3. /\ s \in [rows : Seq(RowsOf(c)), row : Nat, col : 1..Cols, wrap : BOOLEAN]
      /\ w \in RowsOf(c) /\ s.row \in 1..Len(s.rows) /\ s.col \in 1..Cols
  BY <1>1, <1>2, ScreenType
<1>4. w.began => c <= s.col
  BY <1>1, <1>2, <1>3 DEF Behind
<1>5. PICK v : v = [w EXCEPT !.cells = [w.cells EXCEPT ![s.col] = typed]]
  OBVIOUS
<1>6. v \in RowsOf(c) /\ v.began = w.began
  BY <1>3, <1>4, <1>5, CellWritten
<1>7. PICK put : put = WithRow(s, v)
  OBVIOUS
<1>8. /\ put \in ScreensOf(c) /\ put.row = s.row /\ put.col = s.col
      /\ Len(put.rows) = Len(s.rows) /\ put.rows[s.row] = v
      /\ \A i \in 1..Len(s.rows) : i # s.row => put.rows[i] = s.rows[i]
  BY <1>2, <1>6, <1>7, RowReplaced
<1>9. \A i \in 1..Len(s.rows) : put.rows[i].began = s.rows[i].began
  BY <1>1, <1>6, <1>8
<1>10. Put(t, typed) = WithScreen(t, IF s.col = Cols THEN [put EXCEPT !.wrap = TRUE]
                                     ELSE [put EXCEPT !.col = @ + 1])
  BY <1>1, <1>5, <1>7 DEF Put, WithRow
<1>11. PICK u : u = IF s.col = Cols THEN [put EXCEPT !.wrap = TRUE] ELSE [put EXCEPT !.col = @ + 1]
  OBVIOUS
<1>12. /\ u \in [rows : Seq(RowsOf(c)), row : Nat, col : 1..Cols, wrap : BOOLEAN]
       /\ u.rows = put.rows /\ u.row = s.row /\ u.col >= s.col
  <2>1. /\ put \in [rows : Seq(RowsOf(c)), row : Nat, col : 1..Cols, wrap : BOOLEAN]
        /\ Cols \in Nat
    BY <1>8, ScreenType DEF Bounds
  <2>2. CASE s.col = Cols
    <3>1. u = [put EXCEPT !.wrap = TRUE]
      BY <1>11, <2>2
    <3>2. /\ u \in [rows : Seq(RowsOf(c)), row : Nat, col : 1..Cols, wrap : BOOLEAN]
          /\ u.rows = put.rows /\ u.row = put.row /\ u.col = put.col
      BY <2>1, <3>1
    <3> QED
      BY <1>3, <1>8, <3>2
  <2>3. CASE s.col # Cols
    <3>1. u = [put EXCEPT !.col = @ + 1] /\ put.col + 1 \in 1..Cols
      BY <1>3, <1>8, <1>11, <2>1, <2>3
    <3>2. /\ u \in [rows : Seq(RowsOf(c)), row : Nat, col : 1..Cols, wrap : BOOLEAN]
          /\ u.rows = put.rows /\ u.row = put.row /\ u.col = put.col + 1
      BY <2>1, <3>1, SMTT(30)
    <3> QED
      BY <1>3, <1>8, <3>2
  <2> QED
    BY <2>2, <2>3
<1>13. u \in ScreensOf(c)
  <2>1. u.row \in 1..Len(u.rows)
    BY <1>3, <1>8, <1>12
  <2> QED
    BY <1>12, <2>1 DEF ScreensOf
<1>14. Behind(u, c)
  <2> SUFFICES ASSUME NEW i \in 1..Len(u.rows), u.rows[i].began
               PROVE  i < u.row \/ (i = u.row /\ c <= u.col)
    BY DEF Behind
  <2>1. i \in 1..Len(s.rows) /\ s.rows[i].began
    BY <1>8, <1>9, <1>12
  <2>2. i < s.row \/ (i = s.row /\ c <= s.col)
    BY <1>2, <2>1 DEF Behind
  <2>3. u.col \in Int /\ s.col \in Int /\ c \in Int
    BY <1>3, <1>12
  <2> QED
    BY <1>12, <2>2, <2>3
<1> QED
  BY <1>2, <1>10, <1>11, <1>13, <1>14, WithScreenIs DEF Kept

\* A character is written, on the next row if the last one is full.
LEMMA WriteCharIs ==
  ASSUME Bounds, NEW c \in 0..Cols, NEW t, Kept(t, c), NEW typed \in BOOLEAN, c = 0 => ~typed
  PROVE  Kept(WriteChar(t, typed), c)
<1>1. PICK u : u = IF Screen(t).wrap THEN CarriageReturn(LineFeed(t)) ELSE t
  OBVIOUS
<1>2. Kept(u, c)
  BY <1>1, NextLine
<1>3. WriteChar(t, typed) = Put(u, typed)
  BY <1>1 DEF WriteChar
<1> QED
  BY <1>2, <1>3, PutIs

\* Both screens have what is typed where it may be.
LEMMA KeptIs ==
  ASSUME NEW c, NEW t \in TermsOf(c)
  PROVE  Kept(t, c) <=> Behind(t.primary, c) /\ Behind(t.alternate, c)
BY DEF Kept, Screen, Other

\* On blank rows the input did not begin.
LEMMA BlankScreen ==
  ASSUME Bounds, NEW c \in 0..Cols, NEW n \in Nat, NEW s,
         s \in [rows : {BlankRows(n)}, row : 1..n, col : 1..Cols, wrap : BOOLEAN]
  PROVE  s \in ScreensOf(c) /\ Behind(s, c)
<1>1. PICK b : b = BlankRows(n)
  OBVIOUS
<1>2. b \in Seq(RowsOf(c)) /\ Len(b) = n /\ \A i \in 1..n : b[i] = NoRow
  BY <1>1, BlankRowsAre
<1>3. s \in [rows : {b}, row : 1..n, col : 1..Cols, wrap : BOOLEAN]
  BY <1>1
<1>4. s.rows = b /\ s.row \in 1..n
  BY <1>3
<1>5. s \in [rows : Seq(RowsOf(c)), row : Nat, col : 1..Cols, wrap : BOOLEAN]
  BY <1>2, <1>3
<1>6. s \in ScreensOf(c)
  BY <1>2, <1>4, <1>5 DEF ScreensOf
<1>7. Behind(s, c)
  BY <1>2, <1>4, NoRowIs DEF Behind
<1> QED
  BY <1>6, <1>7

\* The other screen is shown, the alternate one blank.
LEMMA SwapAltIs ==
  ASSUME Bounds, NEW c \in 0..Cols, NEW t, Kept(t, c)
  PROVE  Kept(SwapAlt(t), c)
<1>1. t \in TermsOf(c) /\ Behind(t.primary, c) /\ Behind(t.alternate, c)
  BY KeptIs DEF Kept
<1>2. PICK p, a : p = t.primary /\ a = t.alternate
  OBVIOUS
<1>3. /\ p \in ScreensOf(c) /\ a \in ScreensOf(c) /\ t.history \in Seq(RowsOf(c))
      /\ t \in [primary : ScreensOf(c), alternate : ScreensOf(c), history : Seq(RowsOf(c)),
                alt : BOOLEAN, mouse : BOOLEAN]
  BY <1>1, <1>2, ScreenIs DEF TermsOf
<1>4. ASSUME NEW s \in ScreensOf(c), Behind(s, c), NEW on \in BOOLEAN, NEW u,
             u = [t EXCEPT !.alt = on, !.alternate = s]
      PROVE  Kept(u, c)
  <2>1. /\ u \in [primary : ScreensOf(c), alternate : ScreensOf(c), history : Seq(RowsOf(c)),
                  alt : BOOLEAN, mouse : BOOLEAN]
        /\ u.primary = p /\ u.alternate = s
    BY <1>2, <1>3, <1>4
  <2>2. u \in TermsOf(c)
    BY <2>1 DEF TermsOf
  <2> QED
    BY <1>1, <1>2, <1>4, <2>1, <2>2, KeptIs
<1>5. CASE t.alt
  <2>1. PICK n \in Nat : n = Len(a.rows) /\ 1 <= n
    <3>1. Len(a.rows) \in Nat /\ a.row >= 1 /\ a.row <= Len(a.rows) /\ a.row \in Nat
      BY <1>3, ScreenType
    <3> QED
      BY <3>1
  <2>2. PICK s : s = NewScreen(n)
    OBVIOUS
  <2>3. s \in [rows : {BlankRows(n)}, row : 1..n, col : 1..Cols, wrap : BOOLEAN]
    BY <2>1, <2>2 DEF NewScreen, Bounds
  <2>4. s \in ScreensOf(c) /\ Behind(s, c)
    BY <2>3, BlankScreen
  <2>5. SwapAlt(t) = [t EXCEPT !.alt = FALSE, !.alternate = s]
    BY <1>2, <1>5, <2>1, <2>2 DEF SwapAlt
  <2> QED
    BY <1>4, <2>4, <2>5
<1>6. CASE ~t.alt
  <2>1. PICK n \in Nat : n = Len(p.rows) /\ p.row \in 1..n
    BY <1>3, ScreenType
  <2>2. PICK s : s = [p EXCEPT !.rows = BlankRows(n)]
    OBVIOUS
  <2>3. p \in [rows : Seq(RowsOf(c)), row : Nat, col : 1..Cols, wrap : BOOLEAN]
    BY <1>3, ScreenType
  <2>4. s \in [rows : {BlankRows(n)}, row : 1..n, col : 1..Cols, wrap : BOOLEAN]
    BY <2>1, <2>2, <2>3
  <2>5. s \in ScreensOf(c) /\ Behind(s, c)
    BY <2>4, BlankScreen
  <2>6. SwapAlt(t) = [t EXCEPT !.alt = TRUE, !.alternate = s]
    BY <1>2, <1>6, <2>1, <2>2 DEF SwapAlt
  <2> QED
    BY <1>4, <2>5, <2>6
<1> QED
  BY <1>5, <1>6

\* The mouse reports go on or off.
LEMMA MouseIs ==
  ASSUME NEW c, NEW t, Kept(t, c)
  PROVE  Kept([t EXCEPT !.mouse = ~@], c)
<1>1. t \in TermsOf(c) /\ Behind(t.primary, c) /\ Behind(t.alternate, c)
  BY KeptIs DEF Kept
<1>2. PICK u : u = [t EXCEPT !.mouse = ~@]
  OBVIOUS
<1>3. u \in TermsOf(c) /\ u.primary = t.primary /\ u.alternate = t.alternate
  BY <1>1, <1>2 DEF TermsOf
<1> QED
  BY <1>1, <1>2, <1>3, KeptIs

\* A new prompt: nothing on any row is of it.
LEMMA ForgottenIs ==
  ASSUME Bounds, NEW c \in 0..Cols, NEW t \in TermsOf(c)
  PROVE  Forgotten(t) \in TermsOf(0)
<1> DEFINE Old(rows) == [i \in DOMAIN rows |-> BlankRows(1)[1]]
<1>1. ASSUME NEW rows \in Seq(RowsOf(c))
      PROVE  Old(rows) \in Seq(RowsOf(0)) /\ Len(Old(rows)) = Len(rows)
  <2>1. PICK n \in Nat : n = Len(rows) /\ DOMAIN rows = 1..n
    OBVIOUS
  <2>2. BlankRows(1)[1] = NoRow /\ NoRow \in RowsOf(0)
    <3>1. 1 \in Nat /\ 1 \in 1..1 /\ 0 \in 0..Cols
      BY DEF Bounds
    <3> QED
      BY <3>1, BlankRowsAre, NoRowIs
  <2>3. Old(rows) = [i \in 1..n |-> NoRow]
    BY <2>1, <2>2
  <2> QED
    BY <2>1, <2>2, <2>3
<1> HIDE DEF Old
<1>2. PICK p, a, h : p = t.primary /\ a = t.alternate /\ h = t.history
  OBVIOUS
<1>3. /\ p \in ScreensOf(c) /\ a \in ScreensOf(c) /\ h \in Seq(RowsOf(c))
      /\ t.alt \in BOOLEAN /\ t.mouse \in BOOLEAN
  BY <1>2, ScreenIs
<1>4. ASSUME NEW s \in ScreensOf(c) PROVE [s EXCEPT !.rows = Old(s.rows)] \in ScreensOf(0)
  <2>1. PICK r : r = Old(s.rows)
    OBVIOUS
  <2>2. r \in Seq(RowsOf(0)) /\ Len(r) = Len(s.rows)
    BY <1>1, <2>1, ScreenType
  <2>3. PICK u : u = [s EXCEPT !.rows = r]
    OBVIOUS
  <2>4. s \in [rows : Seq(RowsOf(c)), row : Nat, col : 1..Cols, wrap : BOOLEAN] /\ s.row \in 1..Len(s.rows)
    BY ScreenType
  <2>5. /\ u \in [rows : Seq(RowsOf(0)), row : Nat, col : 1..Cols, wrap : BOOLEAN]
        /\ u.rows = r /\ u.row = s.row
    BY <2>2, <2>3, <2>4
  <2>6. u \in ScreensOf(0)
    BY <2>2, <2>4, <2>5 DEF ScreensOf
  <2> QED
    BY <2>1, <2>3, <2>6
<1>5. PICK u, v, g : u = [p EXCEPT !.rows = Old(p.rows)] /\ v = [a EXCEPT !.rows = Old(a.rows)] /\ g = Old(h)
  OBVIOUS
<1>6. u \in ScreensOf(0) /\ v \in ScreensOf(0) /\ g \in Seq(RowsOf(0))
  BY <1>1, <1>3, <1>4, <1>5
<1>7. Forgotten(t) = [t EXCEPT !.primary = u, !.alternate = v, !.history = g]
  BY <1>2, <1>5 DEF Forgotten, Old
<1>8. Forgotten(t) = [primary |-> u, alternate |-> v, history |-> g, alt |-> t.alt, mouse |-> t.mouse]
  BY <1>7 DEF TermsOf
<1> QED
  BY <1>3, <1>6, <1>8 DEF TermsOf

\* The row the cursor is on is noted; on it nothing is typed yet.
LEMMA BegunIs ==
  ASSUME Bounds, NEW t \in TermsOf(0), NEW c, c = Screen(t).col
  PROVE  c \in 1..Cols /\ Kept(Begun(t), c)
<1>1. PICK s : s = Screen(t)
  OBVIOUS
<1>2. s \in ScreensOf(0) /\ s.col = c /\ c \in 1..Cols
  BY <1>1, ScreenIs, ScreenType
<1>3. c \in 0..Cols
  BY <1>2
<1>4. t \in TermsOf(c) /\ s \in ScreensOf(c) /\ Behind(Other(t), c)
  BY <1>2, <1>3, Widen, NothingTyped DEF Kept
<1>5. PICK w : w = s.rows[s.row]
  OBVIOUS
<1>6. s.row \in 1..Len(s.rows) /\ \A i \in 1..Len(s.rows) : s.rows[i] = NoRow
  <2>1. s.row \in 1..Len(s.rows) /\ \A i \in 1..Len(s.rows) : s.rows[i] \in RowsOf(0)
    BY <1>2, ScreenType
  <2> QED
    BY <2>1 DEF RowsOf
<1>7. PICK v : v = [w EXCEPT !.began = TRUE]
  OBVIOUS
<1>8. v \in RowsOf(c)
  <2>1. w = NoRow
    BY <1>5, <1>6
  <2>2. v = [began |-> TRUE, cells |-> [k \in 1..Cols |-> FALSE]]
    BY <1>7, <2>1 DEF NoRow
  <2>3. \A k \in 1..(c - 1) : k \in 1..Cols
    BY <1>2 DEF Bounds
  <2>4. v.began => \A k \in 1..(c - 1) : ~v.cells[k]
    BY <2>2, <2>3
  <2>5. v \in [began : BOOLEAN, cells : [1..Cols -> BOOLEAN]]
    BY <2>2
  <2> QED
    BY <1>2, <2>4, <2>5 DEF RowsOf
<1>9. PICK u : u = WithRow(s, v)
  OBVIOUS
<1>10. /\ u \in ScreensOf(c) /\ u.row = s.row /\ u.col = s.col /\ Len(u.rows) = Len(s.rows)
       /\ \A i \in 1..Len(s.rows) : i # s.row => u.rows[i] = s.rows[i]
  BY <1>3, <1>4, <1>8, <1>9, RowReplaced
<1>11. Behind(u, c)
  <2> SUFFICES ASSUME NEW i \in 1..Len(u.rows), u.rows[i].began
               PROVE  i = u.row /\ c <= u.col
    BY DEF Behind
  <2>1. i = s.row
    BY <1>3, <1>6, <1>10, NoRowIs
  <2> QED
    BY <1>2, <1>10, <2>1
<1>12. Begun(t) = WithScreen(t, u)
  BY <1>1, <1>5, <1>7, <1>9 DEF Begun, WithRow
<1> QED
  BY <1>2, <1>4, <1>10, <1>11, <1>12, WithScreenIs DEF Kept

\* Where nothing is typed, clearing what is behind the cursor changes nothing of it.
LEMMA ClearInputEolIs ==
  ASSUME Bounds, NEW t \in TermsOf(0)
  PROVE  /\ ClearInputEol(t) \in TermsOf(0)
         /\ Screen(ClearInputEol(t)).row = Screen(t).row /\ Screen(ClearInputEol(t)).col = Screen(t).col
<1>1. PICK s : s = Screen(t)
  OBVIOUS
<1>2. s \in ScreensOf(0) /\ 0 \in 0..Cols
  BY <1>1, ScreenIs DEF Bounds
<1>3. CASE s.wrap
  BY <1>1, <1>3 DEF ClearInputEol
<1>4. CASE ~s.wrap
  <2>1. PICK w : w = s.rows[s.row]
    OBVIOUS
  <2>2. w = NoRow
    <3>1. s.row \in 1..Len(s.rows) /\ \A i \in 1..Len(s.rows) : s.rows[i] \in RowsOf(0)
      BY <1>2, ScreenType
    <3> QED
      BY <2>1, <3>1 DEF RowsOf
  <2>3. PICK v : v = [w EXCEPT !.cells = [k \in 1..Cols |-> k < s.col /\ w.cells[k]]]
    OBVIOUS
  <2>4. v = NoRow
    BY <2>2, <2>3 DEF NoRow
  <2>5. v \in RowsOf(0)
    BY <1>2, <2>4, NoRowIs
  <2>6. PICK u : u = WithRow(s, v)
    OBVIOUS
  <2>7. u \in ScreensOf(0) /\ u.row = s.row /\ u.col = s.col
    BY <1>2, <2>5, <2>6, RowReplaced
  <2>8. ClearInputEol(t) = WithScreen(t, u)
    BY <1>1, <1>4, <2>1, <2>3, <2>6 DEF ClearInputEol, WithRow
  <2> QED
    BY <1>1, <2>7, <2>8, WithScreenIs
<1> QED
  BY <1>3, <1>4

\* A screen gets a new height: rows come back above it or blank ones are added
\* below, or its first rows go. The cursor does not fall behind the row the input
\* began on.
LEMMA RefitIs ==
  ASSUME Bounds, NEW c \in 0..Cols, NEW s \in ScreensOf(c), Behind(s, c), NEW n \in Nat, n >= 1,
         NEW down \in Nat, NEW stream \in Seq(RowsOf(c)), Len(stream) = down + Len(s.rows),
         \A i \in 1..Len(s.rows) : stream[down + i] = s.rows[i],
         n < Len(s.rows) => down = 0, n >= Len(s.rows) => down <= n - Len(s.rows)
  PROVE  Refit(s, stream, n, down) \in ScreensOf(c) /\ Behind(Refit(s, stream, n, down), c)
<1>1. PICK q, h, k, m : q = s.rows /\ h = Len(q) /\ k = s.row /\ m = Len(stream)
  OBVIOUS
<1>2. h \in Nat /\ k \in 1..h /\ m = down + h /\ m \in Nat /\ q \in Seq(RowsOf(c))
  BY <1>1, ScreenType
<1>3. PICK x : x = Max({0, n - m})
  OBVIOUS
<1>4. x = IF 0 >= n - m THEN 0 ELSE n - m
  BY <1>2, <1>3, MaxIs
<1>5. x \in Nat
  BY <1>2, <1>4
<1>6. PICK b : b = BlankRows(x)
  OBVIOUS
<1>7. b \in Seq(RowsOf(c)) /\ Len(b) = x /\ \A i \in 1..x : b[i] = NoRow
  BY <1>5, <1>6, BlankRowsAre
<1>8. PICK padded : padded = stream \o b
  OBVIOUS
<1>9. /\ padded \in Seq(RowsOf(c)) /\ Len(padded) = m + x
      /\ \A i \in 1..m : padded[i] = stream[i]
      /\ \A i \in 1..x : padded[m + i] = NoRow
  <2>1. stream \o b \in Seq(RowsOf(c)) /\ Len(stream \o b) = Len(stream) + Len(b)
    BY <1>7, ConcatIs, ZenonT(30)
  <2>2. \A i \in 1..Len(stream) : (stream \o b)[i] = stream[i]
    BY <1>7, ConcatIs, SMTT(30)
  <2>3. \A i \in 1..Len(b) : (stream \o b)[Len(stream) + i] = b[i]
    BY <1>7, ConcatIs, SMTT(30)
  <2> QED
    BY <1>1, <1>7, <1>8, <2>1, <2>2, <2>3
<1>10. PICK d : d = m + x - n
  OBVIOUS
<1>11. d \in Nat /\ d = IF n >= m THEN 0 ELSE m - n
  BY <1>2, <1>4, <1>10
<1>12. PICK r : r = SubSeq(padded, d + 1, m + x)
  OBVIOUS
<1>13. r \in Seq(RowsOf(c)) /\ Len(r) = n /\ \A i \in 1..n : r[i] = padded[i + d]
  <2>1. PICK e \in Nat : e = m + x
    BY <1>2, <1>5
  <2>2. d + 1 \in Nat /\ d + 1 >= 1 /\ d + 1 <= e + 1 /\ e <= Len(padded) /\ e - (d + 1) + 1 = n
    BY <1>2, <1>5, <1>9, <1>10, <1>11, <2>1
  <2>3. /\ SubSeq(padded, d + 1, e) \in Seq(RowsOf(c)) /\ Len(SubSeq(padded, d + 1, e)) = e - (d + 1) + 1
        /\ \A i \in 1..(e - (d + 1) + 1) : SubSeq(padded, d + 1, e)[i] = padded[i + (d + 1) - 1]
    BY <1>9, <2>2, PartIs, SMTT(30)
  <2>4. r \in Seq(RowsOf(c)) /\ Len(r) = n /\ \A i \in 1..n : r[i] = padded[i + (d + 1) - 1]
    BY <1>12, <2>1, <2>2, <2>3, Zenon
  <2>5. \A i \in 1..n : i + (d + 1) - 1 = i + d
    BY <1>11
  <2> QED
    BY <2>4, <2>5, Zenon
<1>14. PICK y : y = Min({k + down, n})
  OBVIOUS
<1>15. y = IF k + down <= n THEN k + down ELSE n
  BY <1>2, <1>14, MinIs
<1>16. y \in 1..n
  BY <1>2, <1>15
<1>17. PICK u : u = [rows |-> r, row |-> y, col |-> s.col, wrap |-> FALSE]
  OBVIOUS
<1>18. Refit(s, stream, n, down) = u
  <2>1. s \in [rows : Seq(RowsOf(c)), row : Nat, col : 1..Cols, wrap : BOOLEAN]
    BY ScreenType
  <2>2. r = SubSeq(padded, Len(padded) - n + 1, Len(padded))
    <3>1. Len(padded) - n + 1 = d + 1
      BY <1>2, <1>5, <1>9, <1>10
    <3> QED
      BY <1>9, <1>12, <3>1
  <2>3. Refit(s, stream, n, down) = [s EXCEPT !.rows = r, !.row = y, !.wrap = FALSE]
    BY <1>1, <1>3, <1>6, <1>8, <1>14, <2>2, Zenon DEF Refit
  <2> QED
    BY <1>17, <2>1, <2>3
<1>19. u \in ScreensOf(c)
  <2>1. u \in [rows : Seq(RowsOf(c)), row : Nat, col : 1..Cols, wrap : BOOLEAN]
    <3>1. s.col \in 1..Cols
      BY ScreenType
    <3> QED
      BY <1>13, <1>16, <1>17, <3>1
  <2> QED
    BY <1>13, <1>16, <1>17, <2>1 DEF ScreensOf
<1>20. \A i \in 1..h : q[i].began => i < k \/ (i = k /\ c <= s.col)
  BY <1>1 DEF Behind
<1>21. ASSUME NEW i \in 1..n, r[i].began
       PROVE  i < y \/ (i = y /\ c <= s.col)
  <2>1. CASE n >= m
    <3>1. d = 0 /\ y = k + down /\ i + d = i
      BY <1>2, <1>11, <1>15, <2>1
    <3>2. i <= m
      <4> SUFFICES ASSUME i > m PROVE FALSE
        BY <1>2
      <4>1. i - m \in 1..x /\ m + (i - m) = i
        BY <1>2, <1>4, <2>1
      <4>2. padded[m + (i - m)] = NoRow
        BY <1>9, <4>1
      <4>3. r[i] = NoRow
        BY <1>13, <3>1, <4>1, <4>2
      <4> QED
        BY <1>21, <4>3, NoRowIs
    <3>3. r[i] = stream[i]
      BY <1>2, <1>9, <1>13, <3>1, <3>2
    <3>4. CASE i <= down
      BY <1>2, <3>1, <3>4
    <3>5. CASE i > down
      <4>1. i - down \in 1..h /\ down + (i - down) = i
        BY <1>2, <3>2, <3>5
      <4>2. stream[down + (i - down)] = q[i - down]
        BY <1>1, <4>1
      <4>3. q[i - down].began
        BY <1>21, <3>3, <4>1, <4>2
      <4>4. i - down < k \/ (i - down = k /\ c <= s.col)
        BY <1>20, <4>1, <4>3
      <4> QED
        BY <1>2, <3>1, <4>4
    <3> QED
      BY <3>4, <3>5
  <2>2. CASE n < m
    <3>1. n < h /\ down = 0 /\ m = h /\ d = h - n
      BY <1>1, <1>2, <1>11, <2>2
    <3>2. i + d \in 1..h /\ i + d \in 1..m /\ down + (i + d) = i + d
      BY <1>2, <1>11, <3>1
    <3>3. r[i] = q[i + d]
      <4>1. r[i] = stream[i + d]
        BY <1>9, <1>13, <3>2
      <4>2. stream[down + (i + d)] = q[i + d]
        BY <1>1, <3>2
      <4> QED
        BY <3>2, <4>1, <4>2
    <3>4. i + d < k \/ (i + d = k /\ c <= s.col)
      BY <1>20, <1>21, <3>2, <3>3
    <3>5. y = IF k <= n THEN k ELSE n
      BY <1>2, <1>15, <3>1
    <3> QED
      BY <1>2, <3>1, <3>4, <3>5
  <2> QED
    BY <1>2, <2>1, <2>2
<1> QED
  BY <1>13, <1>17, <1>18, <1>19, <1>21 DEF Behind

\* The grid gets a new height.
LEMMA ResizeIs ==
  ASSUME Bounds, NEW c \in 0..Cols, Kept(term, c), NEW n \in Nat, n >= 1
  PROVE  Kept(ResizeTo(term, n), c)
<1>1. PICK p, a, g : p = term.primary /\ a = term.alternate /\ g = term.history
  OBVIOUS
<1>2. term \in TermsOf(c) /\ Behind(p, c) /\ Behind(a, c)
  BY <1>1, KeptIs DEF Kept
<1>3. p \in ScreensOf(c) /\ a \in ScreensOf(c) /\ g \in Seq(RowsOf(c))
  BY <1>1, <1>2, ScreenIs
<1>4. PICK h \in Nat, l \in Nat : h = Len(p.rows) /\ l = Len(g)
  BY <1>3, ScreenType
<1>5. PICK back : back = IF term.alt THEN 0 ELSE Min({l, Max({0, n - h})})
  OBVIOUS
<1>6. /\ back \in Nat /\ back <= l /\ (n < h => back = 0) /\ (n >= h => back <= n - h)
  <2>1. PICK x : x = Max({0, n - h})
    OBVIOUS
  <2>2. x = IF 0 >= n - h THEN 0 ELSE n - h
    BY <2>1, MaxIs
  <2>3. Min({l, x}) = IF l <= x THEN l ELSE x
    BY <2>2, MinIs
  <2> QED
    BY <1>5, <2>1, <2>2, <2>3
<1>7. PICK z : z = SubSeq(g, l - back + 1, l)
  OBVIOUS
<1>8. z \in Seq(RowsOf(c)) /\ Len(z) = back
  <2>1. PICK e : e = l - back + 1
    OBVIOUS
  <2>2. e \in Nat /\ e >= 1 /\ e <= l + 1 /\ l - e + 1 = back
    BY <1>4, <1>6, <2>1
  <2>3. SubSeq(g, e, l) \in Seq(RowsOf(c)) /\ Len(SubSeq(g, e, l)) = l - e + 1
    BY <1>3, <1>4, <2>2, PartIs
  <2> QED
    BY <1>7, <2>1, <2>2, <2>3
<1>9. PICK stream : stream = z \o p.rows
  OBVIOUS
<1>10. /\ stream \in Seq(RowsOf(c)) /\ Len(stream) = back + Len(p.rows)
       /\ \A i \in 1..Len(p.rows) : stream[back + i] = p.rows[i]
  <2>1. PICK q \in Seq(RowsOf(c)) : q = p.rows
    BY <1>3, ScreenType
  <2>2. z \o q \in Seq(RowsOf(c)) /\ Len(z \o q) = Len(z) + Len(q)
    BY <1>8, ConcatIs
  <2>3. \A i \in 1..Len(q) : (z \o q)[Len(z) + i] = q[i]
    BY <1>8, ConcatIs
  <2> QED
    BY <1>8, <1>9, <2>1, <2>2, <2>3
<1>11. PICK u : u = Refit(p, stream, n, back)
  OBVIOUS
<1>12. u \in ScreensOf(c) /\ Behind(u, c)
  BY <1>2, <1>3, <1>4, <1>6, <1>10, <1>11, RefitIs
<1>13. PICK v : v = Refit(a, a.rows, n, 0)
  OBVIOUS
<1>14. v \in ScreensOf(c) /\ Behind(v, c)
  <2>1. a.rows \in Seq(RowsOf(c)) /\ Len(a.rows) \in Nat
    BY <1>3, ScreenType
  <2>2. PICK rows \in Seq(RowsOf(c)) : rows = a.rows /\ Len(rows) = 0 + Len(a.rows)
    BY <2>1
  <2>3. \A i \in 1..Len(a.rows) : rows[0 + i] = a.rows[i]
    BY <2>2
  <2>4. (n < Len(a.rows) => 0 = 0) /\ (n >= Len(a.rows) => 0 <= n - Len(a.rows)) /\ 0 \in Nat
    BY <2>1
  <2>5. Refit(a, rows, n, 0) \in ScreensOf(c) /\ Behind(Refit(a, rows, n, 0), c)
    BY <1>2, <1>3, <2>2, <2>3, <2>4, RefitIs
  <2> QED
    BY <1>13, <2>2, <2>5
<1>15. PICK x : x = Max({0, Len(stream) - n})
  OBVIOUS
<1>16. x \in Nat /\ x <= Len(stream) /\ Len(stream) \in Nat
  <2>1. PICK m \in Nat : m = Len(stream)
    BY <1>10
  <2>2. x = IF 0 >= m - n THEN 0 ELSE m - n
    BY <1>15, <2>1, MaxIs
  <2> QED
    BY <2>1, <2>2
<1>17. PICK k : k = Capped(SubSeq(g, 1, l - back) \o SubSeq(stream, 1, x))
  OBVIOUS
<1>18. k \in Seq(RowsOf(c))
  <2>1. PICK e : e = l - back
    OBVIOUS
  <2>2. e \in Nat /\ e <= l /\ 1 <= e + 1 /\ 1 <= x + 1
    BY <1>4, <1>6, <1>16, <2>1
  <2>3. SubSeq(g, 1, e) \in Seq(RowsOf(c))
    BY <1>3, <1>4, <2>2, PartIs
  <2>4. SubSeq(stream, 1, x) \in Seq(RowsOf(c))
    BY <1>10, <1>16, <2>2, PartIs
  <2>5. SubSeq(g, 1, e) \o SubSeq(stream, 1, x) \in Seq(RowsOf(c))
    BY <2>3, <2>4, ConcatIs
  <2> QED
    BY <1>17, <2>1, <2>5, CappedIs
<1>19. ResizeTo(term, n) = [term EXCEPT !.primary = u, !.alternate = v, !.history = k]
  BY <1>1, <1>4, <1>5, <1>7, <1>9, <1>11, <1>13, <1>15, <1>17, Zenon DEF ResizeTo, Height
<1>20. PICK w : w = [primary |-> u, alternate |-> v, history |-> k, alt |-> term.alt, mouse |-> term.mouse]
  OBVIOUS
<1>21. ResizeTo(term, n) = w
  BY <1>2, <1>19, <1>20 DEF TermsOf
<1>22. w \in TermsOf(c) /\ w.primary = u /\ w.alternate = v
  BY <1>2, <1>12, <1>14, <1>18, <1>20 DEF TermsOf
<1> QED
  BY <1>12, <1>14, <1>21, <1>22, KeptIs

-----------------------------------------------------------------------------
(* The steps.                                                              *)

\* A frame is built, and with it the dock.
LEMMA RebuildStep ==
  ASSUME Bounds, DInv, NEW t, Kept(t, From(marks)), NEW p \in Surface, RebuildFrame(t, p)
  PROVE  DInv'
<1>1. /\ marks' = marks /\ term' = t
      /\ pane' = [p EXCEPT !.seen = @ \/ marks.content # "None"]
      /\ dock' = DeriveDock(marks, t, [p EXCEPT !.seen = @ \/ marks.content # "None"])
  BY DEF RebuildFrame
<1>2. PICK q : q = [p EXCEPT !.seen = @ \/ marks.content # "None"]
  OBVIOUS
<1>3. q \in Surface /\ pane' = q /\ dock' = DeriveDock(marks, t, q)
  BY <1>1, <1>2 DEF Surface
<1>4. MInv'
  BY <1>1, UnmarkedAgrees DEF DInv
<1>5. DockHidesOnlyThePrompt'
  <2> SUFFICES ASSUME dock'.shown PROVE DockHidesOnlyThePrompt'
    BY DEF DockHidesOnlyThePrompt
  <2>1. /\ ~t.alt /\ ~q.scrolled /\ ~t.mouse /\ AtPrompt(marks) /\ OnOneRow(marks, t)
        /\ dock' = [shown |-> TRUE, row |-> SourceRow(marks, t), col |-> SourceCol(marks),
                    cells |-> IF SourceRow(marks, t) \in DOMAIN Screen(t).rows
                              THEN SubSeq(Screen(t).rows[SourceRow(marks, t)].cells, SourceCol(marks), Cols)
                              ELSE <<>>]
    BY <1>3 DEF DeriveDock, Hidden
  <2>2. PICK s, c : s = t.primary /\ c = From(marks)
    OBVIOUS
  <2>3. marks.content \in {"Prompt", "Input"}
    BY <2>1 DEF DInv, MInv, MarksAgree
  <2>4. /\ c \in 0..Cols
        /\ marks.content = "Prompt" => c = 0
        /\ marks.content = "Input" => c = marks.start[2]
    BY <2>2, <2>3 DEF DInv, From, Bounds
  <2>5. s \in ScreensOf(c) /\ Screen(t) = s
    BY <2>1, <2>2, ScreenIs DEF Kept, Screen
  <2>6. SourceRow(marks, t) = s.row
    BY <2>1, <2>5 DEF OnOneRow, SourceRow
  <2>7. PICK b : b = SourceCol(marks)
    OBVIOUS
  <2>8. b \in 1..Cols /\ (b = 1 \/ (marks.content = "Input" /\ b = c))
    <3>1. CASE marks.content = "Prompt"
      <4>1. marks.start = None
        BY <3>1 DEF DInv, MInv, MarksAgree
      <4> QED
        BY <2>7, <4>1 DEF SourceCol, Bounds
    <3>2. CASE marks.content = "Input"
      <4>1. marks.start[2] \in 1..Cols
        BY <3>2 DEF DInv
      <4> QED
        BY <2>4, <2>7, <3>2, <4>1 DEF SourceCol, Bounds
    <3> QED
      BY <2>3, <3>1, <3>2
  <2>9. PICK w : w = s.rows[s.row]
    OBVIOUS
  <2>10. s.row \in 1..Len(s.rows) /\ s.row \in DOMAIN s.rows /\ w \in RowsOf(c)
    BY <2>5, <2>9, ScreenType
  <2>11. PICK cells : cells = SubSeq(w.cells, b, Cols)
    OBVIOUS
  <2>12. dock' = [shown |-> TRUE, row |-> s.row, col |-> b, cells |-> cells]
    BY <2>1, <2>5, <2>6, <2>7, <2>9, <2>10, <2>11
  <2>13. w.cells \in Seq(BOOLEAN) /\ Len(w.cells) = Cols
    BY <2>10 DEF RowsOf, Bounds
  <2>14. /\ DOMAIN cells = 1..(Cols - b + 1)
         /\ \A k \in 1..(Cols - b + 1) : cells[k] = w.cells[k + b - 1]
    <3>1. b \in Nat /\ b >= 1 /\ Cols \in Nat /\ b <= Cols + 1 /\ Cols <= Len(w.cells) /\ Cols - b + 1 \in Nat
      BY <2>8, <2>13 DEF Bounds
    <3>2. /\ cells \in Seq(BOOLEAN) /\ Len(cells) = Cols - b + 1
          /\ \A k \in 1..(Cols - b + 1) : cells[k] = w.cells[k + b - 1]
      BY <2>11, <2>13, <3>1, PartIs
    <3> QED
      BY <3>2
  <2>15. ASSUME NEW k \in b..Cols
         PROVE  /\ k - b + 1 \in DOMAIN cells /\ cells[k - b + 1] = w.cells[k]
                /\ RemapPointer(dock', k - b + 1) = <<s.row, k>>
    <3>1. k - b + 1 \in 1..(Cols - b + 1) /\ (k - b + 1) + b - 1 = k /\ b + (k - b + 1) - 1 = k
      BY <2>8 DEF Bounds
    <3>2. RemapPointer(dock', k - b + 1) = <<s.row, b + (k - b + 1) - 1>>
      BY <2>12 DEF RemapPointer
    <3> QED
      BY <2>14, <3>1, <3>2
  <2>16. ASSUME w.began, NEW k \in 1..(b - 1) PROVE ~w.cells[k]
    <3>1. b # 1
      BY <2>8, <2>16
    <3>2. marks.content = "Input" /\ b = c /\ c # 0
      BY <2>8, <3>1
    <3> QED
      BY <2>10, <2>16, <3>2 DEF RowsOf
  <2>17. term'.primary = s /\ term'.alt = t.alt /\ term'.mouse = t.mouse /\ pane'.scrolled = q.scrolled
    BY <1>1, <1>3, <2>2
  <2>18. dock'.row = s.row /\ dock'.col = b /\ dock'.cells = cells
    BY <2>12
  <2>19. term'.primary.rows[dock'.row] = w
    BY <2>9, <2>17, <2>18
  <2>20. \A k \in dock'.col..Cols :
           /\ k - dock'.col + 1 \in DOMAIN dock'.cells
           /\ RemapPointer(dock', k - dock'.col + 1) = <<term'.primary.row, k>>
           /\ dock'.cells[k - dock'.col + 1] = w.cells[k]
    BY <2>15, <2>17, <2>18
  <2>21. w.began => \A k \in 1..(dock'.col - 1) : ~w.cells[k]
    BY <2>16, <2>18
  <2>22. ~term'.alt /\ ~pane'.scrolled /\ ~term'.mouse /\ dock'.row = term'.primary.row
    BY <2>1, <2>17, <2>18
  <2> QED
    BY <2>19, <2>20, <2>21, <2>22, Zenon DEF DockHidesOnlyThePrompt
<1> QED
  BY <1>1, <1>3, <1>4, <1>5 DEF DInv

\* Output comes in: the dock is stale until the next frame.
LEMMA FeedStep ==
  ASSUME DInv, MInv', NEW t, NEW m, Feed(t, m), Kept(t, From(m)),
         m.content \in {"None", "Prompt", "Input", "Output"},
         m.content = "Input" => m.start \in Nat \X (1..Cols)
  PROVE  DInv'
BY DEF Feed, DInv, DockHidesOnlyThePrompt

\* A set of numbers has a least one.
LEMMA LeastNat ==
  ASSUME NEW T, T \subseteq Nat, T # {}
  PROVE  \E n \in T : \A m \in T : n <= m
<1> DEFINE Below == {1..n : n \in T}
           Under == StrictSubsetOrdering(Nat)
<1>1. Below \subseteq FiniteSubsetsOf(Nat)
  <2> SUFFICES ASSUME NEW n \in T PROVE 1..n \in FiniteSubsetsOf(Nat)
    OBVIOUS
  <2>1. IsFiniteSet(1..n)
    BY FS_Interval
  <2> QED
    BY <2>1 DEF FiniteSubsetsOf
<1>2. Below # {} /\ IsWellFoundedOn(Under, FiniteSubsetsOf(Nat))
  BY FS_StrictSubsetOrderingWellFounded
<1>3. PICK x \in Below : \A y \in Below : ~(<<y, x>> \in Under)
  <2> HIDE DEF Below, Under
  <2> QED
    BY <1>1, <1>2, WFMin
<1>4. PICK n \in T : x = 1..n
  OBVIOUS
<1>5. ASSUME NEW m \in T PROVE n <= m
  <2>1. ~(<<1..m, 1..n>> \in Under)
    BY <1>3, <1>4
  <2>2. m < n => 1..m \subseteq 1..n /\ n \in 1..n /\ n \notin 1..m
    OBVIOUS
  <2>3. m < n => 1..m \subseteq 1..n /\ 1..m # 1..n
    BY <2>2
  <2>4. 1..m \in SUBSET Nat /\ 1..n \in SUBSET Nat
    OBVIOUS
  <2>5. ~(m < n)
    BY <2>1, <2>3, <2>4 DEF StrictSubsetOrdering
  <2> QED
    BY <2>5
<1> QED
  BY <1>5

\* At first nothing is typed, and there is no dock.
LEMMA InitDInv ==
  ASSUME Bounds, Init
  PROVE  DInv
<1>1. PICK n : n = Min(Heights)
  OBVIOUS
<1>2. n \in Nat /\ n >= 1
  <2>1. \E m \in Heights : \A k \in Heights : m <= k
    BY LeastNat DEF Bounds
  <2>2. n \in Heights
    BY <1>1, <2>1 DEF Min
  <2> QED
    BY <2>2 DEF Bounds
<1>3. PICK s : s = NewScreen(n)
  OBVIOUS
<1>4. s \in ScreensOf(0) /\ 0 \in 0..Cols
  <2>1. s \in [rows : {BlankRows(n)}, row : 1..n, col : 1..Cols, wrap : BOOLEAN] /\ 0 \in 0..Cols
    BY <1>2, <1>3 DEF NewScreen, Bounds
  <2> QED
    BY <1>2, <2>1, BlankScreen
<1>5. term = [primary |-> s, alternate |-> s, history |-> <<>>, alt |-> FALSE, mouse |-> FALSE]
  BY <1>1, <1>3 DEF Init, NewTerm
<1>6. term \in TermsOf(0)
  BY <1>4, <1>5 DEF TermsOf
<1>7. marks.content = "None" /\ From(marks) = 0
  BY DEF Init, NewMarks, From
<1>8. MInv
  BY NewMarksAgree DEF Init
<1>9. Kept(term, From(marks))
  BY <1>4, <1>6, <1>7, NothingTyped
<1>10. pane \in Surface /\ DockHidesOnlyThePrompt
  BY DEF Init, Surface, DockHidesOnlyThePrompt, Hidden
<1> QED
  BY <1>7, <1>8, <1>9, <1>10 DEF DInv

\* Every step keeps the dock on what the marks say is input.
LEMMA DockStep ==
  ASSUME Bounds, DInv, [Next]_vars
  PROVE  DInv'
<1>1. MInv'
  BY MarksStep DEF DInv
<1>2. PICK c : c = From(marks)
  OBVIOUS
<1>3. c \in 0..Cols /\ Kept(term, c) /\ term \in TermsOf(c)
  <2>1. Kept(term, c) /\ 0 \in 0..Cols /\ 1 \in 0..Cols
    BY <1>2 DEF DInv, Bounds
  <2>2. marks.content = "Input" => marks.start[2] \in 0..Cols
    BY DEF DInv
  <2> QED
    BY <1>2, <2>1, <2>2 DEF From, Kept
<1>4. marks.content = "Input" => marks.start \in Nat \X (1..Cols)
  BY DEF DInv
<1>5. ASSUME NEW t, Feed(t, marks), Kept(t, c) PROVE DInv'
  BY <1>1, <1>2, <1>4, <1>5, FeedStep DEF DInv
<1>6. CASE Write
  <2>1. PICK typed \in BOOLEAN : typed = (marks.content = "Input")
    OBVIOUS
  <2>2. c = 0 => ~typed
    <3>1. marks.content = "Input" => marks.start[2] \in 1..Cols
      BY <1>4
    <3>2. marks.content = "Input" => c # 0
      BY <1>2, <3>1 DEF From
    <3> QED
      BY <2>1, <3>2
  <2>3. Kept(WriteChar(term, typed), c)
    BY <1>3, <2>2, WriteCharIs
  <2>4. Feed(WriteChar(term, typed), marks)
    BY <1>6, <2>1 DEF Write
  <2> QED
    BY <1>5, <2>3, <2>4
<1>7. CASE NewLine
  BY <1>3, <1>5, <1>7, NextLine DEF NewLine
<1>8. CASE AlternateScreen
  BY <1>3, <1>5, <1>8, SwapAltIs DEF AlternateScreen
<1>9. CASE MouseReports
  <2>1. PICK t : t = [term EXCEPT !.mouse = ~@]
    OBVIOUS
  <2>2. Kept(t, c)
    BY <1>3, <2>1, MouseIs
  <2> QED
    BY <1>5, <1>9, <2>1, <2>2 DEF MouseReports
<1>10. CASE MarkFreshLine
  BY <1>3, <1>5, <1>10, FreshLineIs DEF MarkFreshLine
<1>11. ASSUME NEW t \in TermsOf(c), NEW kind, Feed(Forgotten(t), BeginPrompt(marks, kind)) PROVE DInv'
  <2>1. PICK u, m : u = Forgotten(t) /\ m = BeginPrompt(marks, kind)
    OBVIOUS
  <2>2. m.content = "Prompt" /\ From(m) = 0
    BY <2>1 DEF BeginPrompt, DInv, MInv, Fields, From
  <2>3. Kept(u, 0)
    <3>1. u \in TermsOf(0) /\ 0 \in 0..Cols
      BY <1>3, <2>1, ForgottenIs DEF Bounds
    <3> QED
      BY <3>1, NothingTyped
  <2> QED
    BY <1>1, <1>11, <2>1, <2>2, <2>3, FeedStep
<1>12. CASE MarkNewPrompt
  <2>1. FreshLine(term) \in TermsOf(c)
    BY <1>3, FreshLineIs DEF Kept
  <2> QED
    BY <1>11, <1>12, <2>1 DEF MarkNewPrompt
<1>13. CASE MarkPromptStart
  BY <1>3, <1>11, <1>13 DEF MarkPromptStart
<1>14. CASE MarkInput
  <2>1. c = 0 /\ term \in TermsOf(0)
    BY <1>2, <1>3, <1>14 DEF MarkInput, From
  <2>2. PICK t \in {term, ClearInputEol(term)} : Feed(Begun(t), StartInput(marks, Cursor))
    BY <1>14 DEF MarkInput
  <2>3. t \in TermsOf(0) /\ Screen(t).col = Screen(term).col
    BY <2>1, <2>2, ClearInputEolIs
  <2>4. PICK k, m : k = Screen(t).col /\ m = StartInput(marks, Cursor)
    OBVIOUS
  <2>5. k \in 1..Cols /\ Kept(Begun(t), k)
    BY <2>3, <2>4, BegunIs
  <2>6. Screen(term).row \in Nat
    BY <2>1, ScreenIs, ScreenType
  <2>7. m.content = "Input" /\ m.start = <<Screen(term).row, k>>
    BY <2>3, <2>4 DEF StartInput, Cursor, DInv, MInv, Fields
  <2>8. m.start \in Nat \X (1..Cols) /\ From(m) = k
    BY <2>5, <2>6, <2>7 DEF From
  <2> QED
    BY <1>1, <2>2, <2>4, <2>5, <2>7, <2>8, FeedStep
<1>15. ASSUME NEW m, m.content = "Output", Feed(term, m) PROVE DInv'
  <2>1. Kept(term, 1)
    BY <1>3, InputOver
  <2>2. From(m) = 1
    BY <1>15 DEF From
  <2> QED
    BY <1>1, <1>15, <2>1, <2>2, FeedStep
<1>16. CASE MarkOutput
  <2>1. PICK m : m = StartOutput(marks)
    OBVIOUS
  <2>2. m.content = "Output"
    BY <2>1 DEF StartOutput, DInv, MInv, Fields
  <2> QED
    BY <1>15, <1>16, <2>1, <2>2 DEF MarkOutput
<1>17. CASE MarkEnd
  <2>1. PICK code, m : m = EndCommand(marks, code) /\ Feed(term, m)
    BY <1>17 DEF MarkEnd
  <2>2. m.content = "Output"
    BY <2>1 DEF EndCommand, DInv, MInv, Fields
  <2> QED
    BY <1>15, <2>1, <2>2
<1>18. pane \in Surface
  BY DEF DInv
<1>19. CASE PumpEnds
  BY <1>2, <1>3, <1>18, <1>19, RebuildStep DEF PumpEnds
<1>20. CASE ScrollUp
  <2>1. PICK p : p = [pane EXCEPT !.scrolled = @ \/ (~term.alt /\ term.history # <<>>)]
    OBVIOUS
  <2>2. p \in Surface
    BY <1>18, <2>1 DEF Surface
  <2> QED
    BY <1>2, <1>3, <1>20, <2>1, <2>2, RebuildStep DEF ScrollUp
<1>21. CASE ScrollDown
  <2>1. PICK p : p = [pane EXCEPT !.scrolled = @ /\ term.alt]
    OBVIOUS
  <2>2. p \in Surface
    BY <1>3, <1>18, <2>1, ScreenIs DEF Surface
  <2> QED
    BY <1>2, <1>3, <1>21, <2>1, <2>2, RebuildStep DEF ScrollDown
<1>22. CASE Resize
  <2>1. PICK n \in Heights :
          RebuildFrame(ResizeTo(term, n), [pane EXCEPT !.scrolled = @ /\ ResizeTo(term, n).history # <<>>])
    BY <1>22 DEF Resize
  <2>2. PICK t, p : t = ResizeTo(term, n) /\ p = [pane EXCEPT !.scrolled = @ /\ t.history # <<>>]
    OBVIOUS
  <2>3. p \in Surface
    BY <1>18, <2>2 DEF Surface
  <2>4. Kept(t, c)
    BY <1>3, <2>2, ResizeIs DEF Bounds
  <2> QED
    BY <1>2, <2>1, <2>2, <2>3, <2>4, RebuildStep
<1>23. CASE SetPresentation
  <2>1. PICK prompt \in {"dock", "inline"} : pane' = [pane EXCEPT !.prompt = prompt]
    BY <1>23 DEF SetPresentation
  <2>2. pane' \in Surface /\ pane'.scrolled = pane.scrolled
    BY <1>18, <2>1 DEF Surface
  <2>3. marks' = marks /\ term' = term /\ dock' = dock /\ fresh' = fresh
    BY <1>23 DEF SetPresentation
  <2>4. DockHidesOnlyThePrompt'
    BY <2>2, <2>3 DEF DInv, DockHidesOnlyThePrompt
  <2> QED
    BY <1>1, <2>2, <2>3, <2>4 DEF DInv
<1>24. CASE UNCHANGED vars
  BY <1>1, <1>24 DEF vars, DInv, DockHidesOnlyThePrompt
<1> QED
  BY <1>6, <1>7, <1>8, <1>9, <1>10, <1>12, <1>13, <1>14, <1>16, <1>17, <1>19, <1>20, <1>21, <1>22,
     <1>23, <1>24 DEF Next

\* The dock shows what the marks say is input, whatever the shell prints and
\* the user does: while it is shown, its mask covers the cursor's row of the
\* live screen and leaves out nothing typed at this prompt (input_dock.rs, derive).
THEOREM DockAlwaysFollows ==
  ASSUME Bounds
  PROVE  Spec => []DockFollowsTheMarks
<1>1. Init => DInv
  BY InitDInv
<1>2. DInv /\ [Next]_vars => DInv'
  BY DockStep
<1>3. DInv => DockFollowsTheMarks
  BY DEF DInv, MInv, DockFollowsTheMarks
<1> QED
  BY <1>1, <1>2, <1>3, PTL DEF Spec

=============================================================================
