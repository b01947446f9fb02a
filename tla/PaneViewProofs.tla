---------------------------- MODULE PaneViewProofs ----------------------------
(***************************************************************************)
(* What a pane shows, for every height of the grid, every limit of the     *)
(* history and any number of lines: the painted rows are the lines of the  *)
(* viewport, a scrolled view stays on its lines while output arrives, and  *)
(* so does a selection, or it is dropped.                                  *)
(***************************************************************************)
EXTENDS PaneView, FiniteSetTheorems, WellFoundedInduction, TLAPS

-----------------------------------------------------------------------------
(* Terminals.                                                              *)

Term ==
  [history : Seq(Line), primary : Seq(Line), alternate : Seq(Line), alt : BOOLEAN,
   damage : [full : BOOLEAN, rows : SUBSET Nat], next : Nat]

\* Both screens have the grid's height, and the history is within its limit.
Sized(t) ==
  /\ t \in Term
  /\ Len(t.primary) = Len(t.alternate) /\ Len(t.primary) >= 1 /\ Len(t.history) <= MaxLines

\* The lines there are, in history and on the screen.
Lines(t) == Len(t.history) + Len(t.primary)

\* Each line of t is in the same place of u, though perhaps rewritten.
SameIds(t, u) ==
  /\ Lines(t) <= Lines(u)
  /\ \A line \in Nat : line < Lines(t) => LineAt(u, line).id = LineAt(t, line).id

\* Each line of t but the first is in u one place further up.
MovedUp(t, u) ==
  /\ Lines(u) = Lines(t)
  /\ \A line \in Nat : line + 1 < Lines(t) => LineAt(u, line).id = LineAt(t, line + 1).id

\* The greater of two numbers.
LEMMA MaxIs ==
  ASSUME NEW a \in Int, NEW b \in Int
  PROVE  Max({a, b}) = IF a >= b THEN a ELSE b
<1>1. PICK m : m = IF a >= b THEN a ELSE b
  OBVIOUS
<1>2. m \in {a, b} /\ \A y \in {a, b} : m >= y
  BY <1>1
<1>3. \A x \in {a, b} : (\A y \in {a, b} : x >= y) => x = m
  BY <1>1
<1>4. Max({a, b}) = m
  BY <1>2, <1>3 DEF Max
<1> QED
  BY <1>1, <1>4

\* The lesser of two numbers.
LEMMA MinIs ==
  ASSUME NEW a \in Int, NEW b \in Int
  PROVE  Min({a, b}) = IF a <= b THEN a ELSE b
<1>1. PICK m : m = IF a <= b THEN a ELSE b
  OBVIOUS
<1>2. m \in {a, b} /\ \A y \in {a, b} : m <= y
  BY <1>1
<1>3. \A x \in {a, b} : (\A y \in {a, b} : x <= y) => x = m
  BY <1>1
<1>4. Min({a, b}) = m
  BY <1>2, <1>3 DEF Min
<1> QED
  BY <1>1, <1>4

\* The limit of the history is a positive number.
LEMMA LimitType == MaxLines \in Nat /\ MaxLines >= 1
BY PaneAssumption

\* Blank lines are lines, as many as asked for.
LEMMA BlankType ==
  ASSUME NEW t, t.next \in Nat, NEW n \in Nat
  PROVE  Blank(t, n) \in Seq(Line) /\ Len(Blank(t, n)) = n
<1>1. \A i \in 1..n : [id |-> t.next + i - 1, version |-> 0] \in Line
  BY DEF Line
<1> QED
  BY <1>1 DEF Blank

\* The newest lines, no more than the limit.
LEMMA CappedIs ==
  ASSUME NEW lines \in Seq(Line)
  PROVE  /\ Capped(lines) \in Seq(Line) /\ Len(Capped(lines)) <= MaxLines
         /\ Len(lines) <= MaxLines => Capped(lines) = lines
         /\ Len(lines) = MaxLines + 1 => Capped(lines) = Tail(lines)
<1>1. PICK n \in Nat : n = Len(lines)
  OBVIOUS
<1>2. PICK k : k = Max({0, n - MaxLines})
  OBVIOUS
<1>3. k = IF n >= MaxLines THEN n - MaxLines ELSE 0
  BY <1>1, <1>2, LimitType, MaxIs
<1>4. k \in 0..n
  BY <1>1, <1>3, LimitType
<1>5. Capped(lines) = SubSeq(lines, k + 1, n)
  BY <1>1, <1>2 DEF Capped
<1>6. Capped(lines) \in Seq(Line) /\ Len(Capped(lines)) = n - k
  BY <1>1, <1>4, <1>5
<1>7. n - k <= MaxLines
  BY <1>1, <1>3, LimitType
<1>8. n <= MaxLines => Capped(lines) = lines
  <2> SUFFICES ASSUME n <= MaxLines PROVE Capped(lines) = lines
    OBVIOUS
  <2>1. k = 0
    BY <1>1, <1>3, LimitType
  <2> QED
    BY <1>1, <1>5, <2>1
<1>9. n = MaxLines + 1 => Capped(lines) = Tail(lines)
  <2> SUFFICES ASSUME n = MaxLines + 1 PROVE Capped(lines) = Tail(lines)
    OBVIOUS
  <2>1. k = 1 /\ n >= 1
    BY <1>1, <1>3, LimitType
  <2>2. Capped(lines) = SubSeq(lines, 2, n)
    BY <1>5, <2>1
  <2> QED
    BY <1>1, <2>1, <2>2
<1> QED
  BY <1>1, <1>6, <1>7, <1>8, <1>9

\* A line's place is in the history or on the screen.
LEMMA LineAtIs ==
  ASSUME NEW t, Sized(t), NEW line \in Nat, line < Lines(t)
  PROVE  /\ LineAt(t, line) \in Line
         /\ line < Len(t.history) => LineAt(t, line) = t.history[line + 1]
         /\ line >= Len(t.history) => LineAt(t, line) = Grid(t)[line - Len(t.history) + 1]
<1>1. PICK h : h = t.history
  OBVIOUS
<1>2. PICK g : g = Grid(t)
  OBVIOUS
<1>3. h \in Seq(Line) /\ g \in Seq(Line) /\ Len(g) = Len(t.primary) /\ Len(g) \in Nat /\ Len(h) \in Nat
  BY <1>1, <1>2 DEF Sized, Term, Grid
<1>4. line < Len(h) + Len(g)
  BY <1>1, <1>3 DEF Lines
<1>5. LineAt(t, line) = IF line < Len(h) THEN h[line + 1] ELSE g[line - Len(h) + 1]
  BY <1>1, <1>2 DEF LineAt
<1>6. CASE line < Len(h)
  <2>1. line + 1 \in 1..Len(h)
    BY <1>3, <1>4, <1>6
  <2> QED
    BY <1>1, <1>3, <1>4, <1>5, <1>6, <2>1
<1>7. CASE ~(line < Len(h))
  <2>1. line - Len(h) + 1 \in 1..Len(g)
    BY <1>3, <1>4, <1>7
  <2> QED
    BY <1>1, <1>2, <1>3, <1>4, <1>5, <1>7, <2>1
<1> QED
  BY <1>6, <1>7

\* A row of a view is on one of the lines there are.
LEMMA RowPlace ==
  ASSUME NEW h \in Nat, NEW n \in Nat, NEW top \in 0..h, NEW r \in 1..n
  PROVE  top + r - 1 \in Nat /\ top + r - 1 < h + n
OBVIOUS

\* The rows of the viewport.
LEMMA VisibleIs ==
  ASSUME NEW t, Sized(t), NEW top \in 0..Len(t.history)
  PROVE  /\ Visible(t, top) \in Seq(Line) /\ Len(Visible(t, top)) = Len(t.primary)
         /\ \A r \in 1..Len(t.primary) : Visible(t, top)[r] = LineAt(t, top + r - 1)
         /\ top = Len(t.history) => \A r \in 1..Len(t.primary) : Visible(t, top)[r] = Grid(t)[r]
<1>1. Len(t.history) \in Nat /\ Len(t.primary) \in Nat
  BY DEF Sized, Term
<1>2. ASSUME NEW r \in 1..Len(t.primary) PROVE top + r - 1 \in Nat /\ top + r - 1 < Lines(t)
  <2>1. top + r - 1 \in Nat /\ top + r - 1 < Len(t.history) + Len(t.primary)
    BY <1>1, RowPlace
  <2> QED
    BY <2>1 DEF Lines
<1>3. \A r \in 1..Len(t.primary) : LineAt(t, top + r - 1) \in Line
  BY <1>2, LineAtIs
<1>4. \A r \in 1..Len(t.primary) : Visible(t, top)[r] = LineAt(t, top + r - 1)
  BY DEF Visible
<1>5. Visible(t, top) \in Seq(Line) /\ Len(Visible(t, top)) = Len(t.primary)
  BY <1>1, <1>3 DEF Visible
<1>6. ASSUME top = Len(t.history), NEW r \in 1..Len(t.primary)
      PROVE  LineAt(t, top + r - 1) = Grid(t)[r]
  <2>1. PICK k \in Nat : k = top + r - 1 /\ k < Lines(t)
    BY <1>2
  <2>2. k >= Len(t.history) /\ k - Len(t.history) + 1 = r
    BY <1>1, <1>6, <2>1
  <2>3. LineAt(t, k) = Grid(t)[k - Len(t.history) + 1]
    BY <2>1, <2>2, LineAtIs
  <2> QED
    BY <2>1, <2>2, <2>3
<1> QED
  BY <1>4, <1>5, <1>6

-----------------------------------------------------------------------------
(* What the operators do to a terminal.                                    *)

\* The screens of a sized terminal.
LEMMA SizedTypes ==
  ASSUME NEW t, Sized(t)
  PROVE  /\ t \in Term
         /\ t.history \in Seq(Line) /\ t.primary \in Seq(Line) /\ t.alternate \in Seq(Line)
         /\ t.alt \in BOOLEAN /\ t.next \in Nat
         /\ t.damage \in [full : BOOLEAN, rows : SUBSET Nat]
         /\ Len(t.history) \in Nat /\ Len(t.primary) \in Nat
         /\ Len(t.primary) = Len(t.alternate) /\ Len(t.primary) >= 1
BY DEF Sized, Term

\* Marking the terminal damaged changes nothing else of it.
LEMMA MarkFullIs ==
  ASSUME NEW t, Sized(t)
  PROVE  /\ Sized(MarkFull(t)) /\ MarkFull(t).damage.full
         /\ MarkFull(t).history = t.history /\ MarkFull(t).primary = t.primary
         /\ MarkFull(t).alternate = t.alternate /\ MarkFull(t).alt = t.alt
BY DEF MarkFull, Sized, Term

\* Rows behind rows.
LEMMA ConcatIs ==
  ASSUME NEW a \in Seq(Line), NEW b \in Seq(Line)
  PROVE  /\ a \o b \in Seq(Line) /\ Len(a \o b) = Len(a) + Len(b)
         /\ \A i \in 1..Len(a) : (a \o b)[i] = a[i]
         /\ \A i \in 1..Len(b) : (a \o b)[Len(a) + i] = b[i]
<1>1. PICK m \in Nat, n \in Nat : m = Len(a) /\ n = Len(b)
  OBVIOUS
<1>2. a \o b \in Seq(Line) /\ Len(a \o b) = m + n
  BY <1>1
<1>3. \A i \in 1..m : (a \o b)[i] = a[i]
  BY <1>1
<1>4. \A i \in 1..n : (a \o b)[m + i] = b[i]
  BY <1>1
<1> QED
  BY <1>1, <1>2, <1>3, <1>4

\* A screen that scrolls by a line keeps its height.
LEMMA ScrolledRows ==
  ASSUME NEW rows \in Seq(Line), Len(rows) >= 1, NEW blank \in Seq(Line), Len(blank) = 1
  PROVE  /\ Tail(rows) \o blank \in Seq(Line) /\ Len(Tail(rows) \o blank) = Len(rows)
         /\ \A r \in 1..(Len(rows) - 1) : (Tail(rows) \o blank)[r] = rows[r + 1]
         /\ Head(rows) \in Line /\ Head(rows) = rows[1]
<1>1. PICK n \in Nat : n = Len(rows) /\ n >= 1
  OBVIOUS
<1>2. Tail(rows) \in Seq(Line) /\ Len(Tail(rows)) = n - 1
  BY <1>1
<1>3. \A r \in 1..(n - 1) : Tail(rows)[r] = rows[r + 1]
  BY <1>1
<1>4. Len(Tail(rows)) = n - 1 /\ \A r \in 1..(n - 1) : (Tail(rows) \o blank)[r] = Tail(rows)[r]
  BY <1>2, ConcatIs
<1>5. Tail(rows) \o blank \in Seq(Line) /\ Len(Tail(rows) \o blank) = n
  <2>1. Tail(rows) \o blank \in Seq(Line) /\ Len(Tail(rows) \o blank) = Len(Tail(rows)) + Len(blank)
    BY <1>2, ConcatIs
  <2> QED
    BY <1>1, <1>2, <2>1
<1>6. Head(rows) \in Line /\ Head(rows) = rows[1]
  BY <1>1
<1> QED
  BY <1>1, <1>3, <1>4, <1>5, <1>6

\* The alternate screen is replaced.
LEMMA WithAlternate ==
  ASSUME NEW t \in Term, NEW g, NEW n
  PROVE  [t EXCEPT !.alternate = g, !.next = n] =
            [history |-> t.history, primary |-> t.primary, alternate |-> g, alt |-> t.alt,
             damage |-> t.damage, next |-> n]
<1>1. PICK u1 : u1 = [t EXCEPT !.alternate = g]
  OBVIOUS
<1>2. u1 =
            [history |-> t.history, primary |-> t.primary, alternate |-> g, alt |-> t.alt,
             damage |-> t.damage, next |-> t.next]
  BY <1>1 DEF Term
<1>3. [u1 EXCEPT !.next = n] =
            [history |-> t.history, primary |-> t.primary, alternate |-> g, alt |-> t.alt,
             damage |-> t.damage, next |-> n]
  BY <1>2
<1>4. [t EXCEPT !.alternate = g, !.next = n] = [u1 EXCEPT !.next = n]
  BY <1>1 DEF Term
<1> QED
  BY <1>3, <1>4

\* History and primary screen are replaced.
LEMMA WithHistory ==
  ASSUME NEW t \in Term, NEW h, NEW p, NEW n
  PROVE  [t EXCEPT !.history = h, !.primary = p, !.next = n] =
            [history |-> h, primary |-> p, alternate |-> t.alternate, alt |-> t.alt,
             damage |-> t.damage, next |-> n]
<1>1. PICK u1 : u1 = [t EXCEPT !.history = h]
  OBVIOUS
<1>2. u1 =
            [history |-> h, primary |-> t.primary, alternate |-> t.alternate, alt |-> t.alt,
             damage |-> t.damage, next |-> t.next]
  BY <1>1 DEF Term
<1>3. PICK u2 : u2 = [u1 EXCEPT !.primary = p]
  OBVIOUS
<1>4. u2 =
            [history |-> h, primary |-> p, alternate |-> t.alternate, alt |-> t.alt,
             damage |-> t.damage, next |-> t.next]
  BY <1>3, <1>2
<1>5. [u2 EXCEPT !.next = n] =
            [history |-> h, primary |-> p, alternate |-> t.alternate, alt |-> t.alt,
             damage |-> t.damage, next |-> n]
  BY <1>4
<1>6. [t EXCEPT !.history = h, !.primary = p, !.next = n] = [u2 EXCEPT !.next = n]
  BY <1>1, <1>3 DEF Term
<1> QED
  BY <1>5, <1>6

\* History and both screens are replaced.
LEMMA WithScreens ==
  ASSUME NEW t \in Term, NEW h, NEW p, NEW g, NEW n
  PROVE  [t EXCEPT !.history = h, !.primary = p, !.alternate = g, !.next = n] =
            [history |-> h, primary |-> p, alternate |-> g, alt |-> t.alt,
             damage |-> t.damage, next |-> n]
<1>1. PICK u1 : u1 = [t EXCEPT !.history = h]
  OBVIOUS
<1>2. u1 =
            [history |-> h, primary |-> t.primary, alternate |-> t.alternate, alt |-> t.alt,
             damage |-> t.damage, next |-> t.next]
  BY <1>1 DEF Term
<1>3. PICK u2 : u2 = [u1 EXCEPT !.primary = p]
  OBVIOUS
<1>4. u2 =
            [history |-> h, primary |-> p, alternate |-> t.alternate, alt |-> t.alt,
             damage |-> t.damage, next |-> t.next]
  BY <1>3, <1>2
<1>5. PICK u3 : u3 = [u2 EXCEPT !.alternate = g]
  OBVIOUS
<1>6. u3 =
            [history |-> h, primary |-> p, alternate |-> g, alt |-> t.alt,
             damage |-> t.damage, next |-> t.next]
  BY <1>5, <1>4
<1>7. [u3 EXCEPT !.next = n] =
            [history |-> h, primary |-> p, alternate |-> g, alt |-> t.alt,
             damage |-> t.damage, next |-> n]
  BY <1>6
<1>8. [t EXCEPT !.history = h, !.primary = p, !.alternate = g, !.next = n] = [u3 EXCEPT !.next = n]
  BY <1>1, <1>3, <1>5 DEF Term
<1> QED
  BY <1>7, <1>8

\* The line at a place over history and screen.
Place(history, screen, line) ==
  IF line < Len(history) THEN history[line + 1] ELSE screen[line - Len(history) + 1]

\* Without its first line every line is one place further up.
LEMMA PlaceOfTail ==
  ASSUME NEW a \in Seq(Line), Len(a) >= 1, NEW q \in Seq(Line), NEW line \in Nat
  PROVE  Place(Tail(a), q, line) = Place(a, q, line + 1)
<1>1. PICK n \in Nat : n = Len(a) /\ n >= 1
  OBVIOUS
<1>2. Tail(a) \in Seq(Line) /\ Len(Tail(a)) = n - 1
  BY <1>1
<1>3. line < n - 1 => Tail(a)[line + 1] = a[line + 1 + 1]
  BY <1>1, <1>2
<1>4. line < n - 1 <=> line + 1 < n
  BY <1>1
<1>5. line - (n - 1) + 1 = line + 1 - n + 1
  BY <1>1
<1> QED
  BY <1>1, <1>2, <1>3, <1>4, <1>5 DEF Place

\* The screen's first line keeps its place when it goes to the history.
LEMMA PlaceWhenScrolled ==
  ASSUME NEW h \in Seq(Line), NEW p \in Seq(Line), Len(p) >= 1, NEW b \in Seq(Line), Len(b) = 1,
         NEW line \in Nat, line < Len(h) + Len(p)
  PROVE  Place(Append(h, Head(p)), Tail(p) \o b, line) = Place(h, p, line)
<1>1. PICK m \in Nat, n \in Nat : m = Len(h) /\ n = Len(p) /\ n >= 1 /\ line < m + n
  OBVIOUS
<1>2. PICK q : q = Tail(p) \o b
  OBVIOUS
<1>3. Head(p) \in Line /\ Head(p) = p[1] /\ \A r \in 1..(n - 1) : q[r] = p[r + 1]
  <2>1. /\ Head(p) \in Line /\ Head(p) = p[1]
        /\ \A r \in 1..(Len(p) - 1) : (Tail(p) \o b)[r] = p[r + 1]
    BY ScrolledRows
  <2> QED
    BY <1>1, <1>2, <2>1
<1>4. PICK a : a = Append(h, Head(p))
  OBVIOUS
<1>5. Len(a) = m + 1 /\ a[m + 1] = p[1] /\ \A i \in 1..m : a[i] = h[i]
  BY <1>1, <1>3, <1>4
<1>6. Place(a, q, line) = IF line < m + 1 THEN a[line + 1] ELSE q[line - (m + 1) + 1]
  BY <1>5 DEF Place
<1>7. Place(h, p, line) = IF line < m THEN h[line + 1] ELSE p[line - m + 1]
  BY <1>1 DEF Place
<1>8. CASE line < m
  <2>1. line < m + 1 /\ line + 1 \in 1..m
    BY <1>1, <1>8
  <2>2. a[line + 1] = h[line + 1]
    BY <1>5, <2>1
  <2> QED
    BY <1>2, <1>4, <1>6, <1>7, <1>8, <2>1, <2>2
<1>9. CASE line = m
  <2>1. line < m + 1 /\ ~(line < m) /\ line + 1 = m + 1 /\ line - m + 1 = 1
    BY <1>1, <1>9
  <2> QED
    BY <1>2, <1>4, <1>5, <1>6, <1>7, <2>1
<1>10. CASE line > m
  <2>1. ~(line < m + 1) /\ ~(line < m) /\ line - (m + 1) + 1 = line - m
    BY <1>1, <1>10
  <2>2. line - m \in 1..(n - 1)
    BY <1>1, <1>10
  <2>3. q[line - m] = p[line - m + 1]
    BY <1>3, <2>2
  <2> QED
    BY <1>2, <1>4, <1>6, <1>7, <2>1, <2>3
<1> QED
  BY <1>1, <1>8, <1>9, <1>10

\* A line feed: below the limit every line stays in its place, at the limit
\* each moves up by one.
LEMMA ScrollOneIs ==
  ASSUME NEW t, Sized(t), NEW u, u = ScrollOne(t)
  PROVE  /\ Sized(u) /\ u.damage.full /\ u.alt = t.alt /\ Len(u.primary) = Len(t.primary)
         /\ ~t.alt /\ Len(t.history) < MaxLines => SameIds(t, u) /\ Len(u.history) = Len(t.history) + 1
         /\ ~t.alt /\ ~(Len(t.history) < MaxLines) =>
              /\ Len(t.history) = MaxLines
              /\ MovedUp(t, u) /\ Len(u.history) = MaxLines
<1>1. PICK h, p, b : h = t.history /\ p = t.primary /\ b = Blank(t, 1)
  OBVIOUS
<1>2. h \in Seq(Line) /\ p \in Seq(Line) /\ Len(p) >= 1 /\ Len(h) <= MaxLines
  BY <1>1, SizedTypes DEF Sized
<1>3. b \in Seq(Line) /\ Len(b) = 1 /\ t.next \in Nat
  BY <1>1, SizedTypes, BlankType
<1>4. CASE t.alt
  <2>1. PICK g : g = t.alternate
    OBVIOUS
  <2>2. g \in Seq(Line) /\ Len(g) >= 1 /\ Len(g) = Len(p)
    BY <1>1, <2>1, SizedTypes
  <2>3. Tail(g) \o b \in Seq(Line) /\ Len(Tail(g) \o b) = Len(g)
    BY <1>3, <2>2, ScrolledRows
  <2>4. PICK v : v = [history |-> h, primary |-> p, alternate |-> Tail(g) \o b, alt |-> t.alt,
                      damage |-> t.damage, next |-> t.next + 1]
    OBVIOUS
  <2>5. [t EXCEPT !.alternate = Tail(@) \o Blank(t, 1), !.next = @ + 1] = v
    <3>1. t \in Term
      BY SizedTypes
    <3>2. [t EXCEPT !.alternate = Tail(g) \o b, !.next = t.next + 1] = v
      BY <1>1, <2>4, <3>1, WithAlternate
    <3> QED
      BY <1>1, <2>1, <3>2
  <2>6. u = MarkFull(v)
    BY <1>4, <2>5 DEF ScrollOne
  <2>7. t.alt \in BOOLEAN /\ t.damage \in [full : BOOLEAN, rows : SUBSET Nat] /\ t.next + 1 \in Nat
    BY <1>3, SizedTypes
  <2>8. Len(p) = Len(Tail(g) \o b)
    BY <2>2, <2>3
  <2>9. Sized(u) /\ u.damage.full /\ u.alt = t.alt /\ u.primary = p
    <3>1. Sized(v) /\ v.primary = p /\ v.alt = t.alt
      BY <1>2, <2>3, <2>4, <2>7, <2>8 DEF Sized, Term
    <3> QED
      BY <2>6, <3>1, MarkFullIs
  <2> QED
    BY <1>1, <1>4, <2>9
<1>5. CASE ~t.alt
  <2>1. PICK a, q : a = Append(h, Head(p)) /\ q = Tail(p) \o b
    OBVIOUS
  <2>2. Head(p) \in Line /\ q \in Seq(Line) /\ Len(q) = Len(p)
    BY <1>2, <1>3, <2>1, ScrolledRows
  <2>3. a \in Seq(Line) /\ Len(a) = Len(h) + 1
    BY <1>2, <2>1, <2>2
  <2>4. PICK c : c = Capped(a)
    OBVIOUS
  <2>5. /\ c \in Seq(Line) /\ Len(c) <= MaxLines
        /\ Len(a) <= MaxLines => c = a
        /\ Len(a) = MaxLines + 1 => c = Tail(a)
    BY <2>3, <2>4, CappedIs
  <2>6. PICK v : v = [history |-> c, primary |-> q, alternate |-> t.alternate, alt |-> t.alt,
                      damage |-> t.damage, next |-> t.next + 1]
    OBVIOUS
  <2>7. [t EXCEPT !.history = Capped(Append(@, Head(t.primary))),
                  !.primary = Tail(@) \o Blank(t, 1), !.next = @ + 1] = v
    <3>1. t \in Term
      BY SizedTypes
    <3>2. [t EXCEPT !.history = c, !.primary = q, !.next = t.next + 1] = v
      BY <1>1, <2>6, <3>1, WithHistory
    <3> QED
      BY <1>1, <2>1, <2>4, <3>2
  <2>8. u = MarkFull(v)
    BY <1>5, <2>7 DEF ScrollOne
  <2>9. /\ t.alt \in BOOLEAN /\ t.damage \in [full : BOOLEAN, rows : SUBSET Nat] /\ t.next + 1 \in Nat
        /\ t.alternate \in Seq(Line) /\ Len(q) = Len(t.alternate) /\ Len(q) >= 1
    BY <1>1, <1>2, <1>3, <2>2, SizedTypes
  <2>10. Sized(u) /\ u.damage.full /\ u.alt = t.alt /\ u.primary = q /\ u.history = c
    <3>1. Sized(v) /\ v.primary = q /\ v.alt = t.alt /\ v.history = c
      BY <2>2, <2>5, <2>6, <2>9 DEF Sized, Term
    <3> QED
      BY <2>8, <3>1, MarkFullIs
  <2>11. \A line : LineAt(u, line) = Place(c, q, line) /\ LineAt(t, line) = Place(h, p, line)
    BY <1>1, <1>5, <2>10 DEF LineAt, Place, Grid
  <2>12. Lines(u) = Len(c) + Len(q) /\ Lines(t) = Len(h) + Len(p)
    BY <1>1, <2>10 DEF Lines
  <2>13. PICK m \in Nat, n \in Nat : m = Len(h) /\ n = Len(p) /\ n >= 1 /\ m <= MaxLines
    BY <1>2
  <2>14. \A line \in Nat : line < Len(h) + Len(p) => Place(a, q, line) = Place(h, p, line)
    BY <1>2, <1>3, <2>1, PlaceWhenScrolled
  <2>15. CASE m < MaxLines
    <3>1. c = a /\ Len(c) = m + 1
      BY <2>3, <2>5, <2>13, <2>15, LimitType
    <3>2. Lines(t) <= Lines(u)
      BY <2>2, <2>12, <2>13, <3>1
    <3>3. \A line \in Nat : line < Lines(t) => LineAt(u, line).id = LineAt(t, line).id
      BY <2>11, <2>12, <2>14, <3>1
    <3> QED
      BY <1>1, <1>5, <2>2, <2>10, <2>13, <2>15, <3>1, <3>2, <3>3 DEF SameIds
  <2>16. CASE ~(m < MaxLines)
    <3>1. m = MaxLines /\ Len(a) = MaxLines + 1 /\ c = Tail(a)
      BY <2>3, <2>5, <2>13, <2>16, LimitType
    <3>2. Len(c) = MaxLines
      BY <2>3, <3>1, LimitType
    <3>3. Lines(u) = Lines(t)
      BY <2>2, <2>12, <2>13, <3>1, <3>2
    <3>4. ASSUME NEW line \in Nat, line + 1 < Lines(t)
          PROVE  LineAt(u, line).id = LineAt(t, line + 1).id
      <4>1. Place(c, q, line) = Place(a, q, line + 1)
        <5>1. Len(a) >= 1
          BY <2>3, <2>13
        <5>2. Place(Tail(a), q, line) = Place(a, q, line + 1)
          BY <2>2, <2>3, <5>1, PlaceOfTail
        <5> QED
          BY <3>1, <5>2
      <4>2. line + 1 \in Nat /\ line + 1 < Len(h) + Len(p)
        BY <2>12, <3>4
      <4>3. Place(a, q, line + 1) = Place(h, p, line + 1)
        BY <2>14, <4>2
      <4> QED
        BY <2>11, <4>1, <4>3
    <3> QED
      BY <1>1, <1>5, <2>2, <2>10, <2>13, <2>16, <3>1, <3>2, <3>3, <3>4 DEF MovedUp
  <2> QED
    BY <2>13, <2>15, <2>16, LimitType
<1> QED
  BY <1>4, <1>5

\* A line rewritten in place is the same line.
LEMMA RewriteIs ==
  ASSUME NEW t, Sized(t), NEW r \in 1..Len(t.primary), NEW u, u = Rewrite(t, r)
  PROVE  /\ Sized(u) /\ (u.damage.full <=> t.damage.full) /\ u.alt = t.alt /\ u.history = t.history
         /\ Len(u.primary) = Len(t.primary) /\ SameIds(t, u)
<1>1. PICK h, p, g : h = t.history /\ p = t.primary /\ g = t.alternate
  OBVIOUS
<1>2. h \in Seq(Line) /\ p \in Seq(Line) /\ g \in Seq(Line) /\ Len(p) = Len(g) /\ r \in 1..Len(p) /\ t \in Term
  BY <1>1, SizedTypes
<1>3. ASSUME NEW s \in Seq(Line), r \in 1..Len(s)
      PROVE  /\ [s EXCEPT ![r].version = 1] \in Seq(Line)
             /\ Len([s EXCEPT ![r].version = 1]) = Len(s)
             /\ \A i \in 1..Len(s) : [s EXCEPT ![r].version = 1][i].id = s[i].id
  <2>1. [s[r] EXCEPT !.version = 1] \in Line /\ [s[r] EXCEPT !.version = 1].id = s[r].id
    <3>1. PICK l \in Line : l = s[r]
      BY <1>3
    <3>2. [l EXCEPT !.version = 1] \in Line /\ [l EXCEPT !.version = 1].id = l.id
      BY DEF Line
    <3> QED
      BY <3>1, <3>2
  <2>2. PICK w : w = [s[r] EXCEPT !.version = 1]
    OBVIOUS
  <2>3. [s EXCEPT ![r].version = 1] = [s EXCEPT ![r] = w]
    BY <2>2
  <2>4. /\ [s EXCEPT ![r] = w] \in Seq(Line) /\ Len([s EXCEPT ![r] = w]) = Len(s)
        /\ \A i \in 1..Len(s) : [s EXCEPT ![r] = w][i] = IF i = r THEN w ELSE s[i]
    BY <1>3, <2>1, <2>2
  <2> QED
    BY <2>1, <2>2, <2>3, <2>4
<1>4. PICK screen : screen = IF t.alt THEN g ELSE p
  OBVIOUS
<1>5. screen \in Seq(Line) /\ Len(screen) = Len(p) /\ r \in 1..Len(screen) /\ Grid(t) = screen
  BY <1>1, <1>2, <1>4 DEF Grid
<1>6. PICK now : now = [screen EXCEPT ![r].version = 1]
  OBVIOUS
<1>7. /\ now \in Seq(Line) /\ Len(now) = Len(p)
      /\ \A i \in 1..Len(p) : now[i].id = screen[i].id
  BY <1>3, <1>5, <1>6
<1>8. PICK v : v = IF t.alt THEN [t EXCEPT !.alternate = now] ELSE [t EXCEPT !.primary = now]
  OBVIOUS
<1>9. v = IF t.alt THEN [t EXCEPT !.alternate[r].version = 1] ELSE [t EXCEPT !.primary[r].version = 1]
  BY <1>1, <1>4, <1>6, <1>8
<1>10. u = MarkRow(v, r)
  BY <1>9 DEF Rewrite
<1>11. /\ v \in Term /\ v.history = h /\ v.alt = t.alt /\ v.damage = t.damage
       /\ v.primary = (IF t.alt THEN p ELSE now) /\ v.alternate = (IF t.alt THEN now ELSE g)
  <2>1. CASE t.alt
    BY <1>1, <1>2, <1>7, <1>8, <2>1 DEF Term
  <2>2. CASE ~t.alt
    BY <1>1, <1>2, <1>7, <1>8, <2>2 DEF Term
  <2> QED
    BY <2>1, <2>2
<1>12. /\ u \in Term /\ u.history = h /\ u.alt = t.alt /\ (u.damage.full <=> t.damage.full)
       /\ u.primary = v.primary /\ u.alternate = v.alternate
  <2>1. r \in Nat
    BY <1>2
  <2>2. /\ u \in Term /\ u.history = v.history /\ u.alt = v.alt /\ (u.damage.full <=> v.damage.full)
        /\ u.primary = v.primary /\ u.alternate = v.alternate
    <3>1. PICK d \in [full : BOOLEAN, rows : SUBSET Nat] : d = v.damage
      BY <1>11 DEF Term
    <3>2. PICK w : w = [d EXCEPT !.rows = d.rows \cup {r}]
      OBVIOUS
    <3>3. w \in [full : BOOLEAN, rows : SUBSET Nat] /\ w.full = d.full
      BY <2>1, <3>2
    <3>4. u = [v EXCEPT !.damage = w]
      BY <1>10, <3>1, <3>2 DEF MarkRow
    <3>5. /\ u \in Term /\ u.history = v.history /\ u.alt = v.alt /\ u.damage = w
          /\ u.primary = v.primary /\ u.alternate = v.alternate
      BY <1>11, <3>3, <3>4 DEF Term
    <3> QED
      BY <3>1, <3>3, <3>5
  <2> QED
    BY <1>11, <2>2
<1>13. Grid(u) = now /\ Len(u.primary) = Len(p) /\ Len(u.alternate) = Len(p)
  BY <1>2, <1>7, <1>11, <1>12 DEF Grid
<1>14. Sized(u)
  BY <1>1, <1>2, <1>12, <1>13, SizedTypes DEF Sized
<1>15. SameIds(t, u)
  <2>1. PICK m \in Nat, n \in Nat : m = Len(h) /\ n = Len(p)
    BY <1>2
  <2>2. Lines(u) = m + n /\ Lines(t) = m + n
    BY <1>1, <1>12, <1>13, <2>1 DEF Lines
  <2>3. ASSUME NEW line \in Nat, line < m + n
        PROVE  LineAt(u, line).id = LineAt(t, line).id
    <3>1. LineAt(u, line) = IF line < m THEN h[line + 1] ELSE now[line - m + 1]
      BY <1>12, <1>13, <2>1 DEF LineAt
    <3>2. LineAt(t, line) = IF line < m THEN h[line + 1] ELSE screen[line - m + 1]
      BY <1>1, <1>5, <2>1 DEF LineAt
    <3>3. ~(line < m) => line - m + 1 \in 1..n
      BY <2>1, <2>3
    <3> QED
      BY <1>7, <2>1, <3>1, <3>2, <3>3
  <2> QED
    BY <2>1, <2>2, <2>3 DEF SameIds
<1> QED
  BY <1>1, <1>12, <1>13, <1>14, <1>15

\* The history is erased.
LEMMA ClearSavedIs ==
  ASSUME NEW t, Sized(t)
  PROVE  Sized(ClearSaved(t)) /\ ClearSaved(t).damage.full /\ ClearSaved(t).alt = t.alt
<1>1. PICK v : v = [t EXCEPT !.history = <<>>]
  OBVIOUS
<1>2. t \in Term /\ <<>> \in Seq(Line) /\ Len(<<>>) = 0
  BY SizedTypes
<1>3. v \in Term /\ v.history = <<>> /\ v.primary = t.primary /\ v.alternate = t.alternate /\ v.alt = t.alt
  BY <1>1, <1>2 DEF Term
<1>4. Sized(v)
  BY <1>2, <1>3, LimitType DEF Sized
<1> QED
  BY <1>1, <1>3, <1>4, MarkFullIs DEF ClearSaved

\* The screen is erased into the history.
LEMMA ClearAllIs ==
  ASSUME NEW t, Sized(t)
  PROVE  Sized(ClearAll(t)) /\ ClearAll(t).damage.full /\ ClearAll(t).alt = t.alt
<1>1. PICK h, p, n : h = t.history /\ p = t.primary /\ n = t.next
  OBVIOUS
<1>2. /\ t \in Term /\ h \in Seq(Line) /\ p \in Seq(Line) /\ n \in Nat /\ Len(p) \in Nat /\ Len(p) >= 1
      /\ t.alternate \in Seq(Line) /\ Len(p) = Len(t.alternate)
  BY <1>1, SizedTypes
<1>3. h \o p \in Seq(Line)
  BY <1>2, ConcatIs
<1>4. PICK c, q, m : c = Capped(h \o p) /\ q = Blank(t, Len(p)) /\ m = n + Len(p)
  OBVIOUS
<1>5. c \in Seq(Line) /\ Len(c) <= MaxLines
  BY <1>3, <1>4, CappedIs
<1>6. q \in Seq(Line) /\ Len(q) = Len(p)
  BY <1>1, <1>2, <1>4, BlankType
<1>7. m \in Nat
  BY <1>2, <1>4
<1>8. PICK v : v = [t EXCEPT !.history = c, !.primary = q, !.next = m]
  OBVIOUS
<1>9. ClearAll(t) = MarkFull(v)
  BY <1>1, <1>4, <1>8 DEF ClearAll
<1>10. v \in Term /\ v.history = c /\ v.primary = q /\ v.alternate = t.alternate /\ v.alt = t.alt
  BY <1>2, <1>5, <1>6, <1>7, <1>8 DEF Term
<1>11. Sized(v)
  BY <1>2, <1>5, <1>6, <1>10 DEF Sized
<1> QED
  BY <1>9, <1>10, <1>11, MarkFullIs

\* The rows of a hidden screen are lines, as many as asked for.
LEMMA HiddenType ==
  ASSUME NEW n \in Nat
  PROVE  Hidden(n) \in Seq(Line) /\ Len(Hidden(n)) = n
<1>1. [id |-> 0, version |-> 0] \in Line
  BY DEF Line
<1> QED
  BY <1>1 DEF Hidden

\* The other screen is shown.
LEMMA SwitchScreenIs ==
  ASSUME NEW t, Sized(t)
  PROVE  Sized(SwitchScreen(t)) /\ SwitchScreen(t).damage.full
<1>1. PICK g, n : g = t.alternate /\ n = t.next
  OBVIOUS
<1>2. t \in Term /\ n \in Nat /\ Len(g) \in Nat /\ Len(t.primary) = Len(g) /\ Len(t.primary) >= 1
  BY <1>1, SizedTypes
<1>3. CASE t.alt
  <2>1. PICK q : q = Hidden(Len(g))
    OBVIOUS
  <2>2. q \in Seq(Line) /\ Len(q) = Len(g)
    BY <1>2, <2>1, HiddenType
  <2>3. PICK v : v = [t EXCEPT !.alt = FALSE, !.alternate = q]
    OBVIOUS
  <2>4. v \in Term /\ v.history = t.history /\ v.primary = t.primary /\ v.alternate = q
    BY <1>2, <2>2, <2>3 DEF Term
  <2>5. Sized(v)
    BY <1>2, <2>2, <2>4 DEF Sized
  <2>6. SwitchScreen(t) = MarkFull(v)
    BY <1>1, <1>3, <2>1, <2>3 DEF SwitchScreen
  <2> QED
    BY <2>5, <2>6, MarkFullIs
<1>4. CASE ~t.alt
  <2>1. PICK q, m : q = Blank(t, Len(g)) /\ m = n + Len(g)
    OBVIOUS
  <2>2. q \in Seq(Line) /\ Len(q) = Len(g) /\ m \in Nat
    <3>1. t.next \in Nat /\ Len(g) \in Nat
      BY <1>1, <1>2
    <3>2. Blank(t, Len(g)) \in Seq(Line) /\ Len(Blank(t, Len(g))) = Len(g)
      BY <3>1, BlankType
    <3> QED
      BY <1>1, <2>1, <3>1, <3>2
  <2>3. PICK v : v = [t EXCEPT !.alt = TRUE, !.alternate = q, !.next = m]
    OBVIOUS
  <2>4. v \in Term /\ v.history = t.history /\ v.primary = t.primary /\ v.alternate = q
    BY <1>2, <2>2, <2>3 DEF Term
  <2>5. Sized(v)
    BY <1>2, <2>2, <2>4 DEF Sized
  <2>6. SwitchScreen(t) = MarkFull(v)
    BY <1>1, <1>4, <2>1, <2>3 DEF SwitchScreen
  <2> QED
    BY <2>5, <2>6, MarkFullIs
<1> QED
  BY <1>3, <1>4

\* A part of the rows.
LEMMA PartIs ==
  ASSUME NEW s \in Seq(Line), NEW a \in Nat, a >= 1, NEW b \in Nat, a <= b + 1, b <= Len(s)
  PROVE  SubSeq(s, a, b) \in Seq(Line) /\ Len(SubSeq(s, a, b)) = b - a + 1
<1>1. PICK m \in Nat : m = Len(s)
  OBVIOUS
<1>2. \A i \in a..b : s[i] \in Line
  BY <1>1
<1>3. PICK q : q = SubSeq(s, a, b)
  OBVIOUS
<1>4. q \in Seq(Line)
  BY <1>2, <1>3
<1>5. Len(q) = IF a <= b THEN b - a + 1 ELSE 0
  BY <1>3
<1>6. b - a + 1 = IF a <= b THEN b - a + 1 ELSE 0
  OBVIOUS
<1> QED
  BY <1>3, <1>4, <1>5, <1>6

\* The last rows, with blank ones to the new height.
LEMMA FittedIs ==
  ASSUME NEW s \in Seq(Line), NEW n \in Nat, NEW b \in Seq(Line), Len(b) = Max({0, n - Len(s)})
  PROVE  /\ SubSeq(s, Max({0, Len(s) - n}) + 1, Len(s)) \o b \in Seq(Line)
         /\ Len(SubSeq(s, Max({0, Len(s) - n}) + 1, Len(s)) \o b) = n
<1>1. PICK m \in Nat : m = Len(s)
  OBVIOUS
<1>2. PICK k : k = Max({0, m - n})
  OBVIOUS
<1>3. k = IF 0 >= m - n THEN 0 ELSE m - n
  BY <1>2, MaxIs
<1>4. Len(b) = IF 0 >= n - m THEN 0 ELSE n - m
  BY <1>1, MaxIs
<1>5. k \in Nat /\ k <= m /\ m - k + Len(b) = n
  BY <1>3, <1>4
<1>6. PICK q : q = SubSeq(s, k + 1, m)
  OBVIOUS
<1>7. q \in Seq(Line) /\ Len(q) = m - k
  <2>1. k + 1 \in Nat /\ k + 1 >= 1 /\ k + 1 <= m + 1 /\ m <= Len(s) /\ m - (k + 1) + 1 = m - k
    BY <1>1, <1>5
  <2>2. SubSeq(s, k + 1, m) \in Seq(Line) /\ Len(SubSeq(s, k + 1, m)) = m - (k + 1) + 1
    BY <2>1, PartIs
  <2> QED
    BY <1>6, <2>1, <2>2
<1>8. q \o b \in Seq(Line) /\ Len(q \o b) = Len(q) + Len(b)
  BY <1>7, ConcatIs
<1> QED
  BY <1>1, <1>2, <1>5, <1>6, <1>7, <1>8

\* How many rows may come back.
LEMMA ComesBack ==
  ASSUME NEW t, Sized(t), NEW n \in Nat, NEW back \in MayComeBack(t, n)
  PROVE  back \in Nat /\ back <= Len(t.history)
<1>1. PICK h \in Nat, p \in Nat : h = Len(t.history) /\ p = Len(t.primary)
  BY SizedTypes
<1>2. PICK k : k = Max({0, n - p})
  OBVIOUS
<1>3. k \in Nat
  BY <1>2, MaxIs
<1>4. Min({h, k}) = IF h <= k THEN h ELSE k
  BY <1>3, MinIs
<1>5. back \in {0} \/ back \in 0..Min({h, k})
  BY <1>1, <1>2 DEF MayComeBack
<1> QED
  BY <1>1, <1>3, <1>4, <1>5

\* The grid gets its new height, and the history stays within its limit.
LEMMA ResizeIs ==
  ASSUME NEW t, Sized(t), NEW n \in Nat, n >= 1, NEW back \in MayComeBack(t, n)
  PROVE  Sized(ResizeTo(t, n, back)) /\ ResizeTo(t, n, back).damage.full
<1>1. PICK h, p, g, x : h = t.history /\ p = t.primary /\ g = t.alternate /\ x = t.next
  OBVIOUS
<1>2. /\ h \in Seq(Line) /\ p \in Seq(Line) /\ g \in Seq(Line) /\ x \in Nat /\ t \in Term
      /\ Len(h) \in Nat /\ Len(p) \in Nat /\ Len(g) \in Nat
  BY <1>1, SizedTypes
<1>3. back \in Nat /\ back <= Len(h)
  BY <1>1, ComesBack
<1>4. PICK grid : grid = SubSeq(h, Len(h) - back + 1, Len(h)) \o p
  OBVIOUS
<1>5. grid \in Seq(Line) /\ Len(grid) \in Nat
  <2>1. Len(h) - back + 1 \in Nat /\ Len(h) - back + 1 >= 1 /\ Len(h) - back + 1 <= Len(h) + 1
    BY <1>2, <1>3
  <2>2. SubSeq(h, Len(h) - back + 1, Len(h)) \in Seq(Line)
    BY <1>2, <2>1, PartIs
  <2>3. grid \in Seq(Line)
    BY <1>2, <1>4, <2>2, ConcatIs
  <2> QED
    BY <2>3
<1>6. PICK over, new, gone, more :
        /\ over = Max({0, Len(grid) - n}) /\ new = Max({0, n - Len(grid)})
        /\ gone = Max({0, Len(g) - n})
        /\ more = IF t.alt THEN Max({0, n - Len(g)}) ELSE 0
  OBVIOUS
<1>7. over \in Nat /\ over <= Len(grid) /\ new \in Nat /\ more \in Nat
  <2>1. over = IF 0 >= Len(grid) - n THEN 0 ELSE Len(grid) - n
    BY <1>5, <1>6, MaxIs
  <2>2. new = IF 0 >= n - Len(grid) THEN 0 ELSE n - Len(grid)
    BY <1>5, <1>6, MaxIs
  <2>3. Max({0, n - Len(g)}) = IF 0 >= n - Len(g) THEN 0 ELSE n - Len(g)
    BY <1>2, MaxIs
  <2>4. more \in Nat
    BY <1>2, <1>6, <2>3
  <2> QED
    BY <1>5, <2>1, <2>2, <2>4
<1>8. PICK c : c = Capped(SubSeq(h, 1, Len(h) - back) \o SubSeq(grid, 1, over))
  OBVIOUS
<1>9. c \in Seq(Line) /\ Len(c) <= MaxLines
  <2>1. Len(h) - back \in Nat /\ 1 <= Len(h) - back + 1 /\ Len(h) - back <= Len(h) /\ 1 <= over + 1
    BY <1>2, <1>3, <1>7
  <2>2. SubSeq(h, 1, Len(h) - back) \in Seq(Line)
    BY <1>2, <2>1, PartIs
  <2>3. SubSeq(grid, 1, over) \in Seq(Line)
    BY <1>5, <1>7, <2>1, PartIs
  <2>4. SubSeq(h, 1, Len(h) - back) \o SubSeq(grid, 1, over) \in Seq(Line)
    BY <2>2, <2>3, ConcatIs
  <2> QED
    BY <1>8, <2>4, CappedIs
<1>10. PICK q : q = SubSeq(grid, over + 1, Len(grid)) \o Blank(t, new)
  OBVIOUS
<1>11. q \in Seq(Line) /\ Len(q) = n
  <2>1. Blank(t, new) \in Seq(Line) /\ Len(Blank(t, new)) = new
    BY <1>1, <1>2, <1>7, BlankType
  <2> QED
    BY <1>5, <1>6, <1>10, <2>1, FittedIs, ZenonT(30)
<1>12. PICK u : u = [t EXCEPT !.next = x + new]
  OBVIOUS
<1>13. u.next \in Nat
  BY <1>2, <1>7, <1>12 DEF Term
<1>14. PICK a : a = IF t.alt THEN SubSeq(g, gone + 1, Len(g)) \o Blank(u, more) ELSE Hidden(n)
  OBVIOUS
<1>15. a \in Seq(Line) /\ Len(a) = n
  <2>1. CASE t.alt
    <3>1. Blank(u, more) \in Seq(Line) /\ Len(Blank(u, more)) = more
      BY <1>7, <1>13, BlankType
    <3>2. more = Max({0, n - Len(g)})
      BY <1>6, <2>1
    <3>3. /\ SubSeq(g, gone + 1, Len(g)) \o Blank(u, more) \in Seq(Line)
          /\ Len(SubSeq(g, gone + 1, Len(g)) \o Blank(u, more)) = n
      <4>1. PICK b \in Seq(Line) : b = Blank(u, more) /\ Len(b) = Max({0, n - Len(g)})
        BY <3>1, <3>2
      <4>2. /\ SubSeq(g, Max({0, Len(g) - n}) + 1, Len(g)) \o b \in Seq(Line)
            /\ Len(SubSeq(g, Max({0, Len(g) - n}) + 1, Len(g)) \o b) = n
        BY <1>2, <4>1, FittedIs
      <4> QED
        BY <1>6, <4>1, <4>2
    <3> QED
      BY <1>14, <2>1, <3>3
  <2>2. CASE ~t.alt
    BY <1>14, <2>2, HiddenType
  <2> QED
    BY <2>1, <2>2
<1>16. PICK m : m = x + new + more
  OBVIOUS
<1>17. PICK v : v = [t EXCEPT !.history = c, !.primary = q, !.alternate = a, !.next = m]
  OBVIOUS
<1>18. ResizeTo(t, n, back) = MarkFull(v)
  BY <1>1, <1>4, <1>6, <1>8, <1>10, <1>12, <1>14, <1>16, <1>17, ZenonT(60) DEF ResizeTo
<1>19. v \in Term /\ v.history = c /\ v.primary = q /\ v.alternate = a
  <2>1. m \in Nat
    BY <1>2, <1>7, <1>16
  <2> QED
    BY <1>2, <1>9, <1>11, <1>15, <1>17, <2>1 DEF Term
<1>20. Sized(v)
  BY <1>9, <1>11, <1>15, <1>19 DEF Sized
<1> QED
  BY <1>18, <1>20, MarkFullIs

-----------------------------------------------------------------------------
(* The invariant.                                                          *)

\* No chunk of output has come since the last frame was built.
Quiet == pumping = None \/ ~pumping.chunks

\* The lines the viewport has on the rows of the pane.
View == Visible(term, TopLine(Len(term.history)))

\* A frame with every line.
Painted(lines) == [damage |-> "Full", rows |-> [r \in DOMAIN lines |-> [row |-> r, line |-> lines[r]]]]

TypesOK ==
  /\ Sized(term)
  /\ offset \in Nat
  /\ altSeen \in BOOLEAN
  /\ selection = None \/ selection \in Selection
  /\ pool \in Seq({<<>>})
  /\ failed \in BOOLEAN
  /\ pumping = None \/ pumping \in Begun
  /\ lastRows \in Nat \ {0}
  /\ torn \in BOOLEAN

\* The viewport knows the history and the screen, but for the output of a pump.
InStep == Quiet => offset <= Len(term.history) /\ (altSeen <=> term.alt)

\* Every frame of a pane that has not failed is a full one: the frame before it
\* was full and is taken back, painted or not. Between pumps it has the lines
\* of the viewport, and the batches have them once it is painted, but for the frame
\* that a refused size left behind: that one is full, of some lines.
FramesOK ==
  ~failed =>
    /\ latest = None => term.damage.full
    /\ latest # None => \E lines \in Seq(Line) : latest = Painted(lines)
    /\ Quiet /\ ~torn /\ latest # None => latest = Painted(View)
    /\ DOMAIN cache.rows \subseteq Nat \ {0}
    /\ cache.applied = "latest" /\ Quiet => latest # None
    /\ cache.applied = "latest" /\ Quiet /\ ~torn => cache.rows = View

\* The selection's lines are those of the terminal, and of the height the pane
\* takes it to have.
Within(s) == \A line \in Span(s) : line < Lines(term) /\ line < Len(term.history) + lastRows

\* The selected lines are those under the selection, unless the history reached
\* its limit in this pump, which then ends the selection.
Follows ==
  picked # None /\ selection # None =>
    \/ ~Quiet /\ Len(term.history) >= MaxLines
    \/ Within(selection) /\ Covered(term, selection) = picked

\* The lines a scrolled view showed when the pump began are as much further up
\* as lines were dropped.
Kept ==
  /\ offset <= pumping.history /\ pumping.history <= Len(term.history)
  /\ pumping.evicted # 0 => Len(term.history) = MaxLines
  /\ \A r \in 1..Height : pumping.history - offset + r - 1 - pumping.evicted >= 0 =>
       LineAt(term, pumping.history - offset + r - 1 - pumping.evicted).id = pumping.shown[r]

Held ==
  pumping # None =>
    /\ ~pumping.chunks => pumping.evicted = 0 /\ Len(term.history) = pumping.history
    /\ ~pumping.cleared => (term.alt <=> pumping.alt)
    /\ ~pumping.cleared /\ ~pumping.alt /\ offset # 0 => Kept

IInv == TypesOK /\ InStep /\ FramesOK /\ Follows /\ Held

-----------------------------------------------------------------------------
(* Frames.                                                                 *)

\* The rows of a recycled frame are gone.
LEMMA PoolIs ==
  ASSUME NEW s \in Seq({<<>>})
  PROVE  /\ Append(s, <<>>) \in Seq({<<>>})
         /\ s # <<>> => Last(s) = <<>> /\ Front(s) \in Seq({<<>>})
<1>1. Append(s, <<>>) \in Seq({<<>>})
  OBVIOUS
<1>2. ASSUME s # <<>> PROVE Last(s) = <<>> /\ Front(s) \in Seq({<<>>})
  <2>1. PICK n \in Nat : n = Len(s) /\ n >= 1
    BY <1>2
  <2>2. s[n] \in {<<>>}
    BY <2>1
  <2>3. SubSeq(s, 1, n - 1) \in Seq({<<>>})
    BY <2>1
  <2> QED
    BY <2>1, <2>2, <2>3 DEF Last, Front
<1> QED
  BY <1>1, <1>2

\* A painted frame is full and has one entry per row, top to bottom.
LEMMA PaintedFrame ==
  ASSUME NEW lines \in Seq(Line)
  PROVE  /\ Painted(lines) # None /\ Painted(lines).damage = "Full"
         /\ Painted(lines).rows = [r \in 1..Len(lines) |-> [row |-> r, line |-> lines[r]]]
<1>1. PICK n \in Nat : n = Len(lines) /\ DOMAIN lines = 1..n
  OBVIOUS
<1>2. PICK rows : rows = [r \in 1..n |-> [row |-> r, line |-> lines[r]]]
  OBVIOUS
<1>3. Painted(lines) = [damage |-> "Full", rows |-> rows]
  BY <1>1, <1>2 DEF Painted
<1>4. \A r \in 1..n : [row |-> r, line |-> lines[r]] \in [row : Nat, line : Line]
  BY <1>1
<1>5. rows \in Seq([row : Nat, line : Line])
  BY <1>1, <1>2, <1>4
<1>6. Painted(lines) \in Frame
  BY <1>3, <1>5 DEF Frame
<1>7. Painted(lines) # None
  BY <1>6, PaneAssumption
<1>8. Painted(lines).damage = "Full" /\ Painted(lines).rows = rows
  BY <1>3
<1> QED
  BY <1>1, <1>2, <1>7, <1>8

\* A delta of a wholly damaged terminal has every row of the screen.
LEMMA FullDelta ==
  ASSUME NEW t, Sized(t), t.damage.full
  PROVE  Delta(t, <<>>) = Painted(Visible(t, Len(t.history)))
<1>1. PICK n \in Nat, h \in Nat : n = Len(t.primary) /\ h = Len(t.history)
  BY SizedTypes
<1>2. PICK rows : rows = [r \in 1..n |-> [row |-> r, line |-> Grid(t)[r]]]
  OBVIOUS
<1>3. rows \in Seq({[row |-> r, line |-> Grid(t)[r]] : r \in 1..n})
  BY <1>1, <1>2
<1>4. <<>> \o rows = rows
  BY <1>3
<1>5. Delta(t, <<>>) = [damage |-> "Full", rows |-> rows]
  BY <1>1, <1>2, <1>4 DEF Delta
<1>6. PICK lines : lines = Visible(t, h)
  OBVIOUS
<1>7. h \in 0..Len(t.history)
  BY <1>1
<1>8. /\ lines \in Seq(Line) /\ Len(lines) = n /\ \A r \in 1..n : lines[r] = Grid(t)[r]
  BY <1>1, <1>6, <1>7, VisibleIs
<1>9. rows = [r \in DOMAIN lines |-> [row |-> r, line |-> lines[r]]]
  BY <1>1, <1>2, <1>8
<1> QED
  BY <1>1, <1>5, <1>6, <1>9 DEF Painted

\* The projection of a scrolled view.
LEMMA ProjectionIs ==
  ASSUME NEW t, Sized(t), NEW top \in 0..Len(t.history)
  PROVE  Projection(t, top) = Painted(Visible(t, top))
<1>1. PICK lines : lines = Visible(t, top)
  OBVIOUS
<1>2. lines \in Seq(Line) /\ Len(lines) = Len(t.primary)
  BY <1>1, VisibleIs
<1>3. DOMAIN lines = 1..Len(t.primary)
  BY <1>2
<1> QED
  BY <1>1, <1>3 DEF Projection, Painted

\* A rebuilt frame is full and shows the view, scrolled or not, when the frame before it
\* was full.
LEMMA RebuildIs ==
  ASSUME NEW t, Sized(t), NEW o \in Nat, o <= Len(t.history),
         latest = None => t.damage.full, latest # None => latest.damage = "Full"
  PROVE  Rebuild(t, o, <<>>) = Painted(Visible(t, Len(t.history) - o))
<1>1. PICK h \in Nat : h = Len(t.history) /\ o <= h
  BY SizedTypes
<1>2. CASE o # 0
  <2>1. h - o \in 0..Len(t.history)
    BY <1>1
  <2>2. Rebuild(t, o, <<>>) = Projection(t, h - o)
    BY <1>1, <1>2 DEF Rebuild
  <2> QED
    BY <1>1, <2>1, <2>2, ProjectionIs
<1>3. CASE o = 0
  <2>1. PICK u : u = IF latest # None /\ latest.damage = "Full" THEN MarkFull(t) ELSE t
    OBVIOUS
  <2>2. /\ Sized(u) /\ u.damage.full /\ u.history = t.history /\ u.primary = t.primary
        /\ u.alternate = t.alternate /\ u.alt = t.alt
    BY <2>1, MarkFullIs
  <2>3. Rebuild(t, o, <<>>) = Delta(u, <<>>)
    BY <1>3, <2>1 DEF Rebuild
  <2>4. Delta(u, <<>>) = Painted(Visible(u, Len(u.history)))
    BY <2>2, FullDelta
  <2>5. Visible(u, h) = Visible(t, h)
    BY <2>2 DEF Visible, LineAt, Grid
  <2>6. h - o = h
    BY <1>1, <1>3
  <2> QED
    BY <1>1, <2>2, <2>3, <2>4, <2>5, <2>6
<1> QED
  BY <1>2, <1>3

\* The lines are the same on terminals with the same history and screens.
LEMMA SameScreens ==
  ASSUME NEW t, NEW u, u.history = t.history, u.primary = t.primary, u.alternate = t.alternate, u.alt = t.alt
  PROVE  /\ \A line : LineAt(u, line) = LineAt(t, line)
         /\ \A top : Visible(u, top) = Visible(t, top)
         /\ Lines(u) = Lines(t)
         /\ \A s : Covered(u, s) = Covered(t, s)
<1>1. Grid(u) = Grid(t)
  BY DEF Grid
<1>2. \A line : LineAt(u, line) = LineAt(t, line)
  BY <1>1 DEF LineAt
<1>3. \A top : Visible(u, top) = Visible(t, top)
  BY <1>2 DEF Visible
<1>4. \A s : Covered(u, s) = Covered(t, s)
  BY <1>2 DEF Covered
<1> QED
  BY <1>2, <1>3, <1>4 DEF Lines

\* What the rebuilding of the frame leaves behind.
LEMMA RebuildStep ==
  ASSUME NEW t, Sized(t), NEW o \in Nat,
         pool \in Seq({<<>>}), failed \in BOOLEAN,
         ~failed => /\ latest = None => t.damage.full
                    /\ latest # None => latest.damage = "Full"
                    /\ DOMAIN cache.rows \subseteq Nat \ {0},
         RebuildFrame(t, o), pumping' = None
  PROVE  /\ Sized(term') /\ term'.history = t.history /\ term'.primary = t.primary
         /\ term'.alternate = t.alternate /\ term'.alt = t.alt /\ torn' = FALSE
         /\ offset' \in Nat /\ offset' <= Len(t.history)
         /\ offset' = IF o <= Len(t.history) THEN o ELSE Len(t.history)
         /\ altSeen' = t.alt
         /\ pool' \in Seq({<<>>}) /\ failed' \in BOOLEAN
         /\ FramesOK'
<1>1. PICK h \in Nat : h = Len(t.history)
  BY SizedTypes
<1>2. PICK synced : synced = Min({o, h})
  OBVIOUS
<1>3. synced = IF o <= h THEN o ELSE h
  BY <1>2, MinIs
<1>4. synced \in Nat /\ synced <= h
  BY <1>3
<1>5. PICK eff : eff = IF t.alt THEN 0 ELSE synced
  OBVIOUS
<1>6. eff \in Nat /\ eff <= h
  BY <1>4, <1>5
<1>7. Release \in Seq({<<>>})
  BY PoolIs DEF Release, Released
<1>8. PICK spare, left :
        /\ spare = IF Release = <<>> THEN <<>> ELSE Last(Release)
        /\ left = IF Release = <<>> THEN <<>> ELSE Front(Release)
  OBVIOUS
<1>9. spare = <<>> /\ left \in Seq({<<>>})
  <2>1. <<>> \in Seq({<<>>})
    OBVIOUS
  <2> QED
    BY <1>7, <1>8, <2>1, PoolIs
<1>10. /\ altSeen' = t.alt /\ offset' = synced
       /\ term' = [t EXCEPT !.damage = Undamaged]
       /\ \/ latest' = Rebuild(t, eff, spare) /\ pool' = left /\ failed' = failed
          \/ pool' = Append(left, <<>>) /\ failed' = TRUE
       /\ cache' = Stale(cache) /\ torn' = FALSE
  BY <1>1, <1>2, <1>5, <1>8 DEF RebuildFrame
<1>11. /\ Sized(term') /\ term'.history = t.history /\ term'.primary = t.primary
       /\ term'.alternate = t.alternate /\ term'.alt = t.alt
  <2>1. Undamaged \in [full : BOOLEAN, rows : SUBSET Nat]
    BY DEF Undamaged
  <2>2. PICK d \in [full : BOOLEAN, rows : SUBSET Nat] : d = Undamaged
    BY <2>1
  <2>3. t \in Term
    BY SizedTypes
  <2>4. term' = [t EXCEPT !.damage = d]
    BY <1>10, <2>2
  <2>5. /\ term' \in Term /\ term'.history = t.history /\ term'.primary = t.primary
        /\ term'.alternate = t.alternate /\ term'.alt = t.alt
    BY <2>3, <2>4 DEF Term
  <2> QED
    BY <2>5 DEF Sized
<1>12. pool' \in Seq({<<>>}) /\ failed' \in BOOLEAN
  BY <1>9, <1>10, PoolIs
<1>13. FramesOK'
  <2> SUFFICES ASSUME ~failed' PROVE FramesOK'
    BY DEF FramesOK
  <2>1. ~failed /\ latest' = Rebuild(t, eff, <<>>)
    BY <1>9, <1>10
  <2>2. latest' = Painted(Visible(t, h - eff))
    BY <1>1, <1>6, <2>1, RebuildIs
  <2>3. View' = Visible(t, h - eff)
    <3>1. EffectiveOffset' = eff
      BY <1>5, <1>10 DEF EffectiveOffset
    <3>2. TopLine(h)' = h - eff
      <4>1. Max({0, h - eff}) = h - eff
        BY <1>6, MaxIs
      <4> QED
        BY <3>1, <4>1 DEF TopLine
    <3>3. Len(term'.history) = h
      BY <1>1, <1>11
    <3>4. View' = Visible(term', h - eff)
      BY <3>2, <3>3 DEF View, TopLine
    <3> QED
      BY <1>11, <3>4, SameScreens
  <2>4. h - eff \in 0..Len(t.history)
    BY <1>1, <1>6
  <2>5. Visible(t, h - eff) \in Seq(Line)
    BY <2>4, VisibleIs
  <2>6. /\ latest' # None /\ latest' = Painted(View)'
        /\ \E lines \in Seq(Line) : latest' = Painted(lines)
    BY <2>2, <2>3, <2>5, PaintedFrame DEF Painted
  <2>7. DOMAIN cache'.rows \subseteq Nat \ {0}
    BY <1>10, <2>1 DEF Stale
  <2>8. cache'.applied # "latest"
    BY <1>10 DEF Stale
  <2> QED
    BY <2>6, <2>7, <2>8 DEF FramesOK
<1> QED
  BY <1>1, <1>3, <1>4, <1>10, <1>11, <1>12, <1>13

-----------------------------------------------------------------------------
(* Steps.                                                                  *)

LEMMA SpanType ==
  ASSUME NEW s \in Selection
  PROVE  Span(s) \subseteq Nat
<1>1. s.anchor \in Nat /\ s.active \in Nat
  BY DEF Selection
<1>2. Min({s.anchor, s.active}) \in Nat
  BY <1>1, MinIs
<1>3. Max({s.anchor, s.active}) \in Nat
  BY <1>1, MaxIs
<1> QED
  BY <1>2, <1>3 DEF Span

\* Lines that keep their places stay under a selection.
LEMMA SelectionStays ==
  ASSUME NEW t, NEW u, SameIds(t, u), Lines(t) \in Nat, Lines(u) \in Nat,
         NEW s \in Selection, \A line \in Span(s) : line < Lines(t)
  PROVE  (\A line \in Span(s) : line < Lines(u)) /\ Covered(u, s) = Covered(t, s)
<1>1. Span(s) \subseteq Nat
  BY SpanType
<1>2. \A line \in Span(s) : line < Lines(u)
  BY <1>1 DEF SameIds
<1>3. \A line \in Span(s) : LineAt(u, line).id = LineAt(t, line).id
  BY <1>1 DEF SameIds
<1> QED
  BY <1>2, <1>3 DEF Covered

\* The number of lines is the sum of history and screen.
LEMMA LinesType ==
  ASSUME NEW t, Sized(t)
  PROVE  Lines(t) \in Nat /\ Lines(t) = Len(t.history) + Len(t.primary)
<1>1. Len(t.history) \in Nat /\ Len(t.primary) \in Nat
  BY SizedTypes
<1>2. PICK h \in Nat, n \in Nat : h = Len(t.history) /\ n = Len(t.primary)
  BY <1>1
<1>3. Lines(t) = Len(t.history) + Len(t.primary)
  BY DEF Lines
<1>4. h + n \in Nat
  OBVIOUS
<1> QED
  BY <1>2, <1>3, <1>4

\* A published frame is a full one.
LEMMA FullFrames ==
  ASSUME IInv, ~failed, latest # None
  PROVE  latest.damage = "Full"
<1>1. PICK lines \in Seq(Line) : latest = Painted(lines)
  BY DEF IInv, FramesOK
<1> QED
  BY <1>1, PaintedFrame

\* A frame is built outside a pump, or as it ends.
LEMMA Rebuilt ==
  ASSUME IInv, NEW t, Sized(t), NEW o \in Nat, latest = None /\ ~failed => t.damage.full,
         RebuildFrame(t, o), pumping' = None, selection' = None \/ selection' \in Selection,
         lastRows' \in Nat \ {0}
  PROVE  /\ TypesOK' /\ InStep' /\ FramesOK' /\ Held' /\ term'.history = t.history
         /\ Lines(term') = Lines(t) /\ \A s : Covered(term', s) = Covered(t, s)
<1>1. pool \in Seq({<<>>}) /\ failed \in BOOLEAN
  BY DEF IInv, TypesOK
<1>2. ~failed => /\ latest = None => t.damage.full
                 /\ latest # None => latest.damage = "Full"
                 /\ DOMAIN cache.rows \subseteq Nat \ {0}
  BY FullFrames DEF IInv, FramesOK
<1>3. /\ Sized(term') /\ term'.history = t.history /\ term'.primary = t.primary
      /\ term'.alternate = t.alternate /\ term'.alt = t.alt
      /\ offset' \in Nat /\ offset' <= Len(t.history) /\ altSeen' = t.alt
      /\ pool' \in Seq({<<>>}) /\ failed' \in BOOLEAN /\ torn' = FALSE
      /\ FramesOK'
  BY <1>1, <1>2, RebuildStep
<1>4. t.alt \in BOOLEAN
  BY SizedTypes
<1>5. TypesOK'
  BY <1>3, <1>4 DEF TypesOK
<1>6. InStep'
  BY <1>3 DEF InStep
<1>7. Held'
  BY DEF Held
<1> QED
  BY <1>3, <1>5, <1>6, <1>7, SameScreens

\* The selected lines when nothing of the selection changes.
LEMMA FollowsOn ==
  ASSUME IInv, Idle, NEW t, Sized(t), SameIds(term, t),
         t.history = term.history, term'.history = t.history, lastRows' = lastRows,
         Lines(term') = Lines(t), \A s : Covered(term', s) = Covered(t, s),
         selection' = selection, picked' = picked, pumping' = None
  PROVE  Follows'
<1> SUFFICES ASSUME picked # None, selection # None
             PROVE  /\ \A line \in Span(selection) : line < Lines(term') /\ line < Len(term.history) + lastRows
                    /\ Covered(term', selection) = picked
  BY DEF Follows, Within
<1>1. Quiet
  BY DEF Idle, Quiet
<1>2. Within(selection) /\ Covered(term, selection) = picked
  BY <1>1 DEF IInv, Follows
<1>3. selection \in Selection /\ Sized(term)
  BY DEF IInv, TypesOK
<1>4. Lines(term) \in Nat /\ Lines(t) \in Nat
  BY <1>3, LinesType
<1>5. (\A line \in Span(selection) : line < Lines(t)) /\ Covered(t, selection) = Covered(term, selection)
  BY <1>2, <1>3, <1>4, SelectionStays DEF Within
<1> QED
  BY <1>2, <1>5 DEF Within

\* A terminal keeps its own lines in place.
LEMMA SameIdsSelf ==
  ASSUME NEW t, Sized(t)
  PROVE  SameIds(t, t)
<1>1. Lines(t) \in Nat
  BY LinesType
<1> QED
  BY <1>1 DEF SameIds

\* A set of numbers has a least one.
LEMMA LeastNat ==
  ASSUME NEW T, T \subseteq Nat, T # {}
  PROVE  \E n \in T : \A m \in T : n <= m
<1> DEFINE Below == {1..n : n \in T}
           Under == StrictSubsetOrdering(Nat)
<1>1. Below \subseteq FiniteSubsetsOf(Nat)
  <2> SUFFICES ASSUME NEW n \in T PROVE 1..n \in FiniteSubsetsOf(Nat)
    OBVIOUS
  <2>1. IsFiniteSet(1..n)
    BY FS_Interval
  <2> QED
    BY <2>1 DEF FiniteSubsetsOf
<1>2. Below # {} /\ IsWellFoundedOn(Under, FiniteSubsetsOf(Nat))
  BY FS_StrictSubsetOrderingWellFounded
<1>3. PICK x \in Below : \A y \in Below : ~(<<y, x>> \in Under)
  <2> HIDE DEF Below, Under
  <2> QED
    BY <1>1, <1>2, WFMin
<1>4. PICK n \in T : x = 1..n
  OBVIOUS
<1>5. ASSUME NEW m \in T PROVE n <= m
  <2>1. ~(<<1..m, 1..n>> \in Under)
    BY <1>3, <1>4
  <2>2. m < n => 1..m \subseteq 1..n /\ n \in 1..n /\ n \notin 1..m
    OBVIOUS
  <2>3. m < n => 1..m \subseteq 1..n /\ 1..m # 1..n
    BY <2>2
  <2>4. 1..m \in SUBSET Nat /\ 1..n \in SUBSET Nat
    OBVIOUS
  <2>5. ~(m < n)
    BY <2>1, <2>3, <2>4 DEF StrictSubsetOrdering
  <2> QED
    BY <2>5
<1> QED
  BY <1>5

\* A new pane has nothing published, selected or scrolled, and its screen is damaged.
LEMMA InitInv == Init => IInv
<1> SUFFICES ASSUME Init PROVE IInv
  OBVIOUS
<1>1. PICK m : m = Min(Heights)
  OBVIOUS
<1>2. m \in Heights
  <2>1. Heights \in SUBSET Nat /\ Heights # {}
    BY PaneAssumption
  <2>2. \E n \in Heights : \A k \in Heights : n <= k
    BY <2>1, LeastNat
  <2> QED
    BY <1>1, <2>2 DEF Min
<1>3. m \in Nat /\ m >= 1
  BY <1>2, PaneAssumption
<1>4. PICK p : p = [i \in 1..m |-> [id |-> i, version |-> 0]]
  OBVIOUS
<1>5. p \in Seq(Line) /\ Len(p) = m
  <2>1. \A i \in 1..m : [id |-> i, version |-> 0] \in Line
    BY DEF Line
  <2> QED
    BY <1>3, <1>4, <2>1
<1>6. Hidden(m) \in Seq(Line) /\ Len(Hidden(m)) = m
  BY <1>3, HiddenType
<1>7. term = [history |-> <<>>, primary |-> p, alternate |-> Hidden(m), alt |-> FALSE,
              damage |-> [full |-> TRUE, rows |-> {}], next |-> m + 1]
  BY <1>1, <1>4 DEF Init, NewTerm
<1>8. term \in Term
  BY <1>3, <1>5, <1>6, <1>7 DEF Term
<1>9. Sized(term)
  BY <1>3, <1>5, <1>6, <1>7, <1>8, LimitType DEF Sized
<1>10. TypesOK
  <2>1. <<>> \in Seq({<<>>})
    OBVIOUS
  <2>2. lastRows = m /\ torn = FALSE
    BY <1>1 DEF Init
  <2>3. m \in Nat \ {0}
    BY <1>3
  <2>4. lastRows \in Nat \ {0}
    BY <2>2, <2>3
  <2>5. torn \in BOOLEAN
    BY <2>2
  <2> QED
    BY <1>9, <2>1, <2>4, <2>5 DEF TypesOK, Init
<1>11. InStep
  BY <1>7 DEF InStep, Init
<1>12. FramesOK
  BY <1>7 DEF FramesOK, Init
<1>13. Follows /\ Held
  BY DEF Follows, Held, Init
<1> QED
  BY <1>10, <1>11, <1>12, <1>13 DEF IInv

\* A pump begins by noting the lines a scrolled view shows.
LEMMA PumpBeginsStep ==
  ASSUME IInv, PumpBegins
  PROVE  IInv'
<1>1. /\ pumping = None
      /\ UNCHANGED <<term, offset, altSeen, selection, latest, pool, failed, startup, lastRows, torn, picked, cache>>
  BY DEF PumpBegins, pane
<1>2. PICK h \in Nat, n \in Nat : h = Len(term.history) /\ n = Len(term.primary)
  BY SizedTypes DEF IInv, TypesOK
<1>3. Quiet /\ offset \in Nat /\ offset <= h /\ (altSeen <=> term.alt) /\ Sized(term)
  BY <1>1, <1>2 DEF IInv, TypesOK, InStep, Quiet
<1>4. PICK top : top = h - offset
  OBVIOUS
<1>5. top \in Nat /\ top \in 0..h
  BY <1>3, <1>4
<1>6. PICK lines : lines = Visible(term, top)
  OBVIOUS
<1>7. /\ lines \in Seq(Line) /\ Len(lines) = n
      /\ \A r \in 1..n : lines[r] = LineAt(term, top + r - 1)
  BY <1>2, <1>3, <1>5, <1>6, VisibleIs
<1>8. PICK ids : ids = [r \in 1..n |-> lines[r].id]
  OBVIOUS
<1>9. ids \in Seq(Nat)
  <2>1. \A r \in 1..n : lines[r].id \in Nat
    <3>1. \A r \in 1..n : lines[r] \in Line
      BY <1>2, <1>7
    <3>2. \A line \in Line : line.id \in Nat
      BY DEF Line
    <3> QED
      BY <3>1, <3>2
  <2> QED
    BY <1>2, <1>8, <2>1
<1>10. PICK shown : shown = IF offset = 0 THEN <<>> ELSE ids
  OBVIOUS
<1>11. shown \in Seq(Nat)
  <2>1. <<>> \in Seq(Nat)
    OBVIOUS
  <2> QED
    BY <1>9, <1>10, <2>1
<1>12. pumping' = [history |-> h, shown |-> shown, alt |-> term.alt, evicted |-> 0, cleared |-> FALSE,
                   chunks |-> FALSE]
  BY <1>2, <1>4, <1>6, <1>8, <1>10 DEF PumpBegins, Height
<1>13. pumping' \in Begun
  <2>1. term.alt \in BOOLEAN
    BY <1>3, SizedTypes
  <2> QED
    BY <1>2, <1>11, <1>12, <2>1 DEF Begun
<1>14. ~pumping'.chunks /\ Quiet'
  BY <1>12 DEF Quiet
<1>15. TypesOK'
  BY <1>1, <1>13 DEF IInv, TypesOK
<1>16. InStep'
  BY <1>1, <1>3, <1>14 DEF IInv, InStep
<1>17. FramesOK'
  BY <1>1, <1>3, <1>14 DEF IInv, FramesOK, View, TopLine, EffectiveOffset
<1>18. Follows'
  BY <1>1, <1>3, <1>14 DEF IInv, Follows, Within
<1>19. Held'
  <2>1. ASSUME offset # 0 PROVE Kept'
    <3>1. \A r \in 1..n : pumping'.history - offset + r - 1 - pumping'.evicted = top + r - 1
      BY <1>3, <1>4, <1>12
    <3>2. \A r \in 1..n : LineAt(term, top + r - 1).id = pumping'.shown[r]
      BY <1>7, <1>8, <1>10, <1>12, <2>1
    <3>3. /\ offset <= pumping'.history /\ pumping'.history <= h /\ pumping'.evicted = 0
      BY <1>2, <1>3, <1>12
    <3> QED
      BY <1>1, <1>2, <3>1, <3>2, <3>3 DEF Kept, Height
  <2> QED
    BY <1>1, <1>2, <1>12, <2>1 DEF Held
<1> QED
  BY <1>15, <1>16, <1>17, <1>18, <1>19 DEF IInv

\* What the pump remembers after a chunk of output.
LEMMA OutputsPump ==
  ASSUME IInv, NEW t, NEW kind, Outputs(t, kind)
  PROVE  /\ pumping # None /\ pumping \in Begun /\ pumping' # None /\ pumping' \in Begun
         /\ pumping'.chunks
         /\ pumping'.history = pumping.history /\ pumping'.shown = pumping.shown
         /\ (pumping'.alt <=> pumping.alt)
         /\ (pumping'.cleared <=> pumping.cleared \/ kind \in {"clear", "switch"})
         /\ pumping'.evicted = pumping.evicted + (IF kind = "scroll" /\ ~t.alt /\ Len(term.history) = MaxLines
                                                  THEN 1 ELSE 0)
<1>1. pumping # None
  BY DEF Outputs
<1>2. pumping \in Begun
  BY <1>1 DEF IInv, TypesOK
<1>3. PICK d \in {0, 1} : d = IF kind = "scroll" /\ ~t.alt /\ Len(term.history) = MaxLines THEN 1 ELSE 0
  OBVIOUS
<1>4. PICK c \in BOOLEAN : c <=> (pumping.cleared \/ kind \in {"clear", "switch"})
  OBVIOUS
<1>5. PICK e : e = pumping.evicted + d
  OBVIOUS
<1>6. e \in Nat
  BY <1>2, <1>5 DEF Begun
<1>7. pumping' = [pumping EXCEPT !.chunks = TRUE, !.cleared = c, !.evicted = e]
  BY <1>2, <1>3, <1>4, <1>5 DEF Outputs, Begun
<1>8. /\ pumping' \in Begun /\ pumping'.chunks
      /\ pumping'.history = pumping.history /\ pumping'.shown = pumping.shown
      /\ pumping'.alt = pumping.alt /\ pumping'.cleared = c /\ pumping'.evicted = e
  BY <1>2, <1>6, <1>7 DEF Begun
<1>9. pumping' # None
  BY <1>8, PaneAssumption
<1> QED
  BY <1>1, <1>2, <1>3, <1>4, <1>5, <1>8, <1>9

\* What every chunk of output leaves as it was.
LEMMA OutputsStep ==
  ASSUME IInv, NEW t, Sized(t), NEW kind, Outputs(t, kind), latest = None /\ ~failed => t.damage.full
  PROVE  /\ TypesOK' /\ InStep' /\ FramesOK' /\ ~Quiet'
         /\ term' = t /\ offset' = offset /\ selection' = selection /\ lastRows' = lastRows
         /\ picked' = IF kind \in {"clear", "switch"} \/ (kind = "scroll" /\ t.alt) THEN None ELSE picked
<1>1. /\ term' = t
      /\ UNCHANGED <<offset, altSeen, selection, latest, pool, failed, startup, lastRows, torn, cache>>
      /\ picked' = IF kind \in {"clear", "switch"} \/ (kind = "scroll" /\ t.alt) THEN None ELSE picked
  BY DEF Outputs
<1>2. pumping' \in Begun /\ pumping' # None /\ pumping'.chunks
  BY OutputsPump
<1>3. ~Quiet'
  BY <1>2 DEF Quiet
<1>4. TypesOK'
  BY <1>1, <1>2 DEF IInv, TypesOK
<1>5. InStep' /\ FramesOK'
  BY <1>1, <1>3 DEF IInv, InStep, FramesOK
<1> QED
  BY <1>1, <1>3, <1>4, <1>5

\* Rows that stay in their places keep the lines of a scrolled view.
LEMMA KeptInPlace ==
  ASSUME Sized(term), Sized(term'), SameIds(term, term'), Kept, pumping \in Begun,
         offset \in Nat, offset' = offset, offset # 0, Len(term'.primary) = Len(term.primary),
         Len(term.history) <= Len(term'.history),
         pumping.evicted # 0 => Len(term'.history) = MaxLines,
         pumping'.history = pumping.history, pumping'.shown = pumping.shown,
         pumping'.evicted = pumping.evicted
  PROVE  Kept'
<1>1. PICK h \in Nat, n \in Nat, k \in Nat : h = Len(term.history) /\ n = Len(term.primary) /\ k = Len(term'.history)
  BY SizedTypes
<1>2. PICK b \in Nat, e \in Nat, o \in Nat : b = pumping.history /\ e = pumping.evicted /\ o = offset
  BY DEF Begun
<1>3. o <= b /\ b <= h /\ h <= k /\ o >= 1
  BY <1>1, <1>2 DEF Kept
<1>4. Lines(term) = h + n
  BY <1>1, LinesType
<1>5. ASSUME NEW r \in 1..n, b - o + r - 1 - e >= 0
      PROVE  LineAt(term', b - o + r - 1 - e).id = pumping.shown[r]
  <2>1. b - o + r - 1 - e \in Nat /\ b - o + r - 1 - e < h + n
    BY <1>3, <1>5
  <2>2. LineAt(term, b - o + r - 1 - e).id = pumping.shown[r]
    BY <1>1, <1>2, <1>5 DEF Kept, Height
  <2>3. LineAt(term', b - o + r - 1 - e).id = LineAt(term, b - o + r - 1 - e).id
    BY <1>4, <2>1 DEF SameIds
  <2> QED
    BY <2>2, <2>3
<1>6. b <= k
  BY <1>3
<1> QED
  BY <1>1, <1>2, <1>3, <1>5, <1>6 DEF Kept, Height

\* At the limit of the history the rows are one further up.
LEMMA KeptMoved ==
  ASSUME Sized(term), Sized(term'), MovedUp(term, term'), Kept, pumping \in Begun,
         offset \in Nat, offset' = offset, offset # 0, Len(term'.primary) = Len(term.primary),
         Len(term.history) = MaxLines, Len(term'.history) = MaxLines,
         pumping'.history = pumping.history, pumping'.shown = pumping.shown,
         pumping'.evicted = pumping.evicted + 1
  PROVE  Kept'
<1>1. PICK h \in Nat, n \in Nat : h = Len(term.history) /\ n = Len(term.primary) /\ h = Len(term'.history)
  BY SizedTypes
<1>2. PICK b \in Nat, e \in Nat, o \in Nat : b = pumping.history /\ e = pumping.evicted /\ o = offset
  BY DEF Begun
<1>3. o <= b /\ b <= h /\ o >= 1
  BY <1>1, <1>2 DEF Kept
<1>4. Lines(term) = h + n
  BY <1>1, LinesType
<1>5. ASSUME NEW r \in 1..n, b - o + r - 1 - (e + 1) >= 0
      PROVE  LineAt(term', b - o + r - 1 - (e + 1)).id = pumping.shown[r]
  <2>1. PICK k : k = b - o + r - 1 - (e + 1)
    OBVIOUS
  <2>2. k \in Nat /\ k + 1 < h + n /\ k + 1 = b - o + r - 1 - e /\ b - o + r - 1 - e >= 0
    BY <1>3, <1>5, <2>1
  <2>3. LineAt(term, b - o + r - 1 - e).id = pumping.shown[r]
    BY <1>1, <1>2, <2>2 DEF Kept, Height
  <2>4. LineAt(term', k).id = LineAt(term, k + 1).id
    BY <1>4, <2>2 DEF MovedUp
  <2> QED
    BY <2>1, <2>2, <2>3, <2>4
<1> QED
  BY <1>1, <1>2, <1>3, <1>5 DEF Kept, Height

\* A line feed keeps the lines in place, or at the limit moves them up by the one
\* that is dropped, and the pump counts it.
LEMMA LineFeedStep ==
  ASSUME IInv, LineFeed
  PROVE  IInv'
<1>1. PICK t : t = ScrollOne(term)
  OBVIOUS
<1>2. Sized(term) /\ offset \in Nat /\ (selection = None \/ selection \in Selection)
  BY DEF IInv, TypesOK
<1>3. /\ Sized(t) /\ t.damage.full /\ t.alt = term.alt /\ Len(t.primary) = Len(term.primary)
      /\ ~term.alt /\ Len(term.history) < MaxLines =>
           SameIds(term, t) /\ Len(t.history) = Len(term.history) + 1
      /\ ~term.alt /\ ~(Len(term.history) < MaxLines) =>
           Len(term.history) = MaxLines /\ MovedUp(term, t) /\ Len(t.history) = MaxLines
  BY <1>1, <1>2, ScrollOneIs
<1>4. Outputs(t, "scroll")
  BY <1>1 DEF LineFeed
<1>5. PICK d \in {0, 1} : d = IF ~term.alt /\ Len(term.history) = MaxLines THEN 1 ELSE 0
  OBVIOUS
<1>6. /\ pumping # None /\ pumping \in Begun /\ pumping' # None
      /\ TypesOK' /\ InStep' /\ FramesOK' /\ ~Quiet' /\ pumping'.chunks
      /\ term' = t /\ offset' = offset /\ selection' = selection /\ lastRows' = lastRows
      /\ pumping'.history = pumping.history /\ pumping'.shown = pumping.shown
      /\ (pumping'.alt <=> pumping.alt)
      /\ (pumping'.cleared <=> pumping.cleared)
      /\ pumping'.evicted = pumping.evicted + d
      /\ picked' = IF term.alt THEN None ELSE picked
  BY <1>3, <1>4, <1>5, OutputsStep, OutputsPump
<1>7. Follows'
  <2> SUFFICES ASSUME ~term.alt, picked # None, selection # None, ~(Len(t.history) >= MaxLines)
               PROVE  /\ \A line \in Span(selection) : line < Lines(t) /\ line < Len(t.history) + lastRows
                      /\ Covered(t, selection) = picked
    BY <1>6 DEF Follows, Within
  <2>1. Len(term.history) \in Nat /\ Len(term.history) < MaxLines
    BY <1>2, <1>3, LimitType, SizedTypes
  <2>2. Within(selection) /\ Covered(term, selection) = picked
    BY <2>1, LimitType DEF IInv, Follows
  <2>3. Lines(term) \in Nat /\ Lines(t) \in Nat
    BY <1>2, <1>3, LinesType
  <2>4. (\A line \in Span(selection) : line < Lines(t)) /\ Covered(t, selection) = Covered(term, selection)
    BY <1>2, <1>3, <2>1, <2>2, <2>3, SelectionStays DEF Within
  <2>5. \A line \in Span(selection) : line < Len(t.history) + lastRows
    <3>1. PICK h \in Nat, k \in Nat : h = Len(term.history) /\ k = lastRows /\ Len(t.history) = h + 1
      BY <1>3, <2>1 DEF IInv, TypesOK
    <3>2. \A line \in Span(selection) : line \in Nat /\ line < h + k
      BY <1>2, <2>2, <3>1, SpanType DEF Within
    <3> QED
      BY <3>1, <3>2
  <2> QED
    BY <2>2, <2>4, <2>5
<1>8. Held'
  <2>1. ~pumping.cleared => (term'.alt <=> pumping.alt)
    BY <1>3, <1>6 DEF IInv, Held
  <2>2. ASSUME ~pumping.cleared, ~pumping.alt, offset # 0 PROVE Kept'
    <3>1. Kept /\ ~term.alt
      BY <1>6, <2>2 DEF IInv, Held
    <3>2. Sized(term') /\ Len(term'.primary) = Len(term.primary)
      BY <1>3, <1>6
    <3>3. CASE Len(term.history) < MaxLines
      <4>1. Len(term.history) \in Nat /\ pumping.evicted \in Nat /\ d = 0
        BY <1>2, <1>5, <1>6, <3>3, LimitType, SizedTypes DEF Begun
      <4>2. pumping.evicted = 0
        BY <3>1, <3>3, <4>1, LimitType DEF Kept
      <4>3. SameIds(term, term') /\ Len(term.history) <= Len(term'.history)
        BY <1>3, <1>6, <3>1, <3>3, <4>1
      <4>4. pumping'.evicted = pumping.evicted
        BY <1>6, <4>1
      <4> QED
        BY <1>2, <1>6, <2>2, <3>1, <3>2, <4>2, <4>3, <4>4, KeptInPlace
    <3>4. CASE ~(Len(term.history) < MaxLines)
      <4>1. Len(term.history) = MaxLines /\ MovedUp(term, term') /\ Len(term'.history) = MaxLines
        BY <1>3, <1>6, <3>1, <3>4
      <4>2. pumping'.evicted = pumping.evicted + 1
        BY <1>5, <1>6, <3>1, <4>1
      <4> QED
        BY <1>2, <1>6, <2>2, <3>1, <3>2, <4>1, <4>2, KeptMoved
    <3> QED
      BY <3>3, <3>4
  <2> QED
    BY <1>6, <2>1, <2>2 DEF Held
<1> QED
  BY <1>6, <1>7, <1>8 DEF IInv

\* A rewritten line stays in its place.
LEMMA RedrawStep ==
  ASSUME IInv, Redraw
  PROVE  IInv'
<1>1. PICK r \in 1..Len(term.primary) : Outputs(Rewrite(term, r), "rewrite")
  BY DEF Redraw, Rewritable, Height
<1>2. PICK t : t = Rewrite(term, r)
  OBVIOUS
<1>3. Sized(term) /\ offset \in Nat /\ (selection = None \/ selection \in Selection)
  BY DEF IInv, TypesOK
<1>4. /\ Sized(t) /\ (t.damage.full <=> term.damage.full) /\ t.alt = term.alt
      /\ t.history = term.history /\ Len(t.primary) = Len(term.primary) /\ SameIds(term, t)
  BY <1>2, <1>3, RewriteIs
<1>5. latest = None /\ ~failed => t.damage.full
  BY <1>4 DEF IInv, FramesOK
<1>6. Outputs(t, "rewrite")
  BY <1>1, <1>2
<1>7. /\ pumping # None /\ pumping \in Begun /\ pumping' # None
      /\ TypesOK' /\ InStep' /\ FramesOK' /\ ~Quiet' /\ pumping'.chunks
      /\ term' = t /\ offset' = offset /\ selection' = selection /\ lastRows' = lastRows
      /\ pumping'.history = pumping.history /\ pumping'.shown = pumping.shown
      /\ (pumping'.alt <=> pumping.alt)
      /\ (pumping'.cleared <=> pumping.cleared)
      /\ pumping'.evicted = pumping.evicted + 0
      /\ picked' = picked
  BY <1>4, <1>5, <1>6, OutputsStep, OutputsPump
<1>8. pumping'.evicted = pumping.evicted
  BY <1>7 DEF Begun
<1>9. Follows'
  <2> SUFFICES ASSUME picked # None, selection # None, ~(Len(t.history) >= MaxLines)
               PROVE  /\ \A line \in Span(selection) : line < Lines(t) /\ line < Len(t.history) + lastRows
                      /\ Covered(t, selection) = picked
    BY <1>7 DEF Follows, Within
  <2>1. Within(selection) /\ Covered(term, selection) = picked
    BY <1>4 DEF IInv, Follows
  <2>2. Lines(term) \in Nat /\ Lines(t) \in Nat
    BY <1>3, <1>4, LinesType
  <2>3. (\A line \in Span(selection) : line < Lines(t)) /\ Covered(t, selection) = Covered(term, selection)
    BY <1>3, <1>4, <2>1, <2>2, SelectionStays DEF Within
  <2> QED
    BY <1>4, <2>1, <2>3 DEF Within
<1>10. Held'
  <2>1. ~pumping.cleared => (term'.alt <=> pumping.alt)
    BY <1>4, <1>7 DEF IInv, Held
  <2>2. ASSUME ~pumping.cleared, ~pumping.alt, offset # 0 PROVE Kept'
    <3>1. Kept
      BY <1>7, <2>2 DEF IInv, Held
    <3>2. /\ Sized(term') /\ Len(term'.primary) = Len(term.primary) /\ SameIds(term, term')
          /\ Len(term.history) <= Len(term'.history) /\ term'.history = term.history
      BY <1>3, <1>4, <1>7, SizedTypes
    <3>3. pumping.evicted # 0 => Len(term'.history) = MaxLines
      BY <3>1, <3>2 DEF Kept
    <3> QED
      BY <1>3, <1>7, <1>8, <2>2, <3>1, <3>2, <3>3, KeptInPlace
  <2> QED
    BY <1>7, <2>1, <2>2 DEF Held
<1> QED
  BY <1>7, <1>9, <1>10 DEF IInv

\* Output that clears: the selection's lines and the view's are given up.
LEMMA ClearedStep ==
  ASSUME IInv, NEW t, Sized(t), t.damage.full, NEW kind \in {"clear", "switch"}, Outputs(t, kind)
  PROVE  IInv'
<1>1. /\ TypesOK' /\ InStep' /\ FramesOK' /\ pumping' # None /\ pumping'.chunks /\ pumping'.cleared
      /\ picked' = None
  BY OutputsStep, OutputsPump
<1>2. Follows' /\ Held'
  BY <1>1 DEF Follows, Held
<1> QED
  BY <1>1, <1>2 DEF IInv

\* A scrolled view goes as far back as the history grew.
LEMMA NoteGrowthIs ==
  ASSUME NEW o \in Nat, NEW before \in Nat, NEW after \in Nat
  PROVE  /\ NoteGrowth(o, before, after) \in Nat
         /\ o # 0 /\ o <= before /\ before <= after => NoteGrowth(o, before, after) = o + (after - before)
<1>1. PICK g : g = Max({0, after - before})
  OBVIOUS
<1>2. g = IF 0 >= after - before THEN 0 ELSE after - before
  BY <1>1, MaxIs
<1>3. PICK m : m = Min({o + g, after})
  OBVIOUS
<1>4. m = IF o + g <= after THEN o + g ELSE after
  <2>1. o + g \in Int
    BY <1>2
  <2> QED
    BY <1>3, <2>1, MinIs
<1>5. NoteGrowth(o, before, after) = IF o = 0 THEN 0 ELSE m
  BY <1>1, <1>3 DEF NoteGrowth
<1> QED
  BY <1>2, <1>4, <1>5

\* A selection that survives the output is as it was.
LEMMA SurvivingIs ==
  ASSUME NEW t, Sized(t), lastRows \in Nat \ {0}, selection = None \/ selection \in Selection
  PROVE  /\ Surviving(t) = None \/ Surviving(t) \in Selection
         /\ Surviving(t) # None =>
              /\ selection # None /\ Len(t.history) < MaxLines
              /\ (\A line \in Span(selection) : line < Len(t.history) + lastRows) => Surviving(t) = selection
<1> SUFFICES ASSUME Surviving(t) # None
             PROVE  /\ Surviving(t) \in Selection /\ selection # None /\ Len(t.history) < MaxLines
                    /\ (\A line \in Span(selection) : line < Len(t.history) + lastRows)
                         => Surviving(t) = selection
  OBVIOUS
<1>1. PICK h \in Nat, n \in Nat : h = Len(t.history) /\ n = lastRows /\ n >= 1
  BY SizedTypes
<1>2. PICK last : last = h + n - 1
  OBVIOUS
<1>3. last \in Nat /\ h + n = last + 1
  <2>1. n >= 1
    BY <1>1
  <2> QED
    BY <1>2, <2>1
<1>4. /\ selection # None /\ ~(MaxLines > 0 /\ h >= MaxLines)
      /\ Surviving(t) = [anchor |-> Min({selection.anchor, last}), active |-> Min({selection.active, last})]
  BY <1>1, <1>2 DEF Surviving
<1>5. PICK a \in Nat, b \in Nat : selection = [anchor |-> a, active |-> b]
  BY <1>4 DEF Selection
<1>6. Min({a, last}) = IF a <= last THEN a ELSE last
  BY <1>3, MinIs
<1>7. Min({b, last}) = IF b <= last THEN b ELSE last
  BY <1>3, MinIs
<1>8. Surviving(t) = [anchor |-> Min({a, last}), active |-> Min({b, last})]
  BY <1>4, <1>5
<1>9. Surviving(t) \in Selection
  BY <1>3, <1>6, <1>7, <1>8 DEF Selection
<1>10. ASSUME \A line \in Span(selection) : line < h + n PROVE Surviving(t) = selection
  <2>1. Span(selection) = Min({a, b})..Max({a, b})
    BY <1>5 DEF Span
  <2>2. Min({a, b}) = IF a <= b THEN a ELSE b
    BY MinIs
  <2>3. Max({a, b}) = IF a >= b THEN a ELSE b
    BY MaxIs
  <2>4. a \in Span(selection) /\ b \in Span(selection)
    BY <2>1, <2>2, <2>3
  <2>5. a <= last /\ b <= last
    BY <1>3, <1>10, <2>4
  <2> QED
    BY <1>5, <1>6, <1>7, <1>8, <2>5
<1> QED
  BY <1>1, <1>4, <1>9, <1>10, LimitType

\* A pump that ends publishes the view, and the selection is in place or forgotten.
LEMMA PumpEndsStep ==
  ASSUME IInv, PumpEnds
  PROVE  IInv'
<1>1. pumping # None /\ pumping' = None /\ pumping \in Begun
  BY DEF PumpEnds, IInv, TypesOK
<1>2. /\ Sized(term) /\ offset \in Nat /\ (selection = None \/ selection \in Selection)
      /\ lastRows \in Nat \ {0}
  BY DEF IInv, TypesOK
<1>3. CASE ~pumping.chunks
  <2>1. /\ Quiet /\ Quiet'
        /\ UNCHANGED <<term, offset, altSeen, selection, latest, pool, failed, startup, lastRows, torn, picked, cache>>
    BY <1>1, <1>3 DEF PumpEnds, pane, Quiet
  <2>2. TypesOK' /\ InStep'
    BY <1>1, <2>1 DEF IInv, TypesOK, InStep
  <2>3. FramesOK'
    BY <2>1 DEF IInv, FramesOK, View, TopLine, EffectiveOffset
  <2>4. Follows'
    BY <2>1 DEF IInv, Follows, Within
  <2>5. Held'
    BY <1>1 DEF Held
  <2> QED
    BY <2>2, <2>3, <2>4, <2>5 DEF IInv
<1>4. CASE pumping.chunks
  <2>1. PICK h \in Nat : h = Len(term.history)
    BY <1>2, SizedTypes
  <2>2. PICK b \in Nat : b = pumping.history
    BY <1>1 DEF Begun
  <2>3. PICK g : g = NoteGrowth(offset, b, h)
    OBVIOUS
  <2>4. g \in Nat
    BY <1>2, <2>3, NoteGrowthIs
  <2>5. PICK o : o = Min({g, h})
    OBVIOUS
  <2>6. o \in Nat
    BY <2>4, <2>5, MinIs
  <2>7. /\ selection' = Surviving(term)
        /\ picked' = IF Surviving(term) = None THEN None ELSE picked
        /\ RebuildFrame(term, o) /\ lastRows' = lastRows
    BY <1>1, <1>4, <2>1, <2>2, <2>3, <2>5 DEF PumpEnds
  <2>8. /\ Surviving(term) = None \/ Surviving(term) \in Selection
        /\ Surviving(term) # None =>
             /\ selection # None /\ h < MaxLines
             /\ (\A line \in Span(selection) : line < Len(term.history) + lastRows) => Surviving(term) = selection
    BY <1>2, <2>1, SurvivingIs
  <2>9. latest = None /\ ~failed => term.damage.full
    BY DEF IInv, FramesOK
  <2>10. /\ TypesOK' /\ InStep' /\ FramesOK' /\ Held' /\ term'.history = term.history
         /\ Lines(term') = Lines(term) /\ \A s : Covered(term', s) = Covered(term, s)
    BY <1>1, <1>2, <2>6, <2>7, <2>8, <2>9, Rebuilt
  <2>11. Follows'
    <3> SUFFICES ASSUME picked' # None, selection' # None
                 PROVE  /\ \A line \in Span(selection') : line < Lines(term') /\ line < Len(term'.history) + lastRows'
                        /\ Covered(term', selection') = picked'
      BY DEF Follows, Within
    <3>1. selection # None /\ h < MaxLines /\ picked' = picked
      BY <2>7, <2>8
    <3>2. Within(selection) /\ Covered(term, selection) = picked
      BY <2>1, <3>1, LimitType DEF IInv, Follows
    <3>3. selection' = selection
      BY <2>7, <2>8, <3>2 DEF Within
    <3> QED
      BY <2>7, <2>10, <3>1, <3>2, <3>3 DEF Within
  <2> QED
    BY <2>10, <2>11 DEF IInv
<1> QED
  BY <1>3, <1>4

\* Dismissing the startup picture publishes the cleared screen.
LEMMA DismissFetchStep ==
  ASSUME IInv, DismissFetch
  PROVE  IInv'
<1>1. PICK t : t = ClearSaved(ClearAll(term))
  OBVIOUS
<1>2. Sized(t) /\ t.damage.full
  <2>1. Sized(ClearAll(term))
    BY ClearAllIs DEF IInv, TypesOK
  <2> QED
    BY <1>1, <2>1, ClearSavedIs
<1>3. /\ RebuildFrame(t, offset) /\ pumping' = None /\ picked' = None /\ selection' = selection
      /\ lastRows' = lastRows
  BY <1>1 DEF DismissFetch, Idle
<1>4. offset \in Nat /\ (selection = None \/ selection \in Selection) /\ lastRows \in Nat \ {0}
  BY DEF IInv, TypesOK
<1>5. TypesOK' /\ InStep' /\ FramesOK' /\ Held'
  BY <1>2, <1>3, <1>4, Rebuilt
<1>6. Follows'
  BY <1>3 DEF Follows
<1> QED
  BY <1>5, <1>6 DEF IInv

\* A frame is built while nothing is read, over lines that keep their places.
LEMMA IdleStep ==
  ASSUME IInv, Idle, NEW t, Sized(t), SameIds(term, t), NEW o \in Nat, latest = None /\ ~failed => t.damage.full,
         t.history = term.history,
         RebuildFrame(t, o), pumping' = None, selection' = selection, picked' = picked, lastRows' = lastRows
  PROVE  IInv'
<1>1. (selection' = None \/ selection' \in Selection) /\ lastRows' \in Nat \ {0}
  BY DEF IInv, TypesOK
<1>2. /\ TypesOK' /\ InStep' /\ FramesOK' /\ Held' /\ term'.history = t.history
      /\ Lines(term') = Lines(t) /\ \A s : Covered(term', s) = Covered(t, s)
  BY <1>1, Rebuilt
<1>3. Follows'
  BY <1>2, FollowsOn
<1> QED
  BY <1>2, <1>3 DEF IInv

\* A tick of the startup animation publishes the rewritten screen.
LEMMA TickAnimationStep ==
  ASSUME IInv, TickAnimation
  PROVE  IInv'
<1>1. Idle /\ pumping' = None /\ selection' = selection /\ picked' = picked /\ lastRows' = lastRows
  BY DEF TickAnimation, Idle
<1>2. PICK r \in 1..Len(term.primary) : RebuildFrame(Rewrite(term, r), offset)
  BY DEF TickAnimation, Rewritable, Height
<1>3. PICK t : t = Rewrite(term, r)
  OBVIOUS
<1>4. Sized(term) /\ offset \in Nat
  BY DEF IInv, TypesOK
<1>5. Sized(t) /\ (t.damage.full <=> term.damage.full) /\ SameIds(term, t) /\ t.history = term.history
  BY <1>3, <1>4, RewriteIs
<1>6. latest = None /\ ~failed => t.damage.full
  BY <1>5 DEF IInv, FramesOK
<1>7. RebuildFrame(t, offset)
  BY <1>2, <1>3
<1> QED
  BY <1>1, <1>4, <1>5, <1>6, <1>7, IdleStep

\* The viewport is scrolled.
LEMMA ScrollStep ==
  ASSUME IInv, ScrollUp \/ ScrollDown
  PROVE  IInv'
<1>1. Idle /\ pumping' = None /\ selection' = selection /\ picked' = picked /\ lastRows' = lastRows
  BY DEF ScrollUp, ScrollDown, Idle
<1>2. Sized(term) /\ offset \in Nat
  BY DEF IInv, TypesOK
<1>3. PICK h \in Nat : h = Len(term.history)
  BY <1>2, SizedTypes
<1>4. PICK o \in Nat : RebuildFrame(term, o)
  <2>1. Min({offset + 1, h}) \in Nat
    <3>1. offset + 1 \in Nat
      BY <1>2
    <3> QED
      BY <3>1, MinIs
  <2>2. Max({0, offset - 1}) \in Nat
    <3>1. offset - 1 \in Int
      BY <1>2
    <3> QED
      BY <3>1, MaxIs
  <2> QED
    BY <1>2, <1>3, <2>1, <2>2 DEF ScrollUp, ScrollDown
<1>5. latest = None /\ ~failed => term.damage.full
  BY DEF IInv, FramesOK
<1>6. SameIds(term, term)
  BY <1>2, SameIdsSelf
<1> QED
  BY <1>1, <1>2, <1>4, <1>5, <1>6, IdleStep

\* The viewport begins in the history or right behind it.
LEMMA TopLineIs ==
  ASSUME IInv, Quiet
  PROVE  /\ TopLine(Len(term.history)) \in 0..Len(term.history)
         /\ ~term.alt => TopLine(Len(term.history)) = Len(term.history) - offset
<1>1. PICK h \in Nat : h = Len(term.history)
  BY SizedTypes DEF IInv, TypesOK
<1>2. offset \in Nat /\ offset <= h /\ (altSeen <=> term.alt)
  BY <1>1 DEF IInv, TypesOK, InStep
<1>3. PICK eff : eff = EffectiveOffset
  OBVIOUS
<1>4. eff = IF term.alt THEN 0 ELSE offset
  BY <1>2, <1>3 DEF EffectiveOffset
<1>5. Max({0, h - eff}) = h - eff
  BY <1>2, <1>4, MaxIs
<1>6. TopLine(h) = h - eff
  BY <1>3, <1>5 DEF TopLine
<1>7. h - eff \in 0..h
  BY <1>2, <1>4
<1> QED
  BY <1>1, <1>4, <1>6, <1>7

\* The lines that are followed are lines of the terminal, at the height the pane takes it to have.
LEMMA FollowingIs ==
  ASSUME Sized(term), lastRows \in Nat \ {0}, NEW s \in Selection, Following(s) # None
  PROVE  Within(s) /\ Following(s) = Covered(term, s)
<1>1. PICK h \in Nat, n \in Nat, k \in Nat :
        h = Len(term.history) /\ n = Len(term.primary) /\ k = lastRows
  BY SizedTypes
<1>2. Min({n, k}) = IF n <= k THEN n ELSE k
  BY MinIs
<1>3. /\ \A line \in Span(s) : line < h + Min({n, k})
      /\ Following(s) = Covered(term, s)
  BY <1>1 DEF Following, Height
<1>4. \A line \in Span(s) : line \in Nat /\ line < h + n /\ line < h + k
  BY <1>2, <1>3, SpanType
<1>5. Lines(term) = h + n
  BY <1>1, LinesType
<1> QED
  BY <1>1, <1>3, <1>4, <1>5 DEF Within

\* A selection that is made or moved is followed, or given up.
LEMMA PickedStep ==
  ASSUME IInv, RebuildFrame(term, offset), pumping' = None, lastRows' = lastRows,
         selection' \in Selection, picked' = Following(selection')
  PROVE  IInv'
<1>1. Sized(term) /\ offset \in Nat /\ lastRows \in Nat \ {0}
  BY DEF IInv, TypesOK
<1>2. latest = None /\ ~failed => term.damage.full
  BY DEF IInv, FramesOK
<1>3. /\ TypesOK' /\ InStep' /\ FramesOK' /\ Held' /\ term'.history = term.history
      /\ Lines(term') = Lines(term) /\ \A s : Covered(term', s) = Covered(term, s)
  BY <1>1, <1>2, Rebuilt
<1>4. Follows'
  <2> SUFFICES ASSUME picked' # None
               PROVE  /\ \A line \in Span(selection') : line < Lines(term') /\ line < Len(term'.history) + lastRows'
                      /\ Covered(term', selection') = picked'
    BY DEF Follows, Within
  <2>1. PICK s \in Selection : s = selection'
    OBVIOUS
  <2>2. Within(s) /\ Following(s) = Covered(term, s)
    BY <1>1, <2>1, FollowingIs
  <2> QED
    BY <1>3, <2>1, <2>2 DEF Within
<1> QED
  BY <1>3, <1>4 DEF IInv

\* A selection begins on a line of the view.
LEMMA SelectStep ==
  ASSUME IInv, Select
  PROVE  IInv'
<1>1. /\ Quiet /\ pumping' = None /\ RebuildFrame(term, offset) /\ picked' = Following(selection')
      /\ lastRows' = lastRows
  BY DEF Select, Idle, Quiet
<1>2. PICK h \in Nat, n \in Nat : h = Len(term.history) /\ n = lastRows
  BY SizedTypes DEF IInv, TypesOK
<1>3. PICK top : top = TopLine(h)
  OBVIOUS
<1>4. top \in 0..h
  BY <1>1, <1>2, <1>3, TopLineIs
<1>5. PICK r \in 1..n : selection' = [anchor |-> top + r - 1, active |-> top + r - 1]
  BY <1>2, <1>3 DEF Select
<1>6. top + r - 1 \in Nat
  BY <1>4, RowPlace
<1>7. selection' \in Selection
  BY <1>5, <1>6 DEF Selection
<1> QED
  BY <1>1, <1>7, PickedStep

\* A selection that is dragged ends on a line of the view.
LEMMA DragStep ==
  ASSUME IInv, Drag
  PROVE  IInv'
<1>1. /\ Quiet /\ pumping' = None /\ RebuildFrame(term, offset) /\ selection # None
      /\ picked' = Following(selection') /\ lastRows' = lastRows
  BY DEF Drag, Idle, Quiet
<1>2. PICK h \in Nat, n \in Nat : h = Len(term.history) /\ n = lastRows /\ selection \in Selection
  BY <1>1, SizedTypes DEF IInv, TypesOK
<1>3. PICK top : top = TopLine(h)
  OBVIOUS
<1>4. top \in 0..h
  BY <1>1, <1>2, <1>3, TopLineIs
<1>5. PICK r \in 1..n : selection' = [selection EXCEPT !.active = top + r - 1]
  BY <1>2, <1>3 DEF Drag
<1>6. top + r - 1 \in Nat
  BY <1>4, RowPlace
<1>7. selection' \in Selection
  BY <1>2, <1>5, <1>6 DEF Selection
<1> QED
  BY <1>1, <1>7, PickedStep

\* Nothing is selected after the selection is dropped.
LEMMA DeselectStep ==
  ASSUME IInv, Deselect
  PROVE  IInv'
<1>1. RebuildFrame(term, offset) /\ pumping' = None /\ selection' = None /\ lastRows' = lastRows
  BY DEF Deselect, Idle
<1>2. Sized(term) /\ offset \in Nat /\ lastRows \in Nat \ {0}
  BY DEF IInv, TypesOK
<1>3. latest = None /\ ~failed => term.damage.full
  BY DEF IInv, FramesOK
<1>4. TypesOK' /\ InStep' /\ FramesOK' /\ Held'
  BY <1>1, <1>2, <1>3, Rebuilt
<1>5. Follows'
  BY <1>1 DEF Follows
<1> QED
  BY <1>4, <1>5 DEF IInv

\* A resize keeps both screens of a height and damages all of them.
LEMMA ResizedIs ==
  ASSUME IInv, NEW n \in Heights, NEW back \in MayComeBack(term, n), NEW t, t = ResizeTo(term, n, back)
  PROVE  /\ Sized(t) /\ t.damage.full /\ t.alt = term.alt /\ n \in Nat \ {0}
         /\ Min({offset, Len(t.history)}) \in Nat /\ Min({offset, Len(t.history)}) <= Len(t.history)
<1>1. n \in Nat /\ n >= 1
  BY PaneAssumption
<1>2. Sized(term) /\ offset \in Nat
  BY DEF IInv, TypesOK
<1>3. Sized(t) /\ t.damage.full
  BY <1>1, <1>2, ResizeIs
<1>4. PICK k \in Nat : k = Len(t.history)
  BY <1>3, SizedTypes
<1>5. Min({offset, k}) = IF offset <= k THEN offset ELSE k
  BY <1>2, MinIs
<1>6. t.alt = term.alt
  <2>1. term \in Term
    BY <1>2, SizedTypes
  <2> QED
    BY <2>1 DEF ResizeTo, MarkFull, Term
<1> QED
  BY <1>1, <1>2, <1>3, <1>4, <1>5, <1>6

\* A resize drops the selection and publishes the view.
LEMMA CommitGeometryStep ==
  ASSUME IInv, CommitGeometry
  PROVE  IInv'
<1>1. pumping' = None /\ selection' = None
  BY DEF CommitGeometry, Idle
<1>2. PICK n \in Heights : \E back \in MayComeBack(term, n) :
        /\ RebuildFrame(ResizeTo(term, n, back), Min({offset, Len(ResizeTo(term, n, back).history)}))
        /\ lastRows' = n
  BY DEF CommitGeometry
<1>3. PICK back, t :
        back \in MayComeBack(term, n) /\ t = ResizeTo(term, n, back) /\ RebuildFrame(t, Min({offset, Len(t.history)}))
  BY <1>2
<1>4. PICK o : o = Min({offset, Len(t.history)})
  OBVIOUS
<1>5. Sized(t) /\ t.damage.full /\ n \in Nat \ {0} /\ o \in Nat
  BY <1>3, <1>4, ResizedIs
<1>6. RebuildFrame(t, o) /\ lastRows' \in Nat \ {0}
  BY <1>2, <1>3, <1>4, <1>5
<1>7. TypesOK' /\ InStep' /\ FramesOK' /\ Held'
  BY <1>1, <1>5, <1>6, Rebuilt
<1>8. Follows'
  BY <1>1 DEF Follows
<1> QED
  BY <1>7, <1>8 DEF IInv

\* A size that is refused leaves the terminal with it, and the frame as it was unless
\* the startup picture is shown.
LEMMA RefuseGeometryStep ==
  ASSUME IInv, RefuseGeometry
  PROVE  IInv'
<1>1. pumping = None /\ pumping' = None /\ selection' = None /\ lastRows' = lastRows
  BY DEF RefuseGeometry, Idle
<1>2. PICK n \in Heights : \E back, t :
        /\ back \in MayComeBack(term, n)
        /\ t = ResizeTo(term, n, back)
        /\ \/ RebuildFrame(t, Min({offset, Len(t.history)}))
           \/ /\ term' = t /\ offset' = Min({offset, Len(t.history)}) /\ torn' = TRUE
              /\ UNCHANGED <<altSeen, latest, pool, failed, cache>>
  BY DEF RefuseGeometry
<1>3. PICK back, t :
        /\ back \in MayComeBack(term, n)
        /\ t = ResizeTo(term, n, back)
        /\ \/ RebuildFrame(t, Min({offset, Len(t.history)}))
           \/ /\ term' = t /\ offset' = Min({offset, Len(t.history)}) /\ torn' = TRUE
              /\ UNCHANGED <<altSeen, latest, pool, failed, cache>>
  BY <1>2
<1>4. PICK o : o = Min({offset, Len(t.history)})
  OBVIOUS
<1>5. Sized(t) /\ t.damage.full /\ t.alt = term.alt /\ o \in Nat /\ o <= Len(t.history)
  BY <1>3, <1>4, ResizedIs
<1>6. lastRows' \in Nat \ {0}
  BY <1>1 DEF IInv, TypesOK
<1>7. Follows'
  BY <1>1 DEF Follows
<1>8. CASE RebuildFrame(t, o)
  <2>1. TypesOK' /\ InStep' /\ FramesOK' /\ Held'
    BY <1>1, <1>5, <1>6, <1>8, Rebuilt
  <2> QED
    BY <1>7, <2>1 DEF IInv
<1>9. CASE /\ term' = t /\ offset' = o /\ torn' = TRUE
           /\ UNCHANGED <<altSeen, latest, pool, failed, cache>>
  <2>1. Quiet
    BY <1>1 DEF Quiet
  <2>2. TypesOK'
    BY <1>1, <1>5, <1>6, <1>9 DEF IInv, TypesOK
  <2>3. InStep'
    BY <1>5, <1>9, <2>1 DEF IInv, InStep
  <2>4. FramesOK'
    BY <1>5, <1>9, <2>1 DEF IInv, FramesOK
  <2>5. Held'
    BY <1>1 DEF Held
  <2> QED
    BY <1>7, <2>2, <2>3, <2>4, <2>5 DEF IInv
<1> QED
  BY <1>3, <1>4, <1>8, <1>9

\* A full frame replaces every batch.
LEMMA BatchedIs ==
  ASSUME NEW lines \in Seq(Line), NEW batches, DOMAIN batches \subseteq Nat \ {0}
  PROVE  Batched(batches, Painted(lines)) = lines
<1>1. PICK n \in Nat : n = Len(lines) /\ DOMAIN lines = 1..n
  OBVIOUS
<1>2. PICK frame : frame = Painted(lines)
  OBVIOUS
<1>3. frame.damage = "Full" /\ frame.rows = [r \in 1..n |-> [row |-> r, line |-> lines[r]]]
  BY <1>1, <1>2, PaintedFrame
<1>4. DOMAIN frame.rows = 1..n /\ \A i \in 1..n : frame.rows[i].row = i /\ frame.rows[i].line = lines[i]
  BY <1>3
<1>5. {frame.rows[i].row : i \in DOMAIN frame.rows} = 1..n
  BY <1>4
<1>6. Max((1..n) \cup {0}) = n
  <2>1. PICK S : S = (1..n) \cup {0}
    OBVIOUS
  <2>2. n \in S /\ \A x \in S : n >= x
    BY <1>1, <2>1
  <2>3. \A x \in S : (\A y \in S : x >= y) => x = n
    BY <1>1, <2>1, <2>2
  <2>4. Max(S) = n
    BY <2>2, <2>3 DEF Max
  <2> QED
    BY <2>1, <2>4
<1>7. {r \in DOMAIN batches : r <= Max((1..n) \cup {0})} \cup 1..n = 1..n
  <2>1. \A r \in DOMAIN batches : r <= n => r \in 1..n
    BY <1>1
  <2> QED
    BY <1>6, <2>1
<1>8. ASSUME NEW r \in 1..n
      PROVE  frame.rows[Max({i \in DOMAIN frame.rows : frame.rows[i].row = r})].line = lines[r]
  <2>1. {i \in DOMAIN frame.rows : frame.rows[i].row = r} = {r, r}
    BY <1>4
  <2>2. r \in Int
    BY <1>1
  <2>3. Max({r, r}) = r
    BY <2>2, MaxIs
  <2> QED
    BY <1>4, <2>1, <2>3
<1>9. Batched(batches, frame) = [r \in 1..n |-> lines[r]]
  <2>1. PICK rows, kept :
          /\ rows = {frame.rows[i].row : i \in DOMAIN frame.rows}
          /\ kept = {r \in DOMAIN batches : r <= Max(rows \cup {0})}
    OBVIOUS
  <2>2. rows = 1..n /\ kept \cup rows = 1..n
    BY <1>5, <1>7, <2>1
  <2>3. Batched(batches, frame) =
          [r \in kept \cup rows |->
             IF r \in rows THEN frame.rows[Max({i \in DOMAIN frame.rows : frame.rows[i].row = r})].line
             ELSE batches[r]]
    BY <1>3, <2>1 DEF Batched
  <2> QED
    BY <1>8, <2>2, <2>3
<1>10. [r \in 1..n |-> lines[r]] = lines
  BY <1>1
<1> QED
  BY <1>2, <1>9, <1>10

\* The rows of the view are lines.
LEMMA ViewType ==
  ASSUME IInv, Quiet
  PROVE  View \in Seq(Line)
<1>1. TopLine(Len(term.history)) \in 0..Len(term.history) /\ Sized(term)
  BY TopLineIs DEF IInv, TypesOK
<1> QED
  BY <1>1, VisibleIs DEF View

\* The frame is painted, or the batches are lost.
LEMMA DrawStep ==
  ASSUME IInv, Paint \/ LoseBatches
  PROVE  IInv'
<1>1. /\ Quiet /\ Quiet' /\ pumping' = None
      /\ UNCHANGED <<term, offset, altSeen, selection, latest, pool, failed, startup, lastRows, torn, picked,
                     pumping>>
  BY DEF Paint, LoseBatches, pane, Idle, Quiet
<1>2. TypesOK' /\ InStep'
  BY <1>1 DEF IInv, TypesOK, InStep
<1>3. Follows'
  BY <1>1 DEF IInv, Follows, Within
<1>4. Held'
  BY <1>1 DEF Held
<1>5. View' = View
  BY <1>1 DEF View, TopLine, EffectiveOffset
<1>6. CASE Paint
  <2> SUFFICES ASSUME ~failed' PROVE FramesOK'
    BY <1>2, <1>3, <1>4 DEF IInv, FramesOK
  <2>1. /\ ~failed /\ latest # None /\ DOMAIN cache.rows \subseteq Nat \ {0}
        /\ \E lines \in Seq(Line) : latest = Painted(lines)
        /\ ~torn => latest = Painted(View)
    BY <1>1, <1>6 DEF IInv, FramesOK, Paint
  <2>2. cache' = [rows |-> Batched(cache.rows, latest), applied |-> "latest"]
    BY <1>6 DEF Paint
  <2>3. ~torn => cache'.rows = View
    BY <1>1, <2>1, <2>2, ViewType, BatchedIs
  <2>4. DOMAIN cache'.rows \subseteq Nat \ {0}
    <3>1. PICK lines \in Seq(Line) : latest = Painted(lines)
      BY <2>1
    <3>2. cache'.rows = lines
      BY <2>1, <2>2, <3>1, BatchedIs
    <3> QED
      BY <3>2
  <2> QED
    BY <1>1, <1>5, <2>1, <2>3, <2>4 DEF FramesOK, Painted
<1>7. CASE LoseBatches
  <2>1. cache' = [rows |-> <<>>, applied |-> "none"]
    BY <1>7 DEF LoseBatches
  <2>2. DOMAIN cache'.rows \subseteq Nat \ {0} /\ cache'.applied # "latest"
    BY <2>1
  <2>3. FramesOK'
    BY <1>1, <1>5, <2>2 DEF IInv, FramesOK, Painted
  <2> QED
    BY <1>2, <1>3, <1>4, <2>3 DEF IInv
<1> QED
  BY <1>6, <1>7

-----------------------------------------------------------------------------
(* Theorems.                                                               *)

LEMMA Step == IInv /\ [Next]_vars => IInv'
<1> SUFFICES ASSUME IInv, [Next]_vars PROVE IInv'
  OBVIOUS
<1>1. CASE PumpBegins
  BY <1>1, PumpBeginsStep
<1>2. CASE LineFeed
  BY <1>2, LineFeedStep
<1>3. CASE Redraw
  BY <1>3, RedrawStep
<1>4. CASE EraseHistory
  <2>1. Sized(ClearSaved(term)) /\ ClearSaved(term).damage.full
    BY ClearSavedIs DEF IInv, TypesOK
  <2>2. Outputs(ClearSaved(term), "clear")
    BY <1>4 DEF EraseHistory
  <2> QED
    BY <2>1, <2>2, ClearedStep
<1>5. CASE ChangeScreen
  <2>1. Sized(SwitchScreen(term)) /\ SwitchScreen(term).damage.full
    BY SwitchScreenIs DEF IInv, TypesOK
  <2>2. Outputs(SwitchScreen(term), "switch")
    BY <1>5 DEF ChangeScreen
  <2> QED
    BY <2>1, <2>2, ClearedStep
<1>6. CASE PumpEnds
  BY <1>6, PumpEndsStep
<1>7. CASE DismissFetch
  BY <1>7, DismissFetchStep
<1>8. CASE TickAnimation
  BY <1>8, TickAnimationStep
<1>9. CASE ScrollUp \/ ScrollDown
  BY <1>9, ScrollStep
<1>10. CASE Select
  BY <1>10, SelectStep
<1>11. CASE Drag
  BY <1>11, DragStep
<1>12. CASE Deselect
  BY <1>12, DeselectStep
<1>13. CASE CommitGeometry
  BY <1>13, CommitGeometryStep
<1>14. CASE RefuseGeometry
  BY <1>14, RefuseGeometryStep
<1>15. CASE Paint \/ LoseBatches
  BY <1>15, DrawStep
<1>16. CASE UNCHANGED vars
  <2>1. UNCHANGED <<term, offset, altSeen, selection, latest, pool, failed, cache, pumping, startup, lastRows, torn,
                    picked>>
    BY <1>16 DEF vars
  <2>2. TypesOK' /\ InStep'
    BY <2>1 DEF IInv, TypesOK, InStep, Quiet
  <2>3. FramesOK'
    BY <2>1 DEF IInv, FramesOK, Quiet, Painted, View, TopLine, EffectiveOffset
  <2>4. Follows' /\ Held'
    BY <2>1 DEF IInv, Follows, Within, Held, Kept, Quiet, Height
  <2> QED
    BY <2>2, <2>3, <2>4 DEF IInv
<1> QED
  BY <1>1, <1>2, <1>3, <1>4, <1>5, <1>6, <1>7, <1>8, <1>9, <1>10, <1>11, <1>12, <1>13, <1>14, <1>15, <1>16
  DEF Next

\* The inductive invariant: the frames, the viewport, the selection and what the
\* pump remembers agree with the terminal in every reachable state.
THEOREM Invariant == Spec => []IInv
<1>1. Init => IInv
  BY InitInv
<1>2. IInv /\ [Next]_vars => IInv'
  BY Step
<1> QED
  BY <1>1, <1>2, PTL DEF Spec

\* Once the published frame is painted, each row of the pane shows the line the
\* viewport has there, whatever the order of output, scrolling, resizes,
\* hidden tabs and draws; a size the session refused is the exception, until the
\* next frame is built.
THEOREM PaneShowsItsView == Spec => []PaintedIsShown
<1>1. IInv => PaintedIsShown
  BY DEF IInv, FramesOK, PaintedIsShown, View, Idle, Quiet
<1> QED
  BY <1>1, Invariant, PTL

\* A selection stays on the lines the user selected, or is dropped.
THEOREM SelectionIsKept == Spec => []SelectionKeepsItsLines
<1>1. IInv => SelectionKeepsItsLines
  BY DEF IInv, Follows, SelectionKeepsItsLines, Idle, Quiet
<1> QED
  BY <1>1, Invariant, PTL

\* A pump that ends leaves the lines of a scrolled view where they were.
LEMMA ViewHolds ==
  ASSUME IInv, PumpEnds, offset # 0, ~pumping.cleared, ~pumping.alt,
         NEW r \in 1..Height, r + pumping.evicted <= Height
  PROVE  Visible(term', Len(term'.history) - offset')[r].id = pumping.shown[r + pumping.evicted]
<1>1. pumping # None /\ pumping' = None /\ pumping \in Begun
  BY DEF PumpEnds, IInv, TypesOK
<1>2. Sized(term) /\ Kept
  BY <1>1 DEF IInv, TypesOK, Held
<1>3. PICK h \in Nat, n \in Nat : h = Len(term.history) /\ n = Len(term.primary)
  BY <1>2, SizedTypes
<1>4. PICK b \in Nat, e \in Nat, o \in Nat : b = pumping.history /\ e = pumping.evicted /\ o = offset
  BY <1>1 DEF IInv, TypesOK, Begun
<1>5. o <= b /\ b <= h /\ o # 0
  BY <1>2, <1>3, <1>4 DEF Kept
<1>6. Len(term'.history) - offset' = b - o /\ Visible(term', b - o) = Visible(term, b - o)
  <2>1. CASE ~pumping.chunks
    <3>1. term' = term /\ offset' = offset
      BY <1>1, <2>1 DEF PumpEnds, pane
    <3>2. h = b
      BY <1>1, <1>3, <1>4, <2>1 DEF IInv, Held
    <3> QED
      BY <1>3, <1>4, <3>1, <3>2
  <2>2. CASE pumping.chunks
    <3>1. PICK g : g = o + (h - b)
      OBVIOUS
    <3>2. g \in Nat /\ g <= h /\ h - g = b - o
      BY <1>5, <3>1
    <3>3. NoteGrowth(o, b, h) = g
      BY <1>5, <3>1, NoteGrowthIs
    <3>4. Min({g, h}) = g
      BY <3>2, MinIs
    <3>5. RebuildFrame(term, g)
      BY <1>1, <1>3, <1>4, <2>2, <3>3, <3>4 DEF PumpEnds
    <3>6. ~failed => /\ latest = None => term.damage.full
                     /\ latest # None => latest.damage = "Full"
                     /\ DOMAIN cache.rows \subseteq Nat \ {0}
      BY FullFrames DEF IInv, FramesOK
    <3>7. /\ term'.history = term.history /\ term'.primary = term.primary
          /\ term'.alternate = term.alternate /\ term'.alt = term.alt
          /\ offset' = IF g <= Len(term.history) THEN g ELSE Len(term.history)
      BY <1>1, <1>2, <3>2, <3>5, <3>6, RebuildStep DEF IInv, TypesOK
    <3> QED
      BY <1>3, <3>2, <3>7, SameScreens
  <2> QED
    BY <2>1, <2>2
<1>7. PICK top : top = b - o
  OBVIOUS
<1>8. top \in 0..h /\ r \in 1..n
  BY <1>3, <1>5, <1>7 DEF Height
<1>9. Visible(term, top)[r] = LineAt(term, top + r - 1)
  BY <1>2, <1>3, <1>8, VisibleIs
<1>10. PICK q : q = r + e
  OBVIOUS
<1>11. q \in 1..n /\ b - o + q - 1 - e = top + r - 1 /\ top + r - 1 >= 0
  <2>1. r \in Nat /\ r >= 1 /\ r + e <= n
    BY <1>3, <1>4, <1>8 DEF Height
  <2>2. q \in 1..n
    BY <1>3, <1>10, <2>1
  <2> QED
    BY <1>5, <1>7, <1>10, <2>1, <2>2
<1>12. LineAt(term, b - o + q - 1 - e).id = pumping.shown[q]
  BY <1>2, <1>3, <1>4, <1>11 DEF Kept, Height
<1> QED
  BY <1>4, <1>6, <1>7, <1>9, <1>10, <1>11, <1>12

\* A view scrolled into the history keeps its lines in place while output
\* arrives; at the limit of the history it moves by exactly the lines dropped.
THEOREM ScrolledViewKeepsItsLines == Spec => ScrolledViewHolds
<1> DEFINE Holds ==
      pumping # None /\ pumping' = None /\ offset # 0 /\ ~pumping.cleared /\ ~pumping.alt =>
        \A r \in 1..Height : r + pumping.evicted <= Height =>
          Visible(term', Len(term'.history) - offset')[r].id = pumping.shown[r + pumping.evicted]
<1>1. IInv /\ [Next]_vars => Holds
  <2> SUFFICES ASSUME IInv, [Next]_vars, pumping # None, pumping' = None,
                      offset # 0, ~pumping.cleared, ~pumping.alt
               PROVE  Holds
    OBVIOUS
  <2>1. ASSUME NEW t, NEW kind, Outputs(t, kind) PROVE FALSE
    BY <2>1, OutputsPump
  <2>2. ~LineFeed /\ ~Redraw /\ ~EraseHistory /\ ~ChangeScreen
    BY <2>1 DEF LineFeed, Redraw, EraseHistory, ChangeScreen
  <2>3. ~UNCHANGED vars
    BY DEF vars
  <2>4. PumpEnds
    BY <2>2, <2>3 DEF Next, PumpBegins, DismissFetch, TickAnimation, ScrollUp, ScrollDown, Select, Drag,
      Deselect, CommitGeometry, RefuseGeometry, Paint, LoseBatches, Idle
  <2> QED
    BY <2>4, ViewHolds
<1>2. [][Holds]_vars => ScrolledViewHolds
  BY PTL DEF ScrolledViewHolds
<1> QED
  BY <1>1, <1>2, Invariant, PTL DEF Spec
=============================================================================
