-------------------------------- MODULE PlainRow --------------------------------
(***************************************************************************)
(* What a row of the engine stands for: a string of at most cols cells,    *)
(* blank to its right, with no window.  A row that starts over may be      *)
(* stale: built on cells of an earlier row, which stay unseen until the    *)
(* width changes.                                                          *)
(***************************************************************************)
EXTENDS Integers, Sequences, FiniteSetsExt

CONSTANTS Widths, Texts

VARIABLE row  \* [text, cols, wrapped, stale]

Padded(text, n) == [i \in 1..n |-> IF i \in DOMAIN text THEN text[i] ELSE "."]
Trim(text) == SubSeq(text, 1, Max({0} \cup {i \in DOMAIN text : text[i] # "."}))
Shown == Padded(row.text, row.cols)
Overlaid(at, new) ==
  [i \in 1..Max({Len(row.text), at + Len(new) - 1}) |->
     IF i \in at..(at + Len(new) - 1) THEN new[i - at + 1] ELSE Shown[i]]
\* A wrapped row is as long as the line.
Settled(text) == IF row.wrapped THEN Padded(text, row.cols) ELSE Trim(text)

\* Nothing but a new beginning makes a row stale.
Becomes(text, wrapped) ==
  /\ row' = [row EXCEPT !.text = text, !.wrapped = wrapped, !.stale = row'.stale]
  /\ row'.stale => row.stale

WriteText == \E at \in 1..row.cols, new \in Texts :
  at + Len(new) - 1 <= row.cols /\ Becomes(Overlaid(at, new), row.wrapped)
Blankout == \E i \in 1..row.cols :
  Becomes([j \in DOMAIN row.text |-> IF j = i THEN "." ELSE row.text[j]], row.wrapped)
EraseSpan == \E from, to \in 1..row.cols, cell \in {".", "t"} :
  LET blank == Overlaid(from, [i \in 1..(to - from + 1) |-> cell])
  IN /\ from <= to
     /\ Becomes(IF cell = "t" THEN blank
                ELSE IF Len(row.text) >= from THEN Settled(blank) ELSE row.text, FALSE)
WrapOver == Becomes([Shown EXCEPT ![row.cols] = IF @ = "." THEN "w" ELSE @], TRUE)
ShiftRight == \E at \in 1..row.cols :
  Becomes(Settled(SubSeq(Shown, 1, at - 1) \o <<".">> \o SubSeq(Shown, at, row.cols - 1)), row.wrapped)
ShiftLeft == \E at \in 1..row.cols :
  Becomes(Settled(SubSeq(Shown, 1, at - 1) \o SubSeq(Shown, at + 1, row.cols) \o <<".">>), row.wrapped)

\* A row that is not stale is cut or padded.  One that is keeps what it shows,
\* and anything may come up in the blanks between.
ChangeWidth == \E n \in Widths \ {row.cols} :
  /\ row' = [text |-> Trim(row'.text), cols |-> n, wrapped |-> row.wrapped /\ n >= row.cols, stale |-> FALSE]
  /\ Len(row'.text) <= Min({n, row.cols})
  /\ LET kept == Padded(Shown, n)
     IN  \A i \in 1..n : kept[i] # "." \/ ~row.stale => Padded(row'.text, n)[i] = kept[i]

\* Cleared, or taken from the pool.
StartOver == row' = [row EXCEPT !.text = <<>>, !.wrapped = FALSE, !.stale = row'.stale]

Init == \E n \in Widths : row = [text |-> <<>>, cols |-> n, wrapped |-> FALSE, stale |-> FALSE]

Next == WriteText \/ Blankout \/ EraseSpan \/ WrapOver \/ ShiftRight \/ ShiftLeft \/ ChangeWidth \/ StartOver

Spec == Init /\ [][Next]_row
=================================================================================
