------------------------------- MODULE RowLog -------------------------------
(***************************************************************************)
(* What scrollback promises: the rows that left the screen, oldest first,  *)
(* each once and in order, forgotten only from the old end and only above  *)
(* the limit; a reader gets the row it asks for and a screen that grows    *)
(* gets the newest ones back.  Pages, compression and the worker are not   *)
(* part of it.                                                             *)
(***************************************************************************)
EXTENDS Integers, Sequences

VARIABLES rows,   \* the rows kept, oldest first
          limit,  \* max_lines
          asked,  \* the place of the row a reader waits for, or 0
          answer  \* the rows handed out by the last call

vars == <<rows, limit, asked, answer>>

Silent   == answer' \in {answer, <<>>}
Same     == UNCHANGED limit /\ Silent
Drop(k)  == rows' = SubSeq(rows, k + 1, Len(rows))

Grow     == rows' = Append(rows, rows'[Len(rows')]) /\ Same

\* Forgetting may lag behind the limit; it may not run ahead of it.
Forget   == \E k \in 1..Len(rows) : Len(rows) - k >= limit /\ Drop(k) /\ Same

\* A new limit is enforced at once, as far as that is possible at once.
Relimit  == \E k \in 0..Len(rows) :
              /\ k > 0 => Len(rows) - k >= limit'
              /\ Drop(k) /\ Silent

\* Every row, wherever it is kept, is renumbered to the new style table.
Restyle  == rows' = [i \in DOMAIN rows |-> [rows[i] EXCEPT !.style = @ + 1]] /\ Same

Empty    == rows' = <<>> /\ Same

Withdraw == \E k \in 1..Len(rows) :
              /\ rows' = SubSeq(rows, 1, Len(rows) - k)
              /\ answer' = SubSeq(rows, Len(rows) - k + 1, Len(rows))
              /\ UNCHANGED limit

Change   == (rows' # <<>> /\ Grow) \/ Forget \/ Relimit \/ Restyle \/ Empty \/ Withdraw

\* A reader asks for one row and is answered with that one.
Ask      == asked' \in DOMAIN rows /\ answer' = <<>> /\ UNCHANGED <<rows, limit>>
Read     == answer' = <<rows[asked]>> /\ asked' = 0 /\ UNCHANGED <<rows, limit>>

\* An answer is the caller's: it need not be kept.
Quiet    == Silent /\ UNCHANGED <<rows, limit, asked>>

\* Nothing changes while a reader waits.
Next == \/ asked = 0 /\ (Ask \/ (Change /\ UNCHANGED asked))
        \/ asked # 0 /\ Read
        \/ Quiet

Spec == rows = <<>> /\ limit \in Nat /\ asked = 0 /\ answer = <<>> /\ [][Next]_vars
=============================================================================
