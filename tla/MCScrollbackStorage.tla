------------------------ MODULE MCScrollbackStorage ------------------------
(***************************************************************************)
(* Small instances of ScrollbackStorage.                                   *)
(***************************************************************************)
EXTENDS ScrollbackStorage

\* Bounds: the screen becomes wider once, and the smallest limit is set once
\* there is something to forget.
Late        == fed >= 4
OneWidening ==
  \A i \in DOMAIN history : history[i].cols = 100 =>
    Late /\ \A j \in (i + 1)..Len(history) : history[j].cols = 100
LateLimit   == limit = Min(Limits) => Late
=============================================================================
