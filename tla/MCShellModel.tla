----------------------------- MODULE MCShellModel -----------------------------
(***************************************************************************)
(* Saved shells to restore: one with ids that are no longer dense and no   *)
(* active window, one of two windows, and one whose second window has a    *)
(* tab that names a pane outside its tree.                                 *)
(***************************************************************************)
EXTENDS ShellModel

TabOf(id, panes, focused) == [id |-> id, panes |-> panes, focused |-> focused, fits |-> TRUE]

Sparse == [active |-> None,
           windows |-> <<[id |-> 2, active |-> 1,
                          tabs |-> <<TabOf(2, <<3, 1>>, 1), TabOf(1, <<2>>, None)>>]>>]
Pair   == [active |-> 1,
           windows |-> <<[id |-> 2, active |-> None, tabs |-> <<TabOf(1, <<1, 2>>, 2)>>],
                         [id |-> 1, active |-> 1, tabs |-> <<TabOf(2, <<3>>, 3)>>]>>]
Ripped == [Pair EXCEPT !.windows[2].tabs[1].fits = FALSE]

MCSavedStates == {Sparse, Pair, Ripped}
=============================================================================
