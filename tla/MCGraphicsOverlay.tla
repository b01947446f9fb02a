-------------------------- MODULE MCGraphicsOverlay --------------------------
EXTENDS GraphicsOverlay
\* Two image ids and one image number, images of one and two fragments.
Cmd == [id |-> 0, number |-> 0, want |-> 1, data |-> <<>>, transient |-> FALSE, more |-> FALSE, display |-> None]
Show(id, number, pid, virtual) ==
    [id |-> id, number |-> number, pid |-> pid, virtual |-> virtual, width |-> 1, height |-> 2,
     z |-> pid, moves |-> ~virtual]
MCStarts ==
    { [Cmd EXCEPT !.id = 1, !.want = 2, !.data = <<"a">>, !.more = TRUE],
      [Cmd EXCEPT !.id = 2, !.data = <<"b">>, !.transient = TRUE],
      [Cmd EXCEPT !.number = 1, !.data = <<"c">>, !.display = Show(0, 0, 0, FALSE)] }
MCDisplays == { Show(1, 0, 1, FALSE), Show(2, 0, 0, TRUE), Show(0, 1, 1, FALSE) }
MCDeletes ==
    { [by |-> "all", frees |-> FALSE], [by |-> "all", frees |-> TRUE],
      [by |-> "id", id |-> 1, pid |-> 1, frees |-> TRUE],
      [by |-> "newest", number |-> 1, pid |-> 0, frees |-> FALSE],
      [by |-> "cursor", frees |-> TRUE],
      [by |-> "row", y |-> 0, frees |-> FALSE],
      [by |-> "range", first |-> 2, last |-> 9, frees |-> TRUE] }
MCFiles == { [name |-> "x", size |-> 2, inline |-> TRUE], [name |-> "y", size |-> 1, inline |-> FALSE],
             [name |-> "z", size |-> 2, inline |-> TRUE] }
\* Bound: beside a broken transmission there are no uploads and no scrollback.
BrokenAlone == broken # {} => nextIterm = FirstItermId /\ uploads = <<>> /\ dropped + history = 0
=============================================================================
