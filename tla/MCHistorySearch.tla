---------------------------- MODULE MCHistorySearch ----------------------------
(* Texts and requests of a small instance of HistorySearch.                *)
EXTENDS HistorySearch

Line(cells) == [text |-> cells, wrapped |-> FALSE]
Wraps(cells) == [text |-> cells, wrapped |-> TRUE]

MCDocuments == {
  [history |-> <<Line(<<"b", "a">>), Wraps(<<"a", " ">>)>>, screen |-> <<Line(<<"a", " ">>)>>, corrupt |-> {}],
  [history |-> <<Wraps(<<"b", "a">>), Wraps(<<"a", "b">>)>>, screen |-> <<Line(<<"a", "s">>)>>, corrupt |-> {}],
  [history |-> <<Line(<<"a", "b">>), Line(<<"a", "b">>)>>, screen |-> <<Line(<<"a", "a">>)>>, corrupt |-> {1}],
  [history |-> <<Line(<<"a", "b">>)>>, screen |-> <<Line(<<"a", "b">>)>>, corrupt |-> {0}]}
MCFeeds == {Line(<<"a", "b">>)}
MCRequests == {
  [needle |-> <<"a", "b">>, reverse |-> FALSE, from |-> 0, limit |-> 3],
  [needle |-> <<"a", "b">>, reverse |-> TRUE, from |-> 9, limit |-> 3],
  [needle |-> <<"a", "a">>, reverse |-> TRUE, from |-> 9, limit |-> 3],
  [needle |-> <<"a", " ", "a">>, reverse |-> FALSE, from |-> 0, limit |-> 3],
  [needle |-> <<"a">>, reverse |-> FALSE, from |-> 1, limit |-> 2],
  [needle |-> <<>>, reverse |-> FALSE, from |-> 0, limit |-> 3]}
=================================================================================
