---------------------------- MODULE MCOutputPump ----------------------------
(***************************************************************************)
(* Small instances of OutputPump: what the children print in each run.     *)
(***************************************************************************)
EXTENDS OutputPump

\* A pane that fails beside one that prints; then, beside a quiet pane, queries
\* of the terminal and of the animation menu, and graphics commands, answered
\* through an input channel of one slot.
SafetyScripts ==
  { << <<"bad">>, <<"text", "text">> >>,
    << <<"query", "query", "text">>, <<>> >>,
    << <<"menu", "query", "menu", "preset">>, <<>> >>,
    << <<"gfx", "gfx", "query">>, <<>> >> }

\* More text than channel and stash can hold together; answers of one kind,
\* given up when the writer is gone.
LiveScripts == { << <<"text", "text", "text">>, <<>> >>, << <<"gfx", "text", "gfx">>, <<>> >> }
AllScripts == SafetyScripts \cup LiveScripts

\* Bounds: a child that prints nothing waits for input, one that breaks its
\* pane stays, and the user searches, in the first kind of behaviour only, a
\* pane that prints beside one that does not.
Live     == script \in LiveScripts
Quiet(p) == script[p] = <<>>
Stays(p) == Quiet(p) \/ script[p] = <<"bad">>
Bounded  ==
  \A p \in Panes :
    /\ Stays(p) => ~childGone'[p]
    /\ searches'[p] > 0 => ~Live /\ ~Quiet(p) /\ \E q \in Panes : Quiet(q)

\* Fairness of the second kind of behaviour: every thread runs and GPUI
\* serves its queues; nobody is obliged to render, to search, or to exit.
Fairness ==
  /\ \A p \in Panes :
       /\ WF_vars(Live /\ (ReaderSends(p) \/ ReaderEnds(p))) /\ WF_vars(Live /\ ExitPublishes(p))
       /\ WF_vars(Live /\ WakeSwaps(p)) /\ WF_vars(Live /\ WakePosts(p))
       /\ WF_vars(Live /\ WriterTakes(p))
  /\ WF_vars(Live /\ ScheduledPump) /\ WF_vars(Live /\ PumpStep)

PumpSpec == Init /\ [][Next /\ Bounded]_vars /\ Fairness

\* Everything printed reaches the screen, and the exit of the child is
\* noticed, in a pane that does not fail.
AllComesThrough ==
  []<>(Live => \A p \in Panes :
         childGone[p] /\ ~failed[p] => shown[p] = Len(script[p]) /\ lifecycle[p] = "Exited")
=============================================================================
