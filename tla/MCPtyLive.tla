------------------------------ MODULE MCPtyLive ------------------------------
(***************************************************************************)
(* PtySession's liveness on small instances, in two kinds of surroundings. *)
(***************************************************************************)
EXTENDS PtySession

\* In "calls" nobody drains the output and the surroundings are the worst
\* ones; in "heard" a consumer listens, and nobody else holds the slave or
\* writes to the terminal.
VARIABLE kind

\* The worst surroundings for a call: either a writer blocked by one write it
\* cannot finish beside a reader blocked by output nobody takes, or, before any
\* shutdown, enough writes to fill the whole way to a child that does not read.
Blocked == produced + 2 * writes <= 2
Wedged  ==
  /\ produced = 0 /\ kin = Len(typed) /\ slave = {"child"} \cup Holders
  /\ child = "running" /\ ~shutdown

Unheard == kind = "calls" /\ cpc' # "drain" /\ (Blocked' \/ Wedged')
Heard   == kind = "heard" /\ writes' = 0 /\ (slave \cap Holders = {} \/ slave' \cap Holders = {})

LiveSpec ==
  /\ Init /\ kind \in {"calls", "heard"}
  /\ [][Next /\ (Unheard \/ Heard) /\ UNCHANGED kind]_<<vars, kind>>
  /\ Fairness /\ WF_vars(kind = "heard" /\ Consumer)

\* A consumer that listens has, again and again, all that was printed and the
\* status of a child that died, unless the session is shut down or it goes:
\* what there is to hear only grows, so nothing stays unheard for ever.
ListenerHears ==
  []<>(kind = "heard" =>
         \/ shutdown \/ cpc = "gone"
         \/ Len(received) = produced /\ (child = "running" \/ sawExit # NoStatus))
=============================================================================
