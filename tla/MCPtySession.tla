---------------------------- MODULE MCPtySession ----------------------------
(***************************************************************************)
(* A small instance of PtySession: how much traffic its safety run         *)
(* explores.                                                               *)
(***************************************************************************)
EXTENDS PtySession

\* Bound: bytes of output and writes of input, together; one of them while a
\* background process still holds the terminal.
Traffic == produced + writes <= IF slave \cap Holders = {} THEN 2 ELSE 1
=============================================================================
