------------------------------ MODULE SpawnChild ------------------------------
(***************************************************************************)
(* Starting the child of a pseudo-terminal: spawn_pty_child and child_exec *)
(* of platform/macos.rs, and the rest of PtySession::spawn, which starts   *)
(* the session's threads.  Any system call may fail.  The module ends      *)
(* where PtySession begins.                                                *)
(*                                                                         *)
(* ends holds who has which descriptor open: the parent, the child, the    *)
(* reader thread and the child's descendants.                              *)
(***************************************************************************)
EXTENDS Naturals, Sequences, SequencesExt

CONSTANT MaxPolls  \* the polls of abort_child: the code has 100

VARIABLES
  pc,       \* the next step of spawn; "session" and "failed" are its ends
  ends,     \* {<<owner, descriptor>>}
  child,    \* "none", the last step child_exec has done, or its state since
  report,   \* halves of the errno in the pipe
  kin,      \* descendants of the child: in its process group or not
  waiter,   \* the exit waiter: "none", "waiting", "done"
  polls     \* polls done for a child nobody waits for

vars == <<pc, ends, child, report, kin, waiter, polls>>

Of(owner) == {e \in ends : e[1] = owner}
Holders(descriptor) == {e \in ends : e[2] = descriptor}

---------------------------------------------------------------------------------
(* spawn_pty_child, up to the fork.                                        *)

Setup == <<"openpt", "cloexec", "unlockpt", "open", "winsize", "strings", "pipe", "pipeflags", "fork">>
Threads == <<"cloneReader", "cloneWriter", "exitThread", "readerThread", "writerThread", "session">>
Following(steps, step) == steps[1 + CHOOSE i \in DOMAIN steps : steps[i] = step]
Opened(step) ==
  CASE step = "openpt" -> {"master"} [] step = "open" -> {"slave"} [] step = "pipe" -> {"read", "write"}
    [] OTHER -> {}

\* An error returns, and drops what the function owns.
Fail == pc' = "failed" /\ ends' = ends \ Of("parent")

Prepare ==
  /\ pc \in Range(Front(Setup))
  /\ \/ pc' = Following(Setup, pc) /\ ends' = ends \cup ({"parent"} \X Opened(pc))
     \/ Fail
  /\ UNCHANGED <<child, report, kin, waiter, polls>>

\* Mutant: the parent keeps its copies of the child's ends.
ForkKeepsEnds ==
  /\ pc = "fork"
  /\ \/ /\ pc' = "handshake" /\ child' = "forked"
        /\ ends' = ends \cup ({"child"} \X {"master", "slave", "write"})
     \/ Fail /\ UNCHANGED child
  /\ UNCHANGED <<report, kin, waiter, polls>>

Fork ==
  /\ pc = "fork"
  /\ \/ /\ pc' = "handshake" /\ child' = "forked"
        /\ ends' = {<<"parent", "master">>, <<"parent", "read">>,
                    <<"child", "master">>, <<"child", "slave">>, <<"child", "write">>}
     \/ Fail /\ UNCHANGED child
  /\ UNCHANGED <<report, kin, waiter, polls>>

---------------------------------------------------------------------------------
(* The handshake with the child.                                           *)

\* read_exec_error: the whole report, or the end of the pipe.
ReadExecError ==
  /\ pc = "handshake"
  /\ \/ report = 2 /\ pc' = "reap"
     \/ report = 1 /\ Holders("write") = {} /\ pc' = "kill"
     \/ report = 0 /\ Holders("write") = {} /\ pc' = "cloneReader"
     \/ pc' = "kill"
  /\ ends' = ends \ {<<"parent", "read">>}
  /\ UNCHANGED <<child, report, kin, waiter, polls>>

Dead == {"zombie", "reaped"}
Signalled == IF child \in Dead THEN child ELSE "killed"

KillChild ==
  /\ pc = "kill" /\ pc' = "reap" /\ child' = Signalled
  /\ UNCHANGED <<ends, report, kin, waiter, polls>>

ReapChildBlocking ==
  /\ pc = "reap" /\ child = "zombie" /\ child' = "reaped" /\ Fail
  /\ UNCHANGED <<report, kin, waiter, polls>>

---------------------------------------------------------------------------------
(* The rest of spawn: two clones of the master and three threads.          *)

StartThreads ==
  /\ pc \in Range(Front(Threads))
  /\ \/ /\ pc' = Following(Threads, pc)
        /\ waiter' = IF pc = "exitThread" THEN "waiting" ELSE waiter
        /\ ends' = CASE pc = "cloneReader" -> ends \cup {<<"parent", "readerMaster">>}
                     [] pc = "cloneWriter" -> ends \cup {<<"parent", "writerMaster">>}
                     [] pc = "readerThread" -> (ends \ {<<"parent", "readerMaster">>}) \cup {<<"reader", "readerMaster">>}
                     [] pc = "writerThread" -> (ends \ {<<"parent", "writerMaster">>}) \cup {<<"writer", "writerMaster">>}
                     [] OTHER -> ends
     \/ pc' = "abort" /\ UNCHANGED <<ends, waiter>>
  /\ UNCHANGED <<child, report, kin, polls>>

\* abort_child: kill the group; join the exit waiter if it runs, or poll.
\* The group is there: the handshake came after setsid.
KillPgid ==
  /\ pc = "abort"
  /\ child' = IF child = "running" THEN "killed" ELSE child
  /\ kin' = kin \ {"group"} /\ ends' = ends \ Of("group")
  /\ pc' = IF waiter = "none" THEN "poll" ELSE "join"
  /\ UNCHANGED <<report, waiter, polls>>

Poll ==
  /\ pc = "poll"
  /\ IF child = "zombie" THEN child' = "reaped" /\ Fail /\ UNCHANGED polls
     ELSE IF polls < MaxPolls THEN polls' = polls + 1 /\ UNCHANGED <<pc, ends, child>>
     ELSE Fail /\ UNCHANGED <<child, polls>>
  /\ UNCHANGED <<report, kin, waiter>>

JoinWaiter ==
  /\ pc = "join" /\ waiter = "done" /\ Fail
  /\ UNCHANGED <<child, report, kin, waiter, polls>>

\* exit_waiter: waitpid_block.
ExitWaiter ==
  /\ waiter = "waiting" /\ child \in Dead
  /\ waiter' = "done" /\ child' = "reaped"
  /\ UNCHANGED <<pc, ends, report, kin, polls>>

\* Who keeps the terminal's other side open.
SlaveOpen == Holders("slave") \cup Holders("stdio")

\* reader_loop ends when nobody has the terminal open any more.  Spawn sets no
\* shutdown flag when it fails, and output that finds the receiver dropped is
\* discarded: the reader goes on for as long as a descendant has the terminal.
ReaderEnds ==
  /\ Of("reader") # {} /\ SlaveOpen = {}
  /\ ends' = ends \ Of("reader")
  /\ UNCHANGED <<pc, child, report, kin, waiter, polls>>

\* Its own system call fails: set_nonblocking, poll or read.
ReaderFails ==
  /\ Of("reader") # {} /\ ends' = ends \ Of("reader")
  /\ UNCHANGED <<pc, child, report, kin, waiter, polls>>

---------------------------------------------------------------------------------
(* The child: child_exec, then the program.                                *)

ChildSteps == <<"forked", "setsid", "ctty", "stdio", "closed", "chdir", "running">>

ChildExec ==
  /\ child \in Range(Front(ChildSteps))
  /\ child' = Following(ChildSteps, child)
  /\ ends' = CASE child' = "stdio" -> ends \cup {<<"child", "stdio">>}
               [] child' = "closed" -> ends \ {<<"child", "slave">>, <<"child", "master">>}
               [] child' = "running" -> ends \ {<<"child", "write">>}
               [] OTHER -> ends
  /\ UNCHANGED <<pc, report, kin, waiter, polls>>

\* A step fails: the errno is written, as far as it goes, and the child ends.
ReportExecError ==
  /\ child \in Range(Front(ChildSteps)) \ {"stdio"}
  /\ report' \in 0..2 /\ child' = "zombie" /\ ends' = ends \ Of("child")
  /\ UNCHANGED <<pc, kin, waiter, polls>>

Descend(relation) ==
  /\ child = "running" /\ relation \notin kin
  /\ kin' = kin \cup {relation} /\ ends' = ends \cup {<<relation, "stdio">>}
  /\ UNCHANGED <<pc, child, report, waiter, polls>>

ChildDies ==
  /\ child \in {"running", "killed"} /\ child' = "zombie" /\ ends' = ends \ Of("child")
  /\ UNCHANGED <<pc, report, kin, waiter, polls>>

KinDies(relation) ==
  /\ relation \in kin /\ kin' = kin \ {relation} /\ ends' = ends \ Of(relation)
  /\ UNCHANGED <<pc, child, report, waiter, polls>>

Relations == {"group", "outside"}

---------------------------------------------------------------------------------

Init ==
  /\ pc = "openpt" /\ ends = {} /\ child = "none" /\ report = 0 /\ kin = {}
  /\ waiter = "none" /\ polls = 0

Next ==
  \/ Prepare \/ Fork \/ ReadExecError \/ KillChild \/ ReapChildBlocking \/ StartThreads \/ KillPgid \/ Poll
  \/ JoinWaiter \/ ExitWaiter \/ ReaderEnds \/ ReaderFails \/ ChildExec \/ ReportExecError \/ ChildDies
  \/ \E relation \in Relations : Descend(relation) \/ KinDies(relation)

Spec == Init /\ [][Next]_vars

---------------------------------------------------------------------------------
(* Properties.                                                             *)

\* A spawn that failed leaves no child, unless the child outlives the bounded
\* polls, and no descriptor of its own but, when the writer thread could not be
\* started, the reader's: that thread is then kept by descendants that have left
\* the child's process group, and by nothing else.  An aborted spawn leaves
\* nothing of that group.  One that succeeds leaves the program with the
\* terminal and nothing else, and the parent without the terminal's other
\* side, so that its end is seen.
\* The parent never waits for a report nobody but itself could write, nor
\* for a child nobody killed.
SpawnLeavesNothing ==
  /\ pc = "failed" =>
       /\ child \in {"none", "reaped"} \/ polls = MaxPolls
       /\ Of("parent") = {} /\ Of("writer") = {}
       /\ Of("reader") # {} => waiter = "done" /\ SlaveOpen \subseteq Of("outside")
  /\ pc = "session" =>
       /\ ends \cap ({"parent"} \X {"slave", "read", "write"}) = {}
       /\ child = "running" => Of("child") = {<<"child", "stdio">>}
  /\ pc = "handshake" => report # 0 \/ Holders("write") \subseteq Of("child")
  /\ pc \in {"poll", "join"} => "group" \notin kin
  /\ pc \in {"reap", "poll", "join"} => child \in {"killed"} \cup Dead \/ report = 2
=================================================================================
