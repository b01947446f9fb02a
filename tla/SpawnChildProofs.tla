-------------------------- MODULE SpawnChildProofs ---------------------------
(***************************************************************************)
(* The start of a child, for every bound on the polls for its end: when    *)
(* any step fails, spawn kills and reaps the child and closes what it had  *)
(* opened, and it never waits for what nobody will do.                     *)
(***************************************************************************)
EXTENDS SpawnChild, TLAPS

\* Who may have a descriptor open, and which descriptors there are.
Owners      == {"parent", "child", "reader", "writer"} \cup Relations
Descriptors == {"master", "slave", "read", "write", "stdio", "readerMaster", "writerMaster"}
\* Those spawn_pty_child opens before the fork.
SetupEnds   == {"master", "slave", "read", "write"}
\* The steps of spawn before the fork, those after the handshake, and those of
\* the child before the program runs.
SetupPcs    == {"openpt", "cloexec", "unlockpt", "open", "winsize", "strings", "pipe",
                "pipeflags", "fork"}
ThreadPcs   == {"cloneReader", "cloneWriter", "exitThread", "readerThread", "writerThread"}
ExecSteps   == {"forked", "setsid", "ctty", "stdio", "closed", "chdir"}

\* Types; the polls stay within their bound.
Types ==
  /\ pc \in SetupPcs \cup ThreadPcs
       \cup {"handshake", "kill", "reap", "abort", "poll", "join", "session", "failed"}
  /\ child \in ExecSteps \cup Dead \cup {"none", "running", "killed"}
  /\ waiter \in {"none", "waiting", "done"}
  /\ ends \subseteq Owners \X Descriptors /\ report \in 0..2 /\ kin \subseteq Relations
  /\ polls \in 0..MaxPolls

\* What the child is at each step of spawn: it runs only while nobody waits
\* for its end, has reported only when it is dead, and is given up alive only
\* when the polls are used up.
ChildOK ==
  /\ pc \in SetupPcs => child = "none"
  /\ child = "none" => pc \in SetupPcs \cup {"failed"} /\ waiter = "none" /\ kin = {}
  /\ child \in ExecSteps => pc \in {"handshake", "kill"}
  /\ child = "running" => pc \notin {"reap", "poll", "join", "failed"}
  /\ child = "killed" => pc \in {"reap", "poll", "join", "failed"}
  /\ report # 0 => child \in Dead
  /\ child = "killed" /\ pc = "failed" => polls = MaxPolls
  /\ child = "zombie" /\ pc = "failed" => polls = MaxPolls
  /\ pc \in {"poll", "join"} => "group" \notin kin
  /\ pc = "failed" /\ waiter # "none" => "group" \notin kin

\* The exit waiter is started before the threads that hold the terminal, and
\* once it is, spawn fails only after joining it.
WaiterOK ==
  /\ pc \in {"handshake", "kill", "reap", "poll", "cloneReader", "cloneWriter", "exitThread"} =>
       waiter = "none"
  /\ pc = "failed" => waiter # "waiting"
  /\ pc \in {"readerThread", "writerThread", "join"} => waiter # "none"
  /\ waiter = "done" => child = "reaped"
  /\ Of("reader") # {} => waiter # "none"
  /\ Of("writer") # {} => pc = "session"

\* Which descriptors the child has at each of its steps, which the parent has
\* given up by each of spawn's, and that the other side of the terminal is open
\* in the child, its living descendants and, before the fork, the parent alone.
EndsOK ==
  /\ pc \in SetupPcs => ends \subseteq {"parent"} \X SetupEnds
  /\ child \in {"none"} \cup Dead => Of("child") = {}
  /\ child = "running" => Of("child") = {<<"child", "stdio">>}
  /\ child \in {"forked", "setsid", "ctty"} =>
       Of("child") = {<<"child", "master">>, <<"child", "slave">>, <<"child", "write">>}
  /\ child = "stdio" =>
       Of("child") = {<<"child", "stdio">>, <<"child", "master">>, <<"child", "slave">>,
                      <<"child", "write">>}
  /\ child \in {"closed", "chdir"} => Of("child") = {<<"child", "stdio">>, <<"child", "write">>}
  /\ pc \notin SetupPcs =>
       Holders("write") \subseteq Of("child") /\ <<"parent", "slave">> \notin ends
  /\ pc \notin SetupPcs \cup {"handshake"} => <<"parent", "read">> \notin ends
  /\ pc = "failed" => Of("parent") = {}
  /\ \A e \in ends : e[2] = "slave" => e[1] \in {"parent", "child"}
  /\ \A e \in ends : e[2] = "stdio" => e[1] = "child" \/ e[1] \in kin

\* The inductive invariant.
IInv == Types /\ ChildOK /\ WaiterOK /\ EndsOK

------------------------------------------------------------------------------
\* The steps before the fork, each followed by another of them.
LEMMA SetupSteps ==
  /\ Range(Front(Setup)) = SetupPcs \ {"fork"}
  /\ \A s \in SetupPcs \ {"fork"} : Following(Setup, s) \in SetupPcs
<1>1. DOMAIN Front(Setup) = 1..8 /\ \A i \in 1..8 : Front(Setup)[i] = Setup[i]
  BY DEF Front, Setup
<1>2. Range(Front(Setup)) = SetupPcs \ {"fork"}
  BY <1>1 DEF Range, Setup, SetupPcs
<1>3. ASSUME NEW i \in 1..8 PROVE Following(Setup, Setup[i]) = Setup[i + 1]
  BY DEF Following, Setup
<1>4. \A s \in SetupPcs \ {"fork"} : \E i \in 1..8 : s = Setup[i]
  BY DEF SetupPcs, Setup
<1>5. \A i \in 1..8 : Setup[i + 1] \in SetupPcs
  BY DEF SetupPcs, Setup
<1> QED
  BY <1>2, <1>3, <1>4, <1>5

\* The steps after the handshake and what follows each.
LEMMA ThreadSteps ==
  /\ Range(Front(Threads)) = ThreadPcs
  /\ Following(Threads, "cloneReader") = "cloneWriter"
  /\ Following(Threads, "cloneWriter") = "exitThread"
  /\ Following(Threads, "exitThread") = "readerThread"
  /\ Following(Threads, "readerThread") = "writerThread"
  /\ Following(Threads, "writerThread") = "session"
<1>1. DOMAIN Front(Threads) = 1..5 /\ \A i \in 1..5 : Front(Threads)[i] = Threads[i]
  BY DEF Front, Threads
<1>2. Range(Front(Threads)) = ThreadPcs
  BY <1>1 DEF Range, Threads, ThreadPcs
<1>3. ASSUME NEW i \in 1..5 PROVE Following(Threads, Threads[i]) = Threads[i + 1]
  BY DEF Following, Threads
<1> QED
  BY <1>2, <1>3 DEF Threads

\* The steps of child_exec and what follows each.
LEMMA ExecOrder ==
  /\ Range(Front(ChildSteps)) = ExecSteps
  /\ Following(ChildSteps, "forked") = "setsid"
  /\ Following(ChildSteps, "setsid") = "ctty"
  /\ Following(ChildSteps, "ctty") = "stdio"
  /\ Following(ChildSteps, "stdio") = "closed"
  /\ Following(ChildSteps, "closed") = "chdir"
  /\ Following(ChildSteps, "chdir") = "running"
<1>1. DOMAIN Front(ChildSteps) = 1..6 /\ \A i \in 1..6 : Front(ChildSteps)[i] = ChildSteps[i]
  BY DEF Front, ChildSteps
<1>2. Range(Front(ChildSteps)) = ExecSteps
  BY <1>1 DEF Range, ChildSteps, ExecSteps
<1>3. ASSUME NEW i \in 1..6 PROVE Following(ChildSteps, ChildSteps[i]) = ChildSteps[i + 1]
  BY DEF Following, ChildSteps
<1> QED
  BY <1>2, <1>3 DEF ChildSteps

\* No step leaves the types or polls more often than allowed.
LEMMA TypesStep == ASSUME MaxPolls \in Nat, Types, [Next]_vars PROVE Types'
<1>1. CASE Prepare
  BY <1>1, SetupSteps DEF Types, Prepare, SetupPcs, ThreadPcs, ExecSteps, Dead, Owners,
    Descriptors, Relations, Opened, Fail, Of
<1>2. CASE Fork
  BY <1>2 DEF Types, Fork, SetupPcs, ThreadPcs, ExecSteps, Dead, Owners, Descriptors,
    Relations, Fail, Of
<1>3. CASE ReadExecError
  BY <1>3 DEF Types, ReadExecError, SetupPcs, ThreadPcs, ExecSteps, Dead, Owners,
    Descriptors, Relations
<1>4. CASE KillChild
  BY <1>4 DEF Types, KillChild, SetupPcs, ThreadPcs, ExecSteps, Dead, Owners,
    Descriptors, Relations, Signalled
<1>5. CASE ReapChildBlocking
  BY <1>5 DEF Types, ReapChildBlocking, SetupPcs, ThreadPcs, ExecSteps, Dead, Owners,
    Descriptors, Relations, Fail, Of
<1>6. CASE StartThreads
  BY <1>6, ThreadSteps DEF Types, StartThreads, SetupPcs, ThreadPcs, ExecSteps, Dead,
    Owners, Descriptors, Relations
<1>7. CASE KillPgid
  BY <1>7 DEF Types, KillPgid, SetupPcs, ThreadPcs, ExecSteps, Dead, Owners,
    Descriptors, Relations, Of
<1>8. CASE Poll
  BY <1>8 DEF Types, Poll, SetupPcs, ThreadPcs, ExecSteps, Dead, Owners, Descriptors,
    Relations, Fail, Of
<1>9. CASE JoinWaiter
  BY <1>9 DEF Types, JoinWaiter, SetupPcs, ThreadPcs, ExecSteps, Dead, Owners,
    Descriptors, Relations, Fail, Of
<1>10. CASE ExitWaiter
  BY <1>10 DEF Types, ExitWaiter, SetupPcs, ThreadPcs, ExecSteps, Dead, Owners,
    Descriptors, Relations
<1>11. CASE ReaderEnds \/ ReaderFails
  <2>1. ends' \subseteq ends /\ UNCHANGED <<pc, child, report, kin, waiter, polls>>
    BY <1>11 DEF ReaderEnds, ReaderFails
  <2> QED
    BY <2>1 DEF Types
<1>12. CASE ChildExec
  BY <1>12, ExecOrder DEF Types, ChildExec, SetupPcs, ThreadPcs, ExecSteps, Dead,
    Owners, Descriptors, Relations
<1>13. CASE ReportExecError
  BY <1>13, ExecOrder DEF Types, ReportExecError, SetupPcs, ThreadPcs, ExecSteps, Dead,
    Owners, Descriptors, Relations, Of
<1>14. CASE ChildDies
  BY <1>14 DEF Types, ChildDies, SetupPcs, ThreadPcs, ExecSteps, Dead, Owners,
    Descriptors, Relations, Of
<1>15. ASSUME NEW r \in Relations, Descend(r) PROVE Types'
  BY <1>15 DEF Types, Descend, SetupPcs, ThreadPcs, ExecSteps, Dead, Owners,
    Descriptors, Relations
<1>16. ASSUME NEW r \in Relations, KinDies(r) PROVE Types'
  BY <1>16 DEF Types, KinDies, SetupPcs, ThreadPcs, ExecSteps, Dead, Owners,
    Descriptors, Relations, Of
<1>17. CASE UNCHANGED vars
  BY <1>17 DEF Types, vars, Of, Holders, SetupPcs
<1> QED
  BY <1>1, <1>2, <1>3, <1>4, <1>5, <1>6, <1>7, <1>8, <1>9, <1>10, <1>11, <1>12, <1>13,
    <1>14, <1>15, <1>16, <1>17 DEF Next

\* The child is killed before anyone waits for it, and waited for before spawn
\* fails.
LEMMA ChildOKStep ==
  ASSUME MaxPolls \in Nat, Types, ChildOK, WaiterOK, EndsOK, [Next]_vars
  PROVE  ChildOK'
<1>1. CASE Prepare
  BY <1>1, SetupSteps DEF Types, ChildOK, WaiterOK, EndsOK, Prepare, SetupPcs,
    ThreadPcs, ExecSteps, Dead, Relations, Opened, Fail
<1>2. CASE Fork
  BY <1>2 DEF Types, ChildOK, WaiterOK, EndsOK, Fork, SetupPcs, ThreadPcs, ExecSteps,
    Dead, Relations, Fail
<1>3. CASE ReadExecError
  <2>1. Holders("write") = {} => child \notin ExecSteps
    <3>1. child \in ExecSteps => <<"child", "write">> \in Of("child")
      BY DEF EndsOK, ExecSteps
    <3>2. <<"child", "write">> \in ends => <<"child", "write">> \in Holders("write")
      BY DEF Holders
    <3> QED
      BY <3>1, <3>2 DEF Of
  <2> QED
    BY <1>3, <2>1 DEF Types, ChildOK, WaiterOK, ReadExecError, SetupPcs, ThreadPcs,
      ExecSteps, Dead
<1>4. CASE KillChild
  BY <1>4 DEF Types, ChildOK, WaiterOK, EndsOK, KillChild, SetupPcs, ThreadPcs,
    ExecSteps, Dead, Relations, Signalled
<1>5. CASE ReapChildBlocking
  BY <1>5 DEF Types, ChildOK, WaiterOK, EndsOK, ReapChildBlocking, SetupPcs, ThreadPcs,
    ExecSteps, Dead, Relations, Fail
<1>6. CASE StartThreads
  BY <1>6, ThreadSteps DEF Types, ChildOK, WaiterOK, EndsOK, StartThreads, SetupPcs,
    ThreadPcs, ExecSteps, Dead, Relations
<1>7. CASE KillPgid
  BY <1>7 DEF Types, ChildOK, WaiterOK, EndsOK, KillPgid, SetupPcs, ThreadPcs,
    ExecSteps, Dead, Relations
<1>8. CASE Poll
  BY <1>8 DEF Types, ChildOK, WaiterOK, EndsOK, Poll, SetupPcs, ThreadPcs, ExecSteps,
    Dead, Relations, Fail
<1>9. CASE JoinWaiter
  BY <1>9 DEF Types, ChildOK, WaiterOK, EndsOK, JoinWaiter, SetupPcs, ThreadPcs,
    ExecSteps, Dead, Relations, Fail
<1>10. CASE ExitWaiter
  BY <1>10 DEF Types, ChildOK, WaiterOK, EndsOK, ExitWaiter, SetupPcs, ThreadPcs,
    ExecSteps, Dead, Relations
<1>11. CASE ReaderEnds \/ ReaderFails
  BY <1>11 DEF Types, ChildOK, WaiterOK, EndsOK, ReaderEnds, ReaderFails, SetupPcs, ThreadPcs,
    ExecSteps, Dead, Relations
<1>12. CASE ChildExec
  BY <1>12, ExecOrder DEF Types, ChildOK, WaiterOK, EndsOK, ChildExec, SetupPcs,
    ThreadPcs, ExecSteps, Dead, Relations
<1>13. CASE ReportExecError
  BY <1>13, ExecOrder DEF Types, ChildOK, WaiterOK, EndsOK, ReportExecError, SetupPcs,
    ThreadPcs, ExecSteps, Dead, Relations
<1>14. CASE ChildDies
  BY <1>14 DEF Types, ChildOK, WaiterOK, EndsOK, ChildDies, SetupPcs, ThreadPcs,
    ExecSteps, Dead, Relations
<1>15. ASSUME NEW r \in Relations, Descend(r) PROVE ChildOK'
  BY <1>15 DEF Types, ChildOK, WaiterOK, EndsOK, Descend, SetupPcs, ThreadPcs,
    ExecSteps, Dead, Relations
<1>16. ASSUME NEW r \in Relations, KinDies(r) PROVE ChildOK'
  BY <1>16 DEF Types, ChildOK, WaiterOK, EndsOK, KinDies, SetupPcs, ThreadPcs,
    ExecSteps, Dead, Relations
<1>17. CASE UNCHANGED vars
  BY <1>17 DEF ChildOK, vars, Of, Holders, SetupPcs
<1> QED
  BY <1>1, <1>2, <1>3, <1>4, <1>5, <1>6, <1>7, <1>8, <1>9, <1>10, <1>11, <1>12, <1>13,
    <1>14, <1>15, <1>16, <1>17 DEF Next

\* A thread that keeps the terminal open runs only beside the exit waiter.
LEMMA WaiterOKStep ==
  ASSUME MaxPolls \in Nat, Types, ChildOK, WaiterOK, [Next]_vars
  PROVE  WaiterOK'
<1>1. CASE Prepare
  BY <1>1, SetupSteps DEF Types, ChildOK, WaiterOK, Prepare, SetupPcs, ThreadPcs,
    ExecSteps, Dead, Of, Opened, Fail
<1>2. CASE Fork
  BY <1>2 DEF Types, ChildOK, WaiterOK, Fork, SetupPcs, ThreadPcs, ExecSteps, Dead, Of,
    Fail
<1>3. CASE ReadExecError
  BY <1>3 DEF Types, ChildOK, WaiterOK, ReadExecError, SetupPcs, ThreadPcs, ExecSteps,
    Dead, Of
<1>4. CASE KillChild
  BY <1>4 DEF Types, ChildOK, WaiterOK, KillChild, SetupPcs, ThreadPcs, ExecSteps, Dead,
    Of, Signalled
<1>5. CASE ReapChildBlocking
  BY <1>5 DEF Types, ChildOK, WaiterOK, ReapChildBlocking, SetupPcs, ThreadPcs,
    ExecSteps, Dead, Of, Fail
<1>6. CASE StartThreads
  <2>1. Of("reader")' # {} => Of("reader") # {} \/ pc = "readerThread"
    BY <1>6, ThreadSteps DEF Types, StartThreads, Of, ThreadPcs
  <2>2. Of("writer")' # {} => Of("writer") # {} \/ (pc = "writerThread" /\ pc' = "session")
    BY <1>6, ThreadSteps DEF Types, StartThreads, Of, ThreadPcs
  <2>3. /\ pc \in ThreadPcs /\ pc' \in ThreadPcs \cup {"session", "abort"} /\ child' = child
        /\ waiter' = waiter \/ (pc = "exitThread" /\ waiter' = "waiting" /\ pc' = "readerThread")
        /\ pc = "readerThread" => pc' \in {"writerThread", "abort"}
        /\ pc = "writerThread" => pc' \in {"session", "abort"}
        /\ pc' = "readerThread" => waiter' = "waiting"
        /\ pc' = "writerThread" => pc = "readerThread"
    BY <1>6, ThreadSteps DEF StartThreads, ThreadPcs
  <2>4. pc = "readerThread" => waiter # "none"
    BY DEF WaiterOK
  <2> QED
    BY <2>1, <2>2, <2>3, <2>4 DEF ChildOK, WaiterOK, SetupPcs, ThreadPcs, ExecSteps, Dead
<1>7. CASE KillPgid
  BY <1>7 DEF Types, ChildOK, WaiterOK, KillPgid, SetupPcs, ThreadPcs, ExecSteps, Dead, Of
<1>8. CASE Poll
  BY <1>8 DEF Types, ChildOK, WaiterOK, Poll, SetupPcs, ThreadPcs, ExecSteps, Dead, Of,
    Fail
<1>9. CASE JoinWaiter
  BY <1>9 DEF Types, ChildOK, WaiterOK, JoinWaiter, SetupPcs, ThreadPcs, ExecSteps,
    Dead, Of, Fail
<1>10. CASE ExitWaiter
  BY <1>10 DEF Types, ChildOK, WaiterOK, ExitWaiter, SetupPcs, ThreadPcs, ExecSteps,
    Dead, Of
<1>11. CASE ReaderEnds \/ ReaderFails
  BY <1>11 DEF Types, ChildOK, WaiterOK, ReaderEnds, ReaderFails, SetupPcs, ThreadPcs, ExecSteps,
    Dead, Of
<1>12. CASE ChildExec
  BY <1>12, ExecOrder DEF Types, ChildOK, WaiterOK, ChildExec, SetupPcs, ThreadPcs,
    ExecSteps, Dead, Of
<1>13. CASE ReportExecError
  BY <1>13, ExecOrder DEF Types, ChildOK, WaiterOK, ReportExecError, SetupPcs,
    ThreadPcs, ExecSteps, Dead, Of
<1>14. CASE ChildDies
  BY <1>14 DEF Types, ChildOK, WaiterOK, ChildDies, SetupPcs, ThreadPcs, ExecSteps,
    Dead, Of
<1>15. ASSUME NEW r \in Relations, Descend(r) PROVE WaiterOK'
  <2>1. Of("reader")' = Of("reader") /\ Of("writer")' = Of("writer")
    BY <1>15 DEF Descend, Relations, Of
  <2> QED
    BY <1>15, <2>1 DEF WaiterOK, Descend
<1>16. ASSUME NEW r \in Relations, KinDies(r) PROVE WaiterOK'
  BY <1>16 DEF Types, ChildOK, WaiterOK, KinDies, SetupPcs, ThreadPcs, ExecSteps, Dead, Of
<1>17. CASE UNCHANGED vars
  BY <1>17 DEF WaiterOK, vars, Of, Holders, SetupPcs
<1> QED
  BY <1>1, <1>2, <1>3, <1>4, <1>5, <1>6, <1>7, <1>8, <1>9, <1>10, <1>11, <1>12, <1>13,
    <1>14, <1>15, <1>16, <1>17 DEF Next

\* Every descriptor is closed by whoever must close it.
LEMMA EndsOKStep ==
  ASSUME MaxPolls \in Nat, Types, ChildOK, EndsOK, [Next]_vars
  PROVE  EndsOK'
<1>1. CASE Prepare
  <2>1. pc \in SetupPcs /\ child' = child /\ child = "none" /\ Of("child") = {}
    BY <1>1, SetupSteps DEF Prepare, ChildOK, EndsOK, SetupPcs
  <2>2. ends \subseteq {"parent"} \X SetupEnds
    BY <2>1 DEF EndsOK
  <2>3. CASE pc' = "failed" /\ ends' = ends \ Of("parent")
    <3>1. ends' = {}
      BY <2>2, <2>3 DEF Of
    <3> QED
      BY <2>1, <2>3, <3>1 DEF EndsOK, SetupPcs, Of, Holders, Dead
  <2>4. CASE pc' \in SetupPcs /\ ends' = ends \cup ({"parent"} \X Opened(pc))
    <3>1. ends' \subseteq {"parent"} \X SetupEnds
      BY <2>2, <2>4 DEF Opened, SetupEnds
    <3>2. Of("child")' = {}
      BY <3>1 DEF Of
    <3>3. \A e \in ends' : e[1] = "parent" /\ e[2] # "stdio"
      BY <3>1 DEF SetupEnds
    <3>4. pc' \notin {"failed", "handshake"}
      BY <2>4 DEF SetupPcs
    <3> QED
      BY <2>1, <2>4, <3>1, <3>2, <3>3, <3>4 DEF EndsOK, Dead
  <2> QED
    BY <1>1, <2>3, <2>4, SetupSteps DEF Prepare, Fail
<1>2. CASE Fork
  BY <1>2 DEF Types, ChildOK, EndsOK, Fork, SetupPcs, ThreadPcs, ExecSteps, Dead, Of,
    Holders, Fail
<1>3. CASE ReadExecError
  BY <1>3 DEF Types, ChildOK, EndsOK, ReadExecError, SetupPcs, ThreadPcs, ExecSteps,
    Dead, Of, Holders
<1>4. CASE KillChild
  BY <1>4 DEF Types, ChildOK, EndsOK, KillChild, SetupPcs, ThreadPcs, ExecSteps, Dead,
    Of, Holders, Signalled
<1>5. CASE ReapChildBlocking
  BY <1>5 DEF Types, ChildOK, EndsOK, ReapChildBlocking, SetupPcs, ThreadPcs, ExecSteps,
    Dead, Of, Holders, Fail
<1>6. CASE StartThreads
  BY <1>6, ThreadSteps DEF Types, ChildOK, EndsOK, StartThreads, SetupPcs, ThreadPcs,
    ExecSteps, Dead, Of, Holders
<1>7. CASE KillPgid
  BY <1>7 DEF Types, ChildOK, EndsOK, KillPgid, SetupPcs, ThreadPcs, ExecSteps, Dead,
    Of, Holders
<1>8. CASE Poll
  BY <1>8 DEF Types, ChildOK, EndsOK, Poll, SetupPcs, ThreadPcs, ExecSteps, Dead, Of,
    Holders, Fail
<1>9. CASE JoinWaiter
  BY <1>9 DEF Types, ChildOK, EndsOK, JoinWaiter, SetupPcs, ThreadPcs, ExecSteps, Dead,
    Of, Holders, Fail
<1>10. CASE ExitWaiter
  BY <1>10 DEF Types, ChildOK, EndsOK, ExitWaiter, SetupPcs, ThreadPcs, ExecSteps, Dead,
    Of, Holders
<1>11. CASE ReaderEnds \/ ReaderFails
  BY <1>11 DEF Types, ChildOK, EndsOK, ReaderEnds, ReaderFails, SetupPcs, ThreadPcs, ExecSteps, Dead,
    Of, Holders
<1>12. CASE ChildExec
  BY <1>12, ExecOrder DEF Types, ChildOK, EndsOK, ChildExec, SetupPcs, ThreadPcs,
    ExecSteps, Dead, Of, Holders
<1>13. CASE ReportExecError
  BY <1>13, ExecOrder DEF Types, ChildOK, EndsOK, ReportExecError, SetupPcs, ThreadPcs,
    ExecSteps, Dead, Of, Holders
<1>14. CASE ChildDies
  BY <1>14 DEF Types, ChildOK, EndsOK, ChildDies, SetupPcs, ThreadPcs, ExecSteps, Dead,
    Of, Holders
<1>15. ASSUME NEW r \in Relations, Descend(r) PROVE EndsOK'
  BY <1>15 DEF Types, ChildOK, EndsOK, Descend, SetupPcs, ThreadPcs, ExecSteps, Dead,
    Of, Holders
<1>16. ASSUME NEW r \in Relations, KinDies(r) PROVE EndsOK'
  <2>1. Of("child")' = Of("child")
    BY <1>16 DEF KinDies, Relations, Of
  <2>2. ends' \subseteq ends
    BY <1>16 DEF KinDies
  <2> QED
    BY <1>16, <2>1, <2>2 DEF EndsOK, KinDies, Of, Holders
<1>17. CASE UNCHANGED vars
  BY <1>17 DEF EndsOK, vars, Of, Holders, SetupPcs
<1> QED
  BY <1>1, <1>2, <1>3, <1>4, <1>5, <1>6, <1>7, <1>8, <1>9, <1>10, <1>11, <1>12, <1>13,
    <1>14, <1>15, <1>16, <1>17 DEF Next

\* The inductive invariant of the start of a child, for every bound on the
\* polls: platform/macos.rs and PtySession::spawn.
THEOREM Invariant == MaxPolls \in Nat => (Spec => []IInv)
<1> SUFFICES ASSUME MaxPolls \in Nat PROVE Spec => []IInv
  OBVIOUS
<1>1. Init => IInv
  BY DEF Init, IInv, Types, ChildOK, WaiterOK, EndsOK, Of, Holders, Owners, Descriptors,
    SetupPcs, ThreadPcs, ExecSteps, Dead
<1>2. IInv /\ [Next]_vars => IInv'
  BY TypesStep, ChildOKStep, WaiterOKStep, EndsOKStep DEF IInv
<1> QED
  BY <1>1, <1>2, PTL DEF Spec

\* SpawnLeavesNothing, which the run SmallParts checks with a bound of 3, for
\* every bound on the polls: whichever system call fails, and whatever the child
\* and its descendants do meanwhile, a failed spawn leaves no child behind but
\* one that outlived the polls, no descriptor but a reader's that descendants
\* outside the process group keep busy (session.rs 656), nothing of the group
\* when it was aborted, and it never waits for what nobody will do.
THEOREM FailedSpawnsAreClean == MaxPolls \in Nat => (Spec => []SpawnLeavesNothing)
<1> SUFFICES ASSUME MaxPolls \in Nat PROVE Spec => []SpawnLeavesNothing
  OBVIOUS
<1>1. ASSUME IInv, pc = "failed", Of("reader") # {}
      PROVE  waiter = "done" /\ SlaveOpen \subseteq Of("outside")
  <2>1. waiter = "done" /\ child = "reaped" /\ "group" \notin kin
    BY <1>1 DEF IInv, Types, ChildOK, WaiterOK
  <2>2. Of("parent") = {} /\ Of("child") = {} /\ kin \subseteq {"outside"}
    BY <1>1, <2>1 DEF IInv, Types, EndsOK, Relations, Dead
  <2>3. ASSUME NEW e \in SlaveOpen PROVE e \in Of("outside")
    <3>1. e \in ends /\ e \notin Of("parent") /\ e \notin Of("child")
      BY <2>2, <2>3 DEF SlaveOpen, Holders
    <3>2. e[2] \in {"slave", "stdio"}
      BY <2>3 DEF SlaveOpen, Holders
    <3> QED
      BY <1>1, <2>2, <3>1, <3>2 DEF IInv, EndsOK, Of
  <2> QED
    BY <2>1, <2>3
<1>2. IInv => SpawnLeavesNothing
  BY <1>1 DEF IInv, Types, ChildOK, WaiterOK, EndsOK, SpawnLeavesNothing, Of, Holders,
    SetupPcs, ThreadPcs, ExecSteps, Dead
<1> QED
  BY <1>2, Invariant, PTL
==============================================================================
