----------------------------- MODULE PtySession -----------------------------
(***************************************************************************)
(* One PTY session of crate mr-crabs-pty: the child process and its kernel *)
(* terminal (environment), the reader, writer and exit-waiter threads, the *)
(* bounded channels between them, the owner of the PtySession handle, and  *)
(* a consumer that reads the channels only when an OutputWake told it to.  *)
(*                                                                         *)
(* Every step is one operation another thread can observe: a load or swap  *)
(* of the shutdown flag, one system call, one channel operation, one       *)
(* OnceLock access, one join.  Output bytes are numbered in the order they *)
(* are produced and input bytes in the order of the caller's writes, so    *)
(* loss, duplication and reordering all show.                              *)
(***************************************************************************)
EXTENDS Integers, Sequences, FiniteSets

CONSTANTS
  ReaderCap,  \* capacity of the output channel (queue.rs READER_QUEUE_CAPACITY)
  WriterCap,  \* capacity of the input channel  (queue.rs WRITER_QUEUE_CAPACITY)
  KernelCap,  \* bytes the kernel buffers in each direction of the terminal
  ChunkLen,   \* bytes of one caller's write; also the reader's buffer size
  MaxOut,     \* bound: output bytes the children produce
  MaxIn,      \* bound: writes the owner issues
  Holders,    \* processes that may keep the slave open besides the child
  Faults      \* the system calls that may fail in the threads

FaultKinds == {"fcntl", "poll", "read", "write"}

ASSUME CapAssumption ==
  /\ ReaderCap \in Nat \ {0} /\ WriterCap \in Nat \ {0}
  /\ KernelCap \in Nat \ {0} /\ ChunkLen \in Nat \ {0}
  /\ MaxOut \in Nat /\ MaxIn \in Nat
ASSUME FaultAssumption == Faults \subseteq FaultKinds
ASSUME HolderAssumption == "child" \notin Holders

NoStatus == "none"
Signals  == {"HUP", "TERM", "KILL"}
Statuses == {"exited"} \cup Signals
Byte     == Nat \ {0}

VARIABLES
  \* environment: the child, its process group and the kernel's tty buffers
  child,     \* "running", "zombie" or "reaped"
  status,    \* how the child died
  signalled, \* signals sent to the child's process group
  slave,     \* processes that hold the slave side open
  produced,  \* output bytes written to the slave so far
  kout,      \* output bytes in the kernel, not yet read from the master
  typed,     \* input bytes written to the master, in order
  kin,       \* how many of them nobody has read from the slave yet
  \* shared by the threads of the session
  shutdown,  \* PtySession.shutdown: Arc<AtomicBool>
  guard,     \* PtySession.wait_guard: Arc<OnceLock<ExitStatus>>
  inQ, inTx, inRx,    \* writer channel, whether its two ends are alive
  outQ, outTx, outRx, \* output channel, whether its two ends are alive
  exitQ,     \* exit channel, capacity 1
  woken,     \* a wake was invoked that the consumer has not reacted to
  \* the threads
  rpc, rchunk,  \* reader_loop
  wpc, wchunk,  \* writer_loop; the unwritten rest of its current chunk
  xpc, xstatus, \* exit_waiter
  \* the owner of the session handle
  opc,       \* where the owner is inside an API call
  ostatus,   \* the status waitpid returned inside try_wait
  result,    \* what shutdown_and_reap returned
  accepted,  \* history: input bytes the API answered Ok for
  writes,    \* history: how many writes were issued
  \* the consumer of the two receivers
  cpc,       \* idle, or inside one drain of the channels, or gone
  received,  \* history: output bytes delivered
  sawClosed, \* it saw the output channel disconnected
  sawExit    \* the exit status it received

childVars    == <<child, status, signalled, slave>>
kernelVars   == <<produced, kout, typed, kin>>
inVars       == <<inQ, inTx, inRx>>
outVars      == <<outQ, outTx, outRx>>
readerVars   == <<rpc, rchunk>>
writerVars   == <<wpc, wchunk>>
exitVars     == <<xpc, xstatus>>
ownerVars    == <<opc, ostatus, result, accepted, writes>>
consumerVars == <<cpc, received, sawClosed, sawExit>>
vars == <<childVars, kernelVars, shutdown, guard, inVars, outVars, exitQ, woken,
          readerVars, writerVars, exitVars, ownerVars, consumerVars>>

\* What no step of the named process changes.
EnvFrame ==
  UNCHANGED <<typed, shutdown, guard, inVars, outVars, exitQ, woken, readerVars,
              writerVars, exitVars, ownerVars, consumerVars>>
ReaderFrame ==
  UNCHANGED <<childVars, produced, typed, kin, shutdown, guard, inVars, outRx,
              exitQ, writerVars, exitVars, ownerVars, consumerVars>>
WriterFrame ==
  UNCHANGED <<childVars, produced, kout, shutdown, guard, inTx, outVars, exitQ,
              woken, readerVars, exitVars, ownerVars, consumerVars>>
ExitFrame ==
  UNCHANGED <<status, signalled, slave, kernelVars, shutdown, inVars, outVars,
              readerVars, writerVars, ownerVars, consumerVars>>
OwnerFrame ==
  UNCHANGED <<status, slave, kernelVars, inRx, outVars, exitQ, woken, readerVars,
              writerVars, exitVars, consumerVars>>
ConsumerFrame ==
  UNCHANGED <<childVars, kernelVars, shutdown, guard, inVars, outTx, readerVars,
              writerVars, exitVars, ownerVars>>

-----------------------------------------------------------------------------
\* Mutant: the bound is off by one.
OutHasRoomOffByOne == Len(outQ) <= ReaderCap

\* SyncSender::try_send finds room in the bounded channel.
OutHasRoom == Len(outQ) < ReaderCap
InHasRoom  == Len(inQ) < WriterCap

\* invoke_output_wake: carries nothing; the listener coalesces.
Wake == woken' = TRUE

\* The bytes of the n-th write.
InputChunk(n) == [i \in 1..ChunkLen |-> (n - 1) * ChunkLen + i]

\* The bytes of a queue of chunks, in order.
Flatten(q) ==
  LET f[i \in 0..Len(q)] == IF i = 0 THEN <<>> ELSE f[i - 1] \o q[i]
  IN  f[Len(q)]

Init ==
  /\ child = "running" /\ status = NoStatus /\ signalled = {}
  /\ slave = {"child"} \cup Holders
  /\ produced = 0 /\ kout = <<>> /\ typed = <<>> /\ kin = 0
  /\ shutdown = FALSE /\ guard = NoStatus
  /\ inQ = <<>> /\ inTx = TRUE /\ inRx = TRUE
  /\ outQ = <<>> /\ outTx = TRUE /\ outRx = TRUE
  /\ exitQ = <<>> /\ woken = FALSE
  /\ rpc = "start" /\ rchunk = <<>>
  /\ wpc = "start" /\ wchunk = <<>>
  /\ xpc = "start" /\ xstatus = NoStatus
  /\ opc = "idle" /\ ostatus = NoStatus /\ result = NoStatus
  /\ accepted = <<>> /\ writes = 0
  /\ cpc = "idle" /\ received = <<>> /\ sawClosed = FALSE /\ sawExit = NoStatus

-----------------------------------------------------------------------------
(* Environment: the child, its descendants and the kernel.                 *)

\* Whoever holds the slave writes a byte of output while the tty has room.
SlaveWrites ==
  /\ slave # {} /\ produced < MaxOut /\ Len(kout) < KernelCap
  /\ produced' = produced + 1
  /\ kout' = Append(kout, produced + 1)
  /\ UNCHANGED <<childVars, kin>> /\ EnvFrame

\* Whoever holds the slave reads a byte of input.
SlaveReads ==
  /\ slave # {} /\ kin > 0
  /\ kin' = kin - 1
  /\ UNCHANGED <<childVars, produced, kout>> /\ EnvFrame

\* The child ends by itself or by a signal sent to its group; its own
\* descriptors close, while descendants may go on holding the slave.
ChildDies(how) ==
  /\ child = "running"
  /\ how \in {"exited"} \cup signalled
  /\ child' = "zombie" /\ status' = how
  /\ slave' = slave \ {"child"}
  /\ UNCHANGED <<signalled, produced, kout, kin>> /\ EnvFrame

SlaveCloses(h) ==
  /\ h \in slave
  /\ slave' = slave \ {h}
  /\ UNCHANGED <<child, status, signalled, produced, kout, kin>> /\ EnvFrame

Environment ==
  \/ SlaveWrites \/ SlaveReads
  \/ \E how \in Statuses : ChildDies(how)
  \/ \E h \in {"child"} \cup Holders : SlaveCloses(h)

-----------------------------------------------------------------------------
(* reader_loop: master output -> bounded output channel.                   *)

ReaderStart ==
  /\ rpc = "start"
  /\ \/ rpc' = "check"
     \/ "fcntl" \in Faults /\ rpc' = "drop"
  /\ UNCHANGED <<rchunk, kout, outQ, outTx, woken>> /\ ReaderFrame

ReaderCheck ==
  /\ rpc = "check"
  /\ rpc' = IF shutdown THEN "drop" ELSE "read"
  /\ UNCHANGED <<rchunk, kout, outQ, outTx, woken>> /\ ReaderFrame

\* Mutant: the next read begins at the last byte of this one.
ReaderReadsOverlapping ==
  /\ rpc = "read" /\ rpc' = "send"
  /\ \E n \in 1..Len(kout) :
       rchunk' = SubSeq(kout, 1, n) /\ kout' = SubSeq(kout, n, Len(kout))
  /\ UNCHANGED <<outQ, outTx, woken>> /\ ReaderFrame

\* A read of up to ChunkLen bytes.
ReaderReads ==
  /\ rpc = "read" /\ kout # <<>>
  /\ \E n \in 1..ChunkLen :
       /\ n <= Len(kout)
       /\ rchunk' = SubSeq(kout, 1, n)
       /\ kout' = SubSeq(kout, n + 1, Len(kout))
  /\ rpc' = "send"
  /\ UNCHANGED <<outQ, outTx, woken>> /\ ReaderFrame

\* EAGAIN polls; EOF, EIO and any other error end the loop.
ReaderReadsNothing ==
  /\ rpc = "read"
  /\ \/ kout = <<>> /\ slave # {} /\ rpc' = "poll"
     \/ kout = <<>> /\ slave = {} /\ rpc' = "drop"
     \/ "read" \in Faults /\ rpc' = "drop"
  /\ UNCHANGED <<rchunk, kout, outQ, outTx, woken>> /\ ReaderFrame

\* wait_until_ready: ready and timed out alike return to the flag check.
ReaderPoll ==
  /\ rpc = "poll"
  /\ \/ rpc' = "check"
     \/ "poll" \in Faults /\ rpc' = "drop"
  /\ UNCHANGED <<rchunk, kout, outQ, outTx, woken>> /\ ReaderFrame

\* One try_send of the chunk.  Full keeps the chunk, a dropped receiver
\* discards it so that the child never blocks on a full terminal.
ReaderSend ==
  /\ rpc = "send"
  /\ \/ /\ outRx /\ OutHasRoom
        /\ outQ' = Append(outQ, rchunk) /\ rchunk' = <<>> /\ rpc' = "wake"
     \/ /\ outRx /\ ~OutHasRoom
        /\ rpc' = "full" /\ UNCHANGED <<outQ, rchunk>>
     \/ /\ ~outRx
        /\ rchunk' = <<>> /\ rpc' = "check" /\ UNCHANGED outQ
  /\ UNCHANGED <<kout, outTx, woken>> /\ ReaderFrame

\* Mutant: a chunk is enqueued without a wake.
ReaderForgetsWake ==
  /\ rpc = "wake" /\ rpc' = "check"
  /\ UNCHANGED <<rchunk, kout, outQ, outTx, woken>> /\ ReaderFrame

ReaderWake ==
  /\ rpc = "wake"
  /\ Wake /\ rpc' = "check"
  /\ UNCHANGED <<rchunk, kout, outQ, outTx>> /\ ReaderFrame

\* Mutant: the retry loop does not look at the shutdown flag.
ReaderFullForever ==
  /\ rpc = "full" /\ rpc' = "send"
  /\ UNCHANGED <<rchunk, kout, outQ, outTx, woken>> /\ ReaderFrame

\* Queue full: give the chunk up at shutdown, else sleep and try again.
ReaderFull ==
  /\ rpc = "full"
  /\ rpc' = IF shutdown THEN "drop" ELSE "send"
  /\ UNCHANGED <<rchunk, kout, outQ, outTx, woken>> /\ ReaderFrame

\* Mutant: the reader ends without the wake that announces it.
ReaderEndsUnheard ==
  /\ rpc = "drop" /\ outTx' = FALSE /\ rpc' = "done"
  /\ UNCHANGED <<rchunk, kout, outQ, woken>> /\ ReaderFrame

ReaderDropTx ==
  /\ rpc = "drop"
  /\ outTx' = FALSE /\ rpc' = "lastwake"
  /\ UNCHANGED <<rchunk, kout, outQ, woken>> /\ ReaderFrame

ReaderLastWake ==
  /\ rpc = "lastwake"
  /\ Wake /\ rpc' = "done"
  /\ UNCHANGED <<rchunk, kout, outQ, outTx>> /\ ReaderFrame

Reader ==
  \/ ReaderStart \/ ReaderCheck \/ ReaderReads \/ ReaderReadsNothing
  \/ ReaderPoll \/ ReaderSend \/ ReaderWake \/ ReaderFull
  \/ ReaderDropTx \/ ReaderLastWake

-----------------------------------------------------------------------------
(* writer_loop: bounded input channel -> master.                           *)

\* Returning drops the receiver and whatever is still queued.
WriterReturns == wpc' = "done" /\ inRx' = FALSE /\ inQ' = <<>>

WriterStart ==
  /\ wpc = "start"
  /\ \/ wpc' = "check" /\ UNCHANGED <<inQ, inRx>>
     \/ "fcntl" \in Faults /\ WriterReturns
  /\ UNCHANGED <<wchunk, typed, kin>> /\ WriterFrame

WriterCheck ==
  /\ wpc = "check"
  /\ IF shutdown THEN WriterReturns ELSE wpc' = "recv" /\ UNCHANGED <<inQ, inRx>>
  /\ UNCHANGED <<wchunk, typed, kin>> /\ WriterFrame

\* recv blocks while the queue is empty and its sender alive.
WriterRecv ==
  /\ wpc = "recv"
  /\ \/ /\ inQ # <<>>
        /\ wchunk' = Head(inQ) /\ inQ' = Tail(inQ) /\ wpc' = "more"
        /\ UNCHANGED inRx
     \/ inQ = <<>> /\ ~inTx /\ WriterReturns /\ UNCHANGED wchunk
  /\ UNCHANGED <<typed, kin>> /\ WriterFrame

\* Head of the inner loop: chunk finished, or abandoned at shutdown.
WriterMore ==
  /\ wpc = "more"
  /\ IF wchunk = <<>> \/ shutdown
       THEN wpc' = "check" /\ wchunk' = <<>>
       ELSE wpc' = "write" /\ UNCHANGED wchunk
  /\ UNCHANGED <<inQ, inRx, typed, kin>> /\ WriterFrame

\* Mutant: a partial write counts as a whole one.
WriterForgetsRest ==
  /\ wpc = "write" /\ kin < KernelCap
  /\ typed' = Append(typed, Head(wchunk)) /\ kin' = kin + 1
  /\ wchunk' = <<>> /\ wpc' = "more"
  /\ UNCHANGED <<inQ, inRx>> /\ WriterFrame

\* write(2) takes any non-empty prefix the terminal has room for.
WriterWrites ==
  /\ wpc = "write"
  /\ \E n \in 1..Len(wchunk) :
       /\ kin + n <= KernelCap
       /\ typed' = typed \o SubSeq(wchunk, 1, n)
       /\ kin' = kin + n
       /\ wchunk' = SubSeq(wchunk, n + 1, Len(wchunk))
  /\ wpc' = "more"
  /\ UNCHANGED <<inQ, inRx>> /\ WriterFrame

WriterWritesNothing ==
  /\ wpc = "write"
  /\ \/ kin = KernelCap /\ wpc' = "poll" /\ UNCHANGED <<inQ, inRx>>
     \/ ("write" \in Faults \/ slave = {}) /\ WriterReturns
  /\ UNCHANGED <<wchunk, typed, kin>> /\ WriterFrame

WriterPoll ==
  /\ wpc = "poll"
  /\ \/ wpc' = "more" /\ UNCHANGED <<inQ, inRx>>
     \/ "poll" \in Faults /\ WriterReturns
  /\ UNCHANGED <<wchunk, typed, kin>> /\ WriterFrame

Writer ==
  \/ WriterStart \/ WriterCheck \/ WriterRecv \/ WriterMore
  \/ WriterWrites \/ WriterWritesNothing \/ WriterPoll

-----------------------------------------------------------------------------
(* exit_waiter: reap, cache, publish, wake - in this order.                *)

ExitStart ==
  /\ xpc = "start"
  /\ xstatus' = guard
  /\ xpc' = IF guard # NoStatus THEN "publish" ELSE "waitpid"
  /\ UNCHANGED <<child, guard, exitQ, woken>> /\ ExitFrame

\* waitpid_block: the kernel gives the status to one caller, ECHILD to others.
ExitWaitpid ==
  /\ xpc = "waitpid"
  /\ \/ /\ child = "zombie"
        /\ child' = "reaped" /\ xstatus' = status /\ xpc' = "set"
     \/ /\ child = "reaped"
        /\ xpc' = "spin" /\ UNCHANGED <<child, xstatus>>
  /\ UNCHANGED <<guard, exitQ, woken>> /\ ExitFrame

\* OnceLock::set keeps an earlier value; the canonical one is published.
ExitSet ==
  /\ xpc = "set"
  /\ guard' = IF guard = NoStatus THEN xstatus ELSE guard
  /\ xstatus' = guard' /\ xpc' = "publish"
  /\ UNCHANGED <<child, exitQ, woken>> /\ ExitFrame

\* ECHILD: sleep until the winner has cached the status.
ExitSpin ==
  /\ xpc = "spin" /\ guard # NoStatus
  /\ xstatus' = guard /\ xpc' = "publish"
  /\ UNCHANGED <<child, guard, exitQ, woken>> /\ ExitFrame

ExitPublish ==
  /\ xpc = "publish"
  /\ exitQ' = Append(exitQ, xstatus) /\ xpc' = "wake"
  /\ UNCHANGED <<child, guard, xstatus, woken>> /\ ExitFrame

ExitWake ==
  /\ xpc = "wake"
  /\ Wake /\ xpc' = "done"
  /\ UNCHANGED <<child, guard, xstatus, exitQ>> /\ ExitFrame

ExitWaiter ==
  \/ ExitStart \/ ExitWaitpid \/ ExitSet \/ ExitSpin \/ ExitPublish \/ ExitWake

-----------------------------------------------------------------------------
(* The owner of the handle.  Writes: try_write, write_timeout, write.      *)

\* One try_send of the current write's chunk, and what it answers.
Enqueue ==
  IF inTx /\ inRx /\ InHasRoom
    THEN /\ inQ' = Append(inQ, InputChunk(writes'))
         /\ accepted' = accepted \o InputChunk(writes')
    ELSE UNCHANGED <<inQ, accepted>>

TryWrite ==
  /\ opc = "idle" /\ writes < MaxIn
  /\ writes' = writes + 1
  /\ Enqueue
  /\ UNCHANGED <<child, signalled, shutdown, guard, inTx, opc, ostatus, result>>
  /\ OwnerFrame

\* write_timeout ("sendtimeout") and write ("send") enter their waiting loop.
WriteBegin(how) ==
  /\ opc = "idle" /\ writes < MaxIn
  /\ writes' = writes + 1 /\ opc' = how
  /\ UNCHANGED <<child, signalled, shutdown, guard, inQ, inTx, ostatus, result,
                 accepted>>
  /\ OwnerFrame

\* The loop ends with the chunk accepted, or because the queue is closed.
WriteEnd ==
  /\ opc \in {"send", "sendtimeout"}
  /\ InHasRoom \/ ~inTx \/ ~inRx
  /\ writes' = writes /\ Enqueue /\ opc' = "idle"
  /\ UNCHANGED <<child, signalled, shutdown, guard, inTx, ostatus, result>>
  /\ OwnerFrame

\* The deadline of write_timeout passes on a queue found full.
WriteExpires ==
  /\ opc = "sendtimeout" /\ inTx /\ inRx /\ ~InHasRoom
  /\ opc' = "idle"
  /\ UNCHANGED <<child, signalled, shutdown, guard, inQ, inTx, ostatus, result,
                 accepted, writes>>
  /\ OwnerFrame

-----------------------------------------------------------------------------
(* The owner: try_wait.  Its steps serve the API call (prefix "tw") and    *)
(* the grace loop of shutdown_and_reap (prefix "sd").                      *)

TryWaitBegin ==
  /\ opc = "idle" /\ guard = NoStatus
  /\ opc' = "tw_waitpid"
  /\ UNCHANGED <<child, signalled, shutdown, guard, inQ, inTx, ostatus, result,
                 accepted, writes>>
  /\ OwnerFrame

\* waitpid_nonblock: a zombie is reaped; running and ECHILD are both None.
TryWaitpid ==
  /\ opc \in {"tw_waitpid", "sd_waitpid"}
  /\ IF child = "zombie"
       THEN /\ child' = "reaped" /\ ostatus' = status
            /\ opc' = IF opc = "tw_waitpid" THEN "tw_set" ELSE "sd_set"
       ELSE /\ opc' = IF opc = "tw_waitpid" THEN "idle" ELSE "sd_sleep"
            /\ UNCHANGED <<child, ostatus>>
  /\ UNCHANGED <<signalled, shutdown, guard, inQ, inTx, result, accepted, writes>>
  /\ OwnerFrame

\* Mutant: the status is returned but not cached.
TryWaitForgets ==
  /\ opc \in {"tw_set", "sd_set"}
  /\ opc' = IF opc = "tw_set" THEN "idle" ELSE "sd_joinexit"
  /\ UNCHANGED <<child, guard, signalled, shutdown, inQ, inTx, ostatus, result,
                 accepted, writes>>
  /\ OwnerFrame

TryWaitSet ==
  /\ opc \in {"tw_set", "sd_set"}
  /\ guard' = IF guard = NoStatus THEN ostatus ELSE guard
  /\ opc' = IF opc = "tw_set" THEN "idle" ELSE "sd_joinexit"
  /\ UNCHANGED <<child, signalled, shutdown, inQ, inTx, ostatus, result,
                 accepted, writes>>
  /\ OwnerFrame

-----------------------------------------------------------------------------
(* The owner: shutdown_and_reap, which Drop runs as well.                  *)

ShutdownFrame == UNCHANGED <<ostatus, accepted, writes>> /\ OwnerFrame

\* The swap of the flag decides the first caller.
ShutdownBegin ==
  /\ opc = "idle" /\ ~shutdown
  /\ shutdown' = TRUE /\ opc' = "sd_closetx"
  /\ UNCHANGED <<child, signalled, guard, inQ, inTx, result>> /\ ShutdownFrame

\* A later call answers from the cache and signals nobody.
ShutdownAgain ==
  /\ opc = "idle" /\ shutdown
  /\ result' = IF guard # NoStatus THEN guard ELSE "in progress"
  /\ UNCHANGED <<child, signalled, shutdown, guard, inQ, inTx, opc>>
  /\ ShutdownFrame

ShutdownClosesTx ==
  /\ opc = "sd_closetx"
  /\ inTx' = FALSE /\ opc' = "sd_joinwriter"
  /\ UNCHANGED <<child, signalled, shutdown, guard, inQ, result>> /\ ShutdownFrame

\* Join the writer and close the session's own master handle.
ShutdownJoinsWriter ==
  /\ opc = "sd_joinwriter" /\ wpc = "done"
  /\ opc' = "sd_hup"
  /\ UNCHANGED <<child, signalled, shutdown, guard, inQ, inTx, result>>
  /\ ShutdownFrame

\* kill_pgid: SIGHUP, SIGTERM, later SIGKILL; the outcome is ignored.
ShutdownSignals(at, signal, next) ==
  /\ opc = at
  /\ signalled' = signalled \cup {signal} /\ opc' = next
  /\ UNCHANGED <<child, shutdown, guard, inQ, inTx, result>> /\ ShutdownFrame

\* One round of the grace loop: the cached status ends it.
ShutdownPolls ==
  /\ opc = "sd_poll"
  /\ opc' = IF guard # NoStatus THEN "sd_joinexit" ELSE "sd_waitpid"
  /\ UNCHANGED <<child, signalled, shutdown, guard, inQ, inTx, result>>
  /\ ShutdownFrame

\* Sleep 10 ms and poll again, or find the deadline passed.
ShutdownSleeps(next) ==
  /\ opc = "sd_sleep"
  /\ opc' = next
  /\ UNCHANGED <<child, signalled, shutdown, guard, inQ, inTx, result>>
  /\ ShutdownFrame

\* Mutant: the exit waiter is not joined.
ShutdownSkipsExitWaiter ==
  /\ opc = "sd_joinexit" /\ opc' = "sd_joinreader"
  /\ UNCHANGED <<child, signalled, shutdown, guard, inQ, inTx, result>>
  /\ ShutdownFrame

ShutdownJoinsExit ==
  /\ opc = "sd_joinexit" /\ xpc = "done"
  /\ opc' = "sd_joinreader"
  /\ UNCHANGED <<child, signalled, shutdown, guard, inQ, inTx, result>>
  /\ ShutdownFrame

\* Join the reader and return the cached status; without one, a last
\* waitpid_nonblock, and without its status an error.
ShutdownReturns ==
  /\ opc = "sd_joinreader" /\ rpc = "done"
  /\ IF guard = NoStatus /\ child = "zombie"
       THEN guard' = status /\ child' = "reaped"
       ELSE UNCHANGED <<guard, child>>
  /\ result' = IF guard' # NoStatus THEN guard' ELSE "lost"
  /\ opc' = "idle"
  /\ UNCHANGED <<signalled, shutdown, inQ, inTx>> /\ ShutdownFrame

\* The steps of a call in progress, except the passing of a deadline.
OwnerContinues ==
  \/ WriteEnd \/ TryWaitpid \/ TryWaitSet
  \/ ShutdownClosesTx \/ ShutdownJoinsWriter
  \/ ShutdownSignals("sd_hup", "HUP", "sd_term")
  \/ ShutdownSignals("sd_term", "TERM", "sd_poll")
  \/ ShutdownPolls
  \/ ShutdownSleeps("sd_poll")
  \/ ShutdownSignals("sd_kill", "KILL", "sd_joinexit")
  \/ ShutdownJoinsExit \/ ShutdownReturns

GraceExpires == ShutdownSleeps("sd_kill")

\* The calls the owner may make, or never make.
OwnerCalls ==
  \/ TryWrite \/ WriteBegin("send") \/ WriteBegin("sendtimeout")
  \/ TryWaitBegin \/ ShutdownBegin \/ ShutdownAgain

-----------------------------------------------------------------------------
(* The consumer of the receivers: reacts to wakes and to nothing else.     *)

ConsumerStarts ==
  /\ cpc = "idle" /\ woken
  /\ woken' = FALSE /\ cpc' = "drain"
  /\ UNCHANGED <<outQ, outRx, exitQ, received, sawClosed, sawExit>>
  /\ ConsumerFrame

\* try_recv on the output channel: a chunk, Empty or Disconnected.
ConsumerReceives ==
  /\ cpc = "drain"
  /\ \/ /\ outQ # <<>>
        /\ received' = received \o Head(outQ) /\ outQ' = Tail(outQ)
        /\ UNCHANGED <<sawClosed, cpc>>
     \/ /\ outQ = <<>>
        /\ sawClosed' = ~outTx /\ cpc' = "exit"
        /\ UNCHANGED <<received, outQ>>
  /\ UNCHANGED <<woken, outRx, exitQ, sawExit>> /\ ConsumerFrame

\* try_recv on the exit channel.
ConsumerPollsExit ==
  /\ cpc = "exit"
  /\ IF exitQ # <<>>
       THEN sawExit' = Head(exitQ) /\ exitQ' = Tail(exitQ)
       ELSE UNCHANGED <<sawExit, exitQ>>
  /\ cpc' = "idle"
  /\ UNCHANGED <<woken, outQ, outRx, received, sawClosed>> /\ ConsumerFrame

\* The receivers are dropped with what they hold.
ConsumerGoes ==
  /\ cpc = "idle"
  /\ cpc' = "gone" /\ outRx' = FALSE /\ outQ' = <<>>
  /\ UNCHANGED <<woken, exitQ, received, sawClosed, sawExit>> /\ ConsumerFrame

Consumer == ConsumerStarts \/ ConsumerReceives \/ ConsumerPollsExit

-----------------------------------------------------------------------------
Owner == OwnerCalls \/ OwnerContinues \/ WriteExpires \/ GraceExpires

Next ==
  \/ Environment \/ Reader \/ Writer \/ ExitWaiter \/ Owner
  \/ Consumer \/ ConsumerGoes

\* The three threads and the thread inside an API call are scheduled by the
\* operating system, deadlines pass, and SIGKILL cannot be ignored.  Nothing
\* obliges the child to read, write or exit, the owner to call, the other
\* holders to close, or the consumer to listen.
Fairness ==
  /\ WF_vars(Reader) /\ WF_vars(Writer) /\ WF_vars(ExitWaiter)
  /\ WF_vars(OwnerContinues) /\ WF_vars(WriteExpires) /\ SF_vars(GraceExpires)
  /\ WF_vars(ChildDies("KILL"))

Spec == Init /\ [][Next]_vars

-----------------------------------------------------------------------------
ReaderPcs == {"start", "check", "read", "poll", "send", "full", "wake", "drop",
              "lastwake", "done"}
WriterPcs == {"start", "check", "recv", "more", "write", "poll", "done"}
ExitPcs   == {"start", "waitpid", "set", "spin", "publish", "wake", "done"}
SdPcs     == {"sd_closetx", "sd_joinwriter", "sd_hup", "sd_term", "sd_poll",
              "sd_waitpid", "sd_set", "sd_sleep", "sd_kill", "sd_joinexit",
              "sd_joinreader"}
OwnerPcs  == {"idle", "send", "sendtimeout", "tw_waitpid", "tw_set"} \cup SdPcs
MaybeStatus == Statuses \cup {NoStatus}

\* Every variable has its type; channels and kernel buffers stay bounded.
EnvTypeOK ==
  /\ child \in {"running", "zombie", "reaped"} /\ status \in MaybeStatus
  /\ signalled \subseteq Signals /\ slave \subseteq {"child"} \cup Holders
  /\ produced \in Nat /\ kout \in Seq(Byte) /\ Len(kout) <= KernelCap
  /\ typed \in Seq(Byte) /\ kin \in 0..KernelCap
ChannelTypeOK ==
  /\ inQ \in Seq(Seq(Byte)) /\ Len(inQ) <= WriterCap
  /\ outQ \in Seq(Seq(Byte)) /\ Len(outQ) <= ReaderCap
  /\ exitQ \in Seq(MaybeStatus) /\ Len(exitQ) <= 1
FlagTypeOK ==
  /\ shutdown \in BOOLEAN /\ woken \in BOOLEAN /\ sawClosed \in BOOLEAN
  /\ inTx \in BOOLEAN /\ inRx \in BOOLEAN
  /\ outTx \in BOOLEAN /\ outRx \in BOOLEAN
ThreadTypeOK ==
  /\ rpc \in ReaderPcs /\ rchunk \in Seq(Byte)
  /\ wpc \in WriterPcs /\ wchunk \in Seq(Byte)
  /\ xpc \in ExitPcs /\ xstatus \in MaybeStatus /\ guard \in MaybeStatus
CallerTypeOK ==
  /\ opc \in OwnerPcs /\ ostatus \in MaybeStatus
  /\ result \in MaybeStatus \cup {"in progress", "lost"}
  /\ accepted \in Seq(Byte) /\ writes \in Nat
  /\ opc \in {"send", "sendtimeout"} => writes # 0
  /\ cpc \in {"idle", "drain", "exit", "gone"} /\ received \in Seq(Byte)
  /\ sawExit \in MaybeStatus
TypeOK == EnvTypeOK /\ ChannelTypeOK /\ FlagTypeOK /\ ThreadTypeOK /\ CallerTypeOK

\* The two reapers race for one status and every observer gets that one: the
\* cache, the exit channel, its receiver and the result of every shutdown call
\* agree with what the kernel reported, and none exists before the reap.
OneStatus ==
  /\ \A s \in {guard, sawExit, result} : s # NoStatus => s = status /\ child = "reaped"
  /\ \A i \in 1..Len(exitQ) : exitQ[i] = status /\ guard = status

\* The status the kernel gives out once is never lost on the way to the
\* cache: whoever reaped the child is about to cache it.  Without this the
\* exit waiter would sleep for ever after ECHILD, and shutdown with it.
ReapedStatusHeld ==
  child = "reaped" =>
    \/ guard # NoStatus
    \/ xpc = "set" /\ xstatus = status
    \/ opc \in {"tw_set", "sd_set"} /\ ostatus = status

\* The race for the status has one outcome and none is lost in it.
StatusKept == OneStatus /\ ReapedStatusHeld

\* A consumer that looks only when woken misses nothing: whatever it has not
\* seen yet - a queued chunk, the end of the output, the exit status - is
\* covered by a wake it has not consumed, by its own drain in progress, or by
\* a thread that is still going to wake it.
NoLostWake ==
  cpc # "gone" =>
    LET awake == woken \/ cpc = "drain"
    IN  /\ outQ # <<>> => awake \/ rpc = "wake"
        /\ ~outTx /\ ~sawClosed => awake \/ rpc = "lastwake"
        /\ exitQ # <<>> => awake \/ cpc = "exit" \/ xpc = "wake"

\* Output is lost only at shutdown or with the receiver: until then all that
\* was written to the slave is delivered, queued, in the reader's hands or left
\* in the kernel, in order, whichever system calls fail.
OutputKept ==
  ~shutdown /\ outRx =>
    received \o Flatten(outQ) \o rchunk \o kout = [i \in 1..produced |-> i]

\* While the writer runs and no shutdown began, every accepted byte is typed,
\* in the writer's hands or queued - in the order of the calls.
AcceptedInputKept ==
  wpc # "done" /\ ~shutdown => accepted = typed \o wchunk \o Flatten(inQ)

\* Neither direction loses, repeats or reorders a byte on its way.
BytesKept == OutputKept /\ AcceptedInputKept

\* When shutdown_and_reap has returned, no thread of the session is left, the
\* child is reaped and the status is the one published: nothing in the session
\* can still touch the process or the descriptors.
ShutdownLeavesNothing ==
  shutdown /\ opc = "idle" =>
    /\ rpc = "done" /\ wpc = "done" /\ xpc = "done"
    /\ child = "reaped" /\ guard = status

\* The terminate sequence keeps its order: nobody is killed before being asked
\* (HUP, then TERM), and no signal at all is sent before the input queue is
\* closed and its writer gone.
SignalsEscalate ==
  /\ "TERM" \in signalled => "HUP" \in signalled
  /\ "KILL" \in signalled => "TERM" \in signalled
  /\ signalled # {} => ~inTx /\ wpc = "done"

\* Shutdown goes step by step and finishes each before the next.
ShutdownInOrder == ShutdownLeavesNothing /\ SignalsEscalate

\* Every call but the blocking write returns: a shutdown whatever state the
\* threads, the child and the other holders of the slave are in, a write with
\* a deadline whether or not anybody reads the terminal.
CallsReturn == []<>(opc \in {"idle", "send"})

\* Both directions are ordered byte streams: see ByteStream.
Output == INSTANCE ByteStream WITH sent <- [i \in 1..produced |-> i], got <- received
Input  == INSTANCE ByteStream WITH sent <- accepted, got <- typed
AreByteStreams == Output!Spec /\ Input!Spec
=============================================================================
