-------------------------- MODULE PtySessionProofs --------------------------
(***************************************************************************)
(* What holds of a PTY session for every capacity, chunk size, number of   *)
(* outputs and writes, set of processes that hold the slave and set of     *)
(* failing system calls: the types, one exit status for every observer,    *)
(* the order of the terminate sequence and what shutdown leaves behind.    *)
(*                                                                         *)
(* And of its bytes: what was received is the beginning of what was        *)
(* produced, what was typed the beginning of what was accepted, nothing is *)
(* lost or reordered on the way while both ends live, and both directions  *)
(* implement the abstract ByteStream.                                      *)
(***************************************************************************)
EXTENDS PtySession, SequenceTheorems, FiniteSetTheorems, TLAPS

\* What the threads that may reap the child hold on to, by where they are.
StatusOK ==
  /\ child = "running" <=> status = NoStatus
  /\ guard # NoStatus => guard = status /\ child = "reaped"
  /\ xpc = "set" => xstatus = status /\ child = "reaped"
  /\ xpc \in {"publish", "wake", "done"} => guard # NoStatus /\ xstatus = guard
  /\ opc \in {"tw_set", "sd_set"} => ostatus = status /\ child = "reaped"
  /\ ReapedStatusHeld

\* The exit channel carries one status, once, and its receiver keeps it.
ExitOK ==
  /\ xpc \notin {"wake", "done"} => exitQ = <<>> /\ sawExit = NoStatus
  /\ exitQ # <<>> => exitQ = <<status>> /\ guard # NoStatus /\ sawExit = NoStatus
  /\ sawExit # NoStatus => sawExit = status /\ guard # NoStatus /\ exitQ = <<>>

\* Which of its phases shutdown is in, and what each phase has already done.
WriterJoined == SdPcs \ {"sd_closetx", "sd_joinwriter"}
HupSent      == WriterJoined \ {"sd_hup"}
TermSent     == HupSent \ {"sd_term"}
Ended        == shutdown /\ opc \notin SdPcs

PhaseOK ==
  /\ opc \in SdPcs => shutdown
  /\ opc \in {"sd_joinwriter"} \cup WriterJoined \/ Ended => ~inTx
  /\ opc \in WriterJoined \/ Ended => wpc = "done"
  /\ opc \in HupSent \/ Ended => "HUP" \in signalled
  /\ opc \in TermSent \/ Ended => "TERM" \in signalled
  /\ signalled # {} => opc \in HupSent \/ Ended
  /\ "KILL" \in signalled => "TERM" \in signalled
  /\ opc = "sd_joinreader" \/ Ended => xpc = "done"
  /\ Ended => rpc = "done"
  /\ result # NoStatus => result = status /\ guard # NoStatus

IInv == TypeOK /\ StatusOK /\ ExitOK /\ PhaseOK

-----------------------------------------------------------------------------
(* Types.                                                                  *)

\* Cutting a sequence after its n-th element leaves two sequences, the second
\* no longer than the whole: a read or a write of n bytes.
LEMMA SplitSeq ==
  ASSUME NEW S, NEW s \in Seq(S), NEW n \in 1..Len(s)
  PROVE  /\ SubSeq(s, 1, n) \in Seq(S)
         /\ SubSeq(s, n + 1, Len(s)) \in Seq(S)
         /\ Len(SubSeq(s, n + 1, Len(s))) <= Len(s)
  OBVIOUS

\* A write's chunk is a sequence of bytes.
LEMMA InputChunkType == ASSUME NEW n \in Nat \ {0} PROVE InputChunk(n) \in Seq(Byte)
<1>1. (n - 1) * ChunkLen \in Nat
  BY CapAssumption
<1>2. \A i \in 1..ChunkLen : (n - 1) * ChunkLen + i \in Byte
  BY <1>1, CapAssumption DEF Byte
<1> QED
  BY <1>2, CapAssumption DEF InputChunk

\* No step of the reader thread changes what is not the reader's.
LEMMA ReaderKeeps == Reader => ReaderFrame
  BY DEF Reader, ReaderStart, ReaderCheck, ReaderReads, ReaderReadsNothing,
    ReaderPoll, ReaderSend, ReaderWake, ReaderFull, ReaderDropTx, ReaderLastWake

\* The reader keeps the types: reads and retained chunks are byte sequences and
\* the output channel never exceeds its capacity.
LEMMA ReaderTypes == TypeOK /\ Reader => TypeOK'
<1> SUFFICES ASSUME TypeOK, Reader PROVE TypeOK'
  OBVIOUS
<1> USE DEF TypeOK
<1>0. ReaderFrame
  BY ReaderKeeps
<1>1. EnvTypeOK'
  <2>1. CASE ReaderReads
    <3>1. PICK n \in 1..ChunkLen : n <= Len(kout) /\ kout' = SubSeq(kout, n + 1, Len(kout))
      BY <2>1 DEF ReaderReads
    <3>2. kout \in Seq(Byte) /\ n \in 1..Len(kout)
      BY <3>1, CapAssumption DEF EnvTypeOK
    <3>3. kout' \in Seq(Byte) /\ Len(kout') <= KernelCap
      BY <3>1, <3>2, SplitSeq, CapAssumption DEF EnvTypeOK
    <3> QED
      BY <1>0, <3>3 DEF EnvTypeOK, ReaderFrame, childVars
  <2>2. CASE kout' = kout
    BY <1>0, <2>2 DEF EnvTypeOK, ReaderFrame, childVars
  <2> QED
    BY <2>1, <2>2 DEF Reader, ReaderStart, ReaderCheck, ReaderReadsNothing,
      ReaderPoll, ReaderSend, ReaderWake, ReaderFull, ReaderDropTx, ReaderLastWake
<1>2. ChannelTypeOK'
  <2>1. CASE ReaderSend
    <3>1. outQ' \in Seq(Seq(Byte)) /\ Len(outQ') <= ReaderCap
      <4>1. outQ \in Seq(Seq(Byte)) /\ rchunk \in Seq(Byte) /\ Len(outQ) <= ReaderCap
        BY DEF ChannelTypeOK, ThreadTypeOK
      <4>2. CASE outQ' = outQ
        BY <4>1, <4>2
      <4>3. CASE Len(outQ) < ReaderCap /\ outQ' = Append(outQ, rchunk)
        BY <4>1, <4>3, AppendProperties, CapAssumption
      <4> QED
        BY <2>1, <4>2, <4>3 DEF ReaderSend, OutHasRoom
    <3> QED
      BY <1>0, <3>1 DEF ChannelTypeOK, ReaderFrame, inVars
  <2>2. CASE outQ' = outQ
    BY <1>0, <2>2 DEF ChannelTypeOK, ReaderFrame, inVars
  <2> QED
    BY <2>1, <2>2 DEF Reader, ReaderStart, ReaderCheck, ReaderReads, ReaderReadsNothing,
      ReaderPoll, ReaderWake, ReaderFull, ReaderDropTx, ReaderLastWake
<1>3. FlagTypeOK'
  BY Zenon DEF FlagTypeOK, Reader, ReaderStart, ReaderCheck, ReaderReads, ReaderReadsNothing,
    ReaderPoll, ReaderSend, ReaderWake, ReaderFull, ReaderDropTx, ReaderLastWake, Wake,
    ReaderFrame, inVars, consumerVars
<1>4. ThreadTypeOK'
  <2>1. rpc' \in ReaderPcs
    BY DEF ReaderPcs, ThreadTypeOK, Reader, ReaderStart, ReaderCheck, ReaderReads, ReaderReadsNothing,
      ReaderPoll, ReaderSend, ReaderWake, ReaderFull, ReaderDropTx, ReaderLastWake
  <2>2. rchunk' \in Seq(Byte)
    <3>1. CASE ReaderReads
      <4>1. PICK n \in 1..ChunkLen : n <= Len(kout) /\ rchunk' = SubSeq(kout, 1, n)
        BY <3>1 DEF ReaderReads
      <4>2. kout \in Seq(Byte) /\ n \in 1..Len(kout)
        BY <4>1, CapAssumption DEF EnvTypeOK
      <4> QED
        BY <4>1, <4>2, SplitSeq
    <3>2. CASE rchunk' = rchunk
      BY <3>2 DEF ThreadTypeOK
    <3>3. CASE rchunk' = <<>>
      BY <3>3, EmptySeq
    <3> QED
      BY <3>1, <3>2, <3>3 DEF Reader, ReaderStart, ReaderCheck, ReaderReadsNothing,
        ReaderPoll, ReaderSend, ReaderWake, ReaderFull, ReaderDropTx, ReaderLastWake
  <2> QED
    BY <1>0, <2>1, <2>2 DEF ThreadTypeOK, ReaderFrame, writerVars, exitVars
<1>5. CallerTypeOK'
  BY <1>0 DEF CallerTypeOK, ReaderFrame, ownerVars, consumerVars
<1> QED
  BY <1>1, <1>2, <1>3, <1>4, <1>5

\* No step of the writer thread changes what is not the writer's.
LEMMA WriterKeeps == Writer => WriterFrame
  BY DEF Writer, WriterStart, WriterCheck, WriterRecv, WriterMore, WriterWrites,
    WriterWritesNothing, WriterPoll

\* The writer keeps the types: partial writes leave a byte sequence, and the
\* kernel's input buffer is never overfilled.
LEMMA WriterTypes == TypeOK /\ Writer => TypeOK'
<1> SUFFICES ASSUME TypeOK, Writer PROVE TypeOK'
  OBVIOUS
<1> USE DEF TypeOK
<1>0. WriterFrame
  BY WriterKeeps
<1>1. CASE WriterWrites
  <2>1. PICK n \in 1..Len(wchunk) :
          /\ kin + n <= KernelCap
          /\ typed' = typed \o SubSeq(wchunk, 1, n)
          /\ kin' = kin + n
          /\ wchunk' = SubSeq(wchunk, n + 1, Len(wchunk))
    BY <1>1 DEF WriterWrites
  <2>2. /\ wchunk \in Seq(Byte) /\ SubSeq(wchunk, 1, n) \in Seq(Byte)
        /\ wchunk' \in Seq(Byte)
    BY <2>1, SplitSeq DEF ThreadTypeOK
  <2>3. typed' \in Seq(Byte)
    BY <2>1, <2>2, ConcatProperties DEF EnvTypeOK
  <2>4. kin' \in 0..KernelCap
    BY <2>1, <2>2, CapAssumption, LenProperties DEF EnvTypeOK
  <2>5. EnvTypeOK'
    BY <1>0, <2>3, <2>4 DEF EnvTypeOK, WriterFrame, childVars
  <2>6. ThreadTypeOK'
    BY <1>0, <1>1, <2>2 DEF ThreadTypeOK, WriterFrame, WriterWrites, WriterPcs, readerVars, exitVars
  <2>7. ChannelTypeOK'
    BY <1>0, <1>1 DEF ChannelTypeOK, WriterFrame, WriterWrites, outVars
  <2>8. FlagTypeOK'
    BY Zenon, <1>0, <1>1 DEF FlagTypeOK, WriterFrame, WriterWrites, outVars, consumerVars
  <2>9. CallerTypeOK'
    BY <1>0 DEF CallerTypeOK, WriterFrame, ownerVars, consumerVars
  <2> QED
    BY <2>5, <2>6, <2>7, <2>8, <2>9
<1>2. CASE ~WriterWrites
  <2>1. EnvTypeOK'
    <3>1. typed' = typed /\ kin' = kin
      BY <1>2 DEF Writer, WriterStart, WriterCheck, WriterRecv, WriterMore,
        WriterWritesNothing, WriterPoll
    <3> QED
      BY <1>0, <3>1 DEF EnvTypeOK, WriterFrame, childVars
  <2>2. ChannelTypeOK' /\ wchunk' \in Seq(Byte)
    <3>1. CASE inQ # <<>> /\ inQ' = Tail(inQ) /\ wchunk' = Head(inQ)
      <4>1. inQ \in Seq(Seq(Byte)) /\ Len(inQ) <= WriterCap
        BY DEF ChannelTypeOK
      <4>2. inQ' \in Seq(Seq(Byte)) /\ Len(inQ') <= WriterCap /\ wchunk' \in Seq(Byte)
        BY <3>1, <4>1, HeadTailProperties, CapAssumption
      <4> QED
        BY <1>0, <4>2 DEF ChannelTypeOK, WriterFrame, outVars
    <3>2. CASE inQ' \in {inQ, <<>>} /\ wchunk' \in {wchunk, <<>>}
      <4>1. <<>> \in Seq(Byte) /\ <<>> \in Seq(Seq(Byte)) /\ Len(<<>>) <= WriterCap
        BY EmptySeq, CapAssumption
      <4>2. inQ' \in Seq(Seq(Byte)) /\ Len(inQ') <= WriterCap
        BY <3>2, <4>1 DEF ChannelTypeOK
      <4>3. wchunk' \in Seq(Byte)
        BY <3>2, <4>1 DEF ThreadTypeOK
      <4> QED
        BY <1>0, <4>2, <4>3 DEF ChannelTypeOK, WriterFrame, outVars
    <3> QED
      BY <1>2, <3>1, <3>2 DEF Writer, WriterStart, WriterCheck, WriterRecv, WriterMore,
        WriterWritesNothing, WriterPoll, WriterReturns
  <2>3. ThreadTypeOK'
    <3>1. wpc' \in WriterPcs
      BY DEF Writer, WriterStart, WriterCheck, WriterRecv, WriterMore, WriterWrites,
        WriterWritesNothing, WriterPoll, WriterReturns, WriterPcs
    <3> QED
      BY <1>0, <2>2, <3>1 DEF ThreadTypeOK, WriterFrame, readerVars, exitVars
  <2>4. FlagTypeOK'
    BY Zenon DEF FlagTypeOK, Writer, WriterStart, WriterCheck, WriterRecv, WriterMore,
      WriterWrites, WriterWritesNothing, WriterPoll, WriterReturns, WriterFrame, outVars, consumerVars
  <2>5. CallerTypeOK'
    BY <1>0 DEF CallerTypeOK, WriterFrame, ownerVars, consumerVars
  <2> QED
    BY <2>1, <2>2, <2>3, <2>4, <2>5
<1> QED
  BY <1>1, <1>2

\* The exit waiter keeps the types, given that it publishes on an empty channel.
LEMMA ExitTypes ==
  ASSUME TypeOK, ExitWaiter, xpc = "publish" => exitQ = <<>>
  PROVE  TypeOK'
<1> USE DEF TypeOK
<1>0. ExitFrame
  BY DEF ExitWaiter, ExitStart, ExitWaitpid, ExitSet, ExitSpin, ExitPublish, ExitWake
<1>1. EnvTypeOK'
  <2>1. child' \in {"running", "zombie", "reaped"}
    BY DEF EnvTypeOK, ExitWaiter, ExitStart, ExitWaitpid, ExitSet, ExitSpin, ExitPublish, ExitWake
  <2> QED
    BY <1>0, <2>1 DEF EnvTypeOK, ExitFrame, kernelVars
<1>2. ChannelTypeOK'
  <2>1. CASE exitQ' = exitQ
    BY <1>0, <2>1 DEF ChannelTypeOK, ExitFrame, inVars, outVars
  <2>2. CASE exitQ' = Append(exitQ, xstatus) /\ xpc = "publish"
    <3>1. exitQ' \in Seq(MaybeStatus) /\ Len(exitQ') = 1
      BY <2>2, EmptySeq, AppendProperties DEF ChannelTypeOK, ThreadTypeOK
    <3> QED
      BY <1>0, <3>1 DEF ChannelTypeOK, ExitFrame, inVars, outVars
  <2> QED
    BY <2>1, <2>2 DEF ExitWaiter, ExitStart, ExitWaitpid, ExitSet, ExitSpin, ExitPublish, ExitWake
<1>3. FlagTypeOK'
  BY Zenon DEF FlagTypeOK, ExitFrame, inVars, outVars, consumerVars, Wake, ExitWaiter,
    ExitStart, ExitWaitpid, ExitSet, ExitSpin, ExitPublish, ExitWake
<1>4. ThreadTypeOK'
  <2>1. xpc' \in ExitPcs /\ xstatus' \in MaybeStatus /\ guard' \in MaybeStatus
    BY DEF EnvTypeOK, ThreadTypeOK, ExitPcs, ExitWaiter, ExitStart, ExitWaitpid, ExitSet,
      ExitSpin, ExitPublish, ExitWake
  <2> QED
    BY <1>0, <2>1 DEF ThreadTypeOK, ExitFrame, readerVars, writerVars
<1>5. CallerTypeOK'
  BY <1>0 DEF CallerTypeOK, ExitFrame, ownerVars, consumerVars
<1> QED
  BY <1>1, <1>2, <1>3, <1>4, <1>5

\* The consumer keeps the types.
LEMMA ConsumerTypes ==
  ASSUME TypeOK, Consumer \/ ConsumerGoes
  PROVE  TypeOK'
<1> USE DEF TypeOK
<1>0. ConsumerFrame
  BY DEF Consumer, ConsumerStarts, ConsumerReceives, ConsumerPollsExit, ConsumerGoes
<1>1. EnvTypeOK'
  BY <1>0 DEF EnvTypeOK, ConsumerFrame, childVars, kernelVars
<1>2. outQ' \in Seq(Seq(Byte)) /\ Len(outQ') <= ReaderCap /\ received' \in Seq(Byte)
  <2>1. outQ \in Seq(Seq(Byte)) /\ Len(outQ) <= ReaderCap /\ received \in Seq(Byte)
    BY DEF ChannelTypeOK, CallerTypeOK
  <2>2. CASE outQ # <<>> /\ outQ' = Tail(outQ) /\ received' = received \o Head(outQ)
    <3>1. Head(outQ) \in Seq(Byte) /\ Tail(outQ) \in Seq(Seq(Byte)) /\ Len(Tail(outQ)) = Len(outQ) - 1
      BY <2>1, <2>2, HeadTailProperties
    <3> QED
      BY <2>1, <2>2, <3>1, ConcatProperties, LenProperties, CapAssumption
  <2>3. CASE outQ' = outQ /\ received' = received
    BY <2>1, <2>3
  <2>4. CASE outQ' = <<>> /\ received' = received
    BY <2>1, <2>4, EmptySeq, CapAssumption
  <2> QED
    BY <2>2, <2>3, <2>4
      DEF Consumer, ConsumerStarts, ConsumerReceives, ConsumerPollsExit, ConsumerGoes
<1>3. exitQ' \in Seq(MaybeStatus) /\ Len(exitQ') <= 1 /\ sawExit' \in MaybeStatus
  <2>1. exitQ \in Seq(MaybeStatus) /\ Len(exitQ) <= 1 /\ sawExit \in MaybeStatus
    BY DEF ChannelTypeOK, CallerTypeOK
  <2>2. CASE exitQ # <<>> /\ exitQ' = Tail(exitQ) /\ sawExit' = Head(exitQ)
    BY <2>1, <2>2, HeadTailProperties
  <2>3. CASE exitQ' = exitQ /\ sawExit' = sawExit
    BY <2>1, <2>3
  <2> QED
    BY <2>2, <2>3
      DEF Consumer, ConsumerStarts, ConsumerReceives, ConsumerPollsExit, ConsumerGoes
<1>4. ChannelTypeOK'
  BY <1>0, <1>2, <1>3 DEF ChannelTypeOK, ConsumerFrame, inVars
<1>5. FlagTypeOK'
  BY Zenon DEF FlagTypeOK, ConsumerFrame, inVars, Consumer, ConsumerStarts,
    ConsumerReceives, ConsumerPollsExit, ConsumerGoes
<1>6. ThreadTypeOK'
  BY <1>0 DEF ThreadTypeOK, ConsumerFrame, readerVars, writerVars, exitVars
<1>7. cpc' \in {"idle", "drain", "exit", "gone"}
  BY DEF CallerTypeOK, Consumer, ConsumerStarts, ConsumerReceives, ConsumerPollsExit, ConsumerGoes
<1>8. CallerTypeOK'
  BY <1>0, <1>2, <1>3, <1>7 DEF CallerTypeOK, ConsumerFrame, ownerVars
<1> QED
  BY <1>1, <1>4, <1>5, <1>6, <1>8

\* The child, the holders of the slave and the kernel keep the types.
LEMMA EnvironmentTypes == ASSUME TypeOK, Environment PROVE TypeOK'
<1> USE DEF TypeOK
<1>0. EnvFrame
  BY DEF Environment, SlaveWrites, SlaveReads, ChildDies, SlaveCloses
<1>1. EnvTypeOK'
  <2>1. CASE SlaveWrites
    <3>1. produced + 1 \in Byte /\ kout \in Seq(Byte)
      BY DEF EnvTypeOK, Byte
    <3>2. kout' \in Seq(Byte) /\ Len(kout') <= KernelCap /\ produced' \in Nat
      BY <2>1, <3>1, AppendProperties, CapAssumption DEF EnvTypeOK, SlaveWrites
    <3> QED
      BY <1>0, <2>1, <3>2 DEF EnvTypeOK, SlaveWrites, EnvFrame, childVars
  <2>2. CASE SlaveReads
    BY <1>0, <2>2, CapAssumption DEF EnvTypeOK, SlaveReads, EnvFrame, childVars
  <2>3. ASSUME NEW how \in Statuses, ChildDies(how) PROVE EnvTypeOK'
    BY <1>0, <2>3 DEF EnvTypeOK, ChildDies, EnvFrame, MaybeStatus
  <2>4. ASSUME NEW h \in {"child"} \cup Holders, SlaveCloses(h) PROVE EnvTypeOK'
    BY <1>0, <2>4 DEF EnvTypeOK, SlaveCloses, EnvFrame
  <2> QED
    BY <2>1, <2>2, <2>3, <2>4 DEF Environment
<1>2. ChannelTypeOK'
  BY <1>0 DEF ChannelTypeOK, EnvFrame, inVars, outVars
<1>3. FlagTypeOK'
  BY Zenon, <1>0 DEF FlagTypeOK, EnvFrame, inVars, outVars, consumerVars
<1>4. ThreadTypeOK'
  BY <1>0 DEF ThreadTypeOK, EnvFrame, readerVars, writerVars, exitVars
<1>5. CallerTypeOK'
  BY <1>0 DEF CallerTypeOK, EnvFrame, ownerVars, consumerVars
<1> QED
  BY <1>1, <1>2, <1>3, <1>4, <1>5

\* No step of the owner changes what only the threads change.
LEMMA OwnerKeeps == Owner => OwnerFrame
  BY DEF Owner, OwnerCalls, OwnerContinues, GraceExpires, ShutdownFrame, TryWrite, WriteBegin,
    WriteEnd, WriteExpires, TryWaitBegin, TryWaitpid, TryWaitSet, ShutdownBegin,
    ShutdownAgain, ShutdownClosesTx, ShutdownJoinsWriter, ShutdownSignals, ShutdownPolls,
    ShutdownSleeps, ShutdownJoinsExit, ShutdownReturns

\* The owner's calls keep the types; the input channel never exceeds its bound.
LEMMA OwnerTypes == ASSUME TypeOK, Owner PROVE TypeOK'
<1> USE DEF TypeOK
<1>0. OwnerFrame
  BY OwnerKeeps
<1>1. EnvTypeOK'
  <2>1. child' \in {"running", "zombie", "reaped"} /\ signalled' \subseteq Signals
    BY DEF EnvTypeOK, Signals, Owner, OwnerCalls, OwnerContinues, GraceExpires, TryWrite, WriteBegin,
      WriteEnd, WriteExpires, TryWaitBegin, TryWaitpid, TryWaitSet, ShutdownBegin,
      ShutdownAgain, ShutdownClosesTx, ShutdownJoinsWriter, ShutdownSignals, ShutdownPolls,
      ShutdownSleeps, ShutdownJoinsExit, ShutdownReturns
  <2> QED
    BY <1>0, <2>1 DEF EnvTypeOK, OwnerFrame, kernelVars
<1>2. inQ' \in Seq(Seq(Byte)) /\ Len(inQ') <= WriterCap /\ accepted' \in Seq(Byte) /\ writes' \in Nat
      /\ (opc' \in {"send", "sendtimeout"} => writes' # 0)
  <2>1. /\ inQ \in Seq(Seq(Byte)) /\ Len(inQ) <= WriterCap /\ accepted \in Seq(Byte)
        /\ writes \in Nat /\ (opc \in {"send", "sendtimeout"} => writes # 0)
    BY DEF ChannelTypeOK, CallerTypeOK
  <2>2. ASSUME writes' \in Nat \ {0}, Enqueue
        PROVE  inQ' \in Seq(Seq(Byte)) /\ Len(inQ') <= WriterCap /\ accepted' \in Seq(Byte)
    <3>1. InputChunk(writes') \in Seq(Byte)
      BY <2>2, InputChunkType
    <3>2. CASE inQ' = inQ /\ accepted' = accepted
      BY <2>1, <3>2
    <3>3. CASE /\ Len(inQ) < WriterCap
               /\ inQ' = Append(inQ, InputChunk(writes'))
               /\ accepted' = accepted \o InputChunk(writes')
      BY <2>1, <3>1, <3>3, AppendProperties, ConcatProperties, CapAssumption
    <3> QED
      BY <2>2, <3>2, <3>3 DEF Enqueue, InHasRoom
  <2>3. CASE TryWrite
    BY <2>1, <2>2, <2>3 DEF TryWrite
  <2>4. CASE WriteBegin("send") \/ WriteBegin("sendtimeout")
    BY <2>1, <2>4 DEF WriteBegin
  <2>5. CASE WriteEnd
    BY <2>1, <2>2, <2>5 DEF WriteEnd
  <2>6. CASE UNCHANGED <<inQ, accepted, writes>> /\ opc' \notin {"send", "sendtimeout"}
    BY <2>1, <2>6
  <2> QED
    BY <2>3, <2>4, <2>5, <2>6, <1>0 DEF Owner, OwnerCalls, OwnerContinues, GraceExpires, ShutdownFrame,
      WriteExpires, TryWaitBegin, TryWaitpid, TryWaitSet, ShutdownBegin,
      ShutdownAgain, ShutdownClosesTx, ShutdownJoinsWriter, ShutdownSignals, ShutdownPolls,
      ShutdownSleeps, ShutdownJoinsExit, ShutdownReturns
<1>3. ChannelTypeOK'
  BY <1>0, <1>2 DEF ChannelTypeOK, OwnerFrame, outVars
<1>4. FlagTypeOK'
  <2>1. (UNCHANGED shutdown \/ shutdown' = TRUE) /\ (UNCHANGED inTx \/ inTx' = FALSE)
    BY DEF Owner, OwnerCalls, OwnerContinues,
      GraceExpires, ShutdownFrame, TryWrite, WriteBegin,
      WriteEnd, WriteExpires, TryWaitBegin, TryWaitpid, TryWaitSet, ShutdownBegin,
      ShutdownAgain, ShutdownClosesTx, ShutdownJoinsWriter, ShutdownSignals, ShutdownPolls,
      ShutdownSleeps, ShutdownJoinsExit, ShutdownReturns
  <2> QED
    BY Zenon, <1>0, <2>1 DEF FlagTypeOK, OwnerFrame, outVars, consumerVars
<1>5. guard' \in MaybeStatus /\ ostatus' \in MaybeStatus
  BY DEF ThreadTypeOK, EnvTypeOK, CallerTypeOK, Owner, OwnerCalls, OwnerContinues,
    GraceExpires, ShutdownFrame, TryWrite, WriteBegin,
    WriteEnd, WriteExpires, TryWaitBegin, TryWaitpid, TryWaitSet, ShutdownBegin,
    ShutdownAgain, ShutdownClosesTx, ShutdownJoinsWriter, ShutdownSignals, ShutdownPolls,
    ShutdownSleeps, ShutdownJoinsExit, ShutdownReturns
<1>6. ThreadTypeOK'
  BY <1>0, <1>5 DEF ThreadTypeOK, OwnerFrame, readerVars, writerVars, exitVars
<1>7. opc' \in OwnerPcs
  BY DEF OwnerPcs, SdPcs, CallerTypeOK, Owner, OwnerCalls, OwnerContinues,
    GraceExpires, TryWrite, WriteBegin,
    WriteEnd, WriteExpires, TryWaitBegin, TryWaitpid, TryWaitSet, ShutdownBegin,
    ShutdownAgain, ShutdownClosesTx, ShutdownJoinsWriter, ShutdownSignals, ShutdownPolls,
    ShutdownSleeps, ShutdownJoinsExit, ShutdownReturns
<1>8. result' \in MaybeStatus \cup {"in progress", "lost"}
  BY <1>5 DEF ThreadTypeOK, CallerTypeOK, Owner, OwnerCalls, OwnerContinues,
    GraceExpires, TryWrite, WriteBegin,
    WriteEnd, WriteExpires, TryWaitBegin, TryWaitpid, TryWaitSet, ShutdownBegin,
    ShutdownAgain, ShutdownClosesTx, ShutdownJoinsWriter, ShutdownSignals, ShutdownPolls,
    ShutdownSleeps, ShutdownJoinsExit, ShutdownReturns
<1>9. CallerTypeOK'
  BY <1>0, <1>2, <1>5, <1>7, <1>8 DEF CallerTypeOK, OwnerFrame, consumerVars
<1> QED
  BY <1>1, <1>3, <1>4, <1>6, <1>9

-----------------------------------------------------------------------------
\* The initial states satisfy the inductive invariant.
LEMMA InitIInv == Init => IInv
<1> SUFFICES ASSUME Init PROVE IInv
  OBVIOUS
<1>1. EnvTypeOK /\ ChannelTypeOK
  BY CapAssumption DEF Init, EnvTypeOK, ChannelTypeOK, NoStatus, Signals, Statuses, MaybeStatus, Byte
<1>2. FlagTypeOK
  BY Zenon DEF Init, FlagTypeOK
<1>3. ThreadTypeOK /\ CallerTypeOK
  BY DEF Init, ThreadTypeOK, CallerTypeOK, ReaderPcs, WriterPcs, ExitPcs, OwnerPcs,
    NoStatus, Signals, Statuses, MaybeStatus, Byte
<1>4. StatusOK /\ ExitOK
  BY DEF Init, StatusOK, ExitOK, ReapedStatusHeld, NoStatus
<1>5. PhaseOK
  BY DEF Init, PhaseOK, Ended, WriterJoined, HupSent, TermSent, SdPcs, NoStatus
<1> QED
  BY <1>1, <1>2, <1>3, <1>4, <1>5 DEF IInv, TypeOK

-----------------------------------------------------------------------------
(* The inductive invariant, one lemma per process.                         *)

\* A dying child takes its status with it; nothing else of the environment is
\* in the invariant.
LEMMA EnvironmentStep ==
  ASSUME IInv, Environment PROVE StatusOK' /\ ExitOK' /\ PhaseOK'
<1> USE DEF IInv
<1>1. EnvFrame /\ signalled' = signalled
  BY DEF Environment, SlaveWrites, SlaveReads, ChildDies, SlaveCloses, childVars
<1>2. CASE UNCHANGED <<child, status>>
  BY <1>1, <1>2 DEF EnvFrame, readerVars, writerVars, exitVars, ownerVars, consumerVars, inVars,
    StatusOK, ReapedStatusHeld, ExitOK, PhaseOK, Ended
<1>3. ASSUME NEW how \in Statuses, ChildDies(how) PROVE StatusOK' /\ ExitOK' /\ PhaseOK'
  BY <1>1, <1>3 DEF ChildDies, EnvFrame, readerVars, writerVars, exitVars, ownerVars, consumerVars, inVars,
    StatusOK, ReapedStatusHeld, ExitOK, PhaseOK, Ended, Statuses, Signals, NoStatus
<1> QED
  BY <1>2, <1>3 DEF Environment, SlaveWrites, SlaveReads, SlaveCloses, childVars

\* The reader, once done, stays done.
LEMMA ReaderStep ==
  ASSUME IInv, Reader PROVE StatusOK' /\ ExitOK' /\ PhaseOK'
<1> USE DEF IInv
<1>1. ReaderFrame
  BY ReaderKeeps
<1>2. StatusOK' /\ ExitOK'
  BY <1>1 DEF ReaderFrame, childVars, exitVars, ownerVars, consumerVars,
    StatusOK, ReapedStatusHeld, ExitOK
<1>3. rpc # "done"
  BY DEF Reader, ReaderStart, ReaderCheck, ReaderReads, ReaderReadsNothing,
    ReaderPoll, ReaderSend, ReaderWake, ReaderFull, ReaderDropTx, ReaderLastWake
<1>4. PhaseOK'
  BY <1>1, <1>3 DEF ReaderFrame, childVars, inVars, writerVars, exitVars, ownerVars, consumerVars,
    PhaseOK, Ended
<1> QED
  BY <1>2, <1>4

\* The writer, once done, stays done.
LEMMA WriterStep ==
  ASSUME IInv, Writer PROVE StatusOK' /\ ExitOK' /\ PhaseOK'
<1> USE DEF IInv
<1>1. WriterFrame
  BY WriterKeeps
<1>2. StatusOK' /\ ExitOK'
  BY <1>1 DEF WriterFrame, childVars, exitVars, ownerVars, consumerVars,
    StatusOK, ReapedStatusHeld, ExitOK
<1>3. wpc # "done"
  BY DEF Writer, WriterStart, WriterCheck, WriterRecv, WriterMore, WriterWrites,
    WriterWritesNothing, WriterPoll
<1>4. PhaseOK'
  BY <1>1, <1>3 DEF WriterFrame, childVars, readerVars, exitVars, ownerVars, consumerVars,
    PhaseOK, Ended
<1> QED
  BY <1>2, <1>4

\* The consumer takes the one status off the exit channel.
LEMMA ConsumerStep ==
  ASSUME IInv, Consumer \/ ConsumerGoes PROVE StatusOK' /\ ExitOK' /\ PhaseOK'
<1>0. StatusOK /\ ExitOK /\ PhaseOK
  BY DEF IInv
<1>1. ConsumerFrame
  BY DEF Consumer, ConsumerStarts, ConsumerReceives, ConsumerPollsExit, ConsumerGoes
<1>2. StatusOK' /\ PhaseOK'
  <2>1. StatusOK'
    BY <1>0, <1>1 DEF ConsumerFrame, childVars, exitVars, ownerVars, StatusOK, ReapedStatusHeld
  <2>2. PhaseOK'
    BY <1>0, <1>1 DEF ConsumerFrame, childVars, inVars, readerVars, writerVars, exitVars, ownerVars,
      PhaseOK, Ended
  <2> QED
    BY <2>1, <2>2
<1>3. UNCHANGED <<status, guard, xpc>>
  BY <1>1 DEF ConsumerFrame, childVars, exitVars
<1>4. CASE UNCHANGED <<exitQ, sawExit>>
  BY <1>0, <1>2, <1>3, <1>4 DEF ExitOK
<1>5. CASE exitQ # <<>> /\ sawExit' = Head(exitQ) /\ exitQ' = Tail(exitQ)
  <2>1. exitQ = <<status>> /\ guard # NoStatus /\ xpc \in {"wake", "done"}
    BY <1>0, <1>5 DEF ExitOK
  <2>2. Head(<<status>>) = status /\ Tail(<<status>>) = <<>>
    OBVIOUS
  <2> QED
    BY <1>2, <1>3, <1>5, <2>1, <2>2 DEF ExitOK
<1> QED
  BY <1>4, <1>5 DEF Consumer, ConsumerStarts, ConsumerReceives, ConsumerPollsExit, ConsumerGoes

\* The exit waiter: whoever reaped, it caches and publishes the one status.
LEMMA ExitStep ==
  ASSUME IInv, ExitWaiter PROVE StatusOK' /\ ExitOK' /\ PhaseOK'
<1> USE DEF IInv
<1>1. ExitFrame
  BY DEF ExitWaiter, ExitStart, ExitWaitpid, ExitSet, ExitSpin, ExitPublish, ExitWake
<1>2. xpc # "done" /\ (guard # NoStatus => guard' = guard)
  BY DEF ExitWaiter, ExitStart, ExitWaitpid, ExitSet, ExitSpin, ExitPublish, ExitWake
<1>3. PhaseOK'
  BY <1>1, <1>2 DEF ExitFrame, inVars, readerVars, writerVars, ownerVars, PhaseOK, Ended
<1>4. StatusOK'
  <2> USE <1>1 DEF ExitFrame, ownerVars, StatusOK, ReapedStatusHeld, NoStatus
  <2>1. CASE ExitStart BY <2>1 DEF ExitStart
  <2>2. CASE ExitWaitpid BY <2>2 DEF ExitWaitpid
  <2>3. CASE ExitSet BY <2>3 DEF ExitSet
  <2>4. CASE ExitSpin BY <2>4 DEF ExitSpin
  <2>5. CASE ExitPublish BY <2>5 DEF ExitPublish
  <2>6. CASE ExitWake BY <2>6 DEF ExitWake
  <2> QED
    BY <2>1, <2>2, <2>3, <2>4, <2>5, <2>6 DEF ExitWaiter
<1>5. ExitOK'
  <2>1. CASE ExitPublish
    <3>1. exitQ = <<>> /\ sawExit = NoStatus /\ guard # NoStatus /\ xstatus = status
      BY <2>1 DEF ExitPublish, ExitOK, StatusOK
    <3>2. exitQ' = <<status>>
      BY <2>1, <3>1 DEF ExitPublish
    <3> QED
      BY <1>1, <2>1, <3>1, <3>2 DEF ExitPublish, ExitFrame, consumerVars, ExitOK
  <2>2. CASE ~ExitPublish
    <3>1. exitQ' = exitQ /\ (xpc \in {"wake", "done"} => xpc' \in {"wake", "done"})
      BY <2>2 DEF ExitWaiter, ExitStart, ExitWaitpid, ExitSet, ExitSpin, ExitWake
    <3> QED
      BY <1>1, <1>2, <3>1 DEF ExitFrame, consumerVars, ExitOK
  <2> QED
    BY <2>1, <2>2
<1> QED
  BY <1>3, <1>4, <1>5

\* The owner's calls: try_wait's reap and the phases of the shutdown.
LEMMA OwnerStep ==
  ASSUME IInv, Owner PROVE StatusOK' /\ ExitOK' /\ PhaseOK'
<1> USE DEF IInv
<1>1. OwnerFrame
  BY OwnerKeeps
<1>2. UNCHANGED <<status, exitQ, rpc, wpc, xpc, xstatus, sawExit>>
  BY <1>1 DEF OwnerFrame, readerVars, writerVars, exitVars, consumerVars
<1>3. guard # NoStatus => guard' = guard
  BY DEF Owner, OwnerCalls, OwnerContinues, GraceExpires, TryWrite, WriteBegin,
    WriteEnd, WriteExpires, TryWaitBegin, TryWaitpid, TryWaitSet, ShutdownBegin,
    ShutdownAgain, ShutdownClosesTx, ShutdownJoinsWriter, ShutdownSignals, ShutdownPolls,
    ShutdownSleeps, ShutdownJoinsExit, ShutdownReturns
<1>4. ExitOK'
  BY <1>2, <1>3 DEF ExitOK
<1>5. StatusOK'
  <2> USE <1>2 DEF StatusOK, ReapedStatusHeld, NoStatus
  <2>1. CASE TryWaitpid BY <2>1 DEF TryWaitpid
  <2>2. CASE TryWaitSet BY <2>2 DEF TryWaitSet
  <2>3. CASE ShutdownReturns BY <2>3 DEF ShutdownReturns
  <2>4. CASE UNCHANGED <<child, guard>> /\ opc \notin {"tw_set", "sd_set"} /\ opc' \notin {"tw_set", "sd_set"}
    BY <2>4
  <2> QED
    BY <2>1, <2>2, <2>3, <2>4 DEF Owner, OwnerCalls, OwnerContinues, GraceExpires, TryWrite, WriteBegin,
      WriteEnd, WriteExpires, TryWaitBegin, ShutdownBegin, ShutdownAgain, ShutdownClosesTx,
      ShutdownJoinsWriter, ShutdownSignals, ShutdownPolls, ShutdownSleeps, ShutdownJoinsExit
<1>6. PhaseOK'
  <2> USE <1>2 DEF PhaseOK, Ended, WriterJoined, HupSent, TermSent, SdPcs
  <2>1. CASE TryWrite \/ WriteBegin("send") \/ WriteBegin("sendtimeout") \/ WriteEnd \/ WriteExpires
    BY <2>1 DEF TryWrite, WriteBegin, WriteEnd, WriteExpires
  <2>2. CASE TryWaitBegin BY <2>2 DEF TryWaitBegin
  <2>3. CASE TryWaitpid BY <2>3 DEF TryWaitpid
  <2>4. CASE TryWaitSet BY <2>4 DEF TryWaitSet
  <2>5. CASE ShutdownBegin BY <2>5 DEF ShutdownBegin
  <2>6. CASE ShutdownAgain BY <2>6 DEF ShutdownAgain, StatusOK
  <2>7. CASE ShutdownClosesTx BY <2>7 DEF ShutdownClosesTx
  <2>8. CASE ShutdownJoinsWriter BY <2>8 DEF ShutdownJoinsWriter
  <2>9. CASE ShutdownSignals("sd_hup", "HUP", "sd_term") BY <2>9 DEF ShutdownSignals
  <2>10. CASE ShutdownSignals("sd_term", "TERM", "sd_poll") BY <2>10 DEF ShutdownSignals
  <2>11. CASE ShutdownSignals("sd_kill", "KILL", "sd_joinexit") BY <2>11 DEF ShutdownSignals
  <2>12. CASE ShutdownPolls BY <2>12 DEF ShutdownPolls
  <2>13. CASE ShutdownSleeps("sd_poll") BY <2>13 DEF ShutdownSleeps
  <2>14. CASE ShutdownSleeps("sd_kill") BY <2>14 DEF ShutdownSleeps
  <2>15. CASE ShutdownJoinsExit BY <2>15 DEF ShutdownJoinsExit
  <2>16. CASE ShutdownReturns BY <2>16 DEF ShutdownReturns, StatusOK
  <2> QED
    BY <2>1, <2>2, <2>3, <2>4, <2>5, <2>6, <2>7, <2>8, <2>9, <2>10, <2>11, <2>12, <2>13,
      <2>14, <2>15, <2>16 DEF Owner, OwnerCalls, OwnerContinues, GraceExpires
<1> QED
  BY <1>4, <1>5, <1>6

-----------------------------------------------------------------------------
(* The theorems.                                                           *)

\* Every step of every process keeps the inductive invariant.
LEMMA StepIInv == IInv /\ [Next]_vars => IInv'
<1> SUFFICES ASSUME IInv, [Next]_vars PROVE IInv'
  OBVIOUS
<1>1. TypeOK /\ (xpc = "publish" => exitQ = <<>>)
  BY DEF IInv, ExitOK
<1>2. CASE Environment
  BY <1>1, <1>2, EnvironmentTypes, EnvironmentStep DEF IInv
<1>3. CASE Reader
  BY <1>1, <1>3, ReaderTypes, ReaderStep DEF IInv
<1>4. CASE Writer
  BY <1>1, <1>4, WriterTypes, WriterStep DEF IInv
<1>5. CASE ExitWaiter
  BY <1>1, <1>5, ExitTypes, ExitStep DEF IInv
<1>6. CASE Owner
  BY <1>1, <1>6, OwnerTypes, OwnerStep DEF IInv
<1>7. CASE Consumer \/ ConsumerGoes
  BY <1>1, <1>7, ConsumerTypes, ConsumerStep DEF IInv
<1>8. CASE UNCHANGED vars
  <2>1. EnvFrame /\ UNCHANGED <<childVars, produced, kout, kin>>
    BY <1>8 DEF vars, EnvFrame, kernelVars
  <2>2. StatusOK' /\ ExitOK' /\ PhaseOK'
    BY <2>1 DEF IInv, EnvFrame, childVars, inVars, readerVars, writerVars, exitVars, ownerVars,
      consumerVars, StatusOK, ReapedStatusHeld, ExitOK, PhaseOK, Ended
  <2>3. EnvTypeOK' /\ ChannelTypeOK' /\ ThreadTypeOK' /\ CallerTypeOK'
    BY <1>1, <2>1 DEF TypeOK, EnvTypeOK, ChannelTypeOK, ThreadTypeOK, CallerTypeOK, EnvFrame,
      childVars, inVars, outVars, readerVars, writerVars, exitVars, ownerVars, consumerVars
  <2>4. FlagTypeOK'
    BY Zenon, <1>1, <2>1 DEF TypeOK, FlagTypeOK, EnvFrame, inVars, outVars, consumerVars
  <2> QED
    BY <2>2, <2>3, <2>4 DEF IInv, TypeOK
<1> QED
  BY <1>2, <1>3, <1>4, <1>5, <1>6, <1>7, <1>8 DEF Next

\* The inductive invariant holds in every reachable state of a session.
THEOREM Invariant == Spec => []IInv
  BY InitIInv, StepIInv, PTL DEF Spec

\* Every variable keeps its type; both channels, the exit channel and the kernel
\* buffers stay within their capacities.
THEOREM TypesCorrect == Spec => []TypeOK
<1>1. IInv => TypeOK
  BY DEF IInv
<1> QED
  BY <1>1, Invariant, PTL

\* Cache, exit channel, receiver and shutdown results all carry the status the
\* kernel reported, however try_wait, shutdown and exit_waiter race to reap.
THEOREM OneStatusHolds == Spec => []OneStatus
<1>1. IInv => OneStatus
  <2> SUFFICES ASSUME IInv PROVE OneStatus
    OBVIOUS
  <2>1. \A s \in {guard, sawExit, result} : s # NoStatus => s = status /\ child = "reaped"
    BY DEF IInv, StatusOK, ExitOK, PhaseOK
  <2>2. ASSUME exitQ # <<>> PROVE Len(exitQ) = 1 /\ exitQ[1] = status /\ guard = status
    BY <2>2 DEF IInv, ExitOK, StatusOK
  <2>3. \A i \in 1..Len(exitQ) : exitQ[i] = status /\ guard = status
    BY <2>2
  <2> QED
    BY <2>1, <2>3 DEF OneStatus
<1> QED
  BY <1>1, Invariant, PTL

\* The status waitpid gave out is never lost before it is cached, so the loser of
\* the reaping race (exit_waiter's ECHILD loop) waits for something that comes.
THEOREM StatusHeld == Spec => []ReapedStatusHeld
<1>1. IInv => ReapedStatusHeld
  BY DEF IInv, StatusOK
<1> QED
  BY <1>1, Invariant, PTL

\* When shutdown_and_reap has returned all three threads are done, the child is
\* reaped and its status is cached.
THEOREM NothingLeft == Spec => []ShutdownLeavesNothing
<1>1. IInv => ShutdownLeavesNothing
  BY DEF IInv, StatusOK, PhaseOK, Ended, SdPcs, ShutdownLeavesNothing
<1> QED
  BY <1>1, Invariant, PTL

\* shutdown_and_reap signals in the order HUP, TERM, KILL, and only after the
\* writer's queue is closed and the writer gone.
THEOREM Escalation == Spec => []SignalsEscalate
<1>1. IInv => SignalsEscalate
  BY DEF IInv, PhaseOK, Ended, HupSent, TermSent, WriterJoined, SdPcs, SignalsEscalate
<1> QED
  BY <1>1, Invariant, PTL

\* One status, and it is never lost, whoever wins the race to reap.
THEOREM StatusIsKept == Spec => []StatusKept
<1>1. OneStatus /\ ReapedStatusHeld => StatusKept
  BY DEF StatusKept
<1> QED
  BY <1>1, OneStatusHolds, StatusHeld, PTL

\* Shutdown signals in order and leaves nothing behind.
THEOREM ShutdownIsInOrder == Spec => []ShutdownInOrder
<1>1. ShutdownLeavesNothing /\ SignalsEscalate => ShutdownInOrder
  BY DEF ShutdownInOrder
<1> QED
  BY <1>1, NothingLeft, Escalation, PTL

\* Nothing needs a wake at the start.
LEMMA InitNoLostWake == Init => NoLostWake
  BY DEF Init, NoLostWake

\* Every step keeps pending work covered by a wake.
LEMMA StepNoLostWake == TypeOK /\ NoLostWake /\ [Next]_vars => NoLostWake'
<1> SUFFICES ASSUME TypeOK, NoLostWake, [Next]_vars PROVE NoLostWake'
  OBVIOUS
<1> USE DEF NoLostWake
<1>1. CASE UNCHANGED <<outQ, outTx, exitQ, woken, rpc, xpc, cpc, sawClosed>>
  BY <1>1
<1>2. CASE Reader
  <2> USE DEF ReaderFrame, exitVars, consumerVars
  <2>1. CASE ReaderSend BY <2>1 DEF ReaderSend
  <2>2. CASE ReaderWake BY <2>2 DEF ReaderWake, Wake
  <2>3. CASE ReaderDropTx BY <2>3 DEF ReaderDropTx
  <2>4. CASE ReaderLastWake BY <2>4 DEF ReaderLastWake, Wake
  <2>5. CASE UNCHANGED <<outQ, outTx, woken>> /\ rpc \notin {"wake", "lastwake"}
    BY <1>2, <2>5, ReaderKeeps
  <2> QED
    BY <1>2, <2>1, <2>2, <2>3, <2>4, <2>5 DEF Reader, ReaderStart, ReaderCheck, ReaderReads,
      ReaderReadsNothing, ReaderPoll, ReaderFull
<1>3. CASE ExitWaiter
  <2> USE DEF ExitFrame, outVars, readerVars, consumerVars
  <2>1. CASE ExitPublish BY <2>1 DEF ExitPublish
  <2>2. CASE ExitWake BY <2>2 DEF ExitWake, Wake
  <2>3. CASE ~ExitPublish /\ ~ExitWake
    BY <1>3, <2>3 DEF ExitWaiter, ExitStart, ExitWaitpid, ExitSet, ExitSpin
  <2> QED
    BY <2>1, <2>2, <2>3
<1>4. CASE Consumer \/ ConsumerGoes
  <2> USE DEF ConsumerFrame, readerVars, exitVars
  <2>1. CASE ConsumerStarts BY <2>1 DEF ConsumerStarts
  <2>2. CASE ConsumerReceives BY <2>2 DEF ConsumerReceives
  <2>3. CASE ConsumerPollsExit
    <3>1. exitQ' = <<>>
      BY <2>3, HeadTailProperties, EmptySeq DEF ConsumerPollsExit, TypeOK, ChannelTypeOK
    <3> QED
      BY <2>3, <3>1 DEF ConsumerPollsExit
  <2>4. CASE ConsumerGoes BY <2>4 DEF ConsumerGoes
  <2> QED
    BY <1>4, <2>1, <2>2, <2>3, <2>4 DEF Consumer
<1>5. CASE Environment \/ Writer \/ Owner
  <2>1. CASE Environment
    BY <2>1, <1>1 DEF Environment, SlaveWrites, SlaveReads, ChildDies, SlaveCloses, EnvFrame,
      outVars, readerVars, exitVars, consumerVars
  <2>2. CASE Writer
    BY <2>2, <1>1, WriterKeeps DEF WriterFrame, outVars, readerVars, exitVars, consumerVars
  <2>3. CASE Owner
    BY <2>3, <1>1, OwnerKeeps DEF OwnerFrame, outVars, readerVars, exitVars, consumerVars
  <2> QED
    BY <1>5, <2>1, <2>2, <2>3
<1>6. CASE UNCHANGED vars
  BY <1>1, <1>6 DEF vars, outVars, readerVars, exitVars, consumerVars
<1> QED
  BY <1>2, <1>3, <1>4, <1>5, <1>6 DEF Next

\* A consumer that looks only when woken never misses a chunk, the end of the
\* output or the exit status: wakes follow what they announce.
THEOREM WakesNeverLost == Spec => []NoLostWake
  BY InitNoLostWake, StepNoLostWake, TypesCorrect, PTL DEF Spec

-----------------------------------------------------------------------------
(* The bytes.                                                              *)

\* A thread holds a chunk only between taking it and passing it on, and the
\* consumer gives up its receiver only when it goes.
HandsOK ==
  /\ rpc \in {"start", "check", "read", "poll", "wake"} => rchunk = <<>>
  /\ wpc \in {"start", "check", "recv"} => wchunk = <<>>
  /\ outRx \/ cpc = "gone"

\* The first n bytes that the processes on the slave produce.
Stream(n) == [i \in 1..n |-> i]

\* Concatenations under a name, so that a step rewrites one of their parts.
Plus(s, t) == s \o t
Join(r, f, c, k) == r \o f \o c \o k
Join3(t, w, q) == t \o w \o q

\* While the receiver lives, received, queued, in the reader's hand and in the
\* kernel is all that was produced. That outlives the reader: what it could
\* not send when shutdown stopped it stays in its hand.
OutputOK == outRx => Join(received, Flatten(outQ), rchunk, kout) = Stream(produced)

\* What was accepted is typed, in the writer's hand or queued, until the writer
\* returns or shutdown makes it give up the chunk it holds.
InputOK ==
  \/ wpc = "done"
  \/ shutdown /\ wpc = "check"
  \/ accepted = Join3(typed, wchunk, Flatten(inQ))

\* The far end holds the beginning of what the near end gave, whoever is gone.
Prefix(s, t) == \E u \in Seq(Byte) : t = s \o u
PrefixOK == Prefix(received, Stream(produced)) /\ Prefix(typed, accepted)

\* The inductive invariant.
BytesInv == HandsOK /\ OutputOK /\ InputOK /\ PrefixOK

\* What Flatten's local function is: the concatenations of q's first i elements.
IsParts(f, q, n) == f = [i \in 0..n |-> IF i = 0 THEN <<>> ELSE f[i - 1] \o q[i]]

-----------------------------------------------------------------------------

\* Every set of natural numbers that is not empty has a least one: 1..n grows
\* strictly with n, and the strict subset ordering of finite sets is well-founded.
\* A fact about Flatten that fails somewhere therefore fails first somewhere.
LEMMA LeastNat ==
  ASSUME NEW T, T \subseteq Nat, T # {}
  PROVE  \E n \in T : \A m \in T : n <= m
<1> DEFINE Below == {1..n : n \in T}
           Under == StrictSubsetOrdering(Nat)
<1>1. Below \subseteq FiniteSubsetsOf(Nat)
  <2> SUFFICES ASSUME NEW n \in T PROVE 1..n \in FiniteSubsetsOf(Nat)
    OBVIOUS
  <2>1. IsFiniteSet(1..n)
    BY FS_Interval
  <2> QED
    BY <2>1 DEF FiniteSubsetsOf
<1>2. Below # {} /\ IsWellFoundedOn(Under, FiniteSubsetsOf(Nat))
  BY FS_StrictSubsetOrderingWellFounded
<1>3. PICK x \in Below : \A y \in Below : ~(<<y, x>> \in Under)
  <2> HIDE DEF Below, Under
  <2> QED
    BY <1>1, <1>2, WFMin
<1>4. PICK n \in T : x = 1..n
  OBVIOUS
<1>5. ASSUME NEW m \in T PROVE n <= m
  <2>1. ~(<<1..m, 1..n>> \in Under)
    BY <1>3, <1>4
  <2>2. m < n => 1..m \subseteq 1..n /\ n \in 1..n /\ n \notin 1..m
    OBVIOUS
  <2>3. m < n => 1..m \subseteq 1..n /\ 1..m # 1..n
    BY <2>2
  <2>4. 1..m \in SUBSET Nat /\ 1..n \in SUBSET Nat
    OBVIOUS
  <2>5. ~(m < n)
    BY <2>1, <2>3, <2>4 DEF StrictSubsetOrdering
  <2> QED
    BY <2>5
<1> QED
  BY <1>5

\* A function as Flatten defines it exists for every length.
LEMMA PartsExist == ASSUME NEW q, NEW n \in Nat PROVE \E f : IsParts(f, q, n)
<1> DEFINE Bad == {m \in Nat : ~\E f : IsParts(f, q, m)}
<1>1. SUFFICES Bad = {}
  OBVIOUS
<1>2. SUFFICES ASSUME Bad # {} PROVE FALSE
  OBVIOUS
<1>3. PICK m \in Bad : \A k \in Bad : m <= k
  BY <1>2, LeastNat
<1>4. CASE m = 0
  <2>1. IsParts([i \in 0..0 |-> <<>>], q, 0)
    BY DEF IsParts
  <2> QED
    BY <1>3, <1>4, <2>1
<1>5. CASE m # 0
  <2>1. m - 1 \in Nat /\ m - 1 \notin Bad
    BY <1>3, <1>5
  <2>2. PICK g : IsParts(g, q, m - 1)
    BY <2>1
  <2> DEFINE h == [i \in 0..m |-> IF i = m THEN g[m - 1] \o q[m] ELSE g[i]]
  <2>3. \A i \in 0..(m - 1) : h[i] = g[i] /\ g[i] = IF i = 0 THEN <<>> ELSE g[i - 1] \o q[i]
    BY <1>5, <2>1, <2>2 DEF IsParts
  <2>4. \A i \in 0..m : h[i] = IF i = 0 THEN <<>> ELSE h[i - 1] \o q[i]
    <3> SUFFICES ASSUME NEW i \in 0..m PROVE h[i] = IF i = 0 THEN <<>> ELSE h[i - 1] \o q[i]
      OBVIOUS
    <3>1. CASE i = m
      BY <1>5, <2>1, <2>3, <3>1
    <3>2. CASE i # m
      <4>1. i \in 0..(m - 1) /\ (i # 0 => i - 1 \in 0..(m - 1))
        BY <2>1, <3>2
      <4> HIDE DEF h
      <4> QED
        BY <2>3, <4>1
    <3> QED
      BY <3>1, <3>2
  <2>5. IsParts(h, q, m)
    BY <2>4 DEF IsParts
  <2> QED
    BY <1>3, <2>5
<1> QED
  BY <1>4, <1>5

\* Flatten(q) is the last value of the function it is defined by.
LEMMA FlattenParts ==
  ASSUME NEW q, Len(q) \in Nat
  PROVE  \E f : IsParts(f, q, Len(q)) /\ Flatten(q) = f[Len(q)]
<1> DEFINE p == CHOOSE f : IsParts(f, q, Len(q))
<1>1. Flatten(q) = p[Len(q)]
  BY DEF Flatten, IsParts
<1>2. IsParts(p, q, Len(q))
  BY PartsExist
<1> QED
  BY <1>1, <1>2

\* What that function is at 0, and at each later place from the one before.
LEMMA PartsStep ==
  ASSUME NEW q, NEW n \in Nat, NEW f, IsParts(f, q, n)
  PROVE  f[0] = <<>> /\ \A i \in 1..n : f[i] = f[i - 1] \o q[i]
  BY DEF IsParts

\* Two queues that agree up to k have the same concatenation up to k.
LEMMA PartsAgree ==
  ASSUME NEW q, NEW r, NEW m \in Nat, NEW n \in Nat, NEW f, IsParts(f, q, m),
         NEW g, IsParts(g, r, n),
         NEW k \in Nat, k <= m, k <= n, \A i \in 1..k : q[i] = r[i]
  PROVE  f[k] = g[k]
<1> DEFINE Bad == {i \in 0..k : f[i] # g[i]}
<1>1. SUFFICES ASSUME Bad # {} PROVE FALSE
  OBVIOUS
<1>2. PICK i \in Bad : \A j \in Bad : i <= j
  <2>1. Bad \subseteq Nat
    OBVIOUS
  <2> HIDE DEF Bad
  <2> QED
    BY <1>1, <2>1, LeastNat
<1>3. i \in 0..k /\ f[i] # g[i]
  BY <1>2
<1>4. i # 0
  BY <1>3, PartsStep
<1>5. i - 1 \in 0..k /\ i \in 1..k /\ i \in 1..m /\ i \in 1..n /\ i - 1 \notin Bad
  BY <1>2, <1>3, <1>4
<1>6. f[i - 1] = g[i - 1] /\ q[i] = r[i]
  BY <1>5
<1>7. f[i] = f[i - 1] \o q[i] /\ g[i] = g[i - 1] \o r[i]
  BY <1>5, PartsStep
<1> QED
  BY <1>3, <1>6, <1>7

\* Every partial concatenation of chunks over S is a sequence over S.
LEMMA PartsType ==
  ASSUME NEW S, NEW q \in Seq(Seq(S)), NEW f, IsParts(f, q, Len(q))
  PROVE  \A i \in 0..Len(q) : f[i] \in Seq(S)
<1> DEFINE Bad == {i \in 0..Len(q) : f[i] \notin Seq(S)}
<1>0. Len(q) \in Nat
  OBVIOUS
<1>1. SUFFICES ASSUME Bad # {} PROVE FALSE
  OBVIOUS
<1>2. PICK i \in Bad : \A j \in Bad : i <= j
  <2>1. Bad \subseteq Nat
    OBVIOUS
  <2> HIDE DEF Bad
  <2> QED
    BY <1>1, <2>1, LeastNat
<1>3. i \in 0..Len(q) /\ f[i] \notin Seq(S)
  BY <1>2
<1>4. i # 0
  <2>1. f[0] = <<>>
    BY <1>0, PartsStep
  <2>2. <<>> \in Seq(S)
    OBVIOUS
  <2> QED
    BY <1>3, <2>1, <2>2
<1>5. i - 1 \in 0..Len(q) /\ i \in 1..Len(q) /\ i - 1 \notin Bad
  BY <1>2, <1>3, <1>4
<1>6. f[i - 1] \in Seq(S) /\ q[i] \in Seq(S)
  BY <1>5
<1>7. f[i] = f[i - 1] \o q[i]
  BY <1>0, <1>5, PartsStep
<1> QED
  BY <1>3, <1>6, <1>7

\* The bytes of a queue of chunks are a sequence of bytes.
LEMMA FlattenType == ASSUME NEW S, NEW q \in Seq(Seq(S)) PROVE Flatten(q) \in Seq(S)
<1>1. Len(q) \in Nat /\ Len(q) \in 0..Len(q)
  OBVIOUS
<1>2. PICK f : IsParts(f, q, Len(q)) /\ Flatten(q) = f[Len(q)]
  BY <1>1, FlattenParts
<1> QED
  BY <1>1, <1>2, PartsType

\* An empty queue holds no bytes.
LEMMA FlattenEmpty == Flatten(<<>>) = <<>>
<1>1. Len(<<>>) = 0
  OBVIOUS
<1>2. PICK f : IsParts(f, <<>>, 0) /\ Flatten(<<>>) = f[0]
  BY <1>1, FlattenParts
<1> QED
  BY <1>2, PartsStep

\* A chunk sent to the back of a channel adds its bytes at the end.
LEMMA FlattenAppend ==
  ASSUME NEW S, NEW q \in Seq(S), NEW c \in S
  PROVE  Flatten(Append(q, c)) = Flatten(q) \o c
<1> DEFINE r == Append(q, c)
           n == Len(q)
<1>1. n \in Nat /\ Len(r) = n + 1 /\ r[n + 1] = c /\ \A i \in 1..n : r[i] = q[i]
  OBVIOUS
<1> HIDE DEF r, n
<1>2. PICK f : IsParts(f, r, n + 1) /\ Flatten(r) = f[n + 1]
  BY <1>1, FlattenParts
<1>3. PICK g : IsParts(g, q, n) /\ Flatten(q) = g[n]
  BY <1>1, FlattenParts DEF n
<1>4. f[n] = g[n]
  <2>1. n + 1 \in Nat /\ n <= n + 1 /\ n <= n
    BY <1>1
  <2> QED
    BY <1>1, <1>2, <1>3, <2>1, PartsAgree
<1>5. f[n + 1] = f[n] \o r[n + 1]
  <2>1. n + 1 \in Nat /\ n + 1 \in 1..(n + 1) /\ (n + 1) - 1 = n
    BY <1>1
  <2> QED
    BY <1>2, <2>1, PartsStep
<1> QED
  BY <1>1, <1>2, <1>3, <1>4, <1>5 DEF r

\* A channel's bytes are its first chunk's and then those of the rest.
LEMMA FlattenHead ==
  ASSUME NEW S, NEW q \in Seq(Seq(S)), q # <<>>
  PROVE  Flatten(q) = Head(q) \o Flatten(Tail(q))
<1>a. \A a, b, c \in Seq(S) : (a \o b) \o c = a \o (b \o c)
  BY ConcatAssociative, SMTT(30)
<1> DEFINE r == Tail(q)
           n == Len(r)
<1>1. /\ r \in Seq(Seq(S)) /\ n \in Nat /\ Len(q) = n + 1 /\ Head(q) = q[1] /\ q[1] \in Seq(S)
      /\ \A i \in 1..n : r[i] = q[i + 1]
  OBVIOUS
<1> HIDE DEF r, n
<1>2. PICK f : IsParts(f, q, n + 1) /\ Flatten(q) = f[n + 1]
  <2>1. n + 1 \in Nat
    BY <1>1
  <2>2. Len(q) \in Nat
    BY <1>1, <2>1
  <2>3. \E f : IsParts(f, q, Len(q)) /\ Flatten(q) = f[Len(q)]
    BY <2>2, FlattenParts
  <2> QED
    BY <1>1, <2>3, Zenon
<1>3. PICK g : IsParts(g, r, n) /\ Flatten(r) = g[n]
  BY <1>1, FlattenParts DEF n
<1>4. \A i \in 0..n : g[i] \in Seq(S)
  BY <1>1, <1>3, PartsType DEF n
<1> DEFINE Bad == {i \in 0..n : f[i + 1] # q[1] \o g[i]}
<1>5. ASSUME Bad # {} PROVE FALSE
  <2>1. PICK i \in Bad : \A j \in Bad : i <= j
    <3>1. 0..n \subseteq Nat
      BY <1>1
    <3>2. Bad \subseteq Nat
      BY <3>1, Zenon
    <3> HIDE DEF Bad
    <3> QED
      BY <1>5, <3>2, LeastNat
  <2>2. i \in 0..n /\ f[i + 1] # q[1] \o g[i]
    BY <2>1
  <2>3. n + 1 \in Nat /\ i + 1 \in 1..(n + 1) /\ (i + 1) - 1 = i
    BY <1>1, <2>2
  <2>4. f[i + 1] = f[i] \o q[i + 1]
    BY <1>2, <2>3, PartsStep
  <2>5. CASE i = 0
    <3>1. f[0] = <<>> /\ g[0] = <<>>
      BY <1>1, <1>2, <1>3, <2>3, PartsStep
    <3>2. <<>> \o q[1] = q[1] /\ q[1] \o <<>> = q[1]
      BY <1>1, ConcatEmptySeq
    <3> QED
      BY <2>2, <2>4, <2>5, <3>1, <3>2
  <2>6. CASE i # 0
    <3>1. i - 1 \in 0..n /\ i \in 1..n /\ (i - 1) + 1 = i /\ ~(i <= i - 1)
      BY <1>1, <2>2, <2>6
    <3>a. i - 1 \notin Bad
      BY <2>1, <3>1, Zenon
    <3>2. f[i] = q[1] \o g[i - 1]
      BY <3>1, <3>a
    <3>3. g[i] = g[i - 1] \o r[i]
      BY <1>1, <1>3, <3>1, PartsStep
    <3>4. r[i] = q[i + 1] /\ r[i] \in Seq(S) /\ g[i - 1] \in Seq(S)
      BY <1>1, <1>4, <3>1 DEF n
    <3>5. (q[1] \o g[i - 1]) \o r[i] = q[1] \o (g[i - 1] \o r[i])
      <4>1. g[i - 1] \in Seq(S) /\ r[i] \in Seq(S) /\ q[1] \in Seq(S)
        BY <1>1, <3>4
      <4>3. PICK u \in Seq(S) : u = g[i - 1]
        BY <4>1, Zenon
      <4>4. PICK v \in Seq(S) : v = r[i]
        BY <4>1, Zenon
      <4>5. PICK w \in Seq(S) : w = q[1]
        BY <4>1, Zenon
      <4>6. (w \o u) \o v = w \o (u \o v)
        BY <1>a, Zenon
      <4> QED
        BY <4>3, <4>4, <4>5, <4>6, Zenon
    <3> QED
      BY <2>2, <2>4, <3>2, <3>3, <3>4, <3>5
  <2> QED
    BY <2>5, <2>6
<1>6. f[n + 1] = q[1] \o g[n]
  <2>1. n \in 0..n
    BY <1>1
  <2>2. n \notin Bad
    BY <1>5, Zenon
  <2> QED
    BY <2>1, <2>2, Zenon
<1> QED
  BY <1>1, <1>2, <1>3, <1>6 DEF r

-----------------------------------------------------------------------------

\* One more byte produced is the next number at the end of the stream.
LEMMA StreamStep ==
  ASSUME NEW n \in Nat
  PROVE  Stream(n) \in Seq(Byte) /\ Plus(Stream(n), <<n + 1>>) = Stream(n + 1)
  BY DEF Stream, Byte, Plus

\* A buffer cut in two is its two parts joined.
LEMMA SplitJoin ==
  ASSUME NEW s \in Seq(Byte), NEW n \in 1..Len(s)
  PROVE  /\ SubSeq(s, 1, n) \in Seq(Byte) /\ SubSeq(s, n + 1, Len(s)) \in Seq(Byte)
         /\ s = SubSeq(s, 1, n) \o SubSeq(s, n + 1, Len(s))
  OBVIOUS

\* Bytes written to the kernel come last of all that is under way.
LEMMA JoinWrite ==
  ASSUME NEW r \in Seq(Byte), NEW f \in Seq(Byte), NEW c \in Seq(Byte), NEW k \in Seq(Byte),
         NEW x \in Seq(Byte)
  PROVE  Join(r, f, c, Plus(k, x)) = Plus(Join(r, f, c, k), x)
<1>1. r \o f \in Seq(Byte)
  BY ConcatProperties
<1>2. r \o f \o c \in Seq(Byte)
  BY <1>1, ConcatProperties
<1>3. \A p \in Seq(Byte) : (p \o k) \o x = p \o (k \o x)
  BY ConcatAssociative, SMTT(30)
<1> QED
  BY <1>2, <1>3 DEF Join, Plus

\* Reading a chunk from the kernel moves it into the empty hand.
LEMMA JoinRead ==
  ASSUME NEW r \in Seq(Byte), NEW f \in Seq(Byte), NEW a \in Seq(Byte), NEW b \in Seq(Byte)
  PROVE  Join(r, f, <<>>, a \o b) = Join(r, f, a, b)
<1>1. r \o f \in Seq(Byte)
  BY ConcatProperties
<1>2. r \o f \o <<>> = r \o f
  BY <1>1, ConcatEmptySeq
<1>3. \A p \in Seq(Byte) : (p \o a) \o b = p \o (a \o b)
  BY ConcatAssociative, SMTT(30)
<1>4. ((r \o f) \o a) \o b = (r \o f) \o (a \o b)
  BY <1>1, <1>3
<1> QED
  BY <1>2, <1>4 DEF Join

\* Sending the chunk in hand moves it to the channel's end.
LEMMA JoinSend ==
  ASSUME NEW r \in Seq(Byte), NEW f \in Seq(Byte), NEW c \in Seq(Byte), NEW k \in Seq(Byte)
  PROVE  Join(r, f \o c, <<>>, k) = Join(r, f, c, k)
<1>1. f \o c \in Seq(Byte) /\ r \o (f \o c) = r \o f \o c
  BY ConcatProperties, ConcatAssociative, SMTT(30)
<1>2. r \o (f \o c) \in Seq(Byte)
  BY <1>1, ConcatProperties
<1>3. r \o (f \o c) \o <<>> = r \o (f \o c)
  BY <1>2, ConcatEmptySeq
<1> QED
  BY <1>1, <1>3 DEF Join

\* Receiving a chunk moves it to what was received.
LEMMA JoinTake ==
  ASSUME NEW r \in Seq(Byte), NEW h \in Seq(Byte), NEW t \in Seq(Byte), NEW c, NEW k
  PROVE  Join(r \o h, t, c, k) = Join(r, h \o t, c, k)
<1>1. r \o h \o t = r \o (h \o t)
  BY ConcatAssociative, SMTT(30)
<1> QED
  BY <1>1 DEF Join

\* An accepted write comes last of all that is to be typed.
LEMMA AcceptJoins ==
  ASSUME NEW t \in Seq(Byte), NEW w \in Seq(Byte), NEW q \in Seq(Byte), NEW x \in Seq(Byte)
  PROVE  Join3(t, w, Plus(q, x)) = Plus(Join3(t, w, q), x)
<1>1. t \o w \in Seq(Byte)
  BY ConcatProperties
<1>2. \A p \in Seq(Byte) : (p \o q) \o x = p \o (q \o x)
  BY ConcatAssociative, SMTT(30)
<1> QED
  BY <1>1, <1>2 DEF Join3, Plus

\* The writer takes a chunk into its empty hand.
LEMMA RecvJoins ==
  ASSUME NEW t \in Seq(Byte), NEW h \in Seq(Byte), NEW q \in Seq(Byte)
  PROVE  Join3(t, <<>>, h \o q) = Join3(t, h, q)
<1>1. t \o <<>> = t
  BY ConcatEmptySeq
<1>2. (t \o h) \o q = t \o (h \o q)
  BY ConcatAssociative, SMTT(30)
<1> QED
  BY <1>1, <1>2 DEF Join3

\* A write of part of the chunk in hand types that part.
LEMMA WriteJoins ==
  ASSUME NEW t \in Seq(Byte), NEW a \in Seq(Byte), NEW b \in Seq(Byte), NEW q
  PROVE  Join3(Plus(t, a), b, q) = Join3(t, Plus(a, b), q)
<1>1. (t \o a) \o b = t \o (a \o b)
  BY ConcatAssociative, SMTT(30)
<1> QED
  BY <1>1 DEF Join3, Plus

-----------------------------------------------------------------------------

\* A prefix stays one when the other sequence grows.
LEMMA PrefixExtends ==
  ASSUME NEW s \in Seq(Byte), NEW t, Prefix(s, t), NEW u \in Seq(Byte)
  PROVE  Prefix(s, t \o u)
<1>1. PICK v \in Seq(Byte) : t = s \o v
  BY DEF Prefix
<1>2. v \o u \in Seq(Byte) /\ (s \o v) \o u = s \o (v \o u)
  BY ConcatProperties, ConcatAssociative, SMTT(30)
<1> QED
  BY <1>1, <1>2 DEF Prefix

\* The first of four joined sequences is a prefix of them.
LEMMA JoinIsPrefix ==
  ASSUME NEW r \in Seq(Byte), NEW f \in Seq(Byte), NEW c \in Seq(Byte), NEW k \in Seq(Byte)
  PROVE  Prefix(r, Join(r, f, c, k))
<1>1. Prefix(r, r \o f)
  BY DEF Prefix
<1>2. Prefix(r, r \o f \o c)
  BY <1>1, PrefixExtends
<1> QED
  BY <1>2, PrefixExtends DEF Join

\* The first of three joined sequences is a prefix of them.
LEMMA Join3IsPrefix ==
  ASSUME NEW t \in Seq(Byte), NEW w \in Seq(Byte), NEW q \in Seq(Byte)
  PROVE  Prefix(t, Join3(t, w, q))
<1>1. Prefix(t, t \o w)
  BY DEF Prefix
<1> QED
  BY <1>1, PrefixExtends DEF Join3

\* Prefix in the words of ByteStream's IsPrefixOf.
LEMMA PrefixIsPrefix ==
  ASSUME NEW s \in Seq(Byte), NEW t \in Seq(Byte), Prefix(s, t)
  PROVE  Len(s) <= Len(t) /\ s = SubSeq(t, 1, Len(s))
<1>1. PICK v \in Seq(Byte) : t = s \o v
  BY DEF Prefix
<1> QED
  BY <1>1

-----------------------------------------------------------------------------

\* The types of everything that holds bytes, the channels flattened too.
LEMMA BytesTypes ==
  ASSUME TypeOK
  PROVE  /\ received \in Seq(Byte) /\ rchunk \in Seq(Byte) /\ kout \in Seq(Byte)
         /\ accepted \in Seq(Byte) /\ typed \in Seq(Byte) /\ wchunk \in Seq(Byte)
         /\ outQ \in Seq(Seq(Byte)) /\ inQ \in Seq(Seq(Byte)) /\ produced \in Nat
         /\ Flatten(outQ) \in Seq(Byte) /\ Flatten(inQ) \in Seq(Byte)
<1>1. outQ \in Seq(Seq(Byte)) /\ inQ \in Seq(Seq(Byte))
  BY DEF TypeOK, ChannelTypeOK
<1>2. Flatten(outQ) \in Seq(Byte) /\ Flatten(inQ) \in Seq(Byte)
  BY <1>1, FlattenType
<1> QED
  BY <1>1, <1>2 DEF TypeOK, EnvTypeOK, ThreadTypeOK, CallerTypeOK

\* The steps that touch the output side at all.
LEMMA OutputWriters == [Next]_vars =>
  \/ UNCHANGED <<outRx, received, outQ, rchunk, kout, produced, cpc>>
  \/ SlaveWrites \/ ReaderReads \/ ReaderSend \/ Consumer \/ ConsumerGoes
<1> SUFFICES ASSUME [Next]_vars
             PROVE  \/ UNCHANGED <<outRx, received, outQ, rchunk, kout, produced, cpc>>
                    \/ SlaveWrites \/ ReaderReads \/ ReaderSend \/ Consumer \/ ConsumerGoes
  OBVIOUS
<1>1. CASE Environment
  BY <1>1 DEF Environment, SlaveReads, ChildDies, SlaveCloses, EnvFrame, outVars,
    readerVars, consumerVars
<1>2. CASE Reader
  BY <1>2, ReaderKeeps DEF Reader, ReaderStart, ReaderCheck, ReaderReadsNothing,
    ReaderPoll,
    ReaderWake, ReaderFull, ReaderDropTx, ReaderLastWake, ReaderFrame, consumerVars
<1>3. CASE Writer
  BY <1>3, WriterKeeps DEF WriterFrame, outVars, readerVars, consumerVars
<1>4. CASE ExitWaiter
  BY <1>4 DEF ExitWaiter, ExitStart, ExitWaitpid, ExitSet, ExitSpin, ExitPublish,
    ExitWake,
    ExitFrame, kernelVars, outVars, readerVars, consumerVars
<1>5. CASE Owner
  BY <1>5, OwnerKeeps DEF OwnerFrame, kernelVars, outVars, readerVars, consumerVars
<1>6. CASE UNCHANGED vars
  BY <1>6 DEF vars, kernelVars, outVars, readerVars, consumerVars
<1> QED
  BY <1>1, <1>2, <1>3, <1>4, <1>5, <1>6 DEF Next

\* No step leaves a chunk in a hand that the thread believes empty.
LEMMA HandsStep == ASSUME TypeOK, HandsOK, [Next]_vars PROVE HandsOK'
<1>1. (rpc \in {"start", "check", "read", "poll", "wake"} => rchunk = <<>>)'
  <2>1. CASE Reader
    BY <2>1 DEF HandsOK, Reader, ReaderStart, ReaderCheck, ReaderReads,
      ReaderReadsNothing,
      ReaderPoll, ReaderSend, ReaderWake, ReaderFull, ReaderDropTx, ReaderLastWake,
      TypeOK, ThreadTypeOK
  <2>2. CASE UNCHANGED <<rpc, rchunk>>
    BY <2>2 DEF HandsOK
  <2>3. Reader \/ UNCHANGED <<rpc, rchunk>>
    BY WriterKeeps, OwnerKeeps DEF Next, vars, Environment, SlaveWrites, SlaveReads,
      ChildDies, SlaveCloses, EnvFrame,
      WriterFrame, ExitWaiter, ExitStart, ExitWaitpid, ExitSet, ExitSpin, ExitPublish,
      ExitWake, ExitFrame,
      OwnerFrame, Consumer, ConsumerStarts, ConsumerReceives, ConsumerPollsExit,
      ConsumerGoes, ConsumerFrame, readerVars
  <2> QED
    BY <2>1, <2>2, <2>3
<1>2. (wpc \in {"start", "check", "recv"} => wchunk = <<>>)'
  <2>1. CASE Writer
    BY <2>1 DEF HandsOK, Writer, WriterStart, WriterCheck, WriterRecv, WriterMore,
      WriterWrites, WriterWritesNothing, WriterPoll,
       WriterReturns
  <2>2. CASE UNCHANGED <<wpc, wchunk>>
    BY <2>2 DEF HandsOK
  <2>3. Writer \/ UNCHANGED <<wpc, wchunk>>
    BY ReaderKeeps, OwnerKeeps DEF Next, vars, Environment, SlaveWrites, SlaveReads,
      ChildDies, SlaveCloses, EnvFrame,
      ReaderFrame, ExitWaiter, ExitStart, ExitWaitpid, ExitSet, ExitSpin, ExitPublish,
      ExitWake, ExitFrame,
      OwnerFrame, Consumer, ConsumerStarts, ConsumerReceives, ConsumerPollsExit,
      ConsumerGoes, ConsumerFrame, writerVars
  <2> QED
    BY <2>1, <2>2, <2>3
<1>3. (outRx \/ cpc = "gone")'
  BY OutputWriters DEF HandsOK, SlaveWrites, ReaderReads, ReaderSend, Consumer,
    ConsumerStarts,
    ConsumerReceives, ConsumerPollsExit, ConsumerGoes, EnvFrame, ReaderFrame, outVars,
    consumerVars
<1> QED
  BY <1>1, <1>2, <1>3 DEF HandsOK

\* No step loses, repeats or reorders output while the receiver lives.
LEMMA OutputStep == ASSUME TypeOK, HandsOK, OutputOK, [Next]_vars PROVE OutputOK'
<1>0. SUFFICES ASSUME outRx'
              PROVE  Join(received', Flatten(outQ'), rchunk', kout') = Stream(produced')
  BY DEF OutputOK
<1>1. CASE UNCHANGED <<outRx, received, outQ, rchunk, kout, produced>>
  BY <1>0, <1>1 DEF OutputOK
<1>2. CASE SlaveWrites
  <2>1. /\ UNCHANGED <<outRx, received, outQ, rchunk>> /\ kout' = Append(kout, produced + 1)
        /\ produced' = produced + 1
    BY <1>2 DEF SlaveWrites, EnvFrame, outVars, readerVars, consumerVars
  <2>2. PICK x \in Seq(Byte) : x = <<produced + 1>>
    <3>1. produced + 1 \in Byte
      BY BytesTypes DEF Byte
    <3>2. \A y \in Byte : <<y>> \in Seq(Byte)
      OBVIOUS
    <3> QED
      BY <3>1, <3>2
  <2>3. kout' = Plus(kout, x)
    <3>1. produced + 1 \in Byte /\ kout \in Seq(Byte)
      BY BytesTypes DEF Byte
    <3> QED
      BY <2>1, <2>2, <3>1, AppendIsConcat DEF Plus
  <2>4. Join(received, Flatten(outQ), rchunk, kout) = Stream(produced)
    BY <1>0, <2>1 DEF OutputOK
  <2>5. Join(received, Flatten(outQ), rchunk, kout') = Plus(Stream(produced), x)
    BY <2>3, <2>4, BytesTypes, JoinWrite
  <2>6. Plus(Stream(produced), x) = Stream(produced + 1)
    BY <2>2, BytesTypes, StreamStep
  <2> QED
    BY <2>1, <2>5, <2>6
<1>3. CASE ReaderReads
  <2>1. UNCHANGED <<outRx, received, outQ, produced>> /\ rchunk = <<>>
    BY <1>3 DEF ReaderReads, ReaderFrame, consumerVars, HandsOK
  <2>2. PICK n \in 1..ChunkLen :
          /\ n <= Len(kout) /\ rchunk' = SubSeq(kout, 1, n)
          /\ kout' = SubSeq(kout, n + 1, Len(kout))
    BY <1>3 DEF ReaderReads
  <2>3. n \in 1..Len(kout) /\ kout \in Seq(Byte)
    BY <2>2, BytesTypes, CapAssumption
  <2>4. rchunk' \in Seq(Byte) /\ kout' \in Seq(Byte) /\ kout = rchunk' \o kout'
    BY <2>2, <2>3, SplitJoin
  <2>5. Join(received, Flatten(outQ), <<>>, kout) = Join(received, Flatten(outQ), rchunk', kout')
    BY <2>4, BytesTypes, JoinRead
  <2> QED
    BY <1>0, <2>1, <2>5 DEF OutputOK
<1>4. CASE ReaderSend
  <2>1. UNCHANGED <<outRx, received, produced, kout>>
    BY <1>4 DEF ReaderSend, ReaderFrame, consumerVars
  <2>2. \/ UNCHANGED <<outQ, rchunk>>
        \/ outQ' = Append(outQ, rchunk) /\ rchunk' = <<>>
    BY <1>0, <1>4, <2>1 DEF ReaderSend
  <2>3. CASE outQ' = Append(outQ, rchunk) /\ rchunk' = <<>>
    <3>1. Flatten(outQ') = Flatten(outQ) \o rchunk
      BY <2>3, BytesTypes, FlattenAppend
    <3>2. Join(received, Flatten(outQ'), <<>>, kout) = Join(received, Flatten(outQ), rchunk, kout)
      BY <3>1, BytesTypes, JoinSend
    <3> QED
      BY <1>0, <2>1, <2>3, <3>2 DEF OutputOK
  <2> QED
    BY <1>0, <2>1, <2>2, <2>3 DEF OutputOK
<1>5. CASE Consumer \/ ConsumerGoes
  <2>1. UNCHANGED <<outRx, rchunk, kout, produced>>
    BY <1>0, <1>5 DEF Consumer, ConsumerStarts, ConsumerReceives, ConsumerPollsExit,
      ConsumerGoes,
      ConsumerFrame, kernelVars, readerVars
  <2>2. \/ UNCHANGED <<outQ, received>>
        \/ outQ # <<>> /\ received' = received \o Head(outQ) /\ outQ' = Tail(outQ)
    BY <1>0, <1>5 DEF Consumer, ConsumerStarts, ConsumerReceives, ConsumerPollsExit,
      ConsumerGoes
  <2>3. CASE outQ # <<>> /\ received' = received \o Head(outQ) /\ outQ' = Tail(outQ)
    <3>1. Head(outQ) \in Seq(Byte) /\ Tail(outQ) \in Seq(Seq(Byte))
      BY <2>3, BytesTypes
    <3>2. Flatten(outQ) = Head(outQ) \o Flatten(outQ') /\ Flatten(outQ') \in Seq(Byte)
      BY <2>3, <3>1, BytesTypes, FlattenHead, FlattenType
    <3>3. Join(received', Flatten(outQ'), rchunk, kout) = Join(received, Flatten(outQ), rchunk, kout)
      BY <2>3, <3>1, <3>2, BytesTypes, JoinTake
    <3> QED
      BY <1>0, <2>1, <3>3 DEF OutputOK
  <2> QED
    BY <1>0, <2>1, <2>2, <2>3 DEF OutputOK
<1> QED
  BY <1>1, <1>2, <1>3, <1>4, <1>5, OutputWriters

\* The steps that touch the input side at all, and that shutdown is final.
LEMMA InputWriters == [Next]_vars =>
  \/ UNCHANGED <<accepted, typed, wchunk, inQ, wpc>> /\ (shutdown => shutdown')
  \/ Writer \/ TryWrite \/ WriteEnd
<1> SUFFICES ASSUME [Next]_vars
             PROVE  \/ UNCHANGED <<accepted, typed, wchunk, inQ, wpc>> /\ (shutdown => shutdown')
                    \/ Writer \/ TryWrite \/ WriteEnd
  OBVIOUS
<1>1. CASE Environment
  BY <1>1 DEF Environment, SlaveWrites, SlaveReads, ChildDies, SlaveCloses, EnvFrame,
    ownerVars,
    inVars, writerVars
<1>2. CASE Reader
  BY <1>2, ReaderKeeps DEF ReaderFrame, ownerVars, inVars, writerVars
<1>3. CASE ExitWaiter
  BY <1>3 DEF ExitWaiter, ExitStart, ExitWaitpid, ExitSet, ExitSpin, ExitPublish,
    ExitWake,
    ExitFrame, kernelVars, inVars, writerVars, ownerVars
<1>4. CASE Owner
  <2>1. UNCHANGED <<typed, wchunk, wpc>>
    BY <1>4, OwnerKeeps DEF OwnerFrame, kernelVars, writerVars
  <2>2. \/ UNCHANGED <<accepted, inQ>> /\ (shutdown => shutdown')
        \/ TryWrite \/ WriteEnd
    BY <1>4 DEF Owner, OwnerCalls, OwnerContinues, WriteBegin, WriteExpires, TryWaitBegin,
      TryWaitpid, TryWaitSet, ShutdownBegin, ShutdownAgain, ShutdownClosesTx,
      ShutdownJoinsWriter, ShutdownSignals, ShutdownPolls, ShutdownSleeps, GraceExpires,
      ShutdownJoinsExit, ShutdownReturns, ShutdownFrame
  <2> QED
    BY <2>1, <2>2
<1>5. CASE Consumer \/ ConsumerGoes
  BY <1>5 DEF Consumer, ConsumerStarts, ConsumerReceives, ConsumerPollsExit, ConsumerGoes,
    ConsumerFrame, kernelVars, inVars, writerVars, ownerVars
<1>6. CASE UNCHANGED vars
  BY <1>6 DEF vars, kernelVars, inVars, writerVars, ownerVars
<1> QED
  BY <1>1, <1>2, <1>3, <1>4, <1>5, <1>6 DEF Next

\* No step loses, repeats or reorders input while the writer may write it.
LEMMA InputStep == ASSUME TypeOK, HandsOK, InputOK, [Next]_vars PROVE InputOK'
<1>1. CASE UNCHANGED <<accepted, typed, wchunk, inQ, wpc>> /\ (shutdown => shutdown')
  BY <1>1 DEF InputOK
<1>2. CASE TryWrite \/ WriteEnd
  <2>1. UNCHANGED <<typed, wchunk, wpc, shutdown>>
    BY <1>2 DEF TryWrite, WriteEnd, OwnerFrame, kernelVars, writerVars
  <2>2. CASE UNCHANGED <<inQ, accepted>>
    BY <2>1, <2>2 DEF InputOK
  <2>3. CASE /\ inQ' = Append(inQ, InputChunk(writes'))
             /\ accepted' = accepted \o InputChunk(writes')
    <3>1. InputChunk(writes') \in Seq(Byte)
      <4>1. writes' \in Nat \ {0}
        <5>1. writes \in Nat /\ (opc \in {"send", "sendtimeout"} => writes # 0)
          BY DEF TypeOK, CallerTypeOK
        <5>2. writes' = writes + 1 \/ (writes' = writes /\ writes # 0)
          BY <1>2, <5>1 DEF TryWrite, WriteEnd
        <5> QED
          BY <5>1, <5>2
      <4> QED
        BY <4>1, InputChunkType
    <3>2. Flatten(inQ') = Plus(Flatten(inQ), InputChunk(writes'))
      BY <2>3, <3>1, BytesTypes, FlattenAppend DEF Plus
    <3>3. accepted' = Plus(accepted, InputChunk(writes'))
      BY <2>3 DEF Plus
    <3>4. Join3(typed, wchunk, Flatten(inQ'))
            = Plus(Join3(typed, wchunk, Flatten(inQ)), InputChunk(writes'))
      BY <3>1, <3>2, BytesTypes, AcceptJoins
    <3> QED
      BY <2>1, <3>3, <3>4 DEF InputOK
  <2> QED
    BY <1>2, <2>2, <2>3 DEF TryWrite, WriteEnd, Enqueue
<1>3. CASE Writer
  <2>1. accepted' = accepted /\ shutdown' = shutdown
    BY <1>3, WriterKeeps DEF WriterFrame, ownerVars
  <2>2. CASE WriterReturns
    BY <2>2 DEF WriterReturns, InputOK
  <2>3. CASE /\ UNCHANGED <<typed, wchunk, inQ>> /\ wpc # "done"
             /\ (wpc = "check" => ~shutdown)
    BY <2>1, <2>3 DEF InputOK
  <2>4. CASE WriterRecv /\ ~WriterReturns
    <3>1. /\ wpc = "recv" /\ inQ # <<>> /\ wchunk' = Head(inQ) /\ inQ' = Tail(inQ)
          /\ typed' = typed /\ wchunk = <<>>
      BY <2>4 DEF WriterRecv, HandsOK
    <3>2. Head(inQ) \in Seq(Byte) /\ Tail(inQ) \in Seq(Seq(Byte))
      BY <3>1, BytesTypes
    <3>3. Flatten(inQ) = Head(inQ) \o Flatten(inQ') /\ Flatten(inQ') \in Seq(Byte)
      BY <3>1, <3>2, BytesTypes, FlattenHead, FlattenType
    <3>4. Join3(typed, <<>>, Flatten(inQ)) = Join3(typed, wchunk', Flatten(inQ'))
      BY <3>1, <3>2, <3>3, BytesTypes, RecvJoins
    <3> QED
      BY <2>1, <3>1, <3>4 DEF InputOK
  <2>5. CASE WriterMore
    BY <2>1, <2>5 DEF WriterMore, InputOK
  <2>6. CASE WriterWrites
    <3>1. PICK n \in 1..Len(wchunk) : /\ typed' = typed \o SubSeq(wchunk, 1, n)
                                      /\ wchunk' = SubSeq(wchunk, n + 1, Len(wchunk))
      BY <2>6 DEF WriterWrites
    <3>2. PICK a \in Seq(Byte), b \in Seq(Byte) :
            wchunk = Plus(a, b) /\ typed' = Plus(typed, a) /\ wchunk' = b
      BY <3>1, BytesTypes, SplitJoin DEF Plus
    <3>3. Join3(typed', wchunk', Flatten(inQ)) = Join3(typed, wchunk, Flatten(inQ))
      BY <3>2, BytesTypes, WriteJoins
    <3>4. wpc = "write" /\ inQ' = inQ
      BY <2>6 DEF WriterWrites
    <3> QED
      BY <2>1, <3>3, <3>4 DEF InputOK
  <2>7. CASE /\ (WriterStart \/ WriterCheck \/ WriterWritesNothing \/ WriterPoll)
             /\ ~WriterReturns
    BY <2>3, <2>7 DEF WriterStart, WriterCheck, WriterWritesNothing, WriterPoll
  <2> QED
    BY <1>3, <2>2, <2>4, <2>5, <2>6, <2>7 DEF Writer
<1> QED
  BY <1>1, <1>2, <1>3, InputWriters

\* The far ends keep a beginning of what was given, also when bytes are dropped.
LEMMA PrefixStep ==
  ASSUME TypeOK, TypeOK', HandsOK, OutputOK', InputOK', PrefixOK, [Next]_vars
  PROVE  PrefixOK'
<1>1. Prefix(received, Stream(produced))'
  <2>1. CASE outRx'
    <3>1. (Join(received, Flatten(outQ), rchunk, kout) = Stream(produced))'
      BY <2>1 DEF OutputOK
    <3>2. (/\ received \in Seq(Byte) /\ Flatten(outQ) \in Seq(Byte)
           /\ rchunk \in Seq(Byte) /\ kout \in Seq(Byte))'
      BY FlattenType DEF TypeOK, ChannelTypeOK, EnvTypeOK, ThreadTypeOK, CallerTypeOK
    <3>3. Prefix(received', Join(received', Flatten(outQ'), rchunk', kout'))
      BY <3>2, JoinIsPrefix
    <3> QED
      BY <3>1, <3>3
  <2>2. CASE ~outRx'
    <3>1. received' = received
      BY <2>2, OutputWriters DEF HandsOK, SlaveWrites, ReaderReads, ReaderSend,
        Consumer, ConsumerStarts,
        ConsumerReceives, ConsumerPollsExit, ConsumerGoes, EnvFrame, ReaderFrame,
        outVars, consumerVars
    <3>2. produced' = produced \/ produced' = produced + 1
      BY OutputWriters DEF SlaveWrites, ReaderReads, ReaderSend, Consumer, ConsumerStarts,
        ConsumerReceives, ConsumerPollsExit, ConsumerGoes, ReaderFrame, ConsumerFrame,
        kernelVars
    <3>3. Prefix(received, Stream(produced + 1))
      <4>1. /\ <<produced + 1>> \in Seq(Byte)
            /\ Stream(produced + 1) = Stream(produced) \o <<produced + 1>>
        <5>1. produced + 1 \in Byte
          BY BytesTypes DEF Byte
        <5>2. \A y \in Byte : <<y>> \in Seq(Byte)
          OBVIOUS
        <5> QED
          BY <5>1, <5>2, BytesTypes, StreamStep DEF Plus
      <4> QED
        BY <4>1, BytesTypes, PrefixExtends DEF PrefixOK
    <3> QED
      BY <3>1, <3>2, <3>3 DEF PrefixOK
  <2> QED
    BY <2>1, <2>2
<1>2. Prefix(typed, accepted)'
  <2>1. CASE accepted' = Join3(typed', wchunk', Flatten(inQ'))
    <3>1. (typed \in Seq(Byte) /\ wchunk \in Seq(Byte) /\ Flatten(inQ) \in Seq(Byte))'
      BY FlattenType DEF TypeOK, ChannelTypeOK, EnvTypeOK, ThreadTypeOK
    <3> QED
      BY <2>1, <3>1, Join3IsPrefix
  <2>2. CASE wpc' = "done" \/ (shutdown' /\ wpc' = "check")
    <3>1. typed' = typed
      BY <2>2, InputWriters, WriterKeeps, OwnerKeeps DEF Writer, WriterStart,
        WriterCheck, WriterRecv, WriterMore,
        WriterWrites, WriterWritesNothing, WriterPoll, TryWrite, WriteEnd, OwnerFrame,
        kernelVars
    <3>2. accepted' = accepted \/ accepted' = accepted \o InputChunk(writes')
      BY InputWriters, WriterKeeps DEF WriterFrame, ownerVars, TryWrite, WriteEnd, Enqueue
    <3>3. accepted' = accepted \/ InputChunk(writes') \in Seq(Byte)
      <4>1. CASE TryWrite \/ WriteEnd
        <5>1. writes \in Nat /\ (opc \in {"send", "sendtimeout"} => writes # 0)
          BY DEF TypeOK, CallerTypeOK
        <5>2. writes' = writes + 1 \/ (writes' = writes /\ writes # 0)
          BY <4>1, <5>1 DEF TryWrite, WriteEnd
        <5> QED
          BY <5>1, <5>2, InputChunkType
      <4> QED
        BY <4>1, InputWriters, WriterKeeps DEF WriterFrame, ownerVars
    <3> QED
      BY <3>1, <3>2, <3>3, BytesTypes, PrefixExtends DEF PrefixOK
  <2> QED
    BY <2>1, <2>2 DEF InputOK
<1> QED
  BY <1>1, <1>2 DEF PrefixOK

\* A session opens with nothing under way.
LEMMA InitBytes == Init => BytesInv
<1> SUFFICES ASSUME Init PROVE BytesInv
  OBVIOUS
<1>1. <<>> \in Seq(Byte) /\ Stream(0) = <<>> /\ \A s \in Seq(Byte) : s \o <<>> = s
  BY ConcatEmptySeq DEF Stream
<1>2. HandsOK
  BY DEF Init, HandsOK
<1>3. OutputOK
  BY <1>1, FlattenEmpty DEF Init, OutputOK, Join
<1>4. InputOK
  BY <1>1, FlattenEmpty DEF Init, InputOK, Join3
<1>5. Prefix(<<>>, <<>>)
  BY <1>1 DEF Prefix
<1>6. PrefixOK
  BY <1>1, <1>5 DEF Init, PrefixOK
<1> QED
  BY <1>2, <1>3, <1>4, <1>6 DEF BytesInv

\* For every value of the constants: while both ends live no byte is lost,
\* repeated or reordered in either direction, and the far end always holds the
\* beginning of what the near end gave (session.rs, reader_loop and writer_loop).
THEOREM BytesInvariant == Spec => []BytesInv
<1>1. TypeOK /\ TypeOK' /\ BytesInv /\ [Next]_vars => BytesInv'
  BY HandsStep, OutputStep, InputStep, PrefixStep DEF BytesInv
<1> QED
  BY <1>1, InitBytes, TypesCorrect, PTL DEF Spec

\* BytesKept, the invariant of the run PtySafety, for every value of the
\* constants: chunking, partial writes, full channels, retries and shutdown lose
\* or reorder no byte between the two ends while they live.
THEOREM BytesAreKept == Spec => []BytesKept
<1>1. BytesInv => BytesKept
  BY DEF BytesInv, OutputOK, InputOK, Join, Join3, Stream, BytesKept, OutputKept,
    AcceptedInputKept
<1> QED
  BY <1>1, BytesInvariant, PTL

\* A byte more is a step of the abstract sender.
LEMMA StreamSends ==
  ASSUME NEW n \in Nat
  PROVE  /\ Len(Stream(n)) = n /\ Len(Stream(n + 1)) = n + 1
         /\ Output!IsPrefixOf(Stream(n), Stream(n + 1))
<1>1. Len(Stream(n)) = n /\ Len(Stream(n + 1)) = n + 1
  BY DEF Stream
<1>2. Stream(n) = SubSeq(Stream(n + 1), 1, n)
  BY DEF Stream
<1> QED
  BY <1>1, <1>2 DEF Output!IsPrefixOf

\* A sequence is a prefix of what it is continued to, and shorter unless equal.
LEMMA ConcatIsPrefix ==
  ASSUME NEW s \in Seq(Byte), NEW u \in Seq(Byte)
  PROVE  /\ Len(s) <= Len(s \o u) /\ s = SubSeq(s \o u, 1, Len(s))
         /\ Len(s \o u) > Len(s) \/ s \o u = s
<1>1. u = <<>> \/ Len(u) > 0
  OBVIOUS
<1>2. u = <<>> => s \o u = s
  BY ConcatEmptySeq
<1>3. Len(u) > 0 => Len(s \o u) > Len(s)
  OBVIOUS
<1>4. Len(s) <= Len(s \o u) /\ s = SubSeq(s \o u, 1, Len(s))
  OBVIOUS
<1> QED
  BY <1>1, <1>2, <1>3, <1>4

\* Every step is, for the output, the abstract stream's Send or Obtain, or
\* leaves it alone.
LEMMA OutputRefines ==
  ASSUME TypeOK, PrefixOK', [Next]_vars
  PROVE  Output!Send \/ Output!Obtain \/ UNCHANGED <<Stream(produced), received>>
<1>1. CASE SlaveWrites
  <2>1. produced' = produced + 1 /\ received' = received /\ produced \in Nat
    BY <1>1, BytesTypes DEF SlaveWrites, EnvFrame, consumerVars
  <2>2. /\ Len(Stream(produced)) = produced /\ Len(Stream(produced + 1)) = produced + 1
        /\ Output!IsPrefixOf(Stream(produced), Stream(produced + 1))
    <3>1. produced + 1 \in Nat
      BY <2>1
    <3> QED
      BY <2>1, <3>1, StreamSends
  <2> QED
    BY <2>1, <2>2 DEF Output!Send, Stream
<1>2. CASE ConsumerReceives /\ outQ # <<>>
  <2>1. received' = received \o Head(outQ) /\ produced' = produced
    BY <1>2 DEF ConsumerReceives, ConsumerFrame, kernelVars
  <2>2. received \in Seq(Byte) /\ Head(outQ) \in Seq(Byte) /\ produced \in Nat
    BY <1>2, BytesTypes
  <2>3. /\ Len(received) <= Len(received') /\ received = SubSeq(received', 1, Len(received))
        /\ Len(received') > Len(received) \/ received' = received
    BY <2>1, <2>2, ConcatIsPrefix
  <2>4. /\ received' \in Seq(Byte) /\ Prefix(received', Stream(produced))
        /\ Stream(produced) \in Seq(Byte)
    BY <2>1, <2>2, ConcatProperties, StreamStep DEF PrefixOK
  <2>5. Output!IsPrefixOf(received', Stream(produced))
    BY <2>4, PrefixIsPrefix DEF Output!IsPrefixOf
  <2>6. Output!IsPrefixOf(received, received')
    BY <2>3 DEF Output!IsPrefixOf
  <2> QED
    BY <2>1, <2>3, <2>5, <2>6 DEF Output!Obtain, Stream
<1>3. CASE UNCHANGED <<produced, received>>
  BY <1>3
<1> QED
  BY <1>1, <1>2, <1>3, OutputWriters DEF ReaderReads, ReaderSend, Consumer,
    ConsumerStarts,
    ConsumerReceives, ConsumerPollsExit, ConsumerGoes, ReaderFrame, ConsumerFrame,
    kernelVars, consumerVars

\* Every step is, for the input, the abstract stream's Send or Obtain, or
\* leaves it alone.
LEMMA InputRefines ==
  ASSUME TypeOK, PrefixOK', [Next]_vars
  PROVE  Input!Send \/ Input!Obtain \/ UNCHANGED <<accepted, typed>>
<1>1. CASE TryWrite \/ WriteEnd
  <2>1. typed' = typed /\ (accepted' = accepted \/ accepted' = accepted \o InputChunk(writes'))
    BY <1>1 DEF TryWrite, WriteEnd, Enqueue, OwnerFrame, kernelVars
  <2>2. InputChunk(writes') \in Seq(Byte)
    <3>1. writes \in Nat /\ (opc \in {"send", "sendtimeout"} => writes # 0)
      BY DEF TypeOK, CallerTypeOK
    <3>2. writes' = writes + 1 \/ (writes' = writes /\ writes # 0)
      BY <1>1, <3>1 DEF TryWrite, WriteEnd
    <3> QED
      BY <3>1, <3>2, InputChunkType
  <2>3. \/ accepted' = accepted
        \/ /\ Len(accepted) <= Len(accepted')
           /\ accepted = SubSeq(accepted', 1, Len(accepted))
           /\ Len(accepted') > Len(accepted)
    BY <2>1, <2>2, BytesTypes, ConcatIsPrefix
  <2> QED
    BY <2>1, <2>3 DEF Input!Send, Input!IsPrefixOf
<1>2. CASE WriterWrites
  <2>1. PICK n \in 1..Len(wchunk) : typed' = typed \o SubSeq(wchunk, 1, n)
    BY <1>2 DEF WriterWrites
  <2>2. accepted' = accepted
    BY <1>2 DEF WriterWrites, WriterFrame, ownerVars
  <2>3. PICK u \in Seq(Byte) : typed' = typed \o u
    BY <2>1, BytesTypes, SplitJoin
  <2>4. /\ Len(typed) <= Len(typed') /\ typed = SubSeq(typed', 1, Len(typed))
        /\ Len(typed') > Len(typed) \/ typed' = typed
    BY <2>3, BytesTypes, ConcatIsPrefix
  <2>5. typed' \in Seq(Byte) /\ Prefix(typed', accepted) /\ accepted \in Seq(Byte)
    BY <2>2, <2>3, BytesTypes, ConcatProperties DEF PrefixOK
  <2>6. Len(typed') <= Len(accepted) /\ typed' = SubSeq(accepted, 1, Len(typed'))
    BY <2>5, PrefixIsPrefix
  <2> QED
    BY <2>2, <2>4, <2>6 DEF Input!Obtain, Input!IsPrefixOf
<1>3. CASE UNCHANGED <<accepted, typed>>
  BY <1>3
<1> QED
  BY <1>1, <1>2, <1>3, InputWriters, WriterKeeps DEF Writer, WriterStart, WriterCheck,
    WriterRecv, WriterMore,
    WriterWritesNothing, WriterPoll, WriterFrame, ownerVars

\* The session implements ByteStream in both directions: AreByteStreams, the
\* refinement that the run PtySafety checks, for every value of the constants.
THEOREM OrderedStreams == Spec => AreByteStreams
<1>1. Init => Output!Init /\ Input!Init
  BY DEF Init, Output!Init, Input!Init
<1>2. TypeOK /\ BytesInv' /\ [Next]_vars => [Output!Next]_<<[i \in 1..produced |-> i], received>>
  BY OutputRefines DEF BytesInv, Output!Next, Stream
<1>3. TypeOK /\ BytesInv' /\ [Next]_vars => [Input!Next]_<<accepted, typed>>
  BY InputRefines DEF BytesInv, Input!Next
<1> QED
  BY <1>1, <1>2, <1>3, TypesCorrect, BytesInvariant, PTL DEF Spec, AreByteStreams,
    Output!Spec, Input!Spec
=============================================================================
