-------------------------- MODULE OutputPumpProofs --------------------------
(***************************************************************************)
(* What holds of the output pump for any panes, any output, any capacities *)
(* of the queues and any number of pumps: output is fed in order and once, *)
(* no frame or search is older than its engine, and nothing that waits is  *)
(* forgotten by the wakes of the threads and the pumps of the main thread. *)
(***************************************************************************)
EXTENDS OutputPump, SequenceTheorems, TLAPS

\* The stages of the pump, and those it is in for the pane cur.
MainPcs  == {"idle", "drain", "peek", "gfx", "reply", "frame", "exit", "controls", "answer",
             "repost"}
PanePcs  == {"drain", "peek", "gfx", "reply", "frame", "exit"}

\* The types, in five parts so that a step's proof opens only what it touches.
FlagTypes ==
  /\ childGone \in [Panes -> BOOLEAN] /\ outTx \in [Panes -> BOOLEAN]
  /\ inRx \in [Panes -> BOOLEAN] /\ readerClosed \in [Panes -> BOOLEAN]
  /\ failed \in [Panes -> BOOLEAN]
  /\ dirty \in BOOLEAN /\ panePending \in BOOLEAN /\ pending \in BOOLEAN
  /\ paneError \in BOOLEAN /\ error \in BOOLEAN

StateTypes ==
  /\ rpc \in [Panes -> {"run", "swap", "post", "done"}]
  /\ xpc \in [Panes -> {"run", "swap", "post", "done"}]
  /\ exitMsg \in [Panes -> {"none", "sent", "taken"}]
  /\ lifecycle \in [Panes -> {"Live", "Exited"}]
  /\ mpc \in MainPcs

QueueTypes ==
  /\ script \in [Panes -> Seq(Kinds)] /\ outQ \in [Panes -> Seq(Nat)]
  /\ peeked \in [Panes -> Seq(Nat)] /\ fed \in [Panes -> Seq(Nat)]
  /\ replies \in [Panes -> Seq(Nat)] /\ gfx \in [Panes -> Seq(Nat)]
  /\ controls \in [Panes -> Seq(Nat)]

CountTypes ==
  /\ sent \in [Panes -> Nat] /\ inQ \in [Panes -> Nat]
  /\ slices \in [Panes -> Nat] /\ searchedAt \in [Panes -> Int]
  /\ shown \in [Panes -> Nat]

MainTypes ==
  /\ posted \in 0..MaxPumps /\ deferred \in 0..MaxPumps
  /\ cur \in Panes /\ chunks \in Nat

TypeOK == FlagTypes /\ StateTypes /\ QueueTypes /\ CountTypes /\ MainTypes

\* What the pump's locals are at each of its stages.
LocalsOK ==
  /\ mpc \notin PanePcs => chunks = 0
  /\ mpc \notin PanePcs \/ mpc = "drain" => ~panePending /\ ~paneError
  /\ mpc \in PanePcs \ {"drain"} => (paneError <=> failed[cur])
  /\ mpc = "peek" => peeked[cur] = <<>>
  /\ mpc = "idle" => ~pending /\ ~error
  /\ error => \E p \in Panes : failed[p]
  /\ mpc \in {"idle", "repost"} => \A p \in Panes : controls[p] = <<>>

\* The chunks s are the ones that follow the first n.
Run(s, n) == \A i \in 1..Len(s) : s[i] = n + i

\* What was fed, the stash and the channel are together the n chunks sent.
InOrder(f, k, q, n) ==
  Run(k, Len(f)) /\ Run(q, Len(f) + Len(k)) /\ n = Len(f) + Len(k) + Len(q)

\* A pane's output: what was fed is a prefix of what was sent, and of a pane
\* that has not failed the stash and the channel hold exactly the rest.
OrderOK(p) ==
  /\ fed[p] = [i \in 1..Len(fed[p]) |-> i]
  /\ Len(peeked[p]) <= 1 /\ Len(outQ[p]) <= ReaderCap
  /\ ~failed[p] => InOrder(fed[p], peeked[p], outQ[p], sent[p])

\* A pane's end: what its closed channel, its exit message and its being closed
\* each say of the others.
ExitOK(p) ==
  /\ ~outTx[p] => sent[p] = Len(script[p]) /\ rpc[p] # "run"
  /\ readerClosed[p] => ~outTx[p] /\ outQ[p] = <<>>
  /\ xpc[p] = "run" => exitMsg[p] = "none"
  /\ exitMsg[p] = "taken" <=> lifecycle[p] = "Exited"
  /\ lifecycle[p] = "Exited" =>
       ~failed[p] /\ readerClosed[p] /\ peeked[p] = <<>> /\ shown[p] = Len(fed[p])

\* The frame shown and the search are of all that was fed.
Current(p) ==
  shown[p] = Len(fed[p]) /\ (searchedAt[p] # -1 => searchedAt[p] = Len(fed[p]))

\* They are, but while the pump has fed the pane and not yet built its frame.
CurrentOK(p) ==
  ~failed[p] => Current(p) \/ (p = cur /\ mpc \in PanePcs \ {"exit"} /\ chunks > 0)

\* A pump will run: one is posted or put off, or the flag is set, or a thread
\* is on its way to set it. Only a pump that begins takes this away.
Covered == posted + deferred > 0 \/ dirty \/ \E q \in Panes : Waking(q)

\* A flag that is set has a pump, or the post of the thread that set it, behind
\* it; so a thread that finds it set may leave the wake to that one.
FlagOK == dirty => PumpDue \/ \E q \in Panes : rpc[q] = "post" \/ xpc[q] = "post"

\* The pump in progress has yet to come to the pane, or is at it.
Ahead(p) == mpc \in PanePcs /\ p > cur
Here(p)  == mpc \in PanePcs /\ p = cur

\* Output that waits is noticed. In the pane being drained, what is left fits
\* in the drain's allowance: the cap is above the channel's capacity, so a drain
\* that stops at the cap left the rest to a reader that sent after the pump
\* began, and wakes.
OutputOK(p) ==
  ~failed[p] /\ (outQ[p] # <<>> \/ peeked[p] # <<>>) =>
    \/ Covered \/ Ahead(p)
    \/ Here(p) /\ mpc = "drain" /\ chunks + Len(peeked[p]) + Len(outQ[p]) <= ReaderCap + 1

\* The pane needs no pump, or for the answers to animation queries alone.
Quiescent(p) ==
  /\ slices[p] = 0 /\ MayWait(p) /\ gfx[p] = <<>>
  /\ ~outTx[p] /\ exitMsg[p] # "none" => lifecycle[p] = "Exited"

\* The pump has still to come to what the pane in hand needs, or has marked it
\* pending.
Unfinished(p) ==
  \/ panePending
  \/ /\ mpc \in {"gfx", "reply", "frame", "exit"} =>
          (outTx[p] \/ readerClosed[p]) /\ peeked[p] = <<>>
     /\ mpc \in {"reply", "frame", "exit"} => gfx[p] = <<>>
     /\ mpc \in {"frame", "exit"} => replies[p] = <<>>
     /\ mpc = "exit" => slices[p] = 0

\* Unfinished work is noticed, unless some pane's error ends the pump early.
WorkOK(p) ==
  (\A q \in Panes : ~failed[q]) =>
    \/ Covered \/ Ahead(p)
    \/ Quiescent(p) /\ ~Here(p)
    \/ Here(p) /\ Unfinished(p)
    \/ mpc \notin {"idle", "repost"} /\ pending

\* The inductive invariant.
IInv == TypeOK /\ LocalsOK /\ FlagOK
  /\ \A p \in Panes : OrderOK(p) /\ ExitOK(p) /\ CurrentOK(p) /\ OutputOK(p) /\ WorkOK(p)

\* Every step keeps the Boolean-valued state typed: the flags of the panes, of
\* the model and of the pump.
LEMMA FlagTypesStep == FlagTypes /\ [Next]_vars => FlagTypes'
<1> SUFFICES ASSUME FlagTypes, [Next]_vars PROVE FlagTypes'
  OBVIOUS
<1> USE DEF FlagTypes, Set, MainFrame, SessionFrame, sessionVars, searchVars, mainLocals
<1>1. ASSUME NEW p \in Panes, ReaderSends(p) PROVE FlagTypes'
  BY <1>1 DEF ReaderSends
<1>2. ASSUME NEW p \in Panes, ReaderEnds(p) PROVE FlagTypes'
  BY <1>2 DEF ReaderEnds
<1>3. ASSUME NEW p \in Panes, ExitPublishes(p) PROVE FlagTypes'
  BY <1>3 DEF ExitPublishes
<1>4. ASSUME NEW p \in Panes, WakeSwaps(p) PROVE FlagTypes'
  BY <1>4 DEF WakeSwaps, AfterWake
<1>5. ASSUME NEW p \in Panes, WakePosts(p) PROVE FlagTypes'
  BY <1>5 DEF WakePosts, AfterWake, OneMore
<1>6. ASSUME NEW p \in Panes, WriterTakes(p) PROVE FlagTypes'
  BY <1>6 DEF WriterTakes
<1>7. ASSUME NEW p \in Panes, ChildExits(p) PROVE FlagTypes'
  BY <1>7 DEF ChildExits
<1>8. ASSUME NEW p \in Panes, SearchAgain(p) PROVE FlagTypes'
  BY <1>8 DEF SearchAgain
<1>9. ASSUME NEW p \in Panes, NEW n \in 1..MaxSlices, StartSearch(p, n) PROVE FlagTypes'
  BY <1>9 DEF StartSearch, OneMore
<1>10. CASE PumpBegins
  BY <1>10 DEF PumpBegins, OneLess, Panes
<1>11. CASE PumpFailedPane
  BY <1>11 DEF PumpFailedPane
<1>12. CASE DrainChunk
  BY <1>12 DEF DrainChunk, Feed
<1>13. CASE DrainEnds
  BY <1>13 DEF DrainEnds
<1>14. CASE Peek
  BY <1>14 DEF Peek
<1>15. CASE GraphicsResponse
  BY <1>15 DEF GraphicsResponse, Accepts
<1>16. CASE FlushReply
  BY <1>16 DEF FlushReply, Accepts
<1>17. CASE FrameAndSearch
  BY <1>17 DEF FrameAndSearch, SearchSlice, OutputChangesFrame
<1>18. CASE ExitCheck
  BY <1>18 DEF ExitCheck, Panes, MayExit
<1>19. CASE Rearm
  BY <1>19 DEF Rearm, OneMore, ShouldRearm
<1>20. CASE Repost
  BY <1>20 DEF Repost, OneMore
<1>21. ASSUME NEW p \in Panes, TakeControl(p) PROVE FlagTypes'
  BY <1>21 DEF TakeControl
<1>22. CASE FlushAnswer
  BY <1>22 DEF FlushAnswer
<1>23. CASE UNCHANGED vars
  BY <1>23 DEF vars
<1> QED
  BY <1>1, <1>2, <1>3, <1>4, <1>5, <1>6, <1>7, <1>8, <1>9, <1>10, <1>11, <1>12, <1>13,
    <1>14, <1>15, <1>16, <1>17, <1>18, <1>19, <1>20, <1>21, <1>22, <1>23
    DEF Next, Threads, PumpStep

\* Every step keeps the program counters, exit messages and lifecycles typed.
LEMMA StateTypesStep == StateTypes /\ [Next]_vars => StateTypes'
<1> SUFFICES ASSUME StateTypes, [Next]_vars PROVE StateTypes'
  OBVIOUS
<1> USE DEF StateTypes, MainPcs, Set, MainFrame, SessionFrame, sessionVars, searchVars, mainLocals
<1>1. ASSUME NEW p \in Panes, ReaderSends(p) PROVE StateTypes'
  BY <1>1 DEF ReaderSends
<1>2. ASSUME NEW p \in Panes, ReaderEnds(p) PROVE StateTypes'
  BY <1>2 DEF ReaderEnds
<1>3. ASSUME NEW p \in Panes, ExitPublishes(p) PROVE StateTypes'
  BY <1>3 DEF ExitPublishes
<1>4. ASSUME NEW p \in Panes, WakeSwaps(p) PROVE StateTypes'
  BY <1>4 DEF WakeSwaps, AfterWake
<1>5. ASSUME NEW p \in Panes, WakePosts(p) PROVE StateTypes'
  BY <1>5 DEF WakePosts, AfterWake, OneMore
<1>6. ASSUME NEW p \in Panes, WriterTakes(p) PROVE StateTypes'
  BY <1>6 DEF WriterTakes
<1>7. ASSUME NEW p \in Panes, ChildExits(p) PROVE StateTypes'
  BY <1>7 DEF ChildExits
<1>8. ASSUME NEW p \in Panes, SearchAgain(p) PROVE StateTypes'
  BY <1>8 DEF SearchAgain
<1>9. ASSUME NEW p \in Panes, NEW n \in 1..MaxSlices, StartSearch(p, n)
      PROVE  StateTypes'
  BY <1>9 DEF StartSearch, OneMore
<1>10. CASE PumpBegins
  BY <1>10 DEF PumpBegins, OneLess, Panes
<1>11. CASE PumpFailedPane
  BY <1>11 DEF PumpFailedPane
<1>12. CASE DrainChunk
  BY <1>12 DEF DrainChunk, Feed
<1>13. CASE DrainEnds
  BY <1>13 DEF DrainEnds
<1>14. CASE Peek
  BY <1>14 DEF Peek
<1>15. CASE GraphicsResponse
  BY <1>15 DEF GraphicsResponse, Accepts
<1>16. CASE FlushReply
  BY <1>16 DEF FlushReply, Accepts
<1>17. CASE FrameAndSearch
  BY <1>17 DEF FrameAndSearch, SearchSlice, OutputChangesFrame
<1>18. CASE ExitCheck
  BY <1>18 DEF ExitCheck, Panes, MayExit
<1>19. CASE Rearm
  BY <1>19 DEF Rearm, OneMore, ShouldRearm
<1>20. CASE Repost
  BY <1>20 DEF Repost, OneMore
<1>21. ASSUME NEW p \in Panes, TakeControl(p) PROVE StateTypes'
  BY <1>21 DEF TakeControl
<1>22. CASE FlushAnswer
  BY <1>22 DEF FlushAnswer
<1>23. CASE UNCHANGED vars
  BY <1>23 DEF vars
<1> QED
  BY <1>1, <1>2, <1>3, <1>4, <1>5, <1>6, <1>7, <1>8, <1>9, <1>10, <1>11, <1>12, <1>13,
    <1>14, <1>15, <1>16, <1>17, <1>18, <1>19, <1>20, <1>21, <1>22, <1>23
    DEF Next, Threads, PumpStep

\* Posting a pump keeps the count of posted pumps within its bound, above zero.
LEMMA OneMoreType ==
  ASSUME NEW n \in 0..MaxPumps
  PROVE  OneMore(n) \in 0..MaxPumps /\ OneMore(n) > 0
  BY PumpAssumption DEF OneMore

\* Beginning a pump keeps it within its bound.
LEMMA OneLessType ==
  ASSUME NEW n \in 0..MaxPumps, n > 0, NEW m \in OneLess(n)
  PROVE  m \in 0..MaxPumps
  BY PumpAssumption DEF OneLess

\* The queues are written by the reader and by six steps of the pump alone.
LEMMA QueueWriters == [Next]_vars =>
  \/ UNCHANGED <<script, outQ, peeked, fed, replies, gfx, controls>>
  \/ \E p \in Panes : ReaderSends(p) \/ TakeControl(p)
  \/ DrainChunk \/ Peek \/ GraphicsResponse \/ FlushReply \/ FlushAnswer
  BY DEF Next, Threads, PumpStep, ChildExits, SearchAgain, StartSearch, ReaderEnds,
    ExitPublishes, WakeSwaps, WakePosts, WriterTakes,
    PumpBegins, PumpFailedPane, DrainEnds, FrameAndSearch, ExitCheck, Rearm, Repost,
      vars, MainFrame, SessionFrame, sessionVars, searchVars, mainLocals

\* Writing one pane's queue keeps the queues of all panes typed.
LEMMA SetQueue ==
  ASSUME NEW f \in [Panes -> Seq(Nat)], NEW p \in Panes, NEW s \in Seq(Nat)
  PROVE  Set(f, p, s) \in [Panes -> Seq(Nat)]
  BY DEF Set

\* What the sink's queues hold after a chunk is queued.
LEMMA QueuedType ==
  ASSUME NEW f \in [Panes -> Seq(Nat)], NEW p \in Panes, NEW c \in Nat, NEW K
  PROVE  Queued(f, p, c, K) \in [Panes -> Seq(Nat)]
<1>1. f[p] \in Seq(Nat) /\ (Len(f[p]) >= ReplyCap => Tail(f[p]) \in Seq(Nat))
  <2>1. f[p] \in Seq(Nat) /\ ReplyCap \in Nat \ {0}
    BY PumpAssumption
  <2>2. Len(f[p]) >= ReplyCap => f[p] # <<>>
    BY <2>1
  <2> QED
    BY <2>1, <2>2
<1>2. PushBounded(f[p], c) \in Seq(Nat)
  BY <1>1 DEF PushBounded
<1> QED
  BY <1>2, SetQueue DEF Queued

\* Every step keeps the queues sequences: output, stash, what the engine got,
\* its replies, its graphics responses and its animation controls.
LEMMA QueueTypesStep == TypeOK /\ [Next]_vars => QueueTypes'
<1> SUFFICES ASSUME TypeOK, [Next]_vars PROVE QueueTypes'
  OBVIOUS
<1>0. QueueTypes /\ cur \in Panes
  BY DEF TypeOK, MainTypes
<1>a. outQ \in [Panes -> Seq(Nat)] /\ peeked \in [Panes -> Seq(Nat)] /\ cur \in Panes
  BY <1>0 DEF QueueTypes
<1>b. replies \in [Panes -> Seq(Nat)] /\ cur \in Panes
  BY <1>0 DEF QueueTypes
<1>c. gfx \in [Panes -> Seq(Nat)] /\ cur \in Panes
  BY <1>0 DEF QueueTypes
<1>d. fed \in [Panes -> Seq(Nat)] /\ cur \in Panes
  BY <1>0 DEF QueueTypes
<1>e. controls \in [Panes -> Seq(Nat)]
  BY <1>0 DEF QueueTypes
<1>1. ASSUME NEW p \in Panes, ReaderSends(p) PROVE QueueTypes'
  <2>1. /\ outQ' = Set(outQ, p, Append(outQ[p], sent[p] + 1))
        /\ UNCHANGED <<script, peeked, fed, replies, gfx, controls>>
    BY <1>1 DEF ReaderSends, MainFrame
  <2>2. sent[p] + 1 \in Nat
    BY DEF TypeOK, CountTypes
  <2>3. outQ' \in [Panes -> Seq(Nat)]
    BY <1>a, <2>1, <2>2 DEF Set
  <2> QED
    BY <1>0, <2>1, <2>3 DEF QueueTypes
<1>2. CASE DrainChunk
  <2>1. PICK c :
          /\ Feed(c)
          /\ \/ /\ peeked[cur] # <<>> /\ c = Head(peeked[cur])
                /\ peeked' = Set(peeked, cur, <<>>) /\ outQ' = outQ
             \/ /\ outQ[cur] # <<>> /\ c = Head(outQ[cur])
                /\ outQ' = Set(outQ, cur, Tail(outQ[cur])) /\ peeked' = peeked
    BY <1>2 DEF DrainChunk
  <2>2. c \in Nat /\ outQ' \in [Panes -> Seq(Nat)] /\ peeked' \in [Panes -> Seq(Nat)]
    <3>1. CASE /\ peeked[cur] # <<>> /\ c = Head(peeked[cur])
               /\ peeked' = Set(peeked, cur, <<>>) /\ outQ' = outQ
      BY <1>a, <3>1 DEF Set
    <3>2. CASE /\ outQ[cur] # <<>> /\ c = Head(outQ[cur])
               /\ outQ' = Set(outQ, cur, Tail(outQ[cur])) /\ peeked' = peeked
      BY <1>a, <3>2 DEF Set
    <3> QED
      BY <2>1, <3>1, <3>2
  <2>3. fed' = fed \/ fed' = Set(fed, cur, Append(fed[cur], c))
    BY <2>1 DEF Feed
  <2>4. fed' \in [Panes -> Seq(Nat)]
    <3>1. Append(fed[cur], c) \in Seq(Nat)
      BY <1>d, <2>2
    <3> QED
      BY <1>d, <2>3, <3>1, SetQueue, ZenonT(30)
  <2>5. replies' = replies \/ replies' = Queued(replies, cur, c, {"query"})
    BY <2>1 DEF Feed
  <2>6. controls' = controls \/ controls' = Queued(controls, cur, c, {"menu", "preset"})
    BY <2>1 DEF Feed
  <2>7. replies' \in [Panes -> Seq(Nat)] /\ controls' \in [Panes -> Seq(Nat)]
    <3>1. \A K : Queued(replies, cur, c, K) \in [Panes -> Seq(Nat)]
      BY <1>b, <2>2, QueuedType
    <3>2. \A K : Queued(controls, cur, c, K) \in [Panes -> Seq(Nat)]
      BY <1>0, <1>e, <2>2, QueuedType
    <3> QED
      BY <1>b, <1>e, <2>5, <2>6, <3>1, <3>2
  <2>8. gfx' = gfx \/ gfx' = Set(gfx, cur, Append(gfx[cur], c))
    BY <2>1 DEF Feed
  <2>9. gfx' \in [Panes -> Seq(Nat)]
    <3>1. Append(gfx[cur], c) \in Seq(Nat)
      BY <1>c, <2>2
    <3> QED
      BY <1>c, <2>8, <3>1, SetQueue, ZenonT(30)
  <2>10. script' = script
    BY <1>2 DEF DrainChunk, SessionFrame, sessionVars
  <2> QED
    BY <1>0, <2>2, <2>4, <2>7, <2>9, <2>10 DEF QueueTypes
<1>3. CASE Peek
  <2>1. \/ /\ outQ[cur] # <<>> /\ peeked' = Set(peeked, cur, <<Head(outQ[cur])>>)
           /\ outQ' = Set(outQ, cur, Tail(outQ[cur]))
        \/ peeked' = peeked /\ outQ' = outQ
    BY <1>3 DEF Peek
  <2>2. UNCHANGED <<script, fed, replies, gfx, controls>>
    BY <1>3 DEF Peek, SessionFrame, sessionVars
  <2>3. outQ' \in [Panes -> Seq(Nat)] /\ peeked' \in [Panes -> Seq(Nat)]
    <3>1. outQ[cur] # <<>> => <<Head(outQ[cur])>> \in Seq(Nat) /\ Tail(outQ[cur]) \in Seq(Nat)
      BY <1>a
    <3> QED
      BY <1>a, <2>1, <3>1 DEF Set
  <2> QED
    BY <1>0, <2>2, <2>3 DEF QueueTypes
<1>4. CASE GraphicsResponse
  <2>1. \/ gfx' = gfx \/ gfx' = Set(gfx, cur, <<>>)
        \/ gfx[cur] # <<>> /\ gfx' = Set(gfx, cur, Tail(gfx[cur]))
    BY <1>4 DEF GraphicsResponse
  <2>2. UNCHANGED <<script, outQ, peeked, fed, replies, controls>>
    BY <1>4 DEF GraphicsResponse, SessionFrame, sessionVars
  <2>3. gfx' \in [Panes -> Seq(Nat)]
    <3>1. gfx[cur] # <<>> => Tail(gfx[cur]) \in Seq(Nat)
      BY <1>c
    <3>2. <<>> \in Seq(Nat)
      OBVIOUS
    <3>3. Set(gfx, cur, <<>>) \in [Panes -> Seq(Nat)]
      BY <1>c, <3>2, SetQueue
    <3>4. gfx[cur] # <<>> => Set(gfx, cur, Tail(gfx[cur])) \in [Panes -> Seq(Nat)]
      BY <1>c, <3>1, SetQueue
    <3> QED
      BY <1>c, <2>1, <3>3, <3>4
  <2> QED
    BY <1>0, <2>2, <2>3 DEF QueueTypes
<1>5. CASE FlushReply
  <2>1. \/ replies' = replies
        \/ replies[cur] # <<>> /\ replies' = Set(replies, cur, Tail(replies[cur]))
    BY <1>5 DEF FlushReply
  <2>2. UNCHANGED <<script, outQ, peeked, fed, gfx, controls>>
    BY <1>5 DEF FlushReply, SessionFrame, sessionVars
  <2>3. replies' \in [Panes -> Seq(Nat)]
    <3>1. replies[cur] # <<>> => Tail(replies[cur]) \in Seq(Nat)
      BY <1>b
    <3> QED
      BY <1>b, <2>1, <3>1 DEF Set
  <2> QED
    BY <1>0, <2>2, <2>3 DEF QueueTypes
<1>6. ASSUME NEW p \in Panes, TakeControl(p) PROVE QueueTypes'
  <2>1. /\ controls[p] # <<>> /\ controls' = Set(controls, p, Tail(controls[p]))
        /\ replies' = Queued(replies, p, Head(controls[p]), {"menu"})
        /\ UNCHANGED <<script, outQ, peeked, fed, gfx>>
    BY <1>6 DEF TakeControl, SessionFrame, sessionVars
  <2>2. Head(controls[p]) \in Nat /\ Tail(controls[p]) \in Seq(Nat)
    BY <1>e, <2>1
  <2>3. controls' \in [Panes -> Seq(Nat)] /\ replies' \in [Panes -> Seq(Nat)]
    BY <1>b, <1>e, <2>1, <2>2, SetQueue, QueuedType
  <2> QED
    BY <1>0, <2>1, <2>3 DEF QueueTypes
<1>7. CASE FlushAnswer
  <2>1. \/ replies' = replies
        \/ replies[cur] # <<>> /\ replies' = Set(replies, cur, Tail(replies[cur]))
    BY <1>7 DEF FlushAnswer
  <2>2. UNCHANGED <<script, outQ, peeked, fed, gfx, controls>>
    BY <1>7 DEF FlushAnswer, SessionFrame, sessionVars
  <2>3. replies' \in [Panes -> Seq(Nat)]
    <3>1. replies[cur] # <<>> => Tail(replies[cur]) \in Seq(Nat)
      BY <1>b
    <3> QED
      BY <1>b, <2>1, <3>1, SetQueue, ZenonT(30)
  <2> QED
    BY <1>0, <2>2, <2>3 DEF QueueTypes
<1> QED
  BY <1>0, <1>1, <1>2, <1>3, <1>4, <1>5, <1>6, <1>7, QueueWriters DEF QueueTypes

\* The counters are written by these threads and steps of the pump alone.
LEMMA CountWriters == [Next]_vars =>
  \/ UNCHANGED <<sent, inQ, slices, searchedAt, shown>>
  \/ \E p \in Panes : \/ ReaderSends(p) \/ WriterTakes(p) \/ SearchAgain(p)
                      \/ \E n \in 1..MaxSlices : StartSearch(p, n)
  \/ GraphicsResponse \/ FlushReply \/ FlushAnswer \/ FrameAndSearch \/ ExitCheck
  BY DEF Next, Threads, PumpStep, ChildExits,  ReaderEnds, ExitPublishes, WakeSwaps,
    WakePosts, DrainChunk, Feed, Peek,
    PumpBegins, PumpFailedPane, DrainEnds, TakeControl, Rearm, Repost, vars, MainFrame,
      SessionFrame, sessionVars, searchVars, mainLocals

\* Writing one pane's counter, adding one or taking one off, keeps it typed.
LEMMA SetNat ==
  ASSUME NEW f \in [Panes -> Nat], NEW p \in Panes
  PROVE  /\ \A n \in Nat : Set(f, p, n) \in [Panes -> Nat]
         /\ Set(f, p, f[p] + 1) \in [Panes -> Nat]
         /\ f[p] > 0 => Set(f, p, f[p] - 1) \in [Panes -> Nat]
  BY DEF Set

\* Every step keeps the counters typed.
LEMMA CountTypesStep == TypeOK /\ [Next]_vars => CountTypes'
<1> SUFFICES ASSUME TypeOK, [Next]_vars PROVE CountTypes'
  OBVIOUS
<1> USE DEF CountTypes
<1>0. CountTypes /\ cur \in Panes /\ \A p \in Panes : Len(fed[p]) \in Nat
  BY SMTT(30) DEF TypeOK, MainTypes, QueueTypes
<1>a. inQ \in [Panes -> Nat] /\ cur \in Panes
  BY <1>0
<1>1. ASSUME NEW p \in Panes, ReaderSends(p) PROVE CountTypes'
  <2>1. sent' \in [Panes -> Nat]
    BY <1>0, <1>1, SMTT(30) DEF ReaderSends, Set
  <2> QED
    BY <1>0, <1>1, <2>1 DEF ReaderSends, MainFrame, searchVars
<1>2. ASSUME NEW p \in Panes, WriterTakes(p) PROVE CountTypes'
  <2>a. inQ[p] > 0 /\ (inQ' = Set(inQ, p, inQ[p] - 1) \/ inQ' = Set(inQ, p, 0))
    BY <1>2 DEF WriterTakes
  <2>1. inQ' \in [Panes -> Nat]
    BY <1>a, <2>a, SetNat, SMTT(30)
  <2> QED
    BY <1>0, <1>2, <2>1 DEF WriterTakes, MainFrame, SessionFrame, sessionVars,
      searchVars
<1>3. ASSUME NEW p \in Panes, SearchAgain(p) PROVE CountTypes'
  <2>a. /\ slices' = slices \/ slices' = Set(slices, p, 0)
        /\ searchedAt' = searchedAt \/ searchedAt' = Set(searchedAt, p, -1)
    BY <1>3 DEF SearchAgain
  <2>1. slices' \in [Panes -> Nat] /\ searchedAt' \in [Panes -> Int]
    BY <1>0, <2>a, SMTT(30) DEF Set
  <2>2. shown' \in [Panes -> Nat]
    BY <1>0, <1>3 DEF SearchAgain, Set
  <2> QED
    BY <1>0, <1>3, <2>1, <2>2 DEF SearchAgain, SessionFrame, sessionVars
<1>4. ASSUME NEW p \in Panes, NEW n \in 1..MaxSlices, StartSearch(p, n)
      PROVE  CountTypes'
  <2>1. slices' \in [Panes -> Nat]
    BY <1>0, <1>4 DEF StartSearch, Set
  <2>2. shown' \in [Panes -> Nat]
    BY <1>0, <1>4 DEF StartSearch, Set
  <2>a. \/ searchedAt' = Set(searchedAt, p, -1) \/ searchedAt' = Set(searchedAt, p, Len(fed[p]))
    BY <1>4 DEF StartSearch
  <2>3. searchedAt' \in [Panes -> Int]
    BY <1>0, <2>a, SMTT(30) DEF Set
  <2> QED
    BY <1>0, <1>4, <2>1, <2>2, <2>3 DEF StartSearch, SessionFrame, sessionVars
<1>5. CASE GraphicsResponse
  <2>a. inQ' = inQ \/ inQ' = Set(inQ, cur, inQ[cur] + 1)
    BY <1>5 DEF GraphicsResponse
  <2>1. inQ' \in [Panes -> Nat]
    BY <1>a, <2>a, SetNat
  <2> QED
    BY <1>0, <1>5, <2>1 DEF GraphicsResponse, SessionFrame, sessionVars, searchVars
<1>6. CASE FlushReply \/ FlushAnswer
  <2>a. inQ' = inQ \/ inQ' = Set(inQ, cur, inQ[cur] + 1)
    BY <1>6 DEF FlushReply, FlushAnswer
  <2>1. inQ' \in [Panes -> Nat]
    BY <1>a, <2>a, SetNat
  <2> QED
    BY <1>0, <1>6, <2>1 DEF FlushReply, FlushAnswer, SessionFrame, sessionVars, searchVars
<1>7. CASE FrameAndSearch
  <2>1. slices' \in [Panes -> Nat]
    BY <1>0, <1>7, SMTT(30) DEF FrameAndSearch, OutputChangesFrame, SearchSlice, Set
  <2>2. searchedAt' \in [Panes -> Int]
    BY <1>0, <1>7 DEF FrameAndSearch, OutputChangesFrame, SearchSlice, Set
  <2>3. shown' \in [Panes -> Nat]
    BY <1>0, <1>7 DEF FrameAndSearch, OutputChangesFrame, SearchSlice, Set
  <2> QED
    BY <1>0, <1>7, <2>1, <2>2, <2>3 DEF FrameAndSearch, SessionFrame, sessionVars
<1>8. CASE ExitCheck
  <2>1. shown' \in [Panes -> Nat]
    BY <1>0, <1>8 DEF ExitCheck, Set
  <2> QED
    BY <1>0, <1>8, <2>1 DEF ExitCheck, SessionFrame, sessionVars, searchVars
<1> QED
  BY <1>0, <1>1, <1>2, <1>3, <1>4, <1>5, <1>6, <1>7, <1>8, CountWriters

\* Every step keeps the pumps posted and the pump's own position typed.
LEMMA MainTypesStep == MainTypes /\ [Next]_vars => MainTypes'
<1> SUFFICES ASSUME MainTypes, [Next]_vars PROVE MainTypes'
  OBVIOUS
<1> USE PumpAssumption DEF MainTypes, MainFrame, SessionFrame, sessionVars, searchVars, mainLocals
<1>1. ASSUME NEW p \in Panes, Threads(p) \/ ChildExits(p) \/ SearchAgain(p)
      PROVE  MainTypes'
  <2>1. posted' = posted \/ posted' = OneMore(posted)
    BY <1>1 DEF Threads, ReaderSends, ReaderEnds, ExitPublishes, WakeSwaps, WakePosts,
      WriterTakes, ChildExits, SearchAgain
  <2>2. UNCHANGED <<deferred, cur, chunks>>
    BY <1>1 DEF Threads, ReaderSends, ReaderEnds, ExitPublishes, WakeSwaps, WakePosts,
      WriterTakes, ChildExits, SearchAgain
  <2> QED
    BY <2>1, <2>2, OneMoreType
<1>2. ASSUME NEW p \in Panes, NEW n \in 1..MaxSlices, StartSearch(p, n) PROVE MainTypes'
  BY <1>2, OneMoreType DEF StartSearch
<1>3. CASE PumpBegins
  <2>1. posted' \in 0..MaxPumps /\ deferred' \in 0..MaxPumps
    BY <1>3, OneLessType DEF PumpBegins
  <2>2. cur' \in Panes
    BY <1>3 DEF PumpBegins, Panes
  <2> QED
    BY <1>3, <2>1, <2>2 DEF PumpBegins
<1>4. CASE DrainChunk
  <2>1. UNCHANGED <<posted, deferred, cur>> /\ (chunks' = chunks \/ chunks' = chunks + 1)
    BY <1>4 DEF DrainChunk, Feed
  <2> QED
    BY <2>1
<1>5. CASE \/ PumpFailedPane \/ DrainEnds \/ Peek \/ GraphicsResponse \/ FlushReply
           \/ FrameAndSearch \/ UNCHANGED vars
  <2>1. UNCHANGED <<posted, deferred, cur, chunks>>
    BY <1>5 DEF PumpFailedPane, DrainEnds, Peek, GraphicsResponse, FlushReply,
      FrameAndSearch, vars
  <2> QED
    BY <2>1
<1>6. CASE ExitCheck
  BY <1>6 DEF ExitCheck, Panes
<1>7. CASE Rearm \/ Repost
  BY <1>7, OneMoreType DEF Rearm, Repost
<1>8. ASSUME NEW p \in Panes, TakeControl(p) \/ FlushAnswer PROVE MainTypes'
  <2>1. UNCHANGED <<posted, deferred, chunks>> /\ (cur' = cur \/ cur' = p)
    BY <1>8 DEF TakeControl, FlushAnswer
  <2> QED
    BY <1>8, <2>1
<1>9. Panes # {}
  BY DEF Panes
<1> QED
  BY <1>1, <1>2, <1>3, <1>4, <1>5, <1>6, <1>7, <1>8, <1>9 DEF Next, PumpStep

\* Only the pump writes its locals, a pane's failure, its stash and its controls.
LEMMA LocalsWriters == [Next]_vars =>
  \/ UNCHANGED <<mpc, cur, chunks, panePending, pending, paneError, error, failed, peeked,
              controls>>
  \/ PumpBegins \/ PumpStep
  BY DEF Next, Threads, ChildExits, SearchAgain, StartSearch, ReaderSends, ReaderEnds,
    ExitPublishes, WakeSwaps, WakePosts, WriterTakes,
    vars, MainFrame, SessionFrame, sessionVars, searchVars, mainLocals

\* Every step keeps the pump's locals as each of its stages expects them.
LEMMA LocalsStep == TypeOK /\ LocalsOK /\ [Next]_vars => LocalsOK'
<1> SUFFICES ASSUME TypeOK, LocalsOK, [Next]_vars PROVE LocalsOK'
  OBVIOUS
<1> USE DEF LocalsOK, PanePcs, mainLocals
<1>0. cur \in Panes /\ failed \in [Panes -> BOOLEAN] /\ peeked \in [Panes -> Seq(Nat)]
  BY DEF TypeOK, MainTypes, FlagTypes, QueueTypes
<1>1. CASE UNCHANGED <<mpc, cur, chunks, panePending, pending, paneError, error, failed,
                       peeked, controls>>
  BY <1>1
<1>2. CASE PumpBegins
  BY <1>2 DEF PumpBegins
<1>3. CASE PumpFailedPane
  BY <1>3 DEF PumpFailedPane
<1>4. CASE DrainChunk
  <2>1. \/ mpc' = "peek" /\ failed' = Set(failed, cur, TRUE) /\ paneError'
        \/ UNCHANGED <<mpc, failed, paneError>>
    BY <1>4 DEF DrainChunk, Feed
  <2>2. mpc = "drain" /\ UNCHANGED <<cur, panePending, pending, error>>
    BY <1>4 DEF DrainChunk
  <2>3. peeked'[cur] = <<>>
    BY <1>0, <1>4 DEF DrainChunk, Set
  <2>4. failed'[cur] \/ failed' = failed
    BY <1>0, <2>1 DEF Set
  <2>5. \A p \in Panes : failed[p] => failed'[p]
    BY <1>0, <2>1 DEF Set
  <2>6. error' => \E p \in Panes : failed'[p]
    BY <2>2, <2>5
  <2>7. CASE mpc' = "peek" /\ failed' = Set(failed, cur, TRUE) /\ paneError'
    <3>1. failed'[cur]
      BY <1>0, <2>7 DEF Set
    <3> QED
      BY <2>2, <2>3, <2>6, <2>7, <3>1
  <2>8. CASE UNCHANGED <<mpc, failed, paneError>>
    BY <2>2, <2>6, <2>8
  <2> QED
    BY <2>1, <2>7, <2>8
<1>5. CASE DrainEnds
  BY <1>5 DEF DrainEnds
<1>6. CASE Peek
  BY <1>6 DEF Peek
<1>7. CASE GraphicsResponse
  BY <1>7 DEF GraphicsResponse
<1>8. CASE FlushReply
  BY <1>8 DEF FlushReply
<1>9. CASE FrameAndSearch
  BY <1>9 DEF FrameAndSearch
<1>10. CASE ExitCheck
  BY <1>0, <1>10 DEF ExitCheck
<1>11. CASE Rearm
  BY <1>11 DEF Rearm
<1>12. CASE Repost
  BY <1>12 DEF Repost
<1>13. ASSUME NEW p \in Panes, TakeControl(p) PROVE LocalsOK'
  BY <1>13 DEF TakeControl
<1>14. CASE FlushAnswer
  BY <1>14 DEF FlushAnswer
<1> QED
  BY <1>1, <1>2, <1>3, <1>4, <1>5, <1>6, <1>7, <1>8, <1>9, <1>10, <1>11, <1>12, <1>13,
    <1>14, LocalsWriters DEF PumpStep

\* Output moves in three steps: the reader sends it, the pump feeds it, the
\* pump stashes the chunk it peeked at.
LEMMA OrderWriters == [Next]_vars =>
  \/ UNCHANGED <<sent, outQ, peeked, fed, failed>>
  \/ (\E p \in Panes : ReaderSends(p)) \/ DrainChunk \/ Peek
  BY DEF Next, Threads, PumpStep, ChildExits, SearchAgain, StartSearch, ReaderEnds,
    ExitPublishes, WakeSwaps, WakePosts, WriterTakes,
    PumpBegins, PumpFailedPane, DrainEnds, GraphicsResponse, FlushReply,
      FrameAndSearch, ExitCheck, TakeControl, FlushAnswer, Rearm, Repost, vars,
    MainFrame, SessionFrame, sessionVars, searchVars, mainLocals

\* The chunks 1..n followed by n + 1.
LEMMA AppendNext ==
  ASSUME NEW n \in Nat
  PROVE  Append([i \in 1..n |-> i], n + 1) = [i \in 1..(n + 1) |-> i]
  OBVIOUS

\* A nonempty sequence, taken apart.
LEMMA TailOf == ASSUME NEW s \in Seq(Nat), s # <<>>
  PROVE /\ Head(s) = s[1] /\ Head(s) \in Nat /\ Len(s) \in Nat \ {0}
        /\ Tail(s) \in Seq(Nat) /\ Len(Tail(s)) = Len(s) - 1
        /\ \A i \in 1..Len(Tail(s)) : Tail(s)[i] = s[i + 1]
  OBVIOUS

\* A nonempty stash holds one chunk.
LEMMA OneLong ==
  ASSUME NEW s \in Seq(Nat), s # <<>>, Len(s) <= 1
  PROVE  Len(s) = 1 /\ Head(s) = s[1]
<1>1. Len(s) # 0 /\ Len(s) \in Nat /\ Head(s) = s[1]
  BY TailOf
<1>2. \A m \in Nat : m # 0 /\ m <= 1 => m = 1
  OBVIOUS
<1> QED
  BY <1>1, <1>2

\* The reader's send keeps fed, stash and channel in order.
LEMMA SendKeepsOrder ==
  ASSUME NEW f \in Seq(Nat), NEW k \in Seq(Nat), NEW q \in Seq(Nat), NEW n \in Nat,
         InOrder(f, k, q, n)
  PROVE  InOrder(f, k, Append(q, n + 1), n + 1)
<1>1. Len(Append(q, n + 1)) = Len(q) + 1 /\ \A i \in 1..Len(q) : Append(q, n + 1)[i] = q[i]
  OBVIOUS
<1>2. Append(q, n + 1)[Len(q) + 1] = n + 1
  OBVIOUS
<1>3. n + 1 = Len(f) + Len(k) + Len(Append(q, n + 1)) /\ Run(k, Len(f))
  BY <1>1 DEF InOrder
<1>4. ASSUME NEW i \in 1..Len(Append(q, n + 1))
      PROVE  Append(q, n + 1)[i] = Len(f) + Len(k) + i
  <2>1. CASE i \in 1..Len(q)
    BY <1>1, <2>1 DEF InOrder, Run
  <2>2. CASE i = Len(q) + 1
    BY <1>2, <2>2 DEF InOrder
  <2>3. \A m \in Nat : \A j \in 1..(m + 1) : j \in 1..m \/ j = m + 1
    OBVIOUS
  <2>4. i \in 1..Len(q) \/ i = Len(q) + 1
    BY <1>1, <2>3
  <2> QED
    BY <2>1, <2>2, <2>4
<1> QED
  BY <1>3, <1>4 DEF InOrder, Run

\* Feeding the stashed chunk feeds the next one, and keeps the order.
LEMMA FeedStash ==
  ASSUME NEW f \in Seq(Nat), NEW k \in Seq(Nat), NEW q \in Seq(Nat), NEW n \in Nat,
         InOrder(f, k, q, n), k # <<>>, Len(k) <= 1
  PROVE  Head(k) = Len(f) + 1 /\ InOrder(Append(f, Head(k)), <<>>, q, n)
<1>0. Len(k) = 1 /\ Head(k) = k[1]
  BY OneLong
<1>1. Len(k) = 1 /\ Head(k) = Len(f) + 1
  BY <1>0 DEF InOrder, Run
<1>2. Len(Append(f, Head(k))) = Len(f) + 1
  BY <1>1
<1> QED
  BY <1>1, <1>2 DEF InOrder, Run

\* With no stash, so does feeding the channel's first chunk.
LEMMA FeedQueue ==
  ASSUME NEW f \in Seq(Nat), NEW q \in Seq(Nat), NEW n \in Nat, InOrder(f, <<>>, q, n),
         q # <<>>
  PROVE  Head(q) = Len(f) + 1 /\ InOrder(Append(f, Head(q)), <<>>, Tail(q), n)
<1>0. Len(<<>>) = 0
  OBVIOUS
<1>1. Head(q) = Len(f) + 1
  BY <1>0, TailOf DEF InOrder, Run
<1>2. Len(Append(f, Head(q))) = Len(f) + 1
  BY <1>1
<1> QED
  BY <1>0, <1>1, <1>2, TailOf DEF InOrder, Run

\* Moving the channel's first chunk to the empty stash keeps the order.
LEMMA StashKeepsOrder ==
  ASSUME NEW f \in Seq(Nat), NEW q \in Seq(Nat), NEW n \in Nat, InOrder(f, <<>>, q, n),
         q # <<>>
  PROVE  InOrder(f, <<Head(q)>>, Tail(q), n)
<1>0. Len(<<>>) = 0 /\ Len(<<Head(q)>>) = 1 /\ <<Head(q)>>[1] = Head(q)
  OBVIOUS
<1>1. Head(q) = Len(f) + 1 /\ Run(<<Head(q)>>, Len(f))
  BY <1>0, TailOf DEF InOrder, Run
<1>2. ASSUME NEW i \in 1..Len(Tail(q)) PROVE Tail(q)[i] = Len(f) + 1 + i
  BY <1>0, TailOf DEF InOrder, Run
<1>3. n = Len(f) + 1 + Len(Tail(q))
  BY <1>0, TailOf DEF InOrder
<1> QED
  BY <1>0, <1>1, <1>2, <1>3 DEF InOrder, Run

\* Every step keeps a pane's output in order: nothing lost, swapped or doubled
\* between the reader, the stash and the engine.
LEMMA OrderStep ==
  ASSUME TypeOK, LocalsOK, \A q \in Panes : OrderOK(q), [Next]_vars, NEW p \in Panes
  PROVE  OrderOK(p)'
<1>0. /\ outQ \in [Panes -> Seq(Nat)] /\ peeked \in [Panes -> Seq(Nat)]
      /\ fed \in [Panes -> Seq(Nat)]
      /\ sent \in [Panes -> Nat] /\ failed \in [Panes -> BOOLEAN] /\ cur \in Panes
  BY DEF TypeOK, QueueTypes, CountTypes, FlagTypes, MainTypes
<1>a. outQ[p] \in Seq(Nat) /\ peeked[p] \in Seq(Nat) /\ fed[p] \in Seq(Nat) /\ sent[p] \in Nat
  BY <1>0
<1>b. OrderOK(p)
  OBVIOUS
<1>c. Len(<<>>) <= 1 /\ \A n \in Nat : Len(<<n>>) <= 1
  OBVIOUS
<1>1. CASE UNCHANGED <<sent, outQ, peeked, fed, failed>>
  BY <1>b, <1>1 DEF OrderOK
<1>2. ASSUME NEW q \in Panes, ReaderSends(q) PROVE OrderOK(p)'
  <2>1. /\ UNCHANGED <<peeked, fed, failed>> /\ sent' = Set(sent, q, sent[q] + 1)
        /\ outQ' = Set(outQ, q, Append(outQ[q], sent[q] + 1)) /\ Len(outQ[q]) < ReaderCap
    BY <1>2 DEF ReaderSends, MainFrame
  <2>2. CASE q # p
    <3>1. outQ'[p] = outQ[p] /\ sent'[p] = sent[p]
      BY <1>0, <2>1, <2>2 DEF Set
    <3> QED
      BY <1>b, <2>1, <3>1 DEF OrderOK
  <2>3. CASE q = p
    <3>1. /\ outQ'[p] = Append(outQ[p], sent[p] + 1) /\ sent'[p] = sent[p] + 1
          /\ Len(outQ[p]) < ReaderCap
      BY <1>0, <2>1, <2>3 DEF Set
    <3>2. Len(outQ'[p]) <= ReaderCap
      BY <1>a, <3>1, PumpAssumption
    <3>3. InOrder(fed[p], peeked[p], outQ[p], sent[p]) => InOrder(fed[p], peeked[p], outQ'[p], sent'[p])
      BY <1>a, <3>1, SendKeepsOrder
    <3> QED
      BY <1>b, <2>1, <3>2, <3>3 DEF OrderOK
  <2> QED
    BY <2>2, <2>3
<1>3. CASE DrainChunk
  <2>0. sent' = sent /\ ~failed[cur]
    BY <1>3 DEF DrainChunk, SessionFrame, sessionVars
  <2>1. PICK c :
          /\ Feed(c)
          /\ \/ /\ peeked[cur] # <<>> /\ c = Head(peeked[cur])
                /\ peeked' = Set(peeked, cur, <<>>) /\ outQ' = outQ
             \/ /\ peeked[cur] = <<>> /\ outQ[cur] # <<>> /\ c = Head(outQ[cur])
                /\ outQ' = Set(outQ, cur, Tail(outQ[cur])) /\ peeked' = peeked
    BY <1>3 DEF DrainChunk
  <2>2. \/ failed' = Set(failed, cur, TRUE) /\ fed' = fed
        \/ failed' = failed /\ fed' = Set(fed, cur, Append(fed[cur], c))
    BY <2>1 DEF Feed
  <2>3. CASE cur # p
    <3>1. /\ outQ'[p] = outQ[p] /\ peeked'[p] = peeked[p] /\ fed'[p] = fed[p]
          /\ failed'[p] = failed[p]
      BY <1>0, <2>1, <2>2, <2>3 DEF Set
    <3> QED
      BY <1>b, <2>0, <3>1 DEF OrderOK
  <2>4. CASE cur = p
    <3>1. \/ /\ peeked[p] # <<>> /\ c = Head(peeked[p]) /\ peeked'[p] = <<>> /\ outQ'[p] = outQ[p]
          \/ /\ peeked[p] = <<>> /\ outQ[p] # <<>> /\ c = Head(outQ[p])
             /\ outQ'[p] = Tail(outQ[p]) /\ peeked'[p] = <<>>
      BY <1>0, <2>1, <2>4 DEF Set
    <3>2. \/ failed'[p] /\ fed'[p] = fed[p]
          \/ ~failed'[p] /\ fed'[p] = Append(fed[p], c)
      BY <1>0, <2>0, <2>2, <2>4 DEF Set
    <3>3. Len(peeked'[p]) <= 1 /\ Len(outQ'[p]) <= ReaderCap
      <4>1. CASE outQ'[p] = outQ[p] /\ peeked'[p] = <<>>
        BY <1>b, <1>c, <4>1 DEF OrderOK
      <4>2. CASE outQ[p] # <<>> /\ outQ'[p] = Tail(outQ[p]) /\ peeked'[p] = <<>>
        <5>1. Len(outQ[p]) <= ReaderCap
          BY <1>b DEF OrderOK
        <5> QED
          BY <1>a, <1>c, <4>2, <5>1, PumpAssumption
      <4> QED
        BY <3>1, <4>1, <4>2
    <3>4. /\ InOrder(fed[p], peeked[p], outQ[p], sent[p]) /\ Len(peeked[p]) <= 1
          /\ fed[p] = [i \in 1..Len(fed[p]) |-> i]
      BY <1>b, <2>0, <2>4 DEF OrderOK
    <3>5. c = Len(fed[p]) + 1 /\ InOrder(Append(fed[p], c), peeked'[p], outQ'[p], sent[p])
      <4>1. CASE /\ peeked[p] # <<>> /\ c = Head(peeked[p]) /\ peeked'[p] = <<>>
                 /\ outQ'[p] = outQ[p]
        <5>1. /\ Head(peeked[p]) = Len(fed[p]) + 1
              /\ InOrder(Append(fed[p], Head(peeked[p])), <<>>, outQ[p], sent[p])
          BY <1>a, <3>4, <4>1, FeedStash
        <5> QED
          BY <4>1, <5>1
      <4>2. CASE /\ peeked[p] = <<>> /\ outQ[p] # <<>> /\ c = Head(outQ[p])
                 /\ outQ'[p] = Tail(outQ[p]) /\ peeked'[p] = <<>>
        BY <1>a, <3>4, <4>2, FeedQueue, SMTT(30)
      <4> QED
        BY <3>1, <4>1, <4>2
    <3>6. CASE failed'[p] /\ fed'[p] = fed[p]
      BY <3>3, <3>4, <3>6 DEF OrderOK
    <3>7. CASE fed'[p] = Append(fed[p], c)
      <4>1. fed'[p] = [i \in 1..(Len(fed[p]) + 1) |-> i] /\ Len(fed'[p]) = Len(fed[p]) + 1
        BY <1>a, <3>4, <3>5, <3>7, AppendNext
      <4> QED
        BY <2>0, <3>3, <3>5, <3>7, <4>1 DEF OrderOK
    <3> QED
      BY <3>2, <3>6, <3>7
  <2> QED
    BY <2>3, <2>4
<1>4. CASE Peek
  <2>1. /\ UNCHANGED <<sent, fed, failed>> /\ peeked[cur] = <<>>
        /\ \/ /\ outQ[cur] # <<>> /\ peeked' = Set(peeked, cur, <<Head(outQ[cur])>>)
              /\ outQ' = Set(outQ, cur, Tail(outQ[cur]))
           \/ peeked' = peeked /\ outQ' = outQ
    BY <1>4 DEF Peek, SessionFrame, sessionVars, LocalsOK
  <2>2. CASE cur # p
    <3>1. outQ'[p] = outQ[p] /\ peeked'[p] = peeked[p]
      BY <1>0, <2>1, <2>2 DEF Set
    <3> QED
      BY <1>b, <2>1, <3>1 DEF OrderOK
  <2>3. CASE /\ cur = p /\ outQ[cur] # <<>> /\ peeked' = Set(peeked, cur, <<Head(outQ[cur])>>)
             /\ outQ' = Set(outQ, cur, Tail(outQ[cur]))
    <3>1. /\ peeked[p] = <<>> /\ peeked'[p] = <<Head(outQ[p])>> /\ outQ'[p] = Tail(outQ[p])
          /\ outQ[p] # <<>>
      BY <1>0, <2>1, <2>3 DEF Set
    <3>2. Len(outQ[p]) <= ReaderCap
      BY <1>b DEF OrderOK
    <3>3. Len(peeked'[p]) <= 1 /\ Len(outQ'[p]) <= ReaderCap
      BY <1>a, <1>c, <3>1, <3>2, TailOf, PumpAssumption
    <3> QED
      BY <1>a, <1>b, <2>1, <3>1, <3>3, StashKeepsOrder DEF OrderOK
  <2> QED
    BY <1>b, <2>1, <2>2, <2>3 DEF OrderOK
<1> QED
  BY <1>1, <1>2, <1>3, <1>4, OrderWriters

\* The steps a pane's end depends on.
LEMMA ExitWriters == [Next]_vars =>
  \/ UNCHANGED <<script, sent, rpc, xpc, readerClosed, outTx, outQ, exitMsg, lifecycle,
                 failed, peeked, shown, fed>>
  \/ \E p \in Panes : \/ ReaderSends(p) \/ ReaderEnds(p) \/ ExitPublishes(p)
                      \/ WakeSwaps(p) \/ WakePosts(p) \/ SearchAgain(p)
                      \/ \E n \in 1..MaxSlices : StartSearch(p, n)
  \/ DrainChunk \/ DrainEnds \/ Peek \/ FrameAndSearch \/ ExitCheck
  BY DEF Next, Threads, PumpStep, ChildExits, WriterTakes, PumpBegins, PumpFailedPane,
    GraphicsResponse, FlushReply, TakeControl, FlushAnswer, Rearm, Repost, vars,
    MainFrame, SessionFrame, sessionVars, searchVars, mainLocals

\* Every step keeps what a pane's end rests on: the reader closes its channel
\* after its last chunk, the pump sees it closed once it is empty, and takes the
\* exit status when all is fed and shown.
LEMMA ExitStep ==
  ASSUME TypeOK, LocalsOK, \A q \in Panes : ExitOK(q), [Next]_vars, NEW p \in Panes
  PROVE  ExitOK(p)'
<1>0. /\ outQ \in [Panes -> Seq(Nat)] /\ peeked \in [Panes -> Seq(Nat)]
      /\ fed \in [Panes -> Seq(Nat)]
      /\ sent \in [Panes -> Nat] /\ shown \in [Panes -> Nat] /\ cur \in Panes
  BY DEF TypeOK, QueueTypes, CountTypes, MainTypes
<1>a. /\ failed \in [Panes -> BOOLEAN] /\ outTx \in [Panes -> BOOLEAN]
      /\ readerClosed \in [Panes -> BOOLEAN]
  BY DEF TypeOK, FlagTypes
<1>b. /\ rpc \in [Panes -> {"run", "swap", "post", "done"}]
      /\ exitMsg \in [Panes -> {"none", "sent", "taken"}]
      /\ xpc \in [Panes -> {"run", "swap", "post", "done"}]
      /\ lifecycle \in [Panes -> {"Live", "Exited"}]
  BY DEF TypeOK, StateTypes
<1>c. ExitOK(p)
  OBVIOUS
<1>1. CASE UNCHANGED <<script, sent, rpc, xpc, readerClosed, outTx, outQ, exitMsg, lifecycle,
                       failed, peeked, shown, fed>>
  BY <1>c, <1>1 DEF ExitOK
<1>2. ASSUME NEW q \in Panes, ReaderSends(q) PROVE ExitOK(p)'
  <2>1. /\ UNCHANGED <<script, xpc, readerClosed, outTx, exitMsg, lifecycle, failed, peeked,
                       shown, fed>>
        /\ rpc[q] = "run"
        /\ sent' = Set(sent, q, sent[q] + 1) /\ rpc' = Set(rpc, q, "swap")
        /\ outQ' = Set(outQ, q, Append(outQ[q], sent[q] + 1))
    BY <1>2 DEF ReaderSends, MainFrame
  <2>2. CASE q # p
    <3>1. sent'[p] = sent[p] /\ rpc'[p] = rpc[p] /\ outQ'[p] = outQ[p]
      BY <1>0, <1>b, <2>1, <2>2 DEF Set
    <3> QED
      BY <1>c, <2>1, <3>1 DEF ExitOK
  <2>3. CASE q = p
    BY <1>c, <2>1, <2>3 DEF ExitOK
  <2> QED
    BY <2>2, <2>3
<1>3. ASSUME NEW q \in Panes, ReaderEnds(q) PROVE ExitOK(p)'
  <2>1. /\ UNCHANGED <<script, sent, xpc, readerClosed, outQ, exitMsg, lifecycle, failed,
                       peeked, shown, fed>>
        /\ sent[q] = Len(script[q])
        /\ outTx' = Set(outTx, q, FALSE) /\ rpc' = Set(rpc, q, "swap")
    BY <1>3 DEF ReaderEnds, MainFrame
  <2>2. \/ outTx'[p] = outTx[p] /\ rpc'[p] = rpc[p]
        \/ p = q /\ ~outTx'[p] /\ rpc'[p] = "swap"
    BY <1>a, <1>b, <2>1 DEF Set
  <2> QED
    BY <1>c, <2>1, <2>2 DEF ExitOK
<1>4. ASSUME NEW q \in Panes, ExitPublishes(q) PROVE ExitOK(p)'
  <2>1. /\ UNCHANGED <<script, sent, rpc, outTx, readerClosed, outQ, lifecycle, failed,
                       peeked, shown, fed>>
        /\ xpc[q] = "run" /\ exitMsg' = Set(exitMsg, q, "sent") /\ xpc' = Set(xpc, q, "swap")
    BY <1>4 DEF ExitPublishes, MainFrame
  <2>2. \/ exitMsg'[p] = exitMsg[p] /\ xpc'[p] = xpc[p]
        \/ p = q /\ exitMsg'[p] = "sent" /\ xpc'[p] = "swap"
    BY <1>b, <2>1 DEF Set
  <2> QED
    BY <1>c, <2>1, <2>2 DEF ExitOK
<1>5. ASSUME NEW q \in Panes, WakeSwaps(q) \/ WakePosts(q) PROVE ExitOK(p)'
  <2>1. UNCHANGED <<script, sent, outTx, exitMsg, readerClosed, outQ, lifecycle, failed,
                    peeked, shown, fed>>
    BY <1>5 DEF WakeSwaps, WakePosts, MainFrame
  <2>2. \/ rpc' = rpc
        \/ rpc' = Set(rpc, q, "post") \/ rpc' = Set(rpc, q, AfterWake("reader", q))
    BY <1>5 DEF WakeSwaps, WakePosts
  <2>3. rpc'[p] = rpc[p] \/ (rpc'[p] = "run" => outTx[p])
    BY <1>b, <2>2 DEF Set, AfterWake
  <2>4. \/ xpc' = xpc
        \/ xpc[q] # "run" /\ xpc' = Set(xpc, q, "post")
        \/ xpc[q] # "run" /\ xpc' = Set(xpc, q, AfterWake("exit", q))
    BY <1>5 DEF WakeSwaps, WakePosts
  <2>5. xpc'[p] = "run" => xpc[p] = "run"
    BY <1>b, <2>4 DEF Set, AfterWake
  <2> QED
    BY <1>c, <2>1, <2>3, <2>5 DEF ExitOK
<1>6. CASE /\ UNCHANGED <<script, sent, rpc, xpc, readerClosed, outTx, outQ, exitMsg,
                          lifecycle, failed, peeked, fed>>
           /\ \E q \in Panes : shown' = shown \/ shown' = Set(shown, q, Len(fed[q]))
  <2>1. shown'[p] = shown[p] \/ shown'[p] = Len(fed[p])
    BY <1>0, <1>6 DEF Set
  <2> QED
    BY <1>c, <1>6, <2>1 DEF ExitOK
<1>7. ASSUME NEW q \in Panes, SearchAgain(q) PROVE ExitOK(p)'
  BY <1>6, <1>7 DEF SearchAgain, SessionFrame, sessionVars
<1>8. ASSUME NEW q \in Panes, NEW n \in 1..MaxSlices, StartSearch(q, n) PROVE ExitOK(p)'
  BY <1>6, <1>8 DEF StartSearch, SessionFrame, sessionVars
<1>9. CASE FrameAndSearch
  BY <1>0, <1>6, <1>9 DEF FrameAndSearch, OutputChangesFrame, SearchSlice,
    SessionFrame, sessionVars
<1>10. CASE DrainChunk
  <2>1. UNCHANGED <<script, sent, rpc, xpc, readerClosed, outTx, exitMsg, lifecycle, shown>>
    BY <1>10 DEF DrainChunk, SessionFrame, sessionVars
  <2>2. PICK c :
          /\ Feed(c)
          /\ \/ peeked[cur] # <<>> /\ peeked' = Set(peeked, cur, <<>>) /\ outQ' = outQ
             \/ /\ outQ[cur] # <<>> /\ outQ' = Set(outQ, cur, Tail(outQ[cur]))
                /\ peeked' = peeked
    BY <1>10 DEF DrainChunk
  <2>3. \/ failed' = Set(failed, cur, TRUE) /\ fed' = fed
        \/ failed' = failed /\ fed' = Set(fed, cur, Append(fed[cur], c))
    BY <2>2 DEF Feed
  <2>4. CASE cur # p
    <3>1. /\ outQ'[p] = outQ[p] /\ peeked'[p] = peeked[p] /\ fed'[p] = fed[p]
          /\ failed'[p] = failed[p]
      BY <1>0, <1>a, <2>2, <2>3, <2>4 DEF Set
    <3> QED
      BY <1>c, <2>1, <3>1 DEF ExitOK
  <2>5. CASE cur = p
    <3>1. peeked[p] # <<>> \/ outQ[p] # <<>>
      BY <2>2, <2>5
    <3>2. lifecycle[p] # "Exited"
      BY <1>c, <3>1 DEF ExitOK
    <3>3. outQ[p] = <<>> => outQ'[p] = <<>>
      BY <2>2, <2>5
    <3> QED
      BY <1>c, <2>1, <3>2, <3>3 DEF ExitOK
  <2> QED
    BY <2>4, <2>5
<1>11. CASE DrainEnds \/ Peek
  <2>1. UNCHANGED <<script, sent, rpc, xpc, outTx, exitMsg, lifecycle, failed, shown, fed>>
    BY <1>11 DEF DrainEnds, Peek, SessionFrame, sessionVars
  <2>2. \/ UNCHANGED <<readerClosed, outQ, peeked>>
        \/ /\ outQ[cur] = <<>>
           /\ readerClosed' = Set(readerClosed, cur, readerClosed[cur] \/ ~outTx[cur])
           /\ UNCHANGED <<outQ, peeked>>
        \/ /\ outQ[cur] # <<>> /\ readerClosed' = readerClosed
           /\ peeked' = Set(peeked, cur, <<Head(outQ[cur])>>)
           /\ outQ' = Set(outQ, cur, Tail(outQ[cur]))
    BY <1>11 DEF DrainEnds, Peek
  <2>3. \/ UNCHANGED <<readerClosed[p], outQ[p], peeked[p]>>
        \/ /\ outQ'[p] = <<>> /\ UNCHANGED <<outQ[p], peeked[p]>>
           /\ (readerClosed'[p] <=> readerClosed[p] \/ ~outTx[p])
        \/ outQ[p] # <<>> /\ readerClosed'[p] = readerClosed[p]
    BY <1>0, <1>a, <2>2 DEF Set
  <2> QED
    BY <1>c, <2>1, <2>3 DEF ExitOK
<1>12. CASE ExitCheck
  <2>1. UNCHANGED <<script, sent, rpc, xpc, readerClosed, outTx, outQ, failed, peeked, fed>>
    BY <1>12 DEF ExitCheck, SessionFrame, sessionVars
  <2>2. CASE lifecycle[cur] = "Live" /\ MayExit(cur) /\ exitMsg[cur] = "sent"
    <3>1. /\ exitMsg' = Set(exitMsg, cur, "taken")
          /\ lifecycle' = Set(lifecycle, cur, "Exited")
          /\ shown' = Set(shown, cur, Len(fed[cur]))
      BY <1>12, <2>2 DEF ExitCheck
    <3>2. readerClosed[cur] /\ peeked[cur] = <<>> /\ ~failed[cur]
      BY <1>12, <2>2 DEF ExitCheck, MayExit, LocalsOK, PanePcs
    <3>3. xpc[cur] # "run"
      BY <1>0, <2>2 DEF ExitOK
    <3>4. CASE cur = p
      BY <1>0, <1>b, <1>c, <2>1, <3>1, <3>2, <3>3, <3>4 DEF ExitOK, Set
    <3>5. CASE cur # p
      <4>1. UNCHANGED <<exitMsg[p], lifecycle[p], shown[p]>>
        BY <1>0, <1>b, <3>1, <3>5 DEF Set
      <4> QED
        BY <1>c, <2>1, <4>1 DEF ExitOK
    <3> QED
      BY <3>4, <3>5
  <2>3. CASE UNCHANGED <<exitMsg, lifecycle, shown>>
    BY <1>c, <2>1, <2>3 DEF ExitOK
  <2> QED
    BY <1>12, <2>2, <2>3 DEF ExitCheck
<1> QED
  BY <1>1, <1>2, <1>3, <1>4, <1>5, <1>7, <1>8, <1>9, <1>10, <1>11, <1>12, ExitWriters

\* Every step keeps a pane's frame and search at what the engine was fed, but
\* for the pane the pump is in the middle of.
LEMMA CurrentStep ==
  ASSUME TypeOK, LocalsOK, \A q \in Panes : CurrentOK(q), [Next]_vars, NEW p \in Panes
  PROVE  CurrentOK(p)'
<1>0. /\ fed \in [Panes -> Seq(Nat)] /\ shown \in [Panes -> Nat]
      /\ searchedAt \in [Panes -> Int]
      /\ cur \in Panes /\ chunks \in Nat
  BY DEF TypeOK, QueueTypes, CountTypes, MainTypes
<1>a. failed \in [Panes -> BOOLEAN]
  BY DEF TypeOK, FlagTypes
<1>c. CurrentOK(p)
  OBVIOUS
<1> USE DEF PanePcs
<1>1. CASE UNCHANGED <<fed, shown, searchedAt, failed, cur, mpc, chunks>>
  BY <1>c, <1>1 DEF CurrentOK, Current
<1>2. ASSUME NEW q \in Panes, Threads(q) \/ ChildExits(q) PROVE CurrentOK(p)'
  BY <1>1, <1>2 DEF Threads, ChildExits, ReaderSends, ReaderEnds, ExitPublishes,
    WakeSwaps, WakePosts, WriterTakes,
    MainFrame, searchVars, mainLocals
<1>3. ASSUME NEW q \in Panes, SearchAgain(q) \/ \E n \in 1..MaxSlices : StartSearch(q, n)
      PROVE  CurrentOK(p)'
  <2>1. mpc = "idle" /\ UNCHANGED <<fed, failed, mpc>>
    BY <1>3 DEF SearchAgain, StartSearch
  <2>2. /\ shown' = shown \/ shown' = Set(shown, q, Len(fed[q]))
        /\ \/ searchedAt' = searchedAt \/ searchedAt' = Set(searchedAt, q, -1)
           \/ searchedAt' = Set(searchedAt, q, Len(fed[q]))
    BY <1>3 DEF SearchAgain, StartSearch
  <2>3. /\ shown'[p] = shown[p] \/ shown'[p] = Len(fed[p])
        /\ searchedAt'[p] = searchedAt[p] \/ searchedAt'[p] = -1 \/ searchedAt'[p] = Len(fed[p])
    BY <1>0, <2>2 DEF Set
  <2> QED
    BY <1>c, <2>1, <2>3 DEF CurrentOK, Current
<1>4. CASE PumpBegins
  BY <1>c, <1>4 DEF PumpBegins, CurrentOK, Current, searchVars
<1>5. CASE PumpFailedPane
  BY <1>c, <1>5 DEF PumpFailedPane, CurrentOK, Current, searchVars
<1>6. CASE DrainChunk
  <2>1. mpc = "drain" /\ UNCHANGED <<shown, searchedAt, cur>>
    BY <1>6 DEF DrainChunk, searchVars
  <2>2. PICK c : Feed(c)
    BY <1>6 DEF DrainChunk
  <2>3. CASE /\ mpc' = "peek" /\ failed' = Set(failed, cur, TRUE)
             /\ UNCHANGED <<fed, chunks>>
    <3>1. failed'[p] = failed[p] \/ failed'[p]
      BY <1>0, <1>a, <2>3 DEF Set
    <3>2. UNCHANGED <<fed, chunks, shown, searchedAt, cur>>
      BY <2>1, <2>3
    <3> QED
      BY <1>a, <1>c, <2>1, <2>3, <3>1, <3>2 DEF CurrentOK, Current
  <2>4. CASE /\ fed' = Set(fed, cur, Append(fed[cur], c)) /\ chunks' = chunks + 1
             /\ UNCHANGED <<failed, mpc>>
    <3>1. CASE cur = p
      BY <1>0, <2>1, <2>4, <3>1 DEF CurrentOK
    <3>2. CASE cur # p
      <4>1. fed'[p] = fed[p]
        BY <1>0, <2>4, <3>2 DEF Set
      <4> QED
        BY <1>c, <2>1, <2>4, <3>2, <4>1 DEF CurrentOK, Current
    <3> QED
      BY <3>1, <3>2
  <2> QED
    BY <2>2, <2>3, <2>4 DEF Feed
<1>7. CASE DrainEnds \/ Peek \/ GraphicsResponse \/ FlushReply
  <2>1. UNCHANGED <<fed, shown, searchedAt, failed, cur, chunks>>
    BY <1>7 DEF DrainEnds, Peek, GraphicsResponse, FlushReply, searchVars, mainLocals
  <2>2. mpc \in PanePcs \ {"exit"} /\ mpc' \in PanePcs \ {"exit"}
    BY <1>7 DEF DrainEnds, Peek, GraphicsResponse, FlushReply
  <2> QED
    BY <1>c, <2>1, <2>2 DEF CurrentOK, Current
<1>8. CASE FrameAndSearch
  <2>1. /\ mpc = "frame" /\ mpc' = "exit" /\ UNCHANGED <<fed, failed, cur, chunks>>
        /\ (paneError <=> failed[cur])
    BY <1>8 DEF FrameAndSearch, LocalsOK
  <2>2. CASE chunks > 0 /\ ~paneError
    <3>1. searchedAt' = Set(searchedAt, cur, -1) /\ shown' = Set(shown, cur, Len(fed[cur]))
      BY <1>8, <2>2 DEF FrameAndSearch, OutputChangesFrame
    <3>2. IF p = cur THEN shown'[p] = Len(fed[p]) /\ searchedAt'[p] = -1
                     ELSE shown'[p] = shown[p] /\ searchedAt'[p] = searchedAt[p]
      BY <1>0, <3>1 DEF Set
    <3> QED
      BY <1>c, <2>1, <3>2 DEF CurrentOK, Current
  <2>3. CASE ~(chunks > 0 /\ ~paneError)
    <3>1. /\ shown' = shown \/ shown' = Set(shown, cur, Len(fed[cur]))
          /\ searchedAt' = searchedAt \/ searchedAt' = Set(searchedAt, cur, Len(fed[cur]))
      BY <1>8, <2>3 DEF FrameAndSearch, SearchSlice
    <3>2. /\ shown'[p] = shown[p] \/ shown'[p] = Len(fed[p])
          /\ searchedAt'[p] = searchedAt[p] \/ searchedAt'[p] = Len(fed[p])
      BY <1>0, <3>1 DEF Set
    <3> QED
      BY <1>c, <2>1, <2>3, <3>2 DEF CurrentOK, Current
  <2> QED
    BY <2>2, <2>3
<1>9. CASE ExitCheck
  <2>1. mpc = "exit" /\ UNCHANGED <<fed, failed, searchedAt>>
    BY <1>9 DEF ExitCheck, searchVars
  <2>2. shown' = shown \/ shown' = Set(shown, cur, Len(fed[cur]))
    BY <1>9 DEF ExitCheck
  <2>3. shown'[p] = shown[p] \/ shown'[p] = Len(fed[p])
    BY <1>0, <2>2 DEF Set
  <2> QED
    BY <1>c, <2>1, <2>3 DEF CurrentOK, Current
<1>10. CASE Rearm \/ Repost \/ FlushAnswer \/ \E q \in Panes : TakeControl(q)
  <2>1. mpc \notin PanePcs /\ UNCHANGED <<fed, shown, searchedAt, failed>>
    BY <1>10 DEF TakeControl, FlushAnswer, Rearm, Repost, searchVars
  <2> QED
    BY <1>c, <2>1 DEF CurrentOK, Current
<1>11. CASE UNCHANGED vars
  BY <1>1, <1>11 DEF vars, searchVars, mainLocals
<1> QED
  BY <1>2, <1>3, <1>4, <1>5, <1>6, <1>7, <1>8, <1>9, <1>10, <1>11 DEF Next, PumpStep

\* One of two counts above zero.
LEMMA SumPositive == ASSUME NEW a \in Nat, NEW b \in Nat, a > 0 \/ b > 0 PROVE a + b > 0
  OBVIOUS

\* Every step keeps a flag that is set answered: by a pump to come, or by the
\* thread that set it and has yet to post one.
LEMMA FlagStep ==
  ASSUME TypeOK, FlagOK, [Next]_vars PROVE FlagOK'
<1>0. posted \in 0..MaxPumps /\ deferred \in 0..MaxPumps
  BY DEF TypeOK, MainTypes
<1>b. /\ rpc \in [Panes -> {"run", "swap", "post", "done"}]
      /\ xpc \in [Panes -> {"run", "swap", "post", "done"}]
  BY DEF TypeOK, StateTypes
<1>c. posted' > 0 \/ deferred' > 0 => posted' + deferred' > 0
  <2>1. posted' \in 0..MaxPumps /\ deferred' \in 0..MaxPumps
    BY MainTypesStep DEF TypeOK, MainTypes
  <2>2. posted' \in Nat /\ deferred' \in Nat
    BY <2>1
  <2> QED
    BY <2>2, SumPositive
<1> USE DEF FlagOK, PumpDue
<1>1. CASE UNCHANGED <<dirty, posted, deferred, mpc, rpc, xpc>>
  BY <1>1
<1>2. ASSUME NEW p \in Panes, ReaderSends(p) \/ ReaderEnds(p) \/ ExitPublishes(p)
      PROVE  FlagOK'
  <2>1. UNCHANGED <<dirty, posted, deferred, mpc>>
    BY <1>2 DEF ReaderSends, ReaderEnds, ExitPublishes, MainFrame
  <2>2. \/ rpc[p] = "run" /\ rpc' = Set(rpc, p, "swap") /\ xpc' = xpc
        \/ xpc[p] = "run" /\ xpc' = Set(xpc, p, "swap") /\ rpc' = rpc
    BY <1>2 DEF ReaderSends, ReaderEnds, ExitPublishes
  <2>3. \A q \in Panes : rpc[q] = "post" \/ xpc[q] = "post" => rpc'[q] = "post" \/ xpc'[q] = "post"
    BY <1>b, <2>2 DEF Set
  <2> QED
    BY <2>1, <2>3
<1>3. ASSUME NEW p \in Panes, WakeSwaps(p) PROVE FlagOK'
  <2>1. UNCHANGED <<posted, deferred, mpc>> /\ dirty'
    BY <1>3 DEF WakeSwaps, MainFrame
  <2>2. \/ /\ rpc[p] = "swap" /\ (~dirty => rpc' = Set(rpc, p, "post"))
           /\ (\E a : rpc' = Set(rpc, p, a)) /\ xpc' = xpc
        \/ /\ xpc[p] = "swap" /\ (~dirty => xpc' = Set(xpc, p, "post"))
           /\ (\E a : xpc' = Set(xpc, p, a)) /\ rpc' = rpc
    BY <1>3 DEF WakeSwaps
  <2>3. CASE ~dirty
    <3>1. rpc'[p] = "post" \/ xpc'[p] = "post"
      BY <1>b, <2>2, <2>3 DEF Set
    <3> QED
      BY <2>1, <3>1
  <2>4. CASE dirty
    <3>1. \A q \in Panes : rpc[q] = "post" \/ xpc[q] = "post" => rpc'[q] = "post" \/ xpc'[q] = "post"
      BY <1>b, <2>2 DEF Set
    <3> QED
      BY <2>1, <2>4, <3>1
  <2> QED
    BY <2>3, <2>4
<1>4. ASSUME NEW p \in Panes, WakePosts(p) PROVE FlagOK'
  <2>1. UNCHANGED deferred /\ posted' = OneMore(posted)
    BY <1>4 DEF WakePosts, MainFrame
  <2>2. posted' > 0
    BY <1>0, <2>1, OneMoreType
  <2> QED
    BY <1>c, <2>2
<1>5. ASSUME NEW p \in Panes, NEW n \in 1..MaxSlices, StartSearch(p, n) PROVE FlagOK'
  <2>1. UNCHANGED <<deferred, mpc, rpc, xpc>>
    BY <1>5 DEF StartSearch, SessionFrame, sessionVars
  <2>2. CASE UNCHANGED <<dirty, posted>>
    BY <2>1, <2>2
  <2>3. CASE dirty /\ posted' = posted
    BY <2>1, <2>3
  <2>4. CASE posted' = OneMore(posted)
    <3>1. posted' > 0
      BY <1>0, <2>4, OneMoreType
    <3> QED
      BY <1>c, <3>1
  <2> QED
    BY <1>5, <2>2, <2>3, <2>4 DEF StartSearch
<1>6. CASE PumpBegins
  BY <1>6 DEF PumpBegins
<1>7. CASE PumpStep /\ ~Repost
  BY <1>7 DEF PumpStep, PumpFailedPane, DrainChunk, DrainEnds, Peek, GraphicsResponse,
    FlushReply, FrameAndSearch, ExitCheck, TakeControl, FlushAnswer, Rearm, Feed
<1>8. CASE Repost
  <2>1. UNCHANGED <<dirty, deferred>> /\ (dirty => posted' = OneMore(posted))
    BY <1>8 DEF Repost
  <2>2. dirty => posted' > 0
    BY <1>0, <2>1, OneMoreType
  <2> QED
    BY <1>c, <2>1, <2>2
<1>9. CASE UNCHANGED vars
  BY <1>1, <1>9 DEF vars, sessionVars
<1>10. ASSUME NEW p \in Panes, ChildExits(p) \/ WriterTakes(p) \/ SearchAgain(p)
      PROVE  FlagOK'
  BY <1>1, <1>10 DEF ChildExits, WriterTakes, SearchAgain, MainFrame, SessionFrame,
    sessionVars
<1> QED
  BY <1>2, <1>3, <1>4, <1>5, <1>6, <1>7, <1>8, <1>9, <1>10 DEF Next, Threads, PumpStep

\* What is covered stays covered but when a pump begins, which takes the flag
\* and the posted pump with it and then looks at every pane.
LEMMA CoveredStep ==
  ASSUME TypeOK, Covered, [Next]_vars, ~PumpBegins PROVE Covered'
<1>0. posted \in 0..MaxPumps /\ deferred \in 0..MaxPumps
  BY DEF TypeOK, MainTypes
<1>b. /\ rpc \in [Panes -> {"run", "swap", "post", "done"}]
      /\ xpc \in [Panes -> {"run", "swap", "post", "done"}]
  BY DEF TypeOK, StateTypes
<1>c. posted' > 0 \/ deferred' > 0 => posted' + deferred' > 0
  <2>1. posted' \in 0..MaxPumps /\ deferred' \in 0..MaxPumps
    BY MainTypesStep DEF TypeOK, MainTypes
  <2>2. posted' \in Nat /\ deferred' \in Nat
    BY <2>1
  <2> QED
    BY <2>2, SumPositive
<1> USE DEF Covered, Waking
<1>1. CASE UNCHANGED <<dirty, posted, deferred, rpc, xpc>>
  BY <1>1
<1>2. ASSUME NEW p \in Panes, ReaderSends(p) \/ ReaderEnds(p) \/ ExitPublishes(p)
      PROVE  Covered'
  <2>2. \/ rpc' = Set(rpc, p, "swap")
        \/ xpc' = Set(xpc, p, "swap")
    BY <1>2 DEF ReaderSends, ReaderEnds, ExitPublishes
  <2>3. rpc'[p] = "swap" \/ xpc'[p] = "swap"
    BY <1>b, <2>2 DEF Set
  <2> QED
    BY <2>3
<1>3. ASSUME NEW p \in Panes, WakeSwaps(p) PROVE Covered'
  BY <1>3 DEF WakeSwaps
<1>4. CASE posted' = OneMore(posted) \/ deferred' = OneMore(deferred)
  <2>1. posted' > 0 \/ deferred' > 0
    BY <1>0, <1>4, OneMoreType
  <2> QED
    BY <1>c, <2>1
<1>5. ASSUME NEW p \in Panes, WakePosts(p) PROVE Covered'
  BY <1>4, <1>5 DEF WakePosts
<1>6. ASSUME NEW p \in Panes, NEW n \in 1..MaxSlices, StartSearch(p, n) PROVE Covered'
  <2>1. UNCHANGED <<deferred, rpc, xpc>>
    BY <1>6 DEF StartSearch, SessionFrame, sessionVars
  <2> QED
    BY <1>1, <1>6, <2>1 DEF StartSearch
<1>7. ASSUME NEW p \in Panes, ChildExits(p) \/ WriterTakes(p) \/ SearchAgain(p)
      PROVE  Covered'
  BY <1>1, <1>7 DEF ChildExits, WriterTakes, SearchAgain, MainFrame, SessionFrame,
    sessionVars
<1>8. CASE UNCHANGED vars
  BY <1>1, <1>8 DEF vars, sessionVars
<1>9. CASE PumpStep
  <2>1. UNCHANGED <<rpc, xpc>>
    BY <1>9 DEF PumpStep, PumpFailedPane, DrainChunk, DrainEnds, Peek,
      GraphicsResponse, FlushReply, FrameAndSearch, ExitCheck, TakeControl, FlushAnswer, Rearm, Repost,
      SessionFrame, sessionVars
  <2>2. \/ UNCHANGED <<dirty, posted, deferred>>
        \/ posted' = OneMore(posted) \/ deferred' = OneMore(deferred)
    BY <1>9 DEF PumpStep, PumpFailedPane, DrainChunk, DrainEnds, Peek,
      GraphicsResponse, FlushReply, FrameAndSearch, ExitCheck, TakeControl, FlushAnswer, Rearm, Repost
  <2> QED
    BY <1>1, <1>4, <2>1, <2>2
<1> QED
  BY <1>2, <1>3, <1>5, <1>6, <1>7, <1>8, <1>9 DEF Next, Threads

\* A chunk off the channel, one more counted.
LEMMA OneDrained ==
  ASSUME NEW c \in Nat, NEW k \in Nat, NEW q \in Nat, NEW i \in Nat, NEW j \in Nat,
         NEW r \in Nat,
         c + k + q <= r + 1, i + j = k + q - 1
  PROVE  (c + 1) + i + j <= r + 1
  OBVIOUS

\* Every step keeps output that waits in a pane noticed: covered, or ahead of
\* the pump, or in the pane being drained and within the drain's allowance.
LEMMA OutputStep ==
  ASSUME TypeOK, LocalsOK, \A q \in Panes : OrderOK(q) /\ OutputOK(q), [Next]_vars,
         NEW p \in Panes
  PROVE  OutputOK(p)'
<1>0. /\ outQ \in [Panes -> Seq(Nat)] /\ peeked \in [Panes -> Seq(Nat)]
      /\ cur \in Panes /\ chunks \in Nat
  BY DEF TypeOK, QueueTypes, MainTypes
<1>a. failed \in [Panes -> BOOLEAN]
  BY DEF TypeOK, FlagTypes
<1>b. rpc \in [Panes -> {"run", "swap", "post", "done"}]
  BY DEF TypeOK, StateTypes
<1>c. OutputOK(p)
  OBVIOUS
<1>d. \A q \in Panes : Len(peeked[q]) <= 1 /\ Len(outQ[q]) <= ReaderCap
  BY DEF OrderOK
<1>e. PumpCap \in Nat /\ ReaderCap \in Nat /\ PumpCap > ReaderCap
  BY PumpAssumption, CapCoversQueue
<1> USE DEF PanePcs
<1> SUFFICES ASSUME ~Covered' PROVE OutputOK(p)'
  BY DEF OutputOK
<1>1. CASE PumpBegins
  <2>1. /\ mpc' = "drain" /\ cur' = 1 /\ chunks' = chunks /\ chunks = 0
        /\ UNCHANGED <<outQ, peeked>>
    BY <1>1 DEF PumpBegins, LocalsOK
  <2>2. p > 1 \/ p = 1
    BY DEF Panes
  <2>3. chunks + Len(peeked[p]) + Len(outQ[p]) <= ReaderCap + 1
    BY <1>0, <1>d, <1>e, <2>1
  <2> QED
    BY <2>1, <2>2, <2>3 DEF OutputOK, Ahead, Here
<1>2. ~PumpBegins => ~Covered
  BY CoveredStep
<1>3. CASE UNCHANGED <<outQ, peeked, failed, mpc, cur, chunks>> /\ ~Covered
  BY <1>c, <1>3 DEF OutputOK, Ahead, Here
<1>4. ASSUME NEW q \in Panes, ReaderSends(q) PROVE FALSE
  <2>1. rpc'[q] = "swap"
    BY <1>b, <1>4 DEF ReaderSends, Set
  <2> QED
    BY <2>1 DEF Covered, Waking
<1>5. CASE PumpFailedPane
  BY <1>2, <1>5, <1>c DEF PumpFailedPane, PumpBegins, OutputOK, Ahead, Here
<1>6. CASE DrainChunk
  <2>0. ~Covered /\ UNCHANGED cur /\ mpc = "drain"
    BY <1>2, <1>6 DEF DrainChunk, PumpBegins
  <2>1. PICK c :
          /\ Feed(c)
          /\ \/ peeked[cur] # <<>> /\ peeked' = Set(peeked, cur, <<>>) /\ outQ' = outQ
             \/ /\ peeked[cur] = <<>> /\ outQ[cur] # <<>>
                /\ outQ' = Set(outQ, cur, Tail(outQ[cur])) /\ peeked' = peeked
    BY <1>6 DEF DrainChunk
  <2>2. \/ failed' = Set(failed, cur, TRUE) /\ chunks' = chunks /\ mpc' = "peek"
        \/ failed' = failed /\ chunks' = chunks + 1 /\ mpc' = mpc
    BY <2>1 DEF Feed
  <2>3. CASE cur # p
    <3>1. outQ'[p] = outQ[p] /\ peeked'[p] = peeked[p] /\ failed'[p] = failed[p]
      BY <1>0, <1>a, <2>1, <2>2, <2>3 DEF Set
    <3> QED
      BY <1>c, <2>0, <2>2, <2>3, <3>1 DEF OutputOK, Ahead, Here
  <2>4. CASE cur = p /\ failed' = Set(failed, cur, TRUE)
    <3>1. failed'[p]
      BY <1>0, <1>a, <2>4 DEF Set
    <3> QED
      BY <3>1 DEF OutputOK
  <2>5. CASE cur = p /\ failed' = failed /\ chunks' = chunks + 1 /\ mpc' = mpc
    <3>1. ~failed[p] /\ chunks + Len(peeked[p]) + Len(outQ[p]) <= ReaderCap + 1
      <4>1. ~failed[p] /\ (outQ[p] # <<>> \/ peeked[p] # <<>>)
        BY <1>6, <2>1, <2>5 DEF DrainChunk
      <4>2. ~Ahead(p)
        BY <1>0, <2>5 DEF Ahead, Panes
      <4> QED
        BY <1>c, <2>0, <4>1, <4>2 DEF OutputOK
    <3>2. Len(peeked'[p]) + Len(outQ'[p]) = Len(peeked[p]) + Len(outQ[p]) - 1
      <4>1. CASE peeked[cur] # <<>> /\ peeked' = Set(peeked, cur, <<>>) /\ outQ' = outQ
        <5>1. peeked'[p] = <<>> /\ outQ'[p] = outQ[p] /\ peeked[p] # <<>>
          BY <1>0, <2>5, <4>1 DEF Set
        <5>2. peeked[p] \in Seq(Nat) /\ outQ[p] \in Seq(Nat) /\ Len(peeked[p]) <= 1
          BY <1>0, <1>d
        <5>3. Len(peeked'[p]) = 0
          BY <5>1
        <5>4. Len(peeked[p]) = 1
          BY <5>1, <5>2, OneLong
        <5> QED
          BY <5>1, <5>2, <5>3, <5>4
      <4>2. CASE /\ outQ[cur] # <<>> /\ outQ' = Set(outQ, cur, Tail(outQ[cur]))
                 /\ peeked' = peeked
        <5>1. outQ'[p] = Tail(outQ[p]) /\ peeked'[p] = peeked[p] /\ outQ[p] # <<>>
          BY <1>0, <2>5, <4>2 DEF Set
        <5>2. peeked[p] \in Seq(Nat) /\ outQ[p] \in Seq(Nat)
          BY <1>0
        <5>3. Len(outQ'[p]) = Len(outQ[p]) - 1
          BY <5>1, <5>2, TailOf
        <5> QED
          BY <5>1, <5>2, <5>3
      <4> QED
        BY <2>1, <4>1, <4>2
    <3>3. Len(peeked[p]) \in Nat /\ Len(outQ[p]) \in Nat
      BY <1>0
    <3>4. chunks' + Len(peeked'[p]) + Len(outQ'[p]) <= ReaderCap + 1
      <4>1. /\ outQ'[p] = outQ[p] \/ (outQ'[p] = Tail(outQ[p]) /\ outQ[p] # <<>>)
            /\ peeked'[p] = peeked[p] \/ peeked'[p] = <<>>
        BY <1>0, <2>1, <2>5 DEF Set
      <4>2. Len(peeked'[p]) \in Nat /\ Len(outQ'[p]) \in Nat
        BY <1>0, <4>1, TailOf
      <4>3. chunks' = chunks + 1 /\ chunks \in Nat /\ ReaderCap \in Nat
        BY <1>0, <1>e, <2>5
      <4>4. (chunks + 1) + Len(peeked'[p]) + Len(outQ'[p]) <= ReaderCap + 1
        BY <3>1, <3>2, <3>3, <4>2, <4>3, OneDrained, ZenonT(60)
      <4> QED
        BY <4>3, <4>4
    <3> QED
      BY <2>0, <2>5, <3>4 DEF OutputOK, Here
  <2> QED
    BY <2>2, <2>3, <2>4, <2>5
<1>7. CASE DrainEnds
  <2>1. /\ ~Covered /\ UNCHANGED <<outQ, peeked, failed, cur, chunks>> /\ mpc = "drain"
        /\ mpc' = "peek"
        /\ peeked[cur] = <<>> /\ (outQ[cur] = <<>> \/ chunks >= PumpCap) /\ ~failed[cur]
    BY <1>2, <1>7 DEF DrainEnds, PumpBegins, mainLocals
  <2>2. CASE cur = p
    <3>1. outQ[p] = <<>>
      <4>1. CASE chunks >= PumpCap /\ outQ[p] # <<>>
        <5>1. chunks + Len(peeked[p]) + Len(outQ[p]) <= ReaderCap + 1
          <6>1. ~Ahead(p)
            BY <1>0, <2>2 DEF Ahead, Panes
          <6> QED
            BY <1>c, <2>1, <2>2, <4>1, <6>1 DEF OutputOK
        <5>2. Len(peeked[p]) \in Nat /\ Len(outQ[p]) \in Nat \ {0}
          BY <1>0, <4>1, TailOf
        <5> QED
          BY <1>0, <1>e, <4>1, <5>1, <5>2
      <4> QED
        BY <2>1, <2>2, <4>1
    <3> QED
      BY <2>1, <2>2, <3>1 DEF OutputOK
  <2>3. CASE cur # p
    BY <1>c, <2>1, <2>3 DEF OutputOK, Ahead, Here
  <2> QED
    BY <2>2, <2>3
<1>8. CASE Peek
  <2>1. /\ ~Covered /\ UNCHANGED <<failed, cur>> /\ mpc = "peek" /\ mpc' = "gfx"
        /\ peeked[cur] = <<>>
    BY <1>2, <1>8 DEF Peek, PumpBegins, LocalsOK
  <2>2. \/ /\ outQ[cur] # <<>> /\ peeked' = Set(peeked, cur, <<Head(outQ[cur])>>)
           /\ outQ' = Set(outQ, cur, Tail(outQ[cur]))
        \/ peeked' = peeked /\ outQ' = outQ
    BY <1>8 DEF Peek
  <2>3. CASE cur # p
    <3>1. outQ'[p] = outQ[p] /\ peeked'[p] = peeked[p]
      BY <1>0, <2>2, <2>3 DEF Set
    <3> QED
      BY <1>c, <2>1, <2>3, <3>1 DEF OutputOK, Ahead, Here
  <2>4. CASE cur = p
    <3>1. ~Ahead(p)
      BY <1>0, <2>4 DEF Ahead, Panes
    <3>2. failed[p] \/ (outQ[p] = <<>> /\ peeked[p] = <<>>)
      BY <1>c, <2>1, <3>1 DEF OutputOK, Here
    <3>3. failed[p] \/ (peeked' = peeked /\ outQ' = outQ)
      BY <2>2, <2>4, <3>2
    <3> QED
      BY <2>1, <3>2, <3>3 DEF OutputOK
  <2> QED
    BY <2>3, <2>4
<1>9. CASE GraphicsResponse \/ FlushReply \/ FrameAndSearch
  <2>1. UNCHANGED <<outQ, peeked, failed, cur>> /\ mpc # "drain" /\ mpc \in PanePcs
        /\ mpc' \in PanePcs
    BY <1>9 DEF GraphicsResponse, FlushReply, FrameAndSearch
  <2>2. ~Covered
    BY <1>2, <2>1 DEF PumpBegins
  <2> QED
    BY <1>c, <2>1, <2>2 DEF OutputOK, Ahead, Here
<1>10. CASE ExitCheck
  <2>1. ~Covered /\ UNCHANGED <<outQ, peeked, failed>> /\ mpc = "exit" /\ chunks' = 0
    BY <1>2, <1>10 DEF ExitCheck, PumpBegins
  <2>2. \/ cur < NPanes /\ cur' = cur + 1 /\ mpc' = "drain"
        \/ ~(cur < NPanes) /\ mpc' = "controls"
    BY <1>10 DEF ExitCheck
  <2>3. CASE failed[p] \/ (outQ[p] = <<>> /\ peeked[p] = <<>>)
    BY <2>1, <2>3 DEF OutputOK
  <2>4. CASE Ahead(p)
    <3>1. p > cur /\ p <= NPanes /\ cur < NPanes /\ cur' = cur + 1 /\ mpc' = "drain"
      BY <1>0, <2>2, <2>4, PumpAssumption DEF Ahead, Panes
    <3>2. p > cur' \/ p = cur'
      BY <1>0, <3>1 DEF Panes
    <3>3. 0 + Len(peeked[p]) + Len(outQ[p]) <= ReaderCap + 1
      BY <1>0, <1>d, <1>e
    <3> QED
      BY <2>1, <3>1, <3>2, <3>3 DEF OutputOK, Ahead, Here
  <2> QED
    BY <1>c, <2>1, <2>3, <2>4 DEF OutputOK, Here
<1>11. CASE Rearm \/ Repost \/ FlushAnswer \/ \E q \in Panes : TakeControl(q)
  <2>1. UNCHANGED <<outQ, peeked, failed>> /\ mpc \notin PanePcs /\ ~Covered
    BY <1>2, <1>11 DEF TakeControl, FlushAnswer, Rearm, Repost, PumpBegins
  <2> QED
    BY <1>c, <2>1 DEF OutputOK, Ahead, Here
<1>12. ASSUME NEW q \in Panes,
              \/ ReaderEnds(q) \/ ExitPublishes(q) \/ WakeSwaps(q) \/ WakePosts(q)
              \/ WriterTakes(q) \/ ChildExits(q) \/ SearchAgain(q)
       PROVE OutputOK(p)'
  <2>1. UNCHANGED <<outQ, peeked, failed, mpc, cur, chunks>>
    BY <1>12 DEF ReaderEnds, ExitPublishes, WakeSwaps, WakePosts, WriterTakes,
      ChildExits, SearchAgain, MainFrame, mainLocals
  <2> QED
    BY <1>2, <1>3, <1>1, <2>1
<1>13. ASSUME NEW q \in Panes, NEW n \in 1..MaxSlices, StartSearch(q, n)
      PROVE  OutputOK(p)'
  <2>1. UNCHANGED <<outQ, peeked, failed, mpc, cur, chunks>>
    BY <1>13 DEF StartSearch, mainLocals
  <2> QED
    BY <1>1, <1>2, <1>3, <2>1
<1>14. CASE UNCHANGED vars
  BY <1>1, <1>2, <1>3, <1>14 DEF vars, mainLocals
<1> QED
  BY <1>1, <1>4, <1>5, <1>6, <1>7, <1>8, <1>9, <1>10, <1>11, <1>12, <1>13, <1>14
    DEF Next, Threads, PumpStep

\* What a search that begins, goes on or ends leaves behind.
LEMMA SearchSteps ==
  ASSUME TypeOK, NEW q \in Panes,
         SearchAgain(q) \/ \E n \in 1..MaxSlices : StartSearch(q, n), ~dirty',
         NEW p \in Panes
  PROVE  slices'[p] = slices[p] \/ slices'[p] = 0
<1>0. slices \in [Panes -> Nat]
  BY DEF TypeOK, CountTypes
<1>1. CASE SearchAgain(q)
  BY <1>0, <1>1 DEF SearchAgain, Set
<1>2. ASSUME NEW n \in 1..MaxSlices, StartSearch(q, n)
      PROVE  slices'[p] = slices[p] \/ slices'[p] = 0
  <2>1. slices' = Set(slices, q, n - 1) /\ ~(n > 1)
    BY <1>2 DEF StartSearch
  <2>2. n - 1 = 0
    BY <2>1, PumpAssumption
  <2> QED
    BY <1>0, <2>1, <2>2 DEF Set
<1> QED
  BY <1>1, <1>2

\* Answers to animation queries, and one more of them.
LEMMA AnswerMayWait ==
  ASSUME NEW p \in Panes, NEW q \in Panes, NEW c \in Nat, MayWait(p),
         replies \in [Panes -> Seq(Nat)], script' = script,
         replies' = Queued(replies, q, c, {"menu"})
  PROVE  MayWait(p)'
<1> DEFINE r == replies[p]
           s == IF Len(r) >= ReplyCap THEN Tail(r) ELSE r
<1>1. r \in Seq(Nat) /\ ReplyCap \in Nat \ {0}
  BY PumpAssumption
<1>2. \A i \in 1..Len(r) : Kind(p, r[i]) = "menu"
  BY <1>1 DEF MayWait
<1>3. CASE q # p \/ Kind(q, c) # "menu"
  <2>1. replies'[p] = r
    BY <1>3 DEF Queued, Set
  <2> QED
    BY <2>1 DEF MayWait, Kind
<1>4. CASE q = p /\ Kind(p, c) = "menu"
  <2>1. replies'[p] = Append(s, c)
    BY <1>4 DEF Queued, Set, PushBounded
  <2>2. s \in Seq(Nat) /\ \A i \in 1..Len(s) : Kind(p, s[i]) = "menu"
    <3>1. CASE Len(r) >= ReplyCap
      <4>1. r # <<>>
        BY <1>1, <3>1
      <4>2. /\ Tail(r) \in Seq(Nat) /\ Len(Tail(r)) = Len(r) - 1
            /\ \A i \in 1..Len(Tail(r)) : Tail(r)[i] = r[i + 1]
        BY <1>1, <4>1, HeadTailProperties
      <4> HIDE DEF r
      <4>3. \A i \in 1..Len(Tail(r)) : i + 1 \in 1..Len(r)
        BY <1>1, <4>2
      <4> QED
        BY <1>2, <3>1, <4>2, <4>3
    <3>2. CASE ~(Len(r) >= ReplyCap)
      BY <1>1, <1>2, <3>2
    <3> QED
      BY <3>1, <3>2
  <2> HIDE DEF s
  <2>3. /\ Len(Append(s, c)) = Len(s) + 1 /\ Len(s) \in Nat
        /\ \A i \in 1..Len(s) : Append(s, c)[i] = s[i]
        /\ Append(s, c)[Len(s) + 1] = c /\ Append(s, c) \in Seq(Nat)
    BY <2>2, AppendProperties
  <2>4. \A i \in 1..(Len(s) + 1) : i \in 1..Len(s) \/ i = Len(s) + 1
    BY <2>3, SMTT(30)
  <2>5. \A i \in 1..(Len(s) + 1) : Kind(p, Append(s, c)[i]) = "menu"
    BY <1>4, <2>2, <2>3, <2>4
  <2>6. DOMAIN Append(s, c) = 1..(Len(s) + 1)
    BY <2>3
  <2> QED
    BY <2>1, <2>5, <2>6 DEF MayWait, Kind
<1> QED
  BY <1>3, <1>4

\* Answers to animation queries, and one fewer of them.
LEMMA TailMayWait ==
  ASSUME NEW p \in Panes, NEW q \in Panes, MayWait(p),
         replies \in [Panes -> Seq(Nat)], script' = script,
         \/ replies' = replies
         \/ replies[q] # <<>> /\ replies' = Set(replies, q, Tail(replies[q]))
  PROVE  MayWait(p)'
<1> DEFINE r == replies[p]
<1>1. CASE replies'[p] = r
  BY <1>1 DEF MayWait, Kind
<1>2. CASE r # <<>> /\ replies'[p] = Tail(r)
  <2>1. r \in Seq(Nat) /\ \A i \in 1..Len(r) : Kind(p, r[i]) = "menu"
    BY DEF MayWait
  <2>2. /\ Tail(r) \in Seq(Nat) /\ Len(Tail(r)) = Len(r) - 1
        /\ \A i \in 1..Len(Tail(r)) : Tail(r)[i] = r[i + 1]
    BY <1>2, <2>1, HeadTailProperties
  <2> HIDE DEF r
  <2>3. DOMAIN Tail(r) = 1..Len(Tail(r)) /\ \A i \in 1..Len(Tail(r)) : i + 1 \in 1..Len(r)
    BY <2>1, <2>2
  <2>4. \A i \in DOMAIN Tail(r) : Kind(p, Tail(r)[i]) = "menu"
    BY <2>1, <2>2, <2>3
  <2> QED
    BY <1>2, <2>4 DEF MayWait, Kind
<1>3. replies'[p] = r \/ (r # <<>> /\ replies'[p] = Tail(r))
  BY DEF Set
<1> QED
  BY <1>1, <1>2, <1>3

\* Every step keeps unfinished work noticed: a pane at rest needs nothing, the
\* pane in hand has its work still before it or its pending mark set, and a
\* pending mark leads to the repost.
LEMMA WorkStep ==
  ASSUME TypeOK, LocalsOK, \A q \in Panes : ExitOK(q) /\ WorkOK(q), [Next]_vars,
         NEW p \in Panes
  PROVE  WorkOK(p)'
<1>0. /\ slices \in [Panes -> Nat] /\ cur \in Panes /\ replies \in [Panes -> Seq(Nat)]
      /\ gfx \in [Panes -> Seq(Nat)]
      /\ outQ \in [Panes -> Seq(Nat)] /\ peeked \in [Panes -> Seq(Nat)]
  BY DEF TypeOK, QueueTypes, CountTypes, MainTypes
<1>a. /\ failed \in [Panes -> BOOLEAN] /\ readerClosed \in [Panes -> BOOLEAN]
      /\ outTx \in [Panes -> BOOLEAN]
  BY DEF TypeOK, FlagTypes
<1>b. /\ rpc \in [Panes -> {"run", "swap", "post", "done"}]
      /\ xpc \in [Panes -> {"run", "swap", "post", "done"}]
      /\ exitMsg \in [Panes -> {"none", "sent", "taken"}]
      /\ lifecycle \in [Panes -> {"Live", "Exited"}]
  BY DEF TypeOK, StateTypes
<1> USE DEF PanePcs
<1> SUFFICES ASSUME \A q \in Panes : ~failed'[q], ~Covered' PROVE WorkOK(p)'
  BY DEF WorkOK
<1>d. failed' = failed
  <2>1. failed' = failed \/ failed' = Set(failed, cur, TRUE)
    BY OrderWriters DEF ReaderSends, MainFrame, DrainChunk, Feed, Peek
  <2>2. failed' = Set(failed, cur, TRUE) => failed'[cur]
    BY <1>0, <1>a DEF Set
  <2> QED
    BY <1>0, <2>1, <2>2
<1>e. \A q \in Panes : ~failed[q]
  BY <1>d
<1>1. CASE PumpBegins
  <2>1. mpc' = "drain" /\ cur' = 1
    BY <1>1 DEF PumpBegins
  <2>2. p > 1 \/ p = 1
    BY DEF Panes
  <2> QED
    BY <2>1, <2>2 DEF WorkOK, Ahead, Here, Unfinished
<1> SUFFICES ASSUME ~PumpBegins PROVE WorkOK(p)'
  BY <1>1
<1>2. ~Covered
  BY CoveredStep
<1>3. /\ p > cur \/ p = cur \/ p < cur
      /\ \/ Ahead(p) \/ (Quiescent(p) /\ ~Here(p)) \/ (Here(p) /\ Unfinished(p))
         \/ mpc \notin {"idle", "repost"} /\ pending
  <2>1. p > cur \/ p = cur \/ p < cur
    BY <1>0 DEF Panes
  <2> QED
    BY <1>2, <1>e, <2>1 DEF WorkOK
<1>f. p = cur => ~Ahead(p)
  BY <1>0 DEF Ahead, Panes
<1>4. ASSUME NEW q \in Panes, ReaderSends(q) \/ ReaderEnds(q) \/ ExitPublishes(q)
      PROVE  FALSE
  <2>1. rpc' = Set(rpc, q, "swap") \/ xpc' = Set(xpc, q, "swap")
    BY <1>4 DEF ReaderSends, ReaderEnds, ExitPublishes
  <2>2. rpc'[q] = "swap" \/ xpc'[q] = "swap"
    BY <1>b, <2>1 DEF Set
  <2> QED
    BY <2>2 DEF Covered, Waking
<1>5. ASSUME NEW q \in Panes, WakeSwaps(q) \/ WakePosts(q) PROVE FALSE
  BY <1>2, <1>5 DEF WakeSwaps, WakePosts, Covered, Waking
<1>6. CASE UNCHANGED <<mpc, cur, pending, panePending, script, slices, replies, gfx, outTx,
                       readerClosed, peeked, exitMsg, lifecycle>>
  BY <1>3, <1>6 DEF WorkOK, Ahead, Here, Quiescent, MayWait, Kind, Unfinished
<1>7. ASSUME NEW q \in Panes, WriterTakes(q) \/ ChildExits(q) PROVE WorkOK(p)'
  BY <1>6, <1>7 DEF WriterTakes, ChildExits, MainFrame, SessionFrame, sessionVars,
    searchVars, mainLocals
<1>8. ASSUME NEW q \in Panes, SearchAgain(q) \/ \E n \in 1..MaxSlices : StartSearch(q, n)
      PROVE  WorkOK(p)'
  <2>1. mpc = "idle" /\ UNCHANGED <<mpc, script, replies, gfx, outTx, exitMsg, lifecycle>>
    BY <1>8 DEF SearchAgain, StartSearch, SessionFrame, sessionVars
  <2>2. slices'[p] = slices[p] \/ slices'[p] = 0
    BY <1>8, SearchSteps DEF Covered
  <2> QED
    BY <1>3, <2>1, <2>2 DEF WorkOK, Ahead, Here, Quiescent, MayWait, Kind
<1>9. CASE PumpFailedPane
  BY <1>0, <1>9, <1>e DEF PumpFailedPane
<1>10. CASE DrainChunk
  <2>1. /\ mpc = "drain" /\ mpc' = "drain"
        /\ UNCHANGED <<script, cur, pending, slices, outTx, exitMsg, lifecycle>>
    BY <1>10, <1>0, <1>a, <1>d, <1>e DEF DrainChunk, Feed, Set, SessionFrame,
      sessionVars, searchVars
  <2>2. CASE p = cur
    BY <2>1, <2>2 DEF WorkOK, Here, Unfinished
  <2>3. CASE p # cur
    <3>1. \E s, t : /\ replies' = replies \/ replies' = Set(replies, cur, s)
                    /\ gfx' = gfx \/ gfx' = Set(gfx, cur, t)
      BY <1>10 DEF DrainChunk, Feed, Queued
    <3>2. replies'[p] = replies[p] /\ gfx'[p] = gfx[p]
      BY <1>0, <2>3, <3>1 DEF Set
    <3> QED
      BY <1>3, <2>1, <2>3, <3>2 DEF WorkOK, Ahead, Here, Quiescent, MayWait, Kind
  <2> QED
    BY <2>2, <2>3
<1>11. CASE DrainEnds
  <2>1. /\ mpc = "drain" /\ mpc' = "peek"
        /\ UNCHANGED <<script, cur, pending, slices, replies, gfx, outTx, exitMsg, lifecycle>>
    BY <1>11 DEF DrainEnds, SessionFrame, sessionVars, searchVars, mainLocals
  <2> QED
    BY <1>3, <2>1 DEF WorkOK, Ahead, Here, Quiescent, MayWait, Kind, Unfinished
<1>12. CASE Peek
  <2>1. /\ mpc = "peek" /\ mpc' = "gfx"
        /\ UNCHANGED <<script, cur, pending, slices, replies, gfx, outTx, exitMsg, lifecycle>>
    BY <1>12 DEF Peek, SessionFrame, sessionVars, searchVars
  <2>2. CASE outQ[cur] # <<>>
    <3>1. panePending'
      BY <1>12, <2>2 DEF Peek
    <3> QED
      BY <1>3, <2>1, <3>1 DEF WorkOK, Ahead, Here, Quiescent, MayWait, Kind, Unfinished
  <2>3. CASE outQ[cur] = <<>>
    <3>1. /\ peeked' = peeked /\ peeked[cur] = <<>>
          /\ readerClosed' = Set(readerClosed, cur, readerClosed[cur] \/ ~outTx[cur])
      BY <1>12, <2>3 DEF Peek, LocalsOK
    <3>2. outTx[cur] \/ readerClosed'[cur]
      BY <1>0, <1>a, <3>1 DEF Set
    <3> QED
      BY <1>3, <2>1, <3>1, <3>2 DEF WorkOK, Ahead, Here, Quiescent, MayWait, Kind, Unfinished
  <2> QED
    BY <2>2, <2>3
<1>13. CASE GraphicsResponse
  <2>1. /\ mpc = "gfx"
        /\ UNCHANGED <<script, cur, pending, slices, replies, outTx, readerClosed, peeked, exitMsg, lifecycle>>
    BY <1>13 DEF GraphicsResponse, SessionFrame, sessionVars, searchVars
  <2>2. CASE p # cur
    <3>1. \E s : gfx' = gfx \/ gfx' = Set(gfx, cur, s)
      BY <1>13 DEF GraphicsResponse
    <3>2. gfx'[p] = gfx[p]
      BY <1>0, <2>2, <3>1 DEF Set
    <3>3. mpc' \in {"gfx", "reply"}
      BY <1>13, <2>1 DEF GraphicsResponse
    <3> QED
      BY <1>3, <2>1, <2>2, <3>2, <3>3 DEF WorkOK, Ahead, Here, Quiescent, MayWait, Kind
  <2>3. CASE p = cur
    <3>1. \/ mpc' = "gfx" /\ panePending' = panePending
          \/ mpc' = "reply" /\ gfx'[cur] = <<>> /\ (panePending => panePending')
          \/ mpc' = "reply" /\ panePending'
      <4>1. CASE mpc' = mpc /\ panePending' = panePending
        BY <2>1, <4>1
      <4>2. CASE gfx[cur] = <<>> /\ mpc' = "reply" /\ UNCHANGED <<gfx, panePending>>
        BY <4>2
      <4>3. CASE /\ mpc' = "reply" /\ panePending' = (panePending \/ inRx[cur])
                 /\ gfx' = IF inRx[cur] THEN gfx ELSE Set(gfx, cur, <<>>)
        <5>1. CASE inRx[cur]
          BY <4>3, <5>1
        <5>2. CASE ~inRx[cur]
          <6>1. gfx' = Set(gfx, cur, <<>>)
            BY <4>3, <5>2
          <6>2. gfx'[cur] = <<>>
            BY <1>0, <6>1 DEF Set
          <6> QED
            BY <4>3, <6>2
        <5> QED
          BY <5>1, <5>2
      <4> QED
        BY <1>13, <4>1, <4>2, <4>3 DEF GraphicsResponse
    <3>2. pending \/ Unfinished(p)
      BY <1>3, <1>f, <2>1, <2>3 DEF Here
    <3> QED
      BY <2>1, <2>3, <3>1, <3>2 DEF WorkOK, Here, Unfinished
  <2> QED
    BY <2>2, <2>3
<1>14. CASE FlushReply
  <2>1. /\ mpc = "reply"
        /\ UNCHANGED <<script, cur, pending, slices, gfx, outTx, readerClosed, peeked, exitMsg, lifecycle>>
    BY <1>14 DEF FlushReply, SessionFrame, sessionVars, searchVars
  <2>2. CASE p # cur
    <3>1. \E s : replies' = replies \/ replies' = Set(replies, cur, s)
      BY <1>14 DEF FlushReply
    <3>2. replies'[p] = replies[p]
      BY <1>0, <2>2, <3>1 DEF Set
    <3>3. mpc' \in {"reply", "frame"}
      BY <1>14, <2>1 DEF FlushReply
    <3> QED
      BY <1>3, <2>1, <2>2, <3>2, <3>3 DEF WorkOK, Ahead, Here, Quiescent, MayWait, Kind
  <2>3. CASE p = cur
    <3>1. \/ mpc' = "reply" /\ panePending' = panePending
          \/ mpc' = "frame" /\ replies'[cur] = <<>> /\ panePending' = panePending
          \/ mpc' = "frame" /\ panePending'
      BY <1>14, <2>1 DEF FlushReply
    <3>2. pending \/ Unfinished(p)
      BY <1>3, <1>f, <2>1, <2>3 DEF Here
    <3> QED
      BY <2>1, <2>3, <3>1, <3>2 DEF WorkOK, Here, Unfinished
  <2> QED
    BY <2>2, <2>3
<1>15. CASE FrameAndSearch
  <2>1. /\ mpc = "frame" /\ mpc' = "exit"
        /\ UNCHANGED <<script, cur, pending, replies, gfx, outTx, readerClosed, peeked, exitMsg, lifecycle>>
    BY <1>15 DEF FrameAndSearch, SessionFrame, sessionVars
  <2>2. CASE p # cur
    <3>1. \E s : slices' = slices \/ slices' = Set(slices, cur, s)
      BY <1>15 DEF FrameAndSearch, OutputChangesFrame, SearchSlice
    <3>2. slices'[p] = slices[p]
      BY <1>0, <2>2, <3>1 DEF Set
    <3> QED
      BY <1>3, <2>1, <2>2, <3>2 DEF WorkOK, Ahead, Here, Quiescent, MayWait, Kind
  <2>3. CASE p = cur
    <3>1. panePending' <=> (panePending \/ slices'[cur] > 0 \/ gfx[cur] # <<>> \/ paneError)
      BY <1>15 DEF FrameAndSearch
    <3>2. slices'[cur] \in Nat
      BY <1>0, CountTypesStep DEF CountTypes
    <3>3. panePending' \/ slices'[cur] = 0
      BY <3>1, <3>2
    <3>4. pending \/ Unfinished(p)
      BY <1>3, <1>f, <2>1, <2>3 DEF Here
    <3> QED
      BY <2>1, <2>3, <3>1, <3>3, <3>4 DEF WorkOK, Here, Unfinished
  <2> QED
    BY <2>2, <2>3
<1>16. CASE ExitCheck
  <2>1. /\ mpc = "exit" /\ UNCHANGED <<script, slices, replies, gfx, outTx, readerClosed, peeked>>
        /\ (pending' <=> pending \/ panePending)
    BY <1>16 DEF ExitCheck, SessionFrame, sessionVars, searchVars
  <2>2. \/ cur < NPanes /\ cur' = cur + 1 /\ mpc' = "drain"
        \/ ~(cur < NPanes) /\ mpc' = "controls"
    BY <1>16 DEF ExitCheck
  <2>3. ~paneError
    BY <1>0, <1>e, <2>1 DEF LocalsOK
  <2>4. CASE pending \/ panePending
    BY <2>1, <2>2, <2>4 DEF WorkOK
  <2>5. CASE Ahead(p)
    <3>1. cur < NPanes /\ cur' = cur + 1 /\ mpc' = "drain"
      BY <1>0, <2>2, <2>5, PumpAssumption DEF Ahead, Panes
    <3>2. p > cur' \/ p = cur'
      BY <1>0, <2>5, <3>1 DEF Ahead, Panes
    <3> QED
      BY <3>1, <3>2 DEF WorkOK, Ahead, Here, Unfinished
  <2>6. CASE ~pending /\ ~panePending /\ ~Ahead(p)
    <3>1. ~Here(p)'
      BY <1>0, <1>3, <2>1, <2>2, <2>6 DEF Ahead, Here, Panes
    <3>2. Quiescent(p)'
      <4>1. CASE p # cur
        <5>1. Quiescent(p)
          BY <1>3, <2>6, <4>1 DEF Here
        <5>2. \/ exitMsg' = exitMsg /\ lifecycle' = lifecycle
              \/ /\ exitMsg' = Set(exitMsg, cur, "taken")
                 /\ lifecycle' = Set(lifecycle, cur, "Exited")
          BY <1>16 DEF ExitCheck
        <5>3. exitMsg'[p] = exitMsg[p] /\ lifecycle'[p] = lifecycle[p]
          BY <1>0, <1>b, <4>1, <5>2 DEF Set
        <5> QED
          BY <2>1, <5>1, <5>3 DEF Quiescent, MayWait, Kind
      <4>2. CASE p = cur
        <5>1. Unfinished(p)
          BY <1>3, <2>1, <2>6, <4>2 DEF Here
        <5>2. /\ slices[p] = 0 /\ replies[p] = <<>> /\ gfx[p] = <<>> /\ peeked[p] = <<>>
              /\ outTx[p] \/ readerClosed[p]
          BY <2>1, <2>6, <5>1 DEF Unfinished
        <5>3. CASE ~outTx[p] /\ lifecycle[p] = "Live" /\ exitMsg[p] = "sent"
          <6>1. lifecycle' = Set(lifecycle, cur, "Exited")
            BY <1>16, <2>3, <2>6, <4>2, <5>2, <5>3 DEF ExitCheck, MayExit
          <6>2. lifecycle'[p] = "Exited"
            BY <1>0, <1>b, <4>2, <6>1 DEF Set
          <6> QED
            BY <2>1, <5>2, <6>2 DEF Quiescent, MayWait, Kind
        <5>4. CASE ~(~outTx[p] /\ lifecycle[p] = "Live" /\ exitMsg[p] = "sent")
          <6>1. outTx[p] \/ UNCHANGED <<exitMsg, lifecycle>>
            BY <1>16, <4>2, <5>4 DEF ExitCheck
          <6>2. exitMsg[p] = "taken" <=> lifecycle[p] = "Exited"
            BY DEF ExitOK
          <6>3. outTx[p] \/ exitMsg[p] = "none" \/ lifecycle[p] = "Exited"
            BY <1>b, <5>4, <6>2
          <6> QED
            BY <2>1, <5>2, <6>1, <6>3 DEF Quiescent, MayWait, Kind
        <5> QED
          BY <5>3, <5>4
      <4> QED
        BY <4>1, <4>2
    <3> QED
      BY <3>1, <3>2 DEF WorkOK
  <2> QED
    BY <2>4, <2>5, <2>6
<1>17. CASE Rearm
  <2>1. /\ mpc = "controls" /\ mpc' = "repost"
        /\ UNCHANGED <<script, slices, replies, gfx, outTx, exitMsg, lifecycle>>
    BY <1>17 DEF Rearm, SessionFrame, sessionVars, searchVars
  <2>2. ~error
    BY <1>e DEF LocalsOK
  <2>3. ~pending
    BY <1>17, <2>2 DEF Rearm, ShouldRearm, Covered
  <2> QED
    BY <1>3, <2>1, <2>3 DEF WorkOK, Ahead, Here, Quiescent, MayWait, Kind
<1>18. CASE Repost
  <2>1. /\ mpc = "repost" /\ mpc' = "idle"
        /\ UNCHANGED <<script, slices, replies, gfx, outTx, exitMsg, lifecycle>>
    BY <1>18 DEF Repost, SessionFrame, sessionVars, searchVars
  <2> QED
    BY <1>3, <2>1 DEF WorkOK, Ahead, Here, Quiescent, MayWait, Kind
<1>19. CASE UNCHANGED vars
  BY <1>6, <1>19 DEF vars, sessionVars, searchVars, mainLocals
<1>20. ASSUME NEW q \in Panes, TakeControl(q) PROVE WorkOK(p)'
  <2>1. /\ mpc = "controls" /\ mpc' = "answer"
        /\ UNCHANGED <<script, pending, slices, gfx, outTx, exitMsg, lifecycle>>
    BY <1>20 DEF TakeControl, SessionFrame, sessionVars, searchVars
  <2>2. CASE pending
    BY <2>1, <2>2 DEF WorkOK
  <2>3. CASE ~pending
    <3>1. MayWait(p) /\ Quiescent(p)
      BY <1>3, <2>1, <2>3 DEF Ahead, Here, Quiescent
    <3>2. controls[q] # <<>> /\ replies' = Queued(replies, q, Head(controls[q]), {"menu"})
      BY <1>20 DEF TakeControl
    <3>3. Head(controls[q]) \in Nat
      BY <3>2, SMTT(30) DEF TypeOK, QueueTypes
    <3>4. MayWait(p)'
      BY <1>0, <2>1, <3>1, <3>2, <3>3, AnswerMayWait
    <3> QED
      BY <2>1, <3>1, <3>4 DEF WorkOK, Here, Quiescent
  <2> QED
    BY <2>2, <2>3
<1>21. CASE FlushAnswer
  <2>1. /\ mpc = "answer" /\ mpc' \in {"answer", "controls"}
        /\ UNCHANGED <<script, pending, slices, gfx, outTx, exitMsg, lifecycle>>
    BY <1>21 DEF FlushAnswer, SessionFrame, sessionVars, searchVars, mainLocals
  <2>2. CASE pending
    BY <2>1, <2>2 DEF WorkOK
  <2>3. CASE ~pending
    <3>1. MayWait(p) /\ Quiescent(p)
      BY <1>3, <2>1, <2>3 DEF Ahead, Here, Quiescent
    <3>2. \/ replies' = replies
          \/ replies[cur] # <<>> /\ replies' = Set(replies, cur, Tail(replies[cur]))
      BY <1>21 DEF FlushAnswer
    <3>3. MayWait(p)'
      BY <1>0, <2>1, <3>1, <3>2, TailMayWait
    <3> QED
      BY <2>1, <3>1, <3>3 DEF WorkOK, Here, Quiescent
  <2> QED
    BY <2>2, <2>3
<1> QED
  BY <1>4, <1>5, <1>7, <1>8, <1>9, <1>10, <1>11, <1>12, <1>13, <1>14, <1>15, <1>16,
    <1>17, <1>18, <1>19, <1>20, <1>21
    DEF Next, Threads, PumpStep

\* The initial states satisfy the inductive invariant.
LEMMA InitInv == Init => IInv
<1> SUFFICES ASSUME Init PROVE IInv
  OBVIOUS
<1>1. script \in [Panes -> Seq(Kinds)]
  BY ScriptAssumption DEF Init
<1>2. /\ <<>> \in Seq(Nat) /\ Len(<<>>) = 0 /\ 1 \in Panes /\ ReaderCap \in Nat
      /\ MaxPumps \in Nat
  BY PumpAssumption DEF Panes
<1>3. QueueTypes
  BY <1>1, <1>2 DEF Init, QueueTypes
<1>4. FlagTypes /\ StateTypes
  BY DEF Init, FlagTypes, StateTypes, MainPcs
<1>5. CountTypes
  BY DEF Init, CountTypes
<1>6. MainTypes
  BY <1>2 DEF Init, MainTypes
<1>7. LocalsOK /\ FlagOK
  BY DEF Init, LocalsOK, FlagOK, PanePcs
<1>8. ASSUME NEW p \in Panes
      PROVE  OrderOK(p) /\ ExitOK(p) /\ CurrentOK(p) /\ OutputOK(p) /\ WorkOK(p)
  <2>1. /\ fed[p] = <<>> /\ peeked[p] = <<>> /\ outQ[p] = <<>> /\ sent[p] = 0 /\ shown[p] = 0
        /\ searchedAt[p] = -1
        /\ slices[p] = 0 /\ replies[p] = <<>> /\ gfx[p] = <<>> /\ MayWait(p)
    BY DEF Init, MayWait
  <2>2. /\ outTx[p] /\ ~readerClosed[p] /\ exitMsg[p] = "none" /\ lifecycle[p] = "Live"
    BY DEF Init
  <2>3. [i \in 1..0 |-> i] = <<>>
    OBVIOUS
  <2>4. OrderOK(p)
    BY <1>2, <2>1, <2>3 DEF OrderOK, InOrder, Run
  <2>5. ExitOK(p) /\ WorkOK(p)
    BY <2>1, <2>2 DEF Init, ExitOK, WorkOK, Quiescent, Here, PanePcs
  <2>6. CurrentOK(p) /\ OutputOK(p)
    BY <1>2, <2>1 DEF CurrentOK, Current, OutputOK
  <2> QED
    BY <2>4, <2>5, <2>6
<1> QED
  BY <1>3, <1>4, <1>5, <1>6, <1>7, <1>8 DEF IInv, TypeOK

\* Every step of a thread, of the user and of the pump keeps it.
LEMMA StepInv == IInv /\ [Next]_vars => IInv'
<1> SUFFICES ASSUME IInv, [Next]_vars PROVE IInv'
  OBVIOUS
<1>1. TypeOK'
  BY FlagTypesStep, StateTypesStep, QueueTypesStep, CountTypesStep, MainTypesStep
    DEF IInv, TypeOK
<1>2. LocalsOK' /\ FlagOK'
  BY LocalsStep, FlagStep DEF IInv
<1>3. ASSUME NEW p \in Panes
      PROVE  OrderOK(p)' /\ ExitOK(p)' /\ CurrentOK(p)' /\ OutputOK(p)' /\ WorkOK(p)'
  <2>1. OrderOK(p)' /\ ExitOK(p)'
    BY OrderStep, ExitStep DEF IInv
  <2>2. CurrentOK(p)'
    BY CurrentStep DEF IInv
  <2>3. OutputOK(p)'
    BY OutputStep DEF IInv
  <2>4. WorkOK(p)'
    BY WorkStep DEF IInv
  <2> QED
    BY <2>1, <2>2, <2>3, <2>4
<1> QED
  BY <1>1, <1>2, <1>3 DEF IInv

\* The inductive invariant holds in every reachable state, for any number of
\* panes, any output, any capacities and any number of search slices.
THEOREM Invariant == Spec => []IInv
  BY InitInv, StepInv, PTL DEF Spec

\* A pane's engine is fed its child's output in the order it was written, each
\* chunk once, and a pane that is closed has shown all of it (pane.rs pump,
\* app_model.rs pump_output).
THEOREM AlwaysInOrder == Spec => []ShownInOrder
<1>1. IInv => ShownInOrder
  <2> SUFFICES ASSUME IInv PROVE ShownInOrder
    OBVIOUS
  <2>1. FedInOrder
    BY DEF IInv, OrderOK, FedInOrder
  <2>2. ASSUME NEW p \in Panes, lifecycle[p] = "Exited"
        PROVE  Len(fed[p]) = Len(script[p]) /\ shown[p] = Len(fed[p])
    <3>1. /\ ~failed[p] /\ peeked[p] = <<>> /\ outQ[p] = <<>> /\ sent[p] = Len(script[p])
          /\ shown[p] = Len(fed[p])
      BY <2>2 DEF IInv, ExitOK
    <3>2. sent[p] = Len(fed[p]) + Len(peeked[p]) + Len(outQ[p])
      BY <3>1 DEF IInv, OrderOK, InOrder
    <3>3. Len(peeked[p]) = 0 /\ Len(outQ[p]) = 0 /\ Len(fed[p]) \in Nat
      BY <3>1 DEF IInv, TypeOK, QueueTypes
    <3> QED
      BY <3>1, <3>2, <3>3
  <2> QED
    BY <2>1, <2>2 DEF ShownInOrder, ExitedIsDrained
<1> QED
  BY <1>1, Invariant, PTL

\* Between two panes' turns no pane shows a frame, or the results of a search,
\* older than what its engine was fed.
THEOREM AlwaysCurrent == Spec => []ScreenIsCurrent
<1>1. IInv => ScreenIsCurrent
  BY DEF IInv, CurrentOK, Current, ScreenIsCurrent, PanePcs
<1> QED
  BY <1>1, Invariant, PTL

\* Output in a channel, a reply, a search slice or an exit that waits never
\* waits without a wake on its way or a pump to come (wake.rs, app_model.rs).
THEOREM NeverStranded == Spec => []NothingStranded
<1>1. IInv => NothingStranded
  <2> SUFFICES ASSUME IInv PROVE NothingStranded
    OBVIOUS
  <2>1. Covered => PumpDue \/ \E q \in Panes : Waking(q)
    BY DEF IInv, FlagOK, Covered, PumpDue, Waking
  <2>2. mpc # "idle" => PumpDue
    BY DEF PumpDue
  <2>3. NoStrandedOutput
    BY <2>1, <2>2 DEF IInv, OutputOK, Ahead, Here, PanePcs, NoStrandedOutput
  <2>4. NoStrandedWork
    <3>1. ~PumpDue => \A p \in Panes : controls[p] = <<>>
      BY <2>2 DEF IInv, LocalsOK
    <3> QED
      BY <2>1, <2>2, <3>1 DEF IInv, WorkOK, Ahead, Here, PanePcs, Quiescent, NoStrandedWork
  <2> QED
    BY <2>3, <2>4 DEF NothingStranded
<1> QED
  BY <1>1, Invariant, PTL
=============================================================================
