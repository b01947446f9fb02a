----------------------------- MODULE OutputPump -----------------------------
(***************************************************************************)
(* How queued PTY output reaches the screen: the coalesced OutputWake and  *)
(* the main-thread pump (mr-crabs-app ui/wake.rs), AppModel::pump over     *)
(* every pane, PaneModel::pump and PaneSession::drain_output (model/       *)
(* pane.rs), the queues of the pane's protocol sink (pane_sink.rs), with   *)
(* the animation controls a pass ends with, and the bounded search that    *)
(* shares the pump.                                                        *)
(*                                                                         *)
(* Reader, exit and writer threads run concurrently with the main thread:  *)
(* the main thread takes one step per channel operation or flag access.    *)
(* The threads themselves are the subject of PtySession; here they are     *)
(* reduced to their channel operations and wakes, in the same order.       *)
(***************************************************************************)
EXTENDS Integers, Sequences, FiniteSets

CONSTANTS
  NPanes,     \* panes, pumped in the order of their ids
  Scripts,    \* what the children may print: for each pane a sequence of chunk kinds
  ReaderCap,  \* capacity of a pane's output channel
  WriterCap,  \* capacity of a pane's input channel
  PumpCap,    \* chunks drained per pane and pump (workspace.rs PUMP_CAP_PER_PANE)
  ReplyCap,   \* capacity of each of the sink's queues (pane_sink.rs QUEUE_CAP)
  MaxSlices,  \* bound: budgeted slices one search needs
  MaxSearches,\* bound: searches the user starts in a pane
  MaxPumps    \* counts of scheduled pumps saturate here

\* plain text; a query the terminal answers; a graphics command with a
\* response; bytes the terminal engine rejects with a TerminalError; an
\* animation control: the menu's query, which the application answers, or one
\* that is not answered (a preset, a state).
Kinds == {"text", "query", "gfx", "bad", "menu", "preset"}

ASSUME PumpAssumption ==
  /\ NPanes \in Nat \ {0} /\ ReaderCap \in Nat \ {0} /\ WriterCap \in Nat \ {0}
  /\ ReplyCap \in Nat \ {0} /\ MaxSlices \in Nat \ {0} /\ MaxSearches \in Nat
  /\ MaxPumps \in Nat \ {0}
ASSUME CapCoversQueue == PumpCap \in Nat /\ PumpCap > ReaderCap
Panes == 1..NPanes

ASSUME ScriptAssumption == Scripts \subseteq [Panes -> Seq(Kinds)]

VARIABLES
  \* per pane: the child and the threads of its session
  script,   \* what the child prints, chosen at the start
  sent,     \* chunks the reader has enqueued so far
  childGone,\* the child has died
  outQ,     \* output channel: chunk numbers
  outTx,    \* the reader still holds the sender
  exitMsg,  \* exit channel: "none", "sent" or "taken"
  inQ,      \* replies in the input channel
  inRx,     \* the writer thread still holds the receiver
  rpc,      \* reader thread
  xpc,      \* exit-waiter thread
  \* per pane: PaneSession and PaneModel
  peeked,      \* the chunk stashed by peek_pending: a sequence of at most one
  readerClosed,\* PaneSession.reader_closed
  lifecycle,   \* "Live" or "Exited"
  failed,      \* PaneModel.terminal_error is latched
  replies,     \* PaneProtocolSink replies, by the chunk that caused them
  gfx,         \* pending_graphics_responses, likewise
  controls,    \* PaneProtocolSink animation requests, likewise
  slices,      \* slices the pending search still needs, 0 when none pends
  searches,    \* searches started so far
  searchedAt,  \* chunks fed when the active matches were collected, or -1
  fed,         \* history: chunks the engine accepted, in order
  shown,       \* how many of them the latest frame shows
  \* the wake and the main thread
  dirty,     \* the coalescing flag
  posted,    \* pumps posted to the main queue
  deferred,  \* pumps deferred with cx.defer
  mpc,       \* the main thread inside pump_now
  cur,       \* the pane being pumped
  chunks,    \* DrainStats.chunks of that pane
  panePending, pending,  \* DrainStats.pending of that pane and of the pass
  paneError, error       \* DrainStats.error of that pane and of the pass

sessionVars == <<script, sent, childGone, outTx, rpc, xpc>>
searchVars  == <<slices, searches, searchedAt>>
mainLocals  == <<cur, chunks, panePending, pending, paneError, error>>
vars == <<sessionVars, outQ, exitMsg, inQ, inRx, peeked, readerClosed, lifecycle,
          failed, replies, gfx, controls, searchVars, fed, shown, dirty, posted,
          deferred, mpc, mainLocals>>

\* What the threads of the sessions never touch, and what the main thread
\* never touches.
MainFrame    == UNCHANGED <<peeked, readerClosed, lifecycle, failed, replies, gfx,
                            controls, searchVars, fed, shown, deferred, mpc, mainLocals>>
SessionFrame == UNCHANGED sessionVars

Set(f, p, v) == [f EXCEPT ![p] = v]

\* Counts of scheduled pumps saturate: MaxPumps stands for it and more.
OneMore(n)   == IF n < MaxPumps THEN n + 1 ELSE MaxPumps
OneLess(n)   == IF n < MaxPumps THEN {n - 1} ELSE {n - 1, n}

Kind(p, c)   == script[p][c]

Init ==
  /\ script \in Scripts
  /\ sent = [p \in Panes |-> 0] /\ childGone = [p \in Panes |-> FALSE]
  /\ outQ = [p \in Panes |-> <<>>] /\ outTx = [p \in Panes |-> TRUE]
  /\ exitMsg = [p \in Panes |-> "none"]
  /\ inQ = [p \in Panes |-> 0] /\ inRx = [p \in Panes |-> TRUE]
  /\ rpc = [p \in Panes |-> "run"] /\ xpc = [p \in Panes |-> "run"]
  /\ peeked = [p \in Panes |-> <<>>]
  /\ readerClosed = [p \in Panes |-> FALSE]
  /\ lifecycle = [p \in Panes |-> "Live"]
  /\ failed = [p \in Panes |-> FALSE]
  /\ replies = [p \in Panes |-> <<>>] /\ gfx = [p \in Panes |-> <<>>]
  /\ controls = [p \in Panes |-> <<>>]
  /\ slices = [p \in Panes |-> 0] /\ searches = [p \in Panes |-> 0]
  /\ searchedAt = [p \in Panes |-> -1]
  /\ fed = [p \in Panes |-> <<>>] /\ shown = [p \in Panes |-> 0]
  /\ dirty = FALSE /\ posted = 0 /\ deferred = 0
  /\ mpc = "idle" /\ cur = 1 /\ chunks = 0
  /\ panePending = FALSE /\ pending = FALSE
  /\ paneError = FALSE /\ error = FALSE

-----------------------------------------------------------------------------
(* Session threads.                                                        *)

ChildExits(p) ==
  /\ ~childGone[p]
  /\ childGone' = Set(childGone, p, TRUE)
  /\ UNCHANGED <<script, sent, outTx, rpc, xpc, outQ, exitMsg, inQ, inRx, dirty,
                 posted>>
  /\ MainFrame

\* The reader enqueues the next chunk; a full queue makes it wait.
ReaderSends(p) ==
  /\ rpc[p] = "run" /\ sent[p] < Len(script[p]) /\ Len(outQ[p]) < ReaderCap
  /\ sent' = Set(sent, p, sent[p] + 1)
  /\ outQ' = Set(outQ, p, Append(outQ[p], sent[p] + 1))
  /\ rpc' = Set(rpc, p, "swap")
  /\ UNCHANGED <<script, childGone, outTx, xpc, exitMsg, inQ, inRx, dirty, posted>>
  /\ MainFrame

\* The terminal is closed and empty: drop the sender, then wake.
ReaderEnds(p) ==
  /\ rpc[p] = "run" /\ childGone[p] /\ sent[p] = Len(script[p])
  /\ outTx' = Set(outTx, p, FALSE)
  /\ rpc' = Set(rpc, p, "swap")
  /\ UNCHANGED <<script, sent, childGone, xpc, outQ, exitMsg, inQ, inRx, dirty,
                 posted>>
  /\ MainFrame

\* Mutant: the exit waiter does not wake.
ExitPublishesUnheard(p) ==
  /\ xpc[p] = "run" /\ childGone[p]
  /\ exitMsg' = Set(exitMsg, p, "sent")
  /\ xpc' = Set(xpc, p, "done")
  /\ UNCHANGED <<script, sent, childGone, outTx, rpc, outQ, inQ, inRx, dirty,
                 posted>>
  /\ MainFrame

\* The exit waiter publishes the status, then wakes.
ExitPublishes(p) ==
  /\ xpc[p] = "run" /\ childGone[p]
  /\ exitMsg' = Set(exitMsg, p, "sent")
  /\ xpc' = Set(xpc, p, "swap")
  /\ UNCHANGED <<script, sent, childGone, outTx, rpc, outQ, inQ, inRx, dirty,
                 posted>>
  /\ MainFrame

\* The wake closure: the swap that finds the flag clear posts a pump.
\* A reader returns to its loop; a thread without a sender left is done.
AfterWake(pc, p) == IF pc = "reader" /\ outTx[p] THEN "run" ELSE "done"

WakeSwaps(p) ==
  /\ \/ /\ rpc[p] = "swap"
        /\ rpc' = Set(rpc, p, IF dirty THEN AfterWake("reader", p) ELSE "post")
        /\ UNCHANGED xpc
     \/ /\ xpc[p] = "swap"
        /\ xpc' = Set(xpc, p, IF dirty THEN AfterWake("exit", p) ELSE "post")
        /\ UNCHANGED rpc
  /\ dirty' = TRUE
  /\ UNCHANGED <<script, sent, childGone, outTx, outQ, exitMsg, inQ, inRx, posted>>
  /\ MainFrame

WakePosts(p) ==
  /\ \/ /\ rpc[p] = "post"
        /\ rpc' = Set(rpc, p, AfterWake("reader", p)) /\ UNCHANGED xpc
     \/ /\ xpc[p] = "post"
        /\ xpc' = Set(xpc, p, AfterWake("exit", p)) /\ UNCHANGED rpc
  /\ posted' = OneMore(posted)
  /\ UNCHANGED <<script, sent, childGone, outTx, outQ, exitMsg, inQ, inRx, dirty>>
  /\ MainFrame

\* The writer thread takes one reply.  With the child gone the write fails,
\* the thread returns and its receiver goes with what was queued.
WriterTakes(p) ==
  /\ inQ[p] > 0
  /\ \/ inQ' = Set(inQ, p, inQ[p] - 1) /\ UNCHANGED inRx
     \/ /\ childGone[p]
        /\ inQ' = Set(inQ, p, 0) /\ inRx' = Set(inRx, p, FALSE)
  /\ UNCHANGED <<outQ, exitMsg, dirty, posted>>
  /\ SessionFrame /\ MainFrame

Threads(p) ==
  \/ ReaderSends(p) \/ ReaderEnds(p) \/ ExitPublishes(p)
  \/ WakeSwaps(p) \/ WakePosts(p) \/ WriterTakes(p)

-----------------------------------------------------------------------------
(* The main thread: pump_now, pump_now_inner, AppModel::pump.              *)

\* A pump starts from the main queue, from cx.defer, or from a render.  Every
\* pump of the same pass clears the flag before it looks at any pane.
PumpBegins ==
  /\ mpc = "idle"
  /\ \/ posted > 0 /\ posted' \in OneLess(posted) /\ UNCHANGED deferred
     \/ deferred > 0 /\ deferred' \in OneLess(deferred) /\ UNCHANGED posted
     \/ UNCHANGED <<posted, deferred>>
  /\ dirty' = FALSE /\ mpc' = "drain" /\ cur' = 1
  /\ UNCHANGED <<outQ, exitMsg, inQ, inRx, peeked, readerClosed, lifecycle, failed,
                 replies, gfx, controls, searchVars, fed, shown, chunks, panePending, pending,
                 paneError, error>>
  /\ SessionFrame

\* A pane that failed before answers with its error and touches nothing.
PumpFailedPane ==
  /\ mpc = "drain" /\ failed[cur]
  /\ panePending' = TRUE /\ paneError' = TRUE /\ mpc' = "exit"
  /\ UNCHANGED <<outQ, exitMsg, inQ, inRx, peeked, readerClosed, lifecycle, failed,
                 replies, gfx, controls, searchVars, fed, shown, dirty, posted, deferred,
                 cur, chunks, pending, error>>
  /\ SessionFrame

-----------------------------------------------------------------------------
(* PaneSession::drain_output and the scanned feed.                         *)

\* push_bounded: the oldest entry makes room for the newest.
PushBounded(q, c) == Append(IF Len(q) >= ReplyCap THEN Tail(q) ELSE q, c)

\* What a chunk of one of the given kinds leaves in a queue of the sink.
Queued(q, p, c, kinds) ==
  IF Kind(p, c) \in kinds THEN Set(q, p, PushBounded(q[p], c)) ELSE q

\* The sink is handed chunk c: fed, or rejected and consumed all the same.
Feed(c) ==
  IF Kind(cur, c) = "bad"
    THEN /\ failed' = Set(failed, cur, TRUE) /\ paneError' = TRUE
         /\ mpc' = "peek"
         /\ UNCHANGED <<fed, chunks, replies, gfx, controls>>
    ELSE /\ fed' = Set(fed, cur, Append(fed[cur], c))
         /\ chunks' = chunks + 1
         /\ replies' = Queued(replies, cur, c, {"query"})
         /\ controls' = Queued(controls, cur, c, {"menu", "preset"})
         /\ gfx' = IF Kind(cur, c) = "gfx" THEN Set(gfx, cur, Append(gfx[cur], c))
                                           ELSE gfx
         /\ UNCHANGED <<failed, paneError, mpc>>

\* Mutant: the channel goes before the stash.
DrainChannelFirst ==
  /\ mpc = "drain" /\ ~failed[cur]
  /\ \/ /\ peeked[cur] # <<>> /\ outQ[cur] = <<>>
        /\ peeked' = Set(peeked, cur, <<>>) /\ Feed(Head(peeked[cur]))
        /\ UNCHANGED outQ
     \/ /\ chunks < PumpCap /\ outQ[cur] # <<>>
        /\ outQ' = Set(outQ, cur, Tail(outQ[cur])) /\ Feed(Head(outQ[cur]))
        /\ UNCHANGED peeked
  /\ UNCHANGED <<exitMsg, inQ, inRx, readerClosed, lifecycle, searchVars, shown,
                 dirty, posted, deferred, cur, panePending, pending, error>>
  /\ SessionFrame

\* The stashed chunk goes first, then try_recv until the cap.
DrainChunk ==
  /\ mpc = "drain" /\ ~failed[cur]
  /\ \/ /\ peeked[cur] # <<>>
        /\ peeked' = Set(peeked, cur, <<>>) /\ Feed(Head(peeked[cur]))
        /\ UNCHANGED outQ
     \/ /\ peeked[cur] = <<>> /\ chunks < PumpCap /\ outQ[cur] # <<>>
        /\ outQ' = Set(outQ, cur, Tail(outQ[cur])) /\ Feed(Head(outQ[cur]))
        /\ UNCHANGED peeked
  /\ UNCHANGED <<exitMsg, inQ, inRx, readerClosed, lifecycle, searchVars, shown,
                 dirty, posted, deferred, cur, panePending, pending, error>>
  /\ SessionFrame

\* The loop ends at the cap, on Empty or on Disconnected.
DrainEnds ==
  /\ mpc = "drain" /\ ~failed[cur] /\ peeked[cur] = <<>>
  /\ \/ chunks >= PumpCap /\ UNCHANGED readerClosed
     \/ /\ chunks < PumpCap /\ outQ[cur] = <<>>
        /\ readerClosed' = Set(readerClosed, cur, readerClosed[cur] \/ ~outTx[cur])
  /\ mpc' = "peek"
  /\ UNCHANGED <<outQ, exitMsg, inQ, inRx, peeked, lifecycle, failed, replies, gfx, controls,
                 searchVars, fed, shown, dirty, posted, deferred, mainLocals>>
  /\ SessionFrame

\* peek_pending: one more chunk is stashed and reported as pending.
Peek ==
  /\ mpc = "peek"
  /\ IF outQ[cur] # <<>>
       THEN /\ peeked' = Set(peeked, cur, <<Head(outQ[cur])>>)
            /\ outQ' = Set(outQ, cur, Tail(outQ[cur]))
            /\ UNCHANGED readerClosed
       ELSE /\ readerClosed' = Set(readerClosed, cur, readerClosed[cur] \/ ~outTx[cur])
            /\ UNCHANGED <<peeked, outQ>>
  /\ panePending' = (outQ[cur] # <<>>)
  /\ mpc' = "gfx"
  /\ UNCHANGED <<exitMsg, inQ, inRx, lifecycle, failed, replies, gfx, controls, searchVars,
                 fed, shown, dirty, posted, deferred, cur, chunks, pending,
                 paneError, error>>
  /\ SessionFrame

-----------------------------------------------------------------------------
(* PaneModel::pump after the drain.                                        *)

Accepts(p) == inRx[p] /\ inQ[p] < WriterCap

\* drain_graphics_responses: Full keeps them for later, Closed drops them all.
GraphicsResponse ==
  /\ mpc = "gfx"
  /\ \/ /\ gfx[cur] # <<>> /\ Accepts(cur)
        /\ gfx' = Set(gfx, cur, Tail(gfx[cur]))
        /\ inQ' = Set(inQ, cur, inQ[cur] + 1)
        /\ UNCHANGED <<mpc, panePending>>
     \/ /\ gfx[cur] # <<>> /\ ~Accepts(cur)
        /\ gfx' = IF inRx[cur] THEN gfx ELSE Set(gfx, cur, <<>>)
        /\ panePending' = (panePending \/ inRx[cur])
        /\ mpc' = "reply" /\ UNCHANGED inQ
     \/ /\ gfx[cur] = <<>>
        /\ mpc' = "reply" /\ UNCHANGED <<gfx, inQ, panePending>>
  /\ UNCHANGED <<outQ, exitMsg, inRx, peeked, readerClosed, lifecycle, failed,
                 replies, controls, searchVars, fed, shown, dirty, posted, deferred, cur,
                 chunks, pending, paneError, error>>
  /\ SessionFrame

\* Mutant: replies that found no room are not reported pending.
FlushForgetsReply ==
  /\ mpc = "reply"
  /\ IF replies[cur] # <<>> /\ Accepts(cur)
       THEN /\ replies' = Set(replies, cur, Tail(replies[cur]))
            /\ inQ' = Set(inQ, cur, inQ[cur] + 1)
            /\ UNCHANGED mpc
       ELSE mpc' = "frame" /\ UNCHANGED <<replies, inQ>>
  /\ UNCHANGED <<outQ, exitMsg, inRx, peeked, readerClosed, lifecycle, failed, gfx, controls,
                 searchVars, fed, shown, dirty, posted, deferred, cur, chunks,
                 panePending, pending, paneError, error>>
  /\ SessionFrame

\* flush_pty_replies: any error requeues what is left and reports it pending.
FlushReply ==
  /\ mpc = "reply"
  /\ \/ /\ replies[cur] # <<>> /\ Accepts(cur)
        /\ replies' = Set(replies, cur, Tail(replies[cur]))
        /\ inQ' = Set(inQ, cur, inQ[cur] + 1)
        /\ UNCHANGED <<mpc, panePending>>
     \/ /\ replies[cur] # <<>> /\ ~Accepts(cur)
        /\ panePending' = TRUE /\ mpc' = "frame"
        /\ UNCHANGED <<replies, inQ>>
     \/ /\ replies[cur] = <<>>
        /\ mpc' = "frame" /\ UNCHANGED <<replies, inQ, panePending>>
  /\ UNCHANGED <<outQ, exitMsg, inRx, peeked, readerClosed, lifecycle, failed, gfx, controls,
                 searchVars, fed, shown, dirty, posted, deferred, cur, chunks,
                 pending, paneError, error>>
  /\ SessionFrame

\* advance_search_slice on a pending search: another slice is needed, or the
\* search completes, with matches or without, and the frame is rebuilt.
SearchSlice(p) ==
  /\ slices' = Set(slices, p, slices[p] - 1)
  /\ IF slices[p] > 1
       THEN UNCHANGED <<searchedAt, shown>>
       ELSE /\ shown' = Set(shown, p, Len(fed[p]))
            /\ \/ searchedAt' = Set(searchedAt, p, Len(fed[p]))
               \/ UNCHANGED searchedAt

\* Mutant: output leaves the matches as they were.
OutputKeepsMatches ==
  /\ slices' = Set(slices, cur, 0) /\ UNCHANGED searchedAt
  /\ shown' = Set(shown, cur, Len(fed[cur]))

\* New chunks drop the search with its matches (invalidate_stale_history_
\* views) and rebuild the frame.
OutputChangesFrame ==
  /\ slices' = Set(slices, cur, 0) /\ searchedAt' = Set(searchedAt, cur, -1)
  /\ shown' = Set(shown, cur, Len(fed[cur]))

\* Without new chunks a pending search takes a slice.  A pass that failed does
\* not rebuild, but still takes the slice.
FrameAndSearch ==
  /\ mpc = "frame"
  /\ IF chunks > 0 /\ ~paneError
       THEN OutputChangesFrame
       ELSE IF slices[cur] > 0 THEN SearchSlice(cur)
       ELSE UNCHANGED <<slices, searchedAt, shown>>
  /\ panePending' = (panePending \/ slices'[cur] > 0 \/ gfx[cur] # <<>> \/ paneError)
  /\ mpc' = "exit"
  /\ UNCHANGED <<outQ, exitMsg, inQ, inRx, peeked, readerClosed, lifecycle, failed,
                 replies, gfx, controls, searches, fed, dirty, posted, deferred, cur, chunks,
                 pending, paneError, error>>
  /\ SessionFrame

\* output_drained, with nothing pending and no error.
MayExit(p) == ~panePending /\ ~paneError /\ readerClosed[p] /\ peeked[p] = <<>>

\* A live pane with nothing pending and its output drained takes the exit
\* status, if it is there; then the statistics of the pane are merged into
\* those of the pass, over the panes of all tabs and windows.
ExitCheck ==
  /\ mpc = "exit"
  /\ IF lifecycle[cur] = "Live" /\ MayExit(cur) /\ exitMsg[cur] = "sent"
       THEN /\ exitMsg' = Set(exitMsg, cur, "taken")
            /\ lifecycle' = Set(lifecycle, cur, "Exited")
            /\ shown' = Set(shown, cur, Len(fed[cur]))
       ELSE UNCHANGED <<exitMsg, lifecycle, shown>>
  /\ pending' = (pending \/ panePending) /\ error' = (error \/ paneError)
  /\ chunks' = 0 /\ panePending' = FALSE /\ paneError' = FALSE
  /\ IF cur < NPanes THEN cur' = cur + 1 /\ mpc' = "drain"
                     ELSE cur' = 1 /\ mpc' = "controls"
  /\ UNCHANGED <<outQ, inQ, inRx, peeked, readerClosed, failed, replies, gfx, controls,
                 searchVars, fed, dirty, posted, deferred>>
  /\ SessionFrame

\* drain_animation_controls, after the last pane of the pass: the animation
\* controls of every pane, failed or not, in the order of the panes.  A query
\* adds its answer to the pane's replies; the answer to any control is to
\* flush these once more.
TakeControl(p) ==
  /\ mpc = "controls"
  /\ controls[p] # <<>> /\ \A q \in 1..(p - 1) : controls[q] = <<>>
  /\ controls' = Set(controls, p, Tail(controls[p]))
  /\ replies' = Queued(replies, p, Head(controls[p]), {"menu"})
  /\ cur' = p /\ mpc' = "answer"
  /\ UNCHANGED <<outQ, exitMsg, inQ, inRx, peeked, readerClosed, lifecycle, failed,
                 gfx, searchVars, fed, shown, dirty, posted, deferred, chunks,
                 panePending, pending, paneError, error>>
  /\ SessionFrame

\* That flush_pty_replies: what finds no room is requeued, but drain_animation_
\* controls discards the result, and the pass does not count it as pending.
FlushAnswer ==
  /\ mpc = "answer"
  /\ IF replies[cur] # <<>> /\ Accepts(cur)
       THEN /\ replies' = Set(replies, cur, Tail(replies[cur]))
            /\ inQ' = Set(inQ, cur, inQ[cur] + 1)
            /\ UNCHANGED mpc
       ELSE mpc' = "controls" /\ UNCHANGED <<replies, inQ>>
  /\ UNCHANGED <<outQ, exitMsg, inRx, peeked, readerClosed, lifecycle, failed, gfx,
                 controls, searchVars, fed, shown, dirty, posted, deferred, mainLocals>>
  /\ SessionFrame

\* should_rearm
ShouldRearm == pending /\ ~error

\* The end of pump_now_inner: set the flag and defer another pump.
Rearm ==
  /\ mpc = "controls" /\ \A p \in Panes : controls[p] = <<>>
  /\ IF ShouldRearm
       THEN /\ dirty' = TRUE /\ deferred' = OneMore(deferred)
       ELSE UNCHANGED <<dirty, deferred>>
  /\ mpc' = "repost"
  /\ UNCHANGED <<outQ, exitMsg, inQ, inRx, peeked, readerClosed, lifecycle, failed,
                 replies, gfx, controls, searchVars, fed, shown, posted, mainLocals>>
  /\ SessionFrame

\* The end of pump_now: a flag found set posts a pump to the main queue.
Repost ==
  /\ mpc = "repost"
  /\ IF dirty
       THEN posted' = OneMore(posted)
       ELSE UNCHANGED posted
  /\ mpc' = "idle" /\ pending' = FALSE /\ error' = FALSE
  /\ UNCHANGED <<outQ, exitMsg, inQ, inRx, peeked, readerClosed, lifecycle, failed,
                 replies, gfx, controls, searchVars, fed, shown, dirty, deferred, cur, chunks,
                 panePending, paneError>>
  /\ SessionFrame

\* The user searches a pane for a new needle: the first slice runs at once;
\* a search left pending wakes the pump through the same closure.
StartSearch(p, n) ==
  /\ mpc = "idle" /\ searches[p] < MaxSearches
  /\ searches' = Set(searches, p, searches[p] + 1)
  /\ slices' = Set(slices, p, n - 1)
  /\ IF n > 1
       THEN searchedAt' = Set(searchedAt, p, -1) /\ UNCHANGED shown
       ELSE /\ shown' = Set(shown, p, Len(fed[p]))
            /\ searchedAt' \in {Set(searchedAt, p, at) : at \in {-1, Len(fed[p])}}
  /\ IF n > 1
       THEN dirty' = TRUE /\ posted' = IF dirty THEN posted ELSE OneMore(posted)
       ELSE UNCHANGED <<dirty, posted>>
  /\ UNCHANGED <<outQ, exitMsg, inQ, inRx, peeked, readerClosed, lifecycle, failed,
                 replies, gfx, controls, fed, deferred, mpc, mainLocals>>
  /\ SessionFrame

\* The empty needle drops the search; the needle of a finished one moves on to
\* the next match.  Either rebuilds the frame.
SearchAgain(p) ==
  /\ mpc = "idle" /\ searches[p] > 0
  /\ \/ slices' = Set(slices, p, 0) /\ searchedAt' = Set(searchedAt, p, -1)
     \/ slices[p] = 0 /\ searchedAt[p] # -1 /\ UNCHANGED <<slices, searchedAt>>
  /\ shown' = Set(shown, p, Len(fed[p]))
  /\ UNCHANGED <<outQ, exitMsg, inQ, inRx, peeked, readerClosed, lifecycle, failed,
                 replies, gfx, controls, searches, fed, dirty, posted, deferred, mpc, mainLocals>>
  /\ SessionFrame

PumpStep ==
  \/ PumpFailedPane \/ DrainChunk \/ DrainEnds \/ Peek
  \/ GraphicsResponse \/ FlushReply \/ FrameAndSearch \/ ExitCheck
  \/ (\E p \in Panes : TakeControl(p)) \/ FlushAnswer
  \/ Rearm \/ Repost

\* A pump that was scheduled, as opposed to one a render asks for.
ScheduledPump == PumpBegins /\ (posted' < posted \/ deferred' < deferred)

Next ==
  \/ \E p \in Panes : ChildExits(p) \/ Threads(p) \/ SearchAgain(p)
  \/ \E p \in Panes, n \in 1..MaxSlices : StartSearch(p, n)
  \/ PumpBegins \/ PumpStep

Spec == Init /\ [][Next]_vars

-----------------------------------------------------------------------------
\* A wake on its way: a thread between its channel operation and its post.
Waking(p) == rpc[p] \in {"swap", "post"} \/ xpc[p] \in {"swap", "post"}

\* Some pump is bound to look at the panes again after everything that has
\* happened so far.
PumpDue == posted + deferred > 0 \/ mpc # "idle"

\* A chunk that reached the output channel or the stash is never stranded:
\* some pump is due, or the wake that will schedule one is under way.  This
\* holds beside a pane that failed as well, although that suppresses the
\* re-arm, because the cap exceeds what the channel and the stash can hold.
NoStrandedOutput ==
  \A p \in Panes :
    (outQ[p] # <<>> \/ peeked[p] # <<>>) /\ ~failed[p] =>
      PumpDue \/ \E q \in Panes : Waking(q)

\* Chunks reach the engine in the order they were printed, none skipped and
\* none twice, across stash, channel, cap and failures.
FedInOrder == \A p \in Panes : fed[p] = [i \in 1..Len(fed[p]) |-> i]

\* The exit is exposed only when everything the child printed was fed and is
\* in the frame, whatever order the reader's end and the status came in.
ExitedIsDrained ==
  \A p \in Panes : lifecycle[p] = "Exited" =>
    Len(fed[p]) = Len(script[p]) /\ shown[p] = Len(fed[p])

\* What a pane shows follows what its child did: chunks, then the exit.
ShownInOrder == FedInOrder /\ ExitedIsDrained

\* Between pumps a healthy pane shows all that was fed, and no search matches
\* (positions in the history) collected before the output that came since.
ScreenIsCurrent ==
  mpc = "idle" =>
    \A p \in Panes : ~failed[p] =>
      /\ shown[p] = Len(fed[p])
      /\ searchedAt[p] # -1 => searchedAt[p] = Len(fed[p])

\* The answer to an animation query is flushed after the panes were, and what
\* has no room then is not reported: only such an answer may wait.
MayWait(p) == \A i \in DOMAIN replies[p] : Kind(p, replies[p][i]) = "menu"

\* An idle application without failed panes has no work pending: no search
\* half done, no animation control unread, no exit unnoticed, and no reply of
\* the terminal waiting for room.  Answers to animation queries, and these
\* alone, may be left until something else wakes the pump.
NoStrandedWork ==
  ~PumpDue /\ (\A p \in Panes : ~Waking(p) /\ ~failed[p]) =>
    \A p \in Panes :
      /\ slices[p] = 0 /\ MayWait(p) /\ gfx[p] = <<>> /\ controls[p] = <<>>
      /\ ~outTx[p] /\ exitMsg[p] # "none" => lifecycle[p] = "Exited"

\* Neither is ever stranded.
NothingStranded == NoStrandedOutput /\ NoStrandedWork
=============================================================================
