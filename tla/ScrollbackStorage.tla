------------------------- MODULE ScrollbackStorage -------------------------
(***************************************************************************)
(* ScrollbackStorage of mr-crabs-terminal (storage.rs): the history as a   *)
(* queue of pages, the compression worker behind two bounded channels, and *)
(* the calls the terminal makes (lib.rs: feed, resize, read, restore,      *)
(* style compaction, drop).                                                *)
(*                                                                         *)
(* The terminal's thread owns everything but the channels and the two      *)
(* counters.  A call is a list of steps, todo; between two steps the       *)
(* worker may run.  A row is its number and the style table it is encoded  *)
(* for, so a lost, repeated, misplaced or wrongly coloured row shows.      *)
(***************************************************************************)
EXTENDS Integers, SequencesExt

CONSTANTS
  Limits,        \* the values max_lines takes
  PageLines,     \* hot_page_lines
  QueueCap,      \* max_queued_jobs
  CompletionCap, \* max_pending_completions
  Widths,        \* column counts of rows
  Generations,   \* generations of rows that leave the screen
  MaxRows,       \* bound: rows that ever enter the history
  MaxBatch,      \* bound: rows one call hands over or asks back
  MaxStyles      \* bound: style compactions

ASSUME StorageAssumption ==
  /\ Limits \subseteq Nat \ {0} /\ PageLines \in Nat \ {0}
  /\ QueueCap \in Nat \ {0} /\ CompletionCap \in Nat \ {0}
  /\ Generations \subseteq Nat /\ MaxRows \in Nat /\ MaxBatch \in Nat
  /\ MaxStyles \in Nat

VARIABLES
  history, logical, \* the pages, oldest first; logical_lines
  nextId, cursor,   \* next_page_id, enqueue_cursor (an index from 0)
  cache,            \* cold_cache: the one decoded page
  limit,            \* config.max_lines
  todo, scan, arg,  \* what the current call has yet to do
  answer,           \* what the last call handed out
  fed, styles,      \* rows ever pushed, style compactions so far
  jobs, completions, open, \* the two channels; job_tx is still there
  queued, pending,  \* queued_jobs, pending_completions
  worker            \* worker_loop: where it is and the job it holds

owner == <<history, logical, nextId, cursor, cache, limit, todo, scan, arg,
           answer, fed, styles, open>>
vars  == <<owner, jobs, completions, queued, pending, worker>>

Row   == [n : 1..MaxRows, style : 0..MaxStyles]
NoRow == [n |-> 0, style |-> 0] \* a reader is told there is no such row

\* The resident of a page is a flat buffer, moved row descriptors, or taken;
\* its compressed block, or <<>>.
Page == [id : Nat, gen : Nat, cols : Widths, lines : 1..PageLines,
         kind : {"flat", "segmented", "none"}, rows : Seq(Row),
         packed : Seq(Row), pending : BOOLEAN]

\* A Job, and the Completion it becomes.
Job  == [page : Nat, gen : Nat, rows : Seq(Row)]

Hot(p)  == p.kind # "none"
Cold(p) == p.kind = "none" /\ p.packed # <<>>
Away(p) == p.kind = "none" /\ p.packed = <<>>

NoPage  == [page |-> 0, gen |-> 0, rows |-> <<>>]
NotScanning == [at |-> -1, failed |-> -1]

LinesBefore(k) ==
  LET sum[i \in 0..k] == IF i = 0 THEN 0 ELSE sum[i - 1] + history[i].lines
  IN  sum[k]
LastIndex   == Len(history) - 1
Back        == history[Len(history)]
Smaller(a, b) == IF a < b THEN a ELSE b

Init ==
  /\ history = <<>> /\ logical = 0 /\ nextId = 1 /\ cursor = 0
  /\ cache = NoPage /\ limit \in Limits
  /\ todo = <<>> /\ scan = NotScanning /\ arg = <<0, 0>> /\ answer = <<>>
  /\ fed = 0 /\ styles = 0
  /\ jobs = <<>> /\ completions = <<>> /\ open = TRUE
  /\ queued = 0 /\ pending = 0
  /\ worker = [pc |-> "recv", job |-> NoPage]

-----------------------------------------------------------------------------
(* worker_loop: the owner sees a job leave its channel, a completion arrive *)
(* and the two counters change, in this order.                             *)

WorkerTake ==
  /\ worker.pc = "recv" /\ jobs # <<>>
  /\ worker' = [pc |-> "send", job |-> Head(jobs)]
  /\ jobs' = Tail(jobs)
  /\ pending' = pending + 1
  /\ UNCHANGED <<owner, completions, queued>>

WorkerSend ==
  /\ worker.pc = "send" /\ Len(completions) < CompletionCap
  /\ completions' = Append(completions, worker.job)
  /\ worker' = [pc |-> "sent", job |-> NoPage]
  /\ UNCHANGED <<owner, jobs, queued, pending>>

WorkerCount ==
  /\ worker.pc = "sent"
  /\ queued' = queued - 1
  /\ worker' = [worker EXCEPT !.pc = "recv"]
  /\ UNCHANGED <<owner, jobs, completions, pending>>

WorkerExit ==
  /\ worker.pc = "recv" /\ jobs = <<>> /\ ~open
  /\ worker' = [worker EXCEPT !.pc = "gone"]
  /\ UNCHANGED <<owner, jobs, completions, queued, pending>>

Worker == WorkerTake \/ WorkerSend \/ WorkerCount \/ WorkerExit

-----------------------------------------------------------------------------
(* Steps of the owner's calls *)

At(step) == todo # <<>> /\ Head(todo) = step
Done     == todo' = Tail(todo)
Quietly  == UNCHANGED <<nextId, limit, arg, answer, fed, styles, open>>
Local    == UNCHANGED <<jobs, completions, queued, pending, worker>>

NewRow == [n |-> fed + 1, style |-> styles]

FreshPage(w, gen, kind) ==
  [id |-> nextId, gen |-> gen, cols |-> w, lines |-> 1, kind |-> kind,
   rows |-> <<NewRow>>, packed |-> <<>>, pending |-> FALSE]

Extended(p) == [p EXCEPT !.rows = Append(@, NewRow), !.lines = @ + 1]

\* ingest_owned_row_inner: the back page takes the row if it is still open
\* for rows of this width and generation; a new page otherwise.
IngestRow(w, gen) ==
  LET fits == /\ history # <<>>
              /\ Back.kind = "segmented" /\ ~Back.pending
              /\ Back.lines < PageLines /\ Back.cols = w /\ Back.gen = gen
      n    == Len(history)
  IN /\ At("ingest")
     /\ logical' = logical + 1 /\ fed' = fed + 1 /\ cache' = NoPage
     /\ \/ /\ fits
           /\ history' = [history EXCEPT ![n] = Extended(@)]
           /\ Done
           /\ UNCHANGED <<nextId, cursor>>
        \/ /\ ~fits
           /\ history' = Append(history, FreshPage(w, gen, "segmented"))
           /\ nextId' = nextId + 1
           /\ cursor' = IF n > 0 THEN Smaller(cursor, n - 1) ELSE cursor
           /\ todo' = <<"scan">> \o Tail(todo)
     /\ Local /\ UNCHANGED <<scan, limit, arg, answer, styles, open>>

\* push_line: the same for a flat page; it does not rewind the cursor.
PushLine(w) ==
  LET fits == /\ history # <<>>
              /\ Back.kind = "flat" /\ Back.lines < PageLines /\ Back.cols = w
  IN /\ At("push")
     /\ logical' = logical + 1 /\ fed' = fed + 1
     /\ \/ /\ fits
           /\ history' = [history EXCEPT ![Len(history)] = Extended(@)]
           /\ UNCHANGED nextId
        \/ /\ ~fits
           /\ history' = Append(history, FreshPage(w, 0, "flat"))
           /\ nextId' = nextId + 1
     /\ todo' = <<"scan", "enforce">> \o Tail(todo)
     /\ Local /\ UNCHANGED <<cursor, cache, scan, limit, arg, answer, styles, open>>

Eligible(p) == Hot(p) /\ p.lines >= PageLines /\ ~p.pending /\ p.packed = <<>>

\* enqueue_page: the rows move into the job; a full queue gives them back and
\* the scan remembers the first page it refused.
Enqueued(i) ==
  LET p == history[i + 1]
  IN /\ Len(jobs) < QueueCap
     /\ history' = [history EXCEPT ![i + 1].kind = "none",
                      ![i + 1].rows = <<>>, ![i + 1].pending = TRUE]
     /\ jobs' = Append(jobs, [page |-> p.id, gen |-> p.gen, rows |-> p.rows])
     /\ queued' = queued + 1
     /\ scan' = [scan EXCEPT !.at = i + 1]

FailedAt(i) == IF scan.failed = -1 THEN i ELSE scan.failed

\* Mutant: the rows of a refused page are not put back.
RefusedLost(i) ==
  /\ Len(jobs) >= QueueCap
  /\ scan' = [at |-> i + 1, failed |-> FailedAt(i)]
  /\ history' = [history EXCEPT ![i + 1].kind = "none", ![i + 1].rows = <<>>]
  /\ UNCHANGED <<jobs, queued>>

Refused(i) ==
  /\ Len(jobs) >= QueueCap
  /\ scan' = [at |-> i + 1, failed |-> FailedAt(i)]
  /\ UNCHANGED <<history, jobs, queued>>

Scanned ==
  /\ cursor' = IF LastIndex <= 0 THEN 0
               ELSE IF scan.failed # -1 THEN scan.failed ELSE LastIndex
  /\ scan' = NotScanning
  /\ Done /\ UNCHANGED <<history, jobs, queued>>

\* maybe_enqueue_full_pages: every full page from the cursor on but the last,
\* which is still being written.
Scan ==
  LET from  == IF scan = NotScanning THEN Smaller(cursor, LastIndex) ELSE scan.at
      found == {i \in from..(LastIndex - 1) : Eligible(history[i + 1])}
  IN /\ At("scan")
     /\ \/ found = {} /\ Scanned
        \/ /\ found # {}
           /\ Enqueued(Min(found)) \/ Refused(Min(found))
           /\ UNCHANGED <<cursor, todo>>
     /\ Quietly /\ UNCHANGED <<logical, cache, completions, pending, worker>>

\* trim_front_page: a cold page is decoded first; one that is away cannot be.
Trimmed(p, k) ==
  [p EXCEPT !.kind = IF Hot(p) THEN @ ELSE "flat",
            !.rows = SubSeq(IF Hot(p) THEN @ ELSE p.packed, k + 1, p.lines),
            !.packed = <<>>, !.lines = @ - k, !.gen = @ + 1, !.pending = FALSE]

Trims(p, part) == part > 0 /\ ~Away(p)

\* enforce_max_lines: whole pages from the front while they fit the excess,
\* then the rest of it from the page that remains in front.
EnforcedWith(max) ==
  LET excess == logical - max
      whole  == Max({k \in 0..Len(history) : k = 0 \/ LinesBefore(k) <= excess})
      kept   == SubSeq(history, whole + 1, Len(history))
      rest   == excess - LinesBefore(whole)
      part   == IF kept # <<>> /\ Trims(kept[1], rest) THEN rest ELSE 0
  IN /\ history' = IF part > 0 THEN [kept EXCEPT ![1] = Trimmed(@, part)] ELSE kept
     /\ logical' = logical - LinesBefore(whole) - part
     /\ cursor' = IF cursor > whole THEN cursor - whole ELSE 0
     /\ cache' = IF part > 0 THEN NoPage ELSE cache

Enforce ==
  /\ At("enforce")
  /\ EnforcedWith(limit)
  /\ Done
  /\ Quietly /\ Local /\ UNCHANGED scan

\* apply_completion: by page id and generation; a page that has gone or has
\* changed since makes it stale.
Landed(p, c) ==
  IF p.id # c.page THEN p
  ELSE IF p.gen # c.gen THEN [p EXCEPT !.pending = FALSE]
  ELSE [p EXCEPT !.kind = "none", !.rows = <<>>, !.packed = c.rows,
                 !.pending = FALSE]

ApplyCompletion ==
  /\ completions # <<>>
  /\ history' = [i \in DOMAIN history |-> Landed(history[i], Head(completions))]
  /\ completions' = Tail(completions)
  /\ pending' = pending - 1
  /\ UNCHANGED <<jobs, queued, worker, logical, cursor, cache, scan>> /\ Quietly

\* apply_available_completions
Apply ==
  /\ At("apply")
  /\ \/ ApplyCompletion /\ UNCHANGED todo
     \/ /\ completions = <<>> /\ Done
        /\ Quietly /\ Local /\ UNCHANGED <<history, logical, cursor, cache, scan>>

\* The loop of drain_compression and drop: apply and yield while jobs are out.
\* Mutant: it waits without applying what is finished.
WaitIdly ==
  /\ At("wait") /\ queued = 0 /\ Done
  /\ Quietly /\ Local /\ UNCHANGED <<history, logical, cursor, cache, scan>>

WaitForJobs ==
  /\ At("wait")
  /\ \/ queued # 0 /\ ApplyCompletion /\ UNCHANGED todo
     \/ /\ queued = 0 /\ Done
        /\ Quietly /\ Local /\ UNCHANGED <<history, logical, cursor, cache, scan>>

\* quiesce_for_style_transaction: look at both counters, then block in recv.
Quiesce ==
  /\ At("quiesce")
  /\ todo' = IF queued = 0 /\ pending = 0 THEN Tail(todo)
             ELSE <<"recv", "apply">> \o todo
  /\ Quietly /\ Local /\ UNCHANGED <<history, logical, cursor, cache, scan>>

QuiesceRecv == At("recv") /\ ApplyCompletion /\ Done

\* collect_live_style_ids, stage_style_remap, commit_style_remap and
\* resume_style_transaction: refused before the first change, or every row of
\* every page renumbered; the scan starts over either way.
Again(s) == [i \in DOMAIN s |-> [s[i] EXCEPT !.style = @ + 1]]

Restyled(p) ==
  [p EXCEPT !.gen = @ + 1, !.pending = FALSE, !.rows = Again(@), !.packed = Again(@)]

Remap ==
  LET quiet   == queued = 0 /\ pending = 0 /\ \A i \in DOMAIN history : ~history[i].pending
      corrupt == \E i \in DOMAIN history : Away(history[i])
  IN /\ At("remap")
     /\ todo' = (IF quiet THEN <<"scan">> ELSE <<>>) \o Tail(todo)
     /\ cursor' = IF quiet THEN 0 ELSE cursor
     /\ \/ UNCHANGED <<history, cache, styles>>
        \/ /\ quiet /\ ~corrupt /\ styles < MaxStyles
           /\ history' = [i \in DOMAIN history |-> Restyled(history[i])]
           /\ styles' = styles + 1
           /\ cache' = NoPage
     /\ Local /\ UNCHANGED <<logical, nextId, limit, scan, arg, answer, fed, open>>

\* Mutant: the buffer of the page before is taken for this one.
CachedUndecoded(p) ==
  [page |-> p.id, gen |-> p.gen,
   rows |-> IF cache.page = 0 THEN p.packed ELSE cache.rows]

Cached(p) ==
  IF cache.page = p.id /\ cache.gen = p.gen THEN cache
  ELSE [page |-> p.id, gen |-> p.gen, rows |-> p.packed]

\* read_line, once the page is not away any more: a cold page is read through
\* the cache.
ReadLine ==
  LET p      == history[arg[1]]
      cached == Cached(p)
  IN /\ At("read")
     /\ cache' = IF Cold(p) THEN cached ELSE cache
     /\ answer' = IF Hot(p) THEN <<p.rows[arg[2]]>>
                  ELSE IF Cold(p) THEN <<cached.rows[arg[2]]>> ELSE <<NoRow>>
     /\ arg' = <<0, 0>>
     /\ Done
     /\ Local /\ UNCHANGED <<history, logical, nextId, cursor, limit, scan, fed, styles, open>>

\* JoinHandle::join in drop.
Join ==
  /\ At("join") /\ worker.pc = "gone"
  /\ Done
  /\ Quietly /\ Local /\ UNCHANGED <<history, logical, cursor, cache, scan>>

OwnerStep ==
  \/ \E w \in Widths : PushLine(w) \/ \E gen \in Generations : IngestRow(w, gen)
  \/ Scan \/ Enforce \/ Apply \/ WaitForJobs \/ Quiesce \/ QuiesceRecv \/ Remap
  \/ ReadLine \/ Join

-----------------------------------------------------------------------------
(* Calls *)

Times(n, step) == [i \in 1..n |-> step]
Call(steps)    == todo = <<>> /\ open /\ todo' = steps /\ answer' = <<>>
Room(n)        == fed + n <= MaxRows
Ingested(n)    == Times(n, "ingest") \o (IF n = 0 THEN <<>> ELSE <<"enforce">>)

\* Terminal::feed, one chunk: rows scrolled off the screen, then a poll.
Feed(n) ==
  /\ Room(n) /\ Call(Ingested(n) \o <<"apply", "scan">>)
  /\ Local
  /\ UNCHANGED <<history, logical, nextId, cursor, cache, limit, scan, arg, fed, styles, open>>

\* A screen of fewer rows: ingest_scrolled without a poll.
Shrink(n) ==
  /\ Room(n) /\ Call(Ingested(n))
  /\ Local
  /\ UNCHANGED <<history, logical, nextId, cursor, cache, limit, scan, arg, fed, styles, open>>

\* A taller screen of the same width: take_newest_hot_segmented_rows, whole
\* pages first, then part of one, from pages that are hot and of that width.
\* It takes no more rows than the screen gains, so none scrolls off again.
Loose(p, w) == p.kind = "segmented" /\ ~p.pending /\ p.packed = <<>> /\ p.cols = w

GrowScreen(k, w) ==
  LET start  == Max({0} \cup {i \in DOMAIN history : ~Loose(history[i], w)})
      taken  == Smaller(k, logical - LinesBefore(start))
      left   == logical - taken
      pages  == Min({i \in 0..Len(history) : LinesBefore(i) >= left})
      cut(i) == Smaller(history[i].lines, left - LinesBefore(i - 1))
      out    == FlattenSeq([i \in 1..(Len(history) - start) |-> history[start + i].rows])
  IN /\ taken > 0
     /\ todo = <<>> /\ open /\ UNCHANGED todo
     /\ answer' = SubSeq(out, Len(out) - taken + 1, Len(out))
     /\ history' = [i \in 1..pages |->
                      [history[i] EXCEPT !.lines = cut(i),
                         !.rows = IF i > start THEN SubSeq(@, 1, cut(i)) ELSE @]]
     /\ logical' = left /\ cache' = NoPage
     /\ cursor' = Smaller(cursor, pages)
     /\ Local /\ UNCHANGED <<nextId, limit, scan, arg, fed, styles, open>>

\* read_line: a page that is away is waited for (drain_compression).
Read(i, line) ==
  /\ i \in DOMAIN history /\ line \in 1..history[i].lines
  /\ Call((IF history[i].pending /\ Away(history[i])
           THEN <<"wait", "apply", "scan">> ELSE <<>>) \o <<"read">>)
  /\ arg' = <<i, line>>
  /\ Local
  /\ UNCHANGED <<history, logical, nextId, cursor, cache, limit, scan, fed, styles, open>>

\* CSI 3 J, and the start of a session restore, which then pushes its lines:
\* clear leaves the cursor where it was.
Clear(n) ==
  /\ Room(n) /\ Call(Times(n, "push"))
  /\ history' = <<>> /\ logical' = 0 /\ cache' = NoPage
  /\ Local /\ UNCHANGED <<nextId, cursor, limit, scan, arg, fed, styles, open>>

\* force_compact_styles, before a chunk is fed.
CompactStyles(n) ==
  /\ Room(n) /\ Call(Ingested(n) \o <<"quiesce", "apply", "remap">>)
  /\ Local
  /\ UNCHANGED <<history, logical, nextId, cursor, cache, limit, scan, arg, fed, styles, open>>

\* update_config; hot_page_lines is the same in every call of the program.
Relimit ==
  /\ Call(<<>>)
  /\ limit' \in Limits /\ EnforcedWith(limit')
  /\ Local /\ UNCHANGED <<nextId, scan, arg, fed, styles, open>>

\* Drop: job_tx is gone, then the worker is waited for.
DropStorage ==
  /\ Call(<<"wait", "join">>)
  /\ open' = FALSE
  /\ Local /\ UNCHANGED <<history, logical, nextId, cursor, cache, limit, scan, arg, fed, styles>>

NewCall ==
  \/ \E n \in 0..MaxBatch : Feed(n) \/ Clear(n) \/ CompactStyles(n)
  \/ \E n \in 1..MaxBatch : Shrink(n) \/ \E w \in Widths : GrowScreen(n, w)
  \/ \E i \in DOMAIN history, line \in 1..PageLines : Read(i, line)
  \/ Relimit \/ DropStorage

Next == Worker \/ OwnerStep \/ NewCall

Fairness == WF_vars(Worker) /\ WF_vars(OwnerStep)

Spec == Init /\ [][Next]_vars /\ Fairness

-----------------------------------------------------------------------------
(* Properties *)

\* Jobs queued, being compressed or done and not yet applied.
OnTheWay == ToSet(jobs) \cup ToSet(completions)
              \cup (IF worker.pc = "send" THEN {worker.job} ELSE {})
JobsOf(p) == {j \in OnTheWay : j.page = p.id /\ j.gen = p.gen}

\* Where the rows of a page are: with the page, or with the job made of it.
Contents(p) ==
  IF Hot(p) THEN p.rows
  ELSE IF Cold(p) THEN p.packed
  ELSE IF JobsOf(p) = {} THEN <<>>
  ELSE (CHOOSE j \in JobsOf(p) : TRUE).rows

Rows == FlattenSeq([i \in DOMAIN history |-> Contents(history[i])])

\* Types of every variable; the channels hold no more than their capacity.
TypeOK ==
  /\ history \in Seq(Page) /\ logical \in Nat /\ nextId \in Nat \ {0}
  /\ cursor \in Nat /\ limit \in Limits
  /\ todo \in Seq({"ingest", "push", "scan", "enforce", "apply", "wait", "quiesce",
                   "recv", "remap", "read", "join"})
  /\ scan \in [at : Int, failed : Int]
  /\ answer \in Seq(Row \cup {NoRow}) /\ fed \in 0..MaxRows /\ styles \in 0..MaxStyles
  /\ jobs \in Seq(Job) /\ Len(jobs) <= QueueCap
  /\ completions \in Seq(Job) /\ Len(completions) <= CompletionCap
  /\ queued \in Nat /\ pending \in Nat /\ open \in BOOLEAN
  /\ worker \in [pc : {"recv", "send", "sent", "gone"}, job : Job]

\* No page is without its rows: those of a page that was given to the worker
\* are in exactly one job, of the page's generation, and only such a page is
\* pending (the generation check of apply_completion never has to throw away
\* the only copy).  logical_lines, which readers and the limit go by, counts
\* the rows wherever they are.
EveryPageHasItsRows ==
  /\ \A i \in DOMAIN history :
       LET p == history[i]
       IN /\ p.pending <=> Away(p)
          /\ Away(p) => Cardinality(JobsOf(p)) = 1
          /\ Len(Contents(p)) = p.lines
  /\ logical = Len(Rows)

\* The limit is missed by less than a page, and by that only because the
\* front page was with the worker when it was enforced.
LimitHeld ==
  todo = <<>> /\ logical > limit =>
    /\ logical - limit < history[1].lines
    /\ Away(history[1]) \/ Cold(history[1])

\* "Pages before it are pending, cold, or already enqueued": between calls no
\* full page before enqueue_cursor is left for good.
CursorCovers ==
  todo = <<>> =>
    \A i \in 1..(Len(history) - 1) : i <= cursor => ~Eligible(history[i])

\* A wait for queued_jobs = 0 is a wait for the work itself: when it ends no
\* job is queued or held, and what it produced has been counted and sent.
CountersTellTheTruth ==
  /\ queued = Len(jobs) + (IF worker.pc \in {"send", "sent"} THEN 1 ELSE 0)
  /\ pending = Len(completions) + (IF worker.pc = "send" THEN 1 ELSE 0)

\* The pages hold what they should, the limit is kept, no page is forgotten
\* and the counters of the work under way are right.
PagesAreSound == TypeOK /\ EveryPageHasItsRows /\ LimitHeld /\ CursorCovers /\ CountersTellTheTruth

\* The place, among all rows, of the one the read under way asked for.
Asked == IF \E i \in DOMAIN todo : todo[i] = "read" THEN LinesBefore(arg[1] - 1) + arg[2] ELSE 0

\* Scrollback is the row log: whatever is enqueued, compressed, cached, evicted
\* or renumbered when, readers see the same rows, in the current style table,
\* and a read that waits for the worker is answered with the row at the place
\* it asked for, never with the cached one of another page; no row moves, goes
\* or comes while it waits.
Log == INSTANCE RowLog WITH rows <- Rows, asked <- Asked
IsARowLog == Log!Spec

\* A reader that waits for a page with the worker gets its row, and a dropped
\* storage does not wait for ever for a worker blocked by full channels.
CallsReturn == (todo # <<>> /\ Head(todo) \in {"wait", "join"}) ~> (todo = <<>>)

=============================================================================
