----------------------------- MODULE HistorySearch -----------------------------
(***************************************************************************)
(* Searching the history (history/search.rs) and its two clients: the      *)
(* background worker with its owner, cancel flag and generation token, and *)
(* the pane, which runs one slice of a search per pump (model/pane.rs).    *)
(*                                                                         *)
(* A line is [text, wrapped]: its cells and whether it goes on in the next *)
(* line.  A match is its place in the text the search reads.               *)
(***************************************************************************)
EXTENDS Integers, Sequences, SequencesExt, FiniteSetsExt

CONSTANTS
  Clients,    \* subset of {"worker", "pane"}
  Documents,  \* what there may be at first: [history, screen, corrupt]
  Feeds,      \* lines output may add
  Requests,   \* [needle, reverse, from, limit]; an empty needle stops the search
  Budget,     \* lines of a slice
  MaxToken,   \* bound: generation tokens handed out
  None

VARIABLES
  client,
  history, screen,          \* the lines
  corrupt,                  \* lines of the history whose page cannot be read
  \* the search that runs
  pc, job, scan,
  \* SearchWorker
  generation, cancel, shutdown,
  slot, mutex,              \* the pending request and who holds its lock
  reader,                   \* who holds the terminal's lock
  result,
  owner,                    \* where the worker's owner is
  asked,                    \* the token of the last search that was cancelled
  \* PaneModel
  pane                      \* [pending, matches, active]

text == <<history, screen, corrupt>>
worker == <<generation, cancel, shutdown, slot, mutex, reader, result, owner, asked>>
vars == <<client, text, pc, job, scan, worker, pane>>

Blank == " "
Spacer == "s"
EndOfLine == "|"

---------------------------------------------------------------------------------
(* One line of the search.                                                 *)

\* encode_row_with_map: blanks wait until a character follows them.
Encoded(cells, blanks) ==
  FoldLeft(LAMBDA acc, c : IF c = Blank THEN [acc EXCEPT !.blanks = @ + 1]
                           ELSE [out |-> acc.out \o [i \in 1..acc.blanks |-> Blank] \o <<c>>, blanks |-> 0],
           [out |-> <<>>, blanks |-> blanks], SelectSeq(cells, LAMBDA c : c # Spacer))

Total == Len(history) + Len(job.screen)
LineAt(n) == IF n < Len(history) THEN history[n + 1] ELSE job.screen[n - Len(history) + 1]
Readable(n) == ~(n < Len(history) /\ n \in corrupt)

\* Blanks of a line that goes on are carried into the next.
BlanksBefore(s) == IF s.joined THEN s.blanks ELSE 0

\* Of what was searched the window keeps what a match may still begin in,
\* by whole lines.
Bytes(entries) == FoldLeft(LAMBDA n, e : n + e, 0, entries)
Pruned(s, keep) ==
  LET excess == Len(s.window) - keep
      gone == Max({k \in 0..Len(s.entries) : k = 0 \/ Bytes(SubSeq(s.entries, 1, k)) <= excess})
      bytes == Bytes(SubSeq(s.entries, 1, gone))
  IN [s EXCEPT !.window = SubSeq(@, bytes + 1, Len(@)), !.entries = SubSeq(@, gone + 1, Len(@)),
               !.base = @ + bytes, !.from = Max({0, @ - bytes})]

WithLine(s, line) ==
  LET row == Encoded(line.text, BlanksBefore(s))
      ending == IF line.wrapped THEN <<>> ELSE <<EndOfLine>>
      entry == IF job.req.reverse THEN ending \o Reverse(row.out) ELSE row.out \o ending
      kept == Pruned(s, Len(job.req.needle) - 1)
  IN [kept EXCEPT !.window = @ \o entry, !.entries = Append(@, Len(entry)), !.blanks = row.blanks]

Needle == IF job.req.reverse THEN Reverse(job.req.needle) ELSE job.req.needle
FoundAt(window, from) ==
  {at \in from..(Len(window) - Len(Needle)) : SubSeq(window, at + 1, at + Len(Needle)) = Needle}

---------------------------------------------------------------------------------
(* search_core_range, a step at a time.                                    *)

\* A newer request waits; a lock held by someone else is taken for none.
Superseded == client = "worker" /\ mutex # "owner" /\ slot # None

NewScan(line) ==
  [line |-> line, window |-> <<>>, entries |-> <<>>, base |-> 0, from |-> 0, blanks |-> 0,
   joined |-> FALSE, matches |-> <<>>, lines |-> 0, cancelled |-> FALSE, truncated |-> FALSE,
   exhausted |-> FALSE]

\* Lines are counted against the budget; 0 is no budget.
Counted(lines) == Min({lines + 1, job.budget})

CheckLine ==
  /\ pc = "check"
  /\ pc' = IF scan.line < Total /\ ~Superseded THEN "flag" ELSE "outcome"
  /\ UNCHANGED <<client, text, job, scan, worker, pane>>

CheckCancel ==
  /\ pc = "flag"
  /\ scan' = [scan EXCEPT !.cancelled = cancel]
  /\ pc' = IF cancel THEN "outcome" ELSE "read"
  /\ UNCHANGED <<client, text, job, worker, pane>>

SkipLine ==
  /\ pc = "read" /\ ~Readable(scan.line)
  /\ scan' = [scan EXCEPT !.lines = Counted(@), !.joined = FALSE,
                          !.line = IF job.req.reverse THEN Max({0, @ - 1}) ELSE @ + 1]
  /\ pc' = "check"
  /\ UNCHANGED <<client, text, job, worker, pane>>

ReadLine ==
  /\ pc = "read" /\ Readable(scan.line)
  /\ scan' = WithLine(scan, LineAt(scan.line))
  /\ pc' = "find"
  /\ UNCHANGED <<client, text, job, worker, pane>>

FindMatch ==
  /\ pc = "find" /\ ~cancel /\ ~Superseded /\ FoundAt(scan.window, scan.from) # {}
  /\ LET at == Min(FoundAt(scan.window, scan.from))
         full == Len(scan.matches) + 1 >= job.limit
     IN /\ scan' = [scan EXCEPT !.matches = Append(@, scan.base + at), !.from = at + Len(Needle),
                                !.truncated = full]
        /\ pc' = IF full THEN "advance" ELSE "find"
  /\ UNCHANGED <<client, text, job, worker, pane>>

StopFinding ==
  /\ pc = "find" /\ (cancel \/ Superseded \/ FoundAt(scan.window, scan.from) = {})
  /\ scan' = [scan EXCEPT !.cancelled = cancel]
  /\ pc' = "advance"
  /\ UNCHANGED <<client, text, job, worker, pane>>

\* A slice ends only where a line does.
SliceEnds(s, line) == job.budget > 0 /\ s.lines + 1 >= job.budget /\ ~line.wrapped

Advance ==
  /\ pc = "advance"
  /\ LET line == LineAt(scan.line)
         first == job.req.reverse /\ scan.line = 0
         next == IF first THEN 0 ELSE IF job.req.reverse THEN scan.line - 1 ELSE scan.line + 1
         ends == ~first /\ SliceEnds(scan, line)
     IN /\ scan' = [scan EXCEPT !.lines = Counted(@), !.joined = line.wrapped, !.line = next,
                                !.exhausted = ends /\ next < Total]
        /\ pc' = IF first \/ ends \/ scan.truncated \/ scan.cancelled THEN "outcome" ELSE "check"
  /\ UNCHANGED <<client, text, job, worker, pane>>

Completed == ~scan.cancelled /\ ~scan.truncated /\ ~Superseded /\ ~scan.exhausted

---------------------------------------------------------------------------------
(* The worker's thread.                                                    *)

WorkerLocks ==
  /\ client = "worker" /\ pc = "want" /\ mutex = None
  /\ mutex' = "worker" /\ pc' = "have"
  /\ UNCHANGED <<client, text, job, scan, generation, cancel, shutdown, slot, reader, result, owner, asked, pane>>

WorkerWaits ==
  /\ pc = "have" /\ slot = None /\ ~shutdown
  /\ mutex' = None /\ pc' = "waiting"
  /\ UNCHANGED <<client, text, job, scan, generation, cancel, shutdown, slot, reader, result, owner, asked, pane>>

WorkerExits ==
  /\ pc = "have" /\ slot = None /\ shutdown
  /\ mutex' = None /\ pc' = "gone"
  /\ UNCHANGED <<client, text, job, scan, generation, cancel, shutdown, slot, reader, result, owner, asked, pane>>

\* Mutant: the job is marked with the generation it is taken at.
TokenWhenTaken(pending) == generation

\* A job's token is that of its request.
TokenOf(pending) == pending.token

WorkerTakes ==
  /\ pc = "have" /\ slot # None
  /\ job' = [slot EXCEPT !.token = TokenOf(slot)]
  /\ slot' = None /\ mutex' = None
  /\ pc' = IF slot.req.needle = <<>> THEN "want" ELSE "reader"
  /\ UNCHANGED <<client, text, scan, generation, cancel, shutdown, reader, result, owner, asked, pane>>

\* Mutant: the worker clears the flag for its new job.
WorkerBeginsUncancelled ==
  /\ client = "worker" /\ pc = "reader" /\ reader = None
  /\ reader' = "worker" /\ cancel' = FALSE
  /\ scan' = NewScan(Min({job.req.from, Total - 1})) /\ pc' = "check"
  /\ UNCHANGED <<client, text, job, generation, shutdown, slot, mutex, result, owner, asked, pane>>

\* The terminal is locked for the whole search.
WorkerBegins ==
  /\ client = "worker" /\ pc = "reader" /\ reader = None
  /\ reader' = "worker"
  /\ scan' = NewScan(Min({job.req.from, Total - 1})) /\ pc' = "check"
  /\ UNCHANGED <<client, text, job, generation, cancel, shutdown, slot, mutex, result, owner, asked, pane>>

WorkerEnds ==
  /\ client = "worker" /\ pc = "outcome"
  /\ job' = [job EXCEPT !.completed = Completed]
  /\ reader' = None /\ pc' = "publish"
  /\ UNCHANGED <<client, text, scan, generation, cancel, shutdown, slot, mutex, result, owner, asked, pane>>

WorkerPublishes ==
  /\ client = "worker" /\ pc = "publish"
  /\ result' = [token |-> job.token, req |-> job.req, matches |-> scan.matches, completed |-> job.completed]
  /\ pc' = "want" /\ job' = None /\ scan' = None
  /\ UNCHANGED <<client, text, generation, cancel, shutdown, slot, mutex, reader, owner, asked, pane>>

---------------------------------------------------------------------------------
(* Its owner.                                                              *)

OwnerIdle == client = "worker" /\ owner = None

StartResets ==
  /\ OwnerIdle /\ generation < MaxToken
  /\ \E req \in Requests : owner' = [at |-> "bump", req |-> req]
  /\ cancel' = FALSE
  /\ UNCHANGED <<client, text, pc, job, scan, generation, shutdown, slot, mutex, reader, result, asked, pane>>

StartBumps ==
  /\ owner # None /\ owner.at = "bump"
  /\ generation' = generation + 1
  /\ owner' = [owner EXCEPT !.at = "lock"]
  /\ UNCHANGED <<client, text, pc, job, scan, cancel, shutdown, slot, mutex, reader, result, asked, pane>>

StartLocks ==
  /\ owner # None /\ owner.at = "lock" /\ mutex = None
  /\ mutex' = "owner"
  /\ owner' = [owner EXCEPT !.at = "publish"]
  /\ UNCHANGED <<client, text, pc, job, scan, generation, cancel, shutdown, slot, reader, result, asked, pane>>

\* The newest request replaces the one that waits.
StartPublishes ==
  /\ owner # None /\ owner.at = "publish"
  /\ slot' = [token |-> generation, req |-> owner.req, screen |-> screen, limit |-> owner.req.limit,
              budget |-> 0, completed |-> FALSE]
  /\ pc' = IF pc = "waiting" THEN "want" ELSE pc
  /\ owner' = [owner EXCEPT !.at = "unlock"]
  /\ UNCHANGED <<client, text, job, scan, generation, cancel, shutdown, mutex, reader, result, asked, pane>>

StartReturns ==
  /\ owner # None /\ owner.at = "unlock"
  /\ mutex' = None /\ owner' = None
  /\ UNCHANGED <<client, text, pc, job, scan, generation, cancel, shutdown, slot, reader, result, asked, pane>>

\* By the owner, or through a handle while the reader reads a line.
Cancel ==
  /\ client = "worker" /\ (owner = None \/ pc = "read") /\ ~cancel
  /\ cancel' = TRUE
  /\ asked' = IF owner = None THEN generation ELSE asked
  /\ UNCHANGED <<client, text, pc, job, scan, generation, shutdown, slot, mutex, reader, result, owner, pane>>

Poll ==
  /\ OwnerIdle /\ result # None
  /\ result' = None
  /\ UNCHANGED <<client, text, pc, job, scan, generation, cancel, shutdown, slot, mutex, reader, owner, asked, pane>>

FeedBegins ==
  /\ OwnerIdle /\ generation < MaxToken
  /\ owner' = [at |-> "feed"]
  /\ UNCHANGED <<client, text, pc, job, scan, generation, cancel, shutdown, slot, mutex, reader, result, asked, pane>>

Scrolls ==
  /\ history' = Append(history, Head(screen))
  /\ \E line \in Feeds : screen' = Append(Tail(screen), line)
  /\ UNCHANGED corrupt

Feed ==
  /\ owner # None /\ owner.at = "feed" /\ reader = None
  /\ Scrolls
  /\ owner' = [at |-> "note"]
  /\ UNCHANGED <<client, pc, job, scan, generation, cancel, shutdown, slot, mutex, reader, result, asked, pane>>

NoteHistoryChanged ==
  /\ owner # None /\ owner.at = "note"
  /\ generation' = generation + 1
  /\ owner' = None
  /\ UNCHANGED <<client, text, pc, job, scan, cancel, shutdown, slot, mutex, reader, result, asked, pane>>

DropBegins ==
  /\ OwnerIdle
  /\ shutdown' = TRUE
  /\ owner' = [at |-> "wake"]
  /\ UNCHANGED <<client, text, pc, job, scan, generation, cancel, slot, mutex, reader, result, asked, pane>>

\* Mutant: nobody is told.
DropForgetsWorker ==
  /\ owner # None /\ owner.at = "wake" /\ mutex = None
  /\ owner' = [at |-> "join"]
  /\ UNCHANGED <<client, text, pc, job, scan, generation, cancel, shutdown, slot, mutex, reader, result, asked, pane>>

DropWakes ==
  /\ owner # None /\ owner.at = "wake" /\ mutex = None
  /\ pc' = IF pc = "waiting" THEN "want" ELSE pc
  /\ owner' = [at |-> "join"]
  /\ UNCHANGED <<client, text, job, scan, generation, cancel, shutdown, slot, mutex, reader, result, asked, pane>>

DropJoins ==
  /\ owner # None /\ owner.at = "join" /\ pc = "gone"
  /\ owner' = [at |-> "dropped"]
  /\ UNCHANGED <<client, text, pc, job, scan, generation, cancel, shutdown, slot, mutex, reader, result, asked, pane>>

---------------------------------------------------------------------------------
(* The pane: everything happens on its own thread.                         *)

PaneIdle == client = "pane" /\ pc = "idle"
Limit == 3
Room == Max({1, Limit - Len(pane.matches)})

\* A search that is done is cycled through, which changes nothing here.
PaneSearches ==
  /\ PaneIdle
  /\ \E req \in {r \in Requests : r.needle # <<>> /\ ~r.reverse} :
       /\ job' = [token |-> 0, req |-> req, screen |-> screen, limit |-> Limit, budget |-> Budget, completed |-> FALSE]
       /\ ~(pane.active /\ pane.req = req)
       /\ pane' = [pending |-> TRUE, matches |-> <<>>, active |-> FALSE, req |-> req, next |-> 0]
  /\ scan' = NewScan(0) /\ pc' = "check"
  /\ UNCHANGED <<client, text, worker>>

PaneAdvances ==
  /\ PaneIdle /\ pane.pending
  /\ job' = [job EXCEPT !.limit = Room]
  /\ scan' = NewScan(pane.next)
  /\ pc' = IF pane.next < Total THEN "check" ELSE "outcome"
  /\ UNCHANGED <<client, text, worker, pane>>

\* Where a line begins in the text the search reads.
Stream(lines) ==
  LET Trimmed(raw) == SubSeq(raw, 1, Max({i \in 0..Len(raw) : i = 0 \/ raw[i] # Blank}))
      whole == FoldLeft(LAMBDA acc, line :
                          LET raw == acc.raw \o SelectSeq(line.text, LAMBDA c : c # Spacer)
                          IN IF line.wrapped THEN [acc EXCEPT !.raw = raw]
                             ELSE [ready |-> acc.ready \o Trimmed(raw) \o <<EndOfLine>>, raw |-> <<>>],
                        [ready |-> <<>>, raw |-> <<>>], lines)
  IN whole.ready \o Trimmed(whole.raw)
ReadableLines(lines, from, to) ==
  FoldLeft(LAMBDA acc, n : IF n < Len(history) /\ n \in corrupt THEN acc ELSE Append(acc, lines[n + 1]),
           <<>>, [i \in 1..(to - from + 1) |-> from + i - 1])

PaneSliceEnds ==
  /\ client = "pane" /\ pc = "outcome"
  /\ LET before == Len(Stream(ReadableLines(history \o screen, 0, pane.next - 1)))
         matches == pane.matches \o [i \in DOMAIN scan.matches |-> before + scan.matches[i]]
         done == Completed \/ scan.truncated
     IN pane' = [pane EXCEPT !.matches = matches, !.pending = ~done, !.next = scan.line,
                             !.active = done /\ matches # <<>>]
  /\ pc' = "idle" /\ scan' = None
  /\ UNCHANGED <<client, text, job, worker>>

\* Output clears the search.
PaneOutput ==
  /\ PaneIdle /\ Len(history) < MaxToken
  /\ Scrolls
  /\ pane' = [pane EXCEPT !.pending = FALSE, !.matches = <<>>, !.active = FALSE, !.req = None]
  /\ UNCHANGED <<client, pc, job, scan, worker>>

---------------------------------------------------------------------------------

Init ==
  /\ client \in Clients
  /\ \E d \in Documents : history = d.history /\ screen = d.screen /\ corrupt = d.corrupt
  /\ pc = IF client = "worker" THEN "want" ELSE "idle"
  /\ job = None /\ scan = None
  /\ generation = 1 /\ cancel = FALSE /\ shutdown = FALSE /\ slot = None /\ mutex = None
  /\ reader = None /\ result = None /\ owner = None /\ asked = 0
  /\ pane = [pending |-> FALSE, matches |-> <<>>, active |-> FALSE, req |-> None, next |-> 0]

Search == CheckLine \/ CheckCancel \/ SkipLine \/ ReadLine \/ FindMatch \/ StopFinding \/ Advance
Worker == WorkerLocks \/ WorkerWaits \/ WorkerExits \/ WorkerTakes \/ WorkerBegins \/ WorkerEnds \/ WorkerPublishes
OwnerGoesOn ==
  StartBumps \/ StartLocks \/ StartPublishes \/ StartReturns \/ Feed \/ NoteHistoryChanged \/ DropWakes \/ DropJoins
Owner == StartResets \/ Cancel \/ Poll \/ FeedBegins \/ DropBegins
Pane == PaneSearches \/ PaneAdvances \/ PaneSliceEnds \/ PaneOutput

Next == Search \/ Worker \/ OwnerGoesOn \/ Owner \/ Pane

\* Threads run; nobody has to start, cancel or poll anything.
Spec == Init /\ [][Next]_vars /\ WF_vars(Search \/ Worker) /\ WF_vars(OwnerGoesOn)

---------------------------------------------------------------------------------
(* Properties.                                                             *)

\* What the text holds: matches do not overlap, the first one wins.
Occurrences(stream, needle) ==
  FoldLeft(LAMBDA acc, at : IF at >= acc.next /\ SubSeq(stream, at + 1, at + Len(needle)) = needle
                            THEN [next |-> at + Len(needle), found |-> Append(acc.found, at)] ELSE acc,
           [next |-> 0, found |-> <<>>], [i \in 1..(Len(stream) - Len(needle) + 1) |-> i - 1]).found

\* Read backwards, a search counts and prefers from the end.
Expected(req) ==
  LET lines == history \o screen
      from == Min({req.from, Len(lines) - 1})
  IN IF req.reverse THEN Occurrences(Reverse(Stream(ReadableLines(lines, 0, from))), Reverse(req.needle))
     ELSE Occurrences(Stream(ReadableLines(lines, from, Len(lines) - 1)), req.needle)

\* Backwards the code carries blanks from the wrong side of a wrap.
BlankAtWrap == \E i \in DOMAIN (history \o screen) :
  LET line == (history \o screen)[i] IN line.wrapped /\ Last(line.text) = Blank

\* A result that carries the current token and claims to be complete lists
\* exactly the matches of the text as it is now: no match of an older
\* text, of an older request or of a search that was broken off, however
\* starts, cancels, output and the worker's line steps interleave.
FreshResultIsRight ==
  OwnerIdle /\ result # None /\ result.token = generation /\ result.completed
    /\ ~(result.req.reverse /\ BlankAtWrap) =>
    result.matches = Expected(result.req)

\* The slices of a pane's search together find what one search would.
SlicesAddUp ==
  pane.req # None /\ PaneIdle /\ ~pane.pending /\ Len(pane.matches) < Limit =>
    pane.matches = Occurrences(Stream(ReadableLines(history \o screen, 0, Len(history \o screen) - 1)), pane.req.needle)

\* Neither the worker nor the pane's slices report anything but the matches.
ResultsAreRight == FreshResultIsRight /\ SlicesAddUp

\* A cancel of the current search is not lost: its next look at the flag
\* ends it, whenever it was taken from the slot.
CancelIsKept ==
  [][pc = "flag" /\ pc' = "read" /\ owner = None => ~(job.token = generation /\ asked = generation)]_vars

\* A backward search that comes to an unreadable first line never leaves it
\* by itself: a cancel or a newer request must end it.
Endless ==
  /\ pc \in {"check", "flag", "read"} /\ job.req.reverse /\ scan.line = 0
  /\ 0 \in corrupt /\ history # <<>>

\* Every request that reaches the slot is answered, under its own token and
\* even where it was cancelled or broken off, unless a newer one takes its
\* place there; output gets the terminal back from the search, and the owner
\* can drop the worker.  The exception is the search that is Endless.
SearchEnds ==
  /\ \A t \in 2..MaxToken :
       (slot # None /\ slot.token = t /\ slot.req.needle # <<>>) ~>
         (result # None /\ result.token = t) \/ (slot # None /\ slot.token > t) \/ Endless
  /\ owner # None /\ owner.at = "feed" ~> (owner # None /\ owner.at = "note") \/ Endless
  /\ owner # None /\ owner.at = "join" ~> (owner # None /\ owner.at = "dropped") \/ Endless
=================================================================================
