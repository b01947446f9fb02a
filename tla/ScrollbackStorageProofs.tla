----------------------- MODULE ScrollbackStorageProofs -----------------------
(***************************************************************************)
(* The scrollback storage, for every size of a page, of the worker's queue *)
(* and of the history: between the owner and its worker no row is lost,    *)
(* doubled or misplaced.  The worker's two channels are read as one queue  *)
(* of jobs (Way), on which each page that is away has exactly one job.     *)
(* The rows the caller gave are those of a log (RowLog): the second half   *)
(* of the module proves the refinement.                                    *)
(***************************************************************************)
EXTENDS ScrollbackStorage, FiniteSetTheorems, TLAPS

------------------------------------------------------------------------------
\* The lines of a queue of pages.

\* The lines of the first k pages of h.
LinesOf(h, k) ==
  LET sum[i \in 0..k] == IF i = 0 THEN 0 ELSE sum[i - 1] + h[i].lines
  IN  sum[k]
\* f is the running sum of the lines of h up to n.
IsSum(f, h, n) == f = [i \in 0..n |-> IF i = 0 THEN 0 ELSE f[i - 1] + h[i].lines]
\* A set of numbers has a least one.
LEMMA LeastNat ==
  ASSUME NEW T, T \subseteq Nat, T # {}
  PROVE  \E n \in T : \A m \in T : n <= m
<1> DEFINE Below == {1..n : n \in T}
           Under == StrictSubsetOrdering(Nat)
<1>1. Below \subseteq FiniteSubsetsOf(Nat)
  <2> SUFFICES ASSUME NEW n \in T PROVE 1..n \in FiniteSubsetsOf(Nat)
    OBVIOUS
  <2>1. IsFiniteSet(1..n)
    BY FS_Interval
  <2> QED
    BY <2>1 DEF FiniteSubsetsOf
<1>2. Below # {} /\ IsWellFoundedOn(Under, FiniteSubsetsOf(Nat))
  BY FS_StrictSubsetOrderingWellFounded
<1>3. PICK x \in Below : \A y \in Below : ~(<<y, x>> \in Under)
  <2> HIDE DEF Below, Under
  <2> QED
    BY <1>1, <1>2, WFMin
<1>4. PICK n \in T : x = 1..n
  OBVIOUS
<1>5. ASSUME NEW m \in T PROVE n <= m
  <2>1. ~(<<1..m, 1..n>> \in Under)
    BY <1>3, <1>4
  <2>2. m < n => 1..m \subseteq 1..n /\ n \in 1..n /\ n \notin 1..m
    OBVIOUS
  <2>3. m < n => 1..m \subseteq 1..n /\ 1..m # 1..n
    BY <2>2
  <2>4. 1..m \in SUBSET Nat /\ 1..n \in SUBSET Nat
    OBVIOUS
  <2>5. ~(m < n)
    BY <2>1, <2>3, <2>4 DEF StrictSubsetOrdering
  <2> QED
    BY <2>5
<1> QED
  BY <1>5

\* The running sum is a function.
LEMMA SumExists == ASSUME NEW h, NEW n \in Nat PROVE \E f : IsSum(f, h, n)
<1> DEFINE Bad == {m \in Nat : ~\E f : IsSum(f, h, m)}
<1>1. SUFFICES ASSUME Bad # {} PROVE FALSE
  OBVIOUS
<1>3. PICK m \in Bad : \A k \in Bad : m <= k
  BY <1>1, LeastNat
<1>4. CASE m = 0
  <2>1. IsSum([i \in 0..0 |-> 0], h, 0)
    BY DEF IsSum
  <2> QED
    BY <1>3, <1>4, <2>1
<1>5. CASE m # 0
  <2>1. m - 1 \in Nat /\ m - 1 \notin Bad
    BY <1>3, <1>5
  <2>2. PICK g : IsSum(g, h, m - 1)
    BY <2>1
  <2> DEFINE e == [i \in 0..m |-> IF i = m THEN g[m - 1] + h[m].lines ELSE g[i]]
  <2>3. \A i \in 0..(m - 1) : e[i] = g[i] /\ g[i] = IF i = 0 THEN 0 ELSE g[i - 1] + h[i].lines
    BY <1>5, <2>1, <2>2 DEF IsSum
  <2>4. \A i \in 0..m : e[i] = IF i = 0 THEN 0 ELSE e[i - 1] + h[i].lines
    <3> SUFFICES ASSUME NEW i \in 0..m PROVE e[i] = IF i = 0 THEN 0 ELSE e[i - 1] + h[i].lines
      OBVIOUS
    <3>1. CASE i = m
      BY <1>5, <2>1, <2>3, <3>1
    <3>2. CASE i # m
      <4>1. i \in 0..(m - 1) /\ (i # 0 => i - 1 \in 0..(m - 1))
        BY <2>1, <3>2
      <4> HIDE DEF e
      <4> QED
        BY <2>3, <4>1
    <3> QED
      BY <3>1, <3>2
  <2>5. IsSum(e, h, m)
    BY <2>4 DEF IsSum
  <2> QED
    BY <1>3, <2>5
<1> QED
  BY <1>4, <1>5

\* LinesOf is the last value of the running sum.
LEMMA LinesSum ==
  ASSUME NEW h, NEW n \in Nat PROVE \E f : IsSum(f, h, n) /\ LinesOf(h, n) = f[n]
<1> DEFINE p == CHOOSE f : IsSum(f, h, n)
<1>1. LinesOf(h, n) = p[n]
  BY DEF LinesOf, IsSum
<1>2. IsSum(p, h, n)
  BY SumExists
<1> QED
  BY <1>1, <1>2

\* How the running sum starts and goes on.
LEMMA SumStep ==
  ASSUME NEW h, NEW n \in Nat, NEW f, IsSum(f, h, n)
  PROVE  f[0] = 0 /\ \A i \in 1..n : f[i] = f[i - 1] + h[i].lines
  BY DEF IsSum

\* Two queues with the same lengths have the same running sum.
LEMMA SumAgree ==
  ASSUME NEW h, NEW g, NEW m \in Nat, NEW n \in Nat, NEW f, IsSum(f, h, m), NEW e,
         IsSum(e, g, n),
         NEW k \in Nat, k <= m, k <= n, \A i \in 1..k : h[i].lines = g[i].lines
  PROVE  f[k] = e[k]
<1> DEFINE Bad == {i \in 0..k : f[i] # e[i]}
<1>1. SUFFICES ASSUME Bad # {} PROVE FALSE
  OBVIOUS
<1>2. PICK i \in Bad : \A j \in Bad : i <= j
  <2>1. Bad \subseteq Nat
    OBVIOUS
  <2> HIDE DEF Bad
  <2> QED
    BY <1>1, <2>1, LeastNat
<1>3. i \in 0..k /\ f[i] # e[i]
  BY <1>2
<1>4. i # 0
  BY <1>3, SumStep
<1>5. i - 1 \in 0..k /\ i \in 1..k /\ i \in 1..m /\ i \in 1..n /\ i - 1 \notin Bad
  BY <1>2, <1>3, <1>4
<1>6. f[i - 1] = e[i - 1] /\ h[i].lines = g[i].lines
  BY <1>5
<1>7. f[i] = f[i - 1] + h[i].lines /\ e[i] = e[i - 1] + g[i].lines
  BY <1>5, SumStep
<1> QED
  BY <1>3, <1>6, <1>7

\* LinesOf looks only at the pages it counts.
LEMMA LinesSame ==
  ASSUME NEW h, NEW g, NEW k \in Nat, \A i \in 1..k : h[i].lines = g[i].lines
  PROVE  LinesOf(h, k) = LinesOf(g, k)
<1>1. PICK f : IsSum(f, h, k) /\ LinesOf(h, k) = f[k]
  BY LinesSum
<1>2. PICK e : IsSum(e, g, k) /\ LinesOf(g, k) = e[k]
  BY LinesSum
<1>3. k <= k
  OBVIOUS
<1> QED
  BY <1>1, <1>2, <1>3, SumAgree

\* LinesOf starts at zero and adds one page at a time.
LEMMA LinesStep ==
  ASSUME NEW h
  PROVE  LinesOf(h, 0) = 0 /\ \A k \in Nat : k # 0 => LinesOf(h, k) = LinesOf(h, k - 1) + h[k].lines
<1>1. LinesOf(h, 0) = 0
  <2>1. 0 \in Nat
    OBVIOUS
  <2>2. PICK f : IsSum(f, h, 0) /\ LinesOf(h, 0) = f[0]
    BY <2>1, LinesSum
  <2> QED
    BY <2>1, <2>2, SumStep
<1>2. ASSUME NEW k \in Nat, k # 0 PROVE LinesOf(h, k) = LinesOf(h, k - 1) + h[k].lines
  <2>1. PICK f : IsSum(f, h, k) /\ LinesOf(h, k) = f[k]
    BY LinesSum
  <2>2. k - 1 \in Nat /\ k - 1 <= k /\ k - 1 <= k - 1 /\ k \in 1..k
    BY <1>2
  <2>3. PICK e : IsSum(e, h, k - 1) /\ LinesOf(h, k - 1) = e[k - 1]
    BY <2>2, LinesSum
  <2>4. f[k - 1] = e[k - 1]
    BY <2>1, <2>2, <2>3, SumAgree
  <2>5. f[k] = f[k - 1] + h[k].lines
    BY <2>1, <2>2, SumStep
  <2> QED
    BY <2>1, <2>3, <2>4, <2>5
<1> QED
  BY <1>1, <1>2

\* Pages have at least one line.
Sized(h, n) == \A i \in 1..n : h[i].lines \in Nat \ {0}

\* The lines of some pages are a number.
LEMMA LinesType ==
  ASSUME NEW h, NEW n \in Nat, Sized(h, n)
  PROVE  \A k \in 0..n : LinesOf(h, k) \in Nat
<1> DEFINE Bad == {i \in 0..n : LinesOf(h, i) \notin Nat}
<1>1. SUFFICES ASSUME Bad # {} PROVE FALSE
  OBVIOUS
<1>2. PICK i \in Bad : \A j \in Bad : i <= j
  <2>1. Bad \subseteq Nat
    OBVIOUS
  <2> HIDE DEF Bad
  <2> QED
    BY <1>1, <2>1, LeastNat
<1>3. i \in 0..n /\ LinesOf(h, i) \notin Nat
  BY <1>2
<1>4. i # 0
  BY <1>3, LinesStep
<1>5. i - 1 \in 0..n /\ i \in 1..n /\ i - 1 \notin Bad
  BY <1>2, <1>3, <1>4
<1>6. LinesOf(h, i - 1) \in Nat
  BY <1>5
<1>7. LinesOf(h, i) = LinesOf(h, i - 1) + h[i].lines
  BY <1>3, <1>4, LinesStep
<1>8. h[i].lines \in Nat
  BY <1>5 DEF Sized
<1> QED
  BY <1>3, <1>6, <1>7, <1>8

\* More pages have more lines.
LEMMA LinesGrow ==
  ASSUME NEW h, NEW n \in Nat, Sized(h, n)
  PROVE  \A j, k \in 0..n : j < k => LinesOf(h, j) < LinesOf(h, k)
<1> SUFFICES ASSUME NEW j \in 0..n PROVE \A k \in 0..n : j < k => LinesOf(h, j) < LinesOf(h, k)
  OBVIOUS
<1> DEFINE Bad == {i \in 0..n : j < i /\ ~(LinesOf(h, j) < LinesOf(h, i))}
<1>1. SUFFICES ASSUME Bad # {} PROVE FALSE
  OBVIOUS
<1>2. PICK i \in Bad : \A l \in Bad : i <= l
  <2>1. Bad \subseteq Nat
    OBVIOUS
  <2> HIDE DEF Bad
  <2> QED
    BY <1>1, <2>1, LeastNat
<1>3. i \in 0..n /\ j < i /\ ~(LinesOf(h, j) < LinesOf(h, i))
  BY <1>2
<1>5. i - 1 \in 0..n /\ i \in 1..n /\ i # 0 /\ i \in Nat /\ i - 1 \notin Bad
  BY <1>2, <1>3
<1>6. i - 1 = j \/ LinesOf(h, j) < LinesOf(h, i - 1)
  BY <1>3, <1>5
<1>7. LinesOf(h, i) = LinesOf(h, i - 1) + h[i].lines
  BY <1>5, LinesStep
<1>8. h[i].lines \in Nat \ {0}
  BY <1>5 DEF Sized
<1>9. LinesOf(h, i) \in Nat /\ LinesOf(h, j) \in Nat /\ LinesOf(h, i - 1) \in Nat
  BY <1>5, <1>3, LinesType
<1> QED
  BY <1>3, <1>6, <1>7, <1>8, <1>9

\* g is h without its first m pages and the first d lines of the next.
CutLines(h, g, m, n, d) ==
  /\ n # 0 => g[1].lines = h[m + 1].lines - d
  /\ \A i \in 2..n : g[i].lines = h[m + i].lines

\* The lines of the pages left after an eviction from the front.
LEMMA LinesCut ==
  ASSUME NEW h, NEW m \in Nat, NEW n \in Nat, Sized(h, m + n),
         NEW g, NEW d \in Nat, CutLines(h, g, m, n, d)
  PROVE  \A k \in 1..n : LinesOf(g, k) = LinesOf(h, m + k) - LinesOf(h, m) - d
<1>0. /\ n # 0 => g[1].lines = h[m + 1].lines - d
      /\ \A i \in 2..n : g[i].lines = h[m + i].lines
  BY DEF CutLines
<1> DEFINE Bad == {i \in 1..n : LinesOf(g, i) # LinesOf(h, m + i) - LinesOf(h, m) - d}
<1>1. SUFFICES ASSUME Bad # {} PROVE FALSE
  OBVIOUS
<1>2. PICK i \in Bad : \A l \in Bad : i <= l
  <2>1. Bad \subseteq Nat
    OBVIOUS
  <2> HIDE DEF Bad
  <2> QED
    BY <1>1, <2>1, LeastNat
<1>3. i \in 1..n /\ LinesOf(g, i) # LinesOf(h, m + i) - LinesOf(h, m) - d
  BY <1>2
<1>4. i \in Nat /\ i # 0 /\ n # 0 /\ m + i \in Nat /\ m + i # 0 /\ (m + i) - 1 = m + (i - 1)
      /\ m + i \in 1..(m + n) /\ m + i \in 0..(m + n) /\ m \in 0..(m + n)
      /\ m + (i - 1) \in 0..(m + n)
  BY <1>3
<1>5. LinesOf(g, i) = LinesOf(g, i - 1) + g[i].lines
  BY <1>4, LinesStep
<1>6. LinesOf(h, m + i) = LinesOf(h, m + (i - 1)) + h[m + i].lines
  BY <1>4, LinesStep
<1>7. /\ LinesOf(h, m + i) \in Nat /\ LinesOf(h, m) \in Nat /\ LinesOf(h, m + (i - 1)) \in Nat
      /\ h[m + i].lines \in Nat
  <2>1. m + n \in Nat
    OBVIOUS
  <2>2. h[m + i].lines \in Nat
    BY <1>4 DEF Sized
  <2> QED
    BY <1>4, <2>1, <2>2, LinesType
<1>8. CASE i = 1
  <2>1. LinesOf(g, 0) = 0 /\ i - 1 = 0 /\ m + (i - 1) = m /\ m + i = m + 1
    BY <1>8, LinesStep
  <2>2. LinesOf(g, i) = g[1].lines /\ g[1].lines = h[m + 1].lines - d
    BY <1>0, <1>4, <1>5, <1>7, <1>8, <2>1
  <2>3. LinesOf(h, m + i) = LinesOf(h, m) + h[m + 1].lines
    BY <1>6, <2>1
  <2>4. h[m + 1].lines \in Nat
    BY <1>7, <2>1
  <2> HIDE DEF Bad
  <2> QED
    BY <1>3, <1>7, <2>2, <2>3, <2>4
<1>9. CASE i # 1
  <2>1. i - 1 \in 1..n /\ i \in 2..n /\ ~(i <= i - 1)
    BY <1>3, <1>9
  <2>2. i - 1 \notin Bad
    BY <1>2, <2>1
  <2>3. LinesOf(g, i - 1) = LinesOf(h, m + (i - 1)) - LinesOf(h, m) - d
    BY <2>1, <2>2
  <2>4. g[i].lines = h[m + i].lines
    BY <1>0, <2>1
  <2> HIDE DEF Bad
  <2> QED
    BY <1>3, <1>5, <1>6, <1>7, <2>3, <2>4
<1> QED
  BY <1>8, <1>9

\* The greatest and the least number of a kind up to n.
\* A set of numbers up to a bound has a greatest one.
LEMMA MaxExists ==
  ASSUME NEW n \in Nat, NEW S, S \subseteq 0..n, S # {}
  PROVE  Max(S) \in S /\ \A y \in S : Max(S) >= y
<1> DEFINE T == {n - x : x \in S}
<1>1. T \subseteq Nat /\ T # {}
  <2>1. ASSUME NEW x \in S PROVE n - x \in Nat
    <3>1. x \in 0..n
      OBVIOUS
    <3> QED
      BY <3>1
  <2>2. PICK x \in S : TRUE
    OBVIOUS
  <2>3. n - x \in T
    OBVIOUS
  <2> QED
    BY <2>1, <2>3
<1>2. PICK t \in T : \A y \in T : t <= y
  <2> HIDE DEF T
  <2> QED
    BY <1>1, LeastNat
<1>3. PICK x \in S : t = n - x
  BY <1>2
<1>4. \A y \in S : x >= y
  <2> SUFFICES ASSUME NEW y \in S PROVE x >= y
    OBVIOUS
  <2>1. n - x <= n - y
    BY <1>2, <1>3
  <2>2. x \in Nat /\ y \in Nat
    OBVIOUS
  <2> QED
    BY <2>1, <2>2
<1> QED
  BY <1>4 DEF Max

\* The least number of a set is in it.
LEMMA MinExists ==
  ASSUME NEW S, S \subseteq Nat, S # {}
  PROVE  Min(S) \in S /\ \A y \in S : Min(S) <= y
  BY LeastNat DEF Min

------------------------------------------------------------------------------
\* The inductive invariant.

\* The completions, the job the worker holds and the jobs: one line, oldest first.
Way == completions \o (IF worker.pc = "send" THEN <<worker.job>> ELSE <<>>) \o jobs

\* Rows in the current numbering of styles.
Coded(rows, s) == \A i \in DOMAIN rows : rows[i].style = s

\* What is right about one page, in each of its three states.
PageOK(p, s) ==
  /\ Hot(p)  => Len(p.rows) = p.lines /\ p.packed = <<>> /\ ~p.pending
  /\ Cold(p) => Len(p.packed) = p.lines /\ ~p.pending
  /\ Away(p) => p.pending
  /\ Coded(p.rows, s) /\ Coded(p.packed, s)

\* The pages, their ids and their order: n is the next id.
PagesFit(h, n, s) ==
  /\ \A i \in DOMAIN h : PageOK(h[i], s) /\ h[i].id \in 1..(n - 1)
  /\ \A i, k \in DOMAIN h : i < k => h[i].id < h[k].id

\* Job j brings all the rows of page p.
Carries(j, p) == Away(p) /\ j.gen = p.gen /\ Len(j.rows) = p.lines

\* A page that is away has one job on the line, and no other page has one; the
\* jobs of pages that are gone carry ids no page will have again.
JobsFit(w, h, n, s) ==
  /\ \A m \in DOMAIN w : w[m].page \in 1..(n - 1) /\ Coded(w[m].rows, s)
  /\ \A m, l \in DOMAIN w : w[m].page = w[l].page => m = l
  /\ \A m \in DOMAIN w, i \in DOMAIN h : w[m].page = h[i].id => Carries(w[m], h[i])
  /\ \A i \in DOMAIN h : Away(h[i]) => \E m \in DOMAIN w : w[m].page = h[i].id

\* The cached page is the page it names, or no longer any page.
CacheFits(c, h, n) ==
  /\ c.page \in 0..(n - 1)
  /\ \A i \in DOMAIN h : c.page = h[i].id /\ c.gen = h[i].gen =>
       Cold(h[i]) /\ c.rows = h[i].packed

\* The pages, the line and the cache agree.
Stored(h, w, c, n, s) == PagesFit(h, n, s) /\ JobsFit(w, h, n, s) /\ CacheFits(c, h, n)

\* Of the storage as it is.
StoredOK == Stored(history, Way, cache, nextId, styles)

\* The steps that add a row.
Adds == {"ingest", "push"}
\* What the plan still adds fits; the steps that add come one after the other.
AddsFit(t, n) ==
  \E a, k \in Nat : n + k <= MaxRows /\ \A i \in DOMAIN t : t[i] \in Adds => a < i /\ i <= a + k

\* The plan has this step.
Within(step, t) == \E i \in DOMAIN t : t[i] = step

\* After every ingest the plan enforces the limit.
EnforcedAfter(t) == \A i \in DOMAIN t : t[i] = "ingest" => \E m \in DOMAIN t : m > i /\ t[m] = "enforce"

\* What is left of the plan of a read.
ReadTails == {<<"wait", "apply", "scan", "read">>, <<"apply", "scan", "read">>,
              <<"scan", "read">>, <<"read">>}

\* A read reads a line that is there, of a page that is back by then.
ReadOK ==
  Within("read", todo) =>
    /\ todo \in ReadTails
    /\ arg[1] \in DOMAIN history /\ arg[2] \in 1..history[arg[1]].lines
    /\ Head(todo) # "read" => ~Hot(history[arg[1]])
    /\ Head(todo) = "apply" => queued = 0
    /\ Head(todo) \in {"scan", "read"} => ~Away(history[arg[1]])

\* A scan goes on only while it is the step to do, and failed before where it is.
ScanOK == scan # NotScanning =>
  At("scan") /\ scan.at \in 0..Len(history) /\ scan.failed \in -1..(scan.at - 1)

\* The plan of the call under way.
TodoOK == AddsFit(todo, fed) /\ EnforcedAfter(todo) /\ ReadOK /\ ScanOK

\* When an ingest or a push is not under way, the history exceeds its limit by
\* less than its first page, which then is not hot.
LimitOK ==
  logical > limit /\ ~Within("enforce", todo) /\ ~Within("push", todo) =>
    logical - limit < history[1].lines /\ ~Hot(history[1])

\* No page before k that is not the last is still to be sent.
Sealed(h, k) == \A i \in 1..(Len(h) - 1) : i <= k => ~Eligible(h[i])

\* The cursor never skips a page that is to be sent.
CursorOK ==
  /\ Sealed(history, cursor)
  /\ scan # NotScanning => Sealed(history, IF scan.failed = -1 THEN scan.at ELSE scan.failed)
  /\ Within("push", todo) =>
       history = <<>> \/ cursor < Len(history) \/ (Len(history) = 1 /\ At("scan"))

\* The counter of rows.
LogicalOK == logical = LinesOf(history, Len(history))

\* The inductive invariant.
IInv == TypeOK /\ CountersTellTheTruth /\ StoredOK /\ TodoOK /\ LimitOK /\ CursorOK /\ LogicalOK

------------------------------------------------------------------------------
\* Pages and the storage: what each change of a page keeps.

\* The queue of pages after a completion.
LandedAll(h, j) == [i \in DOMAIN h |-> Landed(h[i], j)]

\* Only a page that was away can be another one in g.
OnlyLanded(h, g) ==
  \A i \in DOMAIN h : /\ g[i].lines = h[i].lines /\ g[i].gen = h[i].gen /\ g[i].id = h[i].id
                      /\ Hot(g[i]) => g[i] = h[i]
                      /\ Hot(h[i]) => g[i] = h[i]
                      /\ Cold(h[i]) => g[i] = h[i]
                      /\ Away(g[i]) => g[i] = h[i]

\* Page k of h is away in g, and nothing else changed.
Leaves(h, g, k) ==
  /\ Hot(h[k]) /\ Away(g[k]) /\ g[k].id = h[k].id /\ g[k].gen = h[k].gen
  /\ g[k].lines = h[k].lines
  /\ DOMAIN g = DOMAIN h /\ \A i \in DOMAIN h : i # k => g[i] = h[i]

\* v is w and one more job, made of page p.
OneMore(w, v, p) ==
  \E l \in Nat :
    /\ DOMAIN w = 1..l /\ DOMAIN v = 1..(l + 1) /\ \A m \in 1..l : v[m] = w[m]
    /\ v[l + 1].page = p.id /\ v[l + 1].gen = p.gen /\ v[l + 1].rows = p.rows

\* The line, from its three parts.
Line(c, m, q) == (c \o m) \o q

\* The steps of a plan.
Steps == {"ingest", "push", "scan", "enforce", "apply", "wait", "quiesce", "recv", "remap", "read", "join"}

\* q is p as far as the jobs are concerned.
Stays(p, q, s) ==
  /\ q.id = p.id /\ PageOK(q, s) /\ (Away(q) <=> Away(p))
  /\ Away(p) => q.gen = p.gen /\ q.lines = p.lines
\* q is p as far as the cache is concerned.
CacheSafe(p, q) == q.gen = p.gen /\ (Cold(p) => Cold(q) /\ q.packed = p.packed)

\* The empty cache is always right.
LEMMA NoPageFits ==
  ASSUME NEW h, NEW n \in Nat \ {0}, NEW s, PagesFit(h, n, s) PROVE CacheFits(NoPage, h, n)
<1>1. NoPage.page = 0
  BY DEF NoPage
<1>2. \A i \in DOMAIN h : h[i].id # 0
  BY DEF PagesFit
<1> QED
  BY <1>1, <1>2 DEF CacheFits

\* The storage stays right when every page kept is what it was to the jobs; the
\* cache too, when its page is what it was.
LEMMA StoredDerived ==
  ASSUME NEW h \in Seq(Page), NEW g \in Seq(Page), NEW w, NEW c, NEW n \in Nat \ {0}, NEW s,
         Stored(h, w, c, n, s), NEW off \in Nat,
         \A i \in DOMAIN g : i + off \in DOMAIN h /\ Stays(h[i + off], g[i], s)
  PROVE  /\ Stored(g, w, NoPage, n, s)
         /\ (\A i \in DOMAIN g : CacheSafe(h[i + off], g[i])) => Stored(g, w, c, n, s)
<1>1. PagesFit(g, n, s)
  <2>1. \A i \in DOMAIN g : PageOK(g[i], s) /\ g[i].id \in 1..(n - 1)
    BY DEF Stored, PagesFit, Stays
  <2>2. ASSUME NEW i \in DOMAIN g, NEW k \in DOMAIN g, i < k PROVE g[i].id < g[k].id
    <3>1. /\ i + off \in DOMAIN h /\ k + off \in DOMAIN h /\ g[i].id = h[i + off].id
          /\ g[k].id = h[k + off].id
      BY DEF Stays
    <3>2. i + off < k + off
      BY <2>2
    <3> QED
      BY <3>1, <3>2 DEF Stored, PagesFit
  <2> QED
    BY <2>1, <2>2 DEF PagesFit
<1>2. JobsFit(w, g, n, s)
  <2>1. ASSUME NEW m \in DOMAIN w, NEW i \in DOMAIN g, w[m].page = g[i].id
        PROVE  Carries(w[m], g[i])
    <3>1. i + off \in DOMAIN h /\ Stays(h[i + off], g[i], s)
      OBVIOUS
    <3>2. Carries(w[m], h[i + off])
      BY <2>1, <3>1 DEF Stored, JobsFit, Stays
    <3> QED
      BY <3>1, <3>2 DEF Carries, Stays
  <2>2. ASSUME NEW i \in DOMAIN g, Away(g[i]) PROVE \E m \in DOMAIN w : w[m].page = g[i].id
    <3>1. i + off \in DOMAIN h /\ Stays(h[i + off], g[i], s)
      OBVIOUS
    <3>2. Away(h[i + off]) /\ g[i].id = h[i + off].id
      BY <2>2, <3>1 DEF Stays
    <3> QED
      BY <3>1, <3>2 DEF Stored, JobsFit
  <2>3. JobsFit(w, h, n, s)
    BY DEF Stored
  <2> QED
    BY <2>1, <2>2, <2>3 DEF JobsFit
<1>3. ASSUME \A i \in DOMAIN g : CacheSafe(h[i + off], g[i])
      PROVE  CacheFits(c, g, n)
  <2>1. ASSUME NEW i \in DOMAIN g, c.page = g[i].id, c.gen = g[i].gen
        PROVE  Cold(g[i]) /\ c.rows = g[i].packed
    <3>1. i + off \in DOMAIN h /\ CacheSafe(h[i + off], g[i]) /\ g[i].id = h[i + off].id
      BY <1>3 DEF Stays
    <3>2. Cold(h[i + off]) /\ c.rows = h[i + off].packed
      BY <2>1, <3>1 DEF Stored, CacheFits, CacheSafe
    <3> QED
      BY <3>1, <3>2 DEF CacheSafe
  <2> QED
    BY <2>1 DEF Stored, CacheFits
<1> QED
  BY <1>1, <1>2, <1>3, NoPageFits DEF Stored

\* A new page goes to the back under a new id.
LEMMA StoredNewPage ==
  ASSUME NEW h \in Seq(Page), NEW p \in Page, NEW w, NEW c, NEW n \in Nat \ {0}, NEW s,
         Stored(h, w, c, n, s), PageOK(p, s), Hot(p), p.id = n
  PROVE  Stored(Append(h, p), w, c, n + 1, s) /\ Stored(Append(h, p), w, NoPage, n + 1, s)
<1> DEFINE g == Append(h, p)
           l == Len(h)
<1>1. l \in Nat /\ DOMAIN h = 1..l /\ DOMAIN g = 1..(l + 1) /\ g[l + 1] = p /\ \A i \in 1..l : g[i] = h[i]
  OBVIOUS
<1> HIDE DEF g, l
<1>2. \A i \in DOMAIN g : i = l + 1 \/ i \in DOMAIN h
  BY <1>1
<1>3. \A i \in DOMAIN h : h[i].id \in 1..(n - 1)
  BY DEF Stored, PagesFit
<1>4. PagesFit(g, n + 1, s)
  <2>1. ASSUME NEW i \in DOMAIN g PROVE PageOK(g[i], s) /\ g[i].id \in 1..n
    BY <1>1, <1>2, <1>3 DEF Stored, PagesFit
  <2>2. ASSUME NEW i \in DOMAIN g, NEW k \in DOMAIN g, i < k PROVE g[i].id < g[k].id
    <3>1. i \in DOMAIN h /\ g[i] = h[i]
      BY <1>1, <2>2
    <3>2. CASE k = l + 1
      BY <1>1, <1>3, <3>1, <3>2
    <3>3. CASE k \in DOMAIN h
      BY <1>1, <2>2, <3>1, <3>3 DEF Stored, PagesFit
    <3> QED
      BY <1>2, <3>2, <3>3
  <2>3. (n + 1) - 1 = n
    OBVIOUS
  <2> QED
    BY <2>1, <2>2, <2>3 DEF PagesFit
<1>5. ~Away(p) /\ ~Cold(p)
  BY DEF Hot, Away, Cold
<1>6. JobsFit(w, g, n + 1, s)
  <2>1. JobsFit(w, h, n, s)
    BY DEF Stored
  <2>2. \A m \in DOMAIN w : w[m].page \in 1..(n - 1)
    BY <2>1 DEF JobsFit
  <2>3. \A m \in DOMAIN w : w[m].page # p.id /\ w[m].page \in 1..((n + 1) - 1)
    BY <2>2
  <2>4. ASSUME NEW m \in DOMAIN w, NEW i \in DOMAIN g, w[m].page = g[i].id
        PROVE  Carries(w[m], g[i])
    <3>1. i \in DOMAIN h /\ g[i] = h[i]
      BY <1>1, <1>2, <2>3, <2>4
    <3> QED
      BY <2>1, <2>4, <3>1 DEF JobsFit
  <2>5. ASSUME NEW i \in DOMAIN g, Away(g[i]) PROVE \E m \in DOMAIN w : w[m].page = g[i].id
    <3>1. i \in DOMAIN h /\ g[i] = h[i]
      BY <1>1, <1>2, <1>5, <2>5
    <3> QED
      BY <2>1, <2>5, <3>1 DEF JobsFit
  <2> QED
    BY <2>1, <2>3, <2>4, <2>5 DEF JobsFit
<1>7. CacheFits(c, g, n + 1)
  <2>1. CacheFits(c, h, n)
    BY DEF Stored
  <2>2. c.page \in 0..(n - 1)
    BY <2>1 DEF CacheFits
  <2>3. c.page # p.id /\ c.page \in 0..((n + 1) - 1)
    BY <2>2
  <2>4. ASSUME NEW i \in DOMAIN g, c.page = g[i].id, c.gen = g[i].gen
        PROVE  Cold(g[i]) /\ c.rows = g[i].packed
    <3>1. i \in DOMAIN h /\ g[i] = h[i]
      BY <1>1, <1>2, <2>3, <2>4
    <3> QED
      BY <2>1, <2>4, <3>1 DEF CacheFits
  <2> QED
    BY <2>3, <2>4 DEF CacheFits
<1>8. n + 1 \in Nat \ {0}
  OBVIOUS
<1>9. CacheFits(NoPage, g, n + 1)
  BY <1>4, <1>8, NoPageFits
<1> QED
  BY <1>4, <1>6, <1>7, <1>9 DEF Stored, g

\* A page that leaves for the worker has exactly one job, the last of the line.
LEMMA StoredEnqueue ==
  ASSUME NEW h \in Seq(Page), NEW g \in Seq(Page), NEW w, NEW v, NEW c,
         NEW n \in Nat \ {0}, NEW s,
         Stored(h, w, c, n, s), NEW k \in DOMAIN h, PageOK(g[k], s), Leaves(h, g, k), OneMore(w, v, h[k])
  PROVE  Stored(g, v, c, n, s)
<1>a. /\ Hot(h[k]) /\ Away(g[k]) /\ g[k].id = h[k].id /\ g[k].gen = h[k].gen
      /\ g[k].lines = h[k].lines
      /\ DOMAIN g = DOMAIN h /\ \A i \in DOMAIN h : i # k => g[i] = h[i]
  BY DEF Leaves
<1>b. PICK l \in Nat :
        /\ DOMAIN w = 1..l /\ DOMAIN v = 1..(l + 1) /\ \A m \in 1..l : v[m] = w[m]
        /\ v[l + 1].page = h[k].id /\ v[l + 1].gen = h[k].gen /\ v[l + 1].rows = h[k].rows
  BY DEF OneMore
<1>1. PagesFit(h, n, s) /\ JobsFit(w, h, n, s) /\ CacheFits(c, h, n) /\ DOMAIN h \subseteq Int
  BY <1>a, <1>b DEF Stored
<1>2. PageOK(h[k], s) /\ ~Away(h[k]) /\ ~Cold(h[k]) /\ ~Cold(g[k]) /\ h[k].id \in 1..(n - 1)
  BY <1>a, <1>b, <1>1 DEF PagesFit, Hot, Away, Cold
<1>3. PagesFit(g, n, s)
  BY <1>a, <1>b, <1>1, <1>2, ZenonT(30) DEF PagesFit
<1>4. \A i \in DOMAIN h : h[i].id = h[k].id => i = k
  <2> SUFFICES ASSUME NEW i \in DOMAIN h, h[i].id = h[k].id, i # k PROVE FALSE
    BY <1>a, <1>b
  <2>1. i < k \/ k < i
    BY <1>a, <1>b
  <2>2. h[i].id \in Int /\ h[k].id \in Int
    BY <1>a, <1>b, <1>1 DEF PagesFit
  <2>3. ~(h[i].id < h[k].id) /\ ~(h[k].id < h[i].id)
    BY <1>a, <1>b, <2>2
  <2> QED
    BY <1>a, <1>b, <1>1, <2>1, <2>3 DEF PagesFit
<1>5. \A m \in DOMAIN w : w[m].page # h[k].id
  BY <1>a, <1>b, <1>1, <1>2 DEF JobsFit, Carries
<1>6. JobsFit(v, g, n, s)
  <2>1. ASSUME NEW m \in DOMAIN v PROVE v[m].page \in 1..(n - 1) /\ Coded(v[m].rows, s)
    <3>1. CASE m = l + 1
      BY <1>a, <1>b, <1>2, <3>1 DEF PageOK
    <3>2. CASE m # l + 1
      <4>1. m \in DOMAIN w /\ v[m] = w[m]
        BY <1>a, <1>b, <3>2
      <4> QED
        BY <1>a, <1>b, <1>1, <4>1 DEF JobsFit
    <3> QED
      BY <1>a, <1>b, <3>1, <3>2
  <2>2. ASSUME NEW m \in DOMAIN v, NEW j \in DOMAIN v, v[m].page = v[j].page PROVE m = j
    <3>1. CASE m = l + 1 /\ j # l + 1
      <4>1. j \in DOMAIN w /\ v[j] = w[j]
        BY <1>a, <1>b, <3>1
      <4> QED
        BY <1>a, <1>b, <1>5, <2>2, <3>1, <4>1
    <3>2. CASE m # l + 1 /\ j = l + 1
      <4>1. m \in DOMAIN w /\ v[m] = w[m]
        BY <1>a, <1>b, <3>2
      <4> QED
        BY <1>a, <1>b, <1>5, <2>2, <3>2, <4>1
    <3>3. CASE m # l + 1 /\ j # l + 1
      <4>1. m \in DOMAIN w /\ v[m] = w[m] /\ j \in DOMAIN w /\ v[j] = w[j]
        BY <1>a, <1>b, <3>3
      <4> QED
        BY <1>a, <1>b, <1>1, <2>2, <4>1 DEF JobsFit
    <3> QED
      BY <1>a, <1>b, <3>1, <3>2, <3>3
  <2>3. ASSUME NEW m \in DOMAIN v, NEW i \in DOMAIN g, v[m].page = g[i].id PROVE Carries(v[m], g[i])
    <3>0. g[i].id = h[i].id
      BY <1>a, <1>b
    <3>1. CASE m = l + 1
      <4>1. i = k
        BY <1>a, <1>b, <1>4, <2>3, <3>0, <3>1
      <4>2. Len(h[k].rows) = h[k].lines
        BY <1>a, <1>b, <1>2 DEF PageOK
      <4> QED
        BY <1>a, <1>b, <3>1, <4>1, <4>2 DEF Carries
    <3>2. CASE m # l + 1
      <4>1. m \in DOMAIN w /\ v[m] = w[m]
        BY <1>a, <1>b, <3>2
      <4>2. i # k
        BY <1>a, <1>b, <1>5, <2>3, <3>0, <4>1
      <4> QED
        BY <1>a, <1>b, <1>1, <2>3, <4>1, <4>2 DEF JobsFit
    <3> QED
      BY <1>a, <1>b, <3>1, <3>2
  <2>4. ASSUME NEW i \in DOMAIN g, Away(g[i]) PROVE \E m \in DOMAIN v : v[m].page = g[i].id
    <3>1. CASE i = k
      <4>1. l + 1 \in DOMAIN v
        BY <1>a, <1>b
      <4> QED
        BY <1>a, <1>b, <3>1, <4>1
    <3>2. CASE i # k
      <4>1. PICK m \in DOMAIN w : w[m].page = g[i].id
        BY <1>a, <1>b, <1>1, <2>4, <3>2 DEF JobsFit
      <4>2. m \in DOMAIN v /\ v[m] = w[m]
        BY <1>a, <1>b
      <4> QED
        BY <1>a, <1>b, <4>1, <4>2
    <3> QED
      BY <1>a, <1>b, <3>1, <3>2
  <2> QED
    BY <1>a, <1>b, <2>1, <2>2, <2>3, <2>4 DEF JobsFit
<1>7. CacheFits(c, g, n)
  <2>1. ASSUME NEW i \in DOMAIN g, c.page = g[i].id, c.gen = g[i].gen
        PROVE  Cold(g[i]) /\ c.rows = g[i].packed
    <3>1. i # k
      BY <1>a, <1>b, <1>1, <1>2, <2>1 DEF CacheFits
    <3> QED
      BY <1>a, <1>b, <1>1, <2>1, <3>1 DEF CacheFits
  <2> QED
    BY <1>a, <1>b, <1>1, <2>1 DEF CacheFits
<1> QED
  BY <1>a, <1>b, <1>3, <1>6, <1>7 DEF Stored

\* p with the rows its job brought back.
Filled(p, rows) == [p EXCEPT !.kind = "none", !.rows = <<>>, !.packed = rows, !.pending = FALSE]

\* A completion is for the page that waits for it, or for a page that is gone.
LEMMA LandedCases ==
  ASSUME NEW h \in Seq(Page), NEW w \in Seq(Job), NEW c, NEW n \in Nat \ {0}, NEW s,
         Stored(h, w, c, n, s), w # <<>>, NEW i \in DOMAIN h
  PROVE  \/ h[i].id # Head(w).page /\ Landed(h[i], Head(w)) = h[i]
         \/ /\ h[i].id = Head(w).page /\ Away(h[i])
            /\ Len(Head(w).rows) = h[i].lines /\ Coded(Head(w).rows, s)
            /\ Landed(h[i], Head(w)) = Filled(h[i], Head(w).rows)
<1>1. Head(w) = w[1] /\ 1 \in DOMAIN w
  OBVIOUS
<1>2. Head(w).page = h[i].id => Carries(Head(w), h[i])
  BY <1>1 DEF Stored, JobsFit
<1>3. Coded(Head(w).rows, s)
  BY <1>1 DEF Stored, JobsFit
<1> QED
  BY <1>2, <1>3 DEF Landed, Carries, Filled

\* The page whose completion came is compressed and complete.
LEMMA LandedPage ==
  ASSUME NEW p \in Page, NEW j \in Job, NEW s, PageOK(p, s), Away(p),
         Len(j.rows) = p.lines, Coded(j.rows, s),
         NEW q, q = Filled(p, j.rows)
  PROVE  /\ q \in Page /\ PageOK(q, s) /\ Cold(q) /\ ~Away(q) /\ ~Hot(q)
         /\ q.id = p.id /\ q.gen = p.gen /\ q.lines = p.lines /\ q.packed = j.rows
<1>1. /\ q.id = p.id /\ q.gen = p.gen /\ q.cols = p.cols /\ q.lines = p.lines
      /\ q.kind = "none"
      /\ q.rows = <<>> /\ q.packed = j.rows /\ q.pending = FALSE
  BY DEF Page, Filled
<1>2. p.lines \in 1..PageLines /\ p.lines # 0
  BY DEF Page
<1>3. q.packed # <<>>
  BY <1>1, <1>2
<1>4. q \in Page
  <2>1. /\ p.id \in Nat /\ p.gen \in Nat /\ p.cols \in Widths /\ p.lines \in 1..PageLines
        /\ j.rows \in Seq(Row) /\ <<>> \in Seq(Row)
    BY DEF Page, Job
  <2>2. q = [id |-> p.id, gen |-> p.gen, cols |-> p.cols, lines |-> p.lines, kind |-> "none",
             rows |-> <<>>, packed |-> j.rows, pending |-> FALSE]
    BY DEF Page, Filled
  <2> HIDE DEF Row
  <2> QED
    BY <2>1, <2>2 DEF Page
<1>5. Coded(<<>>, s)
  BY DEF Coded
<1> QED
  BY <1>1, <1>3, <1>4, <1>5 DEF PageOK, Hot, Cold, Away

\* Taking the first completion keeps the storage right (ApplyCompletion).
LEMMA StoredApply ==
  ASSUME NEW h \in Seq(Page), NEW w \in Seq(Job), NEW c, NEW n \in Nat \ {0}, NEW s,
         Stored(h, w, c, n, s), w # <<>>, NEW g, g = LandedAll(h, Head(w))
  PROVE  g \in Seq(Page) /\ Len(g) = Len(h) /\ Stored(g, Tail(w), c, n, s) /\ OnlyLanded(h, g)
<1>0. g = [i \in DOMAIN h |-> Landed(h[i], Head(w))]
  BY DEF LandedAll
<1> DEFINE j == Head(w)
           v == Tail(w)
           l == Len(v)
<1>1. /\ j \in Job /\ j = w[1] /\ 1 \in DOMAIN w /\ l \in Nat /\ DOMAIN w = 1..(l + 1)
      /\ DOMAIN v = 1..l /\ \A m \in 1..l : v[m] = w[m + 1]
  OBVIOUS
<1>2. ASSUME NEW i \in DOMAIN h
      PROVE  \/ h[i].id # j.page /\ g[i] = h[i]
             \/ /\ h[i].id = j.page /\ Away(h[i]) /\ g[i] \in Page /\ PageOK(g[i], s)
                /\ Cold(g[i]) /\ ~Away(g[i]) /\ ~Hot(g[i])
                /\ g[i].id = h[i].id /\ g[i].gen = h[i].gen /\ g[i].lines = h[i].lines
  <2>1. h[i] \in Page /\ PageOK(h[i], s) /\ g[i] = Landed(h[i], j)
    BY <1>0 DEF Stored, PagesFit
  <2>2. CASE h[i].id # j.page /\ Landed(h[i], j) = h[i]
    BY <2>1, <2>2
  <2>3. CASE /\ h[i].id = j.page /\ Away(h[i]) /\ Len(j.rows) = h[i].lines /\ Coded(j.rows, s)
             /\ Landed(h[i], j) = Filled(h[i], j.rows)
    <3>1. /\ g[i] \in Page /\ PageOK(g[i], s) /\ Cold(g[i]) /\ ~Away(g[i]) /\ ~Hot(g[i])
          /\ g[i].id = h[i].id /\ g[i].gen = h[i].gen /\ g[i].lines = h[i].lines
      <4> HIDE DEF j
      <4> QED
        BY <1>1, <2>1, <2>3, LandedPage
    <3> QED
      BY <2>3, <3>1
  <2> QED
    BY <2>2, <2>3, LandedCases
<1> HIDE DEF j, v, l
<1>3. g \in Seq(Page) /\ Len(g) = Len(h) /\ DOMAIN g = DOMAIN h
  <2>1. \A i \in DOMAIN h : g[i] \in Page
    BY <1>2
  <2> QED
    BY <1>0, <2>1
<1>4. \A i \in DOMAIN h : /\ g[i].lines = h[i].lines /\ g[i].gen = h[i].gen /\ g[i].id = h[i].id
                          /\ Hot(g[i]) => g[i] = h[i]
                          /\ Hot(h[i]) => g[i] = h[i]
                          /\ Cold(h[i]) => g[i] = h[i]
                          /\ Away(g[i]) => g[i] = h[i]
  BY <1>2 DEF Hot, Away, Cold
<1>5. PagesFit(h, n, s) /\ JobsFit(w, h, n, s) /\ CacheFits(c, h, n)
  BY DEF Stored
<1>6. PagesFit(g, n, s)
  <2>1. \A i \in DOMAIN g : PageOK(g[i], s) /\ g[i].id \in 1..(n - 1)
    BY <1>2, <1>3, <1>5 DEF PagesFit
  <2>2. \A i, k \in DOMAIN g : i < k => g[i].id < g[k].id
    <3>1. \A i \in DOMAIN h : g[i].id = h[i].id
      BY <1>4
    <3>2. \A i, k \in DOMAIN h : i < k => h[i].id < h[k].id
      BY <1>5 DEF PagesFit
    <3> QED
      BY <1>3, <3>1, <3>2
  <2> QED
    BY <2>1, <2>2 DEF PagesFit
<1>7. JobsFit(v, g, n, s)
  <2>0. \A m \in DOMAIN v : m + 1 \in DOMAIN w /\ v[m] = w[m + 1] /\ m + 1 # 1
    BY <1>1
  <2>1. \A m \in DOMAIN v : v[m].page \in 1..(n - 1) /\ Coded(v[m].rows, s)
    BY <1>5, <2>0 DEF JobsFit
  <2>2. ASSUME NEW m \in DOMAIN v, NEW k \in DOMAIN v, v[m].page = v[k].page PROVE m = k
    <3>1. m + 1 = k + 1
      BY <1>5, <2>0, <2>2 DEF JobsFit
    <3>2. m \in Int /\ k \in Int
      BY <1>1
    <3> QED
      BY <3>1, <3>2
  <2>3. ASSUME NEW m \in DOMAIN v, NEW i \in DOMAIN g, v[m].page = g[i].id PROVE Carries(v[m], g[i])
    <3>1. v[m].page # j.page
      BY <1>1, <1>5, <2>0 DEF JobsFit
    <3>2. i \in DOMAIN h /\ g[i] = h[i]
      BY <1>2, <1>3, <2>3, <3>1
    <3> QED
      BY <1>5, <2>0, <2>3, <3>2 DEF JobsFit
  <2>4. ASSUME NEW i \in DOMAIN g, Away(g[i]) PROVE \E m \in DOMAIN v : v[m].page = g[i].id
    <3>1. i \in DOMAIN h /\ g[i] = h[i] /\ h[i].id # j.page
      BY <1>2, <1>3, <2>4
    <3>2. PICK m \in DOMAIN w : w[m].page = g[i].id
      BY <1>5, <2>4, <3>1 DEF JobsFit
    <3>3. m # 1
      BY <1>1, <3>1, <3>2
    <3>4. m - 1 \in DOMAIN v /\ v[m - 1] = w[m]
      BY <1>1, <3>3
    <3> QED
      BY <3>2, <3>4
  <2> QED
    BY <2>1, <2>2, <2>3, <2>4 DEF JobsFit
<1>8. CacheFits(c, g, n)
  <2>1. ASSUME NEW i \in DOMAIN g, c.page = g[i].id, c.gen = g[i].gen
        PROVE  Cold(g[i]) /\ c.rows = g[i].packed
    <3>1. i \in DOMAIN h /\ Cold(h[i]) /\ c.rows = h[i].packed
      BY <1>3, <1>4, <1>5, <2>1 DEF CacheFits
    <3> QED
      BY <1>4, <3>1
  <2> QED
    BY <1>5, <2>1 DEF CacheFits
<1> QED
  BY <1>3, <1>4, <1>6, <1>7, <1>8 DEF Stored, OnlyLanded, v

\* p with all of its fields but two given anew.
Changed(p, gen, lines, kind, rows, packed, away) ==
  [id |-> p.id, gen |-> gen, cols |-> p.cols, lines |-> lines, kind |-> kind,
   rows |-> rows, packed |-> packed, pending |-> away]

\* A page with one more row.
LEMMA ExtendedPage ==
  ASSUME NEW p \in Page, NewRow \in Row, NEW s, s = styles, PageOK(p, s), Hot(p),
         p.lines < PageLines,
         PageLines \in Nat
  PROVE  /\ Extended(p) \in Page /\ PageOK(Extended(p), s) /\ Hot(Extended(p)) /\ ~Away(Extended(p))
         /\ Extended(p).id = p.id /\ Extended(p).gen = p.gen
         /\ Extended(p).lines = p.lines + 1
         /\ Extended(p).kind = p.kind
<1> DEFINE q == Extended(p)
           r == Append(p.rows, NewRow)
<1>1. /\ p.id \in Nat /\ p.gen \in Nat /\ p.cols \in Widths /\ p.lines \in 1..PageLines
      /\ p.rows \in Seq(Row) /\ p.packed \in Seq(Row) /\ p.pending \in BOOLEAN
      /\ p.kind \in {"flat", "segmented", "none"}
  BY DEF Page
<1>2. q = [id |-> p.id, gen |-> p.gen, cols |-> p.cols, lines |-> p.lines + 1, kind |-> p.kind,
           rows |-> r, packed |-> p.packed, pending |-> p.pending]
  <2>1. PICK x, ln, e : x = r /\ ln = p.lines + 1 /\ e = q
    OBVIOUS
  <2>2. e = [p EXCEPT !.rows = x, !.lines = ln]
    BY <2>1 DEF Extended
  <2>3. e = Changed(p, p.gen, ln, p.kind, x, p.packed, p.pending)
    BY <2>2 DEF Page, Changed
  <2> QED
    BY <2>1, <2>3 DEF Changed
<1>3. p.lines + 1 \in 1..PageLines
  BY <1>1
<1>4. r \in Seq(Row) /\ Len(r) = Len(p.rows) + 1 /\ r[Len(p.rows) + 1] = NewRow
      /\ \A i \in 1..Len(p.rows) : r[i] = p.rows[i]
  <2> HIDE DEF Row, NewRow
  <2> QED
    BY <1>1
<1>5. NewRow.style = s
  BY DEF NewRow
<1>6. Coded(r, s)
  <2>1. Coded(p.rows, s)
    BY DEF PageOK
  <2>2. ASSUME NEW i \in DOMAIN r PROVE r[i].style = s
    <3>1. i = Len(p.rows) + 1 \/ i \in 1..Len(p.rows)
      BY <1>1, <1>4
    <3>2. CASE i = Len(p.rows) + 1
      BY <1>4, <1>5, <3>2
    <3>3. CASE i \in 1..Len(p.rows)
      <4>1. i \in DOMAIN p.rows /\ r[i] = p.rows[i]
        BY <1>1, <1>4, <3>3
      <4> QED
        BY <2>1, <4>1 DEF Coded
    <3> QED
      BY <3>1, <3>2, <3>3
  <2> QED
    BY <2>2 DEF Coded
<1> HIDE DEF q, r
<1>7. q \in Page
  BY <1>1, <1>2, <1>3, <1>4 DEF Page
<1>8. /\ Len(p.rows) = p.lines /\ p.packed = <<>> /\ p.pending = FALSE /\ p.kind # "none"
      /\ Coded(p.packed, s)
  BY <1>1 DEF PageOK, Hot
<1>9. PageOK(q, s) /\ Hot(q) /\ ~Away(q)
  BY <1>2, <1>4, <1>6, <1>8 DEF PageOK, Hot, Cold, Away
<1> QED
  BY <1>2, <1>7, <1>9 DEF q

\* A new page with the new row.
LEMMA FreshPageOK ==
  ASSUME NewRow \in Row, nextId \in Nat, PageLines \in Nat \ {0},
         NEW w \in Widths, NEW gen \in Nat, NEW kind \in {"flat", "segmented"}
  PROVE  LET q == FreshPage(w, gen, kind)
         IN  /\ q \in Page /\ PageOK(q, styles) /\ Hot(q) /\ ~Away(q) /\ q.id = nextId /\ q.lines = 1
<1> DEFINE q == FreshPage(w, gen, kind)
<1>1. q = [id |-> nextId, gen |-> gen, cols |-> w, lines |-> 1, kind |-> kind,
           rows |-> <<NewRow>>, packed |-> <<>>, pending |-> FALSE]
  BY DEF FreshPage
<1>2. /\ <<NewRow>> \in Seq(Row) /\ Len(<<NewRow>>) = 1 /\ <<>> \in Seq(Row)
      /\ 1 \in 1..PageLines
  <2> HIDE DEF Row, NewRow
  <2> QED
    OBVIOUS
<1>3. Coded(<<NewRow>>, styles) /\ Coded(<<>>, styles)
  BY DEF Coded, NewRow
<1>4. q \in Page
  BY <1>1, <1>2 DEF Page
<1>5. PageOK(q, styles) /\ Hot(q) /\ ~Away(q)
  BY <1>1, <1>2, <1>3 DEF PageOK, Hot, Cold, Away
<1> QED
  BY <1>1, <1>4, <1>5

\* A part of a page's rows.
LEMMA CodedPart ==
  ASSUME NEW r \in Seq(Row), NEW s, Coded(r, s), NEW a \in Nat, NEW b \in Nat, 1 <= a,
         b <= Len(r), a <= b
  PROVE  SubSeq(r, a, b) \in Seq(Row) /\ Len(SubSeq(r, a, b)) = b - a + 1 /\ Coded(SubSeq(r, a, b), s)
<1>1. /\ SubSeq(r, a, b) \in Seq(Row) /\ Len(SubSeq(r, a, b)) = b - a + 1
      /\ \A i \in 1..(b - a + 1) : SubSeq(r, a, b)[i] = r[a + i - 1] /\ a + i - 1 \in DOMAIN r
  <2> HIDE DEF Row
  <2> QED
    OBVIOUS
<1>2. DOMAIN SubSeq(r, a, b) = 1..(b - a + 1)
  BY <1>1
<1> QED
  BY <1>1, <1>2 DEF Coded

\* A page that lost its first lines.
LEMMA TrimmedPage ==
  ASSUME NEW p \in Page, NEW s, PageOK(p, s), ~Away(p), NEW k \in Nat, 0 < k,
         k < p.lines, PageLines \in Nat
  PROVE  /\ Trimmed(p, k) \in Page /\ PageOK(Trimmed(p, k), s) /\ Hot(Trimmed(p, k)) /\ ~Away(Trimmed(p, k))
         /\ Trimmed(p, k).id = p.id /\ Trimmed(p, k).lines = p.lines - k
<1> DEFINE r == IF Hot(p) THEN p.rows ELSE p.packed
           q == Trimmed(p, k)
<1>1. /\ p.id \in Nat /\ p.gen \in Nat /\ p.cols \in Widths /\ p.lines \in 1..PageLines
      /\ p.rows \in Seq(Row) /\ p.packed \in Seq(Row)
      /\ p.kind \in {"flat", "segmented", "none"}
  BY DEF Page
<1>2. r \in Seq(Row) /\ Len(r) = p.lines /\ Coded(r, s)
  BY <1>1 DEF PageOK, Hot, Cold, Away
<1>3. q = [id |-> p.id, gen |-> p.gen + 1, cols |-> p.cols, lines |-> p.lines - k,
           kind |-> IF Hot(p) THEN p.kind ELSE "flat",
           rows |-> SubSeq(r, k + 1, p.lines), packed |-> <<>>, pending |-> FALSE]
  <2>1. PICK x, ln, g, kd, e : /\ x = SubSeq(r, k + 1, p.lines) /\ ln = p.lines - k /\ g = p.gen + 1
                              /\ kd = (IF Hot(p) THEN p.kind ELSE "flat") /\ e = q
    OBVIOUS
  <2>2. e = [p EXCEPT !.kind = kd, !.rows = x, !.packed = <<>>, !.lines = ln, !.gen = g, !.pending = FALSE]
    BY <2>1 DEF Trimmed
  <2>3. e = Changed(p, g, ln, kd, x, <<>>, FALSE)
    BY <2>2 DEF Page, Changed
  <2> QED
    BY <2>1, <2>3 DEF Changed
<1> HIDE DEF r, q
<1>4. /\ SubSeq(r, k + 1, p.lines) \in Seq(Row) /\ Coded(SubSeq(r, k + 1, p.lines), s)
      /\ Len(SubSeq(r, k + 1, p.lines)) = p.lines - k
  <2>1. /\ k + 1 \in Nat /\ p.lines \in Nat /\ 1 <= k + 1 /\ p.lines <= Len(r)
        /\ k + 1 <= p.lines
        /\ p.lines - (k + 1) + 1 = p.lines - k
    BY <1>1, <1>2
  <2>2. /\ SubSeq(r, k + 1, p.lines) \in Seq(Row) /\ Coded(SubSeq(r, k + 1, p.lines), s)
        /\ Len(SubSeq(r, k + 1, p.lines)) = p.lines - (k + 1) + 1
    BY <1>2, <2>1, CodedPart
  <2> QED
    BY <2>1, <2>2
<1>5. p.lines - k \in 1..PageLines /\ p.gen + 1 \in Nat /\ <<>> \in Seq(Row)
      /\ (IF Hot(p) THEN p.kind ELSE "flat") \in {"flat", "segmented"}
  <2> HIDE DEF Row
  <2> QED
    BY <1>1 DEF Hot
<1>6. q \in Page
  BY <1>1, <1>3, <1>4, <1>5 DEF Page
<1>7. Coded(<<>>, s)
  BY DEF Coded
<1>8. /\ q.kind # "none" /\ q.rows = SubSeq(r, k + 1, p.lines) /\ q.packed = <<>>
      /\ q.pending = FALSE
      /\ q.id = p.id /\ q.lines = p.lines - k
  BY <1>3, <1>5
<1>9. PageOK(q, s) /\ Hot(q) /\ ~Away(q)
  BY <1>4, <1>7, <1>8 DEF PageOK, Hot, Cold, Away
<1> QED
  BY <1>6, <1>8, <1>9 DEF q

\* Rows under the next numbering of styles.
LEMMA AgainRows ==
  ASSUME NEW r \in Seq(Row), NEW s \in Nat, Coded(r, s), s < MaxStyles, MaxStyles \in Nat
  PROVE  Again(r) \in Seq(Row) /\ Len(Again(r)) = Len(r) /\ Coded(Again(r), s + 1)
<1>1. ASSUME NEW i \in DOMAIN r PROVE [r[i] EXCEPT !.style = @ + 1] \in Row /\ Again(r)[i].style = s + 1
  <2>1. r[i] \in Row /\ r[i].style = s
    BY DEF Coded
  <2>2. r[i].n \in 1..MaxRows /\ s + 1 \in 0..MaxStyles
    BY <2>1 DEF Row
  <2>3. [r[i] EXCEPT !.style = @ + 1] = [n |-> r[i].n, style |-> s + 1]
    <3>1. PICK x, y, e : x = r[i] /\ x \in Row /\ y = s + 1 /\ e = [r[i] EXCEPT !.style = @ + 1]
      BY <2>1
    <3>2. e = [x EXCEPT !.style = y]
      BY <2>1, <3>1
    <3>3. e = [n |-> x.n, style |-> y]
      BY <3>1, <3>2 DEF Row
    <3> QED
      BY <3>1, <3>3
  <2> QED
    BY <2>2, <2>3 DEF Row, Again
<1>2. Again(r) \in Seq(Row) /\ Len(Again(r)) = Len(r) /\ DOMAIN Again(r) = DOMAIN r
  <2> HIDE DEF Row
  <2>1. \A i \in DOMAIN r : [r[i] EXCEPT !.style = @ + 1] \in Row
    BY <1>1
  <2> QED
    BY <2>1 DEF Again
<1> QED
  BY <1>1, <1>2 DEF Coded

\* A page under the next numbering of styles.
LEMMA RestyledPage ==
  ASSUME NEW p \in Page, NEW s \in Nat, PageOK(p, s), ~Away(p), s < MaxStyles,
         MaxStyles \in Nat
  PROVE  /\ Restyled(p) \in Page /\ PageOK(Restyled(p), s + 1) /\ ~Away(Restyled(p))
         /\ Restyled(p).id = p.id /\ Restyled(p).lines = p.lines
         /\ Hot(Restyled(p)) <=> Hot(p)
<1> DEFINE q == Restyled(p)
<1>1. /\ p.id \in Nat /\ p.gen \in Nat /\ p.cols \in Widths /\ p.lines \in 1..PageLines
      /\ p.rows \in Seq(Row) /\ p.packed \in Seq(Row)
      /\ p.kind \in {"flat", "segmented", "none"}
  BY DEF Page
<1>2. q = [id |-> p.id, gen |-> p.gen + 1, cols |-> p.cols, lines |-> p.lines, kind |-> p.kind,
           rows |-> Again(p.rows), packed |-> Again(p.packed), pending |-> FALSE]
  <2>1. PICK x, y, g, e : x = Again(p.rows) /\ y = Again(p.packed) /\ g = p.gen + 1 /\ e = q
    OBVIOUS
  <2>2. e = [p EXCEPT !.gen = g, !.pending = FALSE, !.rows = x, !.packed = y]
    BY <2>1 DEF Restyled
  <2>3. e = Changed(p, g, p.lines, p.kind, x, y, FALSE)
    BY <2>2 DEF Page, Changed
  <2> QED
    BY <2>1, <2>3 DEF Changed
<1>3. /\ Again(p.rows) \in Seq(Row) /\ Len(Again(p.rows)) = Len(p.rows)
      /\ Coded(Again(p.rows), s + 1)
      /\ Again(p.packed) \in Seq(Row) /\ Len(Again(p.packed)) = Len(p.packed)
      /\ Coded(Again(p.packed), s + 1)
  BY <1>1, AgainRows DEF PageOK
<1>4. p.packed = <<>> <=> Again(p.packed) = <<>>
  <2>1. p.packed = <<>> <=> Len(p.packed) = 0
    BY <1>1
  <2>2. Again(p.packed) = <<>> <=> Len(Again(p.packed)) = 0
    BY <1>3
  <2> QED
    BY <1>3, <2>1, <2>2
<1> HIDE DEF q
<1>5. q \in Page
  <2>1. p.gen + 1 \in Nat
    BY <1>1
  <2> QED
    BY <1>1, <1>2, <1>3, <2>1 DEF Page
<1>6. Hot(p) => Len(p.rows) = p.lines /\ p.packed = <<>>
  BY DEF PageOK
<1>7. Cold(p) => Len(p.packed) = p.lines
  BY DEF PageOK
<1>8. /\ q.kind = p.kind /\ q.lines = p.lines /\ q.rows = Again(p.rows)
      /\ q.packed = Again(p.packed)
      /\ q.pending = FALSE /\ q.id = p.id
  BY <1>2
<1>9. (Hot(q) <=> Hot(p)) /\ (Cold(q) <=> Cold(p)) /\ (Away(q) <=> Away(p))
  BY <1>4, <1>8 DEF Hot, Cold, Away
<1>10. PageOK(q, s + 1)
  BY <1>3, <1>4, <1>6, <1>7, <1>8, <1>9 DEF PageOK
<1> QED
  BY <1>5, <1>8, <1>9, <1>10 DEF q

\* p handed to the worker.
Sent(p) == [p EXCEPT !.kind = "none", !.rows = <<>>, !.pending = TRUE]

\* A page handed to the worker.
LEMMA SentPage ==
  ASSUME NEW p \in Page, NEW s, PageOK(p, s), Hot(p)
  PROVE  /\ Sent(p) \in Page /\ PageOK(Sent(p), s) /\ Away(Sent(p)) /\ ~Hot(Sent(p))
         /\ Sent(p).id = p.id /\ Sent(p).gen = p.gen /\ Sent(p).lines = p.lines
<1> DEFINE q == Sent(p)
<1>1. /\ p.id \in Nat /\ p.gen \in Nat /\ p.cols \in Widths /\ p.lines \in 1..PageLines
      /\ p.packed = <<>> /\ <<>> \in Seq(Row)
  BY DEF Page, PageOK
<1>2. q = [id |-> p.id, gen |-> p.gen, cols |-> p.cols, lines |-> p.lines, kind |-> "none",
           rows |-> <<>>, packed |-> <<>>, pending |-> TRUE]
  <2>1. PICK e : e = q
    OBVIOUS
  <2>2. e = [p EXCEPT !.kind = "none", !.rows = <<>>, !.pending = TRUE]
    BY <2>1 DEF Sent
  <2>3. e = Changed(p, p.gen, p.lines, "none", <<>>, p.packed, TRUE)
    BY <2>2 DEF Page, Changed
  <2> QED
    BY <1>1, <2>1, <2>3 DEF Changed
<1> HIDE DEF q
<1>3. q \in Page
  BY <1>1, <1>2 DEF Page
<1>4. PageOK(q, s) /\ Away(q) /\ ~Hot(q)
  BY <1>2 DEF PageOK, Hot, Cold, Away, Coded
<1> QED
  BY <1>2, <1>3, <1>4 DEF q

\* p with only its first k lines.
CutTo(p, k) == [p EXCEPT !.lines = k, !.rows = SubSeq(@, 1, k)]

\* A page that lost its last lines.
LEMMA CutPage ==
  ASSUME NEW p \in Page, NEW s, PageOK(p, s), Hot(p), NEW k \in Nat, 0 < k, k <= p.lines,
         PageLines \in Nat
  PROVE  /\ CutTo(p, k) \in Page /\ PageOK(CutTo(p, k), s) /\ Hot(CutTo(p, k)) /\ ~Away(CutTo(p, k))
         /\ CutTo(p, k).id = p.id /\ CutTo(p, k).gen = p.gen /\ CutTo(p, k).lines = k
<1> DEFINE q == CutTo(p, k)
           r == p.rows
<1>1. /\ p.id \in Nat /\ p.gen \in Nat /\ p.cols \in Widths /\ p.lines \in 1..PageLines
      /\ r \in Seq(Row) /\ p.kind \in {"flat", "segmented", "none"} /\ p.kind # "none"
      /\ p.packed = <<>> /\ <<>> \in Seq(Row) /\ Len(r) = p.lines /\ Coded(r, s)
      /\ p.pending = FALSE
  BY DEF Page, PageOK, Hot
<1>2. q = [id |-> p.id, gen |-> p.gen, cols |-> p.cols, lines |-> k, kind |-> p.kind,
           rows |-> SubSeq(r, 1, k), packed |-> <<>>, pending |-> FALSE]
  <2>1. PICK x, e : x = SubSeq(r, 1, k) /\ e = q
    OBVIOUS
  <2>2. e = [p EXCEPT !.rows = x, !.lines = k]
    BY <2>1 DEF CutTo
  <2>3. e = Changed(p, p.gen, k, p.kind, x, p.packed, p.pending)
    BY <2>2 DEF Page, Changed
  <2> QED
    BY <1>1, <2>1, <2>3 DEF Changed
<1> HIDE DEF q, r
<1>3. /\ SubSeq(r, 1, k) \in Seq(Row) /\ Len(SubSeq(r, 1, k)) = k /\ Coded(SubSeq(r, 1, k), s)
  <2>1. 1 \in Nat /\ 1 <= 1 /\ k <= Len(r) /\ 1 <= k /\ k - 1 + 1 = k
    BY <1>1
  <2>2. /\ SubSeq(r, 1, k) \in Seq(Row) /\ Len(SubSeq(r, 1, k)) = k - 1 + 1
        /\ Coded(SubSeq(r, 1, k), s)
    BY <1>1, <2>1, CodedPart
  <2> QED
    BY <2>1, <2>2
<1>4. k \in 1..PageLines
  BY <1>1
<1>5. q \in Page
  BY <1>1, <1>2, <1>3, <1>4 DEF Page
<1>6. Coded(<<>>, s)
  BY DEF Coded
<1>7. PageOK(q, s) /\ Hot(q) /\ ~Away(q)
  BY <1>1, <1>2, <1>3, <1>6 DEF PageOK, Hot, Cold, Away
<1> QED
  BY <1>2, <1>5, <1>7 DEF q

------------------------------------------------------------------------------
\* The line of jobs and the plans of calls.

\* Taking a job moves it along the line.
LEMMA Taking ==
  ASSUME NEW S, NEW c \in Seq(S), NEW q \in Seq(S), q # <<>>,
         NEW u, NEW v, u = Line(c, <<>>, q), v = Line(c, <<Head(q)>>, Tail(q))
  PROVE  u = v
<1>1. c \o <<>> = c
  OBVIOUS
<1>2. q = <<Head(q)>> \o Tail(q) /\ Head(q) \in S /\ Tail(q) \in Seq(S)
  OBVIOUS
<1>3. PICK a, b : a = Head(q) /\ b = Tail(q) /\ a \in S /\ b \in Seq(S)
  BY <1>2
<1>4. c \o (<<a>> \o b) = (c \o <<a>>) \o b
  BY <1>3, SMTT(30)
<1> QED
  BY <1>1, <1>2, <1>3, <1>4 DEF Line

\* Sending a completion moves it along the line.
LEMMA Sending ==
  ASSUME NEW S, NEW c \in Seq(S), NEW q \in Seq(S), NEW j \in S,
         NEW u, NEW v, u = Line(c, <<j>>, q), v = Line(Append(c, j), <<>>, q)
  PROVE  u = v
<1>1. Append(c, j) = c \o <<j>> /\ Append(c, j) \o <<>> = Append(c, j)
  OBVIOUS
<1> QED
  BY <1>1 DEF Line

\* A new job is the last of the line.
LEMMA Queueing ==
  ASSUME NEW S, NEW c \in Seq(S), NEW m \in Seq(S), NEW q \in Seq(S), NEW j \in S,
         NEW w, NEW v, w = Line(c, m, q), v = Line(c, m, Append(q, j))
  PROVE  /\ w \in Seq(S) /\ v \in Seq(S) /\ Len(v) = Len(w) + 1 /\ v[Len(w) + 1] = j
         /\ \A i \in 1..Len(w) : v[i] = w[i]
  BY DEF Line

\* The first completion is the first of the line.
LEMMA Landing ==
  ASSUME NEW S, NEW c \in Seq(S), NEW m \in Seq(S), NEW q \in Seq(S), c # <<>>,
         NEW w, NEW v, w = Line(c, m, q), v = Line(Tail(c), m, q)
  PROVE  w \in Seq(S) /\ w # <<>> /\ Head(w) = Head(c) /\ v = Tail(w)
  BY SMTT(30) DEF Line

\* The steps of two plans, one after the other.
LEMMA WithinPlus ==
  ASSUME NEW S, NEW p \in Seq(S), NEW t \in Seq(S), NEW x
  PROVE  Within(x, p \o t) <=> Within(x, p) \/ Within(x, t)
<1>1. /\ Len(p) \in Nat /\ Len(t) \in Nat /\ DOMAIN (p \o t) = 1..(Len(p) + Len(t))
      /\ DOMAIN p = 1..Len(p) /\ DOMAIN t = 1..Len(t)
      /\ \A i \in 1..Len(p) : (p \o t)[i] = p[i]
      /\ \A i \in 1..Len(t) : (p \o t)[Len(p) + i] = t[i]
  OBVIOUS
<1>2. \A i \in DOMAIN (p \o t) : i \in DOMAIN p \/ (i - Len(p) \in DOMAIN t /\ i = Len(p) + (i - Len(p)))
  BY <1>1
<1>3. \A i \in DOMAIN p : i \in DOMAIN (p \o t)
  BY <1>1
<1>4. \A i \in DOMAIN t : Len(p) + i \in DOMAIN (p \o t)
  BY <1>1
<1> QED
  BY <1>1, <1>2, <1>3, <1>4 DEF Within

\* The steps of a plan: the first one and the rest.
LEMMA WithinTail ==
  ASSUME NEW S, NEW t \in Seq(S), t # <<>>, NEW x
  PROVE  Within(x, t) <=> Head(t) = x \/ Within(x, Tail(t))
<1>1. /\ Len(t) \in Nat /\ DOMAIN t = 1..Len(t) /\ DOMAIN Tail(t) = 1..(Len(t) - 1)
      /\ Head(t) = t[1]
      /\ \A i \in 1..(Len(t) - 1) : Tail(t)[i] = t[i + 1]
      /\ 1 \in DOMAIN t
  OBVIOUS
<1>2. \A i \in DOMAIN t : i = 1 \/ (i - 1 \in DOMAIN Tail(t) /\ Tail(t)[i - 1] = t[i])
  BY <1>1
<1>3. \A i \in DOMAIN Tail(t) : i + 1 \in DOMAIN t /\ Tail(t)[i] = t[i + 1]
  BY <1>1
<1> QED
  BY <1>1, <1>2, <1>3 DEF Within

\* After its first step a plan still enforces after every ingest.
LEMMA EnforcedTail ==
  ASSUME NEW S, NEW t \in Seq(S), t # <<>>, EnforcedAfter(t) PROVE EnforcedAfter(Tail(t))
<1>1. /\ Len(t) \in Nat /\ DOMAIN t = 1..Len(t) /\ DOMAIN Tail(t) = 1..(Len(t) - 1)
      /\ \A i \in 1..(Len(t) - 1) : Tail(t)[i] = t[i + 1]
  OBVIOUS
<1>2. ASSUME NEW i \in DOMAIN Tail(t), Tail(t)[i] = "ingest"
      PROVE  \E m \in DOMAIN Tail(t) : m > i /\ Tail(t)[m] = "enforce"
  <2>1. i + 1 \in DOMAIN t /\ t[i + 1] = "ingest" /\ i \in Nat
    BY <1>1, <1>2
  <2>2. PICK m \in DOMAIN t : m > i + 1 /\ t[m] = "enforce"
    BY <2>1 DEF EnforcedAfter
  <2>3. m - 1 \in DOMAIN Tail(t) /\ m - 1 > i /\ Tail(t)[m - 1] = t[m]
    BY <1>1, <2>1, <2>2
  <2> QED
    BY <2>2, <2>3
<1> QED
  BY <1>2 DEF EnforcedAfter

\* Steps put before a plan leave every ingest followed by an enforce.
LEMMA EnforcedPlus ==
  ASSUME NEW S, NEW p \in Seq(S), NEW t \in Seq(S), EnforcedAfter(t),
         ~Within("ingest", p) \/ Within("enforce", t)
  PROVE  EnforcedAfter(p \o t)
<1>1. /\ Len(p) \in Nat /\ Len(t) \in Nat /\ DOMAIN (p \o t) = 1..(Len(p) + Len(t))
      /\ DOMAIN p = 1..Len(p) /\ DOMAIN t = 1..Len(t)
      /\ \A i \in 1..Len(p) : (p \o t)[i] = p[i]
      /\ \A i \in 1..Len(t) : (p \o t)[Len(p) + i] = t[i]
  OBVIOUS
<1>2. ASSUME NEW i \in DOMAIN (p \o t), (p \o t)[i] = "ingest"
      PROVE  \E m \in DOMAIN (p \o t) : m > i /\ (p \o t)[m] = "enforce"
  <2>1. CASE i <= Len(p)
    <3>1. i \in DOMAIN p /\ p[i] = "ingest"
      BY <1>1, <1>2, <2>1
    <3>2. PICK m \in DOMAIN t : t[m] = "enforce"
      BY <3>1 DEF Within
    <3>3. Len(p) + m \in DOMAIN (p \o t) /\ Len(p) + m > i /\ (p \o t)[Len(p) + m] = t[m]
      BY <1>1, <2>1
    <3> QED
      BY <3>2, <3>3
  <2>2. CASE i > Len(p)
    <3>1. i - Len(p) \in DOMAIN t /\ t[i - Len(p)] = "ingest"
      <4>1. i - Len(p) \in 1..Len(t) /\ i = Len(p) + (i - Len(p))
        BY <1>1, <2>2
      <4> QED
        BY <1>1, <1>2, <4>1
    <3>2. PICK m \in DOMAIN t : m > i - Len(p) /\ t[m] = "enforce"
      BY <3>1 DEF EnforcedAfter
    <3>3. Len(p) + m \in DOMAIN (p \o t) /\ Len(p) + m > i /\ (p \o t)[Len(p) + m] = t[m]
      BY <1>1, <3>2
    <3> QED
      BY <3>2, <3>3
  <2>3. i \in Int
    BY <1>1
  <2> QED
    BY <1>1, <2>1, <2>2, <2>3
<1> QED
  BY <1>2 DEF EnforcedAfter

\* A step of a plan that adds a row uses up one of the rows it may add.
LEMMA AddsTail ==
  ASSUME NEW S, NEW t \in Seq(S), t # <<>>, NEW n \in Nat, AddsFit(t, n)
  PROVE  /\ Head(t) \notin Adds => AddsFit(Tail(t), n)
         /\ Head(t) \in Adds => n + 1 <= MaxRows /\ AddsFit(Tail(t), n + 1)
<1>1. /\ Len(t) \in Nat /\ DOMAIN t = 1..Len(t) /\ DOMAIN Tail(t) = 1..(Len(t) - 1)
      /\ Head(t) = t[1]
      /\ \A i \in 1..(Len(t) - 1) : Tail(t)[i] = t[i + 1]
      /\ 1 \in DOMAIN t
  OBVIOUS
<1>2. PICK a, k \in Nat : n + k <= MaxRows /\ \A i \in DOMAIN t : t[i] \in Adds => a < i /\ i <= a + k
  BY DEF AddsFit
<1>3. \A i \in DOMAIN Tail(t) : Tail(t)[i] \in Adds => a < i + 1 /\ i + 1 <= a + k /\ i \in Nat /\ i >= 1
  BY <1>1, <1>2
<1>4. CASE Head(t) \in Adds
  <2>1. a = 0 /\ k >= 1
    BY <1>1, <1>2, <1>4
  <2>2. k - 1 \in Nat /\ (n + 1) + (k - 1) <= MaxRows /\ n + 1 <= MaxRows
    BY <1>2, <2>1, StorageAssumption
  <2>3. \A i \in DOMAIN Tail(t) : Tail(t)[i] \in Adds => 0 < i /\ i <= 0 + (k - 1)
    BY <1>3, <2>1
  <2>4. AddsFit(Tail(t), n + 1)
    BY <2>2, <2>3 DEF AddsFit
  <2> QED
    BY <1>4, <2>2, <2>4
<1>5. CASE Head(t) \notin Adds
  <2>1. CASE a > 0
    <3>1. a - 1 \in Nat /\ \A i \in DOMAIN Tail(t) : Tail(t)[i] \in Adds => a - 1 < i /\ i <= (a - 1) + k
      BY <1>3, <2>1
    <3>2. AddsFit(Tail(t), n)
      BY <1>2, <3>1 DEF AddsFit
    <3> QED
      BY <1>5, <3>2
  <2>2. CASE a = 0
    <3>1. \A i \in DOMAIN Tail(t) : Tail(t)[i] \in Adds => 0 < i /\ i <= 0 + k
      BY <1>3, <2>2
    <3>2. AddsFit(Tail(t), n)
      BY <1>2, <3>1 DEF AddsFit
    <3> QED
      BY <1>5, <3>2
  <2> QED
    BY <2>1, <2>2
<1> QED
  BY <1>4, <1>5

\* Steps that add no row can be put before a plan.
LEMMA AddsPlus ==
  ASSUME NEW S, NEW p \in Seq(S), NEW t \in Seq(S), NEW n \in Nat, AddsFit(t, n),
         ~Within("ingest", p), ~Within("push", p)
  PROVE  AddsFit(p \o t, n)
<1>1. /\ Len(p) \in Nat /\ Len(t) \in Nat /\ DOMAIN (p \o t) = 1..(Len(p) + Len(t))
      /\ DOMAIN p = 1..Len(p) /\ DOMAIN t = 1..Len(t)
      /\ \A i \in 1..Len(p) : (p \o t)[i] = p[i]
      /\ \A i \in 1..Len(t) : (p \o t)[Len(p) + i] = t[i]
  OBVIOUS
<1>2. PICK a, k \in Nat : n + k <= MaxRows /\ \A i \in DOMAIN t : t[i] \in Adds => a < i /\ i <= a + k
  BY DEF AddsFit
<1>3. ASSUME NEW i \in DOMAIN (p \o t), (p \o t)[i] \in Adds
      PROVE  Len(p) + a < i /\ i <= (Len(p) + a) + k
  <2>1. i \notin DOMAIN p
    BY <1>1, <1>3 DEF Within, Adds
  <2>2. i - Len(p) \in DOMAIN t /\ i = Len(p) + (i - Len(p)) /\ i \in Int
    BY <1>1, <2>1
  <2>3. t[i - Len(p)] \in Adds
    BY <1>1, <1>3, <2>2
  <2> QED
    BY <1>1, <1>2, <2>2, <2>3, SMTT(30)
<1>4. Len(p) + a \in Nat
  BY <1>1
<1> QED
  BY <1>2, <1>3, <1>4 DEF AddsFit

\* A plan of k additions, when k more rows are allowed.
LEMMA AddsNew ==
  ASSUME NEW S, NEW k \in Nat, NEW x \in S, NEW t \in Seq(S), NEW n \in Nat, n + k <= MaxRows,
         ~Within("ingest", t), ~Within("push", t)
  PROVE  AddsFit(Times(k, x) \o t, n) /\ Times(k, x) \in Seq(S) /\ Times(k, x) \o t \in Seq(S)
<1> DEFINE p == Times(k, x)
<1>1. p \in Seq(S) /\ Len(p) = k
  BY DEF Times
<1> HIDE DEF p
<1>2. /\ DOMAIN (p \o t) = 1..(k + Len(t)) /\ p \o t \in Seq(S) /\ Len(t) \in Nat
      /\ \A i \in 1..Len(t) : (p \o t)[k + i] = t[i]
  BY <1>1
<1>3. ASSUME NEW i \in DOMAIN (p \o t), (p \o t)[i] \in Adds PROVE 0 < i /\ i <= 0 + k
  <2>1. ASSUME i > k PROVE FALSE
    <3>1. i - k \in 1..Len(t) /\ i = k + (i - k)
      BY <1>2, <2>1
    <3>2. t[i - k] \in Adds /\ i - k \in DOMAIN t
      BY <1>2, <1>3, <3>1
    <3> QED
      BY <3>2 DEF Within, Adds
  <2> QED
    BY <1>2, <2>1
<1> QED
  BY <1>1, <1>2, <1>3 DEF AddsFit, p

\* Landing, for jobs.
LEMMA LandingWay ==
  ASSUME NEW c \in Seq(Job), NEW m \in Seq(Job), NEW q \in Seq(Job), c # <<>>
  PROVE  /\ Line(c,m,q) \in Seq(Job) /\ Line(c,m,q) # <<>> /\ Head(Line(c,m,q)) = Head(c)
         /\ Line(Tail(c),m,q) = Tail(Line(c,m,q))
<1> DEFINE w == Line(c,m,q)
           v == Line(Tail(c),m,q)
<1>1. PICK x, y : x = w /\ y = v
  OBVIOUS
<1> HIDE DEF w, v
<1>2. w \in Seq(Job) /\ w # <<>> /\ Head(w) = Head(c) /\ v = Tail(w)
  <2>1. w = Line(c,m,q) /\ v = Line(Tail(c),m,q)
    BY DEF w, v
  <2> QED
    BY <2>1, Landing
<1> QED
  BY <1>2 DEF w, v
\* Queueing, for jobs.
LEMMA QueueingWay ==
  ASSUME NEW c \in Seq(Job), NEW m \in Seq(Job), NEW q \in Seq(Job), NEW j \in Job,
         NEW w, w = Line(c,m,q), NEW v, v = Line(c,m,Append(q,j))
  PROVE  w \in Seq(Job) /\ v \in Seq(Job) /\ Len(v) = Len(w) + 1 /\ v[Len(w) + 1] = j
             /\ \A i \in 1..Len(w) : v[i] = w[i]
  BY Queueing

------------------------------------------------------------------------------
\* The worker, the counters and the completions.

\* The job the worker holds, if any, as a sequence.
LEMMA HeldType ==
  ASSUME IInv PROVE (IF worker.pc = "send" THEN <<worker.job>> ELSE <<>>) \in Seq(Job)
<1>1. worker.job \in Job
  BY DEF IInv, TypeOK
<1> HIDE DEF Job
<1> QED
  BY <1>1

\* The line is a sequence of jobs, and the storage is right about it.
LEMMA WayType ==
  ASSUME IInv PROVE Way \in Seq(Job) /\ Stored(history, Way, cache, nextId, styles)
<1>1. completions \in Seq(Job) /\ jobs \in Seq(Job) /\ worker.job \in Job
  BY DEF IInv, TypeOK
<1>2. (IF worker.pc = "send" THEN <<worker.job>> ELSE <<>>) \in Seq(Job)
  <2> HIDE DEF Job
  <2> QED
    BY <1>1
<1>3. Way \in Seq(Job)
  <2>1. PICK m : m = (IF worker.pc = "send" THEN <<worker.job>> ELSE <<>>) /\ m \in Seq(Job)
    BY <1>2
  <2>2. (completions \o m) \o jobs \in Seq(Job)
    <3> HIDE DEF Job
    <3> QED
      BY <1>1, <2>1
  <2> QED
    BY <2>1, <2>2 DEF Way
<1> QED
  BY <1>3 DEF IInv, StoredOK

\* The worker taking a job leaves the line as it is.
LEMMA TakeWay ==
  ASSUME IInv, WorkerTake
  PROVE  /\ Way' = Way /\ jobs' \in Seq(Job) /\ Len(jobs') = Len(jobs) - 1
         /\ worker'.job \in Job /\ worker'.pc = "send"
<1>1. completions \in Seq(Job) /\ jobs \in Seq(Job) /\ worker.job \in Job
  BY DEF IInv, TypeOK
<1>2. /\ worker.pc = "recv" /\ jobs # <<>> /\ worker' = [pc |-> "send", job |-> Head(jobs)]
      /\ jobs' = Tail(jobs) /\ completions' = completions
  BY DEF WorkerTake
<1>3. worker'.pc = "send" /\ worker'.job = Head(jobs)
  BY <1>2
<1>4. Way' = Way
  <2>1. PICK u, v : u = Way /\ v = Way'
    OBVIOUS
  <2>2. u = Line(completions, <<>>, jobs)
    BY <1>2, <2>1 DEF Way, Line
  <2>3. v = Line(completions, <<Head(jobs)>>, Tail(jobs))
    BY <1>2, <1>3, <2>1 DEF Way, Line
  <2>4. completions \in Seq(Job) /\ jobs \in Seq(Job) /\ jobs # <<>>
    BY <1>1, <1>2
  <2>5. u = v
    BY <2>2, <2>3, <2>4, Taking
  <2> QED
    BY <2>1, <2>5
<1>5. Head(jobs) \in Job /\ Tail(jobs) \in Seq(Job) /\ Len(Tail(jobs)) = Len(jobs) - 1
  <2> HIDE DEF Job
  <2> QED
    BY <1>1, <1>2
<1> QED
  BY <1>2, <1>3, <1>4, <1>5

\* The worker sending its job leaves the line as it is.
LEMMA SendWay ==
  ASSUME IInv, WorkerSend
  PROVE  /\ Way' = Way /\ completions' \in Seq(Job) /\ Len(completions') = Len(completions) + 1
         /\ worker'.pc = "sent" /\ worker'.job \in Job
<1>1. completions \in Seq(Job) /\ jobs \in Seq(Job) /\ worker.job \in Job
  BY DEF IInv, TypeOK
<1>2. /\ worker.pc = "send" /\ worker' = [pc |-> "sent", job |-> NoPage]
      /\ jobs' = jobs /\ completions' = Append(completions, worker.job)
  BY DEF WorkerSend
<1>3. worker'.pc = "sent" /\ worker'.job = NoPage
  BY <1>2
<1>4. Way' = Way
  <2>1. PICK u, v, j : u = Way /\ v = Way' /\ j = worker.job
    OBVIOUS
  <2>2. u = Line(completions, <<j>>, jobs)
    BY <1>2, <2>1 DEF Way, Line
  <2>3. v = Line(Append(completions, j), <<>>, jobs)
    BY <1>2, <1>3, <2>1 DEF Way, Line
  <2>4. completions \in Seq(Job) /\ jobs \in Seq(Job) /\ j \in Job
    BY <1>1, <2>1
  <2>5. u = v
    BY <2>2, <2>3, <2>4, Sending
  <2> QED
    BY <2>1, <2>5
<1>5. NoPage \in Job
  <2>1. <<>> \in Seq(Row) /\ 0 \in Nat
    OBVIOUS
  <2> QED
    BY <2>1 DEF NoPage, Job
<1>6. completions' \in Seq(Job) /\ Len(completions') = Len(completions) + 1
  <2> HIDE DEF Job
  <2> QED
    BY <1>1, <1>2
<1> QED
  BY <1>2, <1>3, <1>4, <1>5, <1>6

\* The worker counting down or ending leaves the line as it is.
LEMMA CountWay ==
  ASSUME IInv, WorkerCount \/ WorkerExit
  PROVE  /\ Way' = Way /\ worker'.pc \in {"recv", "gone"} /\ worker'.job = worker.job
         /\ worker.pc \in {"recv", "sent"}
         /\ (WorkerCount => worker.pc = "sent" /\ worker'.pc = "recv")
         /\ (WorkerExit => worker.pc = "recv" /\ worker'.pc = "gone")
<1>0. worker.pc \in {"recv", "sent"} /\ jobs' = jobs /\ completions' = completions
  BY DEF WorkerCount, WorkerExit
<1>1. PICK x \in {"recv", "gone"} : worker' = [worker EXCEPT !.pc = x]
  BY DEF WorkerCount, WorkerExit
<1>2. worker'.pc = x /\ worker'.job = worker.job
  <2>1. worker \in [pc : {"recv", "send", "sent", "gone"}, job : Job]
    BY DEF IInv, TypeOK
  <2> HIDE DEF Job
  <2> QED
    BY <1>1, <2>1
<1>3. Way' = Way
  BY <1>0, <1>1, <1>2 DEF Way
<1>4. /\ (WorkerCount => worker.pc = "sent" /\ worker'.pc = "recv")
      /\ (WorkerExit => worker.pc = "recv" /\ worker'.pc = "gone")
  <2>1. ASSUME WorkerCount PROVE worker.pc = "sent" /\ worker' = [worker EXCEPT !.pc = "recv"]
    BY <2>1 DEF WorkerCount
  <2>2. ASSUME WorkerExit PROVE worker.pc = "recv" /\ worker' = [worker EXCEPT !.pc = "gone"]
    BY <2>2 DEF WorkerExit
  <2>3. worker \in [pc : {"recv", "send", "sent", "gone"}, job : Job]
    BY DEF IInv, TypeOK
  <2> HIDE DEF Job
  <2> QED
    BY <2>1, <2>2, <2>3
<1> QED
  BY <1>0, <1>1, <1>2, <1>3, <1>4

\* What apply_compression_completion does to the storage.
LEMMA Applied ==
  ASSUME IInv, ApplyCompletion
  PROVE  /\ history' \in Seq(Page) /\ Len(history') = Len(history)
         /\ Stored(history', Way', cache', nextId', styles')
         /\ completions' \in Seq(Job) /\ Len(completions') = Len(completions) - 1
         /\ Len(completions) > 0
         /\ pending' = pending - 1 /\ pending > 0 /\ CountersTellTheTruth'
         /\ \A i \in DOMAIN history :
              /\ history'[i].lines = history[i].lines
              /\ Hot(history'[i]) => history'[i] = history[i]
              /\ Hot(history[i]) => history'[i] = history[i]
              /\ Cold(history[i]) => history'[i] = history[i]
              /\ Away(history'[i]) => history'[i] = history[i]
<1>1. /\ completions \in Seq(Job) /\ jobs \in Seq(Job) /\ worker.job \in Job
      /\ history \in Seq(Page)
      /\ nextId \in Nat \ {0} /\ queued \in Nat /\ pending \in Nat /\ CountersTellTheTruth
  BY DEF IInv, TypeOK
<1>2. /\ completions # <<>>
      /\ history' = [i \in DOMAIN history |-> Landed(history[i], Head(completions))]
      /\ completions' = Tail(completions) /\ pending' = pending - 1
      /\ UNCHANGED <<jobs, queued, worker, cache, nextId, styles>>
  BY DEF ApplyCompletion, Quietly
<1>3. PICK m : m = (IF worker.pc = "send" THEN <<worker.job>> ELSE <<>>) /\ m \in Seq(Job)
  BY HeldType
<1>4. /\ Way = (completions \o m) \o jobs /\ Way' = (Tail(completions) \o m) \o jobs
  BY <1>2, <1>3 DEF Way
<1>5. Way \in Seq(Job) /\ Way # <<>> /\ Head(Way) = Head(completions) /\ Way' = Tail(Way)
  <2>1. Way = Line(completions, m, jobs) /\ Way' = Line(Tail(completions), m, jobs)
    BY <1>4 DEF Line
  <2>2. completions \in Seq(Job) /\ jobs \in Seq(Job) /\ m \in Seq(Job) /\ completions # <<>>
    BY <1>1, <1>2, <1>3
  <2> QED
    BY <2>1, <2>2, LandingWay
<1>6. /\ history' \in Seq(Page) /\ Len(history') = Len(history)
      /\ Stored(history', Tail(Way), cache, nextId, styles)
      /\ \A i \in DOMAIN history :
           /\ history'[i].lines = history[i].lines /\ history'[i].gen = history[i].gen
           /\ history'[i].id = history[i].id
           /\ Hot(history'[i]) => history'[i] = history[i]
           /\ Hot(history[i]) => history'[i] = history[i]
           /\ Cold(history[i]) => history'[i] = history[i]
           /\ Away(history'[i]) => history'[i] = history[i]
  <2>1. Stored(history, Way, cache, nextId, styles)
    BY WayType
  <2>2. PICK h, w, g : h = history /\ w = Way /\ g = history'
    OBVIOUS
  <2>3. g = LandedAll(h, Head(w))
    BY <1>2, <1>5, <2>2 DEF LandedAll
  <2>4. /\ h \in Seq(Page) /\ w \in Seq(Job) /\ w # <<>>
        /\ Stored(h, w, cache, nextId, styles)
        /\ nextId \in Nat \ {0}
    BY <1>1, <1>5, <2>1, <2>2
  <2>5. /\ g \in Seq(Page) /\ Len(g) = Len(h) /\ Stored(g, Tail(w), cache, nextId, styles)
        /\ OnlyLanded(h, g)
    BY <2>3, <2>4, StoredApply
  <2> QED
    BY <2>2, <2>5 DEF OnlyLanded
<1>7. /\ Tail(completions) \in Seq(Job) /\ Len(Tail(completions)) = Len(completions) - 1
      /\ Len(completions) \in Nat
      /\ Len(completions) > 0
  <2> HIDE DEF Job
  <2> QED
    BY <1>1, <1>2
<1>8. pending > 0 /\ CountersTellTheTruth'
  <2>1. /\ pending' = pending - 1 /\ Len(completions') = Len(completions) - 1
        /\ UNCHANGED <<jobs, queued, worker>>
    BY <1>2, <1>7
  <2>2. pending = Len(completions) + (IF worker.pc = "send" THEN 1 ELSE 0)
    BY <1>1 DEF CountersTellTheTruth
  <2>2a. worker'.pc = worker.pc
    BY <2>1
  <2>3. pending > 0 /\ pending' = Len(completions') + (IF worker'.pc = "send" THEN 1 ELSE 0)
    <3>1. /\ pending' = pending - 1 /\ Len(completions') = Len(completions) - 1
          /\ Len(completions) \in Nat /\ Len(completions) > 0
      BY <1>7, <2>1
    <3> QED
      BY <2>2, <2>2a, <3>1
  <2> QED
    BY <1>1, <2>1, <2>3 DEF CountersTellTheTruth
<1> QED
  BY <1>2, <1>5, <1>6, <1>7, <1>8

\* What a page enqueued for compression does to the storage.
LEMMA QueuedWay ==
  ASSUME IInv, NEW i \in 0..(Len(history) - 1), Hot(history[i + 1]), Enqueued(i),
         UNCHANGED <<completions, worker, pending, cache, nextId, styles>>
  PROVE  /\ history' \in Seq(Page) /\ Len(history') = Len(history)
         /\ Stored(history', Way', cache', nextId', styles')
         /\ jobs' \in Seq(Job) /\ Len(jobs') = Len(jobs) + 1 /\ Len(jobs) < QueueCap
         /\ queued' = queued + 1 /\ CountersTellTheTruth'
         /\ \A l \in DOMAIN history : /\ l # i + 1 => history'[l] = history[l]
                                      /\ history'[l].lines = history[l].lines
         /\ Away(history'[i + 1])
<1>1. /\ completions \in Seq(Job) /\ jobs \in Seq(Job) /\ worker.job \in Job
      /\ history \in Seq(Page)
      /\ nextId \in Nat \ {0} /\ queued \in Nat /\ pending \in Nat /\ CountersTellTheTruth
  BY DEF IInv, TypeOK
<1> DEFINE k == i + 1
           p == history[k]
           j == [page |-> p.id, gen |-> p.gen, rows |-> p.rows]
<1>2. k \in DOMAIN history /\ p \in Page
  <2> HIDE DEF Page
  <2> QED
    BY <1>1
<1>3. /\ Len(jobs) < QueueCap /\ jobs' = Append(jobs, j) /\ queued' = queued + 1
      /\ history' = [history EXCEPT ![k].kind = "none", ![k].rows = <<>>, ![k].pending = TRUE]
  BY DEF Enqueued
<1>4. j \in Job /\ j.page = p.id /\ j.gen = p.gen /\ j.rows = p.rows
  BY <1>2 DEF Page, Job
<1>5. PICK q : q = Sent(p)
  OBVIOUS
<1>6. history' = [history EXCEPT ![k] = q]
  <2> HIDE DEF Page
  <2> QED
    BY <1>1, <1>2, <1>3, <1>5 DEF Sent
<1>7. /\ q \in Page /\ PageOK(q, styles) /\ Away(q) /\ ~Hot(q)
      /\ q.id = p.id /\ q.gen = p.gen /\ q.lines = p.lines
  <2>1. PageOK(p, styles)
    BY <1>2, WayType DEF Stored, PagesFit
  <2> QED
    BY <1>2, <1>5, <2>1, SentPage
<1> HIDE DEF j
<1>8. PICK m : m = (IF worker.pc = "send" THEN <<worker.job>> ELSE <<>>) /\ m \in Seq(Job)
  BY HeldType
<1>9. Way = (completions \o m) \o jobs /\ Way' = (completions \o m) \o Append(jobs, j)
  BY <1>3, <1>8 DEF Way
<1>10. /\ Way \in Seq(Job) /\ Way' \in Seq(Job) /\ Len(Way') = Len(Way) + 1
       /\ Way'[Len(Way) + 1] = j
       /\ \A l \in 1..Len(Way) : Way'[l] = Way[l]
  <2>1. Way = Line(completions, m, jobs) /\ Way' = Line(completions, m, Append(jobs, j))
    BY <1>9 DEF Line
  <2>2. completions \in Seq(Job) /\ jobs \in Seq(Job) /\ m \in Seq(Job) /\ j \in Job
    BY <1>1, <1>4, <1>8
  <2> QED
    BY <2>1, <2>2, QueueingWay
<1>11. /\ history' \in Seq(Page) /\ Len(history') = Len(history)
       /\ DOMAIN history' = DOMAIN history
       /\ history'[k] = q /\ \A l \in DOMAIN history : l # k => history'[l] = history[l]
  <2> HIDE DEF Page, k, p
  <2> QED
    BY <1>1, <1>2, <1>6, <1>7
<1>12. Stored(history', Way', cache, nextId, styles)
  <2>1. PICK h, g, w, v : h = history /\ g = history' /\ w = Way /\ v = Way'
    OBVIOUS
  <2>2. /\ h \in Seq(Page) /\ g \in Seq(Page) /\ Stored(h, w, cache, nextId, styles)
        /\ k \in DOMAIN h
        /\ PageOK(g[k], styles)
    BY <1>1, <1>2, <1>7, <1>11, <2>1, WayType
  <2>3. Leaves(h, g, k)
    BY <1>7, <1>11, <2>1 DEF Leaves
  <2>4. OneMore(w, v, h[k])
    <3>1. /\ Len(w) \in Nat /\ DOMAIN w = 1..Len(w) /\ DOMAIN v = 1..(Len(w) + 1)
          /\ \A l \in 1..Len(w) : v[l] = w[l]
      BY <1>10, <2>1
    <3>2. /\ v[Len(w) + 1].page = h[k].id /\ v[Len(w) + 1].gen = h[k].gen
          /\ v[Len(w) + 1].rows = h[k].rows
      BY <1>4, <1>10, <2>1
    <3> QED
      BY <3>1, <3>2 DEF OneMore
  <2> HIDE DEF k, p
  <2>5. Stored(g, v, cache, nextId, styles)
    BY <1>1, <2>2, <2>3, <2>4, StoredEnqueue
  <2> QED
    BY <2>1, <2>5
<1>13. jobs' \in Seq(Job) /\ Len(jobs') = Len(jobs) + 1 /\ Len(jobs) \in Nat
  <2> HIDE DEF Job
  <2> QED
    BY <1>1, <1>3, <1>4
<1>14. CountersTellTheTruth'
  BY <1>1, <1>3, <1>13 DEF CountersTellTheTruth
<1> QED
  BY <1>2, <1>3, <1>7, <1>11, <1>12, <1>13, <1>14

\* The plans of a read, and what is left of each after a step.
LEMMA ReadTail ==
  ASSUME NEW t \in ReadTails
  PROVE  /\ t # <<>> /\ t \in Seq(Steps) /\ Within("read", t)
         /\ \/ /\ Head(t) = "wait" /\ Tail(t) = <<"apply", "scan", "read">>
               /\ Tail(t) \in ReadTails /\ Head(Tail(t)) = "apply"
            \/ /\ Head(t) = "apply" /\ Tail(t) = <<"scan", "read">> /\ Tail(t) \in ReadTails
               /\ Head(Tail(t)) = "scan"
            \/ /\ Head(t) = "scan" /\ Tail(t) = <<"read">> /\ Tail(t) \in ReadTails
               /\ Head(Tail(t)) = "read"
            \/ Head(t) = "read" /\ Tail(t) = <<>>
<1>1. CASE t = <<"wait", "apply", "scan", "read">>
  <2>1. /\ 4 \in DOMAIN t /\ t[4] = "read" /\ Head(t) = "wait"
        /\ Tail(t) = <<"apply", "scan", "read">> /\ t \in Seq(Steps)
    BY <1>1 DEF Steps
  <2> QED
    BY <2>1 DEF ReadTails, Within
<1>2. CASE t = <<"apply", "scan", "read">>
  <2>1. /\ 3 \in DOMAIN t /\ t[3] = "read" /\ Head(t) = "apply"
        /\ Tail(t) = <<"scan", "read">> /\ t \in Seq(Steps)
    BY <1>2 DEF Steps
  <2> QED
    BY <2>1 DEF ReadTails, Within
<1>3. CASE t = <<"scan", "read">>
  <2>1. /\ 2 \in DOMAIN t /\ t[2] = "read" /\ Head(t) = "scan" /\ Tail(t) = <<"read">>
        /\ t \in Seq(Steps)
    BY <1>3 DEF Steps
  <2> QED
    BY <2>1 DEF ReadTails, Within
<1>4. CASE t = <<"read">>
  <2>1. /\ 1 \in DOMAIN t /\ t[1] = "read" /\ Head(t) = "read" /\ Tail(t) = <<>>
        /\ t \in Seq(Steps)
    BY <1>4 DEF Steps
  <2> QED
    BY <2>1 DEF ReadTails, Within
<1> QED
  BY <1>1, <1>2, <1>3, <1>4 DEF ReadTails

\* A plan whose first step is none of a read's is not a read.
LEMMA NotReading ==
  ASSUME IInv, todo # <<>>, Head(todo) \notin {"wait", "apply", "scan", "read"}
  PROVE  ~Within("read", todo)
<1> SUFFICES ASSUME Within("read", todo) PROVE FALSE
  OBVIOUS
<1>1. todo \in ReadTails
  BY DEF IInv, TodoOK, ReadOK
<1> QED
  BY <1>1, ReadTail

\* No scan is going on unless a scan is the first step to do.
LEMMA Idle ==
  ASSUME IInv, todo # <<>> => Head(todo) # "scan" PROVE scan = NotScanning
  BY DEF IInv, TodoOK, ScanOK, At

\* What the invariant says of the rest of the plan.
LEMMA Pop ==
  ASSUME IInv, todo # <<>>, NEW t, t = Tail(todo)
  PROVE  /\ t \in Seq(Steps) /\ EnforcedAfter(t) /\ Head(todo) \in Steps
         /\ Head(todo) \notin Adds => AddsFit(t, fed)
         /\ Head(todo) \in Adds => fed + 1 <= MaxRows /\ AddsFit(t, fed + 1)
         /\ \A x : Within(x, todo) <=> Head(todo) = x \/ Within(x, t)
         /\ Within("read", t) =>
              /\ todo \in ReadTails /\ t \in ReadTails /\ t # <<>>
              /\ \/ Head(todo) = "wait" /\ Head(t) = "apply"
                 \/ Head(todo) = "apply" /\ Head(t) = "scan"
                 \/ Head(todo) = "scan" /\ Head(t) = "read"
<1>1. todo \in Seq(Steps) /\ fed \in Nat /\ AddsFit(todo, fed) /\ EnforcedAfter(todo)
  BY StorageAssumption DEF IInv, TypeOK, TodoOK, Steps
<1>2. t \in Seq(Steps) /\ Head(todo) \in Steps
  BY <1>1
<1>3. EnforcedAfter(t)
  BY <1>1, EnforcedTail
<1>4. /\ Head(todo) \notin Adds => AddsFit(t, fed)
      /\ Head(todo) \in Adds => fed + 1 <= MaxRows /\ AddsFit(t, fed + 1)
  BY <1>1, AddsTail
<1>5. \A x : Within(x, todo) <=> Head(todo) = x \/ Within(x, t)
  BY <1>1, WithinTail
<1>6. ASSUME Within("read", t) PROVE todo \in ReadTails /\ t # <<>>
  BY <1>5, <1>6 DEF IInv, TodoOK, ReadOK, Within
<1>7. ASSUME Within("read", t)
      PROVE  /\ t \in ReadTails
             /\ \/ Head(todo) = "wait" /\ Head(t) = "apply"
                \/ Head(todo) = "apply" /\ Head(t) = "scan"
                \/ Head(todo) = "scan" /\ Head(t) = "read"
  BY <1>6, <1>7, ReadTail
<1> QED
  BY <1>2, <1>3, <1>4, <1>5, <1>6, <1>7

\* Steps put before a plan.
LEMMA Prepend ==
  ASSUME NEW t \in Seq(Steps), NEW p \in Seq(Steps), NEW n \in Nat, AddsFit(t, n),
         EnforcedAfter(t),
         ~Within("ingest", p), ~Within("push", p), NEW u, u = p \o t
  PROVE  /\ u \in Seq(Steps) /\ AddsFit(u, n) /\ EnforcedAfter(u)
         /\ \A x : Within(x, u) <=> Within(x, p) \/ Within(x, t)
         /\ p # <<>> => u # <<>> /\ Head(u) = Head(p)
<1>1. u \in Seq(Steps) /\ (p # <<>> => u # <<>> /\ Head(u) = Head(p))
  <2> HIDE DEF Steps
  <2> QED
    OBVIOUS
<1>2. AddsFit(u, n)
  BY AddsPlus
<1>3. EnforcedAfter(u)
  BY EnforcedPlus
<1>4. \A x : Within(x, u) <=> Within(x, p) \/ Within(x, t)
  BY WithinPlus
<1> QED
  BY <1>1, <1>2, <1>3, <1>4

\* The steps of the short plans.
LEMMA Literals ==
  /\ <<"scan">> \in Seq(Steps) /\ <<"scan">> # <<>> /\ Head(<<"scan">>) = "scan"
  /\ \A x : Within(x, <<"scan">>) <=> x = "scan"
  /\ <<"scan", "enforce">> \in Seq(Steps) /\ <<"scan", "enforce">> # <<>>
  /\ Head(<<"scan", "enforce">>) = "scan"
  /\ \A x : Within(x, <<"scan", "enforce">>) <=> x = "scan" \/ x = "enforce"
  /\ <<"recv", "apply">> \in Seq(Steps) /\ <<"recv", "apply">> # <<>>
  /\ Head(<<"recv", "apply">>) = "recv"
  /\ \A x : Within(x, <<"recv", "apply">>) <=> x = "recv" \/ x = "apply"
<1>1. \A x : Within(x, <<"scan">>) <=> x = "scan"
  BY DEF Within
<1>2. \A x : Within(x, <<"scan", "enforce">>) <=> x = "scan" \/ x = "enforce"
  <2> DEFINE t == <<"scan", "enforce">>
  <2>1. DOMAIN t = {1, 2} /\ t[1] = "scan" /\ t[2] = "enforce"
    OBVIOUS
  <2> HIDE DEF t
  <2>2. \A x : Within(x, t) <=> x = "scan" \/ x = "enforce"
    BY <2>1 DEF Within
  <2> QED
    BY <2>2 DEF t
<1>3. \A x : Within(x, <<"recv", "apply">>) <=> x = "recv" \/ x = "apply"
  <2> DEFINE t == <<"recv", "apply">>
  <2>1. DOMAIN t = {1, 2} /\ t[1] = "recv" /\ t[2] = "apply"
    OBVIOUS
  <2> HIDE DEF t
  <2>2. \A x : Within(x, t) <=> x = "recv" \/ x = "apply"
    BY <2>1 DEF Within
  <2> QED
    BY <2>2 DEF t
<1>4. /\ <<"scan">> \in Seq(Steps) /\ <<"scan">> # <<>> /\ Head(<<"scan">>) = "scan"
      /\ <<"scan", "enforce">> \in Seq(Steps) /\ <<"scan", "enforce">> # <<>>
      /\ Head(<<"scan", "enforce">>) = "scan"
      /\ <<"recv", "apply">> \in Seq(Steps) /\ <<"recv", "apply">> # <<>>
      /\ Head(<<"recv", "apply">>) = "recv"
  BY DEF Steps
<1> QED
  BY <1>1, <1>2, <1>3, <1>4

\* Steps that do not touch the storage keep what is said of it.
LEMMA StoreFrame ==
  ASSUME IInv,
         UNCHANGED <<history, logical, nextId, cache, styles, jobs, completions, worker, queued, pending>>
  PROVE  StoredOK' /\ LogicalOK' /\ CountersTellTheTruth'
<1>1. Way' = Way
  BY DEF Way
<1>2. StoredOK'
  BY <1>1 DEF IInv, StoredOK
<1> QED
  BY <1>2 DEF IInv, LogicalOK, CountersTellTheTruth

\* Steps that touch neither the pages nor the limit keep LimitOK.
LEMMA LimitFrame ==
  ASSUME IInv, UNCHANGED <<history, logical, limit>>,
         Within("enforce", todo) => Within("enforce", todo'), Within("push", todo) => Within("push", todo')
  PROVE  LimitOK'
  BY DEF IInv, LimitOK

\* Steps that touch neither the pages nor the cursor keep CursorOK.
LEMMA CursorFrame ==
  ASSUME IInv, UNCHANGED <<history, cursor>>, scan' = NotScanning,
         Within("push", todo') => Within("push", todo) /\ ~At("scan")
  PROVE  CursorOK'
<1>1. Sealed(history, cursor) /\ (Within("push", todo') => history = <<>> \/ cursor < Len(history))
  BY DEF IInv, CursorOK
<1> QED
  BY <1>1 DEF CursorOK

\* A step done that adds no row keeps TodoOK.
LEMMA TodoFrame ==
  ASSUME IInv, todo # <<>>, todo' = Tail(todo), Head(todo) \notin Adds, fed' = fed,
         scan' = NotScanning, Within("read", todo') => ReadOK'
  PROVE  TodoOK' /\ todo' \in Seq(Steps)
<1>1. todo' \in Seq(Steps) /\ EnforcedAfter(todo') /\ AddsFit(todo', fed)
  BY Pop
<1>2. ReadOK'
  BY DEF ReadOK
<1> QED
  BY <1>1, <1>2 DEF TodoOK, ScanOK

\* Every step of the worker keeps the invariant.
LEMMA WorkerKeeps == ASSUME IInv, Worker PROVE IInv'
<1>1. /\ UNCHANGED owner /\ history' = history /\ logical' = logical /\ nextId' = nextId
      /\ cursor' = cursor
      /\ cache' = cache /\ limit' = limit /\ todo' = todo /\ scan' = scan /\ arg' = arg
      /\ answer' = answer
      /\ fed' = fed /\ styles' = styles /\ open' = open
  BY DEF Worker, WorkerTake, WorkerSend, WorkerCount, WorkerExit, owner
<1>2. /\ jobs \in Seq(Job) /\ Len(jobs) <= QueueCap /\ completions \in Seq(Job)
      /\ Len(completions) <= CompletionCap
      /\ queued \in Nat /\ pending \in Nat
      /\ worker \in [pc : {"recv", "send", "sent", "gone"}, job : Job]
      /\ queued = Len(jobs) + (IF worker.pc \in {"send", "sent"} THEN 1 ELSE 0)
      /\ pending = Len(completions) + (IF worker.pc = "send" THEN 1 ELSE 0)
  BY DEF IInv, TypeOK, CountersTellTheTruth
<1>3. /\ Way' = Way
      /\ jobs' \in Seq(Job) /\ Len(jobs') <= QueueCap /\ completions' \in Seq(Job)
      /\ Len(completions') <= CompletionCap
      /\ queued' \in Nat /\ pending' \in Nat
      /\ worker' \in [pc : {"recv", "send", "sent", "gone"}, job : Job]
      /\ queued' = Len(jobs') + (IF worker'.pc \in {"send", "sent"} THEN 1 ELSE 0)
      /\ pending' = Len(completions') + (IF worker'.pc = "send" THEN 1 ELSE 0)
      /\ queued = 0 => queued' = 0
  <2>1. CASE WorkerTake
    <3>1. /\ worker.pc = "recv" /\ jobs # <<>>
          /\ worker' = [pc |-> "send", job |-> Head(jobs)]
          /\ pending' = pending + 1 /\ completions' = completions /\ queued' = queued
      BY <2>1 DEF WorkerTake
    <3>2. /\ Way' = Way /\ jobs' \in Seq(Job) /\ Len(jobs') = Len(jobs) - 1
          /\ Len(jobs) \in Nat
          /\ Len(completions) \in Nat /\ worker'.job \in Job /\ worker'.pc = "send"
      BY <1>2, <2>1, TakeWay
    <3>3. worker' \in [pc : {"recv", "send", "sent", "gone"}, job : Job]
      BY <3>1, <3>2
    <3>4. /\ queued' = Len(jobs') + 1 /\ pending' = Len(completions') + 1
          /\ Len(jobs') <= QueueCap
          /\ queued' \in Nat /\ pending' \in Nat
      BY <1>2, <3>1, <3>2, StorageAssumption
    <3> QED
      BY <1>2, <3>1, <3>2, <3>3, <3>4
  <2>2. CASE WorkerSend
    <3>1. /\ worker.pc = "send" /\ worker' = [pc |-> "sent", job |-> NoPage]
          /\ Len(completions) < CompletionCap
          /\ pending' = pending /\ jobs' = jobs /\ queued' = queued
      BY <2>2 DEF WorkerSend
    <3>2. /\ Way' = Way /\ completions' \in Seq(Job)
          /\ Len(completions') = Len(completions) + 1 /\ Len(jobs) \in Nat
          /\ Len(completions) \in Nat /\ worker'.job \in Job /\ worker'.pc = "sent"
      BY <1>2, <2>2, SendWay
    <3>3. worker' \in [pc : {"recv", "send", "sent", "gone"}, job : Job]
      BY <3>1, <3>2
    <3>4. /\ queued' = Len(jobs') + 1 /\ pending' = Len(completions')
          /\ Len(completions') <= CompletionCap
      BY <1>2, <3>1, <3>2, StorageAssumption
    <3> QED
      BY <1>2, <3>1, <3>2, <3>3, <3>4
  <2>3. CASE WorkerCount \/ WorkerExit
    <3>1. /\ UNCHANGED <<jobs, completions, pending>> /\ (WorkerCount => queued' = queued - 1)
          /\ (WorkerExit => queued' = queued)
      BY <2>3 DEF WorkerCount, WorkerExit
    <3>2. /\ Way' = Way /\ worker'.pc \in {"recv", "gone"} /\ worker'.job = worker.job
          /\ worker.pc \in {"recv", "sent"}
          /\ (WorkerCount => worker.pc = "sent" /\ worker'.pc = "recv")
          /\ (WorkerExit => worker.pc = "recv" /\ worker'.pc = "gone")
      BY <2>3, CountWay
    <3>3. worker' \in [pc : {"recv", "send", "sent", "gone"}, job : Job]
      <4>1. PICK x \in {"recv", "gone"} : worker' = [worker EXCEPT !.pc = x]
        BY <2>3 DEF WorkerCount, WorkerExit
      <4> HIDE DEF Job
      <4> QED
        BY <1>2, <4>1
    <3>4. /\ queued' = Len(jobs') /\ pending' = Len(completions') /\ queued' \in Nat
          /\ (queued = 0 => queued' = 0)
      <4>1. /\ Len(jobs) \in Nat /\ Len(completions) \in Nat /\ Len(jobs') = Len(jobs)
            /\ Len(completions') = Len(completions)
        BY <1>2, <3>1
      <4>2. CASE WorkerCount
        BY <1>2, <3>1, <3>2, <4>1, <4>2
      <4>3. CASE WorkerExit
        BY <1>2, <3>1, <3>2, <4>1, <4>3
      <4> QED
        BY <2>3, <4>2, <4>3
    <3>5. jobs' = jobs /\ completions' = completions /\ pending' = pending
      BY <3>1
    <3> QED
      BY <1>2, <3>2, <3>3, <3>4, <3>5
  <2> QED
    BY <2>1, <2>2, <2>3 DEF Worker
<1>4. TypeOK'
  BY <1>1, <1>3 DEF IInv, TypeOK
<1>5. CountersTellTheTruth'
  BY <1>3 DEF CountersTellTheTruth
<1>6. StoredOK'
  BY <1>1, <1>3 DEF IInv, StoredOK
<1>7. TodoOK'
  <2>1. AddsFit(todo', fed') /\ EnforcedAfter(todo')
    BY <1>1 DEF IInv, TodoOK
  <2>2. ReadOK'
    BY <1>1, <1>3 DEF IInv, TodoOK, ReadOK
  <2>3. ScanOK'
    BY <1>1 DEF IInv, TodoOK, ScanOK, At
  <2> QED
    BY <2>1, <2>2, <2>3 DEF TodoOK
<1>8. LimitOK' /\ CursorOK' /\ LogicalOK'
  BY <1>1 DEF IInv, LimitOK, CursorOK, LogicalOK, At
<1> QED
  BY <1>4, <1>5, <1>6, <1>7, <1>8 DEF IInv

\* A step that only waits, once there is nothing to wait for, keeps the invariant.
LEMMA Popped ==
  ASSUME IInv, todo # <<>>, todo' = Tail(todo),
         Head(todo) \notin {"ingest", "push", "scan", "enforce", "read"},
         UNCHANGED <<history, logical, nextId, cursor, cache, limit, arg, answer, fed, styles, open, scan>>,
         UNCHANGED <<jobs, completions, queued, pending, worker>>,
         Head(todo) = "wait" => queued = 0, Head(todo) = "apply" => completions = <<>>
  PROVE  IInv'
<1>1. scan = NotScanning /\ scan' = NotScanning
  BY Idle
<1>2. /\ Within("push", todo) <=> Within("push", todo')
      /\ Within("enforce", todo) <=> Within("enforce", todo')
  BY Pop
<1>3. ASSUME Within("read", todo') PROVE ReadOK'
  <2>1. /\ todo \in ReadTails /\ todo' \in ReadTails /\ Within("read", todo)
        /\ \/ Head(todo) = "wait" /\ Head(todo') = "apply"
           \/ Head(todo) = "apply" /\ Head(todo') = "scan"
    BY <1>3, Pop
  <2>2. /\ arg[1] \in DOMAIN history /\ arg[2] \in 1..history[arg[1]].lines
        /\ ~Hot(history[arg[1]])
        /\ Head(todo) = "apply" => queued = 0
    BY <2>1 DEF IInv, TodoOK, ReadOK
  <2>3. ASSUME Head(todo) = "apply" PROVE ~Away(history[arg[1]])
    <3>1. queued = 0 /\ completions = <<>>
      BY <2>2, <2>3
    <3>2. worker.pc \notin {"send", "sent"} /\ jobs = <<>>
      <4>1. /\ jobs \in Seq(Job) /\ worker.pc \in {"recv", "send", "sent", "gone"}
            /\ queued = Len(jobs) + (IF worker.pc \in {"send", "sent"} THEN 1 ELSE 0)
        BY DEF IInv, TypeOK, CountersTellTheTruth
      <4>2. Len(jobs) = 0 /\ worker.pc \notin {"send", "sent"}
        BY <3>1, <4>1
      <4> QED
        BY <4>1, <4>2
    <3>3. Way = <<>>
      BY <3>1, <3>2 DEF Way
    <3>4. JobsFit(Way, history, nextId, styles)
      BY DEF IInv, StoredOK, Stored
    <3> QED
      BY <2>2, <3>3, <3>4 DEF JobsFit
  <2>4. /\ arg[1] \in DOMAIN history' /\ arg[2] \in 1..history'[arg[1]].lines
        /\ ~Hot(history'[arg[1]]) /\ arg' = arg
        /\ Head(todo') = "apply" => queued' = 0
        /\ Head(todo') \in {"scan", "read"} => ~Away(history'[arg[1]])
    BY <2>1, <2>2, <2>3
  <2> QED
    BY <2>1, <2>4 DEF ReadOK
<1>4. TodoOK' /\ todo' \in Seq(Steps)
  BY <1>1, <1>3, TodoFrame DEF Adds
<1>5. TypeOK'
  BY <1>4 DEF IInv, TypeOK, Steps
<1>6. StoredOK' /\ LogicalOK' /\ CountersTellTheTruth'
  BY StoreFrame
<1>7. LimitOK'
  BY <1>2, LimitFrame
<1>8. CursorOK'
  BY <1>1, <1>2, CursorFrame DEF At
<1> QED
  BY <1>4, <1>5, <1>6, <1>7, <1>8 DEF IInv

\* A completion applied keeps the parts of the invariant that are not about the plan.
LEMMA AppliedParts ==
  ASSUME IInv, ApplyCompletion, todo # <<>>, Head(todo) # "scan", todo' \in Seq(Steps),
         Within("enforce", todo) => Within("enforce", todo'), Within("push", todo) <=> Within("push", todo')
  PROVE  TypeOK' /\ CountersTellTheTruth' /\ StoredOK' /\ LimitOK' /\ CursorOK' /\ LogicalOK'
<1>1. /\ UNCHANGED <<jobs, queued, worker, logical, cursor, cache, scan>>
      /\ UNCHANGED <<nextId, limit, arg, answer, fed, styles, open>>
  BY DEF ApplyCompletion, Quietly
<1>2. /\ history' \in Seq(Page) /\ Len(history') = Len(history)
      /\ Stored(history', Way', cache', nextId', styles')
      /\ completions' \in Seq(Job) /\ Len(completions') = Len(completions) - 1
      /\ Len(completions) > 0
      /\ pending' = pending - 1 /\ pending > 0 /\ CountersTellTheTruth'
      /\ \A i \in DOMAIN history :
           /\ history'[i].lines = history[i].lines
           /\ Hot(history'[i]) => history'[i] = history[i]
  BY Applied
<1>3. scan = NotScanning
  BY Idle
<1>4. /\ history \in Seq(Page) /\ completions \in Seq(Job)
      /\ Len(completions) <= CompletionCap
      /\ pending \in Nat
      /\ Len(history) \in Nat /\ DOMAIN history = 1..Len(history)
      /\ DOMAIN history' = 1..Len(history) /\ Len(completions) \in Nat
  BY <1>2 DEF IInv, TypeOK
<1>5. TypeOK'
  <2>1. Len(completions') <= CompletionCap /\ pending' \in Nat
    BY <1>2, <1>4, StorageAssumption
  <2> QED
    BY <1>1, <1>2, <2>1 DEF IInv, TypeOK, Steps
<1>6. LogicalOK'
  <2>1. \A i \in 1..Len(history) : history[i].lines = history'[i].lines
    BY <1>2, <1>4
  <2>2. LinesOf(history, Len(history)) = LinesOf(history', Len(history))
    BY <1>4, <2>1, LinesSame
  <2> QED
    BY <1>1, <1>2, <2>2 DEF IInv, LogicalOK
<1>7. LimitOK'
  <2> SUFFICES ASSUME logical' > limit' /\ ~Within("enforce", todo') /\ ~Within("push", todo')
               PROVE  logical' - limit' < history'[1].lines /\ ~Hot(history'[1])
    BY DEF LimitOK
  <2>1. logical > limit /\ logical - limit < history[1].lines /\ ~Hot(history[1])
    BY <1>1 DEF IInv, LimitOK
  <2>2. 1 \in DOMAIN history
    <3>1. LinesOf(history, 0) = 0
      BY LinesStep
    <3>2. logical = LinesOf(history, Len(history)) /\ limit \in Nat /\ logical \in Nat
      BY StorageAssumption DEF IInv, TypeOK, LogicalOK
    <3>3. Len(history) # 0
      BY <2>1, <3>1, <3>2
    <3> QED
      BY <1>4, <3>3
  <2> QED
    BY <1>1, <1>2, <2>1, <2>2
<1>8. CursorOK'
  <2>1. Sealed(history, cursor) /\ (Within("push", todo) => history = <<>> \/ cursor < Len(history))
    BY DEF IInv, CursorOK, At
  <2>2. Sealed(history', cursor)
    <3>1. \A i \in 1..Len(history) : Eligible(history'[i]) => history'[i] = history[i]
      BY <1>2, <1>4 DEF Eligible
    <3>2. Len(history') = Len(history) /\ \A i \in 1..(Len(history) - 1) : i \in 1..Len(history)
      BY <1>2, <1>4
    <3> QED
      BY <2>1, <3>1, <3>2 DEF Sealed
  <2>3. history = <<>> => history' = <<>>
    BY <1>2, <1>4
  <2>4. Within("push", todo') => history' = <<>> \/ cursor' < Len(history')
    BY <1>1, <1>2, <2>1, <2>3
  <2> QED
    BY <1>1, <1>3, <2>2, <2>4 DEF CursorOK
<1> QED
  BY <1>2, <1>5, <1>6, <1>7, <1>8 DEF StoredOK

\* A completion applied inside a call that goes on keeps the invariant.
LEMMA AppliedInCall ==
  ASSUME IInv, ApplyCompletion, todo # <<>>, Head(todo) # "scan", todo' = todo PROVE IInv'
<1>1. todo \in Seq(Steps)
  BY DEF IInv, TypeOK, Steps
<1>2. TypeOK' /\ CountersTellTheTruth' /\ StoredOK' /\ LimitOK' /\ CursorOK' /\ LogicalOK'
  BY <1>1, AppliedParts
<1>3. /\ UNCHANGED <<queued, scan>> /\ UNCHANGED <<arg, fed>>
  BY DEF ApplyCompletion, Quietly
<1>4. scan = NotScanning
  BY Idle
<1>5. ReadOK'
  <2> SUFFICES ASSUME Within("read", todo') PROVE ReadOK'
    BY DEF ReadOK
  <2>1. /\ todo \in ReadTails
        /\ arg[1] \in DOMAIN history /\ arg[2] \in 1..history[arg[1]].lines
        /\ Head(todo) # "read" => ~Hot(history[arg[1]])
        /\ Head(todo) = "apply" => queued = 0
        /\ Head(todo) \in {"scan", "read"} => ~Away(history[arg[1]])
    BY DEF IInv, TodoOK, ReadOK
  <2>2. /\ DOMAIN history' = DOMAIN history
        /\ history'[arg[1]].lines = history[arg[1]].lines
        /\ Hot(history'[arg[1]]) => history'[arg[1]] = history[arg[1]]
        /\ Away(history'[arg[1]]) => history'[arg[1]] = history[arg[1]]
    <3>1. /\ history' \in Seq(Page) /\ Len(history') = Len(history)
          /\ \A i \in DOMAIN history :
               /\ history'[i].lines = history[i].lines
               /\ Hot(history'[i]) => history'[i] = history[i]
               /\ Away(history'[i]) => history'[i] = history[i]
      BY Applied
    <3>2. history \in Seq(Page)
      BY DEF IInv, TypeOK
    <3>3. DOMAIN history' = DOMAIN history
      BY <3>1, <3>2
    <3> QED
      BY <2>1, <3>1, <3>3
  <2>3. /\ arg'[1] \in DOMAIN history' /\ arg'[2] \in 1..history'[arg'[1]].lines
        /\ Head(todo') # "read" => ~Hot(history'[arg'[1]])
        /\ Head(todo') \in {"scan", "read"} => ~Away(history'[arg'[1]])
    BY <1>3, <2>1, <2>2
  <2> QED
    BY <1>3, <2>1, <2>3 DEF ReadOK
<1>6. TodoOK'
  BY <1>3, <1>4, <1>5 DEF IInv, TodoOK, ScanOK
<1> QED
  BY <1>2, <1>6 DEF IInv

\* apply_completed keeps the invariant.
LEMMA ApplyKeeps == ASSUME IInv, Apply PROVE IInv'
<1>1. todo # <<>> /\ Head(todo) = "apply"
  BY DEF Apply, At
<1>2. CASE ApplyCompletion /\ UNCHANGED todo
  BY <1>1, <1>2, AppliedInCall
<1>3. CASE /\ completions = <<>> /\ Done /\ Quietly /\ Local
           /\ UNCHANGED <<history, logical, cursor, cache, scan>>
  <2>1. /\ completions = <<>> /\ todo' = Tail(todo)
        /\ UNCHANGED <<history, logical, nextId, cursor, cache, limit, arg, answer, fed,
                       styles, open, scan>>
        /\ UNCHANGED <<jobs, completions, queued, pending, worker>>
    BY <1>3 DEF Done, Quietly, Local
  <2> QED
    BY <1>1, <2>1, Popped
<1> QED
  BY <1>2, <1>3 DEF Apply

\* Waiting for the jobs keeps the invariant.
LEMMA WaitKeeps == ASSUME IInv, WaitForJobs PROVE IInv'
<1>1. todo # <<>> /\ Head(todo) = "wait"
  BY DEF WaitForJobs, At
<1>2. CASE ApplyCompletion /\ UNCHANGED todo
  BY <1>1, <1>2, AppliedInCall
<1>3. CASE /\ queued = 0 /\ Done /\ Quietly /\ Local
           /\ UNCHANGED <<history, logical, cursor, cache, scan>>
  <2>1. /\ queued = 0 /\ todo' = Tail(todo)
        /\ UNCHANGED <<history, logical, nextId, cursor, cache, limit, arg, answer, fed,
                       styles, open, scan>>
        /\ UNCHANGED <<jobs, completions, queued, pending, worker>>
    BY <1>3 DEF Done, Quietly, Local
  <2> QED
    BY <1>1, <2>1, Popped
<1> QED
  BY <1>2, <1>3 DEF WaitForJobs

\* Joining the worker keeps the invariant.
LEMMA JoinKeeps == ASSUME IInv, Join PROVE IInv'
<1>1. /\ todo # <<>> /\ Head(todo) = "join" /\ todo' = Tail(todo)
      /\ UNCHANGED <<history, logical, nextId, cursor, cache, limit, arg, answer, fed,
                     styles, open, scan>>
      /\ UNCHANGED <<jobs, completions, queued, pending, worker>>
  BY DEF Join, At, Done, Quietly, Local
<1> QED
  BY <1>1, Popped

\* quiesce keeps the invariant.
LEMMA QuiesceKeeps == ASSUME IInv, Quiesce PROVE IInv'
<1>1. /\ todo # <<>> /\ Head(todo) = "quiesce"
      /\ UNCHANGED <<history, logical, nextId, cursor, cache, limit, arg, answer, fed,
                     styles, open, scan>>
      /\ UNCHANGED <<jobs, completions, queued, pending, worker>>
      /\ todo' = Tail(todo) \/ todo' = <<"recv", "apply">> \o todo
  BY DEF Quiesce, At, Quietly, Local
<1>2. CASE todo' = Tail(todo)
  BY <1>1, <1>2, Popped
<1>3. CASE todo' = <<"recv", "apply">> \o todo
  <2>1. /\ todo \in Seq(Steps) /\ fed \in Nat /\ AddsFit(todo, fed) /\ EnforcedAfter(todo)
    BY StorageAssumption DEF IInv, TypeOK, TodoOK, Steps
  <2>2. /\ todo' \in Seq(Steps) /\ AddsFit(todo', fed) /\ EnforcedAfter(todo')
        /\ \A x : Within(x, todo') <=> x = "recv" \/ x = "apply" \/ Within(x, todo)
    <3>1. PICK p : p = <<"recv", "apply">>
      OBVIOUS
    <3>2. p \in Seq(Steps) /\ \A x : Within(x, p) <=> x = "recv" \/ x = "apply"
      BY <3>1, Literals
    <3>3. ~Within("ingest", p) /\ ~Within("push", p) /\ todo' = p \o todo
      BY <1>3, <3>1, <3>2
    <3> QED
      BY <2>1, <3>2, <3>3, Prepend, ZenonT(30)
  <2>3. scan = NotScanning /\ scan' = NotScanning /\ ~Within("read", todo)
    BY <1>1, Idle, NotReading
  <2>4. TodoOK'
    <3>1. ~Within("read", todo')
      BY <2>2, <2>3
    <3> QED
      BY <1>1, <2>2, <2>3, <3>1 DEF TodoOK, ReadOK, ScanOK
  <2>5. TypeOK'
    BY <1>1, <2>2 DEF IInv, TypeOK, Steps
  <2>6. StoredOK' /\ LogicalOK' /\ CountersTellTheTruth'
    BY <1>1, StoreFrame
  <2>7. LimitOK'
    BY <1>1, <2>2, LimitFrame
  <2>8. CursorOK'
    BY <1>1, <2>2, <2>3, CursorFrame DEF At
  <2> QED
    BY <2>4, <2>5, <2>6, <2>7, <2>8 DEF IInv
<1> QED
  BY <1>1, <1>2, <1>3

\* Waiting for one completion keeps the invariant.
LEMMA RecvKeeps == ASSUME IInv, QuiesceRecv PROVE IInv'
<1>1. todo # <<>> /\ Head(todo) = "recv" /\ ApplyCompletion /\ todo' = Tail(todo)
  BY DEF QuiesceRecv, At, Done
<1>2. /\ todo' \in Seq(Steps)
      /\ Within("push", todo) <=> Within("push", todo')
      /\ Within("enforce", todo) => Within("enforce", todo')
      /\ Within("read", todo') => Within("read", todo)
  BY <1>1, Pop
<1>3. TypeOK' /\ CountersTellTheTruth' /\ StoredOK' /\ LimitOK' /\ CursorOK' /\ LogicalOK'
  BY <1>1, <1>2, AppliedParts
<1>4. TodoOK'
  <2>1. ~Within("read", todo') /\ scan = NotScanning
    BY <1>1, <1>2, NotReading, Idle
  <2>2. scan' = scan /\ fed' = fed
    BY <1>1 DEF ApplyCompletion, Quietly
  <2> QED
    BY <1>1, <2>1, <2>2, TodoFrame DEF Adds
<1> QED
  BY <1>3, <1>4 DEF IInv

------------------------------------------------------------------------------
\* The scan for sealed pages.

\* The types a scan and an eviction rely on.
LEMMA OverLimit ==
  ASSUME IInv
  PROVE  /\ Len(history) \in Nat /\ DOMAIN history = 1..Len(history) /\ logical \in Nat /\ limit \in Nat \ {0}
         /\ \A i \in DOMAIN history : history[i] \in Page
         /\ logical > 0 => Len(history) > 0 /\ 1 \in DOMAIN history
<1>1. /\ history \in Seq(Page) /\ logical \in Nat /\ limit \in Nat \ {0}
      /\ logical = LinesOf(history, Len(history))
  BY StorageAssumption DEF IInv, TypeOK, LogicalOK
<1>2. LinesOf(history, 0) = 0
  BY LinesStep
<1>3. Len(history) \in Nat /\ DOMAIN history = 1..Len(history) /\ \A i \in DOMAIN history : history[i] \in Page
  <2> HIDE DEF Page
  <2> QED
    BY <1>1
<1>4. ASSUME logical > 0 PROVE Len(history) > 0
  <2>1. Len(history) # 0
    BY <1>1, <1>2, <1>4
  <2> QED
    BY <1>3, <2>1
<1> QED
  BY <1>1, <1>3, <1>4

\* Where the scan looks from.
ScanFrom == IF scan = NotScanning THEN Smaller(cursor, LastIndex) ELSE scan.at

\* Where a scan is, and how far the pages are known to be sealed.
LEMMA ScanState ==
  ASSUME IInv
  PROVE  /\ scan \in [at : Int, failed : Int] /\ cursor \in Nat /\ ScanFrom \in Int
         /\ scan = NotScanning => scan.failed = -1 /\ ScanFrom <= cursor /\ ScanFrom >= -1
                                   /\ (ScanFrom = cursor \/ ScanFrom = Len(history) - 1)
         /\ scan # NotScanning => /\ ScanFrom = scan.at /\ scan.at \in 0..Len(history) /\ scan.failed \in -1..(scan.at - 1)
                                  /\ Sealed(history, IF scan.failed = -1 THEN scan.at ELSE scan.failed)
         /\ Sealed(history, cursor)
<1>1. scan \in [at : Int, failed : Int] /\ cursor \in Nat /\ Sealed(history, cursor)
  BY DEF IInv, TypeOK, CursorOK
<1>2. Len(history) \in Nat
  BY OverLimit
<1>3. ASSUME scan = NotScanning
      PROVE  /\ scan.failed = -1 /\ ScanFrom <= cursor /\ ScanFrom >= -1 /\ ScanFrom \in Int
             /\ (ScanFrom = cursor \/ ScanFrom = Len(history) - 1)
  <2>1. scan.failed = -1 /\ ScanFrom = Smaller(cursor, Len(history) - 1)
    BY <1>3 DEF ScanFrom, NotScanning, LastIndex
  <2> QED
    BY <1>1, <1>2, <2>1 DEF Smaller
<1>4. ASSUME scan # NotScanning
      PROVE  /\ ScanFrom = scan.at /\ scan.at \in 0..Len(history) /\ scan.failed \in -1..(scan.at - 1)
             /\ Sealed(history, IF scan.failed = -1 THEN scan.at ELSE scan.failed)
  BY <1>4 DEF ScanFrom, IInv, TodoOK, ScanOK, CursorOK
<1> QED
  BY <1>1, <1>3, <1>4

\* A scan that found nothing up to k has sealed the pages up to k.
LEMMA SealedUpTo ==
  ASSUME IInv, scan.failed = -1, NEW k \in Nat,
         \A i \in ScanFrom..(k - 1) : ~Eligible(history[i + 1])
  PROVE  Sealed(history, k)
<1>1. Len(history) \in Nat
  BY OverLimit
<1>2. SUFFICES ASSUME NEW i \in 1..(Len(history) - 1), i <= k PROVE ~Eligible(history[i])
  BY DEF Sealed
<1>3. i \in Nat /\ i - 1 + 1 = i /\ i < Len(history)
  BY <1>1
<1>4. CASE i - 1 >= ScanFrom
  <2>1. i - 1 \in ScanFrom..(k - 1)
    BY <1>1, <1>2, <1>3, <1>4, ScanState
  <2> QED
    BY <1>3, <2>1
<1>5. CASE i - 1 < ScanFrom
  <2>1. CASE scan = NotScanning
    <3>1. i <= cursor
      BY <1>3, <1>5, <2>1, ScanState
    <3> QED
      BY <3>1, ScanState DEF Sealed
  <2>2. CASE scan # NotScanning
    <3>1. i <= scan.at /\ Sealed(history, scan.at)
      BY <1>3, <1>5, <2>2, ScanState
    <3> QED
      BY <3>1 DEF Sealed
  <2> QED
    BY <2>1, <2>2
<1> QED
  BY <1>3, <1>4, <1>5, ScanState

\* The pages the scan may send.
Found == {i \in ScanFrom..(LastIndex - 1) : Eligible(history[i + 1])}

\* The first page a scan finds is not the last page, and all before it are sealed.
LEMMA FirstFound ==
  ASSUME IInv, Found # {}, NEW i, i = Min(Found)
  PROVE  /\ i \in 0..(Len(history) - 2) /\ Eligible(history[i + 1]) /\ i >= ScanFrom
         /\ scan.failed = -1 => Sealed(history, i)
<1>1. Len(history) \in Nat /\ ScanFrom \in Int /\ LastIndex = Len(history) - 1
  BY OverLimit, ScanState DEF LastIndex
<1>2. Found \subseteq Nat
  <2>1. SUFFICES ASSUME NEW x \in Found PROVE x \in Nat
    OBVIOUS
  <2>2. x \in Int /\ ScanFrom <= x /\ x <= Len(history) - 2
    BY <1>1 DEF Found
  <2>3. ScanFrom >= 0
    <3>1. CASE scan = NotScanning
      BY <1>1, <2>2, <3>1, ScanState
    <3>2. CASE scan # NotScanning
      BY <1>1, <3>2, ScanState
    <3> QED
      BY <3>1, <3>2
  <2> QED
    BY <1>1, <2>2, <2>3
<1>3. i \in Found /\ \A y \in Found : i <= y
  BY <1>2, MinExists
<1>4. i \in Nat /\ i >= ScanFrom /\ i <= Len(history) - 2 /\ Eligible(history[i + 1])
  BY <1>1, <1>2, <1>3 DEF Found
<1>5. ASSUME scan.failed = -1 PROVE Sealed(history, i)
  <2>1. ASSUME NEW l \in ScanFrom..(i - 1) PROVE ~Eligible(history[l + 1])
    <3>1. l \in ScanFrom..(LastIndex - 1) /\ l < i /\ l \in Int
      BY <1>1, <1>4, <2>1
    <3>2. l \notin Found
      BY <1>3, <1>4, <3>1
    <3> QED
      BY <3>1, <3>2 DEF Found
  <2> QED
    BY <1>4, <1>5, <2>1, SealedUpTo
<1> QED
  BY <1>1, <1>4, <1>5

\* A scan ends, enqueues the page it found, or is refused.
LEMMA ScanSplit ==
  ASSUME IInv, Scan
  PROVE  /\ todo # <<>> /\ Head(todo) = "scan"
         /\ UNCHANGED <<logical, nextId, cache, limit, arg, answer, fed, styles, open,
                        completions, pending, worker>>
         /\ \/ Found = {} /\ Scanned
            \/ Found # {} /\ Enqueued(Min(Found)) /\ UNCHANGED <<cursor, todo>>
            \/ Found # {} /\ Refused(Min(Found)) /\ UNCHANGED <<cursor, todo>>
<1>1. /\ todo # <<>> /\ Head(todo) = "scan"
      /\ \/ Found = {} /\ Scanned
         \/ Found # {} /\ (Enqueued(Min(Found)) \/ Refused(Min(Found))) /\ UNCHANGED <<cursor, todo>>
  BY DEF Scan, At, Found, ScanFrom
<1>2. UNCHANGED <<logical, nextId, cache, limit, arg, answer, fed, styles, open, completions,
                  pending, worker>>
  BY DEF Scan, Quietly
<1> QED
  BY <1>1, <1>2

\* The end of a scan moves the cursor as far as the pages are sealed.
LEMMA ScanEnds ==
  ASSUME IInv, todo # <<>>, Head(todo) = "scan", Found = {}, Scanned,
         UNCHANGED <<logical, nextId, cache, limit, arg, answer,
                     fed, styles, open, completions, pending, worker>>
  PROVE  IInv'
<1>1. /\ cursor' = IF LastIndex <= 0 THEN 0 ELSE IF scan.failed # -1 THEN scan.failed ELSE LastIndex
      /\ scan' = NotScanning /\ todo' = Tail(todo) /\ UNCHANGED <<history, jobs, queued>>
  BY DEF Scanned, Done
<1>2. /\ Len(history) \in Nat /\ LastIndex = Len(history) - 1 /\ scan.failed \in Int
      /\ cursor \in Nat /\ ScanFrom \in Int
  BY OverLimit, ScanState DEF LastIndex
<1>3. /\ cursor' \in Nat /\ Sealed(history, cursor') /\ (Len(history) > 0 => cursor' < Len(history))
  <2>1. CASE LastIndex <= 0
    <3>1. cursor' = 0 /\ 1..(Len(history) - 1) = {}
      BY <1>1, <1>2, <2>1
    <3> QED
      BY <3>1 DEF Sealed
  <2>2. CASE LastIndex > 0 /\ scan.failed = -1
    <3>1. cursor' = LastIndex /\ LastIndex \in Nat
      BY <1>1, <1>2, <2>2
    <3>2. \A i \in ScanFrom..(LastIndex - 1) : ~Eligible(history[i + 1])
      BY DEF Found
    <3>3. Sealed(history, LastIndex)
      BY <2>2, <3>1, <3>2, SealedUpTo
    <3> QED
      BY <1>2, <2>2, <3>1, <3>3
  <2>3. CASE LastIndex > 0 /\ scan.failed # -1
    <3>1. cursor' = scan.failed
      BY <1>1, <1>2, <2>3
    <3>2. /\ scan.at \in 0..Len(history) /\ scan.failed \in -1..(scan.at - 1)
          /\ Sealed(history, scan.failed)
      BY <2>3, ScanState
    <3> QED
      BY <1>2, <2>3, <3>1, <3>2
  <2> QED
    BY <1>2, <2>1, <2>2, <2>3
<1>4. /\ todo' \in Seq(Steps)
      /\ Within("push", todo) <=> Within("push", todo')
      /\ Within("enforce", todo) <=> Within("enforce", todo')
  BY <1>1, Pop
<1>5. ASSUME Within("read", todo') PROVE ReadOK'
  <2>1. /\ todo \in ReadTails /\ todo' \in ReadTails /\ Within("read", todo)
        /\ Head(todo') = "read"
    BY <1>1, <1>5, Pop
  <2>2. /\ arg[1] \in DOMAIN history /\ arg[2] \in 1..history[arg[1]].lines
        /\ ~Away(history[arg[1]])
    BY <2>1 DEF IInv, TodoOK, ReadOK
  <2> QED
    BY <1>1, <2>1, <2>2 DEF ReadOK
<1>6. TodoOK'
  BY <1>1, <1>5, TodoFrame DEF Adds
<1>7. TypeOK'
  <2>1. scan' \in [at : Int, failed : Int]
    BY <1>1 DEF NotScanning
  <2> QED
    BY <1>1, <1>3, <1>4, <2>1 DEF IInv, TypeOK, Steps
<1>8. StoredOK' /\ LogicalOK' /\ CountersTellTheTruth'
  BY <1>1, StoreFrame
<1>9. LimitOK'
  BY <1>1, <1>4, LimitFrame
<1>10. CursorOK'
  <2>1. history = <<>> \/ Len(history) > 0
    BY <1>2 DEF IInv, TypeOK
  <2> QED
    BY <1>1, <1>3, <2>1 DEF CursorOK
<1> QED
  BY <1>3, <1>6, <1>7, <1>8, <1>9, <1>10 DEF IInv

\* A page enqueued by a scan keeps the invariant.
LEMMA ScanEnqueues ==
  ASSUME IInv, todo # <<>>, Head(todo) = "scan", Found # {}, Enqueued(Min(Found)),
         UNCHANGED <<cursor, todo>>,
         UNCHANGED <<logical, nextId, cache, limit, arg, answer,
                     fed, styles, open, completions, pending, worker>>
  PROVE  IInv'
<1>1. PICK i : i = Min(Found)
  OBVIOUS
<1>2. /\ i \in 0..(Len(history) - 2) /\ Eligible(history[i + 1]) /\ i >= ScanFrom
      /\ scan.failed = -1 => Sealed(history, i)
  BY <1>1, FirstFound
<1>3. Hot(history[i + 1]) /\ Enqueued(i) /\ i \in 0..(Len(history) - 1)
  BY <1>1, <1>2, OverLimit DEF Eligible
<1>4. /\ history' \in Seq(Page) /\ Len(history') = Len(history)
      /\ Stored(history', Way', cache', nextId', styles')
      /\ jobs' \in Seq(Job) /\ Len(jobs') = Len(jobs) + 1 /\ Len(jobs) < QueueCap
      /\ queued' = queued + 1 /\ CountersTellTheTruth'
      /\ \A l \in DOMAIN history : (l # i + 1 => history'[l] = history[l]) /\ history'[l].lines = history[l].lines
      /\ Away(history'[i + 1])
  BY <1>3, QueuedWay
<1>5. /\ Len(history) \in Nat /\ DOMAIN history = 1..Len(history)
      /\ DOMAIN history' = 1..Len(history)
      /\ scan \in [at : Int, failed : Int] /\ ScanFrom \in Int
  BY <1>4, OverLimit, ScanState
<1>6. /\ scan' \in [at : Int, failed : Int] /\ scan'.at = i + 1 /\ scan'.failed = scan.failed
      /\ scan' # NotScanning
  <2>1. scan' = [scan EXCEPT !.at = i + 1]
    BY <1>3 DEF Enqueued
  <2>2. scan' \in [at : Int, failed : Int] /\ scan'.at = i + 1 /\ scan'.failed = scan.failed
    BY <1>2, <1>5, <2>1
  <2>3. NotScanning.at = -1 /\ i + 1 # -1
    BY <1>2, <1>5 DEF NotScanning
  <2>4. scan'.at # NotScanning.at
    BY <2>2, <2>3
  <2> QED
    BY <2>2, <2>4
<1>7. scan.failed \in -1..i
  <2>1. CASE scan = NotScanning
    <3>1. scan.failed = -1
      BY <2>1, ScanState
    <3>2. i \in Nat
      BY <1>2, <1>5
    <3> QED
      BY <3>1, <3>2
  <2>2. CASE scan # NotScanning
    BY <1>2, <1>5, <2>2, ScanState
  <2> QED
    BY <2>1, <2>2
<1>8. TypeOK'
  <2>1. Len(jobs') <= QueueCap /\ queued' \in Nat
    <3>1. Len(jobs) \in Nat /\ queued \in Nat
      BY DEF IInv, TypeOK
    <3> QED
      BY <1>4, <3>1, StorageAssumption
  <2> QED
    BY <1>4, <1>6, <2>1 DEF IInv, TypeOK
<1>9. TodoOK'
  <2>1. AddsFit(todo', fed') /\ EnforcedAfter(todo')
    BY DEF IInv, TodoOK
  <2>2. ScanOK'
    BY <1>2, <1>4, <1>5, <1>6, <1>7 DEF ScanOK, At
  <2>3. ReadOK'
    <3> SUFFICES ASSUME Within("read", todo') PROVE ReadOK'
      BY DEF ReadOK
    <3>1. /\ todo \in ReadTails /\ arg[1] \in DOMAIN history
          /\ arg[2] \in 1..history[arg[1]].lines
          /\ ~Hot(history[arg[1]]) /\ ~Away(history[arg[1]])
      BY DEF IInv, TodoOK, ReadOK
    <3>2. arg[1] # i + 1
      BY <1>3, <3>1
    <3>3. history'[arg[1]] = history[arg[1]] /\ arg[1] \in DOMAIN history'
      BY <1>4, <1>5, <3>1, <3>2
    <3> QED
      BY <3>1, <3>3 DEF ReadOK
  <2> QED
    BY <2>1, <2>2, <2>3 DEF TodoOK
<1>10. LogicalOK'
  <2>1. \A l \in 1..Len(history) : history[l].lines = history'[l].lines
    BY <1>4, <1>5
  <2>2. LinesOf(history, Len(history)) = LinesOf(history', Len(history))
    BY <1>5, <2>1, LinesSame
  <2> QED
    BY <1>4, <2>2 DEF IInv, LogicalOK
<1>11. LimitOK'
  <2> SUFFICES ASSUME logical' > limit' /\ ~Within("enforce", todo') /\ ~Within("push", todo')
               PROVE  logical' - limit' < history'[1].lines /\ ~Hot(history'[1])
    BY DEF LimitOK
  <2>1. logical > limit /\ logical - limit < history[1].lines /\ ~Hot(history[1])
    BY DEF IInv, LimitOK
  <2>2. 1 \in DOMAIN history
    <3>1. logical \in Nat /\ limit \in Nat \ {0}
      BY OverLimit
    <3>2. logical > 0
      BY <2>1, <3>1
    <3> QED
      BY <3>2, OverLimit
  <2>3. 1 # i + 1
    BY <1>3, <2>1
  <2> QED
    BY <1>4, <2>1, <2>2, <2>3
<1>12. CursorOK'
  <2>1. \A k \in Int : Sealed(history, k) => Sealed(history', k)
    <3>1. ~Eligible(history'[i + 1])
      BY <1>4 DEF Eligible, Hot, Away
    <3>2. \A l \in 1..(Len(history) - 1) : l \in DOMAIN history /\ (l # i + 1 => history'[l] = history[l])
      BY <1>4, <1>5, SMTT(30)
    <3> QED
      BY <1>4, <3>1, <3>2 DEF Sealed
  <2>2. Sealed(history', cursor)
    BY <2>1, ScanState
  <2>3. ASSUME scan.failed = -1 PROVE Sealed(history', i + 1)
    <3>1. Sealed(history', i) /\ ~Eligible(history'[i + 1]) /\ i \in Nat
      BY <1>2, <1>4, <1>5, <2>1, <2>3 DEF Eligible, Hot, Away
    <3>2. \A l \in 1..(Len(history') - 1) : l <= i + 1 => l <= i \/ l = i + 1
      BY <1>4, <1>5, <3>1
    <3> QED
      BY <3>1, <3>2 DEF Sealed
  <2>4. ASSUME scan.failed # -1 PROVE Sealed(history', scan.failed)
    <3>1. Sealed(history, scan.failed)
      BY <2>4, ScanState
    <3> QED
      BY <1>5, <2>1, <3>1
  <2>5. Within("push", todo') => history' = <<>> \/ cursor' < Len(history') \/ (Len(history') = 1 /\ At("scan")')
    <3>1. Within("push", todo) => history = <<>> \/ cursor < Len(history) \/ (Len(history) = 1 /\ At("scan"))
      BY DEF IInv, CursorOK
    <3>2. history = <<>> => history' = <<>>
      BY <1>4, <1>5
    <3> QED
      BY <1>4, <3>1, <3>2 DEF At
  <2> QED
    BY <1>6, <2>2, <2>3, <2>4, <2>5 DEF CursorOK
<1> QED
  BY <1>4, <1>8, <1>9, <1>10, <1>11, <1>12 DEF IInv, StoredOK

\* A page refused by the full queue keeps the cursor before it.
LEMMA ScanRefused ==
  ASSUME IInv, todo # <<>>, Head(todo) = "scan", Found # {}, Refused(Min(Found)),
         UNCHANGED <<cursor, todo>>,
         UNCHANGED <<logical, nextId, cache, limit, arg, answer,
                     fed, styles, open, completions, pending, worker>>
  PROVE  IInv'
<1>1. PICK i : i = Min(Found)
  OBVIOUS
<1>2. /\ i \in 0..(Len(history) - 2) /\ i >= ScanFrom /\ (scan.failed = -1 => Sealed(history, i))
  BY <1>1, FirstFound
<1>3. scan' = [at |-> i + 1, failed |-> FailedAt(i)] /\ UNCHANGED <<history, jobs, queued>>
  BY <1>1 DEF Refused
<1>4. Len(history) \in Nat /\ scan \in [at : Int, failed : Int] /\ ScanFrom \in Int
  BY OverLimit, ScanState
<1>5. /\ scan' \in [at : Int, failed : Int] /\ scan'.at \in 0..Len(history)
      /\ scan'.failed \in 0..(scan'.at - 1)
      /\ scan' # NotScanning /\ Sealed(history, scan'.failed) /\ scan'.failed # -1
  <2>1. scan'.at = i + 1 /\ scan'.failed = FailedAt(i) /\ i \in Nat
    BY <1>2, <1>3, <1>4
  <2>2. FailedAt(i) \in 0..i /\ Sealed(history, FailedAt(i))
    <3>1. CASE scan.failed = -1
      BY <1>2, <2>1, <3>1 DEF FailedAt
    <3>2. CASE scan.failed # -1
      <4>1. scan # NotScanning
        BY <3>2 DEF NotScanning
      <4>2. /\ ScanFrom = scan.at /\ scan.failed \in -1..(scan.at - 1)
            /\ Sealed(history, scan.failed)
        BY <3>2, <4>1, ScanState
      <4> QED
        BY <1>2, <1>4, <2>1, <3>2, <4>2 DEF FailedAt
    <3> QED
      BY <3>1, <3>2
  <2>3. scan' \in [at : Int, failed : Int] /\ scan'.failed # -1
    BY <1>3, <2>1, <2>2
  <2>4. scan' # NotScanning
    BY <2>3 DEF NotScanning
  <2> QED
    BY <1>2, <1>4, <2>1, <2>2, <2>3, <2>4
<1>6. TypeOK'
  BY <1>3, <1>5 DEF IInv, TypeOK
<1>7. TodoOK'
  <2>1. AddsFit(todo', fed') /\ EnforcedAfter(todo')
    BY DEF IInv, TodoOK
  <2>2. ScanOK'
    BY <1>3, <1>4, <1>5 DEF ScanOK, At
  <2>3. ReadOK'
    BY <1>3 DEF IInv, TodoOK, ReadOK
  <2> QED
    BY <2>1, <2>2, <2>3 DEF TodoOK
<1>8. StoredOK' /\ LogicalOK' /\ CountersTellTheTruth'
  BY <1>3, StoreFrame
<1>9. LimitOK'
  BY <1>3, LimitFrame
<1>10. CursorOK'
  <2>1. /\ Sealed(history, cursor)
        /\ (Within("push", todo) => history = <<>> \/ cursor < Len(history) \/ (Len(history) = 1 /\ At("scan")))
    BY DEF IInv, CursorOK
  <2> QED
    BY <1>3, <1>5, <2>1 DEF CursorOK, At
<1> QED
  BY <1>6, <1>7, <1>8, <1>9, <1>10 DEF IInv

\* schedule_sealed_pages keeps the invariant.
LEMMA ScanKeeps == ASSUME IInv, Scan PROVE IInv'
<1>1. /\ todo # <<>> /\ Head(todo) = "scan"
      /\ UNCHANGED <<logical, nextId, cache, limit, arg, answer, fed, styles, open,
                     completions, pending, worker>>
      /\ \/ Found = {} /\ Scanned
         \/ Found # {} /\ Enqueued(Min(Found)) /\ UNCHANGED <<cursor, todo>>
         \/ Found # {} /\ Refused(Min(Found)) /\ UNCHANGED <<cursor, todo>>
  BY ScanSplit
<1> QED
  BY <1>1, ScanEnds, ScanEnqueues, ScanRefused

------------------------------------------------------------------------------
\* Adding rows.

\* Every page has a line.
LEMMA PagesSized ==
  ASSUME NEW h \in Seq(Page), PageLines \in Nat PROVE Sized(h, Len(h))
<1>1. \A i \in 1..Len(h) : h[i] \in Page
  <2> HIDE DEF Page
  <2> QED
    OBVIOUS
<1>2. \A p \in Page : p.lines \in Nat \ {0}
  BY DEF Page
<1> QED
  BY <1>1, <1>2 DEF Sized

\* A row more on the last page is a line more.
LEMMA LinesBack ==
  ASSUME NEW h, NEW g, NEW n \in Nat, n > 0, Sized(h, n),
         \A i \in 1..(n - 1) : g[i].lines = h[i].lines,
         g[n].lines = h[n].lines + 1
  PROVE  LinesOf(g, n) = LinesOf(h, n) + 1
<1>1. /\ LinesOf(h, n) = LinesOf(h, n - 1) + h[n].lines
      /\ LinesOf(g, n) = LinesOf(g, n - 1) + g[n].lines
  BY LinesStep
<1>2. PICK m \in Nat : m = n - 1 /\ m \in 0..n
  OBVIOUS
<1>3. LinesOf(g, m) = LinesOf(h, m)
  BY <1>2, LinesSame
<1>4. LinesOf(h, m) \in Nat /\ h[n].lines \in Nat
  BY <1>2, LinesType DEF Sized
<1> QED
  BY <1>1, <1>2, <1>3, <1>4

\* A page more with one row is a line more.
LEMMA LinesPush ==
  ASSUME NEW h, NEW g, NEW n \in Nat, \A i \in 1..n : g[i].lines = h[i].lines,
         g[n + 1].lines = 1
  PROVE  LinesOf(g, n + 1) = LinesOf(h, n) + 1
<1>1. PICK m \in Nat : m = n + 1 /\ m # 0 /\ m - 1 = n
  OBVIOUS
<1>2. LinesOf(g, m) = LinesOf(g, m - 1) + g[m].lines
  BY <1>1, LinesStep
<1>3. LinesOf(g, n) = LinesOf(h, n)
  BY LinesSame
<1> QED
  BY <1>1, <1>2, <1>3

\* A row that may still be added is a row.
LEMMA NewRowOK ==
  ASSUME IInv, todo # <<>>, Head(todo) \in Adds PROVE NewRow \in Row /\ fed + 1 \in 0..MaxRows
<1>1. fed \in Nat /\ fed + 1 <= MaxRows
  <2>1. PICK t : t = Tail(todo)
    OBVIOUS
  <2>2. fed + 1 <= MaxRows
    BY <2>1, Pop
  <2> QED
    BY <2>2, StorageAssumption DEF IInv, TypeOK
<1>2. fed + 1 \in 1..MaxRows /\ styles \in 0..MaxStyles /\ fed + 1 \in 0..MaxRows
  BY <1>1, StorageAssumption DEF IInv, TypeOK
<1> QED
  BY <1>2 DEF NewRow, Row

\* The plan after a row was added, with or without a scan and an enforce.
LEMMA TodoAdded ==
  ASSUME IInv, todo # <<>>, Head(todo) \in Adds, fed' = fed + 1, scan' = scan,
         \/ todo' = Tail(todo)
         \/ todo' = <<"scan">> \o Tail(todo)
         \/ todo' = <<"scan", "enforce">> \o Tail(todo)
  PROVE  /\ TodoOK' /\ todo' \in Seq(Steps) /\ scan' = NotScanning
         /\ Within("push", todo') => Within("push", todo)
         /\ Within("enforce", todo) => Within("enforce", todo')
         /\ todo' = <<"scan">> \o Tail(todo) => todo' # <<>> /\ Head(todo') = "scan"
         /\ todo' = <<"scan", "enforce">> \o Tail(todo) => todo' # <<>> /\ Head(todo') = "scan" /\ Within("enforce", todo')
<1>1. /\ Head(todo) # "scan" /\ Head(todo) # "enforce"
      /\ Head(todo) \notin {"wait", "apply", "scan", "read"}
  BY DEF Adds
<1>2. scan = NotScanning /\ ~Within("read", todo)
  BY <1>1, Idle, NotReading
<1>3. PICK t : t = Tail(todo)
  OBVIOUS
<1>4. /\ t \in Seq(Steps) /\ EnforcedAfter(t) /\ fed + 1 <= MaxRows /\ AddsFit(t, fed + 1)
      /\ \A x : Within(x, todo) <=> Head(todo) = x \/ Within(x, t)
  BY <1>3, Pop
<1>5. fed + 1 \in Nat
  BY StorageAssumption DEF IInv, TypeOK
<1>6. PICK p : /\ p = <<>> \/ p = <<"scan">> \/ p = <<"scan", "enforce">>
               /\ todo' = p \o t
               /\ todo' = <<"scan">> \o Tail(todo) => p = <<"scan">>
               /\ todo' = <<"scan", "enforce">> \o Tail(todo) => p = <<"scan", "enforce">>
  <2>1. CASE todo' = <<"scan", "enforce">> \o t
    <3>1. todo' # <<"scan">> \o t
      <4>1. /\ Len(<<"scan", "enforce">> \o t) = 2 + Len(t)
            /\ Len(<<"scan">> \o t) = 1 + Len(t) /\ Len(t) \in Nat
        BY <1>4
      <4> QED
        BY <2>1, <4>1
    <3> QED
      BY <1>3, <2>1, <3>1
  <2>2. CASE todo' = <<"scan">> \o t /\ todo' # <<"scan", "enforce">> \o t
    BY <1>3, <2>2
  <2>3. CASE todo' = t /\ todo' # <<"scan">> \o t /\ todo' # <<"scan", "enforce">> \o t
    <3>1. todo' = <<>> \o t
      BY <1>4, <2>3
    <3> QED
      BY <1>3, <2>3, <3>1
  <2> QED
    BY <1>3, <2>1, <2>2, <2>3
<1>7. /\ p \in Seq(Steps) /\ ~Within("ingest", p) /\ ~Within("push", p) /\ ~Within("read", p)
      /\ p = <<"scan">> => p # <<>> /\ Head(p) = "scan"
      /\ p = <<"scan", "enforce">> => p # <<>> /\ Head(p) = "scan" /\ Within("enforce", p)
  <2>1. CASE p = <<>>
    <3>1. <<>> # <<"scan">> /\ <<>> # <<"scan", "enforce">> /\ <<>> \in Seq(Steps)
      OBVIOUS
    <3> QED
      BY <2>1, <3>1 DEF Within
  <2>2. CASE p = <<"scan">>
    <3>1. <<"scan">> # <<"scan", "enforce">>
      OBVIOUS
    <3> QED
      BY <2>2, <3>1, Literals
  <2>3. CASE p = <<"scan", "enforce">>
    BY <2>3, Literals, SMTT(30)
  <2> QED
    BY <1>6, <2>1, <2>2, <2>3
<1>8. /\ todo' \in Seq(Steps) /\ AddsFit(todo', fed + 1) /\ EnforcedAfter(todo')
      /\ \A x : Within(x, todo') <=> Within(x, p) \/ Within(x, t)
      /\ p # <<>> => todo' # <<>> /\ Head(todo') = Head(p)
  <2>1. PICK n \in Nat : n = fed + 1
    BY <1>5
  <2>2. AddsFit(t, n) /\ EnforcedAfter(t) /\ t \in Seq(Steps)
    BY <1>4, <2>1
  <2>3. p \in Seq(Steps) /\ ~Within("ingest", p) /\ ~Within("push", p) /\ todo' = p \o t
    BY <1>6, <1>7
  <2>4. PICK u : u = todo' /\ u = p \o t
    BY <2>3
  <2>5. /\ u \in Seq(Steps) /\ AddsFit(u, n) /\ EnforcedAfter(u)
        /\ \A x : Within(x, u) <=> Within(x, p) \/ Within(x, t)
        /\ p # <<>> => u # <<>> /\ Head(u) = Head(p)
    BY <2>2, <2>3, <2>4, Prepend
  <2> QED
    BY <2>1, <2>4, <2>5
<1>9. ~Within("read", todo')
  BY <1>2, <1>4, <1>7, <1>8
<1>10. TodoOK'
  BY <1>2, <1>8, <1>9 DEF TodoOK, ReadOK, ScanOK
<1> QED
  BY <1>1, <1>2, <1>4, <1>6, <1>7, <1>8, <1>10

\* The storage after a row was added to the last page.
LEMMA GrownBack ==
  ASSUME IInv, NewRow \in Row, history # <<>>, Hot(Back), Back.lines < PageLines,
         NEW g, g = [history EXCEPT ![Len(history)] = Extended(@)]
  PROVE  /\ g \in Seq(Page) /\ Len(g) = Len(history) /\ Len(history) > 0
         /\ Stored(g, Way, NoPage, nextId, styles) /\ Stored(g, Way, cache, nextId, styles)
         /\ \A i \in 1..(Len(history) - 1) : g[i] = history[i]
         /\ LinesOf(g, Len(g)) = logical + 1
<1> DEFINE n == Len(history)
<1>1. history \in Seq(Page) /\ nextId \in Nat \ {0} /\ PageLines \in Nat
  BY StorageAssumption DEF IInv, TypeOK
<1>2. /\ n \in Nat /\ n > 0 /\ n \in DOMAIN history /\ DOMAIN history = 1..n
      /\ history[n] \in Page
  <2> HIDE DEF Page
  <2> QED
    BY <1>1
<1>3. PICK q : q = Extended(history[n])
  OBVIOUS
<1>4. /\ q \in Page /\ PageOK(q, styles) /\ Hot(q) /\ ~Away(q) /\ q.id = history[n].id
      /\ q.gen = history[n].gen
      /\ q.lines = history[n].lines + 1
  <2>1. PageOK(history[n], styles)
    BY <1>2, WayType DEF Stored, PagesFit
  <2>2. Hot(history[n]) /\ history[n].lines < PageLines
    BY DEF Back
  <2> QED
    BY <1>1, <1>2, <1>3, <2>1, <2>2, ExtendedPage
<1>5. /\ g \in Seq(Page) /\ Len(g) = n /\ DOMAIN g = 1..n /\ g[n] = q /\ \A i \in 1..(n - 1) : g[i] = history[i]
  <2>1. g = [history EXCEPT ![n] = q]
    BY <1>3
  <2> HIDE DEF Page, n
  <2>2. /\ g \in Seq(Page) /\ DOMAIN g = DOMAIN history /\ g[n] = q
        /\ \A i \in DOMAIN history : i # n => g[i] = history[i]
    BY <1>1, <1>2, <1>4, <2>1
  <2>3. Len(g) = n
    BY <1>2, <2>2 DEF n
  <2> QED
    BY <1>2, <2>2, <2>3
<1>6. \A i \in DOMAIN g : i + 0 \in DOMAIN history /\ Stays(history[i + 0], g[i], styles) /\ CacheSafe(history[i + 0], g[i])
  <2>1. ASSUME NEW i \in 1..n PROVE Stays(history[i], g[i], styles) /\ CacheSafe(history[i], g[i])
    <3>1. CASE i = n
      <4>1. Hot(history[n])
        BY DEF Back
      <4>2. ~Away(history[n]) /\ ~Cold(history[n])
        BY <4>1 DEF Hot, Cold, Away
      <4> QED
        BY <1>4, <1>5, <3>1, <4>2 DEF Stays, CacheSafe
    <3>2. CASE i # n
      <4>1. g[i] = history[i] /\ i \in DOMAIN history
        BY <1>2, <1>5, <3>2
      <4>2. PageOK(history[i], styles)
        BY <4>1, WayType DEF Stored, PagesFit
      <4> QED
        BY <4>1, <4>2 DEF Stays, CacheSafe
    <3> QED
      BY <3>1, <3>2
  <2>2. \A i \in DOMAIN g : i \in 1..n /\ i \in DOMAIN history /\ i + 0 = i
    <3> HIDE DEF n
    <3> QED
      BY <1>2, <1>5
  <2> QED
    BY <2>1, <2>2
<1>7. Stored(g, Way, NoPage, nextId, styles) /\ Stored(g, Way, cache, nextId, styles)
  <2>1. 0 \in Nat /\ Stored(history, Way, cache, nextId, styles)
    BY WayType
  <2>2. /\ \A i \in DOMAIN g : i + 0 \in DOMAIN history /\ Stays(history[i + 0], g[i], styles)
        /\ \A i \in DOMAIN g : CacheSafe(history[i + 0], g[i])
    BY <1>6
  <2>3. PICK h, w, c : h = history /\ w = Way /\ c = cache
    OBVIOUS
  <2> QED
    BY <1>1, <1>5, <2>1, <2>2, StoredDerived
<1>8. LinesOf(g, n) = logical + 1
  <2>1. g[n].lines = history[n].lines + 1 /\ logical = LinesOf(history, n)
    BY <1>4, <1>5 DEF IInv, LogicalOK
  <2>2. \A i \in 1..(n - 1) : g[i].lines = history[i].lines
    BY <1>5
  <2>3. Sized(history, n)
    BY <1>1, <1>2, PagesSized
  <2> HIDE DEF n
  <2> QED
    BY <1>2, <2>1, <2>2, <2>3, LinesBack
<1> QED
  BY <1>2, <1>5, <1>7, <1>8

\* The storage after a page was opened for a row.
LEMMA NewBack ==
  ASSUME IInv, NewRow \in Row, NEW w \in Widths, NEW gen \in Nat,
         NEW kind \in {"flat", "segmented"},
         NEW g, g = Append(history, FreshPage(w, gen, kind))
  PROVE  /\ g \in Seq(Page) /\ Len(g) = Len(history) + 1 /\ Len(history) \in Nat
         /\ Stored(g, Way, NoPage, nextId + 1, styles)
         /\ Stored(g, Way, cache, nextId + 1, styles)
         /\ \A i \in 1..Len(history) : g[i] = history[i]
         /\ LinesOf(g, Len(g)) = logical + 1
<1> DEFINE n == Len(history)
<1>1. /\ history \in Seq(Page) /\ nextId \in Nat \ {0} /\ PageLines \in Nat \ {0} /\ n \in Nat
      /\ DOMAIN history = 1..n
  BY StorageAssumption, OverLimit DEF IInv, TypeOK
<1>2. PICK q : q = FreshPage(w, gen, kind)
  OBVIOUS
<1>3. q \in Page /\ PageOK(q, styles) /\ Hot(q) /\ ~Away(q) /\ q.id = nextId /\ q.lines = 1
  BY <1>1, <1>2, FreshPageOK
<1>4. g = Append(history, q)
  BY <1>2
<1>5. /\ g \in Seq(Page) /\ Len(g) = n + 1 /\ g[n + 1] = q /\ \A i \in 1..n : g[i] = history[i]
  <2> HIDE DEF Page
  <2> QED
    BY <1>1, <1>3, <1>4
<1>6. Stored(g, Way, NoPage, nextId + 1, styles) /\ Stored(g, Way, cache, nextId + 1, styles)
  <2>1. Stored(history, Way, cache, nextId, styles)
    BY WayType
  <2> QED
    BY <1>1, <1>3, <1>4, <2>1, StoredNewPage
<1>7. LinesOf(g, n + 1) = logical + 1
  <2>1. g[n + 1].lines = 1 /\ logical = LinesOf(history, n)
    BY <1>3, <1>5 DEF IInv, LogicalOK
  <2>2. \A i \in 1..n : g[i].lines = history[i].lines
    BY <1>5
  <2> HIDE DEF n
  <2> QED
    BY <1>1, <2>1, <2>2, LinesPush
<1> QED
  BY <1>1, <1>5, <1>6, <1>7

\* ingest_row keeps the invariant.
LEMMA IngestKeeps ==
  ASSUME IInv, NEW w \in Widths, NEW gen \in Generations, IngestRow(w, gen)
  PROVE  IInv'
<1> DEFINE n == Len(history)
<1>1. /\ todo # <<>> /\ Head(todo) = "ingest"
      /\ logical' = logical + 1 /\ fed' = fed + 1 /\ cache' = NoPage
      /\ UNCHANGED <<scan, limit, arg, answer, styles, open>>
      /\ UNCHANGED <<jobs, completions, queued, pending, worker>>
      /\ \/ /\ history # <<>> /\ Back.kind = "segmented" /\ Back.lines < PageLines
            /\ history' = [history EXCEPT ![n] = Extended(@)]
            /\ todo' = Tail(todo) /\ UNCHANGED <<nextId, cursor>>
         \/ /\ history' = Append(history, FreshPage(w, gen, "segmented"))
            /\ nextId' = nextId + 1 /\ cursor' = (IF n > 0 THEN Smaller(cursor, n - 1) ELSE cursor)
            /\ todo' = <<"scan">> \o Tail(todo)
  BY DEF IngestRow, At, Done, Local
<1>2. NewRow \in Row /\ fed + 1 \in 0..MaxRows
  BY <1>1, NewRowOK DEF Adds
<1>3. /\ TodoOK' /\ todo' \in Seq(Steps) /\ scan' = NotScanning
      /\ Within("push", todo') => Within("push", todo)
      /\ Within("enforce", todo) => Within("enforce", todo')
      /\ todo' = <<"scan">> \o Tail(todo) => todo' # <<>> /\ Head(todo') = "scan"
  BY <1>1, TodoAdded DEF Adds
<1>4. Within("enforce", todo)
  <2>1. 1 \in DOMAIN todo /\ todo[1] = "ingest"
    BY <1>1 DEF IInv, TypeOK
  <2>2. EnforcedAfter(todo)
    BY DEF IInv, TodoOK
  <2> QED
    BY <2>1, <2>2 DEF EnforcedAfter, Within
<1>5. Way' = Way
  BY <1>1 DEF Way
<1>6. /\ history \in Seq(Page) /\ n \in Nat /\ cursor \in Nat /\ nextId \in Nat \ {0}
      /\ logical \in Nat
      /\ Sealed(history, cursor) /\ (Within("push", todo) => history = <<>> \/ cursor < n)
  <2>1. ~At("scan")
    BY <1>1 DEF At
  <2> QED
    BY <2>1, OverLimit DEF IInv, TypeOK, CursorOK
<1>7. /\ history' \in Seq(Page) /\ Stored(history', Way, NoPage, nextId', styles)
      /\ LinesOf(history', Len(history')) = logical + 1 /\ cursor' \in Nat
      /\ nextId' \in Nat \ {0}
      /\ Sealed(history', cursor')
      /\ Within("push", todo') => history' = <<>> \/ cursor' < Len(history') \/ (Len(history') = 1 /\ At("scan")')
  <2>1. CASE /\ history # <<>> /\ Back.kind = "segmented" /\ Back.lines < PageLines
             /\ history' = [history EXCEPT ![n] = Extended(@)]
             /\ todo' = Tail(todo) /\ UNCHANGED <<nextId, cursor>>
    <3>1. Hot(Back)
      BY <2>1 DEF Hot
    <3>2. /\ history' \in Seq(Page) /\ Len(history') = n /\ n > 0
          /\ Stored(history', Way, NoPage, nextId, styles)
          /\ \A i \in 1..(n - 1) : history'[i] = history[i]
          /\ LinesOf(history', Len(history')) = logical + 1
      BY <1>2, <2>1, <3>1, GrownBack
    <3>3. Sealed(history', cursor)
      BY <1>6, <3>2 DEF Sealed
    <3> QED
      BY <1>3, <1>6, <2>1, <3>2, <3>3
  <2>2. CASE /\ history' = Append(history, FreshPage(w, gen, "segmented"))
             /\ nextId' = nextId + 1 /\ cursor' = (IF n > 0 THEN Smaller(cursor, n - 1) ELSE cursor)
             /\ todo' = <<"scan">> \o Tail(todo)
    <3>1. gen \in Nat
      BY StorageAssumption
    <3>2. /\ history' \in Seq(Page) /\ Len(history') = n + 1
          /\ Stored(history', Way, NoPage, nextId + 1, styles)
          /\ \A i \in 1..n : history'[i] = history[i]
          /\ LinesOf(history', Len(history')) = logical + 1
      BY <1>2, <2>2, <3>1, NewBack
    <3>3. /\ cursor' \in Nat /\ cursor' <= cursor /\ (n > 0 => cursor' <= n - 1)
      BY <1>6, <2>2 DEF Smaller
    <3>4. Sealed(history', cursor')
      <4>1. \A i \in 1..(Len(history') - 1) : i <= cursor' => i \in 1..(n - 1) /\ i <= cursor /\ history'[i] = history[i]
        BY <1>6, <3>2, <3>3
      <4> QED
        BY <1>6, <4>1 DEF Sealed
    <3>5. At("scan")'
      BY <1>3, <2>2 DEF At
    <3>6. cursor' < Len(history') \/ Len(history') = 1
      BY <1>6, <3>2, <3>3
    <3>7. nextId + 1 \in Nat \ {0}
      BY <1>6
    <3> QED
      BY <2>2, <3>2, <3>3, <3>4, <3>5, <3>6, <3>7
  <2> QED
    BY <1>1, <2>1, <2>2
<1>8. TypeOK'
  <2>1. logical' \in Nat
    BY <1>1, <1>6
  <2> QED
    BY <1>1, <1>2, <1>3, <1>7, <2>1 DEF IInv, TypeOK, Steps
<1>9. StoredOK' /\ LogicalOK' /\ CountersTellTheTruth'
  BY <1>1, <1>5, <1>7 DEF IInv, StoredOK, LogicalOK, CountersTellTheTruth
<1>10. LimitOK'
  BY <1>3, <1>4 DEF LimitOK
<1>11. CursorOK'
  BY <1>3, <1>7 DEF CursorOK
<1> QED
  BY <1>3, <1>8, <1>9, <1>10, <1>11 DEF IInv

\* push_line keeps the invariant.
LEMMA PushKeeps == ASSUME IInv, NEW w \in Widths, PushLine(w) PROVE IInv'
<1> DEFINE n == Len(history)
<1>1. /\ todo # <<>> /\ Head(todo) = "push"
      /\ logical' = logical + 1 /\ fed' = fed + 1
      /\ UNCHANGED <<cursor, cache, scan, limit, arg, answer, styles, open>>
      /\ UNCHANGED <<jobs, completions, queued, pending, worker>>
      /\ todo' = <<"scan", "enforce">> \o Tail(todo)
      /\ \/ /\ history # <<>> /\ Back.kind = "flat" /\ Back.lines < PageLines
            /\ history' = [history EXCEPT ![n] = Extended(@)] /\ nextId' = nextId
         \/ history' = Append(history, FreshPage(w, 0, "flat")) /\ nextId' = nextId + 1
  BY DEF PushLine, At, Local
<1>2. NewRow \in Row /\ fed + 1 \in 0..MaxRows
  BY <1>1, NewRowOK DEF Adds
<1>3. /\ TodoOK' /\ todo' \in Seq(Steps) /\ scan' = NotScanning
      /\ todo' # <<>> /\ Head(todo') = "scan" /\ Within("enforce", todo')
  BY <1>1, TodoAdded DEF Adds
<1>4. Way' = Way
  BY <1>1 DEF Way
<1>5. /\ history \in Seq(Page) /\ n \in Nat /\ cursor \in Nat /\ nextId \in Nat \ {0}
      /\ logical \in Nat
      /\ Sealed(history, cursor) /\ (history = <<>> \/ cursor < n)
      /\ (history = <<>> <=> n = 0)
  <2>1. ~At("scan")
    BY <1>1 DEF At
  <2>2. Within("push", todo)
    <3>1. 1 \in DOMAIN todo /\ todo[1] = "push"
      BY <1>1 DEF IInv, TypeOK
    <3> QED
      BY <3>1 DEF Within
  <2>3. history \in Seq(Page) /\ n \in Nat
    BY OverLimit DEF IInv, TypeOK
  <2>4. history = <<>> <=> n = 0
    <3> HIDE DEF Page
    <3> QED
      BY <2>3
  <2> QED
    BY <2>1, <2>2, <2>3, <2>4 DEF IInv, TypeOK, CursorOK
<1>6. /\ history' \in Seq(Page) /\ Stored(history', Way, cache, nextId', styles)
      /\ LinesOf(history', Len(history')) = logical + 1 /\ nextId' \in Nat \ {0}
      /\ Sealed(history', cursor) /\ (cursor < Len(history') \/ Len(history') = 1)
  <2>1. CASE /\ history # <<>> /\ Back.kind = "flat" /\ Back.lines < PageLines
             /\ history' = [history EXCEPT ![n] = Extended(@)] /\ nextId' = nextId
    <3>1. Hot(Back)
      BY <2>1 DEF Hot
    <3>2. /\ history' \in Seq(Page) /\ Len(history') = n /\ n > 0
          /\ Stored(history', Way, cache, nextId, styles)
          /\ \A i \in 1..(n - 1) : history'[i] = history[i]
          /\ LinesOf(history', Len(history')) = logical + 1
      BY <1>2, <2>1, <3>1, GrownBack
    <3>3. Sealed(history', cursor)
      BY <1>5, <3>2 DEF Sealed
    <3> QED
      BY <1>5, <2>1, <3>2, <3>3
  <2>2. CASE history' = Append(history, FreshPage(w, 0, "flat")) /\ nextId' = nextId + 1
    <3>1. 0 \in Nat
      OBVIOUS
    <3>2. /\ history' \in Seq(Page) /\ Len(history') = n + 1
          /\ Stored(history', Way, cache, nextId + 1, styles)
          /\ \A i \in 1..n : history'[i] = history[i]
          /\ LinesOf(history', Len(history')) = logical + 1
      BY <1>2, <2>2, <3>1, NewBack
    <3>3. Sealed(history', cursor)
      <4>1. \A i \in 1..(Len(history') - 1) : i <= cursor => i \in 1..(n - 1) /\ history'[i] = history[i]
        BY <1>5, <3>2
      <4> QED
        BY <1>5, <4>1 DEF Sealed
    <3>4. cursor < Len(history') \/ Len(history') = 1
      BY <1>5, <3>2
    <3>5. nextId + 1 \in Nat \ {0}
      BY <1>5
    <3> QED
      BY <2>2, <3>2, <3>3, <3>4, <3>5
  <2> QED
    BY <1>1, <2>1, <2>2
<1>7. TypeOK'
  <2>1. logical' \in Nat
    BY <1>1, <1>5
  <2> QED
    BY <1>1, <1>2, <1>3, <1>6, <2>1 DEF IInv, TypeOK, Steps
<1>8. StoredOK' /\ LogicalOK' /\ CountersTellTheTruth'
  BY <1>1, <1>4, <1>6 DEF IInv, StoredOK, LogicalOK, CountersTellTheTruth
<1>9. LimitOK'
  BY <1>3 DEF LimitOK
<1>10. CursorOK'
  BY <1>1, <1>3, <1>6 DEF CursorOK, At
<1> QED
  BY <1>3, <1>7, <1>8, <1>9, <1>10 DEF IInv

------------------------------------------------------------------------------
\* Reading and renumbering.

\* The cache after a compressed page was read.
LEMMA CacheOfPage ==
  ASSUME NEW h, NEW n \in Nat, NEW s, PagesFit(h, n, s), NEW c, CacheFits(c, h, n),
         NEW k \in DOMAIN h, DOMAIN h \subseteq Int,
         Cold(h[k]), NEW d,
         d = IF c.page = h[k].id /\ c.gen = h[k].gen THEN c ELSE [page |-> h[k].id, gen |-> h[k].gen, rows |-> h[k].packed]
  PROVE  CacheFits(d, h, n) /\ d.rows = h[k].packed
<1>1. CASE c.page = h[k].id /\ c.gen = h[k].gen
  BY <1>1 DEF CacheFits
<1>2. CASE ~(c.page = h[k].id /\ c.gen = h[k].gen)
  <2>1. d.page = h[k].id /\ d.rows = h[k].packed
    BY <1>2
  <2>2. \A i \in DOMAIN h : h[i].id = h[k].id => i = k
    <3> SUFFICES ASSUME NEW i \in DOMAIN h, h[i].id = h[k].id, i # k PROVE FALSE
      OBVIOUS
    <3>1. i < k \/ k < i
      OBVIOUS
    <3>2. h[i].id < h[k].id \/ h[k].id < h[i].id
      BY <3>1 DEF PagesFit
    <3>3. h[i].id \in Int
      BY DEF PagesFit
    <3> QED
      BY <3>2, <3>3
  <2>3. h[k].id \in 0..(n - 1)
    BY DEF PagesFit
  <2> QED
    BY <2>1, <2>2, <2>3 DEF CacheFits
<1> QED
  BY <1>1, <1>2

\* read_line keeps the invariant.
LEMMA ReadKeeps == ASSUME IInv, ReadLine PROVE IInv'
<1>1. PICK p, cached : p = history[arg[1]] /\ cached = Cached(p)
  OBVIOUS
<1>2. /\ todo # <<>> /\ Head(todo) = "read" /\ todo' = Tail(todo)
      /\ cache' = (IF Cold(p) THEN cached ELSE cache)
      /\ answer' = (IF Hot(p) THEN <<p.rows[arg[2]]>> ELSE IF Cold(p) THEN <<cached.rows[arg[2]]>> ELSE <<NoRow>>)
      /\ UNCHANGED <<history, logical, nextId, cursor, limit, scan, fed, styles, open>>
      /\ UNCHANGED <<jobs, completions, queued, pending, worker>>
  BY <1>1 DEF ReadLine, At, Done, Local
<1>3. Within("read", todo)
  <2>1. 1 \in DOMAIN todo /\ todo[1] = "read"
    BY <1>2 DEF IInv, TypeOK
  <2> QED
    BY <2>1 DEF Within
<1>4. todo \in ReadTails /\ arg[1] \in DOMAIN history /\ arg[2] \in 1..p.lines /\ ~Away(p)
  BY <1>1, <1>2, <1>3 DEF IInv, TodoOK, ReadOK
<1>5. todo' = <<>> /\ ~Within("push", todo) /\ ~Within("enforce", todo)
  <2>1. todo' = <<>>
    BY <1>2, <1>4, ReadTail
  <2>2. ~Within("push", todo') /\ ~Within("enforce", todo')
    BY <2>1 DEF Within
  <2> QED
    BY <1>2, <2>1, <2>2, Pop
<1>6. /\ p \in Page /\ PageOK(p, styles) /\ Stored(history, Way, cache, nextId, styles)
      /\ nextId \in Nat /\ DOMAIN history \subseteq Int
  BY <1>1, <1>4, WayType, OverLimit, SMTT(30) DEF Stored, PagesFit, IInv, TypeOK
<1>7. Stored(history, Way, cache', nextId, styles) /\ (Cold(p) => cached.rows = p.packed)
  <2>1. CASE Cold(p)
    <3>1. cached = IF cache.page = p.id /\ cache.gen = p.gen THEN cache ELSE [page |-> p.id, gen |-> p.gen, rows |-> p.packed]
      BY <1>1 DEF Cached
    <3>2. PICK k \in DOMAIN history : k = arg[1]
      BY <1>4
    <3>3. p = history[k]
      BY <1>1, <3>2
    <3>4. PagesFit(history, nextId, styles) /\ CacheFits(cache, history, nextId)
      BY <1>6 DEF Stored
    <3>5. CacheFits(cached, history, nextId) /\ cached.rows = history[k].packed
      BY <1>6, <2>1, <3>1, <3>3, <3>4, CacheOfPage
    <3> QED
      BY <1>2, <1>6, <2>1, <3>3, <3>5 DEF Stored
  <2>2. CASE ~Cold(p)
    BY <1>2, <1>6, <2>2
  <2> QED
    BY <2>1, <2>2
<1>8. answer' \in Seq(Row \cup {NoRow})
  <2>1. /\ p.rows \in Seq(Row) /\ p.packed \in Seq(Row)
        /\ Hot(p) => arg[2] \in 1..Len(p.rows)
        /\ Cold(p) => arg[2] \in 1..Len(p.packed)
    BY <1>4, <1>6 DEF Page, PageOK
  <2>2. (Hot(p) => p.rows[arg[2]] \in Row) /\ (Cold(p) => p.packed[arg[2]] \in Row)
    <3> HIDE DEF Row
    <3> QED
      BY <2>1
  <2>3. PICK r \in Row \cup {NoRow} : answer' = <<r>>
    BY <1>2, <1>7, <2>2
  <2> HIDE DEF Row, NoRow
  <2> QED
    BY <2>3
<1>9. scan = NotScanning /\ scan' = NotScanning
  BY <1>2, Idle
<1>10. TodoOK' /\ todo' \in Seq(Steps)
  <2>1. ~Within("read", todo')
    BY <1>5 DEF Within
  <2>2. Head(todo) \notin Adds
    BY <1>2 DEF Adds
  <2> QED
    BY <1>2, <1>9, <2>1, <2>2, TodoFrame
<1>11. TypeOK'
  BY <1>2, <1>8, <1>10 DEF IInv, TypeOK, Steps
<1>12. StoredOK' /\ LogicalOK' /\ CountersTellTheTruth'
  <2>1. Way' = Way
    BY <1>2 DEF Way
  <2> QED
    BY <1>2, <1>7, <2>1 DEF IInv, StoredOK, LogicalOK, CountersTellTheTruth
<1>13. LimitOK'
  BY <1>2, <1>5, LimitFrame
<1>14. CursorOK'
  <2>1. ~Within("push", todo')
    BY <1>5 DEF Within
  <2> QED
    BY <1>2, <1>9, <2>1, CursorFrame
<1> QED
  BY <1>10, <1>11, <1>12, <1>13, <1>14 DEF IInv

\* When both counters are zero nothing is on the way.
LEMMA Quiet ==
  ASSUME IInv, queued = 0, pending = 0 PROVE Way = <<>>
<1>1. /\ jobs \in Seq(Job) /\ completions \in Seq(Job)
      /\ worker.pc \in {"recv", "send", "sent", "gone"}
      /\ queued = Len(jobs) + (IF worker.pc \in {"send", "sent"} THEN 1 ELSE 0)
      /\ pending = Len(completions) + (IF worker.pc = "send" THEN 1 ELSE 0)
  BY DEF IInv, TypeOK, CountersTellTheTruth
<1>2. Len(jobs) = 0 /\ Len(completions) = 0 /\ worker.pc # "send"
  BY <1>1
<1>3. jobs = <<>> /\ completions = <<>>
  BY <1>1, <1>2
<1> QED
  BY <1>2, <1>3 DEF Way

\* The storage after the styles were renumbered.
LEMMA RestyledStore ==
  ASSUME NEW h \in Seq(Page), NEW n \in Nat \ {0}, NEW s \in Nat, PagesFit(h, n, s),
         \A i \in DOMAIN h : ~Away(h[i]),
         s < MaxStyles, MaxStyles \in Nat, NEW g, g = [i \in DOMAIN h |-> Restyled(h[i])]
  PROVE  /\ g \in Seq(Page) /\ Len(g) = Len(h) /\ Stored(g, <<>>, NoPage, n, s + 1)
         /\ \A i \in DOMAIN h : g[i].lines = h[i].lines /\ (Hot(g[i]) <=> Hot(h[i]))
<1>1. \A i \in DOMAIN h : h[i] \in Page
  <2> HIDE DEF Page
  <2> QED
    OBVIOUS
<1>2. \A i \in DOMAIN h : /\ g[i] \in Page /\ PageOK(g[i], s + 1) /\ ~Away(g[i])
                          /\ g[i].id = h[i].id /\ g[i].lines = h[i].lines /\ (Hot(g[i]) <=> Hot(h[i]))
  <2> SUFFICES ASSUME NEW i \in DOMAIN h
               PROVE  /\ g[i] \in Page /\ PageOK(g[i], s + 1) /\ ~Away(g[i])
                      /\ g[i].id = h[i].id /\ g[i].lines = h[i].lines /\ (Hot(g[i]) <=> Hot(h[i]))
    OBVIOUS
  <2>1. PICK p \in Page : p = h[i]
    BY <1>1
  <2>2. PageOK(p, s) /\ ~Away(p) /\ g[i] = Restyled(p)
    BY <2>1 DEF PagesFit
  <2> QED
    BY <2>1, <2>2, RestyledPage
<1>3. g \in Seq(Page) /\ Len(g) = Len(h) /\ DOMAIN g = DOMAIN h
  <2>1. \A i \in DOMAIN h : g[i] \in Page
    BY <1>2
  <2>2. \A i \in DOMAIN h : Restyled(h[i]) \in Page
    BY <2>1
  <2> HIDE DEF Page
  <2> QED
    BY <2>2
<1>4. PagesFit(g, n, s + 1)
  <2>1. \A i \in DOMAIN g : PageOK(g[i], s + 1) /\ g[i].id \in 1..(n - 1)
    BY <1>2, <1>3 DEF PagesFit
  <2>2. \A i, k \in DOMAIN g : i < k => g[i].id < g[k].id
    <3>1. \A i, k \in DOMAIN h : i < k => h[i].id < h[k].id
      BY DEF PagesFit
    <3>2. \A i \in DOMAIN h : g[i].id = h[i].id
      BY <1>2
    <3> QED
      BY <1>3, <3>1, <3>2
  <2> QED
    BY <2>1, <2>2 DEF PagesFit
<1>5. JobsFit(<<>>, g, n, s + 1)
  BY <1>2, <1>3 DEF JobsFit
<1>6. CacheFits(NoPage, g, n)
  BY <1>4, NoPageFits
<1> QED
  BY <1>2, <1>3, <1>4, <1>5, <1>6 DEF Stored

\* Renumbering the styles keeps the invariant.
LEMMA RemapKeeps == ASSUME IInv, Remap PROVE IInv'
<1>1. PICK quiet \in BOOLEAN :
        /\ quiet => queued = 0 /\ pending = 0
        /\ todo # <<>> /\ Head(todo) = "remap"
        /\ todo' = (IF quiet THEN <<"scan">> ELSE <<>>) \o Tail(todo)
        /\ cursor' = (IF quiet THEN 0 ELSE cursor)
        /\ \/ UNCHANGED <<history, cache, styles>>
           \/ /\ quiet /\ ~(\E i \in DOMAIN history : Away(history[i])) /\ styles < MaxStyles
              /\ history' = [i \in DOMAIN history |-> Restyled(history[i])]
              /\ styles' = styles + 1
              /\ cache' = NoPage
        /\ UNCHANGED <<logical, nextId, limit, scan, arg, answer, fed, open>>
        /\ UNCHANGED <<jobs, completions, queued, pending, worker>>
  <2>1. PICK q \in BOOLEAN : q <=> (queued = 0 /\ pending = 0 /\ \A i \in DOMAIN history : ~history[i].pending)
    OBVIOUS
  <2> QED
    BY <2>1 DEF Remap, At, Local
<1>2. scan = NotScanning /\ scan' = NotScanning /\ ~Within("read", todo)
  BY <1>1, Idle, NotReading
<1>3. PICK t : t = Tail(todo)
  OBVIOUS
<1>4. /\ t \in Seq(Steps) /\ EnforcedAfter(t) /\ AddsFit(t, fed)
      /\ \A x : Within(x, todo) <=> Head(todo) = x \/ Within(x, t)
  BY <1>1, <1>3, Pop DEF Adds
<1>5. /\ todo' \in Seq(Steps) /\ EnforcedAfter(todo') /\ AddsFit(todo', fed)
      /\ \A x : Within(x, t) => Within(x, todo')
      /\ Within("push", todo') => Within("push", t)
      /\ ~Within("read", todo')
  <2>1. fed \in Nat
    BY StorageAssumption DEF IInv, TypeOK
  <2>2. CASE quiet
    <3>1. PICK p : p = <<"scan">>
      OBVIOUS
    <3>2. p \in Seq(Steps) /\ \A x : Within(x, p) <=> x = "scan"
      BY <3>1, Literals
    <3>3. todo' = p \o t
      BY <1>1, <1>3, <2>2, <3>1
    <3>4. PICK u : u = todo' /\ u = p \o t
      BY <3>3
    <3>5. ~Within("ingest", p) /\ ~Within("push", p)
      BY <3>2
    <3>6. /\ u \in Seq(Steps) /\ EnforcedAfter(u) /\ AddsFit(u, fed)
          /\ \A x : Within(x, u) <=> Within(x, p) \/ Within(x, t)
      BY <1>4, <2>1, <3>2, <3>4, <3>5, Prepend
    <3> QED
      BY <1>1, <1>2, <1>4, <3>2, <3>4, <3>6
  <2>3. CASE ~quiet
    <3>1. todo' = t
      <4>1. <<>> \o t = t
        BY <1>4
      <4> QED
        BY <1>1, <1>3, <2>3, <4>1
    <3> QED
      BY <1>1, <1>2, <1>4, <3>1
  <2> QED
    BY <2>2, <2>3
<1>6. TodoOK'
  BY <1>1, <1>2, <1>5 DEF TodoOK, ReadOK, ScanOK
<1>7. /\ history \in Seq(Page) /\ DOMAIN history = 1..Len(history) /\ Len(history) \in Nat
      /\ nextId \in Nat \ {0} /\ styles \in Nat /\ MaxStyles \in Nat
      /\ PagesFit(history, nextId, styles) /\ Stored(history, Way, cache, nextId, styles)
  BY OverLimit, WayType, StorageAssumption DEF IInv, TypeOK, Stored
<1>8. Way' = Way
  BY <1>1 DEF Way
<1>9. /\ history' \in Seq(Page) /\ Len(history') = Len(history)
      /\ Stored(history', Way', cache', nextId', styles')
      /\ styles' \in 0..MaxStyles
      /\ \A i \in DOMAIN history : history'[i].lines = history[i].lines /\ (Hot(history'[i]) <=> Hot(history[i]))
  <2>1. CASE UNCHANGED <<history, cache, styles>>
    BY <1>1, <1>7, <1>8, <2>1 DEF IInv, TypeOK
  <2>2. CASE /\ quiet /\ ~(\E i \in DOMAIN history : Away(history[i])) /\ styles < MaxStyles
             /\ history' = [i \in DOMAIN history |-> Restyled(history[i])]
             /\ styles' = styles + 1
             /\ cache' = NoPage
    <3>1. Way = <<>>
      BY <1>1, <2>2, Quiet
    <3>2. PICK h, g : h = history /\ g = history' /\ h \in Seq(Page) /\ g = [i \in DOMAIN h |-> Restyled(h[i])]
      BY <1>7, <2>2
    <3>3. PagesFit(h, nextId, styles) /\ (\A i \in DOMAIN h : ~Away(h[i])) /\ styles < MaxStyles
      BY <1>7, <2>2, <3>2
    <3>4. /\ g \in Seq(Page) /\ Len(g) = Len(h) /\ Stored(g, <<>>, NoPage, nextId, styles + 1)
          /\ \A i \in DOMAIN h : g[i].lines = h[i].lines /\ (Hot(g[i]) <=> Hot(h[i]))
      BY <1>7, <3>2, <3>3, RestyledStore
    <3>5. styles + 1 \in 0..MaxStyles
      BY <1>7, <2>2
    <3> QED
      BY <1>1, <1>8, <2>2, <3>1, <3>2, <3>4, <3>5
  <2> QED
    BY <1>1, <2>1, <2>2
<1>10. TypeOK'
  <2>1. cursor' \in Nat
    BY <1>1 DEF IInv, TypeOK
  <2> QED
    BY <1>1, <1>5, <1>9, <2>1 DEF IInv, TypeOK, Steps
<1>11. StoredOK' /\ CountersTellTheTruth'
  BY <1>1, <1>9 DEF IInv, StoredOK, CountersTellTheTruth
<1>12. LogicalOK'
  <2>1. \A i \in 1..Len(history) : history[i].lines = history'[i].lines
    BY <1>7, <1>9
  <2>2. LinesOf(history, Len(history)) = LinesOf(history', Len(history))
    BY <1>7, <2>1, LinesSame
  <2> QED
    BY <1>1, <1>9, <2>2 DEF IInv, LogicalOK
<1>13. LimitOK'
  <2> SUFFICES ASSUME logical' > limit' /\ ~Within("enforce", todo') /\ ~Within("push", todo')
               PROVE  logical' - limit' < history'[1].lines /\ ~Hot(history'[1])
    BY DEF LimitOK
  <2>1. ~Within("enforce", todo) /\ ~Within("push", todo)
    BY <1>1, <1>4, <1>5
  <2>2. logical > limit /\ logical - limit < history[1].lines /\ ~Hot(history[1])
    BY <1>1, <2>1 DEF IInv, LimitOK
  <2>3. 1 \in DOMAIN history
    <3>1. logical \in Nat /\ limit \in Nat \ {0}
      BY OverLimit
    <3>2. logical > 0
      BY <2>2, <3>1
    <3> QED
      BY <3>2, OverLimit
  <2> QED
    BY <1>1, <1>9, <2>2, <2>3
<1>14. CursorOK'
  <2>1. Sealed(history, cursor) /\ (Within("push", todo) => history = <<>> \/ cursor < Len(history))
    BY <1>1 DEF IInv, CursorOK, At
  <2>2. history = <<>> <=> Len(history) = 0
    <3> HIDE DEF Page
    <3> QED
      BY <1>7
  <2>3. history' = <<>> <=> Len(history') = 0
    <3> HIDE DEF Page
    <3> QED
      BY <1>9
  <2>4. CASE quiet
    <3>1. cursor' = 0
      BY <1>1, <2>4
    <3>2. Sealed(history', 0)
      BY DEF Sealed
    <3>3. history' = <<>> \/ cursor' < Len(history')
      BY <1>7, <1>9, <2>3, <3>1
    <3> QED
      BY <1>2, <3>1, <3>2, <3>3 DEF CursorOK
  <2>5. CASE ~quiet
    <3>1. cursor' = cursor /\ history' = history
      BY <1>1, <2>5
    <3>2. Within("push", todo') => Within("push", todo)
      BY <1>4, <1>5
    <3> QED
      BY <1>2, <2>1, <3>1, <3>2 DEF CursorOK
  <2> QED
    BY <2>4, <2>5
<1> QED
  BY <1>6, <1>10, <1>11, <1>12, <1>13, <1>14 DEF IInv

------------------------------------------------------------------------------
\* Eviction.

\* LinesBefore counts the lines of the pages before one.
LEMMA LinesBeforeIs == ASSUME NEW k PROVE LinesBefore(k) = LinesOf(history, k)
  BY DEF LinesBefore, LinesOf

\* The pages that go whole, and how many lines of the next one go.
LEMMA Evictable ==
  ASSUME NEW h, NEW n \in Nat, Sized(h, n), NEW x \in Int, NEW m \in 0..n,
         m = 0 \/ LinesOf(h, m) <= x,
         \A k \in 0..n : LinesOf(h, k) <= x => k <= m
  PROVE  /\ LinesOf(h, m) \in Nat
         /\ m < n => h[m + 1].lines \in Nat /\ LinesOf(h, m) + h[m + 1].lines > x
         /\ 0 < x /\ x < LinesOf(h, n) => m < n /\ LinesOf(h, m) <= x
<1>1. PICK b \in Nat : b = LinesOf(h, m)
  BY LinesType
<1>2. ASSUME m < n PROVE h[m + 1].lines \in Nat /\ b + h[m + 1].lines > x
  <2>1. PICK k \in Nat : k = m + 1 /\ k # 0 /\ k - 1 = m /\ k \in 1..n /\ k \in 0..n /\ ~(k <= m)
    BY <1>2
  <2>2. LinesOf(h, k) = LinesOf(h, k - 1) + h[k].lines
    BY <2>1, LinesStep
  <2>3. PICK l \in Nat : l = h[k].lines
    BY <2>1 DEF Sized
  <2>4. LinesOf(h, k) = b + l
    BY <1>1, <2>1, <2>2, <2>3
  <2>5. ~(b + l <= x)
    BY <2>1, <2>4
  <2> QED
    BY <2>1, <2>3, <2>5
<1>3. ASSUME 0 < x, x < LinesOf(h, n) PROVE m < n /\ b <= x
  <2>1. LinesOf(h, 0) = 0
    BY LinesStep
  <2>2. b <= x
    BY <1>1, <1>3, <2>1
  <2>3. m # n
    BY <1>1, <1>3, <2>2
  <2> QED
    BY <2>2, <2>3
<1> QED
  BY <1>1, <1>2, <1>3

\* Every page is right.
AllOK(h, s) == \A i \in DOMAIN h : PageOK(h[i], s)

\* m pages go whole, l stay, and the first of these loses part of its lines.
FrontFits(h, m, l, part) ==
  m + l = Len(h) /\ (part > 0 => l > 0 /\ part < h[m + 1].lines /\ ~Away(h[m + 1]))

\* g is h after that eviction, page by page.
FrontIs(h, g, m, l, part, s) ==
  /\ \A i \in 2..l : g[i] = h[m + i]
  /\ part = 0 => \A i \in 1..l : g[i] = h[m + i]
  /\ part > 0 => /\ PageOK(g[1], s) /\ ~Away(g[1]) /\ ~Away(h[m + 1])
                 /\ g[1].id = h[m + 1].id /\ g[1].lines = h[m + 1].lines - part
                 /\ g[1].lines < PageLines

\* g is h moved by m pages, but for a first page that is no longer full.
PagesMoved(h, g, m, l, part) ==
  /\ \A i \in 1..l : g[i] = h[m + i] \/ (i = 1 /\ g[1].lines < PageLines)
  /\ part = 0 => \A i \in 1..l : g[i] = h[m + i]

\* h after that eviction.
CutFront(h, m, part) ==
  LET kept == SubSeq(h, m + 1, Len(h)) IN IF part > 0 THEN [kept EXCEPT ![1] = Trimmed(@, part)] ELSE kept

\* The pages left after an eviction from the front.
LEMMA FrontPages ==
  ASSUME NEW h \in Seq(Page), NEW s, AllOK(h, s), PageLines \in Nat,
         NEW m \in Nat, NEW l \in Nat, NEW part \in Nat, FrontFits(h, m, l, part),
         NEW g, g = CutFront(h, m, part)
  PROVE  g \in Seq(Page) /\ Len(g) = l /\ FrontIs(h, g, m, l, part, s)
<1>0. /\ \A i \in DOMAIN h : PageOK(h[i], s)
      /\ m + l = Len(h) /\ (part > 0 => l > 0 /\ part < h[m + 1].lines /\ ~Away(h[m + 1]))
  BY DEF AllOK, FrontFits
<1> DEFINE R == /\ g \in Seq(Page) /\ Len(g) = l
                /\ \A i \in 2..l : g[i] = h[m + i]
                /\ part = 0 => \A i \in 1..l : g[i] = h[m + i]
                /\ part > 0 => /\ PageOK(g[1], s) /\ ~Away(g[1]) /\ ~Away(h[m + 1])
                               /\ g[1].id = h[m + 1].id /\ g[1].lines = h[m + 1].lines - part
                               /\ g[1].lines < PageLines
<1> SUFFICES R
  BY DEF FrontIs
<1>1. PICK kept : kept = SubSeq(h, m + 1, Len(h))
  OBVIOUS
<1>2. kept \in Seq(Page) /\ Len(kept) = l /\ \A i \in 1..l : kept[i] = h[m + i]
  <2> HIDE DEF Page
  <2> QED
    BY <1>0, <1>1, SMTT(30)
<1>3. \A i \in 1..l : m + i \in DOMAIN h /\ h[m + i] \in Page
  <2> HIDE DEF Page
  <2> QED
    BY <1>0
<1>4. CASE part = 0
  <2>1. g = kept
    BY <1>1, <1>4 DEF CutFront
  <2>2. part > 0 <=> FALSE
    BY <1>4
  <2>3. \A i \in 2..l : i \in 1..l
    OBVIOUS
  <2> QED
    BY <1>2, <2>1, <2>2, <2>3
<1>5. CASE part > 0
  <2>1. /\ l > 0 /\ 1 \in 1..l /\ h[m + 1] \in Page /\ kept[1] = h[m + 1]
        /\ m + 1 \in DOMAIN h
        /\ PageOK(h[m + 1], s)
    BY <1>0, <1>2, <1>3, <1>5
  <2>2. PICK p \in Page : p = h[m + 1]
    BY <2>1
  <2>3. PICK q : q = Trimmed(p, part)
    OBVIOUS
  <2>4. /\ q \in Page /\ PageOK(q, s) /\ ~Away(q) /\ q.id = p.id /\ q.lines = p.lines - part
    BY <1>0, <1>5, <2>1, <2>2, <2>3, TrimmedPage
  <2>5. g = [kept EXCEPT ![1] = q]
    BY <1>1, <1>5, <2>1, <2>2, <2>3 DEF CutFront
  <2>6. g \in Seq(Page) /\ Len(g) = l /\ g[1] = q /\ \A i \in 2..l : g[i] = kept[i]
    <3> HIDE DEF Page
    <3>1. DOMAIN kept = 1..l
      BY <1>2
    <3>2. g \in Seq(Page) /\ DOMAIN g = 1..l /\ g[1] = q /\ \A i \in 1..l : i # 1 => g[i] = kept[i]
      BY <1>2, <2>1, <2>4, <2>5, <3>1
    <3>3. Len(g) = l
      BY <3>2
    <3>4. \A i \in 2..l : i \in 1..l /\ i # 1
      OBVIOUS
    <3> QED
      BY <3>2, <3>3, <3>4
  <2>7. p.lines - part < PageLines
    <3>1. p.lines \in 1..PageLines
      BY <2>2 DEF Page
    <3> QED
      BY <1>5, <3>1
  <2>8. \A i \in 2..l : g[i] = h[m + i]
    <3>1. \A i \in 2..l : i \in 1..l
      OBVIOUS
    <3> QED
      BY <1>2, <2>6, <3>1
  <2>9. part # 0
    BY <1>5
  <2>10. PageOK(g[1], s) /\ ~Away(g[1]) /\ ~Away(h[m + 1])
    BY <1>0, <1>5, <2>4, <2>6
  <2>11. g[1].id = h[m + 1].id /\ g[1].lines = h[m + 1].lines - part /\ g[1].lines < PageLines
    BY <2>2, <2>4, <2>6, <2>7
  <2> HIDE DEF Page
  <2> QED
    BY <2>6, <2>8, <2>9, <2>10, <2>11
<1> QED
  BY <1>4, <1>5

\* The storage after an eviction from the front.
LEMMA Evicted ==
  ASSUME NEW h \in Seq(Page), NEW w, NEW c, NEW n \in Nat \ {0}, NEW s,
         Stored(h, w, c, n, s), PageLines \in Nat,
         NEW m \in Nat, NEW l \in Nat, NEW part \in Nat, FrontFits(h, m, l, part),
         NEW g, g = CutFront(h, m, part), NEW e, e = (IF part > 0 THEN NoPage ELSE c)
  PROVE  /\ g \in Seq(Page) /\ Len(g) = l
         /\ LinesOf(g, l) = LinesOf(h, Len(h)) - LinesOf(h, m) - part /\ LinesOf(g, l) \in Nat
         /\ Stored(g, w, e, n, s) /\ PagesMoved(h, g, m, l, part)
<1>0. m + l = Len(h) /\ (part > 0 => l > 0 /\ part < h[m + 1].lines /\ ~Away(h[m + 1]))
  BY DEF FrontFits
<1>1. AllOK(h, s) /\ \A i \in DOMAIN h : PageOK(h[i], s)
  BY DEF Stored, PagesFit, AllOK
<1>1a. g \in Seq(Page) /\ Len(g) = l /\ FrontIs(h, g, m, l, part, s)
  BY <1>1, FrontPages
<1>2. /\ g \in Seq(Page) /\ Len(g) = l
      /\ \A i \in 2..l : g[i] = h[m + i]
      /\ part = 0 => \A i \in 1..l : g[i] = h[m + i]
      /\ part > 0 => /\ PageOK(g[1], s) /\ ~Away(g[1]) /\ ~Away(h[m + 1])
                     /\ g[1].id = h[m + 1].id /\ g[1].lines = h[m + 1].lines - part
                     /\ g[1].lines < PageLines
  BY <1>1a DEF FrontIs
<1>3. DOMAIN g = 1..l /\ DOMAIN h = 1..Len(h) /\ \A i \in 1..l : i + m = m + i /\ i + m \in DOMAIN h
  <2> HIDE DEF Page
  <2> QED
    BY <1>0, <1>1a
<1>4. \A i \in 1..l : i = 1 \/ i \in 2..l
  OBVIOUS
<1>5. \A i \in DOMAIN g : i + m \in DOMAIN h /\ Stays(h[i + m], g[i], s)
  <2> SUFFICES ASSUME NEW i \in 1..l PROVE i + m \in DOMAIN h /\ Stays(h[i + m], g[i], s)
    BY <1>3
  <2>1. i + m \in DOMAIN h /\ PageOK(h[i + m], s) /\ h[i + m] = h[m + i]
    BY <1>1, <1>3
  <2>2. CASE i = 1 /\ part > 0
    <3>1. PageOK(g[i], s) /\ ~Away(g[i]) /\ ~Away(h[m + i]) /\ g[i].id = h[m + i].id
      BY <1>2, <2>2
    <3> QED
      BY <2>1, <3>1 DEF Stays
  <2>3. CASE ~(i = 1 /\ part > 0)
    <3>1. g[i] = h[m + i]
      BY <1>2, <1>4, <2>3
    <3> QED
      BY <2>1, <3>1 DEF Stays
  <2> QED
    BY <2>2, <2>3
<1>6. Stored(g, w, e, n, s)
  <2>1. g \in Seq(Page)
    BY <1>2
  <2>2. Stored(g, w, NoPage, n, s) /\ ((\A i \in DOMAIN g : CacheSafe(h[i + m], g[i])) => Stored(g, w, c, n, s))
    BY <1>5, <2>1, StoredDerived
  <2>3. CASE part > 0
    BY <2>2, <2>3
  <2>4. CASE part = 0
    <3>1. \A i \in DOMAIN g : CacheSafe(h[i + m], g[i])
      BY <1>2, <1>3, <2>4 DEF CacheSafe
    <3>2. ~(part > 0)
      BY <2>4
    <3> QED
      BY <2>2, <3>1, <3>2
  <2>5. part = 0 \/ part > 0
    OBVIOUS
  <2> QED
    BY <2>3, <2>4, <2>5
<1>7. LinesOf(g, l) = LinesOf(h, Len(h)) - LinesOf(h, m) - part /\ LinesOf(g, l) \in Nat
  <2>1. Sized(h, m + l) /\ Sized(g, l)
    <3>1. Sized(h, Len(h)) /\ Sized(g, Len(g))
      BY <1>1a, PagesSized
    <3> QED
      BY <1>0, <1>1a, <3>1
  <2>2. LinesOf(g, l) \in Nat
    BY <2>1, LinesType
  <2>3. CASE l = 0
    <3>1. m = Len(h) /\ part = 0 /\ LinesOf(g, l) = 0
      BY <1>0, <2>3, LinesStep
    <3>2. LinesOf(h, m) \in Nat
      <4>1. m \in 0..(m + l) /\ m + l \in Nat
        OBVIOUS
      <4> QED
        BY <2>1, <4>1, LinesType
    <3> QED
      BY <2>2, <3>1, <3>2
  <2>4. CASE l # 0
    <3>1. h[m + 1].lines \in Nat
      <4>1. m + 1 \in 1..(m + l)
        BY <2>4
      <4> QED
        BY <2>1, <4>1 DEF Sized
    <3>2. g[1].lines = h[m + 1].lines - part
      <4>1. CASE part = 0
        <5>1. g[1] = h[m + 1]
          <6>1. 1 \in 1..l
            BY <2>4
          <6> QED
            BY <1>2, <4>1, <6>1
        <5> QED
          BY <3>1, <4>1, <5>1
      <4>2. CASE part > 0
        BY <1>2, <4>2
      <4> QED
        BY <4>1, <4>2
    <3>3. \A i \in 2..l : g[i].lines = h[m + i].lines
      BY <1>2
    <3>4. CutLines(h, g, m, l, part)
      BY <3>2, <3>3 DEF CutLines
    <3>4a. \A k \in 1..l : LinesOf(g, k) = LinesOf(h, m + k) - LinesOf(h, m) - part
      BY <2>1, <3>4, LinesCut
    <3>5. l \in 1..l
      BY <2>4
    <3>6. LinesOf(g, l) = LinesOf(h, m + l) - LinesOf(h, m) - part
      BY <3>4a, <3>5
    <3> QED
      BY <1>0, <2>2, <3>6
  <2> QED
    BY <2>3, <2>4
<1>8. \A i \in 1..l : g[i] = h[m + i] \/ (i = 1 /\ g[1].lines < PageLines)
  <2> SUFFICES ASSUME NEW i \in 1..l PROVE g[i] = h[m + i] \/ (i = 1 /\ g[1].lines < PageLines)
    OBVIOUS
  <2>1. CASE i = 1 /\ part > 0
    BY <1>2, <2>1
  <2>2. CASE ~(i = 1 /\ part > 0)
    BY <1>2, <1>4, <2>2
  <2> QED
    BY <2>1, <2>2
<1>9. PagesMoved(h, g, m, l, part)
  BY <1>2, <1>8 DEF PagesMoved
<1> QED
  BY <1>1a, <1>6, <1>7, <1>9

\* The step of enforce_limit with its numbers: m pages go whole, l stay, part lines go from the
\* first that stays, and before lines went with the m pages.
EnforcedAt(max, m, l, part, before, rest) ==
  /\ m + l = Len(history) /\ before = LinesOf(history, m) /\ rest = (logical - max) - before
  /\ history' = CutFront(history, m, part)
  /\ logical' = logical - before - part
  /\ cursor' = (IF cursor > m THEN cursor - m ELSE 0)
  /\ cache' = (IF part > 0 THEN NoPage ELSE cache)
  /\ l > 0 => history[m + 1].lines \in Nat /\ rest < history[m + 1].lines
  /\ before > 0 => rest >= 0
  /\ logical > max => l > 0 /\ rest >= 0
  /\ part > 0 => l > 0 /\ part < history[m + 1].lines /\ ~Away(history[m + 1]) /\ part = rest
  /\ part = 0 => (l > 0 /\ rest > 0 => Away(history[m + 1]))

\* enforce_limit drops as many whole pages as fit and trims the next one if it may.
LEMMA EnforcedFront ==
  ASSUME IInv, NEW max \in Nat \ {0}, EnforcedWith(max)
  PROVE  \E m, l, part, before \in Nat : \E rest \in Int : EnforcedAt(max, m, l, part, before, rest)
<1> DEFINE S == {k \in 0..Len(history) : k = 0 \/ LinesBefore(k) <= logical - max}
<1>1. PICK m, rest, kept, part :
        /\ m = Max(S) /\ kept = SubSeq(history, m + 1, Len(history))
        /\ rest = logical - max - LinesBefore(m)
        /\ part = (IF kept # <<>> /\ Trims(kept[1], rest) THEN rest ELSE 0)
        /\ history' = (IF part > 0 THEN [kept EXCEPT ![1] = Trimmed(@, part)] ELSE kept)
        /\ logical' = logical - LinesBefore(m) - part
        /\ cursor' = (IF cursor > m THEN cursor - m ELSE 0)
        /\ cache' = (IF part > 0 THEN NoPage ELSE cache)
  BY DEF EnforcedWith
<1>2. PICK n \in Nat, x \in Int : n = Len(history) /\ x = logical - max /\ logical = x + max
  <2>1. history \in Seq(Page) /\ logical \in Nat
    BY DEF IInv, TypeOK
  <2>2. Len(history) \in Nat
    BY <2>1
  <2>3. logical - max \in Int /\ logical = (logical - max) + max
    BY <2>1
  <2> QED
    BY <2>2, <2>3
<1>3. /\ history \in Seq(Page) /\ logical \in Nat /\ logical = LinesOf(history, n)
      /\ PageLines \in Nat
  BY <1>2, StorageAssumption DEF IInv, TypeOK, LogicalOK
<1>4. m \in S /\ \A y \in S : m >= y
  <2>1. S \subseteq 0..n /\ S # {}
    <3>1. 0 \in S
      BY <1>2
    <3> QED
      BY <1>2, <3>1
  <2>2. m = Max(S)
    BY <1>1
  <2> HIDE DEF S
  <2> QED
    BY <2>1, <2>2, MaxExists
<1>5. m \in 0..n /\ (m = 0 \/ LinesOf(history, m) <= x) /\ \A k \in 0..n : LinesOf(history, k) <= x => k <= m
  <2>1. \A k : LinesBefore(k) = LinesOf(history, k)
    BY LinesBeforeIs
  <2>2. m \in 0..n /\ (m = 0 \/ LinesBefore(m) <= x)
    BY <1>2, <1>4
  <2>3. \A k \in 0..n : LinesBefore(k) <= x => k \in S
    BY <1>2
  <2>4. \A k \in 0..n : LinesBefore(k) <= x => k <= m
    BY <1>2, <1>4, <2>2, <2>3
  <2> QED
    BY <2>1, <2>2, <2>4
<1> HIDE DEF S
<1>6. /\ LinesOf(history, m) \in Nat
      /\ m < n => history[m + 1].lines \in Nat /\ LinesOf(history, m) + history[m + 1].lines > x
      /\ 0 < x /\ x < LinesOf(history, n) => m < n /\ LinesOf(history, m) <= x
  <2>1. Sized(history, n)
    BY <1>2, <1>3, PagesSized
  <2> QED
    BY <1>5, <2>1, Evictable
<1>7. PICK before \in Nat : before = LinesOf(history, m) /\ before = LinesBefore(m)
  BY <1>6, LinesBeforeIs
<1>8. PICK l \in Nat : m + l = n /\ (l > 0 <=> m < n) /\ m \in Nat
  <2>1. n - m \in Nat /\ m + (n - m) = n /\ (n - m > 0 <=> m < n)
    BY <1>5
  <2> QED
    BY <1>5, <2>1
<1>9. m < n => history[m + 1].lines \in Nat /\ before + history[m + 1].lines > x
  BY <1>6, <1>7
<1>10. 0 < x => m < n /\ before <= x
  <2>1. x < logical
    BY <1>2, <1>3
  <2> QED
    BY <1>3, <1>6, <1>7, <2>1
<1>11. rest = x - before /\ rest \in Int
  BY <1>1, <1>2, <1>7
<1>12. kept \in Seq(Page) /\ (kept # <<>> <=> m < n) /\ (m < n => kept[1] = history[m + 1])
  <2> HIDE DEF Page
  <2>1. kept = SubSeq(history, m + 1, n) /\ history \in Seq(Page) /\ Len(history) = m + l
    BY <1>1, <1>2, <1>3, <1>8
  <2>2. kept \in Seq(Page) /\ Len(kept) = l /\ (l > 0 => kept[1] = history[m + 1])
    BY <1>8, <2>1
  <2> QED
    BY <1>8, <2>2
<1>13. /\ part \in Nat
       /\ part > 0 => m < n /\ part < history[m + 1].lines /\ ~Away(history[m + 1]) /\ part = rest
       /\ part = 0 => (m < n /\ rest > 0 => Away(history[m + 1]))
  <2>1. part = (IF kept # <<>> /\ rest > 0 /\ ~Away(kept[1]) THEN rest ELSE 0)
    BY <1>1 DEF Trims
  <2>2. CASE m < n /\ rest > 0 /\ ~Away(history[m + 1])
    <3>1. part = rest
      BY <1>12, <2>1, <2>2
    <3>2. rest < history[m + 1].lines
      BY <1>9, <1>11, <2>2
    <3> QED
      BY <1>11, <2>2, <3>1, <3>2
  <2>3. CASE ~(m < n /\ rest > 0 /\ ~Away(history[m + 1]))
    <3>1. part = 0
      BY <1>12, <2>1, <2>3
    <3> QED
      BY <2>3, <3>1
  <2> QED
    BY <2>2, <2>3
<1>14. m = 0 => before = 0
  BY <1>7, LinesStep
<1>15. /\ l > 0 => history[m + 1].lines \in Nat /\ rest < history[m + 1].lines
       /\ before > 0 => rest >= 0
       /\ logical > max => l > 0 /\ rest >= 0
  <2>1. l > 0 => history[m + 1].lines \in Nat /\ rest < history[m + 1].lines
    BY <1>8, <1>9, <1>11
  <2>2. before > 0 => before <= x
    BY <1>5, <1>7, <1>14
  <2>3. logical > max => 0 < x
    BY <1>2
  <2> QED
    BY <1>8, <1>10, <1>11, <2>1, <2>2, <2>3
<1>16. history' = CutFront(history, m, part)
  BY <1>1 DEF CutFront
<1>17. EnforcedAt(max, m, l, part, before, rest)
  <2>1. m + l = Len(history) /\ before = LinesOf(history, m) /\ rest = (logical - max) - before
    BY <1>2, <1>7, <1>8, <1>11
  <2>2. /\ logical' = logical - before - part
        /\ cursor' = (IF cursor > m THEN cursor - m ELSE 0)
        /\ cache' = (IF part > 0 THEN NoPage ELSE cache)
    BY <1>1, <1>7
  <2>3. /\ part > 0 => l > 0 /\ part < history[m + 1].lines /\ ~Away(history[m + 1]) /\ part = rest
        /\ part = 0 => (l > 0 /\ rest > 0 => Away(history[m + 1]))
    BY <1>8, <1>13
  <2> QED
    BY <1>15, <1>16, <2>1, <2>2, <2>3 DEF EnforcedAt
<1> QED
  BY <1>7, <1>8, <1>11, <1>13, <1>17

\* What enforce_limit does to the storage, for any limit.
LEMMA EnforcedParts ==
  ASSUME IInv, NEW max \in Nat \ {0}, EnforcedWith(max)
  PROVE  /\ history' \in Seq(Page) /\ Stored(history', Way, cache', nextId, styles)
         /\ LinesOf(history', Len(history')) = logical' /\ logical' \in Nat /\ cursor' \in Nat
         /\ Sealed(history', cursor')
         /\ logical' > max => logical' - max < history'[1].lines /\ ~Hot(history'[1])
         /\ cursor < Len(history) => history' = <<>> \/ cursor' < Len(history')
         /\ history = <<>> => history' = <<>>
<1>1a. PICK m, l, part, before \in Nat : \E rest \in Int : EnforcedAt(max, m, l, part, before, rest)
  BY EnforcedFront
<1>1b. PICK rest \in Int : EnforcedAt(max, m, l, part, before, rest)
  BY <1>1a
<1>1. /\ m + l = Len(history) /\ before = LinesOf(history, m) /\ rest = (logical - max) - before
      /\ history' = CutFront(history, m, part)
      /\ logical' = logical - before - part
      /\ cursor' = (IF cursor > m THEN cursor - m ELSE 0)
      /\ cache' = (IF part > 0 THEN NoPage ELSE cache)
      /\ l > 0 => history[m + 1].lines \in Nat /\ rest < history[m + 1].lines
      /\ logical > max => l > 0 /\ rest >= 0
      /\ part > 0 => l > 0 /\ part < history[m + 1].lines /\ ~Away(history[m + 1]) /\ part = rest
      /\ part = 0 => (l > 0 /\ rest > 0 => Away(history[m + 1]))
  BY <1>1b DEF EnforcedAt
<1>2. PICK n \in Nat, x \in Int : n = Len(history) /\ x = logical - max /\ logical = x + max
  <2>1. history \in Seq(Page) /\ logical \in Nat
    BY DEF IInv, TypeOK
  <2>2. Len(history) \in Nat
    BY <2>1
  <2>3. logical - max \in Int /\ logical = (logical - max) + max
    BY <2>1
  <2> QED
    BY <2>2, <2>3
<1>3. /\ history \in Seq(Page) /\ DOMAIN history = 1..n /\ logical \in Nat
      /\ cursor \in Nat /\ nextId \in Nat \ {0} /\ logical = LinesOf(history, n)
      /\ Sealed(history, cursor)
      /\ PageLines \in Nat
  BY <1>2, OverLimit, StorageAssumption DEF IInv, TypeOK, LogicalOK, CursorOK
<1>4. m + l = n /\ (l > 0 <=> m < n)
  <2>1. m + l = n
    BY <1>1, <1>2
  <2> QED
    BY <1>1a, <2>1
<1>5. rest = x - before
  <2>1. rest = (logical - max) - before
    BY <1>1
  <2> QED
    BY <1>2, <2>1
<1>6. m < n => history[m + 1].lines \in Nat /\ rest < history[m + 1].lines
  BY <1>1, <1>4
<1>7. 0 < x => m < n /\ before <= x
  <2>1. 0 < x => logical > max
    BY <1>2, <1>3
  <2> QED
    BY <1>1, <1>4, <1>5, <2>1
<1>8. /\ part > 0 => m < n /\ part < history[m + 1].lines /\ ~Away(history[m + 1]) /\ part = rest
      /\ part = 0 => (m < n /\ rest > 0 => Away(history[m + 1]))
  BY <1>1, <1>4
<1>9. /\ history' \in Seq(Page) /\ Len(history') = l
       /\ LinesOf(history', l) = logical - before - part /\ LinesOf(history', l) \in Nat
       /\ Stored(history', Way, cache', nextId, styles)
       /\ PagesMoved(history, history', m, l, part)
  <2>1. PICK h, g, w, c, id, s : /\ h = history /\ g = history' /\ w = Way /\ c = cache
                                 /\ id = nextId /\ s = styles
    OBVIOUS
  <2>2. h \in Seq(Page) /\ id \in Nat \ {0} /\ Stored(h, w, c, id, s)
    BY <1>3, <2>1, WayType
  <2>2a. FrontFits(h, m, l, part)
    BY <1>2, <1>4, <1>8, <2>1 DEF FrontFits
  <2>3. g = CutFront(h, m, part)
    BY <1>1, <2>1 DEF CutFront
  <2>3a. PICK e : e = (IF part > 0 THEN NoPage ELSE c)
    OBVIOUS
  <2>3b. m \in Nat /\ l \in Nat /\ part \in Nat /\ PageLines \in Nat
    BY <1>3, <1>4, <1>8
  <2>4. /\ g \in Seq(Page) /\ Len(g) = l
        /\ LinesOf(g, l) = LinesOf(h, Len(h)) - LinesOf(h, m) - part /\ LinesOf(g, l) \in Nat
        /\ Stored(g, w, e, id, s) /\ PagesMoved(h, g, m, l, part)
    BY <2>2, <2>2a, <2>3, <2>3a, <2>3b, Evicted
  <2>5. LinesOf(h, Len(h)) = logical /\ LinesOf(h, m) = before
    BY <1>2, <1>3, <1>1, <2>1
  <2>6. cache' = e
    BY <1>1, <2>1, <2>3a
  <2> QED
    BY <2>1, <2>4, <2>5, <2>6
<1>10. /\ logical' = logical - before - part /\ LinesOf(history', Len(history')) = logical'
       /\ logical' \in Nat
  BY <1>1, <1>9
<1>11. /\ history' = <<>> <=> l = 0
       /\ history = <<>> <=> n = 0
  <2> HIDE DEF Page
  <2>1. l \in Nat /\ history' \in Seq(Page) /\ Len(history') = l
    BY <1>1a, <1>9
  <2>2. history \in Seq(Page) /\ Len(history) = n
    BY <1>2, <1>3
  <2> QED
    BY <2>1, <2>2
<1>12. cursor' = (IF cursor > m THEN cursor - m ELSE 0)
  BY <1>1
<1>13. cursor' \in Nat /\ (cursor < n => history' = <<>> \/ cursor' < l)
  BY <1>3, <1>4, <1>11, <1>12
<1>14. Sealed(history', cursor')
  <2> SUFFICES ASSUME NEW i \in 1..(Len(history') - 1), i <= cursor' PROVE ~Eligible(history'[i])
    BY DEF Sealed
  <2>1. i \in 1..l /\ i \in 1..(l - 1)
    BY <1>9
  <2>2. m + i \in 1..(n - 1) /\ m + i <= cursor
    BY <1>3, <1>4, <1>12, <2>1
  <2>3. ~Eligible(history[m + i])
    BY <1>2, <1>3, <2>2 DEF Sealed
  <2>4. CASE history'[i] = history[m + i]
    BY <2>3, <2>4
  <2>5. CASE i = 1 /\ history'[1].lines < PageLines
    <3>1. history'[1] \in Page
      <4> HIDE DEF Page
      <4> QED
        BY <1>9, <2>1, <2>5
    <3>2. history'[1].lines \in Nat
      BY <3>1 DEF Page
    <3>3. ~(history'[1].lines >= PageLines)
      BY <1>3, <2>5, <3>2
    <3> QED
      BY <2>5, <3>3 DEF Eligible
  <2>6. history'[i] = history[m + i] \/ (i = 1 /\ history'[1].lines < PageLines)
    BY <1>9, <2>1 DEF PagesMoved
  <2> QED
    BY <2>4, <2>5, <2>6
<1>15. ASSUME logical' > max PROVE logical' - max < history'[1].lines /\ ~Hot(history'[1])
  <2>1. logical' = (x + max) - before - part /\ logical' > max
    <3>1. logical = x + max
      BY <1>2
    <3>2. logical' = logical - before - part /\ logical' > max
      BY <1>10, <1>15
    <3>3. logical - before - part = (x + max) - before - part
      BY <3>1
    <3> QED
      BY <3>2, <3>3
  <2>2. x > 0
    BY <1>2, <1>1, <1>8, <2>1, SMTT(30)
  <2>3. m < n /\ before <= x /\ rest = x - before
    BY <1>7, <1>5, <2>2
  <2>4. part = 0
    <3>1. CASE part > 0
      <4>1. part = x - before
        BY <1>8, <2>3, <3>1
      <4>2. logical' = max
        BY <1>2, <1>1, <2>1, <4>1
      <4> QED
        BY <1>15, <4>2
    <3> QED
      BY <1>8, <3>1
  <2>5. rest > 0 /\ logical' - max = rest
    BY <1>2, <1>1, <1>5, <2>1, <2>4, SMTT(30)
  <2>6. Away(history[m + 1]) /\ rest < history[m + 1].lines
    <3>1. Away(history[m + 1])
      BY <1>8, <2>3, <2>4, <2>5
    <3>2. rest < history[m + 1].lines
      BY <1>6, <1>5, <2>3
    <3> QED
      BY <3>1, <3>2
  <2>7. history'[1] = history[m + 1]
    <3>1. 1 \in 1..l
      BY <1>4, <2>3
    <3>2. \A i \in 1..l : history'[i] = history[m + i]
      BY <1>9, <2>4 DEF PagesMoved
    <3> QED
      BY <3>1, <3>2
  <2> QED
    BY <2>5, <2>6, <2>7 DEF Hot, Away
<1>16. history = <<>> => history' = <<>>
  BY <1>4, <1>11
<1> QED
  BY <1>2, <1>9, <1>10, <1>13, <1>14, <1>15, <1>16

\* enforce_limit keeps the invariant.
LEMMA EnforceKeeps == ASSUME IInv, Enforce PROVE IInv'
<1>1. /\ todo # <<>> /\ Head(todo) = "enforce" /\ todo' = Tail(todo) /\ EnforcedWith(limit)
      /\ UNCHANGED <<nextId, limit, arg, answer, fed, styles, open, scan>>
      /\ UNCHANGED <<jobs, completions, queued, pending, worker>>
  BY DEF Enforce, At, Done, Quietly, Local
<1>2. limit \in Nat \ {0}
  BY StorageAssumption DEF IInv, TypeOK
<1>3. /\ history' \in Seq(Page) /\ Stored(history', Way, cache', nextId, styles)
      /\ LinesOf(history', Len(history')) = logical' /\ logical' \in Nat /\ cursor' \in Nat
      /\ Sealed(history', cursor')
      /\ logical' > limit => logical' - limit < history'[1].lines /\ ~Hot(history'[1])
      /\ cursor < Len(history) => history' = <<>> \/ cursor' < Len(history')
      /\ history = <<>> => history' = <<>>
  BY <1>1, <1>2, EnforcedParts
<1>4. scan = NotScanning /\ scan' = NotScanning
  BY <1>1, Idle
<1>5. Head(todo) \notin Adds /\ Head(todo) # "push"
  BY <1>1 DEF Adds
<1>6. (Within("push", todo') => Within("push", todo)) /\ ~Within("read", todo')
  <2>1. PICK t : t = Tail(todo)
    OBVIOUS
  <2>2. \A x : Within(x, todo) <=> Head(todo) = x \/ Within(x, t)
    BY <1>1, <2>1, Pop
  <2>3. Within("read", t) => Head(todo) \in {"wait", "apply", "scan"}
    BY <1>1, <2>1, Pop
  <2> QED
    BY <1>1, <2>1, <2>2, <2>3
<1>7. TodoOK' /\ todo' \in Seq(Steps)
  BY <1>1, <1>4, <1>5, <1>6, TodoFrame
<1>8. TypeOK'
  BY <1>1, <1>3, <1>7 DEF IInv, TypeOK, Steps
<1>9. StoredOK' /\ LogicalOK' /\ CountersTellTheTruth'
  <2>1. Way' = Way
    BY <1>1 DEF Way
  <2> QED
    BY <1>1, <1>3, <2>1 DEF IInv, StoredOK, LogicalOK, CountersTellTheTruth
<1>10. LimitOK'
  BY <1>1, <1>3 DEF LimitOK
<1>11. CursorOK'
  <2>1. Within("push", todo) => history = <<>> \/ cursor < Len(history)
    BY <1>1 DEF IInv, CursorOK, At
  <2> QED
    BY <1>3, <1>4, <1>6, <2>1 DEF CursorOK
<1> QED
  BY <1>7, <1>8, <1>9, <1>10, <1>11 DEF IInv

------------------------------------------------------------------------------
\* The calls.

\* Between two calls there is nothing to do.
LEMMA Returned ==
  ASSUME IInv, todo = <<>>
  PROVE  /\ scan = NotScanning /\ \A x : ~Within(x, todo)
         /\ fed \in Nat /\ todo \in Seq(Steps) /\ Sealed(history, cursor)
<1>1. scan = NotScanning
  BY Idle
<1>2. \A x : ~Within(x, todo)
  BY DEF Within
<1> QED
  BY <1>1, <1>2, StorageAssumption DEF IInv, TypeOK, CursorOK, Steps

\* A new limit, enforced at once, keeps the invariant.
LEMMA RelimitKeeps == ASSUME IInv, Relimit PROVE IInv'
<1>1. /\ todo = <<>> /\ todo' = <<>> /\ answer' = <<>> /\ limit' \in Limits
      /\ UNCHANGED <<nextId, scan, arg, fed, styles, open>>
      /\ UNCHANGED <<jobs, completions, queued, pending, worker>>
  BY DEF Relimit, Call, Local
<1>2. PICK max \in Nat \ {0} : max = limit' /\ EnforcedWith(max)
  <2>1. limit' \in Nat \ {0}
    BY <1>1, StorageAssumption
  <2> QED
    BY <2>1 DEF Relimit
<1>3. /\ history' \in Seq(Page) /\ Stored(history', Way, cache', nextId, styles)
      /\ LinesOf(history', Len(history')) = logical' /\ logical' \in Nat /\ cursor' \in Nat
      /\ Sealed(history', cursor')
      /\ logical' > max => logical' - max < history'[1].lines /\ ~Hot(history'[1])
  BY <1>2, EnforcedParts
<1>4. scan = NotScanning /\ \A x : ~Within(x, todo)
  BY <1>1, Returned
<1>5. \A x : ~Within(x, todo')
  BY <1>1, <1>4
<1>6. TodoOK'
  <2>1. AddsFit(todo', fed') /\ EnforcedAfter(todo')
    BY <1>1 DEF IInv, TodoOK
  <2> QED
    BY <1>1, <1>4, <1>5, <2>1 DEF TodoOK, ReadOK, ScanOK
<1>7. TypeOK'
  BY <1>1, <1>3 DEF IInv, TypeOK
<1>8. StoredOK' /\ LogicalOK' /\ CountersTellTheTruth'
  <2>1. Way' = Way
    BY <1>1 DEF Way
  <2> QED
    BY <1>1, <1>3, <2>1 DEF IInv, StoredOK, LogicalOK, CountersTellTheTruth
<1>9. LimitOK'
  BY <1>2, <1>3 DEF LimitOK
<1>10. CursorOK'
  BY <1>1, <1>3, <1>4, <1>5 DEF CursorOK
<1> QED
  BY <1>6, <1>7, <1>8, <1>9, <1>10 DEF IInv

\* A call that only makes a plan keeps the invariant.
LEMMA Called ==
  ASSUME IInv, todo = <<>>, answer' = <<>>, open' \in BOOLEAN,
         UNCHANGED <<history, logical, nextId, cursor, cache, limit, scan, fed, styles>>, Local,
         todo' \in Seq(Steps), AddsFit(todo', fed), EnforcedAfter(todo'),
         ReadOK', ~Within("push", todo')
  PROVE  IInv'
<1>1. UNCHANGED <<jobs, completions, queued, pending, worker>>
  BY DEF Local
<1>2. scan = NotScanning /\ \A x : ~Within(x, todo)
  BY Returned
<1>3. TodoOK'
  BY <1>2 DEF TodoOK, ScanOK
<1>4. TypeOK'
  <2>1. <<>> \in Seq(Row \cup {NoRow})
    OBVIOUS
  <2> QED
    BY <1>1, <2>1 DEF IInv, TypeOK, Steps
<1>5. StoredOK' /\ LogicalOK' /\ CountersTellTheTruth'
  BY <1>1, StoreFrame
<1>6. LimitOK'
  BY <1>2, LimitFrame
<1>7. CursorOK'
  BY <1>2, CursorFrame
<1> QED
  BY <1>3, <1>4, <1>5, <1>6, <1>7 DEF IInv

\* The plan of a call that ingests n rows.
LEMMA IngestSteps ==
  ASSUME NEW n \in Nat, NEW k \in Nat, k + n <= MaxRows, NEW q \in Seq(Steps),
         \A x \in {"ingest", "push", "read"} : ~Within(x, q),
         NEW u, u = Ingested(n) \o q
  PROVE  u \in Seq(Steps) /\ AddsFit(u, k) /\ EnforcedAfter(u) /\ ~Within("read", u) /\ ~Within("push", u)
<1>1. PICK e : e = (IF n = 0 THEN <<>> ELSE <<"enforce">>)
  OBVIOUS
<1>2. e \in Seq(Steps) /\ (n = 0 \/ Within("enforce", e)) /\ \A x \in {"ingest", "push", "read"} : ~Within(x, e)
  <2>1. CASE n = 0
    BY <1>1, <2>1 DEF Within
  <2>2. CASE n # 0
    <3>1. e = <<"enforce">>
      BY <1>1, <2>2
    <3>2. e \in Seq(Steps) /\ DOMAIN e = 1..1 /\ e[1] = "enforce" /\ 1 \in 1..1
      BY <3>1 DEF Steps
    <3> QED
      BY <3>2 DEF Within
  <2> QED
    BY <2>1, <2>2
<1>3. "ingest" \in Steps
  BY DEF Steps
<1>4. PICK p : p = Times(n, "ingest")
  OBVIOUS
<1>5. PICK t : t = e \o q
  OBVIOUS
<1>6. /\ t \in Seq(Steps) /\ (n = 0 \/ Within("enforce", t))
      /\ \A x \in {"ingest", "push", "read"} : ~Within(x, t)
  <2>1. t \in Seq(Steps)
    <3> HIDE DEF Steps
    <3> QED
      BY <1>2, <1>5
  <2>2. \A x : Within(x, t) <=> Within(x, e) \/ Within(x, q)
    BY <1>2, <1>5, WithinPlus
  <2> QED
    BY <1>2, <2>1, <2>2
<1>7. p \in Seq(Steps) /\ AddsFit(p \o t, k) /\ p \o t \in Seq(Steps)
  BY <1>3, <1>4, <1>6, AddsNew
<1>8. u = p \o t
  <2>1. u = (p \o e) \o q
    BY <1>1, <1>4 DEF Ingested
  <2>2. (p \o e) \o q = p \o (e \o q)
    <3>1. p \in Seq(Steps) /\ e \in Seq(Steps) /\ q \in Seq(Steps)
      BY <1>2, <1>7
    <3> QED
      BY <3>1, SMTT(30)
  <2> QED
    BY <1>5, <2>1, <2>2
<1>9. \A x : Within(x, p) => x = "ingest" /\ n # 0
  <2>1. DOMAIN p = 1..n /\ \A i \in 1..n : p[i] = "ingest"
    BY <1>4 DEF Times
  <2> QED
    BY <2>1 DEF Within
<1>10. \A x : Within(x, u) <=> Within(x, p) \/ Within(x, t)
  BY <1>6, <1>7, <1>8, WithinPlus
<1>11. EnforcedAfter(u)
  <2>1. EnforcedAfter(t)
    BY <1>6 DEF EnforcedAfter, Within
  <2>2. ~Within("ingest", p) \/ Within("enforce", t)
    BY <1>6, <1>9
  <2> QED
    BY <1>6, <1>7, <1>8, <2>1, <2>2, EnforcedPlus
<1> QED
  BY <1>6, <1>7, <1>8, <1>9, <1>10, <1>11

\* The calls that ingest rows keep the invariant.
LEMMA FeedKeeps ==
  ASSUME IInv, NEW n \in Nat, Feed(n) \/ Shrink(n) \/ CompactStyles(n)
  PROVE  IInv' /\ ~Within("read", todo')
<1>1. PICK q : /\ todo' = Ingested(n) \o q
               /\ q = <<>> \/ q = <<"apply", "scan">> \/ q = <<"quiesce", "apply", "remap">>
  <2>1. CASE Feed(n)
    BY <2>1 DEF Feed, Call
  <2>2. CASE CompactStyles(n)
    BY <2>2 DEF CompactStyles, Call
  <2>3. CASE Shrink(n)
    <3>1. todo' = Ingested(n)
      BY <2>3 DEF Shrink, Call
    <3>2. PICK e : e = (IF n = 0 THEN <<>> ELSE <<"enforce">>)
      OBVIOUS
    <3>3. e \in Seq(Steps) /\ Times(n, "ingest") \in Seq(Steps)
      <4>1. "ingest" \in Steps /\ "enforce" \in Steps
        BY DEF Steps
      <4> QED
        BY <3>2, <4>1 DEF Times
    <3>4. Ingested(n) = Times(n, "ingest") \o e
      BY <3>2 DEF Ingested
    <3>5. Ingested(n) \in Seq(Steps)
      <4> HIDE DEF Steps
      <4> QED
        BY <3>3, <3>4
    <3>6. Ingested(n) \o <<>> = Ingested(n)
      <4> HIDE DEF Steps
      <4> QED
        BY <3>5
    <3> QED
      BY <3>1, <3>6
  <2> QED
    BY <2>1, <2>2, <2>3
<1>2. /\ todo = <<>> /\ open /\ answer' = <<>> /\ fed + n <= MaxRows /\ Local
      /\ UNCHANGED <<history, logical, nextId, cursor, cache, limit, scan, arg, fed, styles,
                     open>>
  BY DEF Feed, Shrink, CompactStyles, Call, Room
<1>3. q \in Seq(Steps) /\ \A x \in {"ingest", "push", "read"} : ~Within(x, q)
  <2>1. CASE q = <<>>
    BY <2>1 DEF Within
  <2>2. CASE q = <<"apply", "scan">>
    <3>1. /\ q \in Seq(Steps) /\ DOMAIN q = 1..2 /\ q[1] = "apply" /\ q[2] = "scan"
          /\ \A i \in 1..2 : i = 1 \/ i = 2
      BY <2>2 DEF Steps
    <3> QED
      BY <3>1 DEF Within
  <2>3. CASE q = <<"quiesce", "apply", "remap">>
    <3>1. /\ q \in Seq(Steps) /\ DOMAIN q = 1..3 /\ q[1] = "quiesce" /\ q[2] = "apply"
          /\ q[3] = "remap"
          /\ \A i \in 1..3 : i = 1 \/ i = 2 \/ i = 3
      BY <2>3 DEF Steps
    <3> QED
      BY <3>1 DEF Within
  <2> QED
    BY <1>1, <2>1, <2>2, <2>3
<1>4. fed \in Nat
  BY <1>2, Returned
<1>5. PICK u : u = todo' /\ u = Ingested(n) \o q
  BY <1>1
<1>6. /\ u \in Seq(Steps) /\ AddsFit(u, fed) /\ EnforcedAfter(u) /\ ~Within("read", u)
      /\ ~Within("push", u)
  BY <1>2, <1>3, <1>4, <1>5, IngestSteps
<1>7. ReadOK' /\ open' \in BOOLEAN
  BY <1>2, <1>5, <1>6 DEF ReadOK, IInv, TypeOK
<1>8. IInv'
  BY <1>2, <1>5, <1>6, <1>7, Called
<1> QED
  BY <1>5, <1>6, <1>8

\* Dropping the storage keeps the invariant.
LEMMA DropKeeps == ASSUME IInv, DropStorage PROVE IInv' /\ ~Within("read", todo')
<1>1. /\ todo = <<>> /\ answer' = <<>> /\ open' \in BOOLEAN /\ Local
      /\ todo' = <<"wait", "join">>
      /\ UNCHANGED <<history, logical, nextId, cursor, cache, limit, scan, fed, styles>>
  BY DEF DropStorage, Call
<1>2. PICK u : u = todo' /\ u = <<"wait", "join">>
  BY <1>1
<1>3. /\ u \in Seq(Steps) /\ DOMAIN u = 1..2 /\ u[1] = "wait" /\ u[2] = "join"
      /\ \A i \in 1..2 : i = 1 \/ i = 2
  BY <1>2 DEF Steps
<1>4. \A i \in DOMAIN u : u[i] \notin Adds /\ u[i] # "ingest" /\ u[i] # "push" /\ u[i] # "read"
  BY <1>3 DEF Adds
<1>5. EnforcedAfter(u) /\ ~Within("push", u) /\ ~Within("read", u)
  BY <1>4 DEF EnforcedAfter, Within
<1>6. AddsFit(u, fed)
  <2>1. fed \in 0..MaxRows /\ MaxRows \in Nat
    BY StorageAssumption DEF IInv, TypeOK
  <2>2. fed + 0 <= MaxRows
    BY <2>1
  <2> QED
    BY <1>4, <2>2 DEF AddsFit
<1>7. ReadOK'
  BY <1>2, <1>5 DEF ReadOK
<1>8. IInv'
  BY <1>1, <1>2, <1>3, <1>5, <1>6, <1>7, Called
<1> QED
  BY <1>2, <1>5, <1>8

\* The places of a concatenation.
LEMMA Joining ==
  ASSUME NEW S, NEW a \in Seq(S), NEW b \in Seq(S), NEW u, u = a \o b
  PROVE  /\ u \in Seq(S) /\ Len(u) = Len(a) + Len(b)
         /\ \A i \in 1..Len(a) : u[i] = a[i]
         /\ \A i \in 1..Len(b) : u[Len(a) + i] = b[i]
  OBVIOUS

\* The call of a read keeps the invariant.
LEMMA ReadCallKeeps == ASSUME IInv, NEW i, NEW line, Read(i, line) PROVE IInv'
<1>1. /\ todo = <<>> /\ open /\ answer' = <<>> /\ Local /\ i \in DOMAIN history
      /\ line \in 1..history[i].lines
      /\ todo' = (IF history[i].pending /\ Away(history[i]) THEN <<"wait", "apply", "scan">> ELSE <<>>) \o <<"read">>
      /\ arg' = <<i, line>>
      /\ UNCHANGED <<history, logical, nextId, cursor, cache, limit, scan, fed, styles, open>>
  BY DEF Read, Call
<1>2. Away(history[i]) => history[i].pending
  BY <1>1, WayType DEF Stored, PagesFit, PageOK
<1>3. PICK u : u = todo'
  OBVIOUS
<1>4. \/ u = <<"wait", "apply", "scan", "read">> /\ Head(u) = "wait" /\ Away(history[i])
      \/ u = <<"read">> /\ Head(u) = "read" /\ ~Away(history[i])
  <2>1. CASE Away(history[i])
    <3>1. u = <<"wait", "apply", "scan">> \o <<"read">>
      BY <1>1, <1>2, <1>3, <2>1
    <3>2. u = <<"wait", "apply", "scan", "read">>
      <4>1. PICK a, b, v : /\ a = <<"wait", "apply", "scan">> /\ b = <<"read">>
                           /\ v = <<"wait", "apply", "scan", "read">>
        OBVIOUS
      <4>2. /\ a \in Seq(Steps) /\ Len(a) = 3 /\ a[1] = "wait" /\ a[2] = "apply"
            /\ a[3] = "scan"
            /\ b \in Seq(Steps) /\ Len(b) = 1 /\ b[1] = "read"
        BY <4>1 DEF Steps
      <4>3. /\ v \in Seq(Steps) /\ Len(v) = 4 /\ v[1] = "wait" /\ v[2] = "apply"
            /\ v[3] = "scan" /\ v[4] = "read"
        BY <4>1 DEF Steps
      <4>4. u = a \o b
        BY <3>1, <4>1
      <4>5. /\ u \in Seq(Steps) /\ Len(u) = 4 /\ u[1] = a[1] /\ u[2] = a[2] /\ u[3] = a[3]
            /\ u[4] = b[1]
        <5>1. a \in Seq(Steps) /\ b \in Seq(Steps)
          BY <4>2
        <5>2. /\ u \in Seq(Steps) /\ Len(u) = Len(a) + Len(b)
              /\ \A m \in 1..Len(a) : u[m] = a[m]
              /\ \A m \in 1..Len(b) : u[Len(a) + m] = b[m]
          <6> HIDE DEF Steps
          <6> QED
            BY <4>4, <5>1, Joining
        <5>3. /\ \A m \in 1..3 : u[m] = a[m]
              /\ \A m \in 1..1 : u[3 + m] = b[m]
          BY <4>2, <5>2
        <5>4. Len(u) = 4
          BY <4>2, <5>2
        <5>5. 1 \in 1..3 /\ 2 \in 1..3 /\ 3 \in 1..3 /\ 1 \in 1..1 /\ 3 + 1 = 4
          OBVIOUS
        <5>6. u[1] = a[1] /\ u[2] = a[2] /\ u[3] = a[3]
          BY <5>3, <5>5
        <5>7. u[4] = b[1]
          BY <5>3, <5>5
        <5> QED
          BY <5>2, <5>4, <5>6, <5>7
      <4>6. DOMAIN u = 1..4 /\ DOMAIN v = 1..4 /\ \A m \in 1..4 : u[m] = v[m]
        <5>1. \A m \in 1..4 : m = 1 \/ m = 2 \/ m = 3 \/ m = 4
          OBVIOUS
        <5> QED
          BY <4>2, <4>3, <4>5, <5>1
      <4>7. u = [m \in 1..4 |-> u[m]] /\ v = [m \in 1..4 |-> v[m]]
        BY <4>3, <4>5, <4>6
      <4> QED
        BY <4>1, <4>6, <4>7
    <3> QED
      BY <2>1, <3>2
  <2>2. CASE ~Away(history[i])
    <3>1. u = <<>> \o <<"read">>
      BY <1>1, <1>3, <2>2
    <3>2. u = <<"read">>
      BY <3>1
    <3> QED
      BY <2>2, <3>2
  <2> QED
    BY <2>1, <2>2
<1>5. u \in ReadTails
  BY <1>4 DEF ReadTails
<1>6. u \in Seq(Steps)
  BY <1>5, ReadTail
<1>7. \A m \in DOMAIN u : u[m] \notin Adds /\ u[m] # "ingest" /\ u[m] # "push"
  <2>1. CASE u = <<"wait", "apply", "scan", "read">>
    <3>1. /\ DOMAIN u = 1..4 /\ u[1] = "wait" /\ u[2] = "apply" /\ u[3] = "scan"
          /\ u[4] = "read"
          /\ \A m \in 1..4 : m = 1 \/ m = 2 \/ m = 3 \/ m = 4
      BY <2>1
    <3> QED
      BY <3>1 DEF Adds
  <2>2. CASE u = <<"read">>
    <3>1. DOMAIN u = 1..1 /\ u[1] = "read" /\ \A m \in 1..1 : m = 1
      BY <2>2
    <3> QED
      BY <3>1 DEF Adds
  <2> QED
    BY <1>4, <2>1, <2>2
<1>8. EnforcedAfter(u) /\ ~Within("push", u)
  BY <1>7 DEF EnforcedAfter, Within
<1>9. AddsFit(u, fed)
  <2>1. fed \in 0..MaxRows /\ MaxRows \in Nat
    BY StorageAssumption DEF IInv, TypeOK
  <2>2. fed + 0 <= MaxRows
    BY <2>1
  <2> QED
    BY <1>7, <2>2 DEF AddsFit
<1>10. ReadOK'
  <2>1. arg'[1] = i /\ arg'[2] = line /\ history' = history
    BY <1>1
  <2>2. /\ Head(u) # "read" => ~Hot(history[i])
        /\ Head(u) # "apply"
        /\ Head(u) \in {"scan", "read"} => ~Away(history[i])
    BY <1>4 DEF Hot, Away
  <2> QED
    BY <1>1, <1>3, <1>5, <2>1, <2>2 DEF ReadOK
<1>11. open' \in BOOLEAN
  BY <1>1 DEF IInv, TypeOK
<1> QED
  BY <1>1, <1>3, <1>6, <1>8, <1>9, <1>10, <1>11, Called

\* f is the partial concatenations of s.
IsFlat(f, s, n) == f = [i \in 1..n |-> IF i = 1 THEN s[i] ELSE f[i - 1] \o s[i]]

\* The lines of g are the lengths of s.
Measured(s, g, n) == \A i \in 1..n : g[i].lines = Len(s[i])

\* The partial concatenations are a function.
LEMMA FlatExists == ASSUME NEW s, NEW n \in Nat PROVE \E f : IsFlat(f, s, n)
<1> DEFINE Bad == {m \in Nat : ~\E f : IsFlat(f, s, m)}
<1>1. SUFFICES ASSUME Bad # {} PROVE FALSE
  OBVIOUS
<1>3. PICK m \in Bad : \A k \in Bad : m <= k
  BY <1>1, LeastNat
<1>4. CASE m = 0
  <2>1. IsFlat([i \in 1..0 |-> s[i]], s, 0)
    BY DEF IsFlat
  <2> QED
    BY <1>3, <1>4, <2>1
<1>5. CASE m # 0
  <2>1. m - 1 \in Nat /\ m - 1 \notin Bad
    BY <1>3, <1>5
  <2>2. PICK g : IsFlat(g, s, m - 1)
    BY <2>1
  <2> DEFINE e == [i \in 1..m |-> IF i # m THEN g[i] ELSE IF m = 1 THEN s[1] ELSE g[m - 1] \o s[m]]
  <2>3. \A i \in 1..(m - 1) : e[i] = g[i] /\ g[i] = IF i = 1 THEN s[i] ELSE g[i - 1] \o s[i]
    <3>1. \A i \in 1..(m - 1) : e[i] = g[i]
      BY <1>5
    <3>2. \A i \in 1..(m - 1) : g[i] = IF i = 1 THEN s[i] ELSE g[i - 1] \o s[i]
      <4> HIDE DEF e
      <4> QED
        BY <2>2 DEF IsFlat
    <3> QED
      BY <3>1, <3>2
  <2>4. \A i \in 1..m : e[i] = IF i = 1 THEN s[i] ELSE e[i - 1] \o s[i]
    <3> SUFFICES ASSUME NEW i \in 1..m PROVE e[i] = IF i = 1 THEN s[i] ELSE e[i - 1] \o s[i]
      OBVIOUS
    <3>1. CASE i = m
      <4>1. CASE m = 1
        BY <3>1, <4>1
      <4>2. CASE m # 1
        <5>1. m - 1 \in 1..(m - 1) /\ m \in 1..m
          BY <1>5, <2>1, <4>2
        <5>2. e[m] = g[m - 1] \o s[m]
          BY <4>2, <5>1
        <5>3. e[m - 1] = g[m - 1]
          BY <2>3, <5>1
        <5> HIDE DEF e
        <5> QED
          BY <3>1, <4>2, <5>2, <5>3
      <4> QED
        BY <4>1, <4>2
    <3>2. CASE i # m
      <4>1. i \in 1..(m - 1) /\ (i # 1 => i - 1 \in 1..(m - 1))
        BY <2>1, <3>2
      <4> HIDE DEF e
      <4> QED
        BY <2>3, <4>1
    <3> QED
      BY <3>1, <3>2
  <2>5. IsFlat(e, s, m)
    BY <2>4 DEF IsFlat
  <2> QED
    BY <1>3, <2>5
<1> QED
  BY <1>4, <1>5

\* FlattenSeq is the last partial concatenation.
LEMMA FlatSum ==
  ASSUME NEW s, NEW n \in Nat, n # 0, Len(s) = n
  PROVE  \E f : FlattenSeq(s) = f[n] /\ \A i \in 1..n : f[i] = IF i = 1 THEN s[i] ELSE f[i - 1] \o s[i]
<1> DEFINE p == CHOOSE f : IsFlat(f, s, n)
<1>1. FlattenSeq(s) = p[n]
  BY DEF FlattenSeq, IsFlat
<1>2. IsFlat(p, s, n)
  BY FlatExists
<1>3. \A i \in 1..n : p[i] = IF i = 1 THEN s[i] ELSE p[i - 1] \o s[i]
  <2> HIDE DEF p
  <2> QED
    BY <1>2 DEF IsFlat
<1> QED
  BY <1>1, <1>3

\* The rows of some pages, one after the other, are as many as their lines.
LEMMA FlatIs ==
  ASSUME NEW S, NEW s \in Seq(Seq(S)), NEW n \in Nat, Len(s) = n, NEW g, Measured(s, g, n)
  PROVE  FlattenSeq(s) \in Seq(S) /\ Len(FlattenSeq(s)) = LinesOf(g, n)
<1>1. CASE n = 0
  <2>1. s = <<>> /\ FlattenSeq(s) = s
    BY <1>1 DEF FlattenSeq
  <2>2. FlattenSeq(s) \in Seq(S) /\ Len(FlattenSeq(s)) = 0
    <3>1. <<>> \in Seq(S) /\ Len(<<>>) = 0
      OBVIOUS
    <3> QED
      BY <2>1, <3>1
  <2> QED
    BY <1>1, <2>2, LinesStep
<1>2. CASE n # 0
  <2>1. PICK f : FlattenSeq(s) = f[n] /\ \A i \in 1..n : f[i] = IF i = 1 THEN s[i] ELSE f[i - 1] \o s[i]
    BY <1>2, FlatSum
  <2> DEFINE Bad == {i \in 1..n : ~(f[i] \in Seq(S) /\ Len(f[i]) = LinesOf(g, i))}
  <2>2. Bad = {}
    <3> SUFFICES ASSUME Bad # {} PROVE FALSE
      OBVIOUS
    <3>1. Bad \subseteq Nat
      OBVIOUS
    <3>2. PICK i \in Bad : \A l \in Bad : i <= l
      <4> HIDE DEF Bad
      <4> QED
        BY <3>1, LeastNat
    <3>3. i \in 1..n /\ i \in Nat /\ ~(f[i] \in Seq(S) /\ Len(f[i]) = LinesOf(g, i))
      BY <3>2
    <3>4. s[i] \in Seq(S) /\ g[i].lines = Len(s[i])
      BY <3>3 DEF Measured
    <3>5. LinesOf(g, i) = LinesOf(g, i - 1) + g[i].lines
      BY <3>3, LinesStep
    <3>6. CASE i = 1
      <4>1. f[i] = s[i]
        BY <2>1, <3>3, <3>6
      <4>2. LinesOf(g, i) = g[i].lines
        <5>1. LinesOf(g, i - 1) = 0 /\ g[i].lines \in Nat
          BY <3>4, <3>6, LinesStep
        <5> QED
          BY <3>5, <5>1
      <4> QED
        BY <3>3, <3>4, <4>1, <4>2
    <3>7. CASE i # 1
      <4>1. i - 1 \in 1..n /\ ~(i <= i - 1)
        BY <3>3, <3>7
      <4>2. f[i - 1] \in Seq(S) /\ Len(f[i - 1]) = LinesOf(g, i - 1)
        BY <3>2, <4>1
      <4>3. f[i] = f[i - 1] \o s[i]
        BY <2>1, <3>3, <3>7
      <4>4. f[i] \in Seq(S) /\ Len(f[i]) = Len(f[i - 1]) + Len(s[i])
        BY <3>4, <4>2, <4>3, Joining
      <4> QED
        BY <3>3, <3>4, <3>5, <4>2, <4>4
    <3> QED
      BY <3>6, <3>7
  <2>3. n \in 1..n /\ n \notin Bad
    BY <1>2, <2>2
  <2> QED
    BY <2>1, <2>3
<1> QED
  BY <1>1, <1>2

\* clear keeps the invariant.
LEMMA ClearKeeps ==
  ASSUME IInv, NEW n \in Nat, Clear(n) PROVE IInv' /\ ~Within("read", todo')
<1>1. /\ todo = <<>> /\ open /\ answer' = <<>> /\ fed + n <= MaxRows
      /\ todo' = Times(n, "push")
      /\ history' = <<>> /\ logical' = 0 /\ cache' = NoPage
      /\ UNCHANGED <<nextId, cursor, limit, scan, arg, fed, styles, open>>
      /\ UNCHANGED <<jobs, completions, queued, pending, worker>>
  BY DEF Clear, Call, Room, Local
<1>2. scan = NotScanning /\ fed \in Nat
  BY <1>1, Returned
<1>3. PICK u : u = todo' /\ u = Times(n, "push")
  BY <1>1
<1>4. u \in Seq(Steps) /\ AddsFit(u, fed)
  <2>1. "push" \in Steps /\ <<>> \in Seq(Steps)
    BY DEF Steps
  <2>2. ~Within("ingest", <<>>) /\ ~Within("push", <<>>)
    BY DEF Within
  <2>3. AddsFit(u \o <<>>, fed) /\ u \in Seq(Steps)
    BY <1>1, <1>2, <1>3, <2>1, <2>2, AddsNew
  <2>4. u \o <<>> = u
    BY <2>3
  <2> QED
    BY <2>3, <2>4
<1>5. EnforcedAfter(u) /\ ~Within("read", u)
  <2>1. DOMAIN u = 1..n /\ \A i \in 1..n : u[i] = "push"
    BY <1>3 DEF Times
  <2> QED
    BY <2>1 DEF EnforcedAfter, Within
<1>6. TodoOK'
  BY <1>1, <1>2, <1>3, <1>4, <1>5 DEF TodoOK, ReadOK, ScanOK
<1>7. PICK g : g = history' /\ g = <<>>
  BY <1>1
<1>8. g \in Seq(Page) /\ Len(g) = 0 /\ DOMAIN g = {}
  BY <1>7
<1>9. TypeOK'
  <2>1. <<>> \in Seq(Row \cup {NoRow})
    OBVIOUS
  <2> QED
    BY <1>1, <1>3, <1>4, <1>7, <1>8, <2>1 DEF IInv, TypeOK, Steps
<1>10. Stored(g, Way, NoPage, nextId, styles)
  <2>1. \A i \in DOMAIN g : i + 0 \in DOMAIN history /\ Stays(history[i + 0], g[i], styles)
    BY <1>8
  <2>2. /\ 0 \in Nat /\ nextId \in Nat \ {0} /\ history \in Seq(Page)
        /\ Stored(history, Way, cache, nextId, styles)
    BY WayType DEF IInv, TypeOK
  <2> QED
    BY <1>8, <2>1, <2>2, StoredDerived
<1>11. StoredOK' /\ LogicalOK' /\ CountersTellTheTruth'
  <2>1. Way' = Way
    BY <1>1 DEF Way
  <2>2. LinesOf(g, 0) = 0
    BY LinesStep
  <2> QED
    BY <1>1, <1>7, <1>8, <1>10, <2>1, <2>2 DEF IInv, StoredOK, LogicalOK,
      CountersTellTheTruth
<1>12. LimitOK'
  <2>1. limit \in Nat
    BY StorageAssumption DEF IInv, TypeOK
  <2> QED
    BY <1>1, <2>1 DEF LimitOK
<1>13. CursorOK'
  <2>1. Sealed(g, cursor')
    BY <1>8 DEF Sealed
  <2> QED
    BY <1>1, <1>2, <1>7, <2>1 DEF CursorOK
<1>14. IInv'
  BY <1>6, <1>9, <1>11, <1>12, <1>13 DEF IInv
<1> QED
  BY <1>3, <1>5, <1>14

------------------------------------------------------------------------------
\* Taking the newest lines back.

\* How many lines page i keeps when left lines stay.
CutOf(h, left, i) == Smaller(h[i].lines, left - LinesOf(h, i - 1))

\* p with c lines, cut when b says so.
KeptPart(p, c, b) == [p EXCEPT !.lines = c, !.rows = IF b THEN SubSeq(@, 1, c) ELSE @]

\* pages is the number of pages it takes to hold left lines.
Cuts(h, n, left, pages) ==
  /\ pages \in 0..n /\ LinesOf(h, pages) >= left
  /\ \A i \in 0..n : LinesOf(h, i) >= left => pages <= i

\* The lines each page keeps when the newest lines are taken back.
LEMMA CutsFit ==
  ASSUME NEW h, NEW n \in Nat, Sized(h, n), NEW start \in 0..n, NEW left \in Nat,
         LinesOf(h, start) <= left,
         NEW pages \in 0..n, Cuts(h, n, left, pages)
  PROVE  /\ start <= pages
         /\ \A i \in 1..pages : /\ CutOf(h, left, i) \in 1..h[i].lines
                                /\ i <= start \/ i < pages => CutOf(h, left, i) = h[i].lines
                                /\ i = pages => CutOf(h, left, i) = left - LinesOf(h, i - 1)
<1>0. LinesOf(h, pages) >= left /\ \A i \in 0..n : LinesOf(h, i) >= left => pages <= i
  BY DEF Cuts
<1>1. \A i \in 0..n : LinesOf(h, i) \in Nat
  BY LinesType
<1>2. start <= pages
  <2>1. CASE pages < start
    <3>1. LinesOf(h, pages) < LinesOf(h, start)
      BY <2>1, LinesGrow
    <3> QED
      BY <1>0, <1>1, <3>1
  <2> QED
    BY <2>1
<1>3. ASSUME NEW i \in 1..pages
      PROVE  /\ CutOf(h, left, i) \in 1..h[i].lines
             /\ i <= start \/ i < pages => CutOf(h, left, i) = h[i].lines
             /\ i = pages => CutOf(h, left, i) = left - LinesOf(h, i - 1)
  <2>1. i \in Nat /\ i # 0 /\ i \in 0..n /\ i - 1 \in 0..n /\ ~(pages <= i - 1) /\ i \in 1..n
    OBVIOUS
  <2>2. PICK a \in Nat, b \in Nat, l \in Nat \ {0} : /\ a = LinesOf(h, i - 1) /\ b = LinesOf(h, i)
                                                     /\ l = h[i].lines
    BY <1>1, <2>1 DEF Sized
  <2>3. b = a + l
    BY <2>1, <2>2, LinesStep
  <2>4. a < left
    <3>1. ~(a >= left)
      BY <1>0, <2>1, <2>2
    <3> QED
      BY <3>1
  <2>5. i < pages => b < left
    <3>1. i < pages => ~(b >= left)
      BY <1>0, <2>1, <2>2
    <3> QED
      BY <3>1
  <2>6. i <= start => b <= left
    <3>1. CASE i = start
      BY <2>2, <3>1
    <3>2. CASE i < start
      <4>1. LinesOf(h, i) < LinesOf(h, start)
        BY <2>1, <3>2, LinesGrow
      <4>2. LinesOf(h, start) \in Nat
        BY <1>1
      <4> QED
        BY <2>2, <4>1, <4>2
    <3> QED
      BY <3>1, <3>2
  <2>7. i = pages => b >= left
    BY <1>0, <2>2
  <2>8. CutOf(h, left, i) = IF l < left - a THEN l ELSE left - a
    BY <2>2 DEF CutOf, Smaller
  <2> QED
    BY <2>2, <2>3, <2>4, <2>5, <2>6, <2>7, <2>8
<1> QED
  BY <1>2, <1>3

\* A page that keeps its first lines.
LEMMA KeptIs ==
  ASSUME NEW p \in Page, NEW s, PageOK(p, s), NEW c \in Nat, 0 < c, c <= p.lines,
         PageLines \in Nat,
         NEW b \in BOOLEAN, ~b => c = p.lines, b => Hot(p), NEW q, q = KeptPart(p, c, b)
  PROVE  q \in Page /\ q.lines = c /\ Stays(p, q, s) /\ (~b => q = p) /\ (Eligible(q) => Eligible(p))
<1>1. CASE b
  <2>1. q = CutTo(p, c)
    BY <1>1 DEF KeptPart, CutTo
  <2>2. /\ q \in Page /\ PageOK(q, s) /\ Hot(q) /\ ~Away(q) /\ q.id = p.id /\ q.lines = c
        /\ Hot(p)
    <3>1. Hot(p)
      BY <1>1
    <3>2. /\ CutTo(p, c) \in Page /\ PageOK(CutTo(p, c), s) /\ Hot(CutTo(p, c))
          /\ ~Away(CutTo(p, c))
          /\ CutTo(p, c).id = p.id /\ CutTo(p, c).gen = p.gen /\ CutTo(p, c).lines = c
      BY <3>1, CutPage
    <3> QED
      BY <2>1, <3>1, <3>2
  <2>3. Stays(p, q, s)
    BY <2>2 DEF Stays, Hot, Away
  <2>4. Eligible(q) => Eligible(p)
    <3>1. p.lines \in Nat
      BY DEF Page
    <3>2. q.lines >= PageLines => p.lines >= PageLines
      BY <2>2, <3>1
    <3> QED
      BY <2>2, <3>2 DEF Eligible, PageOK
  <2> QED
    BY <1>1, <2>2, <2>3, <2>4
<1>2. CASE ~b
  <2>1. q = [p EXCEPT !.lines = p.lines, !.rows = p.rows]
    BY <1>2 DEF KeptPart
  <2>2. q = p
    BY <2>1 DEF Page
  <2> QED
    BY <1>2, <2>2 DEF Stays
<1> QED
  BY <1>1, <1>2

\* The pages after the newest lines were taken back.
Grown(h, start, left, pages) == [i \in 1..pages |-> KeptPart(h[i], CutOf(h, left, i), i > start)]

\* The pages after start are hot.
HotFrom(h, n, start) == \A i \in 1..n : i > start => Hot(h[i])

\* Pages up to start are as they were, and no page is newly eligible.
PagesKept(h, g, start, pages) ==
  \A i \in 1..pages : (i <= start => g[i] = h[i]) /\ (Eligible(g[i]) => Eligible(h[i]))

\* The first k pages of h hold m lines.
Sums(h, k, m) == LinesOf(h, k) = m

\* The storage after the newest lines were taken back.
LEMMA GrownIs ==
  ASSUME NEW h \in Seq(Page), NEW w, NEW c, NEW id \in Nat \ {0}, NEW s,
         Stored(h, w, c, id, s), PageLines \in Nat,
         NEW n \in Nat, n = Len(h), NEW start \in 0..n, NEW left \in Nat, LinesOf(h, start) <= left,
         NEW pages \in 0..n, Cuts(h, n, left, pages), HotFrom(h, n, start),
         NEW g, g = Grown(h, start, left, pages)
  PROVE  /\ start <= pages /\ g \in Seq(Page) /\ Len(g) = pages /\ PagesKept(h, g, start, pages)
         /\ LinesOf(g, pages) = left /\ Sums(g, pages, left)
         /\ Stored(g, w, NoPage, id, s)
<1>1. Sized(h, n)
  BY PagesSized
<1>2. /\ start <= pages
      /\ \A i \in 1..pages : /\ CutOf(h, left, i) \in 1..h[i].lines
                             /\ i <= start \/ i < pages => CutOf(h, left, i) = h[i].lines
                             /\ i = pages => CutOf(h, left, i) = left - LinesOf(h, i - 1)
  BY <1>1, CutsFit
<1>3. DOMAIN h = 1..n /\ \A i \in 1..pages : i \in 1..n /\ i \in DOMAIN h
  <2> HIDE DEF Page
  <2>1. DOMAIN h = 1..n
    OBVIOUS
  <2> QED
    BY <2>1
<1>4. DOMAIN g = 1..pages /\ \A i \in 1..pages : g[i] = KeptPart(h[i], CutOf(h, left, i), i > start)
  BY DEF Grown
<1>5. \A i \in DOMAIN h : PageOK(h[i], s) /\ h[i] \in Page
  <2>1. \A i \in DOMAIN h : h[i] \in Page
    <3> HIDE DEF Page
    <3> QED
      OBVIOUS
  <2> QED
    BY <2>1 DEF Stored, PagesFit
<1>6. ASSUME NEW i \in 1..pages
      PROVE  /\ g[i] \in Page /\ g[i].lines = CutOf(h, left, i) /\ Stays(h[i], g[i], s)
             /\ i <= start => g[i] = h[i]
             /\ Eligible(g[i]) => Eligible(h[i])
  <2>1. PICK p \in Page : p = h[i] /\ PageOK(p, s)
    BY <1>3, <1>5
  <2>2. p.lines \in Nat
    BY DEF Page
  <2>3. PICK k \in Nat : k = CutOf(h, left, i) /\ 0 < k /\ k <= p.lines /\ (i <= start => k = p.lines)
    BY <1>2, <2>1, <2>2
  <2>4. PICK b \in BOOLEAN : b <=> i > start
    OBVIOUS
  <2>5. b = (i > start)
    BY <2>4
  <2>6. PICK q : q = KeptPart(p, k, b) /\ q = g[i]
    BY <1>4, <2>1, <2>3, <2>5
  <2>7. (~b => k = p.lines) /\ (b => Hot(p)) /\ (i <= start => ~b)
    BY <1>3, <2>1, <2>3, <2>4 DEF HotFrom
  <2>8. q \in Page /\ q.lines = k /\ Stays(p, q, s) /\ (~b => q = p) /\ (Eligible(q) => Eligible(p))
    <3>1. PageOK(p, s) /\ 0 < k /\ k <= p.lines /\ (~b => k = p.lines) /\ (b => Hot(p)) /\ q = KeptPart(p, k, b)
      BY <2>1, <2>3, <2>6, <2>7
    <3> HIDE DEF Page
    <3> QED
      BY <3>1, KeptIs
  <2> QED
    BY <2>1, <2>3, <2>6, <2>7, <2>8
<1>7. g \in Seq(Page) /\ Len(g) = pages
  <2> HIDE DEF Page
  <2>1. \E m \in Nat : g \in [1..m -> Page]
    <3>1. g = [i \in 1..pages |-> g[i]] /\ pages \in Nat
      BY <1>4 DEF Grown
    <3> QED
      BY <1>6, <3>1
  <2>2. g \in Seq(Page)
    BY <2>1
  <2> QED
    BY <1>4, <2>2
<1>8. PagesKept(h, g, start, pages)
  BY <1>6 DEF PagesKept
<1>9. LinesOf(g, pages) = left
  <2>1. CASE pages = 0
    <3>1. LinesOf(g, 0) = 0 /\ LinesOf(h, 0) = 0
      BY LinesStep
    <3>2. LinesOf(h, pages) >= left
      BY DEF Cuts
    <3> QED
      BY <2>1, <3>1, <3>2
  <2>2. CASE pages # 0
    <3>1. PICK m \in Nat : m = pages - 1 /\ m \in 0..n /\ pages \in 1..pages
      BY <2>2
    <3>2. LinesOf(g, pages) = LinesOf(g, pages - 1) + g[pages].lines
      BY <2>2, LinesStep
    <3>3. \A i \in 1..m : g[i].lines = h[i].lines
      <4>1. \A i \in 1..m : i \in 1..pages /\ i < pages
        BY <3>1
      <4> QED
        BY <1>2, <1>6, <4>1
    <3>4. LinesOf(g, m) = LinesOf(h, m)
      BY <3>3, LinesSame
    <3>5. g[pages].lines = left - LinesOf(h, m)
      BY <1>2, <1>6, <3>1
    <3>6. LinesOf(h, m) \in Nat
      BY <1>1, <3>1, LinesType
    <3>7. LinesOf(g, pages) = LinesOf(h, m) + (left - LinesOf(h, m))
      BY <3>1, <3>2, <3>4, <3>5
    <3> QED
      BY <3>6, <3>7
  <2> QED
    BY <2>1, <2>2
<1>10. Stored(g, w, NoPage, id, s)
  <2>1. \A i \in DOMAIN g : i + 0 \in DOMAIN h /\ Stays(h[i + 0], g[i], s)
    <3> SUFFICES ASSUME NEW i \in DOMAIN g PROVE i + 0 \in DOMAIN h /\ Stays(h[i + 0], g[i], s)
      OBVIOUS
    <3>1. i \in 1..pages /\ i + 0 = i
      BY <1>4
    <3> QED
      BY <1>3, <1>6, <3>1
  <2>2. 0 \in Nat
    OBVIOUS
  <2> QED
    BY <1>7, <2>1, <2>2, StoredDerived
<1> QED
  BY <1>2, <1>7, <1>8, <1>9, <1>10 DEF Sums

\* The newest rows of some rows are rows.
LEMMA Newest ==
  ASSUME NEW S, NEW x, NEW s \in Seq(S), NEW k \in Nat, 0 < k, k <= Len(s), NEW a,
         a = SubSeq(s, Len(s) - k + 1, Len(s))
  PROVE  a \in Seq(S \cup {x})
<1>1. PICK m \in Nat : m = Len(s) - k + 1 /\ 1 <= m /\ m <= Len(s)
  <2>1. Len(s) \in Nat
    OBVIOUS
  <2>2. Len(s) - k + 1 \in Nat /\ 1 <= Len(s) - k + 1 /\ Len(s) - k + 1 <= Len(s)
    BY <2>1
  <2> QED
    BY <2>2
<1>2. a = SubSeq(s, m, Len(s))
  BY <1>1
<1>3. a \in Seq(S)
  BY <1>1, <1>2
<1> QED
  BY <1>3

\* The last k of s.
NewestOf(s, k) == SubSeq(s, Len(s) - k + 1, Len(s))

\* The rows of the pages after start.
RowsFrom(h, n, start) == [i \in 1..(n - start) |-> h[start + i].rows]

\* What grow_screen answers is rows.
LEMMA RowsOut ==
  ASSUME NEW h \in Seq(Page), NEW s, AllOK(h, s), PageLines \in Nat, NEW n \in Nat,
         n = Len(h), NEW start \in 0..n,
         HotFrom(h, n, start), NEW k \in Nat, 0 < k, NEW all \in Nat, NEW skipped \in Nat,
         all = LinesOf(h, n), skipped = LinesOf(h, start), k <= all - skipped,
         NEW out, out = FlattenSeq(RowsFrom(h, n, start)), NEW a, a = NewestOf(out, k)
  PROVE  a \in Seq(Row \cup {NoRow})
<1>1. PICK d \in Nat : d = n - start /\ start + d = n /\ d # 0
  <2>1. n - start \in Nat /\ start + (n - start) = n
    OBVIOUS
  <2>2. n - start # 0
    <3>1. start = n => all = skipped
      OBVIOUS
    <3>2. start # n
      BY <3>1
    <3> QED
      BY <3>2
  <2> QED
    BY <2>1, <2>2
<1>2. DOMAIN h = 1..n /\ \A i \in 1..n : h[i] \in Page
  <2> HIDE DEF Page
  <2> QED
    OBVIOUS
<1>3. ASSUME NEW i \in 1..d PROVE h[start + i].rows \in Seq(Row) /\ Len(h[start + i].rows) = h[start + i].lines
  <2>1. start + i \in 1..n /\ start + i > start
    BY <1>1
  <2>2. h[start + i] \in Page /\ Hot(h[start + i]) /\ PageOK(h[start + i], s)
    BY <1>2, <2>1 DEF HotFrom, AllOK
  <2>3. \A p \in Page : p.rows \in Seq(Row)
    BY DEF Page
  <2> QED
    BY <2>2, <2>3 DEF PageOK
<1>4. PICK r : r = RowsFrom(h, n, start)
  OBVIOUS
<1>5. r \in Seq(Seq(Row)) /\ Len(r) = d /\ \A i \in 1..d : r[i] = h[start + i].rows
  <2>1. r = [i \in 1..d |-> h[start + i].rows]
    BY <1>1, <1>4 DEF RowsFrom
  <2>2. DOMAIN r = 1..d /\ \A i \in 1..d : r[i] = h[start + i].rows
    BY <2>1
  <2>3. r \in [1..d -> Seq(Row)]
    BY <1>3, <2>1
  <2>4. r \in Seq(Seq(Row))
    <3> HIDE DEF Row
    <3> QED
      BY <2>3
  <2> QED
    BY <2>2, <2>4
<1>6. PICK g : g = [i \in 1..d |-> h[start + i]]
  OBVIOUS
<1>7. \A i \in 1..d : g[i] = h[start + i]
  BY <1>6
<1>8. Measured(r, g, d)
  BY <1>3, <1>5, <1>7 DEF Measured
<1>9. out \in Seq(Row) /\ Len(out) = LinesOf(g, d)
  <2> HIDE DEF Row
  <2>1. FlattenSeq(r) \in Seq(Row) /\ Len(FlattenSeq(r)) = LinesOf(g, d)
    BY <1>5, <1>8, FlatIs
  <2> QED
    BY <1>4, <2>1
<1>10. LinesOf(g, d) = all - skipped
  <2>1. Sized(h, start + d)
    BY <1>1, PagesSized
  <2>2. CutLines(h, g, start, d, 0)
    <3>1. h[start + 1].lines \in Nat
      <4>1. start + 1 \in 1..(start + d)
        BY <1>1
      <4> QED
        BY <2>1, <4>1 DEF Sized
    <3>2. g[1].lines = h[start + 1].lines - 0
      <4>1. 1 \in 1..d
        BY <1>1
      <4> QED
        BY <1>7, <3>1, <4>1
    <3>3. \A i \in 2..d : g[i].lines = h[start + i].lines
      BY <1>7
    <3> QED
      BY <3>2, <3>3 DEF CutLines
  <2>3. start \in Nat /\ 0 \in Nat /\ d \in 1..d
    BY <1>1
  <2>4. \A m \in 1..d : LinesOf(g, m) = LinesOf(h, start + m) - LinesOf(h, start) - 0
    BY <2>1, <2>2, <2>3, LinesCut
  <2>5. LinesOf(g, d) = LinesOf(h, start + d) - LinesOf(h, start) - 0
    BY <2>3, <2>4
  <2> QED
    BY <1>1, <2>5
<1>11. k <= Len(out)
  BY <1>9, <1>10
<1>12. a = SubSeq(out, Len(out) - k + 1, Len(out))
  BY DEF NewestOf
<1> HIDE DEF Row, NoRow
<1> QED
  BY <1>9, <1>11, <1>12, Newest

\* The step of grow_screen with its numbers: taken rows come back from the pages after start, left
\* stay, in that many pages.
GrownAt(n, start, taken, left, pages) ==
  /\ n = Len(history) /\ HotFrom(history, n, start) /\ LinesOf(history, start) <= left
  /\ taken > 0 /\ logical = left + taken
  /\ Cuts(history, n, left, pages)
  /\ history' = Grown(history, start, left, pages)
  /\ answer' = NewestOf(FlattenSeq(RowsFrom(history, n, start)), taken)
  /\ todo = <<>> /\ open /\ todo' = todo
  /\ logical' = left /\ cache' = NoPage /\ cursor' = Smaller(cursor, pages)
  /\ UNCHANGED <<nextId, limit, scan, arg, fed, styles, open>>
  /\ UNCHANGED <<jobs, completions, queued, pending, worker>>

\* grow_screen takes rows back from the loose pages at the end, at most as many as they hold.
LEMMA GrownFront ==
  ASSUME IInv, NEW k \in Nat, NEW w, GrowScreen(k, w)
  PROVE  \E n, taken, left \in Nat : \E start, pages \in 0..n : GrownAt(n, start, taken, left, pages)
<1> DEFINE S == {0} \cup {i \in DOMAIN history : ~Loose(history[i], w)}
<1>1a. PICK n, start : n = Len(history) /\ start = Max(S)
  OBVIOUS
<1>1b. PICK taken, left : taken = Smaller(k, logical - LinesBefore(start)) /\ left = logical - taken
  OBVIOUS
<1>1c. PICK pages, out : /\ pages = Min({i \in 0..n : LinesBefore(i) >= left})
                        /\ out = FlattenSeq(RowsFrom(history, n, start))
  OBVIOUS
<1>1d. /\ taken > 0 /\ answer' = NewestOf(out, taken)
       /\ history' = [i \in 1..pages |-> KeptPart(history[i], Smaller(history[i].lines, left - LinesBefore(i - 1)), i > start)]
       /\ todo = <<>> /\ open /\ todo' = todo
       /\ logical' = left /\ cache' = NoPage /\ cursor' = Smaller(cursor, pages)
       /\ UNCHANGED <<nextId, limit, scan, arg, fed, styles, open>>
       /\ UNCHANGED <<jobs, completions, queued, pending, worker>>
  BY <1>1a, <1>1b, <1>1c DEF GrowScreen, NewestOf, RowsFrom, KeptPart, Local
<1>2. /\ history \in Seq(Page) /\ logical \in Nat /\ logical = LinesOf(history, n)
      /\ PageLines \in Nat /\ n = Len(history)
  BY <1>1a, StorageAssumption DEF IInv, TypeOK, LogicalOK
<1>3. n \in Nat /\ DOMAIN history = 1..n /\ Sized(history, n)
  <2>1. Sized(history, Len(history))
    BY <1>2, PagesSized
  <2> HIDE DEF Page
  <2> QED
    BY <1>2, <2>1
<1>4. start \in S /\ \A y \in S : start >= y
  <2>1. S \subseteq 0..n /\ S # {}
    BY <1>3
  <2>2. start = Max(S)
    BY <1>1a
  <2> HIDE DEF S
  <2> QED
    BY <1>3, <2>1, <2>2, MaxExists
<1>5. start \in 0..n /\ \A i \in 1..n : i > start => Loose(history[i], w)
  <2>1. start \in 0..n
    BY <1>3, <1>4
  <2>2. ASSUME NEW i \in 1..n, i > start PROVE Loose(history[i], w)
    <3>1. i \notin S
      BY <1>4, <2>1, <2>2
    <3> QED
      BY <1>3, <3>1
  <2> QED
    BY <2>1, <2>2
<1> HIDE DEF S
<1>6. HotFrom(history, n, start)
  BY <1>5 DEF HotFrom, Loose, Hot
<1>7. PICK skipped \in Nat : /\ skipped = LinesOf(history, start) /\ skipped <= logical
                             /\ skipped = LinesBefore(start)
  <2>1. LinesOf(history, start) \in Nat
    BY <1>3, <1>5, LinesType
  <2>2. LinesOf(history, start) <= logical
    <3>1. CASE start = n
      BY <1>2, <2>1, <3>1
    <3>2. CASE start # n
      <4>1. start < n /\ n \in 0..n
        BY <1>3, <1>5, <3>2
      <4>2. LinesOf(history, start) < LinesOf(history, n)
        BY <1>3, <1>5, <4>1, LinesGrow
      <4> QED
        BY <1>2, <2>1, <4>2
    <3> QED
      BY <3>1, <3>2
  <2> QED
    BY <2>1, <2>2, LinesBeforeIs
<1>8. /\ taken \in Nat /\ 0 < taken /\ taken <= logical - skipped
      /\ left \in Nat /\ skipped <= left /\ left < logical /\ logical = left + taken
  <2>1. taken = IF k < logical - skipped THEN k ELSE logical - skipped
    BY <1>1b, <1>7 DEF Smaller
  <2>2. taken > 0 /\ left = logical - taken
    BY <1>1b, <1>1d
  <2>3. taken \in Nat /\ taken <= logical - skipped
    BY <1>2, <1>7, <2>1
  <2> QED
    BY <1>2, <1>7, <2>2, <2>3, SMTT(30)
<1>9. pages \in 0..n /\ Cuts(history, n, left, pages)
  <2>1. \A i : LinesBefore(i) = LinesOf(history, i)
    BY LinesBeforeIs
  <2>2. PICK T : T = {i \in 0..n : LinesOf(history, i) >= left}
    OBVIOUS
  <2>3. pages = Min(T)
    BY <1>1c, <2>1, <2>2
  <2>4. n \in T /\ T \subseteq Nat
    BY <1>2, <1>3, <1>8, <2>2
  <2>5. pages \in T /\ \A y \in T : pages <= y
    BY <2>3, <2>4, MinExists
  <2> QED
    BY <2>2, <2>5 DEF Cuts
<1>10. history' = Grown(history, start, left, pages)
  <2>1. \A i : LinesBefore(i) = LinesOf(history, i)
    BY LinesBeforeIs
  <2> QED
    BY <1>1d, <2>1 DEF Grown, CutOf
<1>11. GrownAt(n, start, taken, left, pages)
  BY <1>1a, <1>1b, <1>1c, <1>1d, <1>6, <1>7, <1>8, <1>9, <1>10 DEF GrownAt
<1> QED
  BY <1>3, <1>5, <1>8, <1>9, <1>11

\* grow_screen, which takes the newest lines back, keeps the invariant.
LEMMA GrowKeeps == ASSUME IInv, NEW k \in Nat, NEW w, GrowScreen(k, w) PROVE IInv'
<1>1a. PICK n, taken, left \in Nat : \E start, pages \in 0..n : GrownAt(n, start, taken, left, pages)
  BY GrownFront
<1>1b. PICK start, pages \in 0..n : GrownAt(n, start, taken, left, pages)
  BY <1>1a
<1>1. /\ n = Len(history) /\ HotFrom(history, n, start) /\ LinesOf(history, start) <= left
      /\ taken > 0 /\ logical = left + taken
      /\ Cuts(history, n, left, pages)
      /\ history' = Grown(history, start, left, pages)
      /\ answer' = NewestOf(FlattenSeq(RowsFrom(history, n, start)), taken)
      /\ todo = <<>> /\ open /\ todo' = todo
      /\ logical' = left /\ cache' = NoPage /\ cursor' = Smaller(cursor, pages)
      /\ UNCHANGED <<nextId, limit, scan, arg, fed, styles, open>>
      /\ UNCHANGED <<jobs, completions, queued, pending, worker>>
  BY <1>1b DEF GrownAt
<1>2. /\ history \in Seq(Page) /\ logical \in Nat /\ cursor \in Nat /\ nextId \in Nat \ {0}
      /\ limit \in Nat
      /\ logical = LinesOf(history, n) /\ PageLines \in Nat /\ n = Len(history)
  BY <1>1, StorageAssumption DEF IInv, TypeOK, LogicalOK
<1>3. n \in Nat /\ DOMAIN history = 1..n /\ Sized(history, n)
  <2>1. Sized(history, Len(history))
    BY <1>2, PagesSized
  <2> HIDE DEF Page
  <2> QED
    BY <1>2, <2>1
<1>5. start \in 0..n
  BY <1>1b
<1>6. HotFrom(history, n, start)
  BY <1>1
<1>7. PICK skipped \in Nat : skipped = LinesOf(history, start) /\ skipped <= left
  BY <1>1, <1>3, <1>5, LinesType
<1>8. /\ taken \in Nat /\ 0 < taken /\ taken <= logical - skipped
      /\ left \in Nat /\ skipped <= left /\ left < logical
  BY <1>1, <1>2, <1>7
<1>9. pages \in 0..n /\ Cuts(history, n, left, pages)
  BY <1>1
<1>10. PICK g : g = history' /\ g = Grown(history, start, left, pages)
  BY <1>1
<1>11. /\ start <= pages /\ g \in Seq(Page) /\ Len(g) = pages
       /\ PagesKept(history, g, start, pages)
       /\ LinesOf(g, pages) = left /\ Stored(g, Way, NoPage, nextId, styles)
  <2>1. Stored(history, Way, cache, nextId, styles)
    BY WayType
  <2>2. LinesOf(history, start) <= left
    BY <1>7, <1>8
  <2> QED
    BY <1>2, <1>3, <1>5, <1>6, <1>8, <1>9, <1>10, <2>1, <2>2, GrownIs
<1>12. answer' \in Seq(Row \cup {NoRow})
  <2>1. AllOK(history, styles)
    BY WayType DEF Stored, PagesFit, AllOK
  <2>2. PICK out : out = FlattenSeq(RowsFrom(history, n, start))
    OBVIOUS
  <2>3. PICK a : a = answer' /\ a = NewestOf(out, taken)
    BY <1>1, <2>2
  <2>4. /\ history \in Seq(Page) /\ PageLines \in Nat /\ n \in Nat /\ n = Len(history)
        /\ start \in 0..n
    BY <1>2, <1>3, <1>5
  <2>5. PICK all : all = logical
    OBVIOUS
  <2>6. /\ taken \in Nat /\ 0 < taken /\ all \in Nat /\ taken <= all - skipped
        /\ all = LinesOf(history, n) /\ skipped = LinesOf(history, start)
    BY <1>2, <1>7, <1>8, <2>5
  <2>7. a \in Seq(Row \cup {NoRow})
    <3> HIDE DEF Row, NoRow, Page
    <3> QED
      BY <1>6, <2>1, <2>2, <2>3, <2>4, <2>6, RowsOut
  <2> QED
    BY <2>3, <2>7
<1>13. scan = NotScanning /\ (\A x : ~Within(x, todo)) /\ Sealed(history, cursor)
  BY <1>1, Returned
<1>14. TodoOK'
  <2>1. AddsFit(todo', fed') /\ EnforcedAfter(todo')
    BY <1>1 DEF IInv, TodoOK
  <2> QED
    BY <1>1, <1>13, <2>1 DEF TodoOK, ReadOK, ScanOK
<1>15. cursor' \in Nat /\ cursor' <= cursor /\ cursor' <= pages
  <2>1. cursor' = IF cursor < pages THEN cursor ELSE pages
    BY <1>1 DEF Smaller
  <2> QED
    BY <1>2, <1>9, <2>1
<1>16. TypeOK'
  BY <1>1, <1>8, <1>10, <1>11, <1>12, <1>15 DEF IInv, TypeOK
<1>17. StoredOK' /\ LogicalOK' /\ CountersTellTheTruth'
  <2>1. Way' = Way
    BY <1>1 DEF Way
  <2> QED
    BY <1>1, <1>10, <1>11, <2>1 DEF IInv, StoredOK, LogicalOK, CountersTellTheTruth
<1>18. LimitOK'
  <2> SUFFICES ASSUME left > limit PROVE left - limit < g[1].lines /\ ~Hot(g[1])
    BY <1>1, <1>10 DEF LimitOK
  <2>1. logical > limit
    BY <1>2, <1>8
  <2>2. logical - limit < history[1].lines /\ ~Hot(history[1])
    BY <1>13, <2>1 DEF IInv, LimitOK
  <2>3. n # 0
    <3>1. LinesOf(history, 0) = 0
      BY LinesStep
    <3> QED
      BY <1>2, <2>1, <3>1
  <2>4. 1 \in 1..n
    BY <1>3, <2>3
  <2>5. start >= 1
    <3>1. ~(1 > start)
      BY <1>6, <2>2, <2>4 DEF HotFrom
    <3> QED
      BY <1>5, <3>1
  <2>6. 1 \in 1..pages /\ 1 <= start
    BY <1>5, <1>9, <1>11, <2>5
  <2>7. g[1] = history[1]
    BY <1>11, <2>6 DEF PagesKept
  <2>8. history[1].lines \in Nat
    BY <1>3, <2>4 DEF Sized
  <2>9. left - limit < history[1].lines
    BY <1>2, <1>8, <2>2, <2>8, SMTT(30)
  <2> QED
    BY <2>2, <2>7, <2>9
<1>19. CursorOK'
  <2>1. Sealed(g, cursor')
    <3> SUFFICES ASSUME NEW i \in 1..(Len(g) - 1), i <= cursor' PROVE ~Eligible(g[i])
      BY DEF Sealed
    <3>1. i \in 1..pages /\ i \in 1..(n - 1) /\ i <= cursor
      BY <1>2, <1>9, <1>11, <1>15
    <3>2. ~Eligible(history[i])
      BY <1>2, <1>13, <3>1 DEF Sealed
    <3> QED
      BY <1>11, <3>1, <3>2 DEF PagesKept
  <2> QED
    BY <1>1, <1>10, <1>13, <2>1 DEF CursorOK
<1> QED
  BY <1>14, <1>16, <1>17, <1>18, <1>19 DEF IInv

------------------------------------------------------------------------------
\* The invariant.

\* The invariant holds of an empty storage.
LEMMA InitOK == ASSUME Init PROVE IInv
<1>1. /\ history = <<>> /\ logical = 0 /\ nextId = 1 /\ cursor = 0 /\ cache = NoPage
      /\ limit \in Limits
      /\ todo = <<>> /\ scan = NotScanning /\ answer = <<>> /\ fed = 0 /\ styles = 0
      /\ jobs = <<>> /\ completions = <<>> /\ open = TRUE /\ queued = 0 /\ pending = 0
      /\ worker = [pc |-> "recv", job |-> NoPage]
  BY DEF Init
<1>2. /\ <<>> \in Seq(Page) /\ <<>> \in Seq(Job) /\ <<>> \in Seq(Row) /\ <<>> \in Seq(Steps)
      /\ <<>> \in Seq(Row \cup {NoRow})
  <2> HIDE DEF Page, Job, Row, Steps, NoRow
  <2> QED
    OBVIOUS
<1>3. TypeOK
  <2>1. /\ fed \in 0..MaxRows /\ styles \in 0..MaxStyles /\ Len(jobs) <= QueueCap
        /\ Len(completions) <= CompletionCap
    BY <1>1, StorageAssumption
  <2>2. NoPage \in Job
    BY <1>2 DEF NoPage, Job
  <2>3. worker \in [pc : {"recv", "send", "sent", "gone"}, job : Job]
    BY <1>1, <2>2
  <2>4. scan \in [at : Int, failed : Int]
    BY <1>1 DEF NotScanning
  <2>5. todo \in Seq(Steps)
    BY <1>1, <1>2
  <2> HIDE DEF Page, Job, Row, NoRow
  <2> QED
    BY <1>1, <1>2, <2>1, <2>3, <2>4, <2>5 DEF TypeOK, Steps
<1>4. CountersTellTheTruth
  BY <1>1 DEF CountersTellTheTruth
<1>5. Way = <<>>
  BY <1>1 DEF Way
<1>6. StoredOK
  <2>1. PICK h, w : h = history /\ w = Way /\ DOMAIN h = {} /\ DOMAIN w = {}
    BY <1>1, <1>5
  <2>2. PagesFit(h, nextId, styles) /\ JobsFit(w, h, nextId, styles)
    BY <2>1 DEF PagesFit, JobsFit
  <2>3. CacheFits(cache, h, nextId)
    BY <1>1, <2>1 DEF CacheFits, NoPage
  <2> QED
    BY <2>1, <2>2, <2>3 DEF StoredOK, Stored
<1>7. DOMAIN todo = {} /\ \A x : ~Within(x, todo)
  BY <1>1 DEF Within
<1>8. AddsFit(todo, fed)
  <2>1. 0 \in Nat /\ 0 + 0 <= MaxRows
    BY StorageAssumption
  <2> QED
    BY <1>1, <1>7, <2>1 DEF AddsFit
<1>9. TodoOK
  BY <1>1, <1>7, <1>8 DEF TodoOK, EnforcedAfter, ReadOK, ScanOK
<1>10. LimitOK
  <2>1. limit \in Nat
    BY <1>1, StorageAssumption
  <2> QED
    BY <1>1, <2>1 DEF LimitOK
<1>11. CursorOK
  <2>1. Sealed(history, cursor)
    <3>1. Len(history) = 0 /\ 1..(0 - 1) = {}
      BY <1>1
    <3> QED
      BY <3>1 DEF Sealed
  <2> QED
    BY <1>1, <1>7, <2>1 DEF CursorOK
<1>12. LogicalOK
  <2>1. Len(history) = 0
    BY <1>1
  <2> QED
    BY <1>1, <2>1, LinesStep DEF LogicalOK
<1> QED
  BY <1>3, <1>4, <1>6, <1>9, <1>10, <1>11, <1>12 DEF IInv

\* A step that changes nothing keeps the invariant.
LEMMA StutterKeeps == ASSUME IInv, UNCHANGED vars PROVE IInv'
<1>1. /\ UNCHANGED <<history, logical, nextId, cursor, cache, limit, todo, scan, arg, answer,
                     fed, styles, open>>
      /\ UNCHANGED <<jobs, completions, queued, pending, worker>>
  BY DEF vars, owner
<1>2. StoredOK' /\ LogicalOK' /\ CountersTellTheTruth'
  BY <1>1, StoreFrame
<1>3. TypeOK'
  BY <1>1 DEF IInv, TypeOK
<1>4. TodoOK'
  BY <1>1 DEF IInv, TodoOK, ReadOK, ScanOK, At
<1>5. LimitOK' /\ CursorOK'
  BY <1>1 DEF IInv, LimitOK, CursorOK, At
<1> QED
  BY <1>2, <1>3, <1>4, <1>5 DEF IInv

\* Every step of the owner inside a call keeps the invariant.
LEMMA OwnerKeeps == ASSUME IInv, OwnerStep PROVE IInv'
<1>1. CASE \E w \in Widths : PushLine(w)
  BY <1>1, PushKeeps
<1>2. CASE \E w \in Widths : \E gen \in Generations : IngestRow(w, gen)
  BY <1>2, IngestKeeps
<1>3. CASE Scan
  BY <1>3, ScanKeeps
<1>4. CASE Enforce
  BY <1>4, EnforceKeeps
<1>5. CASE Apply
  BY <1>5, ApplyKeeps
<1>6. CASE WaitForJobs
  BY <1>6, WaitKeeps
<1>7. CASE Quiesce
  BY <1>7, QuiesceKeeps
<1>8. CASE QuiesceRecv
  BY <1>8, RecvKeeps
<1>9. CASE Remap
  BY <1>9, RemapKeeps
<1>10. CASE ReadLine
  BY <1>10, ReadKeeps
<1>11. CASE Join
  BY <1>11, JoinKeeps
<1> QED
  BY <1>1, <1>2, <1>3, <1>4, <1>5, <1>6, <1>7, <1>8, <1>9, <1>10, <1>11 DEF OwnerStep

\* Every call of the owner keeps the invariant.
LEMMA CallKeeps == ASSUME IInv, NewCall PROVE IInv'
<1>1. \A n \in 0..MaxBatch : n \in Nat
  BY StorageAssumption
<1>2. CASE \E n \in 0..MaxBatch : Feed(n) \/ Clear(n) \/ CompactStyles(n)
  BY <1>1, <1>2, FeedKeeps, ClearKeeps
<1>3. CASE \E n \in 1..MaxBatch : Shrink(n) \/ \E w \in Widths : GrowScreen(n, w)
  <2>1. \A n \in 1..MaxBatch : n \in Nat
    BY StorageAssumption
  <2> QED
    BY <1>3, <2>1, FeedKeeps, GrowKeeps
<1>4. CASE \E i \in DOMAIN history, line \in 1..PageLines : Read(i, line)
  BY <1>4, ReadCallKeeps
<1>5. CASE Relimit
  BY <1>5, RelimitKeeps
<1>6. CASE DropStorage
  BY <1>6, DropKeeps
<1> QED
  BY <1>2, <1>3, <1>4, <1>5, <1>6 DEF NewCall

\* For every size of a page, of the queue and of the history: the counters are
\* right, each page away has one job that carries all its rows, the cache is the
\* page it names, the limit holds between evictions, every page before the cursor
\* is sealed, and logical_rows is the sum of the pages' lines.
THEOREM Invariant == Spec => []IInv
<1>1. Init => IInv
  BY InitOK
<1>2. IInv /\ [Next]_vars => IInv'
  BY WorkerKeeps, OwnerKeeps, CallKeeps, StutterKeeps DEF Next
<1> QED
  BY <1>1, <1>2, PTL DEF Spec

------------------------------------------------------------------------------
\* The pages are sound.

\* u has what a or b has.
Both(u, a, b) == \A x : x \in ToSet(u) <=> x \in ToSet(a) \/ x \in ToSet(b)

\* What is in a concatenation.
LEMMA SetJoined ==
  ASSUME NEW S, NEW a \in Seq(S), NEW b \in Seq(S), NEW u, u = a \o b
  PROVE  u \in Seq(S) /\ Both(u, a, b)
<1>1. /\ u \in Seq(S) /\ Len(u) = Len(a) + Len(b)
      /\ \A i \in 1..Len(a) : u[i] = a[i]
      /\ \A i \in 1..Len(b) : u[Len(a) + i] = b[i]
  BY Joining
<1>2. /\ DOMAIN u = 1..Len(u) /\ DOMAIN a = 1..Len(a) /\ DOMAIN b = 1..Len(b)
      /\ Len(a) \in Nat /\ Len(b) \in Nat
  BY <1>1
<1>3. \A i \in 1..Len(u) : i \in 1..Len(a) \/ (i - Len(a) \in 1..Len(b) /\ Len(a) + (i - Len(a)) = i)
  BY <1>1, <1>2
<1>4. \A i \in 1..Len(a) : i \in 1..Len(u)
  BY <1>1, <1>2
<1>5. \A i \in 1..Len(b) : Len(a) + i \in 1..Len(u)
  BY <1>1, <1>2
<1>6. ToSet(u) \subseteq ToSet(a) \cup ToSet(b)
  <2> SUFFICES ASSUME NEW i \in 1..Len(u) PROVE u[i] \in ToSet(a) \cup ToSet(b)
    BY <1>2 DEF ToSet
  <2>1. CASE i \in 1..Len(a)
    BY <1>1, <1>2, <2>1 DEF ToSet
  <2>2. CASE i \notin 1..Len(a)
    <3>1. PICK k \in 1..Len(b) : Len(a) + k = i
      BY <1>3, <2>2
    <3>2. u[i] = b[k]
      BY <1>1, <3>1
    <3> QED
      BY <1>2, <3>2 DEF ToSet
  <2> QED
    BY <2>1, <2>2
<1>7. ToSet(a) \subseteq ToSet(u)
  <2> SUFFICES ASSUME NEW i \in 1..Len(a) PROVE a[i] \in ToSet(u)
    BY <1>2 DEF ToSet
  <2>1. u[i] = a[i] /\ i \in DOMAIN u
    BY <1>1, <1>2, <1>4
  <2> QED
    BY <2>1 DEF ToSet
<1>8. ToSet(b) \subseteq ToSet(u)
  <2> SUFFICES ASSUME NEW i \in 1..Len(b) PROVE b[i] \in ToSet(u)
    BY <1>2 DEF ToSet
  <2>1. u[Len(a) + i] = b[i] /\ Len(a) + i \in DOMAIN u
    BY <1>1, <1>2, <1>5
  <2> QED
    BY <2>1 DEF ToSet
<1> QED
  BY <1>1, <1>6, <1>7, <1>8 DEF Both

\* What is in the line.
LEMMA SetOfLine ==
  ASSUME NEW S, NEW c \in Seq(S), NEW m \in Seq(S), NEW q \in Seq(S), NEW u, u = Line(c, m, q)
  PROVE  \A x : x \in ToSet(u) <=> x \in ToSet(c) \/ x \in ToSet(m) \/ x \in ToSet(q)
<1>1. PICK a : a = c \o m
  OBVIOUS
<1>2. a \in Seq(S) /\ Both(a, c, m)
  BY <1>1, SetJoined
<1>3. u = a \o q
  BY <1>1 DEF Line
<1>4. Both(u, a, q)
  BY <1>2, <1>3, SetJoined
<1> QED
  BY <1>2, <1>4 DEF Both

\* The jobs on the way are those of the line.
LEMMA WaySet == ASSUME IInv PROVE OnTheWay = ToSet(Way)
<1>1. PICK m : m = (IF worker.pc = "send" THEN <<worker.job>> ELSE <<>>) /\ m \in Seq(Job)
  BY HeldType
<1>2. jobs \in Seq(Job) /\ completions \in Seq(Job)
  BY DEF IInv, TypeOK
<1>3. PICK u : u = Way /\ u = Line(completions, m, jobs)
  BY <1>1 DEF Way, Line
<1>4. \A x : x \in ToSet(u) <=> x \in ToSet(completions) \/ x \in ToSet(m) \/ x \in ToSet(jobs)
  <2>1. /\ m \in Seq(Job) /\ jobs \in Seq(Job) /\ completions \in Seq(Job)
        /\ u = Line(completions, m, jobs)
    BY <1>1, <1>2, <1>3
  <2> QED
    BY <2>1, SetOfLine
<1>7. ToSet(m) = IF worker.pc = "send" THEN {worker.job} ELSE {}
  <2>1. CASE worker.pc = "send"
    <3>1. m = <<worker.job>>
      BY <1>1, <2>1
    <3>2. DOMAIN m = 1..1 /\ m[1] = worker.job /\ \A i \in 1..1 : i = 1
      BY <3>1
    <3>3. 1 \in 1..1
      OBVIOUS
    <3> QED
      BY <2>1, <3>2, <3>3 DEF ToSet
  <2>2. CASE worker.pc # "send"
    <3>1. DOMAIN m = {}
      BY <1>1, <2>2
    <3> QED
      BY <2>2, <3>1 DEF ToSet
  <2> QED
    BY <2>1, <2>2
<1> QED
  BY <1>3, <1>4, <1>7 DEF OnTheWay

\* A page that is away has one job on the way, with all its rows.
LEMMA OneJob ==
  ASSUME IInv, NEW i \in DOMAIN history, Away(history[i])
  PROVE  \E j \in Job : JobsOf(history[i]) = {j} /\ Len(j.rows) = history[i].lines
<1>1. Way \in Seq(Job) /\ JobsFit(Way, history, nextId, styles)
  BY WayType DEF Stored
<1>2. PICK m \in DOMAIN Way : Way[m].page = history[i].id
  BY <1>1 DEF JobsFit
<1>3. Way[m].gen = history[i].gen /\ Len(Way[m].rows) = history[i].lines
  BY <1>1, <1>2 DEF JobsFit, Carries
<1>4. \A l \in DOMAIN Way : Way[l].page = history[i].id => l = m
  BY <1>1, <1>2 DEF JobsFit
<1>5. OnTheWay = {Way[l] : l \in DOMAIN Way}
  BY WaySet DEF ToSet
<1>6. JobsOf(history[i]) = {Way[m]}
  BY <1>2, <1>3, <1>4, <1>5 DEF JobsOf
<1>7. Way[m] \in Job
  <2> HIDE DEF Job
  <2> QED
    BY <1>1, <1>2
<1> QED
  BY <1>3, <1>6, <1>7

\* The contents of a page are as many rows as it has lines.
LEMMA ContentsAre ==
  ASSUME IInv, NEW i \in DOMAIN history
  PROVE  Contents(history[i]) \in Seq(Row) /\ Len(Contents(history[i])) = history[i].lines
<1>1. PICK p : p = history[i]
  OBVIOUS
<1>2. p \in Page /\ PageOK(p, styles)
  <2>1. history \in Seq(Page)
    BY DEF IInv, TypeOK
  <2>2. p \in Page
    <3> HIDE DEF Page
    <3> QED
      BY <1>1, <2>1
  <2> QED
    BY <1>1, <2>2, WayType DEF Stored, PagesFit
<1>3. p.rows \in Seq(Row) /\ p.packed \in Seq(Row)
  BY <1>2 DEF Page
<1>4. CASE Hot(p) \/ Cold(p)
  BY <1>1, <1>2, <1>3, <1>4 DEF Contents, PageOK
<1>5. CASE ~(Hot(p) \/ Cold(p))
  <2>1. Away(p)
    BY <1>5 DEF Hot, Cold, Away
  <2>2. PICK j \in Job : JobsOf(p) = {j} /\ Len(j.rows) = p.lines
    BY <1>1, <2>1, OneJob
  <2>3. Contents(p) = j.rows
    BY <1>5, <2>2 DEF Contents
  <2>4. j.rows \in Seq(Row)
    BY DEF Job
  <2> QED
    BY <1>1, <2>2, <2>3, <2>4
<1> QED
  BY <1>4, <1>5

\* logical_rows is the number of rows that are stored.
LEMMA RowsCounted == ASSUME IInv PROVE logical = Len(Rows)
<1>1. PICK n, s : n = Len(history) /\ s = [i \in DOMAIN history |-> Contents(history[i])]
  OBVIOUS
<1>2. n \in Nat /\ DOMAIN history = 1..n
  <2>1. history \in Seq(Page)
    BY DEF IInv, TypeOK
  <2> HIDE DEF Page
  <2> QED
    BY <1>1, <2>1
<1>3. s \in [1..n -> Seq(Row)] /\ \A i \in 1..n : history[i].lines = Len(s[i])
  BY <1>1, <1>2, ContentsAre
<1>4. s \in Seq(Seq(Row)) /\ Len(s) = n
  <2> HIDE DEF Row
  <2> QED
    BY <1>2, <1>3
<1>5. PICK h : h = history
  OBVIOUS
<1>6. Measured(s, h, n)
  BY <1>3, <1>5 DEF Measured
<1>7. Len(FlattenSeq(s)) = LinesOf(h, n)
  BY <1>2, <1>4, <1>6, FlatIs
<1> QED
  BY <1>1, <1>5, <1>7 DEF Rows, IInv, LogicalOK

\* The invariant implies that the pages are sound.
LEMMA Sound == ASSUME IInv PROVE PagesAreSound
<1>1. EveryPageHasItsRows
  <2>1. ASSUME NEW i \in DOMAIN history
        PROVE  /\ (history[i].pending <=> Away(history[i]))
               /\ (Away(history[i]) => Cardinality(JobsOf(history[i])) = 1)
    <3>1. PageOK(history[i], styles)
      BY WayType DEF Stored, PagesFit
    <3>2. history[i].pending <=> Away(history[i])
      BY <3>1 DEF PageOK, Hot, Cold, Away
    <3>3. ASSUME Away(history[i]) PROVE Cardinality(JobsOf(history[i])) = 1
      <4>1. PICK j : JobsOf(history[i]) = {j}
        BY <3>3, OneJob
      <4> QED
        BY <4>1, FS_Singleton
    <3> QED
      BY <3>2, <3>3
  <2>2. \A i \in DOMAIN history : Len(Contents(history[i])) = history[i].lines
    BY ContentsAre
  <2>3. logical = Len(Rows)
    BY RowsCounted
  <2> QED
    BY <2>1, <2>2, <2>3 DEF EveryPageHasItsRows
<1>2. LimitHeld
  <2> SUFFICES ASSUME todo = <<>>, logical > limit
               PROVE  logical - limit < history[1].lines /\ (Away(history[1]) \/ Cold(history[1]))
    BY DEF LimitHeld
  <2>1. ~Within("enforce", todo) /\ ~Within("push", todo)
    BY Returned
  <2>2. logical - limit < history[1].lines /\ ~Hot(history[1])
    BY <2>1 DEF IInv, LimitOK
  <2> QED
    BY <2>2 DEF Hot, Away, Cold
<1>3. CursorCovers
  BY DEF CursorCovers, IInv, CursorOK, Sealed
<1> QED
  BY <1>1, <1>2, <1>3 DEF PagesAreSound, IInv

\* The pages are always sound, for every value of the constants: whatever the
\* worker and the owner do in between, every page has its rows exactly once
\* (ScrollbackStorage, run StoreSafety).
THEOREM AlwaysSound == Spec => []PagesAreSound
BY Invariant, Sound, PTL

------------------------------------------------------------------------------
(* The storage implements the row log (RowLog): what the pages hold,       *)
(* wherever the worker has them, laid one after the other, changes only by *)
(* the steps a log of rows may take.                                       *)

\* Parts laid one after the other.

\* F is the parts cs laid one after the other, as long as the pages of g.
FlatOf(F, cs, g, n) ==
  /\ Len(F) = LinesOf(g, n)
  /\ \A i \in 1..n : \A l \in 1..g[i].lines : F[LinesOf(g, i - 1) + l] = cs[i][l]

\* Every line of the pages is a line of one of them.
LEMMA PlaceOf ==
  ASSUME NEW g, NEW n \in Nat, Sized(g, n), NEW k \in 1..LinesOf(g, n)
  PROVE  \E i \in 1..n : \E l \in 1..g[i].lines : k = LinesOf(g, i - 1) + l
<1> DEFINE Over == {i \in 0..n : LinesOf(g, i) >= k}
<1>1. \A i \in 0..n : LinesOf(g, i) \in Nat
  BY LinesType
<1>2. n \in Over /\ Over \subseteq Nat
  BY <1>1
<1>3. PICK i \in Over : \A j \in Over : i <= j
  <2> HIDE DEF Over
  <2> QED
    BY <1>2, LeastNat
<1>4. i # 0
  BY <1>1, <1>3, LinesStep
<1>5. i \in 1..n /\ i - 1 \in 0..n /\ ~(LinesOf(g, i - 1) >= k)
  BY <1>3, <1>4
<1>6. LinesOf(g, i) = LinesOf(g, i - 1) + g[i].lines /\ g[i].lines \in Nat \ {0}
  BY <1>5, LinesStep DEF Sized
<1>7. LinesOf(g, i) >= k /\ LinesOf(g, i - 1) \in Nat
  BY <1>1, <1>3, <1>5
<1> DEFINE l == k - LinesOf(g, i - 1)
<1>8. l \in 1..g[i].lines /\ k = LinesOf(g, i - 1) + l
  BY <1>5, <1>6, <1>7
<1> QED
  BY <1>5, <1>8

\* Sequences that agree everywhere are equal.
LEMMA RowsEqual ==
  ASSUME NEW S, NEW F \in Seq(S), NEW G \in Seq(S), Len(F) = Len(G),
         \A k \in 1..Len(F) : F[k] = G[k]
  PROVE  F = G
OBVIOUS

\* The parts and the lengths say what the whole is.
LEMMA FlatUnique ==
  ASSUME NEW S, NEW F \in Seq(S), NEW G \in Seq(S), NEW cs, NEW g, NEW n \in Nat, Sized(g, n),
         FlatOf(F, cs, g, n), FlatOf(G, cs, g, n)
  PROVE  F = G
<1>1. Len(F) = Len(G) /\ Len(F) = LinesOf(g, n)
  BY DEF FlatOf
<1>2. ASSUME NEW k \in 1..Len(F) PROVE F[k] = G[k]
  <2>1. PICK i \in 1..n : \E l \in 1..g[i].lines : k = LinesOf(g, i - 1) + l
    BY <1>1, PlaceOf
  <2>2. PICK l \in 1..g[i].lines : k = LinesOf(g, i - 1) + l
    BY <2>1
  <2>3. F[k] = cs[i][l]
    BY <2>2 DEF FlatOf
  <2>4. G[k] = cs[i][l]
    BY <2>2 DEF FlatOf
  <2> QED
    BY <2>3, <2>4
<1> QED
  BY <1>1, <1>2, RowsEqual

\* One more part.
LEMMA FlatStep ==
  ASSUME NEW S, NEW a \in Seq(S), NEW b \in Seq(S), NEW cs, NEW g, NEW i \in Nat \ {0},
         FlatOf(a, cs, g, i - 1), b = cs[i], Len(b) = g[i].lines, Sized(g, i)
  PROVE  a \o b \in Seq(S) /\ FlatOf(a \o b, cs, g, i)
<1>1. PICK u : u = a \o b
  OBVIOUS
<1>2. /\ u \in Seq(S) /\ Len(u) = Len(a) + Len(b)
      /\ \A k \in 1..Len(a) : u[k] = a[k]
      /\ \A k \in 1..Len(b) : u[Len(a) + k] = b[k]
  BY <1>1, Joining
<1>3. Len(a) = LinesOf(g, i - 1) /\ LinesOf(g, i) = LinesOf(g, i - 1) + g[i].lines
  BY LinesStep DEF FlatOf
<1>4. ASSUME NEW j \in 1..i, NEW l \in 1..g[j].lines PROVE u[LinesOf(g, j - 1) + l] = cs[j][l]
  <2>1. CASE j = i
    BY <1>2, <1>3, <2>1
  <2>2. CASE j # i
    <3>1. j \in 1..(i - 1) /\ i - 1 \in Nat /\ j - 1 \in 0..i /\ j \in 0..i
      BY <2>2
    <3>2. a[LinesOf(g, j - 1) + l] = cs[j][l]
      BY <3>1 DEF FlatOf
    <3>3. /\ LinesOf(g, j) = LinesOf(g, j - 1) + g[j].lines /\ LinesOf(g, j - 1) \in Nat
          /\ g[j].lines \in Nat
      <4>1. j \in Nat \ {0} /\ g[j].lines \in Nat
        BY <3>1 DEF Sized
      <4>2. LinesOf(g, j) = LinesOf(g, j - 1) + g[j].lines
        BY <4>1, LinesStep
      <4>3. \A k \in 0..i : LinesOf(g, k) \in Nat
        BY LinesType
      <4> QED
        BY <3>1, <4>1, <4>2, <4>3
    <3>4. LinesOf(g, j) <= LinesOf(g, i - 1)
      <4>1. j = i - 1 \/ j < i - 1
        BY <3>1
      <4>2. j < i - 1 => LinesOf(g, j) < LinesOf(g, i - 1)
        BY <3>1, LinesGrow
      <4>3. LinesOf(g, j) \in Nat /\ LinesOf(g, i - 1) \in Nat
        BY <3>1, LinesType
      <4> QED
        BY <4>1, <4>2, <4>3, SMTT(30)
    <3>5. LinesOf(g, j - 1) + l \in 1..Len(a)
      <4>1. LinesOf(g, i - 1) \in Nat /\ LinesOf(g, j) \in Nat
        BY <3>1, LinesType
      <4> QED
        BY <1>3, <3>3, <3>4, <4>1, SMTT(30)
    <3> QED
      BY <1>2, <3>2, <3>5
  <2> QED
    BY <2>1, <2>2
<1>5. Len(u) = LinesOf(g, i)
  BY <1>2, <1>3
<1> QED
  BY <1>1, <1>2, <1>4, <1>5 DEF FlatOf

\* Laying parts one after the other gives their whole.
LEMMA FlatAt ==
  ASSUME NEW S, NEW s \in Seq(Seq(S)), NEW n \in Nat, Len(s) = n, NEW g, Measured(s, g, n),
         Sized(g, n)
  PROVE  FlattenSeq(s) \in Seq(S) /\ FlatOf(FlattenSeq(s), s, g, n)
<1>0. FlattenSeq(s) \in Seq(S) /\ Len(FlattenSeq(s)) = LinesOf(g, n)
  BY FlatIs
<1>1. CASE n = 0
  BY <1>0, <1>1 DEF FlatOf
<1>2. CASE n # 0
  <2>1. PICK f : FlattenSeq(s) = f[n] /\ \A i \in 1..n : f[i] = IF i = 1 THEN s[i] ELSE f[i - 1] \o s[i]
    BY <1>2, FlatSum
  <2> DEFINE Bad == {i \in 1..n : ~(f[i] \in Seq(S) /\ FlatOf(f[i], s, g, i))}
  <2>2. Bad = {}
    <3> SUFFICES ASSUME Bad # {} PROVE FALSE
      OBVIOUS
    <3>1. Bad \subseteq Nat
      OBVIOUS
    <3>2. PICK i \in Bad : \A l \in Bad : i <= l
      <4> HIDE DEF Bad
      <4> QED
        BY <3>1, LeastNat
    <3>3. i \in 1..n /\ i \in Nat \ {0} /\ ~(f[i] \in Seq(S) /\ FlatOf(f[i], s, g, i))
      BY <3>2
    <3>4. s[i] \in Seq(S) /\ g[i].lines = Len(s[i]) /\ Sized(g, i)
      BY <3>3 DEF Measured, Sized
    <3>6. CASE i = 1
      <4>1. f[i] = s[i]
        BY <2>1, <3>3, <3>6
      <4>2. LinesOf(g, 1) = g[1].lines /\ LinesOf(g, 0) = 0
        <5>1. /\ LinesOf(g, 0) = 0 /\ LinesOf(g, 1) = LinesOf(g, 1 - 1) + g[1].lines
              /\ g[1].lines \in Nat
          BY <3>4, <3>6, LinesStep
        <5> QED
          BY <5>1
      <4>3. FlatOf(f[i], s, g, i)
        <5>1. \A j \in 1..1 : j = 1 /\ j - 1 = 0
          OBVIOUS
        <5>2. \A l \in 1..g[1].lines : LinesOf(g, 0) + l = l
          BY <4>2
        <5> QED
          BY <3>4, <3>6, <4>1, <4>2, <5>1, <5>2 DEF FlatOf
      <4> QED
        BY <3>3, <3>4, <4>1, <4>3
    <3>7. CASE i # 1
      <4>1. i - 1 \in 1..n /\ ~(i <= i - 1)
        BY <3>3, <3>7
      <4>2. f[i - 1] \in Seq(S) /\ FlatOf(f[i - 1], s, g, i - 1)
        BY <3>2, <4>1
      <4>3. f[i] = f[i - 1] \o s[i]
        BY <2>1, <3>3, <3>7
      <4>4. f[i] \in Seq(S) /\ FlatOf(f[i], s, g, i)
        <5>1. PICK a, b : a = f[i - 1] /\ b = s[i]
          OBVIOUS
        <5>2. a \in Seq(S) /\ b \in Seq(S) /\ FlatOf(a, s, g, i - 1) /\ Len(b) = g[i].lines
          BY <3>4, <4>2, <5>1
        <5>3. a \o b \in Seq(S) /\ FlatOf(a \o b, s, g, i)
          BY <3>3, <3>4, <5>1, <5>2, FlatStep
        <5> QED
          BY <4>3, <5>1, <5>3
      <4> QED
        BY <3>3, <4>4
    <3> QED
      BY <3>6, <3>7
  <2>3. n \in 1..n /\ n \notin Bad
    BY <1>2, <2>2
  <2> QED
    BY <2>1, <2>3
<1> QED
  BY <1>1, <1>2

\* Where a line of a page is in the whole.
LEMMA InFlat ==
  ASSUME NEW g, NEW n \in Nat, Sized(g, n), NEW i \in 1..n, NEW l \in 1..g[i].lines
  PROVE  /\ LinesOf(g, i - 1) + l \in 1..LinesOf(g, n) /\ LinesOf(g, i - 1) \in Nat
         /\ LinesOf(g, i) \in Nat /\ LinesOf(g, n) \in Nat /\ LinesOf(g, i) <= LinesOf(g, n)
         /\ LinesOf(g, i) = LinesOf(g, i - 1) + g[i].lines /\ g[i].lines \in Nat /\ l \in Nat
<1>1. i \in Nat \ {0} /\ i \in 0..n /\ i - 1 \in 0..n /\ n \in 0..n /\ g[i].lines \in Nat \ {0}
  BY DEF Sized
<1>2. LinesOf(g, i) = LinesOf(g, i - 1) + g[i].lines
  BY <1>1, LinesStep
<1>3. \A k \in 0..n : LinesOf(g, k) \in Nat
  BY LinesType
<1>4. LinesOf(g, i) <= LinesOf(g, n)
  <2>1. i < n => LinesOf(g, i) < LinesOf(g, n)
    BY <1>1, LinesGrow
  <2>2. i = n \/ i < n
    BY <1>1
  <2>3. LinesOf(g, i) \in Nat /\ LinesOf(g, n) \in Nat
    BY <1>1, <1>3
  <2> QED
    BY <2>1, <2>2, <2>3
<1>5. LinesOf(g, i) \in Nat /\ LinesOf(g, i - 1) \in Nat /\ LinesOf(g, n) \in Nat
  BY <1>1, <1>3
<1> QED
  BY <1>1, <1>2, <1>4, <1>5

\* The last of n parts is one row longer.
Longer(s, t, h, g, n, x) ==
  /\ \A i \in 1..(n - 1) : t[i] = s[i] /\ g[i].lines = h[i].lines
  /\ g[n].lines = h[n].lines + 1
  /\ \A l \in 1..h[n].lines : t[n][l] = s[n][l]
  /\ t[n][h[n].lines + 1] = x

\* A row at the end of the last part is a row at the end of the whole.
LEMMA FlatLonger ==
  ASSUME NEW S, NEW F \in Seq(S), NEW s, NEW h, NEW n \in Nat \ {0}, Sized(h, n),
         FlatOf(F, s, h, n),
         NEW x \in S, NEW t, NEW g, Longer(s, t, h, g, n, x)
  PROVE  FlatOf(Append(F, x), t, g, n)
<1>1. PICK G : G = Append(F, x)
  OBVIOUS
<1>2. /\ Len(G) = Len(F) + 1 /\ \A k \in 1..Len(F) : G[k] = F[k]
      /\ G[Len(F) + 1] = x
  BY <1>1
<1>3. Len(F) = LinesOf(h, n) /\ h[n].lines \in Nat \ {0} /\ n \in 1..n
  BY DEF FlatOf, Sized
<1>4. ASSUME NEW i \in 1..n PROVE LinesOf(g, i - 1) = LinesOf(h, i - 1)
  <2>1. i - 1 \in Nat /\ \A k \in 1..(i - 1) : k \in 1..(n - 1)
    OBVIOUS
  <2>2. \A k \in 1..(i - 1) : g[k].lines = h[k].lines
    BY <2>1 DEF Longer
  <2> QED
    BY <2>1, <2>2, LinesSame
<1>5. LinesOf(h, n) = LinesOf(h, n - 1) + h[n].lines /\ LinesOf(h, n - 1) \in Nat
  <2>1. 1 \in 1..h[n].lines
    BY <1>3
  <2> QED
    BY <1>3, <2>1, InFlat
<1>6. LinesOf(g, n) = LinesOf(h, n) + 1
  <2>1. LinesOf(g, n) = LinesOf(g, n - 1) + g[n].lines
    BY LinesStep
  <2>2. LinesOf(g, n - 1) = LinesOf(h, n - 1) /\ g[n].lines = h[n].lines + 1
    BY <1>3, <1>4 DEF Longer
  <2> QED
    BY <1>3, <1>5, <2>1, <2>2
<1>7. ASSUME NEW i \in 1..n, NEW l \in 1..g[i].lines PROVE G[LinesOf(g, i - 1) + l] = t[i][l]
  <2>1. CASE l \in 1..h[i].lines
    <3>1. LinesOf(h, i - 1) + l \in 1..Len(F) /\ F[LinesOf(h, i - 1) + l] = s[i][l]
      BY <1>3, <2>1, InFlat DEF FlatOf
    <3>2. t[i][l] = s[i][l]
      <4>1. i = n \/ i \in 1..(n - 1)
        OBVIOUS
      <4> QED
        BY <2>1, <4>1 DEF Longer
    <3> QED
      BY <1>2, <1>4, <3>1, <3>2
  <2>2. CASE l \notin 1..h[i].lines
    <3>1. i = n \/ i \in 1..(n - 1)
      OBVIOUS
    <3>2. i = n
      BY <2>2, <3>1 DEF Longer
    <3>3. l = h[n].lines + 1
      <4>1. g[n].lines = h[n].lines + 1
        BY DEF Longer
      <4> QED
        BY <1>3, <2>2, <3>2, <4>1
    <3>4. LinesOf(g, n - 1) + l = Len(F) + 1
      BY <1>3, <1>4, <1>5, <3>3, SMTT(30)
    <3>5. t[n][l] = x
      BY <3>3 DEF Longer
    <3> QED
      BY <1>2, <3>2, <3>4, <3>5
  <2> QED
    BY <2>1, <2>2
<1> QED
  BY <1>1, <1>2, <1>3, <1>6, <1>7 DEF FlatOf

\* There is one part more, of one row.
Further(s, t, h, g, n, x) ==
  /\ \A i \in 1..n : t[i] = s[i] /\ g[i].lines = h[i].lines
  /\ g[n + 1].lines = 1 /\ t[n + 1][1] = x

\* A new last part of one row is a row at the end of the whole.
LEMMA FlatFurther ==
  ASSUME NEW S, NEW F \in Seq(S), NEW s, NEW h, NEW n \in Nat, Sized(h, n), FlatOf(F, s, h, n),
         NEW x \in S, NEW t, NEW g, Further(s, t, h, g, n, x)
  PROVE  FlatOf(Append(F, x), t, g, n + 1)
<1>1. PICK G : G = Append(F, x)
  OBVIOUS
<1>2. /\ Len(G) = Len(F) + 1 /\ \A k \in 1..Len(F) : G[k] = F[k]
      /\ G[Len(F) + 1] = x
  BY <1>1
<1>3. Len(F) = LinesOf(h, n) /\ g[n + 1].lines = 1
  BY DEF FlatOf, Further
<1>4. ASSUME NEW i \in 1..(n + 1) PROVE LinesOf(g, i - 1) = LinesOf(h, i - 1)
  <2>1. i - 1 \in Nat /\ \A k \in 1..(i - 1) : k \in 1..n
    OBVIOUS
  <2>2. \A k \in 1..(i - 1) : g[k].lines = h[k].lines
    BY <2>1 DEF Further
  <2> QED
    BY <2>1, <2>2, LinesSame
<1>5. LinesOf(h, n) \in Nat /\ LinesOf(g, n) = LinesOf(h, n)
  <2>1. n \in 0..n /\ n + 1 \in 1..(n + 1) /\ (n + 1) - 1 = n
    OBVIOUS
  <2>2. LinesOf(h, n) \in Nat
    BY <2>1, LinesType
  <2> QED
    BY <1>4, <2>1, <2>2
<1>6. LinesOf(g, n + 1) = LinesOf(h, n) + 1
  <2>1. n + 1 \in Nat /\ n + 1 # 0 /\ (n + 1) - 1 = n
    OBVIOUS
  <2>2. LinesOf(g, n + 1) = LinesOf(g, (n + 1) - 1) + g[n + 1].lines
    BY <2>1, LinesStep
  <2> QED
    BY <1>3, <1>5, <2>1, <2>2
<1>7. ASSUME NEW i \in 1..(n + 1), NEW l \in 1..g[i].lines PROVE G[LinesOf(g, i - 1) + l] = t[i][l]
  <2>1. CASE i \in 1..n
    <3>1. l \in 1..h[i].lines /\ t[i] = s[i]
      BY <2>1 DEF Further
    <3>2. LinesOf(h, i - 1) + l \in 1..Len(F) /\ F[LinesOf(h, i - 1) + l] = s[i][l]
      BY <1>3, <2>1, <3>1, InFlat DEF FlatOf
    <3> QED
      BY <1>2, <1>4, <3>1, <3>2
  <2>2. CASE i \notin 1..n
    <3>1. i = n + 1 /\ i - 1 = n
      BY <2>2
    <3>2. l = 1
      BY <1>3, <3>1
    <3>3. t[n + 1][1] = x
      BY DEF Further
    <3> QED
      BY <1>2, <1>3, <1>5, <3>1, <3>2, <3>3
  <2> QED
    BY <2>1, <2>2
<1> QED
  BY <1>1, <1>2, <1>3, <1>6, <1>7 DEF FlatOf

\* m parts are gone from the front, and d rows of the next one.
Dropped(s, t, h, g, m, n, d) ==
  /\ n = 0 => d = 0
  /\ n # 0 => d < h[m + 1].lines
  /\ \A l \in 1..g[1].lines : n # 0 => t[1][l] = s[m + 1][d + l]
  /\ \A i \in 2..n : \A l \in 1..g[i].lines : t[i][l] = s[m + i][l]

\* What goes from the front of the parts goes from the front of the whole.
LEMMA FlatDropped ==
  ASSUME NEW S, NEW F \in Seq(S), NEW s, NEW h, NEW m \in Nat, NEW n \in Nat, Sized(h, m + n),
         FlatOf(F, s, h, m + n), NEW d \in Nat, NEW t, NEW g, CutLines(h, g, m, n, d),
         Dropped(s, t, h, g, m, n, d), NEW b, b = LinesOf(h, m) + d
  PROVE  b \in 0..Len(F) /\ FlatOf(SubSeq(F, b + 1, Len(F)), t, g, n)
<1>1. Len(F) = LinesOf(h, m + n) /\ LinesOf(h, m) \in Nat /\ LinesOf(h, m + n) \in Nat
  <2>1. m \in 0..(m + n) /\ m + n \in 0..(m + n) /\ m + n \in Nat
    OBVIOUS
  <2> QED
    BY <2>1, LinesType DEF FlatOf
<1>2. ASSUME n # 0
      PROVE  /\ LinesOf(h, m + 1) = LinesOf(h, m) + h[m + 1].lines /\ LinesOf(h, m + 1) <= LinesOf(h, m + n)
             /\ h[m + 1].lines \in Nat /\ d < h[m + 1].lines
  <2>1. m + 1 \in 1..(m + n) /\ m + n \in Nat /\ (m + 1) - 1 = m
    BY <1>2
  <2>2. h[m + 1].lines \in Nat \ {0}
    BY <2>1 DEF Sized
  <2>3. 1 \in 1..h[m + 1].lines
    BY <2>2
  <2>4. /\ LinesOf(h, m + 1) = LinesOf(h, (m + 1) - 1) + h[m + 1].lines
        /\ LinesOf(h, m + 1) <= LinesOf(h, m + n)
    BY <2>1, <2>3, InFlat
  <2> QED
    BY <1>2, <2>1, <2>2, <2>4 DEF Dropped
<1>3. b \in Nat /\ b <= Len(F)
  <2>1. n = 0 => d = 0 /\ m + n = m
    BY DEF Dropped
  <2> QED
    BY <1>1, <1>2, <2>1, SMTT(30)
<1>4. PICK R : R = SubSeq(F, b + 1, Len(F))
  OBVIOUS
<1>5. Len(R) = Len(F) - b /\ \A k \in 1..(Len(F) - b) : R[k] = F[b + k]
  BY <1>3, <1>4, SMTT(30)
<1>6. \A k \in 1..n : LinesOf(g, k) = LinesOf(h, m + k) - b
  <2>1. \A k \in 1..n : LinesOf(g, k) = LinesOf(h, m + k) - LinesOf(h, m) - d
    BY LinesCut
  <2>2. \A k \in 1..n : m + k \in 0..(m + n)
    OBVIOUS
  <2>3. \A k \in 1..n : LinesOf(h, m + k) \in Nat
    <3>1. \A k \in 0..(m + n) : LinesOf(h, k) \in Nat
      BY LinesType
    <3> QED
      BY <2>2, <3>1
  <2> QED
    BY <1>1, <2>1, <2>3
<1>7. Len(R) = LinesOf(g, n)
  <2>1. CASE n = 0
    <3>1. LinesOf(g, 0) = 0 /\ d = 0 /\ m + n = m
      BY <2>1, LinesStep DEF Dropped
    <3> QED
      BY <1>1, <1>5, <2>1, <3>1
  <2>2. CASE n # 0
    <3>1. n \in 1..n
      BY <2>2
    <3> QED
      BY <1>1, <1>5, <1>6, <3>1
  <2> QED
    BY <2>1, <2>2
<1>8. ASSUME NEW i \in 1..n, NEW l \in 1..g[i].lines PROVE R[LinesOf(g, i - 1) + l] = t[i][l]
  <2>0. n # 0 /\ m + n \in Nat /\ m + i \in 1..(m + n)
    OBVIOUS
  <2>1. CASE i = 1
    <3>1. g[1].lines = h[m + 1].lines - d
      BY <2>0 DEF CutLines
    <3>2. d + l \in 1..h[m + 1].lines /\ l \in Nat
      BY <1>2, <2>0, <2>1, <3>1
    <3>3. /\ LinesOf(h, m) + (d + l) \in 1..LinesOf(h, m + n)
          /\ F[LinesOf(h, m) + (d + l)] = s[m + 1][d + l]
      <4>1. m + 1 \in 1..(m + n) /\ (m + 1) - 1 = m
        BY <2>0, <2>1
      <4>2. LinesOf(h, (m + 1) - 1) + (d + l) \in 1..LinesOf(h, m + n)
        BY <2>0, <3>2, <4>1, InFlat
      <4>3. F[LinesOf(h, (m + 1) - 1) + (d + l)] = s[m + 1][d + l]
        BY <3>2, <4>1 DEF FlatOf
      <4> QED
        BY <4>1, <4>2, <4>3
    <3>4. LinesOf(g, i - 1) = 0 /\ t[1][l] = s[m + 1][d + l]
      <4>1. t[1][l] = s[m + 1][d + l]
        BY <2>0, <2>1 DEF Dropped
      <4>2. i - 1 = 0
        BY <2>1
      <4> QED
        BY <4>1, <4>2, LinesStep
    <3>5. l \in 1..(Len(F) - b) /\ LinesOf(h, m) + (d + l) = b + l
      <4>1. PICK x, y, z : x = LinesOf(h, m) /\ y = LinesOf(h, m + n) /\ z = Len(F)
        OBVIOUS
      <4>2. x \in Nat /\ y \in Nat /\ z = y /\ l \in Nat /\ b = x + d
        BY <1>1, <3>2, <4>1
      <4>3. l >= 1 /\ x + (d + l) <= y
        BY <3>3, <4>1
      <4>4. l <= z - b /\ z - b \in Int /\ x + (d + l) = b + l
        BY <4>2, <4>3
      <4> QED
        BY <4>1, <4>2, <4>3, <4>4
    <3>6. R[l] = F[b + l] /\ 0 + l = l
      BY <1>5, <3>2, <3>5
    <3> QED
      BY <2>1, <3>3, <3>4, <3>5, <3>6
  <2>2. CASE i # 1
    <3>1. i \in 2..n /\ i - 1 \in 1..n /\ m + (i - 1) = (m + i) - 1
      BY <2>2
    <3>2. g[i].lines = h[m + i].lines /\ t[i][l] = s[m + i][l]
      BY <3>1 DEF CutLines, Dropped
    <3>3. /\ LinesOf(h, (m + i) - 1) + l \in 1..LinesOf(h, m + n)
          /\ LinesOf(h, (m + i) - 1) \in Nat /\ l \in Nat
      BY <2>0, <3>2, InFlat
    <3>4. F[LinesOf(h, (m + i) - 1) + l] = s[m + i][l]
      BY <2>0, <3>2 DEF FlatOf
    <3>5. LinesOf(g, i - 1) = LinesOf(h, (m + i) - 1) - b
      BY <1>6, <3>1
    <3>6. b + (LinesOf(g, i - 1) + l) = LinesOf(h, (m + i) - 1) + l
      BY <1>3, <3>3, <3>5, SMTT(30)
    <3>7. LinesOf(h, m) + d <= LinesOf(h, (m + i) - 1)
      <4>1. (m + i) - 1 = m + 1 \/ m + 1 < (m + i) - 1
        BY <3>1
      <4>2. m + 1 < (m + i) - 1 => LinesOf(h, m + 1) < LinesOf(h, (m + i) - 1)
        <5>1. m + 1 \in 0..(m + n) /\ (m + i) - 1 \in 0..(m + n)
          BY <2>0, <3>1
        <5> QED
          BY <2>0, <5>1, LinesGrow
      <4>3. PICK x, y : x = LinesOf(h, (m + i) - 1) /\ y = LinesOf(h, m + 1)
        OBVIOUS
      <4>4. x = y \/ y < x
        BY <4>1, <4>2, <4>3
      <4>5. /\ x \in Nat /\ y = LinesOf(h, m) + h[m + 1].lines /\ h[m + 1].lines \in Nat
            /\ d < h[m + 1].lines
        BY <1>2, <2>0, <3>3, <4>3
      <4>6. PICK z, e : z = LinesOf(h, m) /\ e = h[m + 1].lines
        OBVIOUS
      <4>7. z \in Nat /\ e \in Nat /\ y = z + e /\ d < e /\ x \in Nat
        BY <1>1, <4>5, <4>6
      <4>8. z + d <= x
        BY <4>4, <4>7
      <4> QED
        BY <4>3, <4>6, <4>8
    <3>8. LinesOf(g, i - 1) + l \in 1..(Len(F) - b)
      <4>1. PICK x, y : x = LinesOf(h, (m + i) - 1) /\ y = LinesOf(h, m + n)
        OBVIOUS
      <4>2. x + l \in 1..y /\ x \in Nat /\ l \in Nat /\ b <= x /\ Len(F) = y /\ y \in Nat
        BY <1>1, <3>3, <3>7, <4>1
      <4>3. l >= 1 /\ LinesOf(g, i - 1) = x - b
        BY <3>5, <4>1, <4>2
      <4> QED
        BY <1>3, <4>2, <4>3, SMTT(30)
    <3> QED
      BY <1>5, <3>2, <3>4, <3>6, <3>8
  <2> QED
    BY <2>1, <2>2
<1>9. FlatOf(R, t, g, n)
  BY <1>7, <1>8 DEF FlatOf
<1>10. b \in 0..Len(F)
  BY <1>1, <1>3
<1> QED
  BY <1>4, <1>9, <1>10

\* p parts are left, the last of them perhaps cut.
Shorter(s, t, h, g, p) ==
  /\ \A i \in 1..p : g[i].lines \in 1..h[i].lines /\ \A l \in 1..g[i].lines : t[i][l] = s[i][l]
  /\ \A i \in 1..(p - 1) : g[i].lines = h[i].lines

\* What goes from the end of the parts goes from the end of the whole.
LEMMA FlatShorter ==
  ASSUME NEW S, NEW F \in Seq(S), NEW s, NEW h, NEW n \in Nat, Sized(h, n), FlatOf(F, s, h, n),
         NEW p \in 0..n, NEW t, NEW g, Shorter(s, t, h, g, p), NEW k, k = LinesOf(g, p)
  PROVE  k \in 0..Len(F) /\ FlatOf(SubSeq(F, 1, k), t, g, p)
<1>1. Len(F) = LinesOf(h, n) /\ LinesOf(h, n) \in Nat
  <2>1. n \in 0..n
    OBVIOUS
  <2> QED
    BY <2>1, LinesType DEF FlatOf
<1>2. ASSUME NEW i \in 1..p PROVE LinesOf(g, i - 1) = LinesOf(h, i - 1)
  <2>1. i - 1 \in Nat /\ \A j \in 1..(i - 1) : j \in 1..(p - 1)
    OBVIOUS
  <2>2. \A j \in 1..(i - 1) : g[j].lines = h[j].lines
    BY <2>1 DEF Shorter
  <2> QED
    BY <2>1, <2>2, LinesSame
<1>3. ASSUME p # 0 PROVE /\ p \in 1..n /\ g[p].lines \in 1..h[p].lines
                         /\ LinesOf(g, p) = LinesOf(h, p - 1) + g[p].lines
  <2>1. p \in 1..n /\ p \in 1..p /\ p \in Nat
    BY <1>3
  <2>2. LinesOf(g, p) = LinesOf(g, p - 1) + g[p].lines
    BY <1>3, <2>1, LinesStep
  <2> QED
    BY <1>2, <2>1, <2>2 DEF Shorter
<1>4. k \in 0..Len(F)
  <2>1. CASE p = 0
    BY <1>1, <2>1, LinesStep
  <2>2. CASE p # 0
    <3>1. g[p].lines \in Nat /\ LinesOf(h, p - 1) + g[p].lines \in 1..LinesOf(h, n)
      BY <1>3, <2>2, InFlat
    <3> QED
      BY <1>1, <1>3, <2>2, <3>1
  <2> QED
    BY <2>1, <2>2
<1>5. PICK R : R = SubSeq(F, 1, k)
  OBVIOUS
<1>6. Len(R) = k /\ \A j \in 1..k : R[j] = F[j]
  BY <1>4, <1>5
<1>7. ASSUME NEW i \in 1..p, NEW l \in 1..g[i].lines PROVE R[LinesOf(g, i - 1) + l] = t[i][l]
  <2>1. i \in 1..n /\ p # 0 /\ p \in Nat
    OBVIOUS
  <2>2. l \in 1..h[i].lines /\ g[i].lines \in 1..h[i].lines /\ t[i][l] = s[i][l]
    <3>1. g[i].lines \in 1..h[i].lines /\ t[i][l] = s[i][l]
      BY DEF Shorter
    <3>2. h[i].lines \in Nat
      BY <2>1 DEF Sized
    <3> QED
      BY <3>1, <3>2
  <2>3. /\ LinesOf(h, i - 1) + l \in 1..LinesOf(h, n) /\ LinesOf(h, i - 1) \in Nat /\ l \in Nat
        /\ LinesOf(h, i) = LinesOf(h, i - 1) + h[i].lines
    BY <2>1, <2>2, InFlat
  <2>4. F[LinesOf(h, i - 1) + l] = s[i][l]
    BY <2>1, <2>2 DEF FlatOf
  <2>5. LinesOf(h, i - 1) + l <= k
    <3>1. CASE i = p
      BY <1>3, <2>1, <2>3, <3>1
    <3>2. CASE i # p
      <4>1. i <= p - 1 /\ p - 1 \in 0..n /\ i \in 0..n
        BY <2>1, <3>2
      <4>2. i < p - 1 => LinesOf(h, i) < LinesOf(h, p - 1)
        BY <4>1, LinesGrow
      <4>3. i = p - 1 \/ i < p - 1
        BY <4>1
      <4>4. LinesOf(h, p - 1) \in Nat /\ LinesOf(h, i) \in Nat
        BY <4>1, LinesType
      <4>5. k = LinesOf(h, p - 1) + g[p].lines /\ g[p].lines >= 1 /\ g[p].lines \in Nat
        <5>1. g[p].lines \in 1..h[p].lines /\ h[p].lines \in Nat
          BY <1>3, <2>1 DEF Sized
        <5> QED
          BY <1>3, <2>1, <5>1
      <4>6. PICK x, y, z : x = LinesOf(h, i - 1) /\ y = LinesOf(h, i) /\ z = LinesOf(h, p - 1)
        OBVIOUS
      <4>7. y <= z /\ y \in Nat /\ z \in Nat
        BY <4>2, <4>3, <4>4, <4>6
      <4>8. x + l <= y
        <5>1. h[i].lines \in Nat
          BY <2>1 DEF Sized
        <5> QED
          BY <2>2, <2>3, <4>6, <5>1
      <4>9. x \in Nat /\ l \in Nat
        BY <2>3, <4>6
      <4>10. k = z + g[p].lines /\ g[p].lines >= 1 /\ g[p].lines \in Nat
        BY <4>5, <4>6
      <4>11. x + l <= z + g[p].lines
        BY <4>7, <4>8, <4>9, <4>10
      <4> QED
        BY <4>6, <4>10, <4>11
    <3> QED
      BY <3>1, <3>2
  <2> QED
    BY <1>2, <1>6, <2>2, <2>3, <2>4, <2>5
<1> QED
  BY <1>4, <1>5, <1>6, <1>7 DEF FlatOf

\* The parts are those with their styles renumbered.
Renewed(s, t, h, g, n) ==
  \A i \in 1..n : /\ g[i].lines = h[i].lines /\ h[i].lines = Len(s[i])
                  /\ s[i] \in Seq(Row) /\ t[i] = Again(s[i])

\* Renumbering the styles in every part renumbers them in the whole.
LEMMA FlatAgain ==
  ASSUME NEW F \in Seq(Row), NEW s, NEW h, NEW n \in Nat, Sized(h, n), FlatOf(F, s, h, n),
         NEW t, NEW g, Renewed(s, t, h, g, n)
  PROVE  FlatOf(Again(F), t, g, n)
<1>1. PICK G : G = Again(F)
  OBVIOUS
<1>2. Len(G) = Len(F) /\ \A k \in 1..Len(F) : G[k] = [F[k] EXCEPT !.style = @ + 1]
  <2> HIDE DEF Row
  <2>1. Len(F) \in Nat /\ DOMAIN F = 1..Len(F)
    OBVIOUS
  <2>2. DOMAIN G = DOMAIN F /\ \A k \in DOMAIN F : G[k] = [F[k] EXCEPT !.style = @ + 1]
    BY <1>1 DEF Again
  <2>3. Len(G) = Len(F)
    BY <1>1, <2>1 DEF Again
  <2> QED
    BY <2>1, <2>2, <2>3
<1>3. Len(F) = LinesOf(h, n)
  BY DEF FlatOf
<1>4. ASSUME NEW i \in 0..n PROVE LinesOf(g, i) = LinesOf(h, i)
  <2>1. i \in Nat /\ \A k \in 1..i : g[k].lines = h[k].lines
    BY DEF Renewed
  <2> QED
    BY <2>1, LinesSame
<1>5. ASSUME NEW i \in 1..n, NEW l \in 1..g[i].lines PROVE G[LinesOf(g, i - 1) + l] = t[i][l]
  <2>1. l \in 1..h[i].lines /\ i - 1 \in 0..n
    BY DEF Renewed
  <2>2. LinesOf(h, i - 1) + l \in 1..Len(F) /\ F[LinesOf(h, i - 1) + l] = s[i][l]
    BY <1>3, <2>1, InFlat DEF FlatOf
  <2>3. t[i][l] = [s[i][l] EXCEPT !.style = @ + 1]
    <3>1. l \in DOMAIN s[i] /\ t[i] = Again(s[i])
      BY DEF Renewed
    <3> QED
      BY <3>1 DEF Again
  <2> QED
    BY <1>2, <1>4, <2>1, <2>2, <2>3
<1>6. n \in 0..n
  OBVIOUS
<1> QED
  BY <1>1, <1>2, <1>3, <1>4, <1>5, <1>6 DEF FlatOf

------------------------------------------------------------------------------
\* What the pages hold.

\* c is what the page p holds: its rows, its packed rows, or those of the job that has them.
Holds(c, p, w) ==
  /\ Hot(p) => c = p.rows
  /\ Cold(p) => c = p.packed
  /\ Away(p) => \E m \in DOMAIN w : w[m].page = p.id /\ c = w[m].rows

\* F is what the pages of h hold, laid one after the other: P is what each of them holds.
Laid(F, P, h, w) ==
  /\ h \in Seq(Page) /\ F \in Seq(Row) /\ P \in Seq(Seq(Row)) /\ Len(P) = Len(h)
  /\ \A i \in 1..Len(h) : h[i].lines = Len(P[i]) /\ Holds(P[i], h[i], w)
  /\ FlatOf(F, P, h, Len(h))

\* What each page holds.
Parts == [i \in DOMAIN history |-> Contents(history[i])]

\* Rows is what the pages hold.
RowsLaid == Laid(Rows, Parts, history, Way)

\* Contents is what a page holds.
LEMMA HoldsIs ==
  ASSUME IInv, NEW i \in DOMAIN history PROVE Holds(Contents(history[i]), history[i], Way)
<1>1. CASE Hot(history[i]) \/ Cold(history[i])
  BY <1>1 DEF Holds, Contents, Hot, Cold, Away
<1>2. CASE ~(Hot(history[i]) \/ Cold(history[i]))
  <2>1. Away(history[i])
    BY <1>2 DEF Hot, Cold, Away
  <2>2. PICK j \in Job : JobsOf(history[i]) = {j}
    BY <2>1, OneJob
  <2>3. Contents(history[i]) = j.rows
    BY <1>2, <2>2 DEF Contents
  <2>4. j \in ToSet(Way) /\ j.page = history[i].id
    BY <2>2, WaySet DEF JobsOf
  <2>5. PICK m \in DOMAIN Way : j = Way[m]
    BY <2>4 DEF ToSet
  <2> QED
    BY <1>2, <2>3, <2>4, <2>5 DEF Holds
<1> QED
  BY <1>1, <1>2

\* Under the invariant, Rows is what the pages hold.
LEMMA Lays == IInv => RowsLaid
<1> SUFFICES ASSUME IInv PROVE RowsLaid
  OBVIOUS
<1>1. PICK n, s, h : n = Len(history) /\ s = Parts /\ h = history
  OBVIOUS
<1>2. n \in Nat /\ DOMAIN history = 1..n /\ history \in Seq(Page) /\ PageLines \in Nat
  <2>1. history \in Seq(Page)
    BY DEF IInv, TypeOK
  <2> HIDE DEF Page
  <2> QED
    BY <1>1, <2>1, StorageAssumption
<1>3. s \in [1..n -> Seq(Row)] /\ \A i \in 1..n : history[i].lines = Len(s[i])
  BY <1>1, <1>2, ContentsAre DEF Parts
<1>4. s \in Seq(Seq(Row)) /\ Len(s) = n
  <2> HIDE DEF Row
  <2> QED
    BY <1>2, <1>3
<1>5. Measured(s, h, n) /\ Sized(h, n)
  <2>1. Sized(h, n)
    BY <1>1, <1>2, PagesSized
  <2> QED
    BY <1>1, <1>3, <2>1 DEF Measured
<1>6. FlattenSeq(s) \in Seq(Row) /\ FlatOf(FlattenSeq(s), s, h, n)
  BY <1>2, <1>4, <1>5, FlatAt
<1>7. Rows = FlattenSeq(s)
  BY <1>1 DEF Rows, Parts
<1>8. \A i \in 1..n : Holds(s[i], history[i], Way)
  BY <1>1, <1>2, HoldsIs DEF Parts
<1> QED
  BY <1>1, <1>2, <1>3, <1>4, <1>6, <1>7, <1>8 DEF RowsLaid, Laid

\* So it is after a step.
LEMMA LaysNext == IInv' => RowsLaid'
BY Lays, PTL

\* Pages that are laid out have lengths.
LEMMA LaidSized ==
  ASSUME NEW F, NEW P, NEW h, NEW w, Laid(F, P, h, w)
  PROVE  Len(h) \in Nat /\ Sized(h, Len(h)) /\ DOMAIN h = 1..Len(h)
<1>1. h \in Seq(Page) /\ PageLines \in Nat
  BY StorageAssumption DEF Laid
<1>2. Sized(h, Len(h))
  BY <1>1, PagesSized
<1> HIDE DEF Page
<1> QED
  BY <1>1, <1>2

\* A whole is that of any parts and pages that are alike.
LEMMA FlatLike ==
  ASSUME NEW G, NEW Q, NEW g, NEW P, NEW h, NEW n \in Nat, FlatOf(G, Q, g, n),
         \A i \in 1..n : Q[i] = P[i] /\ g[i].lines = h[i].lines
  PROVE  FlatOf(G, P, h, n)
<1>1. ASSUME NEW i \in 0..n PROVE LinesOf(g, i) = LinesOf(h, i)
  <2>1. i \in Nat /\ \A k \in 1..i : g[k].lines = h[k].lines
    OBVIOUS
  <2> QED
    BY <2>1, LinesSame
<1>2. n \in 0..n /\ \A i \in 1..n : i - 1 \in 0..n
  OBVIOUS
<1> QED
  BY <1>1, <1>2 DEF FlatOf

\* Pages that hold the same parts hold the same rows.
LEMMA SameRows ==
  ASSUME NEW F, NEW P, NEW h, NEW w, Laid(F, P, h, w), NEW G, NEW Q, NEW g, NEW v, Laid(G, Q, g, v),
         Len(g) = Len(h), \A i \in 1..Len(h) : Q[i] = P[i]
  PROVE  G = F
<1>1. PICK n \in Nat : n = Len(h) /\ Sized(h, n)
  BY LaidSized
<1>2. \A i \in 1..n : Q[i] = P[i] /\ g[i].lines = h[i].lines
  BY <1>1 DEF Laid
<1>3. FlatOf(F, P, h, n) /\ FlatOf(G, Q, g, n) /\ F \in Seq(Row) /\ G \in Seq(Row)
  BY <1>1 DEF Laid
<1>4. FlatOf(G, P, h, n)
  BY <1>2, <1>3, FlatLike
<1> QED
  BY <1>1, <1>3, <1>4, FlatUnique

\* A page holds one thing.
LEMMA HoldsOne ==
  ASSUME NEW h, NEW w, NEW n, NEW s, JobsFit(w, h, n, s), NEW i \in DOMAIN h,
         NEW c, NEW d, Holds(c, h[i], w), Holds(d, h[i], w)
  PROVE  c = d
<1>1. CASE Hot(h[i])
  BY <1>1 DEF Holds
<1>2. CASE Cold(h[i])
  BY <1>2 DEF Holds
<1>3. CASE Away(h[i])
  <2>1. PICK m \in DOMAIN w : w[m].page = h[i].id /\ c = w[m].rows
    BY <1>3 DEF Holds
  <2>2. PICK l \in DOMAIN w : w[l].page = h[i].id /\ d = w[l].rows
    BY <1>3 DEF Holds
  <2>3. m = l
    BY <2>1, <2>2 DEF JobsFit
  <2> QED
    BY <2>1, <2>2, <2>3
<1> QED
  BY <1>1, <1>2, <1>3 DEF Hot, Cold, Away

\* The same pages with the same jobs hold the same rows.
LEMMA HeldSame ==
  ASSUME NEW F, NEW P, NEW h, NEW w, Laid(F, P, h, w), NEW G, NEW Q, Laid(G, Q, h, w),
         NEW n, NEW s, JobsFit(w, h, n, s)
  PROVE  G = F
<1>1. ASSUME NEW i \in 1..Len(h) PROVE Q[i] = P[i]
  <2>1. i \in DOMAIN h
    BY LaidSized
  <2>2. Holds(P[i], h[i], w) /\ Holds(Q[i], h[i], w)
    BY DEF Laid
  <2> QED
    BY <2>1, <2>2, HoldsOne
<1> QED
  BY <1>1, SameRows

\* A completion that lands leaves the rows as they were.
LEMMA HeldLanded ==
  ASSUME NEW F, NEW P, NEW h, NEW w \in Seq(Job), Laid(F, P, h, w), w # <<>>,
         NEW c, NEW n \in Nat \ {0}, NEW s, Stored(h, w, c, n, s),
         NEW G, NEW Q, NEW g, g = LandedAll(h, Head(w)), NEW v, v = Tail(w), Laid(G, Q, g, v)
  PROVE  G = F
<1>1. h \in Seq(Page) /\ DOMAIN h = 1..Len(h) /\ DOMAIN g = DOMAIN h /\ Len(g) = Len(h)
  <2>1. /\ h \in Seq(Page) /\ DOMAIN h = 1..Len(h) /\ DOMAIN g = 1..Len(g) /\ Len(g) \in Nat
        /\ Len(h) \in Nat
    BY LaidSized DEF Laid
  <2>2. DOMAIN g = DOMAIN h
    BY DEF LandedAll
  <2> QED
    BY <2>1, <2>2
<1>2. /\ \A m \in DOMAIN v : m + 1 \in DOMAIN w /\ v[m] = w[m + 1]
      /\ 1 \in DOMAIN w /\ Head(w) = w[1] /\ Head(w) \in Job
  <2> HIDE DEF Job
  <2> QED
    OBVIOUS
<1>3. ASSUME NEW i \in 1..Len(h) PROVE Q[i] = P[i]
  <2>1. i \in DOMAIN h /\ g[i] = Landed(h[i], Head(w)) /\ JobsFit(w, h, n, s)
    BY <1>1 DEF LandedAll, Stored
  <2>2. Holds(P[i], h[i], w) /\ Holds(Q[i], g[i], v)
    BY <1>1 DEF Laid
  <2>3. CASE g[i] = h[i]
    <3>1. Holds(Q[i], h[i], w)
      <4>1. ASSUME Away(h[i]) PROVE \E m \in DOMAIN w : w[m].page = h[i].id /\ Q[i] = w[m].rows
        <5>1. PICK m \in DOMAIN v : v[m].page = h[i].id /\ Q[i] = v[m].rows
          BY <2>2, <2>3, <4>1 DEF Holds
        <5> QED
          BY <1>2, <5>1
      <4> QED
        BY <2>2, <2>3, <4>1 DEF Holds
    <3> QED
      BY <2>1, <2>2, <3>1, HoldsOne
  <2>4. CASE /\ h[i].id = Head(w).page /\ Away(h[i])
             /\ Len(Head(w).rows) = h[i].lines /\ Coded(Head(w).rows, s)
             /\ Landed(h[i], Head(w)) = Filled(h[i], Head(w).rows)
    <3>1. h[i] \in Page /\ PageOK(h[i], s)
      <4>1. PageOK(h[i], s)
        BY <2>1 DEF Stored, PagesFit
      <4> HIDE DEF Page
      <4> QED
        BY <1>1, <2>1, <4>1
    <3>2. Cold(g[i]) /\ g[i].packed = Head(w).rows
      <4>1. g[i] = Filled(h[i], Head(w).rows)
        BY <2>1, <2>4
      <4>2. Away(h[i]) /\ Len(Head(w).rows) = h[i].lines /\ Coded(Head(w).rows, s)
        BY <2>4
      <4> QED
        BY <1>2, <3>1, <4>1, <4>2, LandedPage
    <3>3. Q[i] = Head(w).rows
      BY <2>2, <3>2 DEF Holds
    <3>4. Holds(Q[i], h[i], w)
      BY <1>2, <2>4, <3>3 DEF Holds, Hot, Cold, Away
    <3> QED
      BY <2>1, <2>2, <3>4, HoldsOne
  <2>5. \/ h[i].id # Head(w).page /\ Landed(h[i], Head(w)) = h[i]
        \/ /\ h[i].id = Head(w).page /\ Away(h[i])
           /\ Len(Head(w).rows) = h[i].lines /\ Coded(Head(w).rows, s)
           /\ Landed(h[i], Head(w)) = Filled(h[i], Head(w).rows)
    BY <1>1, <2>1, LandedCases
  <2> QED
    BY <2>1, <2>3, <2>4, <2>5
<1> QED
  BY <1>1, <1>3, SameRows

\* A page sent to the worker leaves the rows as they were.
LEMMA HeldSent ==
  ASSUME NEW F, NEW P, NEW h, NEW w, Laid(F, P, h, w), NEW c, NEW n, NEW s, Stored(h, w, c, n, s),
         NEW G, NEW Q, NEW g, NEW v, Laid(G, Q, g, v), NEW d, Stored(g, v, d, n, s),
         NEW k \in DOMAIN h, Leaves(h, g, k), OneMore(w, v, h[k])
  PROVE  G = F
<1>1. /\ DOMAIN h = 1..Len(h) /\ DOMAIN g = 1..Len(g) /\ Len(g) \in Nat /\ Len(h) \in Nat
      /\ DOMAIN g = DOMAIN h
  BY LaidSized DEF Leaves
<1>2. Len(g) = Len(h)
  <2>1. PICK a \in Nat, b \in Nat : a = Len(g) /\ b = Len(h) /\ 1..a = 1..b
    BY <1>1
  <2>2. a = b
    BY <2>1
  <2> QED
    BY <2>1, <2>2
<1>3. PICK l \in Nat : /\ DOMAIN w = 1..l /\ DOMAIN v = 1..(l + 1) /\ \A m \in 1..l : v[m] = w[m]
                       /\ v[l + 1].page = h[k].id /\ v[l + 1].rows = h[k].rows
  BY DEF OneMore
<1>4. l + 1 \in DOMAIN v /\ \A m \in DOMAIN v : m = l + 1 \/ m \in 1..l
  BY <1>3
<1>5. JobsFit(w, h, n, s) /\ JobsFit(v, g, n, s) /\ PagesFit(h, n, s)
  BY DEF Stored
<1>6. ASSUME NEW i \in 1..Len(h) PROVE Q[i] = P[i]
  <2>1. i \in DOMAIN h /\ Holds(P[i], h[i], w) /\ Holds(Q[i], g[i], v)
    BY <1>1, <1>2 DEF Laid
  <2>2. CASE i = k
    <3>1. PICK m \in DOMAIN v : v[m].page = g[k].id /\ Q[k] = v[m].rows
      BY <2>1, <2>2 DEF Holds, Leaves
    <3>2. g[k].id = h[k].id /\ Hot(h[k])
      BY DEF Leaves
    <3>3. m = l + 1
      BY <1>3, <1>4, <1>5, <3>1, <3>2 DEF JobsFit
    <3>4. P[k] = h[k].rows
      BY <2>1, <2>2, <3>2 DEF Holds
    <3> QED
      BY <1>3, <2>2, <3>1, <3>3, <3>4
  <2>3. CASE i # k
    <3>1. g[i] = h[i] /\ h[i].id # h[k].id
      <4>1. g[i] = h[i]
        BY <2>1, <2>3 DEF Leaves
      <4>2. i < k \/ k < i
        BY <1>1, <2>3
      <4>3. \A a, b \in DOMAIN h : a < b => h[a].id < h[b].id
        BY <1>5 DEF PagesFit
      <4>4. h[i].id \in Int /\ h[k].id \in Int
        BY <1>5, <2>1 DEF PagesFit
      <4> QED
        BY <2>1, <4>1, <4>2, <4>3, <4>4
    <3>2. Holds(Q[i], h[i], w)
      <4>1. ASSUME Away(h[i]) PROVE \E m \in DOMAIN w : w[m].page = h[i].id /\ Q[i] = w[m].rows
        <5>1. PICK m \in DOMAIN v : v[m].page = h[i].id /\ Q[i] = v[m].rows
          BY <2>1, <3>1, <4>1 DEF Holds
        <5>2. m \in 1..l
          BY <1>3, <1>4, <3>1, <5>1
        <5> QED
          BY <1>3, <5>1, <5>2
      <4> QED
        BY <2>1, <3>1, <4>1 DEF Holds
    <3> QED
      BY <1>5, <2>1, <3>2, HoldsOne
  <2> QED
    BY <2>2, <2>3
<1> QED
  BY <1>2, <1>6, SameRows

------------------------------------------------------------------------------
\* Steps that leave the rows alone, and reads.

\* A step that leaves the rows and the limit, and at most forgets the answer.
StillStep == Rows' = Rows /\ limit' = limit /\ answer' \in {answer, <<>>}

\* A change of the row log, or none.
LogStep == Log!Change \/ StillStep

\* The rows are rows, as many as logical says.
LEMMA RowsType == ASSUME IInv PROVE Rows \in Seq(Row) /\ Len(Rows) \in Nat /\ logical = Len(Rows)
<1>1. Rows \in Seq(Row)
  BY Lays DEF RowsLaid, Laid
<1>2. Len(Rows) \in Nat
  <2>1. PICK F : F = Rows
    OBVIOUS
  <2>2. F \in Seq(Row)
    BY <1>1, <2>1
  <2>3. Len(F) \in Nat
    <3> HIDE DEF Row
    <3> QED
      BY <2>2
  <2> QED
    BY <2>1, <2>3
<1> QED
  BY <1>1, <1>2, RowsCounted

\* The rows depend on the pages and the jobs alone.
LEMMA RowsKept ==
  ASSUME IInv, IInv', history' = history, Way' = Way PROVE Rows' = Rows
<1>1. Laid(Rows, Parts, history, Way)
  BY Lays DEF RowsLaid
<1>2. Laid(Rows', Parts', history', Way')
  BY LaysNext DEF RowsLaid
<1>3. JobsFit(Way, history, nextId, styles)
  BY WayType DEF Stored
<1>4. PICK F, P, G, Q, h, w : F = Rows /\ P = Parts /\ G = Rows' /\ Q = Parts' /\ h = history /\ w = Way
  OBVIOUS
<1>5. Laid(F, P, h, w) /\ Laid(G, Q, h, w) /\ JobsFit(w, h, nextId, styles)
  BY <1>1, <1>2, <1>3, <1>4
<1>6. G = F
  BY <1>5, HeldSame
<1> QED
  BY <1>4, <1>6

\* apply_completion changes no row.
LEMMA RowsLanded ==
  ASSUME IInv, IInv', ApplyCompletion PROVE Rows' = Rows
<1>1. /\ completions \in Seq(Job) /\ jobs \in Seq(Job) /\ nextId \in Nat \ {0}
  BY DEF IInv, TypeOK
<1>2. /\ completions # <<>>
      /\ history' = [i \in DOMAIN history |-> Landed(history[i], Head(completions))]
      /\ completions' = Tail(completions)
      /\ UNCHANGED <<jobs, worker>>
  BY DEF ApplyCompletion, Quietly
<1>3. PICK m : m = (IF worker.pc = "send" THEN <<worker.job>> ELSE <<>>) /\ m \in Seq(Job)
  BY HeldType
<1>4. /\ Way = (completions \o m) \o jobs /\ Way' = (Tail(completions) \o m) \o jobs
  BY <1>2, <1>3 DEF Way
<1>5. Way \in Seq(Job) /\ Way # <<>> /\ Head(Way) = Head(completions) /\ Way' = Tail(Way)
  <2>1. Way = Line(completions, m, jobs) /\ Way' = Line(Tail(completions), m, jobs)
    BY <1>4 DEF Line
  <2>2. completions \in Seq(Job) /\ jobs \in Seq(Job) /\ m \in Seq(Job) /\ completions # <<>>
    BY <1>1, <1>2, <1>3
  <2> QED
    BY <2>1, <2>2, LandingWay
<1>6. Laid(Rows, Parts, history, Way)
  BY Lays DEF RowsLaid
<1>7. Laid(Rows', Parts', history', Way')
  BY LaysNext DEF RowsLaid
<1>8. PICK F, P, G, Q, h, w, g, v :
        F = Rows /\ P = Parts /\ G = Rows' /\ Q = Parts' /\ h = history /\ w = Way /\ g = history' /\ v = Way'
  OBVIOUS
<1>9. g = LandedAll(h, Head(w))
  BY <1>2, <1>5, <1>8 DEF LandedAll
<1>10. /\ w \in Seq(Job) /\ w # <<>> /\ v = Tail(w) /\ Laid(F, P, h, w) /\ Laid(G, Q, g, v)
       /\ Stored(h, w, cache, nextId, styles)
  BY <1>5, <1>6, <1>7, <1>8, WayType
<1>11. G = F
  BY <1>1, <1>9, <1>10, HeldLanded, ZenonT(30)
<1> QED
  BY <1>8, <1>11

\* Enqueueing a page changes no row.
LEMMA RowsSent ==
  ASSUME IInv, IInv', Found # {}, Enqueued(Min(Found)),
         UNCHANGED <<completions, worker, pending, cache, nextId, styles>>
  PROVE  Rows' = Rows
<1>0. PICK i : i = Min(Found)
  OBVIOUS
<1>1. /\ i \in 0..(Len(history) - 2) /\ Eligible(history[i + 1])
  BY <1>0, FirstFound
<1>2. /\ Hot(history[i + 1]) /\ Enqueued(i) /\ i \in 0..(Len(history) - 1)
      /\ i + 1 \in DOMAIN history
      /\ Len(history) \in Nat
  BY <1>0, <1>1, OverLimit DEF Eligible
<1>3. /\ history' \in Seq(Page) /\ Len(history') = Len(history)
      /\ \A l \in DOMAIN history : /\ l # i + 1 => history'[l] = history[l]
      /\ Away(history'[i + 1])
  BY <1>2, QueuedWay
<1> DEFINE k == i + 1
           p == history[k]
           j == [page |-> p.id, gen |-> p.gen, rows |-> p.rows]
<1>4. /\ completions \in Seq(Job) /\ jobs \in Seq(Job) /\ p \in Page /\ history \in Seq(Page)
  <2>1. /\ completions \in Seq(Job) /\ jobs \in Seq(Job) /\ history \in Seq(Page)
    BY DEF IInv, TypeOK
  <2> HIDE DEF Page
  <2> QED
    BY <1>2, <2>1
<1>5. /\ jobs' = Append(jobs, j)
      /\ history' = [history EXCEPT ![k].kind = "none", ![k].rows = <<>>, ![k].pending = TRUE]
  BY <1>2 DEF Enqueued
<1>6. j \in Job /\ j.page = p.id /\ j.gen = p.gen /\ j.rows = p.rows
  BY <1>4 DEF Page, Job
<1>7. PICK q : q = Sent(p)
  OBVIOUS
<1>8. history' = [history EXCEPT ![k] = q]
  <2> HIDE DEF Page
  <2> QED
    BY <1>2, <1>4, <1>5, <1>7 DEF Sent
<1>9. q.id = p.id /\ q.gen = p.gen /\ q.lines = p.lines
  <2>1. PageOK(p, styles)
    BY <1>2, WayType DEF Stored, PagesFit
  <2> QED
    BY <1>2, <1>4, <1>7, <2>1, SentPage
<1>10. DOMAIN history' = DOMAIN history /\ history'[k] = q
  <2> HIDE DEF Page, k, p
  <2> QED
    BY <1>2, <1>8 DEF k
<1> HIDE DEF j
<1>11. PICK m : m = (IF worker.pc = "send" THEN <<worker.job>> ELSE <<>>) /\ m \in Seq(Job)
  BY HeldType
<1>12. Way = (completions \o m) \o jobs /\ Way' = (completions \o m) \o Append(jobs, j)
  BY <1>5, <1>11 DEF Way
<1>13. /\ Way \in Seq(Job) /\ Way' \in Seq(Job) /\ Len(Way') = Len(Way) + 1
       /\ Way'[Len(Way) + 1] = j
       /\ \A l \in 1..Len(Way) : Way'[l] = Way[l]
  <2>1. Way = Line(completions, m, jobs) /\ Way' = Line(completions, m, Append(jobs, j))
    BY <1>12 DEF Line
  <2>2. completions \in Seq(Job) /\ jobs \in Seq(Job) /\ m \in Seq(Job) /\ j \in Job
    BY <1>4, <1>6, <1>11
  <2> QED
    BY <2>1, <2>2, QueueingWay
<1>14. Laid(Rows, Parts, history, Way)
  BY Lays DEF RowsLaid
<1>15. Laid(Rows', Parts', history', Way')
  BY LaysNext DEF RowsLaid
<1>16. Stored(history, Way, cache, nextId, styles) /\ Stored(history', Way', cache', nextId, styles)
  <2>1. StoredOK'
    BY DEF IInv
  <2> QED
    BY <2>1, WayType DEF StoredOK
<1>17. PICK F, P, G, Q, h, w, g, v :
         F = Rows /\ P = Parts /\ G = Rows' /\ Q = Parts' /\ h = history /\ w = Way /\ g = history' /\ v = Way'
  OBVIOUS
<1>18. Leaves(h, g, k)
  BY <1>2, <1>3, <1>9, <1>10, <1>17 DEF Leaves
<1>19. OneMore(w, v, h[k])
  <2>1. /\ Len(w) \in Nat /\ DOMAIN w = 1..Len(w) /\ DOMAIN v = 1..(Len(w) + 1)
        /\ \A l \in 1..Len(w) : v[l] = w[l]
    BY <1>13, <1>17
  <2>2. /\ v[Len(w) + 1].page = h[k].id /\ v[Len(w) + 1].gen = h[k].gen
        /\ v[Len(w) + 1].rows = h[k].rows
    BY <1>6, <1>13, <1>17
  <2> QED
    BY <2>1, <2>2 DEF OneMore
<1>20. /\ Laid(F, P, h, w) /\ Laid(G, Q, g, v) /\ k \in DOMAIN h
       /\ Stored(h, w, cache, nextId, styles) /\ Stored(g, v, cache', nextId, styles)
  BY <1>2, <1>14, <1>15, <1>16, <1>17
<1>21. G = F
  <2> HIDE DEF k, p
  <2> QED
    BY <1>18, <1>19, <1>20, HeldSent
<1> QED
  BY <1>17, <1>21

\* A step of the compression worker is none of the row log.
LEMMA WorkerLogs == ASSUME IInv, IInv', Worker PROVE StillStep
<1>1. history' = history /\ limit' = limit /\ answer' = answer
  BY DEF Worker, WorkerTake, WorkerSend, WorkerCount, WorkerExit, owner
<1>2. Way' = Way
  BY TakeWay, SendWay, CountWay DEF Worker
<1> QED
  BY <1>1, <1>2, RowsKept DEF StillStep

\* Nor is a step of the scan for pages to compress.
LEMMA ScanLogs == ASSUME IInv, IInv', Scan PROVE StillStep
<1>1. /\ UNCHANGED <<nextId, cache, limit, answer, styles, completions, pending, worker>>
      /\ \/ Found = {} /\ Scanned
         \/ Found # {} /\ Enqueued(Min(Found))
         \/ Found # {} /\ Refused(Min(Found))
  BY ScanSplit
<1>2. CASE Scanned \/ Refused(Min(Found))
  <2>1. UNCHANGED <<history, jobs>>
    BY <1>2 DEF Scanned, Refused
  <2>2. Way' = Way
    BY <1>1, <2>1 DEF Way
  <2> QED
    BY <1>1, <2>1, <2>2, RowsKept DEF StillStep
<1>3. CASE Found # {} /\ Enqueued(Min(Found))
  <2>1. Rows' = Rows
    BY <1>1, <1>3, RowsSent
  <2> QED
    BY <1>1, <2>1 DEF StillStep
<1> QED
  BY <1>1, <1>2, <1>3

\* Nor is a completion that lands.
LEMMA LandLogs == ASSUME IInv, IInv', ApplyCompletion PROVE StillStep
<1>1. limit' = limit /\ answer' = answer
  BY DEF ApplyCompletion, Quietly
<1>2. Rows' = Rows
  BY RowsLanded
<1> QED
  BY <1>1, <1>2 DEF StillStep

\* Nor is a step that leaves the pages and the jobs alone.
LEMMA StillLogs ==
  ASSUME IInv, IInv', UNCHANGED <<history, jobs, completions, worker, limit>>,
         answer' \in {answer, <<>>}
  PROVE  StillStep
<1>1. Way' = Way
  BY DEF Way
<1> QED
  BY <1>1, RowsKept DEF StillStep

\* Nor is waiting for the worker, stopping it or joining it.
LEMMA WaitLogs ==
  ASSUME IInv, IInv', Apply \/ WaitForJobs \/ Quiesce \/ QuiesceRecv \/ Join
  PROVE  StillStep
<1>1. ApplyCompletion \/ UNCHANGED <<history, jobs, completions, worker, limit, answer>>
  BY DEF Apply, WaitForJobs, Quiesce, QuiesceRecv, Join, Quietly, Local
<1> QED
  BY <1>1, LandLogs, StillLogs

\* Nor is a call that has only planned its steps.
LEMMA PlanLogs ==
  ASSUME IInv, IInv', NEW n, Feed(n) \/ Shrink(n) \/ CompactStyles(n) \/ DropStorage
  PROVE  StillStep
<1>1. UNCHANGED <<history, jobs, completions, worker, limit>> /\ answer' = <<>>
  BY DEF Feed, Shrink, CompactStyles, DropStorage, Call, Local
<1> QED
  BY <1>1, StillLogs

\* Clearing the storage drops every row.
LEMMA ClearLogs == ASSUME IInv, IInv', NEW n, Clear(n) PROVE LogStep
<1>1. history' = <<>> /\ limit' = limit /\ answer' = <<>>
  BY DEF Clear, Call
<1>2. Laid(Rows', Parts', history', Way')
  BY LaysNext DEF RowsLaid
<1>3. PICK G, Q, g, v : G = Rows' /\ Q = Parts' /\ g = history' /\ v = Way'
  OBVIOUS
<1>4. Laid(G, Q, g, v) /\ Len(g) = 0
  BY <1>1, <1>2, <1>3
<1>5. G \in Seq(Row) /\ Len(G) = LinesOf(g, 0)
  BY <1>4 DEF Laid, FlatOf
<1>6. LinesOf(g, 0) = 0
  BY LinesStep
<1>7. G = <<>>
  <2> HIDE DEF Row
  <2> QED
    BY <1>5, <1>6
<1>8. Log!Empty
  BY <1>1, <1>3, <1>7 DEF Log!Empty, Log!Same, Log!Silent
<1> QED
  BY <1>8 DEF LogStep, Log!Change

\* The read itself is the last step of its plan.
LEMMA ReadFirst ==
  ASSUME IInv, todo # <<>>, Head(todo) = "read" PROVE Within("read", todo) /\ Tail(todo) = <<>>
<1>1. Within("read", todo)
  <2>1. 1 \in DOMAIN todo /\ todo[1] = "read"
    BY DEF IInv, TypeOK
  <2> QED
    BY <2>1 DEF Within
<1>2. todo \in ReadTails
  BY <1>1 DEF IInv, TodoOK, ReadOK
<1> QED
  BY <1>1, <1>2, ReadTail

\* A read reaches a line of a page whose rows are not with the worker.
LEMMA Reading ==
  ASSUME IInv, todo # <<>>, Head(todo) = "read"
  PROVE  /\ arg[1] \in DOMAIN history /\ arg[2] \in 1..history[arg[1]].lines /\ ~Away(history[arg[1]])
         /\ PagesFit(history, nextId, styles) /\ CacheFits(cache, history, nextId)
         /\ nextId \in Nat /\ DOMAIN history \subseteq Int
<1>1. Within("read", todo)
  BY ReadFirst
<1>2. arg[1] \in DOMAIN history /\ arg[2] \in 1..history[arg[1]].lines /\ ~Away(history[arg[1]])
  BY <1>1 DEF IInv, TodoOK, ReadOK
<1>3. nextId \in Nat
  BY DEF IInv, TypeOK
<1> QED
  BY <1>2, <1>3, WayType, OverLimit DEF Stored

\* A read answers the row that is at the place it asked for.
LEMMA ReadLogs == ASSUME IInv, IInv', ReadLine PROVE Asked # 0 /\ Log!Read
<1>1. PICK p, cached : p = history[arg[1]] /\ cached = Cached(p)
  OBVIOUS
<1>2. /\ todo # <<>> /\ Head(todo) = "read"
      /\ answer' = (IF Hot(p) THEN <<p.rows[arg[2]]>> ELSE IF Cold(p) THEN <<cached.rows[arg[2]]>> ELSE <<NoRow>>)
      /\ UNCHANGED <<history, limit, jobs, completions, worker>>
  BY <1>1 DEF ReadLine, At, Local
<1>4. PICK k, l : k = arg[1] /\ l = arg[2]
  OBVIOUS
<1>5. k \in DOMAIN history /\ p = history[k] /\ l \in 1..p.lines /\ ~Away(p)
  BY <1>1, <1>2, <1>4, Reading
<1>6. Cold(p) => cached.rows = p.packed
  <2>1. ASSUME Cold(p) PROVE cached.rows = p.packed
    <3>1. cached = IF cache.page = p.id /\ cache.gen = p.gen THEN cache ELSE [page |-> p.id, gen |-> p.gen, rows |-> p.packed]
      BY <1>1 DEF Cached
    <3>2. /\ PagesFit(history, nextId, styles) /\ CacheFits(cache, history, nextId)
          /\ nextId \in Nat /\ DOMAIN history \subseteq Int
      BY <1>2, Reading
    <3> QED
      BY <1>5, <2>1, <3>1, <3>2, CacheOfPage
  <2> QED
    BY <2>1
<1>7. Laid(Rows, Parts, history, Way)
  BY Lays DEF RowsLaid
<1>8. PICK F, P, h, w : F = Rows /\ P = Parts /\ h = history /\ w = Way
  OBVIOUS
<1>9. Laid(F, P, h, w) /\ Len(h) \in Nat /\ Sized(h, Len(h)) /\ DOMAIN h = 1..Len(h)
  BY <1>7, <1>8, LaidSized
<1>10. k \in 1..Len(h) /\ l \in 1..h[k].lines /\ p = h[k]
  BY <1>5, <1>8, <1>9
<1>11. answer' = <<P[k][l]>>
  <2>1. Holds(P[k], p, w)
    BY <1>9, <1>10 DEF Laid
  <2>2. Hot(p) \/ (Cold(p) /\ ~Hot(p))
    BY <1>5 DEF Hot, Cold, Away
  <2>3. CASE Hot(p)
    BY <1>2, <1>4, <2>1, <2>3 DEF Holds
  <2>4. CASE Cold(p) /\ ~Hot(p)
    BY <1>2, <1>4, <1>6, <2>1, <2>4 DEF Holds
  <2> QED
    BY <2>2, <2>3, <2>4
<1>12. PICK x : x = LinesOf(h, k - 1) + l
  OBVIOUS
<1>13. x \in 1..LinesOf(h, Len(h)) /\ F[x] = P[k][l]
  BY <1>9, <1>10, <1>12, InFlat DEF Laid, FlatOf
<1>14. Asked = x
  <2>1. LinesBefore(k - 1) = LinesOf(h, k - 1)
    BY <1>8, LinesBeforeIs
  <2>2. Within("read", todo)
    BY <1>2, ReadFirst
  <2> QED
    BY <1>4, <1>12, <2>1, <2>2 DEF Asked, Within
<1>15. Rows' = Rows
  <2>1. Way' = Way
    BY <1>2 DEF Way
  <2> QED
    BY <1>2, <2>1, RowsKept
<1>16. Asked' = 0
  <2>1. todo' = Tail(todo)
    BY DEF ReadLine, Done
  <2>2. Tail(todo) = <<>>
    BY <1>2, ReadFirst
  <2> QED
    BY <2>1, <2>2 DEF Asked
<1>17. x # 0
  BY <1>13
<1> QED
  BY <1>2, <1>8, <1>11, <1>13, <1>14, <1>15, <1>16, <1>17 DEF Log!Read

------------------------------------------------------------------------------
\* Rows that are added.

\* The last page has the row x more.
BackLonger(h, g, n, x) ==
  /\ \A i \in 1..(n - 1) : g[i] = h[i]
  /\ Hot(h[n]) /\ Hot(g[n]) /\ g[n].rows = Append(h[n].rows, x)

\* Pages whose last one has a row more hold that row after all others.
LEMMA HeldLonger ==
  ASSUME NEW F, NEW P, NEW h, NEW w, Laid(F, P, h, w), NEW G, NEW Q, NEW g, Laid(G, Q, g, w),
         NEW id, NEW s, JobsFit(w, h, id, s), NEW n \in Nat, n # 0, Len(h) = n, Len(g) = n, NEW x \in Row,
         BackLonger(h, g, n, x)
  PROVE  G = Append(F, x)
<1>0. /\ \A i \in 1..(n - 1) : g[i] = h[i]
      /\ Hot(h[n]) /\ Hot(g[n]) /\ g[n].rows = Append(h[n].rows, x)
  BY DEF BackLonger
<1>1. /\ DOMAIN h = 1..n /\ Sized(h, n) /\ Sized(g, n) /\ F \in Seq(Row) /\ G \in Seq(Row)
      /\ FlatOf(F, P, h, n) /\ FlatOf(G, Q, g, n)
  <2>1. DOMAIN h = 1..n /\ Sized(h, n)
    BY LaidSized
  <2>2. Sized(g, n)
    BY LaidSized
  <2> QED
    BY <2>1, <2>2 DEF Laid
<1>2. /\ \A i \in 1..n : Holds(P[i], h[i], w) /\ Holds(Q[i], g[i], w) /\ h[i].lines = Len(P[i]) /\ g[i].lines = Len(Q[i])
      /\ \A i \in 1..n : P[i] \in Seq(Row)
  <2>1. P \in Seq(Seq(Row)) /\ Len(P) = n
    BY DEF Laid
  <2>2. \A i \in 1..n : P[i] \in Seq(Row)
    <3> HIDE DEF Row
    <3> QED
      BY <2>1
  <2> QED
    BY <2>2 DEF Laid
<1>3. Longer(P, Q, h, g, n, x)
  <2>1. ASSUME NEW i \in 1..(n - 1) PROVE Q[i] = P[i] /\ g[i].lines = h[i].lines
    <3>1. i \in 1..n /\ i \in DOMAIN h /\ g[i] = h[i]
      BY <1>0, <1>1, <2>1
    <3> QED
      BY <1>2, <3>1, HoldsOne
  <2>2. n \in 1..n
    OBVIOUS
  <2>3. P[n] = h[n].rows /\ Q[n] = Append(h[n].rows, x)
    BY <1>0, <1>2, <2>2 DEF Holds
  <2>4. PICK a : a = P[n] /\ a \in Seq(Row)
    BY <1>2, <2>2
  <2>5. Len(Append(a, x)) = Len(a) + 1 /\ Append(a, x)[Len(a) + 1] = x /\ \A l \in 1..Len(a) : Append(a, x)[l] = a[l]
    <3> HIDE DEF Row
    <3> QED
      BY <2>4
  <2>6. Q[n] = Append(a, x) /\ h[n].lines = Len(a) /\ g[n].lines = Len(a) + 1
    BY <1>2, <2>2, <2>3, <2>4, <2>5
  <2> QED
    BY <2>1, <2>4, <2>5, <2>6 DEF Longer
<1>4. FlatOf(Append(F, x), Q, g, n)
  BY <1>1, <1>3, FlatLonger
<1>5. Append(F, x) \in Seq(Row)
  <2> HIDE DEF Row
  <2> QED
    BY <1>1
<1>6. PICK H : H = Append(F, x)
  OBVIOUS
<1>7. H \in Seq(Row) /\ FlatOf(H, Q, g, n)
  BY <1>4, <1>5, <1>6
<1> QED
  BY <1>1, <1>6, <1>7, FlatUnique

\* So do pages with a new last page of one row.
LEMMA HeldFurther ==
  ASSUME NEW F, NEW P, NEW h, NEW w, Laid(F, P, h, w), NEW G, NEW Q, NEW g, Laid(G, Q, g, w),
         NEW id, NEW s, JobsFit(w, h, id, s), NEW n \in Nat, n = Len(h), Len(g) = n + 1, NEW x \in Row,
         \A i \in 1..n : g[i] = h[i], Hot(g[n + 1]), g[n + 1].rows = <<x>>
  PROVE  G = Append(F, x)
<1>1. /\ DOMAIN h = 1..n /\ Sized(h, n) /\ Sized(g, n + 1) /\ F \in Seq(Row) /\ G \in Seq(Row)
      /\ FlatOf(F, P, h, n) /\ FlatOf(G, Q, g, n + 1) /\ n + 1 \in Nat
  <2>1. DOMAIN h = 1..n /\ Sized(h, n)
    BY LaidSized
  <2>2. Sized(g, n + 1)
    BY LaidSized
  <2> QED
    BY <2>1, <2>2 DEF Laid
<1>2. /\ \A i \in 1..n : Holds(P[i], h[i], w)
      /\ \A i \in 1..(n + 1) : Holds(Q[i], g[i], w) /\ g[i].lines = Len(Q[i])
  BY DEF Laid
<1>3. Further(P, Q, h, g, n, x)
  <2>1. ASSUME NEW i \in 1..n PROVE Q[i] = P[i] /\ g[i].lines = h[i].lines
    <3>1. i \in 1..(n + 1) /\ i \in DOMAIN h /\ g[i] = h[i]
      BY <1>1, <2>1
    <3> QED
      BY <1>2, <3>1, HoldsOne
  <2>2. n + 1 \in 1..(n + 1)
    OBVIOUS
  <2>3. Q[n + 1] = <<x>> /\ g[n + 1].lines = Len(Q[n + 1])
    BY <1>2, <2>2 DEF Holds
  <2>4. g[n + 1].lines = 1 /\ Q[n + 1][1] = x
    BY <2>3
  <2> QED
    BY <2>1, <2>4 DEF Further
<1>4. FlatOf(Append(F, x), Q, g, n + 1)
  BY <1>1, <1>3, FlatFurther
<1>5. Append(F, x) \in Seq(Row)
  <2> HIDE DEF Row
  <2> QED
    BY <1>1
<1>6. PICK H : H = Append(F, x)
  OBVIOUS
<1>7. H \in Seq(Row) /\ FlatOf(H, Q, g, n + 1)
  BY <1>4, <1>5, <1>6
<1> QED
  BY <1>1, <1>6, <1>7, FlatUnique

\* A row after all others is a step of the row log.
LEMMA Added ==
  ASSUME IInv, NEW x \in Row, Rows' = Append(Rows, x), limit' = limit,
         answer' = answer PROVE LogStep
<1>1. PICK F, G : F = Rows /\ G = Rows'
  OBVIOUS
<1>2. F \in Seq(Row) /\ G = Append(F, x)
  BY <1>1, RowsType
<1>3. G # <<>> /\ G[Len(G)] = x
  <2> HIDE DEF Row
  <2> QED
    BY <1>2
<1>4. Rows' # <<>> /\ Log!Grow
  BY <1>1, <1>2, <1>3 DEF Log!Grow, Log!Same, Log!Silent
<1> QED
  BY <1>4 DEF LogStep, Log!Change

\* Extending the last page, or starting a page, appends the row to the log.
LEMMA AddLogs ==
  ASSUME IInv, IInv', NewRow \in Row, limit' = limit, answer' = answer,
         UNCHANGED <<jobs, completions, worker>>,
         NEW w \in Widths, NEW gen \in Nat, NEW kind \in {"flat", "segmented"},
         \/ /\ history # <<>> /\ Hot(Back) /\ Back.lines < PageLines
            /\ history' = [history EXCEPT ![Len(history)] = Extended(@)]
         \/ history' = Append(history, FreshPage(w, gen, kind))
  PROVE  LogStep
<1>1. Laid(Rows, Parts, history, Way)
  BY Lays DEF RowsLaid
<1>2. Laid(Rows', Parts', history', Way) /\ JobsFit(Way, history, nextId, styles)
  <2>1. Laid(Rows', Parts', history', Way')
    BY LaysNext DEF RowsLaid
  <2>2. Way' = Way
    BY DEF Way
  <2> QED
    BY <2>1, <2>2, WayType DEF Stored
<1>3. PICK F, P, G, Q, h, v, g, x :
        F = Rows /\ P = Parts /\ G = Rows' /\ Q = Parts' /\ h = history /\ v = Way /\ g = history' /\ x = NewRow
  OBVIOUS
<1>4. /\ Laid(F, P, h, v) /\ Laid(G, Q, g, v) /\ JobsFit(v, h, nextId, styles) /\ x \in Row
      /\ h \in Seq(Page)
  BY <1>1, <1>2, <1>3 DEF Laid
<1>5. PICK n \in Nat : n = Len(h) /\ DOMAIN h = 1..n
  BY <1>4, LaidSized
<1>6. G = Append(F, x)
  <2>1. CASE /\ history # <<>> /\ Hot(Back) /\ Back.lines < PageLines
             /\ history' = [history EXCEPT ![Len(history)] = Extended(@)]
    <3>1. /\ Len(g) = n /\ n \in Nat \ {0} /\ \A i \in 1..(n - 1) : g[i] = h[i]
      BY <1>3, <1>5, <2>1, GrownBack
    <3>2. Hot(h[n]) /\ n \in DOMAIN h /\ g = [h EXCEPT ![n] = Extended(@)]
      BY <1>3, <1>5, <2>1, <3>1 DEF Back
    <3>3. PICK p : p = h[n] /\ p \in Page
      <4> HIDE DEF Page
      <4> QED
        BY <1>4, <3>2
    <3>4. g[n] = Extended(p)
      BY <3>2, <3>3
    <3>5. Extended(p).rows = Append(p.rows, x) /\ Extended(p).kind = p.kind
      BY <1>3, <3>3 DEF Extended, Page
    <3>6. Hot(g[n]) /\ g[n].rows = Append(h[n].rows, x)
      BY <3>2, <3>3, <3>4, <3>5 DEF Hot
    <3> QED
      <4>1. Len(h) = n /\ Len(g) = n /\ n \in Nat /\ n # 0
        BY <1>5, <3>1
      <4>2. BackLonger(h, g, n, x)
        BY <3>1, <3>2, <3>6 DEF BackLonger
      <4>3. Laid(F, P, h, v) /\ Laid(G, Q, g, v) /\ JobsFit(v, h, nextId, styles) /\ x \in Row
        BY <1>4
      <4> QED
        BY <4>1, <4>2, <4>3, HeldLonger
  <2>2. CASE history' = Append(history, FreshPage(w, gen, kind))
    <3>1. Len(g) = n + 1 /\ \A i \in 1..n : g[i] = h[i]
      BY <1>3, <1>5, <2>2, NewBack
    <3>2. PICK q : q = FreshPage(w, gen, kind)
      OBVIOUS
    <3>3. g[n + 1] = q
      <4>1. g = Append(h, q)
        BY <1>3, <2>2, <3>2
      <4> HIDE DEF Page
      <4> QED
        BY <1>4, <1>5, <4>1
    <3>4. q.rows = <<x>> /\ q.kind = kind
      BY <1>3, <3>2 DEF FreshPage
    <3>5. Hot(g[n + 1]) /\ g[n + 1].rows = <<x>>
      BY <3>3, <3>4 DEF Hot
    <3> QED
      BY <1>4, <1>5, <3>1, <3>5, HeldFurther
  <2> QED
    BY <2>1, <2>2
<1>7. Rows' = Append(Rows, x)
  BY <1>3, <1>6
<1> QED
  BY <1>4, <1>7, Added

\* ingest_row appends a row to the log.
LEMMA IngestLogs ==
  ASSUME IInv, IInv', NEW w \in Widths, NEW gen \in Generations, IngestRow(w, gen)
  PROVE  LogStep
<1>1. /\ todo # <<>> /\ Head(todo) = "ingest" /\ limit' = limit /\ answer' = answer
      /\ UNCHANGED <<jobs, completions, worker>>
      /\ \/ /\ history # <<>> /\ Back.kind = "segmented" /\ Back.lines < PageLines
            /\ history' = [history EXCEPT ![Len(history)] = Extended(@)]
         \/ history' = Append(history, FreshPage(w, gen, "segmented"))
  BY DEF IngestRow, At, Local
<1>2. NewRow \in Row /\ gen \in Nat
  BY <1>1, NewRowOK, StorageAssumption DEF Adds
<1>3. Back.kind = "segmented" => Hot(Back)
  BY DEF Hot
<1>4. PICK kind \in {"flat", "segmented"} : kind = "segmented"
  OBVIOUS
<1> QED
  BY <1>1, <1>2, <1>3, <1>4, AddLogs

\* push_line appends a row to the log.
LEMMA PushLogs == ASSUME IInv, IInv', NEW w \in Widths, PushLine(w) PROVE LogStep
<1>1. /\ todo # <<>> /\ Head(todo) = "push" /\ limit' = limit /\ answer' = answer
      /\ UNCHANGED <<jobs, completions, worker>>
      /\ \/ /\ history # <<>> /\ Back.kind = "flat" /\ Back.lines < PageLines
            /\ history' = [history EXCEPT ![Len(history)] = Extended(@)]
         \/ history' = Append(history, FreshPage(w, 0, "flat"))
  BY DEF PushLine, At, Local
<1>2. NewRow \in Row
  BY <1>1, NewRowOK DEF Adds
<1>3. Back.kind = "flat" => Hot(Back)
  BY DEF Hot
<1>4. PICK kind \in {"flat", "segmented"}, gen \in Nat : kind = "flat" /\ gen = 0
  OBVIOUS
<1> QED
  BY <1>1, <1>2, <1>3, <1>4, AddLogs

------------------------------------------------------------------------------
\* Eviction.

\* What the trimmed page in front holds is what it held without the lines that went.
LEMMA TrimmedHolds ==
  ASSUME NEW p \in Page, NEW c \in Seq(Row), p.lines = Len(c), ~Away(p), Hot(p) => c = p.rows,
         Cold(p) => c = p.packed,
         NEW k \in Nat, 0 < k, k < p.lines, NEW q, q = Trimmed(p, k)
  PROVE  /\ Hot(q) /\ q.lines = p.lines - k /\ \A l \in 1..q.lines : q.rows[l] = c[k + l]
<1>1. PICK r : r = (IF Hot(p) THEN p.rows ELSE p.packed)
  OBVIOUS
<1>2. r = c
  BY <1>1 DEF Hot, Cold, Away
<1>3. /\ q.kind = (IF Hot(p) THEN p.kind ELSE "flat") /\ q.rows = SubSeq(r, k + 1, p.lines)
      /\ q.lines = p.lines - k
  BY <1>1 DEF Trimmed, Page
<1>4. Hot(q)
  BY <1>3 DEF Hot
<1>5. \A l \in 1..(Len(c) - k) : SubSeq(c, k + 1, Len(c))[l] = c[k + l]
  <2> HIDE DEF Row
  <2> QED
    OBVIOUS
<1> QED
  BY <1>2, <1>3, <1>4, <1>5

\* What the first page is after an eviction that trims it.
LEMMA FrontTrimmed ==
  ASSUME NEW h \in Seq(Page), NEW m \in Nat, NEW l \in Nat, NEW part \in Nat,
         FrontFits(h, m, l, part), part > 0,
         NEW g, g = CutFront(h, m, part)
  PROVE  g[1] = Trimmed(h[m + 1], part)
<1>0. m + l = Len(h) /\ l > 0
  BY DEF FrontFits
<1>1. PICK kept : kept = SubSeq(h, m + 1, Len(h))
  OBVIOUS
<1>2. kept \in Seq(Page) /\ Len(kept) = l /\ \A i \in 1..l : kept[i] = h[m + i]
  <2> HIDE DEF Page
  <2> QED
    BY <1>0, <1>1
<1>3. 1 \in 1..l /\ kept[1] = h[m + 1] /\ 1 \in DOMAIN kept
  <2> HIDE DEF Page
  <2> QED
    BY <1>0, <1>2
<1>4. PICK q : q = Trimmed(h[m + 1], part)
  OBVIOUS
<1>5. g = [kept EXCEPT ![1] = q]
  BY <1>1, <1>3, <1>4 DEF CutFront
<1> QED
  BY <1>3, <1>4, <1>5

\* What the pages hold after an eviction.
LEMMA HeldFront ==
  ASSUME NEW F, NEW P, NEW h, NEW w, Laid(F, P, h, w), NEW G, NEW Q, NEW g, Laid(G, Q, g, w),
         NEW id, NEW s, JobsFit(w, h, id, s), AllOK(h, s), NEW m \in Nat, NEW l \in Nat, NEW part \in Nat,
         FrontFits(h, m, l, part), g = CutFront(h, m, part)
  PROVE  CutLines(h, g, m, l, part) /\ Dropped(P, Q, h, g, m, l, part) /\ Len(g) = l
<1>1. /\ h \in Seq(Page) /\ DOMAIN h = 1..Len(h) /\ Sized(h, m + l) /\ m + l = Len(h)
      /\ PageLines \in Nat
      /\ (part > 0 => l > 0 /\ part < h[m + 1].lines /\ ~Away(h[m + 1]))
  <2>1. DOMAIN h = 1..Len(h) /\ Sized(h, Len(h))
    BY LaidSized
  <2> QED
    BY <2>1, StorageAssumption DEF Laid, FrontFits
<1>2. g \in Seq(Page) /\ Len(g) = l /\ FrontIs(h, g, m, l, part, s)
  BY <1>1, FrontPages
<1>3. /\ \A i \in 2..l : g[i] = h[m + i]
      /\ part = 0 => \A i \in 1..l : g[i] = h[m + i]
      /\ part > 0 => g[1].lines = h[m + 1].lines - part
  BY <1>2 DEF FrontIs
<1>4. /\ \A i \in 1..(m + l) : Holds(P[i], h[i], w) /\ h[i].lines = Len(P[i]) /\ h[i].lines \in Nat \ {0}
      /\ \A i \in 1..l : Holds(Q[i], g[i], w) /\ g[i].lines = Len(Q[i])
  BY <1>1, <1>2 DEF Laid, Sized
<1>5. ASSUME NEW i \in 1..l, g[i] = h[m + i] PROVE Q[i] = P[m + i] /\ g[i].lines = h[m + i].lines
  <2>1. m + i \in 1..(m + l) /\ m + i \in DOMAIN h
    BY <1>1
  <2> QED
    BY <1>4, <1>5, <2>1, HoldsOne
<1>6. ASSUME part > 0 PROVE \A k \in 1..g[1].lines : Q[1][k] = P[m + 1][part + k]
  <2>1. m + 1 \in 1..(m + l) /\ 1 \in 1..l
    BY <1>1, <1>6
  <2>2. PICK p \in Page : p = h[m + 1]
    <3> HIDE DEF Page
    <3> QED
      BY <1>1, <2>1
  <2>3. PICK c \in Seq(Row) : c = P[m + 1]
    <3>1. P \in Seq(Seq(Row)) /\ Len(P) = m + l
      BY <1>1 DEF Laid
    <3> HIDE DEF Row
    <3> QED
      BY <2>1, <3>1
  <2>4. PICK q : q = Trimmed(p, part)
    OBVIOUS
  <2>5. g[1] = q
    BY <1>1, <1>6, <2>2, <2>4, FrontTrimmed
  <2>6. p.lines = Len(c) /\ ~Away(p) /\ part < p.lines /\ (Hot(p) => c = p.rows) /\ (Cold(p) => c = p.packed)
    <3>1. Holds(c, p, w) /\ p.lines = Len(c)
      BY <1>4, <2>1, <2>2, <2>3
    <3> QED
      BY <1>1, <1>6, <2>2, <3>1 DEF Holds
  <2>7. Hot(q) /\ \A k \in 1..q.lines : q.rows[k] = c[part + k]
    BY <1>6, <2>4, <2>6, TrimmedHolds
  <2>8. Q[1] = q.rows
    BY <1>4, <2>1, <2>5, <2>7 DEF Holds
  <2> QED
    BY <2>3, <2>5, <2>7, <2>8
<1>7. CutLines(h, g, m, l, part)
  <2>1. ASSUME l # 0 PROVE g[1].lines = h[m + 1].lines - part
    <3>1. 1 \in 1..l /\ m + 1 \in 1..(m + l)
      BY <2>1
    <3>2. CASE part = 0
      <4>1. g[1].lines = h[m + 1].lines /\ h[m + 1].lines \in Nat
        BY <1>3, <1>4, <3>1, <3>2
      <4> QED
        BY <3>2, <4>1
    <3>3. CASE part > 0
      BY <1>3, <3>3
    <3> QED
      BY <3>2, <3>3
  <2>2. \A i \in 2..l : i \in 1..l
    OBVIOUS
  <2> QED
    BY <1>3, <1>5, <2>1, <2>2 DEF CutLines
<1>8. Dropped(P, Q, h, g, m, l, part)
  <2>1. l = 0 => part = 0
    BY <1>1
  <2>2. ASSUME l # 0 PROVE part < h[m + 1].lines
    <3>1. m + 1 \in 1..(m + l)
      BY <2>2
    <3> QED
      BY <1>1, <1>4, <3>1
  <2>3. ASSUME l # 0, NEW k \in 1..g[1].lines PROVE Q[1][k] = P[m + 1][part + k]
    <3>1. CASE part > 0
      BY <1>6, <3>1
    <3>2. CASE part = 0
      <4>1. 1 \in 1..l
        BY <2>3
      <4>2. Q[1] = P[m + 1]
        BY <1>3, <1>5, <3>2, <4>1
      <4>3. part + k = k
        BY <3>2
      <4> QED
        BY <4>2, <4>3
    <3> QED
      BY <3>1, <3>2
  <2>4. \A i \in 2..l : Q[i] = P[m + i]
    <3>1. \A i \in 2..l : i \in 1..l
      OBVIOUS
    <3> QED
      BY <1>3, <1>5, <3>1
  <2> QED
    BY <2>1, <2>2, <2>3, <2>4 DEF Dropped
<1> QED
  BY <1>2, <1>7, <1>8

\* An eviction drops rows from the front of the log.
LEMMA HeldDropped ==
  ASSUME NEW F, NEW P, NEW h, NEW w, Laid(F, P, h, w), NEW G, NEW Q, NEW g, Laid(G, Q, g, w),
         NEW id, NEW s, JobsFit(w, h, id, s), AllOK(h, s), NEW m \in Nat, NEW l \in Nat, NEW part \in Nat,
         FrontFits(h, m, l, part), g = CutFront(h, m, part), NEW b, b = LinesOf(h, m) + part
  PROVE  b \in 0..Len(F) /\ G = SubSeq(F, b + 1, Len(F))
<1>1. CutLines(h, g, m, l, part) /\ Dropped(P, Q, h, g, m, l, part) /\ Len(g) = l
  BY HeldFront
<1>2. m + l = Len(h) /\ Sized(h, m + l) /\ Sized(g, l)
  <2>1. Sized(h, Len(h))
    BY LaidSized
  <2>2. Sized(g, Len(g))
    BY LaidSized
  <2> QED
    BY <1>1, <2>1, <2>2 DEF FrontFits
<1>3. FlatOf(F, P, h, m + l) /\ FlatOf(G, Q, g, l) /\ F \in Seq(Row) /\ G \in Seq(Row)
  BY <1>1, <1>2 DEF Laid
<1>4. b \in 0..Len(F) /\ FlatOf(SubSeq(F, b + 1, Len(F)), Q, g, l)
  BY <1>1, <1>2, <1>3, FlatDropped
<1>5. PICK H : H = SubSeq(F, b + 1, Len(F))
  OBVIOUS
<1>6. H \in Seq(Row)
  <2> HIDE DEF Row
  <2> QED
    BY <1>3, <1>4, <1>5
<1>7. G = H
  <2>1. FlatOf(H, Q, g, l)
    BY <1>4, <1>5
  <2> QED
    BY <1>2, <1>3, <1>6, <2>1, FlatUnique
<1> QED
  BY <1>4, <1>5, <1>7

\* enforce_limit drops rows from the front and never leaves fewer than the limit.
LEMMA EnforcedRows ==
  ASSUME IInv, IInv', NEW max \in Nat \ {0}, EnforcedWith(max),
         UNCHANGED <<jobs, completions, worker>>
  PROVE  \E b \in 0..Len(Rows) : (b > 0 => Len(Rows) - b >= max) /\ Rows' = SubSeq(Rows, b + 1, Len(Rows))
<1>1. PICK m, l, part, before \in Nat : \E rest \in Int : EnforcedAt(max, m, l, part, before, rest)
  BY EnforcedFront
<1>2. PICK rest \in Int : EnforcedAt(max, m, l, part, before, rest)
  BY <1>1
<1>3. Laid(Rows, Parts, history, Way)
  BY Lays DEF RowsLaid
<1>4. Laid(Rows', Parts', history', Way)
  <2>1. Laid(Rows', Parts', history', Way')
    BY LaysNext DEF RowsLaid
  <2>2. Way' = Way
    BY DEF Way
  <2> QED
    BY <2>1, <2>2
<1>5. PICK F, P, G, Q, h, w, g : F = Rows /\ P = Parts /\ G = Rows' /\ Q = Parts' /\ h = history /\ w = Way /\ g = history'
  OBVIOUS
<1>6. Laid(F, P, h, w) /\ Laid(G, Q, g, w)
  BY <1>3, <1>4, <1>5
<1>7. JobsFit(w, h, nextId, styles) /\ AllOK(h, styles)
  BY <1>5, WayType DEF Stored, PagesFit, AllOK
<1>8. FrontFits(h, m, l, part) /\ g = CutFront(h, m, part)
  BY <1>2, <1>5 DEF EnforcedAt, FrontFits
<1>9. PICK b : b = before + part
  OBVIOUS
<1>10. b = LinesOf(h, m) + part
  BY <1>2, <1>5, <1>9 DEF EnforcedAt
<1>11. b \in 0..Len(F) /\ G = SubSeq(F, b + 1, Len(F))
  BY <1>6, <1>7, <1>8, <1>10, HeldDropped, SMTT(30)
<1>12. b > 0 => Len(F) - b >= max
  <2>1. Len(F) = logical /\ logical \in Nat
    BY <1>5, RowsType
  <2>2. rest = (logical - max) - before /\ (before > 0 => rest >= 0) /\ (part > 0 => part = rest)
    BY <1>2 DEF EnforcedAt
  <2>3. CASE part = 0
    BY <1>9, <2>1, <2>2, <2>3
  <2>4. CASE part > 0
    BY <1>9, <2>1, <2>2, <2>4
  <2> QED
    BY <2>3, <2>4
<1> QED
  BY <1>5, <1>11, <1>12

\* The step that enforces the limit is an eviction of the log.
LEMMA EnforceLogs == ASSUME IInv, IInv', Enforce PROVE LogStep
<1>1. EnforcedWith(limit) /\ UNCHANGED <<jobs, completions, worker, limit, answer>>
  BY DEF Enforce, Quietly, Local
<1>2. limit \in Nat \ {0}
  BY StorageAssumption DEF IInv, TypeOK
<1>3. PICK b \in 0..Len(Rows) : (b > 0 => Len(Rows) - b >= limit) /\ Rows' = SubSeq(Rows, b + 1, Len(Rows))
  BY <1>1, <1>2, EnforcedRows
<1>4. Len(Rows) \in Nat
  BY RowsType
<1>5. Log!Relimit
  BY <1>1, <1>3, <1>4 DEF Log!Relimit, Log!Drop, Log!Silent
<1> QED
  BY <1>5 DEF LogStep, Log!Change

\* set_limit changes the limit of the log and evicts at once.
LEMMA RelimitLogs == ASSUME IInv, IInv', Relimit PROVE LogStep
<1>1. /\ EnforcedWith(limit') /\ UNCHANGED <<jobs, completions, worker>> /\ answer' = <<>>
      /\ limit' \in Limits
  BY DEF Relimit, Local, Call
<1>2. PICK max \in Nat \ {0} : max = limit'
  BY <1>1, StorageAssumption
<1>3. PICK b \in 0..Len(Rows) : (b > 0 => Len(Rows) - b >= max) /\ Rows' = SubSeq(Rows, b + 1, Len(Rows))
  BY <1>1, <1>2, EnforcedRows
<1>4. Log!Relimit
  BY <1>1, <1>2, <1>3 DEF Log!Relimit, Log!Drop, Log!Silent
<1> QED
  BY <1>4 DEF LogStep, Log!Change

------------------------------------------------------------------------------
\* Compaction of the styles.

\* Renumbered rows are rows.
LEMMA Renumbered ==
  ASSUME NEW F \in Seq(Row), MaxStyles \in Nat
  PROVE  Again(F) \in Seq([n : 1..MaxRows, style : Nat])
<1> DEFINE S == [n : 1..MaxRows, style : Nat]
<1>1. \A r \in Row : [r EXCEPT !.style = @ + 1] \in S
  BY DEF Row
<1>2. Len(F) \in Nat /\ DOMAIN F = 1..Len(F) /\ \A k \in 1..Len(F) : F[k] \in Row
  <2> HIDE DEF Row
  <2> QED
    OBVIOUS
<1>3. Again(F) \in [1..Len(F) -> S]
  BY <1>1, <1>2 DEF Again
<1> HIDE DEF S
<1>4. Again(F) \in Seq(S)
  BY <1>2, <1>3
<1> QED
  BY <1>4 DEF S

\* Renumbering the styles of every page renumbers those of the log.
LEMMA HeldAgain ==
  ASSUME NEW F, NEW P, NEW h, NEW w, Laid(F, P, h, w), NEW G, NEW Q, NEW g, NEW v, Laid(G, Q, g, v),
         NEW s \in Nat, AllOK(h, s), s < MaxStyles, \A i \in DOMAIN h : ~Away(h[i]),
         g = [i \in DOMAIN h |-> Restyled(h[i])]
  PROVE  G = Again(F)
<1>1. PICK n \in Nat : n = Len(h) /\ Sized(h, n) /\ DOMAIN h = 1..n
  BY LaidSized
<1>2. Len(g) = n /\ Sized(g, n)
  <2>1. DOMAIN g = 1..n /\ Len(g) \in Nat /\ DOMAIN g = 1..Len(g) /\ Sized(g, Len(g))
    BY <1>1, LaidSized
  <2>2. PICK a \in Nat : a = Len(g) /\ 1..a = 1..n
    BY <2>1
  <2>3. a = n
    BY <2>2
  <2> QED
    BY <2>1, <2>2, <2>3
<1>3. /\ h \in Seq(Page) /\ F \in Seq(Row) /\ G \in Seq(Row) /\ FlatOf(F, P, h, n)
      /\ FlatOf(G, Q, g, n)
      /\ P \in Seq(Seq(Row)) /\ Len(P) = n
  BY <1>1, <1>2 DEF Laid
<1>4. MaxStyles \in Nat
  BY StorageAssumption
<1>5. ASSUME NEW i \in 1..n
      PROVE  g[i].lines = h[i].lines /\ h[i].lines = Len(P[i]) /\ P[i] \in Seq(Row) /\ Q[i] = Again(P[i])
  <2>1. Holds(P[i], h[i], w) /\ h[i].lines = Len(P[i]) /\ Holds(Q[i], g[i], v)
    BY <1>1, <1>2 DEF Laid
  <2>2. P[i] \in Seq(Row)
    <3> HIDE DEF Row
    <3> QED
      BY <1>3
  <2>3. PICK p \in Page : p = h[i]
    <3> HIDE DEF Page
    <3> QED
      BY <1>1, <1>3
  <2>4. PageOK(p, s) /\ ~Away(p)
    BY <1>1, <2>3 DEF AllOK
  <2>5. PICK q : q = Restyled(p)
    OBVIOUS
  <2>6. g[i] = q
    BY <1>1, <2>3, <2>5
  <2>7. ~Away(q)
    BY <1>4, <2>3, <2>4, <2>5, RestyledPage
  <2>8. q.kind = p.kind /\ q.lines = p.lines /\ q.rows = Again(p.rows) /\ q.packed = Again(p.packed)
    BY <2>3, <2>5 DEF Restyled, Page
  <2>9. (Hot(q) <=> Hot(p)) /\ (~Hot(q) => Cold(q)) /\ (~Hot(p) => Cold(p))
    BY <2>4, <2>7, <2>8 DEF Hot, Cold, Away
  <2>10. Q[i] = Again(P[i])
    BY <2>1, <2>3, <2>6, <2>8, <2>9 DEF Holds
  <2> QED
    BY <2>1, <2>2, <2>3, <2>6, <2>8, <2>10
<1>6. FlatOf(Again(F), Q, g, n)
  <2>1. Renewed(P, Q, h, g, n)
    BY <1>5 DEF Renewed
  <2> HIDE DEF Row
  <2> QED
    BY <1>1, <1>3, <2>1, FlatAgain
<1> DEFINE S == [n : 1..MaxRows, style : Nat]
<1>7. Again(F) \in Seq(S)
  BY <1>3, <1>4, Renumbered
<1>8. G \in Seq(S)
  <2>1. Row \subseteq S
    BY <1>4 DEF Row
  <2> HIDE DEF Row, S
  <2> QED
    BY <1>3, <2>1
<1> HIDE DEF S
<1>9. PICK H : H = Again(F)
  OBVIOUS
<1>10. H \in Seq(S) /\ FlatOf(H, Q, g, n)
  BY <1>6, <1>7, <1>9
<1> QED
  BY <1>2, <1>3, <1>8, <1>9, <1>10, FlatUnique

\* The compaction of styles renumbers the rows of the log.
LEMMA RemapLogs == ASSUME IInv, IInv', Remap PROVE LogStep
<1>1. /\ UNCHANGED <<limit, answer, jobs, completions, worker>>
      /\ \/ UNCHANGED history
         \/ /\ \A i \in DOMAIN history : ~Away(history[i])
            /\ styles < MaxStyles
            /\ history' = [i \in DOMAIN history |-> Restyled(history[i])]
  BY DEF Remap, Local
<1>2. CASE UNCHANGED history
  BY <1>1, <1>2, StillLogs DEF LogStep
<1>3. CASE /\ \A i \in DOMAIN history : ~Away(history[i])
           /\ styles < MaxStyles
           /\ history' = [i \in DOMAIN history |-> Restyled(history[i])]
  <2>1. Laid(Rows, Parts, history, Way)
    BY Lays DEF RowsLaid
  <2>2. Laid(Rows', Parts', history', Way')
    BY LaysNext DEF RowsLaid
  <2>3. PICK F, P, G, Q, h, w, g, v :
          F = Rows /\ P = Parts /\ G = Rows' /\ Q = Parts' /\ h = history /\ w = Way /\ g = history' /\ v = Way'
    OBVIOUS
  <2>4. Laid(F, P, h, w) /\ Laid(G, Q, g, v)
    BY <2>1, <2>2, <2>3
  <2>5. AllOK(h, styles) /\ styles \in Nat
    <3>1. AllOK(h, styles)
      BY <2>3, WayType DEF Stored, PagesFit, AllOK
    <3>2. styles \in Nat
      BY StorageAssumption DEF IInv, TypeOK
    <3> QED
      BY <3>1, <3>2
  <2>6. (\A i \in DOMAIN h : ~Away(h[i])) /\ g = [i \in DOMAIN h |-> Restyled(h[i])]
    BY <1>3, <2>3
  <2>7. G = Again(F)
    BY <1>3, <2>4, <2>5, <2>6, HeldAgain
  <2>8. Log!Restyle
    BY <1>1, <2>3, <2>7 DEF Log!Restyle, Log!Same, Log!Silent, Again
  <2> QED
    BY <2>8 DEF LogStep, Log!Change
<1> QED
  BY <1>1, <1>2, <1>3

------------------------------------------------------------------------------
\* Rows that are taken back.

\* The last of the last are the last.
LEMMA NewestLast ==
  ASSUME NEW S, NEW F \in Seq(S), NEW b \in 0..Len(F), NEW k \in Nat, 0 < k, k <= Len(F) - b,
         NEW out, out = SubSeq(F, b + 1, Len(F))
  PROVE  NewestOf(out, k) = SubSeq(F, (Len(F) - k) + 1, Len(F))
<1>1. Len(F) \in Nat /\ b \in Nat /\ b <= Len(F)
  OBVIOUS
<1>2. out \in Seq(S) /\ Len(out) = Len(F) - b /\ \A i \in 1..(Len(F) - b) : out[i] = F[b + i]
  BY <1>1
<1>3. PICK x, y : x = SubSeq(out, (Len(out) - k) + 1, Len(out)) /\ y = SubSeq(F, (Len(F) - k) + 1, Len(F))
  OBVIOUS
<1>4. PICK p \in Nat : p = Len(out) - k
  <2>1. Len(out) = Len(F) - b
    BY <1>2
  <2>2. PICK x1, y1 : x1 = Len(out) /\ y1 = Len(F)
    OBVIOUS
  <2>3. y1 \in Nat /\ b \in Nat /\ x1 = y1 - b /\ k <= y1 - b
    BY <1>1, <2>1, <2>2
  <2>4. x1 - k \in Nat
    BY <2>3
  <2> QED
    BY <2>2, <2>4
<1>5. /\ x \in Seq(S) /\ Len(x) = k /\ \A i \in 1..k : x[i] = out[p + i]
  <2>1. x = SubSeq(out, p + 1, Len(out)) /\ Len(out) = p + k
    BY <1>1, <1>2, <1>3, <1>4, SMTT(30)
  <2> QED
    BY <1>2, <1>4, <2>1
<1>6. /\ y \in Seq(S) /\ Len(y) = k /\ \A i \in 1..k : y[i] = F[(b + p) + i]
  <2>1. y = SubSeq(F, (b + p) + 1, Len(F)) /\ Len(F) = (b + p) + k /\ b + p \in Nat
    BY <1>1, <1>2, <1>3, <1>4
  <2> QED
    BY <1>1, <1>4, <2>1
<1>7. \A i \in 1..k : p + i \in 1..(Len(F) - b) /\ b + (p + i) = (b + p) + i
  BY <1>1, <1>2, <1>4
<1>8. \A i \in 1..k : x[i] = y[i]
  BY <1>2, <1>5, <1>6, <1>7
<1>9. x = y
  BY <1>5, <1>6, <1>8, RowsEqual
<1> QED
  BY <1>3, <1>9 DEF NewestOf

\* The first k elements of one sequence are those of the other.
Begins(s, t, k) == \A l \in 1..k : s[l] = t[l]

\* What a page keeps of its rows when it is cut.
LEMMA KeptHolds ==
  ASSUME NEW p \in Page, NEW s, PageOK(p, s), Hot(p), NEW c \in Nat, 0 < c, c <= p.lines,
         NEW b \in BOOLEAN, b, NEW q, q = KeptPart(p, c, b)
  PROVE  Hot(q) /\ q.lines = c /\ Begins(q.rows, p.rows, c)
<1>1. p.rows \in Seq(Row) /\ Len(p.rows) = p.lines /\ p.lines \in Nat
  BY StorageAssumption DEF Page, PageOK
<1>2. q.rows = SubSeq(p.rows, 1, c) /\ q.kind = p.kind /\ q.lines = c
  BY DEF KeptPart, Page
<1>3. PICK r : r = p.rows
  OBVIOUS
<1>4. \A l \in 1..c : SubSeq(r, 1, c)[l] = r[l]
  <2>1. r \in Seq(Row) /\ c <= Len(r)
    BY <1>1, <1>3
  <2> HIDE DEF Row
  <2> QED
    BY <2>1
<1> QED
  BY <1>2, <1>3, <1>4 DEF Hot, Begins

\* The pages that grow_screen leaves hold the oldest rows.
LEMMA HeldShorter ==
  ASSUME NEW F, NEW P, NEW h, NEW w, Laid(F, P, h, w), NEW G, NEW Q, NEW g, Laid(G, Q, g, w),
         NEW c, NEW id \in Nat \ {0}, NEW s, Stored(h, w, c, id, s), NEW n \in Nat, n = Len(h),
         NEW start \in 0..n, NEW left \in Nat, LinesOf(h, start) <= left,
         NEW pages \in 0..n, Cuts(h, n, left, pages), HotFrom(h, n, start), g = Grown(h, start, left, pages)
  PROVE  G = SubSeq(F, 1, left)
<1>1. /\ h \in Seq(Page) /\ DOMAIN h = 1..n /\ Sized(h, n) /\ PageLines \in Nat
  <2>1. DOMAIN h = 1..n /\ Sized(h, n)
    BY LaidSized
  <2> QED
    BY <2>1, StorageAssumption DEF Laid
<1>2. g \in Seq(Page) /\ Len(g) = pages /\ LinesOf(g, pages) = left /\ PagesKept(h, g, start, pages)
  <2> HIDE DEF Page
  <2>1. h \in Seq(Page) /\ PageLines \in Nat
    BY <1>1
  <2>2. PICK x : x = Grown(h, start, left, pages)
    OBVIOUS
  <2>2a. /\ start \in Nat /\ pages \in Nat /\ start <= n /\ pages <= n /\ LinesOf(h, start) <= left
         /\ n = Len(h)
    OBVIOUS
  <2>3. x \in Seq(Page) /\ PagesKept(h, x, start, pages)
         /\ Sums(x, pages, left)
    BY <2>1, <2>2, <2>2a, GrownIs, ZenonT(30)
  <2>4. Len(x) = pages
    BY <2>2, <2>2a, <2>3 DEF Grown
  <2> QED
    BY <2>2, <2>3, <2>4 DEF Sums
<1>3. /\ \A i \in 1..pages : /\ CutOf(h, left, i) \in 1..h[i].lines
                             /\ i <= start \/ i < pages => CutOf(h, left, i) = h[i].lines
  BY <1>1, CutsFit
<1>4. DOMAIN g = 1..pages /\ \A i \in 1..pages : g[i] = KeptPart(h[i], CutOf(h, left, i), i > start)
  BY DEF Grown
<1>5. JobsFit(w, h, id, s) /\ PagesFit(h, id, s) /\ pages \in Nat
  BY DEF Stored
<1>6. ASSUME NEW i \in 1..pages
      PROVE  /\ g[i].lines \in 1..h[i].lines /\ (i < pages => g[i].lines = h[i].lines)
             /\ \A l \in 1..g[i].lines : Q[i][l] = P[i][l]
  <2>1. i \in 1..n /\ i \in DOMAIN h
    BY <1>1
  <2>2. Holds(P[i], h[i], w) /\ h[i].lines = Len(P[i]) /\ Holds(Q[i], g[i], w)
    BY <1>2, <2>1 DEF Laid
  <2>3. PICK p \in Page : p = h[i]
    <3> HIDE DEF Page
    <3> QED
      BY <1>1, <2>1
  <2>4. p.lines \in Nat \ {0}
    BY <1>1, <2>1, <2>3 DEF Sized
  <2>5. CASE i <= start
    <3>1. g[i] = h[i]
      BY <1>2, <2>5 DEF PagesKept
    <3>2. Q[i] = P[i]
      BY <1>5, <2>1, <2>2, <3>1, HoldsOne
    <3> QED
      BY <2>3, <2>4, <3>1, <3>2
  <2>6. CASE i > start
    <3>1. Hot(p) /\ PageOK(p, s)
      BY <1>5, <2>1, <2>3, <2>6 DEF HotFrom, PagesFit
    <3>2. PICK k : k = CutOf(h, left, i)
      OBVIOUS
    <3>3. k \in Nat /\ 0 < k /\ k <= p.lines /\ (i < pages => k = p.lines)
      BY <1>3, <2>3, <2>4, <3>2
    <3>4a. PICK b \in BOOLEAN : b /\ b = (i > start)
      BY <2>6
    <3>4. PICK q : b /\ b = (i > start) /\ q = KeptPart(p, k, b)
      BY <3>4a
    <3>5. g[i] = q
      BY <1>4, <2>3, <3>2, <3>4
    <3>6. Hot(q) /\ q.lines = k /\ \A l \in 1..k : q.rows[l] = p.rows[l]
      <4>1. Hot(q) /\ q.lines = k /\ Begins(q.rows, p.rows, k)
        <5> HIDE DEF Page, Row
        <5> QED
          BY <2>3, <3>1, <3>3, <3>4, KeptHolds
      <4> QED
        BY <4>1 DEF Begins
    <3>7. Q[i] = q.rows /\ P[i] = p.rows
      BY <2>2, <2>3, <3>1, <3>5, <3>6 DEF Holds
    <3> QED
      BY <2>3, <2>4, <3>3, <3>5, <3>6, <3>7
  <2> QED
    BY <2>5, <2>6
<1>7. Shorter(P, Q, h, g, pages)
  <2>1. \A i \in 1..(pages - 1) : i \in 1..pages /\ i < pages
    BY <1>5
  <2> QED
    BY <1>6, <2>1 DEF Shorter
<1>8. FlatOf(F, P, h, n) /\ FlatOf(G, Q, g, pages) /\ F \in Seq(Row) /\ G \in Seq(Row)
  BY <1>2 DEF Laid
<1>9. left \in 0..Len(F) /\ FlatOf(SubSeq(F, 1, left), Q, g, pages)
  BY <1>1, <1>2, <1>7, <1>8, FlatShorter
<1>10. PICK H : H = SubSeq(F, 1, left)
  OBVIOUS
<1>11. H \in Seq(Row)
  <2> HIDE DEF Row
  <2> QED
    BY <1>8, <1>9, <1>10
<1>12. FlatOf(H, Q, g, pages) /\ Sized(g, pages)
  <2>1. Sized(g, Len(g))
    BY LaidSized
  <2> QED
    BY <1>2, <1>9, <1>10, <2>1
<1>13. G = H
  BY <1>5, <1>8, <1>11, <1>12, FlatUnique
<1> QED
  BY <1>10, <1>13

\* The pages after start hold the newest rows.
LEMMA HeldNewest ==
  ASSUME NEW F, NEW P, NEW h, NEW w, Laid(F, P, h, w), NEW s, AllOK(h, s), NEW n \in Nat,
         n = Len(h),
         NEW start \in 0..n, HotFrom(h, n, start), NEW b, b = LinesOf(h, start)
  PROVE  b \in 0..Len(F) /\ FlattenSeq(RowsFrom(h, n, start)) = SubSeq(F, b + 1, Len(F))
<1>1. /\ h \in Seq(Page) /\ DOMAIN h = 1..n /\ Sized(h, n) /\ PageLines \in Nat
      /\ FlatOf(F, P, h, n) /\ F \in Seq(Row)
  <2>1. DOMAIN h = 1..n /\ Sized(h, n)
    BY LaidSized
  <2> QED
    BY <2>1, StorageAssumption DEF Laid
<1>2. PICK d \in Nat : d = n - start /\ start + d = n
  <2>1. n - start \in Nat /\ start + (n - start) = n
    OBVIOUS
  <2> QED
    BY <2>1
<1>3. \A i \in 1..n : h[i] \in Page
  <2> HIDE DEF Page
  <2> QED
    BY <1>1
<1>4. ASSUME NEW i \in 1..d
      PROVE  /\ start + i \in 1..n
             /\ h[start + i].rows \in Seq(Row) /\ Len(h[start + i].rows) = h[start + i].lines
             /\ P[start + i] = h[start + i].rows
  <2>1. start + i \in 1..n /\ start + i > start
    BY <1>2
  <2>2. /\ h[start + i] \in Page /\ Hot(h[start + i]) /\ PageOK(h[start + i], s)
        /\ Holds(P[start + i], h[start + i], w)
    BY <1>1, <1>3, <2>1 DEF HotFrom, AllOK, Laid
  <2>3. \A p \in Page : p.rows \in Seq(Row)
    BY DEF Page
  <2> QED
    BY <2>1, <2>2, <2>3 DEF PageOK, Holds
<1>5. PICK r : r = RowsFrom(h, n, start)
  OBVIOUS
<1>6. r \in Seq(Seq(Row)) /\ Len(r) = d /\ \A i \in 1..d : r[i] = h[start + i].rows
  <2>1. r = [i \in 1..d |-> h[start + i].rows]
    BY <1>2, <1>5 DEF RowsFrom
  <2>2. DOMAIN r = 1..d /\ \A i \in 1..d : r[i] = h[start + i].rows
    BY <2>1
  <2>3. r \in [1..d -> Seq(Row)]
    BY <1>4, <2>1
  <2>4. r \in Seq(Seq(Row))
    <3> HIDE DEF Row
    <3> QED
      BY <2>3
  <2> QED
    BY <2>2, <2>4
<1>7. PICK g : g = [i \in 1..d |-> h[start + i]]
  OBVIOUS
<1>8. \A i \in 1..d : g[i] = h[start + i]
  BY <1>7
<1>9. Measured(r, g, d) /\ Sized(g, d)
  BY <1>1, <1>4, <1>6, <1>8 DEF Measured, Sized
<1>10. PICK out : out = FlattenSeq(r)
  OBVIOUS
<1>11. out \in Seq(Row) /\ FlatOf(out, r, g, d)
  BY <1>6, <1>9, <1>10, FlatAt
<1>12. CutLines(h, g, start, d, 0) /\ Dropped(P, r, h, g, start, d, 0)
  <2>1. ASSUME d # 0
        PROVE 1 \in 1..d /\ h[start + 1].lines \in Nat \ {0} /\ g[1] = h[start + 1] /\ r[1] = P[start + 1]
    <3>1. 1 \in 1..d /\ start + 1 \in 1..n
      BY <1>2, <2>1
    <3> QED
      BY <1>1, <1>4, <1>6, <1>8, <3>1 DEF Sized
  <2>2. \A i \in 2..d : i \in 1..d
    OBVIOUS
  <2>3. \A i \in 2..d : g[i] = h[start + i] /\ r[i] = P[start + i]
    BY <1>4, <1>6, <1>8, <2>2
  <2>4. CutLines(h, g, start, d, 0)
    <3>1. d # 0 => g[1].lines = h[start + 1].lines - 0
      BY <2>1
    <3> QED
      BY <2>3, <3>1 DEF CutLines
  <2>5. d # 0 => 0 < h[start + 1].lines
    BY <2>1
  <2>6. ASSUME d # 0, NEW l \in 1..g[1].lines PROVE r[1][l] = P[start + 1][0 + l]
    <3>1. 0 + l = l
      OBVIOUS
    <3> QED
      BY <2>1, <2>6, <3>1
  <2> QED
    BY <2>3, <2>4, <2>5, <2>6 DEF Dropped
<1>13. /\ start \in Nat /\ 0 \in Nat /\ b = LinesOf(h, start) + 0 /\ Sized(h, start + d)
       /\ FlatOf(F, P, h, start + d)
  <2>1. LinesOf(h, start) \in Nat
    BY <1>1, LinesType
  <2> QED
    BY <1>1, <1>2, <2>1
<1>14. b \in 0..Len(F) /\ FlatOf(SubSeq(F, b + 1, Len(F)), r, g, d)
  BY <1>1, <1>12, <1>13, FlatDropped
<1>15. PICK H : H = SubSeq(F, b + 1, Len(F))
  OBVIOUS
<1>16. H \in Seq(Row) /\ FlatOf(H, r, g, d)
  <2>1. H \in Seq(Row)
    <3> HIDE DEF Row
    <3> QED
      BY <1>1, <1>14, <1>15
  <2> QED
    BY <1>14, <1>15, <2>1
<1>17. out = H
  BY <1>9, <1>11, <1>16, FlatUnique
<1> QED
  BY <1>5, <1>10, <1>14, <1>15, <1>17

\* grow_screen takes the newest rows back from the log and answers them.
LEMMA GrowLogs == ASSUME IInv, IInv', NEW k \in Nat, NEW x, GrowScreen(k, x) PROVE LogStep
<1>1. PICK n, taken, left \in Nat : \E start, pages \in 0..n : GrownAt(n, start, taken, left, pages)
  BY GrownFront
<1>2. PICK start, pages \in 0..n : GrownAt(n, start, taken, left, pages)
  BY <1>1
<1>3. Laid(Rows, Parts, history, Way)
  BY Lays DEF RowsLaid
<1>4. Laid(Rows', Parts', history', Way)
  <2>1. Laid(Rows', Parts', history', Way')
    BY LaysNext DEF RowsLaid
  <2>2. Way' = Way
    BY <1>2 DEF GrownAt, Way
  <2> QED
    BY <2>1, <2>2
<1>5. PICK F, P, G, Q, h, w, g : F = Rows /\ P = Parts /\ G = Rows' /\ Q = Parts' /\ h = history /\ w = Way /\ g = history'
  OBVIOUS
<1>6. Laid(F, P, h, w) /\ Laid(G, Q, g, w)
  BY <1>3, <1>4, <1>5
<1>7. Stored(h, w, cache, nextId, styles) /\ AllOK(h, styles) /\ nextId \in Nat \ {0}
  <2>1. nextId \in Nat \ {0}
    BY DEF IInv, TypeOK
  <2> QED
    BY <1>5, <2>1, WayType DEF Stored, PagesFit, AllOK
<1>8. /\ n = Len(h) /\ HotFrom(h, n, start) /\ LinesOf(h, start) <= left
      /\ taken > 0 /\ logical = left + taken
      /\ Cuts(h, n, left, pages) /\ g = Grown(h, start, left, pages)
      /\ answer' = NewestOf(FlattenSeq(RowsFrom(h, n, start)), taken) /\ limit' = limit
  BY <1>2, <1>5 DEF GrownAt
<1>9. G = SubSeq(F, 1, left)
  BY <1>6, <1>7, <1>8, HeldShorter
<1>10. PICK b : b = LinesOf(h, start)
  OBVIOUS
<1>11. PICK out : out = FlattenSeq(RowsFrom(h, n, start))
  OBVIOUS
<1>12. b \in 0..Len(F) /\ out = SubSeq(F, b + 1, Len(F))
  BY <1>6, <1>7, <1>8, <1>10, <1>11, HeldNewest, SMTT(30)
<1>13. Len(F) = left + taken /\ F \in Seq(Row)
  BY <1>5, <1>8, RowsType
<1>14. b \in Nat /\ taken <= Len(F) - b /\ left = Len(F) - taken /\ taken \in 1..Len(F)
  <2>1. b \in Nat
    BY <1>12, <1>13
  <2> QED
    BY <1>8, <1>10, <1>13, <2>1
<1>15. answer' = SubSeq(F, (Len(F) - taken) + 1, Len(F))
  <2>1. NewestOf(out, taken) = SubSeq(F, (Len(F) - taken) + 1, Len(F))
    <3> HIDE DEF Row
    <3> QED
      BY <1>8, <1>12, <1>13, <1>14, NewestLast
  <2> QED
    BY <1>8, <1>11, <2>1
<1>16. Log!Withdraw
  <2>1. G = SubSeq(F, 1, Len(F) - taken)
    BY <1>9, <1>14
  <2> QED
    BY <1>5, <1>8, <1>14, <1>15, <2>1 DEF Log!Withdraw
<1> QED
  BY <1>16 DEF LogStep, Log!Change

------------------------------------------------------------------------------
\* The place a read asked for.

\* A step that leaves the plan a read, and the pages as long as they are, leaves the place.
LEMMA PlaceKept ==
  ASSUME IInv, arg' = arg, Within("read", todo') <=> Within("read", todo),
         \A i \in DOMAIN history : history'[i].lines = history[i].lines
  PROVE  Asked' = Asked
<1>1. CASE ~Within("read", todo)
  BY <1>1 DEF Asked, Within
<1>2. CASE Within("read", todo)
  <2>1. arg[1] \in DOMAIN history /\ history \in Seq(Page)
    BY <1>2 DEF IInv, TypeOK, TodoOK, ReadOK
  <2>2. PICK k, h, g : k = arg[1] - 1 /\ h = history /\ g = history'
    OBVIOUS
  <2>3. k \in Nat /\ \A i \in 1..k : i \in DOMAIN h
    <3>1. arg[1] \in 1..Len(history) /\ Len(history) \in Nat /\ DOMAIN h = 1..Len(history)
      <4> HIDE DEF Page
      <4> QED
        BY <2>1, <2>2
    <3> QED
      BY <2>2, <3>1
  <2>4. \A i \in 1..k : g[i].lines = h[i].lines
    BY <2>2, <2>3
  <2>5. LinesOf(g, k) = LinesOf(h, k)
    BY <2>3, <2>4, LinesSame
  <2>6. LinesBefore(k) = LinesOf(h, k) /\ LinesBefore(k)' = LinesOf(g, k)
    BY <2>2, LinesBeforeIs DEF LinesBefore, LinesOf
  <2>7. Asked = LinesBefore(k) + arg[2]
    BY <1>2, <2>2 DEF Asked, Within
  <2>8. Asked' = LinesBefore(k)' + arg[2]
    BY <1>2, <2>2 DEF Asked, Within, LinesBefore
  <2> QED
    BY <2>5, <2>6, <2>7, <2>8
<1> QED
  BY <1>1, <1>2

\* No read is under way.
LEMMA NoPlace == ASSUME ~Within("read", todo) PROVE Asked = 0
  BY DEF Asked, Within

\* The steps of the plans that add rows, enforce the limit or renumber the styles are no reads.
LEMMA NoReadPlanned ==
  ASSUME IInv, todo # <<>>, Head(todo) \in {"ingest", "push", "enforce", "remap"},
         \/ todo' = Tail(todo) \/ todo' = <<"scan">> \o Tail(todo)
         \/ todo' = <<"scan", "enforce">> \o Tail(todo) \/ todo' = <<>> \o Tail(todo)
  PROVE  Asked = 0 /\ Asked' = 0
<1>1. PICK t : t = Tail(todo)
  OBVIOUS
<1>2. ~Within("read", todo)
  BY NotReading
<1>3. t \in Seq(Steps) /\ ~Within("read", t)
  BY <1>1, <1>2, Pop
<1>4. ~Within("read", todo')
  <2>1. CASE todo' = t \/ todo' = <<>> \o t
    <3>1. <<>> \o t = t
      <4> HIDE DEF Steps
      <4> QED
        BY <1>3
    <3> QED
      BY <1>3, <2>1, <3>1
  <2>2. CASE todo' = <<"scan">> \o t
    BY <1>3, <2>2, WithinPlus, Literals
  <2>3. CASE todo' = <<"scan", "enforce">> \o t
    <3>1. PICK p : p = <<"scan", "enforce">>
      OBVIOUS
    <3>2. p \in Seq(Steps) /\ ~Within("read", p)
      BY <3>1, Literals
    <3>3. todo' = p \o t
      BY <2>3, <3>1
    <3> QED
      BY <1>3, <3>2, <3>3, WithinPlus
  <2> QED
    BY <1>1, <2>1, <2>2, <2>3
<1>5. Asked' = 0
  BY <1>4 DEF Asked, Within
<1> QED
  BY <1>2, <1>5, NoPlace

\* The steps of the worker, the scan, the completions and the waits leave the place.
LEMMA PlaceStays ==
  ASSUME IInv, Worker \/ Scan \/ Apply \/ WaitForJobs \/ Quiesce \/ QuiesceRecv \/ Join
  PROVE  Asked' = Asked
<1>1. CASE Worker
  BY <1>1, PlaceKept DEF Worker, WorkerTake, WorkerSend, WorkerCount, WorkerExit, owner
<1>2. CASE Scan
  <2>1. /\ todo # <<>> /\ Head(todo) = "scan" /\ arg' = arg
        /\ UNCHANGED <<completions, worker, pending, cache, nextId, styles>>
        /\ \/ Scanned
           \/ Found # {} /\ Enqueued(Min(Found)) /\ UNCHANGED todo
           \/ Refused(Min(Found)) /\ UNCHANGED todo
    BY <1>2, ScanSplit
  <2>2. CASE Scanned
    <3>1. todo' = Tail(todo) /\ history' = history
      BY <2>2 DEF Scanned, Done
    <3>2. Within("read", todo') <=> Within("read", todo)
      BY <2>1, <3>1, Pop
    <3> QED
      BY <2>1, <3>1, <3>2, PlaceKept
  <2>3. CASE Found # {} /\ Enqueued(Min(Found)) /\ UNCHANGED todo
    <3>1. PICK i : i = Min(Found)
      OBVIOUS
    <3>2. i \in 0..(Len(history) - 2) /\ Hot(history[i + 1]) /\ Len(history) \in Nat
      BY <2>3, <3>1, FirstFound, OverLimit DEF Eligible
    <3>3. i \in 0..(Len(history) - 1)
      BY <3>2
    <3>4. \A l \in DOMAIN history : history'[l].lines = history[l].lines
      BY <2>1, <2>3, <3>1, <3>2, <3>3, QueuedWay
    <3> QED
      BY <2>1, <2>3, <3>4, PlaceKept
  <2>4. CASE Refused(Min(Found)) /\ UNCHANGED todo
    BY <2>1, <2>4, PlaceKept DEF Refused
  <2> QED
    BY <2>1, <2>2, <2>3, <2>4
<1>3. CASE Apply \/ WaitForJobs \/ Quiesce \/ QuiesceRecv \/ Join
  <2>1. /\ todo # <<>> /\ Head(todo) \in {"apply", "wait", "quiesce", "recv", "join"}
        /\ todo' = todo \/ todo' = Tail(todo) \/ todo' = <<"recv", "apply">> \o todo
        /\ arg' = arg
        /\ ApplyCompletion \/ UNCHANGED history
    BY <1>3 DEF Apply, WaitForJobs, Quiesce, QuiesceRecv, Join, At, Done, Quietly, ApplyCompletion
  <2>2. \A i \in DOMAIN history : history'[i].lines = history[i].lines
    BY <2>1, Applied
  <2>3. Within("read", todo') <=> Within("read", todo)
    <3>1. todo \in Seq(Steps)
      BY DEF IInv, TypeOK, Steps
    <3>2. CASE todo' = todo
      BY <3>2
    <3>3. CASE todo' = Tail(todo)
      BY <2>1, <3>3, Pop
    <3>4. CASE todo' = <<"recv", "apply">> \o todo
      <4>1. PICK p : p = <<"recv", "apply">>
        OBVIOUS
      <4>2. p \in Seq(Steps) /\ ~Within("read", p)
        BY <4>1, Literals
      <4>3. todo' = p \o todo
        BY <3>4, <4>1
      <4> QED
        BY <3>1, <4>2, <4>3, WithinPlus
    <3> QED
      BY <2>1, <3>2, <3>3, <3>4
  <2> QED
    BY <2>1, <2>2, <2>3, PlaceKept
<1> QED
  BY <1>1, <1>2, <1>3

\* The plan of a read asks for the row it is to read.
LEMMA ReadAsks ==
  ASSUME IInv, IInv', NEW k, NEW l, Read(k, l) PROVE Asked = 0 /\ Log!Ask
<1>1. /\ todo = <<>> /\ answer' = <<>> /\ k \in DOMAIN history /\ l \in 1..history[k].lines
      /\ todo' = (IF history[k].pending /\ Away(history[k]) THEN <<"wait", "apply", "scan">> ELSE <<>>) \o <<"read">>
      /\ arg' = <<k, l>>
      /\ UNCHANGED <<history, jobs, completions, worker, limit>>
  BY DEF Read, Call, Local
<1>2. Asked = 0
  BY <1>1 DEF Asked
<1>3. Within("read", todo')
  <2>1. PICK p, t : /\ p = (IF history[k].pending /\ Away(history[k]) THEN <<"wait", "apply", "scan">> ELSE <<>>)
                    /\ t = <<"read">>
    OBVIOUS
  <2>2. p \in Seq(Steps) /\ t \in Seq(Steps)
    <3>1. t \in Seq(Steps)
      BY <2>1 DEF Steps
    <3>2. CASE p = <<>>
      BY <3>1, <3>2
    <3>3. CASE p = <<"wait", "apply", "scan">>
      <4>1. p \in Seq(Steps)
        BY <3>3 DEF Steps
      <4> QED
        BY <3>1, <4>1
    <3> QED
      BY <2>1, <3>2, <3>3
  <2>3. Within("read", t)
    <3>1. 1 \in DOMAIN t /\ t[1] = "read"
      BY <2>1
    <3> QED
      BY <3>1 DEF Within
  <2>4. todo' = p \o t
    BY <1>1, <2>1
  <2> QED
    BY <2>2, <2>3, <2>4, WithinPlus
<1>4. Laid(Rows, Parts, history, Way)
  BY Lays DEF RowsLaid
<1>5. PICK F, P, h, w : F = Rows /\ P = Parts /\ h = history /\ w = Way
  OBVIOUS
<1>6. Laid(F, P, h, w) /\ Len(h) \in Nat /\ Sized(h, Len(h)) /\ DOMAIN h = 1..Len(h)
  BY <1>4, <1>5, LaidSized
<1>7. k \in 1..Len(h) /\ l \in 1..h[k].lines
  BY <1>1, <1>5, <1>6
<1>8. PICK x : x = LinesOf(h, k - 1) + l
  OBVIOUS
<1>9. x \in 1..LinesOf(h, Len(h)) /\ Len(F) = LinesOf(h, Len(h)) /\ F \in Seq(Row)
  BY <1>6, <1>7, <1>8, InFlat DEF Laid, FlatOf
<1>10. x \in DOMAIN F
  <2> HIDE DEF Row
  <2> QED
    BY <1>9
<1>11. Asked' = x
  <2>1. LinesBefore(k - 1)' = LinesOf(h, k - 1)
    BY <1>1, <1>5 DEF LinesBefore, LinesOf
  <2>2. Asked' = LinesBefore(k - 1)' + l
    <3>1. (arg')[1] = k /\ (arg')[2] = l
      BY <1>1
    <3> QED
      BY <1>3, <3>1 DEF Asked, Within, LinesBefore
  <2> QED
    BY <1>8, <2>1, <2>2
<1>12. Rows' = Rows
  <2>1. Way' = Way
    BY <1>1 DEF Way
  <2> QED
    BY <1>1, <2>1, RowsKept
<1> QED
  BY <1>1, <1>2, <1>5, <1>10, <1>11, <1>12 DEF Log!Ask

------------------------------------------------------------------------------
\* Every step.

\* A step that changes no row and leaves the place of the read is none of the row log.
LEMMA StillNext ==
  ASSUME StillStep, Asked' = Asked PROVE Log!Next
  BY DEF StillStep, Log!Next, Log!Quiet, Log!Silent

\* A change while nobody reads is one of the row log.
LEMMA ChangeNext ==
  ASSUME LogStep, Asked = 0, Asked' = 0 PROVE Log!Next
<1>1. CASE StillStep
  BY <1>1, StillNext
<1>2. CASE Log!Change
  BY <1>2 DEF Log!Next
<1> QED
  BY <1>1, <1>2 DEF LogStep

\* A call that reads nothing asks for nothing.
LEMMA NoneAsked ==
  ASSUME todo = <<>>, ~Within("read", todo') PROVE Asked = 0 /\ Asked' = 0
<1>1. Asked = 0
  BY DEF Asked
<1>2. Asked' = 0
  BY DEF Asked, Within
<1> QED
  BY <1>1, <1>2

\* Every step of the owner is a step of the row log.
LEMMA OwnerLogs == ASSUME IInv, IInv', OwnerStep PROVE Log!Next
<1>1. CASE \E w \in Widths : PushLine(w)
  <2>1. PICK w \in Widths : PushLine(w)
    BY <1>1
  <2>2. todo # <<>> /\ Head(todo) = "push" /\ todo' = <<"scan", "enforce">> \o Tail(todo)
    BY <2>1 DEF PushLine, At
  <2>3. Asked = 0 /\ Asked' = 0
    BY <2>2, NoReadPlanned
  <2> QED
    BY <2>1, <2>3, PushLogs, ChangeNext
<1>2. CASE \E w \in Widths, gen \in Generations : IngestRow(w, gen)
  <2>1. PICK w \in Widths, gen \in Generations : IngestRow(w, gen)
    BY <1>2
  <2>2. /\ todo # <<>> /\ Head(todo) = "ingest"
        /\ todo' = Tail(todo) \/ todo' = <<"scan">> \o Tail(todo)
    BY <2>1 DEF IngestRow, At, Done
  <2>3. Asked = 0 /\ Asked' = 0
    BY <2>2, NoReadPlanned
  <2> QED
    BY <2>1, <2>3, IngestLogs, ChangeNext
<1>3. CASE Scan
  BY <1>3, ScanLogs, PlaceStays, StillNext
<1>4. CASE Enforce
  <2>1. todo # <<>> /\ Head(todo) = "enforce" /\ todo' = Tail(todo)
    BY <1>4 DEF Enforce, At, Done
  <2>2. Asked = 0 /\ Asked' = 0
    BY <2>1, NoReadPlanned
  <2> QED
    BY <1>4, <2>2, EnforceLogs, ChangeNext
<1>5. CASE Apply \/ WaitForJobs \/ Quiesce \/ QuiesceRecv \/ Join
  BY <1>5, WaitLogs, PlaceStays, StillNext
<1>6. CASE Remap
  <2>1. /\ todo # <<>> /\ Head(todo) = "remap"
        /\ todo' = <<"scan">> \o Tail(todo) \/ todo' = <<>> \o Tail(todo)
    BY <1>6 DEF Remap, At
  <2>2. Asked = 0 /\ Asked' = 0
    BY <2>1, NoReadPlanned
  <2> QED
    BY <1>6, <2>2, RemapLogs, ChangeNext
<1>7. CASE ReadLine
  BY <1>7, ReadLogs DEF Log!Next
<1> QED
  BY <1>1, <1>2, <1>3, <1>4, <1>5, <1>6, <1>7 DEF OwnerStep

\* Taking rows back is a call of one step.
LEMMA GrowsAtOnce ==
  ASSUME NEW k, NEW w, GrowScreen(k, w) PROVE todo = <<>> /\ todo' = <<>>
<1>1. todo = <<>> /\ todo' = todo
  BY ZenonT(60) DEF GrowScreen
<1> QED
  BY <1>1

\* Every call is a step of the row log.
LEMMA CallLogs == ASSUME IInv, IInv', NewCall PROVE Log!Next
<1>0. todo = <<>> /\ (\A n \in 0..MaxBatch : n \in Nat) /\ (\A n \in 1..MaxBatch : n \in Nat)
  <2>1. todo = <<>>
    BY GrowsAtOnce DEF NewCall, Feed, Clear, CompactStyles, Shrink, Read, Relimit, DropStorage, Call
  <2>2. (\A n \in 0..MaxBatch : n \in Nat) /\ (\A n \in 1..MaxBatch : n \in Nat)
    BY StorageAssumption
  <2> QED
    BY <2>1, <2>2
<1>1. CASE \E n \in 0..MaxBatch : Feed(n) \/ CompactStyles(n)
  BY <1>0, <1>1, FeedKeeps, NoneAsked, PlanLogs, ChangeNext DEF LogStep
<1>2. CASE \E n \in 0..MaxBatch : Clear(n)
  BY <1>0, <1>2, ClearKeeps, NoneAsked, ClearLogs, ChangeNext
<1>3. CASE \E n \in 1..MaxBatch : Shrink(n)
  BY <1>0, <1>3, FeedKeeps, NoneAsked, PlanLogs, ChangeNext DEF LogStep
<1>4. CASE \E n \in 1..MaxBatch : \E w \in Widths : GrowScreen(n, w)
  <2>1. PICK n \in 1..MaxBatch, w \in Widths : GrowScreen(n, w)
    BY <1>4
  <2>2. ~Within("read", todo')
    <3>1. todo' = <<>>
      BY <2>1, GrowsAtOnce
    <3> QED
      BY <3>1 DEF Within
  <2> QED
    BY <1>0, <2>1, <2>2, NoneAsked, GrowLogs, ChangeNext
<1>5. CASE \E i \in DOMAIN history, line \in 1..PageLines : Read(i, line)
  BY <1>5, ReadAsks DEF Log!Next
<1>6. CASE Relimit
  <2>1. ~Within("read", todo')
    BY <1>6 DEF Relimit, Call, Within
  <2> QED
    BY <1>0, <1>6, <2>1, NoneAsked, RelimitLogs, ChangeNext
<1>7. CASE DropStorage
  BY <1>0, <1>7, DropKeeps, NoneAsked, PlanLogs, ChangeNext DEF LogStep
<1> QED
  BY <1>1, <1>2, <1>3, <1>4, <1>5, <1>6, <1>7 DEF NewCall

\* Every step of the storage is a step of the row log, or none.
LEMMA StepLogs ==
  ASSUME IInv, IInv', [Next]_vars PROVE Log!Next
<1>1. CASE Worker
  BY <1>1, WorkerLogs, PlaceStays, StillNext
<1>2. CASE UNCHANGED vars
  <2>1. UNCHANGED <<history, jobs, completions, worker, limit, answer, todo, arg>>
    BY <1>2 DEF vars, owner
  <2>2. Asked' = Asked
    BY <2>1, PlaceKept
  <2> QED
    BY <2>1, <2>2, StillLogs, StillNext
<1> QED
  BY <1>1, <1>2, OwnerLogs, CallLogs DEF Next

\* The storage, with its pages, its compressed blocks and its worker, is a log of rows for its
\* caller: rows are appended at the end, evicted from the front down to the limit and no further,
\* taken back from the end, renumbered all at once, and read where they are (IsARowLog). The worker
\* and the completions never change what the caller sees (enforce_limit, grow_screen, apply_completion).
THEOREM RowLogKept == Spec => IsARowLog
<1>1. Init => Rows = <<>> /\ limit \in Nat /\ Asked = 0 /\ answer = <<>>
  <2> SUFFICES ASSUME Init PROVE Rows = <<>> /\ limit \in Nat /\ Asked = 0 /\ answer = <<>>
    OBVIOUS
  <2>1. IInv
    BY InitOK
  <2>2. history = <<>> /\ limit \in Nat /\ answer = <<>> /\ Asked = 0
    BY StorageAssumption DEF Init, Asked
  <2>3. Laid(Rows, Parts, history, Way)
    BY <2>1, Lays DEF RowsLaid
  <2>4. PICK F, P, h, w : F = Rows /\ P = Parts /\ h = history /\ w = Way
    OBVIOUS
  <2>5. Laid(F, P, h, w) /\ Len(h) = 0
    BY <2>2, <2>3, <2>4
  <2>6. F \in Seq(Row) /\ Len(F) = LinesOf(h, 0)
    BY <2>5 DEF Laid, FlatOf
  <2>7. F = <<>>
    <3>1. LinesOf(h, 0) = 0
      BY LinesStep
    <3> HIDE DEF Row
    <3> QED
      BY <2>6, <3>1
  <2> QED
    BY <2>2, <2>4, <2>7
<1>2. IInv /\ IInv' /\ [Next]_vars => [Log!Next]_<<Rows, limit, Asked, answer>>
  BY StepLogs
<1> QED
  BY <1>1, <1>2, Invariant, PTL DEF Spec, IsARowLog, Log!Spec, Log!vars

==============================================================================
