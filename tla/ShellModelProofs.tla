-------------------------- MODULE ShellModelProofs --------------------------
(***************************************************************************)
(* The shell stays whole, for every number of windows, tabs and panes,     *)
(* every setting of close-on-exit and every saved shell: no pane is lost,  *)
(* in two places or without its session, whatever closes it; keys have a   *)
(* pane to go to; and quitting leaves no session behind.                   *)
(***************************************************************************)
EXTENDS ShellModel, FiniteSetTheorems, TLAPS

-----------------------------------------------------------------------------
(* Orders.                                                                 *)

\* Every set of natural numbers that is not empty has a least one: a fact about a
\* local function that fails somewhere therefore fails first somewhere.
LEMMA LeastNat ==
  ASSUME NEW T, T \subseteq Nat, T # {}
  PROVE  \E n \in T : \A m \in T : n <= m
<1> DEFINE Below == {1..n : n \in T}
           Under == StrictSubsetOrdering(Nat)
<1>1. Below \subseteq FiniteSubsetsOf(Nat)
  <2> SUFFICES ASSUME NEW n \in T PROVE 1..n \in FiniteSubsetsOf(Nat)
    OBVIOUS
  <2>1. IsFiniteSet(1..n)
    BY FS_Interval
  <2> QED
    BY <2>1 DEF FiniteSubsetsOf
<1>2. Below # {} /\ IsWellFoundedOn(Under, FiniteSubsetsOf(Nat))
  BY FS_StrictSubsetOrderingWellFounded
<1>3. PICK x \in Below : \A y \in Below : ~(<<y, x>> \in Under)
  <2> HIDE DEF Below, Under
  <2> QED
    BY <1>1, <1>2, WFMin
<1>4. PICK n \in T : x = 1..n
  OBVIOUS
<1>5. ASSUME NEW m \in T PROVE n <= m
  <2>1. ~(<<1..m, 1..n>> \in Under)
    BY <1>3, <1>4
  <2>2. m < n => 1..m \subseteq 1..n /\ n \in 1..n /\ n \notin 1..m
    OBVIOUS
  <2>3. m < n => 1..m \subseteq 1..n /\ 1..m # 1..n
    BY <2>2
  <2>4. 1..m \in SUBSET Nat /\ 1..n \in SUBSET Nat
    OBVIOUS
  <2>5. ~(m < n)
    BY <2>1, <2>3, <2>4 DEF StrictSubsetOrdering
  <2> QED
    BY <2>5
<1> QED
  BY <1>5

\* What is in an order, and what its first and last element and its length are.
LEMMA ElemsType ==
  ASSUME NEW S, NEW s \in Seq(S)
  PROVE  /\ Elems(s) \subseteq S /\ Len(s) \in Nat
         /\ s # <<>> => s[1] \in Elems(s) /\ s[Len(s)] \in Elems(s)
         /\ s = <<>> <=> Elems(s) = {}
<1>1. Len(s) \in Nat /\ \A i \in 1..Len(s) : s[i] \in S
  OBVIOUS
<1>2. s # <<>> => Len(s) # 0
  OBVIOUS
<1>3. Elems(<<>>) = {}
  BY DEF Elems
<1> QED
  BY <1>1, <1>2, <1>3 DEF Elems

\* Nothing is in the empty order.
LEMMA ElemsEmpty == Elems(<<>>) = {} /\ Distinct(<<>>) /\ \A S : <<>> \in Seq(S)
BY DEF Elems, Distinct

\* One element makes an order.
LEMMA ElemsOne ==
  ASSUME NEW S, NEW x \in S
  PROVE  Elems(<<x>>) = {x} /\ Distinct(<<x>>) /\ <<x>> \in Seq(S)
BY DEF Elems, Distinct

\* push of an element that is new keeps an order without repetitions.
LEMMA ElemsAppend ==
  ASSUME NEW S, NEW s \in Seq(S), NEW x \in S
  PROVE  /\ Append(s, x) \in Seq(S) /\ Append(s, x) # <<>>
         /\ Elems(Append(s, x)) = Elems(s) \cup {x}
         /\ Distinct(s) /\ x \notin Elems(s) => Distinct(Append(s, x))
<1> DEFINE t == Append(s, x)
<1>1. /\ t \in Seq(S) /\ Len(t) = Len(s) + 1 /\ Len(s) \in Nat /\ t[Len(s) + 1] = x
      /\ \A i \in 1..Len(s) : t[i] = s[i]
  OBVIOUS
<1> HIDE DEF t
<1>2. Elems(t) = Elems(s) \cup {x}
  BY <1>1 DEF Elems
<1>3. Distinct(s) /\ x \notin Elems(s) => Distinct(t)
  BY <1>1 DEF Elems, Distinct
<1>4. t # <<>>
  BY <1>1
<1> QED
  BY <1>1, <1>2, <1>3, <1>4 DEF t

\* What Without's local function is: the kept among s's first i elements.
IsKept(f, s, x, n) ==
  f = [i \in 0..n |-> IF i = 0 THEN <<>>
                      ELSE IF s[i] = x THEN f[i - 1] ELSE Append(f[i - 1], s[i])]

\* One step of it.
LEMMA KeptStep ==
  ASSUME NEW s, NEW x, NEW n, NEW f, IsKept(f, s, x, n), NEW i \in 0..n
  PROVE  f[i] = IF i = 0 THEN <<>>
                ELSE IF s[i] = x THEN f[i - 1] ELSE Append(f[i - 1], s[i])
BY DEF IsKept

\* There is such a function, so the local definition of Without picks one.
LEMMA KeptExists ==
  ASSUME NEW s, NEW x, NEW n \in Nat
  PROVE  \E f : IsKept(f, s, x, n)
<1> DEFINE Bad == {m \in Nat : ~\E f : IsKept(f, s, x, m)}
<1>1. SUFFICES ASSUME Bad # {} PROVE FALSE
  OBVIOUS
<1>2. PICK m \in Bad : \A k \in Bad : m <= k
  <2>1. Bad \subseteq Nat
    OBVIOUS
  <2> HIDE DEF Bad
  <2> QED
    BY <1>1, <2>1, LeastNat
<1>3. CASE m = 0
  <2>1. IsKept([i \in 0..0 |-> <<>>], s, x, 0)
    BY DEF IsKept
  <2> QED
    BY <1>2, <1>3, <2>1
<1>4. CASE m # 0
  <2>1. m \in Nat /\ m - 1 \in Nat /\ m - 1 \notin Bad
    BY <1>2, <1>4
  <2>2. PICK g : IsKept(g, s, x, m - 1)
    BY <2>1
  <2> DEFINE Next1(f, i) == IF i = 0 THEN <<>>
                            ELSE IF s[i] = x THEN f[i - 1] ELSE Append(f[i - 1], s[i])
             h == [i \in 0..m |-> IF i = m THEN Next1(g, m) ELSE g[i]]
  <2>a. \A i \in 0..(m - 1) : h[i] = g[i]
    BY <2>1
  <2>b. \A i \in 0..(m - 1) : g[i] = Next1(g, i)
    <3> HIDE DEF h
    <3> QED
      BY <2>2 DEF IsKept
  <2>3. \A i \in 0..(m - 1) : h[i] = g[i] /\ g[i] = Next1(g, i)
    <3> HIDE DEF h, Next1
    <3> QED
      BY <2>a, <2>b
  <2>4. h[m] = Next1(g, m)
    BY <2>1
  <2>5. \A i \in 0..m : h[i] = Next1(h, i)
    <3> SUFFICES ASSUME NEW i \in 0..m PROVE h[i] = Next1(h, i)
      OBVIOUS
    <3>1. i # 0 => i - 1 \in 0..(m - 1)
      BY <2>1
    <3>2. i # 0 => h[i - 1] = g[i - 1]
      BY <2>3, <3>1
    <3>3. i = m \/ i \in 0..(m - 1)
      BY <2>1
    <3>4. h[i] = Next1(g, i)
      BY <2>3, <2>4, <3>3
    <3> HIDE DEF h
    <3> QED
      BY <3>2, <3>4
  <2>6. h = [i \in 0..m |-> Next1(h, i)]
    <3>1. h = [i \in 0..m |-> h[i]]
      OBVIOUS
    <3> HIDE DEF h
    <3> QED
      BY <2>5, <3>1
  <2>7. IsKept(h, s, x, m)
    BY <2>6 DEF IsKept
  <2> QED
    BY <1>2, <2>7
<1> QED
  BY <1>3, <1>4

\* An order without x has all its other elements, each once as before.
LEMMA WithoutElems ==
  ASSUME NEW S, NEW s \in Seq(S), NEW x
  PROVE  /\ Without(s, x) \in Seq(S) /\ Elems(Without(s, x)) = Elems(s) \ {x}
         /\ Distinct(s) => Distinct(Without(s, x))
<1> DEFINE n == Len(s)
<1>1. n \in Nat /\ \A i \in 1..n : s[i] \in S
  OBVIOUS
<1>2. PICK f : IsKept(f, s, x, n) /\ Without(s, x) = f[n]
  <2>1. \E f : IsKept(f, s, x, n)
    BY <1>1, KeptExists
  <2> DEFINE g == CHOOSE f : IsKept(f, s, x, n)
  <2>2. IsKept(g, s, x, n)
    BY <2>1
  <2>3. Without(s, x) = g[n]
    BY DEF Without, IsKept
  <2> QED
    BY <2>2, <2>3
<1> DEFINE Good(i) == /\ f[i] \in Seq(S) /\ Elems(f[i]) = {s[j] : j \in 1..i} \ {x}
                      /\ Distinct(s) => Distinct(f[i])
           Bad == {i \in 0..n : ~Good(i)}
<1>3. ASSUME Bad # {} PROVE FALSE
  <2>0. PICK k \in Bad : \A j \in Bad : k <= j
    <3>1. Bad \subseteq Nat
      BY <1>1
    <3> HIDE DEF Bad
    <3> QED
      BY <1>3, <3>1, LeastNat
  <2>1. PICK i \in 0..n : ~Good(i) /\ \A j \in 0..n : ~Good(j) => i <= j
    <3> HIDE DEF Good
    <3> QED
      BY <2>0
  <2>2. CASE i = 0
    <3>1. f[0] = <<>>
      BY <1>1, <1>2 DEF IsKept
    <3>2. Good(0)
      <4>1. {s[j] : j \in 1..0} = {}
        OBVIOUS
      <4> QED
        BY <3>1, <4>1, ElemsEmpty
    <3> HIDE DEF Good
    <3> QED
      BY <2>1, <2>2, <3>2
  <2>3. CASE i # 0
    <3>1. i - 1 \in 0..n /\ i \in 1..n /\ i \in Int /\ ~(i <= i - 1)
      BY <1>1, <2>3
    <3>2. Good(i - 1)
      <4> HIDE DEF Good
      <4> QED
        BY <2>1, <3>1
    <3>3. f[i] = IF s[i] = x THEN f[i - 1] ELSE Append(f[i - 1], s[i])
      <4> HIDE DEF Good
      <4> QED
        BY <1>2, <2>3, KeptStep
    <3>4. {s[j] : j \in 1..i} = {s[j] : j \in 1..(i - 1)} \cup {s[i]}
      <4>1. 1..i = 1..(i - 1) \cup {i}
        BY <3>1
      <4> QED
        BY <4>1
    <3>5. CASE s[i] = x
      BY <2>1, <3>2, <3>3, <3>4, <3>5
    <3>6. CASE s[i] # x
      <4>1. s[i] \in S /\ f[i - 1] \in Seq(S)
        BY <1>1, <3>1, <3>2
      <4>2. Distinct(s) => s[i] \notin {s[j] : j \in 1..(i - 1)}
        <5> SUFFICES ASSUME Distinct(s), NEW j \in 1..(i - 1), s[i] = s[j] PROVE FALSE
          OBVIOUS
        <5>1. j \in 1..n /\ j # i
          BY <1>1, <3>1
        <5> QED
          BY <3>1, <5>1 DEF Distinct
      <4>3. f[i] = Append(f[i - 1], s[i])
        BY <3>3, <3>6
      <4>4. f[i] \in Seq(S) /\ Elems(f[i]) = Elems(f[i - 1]) \cup {s[i]}
        BY <4>1, <4>3, ElemsAppend
      <4>a. Distinct(f[i - 1]) /\ s[i] \notin Elems(f[i - 1]) => Distinct(Append(f[i - 1], s[i]))
        BY ONLY <4>1, ElemsAppend
      <4>5. Distinct(f[i - 1]) /\ s[i] \notin Elems(f[i - 1]) => Distinct(f[i])
        BY <4>3, <4>a
      <4>6. Elems(f[i]) = {s[j] : j \in 1..i} \ {x}
        BY <3>2, <3>4, <3>6, <4>4
      <4> QED
        BY <2>1, <3>2, <4>2, <4>4, <4>5, <4>6
    <3> QED
      BY <3>5, <3>6
  <2> QED
    BY <2>2, <2>3
<1>4. Good(n)
  <2> HIDE DEF Good
  <2>1. n \in 0..n
    BY <1>1
  <2> QED
    BY <1>3, <2>1
<1>5. Elems(s) = {s[j] : j \in 1..n}
  BY DEF Elems
<1> QED
  BY <1>2, <1>4, <1>5

\* The place of an element, and the neighbours of an order.
LEMMA PositionType ==
  ASSUME NEW s, NEW x \in Elems(s)
  PROVE  PositionOf(s, x) \in 1..Len(s) /\ s[PositionOf(s, x)] = x
<1>1. \E i \in 1..Len(s) : s[i] = x
  BY DEF Elems
<1> QED
  BY <1>1 DEF PositionOf

\* first() and last() of an order that is not empty.
LEMMA EndsAreElems ==
  ASSUME NEW S, NEW s \in Seq(S), s # <<>>
  PROVE  FirstOf(s) \in Elems(s) /\ LastOf(s) \in Elems(s)
BY ElemsType DEF FirstOf, LastOf

\* The neighbour, either way around, is in the order.
LEMMA NextIsElem ==
  ASSUME NEW S, NEW s \in Seq(S), NEW x \in Elems(s), NEW forward
  PROVE  NextIn(s, x, forward) \in Elems(s)
<1> DEFINE i == PositionOf(s, x) - 1 + (IF forward THEN 1 ELSE -1)
           n == Len(s)
<1>1. n \in Nat /\ PositionOf(s, x) \in 1..n
  BY PositionType
<1>2. n > 0 /\ i \in Int
  BY <1>1
<1>3. i % n \in 0..(n - 1)
  <2> HIDE DEF i, n
  <2> QED
    BY <1>1, <1>2
<1>4. (i % n) + 1 \in 1..n
  <2> HIDE DEF i, n
  <2> QED
    BY <1>1, <1>2, <1>3
<1>5. NextIn(s, x, forward) = s[(i % n) + 1]
  BY DEF NextIn
<1> QED
  <2> HIDE DEF i
  <2> QED
    BY <1>4, <1>5 DEF Elems

\* A split adds exactly the new leaf.
LEMMA InsertElems ==
  ASSUME NEW S, NEW s \in Seq(S), NEW x \in Elems(s), NEW new \in S
  PROVE  /\ InsertAfter(s, x, new) \in Seq(S)
         /\ Elems(InsertAfter(s, x, new)) = Elems(s) \cup {new}
         /\ Distinct(s) /\ new \notin Elems(s) => Distinct(InsertAfter(s, x, new))
<1> DEFINE n == Len(s)
<1>1. PICK i \in 1..n : i = PositionOf(s, x)
  BY PositionType
<1>2. PICK a : a = SubSeq(s, 1, i)
  OBVIOUS
<1>3. PICK b : b = SubSeq(s, i + 1, n)
  OBVIOUS
<1>4. PICK t : t = a \o <<new>> \o b
  OBVIOUS
<1>5. InsertAfter(s, x, new) = t
  BY <1>1, <1>2, <1>3, <1>4 DEF InsertAfter
<1>6. n \in Nat /\ i \in Nat /\ 1 <= i /\ i <= n /\ \A j \in 1..n : s[j] \in S
  BY <1>1
<1>7. a \in Seq(S) /\ Len(a) = i /\ \A j \in 1..i : a[j] = s[j]
  BY <1>2, <1>6
<1>8. b \in Seq(S) /\ Len(b) = n - i /\ \A j \in 1..(n - i) : b[j] = s[i + j]
  BY <1>3, <1>6
<1>9. PICK c : c = a \o <<new>>
  OBVIOUS
<1>10. c \in Seq(S) /\ Len(c) = i + 1 /\ c[i + 1] = new /\ \A j \in 1..i : c[j] = s[j]
  BY <1>6, <1>7, <1>9
<1>11. t = c \o b
  BY <1>4, <1>9
<1>12. t \in Seq(S) /\ Len(t) = n + 1
  BY <1>6, <1>8, <1>10, <1>11
<1>13. \A j \in 1..(n + 1) : t[j] = IF j <= i THEN s[j] ELSE IF j = i + 1 THEN new ELSE s[j - 1]
  <2> SUFFICES ASSUME NEW j \in 1..(n + 1)
               PROVE  t[j] = IF j <= i THEN s[j] ELSE IF j = i + 1 THEN new ELSE s[j - 1]
    OBVIOUS
  <2>1. CASE j <= i + 1
    <3>1. t[j] = c[j]
      BY <1>6, <1>8, <1>10, <1>11, <2>1
    <3>2. j <= i => j \in 1..i
      BY <1>6
    <3>3. j <= i \/ j = i + 1
      BY <1>6, <2>1
    <3> QED
      BY <1>6, <1>10, <3>1, <3>2, <3>3
  <2>2. CASE j > i + 1
    <3>1. j - (i + 1) \in 1..(n - i)
      BY <1>6, <2>2
    <3>2. t[j] = b[j - (i + 1)]
      BY <1>6, <1>8, <1>10, <1>11, <2>2
    <3>3. i + (j - (i + 1)) = j - 1
      BY <1>6, <2>2
    <3>4. b[j - (i + 1)] = s[i + (j - (i + 1))]
      BY <1>8, <3>1
    <3>5. t[j] = s[j - 1]
      BY <3>2, <3>3, <3>4
    <3>6. ~(j <= i) /\ j # i + 1
      BY <1>6, <2>2
    <3> QED
      BY <3>5, <3>6
  <2> QED
    BY <1>6, <2>1, <2>2
<1>14. Elems(t) = Elems(s) \cup {new}
  <2>1. ASSUME NEW j \in 1..n PROVE \E k \in 1..(n + 1) : t[k] = s[j]
    <3>1. CASE j <= i
      BY <1>6, <1>13, <3>1
    <3>2. CASE j > i
      <4>1. j + 1 \in 1..(n + 1) /\ ~(j + 1 <= i) /\ j + 1 # i + 1 /\ (j + 1) - 1 = j
        BY <1>6, <3>2
      <4> QED
        BY <1>13, <4>1
    <3> QED
      BY <1>6, <3>1, <3>2
  <2>2. i + 1 \in 1..(n + 1) /\ t[i + 1] = new
    BY <1>6, <1>13
  <2>3. ASSUME NEW k \in 1..(n + 1) PROVE t[k] = new \/ \E j \in 1..n : t[k] = s[j]
    <3>1. k <= i => k \in 1..n
      BY <1>6
    <3>2. ~(k <= i) /\ k # i + 1 => k - 1 \in 1..n
      BY <1>6
    <3> QED
      BY <1>13, <3>1, <3>2
  <2>4. Elems(t) = {t[k] : k \in 1..(n + 1)}
    BY <1>12 DEF Elems
  <2>5. Elems(s) = {s[j] : j \in 1..n}
    BY DEF Elems
  <2>6. Elems(t) \subseteq Elems(s) \cup {new}
    BY <2>3, <2>4, <2>5
  <2>7. Elems(s) \subseteq Elems(t)
    BY <2>1, <2>4, <2>5
  <2> QED
    BY <2>2, <2>4, <2>6, <2>7
<1>15. ASSUME Distinct(s), new \notin Elems(s) PROVE Distinct(t)
  <2>1. SUFFICES ASSUME NEW j \in 1..(n + 1), NEW k \in 1..(n + 1), t[j] = t[k] PROVE j = k
    BY <1>12 DEF Distinct
  <2> DEFINE at(l) == IF l <= i THEN l ELSE l - 1
  <2>2. ASSUME NEW l \in 1..(n + 1), l # i + 1 PROVE at(l) \in 1..n /\ t[l] = s[at(l)]
    <3>1. t[l] = IF l <= i THEN s[l] ELSE s[l - 1]
      BY <1>13, <2>2
    <3>2. at(l) \in 1..n
      BY <1>6, <2>2
    <3> QED
      BY <3>1, <3>2
  <2>3. t[i + 1] = new /\ \A l \in 1..n : s[l] # new
    <3>1. i + 1 \in 1..(n + 1) /\ ~(i + 1 <= i)
      BY <1>6
    <3>2. t[i + 1] = new
      BY <1>13, <3>1
    <3> QED
      BY <1>15, <3>2 DEF Elems
  <2>4. j # i + 1 /\ k # i + 1 => at(j) = at(k)
    <3> HIDE DEF at
    <3> QED
      BY <1>15, <2>1, <2>2 DEF Distinct
  <2>5. j = i + 1 <=> k = i + 1
    <3> HIDE DEF at
    <3> QED
      BY <2>1, <2>2, <2>3
  <2> QED
    BY <1>6, <2>4, <2>5
<1> QED
  BY <1>5, <1>12, <1>14, <1>15

\* An order without repetitions is no longer than there are numbers to put in.
LEMMA DistinctIsShort ==
  ASSUME NEW N \in Nat, NEW s \in Seq(1..N), Distinct(s)
  PROVE  Len(s) <= N
<1>1. Len(s) \in Nat /\ s \in [1..Len(s) -> 1..N]
  OBVIOUS
<1>2. IsFiniteSet(1..N) /\ Cardinality(1..N) = N /\ Cardinality(1..Len(s)) = Len(s)
  <2>1. \A m \in Nat : IsFiniteSet(1..m) /\ Cardinality(1..m) = m
    <3> SUFFICES ASSUME NEW m \in Nat PROVE IsFiniteSet(1..m) /\ Cardinality(1..m) = m
      OBVIOUS
    <3>1. IsFiniteSet(1..m) /\ Cardinality(1..m) = IF 1 > m THEN 0 ELSE m - 1 + 1
      BY FS_Interval
    <3> QED
      BY <3>1
  <2> QED
    BY <1>1, <2>1
<1>3. s \in Injection(1..Len(s), 1..N)
  <2>1. \A i, j \in 1..Len(s) : s[i] = s[j] => i = j
    BY DEF Distinct
  <2> QED
    BY <1>1, <2>1 DEF Injection, IsInjective
<1>4. Cardinality(1..Len(s)) <= Cardinality(1..N)
  BY <1>2, <1>3, FS_Injection
<1> QED
  BY <1>2, <1>4

-----------------------------------------------------------------------------
(* Shells.                                                                 *)

\* Every window, tab and pane stands in one place.
Tidy(s) ==
  /\ s \in Shell
  /\ Distinct(s.order) /\ \A w \in Windows(s) : Distinct(s.tabs[w])
  /\ \A v, w \in Windows(s) : \A t \in TabsOf(s, v) : t \in TabsOf(s, w) => v = w
  /\ \A t \in OpenTabs(s) : Distinct(s.panes[t])
  /\ \A t, u \in OpenTabs(s) : \A p \in PanesOf(s, t) : p \in PanesOf(s, u) => t = u

\* The windows but w have their active tab and their tabs their focused pane.
FocusBut(s, w) ==
  \A v \in Windows(s) \ {w} :
    /\ s.activeTab[v] \in TabsOf(s, v)
    /\ \A t \in TabsOf(s, v) : s.focused[t] \in PanesOf(s, t)

Sound(s) == Tidy(s) /\ FocusBut(s, None)

\* What was closed on the way from s to r is shut down and nothing else is; the
\* shell quits with its last window; an active window gives way to another.
Closed(s, r) ==
  /\ Windows(r) \subseteq Windows(s) /\ OpenTabs(r) \subseteq OpenTabs(s)
  /\ OpenPanes(r) \subseteq OpenPanes(s)
  /\ r.shut = s.shut \cup (OpenPanes(s) \ OpenPanes(r))
  /\ r.quit => s.quit \/ r.order = <<>>
  /\ s.active \in Windows(s) => r.order = <<>> \/ r.active \in Windows(r)

\* What the parts of a shell are.
LEMMA ShellType ==
  ASSUME NEW s \in Shell
  PROVE  /\ s.order \in Seq(Window) /\ Windows(s) \subseteq Window
         /\ s.order = <<>> <=> Windows(s) = {}
         /\ s.active \in Window \cup {None} /\ s.quit \in BOOLEAN /\ s.shut \subseteq Pane
         /\ \A w \in Window : /\ s.tabs[w] \in Seq(Tab) /\ TabsOf(s, w) \subseteq Tab
                              /\ s.activeTab[w] \in Tab \cup {None}
         /\ \A t \in Tab : /\ s.panes[t] \in Seq(Pane) /\ PanesOf(s, t) \subseteq Pane
                           /\ s.focused[t] \in Pane \cup {None}
<1>1. /\ s.order \in Seq(Window) /\ s.active \in Window \cup {None} /\ s.quit \in BOOLEAN
      /\ s.shut \subseteq Pane /\ s.tabs \in [Window -> Seq(Tab)]
      /\ s.activeTab \in [Window -> Tab \cup {None}] /\ s.panes \in [Tab -> Seq(Pane)]
      /\ s.focused \in [Tab -> Pane \cup {None}]
  BY DEF Shell
<1>2. Windows(s) \subseteq Window /\ (s.order = <<>> <=> Windows(s) = {})
  BY <1>1, ElemsType DEF Windows
<1>3. \A w \in Window : TabsOf(s, w) \subseteq Tab
  BY <1>1, ElemsType DEF TabsOf
<1>4. \A t \in Tab : PanesOf(s, t) \subseteq Pane
  BY <1>1, ElemsType DEF PanesOf
<1> HIDE DEF Window, Tab, Pane, None
<1> QED
  BY <1>1, <1>2, <1>3, <1>4

\* A tab is open in some window, a pane in some open tab.
LEMMA OpenIff ==
  ASSUME NEW s
  PROVE  /\ \A t : t \in OpenTabs(s) <=> \E w \in Windows(s) : t \in TabsOf(s, w)
         /\ \A p : p \in OpenPanes(s) <=> \E t \in OpenTabs(s) : p \in PanesOf(s, t)
BY DEF OpenTabs, OpenPanes

\* What is open is numbered within the bounds.
LEMMA OpenType ==
  ASSUME NEW s \in Shell
  PROVE  OpenTabs(s) \subseteq Tab /\ OpenPanes(s) \subseteq Pane
<1>1. OpenTabs(s) \subseteq Tab
  BY ShellType, OpenIff
<1> QED
  BY <1>1, ShellType, OpenIff

\* With every window in order each has an active tab, each tab a focused pane.
LEMMA SoundFocus ==
  ASSUME NEW s, Sound(s)
  PROVE  /\ \A w \in Windows(s) : s.activeTab[w] \in TabsOf(s, w)
         /\ \A t \in OpenTabs(s) : s.focused[t] \in PanesOf(s, t)
<1>1. s \in Shell /\ None \notin Windows(s)
  <2>1. None \notin Window
    BY ShellAssumption DEF None, Window
  <2> QED
    BY <2>1, ShellType DEF Sound, Tidy
<1> QED
  BY <1>1, OpenIff DEF Sound, FocusBut

\* Closing step by step is closing.
LEMMA ClosedTwice ==
  ASSUME NEW s \in Shell, NEW r \in Shell, NEW q \in Shell, Closed(s, r), Closed(r, q)
  PROVE  Closed(s, q)
<1>1. r.order = <<>> => q.order = <<>>
  BY ShellType DEF Closed
<1> QED
  BY <1>1 DEF Closed

\* Closing nothing is closing.
LEMMA ClosedNothing == ASSUME NEW s PROVE Closed(s, s)
BY DEF Closed

\* close_window: its sessions are shut down, the others keep their focus.
LEMMA ClosesWindow ==
  ASSUME NEW s, NEW w, Tidy(s), FocusBut(s, w), w \in Windows(s)
  PROVE  Sound(CloseWindowOf(s, w)) /\ Closed(s, CloseWindowOf(s, w))
<1>1. s \in Shell /\ w \in Window
  BY ShellType DEF Tidy
<1>2. PICK r : r = CloseWindowOf(s, w)
  OBVIOUS
<1>3. PICK rest : rest = Without(s.order, w)
  OBVIOUS
<1>4. PICK gone : gone = UNION {PanesOf(s, t) : t \in TabsOf(s, w)}
  OBVIOUS
<1>5. rest \in Seq(Window) /\ Elems(rest) = Windows(s) \ {w} /\ Distinct(rest)
  BY <1>1, <1>3, ShellType, WithoutElems DEF Windows, Tidy
<1>6. gone \subseteq Pane
  BY <1>1, <1>4, ShellType
<1>7. r = [s EXCEPT
            !.shut = @ \cup gone, !.order = rest,
            !.active = IF @ # w THEN @ ELSE IF rest = <<>> THEN None ELSE LastOf(rest),
            !.quit = @ \/ rest = <<>>,
            !.tabs[w] = <<>>, !.activeTab[w] = None]
  BY <1>2, <1>3, <1>4 DEF CloseWindowOf
<1>8. /\ r.shut = s.shut \cup gone /\ r.order = rest /\ r.quit = (s.quit \/ rest = <<>>)
      /\ r.active = IF s.active # w THEN s.active
                    ELSE IF rest = <<>> THEN None ELSE LastOf(rest)
      /\ r.panes = s.panes /\ r.focused = s.focused
      /\ r.tabs = [s.tabs EXCEPT ![w] = <<>>]
      /\ r.activeTab = [s.activeTab EXCEPT ![w] = None]
  BY <1>1, <1>7 DEF Shell
<1>9. rest # <<>> => LastOf(rest) \in Elems(rest)
  BY <1>5, EndsAreElems
<1>10. r \in Shell
  <2>1. r.active \in Window \cup {None}
    BY <1>1, <1>5, <1>8, <1>9, ShellType
  <2>2. r.shut \subseteq Pane /\ r.quit \in BOOLEAN
    BY <1>1, <1>6, <1>8, ShellType
  <2>3. r.tabs \in [Window -> Seq(Tab)] /\ r.activeTab \in [Window -> Tab \cup {None}]
    BY <1>1, <1>8, ElemsEmpty DEF Shell
  <2>4. DOMAIN r = DOMAIN s
    BY <1>7
  <2>5. r = [order |-> r.order, active |-> r.active, quit |-> r.quit, tabs |-> r.tabs,
             activeTab |-> r.activeTab, panes |-> r.panes, focused |-> r.focused,
             shut |-> r.shut]
    BY <1>1, <1>7 DEF Shell
  <2> QED
    BY <1>1, <1>5, <1>8, <2>1, <2>2, <2>3, <2>5 DEF Shell
<1>11. Windows(r) = Windows(s) \ {w}
  BY <1>5, <1>8 DEF Windows
<1>12. \A v \in Windows(r) : r.tabs[v] = s.tabs[v] /\ TabsOf(r, v) = TabsOf(s, v)
                             /\ r.activeTab[v] = s.activeTab[v]
  BY <1>1, <1>8, <1>11, ShellType DEF TabsOf, Shell
<1>13. \A t : r.panes[t] = s.panes[t] /\ PanesOf(r, t) = PanesOf(s, t)
              /\ r.focused[t] = s.focused[t]
  BY <1>8 DEF PanesOf
<1>14. OpenTabs(r) = OpenTabs(s) \ TabsOf(s, w)
  BY <1>11, <1>12, OpenIff DEF Tidy
<1>15. Tidy(r)
  <2>1. Distinct(r.order) /\ \A v \in Windows(r) : Distinct(r.tabs[v])
    BY <1>5, <1>8, <1>11, <1>12 DEF Tidy
  <2>2. \A v, u \in Windows(r) : \A t \in TabsOf(r, v) : t \in TabsOf(r, u) => v = u
    BY <1>11, <1>12 DEF Tidy
  <2>3. \A t \in OpenTabs(r) : Distinct(r.panes[t])
    BY <1>13, <1>14 DEF Tidy
  <2>4. \A t, u \in OpenTabs(r) : \A p \in PanesOf(r, t) : p \in PanesOf(r, u) => t = u
    BY <1>13, <1>14 DEF Tidy
  <2> QED
    BY <1>10, <2>1, <2>2, <2>3, <2>4 DEF Tidy
<1>16. FocusBut(r, None)
  BY <1>11, <1>12, <1>13 DEF FocusBut
<1>17. OpenPanes(r) = OpenPanes(s) \ gone
  <2>1. gone = {p \in OpenPanes(s) : \E t \in TabsOf(s, w) : p \in PanesOf(s, t)}
    BY <1>4, OpenIff
  <2>2. \A t \in TabsOf(s, w) : t \in OpenTabs(s)
    BY OpenIff
  <2>3. \A p \in OpenPanes(r) : p \in OpenPanes(s) /\ p \notin gone
    BY <1>13, <1>14, <2>1, <2>2, OpenIff DEF Tidy
  <2>4. \A p \in OpenPanes(s) : p \in gone \/ p \in OpenPanes(r)
    BY <1>13, <1>14, <2>1, OpenIff
  <2> QED
    BY <2>3, <2>4
<1>18. gone \subseteq OpenPanes(s)
  BY <1>4, OpenIff
<1>19. Closed(s, r)
  BY <1>5, <1>8, <1>9, <1>11, <1>14, <1>17, <1>18 DEF Closed
<1> QED
  BY <1>2, <1>15, <1>16, <1>19 DEF Sound

\* close_tab_anywhere: another tab is active, or the window goes too.
LEMMA ClosesTab ==
  ASSUME NEW s, NEW w, NEW t, Sound(s), w \in Windows(s), t \in TabsOf(s, w)
  PROVE  Sound(CloseTabOf(s, w, t)) /\ Closed(s, CloseTabOf(s, w, t))
<1>1. s \in Shell /\ w \in Window /\ t \in Tab /\ Tidy(s) /\ FocusBut(s, None)
  BY ShellType DEF Sound, Tidy
<1>2. PICK rest : rest = Without(s.tabs[w], t)
  OBVIOUS
<1>3. PICK left : left = [s EXCEPT !.shut = @ \cup PanesOf(s, t), !.tabs[w] = rest,
                                   !.panes[t] = <<>>, !.focused[t] = None]
  OBVIOUS
<1>4. /\ rest \in Seq(Tab) /\ Elems(rest) = TabsOf(s, w) \ {t} /\ Distinct(rest)
      /\ rest # <<>> => LastOf(rest) \in Elems(rest)
  <2>1. s.tabs[w] \in Seq(Tab) /\ Distinct(s.tabs[w])
    BY <1>1, ShellType DEF Tidy
  <2>2. rest \in Seq(Tab) /\ Elems(rest) = TabsOf(s, w) \ {t} /\ Distinct(rest)
    BY <1>2, <2>1, WithoutElems DEF TabsOf
  <2> QED
    BY <2>2, EndsAreElems
<1>5. /\ left.shut = s.shut \cup PanesOf(s, t) /\ left.order = s.order
      /\ left.quit = s.quit /\ left.active = s.active /\ left.activeTab = s.activeTab
      /\ left.tabs = [s.tabs EXCEPT ![w] = rest]
      /\ left.panes = [s.panes EXCEPT ![t] = <<>>]
      /\ left.focused = [s.focused EXCEPT ![t] = None]
  BY <1>1, <1>3 DEF Shell
<1>6. left \in Shell
  <2>1. left.shut \subseteq Pane
    BY <1>1, <1>5, ShellType
  <2>2. left.tabs \in [Window -> Seq(Tab)] /\ left.panes \in [Tab -> Seq(Pane)]
        /\ left.focused \in [Tab -> Pane \cup {None}]
    BY <1>1, <1>4, <1>5, ElemsEmpty DEF Shell
  <2>3. left = [order |-> left.order, active |-> left.active, quit |-> left.quit,
                tabs |-> left.tabs, activeTab |-> left.activeTab, panes |-> left.panes,
                focused |-> left.focused, shut |-> left.shut]
    BY <1>1, <1>3 DEF Shell
  <2> QED
    BY <1>1, <1>5, <2>1, <2>2, <2>3 DEF Shell
<1>7. Windows(left) = Windows(s)
  BY <1>5 DEF Windows
<1>8. /\ TabsOf(left, w) = TabsOf(s, w) \ {t} /\ left.tabs[w] = rest
      /\ \A v \in Windows(s) \ {w} : left.tabs[v] = s.tabs[v] /\ TabsOf(left, v) = TabsOf(s, v)
  BY <1>1, <1>4, <1>5, ShellType DEF TabsOf, Shell
<1>9. \A u \in Tab \ {t} : /\ left.panes[u] = s.panes[u] /\ PanesOf(left, u) = PanesOf(s, u)
                           /\ left.focused[u] = s.focused[u]
  BY <1>1, <1>5 DEF PanesOf, Shell
<1>10. OpenTabs(left) = OpenTabs(s) \ {t} /\ t \in OpenTabs(s)
  BY <1>1, <1>7, <1>8, OpenIff DEF Tidy
<1>11. OpenTabs(left) \subseteq Tab \ {t}
  BY <1>1, <1>10, OpenType
<1>12. Tidy(left)
  <2>1. Distinct(left.order) /\ \A v \in Windows(left) : Distinct(left.tabs[v])
    BY <1>1, <1>4, <1>5, <1>7, <1>8 DEF Tidy
  <2>2. \A v, u \in Windows(left) : \A x \in TabsOf(left, v) : x \in TabsOf(left, u) => v = u
    BY <1>1, <1>7, <1>8 DEF Tidy
  <2>3. \A u \in OpenTabs(left) : Distinct(left.panes[u])
    BY <1>1, <1>9, <1>10, <1>11 DEF Tidy
  <2>4. \A x, u \in OpenTabs(left) : \A p \in PanesOf(left, x) : p \in PanesOf(left, u) => x = u
    BY <1>1, <1>9, <1>10, <1>11 DEF Tidy
  <2> QED
    BY <1>6, <2>1, <2>2, <2>3, <2>4 DEF Tidy
<1>13. \A v \in Windows(s) : \A u \in TabsOf(left, v) : left.focused[u] \in PanesOf(left, u)
  <2> SUFFICES ASSUME NEW v \in Windows(s), NEW u \in TabsOf(left, v)
               PROVE  left.focused[u] \in PanesOf(left, u)
    OBVIOUS
  <2>1. u \in OpenTabs(left)
    BY <1>7, OpenIff
  <2>2. s.focused[u] \in PanesOf(s, u)
    BY <1>10, <2>1, SoundFocus
  <2> QED
    BY <1>9, <1>11, <2>1, <2>2
<1>14. OpenPanes(left) = OpenPanes(s) \ PanesOf(s, t) /\ PanesOf(s, t) \subseteq OpenPanes(s)
  <2>1. \A p \in OpenPanes(left) : p \in OpenPanes(s) /\ p \notin PanesOf(s, t)
    BY <1>1, <1>9, <1>10, <1>11, OpenIff DEF Tidy
  <2>2. \A p \in OpenPanes(s) : p \in PanesOf(s, t) \/ p \in OpenPanes(left)
    BY <1>9, <1>10, <1>11, OpenIff
  <2>3. PanesOf(s, t) \subseteq OpenPanes(s)
    BY <1>10, OpenIff
  <2> QED
    BY <2>1, <2>2, <2>3
<1>15. Closed(s, left)
  BY <1>5, <1>7, <1>10, <1>14 DEF Closed
<1>16. CASE rest = <<>>
  <2>1. PICK m : m = [left EXCEPT !.activeTab[w] = None]
    OBVIOUS
  <2>2. CloseTabOf(s, w, t) = CloseWindowOf(m, w)
    BY <1>2, <1>3, <1>16, <2>1 DEF CloseTabOf
  <2>3. /\ m.shut = left.shut /\ m.order = left.order /\ m.quit = left.quit
        /\ m.active = left.active /\ m.tabs = left.tabs /\ m.panes = left.panes
        /\ m.focused = left.focused /\ m.activeTab = [left.activeTab EXCEPT ![w] = None]
    BY <1>6, <2>1 DEF Shell
  <2>4. m \in Shell
    <3>1. m.activeTab \in [Window -> Tab \cup {None}]
      BY <1>1, <1>6, <2>3 DEF Shell
    <3>2. m = [order |-> m.order, active |-> m.active, quit |-> m.quit, tabs |-> m.tabs,
               activeTab |-> m.activeTab, panes |-> m.panes, focused |-> m.focused,
               shut |-> m.shut]
      BY <1>6, <2>1 DEF Shell
    <3> QED
      BY <1>6, <2>3, <3>1, <3>2 DEF Shell
  <2>5. /\ Windows(m) = Windows(left) /\ OpenTabs(m) = OpenTabs(left)
        /\ OpenPanes(m) = OpenPanes(left) /\ \A v : TabsOf(m, v) = TabsOf(left, v)
        /\ \A u : PanesOf(m, u) = PanesOf(left, u)
    BY <2>3 DEF Windows, OpenTabs, OpenPanes, TabsOf, PanesOf
  <2>6. Tidy(m)
    BY <1>12, <2>3, <2>4, <2>5 DEF Tidy
  <2>7. \A v \in Windows(m) \ {w} : m.activeTab[v] = s.activeTab[v]
    BY <1>1, <1>5, <1>7, <2>3, <2>5, ShellType DEF Shell
  <2>8. FocusBut(m, w)
    BY <1>7, <1>8, <1>13, <2>3, <2>5, <2>7, SoundFocus DEF FocusBut
  <2>9. Closed(s, m)
    BY <1>15, <2>3, <2>5 DEF Closed
  <2>10. Sound(CloseWindowOf(m, w)) /\ Closed(m, CloseWindowOf(m, w))
    BY <1>7, <2>5, <2>6, <2>8, ClosesWindow
  <2>11. CloseWindowOf(m, w) \in Shell
    BY <2>10 DEF Sound, Tidy
  <2> QED
    BY <1>1, <2>2, <2>4, <2>9, <2>10, <2>11, ClosedTwice
<1>17. CASE rest # <<>>
  <2>1. PICK r : r = CloseTabOf(s, w, t)
    OBVIOUS
  <2>2. r = [left EXCEPT !.activeTab[w] = IF @ = t THEN LastOf(rest) ELSE @]
    BY <1>2, <1>3, <1>17, <2>1 DEF CloseTabOf
  <2>3. /\ r.shut = left.shut /\ r.order = left.order /\ r.quit = left.quit
        /\ r.active = left.active /\ r.tabs = left.tabs /\ r.panes = left.panes
        /\ r.focused = left.focused
        /\ r.activeTab = [s.activeTab EXCEPT ![w] = IF @ = t THEN LastOf(rest) ELSE @]
    BY <1>5, <1>6, <2>2 DEF Shell
  <2>a. LastOf(rest) \in TabsOf(s, w) \ {t} /\ TabsOf(s, w) \subseteq Tab
    BY <1>1, <1>4, <1>17, ShellType
  <2>4. r \in Shell
    <3>1. r.activeTab \in [Window -> Tab \cup {None}]
      BY <1>1, <2>3, <2>a DEF Shell
    <3>2. r = [order |-> r.order, active |-> r.active, quit |-> r.quit, tabs |-> r.tabs,
               activeTab |-> r.activeTab, panes |-> r.panes, focused |-> r.focused,
               shut |-> r.shut]
      BY <1>6, <2>2 DEF Shell
    <3> QED
      BY <1>6, <2>3, <3>1, <3>2 DEF Shell
  <2>5. /\ Windows(r) = Windows(left) /\ OpenTabs(r) = OpenTabs(left)
        /\ OpenPanes(r) = OpenPanes(left) /\ \A v : TabsOf(r, v) = TabsOf(left, v)
        /\ \A u : PanesOf(r, u) = PanesOf(left, u)
    BY <2>3 DEF Windows, OpenTabs, OpenPanes, TabsOf, PanesOf
  <2>6. Tidy(r)
    BY <1>12, <2>3, <2>4, <2>5 DEF Tidy
  <2>7. \A v \in Windows(s) : r.activeTab[v] \in TabsOf(left, v)
    <3>1. \A v \in Windows(s) \ {w} : r.activeTab[v] = s.activeTab[v]
      BY <1>1, <2>3, ShellType DEF Shell
    <3>2. r.activeTab[w] = IF s.activeTab[w] = t THEN LastOf(rest) ELSE s.activeTab[w]
      BY <1>1, <2>3 DEF Shell
    <3>3. s.activeTab[w] \in TabsOf(s, w)
      BY SoundFocus
    <3>4. r.activeTab[w] \in TabsOf(left, w)
      BY <1>8, <2>a, <3>2, <3>3
    <3> QED
      BY <1>8, <3>1, <3>4, SoundFocus
  <2>8. FocusBut(r, None)
    BY <1>7, <1>13, <2>3, <2>5, <2>7 DEF FocusBut
  <2>9. Closed(s, r)
    BY <1>15, <2>3, <2>5 DEF Closed
  <2> QED
    BY <2>1, <2>6, <2>8, <2>9 DEF Sound
<1> QED
  BY <1>16, <1>17

\* The window of an open tab and the tab of an open pane.
LEMMA WindowOfTabType ==
  ASSUME NEW s, NEW t \in OpenTabs(s)
  PROVE  WindowOfTab(s, t) \in Windows(s) /\ t \in TabsOf(s, WindowOfTab(s, t))
BY OpenIff DEF WindowOfTab

\* locate_pane finds an open tab that holds the pane.
LEMMA TabOfPaneType ==
  ASSUME NEW s, NEW p \in OpenPanes(s)
  PROVE  TabOfPane(s, p) \in OpenTabs(s) /\ p \in PanesOf(s, TabOfPane(s, p))
BY OpenIff DEF TabOfPane

\* close_pane_anywhere, with its whole cascade.
LEMMA ClosesPane ==
  ASSUME NEW s, NEW p, Sound(s)
  PROVE  Sound(ClosePaneOf(s, p)) /\ Closed(s, ClosePaneOf(s, p))
<1>1. CASE p \notin OpenPanes(s)
  BY <1>1, ClosedNothing DEF ClosePaneOf
<1>2. CASE p \in OpenPanes(s)
  <2>1. PICK t : t = TabOfPane(s, p)
    OBVIOUS
  <2>2. PICK rest : rest = Without(s.panes[t], p)
    OBVIOUS
  <2>3. s \in Shell /\ Tidy(s) /\ t \in OpenTabs(s) /\ t \in Tab /\ p \in PanesOf(s, t)
    BY <1>2, <2>1, TabOfPaneType, OpenType DEF Sound, Tidy
  <2>4. /\ rest \in Seq(Pane) /\ Elems(rest) = PanesOf(s, t) \ {p} /\ Distinct(rest)
        /\ rest # <<>> => FirstOf(rest) \in Elems(rest)
    <3>1. s.panes[t] \in Seq(Pane) /\ Distinct(s.panes[t])
      BY <2>3, ShellType DEF Tidy
    <3>2. rest \in Seq(Pane) /\ Elems(rest) = PanesOf(s, t) \ {p} /\ Distinct(rest)
      BY <2>2, <3>1, WithoutElems DEF PanesOf
    <3> QED
      BY <3>2, EndsAreElems
  <2>5. CASE rest = <<>>
    <3>1. ClosePaneOf(s, p) = CloseTabOf(s, WindowOfTab(s, t), t)
      BY <1>2, <2>1, <2>2, <2>5 DEF ClosePaneOf
    <3> QED
      BY <2>3, <3>1, WindowOfTabType, ClosesTab
  <2>6. CASE rest # <<>>
    <3>1. PICK r : r = ClosePaneOf(s, p)
      OBVIOUS
    <3>2. r = [s EXCEPT !.shut = @ \cup {p}, !.panes[t] = rest,
                        !.focused[t] = IF @ = p THEN FirstOf(rest) ELSE @]
      BY <1>2, <2>1, <2>2, <2>6, <3>1 DEF ClosePaneOf
    <3>3. /\ r.shut = s.shut \cup {p} /\ r.order = s.order /\ r.quit = s.quit
          /\ r.active = s.active /\ r.tabs = s.tabs /\ r.activeTab = s.activeTab
          /\ r.panes = [s.panes EXCEPT ![t] = rest]
          /\ r.focused = [s.focused EXCEPT ![t] = IF @ = p THEN FirstOf(rest) ELSE @]
      BY <2>3, <3>2 DEF Shell
    <3>4. FirstOf(rest) \in PanesOf(s, t) \ {p} /\ PanesOf(s, t) \subseteq Pane /\ p \in Pane
      BY <2>3, <2>4, <2>6, ShellType
    <3>5. r \in Shell
      <4>1. r.shut \subseteq Pane
        BY <2>3, <3>3, <3>4, ShellType
      <4>2. r.panes \in [Tab -> Seq(Pane)] /\ r.focused \in [Tab -> Pane \cup {None}]
        BY <2>3, <2>4, <3>3, <3>4 DEF Shell
      <4>3. r = [order |-> r.order, active |-> r.active, quit |-> r.quit, tabs |-> r.tabs,
                 activeTab |-> r.activeTab, panes |-> r.panes, focused |-> r.focused,
                 shut |-> r.shut]
        BY <2>3, <3>2 DEF Shell
      <4> QED
        BY <2>3, <3>3, <4>1, <4>2, <4>3 DEF Shell
    <3>6. Windows(r) = Windows(s) /\ OpenTabs(r) = OpenTabs(s) /\ \A v : TabsOf(r, v) = TabsOf(s, v)
      BY <3>3 DEF Windows, OpenTabs, TabsOf
    <3>7. /\ PanesOf(r, t) = PanesOf(s, t) \ {p} /\ r.panes[t] = rest
          /\ r.focused[t] = IF s.focused[t] = p THEN FirstOf(rest) ELSE s.focused[t]
          /\ \A u \in Tab \ {t} : r.panes[u] = s.panes[u] /\ PanesOf(r, u) = PanesOf(s, u)
                                  /\ r.focused[u] = s.focused[u]
      BY <2>3, <2>4, <3>3 DEF PanesOf, Shell
    <3>8. OpenTabs(s) \subseteq Tab
      BY <2>3, OpenType
    <3>9. Tidy(r)
      <4>1. Distinct(r.order) /\ \A v \in Windows(r) : Distinct(r.tabs[v])
        BY <2>3, <3>3, <3>6 DEF Tidy
      <4>2. \A v, u \in Windows(r) : \A x \in TabsOf(r, v) : x \in TabsOf(r, u) => v = u
        BY <2>3, <3>6 DEF Tidy
      <4>3. \A u \in OpenTabs(r) : Distinct(r.panes[u])
        BY <2>3, <2>4, <3>6, <3>7, <3>8 DEF Tidy
      <4>4. \A u \in Tab : PanesOf(r, u) \subseteq PanesOf(s, u)
        BY <3>7
      <4>5. \A x, u \in OpenTabs(r) : \A q \in PanesOf(r, x) : q \in PanesOf(r, u) => x = u
        BY <2>3, <3>6, <3>8, <4>4 DEF Tidy
      <4> QED
        BY <3>5, <4>1, <4>2, <4>3, <4>5 DEF Tidy
    <3>10. \A u \in OpenTabs(s) : r.focused[u] \in PanesOf(r, u)
      <4>1. \A u \in OpenTabs(s) : s.focused[u] \in PanesOf(s, u)
        BY SoundFocus
      <4>2. r.focused[t] \in PanesOf(r, t)
        BY <2>3, <3>4, <3>7, <4>1
      <4> QED
        BY <3>7, <3>8, <4>1, <4>2
    <3>11. FocusBut(r, None)
      BY <3>3, <3>6, <3>10, SoundFocus, OpenIff DEF FocusBut
    <3>12. OpenPanes(r) = OpenPanes(s) \ {p}
      <4>1. \A q \in OpenPanes(r) : q \in OpenPanes(s) /\ q # p
        BY <2>3, <3>6, <3>7, <3>8, OpenIff DEF Tidy
      <4>2. \A q \in OpenPanes(s) : q # p => q \in OpenPanes(r)
        BY <3>6, <3>7, <3>8, OpenIff
      <4> QED
        BY <4>1, <4>2
    <3>13. Closed(s, r)
      BY <1>2, <3>3, <3>6, <3>12 DEF Closed
    <3> QED
      BY <3>1, <3>9, <3>11, <3>13 DEF Sound
  <2> QED
    BY <2>5, <2>6
<1> QED
  BY <1>1, <1>2

\* What ClosedInTurn's local function is: the shell after each of the closings.
IsAfter(f, s, panes, n) ==
  f = [i \in 0..n |-> IF i = 0 THEN s ELSE ClosePaneOf(f[i - 1], panes[i])]

\* One step of it.
LEMMA AfterStep ==
  ASSUME NEW s, NEW panes, NEW n, NEW f, IsAfter(f, s, panes, n), NEW i \in 0..n
  PROVE  f[i] = IF i = 0 THEN s ELSE ClosePaneOf(f[i - 1], panes[i])
BY DEF IsAfter

\* There is such a function, so the local definition of ClosedInTurn picks one.
LEMMA AfterExists ==
  ASSUME NEW s, NEW panes, NEW n \in Nat
  PROVE  \E f : IsAfter(f, s, panes, n)
<1> DEFINE Bad == {m \in Nat : ~\E f : IsAfter(f, s, panes, m)}
<1>1. SUFFICES ASSUME Bad # {} PROVE FALSE
  OBVIOUS
<1>2. PICK m \in Bad : \A k \in Bad : m <= k
  <2>1. Bad \subseteq Nat
    OBVIOUS
  <2> HIDE DEF Bad
  <2> QED
    BY <1>1, <2>1, LeastNat
<1>3. CASE m = 0
  <2>1. IsAfter([i \in 0..0 |-> s], s, panes, 0)
    BY DEF IsAfter
  <2> QED
    BY <1>2, <1>3, <2>1
<1>4. CASE m # 0
  <2>1. m \in Nat /\ m - 1 \in Nat /\ m - 1 \notin Bad
    BY <1>2, <1>4
  <2>2. PICK g : IsAfter(g, s, panes, m - 1)
    BY <2>1
  <2> DEFINE Next1(f, i) == IF i = 0 THEN s ELSE ClosePaneOf(f[i - 1], panes[i])
             h == [i \in 0..m |-> IF i = m THEN Next1(g, m) ELSE g[i]]
  <2>3. \A i \in 0..(m - 1) : h[i] = g[i]
    BY <2>1
  <2>4. \A i \in 0..(m - 1) : g[i] = Next1(g, i)
    <3> HIDE DEF h
    <3> QED
      BY <2>2, AfterStep
  <2>5. h[m] = Next1(g, m)
    BY <2>1
  <2>6. \A i \in 0..m : h[i] = Next1(h, i)
    <3> SUFFICES ASSUME NEW i \in 0..m PROVE h[i] = Next1(h, i)
      OBVIOUS
    <3>1. i # 0 => i - 1 \in 0..(m - 1)
      BY <2>1
    <3>2. i # 0 => h[i - 1] = g[i - 1]
      BY <2>3, <3>1
    <3>3. i = m \/ i \in 0..(m - 1)
      BY <2>1
    <3>4. h[i] = Next1(g, i)
      <4> HIDE DEF h, Next1
      <4> QED
        BY <2>3, <2>4, <2>5, <3>3
    <3> HIDE DEF h
    <3> QED
      BY <3>2, <3>4
  <2>7. h = [i \in 0..m |-> Next1(h, i)]
    <3>1. h = [i \in 0..m |-> h[i]]
      OBVIOUS
    <3> HIDE DEF h
    <3> QED
      BY <2>6, <3>1
  <2>8. IsAfter(h, s, panes, m)
    BY <2>7 DEF IsAfter
  <2> QED
    BY <1>2, <2>8
<1> QED
  BY <1>3, <1>4

\* Closing panes one after the other, in any order, is closing.
LEMMA ClosesInTurn ==
  ASSUME NEW s, NEW panes, NEW n \in Nat, Sound(s)
  PROVE  Sound(ClosedInTurn(s, panes, n)) /\ Closed(s, ClosedInTurn(s, panes, n))
<1>1. PICK f : IsAfter(f, s, panes, n) /\ ClosedInTurn(s, panes, n) = f[n]
  <2>1. \E f : IsAfter(f, s, panes, n)
    BY AfterExists
  <2> DEFINE g == CHOOSE f : IsAfter(f, s, panes, n)
  <2>2. IsAfter(g, s, panes, n)
    BY <2>1
  <2>3. ClosedInTurn(s, panes, n) = g[n]
    BY DEF ClosedInTurn, IsAfter
  <2> QED
    BY <2>2, <2>3
<1> DEFINE Good(i) == Sound(f[i]) /\ Closed(s, f[i])
           Bad == {i \in 0..n : ~Good(i)}
<1>2. ASSUME Bad # {} PROVE FALSE
  <2>1. PICK k \in Bad : \A j \in Bad : k <= j
    <3>1. Bad \subseteq Nat
      OBVIOUS
    <3> HIDE DEF Bad
    <3> QED
      BY <1>2, <3>1, LeastNat
  <2>2. PICK i \in 0..n : ~Good(i) /\ \A j \in 0..n : ~Good(j) => i <= j
    <3> HIDE DEF Good
    <3> QED
      BY <2>1
  <2> HIDE DEF Bad
  <2>3. CASE i = 0
    <3>1. f[i] = s
      BY <1>1, <2>3, AfterStep
    <3> QED
      BY <2>2, <3>1, ClosedNothing
  <2>4. CASE i # 0
    <3>1. i - 1 \in 0..n /\ ~(i <= i - 1)
      BY <2>4
    <3>2. Good(i - 1)
      <4> HIDE DEF Good
      <4> QED
        BY <2>2, <3>1
    <3>3. f[i] = ClosePaneOf(f[i - 1], panes[i])
      BY <1>1, <2>4, AfterStep
    <3>4. Sound(f[i]) /\ Closed(f[i - 1], f[i])
      BY <3>2, <3>3, ClosesPane
    <3>5. s \in Shell /\ f[i - 1] \in Shell /\ f[i] \in Shell
      BY <3>2, <3>4 DEF Sound, Tidy
    <3>6. Closed(s, f[i])
      BY <3>2, <3>4, <3>5, ClosedTwice
    <3> QED
      BY <2>2, <3>4, <3>6
  <2> QED
    BY <2>3, <2>4
<1>3. Good(n)
  <2> HIDE DEF Good
  <2>1. n \in 0..n
    OBVIOUS
  <2> QED
    BY <1>2, <2>1
<1> QED
  BY <1>1, <1>3

\* A shell of these fields is one.
LEMMA IsShell ==
  ASSUME NEW s \in Shell, NEW r,
         r = [order |-> r.order, active |-> r.active, quit |-> r.quit, tabs |-> r.tabs,
              activeTab |-> r.activeTab, panes |-> r.panes, focused |-> r.focused,
              shut |-> r.shut],
         r.order \in Seq(Window), r.active \in Window \cup {None}, r.quit \in BOOLEAN,
         r.shut \subseteq Pane,
         r.tabs \in [Window -> Seq(Tab)], r.activeTab \in [Window -> Tab \cup {None}],
         r.panes \in [Tab -> Seq(Pane)], r.focused \in [Tab -> Pane \cup {None}]
  PROVE  r \in Shell
BY DEF Shell

\* The fields of a shell.
LEMMA FieldsType ==
  ASSUME NEW s \in Shell
  PROVE  /\ s.order \in Seq(Window) /\ s.active \in Window \cup {None} /\ s.quit \in BOOLEAN
         /\ s.shut \subseteq Pane
         /\ s.tabs \in [Window -> Seq(Tab)] /\ s.activeTab \in [Window -> Tab \cup {None}]
         /\ s.panes \in [Tab -> Seq(Pane)] /\ s.focused \in [Tab -> Pane \cup {None}]
BY DEF Shell

\* A window with fresh ids adds a tab and a pane and nothing else.
LEMMA OpensAWindow ==
  ASSUME NEW s, Sound(s), NEW w \in Window, NEW t \in Tab, NEW p \in Pane,
         w \notin Windows(s), t \notin OpenTabs(s), p \notin OpenPanes(s),
         NEW r, r = OpenWindow(s, w, t, p)
  PROVE  /\ Sound(r) /\ Windows(r) = Windows(s) \cup {w} /\ OpenTabs(r) = OpenTabs(s) \cup {t}
         /\ OpenPanes(r) = OpenPanes(s) \cup {p} /\ r.shut = s.shut /\ r.quit = s.quit
         /\ r.active = w
<1>1. s \in Shell /\ Tidy(s)
  BY DEF Sound, Tidy
<1>2. /\ r.order = Append(s.order, w) /\ r.active = w /\ r.shut = s.shut /\ r.quit = s.quit
      /\ r.tabs = [s.tabs EXCEPT ![w] = <<t>>]
      /\ r.activeTab = [s.activeTab EXCEPT ![w] = t]
      /\ r.panes = [s.panes EXCEPT ![t] = <<p>>]
      /\ r.focused = [s.focused EXCEPT ![t] = p]
  BY <1>1 DEF Shell, OpenWindow
<1>r. r = [order |-> r.order, active |-> r.active, quit |-> r.quit, tabs |-> r.tabs,
           activeTab |-> r.activeTab, panes |-> r.panes, focused |-> r.focused,
           shut |-> r.shut]
  BY <1>1 DEF Shell, OpenWindow
<1>3. r.order \in Seq(Window) /\ Windows(r) = Windows(s) \cup {w} /\ Distinct(r.order)
  <2>1. s.order \in Seq(Window) /\ Distinct(s.order)
    BY <1>1, FieldsType DEF Tidy
  <2> QED
    BY <1>2, <2>1, ElemsAppend DEF Windows
<1>4. /\ <<t>> \in Seq(Tab) /\ Elems(<<t>>) = {t} /\ Distinct(<<t>>)
      /\ <<p>> \in Seq(Pane) /\ Elems(<<p>>) = {p} /\ Distinct(<<p>>)
  BY ElemsOne
<1>5. r \in Shell
  <2>1. r.tabs \in [Window -> Seq(Tab)] /\ r.panes \in [Tab -> Seq(Pane)]
    BY <1>1, <1>2, <1>4, FieldsType
  <2>2. r.activeTab \in [Window -> Tab \cup {None}] /\ r.focused \in [Tab -> Pane \cup {None}]
    BY <1>1, <1>2, FieldsType
  <2>3. r.active \in Window \cup {None} /\ r.quit \in BOOLEAN /\ r.shut \subseteq Pane
    BY <1>1, <1>2, FieldsType
  <2> QED
    BY <1>1, <1>3, <1>r, <2>1, <2>2, <2>3, IsShell
<1>6. /\ TabsOf(r, w) = {t} /\ Distinct(r.tabs[w]) /\ r.activeTab[w] = t
      /\ \A v \in Windows(s) : r.tabs[v] = s.tabs[v] /\ TabsOf(r, v) = TabsOf(s, v)
                               /\ r.activeTab[v] = s.activeTab[v]
  <2>1. r.tabs[w] = <<t>> /\ r.activeTab[w] = t
    BY <1>1, <1>2, FieldsType
  <2>2. Windows(s) \subseteq Window \ {w}
    BY <1>1, ShellType
  <2>3. \A v \in Windows(s) : r.tabs[v] = s.tabs[v] /\ r.activeTab[v] = s.activeTab[v]
    BY <1>1, <1>2, <2>2, FieldsType
  <2> QED
    BY <1>4, <2>1, <2>3 DEF TabsOf
<1>7. OpenTabs(s) \subseteq Tab \ {t}
  BY <1>1, OpenType
<1>8. /\ PanesOf(r, t) = {p} /\ Distinct(r.panes[t]) /\ r.focused[t] = p
      /\ \A u \in OpenTabs(s) : r.panes[u] = s.panes[u] /\ PanesOf(r, u) = PanesOf(s, u)
                                /\ r.focused[u] = s.focused[u]
  BY <1>1, <1>2, <1>4, <1>7, FieldsType DEF PanesOf
<1>9. OpenTabs(r) = OpenTabs(s) \cup {t}
  BY <1>3, <1>6, OpenIff
<1>10. OpenPanes(r) = OpenPanes(s) \cup {p}
  BY <1>8, <1>9, OpenIff
<1>11. Tidy(r)
  <2>1. \A v \in Windows(r) : Distinct(r.tabs[v])
    BY <1>1, <1>3, <1>6 DEF Tidy
  <2>2. \A v, u \in Windows(r) : \A x \in TabsOf(r, v) : x \in TabsOf(r, u) => v = u
    BY <1>1, <1>3, <1>6, OpenIff DEF Tidy
  <2>3. \A u \in OpenTabs(r) : Distinct(r.panes[u])
    BY <1>1, <1>8, <1>9 DEF Tidy
  <2>4. \A x, u \in OpenTabs(r) : \A q \in PanesOf(r, x) : q \in PanesOf(r, u) => x = u
    BY <1>1, <1>8, <1>9, OpenIff DEF Tidy
  <2> QED
    BY <1>3, <1>5, <2>1, <2>2, <2>3, <2>4 DEF Tidy
<1>12. FocusBut(r, None)
  <2>1. \A u \in OpenTabs(r) : r.focused[u] \in PanesOf(r, u)
    BY <1>8, <1>9, SoundFocus
  <2>2. \A v \in Windows(r) : r.activeTab[v] \in TabsOf(r, v)
    BY <1>3, <1>6, SoundFocus
  <2> QED
    BY <2>1, <2>2, OpenIff DEF FocusBut
<1> QED
  BY <1>2, <1>3, <1>9, <1>10, <1>11, <1>12 DEF Sound

\* A tab with fresh ids goes last in its window.
LEMMA OpensATab ==
  ASSUME NEW s, Sound(s), NEW w \in Windows(s), NEW t \in Tab, NEW p \in Pane,
         t \notin OpenTabs(s), p \notin OpenPanes(s), NEW r, r = OpenTab(s, w, t, p)
  PROVE  /\ Sound(r) /\ Windows(r) = Windows(s) /\ OpenTabs(r) = OpenTabs(s) \cup {t}
         /\ OpenPanes(r) = OpenPanes(s) \cup {p} /\ r.shut = s.shut /\ r.quit = s.quit
         /\ r.active = w
<1>1. s \in Shell /\ Tidy(s) /\ w \in Window
  BY ShellType DEF Sound, Tidy
<1>2. PICK tabs : tabs = Append(s.tabs[w], t)
  OBVIOUS
<1>3. /\ r.order = s.order /\ r.active = w /\ r.shut = s.shut /\ r.quit = s.quit
      /\ r.tabs = [s.tabs EXCEPT ![w] = tabs]
      /\ r.activeTab = [s.activeTab EXCEPT ![w] = t]
      /\ r.panes = [s.panes EXCEPT ![t] = <<p>>]
      /\ r.focused = [s.focused EXCEPT ![t] = p]
  BY <1>1, <1>2 DEF Shell, OpenTab
<1>r. r = [order |-> r.order, active |-> r.active, quit |-> r.quit, tabs |-> r.tabs,
           activeTab |-> r.activeTab, panes |-> r.panes, focused |-> r.focused,
           shut |-> r.shut]
  BY <1>1, <1>2 DEF Shell, OpenTab
<1>4. /\ tabs \in Seq(Tab) /\ Elems(tabs) = TabsOf(s, w) \cup {t} /\ Distinct(tabs)
      /\ <<p>> \in Seq(Pane) /\ Elems(<<p>>) = {p} /\ Distinct(<<p>>)
  <2>1. s.tabs[w] \in Seq(Tab) /\ Distinct(s.tabs[w]) /\ t \notin Elems(s.tabs[w])
    BY <1>1, ShellType, OpenIff DEF Tidy, TabsOf
  <2> QED
    BY <1>2, <2>1, ElemsAppend, ElemsOne DEF TabsOf
<1>5. r \in Shell
  <2>1. r.tabs \in [Window -> Seq(Tab)] /\ r.panes \in [Tab -> Seq(Pane)]
    BY <1>1, <1>3, <1>4, FieldsType
  <2>2. r.activeTab \in [Window -> Tab \cup {None}] /\ r.focused \in [Tab -> Pane \cup {None}]
    BY <1>1, <1>3, FieldsType
  <2>3. /\ r.active \in Window \cup {None} /\ r.quit \in BOOLEAN /\ r.shut \subseteq Pane
        /\ r.order \in Seq(Window)
    BY <1>1, <1>3, FieldsType
  <2> QED
    BY <1>1, <1>r, <2>1, <2>2, <2>3, IsShell
<1>6. Windows(r) = Windows(s)
  BY <1>3 DEF Windows
<1>7. /\ TabsOf(r, w) = TabsOf(s, w) \cup {t} /\ Distinct(r.tabs[w]) /\ r.activeTab[w] = t
      /\ \A v \in Windows(s) \ {w} :
           r.tabs[v] = s.tabs[v] /\ TabsOf(r, v) = TabsOf(s, v)
           /\ r.activeTab[v] = s.activeTab[v]
  BY <1>1, <1>3, <1>4, FieldsType, ShellType DEF TabsOf
<1>8. OpenTabs(s) \subseteq Tab \ {t}
  BY <1>1, OpenType
<1>9. /\ PanesOf(r, t) = {p} /\ Distinct(r.panes[t]) /\ r.focused[t] = p
      /\ \A u \in OpenTabs(s) : r.panes[u] = s.panes[u] /\ PanesOf(r, u) = PanesOf(s, u)
                                /\ r.focused[u] = s.focused[u]
  BY <1>1, <1>3, <1>4, <1>8, FieldsType DEF PanesOf
<1>10. OpenTabs(r) = OpenTabs(s) \cup {t}
  BY <1>6, <1>7, OpenIff
<1>11. OpenPanes(r) = OpenPanes(s) \cup {p}
  BY <1>9, <1>10, OpenIff
<1>12. Tidy(r)
  <2>1. Distinct(r.order) /\ \A v \in Windows(r) : Distinct(r.tabs[v])
    BY <1>1, <1>3, <1>6, <1>7 DEF Tidy
  <2>2. \A v, u \in Windows(r) : \A x \in TabsOf(r, v) : x \in TabsOf(r, u) => v = u
    BY <1>1, <1>6, <1>7, OpenIff DEF Tidy
  <2>3. \A u \in OpenTabs(r) : Distinct(r.panes[u])
    BY <1>1, <1>9, <1>10 DEF Tidy
  <2>4. \A x, u \in OpenTabs(r) : \A q \in PanesOf(r, x) : q \in PanesOf(r, u) => x = u
    BY <1>1, <1>9, <1>10, OpenIff DEF Tidy
  <2> QED
    BY <1>5, <2>1, <2>2, <2>3, <2>4 DEF Tidy
<1>13. FocusBut(r, None)
  <2>1. \A u \in OpenTabs(r) : r.focused[u] \in PanesOf(r, u)
    BY <1>9, <1>10, SoundFocus
  <2>2. \A v \in Windows(r) : r.activeTab[v] \in TabsOf(r, v)
    BY <1>6, <1>7, SoundFocus
  <2> QED
    BY <2>1, <2>2, OpenIff DEF FocusBut
<1> QED
  BY <1>3, <1>6, <1>10, <1>11, <1>12, <1>13 DEF Sound

\* A split adds its pane to the tab and nothing else.
LEMMA SplitsAPane ==
  ASSUME NEW s, Sound(s), NEW t \in OpenTabs(s), NEW p \in Pane, p \notin OpenPanes(s),
         NEW r, r = SplitPane(s, t, p)
  PROVE  /\ Sound(r) /\ Windows(r) = Windows(s) /\ OpenTabs(r) = OpenTabs(s)
         /\ OpenPanes(r) = OpenPanes(s) \cup {p} /\ r.shut = s.shut /\ r.quit = s.quit
         /\ r.active = s.active
<1>1. s \in Shell /\ Tidy(s) /\ t \in Tab /\ OpenTabs(s) \subseteq Tab
  BY OpenType DEF Sound, Tidy
<1>2. PICK panes : panes = InsertAfter(s.panes[t], s.focused[t], p)
  OBVIOUS
<1>3. /\ r.order = s.order /\ r.active = s.active /\ r.shut = s.shut /\ r.quit = s.quit
      /\ r.tabs = s.tabs /\ r.activeTab = s.activeTab
      /\ r.panes = [s.panes EXCEPT ![t] = panes]
      /\ r.focused = [s.focused EXCEPT ![t] = p]
  BY <1>1, <1>2 DEF Shell, SplitPane
<1>r. r = [order |-> r.order, active |-> r.active, quit |-> r.quit, tabs |-> r.tabs,
           activeTab |-> r.activeTab, panes |-> r.panes, focused |-> r.focused,
           shut |-> r.shut]
  BY <1>1, <1>2 DEF Shell, SplitPane
<1>4. panes \in Seq(Pane) /\ Elems(panes) = PanesOf(s, t) \cup {p} /\ Distinct(panes)
  <2>1. s.panes[t] \in Seq(Pane) /\ Distinct(s.panes[t]) /\ p \notin Elems(s.panes[t])
    BY <1>1, ShellType, OpenIff DEF Tidy, PanesOf
  <2>2. s.focused[t] \in Elems(s.panes[t])
    BY SoundFocus DEF PanesOf
  <2> QED
    BY <1>2, <2>1, <2>2, InsertElems DEF PanesOf
<1>5. r \in Shell
  <2>1. r.panes \in [Tab -> Seq(Pane)] /\ r.focused \in [Tab -> Pane \cup {None}]
    BY <1>1, <1>3, <1>4, FieldsType
  <2> QED
    BY <1>1, <1>3, <2>1, FieldsType, <1>r, IsShell
<1>6. Windows(r) = Windows(s) /\ OpenTabs(r) = OpenTabs(s) /\ \A v : TabsOf(r, v) = TabsOf(s, v)
  BY <1>3 DEF Windows, OpenTabs, TabsOf
<1>7. /\ PanesOf(r, t) = PanesOf(s, t) \cup {p} /\ Distinct(r.panes[t]) /\ r.focused[t] = p
      /\ \A u \in OpenTabs(s) \ {t} :
           r.panes[u] = s.panes[u] /\ PanesOf(r, u) = PanesOf(s, u)
           /\ r.focused[u] = s.focused[u]
  BY <1>1, <1>3, <1>4, FieldsType DEF PanesOf
<1>8. OpenPanes(r) = OpenPanes(s) \cup {p}
  BY <1>6, <1>7, OpenIff
<1>9. Tidy(r)
  <2>1. Distinct(r.order) /\ \A v \in Windows(r) : Distinct(r.tabs[v])
    BY <1>1, <1>3, <1>6 DEF Tidy
  <2>2. \A v, u \in Windows(r) : \A x \in TabsOf(r, v) : x \in TabsOf(r, u) => v = u
    BY <1>1, <1>6 DEF Tidy
  <2>3. \A u \in OpenTabs(r) : Distinct(r.panes[u])
    BY <1>1, <1>6, <1>7 DEF Tidy
  <2>4. \A x, u \in OpenTabs(r) : \A q \in PanesOf(r, x) : q \in PanesOf(r, u) => x = u
    BY <1>1, <1>6, <1>7, OpenIff DEF Tidy
  <2> QED
    BY <1>5, <2>1, <2>2, <2>3, <2>4 DEF Tidy
<1>10. FocusBut(r, None)
  <2>1. \A u \in OpenTabs(r) : r.focused[u] \in PanesOf(r, u)
    BY <1>6, <1>7, SoundFocus
  <2>2. \A v \in Windows(r) : r.activeTab[v] \in TabsOf(r, v)
    BY <1>3, <1>6, SoundFocus
  <2> QED
    BY <2>1, <2>2, OpenIff DEF FocusBut
<1> QED
  BY <1>3, <1>6, <1>8, <1>9, <1>10 DEF Sound

\* A shell with the windows, tabs and panes of another.
SameThings(s, r) ==
  /\ Windows(r) = Windows(s) /\ OpenTabs(r) = OpenTabs(s) /\ OpenPanes(r) = OpenPanes(s)
  /\ r.order = s.order

\* Moving the focus to what is there, shutting sessions down and asking to quit
\* leave the windows, tabs and panes as they are.
LEMMA Refocused ==
  ASSUME NEW s, Sound(s), NEW r \in Shell,
         r.order = s.order, r.tabs = s.tabs, r.panes = s.panes,
         \A w \in Windows(s) : r.activeTab[w] \in TabsOf(s, w),
         \A t \in OpenTabs(s) : r.focused[t] \in PanesOf(s, t)
  PROVE  Sound(r) /\ SameThings(s, r)
<1>1. /\ Windows(r) = Windows(s) /\ OpenTabs(r) = OpenTabs(s) /\ OpenPanes(r) = OpenPanes(s)
      /\ \A w : TabsOf(r, w) = TabsOf(s, w) /\ \A t : PanesOf(r, t) = PanesOf(s, t)
  BY DEF Windows, OpenTabs, OpenPanes, TabsOf, PanesOf
<1>2. Tidy(r)
  BY <1>1 DEF Sound, Tidy
<1>3. FocusBut(r, None)
  BY <1>1, OpenIff DEF FocusBut
<1> QED
  BY <1>1, <1>2, <1>3 DEF Sound, SameThings

\* The tabs of a window cycle, the panes of a tab are focused.
LEMMA ActivatesTab ==
  ASSUME NEW s, Sound(s), NEW w \in Windows(s), NEW t \in TabsOf(s, w),
         NEW r, r = [s EXCEPT !.activeTab[w] = t]
  PROVE  Sound(r) /\ SameThings(s, r) /\ r.shut = s.shut /\ r.quit = s.quit /\ r.active = s.active
<1>1. s \in Shell /\ w \in Window /\ t \in Tab
  BY ShellType DEF Sound, Tidy
<1>2. /\ r.order = s.order /\ r.active = s.active /\ r.shut = s.shut /\ r.quit = s.quit
      /\ r.tabs = s.tabs /\ r.panes = s.panes /\ r.focused = s.focused
      /\ r.activeTab = [s.activeTab EXCEPT ![w] = t]
  BY <1>1 DEF Shell
<1>r. r = [order |-> r.order, active |-> r.active, quit |-> r.quit, tabs |-> r.tabs,
           activeTab |-> r.activeTab, panes |-> r.panes, focused |-> r.focused,
           shut |-> r.shut]
  BY <1>1 DEF Shell
<1>3. r \in Shell
  <2>1. r.activeTab \in [Window -> Tab \cup {None}]
    BY <1>1, <1>2, FieldsType
  <2> QED
    BY <1>1, <1>2, <2>1, FieldsType, <1>r, IsShell
<1>4. \A v \in Windows(s) : r.activeTab[v] \in TabsOf(s, v)
  BY <1>1, <1>2, FieldsType, ShellType, SoundFocus
<1> QED
  BY <1>2, <1>3, <1>4, SoundFocus, Refocused

\* A pane of a tab is focused.
LEMMA FocusesPane ==
  ASSUME NEW s, Sound(s), NEW t \in OpenTabs(s), NEW p \in PanesOf(s, t),
         NEW r, r = [s EXCEPT !.focused[t] = p]
  PROVE  Sound(r) /\ SameThings(s, r) /\ r.shut = s.shut /\ r.quit = s.quit /\ r.active = s.active
<1>1. s \in Shell /\ t \in Tab /\ p \in Pane /\ OpenTabs(s) \subseteq Tab
  <2>1. s \in Shell
    BY DEF Sound, Tidy
  <2> QED
    BY <2>1, OpenType, ShellType
<1>2. /\ r.order = s.order /\ r.active = s.active /\ r.shut = s.shut /\ r.quit = s.quit
      /\ r.tabs = s.tabs /\ r.panes = s.panes /\ r.activeTab = s.activeTab
      /\ r.focused = [s.focused EXCEPT ![t] = p]
  BY <1>1 DEF Shell
<1>r. r = [order |-> r.order, active |-> r.active, quit |-> r.quit, tabs |-> r.tabs,
           activeTab |-> r.activeTab, panes |-> r.panes, focused |-> r.focused,
           shut |-> r.shut]
  BY <1>1 DEF Shell
<1>3. r \in Shell
  <2>1. r.focused \in [Tab -> Pane \cup {None}]
    BY <1>1, <1>2, FieldsType
  <2> QED
    BY <1>1, <1>2, <2>1, FieldsType, <1>r, IsShell
<1>4. \A u \in OpenTabs(s) : r.focused[u] \in PanesOf(s, u)
  BY <1>1, <1>2, FieldsType, SoundFocus
<1> QED
  BY <1>2, <1>3, <1>4, SoundFocus, Refocused

\* A window is made active.
LEMMA ActivatesWindow ==
  ASSUME NEW s, Sound(s), NEW w \in Window \cup {None}, NEW r, r = [s EXCEPT !.active = w]
  PROVE  Sound(r) /\ SameThings(s, r) /\ r.shut = s.shut /\ r.quit = s.quit /\ r.active = w
<1>1. s \in Shell
  BY DEF Sound, Tidy
<1>2. /\ r.order = s.order /\ r.active = w /\ r.shut = s.shut /\ r.quit = s.quit
      /\ r.tabs = s.tabs /\ r.panes = s.panes /\ r.activeTab = s.activeTab
      /\ r.focused = s.focused
  BY <1>1 DEF Shell
<1>r. r = [order |-> r.order, active |-> r.active, quit |-> r.quit, tabs |-> r.tabs,
           activeTab |-> r.activeTab, panes |-> r.panes, focused |-> r.focused,
           shut |-> r.shut]
  BY <1>1 DEF Shell
<1>3. r \in Shell
  BY <1>1, <1>2, FieldsType, <1>r, IsShell
<1> QED
  BY <1>2, <1>3, SoundFocus, Refocused

\* Asking to quit, with these sessions shut down.
QuitWith(s, shut) == [s EXCEPT !.quit = TRUE, !.shut = shut]

\* It leaves the windows, tabs and panes as they are.
LEMMA ShutsDown ==
  ASSUME NEW s, Sound(s), NEW shut \in SUBSET Pane,
         NEW r, r = QuitWith(s, shut)
  PROVE  Sound(r) /\ SameThings(s, r) /\ r.shut = shut /\ r.quit /\ r.active = s.active
<1>1. s \in Shell
  BY DEF Sound, Tidy
<1>2. /\ r.order = s.order /\ r.active = s.active /\ r.shut = shut /\ r.quit = TRUE
      /\ r.tabs = s.tabs /\ r.panes = s.panes /\ r.activeTab = s.activeTab
      /\ r.focused = s.focused
  BY <1>1 DEF Shell, QuitWith
<1>r. r = [order |-> r.order, active |-> r.active, quit |-> r.quit, tabs |-> r.tabs,
           activeTab |-> r.activeTab, panes |-> r.panes, focused |-> r.focused,
           shut |-> r.shut]
  BY <1>1 DEF Shell, QuitWith
<1>3. r \in Shell
  BY <1>1, <1>2, FieldsType, <1>r, IsShell
<1>4. Sound(r) /\ SameThings(s, r)
  BY <1>2, <1>3, SoundFocus, Refocused
<1>5. r.quit
  BY <1>2
<1> QED
  BY <1>2, <1>4, <1>5

\* AppModel::focus_pane of an open pane leads down to it.
LEMMA FocusesOpenPane ==
  ASSUME NEW s, Sound(s), NEW p \in OpenPanes(s), NEW r, r = FocusPaneOf(s, p)
  PROVE  /\ Sound(r) /\ SameThings(s, r) /\ r.shut = s.shut /\ r.quit = s.quit
         /\ r.active \in Windows(r)
<1>1. PICK t : t = TabOfPane(s, p)
  OBVIOUS
<1>2. PICK w : w = WindowOfTab(s, t)
  OBVIOUS
<1>3. t \in OpenTabs(s) /\ p \in PanesOf(s, t) /\ w \in Windows(s) /\ t \in TabsOf(s, w)
  BY <1>1, <1>2, TabOfPaneType, WindowOfTabType
<1>4. s \in Shell /\ w \in Window
  BY <1>3, ShellType DEF Sound, Tidy
<1>5. PICK a : a = [s EXCEPT !.focused[t] = p]
  OBVIOUS
<1>6. PICK b : b = [a EXCEPT !.activeTab[w] = t]
  OBVIOUS
<1>7. r = [b EXCEPT !.active = w]
  BY <1>1, <1>2, <1>4, <1>5, <1>6 DEF FocusPaneOf, Shell
<1>8. Sound(a) /\ SameThings(s, a) /\ a.shut = s.shut /\ a.quit = s.quit
  BY <1>3, <1>5, FocusesPane
<1>9. w \in Windows(a) /\ t \in TabsOf(a, w)
  BY <1>3, <1>4, <1>5, <1>8 DEF SameThings, TabsOf, Shell
<1>10. Sound(b) /\ SameThings(a, b) /\ b.shut = a.shut /\ b.quit = a.quit
  BY <1>6, <1>8, <1>9, ActivatesTab
<1>11. Sound(r) /\ SameThings(b, r) /\ r.shut = b.shut /\ r.quit = b.quit /\ r.active = w
  BY <1>4, <1>7, <1>10, ActivatesWindow
<1> QED
  BY <1>3, <1>8, <1>10, <1>11 DEF SameThings

\* Shutting sessions down leaves the windows, tabs and panes as they are.
LEMMA ShutsOnly ==
  ASSUME NEW s, Sound(s), NEW shut \in SUBSET Pane, NEW r, r = [s EXCEPT !.shut = shut]
  PROVE  Sound(r) /\ SameThings(s, r) /\ r.shut = shut /\ r.quit = s.quit /\ r.active = s.active
<1>1. s \in Shell
  BY DEF Sound, Tidy
<1>2. /\ r.order = s.order /\ r.active = s.active /\ r.shut = shut /\ r.quit = s.quit
      /\ r.tabs = s.tabs /\ r.panes = s.panes /\ r.activeTab = s.activeTab
      /\ r.focused = s.focused
  BY <1>1 DEF Shell
<1>r. r = [order |-> r.order, active |-> r.active, quit |-> r.quit, tabs |-> r.tabs,
           activeTab |-> r.activeTab, panes |-> r.panes, focused |-> r.focused,
           shut |-> r.shut]
  BY <1>1, <1>2 DEF Shell
<1>3. r \in Shell
  BY <1>1, <1>2, FieldsType, <1>r, IsShell
<1> QED
  BY <1>2, <1>3, SoundFocus, Refocused

-----------------------------------------------------------------------------
(* Restoring.                                                              *)

\* The ids of an order of saved things.
LEMMA IdsElems ==
  ASSUME NEW S, NEW s, Len(s) \in Nat, \A i \in 1..Len(s) : s[i].id \in S
  PROVE  /\ IdsOf(s) \in Seq(S) /\ Len(IdsOf(s)) = Len(s)
         /\ \A i \in 1..Len(s) : IdsOf(s)[i] = s[i].id
         /\ Elems(IdsOf(s)) = Ided(Elems(s))
<1>1. /\ IdsOf(s) \in Seq(S) /\ Len(IdsOf(s)) = Len(s)
      /\ \A i \in 1..Len(s) : IdsOf(s)[i] = s[i].id
  BY DEF IdsOf
<1> DEFINE Their == {s[i].id : i \in 1..Len(s)}
<1>2. Elems(IdsOf(s)) = Their
  BY <1>1 DEF Elems
<1>3. Ided(Elems(s)) = Their
  BY DEF Ided, Elems
<1>4. Elems(IdsOf(s)) = Ided(Elems(s))
  <2> HIDE DEF Their
  <2> QED
    BY <1>2, <1>3
<1> QED
  BY <1>1, <1>4

\* Elements with distinct ids are told apart by them.
LEMMA IdsTellApart ==
  ASSUME NEW S, NEW s, Len(s) \in Nat, \A i \in 1..Len(s) : s[i].id \in S,
         Distinct(IdsOf(s)), NEW x \in Elems(s), NEW y \in Elems(s), x.id = y.id
  PROVE  x = y
<1>1. PICK i \in 1..Len(s) : x = s[i]
  BY DEF Elems
<1>2. PICK j \in 1..Len(s) : y = s[j]
  BY DEF Elems
<1>3. Len(IdsOf(s)) = Len(s) /\ IdsOf(s)[i] = s[i].id /\ IdsOf(s)[j] = s[j].id
  BY DEF IdsOf
<1>4. IdsOf(s)[i] = IdsOf(s)[j]
  BY <1>1, <1>2, <1>3
<1>5. i = j
  BY <1>3, <1>4 DEF Distinct
<1> QED
  BY <1>1, <1>2, <1>5

\* What has an id of its own is found by it.
LEMMA WithIdIs ==
  ASSUME NEW S, NEW x \in S, \A y \in S : y.id = x.id => y = x
  PROVE  WithId(S, x.id) = x
BY DEF WithId

\* What is known of the parts of a saved shell that is restored in full.
WholeWindows(windows) ==
  /\ windows \in Seq(SavedWindow)
  /\ \A v, w \in Elems(windows) : v.id = w.id => v = w
  /\ Distinct(IdsOf(windows))
  /\ \A v \in Elems(windows) : v.tabs # <<>> /\ Distinct(IdsOf(v.tabs))
  /\ \A v, w \in Elems(windows) : \A t \in Elems(v.tabs) : \A u \in Elems(w.tabs) :
       /\ t.id = u.id => v = w /\ t = u
       /\ \A p \in Elems(t.panes) : p \in Elems(u.panes) => t = u
  /\ \A t \in SavedTabs(windows) :
       Distinct(t.panes) /\ t.panes # <<>> /\ FocusOf(t) \in Elems(t.panes)

\* What the parts of saved windows are.
LEMMA SavedParts ==
  ASSUME NEW windows \in Seq(SavedWindow)
  PROVE  /\ Len(windows) \in Nat /\ Elems(windows) \subseteq SavedWindow
         /\ \A i \in 1..Len(windows) : windows[i].id \in Window
         /\ \A v \in Elems(windows) :
              /\ v.id \in Window /\ v.tabs \in Seq(SavedTab) /\ Elems(v.tabs) \subseteq SavedTab
              /\ Len(v.tabs) \in Nat /\ \A i \in 1..Len(v.tabs) : v.tabs[i].id \in Tab
              /\ v.active \in Nat
         /\ SavedTabs(windows) \subseteq SavedTab
         /\ \A t \in SavedTabs(windows) :
              t.id \in Tab /\ t.panes \in Seq(Pane) /\ t.focused \in Pane \cup {None}
         /\ \A t : t \in SavedTabs(windows) <=> \E v \in Elems(windows) : t \in Elems(v.tabs)
<1>1. Len(windows) \in Nat /\ \A i \in 1..Len(windows) : windows[i] \in SavedWindow
  OBVIOUS
<1>2. Elems(windows) \subseteq SavedWindow
  BY <1>1 DEF Elems
<1>3. \A v \in SavedWindow : v.id \in Window /\ v.tabs \in Seq(SavedTab) /\ v.active \in Nat
  BY DEF SavedWindow
<1>4. \A t \in SavedTab : t.id \in Tab /\ t.panes \in Seq(Pane) /\ t.focused \in Pane \cup {None}
  BY DEF SavedTab
<1>5. \A v \in Elems(windows) :
        /\ v.tabs \in Seq(SavedTab) /\ Elems(v.tabs) \subseteq SavedTab
        /\ Len(v.tabs) \in Nat /\ \A i \in 1..Len(v.tabs) : v.tabs[i].id \in Tab
  <2> SUFFICES ASSUME NEW v \in Elems(windows)
               PROVE  /\ v.tabs \in Seq(SavedTab) /\ Elems(v.tabs) \subseteq SavedTab
                      /\ Len(v.tabs) \in Nat /\ \A i \in 1..Len(v.tabs) : v.tabs[i].id \in Tab
    OBVIOUS
  <2>1. v.tabs \in Seq(SavedTab)
    BY <1>2, <1>3
  <2>2. Elems(v.tabs) \subseteq SavedTab /\ Len(v.tabs) \in Nat
    BY <2>1, ElemsType
  <2>3. \A i \in 1..Len(v.tabs) : v.tabs[i] \in SavedTab
    BY <2>1
  <2> QED
    BY <1>4, <2>1, <2>2, <2>3
<1>6. \A t : t \in SavedTabs(windows) <=> \E v \in Elems(windows) : t \in Elems(v.tabs)
  BY DEF SavedTabs
<1>7. SavedTabs(windows) \subseteq SavedTab
  BY <1>5, <1>6
<1>8. \A i \in 1..Len(windows) : windows[i].id \in Window
  BY <1>1, <1>3
<1> QED
  BY <1>1, <1>2, <1>3, <1>4, <1>5, <1>6, <1>7, <1>8

\* A saved shell without an invalid tab is restored in full.
LEMMA WholeIsWhole ==
  ASSUME NEW saved \in SavedStates, Torn(saved.windows) = {}
  PROVE  WholeWindows(saved.windows)
<1>1. PICK windows : windows = saved.windows
  OBVIOUS
<1>2. windows \in Seq(SavedWindow) /\ IsSnapshot(saved)
  BY <1>1, SavedAssumption DEF Saved
<1>3. /\ Distinct(IdsOf(windows))
      /\ \A v \in Elems(windows) : v.tabs # <<>> /\ Distinct(IdsOf(v.tabs))
      /\ \A v, w \in Elems(windows) : \A t \in Elems(v.tabs), u \in Elems(w.tabs) :
           /\ t.id = u.id => v.id = w.id
           /\ t.fits => t.panes # <<>> /\ Distinct(t.panes)
           /\ t.fits /\ u.fits /\ Elems(t.panes) \cap Elems(u.panes) # {} => t.id = u.id
  BY <1>1, <1>2 DEF IsSnapshot
<1>4. \A v, w \in Elems(windows) : v.id = w.id => v = w
  <2> SUFFICES ASSUME NEW v \in Elems(windows), NEW w \in Elems(windows), v.id = w.id
               PROVE  v = w
    OBVIOUS
  <2>1. Len(windows) \in Nat /\ \A i \in 1..Len(windows) : windows[i].id \in Window
    BY <1>2, SavedParts
  <2> QED
    BY <1>3, <2>1, IdsTellApart
<1>5. \A t \in SavedTabs(windows) : Valid(t)
  <2> SUFFICES ASSUME NEW v \in Elems(windows), NEW t \in Elems(v.tabs) PROVE Valid(t)
    BY DEF SavedTabs
  <2>1. PICK i \in 1..Len(windows) : v = windows[i]
    BY DEF Elems
  <2>2. i \notin Torn(windows)
    BY <1>1
  <2> QED
    BY <2>1, <2>2 DEF Torn
<1>6. \A v \in Elems(windows) : \A t, u \in Elems(v.tabs) : t.id = u.id => t = u
  <2> SUFFICES ASSUME NEW v \in Elems(windows), NEW t \in Elems(v.tabs),
                      NEW u \in Elems(v.tabs), t.id = u.id
               PROVE  t = u
    OBVIOUS
  <2>1. PICK tabs : tabs = v.tabs
    OBVIOUS
  <2>2. Len(tabs) \in Nat /\ \A i \in 1..Len(tabs) : tabs[i].id \in Tab
    BY <1>2, <2>1, SavedParts
  <2>3. Distinct(IdsOf(tabs)) /\ t \in Elems(tabs) /\ u \in Elems(tabs)
    BY <1>3, <2>1
  <2> QED
    BY <2>2, <2>3, IdsTellApart
<1>7. \A v \in Elems(windows) : \A t \in Elems(v.tabs) :
        t \in SavedTabs(windows) /\ t.fits
  <2> SUFFICES ASSUME NEW v \in Elems(windows), NEW t \in Elems(v.tabs)
               PROVE  t \in SavedTabs(windows) /\ t.fits
    OBVIOUS
  <2>1. t \in SavedTabs(windows)
    BY <1>2, SavedParts
  <2> QED
    BY <1>5, <2>1 DEF Valid
<1>8. ASSUME NEW v \in Elems(windows), NEW w \in Elems(windows), NEW t \in Elems(v.tabs),
             NEW u \in Elems(w.tabs)
      PROVE  /\ t.id = u.id => v = w /\ t = u
             /\ \A p \in Elems(t.panes) : p \in Elems(u.panes) => t = u
  <2>1. t.id = u.id => v = w /\ t = u
    BY <1>3, <1>4, <1>6
  <2>2. Elems(t.panes) \cap Elems(u.panes) # {} => t.id = u.id
    BY <1>3, <1>7
  <2> QED
    BY <2>1, <2>2
<1>9. ASSUME NEW t \in SavedTabs(windows)
      PROVE  Distinct(t.panes) /\ t.panes # <<>> /\ FocusOf(t) \in Elems(t.panes)
  <2>1. \E v \in Elems(windows) : t \in Elems(v.tabs)
    BY <1>2, SavedParts
  <2>2. Distinct(t.panes) /\ t.panes # <<>>
    BY <1>3, <1>7, <2>1
  <2>3. t.panes \in Seq(Pane)
    BY <1>2, SavedParts
  <2>4. FirstOf(t.panes) \in Elems(t.panes)
    BY <2>2, <2>3, EndsAreElems
  <2> QED
    BY <1>5, <2>2, <2>4 DEF Valid, FocusOf
<1>10. WholeWindows(windows)
  BY <1>2, <1>3, <1>4, <1>8, <1>9 DEF WholeWindows
<1> QED
  BY <1>1, <1>10

\* The shell rebuilt from it has its windows, tabs and panes, with focus inside.
LEMMA RebuiltIsSound ==
  ASSUME NEW windows, WholeWindows(windows), NEW r, r = Rebuilt(windows)
  PROVE  /\ Sound(r) /\ Windows(r) = Ided(Elems(windows))
         /\ OpenTabs(r) = Ided(SavedTabs(windows))
         /\ OpenPanes(r) = UNION {Elems(t.panes) : t \in SavedTabs(windows)}
         /\ ~r.quit
<1> DEFINE S == Elems(windows)
           T == SavedTabs(windows)
<1>1. /\ windows \in Seq(SavedWindow)
      /\ \A v, w \in S : v.id = w.id => v = w
      /\ Distinct(IdsOf(windows))
      /\ \A v \in S : v.tabs # <<>> /\ Distinct(IdsOf(v.tabs))
      /\ \A v, w \in S : \A t \in Elems(v.tabs) : \A u \in Elems(w.tabs) :
           /\ t.id = u.id => v = w /\ t = u
           /\ \A p \in Elems(t.panes) : p \in Elems(u.panes) => t = u
      /\ \A t \in T : Distinct(t.panes) /\ t.panes # <<>> /\ FocusOf(t) \in Elems(t.panes)
  BY DEF WholeWindows
<1>2. /\ Len(windows) \in Nat /\ \A i \in 1..Len(windows) : windows[i].id \in Window
      /\ \A v \in S : /\ v.id \in Window /\ v.tabs \in Seq(SavedTab) /\ v.active \in Nat
                      /\ Len(v.tabs) \in Nat /\ \A i \in 1..Len(v.tabs) : v.tabs[i].id \in Tab
      /\ \A t \in T : t.id \in Tab /\ t.panes \in Seq(Pane)
      /\ \A t : t \in T <=> \E v \in S : t \in Elems(v.tabs)
  BY <1>1, SavedParts
<1>3. /\ r.order = IdsOf(windows) /\ r.active = None /\ r.quit = FALSE /\ r.shut = {}
      /\ r.tabs = [w \in Window |-> IF w \in Ided(S) THEN IdsOf(WithId(S, w).tabs) ELSE <<>>]
      /\ r.activeTab = [w \in Window |-> IF w \in Ided(S) THEN ActiveOf(WithId(S, w)) ELSE None]
      /\ r.panes = [t \in Tab |-> IF t \in Ided(T) THEN WithId(T, t).panes ELSE <<>>]
      /\ r.focused = [t \in Tab |-> IF t \in Ided(T) THEN FocusOf(WithId(T, t)) ELSE None]
  BY DEF Rebuilt
<1>r. r = [order |-> r.order, active |-> r.active, quit |-> r.quit, tabs |-> r.tabs,
           activeTab |-> r.activeTab, panes |-> r.panes, focused |-> r.focused,
           shut |-> r.shut]
  BY DEF Rebuilt
<1> HIDE DEF S, T
<1>4. \A v \in S : WithId(S, v.id) = v /\ v.id \in Ided(S)
  BY <1>1, WithIdIs DEF Ided
<1>5. \A t, u \in T : t.id = u.id => t = u
  BY <1>1, <1>2
<1>6. \A t \in T : WithId(T, t.id) = t /\ t.id \in Ided(T)
  BY <1>5, WithIdIs DEF Ided
<1>7. \A v \in S : IdsOf(v.tabs) \in Seq(Tab) /\ Elems(IdsOf(v.tabs)) = Ided(Elems(v.tabs))
                   /\ IdsOf(v.tabs) # <<>>
  <2> SUFFICES ASSUME NEW v \in S
               PROVE  IdsOf(v.tabs) \in Seq(Tab) /\ Elems(IdsOf(v.tabs)) = Ided(Elems(v.tabs))
                      /\ IdsOf(v.tabs) # <<>>
    OBVIOUS
  <2>1. PICK tabs : tabs = v.tabs
    OBVIOUS
  <2>2. Len(tabs) \in Nat /\ \A i \in 1..Len(tabs) : tabs[i].id \in Tab
    BY <1>2, <2>1
  <2>3. tabs \in Seq(SavedTab) /\ tabs # <<>>
    BY <1>1, <1>2, <2>1
  <2>4. Len(tabs) # 0
    BY <2>3
  <2>5. IdsOf(tabs) \in Seq(Tab) /\ Elems(IdsOf(tabs)) = Ided(Elems(tabs)) /\ Len(IdsOf(tabs)) = Len(tabs)
    BY <2>2, IdsElems
  <2> QED
    BY <2>1, <2>4, <2>5
<1>8. \A v \in S : ActiveOf(v) \in Elems(IdsOf(v.tabs))
  <2> SUFFICES ASSUME NEW v \in S PROVE ActiveOf(v) \in Elems(IdsOf(v.tabs))
    OBVIOUS
  <2>1. PICK ids : ids = IdsOf(v.tabs)
    OBVIOUS
  <2>2. ids \in Seq(Tab) /\ ids # <<>>
    BY <1>7, <2>1
  <2>3. LastOf(ids) \in Elems(ids) /\ \A i \in 1..Len(ids) : ids[i] \in Elems(ids)
    BY <2>2, EndsAreElems DEF Elems
  <2>4. ActiveOf(v) = IF v.active \in 1..Len(ids) THEN ids[v.active] ELSE LastOf(ids)
    BY <2>1 DEF ActiveOf
  <2> QED
    BY <2>1, <2>3, <2>4
<1>9. \A v \in S : r.tabs[v.id] = IdsOf(v.tabs) /\ r.activeTab[v.id] = ActiveOf(v)
  BY <1>2, <1>3, <1>4
<1>10. \A t \in T : r.panes[t.id] = t.panes /\ r.focused[t.id] = FocusOf(t)
  BY <1>2, <1>3, <1>6
<1>11. Windows(r) = Ided(S) /\ r.order \in Seq(Window)
  BY <1>2, <1>3, IdsElems DEF Windows, S
<1>12. \A v \in S : TabsOf(r, v.id) = Ided(Elems(v.tabs))
  BY <1>7, <1>9 DEF TabsOf
<1>13. \A t \in T : PanesOf(r, t.id) = Elems(t.panes)
  BY <1>10 DEF PanesOf
<1>14. OpenTabs(r) = Ided(T)
  <2>1. \A x : x \in OpenTabs(r) <=> \E w \in Ided(S) : x \in TabsOf(r, w)
    BY <1>11, OpenIff
  <2>2. \A x : x \in OpenTabs(r) <=> \E v \in S : x \in Ided(Elems(v.tabs))
    BY <1>12, <2>1 DEF Ided
  <2> QED
    BY <1>2, <2>2 DEF Ided
<1>15. OpenPanes(r) = UNION {Elems(t.panes) : t \in T}
  <2>1. \A p : p \in OpenPanes(r) <=> \E x \in Ided(T) : p \in PanesOf(r, x)
    BY <1>14, OpenIff
  <2>2. \A p : p \in OpenPanes(r) <=> \E t \in T : p \in Elems(t.panes)
    BY <1>13, <2>1 DEF Ided
  <2> QED
    BY <2>2
<1>16. r \in Shell
  <2>1. r.tabs \in [Window -> Seq(Tab)]
    <3>1. \A w \in Ided(S) : IdsOf(WithId(S, w).tabs) \in Seq(Tab)
      BY <1>4, <1>7 DEF Ided
    <3> QED
      BY <1>3, <3>1, ElemsEmpty
  <2>2. r.activeTab \in [Window -> Tab \cup {None}]
    <3>1. \A v \in S : ActiveOf(v) \in Tab
      BY <1>7, <1>8, ElemsType
    <3>2. \A w \in Ided(S) : ActiveOf(WithId(S, w)) \in Tab
      BY <1>4, <3>1 DEF Ided
    <3> QED
      BY <1>3, <3>2
  <2>3. r.panes \in [Tab -> Seq(Pane)]
    <3>1. \A t \in Ided(T) : WithId(T, t).panes \in Seq(Pane)
      BY <1>2, <1>6 DEF Ided
    <3> QED
      BY <1>3, <3>1, ElemsEmpty
  <2>4. r.focused \in [Tab -> Pane \cup {None}]
    <3>1. \A t \in T : FocusOf(t) \in Pane
      BY <1>1, <1>2, ElemsType DEF T
    <3>2. \A t \in Ided(T) : FocusOf(WithId(T, t)) \in Pane
      BY <1>6, <3>1 DEF Ided
    <3> QED
      BY <1>3, <3>2
  <2>5. r.active \in Window \cup {None} /\ r.quit \in BOOLEAN /\ r.shut \subseteq Pane
    BY <1>3
  <2> QED
    BY <1>11, <1>r, <2>1, <2>2, <2>3, <2>4, <2>5 DEF Shell
<1>17. Tidy(r)
  <2>1. Distinct(r.order) /\ \A w \in Windows(r) : Distinct(r.tabs[w])
    BY <1>1, <1>3, <1>9, <1>11 DEF Ided
  <2>2. \A v, w \in Windows(r) : \A x \in TabsOf(r, v) : x \in TabsOf(r, w) => v = w
    <3> SUFFICES ASSUME NEW v \in S, NEW w \in S, NEW t \in Elems(v.tabs),
                        NEW u \in Elems(w.tabs), t.id = u.id
                 PROVE  v.id = w.id
      BY <1>11, <1>12 DEF Ided
    <3> QED
      BY <1>1
  <2>3. \A x \in OpenTabs(r) : Distinct(r.panes[x])
    BY <1>1, <1>10, <1>14 DEF Ided, T
  <2>4. \A x, y \in OpenTabs(r) : \A p \in PanesOf(r, x) : p \in PanesOf(r, y) => x = y
    <3> SUFFICES ASSUME NEW t \in T, NEW u \in T, NEW p \in Elems(t.panes), p \in Elems(u.panes)
                 PROVE  t.id = u.id
      <4>1. \A x \in OpenTabs(r) : \E t \in T : x = t.id /\ PanesOf(r, x) = Elems(t.panes)
        BY <1>13, <1>14 DEF Ided
      <4> QED
        BY <4>1
    <3>1. PICK v \in S : t \in Elems(v.tabs)
      BY <1>2
    <3>2. PICK w \in S : u \in Elems(w.tabs)
      BY <1>2
    <3> QED
      BY <1>1, <3>1, <3>2
  <2> QED
    BY <1>16, <2>1, <2>2, <2>3, <2>4 DEF Tidy
<1>18. FocusBut(r, None)
  <2>1. ASSUME NEW x \in OpenTabs(r) PROVE r.focused[x] \in PanesOf(r, x)
    <3>1. PICK t \in T : x = t.id
      BY <1>14 DEF Ided
    <3>2. FocusOf(t) \in Elems(t.panes)
      BY <1>1
    <3>3. r.focused[t.id] = FocusOf(t) /\ PanesOf(r, t.id) = Elems(t.panes)
      BY <1>10, <1>13
    <3> QED
      BY <3>1, <3>2, <3>3
  <2>2. ASSUME NEW w \in Windows(r) PROVE r.activeTab[w] \in TabsOf(r, w)
    <3>1. PICK v \in S : w = v.id
      BY <1>11 DEF Ided
    <3>2. ActiveOf(v) \in Elems(IdsOf(v.tabs)) /\ Elems(IdsOf(v.tabs)) = Ided(Elems(v.tabs))
      BY <1>7, <1>8
    <3>3. r.activeTab[v.id] = ActiveOf(v) /\ TabsOf(r, v.id) = Ided(Elems(v.tabs))
      BY <1>9, <1>12
    <3> QED
      BY <3>1, <3>2, <3>3
  <2> QED
    BY <2>1, <2>2, OpenIff DEF FocusBut
<1>19. ~r.quit
  BY <1>3
<1> QED
  BY <1>11, <1>14, <1>15, <1>17, <1>18, <1>19 DEF Sound, S, T

\* A finite set of numbers has a largest one.
LEMMA MaxType ==
  ASSUME NEW N \in Nat, NEW S, S \subseteq 0..N, S # {}
  PROVE  Max(S) \in S /\ \A x \in S : x <= Max(S)
<1> DEFINE Gap == {N - x : x \in S}
<1>1. Gap \subseteq Nat /\ Gap # {}
  <2>1. \A x \in S : N - x \in Nat
    OBVIOUS
  <2> QED
    BY <2>1
<1>2. PICK g \in Gap : \A h \in Gap : g <= h
  <2> HIDE DEF Gap
  <2> QED
    BY <1>1, LeastNat
<1>3. PICK x \in S : g = N - x
  BY <1>2
<1>4. \A y \in S : x >= y
  <2> SUFFICES ASSUME NEW y \in S PROVE x >= y
    OBVIOUS
  <2>1. N - x <= N - y /\ x \in 0..N /\ y \in 0..N
    BY <1>2, <1>3
  <2> QED
    BY <2>1
<1>5. \E m \in S : \A y \in S : m >= y
  BY <1>4
<1>6. Max(S) \in S /\ \A y \in S : Max(S) >= y
  BY <1>5 DEF Max
<1> QED
  BY <1>6

\* An allocator that is moved past the ids of a set.
LEMMA ReservedType ==
  ASSUME NEW N \in Nat \ {0}, NEW ids, ids \subseteq 1..N,
         NEW next, next = Max({2, Highest(ids) + 1})
  PROVE  next \in 2..(N + 1) /\ ids \subseteq 1..(next - 1)
<1>1. PICK high : high = Highest(ids)
  OBVIOUS
<1>2. high \in {0} \cup ids /\ \A x \in {0} \cup ids : x <= high
  <2>1. {0} \cup ids \subseteq 0..N /\ {0} \cup ids # {}
    OBVIOUS
  <2> QED
    BY <1>1, <2>1, MaxType DEF Highest
<1>3. high \in 0..N /\ \A x \in ids : x <= high
  BY <1>2
<1>4. next \in {2, high + 1} /\ \A x \in {2, high + 1} : x <= next
  <2>1. {2, high + 1} \subseteq 0..(N + 1) /\ {2, high + 1} # {} /\ N + 1 \in Nat
    BY <1>3
  <2>2. next = Max({2, high + 1})
    BY <1>1
  <2> QED
    BY <2>1, <2>2, MaxType
<1>5. next \in 2..(N + 1)
  BY <1>3, <1>4
<1>6. ASSUME NEW x \in ids PROVE x \in 1..(next - 1)
  <2>1. x \in 1..N /\ x <= high /\ high + 1 <= next
    BY <1>3, <1>4
  <2> QED
    BY <1>3, <1>5, <2>1
<1> QED
  BY <1>5, <1>6

-----------------------------------------------------------------------------
(* The invariant.                                                          *)

TypesOK ==
  /\ nextWindow \in 1..(MaxWindows + 1) /\ nextTab \in 1..(MaxTabs + 1)
  /\ nextPane \in 1..(MaxPanes + 1)
  /\ exited \in [Pane -> {"no", "clean", "failed"}]
  /\ quick \in [visible : BOOLEAN, window : Window \cup {None}, previous : Window \cup {None}]
  /\ hidden \subseteq Window /\ native \subseteq Window /\ quitting \in BOOLEAN
  /\ restored \in {"no", "whole", "broken"}

\* No id that is still to be handed out is in use, and every pane below is open
\* or was shut down.
InIds(s, windows, tabs, panes) ==
  /\ Windows(s) \subseteq 1..(windows - 1) /\ OpenTabs(s) \subseteq 1..(tabs - 1)
  /\ OpenPanes(s) \cup s.shut = 1..(panes - 1)

\* Nothing open is shut down before the shell quits, and everything then.
Lives(s, quits) ==
  IF quits THEN OpenPanes(s) \subseteq s.shut ELSE OpenPanes(s) \cap s.shut = {}

\* Until the quick terminal is used the active window is open.
Active(s, q) ==
  q.window = None => ~q.visible /\ (s.order = <<>> \/ s.active \in Windows(s))

\* The inductive invariant. A restore that was broken off ends all promises.
Whole ==
  /\ TypesOK /\ Sound(shell) /\ InIds(shell, nextWindow, nextTab, nextPane)
  /\ Lives(shell, quitting) /\ (shell.quit => quitting) /\ Active(shell, quick)

IInv == restored # "broken" => Whole

\* What an action of the user leaves before the shell looks whether to quit.
Step ==
  /\ Sound(shell') /\ InIds(shell', nextWindow', nextTab', nextPane')
  /\ Lives(shell', shell'.quit) /\ Active(shell', quick')
  /\ nextWindow' \in 1..(MaxWindows + 1) /\ nextTab' \in 1..(MaxTabs + 1)
  /\ nextPane' \in 1..(MaxPanes + 1)
  /\ quick' \in [visible : BOOLEAN, window : Window \cup {None}, previous : Window \cup {None}]
  /\ hidden' \subseteq Window /\ exited' \in [Pane -> {"no", "clean", "failed"}]

\* Everyone who has no window any more has no pane.
LEMMA NoWindowNoPane ==
  ASSUME NEW s, Sound(s), s.order = <<>>
  PROVE  OpenTabs(s) = {} /\ OpenPanes(s) = {}
<1>1. Windows(s) = {}
  BY ShellType DEF Sound, Tidy
<1> QED
  BY <1>1, OpenIff

\* And then it looks: an action ends with the invariant.
LEMMA StepIsWhole ==
  ASSUME Whole, Step, native' \subseteq Window, quitting' \in BOOLEAN,
         quitting' <=> ShouldQuit(shell'), restored' = restored
  PROVE  Whole'
<1>2. Lives(shell', quitting')
  BY NoWindowNoPane DEF Step, Lives, ShouldQuit
<1>3. shell'.quit => quitting'
  BY DEF ShouldQuit
<1>4. TypesOK'
  BY DEF Whole, TypesOK, Step
<1> QED
  BY <1>2, <1>3, <1>4 DEF Whole, Step

\* Exits that are kept for the panes still open have their type.
LEMMA RemainingType ==
  ASSUME NEW how \in [Pane -> {"no", "clean", "failed"}]
  PROVE  Remaining(how) \in [Pane -> {"no", "clean", "failed"}]
BY DEF Remaining

\* Closing keeps what an action of the user has to keep.
LEMMA ClosingIsStep ==
  ASSUME Whole, ~quitting, Sound(shell'), Closed(shell, shell'), UNCHANGED Ids, Rest
  PROVE  Step
<1>1. /\ OpenPanes(shell') \subseteq OpenPanes(shell) /\ Windows(shell') \subseteq Windows(shell)
      /\ OpenTabs(shell') \subseteq OpenTabs(shell)
      /\ shell'.shut = shell.shut \cup (OpenPanes(shell) \ OpenPanes(shell'))
      /\ shell'.quit => shell.quit \/ shell'.order = <<>>
      /\ shell.active \in Windows(shell) => shell'.order = <<>> \/ shell'.active \in Windows(shell')
  BY DEF Closed
<1>2. nextWindow' = nextWindow /\ nextTab' = nextTab /\ nextPane' = nextPane
  BY DEF Ids
<1>3. ~shell.quit /\ OpenPanes(shell) \cap shell.shut = {}
  BY DEF Whole, Lives
<1>4. InIds(shell', nextWindow', nextTab', nextPane')
  BY <1>1, <1>2 DEF InIds, Whole
<1>5. Lives(shell', shell'.quit)
  BY <1>1, <1>3, NoWindowNoPane DEF Lives
<1>6. Active(shell', quick')
  <2>1. shell \in Shell /\ shell' \in Shell
    BY DEF Whole, Sound, Tidy
  <2>2. shell.order = <<>> => shell'.order = <<>>
    BY <1>1, <2>1, ShellType
  <2> QED
    BY <1>1, <2>2 DEF Rest, Active, Whole
<1>7. exited' \in [Pane -> {"no", "clean", "failed"}]
  BY RemainingType DEF Whole, TypesOK, Rest
<1> QED
  BY <1>2, <1>4, <1>5, <1>6, <1>7 DEF Step, Whole, TypesOK, Rest

\* And so does what leaves windows, tabs, panes and sessions alone.
LEMMA SameIsStep ==
  ASSUME Whole, ~quitting, Sound(shell'), SameThings(shell, shell'),
         shell'.shut = shell.shut, shell'.quit = shell.quit,
         shell'.active = shell.active \/ shell'.active \in Windows(shell'), UNCHANGED Ids, Rest
  PROVE  Step
<1>1. Closed(shell, shell')
  BY DEF Closed, SameThings
<1> QED
  BY <1>1, ClosingIsStep

-----------------------------------------------------------------------------
(* The actions of the user.                                                *)

\* What the shell is like after a pane was added to it.
Grown(p) ==
  /\ Sound(shell') /\ OpenPanes(shell') = OpenPanes(shell) \cup {p}
  /\ shell'.shut = shell.shut /\ shell'.quit = shell.quit

\* The ids to be handed out are in use nowhere.
LEMMA FreshIds ==
  ASSUME Whole
  PROVE  /\ nextWindow \in Nat /\ nextTab \in Nat /\ nextPane \in Nat
         /\ nextWindow <= MaxWindows => nextWindow \in Window /\ nextWindow \notin Windows(shell)
         /\ nextTab <= MaxTabs => nextTab \in Tab /\ nextTab \notin OpenTabs(shell)
         /\ nextPane <= MaxPanes =>
              nextPane \in Pane /\ nextPane \notin OpenPanes(shell) \cup shell.shut
<1>1. /\ nextWindow \in 1..(MaxWindows + 1) /\ nextTab \in 1..(MaxTabs + 1)
      /\ nextPane \in 1..(MaxPanes + 1)
      /\ MaxWindows \in Nat /\ MaxTabs \in Nat /\ MaxPanes \in Nat
  BY ShellAssumption DEF Whole, TypesOK
<1>2. /\ nextWindow \notin 1..(nextWindow - 1) /\ nextTab \notin 1..(nextTab - 1)
      /\ nextPane \notin 1..(nextPane - 1)
  BY <1>1
<1>3. nextWindow <= MaxWindows => nextWindow \in Window
  BY <1>1 DEF Window
<1>4. nextTab <= MaxTabs => nextTab \in Tab
  BY <1>1 DEF Tab
<1>5. nextPane <= MaxPanes => nextPane \in Pane
  BY <1>1 DEF Pane
<1>6. /\ Windows(shell) \subseteq 1..(nextWindow - 1) /\ OpenTabs(shell) \subseteq 1..(nextTab - 1)
      /\ OpenPanes(shell) \cup shell.shut = 1..(nextPane - 1)
  BY DEF Whole, InIds
<1> QED
  BY <1>1, <1>2, <1>3, <1>4, <1>5, <1>6

\* An id is handed out within its bound.
LEMMA NextType ==
  ASSUME Whole
  PROVE  /\ nextWindow <= MaxWindows => nextWindow + 1 \in 1..(MaxWindows + 1)
         /\ nextTab <= MaxTabs => nextTab + 1 \in 1..(MaxTabs + 1)
         /\ nextPane <= MaxPanes => nextPane + 1 \in 1..(MaxPanes + 1)
         /\ 1..((nextWindow + 1) - 1) = 1..(nextWindow - 1) \cup {nextWindow}
         /\ 1..((nextTab + 1) - 1) = 1..(nextTab - 1) \cup {nextTab}
         /\ 1..((nextPane + 1) - 1) = 1..(nextPane - 1) \cup {nextPane}
<1>1. /\ nextWindow \in 1..(MaxWindows + 1) /\ nextTab \in 1..(MaxTabs + 1)
      /\ nextPane \in 1..(MaxPanes + 1)
      /\ MaxWindows \in Nat /\ MaxTabs \in Nat /\ MaxPanes \in Nat
  BY ShellAssumption DEF Whole, TypesOK
<1>2. \A n \in Nat \ {0} : 1..((n + 1) - 1) = 1..(n - 1) \cup {n}
  OBVIOUS
<1> QED
  BY <1>1, <1>2

\* new_window, from the menu, from new_tab or for the quick terminal.
LEMMA OpensWindowStep ==
  ASSUME Whole, ~quitting, OpensWindow,
         exited' \in [Pane -> {"no", "clean", "failed"}], hidden' \subseteq Window,
         quick' \in [visible : BOOLEAN, window : Window \cup {None}, previous : Window \cup {None}],
         quick'.window # None \/ ~quick'.visible
  PROVE  Step
<1>1. /\ nextWindow <= MaxWindows /\ nextTab <= MaxTabs /\ nextPane <= MaxPanes
      /\ shell' = OpenWindow(shell, nextWindow, nextTab, nextPane)
      /\ nextWindow' = nextWindow + 1 /\ nextTab' = nextTab + 1 /\ nextPane' = nextPane + 1
  BY DEF OpensWindow
<1>2. /\ nextWindow \in Window /\ nextWindow \notin Windows(shell)
      /\ nextTab \in Tab /\ nextTab \notin OpenTabs(shell)
      /\ nextPane \in Pane /\ nextPane \notin OpenPanes(shell) \cup shell.shut
  BY <1>1, FreshIds
<1>3. Sound(shell) /\ ~shell.quit /\ OpenPanes(shell) \cap shell.shut = {}
  BY DEF Whole, Lives
<1>4. /\ Sound(shell') /\ Windows(shell') = Windows(shell) \cup {nextWindow}
      /\ OpenTabs(shell') = OpenTabs(shell) \cup {nextTab}
      /\ OpenPanes(shell') = OpenPanes(shell) \cup {nextPane}
      /\ shell'.shut = shell.shut /\ shell'.quit = shell.quit /\ shell'.active = nextWindow
  BY <1>1, <1>2, <1>3, OpensAWindow
<1>5. InIds(shell', nextWindow', nextTab', nextPane')
  BY <1>1, <1>4, NextType DEF InIds, Whole
<1>6. Lives(shell', shell'.quit)
  BY <1>2, <1>3, <1>4 DEF Lives
<1>7. Active(shell', quick')
  BY <1>4 DEF Active
<1> QED
  BY <1>1, <1>4, <1>5, <1>6, <1>7, NextType DEF Step

\* new_tab in a window that may be gone.
LEMMA OpensTabStep ==
  ASSUME Whole, ~quitting, NEW w \in Window \cup {None}, OpensTab(w), Rest
  PROVE  Step
<1>1. CASE w \in Windows(shell)
  <2>1. /\ nextTab <= MaxTabs /\ nextPane <= MaxPanes /\ shell' = OpenTab(shell, w, nextTab, nextPane)
        /\ nextWindow' = nextWindow /\ nextTab' = nextTab + 1 /\ nextPane' = nextPane + 1
    BY <1>1 DEF OpensTab
  <2>2. /\ nextTab \in Tab /\ nextTab \notin OpenTabs(shell)
        /\ nextPane \in Pane /\ nextPane \notin OpenPanes(shell) \cup shell.shut
    BY <2>1, FreshIds
  <2>3. Sound(shell) /\ ~shell.quit /\ OpenPanes(shell) \cap shell.shut = {}
    BY DEF Whole, Lives
  <2>4. /\ Sound(shell') /\ Windows(shell') = Windows(shell)
        /\ OpenTabs(shell') = OpenTabs(shell) \cup {nextTab}
        /\ OpenPanes(shell') = OpenPanes(shell) \cup {nextPane}
        /\ shell'.shut = shell.shut /\ shell'.quit = shell.quit /\ shell'.active = w
    BY <1>1, <2>1, <2>2, <2>3, OpensATab
  <2>5. InIds(shell', nextWindow', nextTab', nextPane')
    BY <2>1, <2>4, NextType DEF InIds, Whole
  <2>6. Lives(shell', shell'.quit)
    BY <2>2, <2>3, <2>4 DEF Lives
  <2>7. Active(shell', quick')
    BY <1>1, <2>4 DEF Active, Whole, Rest
  <2>8. exited' \in [Pane -> {"no", "clean", "failed"}]
    BY RemainingType DEF Whole, TypesOK, Rest
  <2> QED
    BY <2>1, <2>4, <2>5, <2>6, <2>7, <2>8, NextType DEF Step, Whole, TypesOK, Rest
<1>2. CASE w \notin Windows(shell)
  <2>1. UNCHANGED <<shell, nextWindow, nextTab, nextPane>>
    BY <1>2 DEF OpensTab
  <2> QED
    BY <2>1, ClosedNothing, ClosingIsStep DEF Ids, Whole
<1> QED
  BY <1>1, <1>2

\* The actions of the menu and the keyboard, one by one.
LEMMA NewWindowStep == ASSUME Whole, ~quitting, NewWindow PROVE Step
<1>1. exited' \in [Pane -> {"no", "clean", "failed"}]
  BY RemainingType DEF NewWindow, Whole, TypesOK, Rest
<1> QED
  BY <1>1, OpensWindowStep DEF NewWindow, Rest, Whole, TypesOK, Active

\* new_tab, with a new window where there is none.
LEMMA NewTabStep == ASSUME Whole, ~quitting, NewTab PROVE Step
<1>1. Rest /\ (OpensWindow \/ OpensTab(shell.active))
  BY DEF NewTab
<1>2. CASE OpensWindow
  BY <1>1, <1>2, NewWindowStep DEF NewWindow
<1>3. CASE OpensTab(shell.active)
  <2>1. shell.active \in Window \cup {None}
    BY ShellType DEF Whole, Sound, Tidy
  <2> QED
    BY <1>1, <1>3, <2>1, OpensTabStep
<1> QED
  BY <1>1, <1>2, <1>3

\* The window, tab and pane that are acted on are open.
LEMMA ActedOn ==
  ASSUME NEW s, Sound(s)
  PROVE  /\ ActiveWindow(s) \subseteq Windows(s) /\ ActiveTab(s) \subseteq OpenTabs(s)
         /\ FocusedPane(s) \subseteq OpenPanes(s)
         /\ \A w \in ActiveWindow(s) : w = s.active
         /\ \A w \in ActiveWindow(s), t \in ActiveTab(s) : t = s.activeTab[w] /\ t \in TabsOf(s, w)
         /\ \A t \in ActiveTab(s), p \in FocusedPane(s) : p = s.focused[t] /\ p \in PanesOf(s, t)
<1>1. \A w \in ActiveWindow(s) : w = s.active /\ w \in Windows(s)
  BY DEF ActiveWindow
<1>2. \A t \in ActiveTab(s) : t \in OpenTabs(s) /\ t = s.activeTab[s.active]
                              /\ s.active \in Windows(s)
  BY <1>1 DEF ActiveTab
<1>3. \A t \in ActiveTab(s), p \in FocusedPane(s) : p = s.focused[t] /\ p \in OpenPanes(s)
  BY <1>2 DEF FocusedPane
<1> QED
  BY <1>1, <1>2, <1>3, SoundFocus DEF FocusedPane

\* new_split: without an active tab its pane is shut down again.
LEMMA NewSplitStep == ASSUME Whole, ~quitting, NewSplit PROVE Step
<1>1. /\ nextPane <= MaxPanes /\ nextPane' = nextPane + 1
      /\ nextWindow' = nextWindow /\ nextTab' = nextTab /\ Rest
  BY DEF NewSplit
<1>2. nextPane \in Pane /\ nextPane \notin OpenPanes(shell) \cup shell.shut
  BY <1>1, FreshIds
<1>3. Sound(shell) /\ ~shell.quit /\ OpenPanes(shell) \cap shell.shut = {} /\ shell.shut \subseteq Pane
  BY ShellType DEF Whole, Lives, Sound, Tidy
<1>4. /\ Sound(shell') /\ Windows(shell') = Windows(shell) /\ OpenTabs(shell') = OpenTabs(shell)
      /\ OpenPanes(shell') \cup shell'.shut = OpenPanes(shell) \cup shell.shut \cup {nextPane}
      /\ OpenPanes(shell') \cap shell'.shut = {}
      /\ shell'.quit = shell.quit /\ shell'.active = shell.active
  <2>1. CASE ActiveTab(shell) # {}
    <3>1. PICK t \in OpenTabs(shell) : shell' = SplitPane(shell, t, nextPane)
      <4>1. PICK t \in ActiveTab(shell) : TRUE
        BY <2>1
      <4>2. t \in OpenTabs(shell) /\ t = shell.activeTab[shell.active]
        BY <4>1 DEF ActiveTab, ActiveWindow
      <4> QED
        BY <2>1, <4>2 DEF NewSplit
    <3>2. /\ Sound(shell') /\ Windows(shell') = Windows(shell) /\ OpenTabs(shell') = OpenTabs(shell)
          /\ OpenPanes(shell') = OpenPanes(shell) \cup {nextPane}
          /\ shell'.shut = shell.shut /\ shell'.quit = shell.quit /\ shell'.active = shell.active
      BY <1>2, <1>3, <3>1, SplitsAPane
    <3> QED
      BY <1>2, <1>3, <3>2
  <2>2. CASE ActiveTab(shell) = {}
    <3>1. shell' = [shell EXCEPT !.shut = @ \cup {nextPane}]
      BY <2>2 DEF NewSplit
    <3>2. PICK shut \in SUBSET Pane : shut = shell.shut \cup {nextPane}
      BY <1>2, <1>3
    <3>3. shell' = [shell EXCEPT !.shut = shut]
      BY <3>1, <3>2
    <3>4. /\ Sound(shell') /\ SameThings(shell, shell') /\ shell'.shut = shut
          /\ shell'.quit = shell.quit /\ shell'.active = shell.active
      BY <1>3, <3>3, ShutsOnly
    <3> QED
      BY <1>2, <1>3, <3>2, <3>4 DEF SameThings
  <2> QED
    BY <2>1, <2>2
<1>5. InIds(shell', nextWindow', nextTab', nextPane')
  <2>1. InIds(shell, nextWindow, nextTab, nextPane)
    BY DEF Whole
  <2> QED
    BY <1>1, <1>4, <2>1, NextType DEF InIds
<1>6. Lives(shell', shell'.quit)
  BY <1>3, <1>4 DEF Lives
<1>7. Active(shell', quick')
  <2>1. shell \in Shell /\ shell' \in Shell
    BY <1>3, <1>4 DEF Sound, Tidy
  <2>2. shell.order = <<>> <=> shell'.order = <<>>
    BY <1>4, <2>1, ShellType
  <2> QED
    BY <1>1, <1>4, <2>2 DEF Rest, Active, Whole
<1>8. exited' \in [Pane -> {"no", "clean", "failed"}]
  BY <1>1, RemainingType DEF Whole, TypesOK, Rest
<1> QED
  BY <1>1, <1>4, <1>5, <1>6, <1>7, <1>8, NextType DEF Step, Whole, TypesOK, Rest

\* The three closing actions.
LEMMA CloseStep ==
  ASSUME Whole, ~quitting, CloseActiveWindow \/ CloseActiveTab \/ CloseFocusedPane
  PROVE  Step
<1>1. Sound(shell) /\ UNCHANGED Ids /\ Rest
  BY DEF Whole, CloseActiveWindow, CloseActiveTab, CloseFocusedPane
<1>2. Sound(shell') /\ Closed(shell, shell')
  <2>1. CASE CloseActiveWindow
    <3>1. PICK w \in Windows(shell) : shell' = CloseWindowOf(shell, w)
      BY <1>1, <2>1, ActedOn DEF CloseActiveWindow
    <3>2. Tidy(shell) /\ FocusBut(shell, w)
      BY <1>1, SoundFocus, OpenIff DEF Sound, FocusBut
    <3> QED
      BY <3>1, <3>2, ClosesWindow
  <2>2. CASE CloseActiveTab
    <3>1. PICK w \in ActiveWindow(shell) :
            \E t \in ActiveTab(shell) : shell' = CloseTabOf(shell, w, t)
      BY <2>2 DEF CloseActiveTab
    <3>2. PICK t \in ActiveTab(shell) : shell' = CloseTabOf(shell, w, t)
      BY <3>1
    <3>3. w \in Windows(shell) /\ t \in TabsOf(shell, w)
      BY <1>1, ActedOn
    <3> QED
      BY <1>1, <3>2, <3>3, ClosesTab
  <2>3. CASE CloseFocusedPane
    BY <1>1, <2>3, ClosesPane DEF CloseFocusedPane
  <2> QED
    BY <2>1, <2>2, <2>3
<1> QED
  BY <1>1, <1>2, ClosingIsStep

\* next_tab and previous_tab.
LEMMA CycleTabStep == ASSUME Whole, ~quitting, NEW forward, CycleTab(forward) PROVE Step
<1>1. PICK w \in ActiveWindow(shell) : \E t \in ActiveTab(shell) :
        shell' = [shell EXCEPT !.activeTab[w] = NextIn(shell.tabs[w], t, forward)]
  BY DEF CycleTab
<1>2. PICK t \in ActiveTab(shell) :
        shell' = [shell EXCEPT !.activeTab[w] = NextIn(shell.tabs[w], t, forward)]
  BY <1>1
<1>3. Sound(shell) /\ shell \in Shell
  BY DEF Whole, Sound, Tidy
<1>4. w \in Windows(shell) /\ t \in TabsOf(shell, w)
  BY <1>3, ActedOn
<1>5. PICK u : u = NextIn(shell.tabs[w], t, forward)
  OBVIOUS
<1>6. u \in TabsOf(shell, w)
  <2>1. shell.tabs[w] \in Seq(Tab)
    BY <1>3, <1>4, ShellType
  <2> QED
    BY <1>4, <1>5, <2>1, NextIsElem DEF TabsOf
<1>7. /\ Sound(shell') /\ SameThings(shell, shell') /\ shell'.shut = shell.shut
      /\ shell'.quit = shell.quit /\ shell'.active = shell.active
  BY <1>2, <1>3, <1>4, <1>5, <1>6, ActivatesTab
<1> QED
  BY <1>7, SameIsStep DEF CycleTab

\* Focusing a pane of an open tab.
LEMMA FocusStep ==
  ASSUME Whole, ~quitting, UNCHANGED Ids, Rest, NEW t \in OpenTabs(shell),
         NEW p \in PanesOf(shell, t), shell' = [shell EXCEPT !.focused[t] = p]
  PROVE  Step
<1>1. /\ Sound(shell') /\ SameThings(shell, shell') /\ shell'.shut = shell.shut
      /\ shell'.quit = shell.quit /\ shell'.active = shell.active
  BY FocusesPane DEF Whole
<1> QED
  BY <1>1, SameIsStep

\* Cycling panes and goto_split.
LEMMA CyclePaneStep ==
  ASSUME Whole, ~quitting, NEW forward, CyclePane(forward) \/ GotoSplit
  PROVE  Step
<1>1. Sound(shell) /\ shell \in Shell /\ UNCHANGED Ids /\ Rest
  BY DEF Whole, Sound, Tidy, CyclePane, GotoSplit
<1>2. PICK t \in OpenTabs(shell) : \E q \in PanesOf(shell, t) :
        shell' = [shell EXCEPT !.focused[t] = q]
  <2>1. CASE CyclePane(forward)
    <3>1. PICK t \in ActiveTab(shell) : \E p \in FocusedPane(shell) :
            shell' = [shell EXCEPT !.focused[t] = NextIn(shell.panes[t], p, forward)]
      BY <2>1 DEF CyclePane
    <3>2. PICK p \in FocusedPane(shell) :
            shell' = [shell EXCEPT !.focused[t] = NextIn(shell.panes[t], p, forward)]
      BY <3>1
    <3>3. t \in OpenTabs(shell) /\ p \in PanesOf(shell, t)
      BY <1>1, ActedOn
    <3>4. shell.panes[t] \in Seq(Pane)
      BY <1>1, <3>3, OpenType, ShellType
    <3>5. NextIn(shell.panes[t], p, forward) \in PanesOf(shell, t)
      BY <3>3, <3>4, NextIsElem DEF PanesOf
    <3> QED
      BY <3>2, <3>3, <3>5
  <2>2. CASE GotoSplit
    BY <1>1, <2>2, ActedOn DEF GotoSplit
  <2> QED
    BY <2>1, <2>2
<1> QED
  BY <1>1, <1>2, FocusStep

\* What finds nothing to act on.
LEMMA OtherStep == ASSUME Whole, ~quitting, OtherAction PROVE Step
BY ClosedNothing, ClosingIsStep DEF OtherAction, Whole

\* quit shuts every open session down.
LEMMA QuitStep == ASSUME Whole, ~quitting, Quit PROVE Step
<1>1. shell' = [shell EXCEPT !.quit = TRUE, !.shut = @ \cup OpenPanes(shell)]
      /\ UNCHANGED Ids /\ Rest
  BY DEF Quit
<1>2. Sound(shell) /\ shell \in Shell
  BY DEF Whole, Sound, Tidy
<1>3. PICK shut \in SUBSET Pane : shut = shell.shut \cup OpenPanes(shell)
  BY <1>2, ShellType, OpenType
<1>4. shell' = QuitWith(shell, shut)
  BY <1>1, <1>3 DEF QuitWith
<1>5. /\ Sound(shell') /\ SameThings(shell, shell') /\ shell'.shut = shut
      /\ shell'.quit /\ shell'.active = shell.active
  BY <1>2, <1>4, ShutsDown
<1>6. nextWindow' = nextWindow /\ nextTab' = nextTab /\ nextPane' = nextPane
  BY <1>1 DEF Ids
<1>7. InIds(shell', nextWindow', nextTab', nextPane')
  BY <1>3, <1>5, <1>6 DEF InIds, SameThings, Whole
<1>8. Lives(shell', shell'.quit)
  <2>1. OpenPanes(shell') \subseteq shell'.shut
    BY <1>3, <1>5 DEF SameThings
  <2> QED
    BY <1>5, <2>1 DEF Lives
<1>9. Active(shell', quick')
  BY <1>1, <1>5 DEF Active, SameThings, Rest, Whole
<1>10. exited' \in [Pane -> {"no", "clean", "failed"}]
  BY <1>1, RemainingType DEF Whole, TypesOK, Rest
<1> QED
  BY <1>1, <1>5, <1>6, <1>7, <1>8, <1>9, <1>10 DEF Step, Whole, TypesOK, Rest

\* The quick terminal, shown and hidden.
LEMMA QuickStep == ASSUME Whole, ~quitting, ToggleQuickTerminal PROVE Step
<1>1. /\ Sound(shell) /\ shell \in Shell /\ ~shell.quit
      /\ OpenPanes(shell) \cap shell.shut = {} /\ Active(shell, quick)
      /\ InIds(shell, nextWindow, nextTab, nextPane)
  BY DEF Whole, Lives, Sound, Tidy
<1>2. /\ quick \in [visible : BOOLEAN, window : Window \cup {None}, previous : Window \cup {None}]
      /\ hidden \subseteq Window /\ exited \in [Pane -> {"no", "clean", "failed"}]
      /\ nextWindow \in 1..(MaxWindows + 1) /\ nextTab \in 1..(MaxTabs + 1)
      /\ nextPane \in 1..(MaxPanes + 1)
  BY DEF Whole, TypesOK
<1>3. shell.active \in Window \cup {None} /\ Windows(shell) \subseteq Window /\ None \notin Window
  BY <1>1, ShellType, ShellAssumption DEF None, Window
<1>4. ASSUME NEW w \in Window \cup {None}, shell' = [shell EXCEPT !.active = w] \/ shell' = shell,
             quick' \in [visible : BOOLEAN, window : Window \cup {None},
                         previous : Window \cup {None}],
             quick'.window # None, hidden' \subseteq Window, UNCHANGED Ids, UNCHANGED exited
      PROVE  Step
  <2>1. Sound(shell') /\ SameThings(shell, shell') /\ shell'.shut = shell.shut
        /\ shell'.quit = shell.quit
    BY <1>1, <1>4, ActivatesWindow DEF SameThings
  <2>2. nextWindow' = nextWindow /\ nextTab' = nextTab /\ nextPane' = nextPane
    BY <1>4 DEF Ids
  <2>3. InIds(shell', nextWindow', nextTab', nextPane')
    BY <1>1, <2>1, <2>2 DEF InIds, SameThings
  <2>4. Lives(shell', shell'.quit)
    BY <1>1, <2>1 DEF Lives, SameThings
  <2>5. Active(shell', quick')
    BY <1>4 DEF Active
  <2> QED
    BY <1>2, <1>4, <2>1, <2>2, <2>3, <2>4, <2>5 DEF Step
<1>5. CASE ShowQuickTerminal
  <2>1. CASE quick.window \in Windows(shell)
    <3>1. /\ shell' = [shell EXCEPT !.active = quick.window]
          /\ quick' = [quick EXCEPT !.visible = TRUE, !.previous = shell.active]
          /\ hidden' = hidden \ {quick.window} /\ UNCHANGED Ids /\ UNCHANGED exited
      BY <1>5, <2>1 DEF ShowQuickTerminal
    <3>2. quick'.window = quick.window /\ quick.window \in Window
          /\ quick' \in [visible : BOOLEAN, window : Window \cup {None}, previous : Window \cup {None}]
      BY <1>2, <1>3, <2>1, <3>1
    <3> QED
      BY <1>2, <1>3, <1>4, <3>1, <3>2
  <2>2. CASE quick.window \notin Windows(shell)
    <3>1. /\ OpensWindow /\ UNCHANGED hidden /\ UNCHANGED exited
          /\ quick' = [visible |-> TRUE, window |-> nextWindow, previous |-> shell.active]
      BY <1>5, <2>2 DEF ShowQuickTerminal
    <3>2. nextWindow \in Window
      BY <3>1, FreshIds DEF OpensWindow
    <3>3. /\ quick' \in [visible : BOOLEAN, window : Window \cup {None}, previous : Window \cup {None}]
          /\ quick'.window # None
      BY <1>3, <3>1, <3>2
    <3> QED
      BY <1>2, <3>1, <3>3, OpensWindowStep
  <2> QED
    BY <2>1, <2>2
<1>6. CASE HideQuickTerminal
  <2>1. /\ quick.visible /\ quick' = [quick EXCEPT !.visible = FALSE]
        /\ hidden' = hidden \cup ({quick.window} \cap Windows(shell))
        /\ shell' = IF quick.previous # None THEN [shell EXCEPT !.active = quick.previous] ELSE shell
        /\ UNCHANGED Ids /\ UNCHANGED exited
    BY <1>6 DEF HideQuickTerminal
  <2>2. quick.window # None
    BY <1>1, <2>1 DEF Active
  <2>3. /\ quick'.window = quick.window /\ quick.previous \in Window \cup {None}
        /\ quick' \in [visible : BOOLEAN, window : Window \cup {None}, previous : Window \cup {None}]
    BY <1>2, <2>1
  <2> QED
    BY <1>2, <1>3, <1>4, <2>1, <2>2, <2>3
<1> QED
  BY <1>5, <1>6 DEF ToggleQuickTerminal

\* Every action of the user, with the sync that follows it.
LEMMA UserActsWhole == ASSUME Whole, UserActs PROVE Whole'
<1>1. Step
  BY NewWindowStep, NewTabStep, NewSplitStep, CloseStep, CycleTabStep, CyclePaneStep, OtherStep,
     QuitStep, QuickStep DEF UserActs
<1>2. native' \subseteq Window
  BY <1>1, ShellType DEF UserActs, AfterAction, Step, Sound, Tidy
<1>3. quitting' \in BOOLEAN /\ (quitting' <=> ShouldQuit(shell'))
  <2>1. shell'.quit \in BOOLEAN /\ quitting' = ShouldQuit(shell')
    BY <1>1, ShellType DEF UserActs, AfterAction, Step, Sound, Tidy
  <2> QED
    BY <2>1 DEF ShouldQuit
<1> QED
  BY <1>1, <1>2, <1>3, StepIsWhole DEF UserActs

-----------------------------------------------------------------------------
(* Clicks, the platform, exits and restoring.                              *)

\* With no id handed out and the quick terminal left alone.
LEMMA ClosedIsWhole ==
  ASSUME Whole, ~quitting, Sound(shell'), Closed(shell, shell'),
         UNCHANGED Ids, UNCHANGED quick, hidden' \subseteq Window, native' \subseteq Window,
         exited' \in [Pane -> {"no", "clean", "failed"}], quitting' \in BOOLEAN,
         quitting' <=> ShouldQuit(shell'), restored' = restored
  PROVE  Whole'
<1>1. /\ OpenPanes(shell') \subseteq OpenPanes(shell) /\ Windows(shell') \subseteq Windows(shell)
      /\ OpenTabs(shell') \subseteq OpenTabs(shell)
      /\ shell'.shut = shell.shut \cup (OpenPanes(shell) \ OpenPanes(shell'))
      /\ shell'.quit => shell.quit \/ shell'.order = <<>>
      /\ shell.active \in Windows(shell) => shell'.order = <<>> \/ shell'.active \in Windows(shell')
  BY DEF Closed
<1>2. nextWindow' = nextWindow /\ nextTab' = nextTab /\ nextPane' = nextPane
  BY DEF Ids
<1>3. ~shell.quit /\ OpenPanes(shell) \cap shell.shut = {}
  BY DEF Whole, Lives
<1>4. InIds(shell', nextWindow', nextTab', nextPane')
  BY <1>1, <1>2 DEF InIds, Whole
<1>5. Lives(shell', shell'.quit)
  BY <1>1, <1>3, NoWindowNoPane DEF Lives
<1>6. Active(shell', quick')
  <2>1. shell \in Shell /\ shell' \in Shell
    BY DEF Whole, Sound, Tidy
  <2>2. shell.order = <<>> => shell'.order = <<>>
    BY <1>1, <2>1, ShellType
  <2> QED
    BY <1>1, <2>2 DEF Active, Whole
<1>7. Step
  BY <1>2, <1>4, <1>5, <1>6 DEF Step, Whole, TypesOK
<1> QED
  BY <1>7, StepIsWhole

\* A press in a pane.
LEMMA UserClicksWhole == ASSUME Whole, NEW p \in Pane, UserClicks(p) PROVE Whole'
<1>1. /\ ~quitting /\ p \in OpenPanes(shell) /\ shell' = FocusPaneOf(shell, p)
      /\ UNCHANGED Ids /\ Rest /\ UNCHANGED <<native, quitting, restored>>
  BY DEF UserClicks
<1>2. /\ Sound(shell') /\ SameThings(shell, shell') /\ shell'.shut = shell.shut
      /\ shell'.quit = shell.quit /\ shell'.active \in Windows(shell')
  BY <1>1, FocusesOpenPane DEF Whole
<1>3. Step
  BY <1>1, <1>2, SameIsStep
<1>4. ~shell'.quit
  BY <1>1, <1>2 DEF Whole
<1>5. Lives(shell', quitting')
  BY <1>1, <1>3, <1>4 DEF Step, Lives
<1>6. TypesOK'
  BY <1>1, <1>3 DEF Step, Whole, TypesOK
<1> QED
  BY <1>3, <1>4, <1>5, <1>6 DEF Whole, Step

\* The platform closed a window, whether or not the application ends with it.
LEMMA NativeClosesWhole == ASSUME Whole, NEW w \in Window, NativeCloses(w) PROVE Whole'
<1>1. PICK s : s = IF w \in Windows(shell) THEN CloseWindowOf(shell, w) ELSE shell
  OBVIOUS
<1>2. /\ ~quitting /\ native' = native \ {w} /\ UNCHANGED Ids /\ Rest /\ UNCHANGED restored
      /\ quitting' = (ShouldQuit(s) \/ native' = {})
      /\ shell' = IF quitting' /\ ~ShouldQuit(s)
                    THEN [s EXCEPT !.shut = @ \cup OpenPanes(s)] ELSE s
  BY <1>1 DEF NativeCloses
<1>3. Sound(shell) /\ ~shell.quit /\ OpenPanes(shell) \cap shell.shut = {}
  BY <1>2 DEF Whole, Lives
<1>4. Sound(s) /\ Closed(shell, s)
  <2>1. CASE w \in Windows(shell)
    <3>1. Tidy(shell) /\ FocusBut(shell, w)
      BY <1>3, SoundFocus, OpenIff DEF Sound, FocusBut
    <3> QED
      BY <1>1, <2>1, <3>1, ClosesWindow
  <2>2. CASE w \notin Windows(shell)
    BY <1>1, <1>3, <2>2, ClosedNothing
  <2> QED
    BY <2>1, <2>2
<1>5. /\ exited' \in [Pane -> {"no", "clean", "failed"}] /\ hidden' \subseteq Window
      /\ native' \subseteq Window /\ UNCHANGED quick
  BY <1>2, RemainingType DEF Whole, TypesOK, Rest
<1>6. CASE ShouldQuit(s)
  <2>1. shell' = s /\ quitting' \in BOOLEAN /\ (quitting' <=> ShouldQuit(shell'))
    BY <1>2, <1>6
  <2> QED
    BY <1>2, <1>4, <1>5, <2>1, ClosedIsWhole
<1>7. CASE ~ShouldQuit(s) /\ native' # {}
  <2>1. shell' = s /\ quitting' \in BOOLEAN /\ (quitting' <=> ShouldQuit(shell'))
    BY <1>2, <1>7
  <2> QED
    BY <1>2, <1>4, <1>5, <2>1, ClosedIsWhole
<1>8. CASE ~ShouldQuit(s) /\ native' = {}
  <2>1. quitting' = TRUE /\ shell' = [s EXCEPT !.shut = @ \cup OpenPanes(s)]
    BY <1>2, <1>8
  <2>2. s \in Shell /\ shell \in Shell
    BY <1>3, <1>4 DEF Sound, Tidy
  <2>3. PICK shut \in SUBSET Pane : shut = s.shut \cup OpenPanes(s)
    BY <2>2, ShellType, OpenType
  <2>4. shell' = [s EXCEPT !.shut = shut]
    BY <2>1, <2>3
  <2>5. /\ Sound(shell') /\ SameThings(s, shell') /\ shell'.shut = shut
        /\ shell'.quit = s.quit /\ shell'.active = s.active
    BY <1>4, <2>4, ShutsOnly
  <2>6. nextWindow' = nextWindow /\ nextTab' = nextTab /\ nextPane' = nextPane
    BY <1>2 DEF Ids
  <2>7. InIds(shell', nextWindow', nextTab', nextPane')
    BY <1>4, <2>3, <2>5, <2>6 DEF InIds, SameThings, Closed, Whole
  <2>8. Lives(shell', quitting')
    BY <2>1, <2>3, <2>5 DEF Lives, SameThings
  <2>9. Active(shell', quick')
    <3>1. shell.order = <<>> => s.order = <<>>
      BY <1>4, <2>2, ShellType DEF Closed
    <3> QED
      BY <1>4, <1>5, <2>5, <3>1 DEF Active, SameThings, Closed, Whole
  <2>10. TypesOK'
    BY <1>2, <1>5, <2>1, <2>6 DEF TypesOK, Whole
  <2> QED
    BY <2>1, <2>5, <2>7, <2>8, <2>9, <2>10 DEF Whole
<1> QED
  BY <1>6, <1>7, <1>8

\* The pump closes the panes whose exit the setting closes.
LEMMA PumpWhole == ASSUME Whole, Pump PROVE Whole'
<1>1. Sound(shell) /\ shell \in Shell
  BY DEF Whole, Sound, Tidy
<1>2. PICK noticed \in SUBSET {p \in OpenPanes(shell) : exited[p] = "no"} :
        \E how \in {"clean", "failed"} :
          LET now   == [p \in Pane |-> IF p \in noticed THEN how ELSE exited[p]]
              close == {p \in OpenPanes(shell) : ClosesOn(now[p])}
              order == SetToSortSeq(close, LAMBDA p, q : VisitedBefore(shell, p, q))
          IN  /\ shell' = ClosedInTurn(shell, order, Cardinality(close))
              /\ exited' = Remaining(now)
  BY DEF Pump
<1>3. PICK how \in {"clean", "failed"} :
          LET now   == [p \in Pane |-> IF p \in noticed THEN how ELSE exited[p]]
              close == {p \in OpenPanes(shell) : ClosesOn(now[p])}
              order == SetToSortSeq(close, LAMBDA p, q : VisitedBefore(shell, p, q))
          IN  /\ shell' = ClosedInTurn(shell, order, Cardinality(close))
              /\ exited' = Remaining(now)
  BY <1>2
<1>4. PICK now : now = [p \in Pane |-> IF p \in noticed THEN how ELSE exited[p]]
  OBVIOUS
<1>5. PICK close : close = {p \in OpenPanes(shell) : ClosesOn(now[p])}
  OBVIOUS
<1>6. PICK n : n = Cardinality(close)
  OBVIOUS
<1>7. (\E order : shell' = ClosedInTurn(shell, order, n)) /\ exited' = Remaining(now)
  BY <1>3, <1>4, <1>5, <1>6
<1>8. n \in Nat
  <2>1. close \subseteq 1..MaxPanes
    BY <1>1, <1>5, OpenType DEF Pane
  <2>2. IsFiniteSet(1..MaxPanes)
    BY ShellAssumption, FS_Interval
  <2>3. IsFiniteSet(close)
    BY <2>1, <2>2, FS_Subset
  <2> QED
    BY <1>6, <2>3, FS_CardinalityType
<1>9. Sound(shell') /\ Closed(shell, shell')
  BY <1>1, <1>7, <1>8, ClosesInTurn
<1>10. exited' \in [Pane -> {"no", "clean", "failed"}]
  <2>1. now \in [Pane -> {"no", "clean", "failed"}]
    BY <1>4 DEF Whole, TypesOK
  <2> QED
    BY <1>7, <2>1, RemainingType
<1>11. quitting' \in BOOLEAN /\ (quitting' <=> ShouldQuit(shell'))
  <2>1. shell'.quit \in BOOLEAN /\ quitting' = ShouldQuit(shell')
    BY <1>9, ShellType DEF Pump, Sound, Tidy
  <2> QED
    BY <2>1 DEF ShouldQuit
<1> QED
  BY <1>9, <1>10, <1>11, ClosedIsWhole DEF Pump, Whole, TypesOK

\* A shell restored in full.
LEMMA RestoreWhole ==
  ASSUME Whole, NEW saved \in SavedStates, Restore(saved), restored' # "broken"
  PROVE  Whole'
<1>1. PICK windows : windows = saved.windows
  OBVIOUS
<1>2. PICK b : b = Rebuilt(windows)
  OBVIOUS
<1>3. PICK s : s = Activated(b, saved.active)
  OBVIOUS
<1>4. Torn(windows) = {}
  BY <1>1 DEF Restore
<1>5. /\ ~quitting /\ Ids = <<2, 2, 2>> /\ ReserveIds(saved) /\ restored' = "whole"
      /\ shell' = [s EXCEPT !.shut = (1..(nextPane' - 1)) \ OpenPanes(s)]
      /\ exited' = [p \in Pane |-> "no"] /\ hidden' = {} /\ UNCHANGED <<quick, native, quitting>>
  BY <1>1, <1>2, <1>3, <1>4 DEF Restore
<1>6. WholeWindows(windows)
  BY <1>1, <1>4, WholeIsWhole
<1>7. /\ Sound(b) /\ Windows(b) = Ided(Elems(windows)) /\ OpenTabs(b) = Ided(SavedTabs(windows))
      /\ OpenPanes(b) = UNION {Elems(t.panes) : t \in SavedTabs(windows)}
      /\ ~b.quit
  BY <1>2, <1>6, RebuiltIsSound
<1>8. b \in Shell
  BY <1>7 DEF Sound, Tidy
<1>9. /\ Sound(s) /\ SameThings(b, s) /\ ~s.quit
      /\ s.order = <<>> \/ s.active \in Windows(s)
  <2>1. CASE b.order = <<>>
    BY <1>3, <1>7, <2>1 DEF Activated, SameThings
  <2>2. CASE b.order # <<>>
    <3>1. PICK a : a = IF saved.active \in 1..Len(b.order) THEN b.order[saved.active]
                       ELSE LastOf(b.order)
      OBVIOUS
    <3>2. a \in Windows(b)
      <4>1. b.order \in Seq(Window)
        BY <1>8, ShellType
      <4>2. LastOf(b.order) \in Windows(b)
        BY <2>2, <4>1, EndsAreElems DEF Windows
      <4>3. \A i \in 1..Len(b.order) : b.order[i] \in Windows(b)
        BY DEF Windows, Elems
      <4> QED
        BY <3>1, <4>2, <4>3
    <3>3. s = [b EXCEPT !.active = a]
      BY <1>3, <2>2, <3>1 DEF Activated
    <3>4. a \in Window \cup {None}
      BY <1>8, <3>2, ShellType
    <3>5. Sound(s) /\ SameThings(b, s) /\ s.quit = b.quit /\ s.active = a
      BY <1>7, <3>3, <3>4, ActivatesWindow
    <3> QED
      BY <1>7, <3>2, <3>5 DEF SameThings
  <2> QED
    BY <2>1, <2>2
<1>10. /\ nextWindow' = Max({2, Highest(Windows(b)) + 1})
       /\ nextTab' = Max({2, Highest(OpenTabs(b)) + 1})
       /\ nextPane' = Max({2, Highest(OpenPanes(b)) + 1})
  <2>1. nextWindow = 2 /\ nextTab = 2 /\ nextPane = 2
    BY <1>5 DEF Ids
  <2> QED
    BY <1>1, <1>5, <1>7, <2>1 DEF ReserveIds
<1>11. /\ Windows(b) \subseteq 1..MaxWindows /\ OpenTabs(b) \subseteq 1..MaxTabs
       /\ OpenPanes(b) \subseteq 1..MaxPanes
  BY <1>8, ShellType, OpenType DEF Window, Tab, Pane
<1>12. /\ nextWindow' \in 2..(MaxWindows + 1) /\ Windows(b) \subseteq 1..(nextWindow' - 1)
       /\ nextTab' \in 2..(MaxTabs + 1) /\ OpenTabs(b) \subseteq 1..(nextTab' - 1)
       /\ nextPane' \in 2..(MaxPanes + 1) /\ OpenPanes(b) \subseteq 1..(nextPane' - 1)
  BY <1>10, <1>11, ReservedType, ShellAssumption
<1>13. PICK shut \in SUBSET Pane : shut = (1..(nextPane' - 1)) \ OpenPanes(s)
  <2>1. \A n \in 2..(MaxPanes + 1) : 1..(n - 1) \subseteq Pane
    BY ShellAssumption DEF Pane
  <2> QED
    BY <1>12, <2>1
<1>14. /\ Sound(shell') /\ SameThings(s, shell') /\ shell'.shut = shut
       /\ shell'.quit = s.quit /\ shell'.active = s.active
  <2>1. shell' = [s EXCEPT !.shut = shut]
    BY <1>5, <1>13
  <2>2. Sound(s)
    BY <1>9
  <2> QED
    BY <2>1, <2>2, ShutsOnly
<1>15. InIds(shell', nextWindow', nextTab', nextPane')
  BY <1>9, <1>12, <1>13, <1>14 DEF InIds, SameThings
<1>16. Lives(shell', quitting') /\ ~shell'.quit
  BY <1>5, <1>9, <1>13, <1>14 DEF Lives, SameThings
<1>17. Active(shell', quick')
  BY <1>5, <1>9, <1>14 DEF Active, SameThings, Whole
<1>18. TypesOK'
  <2>1. nextWindow' \in 1..(MaxWindows + 1) /\ nextTab' \in 1..(MaxTabs + 1)
        /\ nextPane' \in 1..(MaxPanes + 1)
    BY <1>12
  <2> QED
    BY <1>5, <2>1 DEF TypesOK, Whole
<1> QED
  BY <1>14, <1>15, <1>16, <1>17, <1>18 DEF Whole

-----------------------------------------------------------------------------
(* The theorems.                                                           *)

\* A new model has one window with one tab with one pane.
LEMMA InitWhole == Init => IInv
<1> SUFFICES ASSUME Init PROVE Whole
  BY DEF IInv
<1>1. PICK s : s = [order |-> <<>>, active |-> None, quit |-> FALSE,
                    tabs |-> [w \in Window |-> <<>>],
                    activeTab |-> [w \in Window |-> None],
                    panes |-> [t \in Tab |-> <<>>], focused |-> [t \in Tab |-> None],
                    shut |-> {}]
  OBVIOUS
<1>2. /\ s.order = <<>> /\ s.shut = {} /\ s.active = None /\ s.quit = FALSE
      /\ s.tabs = [w \in Window |-> <<>>] /\ s.activeTab = [w \in Window |-> None]
      /\ s.panes = [t \in Tab |-> <<>>] /\ s.focused = [t \in Tab |-> None]
  BY <1>1
<1>r. s = [order |-> s.order, active |-> s.active, quit |-> s.quit, tabs |-> s.tabs,
           activeTab |-> s.activeTab, panes |-> s.panes, focused |-> s.focused,
           shut |-> s.shut]
  BY <1>1
<1>3. s \in Shell
  <2>1. s.order \in Seq(Window) /\ s.active \in Window \cup {None} /\ s.quit \in BOOLEAN
        /\ s.shut \subseteq Pane
    BY <1>2, ElemsEmpty
  <2>2. s.tabs \in [Window -> Seq(Tab)] /\ s.panes \in [Tab -> Seq(Pane)]
    BY <1>2, ElemsEmpty
  <2>3. s.activeTab \in [Window -> Tab \cup {None}] /\ s.focused \in [Tab -> Pane \cup {None}]
    BY <1>2
  <2> QED
    BY <1>r, <2>1, <2>2, <2>3 DEF Shell
<1>4. Windows(s) = {} /\ OpenTabs(s) = {} /\ OpenPanes(s) = {}
  <2>1. Windows(s) = {}
    BY <1>2, <1>3, ShellType
  <2> QED
    BY <2>1, OpenIff
<1>5. Sound(s)
  BY <1>2, <1>3, <1>4, ElemsEmpty DEF Sound, Tidy, FocusBut
<1>6. 1 \in Window /\ 1 \in Tab /\ 1 \in Pane /\ MaxWindows \in Nat \ {0}
      /\ MaxTabs \in Nat \ {0} /\ MaxPanes \in Nat \ {0}
  BY ShellAssumption DEF Window, Tab, Pane
<1>7. shell = OpenWindow(s, 1, 1, 1)
  BY <1>1 DEF Init
<1>8. /\ Sound(shell) /\ Windows(shell) = {1} /\ OpenTabs(shell) = {1}
      /\ OpenPanes(shell) = {1} /\ shell.shut = {} /\ shell.quit = s.quit
  <2>1. 1 \notin Windows(s) /\ 1 \notin OpenTabs(s) /\ 1 \notin OpenPanes(s)
    BY <1>4
  <2>2. /\ Sound(shell) /\ Windows(shell) = Windows(s) \cup {1}
        /\ OpenTabs(shell) = OpenTabs(s) \cup {1} /\ OpenPanes(shell) = OpenPanes(s) \cup {1}
        /\ shell.shut = s.shut /\ shell.quit = s.quit /\ shell.active = 1
    BY <1>5, <1>6, <1>7, <2>1, OpensAWindow
  <2> QED
    BY <1>2, <1>4, <2>2
<1>9. ~shell.quit /\ shell.active = 1
  <2>1. shell.active = 1 /\ shell.quit = FALSE
    BY <1>2, <1>3, <1>7, <1>8 DEF OpenWindow, Shell
  <2> QED
    BY <2>1
<1>10. InIds(shell, 2, 2, 2)
  <2>1. 1..(2 - 1) = {1}
    OBVIOUS
  <2> QED
    BY <1>8, <2>1 DEF InIds
<1>11. Lives(shell, FALSE) /\ Active(shell, quick)
  BY <1>8, <1>9 DEF Lives, Active, Init
<1>12. TypesOK
  <2>1. /\ nextWindow = 2 /\ nextTab = 2 /\ nextPane = 2 /\ exited = [p \in Pane |-> "no"]
        /\ quick = [visible |-> FALSE, window |-> None, previous |-> None]
        /\ hidden = {} /\ native = {1} /\ quitting \in BOOLEAN /\ restored = "no"
    BY DEF Init
  <2>2. 2 \in 1..(MaxWindows + 1) /\ 2 \in 1..(MaxTabs + 1) /\ 2 \in 1..(MaxPanes + 1)
    BY <1>6
  <2>3. native \subseteq Window
    BY <1>6, <2>1
  <2>4. quick \in [visible : BOOLEAN, window : Window \cup {None}, previous : Window \cup {None}]
    BY <2>1
  <2> QED
    BY <2>1, <2>2, <2>3, <2>4 DEF TypesOK
<1> QED
  BY <1>8, <1>9, <1>10, <1>11, <1>12 DEF Whole, Init

\* A restore that was broken off stays so.
LEMMA BrokenStays == ASSUME restored = "broken", [Next]_vars PROVE restored' = "broken"
<1>1. ASSUME NEW saved \in SavedStates, Restore(saved) PROVE FALSE
  BY <1>1 DEF Restore
<1>2. CASE UserActs
  BY <1>2 DEF UserActs
<1>3. CASE Pump
  BY <1>3 DEF Pump
<1>4. ASSUME NEW p \in Pane, UserClicks(p) PROVE restored' = "broken"
  BY <1>4 DEF UserClicks
<1>5. ASSUME NEW w \in Window, NativeCloses(w) PROVE restored' = "broken"
  BY <1>5 DEF NativeCloses
<1> QED
  BY <1>1, <1>2, <1>3, <1>4, <1>5 DEF Next, vars

\* Only a restore breaks anything.
LEMMA StepKeepsInvariant == IInv /\ [Next]_vars => IInv'
<1> SUFFICES ASSUME IInv, [Next]_vars, restored' # "broken" PROVE Whole'
  BY DEF IInv
<1>1. Whole
  BY BrokenStays DEF IInv
<1>2. CASE UserActs
  BY <1>1, <1>2, UserActsWhole
<1>3. CASE Pump
  BY <1>1, <1>3, PumpWhole
<1>4. ASSUME NEW p \in Pane, UserClicks(p) PROVE Whole'
  BY <1>1, <1>4, UserClicksWhole
<1>5. ASSUME NEW w \in Window, NativeCloses(w) PROVE Whole'
  BY <1>1, <1>5, NativeClosesWhole
<1>6. ASSUME NEW saved \in SavedStates, Restore(saved) PROVE Whole'
  BY <1>1, <1>6, RestoreWhole
<1>7. CASE UNCHANGED vars
  BY <1>1, <1>7 DEF vars, Whole, TypesOK
<1> QED
  BY <1>2, <1>3, <1>4, <1>5, <1>6, <1>7 DEF Next

\* The inductive invariant holds in every state.
THEOREM Invariant == Spec => []IInv
<1> QED
  BY InitWhole, StepKeepsInvariant, PTL DEF Spec

\* The type invariant.
LEMMA WholeIsTyped == ASSUME Whole PROVE TypeOK
<1>1. shell \in Shell /\ InIds(shell, nextWindow, nextTab, nextPane) /\ TypesOK
  BY DEF Whole, Sound, Tidy
<1>2. DOMAIN shell = {"order", "active", "quit", "tabs", "activeTab", "panes", "focused", "shut"}
  BY <1>1 DEF Shell
<1>3. OpenPanes(shell) \subseteq 1..(nextPane - 1)
  BY <1>1 DEF InIds
<1> QED
  BY <1>1, <1>2, <1>3, ShellType DEF TypeOK, InIds, TypesOK

\* An open pane is in one place of one tab.
LEMMA OnePlace ==
  ASSUME NEW s, Sound(s), NEW p \in OpenPanes(s)
  PROVE  Cardinality({at \in OpenTabs(s) \X (1..MaxPanes) :
                        at[2] <= Len(s.panes[at[1]]) /\ s.panes[at[1]][at[2]] = p}) = 1
<1> DEFINE Places == {at \in OpenTabs(s) \X (1..MaxPanes) :
                        at[2] <= Len(s.panes[at[1]]) /\ s.panes[at[1]][at[2]] = p}
<1>1. PICK t \in OpenTabs(s) : p \in PanesOf(s, t)
  BY OpenIff
<1>2. PICK i \in 1..Len(s.panes[t]) : s.panes[t][i] = p
  BY <1>1 DEF PanesOf, Elems
<1>3. s \in Shell /\ Tidy(s) /\ t \in Tab
  BY OpenType DEF Sound, Tidy
<1>4. s.panes[t] \in Seq(1..MaxPanes) /\ Distinct(s.panes[t]) /\ MaxPanes \in Nat
  BY <1>3, ShellType, ShellAssumption DEF Pane, Tidy
<1>5. Len(s.panes[t]) \in Nat /\ Len(s.panes[t]) <= MaxPanes
  BY <1>4, DistinctIsShort
<1>6. <<t, i>> \in Places
  <2>1. i \in 1..MaxPanes /\ i <= Len(s.panes[t])
    BY <1>4, <1>5
  <2> QED
    BY <1>2, <2>1
<1>7. ASSUME NEW u \in OpenTabs(s), NEW j \in 1..MaxPanes,
             j <= Len(s.panes[u]), s.panes[u][j] = p
      PROVE  u = t /\ j = i
  <2>1. s.panes[u] \in Seq(Pane)
    BY <1>3, OpenType, ShellType
  <2>2. Len(s.panes[u]) \in Nat /\ j \in 1..Len(s.panes[u])
    BY <1>7, <2>1, ShellAssumption
  <2>3. p \in PanesOf(s, u)
    BY <1>7, <2>2 DEF PanesOf, Elems
  <2>4. u = t
    BY <1>1, <1>3, <2>3 DEF Tidy
  <2> QED
    BY <1>2, <1>4, <1>7, <2>2, <2>4 DEF Distinct
<1>8. Places = {<<t, i>>}
  BY <1>6, <1>7
<1>9. Cardinality({<<t, i>>}) = 1
  BY FS_Singleton
<1> QED
  BY <1>8, <1>9

\* Every pane ever created is in one place or shut down.
LEMMA WholeIsAccountedFor == ASSUME Whole PROVE PanesAccountedFor
<1>1. Sound(shell) /\ InIds(shell, nextWindow, nextTab, nextPane) /\ Lives(shell, quitting)
  BY DEF Whole
<1>2. ASSUME NEW p, p \notin OpenPanes(shell)
      PROVE  Cardinality({at \in OpenTabs(shell) \X (1..MaxPanes) :
                            at[2] <= Len(shell.panes[at[1]])
                            /\ shell.panes[at[1]][at[2]] = p}) = 0
  <2> DEFINE Places == {at \in OpenTabs(shell) \X (1..MaxPanes) :
                          at[2] <= Len(shell.panes[at[1]]) /\ shell.panes[at[1]][at[2]] = p}
  <2>1. ASSUME NEW u \in OpenTabs(shell), NEW j \in 1..MaxPanes,
               j <= Len(shell.panes[u]), shell.panes[u][j] = p
        PROVE  FALSE
    <3>1. shell.panes[u] \in Seq(Pane)
      BY <1>1, OpenType, ShellType DEF Sound, Tidy
    <3>2. j \in 1..Len(shell.panes[u])
      BY <2>1, <3>1, ShellAssumption
    <3> QED
      BY <1>2, <2>1, <3>2, OpenIff DEF PanesOf, Elems
  <2>2. Places = {}
    BY <2>1
  <2> QED
    BY <2>2, FS_EmptySet
<1>3. \A p \in 1..(nextPane - 1) : p \in OpenPanes(shell) \/ p \in shell.shut
  BY <1>1 DEF InIds
<1>4. ~shell.quit /\ ~quitting => OpenPanes(shell) \cap shell.shut = {}
  BY <1>1 DEF Lives
<1>5. ASSUME NEW t \in OpenTabs(shell)
      PROVE  Cardinality({w \in Windows(shell) : t \in TabsOf(shell, w)}) = 1
  <2>1. PICK w \in Windows(shell) : t \in TabsOf(shell, w)
    BY OpenIff
  <2>2. {v \in Windows(shell) : t \in TabsOf(shell, v)} = {w}
    BY <1>1, <2>1 DEF Sound, Tidy
  <2>3. Cardinality({w}) = 1
    BY FS_Singleton
  <2> QED
    BY <2>2, <2>3
<1>6. \A p \in 1..(nextPane - 1) :
        Cardinality({at \in OpenTabs(shell) \X (1..MaxPanes) :
                       at[2] <= Len(shell.panes[at[1]]) /\ shell.panes[at[1]][at[2]] = p})
          = IF p \in OpenPanes(shell) THEN 1 ELSE 0
  BY <1>1, <1>2, OnePlace
<1> QED
  BY <1>3, <1>4, <1>5, <1>6 DEF PanesAccountedFor

\* Whatever was opened, closed, exited or restored in one piece: no pane is
\* lost, in two places or without its session, keys have a pane to go to, and
\* quitting leaves no session behind (app_model.rs, restore.rs, ui/shell.rs).
THEOREM ShellStaysWhole == Spec => []ShellIsWhole
<1>1. ASSUME Whole PROVE KeysHaveAPane /\ QuitLeavesNoSession
  <2>1. Sound(shell) /\ InIds(shell, nextWindow, nextTab, nextPane) /\ Lives(shell, quitting)
        /\ Active(shell, quick)
    BY <1>1 DEF Whole
  <2>2. FocusIsInside
    BY <2>1, SoundFocus DEF FocusIsInside
  <2>3. ActiveIsOpen
    BY <2>1 DEF ActiveIsOpen, Active
  <2>4. QuitLeavesNoSession
    BY <2>1 DEF QuitLeavesNoSession, InIds, Lives
  <2> QED
    BY <2>2, <2>3, <2>4 DEF KeysHaveAPane
<1>2. IInv => ShellIsWhole
  BY <1>1, WholeIsTyped, WholeIsAccountedFor DEF IInv, ShellIsWhole
<1> QED
  BY <1>2, Invariant, PTL
=============================================================================
