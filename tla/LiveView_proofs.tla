--------------------------- MODULE LiveView_proofs --------------------------
(***************************************************************************)
(* For every number of results, every histogram range and any browsers:    *)
(* the types, and what the readers of the aggregator may rely on although  *)
(* they read it field by field.                                            *)
(***************************************************************************)
EXTENDS LiveView, FiniteSetTheorems, TLAPS

-----------------------------------------------------------------------------
\* A non-empty set of natural numbers has a least element: the finite sets of
\* numbers are well founded under inclusion, and 0..n lies below 0..m when n < m.
LEMMA Least ==
    ASSUME NEW S \in SUBSET Nat, S # {}
    PROVE  \E m \in S : \A n \in S : m <= n
<1> DEFINE Below == {0..n : n \in S}
<1>1. Below \subseteq FiniteSubsetsOf(Nat) /\ Below # {}
  <2>1. ASSUME NEW n \in S PROVE IsFiniteSet(0..n) /\ 0..n \subseteq Nat
    BY FS_Interval
  <2> QED
    BY <2>1 DEF FiniteSubsetsOf
<1>2. IsWellFoundedOn(StrictSubsetOrdering(Nat), FiniteSubsetsOf(Nat))
  BY FS_StrictSubsetOrderingWellFounded
<1>3. PICK x \in Below : \A y \in Below : <<y, x>> \notin StrictSubsetOrdering(Nat)
  <2> HIDE DEF Below
  <2> QED
    BY <1>1, <1>2, WFMin
<1>4. PICK m \in S : x = 0..m
  OBVIOUS
<1>5. ASSUME NEW n \in S, n < m PROVE FALSE
  <2>1. 0..n \in Below /\ 0..n \subseteq 0..m /\ 0..n # 0..m /\ 0..m \subseteq Nat
    BY <1>5
  <2> QED
    BY <1>3, <1>4, <2>1 DEF StrictSubsetOrdering
<1> QED
  BY <1>5

\* Induction, over a set instead of a predicate.
LEMMA Induction ==
    ASSUME NEW S, 0 \in S, \A n \in Nat : n \in S => n + 1 \in S
    PROVE  Nat \subseteq S
<1> SUFFICES ASSUME Nat \ S # {} PROVE FALSE
  OBVIOUS
<1>1. PICK m \in Nat \ S : \A n \in Nat \ S : m <= n
  BY Least
<1>2. m - 1 \in Nat /\ m - 1 \in S
  BY <1>1
<1> QED
  BY <1>1, <1>2

-----------------------------------------------------------------------------
(***************************************************************************)
(* The histogram.  Its cumulative counts exist (UpTo is recursive), grow   *)
(* with the latency, and go up by one from the latency of a new result on. *)
(***************************************************************************)
Histograms == [1..HistMax -> Nat]

IsSum(f, h, v) ==
    f = [u \in 0..v |-> IF u = 0 THEN 0 ELSE f[u - 1] + At(h, u)]

LEMMA SumExists ==
    ASSUME NEW h \in Histograms, NEW v \in Nat
    PROVE  \E f : IsSum(f, h, v)
<1> DEFINE Good == {n \in Nat : \E f : IsSum(f, h, n)}
<1>1. 0 \in Good
  <2>1. IsSum([u \in 0..0 |-> 0], h, 0)
    BY DEF IsSum
  <2> QED
    BY <2>1
<1>2. ASSUME NEW n \in Nat, n \in Good PROVE n + 1 \in Good
  <2>1. PICK f : IsSum(f, h, n)
    BY <1>2
  <2> DEFINE g == [u \in 0..(n + 1) |-> IF u = n + 1 THEN f[n] + At(h, n + 1) ELSE f[u]]
  <2>2. \A u \in 0..n : f[u] = IF u = 0 THEN 0 ELSE f[u - 1] + At(h, u)
    BY <2>1 DEF IsSum
  <2>3. \A u \in 0..(n + 1) : g[u] = IF u = 0 THEN 0 ELSE g[u - 1] + At(h, u)
    <3> SUFFICES ASSUME NEW u \in 0..(n + 1)
                 PROVE  g[u] = IF u = 0 THEN 0 ELSE g[u - 1] + At(h, u)
      OBVIOUS
    <3>1. CASE u = n + 1
      BY <3>1
    <3>2. CASE u \in 0..n
      BY <2>2, <3>2
    <3> QED
      BY <3>1, <3>2
  <2>4. IsSum(g, h, n + 1)
    BY <2>3 DEF IsSum
  <2> QED
    BY <2>4
<1>3. Nat \subseteq Good
  <2> HIDE DEF Good
  <2> QED
    BY <1>1, <1>2, Induction
<1> QED
  BY <1>3

LEMMA SumUnique ==
    ASSUME NEW h \in Histograms, NEW v \in Nat, NEW w \in Nat, v <= w,
           NEW f, NEW g, IsSum(f, h, v), IsSum(g, h, w)
    PROVE  f[v] = g[v]
<1> DEFINE Good == {n \in Nat : n <= v => f[n] = g[n]}
<1>1. \A u \in 0..v : f[u] = IF u = 0 THEN 0 ELSE f[u - 1] + At(h, u)
  BY DEF IsSum
<1>2. \A u \in 0..v : g[u] = IF u = 0 THEN 0 ELSE g[u - 1] + At(h, u)
  BY DEF IsSum
<1>3. 0 \in Good
  BY <1>1, <1>2
<1>4. ASSUME NEW n \in Nat, n \in Good PROVE n + 1 \in Good
  BY <1>1, <1>2, <1>4
<1>5. Nat \subseteq Good
  <2> HIDE DEF Good
  <2> QED
    BY <1>3, <1>4, Induction
<1> QED
  BY <1>5

LEMMA UpToIsSum ==
    ASSUME NEW h \in Histograms, NEW v \in Nat
    PROVE  \E f : IsSum(f, h, v) /\ UpTo(h, v) = f[v]
<1> DEFINE f == CHOOSE s : IsSum(s, h, v)
<1>1. IsSum(f, h, v)
  BY SumExists
<1>2. UpTo(h, v) = f[v]
  BY DEF UpTo, IsSum
<1> HIDE DEF f
<1> QED
  BY <1>1, <1>2

LEMMA UpToSteps ==
    ASSUME NEW h \in Histograms
    PROVE  /\ UpTo(h, 0) = 0
           /\ \A v \in Nat : UpTo(h, v + 1) = UpTo(h, v) + At(h, v + 1)
<1>1. UpTo(h, 0) = 0
  <2>1. PICK f : IsSum(f, h, 0) /\ UpTo(h, 0) = f[0]
    BY UpToIsSum
  <2> QED
    BY <2>1 DEF IsSum
<1>2. ASSUME NEW v \in Nat PROVE UpTo(h, v + 1) = UpTo(h, v) + At(h, v + 1)
  <2>1. PICK f : IsSum(f, h, v) /\ UpTo(h, v) = f[v]
    BY UpToIsSum
  <2>2. PICK g : IsSum(g, h, v + 1) /\ UpTo(h, v + 1) = g[v + 1]
    BY UpToIsSum
  <2>3. f[v] = g[v]
    BY <2>1, <2>2, SumUnique
  <2>4. v + 1 \in 0..(v + 1) /\ v + 1 # 0 /\ (v + 1) - 1 = v
    OBVIOUS
  <2>5. g[v + 1] = g[v] + At(h, v + 1)
    BY <2>2, <2>4 DEF IsSum
  <2> QED
    BY <2>1, <2>2, <2>3, <2>5
<1> QED
  BY <1>1, <1>2

LEMMA UpToIsNat ==
    ASSUME NEW h \in Histograms
    PROVE  \A v \in Nat : UpTo(h, v) \in Nat
<1> DEFINE Good == {v \in Nat : UpTo(h, v) \in Nat}
<1>1. \A v \in Nat : At(h, v) \in Nat
  BY DEF At, Histograms
<1>2. 0 \in Good
  BY UpToSteps
<1>3. ASSUME NEW v \in Nat, v \in Good PROVE v + 1 \in Good
  BY <1>1, <1>3, UpToSteps
<1>4. Nat \subseteq Good
  <2> HIDE DEF Good
  <2> QED
    BY <1>2, <1>3, Induction
<1> QED
  BY <1>4

LEMMA UpToGrows ==
    ASSUME NEW h \in Histograms, NEW v \in Nat, NEW w \in Nat, v <= w
    PROVE  UpTo(h, v) <= UpTo(h, w)
<1> DEFINE Good == {n \in Nat : v <= n => UpTo(h, v) <= UpTo(h, n)}
<1>1. \A n \in Nat : At(h, n) \in Nat /\ UpTo(h, n) \in Nat
  BY UpToIsNat DEF At, Histograms
<1>2. 0 \in Good
  BY <1>1
<1>3. ASSUME NEW n \in Nat, n \in Good PROVE n + 1 \in Good
  <2>1. CASE v = n + 1
    BY <1>1, <2>1
  <2>2. CASE v <= n
    <3>1. UpTo(h, v) <= UpTo(h, n) /\ UpTo(h, n + 1) = UpTo(h, n) + At(h, n + 1)
      BY <1>3, <2>2, UpToSteps
    <3>2. UpTo(h, v) <= UpTo(h, n + 1)
      BY <1>1, <3>1
    <3> QED
      BY <3>2
  <2> QED
    BY <2>1, <2>2
<1>4. Nat \subseteq Good
  <2> HIDE DEF Good
  <2> QED
    BY <1>2, <1>3, Induction
<1> QED
  BY <1>4

LEMMA UpToOfOneMore ==
    ASSUME NEW h \in Histograms, NEW ms \in 1..HistMax
    PROVE  \A v \in Nat : UpTo([h EXCEPT ![ms] = @ + 1], v)
                           = UpTo(h, v) + IF ms <= v THEN 1 ELSE 0
<1> DEFINE g == [h EXCEPT ![ms] = @ + 1]
           Good == {v \in Nat : UpTo(g, v) = UpTo(h, v) + IF ms <= v THEN 1 ELSE 0}
<1>1. g \in Histograms
  BY DEF Histograms
<1>2. \A v \in Nat : At(g, v) = At(h, v) + (IF v = ms THEN 1 ELSE 0) /\ At(h, v) \in Nat
  BY DEF At, Histograms
<1>3. \A v \in Nat : UpTo(h, v) \in Nat /\ UpTo(g, v) \in Nat
  <2> HIDE DEF g
  <2> QED
    BY <1>1, UpToIsNat
<1>4. 0 \in Good
  <2> HIDE DEF g
  <2> QED
    BY <1>1, UpToSteps, AggregatorAssumption
<1>5. ASSUME NEW v \in Nat, v \in Good PROVE v + 1 \in Good
  <2> HIDE DEF g
  <2>1. UpTo(g, v + 1) = UpTo(g, v) + At(g, v + 1)
    BY <1>1, UpToSteps
  <2>2. UpTo(h, v + 1) = UpTo(h, v) + At(h, v + 1)
    BY UpToSteps
  <2>3. UpTo(g, v) = UpTo(h, v) + IF ms <= v THEN 1 ELSE 0
    BY <1>5
  <2>4. At(g, v + 1) = At(h, v + 1) + (IF v + 1 = ms THEN 1 ELSE 0) /\ At(h, v + 1) \in Nat
    BY <1>2
  <2>5. UpTo(g, v + 1) = UpTo(h, v + 1) + IF ms <= v + 1 THEN 1 ELSE 0
    BY <1>3, <2>1, <2>2, <2>3, <2>4, AggregatorAssumption
  <2> QED
    BY <2>5
<1>6. Nat \subseteq Good
  <2> HIDE DEF Good
  <2> QED
    BY <1>4, <1>5, Induction
<1> QED
  BY <1>6
-----------------------------------------------------------------------------
(***************************************************************************)
(* Quantiles and the maximum.  Both exist, a quantile is the latency of a  *)
(* recorded result, and few results are above the 990th thousandth.        *)
(***************************************************************************)
LEMMA Greatest ==
    ASSUME NEW n \in Nat, NEW S \in SUBSET (0..n), S # {}
    PROVE  \E m \in S : \A k \in S : k <= m
<1> DEFINE Bounds == {m \in Nat : \A k \in S : k <= m}
<1>1. n \in Bounds /\ Bounds \in SUBSET Nat
  OBVIOUS
<1>2. PICK m \in Bounds : \A b \in Bounds : m <= b
  <2> HIDE DEF Bounds
  <2> QED
    BY <1>1, Least
<1>3. m \in S
  <2> SUFFICES ASSUME m \notin S PROVE FALSE
    OBVIOUS
  <2>1. PICK k \in S : TRUE
    OBVIOUS
  <2>2. m > 0 /\ m - 1 \in Nat
    BY <2>1
  <2>3. \A j \in S : j <= m - 1
    BY <2>2
  <2>4. m - 1 \in Bounds
    BY <2>2, <2>3
  <2>5. m <= m - 1
    BY <1>2, <2>4
  <2> QED
    BY <2>2, <2>5
<1> QED
  BY <1>3

LEMMA LongestFacts ==
    ASSUME NEW h \in Histograms
    PROVE  /\ Longest(h) \in 0..HistMax
           /\ Longest(h) > 0 => h[Longest(h)] > 0
           /\ \A v \in 1..HistMax : h[v] > 0 => v <= Longest(h)
<1> DEFINE present == {v \in 1..HistMax : h[v] > 0}
<1>1. HistMax \in Nat /\ present \subseteq 0..HistMax
  BY AggregatorAssumption
<1>2. Longest(h) = IF present = {} THEN 0
                   ELSE CHOOSE v \in present : \A u \in present : u <= v
  BY DEF Longest
<1>3. CASE present = {}
  BY <1>1, <1>2, <1>3
<1>4. CASE present # {}
  <2>1. \E v \in present : \A u \in present : u <= v
    <3> HIDE DEF present
    <3> QED
      BY <1>1, <1>4, Greatest
  <2>2. Longest(h) \in present /\ \A u \in present : u <= Longest(h)
    <3> HIDE DEF present
    <3> QED
      BY <1>2, <1>4, <2>1
  <2> QED
    BY <1>1, <2>2
<1> QED
  BY <1>3, <1>4

\* More results of some latency never lower the maximum.
LEMMA LongestGrows ==
    ASSUME NEW g \in Histograms, NEW h \in Histograms, \A v \in 1..HistMax : h[v] <= g[v]
    PROVE  Longest(h) <= Longest(g)
<1>1. Longest(h) \in 0..HistMax /\ Longest(g) \in 0..HistMax /\ HistMax \in Nat
  BY LongestFacts, AggregatorAssumption
<1>2. CASE Longest(h) = 0
  BY <1>1, <1>2
<1>3. CASE Longest(h) > 0
  <2>1. h[Longest(h)] > 0 /\ Longest(h) \in 1..HistMax
    BY <1>1, <1>3, LongestFacts
  <2>2. h[Longest(h)] \in Nat /\ g[Longest(h)] \in Nat /\ h[Longest(h)] <= g[Longest(h)]
    BY <2>1 DEF Histograms
  <2> QED
    BY <2>1, <2>2, LongestFacts
<1> QED
  BY <1>1, <1>2, <1>3

Rank(h, q) == (q * Recorded(h) + 500) \div 1000

\* From the median on, the rank is at least 1 and at most all that is recorded.
LEMMA RankInRange ==
    ASSUME NEW h \in Histograms, Recorded(h) > 0, NEW q \in {500, 750, 900, 950, 990, 999}
    PROVE  Rank(h, q) \in 1..Recorded(h)
<1>1. Recorded(h) \in Nat
  BY UpToIsNat, AggregatorAssumption DEF Recorded
<1> QED
  BY <1>1 DEF Rank

LEMMA QuantileFacts ==
    ASSUME NEW h \in Histograms, Recorded(h) > 0, NEW q \in {500, 750, 900, 950, 990, 999}
    PROVE  /\ ValueAtQuantile(h, q) \in 1..HistMax
           /\ h[ValueAtQuantile(h, q)] > 0
           /\ UpTo(h, ValueAtQuantile(h, q)) >= Rank(h, q)
<1> DEFINE enough == {v \in 1..HistMax : UpTo(h, v) >= Rank(h, q)}
           least == ValueAtQuantile(h, q)
<1>1. HistMax \in Nat \ {0}
  BY AggregatorAssumption
<1>2. least = CHOOSE v \in enough : \A u \in enough : v <= u
  BY DEF ValueAtQuantile, Rank
<1>3. Rank(h, q) \in 1..Recorded(h) /\ Recorded(h) = UpTo(h, HistMax) /\ Recorded(h) \in Nat
  BY <1>1, RankInRange, UpToIsNat DEF Recorded
<1>4. HistMax \in enough /\ enough \in SUBSET Nat
  BY <1>1, <1>3
<1>5. \E v \in enough : \A u \in enough : v <= u
  <2> HIDE DEF enough
  <2> QED
    BY <1>4, Least
<1>6. least \in enough /\ \A u \in enough : least <= u
  <2> HIDE DEF enough, least
  <2> QED
    BY <1>2, <1>5
<1>7. h[least] > 0
  <2> HIDE DEF least
  <2>1. least \in 1..HistMax /\ UpTo(h, least) >= Rank(h, q)
    BY <1>6
  <2>2. least - 1 \in Nat /\ (least - 1) + 1 = least
    BY <2>1
  <2>3. UpTo(h, least) = UpTo(h, least - 1) + At(h, least)
    BY <2>2, UpToSteps
  <2>4. At(h, least) = h[least] /\ h[least] \in Nat
    BY <2>1 DEF At, Histograms
  <2>5. UpTo(h, least - 1) < Rank(h, q)
    <3>1. CASE least = 1
      BY <1>3, <3>1, UpToSteps
    <3>2. CASE least # 1
      <4>1. least - 1 \in 1..HistMax
        BY <1>1, <2>1, <3>2
      <4>2. least - 1 \notin enough
        <5> HIDE DEF enough
        <5> QED
          BY <1>6, <2>1
      <4>3. UpTo(h, least - 1) \in Nat
        BY <2>2, UpToIsNat
      <4> QED
        BY <1>3, <4>1, <4>2, <4>3
    <3> QED
      BY <3>1, <3>2
  <2> QED
    BY <1>3, <2>1, <2>2, <2>3, <2>4, <2>5, UpToIsNat
<1> QED
  BY <1>6, <1>7

LEMMA QuantileWithinLongest ==
    ASSUME NEW h \in Histograms, NEW q \in {500, 750, 900, 950, 990, 999}
    PROVE  ValueAtQuantile(h, q) \in 0..Longest(h)
<1>1. Recorded(h) \in Nat
  BY UpToIsNat, AggregatorAssumption DEF Recorded
<1>2. CASE Recorded(h) = 0
  BY <1>2, LongestFacts DEF ValueAtQuantile
<1>3. CASE Recorded(h) > 0
  BY <1>3, QuantileFacts, LongestFacts
<1> QED
  BY <1>1, <1>2, <1>3

\* If the p99 is within a limit, few results are above the limit.
LEMMA FewAboveP99 ==
    ASSUME NEW h \in Histograms, NEW limit \in Nat,
           ValueAtQuantile(h, 990) <= limit
    PROVE  1000 * (Recorded(h) - UpTo(h, limit)) <= 10 * Recorded(h) + 500
<1>1. Recorded(h) \in Nat /\ UpTo(h, limit) \in Nat
  BY UpToIsNat, AggregatorAssumption DEF Recorded
<1>2. CASE Recorded(h) = 0
  BY <1>1, <1>2
<1>3. CASE Recorded(h) > 0
  <2> DEFINE v == ValueAtQuantile(h, 990)
  <2>1. v \in 1..HistMax /\ UpTo(h, v) >= Rank(h, 990)
    BY <1>3, QuantileFacts
  <2> HIDE DEF v
  <2>2. v \in Nat /\ v <= limit
    BY <2>1, AggregatorAssumption DEF v
  <2>3. UpTo(h, v) <= UpTo(h, limit) /\ UpTo(h, v) \in Nat
    BY <2>2, UpToGrows, UpToIsNat
  <2>4. 1000 * Rank(h, 990) >= 990 * Recorded(h) - 499 /\ Rank(h, 990) \in Nat
    BY <1>1 DEF Rank
  <2> QED
    BY <1>1, <2>1, <2>3, <2>4
<1> QED
  BY <1>1, <1>2, <1>3
-----------------------------------------------------------------------------
(***************************************************************************)
(* The inductive invariant, by whom it is about.  Every reader relies on   *)
(* the counters only growing: what it read is at most what is there now,   *)
(* and it reads first what must not be the larger.                         *)
(***************************************************************************)
Aggregated ==
    /\ mode \in Modes
    /\ total \in 0..mode.results
    /\ errors \in 0..total /\ messages = errors
    /\ hist \in Histograms
    /\ \A v \in Nat : UpTo(hist, v) <= total

Gauges ==
    LET stored == got["updater"] IN
    /\ at["updater"] \in 1..3
    /\ stored \in [errors : Counts, total : Counts]
    /\ stored.errors <= errors /\ stored.total <= total
    /\ at["updater"] # 2 => stored.errors <= stored.total
    /\ scrapeAt \in 1..3 /\ midTick \in BOOLEAN
    /\ scrape \in [errors : Counts, total : Counts]
    /\ scrapeAt = 2 /\ ~midTick => scrape.errors <= stored.total
    /\ scrapeAt = 3 /\ ~midTick => scrape.errors <= scrape.total

Frame ==
    /\ at["frame"] \in 0..3
    /\ got["frame"] \in [rate : [errors : Counts, total : Counts], total : Counts]
    /\ at["frame"] = 2 => got["frame"].rate.errors <= total
    /\ at["frame"] = 3 => got["frame"].rate.errors <= got["frame"].total

SummaryShape ==
    [total : Counts, rps : Counts, errors : Counts, breakdown : Counts,
     rate : [errors : Counts, total : Counts],
     p50 : 0..HistMax, p75 : 0..HistMax, p90 : 0..HistMax, p95 : 0..HistMax,
     p99 : 0..HistMax, p999 : 0..HistMax, max : 0..HistMax]

\* How far main has come, and that each field is read after those it bounds.
Summary ==
    LET s == got["summary"]
        n == at["summary"]
    IN /\ s \in SummaryShape
       /\ n \in 0..13
       /\ mainPc = "wait" <=> n = 0
       /\ mainPc \in {"save", "verdict", "exit", "exited"} <=> n = 13
       /\ mainPc \in {"wait", "summary", "save", "verdict", "exit", "exited"}
       /\ n >= 2 => s.total <= total
       /\ n >= 3 => s.total <= s.rps
       /\ n \in 4..9 => s.p50 <= Longest(hist)
       /\ n \in 5..9 => s.p75 <= Longest(hist)
       /\ n \in 6..9 => s.p90 <= Longest(hist)
       /\ n \in 7..9 => s.p95 <= Longest(hist)
       /\ n \in 8..9 => s.p99 <= Longest(hist)
       /\ n = 9 => s.p999 <= Longest(hist)
       /\ n >= 10 => /\ s.p50 <= s.max /\ s.p75 <= s.max /\ s.p90 <= s.max
                     /\ s.p95 <= s.max /\ s.p99 <= s.max /\ s.p999 <= s.max
       /\ n >= 11 => s.errors <= errors
       /\ n >= 12 => s.errors <= s.rate.errors /\ s.rate.errors <= s.rate.total
                     /\ s.rate.errors <= errors
       /\ n = 13 => s.rate.errors <= s.breakdown

\* The exit code is the verdict on the summary, and few results were above the
\* threshold when its p99 was read.
Verdict ==
    LET s == got["summary"] IN
    /\ basis \in [count : Counts, slow : Counts, beyond : Counts]
    /\ at["summary"] >= 8 /\ basis.beyond = 0 /\ s.p99 <= Limits.p99
          => 1000 * basis.slow <= 10 * basis.count + 500
    /\ breach \in BOOLEAN /\ exitCode \in {-1, 0, 1}
    /\ mainPc \in {"exit", "exited"} => breach = Evaluate(s)
    /\ mainPc = "exited" => exitCode = IF breach THEN 1 ELSE 0

Rest ==
    /\ DOMAIN at = Readers /\ DOMAIN got = Readers
    /\ DashTypeOK
    /\ scheduler \in {"working", "stuck", "returned"}
    /\ ctxDone \in BOOLEAN /\ stop \in {"none", "pressed", "handled"}
    /\ ended \subseteq {"updater", "frame"}
    /\ saved \in {"no", "yes", "failed"}

IInv == Aggregated /\ Gauges /\ Frame /\ Summary /\ Verdict /\ Rest

\* The steps that touch neither the aggregator nor what a reader has read.
Others ==
    \/ PressStop \/ HandleStop \/ Cancel \/ SchedulerReturns \/ SchedulerHangs
    \/ \E b \in Browsers : Handler(b) \/ Browser(b)

LEMMA Split ==
    ASSUME [Next]_vars
    PROVE  \/ CountResult \/ Updater \/ LoadGauge \/ NewScrape \/ Broadcaster \/ Main
           \/ Others \/ UNCHANGED vars
BY DEF Next, Others

LEMMA OthersKeep ==
    ASSUME Others
    PROVE  UNCHANGED <<aggVars, mode, viewVars, endVars>>
BY DEF Others, PressStop, HandleStop, Cancel, SchedulerReturns, SchedulerHangs, Handler, Browser

-----------------------------------------------------------------------------
\* What Aggregated says in numbers.
LEMMA AggregatedFacts ==
    ASSUME Aggregated
    PROVE  /\ MaxResults \in Nat /\ HistMax \in Nat
           /\ Counts \subseteq Nat /\ 0 \in Counts
           /\ total \in Counts /\ errors \in Counts /\ messages = errors /\ errors <= total
           /\ Longest(hist) \in 0..HistMax
           /\ \A q \in {500, 750, 900, 950, 990, 999} : ValueAtQuantile(hist, q) \in 0..Longest(hist)
           /\ \A v \in Nat : UpTo(hist, v) \in 0..total
<1>1. mode.results \in 0..MaxResults /\ MaxResults \in Nat /\ HistMax \in Nat
  BY LiveViewAssumption, AggregatorAssumption DEF Aggregated
<1>2. Counts \subseteq Nat /\ 0 \in Counts /\ total \in Counts /\ errors \in Counts
  BY <1>1 DEF Aggregated, Counts
<1>3. \A v \in Nat : UpTo(hist, v) \in 0..total
  BY <1>1, UpToIsNat DEF Aggregated
<1> QED
  BY <1>1, <1>2, <1>3, LongestFacts, QuantileWithinLongest DEF Aggregated

\* The aggregator only grows.
LEMMA AggregatorGrows ==
    ASSUME Aggregated, [Next]_vars
    PROVE  /\ Aggregated'
           /\ total' \in Counts /\ errors' \in Counts /\ errors' <= total'
           /\ total <= total' /\ errors <= errors'
           /\ Longest(hist') \in 0..HistMax /\ Longest(hist) <= Longest(hist')
<1> SUFFICES /\ Aggregated'
             /\ total <= total' /\ errors <= errors'
             /\ Longest(hist) <= Longest(hist')
  <2>1. ASSUME Aggregated'
        PROVE  /\ total' \in Counts /\ errors' \in Counts /\ errors' <= total'
               /\ Longest(hist') \in 0..HistMax
    <3>1. mode'.results \in 0..MaxResults /\ MaxResults \in Nat
      BY <2>1, LiveViewAssumption, AggregatorAssumption DEF Aggregated
    <3>2. total' \in 0..mode'.results /\ errors' \in 0..total' /\ hist' \in Histograms
      BY <2>1 DEF Aggregated
    <3> QED
      BY <3>1, <3>2, LongestFacts DEF Counts
  <2> QED
    BY <2>1
<1>1. MaxResults \in Nat /\ HistMax \in Nat /\ total \in Nat /\ errors \in Nat
      /\ Longest(hist) \in Nat /\ mode.results \in Nat
  BY AggregatedFacts, LiveViewAssumption DEF Aggregated, Counts
<1>2. CASE UNCHANGED <<aggVars, mode>>
  BY <1>1, <1>2 DEF aggVars, Aggregated
<1>3. CASE CountResult
  <2>1. /\ total < mode.results /\ mode' = mode
        /\ \E latency \in 0..mode.slowest, failed \in BOOLEAN : Count(latency, failed)
    BY <1>3 DEF CountResult
  <2>2. PICK latency \in 0..mode.slowest, failed \in BOOLEAN : Count(latency, failed)
    BY <2>1
  <2>3. PICK ms : ms = IF latency < 1 THEN 1 ELSE latency
    OBVIOUS
  <2>4. /\ total' = total + 1
        /\ errors' = IF failed THEN errors + 1 ELSE errors
        /\ messages' = IF failed THEN messages + 1 ELSE messages
        /\ hist' = IF ms \in DOMAIN hist THEN [hist EXCEPT ![ms] = @ + 1] ELSE hist
    BY <2>2, <2>3 DEF Count
  <2>5. total' \in 0..mode'.results /\ errors' \in 0..total' /\ messages' = errors'
    BY <1>1, <2>1, <2>4 DEF Aggregated
  <2>6. DOMAIN hist = 1..HistMax /\ hist \in Histograms
    BY DEF Aggregated, Histograms
  <2>7. hist' \in Histograms /\ \A v \in 1..HistMax : hist[v] <= hist'[v]
    BY <2>4, <2>6 DEF Histograms
  <2>8. \A v \in Nat : UpTo(hist', v) <= total'
    <3> TAKE v \in Nat
    <3>1. UpTo(hist, v) \in Nat /\ UpTo(hist, v) <= total
      BY <2>6, UpToIsNat DEF Aggregated
    <3>2. CASE ms \in 1..HistMax
      <4>1. hist' = [hist EXCEPT ![ms] = @ + 1]
        BY <2>4, <2>6, <3>2
      <4>2. UpTo(hist', v) = UpTo(hist, v) + IF ms <= v THEN 1 ELSE 0
        BY <2>6, <3>2, <4>1, UpToOfOneMore
      <4> QED
        BY <1>1, <2>4, <3>1, <4>2
    <3>3. CASE ms \notin 1..HistMax
      BY <1>1, <2>4, <2>6, <3>1, <3>3
    <3> QED
      BY <3>2, <3>3
  <2>9. Longest(hist) <= Longest(hist')
    BY <2>6, <2>7, LongestGrows
  <2>10. Aggregated'
    BY <2>1, <2>5, <2>7, <2>8 DEF Aggregated
  <2>11. total <= total' /\ errors <= errors'
    BY <1>1, <2>4
  <2> QED
    BY <2>9, <2>10, <2>11
<1>4. CASE Updater \/ LoadGauge \/ NewScrape
  BY <1>2, <1>4 DEF Updater, Tick, EndReader, ReadField, LoadGauge, NewScrape
<1>5. CASE Broadcaster
  BY <1>2, <1>5 DEF Broadcaster, Tick, EndReader, ReadField
<1>6. CASE Main
  BY <1>2, <1>6 DEF Main, MainStep, Join, Summarise, ReadField, Save, Judge, Exit
<1>7. CASE Others \/ UNCHANGED vars
  BY <1>2, <1>7, OthersKeep DEF vars
<1> QED
  BY <1>3, <1>4, <1>5, <1>6, <1>7, Split
-----------------------------------------------------------------------------
(***************************************************************************)
(* One lemma for each part of the invariant: a step keeps it.              *)
(***************************************************************************)
gaugeVars == <<at["updater"], got["updater"], scrapeAt, scrape, midTick>>

LEMMA GaugesKept ==
    ASSUME IInv, [Next]_vars
    PROVE  Gauges'
<1>1. /\ total \in Counts /\ errors \in Counts /\ errors <= total
      /\ total' \in Counts /\ errors' \in Counts /\ total <= total' /\ errors <= errors'
  BY AggregatedFacts, AggregatorGrows DEF IInv
<1>2. /\ Counts \subseteq Nat /\ 0 \in Counts
      /\ total \in Nat /\ errors \in Nat /\ total' \in Nat /\ errors' \in Nat
  BY <1>1, AggregatedFacts DEF IInv
<1>3. DOMAIN at = Readers /\ DOMAIN got = Readers /\ "updater" \in Readers
  BY DEF IInv, Rest, Readers
<1>4. /\ got["updater"].errors \in Nat /\ got["updater"].total \in Nat
       /\ scrape.errors \in Nat /\ scrape.total \in Nat
  BY <1>2 DEF IInv, Gauges
<1>5. CASE UNCHANGED gaugeVars
  <2>1. /\ at'["updater"] = at["updater"] /\ got'["updater"] = got["updater"]
        /\ UNCHANGED <<scrapeAt, scrape, midTick>>
    BY <1>5 DEF gaugeVars
  <2> QED
    BY <1>1, <1>2, <1>4, <2>1 DEF IInv, Gauges
<1>6. CASE Updater
  <2>1. UNCHANGED <<total, errors, scrapeAt, scrape, midTick>>
    BY <1>6 DEF Updater, Tick, EndReader, ReadField, aggVars
  <2>2. CASE Finished("updater") /\ Tick("updater")
    <3>1. at["updater"] = 3 /\ at'["updater"] = 1 /\ got' = got
      BY <1>3, <2>2 DEF Finished, FieldsOf, UpdaterFields, Tick
    <3> QED
      BY <1>1, <1>2, <2>1, <3>1 DEF IInv, Gauges
  <2>3. CASE EndReader("updater")
    BY <1>5, <2>1, <2>3 DEF EndReader, gaugeVars
  <2>4. CASE ReadField("updater")
    <3>1. at["updater"] \in 1..2 /\ at'["updater"] = at["updater"] + 1
      BY <1>3, <2>4 DEF ReadField, Finished, FieldsOf, UpdaterFields, IInv, Gauges
    <3>2. CASE at["updater"] = 1
      <4>1. got'["updater"] = [got["updater"] EXCEPT !.errors = errors]
        BY <1>3, <2>4, <3>2 DEF ReadField, FieldsOf, UpdaterFields, Getter
      <4> QED
        BY <1>1, <1>2, <2>1, <3>1, <3>2, <4>1 DEF IInv, Gauges
    <3>3. CASE at["updater"] = 2
      <4>1. got'["updater"] = [got["updater"] EXCEPT !.total = total]
        BY <1>3, <2>4, <3>3 DEF ReadField, FieldsOf, UpdaterFields, Getter
      <4> QED
        BY <1>1, <1>2, <2>1, <3>1, <3>3, <4>1 DEF IInv, Gauges
    <3> QED
      BY <3>1, <3>2, <3>3
  <2> QED
    BY <1>6, <2>2, <2>3, <2>4 DEF Updater
<1>7. CASE LoadGauge
  <2>1. UNCHANGED <<at, got, total, errors>> /\ scrapeAt' = scrapeAt + 1
    BY <1>7 DEF LoadGauge, aggVars
  <2>2. scrapeAt \in 1..2
    BY <1>7 DEF LoadGauge, ScrapeFields
  <2>3. CASE scrapeAt = 1
    <3>1. /\ scrape' = [scrape EXCEPT !.errors = got["updater"].errors]
          /\ midTick' = (at["updater"] = 2)
      BY <1>7, <2>3 DEF LoadGauge, ScrapeFields
    <3>2. midTick' \in BOOLEAN /\ (~midTick' => at["updater"] # 2)
      BY <3>1
    <3>3. scrape' \in [errors : Counts, total : Counts]
      BY <3>1 DEF IInv, Gauges
    <3>4. scrape'.errors = got["updater"].errors
      BY <3>1 DEF IInv, Gauges
    <3>5. ~midTick' => scrape'.errors <= got["updater"].total
      BY <3>2, <3>4 DEF IInv, Gauges
    <3> QED
      BY <1>1, <1>2, <1>4, <2>1, <2>3, <3>2, <3>3, <3>5 DEF IInv, Gauges
  <2>4. CASE scrapeAt = 2
    <3>1. scrape' = [scrape EXCEPT !.total = got["updater"].total] /\ midTick' = midTick
      BY <1>7, <2>4 DEF LoadGauge, ScrapeFields
    <3>2. midTick' \in BOOLEAN
      BY <3>1 DEF IInv, Gauges
    <3>3. scrape' \in [errors : Counts, total : Counts]
      BY <3>1 DEF IInv, Gauges
    <3>4. ~midTick => scrape.errors <= got["updater"].total
      BY <2>4 DEF IInv, Gauges
    <3>5. ~midTick' => scrape'.errors <= scrape'.total
      BY <3>1, <3>4 DEF IInv, Gauges
    <3> QED
      BY <1>1, <1>2, <1>4, <2>1, <2>4, <3>2, <3>3, <3>5 DEF IInv, Gauges
  <2> QED
    BY <2>2, <2>3, <2>4
<1>8. CASE NewScrape
  <2>1. /\ UNCHANGED <<at, got, total, errors>> /\ scrapeAt' = 1
        /\ scrape' = [errors |-> 0, total |-> 0] /\ midTick' = FALSE
    BY <1>8 DEF NewScrape, aggVars
  <2>2. midTick' \in BOOLEAN
    BY <2>1
  <2>3. scrape' \in [errors : Counts, total : Counts]
    BY <1>2, <2>1
  <2> QED
    BY <1>1, <1>2, <1>4, <2>1, <2>2, <2>3 DEF IInv, Gauges
<1>9. CASE CountResult \/ Others \/ UNCHANGED vars
  BY <1>5, <1>9, OthersKeep DEF CountResult, vars, viewVars, gaugeVars
<1>10. CASE Broadcaster
  BY <1>3, <1>5, <1>10 DEF Broadcaster, Tick, EndReader, ReadField, viewVars, gaugeVars
<1>11. CASE Main
  BY <1>3, <1>5, <1>11 DEF Main, Join, Summarise, ReadField, Save, Judge, Exit, viewVars, gaugeVars
<1> QED
  BY <1>6, <1>7, <1>8, <1>9, <1>10, <1>11, Split

frameVars == <<at["frame"], got["frame"]>>

LEMMA FrameKept ==
    ASSUME IInv, [Next]_vars
    PROVE  Frame'
<1>1. /\ total \in Counts /\ errors \in Counts /\ errors <= total
      /\ total' \in Counts /\ errors' \in Counts /\ total <= total' /\ errors <= errors'
  BY AggregatedFacts, AggregatorGrows DEF IInv
<1>2. /\ Counts \subseteq Nat /\ 0 \in Counts
      /\ total \in Nat /\ errors \in Nat /\ total' \in Nat /\ errors' \in Nat
  BY <1>1, AggregatedFacts DEF IInv
<1>3. DOMAIN at = Readers /\ DOMAIN got = Readers /\ "frame" \in Readers
  BY DEF IInv, Rest, Readers
<1>4. CASE UNCHANGED frameVars
  <2>1. at'["frame"] = at["frame"] /\ got'["frame"] = got["frame"]
    BY <1>4 DEF frameVars
  <2>2. got["frame"].rate.errors \in Nat
    BY <1>2 DEF IInv, Frame
  <2> QED
    BY <1>1, <1>2, <2>1, <2>2 DEF IInv, Frame
<1>5. CASE Broadcaster
  <2>1. CASE at["frame"] = 0 /\ Tick("frame")
    <3>1. at'["frame"] = 1 /\ got' = got
      BY <1>3, <2>1 DEF Tick
    <3> QED
      BY <3>1 DEF IInv, Frame
  <2>2. CASE EndReader("frame")
    BY <1>4, <2>2 DEF EndReader, frameVars
  <2>3. CASE ReadField("frame")
    <3>1. at["frame"] \in 1..2 /\ at'["frame"] = at["frame"] + 1 /\ UNCHANGED <<total, errors>>
      BY <1>3, <2>3 DEF ReadField, Finished, FieldsOf, FrameFields, IInv, Frame, aggVars
    <3>2. CASE at["frame"] = 1
      <4>1. got'["frame"] = [got["frame"] EXCEPT !.rate = [errors |-> errors, total |-> total]]
        BY <1>3, <2>3, <3>2 DEF ReadField, FieldsOf, FrameFields, Getter
      <4> QED
        BY <1>1, <1>2, <3>1, <3>2, <4>1 DEF IInv, Frame
    <3>3. CASE at["frame"] = 2
      <4>1. got'["frame"] = [got["frame"] EXCEPT !.total = total]
        BY <1>3, <2>3, <3>3 DEF ReadField, FieldsOf, FrameFields, Getter
      <4> QED
        BY <1>1, <1>2, <3>1, <3>3, <4>1 DEF IInv, Frame
    <3> QED
      BY <3>1, <3>2, <3>3
  <2>4. CASE UNCHANGED viewVars
    BY <1>4, <2>4 DEF viewVars, frameVars
  <2>5. CASE at' = [at EXCEPT !["frame"] = 0] /\ got' = [got EXCEPT !["frame"] = Empty("frame")]
    <3>1. {FieldsOf("frame")[i] : i \in DOMAIN FieldsOf("frame")} = {"rate", "total"}
      BY DEF FieldsOf, FrameFields
    <3>2. Empty("frame") = [rate |-> [errors |-> 0, total |-> 0], total |-> 0]
      BY <3>1 DEF Empty
    <3>3. at'["frame"] = 0 /\ got'["frame"] = [rate |-> [errors |-> 0, total |-> 0], total |-> 0]
      BY <1>3, <2>5, <3>2
    <3> QED
      BY <1>2, <3>3 DEF Frame
  <2> QED
    BY <1>5, <2>1, <2>2, <2>3, <2>4, <2>5 DEF Broadcaster
<1>6. CASE CountResult \/ Others \/ UNCHANGED vars
  BY <1>4, <1>6, OthersKeep DEF CountResult, vars, viewVars, frameVars
<1>7. CASE Updater \/ LoadGauge \/ NewScrape
  BY <1>3, <1>4, <1>7 DEF Updater, Tick, EndReader, ReadField, LoadGauge, NewScrape, frameVars
<1>8. CASE Main
  BY <1>3, <1>4, <1>8 DEF Main, Join, Summarise, ReadField, Save, Judge, Exit, viewVars, frameVars
<1> QED
  BY <1>5, <1>6, <1>7, <1>8, Split

\* The n-th field of the summary, and the one that comes after it.
LEMMA SummaryReads ==
    ASSUME IInv, ReadField("summary")
    PROVE  LET n == at["summary"]
               s == got["summary"]
           IN /\ n \in 1..12 /\ at'["summary"] = n + 1
              /\ UNCHANGED aggVars
              /\ n = 1 => got'["summary"] = [s EXCEPT !.total = total]
              /\ n = 2 => got'["summary"] = [s EXCEPT !.rps = total]
              /\ n = 3 => got'["summary"] = [s EXCEPT !.p50 = ValueAtQuantile(hist, 500)]
              /\ n = 4 => got'["summary"] = [s EXCEPT !.p75 = ValueAtQuantile(hist, 750)]
              /\ n = 5 => got'["summary"] = [s EXCEPT !.p90 = ValueAtQuantile(hist, 900)]
              /\ n = 6 => got'["summary"] = [s EXCEPT !.p95 = ValueAtQuantile(hist, 950)]
              /\ n = 7 => got'["summary"] = [s EXCEPT !.p99 = ValueAtQuantile(hist, 990)]
              /\ n = 8 => got'["summary"] = [s EXCEPT !.p999 = ValueAtQuantile(hist, 999)]
              /\ n = 9 => got'["summary"] = [s EXCEPT !.max = Longest(hist)]
              /\ n = 10 => got'["summary"] = [s EXCEPT !.errors = errors]
              /\ n = 11 => got'["summary"] = [s EXCEPT !.rate =
                                               [errors |-> errors, total |-> total]]
              /\ n = 12 => got'["summary"] = [s EXCEPT !.breakdown = messages]
<1>1. DOMAIN at = Readers /\ DOMAIN got = Readers /\ "summary" \in Readers
  BY DEF IInv, Rest, Readers
<1>2. /\ at["summary"] \in 1..12 /\ at'["summary"] = at["summary"] + 1
      /\ UNCHANGED aggVars
  BY <1>1 DEF ReadField, Finished, FieldsOf, SummaryFields, IInv, Summary
<1>3. got'["summary"] = [got["summary"] EXCEPT ![SummaryFields[at["summary"]]]
                            = Getter(SummaryFields[at["summary"]])]
  BY <1>1 DEF ReadField, FieldsOf
<1>4. /\ at["summary"] = 1 => SummaryFields[at["summary"]] = "total"
      /\ at["summary"] = 2 => SummaryFields[at["summary"]] = "rps"
      /\ at["summary"] = 3 => SummaryFields[at["summary"]] = "p50"
      /\ at["summary"] = 4 => SummaryFields[at["summary"]] = "p75"
      /\ at["summary"] = 5 => SummaryFields[at["summary"]] = "p90"
      /\ at["summary"] = 6 => SummaryFields[at["summary"]] = "p95"
      /\ at["summary"] = 7 => SummaryFields[at["summary"]] = "p99"
      /\ at["summary"] = 8 => SummaryFields[at["summary"]] = "p999"
      /\ at["summary"] = 9 => SummaryFields[at["summary"]] = "max"
      /\ at["summary"] = 10 => SummaryFields[at["summary"]] = "errors"
      /\ at["summary"] = 11 => SummaryFields[at["summary"]] = "rate"
      /\ at["summary"] = 12 => SummaryFields[at["summary"]] = "breakdown"
  BY DEF SummaryFields
<1>5. /\ Getter("total") = total /\ Getter("rps") = total
      /\ Getter("p50") = ValueAtQuantile(hist, 500)
      /\ Getter("p75") = ValueAtQuantile(hist, 750)
      /\ Getter("p90") = ValueAtQuantile(hist, 900)
      /\ Getter("p95") = ValueAtQuantile(hist, 950)
      /\ Getter("p99") = ValueAtQuantile(hist, 990)
      /\ Getter("p999") = ValueAtQuantile(hist, 999)
      /\ Getter("max") = Longest(hist)
      /\ Getter("errors") = errors
      /\ Getter("rate") = [errors |-> errors, total |-> total]
      /\ Getter("breakdown") = messages
  BY DEF Getter
<1> QED
  BY <1>2, <1>3, <1>4, <1>5

summaryVars == <<at["summary"], got["summary"], endVars>>

\* Only main moves on with the summary.
LEMMA NotMain ==
    ASSUME IInv, [Next]_vars, ~Main
    PROVE  UNCHANGED summaryVars
<1>1. DOMAIN at = Readers /\ DOMAIN got = Readers /\ "summary" \in Readers
  BY DEF IInv, Rest, Readers
<1>2. CASE CountResult \/ Others \/ UNCHANGED vars
  BY <1>2, OthersKeep DEF CountResult, vars, viewVars, summaryVars
<1>3. CASE Updater
  BY <1>1, <1>3 DEF Updater, Tick, EndReader, ReadField, summaryVars
<1>4. CASE LoadGauge \/ NewScrape
  BY <1>4 DEF LoadGauge, NewScrape, summaryVars
<1>5. CASE Broadcaster
  BY <1>1, <1>5 DEF Broadcaster, Tick, EndReader, ReadField, viewVars, summaryVars
<1> QED
  BY <1>2, <1>3, <1>4, <1>5, Split

LEMMA SummaryKept ==
    ASSUME IInv, [Next]_vars
    PROVE  Summary'
<1> DEFINE s == got["summary"]
           n == at["summary"]
<1>1. /\ total \in Counts /\ errors \in Counts /\ errors <= total /\ messages = errors
      /\ total' \in Counts /\ errors' \in Counts /\ total <= total' /\ errors <= errors'
      /\ Counts \subseteq Nat /\ HistMax \in Nat
  BY AggregatedFacts, AggregatorGrows DEF IInv
<1>2. /\ Longest(hist) \in 0..HistMax /\ Longest(hist') \in 0..HistMax
      /\ Longest(hist) <= Longest(hist')
      /\ \A q \in {500, 750, 900, 950, 990, 999} : ValueAtQuantile(hist, q) \in 0..Longest(hist)
  BY AggregatedFacts, AggregatorGrows DEF IInv
<1>3. /\ total \in Nat /\ errors \in Nat /\ total' \in Nat /\ errors' \in Nat
      /\ s.total \in Nat /\ s.rps \in Nat /\ s.errors \in Nat /\ s.breakdown \in Nat
      /\ s.rate.errors \in Nat /\ s.rate.total \in Nat
      /\ s.p50 \in Nat /\ s.p75 \in Nat /\ s.p90 \in Nat /\ s.p95 \in Nat
      /\ s.p99 \in Nat /\ s.p999 \in Nat /\ s.max \in Nat
      /\ Longest(hist) \in Nat /\ Longest(hist') \in Nat
  <2>1. s \in SummaryShape
    BY DEF IInv, Summary
  <2>2. Longest(hist) \in Nat /\ Longest(hist') \in Nat
    BY <1>1, <1>2
  <2> HIDE DEF s
  <2>3. /\ s.total \in Nat /\ s.rps \in Nat /\ s.errors \in Nat /\ s.breakdown \in Nat
        /\ s.rate.errors \in Nat /\ s.rate.total \in Nat
    BY <1>1, <2>1 DEF SummaryShape
  <2>4. /\ s.p50 \in Nat /\ s.p75 \in Nat /\ s.p90 \in Nat /\ s.p95 \in Nat
        /\ s.p99 \in Nat /\ s.p999 \in Nat /\ s.max \in Nat
    BY <1>1, <2>1 DEF SummaryShape
  <2> QED
    BY <1>1, <2>2, <2>3, <2>4
<1>4. DOMAIN at = Readers /\ DOMAIN got = Readers /\ "summary" \in Readers
  BY DEF IInv, Rest, Readers
<1>5. ASSUME n' = n, s' = s, mainPc' = mainPc PROVE Summary'
  BY <1>1, <1>2, <1>3, <1>5 DEF IInv, Summary
<1>6. CASE ~Main
  BY <1>5, <1>6, NotMain DEF summaryVars, endVars
<1>7. CASE Join
  <2>1. n = 0 /\ n' = 1 /\ s' = s /\ mainPc' = "summary"
    BY <1>4, <1>7 DEF Join, MainStep, IInv, Summary
  <2> QED
    BY <1>3, <2>1 DEF IInv, Summary
<1>8. CASE Save \/ Judge \/ Exit
  <2>1. n' = n /\ s' = s /\ UNCHANGED aggVars
    BY <1>8 DEF Save, Judge, Exit, MainStep, viewVars
  <2>2. mainPc \in {"save", "verdict", "exit"} /\ mainPc' \in {"verdict", "exit", "exited"}
    BY <1>8 DEF Save, Judge, Exit, MainStep
  <2> QED
    BY <1>1, <1>2, <1>3, <2>1, <2>2 DEF IInv, Summary
<1>9. CASE Summarise
  <2>1. /\ mainPc = "summary" /\ ReadField("summary")
        /\ mainPc' = IF n = 12 THEN "save" ELSE mainPc
    BY <1>9 DEF Summarise, SummaryFields
  <2>2. n \in 1..12 /\ n' = n + 1 /\ UNCHANGED aggVars
    BY <2>1, SummaryReads
  <2>3. total' = total /\ errors' = errors /\ messages' = messages /\ hist' = hist
    BY <2>2 DEF aggVars
  <2>4. /\ n = 1 => s' = [s EXCEPT !.total = total]
        /\ n = 2 => s' = [s EXCEPT !.rps = total]
        /\ n = 3 => s' = [s EXCEPT !.p50 = ValueAtQuantile(hist, 500)]
        /\ n = 4 => s' = [s EXCEPT !.p75 = ValueAtQuantile(hist, 750)]
        /\ n = 5 => s' = [s EXCEPT !.p90 = ValueAtQuantile(hist, 900)]
        /\ n = 6 => s' = [s EXCEPT !.p95 = ValueAtQuantile(hist, 950)]
        /\ n = 7 => s' = [s EXCEPT !.p99 = ValueAtQuantile(hist, 990)]
        /\ n = 8 => s' = [s EXCEPT !.p999 = ValueAtQuantile(hist, 999)]
        /\ n = 9 => s' = [s EXCEPT !.max = Longest(hist)]
        /\ n = 10 => s' = [s EXCEPT !.errors = errors]
        /\ n = 11 => s' = [s EXCEPT !.rate = [errors |-> errors, total |-> total]]
        /\ n = 12 => s' = [s EXCEPT !.breakdown = errors]
    BY <1>1, <2>1, SummaryReads
  <2>5. /\ ValueAtQuantile(hist, 500) \in 0..Longest(hist)
        /\ ValueAtQuantile(hist, 750) \in 0..Longest(hist)
        /\ ValueAtQuantile(hist, 900) \in 0..Longest(hist)
        /\ ValueAtQuantile(hist, 950) \in 0..Longest(hist)
        /\ ValueAtQuantile(hist, 990) \in 0..Longest(hist)
        /\ ValueAtQuantile(hist, 999) \in 0..Longest(hist)
    BY <1>2
  <2>6. s \in SummaryShape /\ s' \in SummaryShape
    <3>1. s \in SummaryShape
      BY DEF IInv, Summary
    <3> HIDE DEF s
    <3> QED
      BY <1>1, <1>2, <2>2, <2>4, <2>5, <3>1 DEF SummaryShape
  <2>7. /\ mainPc' = "summary" <=> n' # 13
        /\ mainPc' \in {"summary", "save"}
    BY <2>1, <2>2
  <2>8. n' \in 2..13 /\ n' = n + 1
    BY <2>2
  <2>9. /\ n >= 2 => s.total <= total
        /\ n >= 3 => s.total <= s.rps
        /\ n >= 11 => s.errors <= errors
        /\ n >= 12 => s.errors <= s.rate.errors /\ s.rate.errors <= s.rate.total
                      /\ s.rate.errors <= errors
    BY DEF IInv, Summary
  <2>10. /\ n \in 4..9 => s.p50 <= Longest(hist)
         /\ n \in 5..9 => s.p75 <= Longest(hist)
         /\ n \in 6..9 => s.p90 <= Longest(hist)
         /\ n \in 7..9 => s.p95 <= Longest(hist)
         /\ n \in 8..9 => s.p99 <= Longest(hist)
         /\ n = 9 => s.p999 <= Longest(hist)
         /\ n >= 10 => /\ s.p50 <= s.max /\ s.p75 <= s.max /\ s.p90 <= s.max
                       /\ s.p95 <= s.max /\ s.p99 <= s.max /\ s.p999 <= s.max
    BY DEF IInv, Summary
  <2>11. /\ n' >= 2 => s'.total <= total'
         /\ n' >= 3 => s'.total <= s'.rps
         /\ n' >= 11 => s'.errors <= errors'
         /\ n' >= 12 => s'.errors <= s'.rate.errors /\ s'.rate.errors <= s'.rate.total
                        /\ s'.rate.errors <= errors'
         /\ n' = 13 => s'.rate.errors <= s'.breakdown
    <3> HIDE DEF s, n
    <3> QED
      BY <1>1, <1>3, <2>2, <2>3, <2>4, <2>6, <2>8, <2>9 DEF SummaryShape
  <2>12. /\ n' \in 4..9 => s'.p50 <= Longest(hist')
         /\ n' \in 5..9 => s'.p75 <= Longest(hist')
         /\ n' \in 6..9 => s'.p90 <= Longest(hist')
         /\ n' \in 7..9 => s'.p95 <= Longest(hist')
         /\ n' \in 8..9 => s'.p99 <= Longest(hist')
         /\ n' = 9 => s'.p999 <= Longest(hist')
    <3> HIDE DEF s, n
    <3> QED
      BY <1>3, <2>2, <2>3, <2>4, <2>5, <2>6, <2>8, <2>10 DEF SummaryShape
  <2>13. n' >= 10 => /\ s'.p50 <= s'.max /\ s'.p75 <= s'.max /\ s'.p90 <= s'.max
                     /\ s'.p95 <= s'.max /\ s'.p99 <= s'.max /\ s'.p999 <= s'.max
    <3> HIDE DEF s, n
    <3> QED
      BY <1>3, <2>2, <2>3, <2>4, <2>5, <2>6, <2>8, <2>10 DEF SummaryShape
  <2>14. /\ n' \in 0..13
         /\ mainPc' = "wait" <=> n' = 0
         /\ mainPc' \in {"save", "verdict", "exit", "exited"} <=> n' = 13
         /\ mainPc' \in {"wait", "summary", "save", "verdict", "exit", "exited"}
    BY <2>7, <2>8
  <2> QED
    BY <2>6, <2>11, <2>12, <2>13, <2>14 DEF Summary
<1> QED
  BY <1>6, <1>7, <1>8, <1>9 DEF Main

LEMMA VerdictKept ==
    ASSUME IInv, [Next]_vars
    PROVE  Verdict'
<1> DEFINE s == got["summary"]
           n == at["summary"]
<1>1. Limits.p99 \in Nat
  BY LiveViewAssumption
<1>2. CASE ~Main
  <2>1. n' = n /\ s' = s /\ UNCHANGED <<mainPc, basis, breach, exitCode>>
    BY <1>2, NotMain DEF summaryVars, endVars
  <2>2. Evaluate(s') = Evaluate(s)
    BY <2>1
  <2> QED
    BY <2>1, <2>2 DEF IInv, Verdict
<1>3. CASE Join
  <2>1. /\ n' = 1 /\ s' = s /\ mainPc' = "summary"
        /\ UNCHANGED <<basis, breach, exitCode>>
    BY <1>3 DEF Join, MainStep, IInv, Rest, Readers
  <2> QED
    BY <2>1 DEF IInv, Verdict
<1>4. CASE Save
  <2>1. /\ n' = n /\ s' = s /\ mainPc' = "verdict"
        /\ UNCHANGED <<basis, breach, exitCode>>
    BY <1>4 DEF Save, MainStep, viewVars
  <2> QED
    BY <2>1 DEF IInv, Verdict
<1>5. CASE Judge
  <2>1. /\ n' = n /\ s' = s /\ mainPc' = "exit" /\ breach' = Evaluate(s)
        /\ UNCHANGED <<basis, exitCode>>
    BY <1>5 DEF Judge, MainStep, viewVars
  <2>2. Evaluate(s') = Evaluate(s) /\ Evaluate(s) \in BOOLEAN
    BY <2>1 DEF Evaluate
  <2> QED
    BY <2>1, <2>2 DEF IInv, Verdict
<1>6. CASE Exit
  <2>1. /\ n' = n /\ s' = s /\ mainPc = "exit" /\ mainPc' = "exited"
        /\ exitCode' = IF breach THEN 1 ELSE 0
        /\ UNCHANGED <<basis, breach>>
    BY <1>6 DEF Exit, MainStep, viewVars
  <2>2. Evaluate(s') = Evaluate(s)
    BY <2>1
  <2> QED
    BY <2>1, <2>2 DEF IInv, Verdict
<1>7. CASE Summarise
  <2>1. /\ ReadField("summary") /\ mainPc = "summary"
        /\ mainPc' \in {"summary", "save"} /\ UNCHANGED <<breach, exitCode>>
    BY <1>7 DEF Summarise
  <2>2. n \in 1..12 /\ n' = n + 1
    BY <2>1, SummaryReads
  <2>3. CASE n = 7
    <3>1. basis' = [count |-> total, slow |-> total - UpTo(hist, Limits.p99),
                    beyond |-> total - Recorded(hist)]
      BY <1>7, <2>3 DEF Summarise, SummaryFields
    <3>2. /\ UpTo(hist, Limits.p99) \in 0..total /\ Recorded(hist) \in 0..total
          /\ total \in Counts /\ Counts = 0..MaxResults /\ MaxResults \in Nat
      BY <1>1, AggregatedFacts DEF IInv, Recorded, Counts
    <3>3. basis' \in [count : Counts, slow : Counts, beyond : Counts]
      BY <3>1, <3>2
    <3>4. s'.p99 = ValueAtQuantile(hist, 990)
      <4>1. s \in SummaryShape
        BY DEF IInv, Summary
      <4>2. s' = [s EXCEPT !.p99 = ValueAtQuantile(hist, 990)]
        BY <2>1, <2>3, SummaryReads
      <4> QED
        BY <4>1, <4>2 DEF SummaryShape
    <3>5. ASSUME basis'.beyond = 0, s'.p99 <= Limits.p99
          PROVE  1000 * basis'.slow <= 10 * basis'.count + 500
      <4>1. Recorded(hist) = total
        BY <3>1, <3>2, <3>5
      <4>2. hist \in Histograms
        BY DEF IInv, Aggregated
      <4>3. 1000 * (Recorded(hist) - UpTo(hist, Limits.p99)) <= 10 * Recorded(hist) + 500
        BY <1>1, <3>4, <3>5, <4>2, FewAboveP99
      <4> QED
        BY <3>1, <4>1, <4>3
    <3> QED
      BY <2>1, <3>3, <3>5 DEF IInv, Verdict
  <2>4. CASE n # 7
    <3>1. basis' = basis
      BY <1>7, <2>2, <2>4 DEF Summarise, SummaryFields
    <3>2. n >= 8 => s'.p99 = s.p99
      <4>1. s \in SummaryShape
        BY DEF IInv, Summary
      <4> HIDE DEF s
      <4>2. /\ n = 8 => s' = [s EXCEPT !.p999 = ValueAtQuantile(hist, 999)]
            /\ n = 9 => s' = [s EXCEPT !.max = Longest(hist)]
            /\ n = 10 => s' = [s EXCEPT !.errors = errors]
            /\ n = 11 => s' = [s EXCEPT !.rate = [errors |-> errors, total |-> total]]
            /\ n = 12 => s' = [s EXCEPT !.breakdown = messages]
        BY <2>1, SummaryReads DEF s
      <4> QED
        BY <2>2, <4>1, <4>2 DEF SummaryShape
    <3>3. n' >= 8 => n >= 8
      BY <2>2, <2>4
    <3> QED
      BY <2>1, <3>1, <3>2, <3>3 DEF IInv, Verdict
  <2> QED
    BY <2>3, <2>4
<1> QED
  BY <1>2, <1>3, <1>4, <1>5, <1>6, <1>7 DEF Main

\* The dashboard's client set under its mutex, and what is left.
LEMMA DashKept ==
    ASSUME DashTypeOK, [Next]_vars
    PROVE  DashTypeOK'
<1>1. CASE UNCHANGED dashVars
  BY <1>1 DEF dashVars, DashTypeOK
<1>2. CASE Broadcaster
  BY <1>1, <1>2 DEF Broadcaster, Tick, EndReader, ReadField, LockForBroadcast, WriteFrame,
                    UnlockAfterBroadcast, DashTypeOK
<1>3. CASE Others
  <2>1. CASE PressStop \/ HandleStop \/ Cancel \/ SchedulerReturns \/ SchedulerHangs
    BY <1>1, <2>1 DEF PressStop, HandleStop, Cancel, SchedulerReturns, SchedulerHangs
  <2>2. ASSUME NEW b \in Browsers, Handler(b) \/ Browser(b) PROVE DashTypeOK'
    BY <2>2 DEF Handler, Browser, Register, Unregister, Stall, Resume, Leave, MoveTo, DashTypeOK
  <2> QED
    BY <1>3, <2>1, <2>2 DEF Others
<1>4. CASE CountResult \/ Updater \/ LoadGauge \/ NewScrape \/ UNCHANGED vars
  BY <1>1, <1>4 DEF CountResult, Updater, Tick, EndReader, ReadField, LoadGauge, NewScrape, vars
<1>5. CASE Main
  BY <1>1, <1>5 DEF Main, MainStep, Join, Summarise, ReadField, Save, Judge, Exit
<1> QED
  BY <1>2, <1>3, <1>4, <1>5, Split

LEMMA RestKept ==
    ASSUME Rest, [Next]_vars
    PROVE  Rest'
<1>1. DashTypeOK'
  BY DashKept DEF Rest
<1>2. CASE CountResult \/ LoadGauge \/ NewScrape \/ UNCHANGED vars
  BY <1>1, <1>2 DEF CountResult, LoadGauge, NewScrape, vars, viewVars, endVars, Rest
<1>3. CASE Updater
  BY <1>1, <1>3 DEF Updater, Tick, EndReader, ReadField, endVars, Rest
<1>4. CASE Broadcaster
  BY <1>1, <1>4 DEF Broadcaster, Tick, EndReader, ReadField, viewVars, endVars, Rest
<1>5. CASE Main
  BY <1>1, <1>5 DEF Main, MainStep, Join, Summarise, ReadField, Save, Judge, Exit, viewVars, Rest
<1>6. CASE Others
  <2>1. UNCHANGED <<at, got, ended, saved>>
    BY <1>6, OthersKeep DEF viewVars, endVars
  <2>2. /\ ctxDone' \in BOOLEAN /\ stop' \in {"none", "pressed", "handled"}
        /\ scheduler' \in {"working", "stuck", "returned"}
    BY <1>6 DEF Others, PressStop, HandleStop, Cancel, SchedulerReturns, SchedulerHangs,
                Handler, Browser, Rest
  <2> QED
    BY <1>1, <2>1, <2>2 DEF Rest
<1> QED
  BY <1>2, <1>3, <1>4, <1>5, <1>6, Split

\* Nothing is recorded at first.
LEMMA UpToOfNone ==
    ASSUME NEW v \in Nat
    PROVE  UpTo([u \in 1..HistMax |-> 0], v) = 0
<1> DEFINE h == [u \in 1..HistMax |-> 0]
           Good == {n \in Nat : UpTo(h, n) = 0}
<1>1. h \in Histograms /\ \A n \in Nat : At(h, n) = 0
  BY DEF Histograms, At
<1> HIDE DEF h
<1>2. 0 \in Good
  BY <1>1, UpToSteps
<1>3. ASSUME NEW n \in Nat, n \in Good PROVE n + 1 \in Good
  BY <1>1, <1>3, UpToSteps
<1>4. Nat \subseteq Good
  <2> HIDE DEF Good
  <2> QED
    BY <1>2, <1>3, Induction
<1> QED
  BY <1>4 DEF h

LEMMA InitIInv ==
    ASSUME Init
    PROVE  IInv
<1>1. MaxResults \in Nat /\ HistMax \in Nat /\ mode \in Modes /\ mode.results \in Nat
  BY LiveViewAssumption, AggregatorAssumption DEF Init
<1>2. 0 \in Counts /\ 0 \in 0..HistMax
  BY <1>1 DEF Counts
<1>3. Aggregated
  <2>1. hist \in Histograms /\ total = 0 /\ errors = 0 /\ messages = 0
    BY DEF Init, AggInit, Histograms
  <2>2. \A v \in Nat : UpTo(hist, v) <= total
    <3> TAKE v \in Nat
    <3>1. hist = [u \in 1..HistMax |-> 0]
      BY DEF Init, AggInit
    <3>2. UpTo(hist, v) = 0
      BY <3>1, UpToOfNone
    <3> QED
      BY <2>1, <3>2
  <2> QED
    BY <1>1, <2>1, <2>2 DEF Aggregated
<1>4. /\ at["updater"] = 3 /\ at["frame"] = 0 /\ at["summary"] = 0
      /\ DOMAIN at = Readers /\ DOMAIN got = Readers
  BY DEF Init, UpdaterFields, Readers
<1>5. \A r \in Readers : got[r] = Empty(r)
  BY DEF Init
<1>6. Empty("updater") = [errors |-> 0, total |-> 0]
  <2>1. {FieldsOf("updater")[i] : i \in DOMAIN FieldsOf("updater")} = {"errors", "total"}
    BY DEF FieldsOf, UpdaterFields
  <2> QED
    BY <2>1 DEF Empty
<1>7. Empty("frame") = [rate |-> [errors |-> 0, total |-> 0], total |-> 0]
  <2>1. {FieldsOf("frame")[i] : i \in DOMAIN FieldsOf("frame")} = {"rate", "total"}
    BY DEF FieldsOf, FrameFields
  <2> QED
    BY <2>1 DEF Empty
<1>8. Empty("summary") \in SummaryShape
  <2>1. {FieldsOf("summary")[i] : i \in DOMAIN FieldsOf("summary")}
            = {"total", "rps", "p50", "p75", "p90", "p95", "p99", "p999", "max",
               "errors", "rate", "breakdown"}
    BY DEF FieldsOf, SummaryFields
  <2>2. Empty("summary") = [total |-> 0, rps |-> 0, p50 |-> 0, p75 |-> 0, p90 |-> 0,
                            p95 |-> 0, p99 |-> 0, p999 |-> 0, max |-> 0, errors |-> 0,
                            rate |-> [errors |-> 0, total |-> 0], breakdown |-> 0]
    BY <2>1 DEF Empty
  <2> QED
    BY <1>2, <2>2 DEF SummaryShape
<1>9. Gauges /\ Frame
  <2>1. /\ got["updater"] = [errors |-> 0, total |-> 0]
        /\ got["frame"] = [rate |-> [errors |-> 0, total |-> 0], total |-> 0]
    BY <1>5, <1>6, <1>7 DEF Readers
  <2>2. total = 0 /\ errors = 0 /\ scrapeAt = 1 /\ scrape = [errors |-> 0, total |-> 0]
        /\ midTick = FALSE
    BY DEF Init, AggInit
  <2>3. Gauges
    <3>1. [errors |-> 0, total |-> 0] \in [errors : Counts, total : Counts]
      BY <1>2
    <3>2. midTick \in BOOLEAN
      BY <2>2
    <3> QED
      BY <1>4, <2>1, <2>2, <3>1, <3>2 DEF Gauges
  <2>4. Frame
    BY <1>2, <1>4, <2>1 DEF Frame
  <2> QED
    BY <2>3, <2>4
<1>10. Summary
  BY <1>4, <1>5, <1>8 DEF Init, Readers, Summary
<1>11. Verdict
  <2>1. /\ basis = [count |-> 0, slow |-> 0, beyond |-> 0] /\ mainPc = "wait"
        /\ breach = FALSE /\ exitCode = -1
    BY DEF Init
  <2>2. basis \in [count : Counts, slow : Counts, beyond : Counts]
    BY <1>2, <2>1
  <2> QED
    <3>1. ~(at["summary"] >= 8)
      BY <1>4
    <3>2. exitCode \in {-1, 0, 1} /\ mainPc \notin {"exit", "exited"}
      BY <2>1
    <3>3. breach \in BOOLEAN
      BY <2>1
    <3> QED
      BY <2>2, <3>1, <3>2, <3>3 DEF Verdict
<1>12. Rest
  BY <1>4 DEF Init, DashInit, Rest, DashTypeOK
<1> QED
  BY <1>3, <1>9, <1>10, <1>11, <1>12 DEF IInv

\* The inductive invariant holds in every reachable state.
THEOREM Inductive == Spec => []IInv
<1>1. Init => IInv
  BY InitIInv
<1>2. IInv /\ [Next]_vars => IInv'
  BY AggregatorGrows, GaugesKept, FrameKept, SummaryKept, VerdictKept, RestKept DEF IInv
<1>3. Spec => Init /\ [][Next]_vars
  BY PTL DEF Spec
<1> QED
  BY <1>1, <1>2, <1>3, PTL

(***************************************************************************)
(* Types, with the bounds of every counter, also of what a reader holds.   *)
(***************************************************************************)
THEOREM TypeCorrect == Spec => []TypeOK
<1>1. IInv => TypeOK
  <2> SUFFICES ASSUME IInv PROVE TypeOK
    OBVIOUS
  <2>1. MaxResults \in Nat /\ total \in 0..MaxResults /\ errors \in 0..MaxResults
        /\ messages = errors /\ Counts = 0..MaxResults
    BY AggregatedFacts DEF IInv, Counts
  <2>2. hist \in [1..HistMax -> 0..MaxResults]
    <3>1. hist \in [1..HistMax -> Nat]
      BY DEF IInv, Aggregated, Histograms
    <3>2. ASSUME NEW v \in 1..HistMax PROVE hist[v] \in 0..MaxResults
      <4>1. v \in Nat /\ v - 1 \in Nat /\ (v - 1) + 1 = v
        BY AggregatorAssumption
      <4>2. UpTo(hist, v) = UpTo(hist, v - 1) + At(hist, v)
        BY <3>1, <4>1, UpToSteps DEF Histograms
      <4>3. UpTo(hist, v) \in 0..total /\ UpTo(hist, v - 1) \in 0..total
        BY <4>1, AggregatedFacts DEF IInv
      <4>4. At(hist, v) = hist[v] /\ hist[v] \in Nat
        BY <3>1 DEF At
      <4> QED
        BY <2>1, <4>2, <4>3, <4>4
    <3> QED
      BY <3>1, <3>2
  <2>3. \A r \in Readers : at[r] \in 0..(Len(FieldsOf(r)) + 1)
    <3>1. /\ Len(FieldsOf("updater")) + 1 = 3 /\ Len(FieldsOf("frame")) + 1 = 3
          /\ Len(FieldsOf("summary")) + 1 = 13
      BY DEF FieldsOf, UpdaterFields, FrameFields, SummaryFields
    <3>2. at["updater"] \in 0..3 /\ at["frame"] \in 0..3 /\ at["summary"] \in 0..13
      BY DEF IInv, Gauges, Frame, Summary
    <3> QED
      BY <3>1, <3>2 DEF Readers
  <2>4. AggTypeOK /\ DashTypeOK /\ mode \in Modes
    BY <2>1, <2>2 DEF AggTypeOK, IInv, Aggregated, Rest
  <2> QED
    BY <2>3, <2>4 DEF TypeOK, IInv, Gauges, Frame, Summary, SummaryShape, Verdict, Rest
<1> QED
  BY <1>1, Inductive, PTL

(***************************************************************************)
(* A scrape shows more errors than requests only if it fell between the    *)
(* two stores, and a frame never does, however many results there are.     *)
(***************************************************************************)
THEOREM ErrorsCovered == Spec => []ErrorsWithinRequests
<1>1. IInv => ErrorsWithinRequests
  <2> SUFFICES ASSUME IInv PROVE ErrorsWithinRequests
    OBVIOUS
  <2>1. Len(ScrapeFields) = 2
    BY DEF ScrapeFields
  <2>2. scrapeAt > 2 /\ ~midTick => scrape.errors <= scrape.total
    BY DEF IInv, Gauges
  <2>3. at["frame"] = 3 => got["frame"].rate.errors <= got["frame"].total
    BY DEF IInv, Frame
  <2>4. Finished("frame") => at["frame"] = 3
    BY DEF Finished, FieldsOf, FrameFields
  <2> QED
    BY <2>1, <2>2, <2>3, <2>4 DEF ErrorsWithinRequests
<1> QED
  BY <1>1, Inductive, PTL

(***************************************************************************)
(* The fields of a summary fit together although results came while they   *)
(* were read, for every number of results and every histogram range.       *)
(***************************************************************************)
THEOREM SummaryCoherent == Spec => []SummaryFitsTogether
<1>1. IInv => SummaryFitsTogether
  <2> SUFFICES ASSUME IInv, Finished("summary") PROVE SummaryFitsTogether
    BY DEF SummaryFitsTogether
  <2>1. at["summary"] = 13
    BY DEF Finished, FieldsOf, SummaryFields
  <2>2. Counts \subseteq Nat
    BY AggregatedFacts DEF IInv
  <2>3. PICK s : s = got["summary"]
    OBVIOUS
  <2>4. /\ s.total \in Nat /\ s.errors \in Nat
        /\ s.rate.errors \in Nat /\ s.rate.total \in Nat
    <3>1. s \in SummaryShape
      BY <2>3 DEF IInv, Summary
    <3> QED
      BY <2>2, <3>1 DEF SummaryShape
  <2>5. /\ s.total <= s.rps
        /\ s.p50 <= s.max /\ s.p75 <= s.max /\ s.p90 <= s.max
        /\ s.p95 <= s.max /\ s.p99 <= s.max /\ s.p999 <= s.max
        /\ s.errors <= s.rate.errors /\ s.rate.errors <= s.rate.total
        /\ s.rate.errors <= s.breakdown
    BY <2>1, <2>3 DEF IInv, Summary
  <2>6. s.errors > s.total => s.rate.total > s.total
    BY <2>5, <2>4
  <2> QED
    BY <2>3, <2>5, <2>6 DEF SummaryFitsTogether
<1> QED
  BY <1>1, Inductive, PTL

(***************************************************************************)
(* A run that exits with 0 has at most one result in a hundred above its   *)
(* p99 threshold, up to rounding, for every threshold within the range.    *)
(***************************************************************************)
THEOREM SlownessSeen == Spec => []SlownessReported
<1>1. IInv => SlownessReported
  <2> SUFFICES ASSUME IInv, mainPc = "exited", exitCode = 0, Limits.p99 \in 1..HistMax,
                      basis.beyond = 0
               PROVE  1000 * basis.slow <= 10 * basis.count + 500
    BY DEF SlownessReported
  <2>1. at["summary"] = 13
    BY DEF IInv, Summary
  <2>2. ~Evaluate(got["summary"])
    BY DEF IInv, Verdict
  <2>3. got["summary"].p99 \in Nat /\ Limits.p99 \in Nat /\ Limits.p99 > 0
    BY AggregatorAssumption DEF IInv, Summary, SummaryShape
  <2>4. got["summary"].p99 <= Limits.p99
    BY <2>2, <2>3 DEF Evaluate
  <2> QED
    BY <2>1, <2>4 DEF IInv, Verdict
<1> QED
  BY <1>1, Inductive, PTL
=============================================================================
