-------------------------- MODULE CandidateFeedProofs --------------------------
(***************************************************************************)
(* Proofs about CandidateFeed, for every set of symbols, every window and     *)
(* seed limit, every number of retries and of minutes.                        *)
(***************************************************************************)
EXTENDS CandidateFeed, Induction, SequenceTheorems

-----------------------------------------------------------------------------
(* Sorted sequences of minutes.                                              *)

Rises(f, n) == \A i, j \in 1 .. n : i < j => f[i] < f[j]

\* A set of minutes can be listed in ascending order.
LEMMA AscendingExists ==
  ASSUME NEW n \in Nat, NEW S \in SUBSET (0 .. n)
  PROVE  \E c \in Nat : \E f \in [1 .. c -> S] :
           Rises(f, c) /\ \A x \in S : \E i \in 1 .. c : f[i] = x
<1> DEFINE Below(m) == {x \in S : x < m}
           Lists(f, c, m) == /\ f \in [1 .. c -> Below(m)] /\ Rises(f, c)
                             /\ \A x \in Below(m) : \E i \in 1 .. c : f[i] = x
           K == {m \in 0 .. n + 1 : \E c \in Nat : \E f : Lists(f, c, m)}
<1>1. \A x \in S : x \in Int /\ 0 <= x /\ x <= n
  OBVIOUS
<1>2. 0 \in K
  <2> DEFINE f == [i \in 1 .. 0 |-> 0]
  <2>1. Below(0) = {}
    <3>1. \A x \in S : ~(x < 0)
      BY <1>1
    <3> QED BY <3>1, Zenon
  <2>2. Lists(f, 0, 0)
    BY <2>1 DEF Rises
  <2>3. \E c \in Nat : \E h : Lists(h, c, 0)
    BY <2>2
  <2> QED BY <2>3
<1>3. ASSUME NEW m \in 1 .. n + 1, m - 1 \in K
      PROVE  m \in K
  <2>1. \A x \in S : x < m <=> x < m - 1 \/ x = m - 1
    BY <1>1
  <2>2. PICK c \in Nat : \E f : Lists(f, c, m - 1)
    BY <1>3
  <2>3. PICK f : Lists(f, c, m - 1)
    BY <2>2
  <2>4. CASE m - 1 \notin S
    <3>1. Below(m) = Below(m - 1)
      BY <2>1, <2>4, Zenon
    <3>2. Lists(f, c, m)
      BY <2>3, <3>1
    <3> QED BY <3>2
  <2>5. CASE m - 1 \in S
    <3> DEFINE g == [i \in 1 .. c + 1 |-> IF i = c + 1 THEN m - 1 ELSE f[i]]
    <3>1. Below(m) = Below(m - 1) \cup {m - 1}
      BY <2>1, <2>5, Zenon
    <3>2. \A i \in 1 .. c : f[i] \in Below(m - 1) /\ g[i] = f[i]
      BY <2>3
    <3>3. g[c + 1] = m - 1 /\ \A i \in 1 .. c + 1 : i \in 1 .. c \/ i = c + 1
      OBVIOUS
    <3>4. g \in [1 .. c + 1 -> Below(m)]
      BY <3>1, <3>2, <3>3
    <3>5. Rises(g, c + 1)
      BY <2>3, <3>2, <3>3 DEF Rises
    <3>6. \A x \in Below(m) : \E i \in 1 .. c + 1 : g[i] = x
      BY <2>3, <3>1, <3>2, <3>3
    <3>7. Lists(g, c + 1, m)
      BY <3>4, <3>5, <3>6
    <3> QED BY <3>7
  <2> QED BY <2>4, <2>5
<1>4. n + 1 \in K
  <2> HIDE DEF K
  <2>1. n + 1 \in Nat /\ \A i \in 1 .. n + 1 : i - 1 \in K => i \in K
    BY <1>3
  <2> QED BY <1>2, <2>1, IntervalInduction
<1>5. Below(n + 1) = S
  <2>1. \A x \in S : x < n + 1
    BY <1>1
  <2> QED BY <2>1, Zenon
<1> QED BY <1>4, <1>5

LEMMA AscendingLists ==
  ASSUME NEW n \in Nat, NEW S \in SUBSET (0 .. n)
  PROVE  /\ Cardinality(S) \in Nat /\ Ascending(S) \in [1 .. Cardinality(S) -> S]
         /\ Rises(Ascending(S), Cardinality(S))
         /\ \A x \in S : \E i \in 1 .. Cardinality(S) : Ascending(S)[i] = x
<1>1. \A x \in S : x \in Int
  OBVIOUS
<1>2. PICK c \in Nat : \E f \in [1 .. c -> S] :
        Rises(f, c) /\ \A x \in S : \E i \in 1 .. c : f[i] = x
  BY AscendingExists
<1>3. PICK f \in [1 .. c -> S] : Rises(f, c) /\ \A x \in S : \E i \in 1 .. c : f[i] = x
  BY <1>2
<1>4. IsFiniteSet(1 .. c) /\ Cardinality(1 .. c) = c
  BY FS_Interval
<1>5. f \in Bijection(1 .. c, S)
  <2>1. \A i, j \in 1 .. c : f[i] = f[j] => i = j
    <3> SUFFICES ASSUME NEW i \in 1 .. c, NEW j \in 1 .. c, i < j PROVE f[i] # f[j]
      OBVIOUS
    <3>1. f[i] < f[j]
      BY <1>3, Zenon DEF Rises
    <3>2. f[i] \in S /\ f[j] \in S
      BY <1>3
    <3>3. f[i] \in Int /\ f[j] \in Int
      BY <3>2, <1>1, Zenon
    <3> QED BY <3>1, <3>3
  <2> QED BY <1>3, <2>1 DEF Bijection, Injection, Surjection, IsInjective
<1>6. IsFiniteSet(S) /\ Cardinality(S) = c
  BY <1>4, <1>5, FS_Bijection DEF ExistsBijection
<1> DEFINE g == Ascending(S)
<1>7. g \in [1 .. c -> S] /\ Rises(g, c)
  BY <1>3, <1>6 DEF Ascending, Rises
<1> HIDE DEF g
<1>8. g \in Injection(1 .. c, S)
  <2>1. \A i, j \in 1 .. c : g[i] = g[j] => i = j
    <3> SUFFICES ASSUME NEW i \in 1 .. c, NEW j \in 1 .. c, i < j PROVE g[i] # g[j]
      OBVIOUS
    <3>1. g[i] < g[j]
      BY <1>7, Zenon DEF Rises
    <3>2. g[i] \in S /\ g[j] \in S
      BY <1>7
    <3>3. g[i] \in Int /\ g[j] \in Int
      BY <3>2, <1>1, Zenon
    <3> QED BY <3>1, <3>3
  <2> QED BY <1>7, <2>1 DEF Injection, IsInjective
<1>9. g \in Surjection(1 .. c, S)
  BY <1>4, <1>6, <1>8, FS_Injection
<1> QED BY <1>6, <1>7, <1>9 DEF g, Surjection

-----------------------------------------------------------------------------
(* The deque of klines.                                                      *)

\* The bars are strictly ordered by minute.
Ordered(bars) == \A i, j \in 1 .. Len(bars) : i < j => bars[i].start < bars[j].start

\* The deque is full, and the minute is older than everything in it.
Trimmed(bars, m) == Len(bars) = Window /\ m < bars[1].start

LEMMA BarFields ==
  ASSUME NEW bars \in Seq(Bar)
  PROVE  /\ Len(bars) \in Nat /\ DOMAIN bars = 1 .. Len(bars)
         /\ \A i \in 1 .. Len(bars) : bars[i] \in Bar /\ bars[i].start \in 0 .. MaxMinute
         /\ StartsOf(bars) \subseteq 0 .. MaxMinute
         /\ \A x : x \in StartsOf(bars) <=> \E i \in 1 .. Len(bars) : bars[i].start = x
<1>1. Len(bars) \in Nat /\ DOMAIN bars = 1 .. Len(bars) /\ \A i \in 1 .. Len(bars) : bars[i] \in Bar
  OBVIOUS
<1>2. \A bar \in Bar : bar.start \in 0 .. MaxMinute
  BY DEF Bar
<1> QED BY <1>1, <1>2 DEF StartsOf

LEMMA BarAtIs ==
  ASSUME NEW bars \in Seq(Bar), NEW x \in StartsOf(bars)
  PROVE  BarAt(bars, x) \in Bar /\ BarAt(bars, x).start = x
<1>1. \E i \in DOMAIN bars : bars[i].start = x
  BY DEF StartsOf
<1> DEFINE k == CHOOSE i \in DOMAIN bars : bars[i].start = x
<1>2. k \in DOMAIN bars /\ bars[k].start = x
  BY <1>1
<1>3. BarAt(bars, x) = bars[k]
  BY DEF BarAt
<1> HIDE DEF k
<1> QED BY <1>2, <1>3

\* _upsert_kline, seed_klines: the merged bars are those of both, in order.
LEMMA MergedIs ==
  ASSUME NEW old \in Seq(Bar), NEW new \in Seq(Bar)
  PROVE  /\ Merged(old, new) \in Seq(Bar) /\ Ordered(Merged(old, new))
         /\ StartsOf(Merged(old, new)) = StartsOf(old) \cup StartsOf(new)
<1> DEFINE S == StartsOf(old) \cup StartsOf(new)
           all == Ascending(S)
           c == Cardinality(S)
           M == Merged(old, new)
<1>1. MaxMinute \in Nat /\ S \in SUBSET (0 .. MaxMinute)
  BY BarFields, FeedAssumption
<1>2. c \in Nat /\ all \in [1 .. c -> S] /\ Rises(all, c) /\ \A x \in S : \E i \in 1 .. c : all[i] = x
  <2> HIDE DEF S
  <2> QED BY <1>1, AscendingLists
<1>3. M = [i \in 1 .. c |-> IF all[i] \in StartsOf(new) THEN BarAt(new, all[i]) ELSE BarAt(old, all[i])]
  <2>1. DOMAIN all = 1 .. c
    BY <1>2
  <2>2. M = [i \in DOMAIN all |-> IF all[i] \in StartsOf(new) THEN BarAt(new, all[i])
                                                             ELSE BarAt(old, all[i])]
    BY Zenon DEF Merged
  <2> QED BY <2>1, <2>2
<1>4. \A x \in S : x \in StartsOf(new) \/ x \in StartsOf(old)
  OBVIOUS
<1> HIDE DEF M, all, c, S
<1>5. ASSUME NEW i \in 1 .. c PROVE M[i] \in Bar /\ M[i].start = all[i]
  <2>1. all[i] \in S
    BY <1>2
  <2>2. CASE all[i] \in StartsOf(new)
    BY <1>3, <2>2, BarAtIs
  <2>3. CASE all[i] \notin StartsOf(new)
    BY <1>3, <1>4, <2>1, <2>3, BarAtIs
  <2> QED BY <2>2, <2>3
<1>6. M \in Seq(Bar) /\ Len(M) = c
  BY <1>2, <1>3, <1>5
<1>7. Ordered(M)
  BY <1>2, <1>5, <1>6 DEF Ordered, Rises
<1>8. StartsOf(M) = S
  <2>1. \A x : x \in StartsOf(M) <=> \E i \in 1 .. c : M[i].start = x
    BY <1>6, BarFields
  <2>2. \A x : x \in StartsOf(M) <=> \E i \in 1 .. c : all[i] = x
    BY <1>5, <2>1
  <2>3. \A x : x \in StartsOf(M) <=> x \in S
    BY <1>2, <2>2
  <2> QED BY <2>3
<1> QED BY <1>6, <1>7, <1>8 DEF M, S

\* deque(maxlen): the newest bars stay, in order.
LEMMA KeptIs ==
  ASSUME NEW bars \in Seq(Bar), Ordered(bars)
  PROVE  /\ Kept(bars) \in Seq(Bar) /\ Ordered(Kept(bars)) /\ Len(Kept(bars)) <= Window
         /\ StartsOf(Kept(bars)) \subseteq StartsOf(bars)
         /\ bars # << >> => Kept(bars) # << >>
         /\ \A x \in StartsOf(bars) : x \in StartsOf(Kept(bars)) \/ Trimmed(Kept(bars), x)
         /\ Len(bars) >= Window =>
              Len(Kept(bars)) = Window /\ Kept(bars)[1] = bars[Len(bars) - Window + 1]
<1> DEFINE K == Kept(bars)
           d == IF Len(bars) > Window THEN Len(bars) - Window ELSE 0
<1>1. Len(bars) \in Nat /\ Window \in Nat /\ Window > 0
  BY FeedAssumption
<1>2. d \in Nat /\ d <= Len(bars) /\ Len(bars) - d <= Window
      /\ (Len(bars) >= Window => Len(bars) - d = Window /\ d = Len(bars) - Window)
      /\ (d > 0 => Len(bars) - d = Window) /\ (Len(bars) > 0 => Len(bars) - d > 0)
  BY <1>1
<1>3. K = SubSeq(bars, d + 1, Len(bars))
  <2>1. (IF Len(bars) > Window THEN Len(bars) - Window + 1 ELSE 1) = d + 1
    BY <1>1
  <2> QED BY <2>1 DEF Kept
<1> HIDE DEF d, K
<1>4. /\ K \in Seq(Bar) /\ Len(K) = Len(bars) - d
      /\ \A i \in 1 .. Len(K) : i + d \in 1 .. Len(bars) /\ K[i] = bars[i + d]
  BY <1>1, <1>2, <1>3
<1>5. Ordered(K)
  <2> SUFFICES ASSUME NEW i \in 1 .. Len(K), NEW j \in 1 .. Len(K), i < j
               PROVE  K[i].start < K[j].start
    BY DEF Ordered
  <2>1. i + d \in 1 .. Len(bars) /\ j + d \in 1 .. Len(bars) /\ i + d < j + d
    BY <1>2, <1>4
  <2>2. bars[i + d].start < bars[j + d].start
    BY <2>1 DEF Ordered
  <2> QED BY <1>4, <2>2
<1>6. StartsOf(K) \subseteq StartsOf(bars)
  BY <1>4, BarFields
<1>7. ASSUME NEW x \in StartsOf(bars) PROVE x \in StartsOf(K) \/ Trimmed(K, x)
  <2>1. PICK j \in 1 .. Len(bars) : bars[j].start = x
    BY <1>7, BarFields
  <2>2. CASE j > d
    <3>1. j - d \in 1 .. Len(K) /\ K[j - d] = bars[j]
      BY <1>1, <1>2, <1>4, <2>2
    <3> QED BY <1>4, <2>1, <3>1, BarFields
  <2>3. CASE j <= d
    <3>1. Len(K) = Window /\ 1 \in 1 .. Len(K) /\ K[1] = bars[1 + d] /\ 1 + d \in 1 .. Len(bars) /\ j < 1 + d
      BY <1>1, <1>2, <1>4, <2>3
    <3>2. bars[j].start < bars[1 + d].start
      BY <3>1 DEF Ordered
    <3> QED BY <2>1, <3>1, <3>2 DEF Trimmed
  <2> QED BY <1>2, <2>2, <2>3
<1>8. bars # << >> => K # << >>
  BY <1>1, <1>2, <1>4
<1>9. Len(bars) >= Window => Len(K) = Window /\ K[1] = bars[Len(bars) - Window + 1]
  BY <1>1, <1>2, <1>4
<1> QED BY <1>2, <1>4, <1>5, <1>6, <1>7, <1>8, <1>9 DEF K

\* A rising list of positions moves on at least as fast as it is counted.
LEMMA RisesFast ==
  ASSUME NEW w \in Nat, NEW l \in Nat, NEW g \in [1 .. w -> 1 .. l], Rises(g, w), w > 0
  PROVE  w <= l /\ g[1] <= l - w + 1
<1> DEFINE K == {i \in 0 .. w - 1 : g[1] + i <= g[i + 1]}
<1>1. 0 \in K
  OBVIOUS
<1>2. ASSUME NEW i \in 1 .. w - 1, i - 1 \in K PROVE i \in K
  <2>1. i \in 1 .. w /\ i + 1 \in 1 .. w /\ i < i + 1
    OBVIOUS
  <2>2. g[i] < g[i + 1]
    BY <2>1 DEF Rises
  <2>3. g[1] + (i - 1) <= g[i]
    BY <1>2
  <2>4. g[1] \in Int /\ g[i] \in Int /\ g[i + 1] \in Int
    BY <2>1
  <2>5. g[1] + i <= g[i + 1]
    BY <2>2, <2>3, <2>4
  <2> QED BY <2>5
<1>3. w - 1 \in K
  <2> HIDE DEF K
  <2>1. w - 1 \in Nat /\ \A i \in 1 .. w - 1 : i - 1 \in K => i \in K
    BY <1>2
  <2>2. \A i \in 0 .. w - 1 : i \in K
    BY <1>1, <2>1, IntervalInduction
  <2> QED BY <2>1, <2>2
<1>4. g[1] \in 1 .. l /\ g[w] \in 1 .. l /\ g[1] + (w - 1) <= g[w]
  BY <1>3
<1> QED BY <1>4

\* What a full deque has let go of stays older than the deque.
LEMMA TrimmedStays ==
  ASSUME NEW old \in Seq(Bar), NEW bars \in Seq(Bar), Ordered(old), Ordered(bars),
         StartsOf(old) \subseteq StartsOf(bars), NEW m \in Int, Trimmed(old, m)
  PROVE  Trimmed(Kept(bars), m)
<1> DEFINE g == [i \in 1 .. Window |-> CHOOSE j \in 1 .. Len(bars) : bars[j].start = old[i].start]
           l == Len(bars)
<1>1. Window \in Nat /\ Window > 0 /\ Len(old) = Window /\ m < old[1].start /\ l \in Nat
  BY FeedAssumption DEF Trimmed
<1>2. ASSUME NEW i \in 1 .. Window
      PROVE  g[i] \in 1 .. l /\ bars[g[i]].start = old[i].start /\ old[i].start \in Int
  <2>1. old[i].start \in StartsOf(bars) /\ old[i].start \in Int
    BY <1>1, BarFields
  <2>2. \E j \in 1 .. Len(bars) : bars[j].start = old[i].start
    BY <2>1, BarFields
  <2> QED BY <2>1, <2>2
<1>3. g \in [1 .. Window -> 1 .. l]
  BY <1>2
<1>4. \A j \in 1 .. l : bars[j].start \in Int
  BY BarFields
<1> HIDE DEF g, l
<1>5. Rises(g, Window)
  <2> SUFFICES ASSUME NEW i \in 1 .. Window, NEW j \in 1 .. Window, i < j PROVE g[i] < g[j]
    BY DEF Rises
  <2>1. old[i].start < old[j].start
    BY <1>1 DEF Ordered
  <2>2. bars[g[i]].start < bars[g[j]].start /\ g[i] \in 1 .. l /\ g[j] \in 1 .. l
    BY <1>2, <2>1
  <2>3. g[j] < g[i] => bars[g[j]].start < bars[g[i]].start
    BY <2>2 DEF Ordered, l
  <2>4. bars[g[i]].start \in Int /\ bars[g[j]].start \in Int
    BY <1>4, <2>2
  <2>5. g[i] # g[j] /\ ~(g[j] < g[i])
    BY <2>2, <2>3, <2>4
  <2> QED BY <2>2, <2>5
<1>6. Window <= l /\ g[1] <= l - Window + 1
  BY <1>1, <1>3, <1>5, RisesFast
<1> DEFINE k == l - Window + 1
<1>7. k \in 1 .. l /\ g[1] \in 1 .. l /\ (g[1] < k \/ g[1] = k)
  <2>1. g[1] \in 1 .. l
    BY <1>1, <1>3
  <2> QED BY <1>1, <1>6, <2>1
<1>8. bars[g[1]].start = old[1].start /\ old[1].start \in Int /\ bars[k].start \in Int
  BY <1>1, <1>2, <1>4, <1>7
<1>9. g[1] < k => bars[g[1]].start < bars[k].start
  BY <1>7 DEF Ordered, l
<1>10. m < bars[k].start
  BY <1>1, <1>7, <1>8, <1>9
<1>11. Len(Kept(bars)) = Window /\ Kept(bars)[1] = bars[k]
  BY <1>1, <1>6, KeptIs DEF l
<1> QED BY <1>10, <1>11 DEF Trimmed

\* _upsert_kline: the deque afterwards is what deque(maxlen) keeps of the bars with the
\* new one, in order.
LEMMA UpsertedIs ==
  ASSUME NEW bars \in Seq(Bar), Ordered(bars), NEW bar \in Bar
  PROVE  \E all \in Seq(Bar) :
           /\ Upserted(bars, bar) = Kept(all) /\ Ordered(all)
           /\ StartsOf(all) = StartsOf(bars) \cup {bar.start}
<1>1. CASE bars = << >> \/ Last(bars).start < bar.start
  <2> DEFINE all == Append(bars, bar)
             n == Len(bars)
  <2>1. /\ all \in Seq(Bar) /\ Len(all) = n + 1 /\ n \in Nat /\ all[n + 1] = bar
        /\ \A i \in 1 .. n : all[i] = bars[i]
    OBVIOUS
  <2>2. \A i \in 1 .. n : bars[i].start < bar.start
    <3> SUFFICES ASSUME NEW i \in 1 .. n PROVE bars[i].start < bar.start
      OBVIOUS
    <3>1. bars[n].start < bar.start /\ n \in 1 .. n
      BY <1>1, <2>1 DEF Last
    <3>2. bars[i].start \in Int /\ bars[n].start \in Int /\ bar.start \in Int
      <4>1. bar.start \in 0 .. MaxMinute
        BY DEF Bar
      <4> QED BY <2>1, <3>1, <4>1, BarFields
    <3>3. i < n => bars[i].start < bars[n].start
      BY <3>1 DEF Ordered
    <3> QED BY <3>1, <3>2, <3>3
  <2> HIDE DEF all
  <2>3. Ordered(all)
    BY <2>1, <2>2 DEF Ordered
  <2>4. StartsOf(all) = StartsOf(bars) \cup {bar.start}
    <3>1. \A x : x \in StartsOf(all) <=> \E i \in 1 .. n + 1 : all[i].start = x
      BY <2>1, BarFields
    <3>2. \A x : x \in StartsOf(bars) <=> \E i \in 1 .. n : bars[i].start = x
      BY BarFields
    <3>3. \A i \in 1 .. n + 1 : i \in 1 .. n \/ i = n + 1
      BY <2>1
    <3>4. n + 1 \in 1 .. n + 1 /\ \A i \in 1 .. n : i \in 1 .. n + 1
      BY <2>1
    <3> QED BY <2>1, <3>1, <3>2, <3>3, <3>4
  <2>5. Upserted(bars, bar) = Kept(all)
    BY <1>1 DEF Upserted, all
  <2> QED BY <2>1, <2>3, <2>4, <2>5
<1>2. CASE ~(bars = << >> \/ Last(bars).start < bar.start)
  <2> DEFINE all == Merged(bars, <<bar>>)
  <2>1. <<bar>> \in Seq(Bar) /\ StartsOf(<<bar>>) = {bar.start}
    BY DEF StartsOf
  <2>2. all \in Seq(Bar) /\ Ordered(all) /\ StartsOf(all) = StartsOf(bars) \cup StartsOf(<<bar>>)
    BY <2>1, MergedIs
  <2>3. Upserted(bars, bar) = Kept(all)
    BY <1>2 DEF Upserted
  <2> HIDE DEF all
  <2> QED BY <2>1, <2>2, <2>3
<1> QED BY <1>1, <1>2

\* GET /fapi/v1/klines: the answer ends with the bar that was open.
LEMMA ServedIs ==
  ASSUME NEW m \in 0 .. MaxMinute
  PROVE  /\ Served(m) \in Seq(Bar) /\ Served(m) # << >>
         /\ \A x \in StartsOf(Served(m)) : x <= m
<1> DEFINE first == IF m < Limit THEN 0 ELSE m - Limit + 1
           n == m - first + 1
           bars == Served(m)
<1>1. m \in Nat /\ first \in Nat /\ first <= m /\ n \in Nat /\ n > 0 /\ MaxMinute \in Nat
  BY FeedAssumption
<1>2. bars = [i \in 1 .. n |-> [start |-> first + i - 1, closed |-> first + i - 1 < m]]
  BY DEF Served
<1> HIDE DEF bars
<1>3. ASSUME NEW i \in 1 .. n
      PROVE  bars[i] \in Bar /\ bars[i].start = first + i - 1 /\ first + i - 1 <= m
  BY <1>1, <1>2 DEF Bar
<1>4. bars \in Seq(Bar) /\ Len(bars) = n
  <2> HIDE DEF n, first
  <2>1. bars \in [1 .. n -> Bar]
    BY <1>2, <1>3
  <2> QED BY <1>1, <2>1
<1>5. \A x \in StartsOf(bars) : x <= m
  <2> SUFFICES ASSUME NEW x \in StartsOf(bars) PROVE x <= m
    OBVIOUS
  <2>1. PICK i \in 1 .. n : bars[i].start = x
    BY <1>4, BarFields
  <2> QED BY <1>3, <2>1
<1> QED BY <1>1, <1>4, <1>5 DEF bars

-----------------------------------------------------------------------------
(* One symbol's bars.                                                        *)

\* The deque is in order and knows no later minute than the exchange; and of the minutes
\* that are over each one is in the deque, or on its way to it, or missed, unless it is
\* older than a full deque.
Sound(bars, late, lost, now) ==
  /\ bars \in Seq(Bar) /\ Ordered(bars) /\ Len(bars) <= Window
  /\ \A x \in StartsOf(bars) : x <= now
  /\ late \in Seq(0 .. MaxMinute) /\ \A x \in ToSet(late) : x < now
  /\ lost \subseteq 0 .. MaxMinute
  /\ \A m \in 0 .. now - 1 :
       m \in ToSet(late) \/ m \in lost \/ m \in StartsOf(bars) \/ Trimmed(bars, m)

\* Bars come to the deque, from the stream or from a seed.
LEMMA TakenSound ==
  ASSUME NEW bars, NEW late, NEW lost, NEW now \in Int, Sound(bars, late, lost, now),
         NEW all \in Seq(Bar), Ordered(all), NEW N, StartsOf(all) = StartsOf(bars) \cup N,
         \A x \in N : x <= now,
         NEW later \in Seq(0 .. MaxMinute), ToSet(later) \subseteq ToSet(late),
         NEW left \in SUBSET lost,
         \A x \in ToSet(late) \cup lost : x \in ToSet(later) \cup left \cup N
  PROVE  /\ Sound(Kept(all), later, left, now)
         /\ N # {} \/ bars # << >> => Kept(all) # << >>
<1> DEFINE K == Kept(all)
<1>1. /\ K \in Seq(Bar) /\ Ordered(K) /\ Len(K) <= Window
      /\ StartsOf(K) \subseteq StartsOf(all)
      /\ all # << >> => K # << >>
  BY KeptIs
<1>2. \A x \in StartsOf(all) : x \in StartsOf(K) \/ Trimmed(K, x)
  BY KeptIs
<1>3. ASSUME NEW m \in Int, Trimmed(bars, m) PROVE Trimmed(K, m)
  BY <1>3, TrimmedStays DEF Sound
<1> HIDE DEF K
<1>4. \A x \in StartsOf(bars) \cup N : x <= now
  BY DEF Sound
<1>5. ASSUME NEW m \in 0 .. now - 1
      PROVE  m \in ToSet(later) \/ m \in left \/ m \in StartsOf(K) \/ Trimmed(K, m)
  <2>1. m \in ToSet(late) \/ m \in lost \/ m \in StartsOf(bars) \/ Trimmed(bars, m)
    BY DEF Sound
  <2>2. m \in N \/ m \in StartsOf(bars) => m \in StartsOf(all)
    OBVIOUS
  <2>3. m \in ToSet(late) \/ m \in lost => m \in ToSet(later) \/ m \in left \/ m \in N
    OBVIOUS
  <2> QED BY <1>2, <1>3, <2>1, <2>2, <2>3
<1>6. N # {} \/ bars # << >> => all # << >>
  <2>1. bars # << >> => StartsOf(bars) # {}
    <3> SUFFICES ASSUME bars # << >> PROVE StartsOf(bars) # {}
      OBVIOUS
    <3>1. bars \in Seq(Bar)
      BY DEF Sound
    <3>2. 1 \in DOMAIN bars
      BY <3>1
    <3> QED BY <3>2 DEF StartsOf
  <2>2. all = << >> => StartsOf(all) = {}
    BY DEF StartsOf
  <2> QED BY <2>1, <2>2
<1>7. \A x \in StartsOf(K) : x <= now
  BY <1>1, <1>4, Zenon
<1>8. later \in Seq(0 .. MaxMinute) /\ (\A x \in ToSet(later) : x < now) /\ left \subseteq 0 .. MaxMinute
  BY DEF Sound
<1>9. Sound(K, later, left, now)
  BY <1>1, <1>5, <1>7, <1>8 DEF Sound
<1> QED BY <1>1, <1>6, <1>9, Zenon DEF K

\* A minute ends.
LEMMA MinuteSound ==
  ASSUME NEW bars, NEW late, NEW lost, NEW now \in 0 .. MaxMinute, Sound(bars, late, lost, now)
  PROVE  /\ Sound(bars, Append(late, now), lost, now + 1)
         /\ Sound(bars, late, lost \cup {now}, now + 1)
<1>1. MaxMinute \in Nat /\ now \in Nat
  BY FeedAssumption
<1>2. late \in Seq(0 .. MaxMinute) /\ bars \in Seq(Bar)
  BY DEF Sound
<1>3. StartsOf(bars) \subseteq Int /\ ToSet(late) \subseteq Int
  BY <1>1, <1>2, BarFields DEF ToSet
<1>4. Append(late, now) \in Seq(0 .. MaxMinute) /\ ToSet(Append(late, now)) = ToSet(late) \cup {now}
  <2> DEFINE n == Len(late)
             more == Append(late, now)
  <2>1. /\ n \in Nat /\ DOMAIN late = 1 .. n /\ DOMAIN more = 1 .. n + 1
        /\ more[n + 1] = now /\ \A i \in 1 .. n : more[i] = late[i]
        /\ more \in Seq(0 .. MaxMinute)
    BY <1>2
  <2>2. n + 1 \in 1 .. n + 1 /\ \A i \in 1 .. n + 1 : i \in 1 .. n \/ i = n + 1
    BY <2>1
  <2>3. \A i \in 1 .. n : i \in 1 .. n + 1
    BY <2>1
  <2> HIDE DEF more, n
  <2>4. ToSet(more) = ToSet(late) \cup {now}
    BY <2>1, <2>2, <2>3 DEF ToSet
  <2> QED BY <2>1, <2>4 DEF more
<1>5. \A m \in 0 .. (now + 1) - 1 : m \in 0 .. now - 1 \/ m = now
  BY <1>1
<1>6. (\A x \in StartsOf(bars) : x <= now + 1) /\ \A x \in ToSet(late) : x < now + 1
  BY <1>1, <1>3 DEF Sound
<1>7. now < now + 1 /\ lost \cup {now} \subseteq 0 .. MaxMinute
  BY <1>1 DEF Sound
<1>8. \A m \in 0 .. now - 1 :
        m \in ToSet(late) \/ m \in lost \/ m \in StartsOf(bars) \/ Trimmed(bars, m)
  BY DEF Sound
<1>9. bars \in Seq(Bar) /\ Ordered(bars) /\ Len(bars) <= Window /\ lost \subseteq 0 .. MaxMinute
  BY DEF Sound
<1>10. Sound(bars, Append(late, now), lost, now + 1)
  BY <1>4, <1>5, <1>6, <1>7, <1>8, <1>9 DEF Sound
<1>11. Sound(bars, late, lost \cup {now}, now + 1)
  BY <1>2, <1>5, <1>6, <1>7, <1>8, <1>9 DEF Sound
<1> QED BY <1>10, <1>11

\* on_event
LEMMA EventSound ==
  ASSUME NEW bars, NEW late, NEW lost, NEW now \in 0 .. MaxMinute, Sound(bars, late, lost, now),
         late # << >>
  PROVE  /\ Sound(Upserted(bars, [start |-> Head(late), closed |-> TRUE]), Tail(late), lost, now)
         /\ Upserted(bars, [start |-> Head(late), closed |-> TRUE]) # << >>
<1> DEFINE bar == [start |-> Head(late), closed |-> TRUE]
           later == Tail(late)
           N == {Head(late)}
<1>1. now \in Int /\ late \in Seq(0 .. MaxMinute) /\ bars \in Seq(Bar) /\ Ordered(bars)
  BY FeedAssumption DEF Sound
<1>2. /\ later \in Seq(0 .. MaxMinute) /\ Head(late) \in 0 .. MaxMinute
      /\ Head(late) = late[1] /\ 1 \in DOMAIN late /\ Len(late) \in Nat \ {0}
      /\ DOMAIN late = 1 .. Len(late) /\ Len(later) = Len(late) - 1 /\ DOMAIN later = 1 .. Len(later)
      /\ \A i \in 1 .. Len(later) : later[i] = late[i + 1]
  <2>1. Len(late) \in Nat \ {0} /\ DOMAIN late = 1 .. Len(late) /\ Head(late) = late[1]
    BY <1>1
  <2>2. later \in Seq(0 .. MaxMinute) /\ Len(later) = Len(late) - 1
    BY <1>1
  <2>3. DOMAIN later = 1 .. Len(later)
    BY <2>2
  <2>4. \A i \in 1 .. Len(later) : later[i] = late[i + 1]
    BY <1>1, <2>1, <2>2
  <2>5. 1 \in DOMAIN late /\ late[1] \in 0 .. MaxMinute
    <3>1. 1 \in 1 .. Len(late)
      BY <2>1
    <3>2. late[1] \in 0 .. MaxMinute
      BY <1>1, <3>1, ElementOfSeq
    <3>3. 1 \in DOMAIN late
      BY <2>1, <3>1
    <3> QED BY <3>2, <3>3
  <2> QED BY <2>1, <2>2, <2>3, <2>4, <2>5
<1>3. ToSet(later) \subseteq ToSet(late) /\ \A x \in ToSet(late) : x \in ToSet(later) \/ x \in N
  <2>1. \A i \in 1 .. Len(late) : i = 1 \/ (i - 1 \in 1 .. Len(later) /\ (i - 1) + 1 = i)
    BY <1>2
  <2>2. \A i \in 1 .. Len(later) : i + 1 \in 1 .. Len(late)
    BY <1>2
  <2>3. ASSUME NEW x \in ToSet(later) PROVE x \in ToSet(late)
    BY <1>2, <2>2 DEF ToSet
  <2>4. ASSUME NEW x \in ToSet(late) PROVE x \in ToSet(later) \/ x \in N
    <3>1. PICK i \in 1 .. Len(late) : late[i] = x
      BY <1>2 DEF ToSet
    <3>2. CASE i = 1
      BY <1>2, <3>1, <3>2
    <3>3. CASE i # 1
      <4>1. i - 1 \in 1 .. Len(later) /\ later[i - 1] = x
        BY <1>2, <2>1, <3>1, <3>3
      <4> QED BY <1>2, <4>1 DEF ToSet
    <3> QED BY <3>2, <3>3
  <2> QED BY <2>3, <2>4
<1>4. bar \in Bar /\ bar.start = Head(late)
  BY <1>2 DEF Bar
<1>5. \A x \in N : x <= now
  <2>1. Head(late) \in ToSet(late)
    BY <1>2 DEF ToSet
  <2>2. Head(late) < now /\ Head(late) \in Int
    BY <1>2, <2>1, FeedAssumption DEF Sound
  <2> QED BY <1>1, <2>2
<1> HIDE DEF bar, later
<1>6. PICK all \in Seq(Bar) :
        /\ Upserted(bars, bar) = Kept(all) /\ Ordered(all)
        /\ StartsOf(all) = StartsOf(bars) \cup {bar.start}
  BY <1>1, <1>4, UpsertedIs
<1>7. StartsOf(all) = StartsOf(bars) \cup N /\ N # {}
  BY <1>4, <1>6
<1> HIDE DEF N
<1>8. Sound(Kept(all), later, lost, now) /\ Kept(all) # << >>
  <2>1. lost \in SUBSET lost /\ \A x \in ToSet(late) \cup lost : x \in ToSet(later) \cup lost \cup N
    BY <1>3
  <2>2. later \in Seq(0 .. MaxMinute) /\ ToSet(later) \subseteq ToSet(late) /\ Ordered(all)
    BY <1>2, <1>3, <1>6
  <2> QED BY <1>1, <1>5, <1>7, <2>1, <2>2, TakenSound
<1> QED BY <1>6, <1>8 DEF bar, later

\* seed_klines
LEMMA SeedSound ==
  ASSUME NEW bars, NEW late, NEW lost, NEW now \in 0 .. MaxMinute, Sound(bars, late, lost, now),
         NEW m \in 0 .. MaxMinute, m <= now
  PROVE  /\ Sound(Kept(Merged(bars, Served(m))), late, lost \ StartsOf(Served(m)), now)
         /\ Kept(Merged(bars, Served(m))) # << >>
<1> DEFINE new == Served(m)
           all == Merged(bars, new)
           N == StartsOf(new)
           left == lost \ N
<1>1. now \in Int /\ m \in Int /\ late \in Seq(0 .. MaxMinute) /\ bars \in Seq(Bar)
  BY FeedAssumption DEF Sound
<1>2. new \in Seq(Bar) /\ new # << >> /\ \A x \in N : x <= m
  BY ServedIs
<1> HIDE DEF new
<1>3. all \in Seq(Bar) /\ Ordered(all) /\ StartsOf(all) = StartsOf(bars) \cup N
  BY <1>1, <1>2, MergedIs
<1>4. N # {}
  <2>1. 1 \in DOMAIN new
    BY <1>2
  <2> QED BY <2>1 DEF StartsOf
<1>5. \A x \in N : x <= now
  <2>1. N \subseteq Int
    BY <1>2, BarFields, FeedAssumption
  <2> QED BY <1>1, <1>2, <2>1
<1>6. left \in SUBSET lost /\ \A x \in ToSet(late) \cup lost : x \in ToSet(late) \cup left \cup N
  OBVIOUS
<1> HIDE DEF all, N, left
<1>7. Sound(Kept(all), late, left, now) /\ Kept(all) # << >>
  BY <1>1, <1>3, <1>4, <1>5, <1>6, TakenSound
<1> QED BY <1>7 DEF all, N, left, new

\* Between two bars of the deque there are missed minutes and those on their way only.
LEMMA SoundGaps ==
  ASSUME NEW bars, NEW late, NEW lost, NEW now \in 0 .. MaxMinute, Sound(bars, late, lost, now),
         NEW i \in 2 .. Len(bars)
  PROVE  /\ bars[i - 1].start < bars[i].start
         /\ bars[i - 1].start + 1 .. bars[i].start - 1 \subseteq lost \cup ToSet(late)
<1>1. bars \in Seq(Bar) /\ now \in Nat /\ Len(bars) \in Nat
  BY FeedAssumption DEF Sound
<1>2. i - 1 \in 1 .. Len(bars) /\ i \in 1 .. Len(bars) /\ i - 1 < i
  BY <1>1
<1>3. bars[i - 1].start < bars[i].start
  BY <1>2 DEF Sound, Ordered
<1> SUFFICES ASSUME NEW m \in bars[i - 1].start + 1 .. bars[i].start - 1
             PROVE  m \in lost \cup ToSet(late)
  BY <1>3
<1>4. /\ bars[i].start \in StartsOf(bars) /\ bars[i].start \in Nat /\ bars[i - 1].start \in Nat
      /\ \A j \in 1 .. Len(bars) : bars[j].start \in Nat
  BY <1>1, <1>2, BarFields, FeedAssumption
<1>5. bars[i].start <= now
  BY <1>4 DEF Sound
<1>6. m \in 0 .. now - 1 /\ bars[i - 1].start < m /\ m < bars[i].start
  BY <1>1, <1>4, <1>5
<1>7. m \notin StartsOf(bars)
  <2> SUFFICES ASSUME NEW j \in 1 .. Len(bars), bars[j].start = m PROVE FALSE
    BY <1>1, BarFields
  <2>1. CASE j = i - 1 \/ j = i
    BY <1>4, <1>6, <2>1
  <2>2. CASE j < i - 1
    <3>1. bars[j].start < bars[i - 1].start
      BY <1>2, <2>2 DEF Sound, Ordered
    <3> QED BY <1>4, <1>6, <3>1
  <2>3. CASE i < j
    <3>1. bars[i].start < bars[j].start
      BY <1>2, <2>3 DEF Sound, Ordered
    <3> QED BY <1>4, <1>6, <3>1
  <2> QED BY <1>2, <2>1, <2>2, <2>3
<1>8. ~Trimmed(bars, m)
  <2>1. 1 \in 1 .. Len(bars) /\ (1 < i - 1 \/ i - 1 = 1)
    BY <1>1
  <2>2. bars[1].start < bars[i - 1].start \/ i - 1 = 1
    BY <1>2, <2>1 DEF Sound, Ordered
  <2>3. bars[1].start \in Nat
    BY <1>4, <2>1
  <2> QED BY <1>4, <1>6, <2>2, <2>3 DEF Trimmed
<1> QED BY <1>6, <1>7, <1>8 DEF Sound

-----------------------------------------------------------------------------
(* The inductive invariant.                                                  *)

Places == {"scan", "sessions", "strategy", "seeding", "polling", "dead"}

\* Between the listeners: the sessions have been replaced, then the strategy follows.
PlaceInv ==
  /\ scanner \in Places /\ broken \in BOOLEAN
  /\ candidates \subseteq Symbols /\ streams \subseteq Symbols /\ followed \subseteq Symbols
  /\ broken => streams = {} /\ scanner \notin {"strategy", "seeding", "polling"}
  /\ scanner = "strategy" => streams = candidates
  /\ scanner \in {"seeding", "polling"} => streams = candidates /\ followed = candidates
  /\ scanner = "scan" /\ ~broken => streams = candidates /\ followed = candidates

\* A call that pauses may be repeated; no answer tells of a later minute.
CallInv ==
  /\ requests \in [Symbols -> [pc : {"none", "asked", "answered", "sleeping"},
                               attempt : 0 .. MaxRetries, answer : 0 .. MaxMinute]]
  /\ \A s \in Symbols :
       /\ requests[s].answer <= minute
       /\ requests[s].pc = "sleeping" => requests[s].attempt < MaxRetries
  /\ scanner \notin {"seeding", "polling"} => NonePending

BarsInv ==
  /\ minute \in 0 .. MaxMinute /\ missed \in [Symbols -> SUBSET (0 .. MaxMinute)]
  /\ klines \in [Symbols -> Seq(Bar)] /\ arriving \in [Symbols -> Seq(0 .. MaxMinute)]
  /\ \A s \in Symbols : Sound(klines[s], arriving[s], missed[s], minute)

\* A followed symbol without klines is waiting for them, unless the request failed.
WarmInv ==
  /\ cold \subseteq Symbols
  /\ \A s \in followed \ cold : klines[s] # << >> \/ (scanner = "seeding" /\ Pending(s))

FeedInv == PlaceInv /\ CallInv /\ BarsInv /\ WarmInv

LEMMA FeedInvImplies ==
  FeedInv => TypeOK /\ WindowInOrder /\ AnnouncedIsFollowed /\ GapsAreMissed /\ FollowedIsWarm
<1> SUFFICES ASSUME FeedInv
             PROVE  TypeOK /\ WindowInOrder /\ AnnouncedIsFollowed /\ GapsAreMissed /\ FollowedIsWarm
  OBVIOUS
<1> USE DEF FeedInv
<1>1. TypeOK
  BY DEF PlaceInv, CallInv, BarsInv, WarmInv, TypeOK, Places
<1>2. WindowInOrder
  <2> SUFFICES ASSUME NEW s \in Symbols
               PROVE  /\ Len(klines[s]) <= Window
                      /\ \A i \in 2 .. Len(klines[s]) : klines[s][i - 1].start < klines[s][i].start
    BY DEF WindowInOrder
  <2>1. Sound(klines[s], arriving[s], missed[s], minute) /\ minute \in 0 .. MaxMinute
    BY DEF BarsInv
  <2>2. Len(klines[s]) <= Window
    BY <2>1 DEF Sound
  <2> QED BY <2>1, <2>2, SoundGaps
<1>3. GapsAreMissed
  <2> SUFFICES ASSUME NEW s \in Symbols, NEW i \in 2 .. Len(klines[s])
               PROVE  klines[s][i - 1].start + 1 .. klines[s][i].start - 1
                        \subseteq missed[s] \cup ToSet(arriving[s])
    BY DEF GapsAreMissed
  <2>1. Sound(klines[s], arriving[s], missed[s], minute) /\ minute \in 0 .. MaxMinute
    BY DEF BarsInv
  <2> QED BY <2>1, SoundGaps
<1>4. AnnouncedIsFollowed
  BY DEF PlaceInv, AnnouncedIsFollowed
<1>5. FollowedIsWarm
  BY DEF WarmInv, FollowedIsWarm
<1> QED BY <1>1, <1>2, <1>3, <1>4, <1>5

LEMMA FeedInvInit == Init => FeedInv
<1> SUFFICES ASSUME Init PROVE FeedInv
  OBVIOUS
<1> USE DEF Init
<1>1. 0 \in 0 .. MaxMinute /\ 0 \in 0 .. MaxRetries
  BY FeedAssumption
<1>2. PlaceInv
  BY DEF PlaceInv, Places
<1>3. CallInv
  BY <1>1 DEF CallInv, RequestInit, NoCall, Call, NonePending, Pending
<1>4. BarsInv
  <2>1. /\ << >> \in Seq(Bar) /\ << >> \in Seq(0 .. MaxMinute)
        /\ Len(<< >>) = 0 /\ DOMAIN << >> = {}
    OBVIOUS
  <2>2. Sound(<< >>, << >>, {}, 0)
    <3>1. Ordered(<< >>) /\ StartsOf(<< >>) = {} /\ ToSet(<< >>) = {}
      BY DEF Ordered, StartsOf, ToSet
    <3>2. 0 <= Window
      BY FeedAssumption
    <3> QED BY <2>1, <3>1, <3>2 DEF Sound
  <2> QED BY <1>1, <2>1, <2>2 DEF BarsInv
<1>5. WarmInv
  BY DEF WarmInv
<1> QED BY <1>2, <1>3, <1>4, <1>5 DEF FeedInv

-----------------------------------------------------------------------------
(* The scanner's task.                                                       *)

LEMMA QuietCalls ==
  ASSUME CallInv, UNCHANGED <<requests, minute>>, scanner' \notin {"seeding", "polling"} => NonePending
  PROVE  CallInv'
BY DEF CallInv, NonePending, Pending

LEMMA QuietBars ==
  ASSUME BarsInv, UNCHANGED <<klines, missed, marketVars>>
  PROVE  BarsInv'
BY DEF BarsInv, marketVars

\* The coroutines of a gather start.
LEMMA SendCalls ==
  ASSUME FeedInv, NEW callers, Send(callers), UNCHANGED minute, scanner' \in {"seeding", "polling"}
  PROVE  /\ CallInv'
         /\ \A s \in Symbols : s \in callers => Pending(s)'
<1>1. /\ requests' = [c \in Symbols |-> IF c \in callers THEN Call("asked", 0, 0) ELSE requests[c]]
      /\ minute \in 0 .. MaxMinute /\ MaxMinute \in Nat /\ MaxRetries \in Nat
  BY FeedAssumption DEF Send, FeedInv, BarsInv
<1>2. 0 \in 0 .. MaxMinute /\ 0 \in 0 .. MaxRetries /\ 0 <= minute
  BY <1>1
<1>3. /\ Call("asked", 0, 0) \in [pc : {"none", "asked", "answered", "sleeping"},
                                  attempt : 0 .. MaxRetries, answer : 0 .. MaxMinute]
      /\ Call("asked", 0, 0).pc = "asked" /\ Call("asked", 0, 0).answer = 0
  BY <1>2 DEF Call
<1>4. \A s \in Symbols :
        requests'[s] = IF s \in callers THEN Call("asked", 0, 0) ELSE requests[s]
  BY <1>1
<1>5. requests' \in [Symbols -> [pc : {"none", "asked", "answered", "sleeping"},
                                 attempt : 0 .. MaxRetries, answer : 0 .. MaxMinute]]
  BY <1>1, <1>3 DEF FeedInv, CallInv
<1>6. \A s \in Symbols :
        /\ requests'[s].answer <= minute'
        /\ requests'[s].pc = "sleeping" => requests'[s].attempt < MaxRetries
  BY <1>2, <1>3, <1>4 DEF FeedInv, CallInv
<1> QED BY <1>3, <1>4, <1>5, <1>6 DEF CallInv, Pending

LEMMA ScannerStep ==
  ASSUME FeedInv, Scan \/ Listeners
  PROVE  FeedInv'
<1> USE DEF FeedInv
<1>1. CASE ScanIdle \/ PollEnds
  <2>1. /\ UNCHANGED <<candidates, streams, followed, broken, barVars, marketVars>>
        /\ scanner' \in {"scan", "dead"} /\ NonePending /\ scanner \in {"scan", "polling"}
    BY <1>1 DEF ScanIdle, PollEnds, IterationEnds, CallInv
  <2>2. PlaceInv'
    BY <2>1 DEF PlaceInv, Places
  <2>3. CallInv' /\ BarsInv'
    BY <2>1, QuietCalls, QuietBars DEF barVars, marketVars
  <2>4. WarmInv'
    BY <2>1 DEF WarmInv, barVars
  <2> QED BY <2>2, <2>3, <2>4
<1>2. ASSUME NEW found \in SUBSET Symbols, ScanChange(found)
      PROVE  FeedInv'
  <2>1. /\ UNCHANGED <<streams, followed, broken, barVars, marketVars>>
        /\ scanner = "scan" /\ scanner' = "sessions" /\ candidates' = Published(found)
    BY <1>2 DEF ScanChange
  <2>2. candidates' \subseteq Symbols
    BY <2>1, FeedAssumption DEF Published
  <2>3. PlaceInv'
    BY <2>1, <2>2 DEF PlaceInv, Places
  <2>4. CallInv' /\ BarsInv'
    BY <2>1, QuietCalls, QuietBars DEF barVars, marketVars, CallInv
  <2>5. WarmInv'
    BY <2>1 DEF WarmInv, barVars
  <2> QED BY <2>3, <2>4, <2>5
<1>3. CASE Resubscribe \/ ResubscribeFails
  <2>1. /\ UNCHANGED <<candidates, followed, barVars, marketVars>>
        /\ scanner = "sessions" /\ scanner' \in {"scan", "dead", "strategy"}
    BY <1>3 DEF Resubscribe, ResubscribeFails, IterationEnds
  <2>2. PlaceInv'
    BY <1>3 DEF PlaceInv, Places, Resubscribe, ResubscribeFails, IterationEnds
  <2>3. CallInv' /\ BarsInv'
    BY <2>1, QuietCalls, QuietBars DEF barVars, marketVars, CallInv
  <2>4. WarmInv'
    BY <2>1 DEF WarmInv, barVars
  <2> QED BY <2>2, <2>3, <2>4
<1>4. CASE Follow
  <2>1. /\ scanner = "strategy" /\ scanner' = "seeding" /\ followed' = candidates
        /\ Send(candidates \ followed)
        /\ UNCHANGED <<candidates, streams, broken, klines, cold, missed, marketVars>>
    BY <1>4 DEF Follow
  <2>2. PlaceInv'
    BY <2>1 DEF PlaceInv, Places
  <2>3. CallInv' /\ \A s \in Symbols : s \in candidates \ followed => Pending(s)'
    BY <2>1, SendCalls DEF marketVars
  <2>4. BarsInv'
    BY <2>1, QuietBars
  <2>5. WarmInv'
    BY <2>1, <2>3 DEF WarmInv, PlaceInv
  <2> QED BY <2>2, <2>3, <2>4, <2>5
<1>5. CASE Poll
  <2>1. /\ scanner = "seeding" /\ scanner' = "polling" /\ NonePending /\ Send(followed)
        /\ UNCHANGED <<candidates, streams, followed, broken, klines, cold, missed, marketVars>>
    BY <1>5 DEF Poll
  <2>2. PlaceInv'
    BY <2>1 DEF PlaceInv, Places
  <2>3. CallInv'
    BY <2>1, SendCalls DEF marketVars
  <2>4. BarsInv'
    BY <2>1, QuietBars
  <2>5. WarmInv'
    BY <2>1 DEF WarmInv, PlaceInv, NonePending
  <2> QED BY <2>2, <2>3, <2>4, <2>5
<1> QED BY <1>1, <1>2, <1>3, <1>4, <1>5 DEF Scan, Listeners

-----------------------------------------------------------------------------
(* The requests.                                                             *)

\* A call moves on.
LEMMA CallStep ==
  ASSUME CallInv, NEW s \in Symbols, UNCHANGED <<scanner, minute>>, Pending(s),
         NEW call \in [pc : {"none", "asked", "answered", "sleeping"},
                       attempt : 0 .. MaxRetries, answer : 0 .. MaxMinute],
         call.answer <= minute, call.pc = "sleeping" => call.attempt < MaxRetries,
         Calls(s, call)
  PROVE  /\ CallInv' /\ requests'[s] = call
         /\ \A r \in Symbols \ {s} : requests'[r] = requests[r]
<1>1. requests' = [requests EXCEPT ![s] = call]
  BY DEF Calls
<1>2. ~NonePending
  BY DEF NonePending
<1>3. scanner' \in {"seeding", "polling"}
  BY <1>2 DEF CallInv
<1> QED BY <1>1, <1>3 DEF CallInv

LEMMA CallFields ==
  ASSUME FeedInv, NEW s \in Symbols
  PROVE  /\ requests[s].pc \in {"none", "asked", "answered", "sleeping"}
         /\ requests[s].attempt \in 0 .. MaxRetries /\ requests[s].answer \in 0 .. MaxMinute
         /\ requests[s].answer <= minute /\ minute \in 0 .. MaxMinute
         /\ 0 \in 0 .. MaxMinute /\ 0 \in 0 .. MaxRetries /\ 0 <= minute
         /\ MaxRetries \in Nat /\ minute \in Nat
         /\ requests[s].pc = "sleeping" => requests[s].attempt < MaxRetries
BY FeedAssumption DEF FeedInv, CallInv, BarsInv

LEMMA RestKeeps ==
  ASSUME FeedInv, NEW s \in Symbols, RestStep(s)
  PROVE  FeedInv'
<1> USE DEF FeedInv
<1>1. UNCHANGED <<feedVars, klines, cold, missed, marketVars>> /\ scanner' = scanner /\ minute' = minute
  BY DEF RestStep, feedVars, marketVars
<1> DEFINE i == IF scanner = "seeding" THEN minute ELSE 0
<1>2. /\ i \in 0 .. MaxMinute /\ i <= minute
      /\ Serve(s, i) \/ RateLimit(s) \/ Retry(s)
  BY CallFields DEF RestStep
<1> HIDE DEF i
<1>3. CallInv' /\ Pending(s) /\ requests'[s].pc # "none" /\ \A r \in Symbols \ {s} : requests'[r] = requests[r]
  <2>1. CASE Serve(s, i)
    <3>1. requests[s].pc = "asked" /\ Calls(s, Call("answered", 0, i))
      BY <2>1 DEF Serve
    <3> QED BY <1>1, <1>2, <3>1, CallStep, CallFields DEF Call, Pending
  <2>2. CASE RateLimit(s)
    <3>1. /\ requests[s].pc = "asked" /\ requests[s].attempt < MaxRetries
          /\ Calls(s, Call("sleeping", requests[s].attempt, 0))
      BY <2>2 DEF RateLimit
    <3> QED BY <1>1, <3>1, CallStep, CallFields DEF Call, Pending
  <2>3. CASE Retry(s)
    <3>1. requests[s].pc = "sleeping" /\ Calls(s, Call("asked", requests[s].attempt + 1, 0))
      BY <2>3 DEF Retry
    <3>2. requests[s].attempt + 1 \in 0 .. MaxRetries
      BY <3>1, CallFields
    <3> QED BY <1>1, <3>1, <3>2, CallStep, CallFields DEF Call, Pending
  <2> QED BY <1>2, <2>1, <2>2, <2>3
<1>4. PlaceInv' /\ BarsInv'
  BY <1>1, QuietBars DEF PlaceInv, feedVars
<1>5. WarmInv'
  BY <1>1, <1>3 DEF WarmInv, PlaceInv, feedVars, Pending
<1> QED BY <1>3, <1>4, <1>5

\* An answer or an error ends the call.
LEMMA CallEndsStep ==
  ASSUME FeedInv, NEW s \in Symbols, Return(s) \/ Fail(s), UNCHANGED <<scanner, minute>>
  PROVE  CallInv' /\ \A r \in Symbols \ {s} : requests'[r] = requests[r]
<1>1. requests[s].pc \in {"asked", "answered"} /\ Calls(s, NoCall)
  BY DEF Return, Fail
<1> QED BY <1>1, CallStep, CallFields DEF FeedInv, NoCall, Call, Pending

LEMMA AnswerKeeps ==
  ASSUME FeedInv, NEW s \in Symbols, SeedFails(s) \/ Polled(s)
  PROVE  FeedInv'
<1> USE DEF FeedInv
<1>1. /\ UNCHANGED <<feedVars, klines, missed, marketVars>>
      /\ Return(s) \/ Fail(s)
      /\ scanner' = scanner /\ minute' = minute /\ followed' = followed
  BY DEF SeedFails, Polled, feedVars, marketVars
<1>2. CallInv' /\ \A r \in Symbols \ {s} : requests'[r] = requests[r]
  BY <1>1, CallEndsStep
<1>3. PlaceInv'
  BY <1>1 DEF PlaceInv, feedVars
<1>4. BarsInv'
  BY <1>1, QuietBars
<1>5. WarmInv'
  <2>1. CASE SeedFails(s)
    <3>1. cold' = cold \cup {s}
      BY <2>1 DEF SeedFails
    <3>2. cold' \subseteq Symbols
      BY <3>1 DEF WarmInv
    <3>3. ASSUME NEW r \in followed' \ cold'
          PROVE  klines'[r] # << >> \/ (scanner' = "seeding" /\ Pending(r)')
      <4>1. r \in followed \ cold /\ r \in Symbols \ {s}
        BY <1>1, <3>1 DEF PlaceInv
      <4> QED BY <1>1, <1>2, <4>1 DEF WarmInv, Pending
    <3> QED BY <3>2, <3>3 DEF WarmInv
  <2>2. CASE Polled(s)
    <3>1. scanner = "polling" /\ cold' = cold
      BY <2>2 DEF Polled
    <3> QED BY <1>1, <3>1 DEF WarmInv
  <2> QED BY <2>1, <2>2
<1> QED BY <1>2, <1>3, <1>4, <1>5

LEMMA SeedKeeps ==
  ASSUME FeedInv, NEW s \in Symbols, SeedKlines(s)
  PROVE  FeedInv'
<1> USE DEF FeedInv
<1> DEFINE m == requests[s].answer
           bars == Kept(Merged(klines[s], Served(m)))
           left == missed[s] \ StartsOf(Served(m))
<1>1. /\ UNCHANGED <<feedVars, marketVars>> /\ Return(s)
      /\ scanner' = scanner /\ minute' = minute /\ followed' = followed /\ arriving' = arriving
      /\ cold' = cold \ {s}
      /\ klines' = [klines EXCEPT ![s] = bars] /\ missed' = [missed EXCEPT ![s] = left]
  BY DEF SeedKlines, feedVars, marketVars
<1>2. CallInv' /\ \A r \in Symbols \ {s} : requests'[r] = requests[r]
  BY <1>1, CallEndsStep
<1>3. PlaceInv'
  BY <1>1 DEF PlaceInv, feedVars
<1>4. Sound(bars, arriving[s], left, minute) /\ bars # << >>
  <2>1. Sound(klines[s], arriving[s], missed[s], minute)
    BY DEF BarsInv
  <2> QED BY <2>1, SeedSound, CallFields
<1> HIDE DEF bars, left
<1>5. bars \in Seq(Bar) /\ left \in SUBSET (0 .. MaxMinute)
  BY <1>4 DEF Sound
<1>6. BarsInv'
  BY <1>1, <1>4, <1>5 DEF BarsInv
<1>7. WarmInv'
  BY <1>1, <1>2, <1>4 DEF WarmInv, PlaceInv, BarsInv, Pending
<1> QED BY <1>2, <1>3, <1>6, <1>7

-----------------------------------------------------------------------------
(* The stream.                                                               *)

LEMMA MinuteKeeps ==
  ASSUME FeedInv, EndMinute
  PROVE  FeedInv'
<1> USE DEF FeedInv
<1>1. PICK heard \in SUBSET streams :
        /\ arriving' = [s \in Symbols |-> IF s \in heard THEN Append(arriving[s], minute)
                                                         ELSE arriving[s]]
        /\ missed' = [s \in Symbols |-> IF s \in heard THEN missed[s] ELSE missed[s] \cup {minute}]
  BY DEF EndMinute
<1>2. /\ minute' = minute + 1 /\ UNCHANGED <<feedVars, requests, klines, cold>>
      /\ minute \in 0 .. MaxMinute /\ minute' \in 0 .. MaxMinute /\ minute \in Nat
  BY FeedAssumption DEF EndMinute, BarsInv
<1>3. PlaceInv'
  BY <1>2 DEF PlaceInv, feedVars
<1>4. CallInv'
  <2>1. \A s \in Symbols : requests[s].answer <= minute + 1
    BY <1>2, CallFields
  <2> QED BY <1>2, <2>1 DEF CallInv, NonePending, Pending, feedVars
<1>5. ASSUME NEW s \in Symbols
      PROVE  Sound(klines'[s], arriving'[s], missed'[s], minute')
  <2>1. Sound(klines[s], arriving[s], missed[s], minute)
    BY DEF BarsInv
  <2>2. /\ Sound(klines[s], Append(arriving[s], minute), missed[s], minute + 1)
        /\ Sound(klines[s], arriving[s], missed[s] \cup {minute}, minute + 1)
    BY <1>2, <2>1, MinuteSound
  <2>3. klines'[s] = klines[s]
    BY <1>2
  <2>4. CASE s \in heard
    BY <1>1, <1>2, <2>2, <2>3, <2>4
  <2>5. CASE s \notin heard
    BY <1>1, <1>2, <2>2, <2>3, <2>5
  <2> QED BY <2>4, <2>5
<1>6. BarsInv'
  <2>1. missed' \in [Symbols -> SUBSET (0 .. MaxMinute)]
    BY <1>1, <1>2 DEF BarsInv
  <2>2. arriving' \in [Symbols -> Seq(0 .. MaxMinute)]
    BY <1>1, <1>5 DEF Sound
  <2> QED BY <1>2, <1>5, <2>1, <2>2 DEF BarsInv
<1>7. WarmInv'
  BY <1>2 DEF WarmInv, PlaceInv, Pending, feedVars
<1> QED BY <1>3, <1>4, <1>6, <1>7

LEMMA OnEventKeeps ==
  ASSUME FeedInv, NEW s \in Symbols, OnEvent(s)
  PROVE  FeedInv'
<1> USE DEF FeedInv
<1> DEFINE bars == Upserted(klines[s], [start |-> Head(arriving[s]), closed |-> TRUE])
<1>1. /\ UNCHANGED <<feedVars, requests, cold, missed, minute>>
      /\ arriving[s] # << >> /\ arriving' = [arriving EXCEPT ![s] = Tail(arriving[s])]
      /\ klines' = [klines EXCEPT ![s] = bars]
  BY DEF OnEvent
<1>2. PlaceInv'
  BY <1>1 DEF PlaceInv, feedVars
<1>3. CallInv'
  BY <1>1, QuietCalls DEF CallInv, feedVars
<1>4. Sound(bars, Tail(arriving[s]), missed[s], minute) /\ bars # << >>
  <2>1. Sound(klines[s], arriving[s], missed[s], minute) /\ minute \in 0 .. MaxMinute
    BY DEF BarsInv
  <2> QED BY <1>1, <2>1, EventSound
<1> HIDE DEF bars
<1>5. bars \in Seq(Bar) /\ Tail(arriving[s]) \in Seq(0 .. MaxMinute)
  BY <1>4 DEF Sound
<1>6. BarsInv'
  BY <1>1, <1>4, <1>5 DEF BarsInv
<1>7. WarmInv'
  BY <1>1, <1>4 DEF WarmInv, PlaceInv, BarsInv, Pending, feedVars
<1> QED BY <1>2, <1>3, <1>6, <1>7

LEMMA FeedInvStep == FeedInv /\ [Next]_vars => FeedInv'
<1> SUFFICES ASSUME FeedInv, [Next]_vars PROVE FeedInv'
  OBVIOUS
<1>1. CASE Scan \/ Listeners
  BY <1>1, ScannerStep
<1>2. CASE EndMinute
  BY <1>2, MinuteKeeps
<1>3. CASE \E s \in Symbols : Request(s) \/ OnEvent(s)
  BY <1>3, RestKeeps, SeedKeeps, AnswerKeeps, OnEventKeeps DEF Request
<1>4. CASE UNCHANGED vars
  <2>1. UNCHANGED <<feedVars, requests, klines, cold, missed, marketVars>>
    BY <1>4 DEF vars, barVars
  <2>2. PlaceInv' /\ BarsInv'
    BY <2>1, QuietBars DEF FeedInv, PlaceInv, feedVars
  <2>3. CallInv'
    BY <2>1, QuietCalls DEF FeedInv, CallInv, feedVars, marketVars
  <2>4. WarmInv'
    BY <2>1 DEF FeedInv, WarmInv, Pending, feedVars
  <2> QED BY <2>2, <2>3, <2>4 DEF FeedInv
<1> QED BY <1>1, <1>2, <1>3, <1>4 DEF Next

LEMMA FeedInvHolds == Spec => []FeedInv
BY FeedInvInit, FeedInvStep, PTL DEF Spec

\* Every variable keeps its type, and only a gather of the scanner waits for requests
\* (ScannerRuntime, StrategyFeatureService).
THEOREM FeedTypeCorrect == Spec => []TypeOK
BY FeedInvHolds, FeedInvImplies, PTL

\* The klines are strictly ordered by minute and within the window, however seeds and
\* the stream overlap (FeatureEngine._upsert_kline, seed_klines).
THEOREM WindowStaysOrdered == Spec => []WindowInOrder
BY FeedInvHolds, FeedInvImplies, PTL

\* Between two scans both listeners follow the recorded candidates, or the stream is off
\* (DynamicCandidateManager.update).
THEOREM CandidatesAreFollowed == Spec => []AnnouncedIsFollowed
BY FeedInvHolds, FeedInvImplies, PTL

\* A minute that lies between two neighbouring klines has been missed or is still to be
\* ingested (FeatureEngine, RealtimeMarketDataService).
THEOREM OnlyMissedMinutesLack == Spec => []GapsAreMissed
BY FeedInvHolds, FeedInvImplies, PTL

\* Once the scanner goes on, a followed symbol has klines or its request has failed
\* (StrategyFeatureService.update_symbols).
THEOREM FollowedHasKlines == Spec => []FollowedIsWarm
BY FeedInvHolds, FeedInvImplies, PTL
=============================================================================
