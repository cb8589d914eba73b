------------------------------- MODULE Induction -------------------------------
(***************************************************************************)
(* Induction over data, stated for sets and functions: the library's          *)
(* induction theorems are about operators, a set of numbers is a value that a *)
(* proof can name.                                                            *)
(***************************************************************************)
EXTENDS Integers, FiniteSets, FiniteSetTheorems, WellFoundedInduction, TLAPS

LEMMA LeastElement ==
  ASSUME NEW T \in SUBSET Nat, T # {}
  PROVE  \E x \in T : \A y \in T : ~(y < x)
<1>1. IsWellFoundedOn(OpToRel(<, Nat), Nat)
  BY NatLessThanWellFounded, Zenon
<1>2. PICK x \in T : \A y \in T : <<y, x>> \notin OpToRel(<, Nat)
  BY <1>1, WFMin
<1>3. \A y \in T : ~(y < x)
  BY <1>2 DEF OpToRel
<1> QED BY <1>3

\* Induction on an interval.
LEMMA IntervalInduction ==
  ASSUME NEW n \in Nat, NEW S, 0 \in S, \A i \in 1 .. n : i - 1 \in S => i \in S
  PROVE  \A i \in 0 .. n : i \in S
<1> DEFINE T == {i \in 0 .. n : i \notin S}
<1> SUFFICES ASSUME T # {} PROVE FALSE
  OBVIOUS
<1>1. PICK x \in T : \A y \in T : ~(y < x)
  <2>1. T \in SUBSET Nat /\ T # {}
    OBVIOUS
  <2> HIDE DEF T
  <2> QED BY <2>1, LeastElement
<1>2. x \in 1 .. n /\ x - 1 \in 0 .. n /\ x - 1 < x
  BY <1>1
<1>3. x - 1 \in S
  BY <1>1, <1>2
<1> QED BY <1>1, <1>2, <1>3

\* F is the recursive function that starts with base.
Iterates(F, n, base, step) ==
  F = [i \in 0 .. n |-> IF i = 0 THEN base ELSE step[i][F[i - 1]]]

LEMMA IterationUnique ==
  ASSUME NEW n \in Nat, NEW base, NEW step, NEW F, NEW G,
         Iterates(F, n, base, step), Iterates(G, n, base, step)
  PROVE  F = G
<1> DEFINE S == {i \in 0 .. n : F[i] = G[i]}
<1>1. 0 \in S
  BY DEF Iterates
<1>2. ASSUME NEW i \in 1 .. n, i - 1 \in S PROVE i \in S
  <2>1. i \in 0 .. n /\ i # 0
    OBVIOUS
  <2>2. F[i] = step[i][F[i - 1]] /\ G[i] = step[i][G[i - 1]]
    BY <2>1 DEF Iterates
  <2> QED BY <1>2, <2>1, <2>2
<1>3. \A i \in 0 .. n : F[i] = G[i]
  <2> HIDE DEF S
  <2>1. \A i \in 0 .. n : i \in S
    BY <1>1, <1>2, IntervalInduction
  <2> QED BY <2>1 DEF S
<1> QED BY <1>3 DEF Iterates

LEMMA IterationExists ==
  ASSUME NEW n \in Nat, NEW X, NEW base \in X, NEW step \in [1 .. n -> [X -> X]]
  PROVE  \E F \in [0 .. n -> X] : Iterates(F, n, base, step)
<1> DEFINE Up(m, F) == F \in [0 .. m -> X] /\ Iterates(F, m, base, step)
           S == {m \in 0 .. n : \E F : Up(m, F)}
<1>1. 0 \in S
  <2> DEFINE F == [i \in 0 .. 0 |-> base]
  <2>1. Up(0, F)
    BY DEF Iterates
  <2> QED BY <2>1
<1>2. ASSUME NEW m \in 1 .. n, m - 1 \in S PROVE m \in S
  <2>1. PICK F : Up(m - 1, F)
    BY <1>2
  <2> DEFINE G == [i \in 0 .. m |-> IF i = m THEN step[m][F[m - 1]] ELSE F[i]]
  <2>2. m - 1 \in 0 .. m - 1 /\ F[m - 1] \in X /\ step[m] \in [X -> X]
    BY <2>1
  <2>3. G \in [0 .. m -> X]
    BY <2>1, <2>2
  <2>4. ASSUME NEW i \in 0 .. m PROVE G[i] = IF i = 0 THEN base ELSE step[i][G[i - 1]]
    <3>1. CASE i = m
      BY <3>1
    <3>2. CASE i # m
      <4>1. i \in 0 .. m - 1 /\ G[i] = F[i]
        BY <3>2
      <4>2. F[i] = IF i = 0 THEN base ELSE step[i][F[i - 1]]
        BY <2>1, <4>1 DEF Iterates
      <4>3. i # 0 => G[i - 1] = F[i - 1]
        BY <4>1
      <4> QED BY <4>1, <4>2, <4>3
    <3> QED BY <3>1, <3>2
  <2>5. Up(m, G)
    BY <2>3, <2>4, Zenon DEF Iterates
  <2> QED BY <2>5
<1>3. n \in S
  <2> HIDE DEF S
  <2>1. \A i \in 0 .. n : i \in S
    BY <1>1, <1>2, IntervalInduction
  <2> QED BY <2>1
<1> QED BY <1>3

-----------------------------------------------------------------------------
(* Sums over a set, as MapThenSumSet computes them.                          *)

\* Addition and its numbers, opened only where a proof needs arithmetic.
Plus(a, b) == a + b
Whole == Int

Picked(T) == CHOOSE x \in T : TRUE

\* g gives the sum of F over each member of U, a set of subsets that holds with a set
\* the one that is left of it.
Sums(g, F, U) ==
  g = [T \in U |-> IF T = {} THEN 0 ELSE Plus(F[Picked(T)], g[T \ {Picked(T)}])]

Total(F, S) == (CHOOSE g : Sums(g, F, SUBSET S))[S]

LEMMA Smaller ==
  ASSUME NEW S, IsFiniteSet(S), NEW x \in S
  PROVE  /\ IsFiniteSet(S \ {x}) /\ Cardinality(S) \in Nat /\ Cardinality(S \ {x}) \in Nat
         /\ Cardinality(S \ {x}) = Cardinality(S) - 1
BY FS_RemoveElement, FS_CardinalityType

\* Induction on a finite set's subsets by their size.
LEMMA SubsetInduction ==
  ASSUME NEW S, IsFiniteSet(S), NEW Q, {} \in Q,
         \A T \in SUBSET S : T # {} /\ (\A x \in T : T \ {x} \in Q) => T \in Q
  PROVE  SUBSET S \subseteq Q
<1>1. PICK n \in Nat : n = Cardinality(S)
  BY FS_CardinalityType
<1> DEFINE K == {k \in 0 .. n : \A T \in SUBSET S : Cardinality(T) = k => T \in Q}
<1>2. \A T \in SUBSET S : IsFiniteSet(T) /\ Cardinality(T) \in 0 .. n
  BY <1>1, FS_Subset, FS_CardinalityType
<1>3. 0 \in K
  BY <1>2, FS_EmptySet
<1>4. ASSUME NEW k \in 1 .. n, k - 1 \in K PROVE k \in K
  <2> SUFFICES ASSUME NEW T \in SUBSET S, Cardinality(T) = k PROVE T \in Q
    OBVIOUS
  <2>1. \A x \in T : T \ {x} \in SUBSET S /\ Cardinality(T \ {x}) = k - 1
    BY <1>2, Smaller
  <2>2. \A x \in T : T \ {x} \in Q
    BY <1>4, <2>1
  <2>3. T # {}
    <3>1. Cardinality({}) = 0 /\ k # 0
      BY FS_EmptySet
    <3> QED BY <3>1
  <2> QED BY <1>4, <2>2, <2>3
<1>5. \A k \in 0 .. n : k \in K
  <2> HIDE DEF K
  <2> QED BY <1>3, <1>4, IntervalInduction
<1> QED BY <1>2, <1>5

LEMMA SumOf ==
  ASSUME NEW U, NEW g, NEW F, Sums(g, F, U), NEW T \in U
  PROVE  g[T] = IF T = {} THEN 0 ELSE Plus(F[Picked(T)], g[T \ {Picked(T)}])
BY DEF Sums

LEMMA SumOfNone ==
  ASSUME NEW S, NEW g, NEW F, Sums(g, F, SUBSET S)
  PROVE  g[{}] = 0
<1>1. {} \in SUBSET S
  OBVIOUS
<1> QED BY <1>1, SumOf

LEMMA PickedIn == \A T : T # {} => Picked(T) \in T
BY DEF Picked

\* Every function has its sums.
LEMMA SumsExist ==
  ASSUME NEW S, IsFiniteSet(S), NEW F
  PROVE  \E g : Sums(g, F, SUBSET S)
<1>1. PICK n \in Nat : n = Cardinality(S)
  BY FS_CardinalityType
<1> DEFINE U(k) == {T \in SUBSET S : Cardinality(T) <= k}
           K == {k \in 0 .. n : \E g : Sums(g, F, U(k))}
<1>2. \A T \in SUBSET S : IsFiniteSet(T) /\ Cardinality(T) \in 0 .. n
  BY <1>1, FS_Subset, FS_CardinalityType
<1>3. 0 \in K
  <2> DEFINE g == [T \in U(0) |-> 0]
  <2>1. \A T \in U(0) : T = {}
    BY <1>2, FS_EmptySet
  <2>2. Sums(g, F, U(0))
    BY <2>1 DEF Sums
  <2>3. \E f : Sums(f, F, U(0))
    <3> HIDE DEF g
    <3> QED BY <2>2
  <2>4. 0 \in 0 .. n
    BY <1>1
  <2> HIDE DEF U
  <2> QED BY <2>3, <2>4
<1>4. ASSUME NEW k \in 1 .. n, k - 1 \in K PROVE k \in K
  <2>1. PICK g : Sums(g, F, U(k - 1))
    BY <1>4
  <2> DEFINE h == [T \in U(k) |-> IF T = {} THEN 0 ELSE Plus(F[Picked(T)], g[T \ {Picked(T)}])]
  <2>2. U(k - 1) \subseteq U(k)
    BY <1>2
  <2>3. ASSUME NEW T \in U(k), T # {} PROVE T \ {Picked(T)} \in U(k - 1)
    <3>1. Picked(T) \in T /\ IsFiniteSet(T) /\ Cardinality(T) \in Nat
      BY <1>2, <2>3, PickedIn
    <3> QED BY <3>1, Smaller
  <2> HIDE DEF U
  <2>4. \A T \in U(k - 1) : h[T] = g[T]
    <3> SUFFICES ASSUME NEW T \in U(k - 1) PROVE h[T] = g[T]
      OBVIOUS
    <3>1. g[T] = IF T = {} THEN 0 ELSE Plus(F[Picked(T)], g[T \ {Picked(T)}])
      BY <2>1, SumOf
    <3> QED BY <2>2, <3>1
  <2>5. ASSUME NEW T \in U(k) PROVE h[T] = IF T = {} THEN 0 ELSE Plus(F[Picked(T)], h[T \ {Picked(T)}])
    BY <2>3, <2>4
  <2>6. Sums(h, F, U(k))
    <3>1. h = [T \in U(k) |-> h[T]]
      OBVIOUS
    <3> HIDE DEF h
    <3> QED BY <2>5, <3>1, Zenon DEF Sums
  <2> QED BY <2>6
<1>5. n \in K
  <2> HIDE DEF K
  <2>1. \A k \in 0 .. n : k \in K
    BY <1>3, <1>4, IntervalInduction
  <2> QED BY <2>1
<1>6. U(n) = SUBSET S
  BY <1>2
<1> QED BY <1>5, <1>6

\* Sums depend on the elements summed only.
LEMMA SumsAgree ==
  ASSUME NEW S, NEW T \in SUBSET S, IsFiniteSet(T), NEW F, NEW G, \A x \in T : F[x] = G[x],
         NEW g, NEW h, Sums(g, F, SUBSET S), Sums(h, G, SUBSET T)
  PROVE  \A V \in SUBSET T : g[V] = h[V]
<1> DEFINE Q == {V \in SUBSET T : g[V] = h[V]}
<1>1. {} \in Q
  BY SumOfNone
<1>2. ASSUME NEW V \in SUBSET T, V # {}, \A x \in V : V \ {x} \in Q PROVE V \in Q
  <2>1. Picked(V) \in V
    BY <1>2, PickedIn
  <2>2. g[V] = Plus(F[Picked(V)], g[V \ {Picked(V)}]) /\ h[V] = Plus(G[Picked(V)], h[V \ {Picked(V)}])
    BY <1>2, SumOf
  <2>3. g[V \ {Picked(V)}] = h[V \ {Picked(V)}]
    BY <1>2, <2>1
  <2> QED BY <2>1, <2>2, <2>3
<1>3. SUBSET T \subseteq Q
  <2> HIDE DEF Q
  <2> QED BY <1>1, <1>2, SubsetInduction
<1> QED BY <1>3

LEMMA SumsRestrict ==
  ASSUME NEW S, NEW T \in SUBSET S, IsFiniteSet(T), NEW F,
         NEW g, NEW h, Sums(g, F, SUBSET S), Sums(h, F, SUBSET T)
  PROVE  g[T] = h[T]
<1> DEFINE Q == {V \in SUBSET T : g[V] = h[V]}
<1>1. {} \in Q
  BY SumOfNone
<1>2. ASSUME NEW V \in SUBSET T, V # {}, \A x \in V : V \ {x} \in Q PROVE V \in Q
  <2>1. Picked(V) \in V
    BY <1>2, PickedIn
  <2>2. g[V] = Plus(F[Picked(V)], g[V \ {Picked(V)}]) /\ h[V] = Plus(F[Picked(V)], h[V \ {Picked(V)}])
    BY <1>2, SumOf
  <2>3. g[V \ {Picked(V)}] = h[V \ {Picked(V)}]
    BY <1>2, <2>1
  <2> QED BY <2>1, <2>2, <2>3
<1>3. SUBSET T \subseteq Q
  <2> HIDE DEF Q
  <2> QED BY <1>1, <1>2, SubsetInduction
<1> QED BY <1>3

LEMMA SumsAreIntegers ==
  ASSUME NEW S, IsFiniteSet(S), NEW F, \A x \in S : F[x] \in Whole,
         NEW g, Sums(g, F, SUBSET S)
  PROVE  \A T \in SUBSET S : g[T] \in Whole
<1> DEFINE Q == {T \in SUBSET S : g[T] \in Whole}
<1>1. {} \in Q
  BY SumOfNone DEF Whole
<1>2. ASSUME NEW T \in SUBSET S, T # {}, \A x \in T : T \ {x} \in Q PROVE T \in Q
  <2> DEFINE y == Picked(T)
  <2>1. y \in T
    BY <1>2, PickedIn
  <2>2. g[T] = Plus(F[y], g[T \ {y}])
    BY <1>2, SumOf
  <2> HIDE DEF y
  <2>3. F[y] \in Whole /\ g[T \ {y}] \in Whole
    BY <1>2, <2>1
  <2> QED BY <2>2, <2>3 DEF Plus, Whole
<1>3. SUBSET S \subseteq Q
  <2> HIDE DEF Q
  <2> QED BY <1>1, <1>2, SubsetInduction
<1> QED BY <1>3

\* Whichever element comes first, the sum is the same.
LEMMA SumsCommute ==
  ASSUME NEW S, IsFiniteSet(S), NEW F, \A x \in S : F[x] \in Whole,
         NEW g, Sums(g, F, SUBSET S)
  PROVE  \A T \in SUBSET S : \A x \in T : g[T] = Plus(F[x], g[T \ {x}])
<1> DEFINE Q == {T \in SUBSET S : \A x \in T : g[T] = Plus(F[x], g[T \ {x}])}
<1>1. {} \in Q
  OBVIOUS
<1>2. ASSUME NEW T \in SUBSET S, T # {}, \A x \in T : T \ {x} \in Q PROVE T \in Q
  <2> DEFINE y == Picked(T)
  <2>1. y \in T
    BY <1>2, PickedIn
  <2>2. g[T] = Plus(F[y], g[T \ {y}])
    BY <1>2, SumOf
  <2> HIDE DEF y
  <2>3. \A x \in T : \A z \in T \ {x} : g[T \ {x}] = Plus(F[z], g[(T \ {x}) \ {z}])
    BY <1>2
  <2>4. ASSUME NEW x \in T, x # y PROVE g[T] = Plus(F[x], g[T \ {x}])
    <3> DEFINE r == g[(T \ {x}) \ {y}]
    <3>1. (T \ {y}) \ {x} = (T \ {x}) \ {y}
      OBVIOUS
    <3>2. x \in T \ {y} /\ y \in T \ {x}
      BY <2>1, <2>4
    <3>3. g[T \ {y}] = Plus(F[x], r) /\ g[T \ {x}] = Plus(F[y], r)
      BY <1>2, <2>1, <2>3, <3>1, <3>2
    <3>4. r \in Whole /\ F[x] \in Whole /\ F[y] \in Whole
      <4>1. (T \ {x}) \ {y} \in SUBSET S
        OBVIOUS
      <4>2. r \in Whole
        BY <4>1, SumsAreIntegers
      <4> QED BY <2>1, <4>2
    <3> HIDE DEF r
    <3> QED BY <2>2, <3>3, <3>4 DEF Plus, Whole
  <2>5. \A x \in T : g[T] = Plus(F[x], g[T \ {x}])
    BY <2>2, <2>4
  <2> QED BY <2>5
<1>3. SUBSET S \subseteq Q
  <2> HIDE DEF Q
  <2> QED BY <1>1, <1>2, SubsetInduction
<1> QED BY <1>3

-----------------------------------------------------------------------------
(* What a proof needs to know of a total.                                    *)

LEMMA TotalIsSum ==
  ASSUME NEW S, IsFiniteSet(S), NEW F
  PROVE  \E g : Sums(g, F, SUBSET S) /\ Total(F, S) = g[S]
<1> DEFINE g == CHOOSE f : Sums(f, F, SUBSET S)
<1>1. Sums(g, F, SUBSET S)
  BY SumsExist
<1>2. Total(F, S) = g[S]
  BY DEF Total
<1> HIDE DEF g
<1> QED BY <1>1, <1>2

LEMMA TotalEmpty == \A F : Total(F, {}) = 0
<1> TAKE F
<1>1. IsFiniteSet({})
  BY FS_EmptySet
<1>2. PICK g : Sums(g, F, SUBSET {}) /\ Total(F, {}) = g[{}]
  BY <1>1, TotalIsSum
<1> QED BY <1>2, SumOfNone

LEMMA TotalInt ==
  ASSUME NEW S, IsFiniteSet(S), NEW F, \A x \in S : F[x] \in Whole
  PROVE  Total(F, S) \in Whole
<1>1. PICK g : Sums(g, F, SUBSET S) /\ Total(F, S) = g[S]
  BY TotalIsSum
<1>2. S \in SUBSET S
  OBVIOUS
<1> QED BY <1>1, <1>2, SumsAreIntegers

LEMMA TotalAgrees ==
  ASSUME NEW S, IsFiniteSet(S), NEW F, NEW G, \A x \in S : F[x] = G[x]
  PROVE  Total(F, S) = Total(G, S)
<1>1. PICK g : Sums(g, F, SUBSET S) /\ Total(F, S) = g[S]
  BY TotalIsSum
<1>2. PICK h : Sums(h, G, SUBSET S) /\ Total(G, S) = h[S]
  BY TotalIsSum
<1>3. Sums(g, F, SUBSET S) /\ Sums(h, G, SUBSET S) /\ S \in SUBSET S
  BY <1>1, <1>2
<1>4. \A V \in SUBSET S : g[V] = h[V]
  BY <1>3, SumsAgree
<1> QED BY <1>1, <1>2, <1>4

\* One element of a total, and the rest.
LEMMA TotalSplit ==
  ASSUME NEW S, IsFiniteSet(S), NEW F, \A x \in S : F[x] \in Whole, NEW e \in S
  PROVE  Total(F, S) = F[e] + Total(F, S \ {e})
<1>1. PICK g : Sums(g, F, SUBSET S) /\ Total(F, S) = g[S]
  BY TotalIsSum
<1>2. IsFiniteSet(S \ {e}) /\ S \ {e} \subseteq S
  BY FS_RemoveElement
<1>3. PICK h : Sums(h, F, SUBSET (S \ {e})) /\ Total(F, S \ {e}) = h[S \ {e}]
  BY <1>2, TotalIsSum
<1>4. g[S \ {e}] = h[S \ {e}]
  <2> DEFINE T == S \ {e}
  <2>1. T \subseteq S /\ IsFiniteSet(T) /\ Sums(h, F, SUBSET T)
    BY <1>2, <1>3
  <2> HIDE DEF T
  <2>2. g[T] = h[T]
    BY <1>1, <2>1, SumsRestrict
  <2> QED BY <2>2 DEF T
<1>5. g[S] = Plus(F[e], g[S \ {e}])
  <2> DEFINE T == S
  <2>1. T \in SUBSET S /\ e \in T
    OBVIOUS
  <2> HIDE DEF T
  <2>2. g[T] = Plus(F[e], g[T \ {e}])
    BY <1>1, <2>1, SumsCommute
  <2> QED BY <2>2 DEF T
<1> QED BY <1>1, <1>3, <1>4, <1>5 DEF Plus, Whole

\* Whatever function sums F, its value for S is the total.
LEMMA TotalOf ==
  ASSUME NEW S, IsFiniteSet(S), NEW F, NEW g, Sums(g, F, SUBSET S)
  PROVE  g[S] = Total(F, S)
<1>1. PICK h : Sums(h, F, SUBSET S) /\ Total(F, S) = h[S]
  BY TotalIsSum
<1>2. S \in SUBSET S
  OBVIOUS
<1>3. g[S] = h[S]
  BY <1>1, <1>2, SumsRestrict
<1> QED BY <1>1, <1>3

\* A part of what is summed is no more than the whole.
LEMMA TotalMonotone ==
  ASSUME NEW S, IsFiniteSet(S), NEW T \in SUBSET S, NEW F, \A x \in S : F[x] \in Nat
  PROVE  Total(F, T) <= Total(F, S)
<1> DEFINE D == S \ T
           Q == {V \in SUBSET D : Total(F, T) <= Total(F, T \cup V)}
<1>1. \A V \in SUBSET S : /\ IsFiniteSet(V) /\ \A x \in V : F[x] \in Whole
                          /\ Total(F, V) \in Int
  <2> SUFFICES ASSUME NEW V \in SUBSET S
               PROVE  /\ IsFiniteSet(V) /\ \A x \in V : F[x] \in Whole
                      /\ Total(F, V) \in Int
    OBVIOUS
  <2>1. IsFiniteSet(V) /\ \A x \in V : F[x] \in Whole
    BY FS_Subset DEF Whole
  <2>2. Total(F, V) \in Whole
    BY <2>1, TotalInt
  <2> QED BY <2>1, <2>2 DEF Whole
<1>2. {} \in Q
  <2>1. T \cup {} = T /\ Total(F, T) \in Int
    BY <1>1
  <2> QED BY <2>1
<1>3. ASSUME NEW V \in SUBSET D, V # {}, \A x \in V : V \ {x} \in Q PROVE V \in Q
  <2>1. PICK x : x \in V
    BY <1>3
  <2> DEFINE W == T \cup V
             R == T \cup (V \ {x})
  <2>2. W \ {x} = R /\ x \in W /\ W \in SUBSET S /\ R \in SUBSET S /\ x \in S
    BY <2>1
  <2>3. Total(F, T) <= Total(F, R)
    BY <1>3, <2>1
  <2> HIDE DEF W, R
  <2>4. Total(F, W) = F[x] + Total(F, W \ {x})
    <3>1. IsFiniteSet(W) /\ \A y \in W : F[y] \in Whole
      BY <1>1, <2>2
    <3> QED BY <2>2, <3>1, TotalSplit
  <2>5. F[x] \in Nat /\ Total(F, R) \in Int /\ Total(F, T) \in Int /\ Total(F, W) \in Int
    BY <1>1, <2>2
  <2>6. Total(F, T) <= Total(F, W)
    <3>1. Total(F, W \ {x}) = Total(F, R)
      BY <2>2, Zenon
    <3> QED BY <2>3, <2>4, <2>5, <3>1
  <2> QED BY <2>6 DEF W
<1>4. D \in SUBSET D /\ IsFiniteSet(D)
  BY FS_Subset
<1>5. D \in Q
  <2> HIDE DEF D, Q
  <2>1. SUBSET D \subseteq Q
    BY <1>2, <1>3, <1>4, SubsetInduction
  <2> QED BY <1>4, <2>1
<1>6. T \cup D = S
  OBVIOUS
<1> QED BY <1>5, <1>6
=============================================================================
