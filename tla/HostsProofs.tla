---------------------------- MODULE HostsProofs ----------------------------
(***************************************************************************)
(* Proofs about the hosts page, for any URLs, counters and number of       *)
(* entries, and the lemmas about arrays that the proofs about the pages    *)
(* share: what the sums, filters and stable sorts of Lists and Hosts       *)
(* return.  WebPagesProofs puts them together with the other pages.        *)
(***************************************************************************)
EXTENDS WebPages, FiniteSetTheorems, TLAPS

-----------------------------------------------------------------------------
(* Finite sets in an order: what the operators of Lists return.            *)

\* A strict order of the members of S.
IsOrder(S, order) ==
    /\ \A x \in S : <<x, x>> \notin order
    /\ \A x, y, z \in S : <<x, y>> \in order /\ <<y, z>> \in order => <<x, z>> \in order
    /\ \A x, y \in S : x # y => <<x, y>> \in order \/ <<y, x>> \in order

Before(S, order, x) == {y \in S : <<y, x>> \in order}
Rank(S, order) == [x \in S |-> Cardinality(Before(S, order, x)) + 1]

LEMMA RankRises ==
    ASSUME NEW S, NEW order, IsFiniteSet(S), IsOrder(S, order),
           NEW x \in S, NEW y \in S, <<x, y>> \in order
    PROVE  Rank(S, order)[x] < Rank(S, order)[y]
<1>1. Before(S, order, x) \in SUBSET Before(S, order, y)
    BY DEF IsOrder, Before
<1>2. x \in Before(S, order, y) /\ x \notin Before(S, order, x)
    BY DEF IsOrder, Before
<1>3. Before(S, order, y) \in SUBSET S
    BY DEF Before
<1>4. IsFiniteSet(Before(S, order, y))
    BY <1>3, FS_Subset
<1>5. /\ IsFiniteSet(Before(S, order, x))
      /\ Cardinality(Before(S, order, x)) <= Cardinality(Before(S, order, y))
      /\ Cardinality(Before(S, order, x)) # Cardinality(Before(S, order, y))
    BY <1>1, <1>2, <1>4, FS_Subset
<1>6. Cardinality(Before(S, order, x)) \in Nat /\ Cardinality(Before(S, order, y)) \in Nat
    BY <1>4, <1>5, FS_CardinalityType
<1> QED
    BY <1>5, <1>6 DEF Rank

LEMMA RankIsABijection ==
    ASSUME NEW S, NEW order, IsFiniteSet(S), IsOrder(S, order)
    PROVE  /\ Cardinality(S) \in Nat
           /\ Rank(S, order) \in [S -> 1..Cardinality(S)]
           /\ \A k \in 1..Cardinality(S) : \E x \in S : Rank(S, order)[x] = k
<1> DEFINE n == Cardinality(S)  r == Rank(S, order)
<1>1. n \in Nat
    BY FS_CardinalityType
<1>2. r \in [S -> 1..n]
  <2>1. SUFFICES ASSUME NEW x \in S PROVE Cardinality(Before(S, order, x)) + 1 \in 1..n
      BY <2>1 DEF Rank
  <2>2. Before(S, order, x) \in SUBSET S /\ x \notin Before(S, order, x)
      BY DEF Before, IsOrder
  <2>3. /\ IsFiniteSet(Before(S, order, x))
        /\ Cardinality(Before(S, order, x)) <= n
        /\ Cardinality(Before(S, order, x)) # n
      BY <2>2, FS_Subset
  <2>4. Cardinality(Before(S, order, x)) \in Nat
      BY <2>3, FS_CardinalityType
  <2> QED
      BY <2>3, <2>4, <1>1
<1>3. \A x, y \in S : r[x] = r[y] => x = y
  <2>1. SUFFICES ASSUME NEW x \in S, NEW y \in S, x # y PROVE r[x] # r[y]
      OBVIOUS
  <2>2. r[x] < r[y] \/ r[y] < r[x]
      BY <2>1, RankRises DEF IsOrder
  <2>3. r[x] \in Nat /\ r[y] \in Nat
      BY <1>1, <1>2
  <2> HIDE DEF r
  <2> QED
      BY <2>2, <2>3
<1> HIDE DEF r
<1>4. r \in Injection(S, 1..n)
    BY <1>2, <1>3 DEF Injection, IsInjective
<1>5. IsFiniteSet(1..n) /\ Cardinality(1..n) = n
    BY <1>1, FS_Interval
<1>6. r \in Surjection(S, 1..n)
    BY <1>4, <1>5, FS_Injection
<1>7. \A k \in 1..n : \E x \in S : r[x] = k
    BY <1>6 DEF Surjection
<1> QED
    BY <1>1, <1>2, <1>7 DEF r

LEMMA SameCardinality == \A S : StatsRules!Cardinality(S) = Cardinality(S)
BY DEF Cardinality, StatsRules!Cardinality, IsFiniteSet, StatsRules!IsFiniteSet

\* A finite set that is ordered can be put in order: InOrder lists each member
\* once, the earlier before the later.
LEMMA InOrderIsInOrder ==
    ASSUME NEW S, NEW order, IsFiniteSet(S), IsOrder(S, order),
           NEW p, p = StatsRules!InOrder(S, order)
    PROVE  /\ Cardinality(S) \in Nat
           /\ p \in [1..Cardinality(S) -> S]
           /\ \A i, j \in 1..Cardinality(S) : i < j => <<p[i], p[j]>> \in order
           /\ \A i, j \in 1..Cardinality(S) : p[i] = p[j] => i = j
           /\ \A x \in S : \E i \in 1..Cardinality(S) : p[i] = x
<1> DEFINE n == Cardinality(S)  r == Rank(S, order)
           q == [k \in 1..n |-> CHOOSE x \in S : r[x] = k]
<1>1. n \in Nat /\ r \in [S -> 1..n] /\ \A k \in 1..n : \E x \in S : r[x] = k
    BY RankIsABijection
<1>2. \A k \in 1..n : q[k] \in S /\ r[q[k]] = k
    BY <1>1
<1>3. q \in [1..n -> S]
    BY <1>2
<1>4. \A i, j \in 1..n : i < j => <<q[i], q[j]>> \in order
  <2>1. SUFFICES ASSUME NEW i \in 1..n, NEW j \in 1..n, i < j PROVE <<q[i], q[j]>> \in order
      OBVIOUS
  <2>2. q[i] \in S /\ q[j] \in S /\ r[q[i]] = i /\ r[q[j]] = j
      BY <1>2
  <2> HIDE DEF q
  <2>3. CASE <<q[j], q[i]>> \in order
    <3>1. r[q[j]] < r[q[i]]
        BY <2>2, <2>3, RankRises
    <3> HIDE DEF r, n
    <3> QED
        BY <2>1, <2>2, <3>1, <1>1
  <2>4. CASE q[i] = q[j]
    <3> HIDE DEF r, n
    <3> QED
      BY <2>1, <2>2, <2>4, <1>1
  <2> QED
      BY <2>2, <2>3, <2>4 DEF IsOrder
<1> HIDE DEF q, n, r
<1>5. /\ p \in [1..n -> S]
      /\ \A i, j \in 1..n : i < j => <<p[i], p[j]>> \in order
    BY <1>3, <1>4 , SameCardinality DEF StatsRules!InOrder, n
<1>6. \A i, j \in 1..n : p[i] = p[j] => i = j
  <2>1. SUFFICES ASSUME NEW i \in 1..n, NEW j \in 1..n, i < j PROVE p[i] # p[j]
      BY <1>1
  <2> QED
      BY <2>1, <1>5 DEF IsOrder
<1>7. \A x \in S : \E i \in 1..n : p[i] = x
  <2>1. p \in Injection(1..n, S)
      BY <1>5, <1>6 DEF Injection, IsInjective
  <2>2. Cardinality(1..n) = Cardinality(S)
      BY <1>1, FS_Interval DEF n
  <2>3. p \in Surjection(1..n, S)
      BY <2>1, <2>2, FS_Injection
  <2> QED
      BY <2>3 DEF Surjection
<1> QED
    BY <1>1, <1>5, <1>6, <1>7 DEF n

-----------------------------------------------------------------------------
(* What the pages do with arrays.                                          *)

LEMMA PlacesAreFinite ==
    ASSUME NEW n \in Nat, NEW T, T \subseteq 1..n
    PROVE  IsFiniteSet(T) /\ T \subseteq Nat
<1> DEFINE D == 1..n
<1>1. IsFiniteSet(D)
    BY FS_Interval
<1>2. T \in SUBSET D /\ D \subseteq Nat
    OBVIOUS
<1> HIDE DEF D
<1> QED
    BY <1>1, <1>2, FS_Subset

\* p lists the c places T, from the first to the last.
Ascends(p, c, T) ==
    /\ c \in Nat /\ p \in [1..c -> T]
    /\ \A i, j \in 1..c : i < j => p[i] < p[j]
    /\ \A i, j \in 1..c : p[i] = p[j] => i = j
    /\ \A x \in T : \E i \in 1..c : p[i] = x

\* Places in an array, in ascending order.
LEMMA AscendingIsInOrder ==
    ASSUME NEW T, IsFiniteSet(T), T \subseteq Nat
    PROVE  Ascends(StatsRules!Ascending(T), Cardinality(T), T)
<1> DEFINE order == {q \in T \X T : q[1] < q[2]}  p == StatsRules!Ascending(T)
<1>1. \A x, y \in T : <<x, y>> \in order <=> x < y
    OBVIOUS
<1>2. p = StatsRules!InOrder(T, order)
    BY DEF StatsRules!Ascending
<1> HIDE DEF order, p
<1>3. IsOrder(T, order)
    BY <1>1 DEF IsOrder
<1>4. /\ Cardinality(T) \in Nat
      /\ p \in [1..Cardinality(T) -> T]
      /\ \A i, j \in 1..Cardinality(T) : i < j => <<p[i], p[j]>> \in order
      /\ \A i, j \in 1..Cardinality(T) : p[i] = p[j] => i = j
      /\ \A x \in T : \E i \in 1..Cardinality(T) : p[i] = x
    BY <1>2, <1>3, InOrderIsInOrder
<1>5. \A i, j \in 1..Cardinality(T) : i < j => p[i] < p[j]
    BY <1>1, <1>4
<1> HIDE DEF order
<1> QED
    BY <1>4, <1>5 DEF Ascends, p

\* Of some places there is a first.
LEMMA FirstPlace ==
    ASSUME NEW T, IsFiniteSet(T), T \subseteq Nat, T # {}
    PROVE  \E i \in T : \A j \in T : i <= j
<1>1. PICK p, c : Ascends(p, c, T)
    BY AscendingIsInOrder
<1>2. PICK x \in T : TRUE
    OBVIOUS
<1>3. 1 \in 1..c /\ p[1] \in T
    BY <1>1, <1>2 DEF Ascends
<1>4. \A y \in T : p[1] <= y
  <2>1. TAKE y \in T
  <2>2. PICK i \in 1..c : p[i] = y
      BY <1>1 DEF Ascends
  <2>3. i = 1 \/ p[1] < p[i]
      BY <1>1, <1>3 DEF Ascends
  <2>4. p[1] \in Nat /\ y \in Nat
      BY <1>3
  <2> QED
      BY <2>2, <2>3, <2>4
<1> QED
    BY <1>3, <1>4

\* filter takes the places where it keeps, in their order.
Picked(s, p, c) == [k \in 1..c |-> s[p[k]]]

LEMMA PickedInOrder ==
    ASSUME NEW s, NEW T, IsFiniteSet(T), T \subseteq Nat
    PROVE  \E c, p : /\ Ascends(p, c, T)
                     /\ StatsRules!At(s, StatsRules!Ascending(T)) = Picked(s, p, c)
<1> DEFINE p == StatsRules!Ascending(T)  c == Cardinality(T)
<1>1. Ascends(p, c, T)
    BY AscendingIsInOrder
<1>2. StatsRules!At(s, p) = [k \in DOMAIN p |-> s[p[k]]]
    BY DEF StatsRules!At
<1> HIDE DEF c, p
<1>3. DOMAIN p = 1..c
    BY <1>1 DEF Ascends
<1>4. StatsRules!At(s, p) = Picked(s, p, c)
    BY <1>2, <1>3 DEF Picked
<1> QED
    BY <1>1, <1>4 DEF p

\* u has c members, those of S, each once.
Enumerates(u, c, S) ==
    /\ c \in Nat /\ DOMAIN u = 1..c /\ u = [k \in 1..c |-> u[k]]
    /\ \A k \in 1..c : u[k] \in S
    /\ \A x \in S : \E k \in 1..c : u[k] = x
    /\ \A j, k \in 1..c : u[j] = u[k] => j = k

\* The keys of a Map: each member once.
LEMMA UniquesAreUnique ==
    ASSUME NEW s, NEW n \in Nat, DOMAIN s = 1..n
    PROVE  \E c : Enumerates(StatsRules!Uniques(s), c, {s[i] : i \in 1..n})
<1> DEFINE T == {i \in 1..n : \A j \in 1..i - 1 : s[j] # s[i]}  u == StatsRules!Uniques(s)
<1>1. u = StatsRules!At(s, StatsRules!Ascending(T)) /\ T \subseteq 1..n
    BY DEF StatsRules!Uniques
<1> HIDE DEF u
<1>2. \A i \in T : i \in 1..n /\ \A j \in 1..i - 1 : s[j] # s[i]
    OBVIOUS
<1>3. \A i \in 1..n : \E k \in T : s[k] = s[i]
  <2>1. TAKE i \in 1..n
  <2> DEFINE same == {k \in 1..n : s[k] = s[i]}
  <2>2. PICK k \in same : \A j \in same : k <= j
      BY FirstPlace, PlacesAreFinite
  <2>3. k \in T
      BY <2>2
  <2> QED
      BY <2>2, <2>3
<1> HIDE DEF T
<1>4. PICK c, p : Ascends(p, c, T) /\ u = Picked(s, p, c)
  <2>1. IsFiniteSet(T) /\ T \subseteq Nat
      BY <1>1, PlacesAreFinite
  <2>2. PICK c, p : /\ Ascends(p, c, T)
                    /\ StatsRules!At(s, StatsRules!Ascending(T)) = Picked(s, p, c)
      BY <2>1, PickedInOrder
  <2> QED
      BY <1>1, <2>2
<1>5. \A k \in 1..c : u[k] = s[p[k]] /\ p[k] \in 1..n /\ p[k] \in T
    BY <1>1, <1>4 DEF Ascends, Picked
<1>6. \A j, k \in 1..c : u[j] = u[k] => j = k
  <2>1. SUFFICES ASSUME NEW j \in 1..c, NEW k \in 1..c, j < k PROVE u[j] # u[k]
      BY <1>4 DEF Ascends
  <2>2. p[j] \in 1..p[k] - 1
      BY <1>4, <1>5, <2>1 DEF Ascends
  <2> QED
      BY <1>2, <1>5, <2>2
<1>7. \A i \in 1..n : \E k \in 1..c : u[k] = s[i]
  <2>1. TAKE i \in 1..n
  <2>2. PICK x \in T : s[x] = s[i]
      BY <1>3
  <2>3. PICK k \in 1..c : p[k] = x
      BY <1>4 DEF Ascends
  <2> QED
      BY <1>5, <2>2, <2>3
<1>8. c \in Nat /\ DOMAIN u = 1..c /\ u = [k \in 1..c |-> u[k]]
    BY <1>4 DEF Ascends, Picked
<1>9. \A k \in 1..c : u[k] \in {s[i] : i \in 1..n}
    BY <1>5
<1>10. \A x \in {s[i] : i \in 1..n} : \E k \in 1..c : u[k] = x
    BY <1>7
<1>11. Enumerates(u, c, {s[i] : i \in 1..n})
    BY <1>6, <1>8, <1>9, <1>10 DEF Enumerates
<1> QED
    BY <1>11 DEF u

-----------------------------------------------------------------------------
(* The hosts: sums.                                                        *)

\* What holds of 0, and of n + 1 with n, holds of a number.  The set stands for
\* the formula: no induction theorem is needed, only that some counterexample
\* is the least.
LEMMA Inductive ==
    ASSUME NEW L \in Nat, NEW S, 0 \in S, \A n \in 0..L - 1 : n \in S => n + 1 \in S
    PROVE  L \in S /\ \A n \in 0..L : n \in S
<1> DEFINE T == {n \in 0..L : n \notin S}
<1>0. L \in 0..L
    OBVIOUS
<1> SUFFICES ASSUME T # {} PROVE FALSE
    BY <1>0
<1>1. IsFiniteSet(0..L)
    BY FS_Interval
<1>2. IsFiniteSet(T) /\ T \subseteq Nat
  <2>1. T \in SUBSET (0..L)
      OBVIOUS
  <2>2. 0..L \subseteq Nat
      OBVIOUS
  <2> HIDE DEF T
  <2> QED
      BY <1>1, <2>1, <2>2, FS_Subset
<1>3. PICK n \in T : \A k \in T : n <= k
  <2> HIDE DEF T
  <2> QED
      BY <1>2, FirstPlace
<1>4. n # 0 /\ n - 1 \in 0..L - 1 /\ n - 1 \notin T
    BY <1>3
<1> QED
    BY <1>3, <1>4

\* f goes from base on, by step.
Iterates(f, X, base, L, step) ==
    /\ f \in [0..L -> X] /\ f[0] = base
    /\ \A n \in 1..L : f[n] = step[<<f[n - 1], n>>]

\* A function that is defined step by step exists.
LEMMA Recursion ==
    ASSUME NEW X, NEW base \in X, NEW L \in Nat, NEW step \in [X \X (1..L) -> X]
    PROVE  \E f : Iterates(f, X, base, L, step)
<1> DEFINE Good(f, m) == f[0] = base /\ \A n \in 1..m : f[n] = step[<<f[n - 1], n>>]
           S == {m \in 0..L : \E f \in [0..m -> X] : Good(f, m)}
<1>1. 0 \in S
  <2> DEFINE f == [n \in 0..0 |-> base]
  <2>1. f \in [0..0 -> X] /\ Good(f, 0) /\ 0 \in 0..L
      OBVIOUS
  <2> HIDE DEF f, Good
  <2> QED
      BY <2>1
<1>2. ASSUME NEW m \in 0..L - 1, m \in S PROVE m + 1 \in S
  <2>1. PICK f \in [0..m -> X] : Good(f, m)
      BY <1>2
  <2> DEFINE g == [n \in 0..m + 1 |-> IF n <= m THEN f[n] ELSE step[<<f[m], m + 1>>]]
  <2>2. step[<<f[m], m + 1>>] \in X
    <3>1. f[m] \in X /\ m + 1 \in 1..L
        OBVIOUS
    <3>2. <<f[m], m + 1>> \in X \X (1..L)
        BY <3>1
    <3> QED
        BY <3>2
  <2>3. g \in [0..m + 1 -> X]
      BY <2>2
  <2>4. \A n \in 0..m : g[n] = f[n]
      OBVIOUS
  <2>5. g[m + 1] = step[<<f[m], m + 1>>]
      OBVIOUS
  <2> HIDE DEF g
  <2>6. Good(g, m + 1)
    <3>1. g[0] = base
        BY <2>1, <2>4
    <3>2. ASSUME NEW n \in 1..m + 1 PROVE g[n] = step[<<g[n - 1], n>>]
      <4>1. CASE n = m + 1
          BY <2>4, <2>5, <4>1
      <4>2. CASE n \in 1..m
        <5>1. n - 1 \in 0..m /\ n \in 0..m
            BY <4>2
        <5> QED
            BY <2>1, <2>4, <4>2, <5>1
      <4> QED
          BY <4>1, <4>2
    <3> QED
        BY <3>1, <3>2
  <2> QED
      BY <2>3, <2>6
<1> HIDE DEF S
<1>3. L \in S
    BY <1>1, <1>2, Inductive
<1> QED
    BY <1>3 DEF S, Iterates

\* An array of n members of X.
LEMMA LengthIs ==
    ASSUME NEW n \in Nat, NEW X, NEW v \in [1..n -> X]
    PROVE  v \in Seq(X) /\ Len(v) = n
OBVIOUS

\* f has the sums of the first members of v.
Adds(f, v, n) ==
    /\ f \in [0..n -> Nat] /\ f[0] = 0
    /\ \A k \in 1..n : f[k] = f[k - 1] + v[k]

LEMMA AddedAdds ==
    ASSUME NEW n \in Nat, NEW v \in [1..n -> Nat]
    PROVE  \E f : Adds(f, v, n) /\ Hosts!Added(v) = f[n]
<1> DEFINE Is(f) == f = [k \in 0..n |-> IF k = 0 THEN 0 ELSE f[k - 1] + v[k]]
<1>1. \E f : Is(f)
  <2> DEFINE step == [q \in Nat \X (1..n) |-> q[1] + v[q[2]]]
  <2>1. step \in [Nat \X (1..n) -> Nat]
      OBVIOUS
  <2>2. \A a \in Nat, k \in 1..n : step[<<a, k>>] = a + v[k]
      OBVIOUS
  <2> HIDE DEF step
  <2>3. PICK f \in [0..n -> Nat] : f[0] = 0 /\ \A k \in 1..n : f[k] = step[<<f[k - 1], k>>]
    <3>1. 0 \in Nat
        OBVIOUS
    <3>2. \E f : Iterates(f, Nat, 0, n, step)
        BY <2>1, <3>1, Recursion
    <3> QED
        BY <3>2 DEF Iterates
  <2>4. \A k \in 0..n : f[k] = IF k = 0 THEN 0 ELSE f[k - 1] + v[k]
    <3>1. TAKE k \in 0..n
    <3>2. k # 0 => f[k - 1] \in Nat /\ k \in 1..n
        BY <2>3
    <3> QED
        BY <2>2, <2>3, <3>2
  <2>5. Is(f)
      BY <2>4
  <2> QED
      BY <2>5
<1> DEFINE f == CHOOSE f : Is(f)
<1>2. Is(f)
    BY <1>1, Zenon
<1>3. Len(v) = n
    BY LengthIs
<1>4. Hosts!Added(v) = f[n]
    BY <1>3 DEF Hosts!Added
<1> HIDE DEF f
<1>5. DOMAIN f = 0..n /\ f[0] = 0 /\ \A k \in 1..n : f[k] = f[k - 1] + v[k]
    BY <1>2
<1>6. f = [k \in 0..n |-> f[k]]
    BY <1>2
<1> HIDE DEF Is
<1> DEFINE S == {k \in 0..n : f[k] \in Nat}
<1>7. \A k \in 0..n : k \in S
  <2>1. 0 \in S
      BY <1>5
  <2>2. ASSUME NEW k \in 0..n - 1, k \in S PROVE k + 1 \in S
    <3>1. k + 1 \in 1..n /\ (k + 1) - 1 = k /\ f[k] \in Nat
        BY <2>2
    <3>2. f[k + 1] = f[k] + v[k + 1] /\ v[k + 1] \in Nat
        BY <1>5, <3>1
    <3> QED
        BY <3>1, <3>2
  <2> HIDE DEF S
  <2> QED
      BY <2>1, <2>2, Inductive
<1>8. f \in [0..n -> Nat]
    BY <1>6, <1>7
<1> QED
    BY <1>4, <1>5, <1>8 DEF Adds

\* Arrays that are alike up to m have the same sums up to m.
LEMMA AddsAlike ==
    ASSUME NEW m \in Nat, NEW a, NEW b, NEW i, NEW j, NEW f, NEW g,
           i \in Nat, j \in Nat, m <= i, m <= j,
           Adds(f, a, i), Adds(g, b, j), \A k \in 1..m : a[k] = b[k]
    PROVE  f[m] = g[m]
<1> DEFINE S == {k \in 0..m : f[k] = g[k]}
<1>1. 0 \in S
    BY DEF Adds
<1>2. ASSUME NEW k \in 0..m - 1, k \in S PROVE k + 1 \in S
  <2>1. k + 1 \in 1..m /\ k + 1 \in 1..i /\ k + 1 \in 1..j /\ (k + 1) - 1 = k
      OBVIOUS
  <2>2. f[k + 1] = f[k] + a[k + 1] /\ g[k + 1] = g[k] + b[k + 1]
      BY <2>1 DEF Adds
  <2> QED
      BY <1>2, <2>1, <2>2
<1> HIDE DEF S
<1>3. m \in S
    BY <1>1, <1>2, Inductive
<1> QED
    BY <1>3 DEF S

\* The sum of the first m members.
UpTo(v, m) == Hosts!Added([k \in 1..m |-> v[k]])

HasSums(v, n) ==
    /\ UpTo(v, 0) = 0 /\ Hosts!Added(v) = UpTo(v, n) /\ Hosts!Added(v) \in Nat
    /\ \A m \in 0..n : UpTo(v, m) \in Nat
    /\ \A m \in 0..n - 1 : UpTo(v, m + 1) = UpTo(v, m) + v[m + 1]

LEMMA ArraysHaveSums ==
    ASSUME NEW n \in Nat, NEW v \in [1..n -> Nat]
    PROVE  HasSums(v, n)
<1> DEFINE first(m) == [k \in 1..m |-> v[k]]
<1>1. \A m \in 0..n : first(m) \in [1..m -> Nat] /\ \A k \in 1..m : first(m)[k] = v[k]
    OBVIOUS
<1>2. \A m : UpTo(v, m) = Hosts!Added(first(m))
    BY DEF UpTo
<1>3. v = first(n)
    OBVIOUS
<1> HIDE DEF first
<1>4. ASSUME NEW m \in 0..n PROVE \E f : Adds(f, first(m), m) /\ UpTo(v, m) = f[m]
  <2>1. first(m) \in [1..m -> Nat]
      BY <1>1
  <2>2. m \in Nat
      OBVIOUS
  <2> QED
      BY <1>2, <2>1, <2>2, AddedAdds
<1>5. ASSUME NEW m \in 0..n PROVE UpTo(v, m) \in Nat
  <2>1. PICK f : Adds(f, first(m), m) /\ UpTo(v, m) = f[m]
      BY <1>4
  <2>2. m \in 0..m
      OBVIOUS
  <2> QED
      BY <2>1, <2>2 DEF Adds
<1>6. UpTo(v, 0) = 0
  <2>1. 0 \in 0..n
      OBVIOUS
  <2>2. PICK f : Adds(f, first(0), 0) /\ UpTo(v, 0) = f[0]
      BY <1>4, <2>1
  <2> QED
      BY <2>2 DEF Adds
<1>7. ASSUME NEW m \in 0..n - 1 PROVE UpTo(v, m + 1) = UpTo(v, m) + v[m + 1]
  <2>1. PICK f : Adds(f, first(m), m) /\ UpTo(v, m) = f[m]
      BY <1>4
  <2>2. m + 1 \in 0..n /\ m + 1 \in 1..m + 1 /\ m <= m + 1 /\ m \in Nat /\ m + 1 \in Nat
      OBVIOUS
  <2>3. PICK g : Adds(g, first(m + 1), m + 1) /\ UpTo(v, m + 1) = g[m + 1]
      BY <1>4, <2>2
  <2>4. \A k \in 1..m : first(m)[k] = first(m + 1)[k]
      BY <1>1, <2>2
  <2>5. f[m] = g[m]
      BY <2>1, <2>2, <2>3, <2>4, AddsAlike
  <2>6. g[m + 1] = g[m] + first(m + 1)[m + 1]
      BY <2>2, <2>3 DEF Adds
  <2> QED
      BY <1>1, <2>1, <2>2, <2>3, <2>5, <2>6
<1>8. n \in 0..n
    OBVIOUS
<1> QED
    BY <1>2, <1>3, <1>5, <1>6, <1>7, <1>8 DEF HasSums

\* Sums are added up member by member.
LEMMA SumsAdd ==
    ASSUME NEW n \in Nat, NEW a \in [1..n -> Nat], NEW b \in [1..n -> Nat],
           NEW c \in [1..n -> Nat], \A k \in 1..n : c[k] = a[k] + b[k]
    PROVE  Hosts!Added(c) = Hosts!Added(a) + Hosts!Added(b)
<1> DEFINE S == {m \in 0..n : UpTo(c, m) = UpTo(a, m) + UpTo(b, m)}
<1>0. HasSums(a, n) /\ HasSums(b, n) /\ HasSums(c, n)
    BY ArraysHaveSums
<1>1. 0 \in S
    BY <1>0 DEF HasSums
<1>2. ASSUME NEW m \in 0..n - 1, m \in S PROVE m + 1 \in S
  <2>1. m + 1 \in 1..n /\ m + 1 \in 0..n /\ m \in 0..n
      OBVIOUS
  <2>2. /\ UpTo(a, m + 1) = UpTo(a, m) + a[m + 1] /\ UpTo(b, m + 1) = UpTo(b, m) + b[m + 1]
        /\ UpTo(c, m + 1) = UpTo(c, m) + c[m + 1]
      BY <1>0 DEF HasSums
  <2>3. UpTo(a, m) \in Nat /\ UpTo(b, m) \in Nat /\ UpTo(c, m) = UpTo(a, m) + UpTo(b, m)
      BY <1>0, <1>2, <2>1 DEF HasSums
  <2>4. c[m + 1] = a[m + 1] + b[m + 1] /\ a[m + 1] \in Nat /\ b[m + 1] \in Nat
      BY <2>1
  <2> QED
      BY <2>1, <2>2, <2>3, <2>4
<1> HIDE DEF S
<1>3. n \in S
    BY <1>1, <1>2, Inductive
<1> QED
    BY <1>0, <1>3 DEF S, HasSums

\* A sum of multiples.
LEMMA SumOfMultiples ==
    ASSUME NEW n \in Nat, NEW a \in [1..n -> Nat], NEW x \in Nat,
           NEW c \in [1..n -> Nat], \A k \in 1..n : c[k] = x * a[k]
    PROVE  Hosts!Added(c) = x * Hosts!Added(a)
<1> DEFINE S == {m \in 0..n : UpTo(c, m) = x * UpTo(a, m)}
<1>0. HasSums(a, n) /\ HasSums(c, n)
    BY ArraysHaveSums
<1>1. 0 \in S
  <2>1. UpTo(a, 0) = 0 /\ UpTo(c, 0) = 0 /\ x * 0 = 0 /\ 0 \in 0..n
      BY <1>0 DEF HasSums
  <2> QED
      BY <2>1
<1>2. ASSUME NEW m \in 0..n - 1, m \in S PROVE m + 1 \in S
  <2>1. m + 1 \in 1..n /\ m + 1 \in 0..n /\ m \in 0..n
      OBVIOUS
  <2>2. UpTo(a, m + 1) = UpTo(a, m) + a[m + 1] /\ UpTo(c, m + 1) = UpTo(c, m) + c[m + 1]
      BY <1>0 DEF HasSums
  <2>3. UpTo(a, m) \in Nat /\ UpTo(c, m) = x * UpTo(a, m)
      BY <1>0, <1>2, <2>1 DEF HasSums
  <2>4. c[m + 1] = x * a[m + 1] /\ a[m + 1] \in Nat
      BY <2>1
  <2>5. \A p, q \in Nat : x * (p + q) = x * p + x * q
      OBVIOUS
  <2> QED
      BY <2>1, <2>2, <2>3, <2>4, <2>5
<1> HIDE DEF S
<1>3. n \in S
    BY <1>1, <1>2, Inductive
<1> QED
    BY <1>0, <1>3 DEF S, HasSums

LEMMA SumsBelow ==
    ASSUME NEW n \in Nat, NEW a \in [1..n -> Nat], NEW b \in [1..n -> Nat],
           \A k \in 1..n : a[k] <= b[k]
    PROVE  Hosts!Added(a) <= Hosts!Added(b)
<1> DEFINE c == [k \in 1..n |-> b[k] - a[k]]
<1>1. c \in [1..n -> Nat] /\ \A k \in 1..n : b[k] = c[k] + a[k]
  <2>1. \A k \in 1..n : a[k] \in Nat /\ b[k] \in Nat
      OBVIOUS
  <2> QED
      BY <2>1
<1> HIDE DEF c
<1>2. Hosts!Added(b) = Hosts!Added(c) + Hosts!Added(a)
    BY <1>1, SumsAdd
<1>3. Hosts!Added(a) \in Nat /\ Hosts!Added(b) \in Nat /\ Hosts!Added(c) \in Nat
    BY <1>1, ArraysHaveSums DEF HasSums
<1> QED
    BY <1>2, <1>3

\* v with the members of T alone.
Only(v, n, T) == [k \in 1..n |-> IF k \in T THEN v[k] ELSE 0]
SumOf(v, n, T) == Hosts!Added(Only(v, n, T))

LEMMA OnlyIs ==
    ASSUME NEW n \in Nat, NEW v \in [1..n -> Nat], NEW T
    PROVE  /\ Only(v, n, T) \in [1..n -> Nat]
           /\ \A k \in 1..n : Only(v, n, T)[k] = IF k \in T THEN v[k] ELSE 0
           /\ SumOf(v, n, T) \in Nat
<1>1. Only(v, n, T) \in [1..n -> Nat]
  <2>1. \A k \in 1..n : (IF k \in T THEN v[k] ELSE 0) \in Nat
      OBVIOUS
  <2> QED
      BY <2>1 DEF Only
<1>2. \A k \in 1..n : Only(v, n, T)[k] = IF k \in T THEN v[k] ELSE 0
    BY DEF Only
<1>3. SumOf(v, n, T) \in Nat
    BY <1>1, ArraysHaveSums DEF SumOf, HasSums
<1> QED
    BY <1>1, <1>2, <1>3

LEMMA SumOfAll ==
    ASSUME NEW n \in Nat, NEW v \in [1..n -> Nat]
    PROVE  SumOf(v, n, 1..n) = Hosts!Added(v)
<1>1. Only(v, n, 1..n) = v
    BY DEF Only
<1> QED
    BY <1>1 DEF SumOf

\* W has the members of T and of U, which have none in common.
Parts(W, T, U) == W = T \cup U /\ T \cap U = {}

LEMMA SumOfUnion ==
    ASSUME NEW n \in Nat, NEW v \in [1..n -> Nat], NEW W, NEW T, NEW U, Parts(W, T, U)
    PROVE  SumOf(v, n, W) = SumOf(v, n, T) + SumOf(v, n, U)
<1>1. /\ Only(v, n, T) \in [1..n -> Nat] /\ Only(v, n, U) \in [1..n -> Nat]
      /\ Only(v, n, W) \in [1..n -> Nat]
    BY OnlyIs
<1>2. ASSUME NEW k \in 1..n PROVE Only(v, n, W)[k] = Only(v, n, T)[k] + Only(v, n, U)[k]
  <2>1. v[k] \in Nat
      OBVIOUS
  <2>2. /\ Only(v, n, T)[k] = IF k \in T THEN v[k] ELSE 0
        /\ Only(v, n, U)[k] = IF k \in U THEN v[k] ELSE 0
        /\ Only(v, n, W)[k] = IF k \in W THEN v[k] ELSE 0
      BY ONLY n \in Nat, v \in [1..n -> Nat], k \in 1..n, OnlyIs
  <2> QED
      BY <2>1, <2>2 DEF Parts
<1> QED
    BY <1>1, <1>2, SumsAdd DEF SumOf

LEMMA SumOfNone ==
    ASSUME NEW n \in Nat, NEW v \in [1..n -> Nat]
    PROVE  SumOf(v, n, {}) = 0
<1> DEFINE E == {}
<1>1. Parts(E, E, E)
    BY DEF Parts
<1> HIDE DEF E
<1>2. SumOf(v, n, E) = SumOf(v, n, E) + SumOf(v, n, E)
    BY <1>1, SumOfUnion
<1>3. SumOf(v, n, E) \in Nat
    BY OnlyIs
<1>5. \A q \in Nat : q = q + q => q = 0
    OBVIOUS
<1>6. SumOf(v, n, E) = 0
    BY <1>2, <1>3, <1>5
<1> QED
    BY <1>6 DEF E

LEMMA SumOfOne ==
    ASSUME NEW n \in Nat, NEW v \in [1..n -> Nat], NEW x \in 1..n
    PROVE  SumOf(v, n, {x}) = v[x]
<1> DEFINE a == Only(v, n, {x})
           S == {m \in 0..n : UpTo(a, m) = IF m < x THEN 0 ELSE v[x]}
<1>1. a \in [1..n -> Nat] /\ (\A k \in 1..n : a[k] = IF k = x THEN v[x] ELSE 0) /\ v[x] \in Nat
  <2>1. a \in [1..n -> Nat] /\ \A k \in 1..n : a[k] = IF k \in {x} THEN v[k] ELSE 0
      BY OnlyIs
  <2> HIDE DEF a
  <2> QED
      BY <2>1
<1> HIDE DEF a
<1>0. HasSums(a, n)
    BY <1>1, ArraysHaveSums
<1>2. 0 \in S
    BY <1>0 DEF HasSums
<1>3. ASSUME NEW m \in 0..n - 1, m \in S PROVE m + 1 \in S
  <2>1. m + 1 \in 1..n /\ m + 1 \in 0..n
      OBVIOUS
  <2>2. UpTo(a, m + 1) = UpTo(a, m) + a[m + 1]
      BY <1>0 DEF HasSums
  <2>3. UpTo(a, m) = IF m < x THEN 0 ELSE v[x]
      BY <1>3
  <2> QED
      BY <1>1, <2>1, <2>2, <2>3
<1> HIDE DEF S
<1>4. n \in S
    BY <1>2, <1>3, Inductive
<1>5. UpTo(a, n) = v[x]
    BY <1>4 DEF S
<1>6. Hosts!Added(a) = v[x]
    BY <1>0, <1>5 DEF HasSums
<1> QED
    BY <1>6 DEF SumOf, a

\* p lists c places of 1..n, those of all.
ListsPlaces(p, c, n, all) ==
    /\ c \in Nat /\ p \in [1..c -> 1..n] /\ all = {p[k] : k \in 1..c}
    /\ \A i, j \in 1..c : p[i] = p[j] => i = j

\* a has the members of v at those places.
Takes(a, v, p, c) == a \in [1..c -> Nat] /\ \A k \in 1..c : a[k] = v[p[k]]

\* The sum of some members in any order.
LEMMA SumOfListed ==
    ASSUME NEW n \in Nat, NEW v \in [1..n -> Nat], NEW c, NEW p, NEW all,
           ListsPlaces(p, c, n, all), NEW a, Takes(a, v, p, c)
    PROVE  Hosts!Added(a) = SumOf(v, n, all)
<1> DEFINE T(m) == {p[k] : k \in 1..m}
           S == {m \in 0..c : UpTo(a, m) = SumOf(v, n, T(m))}
<1>p. /\ c \in Nat /\ (\A k \in 1..c : p[k] \in 1..n) /\ all = {p[k] : k \in 1..c}
      /\ \A i, j \in 1..c : p[i] = p[j] => i = j
    BY DEF ListsPlaces
<1>a. a \in [1..c -> Nat]
    BY DEF Takes
<1>1. \A k \in 1..c : a[k] = v[p[k]] /\ p[k] \in 1..n
    BY <1>p DEF Takes
<1>2. T(0) = {}
    OBVIOUS
<1>3. ASSUME NEW m \in 0..c - 1
      PROVE  Parts(T(m + 1), T(m), {p[m + 1]})
  <2>0. c \in Nat
      BY <1>p
  <2>1. 1..m + 1 = (1..m) \cup {m + 1} /\ m + 1 \in 1..c
      BY <2>0
  <2>4. \A k \in 1..m : k \in 1..c /\ k # m + 1
      BY <2>0
  <2>2. T(m + 1) = T(m) \cup {p[m + 1]}
      BY <2>1
  <2>3. T(m) \cap {p[m + 1]} = {}
      BY <1>p, <2>1, <2>4
  <2> QED
      BY <2>2, <2>3 DEF Parts
<1> HIDE DEF T
<1>0. HasSums(a, c)
    BY <1>p, <1>a, ArraysHaveSums
<1>4. 0 \in S
  <2>1. SumOf(v, n, T(0)) = 0
      BY <1>2, SumOfNone
  <2>2. 0 \in 0..c
      BY <1>p
  <2> QED
      BY <1>0, <2>1, <2>2 DEF HasSums
<1>5. ASSUME NEW m \in 0..c - 1, m \in S PROVE m + 1 \in S
  <2>1. m + 1 \in 1..c /\ m + 1 \in 0..c
      BY <1>p
  <2>2. UpTo(a, m + 1) = UpTo(a, m) + a[m + 1]
      BY <1>0 DEF HasSums
  <2> DEFINE x == p[m + 1]  W == T(m + 1)  U == T(m)  V == {x}
  <2>3. x \in 1..n /\ a[m + 1] = v[x]
      BY <1>1, <2>1
  <2>6. Parts(W, U, V)
      BY <1>3
  <2> HIDE DEF x, W, U, V, S
  <2>4. SumOf(v, n, W) = SumOf(v, n, U) + SumOf(v, n, V)
      BY <2>6, SumOfUnion
  <2>5. SumOf(v, n, V) = v[x]
      BY ONLY n \in Nat, v \in [1..n -> Nat], <2>3, SumOfOne DEF V
  <2> QED
      BY <1>5, <2>1, <2>2, <2>3, <2>4, <2>5 DEF U, W, S
<1> HIDE DEF S
<1>6. c \in S
    BY <1>p, <1>4, <1>5, Inductive
<1>7. all = T(c)
    BY <1>p DEF T
<1> QED
    BY <1>0, <1>6, <1>7 DEF S, HasSums

\* The c groups of G share no member and have together those of all.
Divides(G, c, all) ==
    /\ \A i, j \in 1..c : i # j => G[i] \cap G[j] = {}
    /\ all = UNION {G[j] : j \in 1..c}

\* The sum of the sums of groups.
LEMMA SumOfGroups ==
    ASSUME NEW n \in Nat, NEW v \in [1..n -> Nat], NEW c \in Nat, NEW G, NEW all,
           Divides(G, c, all),
           NEW a \in [1..c -> Nat], \A j \in 1..c : a[j] = SumOf(v, n, G[j])
    PROVE  Hosts!Added(a) = SumOf(v, n, all)
<1> DEFINE T(m) == UNION {G[j] : j \in 1..m}
           S == {m \in 0..c : UpTo(a, m) = SumOf(v, n, T(m))}
<1>2. T(0) = {}
    OBVIOUS
<1>3. ASSUME NEW m \in 0..c - 1
      PROVE  Parts(T(m + 1), T(m), G[m + 1])
  <2>1. 1..m + 1 = (1..m) \cup {m + 1} /\ m + 1 \in 1..c
      BY ONLY c \in Nat, m \in 0..c - 1
  <2>2. \A j \in 1..m : j \in 1..c /\ j # m + 1
      BY ONLY c \in Nat, m \in 0..c - 1
  <2>3. T(m + 1) = T(m) \cup G[m + 1]
      BY <2>1
  <2>4. T(m) \cap G[m + 1] = {}
    <3>1. SUFFICES ASSUME NEW j \in 1..m PROVE G[j] \cap G[m + 1] = {}
        BY <3>1
    <3>2. j \in 1..c /\ j # m + 1
        BY <2>2
    <3> QED
        BY <2>1, <3>2 DEF Divides
  <2> QED
      BY <2>3, <2>4 DEF Parts
<1> HIDE DEF T
<1>0. HasSums(a, c)
    BY ArraysHaveSums
<1>4. 0 \in S
  <2>1. SumOf(v, n, T(0)) = 0
      BY <1>2, SumOfNone
  <2> QED
      BY <1>0, <2>1 DEF HasSums
<1>5. ASSUME NEW m \in 0..c - 1, m \in S PROVE m + 1 \in S
  <2>1. m + 1 \in 1..c /\ m + 1 \in 0..c
      OBVIOUS
  <2>2. UpTo(a, m + 1) = UpTo(a, m) + a[m + 1]
      BY <1>0 DEF HasSums
  <2>3. SumOf(v, n, T(m + 1)) = SumOf(v, n, T(m)) + SumOf(v, n, G[m + 1])
    <3> DEFINE W == T(m + 1)  U == T(m)  V == G[m + 1]
    <3>1. Parts(W, U, V)
        BY <1>3
    <3> HIDE DEF W, U, V
    <3> QED
        BY <3>1, SumOfUnion DEF W, U, V
  <2> QED
      BY <1>5, <2>1, <2>2, <2>3
<1> HIDE DEF S
<1>6. c \in S
    BY <1>4, <1>5, Inductive
<1>7. all = T(c)
    BY DEF Divides, T
<1> QED
    BY <1>0, <1>6, <1>7 DEF S, HasSums

\* The sum of two arrays, one after the other.
LEMMA SumOfBoth ==
    ASSUME NEW m \in Nat, NEW n \in Nat, NEW a \in [1..m -> Nat], NEW b \in [1..n -> Nat],
           NEW c \in [1..m + n -> Nat],
           \A k \in 1..m : c[k] = a[k], \A k \in 1..n : c[m + k] = b[k]
    PROVE  Hosts!Added(c) = Hosts!Added(a) + Hosts!Added(b)
<1> DEFINE S == {k \in 0..m : UpTo(c, k) = UpTo(a, k)}
           U == {k \in 0..n : UpTo(c, m + k) = Hosts!Added(a) + UpTo(b, k)}
<1>n. m + n \in Nat
    OBVIOUS
<1>0. HasSums(a, m) /\ HasSums(b, n) /\ HasSums(c, m + n)
    BY <1>n, ArraysHaveSums
<1>1. 0 \in S
    BY <1>0 DEF HasSums
<1>2. ASSUME NEW k \in 0..m - 1, k \in S PROVE k + 1 \in S
  <2>1. k + 1 \in 1..m /\ k + 1 \in 0..m /\ k \in 0..(m + n) - 1
      OBVIOUS
  <2>2. UpTo(a, k + 1) = UpTo(a, k) + a[k + 1] /\ UpTo(c, k + 1) = UpTo(c, k) + c[k + 1]
      BY <1>0, <2>1 DEF HasSums
  <2> QED
      BY <1>2, <2>1, <2>2
<1> HIDE DEF S
<1>3. m \in S
    BY <1>1, <1>2, Inductive
<1>4. UpTo(c, m) = Hosts!Added(a)
    BY <1>0, <1>3 DEF S, HasSums
<1>5. 0 \in U
  <2>1. Hosts!Added(a) \in Nat /\ UpTo(b, 0) = 0 /\ m + 0 = m
      BY <1>0 DEF HasSums
  <2> QED
      BY <1>4, <2>1
<1>6. ASSUME NEW k \in 0..n - 1, k \in U PROVE k + 1 \in U
  <2>1. /\ k + 1 \in 1..n /\ k + 1 \in 0..n /\ k \in 0..n /\ m + k \in 0..(m + n) - 1
        /\ (m + k) + 1 = m + (k + 1)
      OBVIOUS
  <2>2. UpTo(b, k + 1) = UpTo(b, k) + b[k + 1]
      BY <1>0 DEF HasSums
  <2>3. UpTo(c, (m + k) + 1) = UpTo(c, m + k) + c[(m + k) + 1]
      BY <1>0, <2>1 DEF HasSums
  <2>4. Hosts!Added(a) \in Nat /\ UpTo(b, k) \in Nat /\ b[k + 1] \in Nat
      BY <1>0, <2>1 DEF HasSums
  <2>5. c[(m + k) + 1] = b[k + 1] /\ UpTo(c, m + k) = Hosts!Added(a) + UpTo(b, k)
      BY <1>6, <2>1
  <2> QED
      BY <2>1, <2>2, <2>3, <2>4, <2>5
<1> HIDE DEF U
<1>7. n \in U
    BY <1>5, <1>6, Inductive
<1> QED
    BY <1>0, <1>7 DEF U, HasSums

-----------------------------------------------------------------------------
(* The hosts: samples and their statistics.                                *)

SumKeys == {"bytes", "dials", "failures", "weighted"}

ValueOf(key, s) == CASE key = "bytes" -> s.bytes [] key = "dials" -> s.dials
                     [] key = "failures" -> s.failures [] OTHER -> Hosts!Weighted(s)
ValuesOf(key, x) == [k \in DOMAIN x |-> ValueOf(key, x[k])]

LEMMA ValueIsANumber ==
    ASSUME Hosts!HostsAssumption, NEW s \in Stats, NEW key
    PROVE  ValueOf(key, s) \in Nat
<1>1. /\ s.bytes \in Nat /\ s.dials \in Nat /\ s.failures \in Nat /\ s.average \in Nat
      /\ s.last \in Nat
    BY DEF Hosts!HostsAssumption
<1>2. Hosts!MaxZero(s.dials - s.failures) \in Nat
    BY <1>1 DEF Hosts!MaxZero
<1>3. \A a, b \in Nat : a * b \in Nat
    OBVIOUS
<1>4. Hosts!Weighted(s) \in Nat
    BY <1>1, <1>2, <1>3 DEF Hosts!Weighted
<1> QED
    BY <1>1, <1>4 DEF ValueOf

LEMMA ValuesAreNumbers ==
    ASSUME Hosts!HostsAssumption, NEW n \in Nat, NEW x \in [1..n -> Stats], NEW key
    PROVE  /\ ValuesOf(key, x) \in [1..n -> Nat]
           /\ \A k \in 1..n : ValuesOf(key, x)[k] = ValueOf(key, x[k])
<1>1. \A k \in 1..n : ValueOf(key, x[k]) \in Nat
    BY ValueIsANumber
<1> QED
    BY <1>1 DEF ValuesOf

\* The counters of an aggregate are sums.
LEMMA StatsAreSums ==
    ASSUME NEW x, NEW key \in SumKeys
    PROVE  Hosts!SumStats(x)[key] = Hosts!Added(ValuesOf(key, x))
<1>1. Hosts!SumStats(x).bytes = Hosts!Added(ValuesOf("bytes", x))
    BY DEF Hosts!SumStats, Hosts!Total, Hosts!Mapped, ValuesOf, ValueOf
<1>2. Hosts!SumStats(x).dials = Hosts!Added(ValuesOf("dials", x))
    BY DEF Hosts!SumStats, Hosts!Total, Hosts!Mapped, ValuesOf, ValueOf
<1>3. Hosts!SumStats(x).failures = Hosts!Added(ValuesOf("failures", x))
    BY DEF Hosts!SumStats, Hosts!Total, Hosts!Mapped, ValuesOf, ValueOf
<1>4. Hosts!SumStats(x).weighted = Hosts!Added(ValuesOf("weighted", x))
    BY DEF Hosts!SumStats, Hosts!Total, Hosts!Mapped, ValuesOf, ValueOf
<1> QED
    BY <1>1, <1>2, <1>3, <1>4 DEF SumKeys

\* The first of the newest.
IsLatest(x, n, i) ==
    /\ i \in 1..n /\ \A j \in 1..n : x[j].last <= x[i].last
    /\ \A k \in 1..n : (\A j \in 1..n : x[j].last <= x[k].last) => i <= k

LEMMA LatestIs ==
    ASSUME Hosts!HostsAssumption, NEW n \in Nat, n # 0, NEW x \in [1..n -> Stats]
    PROVE  \E i : /\ IsLatest(x, n, i) /\ Hosts!Latest(x) = x[i]
                  /\ \A k : IsLatest(x, n, k) => k = i
<1>1. \A j \in 1..n : x[j].last \in Nat
    BY DEF Hosts!HostsAssumption
<1> DEFINE newest == {i \in 1..n : \A j \in 1..n : x[j].last <= x[i].last}
           S == {m \in 0..n - 1 : \E i \in 1..m + 1 : \A j \in 1..m + 1 : x[j].last <= x[i].last}
<1>2. n - 1 \in Nat /\ (n - 1) + 1 = n
    OBVIOUS
<1>3. 0 \in S
  <2>1. 0 \in 0..n - 1 /\ 1 \in 1..0 + 1 /\ \A j \in 1..0 + 1 : j = 1
      BY <1>2
  <2>2. x[1].last <= x[1].last
      BY <1>1, <1>2
  <2> QED
      BY <2>1, <2>2
<1>4. ASSUME NEW m \in 0..(n - 1) - 1, m \in S PROVE m + 1 \in S
  <2>1. PICK i \in 1..m + 1 : \A j \in 1..m + 1 : x[j].last <= x[i].last
      BY <1>4
  <2>2. /\ m + 1 \in 0..n - 1 /\ 1..(m + 1) + 1 = (1..m + 1) \cup {m + 2} /\ m + 2 \in 1..n
        /\ \A j \in 1..m + 1 : j \in 1..n
      OBVIOUS
  <2> DEFINE a == x[i].last  b == x[m + 2].last
  <2>3. a \in Nat /\ b \in Nat
      BY <1>1, <2>2
  <2>4. CASE b <= a
      BY <2>1, <2>2, <2>4
  <2>5. CASE a <= b
    <3>1. \A j \in 1..m + 1 : x[j].last <= b
        BY <1>1, <2>1, <2>2, <2>3, <2>5
    <3> QED
        BY <2>2, <2>3, <3>1
  <2> QED
      BY <2>3, <2>4, <2>5
<1> HIDE DEF S
<1>5. n - 1 \in S
    BY <1>2, <1>3, <1>4, Inductive
<1>6. newest # {}
    BY <1>2, <1>5 DEF S
<1>7. newest \subseteq 1..n /\ DOMAIN x = 1..n
    OBVIOUS
<1>8. PICK i \in newest : \A k \in newest : i <= k
  <2> HIDE DEF newest
  <2> QED
      BY <1>6, <1>7, PlacesAreFinite, FirstPlace
<1>9. \A j, k \in newest : j \in Nat /\ k \in Nat
    OBVIOUS
<1>10. Hosts!Latest(x) = x[CHOOSE k \in newest : \A j \in newest : k <= j]
    BY <1>7 DEF Hosts!Latest
<1>11. \A k \in newest : (\A j \in newest : k <= j) => k = i
  <2> HIDE DEF newest
  <2> QED
      BY <1>8, <1>9
<1>12. (CHOOSE k \in newest : \A j \in newest : k <= j) = i
  <2> HIDE DEF newest
  <2> QED
      BY <1>8, <1>11
<1>13. \A k : IsLatest(x, n, k) <=> k \in newest /\ \A j \in newest : k <= j
    BY DEF IsLatest
<1> HIDE DEF newest
<1> QED
    BY <1>8, <1>10, <1>11, <1>12, <1>13

-----------------------------------------------------------------------------
(* The hosts: the samples of all endpoints.                                *)

\* f has the first arrays, one after the other.
Joins(f, seqs, d) ==
    /\ f \in [1..d -> Seq(Stats)] /\ f[1] = seqs[1]
    /\ \A i \in 1..d - 1 : f[i + 1] = f[i] \o seqs[i + 1]

LEMMA FlattenedJoins ==
    ASSUME NEW d \in Nat, d # 0, NEW seqs \in [1..d -> Seq(Stats)]
    PROVE  \E f : Joins(f, seqs, d) /\ Hosts!FlattenSeq(seqs) = f[d]
<1> DEFINE Is(f) == f = [i \in 1..d |-> IF i = 1 THEN seqs[i] ELSE f[i - 1] \o seqs[i]]
<1>1. \E f : Is(f)
  <2> DEFINE step == [q \in Seq(Stats) \X (1..d) |-> q[1] \o seqs[q[2]]]
  <2>1. \A s \in Seq(Stats), i \in 1..d : s \o seqs[i] \in Seq(Stats)
      OBVIOUS
  <2>2. step \in [Seq(Stats) \X (1..d) -> Seq(Stats)]
      BY <2>1
  <2>3. \A s \in Seq(Stats), i \in 1..d : step[<<s, i>>] = s \o seqs[i]
      OBVIOUS
  <2> HIDE DEF step
  <2>4. PICK g : Iterates(g, Seq(Stats), <<>>, d, step)
    <3>1. <<>> \in Seq(Stats)
        OBVIOUS
    <3> QED
        BY <2>2, <3>1, Recursion
  <2> DEFINE f == [i \in 1..d |-> g[i]]
  <2>5. ASSUME NEW i \in 1..d PROVE g[i] = IF i = 1 THEN seqs[i] ELSE f[i - 1] \o seqs[i]
    <3>0. i - 1 \in 0..d /\ i \in 1..d
        OBVIOUS
    <3>g. g[0] = <<>> /\ g \in [0..d -> Seq(Stats)] /\ \A k \in 1..d : g[k] = step[<<g[k - 1], k>>]
        BY <2>4 DEF Iterates
    <3>h. g[i - 1] \in Seq(Stats)
        BY <3>0, <3>g
    <3>1. g[i] = g[i - 1] \o seqs[i]
        BY <2>3, <3>0, <3>g, <3>h
    <3>2. CASE i = 1
      <4>1. seqs[i] \in Seq(Stats) /\ g[i - 1] = <<>>
          BY <3>g, <3>2
      <4> DEFINE v == seqs[i]  w == g[i - 1]
      <4>4. v \in Seq(Stats) /\ w = <<>> /\ g[i] = w \o v
          BY <3>1, <4>1
      <4> HIDE DEF v, w
      <4>2. w \o v = v
          BY ONLY <4>4
      <4>3. g[i] = v
          BY ONLY <4>4, <4>2
      <4> QED
          BY <3>2, <4>3 DEF v
    <3>3. CASE i # 1
      <4>1. i - 1 \in 1..d
          BY <3>3
      <4> QED
          BY <3>1, <3>3, <4>1
    <3> QED
        BY <3>2, <3>3
  <2>6. Is(f)
      BY <2>5, Zenon
  <2> QED
      BY <2>6
<1> DEFINE f == CHOOSE f : Is(f)
<1>2. Is(f)
    BY <1>1, Zenon
<1>3. Len(seqs) = d
    BY LengthIs
<1>4. Hosts!FlattenSeq(seqs) = f[d]
    BY <1>3 DEF Hosts!FlattenSeq
<1> HIDE DEF f
<1>5. f[1] = seqs[1] /\ \A i \in 1..d - 1 : f[i + 1] = f[i] \o seqs[i + 1]
  <2>1. \A i \in 1..d : f[i] = IF i = 1 THEN seqs[i] ELSE f[i - 1] \o seqs[i]
      BY <1>2
  <2>2. 1 \in 1..d /\ \A i \in 1..d - 1 : i + 1 \in 1..d /\ i + 1 # 1 /\ (i + 1) - 1 = i
      OBVIOUS
  <2> HIDE DEF Is
  <2> QED
      BY <2>1, <2>2
<1>6. f = [i \in 1..d |-> f[i]]
    BY <1>2
<1> HIDE DEF Is
<1> DEFINE S == {i \in 0..d - 1 : f[i + 1] \in Seq(Stats)}
<1>7. \A i \in 0..d - 1 : i \in S
  <2>0. d - 1 \in Nat
      OBVIOUS
  <2>1. 0 \in S
    <3>1. seqs[1] \in Seq(Stats)
        OBVIOUS
    <3> QED
        BY <1>5, <2>0, <3>1
  <2>2. ASSUME NEW i \in 0..(d - 1) - 1, i \in S PROVE i + 1 \in S
    <3>1. /\ i + 1 \in 1..d - 1 /\ i + 1 \in 0..d - 1
          /\ f[i + 1] \in Seq(Stats) /\ seqs[(i + 1) + 1] \in Seq(Stats)
        BY <2>2
    <3>2. f[(i + 1) + 1] = f[i + 1] \o seqs[(i + 1) + 1]
        BY <1>5, <3>1
    <3>3. f[(i + 1) + 1] \in Seq(Stats)
        BY <3>1, <3>2
    <3> QED
        BY <3>1, <3>3
  <2> HIDE DEF S
  <2> QED
      BY <2>0, <2>1, <2>2, Inductive
<1>8. ASSUME NEW i \in 1..d PROVE f[i] \in Seq(Stats)
  <2>1. i - 1 \in 0..d - 1 /\ (i - 1) + 1 = i
      OBVIOUS
  <2> QED
      BY <1>7, <2>1
<1>9. f \in [1..d -> Seq(Stats)]
    BY <1>6, <1>8
<1> QED
    BY <1>4, <1>5, <1>9 DEF Joins

SumOfValues(key, x) == Hosts!Added(ValuesOf(key, x))

LEMMA SequenceIsArray ==
    ASSUME NEW X, NEW x \in Seq(X)
    PROVE  Len(x) \in Nat /\ x \in [1..Len(x) -> X] /\ DOMAIN x = 1..Len(x)
OBVIOUS

LEMMA BothAre ==
    ASSUME NEW X, NEW x \in Seq(X), NEW y \in Seq(X)
    PROVE  /\ x \o y \in [1..Len(x) + Len(y) -> X]
           /\ \A k \in 1..Len(x) : (x \o y)[k] = x[k]
           /\ \A k \in 1..Len(y) : (x \o y)[Len(x) + k] = y[k]
<1>1. x \o y \in Seq(X) /\ Len(x \o y) = Len(x) + Len(y)
    OBVIOUS
<1>2. x \o y \in [1..Len(x) + Len(y) -> X]
  <2> DEFINE z == x \o y
  <2>1. z \in Seq(X)
      BY <1>1
  <2> HIDE DEF z
  <2>2. z \in [1..Len(z) -> X]
      BY <2>1
  <2> QED
      BY <1>1, <2>2 DEF z
<1>3. \A k \in 1..Len(x) : (x \o y)[k] = x[k]
    OBVIOUS
<1>4. \A k \in 1..Len(y) : (x \o y)[Len(x) + k] = y[k]
  <2>1. TAKE k \in 1..Len(y)
  <2>2. Len(x) \in Nat /\ Len(y) \in Nat
      OBVIOUS
  <2>3. Len(x) + k \in 1..Len(x) + Len(y) /\ Len(x) + k > Len(x) /\ (Len(x) + k) - Len(x) = k
      BY <2>2
  <2> QED
      BY <2>3
<1> QED
    BY <1>2, <1>3, <1>4

LEMMA ValuesOfBoth ==
    ASSUME Hosts!HostsAssumption, NEW x \in Seq(Stats), NEW y \in Seq(Stats), NEW key
    PROVE  SumOfValues(key, x \o y) = SumOfValues(key, x) + SumOfValues(key, y)
<1> DEFINE m == Len(x)  n == Len(y)  z == x \o y
           a == ValuesOf(key, x)  b == ValuesOf(key, y)  c == ValuesOf(key, z)
<1>1. m \in Nat /\ n \in Nat /\ x \in [1..m -> Stats] /\ y \in [1..n -> Stats] /\ m + n \in Nat
    OBVIOUS
<1>2. z \in [1..m + n -> Stats] /\ (\A k \in 1..m : z[k] = x[k]) /\ \A k \in 1..n : z[m + k] = y[k]
    BY BothAre
<1> HIDE DEF m, n, z
<1>3. a \in [1..m -> Nat] /\ \A k \in 1..m : a[k] = ValueOf(key, x[k])
    BY <1>1, ValuesAreNumbers
<1>4. b \in [1..n -> Nat] /\ \A k \in 1..n : b[k] = ValueOf(key, y[k])
    BY <1>1, ValuesAreNumbers
<1>5. c \in [1..m + n -> Nat] /\ \A k \in 1..m + n : c[k] = ValueOf(key, z[k])
    BY <1>1, <1>2, ValuesAreNumbers
<1> HIDE DEF a, b, c
<1>6. \A k \in 1..m : c[k] = a[k]
  <2>1. \A k \in 1..m : k \in 1..m + n
      BY <1>1
  <2> QED
      BY <1>2, <1>3, <1>5, <2>1
<1>7. \A k \in 1..n : c[m + k] = b[k]
  <2>1. \A k \in 1..n : m + k \in 1..m + n
      BY <1>1
  <2> QED
      BY <1>2, <1>4, <1>5, <2>1
<1>8. Hosts!Added(c) = Hosts!Added(a) + Hosts!Added(b)
    BY <1>1, <1>3, <1>4, <1>5, <1>6, <1>7, SumOfBoth
<1> QED
    BY <1>8 DEF SumOfValues, a, b, c, z

\* The latest of two arrays is that of one of them.
LEMMA LatestOfBoth ==
    ASSUME Hosts!HostsAssumption, NEW x \in Seq(Stats), NEW y \in Seq(Stats),
           x # <<>>, y # <<>>
    PROVE  Hosts!Latest(x \o y) = Hosts!Latest(x) \/ Hosts!Latest(x \o y) = Hosts!Latest(y)
<1> DEFINE m == Len(x)  n == Len(y)  z == x \o y
<1>1. /\ m \in Nat /\ n \in Nat /\ x \in [1..m -> Stats] /\ y \in [1..n -> Stats]
      /\ m # 0 /\ n # 0
    OBVIOUS
<1>2. z \in [1..m + n -> Stats] /\ (\A k \in 1..m : z[k] = x[k]) /\ \A k \in 1..n : z[m + k] = y[k]
    BY BothAre
<1>3. m + n \in Nat /\ m + n # 0
    BY <1>1
<1> HIDE DEF m, n, z
<1>4. PICK i : IsLatest(x, m, i) /\ Hosts!Latest(x) = x[i]
    BY <1>1, LatestIs
<1>5. PICK j : IsLatest(y, n, j) /\ Hosts!Latest(y) = y[j]
    BY <1>1, LatestIs
<1>6. PICK l : /\ IsLatest(z, m + n, l) /\ Hosts!Latest(z) = z[l]
               /\ \A k : IsLatest(z, m + n, k) => k = l
    BY <1>2, <1>3, LatestIs
<1>7. \A s \in Stats : s.last \in Nat
    BY DEF Hosts!HostsAssumption
<1>8. /\ i \in 1..m /\ j \in 1..n /\ i \in 1..m + n /\ m + j \in 1..m + n
      /\ z[i] = x[i] /\ z[m + j] = y[j]
    BY <1>1, <1>2, <1>4, <1>5 DEF IsLatest
<1>9. \A k \in 1..m + n : (k \in 1..m /\ z[k] = x[k])
                             \/ (k - m \in 1..n /\ z[k] = y[k - m] /\ k > m)
  <2>1. TAKE k \in 1..m + n
  <2>2. CASE k <= m
      BY <1>1, <1>2, <2>2
  <2>3. CASE k > m
    <3>1. k - m \in 1..n /\ m + (k - m) = k
        BY <1>1, <2>3
    <3> QED
        BY <1>2, <2>3, <3>1
  <2> QED
      BY <1>1, <2>2, <2>3
<1>10. x[i].last \in Nat /\ y[j].last \in Nat
    BY <1>1, <1>7, <1>8
<1>11. \A k \in 1..m : x[k].last <= x[i].last /\ x[k].last \in Nat
    BY <1>1, <1>4, <1>7 DEF IsLatest
<1>12. \A k \in 1..n : y[k].last <= y[j].last /\ y[k].last \in Nat
    BY <1>1, <1>5, <1>7 DEF IsLatest
<1>13. CASE y[j].last <= x[i].last
  <2>1. \A k \in 1..m + n : z[k].last <= z[i].last
    <3>1. TAKE k \in 1..m + n
    <3>2. CASE k \in 1..m /\ z[k] = x[k]
        BY <1>8, <1>11, <3>2
    <3>3. CASE k - m \in 1..n /\ z[k] = y[k - m]
      <4>1. y[k - m].last <= y[j].last /\ y[k - m].last \in Nat
          BY <1>12, <3>3
      <4> QED
        BY <1>8, <1>10, <1>13, <3>3, <4>1
    <3> QED
        BY <1>9, <3>2, <3>3
  <2>2. ASSUME NEW k \in 1..m + n, \A q \in 1..m + n : z[q].last <= z[k].last PROVE i <= k
    <3>1. CASE k \in 1..m /\ z[k] = x[k]
      <4>1. \A q \in 1..m : x[q].last <= x[k].last
        <5>1. TAKE q \in 1..m
        <5>2. q \in 1..m + n /\ z[q] = x[q]
            BY <1>1, <1>2
        <5> QED
            BY <2>2, <3>1, <5>2
      <4> QED
          BY <1>4, <3>1, <4>1 DEF IsLatest
    <3>2. CASE k > m
        BY <1>1, <1>8, <3>2
    <3> QED
        BY <1>9, <3>1, <3>2
  <2>3. IsLatest(z, m + n, i)
      BY <1>8, <2>1, <2>2 DEF IsLatest
  <2>4. l = i
      BY <1>6, <2>3
  <2> QED
      BY <1>4, <1>6, <1>8, <2>4 DEF z
<1>14. CASE x[i].last < y[j].last
  <2>1. \A k \in 1..m + n : z[k].last <= z[m + j].last
    <3>1. TAKE k \in 1..m + n
    <3>2. CASE k \in 1..m /\ z[k] = x[k]
      <4>1. x[k].last <= x[i].last /\ x[k].last \in Nat
          BY <1>11, <3>2
      <4> QED
        BY <1>8, <1>10, <1>14, <3>2, <4>1
    <3>3. CASE k - m \in 1..n /\ z[k] = y[k - m]
        BY <1>8, <1>12, <3>3
    <3> QED
        BY <1>9, <3>2, <3>3
  <2>2. ASSUME NEW k \in 1..m + n, \A q \in 1..m + n : z[q].last <= z[k].last PROVE m + j <= k
    <3>1. CASE k \in 1..m /\ z[k] = x[k]
      <4>1. z[m + j].last <= z[k].last
          BY <1>8, <2>2
      <4>2. x[k].last <= x[i].last /\ x[k].last \in Nat
          BY <1>11, <3>1
      <4> QED
          BY <1>8, <1>10, <1>14, <3>1, <4>1, <4>2
    <3>2. CASE k - m \in 1..n /\ z[k] = y[k - m]
      <4>1. \A q \in 1..n : y[q].last <= y[k - m].last
        <5>1. TAKE q \in 1..n
        <5>2. m + q \in 1..m + n /\ z[m + q] = y[q]
            BY <1>1, <1>2
        <5>3. z[m + q].last <= z[k].last
            BY <2>2, <5>2
        <5> QED
            BY <3>2, <5>2, <5>3
      <4>2. j <= k - m
          BY <1>5, <3>2, <4>1 DEF IsLatest
      <4> QED
          BY <1>1, <1>8, <4>2
    <3> QED
        BY <1>9, <3>1, <3>2
  <2>3. IsLatest(z, m + n, m + j)
      BY <1>8, <2>1, <2>2 DEF IsLatest
  <2>4. l = m + j
      BY <1>6, <2>3
  <2> QED
      BY <1>5, <1>6, <1>8, <2>4 DEF z
<1> QED
    BY <1>10, <1>13, <1>14

\* What the arrays of an array have together.
Flattens(x, seqs, d) ==
    /\ x \in Seq(Stats)
    /\ \A key : SumOfValues(key, x) = Hosts!Added([j \in 1..d |-> SumOfValues(key, seqs[j])])
    /\ \E j \in 1..d : Hosts!Latest(x) = Hosts!Latest(seqs[j])

LEMMA FlattenedStats ==
    ASSUME Hosts!HostsAssumption, NEW d \in Nat, d # 0, NEW seqs \in [1..d -> Seq(Stats)],
           \A j \in 1..d : seqs[j] # <<>>
    PROVE  Flattens(Hosts!FlattenSeq(seqs), seqs, d)
<1>1. PICK f : Joins(f, seqs, d) /\ Hosts!FlattenSeq(seqs) = f[d]
    BY FlattenedJoins
<1> DEFINE a(key) == [j \in 1..d |-> SumOfValues(key, seqs[j])]
           S == {m \in 0..d - 1 :
                   /\ f[m + 1] # <<>>
                   /\ \A key : SumOfValues(key, f[m + 1]) = UpTo(a(key), m + 1)
                   /\ \E j \in 1..m + 1 : Hosts!Latest(f[m + 1]) = Hosts!Latest(seqs[j])}
<1>2. ASSUME NEW x \in Seq(Stats), NEW key PROVE SumOfValues(key, x) \in Nat
  <2>1. ValuesOf(key, x) \in [1..Len(x) -> Nat] /\ Len(x) \in Nat
      BY SequenceIsArray, ValuesAreNumbers
  <2> QED
      BY <2>1, ArraysHaveSums DEF SumOfValues, HasSums
<1>3. ASSUME NEW key
      PROVE  /\ a(key) \in [1..d -> Nat]
             /\ \A j \in 1..d : a(key)[j] = SumOfValues(key, seqs[j])
  <2>1. \A j \in 1..d : SumOfValues(key, seqs[j]) \in Nat
      BY <1>2
  <2> QED
      BY <2>1
<1> HIDE DEF a
<1>4. ASSUME NEW key PROVE HasSums(a(key), d)
    BY <1>3, ArraysHaveSums
<1>5. d - 1 \in Nat /\ (d - 1) + 1 = d /\ d \in 1..d /\ 1 \in 1..d
    OBVIOUS
<1>6. /\ f[1] = seqs[1] /\ \A m \in 1..d - 1 : f[m + 1] = f[m] \o seqs[m + 1]
      /\ \A m \in 1..d : f[m] \in Seq(Stats)
    BY <1>1 DEF Joins
<1>7. 0 \in S
  <2>1. ASSUME NEW key PROVE SumOfValues(key, f[1]) = UpTo(a(key), 1)
    <3>1. UpTo(a(key), 0) = 0 /\ UpTo(a(key), 0 + 1) = UpTo(a(key), 0) + a(key)[0 + 1]
        BY <1>4, <1>5 DEF HasSums
    <3>2. a(key)[1] = SumOfValues(key, f[1]) /\ a(key)[1] \in Nat
        BY <1>3, <1>5, <1>6
    <3> QED
        BY <3>1, <3>2
  <2>2. f[1] # <<>>
      BY <1>5, <1>6
  <2>3. 0 + 1 = 1 /\ 1 \in 1..1 /\ 0 \in 0..d - 1
      BY <1>5
  <2> QED
      BY <1>6, <2>1, <2>2, <2>3
<1>8. ASSUME NEW k \in 0..(d - 1) - 1, k \in S PROVE k + 1 \in S
  <2> DEFINE m == k + 1
  <2>1. /\ m \in 1..d - 1 /\ m \in 0..d - 1 /\ m \in 1..d /\ m + 1 \in 1..d
        /\ 1..m + 1 = (1..m) \cup {m + 1} /\ m + 1 \in 1..m + 1
      OBVIOUS
  <2>2. /\ f[m] # <<>> /\ \A key : SumOfValues(key, f[m]) = UpTo(a(key), m)
      BY <1>8
  <2>3. PICK j \in 1..m : Hosts!Latest(f[m]) = Hosts!Latest(seqs[j])
      BY <1>8
  <2>4. k + 1 = m
      OBVIOUS
  <2> HIDE DEF m, S
  <2>5. f[m + 1] = f[m] \o seqs[m + 1] /\ f[m] \in Seq(Stats) /\ seqs[m + 1] \in Seq(Stats)
      BY <1>6, <2>1
  <2>6. ASSUME NEW key PROVE SumOfValues(key, f[m + 1]) = UpTo(a(key), m + 1)
    <3>1. UpTo(a(key), m + 1) = UpTo(a(key), m) + a(key)[m + 1]
        BY <1>4, <2>1 DEF HasSums
    <3>2. SumOfValues(key, f[m] \o seqs[m + 1])
            = SumOfValues(key, f[m]) + SumOfValues(key, seqs[m + 1])
        BY <2>5, ValuesOfBoth
    <3> QED
        BY <1>3, <2>1, <2>2, <2>5, <3>1, <3>2
  <2>7. \E i \in 1..m + 1 : Hosts!Latest(f[m + 1]) = Hosts!Latest(seqs[i])
    <3> DEFINE x == f[m]  y == seqs[m + 1]
    <3>1. x \in Seq(Stats) /\ y \in Seq(Stats) /\ x # <<>> /\ y # <<>>
        BY <2>1, <2>2, <2>5
    <3> HIDE DEF x, y
    <3>2. Hosts!Latest(x \o y) = Hosts!Latest(x) \/ Hosts!Latest(x \o y) = Hosts!Latest(y)
        BY <3>1, LatestOfBoth
    <3> QED
        BY <2>1, <2>3, <2>5, <3>2 DEF x, y
  <2>8. f[m + 1] # <<>>
    <3> DEFINE x == f[m]  y == seqs[m + 1]
    <3>1. x \in Seq(Stats) /\ y \in Seq(Stats) /\ x # <<>>
        BY <2>2, <2>5
    <3> HIDE DEF x, y
    <3>2. x \o y # <<>>
        BY <3>1
    <3> QED
        BY <2>5, <3>2 DEF x, y
  <2> QED
      BY <2>1, <2>4, <2>6, <2>7, <2>8 DEF S
<1> HIDE DEF S
<1>9. d - 1 \in S
    BY <1>5, <1>7, <1>8, Inductive
<1>10. \A key : SumOfValues(key, f[d]) = UpTo(a(key), d)
    BY <1>5, <1>9 DEF S
<1>11. \E j \in 1..d : Hosts!Latest(f[d]) = Hosts!Latest(seqs[j])
    BY <1>5, <1>9 DEF S
<1>12. \A key : UpTo(a(key), d) = Hosts!Added(a(key))
    BY <1>4 DEF HasSums
<1>13. f[d] \in Seq(Stats)
    BY <1>5, <1>6
<1> QED
    BY <1>1, <1>10, <1>11, <1>12, <1>13 DEF Flattens, a

-----------------------------------------------------------------------------
(* The hosts: stable sorts.                                                *)

LEMMA SameInOrder == \A S, order : Hosts!InOrder(S, order) = StatsRules!InOrder(S, order)
BY DEF Hosts!InOrder, StatsRules!InOrder, Hosts!Cardinality, StatsRules!Cardinality,
       Hosts!IsFiniteSet, StatsRules!IsFiniteSet

LEMMA SameLists ==
    /\ \A s, places : Hosts!At(s, places) = StatsRules!At(s, places)
    /\ \A T : Hosts!Ascending(T) = StatsRules!Ascending(T)
    /\ \A s : Hosts!Uniques(s) = StatsRules!Uniques(s)
<1>1. \A s, places : Hosts!At(s, places) = StatsRules!At(s, places)
    BY DEF Hosts!At, StatsRules!At
<1>2. \A T : Hosts!Ascending(T) = StatsRules!Ascending(T)
    BY SameInOrder DEF Hosts!Ascending, StatsRules!Ascending
<1>3. \A s : Hosts!Uniques(s) = StatsRules!Uniques(s)
    BY <1>1, <1>2 DEF Hosts!Uniques, StatsRules!Uniques
<1> QED
    BY <1>1, <1>2, <1>3

\* The keys of a Map.
LEMMA UniquesOf ==
    ASSUME NEW s, NEW n \in Nat, DOMAIN s = 1..n, NEW S, S = {s[i] : i \in 1..n}
    PROVE  \E c : Enumerates(Hosts!Uniques(s), c, S)
<1>1. \E c : Enumerates(StatsRules!Uniques(s), c, {s[i] : i \in 1..n})
    BY UniquesAreUnique
<1>2. \E c : Enumerates(StatsRules!Uniques(s), c, S)
    BY ONLY <1>1, S = {s[i] : i \in 1..n}, Zenon
<1> QED
    BY <1>2, SameLists

\* A comparison by some key: pairs of places whose first belongs before the second.
IsComparison(D, less) ==
    /\ \A i, j \in D : <<i, j>> \in less => <<j, i>> \notin less
    /\ \A i, j, k \in D : <<i, k>> \in less => <<i, j>> \in less \/ <<j, k>> \in less

\* t has the n members of s in the order of a comparison, those that tie as they were.
IsSorting(t, s, n, less) ==
    \E q : /\ Enumerates(q, n, 1..n) /\ t = Picked(s, q, n)
           /\ \A i, j \in 1..n : i < j => \/ <<q[i], q[j]>> \in less
                                          \/ <<q[j], q[i]>> \notin less /\ q[i] < q[j]

LEMMA StableSortSorts ==
    ASSUME NEW n \in Nat, NEW s, DOMAIN s = 1..n, NEW less, IsComparison(1..n, less),
           NEW order,
           \A i, j \in 1..n : <<i, j>> \in order <=>
               <<i, j>> \in less \/ (<<j, i>> \notin less /\ i < j)
    PROVE  IsSorting(Hosts!At(s, Hosts!InOrder(1..n, order)), s, n, less)
<1> DEFINE D == 1..n  q == StatsRules!InOrder(D, order)
<1>1. IsFiniteSet(D) /\ Cardinality(D) = n /\ D \subseteq Nat
    BY FS_Interval
<1> HIDE DEF q
<1>2. IsOrder(D, order)
  <2> HIDE DEF D
  <2>0. \A i, j \in D : <<i, j>> \in order <=>
               <<i, j>> \in less \/ (<<j, i>> \notin less /\ i < j)
      BY DEF D
  <2>1. IsComparison(D, less)
      BY DEF D
  <2>2. \A i \in D : <<i, i>> \notin order
      BY <1>1, <2>0, <2>1 DEF IsComparison
  <2>3. ASSUME NEW i \in D, NEW j \in D, i # j PROVE <<i, j>> \in order \/ <<j, i>> \in order
    <3>1. i < j \/ j < i
        BY <1>1, <2>3
    <3>2. /\ <<i, j>> \in order <=> <<i, j>> \in less \/ (<<j, i>> \notin less /\ i < j)
          /\ <<j, i>> \in order <=> <<j, i>> \in less \/ (<<i, j>> \notin less /\ j < i)
        BY <2>0
    <3> QED
        BY <3>1, <3>2
  <2>4. ASSUME NEW i \in D, NEW j \in D, NEW k \in D, <<i, j>> \in order, <<j, k>> \in order
        PROVE  <<i, k>> \in order
    <3>1. /\ <<i, j>> \in order <=> <<i, j>> \in less \/ (<<j, i>> \notin less /\ i < j)
          /\ <<j, k>> \in order <=> <<j, k>> \in less \/ (<<k, j>> \notin less /\ j < k)
          /\ <<i, k>> \in order <=> <<i, k>> \in less \/ (<<k, i>> \notin less /\ i < k)
        BY <2>0
    <3>2. i < j /\ j < k => i < k
        BY <1>1
    <3>3. /\ <<i, j>> \in less => <<j, i>> \notin less
          /\ <<j, k>> \in less => <<k, j>> \notin less
        BY <2>1 DEF IsComparison
    <3>4. /\ <<i, j>> \in less => <<i, k>> \in less \/ <<k, j>> \in less
          /\ <<j, k>> \in less => <<j, i>> \in less \/ <<i, k>> \in less
          /\ <<k, i>> \in less => <<k, j>> \in less \/ <<j, i>> \in less
        BY <2>1 DEF IsComparison
    <3> QED
        BY <2>4, <3>1, <3>2, <3>3, <3>4
  <2> QED
      BY <2>2, <2>3, <2>4 DEF IsOrder
<1>3. /\ q \in [1..n -> D]
      /\ \A i, j \in 1..n : i < j => <<q[i], q[j]>> \in order
      /\ \A i, j \in 1..n : q[i] = q[j] => i = j
      /\ \A x \in D : \E i \in 1..n : q[i] = x
  <2> HIDE DEF D
  <2>1. q = StatsRules!InOrder(D, order)
      BY DEF q
  <2> QED
      BY <1>1, <1>2, <2>1, InOrderIsInOrder
<1>4. Enumerates(q, n, 1..n)
    BY <1>3 DEF Enumerates
<1>5. Hosts!At(s, q) = Picked(s, q, n)
    BY <1>3 DEF Hosts!At, Picked
<1>6. \A i, j \in 1..n : i < j => \/ <<q[i], q[j]>> \in less
                                  \/ <<q[j], q[i]>> \notin less /\ q[i] < q[j]
    BY <1>3
<1>7. Hosts!InOrder(1..n, order) = q
    BY SameInOrder DEF q
<1> QED
    BY <1>4, <1>5, <1>6, <1>7 DEF IsSorting

\* The converse of a comparison is one.
LEMMA ConverseCompares ==
    ASSUME NEW D, NEW less, NEW more, IsComparison(D, less),
           \A i, j \in D : <<i, j>> \in more <=> <<j, i>> \in less
    PROVE  IsComparison(D, more)
BY DEF IsComparison

\* What is listed in another order is still listed once.
LEMMA PickedEnumerates ==
    ASSUME NEW u, NEW c, NEW S, Enumerates(u, c, S), NEW q, Enumerates(q, c, 1..c)
    PROVE  Enumerates(Picked(u, q, c), c, S)
<1> DEFINE w == Picked(u, q, c)
<1>1. \A k \in 1..c : w[k] = u[q[k]] /\ q[k] \in 1..c
    BY DEF Picked, Enumerates
<1>2. c \in Nat /\ DOMAIN w = 1..c /\ w = [k \in 1..c |-> w[k]]
    BY DEF Picked, Enumerates
<1> HIDE DEF w
<1>3. \A k \in 1..c : w[k] \in S
    BY <1>1 DEF Enumerates
<1>4. \A x \in S : \E k \in 1..c : w[k] = x
  <2>1. TAKE x \in S
  <2>2. PICK j \in 1..c : u[j] = x
      BY DEF Enumerates
  <2>3. PICK k \in 1..c : q[k] = j
      BY DEF Enumerates
  <2> QED
      BY <1>1, <2>2, <2>3
<1>5. \A j, k \in 1..c : w[j] = w[k] => j = k
  <2>1. ASSUME NEW j \in 1..c, NEW k \in 1..c, w[j] = w[k] PROVE j = k
    <3>1. q[j] \in 1..c /\ q[k] \in 1..c /\ u[q[j]] = u[q[k]]
        BY <1>1, <2>1
    <3>2. \A a, b \in 1..c : u[a] = u[b] => a = b
        BY DEF Enumerates
    <3>3. \A a, b \in 1..c : q[a] = q[b] => a = b
        BY DEF Enumerates
    <3>4. q[j] = q[k]
        BY <3>1, <3>2
    <3> QED
        BY <3>3, <3>4
  <2> QED
      BY <2>1
<1> QED
    BY <1>2, <1>3, <1>4, <1>5 DEF Enumerates, w

\* A list that names each of n places' values once has at most n members.
LEMMA EnumeratesWithin ==
    ASSUME NEW n \in Nat, NEW lab, NEW u, NEW c, Enumerates(u, c, {lab[i] : i \in 1..n})
    PROVE  c <= n
<1> DEFINE f == [k \in 1..c |-> CHOOSE i \in 1..n : lab[i] = u[k]]
<1>1. c \in Nat /\ \A k \in 1..c : \E i \in 1..n : lab[i] = u[k]
    BY DEF Enumerates
<1>2. \A k \in 1..c : f[k] \in 1..n /\ lab[f[k]] = u[k]
    BY <1>1
<1>3. f \in [1..c -> 1..n]
    BY <1>2
<1> HIDE DEF f
<1>4. f \in Injection(1..c, 1..n)
    BY <1>2, <1>3 DEF Enumerates, Injection, IsInjective
<1>5. Cardinality(1..c) = c /\ IsFiniteSet(1..n) /\ Cardinality(1..n) = n
    BY <1>1, FS_Interval
<1> QED
    BY <1>4, <1>5, FS_Injection

\* a has a sum for each of the c labels that u lists.
HasLabelSums(a, u, c, lab, v, n, T) ==
    /\ Enumerates(u, c, {lab[i] : i \in T}) /\ a \in [1..c -> Nat]
    /\ \A k \in 1..c : a[k] = SumOf(v, n, {i \in T : lab[i] = u[k]})

\* The sums of the groups with the same label are the sum of all.
LEMMA SumOfLabels ==
    ASSUME NEW n \in Nat, NEW v \in [1..n -> Nat], NEW T, NEW lab, NEW u, NEW c, NEW a,
           HasLabelSums(a, u, c, lab, v, n, T)
    PROVE  Hosts!Added(a) = SumOf(v, n, T)
<1>0. Enumerates(u, c, {lab[i] : i \in T}) /\ a \in [1..c -> Nat]
    BY DEF HasLabelSums
<1> DEFINE G == [k \in 1..c |-> {i \in T : lab[i] = u[k]}]
<1>1. c \in Nat /\ \A j, k \in 1..c : u[j] = u[k] => j = k
    BY <1>0 DEF Enumerates
<1>2. \A k \in 1..c : G[k] = {i \in T : lab[i] = u[k]}
    OBVIOUS
<1>3. \A j, k \in 1..c : j # k => G[j] \cap G[k] = {}
    BY <1>1
<1>4. T = UNION {G[j] : j \in 1..c}
  <2>1. ASSUME NEW i \in T PROVE \E k \in 1..c : i \in G[k]
    <3>1. PICK k \in 1..c : u[k] = lab[i]
        BY <1>0 DEF Enumerates
    <3> QED
        BY <1>2, <3>1
  <2>2. \A k \in 1..c : G[k] \subseteq T
      BY <1>2
  <2> HIDE DEF G
  <2> QED
      BY <2>1, <2>2
<1>5. \A k \in 1..c : a[k] = SumOf(v, n, G[k])
    BY <1>2 DEF HasLabelSums
<1> HIDE DEF G
<1>6. Divides(G, c, T)
    BY <1>3, <1>4 DEF Divides
<1>7. c \in Nat /\ a \in [1..c -> Nat]
    BY ONLY <1>0, <1>1
<1> QED
    BY ONLY n \in Nat, v \in [1..n -> Nat], <1>5, <1>6, <1>7, SumOfGroups

\* Of some numbers there is a greatest.
LEMMA LastPlace ==
    ASSUME NEW T, IsFiniteSet(T), T \subseteq Nat, T # {}
    PROVE  \E i \in T : \A j \in T : j <= i
<1>1. PICK p, c : Ascends(p, c, T)
    BY AscendingIsInOrder
<1>2. PICK x \in T : TRUE
    OBVIOUS
<1>3. c \in 1..c /\ p[c] \in T
    BY <1>1, <1>2 DEF Ascends
<1>4. \A y \in T : y <= p[c]
  <2>1. TAKE y \in T
  <2>2. PICK i \in 1..c : p[i] = y
      BY <1>1 DEF Ascends
  <2>3. i = c \/ p[i] < p[c]
      BY <1>1, <1>3 DEF Ascends
  <2>4. p[c] \in Nat /\ y \in Nat
      BY <1>3
  <2> QED
      BY <2>2, <2>3, <2>4
<1> QED
    BY <1>3, <1>4

-----------------------------------------------------------------------------
(* The hosts: what aggregateHosts makes of the entries.                    *)

HostEntries == [rule : Nat, way : {1, 2}, index : Nat, url : URLs, stats : Stats]

\* The places of the URLs of a host, and of an endpoint.
OfHost(es, n, h) == {i \in 1..n : es[i].url.host = h}
OfEndpoint(es, n, h, l) == {i \in OfHost(es, n, h) : es[i].url.label = l}

Counts(es, n, key) == [i \in 1..n |-> ValueOf(key, es[i].stats)]

LEMMA CountsAreNumbers ==
    ASSUME Hosts!HostsAssumption, NEW n \in Nat, NEW es \in [1..n -> HostEntries], NEW key
    PROVE  /\ Counts(es, n, key) \in [1..n -> Nat]
           /\ \A i \in 1..n : Counts(es, n, key)[i] = ValueOf(key, es[i].stats)
<1>1. \A i \in 1..n : es[i] \in HostEntries
    OBVIOUS
<1>2. \A i \in 1..n : es[i].stats \in Stats
    BY <1>1 DEF HostEntries
<1>3. \A i \in 1..n : ValueOf(key, es[i].stats) \in Nat
    BY <1>2, ValueIsANumber
<1> QED
    BY <1>3 DEF Counts

\* own has the members of es at the places T, of which p lists c.
Keeps(own, es, n, T, p, c) ==
    Ascends(p, c, T) /\ own = Picked(es, p, c) /\ ListsPlaces(p, c, n, T)

LEMMA FilteredIs ==
    ASSUME NEW n \in Nat, NEW es, NEW T, T \subseteq 1..n
    PROVE  \E p, c : Keeps(Hosts!At(es, Hosts!Ascending(T)), es, n, T, p, c)
<1>1. IsFiniteSet(T) /\ T \subseteq Nat
    BY PlacesAreFinite
<1>2. PICK c, p : /\ Ascends(p, c, T)
                  /\ StatsRules!At(es, StatsRules!Ascending(T)) = Picked(es, p, c)
    BY <1>1, PickedInOrder
<1>3. Hosts!At(es, Hosts!Ascending(T)) = Picked(es, p, c)
    BY <1>2, SameLists
<1>4. p \in [1..c -> T] /\ \A x \in T : \E k \in 1..c : p[k] = x
    BY <1>2 DEF Ascends
<1>5. p \in [1..c -> 1..n]
    BY <1>4
<1>6. T = {p[k] : k \in 1..c}
    BY <1>4
<1>7. c \in Nat /\ \A i, j \in 1..c : p[i] = p[j] => i = j
    BY <1>2 DEF Ascends
<1>8. ListsPlaces(p, c, n, T)
    BY <1>5, <1>6, <1>7 DEF ListsPlaces
<1> QED
    BY <1>2, <1>3, <1>8 DEF Keeps

EndpointIs(e, es, n, T) ==
    /\ e.samples \in Seq(Stats) /\ e.samples # <<>>
    /\ \A key : SumOfValues(key, e.samples) = SumOf(Counts(es, n, key), n, T)
    /\ e.stats = Hosts!SumStats(e.samples)
    /\ {use[1] : use \in Hosts!ToSet(e.uses)} = {es[i].rule : i \in T}

LEMMA EndpointAggregates ==
    ASSUME Hosts!HostsAssumption, NEW n \in Nat, NEW es \in [1..n -> HostEntries],
           NEW h, NEW l, OfEndpoint(es, n, h, l) # {}
    PROVE  EndpointIs(Hosts!Endpoint(es, h, l), es, n, OfEndpoint(es, n, h, l))
<1> DEFINE T == OfEndpoint(es, n, h, l)
           own == Hosts!Filtered(es, LAMBDA e : Hosts!InEndpoint(e, h, l))
           samples == [k \in DOMAIN own |-> own[k].stats]
           places == [k \in DOMAIN own |-> <<own[k].rule, own[k].way, own[k].index>>]
           e == Hosts!Endpoint(es, h, l)
<1>1. /\ e.samples = samples /\ e.stats = Hosts!SumStats(samples)
      /\ e.uses = Hosts!Uniques(places)
    BY DEF Hosts!Endpoint, Hosts!Mapped
<1>2. T \subseteq 1..n /\ T # {} /\ T = {i \in DOMAIN es : Hosts!InEndpoint(es[i], h, l)}
    BY DEF OfEndpoint, OfHost, Hosts!InEndpoint
<1>3. own = Hosts!At(es, Hosts!Ascending(T))
    BY <1>2 DEF Hosts!Filtered
<1> HIDE DEF T, own
<1>4. PICK p, c : Keeps(own, es, n, T, p, c)
    BY <1>2, <1>3, FilteredIs
<1>5. DOMAIN own = 1..c /\ \A k \in 1..c : own[k] = es[p[k]] /\ es[p[k]] \in HostEntries
    BY <1>4 DEF Keeps, Picked, ListsPlaces
<1>6. c \in Nat /\ p \in [1..c -> 1..n]
    BY <1>4 DEF Keeps, ListsPlaces
<1>13. c # 0
    BY <1>2, <1>4 DEF Keeps, Ascends
<1>7. samples \in [1..c -> Stats] /\ \A k \in 1..c : samples[k] = es[p[k]].stats
    BY <1>5 DEF HostEntries
<1>8. DOMAIN places = 1..c /\ \A k \in 1..c : places[k][1] = es[p[k]].rule
    BY <1>5
<1> HIDE DEF samples, places, e
<1>9. samples \in Seq(Stats) /\ samples # <<>>
  <2>1. samples \in Seq(Stats) /\ Len(samples) = c
      BY <1>6, <1>7, LengthIs
  <2> QED
      BY <1>6, <1>13, <2>1
<1>10. ASSUME NEW key PROVE SumOfValues(key, samples) = SumOf(Counts(es, n, key), n, T)
  <2> DEFINE v == Counts(es, n, key)
  <2>1. v \in [1..n -> Nat] /\ \A i \in 1..n : v[i] = ValueOf(key, es[i].stats)
      BY CountsAreNumbers
  <2>2. DOMAIN samples = 1..c
      BY <1>7
  <2>3. \A k \in 1..c : ValuesOf(key, samples)[k] = v[p[k]]
      BY <1>6, <1>7, <2>1, <2>2 DEF ValuesOf
  <2>6. ValuesOf(key, samples) \in [1..c -> Nat]
      BY <1>6, <1>7, ValuesAreNumbers
  <2>4. ListsPlaces(p, c, n, T)
      BY <1>4 DEF Keeps
  <2> DEFINE a == ValuesOf(key, samples)
  <2>7. Takes(a, v, p, c)
      BY <2>3, <2>6 DEF Takes
  <2>8. v \in [1..n -> Nat]
      BY <2>1
  <2> HIDE DEF v, a
  <2>5. Hosts!Added(a) = SumOf(v, n, T)
      BY <2>4, <2>7, <2>8, SumOfListed
  <2> QED
      BY <2>5 DEF SumOfValues, v, a
<1>11. {use[1] : use \in Hosts!ToSet(e.uses)} = {es[i].rule : i \in T}
  <2> DEFINE S == {places[i] : i \in 1..c}  u == Hosts!Uniques(places)
  <2>1. PICK d : Enumerates(u, d, S)
    <3> HIDE DEF u
    <3>1. S = {places[i] : i \in 1..c}
        OBVIOUS
    <3> HIDE DEF S
    <3> QED
        BY <1>6, <1>8, <3>1, UniquesOf DEF u
  <2>2. Hosts!ToSet(u) = S
    <3> HIDE DEF u, S
    <3>1. DOMAIN u = 1..d /\ (\A k \in 1..d : u[k] \in S) /\ \A x \in S : \E k \in 1..d : u[k] = x
        BY <2>1 DEF Enumerates
    <3> QED
        BY <3>1 DEF Hosts!ToSet
  <2>3. {use[1] : use \in S} = {es[p[i]].rule : i \in 1..c}
      BY <1>8
  <2>4. {es[p[i]].rule : i \in 1..c} = {es[i].rule : i \in {p[k] : k \in 1..c}}
      OBVIOUS
  <2>5. T = {p[k] : k \in 1..c} /\ e.uses = u
      BY <1>1, <1>4 DEF Keeps, ListsPlaces
  <2> HIDE DEF S, u
  <2>6. {use[1] : use \in S} = {es[i].rule : i \in T}
      BY ONLY <2>3, <2>4, <2>5, Zenon
  <2>7. Hosts!ToSet(e.uses) = S
      BY ONLY <2>2, <2>5, Zenon
  <2> QED
      BY ONLY <2>6, <2>7, Zenon
<1>12. e.samples = samples /\ e.stats = Hosts!SumStats(samples)
    BY <1>1
<1> QED
    BY <1>9, <1>10, <1>11, <1>12 DEF EndpointIs, e, T

\* b has the endpoints of a host, one for each label.
IsBuckets(b, u, d, es, n, h) ==
    /\ Enumerates(u, d, {es[i].url.label : i \in OfHost(es, n, h)})
    /\ b = [k \in 1..d |-> Hosts!Endpoint(es, h, u[k])]

LEMMA BucketsAre ==
    ASSUME NEW n \in Nat, NEW es \in [1..n -> HostEntries], NEW h, NEW b, NEW u, NEW d,
           IsBuckets(b, u, d, es, n, h)
    PROVE  /\ d \in Nat /\ DOMAIN b = 1..d
           /\ \A k \in 1..d : /\ b[k] = Hosts!Endpoint(es, h, u[k])
                              /\ OfEndpoint(es, n, h, u[k]) # {}
           /\ OfHost(es, n, h) = UNION {OfEndpoint(es, n, h, u[k]) : k \in 1..d}
<1>1. d \in Nat /\ DOMAIN b = 1..d
    BY DEF IsBuckets, Enumerates
<1>2. \A k \in 1..d : b[k] = Hosts!Endpoint(es, h, u[k])
    BY DEF IsBuckets
<1>3. ASSUME NEW k \in 1..d PROVE OfEndpoint(es, n, h, u[k]) # {}
  <2>1. u[k] \in {es[i].url.label : i \in OfHost(es, n, h)}
      BY DEF IsBuckets, Enumerates
  <2> QED
      BY <2>1 DEF OfEndpoint
<1>4. ASSUME NEW i \in OfHost(es, n, h) PROVE \E k \in 1..d : i \in OfEndpoint(es, n, h, u[k])
  <2>1. PICK k \in 1..d : u[k] = es[i].url.label
      BY DEF IsBuckets, Enumerates
  <2> QED
      BY <2>1 DEF OfEndpoint
<1>5. \A k \in 1..d : OfEndpoint(es, n, h, u[k]) \subseteq OfHost(es, n, h)
    BY DEF OfEndpoint
<1>6. OfHost(es, n, h) = UNION {OfEndpoint(es, n, h, u[k]) : k \in 1..d}
    BY <1>4, <1>5
<1> QED
    BY <1>1, <1>2, <1>3, <1>6

\* The sums of the endpoints of a host add up to those of its URLs.
LEMMA BucketSums ==
    ASSUME Hosts!HostsAssumption, NEW n \in Nat, NEW es \in [1..n -> HostEntries], NEW h,
           NEW b, NEW u, NEW d, IsBuckets(b, u, d, es, n, h), NEW key,
           NEW a, a = [k \in 1..d |-> SumOfValues(key, b[k].samples)]
    PROVE  /\ a \in [1..d -> Nat]
           /\ Hosts!Added(a) = SumOf(Counts(es, n, key), n, OfHost(es, n, h))
<1> DEFINE T == OfHost(es, n, h)  v == Counts(es, n, key)
           lab == [i \in T |-> es[i].url.label]
<1>1. v \in [1..n -> Nat]
    BY CountsAreNumbers
<1>2. \A k \in 1..d : /\ b[k] = Hosts!Endpoint(es, h, u[k])
                      /\ OfEndpoint(es, n, h, u[k]) # {}
    BY BucketsAre
<1>3. ASSUME NEW k \in 1..d PROVE a[k] = SumOf(v, n, {i \in T : lab[i] = u[k]})
  <2>1. EndpointIs(b[k], es, n, OfEndpoint(es, n, h, u[k]))
      BY <1>2, EndpointAggregates
  <2>2. OfEndpoint(es, n, h, u[k]) = {i \in T : lab[i] = u[k]}
      BY DEF OfEndpoint
  <2>3. SumOfValues(key, b[k].samples) = SumOf(v, n, OfEndpoint(es, n, h, u[k]))
      BY <2>1 DEF EndpointIs
  <2> QED
      BY <2>2, <2>3
<1>4. Enumerates(u, d, {lab[i] : i \in T})
  <2>1. {lab[i] : i \in T} = {es[i].url.label : i \in T}
      OBVIOUS
  <2>2. Enumerates(u, d, {es[i].url.label : i \in T})
      BY DEF IsBuckets
  <2> QED
      BY ONLY <2>1, <2>2, Zenon
<1>6. DOMAIN a = 1..d /\ a = [k \in 1..d |-> a[k]]
    OBVIOUS
<1> HIDE DEF v, lab, T
<1>7. a \in [1..d -> Nat]
  <2>1. \A k \in 1..d : SumOf(v, n, {i \in T : lab[i] = u[k]}) \in Nat
      BY <1>1, OnlyIs
  <2> QED
      BY <1>3, <1>6, <2>1
<1>8. Hosts!Added(a) = SumOf(v, n, T)
  <2>1. HasLabelSums(a, u, d, lab, v, n, T)
      BY <1>3, <1>4, <1>7 DEF HasLabelSums
  <2> QED
      BY <1>1, <2>1, SumOfLabels
<1> QED
    BY <1>7, <1>8 DEF v, T

\* The endpoints of a host, in the order of their first URLs.
Unsorted(es, h) ==
    Hosts!Mapped(Hosts!Uniques(Hosts!Mapped(Hosts!Filtered(es, LAMBDA e : e.url.host = h),
                                            LAMBDA e : e.url.label)),
                 LAMBDA l : Hosts!Endpoint(es, h, l))

LEMMA UnsortedAreBuckets ==
    ASSUME NEW n \in Nat, NEW es \in [1..n -> HostEntries], NEW h, OfHost(es, n, h) # {}
    PROVE  \E u, d : IsBuckets(Unsorted(es, h), u, d, es, n, h) /\ d # 0
<1> DEFINE T == OfHost(es, n, h)
           own == Hosts!Filtered(es, LAMBDA e : e.url.host = h)
           labels == [k \in DOMAIN own |-> own[k].url.label]
           u == Hosts!Uniques(labels)
<1>1. Unsorted(es, h) = [k \in DOMAIN u |-> Hosts!Endpoint(es, h, u[k])]
    BY DEF Unsorted, Hosts!Mapped
<1>2. T \subseteq 1..n /\ T # {} /\ T = {i \in DOMAIN es : es[i].url.host = h}
    BY DEF OfHost
<1>3. own = Hosts!At(es, Hosts!Ascending(T))
    BY <1>2 DEF Hosts!Filtered
<1> HIDE DEF T, own
<1>4. PICK p, c : Keeps(own, es, n, T, p, c)
    BY <1>2, <1>3, FilteredIs
<1>5. c \in Nat /\ T = {p[k] : k \in 1..c} /\ DOMAIN own = 1..c /\ \A k \in 1..c : own[k] = es[p[k]]
    BY <1>4 DEF Keeps, ListsPlaces, Picked
<1>6. DOMAIN labels = 1..c /\ \A k \in 1..c : labels[k] = es[p[k]].url.label
    BY <1>5
<1> HIDE DEF labels, u
<1> DEFINE S == {es[i].url.label : i \in T}
<1>7. S = {labels[k] : k \in 1..c}
  <2>1. {labels[k] : k \in 1..c} = {es[p[k]].url.label : k \in 1..c}
      BY <1>6
  <2>2. {es[p[k]].url.label : k \in 1..c} = {es[i].url.label : i \in {p[k] : k \in 1..c}}
      OBVIOUS
  <2> QED
      BY ONLY <1>5, <2>1, <2>2, Zenon DEF S
<1>8. S # {}
    BY <1>2
<1> HIDE DEF S
<1>9. PICK d : Enumerates(u, d, S)
    BY <1>5, <1>6, <1>7, UniquesOf DEF u
<1>10. DOMAIN u = 1..d /\ d # 0
    BY <1>8, <1>9 DEF Enumerates
<1>11. IsBuckets(Unsorted(es, h), u, d, es, n, h)
    BY <1>1, <1>9, <1>10 DEF IsBuckets, S, T
<1> QED
    BY <1>10, <1>11

\* Comparing by some number, greater first.
LEMMA GreaterCompares ==
    ASSUME NEW D, NEW f, \A i \in D : f[i] \in Nat,
           NEW less, \A i, j \in D : <<i, j>> \in less <=> f[i] > f[j]
    PROVE  IsComparison(D, less)
<1>1. \A i, j \in D : <<i, j>> \in less => <<j, i>> \notin less
  <2>1. TAKE i, j \in D
  <2>2. f[i] \in Nat /\ f[j] \in Nat /\ (<<i, j>> \in less <=> f[i] > f[j])
        /\ (<<j, i>> \in less <=> f[j] > f[i])
      OBVIOUS
  <2> QED
      BY <2>2
<1>2. \A i, j, k \in D : <<i, k>> \in less => <<i, j>> \in less \/ <<j, k>> \in less
  <2>1. TAKE i, j, k \in D
  <2>2. f[i] \in Nat /\ f[j] \in Nat /\ f[k] \in Nat /\ (<<i, j>> \in less <=> f[i] > f[j])
        /\ (<<j, k>> \in less <=> f[j] > f[k]) /\ (<<i, k>> \in less <=> f[i] > f[k])
      OBVIOUS
  <2> QED
      BY <2>2
<1> QED
    BY <1>1, <1>2 DEF IsComparison

SortedEndpoints(b) == Hosts!StableSort(b, LAMBDA l, r : l.stats.bytes > r.stats.bytes)

\* The endpoints that are sorted by traffic are still those of the host.
LEMMA SortedAreBuckets ==
    ASSUME Hosts!HostsAssumption, NEW n \in Nat, NEW es \in [1..n -> HostEntries], NEW h,
           NEW b, NEW u, NEW d, IsBuckets(b, u, d, es, n, h)
    PROVE  \E q, w : /\ Enumerates(q, d, 1..d) /\ IsBuckets(SortedEndpoints(b), w, d, es, n, h)
                     /\ \A k \in 1..d : SortedEndpoints(b)[k] = b[q[k]]
<1> DEFINE D == 1..d  f == [k \in 1..d |-> b[k].stats.bytes]
           less == {p \in D \X D : f[p[1]] > f[p[2]]}
           order == {p \in D \X D : \/ b[p[1]].stats.bytes > b[p[2]].stats.bytes
                                    \/ /\ ~(b[p[2]].stats.bytes > b[p[1]].stats.bytes)
                                       /\ p[1] < p[2]}
<1>1. /\ d \in Nat /\ DOMAIN b = 1..d
      /\ \A k \in 1..d : /\ b[k] = Hosts!Endpoint(es, h, u[k])
                         /\ OfEndpoint(es, n, h, u[k]) # {}
    BY BucketsAre
<1>2. ASSUME NEW k \in D PROVE f[k] \in Nat
  <2>1. EndpointIs(b[k], es, n, OfEndpoint(es, n, h, u[k]))
      BY <1>1, EndpointAggregates
  <2> DEFINE x == b[k].samples
  <2>2. x \in Seq(Stats) /\ b[k].stats = Hosts!SumStats(x)
      BY <2>1 DEF EndpointIs
  <2> HIDE DEF x
  <2>3. Hosts!SumStats(x)["bytes"] = Hosts!Added(ValuesOf("bytes", x))
      BY StatsAreSums DEF SumKeys
  <2>4. Len(x) \in Nat /\ ValuesOf("bytes", x) \in [1..Len(x) -> Nat]
      BY <2>2, SequenceIsArray, ValuesAreNumbers
  <2>5. Hosts!Added(ValuesOf("bytes", x)) \in Nat
      BY <2>4, ArraysHaveSums DEF HasSums
  <2> QED
      BY <2>2, <2>3, <2>5
<1>3. SortedEndpoints(b) = Hosts!At(b, Hosts!InOrder(D, order))
    BY <1>1 DEF SortedEndpoints, Hosts!StableSort
<1>4. \A i, j \in D : <<i, j>> \in less <=> f[i] > f[j]
    OBVIOUS
<1>5. \A i, j \in D : <<i, j>> \in order <=>
               <<i, j>> \in less \/ (<<j, i>> \notin less /\ i < j)
    OBVIOUS
<1> HIDE DEF less, order, f
<1>6. IsComparison(D, less)
    BY <1>2, <1>4, GreaterCompares
<1>7. IsSorting(SortedEndpoints(b), b, d, less)
    BY <1>1, <1>3, <1>5, <1>6, StableSortSorts
<1>8. PICK q : Enumerates(q, d, 1..d) /\ SortedEndpoints(b) = Picked(b, q, d)
    BY <1>7 DEF IsSorting
<1> DEFINE w == Picked(u, q, d)  S == {es[i].url.label : i \in OfHost(es, n, h)}
<1>9. Enumerates(w, d, S)
  <2>1. Enumerates(u, d, S)
      BY DEF IsBuckets
  <2> HIDE DEF S
  <2> QED
      BY <1>8, <2>1, PickedEnumerates
<1>10. \A k \in 1..d : SortedEndpoints(b)[k] = b[q[k]] /\ q[k] \in 1..d
    BY <1>8 DEF Picked, Enumerates
<1>11. \A k \in 1..d : SortedEndpoints(b)[k] = Hosts!Endpoint(es, h, w[k])
    BY <1>1, <1>10 DEF Picked
<1>12. SortedEndpoints(b) = [k \in 1..d |-> Hosts!Endpoint(es, h, w[k])]
  <2>1. SortedEndpoints(b) = [k \in 1..d |-> SortedEndpoints(b)[k]]
      BY <1>8 DEF Picked
  <2> QED
      BY <1>11, <2>1
<1>13. IsBuckets(SortedEndpoints(b), w, d, es, n, h)
    BY <1>9, <1>12 DEF IsBuckets
<1> QED
    BY <1>8, <1>10, <1>13

HostIs(H, es, n, h) ==
    /\ H.host = h /\ H.rules = {es[i].rule : i \in OfHost(es, n, h)}
    /\ \A key \in SumKeys : H.stats[key] = SumOf(Counts(es, n, key), n, OfHost(es, n, h))
    /\ \E u, d : /\ IsBuckets(H.endpoints, u, d, es, n, h)
                 /\ \E k \in 1..d : /\ H.endpoints[k].stats.last = H.stats.last
                                    /\ H.endpoints[k].stats.latency = H.stats.latency

LEMMA HostAggregates ==
    ASSUME Hosts!HostsAssumption, NEW n \in Nat, NEW es \in [1..n -> HostEntries],
           NEW h, OfHost(es, n, h) # {}
    PROVE  HostIs(Hosts!Host(es, h), es, n, h)
<1> DEFINE T == OfHost(es, n, h)  H == Hosts!Host(es, h)  b == Unsorted(es, h)
           own == Hosts!Filtered(es, LAMBDA e : e.url.host = h)
           seqs == [k \in DOMAIN b |-> b[k].samples]
           x == Hosts!FlattenSeq(seqs)
<1>1. /\ H.host = h /\ H.rules = {own[i].rule : i \in DOMAIN own}
      /\ H.stats = Hosts!SumStats(x) /\ H.endpoints = SortedEndpoints(b)
    BY DEF Hosts!Host, Hosts!Mapped, Unsorted, SortedEndpoints
<1>2. H.rules = {es[i].rule : i \in T}
  <2>1. T \subseteq 1..n /\ T = {i \in DOMAIN es : es[i].url.host = h}
      BY DEF OfHost
  <2>2. own = Hosts!At(es, Hosts!Ascending(T))
      BY <2>1 DEF Hosts!Filtered
  <2> HIDE DEF T, own
  <2>3. PICK p, c : Keeps(own, es, n, T, p, c)
      BY <2>1, <2>2, FilteredIs
  <2>4. T = {p[k] : k \in 1..c} /\ DOMAIN own = 1..c /\ \A k \in 1..c : own[k] = es[p[k]]
      BY <2>3 DEF Keeps, ListsPlaces, Picked
  <2>5. {own[i].rule : i \in DOMAIN own} = {es[p[k]].rule : k \in 1..c}
      BY <2>4
  <2>6. {es[p[k]].rule : k \in 1..c} = {es[i].rule : i \in {p[k] : k \in 1..c}}
      OBVIOUS
  <2>7. H.rules = {own[i].rule : i \in DOMAIN own}
      BY <1>1
  <2> HIDE DEF H
  <2> QED
      BY ONLY <2>4, <2>5, <2>6, <2>7, Zenon
<1>3. PICK u, d : IsBuckets(b, u, d, es, n, h) /\ d # 0
    BY UnsortedAreBuckets
<1> HIDE DEF b, H, own, x
<1>4. /\ d \in Nat /\ DOMAIN b = 1..d
      /\ \A k \in 1..d : /\ b[k] = Hosts!Endpoint(es, h, u[k])
                         /\ OfEndpoint(es, n, h, u[k]) # {}
    BY <1>3, BucketsAre
<1>5. ASSUME NEW k \in 1..d
      PROVE  /\ b[k].samples \in Seq(Stats) /\ b[k].samples # <<>>
             /\ b[k].stats = Hosts!SumStats(b[k].samples)
  <2>1. EndpointIs(b[k], es, n, OfEndpoint(es, n, h, u[k]))
      BY <1>4, EndpointAggregates
  <2> QED
      BY <2>1 DEF EndpointIs
<1>6. seqs \in [1..d -> Seq(Stats)] /\ \A k \in 1..d : seqs[k] = b[k].samples /\ seqs[k] # <<>>
    BY <1>4, <1>5
<1>7. Flattens(x, seqs, d)
  <2> HIDE DEF seqs
  <2>1. x = Hosts!FlattenSeq(seqs)
      BY DEF x
  <2> QED
      BY <1>3, <1>4, <1>6, <2>1, FlattenedStats
<1>8. ASSUME NEW key \in SumKeys
      PROVE  H.stats[key] = SumOf(Counts(es, n, key), n, T)
  <2> DEFINE a == [k \in 1..d |-> SumOfValues(key, b[k].samples)]
  <2>1. Hosts!SumStats(x)[key] = SumOfValues(key, x)
      BY StatsAreSums DEF SumOfValues
  <2>2. SumOfValues(key, x) = Hosts!Added([k \in 1..d |-> SumOfValues(key, seqs[k])])
      BY <1>7 DEF Flattens
  <2>3. [k \in 1..d |-> SumOfValues(key, seqs[k])] = a
      BY <1>6
  <2>4. Hosts!Added(a) = SumOf(Counts(es, n, key), n, T)
      BY <1>3, BucketSums
  <2> QED
      BY <1>1, <2>1, <2>2, <2>3, <2>4
<1>9. PICK q, w : /\ Enumerates(q, d, 1..d) /\ IsBuckets(SortedEndpoints(b), w, d, es, n, h)
                  /\ \A k \in 1..d : SortedEndpoints(b)[k] = b[q[k]]
    BY <1>3, SortedAreBuckets
<1>10. \E k \in 1..d : /\ H.endpoints[k].stats.last = H.stats.last
                       /\ H.endpoints[k].stats.latency = H.stats.latency
  <2>1. PICK j \in 1..d : Hosts!Latest(x) = Hosts!Latest(seqs[j])
      BY <1>7 DEF Flattens
  <2>2. PICK k \in 1..d : q[k] = j
      BY <1>9 DEF Enumerates
  <2>3. H.endpoints[k] = b[j] /\ b[j].stats = Hosts!SumStats(seqs[j])
      BY <1>1, <1>5, <1>6, <1>9, <2>2
  <2>4. H.stats = Hosts!SumStats(x)
      BY <1>1
  <2>5. /\ Hosts!SumStats(x).last = Hosts!Latest(x).last
        /\ Hosts!SumStats(x).latency = Hosts!Latest(x).latency
        /\ Hosts!SumStats(seqs[j]).last = Hosts!Latest(seqs[j]).last
        /\ Hosts!SumStats(seqs[j]).latency = Hosts!Latest(seqs[j]).latency
      BY DEF Hosts!SumStats
  <2> QED
      BY <2>1, <2>3, <2>4, <2>5
<1>11. IsBuckets(H.endpoints, w, d, es, n, h)
    BY ONLY <1>1, <1>9, Zenon
<1> HIDE DEF H
<1>12. HostIs(H, es, n, h)
  <2>1. \A key \in SumKeys : H.stats[key] = SumOf(Counts(es, n, key), n, OfHost(es, n, h))
      BY <1>8 DEF T
  <2>2. H.host = h /\ H.rules = {es[i].rule : i \in OfHost(es, n, h)}
      BY <1>1, <1>2 DEF T
  <2> QED
      BY ONLY <1>10, <1>11, <2>1, <2>2, Zenon DEF HostIs
<1> QED
    BY ONLY <1>12 DEF H

\* More traffic comes first, then the name decides.
ByTraffic(H, K) ==
    H.stats.bytes > K.stats.bytes \/ (H.stats.bytes = K.stats.bytes /\ H.host < K.host)

\* hs has the hosts of the first n entries, each once, sorted.
HostsAre(hs, u, c, es, n) ==
    /\ Enumerates(u, c, {es[i].url.host : i \in 1..n})
    /\ hs = [k \in 1..c |-> Hosts!Host(es, u[k])]
    /\ \A j, k \in 1..c : j < k => ByTraffic(hs[j], hs[k])

LEMMA HostNumbers ==
    ASSUME Hosts!HostsAssumption, NEW n \in Nat, NEW es \in [1..n -> HostEntries], NEW h \in Nat,
           NEW H, HostIs(H, es, n, h)
    PROVE  /\ H.host \in Nat /\ H.stats.bytes \in Nat /\ H.stats.dials \in Nat
           /\ H.stats.failures \in Nat /\ H.stats.weighted \in Nat
<1>1. ASSUME NEW key \in SumKeys PROVE H.stats[key] \in Nat
  <2>1. Counts(es, n, key) \in [1..n -> Nat]
      BY CountsAreNumbers
  <2>2. SumOf(Counts(es, n, key), n, OfHost(es, n, h)) \in Nat
      BY <2>1, OnlyIs
  <2> QED
      BY <2>2 DEF HostIs
<1>2. H.host \in Nat
    BY DEF HostIs
<1> QED
    BY <1>1, <1>2 DEF SumKeys

LEMMA HostsOfUrls ==
    ASSUME Hosts!HostsAssumption, NEW n \in Nat, NEW es \in [1..n -> HostEntries], NEW u, NEW c,
           Enumerates(u, c, {es[i].url.host : i \in 1..n}), NEW k \in 1..c
    PROVE  /\ u[k] \in Nat /\ OfHost(es, n, u[k]) # {}
           /\ HostIs(Hosts!Host(es, u[k]), es, n, u[k])
<1>1. ASSUME NEW i \in 1..n PROVE es[i].url.host \in Nat
  <2>1. es[i] \in HostEntries
      OBVIOUS
  <2>2. es[i].url \in URLs
      BY <2>1 DEF HostEntries
  <2> QED
      BY <2>2 DEF Hosts!HostsAssumption
<1>2. PICK i \in 1..n : u[k] = es[i].url.host
    BY DEF Enumerates
<1>3. OfHost(es, n, u[k]) # {}
    BY <1>2 DEF OfHost
<1> QED
    BY <1>1, <1>2, <1>3, HostAggregates

\* The hosts before they are sorted.
UnsortedHosts(es) ==
    Hosts!Mapped(Hosts!Uniques(Hosts!Mapped(es, LAMBDA e : e.url.host)),
                 LAMBDA h : Hosts!Host(es, h))

LEMMA AggregateIsHosts ==
    ASSUME Hosts!HostsAssumption, NEW n \in Nat, NEW es \in [1..n -> HostEntries]
    PROVE  \E u, c : HostsAre(Hosts!AggregateHosts(es), u, c, es, n)
<1> DEFINE urls == [i \in 1..n |-> es[i].url.host]  S == {es[i].url.host : i \in 1..n}
           u == Hosts!Uniques(urls)  b == UnsortedHosts(es)  t == Hosts!AggregateHosts(es)
<1>1. b = [k \in DOMAIN u |-> Hosts!Host(es, u[k])]
    BY DEF UnsortedHosts, Hosts!Mapped
<1>2. PICK c : Enumerates(u, c, S)
  <2>1. DOMAIN urls = 1..n /\ S = {urls[i] : i \in 1..n}
      OBVIOUS
  <2> HIDE DEF urls, S
  <2> QED
      BY <2>1, UniquesOf
<1> HIDE DEF urls, u
<1>3. c \in Nat /\ DOMAIN u = 1..c /\ \A j, k \in 1..c : u[j] = u[k] => j = k
    BY <1>2 DEF Enumerates
<1>4. ASSUME NEW k \in 1..c
      PROVE  /\ b[k] = Hosts!Host(es, u[k]) /\ HostIs(b[k], es, n, u[k]) /\ b[k].host = u[k]
             /\ b[k].host \in Nat /\ b[k].stats.bytes \in Nat
  <2>1. b[k] = Hosts!Host(es, u[k])
      BY <1>1, <1>3
  <2>2. u[k] \in Nat /\ HostIs(b[k], es, n, u[k])
      BY <1>2, <2>1, HostsOfUrls
  <2>3. b[k].host = u[k]
      BY <2>2 DEF HostIs
  <2> QED
      BY <2>1, <2>2, <2>3, HostNumbers
<1> DEFINE D == 1..c
           less == {p \in D \X D : \/ b[p[1]].stats.bytes > b[p[2]].stats.bytes
                                   \/ /\ b[p[1]].stats.bytes = b[p[2]].stats.bytes
                                      /\ b[p[1]].host < b[p[2]].host}
           order == {p \in D \X D : \/ \/ b[p[1]].stats.bytes > b[p[2]].stats.bytes
                                       \/ /\ b[p[1]].stats.bytes = b[p[2]].stats.bytes
                                          /\ b[p[1]].host < b[p[2]].host
                                    \/ /\ ~(\/ b[p[2]].stats.bytes > b[p[1]].stats.bytes
                                            \/ /\ b[p[2]].stats.bytes = b[p[1]].stats.bytes
                                               /\ b[p[2]].host < b[p[1]].host)
                                       /\ p[1] < p[2]}
<1>5. DOMAIN b = D
    BY <1>1, <1>3
<1>6. t = Hosts!At(b, Hosts!InOrder(D, order))
  <2>1. t = Hosts!StableSort(b, LAMBDA l, r : \/ l.stats.bytes > r.stats.bytes
                                              \/ l.stats.bytes = r.stats.bytes /\ l.host < r.host)
      BY DEF UnsortedHosts, Hosts!AggregateHosts
  <2> HIDE DEF b, t
  <2> QED
      BY <1>5, <2>1 DEF Hosts!StableSort
<1> HIDE DEF b, t
<1>7. \A i, j \in D : <<i, j>> \in less <=> ByTraffic(b[i], b[j])
    BY DEF ByTraffic
<1>8. \A i, j \in D : <<i, j>> \in order <=>
               <<i, j>> \in less \/ (<<j, i>> \notin less /\ i < j)
    OBVIOUS
<1> HIDE DEF less, order
<1>9. IsComparison(D, less)
  <2>1. ASSUME NEW i \in D, NEW j \in D PROVE <<i, j>> \in less => <<j, i>> \notin less
      BY <1>4, <1>7 DEF ByTraffic
  <2>2. \A k \in D : b[k].host \in Nat /\ b[k].stats.bytes \in Nat
      BY <1>4
  <2>3. ASSUME NEW i \in D, NEW j \in D, NEW k \in D
        PROVE  <<i, k>> \in less => <<i, j>> \in less \/ <<j, k>> \in less
    <3>1. /\ <<i, k>> \in less <=> ByTraffic(b[i], b[k])
          /\ <<i, j>> \in less <=> ByTraffic(b[i], b[j])
          /\ <<j, k>> \in less <=> ByTraffic(b[j], b[k])
        BY ONLY <1>7, i \in D, j \in D, k \in D
    <3>2. /\ b[i].host \in Nat /\ b[i].stats.bytes \in Nat
          /\ b[j].host \in Nat /\ b[j].stats.bytes \in Nat
          /\ b[k].host \in Nat /\ b[k].stats.bytes \in Nat
        BY ONLY <2>2, i \in D, j \in D, k \in D, Zenon
    <3>3. ByTraffic(b[i], b[k]) => ByTraffic(b[i], b[j]) \/ ByTraffic(b[j], b[k])
        BY ONLY <3>2, SMTT(30) DEF ByTraffic
    <3> QED
        BY ONLY <3>1, <3>3, Zenon
  <2> QED
      BY <2>1, <2>3 DEF IsComparison
<1>10. IsSorting(t, b, c, less)
    BY <1>3, <1>5, <1>6, <1>8, <1>9, StableSortSorts
<1>11. PICK q : /\ Enumerates(q, c, 1..c) /\ t = Picked(b, q, c)
                /\ \A i, j \in 1..c : i < j => \/ <<q[i], q[j]>> \in less
                                               \/ <<q[j], q[i]>> \notin less /\ q[i] < q[j]
    BY <1>10 DEF IsSorting
<1> DEFINE w == Picked(u, q, c)
<1>12. Enumerates(w, c, S)
  <2> HIDE DEF S
  <2> QED
      BY <1>2, <1>11, PickedEnumerates
<1>13. \A k \in 1..c : q[k] \in 1..c /\ t[k] = b[q[k]] /\ w[k] = u[q[k]]
    BY <1>11 DEF Enumerates, Picked
<1>14. t = [k \in 1..c |-> Hosts!Host(es, w[k])]
  <2>1. t = [k \in 1..c |-> t[k]]
      BY <1>11 DEF Picked
  <2>2. \A k \in 1..c : t[k] = Hosts!Host(es, w[k])
      BY <1>4, <1>13
  <2> QED
      BY <2>1, <2>2
<1>15. ASSUME NEW i \in 1..c, NEW j \in 1..c, i < j PROVE ByTraffic(t[i], t[j])
  <2>1. CASE <<q[i], q[j]>> \in less
      BY <1>7, <1>13, <2>1
  <2>2. CASE <<q[j], q[i]>> \notin less /\ q[i] < q[j]
    <3>1. ~ByTraffic(b[q[j]], b[q[i]])
        BY <1>7, <1>13, <2>2
    <3>2. b[q[i]].host # b[q[j]].host
        BY <1>3, <1>4, <1>13, <2>2
    <3> DEFINE H == b[q[i]]  K == b[q[j]]
    <3>3. /\ H.host \in Nat /\ H.stats.bytes \in Nat /\ K.host \in Nat /\ K.stats.bytes \in Nat
          /\ t[i] = H /\ t[j] = K
        BY <1>4, <1>13
    <3>4. ~ByTraffic(K, H) /\ H.host # K.host
        BY <3>1, <3>2
    <3> HIDE DEF H, K
    <3> QED
        BY <3>3, <3>4 DEF ByTraffic
  <2> QED
      BY <1>11, <1>15, <2>1, <2>2
<1>16. HostsAre(t, w, c, es, n)
  <2> HIDE DEF w
  <2> QED
      BY <1>12, <1>14, <1>15 DEF HostsAre
<1> QED
    BY <1>16 DEF t

\* Of some numbers with a place each there is a least and a greatest.
LEMMA ExtremesExist ==
    ASSUME NEW D, IsFiniteSet(D), D # {}, NEW f \in [D -> Nat]
    PROVE  \E low, high \in D : \A i \in D : f[low] <= f[i] /\ f[i] <= f[high]
<1> DEFINE A == {f[i] : i \in D}
<1>1. A # {} /\ A \subseteq Nat
    OBVIOUS
<1>2. \A a \in A : \E i \in D : f[i] = a
    OBVIOUS
<1>3. \A i \in D : f[i] \in A
    OBVIOUS
<1> HIDE DEF A
<1>4. f \in Surjection(D, A)
  <2>1. f \in [D -> A]
      BY <1>3
  <2> QED
      BY <1>2, <2>1 DEF Surjection
<1>5. IsFiniteSet(A)
    BY <1>4, FS_Surjection
<1>6. PICK a \in A : \A x \in A : a <= x
    BY <1>1, <1>5, FirstPlace
<1>7. PICK z \in A : \A x \in A : x <= z
    BY <1>1, <1>5, LastPlace
<1>8. PICK low \in D, high \in D : f[low] = a /\ f[high] = z
    BY <1>2
<1> QED
    BY <1>3, <1>6, <1>7, <1>8

LEMMA MultiplesRise ==
    ASSUME NEW x \in Nat, NEW a \in Nat, NEW b \in Nat, a <= b
    PROVE  a * x \in Nat /\ b * x \in Nat /\ a * x <= b * x /\ x * a = a * x
<1>1. PICK c \in Nat : b = a + c
  <2>1. b - a \in Nat /\ b = a + (b - a)
      OBVIOUS
  <2> QED
      BY <2>1
<1>2. (a + c) * x = a * x + c * x
    OBVIOUS
<1>3. a * x \in Nat /\ c * x \in Nat /\ x * a = a * x
    OBVIOUS
<1> QED
    BY <1>1, <1>2, <1>3

\* Of each of n places v has the weight of g for the dials d but the failures f;
\* at the places T no more failed than were dialed.
Weighs(v, g, d, f, n, T) ==
    /\ v \in [1..n -> Nat] /\ g \in [1..n -> Nat] /\ d \in [1..n -> Nat] /\ f \in [1..n -> Nat]
    /\ \A i \in 1..n : v[i] = Hosts!MaxZero(d[i] - f[i]) * g[i]
    /\ T \subseteq 1..n /\ \A i \in T : f[i] <= d[i]

\* What succeeded at a place of T.
Succeeded(d, f, n, T) == [k \in 1..n |-> IF k \in T THEN d[k] - f[k] ELSE 0]

LEMMA SucceededAt ==
    ASSUME NEW n \in Nat, NEW T, NEW v, NEW g, NEW d, NEW f, Weighs(v, g, d, f, n, T),
           NEW k \in 1..n
    PROVE  /\ Succeeded(d, f, n, T)[k] \in Nat
           /\ k \in T => Succeeded(d, f, n, T)[k] = d[k] - f[k]
           /\ k \notin T => Succeeded(d, f, n, T)[k] = 0
           /\ Only(d, n, T)[k] = Succeeded(d, f, n, T)[k] + Only(f, n, T)[k]
<1>1. d[k] \in Nat /\ f[k] \in Nat
    BY DEF Weighs
<1>2. k \in T => f[k] <= d[k]
    BY DEF Weighs
<1>3. Succeeded(d, f, n, T)[k] = IF k \in T THEN d[k] - f[k] ELSE 0
    BY DEF Succeeded
<1>4. Only(d, n, T)[k] = (IF k \in T THEN d[k] ELSE 0)
      /\ Only(f, n, T)[k] = (IF k \in T THEN f[k] ELSE 0)
    BY DEF Only
<1> DEFINE p == d[k]  q == f[k]  e == Succeeded(d, f, n, T)[k]
           a == Only(d, n, T)[k]  b == Only(f, n, T)[k]
<1>5. p \in Nat /\ q \in Nat /\ (k \in T => q <= p) /\ e = (IF k \in T THEN p - q ELSE 0)
      /\ a = (IF k \in T THEN p ELSE 0) /\ b = (IF k \in T THEN q ELSE 0)
    BY <1>1, <1>2, <1>3, <1>4
<1> HIDE DEF p, q, e, a, b
<1>6. /\ e \in Nat /\ (k \in T => e = p - q) /\ (k \notin T => e = 0) /\ a = e + b
  <2>1. CASE k \in T
      BY <1>5, <2>1
  <2>2. CASE k \notin T
      BY <1>5, <2>2
  <2> QED
      BY <2>1, <2>2
<1> QED
    BY <1>6 DEF p, q, e, a, b

LEMMA SucceededAddUp ==
    ASSUME NEW n \in Nat, NEW T, NEW v, NEW g, NEW d, NEW f, Weighs(v, g, d, f, n, T)
    PROVE  /\ Succeeded(d, f, n, T) \in [1..n -> Nat]
           /\ Hosts!Added(Succeeded(d, f, n, T)) = SumOf(d, n, T) - SumOf(f, n, T)
<1> DEFINE s == Succeeded(d, f, n, T)  a == Only(d, n, T)  b == Only(f, n, T)
<1>1. d \in [1..n -> Nat] /\ f \in [1..n -> Nat]
    BY DEF Weighs
<1>2. \A k \in 1..n : s[k] \in Nat /\ a[k] = s[k] + b[k]
    BY SucceededAt
<1>3. s = [k \in 1..n |-> s[k]]
    BY DEF Succeeded
<1>4. a \in [1..n -> Nat] /\ b \in [1..n -> Nat]
  <2>1. \A u \in [1..n -> Nat] : Only(u, n, T) \in [1..n -> Nat]
      BY OnlyIs
  <2> QED
      BY <1>1, <2>1
<1>5. SumOf(d, n, T) = Hosts!Added(a) /\ SumOf(f, n, T) = Hosts!Added(b)
    BY DEF SumOf
<1> HIDE DEF s, a, b
<1>6. s \in [1..n -> Nat]
    BY <1>2, <1>3
<1>7. Hosts!Added(a) = Hosts!Added(s) + Hosts!Added(b)
  <2>1. \A k \in 1..n : a[k] = s[k] + b[k]
      BY <1>2
  <2> QED
      BY <1>4, <1>6, <2>1, SumsAdd
<1>8. Hosts!Added(s) \in Nat /\ Hosts!Added(b) \in Nat
    BY <1>4, <1>6, ArraysHaveSums DEF HasSums
<1>9. Hosts!Added(s) = SumOf(d, n, T) - SumOf(f, n, T)
    BY <1>5, <1>7, <1>8
<1> QED
    BY <1>6, <1>9 DEF s

\* A weight lies between the least and the greatest of what it weighs.
LEMMA WeightIsBetween ==
    ASSUME NEW n \in Nat, NEW T, NEW v, NEW g, NEW d, NEW f, Weighs(v, g, d, f, n, T),
           NEW k \in T, NEW x \in Nat, NEW y \in Nat, d[k] > f[k] => x <= g[k] /\ g[k] <= y
    PROVE  x * (d[k] - f[k]) <= v[k] /\ v[k] <= y * (d[k] - f[k])
<1> DEFINE c == d[k] - f[k]  z == g[k]  e == v[k]
<1>1. d[k] \in Nat /\ f[k] \in Nat /\ f[k] <= d[k] /\ z \in Nat
    BY DEF Weighs
<1>2. c \in Nat /\ (c > 0 <=> d[k] > f[k])
    BY <1>1
<1>3. e = Hosts!MaxZero(c) * z
    BY DEF Weighs
<1>4. Hosts!MaxZero(c) = c
    BY <1>2 DEF Hosts!MaxZero
<1>5. c > 0 => x <= z /\ z <= y
    BY <1>2
<1> HIDE DEF c, z, e
<1>6. e = c * z
    BY <1>3, <1>4
<1>7. CASE c = 0
  <2>1. 0 * z = 0 /\ x * 0 = 0 /\ y * 0 = 0
      BY <1>1
  <2> QED
      BY <1>6, <1>7, <2>1 DEF c, e
<1>8. CASE c > 0
  <2>1. x * c <= z * c /\ z * c <= y * c
      BY <1>1, <1>2, <1>5, <1>8, MultiplesRise
  <2>2. c * z = z * c
      BY <1>1, <1>2
  <2> QED
      BY <1>6, <2>1, <2>2 DEF c, e
<1> QED
    BY <1>2, <1>7, <1>8

\* The average latency of some URLs is one that they could have together: it lies
\* between those of two URLs that were dialed.
LEMMA AverageIsBetween ==
    ASSUME NEW n \in Nat, NEW T, NEW v, NEW g, NEW d, NEW f, Weighs(v, g, d, f, n, T),
           \E i \in T : d[i] > f[i]
    PROVE  \E low, high \in T :
             /\ d[low] > f[low] /\ d[high] > f[high]
             /\ g[low] * (SumOf(d, n, T) - SumOf(f, n, T)) <= SumOf(v, n, T)
             /\ SumOf(v, n, T) <= g[high] * (SumOf(d, n, T) - SumOf(f, n, T))
<1> DEFINE D == {i \in T : d[i] > f[i]}  s == Succeeded(d, f, n, T)  w == Only(v, n, T)
<1>1. /\ T \subseteq 1..n /\ v \in [1..n -> Nat] /\ g \in [1..n -> Nat]
      /\ \A i \in T : i \in 1..n
    BY DEF Weighs
<1>2. \E low, high \in D : \A i \in D : g[low] <= g[i] /\ g[i] <= g[high]
  <2> DEFINE h == [i \in D |-> g[i]]
  <2>1. D \subseteq 1..n /\ D # {}
      BY <1>1
  <2> HIDE DEF D
  <2>2. IsFiniteSet(D)
      BY <2>1, PlacesAreFinite
  <2>3. h \in [D -> Nat] /\ \A i \in D : h[i] = g[i]
      BY <1>1, <2>1
  <2> HIDE DEF h
  <2>4. PICK l \in D, m \in D : \A i \in D : h[l] <= h[i] /\ h[i] <= h[m]
      BY <2>1, <2>2, <2>3, ExtremesExist
  <2>5. \A i \in D : g[l] <= g[i] /\ g[i] <= g[m]
      BY <2>3, <2>4
  <2> QED
      BY <2>5
<1>3. PICK low \in D, high \in D : \A i \in D : g[low] <= g[i] /\ g[i] <= g[high]
    BY <1>2
<1> DEFINE x == g[low]  y == g[high]
           lows == [k \in 1..n |-> x * s[k]]  highs == [k \in 1..n |-> y * s[k]]
<1>4. x \in Nat /\ y \in Nat
    BY <1>1
<1>5. s \in [1..n -> Nat] /\ Hosts!Added(s) = SumOf(d, n, T) - SumOf(f, n, T)
    BY SucceededAddUp
<1>6. \A k \in 1..n : (k \in T => s[k] = d[k] - f[k]) /\ (k \notin T => s[k] = 0)
    BY SucceededAt
<1>7. w \in [1..n -> Nat] /\ \A k \in 1..n : (k \in T => w[k] = v[k]) /\ (k \notin T => w[k] = 0)
  <2>1. w \in [1..n -> Nat]
      BY <1>1, OnlyIs
  <2>2. \A k \in 1..n : (k \in T => w[k] = v[k]) /\ (k \notin T => w[k] = 0)
      BY DEF Only
  <2> QED
      BY <2>1, <2>2
<1>8. Hosts!Added(w) = SumOf(v, n, T)
    BY DEF SumOf
<1>9. \A i \in T : d[i] > f[i] => x <= g[i] /\ g[i] <= y
    BY <1>3
<1> HIDE DEF x, y, s, w
<1>10. \A a, b \in Nat : a * b \in Nat
    OBVIOUS
<1>11. /\ lows \in [1..n -> Nat] /\ \A k \in 1..n : lows[k] = x * s[k]
       /\ highs \in [1..n -> Nat] /\ \A k \in 1..n : highs[k] = y * s[k]
    BY <1>4, <1>5, <1>10
<1> HIDE DEF lows, highs, D
<1>12. ASSUME NEW k \in 1..n PROVE lows[k] <= w[k] /\ w[k] <= highs[k]
  <2>1. lows[k] = x * s[k] /\ highs[k] = y * s[k]
      BY <1>11
  <2>2. CASE k \in T
    <3>1. s[k] = d[k] - f[k] /\ w[k] = v[k]
        BY <1>6, <1>7, <2>2
    <3>2. d[k] > f[k] => x <= g[k] /\ g[k] <= y
        BY <1>9, <2>2
    <3>3. x * (d[k] - f[k]) <= v[k] /\ v[k] <= y * (d[k] - f[k])
        BY <1>4, <2>2, <3>2, WeightIsBetween
    <3> QED
        BY ONLY <2>1, <3>1, <3>3, Zenon
  <2>3. CASE k \notin T
    <3>1. s[k] = 0 /\ w[k] = 0
        BY <1>6, <1>7, <2>3
    <3>2. x * 0 = 0 /\ y * 0 = 0
        BY <1>4
    <3> QED
        BY <2>1, <3>1, <3>2
  <2> QED
      BY <2>2, <2>3
<1>13. Hosts!Added(lows) = x * Hosts!Added(s) /\ Hosts!Added(highs) = y * Hosts!Added(s)
    BY <1>4, <1>5, <1>11, SumOfMultiples
<1>14. Hosts!Added(lows) <= Hosts!Added(w) /\ Hosts!Added(w) <= Hosts!Added(highs)
    BY <1>7, <1>11, <1>12, SumsBelow
<1>15. low \in T /\ high \in T /\ d[low] > f[low] /\ d[high] > f[high]
    BY DEF D
<1> QED
    BY <1>5, <1>8, <1>13, <1>14, <1>15 DEF x, y

\* The counters of the hosts add up to those of the entries.
LEMMA HostsAddUp ==
    ASSUME Hosts!HostsAssumption, NEW n \in Nat, NEW es \in [1..n -> HostEntries],
           NEW hs, NEW u, NEW c, HostsAre(hs, u, c, es, n), NEW key \in SumKeys,
           NEW a, a = [k \in 1..c |-> hs[k].stats[key]]
    PROVE  Hosts!Added(a) = Hosts!Added(Counts(es, n, key))
<1> DEFINE v == Counts(es, n, key)  T == 1..n  lab == [i \in T |-> es[i].url.host]
<1>1. v \in [1..n -> Nat]
    BY CountsAreNumbers
<1>2. Enumerates(u, c, {es[i].url.host : i \in T}) /\ \A k \in 1..c : hs[k] = Hosts!Host(es, u[k])
    BY DEF HostsAre
<1>3. Enumerates(u, c, {lab[i] : i \in T})
  <2>1. {lab[i] : i \in T} = {es[i].url.host : i \in T}
      OBVIOUS
  <2> QED
      BY ONLY <1>2, <2>1, Zenon
<1>4. ASSUME NEW k \in 1..c PROVE a[k] = SumOf(v, n, {i \in T : lab[i] = u[k]})
  <2>1. HostIs(hs[k], es, n, u[k])
      BY <1>2, HostsOfUrls
  <2>2. a[k] = SumOf(v, n, OfHost(es, n, u[k]))
      BY <2>1 DEF HostIs
  <2>3. OfHost(es, n, u[k]) = {i \in T : lab[i] = u[k]}
      BY DEF OfHost
  <2> QED
      BY <2>2, <2>3
<1>5. DOMAIN a = 1..c /\ a = [k \in 1..c |-> a[k]]
    OBVIOUS
<1> HIDE DEF v, lab, T
<1>6. a \in [1..c -> Nat]
  <2>1. \A k \in 1..c : SumOf(v, n, {i \in T : lab[i] = u[k]}) \in Nat
      BY <1>1, OnlyIs
  <2> QED
      BY <1>4, <1>5, <2>1
<1>7. HasLabelSums(a, u, c, lab, v, n, T)
    BY <1>3, <1>4, <1>6 DEF HasLabelSums
<1>8. Hosts!Added(a) = SumOf(v, n, T)
    BY <1>1, <1>7, SumOfLabels
<1>9. SumOf(v, n, 1..n) = Hosts!Added(v)
    BY <1>1, SumOfAll
<1> QED
    BY <1>8, <1>9 DEF v, T

\* The endpoints of a host as the page has them.
LEMMA EndpointsOfHost ==
    ASSUME Hosts!HostsAssumption, NEW n \in Nat, NEW es \in [1..n -> HostEntries],
           NEW h, NEW b, NEW u, NEW d, IsBuckets(b, u, d, es, n, h), NEW k \in 1..d
    PROVE  EndpointIs(b[k], es, n, OfEndpoint(es, n, h, u[k]))
BY BucketsAre, EndpointAggregates

\* The counters of the endpoints of a host add up to those of the host.
LEMMA EndpointsAddUp ==
    ASSUME Hosts!HostsAssumption, NEW n \in Nat, NEW es \in [1..n -> HostEntries],
           NEW h, NEW H, HostIs(H, es, n, h), NEW key \in SumKeys,
           NEW a, a = [k \in DOMAIN H.endpoints |-> H.endpoints[k].stats[key]]
    PROVE  Hosts!Added(a) = H.stats[key]
<1> DEFINE b == H.endpoints
<1>1. PICK u, d : IsBuckets(b, u, d, es, n, h)
    BY DEF HostIs
<1>2. H.stats[key] = SumOf(Counts(es, n, key), n, OfHost(es, n, h))
    BY DEF HostIs
<1> HIDE DEF b
<1>3. DOMAIN b = 1..d
    BY <1>1, BucketsAre
<1>4. ASSUME NEW k \in 1..d PROVE b[k].stats[key] = SumOfValues(key, b[k].samples)
  <2>1. EndpointIs(b[k], es, n, OfEndpoint(es, n, h, u[k]))
      BY <1>1, EndpointsOfHost
  <2>2. b[k].stats = Hosts!SumStats(b[k].samples)
      BY <2>1 DEF EndpointIs
  <2> DEFINE x == b[k].samples
  <2> HIDE DEF x
  <2>3. Hosts!SumStats(x)[key] = Hosts!Added(ValuesOf(key, x))
      BY StatsAreSums
  <2> QED
      BY <2>2, <2>3 DEF SumOfValues, x
<1>5. a = [k \in 1..d |-> SumOfValues(key, b[k].samples)]
    BY <1>3, <1>4 DEF b
<1>6. Hosts!Added(a) = SumOf(Counts(es, n, key), n, OfHost(es, n, h))
    BY <1>1, <1>5, BucketSums
<1> QED
    BY <1>2, <1>6

LEMMA EndpointsHaveRules ==
    ASSUME Hosts!HostsAssumption, NEW n \in Nat, NEW es \in [1..n -> HostEntries],
           NEW h, NEW H, HostIs(H, es, n, h)
    PROVE  UNION {{use[1] : use \in Hosts!ToSet(H.endpoints[k].uses)} : k \in DOMAIN H.endpoints}
             = H.rules
<1> DEFINE b == H.endpoints  T == OfHost(es, n, h)
           R(k) == {use[1] : use \in Hosts!ToSet(b[k].uses)}
<1>1. PICK u, d : IsBuckets(b, u, d, es, n, h)
    BY DEF HostIs
<1>2. H.rules = {es[i].rule : i \in T}
    BY DEF HostIs
<1> DEFINE E(k) == OfEndpoint(es, n, h, u[k])
<1> HIDE DEF b
<1>3. DOMAIN b = 1..d /\ T = UNION {E(k) : k \in 1..d}
    BY <1>1, BucketsAre
<1>4. ASSUME NEW k \in 1..d PROVE R(k) = {es[i].rule : i \in E(k)}
  <2>1. EndpointIs(b[k], es, n, E(k))
      BY <1>1, EndpointsOfHost
  <2> QED
      BY <2>1 DEF EndpointIs
<1> HIDE DEF R, E, T
<1>5. UNION {R(k) : k \in 1..d} = {es[i].rule : i \in T}
    BY <1>3, <1>4
<1> QED
    BY <1>2, <1>3, <1>5 DEF R, b

\* own has the entries of a host, which are whole, and dialed those that were
\* dialed, if there are any.
AreDialed(own, dialed, es, n, h) ==
    /\ \A i \in OfHost(es, n, h) : es[i] \in own
    /\ \A e \in own : \E i \in OfHost(es, n, h) : e = es[i]
    /\ \A e : e \in dialed <=> e \in own /\ e.stats.dials > e.stats.failures
    /\ dialed # {} /\ \A e \in own : Hosts!Whole(e.stats)

IsBetween(stats, dialed) ==
    \E low, high \in dialed :
      /\ low.stats.average * Hosts!Successes(stats) <= stats.weighted
      /\ stats.weighted <= high.stats.average * Hosts!Successes(stats)

\* Of the URLs of a host.
LEMMA AverageOfHost ==
    ASSUME Hosts!HostsAssumption, NEW n \in Nat, NEW es \in [1..n -> HostEntries],
           NEW h, NEW H, HostIs(H, es, n, h),
           NEW own, NEW dialed, AreDialed(own, dialed, es, n, h)
    PROVE  IsBetween(H.stats, dialed)
<1> DEFINE T == OfHost(es, n, h)
           d == Counts(es, n, "dials")  f == Counts(es, n, "failures")
           v == Counts(es, n, "weighted")  g == [i \in 1..n |-> es[i].stats.average]
<1>1. \A i \in T : i \in 1..n /\ es[i] \in own
    BY DEF OfHost, AreDialed
<1>2. d \in [1..n -> Nat] /\ \A i \in 1..n : d[i] = es[i].stats.dials
    BY CountsAreNumbers DEF ValueOf
<1>3. f \in [1..n -> Nat] /\ \A i \in 1..n : f[i] = es[i].stats.failures
    BY CountsAreNumbers DEF ValueOf
<1>4. v \in [1..n -> Nat] /\ \A i \in 1..n : v[i] = Hosts!Weighted(es[i].stats)
    BY CountsAreNumbers DEF ValueOf
<1>5. g \in [1..n -> Nat] /\ \A i \in 1..n : g[i] = es[i].stats.average
  <2>1. \A i \in 1..n : es[i] \in HostEntries
      OBVIOUS
  <2>2. \A i \in 1..n : es[i].stats \in Stats
      BY <2>1 DEF HostEntries
  <2> QED
      BY <2>2 DEF Hosts!HostsAssumption
<1>6. /\ Hosts!Successes(H.stats) = SumOf(d, n, T) - SumOf(f, n, T)
      /\ H.stats.weighted = SumOf(v, n, T)
  <2>1. /\ H.stats["dials"] = SumOf(d, n, T) /\ H.stats["failures"] = SumOf(f, n, T)
        /\ H.stats["weighted"] = SumOf(v, n, T)
      BY DEF HostIs, SumKeys
  <2> QED
      BY <2>1 DEF Hosts!Successes
<1>7. PICK i \in T : es[i] \in dialed
    BY DEF AreDialed
<1>8. \A k \in T : es[k].stats.failures <= es[k].stats.dials
    BY <1>1 DEF AreDialed, Hosts!Whole
<1>9. \A k \in 1..n : es[k] \in dialed <=> es[k] \in own /\ es[k].stats.dials > es[k].stats.failures
    BY DEF AreDialed
<1> HIDE DEF d, f, v, g, T
<1>10. \A k \in T : f[k] <= d[k]
    BY <1>1, <1>2, <1>3, <1>8
<1>11. \A k \in 1..n : v[k] = Hosts!MaxZero(d[k] - f[k]) * g[k]
    BY <1>2, <1>3, <1>4, <1>5 DEF Hosts!Weighted
<1>12. T \subseteq 1..n
    BY <1>1
<1>13. Weighs(v, g, d, f, n, T)
    BY <1>2, <1>3, <1>4, <1>5, <1>10, <1>11, <1>12 DEF Weighs
<1>14. \E k \in T : d[k] > f[k]
    BY <1>1, <1>2, <1>3, <1>7, <1>9
<1>15. PICK low, high \in T :
         /\ d[low] > f[low] /\ d[high] > f[high]
         /\ g[low] * (SumOf(d, n, T) - SumOf(f, n, T)) <= SumOf(v, n, T)
         /\ SumOf(v, n, T) <= g[high] * (SumOf(d, n, T) - SumOf(f, n, T))
    BY <1>13, <1>14, AverageIsBetween
<1>16. es[low] \in dialed /\ es[high] \in dialed
    BY <1>1, <1>2, <1>3, <1>9, <1>15
<1>17. g[low] = es[low].stats.average /\ g[high] = es[high].stats.average
    BY <1>1, <1>5
<1>18. /\ es[low].stats.average * Hosts!Successes(H.stats) <= H.stats.weighted
       /\ H.stats.weighted <= es[high].stats.average * Hosts!Successes(H.stats)
    BY ONLY <1>6, <1>15, <1>17, Zenon
<1> QED
    BY <1>16, <1>18 DEF IsBetween

\* Fractions that are not below one another from the first to the third.
LEMMA FractionsCompare ==
    ASSUME NEW a \in Nat, NEW b \in Nat, NEW c \in Nat,
           NEW x \in Nat, NEW y \in Nat, NEW z \in Nat, y > 0,
           b * x <= a * y, c * y <= b * z
    PROVE  c * x <= a * z
<1>0. \A p, q \in Nat : p * q \in Nat
    OBVIOUS
<1>1. (c * y) * x <= (b * z) * x
  <2> DEFINE p == c * y  q == b * z
  <2>1. p \in Nat /\ q \in Nat /\ p <= q
      BY <1>0
  <2> HIDE DEF p, q
  <2>2. p * x <= q * x
      BY <2>1, MultiplesRise
  <2> QED
      BY <2>2 DEF p, q
<1>2. (b * x) * z <= (a * y) * z
  <2> DEFINE p == b * x  q == a * y
  <2>1. p \in Nat /\ q \in Nat /\ p <= q
      BY <1>0
  <2> HIDE DEF p, q
  <2>2. p * z <= q * z
      BY <2>1, MultiplesRise
  <2> QED
      BY <2>2 DEF p, q
<1>3. (c * y) * x = (c * x) * y /\ (b * z) * x = (b * x) * z /\ (a * y) * z = (a * z) * y
    OBVIOUS
<1> DEFINE p == c * x  q == a * z  v == (c * y) * x  w == (b * z) * x  e == (a * y) * z
<1>4. p \in Nat /\ q \in Nat /\ v \in Nat /\ w \in Nat /\ e \in Nat
    BY <1>0
<1>5. v <= w /\ w <= e /\ v = p * y /\ e = q * y
    BY <1>1, <1>2, <1>3
<1> HIDE DEF p, q, v, w, e
<1>6. p * y <= q * y
    BY <1>4, <1>5
<1>7. ASSUME q < p PROVE FALSE
  <2>1. q + 1 \in Nat /\ q + 1 <= p
      BY <1>4, <1>7
  <2>2. (q + 1) * y <= p * y
      BY <1>4, <2>1, MultiplesRise
  <2>3. (q + 1) * y = q * y + y
      BY <1>4
  <2>4. q * y \in Nat /\ p * y \in Nat
      BY <1>0, <1>4
  <2> QED
      BY <1>6, <2>2, <2>3, <2>4
<1>8. p <= q
    BY <1>4, <1>7
<1> QED
    BY <1>8 DEF p, q

\* What the controls compare of a host.
Measured(H) ==
    /\ H.host \in Nat /\ H.stats.bytes \in Nat /\ H.stats.dials \in Nat
    /\ H.stats.failures \in Nat /\ H.stats.weighted \in Nat

\* The average latency as a fraction; a host that was not dialed has none.
Numerator(stats) == IF Hosts!Successes(stats) <= 0 THEN 0 ELSE stats.weighted
Denominator(stats) == IF Hosts!Successes(stats) <= 0 THEN 1 ELSE Hosts!Successes(stats)

LEMMA LatencyIsAFraction ==
    ASSUME NEW H, Measured(H), NEW K, Measured(K)
    PROVE  /\ Numerator(H.stats) \in Nat /\ Denominator(H.stats) \in Nat
           /\ Denominator(H.stats) > 0
           /\ Hosts!LatencyBelow(H.stats, K.stats) <=>
                Numerator(H.stats) * Denominator(K.stats)
                  < Numerator(K.stats) * Denominator(H.stats)
<1> DEFINE l == H.stats  r == K.stats
           a == Hosts!Successes(l)  b == Hosts!Successes(r)
<1>1. l.weighted \in Nat /\ r.weighted \in Nat /\ a \in Int /\ b \in Int
    BY DEF Measured, Hosts!Successes
<1> HIDE DEF l, r
<1>2. /\ Numerator(l) = (IF a <= 0 THEN 0 ELSE l.weighted)
      /\ Denominator(l) = (IF a <= 0 THEN 1 ELSE a)
      /\ Numerator(r) = (IF b <= 0 THEN 0 ELSE r.weighted)
      /\ Denominator(r) = (IF b <= 0 THEN 1 ELSE b)
    BY DEF Numerator, Denominator
<1>3. Hosts!LatencyBelow(l, r) = IF a <= 0 THEN b > 0 /\ r.weighted > 0
                                 ELSE IF b <= 0 THEN FALSE
                                 ELSE l.weighted * b < r.weighted * a
    BY DEF Hosts!LatencyBelow
<1> HIDE DEF a, b
<1>4. Numerator(l) \in Nat /\ Denominator(l) \in Nat /\ Denominator(l) > 0
    BY <1>1, <1>2
<1>5. \A p \in Nat : p * 1 = p /\ 0 * p = 0
    OBVIOUS
<1>6. Hosts!LatencyBelow(l, r) <=> Numerator(l) * Denominator(r) < Numerator(r) * Denominator(l)
  <2>1. CASE a <= 0 /\ b <= 0
    <3>1. Numerator(l) = 0 /\ Denominator(l) = 1 /\ Numerator(r) = 0 /\ Denominator(r) = 1
        BY <1>2, <2>1
    <3>2. ~(b > 0)
        BY <1>1, <2>1
    <3>3. ~Hosts!LatencyBelow(l, r)
        BY <1>3, <2>1, <3>2
    <3>4. ~(0 * 1 < 0 * 1)
        OBVIOUS
    <3> QED
        BY <3>1, <3>3, <3>4
  <2>2. CASE a <= 0 /\ b > 0
    <3>1. Numerator(l) = 0 /\ Denominator(l) = 1 /\ Numerator(r) = r.weighted /\ Denominator(r) = b
        BY <1>1, <1>2, <2>2
    <3>2. 0 * b = 0 /\ r.weighted * 1 = r.weighted
        BY <1>1
    <3> QED
        BY <1>1, <1>3, <2>2, <3>1, <3>2
  <2>3. CASE a > 0 /\ b <= 0
    <3>1. Numerator(r) = 0 /\ Denominator(r) = 1 /\ Numerator(l) = l.weighted /\ Denominator(l) = a
        BY <1>1, <1>2, <2>3
    <3>2. 0 * a = 0 /\ l.weighted * 1 = l.weighted
        BY <1>1
    <3>3. ~Hosts!LatencyBelow(l, r)
        BY <1>1, <1>3, <2>3
    <3> QED
        BY <1>1, <3>1, <3>2, <3>3
  <2>4. CASE a > 0 /\ b > 0
    <3>1. /\ Numerator(r) = r.weighted /\ Denominator(r) = b
          /\ Numerator(l) = l.weighted /\ Denominator(l) = a
        BY <1>1, <1>2, <2>4
    <3>0. ~(a <= 0) /\ ~(b <= 0)
        BY <1>1, <2>4
    <3>2. Hosts!LatencyBelow(l, r) <=> l.weighted * b < r.weighted * a
        BY ONLY <1>3, <3>0, Zenon
    <3> QED
        BY <3>1, <3>2
  <2> QED
      BY <1>1, <2>1, <2>2, <2>3, <2>4
<1> QED
    BY <1>4, <1>6 DEF l, r

\* A host is below another or not by a number or fraction that each has.
LEMMA BelowIsAComparison ==
    ASSUME sort.key \in Hosts!Keys, NEW H, Measured(H), NEW K, Measured(K), NEW L, Measured(L)
    PROVE  /\ Hosts!Below(H, K) => ~Hosts!Below(K, H)
           /\ Hosts!Below(H, L) => Hosts!Below(H, K) \/ Hosts!Below(K, L)
<1>1. CASE sort.key = "traffic"
  <2>1. \A A, B : Hosts!Below(A, B) <=> A.stats.bytes < B.stats.bytes
      BY <1>1 DEF Hosts!Below
  <2> QED
      BY <2>1 DEF Measured
<1>2. CASE sort.key = "host"
  <2>1. \A A, B : Hosts!Below(A, B) <=> A.host < B.host
      BY <1>2 DEF Hosts!Below
  <2> QED
      BY <2>1 DEF Measured
<1>3. CASE sort.key = "latency"
  <2>1. \A A, B : Hosts!Below(A, B) <=> Hosts!LatencyBelow(A.stats, B.stats)
      BY <1>3 DEF Hosts!Below
  <2> DEFINE a == Numerator(H.stats)  b == Numerator(K.stats)  c == Numerator(L.stats)
             x == Denominator(H.stats)  y == Denominator(K.stats)  z == Denominator(L.stats)
  <2>2. /\ a \in Nat /\ b \in Nat /\ c \in Nat /\ x \in Nat /\ y \in Nat /\ z \in Nat
        /\ x > 0 /\ y > 0 /\ z > 0
      BY LatencyIsAFraction
  <2>3. /\ Hosts!Below(H, K) <=> a * y < b * x
        /\ Hosts!Below(K, H) <=> b * x < a * y
        /\ Hosts!Below(K, L) <=> b * z < c * y
        /\ Hosts!Below(H, L) <=> a * z < c * x
    <3>1. Hosts!LatencyBelow(H.stats, K.stats) <=> a * y < b * x
        BY LatencyIsAFraction
    <3>2. Hosts!LatencyBelow(K.stats, H.stats) <=> b * x < a * y
        BY LatencyIsAFraction
    <3>3. Hosts!LatencyBelow(K.stats, L.stats) <=> b * z < c * y
        BY LatencyIsAFraction
    <3>4. Hosts!LatencyBelow(H.stats, L.stats) <=> a * z < c * x
        BY LatencyIsAFraction
    <3> HIDE DEF a, b, c, x, y, z
    <3> QED
        BY <2>1, <3>1, <3>2, <3>3, <3>4
  <2> HIDE DEF a, b, c, x, y, z
  <2>4. /\ a * y \in Nat /\ b * x \in Nat /\ b * z \in Nat
        /\ c * y \in Nat /\ a * z \in Nat /\ c * x \in Nat
    <3>1. \A p, q \in Nat : p * q \in Nat
        OBVIOUS
    <3> QED
        BY <2>2, <3>1
  <2>5. b * x <= a * y /\ c * y <= b * z => c * x <= a * z
      BY <2>2, FractionsCompare
  <2> DEFINE p == a * y  q == b * x  r == b * z  s == c * y  t == a * z  v == c * x
  <2>6. /\ p \in Nat /\ q \in Nat /\ r \in Nat /\ s \in Nat /\ t \in Nat /\ v \in Nat
        /\ q <= p /\ s <= r => v <= t
      BY <2>4, <2>5
  <2>7. /\ Hosts!Below(H, K) <=> p < q
        /\ Hosts!Below(K, H) <=> q < p
        /\ Hosts!Below(K, L) <=> r < s
        /\ Hosts!Below(H, L) <=> t < v
      BY <2>3
  <2> HIDE DEF p, q, r, s, t, v
  <2> QED
      BY <2>6, <2>7
<1> QED
    BY <1>1, <1>2, <1>3 DEF Hosts!Keys

\* The hosts that are shown, sorted as the user chose, are in the order of the
\* hosts where they tie.
LEMMA TiesStay ==
    ASSUME sort.key \in Hosts!Keys, sort.direction \in {"ascending", "descending"},
           NEW c \in Nat, DOMAIN hosts = 1..c, \A k \in 1..c : Measured(hosts[k])
    PROVE  \E d, q : /\ d \in Nat /\ DOMAIN Hosts!Shown = 1..d
                     /\ \A i \in 1..d : q[i] \in 1..c /\ Hosts!Shown[i] = hosts[q[i]]
                     /\ \A i, j \in 1..d :
                          (/\ i < j /\ ~Hosts!Below(Hosts!Shown[i], Hosts!Shown[j])
                           /\ ~Hosts!Below(Hosts!Shown[j], Hosts!Shown[i])) => q[i] < q[j]
<1> DEFINE F == Hosts!FilterHosts
           T == {i \in 1..c : \/ query = 0 \/ hosts[i].host = query
                              \/ \E k \in DOMAIN hosts[i].endpoints :
                                   hosts[i].endpoints[k].endpoint = query}
<1>1. F = Hosts!At(hosts, Hosts!Ascending(T)) /\ T \subseteq 1..c
    BY DEF Hosts!FilterHosts, Hosts!Filtered
<1> HIDE DEF F, T
<1>2. PICK p, d : Keeps(F, hosts, c, T, p, d)
    BY <1>1, FilteredIs
<1>3. /\ d \in Nat /\ DOMAIN F = 1..d /\ \A k \in 1..d : p[k] \in 1..c /\ F[k] = hosts[p[k]]
      /\ \A j, k \in 1..d : j < k => p[j] < p[k]
    BY <1>2 DEF Keeps, ListsPlaces, Picked, Ascends
<1> DEFINE D == 1..d
           below == {e \in D \X D : Hosts!Below(F[e[1]], F[e[2]])}
           less == {e \in D \X D :
                      IF sort.direction = "ascending" THEN Hosts!Below(F[e[1]], F[e[2]])
                      ELSE Hosts!Below(F[e[2]], F[e[1]])}
           order == {e \in D \X D :
                       \/ IF sort.direction = "ascending" THEN Hosts!Below(F[e[1]], F[e[2]])
                          ELSE Hosts!Below(F[e[2]], F[e[1]])
                       \/ /\ ~(IF sort.direction = "ascending" THEN Hosts!Below(F[e[2]], F[e[1]])
                               ELSE Hosts!Below(F[e[1]], F[e[2]]))
                          /\ e[1] < e[2]}
<1>4. Hosts!Shown = Hosts!At(F, Hosts!InOrder(D, order))
  <2>1. Hosts!Shown
          = Hosts!StableSort(F, LAMBDA l, r : IF sort.direction = "ascending"
                                              THEN Hosts!Below(l, r) ELSE Hosts!Below(r, l))
      BY DEF Hosts!Shown, Hosts!SortHosts, F
  <2> QED
      BY <1>3, <2>1 DEF Hosts!StableSort
<1>5. \A i, j \in D : <<i, j>> \in below <=> Hosts!Below(F[i], F[j])
    OBVIOUS
<1>6. \A i, j \in D : <<i, j>> \in less <=> IF sort.direction = "ascending" THEN <<i, j>> \in below
                                           ELSE <<j, i>> \in below
    OBVIOUS
<1>7. \A i, j \in D : <<i, j>> \in order <=>
               <<i, j>> \in less \/ (<<j, i>> \notin less /\ i < j)
    OBVIOUS
<1> HIDE DEF below, less, order
<1>8. IsComparison(D, below)
  <2>1. \A k \in D : Measured(F[k])
      BY <1>3
  <2>2. \A i, j \in D : <<i, j>> \in below => <<j, i>> \notin below
      BY <1>5, <2>1, BelowIsAComparison
  <2>3. ASSUME NEW i \in D, NEW j \in D, NEW k \in D
        PROVE  <<i, k>> \in below => <<i, j>> \in below \/ <<j, k>> \in below
    <3>1. Hosts!Below(F[i], F[k]) => Hosts!Below(F[i], F[j]) \/ Hosts!Below(F[j], F[k])
        BY <2>1, BelowIsAComparison
    <3> QED
        BY <1>5, <3>1
  <2> QED
      BY <2>2, <2>3 DEF IsComparison
<1>9. IsComparison(D, less)
  <2> HIDE DEF D
  <2>1. CASE sort.direction = "ascending"
      BY <1>6, <1>8, <2>1 DEF IsComparison
  <2>2. CASE sort.direction # "ascending"
    <3>1. \A i, j \in D : <<i, j>> \in less <=> <<j, i>> \in below
        BY <1>6, <2>2
    <3> QED
        BY <1>8, <3>1, ConverseCompares
  <2> QED
      BY <2>1, <2>2
<1>10. IsSorting(Hosts!Shown, F, d, less)
    BY <1>3, <1>4, <1>7, <1>9, StableSortSorts
<1>11. PICK q : /\ Enumerates(q, d, 1..d) /\ Hosts!Shown = Picked(F, q, d)
                /\ \A i, j \in 1..d : i < j => \/ <<q[i], q[j]>> \in less
                                               \/ <<q[j], q[i]>> \notin less /\ q[i] < q[j]
    BY <1>10 DEF IsSorting
<1>12. \A i \in 1..d : q[i] \in 1..d /\ Hosts!Shown[i] = F[q[i]]
    BY <1>11 DEF Enumerates, Picked
<1> DEFINE w == [i \in 1..d |-> p[q[i]]]
<1>13. DOMAIN Hosts!Shown = 1..d
    BY <1>11 DEF Picked
<1>14. \A i \in 1..d : w[i] \in 1..c /\ Hosts!Shown[i] = hosts[w[i]]
    BY <1>3, <1>12
<1>15. ASSUME NEW i \in 1..d, NEW j \in 1..d, i < j,
              ~Hosts!Below(Hosts!Shown[i], Hosts!Shown[j]),
              ~Hosts!Below(Hosts!Shown[j], Hosts!Shown[i])
       PROVE  w[i] < w[j]
  <2>1. <<q[i], q[j]>> \notin below /\ <<q[j], q[i]>> \notin below
      BY <1>5, <1>12, <1>15
  <2>2. <<q[i], q[j]>> \notin less
      BY <1>6, <1>12, <2>1
  <2>3. q[i] < q[j]
      BY <1>11, <1>15, <2>2
  <2> QED
      BY <1>3, <1>12, <2>3
<1> QED
    BY <1>3, <1>13, <1>14, <1>15

\* The hosts are those of the entries, and the controls hold what a user can choose.
HostsInv ==
    /\ Hosts!HostsAssumption /\ entries \in Seq(HostEntries)
    /\ sort \in [key : Hosts!Keys, direction : {"ascending", "descending"}] /\ query \in Nat
    /\ \E u, c : HostsAre(hosts, u, c, entries, Len(entries))

LEMMA HostsInit ==
    ASSUME Hosts!HostsAssumption, Hosts!Init
    PROVE  HostsInv
<1> DEFINE es == <<>>  u == <<>>
<1>1. entries = es /\ hosts = <<>> /\ query = 0
      /\ sort = [key |-> "traffic", direction |-> "descending"]
    BY DEF Hosts!Init
<1>2. es \in Seq(HostEntries) /\ Len(es) = 0
    OBVIOUS
<1>3. {es[i].url.host : i \in 1..0} = {}
    OBVIOUS
<1>4. Enumerates(u, 0, {})
    BY DEF Enumerates
<1>5. hosts = [k \in 1..0 |-> Hosts!Host(es, u[k])]
    BY <1>1
<1> HIDE DEF es, u
<1>6. HostsAre(hosts, u, 0, es, 0)
    BY <1>3, <1>4, <1>5 DEF HostsAre
<1> QED
    BY <1>1, <1>2, <1>6 DEF HostsInv, Hosts!Keys

LEMMA HostsStep ==
    ASSUME HostsInv, Hosts!Next
    PROVE  HostsInv'
<1>1. CASE Hosts!Report
  <2>1. PICK p \in Uses, a \in URLs, s \in Stats :
          entries' = Append(entries, [rule |-> p[1], way |-> p[2], index |-> p[3],
                                      url |-> a, stats |-> s])
      BY <1>1 DEF Hosts!Report
  <2>2. p[1] \in Nat /\ p[2] \in {1, 2} /\ p[3] \in Nat
      BY DEF HostsInv, Hosts!HostsAssumption
  <2>3. [rule |-> p[1], way |-> p[2], index |-> p[3], url |-> a, stats |-> s] \in HostEntries
      BY <2>2 DEF HostEntries
  <2>4. entries' \in Seq(HostEntries)
      BY <2>1, <2>3 DEF HostsInv
  <2>5. Len(entries') \in Nat /\ entries' \in [1..Len(entries') -> HostEntries]
      BY <2>4, SequenceIsArray
  <2>6. hosts' = Hosts!AggregateHosts(entries') /\ sort' = sort /\ query' = query
      BY <1>1 DEF Hosts!Report
  <2>7. Hosts!HostsAssumption
      BY DEF HostsInv
  <2> DEFINE es == entries'  n == Len(es)  hs == hosts'
  <2>8. \E u, c : HostsAre(hs, u, c, es, n)
    <3>1. n \in Nat /\ es \in [1..n -> HostEntries] /\ hs = Hosts!AggregateHosts(es)
        BY <2>5, <2>6
    <3> HIDE DEF es, n, hs
    <3> QED
        BY <2>7, <3>1, AggregateIsHosts
  <2> QED
      BY <2>4, <2>6, <2>7, <2>8 DEF HostsInv
<1>2. CASE Hosts!Search
  <2>1. query' \in Nat /\ UNCHANGED <<entries, hosts, sort>>
      BY <1>2 DEF Hosts!Search, HostsInv, Hosts!HostsAssumption
  <2> QED
      BY <2>1 DEF HostsInv
<1>3. CASE Hosts!SortBy
  <2>1. /\ sort' \in [key : Hosts!Keys, direction : {"ascending", "descending"}]
        /\ UNCHANGED <<entries, hosts, query>>
      BY <1>3 DEF Hosts!SortBy, HostsInv
  <2> QED
      BY <2>1 DEF HostsInv
<1>4. CASE Hosts!FlipDirection
  <2>1. /\ sort' \in [key : Hosts!Keys, direction : {"ascending", "descending"}]
        /\ UNCHANGED <<entries, hosts, query>>
      BY <1>4 DEF Hosts!FlipDirection, HostsInv
  <2> QED
      BY <2>1 DEF HostsInv
<1> QED
    BY <1>1, <1>2, <1>3, <1>4 DEF Hosts!Next

LEMMA HostsRest ==
    ASSUME HostsInv, UNCHANGED vars
    PROVE  HostsInv'
<1>1. UNCHANGED <<entries, hosts, sort, query>>
    BY DEF vars
<1> QED
    BY <1>1 DEF HostsInv

\* What a page has of the n entries es, in hosts hs.
LEMMA TotalsConserve ==
    ASSUME Hosts!HostsAssumption, NEW n \in Nat, entries \in [1..n -> HostEntries],
           NEW u, NEW c, HostsAre(hosts, u, c, entries, n)
    PROVE  /\ Hosts!OfHosts(LAMBDA s : s.bytes) = Hosts!OfEntries(LAMBDA s : s.bytes)
           /\ Hosts!OfHosts(LAMBDA s : s.dials) = Hosts!OfEntries(LAMBDA s : s.dials)
<1>1. DOMAIN hosts = 1..c /\ DOMAIN entries = 1..n
    BY DEF HostsAre
<1>2. ASSUME NEW key \in SumKeys
      PROVE  Hosts!Added([k \in 1..c |-> hosts[k].stats[key]])
               = Hosts!Added(Counts(entries, n, key))
  <2> DEFINE a == [k \in 1..c |-> hosts[k].stats[key]]
  <2>1. a = [k \in 1..c |-> hosts[k].stats[key]]
      OBVIOUS
  <2> HIDE DEF a
  <2>2. Hosts!Added(a) = Hosts!Added(Counts(entries, n, key))
      BY <2>1, HostsAddUp
  <2> QED
      BY <2>2 DEF a
<1>3. Hosts!OfHosts(LAMBDA s : s.bytes) = Hosts!OfEntries(LAMBDA s : s.bytes)
  <2>1. Hosts!OfHosts(LAMBDA s : s.bytes) = Hosts!Added([k \in 1..c |-> hosts[k].stats["bytes"]])
      BY <1>1 DEF Hosts!OfHosts, Hosts!Total, Hosts!Mapped
  <2>2. Hosts!OfEntries(LAMBDA s : s.bytes) = Hosts!Added(Counts(entries, n, "bytes"))
      BY <1>1 DEF Hosts!OfEntries, Hosts!Total, Hosts!Mapped, Counts, ValueOf
  <2> QED
      BY <1>2, <2>1, <2>2 DEF SumKeys
<1>4. Hosts!OfHosts(LAMBDA s : s.dials) = Hosts!OfEntries(LAMBDA s : s.dials)
  <2>1. Hosts!OfHosts(LAMBDA s : s.dials) = Hosts!Added([k \in 1..c |-> hosts[k].stats["dials"]])
      BY <1>1 DEF Hosts!OfHosts, Hosts!Total, Hosts!Mapped
  <2>2. Hosts!OfEntries(LAMBDA s : s.dials) = Hosts!Added(Counts(entries, n, "dials"))
      BY <1>1 DEF Hosts!OfEntries, Hosts!Total, Hosts!Mapped, Counts, ValueOf
  <2> QED
      BY <1>2, <2>1, <2>2 DEF SumKeys
<1> QED
    BY <1>3, <1>4

\* What a host shows of its URLs.
HostConserves(h) ==
    LET ends == Hosts!Mapped(h.endpoints, LAMBDA e : e.stats)
    IN  /\ h.stats.bytes = Hosts!Total(ends, LAMBDA s : s.bytes)
        /\ h.stats.weighted = Hosts!Total(ends, LAMBDA s : s.weighted)
        /\ LET own == {e \in Hosts!ToSet(entries) : e.url.host = h.host}
               dialed == {e \in own : e.stats.dials > e.stats.failures}
           IN  (dialed # {} /\ \A e \in own : Hosts!Whole(e.stats)) =>
                 \E low, high \in dialed :
                   /\ low.stats.average * Hosts!Successes(h.stats) <= h.stats.weighted
                   /\ h.stats.weighted <= high.stats.average * Hosts!Successes(h.stats)
        /\ \E k \in DOMAIN ends : /\ ends[k].last = h.stats.last
                                  /\ ends[k].latency = h.stats.latency
        /\ UNION {{use[1] : use \in Hosts!ToSet(h.endpoints[k].uses)} : k \in DOMAIN ends}
             = h.rules

LEMMA HostShows ==
    ASSUME Hosts!HostsAssumption, NEW n \in Nat, entries \in [1..n -> HostEntries],
           NEW h, NEW H, HostIs(H, entries, n, h)
    PROVE  HostConserves(H)
<1> DEFINE ends == Hosts!Mapped(H.endpoints, LAMBDA e : e.stats)
           own == {e \in Hosts!ToSet(entries) : e.url.host = H.host}
           dialed == {e \in own : e.stats.dials > e.stats.failures}
<1>1. H.host = h
    BY DEF HostIs
<1>2. ASSUME NEW key \in SumKeys
      PROVE  Hosts!Added([k \in DOMAIN H.endpoints |-> H.endpoints[k].stats[key]])
               = H.stats[key]
  <2> DEFINE a == [k \in DOMAIN H.endpoints |-> H.endpoints[k].stats[key]]
  <2>1. a = [k \in DOMAIN H.endpoints |-> H.endpoints[k].stats[key]]
      OBVIOUS
  <2> HIDE DEF a
  <2>2. Hosts!Added(a) = H.stats[key]
      BY <2>1, EndpointsAddUp
  <2> QED
      BY <2>2 DEF a
<1>3. DOMAIN ends = DOMAIN H.endpoints
      /\ \A k \in DOMAIN ends : ends[k] = H.endpoints[k].stats
    BY DEF Hosts!Mapped
<1>4. H.stats.bytes = Hosts!Total(ends, LAMBDA s : s.bytes)
  <2>1. Hosts!Total(ends, LAMBDA s : s.bytes)
          = Hosts!Added([k \in DOMAIN H.endpoints |-> H.endpoints[k].stats["bytes"]])
      BY DEF Hosts!Total, Hosts!Mapped
  <2> QED
      BY <1>2, <2>1 DEF SumKeys
<1>5. H.stats.weighted = Hosts!Total(ends, LAMBDA s : s.weighted)
  <2>1. Hosts!Total(ends, LAMBDA s : s.weighted)
          = Hosts!Added([k \in DOMAIN H.endpoints |-> H.endpoints[k].stats["weighted"]])
      BY DEF Hosts!Total, Hosts!Mapped
  <2> QED
      BY <1>2, <2>1 DEF SumKeys
<1>6. (dialed # {} /\ \A e \in own : Hosts!Whole(e.stats)) =>
        \E low, high \in dialed :
          /\ low.stats.average * Hosts!Successes(H.stats) <= H.stats.weighted
          /\ H.stats.weighted <= high.stats.average * Hosts!Successes(H.stats)
  <2>1. Hosts!ToSet(entries) = {entries[i] : i \in 1..n}
      BY DEF Hosts!ToSet
  <2>2. own = {e \in {entries[i] : i \in 1..n} : e.url.host = h}
      BY <1>1, <2>1
  <2>3. /\ \A i \in OfHost(entries, n, h) : entries[i] \in own
        /\ \A e \in own : \E i \in OfHost(entries, n, h) : e = entries[i]
      BY <2>2 DEF OfHost
  <2>4. \A e : e \in dialed <=> e \in own /\ e.stats.dials > e.stats.failures
      OBVIOUS
  <2> HIDE DEF own, dialed, ends
  <2>5. ASSUME dialed # {}, \A e \in own : Hosts!Whole(e.stats)
        PROVE  IsBetween(H.stats, dialed)
    <3>1. AreDialed(own, dialed, entries, n, h)
        BY <2>3, <2>4, <2>5 DEF AreDialed
    <3> QED
        BY <3>1, AverageOfHost
  <2> QED
      BY <2>5 DEF IsBetween
<1>7. \E k \in DOMAIN ends : ends[k].last = H.stats.last /\ ends[k].latency = H.stats.latency
  <2>1. PICK u, d : /\ IsBuckets(H.endpoints, u, d, entries, n, h)
                    /\ \E k \in 1..d : /\ H.endpoints[k].stats.last = H.stats.last
                                       /\ H.endpoints[k].stats.latency = H.stats.latency
      BY DEF HostIs
  <2>2. DOMAIN H.endpoints = 1..d
      BY <2>1, BucketsAre
  <2> QED
      BY <1>3, <2>1, <2>2
<1>8. UNION {{use[1] : use \in Hosts!ToSet(H.endpoints[k].uses)} : k \in DOMAIN ends} = H.rules
  <2>1. UNION {{use[1] : use \in Hosts!ToSet(H.endpoints[k].uses)} : k \in DOMAIN H.endpoints}
          = H.rules
      BY EndpointsHaveRules
  <2> DEFINE R(k) == {use[1] : use \in Hosts!ToSet(H.endpoints[k].uses)}
  <2>2. UNION {R(k) : k \in DOMAIN H.endpoints} = H.rules
      BY <2>1
  <2> HIDE DEF R, ends
  <2>3. UNION {R(k) : k \in DOMAIN ends} = H.rules
      BY <1>3, <2>2
  <2> QED
      BY <2>3 DEF R
<1> QED
    BY <1>4, <1>5, <1>6, <1>7, <1>8 DEF HostConserves

\* The page as HostsConserve has it.
LEMMA HostsShow ==
    ASSUME HostsInv
    PROVE  Hosts!HostsTypeOK /\ Hosts!HostsConserve
<1> DEFINE n == Len(entries)
<1>1. /\ Hosts!HostsAssumption /\ n \in Nat /\ entries \in [1..n -> HostEntries]
      /\ DOMAIN entries = 1..n
    BY SequenceIsArray DEF HostsInv
<1>2. PICK u, c : HostsAre(hosts, u, c, entries, n)
    BY DEF HostsInv
<1> HIDE DEF n
<1>3. /\ Enumerates(u, c, {entries[i].url.host : i \in 1..n}) /\ DOMAIN hosts = 1..c
      /\ \A k \in 1..c : hosts[k] = Hosts!Host(entries, u[k])
      /\ \A j, k \in 1..c : j < k => ByTraffic(hosts[j], hosts[k])
    BY <1>2 DEF HostsAre
<1>4. c \in Nat /\ \A j, k \in 1..c : u[j] = u[k] => j = k
    BY <1>3 DEF Enumerates
<1>5. ASSUME NEW k \in 1..c
      PROVE  u[k] \in Nat /\ HostIs(hosts[k], entries, n, u[k])
    BY <1>1, <1>3, HostsOfUrls
<1>6. ASSUME NEW k \in 1..c PROVE Measured(hosts[k])
  <2>1. u[k] \in Nat /\ HostIs(hosts[k], entries, n, u[k])
      BY <1>5
  <2> QED
      BY <1>1, <2>1, HostNumbers DEF Measured
<1>7. Hosts!HostsTypeOK
  <2>1. c <= n
    <3> DEFINE lab == [i \in 1..n |-> entries[i].url.host]
    <3>1. {lab[i] : i \in 1..n} = {entries[i].url.host : i \in 1..n}
        OBVIOUS
    <3>2. Enumerates(u, c, {lab[i] : i \in 1..n})
        BY ONLY <1>3, <3>1, Zenon
    <3> HIDE DEF lab
    <3> QED
        BY <1>1, <3>2, EnumeratesWithin
  <2>2. Len(hosts) = c
    <3>1. hosts = [k \in 1..c |-> Hosts!Host(entries, u[k])]
        BY <1>2 DEF HostsAre
    <3> QED
        BY <1>4, <3>1
  <2>3. \A i \in DOMAIN entries : entries[i].url \in URLs /\ entries[i].stats \in Stats
    <3>1. \A i \in DOMAIN entries : entries[i] \in HostEntries
        BY <1>1
    <3> QED
        BY <3>1 DEF HostEntries
  <2> QED
      BY <2>1, <2>2, <2>3 DEF HostsInv, Hosts!HostsTypeOK, n
<1>8. /\ Hosts!OfHosts(LAMBDA s : s.bytes) = Hosts!OfEntries(LAMBDA s : s.bytes)
      /\ Hosts!OfHosts(LAMBDA s : s.dials) = Hosts!OfEntries(LAMBDA s : s.dials)
    BY <1>1, <1>2, TotalsConserve
<1>9. \A i, j \in DOMAIN hosts : hosts[i].host = hosts[j].host => i = j
    BY <1>3, <1>4, <1>5 DEF HostIs
<1>10. \A i \in DOMAIN hosts : HostConserves(hosts[i])
  <2> SUFFICES ASSUME NEW i \in 1..c PROVE HostConserves(hosts[i])
      BY <1>3
  <2>1. HostIs(hosts[i], entries, n, u[i])
      BY <1>5
  <2> QED
      BY <1>1, <2>1, HostShows
<1> DEFINE show == Hosts!Shown
<1>11. \A i, j \in DOMAIN show :
         (i < j /\ ~Hosts!Below(show[i], show[j]) /\ ~Hosts!Below(show[j], show[i])) =>
           ByTraffic(show[i], show[j])
  <2>1. sort.key \in Hosts!Keys /\ sort.direction \in {"ascending", "descending"}
      BY DEF HostsInv
  <2>2. PICK d, q : /\ d \in Nat /\ DOMAIN show = 1..d
                    /\ \A i \in 1..d : q[i] \in 1..c /\ show[i] = hosts[q[i]]
                    /\ \A i, j \in 1..d :
                         (/\ i < j /\ ~Hosts!Below(show[i], show[j])
                          /\ ~Hosts!Below(show[j], show[i])) => q[i] < q[j]
      BY <1>3, <1>4, <1>6, <2>1, TiesStay
  <2> HIDE DEF show
  <2> QED
      BY <1>3, <2>2
<1>12. Hosts!HostsConserve
    BY <1>8, <1>9, <1>10, <1>11 DEF Hosts!HostsConserve, HostConserves, ByTraffic
<1> QED
    BY <1>7, <1>12
=============================================================================
