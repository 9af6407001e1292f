------------------------------ MODULE SumsProofs ------------------------------
(***************************************************************************)
(* What is known of sums over finite sets, whatever the order in which the *)
(* elements are added up.  The library defines such a sum by a recursive   *)
(* function on the subsets of a set; that there is one is proved here, as  *)
(* all else, from the least set for which it would not hold.               *)
(***************************************************************************)
EXTENDS Sums, FiniteSetTheorems, WellFoundedInduction, TLAPS

\* A nonempty set of finite sets has a member of which no other is a subset.
LEMMA LeastSet ==
  ASSUME NEW S, IsFiniteSet(S), NEW D \in SUBSET (SUBSET S), D # {}
  PROVE  \E s \in D : \A t \in D : t \subseteq s => t = s
<1>1. IsWellFoundedOn(StrictSubsetOrdering(S), SUBSET S)
    BY FS_StrictSubsetOrderingWellFounded, FS_FiniteSubsetsOfFinite
<1>2. \E s \in D : \A t \in D : <<t, s>> \notin StrictSubsetOrdering(S)
    BY <1>1, WFMin
<1>3. QED
    BY <1>2 DEF StrictSubsetOrdering

Some(S) == CHOOSE x \in S : TRUE

\* g adds up f over every subset of S.
AddsUp(g, f, S) ==
  g = [s \in SUBSET S |-> IF s = {} THEN 0 ELSE f[Some(s)] + g[s \ {Some(s)}]]

\* The library's sum is what such a function gives for the whole set.
LEMMA SumIsChosen == \A f, S : SumOver(f, S) = (CHOOSE g : AddsUp(g, f, S))[S]
BY DEF SumOver, MapThenSumSet, MapThenFoldSet, AddsUp, Some

\* Two such functions agree where both are defined.
LEMMA SumIsUnique ==
  ASSUME NEW f, NEW S, IsFiniteSet(S), NEW T \in SUBSET S,
         NEW g, AddsUp(g, f, S), NEW h, AddsUp(h, f, T)
  PROVE  g[T] = h[T]
<1> DEFINE Bad == {s \in SUBSET T : g[s] # h[s]}
<1>1. IsFiniteSet(T)
    BY FS_Subset
<1>2. Bad = {}
    <2>1. SUFFICES ASSUME Bad # {} PROVE FALSE
        OBVIOUS
    <2>2. Bad \in SUBSET (SUBSET T)
        OBVIOUS
    <2>3. PICK s \in Bad : \A t \in Bad : t \subseteq s => t = s
        <3> HIDE DEF Bad
        <3>1. QED
            BY <2>1, <2>2, <1>1, LeastSet
    <2>4. s # {} /\ s \in SUBSET T
        BY DEF AddsUp
    <2>5. Some(s) \in s
        BY <2>4 DEF Some
    <2>6. g[s \ {Some(s)}] = h[s \ {Some(s)}]
        BY <2>3, <2>5
    <2>7. g[s] = h[s]
        BY <2>4, <2>6 DEF AddsUp
    <2>8. QED
        BY <2>7
<1>3. QED
    BY <1>2

\* There is such a function for every finite set: the sum over a set is put
\* together of those over its proper subsets.
LEMMA SumExists == ASSUME NEW f, NEW S, IsFiniteSet(S) PROVE \E g : AddsUp(g, f, S)
<1> DEFINE Bad == {s \in SUBSET S : ~ \E g : AddsUp(g, f, s)}
<1>1. Bad = {}
    <2>1. SUFFICES ASSUME Bad # {} PROVE FALSE
        OBVIOUS
    <2>2. Bad \in SUBSET (SUBSET S)
        OBVIOUS
    <2>3. PICK s \in Bad : \A t \in Bad : t \subseteq s => t = s
        <3> HIDE DEF Bad
        <3>1. QED
            BY <2>1, <2>2, LeastSet
    <2> DEFINE G(t) == CHOOSE g : AddsUp(g, f, t)
               rest(t) == t \ {Some(t)}
               g == [t \in SUBSET s |->
                       IF t = {} THEN 0 ELSE f[Some(t)] + G(rest(t))[rest(t)]]
    <2>4. \A t \in SUBSET s : t # {} => Some(t) \in t
        BY DEF Some
    <2>5. \A t \in SUBSET s : t # s => AddsUp(G(t), f, t)
        BY <2>3
    <2>6. \A t \in SUBSET s : t # s => g[t] = G(t)[t]
        <3>1. SUFFICES ASSUME NEW t \in SUBSET s, t # s PROVE g[t] = G(t)[t]
            OBVIOUS
        <3>2. AddsUp(G(t), f, t)
            BY <2>5, <3>1
        <3>3. CASE t = {}
            BY <3>2, <3>3 DEF AddsUp
        <3>4. CASE t # {}
            <4>1. rest(t) \in SUBSET t /\ rest(t) \in SUBSET s /\ rest(t) # s
                BY <2>4, <3>4
            <4>2. AddsUp(G(rest(t)), f, rest(t))
                BY <2>5, <4>1
            <4>3. IsFiniteSet(t)
                BY FS_Subset
            <4>4. G(t)[rest(t)] = G(rest(t))[rest(t)]
                BY <3>2, <4>1, <4>2, <4>3, SumIsUnique
            <4>5. G(t)[t] = f[Some(t)] + G(t)[rest(t)]
                BY <3>2, <3>4 DEF AddsUp
            <4>6. g[t] = f[Some(t)] + G(rest(t))[rest(t)]
                BY <3>4
            <4>7. QED
                BY <4>4, <4>5, <4>6
        <3>5. QED
            BY <3>3, <3>4
    <2>7. \A t \in SUBSET s :
            g[t] = IF t = {} THEN 0 ELSE f[Some(t)] + g[rest(t)]
        <3>1. ASSUME NEW t \in SUBSET s, t # {}
              PROVE  rest(t) \in SUBSET s /\ rest(t) # s
            BY <2>4, <3>1
        <3> HIDE DEF G
        <3>2. QED
            BY <2>6, <3>1
    <2>8. g = [t \in SUBSET s |-> IF t = {} THEN 0 ELSE f[Some(t)] + g[rest(t)]]
        <3> HIDE DEF G, rest
        <3>1. QED
            BY <2>7
    <2>9. AddsUp(g, f, s)
        <3>1. g = [t \in SUBSET s |-> IF t = {} THEN 0 ELSE f[Some(t)] + g[t \ {Some(t)}]]
            BY <2>8
        <3> HIDE DEF g
        <3>2. QED
            BY <3>1 DEF AddsUp
    <2>10. QED
        BY <2>9
<1>2. QED
    BY <1>1

\* The sum over no element, and over one element more.
LEMMA SumEmpty == \A f : SumOver(f, {}) = 0
<1>1. SUFFICES ASSUME NEW f PROVE SumOver(f, {}) = 0
    OBVIOUS
<1>2. AddsUp(CHOOSE g : AddsUp(g, f, {}), f, {})
    BY SumExists, FS_EmptySet
<1>3. QED
    BY <1>2, SumIsChosen DEF AddsUp

\* The sum over a set adds the element chosen from it to the sum over the rest.
LEMMA SumChosen ==
  ASSUME NEW f, NEW S, IsFiniteSet(S), S # {}
  PROVE  SumOver(f, S) = f[Some(S)] + SumOver(f, S \ {Some(S)})
<1> DEFINE T == S \ {Some(S)}
           g == CHOOSE g : AddsUp(g, f, S)
           h == CHOOSE h : AddsUp(h, f, T)
<1>1. T \in SUBSET S /\ IsFiniteSet(T)
    BY FS_Subset
<1>2. AddsUp(g, f, S) /\ AddsUp(h, f, T)
    <2> HIDE DEF T
    <2>1. QED
        BY <1>1, SumExists
<1>3. SumOver(f, S) = g[S] /\ SumOver(f, T) = h[T]
    BY SumIsChosen
<1> HIDE DEF g, h
<1>4. g[T] = h[T]
    BY <1>1, <1>2, SumIsUnique
<1>5. g[S] = f[Some(S)] + g[T]
    BY <1>2 DEF AddsUp
<1>6. QED
    BY <1>3, <1>4, <1>5

\* A sum of natural numbers is one.
LEMMA SumType ==
  ASSUME NEW f, NEW S, IsFiniteSet(S), \A x \in S : f[x] \in Nat
  PROVE  SumOver(f, S) \in Nat
<1> DEFINE Bad == {s \in SUBSET S : SumOver(f, s) \notin Nat}
<1>1. Bad = {}
    <2>1. SUFFICES ASSUME Bad # {} PROVE FALSE
        OBVIOUS
    <2>2. Bad \in SUBSET (SUBSET S)
        OBVIOUS
    <2>3. PICK s \in Bad : \A t \in Bad : t \subseteq s => t = s
        <3> HIDE DEF Bad
        <3>1. QED
            BY <2>1, <2>2, LeastSet
    <2>4. s # {} /\ s \in SUBSET S /\ IsFiniteSet(s)
        <3>1. SumOver(f, {}) = 0
            BY SumEmpty
        <3>2. s \in SUBSET S /\ SumOver(f, s) \notin Nat
            OBVIOUS
        <3> HIDE DEF Bad
        <3>3. s # {}
            BY <3>1, <3>2
        <3>4. QED
            BY <3>2, <3>3, FS_Subset
    <2>5. Some(s) \in s
        BY <2>4 DEF Some
    <2>6. SumOver(f, s \ {Some(s)}) \in Nat
        BY <2>3, <2>4, <2>5
    <2>7. SumOver(f, s) \in Nat
        BY <2>4, <2>5, <2>6, SumChosen
    <2>8. QED
        BY <2>7
<1>2. QED
    BY <1>1

\* Any element may be added last.
LEMMA SumSplit ==
  ASSUME NEW f, NEW S, IsFiniteSet(S), \A x \in S : f[x] \in Nat, NEW a \in S
  PROVE  SumOver(f, S) = f[a] + SumOver(f, S \ {a})
<1> DEFINE Bad == {s \in SUBSET S : \E x \in s : SumOver(f, s) # f[x] + SumOver(f, s \ {x})}
<1>1. Bad = {}
    <2>1. SUFFICES ASSUME Bad # {} PROVE FALSE
        OBVIOUS
    <2>2. Bad \in SUBSET (SUBSET S)
        OBVIOUS
    <2>3. PICK s \in Bad : \A t \in Bad : t \subseteq s => t = s
        <3> HIDE DEF Bad
        <3>1. QED
            BY <2>1, <2>2, LeastSet
    <2>4. PICK x \in s : SumOver(f, s) # f[x] + SumOver(f, s \ {x})
        OBVIOUS
    <2>5. \A t \in SUBSET S : IsFiniteSet(t) /\ SumOver(f, t) \in Nat
        BY FS_Subset, SumType
    <2> DEFINE c == Some(s)
               r == s \ {x, c}
    <2>6. s \in SUBSET S /\ c \in s
        BY DEF Some
    <2>7. SumOver(f, s) = f[c] + SumOver(f, s \ {c})
        BY <2>5, <2>6, SumChosen
    <2>8. c # x
        BY <2>4, <2>7
    <2>9. SumOver(f, s \ {c}) = f[x] + SumOver(f, r)
        <3>1. s \ {c} \notin Bad /\ x \in s \ {c} /\ s \ {c} \in SUBSET S
            BY <2>3, <2>6, <2>8
        <3>2. (s \ {c}) \ {x} = r
            OBVIOUS
        <3>3. QED
            BY <3>1, <3>2
    <2>10. SumOver(f, s \ {x}) = f[c] + SumOver(f, r)
        <3>1. s \ {x} \notin Bad /\ c \in s \ {x} /\ s \ {x} \in SUBSET S
            BY <2>3, <2>6, <2>8
        <3>2. (s \ {x}) \ {c} = r
            OBVIOUS
        <3>3. QED
            BY <3>1, <3>2
    <2>11. f[x] \in Nat /\ f[c] \in Nat /\ SumOver(f, r) \in Nat
        BY <2>5, <2>6
    <2> HIDE DEF c, r
    <2>12. SumOver(f, s) = f[x] + SumOver(f, s \ {x})
        BY <2>7, <2>9, <2>10, <2>11
    <2>13. QED
        BY <2>4, <2>12
<1>2. QED
    BY <1>1

\* It depends on the elements' values only.
LEMMA SumSame ==
  ASSUME NEW f, NEW g, NEW S, IsFiniteSet(S), \A x \in S : f[x] = g[x]
  PROVE  SumOver(f, S) = SumOver(g, S)
<1> DEFINE Bad == {s \in SUBSET S : SumOver(f, s) # SumOver(g, s)}
<1>1. Bad = {}
    <2>1. SUFFICES ASSUME Bad # {} PROVE FALSE
        OBVIOUS
    <2>2. Bad \in SUBSET (SUBSET S)
        OBVIOUS
    <2>3. PICK s \in Bad : \A t \in Bad : t \subseteq s => t = s
        <3> HIDE DEF Bad
        <3>1. QED
            BY <2>1, <2>2, LeastSet
    <2>4. s # {} /\ s \in SUBSET S /\ IsFiniteSet(s)
        BY SumEmpty, FS_Subset
    <2>5. Some(s) \in s
        BY <2>4 DEF Some
    <2>6. SumOver(f, s \ {Some(s)}) = SumOver(g, s \ {Some(s)})
        BY <2>3, <2>4, <2>5
    <2>7. SumOver(f, s) = SumOver(g, s)
        BY <2>4, <2>5, <2>6, SumChosen
    <2>8. QED
        BY <2>7
<1>2. QED
    BY <1>1

\* No element is worth more than the sum.
LEMMA SumBounds ==
  ASSUME NEW f, NEW S, IsFiniteSet(S), \A x \in S : f[x] \in Nat, NEW a \in S
  PROVE  f[a] <= SumOver(f, S)
<1>1. SumOver(f, S \ {a}) \in Nat
    BY SumType, FS_Subset
<1>2. QED
    BY <1>1, SumSplit

\* The sum over two sets with nothing in common.
LEMMA SumUnion ==
  ASSUME NEW f, NEW S, IsFiniteSet(S), NEW T, IsFiniteSet(T), S \cap T = {},
         \A x \in S \cup T : f[x] \in Nat
  PROVE  SumOver(f, S \cup T) = SumOver(f, S) + SumOver(f, T)
<1> DEFINE Bad == {t \in SUBSET T : SumOver(f, S \cup t) # SumOver(f, S) + SumOver(f, t)}
<1>1. Bad = {}
    <2>1. SUFFICES ASSUME Bad # {} PROVE FALSE
        OBVIOUS
    <2>2. Bad \in SUBSET (SUBSET T)
        OBVIOUS
    <2>3. PICK t \in Bad : \A u \in Bad : u \subseteq t => u = t
        <3> HIDE DEF Bad
        <3>1. QED
            BY <2>1, <2>2, LeastSet
    <2>4. \A u \in SUBSET T : /\ IsFiniteSet(u) /\ IsFiniteSet(S \cup u)
                             /\ SumOver(f, S) \in Nat /\ SumOver(f, u) \in Nat
                             /\ SumOver(f, S \cup u) \in Nat
        BY FS_Subset, FS_Union, SumType
    <2>5. t # {}
        <3>1. SumOver(f, S \cup {}) = SumOver(f, S) + SumOver(f, {})
            <4>1. S \cup {} = S
                OBVIOUS
            <4>2. QED
                BY <4>1, <2>4, SumEmpty
        <3>2. QED
            BY <3>1
    <2>6. PICK a \in t : TRUE
        BY <2>5
    <2> DEFINE r == t \ {a}
    <2>7. r \in SUBSET T /\ r \notin Bad
        BY <2>3, <2>6
    <2>8. SumOver(f, S \cup r) = SumOver(f, S) + SumOver(f, r)
        BY <2>7
    <2>9. SumOver(f, t) = f[a] + SumOver(f, r)
        BY <2>4, <2>6, SumSplit
    <2>10. SumOver(f, S \cup t) = f[a] + SumOver(f, S \cup r)
        <3>1. (S \cup t) \ {a} = S \cup r
            BY <2>6
        <3>2. \A x \in S \cup t : f[x] \in Nat
            OBVIOUS
        <3>3. IsFiniteSet(S \cup t) /\ a \in S \cup t
            BY <2>4, <2>6
        <3>4. SumOver(f, S \cup t) = f[a] + SumOver(f, (S \cup t) \ {a})
            BY <3>2, <3>3, SumSplit
        <3>5. QED
            BY <3>1, <3>4
    <2>11. /\ SumOver(f, S) \in Nat /\ SumOver(f, r) \in Nat /\ f[a] \in Nat
           /\ t \in SUBSET T
        BY <2>4, <2>6, <2>7
    <2> HIDE DEF r
    <2>12. SumOver(f, S \cup t) = SumOver(f, S) + SumOver(f, t)
        BY <2>8, <2>9, <2>10, <2>11
    <2>13. QED
        BY <2>12
<1>2. QED
    BY <1>1

\* A nonempty set of numbers has a least one, which is what the library's Min
\* chooses.
LEMMA MinIsLeast ==
  ASSUME NEW N \in SUBSET Nat, N # {}
  PROVE  Min(N) \in N /\ \A n \in N : Min(N) <= n
<1>1. PICK n \in N : TRUE
    OBVIOUS
<1> DEFINE Upto == {0..m : m \in {k \in N : k <= n}}
<1>2. IsFiniteSet(0..n)
    <2>1. 0 \in Int /\ n \in Int
        BY <1>1
    <2>2. QED
        BY <2>1, FS_Interval
<1> DEFINE D == {s \in SUBSET (0..n) : s \in Upto}
<1>3. 0..n \in D
    BY <1>1
<1>4. PICK s \in D : \A t \in D : t \subseteq s => t = s
    <2> DEFINE S == 0..n
    <2>1. IsFiniteSet(S) /\ D \in SUBSET (SUBSET S) /\ D # {}
        BY <1>2, <1>3
    <2> HIDE DEF D, S
    <2>2. QED
        BY <2>1, LeastSet
<1>5. PICK m \in N : m <= n /\ s = 0..m
    OBVIOUS
<1>6. \A k \in N : m <= k
    <2>1. SUFFICES ASSUME NEW k \in N, k < m PROVE FALSE
        BY <1>5
    <2>2. 0..k \in D /\ 0..k \subseteq s
        BY <1>1, <1>5, <2>1
    <2>3. m \in 0..m /\ m \notin 0..k
        BY <2>1
    <2>4. QED
        BY <1>4, <1>5, <2>2, <2>3
<1>7. QED
    BY <1>6 DEF Min

\* A nonempty finite set of numbers has a greatest one, the library's Max.
LEMMA MaxIsGreatest ==
  ASSUME NEW n \in Nat, NEW N \in SUBSET (0..n), N # {}
  PROVE  Max(N) \in N /\ \A k \in N : k <= Max(N)
<1> DEFINE Bounds == {b \in Nat : \A k \in N : k <= b}
<1>1. n \in Bounds /\ Bounds \in SUBSET Nat
    OBVIOUS
<1>2. Min(Bounds) \in Bounds /\ \A b \in Bounds : Min(Bounds) <= b
    BY <1>1, MinIsLeast
<1> DEFINE m == Min(Bounds)
<1>3. m \in Nat /\ (\A k \in N : k <= m) /\ \A b \in Bounds : m <= b
    BY <1>2
<1> HIDE DEF m
<1>4. m \in N
    <2>1. SUFFICES ASSUME m \notin N PROVE FALSE
        OBVIOUS
    <2>2. \A k \in N : k \in Nat /\ k <= m /\ k # m
        BY <1>3, <2>1
    <2>3. m # 0
        <3>1. PICK k \in N : TRUE
            OBVIOUS
        <3>2. QED
            BY <1>3, <2>2, <3>1
    <2>4. m - 1 \in Nat /\ \A k \in N : k <= m - 1
        BY <1>3, <2>2, <2>3
    <2>5. QED
        BY <1>3, <2>4
<1>5. QED
    BY <1>3, <1>4 DEF Max

\* Induction up to N, for a set.
LEMMA Climb ==
  ASSUME NEW N \in Nat, NEW S, 0 \in S, \A n \in Nat : n < N /\ n \in S => n + 1 \in S
  PROVE  \A n \in 0..N : n \in S
<1> DEFINE Bad == {n \in 0..N : n \notin S}
<1>1. SUFFICES ASSUME Bad # {} PROVE FALSE
    OBVIOUS
<1>2. Min(Bad) \in Bad /\ \A n \in Bad : Min(Bad) <= n
    <2>1. Bad \in SUBSET Nat
        OBVIOUS
    <2> HIDE DEF Bad
    <2>2. QED
        BY <1>1, <2>1, MinIsLeast
<1>3. PICK m \in Bad : \A n \in Bad : m <= n
    BY <1>2
<1>4. m \in Nat /\ m # 0 /\ m <= N /\ m \notin S
    OBVIOUS
<1>5. m - 1 \in Nat /\ m - 1 < N /\ m - 1 \notin Bad /\ m - 1 \in 0..N
    BY <1>3, <1>4
<1>6. m - 1 \in S
    BY <1>5
<1>7. (m - 1) + 1 \in S
    BY <1>5, <1>6
<1>8. QED
    BY <1>4, <1>7
=============================================================================
