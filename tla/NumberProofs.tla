---------------------------- MODULE NumberProofs ----------------------------
(***************************************************************************)
(* What the proofs need of numbers: the least of a set, and sums over a    *)
(* finite set, which the models take with the folds of the community       *)
(* modules.  A sum is a recursive function of the set; that it can be taken*)
(* apart follows from the least counterexample, by size, to it.            *)
(***************************************************************************)
EXTENDS FiniteSetsExt, FiniteSetTheorems, WellFoundedInduction, TLAPS

\* Every set of numbers has a least one: what the inductions below rest on.
LEMMA LeastNumber ==
    ASSUME NEW T \in SUBSET Nat, T # {}
    PROVE  \E n \in T : \A m \in T : n <= m
<1>1. \E n \in T : \A m \in T : ~ (<<m, n>> \in OpToRel(<, Nat))
    <2> HIDE DEF IsWellFoundedOn
    <2> QED BY NatLessThanWellFounded, WFMin
<1>2. PICK n \in T : \A m \in T : ~ (<<m, n>> \in OpToRel(<, Nat))
    BY <1>1
<1>3. ASSUME NEW m \in T PROVE n <= m
    <2>1. ~(m < n) BY <1>2 DEF OpToRel
    <2> QED BY <2>1
<1> QED BY <1>3

\* Of a set of numbers the least one is taken.
LEMMA MinIsLeast ==
    ASSUME NEW S \in SUBSET Nat, S # {}
    PROVE  Min(S) \in S /\ \A n \in S : Min(S) <= n
  BY LeastNumber DEF Min

\* And of two numbers the greatest.
LEMMA MaxOfTwo ==
    ASSUME NEW a \in Nat, NEW b \in Nat
    PROVE  Max({a, b}) \in {a, b} /\ Max({a, b}) >= a /\ Max({a, b}) >= b
<1>1. \E x \in {a, b} : \A y \in {a, b} : x >= y
    <2>1. CASE a >= b BY <2>1
    <2>2. CASE b >= a BY <2>2
    <2> QED BY <2>1, <2>2
<1> QED BY <1>1 DEF Max

-----------------------------------------------------------------------------
(* Sums over finite sets.                                                 *)

\* The sum that MapThenSumSet computes, for a function.
SumOver(f, S) == MapThenSumSet(LAMBDA s : f[s], S)

\* The element that the fold takes next, and the table of the partial sums
\* that its recursive definition builds.
Pick(u) == CHOOSE x \in u : TRUE
IsIter(f, g, S) == g = [u \in SUBSET S |-> IF u = {} THEN 0 ELSE f[Pick(u)] + g[u \ {Pick(u)}]]

\* The sum over S is the last entry of the table.
LEMMA SumIs ==
  ASSUME NEW f, NEW S
  PROVE SumOver(f, S) = (CHOOSE g : IsIter(f, g, S))[S]
BY DEF SumOver, MapThenSumSet, MapThenFoldSet, Pick, IsIter

\* The element taken is one of the set, and a smaller set is left.
LEMMA PickIn == ASSUME NEW u, u # {} PROVE Pick(u) \in u /\ u \ {Pick(u)} \subseteq u
BY DEF Pick

\* The rest is finite and smaller by one.
LEMMA Smaller ==
  ASSUME NEW u, IsFiniteSet(u), u # {}
  PROVE  /\ IsFiniteSet(u \ {Pick(u)})
         /\ Cardinality(u \ {Pick(u)}) \in Nat /\ Cardinality(u) \in Nat
         /\ Cardinality(u \ {Pick(u)}) < Cardinality(u)
<1>1. Pick(u) \in u BY PickIn
<1>2. IsFiniteSet(u \ {Pick(u)}) /\ Cardinality(u \ {Pick(u)}) = Cardinality(u) - 1
    BY <1>1, FS_RemoveElement
<1> QED BY <1>2, FS_CardinalityType

\* The running sums over two sets agree where both are defined.
LEMMA IterAgrees ==
  ASSUME NEW f, NEW g, NEW h, NEW S, NEW T, IsIter(f, g, S), IsIter(f, h, T),
         NEW u, IsFiniteSet(u), u \subseteq S, u \subseteq T
  PROVE  g[u] = h[u]
<1> DEFINE Bad == {n \in Nat : \E v \in SUBSET (S \intersect T) :
                       IsFiniteSet(v) /\ Cardinality(v) = n /\ g[v] # h[v]}
<1>1. Bad = {}
    <2> SUFFICES ASSUME Bad # {} PROVE FALSE OBVIOUS
    <2>1. PICK n \in Bad : \A m \in Bad : n <= m
        BY LeastNumber
    <2>2. PICK v \in SUBSET (S \intersect T) :
              IsFiniteSet(v) /\ Cardinality(v) = n /\ g[v] # h[v]
        BY <2>1
    <2>3. v # {}
        BY <2>2 DEF IsIter
    <2> DEFINE w == v \ {Pick(v)}
    <2>4. w \in SUBSET (S \intersect T) /\ IsFiniteSet(w) /\ Cardinality(w) \in Nat
          /\ Cardinality(w) < n
        BY <2>2, <2>3, Smaller, PickIn
    <2>5. g[w] = h[w]
        BY <2>1, <2>4
    <2>6. g[v] = f[Pick(v)] + g[w] /\ h[v] = f[Pick(v)] + h[w]
        BY <2>2, <2>3 DEF IsIter
    <2> QED BY <2>2, <2>5, <2>6
<1>2. Cardinality(u) \in Nat BY FS_CardinalityType
<1> QED BY <1>1, <1>2

\* The table exists for every finite set.
LEMMA IterExists ==
  ASSUME NEW f, NEW S, IsFiniteSet(S)
  PROVE  \E g : IsIter(f, g, S)
<1> DEFINE Bad == {n \in Nat : \E v \in SUBSET S : Cardinality(v) = n /\ ~\E g : IsIter(f, g, v)}
<1>0. \A v \in SUBSET S : IsFiniteSet(v) BY FS_Subset
<1>1. Bad = {}
    <2> SUFFICES ASSUME Bad # {} PROVE FALSE OBVIOUS
    <2>1. PICK n \in Bad : \A m \in Bad : n <= m
        BY LeastNumber
    <2>2. PICK v \in SUBSET S : Cardinality(v) = n /\ ~\E g : IsIter(f, g, v)
        BY <2>1
    <2> DEFINE it(w) == CHOOSE g : IsIter(f, g, w)
               Less(w) == w \ {Pick(w)}
               G == [u \in SUBSET v |-> IF u = {} THEN 0 ELSE f[Pick(u)] + it(Less(u))[Less(u)]]
    <2>3. ASSUME NEW u \in SUBSET v, u # {} PROVE IsIter(f, it(Less(u)), Less(u))
        <3>1. u \in SUBSET S /\ IsFiniteSet(u) /\ IsFiniteSet(v) BY <1>0
        <3>2. Cardinality(u) <= Cardinality(v) /\ Cardinality(v) \in Nat
            BY <3>1, FS_Subset, FS_CardinalityType
        <3>3. Cardinality(Less(u)) \in Nat /\ Cardinality(Less(u)) < Cardinality(u)
                 /\ Less(u) \in SUBSET S /\ Cardinality(u) \in Nat
            BY <2>3, <3>1, Smaller
        <3>4. Cardinality(Less(u)) < n /\ n \in Nat BY <3>2, <3>3, <2>2
        <3>5. ~ (Cardinality(Less(u)) \in Bad)
            <4> HIDE DEF Bad
            <4> QED BY <2>1, <3>4, <3>3
        <3>6. \E g : IsIter(f, g, Less(u)) BY <3>3, <3>5
        <3> HIDE DEF Less
        <3> QED BY <3>6
    <2>4. ASSUME NEW u \in SUBSET v PROVE u # {} => G[Less(u)] = it(Less(u))[Less(u)]
        <3> SUFFICES ASSUME u # {} PROVE G[Less(u)] = it(Less(u))[Less(u)] OBVIOUS
        <3> DEFINE w == Less(u)
        <3>1. w \in SUBSET v /\ IsFiniteSet(w) BY <1>0
        <3>2. IsIter(f, it(w), w) BY <2>3
        <3>3. CASE w = {} BY <3>1, <3>2, <3>3 DEF IsIter
        <3>4. CASE w # {}
            <4>1. IsIter(f, it(Less(w)), Less(w)) BY <3>1, <3>4, <2>3
            <4>2. G[w] = f[Pick(w)] + it(Less(w))[Less(w)] BY <3>1, <3>4
            <4>3. it(w)[w] = f[Pick(w)] + it(w)[Less(w)] BY <3>2, <3>4 DEF IsIter
            <4>4. it(w)[Less(w)] = it(Less(w))[Less(w)]
                <5>1. IsFiniteSet(Less(w)) BY <3>1, <1>0
                <5> HIDE DEF it
                <5> QED BY <5>1, <4>1, <3>2, IterAgrees
            <4> QED BY <4>2, <4>3, <4>4
        <3> QED BY <3>3, <3>4
    <2>5. IsIter(f, G, v)
        <3>1. \A u \in SUBSET v : G[u] = IF u = {} THEN 0 ELSE f[Pick(u)] + G[Less(u)]
            <4> SUFFICES ASSUME NEW u \in SUBSET v
                         PROVE G[u] = IF u = {} THEN 0 ELSE f[Pick(u)] + G[Less(u)]
                OBVIOUS
            <4>1. G[u] = IF u = {} THEN 0 ELSE f[Pick(u)] + it(Less(u))[Less(u)] OBVIOUS
            <4> HIDE DEF G, it
            <4> QED BY <2>4, <4>1
        <3>2. G = [u \in SUBSET v |-> G[u]] OBVIOUS
        <3> HIDE DEF G, it
        <3> QED BY <3>1, <3>2 DEF IsIter
    <2> QED BY <2>2, <2>5
<1>2. Cardinality(S) \in Nat BY FS_CardinalityType
<1> QED BY <1>1, <1>2

\* The sum over a set is the element taken and the sum over the rest.
LEMMA SumIter ==
  ASSUME NEW f, NEW S, IsFiniteSet(S)
  PROVE  /\ SumOver(f, {}) = 0
         /\ S # {} => SumOver(f, S) = f[Pick(S)] + SumOver(f, S \ {Pick(S)})
<1> DEFINE it(v) == CHOOSE g : IsIter(f, g, v)
<1>1. \A v \in SUBSET S : IsIter(f, it(v), v)
    <2> SUFFICES ASSUME NEW v \in SUBSET S PROVE IsIter(f, it(v), v) OBVIOUS
    <2>1. \E g : IsIter(f, g, v) BY FS_Subset, IterExists
    <2> QED BY <2>1
<1>2. \A v : SumOver(f, v) = it(v)[v] BY SumIs
<1> HIDE DEF it
<1>3. SumOver(f, {}) = 0 BY <1>1, <1>2 DEF IsIter
<1>4. ASSUME S # {} PROVE SumOver(f, S) = f[Pick(S)] + SumOver(f, S \ {Pick(S)})
    <2> DEFINE w == S \ {Pick(S)}
    <2>1. it(S)[S] = f[Pick(S)] + it(S)[w] BY <1>1, <1>4 DEF IsIter
    <2>2. IsFiniteSet(w) BY FS_Subset
    <2>3. it(S)[w] = it(w)[w] BY <1>1, <2>2, IterAgrees
    <2> QED BY <1>2, <2>1, <2>3
<1> QED BY <1>3, <1>4

\* Sums of numbers are numbers, and any element may be taken out of a sum.
LEMMA SumSplits ==
  ASSUME NEW D, NEW f \in [D -> Nat], NEW S \in SUBSET D, IsFiniteSet(S)
  PROVE  /\ SumOver(f, S) \in Nat
         /\ \A x \in S : SumOver(f, S) = f[x] + SumOver(f, S \ {x})
<1> DEFINE Good(v) == /\ SumOver(f, v) \in Nat
                      /\ \A x \in v : SumOver(f, v) = f[x] + SumOver(f, v \ {x})
           Bad == {n \in Nat : \E v \in SUBSET S : Cardinality(v) = n /\ ~Good(v)}
<1>0. \A v \in SUBSET S : IsFiniteSet(v) BY FS_Subset
<1>1. Bad = {}
    <2> SUFFICES ASSUME Bad # {} PROVE FALSE OBVIOUS
    <2>1. PICK n \in Bad : \A m \in Bad : n <= m
        BY LeastNumber
    <2>2. PICK v \in SUBSET S : Cardinality(v) = n /\ ~Good(v)
        BY <2>1
    <2>3. ASSUME NEW u \in SUBSET v, u # v PROVE Good(u)
        <3>1. IsFiniteSet(v) BY <1>0
        <3>2. Cardinality(u) < Cardinality(v) /\ Cardinality(u) \in Nat
            BY <2>3, <3>1, FS_Subset, FS_CardinalityType
        <3>3. n \in Nat /\ ~(Cardinality(u) \in Bad)
            <4>1. n \in Nat OBVIOUS
            <4> HIDE DEF Bad
            <4> QED BY <4>1, <2>1, <2>2, <3>2
        <3> QED BY <3>2, <3>3
    <2>4. v # {}
        <3> SUFFICES ASSUME v = {} PROVE FALSE OBVIOUS
        <3>1. SumOver(f, {}) = 0 BY SumIter
        <3> QED BY <2>2, <3>1
    <2> DEFINE p == Pick(v)  w == v \ {p}
    <2>5. p \in v /\ p \in D BY <2>4, PickIn
    <2>6. SumOver(f, v) = f[p] + SumOver(f, w) BY <1>0, <2>4, SumIter
    <2>7. Good(w) BY <2>3, <2>5
    <2>8. SumOver(f, v) \in Nat BY <2>5, <2>6, <2>7
    <2>9. ASSUME NEW x \in v PROVE SumOver(f, v) = f[x] + SumOver(f, v \ {x})
        <3>1. CASE x = p BY <2>6, <3>1
        <3>2. CASE x # p
            <4>1. x \in w /\ p \in v \ {x} /\ x \in D BY <2>5, <2>9, <3>2
            <4>2. SumOver(f, w) = f[x] + SumOver(f, w \ {x}) BY <2>7, <4>1
            <4>3. Good(v \ {x}) /\ Good(w \ {x}) BY <2>3, <4>1
            <4>4. SumOver(f, v \ {x}) = f[p] + SumOver(f, (v \ {x}) \ {p}) BY <4>1, <4>3
            <4>5. (v \ {x}) \ {p} = w \ {x} OBVIOUS
            <4>6. SumOver(f, w \ {x}) \in Nat BY <4>3
            <4>7. f[x] \in Nat /\ f[p] \in Nat BY <4>1, <2>5
            <4>8. SumOver(f, v) = f[p] + (f[x] + SumOver(f, w \ {x})) BY <2>6, <4>2
            <4>9. SumOver(f, v \ {x}) = f[p] + SumOver(f, w \ {x}) BY <4>4, <4>5
            <4> HIDE DEF w, p
            <4> QED BY <4>6, <4>7, <4>8, <4>9
        <3> QED BY <3>1, <3>2
    <2> QED BY <2>2, <2>8, <2>9
<1>2. Cardinality(S) \in Nat BY FS_CardinalityType
<1> QED BY <1>1, <1>2

\* A sum depends on the summands only.
LEMMA SumAgrees ==
  ASSUME NEW f, NEW g, NEW S, IsFiniteSet(S), \A x \in S : f[x] = g[x]
  PROVE  SumOver(f, S) = SumOver(g, S)
<1> DEFINE Bad == {n \in Nat : \E v \in SUBSET S : Cardinality(v) = n /\ SumOver(f, v) # SumOver(g, v)}
<1>0. \A v \in SUBSET S : IsFiniteSet(v) BY FS_Subset
<1>1. Bad = {}
    <2> SUFFICES ASSUME Bad # {} PROVE FALSE OBVIOUS
    <2>1. PICK n \in Bad : \A m \in Bad : n <= m
        BY LeastNumber
    <2>2. PICK v \in SUBSET S : Cardinality(v) = n /\ SumOver(f, v) # SumOver(g, v)
        BY <2>1
    <2>3. v # {}
        <3> SUFFICES ASSUME v = {} PROVE FALSE OBVIOUS
        <3> QED BY <2>2, SumIter
    <2> DEFINE w == v \ {Pick(v)}
    <2>4. Pick(v) \in v /\ w \in SUBSET S /\ Cardinality(w) \in Nat /\ Cardinality(w) < n
        BY <1>0, <2>2, <2>3, Smaller, PickIn
    <2>5. SumOver(f, w) = SumOver(g, w) BY <2>1, <2>4
    <2>6. SumOver(f, v) = f[Pick(v)] + SumOver(f, w) /\ SumOver(g, v) = g[Pick(v)] + SumOver(g, w)
        BY <1>0, <2>3, SumIter
    <2>7. f[Pick(v)] = g[Pick(v)] BY <2>4
    <2> QED BY <2>2, <2>5, <2>6, <2>7
<1>2. Cardinality(S) \in Nat BY FS_CardinalityType
<1> QED BY <1>1, <1>2

\* A sum of zeros is zero.
LEMMA SumOfZeros ==
  ASSUME NEW D, NEW f \in [D -> Nat], NEW S \in SUBSET D, IsFiniteSet(S), \A x \in S : f[x] = 0
  PROVE  SumOver(f, S) = 0
<1> DEFINE Bad == {n \in Nat : \E v \in SUBSET S : Cardinality(v) = n /\ SumOver(f, v) # 0}
<1>0. \A v \in SUBSET S : IsFiniteSet(v) BY FS_Subset
<1>1. Bad = {}
    <2> SUFFICES ASSUME Bad # {} PROVE FALSE OBVIOUS
    <2>1. PICK n \in Bad : \A m \in Bad : n <= m
        BY LeastNumber
    <2>2. PICK v \in SUBSET S : Cardinality(v) = n /\ SumOver(f, v) # 0
        BY <2>1
    <2>3. v # {}
        <3> SUFFICES ASSUME v = {} PROVE FALSE OBVIOUS
        <3> QED BY <2>2, SumIter
    <2> DEFINE w == v \ {Pick(v)}
    <2>4. Pick(v) \in v /\ w \in SUBSET S /\ Cardinality(w) \in Nat /\ Cardinality(w) < n
        BY <1>0, <2>2, <2>3, Smaller, PickIn
    <2>5. SumOver(f, w) = 0 BY <2>1, <2>4
    <2>6. SumOver(f, v) = f[Pick(v)] + SumOver(f, w)
        BY <1>0, <2>3, SumIter
    <2>7. f[Pick(v)] = 0 BY <2>4
    <2> QED BY <2>2, <2>5, <2>6, <2>7
<1>2. Cardinality(S) \in Nat BY FS_CardinalityType
<1> QED BY <1>1, <1>2

-----------------------------------------------------------------------------
(* Finite sets.                                                            *)

\* A finite set with one element more,
LEMMA AtMostOneMore ==
    ASSUME NEW S, NEW x, IsFiniteSet(S)
    PROVE  IsFiniteSet(S \union {x}) /\ Cardinality(S \union {x}) <= Cardinality(S) + 1
<1>1. Cardinality(S) \in Nat /\ IsFiniteSet(S \union {x})
    BY FS_AddElement, FS_CardinalityType
<1>2. Cardinality(S \union {x}) = Cardinality(S) \/ Cardinality(S \union {x}) = Cardinality(S) + 1
    BY FS_AddElement
<1> QED BY <1>1, <1>2

\* and with one less at least.
LEMMA FewerWithout ==
    ASSUME NEW S, IsFiniteSet(S), NEW T, T \subseteq S, NEW x \in S, x \notin T
    PROVE  IsFiniteSet(T) /\ Cardinality(T) + 1 <= Cardinality(S)
<1>1. IsFiniteSet(S \ {x}) /\ Cardinality(S \ {x}) = Cardinality(S) - 1
    BY FS_RemoveElement
<1>2. T \in SUBSET (S \ {x}) OBVIOUS
<1>3. IsFiniteSet(T) /\ Cardinality(T) <= Cardinality(S \ {x})
    BY <1>1, <1>2, FS_Subset
<1>4. Cardinality(S) \in Nat /\ Cardinality(T) \in Nat
    BY <1>3, FS_CardinalityType
<1> QED BY <1>1, <1>3, <1>4

\* The greatest of a finite set of numbers is taken.
LEMMA MaxIsGreatest ==
    ASSUME NEW n \in Nat, NEW S \in SUBSET (1 .. n), S # {}
    PROVE  Max(S) \in S /\ \A m \in S : m <= Max(S)
<1> DEFINE T == {n - m : m \in S}
<1>1. PICK least \in T : \A k \in T : least <= k
    <2>1. ASSUME NEW m \in S PROVE n - m \in Nat
        BY 1 .. n \subseteq Int
    <2>2. T \in SUBSET Nat
        BY <2>1
    <2>3. T # {}
        OBVIOUS
    <2> HIDE DEF T
    <2> QED BY <2>2, <2>3, LeastNumber
<1>2. PICK g \in S : least = n - g
    BY <1>1
<1>3. \A m \in S : m <= g
    BY <1>1, <1>2
<1>4. \E x \in S : \A y \in S : x >= y
    BY <1>2, <1>3
<1> QED BY <1>4 DEF Max

\* A sum over part of a set, of smaller numbers, is not the greater one.
LEMMA SumMonotone ==
  ASSUME NEW D, NEW f \in [D -> Nat], NEW E, NEW g \in [E -> Nat],
         NEW S \in SUBSET D, S \subseteq E, NEW T \in SUBSET E, S \subseteq T,
         IsFiniteSet(T), \A x \in S : f[x] <= g[x]
  PROVE  SumOver(f, S) \in Nat /\ SumOver(g, T) \in Nat /\ SumOver(f, S) <= SumOver(g, T)
<1> DEFINE Bad == {n \in Nat : \E v \in SUBSET T : Cardinality(v) = n
                                   /\ ~(SumOver(f, v \intersect S) <= SumOver(g, v))}
<1>0. \A v \in SUBSET T : IsFiniteSet(v) /\ IsFiniteSet(v \intersect S)
    BY FS_Subset
<1>1. Bad = {}
    <2> SUFFICES ASSUME Bad # {} PROVE FALSE OBVIOUS
    <2>1. PICK n \in Bad : \A m \in Bad : n <= m
        BY LeastNumber
    <2>2. PICK v \in SUBSET T : Cardinality(v) = n /\ ~(SumOver(f, v \intersect S) <= SumOver(g, v))
        BY <2>1
    <2>3. v # {}
        <3> SUFFICES ASSUME v = {} PROVE FALSE OBVIOUS
        <3>1. SumOver(f, {}) = 0 /\ SumOver(g, {}) = 0 /\ v \intersect S = {}
            BY SumIter, FS_EmptySet
        <3> QED BY <2>2, <3>1
    <2> DEFINE p == Pick(v)  w == v \ {p}
    <2>4. p \in v /\ p \in E /\ w \in SUBSET T /\ Cardinality(w) \in Nat /\ Cardinality(w) < n
        BY <1>0, <2>2, <2>3, Smaller, PickIn
    <2>5. SumOver(f, w \intersect S) <= SumOver(g, w)
        <3>1. n \in Nat /\ ~(Cardinality(w) \in Bad)
            <4>1. n \in Nat OBVIOUS
            <4> HIDE DEF Bad
            <4> QED BY <4>1, <2>1, <2>4
        <3> QED BY <2>4, <3>1
    <2>6. SumOver(g, v) = g[p] + SumOver(g, w) /\ SumOver(g, w) \in Nat /\ g[p] \in Nat
        <3>1. v \in SUBSET E /\ w \in SUBSET E
            BY <2>4
        <3>2. SumOver(g, v) = g[p] + SumOver(g, v \ {p})
            <4>1. IsFiniteSet(v) /\ p \in v
                BY <1>0, <2>4
            <4> HIDE DEF p, w
            <4> QED BY <3>1, <4>1, SumSplits
        <3>3. SumOver(g, w) \in Nat
            <4>1. IsFiniteSet(w)
                BY <1>0, <2>4
            <4> HIDE DEF w
            <4> QED BY <3>1, <4>1, SumSplits
        <3> QED BY <2>4, <3>2, <3>3
    <2>7. SumOver(f, v \intersect S) \in Nat /\ SumOver(f, w \intersect S) \in Nat
        BY <1>0, <2>4, SumSplits
    <2>8. CASE p \in S
        <3>1. (v \intersect S) \ {p} = w \intersect S
            BY <2>4
        <3>2. SumOver(f, v \intersect S) = f[p] + SumOver(f, w \intersect S)
            BY <1>0, <2>4, <2>8, <3>1, SumSplits
        <3>3. f[p] \in Nat /\ f[p] <= g[p]
            BY <2>8
        <3> HIDE DEF p, w
        <3> QED BY <2>2, <2>5, <2>6, <2>7, <3>2, <3>3
    <2>9. CASE p \notin S
        <3>1. SumOver(f, v \intersect S) = SumOver(f, w \intersect S)
            <4>1. v \intersect S = w \intersect S
                BY <2>9
            <4> QED BY <4>1
        <3> HIDE DEF p, w
        <3> QED BY <2>2, <2>5, <2>6, <2>7, <3>1
    <2> QED BY <2>8, <2>9
<1>2. Cardinality(T) \in Nat /\ T \intersect S = S
    BY FS_CardinalityType
<1>3. SumOver(f, S) \in Nat /\ SumOver(g, T) \in Nat
    BY <1>0, <1>2, SumSplits
<1> QED BY <1>1, <1>2, <1>3

\* A part of a sum with one summand at most, of c at most, adds c at most.
LEMMA SumOfOne ==
  ASSUME NEW D, NEW f \in [D -> Nat], NEW S \in SUBSET D, IsFiniteSet(S),
         NEW T \in SUBSET S, \A x, y \in T : x = y, NEW c \in Nat, \A x \in T : f[x] <= c
  PROVE  /\ SumOver(f, S) \in Nat /\ SumOver(f, S \ T) \in Nat
         /\ SumOver(f, S) <= c + SumOver(f, S \ T)
<1>1. SumOver(f, S) \in Nat /\ SumOver(f, S \ T) \in Nat
    <2>1. IsFiniteSet(S \ T) BY FS_Subset
    <2> QED BY <2>1, SumSplits
<1>2. CASE T = {}
    <2>1. S \ T = S BY <1>2
    <2> QED BY <1>1, <2>1
<1>3. CASE T # {}
    <2>1. PICK x \in T : TRUE BY <1>3
    <2>2. S \ T = S \ {x} BY <2>1
    <2>3. SumOver(f, S) = f[x] + SumOver(f, S \ {x}) BY <2>1, SumSplits
    <2>4. f[x] \in Nat /\ f[x] <= c BY <2>1
    <2> QED BY <1>1, <2>2, <2>3, <2>4
<1> QED BY <1>2, <1>3

\* Summands of c at most make c times their number at most.
LEMMA SumOfMany ==
  ASSUME NEW D, NEW f \in [D -> Nat], NEW S \in SUBSET D, IsFiniteSet(S),
         NEW c \in Nat, \A x \in S : f[x] <= c
  PROVE  SumOver(f, S) <= c * Cardinality(S)
<1> DEFINE Bad == {n \in Nat : \E v \in SUBSET S : Cardinality(v) = n
                                   /\ ~(SumOver(f, v) <= c * n)}
<1>0. \A v \in SUBSET S : IsFiniteSet(v)
    BY FS_Subset
<1>1. Bad = {}
    <2> SUFFICES ASSUME Bad # {} PROVE FALSE OBVIOUS
    <2>1. PICK n \in Bad : \A m \in Bad : n <= m
        BY LeastNumber
    <2>2. PICK v \in SUBSET S : Cardinality(v) = n /\ ~(SumOver(f, v) <= c * n)
        BY <2>1
    <2>3. v # {}
        <3> SUFFICES ASSUME v = {} PROVE FALSE OBVIOUS
        <3>1. SumOver(f, {}) = 0 /\ n = 0
            BY <2>2, SumIter, FS_EmptySet
        <3> QED BY <2>2, <3>1
    <2> DEFINE p == Pick(v)  w == v \ {p}
    <2>4. p \in v /\ p \in D /\ w \in SUBSET S
        BY <2>3, PickIn
    <2>5. Cardinality(w) = n - 1 /\ n - 1 \in Nat
        <3>1. Cardinality(w) = Cardinality(v) - 1 /\ Cardinality(w) \in Nat
            BY <1>0, <2>4, FS_RemoveElement, FS_CardinalityType
        <3> QED BY <2>2, <3>1
    <2>6. SumOver(f, w) <= c * (n - 1)
        <3>1. n - 1 < n BY <2>5
        <3>2. n - 1 \notin Bad
            <4>1. n \in Nat OBVIOUS
            <4> HIDE DEF Bad
            <4> QED BY <2>1, <2>5, <3>1, <4>1
        <3> QED BY <2>4, <2>5, <3>2
    <2>7. SumOver(f, v) = f[p] + SumOver(f, w) /\ SumOver(f, w) \in Nat /\ f[p] \in Nat /\ f[p] <= c
        BY <1>0, <2>4, SumSplits
    <2>8. c * n = c + c * (n - 1)
        BY <2>5
    <2> HIDE DEF p, w
    <2> QED BY <2>2, <2>5, <2>6, <2>7, <2>8
<1>2. Cardinality(S) \in Nat
    BY FS_CardinalityType
<1> QED BY <1>1, <1>2

\* Each summand scaled by k over d and rounded, e over d upwards at most: the
\* sum is no more than that many times e over d above the scaled one.
LEMMA SumRounded ==
  ASSUME NEW D, NEW f \in [D -> Nat], NEW S \in SUBSET D, IsFiniteSet(S),
         NEW k \in Nat, NEW d \in Nat, NEW e \in Nat,
         NEW g \in [D -> Nat], \A x \in S : d * g[x] <= k * f[x] + e
  PROVE  d * SumOver(g, S) <= k * SumOver(f, S) + e * Cardinality(S)
<1> DEFINE Bad == {n \in Nat : \E v \in SUBSET S : Cardinality(v) = n
                                   /\ ~(d * SumOver(g, v) <= k * SumOver(f, v) + e * n)}
<1>0. \A v \in SUBSET S : IsFiniteSet(v)
    BY FS_Subset
<1>1. Bad = {}
    <2> SUFFICES ASSUME Bad # {} PROVE FALSE OBVIOUS
    <2>1. PICK n \in Bad : \A m \in Bad : n <= m
        BY LeastNumber
    <2>2. PICK v \in SUBSET S : Cardinality(v) = n
                                /\ ~(d * SumOver(g, v) <= k * SumOver(f, v) + e * n)
        BY <2>1
    <2>3. v # {}
        <3> SUFFICES ASSUME v = {} PROVE FALSE OBVIOUS
        <3>1. SumOver(f, {}) = 0 /\ SumOver(g, {}) = 0 /\ n = 0
            BY <2>2, SumIter, FS_EmptySet
        <3>2. ~(d * 0 <= k * 0 + e * 0)
            BY <2>2, <3>1
        <3> QED BY <3>2
    <2> DEFINE p == Pick(v)  w == v \ {p}
    <2>4. p \in v /\ p \in D /\ w \in SUBSET S
        BY <2>3, PickIn
    <2>5. Cardinality(w) = n - 1 /\ n - 1 \in Nat
        <3>1. IsFiniteSet(v) /\ IsFiniteSet(w) /\ p \in v
            BY <1>0, <2>4
        <3> HIDE DEF p
        <3>2. Cardinality(w) = Cardinality(v) - 1
            BY <3>1, FS_RemoveElement
        <3>3. Cardinality(w) \in Nat
            BY <3>1, FS_CardinalityType
        <3> QED BY <2>2, <3>2, <3>3
    <2>6. d * SumOver(g, w) <= k * SumOver(f, w) + e * (n - 1)
        <3>1. n - 1 < n BY <2>5
        <3>2. n - 1 \notin Bad
            <4>1. n \in Nat OBVIOUS
            <4> HIDE DEF Bad
            <4> QED BY <2>1, <2>5, <3>1, <4>1
        <3> QED BY <2>4, <2>5, <3>2
    <2>7. SumOver(f, v) = f[p] + SumOver(f, w) /\ SumOver(f, w) \in Nat /\ f[p] \in Nat
        BY <1>0, <2>4, SumSplits
    <2>8. SumOver(g, v) = g[p] + SumOver(g, w) /\ SumOver(g, w) \in Nat /\ g[p] \in Nat
        BY <1>0, <2>4, SumSplits
    <2>9. d * g[p] <= k * f[p] + e
        BY <2>4
    <2> HIDE DEF p, w
    <2>10. /\ d * SumOver(g, v) = d * g[p] + d * SumOver(g, w)
           /\ k * SumOver(f, v) = k * f[p] + k * SumOver(f, w)
           /\ e * n = e + e * (n - 1)
        BY <2>5, <2>7, <2>8
    <2> QED BY <2>2, <2>5, <2>6, <2>7, <2>8, <2>9, <2>10
<1>2. Cardinality(S) \in Nat
    BY FS_CardinalityType
<1> QED BY <1>1, <1>2
=============================================================================
